-------------------------- MODULE WebSocketsProofs --------------------------
(***************************************************************************)
(* Theorems about one connection: what its handlers are given is what was  *)
(* sent, whole, once and in order, at the server until a header is cut in  *)
(* two, and a destroyed connection is in no list.                          *)
(*                                                                         *)
(* The messages of one direction are laid out on a line, frame by frame,   *)
(* and every buffer holds a segment of that line.                          *)
(***************************************************************************)
EXTENDS WebSockets, TLAPS, NaturalsInduction, WellFoundedInduction, FiniteSetTheorems

\* Every non-empty set of naturals has a least element.
LEMMA LeastNatural ==
  ASSUME NEW N \in SUBSET Nat, N # {}
  PROVE  \E m \in N : \A k \in N : m <= k
<1> DEFINE R == {ss \in Nat \X Nat : ss[1] < ss[2]}
<1>1. IsWellFoundedOn(R, Nat)
  BY NatLessThanWellFounded DEF OpToRel
<1>2. PICK m \in N : \A k \in N : ~(<<k, m>> \in R)
  <2> HIDE DEF R
  <2> QED BY <1>1, WFMin
<1>3. ASSUME NEW k \in N PROVE m <= k
  <2>1. k \in Nat /\ m \in Nat
    OBVIOUS
  <2>2. k < m => <<k, m>> \in R
    BY <2>1
  <2>3. ~(k < m)
    <3> HIDE DEF R
    <3> QED BY <1>2, <2>2
  <2> QED BY <2>1, <2>3
<1> QED BY <1>3

-----------------------------------------------------------------------------
(* Segments of a line *)

\* The pieces of q are those of the line from the place after x on.
At(q, line, x) == \A j \in 1..Len(q) : q[j] = line[x + j]

\* A segment of a segment.
LEMMA AtSub ==
  ASSUME NEW B, NEW q \in Seq(B), NEW line, NEW x \in Nat, At(q, line, x),
         NEW i \in 1..(Len(q) + 1), NEW j \in 0..Len(q), i <= j + 1
  PROVE  /\ SubSeq(q, i, j) \in Seq(B) /\ Len(SubSeq(q, i, j)) = j - i + 1
         /\ At(SubSeq(q, i, j), line, x + i - 1)
<1> SUFFICES ASSUME NEW r, r = SubSeq(q, i, j)
    PROVE r \in Seq(B) /\ Len(r) = j - i + 1 /\ At(r, line, x + i - 1)
  OBVIOUS
<1>1. r \in Seq(B) /\ Len(r) = j - i + 1 /\ \A k \in 1..(j - i + 1) : r[k] = q[i + k - 1]
  OBVIOUS
<1>2. ASSUME NEW k \in 1..Len(r) PROVE r[k] = line[x + i - 1 + k]
  <2>1. i + k - 1 \in 1..Len(q) /\ r[k] = q[i + k - 1]
    BY <1>1
  <2>2. q[i + k - 1] = line[x + (i + k - 1)]
    BY <2>1 DEF At
  <2>3. x + (i + k - 1) = x + i - 1 + k
    OBVIOUS
  <2> QED BY <2>1, <2>2, <2>3
<1> QED BY <1>1, <1>2 DEF At

\* What is left of a segment.
LEMMA AtRest ==
  ASSUME NEW B, NEW q \in Seq(B), NEW line, NEW x \in Nat, At(q, line, x), NEW k \in 0..Len(q)
  PROVE  /\ SubSeq(q, k + 1, Len(q)) \in Seq(B) /\ Len(SubSeq(q, k + 1, Len(q))) = Len(q) - k
         /\ At(SubSeq(q, k + 1, Len(q)), line, x + k)
<1> SUFFICES ASSUME NEW i, i = k + 1, NEW j, j = Len(q)
    PROVE  /\ SubSeq(q, i, j) \in Seq(B) /\ Len(SubSeq(q, i, j)) = Len(q) - k
           /\ At(SubSeq(q, i, j), line, x + k)
  OBVIOUS
<1>1. i \in 1..(Len(q) + 1) /\ j \in 0..Len(q) /\ i <= j + 1
  OBVIOUS
<1>2. /\ SubSeq(q, i, j) \in Seq(B) /\ Len(SubSeq(q, i, j)) = j - i + 1
      /\ At(SubSeq(q, i, j), line, x + i - 1)
  BY <1>1, AtSub, SMTT(30)
<1>3. j - i + 1 = Len(q) - k /\ x + i - 1 = x + k
  OBVIOUS
<1> QED BY <1>2, <1>3

\* The first pieces of a segment.
LEMMA AtFirst ==
  ASSUME NEW B, NEW q \in Seq(B), NEW line, NEW x \in Nat, At(q, line, x), NEW k \in 0..Len(q)
  PROVE  /\ SubSeq(q, 1, k) \in Seq(B) /\ Len(SubSeq(q, 1, k)) = k
         /\ At(SubSeq(q, 1, k), line, x)
<1>1. 1 \in 1..(Len(q) + 1) /\ k \in 0..Len(q) /\ 1 <= k + 1
  OBVIOUS
<1>2. /\ SubSeq(q, 1, k) \in Seq(B) /\ Len(SubSeq(q, 1, k)) = k - 1 + 1
      /\ At(SubSeq(q, 1, k), line, x + 1 - 1)
  BY <1>1, AtSub
<1>3. k - 1 + 1 = k /\ x + 1 - 1 = x
  OBVIOUS
<1> QED BY <1>2, <1>3

\* The pieces of two lists in a row.
LEMMA Concatenation ==
  ASSUME NEW B, NEW q \in Seq(B), NEW r \in Seq(B)
  PROVE  /\ q \o r \in Seq(B) /\ Len(q \o r) = Len(q) + Len(r)
         /\ \A k \in 1..Len(q) : (q \o r)[k] = q[k]
         /\ \A k \in 1..Len(r) : (q \o r)[Len(q) + k] = r[k]
  OBVIOUS

\* A segment and the one after it.
LEMMA AtConcat ==
  ASSUME NEW B, NEW q \in Seq(B), NEW r \in Seq(B), NEW line, NEW x \in Nat,
         At(q, line, x), At(r, line, x + Len(q))
  PROVE  q \o r \in Seq(B) /\ Len(q \o r) = Len(q) + Len(r) /\ At(q \o r, line, x)
<1> SUFFICES ASSUME NEW s, s = q \o r
    PROVE s \in Seq(B) /\ Len(s) = Len(q) + Len(r) /\ At(s, line, x)
  OBVIOUS
<1>1. /\ s \in Seq(B) /\ Len(s) = Len(q) + Len(r)
      /\ \A k \in 1..Len(q) : s[k] = q[k]
      /\ \A k \in 1..Len(r) : s[Len(q) + k] = r[k]
  OBVIOUS
<1>2. ASSUME NEW k \in 1..Len(s) PROVE s[k] = line[x + k]
  <2>1. CASE k \in 1..Len(q)
    BY <1>1, <2>1 DEF At
  <2>2. CASE k \notin 1..Len(q)
    <3>1. PICK i \in 1..Len(r) : k = Len(q) + i
      <4>1. k - Len(q) \in 1..Len(r) /\ k = Len(q) + (k - Len(q))
        BY <1>1, <2>2
      <4> QED BY <4>1
    <3>2. r[i] = line[x + Len(q) + i] /\ x + Len(q) + i = x + (Len(q) + i)
      BY DEF At
    <3> QED BY <1>1, <3>1, <3>2
  <2> QED BY <2>1, <2>2
<1> QED BY <1>1, <1>2 DEF At

\* Two segments of the same place and length are equal.
LEMMA AtSame ==
  ASSUME NEW B, NEW q \in Seq(B), NEW r \in Seq(B), NEW line, NEW x,
         At(q, line, x), At(r, line, x), Len(q) = Len(r)
  PROVE  q = r
<1>1. \A k \in 1..Len(q) : q[k] = r[k]
  BY DEF At
<1> QED BY <1>1

\* A list that is piece by piece the beginning of another.
LEMMA PrefixOf ==
  ASSUME NEW B, NEW q \in Seq(B), NEW r \in Seq(B), Len(q) <= Len(r),
         \A k \in 1..Len(q) : q[k] = r[k]
  PROVE  IsPrefix(q, r)
<1>1. SubSeq(q, 1, Len(q)) = SubSeq(r, 1, Len(q))
  OBVIOUS
<1> QED BY <1>1 DEF IsPrefix

-----------------------------------------------------------------------------
(* Messages and frames *)

Message == [by : Sender, n : Nat, kind : Kind, size : Nat \ {0}]

\* The pieces that a frame has.
Bytes ==
  [part : {"head", "length"}, size : Int] \cup {[part |-> "mask"]}
    \cup [part : {"data"}, of : Message, at : Nat]

\* The pieces before the mask.
HeaderSize(m) == IF m.size < LongFrom THEN 1 ELSE 2

\* The pieces before the payload.
Before(m, mask) == HeaderSize(m) + (IF mask THEN 1 ELSE 0)

\* A message has some payload.
LEMMA MessageSize ==
  ASSUME NEW m \in Message
  PROVE  m.size \in Nat /\ m.size >= 1 /\ HeaderSize(m) \in {1, 2}
<1>2. m.size \in Nat /\ m.size # 0
  BY DEF Message
<1>3. HeaderSize(m) \in {1, 2}
  BY DEF HeaderSize
<1> QED BY <1>2, <1>3

\* The payload names its message.
LEMMA PayloadShape ==
  ASSUME NEW m \in Message
  PROVE  /\ Payload(m) \in Seq(Bytes) /\ Len(Payload(m)) = m.size
         /\ Payload(m)[1].of = m
<1>1. m.size \in Nat /\ m.size >= 1
  BY MessageSize
<1>2. \A i \in 1..m.size : [part |-> "data", of |-> m, at |-> i] \in Bytes
  <2> HIDE DEF Message
  <2> QED BY <1>1 DEF Bytes
<1> SUFFICES ASSUME NEW p, p = [i \in 1..m.size |-> [part |-> "data", of |-> m, at |-> i]]
    PROVE p \in Seq(Bytes) /\ Len(p) = m.size /\ p[1].of = m
  BY DEF Payload
<1>3. \A i \in 1..m.size : p[i] \in Bytes
  BY <1>2
<1>4. p \in [1..m.size -> Bytes]
  BY <1>3
<1>5. p \in Seq(Bytes) /\ Len(p) = m.size
  <2> HIDE DEF Bytes
  <2> QED BY <1>1, <1>4
<1> QED BY <1>1, <1>5

\* A frame is its header, its mask if it has one, and its payload.
LEMMA FrameShape ==
  ASSUME NEW m \in Message, NEW mask \in BOOLEAN
  PROVE  LET f == Frame(m, mask)
             h == HeaderSize(m)
         IN  /\ f \in Seq(Bytes)
             /\ Len(f) = Before(m, mask) + m.size
             /\ f[h].size = m.size
             /\ f[1].size < 0 <=> h = 2
             /\ At(Payload(m), f, Before(m, mask))
<1>0. /\ m.size \in Nat /\ m.size >= 1 /\ HeaderSize(m) \in {1, 2}
      /\ Payload(m) \in Seq(Bytes) /\ Len(Payload(m)) = m.size
  BY MessageSize, PayloadShape
<1>1. PICK p : p = Payload(m)
  OBVIOUS
<1>2. PICK a : a = IF m.size < LongFrom
                   THEN <<[part |-> "head", size |-> m.size]>>
                   ELSE <<[part |-> "head", size |-> -1], [part |-> "length", size |-> m.size]>>
  OBVIOUS
<1>3. PICK b : b = IF mask THEN <<[part |-> "mask"]>> ELSE <<>>
  OBVIOUS
<1>4. PICK f : f = Frame(m, mask)
  OBVIOUS
<1>5. f = a \o b \o p
  BY <1>1, <1>2, <1>3, <1>4 DEF Frame
<1>6. /\ a \in Seq(Bytes) /\ Len(a) = HeaderSize(m) /\ a[HeaderSize(m)].size = m.size
      /\ a[1].size < 0 <=> HeaderSize(m) = 2
  <2>1. CASE m.size < LongFrom
    <3>1. [part |-> "head", size |-> m.size] \in Bytes
      BY <1>0 DEF Bytes
    <3>2. a = <<[part |-> "head", size |-> m.size]>> /\ HeaderSize(m) = 1
      BY <1>2, <2>1 DEF HeaderSize
    <3> HIDE DEF Bytes
    <3> QED BY <1>0, <3>1, <3>2
  <2>2. CASE ~(m.size < LongFrom)
    <3>1. /\ [part |-> "head", size |-> -1] \in Bytes
          /\ [part |-> "length", size |-> m.size] \in Bytes
      BY <1>0 DEF Bytes
    <3>2. /\ a = <<[part |-> "head", size |-> -1], [part |-> "length", size |-> m.size]>>
          /\ HeaderSize(m) = 2
      BY <1>2, <2>2 DEF HeaderSize
    <3> QED BY <1>0, <3>1, <3>2
  <2> QED BY <2>1, <2>2
<1>7. b \in Seq(Bytes) /\ Len(b) = IF mask THEN 1 ELSE 0
  <2>1. [part |-> "mask"] \in Bytes
    BY DEF Bytes
  <2> QED BY <1>3, <2>1
<1> HIDE DEF Bytes
<1>8. /\ f \in Seq(Bytes) /\ Len(f) = Len(a) + Len(b) + Len(p)
      /\ \A i \in 1..Len(a) : f[i] = a[i]
      /\ \A i \in 1..Len(p) : f[Len(a) + Len(b) + i] = p[i]
  <2>1. PICK c : c = a \o b
    OBVIOUS
  <2>2. /\ c \in Seq(Bytes) /\ Len(c) = Len(a) + Len(b)
        /\ \A i \in 1..Len(a) : c[i] = a[i]
    <3>1. /\ a \o b \in Seq(Bytes) /\ Len(a \o b) = Len(a) + Len(b)
          /\ \A i \in 1..Len(a) : (a \o b)[i] = a[i]
      BY <1>6, <1>7, Concatenation, SMTT(30)
    <3> QED BY <2>1, <3>1, Zenon
  <2>3. p \in Seq(Bytes) /\ f = c \o p
    BY <1>0, <1>1, <1>5, <2>1
  <2>4. /\ f \in Seq(Bytes) /\ Len(f) = Len(c) + Len(p)
        /\ \A i \in 1..Len(c) : f[i] = c[i]
        /\ \A i \in 1..Len(p) : f[Len(c) + i] = p[i]
    <3>1. c \in Seq(Bytes)
      BY <2>2
    <3>2. /\ c \o p \in Seq(Bytes) /\ Len(c \o p) = Len(c) + Len(p)
          /\ \A k \in 1..Len(c) : (c \o p)[k] = c[k]
          /\ \A k \in 1..Len(p) : (c \o p)[Len(c) + k] = p[k]
      BY <3>1, <2>3, Concatenation
    <3> QED BY <3>2, <2>3, Zenon
  <2>5. Len(a) \in Nat /\ Len(b) \in Nat
    BY <1>6, <1>7
  <2> QED BY <2>2, <2>4, <2>5
<1>9. Len(a) + Len(b) = Before(m, mask)
  BY <1>6, <1>7 DEF Before
<1>10. At(p, f, Before(m, mask))
  BY <1>8, <1>9 DEF At
<1>11. f[1].size = a[1].size /\ f[HeaderSize(m)].size = a[HeaderSize(m)].size
  BY <1>0, <1>6, <1>8
<1> QED BY <1>0, <1>1, <1>4, <1>6, <1>8, <1>9, <1>10, <1>11

\* A segment of a segment lies on the line.
LEMMA AtWithin ==
  ASSUME NEW B, NEW q \in Seq(B), NEW f \in Seq(B), NEW line, NEW x \in Nat, NEW y \in Nat,
         At(q, f, y), At(f, line, x), y + Len(q) <= Len(f)
  PROVE  At(q, line, x + y)
<1>1. ASSUME NEW j \in 1..Len(q) PROVE q[j] = line[x + y + j]
  <2>1. y + j \in 1..Len(f) /\ x + (y + j) = x + y + j
    OBVIOUS
  <2>2. q[j] = f[y + j]
    BY DEF At
  <2>3. f[y + j] = line[x + (y + j)]
    BY <2>1 DEF At
  <2> QED BY <2>1, <2>2, <2>3
<1> QED BY <1>1 DEF At

\* A segment stays where it is when the line grows, and the line grows by what
\* is appended.
LEMMA AtGrow ==
  ASSUME NEW B, NEW q \in Seq(B), NEW line \in Seq(B), NEW f \in Seq(B), NEW x \in Nat,
         At(q, line, x), x + Len(q) <= Len(line)
  PROVE  At(q, line \o f, x)
<1> SUFFICES ASSUME NEW s, s = line \o f PROVE At(q, s, x)
  OBVIOUS
<1>1. \A k \in 1..Len(line) : s[k] = line[k]
  OBVIOUS
<1>2. ASSUME NEW j \in 1..Len(q) PROVE q[j] = s[x + j]
  <2>1. x + j \in 1..Len(line)
    OBVIOUS
  <2> QED BY <1>1, <2>1 DEF At
<1> QED BY <1>2 DEF At

\* What is appended is a segment at the end.
LEMMA AtEnd ==
  ASSUME NEW B, NEW line \in Seq(B), NEW f \in Seq(B)
  PROVE  At(f, line \o f, Len(line))
<1> SUFFICES ASSUME NEW s, s = line \o f PROVE At(f, s, Len(line))
  OBVIOUS
<1>1. \A k \in 1..Len(f) : s[Len(line) + k] = f[k]
  OBVIOUS
<1> QED BY <1>1 DEF At

-----------------------------------------------------------------------------
(* The line of a list of messages *)

\* The frames of W one after the other, the frame of W[i] from cut[i - 1] to
\* cut[i].
Layout(W, mask, line, cut) ==
  /\ line \in Seq(Bytes) /\ cut \in [0..Len(W) -> Nat]
  /\ cut[0] = 0 /\ cut[Len(W)] = Len(line)
  /\ \A i \in 0..Len(W) : cut[i] <= Len(line)
  /\ \A i \in 1..Len(W) : /\ cut[i] = cut[i - 1] + Len(Frame(W[i], mask))
                          /\ At(Frame(W[i], mask), line, cut[i - 1])

\* The layout with another message.
GrownLayout(W, m, mask, line, cut) ==
  \E c : /\ Layout(Append(W, m), mask, line \o Frame(m, mask), c)
        /\ \A i \in 0..Len(W) : c[i] = cut[i]

\* Another message is at the end of the line.
LEMMA LayoutAppend ==
  ASSUME NEW W \in Seq(Message), NEW m \in Message, NEW mask \in BOOLEAN,
         NEW line, NEW cut, Layout(W, mask, line, cut)
  PROVE  GrownLayout(W, m, mask, line, cut)
<1>1. PICK f : f = Frame(m, mask)
  OBVIOUS
<1>2. f \in Seq(Bytes)
  BY <1>1, FrameShape
<1>3. PICK V : V = Append(W, m)
  OBVIOUS
<1>4. PICK s : s = line \o f
  OBVIOUS
<1>5. /\ V \in Seq(Message) /\ Len(V) = Len(W) + 1 /\ V[Len(W) + 1] = m
      /\ \A i \in 1..Len(W) : V[i] = W[i]
  <2> HIDE DEF Message
  <2> QED BY <1>3
<1>6. line \in Seq(Bytes)
  BY DEF Layout
<1>7. s \in Seq(Bytes) /\ Len(s) = Len(line) + Len(f)
  <2> HIDE DEF Bytes
  <2> QED BY <1>2, <1>4, <1>6
<1>8. PICK c : c = [i \in 0..Len(V) |-> IF i <= Len(W) THEN cut[i] ELSE Len(s)]
  OBVIOUS
<1>9. Len(W) \in Nat /\ Len(line) \in Nat /\ Len(f) \in Nat
  <2> HIDE DEF Bytes, Message
  <2> QED BY <1>2, <1>6
<1>10. /\ c \in [0..Len(V) -> Nat] /\ c[Len(W) + 1] = Len(s)
       /\ \A i \in 0..Len(W) : c[i] = cut[i]
  <2>1. \A i \in 0..Len(W) : cut[i] \in Nat
    BY DEF Layout
  <2>2. Len(V) = Len(W) + 1 /\ Len(s) \in Nat
    BY <1>5, <1>7, <1>9
  <2> QED BY <1>8, <1>9, <2>1, <2>2
<1>11. \A i \in 0..Len(V) : c[i] <= Len(s)
  <2>1. \A i \in 0..Len(W) : cut[i] \in Nat /\ cut[i] <= Len(line)
    BY DEF Layout
  <2>2. ASSUME NEW i \in 0..Len(V) PROVE c[i] <= Len(s)
    <3>1. i \in 0..Len(W) \/ i = Len(W) + 1
      BY <1>5, <1>9
    <3> QED BY <1>7, <1>9, <1>10, <2>1, <3>1
  <2> QED BY <2>2
<1>12. ASSUME NEW i \in 1..Len(V)
       PROVE  c[i] = c[i - 1] + Len(Frame(V[i], mask)) /\ At(Frame(V[i], mask), s, c[i - 1])
  <2>1. CASE i \in 1..Len(W)
    <3>1. /\ cut[i] = cut[i - 1] + Len(Frame(W[i], mask))
          /\ At(Frame(W[i], mask), line, cut[i - 1])
          /\ cut[i] <= Len(line) /\ cut[i - 1] \in Nat
      <4>1. /\ cut[i] = cut[i - 1] + Len(Frame(W[i], mask))
            /\ At(Frame(W[i], mask), line, cut[i - 1])
        BY <2>1 DEF Layout
      <4>2. i \in 0..Len(W) /\ i - 1 \in 0..Len(W)
        BY <1>9, <2>1
      <4>3. cut[i] <= Len(line) /\ cut[i - 1] \in Nat
        BY <4>2 DEF Layout
      <4> QED BY <4>1, <4>3
    <3>2. c[i] = cut[i] /\ c[i - 1] = cut[i - 1] /\ V[i] = W[i]
      BY <1>5, <1>9, <1>10, <2>1
    <3>3. PICK g : g = Frame(W[i], mask)
      OBVIOUS
    <3>4. g \in Seq(Bytes)
      BY <2>1, <3>3, FrameShape
    <3>5. At(g, line, cut[i - 1]) /\ cut[i - 1] + Len(g) <= Len(line)
      BY <3>1, <3>3
    <3>6. At(g, line \o f, cut[i - 1])
      <4> HIDE DEF Bytes
      <4> QED BY <1>2, <1>6, <3>1, <3>4, <3>5, AtGrow
    <3> QED BY <1>4, <3>1, <3>2, <3>3, <3>6
  <2>2. CASE i = Len(W) + 1
    <3>1. At(f, line \o f, Len(line))
      BY <1>2, <1>6, AtEnd
    <3>2. c[i] = Len(line) + Len(f) /\ c[i - 1] = Len(line)
      <4>1. i - 1 = Len(W) /\ Len(W) \in 0..Len(W)
        BY <1>9, <2>2
      <4>2. cut[Len(W)] = Len(line)
        BY DEF Layout
      <4> QED BY <1>7, <1>10, <2>2, <4>1, <4>2
    <3> QED BY <1>1, <1>4, <1>5, <2>2, <3>1, <3>2
  <2>3. i \in 1..Len(W) \/ i = Len(W) + 1
    BY <1>5, <1>9
  <2> QED BY <2>1, <2>2, <2>3
<1>13. c[0] = 0
  BY <1>9, <1>10 DEF Layout
<1>14. Layout(V, mask, s, c)
  BY <1>5, <1>7, <1>10, <1>11, <1>12, <1>13 DEF Layout
<1> QED BY <1>1, <1>3, <1>4, <1>10, <1>14 DEF GrownLayout

-----------------------------------------------------------------------------
(* From the client to the server *)

\* What is on the way to the server and what waits in txbuf are the rest of
\* the line, from x on.
Rest(line, x, way, tx) ==
  /\ x \in Nat /\ At(way, line, x) /\ At(tx, line, x + Len(way))
  /\ x + Len(way) + Len(tx) = Len(line)

\* The messages W[1..g] have been read, and of the next one what the state of
\* the connection says.
Place(W, cut, g, x, s) ==
  LET m == W[g + 1]
  IN  /\ g \in 0..Len(W) /\ s.fragment = <<>>
      /\ s.state \in {"MiniHeader", "Len", "Mask", "Payload"}
      /\ s.state = "MiniHeader" => x = cut[g]
      /\ s.state # "MiniHeader" => g < Len(W)
      /\ s.state = "Len" => x = cut[g] + 1 /\ HeaderSize(m) = 2
      /\ s.state = "Mask" => x = cut[g] + HeaderSize(m) /\ s.remaining_length = m.size
      /\ s.state = "Payload" =>
           x = cut[g] + HeaderSize(m) + 1 /\ s.remaining_length = m.size

\* A read takes from the line what comes first.
LEMMA RestRead ==
  ASSUME NEW line, NEW x, NEW way \in Seq(Bytes), NEW tx \in Seq(Bytes),
         Rest(line, x, way, tx), NEW k \in 0..Len(way)
  PROVE  Rest(line, x + k, SubSeq(way, k + 1, Len(way)), tx)
<1>0. x \in Nat /\ Len(way) \in Nat /\ Len(tx) \in Nat /\ k \in Nat
  <2> HIDE DEF Bytes
  <2> QED BY DEF Rest
<1>1. PICK r : r = SubSeq(way, k + 1, Len(way))
  OBVIOUS
<1>2. At(way, line, x) /\ At(tx, line, x + Len(way)) /\ x + Len(way) + Len(tx) = Len(line)
  BY DEF Rest
<1>3. Len(r) = Len(way) - k /\ At(r, line, x + k)
  <2> HIDE DEF Bytes
  <2> QED BY <1>0, <1>1, <1>2, AtRest
<1>4. x + k \in Nat /\ x + k + Len(r) = x + Len(way)
  BY <1>0, <1>3
<1>5. Rest(line, x + k, r, tx)
  BY <1>2, <1>3, <1>4 DEF Rest
<1> QED BY <1>1, <1>5

\* A poll passes on what the network accepts.
LEMMA RestPoll ==
  ASSUME NEW line, NEW x, NEW way \in Seq(Bytes), NEW tx \in Seq(Bytes),
         Rest(line, x, way, tx), NEW k \in 0..Len(tx)
  PROVE  Rest(line, x, way \o SubSeq(tx, 1, k), SubSeq(tx, k + 1, Len(tx)))
<1>0. x \in Nat /\ Len(way) \in Nat /\ Len(tx) \in Nat /\ k \in Nat
  <2> HIDE DEF Bytes
  <2> QED BY DEF Rest
<1>1. PICK r : r = SubSeq(tx, k + 1, Len(tx))
  OBVIOUS
<1>2. PICK a : a = SubSeq(tx, 1, k)
  OBVIOUS
<1>3. PICK w : w = way \o a
  OBVIOUS
<1>4. At(way, line, x) /\ At(tx, line, x + Len(way)) /\ x + Len(way) + Len(tx) = Len(line)
  BY DEF Rest
<1>5. a \in Seq(Bytes) /\ Len(a) = k /\ At(a, line, x + Len(way))
  <2>1. x + Len(way) \in Nat
    BY <1>0
  <2> HIDE DEF Bytes
  <2> QED BY <1>2, <1>4, <2>1, AtFirst
<1>6. Len(r) = Len(tx) - k /\ At(r, line, x + Len(way) + k)
  <2>1. x + Len(way) \in Nat
    BY <1>0
  <2> HIDE DEF Bytes
  <2> QED BY <1>1, <1>4, <2>1, AtRest
<1>7. Len(w) = Len(way) + k /\ At(w, line, x)
  <2>1. Len(way \o a) = Len(way) + Len(a) /\ At(way \o a, line, x)
    <3> HIDE DEF Bytes
    <3> QED BY <1>0, <1>4, <1>5, AtConcat
  <2> QED BY <1>3, <1>5, <2>1
<1>8. x + Len(way) + k = x + Len(w) /\ x + Len(w) + Len(r) = Len(line)
  BY <1>0, <1>4, <1>6, <1>7, SMTT(30)
<1>9. Rest(line, x, w, r)
  BY <1>0, <1>6, <1>7, <1>8 DEF Rest
<1> QED BY <1>1, <1>2, <1>3, <1>9

\* A message that is sent is at the end of the line and of txbuf.
LEMMA RestSend ==
  ASSUME NEW line \in Seq(Bytes), NEW x, NEW way \in Seq(Bytes), NEW tx \in Seq(Bytes),
         Rest(line, x, way, tx), NEW f \in Seq(Bytes)
  PROVE  Rest(line \o f, x, way, tx \o f)
<1>0. /\ x \in Nat /\ Len(way) \in Nat /\ Len(tx) \in Nat /\ Len(f) \in Nat
      /\ Len(line) \in Nat
  <2> HIDE DEF Bytes
  <2> QED BY DEF Rest
<1>1. PICK s : s = line \o f
  OBVIOUS
<1>2. PICK t : t = tx \o f
  OBVIOUS
<1>3. At(way, line, x) /\ At(tx, line, x + Len(way)) /\ x + Len(way) + Len(tx) = Len(line)
  BY DEF Rest
<1>4. x + Len(way) \in Nat /\ x + Len(way) <= Len(line)
  BY <1>0, <1>3
<1>5. Len(s) = Len(line) + Len(f)
  <2> HIDE DEF Bytes
  <2> QED BY <1>1
<1>6. At(way, s, x) /\ At(tx, s, x + Len(way))
  <2>1. At(way, line \o f, x)
    <3> HIDE DEF Bytes
    <3> QED BY <1>0, <1>3, <1>4, AtGrow
  <2>2. At(tx, line \o f, x + Len(way))
    <3>1. x + Len(way) + Len(tx) <= Len(line)
      BY <1>0, <1>3
    <3> HIDE DEF Bytes
    <3> QED BY <1>3, <1>4, <3>1, AtGrow
  <2> QED BY <1>1, <2>1, <2>2
<1>7. At(f, s, x + Len(way) + Len(tx))
  <2>1. At(f, line \o f, Len(line))
    <3> HIDE DEF Bytes
    <3> QED BY AtEnd
  <2> QED BY <1>1, <1>3, <2>1
<1>8. Len(t) = Len(tx) + Len(f) /\ At(t, s, x + Len(way))
  <2>1. Len(tx \o f) = Len(tx) + Len(f) /\ At(tx \o f, s, x + Len(way))
    <3> HIDE DEF Bytes
    <3> QED BY <1>4, <1>6, <1>7, AtConcat
  <2> QED BY <1>2, <2>1
<1>9. x + Len(way) + Len(t) = Len(s)
  BY <1>0, <1>3, <1>5, <1>8, SMTT(30)
<1>10. Rest(s, x, way, t)
  BY <1>0, <1>6, <1>8, <1>9 DEF Rest
<1> QED BY <1>1, <1>2, <1>10

\* The frame of m is on the line from a to b.
FrameAt(m, mask, line, a, b) ==
  LET h == HeaderSize(m)
  IN  /\ m \in Message /\ m.size \in Nat /\ m.size >= 1 /\ h \in {1, 2}
      /\ a \in Nat /\ b = a + Before(m, mask) + m.size /\ b <= Len(line)
      /\ line[a + h].size = m.size
      /\ line[a + 1].size < 0 <=> h = 2
      /\ At(Payload(m), line, a + Before(m, mask))

\* What is on the line for the message after W[g].
LEMMA LineShape ==
  ASSUME NEW W \in Seq(Message), NEW mask \in BOOLEAN, NEW line, NEW cut,
         Layout(W, mask, line, cut), NEW g \in 0..Len(W), g < Len(W)
  PROVE  FrameAt(W[g + 1], mask, line, cut[g], cut[g + 1])
<1>0. g \in Nat /\ Len(W) \in Nat /\ g + 1 \in 1..Len(W) /\ g + 1 - 1 = g
  <2> HIDE DEF Message
  <2> QED OBVIOUS
<1>1. PICK m : m = W[g + 1]
  OBVIOUS
<1>2. m \in Message
  <2> HIDE DEF Message
  <2> QED BY <1>0, <1>1
<1>3. m.size \in Nat /\ m.size >= 1 /\ HeaderSize(m) \in {1, 2}
  BY <1>2, MessageSize
<1>4. PICK f : f = Frame(m, mask)
  OBVIOUS
<1>5. /\ f \in Seq(Bytes) /\ Len(f) = Before(m, mask) + m.size
      /\ f[HeaderSize(m)].size = m.size
      /\ f[1].size < 0 <=> HeaderSize(m) = 2
      /\ At(Payload(m), f, Before(m, mask))
  BY <1>2, <1>4, FrameShape
<1>6. cut[g + 1] = cut[g + 1 - 1] + Len(Frame(m, mask)) /\ At(Frame(m, mask), line, cut[g + 1 - 1])
  BY <1>0, <1>1 DEF Layout
<1>7. cut[g + 1] = cut[g] + Len(f) /\ At(f, line, cut[g])
  BY <1>0, <1>4, <1>6
<1>8. cut[g] \in Nat /\ cut[g + 1] <= Len(line)
  <2>1. g + 1 \in 0..Len(W)
    BY <1>0
  <2> QED BY <2>1 DEF Layout
<1>9. Before(m, mask) \in Nat /\ Before(m, mask) >= HeaderSize(m)
  BY <1>3 DEF Before
<1>10. f[HeaderSize(m)] = line[cut[g] + HeaderSize(m)] /\ f[1] = line[cut[g] + 1]
  <2>1. HeaderSize(m) \in 1..Len(f) /\ 1 \in 1..Len(f)
    BY <1>3, <1>5, <1>9
  <2> QED BY <1>7, <2>1 DEF At
<1>11. At(Payload(m), line, cut[g] + Before(m, mask))
  <2>1. Payload(m) \in Seq(Bytes) /\ Len(Payload(m)) = m.size
    BY <1>2, PayloadShape
  <2>2. PICK p : p = Payload(m)
    OBVIOUS
  <2>3. Before(m, mask) + Len(p) <= Len(f) /\ At(p, f, Before(m, mask)) /\ p \in Seq(Bytes)
    BY <1>3, <1>5, <1>9, <2>1, <2>2
  <2>4. At(p, line, cut[g] + Before(m, mask))
    <3> HIDE DEF Bytes
    <3> QED BY <1>5, <1>7, <1>8, <1>9, <2>3, AtWithin
  <2> QED BY <2>2, <2>4
<1>12. cut[g + 1] = cut[g] + Before(m, mask) + m.size
  BY <1>3, <1>5, <1>7, <1>8, <1>9
<1>13. line[cut[g] + HeaderSize(m)].size = m.size
  BY <1>5, <1>10
<1>14. line[cut[g] + 1].size < 0 <=> HeaderSize(m) = 2
  BY <1>5, <1>10
<1> QED BY <1>1, <1>2, <1>3, <1>8, <1>11, <1>12, <1>13, <1>14 DEF FrameAt

\* While something is left of the line there is another message.
LEMMA MoreOnLine ==
  ASSUME NEW W \in Seq(Message), NEW mask \in BOOLEAN, NEW line, NEW cut,
         Layout(W, mask, line, cut), NEW g \in 0..Len(W), cut[g] < Len(line)
  PROVE  g < Len(W)
<1>1. cut[Len(W)] = Len(line) /\ Len(line) \in Nat /\ Len(W) \in Nat
  <2> HIDE DEF Bytes, Message
  <2> QED BY DEF Layout
<1> QED BY <1>1

\* What the first piece that waits says of the next message.
Announced(W, g, s, head) ==
  LET m == W[g + 1]
  IN  /\ s.state = "MiniHeader" =>
           /\ g < Len(W)
           /\ head.size < 0 <=> HeaderSize(m) = 2
           /\ HeaderSize(m) = 1 => head.size = m.size
      /\ s.state = "Len" => head.size = m.size

\* The server reads the first piece of a header, or the longer length: the
\* connection knows after it what is still to be read of the frame.
LEMMA PlaceLength ==
  ASSUME NEW W \in Seq(Message), NEW line, NEW cut, Layout(W, TRUE, line, cut),
         NEW x, NEW way \in Seq(Bytes), NEW tx \in Seq(Bytes), Rest(line, x, way, tx),
         NEW g, NEW s, Place(W, cut, g, x, s), way # <<>>
  PROVE  Announced(W, g, s, Head(way))
<1>0. /\ x \in Nat /\ Len(way) \in Nat /\ Len(tx) \in Nat /\ Len(way) >= 1
      /\ Head(way) = way[1]
  <2> HIDE DEF Bytes
  <2> QED BY DEF Rest
<1>1. way[1] = line[x + 1] /\ x < Len(line)
  <2>1. 1 \in 1..Len(way)
    BY <1>0
  <2>2. way[1] = line[x + 1]
    BY <2>1 DEF Rest, At
  <2>3. x + Len(way) + Len(tx) = Len(line)
    BY DEF Rest
  <2> QED BY <1>0, <2>2, <2>3
<1>2. g \in 0..Len(W)
  BY DEF Place
<1>3. PICK m : m = W[g + 1]
  OBVIOUS
<1>4. ASSUME s.state = "MiniHeader"
      PROVE  /\ g < Len(W)
             /\ Head(way).size < 0 <=> HeaderSize(m) = 2
             /\ HeaderSize(m) = 1 => Head(way).size = m.size
  <2>1. x = cut[g]
    BY <1>4 DEF Place
  <2>2. g < Len(W)
    BY <1>1, <1>2, <2>1, MoreOnLine
  <2>3. /\ line[cut[g] + HeaderSize(m)].size = m.size
        /\ line[cut[g] + 1].size < 0 <=> HeaderSize(m) = 2
    <3>1. FrameAt(W[g + 1], TRUE, line, cut[g], cut[g + 1])
      BY <1>2, <2>2, LineShape
    <3> QED BY <1>3, <3>1 DEF FrameAt
  <2> QED BY <1>0, <1>1, <2>1, <2>2, <2>3
<1>5. ASSUME s.state = "Len" PROVE Head(way).size = m.size
  <2>1. x = cut[g] + 1 /\ HeaderSize(m) = 2 /\ g < Len(W)
    BY <1>3, <1>5 DEF Place
  <2>2. line[cut[g] + HeaderSize(m)].size = m.size /\ cut[g] \in Nat
    <3>1. FrameAt(W[g + 1], TRUE, line, cut[g], cut[g + 1])
      BY <1>2, <2>1, LineShape
    <3> QED BY <1>3, <3>1 DEF FrameAt
  <2>3. x + 1 = cut[g] + HeaderSize(m)
    BY <2>1, <2>2
  <2> QED BY <1>0, <1>1, <2>2, <2>3
<1> QED BY <1>3, <1>4, <1>5 DEF Announced

\* A connection that reads, with g messages behind it, is at the place of the
\* line that its state says.
Reading(W, g, way, tx, s) ==
  \E line, cut, x : Layout(W, TRUE, line, cut) /\ Rest(line, x, way, tx) /\ Place(W, cut, g, x, s)

\* A poll.
LEMMA ReadingPoll ==
  ASSUME NEW W \in Seq(Message), NEW g, NEW s, NEW way \in Seq(Bytes), NEW tx \in Seq(Bytes),
         Reading(W, g, way, tx, s), NEW k \in 0..Len(tx)
  PROVE  Reading(W, g, way \o SubSeq(tx, 1, k), SubSeq(tx, k + 1, Len(tx)), s)
<1>1. PICK line, cut, x :
        Layout(W, TRUE, line, cut) /\ Rest(line, x, way, tx) /\ Place(W, cut, g, x, s)
  BY DEF Reading
<1>2. Rest(line, x, way \o SubSeq(tx, 1, k), SubSeq(tx, k + 1, Len(tx)))
  BY <1>1, RestPoll
<1> QED BY <1>1, <1>2 DEF Reading

\* A message of the client.
LEMMA ReadingSend ==
  ASSUME NEW W \in Seq(Message), NEW g, NEW s, NEW way \in Seq(Bytes), NEW tx \in Seq(Bytes),
         Reading(W, g, way, tx, s), NEW m \in Message
  PROVE  Reading(Append(W, m), g, way, tx \o Frame(m, TRUE), s)
<1>1. PICK line, cut, x :
        Layout(W, TRUE, line, cut) /\ Rest(line, x, way, tx) /\ Place(W, cut, g, x, s)
  BY DEF Reading
<1>2. PICK c : /\ Layout(Append(W, m), TRUE, line \o Frame(m, TRUE), c)
               /\ \A i \in 0..Len(W) : c[i] = cut[i]
  <2>1. GrownLayout(W, m, TRUE, line, cut)
    BY <1>1, LayoutAppend
  <2> QED BY <2>1 DEF GrownLayout
<1>3. line \in Seq(Bytes) /\ Frame(m, TRUE) \in Seq(Bytes)
  BY <1>1, FrameShape DEF Layout
<1>4. Rest(line \o Frame(m, TRUE), x, way, tx \o Frame(m, TRUE))
  <2> HIDE DEF Bytes
  <2> QED BY <1>1, <1>3, RestSend
<1>5. PICK V : V = Append(W, m)
  OBVIOUS
<1>6. /\ Len(W) \in Nat /\ Len(V) = Len(W) + 1 /\ \A i \in 1..Len(W) : V[i] = W[i]
  <2> HIDE DEF Message
  <2> QED BY <1>5
<1>7. Place(V, c, g, x, s)
  <2>1. g \in 0..Len(W) /\ g \in 0..Len(V) /\ c[g] = cut[g]
    BY <1>1, <1>2, <1>6 DEF Place
  <2>2. g < Len(W) => V[g + 1] = W[g + 1] /\ g < Len(V)
    <3>1. g < Len(W) => g + 1 \in 1..Len(W) /\ g < Len(V)
      BY <1>6, <2>1
    <3> QED BY <1>6, <3>1
  <2> QED BY <1>1, <2>1, <2>2 DEF Place
<1> QED BY <1>2, <1>4, <1>5, <1>7 DEF Reading

\* What else the server does to its connection.
LEMMA ReadingSame ==
  ASSUME NEW W, NEW g, NEW s, NEW way, NEW tx, Reading(W, g, way, tx, s),
         NEW t, t.state = s.state, t.remaining_length = s.remaining_length,
         t.fragment = s.fragment
  PROVE  Reading(W, g, way, tx, t)
<1>1. PICK line, cut, x :
        Layout(W, TRUE, line, cut) /\ Rest(line, x, way, tx) /\ Place(W, cut, g, x, s)
  BY DEF Reading
<1>2. Place(W, cut, g, x, t)
  BY <1>1 DEF Place
<1> QED BY <1>1, <1>2 DEF Reading

\* The header, the longer length and the mask are read.
LEMMA ReadingLength ==
  ASSUME NEW W \in Seq(Message), NEW g, NEW s, NEW way \in Seq(Bytes), NEW tx \in Seq(Bytes),
         Reading(W, g, way, tx, s), way # <<>>, NEW t, t.fragment = <<>>,
         \/ /\ s.state = "MiniHeader" /\ Head(way).size < 0 /\ t.state = "Len"
         \/ /\ s.state = "MiniHeader" /\ ~(Head(way).size < 0) /\ t.state = "Mask"
            /\ t.remaining_length = Head(way).size
         \/ /\ s.state = "Len" /\ t.state = "Mask"
            /\ t.remaining_length = Head(way).size
  PROVE  /\ Reading(W, g, SubSeq(way, 1 + 1, Len(way)), tx, t)
         /\ t.state = "Mask" => t.remaining_length \in Int
<1>1. PICK line, cut, x :
        Layout(W, TRUE, line, cut) /\ Rest(line, x, way, tx) /\ Place(W, cut, g, x, s)
  BY DEF Reading
<1>2. PICK m : m = W[g + 1]
  OBVIOUS
<1>3. /\ s.state = "MiniHeader" =>
           /\ g < Len(W)
           /\ Head(way).size < 0 <=> HeaderSize(m) = 2
           /\ HeaderSize(m) = 1 => Head(way).size = m.size
      /\ s.state = "Len" => Head(way).size = m.size
  <2>1. Announced(W, g, s, Head(way))
    BY <1>1, PlaceLength
  <2> QED BY <1>2, <2>1 DEF Announced
<1>4. g < Len(W) /\ g \in 0..Len(W)
  BY <1>1, <1>3 DEF Place
<1>5. HeaderSize(m) \in {1, 2} /\ m.size \in Nat /\ cut[g] \in Nat
  <2>1. FrameAt(W[g + 1], TRUE, line, cut[g], cut[g + 1])
    BY <1>1, <1>4, LineShape
  <2> QED BY <1>2, <2>1 DEF FrameAt
<1>6. Rest(line, x + 1, SubSeq(way, 1 + 1, Len(way)), tx)
  <2>1. 1 \in 0..Len(way)
    <3> HIDE DEF Bytes
    <3> QED OBVIOUS
  <2> QED BY <1>1, <2>1, RestRead
<1>7. Place(W, cut, g, x + 1, t) /\ (t.state = "Mask" => t.remaining_length \in Int)
  <2>1. CASE s.state = "MiniHeader" /\ t.state = "Len"
    <3>1. x + 1 = cut[g] + 1 /\ HeaderSize(m) = 2
      BY <1>1, <1>3, <2>1 DEF Place
    <3> QED BY <1>2, <1>4, <2>1, <3>1 DEF Place
  <2>2. CASE s.state = "MiniHeader" /\ t.state = "Mask"
    <3>1. x = cut[g] /\ HeaderSize(m) = 1 /\ t.remaining_length = m.size
      BY <1>1, <1>3, <1>5, <2>2 DEF Place
    <3> QED BY <1>2, <1>4, <1>5, <2>2, <3>1 DEF Place
  <2>3. CASE s.state = "Len"
    <3>1. x = cut[g] + 1 /\ HeaderSize(m) = 2 /\ t.remaining_length = m.size /\ t.state = "Mask"
      BY <1>1, <1>2, <1>3, <2>3 DEF Place
    <3>2. x + 1 = cut[g] + HeaderSize(m)
      BY <1>5, <3>1
    <3> QED BY <1>2, <1>4, <1>5, <3>1, <3>2 DEF Place
  <2> QED BY <2>1, <2>2, <2>3
<1> QED BY <1>1, <1>6, <1>7 DEF Reading

\* The mask is read, and the payload is awaited.
LEMMA ReadingMask ==
  ASSUME NEW W \in Seq(Message), NEW g, NEW s, NEW way \in Seq(Bytes), NEW tx \in Seq(Bytes),
         Reading(W, g, way, tx, s), Len(way) >= 1, NEW t, t.fragment = s.fragment,
         s.state = "Mask", t.state = "Payload", t.remaining_length = s.remaining_length
  PROVE  Reading(W, g, SubSeq(way, 1 + 1, Len(way)), tx, t)
<1>1. PICK line, cut, x :
        Layout(W, TRUE, line, cut) /\ Rest(line, x, way, tx) /\ Place(W, cut, g, x, s)
  BY DEF Reading
<1>2. Rest(line, x + 1, SubSeq(way, 1 + 1, Len(way)), tx)
  <2>1. 1 \in 0..Len(way)
    <3> HIDE DEF Bytes
    <3> QED OBVIOUS
  <2> QED BY <1>1, <2>1, RestRead
<1>3. Place(W, cut, g, x + 1, t)
  BY <1>1 DEF Place
<1> QED BY <1>1, <1>2, <1>3 DEF Reading

\* The first k pieces of way are the payload of the message after W[g].
PayloadRead(W, g, way, tx, s, k, t) ==
  /\ g \in 0..Len(W) /\ g < Len(W) /\ s.fragment = <<>>
  /\ SubSeq(way, 1, k) = Payload(W[g + 1])
  /\ Reading(W, g + 1, SubSeq(way, k + 1, Len(way)), tx, t)

\* The payload is read, and the next header is awaited.
LEMMA ReadingPayload ==
  ASSUME NEW W \in Seq(Message), NEW g, NEW s, NEW way \in Seq(Bytes), NEW tx \in Seq(Bytes),
         Reading(W, g, way, tx, s), s.state = "Payload", NEW k, k = s.remaining_length,
         k <= Len(way), NEW t, t.fragment = <<>>, t.state = "MiniHeader"
  PROVE  PayloadRead(W, g, way, tx, s, k, t)
<1>1. PICK line, cut, x :
        Layout(W, TRUE, line, cut) /\ Rest(line, x, way, tx) /\ Place(W, cut, g, x, s)
  BY DEF Reading
<1>2. PICK m : m = W[g + 1]
  OBVIOUS
<1>3. /\ g \in 0..Len(W) /\ g < Len(W) /\ s.fragment = <<>>
      /\ x = cut[g] + HeaderSize(m) + 1 /\ k = m.size
  BY <1>1, <1>2 DEF Place
<1>4. FrameAt(m, TRUE, line, cut[g], cut[g + 1])
  BY <1>1, <1>2, <1>3, LineShape
<1>5. /\ m \in Message /\ k \in Nat /\ HeaderSize(m) \in {1, 2} /\ cut[g] \in Nat
      /\ Before(m, TRUE) = HeaderSize(m) + 1
  BY <1>3, <1>4 DEF FrameAt, Before
<1>6. x = cut[g] + Before(m, TRUE) /\ x \in Nat
  <2>1. PICK h, b, a : h = HeaderSize(m) /\ b = Before(m, TRUE) /\ a = cut[g]
    OBVIOUS
  <2>2. h \in {1, 2} /\ b = h + 1 /\ a \in Nat /\ x = a + h + 1
    BY <1>3, <1>5, <2>1
  <2>3. x = a + b /\ x \in Nat
    BY <2>2
  <2> QED BY <2>1, <2>3
<1>7. x + k = cut[g + 1]
  BY <1>3, <1>4, <1>6 DEF FrameAt
<1>8. At(Payload(m), line, x)
  BY <1>4, <1>6 DEF FrameAt
<1>9. Payload(m) \in Seq(Bytes) /\ Len(Payload(m)) = k
  BY <1>3, <1>5, PayloadShape
<1>10. k \in 0..Len(way) /\ Len(W) \in Nat
  <2> HIDE DEF Bytes, Message
  <2> QED BY <1>5
<1>11. SubSeq(way, 1, k) \in Seq(Bytes) /\ Len(SubSeq(way, 1, k)) = k /\ At(SubSeq(way, 1, k), line, x)
  <2>1. At(way, line, x)
    BY <1>1 DEF Rest
  <2> HIDE DEF Bytes
  <2>2. k \in 0..Len(way) /\ x \in Nat
    BY <1>6, <1>10
  <2> QED BY <2>1, <2>2, AtFirst, SMTT(30)
<1>12. SubSeq(way, 1, k) = Payload(m)
  <2>1. PICK p : p = Payload(m)
    OBVIOUS
  <2>2. PICK q : q = SubSeq(way, 1, k)
    OBVIOUS
  <2>3. p \in Seq(Bytes) /\ q \in Seq(Bytes) /\ Len(p) = Len(q) /\ At(p, line, x) /\ At(q, line, x)
    BY <1>8, <1>9, <1>11, <2>1, <2>2
  <2>4. p = q
    <3> HIDE DEF Bytes
    <3> QED BY <2>3, AtSame
  <2> QED BY <2>1, <2>2, <2>4
<1>13. Rest(line, x + k, SubSeq(way, k + 1, Len(way)), tx)
  BY <1>1, <1>10, RestRead
<1>14. Place(W, cut, g + 1, x + k, t)
  BY <1>3, <1>7, <1>10 DEF Place
<1>15. Reading(W, g + 1, SubSeq(way, k + 1, Len(way)), tx, t)
  BY <1>1, <1>13, <1>14 DEF Reading
<1> QED BY <1>2, <1>3, <1>12, <1>15 DEF PayloadRead

-----------------------------------------------------------------------------
(* From the server to the client *)

\* rxbuf and what is on the way to the client are on the line from a to x.
Arriving(line, a, rx, way, x) ==
  /\ a \in Nat /\ At(rx, line, a) /\ At(way, line, a + Len(rx))
  /\ x = a + Len(rx) + Len(way) /\ x <= Len(line)

\* The handler of the client has been given W[1..g]; while the connection is
\* up, sending and write_buffers are the rest of the line.
Streaming(W, g, rx, way, sending, queued, up) ==
  \E line, cut, x :
    /\ Layout(W, FALSE, line, cut) /\ g \in 0..Len(W)
    /\ Arriving(line, cut[g], rx, way, x)
    /\ up => Rest(line, x, sending, queued)

\* A poll takes what has come.
LEMMA StreamingPoll ==
  ASSUME NEW W, NEW g, NEW rx \in Seq(Bytes), NEW way \in Seq(Bytes),
         NEW sending, NEW queued, NEW up, Streaming(W, g, rx, way, sending, queued, up),
         NEW k \in 0..Len(way)
  PROVE  Streaming(W, g, rx \o SubSeq(way, 1, k), SubSeq(way, k + 1, Len(way)),
                   sending, queued, up)
<1>1. PICK line, cut, x :
        /\ Layout(W, FALSE, line, cut) /\ g \in 0..Len(W)
        /\ Arriving(line, cut[g], rx, way, x)
        /\ up => Rest(line, x, sending, queued)
  BY DEF Streaming
<1>2. PICK a : a = cut[g]
  OBVIOUS
<1>3. PICK b : b = SubSeq(way, 1, k)
  OBVIOUS
<1>4. PICK r : r = SubSeq(way, k + 1, Len(way))
  OBVIOUS
<1>5. PICK q : q = rx \o b
  OBVIOUS
<1>6. /\ a \in Nat /\ At(rx, line, a) /\ At(way, line, a + Len(rx))
      /\ x = a + Len(rx) + Len(way) /\ x <= Len(line)
  BY <1>1, <1>2 DEF Arriving
<1>7. Len(rx) \in Nat /\ Len(way) \in Nat /\ k \in Nat /\ a + Len(rx) \in Nat
  <2> HIDE DEF Bytes
  <2> QED BY <1>6
<1>8. b \in Seq(Bytes) /\ Len(b) = k /\ At(b, line, a + Len(rx))
  <2> HIDE DEF Bytes
  <2> QED BY <1>3, <1>6, <1>7, AtFirst
<1>9. Len(r) = Len(way) - k /\ At(r, line, a + Len(rx) + k)
  <2> HIDE DEF Bytes
  <2> QED BY <1>4, <1>6, <1>7, AtRest
<1>10. Len(q) = Len(rx) + k /\ At(q, line, a)
  <2>1. Len(rx \o b) = Len(rx) + Len(b) /\ At(rx \o b, line, a)
    <3> HIDE DEF Bytes
    <3> QED BY <1>6, <1>7, <1>8, AtConcat
  <2> QED BY <1>5, <1>8, <2>1
<1>11. a + Len(rx) + k = a + Len(q) /\ x = a + Len(q) + Len(r)
  BY <1>6, <1>7, <1>9, <1>10
<1>12. Arriving(line, a, q, r, x)
  BY <1>6, <1>9, <1>10, <1>11 DEF Arriving
<1> QED BY <1>1, <1>2, <1>3, <1>4, <1>5, <1>12 DEF Streaming

\* The server writes some of what it is sending.
LEMMA StreamingWrite ==
  ASSUME NEW W, NEW g, NEW rx \in Seq(Bytes), NEW way \in Seq(Bytes),
         NEW sending \in Seq(Bytes), NEW queued \in Seq(Bytes),
         Streaming(W, g, rx, way, sending, queued, TRUE), NEW k \in 0..Len(sending), NEW up
  PROVE  Streaming(W, g, rx, way \o SubSeq(sending, 1, k),
                   SubSeq(sending, k + 1, Len(sending)), queued, up)
<1>1. PICK line, cut, x :
        /\ Layout(W, FALSE, line, cut) /\ g \in 0..Len(W)
        /\ Arriving(line, cut[g], rx, way, x)
        /\ Rest(line, x, sending, queued)
  BY DEF Streaming
<1>2. PICK a : a = cut[g]
  OBVIOUS
<1>3. PICK b : b = SubSeq(sending, 1, k)
  OBVIOUS
<1>5. PICK q : q = way \o b
  OBVIOUS
<1>6. /\ a \in Nat /\ At(rx, line, a) /\ At(way, line, a + Len(rx))
      /\ x = a + Len(rx) + Len(way) /\ x <= Len(line)
  BY <1>1, <1>2 DEF Arriving
<1>7. /\ Len(rx) \in Nat /\ Len(way) \in Nat /\ k \in Nat /\ a + Len(rx) \in Nat
      /\ Len(sending) \in Nat /\ Len(queued) \in Nat /\ k <= Len(sending)
  <2> HIDE DEF Bytes
  <2> QED BY <1>6
<1>8. At(sending, line, x) /\ x \in Nat /\ x + Len(sending) + Len(queued) = Len(line)
  BY <1>1 DEF Rest
<1>9. b \in Seq(Bytes) /\ Len(b) = k /\ At(b, line, x)
  <2> HIDE DEF Bytes
  <2> QED BY <1>3, <1>8, AtFirst
<1>10. Len(q) = Len(way) + k /\ At(q, line, a + Len(rx))
  <2>1. Len(way \o b) = Len(way) + Len(b) /\ At(way \o b, line, a + Len(rx))
    <3> HIDE DEF Bytes
    <3> QED BY <1>6, <1>7, <1>9, AtConcat
  <2> QED BY <1>5, <1>9, <2>1
<1>11. x + k = a + Len(rx) + Len(q) /\ x + k <= Len(line)
  BY <1>6, <1>7, <1>8, <1>10
<1>12. Arriving(line, a, rx, q, x + k)
  BY <1>6, <1>10, <1>11 DEF Arriving
<1>13. Rest(line, x + k, SubSeq(sending, k + 1, Len(sending)), queued)
  BY <1>1, RestRead
<1> QED BY <1>1, <1>2, <1>3, <1>5, <1>12, <1>13 DEF Streaming

\* The next write takes what is queued.
LEMMA StreamingNext ==
  ASSUME NEW W, NEW g, NEW rx, NEW way, NEW queued \in Seq(Bytes), NEW up,
         Streaming(W, g, rx, way, <<>>, queued, up)
  PROVE  Streaming(W, g, rx, way, queued, <<>>, up)
<1>1. PICK line, cut, x :
        /\ Layout(W, FALSE, line, cut) /\ g \in 0..Len(W)
        /\ Arriving(line, cut[g], rx, way, x)
        /\ up => Rest(line, x, <<>>, queued)
  BY DEF Streaming
<1>2. ASSUME up PROVE Rest(line, x, queued, <<>>)
  <2>1. PICK e : e = <<>>
    OBVIOUS
  <2>2. Len(e) = 0 /\ Len(queued) \in Nat
    <3> HIDE DEF Bytes
    <3> QED BY <2>1
  <2>3. x \in Nat /\ At(queued, line, x + Len(e)) /\ x + Len(e) + Len(queued) = Len(line)
    BY <1>1, <1>2, <2>1 DEF Rest
  <2>4. x + Len(e) = x /\ x + Len(queued) + Len(e) = Len(line)
    BY <2>2, <2>3
  <2>5. At(queued, line, x)
    BY <2>3, <2>4
  <2>6. At(e, line, x + Len(queued))
    BY <2>2 DEF At
  <2>7. Rest(line, x, queued, e)
    BY <2>3, <2>4, <2>5, <2>6 DEF Rest
  <2> QED BY <2>1, <2>7
<1> QED BY <1>1, <1>2 DEF Streaming

\* A message that is queued is at the end of the line.
LEMMA StreamingSend ==
  ASSUME NEW W \in Seq(Message), NEW g, NEW rx \in Seq(Bytes), NEW way \in Seq(Bytes),
         NEW sending \in Seq(Bytes), NEW queued \in Seq(Bytes), NEW up,
         Streaming(W, g, rx, way, sending, queued, up), NEW m \in Message
  PROVE  Streaming(Append(W, m), g, rx, way, sending, queued \o Frame(m, FALSE), up)
<1>1. PICK line, cut, x :
        /\ Layout(W, FALSE, line, cut) /\ g \in 0..Len(W)
        /\ Arriving(line, cut[g], rx, way, x)
        /\ up => Rest(line, x, sending, queued)
  BY DEF Streaming
<1>2. PICK c : /\ Layout(Append(W, m), FALSE, line \o Frame(m, FALSE), c)
               /\ \A i \in 0..Len(W) : c[i] = cut[i]
  <2>1. GrownLayout(W, m, FALSE, line, cut)
    BY <1>1, LayoutAppend
  <2> QED BY <2>1 DEF GrownLayout
<1>3. PICK f : f = Frame(m, FALSE)
  OBVIOUS
<1>4. line \in Seq(Bytes) /\ f \in Seq(Bytes)
  BY <1>1, <1>3, FrameShape DEF Layout
<1>5. PICK s : s = line \o f
  OBVIOUS
<1>6. PICK V : V = Append(W, m)
  OBVIOUS
<1>7. Len(V) = Len(W) + 1 /\ Len(W) \in Nat
  <2> HIDE DEF Message
  <2> QED BY <1>6
<1>8. Len(s) = Len(line) + Len(f) /\ Len(line) \in Nat /\ Len(f) \in Nat
  <2> HIDE DEF Bytes
  <2> QED BY <1>4, <1>5
<1>9. PICK a : a = cut[g]
  OBVIOUS
<1>10. /\ a \in Nat /\ At(rx, line, a) /\ At(way, line, a + Len(rx))
       /\ x = a + Len(rx) + Len(way) /\ x <= Len(line)
  BY <1>1, <1>9 DEF Arriving
<1>11. Len(rx) \in Nat /\ Len(way) \in Nat /\ a + Len(rx) \in Nat
  <2> HIDE DEF Bytes
  <2> QED BY <1>10
<1>12. a + Len(rx) <= Len(line) /\ a + Len(rx) + Len(way) <= Len(line) /\ x <= Len(s)
  BY <1>8, <1>10, <1>11
<1>13. At(rx, s, a) /\ At(way, s, a + Len(rx))
  <2>1. At(rx, line \o f, a)
    <3> HIDE DEF Bytes
    <3> QED BY <1>4, <1>10, <1>12, AtGrow
  <2>2. At(way, line \o f, a + Len(rx))
    <3> HIDE DEF Bytes
    <3> QED BY <1>4, <1>10, <1>11, <1>12, AtGrow
  <2> QED BY <1>5, <2>1, <2>2
<1>14. Arriving(s, c[g], rx, way, x)
  <2>1. c[g] = a
    BY <1>1, <1>2, <1>9
  <2>2. Arriving(s, a, rx, way, x)
    BY <1>10, <1>12, <1>13 DEF Arriving
  <2> QED BY <2>1, <2>2
<1>15. up => Rest(s, x, sending, queued \o f)
  <2> HIDE DEF Bytes
  <2> QED BY <1>1, <1>4, <1>5, RestSend
<1>16. g \in 0..Len(V)
  BY <1>1, <1>7
<1>17. Layout(V, FALSE, s, c)
  BY <1>2, <1>3, <1>5, <1>6
<1> QED BY <1>3, <1>6, <1>14, <1>15, <1>16, <1>17 DEF Streaming

\* A connection that is no longer up.
LEMMA StreamingDown ==
  ASSUME NEW W, NEW g, NEW rx, NEW way, NEW sending, NEW queued, NEW up,
         Streaming(W, g, rx, way, sending, queued, up), NEW snd, NEW que
  PROVE  Streaming(W, g, rx, way, snd, que, FALSE)
BY DEF Streaming

\* The least of some numbers.
LEMMA MinOfTwo ==
  ASSUME NEW a \in Int, NEW b \in Int, a <= b
  PROVE  Min({a, b}) = a
<1>1. \A y \in {a, b} : a <= y
  OBVIOUS
<1>2. \A z \in {a, b} : (\A y \in {a, b} : z <= y) => z = a
  OBVIOUS
<1>3. (CHOOSE z \in {a, b} : \A y \in {a, b} : z <= y) = a
  BY <1>1, <1>2
<1> QED BY <1>3 DEF Min

\* What a read of the payload returns is no more than what is there.
LEMMA MinOfThree ==
  ASSUME NEW a \in Int, NEW b \in Int, NEW c \in Int
  PROVE  /\ Min({a, b, c}) \in Int
         /\ Min({a, b, c}) <= a /\ Min({a, b, c}) <= b /\ Min({a, b, c}) <= c
<1>1. \E z \in {a, b, c} : \A y \in {a, b, c} : z <= y
  OBVIOUS
<1>2. PICK z : z = Min({a, b, c})
  OBVIOUS
<1>3. z = CHOOSE w \in {a, b, c} : \A y \in {a, b, c} : w <= y
  BY <1>2 DEF Min
<1>4. z \in {a, b, c} /\ \A y \in {a, b, c} : z <= y
  BY <1>1, <1>3
<1> QED BY <1>2, <1>4

\* The first pieces of rx up to end are the frame of the message after W[g].
Handed(W, g, rx, end, way, sending, queued, up) ==
  /\ end \in 0..Len(rx) /\ g \in 0..Len(W) /\ g < Len(W)
  /\ SubSeq(rx, HeaderLen(rx) + 1, end) = Payload(W[g + 1])
  /\ Streaming(W, g + 1, SubSeq(rx, end + 1, Len(rx)), way, sending, queued, up)

\* The handler of the client is given the payload of the next message.
LEMMA StreamingDispatch ==
  ASSUME NEW W \in Seq(Message), NEW g, NEW rx \in Seq(Bytes), NEW way \in Seq(Bytes),
         NEW sending, NEW queued, NEW up, Streaming(W, g, rx, way, sending, queued, up),
         FrameThere(rx), NEW end, end = Min({FrameLen(rx), Len(rx)})
  PROVE  Handed(W, g, rx, end, way, sending, queued, up)
<1>1. PICK line, cut, x :
        /\ Layout(W, FALSE, line, cut) /\ g \in 0..Len(W)
        /\ Arriving(line, cut[g], rx, way, x)
        /\ up => Rest(line, x, sending, queued)
  BY DEF Streaming
<1>2. PICK a : a = cut[g]
  OBVIOUS
<1>3. /\ a \in Nat /\ At(rx, line, a) /\ At(way, line, a + Len(rx))
      /\ x = a + Len(rx) + Len(way) /\ x <= Len(line)
  BY <1>1, <1>2 DEF Arriving
<1>4. Len(rx) \in Nat /\ Len(way) \in Nat /\ Len(rx) >= 1 /\ Len(W) \in Nat
  <2>1. rx # <<>>
    BY DEF FrameThere
  <2> HIDE DEF Bytes, Message
  <2> QED BY <2>1
<1>5. g < Len(W)
  <2>1. a < Len(line)
    <3>1. Len(line) \in Nat
      <4>1. line \in Seq(Bytes)
        BY <1>1 DEF Layout
      <4> HIDE DEF Bytes
      <4> QED BY <4>1
    <3> QED BY <1>3, <1>4, <3>1
  <2> QED BY <1>1, <1>2, <2>1, MoreOnLine
<1>6. PICK m : m = W[g + 1]
  OBVIOUS
<1>7. FrameAt(m, FALSE, line, a, cut[g + 1])
  BY <1>1, <1>2, <1>5, <1>6, LineShape
<1>8. PICK h : h = HeaderSize(m)
  OBVIOUS
<1>9. /\ m \in Message /\ m.size \in Nat /\ m.size >= 1 /\ h \in {1, 2}
      /\ cut[g + 1] = a + h + m.size
      /\ line[a + h].size = m.size
      /\ line[a + 1].size < 0 <=> h = 2
      /\ At(Payload(m), line, a + h)
  <2>1. Before(m, FALSE) = h
    <3>1. HeaderSize(m) \in {1, 2}
      BY <1>7 DEF FrameAt
    <3> QED BY <1>8, <3>1 DEF Before
  <2> QED BY <1>7, <1>8, <2>1 DEF FrameAt
<1>10. rx[1] = line[a + 1]
  <2>1. 1 \in 1..Len(rx)
    BY <1>4
  <2> QED BY <1>3, <2>1 DEF At
<1>11. HeaderLen(rx) = h
  BY <1>9, <1>10 DEF HeaderLen
<1>12. h <= Len(rx)
  BY <1>11 DEF FrameThere
<1>13. rx[h] = line[a + h]
  <2>1. h \in 1..Len(rx)
    BY <1>4, <1>9, <1>12
  <2> QED BY <1>3, <2>1 DEF At
<1>14. FrameLen(rx) = h + m.size
  BY <1>9, <1>11, <1>13 DEF FrameLen
<1>15. h + m.size <= Len(rx)
  BY <1>14 DEF FrameThere
<1>16. end = h + m.size
  <2>1. FrameLen(rx) \in Int /\ Len(rx) \in Int /\ FrameLen(rx) <= Len(rx)
    BY <1>4, <1>9, <1>14, <1>15
  <2> QED BY <1>14, <2>1, MinOfTwo
<1>17. SubSeq(rx, h + 1, end) = Payload(m)
  <2>1. PICK p : p = Payload(m)
    OBVIOUS
  <2>2. p \in Seq(Bytes) /\ Len(p) = m.size /\ At(p, line, a + h)
    BY <1>9, <2>1, PayloadShape
  <2>3. PICK q : q = SubSeq(rx, h + 1, end)
    OBVIOUS
  <2>4. q \in Seq(Bytes) /\ Len(q) = m.size /\ At(q, line, a + h)
    <3>1. PICK i, j : i = h + 1 /\ j = end
      OBVIOUS
    <3>2. /\ i \in 1..(Len(rx) + 1) /\ j \in 0..Len(rx) /\ i <= j + 1
          /\ j - i + 1 = m.size /\ a + i - 1 = a + h
      <4>1. PICK z, l : z = m.size /\ l = Len(rx)
        OBVIOUS
      <4>2. /\ z \in Nat /\ z >= 1 /\ l \in Nat /\ h \in Nat /\ h + z <= l
            /\ i = h + 1 /\ j = h + z /\ a \in Nat
        BY <1>3, <1>4, <1>9, <1>15, <1>16, <3>1, <4>1
      <4>3. i \in 1..(l + 1) /\ j \in 0..l /\ i <= j + 1 /\ j - i + 1 = z /\ a + i - 1 = a + h
        BY <4>2
      <4> QED BY <4>1, <4>3
    <3>3. /\ SubSeq(rx, i, j) \in Seq(Bytes) /\ Len(SubSeq(rx, i, j)) = j - i + 1
          /\ At(SubSeq(rx, i, j), line, a + i - 1)
      <4> HIDE DEF Bytes
      <4> QED BY <1>3, <3>2, AtSub
    <3> QED BY <2>3, <3>1, <3>2, <3>3
  <2>5. p = q
    <3> HIDE DEF Bytes
    <3> QED BY <2>2, <2>4, AtSame
  <2> QED BY <2>1, <2>3, <2>5
<1>21. end \in 0..Len(rx)
  BY <1>4, <1>9, <1>15, <1>16
<1>18. Arriving(line, a + end, SubSeq(rx, end + 1, Len(rx)), way, x)
  <2>1. PICK r : r = SubSeq(rx, end + 1, Len(rx))
    OBVIOUS
  <2>2. end \in 0..Len(rx)
    BY <1>21
  <2>3. Len(r) = Len(rx) - end /\ At(r, line, a + end)
    <3> HIDE DEF Bytes
    <3> QED BY <1>3, <2>1, <2>2, AtRest
  <2>4. a + end \in Nat /\ a + end + Len(r) = a + Len(rx)
    BY <1>3, <1>4, <2>2, <2>3, SMTT(30)
  <2>5. Arriving(line, a + end, r, way, x)
    BY <1>3, <2>3, <2>4 DEF Arriving
  <2> QED BY <2>1, <2>5
<1>19. a + end = cut[g + 1] /\ g + 1 \in 0..Len(W)
  BY <1>1, <1>3, <1>4, <1>5, <1>9, <1>16, SMTT(30)
<1>20. Streaming(W, g + 1, SubSeq(rx, end + 1, Len(rx)), way, sending, queued, up)
  BY <1>1, <1>18, <1>19 DEF Streaming
<1> QED BY <1>1, <1>5, <1>6, <1>11, <1>17, <1>20, <1>21 DEF Handed

-----------------------------------------------------------------------------
(* The order of what one thread sends *)

\* c[i] of the messages W[1..i] are those that s has sent first.
Counts(W, s, c, S) ==
  /\ c \in [0..Len(W) -> Nat] /\ c[0] = 0
  /\ \A i \in 0..Len(W) : c[i] <= Len(S)
  /\ \A i \in 1..Len(W) : IF W[i].by = s THEN c[i] = c[i - 1] + 1 /\ W[i] = S[c[i]]
                          ELSE c[i] = c[i - 1]

\* W has the first n messages of s, in their order, among others.
Written(W, s, S, n) == \E c : Counts(W, s, c, S) /\ c[Len(W)] = n

\* Another message is sent, which is not yet in W.
LEMMA WrittenSent ==
  ASSUME NEW W \in Seq(Message), NEW s, NEW S \in Seq(Message), NEW n, Written(W, s, S, n),
         NEW m \in Message
  PROVE  Written(W, s, Append(S, m), n)
<1>1. PICK c : Counts(W, s, c, S) /\ c[Len(W)] = n
  BY DEF Written
<1>2. PICK T : T = Append(S, m)
  OBVIOUS
<1>3. /\ Len(T) = Len(S) + 1 /\ Len(S) \in Nat /\ Len(W) \in Nat
      /\ \A k \in 1..Len(S) : T[k] = S[k]
  <2> HIDE DEF Message
  <2> QED BY <1>2
<1>4. \A i \in 0..Len(W) : c[i] \in Nat /\ c[i] <= Len(S)
  BY <1>1 DEF Counts
<1>5. ASSUME NEW i \in 1..Len(W)
      PROVE  IF W[i].by = s THEN c[i] = c[i - 1] + 1 /\ W[i] = T[c[i]] ELSE c[i] = c[i - 1]
  <2>1. IF W[i].by = s THEN c[i] = c[i - 1] + 1 /\ W[i] = S[c[i]] ELSE c[i] = c[i - 1]
    BY <1>1 DEF Counts
  <2>2. i \in 0..Len(W) /\ i - 1 \in 0..Len(W)
    BY <1>3
  <2>3. W[i].by = s => c[i] \in 1..Len(S)
    <3>1. c[i] \in Nat /\ c[i - 1] \in Nat /\ c[i] <= Len(S)
      BY <1>4, <2>2
    <3> QED BY <2>1, <3>1, <1>3
  <2>4. W[i].by = s => T[c[i]] = S[c[i]]
    BY <1>3, <2>3
  <2> QED BY <2>1, <2>4
<1>6. \A i \in 0..Len(W) : c[i] <= Len(T)
  <2> SUFFICES ASSUME NEW i \in 0..Len(W) PROVE c[i] <= Len(T)
    OBVIOUS
  <2> QED BY <1>3, <1>4
<1>7. Counts(W, s, c, T)
  BY <1>1, <1>5, <1>6 DEF Counts
<1> QED BY <1>1, <1>2, <1>7 DEF Written

\* The next message of s is written.
LEMMA WrittenOwn ==
  ASSUME NEW W \in Seq(Message), NEW s, NEW S \in Seq(Message), NEW n, Written(W, s, S, n),
         n + 1 <= Len(S), NEW m, m = S[n + 1], m.by = s
  PROVE  Written(Append(W, m), s, S, n + 1)
<1>1. PICK c : Counts(W, s, c, S) /\ c[Len(W)] = n
  BY DEF Written
<1>2. Len(W) \in Nat /\ Len(S) \in Nat
  <2> HIDE DEF Message
  <2> QED OBVIOUS
<1>3. \A i \in 0..Len(W) : c[i] \in Nat /\ c[i] <= Len(S)
  BY <1>1 DEF Counts
<1>4. n \in Nat
  <2>1. Len(W) \in 0..Len(W)
    BY <1>2
  <2> QED BY <1>1, <1>3, <2>1
<1>5. m \in Message
  <2>1. n + 1 \in 1..Len(S)
    BY <1>2, <1>4
  <2> HIDE DEF Message
  <2> QED BY <2>1
<1>6. PICK V : V = Append(W, m)
  OBVIOUS
<1>7. Len(V) = Len(W) + 1 /\ V[Len(W) + 1] = m /\ \A i \in 1..Len(W) : V[i] = W[i]
  <2> HIDE DEF Message
  <2> QED BY <1>5, <1>6
<1>8. PICK d : d = [i \in 0..Len(V) |-> IF i <= Len(W) THEN c[i] ELSE n + 1]
  OBVIOUS
<1>9. /\ d \in [0..Len(V) -> Nat] /\ d[Len(W) + 1] = n + 1
      /\ \A i \in 0..Len(W) : d[i] = c[i]
  BY <1>2, <1>3, <1>4, <1>7, <1>8
<1>10. ASSUME NEW i \in 0..Len(V) PROVE d[i] <= Len(S)
  <2>1. i \in 0..Len(W) \/ i = Len(W) + 1
    BY <1>2, <1>7
  <2> QED BY <1>3, <1>9, <2>1
<1>11. ASSUME NEW i \in 1..Len(V)
       PROVE  IF V[i].by = s THEN d[i] = d[i - 1] + 1 /\ V[i] = S[d[i]] ELSE d[i] = d[i - 1]
  <2>1. CASE i \in 1..Len(W)
    <3>1. IF W[i].by = s THEN c[i] = c[i - 1] + 1 /\ W[i] = S[c[i]] ELSE c[i] = c[i - 1]
      BY <1>1, <2>1 DEF Counts
    <3>2. d[i] = c[i] /\ d[i - 1] = c[i - 1] /\ V[i] = W[i]
      <4>1. i \in 0..Len(W) /\ i - 1 \in 0..Len(W)
        BY <1>2, <2>1
      <4> QED BY <1>7, <1>9, <2>1, <4>1
    <3> QED BY <3>1, <3>2
  <2>2. CASE i = Len(W) + 1
    <3>1. i - 1 = Len(W) /\ Len(W) \in 0..Len(W)
      BY <1>2, <2>2
    <3>2. V[i] = m /\ d[i] = n + 1 /\ d[i - 1] = n
      BY <1>1, <1>7, <1>9, <2>2, <3>1
    <3> QED BY <3>2
  <2>3. i \in 1..Len(W) \/ i = Len(W) + 1
    BY <1>2, <1>7
  <2> QED BY <2>1, <2>2, <2>3
<1>12. d[0] = 0
  BY <1>1, <1>2, <1>9 DEF Counts
<1>13. Counts(V, s, d, S)
  BY <1>9, <1>10, <1>11, <1>12 DEF Counts
<1> QED BY <1>6, <1>7, <1>9, <1>13 DEF Written

\* A message of another thread is written.
LEMMA WrittenOther ==
  ASSUME NEW W \in Seq(Message), NEW s, NEW S \in Seq(Message), NEW n, Written(W, s, S, n),
         NEW m \in Message, m.by # s
  PROVE  Written(Append(W, m), s, S, n)
<1>1. PICK c : Counts(W, s, c, S) /\ c[Len(W)] = n
  BY DEF Written
<1>2. Len(W) \in Nat
  <2> HIDE DEF Message
  <2> QED OBVIOUS
<1>3. \A i \in 0..Len(W) : c[i] \in Nat /\ c[i] <= Len(S)
  BY <1>1 DEF Counts
<1>4. n \in Nat /\ n <= Len(S)
  <2>1. Len(W) \in 0..Len(W)
    BY <1>2
  <2> QED BY <1>1, <1>3, <2>1
<1>6. PICK V : V = Append(W, m)
  OBVIOUS
<1>7. Len(V) = Len(W) + 1 /\ V[Len(W) + 1] = m /\ \A i \in 1..Len(W) : V[i] = W[i]
  <2> HIDE DEF Message
  <2> QED BY <1>6
<1>8. PICK d : d = [i \in 0..Len(V) |-> IF i <= Len(W) THEN c[i] ELSE n]
  OBVIOUS
<1>9. /\ d \in [0..Len(V) -> Nat] /\ d[Len(W) + 1] = n
      /\ \A i \in 0..Len(W) : d[i] = c[i]
  BY <1>2, <1>3, <1>4, <1>7, <1>8
<1>10. ASSUME NEW i \in 0..Len(V) PROVE d[i] <= Len(S)
  <2>1. i \in 0..Len(W) \/ i = Len(W) + 1
    BY <1>2, <1>7
  <2> QED BY <1>3, <1>4, <1>9, <2>1
<1>11. ASSUME NEW i \in 1..Len(V)
       PROVE  IF V[i].by = s THEN d[i] = d[i - 1] + 1 /\ V[i] = S[d[i]] ELSE d[i] = d[i - 1]
  <2>1. CASE i \in 1..Len(W)
    <3>1. IF W[i].by = s THEN c[i] = c[i - 1] + 1 /\ W[i] = S[c[i]] ELSE c[i] = c[i - 1]
      BY <1>1, <2>1 DEF Counts
    <3>2. d[i] = c[i] /\ d[i - 1] = c[i - 1] /\ V[i] = W[i]
      <4>1. i \in 0..Len(W) /\ i - 1 \in 0..Len(W)
        BY <1>2, <2>1
      <4> QED BY <1>7, <1>9, <2>1, <4>1
    <3> QED BY <3>1, <3>2
  <2>2. CASE i = Len(W) + 1
    <3>1. i - 1 = Len(W) /\ Len(W) \in 0..Len(W)
      BY <1>2, <2>2
    <3>2. V[i] = m /\ d[i] = n /\ d[i - 1] = n
      BY <1>1, <1>7, <1>9, <2>2, <3>1
    <3> QED BY <3>2
  <2>3. i \in 1..Len(W) \/ i = Len(W) + 1
    BY <1>2, <1>7
  <2> QED BY <2>1, <2>2, <2>3
<1>12. d[0] = 0
  BY <1>1, <1>2, <1>9 DEF Counts
<1>13. Counts(V, s, d, S)
  BY <1>9, <1>10, <1>11, <1>12 DEF Counts
<1> QED BY <1>6, <1>7, <1>9, <1>13 DEF Written

\* The beginning of a list and the element after it.
LEMMA OneMore ==
  ASSUME NEW B, NEW q \in Seq(B), NEW j \in Nat, j + 1 \in 1..Len(q)
  PROVE  SubSeq(q, 1, j + 1) = Append(SubSeq(q, 1, j), q[j + 1])
<1>1. PICK a : a = SubSeq(q, 1, j)
  OBVIOUS
<1>2. PICK b : b = SubSeq(q, 1, j + 1)
  OBVIOUS
<1>3. PICK c : c = Append(a, q[j + 1])
  OBVIOUS
<1>4. a \in Seq(B) /\ Len(a) = j /\ \A k \in 1..j : a[k] = q[k]
  BY <1>1
<1>5. b \in Seq(B) /\ Len(b) = j + 1 /\ \A k \in 1..(j + 1) : b[k] = q[k]
  BY <1>2
<1>6. q[j + 1] \in B
  OBVIOUS
<1>7. /\ c \in Seq(B) /\ Len(c) = j + 1 /\ c[j + 1] = q[j + 1]
      /\ \A k \in 1..j : c[k] = a[k]
  BY <1>3, <1>4, <1>6
<1>8. \A k \in 1..(j + 1) : b[k] = c[k]
  <2> SUFFICES ASSUME NEW k \in 1..(j + 1) PROVE b[k] = c[k]
    OBVIOUS
  <2>1. k \in 1..j \/ k = j + 1
    OBVIOUS
  <2> QED BY <1>4, <1>5, <1>7, <2>1
<1>9. b = c
  BY <1>5, <1>7, <1>8
<1> QED BY <1>1, <1>2, <1>3, <1>9

\* The recurrence that defines GotFrom.
Gathered(f, G, s) ==
  f = [i \in 0..Len(G) |-> IF i = 0 THEN <<>>
                           ELSE IF G[i][1].of.by = s THEN Append(f[i - 1], G[i])
                           ELSE f[i - 1]]

\* GotFrom is a solution of it.
LEMMA GotFromIs ==
  ASSUME NEW s
  PROVE  GotFrom(s) = (CHOOSE f : Gathered(f, got.client, s))[Len(got.client)]
BY Zenon DEF GotFrom, Gathered

\* What the client was given from s is what s has sent first.
LEMMA GatheredPrefix ==
  ASSUME NEW W \in Seq(Message), NEW s, NEW S \in Seq(Message), NEW n, Written(W, s, S, n),
         NEW G, Len(G) \in 0..Len(W), \A i \in 1..Len(G) : G[i] = Payload(W[i])
  PROVE  IsPrefix((CHOOSE f : Gathered(f, G, s))[Len(G)], PayloadsOf(S))
<1>1. PICK c : Counts(W, s, c, S) /\ c[Len(W)] = n
  BY DEF Written
<1>2. Len(W) \in Nat /\ Len(S) \in Nat /\ Len(G) \in Nat /\ Len(G) <= Len(W)
  <2> HIDE DEF Message
  <2> QED OBVIOUS
<1>3. \A i \in 0..Len(W) : c[i] \in Nat /\ c[i] <= Len(S)
  BY <1>1 DEF Counts
<1>4. PICK L : L = Len(G)
  OBVIOUS
<1>5. PICK T : T = PayloadsOf(S)
  OBVIOUS
<1>6. T \in Seq(Seq(Bytes)) /\ Len(T) = Len(S) /\ \A k \in 1..Len(S) : T[k] = Payload(S[k])
  <2>1. \A k \in 1..Len(S) : S[k] \in Message
    <3> HIDE DEF Message
    <3> QED OBVIOUS
  <2>2. \A k \in 1..Len(S) : Payload(S[k]) \in Seq(Bytes)
    BY <2>1, PayloadShape
  <2>3. DOMAIN S = 1..Len(S)
    <3> HIDE DEF Message
    <3> QED OBVIOUS
  <2>4. T = [k \in 1..Len(S) |-> Payload(S[k])]
    BY <1>5, <2>3 DEF PayloadsOf
  <2>5. PICK B : B = Seq(Bytes)
    OBVIOUS
  <2>6. \A k \in 1..Len(S) : T[k] \in B
    BY <2>2, <2>4, <2>5
  <2>7. T \in [1..Len(S) -> B]
    BY <2>4, <2>6
  <2>8. T \in Seq(B) /\ Len(T) = Len(S)
    BY <1>2, <2>7
  <2> QED BY <2>4, <2>5, <2>8
<1>7. PICK B : B = Seq(Bytes)
  OBVIOUS
<1>8. T \in Seq(B)
  BY <1>6, <1>7
<1>9. PICK e : e = [i \in 0..L |-> SubSeq(T, 1, c[i])]
  OBVIOUS
<1>10. ASSUME NEW i \in 1..L
       PROVE  /\ i \in 1..Len(W) /\ i \in 0..Len(W) /\ i - 1 \in 0..Len(W) /\ i - 1 \in 0..L
              /\ G[i][1].of.by = W[i].by /\ G[i] = Payload(W[i])
              /\ IF W[i].by = s THEN c[i] = c[i - 1] + 1 /\ G[i] = T[c[i]] /\ c[i] \in 1..Len(T)
                                ELSE c[i] = c[i - 1]
  <2>1. i \in 1..Len(W) /\ i \in 0..Len(W) /\ i - 1 \in 0..Len(W) /\ i - 1 \in 0..L
    BY <1>2, <1>4
  <2>2. G[i] = Payload(W[i])
    BY <1>4
  <2>3. W[i] \in Message
    <3> HIDE DEF Message
    <3> QED BY <2>1
  <2>4. G[i][1].of.by = W[i].by
    BY <2>2, <2>3, PayloadShape
  <2>5. IF W[i].by = s THEN c[i] = c[i - 1] + 1 /\ W[i] = S[c[i]] ELSE c[i] = c[i - 1]
    BY <1>1, <2>1 DEF Counts
  <2>6. c[i] \in Nat /\ c[i - 1] \in Nat /\ c[i] <= Len(S)
    BY <1>3, <2>1
  <2>7. W[i].by = s => c[i] \in 1..Len(S)
    BY <1>2, <2>5, <2>6
  <2>8. W[i].by = s => T[c[i]] = Payload(S[c[i]])
    BY <1>6, <2>7
  <2>9. W[i].by = s => G[i] = T[c[i]]
    BY <2>2, <2>5, <2>8
  <2> QED BY <1>6, <2>1, <2>2, <2>4, <2>5, <2>7, <2>9
<1>11. ASSUME NEW i \in 1..L PROVE e[i] = IF G[i][1].of.by = s THEN Append(e[i - 1], G[i]) ELSE e[i - 1]
  <2>1. e[i] = SubSeq(T, 1, c[i]) /\ e[i - 1] = SubSeq(T, 1, c[i - 1])
    <3>1. i \in 0..L /\ i - 1 \in 0..L
      BY <1>2, <1>4
    <3> QED BY <1>9, <3>1
  <2>2. CASE W[i].by = s
    <3>1. PICK j : j = c[i - 1]
      OBVIOUS
    <3>2. j \in Nat /\ j + 1 \in 1..Len(T) /\ c[i] = j + 1 /\ G[i] = T[j + 1]
      BY <1>3, <1>10, <2>2, <3>1
    <3>3. SubSeq(T, 1, j + 1) = Append(SubSeq(T, 1, j), T[j + 1])
      BY <1>8, <3>2, OneMore
    <3> QED BY <1>10, <2>1, <2>2, <3>1, <3>2, <3>3
  <2>3. CASE W[i].by # s
    BY <1>10, <2>1, <2>3
  <2> QED BY <2>2, <2>3
<1>12. e[0] = <<>>
  <2>1. c[0] = 0 /\ 0 \in 0..L
    BY <1>1, <1>2, <1>4 DEF Counts
  <2>2. SubSeq(T, 1, 0) = <<>>
    BY <1>8
  <2> QED BY <1>9, <2>1, <2>2
<1>13. Gathered(e, G, s)
  <2>1. ASSUME NEW i \in 0..L
        PROVE  e[i] = IF i = 0 THEN <<>>
                      ELSE IF G[i][1].of.by = s THEN Append(e[i - 1], G[i]) ELSE e[i - 1]
    <3>1. CASE i = 0
      BY <1>12, <3>1
    <3>2. CASE i # 0
      <4>1. i \in 1..L
        BY <1>2, <1>4, <3>2
      <4> QED BY <1>11, <3>2, <4>1
    <3> QED BY <3>1, <3>2
  <2>2. e = [i \in 0..L |-> e[i]]
    BY <1>9
  <2>3. e = [i \in 0..L |-> IF i = 0 THEN <<>>
                            ELSE IF G[i][1].of.by = s THEN Append(e[i - 1], G[i]) ELSE e[i - 1]]
    BY <2>1, <2>2, Zenon
  <2> QED BY <1>4, <2>3 DEF Gathered
<1>14. PICK f : f = CHOOSE h : Gathered(h, G, s)
  OBVIOUS
<1>15. Gathered(f, G, s)
  BY <1>13, <1>14, Zenon
<1>16. \A i \in 0..L : f[i] = e[i]
  <2> DEFINE Bad == {i \in 0..L : f[i] # e[i]}
  <2> SUFFICES ASSUME Bad # {} PROVE FALSE
    OBVIOUS
  <2>1. PICK i \in Bad : \A j \in Bad : i <= j
    <3>1. Bad \in SUBSET Nat
      BY <1>2, <1>4
    <3> HIDE DEF Bad
    <3> QED BY <3>1, LeastNatural
  <2>2. i \in 0..L /\ f[i] # e[i]
    OBVIOUS
  <2>3. /\ f[i] = IF i = 0 THEN <<>>
                  ELSE IF G[i][1].of.by = s THEN Append(f[i - 1], G[i]) ELSE f[i - 1]
        /\ e[i] = IF i = 0 THEN <<>>
                  ELSE IF G[i][1].of.by = s THEN Append(e[i - 1], G[i]) ELSE e[i - 1]
    <3>1. i \in 0..Len(G)
      BY <1>4, <2>2
    <3> QED BY <1>13, <1>15, <3>1, Zenon DEF Gathered
  <2>4. i # 0
    BY <2>2, <2>3
  <2>5. i - 1 \in 0..L /\ ~(i <= i - 1)
    BY <1>2, <1>4, <2>2, <2>4
  <2>6. f[i - 1] = e[i - 1]
    BY <2>1, <2>5
  <2>7. CASE G[i][1].of.by = s
    <3>1. f[i] = Append(f[i - 1], G[i]) /\ e[i] = Append(e[i - 1], G[i])
      BY <2>3, <2>4, <2>7
    <3> QED BY <2>2, <2>6, <3>1, Zenon
  <2>8. CASE G[i][1].of.by # s
    BY <2>2, <2>3, <2>4, <2>6, <2>8, Zenon
  <2> QED BY <2>7, <2>8
<1>17. f[L] = SubSeq(T, 1, c[L]) /\ c[L] \in 0..Len(T)
  <2>1. L \in 0..L /\ L \in 0..Len(W)
    BY <1>2, <1>4
  <2>2. c[L] \in Nat /\ c[L] <= Len(S)
    BY <1>3, <2>1
  <2>3. f[L] = SubSeq(T, 1, c[L])
    BY <1>9, <1>16, <2>1
  <2> QED BY <1>2, <1>6, <2>2, <2>3
<1>18. IsPrefix(SubSeq(T, 1, c[L]), T)
  <2>1. PICK j : j = c[L]
    OBVIOUS
  <2>2. PICK q : q = SubSeq(T, 1, j)
    OBVIOUS
  <2>3. j \in 0..Len(T)
    BY <1>17, <2>1
  <2>4. q \in Seq(B) /\ Len(q) = j /\ \A k \in 1..j : q[k] = T[k]
    BY <1>8, <2>2, <2>3
  <2>5. IsPrefix(q, T)
    BY <1>8, <2>3, <2>4, PrefixOf
  <2> QED BY <2>1, <2>2, <2>5
<1> QED BY <1>4, <1>5, <1>14, <1>17, <1>18

-----------------------------------------------------------------------------
(* The invariant *)

Socket ==
  [readyState : {"OPEN", "CLOSING", "CLOSED"}, rxbuf : Seq(Bytes), txbuf : Seq(Bytes),
   listed : BOOLEAN]

Connection ==
  [state : {"MiniHeader", "Len", "Mask", "Payload"},
   remaining_length : Int, fragment : Seq(Bytes),
   reading : BOOLEAN, writing : BOOLEAN, sending : Seq(Bytes), write_buffers : Seq(Bytes),
   close_connection : BOOLEAN, has_sent_close : BOOLEAN, open : BOOLEAN,
   aligned : BOOLEAN, listed : BOOLEAN, deleted : BOOLEAN]

TypeInv ==
  /\ client \in Socket /\ server \in Connection
  /\ toServer \in Seq(Bytes) /\ toClient \in Seq(Bytes)
  /\ posted \in Seq(Message)
  /\ \A j \in 1..Len(posted) : posted[j].by = "other" /\ posted[j].kind = "text"
  /\ link \in BOOLEAN
  /\ sent \in [Sender -> Seq(Message)]
  /\ got \in [client : Seq(Seq(Bytes)), server : Seq(Seq(Bytes))]

\* What is being sent is empty between two writes, and a connection that has
\* been destroyed is in no list.
ConnectionInv ==
  /\ ~server.writing => server.sending = <<>>
  /\ DestroyedUnlisted

\* Until a header is cut in two the handler of the server was given the messages
\* of the client one by one.
UpInv ==
  server.aligned =>
    /\ Len(got.server) <= Len(sent["client"])
    /\ \A i \in 1..Len(got.server) : got.server[i] = Payload(sent["client"][i])
    /\ server.reading => Reading(sent["client"], Len(got.server), toServer, client.txbuf, server)

\* After the first n messages of the other threads, these wait.
Waiting(P, S, n) ==
  n + Len(P) = Len(S) /\ \A j \in 1..Len(P) : P[j] = S[n + j]

\* W is what the server has written for the client, G what the client has taken
\* of that.
Flow(W, n, G, rx, way, s, up, S, P) ==
  /\ W \in Seq(Message) /\ Streaming(W, Len(G), rx, way, s.sending, s.write_buffers, up)
  /\ \A i \in 1..Len(G) : G[i] = Payload(W[i])
  /\ Written(W, "io", S["io"], Len(S["io"]))
  /\ Written(W, "other", S["other"], n)
  /\ ~s.deleted => Waiting(P, S["other"], n)
  /\ s.aligned => \A i \in 1..Len(W) : W[i].kind # "close"

DownInv ==
  \E W, n : Flow(W, n, got.client, client.rxbuf, toClient, server, link, sent, posted)

Inv == TypeInv /\ ConnectionInv /\ UpInv /\ DownInv

\* m is of this kind, and recorded as the next one of its thread.
SentNext(m, s, kind) ==
  /\ m \in Message /\ m.by = s /\ m.kind = kind
  /\ Recorded(m) \in [Sender -> Seq(Message)]
  /\ Recorded(m)[s] = Append(sent[s], m)
  /\ \A r \in Sender : r # s => Recorded(m)[r] = sent[r]

\* A message that a thread may send next.
LEMMA NextOne ==
  ASSUME NEW s \in Sender, sent \in [Sender -> Seq(Message)], NEW kind \in Kind,
         NEW sizes \in SUBSET (Nat \ {0}), NEW m \in NextOfKind(s, kind, sizes)
  PROVE  SentNext(m, s, kind)
<1>1. PICK z \in Nat \ {0} : m = [by |-> s, n |-> Len(sent[s]) + 1, kind |-> kind, size |-> z]
  BY DEF NextOfKind
<1>2. Len(sent[s]) \in Nat
  <2> HIDE DEF Message
  <2> QED OBVIOUS
<1>3. m \in Message /\ m.by = s /\ m.kind = kind
  BY <1>1, <1>2 DEF Message
<1>4. Append(sent[s], m) \in Seq(Message)
  <2> HIDE DEF Message
  <2> QED BY <1>3
<1>5. Recorded(m) = [sent EXCEPT ![s] = Append(sent[s], m)]
  BY <1>3 DEF Recorded
<1> HIDE DEF Message
<1> QED BY <1>3, <1>4, <1>5 DEF SentNext

\* A message of Peer.cpp.
LEMMA NextMessage ==
  ASSUME NEW s \in Sender, sent \in [Sender -> Seq(Message)], NEW m \in NextMessages(s)
  PROVE  SentNext(m, s, "text")
<1>1. Sizes[s] \in SUBSET (Nat \ {0})
  BY WebSocketsAssumption
<1>2. "text" \in Kind /\ m \in NextOfKind(s, "text", Sizes[s])
  BY DEF Kind, NextMessages
<1> HIDE DEF Message
<1> QED BY <1>1, <1>2, NextOne

\* A frame that crow sends of itself.
LEMMA NextControlFrame ==
  ASSUME NEW kind \in Kind, sent \in [Sender -> Seq(Message)], NEW m \in NextControl(kind)
  PROVE  SentNext(m, "io", kind)
<1>1. "io" \in Sender /\ {1} \in SUBSET (Nat \ {0}) /\ m \in NextOfKind("io", kind, {1})
  BY DEF Sender, NextControl
<1> HIDE DEF Message
<1> QED BY <1>1, NextOne

\* What WriteText does to a connection.
TextWritten(s, m, t) ==
  /\ t \in Connection /\ t.writing
  /\ t.state = s.state /\ t.remaining_length = s.remaining_length
  /\ t.fragment = s.fragment /\ t.reading = s.reading /\ t.aligned = s.aligned
  /\ t.open = s.open /\ t.listed = s.listed /\ t.deleted = s.deleted
  /\ s.writing => /\ t.sending = s.sending
                  /\ t.write_buffers = s.write_buffers \o Frame(m, FALSE)
  /\ ~s.writing => /\ t.sending = s.write_buffers \o Frame(m, FALSE)
                   /\ t.write_buffers = <<>>

\* WriteText appends the frame to what is sending, when nothing is, or else to
\* what waits for the next write.
LEMMA WriteTextFields ==
  ASSUME NEW s \in Connection, NEW m \in Message
  PROVE  TextWritten(s, m, WriteText(s, m))
<1> SUFFICES ASSUME NEW t, t = WriteText(s, m) PROVE TextWritten(s, m, t)
  OBVIOUS
<1>1. PICK f : f = Frame(m, FALSE)
  OBVIOUS
<1>2. f \in Seq(Bytes)
  BY <1>1, FrameShape
<1>3. PICK q : q = s.write_buffers \o f
  OBVIOUS
<1>4. q \in Seq(Bytes) /\ <<>> \in Seq(Bytes)
  <2>1. s.write_buffers \in Seq(Bytes)
    BY DEF Connection
  <2> HIDE DEF Bytes
  <2> QED BY <1>2, <1>3, <2>1
<1>5. t = IF s.writing THEN [s EXCEPT !.write_buffers = q]
          ELSE [s EXCEPT !.sending = q, !.write_buffers = <<>>, !.writing = TRUE]
  BY <1>1, <1>3 DEF WriteText, do_write, Connection
<1> HIDE DEF Bytes
<1>6. CASE s.writing
  <2>1. t = [s EXCEPT !.write_buffers = q]
    BY <1>5, <1>6
  <2>2. t \in Connection
    BY <1>4, <2>1 DEF Connection
  <2>3. /\ t.writing /\ t.state = s.state /\ t.remaining_length = s.remaining_length
        /\ t.fragment = s.fragment /\ t.reading = s.reading /\ t.aligned = s.aligned
        /\ t.open = s.open /\ t.listed = s.listed /\ t.deleted = s.deleted
    BY <1>6, <2>1 DEF Connection
  <2>4. t.sending = s.sending /\ t.write_buffers = q
    BY <2>1 DEF Connection
  <2> QED BY <1>1, <1>3, <1>6, <2>2, <2>3, <2>4 DEF TextWritten
<1>7. CASE ~s.writing
  <2>1. t = [s EXCEPT !.sending = q, !.write_buffers = <<>>, !.writing = TRUE]
    BY <1>5, <1>7
  <2>2. t \in Connection
    BY <1>4, <2>1 DEF Connection
  <2>3. /\ t.writing /\ t.state = s.state /\ t.remaining_length = s.remaining_length
        /\ t.fragment = s.fragment /\ t.reading = s.reading /\ t.aligned = s.aligned
        /\ t.open = s.open /\ t.listed = s.listed /\ t.deleted = s.deleted
    BY <2>1 DEF Connection
  <2>4. t.sending = q /\ t.write_buffers = <<>>
    BY <2>1 DEF Connection
  <2> QED BY <1>1, <1>3, <1>7, <2>2, <2>3, <2>4 DEF TextWritten
<1> QED BY <1>6, <1>7

\* What check_destroy does to it.
DestroyChecked(s, t) ==
  /\ t \in Connection /\ t.state = s.state /\ t.remaining_length = s.remaining_length
  /\ t.fragment = s.fragment /\ t.reading = s.reading /\ t.writing = s.writing
  /\ t.sending = s.sending /\ t.write_buffers = s.write_buffers /\ ~t.listed
  /\ t.aligned = s.aligned /\ (t.open => s.open) /\ (~t.deleted => ~s.deleted)

\* The list loses the connection, whether or not it is deleted.
LEMMA DestroyFields ==
  ASSUME NEW s \in Connection
  PROVE  DestroyChecked(s, check_destroy(s))
<1> SUFFICES ASSUME NEW t, t = check_destroy(s) PROVE DestroyChecked(s, t)
  OBVIOUS
<1>1. t = IF s.writing \/ s.reading THEN [s EXCEPT !.listed = FALSE]
          ELSE [s EXCEPT !.listed = FALSE, !.deleted = TRUE, !.open = FALSE]
  BY DEF check_destroy, Connection
<1> HIDE DEF Bytes
<1>2. CASE s.writing \/ s.reading
  <2>1. t = [s EXCEPT !.listed = FALSE]
    BY <1>1, <1>2
  <2>2. t \in Connection
    BY <2>1 DEF Connection
  <2> QED BY <2>1, <2>2 DEF Connection, DestroyChecked
<1>3. CASE ~(s.writing \/ s.reading)
  <2>1. t = [s EXCEPT !.listed = FALSE, !.deleted = TRUE, !.open = FALSE]
    BY <1>1, <1>3
  <2>2. t \in Connection
    BY <2>1 DEF Connection
  <2> QED BY <2>1, <2>2 DEF Connection, DestroyChecked
<1> QED BY <1>2, <1>3

\* A step that leaves the connection up only if it leaves the buffers alone.
LEMMA FlowSame ==
  ASSUME NEW W, NEW n, NEW G, NEW rx, NEW way, NEW s, NEW up, NEW S, NEW P,
         Flow(W, n, G, rx, way, s, up, S, P), NEW t, NEW v,
         v => up /\ t.sending = s.sending /\ t.write_buffers = s.write_buffers,
         ~t.deleted => ~s.deleted, t.aligned => s.aligned
  PROVE  Flow(W, n, G, rx, way, t, v, S, P)
<1>1. Streaming(W, Len(G), rx, way, s.sending, s.write_buffers, up)
  BY DEF Flow
<1>2. PICK line, cut, x :
        /\ Layout(W, FALSE, line, cut) /\ Len(G) \in 0..Len(W)
        /\ Arriving(line, cut[Len(G)], rx, way, x)
        /\ up => Rest(line, x, s.sending, s.write_buffers)
  BY <1>1 DEF Streaming
<1>3. v => Rest(line, x, t.sending, t.write_buffers)
  BY <1>2
<1>4. Streaming(W, Len(G), rx, way, t.sending, t.write_buffers, v)
  BY <1>2, <1>3 DEF Streaming
<1> QED BY <1>4 DEF Flow

\* A message of the io_service is sent and written.
LEMMA FlowAnswer ==
  ASSUME NEW W, NEW n, NEW G, NEW rx \in Seq(Bytes), NEW way \in Seq(Bytes), NEW s, NEW up,
         NEW S \in [Sender -> Seq(Message)], NEW P, Flow(W, n, G, rx, way, s, up, S, P),
         s.sending \in Seq(Bytes), s.write_buffers \in Seq(Bytes),
         NEW m \in Message, m.by = "io", NEW t, t.deleted = s.deleted,
         t.aligned => s.aligned /\ m.kind # "close",
         \/ /\ t.sending = s.sending
            /\ t.write_buffers = s.write_buffers \o Frame(m, FALSE)
         \/ /\ s.sending = <<>> /\ t.write_buffers = <<>>
            /\ t.sending = s.write_buffers \o Frame(m, FALSE),
         NEW T \in [Sender -> Seq(Message)], T["io"] = Append(S["io"], m), T["other"] = S["other"]
  PROVE  Flow(Append(W, m), n, G, rx, way, t, up, T, P)
<1>1. /\ W \in Seq(Message) /\ Streaming(W, Len(G), rx, way, s.sending, s.write_buffers, up)
      /\ \A i \in 1..Len(G) : G[i] = Payload(W[i])
      /\ Written(W, "io", S["io"], Len(S["io"]))
      /\ Written(W, "other", S["other"], n)
      /\ ~s.deleted => Waiting(P, S["other"], n)
      /\ s.aligned => \A i \in 1..Len(W) : W[i].kind # "close"
  BY DEF Flow
<1>2. PICK V : V = Append(W, m)
  OBVIOUS
<1>3. V \in Seq(Message) /\ \A i \in 1..Len(W) : V[i] = W[i]
  <2> HIDE DEF Message
  <2> QED BY <1>1, <1>2
<1>4. PICK f : f = s.write_buffers \o Frame(m, FALSE)
  OBVIOUS
<1>5. f \in Seq(Bytes)
  <2>1. Frame(m, FALSE) \in Seq(Bytes)
    BY FrameShape
  <2>2. PICK q, r : q = s.write_buffers /\ r = Frame(m, FALSE)
    OBVIOUS
  <2>3. q \in Seq(Bytes) /\ r \in Seq(Bytes) /\ f = q \o r
    BY <1>4, <2>1, <2>2
  <2> HIDE DEF Bytes
  <2> QED BY <2>3
<1>6. Streaming(V, Len(G), rx, way, s.sending, f, up)
  BY <1>1, <1>2, <1>4, StreamingSend
<1>7. Streaming(V, Len(G), rx, way, t.sending, t.write_buffers, up)
  <2>1. CASE t.sending = s.sending /\ t.write_buffers = f
    BY <1>6, <2>1
  <2>2. CASE s.sending = <<>> /\ t.write_buffers = <<>> /\ t.sending = f
    <3>1. Streaming(V, Len(G), rx, way, f, <<>>, up)
      BY <1>5, <1>6, <2>2, StreamingNext
    <3> QED BY <2>2, <3>1
  <2> QED BY <1>4, <2>1, <2>2
<1>8. \A i \in 1..Len(G) : G[i] = Payload(V[i])
  <2>1. Len(G) \in 0..Len(W)
    BY <1>1 DEF Streaming
  <2>2. Len(W) \in Nat
    <3> HIDE DEF Message
    <3> QED BY <1>1
  <2>3. ASSUME NEW i \in 1..Len(G) PROVE G[i] = Payload(V[i])
    <3>1. i \in 1..Len(W)
      BY <2>1, <2>2
    <3>2. V[i] = W[i] /\ G[i] = Payload(W[i])
      BY <1>1, <1>3, <3>1
    <3> QED BY <3>2
  <2> QED BY <2>3
<1>9. Written(V, "io", T["io"], Len(T["io"])) /\ Written(V, "other", T["other"], n)
  <2>1. PICK A, B, k : A = S["io"] /\ B = T["io"] /\ k = Len(A)
    OBVIOUS
  <2>2. A \in Seq(Message) /\ B = Append(A, m) /\ S["other"] \in Seq(Message)
    <3> HIDE DEF Message
    <3> QED BY <2>1 DEF Sender
  <2>3. k \in Nat /\ Len(B) = k + 1 /\ B[k + 1] = m /\ B \in Seq(Message)
    <3> HIDE DEF Message
    <3> QED BY <2>1, <2>2
  <2>4. Written(W, "io", A, k)
    BY <1>1, <2>1
  <2>5. Written(W, "io", B, k)
    BY <1>1, <2>2, <2>4, WrittenSent
  <2>6. Written(V, "io", B, k + 1)
    <3>1. k + 1 <= Len(B)
      BY <2>3
    <3> QED BY <1>1, <1>2, <2>3, <2>5, <3>1, WrittenOwn
  <2>7. Written(V, "other", S["other"], n)
    BY <1>1, <1>2, <2>2, WrittenOther
  <2> QED BY <2>1, <2>3, <2>6, <2>7
<1>10. ~t.deleted => Waiting(P, T["other"], n)
  BY <1>1
<1>11. ASSUME t.aligned PROVE \A i \in 1..Len(V) : V[i].kind # "close"
  <2>1. \A i \in 1..Len(W) : W[i].kind # "close"
    BY <1>1, <1>11
  <2>2. Len(V) = Len(W) + 1 /\ V[Len(W) + 1] = m /\ Len(W) \in Nat
    <3> HIDE DEF Message
    <3> QED BY <1>1, <1>2
  <2>3. ASSUME NEW i \in 1..Len(V) PROVE V[i].kind # "close"
    <3>1. i \in 1..Len(W) \/ i = Len(W) + 1
      BY <2>2
    <3> QED BY <1>3, <1>11, <2>1, <2>2, <3>1
  <2> QED BY <2>3
<1> QED BY <1>2, <1>3, <1>7, <1>8, <1>9, <1>10, <1>11 DEF Flow

\* The next message that waits is written.
LEMMA FlowPosted ==
  ASSUME NEW W, NEW n, NEW G, NEW rx \in Seq(Bytes), NEW way \in Seq(Bytes), NEW s, NEW up,
         NEW S \in [Sender -> Seq(Message)], NEW P \in Seq(Message),
         Flow(W, n, G, rx, way, s, up, S, P), ~s.deleted,
         s.sending \in Seq(Bytes), s.write_buffers \in Seq(Bytes),
         P # <<>>, NEW m, m = Head(P), m.by = "other", m.kind = "text",
         NEW t, t.aligned => s.aligned,
         \/ /\ t.sending = s.sending
            /\ t.write_buffers = s.write_buffers \o Frame(m, FALSE)
         \/ /\ s.sending = <<>> /\ t.write_buffers = <<>>
            /\ t.sending = s.write_buffers \o Frame(m, FALSE)
  PROVE  Flow(Append(W, m), n + 1, G, rx, way, t, up, S, Tail(P))
<1>1. /\ W \in Seq(Message) /\ Streaming(W, Len(G), rx, way, s.sending, s.write_buffers, up)
      /\ \A i \in 1..Len(G) : G[i] = Payload(W[i])
      /\ Written(W, "io", S["io"], Len(S["io"]))
      /\ Written(W, "other", S["other"], n)
      /\ Waiting(P, S["other"], n)
      /\ s.aligned => \A i \in 1..Len(W) : W[i].kind # "close"
  BY DEF Flow
<1>0. m \in Message
  <2> HIDE DEF Message
  <2> QED OBVIOUS
<1>2. PICK V : V = Append(W, m)
  OBVIOUS
<1>3. V \in Seq(Message) /\ \A i \in 1..Len(W) : V[i] = W[i]
  <2> HIDE DEF Message
  <2> QED BY <1>0, <1>1, <1>2
<1>4. PICK f : f = s.write_buffers \o Frame(m, FALSE)
  OBVIOUS
<1>5. f \in Seq(Bytes)
  <2>1. Frame(m, FALSE) \in Seq(Bytes)
    BY <1>0, FrameShape
  <2>2. PICK q, r : q = s.write_buffers /\ r = Frame(m, FALSE)
    OBVIOUS
  <2>3. q \in Seq(Bytes) /\ r \in Seq(Bytes) /\ f = q \o r
    BY <1>4, <2>1, <2>2
  <2> HIDE DEF Bytes
  <2> QED BY <2>3
<1>6. Streaming(V, Len(G), rx, way, s.sending, f, up)
  BY <1>0, <1>1, <1>2, <1>4, StreamingSend
<1>7. Streaming(V, Len(G), rx, way, t.sending, t.write_buffers, up)
  <2>1. CASE t.sending = s.sending /\ t.write_buffers = f
    BY <1>6, <2>1
  <2>2. CASE s.sending = <<>> /\ t.write_buffers = <<>> /\ t.sending = f
    <3>1. Streaming(V, Len(G), rx, way, f, <<>>, up)
      BY <1>5, <1>6, <2>2, StreamingNext
    <3> QED BY <2>2, <3>1
  <2> QED BY <1>4, <2>1, <2>2
<1>8. \A i \in 1..Len(G) : G[i] = Payload(V[i])
  <2>1. Len(G) \in 0..Len(W)
    BY <1>1 DEF Streaming
  <2>2. Len(W) \in Nat
    <3> HIDE DEF Message
    <3> QED BY <1>1
  <2>3. ASSUME NEW i \in 1..Len(G) PROVE G[i] = Payload(V[i])
    <3>1. i \in 1..Len(W)
      BY <2>1, <2>2
    <3>2. V[i] = W[i] /\ G[i] = Payload(W[i])
      BY <1>1, <1>3, <3>1
    <3> QED BY <3>2
  <2> QED BY <2>3
<1>9. S["io"] \in Seq(Message) /\ S["other"] \in Seq(Message)
  <2> HIDE DEF Message
  <2> QED BY DEF Sender
<1>10. PICK A, l : A = S["other"] /\ l = Len(P)
  OBVIOUS
<1>11. /\ A \in Seq(Message) /\ l \in Nat /\ l >= 1 /\ Len(A) \in Nat /\ n + l = Len(A)
       /\ \A j \in 1..l : P[j] = A[n + j]
       /\ m = P[1]
       /\ Len(Tail(P)) = l - 1 /\ \A j \in 1..(l - 1) : Tail(P)[j] = P[j + 1]
  <2>1. n + l = Len(A) /\ \A j \in 1..l : P[j] = A[n + j]
    BY <1>1, <1>10 DEF Waiting
  <2> HIDE DEF Message
  <2> QED BY <1>9, <1>10, <2>1
<1>12. n \in Nat
  <2>1. PICK c : Counts(W, "other", c, A) /\ c[Len(W)] = n
    BY <1>1, <1>10 DEF Written
  <2>2. Len(W) \in 0..Len(W)
    <3> HIDE DEF Message
    <3> QED BY <1>1
  <2> QED BY <2>1, <2>2 DEF Counts
<1>13. m = A[n + 1] /\ n + 1 <= Len(A)
  <2>1. 1 \in 1..l
    BY <1>11
  <2>2. P[1] = A[n + 1]
    BY <1>11, <2>1
  <2> QED BY <1>11, <1>12, <2>2
<1>14. Written(V, "other", A, n + 1)
  <2>1. Written(W, "other", A, n)
    BY <1>1, <1>10
  <2> QED BY <1>1, <1>2, <1>11, <1>13, <2>1, WrittenOwn
<1>15. Written(V, "io", S["io"], Len(S["io"]))
  <2>1. m.by # "io"
    OBVIOUS
  <2> QED BY <1>0, <1>1, <1>2, <1>9, <2>1, WrittenOther
<1>16. Waiting(Tail(P), A, n + 1)
  <2>1. n + 1 + Len(Tail(P)) = Len(A)
    <3>1. PICK u, v : u = Len(Tail(P)) /\ v = Len(A)
      OBVIOUS
    <3>2. u = l - 1 /\ v = n + l /\ l \in Nat
      BY <1>11, <3>1
    <3>3. n + 1 + u = v
      BY <1>12, <3>2
    <3> QED BY <3>1, <3>3
  <2>2. ASSUME NEW j \in 1..Len(Tail(P)) PROVE Tail(P)[j] = A[n + 1 + j]
    <3>1. j \in 1..(l - 1) /\ j + 1 \in 1..l /\ n + (j + 1) = n + 1 + j
      BY <1>11, <1>12
    <3>2. Tail(P)[j] = P[j + 1] /\ P[j + 1] = A[n + (j + 1)]
      BY <1>11, <3>1
    <3> QED BY <3>1, <3>2
  <2> QED BY <2>1, <2>2 DEF Waiting
<1>17. ASSUME t.aligned PROVE \A i \in 1..Len(V) : V[i].kind # "close"
  <2>1. \A i \in 1..Len(W) : W[i].kind # "close"
    BY <1>1, <1>17
  <2>2. Len(V) = Len(W) + 1 /\ V[Len(W) + 1] = m /\ Len(W) \in Nat
    <3> HIDE DEF Message
    <3> QED BY <1>1, <1>2, <1>0
  <2>3. ASSUME NEW i \in 1..Len(V) PROVE V[i].kind # "close"
    <3>1. i \in 1..Len(W) \/ i = Len(W) + 1
      BY <2>2
    <3> QED BY <1>3, <1>17, <2>1, <2>2, <3>1
  <2> QED BY <2>3
<1> QED BY <1>2, <1>3, <1>7, <1>8, <1>10, <1>14, <1>15, <1>16, <1>17 DEF Flow

\* Another thread sends a message, which waits.
LEMMA FlowBroadcast ==
  ASSUME NEW W, NEW n, NEW G, NEW rx, NEW way, NEW s, NEW up,
         NEW S \in [Sender -> Seq(Message)], NEW P \in Seq(Message),
         Flow(W, n, G, rx, way, s, up, S, P), NEW m \in Message,
         NEW T \in [Sender -> Seq(Message)], T["other"] = Append(S["other"], m), T["io"] = S["io"]
  PROVE  Flow(W, n, G, rx, way, s, up, T, Append(P, m))
<1>1. /\ W \in Seq(Message) /\ Written(W, "other", S["other"], n)
      /\ ~s.deleted => Waiting(P, S["other"], n)
  BY DEF Flow
<1>2. PICK A, B, Q : A = S["other"] /\ B = T["other"] /\ Q = Append(P, m)
  OBVIOUS
<1>3. A \in Seq(Message) /\ B = Append(A, m)
  <2> HIDE DEF Message
  <2> QED BY <1>2 DEF Sender
<1>4. /\ Len(A) \in Nat /\ Len(P) \in Nat
      /\ Len(B) = Len(A) + 1 /\ B[Len(A) + 1] = m /\ \A k \in 1..Len(A) : B[k] = A[k]
      /\ Len(Q) = Len(P) + 1 /\ Q[Len(P) + 1] = m /\ \A k \in 1..Len(P) : Q[k] = P[k]
  <2> HIDE DEF Message
  <2> QED BY <1>2, <1>3
<1>5. Written(W, "other", B, n)
  <2>1. Written(W, "other", A, n)
    BY <1>1, <1>2
  <2> QED BY <1>1, <1>3, <2>1, WrittenSent
<1>6. n \in Nat
  <2>1. PICK c : Counts(W, "other", c, A) /\ c[Len(W)] = n
    BY <1>1, <1>2 DEF Written
  <2>2. Len(W) \in 0..Len(W)
    <3> HIDE DEF Message
    <3> QED BY <1>1
  <2> QED BY <2>1, <2>2 DEF Counts
<1>7. ASSUME ~s.deleted PROVE Waiting(Q, B, n)
  <2>1. n + Len(P) = Len(A) /\ \A j \in 1..Len(P) : P[j] = A[n + j]
    BY <1>1, <1>2, <1>7 DEF Waiting
  <2>2. n + Len(Q) = Len(B)
    BY <1>4, <1>6, <2>1
  <2>3. ASSUME NEW j \in 1..Len(Q) PROVE Q[j] = B[n + j]
    <3>1. CASE j \in 1..Len(P)
      <4>1. n + j \in 1..Len(A)
        BY <1>4, <1>6, <2>1, <3>1
      <4>2. Q[j] = P[j] /\ P[j] = A[n + j] /\ B[n + j] = A[n + j]
        BY <1>4, <2>1, <3>1, <4>1
      <4> QED BY <4>2
    <3>2. CASE j = Len(P) + 1
      <4>1. n + j = Len(A) + 1
        <5>1. n + Len(P) = Len(A)
          BY <2>1
        <5> QED BY <1>4, <1>6, <3>2, <5>1
      <4> QED BY <1>4, <3>2, <4>1
    <3>3. j \in 1..Len(P) \/ j = Len(P) + 1
      BY <1>4
    <3> QED BY <3>1, <3>2, <3>3
  <2> QED BY <2>2, <2>3 DEF Waiting
<1> QED BY <1>2, <1>5, <1>7 DEF Flow

\* A step that moves pieces from one buffer to the next.
LEMMA FlowMoves ==
  ASSUME NEW W, NEW n, NEW G, NEW rx, NEW way, NEW s, NEW up, NEW S, NEW P,
         Flow(W, n, G, rx, way, s, up, S, P), NEW t, t.deleted = s.deleted,
         t.aligned => s.aligned,
         NEW r, NEW w, NEW v, Streaming(W, Len(G), r, w, t.sending, t.write_buffers, v)
  PROVE  Flow(W, n, G, r, w, t, v, S, P)
BY DEF Flow

\* The invariant of the values that the fields have.
LEMMA FieldTypes ==
  ASSUME TypeInv
  PROVE  /\ client.rxbuf \in Seq(Bytes) /\ client.txbuf \in Seq(Bytes)
         /\ server.sending \in Seq(Bytes) /\ server.write_buffers \in Seq(Bytes)
         /\ server.fragment \in Seq(Bytes) /\ server.remaining_length \in Int
         /\ server.reading \in BOOLEAN /\ server.writing \in BOOLEAN
         /\ server.open \in BOOLEAN
         /\ sent["client"] \in Seq(Message) /\ sent["io"] \in Seq(Message)
         /\ sent["other"] \in Seq(Message)
         /\ got.client \in Seq(Seq(Bytes)) /\ got.server \in Seq(Seq(Bytes))
<1> HIDE DEF Bytes, Message
<1>1. client.rxbuf \in Seq(Bytes) /\ client.txbuf \in Seq(Bytes)
  BY DEF TypeInv, Socket
<1>2. /\ server.sending \in Seq(Bytes) /\ server.write_buffers \in Seq(Bytes)
      /\ server.fragment \in Seq(Bytes) /\ server.remaining_length \in Int
      /\ server.reading \in BOOLEAN /\ server.writing \in BOOLEAN /\ server.open \in BOOLEAN
  BY DEF TypeInv, Connection
<1>3. /\ sent["client"] \in Seq(Message) /\ sent["io"] \in Seq(Message)
      /\ sent["other"] \in Seq(Message)
  BY DEF TypeInv, Sender
<1>4. got.client \in Seq(Seq(Bytes)) /\ got.server \in Seq(Seq(Bytes))
  BY DEF TypeInv
<1> QED BY <1>1, <1>2, <1>3, <1>4

-----------------------------------------------------------------------------
(* Every step keeps the invariant *)

\* A poll moves pieces between the socket and the network, in both directions.
LEMMA PollKeeps ==
  ASSUME Inv, NEW k \in 0..Len(toClient), NEW j \in 0..Len(client.txbuf), NEW c \in BOOLEAN,
         Poll(k, j, c)
  PROVE  Inv'
<1> HIDE DEF Bytes, Message
<1>1. TypeInv /\ ConnectionInv /\ UpInv /\ DownInv
  BY DEF Inv
<1>2. PICK rx, tx : rx = client.rxbuf /\ tx = client.txbuf
  OBVIOUS
<1>3. PICK a, b, d, e : /\ a = SubSeq(toClient, 1, k) /\ b = SubSeq(toClient, k + 1, Len(toClient))
                        /\ d = SubSeq(tx, 1, j) /\ e = SubSeq(tx, j + 1, Len(tx))
  OBVIOUS
<1>4. rx \in Seq(Bytes) /\ tx \in Seq(Bytes) /\ toServer \in Seq(Bytes) /\ toClient \in Seq(Bytes)
  BY <1>1, <1>2, FieldTypes DEF TypeInv
<1>5. a \in Seq(Bytes) /\ b \in Seq(Bytes) /\ d \in Seq(Bytes) /\ e \in Seq(Bytes)
  BY <1>2, <1>3, <1>4
<1>6. PICK q, p : q = rx \o a /\ p = toServer \o d
  OBVIOUS
<1>7. q \in Seq(Bytes) /\ p \in Seq(Bytes)
  BY <1>4, <1>5, <1>6
<1>8. /\ \E z : /\ z \in {"CLOSED", client.readyState}
                /\ client' = [client EXCEPT !.readyState = z, !.rxbuf = q, !.txbuf = e]
      /\ link' \in BOOLEAN /\ (link' => link)
      /\ toClient' = b /\ toServer' = p
      /\ UNCHANGED <<server, posted, sent, got>>
  BY <1>1, <1>2, <1>3, <1>6 DEF Poll, TypeInv
<1>9. client' \in Socket /\ client'.rxbuf = q /\ client'.txbuf = e
  <2>1. PICK z \in {"CLOSED", client.readyState} :
          client' = [client EXCEPT !.readyState = z, !.rxbuf = q, !.txbuf = e]
    BY <1>8
  <2> QED BY <1>1, <1>5, <1>7, <2>1 DEF TypeInv, Socket
<1>10. TypeInv'
  BY <1>1, <1>5, <1>7, <1>8, <1>9 DEF TypeInv
<1>11. ConnectionInv'
  BY <1>1, <1>8 DEF ConnectionInv, DestroyedUnlisted
<1>12. UpInv'
  <2>1. PICK W, g : W = sent["client"] /\ g = Len(got.server)
    OBVIOUS
  <2>2. W \in Seq(Message)
    BY <1>1, <2>1, FieldTypes
  <2>3. server.aligned /\ server.reading => Reading(W, g, p, e, server)
    <3> SUFFICES ASSUME server.aligned, server.reading PROVE Reading(W, g, p, e, server)
      OBVIOUS
    <3>1. Reading(W, g, toServer, tx, server)
      BY <1>1, <1>2, <2>1 DEF UpInv
    <3>2. j \in 0..Len(tx)
      BY <1>2
    <3> QED BY <1>3, <1>4, <1>6, <2>2, <3>1, <3>2, ReadingPoll
  <2> QED BY <1>1, <1>8, <1>9, <2>1, <2>3 DEF UpInv
<1>13. DownInv'
  <2>1. PICK u, v : u = link /\ v = link'
    OBVIOUS
  <2>2. PICK W, n : Flow(W, n, got.client, rx, toClient, server, u, sent, posted)
    BY <1>1, <1>2, <2>1 DEF DownInv
  <2>3. PICK g : g = Len(got.client)
    OBVIOUS
  <2>4. Streaming(W, g, rx, toClient, server.sending, server.write_buffers, u)
    BY <2>2, <2>3 DEF Flow
  <2>5. Streaming(W, g, q, b, server.sending, server.write_buffers, u)
    BY <1>3, <1>4, <1>6, <2>4, StreamingPoll
  <2>6. Flow(W, n, got.client, q, b, server, u, sent, posted)
    BY <2>2, <2>3, <2>5, FlowMoves
  <2>7. Flow(W, n, got.client, q, b, server, v, sent, posted)
    BY <1>8, <2>1, <2>6, FlowSame
  <2> QED BY <1>8, <1>9, <2>1, <2>7 DEF DownInv
<1> QED BY <1>10, <1>11, <1>12, <1>13 DEF Inv

\* A dispatch hands the next whole frame to the handler of the client.
LEMMA DispatchKeeps ==
  ASSUME Inv, Dispatch
  PROVE  Inv'
<1> HIDE DEF Bytes, Message
<1>1. TypeInv /\ ConnectionInv /\ UpInv /\ DownInv
  BY DEF Inv
<1>2. PICK rx, tx, G : rx = client.rxbuf /\ tx = client.txbuf /\ G = got.client
  OBVIOUS
<1>3. /\ rx \in Seq(Bytes) /\ tx \in Seq(Bytes) /\ G \in Seq(Seq(Bytes))
      /\ got.server \in Seq(Seq(Bytes))
  BY <1>1, <1>2, FieldTypes
<1>4. PICK end : end = Min({FrameLen(rx), Len(rx)})
  OBVIOUS
<1>5. PICK r, p : r = SubSeq(rx, end + 1, Len(rx)) /\ p = SubSeq(rx, HeaderLen(rx) + 1, end)
  OBVIOUS
<1>6. PICK u : u = link
  OBVIOUS
<1>7. PICK W, n : Flow(W, n, G, rx, toClient, server, u, sent, posted)
  BY <1>1, <1>2, <1>6 DEF DownInv
<1>8. PICK g : g = Len(G)
  OBVIOUS
<1>9. /\ W \in Seq(Message)
      /\ Streaming(W, g, rx, toClient, server.sending, server.write_buffers, u)
      /\ \A i \in 1..g : G[i] = Payload(W[i])
  BY <1>7, <1>8 DEF Flow
<1>10. FrameThere(rx) /\ toClient \in Seq(Bytes)
  BY <1>1, <1>2 DEF Dispatch, TypeInv
<1>11. /\ end \in 0..Len(rx) /\ g \in 0..Len(W) /\ g < Len(W) /\ p = Payload(W[g + 1])
       /\ Streaming(W, g + 1, r, toClient, server.sending, server.write_buffers, u)
  <2>1. Handed(W, g, rx, end, toClient, server.sending, server.write_buffers, u)
    BY <1>3, <1>4, <1>9, <1>10, StreamingDispatch
  <2> QED BY <1>5, <2>1 DEF Handed
<1>12. W[g + 1] \in Message /\ g \in Nat
  BY <1>9, <1>11
<1>13. p \in Seq(Bytes) /\ p[1].of = W[g + 1]
  BY <1>11, <1>12, PayloadShape
<1>14. PICK H : H = Append(G, p)
  OBVIOUS
<1>15. /\ H \in Seq(Seq(Bytes)) /\ Len(H) = g + 1 /\ H[g + 1] = p
       /\ \A i \in 1..g : H[i] = G[i]
  <2>1. PICK B : B = Seq(Bytes)
    OBVIOUS
  <2>2. G \in Seq(B) /\ p \in B
    BY <1>3, <1>13, <2>1
  <2>3. H \in Seq(B) /\ Len(H) = g + 1 /\ H[g + 1] = p /\ \A i \in 1..g : H[i] = G[i]
    BY <1>8, <1>14, <2>2
  <2> QED BY <2>1, <2>3
<1>24. PICK z : z = IF p[1].of.kind = "close" THEN Close(client) ELSE client
  OBVIOUS
<1>25. /\ z \in Socket
       /\ server.aligned => z = client
  <2>1. Close(client) \in Socket
    <3>1. PICK w : w = tx \o <<[part |-> "head", size |-> 0], [part |-> "mask"]>>
      OBVIOUS
    <3>2. w \in Seq(Bytes)
      <4>1. [part |-> "head", size |-> 0] \in Bytes /\ [part |-> "mask"] \in Bytes
        BY DEF Bytes
      <4> QED BY <1>3, <3>1, <4>1
    <3>3. client \in Socket
      BY <1>1 DEF TypeInv
    <3>4. Close(client) \in {client, [client EXCEPT !.readyState = "CLOSING", !.txbuf = w]}
      BY <1>2, <3>1, <3>3 DEF Close, Socket
    <3>5. [client EXCEPT !.readyState = "CLOSING", !.txbuf = w] \in Socket
      BY <3>2, <3>3 DEF Socket
    <3> QED BY <3>3, <3>4, <3>5
  <2>2. z \in Socket
    BY <1>1, <1>24, <2>1 DEF TypeInv
  <2>3. ASSUME server.aligned PROVE z = client
    <3>1. g + 1 \in 1..Len(W)
      BY <1>9, <1>11, <1>12
    <3>2. W[g + 1].kind # "close"
      BY <1>7, <2>3, <3>1 DEF Flow
    <3> QED BY <1>13, <1>24, <3>2
  <2> QED BY <2>2, <2>3
<1>16. /\ client' = [z EXCEPT !.rxbuf = r]
       /\ got' = [got EXCEPT !.client = H]
       /\ UNCHANGED <<server, posted, toServer, toClient, link, sent>>
  <2>1. Close(client).rxbuf = rx
    BY <1>1, <1>2 DEF Close, TypeInv, Socket
  <2>2. z.rxbuf = rx
    BY <1>2, <1>24, <2>1
  <2>3. client' = [z EXCEPT !.rxbuf = SubSeq(@, end + 1, Len(@))]
    BY <1>2, <1>4, <1>5, <1>24 DEF Dispatch
  <2>4. client' = [z EXCEPT !.rxbuf = r]
    BY <1>5, <2>2, <2>3
  <2> QED BY <1>2, <1>4, <1>5, <1>14, <2>4 DEF Dispatch
<1>17. r \in Seq(Bytes)
  BY <1>3, <1>5, <1>11
<1>18. client' \in Socket /\ client'.rxbuf = r /\ (server.aligned => client'.txbuf = tx)
  <2>1. client' \in Socket /\ client'.rxbuf = r /\ client'.txbuf = z.txbuf
    BY <1>16, <1>17, <1>25 DEF Socket
  <2> QED BY <1>2, <1>25, <2>1
<1>19. /\ got' \in [client : Seq(Seq(Bytes)), server : Seq(Seq(Bytes))]
       /\ got'.client = H /\ got'.server = got.server
  BY <1>1, <1>15, <1>16 DEF TypeInv
<1>20. TypeInv'
  BY <1>1, <1>16, <1>18, <1>19 DEF TypeInv
<1>21. ConnectionInv'
  BY <1>1, <1>16 DEF ConnectionInv, DestroyedUnlisted
<1>22. UpInv'
  BY <1>1, <1>2, <1>16, <1>18, <1>19 DEF UpInv
<1>23. DownInv'
  <2>1. \A i \in 1..Len(H) : H[i] = Payload(W[i])
    <3> SUFFICES ASSUME NEW i \in 1..Len(H) PROVE H[i] = Payload(W[i])
      OBVIOUS
    <3>1. i \in 1..g \/ i = g + 1
      BY <1>12, <1>15
    <3> QED BY <1>9, <1>11, <1>15, <3>1
  <2>2. Streaming(W, Len(H), r, toClient, server.sending, server.write_buffers, u)
    BY <1>11, <1>15
  <2>3. Flow(W, n, H, r, toClient, server, u, sent, posted)
    BY <1>7, <2>1, <2>2 DEF Flow
  <2> QED BY <1>6, <1>16, <1>18, <1>19, <2>3 DEF DownInv
<1> QED BY <1>20, <1>21, <1>22, <1>23 DEF Inv

\* The list of the client loses a closed socket.
LEMMA ClearClosedKeeps ==
  ASSUME Inv, ClearClosed
  PROVE  Inv'
<1> HIDE DEF Bytes, Message
<1>1. TypeInv /\ ConnectionInv /\ UpInv /\ DownInv
  BY DEF Inv
<1>2. /\ client' = [client EXCEPT !.listed = FALSE]
      /\ UNCHANGED <<server, posted, toServer, toClient, link, sent, got>>
  BY DEF ClearClosed
<1>3. client' \in Socket /\ client'.rxbuf = client.rxbuf /\ client'.txbuf = client.txbuf
  BY <1>1, <1>2 DEF TypeInv, Socket
<1>4. TypeInv'
  BY <1>1, <1>2, <1>3 DEF TypeInv
<1>5. ConnectionInv'
  BY <1>1, <1>2 DEF ConnectionInv, DestroyedUnlisted
<1>6. UpInv'
  BY <1>1, <1>2, <1>3 DEF UpInv
<1>7. DownInv'
  BY <1>1, <1>2, <1>3 DEF DownInv
<1> QED BY <1>4, <1>5, <1>6, <1>7 DEF Inv

\* A message of the client is at the end of its line.
LEMMA ClientSendKeeps ==
  ASSUME Inv, ClientSend
  PROVE  Inv'
<1> HIDE DEF Bytes, Message
<1>1. TypeInv /\ ConnectionInv /\ UpInv /\ DownInv
  BY DEF Inv
<1>2. PICK m \in NextMessages("client") :
        /\ client' = [client EXCEPT !.txbuf = @ \o Frame(m, TRUE)]
        /\ sent' = Recorded(m)
        /\ UNCHANGED <<server, posted, toServer, toClient, link, got>>
  BY DEF ClientSend
<1>3. sent \in [Sender -> Seq(Message)] /\ "client" \in Sender
  BY <1>1 DEF TypeInv, Sender
<1>4. /\ m \in Message /\ sent' \in [Sender -> Seq(Message)]
      /\ sent'["client"] = Append(sent["client"], m)
      /\ sent'["io"] = sent["io"] /\ sent'["other"] = sent["other"]
  <2>1. SentNext(m, "client", "text")
    BY <1>3, NextMessage
  <2>2. "io" \in Sender /\ "other" \in Sender
    BY DEF Sender
  <2> QED BY <1>2, <2>1, <2>2 DEF SentNext
<1>5. PICK W, V, tx, q : /\ W = sent["client"] /\ V = sent'["client"]
                         /\ tx = client.txbuf /\ q = tx \o Frame(m, TRUE)
  OBVIOUS
<1>6. W \in Seq(Message) /\ tx \in Seq(Bytes) /\ V = Append(W, m) /\ toServer \in Seq(Bytes)
  BY <1>1, <1>4, <1>5, FieldTypes DEF TypeInv
<1>7. /\ Len(V) = Len(W) + 1 /\ Len(W) \in Nat /\ \A i \in 1..Len(W) : V[i] = W[i]
  BY <1>4, <1>6
<1>8. q \in Seq(Bytes)
  <2>1. Frame(m, TRUE) \in Seq(Bytes)
    BY <1>4, FrameShape
  <2>2. PICK f : f = Frame(m, TRUE)
    OBVIOUS
  <2>3. f \in Seq(Bytes) /\ q = tx \o f
    BY <1>5, <2>1, <2>2
  <2> QED BY <1>6, <2>3
<1>9. client' \in Socket /\ client'.rxbuf = client.rxbuf /\ client'.txbuf = q
  <2>1. client' = [client EXCEPT !.txbuf = q]
    BY <1>2, <1>5
  <2> QED BY <1>1, <1>8, <2>1 DEF TypeInv, Socket
<1>10. TypeInv'
  BY <1>1, <1>2, <1>4, <1>9 DEF TypeInv
<1>11. ConnectionInv'
  BY <1>1, <1>2 DEF ConnectionInv, DestroyedUnlisted
<1>12. UpInv'
  <2>1. PICK G : G = got.server
    OBVIOUS
  <2>2. G \in Seq(Seq(Bytes))
    BY <1>1, <2>1, FieldTypes
  <2>3. Len(G) \in Nat
    BY <2>2
  <2> SUFFICES ASSUME server.aligned PROVE UpInv'
    BY <1>2 DEF UpInv
  <2>4. /\ Len(G) <= Len(W) /\ \A i \in 1..Len(G) : G[i] = Payload(W[i])
        /\ server.reading => Reading(W, Len(G), toServer, tx, server)
    BY <1>1, <1>5, <2>1 DEF UpInv
  <2>5. Len(G) <= Len(V)
    BY <1>7, <2>3, <2>4
  <2>6. \A i \in 1..Len(G) : G[i] = Payload(V[i])
    <3> SUFFICES ASSUME NEW i \in 1..Len(G) PROVE G[i] = Payload(V[i])
      OBVIOUS
    <3>1. i \in 1..Len(W)
      BY <1>7, <2>3, <2>4
    <3>2. V[i] = W[i] /\ G[i] = Payload(W[i])
      BY <1>7, <2>4, <3>1
    <3> QED BY <3>2
  <2>7. server.reading => Reading(V, Len(G), toServer, q, server)
    BY <1>4, <1>5, <1>6, <2>4, ReadingSend
  <2> QED BY <1>2, <1>5, <1>9, <2>1, <2>5, <2>6, <2>7 DEF UpInv
<1>13. DownInv'
  <2>1. PICK u : u = link
    OBVIOUS
  <2>2. PICK Z, n : Flow(Z, n, got.client, client.rxbuf, toClient, server, u, sent, posted)
    BY <1>1, <2>1 DEF DownInv
  <2>3. Flow(Z, n, got.client, client.rxbuf, toClient, server, u, sent', posted)
    BY <1>4, <2>2 DEF Flow
  <2> QED BY <1>2, <1>9, <2>1, <2>3 DEF DownInv
<1> QED BY <1>10, <1>11, <1>12, <1>13 DEF Inv

\* A broadcast of another thread waits in the io_service.
LEMMA SendTextKeeps ==
  ASSUME Inv, SendText
  PROVE  Inv'
<1> HIDE DEF Bytes, Message
<1>1. TypeInv /\ ConnectionInv /\ UpInv /\ DownInv
  BY DEF Inv
<1>2. PICK m \in NextMessages("other") :
        /\ posted' = Append(posted, m)
        /\ sent' = Recorded(m)
        /\ UNCHANGED <<client, server, toServer, toClient, link, got>>
  BY DEF SendText
<1>3. sent \in [Sender -> Seq(Message)] /\ "other" \in Sender
  BY <1>1 DEF TypeInv, Sender
<1>4. /\ m \in Message /\ m.by = "other" /\ m.kind = "text" /\ sent' \in [Sender -> Seq(Message)]
      /\ sent'["other"] = Append(sent["other"], m)
      /\ sent'["io"] = sent["io"] /\ sent'["client"] = sent["client"]
  <2>1. SentNext(m, "other", "text")
    BY <1>3, NextMessage
  <2>2. "io" \in Sender /\ "client" \in Sender
    BY DEF Sender
  <2> QED BY <1>2, <2>1, <2>2 DEF SentNext
<1>5. /\ posted' \in Seq(Message)
      /\ \A j \in 1..Len(posted') : posted'[j].by = "other" /\ posted'[j].kind = "text"
  <2>1. PICK P, Q : P = posted /\ Q = posted'
    OBVIOUS
  <2>2. /\ P \in Seq(Message) /\ Q = Append(P, m)
        /\ \A j \in 1..Len(P) : P[j].by = "other" /\ P[j].kind = "text"
    BY <1>1, <1>2, <2>1 DEF TypeInv
  <2>3. /\ Q \in Seq(Message) /\ Len(Q) = Len(P) + 1 /\ Q[Len(P) + 1] = m /\ Len(P) \in Nat
        /\ \A j \in 1..Len(P) : Q[j] = P[j]
    BY <1>4, <2>2
  <2>4. ASSUME NEW j \in 1..Len(Q) PROVE Q[j].by = "other" /\ Q[j].kind = "text"
    <3>1. j \in 1..Len(P) \/ j = Len(P) + 1
      BY <2>3
    <3> QED BY <1>4, <2>2, <2>3, <3>1
  <2> QED BY <2>1, <2>3, <2>4
<1>6. TypeInv'
  BY <1>1, <1>2, <1>4, <1>5 DEF TypeInv
<1>7. ConnectionInv'
  BY <1>1, <1>2 DEF ConnectionInv, DestroyedUnlisted
<1>8. UpInv'
  BY <1>1, <1>2, <1>4 DEF UpInv
<1>9. DownInv'
  <2>1. PICK u : u = link
    OBVIOUS
  <2>2. PICK Z, n : Flow(Z, n, got.client, client.rxbuf, toClient, server, u, sent, posted)
    BY <1>1, <2>1 DEF DownInv
  <2>3. posted \in Seq(Message)
    BY <1>1 DEF TypeInv
  <2>4. PICK T : T = sent'
    OBVIOUS
  <2>5. /\ T \in [Sender -> Seq(Message)]
        /\ T["other"] = Append(sent["other"], m) /\ T["io"] = sent["io"]
    BY <1>4, <2>4
  <2>6. Flow(Z, n, got.client, client.rxbuf, toClient, server, u, T, Append(posted, m))
    BY <1>3, <1>4, <2>2, <2>3, <2>5, FlowBroadcast
  <2> QED BY <1>2, <2>1, <2>4, <2>6 DEF DownInv
<1> QED BY <1>6, <1>7, <1>8, <1>9 DEF Inv

\* When the link breaks, what the buffers of the server hold matters no more.
LEMMA BreakKeeps ==
  ASSUME Inv, Break
  PROVE  Inv'
<1> HIDE DEF Bytes, Message
<1>1. TypeInv /\ ConnectionInv /\ UpInv /\ DownInv
  BY DEF Inv
<1>2. link' = FALSE /\ UNCHANGED <<client, server, posted, toServer, toClient, sent, got>>
  BY DEF Break
<1>3. TypeInv' /\ ConnectionInv' /\ UpInv'
  BY <1>1, <1>2 DEF TypeInv, ConnectionInv, UpInv, DestroyedUnlisted
<1>4. DownInv'
  <2>1. PICK u, v : u = link /\ v = link'
    OBVIOUS
  <2>2. PICK Z, n : Flow(Z, n, got.client, client.rxbuf, toClient, server, u, sent, posted)
    BY <1>1, <2>1 DEF DownInv
  <2>3. ~v
    BY <1>2, <2>1
  <2>4. Flow(Z, n, got.client, client.rxbuf, toClient, server, v, sent, posted)
    BY <2>2, <2>3, FlowSame
  <2> QED BY <1>2, <2>1, <2>4 DEF DownInv
<1> QED BY <1>3, <1>4 DEF Inv

\* The io_service writes the message that has waited longest, or loses it.
LEMMA RunPostedKeeps ==
  ASSUME Inv, RunPosted
  PROVE  Inv'
<1> HIDE DEF Bytes, Message
<1>1. TypeInv /\ ConnectionInv /\ UpInv /\ DownInv
  BY DEF Inv
<1>2. PICK P, s, t : P = posted /\ s = server /\ t = server'
  OBVIOUS
<1>3. /\ P # <<>> /\ posted' = Tail(P)
      /\ t = IF s.deleted THEN s ELSE WriteText(s, Head(P))
      /\ UNCHANGED <<client, toServer, toClient, link, sent, got>>
  BY <1>2 DEF RunPosted
<1>4. /\ P \in Seq(Message) /\ \A j \in 1..Len(P) : P[j].by = "other" /\ P[j].kind = "text"
      /\ s \in Connection /\ client.rxbuf \in Seq(Bytes) /\ toClient \in Seq(Bytes)
      /\ s.sending \in Seq(Bytes) /\ s.write_buffers \in Seq(Bytes)
      /\ sent \in [Sender -> Seq(Message)]
  BY <1>1, <1>2, FieldTypes DEF TypeInv
<1>5. PICK m : m = Head(P)
  OBVIOUS
<1>6. m \in Message /\ m.by = "other" /\ m.kind = "text"
  BY <1>3, <1>4, <1>5
<1>7. /\ Tail(P) \in Seq(Message)
      /\ \A j \in 1..Len(Tail(P)) : Tail(P)[j].by = "other" /\ Tail(P)[j].kind = "text"
  BY <1>3, <1>4
<1>8. /\ t \in Connection /\ t.state = s.state /\ t.remaining_length = s.remaining_length
      /\ t.fragment = s.fragment /\ t.reading = s.reading /\ t.aligned = s.aligned
      /\ t.open = s.open /\ t.listed = s.listed /\ t.deleted = s.deleted
      /\ (~t.writing => t.sending = <<>>)
  <2>1. CASE s.deleted
    BY <1>1, <1>2, <1>3, <1>4, <2>1 DEF ConnectionInv
  <2>2. CASE ~s.deleted
    <3>1. t = WriteText(s, m)
      BY <1>3, <1>5, <2>2
    <3>2. TextWritten(s, m, t)
      BY <1>4, <1>6, <3>1, WriteTextFields
    <3> QED BY <3>2 DEF TextWritten
  <2> QED BY <2>1, <2>2
<1>9. TypeInv'
  BY <1>1, <1>2, <1>3, <1>7, <1>8 DEF TypeInv
<1>10. ConnectionInv'
  BY <1>1, <1>2, <1>8 DEF ConnectionInv, DestroyedUnlisted
<1>11. UpInv'
  <2>1. server.aligned /\ server.reading => Reading(sent["client"], Len(got.server), toServer, client.txbuf, server)
    BY <1>1 DEF UpInv
  <2>2. t.aligned /\ t.reading => Reading(sent["client"], Len(got.server), toServer, client.txbuf, t)
    BY <1>2, <1>8, <2>1, ReadingSame
  <2> QED BY <1>1, <1>2, <1>3, <1>8, <2>2 DEF UpInv
<1>12. DownInv'
  <2>1. PICK u : u = link
    OBVIOUS
  <2>2. PICK W, n : Flow(W, n, got.client, client.rxbuf, toClient, s, u, sent, P)
    BY <1>1, <1>2, <2>1 DEF DownInv
  <2>3. \E V, k : Flow(V, k, got.client, client.rxbuf, toClient, t, u, sent, Tail(P))
    <3>1. CASE s.deleted
      BY <1>3, <2>2, <3>1 DEF Flow
    <3>2. CASE ~s.deleted
      <4>1. t = WriteText(s, m)
        BY <1>3, <1>5, <3>2
      <4>2. TextWritten(s, m, t)
        BY <1>4, <1>6, <4>1, WriteTextFields
      <4>4. ~s.writing => s.sending = <<>>
        BY <1>1, <1>2 DEF ConnectionInv
      <4>5. \/ /\ t.sending = s.sending
               /\ t.write_buffers = s.write_buffers \o Frame(m, FALSE)
            \/ /\ s.sending = <<>> /\ t.write_buffers = <<>>
               /\ t.sending = s.write_buffers \o Frame(m, FALSE)
        BY <4>2, <4>4 DEF TextWritten
      <4>6. Flow(Append(W, m), n + 1, got.client, client.rxbuf, toClient, t, u, sent, Tail(P))
        BY <1>3, <1>4, <1>5, <1>6, <1>8, <2>2, <3>2, <4>5, FlowPosted
      <4> QED BY <4>6
    <3> QED BY <3>1, <3>2
  <2> QED BY <1>2, <1>3, <2>1, <2>3 DEF DownInv
<1> QED BY <1>9, <1>10, <1>11, <1>12 DEF Inv

\* The server writes all that it is sending.
LEMMA WriteBuffersKeeps ==
  ASSUME Inv, WriteBuffers
  PROVE  Inv'
<1> HIDE DEF Bytes, Message
<1>1. TypeInv /\ ConnectionInv /\ UpInv /\ DownInv
  BY DEF Inv
<1>2. /\ server.writing /\ link = TRUE
      /\ toClient' = toClient \o server.sending
      /\ server' = [server EXCEPT !.sending = <<>>]
      /\ UNCHANGED <<client, posted, toServer, link, sent, got>>
  BY <1>1 DEF WriteBuffers, TypeInv
<1>3. PICK s, t, q : s = server /\ t = server' /\ q = s.sending
  OBVIOUS
<1>4. PICK k, r, w : /\ k = Len(q) /\ r = SubSeq(q, k + 1, Len(q))
                     /\ w = toClient \o SubSeq(q, 1, k)
  OBVIOUS
<1>5. /\ s \in Connection /\ client.rxbuf \in Seq(Bytes) /\ toClient \in Seq(Bytes)
      /\ q \in Seq(Bytes) /\ s.write_buffers \in Seq(Bytes)
  BY <1>1, <1>3, FieldTypes DEF TypeInv
<1>6. k \in 0..Len(q) /\ k \in Nat
  BY <1>4, <1>5
<1>7. r \in Seq(Bytes) /\ w \in Seq(Bytes)
  BY <1>4, <1>5, <1>6
<1>8. t = [s EXCEPT !.sending = r] /\ toClient' = w
  <2>1. SubSeq(q, 1, k) = q /\ r = <<>>
    BY <1>4, <1>5
  <2> QED BY <1>2, <1>3, <1>4, <2>1
<1>9. /\ t \in Connection /\ t.state = s.state /\ t.remaining_length = s.remaining_length
      /\ t.fragment = s.fragment /\ t.reading = s.reading /\ t.writing = s.writing
      /\ t.aligned = s.aligned
      /\ t.open = s.open /\ t.listed = s.listed /\ t.deleted = s.deleted
      /\ t.sending = r /\ t.write_buffers = s.write_buffers
  BY <1>5, <1>7, <1>8 DEF Connection
<1>10. TypeInv'
  BY <1>1, <1>2, <1>3, <1>7, <1>8, <1>9 DEF TypeInv
<1>11. ConnectionInv'
  BY <1>1, <1>2, <1>3, <1>9 DEF ConnectionInv, DestroyedUnlisted
<1>12. UpInv'
  <2>1. server.aligned /\ server.reading => Reading(sent["client"], Len(got.server), toServer, client.txbuf, server)
    BY <1>1 DEF UpInv
  <2>2. t.aligned /\ t.reading => Reading(sent["client"], Len(got.server), toServer, client.txbuf, t)
    BY <1>3, <1>9, <2>1, ReadingSame
  <2> QED BY <1>1, <1>2, <1>3, <2>2 DEF UpInv
<1>13. DownInv'
  <2>1. PICK W, n : Flow(W, n, got.client, client.rxbuf, toClient, s, TRUE, sent, posted)
    BY <1>1, <1>2, <1>3 DEF DownInv
  <2>2. PICK u : u = link'
    OBVIOUS
  <2>3. PICK g : g = Len(got.client)
    OBVIOUS
  <2>4. Streaming(W, g, client.rxbuf, toClient, q, s.write_buffers, TRUE)
    BY <1>3, <2>1, <2>3 DEF Flow
  <2>5. Streaming(W, g, client.rxbuf, w, r, s.write_buffers, u)
    BY <1>4, <1>5, <1>6, <2>4, StreamingWrite
  <2>6. Flow(W, n, got.client, client.rxbuf, w, t, u, sent, posted)
    <3>1. Streaming(W, Len(got.client), client.rxbuf, w, t.sending, t.write_buffers, u)
      BY <1>9, <2>3, <2>5
    <3>2. t.deleted = s.deleted /\ t.aligned = s.aligned
      BY <1>9
    <3> QED BY <2>1, <3>1, <3>2, FlowMoves
  <2> QED BY <1>2, <1>3, <1>8, <2>2, <2>6 DEF DownInv
<1> QED BY <1>10, <1>11, <1>12, <1>13 DEF Inv

\* A step of the server's connection alone, after which it is up only if it was and
\* the buffers are left alone.
LEMMA ServerStep ==
  ASSUME Inv, UNCHANGED <<client, posted, toServer, toClient, sent, got>>, link' \in BOOLEAN,
         server' \in Connection,
         ~server'.writing => server'.sending = <<>>,
         server'.deleted => ~server'.listed,
         server'.reading => /\ server.reading /\ server'.state = server.state
                            /\ server'.remaining_length = server.remaining_length
                            /\ server'.fragment = server.fragment,
         link' => /\ link /\ server'.sending = server.sending
                  /\ server'.write_buffers = server.write_buffers,
         ~server'.deleted => ~server.deleted, server'.aligned => server.aligned
  PROVE  Inv'
<1> HIDE DEF Bytes, Message
<1>1. TypeInv /\ ConnectionInv /\ UpInv /\ DownInv
  BY DEF Inv
<1>2. TypeInv'
  BY <1>1 DEF TypeInv
<1>3. ConnectionInv'
  BY DEF ConnectionInv, DestroyedUnlisted
<1>4. PICK s, t : s = server /\ t = server'
  OBVIOUS
<1>5. UpInv'
  <2>1. s.aligned /\ s.reading => Reading(sent["client"], Len(got.server), toServer, client.txbuf, s)
    BY <1>1, <1>4 DEF UpInv
  <2>2. t.aligned /\ t.reading => Reading(sent["client"], Len(got.server), toServer, client.txbuf, t)
    BY <1>4, <2>1, ReadingSame
  <2> QED BY <1>1, <1>4, <2>2 DEF UpInv
<1>6. DownInv'
  <2>1. PICK u, v : u = link /\ v = link'
    OBVIOUS
  <2>2. PICK W, n : Flow(W, n, got.client, client.rxbuf, toClient, s, u, sent, posted)
    BY <1>1, <1>4, <2>1 DEF DownInv
  <2>3. /\ v => u /\ t.sending = s.sending /\ t.write_buffers = s.write_buffers
        /\ ~t.deleted => ~s.deleted
        /\ t.aligned => s.aligned
    BY <1>4, <2>1
  <2>4. Flow(W, n, got.client, client.rxbuf, toClient, t, v, sent, posted)
    BY <2>2, <2>3, FlowSame
  <2> QED BY <1>4, <2>1, <2>4 DEF DownInv
<1> QED BY <1>2, <1>3, <1>5, <1>6 DEF Inv

\* The next write has what was queued during the last one.
LEMMA WriteDoneKeeps ==
  ASSUME Inv, WriteDone
  PROVE  Inv'
<1> HIDE DEF Bytes, Message
<1>1. TypeInv /\ ConnectionInv /\ UpInv /\ DownInv
  BY DEF Inv
<1>2. PICK r : r = [server EXCEPT !.writing = FALSE]
  OBVIOUS
<1>3. /\ server.writing /\ server.sending = <<>> /\ server' = AfterWrite(r)
      /\ link' \in BOOLEAN /\ (link' => link)
      /\ UNCHANGED <<client, posted, toServer, toClient, sent, got>>
  BY <1>1, <1>2 DEF WriteDone, TypeInv
<1>4. /\ server \in Connection /\ r \in Connection /\ ~r.writing /\ r.sending = <<>>
      /\ r.write_buffers = server.write_buffers
      /\ r.state = server.state /\ r.remaining_length = server.remaining_length
      /\ r.fragment = server.fragment /\ r.reading = server.reading
      /\ r.aligned = server.aligned
      /\ r.open = server.open /\ r.listed = server.listed /\ r.deleted = server.deleted
  BY <1>1, <1>2, <1>3 DEF TypeInv, Connection
<1>5. r.deleted => ~r.listed
  BY <1>1, <1>4 DEF ConnectionInv, DestroyedUnlisted
<1>6. CASE r.close_connection
  <2>1. server' = check_destroy(r)
    BY <1>3, <1>6 DEF AfterWrite
  <2>2. DestroyChecked(r, server')
    BY <1>4, <2>1, DestroyFields
  <2>3. /\ server' \in Connection
        /\ ~server'.writing => server'.sending = <<>>
        /\ server'.deleted => ~server'.listed
        /\ server'.reading => /\ server.reading /\ server'.state = server.state
                              /\ server'.remaining_length = server.remaining_length
                              /\ server'.fragment = server.fragment
        /\ link' => /\ link /\ server'.sending = server.sending
                    /\ server'.write_buffers = server.write_buffers
        /\ server'.aligned => server.aligned
        /\ ~server'.deleted => ~server.deleted
    BY <1>3, <1>4, <2>2 DEF DestroyChecked
  <2> QED BY <1>3, <2>3, ServerStep
<1>7. CASE ~r.close_connection /\ r.write_buffers = <<>>
  <2>1. server' = [r EXCEPT !.close_connection = r.has_sent_close]
    BY <1>3, <1>7 DEF AfterWrite
  <2>2. /\ server' \in Connection /\ server'.writing = r.writing /\ server'.sending = r.sending
        /\ server'.write_buffers = r.write_buffers
        /\ server'.state = r.state /\ server'.remaining_length = r.remaining_length
        /\ server'.fragment = r.fragment /\ server'.reading = r.reading
        /\ server'.aligned = r.aligned /\ server'.listed = r.listed
        /\ server'.deleted = r.deleted
    BY <1>4, <2>1 DEF Connection
  <2>3. /\ server' \in Connection
        /\ ~server'.writing => server'.sending = <<>>
        /\ server'.deleted => ~server'.listed
        /\ server'.reading => /\ server.reading /\ server'.state = server.state
                              /\ server'.remaining_length = server.remaining_length
                              /\ server'.fragment = server.fragment
        /\ link' => /\ link /\ server'.sending = server.sending
                    /\ server'.write_buffers = server.write_buffers
        /\ server'.aligned => server.aligned
        /\ ~server'.deleted => ~server.deleted
    BY <1>3, <1>4, <1>5, <2>2
  <2> QED BY <1>3, <2>3, ServerStep
<1>8. CASE ~r.close_connection /\ r.write_buffers # <<>>
  <2>1. server' = [do_write(r) EXCEPT !.close_connection = r.has_sent_close]
    BY <1>3, <1>8 DEF AfterWrite
  <2>2. PICK t, q : t = server' /\ q = r.write_buffers
    OBVIOUS
  <2>3. t = [r EXCEPT !.sending = q, !.write_buffers = <<>>, !.writing = TRUE,
                      !.close_connection = r.has_sent_close]
    BY <1>4, <2>1, <2>2 DEF do_write, Connection
  <2>4. q \in Seq(Bytes) /\ <<>> \in Seq(Bytes)
    BY <1>4, <2>2 DEF Connection
  <2>5. /\ t \in Connection /\ t.writing /\ t.sending = q /\ t.write_buffers = <<>>
        /\ t.state = r.state /\ t.remaining_length = r.remaining_length
        /\ t.fragment = r.fragment /\ t.reading = r.reading /\ t.aligned = r.aligned
        /\ t.open = r.open /\ t.listed = r.listed /\ t.deleted = r.deleted
    BY <1>4, <2>3, <2>4 DEF Connection
  <2>6. TypeInv'
    BY <1>1, <1>3, <2>2, <2>5 DEF TypeInv
  <2>7. ConnectionInv'
    BY <1>5, <2>2, <2>5 DEF ConnectionInv, DestroyedUnlisted
  <2>8. UpInv'
    <3>1. server.aligned /\ server.reading => Reading(sent["client"], Len(got.server), toServer, client.txbuf, server)
      BY <1>1 DEF UpInv
    <3>2. t.aligned /\ t.reading => Reading(sent["client"], Len(got.server), toServer, client.txbuf, t)
      BY <1>4, <2>5, <3>1, ReadingSame
    <3> QED BY <1>1, <1>3, <1>4, <2>2, <2>5, <3>2 DEF UpInv
  <2>9. DownInv'
    <3>1. PICK u, v : u = link /\ v = link'
      OBVIOUS
    <3>2. PICK W, n : Flow(W, n, got.client, client.rxbuf, toClient, server, u, sent, posted)
      BY <1>1, <3>1 DEF DownInv
    <3>3. PICK g : g = Len(got.client)
      OBVIOUS
    <3>4. Streaming(W, g, client.rxbuf, toClient, <<>>, q, u)
      BY <1>3, <1>4, <2>2, <3>2, <3>3 DEF Flow
    <3>5. Streaming(W, g, client.rxbuf, toClient, q, <<>>, u)
      BY <2>4, <3>4, StreamingNext
    <3>6. /\ Streaming(W, Len(got.client), client.rxbuf, toClient, t.sending, t.write_buffers, u)
          /\ t.deleted = server.deleted /\ t.aligned = server.aligned
      BY <1>4, <2>5, <3>3, <3>5
    <3>7. Flow(W, n, got.client, client.rxbuf, toClient, t, u, sent, posted)
      BY <3>2, <3>6, FlowMoves
    <3>8. Flow(W, n, got.client, client.rxbuf, toClient, t, v, sent, posted)
      BY <1>3, <3>1, <3>7, FlowSame
    <3> QED BY <1>3, <2>2, <3>1, <3>8 DEF DownInv
  <2> QED BY <2>6, <2>7, <2>8, <2>9 DEF Inv
<1> QED BY <1>6, <1>7, <1>8

\* A write fails only when the connection is no longer up.
LEMMA WriteErrorKeeps ==
  ASSUME Inv, WriteError
  PROVE  Inv'
<1> HIDE DEF Bytes, Message
<1>1. TypeInv /\ ConnectionInv
  BY DEF Inv
<1>2. PICK r : r = [server EXCEPT !.writing = FALSE, !.sending = <<>>, !.close_connection = TRUE]
  OBVIOUS
<1>3. /\ ~link /\ link' = link /\ link' \in BOOLEAN
      /\ server' = check_destroy(r)
      /\ UNCHANGED <<client, posted, toServer, toClient, sent, got>>
  BY <1>1, <1>2 DEF WriteError, TypeInv
<1>4. server \in Connection /\ <<>> \in Seq(Bytes)
  BY <1>1 DEF TypeInv
<1>5. /\ r \in Connection /\ ~r.writing /\ r.sending = <<>>
      /\ r.write_buffers = server.write_buffers
      /\ r.state = server.state /\ r.remaining_length = server.remaining_length
      /\ r.fragment = server.fragment /\ r.reading = server.reading
      /\ r.aligned = server.aligned
      /\ r.open = server.open /\ r.deleted = server.deleted /\ r.aligned = server.aligned
  BY <1>2, <1>4 DEF Connection
<1>6. DestroyChecked(r, server')
  BY <1>3, <1>5, DestroyFields
<1>7. /\ server' \in Connection
      /\ ~server'.writing => server'.sending = <<>>
      /\ server'.deleted => ~server'.listed
      /\ server'.reading => /\ server.reading /\ server'.state = server.state
                            /\ server'.remaining_length = server.remaining_length
                            /\ server'.fragment = server.fragment
      /\ link' => /\ link /\ server'.sending = server.sending
                  /\ server'.write_buffers = server.write_buffers
      /\ server'.aligned => server.aligned
      /\ ~server'.deleted => ~server.deleted
  BY <1>3, <1>5, <1>6 DEF DestroyChecked
<1> QED BY <1>3, <1>7, ServerStep

\* What CloseSocket does to a connection.
ClosedSocket(s, r) ==
  /\ r \in Connection /\ r.writing = s.writing /\ r.sending = s.sending
  /\ r.write_buffers = s.write_buffers /\ ~r.reading /\ ~r.open
  /\ r.deleted = s.deleted /\ r.listed = s.listed /\ r.aligned = s.aligned

\* It reads no more.
LEMMA SocketClosed ==
  ASSUME NEW s \in Connection
  PROVE  ClosedSocket(s, CloseSocket(s))
<1>1. PICK r : r = CloseSocket(s)
  OBVIOUS
<1>2. r = [s EXCEPT !.reading = FALSE, !.close_connection = TRUE, !.open = FALSE]
  BY <1>1 DEF CloseSocket
<1> HIDE DEF Bytes
<1>3. ClosedSocket(s, r)
  BY <1>2 DEF Connection, ClosedSocket
<1> QED BY <1>1, <1>3

\* After a failed read the connection reads no more and its socket is closed.
LEMMA ReadErrorKeeps ==
  ASSUME Inv, ReadError
  PROVE  Inv'
<1> HIDE DEF Bytes, Message
<1>1. TypeInv /\ ConnectionInv
  BY DEF Inv
<1>2. PICK r : r = CloseSocket(server)
  OBVIOUS
<1>3. /\ server' = check_destroy(r) \/ server' = r
      /\ ~link /\ link' = link /\ link' \in BOOLEAN
      /\ UNCHANGED <<client, posted, toServer, toClient, sent, got>>
  BY <1>1, <1>2 DEF ReadError, TypeInv
<1>4. server \in Connection
  BY <1>1 DEF TypeInv
<1>5. /\ r \in Connection /\ r.writing = server.writing /\ r.sending = server.sending
      /\ r.write_buffers = server.write_buffers /\ ~r.reading /\ ~r.open
      /\ r.deleted = server.deleted /\ r.listed = server.listed /\ r.aligned = server.aligned
  BY <1>2, <1>4, SocketClosed DEF ClosedSocket
<1>6. DestroyChecked(r, check_destroy(r))
  BY <1>5, DestroyFields
<1>7. /\ server' \in Connection /\ ~server'.reading /\ ~server'.open
      /\ ~server'.writing => server'.sending = <<>>
      /\ server'.deleted => ~server'.listed
      /\ ~server'.deleted => ~server.deleted
      /\ server'.aligned => server.aligned
  <2>1. CASE server' = check_destroy(r)
    BY <1>1, <1>5, <1>6, <2>1 DEF DestroyChecked, ConnectionInv
  <2>2. CASE server' = r
    BY <1>1, <1>5, <2>2 DEF ConnectionInv, DestroyedUnlisted
  <2> QED BY <1>3, <2>1, <2>2
<1> QED BY <1>3, <1>7, ServerStep

\* What a read changes apart from what has been read.
SameWrites(s, t) ==
  /\ t.writing = s.writing /\ t.sending = s.sending /\ t.write_buffers = s.write_buffers
  /\ t.listed = s.listed /\ t.deleted = s.deleted /\ t.aligned = s.aligned

\* A read inside a message.
LEMMA ReadStep ==
  ASSUME Inv, UNCHANGED <<client, posted, toClient, sent, got>>, link' \in BOOLEAN, link' => link,
         server' \in Connection, SameWrites(server, server'), toServer' \in Seq(Bytes),
         server'.aligned /\ server'.reading =>
           Reading(sent["client"], Len(got.server), toServer', client.txbuf, server')
  PROVE  Inv'
<1> HIDE DEF Bytes, Message
<1>1. TypeInv /\ ConnectionInv /\ UpInv /\ DownInv
  BY DEF Inv
<1>2. TypeInv'
  BY <1>1 DEF TypeInv
<1>3. ConnectionInv'
  BY <1>1 DEF ConnectionInv, DestroyedUnlisted, SameWrites
<1>4. UpInv'
  BY <1>1 DEF UpInv, SameWrites
<1>5. DownInv'
  <2>1. PICK s, t, u, v : s = server /\ t = server' /\ u = link /\ v = link'
    OBVIOUS
  <2>2. PICK W, n : Flow(W, n, got.client, client.rxbuf, toClient, s, u, sent, posted)
    BY <1>1, <2>1 DEF DownInv
  <2>3. /\ v => u /\ t.sending = s.sending /\ t.write_buffers = s.write_buffers
        /\ ~t.deleted => ~s.deleted
        /\ t.aligned => s.aligned
    BY <2>1 DEF SameWrites
  <2>4. Flow(W, n, got.client, client.rxbuf, toClient, t, v, sent, posted)
    BY <2>2, <2>3, FlowSame
  <2> QED BY <2>1, <2>4 DEF DownInv
<1> QED BY <1>2, <1>3, <1>4, <1>5 DEF Inv

\* The header and the longer length.
LEMMA ReadLengthKeeps ==
  ASSUME Inv, ReadHeader \/ ReadLen
  PROVE  Inv'
<1> HIDE DEF Bytes, Message
<1>1. TypeInv /\ UpInv
  BY DEF Inv
<1>2. PICK s, t, way, tx, W, g :
        /\ s = server /\ t = server' /\ way = toServer /\ tx = client.txbuf
        /\ W = sent["client"] /\ g = Len(got.server)
  OBVIOUS
<1>3. /\ s.aligned /\ s.reading /\ way # <<>> /\ toServer' = SubSeq(way, 1 + 1, Len(way))
      /\ UNCHANGED <<client, posted, toClient, sent, got>>
      /\ link' \in BOOLEAN /\ (link' => link)
      /\ \/ /\ s.state = "MiniHeader" /\ Head(way).size < 0
            /\ t = [s EXCEPT !.state = "Len"]
         \/ /\ s.state = "MiniHeader" /\ ~(Head(way).size < 0)
            /\ t = [s EXCEPT !.state = "Mask", !.remaining_length = Head(way).size]
         \/ /\ s.state = "Len"
            /\ t = [s EXCEPT !.state = "Mask", !.remaining_length = Head(way).size]
  BY <1>1, <1>2 DEF ReadHeader, ReadLen, Read, TypeInv
<1>4. /\ s \in Connection /\ way \in Seq(Bytes) /\ tx \in Seq(Bytes) /\ W \in Seq(Message)
  BY <1>1, <1>2, FieldTypes DEF TypeInv
<1>5. Reading(W, g, way, tx, s)
  BY <1>1, <1>2, <1>3 DEF UpInv
<1>6. s.fragment = <<>>
  BY <1>5 DEF Reading, Place
<1>7. /\ \/ /\ s.state = "MiniHeader" /\ Head(way).size < 0 /\ t.state = "Len"
            /\ t.remaining_length = s.remaining_length
         \/ /\ s.state = "MiniHeader" /\ ~(Head(way).size < 0) /\ t.state = "Mask"
            /\ t.remaining_length = Head(way).size
         \/ /\ s.state = "Len" /\ t.state = "Mask"
            /\ t.remaining_length = Head(way).size
      /\ t.fragment = <<>> /\ SameWrites(s, t)
  BY <1>3, <1>4, <1>6 DEF Connection, SameWrites
<1>8. PICK rest : rest = SubSeq(way, 1 + 1, Len(way))
  OBVIOUS
<1>9. Reading(W, g, rest, tx, t) /\ (t.state = "Mask" => t.remaining_length \in Int)
  BY <1>3, <1>4, <1>5, <1>7, <1>8, ReadingLength
<1>10. rest \in Seq(Bytes)
  BY <1>4, <1>8
<1>11. t \in Connection
  <2>1. CASE t = [s EXCEPT !.state = "Len"]
    BY <1>4, <2>1 DEF Connection
  <2>2. CASE t = [s EXCEPT !.state = "Mask", !.remaining_length = Head(way).size]
    <3>1. t.state = "Mask" /\ t.remaining_length = Head(way).size
      BY <1>4, <2>2 DEF Connection
    <3>2. Head(way).size \in Int
      BY <1>9, <3>1
    <3>3. PICK z : z = Head(way).size
      OBVIOUS
    <3>4. z \in Int /\ t = [s EXCEPT !.state = "Mask", !.remaining_length = z]
      BY <2>2, <3>2, <3>3
    <3> QED BY <1>4, <3>4 DEF Connection
  <2> QED BY <1>3, <2>1, <2>2
<1> QED BY <1>2, <1>3, <1>7, <1>8, <1>9, <1>10, <1>11, ReadStep

\* The mask.
LEMMA ReadMaskKeeps ==
  ASSUME Inv, ReadMask
  PROVE  Inv'
<1> HIDE DEF Bytes, Message
<1>1. TypeInv /\ UpInv
  BY DEF Inv
<1>2. PICK s, t, way, tx, W, g :
        /\ s = server /\ t = server' /\ way = toServer /\ tx = client.txbuf
        /\ W = sent["client"] /\ g = Len(got.server)
  OBVIOUS
<1>3. /\ s.aligned /\ s.reading /\ Len(way) >= 1 /\ toServer' = SubSeq(way, 1 + 1, Len(way))
      /\ UNCHANGED <<client, posted, toClient, sent, got>>
      /\ link' \in BOOLEAN /\ (link' => link)
      /\ s.state = "Mask" /\ t = [s EXCEPT !.state = "Payload"]
  BY <1>1, <1>2 DEF ReadMask, Read, TypeInv
<1>4. /\ s \in Connection /\ way \in Seq(Bytes) /\ tx \in Seq(Bytes) /\ W \in Seq(Message)
  BY <1>1, <1>2, FieldTypes DEF TypeInv
<1>5. Reading(W, g, way, tx, s)
  BY <1>1, <1>2, <1>3 DEF UpInv
<1>6. /\ t \in Connection /\ t.state = "Payload" /\ t.remaining_length = s.remaining_length
      /\ t.fragment = s.fragment /\ SameWrites(s, t)
  BY <1>3, <1>4 DEF Connection, SameWrites
<1>7. PICK rest : rest = SubSeq(way, 1 + 1, Len(way))
  OBVIOUS
<1>8. Reading(W, g, rest, tx, t)
  BY <1>3, <1>4, <1>5, <1>6, <1>7, ReadingMask
<1>9. rest \in Seq(Bytes)
  BY <1>4, <1>7
<1> QED BY <1>2, <1>3, <1>6, <1>7, <1>8, <1>9, ReadStep

\* A part of the payload, after which the connection reads no more.
LEMMA ReadPartOfPayloadKeeps ==
  ASSUME Inv, ReadPartOfPayload
  PROVE  Inv'
<1> HIDE DEF Bytes, Message
<1>1. TypeInv
  BY DEF Inv
<1>2. PICK k \in PayloadReads :
        /\ toServer' = SubSeq(toServer, k + 1, Len(toServer))
        /\ server' = [server EXCEPT !.fragment = @ \o SubSeq(toServer, 1, k),
                                    !.remaining_length = @ - k, !.reading = FALSE]
        /\ Len(toServer) >= k
        /\ link' \in BOOLEAN /\ (link' => link)
        /\ UNCHANGED <<client, posted, toClient, sent, got>>
  BY <1>1 DEF ReadPartOfPayload, Read, TypeInv
<1>3. server \in Connection /\ toServer \in Seq(Bytes)
  BY <1>1 DEF TypeInv
<1>4. k \in Nat /\ k \in 0..Len(toServer)
  <2>1. PICK z : z = Min({server.remaining_length, BufferSize, Len(toServer)})
    OBVIOUS
  <2>2. k \in 1..z
    BY <2>1 DEF PayloadReads
  <2>3. k \in Nat
    BY <2>2
  <2> QED BY <1>2, <1>3, <2>3
<1>5. PICK a, b, w : /\ a = server.fragment \o SubSeq(toServer, 1, k)
                     /\ b = SubSeq(toServer, k + 1, Len(toServer))
                     /\ w = server.remaining_length - k
  OBVIOUS
<1>6. a \in Seq(Bytes) /\ b \in Seq(Bytes) /\ w \in Int
  <2>1. server.fragment \in Seq(Bytes) /\ server.remaining_length \in Int
    BY <1>3 DEF Connection
  <2>2. PICK f, q, z : /\ f = server.fragment /\ q = SubSeq(toServer, 1, k)
                       /\ z = server.remaining_length
    OBVIOUS
  <2>3. q \in Seq(Bytes)
    BY <1>3, <1>4, <2>2
  <2>4. f \in Seq(Bytes) /\ z \in Int /\ a = f \o q /\ w = z - k
    BY <1>5, <2>1, <2>2
  <2>5. a \in Seq(Bytes)
    BY <2>3, <2>4
  <2>6. b \in Seq(Bytes)
    BY <1>3, <1>4, <1>5
  <2>7. w \in Int
    BY <1>4, <2>4
  <2> QED BY <2>5, <2>6, <2>7
<1>7. server' = [server EXCEPT !.fragment = a, !.remaining_length = w, !.reading = FALSE]
  BY <1>2, <1>3, <1>5 DEF Connection
<1>8. server' \in Connection /\ SameWrites(server, server') /\ ~server'.reading
  BY <1>3, <1>6, <1>7 DEF Connection, SameWrites
<1> QED BY <1>2, <1>5, <1>6, <1>8, ReadStep

\* The payload to its end, with or without an answer.
LEMMA ReadPayloadKeeps ==
  ASSUME Inv, ReadPayload
  PROVE  Inv'
<1> HIDE DEF Bytes, Message
<1>1. TypeInv /\ ConnectionInv /\ UpInv /\ DownInv
  BY DEF Inv
<1>2. PICK s, way, tx, W, G, g, k :
        /\ s = server /\ way = toServer /\ tx = client.txbuf
        /\ W = sent["client"] /\ G = got.server /\ g = Len(G) /\ k = s.remaining_length
  OBVIOUS
<1>3. PICK next : next = [s EXCEPT !.state = "MiniHeader", !.fragment = <<>>, !.remaining_length = 0]
  OBVIOUS
<1>4. PICK rest, p : /\ rest = SubSeq(way, k + 1, Len(way))
                     /\ p = s.fragment \o SubSeq(way, 1, k)
  OBVIOUS
<1>5. PICK H : H = Append(G, p)
  OBVIOUS
<1>6. /\ s.aligned /\ s.state = "Payload" /\ s.reading /\ Len(way) >= k
      /\ toServer' = rest /\ got' = [got EXCEPT !.server = H]
      /\ UNCHANGED <<client, posted, toClient>> /\ link' \in BOOLEAN /\ (link' => link)
      /\ \/ server' = next /\ sent' = sent
         \/ \E m \in NextMessages("io") : server' = WriteText(next, m) /\ sent' = Recorded(m)
  BY <1>1, <1>2, <1>3, <1>4, <1>5 DEF ReadPayload, Read, TypeInv
<1>7. /\ s \in Connection /\ way \in Seq(Bytes) /\ tx \in Seq(Bytes) /\ W \in Seq(Message)
      /\ G \in Seq(Seq(Bytes)) /\ k \in Int /\ sent \in [Sender -> Seq(Message)]
  BY <1>1, <1>2, FieldTypes DEF TypeInv
<1>8. /\ next \in Connection /\ next.state = "MiniHeader" /\ next.fragment = <<>>
      /\ SameWrites(s, next)
  <2>1. <<>> \in Seq(Bytes)
    OBVIOUS
  <2>2. next \in Connection
    <3>1. PICK e, z : e = <<>> /\ z = 0
      OBVIOUS
    <3>2. e \in Seq(Bytes) /\ z \in Int
      BY <2>1, <3>1
    <3>3. next = [s EXCEPT !.state = "MiniHeader", !.fragment = e, !.remaining_length = z]
      BY <1>3, <3>1
    <3> QED BY <1>7, <3>2, <3>3 DEF Connection
  <2>3. next.state = "MiniHeader" /\ next.fragment = <<>>
    BY <1>3, <1>7 DEF Connection
  <2>4. SameWrites(s, next)
    BY <1>3, <1>7 DEF Connection, SameWrites
  <2> QED BY <2>2, <2>3, <2>4
<1>9. Reading(W, g, way, tx, s)
  BY <1>1, <1>2, <1>6 DEF UpInv
<1>10. /\ g \in 0..Len(W) /\ g < Len(W) /\ s.fragment = <<>>
       /\ SubSeq(way, 1, k) = Payload(W[g + 1])
       /\ Reading(W, g + 1, rest, tx, next)
  <2>1. PayloadRead(W, g, way, tx, s, k, next)
    BY <1>2, <1>6, <1>7, <1>8, <1>9, ReadingPayload
  <2> QED BY <1>4, <2>1 DEF PayloadRead
<1>11. k \in 0..Len(way)
  <2>1. Reading(W, g, way, tx, s)
    BY <1>9
  <2>2. PICK line, cut, x :
          Layout(W, TRUE, line, cut) /\ Place(W, cut, g, x, s)
    BY <2>1 DEF Reading
  <2>3. k = W[g + 1].size
    BY <1>2, <1>6, <2>2 DEF Place
  <2>4. W[g + 1] \in Message
    BY <1>7, <1>10
  <2>5. k \in Nat
    BY <2>3, <2>4, MessageSize
  <2> QED BY <1>6, <1>7, <2>5
<1>12. p = Payload(W[g + 1]) /\ p \in Seq(Bytes)
  <2>1. PICK q : q = SubSeq(way, 1, k)
    OBVIOUS
  <2>2. q \in Seq(Bytes)
    BY <1>7, <1>11, <2>1
  <2>3. p = <<>> \o q
    BY <1>4, <1>10, <2>1
  <2>4. p = q
    BY <2>2, <2>3
  <2> QED BY <1>10, <2>1, <2>2, <2>4
<1>13. rest \in Seq(Bytes)
  BY <1>4, <1>7, <1>11
<1>14. /\ H \in Seq(Seq(Bytes)) /\ Len(H) = g + 1 /\ H[g + 1] = p /\ g \in Nat
       /\ \A i \in 1..g : H[i] = G[i]
  <2>1. PICK B : B = Seq(Bytes)
    OBVIOUS
  <2>2. G \in Seq(B) /\ p \in B
    BY <1>7, <1>12, <2>1
  <2>3. /\ H \in Seq(B) /\ Len(H) = g + 1 /\ H[g + 1] = p /\ g \in Nat
        /\ \A i \in 1..g : H[i] = G[i]
    BY <1>2, <1>5, <2>2
  <2> QED BY <2>1, <2>3
<1>15. Len(H) <= Len(W) /\ \A i \in 1..Len(H) : H[i] = Payload(W[i])
  <2>1. Len(H) <= Len(W)
    <3>1. Len(W) \in Nat
      BY <1>7
    <3> QED BY <1>10, <1>14, <3>1
  <2>2. \A i \in 1..g : G[i] = Payload(W[i])
    BY <1>1, <1>2, <1>6 DEF UpInv
  <2>3. ASSUME NEW i \in 1..Len(H) PROVE H[i] = Payload(W[i])
    <3>1. i \in 1..g \/ i = g + 1
      BY <1>14
    <3> QED BY <1>12, <1>14, <2>2, <3>1
  <2> QED BY <2>1, <2>3
<1>16. /\ got' \in [client : Seq(Seq(Bytes)), server : Seq(Seq(Bytes))]
       /\ got'.client = got.client /\ got'.server = H
  BY <1>1, <1>6, <1>14 DEF TypeInv
<1>17. PICK u, v : u = link /\ v = link'
  OBVIOUS
<1>18. PICK V, n : Flow(V, n, got.client, client.rxbuf, toClient, s, u, sent, posted)
  BY <1>1, <1>2, <1>17 DEF DownInv
<1>19. CASE server' = next /\ sent' = sent
  <2>1. TypeInv'
    BY <1>1, <1>6, <1>8, <1>13, <1>16, <1>19 DEF TypeInv
  <2>2. ConnectionInv'
    BY <1>1, <1>2, <1>8, <1>19 DEF ConnectionInv, DestroyedUnlisted, SameWrites
  <2>3. UpInv'
    BY <1>2, <1>6, <1>10, <1>14, <1>15, <1>16, <1>19 DEF UpInv
  <2>4. DownInv'
    <3>1. /\ v => u /\ next.sending = s.sending /\ next.write_buffers = s.write_buffers
          /\ ~next.deleted => ~s.deleted
          /\ next.aligned => s.aligned
      BY <1>6, <1>8, <1>17 DEF SameWrites
    <3>2. Flow(V, n, got.client, client.rxbuf, toClient, next, v, sent, posted)
      BY <1>18, <3>1, FlowSame
    <3> QED BY <1>6, <1>16, <1>17, <1>19, <3>2 DEF DownInv
  <2> QED BY <2>1, <2>2, <2>3, <2>4 DEF Inv
<1>20. ASSUME NEW m \in NextMessages("io"), server' = WriteText(next, m), sent' = Recorded(m)
       PROVE  Inv'
  <2>1. PICK t, T : t = server' /\ T = sent'
    OBVIOUS
  <2>2. /\ m \in Message /\ m.by = "io" /\ m.kind = "text" /\ T \in [Sender -> Seq(Message)]
        /\ T["io"] = Append(sent["io"], m)
        /\ T["other"] = sent["other"] /\ T["client"] = sent["client"]
    <3>1. "io" \in Sender /\ "other" \in Sender /\ "client" \in Sender
      BY DEF Sender
    <3>2. SentNext(m, "io", "text")
      BY <1>7, <3>1, NextMessage
    <3> QED BY <1>20, <2>1, <3>1, <3>2 DEF SentNext
  <2>3. TextWritten(next, m, t)
    BY <1>8, <1>20, <2>1, <2>2, WriteTextFields
  <2>4. /\ t \in Connection /\ t.writing
        /\ t.state = next.state /\ t.remaining_length = next.remaining_length
        /\ t.fragment = next.fragment
        /\ t.aligned = s.aligned /\ t.listed = s.listed /\ t.deleted = s.deleted
    BY <1>8, <2>3 DEF TextWritten, SameWrites
  <2>5. TypeInv'
    BY <1>1, <1>6, <1>13, <1>16, <2>1, <2>2, <2>4 DEF TypeInv
  <2>6. ConnectionInv'
    BY <1>1, <1>2, <2>1, <2>4 DEF ConnectionInv, DestroyedUnlisted
  <2>7. UpInv'
    <3>1. Reading(W, g + 1, rest, tx, t)
      BY <1>10, <2>4, ReadingSame
    <3> QED BY <1>2, <1>6, <1>14, <1>15, <1>16, <2>1, <2>2, <3>1 DEF UpInv
  <2>8. DownInv'
    <3>1. \/ /\ t.sending = s.sending
             /\ t.write_buffers = s.write_buffers \o Frame(m, FALSE)
          \/ /\ s.sending = <<>> /\ t.write_buffers = <<>>
             /\ t.sending = s.write_buffers \o Frame(m, FALSE)
      <4>1. ~s.writing => s.sending = <<>>
        BY <1>1, <1>2 DEF ConnectionInv
      <4> QED BY <1>8, <2>3, <4>1 DEF TextWritten, SameWrites
    <3>2. /\ client.rxbuf \in Seq(Bytes) /\ toClient \in Seq(Bytes)
          /\ s.sending \in Seq(Bytes) /\ s.write_buffers \in Seq(Bytes)
      BY <1>1, <1>2, FieldTypes DEF TypeInv
    <3>3. Flow(Append(V, m), n, got.client, client.rxbuf, toClient, t, u, T, posted)
      BY <1>7, <1>18, <2>2, <2>4, <3>1, <3>2, FlowAnswer
    <3>4. Flow(Append(V, m), n, got.client, client.rxbuf, toClient, t, v, T, posted)
      BY <1>6, <1>17, <3>3, FlowSame
    <3> QED BY <1>6, <1>16, <1>17, <2>1, <3>4 DEF DownInv
  <2> QED BY <2>5, <2>6, <2>7, <2>8 DEF Inv
<1> QED BY <1>6, <1>19, <1>20

-----------------------------------------------------------------------------
(* After a header was cut in two *)

\* What a step that is not aligned changes: the handler of the server may be
\* given anything.
Misaligned ==
  /\ UNCHANGED <<client, posted, toClient>>
  /\ toServer' \in Seq(Bytes) /\ link' \in BOOLEAN /\ (link' => link)
  /\ got' \in [client : Seq(Seq(Bytes)), server : Seq(Seq(Bytes))] /\ got'.client = got.client

\* A read that is not aligned, without an answer.
LEMMA MisalignedStep ==
  ASSUME Inv, Misaligned, UNCHANGED sent, server' \in Connection,
         ~server'.aligned, server'.deleted => ~server'.listed,
         ~server'.deleted => ~server.deleted, server'.writing = server.writing,
         server'.sending = server.sending, server'.write_buffers = server.write_buffers
  PROVE  Inv'
<1> HIDE DEF Bytes, Message
<1>1. TypeInv /\ ConnectionInv /\ DownInv
  BY DEF Inv
<1>2. TypeInv'
  BY <1>1 DEF TypeInv, Misaligned
<1>3. ConnectionInv'
  BY <1>1 DEF ConnectionInv, DestroyedUnlisted
<1>4. UpInv'
  BY DEF UpInv
<1>5. DownInv'
  <2>1. PICK s, t, u, v : s = server /\ t = server' /\ u = link /\ v = link'
    OBVIOUS
  <2>2. PICK W, n : Flow(W, n, got.client, client.rxbuf, toClient, s, u, sent, posted)
    BY <1>1, <2>1 DEF DownInv
  <2>3. /\ v => u /\ t.sending = s.sending /\ t.write_buffers = s.write_buffers
        /\ ~t.deleted => ~s.deleted
        /\ t.aligned => s.aligned
    BY <2>1 DEF Misaligned
  <2>4. Flow(W, n, got.client, client.rxbuf, toClient, t, v, sent, posted)
    BY <2>2, <2>3, FlowSame
  <2> QED BY <2>1, <2>4 DEF DownInv, Misaligned
<1> QED BY <1>2, <1>3, <1>4, <1>5 DEF Inv

\* A read that is not aligned, with a frame of any kind as the answer.
LEMMA MisalignedAnswer ==
  ASSUME Inv, Misaligned, NEW m, NEW kind, SentNext(m, "io", kind), sent' = Recorded(m),
         NEW s \in Connection, server' = WriteText(s, m), ~s.aligned,
         s.deleted => ~s.listed, s.deleted = server.deleted, s.writing = server.writing,
         s.sending = server.sending, s.write_buffers = server.write_buffers
  PROVE  Inv'
<1> HIDE DEF Bytes, Message
<1>1. TypeInv /\ ConnectionInv /\ DownInv
  BY DEF Inv
<1>2. PICK t, T : t = server' /\ T = sent'
  OBVIOUS
<1>3. /\ m \in Message /\ m.by = "io" /\ T \in [Sender -> Seq(Message)]
      /\ T["io"] = Append(sent["io"], m) /\ T["other"] = sent["other"]
  <2>1. "io" \in Sender /\ "other" \in Sender
    BY DEF Sender
  <2> QED BY <1>2, <2>1 DEF SentNext
<1>4. TextWritten(s, m, t)
  BY <1>2, <1>3, WriteTextFields
<1>5. t \in Connection /\ t.writing /\ ~t.aligned /\ t.listed = s.listed /\ t.deleted = s.deleted
  BY <1>4 DEF TextWritten
<1>6. TypeInv'
  BY <1>1, <1>2, <1>3, <1>5 DEF TypeInv, Misaligned
<1>7. ConnectionInv'
  BY <1>2, <1>5 DEF ConnectionInv, DestroyedUnlisted
<1>8. UpInv'
  BY <1>2, <1>5 DEF UpInv
<1>9. DownInv'
  <2>1. PICK u, v, z : u = link /\ v = link' /\ z = server
    OBVIOUS
  <2>2. PICK W, n : Flow(W, n, got.client, client.rxbuf, toClient, z, u, sent, posted)
    BY <1>1, <2>1 DEF DownInv
  <2>3. \/ /\ t.sending = z.sending
           /\ t.write_buffers = z.write_buffers \o Frame(m, FALSE)
        \/ /\ z.sending = <<>> /\ t.write_buffers = <<>>
           /\ t.sending = z.write_buffers \o Frame(m, FALSE)
    <3>1. ~z.writing => z.sending = <<>>
      BY <1>1, <2>1 DEF ConnectionInv
    <3> QED BY <1>4, <2>1, <3>1 DEF TextWritten
  <2>4. /\ client.rxbuf \in Seq(Bytes) /\ toClient \in Seq(Bytes)
        /\ z.sending \in Seq(Bytes) /\ z.write_buffers \in Seq(Bytes)
        /\ sent \in [Sender -> Seq(Message)]
    BY <1>1, <2>1, FieldTypes DEF TypeInv
  <2>5. t.deleted = z.deleted
    BY <1>5, <2>1
  <2>6. Flow(Append(W, m), n, got.client, client.rxbuf, toClient, t, u, T, posted)
    BY <1>3, <1>5, <2>2, <2>3, <2>4, <2>5, FlowAnswer
  <2>7. Flow(Append(W, m), n, got.client, client.rxbuf, toClient, t, v, T, posted)
    BY <2>1, <2>6, FlowSame DEF Misaligned
  <2> QED BY <1>2, <2>1, <2>7 DEF DownInv, Misaligned
<1> QED BY <1>6, <1>7, <1>8, <1>9 DEF Inv

\* What AnyHeader leaves of a connection that is not aligned.
LEMMA AnyHeaderFields ==
  ASSUME NEW s \in Connection, ~s.aligned, s.deleted => ~s.listed, NEW t \in AnyHeader(s)
  PROVE  /\ t \in Connection /\ ~t.aligned /\ (t.deleted => ~t.listed)
         /\ ~t.deleted => ~s.deleted
         /\ t.writing = s.writing /\ t.sending = s.sending
         /\ t.write_buffers = s.write_buffers
<1> HIDE DEF Bytes
<1>1. CASE t = [s EXCEPT !.state = "Mask"]
  BY <1>1 DEF Connection
<1>2. CASE t = check_destroy(CloseSocket(s))
  <2>1. ClosedSocket(s, CloseSocket(s))
    BY SocketClosed
  <2>2. DestroyChecked(CloseSocket(s), t)
    BY <1>2, <2>1, DestroyFields DEF ClosedSocket
  <2> QED BY <2>1, <2>2 DEF ClosedSocket, DestroyChecked
<1> QED BY <1>1, <1>2 DEF AnyHeader

\* Half a header, from which on the connection is not aligned.
LEMMA ReadHalfHeaderKeeps ==
  ASSUME Inv, ReadHalfHeader
  PROVE  Inv'
<1> HIDE DEF Bytes, Message
<1>1. TypeInv /\ ConnectionInv
  BY DEF Inv
<1>2. PICK r : r = [server EXCEPT !.aligned = FALSE]
  OBVIOUS
<1>3. /\ server' \in AnyHeader(r)
      /\ toServer' = SubSeq(toServer, 1 + 1, Len(toServer)) /\ toServer # <<>>
      /\ link' \in BOOLEAN /\ (link' => link)
      /\ UNCHANGED <<client, posted, toClient, sent, got>>
  BY <1>1, <1>2 DEF ReadHalfHeader, Read, TypeInv
<1>4. server \in Connection /\ toServer \in Seq(Bytes)
  BY <1>1 DEF TypeInv
<1>5. /\ r \in Connection /\ ~r.aligned /\ r.deleted = server.deleted /\ r.listed = server.listed
      /\ r.writing = server.writing /\ r.sending = server.sending
      /\ r.write_buffers = server.write_buffers
  BY <1>2, <1>4 DEF Connection
<1>6. r.deleted => ~r.listed
  BY <1>1, <1>5 DEF ConnectionInv, DestroyedUnlisted
<1>7. /\ server' \in Connection /\ ~server'.aligned /\ (server'.deleted => ~server'.listed)
      /\ ~server'.deleted => ~r.deleted
      /\ server'.writing = r.writing /\ server'.sending = r.sending
      /\ server'.write_buffers = r.write_buffers
  BY <1>3, <1>5, <1>6, AnyHeaderFields
<1>8. toServer' \in Seq(Bytes)
  BY <1>3, <1>4
<1>9. Misaligned
  BY <1>1, <1>3, <1>8 DEF Misaligned, TypeInv
<1> QED BY <1>3, <1>5, <1>7, <1>9, MisalignedStep

\* A later header, of any bytes.
LEMMA ReadMisalignedKeeps ==
  ASSUME Inv, ReadMisaligned
  PROVE  Inv'
<1> HIDE DEF Bytes, Message
<1>1. TypeInv /\ ConnectionInv
  BY DEF Inv
<1>2. PICK k \in 1..Len(toServer) :
        /\ server' \in AnyHeader(server) /\ ~server.aligned
        /\ toServer' = SubSeq(toServer, k + 1, Len(toServer))
        /\ link' \in BOOLEAN /\ (link' => link)
        /\ UNCHANGED <<client, posted, toClient, sent, got>>
  BY <1>1 DEF ReadMisaligned, Read, TypeInv
<1>3. server \in Connection /\ toServer \in Seq(Bytes)
  BY <1>1 DEF TypeInv
<1>4. server.deleted => ~server.listed
  BY <1>1 DEF ConnectionInv, DestroyedUnlisted
<1>5. /\ server' \in Connection /\ ~server'.aligned /\ (server'.deleted => ~server'.listed)
      /\ ~server'.deleted => ~server.deleted
      /\ server'.writing = server.writing /\ server'.sending = server.sending
      /\ server'.write_buffers = server.write_buffers
  BY <1>2, <1>3, <1>4, AnyHeaderFields
<1>6. toServer' \in Seq(Bytes)
  BY <1>2, <1>3
<1>7. Misaligned
  BY <1>1, <1>2, <1>6 DEF Misaligned, TypeInv
<1> QED BY <1>2, <1>5, <1>7, MisalignedStep

\* What NextClose leaves of a connection that is not aligned.
LEMMA NextCloseFields ==
  ASSUME NEW s \in Connection, ~s.aligned
  PROVE  LET t == NextClose(s)
         IN  /\ t \in Connection /\ ~t.aligned /\ ~t.listed
             /\ ~t.deleted => ~s.deleted
             /\ t.writing = s.writing /\ t.sending = s.sending
             /\ t.write_buffers = s.write_buffers
<1> HIDE DEF Bytes
<1>1. PICK c, t : c = check_destroy(CloseSocket(s)) /\ t = NextClose(s)
  OBVIOUS
<1>2. ClosedSocket(s, CloseSocket(s))
  BY SocketClosed
<1>3. DestroyChecked(CloseSocket(s), c)
  BY <1>1, <1>2, DestroyFields DEF ClosedSocket
<1>4. t = c \/ t = [c EXCEPT !.reading = TRUE]
  BY <1>1 DEF NextClose
<1>5. /\ c \in Connection /\ ~c.aligned /\ ~c.listed /\ (~c.deleted => ~s.deleted)
      /\ c.writing = s.writing /\ c.sending = s.sending
      /\ c.write_buffers = s.write_buffers
  BY <1>2, <1>3 DEF ClosedSocket, DestroyChecked
<1>6. /\ t \in Connection /\ ~t.aligned /\ ~t.listed /\ (~t.deleted => ~s.deleted)
      /\ t.writing = s.writing /\ t.sending = s.sending
      /\ t.write_buffers = s.write_buffers
  BY <1>4, <1>5 DEF Connection
<1> QED BY <1>1, <1>6

\* A payload that nobody sent, with what the server makes of it.
LEMMA ReadMisalignedPayloadKeeps ==
  ASSUME Inv, ReadMisalignedPayload
  PROVE  Inv'
<1> HIDE DEF Bytes, Message
<1>1. TypeInv /\ ConnectionInv
  BY DEF Inv
<1>2. PICK s : s = server
  OBVIOUS
<1>3. PICK next, part : /\ next = [s EXCEPT !.state = "MiniHeader"]
                        /\ part = [s EXCEPT !.state = "Payload", !.reading = FALSE]
  OBVIOUS
<1>4. PICK text : text = IF NotSent \in Range(got.server) THEN got
                         ELSE [got EXCEPT !.server = Append(@, NotSent)]
  OBVIOUS
<1>5. PICK k \in 0..Len(toServer) :
        /\ ~s.aligned
        /\ toServer' = SubSeq(toServer, k + 1, Len(toServer))
        /\ link' \in BOOLEAN /\ (link' => link)
        /\ UNCHANGED <<client, posted, toClient>>
        /\ got' \in {got, text}
        /\ \/ server' = part /\ UNCHANGED sent
           \/ server' = next /\ UNCHANGED sent
           \/ \E m \in NextMessages("io") : server' = WriteText(next, m) /\ sent' = Recorded(m)
           \/ \E m \in NextControl("pong") : server' = WriteText(next, m) /\ sent' = Recorded(m)
           \/ \E m \in NextControl("close") : server' = FirstClose(next, m) /\ sent' = Recorded(m)
           \/ server' = NextClose(next) /\ UNCHANGED sent
  BY <1>1, <1>2, <1>3, <1>4 DEF ReadMisalignedPayload, Read, TypeInv
<1>6. /\ s \in Connection /\ toServer \in Seq(Bytes) /\ got.server \in Seq(Seq(Bytes))
      /\ sent \in [Sender -> Seq(Message)] /\ (s.deleted => ~s.listed)
  BY <1>1, <1>2, FieldTypes DEF TypeInv, ConnectionInv, DestroyedUnlisted
<1>7. Misaligned
  <2>1. toServer' \in Seq(Bytes)
    BY <1>5, <1>6
  <2>2. PICK G : G = Append(got.server, NotSent)
    OBVIOUS
  <2>3. G \in Seq(Seq(Bytes))
    <3>1. PICK B : B = Seq(Bytes)
      OBVIOUS
    <3>2. NotSent \in B /\ got.server \in Seq(B)
      BY <1>6, <3>1 DEF NotSent
    <3> QED BY <2>2, <3>1, <3>2
  <2>4. got' = got \/ got' = [got EXCEPT !.server = G]
    BY <1>4, <1>5, <2>2
  <2>5. /\ got' \in [client : Seq(Seq(Bytes)), server : Seq(Seq(Bytes))]
        /\ got'.client = got.client
    BY <1>1, <2>3, <2>4 DEF TypeInv
  <2> QED BY <1>5, <2>1, <2>5 DEF Misaligned
<1>8. /\ next \in Connection /\ SameWrites(s, next)
      /\ part \in Connection /\ SameWrites(s, part)
  BY <1>3, <1>6 DEF Connection, SameWrites
<1>9. CASE (server' = part \/ server' = next) /\ UNCHANGED sent
  BY <1>2, <1>5, <1>6, <1>7, <1>8, <1>9, MisalignedStep DEF SameWrites
<1>10. ASSUME NEW m, NEW kind, SentNext(m, "io", kind), server' = WriteText(next, m),
              sent' = Recorded(m)
       PROVE  Inv'
  BY <1>2, <1>5, <1>6, <1>7, <1>8, <1>10, MisalignedAnswer DEF SameWrites
<1>11. ASSUME NEW m \in NextControl("close"), server' = FirstClose(next, m), sent' = Recorded(m)
       PROVE  Inv'
  <2>1. SentNext(m, "io", "close")
    BY <1>6, NextControlFrame DEF Kind
  <2>2. PICK r : r = [next EXCEPT !.listed = FALSE, !.has_sent_close = TRUE]
    OBVIOUS
  <2>3. /\ r \in Connection /\ ~r.listed /\ r.aligned = s.aligned /\ r.deleted = s.deleted
        /\ r.writing = s.writing /\ r.sending = s.sending /\ r.write_buffers = s.write_buffers
    BY <1>8, <2>2 DEF Connection, SameWrites
  <2>4. server' = WriteText(r, m)
    BY <1>11, <2>2 DEF FirstClose
  <2> QED BY <1>2, <1>5, <1>7, <1>11, <2>1, <2>3, <2>4, MisalignedAnswer
<1>12. CASE server' = NextClose(next) /\ UNCHANGED sent
  <2>1. /\ server' \in Connection /\ ~server'.aligned /\ ~server'.listed
        /\ ~server'.deleted => ~next.deleted
        /\ server'.writing = next.writing /\ server'.sending = next.sending
        /\ server'.write_buffers = next.write_buffers
    BY <1>5, <1>8, <1>12, NextCloseFields DEF SameWrites
  <2> QED BY <1>2, <1>7, <1>8, <1>12, <2>1, MisalignedStep DEF SameWrites
<1>13. ASSUME NEW m \in NextMessages("io") PROVE SentNext(m, "io", "text")
  BY <1>6, NextMessage DEF Sender
<1>14. ASSUME NEW m \in NextControl("pong") PROVE SentNext(m, "io", "pong")
  BY <1>6, NextControlFrame DEF Kind
<1> QED BY <1>5, <1>9, <1>10, <1>11, <1>12, <1>13, <1>14

-----------------------------------------------------------------------------
(* The theorems *)

\* The lines are empty at the start.
LEMMA InitInv ==
  ASSUME Init
  PROVE  Inv
<1> HIDE DEF Bytes, Message
<1>1. PICK e : e = <<>>
  OBVIOUS
<1>2. /\ e \in Seq(Bytes) /\ e \in Seq(Message) /\ e \in Seq(Seq(Bytes)) /\ Len(e) = 0
  BY <1>1
<1>3. /\ client = [readyState |-> "OPEN", rxbuf |-> e, txbuf |-> e, listed |-> TRUE]
      /\ server = [state |-> "MiniHeader", remaining_length |-> 0, fragment |-> e,
                   reading |-> TRUE, writing |-> FALSE, sending |-> e,
                   write_buffers |-> e, close_connection |-> FALSE,
                   has_sent_close |-> FALSE, open |-> TRUE, aligned |-> TRUE,
                   listed |-> TRUE, deleted |-> FALSE]
      /\ posted = e /\ toServer = e /\ toClient = e
      /\ link = TRUE /\ sent = [s \in Sender |-> e]
      /\ got = [client |-> e, server |-> e]
  BY <1>1 DEF Init
<1>4. TypeInv
  <2>1. client \in Socket
    BY <1>2, <1>3 DEF Socket
  <2>2. server \in Connection
    BY <1>2, <1>3 DEF Connection
  <2>3. /\ posted \in Seq(Message)
        /\ \A j \in 1..Len(posted) : posted[j].by = "other" /\ posted[j].kind = "text"
    BY <1>2, <1>3
  <2>4. sent \in [Sender -> Seq(Message)]
    BY <1>2, <1>3
  <2>5. got \in [client : Seq(Seq(Bytes)), server : Seq(Seq(Bytes))]
    BY <1>2, <1>3
  <2> QED BY <1>2, <1>3, <2>1, <2>2, <2>3, <2>4, <2>5 DEF TypeInv
<1>5. ConnectionInv
  BY <1>1, <1>3 DEF ConnectionInv, DestroyedUnlisted
<1>6. PICK cut : cut = [i \in 0..0 |-> 0]
  OBVIOUS
<1>7. cut \in [0..Len(e) -> Nat] /\ cut[0] = 0 /\ \A i \in 0..Len(e) : cut[i] = 0
  BY <1>2, <1>6
<1>8. Layout(e, TRUE, e, cut) /\ Layout(e, FALSE, e, cut)
  BY <1>2, <1>7 DEF Layout
<1>9. At(e, e, 0)
  BY <1>2 DEF At
<1>10. Rest(e, 0, e, e)
  BY <1>2, <1>9 DEF Rest
<1>11. UpInv
  <2>1. sent["client"] = e /\ got.server = e /\ client.txbuf = e
    BY <1>3 DEF Sender
  <2>2. Place(e, cut, 0, 0, server)
    BY <1>1, <1>2, <1>3, <1>7 DEF Place
  <2>3. Reading(e, 0, e, e, server)
    BY <1>8, <1>10, <2>2 DEF Reading
  <2> QED BY <1>2, <1>3, <2>1, <2>3 DEF UpInv
<1>12. DownInv
  <2>1. /\ got.client = e /\ client.rxbuf = e /\ server.sending = e /\ server.write_buffers = e
        /\ sent["io"] = e /\ sent["other"] = e
    BY <1>3 DEF Sender
  <2>2. PICK u : u = link
    OBVIOUS
  <2>3. Arriving(e, cut[0], e, e, 0)
    BY <1>2, <1>7, <1>9 DEF Arriving
  <2>4. Streaming(e, 0, e, e, e, e, u)
    <3>1. 0 \in 0..Len(e)
      BY <1>2
    <3> QED BY <1>8, <1>10, <2>3, <3>1 DEF Streaming
  <2>5. \A s \in Sender : Written(e, s, e, 0)
    <3> SUFFICES ASSUME NEW s \in Sender PROVE Written(e, s, e, 0)
      OBVIOUS
    <3>1. Counts(e, s, cut, e)
      BY <1>2, <1>7 DEF Counts
    <3> QED BY <1>2, <1>7, <3>1 DEF Written
  <2>6. Waiting(e, e, 0)
    BY <1>2 DEF Waiting
  <2>7. Written(e, "io", e, 0) /\ Written(e, "other", e, 0)
    BY <2>5 DEF Sender
  <2>8. Flow(e, 0, got.client, client.rxbuf, toClient, server, u, sent, posted)
    BY <1>2, <1>3, <2>1, <2>4, <2>6, <2>7 DEF Flow
  <2> QED BY <2>2, <2>8 DEF DownInv
<1> QED BY <1>4, <1>5, <1>11, <1>12 DEF Inv

\* Every step keeps the invariant.
LEMMA NextInv ==
  ASSUME Inv, [Next]_vars
  PROVE  Inv'
<1> HIDE DEF Inv
<1>1. CASE PollSome
  BY <1>1, PollKeeps DEF PollSome
<1>2. CASE Dispatch
  BY <1>2, DispatchKeeps
<1>3. CASE ClearClosed
  BY <1>3, ClearClosedKeeps
<1>4. CASE ClientSend
  BY <1>4, ClientSendKeeps
<1>5. CASE SendText
  BY <1>5, SendTextKeeps
<1>6. CASE RunPosted
  BY <1>6, RunPostedKeeps
<1>7. CASE WriteBuffers
  BY <1>7, WriteBuffersKeeps
<1>8. CASE WriteDone
  BY <1>8, WriteDoneKeeps
<1>9. CASE WriteError
  BY <1>9, WriteErrorKeeps
<1>10. CASE ReadHeader \/ ReadLen
  BY <1>10, ReadLengthKeeps
<1>11. CASE ReadHalfHeader
  BY <1>11, ReadHalfHeaderKeeps
<1>12. CASE ReadMask
  BY <1>12, ReadMaskKeeps
<1>13. CASE ReadPartOfPayload
  BY <1>13, ReadPartOfPayloadKeeps
<1>14. CASE ReadPayload
  BY <1>14, ReadPayloadKeeps
<1>15. CASE ReadError
  BY <1>15, ReadErrorKeeps
<1>16. CASE Break
  BY <1>16, BreakKeeps
<1>19. CASE ReadMisaligned
  BY <1>19, ReadMisalignedKeeps
<1>20. CASE ReadMisalignedPayload
  BY <1>20, ReadMisalignedPayloadKeeps
<1>17. CASE UNCHANGED vars
  BY <1>17 DEF vars, Inv, TypeInv, ConnectionInv, DestroyedUnlisted, UpInv, DownInv
<1>18. \/ PollSome \/ Dispatch \/ ClearClosed \/ ClientSend \/ SendText
       \/ RunPosted \/ WriteBuffers \/ WriteDone \/ WriteError
       \/ ReadHeader \/ ReadLen \/ ReadHalfHeader \/ ReadMask
       \/ ReadPartOfPayload \/ ReadPayload \/ ReadError
       \/ ReadMisaligned \/ ReadMisalignedPayload \/ Break \/ UNCHANGED vars
  BY DEF Next, IoStep
<1> QED BY <1>1, <1>2, <1>3, <1>4, <1>5, <1>6, <1>7, <1>8, <1>9, <1>10, <1>11, <1>12, <1>13,
           <1>14, <1>15, <1>16, <1>17, <1>18, <1>19, <1>20

\* The handlers are given what was sent, whole, once and in order.
LEMMA InvInOrder ==
  ASSUME Inv
  PROVE  InOrder
<1> HIDE DEF Bytes, Message
<1>1. TypeInv /\ UpInv /\ DownInv
  BY DEF Inv
<1>2. ASSUME server.aligned PROVE IsPrefix(got.server, PayloadsOf(sent["client"]))
  <2>1. PICK W, G, T, B : /\ W = sent["client"] /\ G = got.server
                          /\ T = PayloadsOf(W) /\ B = Seq(Bytes)
    OBVIOUS
  <2>2. W \in Seq(Message) /\ G \in Seq(B)
    BY <1>1, <2>1, FieldTypes
  <2>3. T = [i \in 1..Len(W) |-> Payload(W[i])] /\ Len(W) \in Nat
    <3>1. DOMAIN W = 1..Len(W) /\ Len(W) \in Nat
      BY <2>2
    <3> QED BY <2>1, <3>1 DEF PayloadsOf
  <2>4. \A i \in 1..Len(W) : Payload(W[i]) \in B
    <3> SUFFICES ASSUME NEW i \in 1..Len(W) PROVE Payload(W[i]) \in B
      OBVIOUS
    <3>1. W[i] \in Message
      BY <2>2
    <3> QED BY <2>1, <3>1, PayloadShape
  <2>5. T \in Seq(B) /\ Len(T) = Len(W) /\ \A i \in 1..Len(W) : T[i] = Payload(W[i])
    <3>1. T \in [1..Len(W) -> B]
      BY <2>3, <2>4
    <3> QED BY <2>3, <3>1
  <2>6. Len(G) \in Nat /\ Len(G) <= Len(W) /\ \A i \in 1..Len(G) : G[i] = Payload(W[i])
    <3>1. Len(G) <= Len(W) /\ \A i \in 1..Len(G) : G[i] = Payload(W[i])
      BY <1>1, <1>2, <2>1 DEF UpInv
    <3> QED BY <2>2, <3>1
  <2>7. \A i \in 1..Len(G) : G[i] = T[i]
    <3> SUFFICES ASSUME NEW i \in 1..Len(G) PROVE G[i] = T[i]
      OBVIOUS
    <3>1. i \in 1..Len(W)
      BY <2>3, <2>6
    <3> QED BY <2>5, <2>6, <3>1
  <2>8. IsPrefix(G, T)
    BY <2>2, <2>5, <2>6, <2>7, PrefixOf
  <2> QED BY <2>1, <2>8
<1>3. ASSUME NEW s \in {"io", "other"}
      PROVE  IsPrefix(GotFrom(s), PayloadsOf(sent[s]))
  <2>1. PICK W, n : Flow(W, n, got.client, client.rxbuf, toClient, server,
                         link, sent, posted)
    BY <1>1 DEF DownInv
  <2>2. PICK G, S : G = got.client /\ S = sent[s]
    OBVIOUS
  <2>3. S \in Seq(Message)
    BY <1>1, <1>3, <2>2, FieldTypes
  <2>4. /\ W \in Seq(Message) /\ \A i \in 1..Len(G) : G[i] = Payload(W[i])
        /\ Len(G) \in 0..Len(W)
    BY <2>1, <2>2 DEF Flow, Streaming
  <2>5. PICK k : Written(W, s, S, k)
    BY <1>3, <2>1, <2>2 DEF Flow
  <2>6. IsPrefix((CHOOSE f : Gathered(f, G, s))[Len(G)], PayloadsOf(S))
    BY <2>3, <2>4, <2>5, GatheredPrefix
  <2>7. GotFrom(s) = (CHOOSE f : Gathered(f, G, s))[Len(G)]
    BY <2>2, GotFromIs
  <2> QED BY <2>2, <2>6, <2>7
<1> QED BY <1>2, <1>3 DEF InOrder

\* InOrder: wherever the network cuts the bytes, and however the reads, writes
\* and handlers of the two ends follow each other, the handlers are given what
\* the other side's threads have sent, in order.  That of the server only until
\* it has read one byte of a header (websocket.h:185): what it is given then is
\* not restricted, and the client is still given what was sent.
THEOREM AlwaysInOrder == Spec => []InOrder
<1>1. Init => Inv
  BY InitInv
<1>2. Inv /\ [Next]_vars => Inv'
  BY NextInv
<1>3. Inv => InOrder
  BY InvInOrder
<1> QED BY <1>1, <1>2, <1>3, PTL DEF Spec

\* DestroyedUnlisted: no broadcast meets a connection that has been deleted.
THEOREM AlwaysDestroyedUnlisted == Spec => []DestroyedUnlisted
<1>1. Init => Inv
  BY InitInv
<1>2. Inv /\ [Next]_vars => Inv'
  BY NextInv
<1>3. Inv => DestroyedUnlisted
  BY DEF Inv, ConnectionInv
<1> QED BY <1>1, <1>2, <1>3, PTL DEF Spec
=============================================================================
