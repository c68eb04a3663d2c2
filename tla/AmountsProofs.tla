---------------------------- MODULE AmountsProofs ----------------------------
(***************************************************************************)
(* Amounts that are multiples of a grain are exact: where the floats and   *)
(* the texts hold the multiples of some unit up to all that the owner may  *)
(* earn, the wallet always pays, the other nodes accept what it pays, and  *)
(* they agree on what it is worth.                                         *)
(***************************************************************************)
EXTENDS Amounts, TLAPS, NaturalsInduction, WellFoundedInduction, SequenceTheorems

\* The multiples of a grain.
Multiples(G) == {q * G : q \in Nat}

-----------------------------------------------------------------------------
(* Numbers *)

\* A nonempty set of natural numbers has a least element.
LEMMA LeastOf ==
  ASSUME NEW N \in SUBSET Nat, N # {}
  PROVE  Min(N) \in N /\ \A k \in N : Min(N) <= k
<1> DEFINE R == {ss \in Nat \X Nat : ss[1] < ss[2]}
<1>1. IsWellFoundedOn(R, Nat)
  BY NatLessThanWellFounded DEF OpToRel
<1>2. PICK m \in N : \A k \in N : ~(<<k, m>> \in R)
  <2> HIDE DEF R
  <2> QED BY <1>1, WFMin
<1>3. ASSUME NEW k \in N PROVE m <= k
  <2>1. k \in Nat /\ m \in Nat
    OBVIOUS
  <2>2. k < m => <<k, m>> \in R
    BY <2>1
  <2>3. ~(k < m)
    <3> HIDE DEF R
    <3> QED BY <1>2, <2>2
  <2> QED BY <2>1, <2>3
<1> QED BY <1>3 DEF Min

\* A quotient without remainder.
LEMMA Quotient ==
  ASSUME NEW n \in Nat, NEW d \in Nat \ {0}
  PROVE  (n * d) \div d = n /\ (n * d) % d = 0
  OBVIOUS

\* It is its own nearest whole number.
LEMMA NearestExact ==
  ASSUME NEW n \in Nat, NEW d \in Nat \ {0}
  PROVE  Nearest(n * d, d) = n
<1> SUFFICES ASSUME NEW num, num = n * d PROVE Nearest(num, d) = n
  OBVIOUS
<1>1. num \div d = n /\ num % d = 0
  BY Quotient
<1>2. 2 * 0 < d
  OBVIOUS
<1> QED BY <1>1, <1>2 DEF Nearest

\* Sums, differences and parts of multiples.
LEMMA MultiplesClosed ==
  ASSUME NEW G \in Nat, NEW a \in Multiples(G), NEW b \in Multiples(G)
  PROVE  a \in Nat /\ a + b \in Multiples(G) /\ (b <= a => a - b \in Multiples(G))
<1>1. PICK p \in Nat : a = p * G
  BY DEF Multiples
<1>2. PICK q \in Nat : b = q * G
  BY DEF Multiples
<1>3. a \in Nat
  BY <1>1
<1>4. a + b = (p + q) * G
  BY <1>1, <1>2
<1>5. a + b \in Multiples(G)
  <2>1. p + q \in Nat
    OBVIOUS
  <2> QED BY <1>4, <2>1 DEF Multiples
<1>6. ASSUME b <= a PROVE a - b \in Multiples(G)
  <2>1. a - b = (p - q) * G
    BY <1>1, <1>2
  <2>2. CASE q <= p
    <3>1. p - q \in Nat
      BY <2>2
    <3> QED BY <2>1, <3>1 DEF Multiples
  <2>3. CASE p < q
    <3>1. PICK r \in Nat : q = p + r
      BY <2>3
    <3>2. b = a + r * G
      BY <1>1, <1>2, <3>1
    <3>3. r * G = 0
      BY <1>3, <3>2, <1>6
    <3>4. a - b = 0 * G
      BY <1>3, <3>2, <3>3
    <3> QED BY <3>4 DEF Multiples
  <2> QED BY <2>2, <2>3
<1> QED BY <1>3, <1>5, <1>6

LEMMA MultipleMod ==
  ASSUME NEW G \in Nat \ {0}, NEW a \in Nat, a % G = 0
  PROVE  a \in Multiples(G)
<1>1. PICK q \in Nat : q = a \div G
  OBVIOUS
<1>2. a = (G * q) + (a % G)
  BY <1>1
<1>3. a = q * G
  BY <1>2
<1> QED BY <1>3 DEF Multiples

-----------------------------------------------------------------------------
(* Floats and texts of multiples are exact *)

\* A number that is counted in a unit takes that unit or one that divides it.
LEMMA UnitDivides ==
  ASSUME NEW G \in Units, NEW n \in Nat, n < Significands * G
  PROVE  LET u == Min({v \in Units : n < Significands * v})
         IN  u \in Nat \ {0} /\ G \in Multiples(u)
<1> SUFFICES ASSUME NEW S, S = {v \in Units : n < Significands * v},
                    NEW u, u = Min(S)
    PROVE u \in Nat \ {0} /\ G \in Multiples(u)
  OBVIOUS
<1>1. S \in SUBSET Nat /\ G \in S
  BY AmountsAssumption
<1>2. u \in S /\ \A v \in S : u <= v
  BY <1>1, LeastOf
<1>3. u \in Units /\ u <= G
  BY <1>1, <1>2
<1>4. u \in Nat \ {0} /\ G \in Nat /\ G % u = 0
  BY <1>3, AmountsAssumption
<1> QED BY <1>4, MultipleMod

\* So a float holds a multiple of the unit exactly, however the number is
\* written.
LEMMA FloatExact ==
  ASSUME NEW G \in Units, NEW a \in Multiples(G), a < Significands * G,
         NEW d \in Nat \ {0}
  PROVE  float(a * d, d) = a
<1>1. G \in Nat /\ a \in Nat
  BY AmountsAssumption, MultiplesClosed
<1>2. PICK num : num = a * d
  OBVIOUS
<1>3. num \div d = a
  BY <1>1, <1>2, Quotient
<1>4. PICK u : u = Min({v \in Units : a < Significands * v})
  OBVIOUS
<1>5. u \in Nat \ {0} /\ G \in Multiples(u)
  BY <1>1, <1>4, UnitDivides
<1>6. PICK n \in Nat : a = n * u
  <2>1. PICK p \in Nat : G = p * u
    BY <1>5 DEF Multiples
  <2>2. PICK q \in Nat : a = q * G
    BY DEF Multiples
  <2>3. a = (q * p) * u /\ q * p \in Nat
    BY <1>5, <2>1, <2>2
  <2> QED BY <2>3
<1>7. PICK D \in Nat \ {0} : D = u * d
  BY <1>5
<1>8. num = n * D
  BY <1>2, <1>5, <1>6, <1>7
<1>9. Nearest(num, D) = n
  BY <1>8, NearestExact
<1>10. float(num, d) = u * n
  BY <1>3, <1>4, <1>7, <1>9 DEF float
<1> QED BY <1>2, <1>5, <1>6, <1>10

\* Two of them are added and subtracted exactly.
LEMMA AddExact ==
  ASSUME NEW G \in Units, NEW a \in Multiples(G), NEW b \in Multiples(G)
  PROVE  /\ a + b < Significands * G => add(a, b) = a + b
         /\ a < Significands * G /\ b <= a => sub(a, b) = a - b
<1>1. a \in Nat /\ b \in Nat /\ Significands * G \in Nat
  BY AmountsAssumption, MultiplesClosed
<1>2. ASSUME NEW c \in Multiples(G), c < Significands * G PROVE float(c, 1) = c
  <2>1. c \in Nat
    BY AmountsAssumption, MultiplesClosed
  <2>2. c * 1 = c
    BY <2>1
  <2>3. float(c * 1, 1) = c
    BY <1>2, FloatExact
  <2> QED BY <2>2, <2>3
<1>3. a + b \in Multiples(G)
  BY AmountsAssumption, MultiplesClosed
<1>4. b <= a => a - b \in Multiples(G) /\ a - b <= a
  BY <1>1, AmountsAssumption, MultiplesClosed
<1> QED BY <1>1, <1>2, <1>3, <1>4 DEF add, sub

\* What the texts do with a grain that they hold: they come to the other nodes
\* as they are.
LEMMA ReceivedExact ==
  ASSUME NEW G \in Units, (G * TextUnits) % Quanta = 0,
         NEW a \in Multiples(G), a < Significands * G
  PROVE  Received(a) = a
<1>1. G \in Nat /\ Quanta \in Nat \ {0} /\ TextUnits \in Nat \ {0} /\ a \in Nat
  BY AmountsAssumption, MultiplesClosed
<1>2. PICK t \in Nat : t = G * TextUnits
  BY <1>1
<1>3. PICK r \in Nat : t = r * Quanta
  BY <1>1, <1>2, MultipleMod DEF Multiples
<1>4. PICK q \in Nat : a = q * G
  BY DEF Multiples
<1>5. a * TextUnits = q * t
  BY <1>1, <1>2, <1>4
<1>6. PICK n \in Nat : n = q * r
  OBVIOUS
<1>7. q * t = n * Quanta
  BY <1>1, <1>3, <1>6
<1>8. to_string(a) = n
  BY <1>1, <1>5, <1>7, NearestExact DEF to_string
<1>9. to_string(a) * Quanta = a * TextUnits
  BY <1>5, <1>7, <1>8
<1> QED BY <1>1, <1>9, FloatExact DEF Received

-----------------------------------------------------------------------------
(* Sums *)

\* w[i] is the sum of the first i numbers of s, in exact arithmetic; all of them are
\* multiples of G, and none of the numbers is negative.
Totals(s, w, G) ==
  /\ w \in [0..Len(s) -> Multiples(G)]
  /\ w[0] = 0
  /\ \A i, j \in 0..Len(s) : i <= j => w[i] <= w[j]
  /\ \A i \in 1..Len(s) : s[i] = w[i] - w[i - 1]

\* While the total fits, the sum of floats is the sum of the numbers.
LEMMA SumExact ==
  ASSUME NEW G \in Units, NEW s \in Seq(Nat), NEW w, Totals(s, w, G),
         w[Len(s)] < Significands * G
  PROVE  sum(s) = w[Len(s)]
<1> DEFINE upTo[i \in 0..Len(s)] == IF i = 0 THEN 0 ELSE add(upTo[i - 1], s[i])
<1> DEFINE F(f) == f = [i \in 0..Len(s) |-> IF i = 0 THEN 0 ELSE add(f[i - 1], s[i])]
<1>0. Len(s) \in Nat /\ G \in Nat /\ Significands * G \in Nat
  BY AmountsAssumption
<1>1. \A i \in 0..Len(s) : w[i] \in Nat /\ w[i] \in Multiples(G) /\ w[i] < Significands * G
  <2> TAKE i \in 0..Len(s)
  <2>0. Len(s) \in 0..Len(s) /\ i <= Len(s)
    BY <1>0
  <2>1. w[i] \in Multiples(G) /\ w[Len(s)] \in Multiples(G) /\ w[i] <= w[Len(s)]
    <3> DEFINE M == Multiples(G)
    <3>1. w \in [0..Len(s) -> M] /\ \A j, k \in 0..Len(s) : j <= k => w[j] <= w[k]
      BY DEF Totals
    <3> HIDE DEF M
    <3>2. w[i] \in M /\ w[Len(s)] \in M /\ w[i] <= w[Len(s)]
      BY <2>0, <3>1
    <3> QED BY <3>2 DEF M
  <2>2. w[i] \in Nat /\ w[Len(s)] \in Nat
    BY <1>0, <2>1, MultiplesClosed
  <2> QED BY <1>0, <2>1, <2>2
<1>2. ASSUME NEW i \in 1..Len(s) PROVE add(w[i - 1], s[i]) = w[i]
  <2>1. i \in 0..Len(s) /\ i - 1 \in 0..Len(s) /\ i - 1 <= i
    BY <1>0
  <2>2. w[i - 1] <= w[i] /\ s[i] = w[i] - w[i - 1]
    BY <2>1 DEF Totals
  <2>3. PICK a \in Nat, b \in Nat : a = w[i - 1] /\ b = w[i]
    BY <1>1, <2>1
  <2>4. a \in Multiples(G) /\ b \in Multiples(G) /\ b < Significands * G /\ a <= b
    BY <1>1, <2>1, <2>2, <2>3
  <2>5. b - a \in Multiples(G) /\ a + (b - a) = b
    <3>1. b - a \in Multiples(G)
      BY <1>0, <2>4, MultiplesClosed
    <3> QED BY <3>1
  <2>6. add(a, b - a) = b
    BY <2>4, <2>5, AddExact
  <2> QED BY <2>2, <2>3, <2>6
<1>3. F(w)
  <2>1. w[0] = 0 /\ w = [i \in 0..Len(s) |-> w[i]]
    BY DEF Totals
  <2>2. \A i \in 0..Len(s) : w[i] = IF i = 0 THEN 0 ELSE add(w[i - 1], s[i])
    <3> TAKE i \in 0..Len(s)
    <3>1. i # 0 => i \in 1..Len(s)
      BY <1>0
    <3> QED BY <1>2, <2>1, <3>1
  <2> QED BY <2>1, <2>2
<1>4. F(upTo)
  <2>1. upTo = CHOOSE f : F(f)
    OBVIOUS
  <2> HIDE DEF upTo, F
  <2> QED BY <1>3, <2>1
<1>5. sum(s) = upTo[Len(s)]
  BY DEF sum
<1>6. upTo[0] = 0 /\ \A i \in 1..Len(s) : upTo[i] = add(upTo[i - 1], s[i])
  <2> HIDE DEF upTo
  <2>1. 0 \in 0..Len(s) /\ \A i \in 1..Len(s) : i \in 0..Len(s) /\ i # 0
    BY <1>0
  <2> QED BY <1>4, <2>1
<1> HIDE DEF upTo, F
<1> DEFINE Bad == {i \in 0..Len(s) : upTo[i] # w[i]}
<1>7. Bad = {}
  <2> SUFFICES ASSUME Bad # {} PROVE FALSE
    OBVIOUS
  <2>1. PICK m \in Bad : \A j \in Bad : m <= j
    <3>1. Bad \in SUBSET Nat
      BY <1>0
    <3> HIDE DEF Bad
    <3> QED BY <3>1, LeastOf
  <2>2. m # 0
    BY <1>6 DEF Totals
  <2>3. m \in 1..Len(s) /\ m - 1 \in 0..Len(s) /\ ~(m <= m - 1)
    BY <1>0, <2>2
  <2>4. upTo[m - 1] = w[m - 1]
    BY <2>1, <2>3
  <2>5. upTo[m] = w[m]
    BY <1>2, <1>6, <2>3, <2>4
  <2> QED BY <2>1, <2>5
<1> QED BY <1>0, <1>5, <1>7

\* The totals of no numbers,
LEMMA TotalsEmpty ==
  ASSUME NEW G \in Units
  PROVE  \E w : Totals(<<>>, w, G) /\ w[Len(<<>>)] = 0
<1> DEFINE w == [i \in 0..0 |-> 0]
<1>1. G \in Nat /\ 0 = 0 * G
  BY AmountsAssumption
<1>2. 0 \in Multiples(G)
  BY <1>1 DEF Multiples
<1>3. Len(<<>>) = 0 /\ 0..0 = {0}
  OBVIOUS
<1>4. Totals(<<>>, w, G)
  BY <1>2, <1>3 DEF Totals
<1>5. w[Len(<<>>)] = 0
  BY <1>3
<1> QED BY <1>4, <1>5

\* of one more,
LEMMA TotalsAppend ==
  ASSUME NEW G \in Units, NEW s \in Seq(Nat), NEW w, Totals(s, w, G),
         NEW a \in Multiples(G)
  PROVE  \E v : Totals(Append(s, a), v, G) /\ v[Len(Append(s, a))] = w[Len(s)] + a
<1>1. PICK n \in Nat : n = Len(s)
  OBVIOUS
<1>2. PICK r : r = Append(s, a)
  OBVIOUS
<1>3. G \in Nat /\ a \in Nat
  BY AmountsAssumption, MultiplesClosed
<1>4. Len(r) = n + 1 /\ (\A i \in 1..n : r[i] = s[i]) /\ r[n + 1] = a
  BY <1>1, <1>2, <1>3, AppendProperties
<1> DEFINE M == Multiples(G)
<1>5. /\ w \in [0..n -> M] /\ w[0] = 0
      /\ \A i, j \in 0..n : i <= j => w[i] <= w[j]
      /\ \A i \in 1..n : s[i] = w[i] - w[i - 1]
  BY <1>1 DEF Totals
<1>6. M \subseteq Nat /\ \A x \in M : x + a \in M
  BY <1>3, MultiplesClosed
<1> DEFINE v == [i \in 0..(n + 1) |-> IF i = n + 1 THEN w[n] + a ELSE w[i]]
<1> HIDE DEF M
<1>n. w[n] \in M /\ w[n] \in Nat
  <2>1. n \in 0..n
    OBVIOUS
  <2> QED BY <1>5, <1>6, <2>1
<1>7. v \in [0..(n + 1) -> M]
  <2> SUFFICES ASSUME NEW i \in 0..(n + 1) PROVE v[i] \in M
    OBVIOUS
  <2>1. i # n + 1 => i \in 0..n
    OBVIOUS
  <2> QED BY <1>5, <1>6, <1>n, <2>1
<1>8. v[0] = 0 /\ v[n + 1] = w[n] + a
  BY <1>5
<1>9. \A i, j \in 0..(n + 1) : i <= j => v[i] <= v[j]
  <2> TAKE i \in 0..(n + 1), j \in 0..(n + 1)
  <2>1. CASE j # n + 1
    BY <1>5, <2>1
  <2>2. CASE j = n + 1 /\ i # n + 1
    <3>1. i \in 0..n /\ n \in 0..n /\ i <= n
      BY <2>2
    <3>2. w[i] \in Nat /\ w[n] \in Nat /\ w[i] <= w[n]
      BY <1>5, <1>6, <3>1
    <3> QED BY <1>3, <2>2, <3>2
  <2>3. CASE i = n + 1 /\ j = n + 1
    <3> QED BY <1>3, <1>8, <1>n, <2>3
  <2> QED BY <2>1, <2>2, <2>3
<1>10. \A i \in 1..(n + 1) : r[i] = v[i] - v[i - 1]
  <2> TAKE i \in 1..(n + 1)
  <2>1. CASE i # n + 1
    <3>1. i \in 1..n /\ i - 1 \in 0..n /\ i - 1 # n + 1
      BY <2>1
    <3> QED BY <1>4, <1>5, <3>1
  <2>2. CASE i = n + 1
    <3>1. i - 1 = n /\ n \in 0..(n + 1) /\ n # n + 1
      BY <2>2
    <3>2. v[i] = w[n] + a /\ v[i - 1] = w[n]
      BY <2>2, <3>1
    <3>3. r[i] = a
      BY <1>4, <2>2
    <3> QED BY <1>3, <1>n, <3>2, <3>3
  <2> QED BY <2>1, <2>2
<1> HIDE DEF v
<1>11. Totals(r, v, G)
  BY <1>4, <1>7, <1>8, <1>9, <1>10 DEF Totals, M
<1> QED BY <1>1, <1>2, <1>4, <1>8, <1>11

\* and of the numbers from one place to another.
LEMMA TotalsPart ==
  ASSUME NEW G \in Units, NEW s \in Seq(Nat), NEW w, Totals(s, w, G),
         NEW k \in 0..Len(s), NEW l \in 0..Len(s), k <= l
  PROVE  LET p == SubSeq(s, k + 1, l)
         IN  /\ p \in Seq(Nat)
             /\ \E v : Totals(p, v, G) /\ v[Len(p)] = w[l] - w[k]
<1> SUFFICES ASSUME NEW p, p = SubSeq(s, k + 1, l)
    PROVE p \in Seq(Nat) /\ \E v : Totals(p, v, G) /\ v[Len(p)] = w[l] - w[k]
  OBVIOUS
<1>1. PICK n \in Nat : n = Len(s)
  OBVIOUS
<1>2. PICK m \in Nat : m = l - k
  BY <1>1
<1>3. k \in Nat /\ l \in Nat /\ k + m = l /\ l <= n
  BY <1>1, <1>2
<1>4. p \in Seq(Nat) /\ Len(p) = m /\ \A i \in 1..m : p[i] = s[k + i]
  <2>1. \A i \in (k + 1)..l : i \in 1..Len(s)
    BY <1>1, <1>3
  <2>2. \A i \in (k + 1)..l : s[i] \in Nat
    BY <2>1, ElementOfSeq
  <2>3. /\ p \in Seq(Nat)
        /\ Len(p) = IF k + 1 <= l THEN l - (k + 1) + 1 ELSE 0
        /\ \A i \in 1..(l - (k + 1) + 1) : p[i] = s[(k + 1) + i - 1]
    BY <1>3, <2>2, SubSeqProperties
  <2>4. l - (k + 1) + 1 = m /\ \A i \in 1..m : (k + 1) + i - 1 = k + i
    BY <1>3
  <2>5. k + 1 <= l \/ m = 0
    BY <1>3
  <2> QED BY <2>3, <2>4, <2>5
<1> DEFINE M == Multiples(G)
<1>5. /\ w \in [0..n -> M] /\ w[0] = 0
      /\ \A i, j \in 0..n : i <= j => w[i] <= w[j]
      /\ \A i \in 1..n : s[i] = w[i] - w[i - 1]
  BY <1>1 DEF Totals
<1>6. M \subseteq Nat /\ \A x, y \in M : x <= y => y - x \in M
  BY AmountsAssumption, MultiplesClosed
<1> DEFINE v == [i \in 0..m |-> w[k + i] - w[k]]
<1> HIDE DEF M
<1>7. \A i \in 0..m : k + i \in 0..n /\ k + i >= k /\ k \in 0..n
  BY <1>3
<1>8. \A i \in 0..m : /\ w[k + i] \in Nat /\ w[k] \in Nat /\ w[k] <= w[k + i]
                      /\ w[k + i] - w[k] \in M
  BY <1>5, <1>6, <1>7
<1>9. v \in [0..m -> M]
  BY <1>8
<1>10. v[0] = 0
  <2>1. 0 \in 0..m /\ k + 0 = k
    BY <1>3
  <2>2. v[0] = w[k] - w[k] /\ w[k] \in Nat
    BY <1>8, <2>1
  <2> QED BY <2>2
<1>11. \A i, j \in 0..m : i <= j => v[i] <= v[j]
  <2> TAKE i \in 0..m, j \in 0..m
  <2>1. i <= j => w[k + i] <= w[k + j]
    BY <1>3, <1>5, <1>7
  <2>2. PICK a \in Nat, b \in Nat, c \in Nat : a = w[k + i] /\ b = w[k + j] /\ c = w[k]
    BY <1>8
  <2>3. v[i] = a - c /\ v[j] = b - c
    BY <2>2
  <2> QED BY <2>1, <2>2, <2>3
<1>12. \A i \in 1..m : p[i] = v[i] - v[i - 1]
  <2> TAKE i \in 1..m
  <2>1. i \in 0..m /\ i - 1 \in 0..m /\ k + i \in 1..n /\ (k + i) - 1 = k + (i - 1)
    BY <1>3
  <2>2. p[i] = w[k + i] - w[k + (i - 1)]
    BY <1>4, <1>5, <2>1
  <2>3. v[i] = w[k + i] - w[k] /\ v[i - 1] = w[k + (i - 1)] - w[k]
    BY <2>1
  <2>4. PICK a \in Nat, b \in Nat, c \in Nat :
          a = w[k + i] /\ b = w[k + (i - 1)] /\ c = w[k]
    BY <1>8, <2>1
  <2>5. p[i] = a - b /\ v[i] = a - c /\ v[i - 1] = b - c
    BY <2>2, <2>3, <2>4
  <2>6. (a - c) - (b - c) = a - b
    OBVIOUS
  <2> QED BY <2>5, <2>6
<1>13. v[m] = w[l] - w[k]
  <2>1. m \in 0..m /\ k + m = l
    BY <1>3
  <2> QED BY <2>1
<1> HIDE DEF v
<1>14. Totals(p, v, G)
  BY <1>4, <1>9, <1>10, <1>11, <1>12 DEF Totals, M
<1> QED BY <1>4, <1>13, <1>14

-----------------------------------------------------------------------------
(* The wallet *)

\* The nodes have the same coins, all of them multiples of G that are worth no more
\* than what was mined.
WalletInv(G) ==
  /\ mined \in 0..MaxCoins
  /\ coins \in Seq(Nat) /\ peerCoins = coins
  /\ \E w : Totals(coins, w, G) /\ w[Len(coins)] <= mined * Coinbase

\* What is in a wallet fits.
LEMMA EarningsFit ==
  ASSUME NEW G, Exact(G), NEW n \in 0..MaxCoins
  PROVE  n * Coinbase \in Nat /\ n * Coinbase < Significands * G
<1>1. PICK c \in Nat : c = Coinbase
  BY AmountsAssumption DEF Coinbase
<1>2. MaxCoins \in Nat /\ G \in Nat /\ Significands \in Nat
  BY AmountsAssumption DEF Exact
<1>3. PICK r \in Nat : MaxCoins = n + r
  BY <1>2
<1>4. MaxCoins * c = n * c + r * c /\ r * c \in Nat /\ n * c \in Nat
  BY <1>3
<1>5. MaxCoins * c < Significands * G /\ Significands * G \in Nat
  BY <1>1, <1>2 DEF Exact
<1>6. n * c < Significands * G
  BY <1>2, <1>4, <1>5
<1> QED BY <1>1, <1>4, <1>6

\* A coinbase reaches the other nodes as it is.
LEMMA CoinbaseExact ==
  ASSUME NEW G, Exact(G), MaxCoins > 0
  PROVE  Coinbase \in Multiples(G) /\ Received(Coinbase) = Coinbase
<1>1. Coinbase \in Nat /\ G \in Nat \ {0} /\ MaxCoins \in Nat
  BY AmountsAssumption DEF Coinbase, Exact
<1>2. Coinbase \in Multiples(G)
  BY <1>1, MultipleMod DEF Exact
<1>3. 1 \in 0..MaxCoins /\ 1 * Coinbase = Coinbase
  BY <1>1
<1>4. Coinbase < Significands * G
  BY <1>3, EarningsFit
<1> QED BY <1>2, <1>4, ReceivedExact DEF Exact

\* What users pay is a multiple of the grain.
LEMMA TypedExact ==
  ASSUME NEW G, Exact(G), NEW k \in TypedAmounts
  PROVE  Typed(k) \in Multiples(G)
<1>1. G \in Nat \ {0}
  BY AmountsAssumption DEF Exact
<1> QED BY <1>1, MultipleMod DEF Exact

\* The outputs of a payment are worth its inputs, and reach the other nodes as they
\* are.
LEMMA OutputsExact ==
  ASSUME NEW G, Exact(G), NEW amount \in Multiples(G), NEW collected \in Multiples(G),
         amount <= collected, collected < Significands * G
  PROVE  LET outs == createTransOuts(amount, collected)
         IN  /\ sum(outs) = collected
             /\ [i \in DOMAIN outs |-> Received(outs[i])] = outs
             /\ \/ Tail(outs) = <<>> /\ collected = amount
                \/ Tail(outs) = <<collected - amount>> /\ collected - amount \in Multiples(G)
<1>1. G \in Units /\ G \in Nat /\ Significands * G \in Nat
  BY AmountsAssumption DEF Exact
<1>2. amount \in Nat /\ collected \in Nat
  BY <1>1, MultiplesClosed
<1>3. PICK d : d = collected - amount
  OBVIOUS
<1>4. d \in Multiples(G) /\ d \in Nat /\ d < Significands * G /\ amount < Significands * G
  <2>1. d \in Multiples(G)
    BY <1>1, <1>3, MultiplesClosed
  <2>2. d \in Nat /\ d <= collected
    BY <1>2, <1>3
  <2> QED BY <1>1, <1>2, <2>1, <2>2
<1>5. sub(collected, amount) = d
  BY <1>1, <1>3, AddExact
<1>6. Received(amount) = amount /\ Received(d) = d
  BY <1>1, <1>4, ReceivedExact DEF Exact
<1>7. PICK w : Totals(<<>>, w, G) /\ w[Len(<<>>)] = 0
  BY <1>1, TotalsEmpty
<1>8. <<>> \in Seq(Nat) /\ Append(<<>>, amount) = <<amount>> /\ <<amount>> \in Seq(Nat)
  BY <1>2
<1>9. PICK v : Totals(<<amount>>, v, G) /\ v[Len(<<amount>>)] = amount
  <2>1. PICK v : /\ Totals(Append(<<>>, amount), v, G)
                 /\ v[Len(Append(<<>>, amount))] = w[Len(<<>>)] + amount
    <3>1. PICK e : e = <<>>
      OBVIOUS
    <3>2. e \in Seq(Nat) /\ Totals(e, w, G)
      BY <1>7, <1>8, <3>1
    <3>3. \E v : /\ Totals(Append(e, amount), v, G)
                 /\ v[Len(Append(e, amount))] = w[Len(e)] + amount
      BY <1>1, <3>2, TotalsAppend
    <3> QED BY <3>1, <3>3
  <2>2. w[Len(<<>>)] + amount = amount
    BY <1>2, <1>7
  <2> QED BY <1>8, <2>1, <2>2
<1>10. CASE d = 0
  <2>1. createTransOuts(amount, collected) = <<amount>> /\ collected = amount
    BY <1>2, <1>3, <1>5, <1>10 DEF createTransOuts
  <2>2. sum(<<amount>>) = amount
    BY <1>1, <1>4, <1>8, <1>9, SumExact
  <2>3. [i \in DOMAIN <<amount>> |-> Received(<<amount>>[i])] = <<amount>>
    BY <1>6
  <2>4. Tail(<<amount>>) = <<>>
    OBVIOUS
  <2> QED BY <2>1, <2>2, <2>3, <2>4
<1>11. CASE d # 0
  <2>1. createTransOuts(amount, collected) = <<amount, d>>
    BY <1>5, <1>11 DEF createTransOuts
  <2>2. Append(<<amount>>, d) = <<amount, d>> /\ <<amount, d>> \in Seq(Nat)
    <3>1. amount \in Nat /\ d \in Nat
      BY <1>2, <1>4
    <3>2. <<amount, d>> \in Seq(Nat)
      BY <3>1
    <3>3. Append(<<amount>>, d) = <<amount, d>>
      <4> DEFINE t == Append(<<amount>>, d)
      <4>1. t \in Seq(Nat) /\ Len(t) = 2 /\ t[1] = amount /\ t[2] = d
        BY <1>8, <3>1
      <4>2. Len(<<amount, d>>) = 2 /\ <<amount, d>>[1] = amount /\ <<amount, d>>[2] = d
        OBVIOUS
      <4>3. \A i \in 1..Len(t) : t[i] = <<amount, d>>[i]
        BY <4>1, <4>2
      <4> HIDE DEF t
      <4>4. t = <<amount, d>>
        BY <3>2, <4>1, <4>2, <4>3, SeqEqual
      <4> QED BY <4>4 DEF t
    <3> QED BY <3>2, <3>3
  <2>3. amount + d = collected
    BY <1>2, <1>3
  <2>4. PICK x : Totals(<<amount, d>>, x, G) /\ x[Len(<<amount, d>>)] = collected
    <3>1. PICK x : /\ Totals(Append(<<amount>>, d), x, G)
                   /\ x[Len(Append(<<amount>>, d))] = v[Len(<<amount>>)] + d
      BY <1>1, <1>4, <1>8, <1>9, TotalsAppend
    <3> QED BY <1>9, <2>2, <2>3, <3>1
  <2>5. sum(<<amount, d>>) = collected
    BY <1>1, <2>2, <2>4, SumExact
  <2>6. [i \in DOMAIN <<amount, d>> |-> Received(<<amount, d>>[i])] = <<amount, d>>
    BY <1>6
  <2>7. Tail(<<amount, d>>) = <<d>>
    OBVIOUS
  <2> QED BY <1>3, <1>4, <2>1, <2>5, <2>6, <2>7
<1> QED BY <1>10, <1>11

\* getTransOutsForAmount, when it succeeds, takes coins from the front of the list that
\* suffice.
LEMMA CoinsSuffice ==
  ASSUME NEW n \in Nat, n = Len(coins), NEW amount, CoinsFor(amount) > 0
  PROVE  CoinsFor(amount) \in 1..n /\ sum(SubSeq(coins, 1, CoinsFor(amount))) >= amount
<1> DEFINE S == {i \in 1..n : sum(SubSeq(coins, 1, i)) >= amount}
<1>1. CoinsFor(amount) = IF S = {} THEN 0 ELSE Min(S)
  BY DEF CoinsFor
<1>2. S # {}
  BY <1>1
<1>3. S \in SUBSET Nat
  OBVIOUS
<1>4. Min(S) \in S
  <2> HIDE DEF S
  <2> QED BY <1>2, <1>3, LeastOf
<1>5. CoinsFor(amount) \in S
  BY <1>1, <1>2, <1>4
<1> QED BY <1>5

\* The exact totals in the wallet fit, and are natural numbers.
LEMMA TotalsFit ==
  ASSUME NEW G, Exact(G), WalletInv(G), NEW w, Totals(coins, w, G),
         w[Len(coins)] <= mined * Coinbase, NEW i \in 0..Len(coins)
  PROVE  /\ w[i] \in Multiples(G) /\ w[i] \in Nat
         /\ w[i] <= w[Len(coins)] /\ w[i] < Significands * G
<1> DEFINE M == Multiples(G)
<1>1. G \in Nat /\ Significands * G \in Nat
  BY AmountsAssumption DEF Exact
<1>2. PICK e \in Nat : e = mined * Coinbase /\ e < Significands * G
  BY EarningsFit DEF WalletInv
<1>3. PICK n \in Nat : n = Len(coins)
  BY DEF WalletInv
<1>4. i \in 0..n /\ n \in 0..n /\ i <= n
  BY <1>3
<1>5. w \in [0..n -> M] /\ \A j, k \in 0..n : j <= k => w[j] <= w[k]
  BY <1>3 DEF Totals
<1>6. M \subseteq Nat
  BY <1>1, MultiplesClosed
<1> HIDE DEF M
<1>7. w[i] \in M /\ w[i] \in Nat /\ w[n] \in Nat /\ w[i] <= w[n] /\ w[n] <= e
  BY <1>2, <1>3, <1>4, <1>5, <1>6
<1>8. w[i] < Significands * G
  BY <1>1, <1>2, <1>7
<1> QED BY <1>3, <1>7, <1>8 DEF M

\* What a payment takes from the wallet and what it gives, in exact numbers.
LEMMA PaymentExact ==
  ASSUME NEW G, Exact(G), WalletInv(G), NEW amount \in Multiples(G), CoinsFor(amount) > 0
  PROVE  /\ Accepted(amount) /\ AcceptedByPeers(amount)
         /\ PeerOutputs(amount) = Outputs(amount)
         /\ LET rest == After(coins, amount, Outputs(amount))
            IN  /\ rest \in Seq(Nat)
                /\ \E v : Totals(rest, v, G) /\ v[Len(rest)] <= mined * Coinbase
<1>1. G \in Units /\ G \in Nat /\ amount \in Nat
  BY AmountsAssumption, MultiplesClosed DEF Exact
<1>2. PICK e \in Nat : e = mined * Coinbase
  BY EarningsFit DEF WalletInv
<1>3. coins \in Seq(Nat) /\ peerCoins = coins
  BY DEF WalletInv
<1>4. PICK n \in Nat : n = Len(coins)
  BY <1>3
<1>5. PICK w : Totals(coins, w, G) /\ w[n] <= e
  BY <1>2, <1>4 DEF WalletInv
<1>6. PICK c : c = CoinsFor(amount)
  OBVIOUS
<1>7. c \in 1..n /\ sum(SubSeq(coins, 1, c)) >= amount
  BY <1>4, <1>6, CoinsSuffice
<1>8. 0 \in 0..n /\ c \in 0..n /\ n \in 0..n /\ 0 <= c /\ c <= n
  BY <1>7
<1>9. PICK all \in Nat, collected \in Nat : all = w[n] /\ collected = w[c]
  BY <1>2, <1>4, <1>5, <1>8, TotalsFit
<1>10. /\ collected \in Multiples(G) /\ collected <= all
       /\ collected < Significands * G /\ all <= e
  BY <1>2, <1>4, <1>5, <1>8, <1>9, TotalsFit
<1>11. PICK ins : ins = SubSeq(coins, 1, c)
  OBVIOUS
<1>12. sum(ins) = collected /\ Inputs(amount) = ins /\ PeerInputs(amount) = ins
  <2>1. ins = SubSeq(coins, 0 + 1, c)
    BY <1>11
  <2>2. ins \in Seq(Nat) /\ \E v : Totals(ins, v, G) /\ v[Len(ins)] = w[c] - w[0]
    BY <1>1, <1>3, <1>4, <1>5, <1>8, <2>1, TotalsPart
  <2>3. w[c] - w[0] = collected
    BY <1>5, <1>9 DEF Totals
  <2>4. PICK v : Totals(ins, v, G) /\ v[Len(ins)] = collected
    BY <2>2, <2>3
  <2>5. sum(ins) = collected
    BY <1>1, <1>10, <2>2, <2>4, SumExact
  <2> QED BY <1>3, <1>6, <1>11, <2>5 DEF Inputs, PeerInputs
<1>13. amount <= collected
  BY <1>1, <1>7, <1>11, <1>12
<1>14. PICK outs : outs = createTransOuts(amount, collected)
  OBVIOUS
<1>15. /\ sum(outs) = collected
       /\ [i \in DOMAIN outs |-> Received(outs[i])] = outs
       /\ \/ Tail(outs) = <<>> /\ collected = amount
          \/ Tail(outs) = <<collected - amount>> /\ collected - amount \in Multiples(G)
  BY <1>10, <1>13, <1>14, OutputsExact
<1>16. Outputs(amount) = outs /\ PeerOutputs(amount) = outs
  BY <1>12, <1>14, <1>15 DEF Outputs, PeerOutputs
<1>17. Accepted(amount) /\ AcceptedByPeers(amount)
  BY <1>12, <1>15, <1>16 DEF Accepted, AcceptedByPeers, AmountsFit
<1>18. PICK r : r = SubSeq(coins, c + 1, n)
  OBVIOUS
<1>19. r \in Seq(Nat) /\ \E v : Totals(r, v, G) /\ v[Len(r)] = w[n] - w[c]
  <2>1. c \in 0..Len(coins) /\ n \in 0..Len(coins) /\ c <= n
    BY <1>4, <1>8
  <2>2. Totals(coins, w, G)
    BY <1>5
  <2> QED BY <1>1, <1>3, <1>18, <2>1, <2>2, TotalsPart
<1>20. PICK v : Totals(r, v, G) /\ v[Len(r)] = all - collected
  BY <1>9, <1>19
<1>21. After(coins, amount, outs) = r \o Tail(outs)
  BY <1>4, <1>6, <1>18 DEF After
<1>22. /\ r \o Tail(outs) \in Seq(Nat)
       /\ \E x : Totals(r \o Tail(outs), x, G) /\ x[Len(r \o Tail(outs))] <= e
  <2>1. CASE Tail(outs) = <<>>
    <3>1. r \o <<>> = r
      BY <1>19, ConcatEmptySeq
    <3>2. all - collected <= e
      BY <1>9, <1>10
    <3> QED BY <1>19, <1>20, <2>1, <3>1, <3>2
  <2>2. CASE Tail(outs) = <<collected - amount>> /\ collected - amount \in Multiples(G)
    <3>1. PICK d \in Nat : d = collected - amount
      BY <1>1, <1>9, <1>13
    <3>2. PICK q : q = Append(r, d)
      OBVIOUS
    <3>3. q \in Seq(Nat) /\ r \o <<d>> = q
      BY <1>19, <3>1, <3>2, AppendProperties, AppendIsConcat
    <3>4. \E x : Totals(q, x, G) /\ x[Len(q)] = v[Len(r)] + d
      BY <1>1, <1>19, <1>20, <2>2, <3>1, <3>2, TotalsAppend
    <3>5. v[Len(r)] + d <= e
      <4>1. all - collected + (collected - amount) <= e
        BY <1>1, <1>9, <1>10
      <4> QED BY <1>20, <3>1, <4>1
    <3>6. \E x : Totals(q, x, G) /\ x[Len(q)] <= e
      BY <3>4, <3>5
    <3> QED BY <2>2, <3>1, <3>3, <3>6
  <2> QED BY <1>15, <2>1, <2>2
<1> QED BY <1>2, <1>16, <1>17, <1>21, <1>22

LEMMA WalletInit ==
  ASSUME NEW G, Exact(G), Init
  PROVE  WalletInv(G)
<1>1. MaxCoins \in Nat /\ G \in Units /\ mined = 0 /\ mined \in 0..MaxCoins
  BY AmountsAssumption DEF Exact, Init
<1>2. coins = <<>> /\ peerCoins = coins /\ coins \in Seq(Nat)
  BY DEF Init
<1>3. 0 <= mined * Coinbase
  BY <1>1, AmountsAssumption DEF Coinbase
<1>4. \E w : Totals(coins, w, G) /\ w[Len(coins)] <= mined * Coinbase
  BY <1>1, <1>2, <1>3, TotalsEmpty
<1> QED BY <1>1, <1>2, <1>4 DEF WalletInv

LEMMA WalletStep ==
  ASSUME NEW G, Exact(G), WalletInv(G), [Next]_vars
  PROVE  WalletInv(G)'
<1>1. CASE UNCHANGED vars
  BY <1>1 DEF vars, WalletInv, Totals
<1>2. CASE Mine
  <2>1. /\ mined \in 0..MaxCoins /\ mined < MaxCoins /\ MaxCoins \in Nat /\ mined' = mined + 1
        /\ coins' = Append(coins, Coinbase) /\ peerCoins' = Append(peerCoins, Received(Coinbase))
        /\ coins \in Seq(Nat) /\ peerCoins = coins
    BY <1>2, AmountsAssumption DEF Mine, WalletInv
  <2>2. MaxCoins > 0 /\ mined' \in 0..MaxCoins
    BY <2>1
  <2>3. Coinbase \in Multiples(G) /\ Received(Coinbase) = Coinbase /\ G \in Units
    BY <2>2, CoinbaseExact DEF Exact
  <2>4. Coinbase \in Nat
    BY AmountsAssumption DEF Coinbase
  <2>5. coins' \in Seq(Nat) /\ peerCoins' = coins'
    BY <2>1, <2>3, <2>4, AppendProperties
  <2>6. PICK w : Totals(coins, w, G) /\ w[Len(coins)] <= mined * Coinbase
    BY DEF WalletInv
  <2>7. PICK v : Totals(coins', v, G) /\ v[Len(coins')] = w[Len(coins)] + Coinbase
    BY <2>1, <2>3, <2>6, TotalsAppend
  <2>8. w[Len(coins)] \in Nat
    <3>1. Len(coins) \in 0..Len(coins)
      BY <2>1
    <3> QED BY <2>6, <3>1, TotalsFit
  <2>9. mined' * Coinbase = mined * Coinbase + Coinbase /\ mined * Coinbase \in Nat
    BY <2>1, <2>4
  <2>10. v[Len(coins')] <= mined' * Coinbase
    BY <2>4, <2>6, <2>7, <2>8, <2>9
  <2>11. \E x : Totals(coins', x, G) /\ x[Len(coins')] <= mined' * Coinbase
    BY <2>7, <2>10
  <2> QED BY <2>2, <2>5, <2>11 DEF WalletInv, Totals
<1>3. ASSUME NEW k \in TypedAmounts, Pay(Typed(k)) PROVE WalletInv(G)'
  <2>1. PICK amount \in Multiples(G) : amount = Typed(k) /\ Pay(amount)
    BY <1>3, TypedExact
  <2>2. /\ CoinsFor(amount) > 0 /\ mined' = mined
        /\ coins' = After(coins, amount, Outputs(amount))
        /\ peerCoins' = After(peerCoins, amount, PeerOutputs(amount))
    BY <2>1 DEF Pay
  <2>3. mined \in 0..MaxCoins /\ peerCoins = coins
    BY DEF WalletInv
  <2>4. PeerOutputs(amount) = Outputs(amount)
    BY <2>2, PaymentExact
  <2>5. /\ coins' \in Seq(Nat)
        /\ \E x : Totals(coins', x, G) /\ x[Len(coins')] <= mined * Coinbase
    BY <2>2, PaymentExact
  <2> QED BY <2>2, <2>3, <2>4, <2>5 DEF WalletInv, Totals
<1> QED BY <1>1, <1>2, <1>3 DEF Next

\* While the amounts stay within what the formats hold exactly, the nodes have the same
\* coins, whatever the owner mines and pays, and so agree on what they are worth.
THEOREM AlwaysSameWorth ==
  ASSUME NEW G, Exact(G)
  PROVE  Spec => []SameWorth
<1>1. Init => WalletInv(G)
  BY WalletInit
<1>2. WalletInv(G) /\ [Next]_vars => WalletInv(G)'
  BY WalletStep
<1>3. WalletInv(G) => SameWorth
  BY DEF WalletInv, SameWorth
<1> QED BY <1>1, <1>2, <1>3, PTL DEF Spec

\* And the node accepts every payment that its wallet can make (the two sums that the
\* comment of Transactions.cpp:264 wants to be equal are equal),
THEOREM AlwaysPaymentsFit ==
  ASSUME NEW G, Exact(G)
  PROVE  Spec => []PaymentsFit
<1>1. Init => WalletInv(G)
  BY WalletInit
<1>2. WalletInv(G) /\ [Next]_vars => WalletInv(G)'
  BY WalletStep
<1>3. WalletInv(G) => PaymentsFit
  BY TypedExact, PaymentExact DEF PaymentsFit, Payable
<1> QED BY <1>1, <1>2, <1>3, PTL DEF Spec

\* and so do the other nodes, which have the amounts from a text.
THEOREM AlwaysPeersAccept ==
  ASSUME NEW G, Exact(G)
  PROVE  Spec => []PeersAccept
<1>1. Init => WalletInv(G)
  BY WalletInit
<1>2. WalletInv(G) /\ [Next]_vars => WalletInv(G)'
  BY WalletStep
<1>3. WalletInv(G) => PeersAccept
  BY TypedExact, PaymentExact DEF PeersAccept, Payable
<1> QED BY <1>1, <1>2, <1>3, PTL DEF Spec
=============================================================================
