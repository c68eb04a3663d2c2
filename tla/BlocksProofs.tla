---------------------------- MODULE BlocksProofs ----------------------------
(***************************************************************************)
(* Lemmas on lists, sums, the replay of a chain, linked chains, the pool,  *)
(* powers of two and the work of a chain.                                  *)
(*                                                                         *)
(* The induction theorems of the library take an operator as a parameter,  *)
(* which no backend can instantiate; inductions over the length of a chain *)
(* are made by the least counterexample instead (NatMinimum).              *)
(***************************************************************************)
EXTENDS TransactionPool, TLAPS, NaturalsInduction, WellFoundedInduction, SequenceTheorems,
        FiniteSetTheorems

\* Every non-empty set of naturals has a least element.
LEMMA NatMinimum ==
  ASSUME NEW S \in SUBSET Nat, S # {}
  PROVE  \E m \in S : \A k \in S : m <= k
<1> DEFINE R == {ss \in Nat \X Nat : ss[1] < ss[2]}
<1>1. IsWellFoundedOn(R, Nat)
  BY NatLessThanWellFounded DEF OpToRel
<1>2. PICK m \in S : \A k \in S : ~(<<k, m>> \in R)
  <2> HIDE DEF R
  <2> QED BY <1>1, WFMin
<1>3. ASSUME NEW k \in S PROVE m <= k
  <2>1. k \in Nat /\ m \in Nat
    OBVIOUS
  <2>2. k < m => <<k, m>> \in R
    BY <2>1
  <2>3. ~(k < m)
    <3> HIDE DEF R
    <3> QED BY <1>2, <2>2
  <2> QED BY <2>1, <2>3
<1> QED BY <1>3

-----------------------------------------------------------------------------
(* Lists *)

\* Whatever is a sequence over some set is a list.
LEMMA SeqIsSeq ==
  ASSUME NEW S, NEW s \in Seq(S)
  PROVE  IsSeq(s)
<1> DEFINE T == {s[i] : i \in DOMAIN s}
<1>1. Len(s) \in Nat /\ s \in [1..Len(s) -> S] /\ DOMAIN s = 1..Len(s)
  OBVIOUS
<1>2. s \in [1..Len(s) -> T]
  BY <1>1
<1>3. s \in Seq(T)
  <2> HIDE DEF T
  <2> QED BY <1>1, <1>2
<1> QED BY <1>3 DEF IsSeq

\* A list is a function on 1..Len.
LEMMA IsSeqShape ==
  ASSUME NEW s, IsSeq(s)
  PROVE  /\ Len(s) \in Nat
         /\ DOMAIN s = 1..Len(s)
         /\ s = [i \in 1..Len(s) |-> s[i]]
         /\ (s # <<>> => Len(s) >= 1)
  BY DEF IsSeq

\* What Append makes of a list.
LEMMA IsSeqAppend ==
  ASSUME NEW s, IsSeq(s), NEW e
  PROVE  /\ IsSeq(Append(s, e))
         /\ Append(s, e) # <<>>
         /\ Len(Append(s, e)) = Len(s) + 1
         /\ \A i \in 1..Len(s) : Append(s, e)[i] = s[i]
         /\ Append(s, e)[Len(s) + 1] = e
<1> DEFINE S == {s[i] : i \in DOMAIN s} \cup {e}
<1>1. s \in Seq(S)
  BY DEF IsSeq
<1>2. /\ Append(s, e) \in Seq(S)
      /\ Append(s, e) # <<>>
      /\ Len(Append(s, e)) = Len(s) + 1
      /\ \A i \in 1..Len(s) : Append(s, e)[i] = s[i]
      /\ Append(s, e)[Len(s) + 1] = e
  BY <1>1, AppendProperties
<1>3. IsSeq(Append(s, e))
  BY <1>2 DEF IsSeq
<1> QED BY <1>2, <1>3

\* A list of one element.
LEMMA IsSeqSingleton ==
  ASSUME NEW e
  PROVE  /\ IsSeq(<<e>>) /\ <<e>> # <<>>
         /\ Len(<<e>>) = 1 /\ <<e>>[1] = e /\ DOMAIN <<e>> = 1..1
  BY DEF IsSeq

\* Prefixing a list with one element, as a block prefixes its coinbase.
LEMMA IsSeqPrefixed ==
  ASSUME NEW s, IsSeq(s), NEW e
  PROVE  /\ IsSeq(<<e>> \o s)
         /\ Len(<<e>> \o s) = Len(s) + 1
         /\ (<<e>> \o s)[1] = e
         /\ \A i \in 2..(Len(s) + 1) : (<<e>> \o s)[i] = s[i - 1]
<1> DEFINE S == {s[i] : i \in DOMAIN s} \cup {e}
<1>1. s \in Seq(S) /\ <<e>> \in Seq(S)
  BY DEF IsSeq
<1>2. /\ <<e>> \o s \in Seq(S)
      /\ Len(<<e>> \o s) = Len(s) + 1
      /\ (<<e>> \o s)[1] = e
      /\ \A i \in 2..(Len(s) + 1) : (<<e>> \o s)[i] = s[i - 1]
  BY <1>1, ConcatProperties
<1>3. IsSeq(<<e>> \o s)
  <2> HIDE DEF S
  <2> QED BY <1>2, SeqIsSeq
<1> QED BY <1>2, <1>3

\* The first k elements of a list.
LEMMA IsSeqFirst ==
  ASSUME NEW s, IsSeq(s), NEW k \in 0..Len(s)
  PROVE  /\ IsSeq(SubSeq(s, 1, k))
         /\ Len(SubSeq(s, 1, k)) = k
         /\ \A i \in 1..k : SubSeq(s, 1, k)[i] = s[i]
<1> DEFINE S == {s[i] : i \in DOMAIN s}
<1>1. s \in Seq(S)
  BY DEF IsSeq
<1>2. SubSeq(s, 1, k) \in Seq(S)
  BY <1>1
<1>3. /\ Len(SubSeq(s, 1, k)) = k
      /\ \A i \in 1..k : SubSeq(s, 1, k)[i] = s[i]
  BY <1>1
<1>4. IsSeq(SubSeq(s, 1, k))
  <2> HIDE DEF S
  <2> QED BY <1>2, SeqIsSeq
<1> QED BY <1>3, <1>4

-----------------------------------------------------------------------------
(* Sums over finite sets *)

\* The recurrence that defines the sums of f over the subsets of S.
SumRecurrence(g, f, S) ==
  g = [s \in SUBSET S |-> IF s = {} THEN 0
                          ELSE f[CHOOSE x \in s : TRUE] + g[s \ {CHOOSE x \in s : TRUE}]]

\* The subsets of S with at most k elements.
SubsetsUpTo(S, k) == {s \in SUBSET S : Cardinality(s) <= k}

\* The same recurrence for these.
SumRecurrenceUpTo(g, f, S, k) ==
  g = [s \in SubsetsUpTo(S, k) |->
         IF s = {} THEN 0
         ELSE f[CHOOSE x \in s : TRUE] + g[s \ {CHOOSE x \in s : TRUE}]]

\* Taking an element off a finite set takes one off its cardinality.
LEMMA SmallerSubset ==
  ASSUME NEW S, IsFiniteSet(S), NEW s \in SUBSET S, NEW x \in s
  PROVE  /\ s \ {x} \in SUBSET S
         /\ Cardinality(s) \in Nat /\ Cardinality(s \ {x}) \in Nat
         /\ Cardinality(s \ {x}) = Cardinality(s) - 1
         /\ Cardinality(s) # 0
<1>1. IsFiniteSet(s)
  BY FS_Subset
<1>2. IsFiniteSet(s \ {x}) /\ Cardinality(s \ {x}) = Cardinality(s) - 1
  BY <1>1, FS_RemoveElement
<1>3. Cardinality(s) \in Nat /\ Cardinality(s \ {x}) \in Nat
  BY <1>1, <1>2, FS_CardinalityType
<1> QED BY <1>2, <1>3

\* The recurrence has a solution for subsets of any size.
LEMMA SumRecurrenceUpToExists ==
  ASSUME NEW f, NEW S, IsFiniteSet(S), NEW k \in Nat
  PROVE  \E g : SumRecurrenceUpTo(g, f, S, k)
<1> DEFINE Bad == {j \in Nat : ~ \E g : SumRecurrenceUpTo(g, f, S, j)}
<1> SUFFICES ASSUME Bad # {} PROVE FALSE
  OBVIOUS
<1>1. PICK m \in Bad : \A j \in Bad : m <= j
  BY NatMinimum
<1>2. m # 0
  <2> DEFINE g == [s \in SubsetsUpTo(S, 0) |-> 0]
  <2>1. \A s \in SubsetsUpTo(S, 0) : s = {}
    <3> SUFFICES ASSUME NEW s \in SUBSET S, Cardinality(s) <= 0, s # {} PROVE FALSE
      BY DEF SubsetsUpTo
    <3>1. PICK x : x \in s
      OBVIOUS
    <3>2. Cardinality(s) \in Nat /\ Cardinality(s \ {x}) \in Nat
          /\ Cardinality(s \ {x}) = Cardinality(s) - 1
      BY <3>1, SmallerSubset
    <3> QED BY <3>2
  <2>2. SumRecurrenceUpTo(g, f, S, 0)
    BY <2>1 DEF SumRecurrenceUpTo
  <2> QED BY <2>2
<1>3. m - 1 \in Nat /\ m \in Nat
  BY <1>2
<1>4. PICK h : SumRecurrenceUpTo(h, f, S, m - 1)
  BY <1>1, <1>3
<1> DEFINE g == [s \in SubsetsUpTo(S, m) |->
                   IF s = {} THEN 0
                   ELSE f[CHOOSE x \in s : TRUE] + h[s \ {CHOOSE x \in s : TRUE}]]
<1>5. ASSUME NEW s \in SubsetsUpTo(S, m - 1) PROVE g[s] = h[s]
  <2>1. s \in SubsetsUpTo(S, m)
    <3>1. s \in SUBSET S /\ Cardinality(s) <= m - 1 /\ Cardinality(s) \in Nat
      BY FS_Subset, FS_CardinalityType DEF SubsetsUpTo
    <3> QED BY <1>3, <3>1 DEF SubsetsUpTo
  <2>2. h[s] = IF s = {} THEN 0
               ELSE f[CHOOSE x \in s : TRUE] + h[s \ {CHOOSE x \in s : TRUE}]
    BY <1>4 DEF SumRecurrenceUpTo
  <2> QED BY <2>1, <2>2
<1>6. ASSUME NEW s \in SubsetsUpTo(S, m), s # {}
      PROVE  s \ {CHOOSE x \in s : TRUE} \in SubsetsUpTo(S, m - 1)
  <2> SUFFICES ASSUME NEW x \in s PROVE s \ {x} \in SubsetsUpTo(S, m - 1)
    BY <1>6
  <2>1. s \in SUBSET S /\ Cardinality(s) <= m
    BY DEF SubsetsUpTo
  <2> QED BY <1>3, <2>1, SmallerSubset DEF SubsetsUpTo
<1>7. SumRecurrenceUpTo(g, f, S, m)
  <2>1. ASSUME NEW s \in SubsetsUpTo(S, m)
        PROVE  g[s] = IF s = {} THEN 0
                      ELSE f[CHOOSE x \in s : TRUE] + g[s \ {CHOOSE x \in s : TRUE}]
    <3>1. CASE s = {}
      BY <3>1
    <3>2. CASE s # {}
      <4>1. g[s] = f[CHOOSE x \in s : TRUE] + h[s \ {CHOOSE x \in s : TRUE}]
        BY <3>2
      <4> HIDE DEF g
      <4> QED BY <1>5, <1>6, <3>2, <4>1
    <3> QED BY <3>1, <3>2
  <2>2. g = [s \in SubsetsUpTo(S, m) |-> g[s]]
    OBVIOUS
  <2> HIDE DEF g
  <2> QED BY <2>1, <2>2 DEF SumRecurrenceUpTo
<1> QED BY <1>7

\* The recurrence has a solution.
LEMMA SumRecurrenceExists ==
  ASSUME NEW f, NEW S, IsFiniteSet(S)
  PROVE  \E g : SumRecurrence(g, f, S)
<1>1. Cardinality(S) \in Nat
  BY FS_CardinalityType
<1>2. PICK g : SumRecurrenceUpTo(g, f, S, Cardinality(S))
  BY <1>1, SumRecurrenceUpToExists
<1>3. SubsetsUpTo(S, Cardinality(S)) = SUBSET S
  BY FS_Subset DEF SubsetsUpTo
<1> QED BY <1>2, <1>3, ZenonT(40) DEF SumRecurrenceUpTo, SumRecurrence

\* What the recurrence says of one subset.
LEMMA SumUnfold ==
  ASSUME NEW f, NEW S, NEW g, SumRecurrence(g, f, S)
  PROVE  /\ g[{}] = 0
         /\ \A s \in SUBSET S : s # {} =>
              \E x \in s : x = (CHOOSE y \in s : TRUE) /\ g[s] = f[x] + g[s \ {x}]
<1>1. \A s \in SUBSET S : g[s] = IF s = {} THEN 0
        ELSE f[CHOOSE x \in s : TRUE] + g[s \ {CHOOSE x \in s : TRUE}]
  BY DEF SumRecurrence
<1>2. \A s : s # {} => (CHOOSE x \in s : TRUE) \in s
  OBVIOUS
<1> QED BY <1>1, <1>2

\* Sums of naturals are naturals.
LEMMA SumRecurrenceNat ==
  ASSUME NEW f, NEW S, IsFiniteSet(S), \A x \in S : f[x] \in Nat,
         NEW g, SumRecurrence(g, f, S)
  PROVE  \A s \in SUBSET S : g[s] \in Nat
<1> DEFINE Bad == {k \in Nat : \E s \in SUBSET S : Cardinality(s) = k /\ g[s] \notin Nat}
<1>1. Bad = {}
  <2> SUFFICES ASSUME Bad # {} PROVE FALSE
    OBVIOUS
  <2>1. PICK m \in Bad : \A j \in Bad : m <= j
    BY NatMinimum
  <2>2. PICK s \in SUBSET S : Cardinality(s) = m /\ g[s] \notin Nat
    BY <2>1
  <2>3. s # {}
    <3>1. g[{}] = 0
      BY SumUnfold
    <3> QED BY <2>2, <3>1
  <2>4. PICK x \in s : g[s] = f[x] + g[s \ {x}]
    BY <2>3, SumUnfold
  <2>5. s \ {x} \in SUBSET S /\ Cardinality(s \ {x}) \in Nat /\ ~(m <= Cardinality(s \ {x}))
    BY <2>2, SmallerSubset
  <2>6. g[s \ {x}] \in Nat
    BY <2>1, <2>5
  <2> QED BY <2>2, <2>4, <2>6
<1> QED BY <1>1, FS_Subset, FS_CardinalityType

\* Any element may be taken off first.
LEMMA SumRecurrenceRemove ==
  ASSUME NEW f, NEW S, IsFiniteSet(S), \A x \in S : f[x] \in Nat,
         NEW g, SumRecurrence(g, f, S)
  PROVE  \A s \in SUBSET S : \A x \in s : g[s] = f[x] + g[s \ {x}]
<1> DEFINE Bad == {k \in Nat : \E s \in SUBSET S :
                     Cardinality(s) = k /\ \E x \in s : g[s] # f[x] + g[s \ {x}]}
<1>1. Bad = {}
  <2> SUFFICES ASSUME Bad # {} PROVE FALSE
    OBVIOUS
  <2>1. PICK m \in Bad : \A j \in Bad : m <= j
    BY NatMinimum
  <2>2. PICK s \in SUBSET S : Cardinality(s) = m /\ \E x \in s : g[s] # f[x] + g[s \ {x}]
    BY <2>1
  <2>3. PICK x \in s : g[s] # f[x] + g[s \ {x}]
    BY <2>2
  <2>4. PICK c \in s : g[s] = f[c] + g[s \ {c}]
    BY SumUnfold
  <2>5. c # x
    BY <2>3, <2>4
  <2>6. \A y \in s : /\ s \ {y} \in SUBSET S /\ Cardinality(s \ {y}) \in Nat
                     /\ ~(m <= Cardinality(s \ {y}))
    BY <2>2, SmallerSubset
  <2>7. g[s \ {c}] = f[x] + g[(s \ {c}) \ {x}]
    BY <2>1, <2>5, <2>6
  <2>8. g[s \ {x}] = f[c] + g[(s \ {x}) \ {c}]
    BY <2>1, <2>5, <2>6
  <2>9. (s \ {c}) \ {x} = (s \ {x}) \ {c}
    OBVIOUS
  <2>10. f[x] \in Nat /\ f[c] \in Nat /\ g[(s \ {c}) \ {x}] \in Nat
    <3>1. (s \ {c}) \ {x} \in SUBSET S
      OBVIOUS
    <3> QED BY <3>1, SumRecurrenceNat
  <2> DEFINE r == g[(s \ {c}) \ {x}]
  <2>11. g[s \ {c}] = f[x] + r /\ g[s \ {x}] = f[c] + r /\ r \in Nat
    BY <2>7, <2>8, <2>9, <2>10
  <2> HIDE DEF r
  <2>12. g[s] = f[x] + g[s \ {x}]
    BY <2>4, <2>10, <2>11
  <2> QED BY <2>3, <2>12
<1> QED BY <1>1, FS_Subset, FS_CardinalityType

\* Functions that agree have the same sums.
LEMMA SumRecurrenceAgree ==
  ASSUME NEW f, NEW S, NEW g, SumRecurrence(g, f, S),
         NEW e, NEW T, NEW h, SumRecurrence(h, e, T),
         NEW A, IsFiniteSet(A), A \subseteq S, A \subseteq T, \A x \in A : f[x] = e[x]
  PROVE  g[A] = h[A]
<1> DEFINE Bad == {k \in Nat : \E s \in SUBSET A : Cardinality(s) = k /\ g[s] # h[s]}
<1>1. Bad = {}
  <2> SUFFICES ASSUME Bad # {} PROVE FALSE
    OBVIOUS
  <2>1. PICK m \in Bad : \A j \in Bad : m <= j
    BY NatMinimum
  <2>2. PICK s \in SUBSET A : Cardinality(s) = m /\ g[s] # h[s]
    BY <2>1
  <2>3. s # {}
    <3>1. g[{}] = 0 /\ h[{}] = 0
      BY SumUnfold
    <3> QED BY <2>2, <3>1
  <2>4. PICK x \in s : x = (CHOOSE y \in s : TRUE) /\ g[s] = f[x] + g[s \ {x}]
    <3>1. s \in SUBSET S
      OBVIOUS
    <3> QED BY <2>3, <3>1, SumUnfold
  <2>5. PICK z \in s : z = (CHOOSE y \in s : TRUE) /\ h[s] = e[z] + h[s \ {z}]
    <3>1. s \in SUBSET T
      OBVIOUS
    <3> QED BY <2>3, <3>1, SumUnfold
  <2>6. s \ {x} \in SUBSET A /\ Cardinality(s \ {x}) \in Nat /\ ~(m <= Cardinality(s \ {x}))
    BY <2>2, SmallerSubset
  <2>7. g[s \ {x}] = h[s \ {x}]
    BY <2>1, <2>6
  <2> QED BY <2>2, <2>4, <2>5, <2>7
<1> QED BY <1>1, FS_CardinalityType

\* The sum of f over S.
SumOver(f, S) == MapThenSumSet(LAMBDA x : f[x], S)

\* It is what the recurrence gives.
LEMMA SumOverDef ==
  ASSUME NEW f, NEW S, IsFiniteSet(S)
  PROVE  \E g : SumRecurrence(g, f, S) /\ SumOver(f, S) = g[S]
<1> DEFINE iter == CHOOSE g :
             g = [s \in SUBSET S |->
                    IF s = {} THEN 0
                    ELSE f[CHOOSE x \in s : TRUE] + g[s \ {CHOOSE x \in s : TRUE}]]
<1>1. SumOver(f, S) = iter[S]
  BY DEF SumOver, MapThenSumSet, MapThenFoldSet
<1>2. SumRecurrence(iter, f, S)
  <2>1. \E g : SumRecurrence(g, f, S)
    BY SumRecurrenceExists
  <2> QED BY <2>1 DEF SumRecurrence
<1> HIDE DEF iter
<1> QED BY <1>1, <1>2

\* The sum over nothing is 0.
LEMMA SumEmpty == ASSUME NEW f PROVE SumOver(f, {}) = 0
  BY SumOverDef, SumUnfold, FS_EmptySet

\* The sum depends on the values on the set only.
LEMMA SumAgree ==
  ASSUME NEW f, NEW e, NEW S, IsFiniteSet(S), \A x \in S : f[x] = e[x]
  PROVE  SumOver(f, S) = SumOver(e, S)
<1>1. PICK g : SumRecurrence(g, f, S) /\ SumOver(f, S) = g[S]
  BY SumOverDef
<1>2. PICK h : SumRecurrence(h, e, S) /\ SumOver(e, S) = h[S]
  BY SumOverDef
<1> QED BY <1>1, <1>2, SumRecurrenceAgree

\* The sum of naturals is a natural.
LEMMA SumNat ==
  ASSUME NEW f, NEW S, IsFiniteSet(S), \A x \in S : f[x] \in Nat
  PROVE  SumOver(f, S) \in Nat
  BY SumOverDef, SumRecurrenceNat

\* An element contributes its value.
LEMMA SumRemove ==
  ASSUME NEW f, NEW S, IsFiniteSet(S), \A x \in S : f[x] \in Nat, NEW x \in S
  PROVE  SumOver(f, S) = f[x] + SumOver(f, S \ {x})
<1>1. PICK g : SumRecurrence(g, f, S) /\ SumOver(f, S) = g[S]
  BY SumOverDef
<1>2. IsFiniteSet(S \ {x})
  BY FS_RemoveElement
<1>3. PICK h : SumRecurrence(h, f, S \ {x}) /\ SumOver(f, S \ {x}) = h[S \ {x}]
  BY <1>2, SumOverDef
<1>4. g[S] = f[x] + g[S \ {x}]
  BY <1>1, SumRecurrenceRemove
<1>5. g[S \ {x}] = h[S \ {x}]
  BY <1>1, <1>2, <1>3, SumRecurrenceAgree
<1> QED BY <1>1, <1>3, <1>4, <1>5

\* A new element adds its value.
LEMMA SumAdd ==
  ASSUME NEW f, NEW S, IsFiniteSet(S), \A x \in S : f[x] \in Nat,
         NEW y, y \notin S, f[y] \in Nat
  PROVE  SumOver(f, S \cup {y}) = SumOver(f, S) + f[y]
<1> DEFINE T == S \cup {y}
<1>1. IsFiniteSet(T) /\ T \ {y} = S /\ y \in T /\ \A x \in T : f[x] \in Nat
  BY FS_AddElement
<1> HIDE DEF T
<1>2. SumOver(f, T) = f[y] + SumOver(f, S)
  BY <1>1, SumRemove
<1>3. SumOver(f, S) \in Nat
  BY SumNat
<1> QED BY <1>2, <1>3 DEF T

\* Sums over disjoint sets add up.
LEMMA SumUnion ==
  ASSUME NEW f, NEW A, NEW B, IsFiniteSet(A), IsFiniteSet(B), A \cap B = {},
         \A x \in A \cup B : f[x] \in Nat
  PROVE  SumOver(f, A \cup B) = SumOver(f, A) + SumOver(f, B)
<1> DEFINE Wrong(s) == SumOver(f, A \cup s) # SumOver(f, A) + SumOver(f, s)
           Bad == {k \in Nat : \E s \in SUBSET B : Cardinality(s) = k /\ Wrong(s)}
<1>1. Bad = {}
  <2> SUFFICES ASSUME Bad # {} PROVE FALSE
    OBVIOUS
  <2>1. PICK m \in Bad : \A j \in Bad : m <= j
    BY NatMinimum
  <2>2. PICK s \in SUBSET B : Cardinality(s) = m /\ Wrong(s)
    BY <2>1
  <2>3. \A t \in SUBSET B : /\ IsFiniteSet(t) /\ IsFiniteSet(A \cup t)
                            /\ SumOver(f, t) \in Nat /\ SumOver(f, A) \in Nat
                            /\ SumOver(f, A \cup t) \in Nat
    <3> SUFFICES ASSUME NEW t \in SUBSET B
        PROVE /\ IsFiniteSet(t) /\ IsFiniteSet(A \cup t)
              /\ SumOver(f, t) \in Nat /\ SumOver(f, A) \in Nat
              /\ SumOver(f, A \cup t) \in Nat
      OBVIOUS
    <3>1. IsFiniteSet(t) /\ IsFiniteSet(A \cup t)
      BY FS_Subset, FS_Union
    <3> QED BY <3>1, SumNat
  <2>4. s # {}
    <3>1. A \cup {} = A /\ SumOver(f, {}) = 0 /\ SumOver(f, A) \in Nat
      BY SumEmpty, SumNat
    <3> QED BY <2>2, <3>1
  <2>5. PICK x \in s : TRUE
    BY <2>4
  <2> DEFINE r == s \ {x}
  <2>6. r \in SUBSET B /\ Cardinality(r) \in Nat /\ ~(m <= Cardinality(r))
    BY <2>2, SmallerSubset
  <2>7. ~Wrong(r)
    BY <2>1, <2>6
  <2>8. SumOver(f, s) = f[x] + SumOver(f, r)
    <3>1. IsFiniteSet(s) /\ \A y \in s : f[y] \in Nat
      BY <2>3
    <3> QED BY <3>1, SumRemove
  <2>9. SumOver(f, A \cup s) = f[x] + SumOver(f, A \cup r)
    <3>1. /\ (A \cup s) \ {x} = A \cup r /\ x \in A \cup s
          /\ \A y \in A \cup s : f[y] \in Nat
      OBVIOUS
    <3>2. SumOver(f, A \cup s) = f[x] + SumOver(f, (A \cup s) \ {x})
      <4>1. IsFiniteSet(A \cup s)
        BY <2>3
      <4> QED BY <3>1, <4>1, SumRemove
    <3> QED BY <3>1, <3>2
  <2>10. f[x] \in Nat
    OBVIOUS
  <2> HIDE DEF r
  <2>11. SumOver(f, A \cup s) = SumOver(f, A) + SumOver(f, s)
    <3>1. SumOver(f, A \cup r) = SumOver(f, A) + SumOver(f, r)
      BY <2>7
    <3>2. SumOver(f, A) \in Nat /\ SumOver(f, r) \in Nat
      BY <2>3, <2>6
    <3> HIDE DEF Wrong
    <3> QED BY <2>8, <2>9, <2>10, <3>1, <3>2
  <2> QED BY <2>2, <2>11
<1> HIDE DEF Wrong
<1>2. Cardinality(B) \in Nat /\ B \in SUBSET B
  BY FS_CardinalityType
<1>3. ~Wrong(B)
  BY <1>1, <1>2
<1> QED BY <1>3 DEF Wrong

\* Renaming the elements changes nothing.
LEMMA SumImage ==
  ASSUME NEW S, IsFiniteSet(S), NEW m, NEW f,
         \A x, y \in S : m[x] = m[y] => x = y,
         \A x \in S : f[m[x]] \in Nat
  PROVE  SumOver([x \in S |-> f[m[x]]], S) = SumOver(f, {m[x] : x \in S})
<1> DEFINE e == [x \in S |-> f[m[x]]]
           Image(s) == {m[x] : x \in s}
           Wrong(s) == SumOver(e, s) # SumOver(f, Image(s))
           Bad == {k \in Nat : \E s \in SUBSET S : Cardinality(s) = k /\ Wrong(s)}
<1>1. Bad = {}
  <2> SUFFICES ASSUME Bad # {} PROVE FALSE
    OBVIOUS
  <2>1. PICK k \in Bad : \A j \in Bad : k <= j
    BY NatMinimum
  <2>2. PICK s \in SUBSET S : Cardinality(s) = k /\ Wrong(s)
    BY <2>1
  <2>3. s # {}
    <3>1. SumOver(e, {}) = 0 /\ SumOver(f, {}) = 0
      BY SumEmpty
    <3>2. Image({}) = {}
      OBVIOUS
    <3> QED BY <2>2, <3>1, <3>2
  <2>4. PICK x \in s : TRUE
    BY <2>3
  <2> DEFINE r == s \ {x}
  <2>5. r \in SUBSET S /\ Cardinality(r) \in Nat /\ ~(k <= Cardinality(r))
    BY <2>2, SmallerSubset
  <2>6. ~Wrong(r)
    BY <2>1, <2>5
  <2>7. SumOver(e, s) = f[m[x]] + SumOver(e, r)
    <3>1. IsFiniteSet(s)
      BY FS_Subset
    <3>2. \A y \in s : e[y] \in Nat
      OBVIOUS
    <3>3. e[x] = f[m[x]]
      OBVIOUS
    <3> HIDE DEF e
    <3> QED BY <3>1, <3>2, <3>3, SumRemove
  <2>8. SumOver(f, Image(s)) = f[m[x]] + SumOver(f, Image(r))
    <3>1. IsFiniteSet(Image(s))
      <4>1. IsFiniteSet(s)
        BY FS_Subset
      <4>2. [y \in s |-> m[y]] \in [s -> Image(s)] /\ Image(s) = {[y \in s |-> m[y]][z] : z \in s}
        OBVIOUS
      <4>3. [y \in s |-> m[y]] \in Surjection(s, Image(s))
        BY <4>2 DEF Surjection
      <4> QED BY <4>1, <4>3, FS_Surjection
    <3>2. Image(s) \ {m[x]} = Image(r) /\ m[x] \in Image(s)
      OBVIOUS
    <3>3. \A y \in Image(s) : f[y] \in Nat
      OBVIOUS
    <3> SUFFICES ASSUME NEW A, A = Image(s), NEW B, B = Image(r), NEW y, y = m[x]
        PROVE SumOver(f, A) = f[y] + SumOver(f, B)
      OBVIOUS
    <3>4. IsFiniteSet(A) /\ A \ {y} = B /\ y \in A /\ \A z \in A : f[z] \in Nat
      BY <3>1, <3>2, <3>3
    <3> HIDE DEF Image
    <3>5. SumOver(f, A) = f[y] + SumOver(f, A \ {y})
      BY <3>4, SumRemove
    <3> QED BY <3>4, <3>5
  <2> HIDE DEF r
  <2>9. ~Wrong(s)
    BY <2>6, <2>7, <2>8
  <2> QED BY <2>2, <2>9
<1> HIDE DEF Wrong
<1>2. Cardinality(S) \in Nat /\ S \in SUBSET S
  BY FS_CardinalityType
<1>3. ~Wrong(S)
  BY <1>1, <1>2
<1> QED BY <1>3 DEF Wrong

-----------------------------------------------------------------------------
(* Totals of outputs *)

\* The total of a set of unspent outputs is the sum of their amounts.
LEMMA TotalIsSum ==
  ASSUME NEW S, IsFiniteSet(S)
  PROVE  getTotalFromOutputVector(S) = SumOver([u \in S |-> u.amount], S)
<1> DEFINE f == [u \in S |-> u.amount]
           iter == CHOOSE g :
             g = [s \in SUBSET S |->
                    IF s = {} THEN 0
                    ELSE (CHOOSE x \in s : TRUE).amount + g[s \ {CHOOSE x \in s : TRUE}]]
<1>1. getTotalFromOutputVector(S) = iter[S]
  BY DEF getTotalFromOutputVector, MapThenSumSet, MapThenFoldSet
<1>2. ASSUME NEW g
      PROVE  SumRecurrence(g, f, S)
               <=> g = [s \in SUBSET S |->
                          IF s = {} THEN 0
                          ELSE (CHOOSE x \in s : TRUE).amount
                                 + g[s \ {CHOOSE x \in s : TRUE}]]
  <2>1. \A s \in SUBSET S : s # {} =>
          f[CHOOSE x \in s : TRUE] = (CHOOSE x \in s : TRUE).amount
    OBVIOUS
  <2> QED BY <2>1 DEF SumRecurrence
<1>3. SumRecurrence(iter, f, S)
  <2>1. \E g : SumRecurrence(g, f, S)
    BY SumRecurrenceExists
  <2> QED BY <1>2, <2>1, ZenonT(40)
<1> HIDE DEF iter, f
<1>4. PICK g : SumRecurrence(g, f, S) /\ SumOver(f, S) = g[S]
  BY SumOverDef
<1>5. g[S] = iter[S]
  BY <1>3, <1>4, SumRecurrenceAgree
<1> QED BY <1>1, <1>4, <1>5 DEF f

\* The total of a list of outputs is the sum of their amounts.
LEMMA TotalOfTransOutsIsSum ==
  ASSUME NEW outs, IsFiniteSet(DOMAIN outs)
  PROVE  TotalOfTransOuts(outs) = SumOver([i \in DOMAIN outs |-> outs[i].amount], DOMAIN outs)
<1> DEFINE S == DOMAIN outs
           f == [i \in S |-> outs[i].amount]
           iter == CHOOSE g :
             g = [s \in SUBSET S |->
                    IF s = {} THEN 0
                    ELSE outs[CHOOSE x \in s : TRUE].amount
                           + g[s \ {CHOOSE x \in s : TRUE}]]
<1>1. TotalOfTransOuts(outs) = iter[S]
  BY DEF TotalOfTransOuts, MapThenSumSet, MapThenFoldSet
<1>2. ASSUME NEW g
      PROVE  SumRecurrence(g, f, S)
               <=> g = [s \in SUBSET S |->
                          IF s = {} THEN 0
                          ELSE outs[CHOOSE x \in s : TRUE].amount
                                 + g[s \ {CHOOSE x \in s : TRUE}]]
  <2> HIDE DEF S
  <2>1. \A s \in SUBSET S : s # {} =>
          f[CHOOSE x \in s : TRUE] = outs[CHOOSE x \in s : TRUE].amount
    OBVIOUS
  <2> QED BY <2>1 DEF SumRecurrence
<1>3. SumRecurrence(iter, f, S)
  <2>1. \E g : SumRecurrence(g, f, S)
    BY SumRecurrenceExists
  <2> HIDE DEF S
  <2> QED BY <1>2, <2>1, ZenonT(40)
<1> HIDE DEF iter, f
<1>4. PICK g : SumRecurrence(g, f, S) /\ SumOver(f, S) = g[S]
  BY SumOverDef
<1>5. g[S] = iter[S]
  BY <1>3, <1>4, SumRecurrenceAgree
<1> QED BY <1>1, <1>4, <1>5 DEF f

\* Nothing is worth nothing.
LEMMA TotalEmpty == getTotalFromOutputVector({}) = 0
  BY TotalIsSum, SumEmpty, FS_EmptySet

\* Outputs of natural amounts.
HaveAmounts(us) == \A u \in us : u.amount \in Nat

\* The total of such outputs is a natural.
LEMMA TotalNat ==
  ASSUME NEW S, IsFiniteSet(S), HaveAmounts(S)
  PROVE  getTotalFromOutputVector(S) \in Nat
  BY TotalIsSum, SumNat DEF HaveAmounts

\* Totals of disjoint sets add up.
LEMMA TotalUnion ==
  ASSUME NEW A, NEW B, IsFiniteSet(A), IsFiniteSet(B), A \cap B = {},
         HaveAmounts(A), HaveAmounts(B)
  PROVE  getTotalFromOutputVector(A \cup B)
           = getTotalFromOutputVector(A) + getTotalFromOutputVector(B)
<1> DEFINE f == [u \in A \cup B |-> u.amount]
<1>1. \A x \in A \cup B : f[x] \in Nat
  BY DEF HaveAmounts
<1>2. IsFiniteSet(A \cup B)
  BY FS_Union
<1>3. SumOver([u \in A |-> u.amount], A) = SumOver(f, A)
  <2>1. \A x \in A : [u \in A |-> u.amount][x] = f[x]
    OBVIOUS
  <2> QED BY <2>1, SumAgree
<1>4. SumOver([u \in B |-> u.amount], B) = SumOver(f, B)
  <2>1. \A x \in B : [u \in B |-> u.amount][x] = f[x]
    OBVIOUS
  <2> QED BY <2>1, SumAgree
<1>5. getTotalFromOutputVector(A \cup B) = SumOver(f, A \cup B)
  BY <1>2, TotalIsSum
<1> HIDE DEF f
<1>6. SumOver(f, A \cup B) = SumOver(f, A) + SumOver(f, B)
  BY <1>1, SumUnion
<1> QED BY <1>3, <1>4, <1>5, <1>6, TotalIsSum

\* What a transaction creates is worth the total of its outputs.
LEMMA TotalCreated ==
  ASSUME NEW id, NEW outs, IsSeq(outs), \A k \in DOMAIN outs : outs[k].amount \in Nat,
         NEW S, S = {UnspentTransOut(id, k - 1, outs[k]) : k \in DOMAIN outs}
  PROVE  /\ IsFiniteSet(S) /\ HaveAmounts(S)
         /\ getTotalFromOutputVector(S) = TotalOfTransOuts(outs)
<1> DEFINE D == DOMAIN outs
           m == [k \in D |-> UnspentTransOut(id, k - 1, outs[k])]
           f == [u \in S |-> u.amount]
<1>1. D = 1..Len(outs) /\ Len(outs) \in Nat
  BY IsSeqShape
<1>2. IsFiniteSet(D)
  BY <1>1, FS_Interval
<1>3. S = {m[k] : k \in D}
  OBVIOUS
<1>4. IsFiniteSet(S)
  <2>1. m \in Surjection(D, S)
    BY DEF Surjection
  <2> QED BY <1>2, <2>1, FS_Surjection
<1>5. \A k \in D : m[k].transOutIndex = k - 1 /\ m[k].amount = outs[k].amount
  BY DEF UnspentTransOut
<1>6. \A x, y \in D : m[x] = m[y] => x = y
  <2> SUFFICES ASSUME NEW x \in D, NEW y \in D, m[x] = m[y] PROVE x = y
    OBVIOUS
  <2>1. x - 1 = y - 1
    BY <1>5
  <2>2. x \in Int /\ y \in Int
    BY <1>1
  <2> QED BY <2>1, <2>2
<1>7. \A k \in D : f[m[k]] = outs[k].amount
  BY <1>5
<1>8. HaveAmounts(S)
  BY <1>3, <1>5 DEF HaveAmounts
<1> HIDE DEF m, f, D
<1>9. SumOver([k \in D |-> f[m[k]]], D) = SumOver(f, S)
  <2>1. \A k \in D : f[m[k]] \in Nat
    BY <1>7 DEF D
  <2>2. SumOver([k \in D |-> f[m[k]]], D) = SumOver(f, {m[k] : k \in D})
    BY <1>2, <1>6, <2>1, SumImage
  <2> QED BY <1>3, <2>2
<1>10. SumOver([k \in D |-> f[m[k]]], D) = SumOver([k \in D |-> outs[k].amount], D)
  <2>1. \A k \in D : [i \in D |-> f[m[i]]][k] = [i \in D |-> outs[i].amount][k]
    BY <1>7
  <2> QED BY <1>2, <2>1, SumAgree
<1>11. SumOver([k \in D |-> outs[k].amount], D) = TotalOfTransOuts(outs)
  BY <1>2, TotalOfTransOutsIsSum DEF D
<1>12. getTotalFromOutputVector(S) = SumOver(f, S)
  BY <1>4, TotalIsSum DEF f
<1> QED BY <1>4, <1>8, <1>9, <1>10, <1>11, <1>12

\* The total of a list grows by what is appended.
LEMMA TotalOfTransOutsAppend ==
  ASSUME NEW outs, IsSeq(outs), \A k \in DOMAIN outs : outs[k].amount \in Nat,
         NEW o, o.amount \in Nat
  PROVE  /\ TotalOfTransOuts(outs) \in Nat
         /\ TotalOfTransOuts(Append(outs, o)) = TotalOfTransOuts(outs) + o.amount
<1> SUFFICES ASSUME NEW more, more = Append(outs, o)
    PROVE /\ TotalOfTransOuts(outs) \in Nat
          /\ TotalOfTransOuts(more) = TotalOfTransOuts(outs) + o.amount
  OBVIOUS
<1> DEFINE D == DOMAIN outs
           n == Len(outs) + 1
           f == [i \in DOMAIN more |-> more[i].amount]
           e == [i \in D |-> outs[i].amount]
<1>1. /\ IsSeq(more) /\ Len(more) = n /\ more[n] = o
      /\ \A i \in 1..Len(outs) : more[i] = outs[i]
  BY IsSeqAppend
<1>2. /\ D = 1..Len(outs) /\ Len(outs) \in Nat /\ DOMAIN more = 1..n
      /\ n \notin D /\ D \cup {n} = 1..n
  BY <1>1, IsSeqShape
<1>3. IsFiniteSet(D) /\ IsFiniteSet(1..n)
  BY <1>2, FS_Interval
<1>4. (\A i \in D : f[i] = e[i] /\ f[i] \in Nat) /\ f[n] = o.amount
  BY <1>1, <1>2
<1>5. TotalOfTransOuts(outs) = SumOver(e, D)
  BY <1>3, TotalOfTransOutsIsSum
<1>6. TotalOfTransOuts(more) = SumOver(f, 1..n)
  BY <1>2, <1>3, TotalOfTransOutsIsSum
<1> HIDE DEF f, e, D, n
<1>7. SumOver(f, D \cup {n}) = SumOver(f, D) + f[n]
  BY <1>2, <1>3, <1>4, SumAdd
<1>8. SumOver(f, D) = SumOver(e, D)
  BY <1>3, <1>4, SumAgree
<1>9. SumOver(e, D) \in Nat
  BY <1>3, <1>4, SumNat
<1> QED BY <1>2, <1>4, <1>5, <1>6, <1>7, <1>8, <1>9

\* The total of one output.
LEMMA TotalOfOneOutput ==
  ASSUME NEW o, o.amount \in Nat
  PROVE  TotalOfTransOuts(<<o>>) = o.amount
<1> SUFFICES ASSUME NEW outs, outs = <<o>> PROVE TotalOfTransOuts(outs) = o.amount
  OBVIOUS
<1> DEFINE f == [i \in DOMAIN outs |-> outs[i].amount]
<1>1. DOMAIN outs = {} \cup {1} /\ outs[1] = o
  <2>1. DOMAIN outs = 1..1 /\ outs[1] = o
    BY IsSeqSingleton
  <2> QED BY <2>1
<1>2. f[1] = o.amount
  BY <1>1
<1>3. IsFiniteSet({}) /\ IsFiniteSet({1}) /\ {} \cup {1} = {1}
  BY FS_EmptySet, FS_Singleton
<1>4. TotalOfTransOuts(outs) = SumOver(f, {} \cup {1})
  BY <1>1, <1>3, TotalOfTransOutsIsSum
<1> HIDE DEF f
<1>5. SumOver(f, {} \cup {1}) = SumOver(f, {}) + f[1]
  BY <1>2, <1>3, SumAdd
<1> QED BY <1>2, <1>4, <1>5, SumEmpty

-----------------------------------------------------------------------------
(* The replay of a chain *)

\* The recurrence that defines UtxoAfter, up to block k.
UtxoRecurrence(c, k, f) ==
  f = [i \in 0..k |-> IF i = 0 THEN {}
                      ELSE updateUnspentTransOuts(c[i].data, f[i - 1])]

\* The recurrence has a solution for every length.
LEMMA UtxoRecurrenceExists ==
  ASSUME NEW c, NEW k \in Nat
  PROVE  \E f : UtxoRecurrence(c, k, f)
<1> DEFINE Bad == {j \in Nat : ~ \E f : UtxoRecurrence(c, j, f)}
<1> SUFFICES ASSUME Bad # {} PROVE FALSE
  OBVIOUS
<1>1. PICK m \in Bad : \A j \in Bad : m <= j
  BY NatMinimum
<1>2. m # 0
  <2>1. UtxoRecurrence(c, 0, [i \in 0..0 |-> {}])
    BY DEF UtxoRecurrence
  <2> QED BY <2>1
<1>3. PICK f : UtxoRecurrence(c, m - 1, f)
  BY <1>1, <1>2
<1> DEFINE g == [i \in 0..m |-> IF i = m
                                THEN updateUnspentTransOuts(c[m].data, f[m - 1])
                                ELSE f[i]]
<1>4. UtxoRecurrence(c, m, g)
  <2> SUFFICES ASSUME NEW i \in 0..m
      PROVE g[i] = IF i = 0 THEN {} ELSE updateUnspentTransOuts(c[i].data, g[i - 1])
    BY DEF UtxoRecurrence
  <2>0. m \in Nat /\ m - 1 \in Nat
    BY <1>2
  <2>1. CASE i = m
    <3>1. g[m] = updateUnspentTransOuts(c[m].data, f[m - 1])
      BY <2>0
    <3>2. g[m - 1] = f[m - 1]
      BY <2>0
    <3> QED BY <3>1, <3>2, <2>1, <1>2
  <2>2. CASE i # m
    <3>1. i \in 0..(m - 1)
      BY <2>0, <2>2
    <3>2. f[i] = IF i = 0 THEN {} ELSE updateUnspentTransOuts(c[i].data, f[i - 1])
      BY <1>3, <3>1 DEF UtxoRecurrence
    <3>3. g[i] = f[i] /\ (i # 0 => g[i - 1] = f[i - 1])
      BY <3>1, <2>0
    <3> QED BY <3>2, <3>3
  <2> QED BY <2>1, <2>2
<1> QED BY <1>4

\* UtxoAfter starts from nothing and applies one block after the other.
LEMMA UtxoAfterDef ==
  ASSUME NEW c, IsSeq(c)
  PROVE  /\ UtxoAfter(c)[0] = {}
         /\ \A i \in 1..Len(c) :
              UtxoAfter(c)[i] = updateUnspentTransOuts(c[i].data, UtxoAfter(c)[i - 1])
<1>1. Len(c) \in Nat
  BY IsSeqShape
<1>2. UtxoRecurrence(c, Len(c), UtxoAfter(c))
  BY <1>1, UtxoRecurrenceExists, ZenonT(40) DEF UtxoAfter, UtxoRecurrence
<1>3. \A i \in 0..Len(c) :
        UtxoAfter(c)[i] = IF i = 0 THEN {}
                          ELSE updateUnspentTransOuts(c[i].data, UtxoAfter(c)[i - 1])
  BY <1>2 DEF UtxoRecurrence
<1> QED BY <1>1, <1>3

\* The replay of a prefix is a prefix of the replay.
LEMMA UtxoAfterPrefix ==
  ASSUME NEW c, NEW d, IsSeq(c), IsSeq(d), Len(c) <= Len(d),
         \A i \in 1..Len(c) : c[i] = d[i]
  PROVE  \A i \in 0..Len(c) : UtxoAfter(c)[i] = UtxoAfter(d)[i]
<1> DEFINE Bad == {j \in 0..Len(c) : UtxoAfter(c)[j] # UtxoAfter(d)[j]}
<1>0. Len(c) \in Nat /\ Len(d) \in Nat
  BY IsSeqShape
<1> SUFFICES ASSUME Bad # {} PROVE FALSE
  OBVIOUS
<1>1. PICK m \in Bad : \A j \in Bad : m <= j
  <2>1. Bad \in SUBSET Nat
    BY <1>0
  <2> HIDE DEF Bad
  <2> QED BY <2>1, NatMinimum
<1>2. m # 0
  BY UtxoAfterDef
<1>3. m \in 1..Len(c) /\ m \in 1..Len(d) /\ m - 1 \in 0..Len(c)
  BY <1>0, <1>2
<1>4. UtxoAfter(c)[m - 1] = UtxoAfter(d)[m - 1]
  BY <1>1, <1>3
<1>5. UtxoAfter(c)[m] = UtxoAfter(d)[m]
  BY <1>3, <1>4, UtxoAfterDef, SMTT(40)
<1> QED BY <1>5

\* Appending a block applies it to the replay so far.
LEMMA UtxoAfterAppend ==
  ASSUME NEW c, IsSeq(c), NEW b
  PROVE  UtxoAfter(Append(c, b))[Len(c) + 1]
           = updateUnspentTransOuts(b.data, UtxoAfter(c)[Len(c)])
<1> SUFFICES ASSUME NEW d, d = Append(c, b)
    PROVE UtxoAfter(d)[Len(c) + 1] = updateUnspentTransOuts(b.data, UtxoAfter(c)[Len(c)])
  OBVIOUS
<1>1. /\ IsSeq(d)
      /\ Len(d) = Len(c) + 1
      /\ \A i \in 1..Len(c) : d[i] = c[i]
      /\ d[Len(c) + 1] = b
  BY IsSeqAppend
<1>2. Len(c) \in Nat
  BY IsSeqShape
<1>3. UtxoAfter(c)[Len(c)] = UtxoAfter(d)[Len(c)]
  <2>1. Len(c) <= Len(d) /\ Len(c) \in 0..Len(c)
    BY <1>1, <1>2
  <2> QED BY <1>1, <2>1, UtxoAfterPrefix
<1>4. \A i \in 1..Len(d) :
        UtxoAfter(d)[i] = updateUnspentTransOuts(d[i].data, UtxoAfter(d)[i - 1])
  BY <1>1, UtxoAfterDef
<1>5. Len(c) + 1 \in 1..Len(d) /\ Len(c) + 1 - 1 = Len(c)
  BY <1>1, <1>2
<1> QED BY <1>1, <1>3, <1>4, <1>5

\* The replay of a chain of one block.
LEMMA UtxoAfterSingleton ==
  ASSUME NEW b
  PROVE  UtxoAfter(<<b>>)[1] = updateUnspentTransOuts(b.data, {})
<1> SUFFICES ASSUME NEW d, d = <<b>>
    PROVE UtxoAfter(d)[1] = updateUnspentTransOuts(b.data, {})
  OBVIOUS
<1>1. IsSeq(d) /\ Len(d) = 1 /\ d[1] = b
  BY IsSeqSingleton
<1>2. /\ UtxoAfter(d)[0] = {}
      /\ UtxoAfter(d)[1] = updateUnspentTransOuts(d[1].data, UtxoAfter(d)[1 - 1])
  BY <1>1, UtxoAfterDef
<1>3. 1 - 1 = 0
  OBVIOUS
<1> QED BY <1>1, <1>2, <1>3

-----------------------------------------------------------------------------
(* Linked chains *)

\* In a linked chain the index of a block is its position.
LEMMA LinkedIndex ==
  ASSUME NEW c, IsSeq(c), c # <<>>, Linked(c)
  PROVE  \A i \in 1..Len(c) : c[i].index = i - 1
<1> DEFINE Bad == {i \in 1..Len(c) : c[i].index # i - 1}
<1>0. Len(c) \in Nat
  BY IsSeqShape
<1> SUFFICES ASSUME Bad # {} PROVE FALSE
  OBVIOUS
<1>1. PICK m \in Bad : \A j \in Bad : m <= j
  <2>1. Bad \in SUBSET Nat
    BY <1>0
  <2> HIDE DEF Bad
  <2> QED BY <2>1, NatMinimum
<1>2. m # 1
  BY DEF Linked
<1>3. m \in 2..Len(c) /\ m - 1 \in 1..Len(c)
  BY <1>0, <1>2
<1>4. c[m - 1].index = m - 1 - 1
  BY <1>0, <1>1, <1>3
<1>5. c[m].index = c[m - 1].index + 1
  BY <1>3 DEF Linked
<1> QED BY <1>0, <1>3, <1>4, <1>5

\* A linked chain is determined by its last block.
LEMMA LinkedTip ==
  ASSUME NEW c, IsSeq(c), c # <<>>, Linked(c),
         NEW d, IsSeq(d), d # <<>>, Linked(d),
         getLatestBlock(c) = getLatestBlock(d)
  PROVE  c = d
<1>1. Len(c) \in Nat /\ Len(d) \in Nat /\ Len(c) >= 1 /\ Len(d) >= 1
  BY IsSeqShape
<1>2. Len(c) = Len(d)
  <2>1. c[Len(c)].index = Len(c) - 1 /\ d[Len(d)].index = Len(d) - 1
    BY <1>1, LinkedIndex
  <2> QED BY <1>1, <2>1 DEF getLatestBlock
<1> DEFINE Bad == {j \in 0..(Len(c) - 1) : c[Len(c) - j] # d[Len(c) - j]}
<1>3. Bad = {}
  <2> SUFFICES ASSUME Bad # {} PROVE FALSE
    OBVIOUS
  <2>1. PICK m \in Bad : \A j \in Bad : m <= j
    <3>1. Bad \in SUBSET Nat
      BY <1>1
    <3> HIDE DEF Bad
    <3> QED BY <3>1, NatMinimum
  <2>2. m # 0
    BY <1>1, <1>2 DEF getLatestBlock
  <2> DEFINE i == Len(c) - m + 1
  <2>3. /\ i \in 2..Len(c) /\ i \in 2..Len(d)
        /\ i - 1 = Len(c) - m
        /\ m - 1 \in 0..(Len(c) - 1) /\ i = Len(c) - (m - 1)
    BY <1>1, <1>2, <2>2
  <2>4. c[i] = d[i]
    <3>1. m - 1 \notin Bad
      <4>1. ~(m <= m - 1)
        BY <1>1
      <4> HIDE DEF Bad
      <4> QED BY <2>1, <4>1
    <3>2. c[Len(c) - (m - 1)] = d[Len(c) - (m - 1)]
      BY <2>3, <3>1
    <3> QED BY <2>3, <3>2
  <2>5. calculateHash(c[i - 1]) = calculateHash(d[i - 1])
    <3>1. c[i].previousHash = calculateHash(c[i - 1])
      BY <2>3 DEF Linked
    <3>2. d[i].previousHash = calculateHash(d[i - 1])
      BY <2>3 DEF Linked
    <3> QED BY <2>4, <3>1, <3>2
  <2>6. c[i - 1] = d[i - 1]
    BY <2>5 DEF calculateHash
  <2> QED BY <2>3, <2>6
<1>4. \A i \in 1..Len(c) : c[i] = d[i]
  <2> SUFFICES ASSUME NEW i \in 1..Len(c) PROVE c[i] = d[i]
    OBVIOUS
  <2>1. Len(c) - i \in 0..(Len(c) - 1) /\ Len(c) - (Len(c) - i) = i
    BY <1>1
  <2> QED BY <1>3, <2>1
<1> QED BY <1>2, <1>4, IsSeqShape

\* A valid block extends a linked chain to a linked chain.
LEMMA LinkedAppend ==
  ASSUME NEW c, IsSeq(c), c # <<>>, Linked(c),
         NEW b, NEW now, isBlockValid(b, getLatestBlock(c), now)
  PROVE  Linked(Append(c, b))
<1> SUFFICES ASSUME NEW d, d = Append(c, b) PROVE Linked(d)
  OBVIOUS
<1>1. Len(c) \in Nat /\ Len(c) >= 1
  BY IsSeqShape
<1>2. /\ Len(d) = Len(c) + 1
      /\ \A i \in 1..Len(c) : d[i] = c[i]
      /\ d[Len(c) + 1] = b
  BY IsSeqAppend
<1>3. d[1].index = 0
  BY <1>1, <1>2 DEF Linked
<1>4. ASSUME NEW i \in 2..Len(d)
      PROVE  /\ d[i].index = d[i - 1].index + 1
             /\ d[i].previousHash = calculateHash(d[i - 1])
  <2>1. CASE i = Len(c) + 1
    <3>1. i - 1 = Len(c) /\ Len(c) \in 1..Len(c)
      BY <1>1, <2>1
    <3>2. d[i] = b /\ d[i - 1] = getLatestBlock(c)
      BY <1>2, <2>1, <3>1 DEF getLatestBlock
    <3> QED BY <3>2 DEF isBlockValid
  <2>2. CASE i # Len(c) + 1
    <3>1. i \in 2..Len(c) /\ i \in 1..Len(c) /\ i - 1 \in 1..Len(c)
      BY <1>1, <1>2, <2>2
    <3>2. d[i] = c[i] /\ d[i - 1] = c[i - 1]
      BY <1>2, <3>1
    <3> QED BY <3>1, <3>2 DEF Linked
  <2> QED BY <2>1, <2>2
<1> QED BY <1>3, <1>4 DEF Linked

\* A linked chain without its last block is the linked chain that ends there.
LEMMA LinkedExtends ==
  ASSUME NEW c, IsSeq(c), c # <<>>, Linked(c), getLatestBlock(c).index # 0,
         NEW d, IsSeq(d), d # <<>>, Linked(d),
         calculateHash(getLatestBlock(d)) = getLatestBlock(c).previousHash
  PROVE  c = Append(d, getLatestBlock(c))
<1> DEFINE k == Len(c) - 1
<1>1. Len(c) \in Nat /\ Len(c) >= 1 /\ c[Len(c)].index = Len(c) - 1
  BY IsSeqShape, LinkedIndex
<1>2. Len(c) \in 2..Len(c) /\ k \in 1..Len(c) /\ k \in 0..Len(c)
  <2>1. c[Len(c)].index # 0
    BY DEF getLatestBlock
  <2> QED BY <1>1, <2>1
<1> SUFFICES ASSUME NEW p, p = SubSeq(c, 1, k) PROVE c = Append(d, getLatestBlock(c))
  OBVIOUS
<1>3. IsSeq(p) /\ Len(p) = k /\ \A i \in 1..k : p[i] = c[i]
  BY <1>2, IsSeqFirst
<1>4. p # <<>>
  <2>1. Len(<<>>) = 0
    OBVIOUS
  <2>2. k # 0
    BY <1>2
  <2> HIDE DEF k
  <2> QED BY <1>3, <2>1, <2>2
<1>5. Linked(p)
  <2>1. 1 \in 1..k /\ \A i \in 2..k : i \in 1..k /\ i - 1 \in 1..k /\ i \in 2..Len(c)
    BY <1>2
  <2> HIDE DEF k
  <2>2. c[1].index = 0 /\ \A i \in 2..k : /\ c[i].index = c[i - 1].index + 1
                                       /\ c[i].previousHash = calculateHash(c[i - 1])
    BY <2>1 DEF Linked
  <2>3. p[1] = c[1] /\ \A i \in 2..k : p[i] = c[i] /\ p[i - 1] = c[i - 1]
    BY <1>3, <2>1
  <2> QED BY <1>3, <2>2, <2>3, ZenonT(40) DEF Linked
<1>6. getLatestBlock(p) = getLatestBlock(d)
  <2>1. c[Len(c)].previousHash = calculateHash(c[Len(c) - 1])
    BY <1>2 DEF Linked
  <2>2. getLatestBlock(p) = c[k]
    <3> HIDE DEF k
    <3> QED BY <1>2, <1>3 DEF getLatestBlock
  <2>3. calculateHash(getLatestBlock(d)) = calculateHash(c[k])
    BY <2>1 DEF getLatestBlock
  <2>4. getLatestBlock(d) = c[k]
    BY <2>3 DEF calculateHash
  <2> QED BY <2>2, <2>4
<1>7. p = d
  BY <1>3, <1>4, <1>5, <1>6, LinkedTip
<1> SUFFICES ASSUME NEW e, e = Append(p, getLatestBlock(c)) PROVE c = e
  BY <1>7
<1>8. /\ IsSeq(e) /\ Len(e) = k + 1 /\ e[k + 1] = c[Len(c)]
      /\ \A i \in 1..k : e[i] = c[i]
  BY <1>3, IsSeqAppend DEF getLatestBlock
<1>9. \A i \in 1..Len(c) : e[i] = c[i]
  <2>1. k + 1 = Len(c) /\ \A i \in 1..Len(c) : i \in 1..k \/ i = Len(c)
    BY <1>1, <1>2
  <2> HIDE DEF k
  <2> QED BY <1>8, <2>1
<1>10. Len(e) = Len(c)
  BY <1>1, <1>8
<1> QED BY <1>8, <1>9, <1>10, IsSeqShape

\* A sole block is a list of one element.
LEMMA SoleBlock ==
  ASSUME NEW c, IsSeq(c), c # <<>>, Linked(c), getLatestBlock(c).index = 0
  PROVE  c = <<getLatestBlock(c)>> /\ Len(c) = 1
<1>1. Len(c) \in Nat /\ Len(c) >= 1 /\ c[Len(c)].index = Len(c) - 1
  BY IsSeqShape, LinkedIndex
<1>2. Len(c) = 1
  <2>1. c[Len(c)].index = 0
    BY DEF getLatestBlock
  <2>2. Len(c) - 1 = 0
    BY <1>1, <2>1
  <2> QED BY <1>1, <2>2
<1> SUFFICES ASSUME NEW s, s = <<getLatestBlock(c)>> PROVE c = s
  BY <1>2
<1>3. IsSeq(s) /\ Len(s) = 1 /\ s[1] = c[1]
  BY <1>2, IsSeqSingleton DEF getLatestBlock
<1>4. \A i \in 1..1 : i = 1
  OBVIOUS
<1> QED BY <1>2, <1>3, <1>4, IsSeqShape

-----------------------------------------------------------------------------
(* The transaction pool *)

\* The recurrence that defines updatePool, up to position k.
PoolRecurrence(p, u, k, f) ==
  f = [i \in 0..k |-> IF i = 0 THEN <<>> ELSE keepTransaction(f[i - 1], p[i], u)]

\* The recurrence has a solution for every length.
LEMMA PoolRecurrenceExists ==
  ASSUME NEW p, NEW u, NEW k \in Nat
  PROVE  \E f : PoolRecurrence(p, u, k, f)
<1> DEFINE Bad == {j \in Nat : ~ \E f : PoolRecurrence(p, u, j, f)}
<1> SUFFICES ASSUME Bad # {} PROVE FALSE
  OBVIOUS
<1>1. PICK m \in Bad : \A j \in Bad : m <= j
  BY NatMinimum
<1>2. m # 0
  <2>1. PoolRecurrence(p, u, 0, [i \in 0..0 |-> <<>>])
    BY DEF PoolRecurrence
  <2> QED BY <2>1
<1>3. PICK f : PoolRecurrence(p, u, m - 1, f)
  BY <1>1, <1>2
<1> DEFINE g == [i \in 0..m |-> IF i = m THEN keepTransaction(f[m - 1], p[m], u)
                                ELSE f[i]]
<1>4. PoolRecurrence(p, u, m, g)
  <2> SUFFICES ASSUME NEW i \in 0..m
      PROVE g[i] = IF i = 0 THEN <<>> ELSE keepTransaction(g[i - 1], p[i], u)
    BY DEF PoolRecurrence
  <2>0. m \in Nat /\ m - 1 \in Nat
    BY <1>2
  <2>1. CASE i = m
    <3>1. g[m] = keepTransaction(f[m - 1], p[m], u)
      BY <2>0
    <3>2. g[m - 1] = f[m - 1]
      BY <2>0
    <3> QED BY <3>1, <3>2, <2>1, <1>2
  <2>2. CASE i # m
    <3>1. i \in 0..(m - 1)
      BY <2>0, <2>2
    <3>2. f[i] = IF i = 0 THEN <<>> ELSE keepTransaction(f[i - 1], p[i], u)
      BY <1>3, <3>1 DEF PoolRecurrence
    <3>3. g[i] = f[i] /\ (i # 0 => g[i - 1] = f[i - 1])
      BY <3>1, <2>0
    <3> QED BY <3>2, <3>3
  <2> QED BY <2>1, <2>2
<1> QED BY <1>4

\* A pool that keeps some of the transactions of p, each where p has it once.
IsSelection(q, p, k, u) ==
  /\ IsSeq(q)
  /\ \A i \in 1..Len(q) : \E j \in 1..k : q[i] = p[j] /\ hasTransIns(q[i], u)
  /\ \A x, y \in 1..Len(q) : x # y =>
       \E i, j \in 1..k : i # j /\ q[x] = p[i] /\ q[y] = p[j]

\* updatePool keeps only transactions of the pool whose inputs are unspent,
\* and none twice.
LEMMA UpdatePoolSelects ==
  ASSUME NEW p, IsSeq(p), NEW u
  PROVE  IsSelection(updatePool(p, u), p, Len(p), u)
<1>0. Len(p) \in Nat
  BY IsSeqShape
<1>1. PICK f : /\ PoolRecurrence(p, u, Len(p), f)
               /\ updatePool(p, u) = f[Len(p)]
  <2> DEFINE kept == CHOOSE f : f = [i \in 0..Len(p) |->
                       IF i = 0 THEN <<>> ELSE keepTransaction(f[i - 1], p[i], u)]
  <2>1. PoolRecurrence(p, u, Len(p), kept)
    BY <1>0, PoolRecurrenceExists DEF PoolRecurrence
  <2>2. updatePool(p, u) = kept[Len(p)]
    BY DEF updatePool
  <2> HIDE DEF kept
  <2> QED BY <2>1, <2>2
<1>2. f[0] = <<>> /\ \A i \in 1..Len(p) : f[i] = keepTransaction(f[i - 1], p[i], u)
  BY <1>0, <1>1 DEF PoolRecurrence
<1> DEFINE Bad == {j \in 0..Len(p) : ~IsSelection(f[j], p, j, u)}
<1>3. Bad = {}
  <2> SUFFICES ASSUME Bad # {} PROVE FALSE
    OBVIOUS
  <2>1. PICK m \in Bad : \A j \in Bad : m <= j
    <3>1. Bad \in SUBSET Nat
      BY <1>0
    <3> HIDE DEF Bad
    <3> QED BY <3>1, NatMinimum
  <2>2. m # 0
    <3>1. IsSeq(<<>>) /\ Len(<<>>) = 0
      BY DEF IsSeq
    <3>2. IsSelection(<<>>, p, 0, u)
      BY <3>1 DEF IsSelection
    <3> QED BY <1>2, <3>2
  <2>3. m \in 1..Len(p) /\ m - 1 \in 0..Len(p) /\ ~(m <= m - 1)
    BY <1>0, <2>2
  <2>4. IsSelection(f[m - 1], p, m - 1, u)
    BY <2>1, <2>3
  <2>5. CASE ~hasTransIns(p[m], u)
    <3>1. f[m] = f[m - 1]
      BY <1>2, <2>3, <2>5 DEF keepTransaction
    <3>2. \A j \in 1..(m - 1) : j \in 1..m
      BY <2>3
    <3>3. IsSelection(f[m], p, m, u)
      BY <2>4, <3>1, <3>2 DEF IsSelection
    <3> QED BY <3>3
  <2>6. CASE hasTransIns(p[m], u)
    <3>1. f[m] = Append(f[m - 1], p[m])
      BY <1>2, <2>3, <2>6 DEF keepTransaction
    <3>2. IsSelection(f[m], p, m, u)
      <4> SUFFICES ASSUME NEW q, q = f[m - 1], NEW r, r = Append(q, p[m])
          PROVE IsSelection(r, p, m, u)
        BY <3>1
      <4>1. IsSelection(q, p, m - 1, u)
        BY <2>4
      <4>2. IsSeq(q) /\ Len(q) \in Nat
        BY <4>1, IsSeqShape DEF IsSelection
      <4>3. /\ IsSeq(r) /\ Len(r) = Len(q) + 1 /\ r[Len(q) + 1] = p[m]
            /\ \A i \in 1..Len(q) : r[i] = q[i]
        BY <4>2, IsSeqAppend
      <4>4. \A j \in 1..(m - 1) : j \in 1..m /\ j # m
        BY <2>3
      <4>5. m \in 1..m
        BY <2>3
      <4>6. \A i \in 1..Len(r) : i \in 1..Len(q) \/ i = Len(q) + 1
        BY <4>2, <4>3, SMTT(40)
      <4>7. ASSUME NEW i \in 1..Len(q)
            PROVE  \E j \in 1..(m - 1) : r[i] = p[j] /\ hasTransIns(r[i], u)
        BY <4>1, <4>3 DEF IsSelection
      <4>8. \A i \in 1..Len(r) : \E j \in 1..m : r[i] = p[j] /\ hasTransIns(r[i], u)
        BY <2>6, <4>3, <4>4, <4>5, <4>6, <4>7
      <4>9. ASSUME NEW x \in 1..Len(r), NEW y \in 1..Len(r), x # y
            PROVE  \E i, j \in 1..m : i # j /\ r[x] = p[i] /\ r[y] = p[j]
        <5>1. CASE x \in 1..Len(q) /\ y \in 1..Len(q)
          <6>1. PICK i \in 1..(m - 1), j \in 1..(m - 1) :
                  i # j /\ q[x] = p[i] /\ q[y] = p[j]
            BY <4>1, <5>1, <4>9 DEF IsSelection
          <6> QED BY <6>1, <4>3, <4>4, <5>1
        <5>2. CASE x \in 1..Len(q) /\ y = Len(q) + 1
          BY <4>3, <4>4, <4>5, <4>7, <5>2
        <5>3. CASE x = Len(q) + 1 /\ y \in 1..Len(q)
          BY <4>3, <4>4, <4>5, <4>7, <5>3
        <5> QED BY <4>6, <4>9, <5>1, <5>2, <5>3
      <4> QED BY <4>3, <4>8, <4>9 DEF IsSelection
    <3> QED BY <3>2
  <2> QED BY <2>5, <2>6
<1>4. IsSelection(f[Len(p)], p, Len(p), u)
  BY <1>0, <1>3
<1> QED BY <1>1, <1>4

-----------------------------------------------------------------------------
(* Powers of two *)

\* The recurrence that defines pow2, up to k.
PowRecurrence(g, k) == g = [d \in 0..k |-> IF d = 0 THEN 1 ELSE 2 * g[d - 1]]

\* It has a solution for every k.
LEMMA PowRecurrenceExists ==
  ASSUME NEW k \in Nat
  PROVE  \E g : PowRecurrence(g, k)
<1> DEFINE Bad == {j \in Nat : ~ \E g : PowRecurrence(g, j)}
<1> SUFFICES ASSUME Bad # {} PROVE FALSE
  OBVIOUS
<1>1. PICK m \in Bad : \A j \in Bad : m <= j
  BY NatMinimum
<1>2. m # 0
  <2>1. PowRecurrence([d \in 0..0 |-> 1], 0)
    BY DEF PowRecurrence
  <2> QED BY <2>1
<1>3. PICK f : PowRecurrence(f, m - 1)
  BY <1>1, <1>2
<1> DEFINE g == [d \in 0..m |-> IF d = m THEN 2 * f[m - 1] ELSE f[d]]
<1>4. PowRecurrence(g, m)
  <2> SUFFICES ASSUME NEW d \in 0..m PROVE g[d] = IF d = 0 THEN 1 ELSE 2 * g[d - 1]
    BY DEF PowRecurrence
  <2>0. m \in Nat /\ m - 1 \in Nat
    BY <1>2
  <2>1. CASE d = m
    <3>1. g[m] = 2 * f[m - 1] /\ g[m - 1] = f[m - 1]
      BY <2>0
    <3> QED BY <3>1, <2>1, <1>2
  <2>2. CASE d # m
    <3>1. d \in 0..(m - 1)
      BY <2>0, <2>2
    <3>2. f[d] = IF d = 0 THEN 1 ELSE 2 * f[d - 1]
      BY <1>3, <3>1 DEF PowRecurrence
    <3>3. g[d] = f[d] /\ (d # 0 => g[d - 1] = f[d - 1])
      BY <3>1, <2>0
    <3> QED BY <3>2, <3>3
  <2> QED BY <2>1, <2>2
<1> QED BY <1>4

\* Two solutions agree as far as both go.
LEMMA PowRecurrenceAgree ==
  ASSUME NEW j \in Nat, NEW k \in Nat, j <= k, NEW f, PowRecurrence(f, j),
         NEW g, PowRecurrence(g, k)
  PROVE  \A d \in 0..j : f[d] = g[d]
<1> DEFINE Bad == {d \in 0..j : f[d] # g[d]}
<1> SUFFICES ASSUME Bad # {} PROVE FALSE
  OBVIOUS
<1>1. PICK m \in Bad : \A d \in Bad : m <= d
  <2>1. Bad \in SUBSET Nat
    OBVIOUS
  <2> HIDE DEF Bad
  <2> QED BY <2>1, NatMinimum
<1>2. m \in 0..j /\ m \in 0..k
  OBVIOUS
<1>3. /\ f[m] = IF m = 0 THEN 1 ELSE 2 * f[m - 1]
      /\ g[m] = IF m = 0 THEN 1 ELSE 2 * g[m - 1]
  BY <1>2 DEF PowRecurrence
<1>4. m # 0
  BY <1>3
<1>5. m - 1 \in 0..j /\ ~(m <= m - 1)
  BY <1>2, <1>4
<1>6. f[m - 1] = g[m - 1]
  BY <1>1, <1>5
<1> QED BY <1>3, <1>4, <1>6

\* pow2 is what its definition says.
LEMMA PowDef == \A d \in Nat : pow2[d] = IF d = 0 THEN 1 ELSE 2 * pow2[d - 1]
<1> DEFINE P(k) == CHOOSE g : PowRecurrence(g, k)
           p == [d \in Nat |-> P(d)[d]]
<1>1. \A k \in Nat : PowRecurrence(P(k), k)
  BY PowRecurrenceExists
<1> HIDE DEF P
<1>2. \A d \in Nat : p[d] = IF d = 0 THEN 1 ELSE 2 * p[d - 1]
  <2> SUFFICES ASSUME NEW d \in Nat PROVE p[d] = IF d = 0 THEN 1 ELSE 2 * p[d - 1]
    OBVIOUS
  <2>1. d \in 0..d /\ P(d)[d] = IF d = 0 THEN 1 ELSE 2 * P(d)[d - 1]
    BY <1>1 DEF PowRecurrence
  <2>2. CASE d = 0
    BY <2>1, <2>2
  <2>3. CASE d # 0
    <3>1. d - 1 \in Nat /\ d - 1 <= d /\ d - 1 \in 0..(d - 1)
      BY <2>3
    <3>2. P(d - 1)[d - 1] = P(d)[d - 1]
      BY <1>1, <3>1, PowRecurrenceAgree
    <3> QED BY <2>1, <2>3, <3>1, <3>2
  <2> QED BY <2>2, <2>3
<1>3. p = [d \in Nat |-> IF d = 0 THEN 1 ELSE 2 * p[d - 1]]
  BY <1>2
<1> HIDE DEF p
<1>4. \E g : g = [d \in Nat |-> IF d = 0 THEN 1 ELSE 2 * g[d - 1]]
  BY <1>3
<1>5. pow2 = [d \in Nat |-> IF d = 0 THEN 1 ELSE 2 * pow2[d - 1]]
  BY <1>4 DEF pow2
<1> QED BY <1>5

\* Powers of two are positive.
LEMMA PowPositive == \A d \in Nat : pow2[d] \in Nat /\ pow2[d] >= 1
<1> DEFINE Bad == {d \in Nat : ~(pow2[d] \in Nat /\ pow2[d] >= 1)}
<1> SUFFICES ASSUME Bad # {} PROVE FALSE
  OBVIOUS
<1>1. PICK m \in Bad : \A d \in Bad : m <= d
  BY NatMinimum
<1>2. m \in Nat /\ m # 0
  BY PowDef
<1>3. m - 1 \in Nat /\ ~(m <= m - 1)
  BY <1>2
<1>4. pow2[m - 1] \in Nat /\ pow2[m - 1] >= 1
  BY <1>1, <1>3
<1> QED BY <1>2, <1>4, PowDef

-----------------------------------------------------------------------------
(* The work of a chain, exact and as an int *)

\* What each block of c has cost.
Costs(c) == [i \in DOMAIN c |-> IF c[i].difficulty < 0 THEN 0 ELSE pow2[c[i].difficulty]]

\* Every difficulty is an integer.
HaveDifficulties(c) == \A i \in DOMAIN c : c[i].difficulty \in Int

\* Every cost is a natural number.
LEMMA CostsNat ==
  ASSUME NEW c, HaveDifficulties(c)
  PROVE  \A i \in DOMAIN c : Costs(c)[i] \in Nat
<1> SUFFICES ASSUME NEW i \in DOMAIN c PROVE Costs(c)[i] \in Nat
  OBVIOUS
<1>1. c[i].difficulty \in Int
  BY DEF HaveDifficulties
<1>2. CASE c[i].difficulty < 0
  BY <1>2 DEF Costs
<1>3. CASE ~(c[i].difficulty < 0)
  <2>1. c[i].difficulty \in Nat
    BY <1>1, <1>3
  <2> QED BY <1>3, <2>1, PowPositive DEF Costs
<1> QED BY <1>2, <1>3

\* The work of a chain is the sum of its costs.
LEMMA WorkIsSum ==
  ASSUME NEW c, IsFiniteSet(DOMAIN c)
  PROVE  Work(c) = SumOver(Costs(c), DOMAIN c)
<1> DEFINE S == DOMAIN c
           f == Costs(c)
           cost(i) == IF c[i].difficulty < 0 THEN 0 ELSE pow2[c[i].difficulty]
           iter == CHOOSE g :
             g = [s \in SUBSET S |->
                    IF s = {} THEN 0
                    ELSE cost(CHOOSE x \in s : TRUE) + g[s \ {CHOOSE x \in s : TRUE}]]
<1>1. Work(c) = iter[S]
  BY DEF Work, MapThenSumSet, MapThenFoldSet
<1>2. \A i \in S : f[i] = cost(i)
  BY DEF Costs
<1> HIDE DEF f, cost
<1>3. ASSUME NEW g
      PROVE  SumRecurrence(g, f, S)
               <=> g = [s \in SUBSET S |->
                          IF s = {} THEN 0
                          ELSE cost(CHOOSE x \in s : TRUE) + g[s \ {CHOOSE x \in s : TRUE}]]
  <2> HIDE DEF S
  <2>1. \A s \in SUBSET S : s # {} => f[CHOOSE x \in s : TRUE] = cost(CHOOSE x \in s : TRUE)
    BY <1>2
  <2> QED BY <2>1 DEF SumRecurrence
<1>4. SumRecurrence(iter, f, S)
  <2>1. \E g : SumRecurrence(g, f, S)
    BY SumRecurrenceExists
  <2> HIDE DEF S
  <2> QED BY <1>3, <2>1, ZenonT(40)
<1> HIDE DEF iter
<1>5. PICK g : SumRecurrence(g, f, S) /\ SumOver(f, S) = g[S]
  BY SumOverDef
<1>6. g[S] = iter[S]
  BY <1>4, <1>5, SumRecurrenceAgree
<1> QED BY <1>1, <1>5, <1>6 DEF f

\* The positions of a chain are finitely many.
LEMMA ChainPositions ==
  ASSUME NEW c, IsSeq(c)
  PROVE  /\ Len(c) \in Nat /\ DOMAIN c = 1..Len(c)
         /\ \A i, j \in Int : IsFiniteSet(i..j)
  BY IsSeqShape, FS_Interval

\* Work is a natural number.
LEMMA WorkNat ==
  ASSUME NEW c, IsSeq(c), HaveDifficulties(c)
  PROVE  Work(c) \in Nat /\ IsFiniteSet(DOMAIN c)
<1>1. IsFiniteSet(DOMAIN c)
  <2>1. 1 \in Int /\ Len(c) \in Int
    BY ChainPositions
  <2> QED BY <2>1, ChainPositions
<1> QED BY <1>1, CostsNat, WorkIsSum, SumNat

\* A block adds its cost.
LEMMA WorkAppend ==
  ASSUME NEW c, IsSeq(c), HaveDifficulties(c), NEW b, b.difficulty \in Nat
  PROVE  Work(Append(c, b)) = Work(c) + pow2[b.difficulty]
<1> SUFFICES ASSUME NEW d, d = Append(c, b)
    PROVE Work(d) = Work(c) + pow2[b.difficulty]
  OBVIOUS
<1>1. /\ IsSeq(d) /\ Len(d) = Len(c) + 1 /\ d[Len(c) + 1] = b
      /\ \A i \in 1..Len(c) : d[i] = c[i]
      /\ Len(c) \in Nat /\ DOMAIN c = 1..Len(c)
  BY IsSeqShape, IsSeqAppend
<1> DEFINE C == DOMAIN c
           y == Len(c) + 1
<1>2. DOMAIN d = C \cup {y} /\ y \notin C
  <2>1. DOMAIN d = 1..(Len(c) + 1)
    BY <1>1, IsSeqShape
  <2> QED BY <1>1, <2>1
<1>3. HaveDifficulties(d)
  <2>1. \A i \in C : d[i] = c[i]
    BY <1>1
  <2> HIDE DEF C
  <2> QED BY <1>1, <1>2, <2>1 DEF HaveDifficulties, C
<1>4. /\ \A i \in C : Costs(d)[i] = Costs(c)[i] /\ Costs(d)[i] \in Nat
      /\ Costs(d)[y] = pow2[b.difficulty] /\ Costs(d)[y] \in Nat
  <2>1. \A i \in C : i \in DOMAIN d /\ d[i] = c[i]
    BY <1>1, <1>2
  <2>2. y \in DOMAIN d /\ d[y] = b
    BY <1>1, <1>2
  <2>3. ~(b.difficulty < 0)
    OBVIOUS
  <2>4. \A i \in DOMAIN d : Costs(d)[i] \in Nat
    BY <1>3, CostsNat
  <2>5. Costs(d)[y] = pow2[b.difficulty]
    BY <2>2, <2>3 DEF Costs
  <2>6. \A i \in C : Costs(d)[i] = Costs(c)[i]
    BY <2>1 DEF Costs
  <2> QED BY <2>1, <2>2, <2>4, <2>5, <2>6
<1>5. IsFiniteSet(C) /\ IsFiniteSet(DOMAIN d)
  BY <1>1, <1>3, WorkNat
<1>6. /\ Work(c) = SumOver(Costs(c), C)
      /\ Work(d) = SumOver(Costs(d), C \cup {y})
  BY <1>2, <1>5, WorkIsSum
<1> HIDE DEF C, y
<1>7. SumOver(Costs(d), C \cup {y}) = SumOver(Costs(d), C) + pow2[b.difficulty]
  BY <1>2, <1>4, <1>5, SumAdd
<1>8. SumOver(Costs(d), C) = SumOver(Costs(c), C)
  BY <1>4, <1>5, SumAgree
<1> QED BY <1>6, <1>7, <1>8

\* The recurrence that defines the accumulated difficulty, up to block k.
AccRecurrence(g, c, k) ==
  g = [i \in 0..k |-> IF i = 0 THEN 0 ELSE AddWork(g[i - 1], c[i].difficulty)]

\* It has a solution for every length.
LEMMA AccRecurrenceExists ==
  ASSUME NEW c, NEW k \in Nat
  PROVE  \E g : AccRecurrence(g, c, k)
<1> DEFINE Bad == {j \in Nat : ~ \E g : AccRecurrence(g, c, j)}
<1> SUFFICES ASSUME Bad # {} PROVE FALSE
  OBVIOUS
<1>1. PICK m \in Bad : \A j \in Bad : m <= j
  BY NatMinimum
<1>2. m # 0
  <2>1. AccRecurrence([i \in 0..0 |-> 0], c, 0)
    BY DEF AccRecurrence
  <2> QED BY <2>1
<1>3. PICK f : AccRecurrence(f, c, m - 1)
  BY <1>1, <1>2
<1> DEFINE last == AddWork(f[m - 1], c[m].difficulty)
           g == [i \in 0..m |-> IF i = m THEN last ELSE f[i]]
<1>4. AccRecurrence(g, c, m)
  <2> SUFFICES ASSUME NEW i \in 0..m
      PROVE g[i] = IF i = 0 THEN 0 ELSE AddWork(g[i - 1], c[i].difficulty)
    BY DEF AccRecurrence
  <2>0. m \in Nat /\ m - 1 \in Nat
    BY <1>2
  <2>1. CASE i = m
    <3>1. g[m] = last /\ g[m - 1] = f[m - 1]
      BY <2>0
    <3> QED BY <3>1, <2>1, <1>2
  <2>2. CASE i # m
    <3>1. i \in 0..(m - 1)
      BY <2>0, <2>2
    <3>2. f[i] = IF i = 0 THEN 0 ELSE AddWork(f[i - 1], c[i].difficulty)
      BY <1>3, <3>1 DEF AccRecurrence
    <3>3. g[i] = f[i] /\ (i # 0 => g[i - 1] = f[i - 1])
      BY <3>1, <2>0
    <3> QED BY <3>2, <3>3
  <2> QED BY <2>1, <2>2
<1> QED BY <1>4

\* The accumulated difficulty is the last value of the recurrence.
LEMMA AccDef ==
  ASSUME NEW c, IsSeq(c)
  PROVE  \E g : AccRecurrence(g, c, Len(c)) /\ getAccumulatedDifficulty(c) = g[Len(c)]
<1>1. \E g : AccRecurrence(g, c, Len(c))
  BY IsSeqShape, AccRecurrenceExists
<1> QED BY <1>1 DEF AccRecurrence, getAccumulatedDifficulty

\* As long as it fits into an int, the accumulated difficulty is the work.
LEMMA AccIsWork ==
  ASSUME NEW c, IsSeq(c), HaveDifficulties(c), Work(c) <= MAX_INT
  PROVE  getAccumulatedDifficulty(c) = Work(c)
<1> DEFINE w == Costs(c)
           S(i) == SumOver(w, 1..i)
<1>1. PICK g : AccRecurrence(g, c, Len(c)) /\ getAccumulatedDifficulty(c) = g[Len(c)]
  BY AccDef
<1>2. /\ Len(c) \in Nat /\ DOMAIN c = 1..Len(c)
      /\ \A i, j \in Int : IsFiniteSet(i..j)
      /\ \A i \in 1..Len(c) : w[i] \in Nat
  BY ChainPositions, CostsNat
<1> HIDE DEF w
<1>3. Work(c) = S(Len(c))
  <2>1. IsFiniteSet(DOMAIN c)
    BY WorkNat
  <2> QED BY <1>2, <2>1, WorkIsSum DEF w
<1>4. \A i \in 0..Len(c) : S(i) \in Nat /\ S(i) <= MAX_INT
  <2> SUFFICES ASSUME NEW i \in 0..Len(c) PROVE S(i) \in Nat /\ S(i) <= MAX_INT
    OBVIOUS
  <2> DEFINE A == 1..i
             B == (i + 1)..Len(c)
  <2>1. A \cap B = {} /\ A \cup B = 1..Len(c)
    BY <1>2
  <2>2. IsFiniteSet(A) /\ IsFiniteSet(B)
    BY <1>2
  <2>3. \A x \in A \cup B : w[x] \in Nat
    BY <1>2, <2>1
  <2> HIDE DEF A, B
  <2>4. SumOver(w, A \cup B) = SumOver(w, A) + SumOver(w, B)
    BY <2>1, <2>2, <2>3, SumUnion
  <2>5. SumOver(w, A) \in Nat /\ SumOver(w, B) \in Nat
    BY <2>2, <2>3, SumNat
  <2>6. SumOver(w, A \cup B) <= MAX_INT
    BY <1>3, <2>1
  <2>7. SumOver(w, A) <= MAX_INT
    BY <2>4, <2>5, <2>6, IntervalAssumption
  <2> QED BY <2>5, <2>7 DEF A
<1>5. ASSUME NEW m \in 1..Len(c), g[m - 1] = S(m - 1) PROVE g[m] = S(m)
  <2> DEFINE A == 1..(m - 1)
             d == c[m].difficulty
  <2>1. 1..m = A \cup {m} /\ m \notin A /\ m \in 0..Len(c) /\ m - 1 \in 0..Len(c)
    BY <1>2
  <2>2. IsFiniteSet(A) /\ \A i \in A : w[i] \in Nat
    BY <1>2
  <2>3. w[m] \in Nat /\ d \in Int /\ w[m] = IF d < 0 THEN 0 ELSE pow2[d]
    BY <1>2 DEF HaveDifficulties, w, Costs
  <2>4. g[m] = AddWork(g[m - 1], d)
    BY <1>1, <1>2, <2>1, SMTT(40) DEF AccRecurrence
  <2> HIDE DEF A, d
  <2>5. S(m) = SumOver(w, A) + w[m]
    BY <2>1, <2>2, <2>3, SumAdd
  <2> DEFINE s == S(m - 1)
  <2>6. S(m) = s + w[m] /\ g[m - 1] = s
    BY <1>5, <2>5 DEF A
  <2>7. s \in Nat /\ s + w[m] \in Nat /\ s + w[m] <= MAX_INT
    BY <1>4, <2>1, <2>6
  <2> HIDE DEF s, S
  <2>8. CASE d < 0
    <3>1. w[m] = 0 /\ ~(d >= 0) /\ ~(s < 0)
      BY <2>3, <2>7, <2>8
    <3> QED BY <2>4, <2>6, <2>7, <3>1 DEF AddWork
  <2>9. CASE ~(d < 0)
    <3>1. w[m] = pow2[d] /\ d >= 0
      BY <2>3, <2>9
    <3>2. s + w[m] \in -MAX_INT - 1 .. MAX_INT
      BY <2>7, IntervalAssumption
    <3> QED BY <2>4, <2>6, <3>1, <3>2 DEF AddWork, ToInt
  <2> QED BY <2>8, <2>9
<1>6. g[0] = S(0)
  <2>1. 1..0 = {} /\ 0 \in 0..Len(c)
    BY <1>2
  <2>2. g[0] = 0
    BY <1>1, <2>1 DEF AccRecurrence
  <2> QED BY <2>1, <2>2, SumEmpty
<1> HIDE DEF S
<1>7. \A i \in 0..Len(c) : g[i] = S(i)
  <2> DEFINE Bad == {i \in 0..Len(c) : g[i] # S(i)}
  <2> SUFFICES ASSUME Bad # {} PROVE FALSE
    OBVIOUS
  <2>1. PICK m \in Bad : \A i \in Bad : m <= i
    <3>1. Bad \in SUBSET Nat
      BY <1>2
    <3> HIDE DEF Bad
    <3> QED BY <3>1, NatMinimum
  <2>2. m \in 1..Len(c)
    BY <1>2, <1>6
  <2>3. m - 1 \in 0..Len(c) /\ ~(m <= m - 1)
    BY <1>2, <2>2
  <2>4. g[m - 1] = S(m - 1)
    BY <2>1, <2>3
  <2> QED BY <1>5, <2>2, <2>4
<1>8. Len(c) \in 0..Len(c)
  BY <1>2
<1> QED BY <1>1, <1>3, <1>7, <1>8

\* No block of c has a negative difficulty, the first none at all.
FairDifficulties(c) ==
  c[1].difficulty = 0 /\ \A i \in DOMAIN c : c[i].difficulty \in Nat

\* A block with a digest keeps the difficulties of a chain fair.
LEMMA FairAppend ==
  ASSUME NEW c, IsSeq(c), c # <<>>, FairDifficulties(c), NEW b, b.difficulty \in Nat
  PROVE  FairDifficulties(Append(c, b))
<1> SUFFICES ASSUME NEW d, d = Append(c, b) PROVE FairDifficulties(d)
  OBVIOUS
<1>1. /\ IsSeq(d) /\ Len(d) = Len(c) + 1 /\ d[Len(c) + 1] = b
      /\ \A i \in 1..Len(c) : d[i] = c[i]
      /\ Len(c) \in Nat /\ Len(c) >= 1 /\ DOMAIN c = 1..Len(c)
  BY IsSeqShape, IsSeqAppend
<1>2. DOMAIN d = 1..(Len(c) + 1)
  BY <1>1, IsSeqShape
<1>3. \A i \in DOMAIN d : i = Len(c) + 1 \/ i \in DOMAIN c
  BY <1>1, <1>2
<1>4. 1 \in 1..Len(c)
  BY <1>1
<1> QED BY <1>1, <1>3, <1>4 DEF FairDifficulties

\* The work of a chain counts its first block, and that is worth one.
LEMMA WorkPositive ==
  ASSUME NEW c, IsSeq(c), c # <<>>, FairDifficulties(c)
  PROVE  Work(c) >= 1 /\ Work(c) \in Nat
<1>1. HaveDifficulties(c)
  BY DEF FairDifficulties, HaveDifficulties
<1>2. 1 \in DOMAIN c
  BY IsSeqShape
<1>3. Costs(c)[1] = pow2[0]
  BY <1>2 DEF Costs, FairDifficulties
<1>4. Costs(c)[1] >= 1 /\ Costs(c)[1] \in Nat
  BY <1>3, PowPositive
<1>5. IsFiniteSet(DOMAIN c) /\ \A i \in DOMAIN c : Costs(c)[i] \in Nat
  BY <1>1, WorkNat, CostsNat
<1> DEFINE D == DOMAIN c
           w == Costs(c)
<1>6. Work(c) = SumOver(w, D)
  BY <1>5, WorkIsSum
<1> HIDE DEF D, w
<1>7. 1 \in D /\ IsFiniteSet(D) /\ IsFiniteSet(D \ {1}) /\ \A i \in D : w[i] \in Nat
  BY <1>2, <1>5, FS_Subset DEF D, w
<1>8. SumOver(w, D) = w[1] + SumOver(w, D \ {1}) /\ SumOver(w, D \ {1}) \in Nat
  BY <1>7, SumRemove, SumNat
<1>9. w[1] >= 1 /\ w[1] \in Nat
  BY <1>4 DEF w
<1> QED BY <1>6, <1>8, <1>9
=============================================================================
