------------------------------ MODULE MCAmounts -----------------------------
(***************************************************************************)
(* A small instance of Amounts for TLC.                                    *)
(***************************************************************************)
EXTENDS Amounts

\* The units of a float: eleven powers of two.
PowersOfTwo == {2^e : e \in 0..10}

\* Amounts of up to four coins, in quarters of a coin (typed with two digits).
Quarters == {25 * k : k \in 1..16}

\* The instance is one of those that the theorems of AmountsProofs are about.
ASSUME QuartersExact == Exact(16)
=============================================================================
