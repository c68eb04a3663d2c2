--------------------------- MODULE TransactionPool ---------------------------
(***************************************************************************)
(* The functions of TransactionPool.cpp on the list of unconfirmed         *)
(* transactions, which is a sequence here as it is there.                  *)
(***************************************************************************)
EXTENDS Blocks

\* Mutation: the pool takes what it already has.
isValidTransForPool_Unchecked(t, p) == TRUE

isValidTransForPool(t, p) == t.transIns \cap ConsumedBy(p) = {}

addToPoolAccepts(t, p, u) == isValidTransaction(t, u) /\ isValidTransForPool(t, p)

\* Every input of t refers to an unspent output.
hasTransIns(t, u) == t.transIns \subseteq {getInputFromUnspentTransOut(o) : o \in u}

\* The pool so far, and t if it stays.
keepTransaction(kept, t, u) == IF hasTransIns(t, u) THEN Append(kept, t) ELSE kept

\* Mutation: the pool is not updated after a change of the chain.
updatePool_KeepsAll(p, u) == p

\* The transactions of p that stay, in their order.
updatePool(p, u) ==
  LET kept[i \in 0..Len(p)] ==
        IF i = 0 THEN <<>> ELSE keepTransaction(kept[i - 1], p[i], u)
  IN  kept[Len(p)]
=============================================================================
