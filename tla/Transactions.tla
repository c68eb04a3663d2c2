---------------------------- MODULE Transactions ----------------------------
(***************************************************************************)
(* The pure functions on transactions: Transactions.cpp, the coin          *)
(* selection of Wallet.cpp and the comparisons of                          *)
(* TransactionComponents.cpp.                                              *)
(*                                                                         *)
(* A transaction is a record                                               *)
(*   transIns  - the SET of output references it consumes,                 *)
(*   transOuts - the sequence of outputs it creates,                       *)
(*   signer    - the wallet whose key signed every input.                  *)
(* The id of a transaction is not stored: it is the hash of the inputs and *)
(* the outputs, and SHA-256 is taken to be collision free, so the content  *)
(* stands for it.  The list of unspent outputs is a set of records whose   *)
(* order is abstracted, hence coin selection is nondeterministic where the *)
(* code takes the outputs in list order.                                   *)
(***************************************************************************)
EXTENDS Integers, Sequences, FiniteSets, FiniteSetsExt

CONSTANTS
  COINBASE_AMOUNT,   \* what a coinbase transaction creates
  None               \* the empty string used as id, hash and signature

ASSUME CoinbaseAssumption == COINBASE_AMOUNT \in Nat \ {0}

\* Lists are typed by their shape: what they hold nests hashes to any depth.
IsSeq(s) == s \in Seq({s[i] : i \in DOMAIN s})

OutPoint(id, index) == [transOutId |-> id, transOutIndex |-> index]

TransOut(address, amount) == [address |-> address, amount |-> amount]

UnspentTransOut(id, index, out) ==
  [transOutId |-> id, transOutIndex |-> index,
   address |-> out.address, amount |-> out.amount]

\* The hash covers the inputs (without signatures) and the outputs.
getTransactionId(t) == [transIns |-> t.transIns, transOuts |-> t.transOuts]

\* The reference an input needs to consume the unspent output u.
getInputFromUnspentTransOut(u) == OutPoint(u.transOutId, u.transOutIndex)

getTotalFromOutputVector(utxos) == MapThenSumSet(LAMBDA u : u.amount, utxos)

TotalOfTransOuts(outs) == MapThenSumSet(LAMBDA i : outs[i].amount, DOMAIN outs)

-----------------------------------------------------------------------------
(* Validation *)

\* A signature verifies exactly against the key of the wallet that made it.
signVerify(address, t) == t.signer = address

isValidTransIn(in, t, utxos) ==
  \E u \in utxos : /\ getInputFromUnspentTransOut(u) = in
                   /\ signVerify(u.address, t)

\* The unspent outputs that the inputs of t refer to.
ReferencedBy(t, utxos) ==
  {u \in utxos : getInputFromUnspentTransOut(u) \in t.transIns}

isValidTransaction(t, utxos) ==
  /\ \A in \in t.transIns : isValidTransIn(in, t, utxos)
  /\ TotalOfTransOuts(t.transOuts)
       = getTotalFromOutputVector(ReferencedBy(t, utxos))

isValidCoinbaseTransaction(t, blockIndex) ==
  /\ \E in \in t.transIns : /\ t.transIns = {in}
                            /\ in.transOutIndex = blockIndex
  /\ Len(t.transOuts) = 1
  /\ t.transOuts[1].amount = COINBASE_AMOUNT

\* Two transactions of the list consume the same output.
hasDuplicates(ts) ==
  \E i, j \in DOMAIN ts : i # j /\ ts[i].transIns \cap ts[j].transIns # {}

areValidBlockTransactions(ts, utxos, blockIndex) ==
  /\ isValidCoinbaseTransaction(ts[1], blockIndex)
  /\ ~hasDuplicates(ts)
  /\ \A i \in 2..Len(ts) : isValidTransaction(ts[i], utxos)

-----------------------------------------------------------------------------
(* The effect of a block on the unspent outputs *)

ConsumedBy(ts) == UNION {ts[i].transIns : i \in DOMAIN ts}

CreatedBy(ts) ==
  UNION {{UnspentTransOut(getTransactionId(ts[i]), k - 1, ts[i].transOuts[k]) :
            k \in DOMAIN ts[i].transOuts} : i \in DOMAIN ts}

\* Mutation: what a block consumes stays in the list.
updateUnspentTransOuts_OnlyAdds(ts, utxos) == utxos \cup CreatedBy(ts)

updateUnspentTransOuts(ts, utxos) ==
  {u \in utxos : getInputFromUnspentTransOut(u) \notin ConsumedBy(ts)}
    \cup CreatedBy(ts)

-----------------------------------------------------------------------------
(* Creation *)

getCoinbaseTransaction(address, blockIndex) ==
  [transIns  |-> {OutPoint(None, blockIndex)},
   transOuts |-> <<TransOut(address, COINBASE_AMOUNT)>>,
   signer    |-> None]

getUnspentTransOutsOfAddress(address, utxos) ==
  {u \in utxos : u.address = address}

\* Mutation: the pool is not looked at.
filterUnspentTransOuts_Unfiltered(utxos, pool) == utxos

\* The outputs that no transaction of the pool consumes already.
filterUnspentTransOuts(utxos, pool) ==
  {u \in utxos : getInputFromUnspentTransOut(u) \notin ConsumedBy(pool)}

\* Outputs are collected one by one until they reach the amount: the sum
\* falls short without the last one, unless there is no other.
getTransOutsForAmount(amount, mine) ==
  {included \in SUBSET mine :
     /\ getTotalFromOutputVector(included) >= amount
     /\ \E last \in included :
          \/ included = {last}
          \/ getTotalFromOutputVector(included \ {last}) < amount}

\* What is left over goes back to the sender, if it is anything.
createTransOuts(outs, myAddress, leftOverAmount) ==
  IF leftOverAmount = 0 THEN outs
  ELSE Append(outs, TransOut(myAddress, leftOverAmount))

\* Every transaction that may come out; the empty set is the exception
\* "not enough coins".
createTransactionWithMultipleOutputs(outs, myAddress, utxos, pool) ==
  LET amount == TotalOfTransOuts(outs)
      mine   == filterUnspentTransOuts(
                  getUnspentTransOutsOfAddress(myAddress, utxos), pool)
  IN  {[transIns  |-> {getInputFromUnspentTransOut(u) : u \in included},
        transOuts |-> createTransOuts(outs, myAddress,
                        getTotalFromOutputVector(included) - amount),
        signer    |-> myAddress] :
         included \in getTransOutsForAmount(amount, mine)}

createTransaction(receiver, amount, myAddress, utxos, pool) ==
  createTransactionWithMultipleOutputs(<<TransOut(receiver, amount)>>,
                                       myAddress, utxos, pool)
=============================================================================
