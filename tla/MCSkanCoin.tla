----------------------------- MODULE MCSkanCoin -----------------------------
(***************************************************************************)
(* Small instances of SkanCoin for TLC: two wallets, coins worth one or    *)
(* two units, and a few payments.                                          *)
(***************************************************************************)
EXTENDS SkanCoin, TLC

CONSTANTS n1, n2

Payment(sender, outs) == [sender |-> sender, outs |-> outs]

\* Each wallet may pay one unit to the other.
CrossPayments ==
  {Payment(n1, <<TransOut(n2, 1)>>), Payment(n2, <<TransOut(n1, 1)>>)}

\* The first wallet pays the other, or both at once.
PaymentsWithChange ==
  {Payment(n1, <<TransOut(n2, 1)>>),
   Payment(n1, <<TransOut(n2, 1), TransOut(n1, 1)>>)}

\* Only the first wallet pays.
OnePayment == {Payment(n1, <<TransOut(n2, 1)>>)}

NoPayments == {}

\* The wallets are interchangeable when their payments are.
NodeSymmetry == Permutations(Nodes)
=============================================================================
