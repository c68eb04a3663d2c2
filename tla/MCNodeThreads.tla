--------------------------- MODULE MCNodeThreads ----------------------------
(***************************************************************************)
(* Small instances of NodeThreads for TLC.                                 *)
(***************************************************************************)
EXTENDS NodeThreads

CONSTANTS me, you, server, client

Payment(sender, outs) == [sender |-> sender, outs |-> outs]

OwnPayment == {Payment(me, <<TransOut(you, 1)>>)}

CrossPayments == OwnPayment \cup {Payment(you, <<TransOut(me, 1)>>)}

NoPayments == {}
=============================================================================
