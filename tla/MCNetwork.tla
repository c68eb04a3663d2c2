----------------------------- MODULE MCNetwork ------------------------------
(***************************************************************************)
(* A small instance of Network for TLC.                                    *)
(***************************************************************************)
EXTENDS Network

CONSTANTS n1, n2

Payment(sender, outs) == [sender |-> sender, outs |-> outs]

OnePayment == {Payment(n1, <<TransOut(n2, 1)>>)}
=============================================================================
