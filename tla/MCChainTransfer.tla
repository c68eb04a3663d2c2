-------------------------- MODULE MCChainTransfer --------------------------
(***************************************************************************)
(* Small instances of ChainTransfer for TLC: two nodes, no payments.       *)
(***************************************************************************)
EXTENDS ChainTransfer

CONSTANTS n1, n2

NoPayments == {}

Connection(from, to, number) == [from |-> from, to |-> to, number |-> number]

\* The first node answers the second.
OneConnection == {Connection(n1, n2, 1)}

\* Each node has opened a connection to the other, so that a broadcast query
\* is answered twice.
TwoConnections == {Connection(n1, n2, 1), Connection(n1, n2, 2)}
=============================================================================
