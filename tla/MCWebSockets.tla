---------------------------- MODULE MCWebSockets ----------------------------
(***************************************************************************)
(* A small instance of WebSockets for TLC.                                 *)
(***************************************************************************)
EXTENDS WebSockets

\* Of the client and in answers a payload that just fits the buffer, with a longer
\* length; in broadcasts one of the least size.
ShortBroadcasts == [s \in Sender |-> IF s = "other" THEN {1} ELSE {2}]

\* One message of each sender, and another broadcast.
TwoBroadcasts == [[s \in Sender |-> 1] EXCEPT !["other"] = 2]
=============================================================================
