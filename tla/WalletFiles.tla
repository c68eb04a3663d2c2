---------------------------- MODULE WalletFiles -----------------------------
(***************************************************************************)
(* The two files that hold the keys of a node, and the start of the        *)
(* program up to its first block.  The chain is lost when the program      *)
(* stops, the wallet is meant to stay: SkanCoin!Restart relies on it.      *)
(*                                                                         *)
(* A file is Absent, Empty (opened, which truncates it, and not yet        *)
(* written) or holds one half of a pair of keys.  The text that an         *)
(* ofstream takes reaches the file when it is closed, at the end of        *)
(* saveKey.  Only one program runs in a folder, as the README asks.        *)
(***************************************************************************)
EXTENDS Naturals, Sequences

CONSTANTS
  Absent, Empty,   \* what a file may be besides a key
  GeneratorFails,  \* whether ecc_make_key may fail
  OpenFails,       \* whether a file may refuse to be opened for writing
  ReadFails,       \* whether a file that is there may refuse to be opened for
                   \* reading (permissions, too many open files)
  DiskFills,       \* whether the disk may be full when a file is closed
  Crashing,        \* whether the program may be stopped at any time
  MaxKeys          \* bound on the pairs of keys that are made

ASSUME WalletAssumption ==
  /\ MaxKeys \in Nat
  /\ Absent \notin Nat /\ Empty \notin Nat /\ Absent # Empty
  /\ {GeneratorFails, OpenFails, ReadFails, DiskFills, Crashing} \subseteq BOOLEAN

VARIABLES
  file,   \* the contents of public_key and of private_key
  pc,     \* where the program is, "off" before it starts
  made,   \* the pair of keys in memory
  saved,  \* how many files generateKeys has written
  keys,   \* how many pairs have been made
  missed  \* history, which no guard reads: a private key that did not open was
          \* taken for none, and the pair in its place is not complete yet

vars == <<file, pc, made, saved, keys, missed>>

Goto(label) == pc' = label

Pairs == 1..MaxKeys

\* Mutation: the private key is saved first.
SaveOrder_PrivateFirst == <<"private", "public">>

\* The order in which generateKeys saves the two keys.
SaveOrder == <<"public", "private">>

\* The file that is being saved.
Target == SaveOrder[saved + 1]

\* The program starts; each start makes at most one pair.
Start ==
  /\ pc = "off"
  /\ keys < MaxKeys
  /\ Goto("initWallet")
  /\ UNCHANGED <<file, made, saved, keys, missed>>

\* Mutation: an existing wallet is not looked for.
initWallet_Anew ==
  /\ pc = "initWallet"
  /\ Goto("generateKeys")
  /\ UNCHANGED <<file, made, saved, keys, missed>>

\* Mutation: the other file is looked for.
initWallet_PublicKey ==
  /\ pc = "initWallet"
  /\ Goto(IF file["public"] # Absent THEN "getGenesisBlock" ELSE "generateKeys")
  /\ UNCHANGED <<file, made, saved, keys, missed>>

\* Only the private key is looked for, and only whether its file opens: one that
\* is there and does not open counts as none.
initWallet ==
  /\ pc = "initWallet"
  /\ \/ file["private"] = Absent /\ Goto("generateKeys") /\ UNCHANGED missed
     \/ file["private"] # Absent /\ Goto("getGenesisBlock") /\ UNCHANGED missed
     \/ /\ ReadFails /\ file["private"] # Absent
        /\ Goto("generateKeys") /\ missed' = TRUE
  /\ UNCHANGED <<file, made, saved, keys>>

MakeKey ==
  /\ pc = "generateKeys"
  /\ keys' = keys + 1 /\ made' = keys + 1 /\ saved' = 0
  /\ Goto("open")
  /\ UNCHANGED <<file, missed>>

MakeKeyFails ==
  /\ GeneratorFails
  /\ pc = "generateKeys"
  /\ Goto("failed attempt")
  /\ UNCHANGED <<file, made, saved, keys, missed>>

\* Mutation: a failed attempt is not repeated, nor given up.
TryAgain_Never ==
  /\ pc = "failed attempt"
  /\ UNCHANGED vars

\* The attempts are meant to be counted; count stays 0 and is never above 5.
TryAgain ==
  /\ pc = "failed attempt"
  /\ Goto("generateKeys")
  /\ UNCHANGED <<file, made, saved, keys, missed>>

\* saveKey opens the file with trunc, or throws and the program ends.
OpenFile ==
  /\ pc = "open"
  /\ \/ Goto("close") /\ file' = [file EXCEPT ![Target] = Empty]
     \/ OpenFails /\ Goto("off") /\ UNCHANGED file
  /\ UNCHANGED <<made, saved, keys, missed>>

\* The end of saveKey.  Whether the key could be written is not looked at.
CloseFile ==
  /\ pc = "close"
  /\ \/ file' = [file EXCEPT ![Target] = made]
     \/ DiskFills /\ UNCHANGED file
  /\ saved' = saved + 1
  /\ Goto(IF saved' < Len(SaveOrder) THEN "open" ELSE "getGenesisBlock")
  /\ missed' = (missed /\ saved' < Len(SaveOrder))
  /\ UNCHANGED <<made, keys>>

\* The first block pays to the public key; an empty file gives an empty one.
\* When the file is not there or does not open, the program ends.
getGenesisBlock ==
  /\ pc = "getGenesisBlock"
  /\ \/ file["public"] # Absent /\ Goto("running")
     \/ (ReadFails \/ file["public"] = Absent) /\ Goto("off")
  /\ UNCHANGED <<file, made, saved, keys, missed>>

Crash ==
  /\ Crashing
  /\ pc # "off"
  /\ Goto("off")
  /\ UNCHANGED <<file, made, saved, keys, missed>>

Init ==
  /\ file = [k \in {"public", "private"} |-> Absent]
  /\ pc = "off"
  /\ made = 0 /\ saved = 0 /\ keys = 0 /\ missed = FALSE

ProgramStep ==
  \/ initWallet \/ MakeKey \/ MakeKeyFails \/ TryAgain
  \/ OpenFile \/ CloseFile \/ getGenesisBlock

Next == Start \/ ProgramStep \/ Crash

Spec == Init /\ [][Next]_vars

\* The program goes on, and ecc_make_key does not fail for ever.
FairSpec == Spec /\ WF_vars(ProgramStep) /\ SF_vars(MakeKey)

-----------------------------------------------------------------------------
(* Properties *)

\* However often the program was stopped between the two saves or a file could
\* not be opened for writing, a node that runs knows its address, and never has
\* the two halves of different pairs.  There is one way to those: a private key
\* that is there and does not open is taken for none (Wallet.cpp:163), and the
\* pair in its place was not saved to the end.  That the private key is there and
\* empty, as a stop before its close leaves it, is not excluded.
AddressOfOwnPair ==
  pc = "running" /\ ~missed => /\ file["public"] \in Pairs
                               /\ file["private"] \in {Empty, file["public"]}

\* The coins of a node stay its own: keys that were once complete are replaced,
\* or touched in a part, only by a start that could not open the private key.
CompleteWalletStays ==
  [][file["public"] = file["private"] /\ file["public"] \in Pairs
       => file' = file \/ missed]_vars

\* A wallet that initWallet accepts has a public key too, for which nobody looked:
\* the first block is never refused because that file is not there.
AcceptedWalletStarts == pc = "getGenesisBlock" => file["public"] # Absent

\* Each start of the program comes to an end, though nothing counts the failed
\* attempts of generateKeys, which the exception of Wallet.cpp:138 says are
\* limited: it takes a generator that does not fail for ever.
StartEnds == pc = "initWallet" ~> pc \in {"running", "off"}
=============================================================================
