------------------------- MODULE WalletFilesProofs --------------------------
(***************************************************************************)
(* Proofs about WalletFiles, for any number of starts and crashes.         *)
(***************************************************************************)
EXTENDS WalletFiles, TLAPS

\* What a file of a wallet may hold: a key, nothing, or it does not exist.
Files == [{"public", "private"} -> Nat \cup {Absent, Empty}]

\* The steps of a start.
Labels == {"off", "initWallet", "generateKeys", "failed attempt", "open", "close",
           "getGenesisBlock", "running"}

\* Every variable has its type.
Typed ==
  /\ file \in Files /\ pc \in Labels
  /\ made \in Nat /\ saved \in Nat /\ keys \in Nat /\ missed \in BOOLEAN

\* No private key is there, or none that a start could open.
NoneFound == file["private"] = Absent \/ missed

\* Before the first save a start has found no private key.
Making ==
  /\ pc \in {"initWallet", "generateKeys", "failed attempt"} => keys < MaxKeys
  /\ pc \in {"generateKeys", "failed attempt"} => NoneFound

\* The private key is saved after the public key of the same pair.
Saving ==
  pc \in {"open", "close"} =>
    /\ made \in Pairs
    /\ \/ /\ saved = 0 /\ NoneFound
          /\ pc = "close" => file["public"] = Empty
       \/ /\ saved = 1
          /\ pc = "open" => NoneFound
          /\ pc = "close" => file["private"] = Empty
          /\ file["public"] # Absent
          /\ ~DiskFills => file["public"] = made

\* A file of the private key, even an empty one, comes with a public key: of the
\* same pair, unless a start missed it.
Kept ==
  /\ pc \in {"getGenesisBlock", "running"} => file["private"] # Absent
  /\ file["private"] # Absent =>
       /\ file["public"] # Absent
       /\ ~DiskFills /\ ~missed => /\ file["public"] \in Pairs
                                  /\ file["private"] \in {Empty, file["public"]}

\* The inductive invariant.
WalletInv == Typed /\ Making /\ Saving /\ Kept

\* The targets of the two saves.
LEMMA Targets ==
  /\ Len(SaveOrder) = 2
  /\ saved = 0 => Target = "public"
  /\ saved = 1 => Target = "private"
BY DEF SaveOrder, Target

\* It holds before the first start.
LEMMA WalletInit == Init => WalletInv
<1> SUFFICES ASSUME Init PROVE WalletInv
  OBVIOUS
<1>1. file \in Files
  BY DEF Init, Files
<1>2. Typed
  BY <1>1 DEF Init, Typed, Labels
<1> QED BY <1>2 DEF Init, WalletInv, Making, Saving, Kept

\* Every step keeps the invariant.
LEMMA WalletStep == WalletInv /\ [Next]_vars => WalletInv'
<1> SUFFICES ASSUME WalletInv, [Next]_vars PROVE WalletInv'
  OBVIOUS
<1> USE WalletAssumption DEF WalletInv, Typed, Files, Labels, Goto, Pairs
<1>1. CASE Start
  BY <1>1 DEF Start, Making, Saving, Kept, NoneFound
<1>2. CASE initWallet
  BY <1>2 DEF initWallet, Making, Saving, Kept, NoneFound
<1>3. CASE MakeKey
  BY <1>3 DEF MakeKey, Making, Saving, Kept, NoneFound
<1>4. CASE MakeKeyFails
  BY <1>4 DEF MakeKeyFails, Making, Saving, Kept, NoneFound
<1>5. CASE TryAgain
  BY <1>5 DEF TryAgain, Making, Saving, Kept, NoneFound
<1>6. CASE OpenFile
  <2>1. made \in Pairs /\ saved \in {0, 1}
    BY <1>6 DEF OpenFile, Saving
  <2>2. CASE file' = file /\ pc' = "off"
    BY <1>6, <2>1, <2>2 DEF OpenFile, Making, Saving, Kept, NoneFound
  <2>3. CASE pc' = "close" /\ file' = [file EXCEPT ![Target] = Empty]
    <3>1. CASE saved = 0
      BY <1>6, <2>1, <2>3, <3>1, Targets DEF OpenFile, Making, Saving, Kept, NoneFound
    <3>2. CASE saved = 1
      BY <1>6, <2>1, <2>3, <3>2, Targets DEF OpenFile, Making, Saving, Kept, NoneFound
    <3> QED BY <2>1, <3>1, <3>2
  <2> QED BY <1>6, <2>2, <2>3 DEF OpenFile
<1>7. CASE CloseFile
  <2>1. made \in Pairs /\ saved \in {0, 1}
    BY <1>7 DEF CloseFile, Saving
  <2>2. CASE saved = 0
    <3>1. pc' = "open" /\ saved' = 1 /\ file'["private"] = file["private"]
          /\ missed' = missed /\ NoneFound
      BY <1>7, <2>2, Targets DEF CloseFile, Saving
    <3>2. file'["public"] \in Nat \cup {Absent, Empty} /\ file' \in Files
      BY <1>7, <2>1, <2>2, Targets DEF CloseFile
    <3>3. file'["public"] # Absent /\ (~DiskFills => file'["public"] = made)
      BY <1>7, <2>1, <2>2, Targets DEF CloseFile, Saving
    <3> QED BY <1>7, <2>1, <3>1, <3>2, <3>3 DEF CloseFile, Making, Saving, Kept, NoneFound
  <2>3. CASE saved = 1
    <3>0. saved' = 2 /\ ~(saved' < Len(SaveOrder))
      BY <1>7, <2>3, Targets DEF CloseFile
    <3>1. pc' = "getGenesisBlock" /\ file'["public"] = file["public"]
      BY <1>7, <2>3, <3>0, Targets DEF CloseFile
    <3>4. missed' = FALSE
      BY <1>7, <3>0 DEF CloseFile
    <3>2. file'["private"] \in {Empty, made} /\ (~DiskFills => file'["private"] = made)
      BY <1>7, <2>3, Targets DEF CloseFile, Saving
    <3> QED
      BY <1>7, <2>1, <2>3, <3>0, <3>1, <3>2, <3>4, Targets
      DEF CloseFile, Making, Saving, Kept, NoneFound
  <2> QED BY <2>1, <2>2, <2>3
<1>8. CASE getGenesisBlock
  BY <1>8 DEF getGenesisBlock, Making, Saving, Kept, NoneFound
<1>9. CASE Crash
  BY <1>9 DEF Crash, Making, Saving, Kept, NoneFound
<1>10. CASE UNCHANGED vars
  BY <1>10 DEF vars, Making, Saving, Kept, NoneFound
<1> QED
  BY <1>1, <1>2, <1>3, <1>4, <1>5, <1>6, <1>7, <1>8, <1>9, <1>10
  DEF Next, ProgramStep

\* What holds of the files and of the program at every moment.
THEOREM WalletInvariance == Spec => []WalletInv
BY WalletInit, WalletStep, PTL DEF Spec

\* A wallet that initWallet accepts always lets the program start, even when
\* the disk was full (Wallet.cpp:157-178 and Blockchain.cpp:23-36).
THEOREM AcceptedStarts == Spec => []AcceptedWalletStarts
<1>1. WalletInv => AcceptedWalletStarts
  BY DEF WalletInv, Kept, AcceptedWalletStarts
<1> QED BY <1>1, WalletInvariance, PTL

\* As long as no disk is full, a running node has the address of a pair it has
\* made, and no half of another pair (Wallet.cpp:122-152), unless a start took a
\* private key that did not open for none (Wallet.cpp:163) and the new pair was
\* not saved to the end.
THEOREM RunsWithOwnPair ==
  ASSUME DiskFills = FALSE
  PROVE  Spec => []AddressOfOwnPair
<1>1. WalletInv => AddressOfOwnPair
  BY DEF WalletInv, Kept, AddressOfOwnPair
<1> QED BY <1>1, WalletInvariance, PTL

\* Keys that were once complete are never touched again, whatever fails, but by a
\* start that could not open the private key (Wallet.cpp:157-178).
THEOREM CompleteStays == Spec => CompleteWalletStays
<1>1. ASSUME WalletInv, [Next]_vars,
             file["public"] = file["private"], file["public"] \in Pairs
      PROVE  file' = file \/ missed
  <2>1. file["private"] # Absent /\ file["private"] # Empty
    BY <1>1, WalletAssumption DEF Pairs
  <2>2. pc \in {"open", "close"} => missed /\ pc = "open"
    BY <1>1, <2>1 DEF WalletInv, Saving, NoneFound
  <2> QED
    BY <1>1, <2>2 DEF Next, ProgramStep, vars, Start, initWallet, MakeKey,
       MakeKeyFails, TryAgain, OpenFile, CloseFile, getGenesisBlock, Crash
<1>2. WalletInv /\ [Next]_vars =>
        [file["public"] = file["private"] /\ file["public"] \in Pairs
           => file' = file \/ missed]_vars
  BY <1>1
<1> QED BY <1>2, WalletInvariance, PTL DEF Spec, CompleteWalletStays
=============================================================================
