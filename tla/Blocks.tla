------------------------------- MODULE Blocks -------------------------------
(***************************************************************************)
(* The pure functions on blocks and chains of Blockchain.cpp.              *)
(*                                                                         *)
(* A block stores no hash of its own: SHA-256 is taken to be collision     *)
(* free and the digest of a block is a wrapper of what is hashed, so that  *)
(* two digests are equal exactly when the hashed contents are.  The nonce  *)
(* is a function of the rest (mineBlock tries 0, 1, 2, ... and keeps the   *)
(* first that fits) and is left out.                                       *)
(***************************************************************************)
EXTENDS Transactions

CONSTANTS
  DIFFICULTY_ADJUSTMENT_INTERVAL,  \* blocks between two adjustments (10)
  BLOCK_CREATION_INTERVAL,         \* wanted seconds per block (10)
  TIMESTAMP_TOLERANCE,             \* accepted clock error in seconds (60)
  MAX_INT                          \* the largest int (2^31 - 1)

ASSUME IntervalAssumption ==
  /\ DIFFICULTY_ADJUSTMENT_INTERVAL \in Nat \ {0}
  /\ BLOCK_CREATION_INTERVAL \in Nat \ {0}
  /\ TIMESTAMP_TOLERANCE \in Nat
  /\ MAX_INT \in Nat

getLatestBlock(c) == c[Len(c)]

calculateHash(b) == [digestOf |-> b]

Block(index, previousHash, timestamp, data, difficulty) ==
  [index |-> index, previousHash |-> previousHash, timestamp |-> timestamp,
   data |-> data, difficulty |-> difficulty]

getGenesisBlock(address, time) ==
  Block(0, None, time, <<getCoinbaseTransaction(address, 0)>>, 0)

-----------------------------------------------------------------------------
(* Difficulty *)

\* The C++ quotient truncates; the expected time is positive.
computeNewDifficulty(latest, c) ==
  LET prevAdjustmentBlock == c[Len(c) - DIFFICULTY_ADJUSTMENT_INTERVAL + 1]
      timeExpected == BLOCK_CREATION_INTERVAL * DIFFICULTY_ADJUSTMENT_INTERVAL
      timeTaken    == latest.timestamp - prevAdjustmentBlock.timestamp
  IN  CASE timeTaken < timeExpected \div 2 -> prevAdjustmentBlock.difficulty + 1
        [] timeTaken > timeExpected * 2    -> prevAdjustmentBlock.difficulty - 1
        [] OTHER                           -> prevAdjustmentBlock.difficulty

getDifficulty(c) ==
  LET latest == getLatestBlock(c)
  IN  IF latest.index % DIFFICULTY_ADJUSTMENT_INTERVAL = 0 /\ latest.index # 0
      THEN computeNewDifficulty(latest, c)
      ELSE latest.difficulty

\* The conversion of a double to an int.  Out of the range of int it has no
\* defined outcome; x86 makes the least int of it.
ToInt(n) == IF n \in -MAX_INT - 1 .. MAX_INT THEN n ELSE -MAX_INT - 1

\* pow(2, d), for d >= 0.
pow2[d \in Nat] == IF d = 0 THEN 1 ELSE 2 * pow2[d - 1]

\* res += pow(2, d), for an int res: the fraction that a negative d gives is cut
\* off towards zero.
AddWork(res, d) ==
  IF d >= 0 THEN ToInt(res + pow2[d]) ELSE IF res < 0 THEN res + 1 ELSE res

getAccumulatedDifficulty(c) ==
  LET res[i \in 0..Len(c)] ==
        IF i = 0 THEN 0 ELSE AddWork(res[i - 1], c[i].difficulty)
  IN  res[Len(c)]

\* What the mining of a chain has cost, without the limit of an int.
Work(c) ==
  MapThenSumSet(LAMBDA i : IF c[i].difficulty < 0 THEN 0 ELSE pow2[c[i].difficulty], DOMAIN c)

HashBits == 256

\* A digest is told by its leading zeros.  A negative difficulty becomes the
\* length of the longest substring, the whole digest, which is compared with
\* an empty prefix and differs from it.
hashDifficultyCheck(zeros, difficulty) == difficulty >= 0 /\ zeros >= difficulty

-----------------------------------------------------------------------------
(* Validation *)

isValidTimestamp(b, previous, now) ==
  /\ previous.timestamp - TIMESTAMP_TOLERANCE < b.timestamp
  /\ b.timestamp - TIMESTAMP_TOLERANCE < now

\* Mutation: the hash of the previous block is not compared.
isBlockValid_AnyParent(b, previous, now) ==
  /\ previous.index + 1 = b.index
  /\ isValidTimestamp(b, previous, now)

\* The proof of work is not part of it: hasValidHash only reports a digest
\* that misses the difficulty.
isBlockValid(b, previous, now) ==
  /\ previous.index + 1 = b.index
  /\ calculateHash(previous) = b.previousHash
  /\ isValidTimestamp(b, previous, now)

\* The unspent outputs after each block of c, from none before the first.
UtxoAfter(c) ==
  LET after[i \in 0..Len(c)] ==
        IF i = 0 THEN {}
        ELSE updateUnspentTransOuts(c[i].data, after[i - 1])
  IN  after

\* The test of the first block is the code's: a chain is refused when it
\* starts with the very block this node would generate now.
isBlockchainValid(c, address, now) ==
  LET after == UtxoAfter(c)
  IN  /\ c[1] # getGenesisBlock(address, now)
      /\ \A i \in 2..Len(c) : isBlockValid(c[i], c[i - 1], now)
      /\ \A i \in 1..Len(c) :
           areValidBlockTransactions(c[i].data, after[i - 1], c[i].index)

\* What replaceChain requires of a chain before it validates it: more work,
\* or the same work and an earlier last block.  Two genesis blocks have the
\* same work.
isBetterChain(new, local) ==
  LET newDiff   == getAccumulatedDifficulty(new)
      localDiff == getAccumulatedDifficulty(local)
  IN  \/ newDiff > localDiff
      \/ /\ newDiff = localDiff
         /\ getLatestBlock(local).timestamp > getLatestBlock(new).timestamp

-----------------------------------------------------------------------------
(* Each block of c points at the one before it. *)
Linked(c) ==
  /\ c[1].index = 0
  /\ \A i \in 2..Len(c) : /\ c[i].index = c[i - 1].index + 1
                          /\ c[i].previousHash = calculateHash(c[i - 1])
=============================================================================
