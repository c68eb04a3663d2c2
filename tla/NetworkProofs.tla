--------------------------- MODULE NetworkProofs ----------------------------
(***************************************************************************)
(* Network implements SkanCoin: what is in a queue is something that some  *)
(* node has held or sent, so each handler is a step of SkanCoin or none.   *)
(* And enough is said: two peers agree on their chains and transactions,   *)
(* or a message is under way that has one of them ask or take.             *)
(***************************************************************************)
EXTENDS Network, BlocksProofs

-----------------------------------------------------------------------------
(* SkanCoin has the functions on blocks and transactions from the modules that *)
(* Network has them from, and so they are the same.                            *)

\* The last block of a chain.
LEMMA SameLatest == \A c : Abstract!getLatestBlock(c) = getLatestBlock(c)
  BY DEF getLatestBlock, Abstract!getLatestBlock

\* The digest of a block.
LEMMA SameHash == \A b : Abstract!calculateHash(b) = calculateHash(b)
  BY DEF calculateHash, Abstract!calculateHash

\* The first block of a chain.
LEMMA SameGenesis == \A n, time : Abstract!getGenesisBlock(n, time) = getGenesisBlock(n, time)
  BY DEF getGenesisBlock, Abstract!getGenesisBlock, Block, Abstract!Block,
         getCoinbaseTransaction, Abstract!getCoinbaseTransaction, OutPoint, Abstract!OutPoint,
         TransOut, Abstract!TransOut

\* The unspent outputs after the transactions of a block.
LEMMA SameUpdateUtxo ==
  \A ts, us : Abstract!updateUnspentTransOuts(ts, us) = updateUnspentTransOuts(ts, us)
  BY DEF updateUnspentTransOuts, Abstract!updateUnspentTransOuts, ConsumedBy,
         Abstract!ConsumedBy,
         CreatedBy, Abstract!CreatedBy, UnspentTransOut, Abstract!UnspentTransOut,
         getTransactionId, Abstract!getTransactionId, getInputFromUnspentTransOut,
         Abstract!getInputFromUnspentTransOut, OutPoint, Abstract!OutPoint

\* What stays of a pool.
LEMMA SameUpdatePool == \A p, u : Abstract!updatePool(p, u) = updatePool(p, u)
  BY DEF updatePool, Abstract!updatePool, keepTransaction, Abstract!keepTransaction,
         hasTransIns, Abstract!hasTransIns, getInputFromUnspentTransOut,
         Abstract!getInputFromUnspentTransOut, OutPoint, Abstract!OutPoint

\* The unspent outputs after each block of a chain.
LEMMA SameUtxoAfter == \A c : Abstract!UtxoAfter(c) = UtxoAfter(c)
  BY DEF UtxoAfter, Abstract!UtxoAfter,
         updateUnspentTransOuts, Abstract!updateUnspentTransOuts, ConsumedBy,
         Abstract!ConsumedBy,
         CreatedBy, Abstract!CreatedBy, UnspentTransOut, Abstract!UnspentTransOut,
         getTransactionId, Abstract!getTransactionId, getInputFromUnspentTransOut,
         Abstract!getInputFromUnspentTransOut, OutPoint, Abstract!OutPoint

\* The test of a block against the one before it.
LEMMA SameBlockValid ==
  \A b, c, now : Abstract!isBlockValid(b, c, now) = isBlockValid(b, c, now)
  BY DEF isBlockValid, Abstract!isBlockValid, isValidTimestamp,
         Abstract!isValidTimestamp, calculateHash, Abstract!calculateHash

\* The test of the transactions of a block.
LEMMA SameBlockTransactions ==
  \A ts, us, i :
    Abstract!areValidBlockTransactions(ts, us, i) = areValidBlockTransactions(ts, us, i)
  BY DEF areValidBlockTransactions, Abstract!areValidBlockTransactions,
         isValidCoinbaseTransaction, Abstract!isValidCoinbaseTransaction, hasDuplicates,
         Abstract!hasDuplicates, isValidTransaction, Abstract!isValidTransaction,
         isValidTransIn, Abstract!isValidTransIn, signVerify, Abstract!signVerify,
         ReferencedBy, Abstract!ReferencedBy, getTotalFromOutputVector,
         Abstract!getTotalFromOutputVector, MapThenSumSet, Abstract!MapThenSumSet,
         MapThenFoldSet, Abstract!MapThenFoldSet, TotalOfTransOuts,
         Abstract!TotalOfTransOuts,
         getInputFromUnspentTransOut, Abstract!getInputFromUnspentTransOut, OutPoint,
         Abstract!OutPoint

\* The test of a whole chain.
LEMMA SameChainValid ==
  \A c, n, now : Abstract!isBlockchainValid(c, n, now) = isBlockchainValid(c, n, now)
  BY DEF isBlockchainValid, Abstract!isBlockchainValid, isBlockValid,
         Abstract!isBlockValid, isValidTimestamp, Abstract!isValidTimestamp,
         calculateHash, Abstract!calculateHash, getGenesisBlock,
         Abstract!getGenesisBlock, Block, Abstract!Block, getCoinbaseTransaction,
         Abstract!getCoinbaseTransaction, TransOut, Abstract!TransOut, UtxoAfter,
         Abstract!UtxoAfter, updateUnspentTransOuts, Abstract!updateUnspentTransOuts,
         ConsumedBy, Abstract!ConsumedBy, CreatedBy, Abstract!CreatedBy, UnspentTransOut,
         Abstract!UnspentTransOut, getTransactionId, Abstract!getTransactionId,
         areValidBlockTransactions, Abstract!areValidBlockTransactions,
         isValidCoinbaseTransaction, Abstract!isValidCoinbaseTransaction, hasDuplicates,
         Abstract!hasDuplicates, isValidTransaction, Abstract!isValidTransaction,
         isValidTransIn, Abstract!isValidTransIn, signVerify, Abstract!signVerify,
         ReferencedBy, Abstract!ReferencedBy, getTotalFromOutputVector,
         Abstract!getTotalFromOutputVector, MapThenSumSet, Abstract!MapThenSumSet,
         MapThenFoldSet, Abstract!MapThenFoldSet, TotalOfTransOuts,
         Abstract!TotalOfTransOuts,
         getInputFromUnspentTransOut, Abstract!getInputFromUnspentTransOut, OutPoint,
         Abstract!OutPoint

\* The comparison of two chains.
LEMMA SameBetter ==
  \A c, d : Abstract!isBetterChain(c, d) = isBetterChain(c, d)
  BY DEF isBetterChain, Abstract!isBetterChain, getAccumulatedDifficulty,
         Abstract!getAccumulatedDifficulty, AddWork, Abstract!AddWork, ToInt,
         Abstract!ToInt, pow2, Abstract!pow2, getLatestBlock, Abstract!getLatestBlock

\* The test of a transaction for a pool.
LEMMA SamePoolAccepts ==
  \A t, p, u : Abstract!addToPoolAccepts(t, p, u) = addToPoolAccepts(t, p, u)
  BY DEF addToPoolAccepts, Abstract!addToPoolAccepts, isValidTransForPool,
         Abstract!isValidTransForPool, ConsumedBy, Abstract!ConsumedBy,
         isValidTransaction, Abstract!isValidTransaction, isValidTransIn,
         Abstract!isValidTransIn, signVerify, Abstract!signVerify, ReferencedBy,
         Abstract!ReferencedBy, getTotalFromOutputVector, Abstract!getTotalFromOutputVector,
         MapThenSumSet, Abstract!MapThenSumSet, MapThenFoldSet, Abstract!MapThenFoldSet,
         TotalOfTransOuts, Abstract!TotalOfTransOuts,
         getInputFromUnspentTransOut, Abstract!getInputFromUnspentTransOut, OutPoint,
         Abstract!OutPoint

\* The transactions that a payment can become.
LEMMA SameCreated ==
  \A r, a, n, u, p : Abstract!createTransaction(r, a, n, u, p) = createTransaction(r, a, n, u, p)
  BY DEF createTransaction, Abstract!createTransaction,
         createTransactionWithMultipleOutputs,
         Abstract!createTransactionWithMultipleOutputs, TotalOfTransOuts,
         Abstract!TotalOfTransOuts, filterUnspentTransOuts,
         Abstract!filterUnspentTransOuts, ConsumedBy, Abstract!ConsumedBy,
         getUnspentTransOutsOfAddress, Abstract!getUnspentTransOutsOfAddress,
         getInputFromUnspentTransOut, Abstract!getInputFromUnspentTransOut, OutPoint,
         Abstract!OutPoint, createTransOuts, Abstract!createTransOuts, TransOut,
         Abstract!TransOut, getTotalFromOutputVector, Abstract!getTotalFromOutputVector,
         MapThenSumSet, Abstract!MapThenSumSet, MapThenFoldSet, Abstract!MapThenFoldSet,
         getTransOutsForAmount, Abstract!getTransOutsForAmount

\* The transactions that a payment to several can become.
LEMMA SameCreatedOfMany ==
  \A o, n, u, p : Abstract!createTransactionWithMultipleOutputs(o, n, u, p)
                    = createTransactionWithMultipleOutputs(o, n, u, p)
  BY DEF createTransactionWithMultipleOutputs,
         Abstract!createTransactionWithMultipleOutputs, TotalOfTransOuts,
         Abstract!TotalOfTransOuts, filterUnspentTransOuts,
         Abstract!filterUnspentTransOuts, ConsumedBy, Abstract!ConsumedBy,
         getUnspentTransOutsOfAddress, Abstract!getUnspentTransOutsOfAddress,
         getInputFromUnspentTransOut, Abstract!getInputFromUnspentTransOut, OutPoint,
         Abstract!OutPoint, createTransOuts, Abstract!createTransOuts, TransOut,
         Abstract!TransOut, getTotalFromOutputVector, Abstract!getTotalFromOutputVector,
         MapThenSumSet, Abstract!MapThenSumSet, MapThenFoldSet, Abstract!MapThenFoldSet,
         getTransOutsForAmount, Abstract!getTransOutsForAmount

\* The difficulty of the next block.
LEMMA SameDifficulty ==
  \A c : Abstract!getDifficulty(c) = getDifficulty(c)
  BY DEF getDifficulty, Abstract!getDifficulty, computeNewDifficulty,
         Abstract!computeNewDifficulty, getLatestBlock, Abstract!getLatestBlock

\* The coinbase of a block.
LEMMA SameCoinbase ==
  \A n, i : Abstract!getCoinbaseTransaction(n, i) = getCoinbaseTransaction(n, i)
  BY DEF getCoinbaseTransaction, Abstract!getCoinbaseTransaction, OutPoint,
         Abstract!OutPoint, TransOut, Abstract!TransOut

\* The digests that end the mining of a block.
LEMMA SameFitting ==
  \A b : Abstract!FittingDigests(b) = FittingDigests(b)
  BY DEF FittingDigests, Abstract!FittingDigests, HashBits, Abstract!HashBits,
         hashDifficultyCheck, Abstract!hashDifficultyCheck

\* The size of a set is the same in either.
LEMMA SameCardinality == \A S : Abstract!Cardinality(S) = Cardinality(S)
  BY DEF Cardinality, Abstract!Cardinality

-----------------------------------------------------------------------------
(* What a node holds, what is in a queue *)

\* A state of a node has the fields of one.
IsNode(s) == s = [chain |-> s.chain, utxo |-> s.utxo, pool |-> s.pool, mining |-> s.mining]

\* The chain of a node is one of H, the transactions of its pool are from S.
HeldNode(s, H, S) ==
  /\ IsNode(s) /\ s.chain \in H
  /\ IsSeq(s.pool) /\ \A i \in DOMAIN s.pool : s.pool[i] \in S

\* A chain, or its last block.
KnownBlocks(blocks, H) == blocks \in H \/ \E c \in H : blocks = <<getLatestBlock(c)>>

\* What a message carries is one of H or its last block, or from S.
KnownMessage(x, H, S) ==
  /\ x.type \in {"RESPONSE_LATEST", "RESPONSE_BLOCKCHAIN"} => KnownBlocks(x.blocks, H)
  /\ x.type = "RESPONSE_POOL" => x.transaction \in S

\* So does every message of a queue.
KnownQueue(q, H, S) == IsSeq(q) /\ \A i \in DOMAIN q : KnownMessage(q[i], H, S)

\* And of every queue.
KnownQueues(l, H, S) ==
  /\ l = [p \in Pairs |-> l[p]]
  /\ \A p \in Pairs : KnownQueue(l[p], H, S)

\* The chains and the pools of the nodes are among what is held and sent.
NodesInv ==
  /\ node = [n \in Nodes |-> node[n]]
  /\ \A n \in Nodes : HeldNode(node[n], heldChains, sentTransactions)
  /\ \A c \in heldChains : IsSeq(c)

\* So is what is on its way.
LinkInv == KnownQueues(link, heldChains, sentTransactions)

\* The inductive invariant.
NetworkInv == NodesInv /\ LinkInv

\* Queues one after the other.
LEMMA KnownConcat ==
  ASSUME NEW H, NEW S, NEW a, KnownQueue(a, H, S), NEW b, KnownQueue(b, H, S)
  PROVE  KnownQueue(a \o b, H, S)
<1> DEFINE K == {a[i] : i \in DOMAIN a} \cup {b[i] : i \in DOMAIN b}
<1>1. a \in Seq(K) /\ b \in Seq(K)
  BY DEF KnownQueue, IsSeq
<1>2. \A x \in K : KnownMessage(x, H, S)
  BY DEF KnownQueue
<1> HIDE DEF K
<1>3. a \o b \in Seq(K)
  BY <1>1
<1> SUFFICES ASSUME NEW q \in Seq(K) PROVE KnownQueue(q, H, S)
  BY <1>3
<1>4. \A i \in DOMAIN q : q[i] \in K
  OBVIOUS
<1> QED BY <1>2, <1>4, SeqIsSeq DEF KnownQueue

\* The first of a queue, and the rest.
LEMMA KnownTail ==
  ASSUME NEW H, NEW S, NEW a, KnownQueue(a, H, S), a # <<>>
  PROVE  KnownMessage(Head(a), H, S) /\ KnownQueue(Tail(a), H, S)
<1> DEFINE K == {a[i] : i \in DOMAIN a}
<1>1. a \in Seq(K)
  BY DEF KnownQueue, IsSeq
<1>2. \A x \in K : KnownMessage(x, H, S)
  BY DEF KnownQueue
<1> HIDE DEF K
<1>3. Head(a) \in K /\ Tail(a) \in Seq(K)
  BY <1>1
<1> SUFFICES ASSUME NEW q \in Seq(K) PROVE KnownQueue(q, H, S)
  BY <1>2, <1>3
<1>4. \A i \in DOMAIN q : q[i] \in K
  OBVIOUS
<1> QED BY <1>2, <1>4, SeqIsSeq DEF KnownQueue

\* What is known stays known.
LEMMA MoreKnown ==
  ASSUME NEW H, NEW S, NEW G, H \subseteq G, NEW T, S \subseteq T
  PROVE  /\ \A s : HeldNode(s, H, S) => HeldNode(s, G, T)
         /\ \A q : KnownQueue(q, H, S) => KnownQueue(q, G, T)
         /\ \A l : KnownQueues(l, H, S) => KnownQueues(l, G, T)
<1>1. \A s : HeldNode(s, H, S) => HeldNode(s, G, T)
  BY DEF HeldNode
<1>2. \A x : KnownMessage(x, H, S) => KnownMessage(x, G, T)
  BY DEF KnownMessage, KnownBlocks
<1>3. \A q : KnownQueue(q, H, S) => KnownQueue(q, G, T)
  BY <1>2 DEF KnownQueue
<1> QED BY <1>1, <1>3 DEF KnownQueues

\* A queue of one message or of two.
LEMMA KnownShort ==
  ASSUME NEW H, NEW S, NEW x, KnownMessage(x, H, S), NEW y, KnownMessage(y, H, S)
  PROVE  KnownQueue(<<x>>, H, S) /\ KnownQueue(<<x, y>>, H, S) /\ KnownQueue(<<>>, H, S)
<1>1. \A q \in Seq({x, y}) : KnownQueue(q, H, S)
  <2> SUFFICES ASSUME NEW q \in Seq({x, y}) PROVE KnownQueue(q, H, S)
    OBVIOUS
  <2>1. \A i \in DOMAIN q : q[i] \in {x, y}
    OBVIOUS
  <2> QED BY <2>1, SeqIsSeq DEF KnownQueue
<1>2. <<x>> \in Seq({x, y}) /\ <<x, y>> \in Seq({x, y}) /\ <<>> \in Seq({x, y})
  OBVIOUS
<1> QED BY <1>1, <1>2

\* Sending known messages to all peers, or to one, keeps the queues known.
LEMMA KnownSent ==
  ASSUME NEW H, NEW S, NEW l, KnownQueues(l, H, S), NEW ms, KnownQueue(ms, H, S)
  PROVE  /\ \A n : KnownQueues(broadcast(l, n, ms), H, S)
         /\ \A n, m : <<n, m>> \in Pairs => KnownQueues(answer(l, n, m, ms), H, S)
<1>1. \A p \in Pairs : KnownQueue(l[p], H, S) /\ KnownQueue(l[p] \o ms, H, S)
  BY KnownConcat DEF KnownQueues
<1>2. ASSUME NEW n PROVE KnownQueues(broadcast(l, n, ms), H, S)
  <2> SUFFICES ASSUME NEW k, k = broadcast(l, n, ms) PROVE KnownQueues(k, H, S)
    OBVIOUS
  <2>1. k = [p \in Pairs |-> IF p[1] = n /\ p \in joined THEN l[p] \o ms ELSE l[p]]
    BY DEF broadcast
  <2>2. \A p \in Pairs : k[p] = l[p] \o ms \/ k[p] = l[p]
    BY <2>1
  <2> QED BY <1>1, <2>1, <2>2 DEF KnownQueues
<1>3. ASSUME NEW n, NEW m, <<n, m>> \in Pairs PROVE KnownQueues(answer(l, n, m, ms), H, S)
  <2> SUFFICES ASSUME NEW k, k = answer(l, n, m, ms) PROVE KnownQueues(k, H, S)
    OBVIOUS
  <2>1. /\ \A p \in Pairs : k[p] = IF p = <<n, m>> THEN l[p] \o ms ELSE l[p]
        /\ k = [p \in Pairs |-> k[p]]
    BY DEF answer, KnownQueues
  <2> QED BY <1>1, <1>3, <2>1 DEF KnownQueues
<1> QED BY <1>2, <1>3

\* The messages of the program.
LEMMA KnownMessages ==
  ASSUME NEW H, NEW S
  PROVE  /\ \A h : KnownMessage(QueryLatest(h), H, S)
         /\ KnownMessage(QueryBlockchain, H, S) /\ KnownMessage(QueryPool, H, S)
         /\ \A c \in H : /\ KnownMessage(ResponseLatest(getLatestBlock(c)), H, S)
                         /\ KnownMessage(ResponseBlockchain(c), H, S)
                         /\ KnownQueue(News(c), H, S)
         /\ \A s : HeldNode(s, H, S) => KnownQueue(responsePoolMsgs(s.pool), H, S)
<1>1. \A h : KnownMessage(QueryLatest(h), H, S)
  BY DEF KnownMessage, QueryLatest
<1>2. KnownMessage(QueryBlockchain, H, S) /\ KnownMessage(QueryPool, H, S)
  BY DEF KnownMessage, QueryBlockchain, QueryPool
<1>3. ASSUME NEW c \in H
      PROVE  /\ KnownMessage(ResponseLatest(getLatestBlock(c)), H, S)
             /\ KnownMessage(ResponseBlockchain(c), H, S)
  BY DEF KnownMessage, KnownBlocks, ResponseLatest, ResponseBlockchain
<1>4. \A c \in H : KnownQueue(News(c), H, S)
  BY <1>2, <1>3, KnownShort DEF News
<1>5. ASSUME NEW s, HeldNode(s, H, S) PROVE KnownQueue(responsePoolMsgs(s.pool), H, S)
  <2> DEFINE p == s.pool
             K == {ResponsePool(t) : t \in S}
  <2>1. Len(p) \in Nat /\ DOMAIN p = 1..Len(p) /\ \A i \in DOMAIN p : p[i] \in S
    BY <1>5, IsSeqShape DEF HeldNode
  <2> SUFFICES ASSUME NEW q, q = [i \in 1..Len(p) |-> ResponsePool(p[i])]
      PROVE KnownQueue(q, H, S)
    BY <2>1 DEF responsePoolMsgs
  <2>2. \A i \in 1..Len(p) : q[i] = ResponsePool(p[i]) /\ q[i] \in K
    BY <2>1
  <2>3. \A x \in K : KnownMessage(x, H, S)
    BY DEF KnownMessage, ResponsePool
  <2> HIDE DEF K, p
  <2>4. q \in [1..Len(p) -> K]
    BY <2>2
  <2>5. q \in Seq(K) /\ DOMAIN q = 1..Len(p)
    BY <2>1, <2>4, SeqDef
  <2> QED BY <2>2, <2>3, <2>5, SeqIsSeq DEF KnownQueue
<1> QED BY <1>1, <1>2, <1>3, <1>4, <1>5

-----------------------------------------------------------------------------
(* What SkanCoin sees of a step *)

\* One field of a function of the nodes whose value at n has become s.
LEMMA FieldsUpdated ==
  ASSUME NEW a, NEW b, NEW n \in Nodes, NEW s,
         \A m \in Nodes : b[m] = IF m = n THEN s ELSE a[m]
  PROVE  /\ [m \in Nodes |-> b[m].chain] = [[m \in Nodes |-> a[m].chain] EXCEPT ![n] = s.chain]
         /\ [m \in Nodes |-> b[m].utxo] = [[m \in Nodes |-> a[m].utxo] EXCEPT ![n] = s.utxo]
         /\ [m \in Nodes |-> b[m].pool] = [[m \in Nodes |-> a[m].pool] EXCEPT ![n] = s.pool]
         /\ [m \in Nodes |-> b[m].mining]
              = [[m \in Nodes |-> a[m].mining] EXCEPT ![n] = s.mining]
  OBVIOUS

\* The state of node n becomes s, that of the others stays.
Becomes(n, s) == \A m \in Nodes : node'[m] = IF m = n THEN s ELSE node[m]

\* How the code of Network says so.
LEMMA BecomesExcept ==
  ASSUME NodesInv, NEW n \in Nodes, NEW s, node' = [node EXCEPT ![n] = s]
  PROVE  Becomes(n, s)
  BY DEF NodesInv, Becomes

\* The four variables of SkanCoin that come from the state of the nodes, when
\* that of n becomes s.
LEMMA BarUpdated ==
  ASSUME NEW n \in Nodes, NEW s, Becomes(n, s)
  PROVE  /\ [m \in Nodes |-> node[m].chain]'
              = [[m \in Nodes |-> node[m].chain] EXCEPT ![n] = s.chain]
         /\ [m \in Nodes |-> node[m].utxo]'
              = [[m \in Nodes |-> node[m].utxo] EXCEPT ![n] = s.utxo]
         /\ [m \in Nodes |-> node[m].pool]'
              = [[m \in Nodes |-> node[m].pool] EXCEPT ![n] = s.pool]
         /\ [m \in Nodes |-> node[m].mining]'
              = [[m \in Nodes |-> node[m].mining] EXCEPT ![n] = s.mining]
  BY FieldsUpdated DEF Becomes

\* A field of the state of a node that stays as it is.
LEMMA BarKept ==
  ASSUME NEW n \in Nodes
  PROVE  /\ [[m \in Nodes |-> node[m].chain] EXCEPT ![n] = node[n].chain]
              = [m \in Nodes |-> node[m].chain]
         /\ [[m \in Nodes |-> node[m].utxo] EXCEPT ![n] = node[n].utxo]
              = [m \in Nodes |-> node[m].utxo]
         /\ [[m \in Nodes |-> node[m].pool] EXCEPT ![n] = node[n].pool]
              = [m \in Nodes |-> node[m].pool]
         /\ [[m \in Nodes |-> node[m].mining] EXCEPT ![n] = node[n].mining]
              = [m \in Nodes |-> node[m].mining]
  OBVIOUS

\* A step that leaves the nodes, the clocks and the history alone is none.
LEMMA BarStutter ==
  ASSUME UNCHANGED <<node, clock, heldChains, sentTransactions>>
  PROVE  UNCHANGED Abstract!vars
  BY DEF Abstract!vars

\* A node that becomes one Holding a chain takes the step HoldChain.
LEMMA HoldStep ==
  ASSUME NEW n \in Nodes, NEW c, NEW u, NEW s, Becomes(n, s),
         s.chain = c, s.utxo = u, s.pool = updatePool(node[n].pool, u),
         heldChains' = heldChains \cup {c}
  PROVE  Abstract!HoldChain(n, c, u)
<1>1. [m \in Nodes |-> node[m].pool][n] = node[n].pool
  OBVIOUS
<1>2. Abstract!updatePool(node[n].pool, u) = updatePool(node[n].pool, u)
  BY SameUpdatePool
<1>3. Abstract!updatePool([m \in Nodes |-> node[m].pool][n], u) = s.pool
  BY <1>1, <1>2
<1>4. /\ [m \in Nodes |-> node[m].chain]' = [[m \in Nodes |-> node[m].chain] EXCEPT ![n] = c]
      /\ [m \in Nodes |-> node[m].utxo]' = [[m \in Nodes |-> node[m].utxo] EXCEPT ![n] = u]
      /\ [m \in Nodes |-> node[m].pool]'
           = [[m \in Nodes |-> node[m].pool] EXCEPT ![n] = s.pool]
  BY BarUpdated
<1> QED BY <1>3, <1>4 DEF Abstract!HoldChain

\* The step that SkanCoin sees, if it sees one.
AbstractStep == [Abstract!Next]_(Abstract!vars)

-----------------------------------------------------------------------------
(* The invariant over a step *)

\* A node that changes keeps to what is held and sent by then.
LEMMA NodesKept ==
  ASSUME NodesInv, NEW n \in Nodes, NEW s, node' = [node EXCEPT ![n] = s],
         heldChains \subseteq heldChains', \A c \in heldChains' : IsSeq(c),
         sentTransactions \subseteq sentTransactions',
         HeldNode(s, heldChains', sentTransactions')
  PROVE  NodesInv'
<1>1. Becomes(n, s)
  BY BecomesExcept
<1>2. \A m \in Nodes : HeldNode(node[m], heldChains', sentTransactions')
  BY MoreKnown DEF NodesInv
<1>3. node' = [m \in Nodes |-> node'[m]]
  BY DEF NodesInv
<1> QED BY <1>1, <1>2, <1>3 DEF NodesInv, Becomes

\* Nothing changes but queues and connections.
LEMMA QueuesOnly ==
  ASSUME NetworkInv, UNCHANGED <<node, clock, heldChains, sentTransactions>>,
         KnownQueues(link', heldChains, sentTransactions)
  PROVE  NetworkInv' /\ AbstractStep
  BY BarStutter DEF NetworkInv, NodesInv, LinkInv, AbstractStep

\* The queues that are not emptied stay.
LEMMA DisconnectKnown ==
  ASSUME LinkInv, NEW pairs, Disconnect(pairs)
  PROVE  KnownQueues(link', heldChains, sentTransactions)
<1>1. KnownQueue(<<>>, heldChains, sentTransactions)
  BY DEF KnownQueue, IsSeq
<1> QED BY <1>1 DEF Disconnect, LinkInv, KnownQueues

\* A pair that connects.
LEMMA PairNodes ==
  ASSUME NEW p \in Pairs
  PROVE  /\ p[1] \in Nodes /\ p[2] \in Nodes
         /\ <<p[1], p[2]>> \in Pairs /\ <<p[2], p[1]>> \in Pairs
  BY DEF Pairs

\* What the opening, the taking up and the end of a connection do is no step
\* of SkanCoin.
LEMMA ConnectionStep ==
  ASSUME NetworkInv, NEW n, NEW m, <<n, m>> \in Pairs,
         OpenConnection(n, m) \/ connectToPeer(n, m) \/ Break(n, m)
  PROVE  NetworkInv' /\ AbstractStep
<1>1. CASE OpenConnection(n, m)
  BY <1>1, QueuesOnly DEF OpenConnection, NetworkInv, LinkInv, history
<1>2. CASE connectToPeer(n, m)
  <2> DEFINE questions ==
        <<QueryLatest(calculateHash(getLatestBlock(node[n].chain))), QueryPool>>
  <2>1. KnownQueue(questions, heldChains, sentTransactions)
    BY KnownMessages, KnownShort
  <2>2. link' = answer(link, n, m, questions)
    BY <1>2 DEF connectToPeer
  <2> HIDE DEF questions
  <2>3. KnownQueues(link', heldChains, sentTransactions)
    BY <2>1, <2>2, KnownSent DEF NetworkInv, LinkInv
  <2> QED BY <1>2, <2>3, QueuesOnly DEF connectToPeer, history
<1>3. CASE Break(n, m)
  <2>1. KnownQueues(link', heldChains, sentTransactions)
    BY <1>3, DisconnectKnown DEF Break, NetworkInv
  <2> QED BY <1>3, <2>1, QueuesOnly DEF Break, history
<1> QED BY <1>1, <1>2, <1>3

-----------------------------------------------------------------------------
(* Time, crashes *)

\* The clock of a node goes on.
LEMMA TickStep ==
  ASSUME NetworkInv, NEW n \in Nodes, Tick(n)
  PROVE  NetworkInv' /\ AbstractStep
<1>1. NetworkInv'
  BY DEF Tick, history, NetworkInv, NodesInv, LinkInv
<1>2. Abstract!Tick(n)
  BY DEF Tick, history, Abstract!Tick
<1>3. Abstract!Next
  BY <1>2 DEF Abstract!Next
<1> QED BY <1>1, <1>3 DEF AbstractStep

\* A new node holds its genesis block.
LEMMA NewNodeHeld ==
  ASSUME NEW n, NEW time, NEW H, NewNode(n, time).chain \in H, NEW S
  PROVE  HeldNode(NewNode(n, time), H, S) /\ IsSeq(NewNode(n, time).chain)
  BY IsSeqSingleton DEF NewNode, HeldNode, IsNode, IsSeq

\* What SkanCoin says of a new node.
LEMMA NewNodeSame ==
  ASSUME NEW n, NEW time
  PROVE  /\ NewNode(n, time).chain = Abstract!InitialChain(n, time)
         /\ NewNode(n, time).utxo
              = Abstract!updateUnspentTransOuts(Abstract!InitialChain(n, time)[1].data, {})
         /\ NewNode(n, time).pool = <<>> /\ NewNode(n, time).mining = None
<1>1. Abstract!InitialChain(n, time) = <<getGenesisBlock(n, time)>>
  BY SameGenesis DEF Abstract!InitialChain
<1> QED BY <1>1, SameUpdateUtxo DEF NewNode

\* A crash loses what SkanCoin loses, and the queues besides.
LEMMA RestartStep ==
  ASSUME NetworkInv, NEW n \in Nodes, n \in Crashing, Restart(n)
  PROVE  NetworkInv' /\ AbstractStep
<1> DEFINE s == NewNode(n, clock[n])
           c == Abstract!InitialChain(n, clock[n])
<1>1. /\ node' = [node EXCEPT ![n] = s]
      /\ clock' = clock /\ sentTransactions' = sentTransactions
      /\ heldChains' = heldChains \cup {node'[n].chain}
  BY DEF Restart
<1> HIDE DEF s
<1>2. Becomes(n, s)
  BY <1>1, BecomesExcept DEF NetworkInv
<1>3. heldChains' = heldChains \cup {s.chain}
  BY <1>1, <1>2 DEF Becomes
<1>4. HeldNode(s, heldChains', sentTransactions') /\ IsSeq(s.chain)
  BY <1>3, NewNodeHeld DEF s
<1>5. NodesInv'
  BY <1>1, <1>3, <1>4, NodesKept DEF NetworkInv, NodesInv
<1>6. LinkInv'
  <2>1. KnownQueues(link', heldChains, sentTransactions)
    BY DisconnectKnown DEF Restart, NetworkInv
  <2> QED BY <1>1, <1>3, <2>1, MoreKnown DEF LinkInv
<1>7. Abstract!Restart(n)
  <2>1. /\ s.chain = c /\ s.utxo = Abstract!updateUnspentTransOuts(c[1].data, {})
        /\ s.pool = <<>> /\ s.mining = None
    BY NewNodeSame DEF s
  <2> HIDE DEF c
  <2>2. /\ [m \in Nodes |-> node[m].chain]'
             = [[m \in Nodes |-> node[m].chain] EXCEPT ![n] = s.chain]
        /\ [m \in Nodes |-> node[m].utxo]'
             = [[m \in Nodes |-> node[m].utxo] EXCEPT ![n] = s.utxo]
        /\ [m \in Nodes |-> node[m].pool]'
             = [[m \in Nodes |-> node[m].pool] EXCEPT ![n] = s.pool]
        /\ [m \in Nodes |-> node[m].mining]'
             = [[m \in Nodes |-> node[m].mining] EXCEPT ![n] = s.mining]
    BY <1>2, BarUpdated
  <2> QED BY <1>1, <1>3, <2>1, <2>2 DEF Abstract!Restart, c
<1>8. Abstract!Next
  BY <1>7 DEF Abstract!Next
<1> QED BY <1>5, <1>6, <1>8 DEF NetworkInv, AbstractStep

-----------------------------------------------------------------------------
(* The pool *)

\* A transaction joins the pool of a node.
LEMMA PoolGrows ==
  ASSUME NEW s, NEW H, NEW S, HeldNode(s, H, S), NEW t, NEW T, S \subseteq T, t \in T
  PROVE  HeldNode([s EXCEPT !.pool = Append(@, t)], H, T)
<1>1. s = [chain |-> s.chain, utxo |-> s.utxo, pool |-> s.pool, mining |-> s.mining]
  BY DEF HeldNode, IsNode
<1> SUFFICES ASSUME NEW p, p = Append(s.pool, t),
                    NEW r, r = [chain |-> s.chain, utxo |-> s.utxo, pool |-> p,
                                mining |-> s.mining]
    PROVE HeldNode(r, H, T)
  BY <1>1
<1>2. IsSeq(s.pool) /\ s.chain \in H /\ \A i \in DOMAIN s.pool : s.pool[i] \in T
  BY DEF HeldNode
<1>3. /\ IsSeq(p) /\ DOMAIN p = 1..(Len(s.pool) + 1) /\ DOMAIN s.pool = 1..Len(s.pool)
      /\ Len(s.pool) \in Nat
      /\ \A i \in 1..Len(s.pool) : p[i] = s.pool[i]
      /\ p[Len(s.pool) + 1] = t
  <2>1. IsSeq(p) /\ Len(p) = Len(s.pool) + 1
    BY <1>2, IsSeqAppend
  <2>2. DOMAIN p = 1..Len(p)
    BY <2>1, IsSeqShape
  <2> QED BY <1>2, <2>1, <2>2, IsSeqAppend, IsSeqShape
<1>4. \A i \in DOMAIN p : p[i] \in T
  <2> SUFFICES ASSUME NEW i \in DOMAIN p PROVE p[i] \in T
    OBVIOUS
  <2>1. i \in 1..Len(s.pool) \/ i = Len(s.pool) + 1
    BY <1>3
  <2> QED BY <1>2, <1>3, <2>1
<1> QED BY <1>2, <1>3, <1>4 DEF HeldNode, IsNode

\* What SkanCoin sees of that.
LEMMA PoolBar ==
  ASSUME NEW n \in Nodes, NEW t, IsNode(node[n]),
         Becomes(n, [node[n] EXCEPT !.pool = Append(@, t)])
  PROVE  /\ [m \in Nodes |-> node[m].chain]' = [m \in Nodes |-> node[m].chain]
         /\ [m \in Nodes |-> node[m].utxo]' = [m \in Nodes |-> node[m].utxo]
         /\ [m \in Nodes |-> node[m].pool]'
              = [[m \in Nodes |-> node[m].pool] EXCEPT
                   ![n] = Append([m \in Nodes |-> node[m].pool][n], t)]
         /\ [m \in Nodes |-> node[m].mining]' = [m \in Nodes |-> node[m].mining]
<1> DEFINE s == [node[n] EXCEPT !.pool = Append(@, t)]
<1>1. /\ s.chain = node[n].chain /\ s.utxo = node[n].utxo
      /\ s.pool = Append(node[n].pool, t) /\ s.mining = node[n].mining
  BY DEF IsNode
<1>2. [m \in Nodes |-> node[m].pool][n] = node[n].pool
  OBVIOUS
<1>3. Becomes(n, s)
  OBVIOUS
<1> HIDE DEF s
<1>4. /\ [m \in Nodes |-> node[m].chain]'
           = [[m \in Nodes |-> node[m].chain] EXCEPT ![n] = s.chain]
      /\ [m \in Nodes |-> node[m].utxo]'
           = [[m \in Nodes |-> node[m].utxo] EXCEPT ![n] = s.utxo]
      /\ [m \in Nodes |-> node[m].pool]'
           = [[m \in Nodes |-> node[m].pool] EXCEPT ![n] = s.pool]
      /\ [m \in Nodes |-> node[m].mining]'
           = [[m \in Nodes |-> node[m].mining] EXCEPT ![n] = s.mining]
  BY <1>3, BarUpdated
<1>5. [m \in Nodes |-> node[m].chain]' = [m \in Nodes |-> node[m].chain]
  BY <1>1, <1>4, BarKept
<1>6. [m \in Nodes |-> node[m].utxo]' = [m \in Nodes |-> node[m].utxo]
  BY <1>1, <1>4, BarKept
<1>7. [m \in Nodes |-> node[m].mining]' = [m \in Nodes |-> node[m].mining]
  BY <1>1, <1>4, BarKept
<1> QED BY <1>1, <1>2, <1>4, <1>5, <1>6, <1>7

\* The queues once the node has sent its pool to its peers.
LEMMA PoolSent ==
  ASSUME NEW n, NEW s, NEW H, NEW S, HeldNode(s, H, S), NEW l, KnownQueues(l, H, S)
  PROVE  KnownQueues(broadcast(l, n, responsePoolMsgs(s.pool)), H, S)
<1>1. KnownQueue(responsePoolMsgs(s.pool), H, S)
  BY KnownMessages
<1> QED BY <1>1, KnownSent

\* A request to send is one in SkanCoin.
LEMMA SendTransactionStep ==
  ASSUME NetworkInv, NEW p \in PoolPayments, p.sender \in Nodes,
         SendTransaction(p.sender, p.outs[1])
  PROVE  NetworkInv' /\ AbstractStep
<1> DEFINE n == p.sender
           out == p.outs[1]
<1>1. PICK t \in createTransaction(out.address, out.amount, n, node[n].utxo, node[n].pool) :
        /\ addToPoolAccepts(t, node[n].pool, node[n].utxo)
        /\ node' = [node EXCEPT ![n].pool = Append(@, t)]
        /\ sentTransactions' = sentTransactions \cup {t}
  BY DEF SendTransaction
<1>2. /\ node[n].mining = None /\ Len(node[n].pool) < MaxPool
      /\ link' = broadcast(link, n, responsePoolMsgs(node'[n].pool))
      /\ clock' = clock /\ heldChains' = heldChains
  BY DEF SendTransaction
<1> HIDE DEF out
<1> DEFINE s == [node[n] EXCEPT !.pool = Append(@, t)]
<1>3. node' = [node EXCEPT ![n] = s]
  BY <1>1
<1>4. HeldNode(node[n], heldChains, sentTransactions)
  BY DEF NetworkInv, NodesInv
<1>5. HeldNode(s, heldChains', sentTransactions')
  BY <1>1, <1>2, <1>4, PoolGrows
<1>6. Becomes(n, s)
  BY <1>3, BecomesExcept DEF NetworkInv
<1>7. Abstract!SendTransaction(n, out)
  <2>1. /\ [m \in Nodes |-> node[m].mining][n] = node[n].mining
        /\ [m \in Nodes |-> node[m].pool][n] = node[n].pool
        /\ [m \in Nodes |-> node[m].utxo][n] = node[n].utxo
    OBVIOUS
  <2>2. t \in Abstract!createTransaction(out.address, out.amount, n, node[n].utxo, node[n].pool)
    BY SameCreated
  <2>3. Abstract!addToPoolAccepts(t, node[n].pool, node[n].utxo)
    BY <1>1, SamePoolAccepts
  <2> QED BY <1>1, <1>2, <1>4, <1>6, <2>1, <2>2, <2>3, PoolBar
       DEF Abstract!SendTransaction, HeldNode
<1> HIDE DEF s
<1>8. NodesInv'
  BY <1>1, <1>2, <1>3, <1>5, NodesKept DEF NetworkInv, NodesInv
<1>9. LinkInv'
  <2>1. node'[n] = s
    BY <1>6 DEF Becomes
  <2>2. KnownQueues(link, heldChains', sentTransactions')
    BY <1>1, <1>2, MoreKnown DEF NetworkInv, LinkInv
  <2> QED BY <1>2, <1>5, <2>1, <2>2, PoolSent DEF LinkInv
<1>10. Abstract!Next
  BY <1>7 DEF Abstract!Next, Abstract!UserStep, out
<1> QED BY <1>8, <1>9, <1>10 DEF NetworkInv, AbstractStep

-----------------------------------------------------------------------------
(* Mining *)

\* Only the candidate of a node changes.
LEMMA MiningBar ==
  ASSUME NEW n \in Nodes, NEW k, IsNode(node[n]),
         Becomes(n, [node[n] EXCEPT !.mining = k])
  PROVE  /\ [m \in Nodes |-> node[m].chain]' = [m \in Nodes |-> node[m].chain]
         /\ [m \in Nodes |-> node[m].utxo]' = [m \in Nodes |-> node[m].utxo]
         /\ [m \in Nodes |-> node[m].pool]' = [m \in Nodes |-> node[m].pool]
         /\ [m \in Nodes |-> node[m].mining]'
              = [[m \in Nodes |-> node[m].mining] EXCEPT ![n] = k]
<1> DEFINE s == [node[n] EXCEPT !.mining = k]
<1>1. /\ s.chain = node[n].chain /\ s.utxo = node[n].utxo
      /\ s.pool = node[n].pool /\ s.mining = k
  BY DEF IsNode
<1>2. Becomes(n, s)
  OBVIOUS
<1> HIDE DEF s
<1>3. /\ [m \in Nodes |-> node[m].chain]'
           = [[m \in Nodes |-> node[m].chain] EXCEPT ![n] = s.chain]
      /\ [m \in Nodes |-> node[m].utxo]'
           = [[m \in Nodes |-> node[m].utxo] EXCEPT ![n] = s.utxo]
      /\ [m \in Nodes |-> node[m].pool]'
           = [[m \in Nodes |-> node[m].pool] EXCEPT ![n] = s.pool]
      /\ [m \in Nodes |-> node[m].mining]'
           = [[m \in Nodes |-> node[m].mining] EXCEPT ![n] = s.mining]
  BY <1>2, BarUpdated
<1>4. [m \in Nodes |-> node[m].chain]' = [m \in Nodes |-> node[m].chain]
  BY <1>1, <1>3, BarKept
<1>5. [m \in Nodes |-> node[m].utxo]' = [m \in Nodes |-> node[m].utxo]
  BY <1>1, <1>3, BarKept
<1>6. [m \in Nodes |-> node[m].pool]' = [m \in Nodes |-> node[m].pool]
  BY <1>1, <1>3, BarKept
<1> QED BY <1>1, <1>3, <1>4, <1>5, <1>6

\* The candidate is no part of the invariant.
LEMMA MiningHeld ==
  ASSUME NEW s, NEW H, NEW S, HeldNode(s, H, S), NEW k
  PROVE  HeldNode([s EXCEPT !.mining = k], H, S)
<1>1. s = [chain |-> s.chain, utxo |-> s.utxo, pool |-> s.pool, mining |-> s.mining]
  BY DEF HeldNode, IsNode
<1> SUFFICES ASSUME NEW r, r = [chain |-> s.chain, utxo |-> s.utxo, pool |-> s.pool,
                                mining |-> k]
    PROVE HeldNode(r, H, S)
  BY <1>1
<1> QED BY DEF HeldNode, IsNode

\* The block that a node starts to mine is the same in SkanCoin.
LEMMA SameCandidate ==
  ASSUME NEW n \in Nodes, NEW ts
  PROVE  Abstract!createRawNextBlock(n, ts) = Candidate(n, ts)
<1> DEFINE c == node[n].chain
<1>1. [m \in Nodes |-> node[m].chain][n] = c
  OBVIOUS
<1> HIDE DEF c
<1>2. /\ Abstract!getLatestBlock(c) = getLatestBlock(c)
      /\ Abstract!getDifficulty(c) = getDifficulty(c)
      /\ \A b : Abstract!calculateHash(b) = calculateHash(b)
      /\ \A i : Abstract!getCoinbaseTransaction(n, i) = getCoinbaseTransaction(n, i)
  BY SameLatest, SameDifficulty, SameHash, SameCoinbase
<1>3. \A i, h, time, data, d :
        Abstract!Block(i, h, time, data, d) = Block(i, h, time, data, d)
  BY DEF Block, Abstract!Block
<1>4. Candidate(n, ts)
        = Block(getLatestBlock(c).index + 1, calculateHash(getLatestBlock(c)), clock[n],
                <<getCoinbaseTransaction(n, getLatestBlock(c).index + 1)>> \o ts,
                getDifficulty(c))
  BY DEF Candidate, c
<1> QED BY <1>1, <1>2, <1>3, <1>4 DEF Abstract!createRawNextBlock

\* A request to mine, as far as the invariant goes, and what SkanCoin sees.
LEMMA StartMiningStep ==
  ASSUME NetworkInv, NEW n \in Nodes, NEW ts, StartMining(n, ts)
  PROVE  /\ NetworkInv'
         /\ [m \in Nodes |-> node[m].mining][n] = None
         /\ Abstract!MiningAllowed(n)
         /\ [m \in Nodes |-> node[m].mining]'
              = [[m \in Nodes |-> node[m].mining] EXCEPT
                   ![n] = Abstract!createRawNextBlock(n, ts)]
         /\ [m \in Nodes |-> node[m].chain]' = [m \in Nodes |-> node[m].chain]
         /\ [m \in Nodes |-> node[m].utxo]' = [m \in Nodes |-> node[m].utxo]
         /\ [m \in Nodes |-> node[m].pool]' = [m \in Nodes |-> node[m].pool]
         /\ UNCHANGED <<clock, heldChains, sentTransactions>>
<1> DEFINE k == Candidate(n, ts)
           s == [node[n] EXCEPT !.mining = k]
<1>1. /\ node' = [node EXCEPT ![n].mining = k]
      /\ UNCHANGED <<clock, link, heldChains, sentTransactions>>
      /\ node[n].mining = None
      /\ Len(node[n].chain) < MaxBlocks /\ Cardinality(heldChains) < MaxChains
  BY DEF StartMining, history
<1>2. k = Abstract!createRawNextBlock(n, ts)
  BY SameCandidate
<1> HIDE DEF k
<1>3. node' = [node EXCEPT ![n] = s]
  BY <1>1
<1>4. HeldNode(node[n], heldChains, sentTransactions)
  BY DEF NetworkInv, NodesInv
<1>5. HeldNode(s, heldChains', sentTransactions')
  BY <1>1, <1>4, MiningHeld
<1>6. Becomes(n, s)
  BY <1>3, BecomesExcept DEF NetworkInv
<1>7. /\ [m \in Nodes |-> node[m].mining]'
           = [[m \in Nodes |-> node[m].mining] EXCEPT ![n] = k]
      /\ [m \in Nodes |-> node[m].chain]' = [m \in Nodes |-> node[m].chain]
      /\ [m \in Nodes |-> node[m].utxo]' = [m \in Nodes |-> node[m].utxo]
      /\ [m \in Nodes |-> node[m].pool]' = [m \in Nodes |-> node[m].pool]
  BY <1>4, <1>6, MiningBar DEF HeldNode
<1> HIDE DEF s
<1>8. NetworkInv'
  BY <1>1, <1>3, <1>5, NodesKept DEF NetworkInv, NodesInv, LinkInv
<1>9. Abstract!MiningAllowed(n) /\ [m \in Nodes |-> node[m].mining][n] = None
  BY <1>1, SameCardinality DEF Abstract!MiningAllowed
<1> QED BY <1>1, <1>2, <1>7, <1>8, <1>9

\* POST /blocks/pool is a step of SkanCoin.
LEMMA createNextBlockStep ==
  ASSUME NetworkInv, NEW n \in Nodes, createNextBlock(n)
  PROVE  NetworkInv' /\ AbstractStep
<1> DEFINE p == node[n].pool
           ts == SubSeq(p, 1, IF Len(p) < 2 THEN Len(p) ELSE 2)
<1>1. StartMining(n, ts)
  BY DEF createNextBlock
<1>2. [m \in Nodes |-> node[m].pool][n] = p
  OBVIOUS
<1> HIDE DEF p
<1>3. Abstract!createNextBlock(n)
  BY <1>1, <1>2, StartMiningStep DEF Abstract!createNextBlock
<1>4. Abstract!Next
  BY <1>3 DEF Abstract!Next, Abstract!UserStep
<1> QED BY <1>1, <1>4, StartMiningStep DEF AbstractStep

\* So is POST /blocks/transaction.
LEMMA createNextBlockWithTransactionStep ==
  ASSUME NetworkInv, NEW p \in BlockPayments, p.sender \in Nodes,
         createNextBlockWithTransaction(p.sender, p.outs)
  PROVE  NetworkInv' /\ AbstractStep
<1> DEFINE n == p.sender
<1>1. PICK t \in createTransactionWithMultipleOutputs(p.outs, n, node[n].utxo, node[n].pool) :
        StartMining(n, <<t>>)
  BY DEF createNextBlockWithTransaction
<1>2. /\ [m \in Nodes |-> node[m].utxo][n] = node[n].utxo
      /\ [m \in Nodes |-> node[m].pool][n] = node[n].pool
  OBVIOUS
<1>3. t \in Abstract!createTransactionWithMultipleOutputs(
              p.outs, n, [m \in Nodes |-> node[m].utxo][n], [m \in Nodes |-> node[m].pool][n])
  BY <1>2, SameCreatedOfMany
<1>4. Abstract!createNextBlockWithTransaction(n, p.outs)
  BY <1>1, <1>3, StartMiningStep DEF Abstract!createNextBlockWithTransaction
<1>5. Abstract!Next
  BY <1>4 DEF Abstract!Next, Abstract!UserStep
<1> QED BY <1>1, <1>5, StartMiningStep DEF AbstractStep

-----------------------------------------------------------------------------
(* A new chain *)

\* What is left of a pool, next to a chain that is held.
LEMMA UpdatedHeld ==
  ASSUME NEW s, NEW H, NEW S, HeldNode(s, H, S), NEW G, NEW r, NEW u, IsNode(r),
         r.chain \in G, r.pool = updatePool(s.pool, u)
  PROVE  HeldNode(r, G, S)
<1>1. IsSeq(s.pool) /\ \A i \in DOMAIN s.pool : s.pool[i] \in S
  BY DEF HeldNode
<1>2. DOMAIN s.pool = 1..Len(s.pool)
  BY <1>1, IsSeqShape
<1>3. IsSelection(r.pool, s.pool, Len(s.pool), u)
  BY <1>1, UpdatePoolSelects
<1>4. IsSeq(r.pool) /\ DOMAIN r.pool = 1..Len(r.pool)
  BY <1>3, IsSeqShape DEF IsSelection
<1>5. \A i \in 1..Len(r.pool) : r.pool[i] \in S
  BY <1>1, <1>2, <1>3 DEF IsSelection
<1> QED BY <1>4, <1>5 DEF HeldNode

\* The state r is what Holding makes of s, but for the candidate.
Holds(r, s, c, u) ==
  IsNode(r) /\ r.chain = c /\ r.utxo = u /\ r.pool = updatePool(s.pool, u)

\* The parts of Holding, with the candidate kept and given up.
LEMMA HoldingParts ==
  ASSUME NEW s, IsNode(s), NEW c, NEW u
  PROVE  /\ Holds(Holding(s, c, u), s, c, u) /\ Holding(s, c, u).mining = s.mining
         /\ \A r : r = [Holding(s, c, u) EXCEPT !.mining = None]
                     => Holds(r, s, c, u) /\ r.mining = None
<1> DEFINE p == updatePool(s.pool, u)
<1>1. Holding(s, c, u) = [s EXCEPT !.chain = c, !.utxo = u, !.pool = p]
  BY DEF Holding
<1> HIDE DEF p
<1>2. Holding(s, c, u) = [chain |-> c, utxo |-> u, pool |-> p, mining |-> s.mining]
  BY <1>1 DEF IsNode
<1> QED BY <1>2 DEF Holds, IsNode, p

\* A node that comes to hold a chain, of which it may tell its peers.
LEMMA HoldKeeps ==
  ASSUME NetworkInv, NEW n \in Nodes, NEW c, IsSeq(c), NEW u,
         NEW s, Holds(s, node[n], c, u), node' = [node EXCEPT ![n] = s],
         heldChains' = heldChains \cup {c}, sentTransactions' = sentTransactions,
         KnownQueues(link', heldChains', sentTransactions')
  PROVE  /\ NetworkInv' /\ Abstract!HoldChain(n, c, u)
         /\ [m \in Nodes |-> node[m].mining]'
              = [[m \in Nodes |-> node[m].mining] EXCEPT ![n] = s.mining]
<1>1. Becomes(n, s)
  BY BecomesExcept DEF NetworkInv
<1>2. HeldNode(s, heldChains', sentTransactions')
  <2>1. HeldNode(node[n], heldChains, sentTransactions)
    BY DEF NetworkInv, NodesInv
  <2> QED BY <2>1, UpdatedHeld DEF Holds
<1>3. NodesInv'
  BY <1>2, NodesKept DEF NetworkInv, NodesInv
<1>4. LinkInv'
  BY DEF LinkInv
<1>5. Abstract!HoldChain(n, c, u)
  BY <1>1, HoldStep DEF Holds
<1>6. [m \in Nodes |-> node[m].mining]'
        = [[m \in Nodes |-> node[m].mining] EXCEPT ![n] = s.mining]
  BY <1>1, BarUpdated
<1> QED BY <1>3, <1>4, <1>5, <1>6 DEF NetworkInv

\* Blocks and chains are accepted as in SkanCoin.
LEMMA SameAccepts ==
  ASSUME NEW n \in Nodes
  PROVE  /\ \A b : Abstract!addBlockToBlockchainAccepts(n, b) <=> addBlockToBlockchainAccepts(n, b)
         /\ \A c : Abstract!replaceChainAccepts(n, c) <=> replaceChainAccepts(n, c)
<1> DEFINE c == node[n].chain
           u == node[n].utxo
<1>1. [m \in Nodes |-> node[m].chain][n] = c /\ [m \in Nodes |-> node[m].utxo][n] = u
  OBVIOUS
<1>2. \A b : addBlockToBlockchainAccepts(n, b)
        <=> /\ isBlockValid(b, getLatestBlock(c), clock[n])
            /\ areValidBlockTransactions(b.data, u, b.index)
  BY DEF addBlockToBlockchainAccepts
<1>3. \A d : replaceChainAccepts(n, d)
        <=> isBetterChain(d, c) /\ isBlockchainValid(d, n, clock[n])
  BY DEF replaceChainAccepts
<1> HIDE DEF c, u
<1>4. ASSUME NEW b
      PROVE  Abstract!addBlockToBlockchainAccepts(n, b) <=> addBlockToBlockchainAccepts(n, b)
  <2>1. Abstract!isBlockValid(b, Abstract!getLatestBlock(c), clock[n])
          = isBlockValid(b, getLatestBlock(c), clock[n])
    BY SameBlockValid, SameLatest
  <2>2. Abstract!areValidBlockTransactions(b.data, u, b.index)
          = areValidBlockTransactions(b.data, u, b.index)
    BY SameBlockTransactions
  <2> QED BY <1>1, <1>2, <2>1, <2>2 DEF Abstract!addBlockToBlockchainAccepts
<1>5. ASSUME NEW d
      PROVE  Abstract!replaceChainAccepts(n, d) <=> replaceChainAccepts(n, d)
  BY <1>1, <1>3, SameBetter, SameChainValid DEF Abstract!replaceChainAccepts
<1> QED BY <1>4, <1>5

\* What addBlockToBlockchain makes of a node, and that SkanCoin does it.
LEMMA AddedParts ==
  ASSUME NEW n \in Nodes, NEW b, IsNode(node[n]), IsSeq(node[n].chain),
         NEW c, c = Append(node[n].chain, b),
         NEW u, u = updateUnspentTransOuts(b.data, node[n].utxo)
  PROVE  /\ addBlockToBlockchain(n, b) = Holding(node[n], c, u)
         /\ IsSeq(c) /\ getLatestBlock(c) = b
         /\ addBlockToBlockchainAccepts(n, b) /\ Abstract!HoldChain(n, c, u)
              => Abstract!addBlockToBlockchain(n, b)
<1>1. addBlockToBlockchain(n, b) = Holding(node[n], c, u)
  BY DEF addBlockToBlockchain
<1>2. IsSeq(c) /\ getLatestBlock(c) = b
  BY IsSeqAppend, IsSeqShape DEF getLatestBlock
<1>3. ASSUME addBlockToBlockchainAccepts(n, b), Abstract!HoldChain(n, c, u)
      PROVE  Abstract!addBlockToBlockchain(n, b)
  <2>1. Append([m \in Nodes |-> node[m].chain][n], b) = c
    OBVIOUS
  <2>2. Abstract!updateUnspentTransOuts(b.data, [m \in Nodes |-> node[m].utxo][n]) = u
    BY SameUpdateUtxo
  <2>3. Abstract!addBlockToBlockchainAccepts(n, b)
    BY <1>3, SameAccepts
  <2> QED BY <1>3, <2>1, <2>2, <2>3 DEF Abstract!addBlockToBlockchain, Abstract!HoldChain
<1> QED BY <1>1, <1>2, <1>3

\* The end of the mining loop is one in SkanCoin.
LEMMA FinishMiningStep ==
  ASSUME NetworkInv, NEW n \in Nodes, FinishMining(n)
  PROVE  NetworkInv' /\ AbstractStep
<1>0. PICK b : b = node[n].mining
  OBVIOUS
<1>1. /\ b # None /\ FittingDigests(b) # {}
      /\ clock' = clock /\ sentTransactions' = sentTransactions
  BY <1>0 DEF FinishMining
<1>2. [m \in Nodes |-> node[m].mining][n] = b
  BY <1>0
<1>3. Abstract!FittingDigests(b) # {}
  BY <1>1, SameFitting
<1>4. /\ HeldNode(node[n], heldChains, sentTransactions) /\ IsNode(node[n])
      /\ IsSeq(node[n].chain)
  BY DEF NetworkInv, NodesInv, HeldNode
<1>5. CASE addBlockToBlockchainAccepts(n, b)
  <2>0. PICK c, u : /\ c = Append(node[n].chain, b)
                    /\ u = updateUnspentTransOuts(b.data, node[n].utxo)
    OBVIOUS
  <2> DEFINE s == [Holding(node[n], c, u) EXCEPT !.mining = None]
  <2>1. /\ addBlockToBlockchain(n, b) = Holding(node[n], c, u)
        /\ IsSeq(c) /\ getLatestBlock(c) = b
    BY <1>4, <2>0, AddedParts
  <2>2. Holds(s, node[n], c, u) /\ s.mining = None
    BY <1>4, HoldingParts
  <2>3. Holding(node[n], c, u).chain = c
    BY <1>4, HoldingParts DEF Holds
  <2>4. /\ node' = [node EXCEPT ![n] = s]
        /\ heldChains' = heldChains \cup {c}
        /\ link' = broadcast(link, n, MinedNews(b))
    BY <1>0, <1>5, <2>1, <2>3 DEF FinishMining
  <2> HIDE DEF s
  <2>5. KnownQueues(link', heldChains', sentTransactions')
    <3>1. KnownQueue(MinedNews(b), heldChains', sentTransactions')
      <4>1. KnownMessage(ResponseLatest(getLatestBlock(c)), heldChains', sentTransactions')
        BY <2>4, KnownMessages
      <4> QED BY <2>1, <4>1, KnownShort DEF MinedNews
    <3>2. KnownQueues(link, heldChains', sentTransactions')
      BY <1>1, <2>4, MoreKnown DEF NetworkInv, LinkInv
    <3> QED BY <2>4, <3>1, <3>2, KnownSent
  <2>6. /\ NetworkInv' /\ Abstract!HoldChain(n, c, u)
        /\ [m \in Nodes |-> node[m].mining]'
             = [[m \in Nodes |-> node[m].mining] EXCEPT ![n] = s.mining]
    BY <1>1, <2>1, <2>2, <2>4, <2>5, HoldKeeps
  <2>7. Abstract!addBlockToBlockchain(n, b)
    BY <1>4, <1>5, <2>0, <2>6, AddedParts
  <2>8. Abstract!FinishMining(n)
    BY <1>1, <1>2, <1>3, <2>2, <2>6, <2>7 DEF Abstract!FinishMining
  <2>9. Abstract!Next
    BY <2>8 DEF Abstract!Next, Abstract!UserStep
  <2> QED BY <2>6, <2>9 DEF AbstractStep
<1>6. CASE ~addBlockToBlockchainAccepts(n, b)
  <2> DEFINE s == [node[n] EXCEPT !.mining = None]
  <2>1. /\ node' = [node EXCEPT ![n].mining = None]
        /\ link' = link /\ heldChains' = heldChains
    BY <1>0, <1>6 DEF FinishMining
  <2>2. node' = [node EXCEPT ![n] = s]
    BY <2>1
  <2>3. HeldNode(s, heldChains', sentTransactions')
    BY <1>1, <1>4, <2>1, MiningHeld
  <2>4. Becomes(n, s)
    BY <2>2, BecomesExcept DEF NetworkInv
  <2>5. /\ [m \in Nodes |-> node[m].mining]'
             = [[m \in Nodes |-> node[m].mining] EXCEPT ![n] = None]
        /\ [m \in Nodes |-> node[m].chain]' = [m \in Nodes |-> node[m].chain]
        /\ [m \in Nodes |-> node[m].utxo]' = [m \in Nodes |-> node[m].utxo]
        /\ [m \in Nodes |-> node[m].pool]' = [m \in Nodes |-> node[m].pool]
    BY <1>4, <2>4, MiningBar
  <2> HIDE DEF s
  <2>6. NetworkInv'
    BY <1>1, <2>1, <2>2, <2>3, NodesKept DEF NetworkInv, NodesInv, LinkInv
  <2>7. ~Abstract!addBlockToBlockchainAccepts(n, b)
    BY <1>6, SameAccepts
  <2>8. Abstract!FinishMining(n)
    BY <1>1, <1>2, <1>3, <2>1, <2>5, <2>7 DEF Abstract!FinishMining
  <2>9. Abstract!Next
    BY <2>8 DEF Abstract!Next, Abstract!UserStep
  <2> QED BY <2>6, <2>9 DEF AbstractStep
<1> QED BY <1>5, <1>6

-----------------------------------------------------------------------------
(* The messages of the peers *)

\* Known queues without the first message of one of them.
LEMMA KnownRest ==
  ASSUME NEW H, NEW S, NEW l, KnownQueues(l, H, S), NEW p \in Pairs, l[p] # <<>>
  PROVE  KnownMessage(Head(l[p]), H, S) /\ KnownQueues([l EXCEPT ![p] = Tail(@)], H, S)
<1>1. KnownQueue(l[p], H, S)
  BY DEF KnownQueues
<1>2. KnownMessage(Head(l[p]), H, S) /\ KnownQueue(Tail(l[p]), H, S)
  BY <1>1, KnownTail
<1> SUFFICES ASSUME NEW q, q = Tail(l[p]), NEW k, k = [l EXCEPT ![p] = q]
    PROVE KnownQueues(k, H, S)
  BY <1>2
<1> QED BY <1>2 DEF KnownQueues

\* The answer to a question is no step of SkanCoin.
LEMMA QuestionStep ==
  ASSUME NetworkInv, NEW n, NEW m, <<n, m>> \in Pairs, n \in Nodes,
         NEW message, NEW l, KnownQueues(l, heldChains, sentTransactions),
         \/ HandleQueryLatest(n, m, message, l)
         \/ HandleQueryBlockchain(n, m, message, l)
         \/ HandleQueryPool(n, m, message, l),
         UNCHANGED <<clock, sentTransactions>>
  PROVE  NetworkInv' /\ AbstractStep
<1>1. HeldNode(node[n], heldChains, sentTransactions) /\ node[n].chain \in heldChains
  BY DEF NetworkInv, NodesInv, HeldNode
<1> DEFINE c == node[n].chain
           latest == <<ResponseLatest(getLatestBlock(c))>>
           whole == <<ResponseBlockchain(c)>>
           txs == responsePoolMsgs(node[n].pool)
<1>2. /\ KnownQueue(latest, heldChains, sentTransactions)
      /\ KnownQueue(whole, heldChains, sentTransactions)
      /\ KnownQueue(txs, heldChains, sentTransactions)
  BY <1>1, KnownMessages, KnownShort
<1>3. /\ \/ link' = answer(l, n, m, latest)
         \/ link' = answer(l, n, m, whole)
         \/ link' = answer(l, n, m, txs)
      /\ UNCHANGED <<node, clock, heldChains, sentTransactions>>
  BY DEF HandleQueryLatest, HandleQueryBlockchain, HandleQueryPool
<1> HIDE DEF latest, whole, txs
<1>4. KnownQueues(link', heldChains, sentTransactions)
  BY <1>2, <1>3, KnownSent
<1> QED BY <1>3, <1>4, QueuesOnly

\* A transaction that is taken is one that SkanCoin takes.
LEMMA HandlePoolStep ==
  ASSUME NetworkInv, NEW n \in Nodes, NEW message,
         KnownMessage(message, heldChains, sentTransactions),
         NEW l, KnownQueues(l, heldChains, sentTransactions),
         HandlePool(n, message, l), UNCHANGED <<clock, sentTransactions>>
  PROVE  NetworkInv' /\ AbstractStep
<1> DEFINE t == message.transaction
<1>1. t \in sentTransactions /\ heldChains' = heldChains
  BY DEF HandlePool, KnownMessage
<1>2. HeldNode(node[n], heldChains, sentTransactions)
  BY DEF NetworkInv, NodesInv
<1>3. CASE addToPoolAccepts(t, node[n].pool, node[n].utxo)
  <2> DEFINE s == [node[n] EXCEPT !.pool = Append(@, t)]
  <2>1. /\ node' = [node EXCEPT ![n].pool = Append(@, t)]
        /\ link' = broadcast(l, n, responsePoolMsgs(node'[n].pool))
    BY <1>3 DEF HandlePool
  <2> HIDE DEF t
  <2>2. node' = [node EXCEPT ![n] = s]
    BY <2>1
  <2>3. HeldNode(s, heldChains', sentTransactions')
    BY <1>1, <1>2, PoolGrows
  <2>4. Becomes(n, s)
    BY <2>2, BecomesExcept DEF NetworkInv
  <2>5. Abstract!ReceivePool(n, t)
    <3>1. /\ [m \in Nodes |-> node[m].pool][n] = node[n].pool
          /\ [m \in Nodes |-> node[m].utxo][n] = node[n].utxo
      OBVIOUS
    <3>2. Abstract!addToPoolAccepts(t, node[n].pool, node[n].utxo)
      BY <1>3, SamePoolAccepts
    <3> QED BY <1>1, <1>2, <2>4, <3>1, <3>2, PoolBar DEF Abstract!ReceivePool, HeldNode
  <2> HIDE DEF s
  <2>6. NodesInv'
    BY <1>1, <2>2, <2>3, NodesKept DEF NetworkInv, NodesInv
  <2>7. LinkInv'
    <3>1. node'[n] = s
      BY <2>4 DEF Becomes
    <3> QED BY <1>1, <2>1, <2>3, <3>1, PoolSent DEF LinkInv
  <2>8. Abstract!Next
    BY <1>1, <2>5 DEF Abstract!Next
  <2> QED BY <2>6, <2>7, <2>8 DEF NetworkInv, AbstractStep
<1>4. CASE ~addToPoolAccepts(t, node[n].pool, node[n].utxo)
  <2>1. link' = l /\ node' = node
    BY <1>4 DEF HandlePool
  <2> QED BY <1>1, <2>1, QueuesOnly
<1> QED BY <1>3, <1>4

\* A node that comes to hold a chain and tells its peers so.
LEMMA HoldAnnounced ==
  ASSUME NetworkInv, NEW n \in Nodes, NEW c, IsSeq(c), NEW u,
         NEW l, KnownQueues(l, heldChains, sentTransactions),
         NEW s, s = Holding(node[n], c, u), node' = [node EXCEPT ![n] = s],
         heldChains' = heldChains \cup {c}, sentTransactions' = sentTransactions,
         link' = broadcast(l, n, News(c))
  PROVE  /\ NetworkInv' /\ Abstract!HoldChain(n, c, u)
         /\ [m \in Nodes |-> node[m].mining]' = [m \in Nodes |-> node[m].mining]
<1>1. IsNode(node[n])
  BY DEF NetworkInv, NodesInv, HeldNode
<1>2. Holds(s, node[n], c, u) /\ s.mining = node[n].mining
  BY <1>1, HoldingParts
<1>3. KnownQueues(link', heldChains', sentTransactions')
  <2>1. KnownQueue(News(c), heldChains', sentTransactions')
    BY KnownMessages
  <2>2. KnownQueues(l, heldChains', sentTransactions')
    BY MoreKnown
  <2> QED BY <2>1, <2>2, KnownSent
<1>4. NetworkInv'
  BY <1>2, <1>3, HoldKeeps
<1>5. Abstract!HoldChain(n, c, u)
  BY <1>2, <1>3, HoldKeeps
<1>6. [m \in Nodes |-> node[m].mining]'
        = [[m \in Nodes |-> node[m].mining] EXCEPT ![n] = s.mining]
  BY <1>2, <1>3, HoldKeeps
<1> QED BY <1>2, <1>4, <1>5, <1>6, BarKept

\* What SkanCoin calls the handling of received blocks is one of its steps.
LEMMA BlocksReceived ==
  ASSUME NEW n \in Nodes, NEW blocks, KnownBlocks(blocks, heldChains),
         Abstract!newBlocksHandler(n, blocks),
         [m \in Nodes |-> node[m].mining]' = [m \in Nodes |-> node[m].mining],
         UNCHANGED <<clock, sentTransactions>>
  PROVE  Abstract!Next
<1>1. CASE blocks \in heldChains
  <2>1. Abstract!ReceiveBlockchain(n, blocks)
    BY DEF Abstract!ReceiveBlockchain
  <2> QED BY <1>1, <2>1 DEF Abstract!Next
<1>2. ASSUME NEW c \in heldChains, blocks = <<getLatestBlock(c)>> PROVE Abstract!Next
  <2>1. blocks = <<Abstract!getLatestBlock(c)>>
    BY <1>2, SameLatest
  <2>2. Abstract!ReceiveLatest(n, c)
    BY <2>1 DEF Abstract!ReceiveLatest
  <2> QED BY <2>2 DEF Abstract!Next
<1> QED BY <1>1, <1>2 DEF KnownBlocks

\* Received blocks do to a node what they do in SkanCoin.
LEMMA newBlocksHandlerStep ==
  ASSUME NetworkInv, NEW n \in Nodes, NEW blocks, KnownBlocks(blocks, heldChains),
         NEW l, KnownQueues(l, heldChains, sentTransactions),
         newBlocksHandler(n, blocks, l), UNCHANGED <<clock, sentTransactions>>
  PROVE  NetworkInv' /\ AbstractStep
<1>0. PICK received, held : /\ received = getLatestBlock(blocks)
                            /\ held = getLatestBlock(node[n].chain)
  OBVIOUS
<1> DEFINE single == Len(blocks) = 1 /\ received.index # 0
           same == calculateHash(received) = calculateHash(held)
           fits == calculateHash(held) = received.previousHash
<1>1. /\ IsNode(node[n]) /\ IsSeq(node[n].chain)
      /\ \A c \in heldChains : IsSeq(c)
  BY DEF NetworkInv, NodesInv, HeldNode
<1>2. IsSeq(blocks)
  BY <1>1, IsSeqSingleton DEF KnownBlocks
<1>3. /\ Abstract!getLatestBlock(blocks) = received
      /\ Abstract!getLatestBlock([m \in Nodes |-> node[m].chain][n]) = held
      /\ \A b : Abstract!calculateHash(b) = calculateHash(b)
  BY <1>0, SameLatest, SameHash
<1>4. CASE /\ UNCHANGED <<node, heldChains>>
           /\ link' = l \/ link' = AskForChains(n, l)
  <2>1. KnownQueue(<<QueryBlockchain>>, heldChains, sentTransactions)
    BY KnownMessages, KnownShort
  <2>2. KnownQueues(AskForChains(n, l), heldChains, sentTransactions)
    BY <2>1, KnownSent DEF AskForChains
  <2> QED BY <1>4, <2>2, QueuesOnly
<1>5. ASSUME ~same, single, fits, addBlockToBlockchainAccepts(n, received),
             node' = [node EXCEPT ![n] = addBlockToBlockchain(n, received)],
             heldChains' = heldChains \cup {addBlockToBlockchain(n, received).chain},
             link' = broadcast(l, n, News(addBlockToBlockchain(n, received).chain))
      PROVE  NetworkInv' /\ AbstractStep
  <2>1. PICK c, u : /\ c = Append(node[n].chain, received)
                    /\ u = updateUnspentTransOuts(received.data, node[n].utxo)
    OBVIOUS
  <2>2. PICK s : s = Holding(node[n], c, u)
    OBVIOUS
  <2>3. addBlockToBlockchain(n, received) = s /\ IsSeq(c)
    BY <1>1, <2>1, <2>2, AddedParts
  <2>4. s.chain = c
    BY <1>1, <2>2, HoldingParts DEF Holds
  <2>5. /\ node' = [node EXCEPT ![n] = s] /\ heldChains' = heldChains \cup {c}
        /\ link' = broadcast(l, n, News(c))
    BY <1>5, <2>3, <2>4
  <2>6. /\ NetworkInv' /\ Abstract!HoldChain(n, c, u)
        /\ [m \in Nodes |-> node[m].mining]' = [m \in Nodes |-> node[m].mining]
    BY <2>2, <2>3, <2>5, HoldAnnounced
  <2>7. Abstract!addBlockToBlockchain(n, received)
    BY <1>1, <1>5, <2>1, <2>6, AddedParts
  <2>8. Abstract!newBlocksHandler(n, blocks)
    BY <1>3, <1>5, <2>7 DEF Abstract!newBlocksHandler
  <2>9. Abstract!Next
    BY <2>6, <2>8, BlocksReceived
  <2> QED BY <2>6, <2>9 DEF AbstractStep
<1>6. ASSUME ~same, ~single, replaceChainAccepts(n, blocks),
             NEW s, s = Holding(node[n], blocks, UtxoAfter(blocks)[Len(blocks)]),
             node' = [node EXCEPT ![n] = s],
             heldChains' = heldChains \cup {s.chain},
             link' = broadcast(l, n, News(s.chain))
      PROVE  NetworkInv' /\ AbstractStep
  <2>1. PICK u : u = UtxoAfter(blocks)[Len(blocks)]
    OBVIOUS
  <2>2. s.chain = blocks
    BY <1>1, <1>6, HoldingParts DEF Holds
  <2>3. /\ NetworkInv' /\ Abstract!HoldChain(n, blocks, u)
        /\ [m \in Nodes |-> node[m].mining]' = [m \in Nodes |-> node[m].mining]
    BY <1>2, <1>6, <2>1, <2>2, HoldAnnounced
  <2>4. Abstract!UtxoAfter(blocks)[Len(blocks)] = u
    BY <2>1, SameUtxoAfter
  <2>5. Abstract!replaceChain(n, blocks)
    BY <1>6, <2>3, <2>4, SameAccepts DEF Abstract!replaceChain, Abstract!HoldChain
  <2>6. Abstract!newBlocksHandler(n, blocks)
    BY <1>3, <1>6, <2>5 DEF Abstract!newBlocksHandler
  <2>7. Abstract!Next
    BY <2>3, <2>6, BlocksReceived
  <2> QED BY <2>3, <2>7 DEF AbstractStep
<1> QED BY <1>0, <1>4, <1>5, <1>6 DEF newBlocksHandler

\* The handling of a message is a step of SkanCoin or none.
LEMMA ReceiveStep ==
  ASSUME NetworkInv, NEW n \in Nodes, NEW m, <<n, m>> \in Pairs, <<m, n>> \in Pairs,
         Receive(n, m)
  PROVE  NetworkInv' /\ AbstractStep
<1>0. PICK message, l : /\ message = Head(link[<<m, n>>])
                        /\ l = [link EXCEPT ![<<m, n>>] = Tail(@)]
  OBVIOUS
<1>1. /\ \/ HandleQueryLatest(n, m, message, l)
         \/ HandleQueryBlockchain(n, m, message, l)
         \/ HandleQueryPool(n, m, message, l)
         \/ HandleBlocks(n, message, l)
         \/ HandlePool(n, message, l)
      /\ link[<<m, n>>] # <<>>
      /\ UNCHANGED <<clock, sentTransactions>>
  BY <1>0 DEF Receive
<1>2. /\ KnownMessage(message, heldChains, sentTransactions)
      /\ KnownQueues(l, heldChains, sentTransactions)
  <2>1. KnownQueues(link, heldChains, sentTransactions)
    BY DEF NetworkInv, LinkInv
  <2> QED BY <1>0, <1>1, <2>1, KnownRest
<1>3. CASE HandleBlocks(n, message, l)
  <2>1. newBlocksHandler(n, message.blocks, l) /\ KnownBlocks(message.blocks, heldChains)
    BY <1>2, <1>3 DEF HandleBlocks, KnownMessage
  <2> QED BY <1>1, <1>2, <2>1, newBlocksHandlerStep
<1>4. CASE HandlePool(n, message, l)
  BY <1>1, <1>2, <1>4, HandlePoolStep
<1>5. CASE \/ HandleQueryLatest(n, m, message, l)
           \/ HandleQueryBlockchain(n, m, message, l)
           \/ HandleQueryPool(n, m, message, l)
  BY <1>1, <1>2, <1>5, QuestionStep
<1> QED BY <1>1, <1>3, <1>4, <1>5

-----------------------------------------------------------------------------
(* The network *)

\* The nodes start as those of SkanCoin, with empty queues.
LEMMA NetworkInit == Init => NetworkInv /\ Abstract!Init
<1> SUFFICES ASSUME Init PROVE NetworkInv /\ Abstract!Init
  OBVIOUS
<1>1. /\ clock \in [Nodes -> 0..MaxSkew]
      /\ node = [n \in Nodes |-> NewNode(n, clock[n])]
      /\ link = [p \in Pairs |-> <<>>]
      /\ heldChains = {node[n].chain : n \in Nodes} /\ sentTransactions = {}
  BY DEF Init
<1>2. \A n \in Nodes : node[n] = NewNode(n, clock[n]) /\ NewNode(n, clock[n]).chain \in heldChains
  BY <1>1
<1>3. NodesInv
  <2>1. \A n \in Nodes : HeldNode(node[n], heldChains, sentTransactions) /\ IsSeq(node[n].chain)
    BY <1>2, NewNodeHeld
  <2>2. node = [n \in Nodes |-> node[n]]
    BY <1>1
  <2> QED BY <1>1, <2>1, <2>2 DEF NodesInv
<1>4. LinkInv
  <2>1. KnownQueue(<<>>, heldChains, sentTransactions)
    BY DEF KnownQueue, IsSeq
  <2> QED BY <1>1, <2>1 DEF LinkInv, KnownQueues
<1>5. Abstract!Init
  <2>1. [n \in Nodes |-> node[n].chain] = [n \in Nodes |-> Abstract!InitialChain(n, clock[n])]
    BY <1>2, NewNodeSame
  <2>2. [n \in Nodes |-> node[n].utxo]
          = [n \in Nodes |-> Abstract!updateUnspentTransOuts(
                               [m \in Nodes |-> node[m].chain][n][1].data, {})]
    <3>1. \A n \in Nodes : [m \in Nodes |-> node[m].chain][n]
                             = Abstract!InitialChain(n, clock[n])
      BY <2>1
    <3>2. \A n \in Nodes : node[n].utxo
            = Abstract!updateUnspentTransOuts(Abstract!InitialChain(n, clock[n])[1].data, {})
      BY <1>2, NewNodeSame
    <3> QED BY <3>1, <3>2
  <2>3. [n \in Nodes |-> node[n].pool] = [n \in Nodes |-> <<>>]
    BY <1>2, NewNodeSame
  <2>4. [n \in Nodes |-> node[n].mining] = [n \in Nodes |-> None]
    BY <1>2, NewNodeSame
  <2>5. heldChains = {[m \in Nodes |-> node[m].chain][n] : n \in Nodes}
    BY <1>1
  <2> QED BY <1>1, <2>1, <2>2, <2>3, <2>4, <2>5 DEF Abstract!Init
<1> QED BY <1>3, <1>4, <1>5 DEF NetworkInv

\* Every step of the network is one of SkanCoin or changes nothing of it.
LEMMA NetworkNext == NetworkInv /\ [Next]_vars => NetworkInv' /\ AbstractStep
<1> SUFFICES ASSUME NetworkInv, [Next]_vars PROVE NetworkInv' /\ AbstractStep
  OBVIOUS
<1>1. ASSUME NEW n \in Nodes, UserStep(n) PROVE NetworkInv' /\ AbstractStep
  <2>1. CASE \E p \in PoolPayments : p.sender = n /\ SendTransaction(n, p.outs[1])
    BY <2>1, SendTransactionStep
  <2>2. CASE createNextBlock(n)
    BY <2>2, createNextBlockStep
  <2>3. CASE \E p \in BlockPayments :
               p.sender = n /\ createNextBlockWithTransaction(n, p.outs)
    BY <2>3, createNextBlockWithTransactionStep
  <2>4. CASE FinishMining(n)
    BY <2>4, FinishMiningStep
  <2> QED BY <1>1, <2>1, <2>2, <2>3, <2>4 DEF UserStep
<1>2. ASSUME NEW n \in Nodes, Tick(n) PROVE NetworkInv' /\ AbstractStep
  BY <1>2, TickStep
<1>3. ASSUME NEW n \in Nodes, n \in Crashing, Restart(n) PROVE NetworkInv' /\ AbstractStep
  BY <1>3, RestartStep
<1>4. ASSUME NEW p \in Pairs,
             \/ OpenConnection(p[1], p[2]) \/ connectToPeer(p[1], p[2]) \/ Break(p[1], p[2])
      PROVE  NetworkInv' /\ AbstractStep
  BY <1>4, PairNodes, ConnectionStep
<1>5. ASSUME NEW p \in Pairs, Receive(p[1], p[2]) PROVE NetworkInv' /\ AbstractStep
  BY <1>5, PairNodes, ReceiveStep
<1>6. CASE UNCHANGED vars
  <2>1. UNCHANGED <<node, clock, link, heldChains, sentTransactions>>
    BY <1>6 DEF vars, history
  <2> QED BY <2>1, QueuesOnly DEF NetworkInv, LinkInv
<1> QED BY <1>1, <1>2, <1>3, <1>4, <1>5, <1>6 DEF Next

\* However connections come, break and come again, a queue holds only chains that
\* some node has held, last blocks of them, and transactions that some node made.
THEOREM NetworkKeepsInv == Spec => []NetworkInv
<1>1. Init => NetworkInv
  BY NetworkInit
<1>2. NetworkInv /\ [Next]_vars => NetworkInv'
  BY NetworkNext
<1> QED BY <1>1, <1>2, PTL DEF Spec

\* The nodes with their connections and queues, however many of them, with
\* crashes and broken connections, do nothing that SkanCoin does not do.
THEOREM NetworkImplements == Spec => Implements
<1>1. Init => NetworkInv /\ Abstract!Init
  BY NetworkInit
<1>2. NetworkInv /\ [Next]_vars => NetworkInv' /\ [Abstract!Next]_(Abstract!vars)
  BY NetworkNext DEF AbstractStep
<1> QED BY <1>1, <1>2, PTL DEF Spec, Implements, Abstract!Spec

-----------------------------------------------------------------------------
(* The chains of the network *)

\* A chain that was built block by block: each block fits the one before it, at
\* whatever time, its transactions are valid with what is unspent before it, and
\* none has a negative difficulty.
Built(c) ==
  /\ IsSeq(c) /\ c # <<>> /\ Linked(c) /\ FairDifficulties(c)
  /\ \A i \in 1..Len(c) :
       /\ areValidBlockTransactions(c[i].data, UtxoAfter(c)[i - 1], c[i].index)
       /\ c[i].timestamp \in Nat
  /\ \A i \in 2..Len(c) : c[i - 1].timestamp - TIMESTAMP_TOLERANCE < c[i].timestamp

\* Every block of c was made at a time that some clock has shown, the first by a
\* node that was started then.
Past(c) ==
  /\ \A i \in 1..Len(c) : \E k \in Nodes : c[i].timestamp <= clock[k]
  /\ \E k \in Nodes, time \in Nat : time <= clock[k] /\ c[1] = getGenesisBlock(k, time)

\* The candidate b of node n: a block of its own, made at a time its clock has shown.
Own(n, b) ==
  /\ b.index \in Nat \ {0} /\ b.difficulty \in Int
  /\ b.timestamp \in Nat /\ b.timestamp <= clock[n]
  /\ b.data[1].transOuts[1].address = n

\* What a node holds fits together.
Sound(n, s) ==
  /\ s.utxo = UtxoAfter(s.chain)[Len(s.chain)]
  /\ s.mining # None => Own(n, s.mining)

\* All of that, for all chains, nodes and clocks.
ChainsInv ==
  /\ \A n \in Nodes : clock[n] \in Nat /\ Sound(n, node[n])
  /\ clock = [n \in Nodes |-> clock[n]]
  /\ \A c \in heldChains : Built(c) /\ Past(c)

\* A chain that is held has a last block, whose index counts the others.
LEMMA BuiltTip ==
  ASSUME NEW c, Built(c)
  PROVE  /\ Len(c) \in Nat /\ Len(c) >= 1 /\ Len(c) \in 1..Len(c) /\ 1 \in 1..Len(c)
         /\ DOMAIN c = 1..Len(c)
         /\ getLatestBlock(c) = c[Len(c)]
         /\ getLatestBlock(c).index = Len(c) - 1
         /\ getLatestBlock(c).timestamp \in Nat
         /\ HaveDifficulties(c)
<1>1. Len(c) \in Nat /\ Len(c) >= 1 /\ DOMAIN c = 1..Len(c)
  BY IsSeqShape DEF Built
<1>2. Len(c) \in 1..Len(c) /\ 1 \in 1..Len(c)
  BY <1>1
<1>3. c[Len(c)].index = Len(c) - 1 /\ c[Len(c)].timestamp \in Nat
  BY <1>2, LinkedIndex DEF Built
<1>4. HaveDifficulties(c)
  BY DEF Built, FairDifficulties, HaveDifficulties
<1> QED BY <1>1, <1>2, <1>3, <1>4 DEF getLatestBlock

\* A block that a node would add to the chain c at this time.
Fits(b, c, now) ==
  /\ isBlockValid(b, getLatestBlock(c), now)
  /\ areValidBlockTransactions(b.data, UtxoAfter(c)[Len(c)], b.index)
  /\ b.difficulty \in Nat /\ b.timestamp \in Nat

\* What a node may add to a chain keeps it so.
LEMMA BuiltAppend ==
  ASSUME NEW c, Built(c), NEW b, NEW now, Fits(b, c, now), NEW d, d = Append(c, b)
  PROVE  /\ Built(d) /\ getLatestBlock(d) = b /\ Len(d) = Len(c) + 1 /\ d[1] = c[1]
         /\ updateUnspentTransOuts(b.data, UtxoAfter(c)[Len(c)]) = UtxoAfter(d)[Len(d)]
<1>0. PICK u : u = UtxoAfter(c)[Len(c)]
  OBVIOUS
<1>11. /\ isBlockValid(b, getLatestBlock(c), now)
      /\ areValidBlockTransactions(b.data, u, b.index)
      /\ b.difficulty \in Nat /\ b.timestamp \in Nat
  BY <1>0 DEF Fits
<1>1. /\ IsSeq(c) /\ c # <<>> /\ Linked(c) /\ FairDifficulties(c)
      /\ Len(c) \in Nat /\ Len(c) >= 1 /\ 1 \in 1..Len(c)
      /\ getLatestBlock(c) = c[Len(c)]
  BY BuiltTip DEF Built
<1>2. /\ IsSeq(d) /\ d # <<>> /\ Len(d) = Len(c) + 1
      /\ \A i \in 1..Len(c) : d[i] = c[i]
      /\ d[Len(c) + 1] = b
  BY <1>1, IsSeqAppend
<1>3. Linked(d) /\ FairDifficulties(d)
  BY <1>1, <1>11, LinkedAppend, FairAppend
<1>4. \A i \in 1..Len(d) : i \in 1..Len(c) \/ i = Len(c) + 1
  BY <1>1, <1>2
<1>5. UtxoAfter(d)[Len(d)] = updateUnspentTransOuts(b.data, u)
  BY <1>0, <1>1, <1>2, UtxoAfterAppend
<1>6. \A i \in 0..Len(c) : UtxoAfter(d)[i] = UtxoAfter(c)[i]
  <2>1. Len(c) <= Len(d) /\ \A i \in 1..Len(c) : c[i] = d[i]
    BY <1>1, <1>2
  <2>2. IsSeq(c) /\ IsSeq(d)
    BY <1>1, <1>2
  <2>3. \A i \in 0..Len(c) : UtxoAfter(c)[i] = UtxoAfter(d)[i]
    BY <2>1, <2>2, UtxoAfterPrefix
  <2> QED BY <2>3
<1>7. ASSUME NEW i \in 1..Len(d)
      PROVE  /\ areValidBlockTransactions(d[i].data, UtxoAfter(d)[i - 1], d[i].index)
             /\ d[i].timestamp \in Nat
  <2>1. CASE i \in 1..Len(c)
    <3>1. i - 1 \in 0..Len(c)
      BY <1>1, <2>1
    <3>2. /\ areValidBlockTransactions(c[i].data, UtxoAfter(c)[i - 1], c[i].index)
          /\ c[i].timestamp \in Nat
      BY <2>1 DEF Built
    <3> QED BY <1>2, <1>6, <2>1, <3>1, <3>2
  <2>2. CASE i = Len(c) + 1
    <3>1. i - 1 = Len(c) /\ Len(c) \in 0..Len(c)
      BY <1>1, <2>2
    <3> QED BY <1>0, <1>2, <1>6, <1>11, <2>2, <3>1
  <2> QED BY <1>4, <2>1, <2>2
<1>8. ASSUME NEW i \in 2..Len(d)
      PROVE  d[i - 1].timestamp - TIMESTAMP_TOLERANCE < d[i].timestamp
  <2>1. CASE i \in 1..Len(c)
    <3>1. i \in 2..Len(c) /\ i - 1 \in 1..Len(c)
      BY <1>1, <2>1
    <3>2. c[i - 1].timestamp - TIMESTAMP_TOLERANCE < c[i].timestamp
      BY <3>1 DEF Built
    <3> QED BY <1>2, <2>1, <3>1, <3>2
  <2>2. CASE i = Len(c) + 1
    <3>1. i - 1 = Len(c) /\ Len(c) \in 1..Len(c)
      BY <1>1, <2>2
    <3>2. c[Len(c)].timestamp - TIMESTAMP_TOLERANCE < b.timestamp
      BY <1>1, <1>11 DEF isBlockValid, isValidTimestamp
    <3> QED BY <1>2, <2>2, <3>1, <3>2
  <2>3. i \in 1..Len(d)
    BY <1>1, <1>2
  <2> QED BY <1>4, <2>1, <2>2, <2>3
<1>9. Built(d)
  BY <1>2, <1>3, <1>7, <1>8 DEF Built
<1>10. getLatestBlock(d) = b
  BY <1>2 DEF getLatestBlock
<1> QED BY <1>0, <1>1, <1>2, <1>5, <1>9, <1>10

\* Nor does it come from the future.
LEMMA PastAppend ==
  ASSUME NEW c, IsSeq(c), c # <<>>, Past(c), NEW n \in Nodes,
         NEW b, b.timestamp <= clock[n], NEW d, d = Append(c, b)
  PROVE  Past(d)
<1>1. /\ Len(c) \in Nat /\ Len(c) >= 1 /\ Len(d) = Len(c) + 1
      /\ \A i \in 1..Len(c) : d[i] = c[i]
      /\ d[Len(c) + 1] = b
  BY IsSeqShape, IsSeqAppend
<1>2. d[1] = c[1]
  BY <1>1
<1>3. ASSUME NEW i \in 1..Len(d) PROVE \E k \in Nodes : d[i].timestamp <= clock[k]
  <2>1. i \in 1..Len(c) \/ i = Len(c) + 1
    BY <1>1
  <2>2. CASE i \in 1..Len(c)
    BY <1>1, <2>2 DEF Past
  <2>3. CASE i = Len(c) + 1
    BY <1>1, <2>3
  <2> QED BY <2>1, <2>2, <2>3
<1> QED BY <1>2, <1>3 DEF Past

\* A new node's first block is a chain by itself.
LEMMA BuiltFirst ==
  ASSUME NEW n, NEW time \in Nat, NEW s, s = NewNode(n, time)
  PROVE  /\ s.chain = <<getGenesisBlock(n, time)>> /\ s.pool = <<>> /\ s.mining = None
         /\ s.utxo = UtxoAfter(s.chain)[Len(s.chain)]
         /\ Built(s.chain) /\ Len(s.chain) = 1
         /\ s.chain[1] = getGenesisBlock(n, time) /\ s.chain[1].timestamp = time
<1> DEFINE g == getGenesisBlock(n, time)
<1>1. s.chain = <<g>> /\ s.utxo = updateUnspentTransOuts(<<g>>[1].data, {})
      /\ s.pool = <<>> /\ s.mining = None
  BY DEF NewNode
<1>2. /\ g.index = 0 /\ g.timestamp = time /\ g.difficulty = 0
      /\ g.data = <<getCoinbaseTransaction(n, 0)>>
  BY DEF getGenesisBlock, Block
<1> HIDE DEF g
<1> SUFFICES ASSUME NEW c, c = <<g>>
    PROVE  /\ updateUnspentTransOuts(c[1].data, {}) = UtxoAfter(c)[Len(c)]
           /\ Built(c) /\ Len(c) = 1 /\ c[1] = g
  BY <1>1, <1>2 DEF g
<1>3. /\ IsSeq(c) /\ c # <<>> /\ Len(c) = 1 /\ c[1] = g /\ DOMAIN c = 1..1
      /\ \A i \in 1..1 : i = 1
  BY IsSeqSingleton
<1>4. UtxoAfter(c)[1] = updateUnspentTransOuts(g.data, {}) /\ UtxoAfter(c)[0] = {}
  BY <1>3, UtxoAfterSingleton, UtxoAfterDef
<1>5. Linked(c) /\ FairDifficulties(c)
  BY <1>2, <1>3 DEF Linked, FairDifficulties
<1>6. areValidBlockTransactions(g.data, {}, 0)
  <2> DEFINE t == getCoinbaseTransaction(n, 0)
  <2> SUFFICES ASSUME NEW ts, ts = <<t>> PROVE areValidBlockTransactions(ts, {}, 0)
    BY <1>2
  <2>1. ts[1] = t /\ Len(ts) = 1 /\ DOMAIN ts = 1..1
    BY IsSeqSingleton
  <2>2. isValidCoinbaseTransaction(t, 0)
    BY DEF isValidCoinbaseTransaction, getCoinbaseTransaction, OutPoint, TransOut
  <2> HIDE DEF t
  <2>3. ~hasDuplicates(ts)
    BY <1>3, <2>1 DEF hasDuplicates
  <2> QED BY <2>1, <2>2, <2>3 DEF areValidBlockTransactions
<1>7. \A i \in 1..Len(c) : i = 1 /\ i - 1 = 0
  BY <1>3
<1>8. \A i \in 1..Len(c) :
        /\ areValidBlockTransactions(c[i].data, UtxoAfter(c)[i - 1], c[i].index)
        /\ c[i].timestamp \in Nat
  BY <1>2, <1>3, <1>4, <1>6, <1>7
<1>9. 2..Len(c) = {}
  BY <1>3
<1>10. Built(c)
  BY <1>3, <1>5, <1>8, <1>9 DEF Built
<1> QED BY <1>3, <1>4, <1>10

\* The difficulty of the next block is an integer: the block of the previous
\* adjustment exists.
LEMMA DifficultyOfBuilt ==
  ASSUME NEW c, Built(c)
  PROVE  getDifficulty(c) \in Int
<1> DEFINE D == DIFFICULTY_ADJUSTMENT_INTERVAL
<1>0. /\ Len(c) \in Nat /\ Len(c) >= 1 /\ DOMAIN c = 1..Len(c)
      /\ getLatestBlock(c) = c[Len(c)] /\ getLatestBlock(c).index = Len(c) - 1
      /\ \A i \in 1..Len(c) : c[i].difficulty \in Int
      /\ D \in Nat /\ D > 0
  BY BuiltTip, IntervalAssumption DEF HaveDifficulties
<1>1. CASE getLatestBlock(c).index % D = 0 /\ getLatestBlock(c).index # 0
  <2>1. \A x \in Nat : x < D => x % D = x
    BY <1>0
  <2>2. Len(c) - 1 >= D
    BY <1>0, <1>1, <2>1
  <2>3. Len(c) - D + 1 \in 1..Len(c)
    BY <1>0, <2>2
  <2>4. c[Len(c) - D + 1].difficulty \in Int
    BY <1>0, <2>3
  <2>5. getDifficulty(c) = computeNewDifficulty(getLatestBlock(c), c)
    BY <1>1 DEF getDifficulty
  <2> QED BY <2>4, <2>5 DEF computeNewDifficulty
<1>2. CASE ~(getLatestBlock(c).index % D = 0 /\ getLatestBlock(c).index # 0)
  <2>1. getDifficulty(c) = getLatestBlock(c).difficulty
    BY <1>2 DEF getDifficulty
  <2>2. Len(c) \in 1..Len(c)
    BY <1>0
  <2> QED BY <1>0, <2>1, <2>2
<1> QED BY <1>1, <1>2

\* The candidate that a node begins to mine is its own.
LEMMA CandidateOwn ==
  ASSUME NEW n \in Nodes, Built(node[n].chain), clock[n] \in Nat, NEW ts, IsSeq(ts)
  PROVE  Own(n, Candidate(n, ts))
<1> DEFINE b == Candidate(n, ts)
           last == getLatestBlock(node[n].chain)
           coinbase == getCoinbaseTransaction(n, last.index + 1)
<1>1. /\ b.index = last.index + 1 /\ b.difficulty = getDifficulty(node[n].chain)
      /\ b.timestamp = clock[n] /\ b.data = <<coinbase>> \o ts
  BY DEF Candidate, Block
<1>2. last.index \in Nat
  BY BuiltTip
<1>3. coinbase.transOuts[1].address = n
  BY DEF getCoinbaseTransaction, TransOut
<1> HIDE DEF b, coinbase, last
<1>4. b.data[1] = coinbase
  BY <1>1, IsSeqPrefixed
<1>5. b.difficulty \in Int
  BY <1>1, DifficultyOfBuilt
<1>6. Own(n, b)
  BY <1>1, <1>2, <1>3, <1>4, <1>5 DEF Own
<1> QED BY <1>6 DEF b

\* What a node is sent is a chain that was built, or a block that says which.
LEMMA BlocksOf ==
  ASSUME NEW c, Built(c), NEW blocks, blocks = c \/ blocks = <<getLatestBlock(c)>>
  PROVE  /\ getLatestBlock(blocks) = getLatestBlock(c)
         /\ (Len(blocks) = 1 /\ getLatestBlock(blocks).index # 0)
              => Len(c) > 1
         /\ ~(Len(blocks) = 1 /\ getLatestBlock(blocks).index # 0)
              => blocks = c
<1>1. /\ Len(c) \in Nat /\ Len(c) >= 1 /\ getLatestBlock(c).index = Len(c) - 1
      /\ IsSeq(c) /\ c # <<>> /\ Linked(c)
  BY BuiltTip DEF Built
<1>2. CASE blocks = c
  BY <1>1, <1>2
<1>3. CASE blocks = <<getLatestBlock(c)>>
  <2>1. Len(blocks) = 1 /\ getLatestBlock(blocks) = getLatestBlock(c)
    BY <1>3, IsSeqSingleton DEF getLatestBlock
  <2>2. getLatestBlock(c).index = 0 => c = <<getLatestBlock(c)>>
    BY <1>1, SoleBlock
  <2>3. CASE getLatestBlock(c).index = 0
    BY <1>1, <1>3, <2>1, <2>2, <2>3
  <2>4. CASE getLatestBlock(c).index # 0
    <3>1. Len(c) > 1
      <4>1. \A k \in Nat : k >= 1 /\ k # 1 => k > 1
        OBVIOUS
      <4>2. Len(c) = 1 => getLatestBlock(c).index = 0
        BY <1>1
      <4> QED BY <1>1, <2>4, <4>1, <4>2
    <3> QED BY <2>1, <2>4, <3>1
  <2> QED BY <2>3, <2>4
<1> QED BY <1>2, <1>3

-----------------------------------------------------------------------------
(* What a step does to the chain of a node *)

\* Node n comes to hold the chain c and tells its peers, l being the queues.
Takes(n, c, l) ==
  \E s : /\ Becomes(n, s)
         /\ s.chain = c /\ s.utxo = UtxoAfter(c)[Len(c)]
         /\ s.pool = updatePool(node[n].pool, s.utxo) /\ s.mining = node[n].mining
         /\ link' = broadcast(l, n, News(c))

\* What follows for each chain, node and clock from the invariant.
LEMMA ChainsFacts ==
  ASSUME NetworkInv, ChainsInv
  PROVE  /\ \A c \in heldChains : /\ Built(c) /\ Past(c)
                                  /\ IsSeq(c) /\ c # <<>> /\ Linked(c)
         /\ \A n \in Nodes : /\ IsNode(node[n]) /\ node[n].chain \in heldChains
                             /\ Built(node[n].chain) /\ Past(node[n].chain)
                             /\ IsSeq(node[n].chain)
                             /\ node[n].utxo = UtxoAfter(node[n].chain)[Len(node[n].chain)]
                             /\ node[n].mining # None => Own(n, node[n].mining)
                             /\ IsSeq(node[n].pool) /\ clock[n] \in Nat
  BY DEF ChainsInv, NetworkInv, NodesInv, HeldNode, Sound, Built

\* Received blocks of the chain c make a node hold c, ask for chains, or leave it
\* as it is, because it holds c, or it does not accept c or the last block of c.
LEMMA BlocksOutcome ==
  ASSUME NetworkInv, ChainsInv, NEW n \in Nodes, NEW c \in heldChains,
         NEW blocks, blocks = c \/ blocks = <<getLatestBlock(c)>>, NEW l,
         newBlocksHandler(n, blocks, l)
  PROVE  /\ heldChains' = heldChains
         /\ \/ /\ Takes(n, c, l)
               /\ \/ c = Append(node[n].chain, getLatestBlock(c))
                  \/ isBetterChain(c, node[n].chain)
            \/ node' = node /\ link' = broadcast(l, n, <<QueryBlockchain>>)
            \/ /\ node' = node /\ link' = l
               /\ \/ c = node[n].chain
                  \/ ~replaceChainAccepts(n, c)
                  \/ /\ c = Append(node[n].chain, getLatestBlock(c))
                     /\ ~addBlockToBlockchainAccepts(n, getLatestBlock(c))
<1>0. PICK d, b, held, u : /\ d = node[n].chain /\ b = getLatestBlock(blocks)
                           /\ held = getLatestBlock(d) /\ u = node[n].utxo
  OBVIOUS
<1> DEFINE single == Len(blocks) = 1 /\ b.index # 0
           same == calculateHash(b) = calculateHash(held)
           fits == calculateHash(held) = b.previousHash
<1>1. /\ Built(c) /\ IsSeq(c) /\ c # <<>> /\ Linked(c)
      /\ d \in heldChains /\ IsSeq(d) /\ d # <<>> /\ Linked(d)
      /\ IsNode(node[n]) /\ u = UtxoAfter(d)[Len(d)]
  BY <1>0, ChainsFacts
<1>2. /\ b = getLatestBlock(c) /\ (~single => blocks = c)
  BY <1>0, <1>1, BlocksOf
<1>3. single /\ fits => c = Append(d, b)
  BY <1>0, <1>1, <1>2, LinkedExtends
<1>4. CASE ~same /\ single /\ fits /\ addBlockToBlockchainAccepts(n, b)
  <2>1. /\ node' = [node EXCEPT ![n] = addBlockToBlockchain(n, b)]
        /\ heldChains' = heldChains \cup {addBlockToBlockchain(n, b).chain}
        /\ link' = broadcast(l, n, News(addBlockToBlockchain(n, b).chain))
    BY <1>0, <1>4 DEF newBlocksHandler
  <2>2. PICK v : v = updateUnspentTransOuts(b.data, u)
    OBVIOUS
  <2>3. PICK s : s = Holding(node[n], c, v)
    OBVIOUS
  <2>4. addBlockToBlockchain(n, b) = s
    BY <1>0, <1>3, <1>4, <2>2, <2>3 DEF addBlockToBlockchain
  <2>5. /\ s.chain = c /\ s.utxo = v /\ s.pool = updatePool(node[n].pool, v)
        /\ s.mining = node[n].mining
    BY <1>1, <2>3, HoldingParts DEF Holds
  <2>6. v = UtxoAfter(c)[Len(c)]
    <3>1. Len(c) = Len(d) + 1
      BY <1>1, <1>3, <1>4, IsSeqAppend
    <3>2. UtxoAfter(c)[Len(d) + 1] = updateUnspentTransOuts(b.data, UtxoAfter(d)[Len(d)])
      BY <1>1, <1>3, <1>4, UtxoAfterAppend
    <3> QED BY <1>1, <2>2, <3>1, <3>2
  <2>7. Becomes(n, s)
    BY <2>1, <2>4, BecomesExcept DEF NetworkInv
  <2>8. Takes(n, c, l)
    BY <2>1, <2>4, <2>5, <2>6, <2>7 DEF Takes
  <2>9. heldChains' = heldChains
    BY <2>1, <2>4, <2>5
  <2> QED BY <1>0, <1>2, <1>3, <1>4, <2>8, <2>9
<1>5. CASE ~same /\ ~single /\ replaceChainAccepts(n, blocks)
  <2>1. PICK s : s = Holding(node[n], c, UtxoAfter(c)[Len(c)])
    OBVIOUS
  <2>2. /\ node' = [node EXCEPT ![n] = s]
        /\ heldChains' = heldChains \cup {s.chain}
        /\ link' = broadcast(l, n, News(s.chain))
    BY <1>0, <1>2, <1>5, <2>1 DEF newBlocksHandler
  <2>3. /\ s.chain = c /\ s.utxo = UtxoAfter(c)[Len(c)]
        /\ s.pool = updatePool(node[n].pool, UtxoAfter(c)[Len(c)])
        /\ s.mining = node[n].mining
    BY <1>1, <2>1, HoldingParts DEF Holds
  <2>4. Becomes(n, s)
    BY <2>2, BecomesExcept DEF NetworkInv
  <2>5. Takes(n, c, l)
    BY <2>2, <2>3, <2>4 DEF Takes
  <2>6. heldChains' = heldChains
    BY <2>2, <2>3
  <2> QED BY <1>2, <1>5, <2>5, <2>6 DEF replaceChainAccepts
<1>6. CASE ~same /\ single /\ ~fits
  <2>1. node' = node /\ heldChains' = heldChains /\ link' = broadcast(l, n, <<QueryBlockchain>>)
    BY <1>0, <1>6 DEF newBlocksHandler, AskForChains
  <2> QED BY <2>1
<1>7. CASE ~same /\ single /\ fits /\ ~addBlockToBlockchainAccepts(n, b)
  <2>1. node' = node /\ heldChains' = heldChains /\ link' = l
    BY <1>0, <1>7 DEF newBlocksHandler
  <2> QED BY <1>0, <1>2, <1>3, <1>7, <2>1
<1>8. CASE ~same /\ ~single /\ ~replaceChainAccepts(n, blocks)
  <2>1. node' = node /\ heldChains' = heldChains /\ link' = l
    BY <1>0, <1>8 DEF newBlocksHandler
  <2> QED BY <1>2, <1>8, <2>1
<1>9. CASE same
  <2>1. node' = node /\ heldChains' = heldChains /\ link' = l
    BY <1>0, <1>9 DEF newBlocksHandler
  <2>2. getLatestBlock(c) = getLatestBlock(d)
    BY <1>0, <1>2, <1>9 DEF calculateHash
  <2>3. c = d
    BY <1>1, <2>2, LinkedTip
  <2> QED BY <1>0, <2>1, <2>3
<1> QED BY <1>4, <1>5, <1>6, <1>7, <1>8, <1>9

\* Node n adds the transaction t to its pool and tells its peers.
Adds(n, t, l) ==
  \E s : /\ Becomes(n, s)
         /\ s.chain = node[n].chain /\ s.utxo = node[n].utxo /\ s.mining = node[n].mining
         /\ s.pool = Append(node[n].pool, t)
         /\ link' = broadcast(l, n, responsePoolMsgs(s.pool))

\* Node n adds its block to its chain, which becomes c, and tells its peers.
Mines(n, c) ==
  \E s : /\ Becomes(n, s)
         /\ s.chain = c /\ s.utxo = UtxoAfter(c)[Len(c)]
         /\ s.pool = updatePool(node[n].pool, s.utxo) /\ s.mining = None
         /\ link' = broadcast(link, n, <<ResponseLatest(getLatestBlock(c))>>)

\* Only the candidate of node n changes.
Turns(n, k) ==
  \E s : /\ Becomes(n, s)
         /\ s.chain = node[n].chain /\ s.utxo = node[n].utxo /\ s.pool = node[n].pool
         /\ s.mining = k

\* The end of mining makes the chain of the node one block longer, by a block of
\* its own, or changes nothing else.
LEMMA FinishOutcome ==
  ASSUME NetworkInv, ChainsInv, NEW n \in Nodes, FinishMining(n)
  PROVE  /\ UNCHANGED <<clock, pending, joined, opened, sentTransactions>>
         /\ \/ \E b, c : /\ Own(n, b) /\ b.difficulty \in Nat
                         /\ c = Append(node[n].chain, b) /\ getLatestBlock(c) = b
                         /\ Built(c) /\ Past(c) /\ Mines(n, c)
                         /\ heldChains' = heldChains \cup {c}
            \/ Turns(n, None) /\ UNCHANGED <<link, heldChains>>
<1>0. PICK b, d, u : b = node[n].mining /\ d = node[n].chain /\ u = node[n].utxo
  OBVIOUS
<1>1. /\ b # None /\ FittingDigests(b) # {}
      /\ UNCHANGED <<clock, pending, joined, opened, sentTransactions>>
  BY <1>0 DEF FinishMining
<1>2. /\ Built(d) /\ Past(d) /\ IsSeq(d) /\ u = UtxoAfter(d)[Len(d)]
      /\ IsNode(node[n]) /\ Own(n, b)
  BY <1>0, <1>1, ChainsFacts
<1>3. b.difficulty \in Nat
  <2>1. b.difficulty >= 0
    BY <1>1 DEF FittingDigests, hashDifficultyCheck
  <2> QED BY <1>2, <2>1 DEF Own
<1>4. CASE addBlockToBlockchainAccepts(n, b)
  <2>1. PICK c, v : c = Append(d, b) /\ v = updateUnspentTransOuts(b.data, u)
    OBVIOUS
  <2>2. PICK s : s = [Holding(node[n], c, v) EXCEPT !.mining = None]
    OBVIOUS
  <2>3. /\ s.chain = c /\ s.utxo = v /\ s.pool = updatePool(node[n].pool, v)
        /\ s.mining = None
    BY <1>2, <2>2, HoldingParts DEF Holds
  <2>4. addBlockToBlockchain(n, b) = Holding(node[n], c, v) /\ Holding(node[n], c, v).chain = c
    <3>1. Holding(node[n], c, v).chain = c
      BY <1>2, HoldingParts DEF Holds
    <3> QED BY <1>0, <2>1, <3>1 DEF addBlockToBlockchain
  <2>5. /\ node' = [node EXCEPT ![n] = s]
        /\ heldChains' = heldChains \cup {c}
        /\ link' = broadcast(link, n, <<ResponseLatest(b)>>)
    BY <1>0, <1>4, <2>2, <2>4 DEF FinishMining, MinedNews
  <2>6. Becomes(n, s)
    BY <2>5, BecomesExcept DEF NetworkInv
  <2>7. /\ isBlockValid(b, getLatestBlock(d), clock[n])
        /\ areValidBlockTransactions(b.data, u, b.index)
    BY <1>0, <1>4 DEF addBlockToBlockchainAccepts
  <2>8. b.timestamp \in Nat /\ b.timestamp <= clock[n]
    BY <1>2 DEF Own
  <2>9. /\ Built(c) /\ getLatestBlock(c) = b
        /\ v = UtxoAfter(c)[Len(c)]
    <3>1. PICK now : now = clock[n]
      OBVIOUS
    <3>2. Built(d) /\ c = Append(d, b)
      BY <1>2, <2>1
    <3>3. Fits(b, d, now)
      BY <1>2, <1>3, <2>7, <2>8, <3>1 DEF Fits
    <3>4. /\ Built(c) /\ getLatestBlock(c) = b
          /\ updateUnspentTransOuts(b.data, UtxoAfter(d)[Len(d)]) = UtxoAfter(c)[Len(c)]
      BY <3>2, <3>3, BuiltAppend
    <3> QED BY <1>2, <2>1, <3>4
  <2>10. Past(c)
    BY <1>2, <2>1, <2>8, PastAppend DEF Built
  <2>11. Mines(n, c)
    BY <2>3, <2>5, <2>6, <2>9 DEF Mines
  <2> QED BY <1>0, <1>1, <1>2, <1>3, <2>1, <2>5, <2>9, <2>10, <2>11
<1>5. CASE ~addBlockToBlockchainAccepts(n, b)
  <2>1. PICK s : s = [node[n] EXCEPT !.mining = None]
    OBVIOUS
  <2>2. node' = [node EXCEPT ![n] = s] /\ link' = link /\ heldChains' = heldChains
    BY <1>0, <1>5, <2>1 DEF FinishMining
  <2>3. /\ s.chain = node[n].chain /\ s.utxo = node[n].utxo /\ s.pool = node[n].pool
        /\ s.mining = None
    BY <1>2, <2>1 DEF IsNode
  <2>4. Becomes(n, s)
    BY <2>2, BecomesExcept DEF NetworkInv
  <2>5. Turns(n, None)
    BY <2>3, <2>4 DEF Turns
  <2> QED BY <1>1, <2>2, <2>5
<1> QED BY <1>4, <1>5

\* A request to mine changes the candidate only.
LEMMA StartOutcome ==
  ASSUME NetworkInv, ChainsInv, NEW n \in Nodes, NEW ts, StartMining(n, ts)
  PROVE  /\ Turns(n, Candidate(n, ts))
         /\ UNCHANGED <<clock, pending, joined, link, opened, heldChains, sentTransactions>>
<1>1. PICK s : s = [node[n] EXCEPT !.mining = Candidate(n, ts)]
  OBVIOUS
<1>2. /\ node' = [node EXCEPT ![n] = s]
      /\ UNCHANGED <<clock, pending, joined, link, opened, heldChains, sentTransactions>>
  BY <1>1 DEF StartMining, history
<1>3. IsNode(node[n])
  BY ChainsFacts
<1>4. /\ s.chain = node[n].chain /\ s.utxo = node[n].utxo /\ s.pool = node[n].pool
      /\ s.mining = Candidate(n, ts)
  BY <1>1, <1>3 DEF IsNode
<1>5. Becomes(n, s)
  BY <1>2, BecomesExcept DEF NetworkInv
<1> QED BY <1>2, <1>4, <1>5 DEF Turns

\* What the addition of a transaction to the pool of a node is.
LEMMA AddsOutcome ==
  ASSUME NetworkInv, ChainsInv, NEW n \in Nodes, NEW t, NEW l,
         node' = [node EXCEPT ![n].pool = Append(@, t)],
         link' = broadcast(l, n, responsePoolMsgs(node'[n].pool))
  PROVE  Adds(n, t, l)
<1>1. PICK s : s = [node[n] EXCEPT !.pool = Append(@, t)]
  OBVIOUS
<1>2. node' = [node EXCEPT ![n] = s]
  BY <1>1
<1>3. IsNode(node[n])
  BY ChainsFacts
<1>4. /\ s.chain = node[n].chain /\ s.utxo = node[n].utxo /\ s.mining = node[n].mining
      /\ s.pool = Append(node[n].pool, t)
  BY <1>1, <1>3 DEF IsNode
<1>5. Becomes(n, s)
  BY <1>2, BecomesExcept DEF NetworkInv
<1>6. node'[n] = s
  BY <1>5 DEF Becomes
<1> QED BY <1>4, <1>5, <1>6 DEF Adds

-----------------------------------------------------------------------------
(* The chains over a step *)

\* A node that comes to hold a chain that was built from the past.
LEMMA ChainsKept ==
  ASSUME ChainsInv, NEW n \in Nodes, NEW s, Becomes(n, s), Sound(n, s), clock' = clock,
         NEW d, Built(d), Past(d), heldChains' \subseteq heldChains \cup {d}
  PROVE  ChainsInv'
<1>1. ASSUME NEW m \in Nodes PROVE clock'[m] \in Nat /\ Sound(m, node'[m])
  BY DEF ChainsInv, Becomes
<1>2. \A c \in heldChains' : Built(c) /\ Past(c)
  BY DEF ChainsInv
<1>3. clock' = [m \in Nodes |-> clock'[m]]
  BY DEF ChainsInv
<1> QED BY <1>1, <1>2, <1>3 DEF ChainsInv, Sound, Own, Past

\* So it is when the chains that are held stay.
LEMMA ChainsSame ==
  ASSUME ChainsInv, NEW n \in Nodes, NEW s, Becomes(n, s), Sound(n, s), clock' = clock,
         heldChains' = heldChains
  PROVE  ChainsInv'
<1>1. ASSUME NEW m \in Nodes PROVE clock'[m] \in Nat /\ Sound(m, node'[m])
  BY DEF ChainsInv, Becomes
<1>2. clock' = [m \in Nodes |-> clock'[m]]
  BY DEF ChainsInv
<1> QED BY <1>1, <1>2 DEF ChainsInv, Sound, Own, Past

\* And when only queues and connections change.
LEMMA ChainsQueuesOnly ==
  ASSUME ChainsInv, UNCHANGED <<node, clock, heldChains>>
  PROVE  ChainsInv'
  BY DEF ChainsInv, Sound, Own, Past

\* The three ways in which a node changes that do not add to the chains held.
LEMMA ChainsOver ==
  ASSUME NetworkInv, ChainsInv, NEW n \in Nodes, clock' = clock, heldChains' = heldChains
  PROVE  /\ \A c \in heldChains : \A l : Takes(n, c, l) => ChainsInv'
         /\ \A t, l : Adds(n, t, l) => ChainsInv'
         /\ \A k : Turns(n, k) /\ (k # None => Own(n, k)) => ChainsInv'
<1>1. /\ node[n].utxo = UtxoAfter(node[n].chain)[Len(node[n].chain)]
      /\ node[n].mining # None => Own(n, node[n].mining)
  BY ChainsFacts
<1>2. ASSUME NEW c \in heldChains, NEW l, Takes(n, c, l) PROVE ChainsInv'
  <2>1. PICK s : /\ Becomes(n, s) /\ s.chain = c /\ s.utxo = UtxoAfter(c)[Len(c)]
                 /\ s.mining = node[n].mining
    BY <1>2 DEF Takes
  <2>2. Sound(n, s)
    BY <1>1, <2>1 DEF Sound
  <2> QED BY <2>1, <2>2, ChainsSame
<1>3. ASSUME NEW t, NEW l, Adds(n, t, l) PROVE ChainsInv'
  <2>1. PICK s : /\ Becomes(n, s) /\ s.chain = node[n].chain /\ s.utxo = node[n].utxo
                 /\ s.mining = node[n].mining
    BY <1>3 DEF Adds
  <2>2. Sound(n, s)
    BY <1>1, <2>1 DEF Sound
  <2> QED BY <2>1, <2>2, ChainsSame
<1>4. ASSUME NEW k, Turns(n, k), k # None => Own(n, k) PROVE ChainsInv'
  <2>1. PICK s : /\ Becomes(n, s) /\ s.chain = node[n].chain /\ s.utxo = node[n].utxo
                 /\ s.mining = k
    BY <1>4 DEF Turns
  <2>2. Sound(n, s)
    BY <1>1, <1>4, <2>1 DEF Sound
  <2> QED BY <2>1, <2>2, ChainsSame
<1> QED BY <1>2, <1>3, <1>4

\* A clock that goes on makes nothing that is held come from the future.
LEMMA ChainsTick ==
  ASSUME NetworkInv, ChainsInv, NEW n \in Nodes, Tick(n)
  PROVE  ChainsInv'
<1>1. /\ UNCHANGED <<node, heldChains>> /\ clock' = [clock EXCEPT ![n] = @ + 1]
      /\ \A m \in Nodes : clock[m] \in Nat
      /\ clock = [m \in Nodes |-> clock[m]]
  BY DEF Tick, history, ChainsInv
<1>2. \A m \in Nodes : clock'[m] = IF m = n THEN clock[m] + 1 ELSE clock[m]
  BY <1>1
<1>3. \A m \in Nodes : clock'[m] \in Nat
  BY <1>1, <1>2
<1>4. \A m \in Nodes, k \in Nat : k <= clock[m] => k <= clock'[m]
  BY <1>1, <1>2
<1>5. ASSUME NEW c \in heldChains PROVE Past(c)'
  <2>1. /\ \A i \in 1..Len(c) : c[i].timestamp \in Nat
        /\ \A i \in 1..Len(c) : \E k \in Nodes : c[i].timestamp <= clock[k]
        /\ \E k \in Nodes, time \in Nat : time <= clock[k] /\ c[1] = getGenesisBlock(k, time)
    BY ChainsFacts DEF Built, Past
  <2>2. \A i \in 1..Len(c) : \E k \in Nodes : c[i].timestamp <= clock'[k]
    BY <1>4, <2>1
  <2>3. \E k \in Nodes, time \in Nat : time <= clock'[k] /\ c[1] = getGenesisBlock(k, time)
    BY <1>4, <2>1
  <2> QED BY <2>2, <2>3 DEF Past
<1>6. ASSUME NEW m \in Nodes PROVE Sound(m, node[m])'
  <2>1. /\ node[m].utxo = UtxoAfter(node[m].chain)[Len(node[m].chain)]
        /\ node[m].mining # None => Own(m, node[m].mining)
    BY ChainsFacts
  <2>2. Own(m, node[m].mining) => Own(m, node[m].mining)'
    BY <1>1, <1>4 DEF Own
  <2> QED BY <1>1, <2>1, <2>2 DEF Sound
<1>7. clock' = [m \in Nodes |-> clock'[m]]
  BY <1>1
<1> QED BY <1>1, <1>3, <1>5, <1>6, <1>7 DEF ChainsInv

\* A crash.
LEMMA ChainsRestart ==
  ASSUME NetworkInv, ChainsInv, NEW n \in Nodes, Restart(n)
  PROVE  /\ ChainsInv'
         /\ \E s : /\ Becomes(n, s) /\ s.chain = <<getGenesisBlock(n, clock[n])>>
                   /\ s.pool = <<>> /\ s.mining = None
                   /\ heldChains' = heldChains \cup {s.chain}
<1>1. PICK s : s = NewNode(n, clock[n])
  OBVIOUS
<1>2. /\ node' = [node EXCEPT ![n] = s] /\ clock' = clock
      /\ heldChains' = heldChains \cup {node'[n].chain}
  BY <1>1 DEF Restart
<1>3. Becomes(n, s)
  BY <1>2, BecomesExcept DEF NetworkInv
<1>4. heldChains' = heldChains \cup {s.chain}
  BY <1>2, <1>3 DEF Becomes
<1>5. clock[n] \in Nat
  BY ChainsFacts
<1>6. /\ s.chain = <<getGenesisBlock(n, clock[n])>> /\ s.pool = <<>> /\ s.mining = None
      /\ s.utxo = UtxoAfter(s.chain)[Len(s.chain)]
      /\ Built(s.chain) /\ Len(s.chain) = 1
      /\ s.chain[1] = getGenesisBlock(n, clock[n]) /\ s.chain[1].timestamp = clock[n]
  BY <1>1, <1>5, BuiltFirst
<1>7. Past(s.chain)
  <2>1. \A i \in 1..Len(s.chain) : i = 1
    BY <1>6
  <2>2. \A k \in Nat : k <= k
    OBVIOUS
  <2> QED BY <1>5, <1>6, <2>1, <2>2 DEF Past
<1>8. Sound(n, s)
  BY <1>6 DEF Sound
<1>9. ChainsInv'
  BY <1>2, <1>3, <1>4, <1>6, <1>7, <1>8, ChainsKept
<1> QED BY <1>3, <1>4, <1>6, <1>9

\* The start.
LEMMA ChainsStart == Init => ChainsInv
<1> SUFFICES ASSUME Init PROVE ChainsInv
  OBVIOUS
<1>1. /\ clock \in [Nodes -> 0..MaxSkew]
      /\ node = [n \in Nodes |-> NewNode(n, clock[n])]
      /\ heldChains = {node[n].chain : n \in Nodes}
  BY DEF Init
<1>2. clock = [n \in Nodes |-> clock[n]] /\ \A n \in Nodes : clock[n] \in Nat
  BY <1>1
<1>3. ASSUME NEW n \in Nodes
      PROVE  Built(node[n].chain) /\ Past(node[n].chain) /\ Sound(n, node[n])
  <2>1. PICK s : s = node[n] /\ s = NewNode(n, clock[n])
    BY <1>1
  <2>2. /\ s.mining = None /\ s.utxo = UtxoAfter(s.chain)[Len(s.chain)]
        /\ Built(s.chain) /\ Len(s.chain) = 1
        /\ s.chain[1] = getGenesisBlock(n, clock[n]) /\ s.chain[1].timestamp = clock[n]
    BY <1>2, <2>1, BuiltFirst
  <2>3. (\A i \in 1..Len(s.chain) : i = 1) /\ \A k \in Nat : k <= k
    BY <2>2
  <2>4. Past(s.chain)
    BY <1>2, <2>2, <2>3 DEF Past
  <2> QED BY <2>1, <2>2, <2>4 DEF Sound
<1> QED BY <1>1, <1>2, <1>3 DEF ChainsInv

-----------------------------------------------------------------------------
(* The network keeps the chains *)

\* The first message of a queue, and the queues without it.
First(q) == Head(link[q])
Rest(q) == [link EXCEPT ![q] = Tail(@)]

\* The message that node n handles when it receives one from m, and what that does.
LEMMA ReceiveCases ==
  ASSUME NetworkInv, ChainsInv, NEW n \in Nodes, NEW m \in Nodes, <<m, n>> \in Pairs,
         Receive(n, m),
         NEW x, x = First(<<m, n>>), NEW l, l = Rest(<<m, n>>)
  PROVE  /\ UNCHANGED <<clock, pending, joined, opened, sentTransactions>>
         /\ <<n, m>> \in joined /\ link[<<m, n>>] # <<>>
         /\ heldChains' = heldChains
         /\ \/ /\ x.type \in {"QUERY_LATEST_BLOCK", "QUERY_BLOCKCHAIN"} /\ node' = node
               /\ LET c == node[n].chain
                  IN  \/ link' = answer(l, n, m, <<ResponseLatest(getLatestBlock(c))>>)
                      \/ link' = answer(l, n, m, <<ResponseBlockchain(c)>>)
            \/ /\ x.type = "QUERY_POOL" /\ node' = node
               /\ link' = answer(l, n, m, responsePoolMsgs(node[n].pool))
            \/ /\ x.type \in {"RESPONSE_LATEST", "RESPONSE_BLOCKCHAIN"}
               /\ KnownBlocks(x.blocks, heldChains) /\ newBlocksHandler(n, x.blocks, l)
            \/ /\ x.type = "RESPONSE_POOL" /\ x.transaction \in sentTransactions
               /\ addToPoolAccepts(x.transaction, node[n].pool, node[n].utxo)
               /\ Adds(n, x.transaction, l)
            \/ /\ x.type = "RESPONSE_POOL" /\ node' = node /\ link' = l
               /\ ~addToPoolAccepts(x.transaction, node[n].pool, node[n].utxo)
<1>1. /\ \/ HandleQueryLatest(n, m, x, l)
         \/ HandleQueryBlockchain(n, m, x, l)
         \/ HandleQueryPool(n, m, x, l)
         \/ HandleBlocks(n, x, l)
         \/ HandlePool(n, x, l)
      /\ <<n, m>> \in joined /\ link[<<m, n>>] # <<>>
      /\ UNCHANGED <<clock, pending, joined, opened, sentTransactions>>
  BY DEF Receive, First, Rest
<1>2. KnownMessage(x, heldChains, sentTransactions)
  <2>1. KnownQueues(link, heldChains, sentTransactions)
    BY DEF NetworkInv, LinkInv
  <2> QED BY <1>1, <2>1, KnownRest DEF First
<1>3. CASE HandleQueryLatest(n, m, x, l)
  BY <1>1, <1>3 DEF HandleQueryLatest
<1>4. CASE HandleQueryBlockchain(n, m, x, l)
  BY <1>1, <1>4 DEF HandleQueryBlockchain
<1>5. CASE HandleQueryPool(n, m, x, l)
  BY <1>1, <1>5 DEF HandleQueryPool
<1>6. CASE HandleBlocks(n, x, l)
  <2>1. /\ x.type \in {"RESPONSE_LATEST", "RESPONSE_BLOCKCHAIN"}
        /\ KnownBlocks(x.blocks, heldChains) /\ newBlocksHandler(n, x.blocks, l)
    BY <1>2, <1>6 DEF HandleBlocks, KnownMessage
  <2>2. heldChains' = heldChains
    BY <2>1, BlocksOutcome DEF KnownBlocks
  <2> QED BY <1>1, <2>1, <2>2
<1>7. CASE HandlePool(n, x, l)
  <2>1. /\ x.type = "RESPONSE_POOL" /\ x.transaction \in sentTransactions
        /\ heldChains' = heldChains
    BY <1>2, <1>7 DEF HandlePool, KnownMessage
  <2>2. CASE addToPoolAccepts(x.transaction, node[n].pool, node[n].utxo)
    <3>1. /\ node' = [node EXCEPT ![n].pool = Append(@, x.transaction)]
          /\ link' = broadcast(l, n, responsePoolMsgs(node'[n].pool))
      BY <1>7, <2>2 DEF HandlePool
    <3>2. Adds(n, x.transaction, l)
      BY <3>1, AddsOutcome
    <3> QED BY <1>1, <2>1, <2>2, <3>2
  <2>3. CASE ~addToPoolAccepts(x.transaction, node[n].pool, node[n].utxo)
    BY <1>1, <1>7, <2>1, <2>3 DEF HandlePool
  <2> QED BY <2>2, <2>3
<1> QED BY <1>1, <1>3, <1>4, <1>5, <1>6, <1>7

\* The chains over the handling of a message.
LEMMA ChainsReceive ==
  ASSUME NetworkInv, ChainsInv, NEW n \in Nodes, NEW m \in Nodes, <<m, n>> \in Pairs,
         Receive(n, m)
  PROVE  ChainsInv'
<1>1. PICK x, l : x = First(<<m, n>>) /\ l = Rest(<<m, n>>)
  OBVIOUS
<1>2. clock' = clock /\ heldChains' = heldChains
  BY <1>1, ReceiveCases
<1>3. \/ node' = node
      \/ KnownBlocks(x.blocks, heldChains) /\ newBlocksHandler(n, x.blocks, l)
      \/ Adds(n, x.transaction, l)
  BY <1>1, ReceiveCases
<1>4. CASE node' = node
  BY <1>2, <1>4, ChainsQueuesOnly
<1>5. CASE KnownBlocks(x.blocks, heldChains) /\ newBlocksHandler(n, x.blocks, l)
  <2>1. PICK c \in heldChains : x.blocks = c \/ x.blocks = <<getLatestBlock(c)>>
    BY <1>5 DEF KnownBlocks
  <2>2. Takes(n, c, l) \/ node' = node
    BY <1>5, <2>1, BlocksOutcome
  <2> QED BY <1>2, <2>2, ChainsOver, ChainsQueuesOnly
<1>6. CASE Adds(n, x.transaction, l)
  BY <1>2, <1>6, ChainsOver
<1> QED BY <1>3, <1>4, <1>5, <1>6

\* The chains over the requests of a user.
LEMMA ChainsUser ==
  ASSUME NetworkInv, ChainsInv, NEW n \in Nodes, UserStep(n)
  PROVE  ChainsInv'
<1>1. ASSUME NEW p \in PoolPayments, SendTransaction(n, p.outs[1]) PROVE ChainsInv'
  <2>1. PICK t : /\ node' = [node EXCEPT ![n].pool = Append(@, t)]
                 /\ link' = broadcast(link, n, responsePoolMsgs(node'[n].pool))
                 /\ clock' = clock /\ heldChains' = heldChains
    BY <1>1 DEF SendTransaction
  <2>2. Adds(n, t, link)
    BY <2>1, AddsOutcome
  <2> QED BY <2>1, <2>2, ChainsOver
<1>2. ASSUME NEW ts, IsSeq(ts), StartMining(n, ts) PROVE ChainsInv'
  <2>1. Turns(n, Candidate(n, ts)) /\ clock' = clock /\ heldChains' = heldChains
    BY <1>2, StartOutcome
  <2>2. Own(n, Candidate(n, ts))
    BY <1>2, CandidateOwn, ChainsFacts
  <2> QED BY <2>1, <2>2, ChainsOver
<1>3. CASE createNextBlock(n)
  <2>1. PICK p : p = node[n].pool /\ IsSeq(p)
    BY ChainsFacts
  <2>2. StartMining(n, SubSeq(p, 1, IF Len(p) < 2 THEN Len(p) ELSE 2))
    BY <1>3, <2>1 DEF createNextBlock
  <2>3. (IF Len(p) < 2 THEN Len(p) ELSE 2) \in 0..Len(p)
    BY <2>1, IsSeqShape
  <2>4. IsSeq(SubSeq(p, 1, IF Len(p) < 2 THEN Len(p) ELSE 2))
    BY <2>1, <2>3, IsSeqFirst
  <2> QED BY <1>2, <2>2, <2>4
<1>4. ASSUME NEW p, createNextBlockWithTransaction(n, p.outs) PROVE ChainsInv'
  <2>1. PICK t : StartMining(n, <<t>>)
    BY <1>4 DEF createNextBlockWithTransaction
  <2> QED BY <1>2, <2>1, IsSeqSingleton
<1>5. CASE FinishMining(n)
  <2>1. CASE Turns(n, None) /\ heldChains' = heldChains /\ clock' = clock
    BY <2>1, ChainsOver
  <2>2. ASSUME NEW c, Built(c), Past(c), Mines(n, c), heldChains' = heldChains \cup {c},
               clock' = clock
        PROVE  ChainsInv'
    <3>1. PICK s : /\ Becomes(n, s) /\ s.chain = c /\ s.utxo = UtxoAfter(c)[Len(c)]
                   /\ s.mining = None
      BY <2>2 DEF Mines
    <3>2. Sound(n, s)
      BY <3>1 DEF Sound
    <3> QED BY <2>2, <3>1, <3>2, ChainsKept
  <2> QED BY <1>5, <2>1, <2>2, FinishOutcome
<1> QED BY <1>1, <1>3, <1>4, <1>5 DEF UserStep

\* Every step of the network keeps the chains.
LEMMA ChainsNext ==
  ASSUME NetworkInv, ChainsInv, [Next]_vars
  PROVE  ChainsInv'
<1>1. ASSUME NEW p \in Pairs, OpenConnection(p[1], p[2]) PROVE ChainsInv'
  BY <1>1, ChainsQueuesOnly DEF OpenConnection, history
<1>2. ASSUME NEW p \in Pairs, connectToPeer(p[1], p[2]) PROVE ChainsInv'
  BY <1>2, ChainsQueuesOnly DEF connectToPeer, history
<1>3. ASSUME NEW p \in Pairs, Break(p[1], p[2]) PROVE ChainsInv'
  BY <1>3, ChainsQueuesOnly DEF Break, history
<1>4. ASSUME NEW p \in Pairs, Receive(p[1], p[2]) PROVE ChainsInv'
  BY <1>4, PairNodes, ChainsReceive
<1>5. ASSUME NEW n \in Nodes, UserStep(n) \/ Tick(n) \/ Restart(n) PROVE ChainsInv'
  BY <1>5, ChainsUser, ChainsTick, ChainsRestart
<1>6. CASE UNCHANGED vars
  BY <1>6, ChainsQueuesOnly DEF vars, history
<1> QED BY <1>1, <1>2, <1>3, <1>4, <1>5, <1>6 DEF Next

-----------------------------------------------------------------------------
(* Queues, of which it counts what is in them *)

\* What n has sent to m and m has not handled.
OnWay(n, m) == ToSet(link[<<n, m>>])

\* Queues are sequences.
AreQueues(l) == \A p \in Pairs : IsSeq(l[p])

\* One queue after another.
LEMMA QueueConcat ==
  ASSUME NEW a, IsSeq(a), NEW b, IsSeq(b)
  PROVE  ToSet(a \o b) = ToSet(a) \cup ToSet(b) /\ IsSeq(a \o b)
<1> DEFINE K == {a[i] : i \in DOMAIN a} \cup {b[i] : i \in DOMAIN b}
<1>1. a \in Seq(K) /\ b \in Seq(K)
  BY DEF IsSeq
<1> HIDE DEF K
<1>2. /\ a \o b \in Seq(K) /\ Len(a \o b) = Len(a) + Len(b)
      /\ \A i \in 1..Len(a) : (a \o b)[i] = a[i]
      /\ \A i \in (Len(a) + 1)..(Len(a) + Len(b)) : (a \o b)[i] = b[i - Len(a)]
      /\ Len(a) \in Nat /\ Len(b) \in Nat
      /\ DOMAIN a = 1..Len(a) /\ DOMAIN b = 1..Len(b)
  BY <1>1
<1> SUFFICES ASSUME NEW q, q = a \o b PROVE ToSet(q) = ToSet(a) \cup ToSet(b) /\ IsSeq(q)
  OBVIOUS
<1>3. /\ q \in Seq(K) /\ Len(q) = Len(a) + Len(b) /\ DOMAIN q = 1..(Len(a) + Len(b))
      /\ \A i \in 1..Len(a) : q[i] = a[i]
      /\ \A i \in (Len(a) + 1)..(Len(a) + Len(b)) : q[i] = b[i - Len(a)]
  BY <1>2
<1>4. ASSUME NEW i \in DOMAIN q PROVE q[i] \in ToSet(a) \cup ToSet(b)
  <2>1. CASE i \in 1..Len(a)
    BY <1>2, <1>3, <2>1 DEF ToSet
  <2>2. CASE i \in (Len(a) + 1)..(Len(a) + Len(b))
    <3>1. i - Len(a) \in 1..Len(b)
      BY <1>2, <2>2
    <3> QED BY <1>2, <1>3, <2>2, <3>1 DEF ToSet
  <2>3. i \in 1..Len(a) \/ i \in (Len(a) + 1)..(Len(a) + Len(b))
    BY <1>2, <1>3
  <2> QED BY <2>1, <2>2, <2>3
<1>5. ASSUME NEW i \in DOMAIN a PROVE a[i] \in ToSet(q)
  <2>1. i \in 1..Len(a) /\ i \in DOMAIN q
    BY <1>2, <1>3
  <2> QED BY <1>3, <2>1 DEF ToSet
<1>6. ASSUME NEW i \in DOMAIN b PROVE b[i] \in ToSet(q)
  <2>1. /\ i + Len(a) \in (Len(a) + 1)..(Len(a) + Len(b)) /\ i + Len(a) \in DOMAIN q
        /\ (i + Len(a)) - Len(a) = i
    BY <1>2, <1>3
  <2>2. q[i + Len(a)] = b[i]
    BY <1>3, <2>1
  <2> QED BY <2>1, <2>2 DEF ToSet
<1>7. ToSet(q) \subseteq ToSet(a) \cup ToSet(b)
  BY <1>4 DEF ToSet
<1>8. ToSet(a) \subseteq ToSet(q) /\ ToSet(b) \subseteq ToSet(q)
  BY <1>5, <1>6 DEF ToSet
<1>9. IsSeq(q)
  BY <1>3, SeqIsSeq
<1> QED BY <1>7, <1>8, <1>9

\* The first of a queue and the others.
LEMMA QueueRest ==
  ASSUME NEW a, IsSeq(a), a # <<>>
  PROVE  /\ ToSet(a) = ToSet(Tail(a)) \cup {Head(a)} /\ IsSeq(Tail(a))
         /\ Head(a) \in ToSet(a)
<1> DEFINE K == {a[i] : i \in DOMAIN a}
<1>1. a \in Seq(K)
  BY DEF IsSeq
<1> HIDE DEF K
<1>2. /\ Tail(a) \in Seq(K) /\ Len(Tail(a)) = Len(a) - 1
      /\ \A i \in 1..(Len(a) - 1) : Tail(a)[i] = a[i + 1]
      /\ Len(a) \in Nat /\ Len(a) >= 1 /\ DOMAIN a = 1..Len(a) /\ Head(a) = a[1]
  BY <1>1
<1> SUFFICES ASSUME NEW q, q = Tail(a)
    PROVE ToSet(a) = ToSet(q) \cup {Head(a)} /\ IsSeq(q) /\ Head(a) \in ToSet(a)
  OBVIOUS
<1>3. /\ q \in Seq(K) /\ DOMAIN q = 1..(Len(a) - 1)
      /\ \A i \in 1..(Len(a) - 1) : q[i] = a[i + 1]
  BY <1>2
<1>4. ASSUME NEW i \in DOMAIN a PROVE a[i] \in ToSet(q) \cup {Head(a)}
  <2>1. CASE i = 1
    BY <1>2, <2>1
  <2>2. CASE i # 1
    <3>1. i - 1 \in 1..(Len(a) - 1) /\ (i - 1) + 1 = i
      BY <1>2, <2>2
    <3>2. q[i - 1] = a[i] /\ i - 1 \in DOMAIN q
      BY <1>3, <3>1
    <3> QED BY <3>2 DEF ToSet
  <2> QED BY <2>1, <2>2
<1>5. ASSUME NEW i \in DOMAIN q PROVE q[i] \in ToSet(a)
  <2>1. i \in 1..(Len(a) - 1) /\ i + 1 \in DOMAIN a
    BY <1>2, <1>3
  <2> QED BY <1>3, <2>1 DEF ToSet
<1>6. Head(a) \in ToSet(a)
  <2>1. 1 \in DOMAIN a
    BY <1>2
  <2> QED BY <1>2, <2>1 DEF ToSet
<1>7. ToSet(a) \subseteq ToSet(q) \cup {Head(a)}
  BY <1>4 DEF ToSet
<1>8. ToSet(q) \subseteq ToSet(a)
  BY <1>5 DEF ToSet
<1>9. IsSeq(q)
  BY <1>3, SeqIsSeq
<1> QED BY <1>6, <1>7, <1>8, <1>9

\* A queue of one message or of two, and of none.
LEMMA QueueShort ==
  /\ \A x : ToSet(<<x>>) = {x} /\ IsSeq(<<x>>)
  /\ \A x, y : ToSet(<<x, y>>) = {x, y} /\ IsSeq(<<x, y>>)
<1>1. \A x : IsSeq(<<x>>)
  BY IsSeqSingleton
<1>2. \A x, y : IsSeq(<<x, y>>)
  <2> SUFFICES ASSUME NEW x, NEW y PROVE IsSeq(<<x, y>>)
    OBVIOUS
  <2>1. <<x, y>> \in Seq({x, y})
    OBVIOUS
  <2> QED BY <2>1, SeqIsSeq
<1>3. ASSUME NEW x PROVE ToSet(<<x>>) = {x}
  BY DEF ToSet
<1>4. ASSUME NEW x, NEW y PROVE ToSet(<<x, y>>) = {x, y}
  BY DEF ToSet
<1> QED BY <1>1, <1>2, <1>3, <1>4

\* The messages of a pool.
LEMMA QueuePool ==
  ASSUME NEW p, IsSeq(p)
  PROVE  /\ ToSet(responsePoolMsgs(p)) = {ResponsePool(t) : t \in ToSet(p)}
         /\ IsSeq(responsePoolMsgs(p))
<1>1. Len(p) \in Nat /\ DOMAIN p = 1..Len(p)
  BY IsSeqShape
<1> SUFFICES ASSUME NEW q, q = [i \in 1..Len(p) |-> ResponsePool(p[i])]
    PROVE ToSet(q) = {ResponsePool(t) : t \in ToSet(p)} /\ IsSeq(q)
  BY <1>1 DEF responsePoolMsgs
<1>2. DOMAIN q = 1..Len(p) /\ \A i \in 1..Len(p) : q[i] = ResponsePool(p[i])
  OBVIOUS
<1>3. ToSet(q) = {ResponsePool(t) : t \in ToSet(p)}
  BY <1>1, <1>2 DEF ToSet
<1> DEFINE K == {ResponsePool(p[i]) : i \in 1..Len(p)}
<1>4. q \in [1..Len(p) -> K]
  OBVIOUS
<1> HIDE DEF K
<1>5. q \in Seq(K)
  BY <1>1, <1>4, SeqDef
<1> QED BY <1>3, <1>5, SeqIsSeq

\* Adding to a queue.
LEMMA QueueAdd ==
  ASSUME NEW p, IsSeq(p), NEW t
  PROVE  ToSet(Append(p, t)) = ToSet(p) \cup {t}
<1> SUFFICES ASSUME NEW q, q = Append(p, t) PROVE ToSet(q) = ToSet(p) \cup {t}
  OBVIOUS
<1>1. /\ IsSeq(q) /\ Len(q) = Len(p) + 1 /\ Len(p) \in Nat
      /\ DOMAIN p = 1..Len(p) /\ DOMAIN q = 1..Len(q)
      /\ \A i \in 1..Len(p) : q[i] = p[i]
      /\ q[Len(p) + 1] = t
  BY IsSeqAppend, IsSeqShape
<1>2. \A i \in DOMAIN q : i \in DOMAIN p \/ i = Len(p) + 1
  BY <1>1
<1>3. DOMAIN p \subseteq DOMAIN q /\ Len(p) + 1 \in DOMAIN q
  BY <1>1
<1> QED BY <1>1, <1>2, <1>3 DEF ToSet

\* What is in the queues after a broadcast, and after an answer.
LEMMA QueuesSent ==
  ASSUME NEW l, AreQueues(l), NEW ms, IsSeq(ms)
  PROVE  /\ \A n : \A p \in Pairs :
              ToSet(broadcast(l, n, ms)[p])
                = IF p[1] = n /\ p \in joined THEN ToSet(l[p]) \cup ToSet(ms) ELSE ToSet(l[p])
         /\ \A n, m : l = [p \in Pairs |-> l[p]] => \A p \in Pairs :
              ToSet(answer(l, n, m, ms)[p])
                = IF p = <<n, m>> THEN ToSet(l[p]) \cup ToSet(ms) ELSE ToSet(l[p])
<1>1. \A p \in Pairs : ToSet(l[p] \o ms) = ToSet(l[p]) \cup ToSet(ms)
  BY QueueConcat DEF AreQueues
<1>2. \A n : \A p \in Pairs : broadcast(l, n, ms)[p]
                = IF p[1] = n /\ p \in joined THEN l[p] \o ms ELSE l[p]
  BY DEF broadcast
<1>3. \A n, m : l = [p \in Pairs |-> l[p]] => \A p \in Pairs :
        answer(l, n, m, ms)[p] = IF p = <<n, m>> THEN l[p] \o ms ELSE l[p]
  BY DEF answer
<1> QED BY <1>1, <1>2, <1>3

\* The queues without the first message of one.
LEMMA QueuesTaken ==
  ASSUME NetworkInv, NEW q \in Pairs, link[q] # <<>>,
         NEW l, l = Rest(q), NEW x, x = First(q)
  PROVE  /\ AreQueues(l) /\ l = [p \in Pairs |-> l[p]]
         /\ \A p \in Pairs : p # q => l[p] = link[p]
         /\ ToSet(link[q]) = ToSet(l[q]) \cup {x}
         /\ x \in ToSet(link[q])
<1>1. /\ AreQueues(link) /\ link = [p \in Pairs |-> link[p]]
  BY DEF NetworkInv, LinkInv, KnownQueues, KnownQueue, AreQueues
<1>2. /\ \A p \in Pairs : l[p] = IF p = q THEN Tail(link[q]) ELSE link[p]
      /\ l = [p \in Pairs |-> l[p]]
  BY <1>1 DEF Rest
<1>3. /\ ToSet(link[q]) = ToSet(Tail(link[q])) \cup {x} /\ IsSeq(Tail(link[q]))
      /\ x \in ToSet(link[q])
  BY <1>1, QueueRest DEF AreQueues, First
<1> QED BY <1>1, <1>2, <1>3 DEF AreQueues

-----------------------------------------------------------------------------
(* Connections *)

\* A question after which the chain of who is asked comes, or its last block.
Asks(x) == x.type \in {"QUERY_LATEST_BLOCK", "QUERY_BLOCKCHAIN"}

\* No message is lost but x, which is taken from the queue q.
Leaves(q, x) ==
  \A p \in Pairs : /\ p # q => ToSet(link[p]) \subseteq ToSet(link'[p])
                   /\ p = q => ToSet(link[p]) \subseteq ToSet(link'[p]) \cup {x}

\* No message is lost.
NoLoss == \A p \in Pairs : ToSet(link[p]) \subseteq ToSet(link'[p])

\* A connection is one of both, and who has not taken it up yet still has before
\* it the questions of the other.
Connections ==
  /\ joined \subseteq Pairs /\ pending \subseteq Pairs
  /\ \A n, m \in Nodes : <<n, m>> \in joined \cup pending => <<m, n>> \in joined \cup pending
  /\ \A n, m \in Nodes : <<n, m>> \in joined /\ <<m, n>> \notin joined =>
       /\ \E x \in OnWay(n, m) : Asks(x)
       /\ QueryPool \in OnWay(n, m)

\* Pairs of nodes.
LEMMA PairsOf ==
  /\ \A n, m \in Nodes : <<n, m>> \in Pairs <=> n # m
  /\ \A p \in Pairs : p = <<p[1], p[2]>> /\ p[1] \in Nodes /\ p[2] \in Nodes /\ p[1] # p[2]
  BY DEF Pairs

\* The questions and the answers.
LEMMA Types ==
  /\ \A h : Asks(QueryLatest(h))
  /\ Asks(QueryBlockchain)
  /\ ~Asks(QueryPool) /\ \A b : ~Asks(ResponseLatest(b)) /\ ResponseLatest(b) # QueryPool
  /\ \A t : ~Asks(ResponsePool(t)) /\ ResponsePool(t) # QueryPool
  /\ QueryPool.type = "QUERY_POOL" /\ \A t : ResponsePool(t).type = "RESPONSE_POOL"
  /\ \A t, r : ResponsePool(t) = ResponsePool(r) => t = r
  BY DEF Asks, QueryLatest, QueryBlockchain, QueryPool, ResponseLatest, ResponsePool

\* Who sends loses nothing of the queues, and who is sent to has the messages.
LEMMA SentToAll ==
  ASSUME NEW l, AreQueues(l), NEW n, NEW ms, IsSeq(ms), link' = broadcast(l, n, ms)
  PROVE  \A p \in Pairs :
           /\ ToSet(l[p]) \subseteq ToSet(link'[p])
           /\ p[1] = n /\ p \in joined => ToSet(ms) \subseteq ToSet(link'[p])
<1>1. \A p \in Pairs :
        ToSet(link'[p])
          = IF p[1] = n /\ p \in joined THEN ToSet(l[p]) \cup ToSet(ms) ELSE ToSet(l[p])
  BY QueuesSent
<1> QED BY <1>1

\* The same when one is sent to.
LEMMA SentToOne ==
  ASSUME NEW l, AreQueues(l), l = [p \in Pairs |-> l[p]],
         NEW n, NEW m, <<n, m>> \in Pairs, NEW ms, IsSeq(ms), link' = answer(l, n, m, ms)
  PROVE  /\ \A p \in Pairs : ToSet(l[p]) \subseteq ToSet(link'[p])
         /\ ToSet(ms) \subseteq ToSet(link'[<<n, m>>])
<1>1. \A p \in Pairs :
        ToSet(link'[p]) = IF p = <<n, m>> THEN ToSet(l[p]) \cup ToSet(ms) ELSE ToSet(l[p])
  BY QueuesSent
<1> QED BY <1>1

\* So it is after a message was taken.
LEMMA TakenLeaves ==
  ASSUME NetworkInv, NEW q \in Pairs, link[q] # <<>>,
         NEW l, l = Rest(q), NEW x, x = First(q)
  PROVE  /\ AreQueues(l) /\ l = [p \in Pairs |-> l[p]]
         /\ link' = l => Leaves(q, x)
         /\ (\A p \in Pairs : ToSet(l[p]) \subseteq ToSet(link'[p])) => Leaves(q, x)
<1>1. /\ AreQueues(l) /\ l = [p \in Pairs |-> l[p]]
      /\ \A p \in Pairs : p # q => l[p] = link[p]
      /\ ToSet(link[q]) = ToSet(l[q]) \cup {x}
  BY QueuesTaken
<1>2. ASSUME \A p \in Pairs : ToSet(l[p]) \subseteq ToSet(link'[p]) PROVE Leaves(q, x)
  BY <1>1, <1>2 DEF Leaves
<1>3. ASSUME link' = l PROVE Leaves(q, x)
  BY <1>2, <1>3
<1> QED BY <1>1, <1>2, <1>3

\* When the handler then tells everybody something.
LEMMA BroadcastLeaves ==
  ASSUME NetworkInv, NEW q \in Pairs, link[q] # <<>>,
         NEW l, l = Rest(q), NEW x, x = First(q), NEW n, NEW ms, IsSeq(ms),
         link' = broadcast(l, n, ms)
  PROVE  /\ Leaves(q, x)
         /\ \A p \in Pairs : p[1] = n /\ p \in joined => ToSet(ms) \subseteq ToSet(link'[p])
<1>1. AreQueues(l)
  BY TakenLeaves
<1>2. \A p \in Pairs :
        /\ ToSet(l[p]) \subseteq ToSet(link'[p])
        /\ p[1] = n /\ p \in joined => ToSet(ms) \subseteq ToSet(link'[p])
  BY <1>1, SentToAll
<1>3. \A p \in Pairs : ToSet(l[p]) \subseteq ToSet(link'[p])
  BY <1>2
<1>4. Leaves(q, x)
  BY <1>3, TakenLeaves
<1> QED BY <1>2, <1>4

\* When it answers.
LEMMA AnswerLeaves ==
  ASSUME NetworkInv, NEW q \in Pairs, link[q] # <<>>,
         NEW l, l = Rest(q), NEW x, x = First(q), NEW n, NEW m, <<n, m>> \in Pairs,
         NEW ms, IsSeq(ms), link' = answer(l, n, m, ms)
  PROVE  Leaves(q, x) /\ ToSet(ms) \subseteq ToSet(link'[<<n, m>>])
<1>1. AreQueues(l) /\ l = [p \in Pairs |-> l[p]]
  BY TakenLeaves
<1>2. /\ \A p \in Pairs : ToSet(l[p]) \subseteq ToSet(link'[p])
      /\ ToSet(ms) \subseteq ToSet(link'[<<n, m>>])
  BY <1>1, SentToOne
<1>3. Leaves(q, x)
  BY <1>2, TakenLeaves
<1> QED BY <1>2, <1>3

\* The same without a message that is taken.
LEMMA BroadcastLoss ==
  ASSUME NetworkInv, NEW n, NEW ms, IsSeq(ms), link' = broadcast(link, n, ms)
  PROVE  /\ NoLoss
         /\ \A p \in Pairs : p[1] = n /\ p \in joined => ToSet(ms) \subseteq ToSet(link'[p])
<1>1. AreQueues(link)
  BY DEF NetworkInv, LinkInv, KnownQueues, KnownQueue, AreQueues
<1>2. \A p \in Pairs :
        ToSet(link'[p])
          = IF p[1] = n /\ p \in joined THEN ToSet(link[p]) \cup ToSet(ms) ELSE ToSet(link[p])
  BY <1>1, QueuesSent
<1> QED BY <1>2 DEF NoLoss

\* A step that takes at most a message of a connection that both have taken up.
LEMMA ConnectionsKept ==
  ASSUME Connections, joined' = joined, pending' = pending,
         \/ NoLoss
         \/ \E n, m \in Nodes : \E x : <<n, m>> \in joined /\ Leaves(<<m, n>>, x)
  PROVE  Connections'
<1>1. ASSUME NEW n \in Nodes, NEW m \in Nodes, <<n, m>> \in joined, <<m, n>> \notin joined
      PROVE  OnWay(n, m) \subseteq OnWay(n, m)'
  <2>1. <<n, m>> \in Pairs
    BY <1>1 DEF Connections
  <2>2. CASE NoLoss
    BY <2>1, <2>2 DEF NoLoss, OnWay
  <2>3. ASSUME NEW i \in Nodes, NEW j \in Nodes, NEW x, <<i, j>> \in joined, Leaves(<<j, i>>, x)
        PROVE  OnWay(n, m) \subseteq OnWay(n, m)'
    <3>1. <<n, m>> # <<j, i>>
      BY <1>1, <2>3
    <3> QED BY <2>1, <2>3, <3>1 DEF Leaves, OnWay
  <2> QED BY <2>2, <2>3
<1>2. \A n, m \in Nodes : <<n, m>> \in joined' /\ <<m, n>> \notin joined' =>
       /\ \E x \in OnWay(n, m)' : Asks(x)
       /\ QueryPool \in OnWay(n, m)'
  BY <1>1 DEF Connections
<1> QED BY <1>2 DEF Connections

\* Connections that end.
LEMMA DisconnectKeeps ==
  ASSUME Connections, NEW pairs, Disconnect(pairs),
         \A n, m \in Nodes : <<n, m>> \in pairs => <<m, n>> \in pairs
  PROVE  /\ Connections'
         /\ \A n, m \in Nodes : <<n, m>> \in joined' =>
              /\ <<n, m>> \in joined
              /\ OnWay(n, m)' = OnWay(n, m) /\ OnWay(m, n)' = OnWay(m, n)
<1>1. /\ pending' = pending \ pairs /\ joined' = joined \ pairs
      /\ \A p \in Pairs : p \notin pairs => link'[p] = link[p]
  BY DEF Disconnect
<1>2. ASSUME NEW n \in Nodes, NEW m \in Nodes, <<n, m>> \in joined'
      PROVE  /\ <<n, m>> \in joined
             /\ OnWay(n, m)' = OnWay(n, m) /\ OnWay(m, n)' = OnWay(m, n)
             /\ <<m, n>> \notin pairs
  <2>1. <<n, m>> \in joined /\ <<n, m>> \notin pairs /\ <<m, n>> \notin pairs
    BY <1>1, <1>2
  <2>2. <<n, m>> \in Pairs /\ <<m, n>> \in Pairs
    BY <2>1, PairsOf DEF Connections
  <2> QED BY <1>1, <2>1, <2>2 DEF OnWay
<1>3. joined' \subseteq Pairs /\ pending' \subseteq Pairs
  BY <1>1 DEF Connections
<1>4. \A n, m \in Nodes : <<n, m>> \in joined' \cup pending' => <<m, n>> \in joined' \cup pending'
  BY <1>1 DEF Connections
<1>5. \A n, m \in Nodes : <<n, m>> \in joined' /\ <<m, n>> \notin joined' =>
       /\ \E x \in OnWay(n, m)' : Asks(x)
       /\ QueryPool \in OnWay(n, m)'
  <2> SUFFICES ASSUME NEW n \in Nodes, NEW m \in Nodes, <<n, m>> \in joined',
                      <<m, n>> \notin joined'
      PROVE  /\ \E x \in OnWay(n, m)' : Asks(x)
             /\ QueryPool \in OnWay(n, m)'
    OBVIOUS
  <2>1. <<m, n>> \notin joined
    BY <1>1, <1>2
  <2> QED BY <1>2, <2>1 DEF Connections
<1> QED BY <1>2, <1>3, <1>4, <1>5 DEF Connections

\* Node n takes up its connection to m.
LEMMA ConnectKeeps ==
  ASSUME NetworkInv, Connections, NEW n \in Nodes, NEW m \in Nodes, connectToPeer(n, m)
  PROVE  /\ Connections'
         /\ joined' = joined \cup {<<n, m>>} /\ NoLoss
         /\ \E x \in OnWay(n, m)' : Asks(x)
         /\ QueryPool \in OnWay(n, m)'
<1>1. PICK h : link' = answer(link, n, m, <<QueryLatest(h), QueryPool>>)
  BY DEF connectToPeer
<1>2. /\ <<n, m>> \in pending /\ pending' = pending \ {<<n, m>>}
      /\ joined' = joined \cup {<<n, m>>}
  BY DEF connectToPeer
<1>3. <<n, m>> \in Pairs
  BY <1>2 DEF Connections
<1>4. AreQueues(link) /\ link = [p \in Pairs |-> link[p]]
  BY DEF NetworkInv, LinkInv, KnownQueues, KnownQueue, AreQueues
<1>5. PICK ms : /\ ms = <<QueryLatest(h), QueryPool>> /\ IsSeq(ms)
                /\ ToSet(ms) = {QueryLatest(h), QueryPool}
  BY QueueShort
<1>6. \A p \in Pairs :
        ToSet(link'[p]) = IF p = <<n, m>> THEN ToSet(link[p]) \cup ToSet(ms) ELSE ToSet(link[p])
  <2>1. link' = answer(link, n, m, ms)
    BY <1>1, <1>5
  <2> QED BY <1>4, <1>5, <2>1, QueuesSent
<1>7. NoLoss
  BY <1>6 DEF NoLoss
<1>8. Asks(QueryLatest(h)) /\ QueryLatest(h) \in OnWay(n, m)' /\ QueryPool \in OnWay(n, m)'
  BY <1>3, <1>5, <1>6, Types DEF OnWay
<1>9. \A i, j \in Nodes : <<i, j>> \in joined' \cup pending' => <<j, i>> \in joined' \cup pending'
  BY <1>2 DEF Connections
<1>10. ASSUME NEW i \in Nodes, NEW j \in Nodes, <<i, j>> \in joined', <<j, i>> \notin joined'
       PROVE  /\ \E x \in OnWay(i, j)' : Asks(x)
              /\ QueryPool \in OnWay(i, j)'
  <2>1. CASE <<i, j>> = <<n, m>>
    BY <1>8, <2>1
  <2>2. CASE <<i, j>> \in joined
    <3>1. <<i, j>> \in Pairs /\ <<j, i>> \notin joined
      BY <1>2, <1>10, <2>2 DEF Connections
    <3>2. OnWay(i, j) \subseteq OnWay(i, j)'
      BY <1>7, <3>1 DEF NoLoss, OnWay
    <3> QED BY <2>2, <3>1, <3>2 DEF Connections
  <2> QED BY <1>2, <1>10, <2>1, <2>2
<1>11. joined' \subseteq Pairs /\ pending' \subseteq Pairs
  BY <1>2, <1>3 DEF Connections
<1> QED BY <1>2, <1>7, <1>8, <1>9, <1>10, <1>11 DEF Connections

-----------------------------------------------------------------------------
(* Which chain is better *)

\* A chain whose work an int can hold.
FitsInt(c) == Built(c) /\ Work(c) <= MAX_INT

\* The comparison of such chains is one of the work and the last timestamp.
LEMMA BetterIs ==
  ASSUME NEW c, FitsInt(c), NEW d, FitsInt(d)
  PROVE  /\ isBetterChain(c, d) <=>
              \/ Work(c) > Work(d)
              \/ /\ Work(c) = Work(d)
                 /\ getLatestBlock(d).timestamp > getLatestBlock(c).timestamp
         /\ Work(c) \in Nat /\ Work(d) \in Nat
         /\ getLatestBlock(c).timestamp \in Nat /\ getLatestBlock(d).timestamp \in Nat
<1>1. \A e : FitsInt(e) => /\ getAccumulatedDifficulty(e) = Work(e) /\ Work(e) \in Nat
                           /\ getLatestBlock(e).timestamp \in Nat
  <2> SUFFICES ASSUME NEW e, FitsInt(e)
      PROVE  /\ getAccumulatedDifficulty(e) = Work(e) /\ Work(e) \in Nat
             /\ getLatestBlock(e).timestamp \in Nat
    OBVIOUS
  <2>1. Built(e) /\ Work(e) <= MAX_INT /\ IsSeq(e)
    BY DEF FitsInt, Built
  <2>2. HaveDifficulties(e) /\ getLatestBlock(e).timestamp \in Nat
    BY <2>1, BuiltTip
  <2>3. getAccumulatedDifficulty(e) = Work(e)
    BY <2>1, <2>2, AccIsWork
  <2>4. Work(e) \in Nat
    BY <2>1, <2>2, WorkNat
  <2> QED BY <2>2, <2>3, <2>4
<1> QED BY <1>1 DEF isBetterChain

\* No chain is better than itself, and of two chains not both are better.
LEMMA BetterOrder ==
  ASSUME NEW a, FitsInt(a), NEW b, FitsInt(b), NEW c, FitsInt(c)
  PROVE  /\ ~isBetterChain(a, a)
         /\ ~isBetterChain(a, b) /\ ~isBetterChain(b, c) => ~isBetterChain(a, c)
         /\ isBetterChain(c, b) /\ ~isBetterChain(a, b) => ~isBetterChain(a, c)
<1>1. PICK w, t : /\ \A x \in {a, b, c} : /\ w[x] = Work(x) /\ w[x] \in Nat
                                          /\ t[x] = getLatestBlock(x).timestamp
                                          /\ t[x] \in Nat
  <2> DEFINE w == [x \in {a, b, c} |-> Work(x)]
             t == [x \in {a, b, c} |-> getLatestBlock(x).timestamp]
  <2>1. \A x \in {a, b, c} : FitsInt(x)
    OBVIOUS
  <2>2. \A x \in {a, b, c} : Work(x) \in Nat /\ getLatestBlock(x).timestamp \in Nat
    BY <2>1, BetterIs
  <2>3. \A x \in {a, b, c} : /\ w[x] = Work(x) /\ w[x] \in Nat
                             /\ t[x] = getLatestBlock(x).timestamp /\ t[x] \in Nat
    BY <2>2
  <2> QED BY <2>3
<1>2. \A x, y \in {a, b, c} : isBetterChain(x, y) <=>
        w[x] > w[y] \/ (w[x] = w[y] /\ t[y] > t[x])
  <2> SUFFICES ASSUME NEW x \in {a, b, c}, NEW y \in {a, b, c}
      PROVE isBetterChain(x, y) <=> w[x] > w[y] \/ (w[x] = w[y] /\ t[y] > t[x])
    OBVIOUS
  <2>1. FitsInt(x) /\ FitsInt(y)
    OBVIOUS
  <2>2. isBetterChain(x, y) <=>
              \/ Work(x) > Work(y)
              \/ /\ Work(x) = Work(y)
                 /\ getLatestBlock(y).timestamp > getLatestBlock(x).timestamp
    BY <2>1, BetterIs
  <2> QED BY <1>1, <2>2
<1>3. /\ w[a] \in Nat /\ w[b] \in Nat /\ w[c] \in Nat
      /\ t[a] \in Nat /\ t[b] \in Nat /\ t[c] \in Nat
  BY <1>1
<1> QED BY <1>2, <1>3

\* One block more makes a chain better.
LEMMA BetterAppend ==
  ASSUME NEW c, FitsInt(c), NEW b, b.difficulty \in Nat,
         NEW d, FitsInt(d), d = Append(c, b)
  PROVE  isBetterChain(d, c)
<1>1. IsSeq(c) /\ HaveDifficulties(c)
  BY BuiltTip DEF FitsInt, Built
<1>2. Work(d) = Work(c) + pow2[b.difficulty]
  BY <1>1, WorkAppend
<1>3. pow2[b.difficulty] \in Nat /\ pow2[b.difficulty] >= 1
  BY PowPositive
<1>4. Work(c) \in Nat /\ Work(d) \in Nat
  BY BetterIs
<1>5. Work(d) > Work(c)
  BY <1>2, <1>3, <1>4
<1> QED BY <1>5, BetterIs

-----------------------------------------------------------------------------
(* Which chains are valid to whom *)

\* The clocks of the nodes differ by less than what a node accepts.
ClocksAgree == \A n, m \in Nodes : clock[n] - clock[m] < TIMESTAMP_TOLERANCE

\* Nobody has built on a first block that a node would generate right now.
FirstBlocksOld ==
  \A c \in heldChains, n \in Nodes : Len(c) > 1 => c[1] # getGenesisBlock(n, clock[n])

\* The work of the chains fits into an int.
WorkFits == \A c \in heldChains : Work(c) <= MAX_INT

\* When the clocks agree, a block that is held is accepted after the one before it.
LEMMA HeldBlockValid ==
  ASSUME NetworkInv, ChainsInv, ClocksAgree, NEW n \in Nodes, NEW c \in heldChains,
         NEW i \in 2..Len(c)
  PROVE  isBlockValid(c[i], c[i - 1], clock[n])
<1>1. Built(c) /\ Past(c) /\ IsSeq(c) /\ Len(c) \in Nat
  BY ChainsFacts, BuiltTip
<1>2. i \in 1..Len(c) /\ i - 1 \in 1..Len(c)
  BY <1>1
<1>3. c[i].index = c[i - 1].index + 1 /\ c[i].previousHash = calculateHash(c[i - 1])
  BY <1>1 DEF Built, Linked
<1>4. c[i - 1].timestamp - TIMESTAMP_TOLERANCE < c[i].timestamp
  BY <1>1 DEF Built
<1>5. c[i].timestamp - TIMESTAMP_TOLERANCE < clock[n]
  <2>1. PICK k \in Nodes : c[i].timestamp <= clock[k]
    BY <1>1, <1>2 DEF Past
  <2>2. clock[k] - clock[n] < TIMESTAMP_TOLERANCE
    BY DEF ClocksAgree
  <2>3. clock[k] \in Nat /\ clock[n] \in Nat /\ c[i].timestamp \in Nat
    BY <1>1, <1>2, ChainsFacts DEF Built
  <2>4. TIMESTAMP_TOLERANCE \in Nat
    BY IntervalAssumption
  <2> QED BY <2>1, <2>2, <2>3, <2>4
<1> QED BY <1>3, <1>4, <1>5 DEF isBlockValid, isValidTimestamp

\* So a node accepts every chain that is held, unless it begins with what its own
\* first block would be now, and every block of one that comes after its chain.
LEMMA HeldValid ==
  ASSUME NetworkInv, ChainsInv, ClocksAgree, NEW n \in Nodes, NEW c \in heldChains
  PROVE  /\ c[1] # getGenesisBlock(n, clock[n]) => isBlockchainValid(c, n, clock[n])
         /\ c = Append(node[n].chain, getLatestBlock(c))
              => addBlockToBlockchainAccepts(n, getLatestBlock(c))
<1>1. \A i \in 2..Len(c) : isBlockValid(c[i], c[i - 1], clock[n])
  BY HeldBlockValid
<1>2. \A i \in 1..Len(c) : areValidBlockTransactions(c[i].data, UtxoAfter(c)[i - 1], c[i].index)
  BY ChainsFacts DEF Built
<1>3. ASSUME c[1] # getGenesisBlock(n, clock[n]) PROVE isBlockchainValid(c, n, clock[n])
  BY <1>1, <1>2, <1>3 DEF isBlockchainValid
<1>4. ASSUME c = Append(node[n].chain, getLatestBlock(c))
      PROVE  addBlockToBlockchainAccepts(n, getLatestBlock(c))
  <2>1. PICK d, b : d = node[n].chain /\ b = getLatestBlock(c)
    OBVIOUS
  <2>2. /\ IsSeq(d) /\ Built(d) /\ Len(d) \in Nat /\ Len(d) >= 1 /\ getLatestBlock(d) = d[Len(d)]
        /\ node[n].utxo = UtxoAfter(d)[Len(d)]
    BY <2>1, ChainsFacts, BuiltTip
  <2>3. c = Append(d, b)
    BY <1>4, <2>1
  <2>4. /\ IsSeq(c) /\ Len(c) = Len(d) + 1 /\ c[Len(d) + 1] = b
        /\ \A i \in 1..Len(d) : c[i] = d[i]
    BY <2>2, <2>3, IsSeqAppend
  <2>5. /\ Len(c) \in 2..Len(c) /\ Len(c) \in 1..Len(c) /\ Len(c) - 1 = Len(d)
        /\ Len(d) \in 1..Len(d) /\ Len(d) \in 0..Len(d) /\ Len(d) <= Len(c)
    BY <2>2, <2>4
  <2>6. c[Len(c)] = b /\ c[Len(c) - 1] = getLatestBlock(d)
    BY <2>2, <2>4, <2>5
  <2>7. isBlockValid(b, getLatestBlock(d), clock[n])
    BY <1>1, <2>5, <2>6
  <2>8. UtxoAfter(c)[Len(c) - 1] = node[n].utxo
    <3>1. \A i \in 1..Len(d) : d[i] = c[i]
      BY <2>4
    <3>2. \A i \in 0..Len(d) : UtxoAfter(d)[i] = UtxoAfter(c)[i]
      BY <2>2, <2>4, <2>5, <3>1, UtxoAfterPrefix
    <3> QED BY <2>2, <2>5, <3>2
  <2>9. areValidBlockTransactions(b.data, node[n].utxo, b.index)
    BY <1>2, <2>5, <2>6, <2>8
  <2> QED BY <2>1, <2>7, <2>9 DEF addBlockToBlockchainAccepts
<1> QED BY <1>3, <1>4

-----------------------------------------------------------------------------
(* Peers agree, or what makes them agree is under way *)

\* A message with a chain that the chain of node n is no better than, or with the
\* last block of one.
Brings(x, n) ==
  /\ x.type \in {"RESPONSE_LATEST", "RESPONSE_BLOCKCHAIN"}
  /\ \E c \in heldChains : /\ x.blocks = c \/ x.blocks = <<getLatestBlock(c)>>
                           /\ ~isBetterChain(node[n].chain, c)

\* Once m has taken up its connection to n, it would not prefer the chain of n,
\* or is about to be told of one that is as good, or has asked n for it.
Agree(n, m) ==
  <<m, n>> \in joined =>
    \/ ~isBetterChain(node[n].chain, node[m].chain)
    \/ \E x \in OnWay(n, m) : Brings(x, n)
    \/ \E x \in OnWay(m, n) : Asks(x)

Agreement == \A n, m \in Nodes : Agree(n, m)

\* A node that was started just now, and whose first block is still what it would
\* generate, has no chain that is worse than that block.
Reborn ==
  \A n \in Nodes : <<getGenesisBlock(n, clock[n])>> \in heldChains =>
    ~isBetterChain(<<getGenesisBlock(n, clock[n])>>, node[n].chain)

\* The chain of node n stays, or becomes better and its peers are told.
Improves(n) ==
  \/ node'[n].chain = node[n].chain
  \/ /\ isBetterChain(node'[n].chain, node[n].chain)
     /\ \A m \in Nodes : <<n, m>> \in joined => \E x \in OnWay(n, m)' : Brings(x, n)'

\* What the order of chains needs, before and after a step.
LEMMA HeldFit ==
  ASSUME NetworkInv, ChainsInv, WorkFits
  PROVE  /\ \A c \in heldChains : FitsInt(c)
         /\ \A n \in Nodes : FitsInt(node[n].chain)
<1>1. \A c \in heldChains : FitsInt(c)
  BY ChainsFacts DEF WorkFits, FitsInt
<1> QED BY <1>1, ChainsFacts

\* A step of node n in which its chain gets better or stays, and in which a message
\* to n may go that has had its effect.
LEMMA AgreeKept ==
  ASSUME Connections, Agreement, NEW n \in Nodes, joined' = joined,
         heldChains \subseteq heldChains', \A k \in Nodes : FitsInt(node[k].chain),
         FitsInt(node'[n].chain),
         \A k \in Nodes : k # n => node'[k].chain = node[k].chain,
         Improves(n),
         \/ NoLoss
         \/ \E j \in Nodes : \E x : /\ <<n, j>> \in joined /\ Leaves(<<j, n>>, x)
                                    /\ Brings(x, j) => Agree(j, n)'
                                    /\ Asks(x) => Agree(n, j)'
  PROVE  Agreement'
<1> SUFFICES ASSUME NEW i \in Nodes, NEW k \in Nodes, <<k, i>> \in joined PROVE Agree(i, k)'
  BY DEF Agreement, Agree
<1>1. i # k /\ <<i, k>> \in Pairs /\ <<k, i>> \in Pairs
  BY PairsOf DEF Connections
<1>j. PICK j \in Nodes : \E y :
        \/ NoLoss
        \/ /\ <<n, j>> \in joined /\ Leaves(<<j, n>>, y)
           /\ Brings(y, j) => Agree(j, n)'
           /\ Asks(y) => Agree(n, j)'
  OBVIOUS
<1>2. PICK y :
        \/ NoLoss
        \/ /\ <<n, j>> \in joined /\ Leaves(<<j, n>>, y)
           /\ Brings(y, j) => Agree(j, n)'
           /\ Asks(y) => Agree(n, j)'
  BY <1>j
<1>3. \A x \in OnWay(i, k) : \/ x \in OnWay(i, k)'
                             \/ k = n /\ (Brings(x, i) => Agree(i, k)')
  BY <1>1, <1>2 DEF NoLoss, Leaves, OnWay
<1>4. \A x \in OnWay(k, i) : \/ x \in OnWay(k, i)'
                             \/ i = n /\ <<i, k>> \in joined /\ (Asks(x) => Agree(i, k)')
  BY <1>1, <1>2 DEF NoLoss, Leaves, OnWay
<1>5. \/ ~isBetterChain(node[i].chain, node[k].chain)
      \/ \E x \in OnWay(i, k) : Brings(x, i)
      \/ \E x \in OnWay(k, i) : Asks(x)
  BY DEF Agreement, Agree
<1>6. CASE i = n /\ node'[n].chain # node[n].chain
  <2>1. CASE <<n, k>> \in joined
    BY <1>6, <2>1 DEF Improves, Agree
  <2>2. CASE <<n, k>> \notin joined
    <3>1. PICK x \in OnWay(k, n) : Asks(x)
      BY <1>6, <2>2 DEF Connections
    <3>2. x \in OnWay(k, i)'
      BY <1>4, <1>6, <2>2, <3>1
    <3> QED BY <3>1, <3>2 DEF Agree
  <2> QED BY <2>1, <2>2
<1>7. CASE ~(i = n /\ node'[n].chain # node[n].chain)
  <2>1. node'[i].chain = node[i].chain
    BY <1>7
  <2>2. CASE ~isBetterChain(node[i].chain, node[k].chain)
    <3>1. CASE node'[k].chain = node[k].chain
      BY <2>1, <2>2, <3>1 DEF Agree
    <3>2. CASE k = n /\ isBetterChain(node'[n].chain, node[n].chain)
      <4>1. FitsInt(node[i].chain) /\ FitsInt(node[n].chain) /\ FitsInt(node'[n].chain)
        OBVIOUS
      <4>2. ~isBetterChain(node[i].chain, node'[n].chain)
        BY <2>2, <3>2, <4>1, BetterOrder
      <4> QED BY <2>1, <3>2, <4>2 DEF Agree
    <3> QED BY <3>1, <3>2 DEF Improves
  <2>3. ASSUME NEW x \in OnWay(i, k), Brings(x, i) PROVE Agree(i, k)'
    <3>1. Brings(x, i)'
      BY <2>1, <2>3 DEF Brings
    <3> QED BY <1>3, <2>3, <3>1 DEF Agree
  <2>4. ASSUME NEW x \in OnWay(k, i), Asks(x) PROVE Agree(i, k)'
    BY <1>4, <2>4 DEF Agree
  <2> QED BY <1>5, <2>2, <2>3, <2>4
<1> QED BY <1>6, <1>7

\* The first block that a node would generate now, in a step that starts no node.
LEMMA RebornKept ==
  ASSUME ChainsInv, Reborn, NEW n \in Nodes, clock' = clock, WorkFits',
         NetworkInv, NetworkInv', ChainsInv',
         \A k \in Nodes : k # n => node'[k].chain = node[k].chain,
         Improves(n), FitsInt(node[n].chain),
         \A c \in heldChains' : c \in heldChains \/ Len(c) > 1
  PROVE  Reborn'
<1> SUFFICES ASSUME NEW k \in Nodes, NEW g, g = <<getGenesisBlock(k, clock[k])>>,
                    g \in heldChains'
    PROVE ~isBetterChain(g, node'[k].chain)
  BY DEF Reborn
<1>1. Len(g) = 1
  BY IsSeqSingleton
<1>2. g \in heldChains /\ ~isBetterChain(g, node[k].chain)
  <2>1. ~(Len(g) > 1)
    BY <1>1
  <2>2. g \in heldChains
    BY <2>1
  <2> QED BY <2>2 DEF Reborn
<1>3. CASE node'[k].chain = node[k].chain
  BY <1>2, <1>3
<1>4. CASE k = n /\ isBetterChain(node'[n].chain, node[n].chain)
  <2>1. \A c \in heldChains' : FitsInt(c)
    <3>1. \A c \in heldChains' : Built(c) /\ Work(c) <= MAX_INT
      BY DEF ChainsInv, WorkFits
    <3> QED BY <3>1 DEF FitsInt
  <2>2. node'[n].chain \in heldChains'
    BY DEF NetworkInv, NodesInv, HeldNode
  <2>3. FitsInt(g) /\ FitsInt(node'[n].chain)
    BY <2>1, <2>2
  <2> QED BY <1>2, <1>4, <2>3, BetterOrder
<1> QED BY <1>3, <1>4 DEF Improves

\* The handling of blocks of the chain c makes the node hold a chain that is no
\* worse than c, or ask everybody.
LEMMA AgreeBlocks ==
  ASSUME NetworkInv, ChainsInv, Connections, Reborn, ClocksAgree, FirstBlocksOld, WorkFits,
         NEW n \in Nodes, NEW m \in Nodes, <<m, n>> \in Pairs, <<n, m>> \in joined,
         joined' = joined, heldChains' = heldChains, link[<<m, n>>] # <<>>,
         NEW x, x = First(<<m, n>>), NEW l, l = Rest(<<m, n>>),
         NEW c \in heldChains, x.blocks = c \/ x.blocks = <<getLatestBlock(c)>>,
         newBlocksHandler(n, x.blocks, l)
  PROVE  /\ Leaves(<<m, n>>, x) /\ Improves(n) /\ FitsInt(node'[n].chain)
         /\ \A k \in Nodes : k # n => node'[k].chain = node[k].chain
         /\ ~isBetterChain(node[m].chain, c) => Agree(m, n)'
<1>0. /\ FitsInt(c) /\ FitsInt(node[n].chain) /\ FitsInt(node[m].chain)
      /\ Built(c) /\ m # n
  BY HeldFit, ChainsFacts, PairsOf
<1>1. CASE /\ Takes(n, c, l)
           /\ \/ c = Append(node[n].chain, getLatestBlock(c))
              \/ isBetterChain(c, node[n].chain)
  <2>1. PICK s : /\ Becomes(n, s) /\ s.chain = c
                 /\ link' = broadcast(l, n, News(c))
    BY <1>1 DEF Takes
  <2>2. /\ node'[n].chain = c
        /\ \A k \in Nodes : k # n => node'[k].chain = node[k].chain
    BY <2>1 DEF Becomes
  <2>3. isBetterChain(c, node[n].chain)
    <3>1. getLatestBlock(c).difficulty \in Nat
      BY <1>0, BuiltTip DEF Built, FairDifficulties
    <3> QED BY <1>0, <1>1, <3>1, BetterAppend
  <2>4. /\ IsSeq(News(c)) /\ ToSet(News(c)) = {ResponseLatest(getLatestBlock(c)), QueryPool}
    BY QueueShort DEF News
  <2>5. /\ Leaves(<<m, n>>, x)
        /\ \A p \in Pairs : p[1] = n /\ p \in joined => ToSet(News(c)) \subseteq ToSet(link'[p])
    BY <2>1, <2>4, BroadcastLeaves
  <2>6. Brings(ResponseLatest(getLatestBlock(c)), n)'
    <3>1. ~isBetterChain(c, c)
      BY <1>0, BetterOrder
    <3> QED BY <2>2, <3>1 DEF Brings, ResponseLatest
  <2>7. \A k \in Nodes : <<n, k>> \in joined => \E y \in OnWay(n, k)' : Brings(y, n)'
    <3> SUFFICES ASSUME NEW k \in Nodes, <<n, k>> \in joined
        PROVE \E y \in OnWay(n, k)' : Brings(y, n)'
      OBVIOUS
    <3>1. ToSet(News(c)) \subseteq ToSet(link'[<<n, k>>])
      BY <2>5 DEF Connections
    <3> QED BY <2>4, <2>6, <3>1 DEF OnWay
  <2>8. Improves(n)
    BY <2>2, <2>3, <2>7 DEF Improves
  <2>9. ~isBetterChain(node[m].chain, c) => Agree(m, n)'
    BY <1>0, <2>2 DEF Agree
  <2> QED BY <1>0, <2>2, <2>5, <2>8, <2>9
<1>2. CASE node' = node /\ link' = broadcast(l, n, <<QueryBlockchain>>)
  <2>1. /\ IsSeq(<<QueryBlockchain>>) /\ ToSet(<<QueryBlockchain>>) = {QueryBlockchain}
    BY QueueShort
  <2>2. /\ Leaves(<<m, n>>, x)
        /\ \A p \in Pairs : p[1] = n /\ p \in joined
             => ToSet(<<QueryBlockchain>>) \subseteq ToSet(link'[p])
    BY <1>2, <2>1, BroadcastLeaves
  <2>3. QueryBlockchain \in OnWay(n, m)'
    <3>1. <<n, m>> \in Pairs
      BY PairsOf DEF Connections
    <3> QED BY <2>1, <2>2, <3>1 DEF OnWay
  <2>4. Agree(m, n)'
    BY <2>3, Types DEF Agree
  <2> QED BY <1>0, <1>2, <2>2, <2>4 DEF Improves
<1>3. CASE /\ node' = node /\ link' = l
           /\ \/ c = node[n].chain
              \/ ~replaceChainAccepts(n, c)
              \/ /\ c = Append(node[n].chain, getLatestBlock(c))
                 /\ ~addBlockToBlockchainAccepts(n, getLatestBlock(c))
  <2>1. Leaves(<<m, n>>, x)
    BY <1>3, TakenLeaves
  <2>2. ~isBetterChain(c, node[n].chain)
    <3>1. CASE c = node[n].chain
      BY <1>0, <3>1, BetterOrder
    <3>2. CASE ~replaceChainAccepts(n, c)
      <4> SUFFICES ASSUME isBetterChain(c, node[n].chain) PROVE FALSE
        OBVIOUS
      <4>1. ~isBlockchainValid(c, n, clock[n])
        BY <3>2 DEF replaceChainAccepts
      <4>2. c[1] = getGenesisBlock(n, clock[n])
        BY <4>1, HeldValid
      <4>3. ~(Len(c) > 1)
        BY <4>2 DEF FirstBlocksOld
      <4>4. /\ Len(c) = 1 /\ getLatestBlock(c) = c[1] /\ getLatestBlock(c).index = 0
        <5>1. \A k \in Nat : k >= 1 /\ ~(k > 1) => k = 1
          OBVIOUS
        <5>2. Len(c) = 1
          BY <1>0, <4>3, <5>1, BuiltTip
        <5>3. getLatestBlock(c) = c[Len(c)] /\ getLatestBlock(c).index = Len(c) - 1
          BY <1>0, BuiltTip
        <5> QED BY <5>2, <5>3
      <4>5. c = <<getGenesisBlock(n, clock[n])>>
        BY <1>0, <4>2, <4>4, SoleBlock DEF Built
      <4> QED BY <4>5 DEF Reborn
    <3>3. CASE /\ c = Append(node[n].chain, getLatestBlock(c))
               /\ ~addBlockToBlockchainAccepts(n, getLatestBlock(c))
      BY <3>3, HeldValid
    <3> QED BY <1>3, <3>1, <3>2, <3>3
  <2>3. ~isBetterChain(node[m].chain, c) => ~isBetterChain(node[m].chain, node[n].chain)
    BY <1>0, <2>2, BetterOrder
  <2>4. ~isBetterChain(node[m].chain, c) => Agree(m, n)'
    BY <1>3, <2>3 DEF Agree
  <2> QED BY <1>0, <1>3, <2>1, <2>4 DEF Improves
<1> QED BY <1>1, <1>2, <1>3, BlocksOutcome

\* What a message is, that it may not be at the same time.
LEMMA TypesApart ==
  ASSUME NEW x, NEW n
  PROVE  /\ x.type \in {"QUERY_POOL", "RESPONSE_POOL"} => ~Brings(x, n) /\ ~Asks(x)
         /\ Asks(x) => ~Brings(x, n)
         /\ x.type \in {"RESPONSE_LATEST", "RESPONSE_BLOCKCHAIN"} => ~Asks(x)
         /\ x.type \in {"QUERY_LATEST_BLOCK", "QUERY_BLOCKCHAIN"} => Asks(x)
  BY DEF Brings, Asks

\* The handling of a message keeps connections and agreement.
LEMMA AgreeReceive ==
  ASSUME NetworkInv, ChainsInv, Connections, Agreement, Reborn,
         ClocksAgree, FirstBlocksOld, WorkFits, NetworkInv', ChainsInv',
         NEW n \in Nodes, NEW m \in Nodes, <<m, n>> \in Pairs, Receive(n, m)
  PROVE  Agreement' /\ Reborn'
<1>0. PICK x, l : x = First(<<m, n>>) /\ l = Rest(<<m, n>>)
  OBVIOUS
<1>1. /\ UNCHANGED <<clock, pending, joined>>
      /\ <<n, m>> \in joined /\ link[<<m, n>>] # <<>> /\ heldChains' = heldChains
  BY <1>0, ReceiveCases
<1>2. /\ \A k \in Nodes : FitsInt(node[k].chain)
      /\ node[n].chain \in heldChains /\ <<n, m>> \in Pairs /\ IsSeq(node[n].pool)
  BY HeldFit, ChainsFacts, PairsOf
<1>3. ASSUME Leaves(<<m, n>>, x), Improves(n), FitsInt(node'[n].chain),
             \A k \in Nodes : k # n => node'[k].chain = node[k].chain,
             Brings(x, m) => Agree(m, n)', Asks(x) => Agree(n, m)'
      PROVE  Agreement' /\ Reborn'
  <2>1. Agreement'
    BY <1>1, <1>2, <1>3, AgreeKept
  <2>2. Reborn'
    <3>1. WorkFits' /\ FitsInt(node[n].chain) /\ clock' = clock
      BY <1>1, <1>2 DEF WorkFits
    <3>2. \A c \in heldChains' : c \in heldChains \/ Len(c) > 1
      BY <1>1
    <3> QED BY <1>3, <3>1, <3>2, RebornKept
  <2> QED BY <2>1, <2>2
<1>4. ASSUME Leaves(<<m, n>>, x), \A k \in Nodes : node'[k].chain = node[k].chain,
             Brings(x, m) => Agree(m, n)', Asks(x) => Agree(n, m)'
      PROVE  Agreement' /\ Reborn'
  BY <1>2, <1>3, <1>4 DEF Improves
<1>5. CASE /\ x.type \in {"QUERY_LATEST_BLOCK", "QUERY_BLOCKCHAIN"} /\ node' = node
           /\ LET c == node[n].chain
              IN  \/ link' = answer(l, n, m, <<ResponseLatest(getLatestBlock(c))>>)
                  \/ link' = answer(l, n, m, <<ResponseBlockchain(c)>>)
  <2>1. PICK c, r : /\ c = node[n].chain
                    /\ r = ResponseLatest(getLatestBlock(c)) \/ r = ResponseBlockchain(c)
                    /\ link' = answer(l, n, m, <<r>>)
    BY <1>5
  <2>2. IsSeq(<<r>>) /\ ToSet(<<r>>) = {r}
    BY QueueShort
  <2>3. PICK ms : ms = <<r>>
    OBVIOUS
  <2>4. Leaves(<<m, n>>, x) /\ ToSet(ms) \subseteq ToSet(link'[<<n, m>>])
    BY <1>0, <1>1, <1>2, <2>1, <2>2, <2>3, AnswerLeaves
  <2>5. r \in OnWay(n, m)'
    BY <2>2, <2>3, <2>4 DEF OnWay
  <2>6. Brings(r, n)'
    <3>1. ~isBetterChain(c, c)
      BY <1>2, <2>1, BetterOrder
    <3>2. c \in heldChains'
      BY <1>1, <1>2, <2>1
    <3>3. /\ r.type \in {"RESPONSE_LATEST", "RESPONSE_BLOCKCHAIN"}
          /\ r.blocks = c \/ r.blocks = <<getLatestBlock(c)>>
      BY <2>1 DEF ResponseLatest, ResponseBlockchain
    <3> QED BY <1>5, <2>1, <3>1, <3>2, <3>3 DEF Brings
  <2>7. Agree(n, m)'
    BY <2>5, <2>6 DEF Agree
  <2>8. ~Brings(x, m)
    BY <1>5, TypesApart
  <2> QED BY <1>4, <1>5, <2>4, <2>7, <2>8
<1>6. CASE /\ x.type = "QUERY_POOL" /\ node' = node
           /\ link' = answer(l, n, m, responsePoolMsgs(node[n].pool))
  <2>1. PICK ms : ms = responsePoolMsgs(node[n].pool) /\ IsSeq(ms)
    BY <1>2, QueuePool
  <2>2. Leaves(<<m, n>>, x)
    BY <1>0, <1>1, <1>2, <1>6, <2>1, AnswerLeaves
  <2> QED BY <1>4, <1>6, <2>2, TypesApart
<1>7. CASE /\ x.type \in {"RESPONSE_LATEST", "RESPONSE_BLOCKCHAIN"}
           /\ KnownBlocks(x.blocks, heldChains) /\ newBlocksHandler(n, x.blocks, l)
  <2>1. ASSUME NEW c \in heldChains, x.blocks = c \/ x.blocks = <<getLatestBlock(c)>>
        PROVE  /\ Leaves(<<m, n>>, x) /\ Improves(n) /\ FitsInt(node'[n].chain)
               /\ \A k \in Nodes : k # n => node'[k].chain = node[k].chain
               /\ ~isBetterChain(node[m].chain, c) => Agree(m, n)'
    BY <1>0, <1>1, <1>7, <2>1, AgreeBlocks
  <2>2. \E c \in heldChains : x.blocks = c \/ x.blocks = <<getLatestBlock(c)>>
    BY <1>7 DEF KnownBlocks
  <2>3. Brings(x, m) => Agree(m, n)'
    BY <2>1 DEF Brings
  <2>4. ~Asks(x)
    BY <1>7, TypesApart
  <2> QED BY <1>3, <2>1, <2>2, <2>3, <2>4
<1>8. CASE x.type = "RESPONSE_POOL" /\ Adds(n, x.transaction, l)
  <2>1. PICK s : /\ Becomes(n, s) /\ s.chain = node[n].chain
                 /\ s.pool = Append(node[n].pool, x.transaction)
                 /\ link' = broadcast(l, n, responsePoolMsgs(s.pool))
    BY <1>8 DEF Adds
  <2>2. IsSeq(s.pool)
    BY <1>2, <2>1, IsSeqAppend
  <2>3. PICK ms : ms = responsePoolMsgs(s.pool) /\ IsSeq(ms)
    BY <2>2, QueuePool
  <2>4. Leaves(<<m, n>>, x)
    BY <1>0, <1>1, <2>1, <2>3, BroadcastLeaves
  <2>5. \A k \in Nodes : node'[k].chain = node[k].chain
    BY <2>1 DEF Becomes
  <2> QED BY <1>4, <1>8, <2>4, <2>5, TypesApart
<1>9. CASE x.type = "RESPONSE_POOL" /\ node' = node /\ link' = l
  <2>1. Leaves(<<m, n>>, x)
    BY <1>0, <1>1, <1>9, TakenLeaves
  <2> QED BY <1>4, <1>9, <2>1, TypesApart
<1> QED BY <1>0, <1>5, <1>6, <1>7, <1>8, <1>9, ReceiveCases

\* Connections over the handling of a message.
LEMMA ConnectionsReceive ==
  ASSUME NetworkInv, ChainsInv, Connections,
         NEW n \in Nodes, NEW m \in Nodes, <<m, n>> \in Pairs, Receive(n, m)
  PROVE  Connections' /\ Leaves(<<m, n>>, First(<<m, n>>))
<1>0. PICK x, l : x = First(<<m, n>>) /\ l = Rest(<<m, n>>)
  OBVIOUS
<1>1. /\ UNCHANGED <<clock, pending, joined>>
      /\ <<n, m>> \in joined /\ link[<<m, n>>] # <<>>
      /\ <<n, m>> \in Pairs /\ IsSeq(node[n].pool)
  BY <1>0, ReceiveCases, ChainsFacts, PairsOf
<1>2. ASSUME NEW ms, IsSeq(ms),
             link' = l \/ link' = broadcast(l, n, ms) \/ link' = answer(l, n, m, ms)
      PROVE  Leaves(<<m, n>>, x)
  BY <1>0, <1>1, <1>2, TakenLeaves, BroadcastLeaves, AnswerLeaves
<1>3. Leaves(<<m, n>>, x)
  <2>1. \A y, z : IsSeq(<<y>>) /\ IsSeq(<<y, z>>)
    BY QueueShort
  <2>2. ASSUME NEW c \in heldChains, x.blocks = c \/ x.blocks = <<getLatestBlock(c)>>,
               newBlocksHandler(n, x.blocks, l)
        PROVE  Leaves(<<m, n>>, x)
    <3>1. IsSeq(News(c)) /\ IsSeq(<<QueryBlockchain>>)
      BY <2>1 DEF News
    <3>2. \/ link' = l
          \/ link' = broadcast(l, n, News(c))
          \/ link' = broadcast(l, n, <<QueryBlockchain>>)
      BY <2>2, BlocksOutcome DEF Takes
    <3> QED BY <1>2, <3>1, <3>2
  <2>3. ASSUME NEW t, Adds(n, t, l) PROVE Leaves(<<m, n>>, x)
    <3>1. PICK s : /\ s.pool = Append(node[n].pool, t)
                   /\ link' = broadcast(l, n, responsePoolMsgs(s.pool))
      BY <2>3 DEF Adds
    <3>2. IsSeq(responsePoolMsgs(s.pool))
      BY <1>1, <3>1, IsSeqAppend, QueuePool
    <3> QED BY <1>2, <3>1, <3>2
  <2>4. IsSeq(responsePoolMsgs(node[n].pool))
    BY <1>1, QueuePool
  <2>5. \/ \E y : link' = answer(l, n, m, <<y>>)
        \/ link' = answer(l, n, m, responsePoolMsgs(node[n].pool))
        \/ KnownBlocks(x.blocks, heldChains) /\ newBlocksHandler(n, x.blocks, l)
        \/ Adds(n, x.transaction, l)
        \/ link' = l
    BY <1>0, ReceiveCases
  <2> QED BY <1>2, <2>1, <2>2, <2>3, <2>4, <2>5 DEF KnownBlocks
<1>4. Connections'
  BY <1>1, <1>3, ConnectionsKept
<1> QED BY <1>0, <1>3, <1>4

-----------------------------------------------------------------------------
(* The other steps *)

\* A payment consumes something.
LEMMA CreatedConsumes ==
  ASSUME NEW outs, NEW n, NEW u, NEW p,
         NEW t \in createTransactionWithMultipleOutputs(outs, n, u, p)
  PROVE  t.transIns # {}
<1>1. PICK included : /\ t.transIns = {getInputFromUnspentTransOut(o) : o \in included}
                      /\ \E last \in included : TRUE
  BY DEF createTransactionWithMultipleOutputs, getTransOutsForAmount
<1> QED BY <1>1

\* A request of a user adds to the pool, begins or ends mining, and loses nothing.
LEMMA UserOutcome ==
  ASSUME NetworkInv, ChainsInv, NEW n \in Nodes, UserStep(n)
  PROVE  /\ UNCHANGED <<clock, pending, joined>>
         /\ \/ \E t : /\ Adds(n, t, link) /\ t.transIns # {}
                      /\ addToPoolAccepts(t, node[n].pool, node[n].utxo)
                      /\ heldChains' = heldChains
                      /\ sentTransactions' = sentTransactions \cup {t}
            \/ \E b, c : /\ Own(n, b) /\ b.difficulty \in Nat
                         /\ c = Append(node[n].chain, b) /\ getLatestBlock(c) = b
                         /\ Built(c) /\ Past(c) /\ Mines(n, c)
                         /\ heldChains' = heldChains \cup {c}
                         /\ sentTransactions' = sentTransactions
            \/ \E k : Turns(n, k) /\ UNCHANGED <<link, heldChains, sentTransactions>>
<1>1. ASSUME NEW p \in PoolPayments, SendTransaction(n, p.outs[1])
      PROVE  /\ UNCHANGED <<clock, pending, joined>>
             /\ \E t : /\ Adds(n, t, link) /\ t.transIns # {}
                       /\ addToPoolAccepts(t, node[n].pool, node[n].utxo)
                       /\ heldChains' = heldChains
                       /\ sentTransactions' = sentTransactions \cup {t}
  <2>1. PICK out : out = p.outs[1]
    OBVIOUS
  <2>2. PICK t \in createTransaction(out.address, out.amount, n, node[n].utxo, node[n].pool) :
          /\ addToPoolAccepts(t, node[n].pool, node[n].utxo)
          /\ node' = [node EXCEPT ![n].pool = Append(@, t)]
          /\ sentTransactions' = sentTransactions \cup {t}
          /\ link' = broadcast(link, n, responsePoolMsgs(node'[n].pool))
          /\ UNCHANGED <<clock, pending, joined, heldChains>>
    BY <1>1, <2>1 DEF SendTransaction
  <2>3. Adds(n, t, link)
    BY <2>2, AddsOutcome
  <2>4. t.transIns # {}
    BY <2>2, CreatedConsumes DEF createTransaction
  <2> QED BY <2>2, <2>3, <2>4
<1>2. ASSUME NEW ts, StartMining(n, ts)
      PROVE  /\ UNCHANGED <<clock, pending, joined, link, heldChains, sentTransactions>>
             /\ \E k : Turns(n, k)
  BY <1>2, StartOutcome
<1>3. CASE createNextBlock(n)
  BY <1>2, <1>3 DEF createNextBlock
<1>4. CASE \E p \in BlockPayments : p.sender = n /\ createNextBlockWithTransaction(n, p.outs)
  BY <1>2, <1>4 DEF createNextBlockWithTransaction
<1>5. CASE FinishMining(n)
  BY <1>5, FinishOutcome
<1> QED BY <1>1, <1>3, <1>4, <1>5 DEF UserStep

\* It loses nothing that is under way, and tells the peers what it changes.
LEMMA UserLoss ==
  ASSUME NetworkInv, ChainsInv, NEW n \in Nodes, UserStep(n)
  PROVE  NoLoss
<1>1. ASSUME NEW t, Adds(n, t, link) PROVE NoLoss
  <2>1. PICK s : /\ s.pool = Append(node[n].pool, t)
                 /\ link' = broadcast(link, n, responsePoolMsgs(s.pool))
    BY <1>1 DEF Adds
  <2>2. IsSeq(s.pool)
    BY <2>1, ChainsFacts, IsSeqAppend
  <2>3. PICK ms : ms = responsePoolMsgs(s.pool) /\ IsSeq(ms)
    BY <2>2, QueuePool
  <2> QED BY <2>1, <2>3, BroadcastLoss
<1>2. ASSUME NEW c, Mines(n, c) PROVE NoLoss
  <2>1. PICK ms : ms = <<ResponseLatest(getLatestBlock(c))>> /\ IsSeq(ms)
    BY QueueShort
  <2>2. link' = broadcast(link, n, ms)
    BY <1>2, <2>1 DEF Mines
  <2> QED BY <2>1, <2>2, BroadcastLoss
<1>3. CASE link' = link
  BY <1>3 DEF NoLoss
<1> QED BY <1>1, <1>2, <1>3, UserOutcome

\* Its chain gets better, when it changes.
LEMMA AgreeUser ==
  ASSUME NetworkInv, ChainsInv, Connections, Agreement, Reborn,
         NetworkInv', ChainsInv', WorkFits', NEW n \in Nodes, UserStep(n)
  PROVE  Agreement' /\ Reborn'
<1>1. UNCHANGED <<clock, pending, joined>> /\ NoLoss
  BY UserOutcome, UserLoss
<1>2. heldChains \subseteq heldChains'
  BY UserOutcome
<1>3. \A c \in heldChains' : FitsInt(c)
  <2>1. \A c \in heldChains' : Built(c) /\ Work(c) <= MAX_INT
    BY DEF ChainsInv, WorkFits
  <2> QED BY <2>1 DEF FitsInt
<1>4. /\ \A k \in Nodes : FitsInt(node[k].chain)
      /\ FitsInt(node'[n].chain)
  <2>1. node'[n].chain \in heldChains'
    BY DEF NetworkInv, NodesInv, HeldNode
  <2> QED BY <1>2, <1>3, <2>1, ChainsFacts
<1>5. ASSUME \A k \in Nodes : k # n => node'[k].chain = node[k].chain, Improves(n),
             \A c \in heldChains' : c \in heldChains \/ Len(c) > 1
      PROVE  Agreement' /\ Reborn'
  <2>1. Agreement'
    BY <1>1, <1>2, <1>4, <1>5, AgreeKept
  <2>2. Reborn'
    BY <1>1, <1>4, <1>5, RebornKept
  <2> QED BY <2>1, <2>2
<1>6. ASSUME NEW t, Adds(n, t, link), heldChains' = heldChains
      PROVE  Agreement' /\ Reborn'
  <2>1. \A k \in Nodes : node'[k].chain = node[k].chain
    BY <1>6 DEF Adds, Becomes
  <2> QED BY <1>5, <1>6, <2>1 DEF Improves
<1>7. ASSUME NEW k, Turns(n, k), heldChains' = heldChains
      PROVE  Agreement' /\ Reborn'
  <2>1. \A i \in Nodes : node'[i].chain = node[i].chain
    BY <1>7 DEF Turns, Becomes
  <2> QED BY <1>5, <1>7, <2>1 DEF Improves
<1>8. ASSUME NEW b, NEW c, b.difficulty \in Nat, c = Append(node[n].chain, b),
             getLatestBlock(c) = b, Mines(n, c), heldChains' = heldChains \cup {c}
      PROVE  Agreement' /\ Reborn'
  <2>1. /\ node'[n].chain = c
        /\ \A k \in Nodes : k # n => node'[k].chain = node[k].chain
        /\ link' = broadcast(link, n, <<ResponseLatest(getLatestBlock(c))>>)
    BY <1>8 DEF Mines, Becomes
  <2>2. isBetterChain(c, node[n].chain)
    BY <1>4, <1>8, <2>1, BetterAppend
  <2>3. Brings(ResponseLatest(getLatestBlock(c)), n)'
    <3>1. ~isBetterChain(c, c) /\ c \in heldChains'
      BY <1>4, <1>8, <2>1, BetterOrder
    <3> QED BY <2>1, <3>1 DEF Brings, ResponseLatest
  <2>4. PICK ms : /\ ms = <<ResponseLatest(getLatestBlock(c))>> /\ IsSeq(ms)
                  /\ ToSet(ms) = {ResponseLatest(getLatestBlock(c))}
    BY QueueShort
  <2>5. \A p \in Pairs : p[1] = n /\ p \in joined => ToSet(ms) \subseteq ToSet(link'[p])
    BY <2>1, <2>4, BroadcastLoss
  <2>6. \A k \in Nodes : <<n, k>> \in joined => \E y \in OnWay(n, k)' : Brings(y, n)'
    <3> SUFFICES ASSUME NEW k \in Nodes, <<n, k>> \in joined
        PROVE \E y \in OnWay(n, k)' : Brings(y, n)'
      OBVIOUS
    <3>1. ToSet(ms) \subseteq ToSet(link'[<<n, k>>])
      BY <2>5 DEF Connections
    <3> QED BY <2>3, <2>4, <3>1 DEF OnWay
  <2>7. Len(c) > 1
    <3>1. Len(node[n].chain) \in Nat /\ Len(node[n].chain) >= 1
      BY ChainsFacts, BuiltTip
    <3>2. Len(c) = Len(node[n].chain) + 1
      BY <1>8, ChainsFacts, IsSeqAppend
    <3> QED BY <3>1, <3>2
  <2>8. Improves(n)
    BY <2>1, <2>2, <2>6 DEF Improves
  <2>9. \A d \in heldChains' : d \in heldChains \/ Len(d) > 1
    BY <1>8, <2>7
  <2> QED BY <1>5, <2>1, <2>8, <2>9
<1> QED BY <1>6, <1>7, <1>8, UserOutcome

\* Nothing but connections changes.
LEMMA AgreeConnect ==
  ASSUME NetworkInv, Connections, Agreement, UNCHANGED <<node, clock, heldChains>>,
         NEW n \in Nodes, NEW m \in Nodes, connectToPeer(n, m)
  PROVE  Agreement'
<1> SUFFICES ASSUME NEW i \in Nodes, NEW k \in Nodes, <<k, i>> \in joined' PROVE Agree(i, k)'
  BY DEF Agreement, Agree
<1>1. /\ joined' = joined \cup {<<n, m>>} /\ NoLoss
      /\ \E x \in OnWay(n, m)' : Asks(x)
      /\ joined' \subseteq Pairs
  BY ConnectKeeps DEF Connections
<1>2. <<k, i>> \in Pairs /\ <<i, k>> \in Pairs
  BY <1>1, PairsOf
<1>3. CASE <<k, i>> = <<n, m>>
  BY <1>1, <1>3 DEF Agree
<1>4. CASE <<k, i>> \in joined
  <2>1. OnWay(i, k) \subseteq OnWay(i, k)' /\ OnWay(k, i) \subseteq OnWay(k, i)'
    BY <1>1, <1>2 DEF NoLoss, OnWay
  <2>2. \A x : Brings(x, i) => Brings(x, i)'
    BY DEF Brings
  <2> QED BY <1>4, <2>1, <2>2 DEF Agreement, Agree
<1> QED BY <1>1, <1>3, <1>4

\* Connections end, and a node that is in none may have changed.
LEMMA AgreeDisconnect ==
  ASSUME Connections, Agreement, NEW pairs, Disconnect(pairs),
         \A n, m \in Nodes : <<n, m>> \in pairs => <<m, n>> \in pairs,
         heldChains \subseteq heldChains',
         \A n, m \in Nodes : <<n, m>> \in joined' =>
           node'[n].chain = node[n].chain /\ node'[m].chain = node[m].chain
  PROVE  Agreement'
<1> SUFFICES ASSUME NEW i \in Nodes, NEW k \in Nodes, <<k, i>> \in joined' PROVE Agree(i, k)'
  BY DEF Agreement, Agree
<1>1. /\ <<k, i>> \in joined
      /\ OnWay(i, k)' = OnWay(i, k) /\ OnWay(k, i)' = OnWay(k, i)
  BY DisconnectKeeps
<1>2. node'[i].chain = node[i].chain /\ node'[k].chain = node[k].chain
  OBVIOUS
<1>3. \A x : Brings(x, i) => Brings(x, i)'
  BY <1>2 DEF Brings
<1> QED BY <1>1, <1>2, <1>3 DEF Agreement, Agree

-----------------------------------------------------------------------------
(* Every step keeps the connections, and the peers in agreement *)

\* What the end of connections disconnects goes both ways.
LEMMA EndsBoth ==
  /\ \A i, j \in Nodes : \A n, m \in Nodes :
       <<n, m>> \in {<<i, j>>, <<j, i>>} => <<m, n>> \in {<<i, j>>, <<j, i>>}
  /\ \A i \in Nodes : \A n, m \in Nodes :
       /\ <<n, m>> \in {p \in Pairs : i \in {p[1], p[2]}}
            => <<m, n>> \in {p \in Pairs : i \in {p[1], p[2]}}
<1>1. ASSUME NEW i \in Nodes, NEW n \in Nodes, NEW m \in Nodes,
             <<n, m>> \in {p \in Pairs : i \in {p[1], p[2]}}
      PROVE  <<m, n>> \in {p \in Pairs : i \in {p[1], p[2]}}
  <2>1. <<n, m>> \in Pairs /\ i \in {n, m}
    BY <1>1
  <2>2. <<m, n>> \in Pairs /\ i \in {m, n}
    BY <2>1, PairsOf
  <2> QED BY <2>2
<1> QED BY <1>1

\* Every step of the network keeps the connections in order.
LEMMA ConnectionsNext ==
  ASSUME NetworkInv, ChainsInv, Connections, [Next]_vars
  PROVE  Connections'
<1>1. ASSUME NEW p \in Pairs, OpenConnection(p[1], p[2]) PROVE Connections'
  <2>1. PICK n \in Nodes, m \in Nodes : p = <<n, m>> /\ <<m, n>> \in Pairs /\ n = p[1] /\ m = p[2]
    BY PairsOf
  <2>2. /\ pending' = pending \cup {<<n, m>>, <<m, n>>} /\ joined' = joined /\ link' = link
        /\ <<m, n>> \notin joined /\ <<n, m>> \notin joined
    BY <1>1, <2>1 DEF OpenConnection
  <2>3. joined' \subseteq Pairs /\ pending' \subseteq Pairs
    BY <2>1, <2>2 DEF Connections
  <2>4. \A i, j \in Nodes : <<i, j>> \in joined' \cup pending' => <<j, i>> \in joined' \cup pending'
    BY <2>2 DEF Connections
  <2>5. \A i, j \in Nodes : OnWay(i, j)' = OnWay(i, j)
    BY <2>2 DEF OnWay
  <2> QED BY <2>2, <2>3, <2>4, <2>5 DEF Connections
<1>2. ASSUME NEW p \in Pairs, connectToPeer(p[1], p[2]) PROVE Connections'
  BY <1>2, PairNodes, ConnectKeeps
<1>3. ASSUME NEW p \in Pairs, Break(p[1], p[2]) PROVE Connections'
  <2>1. PICK n \in Nodes, m \in Nodes : p = <<n, m>> /\ n = p[1] /\ m = p[2]
    BY PairsOf
  <2>2. Disconnect({<<n, m>>, <<m, n>>})
    BY <1>3, <2>1 DEF Break
  <2> QED BY <2>2, EndsBoth, DisconnectKeeps
<1>4. ASSUME NEW p \in Pairs, Receive(p[1], p[2]) PROVE Connections'
  <2>1. PICK n \in Nodes, m \in Nodes : p = <<n, m>> /\ <<m, n>> \in Pairs /\ n = p[1] /\ m = p[2]
    BY PairsOf
  <2> QED BY <1>4, <2>1, ConnectionsReceive
<1>5. ASSUME NEW n \in Nodes, UserStep(n) PROVE Connections'
  BY <1>5, UserOutcome, UserLoss, ConnectionsKept
<1>6. ASSUME NEW n \in Nodes, Restart(n) PROVE Connections'
  <2>1. Disconnect({p \in Pairs : n \in {p[1], p[2]}})
    BY <1>6 DEF Restart
  <2> QED BY <2>1, EndsBoth, DisconnectKeeps
<1>7. ASSUME NEW n \in Nodes, Tick(n) PROVE Connections'
  BY <1>7, ConnectionsKept DEF Tick, NoLoss
<1>8. CASE UNCHANGED vars
  BY <1>8, ConnectionsKept DEF vars, NoLoss
<1> QED BY <1>1, <1>2, <1>3, <1>4, <1>5, <1>6, <1>7, <1>8 DEF Next

\* A first block tells who generated it and when.
LEMMA GenesisTells ==
  ASSUME NEW n, NEW time, NEW m, NEW past
  PROVE  /\ getGenesisBlock(n, time) = getGenesisBlock(m, past) => n = m /\ time = past
         /\ <<getGenesisBlock(n, time)>> = <<getGenesisBlock(m, past)>> => n = m /\ time = past
<1>1. ASSUME getGenesisBlock(n, time) = getGenesisBlock(m, past) PROVE n = m /\ time = past
  <2>1. ASSUME NEW k, NEW at, NEW g, g = getGenesisBlock(k, at)
        PROVE  g.timestamp = at /\ g.data[1].transOuts[1].address = k
    BY <2>1 DEF getGenesisBlock, Block, getCoinbaseTransaction, TransOut
  <2> QED BY <1>1, <2>1
<1>2. \A x, y : <<x>> = <<y>> => x = y
  OBVIOUS
<1> QED BY <1>1, <1>2

\* A clock that goes on: no chain begins with what a node would only generate now.
LEMMA RebornTick ==
  ASSUME NetworkInv, ChainsInv, Reborn, NEW n \in Nodes, Tick(n)
  PROVE  Reborn'
<1>1. /\ UNCHANGED <<node, heldChains>> /\ clock' = [clock EXCEPT ![n] = @ + 1]
      /\ clock = [m \in Nodes |-> clock[m]]
  BY DEF Tick, history, ChainsInv
<1>2. \A m \in Nodes : clock'[m] = IF m = n THEN clock[m] + 1 ELSE clock[m]
  BY <1>1
<1> SUFFICES ASSUME NEW k \in Nodes, NEW g, g = <<getGenesisBlock(k, clock'[k])>>,
                    g \in heldChains
    PROVE ~isBetterChain(g, node[k].chain)
  BY <1>1 DEF Reborn
<1>3. CASE k # n
  BY <1>2, <1>3 DEF Reborn
<1>4. CASE k = n
  <2>1. g[1] = getGenesisBlock(n, clock[n] + 1)
    BY <1>2, <1>4
  <2>2. PICK j \in Nodes, time \in Nat : time <= clock[j] /\ g[1] = getGenesisBlock(j, time)
    BY ChainsFacts DEF Past
  <2>3. j = n /\ time = clock[n] + 1
    BY <2>1, <2>2, GenesisTells
  <2>4. clock[n] \in Nat
    BY ChainsFacts
  <2> QED BY <2>2, <2>3, <2>4
<1> QED BY <1>3, <1>4

\* A node that starts has the only chain that its first block can be.
LEMMA RebornRestart ==
  ASSUME NetworkInv, ChainsInv, Reborn, ChainsInv', WorkFits', NEW n \in Nodes, Restart(n)
  PROVE  Reborn'
<1>1. PICK s : /\ Becomes(n, s) /\ s.chain = <<getGenesisBlock(n, clock[n])>>
               /\ heldChains' = heldChains \cup {s.chain}
  BY ChainsRestart
<1>2. clock' = clock
  BY DEF Restart
<1>3. /\ node'[n].chain = s.chain
      /\ \A k \in Nodes : k # n => node'[k].chain = node[k].chain
  BY <1>1 DEF Becomes
<1> SUFFICES ASSUME NEW k \in Nodes, NEW g, g = <<getGenesisBlock(k, clock[k])>>,
                    g \in heldChains'
    PROVE ~isBetterChain(g, node'[k].chain)
  BY <1>2 DEF Reborn
<1>4. CASE k = n
  <2>1. Built(g) /\ Work(g) <= MAX_INT
    BY DEF ChainsInv, WorkFits
  <2>2. FitsInt(g)
    BY <2>1 DEF FitsInt
  <2> QED BY <1>1, <1>3, <1>4, <2>2, BetterOrder
<1>5. CASE k # n
  <2>1. g # s.chain
    BY <1>1, <1>5, GenesisTells
  <2>2. g \in heldChains
    BY <1>1, <2>1
  <2> QED BY <1>3, <1>5, <2>2 DEF Reborn
<1> QED BY <1>4, <1>5

\* A step that changes no chain, clock or queue of those that are connected.
LEMMA AgreeSame ==
  ASSUME Agreement, UNCHANGED <<node, heldChains, joined, link>>
  PROVE  Agreement'
<1>1. \A x : \A n \in Nodes : Brings(x, n)' = Brings(x, n)
  BY DEF Brings
<1>2. \A n, m \in Nodes : OnWay(n, m)' = OnWay(n, m)
  BY DEF OnWay
<1> QED BY <1>1, <1>2 DEF Agreement, Agree

\* Every step of the network keeps the peers in agreement, while the clocks agree.
LEMMA AgreeNext ==
  ASSUME NetworkInv, ChainsInv, Connections, Agreement, Reborn,
         ClocksAgree, FirstBlocksOld, WorkFits,
         NetworkInv', ChainsInv', WorkFits', [Next]_vars
  PROVE  Agreement' /\ Reborn'
<1>0. ASSUME UNCHANGED <<node, clock, heldChains>> PROVE Reborn'
  BY <1>0 DEF Reborn
<1>1. ASSUME NEW p \in Pairs, OpenConnection(p[1], p[2]) PROVE Agreement' /\ Reborn'
  BY <1>0, <1>1, AgreeSame DEF OpenConnection, history
<1>2. ASSUME NEW p \in Pairs, connectToPeer(p[1], p[2]) PROVE Agreement' /\ Reborn'
  <2>1. UNCHANGED <<node, clock, heldChains>>
    BY <1>2 DEF connectToPeer, history
  <2> QED BY <1>0, <1>2, <2>1, PairNodes, AgreeConnect
<1>3. ASSUME NEW p \in Pairs, Break(p[1], p[2]) PROVE Agreement' /\ Reborn'
  <2>1. PICK n \in Nodes, m \in Nodes : p = <<n, m>> /\ n = p[1] /\ m = p[2]
    BY PairsOf
  <2>2. Disconnect({<<n, m>>, <<m, n>>}) /\ UNCHANGED <<node, clock, heldChains>>
    BY <1>3, <2>1 DEF Break, history
  <2> QED BY <1>0, <2>2, EndsBoth, AgreeDisconnect
<1>4. ASSUME NEW p \in Pairs, Receive(p[1], p[2]) PROVE Agreement' /\ Reborn'
  <2>1. PICK n \in Nodes, m \in Nodes : p = <<n, m>> /\ <<m, n>> \in Pairs /\ n = p[1] /\ m = p[2]
    BY PairsOf
  <2> QED BY <1>4, <2>1, AgreeReceive
<1>5. ASSUME NEW n \in Nodes, UserStep(n) PROVE Agreement' /\ Reborn'
  BY <1>5, AgreeUser
<1>6. ASSUME NEW n \in Nodes, Restart(n) PROVE Agreement' /\ Reborn'
  <2>1. PICK ends : ends = {p \in Pairs : n \in {p[1], p[2]}} /\ Disconnect(ends)
    BY <1>6 DEF Restart
  <2>2. PICK s : Becomes(n, s) /\ heldChains' = heldChains \cup {s.chain}
    BY <1>6, ChainsRestart
  <2>3. ASSUME NEW i \in Nodes, NEW k \in Nodes, <<i, k>> \in joined'
        PROVE  node'[i].chain = node[i].chain /\ node'[k].chain = node[k].chain
    <3>1. <<i, k>> \in Pairs /\ <<i, k>> \notin ends
      BY <2>1, <2>3 DEF Disconnect, Connections
    <3>2. i # n /\ k # n
      BY <2>1, <3>1
    <3> QED BY <2>2, <3>2 DEF Becomes
  <2>4. Agreement'
    BY <2>1, <2>2, <2>3, EndsBoth, AgreeDisconnect
  <2> QED BY <1>6, <2>4, RebornRestart
<1>7. ASSUME NEW n \in Nodes, Tick(n) PROVE Agreement' /\ Reborn'
  BY <1>7, AgreeSame, RebornTick DEF Tick, history
<1>8. CASE UNCHANGED vars
  BY <1>0, <1>8, AgreeSame DEF vars, history
<1> QED BY <1>1, <1>2, <1>3, <1>4, <1>5, <1>6, <1>7, <1>8 DEF Next

\* When everything has been handled, agreement is all that is left.
LEMMA AgreementSettles ==
  ASSUME Connections, Agreement PROVE PeersHoldBestChain
<1> SUFFICES ASSUME Settled, NEW p \in joined
    PROVE ~isBetterChain(node[p[1]].chain, node[p[2]].chain)
  BY DEF PeersHoldBestChain
<1>1. PICK n \in Nodes, m \in Nodes : /\ p = <<n, m>> /\ n = p[1] /\ m = p[2]
                                      /\ <<n, m>> \in Pairs /\ <<m, n>> \in Pairs
  BY PairsOf DEF Connections
<1>2. <<m, n>> \in joined
  BY <1>1 DEF Connections, Settled
<1>3. OnWay(n, m) = {} /\ OnWay(m, n) = {}
  BY <1>1 DEF Settled, OnWay, ToSet
<1> QED BY <1>1, <1>2, <1>3 DEF Agreement, Agree

-----------------------------------------------------------------------------
(* What follows of the chains of peers *)

\* The nodes begin without connections, each with the chain of its first block.
LEMMA AgreeStart ==
  /\ Init => Connections
  /\ Init /\ ChainsInv /\ WorkFits => Agreement /\ Reborn
<1>1. ASSUME Init PROVE Connections
  BY <1>1 DEF Init, Connections
<1>2. ASSUME Init, ChainsInv, WorkFits PROVE Agreement /\ Reborn
  <2>1. Agreement
    BY <1>2 DEF Init, Agreement, Agree
  <2>2. /\ clock \in [Nodes -> 0..MaxSkew]
        /\ node = [n \in Nodes |-> NewNode(n, clock[n])]
        /\ heldChains = {node[n].chain : n \in Nodes}
    BY <1>2 DEF Init
  <2>3. ASSUME NEW n \in Nodes
        PROVE  ~isBetterChain(<<getGenesisBlock(n, clock[n])>>, node[n].chain)
    <3>1. clock[n] \in Nat /\ node[n] = NewNode(n, clock[n])
      BY <2>2
    <3>2. node[n].chain = <<getGenesisBlock(n, clock[n])>>
      BY <3>1, BuiltFirst
    <3>3. node[n].chain \in heldChains
      BY <2>2
    <3>4. FitsInt(node[n].chain)
      BY <1>2, <3>3 DEF ChainsInv, WorkFits, FitsInt
    <3> QED BY <3>2, <3>4, BetterOrder
  <2>4. Reborn
    BY <2>3 DEF Reborn
  <2> QED BY <2>1, <2>4
<1> QED BY <1>1, <1>2

\* Always, whatever is mined, connected, crashed or lost: every chain that was held
\* was built from valid blocks, one fitting on the other, at times that some clock
\* has shown; what a node holds as unspent is what its chain leaves unspent; and a
\* connection that one node has yet to take up has the questions of the other before
\* it (addBlockToBlockchain and replaceChain, connectToPeer).
THEOREM NetworkKeepsChains == Spec => [](NetworkInv /\ ChainsInv /\ Connections)
<1>1. Init => ChainsInv /\ Connections
  BY ChainsStart, AgreeStart
<1>2. NetworkInv /\ ChainsInv /\ Connections /\ [Next]_vars => ChainsInv' /\ Connections'
  BY ChainsNext, ConnectionsNext
<1> QED BY <1>1, <1>2, NetworkKeepsInv, PTL DEF Spec

\* When all messages are handled no node holds a chain that a peer of it would
\* prefer, as long as the clocks differ by less than a node accepts in a timestamp
\* (isValidTimestamp), no node that starts generates a first block that others have
\* already built on (isBlockchainValid refuses those), and no chain has more work
\* than an int can hold (getAccumulatedDifficulty): each change is announced once
\* and each connection begins with one question, and that is enough
\* (newBlocksHandler and replaceChain, createRawNextBlock, connectToPeer).
THEOREM AlwaysPeersHoldBestChain ==
  Spec /\ [](ClocksAgree /\ FirstBlocksOld /\ WorkFits) => []PeersHoldBestChain
<1> DEFINE Known == NetworkInv /\ ChainsInv /\ Connections
           Timely == ClocksAgree /\ FirstBlocksOld /\ WorkFits
           Agreed == Agreement /\ Reborn
<1>1. Init /\ Known /\ Timely => Agreed
  BY AgreeStart
<1>2. Known /\ Known' /\ Timely /\ Timely' /\ Agreed /\ [Next]_vars => Agreed'
  BY AgreeNext
<1>3. Known /\ Agreed => PeersHoldBestChain
  BY AgreementSettles
<1>4. Spec => []Known
  BY NetworkKeepsChains
<1> HIDE DEF Known, Timely, Agreed
<1>5. Spec /\ []Timely => []PeersHoldBestChain
  BY <1>1, <1>2, <1>3, <1>4, PTL DEF Spec
<1> QED BY <1>5 DEF Timely

-----------------------------------------------------------------------------
(* Peers have the same transactions, or what makes them so is under way *)

\* Node m would not take the transaction t of n, or n is about to send it to m, or
\* m has asked n for its pool.
Shared(n, m, t) ==
  \/ ~addToPoolAccepts(t, node[m].pool, node[m].utxo)
  \/ ResponsePool(t) \in OnWay(n, m)
  \/ QueryPool \in OnWay(m, n)

\* So it is with the whole pool of n, once m has taken up its connection to n.
Shares(n, m) ==
  <<m, n>> \in joined /\ CaughtUp(m) => \A t \in ToSet(node[n].pool) : Shared(n, m, t)

\* And with all nodes; and every transaction consumes something.
Sharing ==
  /\ \A n, m \in Nodes : Shares(n, m)
  /\ \A t \in sentTransactions : t.transIns # {}

\* The pool of node n gets nothing new, or its peers are sent all of it.
Offers(n) ==
  \/ ToSet(node'[n].pool) \subseteq ToSet(node[n].pool)
  \/ \A m \in Nodes : <<n, m>> \in joined =>
       \A t \in ToSet(node'[n].pool) : ResponsePool(t) \in OnWay(n, m)'

\* Node n takes no more transactions than before, or holds a block of its own, or
\* asks its peers for theirs.
Requests(n) ==
  \/ /\ node'[n].chain = node[n].chain
     /\ \A t : addToPoolAccepts(t, node'[n].pool, node'[n].utxo)
                 => addToPoolAccepts(t, node[n].pool, node[n].utxo)
  \/ ~CaughtUp(n)'
  \/ \A m \in Nodes : <<n, m>> \in joined => QueryPool \in OnWay(n, m)'

\* A node that is caught up stays so with its chain.
LEMMA CaughtUpKept ==
  \A k \in Nodes : node'[k].chain = node[k].chain => CaughtUp(k)' = CaughtUp(k)
  BY DEF CaughtUp, getLatestBlock

\* A step of node n after which its peers have what it has, or are sent it, and in
\* which a message to n may go that has had its effect.
LEMMA SharesKept ==
  ASSUME Connections, Sharing, NEW n \in Nodes, joined' = joined,
         \A k \in Nodes : k # n => node'[k] = node[k],
         Offers(n), Requests(n),
         \/ NoLoss
         \/ \E j \in Nodes : \E x :
              /\ <<n, j>> \in joined /\ Leaves(<<j, n>>, x)
              /\ x = QueryPool =>
                   \A t \in ToSet(node'[n].pool) : ResponsePool(t) \in OnWay(n, j)'
              /\ \A t : x = ResponsePool(t) =>
                   ~addToPoolAccepts(t, node'[n].pool, node'[n].utxo)
  PROVE  \A i, k \in Nodes : Shares(i, k)'
<1> SUFFICES ASSUME NEW i \in Nodes, NEW k \in Nodes, <<k, i>> \in joined, CaughtUp(k)',
                    NEW t \in ToSet(node'[i].pool)
    PROVE Shared(i, k, t)'
  BY DEF Shares
<1>1. i # k /\ <<i, k>> \in Pairs /\ <<k, i>> \in Pairs
  BY PairsOf DEF Connections
<1>j. PICK j \in Nodes : \E y :
        \/ NoLoss
        \/ /\ <<n, j>> \in joined /\ Leaves(<<j, n>>, y)
           /\ y = QueryPool =>
                \A r \in ToSet(node'[n].pool) : ResponsePool(r) \in OnWay(n, j)'
           /\ \A r : y = ResponsePool(r) =>
                ~addToPoolAccepts(r, node'[n].pool, node'[n].utxo)
  OBVIOUS
<1>2. PICK y :
        \/ NoLoss
        \/ /\ <<n, j>> \in joined /\ Leaves(<<j, n>>, y)
           /\ y = QueryPool =>
                \A r \in ToSet(node'[n].pool) : ResponsePool(r) \in OnWay(n, j)'
           /\ \A r : y = ResponsePool(r) =>
                ~addToPoolAccepts(r, node'[n].pool, node'[n].utxo)
  BY <1>j
<1>3. \A x \in OnWay(i, k) : x \in OnWay(i, k)' \/ (k = n /\ i = j /\ x = y /\ ~NoLoss)
  BY <1>1, <1>2 DEF NoLoss, Leaves, OnWay
<1>4. \A x \in OnWay(k, i) : x \in OnWay(k, i)' \/ (i = n /\ k = j /\ x = y /\ ~NoLoss)
  BY <1>1, <1>2 DEF NoLoss, Leaves, OnWay
<1>5. CASE k = n
  <2>1. node'[i] = node[i]
    BY <1>1, <1>5
  <2>2. CASE \A m \in Nodes : <<n, m>> \in joined => QueryPool \in OnWay(n, m)'
    BY <1>5, <2>2 DEF Shared
  <2>3. CASE /\ node'[n].chain = node[n].chain
             /\ \A r : addToPoolAccepts(r, node'[n].pool, node'[n].utxo)
                         => addToPoolAccepts(r, node[n].pool, node[n].utxo)
    <3>1. Shared(i, k, t)
      BY <1>5, <2>1, <2>3, CaughtUpKept DEF Sharing, Shares
    <3>2. CASE ~addToPoolAccepts(t, node[k].pool, node[k].utxo)
      BY <1>5, <2>3, <3>2 DEF Shared
    <3>3. CASE ResponsePool(t) \in OnWay(i, k)
      <4>1. CASE ResponsePool(t) \in OnWay(i, k)'
        BY <4>1 DEF Shared
      <4>2. CASE y = ResponsePool(t) /\ ~NoLoss
        BY <1>2, <1>5, <4>2 DEF Shared
      <4> QED BY <1>3, <3>3, <4>1, <4>2
    <3>4. CASE QueryPool \in OnWay(k, i)
      BY <1>1, <1>4, <1>5, <3>4 DEF Shared
    <3> QED BY <3>1, <3>2, <3>3, <3>4 DEF Shared
  <2> QED BY <1>5, <2>2, <2>3 DEF Requests
<1>6. CASE k # n
  <2>1. node'[k] = node[k] /\ CaughtUp(k)
    BY <1>6, CaughtUpKept
  <2>2. CASE t \in ToSet(node[i].pool)
    <3>1. Shared(i, k, t)
      BY <2>1, <2>2 DEF Sharing, Shares
    <3>2. CASE ~addToPoolAccepts(t, node[k].pool, node[k].utxo)
      BY <2>1, <3>2 DEF Shared
    <3>3. CASE ResponsePool(t) \in OnWay(i, k)
      BY <1>3, <1>6, <3>3 DEF Shared
    <3>4. CASE QueryPool \in OnWay(k, i)
      <4>1. CASE QueryPool \in OnWay(k, i)'
        BY <4>1 DEF Shared
      <4>2. CASE i = n /\ k = j /\ y = QueryPool /\ ~NoLoss
        BY <1>2, <4>2 DEF Shared
      <4> QED BY <1>4, <3>4, <4>1, <4>2
    <3> QED BY <3>1, <3>2, <3>3, <3>4 DEF Shared
  <2>3. CASE i = n /\ \A m \in Nodes : <<n, m>> \in joined =>
                        \A r \in ToSet(node'[n].pool) : ResponsePool(r) \in OnWay(n, m)'
    <3>1. CASE <<n, k>> \in joined
      BY <2>3, <3>1 DEF Shared
    <3>2. CASE <<n, k>> \notin joined
      <4>1. QueryPool \in OnWay(k, i)
        BY <2>3, <3>2 DEF Connections
      <4>2. QueryPool \in OnWay(k, i)'
        BY <1>2, <1>4, <3>2, <4>1
      <4> QED BY <4>2 DEF Shared
    <3> QED BY <3>1, <3>2
  <2> QED BY <2>2, <2>3 DEF Offers
<1> QED BY <1>5, <1>6

\* The transactions that stay in a pool were in it.
LEMMA PoolShrinks ==
  ASSUME NEW p, IsSeq(p), NEW u
  PROVE  ToSet(updatePool(p, u)) \subseteq ToSet(p)
<1>1. PICK q : q = updatePool(p, u) /\ IsSelection(q, p, Len(p), u)
  BY UpdatePoolSelects
<1>2. IsSeq(q) /\ \A i \in 1..Len(q) : \E j \in 1..Len(p) : q[i] = p[j]
  BY <1>1 DEF IsSelection
<1>3. DOMAIN q = 1..Len(q) /\ DOMAIN p = 1..Len(p)
  BY <1>2, IsSeqShape
<1> QED BY <1>1, <1>2, <1>3 DEF ToSet

\* A larger pool accepts less, and not what it has.
LEMMA PoolRefuses ==
  ASSUME NEW p, IsSeq(p), NEW t, NEW u
  PROVE  /\ \A r : addToPoolAccepts(r, Append(p, t), u) => addToPoolAccepts(r, p, u)
         /\ t.transIns # {} => ~addToPoolAccepts(t, Append(p, t), u)
<1>1. PICK q : q = Append(p, t)
  OBVIOUS
<1>2. /\ DOMAIN p = 1..Len(p) /\ Len(p) \in Nat /\ DOMAIN q = 1..(Len(p) + 1)
      /\ \A i \in 1..Len(p) : q[i] = p[i]
      /\ q[Len(p) + 1] = t
  BY <1>1, IsSeqAppend, IsSeqShape
<1>3. DOMAIN p \subseteq DOMAIN q /\ Len(p) + 1 \in DOMAIN q
  BY <1>2
<1>4. ConsumedBy(p) \subseteq ConsumedBy(q)
  BY <1>2, <1>3 DEF ConsumedBy
<1>5. t.transIns \subseteq ConsumedBy(q)
  BY <1>2, <1>3 DEF ConsumedBy
<1>6. \A r : addToPoolAccepts(r, q, u) => addToPoolAccepts(r, p, u)
  BY <1>4 DEF addToPoolAccepts, isValidTransForPool
<1>7. t.transIns # {} => ~addToPoolAccepts(t, q, u)
  BY <1>5 DEF addToPoolAccepts, isValidTransForPool
<1> QED BY <1>1, <1>6, <1>7

\* A node that comes to hold a chain asks its peers for their pools.
LEMMA TakesShares ==
  ASSUME NetworkInv, ChainsInv, Connections, NEW n \in Nodes, NEW c, NEW l, AreQueues(l),
         Takes(n, c, l)
  PROVE  Offers(n) /\ Requests(n) /\ \A k \in Nodes : k # n => node'[k] = node[k]
<1>1. PICK s : /\ Becomes(n, s) /\ s.pool = updatePool(node[n].pool, s.utxo)
               /\ link' = broadcast(l, n, News(c))
  BY DEF Takes
<1>2. node'[n] = s /\ \A k \in Nodes : k # n => node'[k] = node[k]
  BY <1>1 DEF Becomes
<1>3. ToSet(node'[n].pool) \subseteq ToSet(node[n].pool)
  BY <1>1, <1>2, ChainsFacts, PoolShrinks
<1>4. PICK ms : ms = News(c) /\ IsSeq(ms) /\ QueryPool \in ToSet(ms)
  <2>1. /\ IsSeq(News(c)) /\ ToSet(News(c)) = {ResponseLatest(getLatestBlock(c)), QueryPool}
    BY QueueShort DEF News
  <2> QED BY <2>1
<1>5. \A p \in Pairs : p[1] = n /\ p \in joined => ToSet(ms) \subseteq ToSet(link'[p])
  BY <1>1, <1>4, SentToAll
<1>6. ASSUME NEW m \in Nodes, <<n, m>> \in joined PROVE QueryPool \in OnWay(n, m)'
  <2>1. ToSet(ms) \subseteq ToSet(link'[<<n, m>>])
    BY <1>5, <1>6 DEF Connections
  <2> QED BY <1>4, <2>1 DEF OnWay
<1> QED BY <1>2, <1>3, <1>6 DEF Offers, Requests

\* A node that adds to its pool sends its peers all of it.
LEMMA AddsShares ==
  ASSUME NetworkInv, ChainsInv, Connections, NEW n \in Nodes, NEW t, NEW l, AreQueues(l),
         Adds(n, t, l)
  PROVE  /\ Offers(n) /\ Requests(n) /\ \A k \in Nodes : k # n => node'[k] = node[k]
         /\ t.transIns # {} => ~addToPoolAccepts(t, node'[n].pool, node'[n].utxo)
<1>1. PICK s : /\ Becomes(n, s) /\ s.chain = node[n].chain /\ s.utxo = node[n].utxo
               /\ s.pool = Append(node[n].pool, t)
               /\ link' = broadcast(l, n, responsePoolMsgs(s.pool))
  BY DEF Adds
<1>2. node'[n] = s /\ \A k \in Nodes : k # n => node'[k] = node[k]
  BY <1>1 DEF Becomes
<1>3. IsSeq(node[n].pool) /\ IsSeq(s.pool)
  BY <1>1, ChainsFacts, IsSeqAppend
<1>4. PICK ms : /\ ms = responsePoolMsgs(s.pool) /\ IsSeq(ms)
                /\ ToSet(ms) = {ResponsePool(r) : r \in ToSet(s.pool)}
  BY <1>3, QueuePool
<1>5. \A p \in Pairs : p[1] = n /\ p \in joined => ToSet(ms) \subseteq ToSet(link'[p])
  BY <1>1, <1>4, SentToAll
<1>6. ASSUME NEW m \in Nodes, <<n, m>> \in joined, NEW r \in ToSet(s.pool)
      PROVE  ResponsePool(r) \in OnWay(n, m)'
  <2>1. ToSet(ms) \subseteq ToSet(link'[<<n, m>>])
    BY <1>5, <1>6 DEF Connections
  <2> QED BY <1>4, <2>1 DEF OnWay
<1>7. Offers(n)
  BY <1>2, <1>6 DEF Offers
<1>8. /\ \A r : addToPoolAccepts(r, s.pool, s.utxo)
                  => addToPoolAccepts(r, node[n].pool, node[n].utxo)
      /\ t.transIns # {} => ~addToPoolAccepts(t, s.pool, s.utxo)
  <2>1. PICK p, u : p = node[n].pool /\ u = node[n].utxo /\ IsSeq(p)
    BY <1>3
  <2>2. /\ \A r : addToPoolAccepts(r, Append(p, t), u) => addToPoolAccepts(r, p, u)
        /\ t.transIns # {} => ~addToPoolAccepts(t, Append(p, t), u)
    BY <2>1, PoolRefuses
  <2> QED BY <1>1, <2>1, <2>2
<1> QED BY <1>1, <1>2, <1>7, <1>8 DEF Requests

\* A node that mined a block is caught up no more.
LEMMA MinesShares ==
  ASSUME NetworkInv, ChainsInv, NEW n \in Nodes, NEW b, Own(n, b), NEW c,
         getLatestBlock(c) = b, Mines(n, c)
  PROVE  Offers(n) /\ Requests(n) /\ \A k \in Nodes : k # n => node'[k] = node[k]
<1>1. PICK s : Becomes(n, s) /\ s.chain = c /\ s.pool = updatePool(node[n].pool, s.utxo)
  BY DEF Mines
<1>2. node'[n] = s /\ \A k \in Nodes : k # n => node'[k] = node[k]
  BY <1>1 DEF Becomes
<1>3. ToSet(node'[n].pool) \subseteq ToSet(node[n].pool)
  BY <1>1, <1>2, ChainsFacts, PoolShrinks
<1>4. ~CaughtUp(n)'
  <2>1. getLatestBlock(node'[n].chain) = b
    BY <1>1, <1>2
  <2>2. b.index # 0 /\ b.data[1].transOuts[1].address = n
    BY DEF Own
  <2> QED BY <2>1, <2>2 DEF CaughtUp, getLatestBlock
<1> QED BY <1>2, <1>3, <1>4 DEF Offers, Requests

\* A node of which neither changes.
LEMMA StaysShares ==
  ASSUME NEW n \in Nodes, \A k \in Nodes : k # n => node'[k] = node[k],
         node'[n].chain = node[n].chain, node'[n].utxo = node[n].utxo,
         node'[n].pool = node[n].pool
  PROVE  Offers(n) /\ Requests(n)
  BY DEF Offers, Requests

\* The handling of a message leaves the peers with the same transactions.
LEMMA SharesReceive ==
  ASSUME NetworkInv, ChainsInv, Connections, Sharing,
         NEW n \in Nodes, NEW m \in Nodes, <<m, n>> \in Pairs, Receive(n, m)
  PROVE  Sharing'
<1>0. PICK x, l : x = First(<<m, n>>) /\ l = Rest(<<m, n>>)
  OBVIOUS
<1>1. /\ joined' = joined /\ sentTransactions' = sentTransactions
      /\ <<n, m>> \in joined /\ link[<<m, n>>] # <<>>
      /\ <<n, m>> \in Pairs /\ IsSeq(node[n].pool)
  BY <1>0, ReceiveCases, ChainsFacts, PairsOf
<1>2. Leaves(<<m, n>>, x) /\ AreQueues(l)
  BY <1>0, <1>1, ConnectionsReceive, TakenLeaves
<1>3. ASSUME \A k \in Nodes : k # n => node'[k] = node[k], Offers(n), Requests(n),
             x = QueryPool => \A t \in ToSet(node'[n].pool) : ResponsePool(t) \in OnWay(n, m)',
             \A t : x = ResponsePool(t) => ~addToPoolAccepts(t, node'[n].pool, node'[n].utxo)
      PROVE  Sharing'
  <2>1. \A i, k \in Nodes : Shares(i, k)'
    BY <1>1, <1>2, <1>3, SharesKept
  <2> QED BY <1>1, <2>1 DEF Sharing
<1>4. ASSUME node' = node PROVE Offers(n) /\ Requests(n)
  BY <1>4, StaysShares
<1>5. /\ QueryPool.type = "QUERY_POOL"
      /\ \A t : ResponsePool(t).type = "RESPONSE_POOL" /\ ResponsePool(t).transaction = t
  BY DEF QueryPool, ResponsePool
<1>6. CASE x.type \in {"QUERY_LATEST_BLOCK", "QUERY_BLOCKCHAIN"} /\ node' = node
  <2>1. x # QueryPool /\ \A t : x # ResponsePool(t)
    BY <1>5, <1>6
  <2> QED BY <1>3, <1>4, <1>6, <2>1
<1>7. CASE /\ x.type = "QUERY_POOL" /\ node' = node
           /\ link' = answer(l, n, m, responsePoolMsgs(node[n].pool))
  <2>1. PICK ms : /\ ms = responsePoolMsgs(node[n].pool) /\ IsSeq(ms)
                  /\ ToSet(ms) = {ResponsePool(t) : t \in ToSet(node[n].pool)}
    BY <1>1, QueuePool
  <2>2. ToSet(ms) \subseteq ToSet(link'[<<n, m>>])
    BY <1>0, <1>1, <1>7, <2>1, AnswerLeaves
  <2>3. \A t \in ToSet(node[n].pool) : ResponsePool(t) \in OnWay(n, m)'
    BY <2>1, <2>2 DEF OnWay
  <2>4. \A t : x # ResponsePool(t)
    BY <1>5, <1>7
  <2> QED BY <1>3, <1>4, <1>7, <2>3, <2>4
<1>8. CASE /\ x.type \in {"RESPONSE_LATEST", "RESPONSE_BLOCKCHAIN"}
           /\ KnownBlocks(x.blocks, heldChains) /\ newBlocksHandler(n, x.blocks, l)
  <2>1. x # QueryPool /\ \A t : x # ResponsePool(t)
    BY <1>5, <1>8
  <2>2. PICK c \in heldChains : x.blocks = c \/ x.blocks = <<getLatestBlock(c)>>
    BY <1>8 DEF KnownBlocks
  <2>3. Takes(n, c, l) \/ node' = node
    BY <1>8, <2>2, BlocksOutcome
  <2>4. CASE Takes(n, c, l)
    <3>1. Offers(n) /\ Requests(n) /\ \A k \in Nodes : k # n => node'[k] = node[k]
      BY <1>2, <2>4, TakesShares
    <3> QED BY <1>3, <2>1, <3>1
  <2> QED BY <1>3, <1>4, <2>1, <2>3, <2>4
<1>9. CASE /\ x.type = "RESPONSE_POOL" /\ x.transaction \in sentTransactions
           /\ Adds(n, x.transaction, l)
  <2>1. x # QueryPool /\ \A t : x = ResponsePool(t) => t = x.transaction
    BY <1>5, <1>9
  <2>2. PICK r : r = x.transaction /\ r.transIns # {}
    BY <1>9 DEF Sharing
  <2>3. /\ Offers(n) /\ Requests(n) /\ \A k \in Nodes : k # n => node'[k] = node[k]
        /\ r.transIns # {} => ~addToPoolAccepts(r, node'[n].pool, node'[n].utxo)
    BY <1>2, <1>9, <2>2, AddsShares
  <2> QED BY <1>3, <2>1, <2>2, <2>3
<1>10. CASE /\ x.type = "RESPONSE_POOL" /\ node' = node
            /\ ~addToPoolAccepts(x.transaction, node[n].pool, node[n].utxo)
  <2>1. x # QueryPool /\ \A t : x = ResponsePool(t) => t = x.transaction
    BY <1>5, <1>10
  <2> QED BY <1>3, <1>4, <1>10, <2>1
<1> QED BY <1>0, <1>6, <1>7, <1>8, <1>9, <1>10, ReceiveCases

\* So do the requests of a user.
LEMMA SharesUser ==
  ASSUME NetworkInv, ChainsInv, Connections, Sharing, NEW n \in Nodes, UserStep(n)
  PROVE  Sharing'
<1>1. joined' = joined /\ NoLoss /\ AreQueues(link)
  BY UserOutcome, UserLoss DEF NetworkInv, LinkInv, KnownQueues, KnownQueue, AreQueues
<1>2. ASSUME \A k \in Nodes : k # n => node'[k] = node[k], Offers(n), Requests(n)
      PROVE  \A i, k \in Nodes : Shares(i, k)'
  BY <1>1, <1>2, SharesKept
<1>3. \A t \in sentTransactions' : t.transIns # {}
  BY UserOutcome DEF Sharing
<1>4. ASSUME NEW t, Adds(n, t, link) PROVE \A i, k \in Nodes : Shares(i, k)'
  <2>1. Offers(n) /\ Requests(n) /\ \A k \in Nodes : k # n => node'[k] = node[k]
    BY <1>1, <1>4, AddsShares
  <2> QED BY <1>2, <2>1
<1>5. ASSUME NEW b, NEW c, Own(n, b), getLatestBlock(c) = b, Mines(n, c)
      PROVE  \A i, k \in Nodes : Shares(i, k)'
  <2>1. Offers(n) /\ Requests(n) /\ \A k \in Nodes : k # n => node'[k] = node[k]
    BY <1>5, MinesShares
  <2> QED BY <1>2, <2>1
<1>6. ASSUME NEW j, Turns(n, j) PROVE \A i, k \in Nodes : Shares(i, k)'
  <2>1. /\ \A k \in Nodes : k # n => node'[k] = node[k]
        /\ node'[n].chain = node[n].chain /\ node'[n].utxo = node[n].utxo
        /\ node'[n].pool = node[n].pool
    BY <1>6 DEF Turns, Becomes
  <2> QED BY <1>2, <2>1, StaysShares
<1>7. \A i, k \in Nodes : Shares(i, k)'
  BY <1>4, <1>5, <1>6, UserOutcome
<1> QED BY <1>3, <1>7 DEF Sharing

\* A connection that a node takes up begins with a question for the pool.
LEMMA SharesConnect ==
  ASSUME NetworkInv, Connections, Sharing, UNCHANGED <<node, sentTransactions>>,
         NEW n \in Nodes, NEW m \in Nodes, connectToPeer(n, m)
  PROVE  Sharing'
<1>1. /\ joined' = joined \cup {<<n, m>>} /\ NoLoss
      /\ QueryPool \in OnWay(n, m)'
      /\ joined' \subseteq Pairs
  BY ConnectKeeps DEF Connections
<1>2. ASSUME NEW i \in Nodes, NEW k \in Nodes, <<k, i>> \in joined', CaughtUp(k)',
             NEW t \in ToSet(node[i].pool)
      PROVE  Shared(i, k, t)'
  <2>1. <<k, i>> \in Pairs /\ <<i, k>> \in Pairs /\ CaughtUp(k)
    BY <1>1, <1>2, PairsOf, CaughtUpKept
  <2>2. CASE <<k, i>> = <<n, m>>
    BY <1>1, <2>2 DEF Shared
  <2>3. CASE <<k, i>> \in joined
    <3>1. OnWay(i, k) \subseteq OnWay(i, k)' /\ OnWay(k, i) \subseteq OnWay(k, i)'
      BY <1>1, <2>1 DEF NoLoss, OnWay
    <3>2. Shared(i, k, t)
      BY <1>2, <2>1, <2>3 DEF Sharing, Shares
    <3> QED BY <3>1, <3>2 DEF Shared
  <2> QED BY <1>1, <1>2, <2>2, <2>3
<1>3. \A i, k \in Nodes : Shares(i, k)'
  BY <1>2 DEF Shares
<1> QED BY <1>3 DEF Sharing

\* Connections end, and a node that is in none may have changed.
LEMMA SharesDisconnect ==
  ASSUME Connections, Sharing, NEW pairs, Disconnect(pairs),
         \A n, m \in Nodes : <<n, m>> \in pairs => <<m, n>> \in pairs,
         sentTransactions' = sentTransactions,
         \A n, m \in Nodes : <<n, m>> \in joined' => node'[n] = node[n] /\ node'[m] = node[m]
  PROVE  Sharing'
<1>1. ASSUME NEW i \in Nodes, NEW k \in Nodes, <<k, i>> \in joined', CaughtUp(k)',
             NEW t \in ToSet(node'[i].pool)
      PROVE  Shared(i, k, t)'
  <2>1. /\ <<k, i>> \in joined
        /\ OnWay(i, k)' = OnWay(i, k) /\ OnWay(k, i)' = OnWay(k, i)
    BY <1>1, DisconnectKeeps
  <2>2. node'[i] = node[i] /\ node'[k] = node[k] /\ CaughtUp(k)
    BY <1>1, CaughtUpKept
  <2>3. Shared(i, k, t)
    BY <1>1, <2>1, <2>2 DEF Sharing, Shares
  <2> QED BY <2>1, <2>2, <2>3 DEF Shared
<1>2. \A i, k \in Nodes : Shares(i, k)'
  BY <1>1 DEF Shares
<1> QED BY <1>2 DEF Sharing

\* Nodes, queues and those who are connected stay.
LEMMA SharesSame ==
  ASSUME Sharing, UNCHANGED <<node, sentTransactions, joined, link>>
  PROVE  Sharing'
<1>1. \A n, m \in Nodes : OnWay(n, m)' = OnWay(n, m)
  BY DEF OnWay
<1>2. \A n, m \in Nodes : Shares(n, m)'
  BY <1>1, CaughtUpKept DEF Sharing, Shares, Shared
<1> QED BY <1>2 DEF Sharing

\* Every step of the network keeps the transactions shared.
LEMMA SharesNext ==
  ASSUME NetworkInv, ChainsInv, Connections, Sharing, [Next]_vars
  PROVE  Sharing'
<1>1. ASSUME NEW p \in Pairs, OpenConnection(p[1], p[2]) PROVE Sharing'
  BY <1>1, SharesSame DEF OpenConnection, history
<1>2. ASSUME NEW p \in Pairs, connectToPeer(p[1], p[2]) PROVE Sharing'
  <2>1. UNCHANGED <<node, sentTransactions>>
    BY <1>2 DEF connectToPeer, history
  <2> QED BY <1>2, <2>1, PairNodes, SharesConnect
<1>3. ASSUME NEW p \in Pairs, Break(p[1], p[2]) PROVE Sharing'
  <2>1. PICK n \in Nodes, m \in Nodes : p = <<n, m>> /\ n = p[1] /\ m = p[2]
    BY PairsOf
  <2>2. Disconnect({<<n, m>>, <<m, n>>}) /\ UNCHANGED <<node, sentTransactions>>
    BY <1>3, <2>1 DEF Break, history
  <2> QED BY <2>2, EndsBoth, SharesDisconnect
<1>4. ASSUME NEW p \in Pairs, Receive(p[1], p[2]) PROVE Sharing'
  <2>1. PICK n \in Nodes, m \in Nodes : p = <<n, m>> /\ <<m, n>> \in Pairs /\ n = p[1] /\ m = p[2]
    BY PairsOf
  <2> QED BY <1>4, <2>1, SharesReceive
<1>5. ASSUME NEW n \in Nodes, UserStep(n) PROVE Sharing'
  BY <1>5, SharesUser
<1>6. ASSUME NEW n \in Nodes, Restart(n) PROVE Sharing'
  <2>1. PICK ends : ends = {p \in Pairs : n \in {p[1], p[2]}} /\ Disconnect(ends)
    BY <1>6 DEF Restart
  <2>2. PICK s : Becomes(n, s)
    BY <1>6, ChainsRestart
  <2>3. ASSUME NEW i \in Nodes, NEW k \in Nodes, <<i, k>> \in joined'
        PROVE  node'[i] = node[i] /\ node'[k] = node[k]
    <3>1. <<i, k>> \in Pairs /\ <<i, k>> \notin ends
      BY <2>1, <2>3 DEF Disconnect, Connections
    <3>2. i # n /\ k # n
      BY <2>1, <3>1
    <3> QED BY <2>2, <3>2 DEF Becomes
  <2>4. sentTransactions' = sentTransactions
    BY <1>6 DEF Restart
  <2> QED BY <2>1, <2>3, <2>4, EndsBoth, SharesDisconnect
<1>7. ASSUME NEW n \in Nodes, Tick(n) PROVE Sharing'
  BY <1>7, SharesSame DEF Tick, history
<1>8. CASE UNCHANGED vars
  BY <1>8, SharesSame DEF vars, history
<1> QED BY <1>1, <1>2, <1>3, <1>4, <1>5, <1>6, <1>7, <1>8 DEF Next

\* When everything has been handled, nothing is left to be shared.
LEMMA SharingSettles ==
  ASSUME Connections, Sharing PROVE PeersShareTransactions
<1> SUFFICES ASSUME Settled, NEW p \in joined, CaughtUp(p[2]), NEW t \in ToSet(node[p[1]].pool)
    PROVE ~addToPoolAccepts(t, node[p[2]].pool, node[p[2]].utxo)
  BY DEF PeersShareTransactions
<1>1. PICK n \in Nodes, m \in Nodes : /\ p = <<n, m>> /\ n = p[1] /\ m = p[2]
                                      /\ <<n, m>> \in Pairs /\ <<m, n>> \in Pairs
  BY PairsOf DEF Connections
<1>2. <<m, n>> \in joined
  BY <1>1 DEF Connections, Settled
<1>3. OnWay(n, m) = {} /\ OnWay(m, n) = {}
  BY <1>1 DEF Settled, OnWay, ToSet
<1>4. Shared(n, m, t)
  BY <1>1, <1>2 DEF Sharing, Shares
<1> QED BY <1>1, <1>3, <1>4 DEF Shared

\* When everything has been handled, a node whose latest block came from a peer
\* would take no more transactions from the pools of its peers, whatever was lost,
\* crashed or refused before: newBlocksHandler and replaceChain ask for the pools
\* again after each change of the chain, addToTransactionPool passes on what it
\* takes, and every connection begins with the question.  It needs nothing of
\* clocks or of work.
THEOREM AlwaysPeersShareTransactions == Spec => []PeersShareTransactions
<1>1. Init => Sharing
  BY DEF Init, Sharing, Shares
<1>2. NetworkInv /\ ChainsInv /\ Connections /\ Sharing /\ [Next]_vars => Sharing'
  BY SharesNext
<1>3. Connections /\ Sharing => PeersShareTransactions
  BY SharingSettles
<1> QED BY <1>1, <1>2, <1>3, NetworkKeepsChains, PTL DEF Spec
=============================================================================
