------------------------------ MODULE Network -------------------------------
(***************************************************************************)
(* Nodes that talk over connections.  SkanCoin lets a node receive at any  *)
(* time whatever was ever sent; here a message is sent by the handler that *)
(* sends it, to the peers the code sends it to, and taken from the front   *)
(* of a queue, as TCP delivers it, or lost with its connection.  So this   *)
(* module can ask whether enough is sent: whether nodes that have handled  *)
(* everything agree.  It implements SkanCoin (Implements below).           *)
(*                                                                         *)
(* A handler runs to its end (NodeThreads looks into that) and a chain is  *)
(* one message (ChainTransfer looks into that).  Two nodes have at most    *)
(* one connection; which of them opened it makes no difference, once it    *)
(* is in the lists of both.                                                *)
(***************************************************************************)
EXTENDS TransactionPool, SequencesExt

CONSTANTS
  Nodes, PoolPayments, BlockPayments, Crashing,         \* as in SkanCoin
  MaxBlocks, MaxChains, MaxPool, MaxSkew, MaxTime,      \* bounds, as there
  Breaking,        \* whether connections may break
  MaxConnections,  \* bound on the connections that users open
  MiningFrom       \* bound: nobody mines before all clocks show this time

ASSUME NetworkAssumption ==
  /\ MaxConnections \in Nat /\ MiningFrom \in Nat /\ Breaking \in BOOLEAN

VARIABLES
  node,        \* the chain, unspent outputs, pool and candidate of each node
  clock,       \* what time(nullptr) returns at each node
  pending,     \* <<n, m>>: n has yet to add its socket to m to its list
  joined,      \* <<n, m>>: n has its socket to m in its list
  link,        \* link[<<n, m>>]: what n has sent to m and m has not handled
  opened,      \* how many connections have been opened
  heldChains, sentTransactions   \* history, as in SkanCoin

history == <<heldChains, sentTransactions>>
vars    == <<node, clock, pending, joined, link, opened, history>>

Pairs == {p \in Nodes \X Nodes : p[1] # p[2]}

-----------------------------------------------------------------------------
(* Messages *)

QueryLatest(hash)     == [type |-> "QUERY_LATEST_BLOCK", hash |-> hash]
QueryBlockchain       == [type |-> "QUERY_BLOCKCHAIN"]
QueryPool             == [type |-> "QUERY_POOL"]
ResponseLatest(b)     == [type |-> "RESPONSE_LATEST", blocks |-> <<b>>]
ResponseBlockchain(c) == [type |-> "RESPONSE_BLOCKCHAIN", blocks |-> c]
ResponsePool(t)       == [type |-> "RESPONSE_POOL", transaction |-> t]

\* One message for each transaction of a pool.
responsePoolMsgs(p) == [i \in DOMAIN p |-> ResponsePool(p[i])]

\* The queues when n sends the messages to everyone in its lists, l being the
\* queues before.
broadcast(l, n, messages) ==
  [p \in Pairs |-> IF p[1] = n /\ p \in joined THEN l[p] \o messages ELSE l[p]]

\* The queues when n answers m.
answer(l, n, m, messages) == [l EXCEPT ![<<n, m>>] = @ \o messages]

\* Mutation: the pools of the peers are not asked for.
News_NoQueryPool(c) == <<ResponseLatest(getLatestBlock(c))>>

\* What newBlocksHandler and replaceChain broadcast of a new chain: its latest
\* block, and the question for transactions that were refused before.
News(c) == <<ResponseLatest(getLatestBlock(c)), QueryPool>>

-----------------------------------------------------------------------------
(* Connections *)

\* POST /peers: the socket is open; both threads have yet to take it up.
OpenConnection(n, m) ==
  /\ opened < MaxConnections
  /\ {<<n, m>>, <<m, n>>} \cap (pending \cup joined) = {}
  /\ opened' = opened + 1
  /\ pending' = pending \cup {<<n, m>>, <<m, n>>}
  /\ UNCHANGED <<node, clock, joined, link, history>>

\* connectToPeer of the client, onopen of the server: the two questions, and
\* from now on what is broadcast.
connectToPeer(n, m) ==
  /\ <<n, m>> \in pending
  /\ pending' = pending \ {<<n, m>>}
  /\ joined' = joined \cup {<<n, m>>}
  /\ link' = answer(link, n, m,
       <<QueryLatest(calculateHash(getLatestBlock(node[n].chain))), QueryPool>>)
  /\ UNCHANGED <<node, clock, opened, history>>

\* The connections in a set end, and what was under way on them is lost.
Disconnect(pairs) ==
  /\ pending' = pending \ pairs
  /\ joined' = joined \ pairs
  /\ link' = [p \in Pairs |-> IF p \in pairs THEN <<>> ELSE link[p]]

Break(n, m) ==
  /\ Breaking
  /\ <<n, m>> \in pending \cup joined
  /\ Disconnect({<<n, m>>, <<m, n>>})
  /\ UNCHANGED <<node, clock, opened, history>>

-----------------------------------------------------------------------------
(* Blocks *)

\* Mutation: the pool is not updated.
Holding_KeepsPool(state, c, u) == [state EXCEPT !.chain = c, !.utxo = u]

\* What a node is once it holds the chain c, whose unspent outputs are u.
Holding(state, c, u) ==
  [state EXCEPT !.chain = c, !.utxo = u, !.pool = updatePool(state.pool, u)]

addBlockToBlockchainAccepts(n, b) ==
  /\ isBlockValid(b, getLatestBlock(node[n].chain), clock[n])
  /\ areValidBlockTransactions(b.data, node[n].utxo, b.index)

\* Node n with the block b added to its chain.
addBlockToBlockchain(n, b) ==
  Holding(node[n], Append(node[n].chain, b), updateUnspentTransOuts(b.data, node[n].utxo))

\* Mutation: any other chain of as much work is taken.
replaceChainAccepts_AsGood(n, c) ==
  ~isBetterChain(node[n].chain, c) /\ isBlockchainValid(c, n, clock[n])

replaceChainAccepts(n, c) ==
  isBetterChain(c, node[n].chain) /\ isBlockchainValid(c, n, clock[n])

\* Mutation: a block that does not fit is dropped.
AskForChains_Never(n, l) == l

\* A block that does not fit makes the node ask all peers for their chains.
AskForChains(n, l) == broadcast(l, n, <<QueryBlockchain>>)

\* newBlocksHandler of received blocks, l being the queues without them.
newBlocksHandler(n, blocks, l) ==
  LET received == getLatestBlock(blocks)
      held     == getLatestBlock(node[n].chain)
      single   == Len(blocks) = 1 /\ received.index # 0
      same     == calculateHash(received) = calculateHash(held)
      fits     == calculateHash(held) = received.previousHash
      takes    == IF single THEN fits /\ addBlockToBlockchainAccepts(n, received)
                            ELSE replaceChainAccepts(n, blocks)
      new      == IF single THEN addBlockToBlockchain(n, received)
                  ELSE Holding(node[n], blocks, UtxoAfter(blocks)[Len(blocks)])
  IN  \/ /\ ~same /\ takes
         /\ node' = [node EXCEPT ![n] = new]
         /\ heldChains' = heldChains \cup {new.chain}
         /\ link' = broadcast(l, n, News(new.chain))
      \/ /\ ~same /\ ~takes
         /\ link' = IF single /\ ~fits THEN AskForChains(n, l) ELSE l
         /\ UNCHANGED <<node, heldChains>>
      \/ /\ same /\ link' = l
         /\ UNCHANGED <<node, heldChains>>

-----------------------------------------------------------------------------
(* The messages of the peers: n handles the first that m sent to it *)

\* The asker's latest block should be the one before the latest block here;
\* otherwise, also when both are the same, the whole chain is sent.
HandleQueryLatest(n, m, message, l) ==
  LET c == node[n].chain
  IN  /\ message.type = "QUERY_LATEST_BLOCK"
      /\ link' = answer(l, n, m,
           IF message.hash = getLatestBlock(c).previousHash
           THEN <<ResponseLatest(getLatestBlock(c))>> ELSE <<ResponseBlockchain(c)>>)
      /\ UNCHANGED <<node, heldChains>>

HandleQueryBlockchain(n, m, message, l) ==
  /\ message.type = "QUERY_BLOCKCHAIN"
  /\ link' = answer(l, n, m, <<ResponseBlockchain(node[n].chain)>>)
  /\ UNCHANGED <<node, heldChains>>

HandleQueryPool(n, m, message, l) ==
  /\ message.type = "QUERY_POOL"
  /\ link' = answer(l, n, m, responsePoolMsgs(node[n].pool))
  /\ UNCHANGED <<node, heldChains>>

HandleBlocks(n, message, l) ==
  /\ message.type \in {"RESPONSE_LATEST", "RESPONSE_BLOCKCHAIN"}
  /\ newBlocksHandler(n, message.blocks, l)

\* An accepted transaction makes the node broadcast its pool.
HandlePool(n, message, l) ==
  /\ message.type = "RESPONSE_POOL"
  /\ LET t == message.transaction
     IN  IF addToPoolAccepts(t, node[n].pool, node[n].utxo)
         THEN /\ node' = [node EXCEPT ![n].pool = Append(@, t)]
              /\ link' = broadcast(l, n, responsePoolMsgs(node'[n].pool))
         ELSE link' = l /\ UNCHANGED node
  /\ UNCHANGED heldChains

Receive(n, m) ==
  /\ <<n, m>> \in joined
  /\ link[<<m, n>>] # <<>>
  /\ LET message == Head(link[<<m, n>>])
         l       == [link EXCEPT ![<<m, n>>] = Tail(@)]
     IN  \/ HandleQueryLatest(n, m, message, l)
         \/ HandleQueryBlockchain(n, m, message, l)
         \/ HandleQueryPool(n, m, message, l)
         \/ HandleBlocks(n, message, l)
         \/ HandlePool(n, message, l)
  /\ UNCHANGED <<clock, pending, joined, opened, sentTransactions>>

-----------------------------------------------------------------------------
(* The requests of the user *)

SendTransaction(n, out) ==
  /\ node[n].mining = None
  /\ Len(node[n].pool) < MaxPool
  /\ \E t \in createTransaction(out.address, out.amount, n, node[n].utxo, node[n].pool) :
       /\ addToPoolAccepts(t, node[n].pool, node[n].utxo)
       /\ node' = [node EXCEPT ![n].pool = Append(@, t)]
       /\ sentTransactions' = sentTransactions \cup {t}
  /\ link' = broadcast(link, n, responsePoolMsgs(node'[n].pool))
  /\ UNCHANGED <<clock, pending, joined, opened, heldChains>>

\* createRawNextBlock up to the mining loop.
Candidate(n, transactions) ==
  LET previousBlock == getLatestBlock(node[n].chain)
  IN  Block(previousBlock.index + 1, calculateHash(previousBlock), clock[n],
            <<getCoinbaseTransaction(n, previousBlock.index + 1)>> \o transactions,
            getDifficulty(node[n].chain))

StartMining(n, transactions) ==
  /\ node[n].mining = None
  /\ Len(node[n].chain) < MaxBlocks /\ Cardinality(heldChains) < MaxChains
  /\ \A m \in Nodes : clock[m] >= MiningFrom
  /\ node' = [node EXCEPT ![n].mining = Candidate(n, transactions)]
  /\ UNCHANGED <<clock, pending, joined, link, opened, history>>

createNextBlock(n) ==
  LET p == node[n].pool
  IN  StartMining(n, SubSeq(p, 1, IF Len(p) < 2 THEN Len(p) ELSE 2))

createNextBlockWithTransaction(n, outs) ==
  \E t \in createTransactionWithMultipleOutputs(outs, n, node[n].utxo, node[n].pool) :
    StartMining(n, <<t>>)

\* What mineBlock looks for.
FittingDigests(b) == {zeros \in 0..HashBits : hashDifficultyCheck(zeros, b.difficulty)}

\* What createRawNextBlock broadcasts; the peers are not asked for their pools.
MinedNews(b) == <<ResponseLatest(b)>>

\* The mining loop ends, and the block is added and broadcast, or no longer
\* fits and is dropped.
FinishMining(n) ==
  LET b   == node[n].mining
      new == addBlockToBlockchain(n, b)
  IN  /\ b # None
      /\ FittingDigests(b) # {}
      /\ \/ /\ addBlockToBlockchainAccepts(n, b)
            /\ node' = [node EXCEPT ![n] = [new EXCEPT !.mining = None]]
            /\ heldChains' = heldChains \cup {new.chain}
            /\ link' = broadcast(link, n, MinedNews(b))
         \/ /\ ~addBlockToBlockchainAccepts(n, b)
            /\ node' = [node EXCEPT ![n].mining = None]
            /\ UNCHANGED <<link, heldChains>>
      /\ UNCHANGED <<clock, pending, joined, opened, sentTransactions>>

-----------------------------------------------------------------------------
(* Time, crashes *)

Tick(n) ==
  /\ clock[n] < MaxTime
  /\ clock' = [clock EXCEPT ![n] = @ + 1]
  /\ UNCHANGED <<node, pending, joined, link, opened, history>>

\* The state of a node when it starts at this time.
NewNode(n, time) ==
  LET c == <<getGenesisBlock(n, time)>>
  IN  [chain |-> c, utxo |-> updateUnspentTransOuts(c[1].data, {}),
       pool |-> <<>>, mining |-> None]

\* A crash, which closes the sockets, and a new start.
Restart(n) ==
  /\ node' = [node EXCEPT ![n] = NewNode(n, clock[n])]
  /\ heldChains' = heldChains \cup {node'[n].chain}
  /\ Disconnect({p \in Pairs : n \in {p[1], p[2]}})
  /\ UNCHANGED <<clock, opened, sentTransactions>>

-----------------------------------------------------------------------------
Init ==
  /\ clock \in [Nodes -> 0..MaxSkew]
  /\ node = [n \in Nodes |-> NewNode(n, clock[n])]
  /\ pending = {} /\ joined = {}
  /\ link = [p \in Pairs |-> <<>>]
  /\ opened = 0
  /\ heldChains = {node[n].chain : n \in Nodes}
  /\ sentTransactions = {}

UserStep(n) ==
  \/ \E p \in PoolPayments : p.sender = n /\ SendTransaction(n, p.outs[1])
  \/ createNextBlock(n)
  \/ \E p \in BlockPayments : /\ p.sender = n
                              /\ createNextBlockWithTransaction(n, p.outs)
  \/ FinishMining(n)

Next ==
  \/ \E n \in Nodes :
       \/ UserStep(n)
       \/ Tick(n)
       \/ n \in Crashing /\ Restart(n)
  \/ \E p \in Pairs :
       \/ OpenConnection(p[1], p[2])
       \/ connectToPeer(p[1], p[2])
       \/ Break(p[1], p[2])
       \/ Receive(p[1], p[2])

Spec == Init /\ [][Next]_vars

\* Mining ends, sockets are taken up, and messages are handled.
FairSpec ==
  /\ Spec
  /\ \A n \in Nodes : WF_vars(FinishMining(n))
  /\ \A p \in Pairs : WF_vars(connectToPeer(p[1], p[2])) /\ WF_vars(Receive(p[1], p[2]))

-----------------------------------------------------------------------------
(* Properties *)

\* Every connection is in the lists of both nodes and nothing is under way.
Settled == pending = {} /\ \A p \in Pairs : link[p] = <<>>

\* However forks, connections and messages came about, when all messages are
\* handled no node holds a chain that a peer of it would prefer (comment of
\* replaceChain, Blockchain.cpp:647-649): one announcement per change and one
\* question per connection are enough.  It takes clocks that agree, work that fits
\* an int, and that nobody builds on a first block within the second it was made:
\* a node that starts again in that second refuses the chain for the inverted test
\* of Blockchain.cpp:582.  An instance keeps that out by MiningFrom, which is no
\* guard of the code, and, since a node may also start twice in a later second, by
\* MaxBlocks = 2: it takes a chain of three blocks.
PeersHoldBestChain ==
  Settled => \A p \in joined : ~isBetterChain(node[p[1]].chain, node[p[2]].chain)

\* A node whose latest block came from a peer.
CaughtUp(n) ==
  LET last == getLatestBlock(node[n].chain)
  IN  last.index = 0 \/ last.data[1].transOuts[1].address # n

\* When everything has been handled, no node would still take a transaction that
\* a peer of it has in its pool: one it refused because its chain was behind is
\* asked for again (comment of newBlocksHandler, Peer.cpp:473-474).  Only a node
\* that caught up by a block of its own does not ask (Blockchain.cpp:243-246).
PeersShareTransactions ==
  Settled => \A p \in joined : CaughtUp(p[2]) =>
    \A t \in ToSet(node[p[1]].pool) :
      ~addToPoolAccepts(t, node[p[2]].pool, node[p[2]].utxo)

\* The answers that a message sets off come to an end: forks do not make nodes
\* ask one another for their chains for ever.
MessagesEnd == []<>Settled

\* What the rest of the project says of SkanCoin holds over queues as well.
Abstract == INSTANCE SkanCoin WITH
  chain <- [n \in Nodes |-> node[n].chain],
  utxo <- [n \in Nodes |-> node[n].utxo],
  pool <- [n \in Nodes |-> node[n].pool],
  mining <- [n \in Nodes |-> node[n].mining],
  sentChains <- heldChains

Implements == Abstract!Spec
=============================================================================
