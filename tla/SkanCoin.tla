------------------------------ MODULE SkanCoin ------------------------------
(***************************************************************************)
(* A network of SkanCoin nodes.  Each node keeps a chain, the unspent      *)
(* outputs, a transaction pool and the block its HTTP thread is mining.    *)
(* One action is one request of the user or one message of a peer, handled *)
(* to its end, except that mining takes time: the node goes on handling    *)
(* messages between createNextBlock and FinishMining, but no other request *)
(* (crow runs the requests of a node one after the other).                 *)
(*                                                                         *)
(* The answers of a peer can arrive late, more than once or never, in any  *)
(* order: sentChains and sentTransactions hold everything that has ever    *)
(* been the answer to a query or a broadcast, and a node may receive any   *)
(* of it at any time.  Queries change nothing and any peer may ask at any  *)
(* time, so they are not modelled one by one.                              *)
(***************************************************************************)
EXTENDS TransactionPool

CONSTANTS
  Nodes,          \* the wallets, one per node
  PoolPayments,   \* payments users may send through the pool
  BlockPayments,  \* payments users may mine directly into a block; each is a
                  \* sender and a list of outputs, of one output in the pool
  Crashing,       \* the nodes that may stop and start again
  MaxBlocks,      \* bound: no node mines on a chain of this length
  MaxChains,      \* bound: nor when the network has seen this many chains
  MaxPool,        \* bound: no user sends when the pool has this length
  MaxSkew,        \* bound on the clocks when the network starts
  MaxTime         \* bound on the clocks

ASSUME NodesAssumption ==
  /\ None \notin Nodes
  /\ Crashing \subseteq Nodes
  /\ \A p \in PoolPayments \cup BlockPayments :
       /\ p.sender \in Nodes
       /\ p.outs \in Seq([address : Nodes, amount : Nat \ {0}])
  /\ \A p \in PoolPayments : Len(p.outs) = 1
  /\ MaxBlocks \in Nat /\ MaxChains \in Nat /\ MaxPool \in Nat /\ MaxTime \in Nat
  /\ MaxSkew \in 0..MaxTime

VARIABLES
  chain,             \* BlockChain::blockchain of each node
  utxo,              \* BlockChain::unspentTransOuts of each node
  pool,              \* TransactionPool::unconfirmedTransactions of each node
  mining,            \* the candidate block of the HTTP thread, or None
  clock,             \* what time(nullptr) returns at each node
  sentChains,        \* every chain that some node has held
  sentTransactions   \* every transaction that some node has broadcast

vars == <<chain, utxo, pool, mining, clock, sentChains, sentTransactions>>

-----------------------------------------------------------------------------
(* Adding a block, replacing the chain *)

addBlockToBlockchainAccepts(n, b) ==
  /\ isBlockValid(b, getLatestBlock(chain[n]), clock[n])
  /\ areValidBlockTransactions(b.data, utxo[n], b.index)

\* Mutation: the node tells nobody of its new chain.
HoldChain_Silent(n, c, u) ==
  /\ chain' = [chain EXCEPT ![n] = c]
  /\ utxo' = [utxo EXCEPT ![n] = u]
  /\ pool' = [pool EXCEPT ![n] = updatePool(pool[n], u)]
  /\ UNCHANGED sentChains

\* Node n holds the chain c, whose unspent outputs are u.
HoldChain(n, c, u) ==
  /\ chain' = [chain EXCEPT ![n] = c]
  /\ utxo' = [utxo EXCEPT ![n] = u]
  /\ pool' = [pool EXCEPT ![n] = updatePool(pool[n], u)]
  /\ sentChains' = sentChains \cup {c}

addBlockToBlockchain(n, b) ==
  /\ addBlockToBlockchainAccepts(n, b)
  /\ HoldChain(n, Append(chain[n], b), updateUnspentTransOuts(b.data, utxo[n]))

replaceChainAccepts(n, c) ==
  /\ isBetterChain(c, chain[n])
  /\ isBlockchainValid(c, n, clock[n])

\* Mutation: setUnspentTransOuts is forgotten.
replaceChain_KeepsUtxo(n, c) ==
  /\ replaceChainAccepts(n, c)
  /\ HoldChain(n, c, utxo[n])

\* Mutation: any valid chain replaces the local one.
replaceChain_AnyValid(n, c) ==
  /\ isBlockchainValid(c, n, clock[n])
  /\ HoldChain(n, c, UtxoAfter(c)[Len(c)])

\* Mutation: any chain that is as long replaces the local one.
replaceChain_AsLong(n, c) ==
  /\ Len(c) >= Len(chain[n])
  /\ isBlockchainValid(c, n, clock[n])
  /\ HoldChain(n, c, UtxoAfter(c)[Len(c)])

replaceChain(n, c) ==
  /\ replaceChainAccepts(n, c)
  /\ HoldChain(n, c, UtxoAfter(c)[Len(c)])

\* What a list of received blocks does to the node.  A single block that
\* does not fit makes the node ask for whole chains, which changes nothing.
newBlocksHandler(n, blocks) ==
  LET received == getLatestBlock(blocks)
      held     == getLatestBlock(chain[n])
  IN  /\ calculateHash(received) # calculateHash(held)
      /\ IF Len(blocks) = 1 /\ received.index # 0
         THEN /\ calculateHash(held) = received.previousHash
              /\ addBlockToBlockchain(n, received)
         ELSE replaceChain(n, blocks)

-----------------------------------------------------------------------------
(* The requests of the user *)

\* POST /transactions
SendTransaction(n, out) ==
  /\ mining[n] = None
  /\ Len(pool[n]) < MaxPool
  /\ \E t \in createTransaction(out.address, out.amount, n, utxo[n], pool[n]) :
       /\ addToPoolAccepts(t, pool[n], utxo[n])
       /\ pool' = [pool EXCEPT ![n] = Append(@, t)]
       /\ sentTransactions' = sentTransactions \cup {t}
  /\ UNCHANGED <<chain, utxo, mining, clock, sentChains>>

\* Mutation: the coinbase carries the index of the latest block.
createRawNextBlock_OldCoinbase(n, transactions) ==
  LET previousBlock == getLatestBlock(chain[n])
  IN  Block(previousBlock.index + 1, calculateHash(previousBlock), clock[n],
            <<getCoinbaseTransaction(n, previousBlock.index)>> \o transactions,
            getDifficulty(chain[n]))

\* Mutation: the difficulty is never adjusted.
createRawNextBlock_OldDifficulty(n, transactions) ==
  LET previousBlock == getLatestBlock(chain[n])
  IN  Block(previousBlock.index + 1, calculateHash(previousBlock), clock[n],
            <<getCoinbaseTransaction(n, previousBlock.index + 1)>> \o transactions,
            previousBlock.difficulty)

\* createRawNextBlock up to the mining loop: index, previous hash, timestamp
\* and difficulty are read before it, and not again.
createRawNextBlock(n, transactions) ==
  LET previousBlock == getLatestBlock(chain[n])
      coinbaseTrans == getCoinbaseTransaction(n, previousBlock.index + 1)
  IN  Block(previousBlock.index + 1, calculateHash(previousBlock), clock[n],
            <<coinbaseTrans>> \o transactions, getDifficulty(chain[n]))

\* The bounds on mining.
MiningAllowed(n) ==
  Len(chain[n]) < MaxBlocks /\ Cardinality(sentChains) < MaxChains

\* POST /blocks/pool: at most the two oldest transactions of the pool.
createNextBlock(n) ==
  /\ mining[n] = None
  /\ MiningAllowed(n)
  /\ mining' = [mining EXCEPT ![n] = createRawNextBlock(n,
                  SubSeq(pool[n], 1, IF Len(pool[n]) < 2 THEN Len(pool[n]) ELSE 2))]
  /\ UNCHANGED <<chain, utxo, pool, clock, sentChains, sentTransactions>>

\* POST /blocks/transaction: one payment that does not pass through the pool.
createNextBlockWithTransaction(n, outs) ==
  /\ mining[n] = None
  /\ MiningAllowed(n)
  /\ \E t \in createTransactionWithMultipleOutputs(outs, n, utxo[n], pool[n]) :
       mining' = [mining EXCEPT ![n] = createRawNextBlock(n, <<t>>)]
  /\ UNCHANGED <<chain, utxo, pool, clock, sentChains, sentTransactions>>

\* What mineBlock looks for.
FittingDigests(b) == {zeros \in 0..HashBits : hashDifficultyCheck(zeros, b.difficulty)}

\* Mutation: a refused candidate is not given up.
FinishMining_UntilAccepted(n) ==
  /\ mining[n] # None
  /\ FittingDigests(mining[n]) # {}
  /\ addBlockToBlockchain(n, mining[n])
  /\ mining' = [mining EXCEPT ![n] = None]
  /\ UNCHANGED <<clock, sentTransactions>>

\* The mining loop ends, and the block is added and broadcast, or refused and
\* dropped.
FinishMining(n) ==
  /\ mining[n] # None
  /\ FittingDigests(mining[n]) # {}
  /\ mining' = [mining EXCEPT ![n] = None]
  /\ \/ addBlockToBlockchain(n, mining[n])
     \/ /\ ~addBlockToBlockchainAccepts(n, mining[n])
        /\ UNCHANGED <<chain, utxo, pool, sentChains>>
  /\ UNCHANGED <<clock, sentTransactions>>

-----------------------------------------------------------------------------
(* The messages of the peers *)

\* RESPONSE_LATEST
ReceiveLatest(n, c) ==
  /\ newBlocksHandler(n, <<getLatestBlock(c)>>)
  /\ UNCHANGED <<mining, clock, sentTransactions>>

\* RESPONSE_BLOCKCHAIN, once the last of its blocks has come
ReceiveBlockchain(n, c) ==
  /\ newBlocksHandler(n, c)
  /\ UNCHANGED <<mining, clock, sentTransactions>>

\* RESPONSE_POOL: a transaction that is accepted is broadcast in turn.
ReceivePool(n, t) ==
  /\ addToPoolAccepts(t, pool[n], utxo[n])
  /\ pool' = [pool EXCEPT ![n] = Append(@, t)]
  /\ UNCHANGED <<chain, utxo, mining, clock, sentChains, sentTransactions>>

-----------------------------------------------------------------------------
(* Time, crashes *)

Tick(n) ==
  /\ clock[n] < MaxTime
  /\ clock' = [clock EXCEPT ![n] = @ + 1]
  /\ UNCHANGED <<chain, utxo, pool, mining, sentChains, sentTransactions>>

InitialChain(n, time) == <<getGenesisBlock(n, time)>>

\* A crash and a new start: the wallet is on disk, the rest is lost.
Restart(n) ==
  /\ LET c == InitialChain(n, clock[n])
     IN  /\ chain' = [chain EXCEPT ![n] = c]
         /\ utxo' = [utxo EXCEPT ![n] = updateUnspentTransOuts(c[1].data, {})]
         /\ sentChains' = sentChains \cup {c}
  /\ pool' = [pool EXCEPT ![n] = <<>>]
  /\ mining' = [mining EXCEPT ![n] = None]
  /\ UNCHANGED <<clock, sentTransactions>>

-----------------------------------------------------------------------------
Init ==
  /\ clock \in [Nodes -> 0..MaxSkew]
  /\ chain = [n \in Nodes |-> InitialChain(n, clock[n])]
  /\ utxo = [n \in Nodes |-> updateUnspentTransOuts(chain[n][1].data, {})]
  /\ pool = [n \in Nodes |-> <<>>]
  /\ mining = [n \in Nodes |-> None]
  /\ sentChains = {chain[n] : n \in Nodes}
  /\ sentTransactions = {}

\* What the HTTP thread does.
UserStep(n) ==
  \/ \E p \in PoolPayments : p.sender = n /\ SendTransaction(n, p.outs[1])
  \/ createNextBlock(n)
  \/ \E p \in BlockPayments : /\ p.sender = n
                              /\ createNextBlockWithTransaction(n, p.outs)
  \/ FinishMining(n)

Next ==
  \E n \in Nodes :
    \/ UserStep(n)
    \/ \E c \in sentChains : ReceiveLatest(n, c)
    \/ \E c \in sentChains : ReceiveBlockchain(n, c)
    \/ \E t \in sentTransactions : ReceivePool(n, t)
    \/ Tick(n)
    \/ n \in Crashing /\ Restart(n)

Spec == Init /\ [][Next]_vars

\* The mining loop goes on until a digest fits, and sooner or later one does.
FairSpec == Spec /\ \A n \in Nodes : WF_vars(FinishMining(n))

-----------------------------------------------------------------------------
(* Properties *)

IsTransaction(t) ==
  /\ t.signer \in Nodes \cup {None}
  /\ t.transIns # {}
  /\ \A in \in t.transIns : in.transOutIndex \in Nat
  /\ IsSeq(t.transOuts)
  /\ \A k \in DOMAIN t.transOuts : t.transOuts[k].address \in Nodes

AreTransactions(ts) == IsSeq(ts) /\ \A i \in DOMAIN ts : IsTransaction(ts[i])

IsBlock(b) ==
  /\ b.index \in Nat /\ b.timestamp \in Nat /\ b.difficulty \in Int
  /\ AreTransactions(b.data) /\ b.data # <<>>

IsChain(c) ==
  /\ IsSeq(c) /\ c # <<>>
  /\ \A i \in DOMAIN c : IsBlock(c[i])

\* f is a function of the nodes.
IsMap(f) == f = [n \in Nodes |-> f[n]]

IsUtxoSet(us) == \A u \in us : u.transOutIndex \in Nat /\ u.address \in Nodes

\* Every variable has its type, and the chain a node holds is one the
\* network has seen.  Amounts are left to SupplyConserved.
TypeOK ==
  /\ chain \in [Nodes -> sentChains]
  /\ \A c \in sentChains : IsChain(c)
  /\ IsMap(utxo) /\ \A n \in Nodes : IsUtxoSet(utxo[n])
  /\ IsMap(pool) /\ \A n \in Nodes : AreTransactions(pool[n])
  /\ IsMap(mining) /\ \A n \in Nodes : mining[n] # None => IsBlock(mining[n])
  /\ clock \in [Nodes -> Nat]
  /\ \A t \in sentTransactions : IsTransaction(t)

\* Whatever a node mined and received meanwhile, each block of a chain it
\* holds at any time points at the one before it (a candidate whose ground
\* was replaced while it was mined is never appended).
ChainLinked == \A c \in sentChains : Linked(c)

\* The incrementally kept list of unspent outputs is exactly what the chain
\* created and has not consumed, after any appends, replacements, restarts.
UtxoIsUnspent ==
  \A n \in Nodes :
    LET c        == chain[n]
        created  == UNION {CreatedBy(c[i].data) : i \in DOMAIN c}
        consumed == UNION {ConsumedBy(c[i].data) : i \in DOMAIN c}
    IN  utxo[n] = {u \in created : getInputFromUnspentTransOut(u) \notin consumed}

\* Payments neither create nor destroy coins: the unspent outputs are worth
\* one coinbase per block of the chain.
SupplyConserved ==
  \A n \in Nodes :
    getTotalFromOutputVector(utxo[n]) = COINBASE_AMOUNT * Len(chain[n])

\* The pool never blocks the miner: a coinbase and the whole pool would
\* always make valid block data, though updatePool checks only that inputs
\* exist and createNextBlock checks nothing.
PoolMinable ==
  \A n \in Nodes :
    LET blockIndex == getLatestBlock(chain[n]).index + 1
    IN  areValidBlockTransactions(
          <<getCoinbaseTransaction(n, blockIndex)>> \o pool[n], utxo[n], blockIndex)

\* The work of the mining loop is lost only when the chain has moved: while
\* the block a node mines on is still its latest, addBlockToBlockchain will
\* accept the candidate, however the clocks differ.
MinedBlockAccepted ==
  \A n \in Nodes :
    /\ mining[n] # None
    /\ mining[n].previousHash = calculateHash(getLatestBlock(chain[n]))
    => addBlockToBlockchainAccepts(n, mining[n])

\* No node checks the difficulty of a block it receives, yet every chain of
\* the network carries the difficulties that getDifficulty prescribes.
DifficultyAsScheduled ==
  \A c \in sentChains : \A i \in 2..Len(c) :
    c[i].difficulty = getDifficulty(SubSeq(c, 1, i - 1))

\* newBlocksHandler ignores whatever ends in the block it holds; that loses
\* nothing, since nodes with the same latest block agree on everything.
SameTipSameState ==
  \A m, n \in Nodes :
    calculateHash(getLatestBlock(chain[m])) = calculateHash(getLatestBlock(chain[n]))
      => chain[m] = chain[n] /\ utxo[m] = utxo[n]

\* What createTransaction builds from the unspent outputs and the pool is fit for
\* that pool, whatever was sent, received, mined and replaced before: a handler that
\* is one step does not reach sendTransaction's second exception (Blockchain.cpp:413).
\* A thread does, whose copies age (NodeThreads!CheckForPool), and so do amounts that
\* a float does not hold.
CreatedTransactionAccepted ==
  \A p \in PoolPayments :
    LET n == p.sender
    IN  \A t \in createTransactionWithMultipleOutputs(p.outs, n, utxo[n], pool[n]) :
          addToPoolAccepts(t, pool[n], utxo[n])

\* mineBlock generates blocks until one fits the difficulty: whatever comes in
\* meanwhile, a request to mine ends, and the HTTP thread is free again.
MiningEnds == \A n \in Nodes : mining[n] # None ~> mining[n] = None

\* A running node never goes back: a new chain has more work than the one it
\* replaces, or the same work and an earlier end, so it visits none twice.  Only
\* when the work of one of them is too much for an int (Blockchain.cpp:480), the
\* node may give the better chain up.
ChainOnlyImproves ==
  [][\A n \in Nodes :
       chain'[n] # chain[n]
         => \/ Work(chain'[n]) > Work(chain[n])
            \/ /\ Work(chain'[n]) = Work(chain[n])
               /\ getLatestBlock(chain'[n]).timestamp < getLatestBlock(chain[n]).timestamp
            \/ Work(chain'[n]) > MAX_INT \/ Work(chain[n]) > MAX_INT
            \/ n \in Crashing /\ chain'[n] = InitialChain(n, clock[n])]_vars
=============================================================================
