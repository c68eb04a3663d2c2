----------------------------- MODULE NodeThreads -----------------------------
(***************************************************************************)
(* The threads of one node.  SkanCoin takes every handler as one step;     *)
(* here each access of a thread to the chain, the unspent outputs, the     *)
(* pool or the statistics of the pool is a step of its own.                *)
(*                                                                         *)
(* A peer thread (the server of incoming sockets, the client that polls    *)
(* the outgoing ones) holds connectionsMtx while it handles a message.     *)
(* The HTTP thread takes the mutex only to send, and reads and writes the  *)
(* shared lists without it.  One operation on one list is one step: that   *)
(* two of them at the same time are a data race, whose outcome C++ leaves  *)
(* undefined, is not modelled.                                             *)
(*                                                                         *)
(* The peers are honest nodes: they hold valid chains, extend them, pay,   *)
(* and take up whatever valid chain this node sends.                       *)
(***************************************************************************)
EXTENDS TransactionPool, SequencesExt

CONSTANTS
  Self, Peer,        \* the wallet of this node, and that of its peers
  http,              \* the thread of the HTTP server
  PeerThreads,       \* the threads that handle messages
  PollingThreads,    \* those of them that poll the outgoing sockets
  Payments,          \* payments that may be sent through a pool: a sender and
                     \* a list of outputs, of one output
  BlockPayments,     \* payments this node may mine directly into a block
  MinesPool,         \* whether users ask this node to mine its pool
  FilesFail,         \* whether the file of the waiting times may fail to open
  Now,               \* the time
  MaxBlocks,         \* bound: no chain grows beyond this length
  MaxPool,           \* bound: users send only when the pool is shorter, peers
                     \* pay only when fewer transactions have been sent
  MaxPeerChains      \* bound: the peers mine no more chains than this

Threads == PeerThreads \cup {http}

ASSUME ThreadsAssumption ==
  /\ Self # Peer /\ http \notin PeerThreads /\ None \notin Threads
  /\ None # "mine pool"
  /\ PollingThreads \subseteq PeerThreads
  /\ \A p \in Payments \cup BlockPayments :
       /\ p.sender \in {Self, Peer}
       /\ p.outs \in Seq([address : {Self, Peer}, amount : Nat \ {0}])
  /\ \A p \in Payments : Len(p.outs) = 1
  /\ MinesPool \in BOOLEAN /\ FilesFail \in BOOLEAN
  /\ Now \in Nat /\ MaxBlocks \in Nat /\ MaxPool \in Nat /\ MaxPeerChains \in Nat

VARIABLES
  chain,             \* BlockChain::blockchain
  utxo,              \* BlockChain::unspentTransOuts
  pool,              \* TransactionPool::unconfirmedTransactions
  stats,             \* TransactionPool::stats, the ids in it
  mutex,             \* the holder of connectionsMtx, or None
  pc,                \* where each thread is
  own,               \* the local variables of each thread
  reply,             \* the last answer of the HTTP server
  peerChains,        \* the chains that peers hold or have held
  sentTransactions,  \* the transactions that this node or a peer has sent
  overlapped         \* history, which no guard reads: what the HTTP thread and a
                     \* peer thread have been changing at one time

shared == <<chain, utxo, pool, stats>>
world  == <<peerChains, sentTransactions, overlapped>>
vars   == <<shared, mutex, pc, own, reply, world>>

\* The local variables of a thread that does nothing.
Nothing == [request |-> None, utxo |-> None, pool |-> None, transaction |-> None,
            data |-> None, block |-> None, chain |-> None, stats |-> FALSE]

Goto(t, label) == pc' = [pc EXCEPT ![t] = label]

\* Thread t goes on at label and keeps its local variables.
Continue(t, label) == Goto(t, label) /\ UNCHANGED own

\* Where a thread is in the middle of a change, of the chain and what belongs to
\* it or of the pool.
Changing == [chain |-> {"process transactions", "push block", "set utxo", "set chain"},
             pool  |-> {"push transaction"}]

\* Thread t has found that a change fits, and begins it.
BeginsChange(t, what) ==
  overlapped' = overlapped \cup
    {w \in {what} : \E s \in Threads \ {t} : http \in {s, t} /\ pc[s] \in Changing[w]}

-----------------------------------------------------------------------------
(* connectionsMtx *)

\* Mutation: the mutex is not waited for.
Lock_Unguarded(t, from, to) ==
  /\ pc[t] = from
  /\ mutex' = t
  /\ Continue(t, to)
  /\ UNCHANGED <<shared, reply, world>>

Lock(t, from, to) ==
  /\ pc[t] = from
  /\ mutex = None
  /\ mutex' = t
  /\ Continue(t, to)
  /\ UNCHANGED <<shared, reply, world>>

\* Where a call that both kinds of threads make goes on: the HTTP thread waits
\* for the mutex before it sends the news, a peer thread has it already.
ToSend(t, wait, send) == IF t = http THEN wait ELSE send

\* The end of a request, or of a message, which gives the mutex back.
Finish(t, answer) ==
  /\ Goto(t, "idle")
  /\ own' = [own EXCEPT ![t] = Nothing]
  /\ reply' = IF t = http THEN answer ELSE reply
  /\ mutex' = IF mutex = t THEN None ELSE mutex

-----------------------------------------------------------------------------
(* TransactionPool::addToPool, called with a copy of the unspent outputs *)

CheckForPool(t) ==
  /\ pc[t] = "addToPool"
  /\ IF addToPoolAccepts(own[t].transaction, pool, own[t].utxo)
     THEN Continue(t, "push transaction") /\ BeginsChange(t, "pool")
          /\ UNCHANGED <<reply, mutex>>
     ELSE Finish(t, "error") /\ UNCHANGED overlapped
  /\ UNCHANGED <<shared, peerChains, sentTransactions>>

PushTransaction(t) ==
  /\ pc[t] = "push transaction"
  /\ pool' = Append(pool, own[t].transaction)
  /\ Continue(t, "push stat")
  /\ UNCHANGED <<chain, utxo, stats, mutex, reply, world>>

PushStat(t) ==
  /\ pc[t] = "push stat"
  /\ stats' = Append(stats, getTransactionId(own[t].transaction))
  /\ Continue(t, ToSend(t, "wait to send pool", "send pool"))
  /\ UNCHANGED <<chain, utxo, pool, mutex, reply, world>>

\* broadCastPool sends each transaction of the pool.
BroadcastPool(t) ==
  /\ pc[t] = "send pool"
  /\ sentTransactions' = sentTransactions \cup {pool[i] : i \in DOMAIN pool}
  /\ Finish(t, "ok")
  /\ UNCHANGED <<shared, peerChains, overlapped>>

-----------------------------------------------------------------------------
(* TransactionPool::updatePool, called with a copy of the unspent outputs.  Its *)
(* iterator stays with its transaction, in own[t].transaction, whatever others  *)
(* push or erase elsewhere in the list.  Of equal transactions, which only an   *)
(* overlap puts into the pool, it may be at any.                                *)

CopyForUpdate(t) ==
  /\ pc[t] = "read utxo for updatePool"
  /\ own' = [own EXCEPT ![t].utxo = utxo]
  /\ Goto(t, "begin updatePool")
  /\ UNCHANGED <<shared, mutex, reply, world>>

\* The iterator goes to position i of the list p.  Behind the last one the loop ends.
Visit(t, p, i) ==
  /\ own' = [own EXCEPT ![t].transaction = IF i \in DOMAIN p THEN p[i] ELSE None]
  /\ Goto(t, IF i \in DOMAIN p THEN "updatePool"
             ELSE ToSend(t, "wait to send block", "send block"))

\* Where the iterator is.
Visited(t) == {i \in DOMAIN pool : pool[i] = own[t].transaction}

BeginUpdate(t) ==
  /\ pc[t] = "begin updatePool"
  /\ Visit(t, pool, 1)
  /\ UNCHANGED <<shared, mutex, reply, world>>

\* Mutation: the time is deleted before the inputs are looked for.
CheckInputs_DeletesFirst(t) ==
  /\ pc[t] = "updatePool"
  /\ stats' = RemoveFirst(stats, getTransactionId(own[t].transaction))
  /\ \E i \in Visited(t) :
       \/ hasTransIns(own[t].transaction, own[t].utxo) /\ Visit(t, pool, i + 1)
       \/ /\ ~hasTransIns(own[t].transaction, own[t].utxo)
          /\ Continue(t, "erase transaction")
  /\ UNCHANGED <<chain, utxo, pool, mutex, reply, world>>

\* A transaction whose inputs are there stays.  Of any other the time is deleted,
\* and only then the transaction.
CheckInputs(t) ==
  /\ pc[t] = "updatePool"
  /\ \E i \in Visited(t) :
       \/ /\ hasTransIns(own[t].transaction, own[t].utxo)
          /\ Visit(t, pool, i + 1)
          /\ UNCHANGED stats
       \/ /\ ~hasTransIns(own[t].transaction, own[t].utxo)
          /\ stats' = RemoveFirst(stats, getTransactionId(own[t].transaction))
          /\ Continue(t, "erase transaction")
  /\ UNCHANGED <<chain, utxo, pool, mutex, reply, world>>

EraseTransaction(t) ==
  /\ pc[t] = "erase transaction"
  /\ \E i \in Visited(t) : pool' = RemoveAt(pool, i) /\ Visit(t, pool', i)
  /\ UNCHANGED <<chain, utxo, stats, mutex, reply, world>>

\* Another thread has erased the transaction under the iterator.  What follows is
\* undefined: the process ends, or the freed memory still leads somewhere into
\* the list.
IteratorLost(t) ==
  /\ pc[t] \in {"updatePool", "erase transaction"} /\ Visited(t) = {}
  /\ \/ pc' = [s \in Threads |-> "ended"] /\ UNCHANGED own
     \/ \E i \in 1..(Len(pool) + 1) : Visit(t, pool, i)
  /\ UNCHANGED <<shared, mutex, reply, world>>

-----------------------------------------------------------------------------
(* BlockChain::addBlockToBlockchain, of the block in own[t].block *)

ValidateBlock(t) ==
  /\ pc[t] = "addBlock"
  /\ IF isBlockValid(own[t].block, getLatestBlock(chain), Now)
     THEN Continue(t, "process transactions") /\ BeginsChange(t, "chain")
          /\ UNCHANGED <<reply, mutex>>
     ELSE Finish(t, "error") /\ UNCHANGED overlapped
  /\ UNCHANGED <<shared, peerChains, sentTransactions>>

\* Mutation: the coinbase may also be that of the height before.
ProcessTransactions_AnyCoinbase(t) ==
  LET b == own[t].block
  IN  /\ pc[t] = "process transactions"
      /\ IF \E i \in {b.index - 1, b.index} : areValidBlockTransactions(b.data, utxo, i)
         THEN /\ own' = [own EXCEPT ![t].utxo = updateUnspentTransOuts(b.data, utxo)]
              /\ Goto(t, "push block")
              /\ UNCHANGED <<reply, mutex>>
         ELSE Finish(t, "error")
      /\ UNCHANGED <<shared, world>>

\* processTransactions on a copy of the unspent outputs.
ProcessTransactions(t) ==
  LET b == own[t].block
  IN  /\ pc[t] = "process transactions"
      /\ IF areValidBlockTransactions(b.data, utxo, b.index)
         THEN /\ own' = [own EXCEPT ![t].utxo = updateUnspentTransOuts(b.data, utxo)]
              /\ Goto(t, "push block")
              /\ UNCHANGED <<reply, mutex>>
         ELSE Finish(t, "error")
      /\ UNCHANGED <<shared, world>>

PushBlock(t) ==
  /\ pc[t] = "push block"
  /\ chain' = Append(chain, own[t].block)
  /\ Continue(t, "set utxo")
  /\ UNCHANGED <<utxo, pool, stats, mutex, reply, world>>

SetUnspentTransOuts(t) ==
  /\ pc[t] = "set utxo"
  /\ utxo' = own[t].utxo
  /\ Continue(t, "read utxo for updatePool")
  /\ UNCHANGED <<chain, pool, stats, mutex, reply, world>>

\* The chains that an honest peer takes up.
Acceptable(c) == {d \in {c} : isBlockchainValid(d, Peer, Now)}

\* Mutation: createNextBlock keeps the mutex for the waiting times.
BroadcastBlock_KeepsMutex(t) ==
  /\ pc[t] = "send block"
  /\ peerChains' = peerChains \cup Acceptable(chain)
  /\ IF own[t].request = "mine pool"
     THEN /\ Continue(t, IF own[t].stats THEN "wait to send stats" ELSE "write stats")
          /\ UNCHANGED <<mutex, reply>>
     ELSE Finish(t, "ok")
  /\ UNCHANGED <<shared, sentTransactions, overlapped>>

\* broadcastLatestBlock.  Peers take the block up or ask for the chain.  After
\* createNextBlock the waiting times remain to be sent and written.
BroadcastBlock(t) ==
  /\ pc[t] = "send block"
  /\ peerChains' = peerChains \cup Acceptable(chain)
  /\ IF own[t].request = "mine pool"
     THEN /\ mutex' = None
          /\ Continue(t, IF own[t].stats THEN "wait to send stats" ELSE "write stats")
          /\ UNCHANGED reply
     ELSE Finish(t, "ok")
  /\ UNCHANGED <<shared, sentTransactions, overlapped>>

-----------------------------------------------------------------------------
(* The requests of the user *)

StartRequest ==
  /\ pc[http] = "idle"
  /\ reply' = None
  /\ UNCHANGED <<shared, mutex, world>>

\* POST /transactions.  The two lists are copied as arguments of one call, in
\* an order that the compiler chooses.
StartSendTransaction(p) ==
  /\ Len(pool) < MaxPool
  /\ StartRequest
  /\ own' = [own EXCEPT ![http] = [Nothing EXCEPT !.request = "send", !.transaction = p]]
  /\ Goto(http, "read arguments")

\* POST /blocks/pool and /blocks/transaction: the coinbase is made first.
StartMining(request, p) ==
  /\ Len(chain) < MaxBlocks
  /\ StartRequest
  /\ own' = [own EXCEPT ![http] =
       [Nothing EXCEPT !.request = request, !.transaction = p,
          !.data = <<getCoinbaseTransaction(Self, getLatestBlock(chain).index + 1)>>]]
  /\ Goto(http, IF request = "mine pool" THEN "read pool" ELSE "read arguments")

ReadUtxo ==
  /\ pc[http] = "read arguments" /\ own[http].utxo = None
  /\ own' = [own EXCEPT ![http].utxo = utxo]
  /\ UNCHANGED <<shared, mutex, pc, reply, world>>

ReadPool ==
  /\ pc[http] = "read arguments" /\ own[http].pool = None
  /\ own' = [own EXCEPT ![http].pool = pool]
  /\ UNCHANGED <<shared, mutex, pc, reply, world>>

\* The transactions that may come out of the copies; none is an exception.
Created ==
  LET p == own[http].transaction
  IN  createTransactionWithMultipleOutputs(p.outs, Self, own[http].utxo, own[http].pool)

CreateTransaction ==
  /\ pc[http] = "read arguments" /\ own[http].utxo # None /\ own[http].pool # None
  /\ \/ Created = {} /\ Finish(http, "error")
     \/ /\ own[http].request = "send"
        /\ \E t \in Created :
             own' = [own EXCEPT ![http] =
                       [Nothing EXCEPT !.request = "send", !.transaction = t]]
        /\ Goto(http, "read utxo for addToPool")
        /\ UNCHANGED <<mutex, reply>>
     \/ /\ own[http].request = "mine payment"
        /\ \E t \in Created :
             own' = [own EXCEPT ![http] = [Nothing EXCEPT !.request = "mine payment",
                                             !.data = Append(own[http].data, t)]]
        /\ Goto(http, "createRawNextBlock")
        /\ UNCHANGED <<mutex, reply>>
  /\ UNCHANGED <<shared, world>>

\* The second copy of the unspent outputs in sendTransaction.
CopyForPool ==
  /\ pc[http] = "read utxo for addToPool"
  /\ own' = [own EXCEPT ![http].utxo = utxo]
  /\ Goto(http, "addToPool")
  /\ UNCHANGED <<shared, mutex, reply, world>>

\* createNextBlock copies the pool, of which it takes at most two transactions,
TakeFromPool ==
  LET taken == SubSeq(pool, 1, IF Len(pool) < 2 THEN Len(pool) ELSE 2)
  IN  /\ pc[http] = "read pool"
      /\ own' = [own EXCEPT ![http].pool = taken]
      /\ Goto(http, IF taken = <<>> THEN "createRawNextBlock" ELSE "read stats")
      /\ UNCHANGED <<shared, mutex, reply, world>>

\* and looks each of them up in the statistics, which may have lost it by then.
ReadStat ==
  LET x == Head(own[http].pool)
  IN  /\ pc[http] = "read stats"
      /\ own' = [own EXCEPT ![http].data = Append(@, x), ![http].pool = Tail(@),
                            ![http].stats = @ \/ \E k \in DOMAIN stats :
                                                   stats[k] = getTransactionId(x)]
      /\ Goto(http, IF Len(own[http].pool) = 1 THEN "createRawNextBlock" ELSE "read stats")
      /\ UNCHANGED <<shared, mutex, reply, world>>

\* createRawNextBlock copies the latest block and then the chain, for the
\* difficulty, which does not change in chains this short.
ReadLatestBlock ==
  LET previous == getLatestBlock(chain)
  IN  /\ pc[http] = "createRawNextBlock"
      /\ own' = [own EXCEPT ![http].data = None, ![http].block =
                   Block(previous.index + 1, calculateHash(previous), Now,
                         own[http].data, getDifficulty(chain))]
      /\ Goto(http, "mineBlock")
      /\ UNCHANGED <<shared, mutex, reply, world>>

\* The mining loop ends.
MineBlock ==
  /\ pc[http] = "mineBlock"
  /\ Continue(http, "addBlock")
  /\ UNCHANGED <<shared, mutex, reply, world>>

\* broadcastPoolStat, which changes nothing here.
BroadcastStats ==
  /\ pc[http] = "send stats"
  /\ mutex' = None
  /\ Continue(http, "write stats")
  /\ UNCHANGED <<shared, reply, world>>

\* transactionwaitingtime.txt; if it does not open, createNextBlock throws.
WriteStats ==
  /\ pc[http] = "write stats"
  /\ \/ Finish(http, "ok")
     \/ FilesFail /\ Finish(http, "error")
  /\ UNCHANGED <<shared, world>>

-----------------------------------------------------------------------------
(* The messages of the peers *)

\* A message has come (the client thread looks for one all the time).
Receive(t) == Lock(t, "idle", "handle")

\* The client thread finds no message on its sockets; a connection is opened or
\* closed; a message is ignored.
NoMessage(t) ==
  /\ pc[t] = "handle"
  /\ Finish(t, None)
  /\ UNCHANGED <<shared, world>>

\* RESPONSE_LATEST and RESPONSE_BLOCKCHAIN, up to what they change.
NewBlocksHandler(t, blocks) ==
  LET received == getLatestBlock(blocks)
      held     == getLatestBlock(chain)
      Store(label, field) == own' = [own EXCEPT ![t] = field] /\ Goto(t, label)
  IN  /\ pc[t] = "handle"
      /\ calculateHash(received) # calculateHash(held)
      /\ \/ /\ Len(blocks) = 1 /\ received.index # 0
            /\ calculateHash(held) = received.previousHash
            /\ Store("addBlock", [Nothing EXCEPT !.block = received])
         \/ /\ Len(blocks) # 1 \/ received.index = 0
            /\ Store("replaceChain", [Nothing EXCEPT !.chain = blocks])
      /\ UNCHANGED <<shared, mutex, reply, world>>

\* replaceChain compares and validates.  It reads the local chain four times;
\* that is one step here.
CompareChains(t) ==
  /\ pc[t] = "replaceChain"
  /\ IF isBetterChain(own[t].chain, chain) /\ isBlockchainValid(own[t].chain, Self, Now)
     THEN Continue(t, "set chain") /\ BeginsChange(t, "chain") /\ UNCHANGED <<mutex, reply>>
     ELSE Finish(t, None) /\ UNCHANGED overlapped
  /\ UNCHANGED <<shared, peerChains, sentTransactions>>

SetChain(t) ==
  /\ pc[t] = "set chain"
  /\ chain' = own[t].chain
  /\ own' = [own EXCEPT ![t].utxo = UtxoAfter(own[t].chain)[Len(own[t].chain)]]
  /\ Goto(t, "set utxo")
  /\ UNCHANGED <<utxo, pool, stats, mutex, reply, world>>

\* RESPONSE_POOL, of one transaction.
HandlePool(t, x) ==
  /\ pc[t] = "handle"
  /\ own' = [own EXCEPT ![t] = [Nothing EXCEPT !.transaction = x, !.utxo = utxo]]
  /\ Goto(t, "addToPool")
  /\ UNCHANGED <<shared, mutex, reply, world>>

\* QUERY_BLOCKCHAIN.
HandleQuery(t) ==
  /\ pc[t] = "handle"
  /\ peerChains' = peerChains \cup Acceptable(chain)
  /\ Finish(t, None)
  /\ UNCHANGED <<shared, sentTransactions, overlapped>>

\* What ends when an exception leaves a peer thread: of the server only the
\* worker, of the polling client the whole process.
EndedWith(t) == IF t \in PollingThreads THEN Threads ELSE {t}

\* POOL_STATS.  When the file does not open, what is thrown is a std::string,
\* which the catch of a const char* lets pass.
HandlePoolStats(t) ==
  /\ pc[t] = "handle"
  /\ \/ Finish(t, None)
     \/ /\ FilesFail
        /\ pc' = [s \in Threads |-> IF s \in EndedWith(t) THEN "ended" ELSE pc[s]]
        /\ UNCHANGED <<mutex, own, reply>>
  /\ UNCHANGED <<shared, world>>

-----------------------------------------------------------------------------
(* The peers *)

PeerBlock(c, data) ==
  Block(getLatestBlock(c).index + 1, calculateHash(getLatestBlock(c)), Now,
        <<getCoinbaseTransaction(Peer, getLatestBlock(c).index + 1)>> \o data,
        getDifficulty(c))

\* A peer mines on a chain, with at most one transaction.
PeerMines(c) ==
  /\ Len(c) < MaxBlocks /\ Cardinality(peerChains) < MaxPeerChains
  /\ \E data \in {<<>>} \cup {<<x>> : x \in sentTransactions} :
       /\ areValidBlockTransactions(PeerBlock(c, data).data, UtxoAfter(c)[Len(c)],
                                    Len(c))
       /\ peerChains' = peerChains \cup {Append(c, PeerBlock(c, data))}
  /\ UNCHANGED <<shared, mutex, pc, own, reply, sentTransactions, overlapped>>

\* A peer pays out of a chain.
PeerPays(c, p) ==
  /\ p.sender = Peer /\ Cardinality(sentTransactions) < MaxPool
  /\ \E x \in createTransactionWithMultipleOutputs(p.outs, Peer, UtxoAfter(c)[Len(c)], <<>>) :
       sentTransactions' = sentTransactions \cup {x}
  /\ UNCHANGED <<shared, mutex, pc, own, reply, peerChains, overlapped>>

-----------------------------------------------------------------------------
Init ==
  /\ chain = <<getGenesisBlock(Self, 1)>>
  /\ utxo = updateUnspentTransOuts(chain[1].data, {})
  /\ pool = <<>> /\ stats = <<>>
  /\ mutex = None
  /\ pc = [t \in Threads |-> "idle"]
  /\ own = [t \in Threads |-> Nothing]
  /\ reply = None
  /\ peerChains = {<<getGenesisBlock(Peer, 0)>>}
  /\ sentTransactions = {}
  /\ overlapped = {}

Request ==
  \/ \E p \in Payments : p.sender = Self /\ StartSendTransaction(p)
  \/ MinesPool /\ StartMining("mine pool", None)
  \/ \E p \in BlockPayments : StartMining("mine payment", p)

HttpLock ==
  \/ Lock(http, "wait to send pool", "send pool")
  \/ Lock(http, "wait to send block", "send block")
  \/ Lock(http, "wait to send stats", "send stats")

HttpStep ==
  \/ ReadUtxo \/ ReadPool \/ CreateTransaction \/ CopyForPool
  \/ TakeFromPool \/ ReadStat \/ ReadLatestBlock \/ MineBlock
  \/ HttpLock \/ BroadcastStats \/ WriteStats

\* What both kinds of threads call.
SharedStep(t) ==
  \/ CheckForPool(t) \/ PushTransaction(t) \/ PushStat(t) \/ BroadcastPool(t)
  \/ ValidateBlock(t) \/ ProcessTransactions(t) \/ PushBlock(t)
  \/ SetUnspentTransOuts(t) \/ CopyForUpdate(t) \/ BeginUpdate(t) \/ CheckInputs(t)
  \/ EraseTransaction(t) \/ IteratorLost(t) \/ BroadcastBlock(t)

Handle(t) ==
  \/ NoMessage(t) \/ HandleQuery(t) \/ HandlePoolStats(t)
  \/ \E c \in peerChains : \/ NewBlocksHandler(t, <<getLatestBlock(c)>>)
                           \/ NewBlocksHandler(t, c)
  \/ \E x \in sentTransactions : HandlePool(t, x)

PeerStep(t) ==
  \/ Handle(t) \/ CompareChains(t) \/ SetChain(t)

Peers ==
  \E c \in peerChains : PeerMines(c) \/ \E p \in Payments : PeerPays(c, p)

Next ==
  \/ Request \/ HttpStep \/ Peers
  \/ \E t \in PeerThreads : Receive(t) \/ PeerStep(t)
  \/ \E t \in Threads : SharedStep(t)

Spec == Init /\ [][Next]_vars

-----------------------------------------------------------------------------
(* Properties *)

\* The process has not ended.
Running == pc[http] # "ended"

\* No thread is between two steps of a change.
Quiet == Running /\ \A t \in Threads : pc[t] \in {"idle", "ended"}

\* The unspent outputs are those of the chain, when nobody is changing them: each
\* block updates them (comment of Blockchain.cpp:622-623).  It breaks when this
\* node mines: the block of the HTTP thread and that of a peer are both found to
\* fit the same tip, and one update of the unspent outputs is lost.
UtxoMatchesChain == Quiet => utxo = UtxoAfter(chain)[Len(chain)]

\* That is the only way: handlers of two peer threads and requests, interleaved
\* in any way, leave the unspent outputs those of the chain unless the HTTP
\* thread and a peer thread were changing them at one time.  The mutex, made for
\* the lists of sockets, also orders the changes of the chain that peers cause.
UtxoLostByOverlapOnly == "chain" \notin overlapped => UtxoMatchesChain

\* No input of a transaction that addToPool accepts is in another one of the pool
\* (comment of isValidTransForPool, TransactionPool.cpp:135-136), though the user's
\* is made from copies that age, and the chain, the pool and the unspent outputs
\* move meanwhile.  It breaks only when the HTTP thread and a peer thread have both
\* checked a transaction before either has pushed its own.
DoubleSpendByOverlapOnly == "pool" \notin overlapped => ~hasDuplicates(pool)

\* A transaction of the pool has its time of receipt, which createNextBlock looks
\* up without a lock (Blockchain.cpp:274-278), though any thread fills the two lists
\* one after the other and shortens them one after the other.  It is without one
\* only while a thread is between its two steps for that transaction: it has pushed
\* it and not yet its time, or has deleted the time and not yet erased it.  So no
\* time is lost for good to the races of updatePool.  It takes a pool without
\* double spends: of equal transactions two threads may delete both times and
\* erase one.
PoolHasStats ==
  Running /\ "pool" \notin overlapped => \A i \in DOMAIN pool :
    \/ getTransactionId(pool[i]) \in {stats[k] : k \in DOMAIN stats}
    \/ \E t \in Threads : /\ pc[t] \in {"push stat", "erase transaction"}
                          /\ own[t].transaction = pool[i]

\* The coinbase is made for the latest block that createNextBlock saw, the block
\* for the one that createRawNextBlock saw, and both may be gone when the block
\* is added: still no coinbase of another height gets into the chain.
CoinbasePerBlock ==
  \A i \in DOMAIN chain : isValidCoinbaseTransaction(chain[i].data[1], chain[i].index)

\* Whoever holds the mutex is on the way to give it back: it has not gone idle
\* with it, and does not wait for it a second time (a std::mutex is not
\* recursive), though one function sends for the HTTP thread, which takes the
\* mutex for that, and for a peer thread, which has it.  Then nobody waits for
\* ever.  What breaks it is left out here: POOL_STATS with a file that does not
\* open ends a peer thread that holds the mutex (Peer.cpp:260).
HolderGivesBack ==
  mutex # None => pc[mutex] \notin {"idle", "wait to send pool", "wait to send block",
                                    "wait to send stats"}
=============================================================================
