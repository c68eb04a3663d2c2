------------------------- MODULE NodeThreadsProofs -------------------------
(***************************************************************************)
(* The safety properties of the threads of a node, for every number of     *)
(* peer threads and every length of the chain and the pool.                *)
(***************************************************************************)
EXTENDS NodeThreads, BlocksProofs

-----------------------------------------------------------------------------
(* Local variables and labels *)

\* The local variables of a thread.
IsLocal(l) ==
  l = [request |-> l.request, utxo |-> l.utxo, pool |-> l.pool,
       transaction |-> l.transaction, data |-> l.data, block |-> l.block,
       chain |-> l.chain, stats |-> l.stats]

\* Each thread has a place and local variables.
LocalInv ==
  /\ pc = [t \in Threads |-> pc[t]]
  /\ own = [t \in Threads |-> own[t]]
  /\ \A t \in Threads : IsLocal(own[t])

\* The HTTP thread is one of the threads, and not one of the peers.
LEMMA ThreadFacts ==
  /\ http \in Threads /\ http \notin PeerThreads /\ None \notin Threads
  /\ PeerThreads \subseteq Threads /\ \A t \in Threads : t = http \/ t \in PeerThreads
BY ThreadsAssumption DEF Threads

\* Local variables stay such when some of them are assigned.
LEMMA LocalAssign ==
  ASSUME NEW l, IsLocal(l), NEW v
  PROVE  /\ IsLocal([l EXCEPT !.utxo = v]) /\ IsLocal([l EXCEPT !.pool = v])
         /\ IsLocal([l EXCEPT !.transaction = v]) /\ IsLocal([l EXCEPT !.data = v])
         /\ IsLocal([l EXCEPT !.block = v]) /\ IsLocal([l EXCEPT !.chain = v])
         /\ IsLocal([l EXCEPT !.stats = v]) /\ IsLocal([l EXCEPT !.request = v])
BY DEF IsLocal

\* The record of a thread that has nothing to do is one of local variables.
LEMMA NothingIsLocal == IsLocal(Nothing)
BY DEF IsLocal, Nothing

\* The local variables at the start of a request or a message.
LEMMA NothingAssign ==
  ASSUME NEW v, NEW w
  PROVE  /\ IsLocal([Nothing EXCEPT !.request = v, !.transaction = w])
         /\ IsLocal([Nothing EXCEPT !.request = v, !.data = w])
         /\ IsLocal([Nothing EXCEPT !.block = v])
         /\ [Nothing EXCEPT !.block = v].request = None
         /\ [Nothing EXCEPT !.block = v].block = v
         /\ IsLocal([Nothing EXCEPT !.chain = v])
         /\ [Nothing EXCEPT !.chain = v].request = None
         /\ [Nothing EXCEPT !.chain = v].chain = v
<1>1. ASSUME NEW l, l = [Nothing EXCEPT !.request = v, !.transaction = w] PROVE IsLocal(l)
  BY <1>1 DEF IsLocal, Nothing
<1>2. ASSUME NEW l, l = [Nothing EXCEPT !.request = v, !.data = w] PROVE IsLocal(l)
  BY <1>2 DEF IsLocal, Nothing
<1>3. ASSUME NEW l, l = [Nothing EXCEPT !.block = v]
      PROVE  IsLocal(l) /\ l.request = None /\ l.block = v
  BY <1>3 DEF IsLocal, Nothing
<1>4. ASSUME NEW l, l = [Nothing EXCEPT !.chain = v]
      PROVE  IsLocal(l) /\ l.request = None /\ l.chain = v
  BY <1>4 DEF IsLocal, Nothing
<1> QED BY <1>1, <1>2, <1>3, <1>4

\* A copy of the unspent outputs changes no other local variable.
LEMMA LocalUtxo ==
  ASSUME NEW l, IsLocal(l), NEW u, NEW m, m = [l EXCEPT !.utxo = u]
  PROVE  /\ IsLocal(m) /\ m.utxo = u
         /\ m.request = l.request /\ m.transaction = l.transaction
         /\ m.block = l.block /\ m.chain = l.chain
<1>1. IsLocal(m)
  BY LocalAssign
<1> QED BY <1>1 DEF IsLocal

\* Only thread t takes a step: the others stay where they are.
Alone(t) ==
  /\ pc' = [pc EXCEPT ![t] = pc'[t]]
  /\ own' = [own EXCEPT ![t] = own'[t]] /\ IsLocal(own'[t])

\* A thread that goes on keeps its local variables.
LEMMA ContinueAlone ==
  ASSUME LocalInv, NEW t \in Threads, NEW b, Continue(t, b)
  PROVE  Alone(t) /\ pc'[t] = b /\ own'[t] = own[t]
BY DEF LocalInv, Continue, Goto, Alone

\* A thread that ends a request or a message loses them.
LEMMA FinishAlone ==
  ASSUME LocalInv, NEW t \in Threads, NEW a, Finish(t, a)
  PROVE  /\ Alone(t) /\ pc'[t] = "idle" /\ own'[t] = Nothing
         /\ mutex' = IF mutex = t THEN None ELSE mutex
BY DEF LocalInv, Finish, Goto, Alone, IsLocal, Nothing

\* A thread that goes on with other local variables.
LEMMA GotoAlone ==
  ASSUME LocalInv, NEW t \in Threads, NEW b, Goto(t, b),
         NEW l, IsLocal(l), own' = [own EXCEPT ![t] = l]
  PROVE  Alone(t) /\ pc'[t] = b /\ own'[t] = l
BY DEF LocalInv, Goto, Alone

\* What a step of one thread does to the others.
LEMMA AloneFacts ==
  ASSUME LocalInv, NEW t \in Threads, Alone(t)
  PROVE  /\ LocalInv'
         /\ \A s \in Threads \ {t} : pc'[s] = pc[s] /\ own'[s] = own[s]
BY DEF LocalInv, Alone

-----------------------------------------------------------------------------
(* The mutex *)

\* The steps of the HTTP thread with the mutex, and those that wait for it.
Sending == {"send pool", "send block", "send stats"}
Waiting == {"wait to send pool", "wait to send block", "wait to send stats"}

\* A peer thread holds the mutex while it handles a message, the HTTP thread
\* while it sends.  A peer thread that has ended may hold it for ever.
MutexInv ==
  /\ mutex \in Threads \cup {None}
  /\ \A t \in PeerThreads :
       /\ pc[t] \notin {"idle", "ended"} => mutex = t
       /\ mutex = t => pc[t] # "idle"
       /\ pc[t] \notin Waiting
       /\ own[t].request # "mine pool"
  /\ mutex = http => pc[http] \in Sending \cup {"ended"}
  /\ pc[http] \in Sending => mutex = http

\* A thread that goes on within its request or its message: the HTTP thread does
\* not come to send but by the mutex.
GoesOn(t) ==
  /\ Alone(t) /\ UNCHANGED mutex
  /\ pc[t] \notin Sending \cup {"ended"}
  /\ t = http => pc'[t] \notin Sending
  /\ t # http => /\ pc[t] # "idle" /\ pc'[t] \notin Waiting \cup {"idle", "ended"}
                 /\ own'[t].request # "mine pool"

\* A step within a request or a message leaves the mutex as it should be.
LEMMA MutexGoesOn ==
  ASSUME LocalInv, MutexInv, NEW t \in Threads, GoesOn(t)
  PROVE  MutexInv'
BY ThreadFacts, AloneFacts, ZenonT(40) DEF GoesOn, MutexInv

\* So does the end of one, which gives the mutex back,
LEMMA MutexFinish ==
  ASSUME LocalInv, MutexInv, NEW t \in Threads, NEW a, Finish(t, a)
  PROVE  MutexInv'
<1>1. /\ \A s \in Threads \ {t} : pc'[s] = pc[s] /\ own'[s] = own[s]
      /\ pc'[t] = "idle" /\ own'[t].request = None
      /\ mutex' = IF mutex = t THEN None ELSE mutex
  BY FinishAlone, AloneFacts DEF Nothing
<1> QED BY <1>1, ThreadFacts, ThreadsAssumption DEF MutexInv, Sending, Waiting

\* and the step that takes the mutex.
LEMMA MutexLock ==
  ASSUME LocalInv, MutexInv, NEW t \in Threads, NEW a, NEW b, Lock(t, a, b),
         IF t = http THEN a \notin Sending /\ b \in Sending ELSE b = "handle"
  PROVE  MutexInv'
<1>1. /\ \A s \in Threads \ {t} : pc'[s] = pc[s] /\ own'[s] = own[s]
      /\ pc'[t] = b /\ own'[t] = own[t] /\ mutex' = t /\ mutex = None
  BY ContinueAlone, AloneFacts DEF Lock
<1> QED BY <1>1, ThreadFacts DEF MutexInv, Sending, Waiting

\* The HTTP thread has sent the news, and gives the mutex back.
LEMMA MutexRelease ==
  ASSUME LocalInv, MutexInv, pc[http] \in Sending, Alone(http), mutex' = None,
         pc'[http] \notin Sending
  PROVE  MutexInv'
BY ThreadFacts, AloneFacts, ZenonT(40) DEF MutexInv

\* A step that only the lists of the node, or the peers, take part in.
LEMMA MutexStill ==
  ASSUME LocalInv, MutexInv, UNCHANGED <<pc, own, mutex>>
  PROVE  LocalInv' /\ MutexInv'
BY DEF LocalInv, MutexInv

\* Where a thread may go on from, and where to.
MayGoOn(t, a, b) ==
  /\ a \notin Sending \cup {"ended"}
  /\ IF t = http THEN b \notin Sending ELSE a # "idle" /\ b \notin Waiting \cup {"idle", "ended"}

\* It goes on with its local variables.
LEMMA ContinueGoesOn ==
  ASSUME LocalInv, MutexInv, NEW t \in Threads, NEW b, MayGoOn(t, pc[t], b),
         Continue(t, b), UNCHANGED mutex
  PROVE  GoesOn(t)
<1>1. Alone(t) /\ pc'[t] = b /\ own'[t] = own[t]
  BY ContinueAlone
<1>2. t # http => own[t].request # "mine pool"
  BY ThreadFacts DEF MutexInv
<1> QED BY <1>1, <1>2 DEF GoesOn, MayGoOn

\* It goes on with others, which are for the same request.
LEMMA GotoGoesOn ==
  ASSUME LocalInv, MutexInv, NEW t \in Threads, NEW b, MayGoOn(t, pc[t], b),
         Goto(t, b), UNCHANGED mutex, NEW l, IsLocal(l), own' = [own EXCEPT ![t] = l],
         t # http => l.request \in {None, own[t].request}
  PROVE  GoesOn(t) /\ own'[t] = l
<1>1. Alone(t) /\ pc'[t] = b /\ own'[t] = l
  BY GotoAlone
<1>2. t # http => own[t].request # "mine pool" /\ None # "mine pool"
  BY ThreadFacts, ThreadsAssumption DEF MutexInv
<1> QED BY <1>1, <1>2 DEF GoesOn, MayGoOn

\* The walk through the pool goes on, or the thread comes to send the block.
LEMMA VisitGoesOn ==
  ASSUME LocalInv, MutexInv, NEW t \in Threads, NEW p, NEW i, Visit(t, p, i),
         UNCHANGED mutex,
         pc[t] \in {"begin updatePool", "updatePool", "erase transaction"}
  PROVE  GoesOn(t) /\ pc'[t] \in {"updatePool", "wait to send block", "send block"}
<1>1. PICK x : own' = [own EXCEPT ![t].transaction = x]
  BY DEF Visit
<1>2. PICK b : /\ b \in {"updatePool", ToSend(t, "wait to send block", "send block")}
               /\ Goto(t, b)
  BY DEF Visit
<1>3. MayGoOn(t, pc[t], b) /\ b \in {"updatePool", "wait to send block", "send block"}
  BY <1>2 DEF MayGoOn, Sending, Waiting, ToSend
<1>4. PICK l : l = [own[t] EXCEPT !.transaction = x]
  OBVIOUS
<1>5. own' = [own EXCEPT ![t] = l]
  BY <1>1, <1>4
<1>6. IsLocal(own[t])
  BY DEF LocalInv
<1>8. IsLocal(l) /\ l.request = own[t].request
  <2>1. IsLocal(l)
    BY <1>4, <1>6, LocalAssign
  <2> QED BY <1>4, <1>6, <2>1 DEF IsLocal
<1>7. pc'[t] = b
  BY <1>2 DEF LocalInv, Goto
<1> QED BY <1>2, <1>3, <1>5, <1>7, <1>8, GotoGoesOn

\* Each step that the HTTP thread and the peer threads have in common takes one
\* thread on or ends its request, gives the mutex back before the end, or ends
\* the process.
LEMMA SharedKinds ==
  ASSUME LocalInv, MutexInv, NEW t \in Threads, SharedStep(t)
  PROVE  \/ GoesOn(t)
         \/ pc[t] # "ended" /\ \E a : Finish(t, a)
         \/ /\ t = http /\ pc[http] \in Sending /\ Alone(http) /\ mutex' = None
            /\ pc'[http] \notin Sending
         \/ pc' = [s \in Threads |-> "ended"] /\ UNCHANGED <<mutex, own>>
<1>1. IsLocal(own[t])
  BY DEF LocalInv
<1>2. t # http => own[t].request # "mine pool"
  BY ThreadFacts DEF MutexInv
<1>3. CASE CheckForPool(t)
  <2>1. MayGoOn(t, pc[t], "push transaction")
    BY <1>3 DEF CheckForPool, MayGoOn, Sending, Waiting
  <2> QED BY <1>3, <2>1, ContinueGoesOn DEF CheckForPool
<1>4. CASE PushTransaction(t)
  <2>1. MayGoOn(t, pc[t], "push stat")
    BY <1>4 DEF PushTransaction, MayGoOn, Sending, Waiting
  <2> QED BY <1>4, <2>1, ContinueGoesOn DEF PushTransaction
<1>5. CASE PushStat(t)
  <2>1. MayGoOn(t, pc[t], ToSend(t, "wait to send pool", "send pool"))
    BY <1>5 DEF PushStat, MayGoOn, Sending, Waiting, ToSend
  <2> QED BY <1>5, <2>1, ContinueGoesOn DEF PushStat
<1>6. CASE BroadcastPool(t)
  BY <1>6 DEF BroadcastPool
<1>7. CASE ValidateBlock(t)
  <2>1. MayGoOn(t, pc[t], "process transactions")
    BY <1>7 DEF ValidateBlock, MayGoOn, Sending, Waiting
  <2> QED BY <1>7, <2>1, ContinueGoesOn DEF ValidateBlock
<1>8. CASE ProcessTransactions(t)
  <2>1. MayGoOn(t, pc[t], "push block")
    BY <1>8 DEF ProcessTransactions, MayGoOn, Sending, Waiting
  <2>2. ASSUME NEW u, own' = [own EXCEPT ![t].utxo = u], Goto(t, "push block"),
               UNCHANGED mutex
        PROVE  GoesOn(t)
    <3> DEFINE l == [own[t] EXCEPT !.utxo = u]
    <3>1. own' = [own EXCEPT ![t] = l]
      BY <2>2
    <3>2. IsLocal(l) /\ l.request = own[t].request
      BY <1>1, LocalUtxo
    <3> HIDE DEF l
    <3> QED BY <2>1, <2>2, <3>1, <3>2, GotoGoesOn
  <2> QED BY <1>8, <2>2 DEF ProcessTransactions
<1>9. CASE PushBlock(t)
  <2>1. MayGoOn(t, pc[t], "set utxo")
    BY <1>9 DEF PushBlock, MayGoOn, Sending, Waiting
  <2> QED BY <1>9, <2>1, ContinueGoesOn DEF PushBlock
<1>10. CASE SetUnspentTransOuts(t)
  <2>1. MayGoOn(t, pc[t], "read utxo for updatePool")
    BY <1>10 DEF SetUnspentTransOuts, MayGoOn, Sending, Waiting
  <2> QED BY <1>10, <2>1, ContinueGoesOn DEF SetUnspentTransOuts
<1>11. CASE CopyForUpdate(t)
  <2>1. MayGoOn(t, pc[t], "begin updatePool")
    BY <1>11 DEF CopyForUpdate, MayGoOn, Sending, Waiting
  <2> DEFINE l == [own[t] EXCEPT !.utxo = utxo]
  <2>2. own' = [own EXCEPT ![t] = l]
    BY <1>11 DEF CopyForUpdate
  <2>3. IsLocal(l) /\ l.request = own[t].request
    BY <1>1, LocalUtxo
  <2> HIDE DEF l
  <2> QED BY <1>11, <2>1, <2>2, <2>3, GotoGoesOn DEF CopyForUpdate
<1>12. CASE BeginUpdate(t)
  BY <1>12, VisitGoesOn DEF BeginUpdate
<1>14. CASE CheckInputs(t)
  <2>1. MayGoOn(t, pc[t], "erase transaction")
    BY <1>14 DEF CheckInputs, MayGoOn, Sending, Waiting
  <2> QED BY <1>14, <2>1, VisitGoesOn, ContinueGoesOn DEF CheckInputs
<1>15. CASE EraseTransaction(t)
  BY <1>15, VisitGoesOn DEF EraseTransaction
<1>16. CASE IteratorLost(t)
  BY <1>16, VisitGoesOn DEF IteratorLost
<1>13. CASE BroadcastBlock(t)
  <2>1. CASE own[t].request = "mine pool"
    <3>1. t = http
      BY <1>2, <2>1
    <3>2. PICK b \in {"wait to send stats", "write stats"} : Continue(t, b)
      BY <1>13, <2>1 DEF BroadcastBlock
    <3>3. Alone(t) /\ pc'[t] = b
      BY <3>2, ContinueAlone
    <3> QED BY <1>13, <2>1, <3>1, <3>2, <3>3 DEF BroadcastBlock, Sending
  <2>2. CASE own[t].request # "mine pool"
    BY <1>13, <2>2 DEF BroadcastBlock
  <2> QED BY <2>1, <2>2
<1> QED BY <1>3, <1>4, <1>5, <1>6, <1>7, <1>8, <1>9, <1>10, <1>11, <1>12, <1>13,
           <1>14, <1>15, <1>16 DEF SharedStep

\* Each request begins by taking the HTTP thread on.
LEMMA RequestKinds ==
  ASSUME LocalInv, MutexInv, Request
  PROVE  GoesOn(http)
<1>1. ASSUME NEW p, StartSendTransaction(p) PROVE GoesOn(http)
  <2>1. PICK l : l = [Nothing EXCEPT !.request = "send", !.transaction = p]
    OBVIOUS
  <2>2. IsLocal(l)
    BY <2>1 DEF IsLocal, Nothing
  <2>3. Goto(http, "read arguments") /\ own' = [own EXCEPT ![http] = l] /\ UNCHANGED mutex
    BY <1>1, <2>1 DEF StartSendTransaction, StartRequest
  <2>4. MayGoOn(http, pc[http], "read arguments")
    BY <1>1 DEF StartSendTransaction, StartRequest, MayGoOn, Sending
  <2> QED BY <2>2, <2>3, <2>4, ThreadFacts, GotoGoesOn
<1>2. ASSUME NEW request, NEW p, StartMining(request, p) PROVE GoesOn(http)
  <2>1. PICK l : l = [Nothing EXCEPT !.request = request, !.transaction = p,
                        !.data = <<getCoinbaseTransaction(Self, getLatestBlock(chain).index + 1)>>]
    OBVIOUS
  <2>2. IsLocal(l)
    BY <2>1 DEF IsLocal, Nothing
  <2>3. PICK b \in {"read pool", "read arguments"} : Goto(http, b)
    BY <1>2 DEF StartMining
  <2>4. own' = [own EXCEPT ![http] = l] /\ UNCHANGED mutex
    BY <1>2, <2>1 DEF StartMining, StartRequest
  <2>5. MayGoOn(http, pc[http], b)
    BY <1>2, <2>3 DEF StartMining, StartRequest, MayGoOn, Sending
  <2> QED BY <2>2, <2>3, <2>4, <2>5, ThreadFacts, GotoGoesOn
<1> QED BY <1>1, <1>2 DEF Request

\* Each step of the HTTP thread on its own takes it on, ends its request, or
\* takes or gives back the mutex.
LEMMA HttpKinds ==
  ASSUME LocalInv, MutexInv, HttpStep
  PROVE  \/ GoesOn(http)
         \/ pc[http] # "ended" /\ \E a : Finish(http, a)
         \/ \E a \in Waiting, b \in Sending : Lock(http, a, b)
         \/ pc[http] \in Sending /\ Alone(http) /\ mutex' = None /\ pc'[http] \notin Sending
<1>1. IsLocal(own[http]) /\ http \in Threads
  BY ThreadFacts DEF LocalInv
<1>2. ASSUME NEW b, MayGoOn(http, pc[http], b), Goto(http, b), UNCHANGED mutex,
             NEW l, IsLocal(l), own' = [own EXCEPT ![http] = l]
      PROVE  GoesOn(http)
  BY <1>1, <1>2, GotoGoesOn
<1>3. CASE ReadUtxo \/ ReadPool
  <2>1. PICK l : IsLocal(l) /\ own' = [own EXCEPT ![http] = l]
    BY <1>1, <1>3, LocalAssign DEF ReadUtxo, ReadPool
  <2>2. MayGoOn(http, pc[http], pc[http]) /\ UNCHANGED <<pc, mutex>>
    BY <1>3 DEF ReadUtxo, ReadPool, MayGoOn, Sending
  <2>3. Goto(http, pc[http])
    BY <1>1, <2>2 DEF LocalInv, Goto
  <2> QED BY <1>2, <2>1, <2>2, <2>3
<1>4. CASE CreateTransaction
  <2>1. \/ Finish(http, "error")
        \/ /\ UNCHANGED mutex
           /\ \/ /\ Goto(http, "read utxo for addToPool")
                 /\ \E t : own' = [own EXCEPT ![http] =
                              [Nothing EXCEPT !.request = "send", !.transaction = t]]
              \/ /\ Goto(http, "createRawNextBlock")
                 /\ \E t : own' = [own EXCEPT ![http] =
                              [Nothing EXCEPT !.request = "mine payment", !.data = t]]
    BY <1>4 DEF CreateTransaction
  <2>2. MayGoOn(http, pc[http], "read utxo for addToPool")
        /\ MayGoOn(http, pc[http], "createRawNextBlock")
    BY <1>4 DEF CreateTransaction, MayGoOn, Sending
  <2>3. CASE Finish(http, "error")
    BY <1>4, <2>3 DEF CreateTransaction
  <2>4. ASSUME UNCHANGED mutex, Goto(http, "read utxo for addToPool"), NEW t,
               own' = [own EXCEPT ![http] =
                         [Nothing EXCEPT !.request = "send", !.transaction = t]]
        PROVE  GoesOn(http)
    BY <1>2, <2>2, <2>4, NothingAssign
  <2>5. ASSUME UNCHANGED mutex, Goto(http, "createRawNextBlock"), NEW t,
               own' = [own EXCEPT ![http] =
                         [Nothing EXCEPT !.request = "mine payment", !.data = t]]
        PROVE  GoesOn(http)
    BY <1>2, <2>2, <2>5, NothingAssign
  <2> QED BY <2>1, <2>3, <2>4, <2>5
<1>5. CASE CopyForPool
  <2>1. PICK l : IsLocal(l) /\ own' = [own EXCEPT ![http] = l]
    BY <1>1, <1>5, LocalAssign DEF CopyForPool
  <2>2. MayGoOn(http, pc[http], "addToPool") /\ Goto(http, "addToPool") /\ UNCHANGED mutex
    BY <1>5 DEF CopyForPool, MayGoOn, Sending
  <2> QED BY <1>2, <2>1, <2>2
<1>6. CASE TakeFromPool
  <2>1. PICK l : IsLocal(l) /\ own' = [own EXCEPT ![http] = l]
    BY <1>1, <1>6, LocalAssign DEF TakeFromPool
  <2>2. PICK b \in {"createRawNextBlock", "read stats"} : Goto(http, b)
    BY <1>6 DEF TakeFromPool
  <2>3. MayGoOn(http, pc[http], b) /\ UNCHANGED mutex
    BY <1>6, <2>2 DEF TakeFromPool, MayGoOn, Sending
  <2> QED BY <1>2, <2>1, <2>2, <2>3
<1>12. CASE ReadStat
  <2>1. PICK d, q, s : own' = [own EXCEPT ![http] =
                                 [own[http] EXCEPT !.data = d, !.pool = q, !.stats = s]]
    BY <1>12 DEF ReadStat
  <2>2. PICK l : l = [own[http] EXCEPT !.data = d, !.pool = q, !.stats = s]
    OBVIOUS
  <2>3. IsLocal(l)
    BY <1>1, <2>2 DEF IsLocal
  <2>4. PICK b \in {"createRawNextBlock", "read stats"} : Goto(http, b)
    BY <1>12 DEF ReadStat
  <2>5. MayGoOn(http, pc[http], b) /\ UNCHANGED mutex
    BY <1>12, <2>4 DEF ReadStat, MayGoOn, Sending
  <2> QED BY <1>2, <2>1, <2>2, <2>3, <2>4, <2>5
<1>7. CASE ReadLatestBlock
  <2>1. PICK b : own' = [own EXCEPT ![http] = [own[http] EXCEPT !.data = None, !.block = b]]
    BY <1>7 DEF ReadLatestBlock
  <2>2. PICK l : l = [own[http] EXCEPT !.data = None, !.block = b]
    OBVIOUS
  <2>3. IsLocal(l)
    BY <1>1, <2>2 DEF IsLocal
  <2>4. MayGoOn(http, pc[http], "mineBlock") /\ Goto(http, "mineBlock") /\ UNCHANGED mutex
    BY <1>7 DEF ReadLatestBlock, MayGoOn, Sending
  <2> QED BY <1>2, <2>1, <2>2, <2>3, <2>4
<1>8. CASE MineBlock
  <2>1. MayGoOn(http, pc[http], "addBlock")
    BY <1>8 DEF MineBlock, MayGoOn, Sending
  <2> QED BY <1>1, <1>8, <2>1, ContinueGoesOn DEF MineBlock
<1>9. CASE HttpLock
  BY <1>9 DEF HttpLock, Sending, Waiting
<1>10. CASE BroadcastStats
  <2>1. pc[http] = "send stats" /\ mutex' = None /\ Continue(http, "write stats")
    BY <1>10 DEF BroadcastStats
  <2>2. Alone(http) /\ pc'[http] = "write stats"
    BY <1>1, <2>1, ContinueAlone
  <2> QED BY <2>1, <2>2 DEF Sending
<1>11. CASE WriteStats
  BY <1>11 DEF WriteStats
<1> QED BY <1>3, <1>4, <1>5, <1>6, <1>7, <1>8, <1>9, <1>10, <1>11, <1>12 DEF HttpStep

\* Each step of a peer thread on its own takes it on, ends its message or ends
\* the thread, alone or with all others.
LEMMA PeerKinds ==
  ASSUME LocalInv, MutexInv, NEW t \in PeerThreads, PeerStep(t)
  PROVE  \/ GoesOn(t)
         \/ pc[t] # "ended" /\ \E a : Finish(t, a)
         \/ /\ pc' = [s \in Threads |-> IF s \in EndedWith(t) THEN "ended" ELSE pc[s]]
            /\ UNCHANGED <<mutex, own>>
<1>1. IsLocal(own[t]) /\ t \in Threads /\ t # http
  BY ThreadFacts DEF LocalInv
<1>2. ASSUME NEW blocks, NewBlocksHandler(t, blocks) PROVE GoesOn(t)
  <2>1. MayGoOn(t, pc[t], "addBlock") /\ MayGoOn(t, pc[t], "replaceChain") /\ UNCHANGED mutex
    BY <1>1, <1>2 DEF NewBlocksHandler, MayGoOn, Sending, Waiting
  <2>2. \/ /\ Goto(t, "addBlock")
           /\ own' = [own EXCEPT ![t] = [Nothing EXCEPT !.block = getLatestBlock(blocks)]]
        \/ /\ Goto(t, "replaceChain")
           /\ own' = [own EXCEPT ![t] = [Nothing EXCEPT !.chain = blocks]]
    BY <1>2 DEF NewBlocksHandler
  <2>3. ASSUME NEW b, MayGoOn(t, pc[t], b), Goto(t, b),
               NEW l, IsLocal(l), l.request = None, own' = [own EXCEPT ![t] = l]
        PROVE  GoesOn(t)
    BY <1>1, <2>1, <2>3, GotoGoesOn
  <2> QED BY <2>1, <2>2, <2>3, NothingAssign
<1>3. ASSUME NEW x, HandlePool(t, x) PROVE GoesOn(t)
  <2>1. MayGoOn(t, pc[t], "addToPool") /\ UNCHANGED mutex /\ Goto(t, "addToPool")
    BY <1>1, <1>3 DEF HandlePool, MayGoOn, Sending, Waiting
  <2>2. PICK l : l = [Nothing EXCEPT !.transaction = x, !.utxo = utxo]
    OBVIOUS
  <2>3. own' = [own EXCEPT ![t] = l]
    BY <1>3, <2>2 DEF HandlePool
  <2>4. IsLocal(l) /\ l.request = None
    BY <2>2 DEF IsLocal, Nothing
  <2> QED BY <1>1, <2>1, <2>3, <2>4, GotoGoesOn
<1>4. CASE NoMessage(t) \/ HandleQuery(t) \/ HandlePoolStats(t)
  BY <1>4 DEF NoMessage, HandleQuery, HandlePoolStats
<1>5. CASE CompareChains(t)
  <2>1. MayGoOn(t, pc[t], "set chain")
    BY <1>1, <1>5 DEF CompareChains, MayGoOn, Sending, Waiting
  <2> QED BY <1>1, <1>5, <2>1, ContinueGoesOn DEF CompareChains
<1>6. CASE SetChain(t)
  <2>1. MayGoOn(t, pc[t], "set utxo") /\ Goto(t, "set utxo") /\ UNCHANGED mutex
    BY <1>1, <1>6 DEF SetChain, MayGoOn, Sending, Waiting
  <2>1a. PICK u : u = UtxoAfter(own[t].chain)[Len(own[t].chain)]
    OBVIOUS
  <2>2. PICK l : l = [own[t] EXCEPT !.utxo = u]
    OBVIOUS
  <2>3. own' = [own EXCEPT ![t] = l]
    BY <1>6, <2>1a, <2>2 DEF SetChain
  <2>4. IsLocal(l) /\ l.request = own[t].request
    BY <1>1, <2>2, LocalUtxo
  <2> QED BY <1>1, <2>1, <2>3, <2>4, GotoGoesOn
<1> QED BY <1>2, <1>3, <1>4, <1>5, <1>6 DEF PeerStep, Handle

\* The places and the mutex at the start.
LEMMA MutexInit == Init => LocalInv /\ MutexInv
<1> SUFFICES ASSUME Init PROVE LocalInv /\ MutexInv
  OBVIOUS
<1>1. LocalInv
  BY NothingIsLocal DEF Init, LocalInv
<1>2. \A t \in Threads : pc[t] = "idle" /\ own[t].request = None
  BY DEF Init, Nothing
<1>3. mutex = None
  BY DEF Init
<1> QED BY <1>1, <1>2, <1>3, ThreadFacts, ThreadsAssumption DEF MutexInv, Sending, Waiting

\* Every step keeps them.
LEMMA MutexNext == LocalInv /\ MutexInv /\ [Next]_vars => LocalInv' /\ MutexInv'
<1> SUFFICES ASSUME LocalInv, MutexInv, [Next]_vars PROVE LocalInv' /\ MutexInv'
  OBVIOUS
<1>1. ASSUME NEW t \in Threads, GoesOn(t) PROVE LocalInv' /\ MutexInv'
  BY <1>1, MutexGoesOn, AloneFacts DEF GoesOn
<1>2. ASSUME NEW t \in Threads, NEW a, Finish(t, a) PROVE LocalInv' /\ MutexInv'
  BY <1>2, MutexFinish, FinishAlone, AloneFacts
<1>3. ASSUME NEW t \in Threads, NEW a, NEW b, Lock(t, a, b),
             IF t = http THEN a \notin Sending /\ b \in Sending ELSE b = "handle"
      PROVE  LocalInv' /\ MutexInv'
  BY <1>3, MutexLock, ContinueAlone, AloneFacts DEF Lock
<1>4. ASSUME pc[http] \in Sending, Alone(http), mutex' = None, pc'[http] \notin Sending
      PROVE  LocalInv' /\ MutexInv'
  BY <1>4, MutexRelease, AloneFacts, ThreadFacts
<1>5. CASE Request
  BY <1>1, <1>5, RequestKinds, ThreadFacts
<1>6. CASE HttpStep
  <2>1. ASSUME NEW a \in Waiting, NEW b \in Sending, Lock(http, a, b)
        PROVE  LocalInv' /\ MutexInv'
    BY <1>3, <2>1, ThreadFacts DEF Sending, Waiting
  <2> QED BY <1>1, <1>2, <1>4, <1>6, <2>1, HttpKinds, ThreadFacts
<1>12. ASSUME NEW E, pc' = [s \in Threads |-> IF s \in E THEN "ended" ELSE pc[s]],
              UNCHANGED <<mutex, own>>
       PROVE  LocalInv' /\ MutexInv'
  <2>1. LocalInv'
    BY <1>12 DEF LocalInv
  <2>2. \A s \in Threads : pc'[s] = "ended" \/ pc'[s] = pc[s]
    BY <1>12
  <2>3. /\ "ended" # "idle" /\ "ended" \notin Waiting /\ "ended" \notin Sending
    BY DEF Waiting, Sending
  <2>4. MutexInv'
    BY <1>12, <2>2, <2>3, ThreadFacts DEF MutexInv
  <2> QED BY <2>1, <2>4
<1>7. ASSUME NEW t \in Threads, SharedStep(t) PROVE LocalInv' /\ MutexInv'
  <2>1. ASSUME pc' = [s \in Threads |-> "ended"], UNCHANGED <<mutex, own>>
        PROVE  LocalInv' /\ MutexInv'
    <3>1. pc' = [s \in Threads |-> IF s \in Threads THEN "ended" ELSE pc[s]]
      BY <2>1
    <3> QED BY <1>12, <2>1, <3>1
  <2> QED BY <1>1, <1>2, <1>4, <1>7, <2>1, SharedKinds
<1>8. ASSUME NEW t \in PeerThreads, Receive(t) PROVE LocalInv' /\ MutexInv'
  BY <1>3, <1>8, ThreadFacts DEF Receive
<1>9. ASSUME NEW t \in PeerThreads, PeerStep(t) PROVE LocalInv' /\ MutexInv'
  <2>1. \/ GoesOn(t) \/ \E a : Finish(t, a)
        \/ \E E : /\ pc' = [s \in Threads |-> IF s \in E THEN "ended" ELSE pc[s]]
                  /\ UNCHANGED <<mutex, own>>
    BY <1>9, PeerKinds
  <2> QED BY <1>1, <1>2, <1>12, <2>1, ThreadFacts
<1>10. CASE Peers
  BY <1>10, MutexStill DEF Peers, PeerMines, PeerPays
<1>11. CASE UNCHANGED vars
  BY <1>11, MutexStill DEF vars
<1> QED BY <1>5, <1>6, <1>7, <1>8, <1>9, <1>10, <1>11 DEF Next

\* Whoever holds the mutex is on the way to give it back (Peer.cpp: the lock of
\* the HTTP thread around its broadcasts, and that of a peer thread around the
\* handling of a message): it is neither idle nor waits for it a second time.
THEOREM AlwaysHolderGivesBack == Spec => []HolderGivesBack
<1>1. LocalInv /\ MutexInv => HolderGivesBack
  BY ThreadFacts DEF MutexInv, HolderGivesBack, Sending, Waiting
<1> QED BY <1>1, MutexInit, MutexNext, PTL DEF Spec

-----------------------------------------------------------------------------
(* Steps that change the lists, and the others *)

\* Where a thread is about to change the chain, the unspent outputs, the pool or
\* its statistics, or to compare chains.
Busy == {"push transaction", "push stat", "process transactions", "push block", "set utxo",
         "erase transaction", "replaceChain", "set chain"}

\* A step that leaves the lists alone, and the threads that are about to change
\* them, unless the process ends.
Aside ==
  /\ UNCHANGED <<shared, overlapped>>
  /\ \A s \in Threads : \/ pc'[s] = pc[s] /\ own'[s] = own[s]
                        \/ pc'[s] \notin Busy /\ (pc[s] \notin Busy \/ ~Running')

\* The steps that begin, make or end a change.
ListStep(t) ==
  \/ CheckForPool(t) \/ PushTransaction(t) \/ PushStat(t)
  \/ ValidateBlock(t) \/ ProcessTransactions(t) \/ PushBlock(t) \/ SetUnspentTransOuts(t)
  \/ CheckInputs(t) \/ EraseTransaction(t) \/ IteratorLost(t)
  \/ /\ t # http
     /\ \/ \E c \in peerChains : \/ NewBlocksHandler(t, <<getLatestBlock(c)>>)
                                 \/ NewBlocksHandler(t, c)
        \/ CompareChains(t) \/ SetChain(t)

\* A process that has ended stays so.
LEMMA EndedStays == LocalInv /\ MutexInv /\ [Next]_vars /\ ~Running => ~Running'
<1> SUFFICES ASSUME LocalInv, MutexInv, [Next]_vars, ~Running PROVE ~Running'
  OBVIOUS
<1>1. pc[http] = "ended"
  BY DEF Running
<1>2. ASSUME NEW t \in Threads, Alone(t), t # http PROVE ~Running'
  BY <1>1, <1>2, AloneFacts, ThreadFacts DEF Running
<1>3. ~GoesOn(http)
  BY <1>1 DEF GoesOn
<1>4. "ended" \notin Sending \cup Waiting
  BY DEF Sending, Waiting
<1>5. ~Request
  BY <1>3, RequestKinds
<1>6. ~HttpStep
  <2>1. \A a \in Waiting : \A b : ~Lock(http, a, b)
    BY <1>1, <1>4 DEF Lock
  <2> QED BY <1>1, <1>3, <1>4, <2>1, HttpKinds
<1>7. ASSUME NEW t \in Threads, SharedStep(t) PROVE ~Running'
  <2>1. (pc' = [s \in Threads |-> "ended"]) => ~Running'
    BY ThreadFacts DEF Running
  <2> QED BY <1>1, <1>2, <1>3, <1>4, <1>7, <2>1, SharedKinds, FinishAlone DEF GoesOn
<1>8. ASSUME NEW t \in PeerThreads, Receive(t) \/ PeerStep(t) PROVE ~Running'
  <2>1. CASE Receive(t)
    BY <1>2, <2>1, ContinueAlone, ThreadFacts DEF Receive, Lock
  <2>2. CASE PeerStep(t)
    <3>1. CASE GoesOn(t) \/ \E a : Finish(t, a)
      BY <1>2, <3>1, FinishAlone, ThreadFacts DEF GoesOn
    <3>2. CASE pc' = [s \in Threads |-> IF s \in EndedWith(t) THEN "ended" ELSE pc[s]]
      BY <1>1, <3>2, ThreadFacts DEF Running
    <3> QED BY <2>2, <3>1, <3>2, PeerKinds
  <2> QED BY <1>8, <2>1, <2>2
<1>9. CASE Peers \/ UNCHANGED vars
  BY <1>1, <1>9 DEF Peers, PeerMines, PeerPays, vars, Running
<1> QED BY <1>5, <1>6, <1>7, <1>8, <1>9 DEF Next

\* A step of one thread that leaves the lists alone.
LEMMA AloneAside ==
  ASSUME LocalInv, NEW t \in Threads, Alone(t), UNCHANGED <<shared, overlapped>>,
         pc[t] \notin Busy, pc'[t] \notin Busy
  PROVE  Aside
BY AloneFacts DEF Aside

\* Each step is of one of the two kinds.
LEMMA StepKinds ==
  ASSUME LocalInv, MutexInv, [Next]_vars
  PROVE  Aside \/ \E t \in Threads : Alone(t) /\ ListStep(t)
<1>1. ASSUME NEW t \in Threads, UNCHANGED <<shared, overlapped>>, pc[t] \notin Busy,
             NEW b, b \notin Busy, Continue(t, b)
      PROVE  Aside
  BY <1>1, ContinueAlone, AloneAside
<1>2. ASSUME NEW t \in Threads, UNCHANGED <<shared, overlapped>>, pc[t] \notin Busy,
             NEW a, Finish(t, a)
      PROVE  Aside
  BY <1>2, FinishAlone, AloneAside DEF Busy
<1>3. ASSUME NEW t \in Threads, UNCHANGED <<shared, overlapped>>, pc[t] \notin Busy,
             NEW b, b \notin Busy, Goto(t, b), GoesOn(t)
      PROVE  Aside
  <2>1. pc'[t] = b
    BY <1>3 DEF LocalInv, Goto
  <2> QED BY <1>3, <2>1, AloneAside DEF GoesOn
<1>4. CASE Request
  <2>1. GoesOn(http)
    BY <1>4, RequestKinds
  <2>2. /\ UNCHANGED <<shared, overlapped>> /\ pc[http] \notin Busy
        /\ Goto(http, "read arguments") \/ Goto(http, "read pool")
    BY <1>4 DEF Request, StartSendTransaction, StartMining, StartRequest, Busy, world
  <2> QED BY <1>3, <2>1, <2>2, ThreadFacts DEF Busy
<1>5. CASE HttpStep
  <2>1. UNCHANGED <<shared, overlapped>> /\ pc[http] \notin Busy /\ pc'[http] \notin Busy
    <3>1. \A b : Goto(http, b) => pc'[http] = b
      BY ThreadFacts DEF LocalInv, Goto
    <3>2. \A a : Finish(http, a) => pc'[http] = "idle"
      BY <3>1 DEF Finish
    <3>3. CASE ReadUtxo \/ ReadPool
      BY <3>3 DEF ReadUtxo, ReadPool, Busy, world
    <3>4. CASE CreateTransaction
      BY <3>1, <3>2, <3>4 DEF CreateTransaction, Busy, world
    <3>5. CASE CopyForPool \/ MineBlock \/ BroadcastStats
      BY <3>1, <3>5 DEF CopyForPool, MineBlock, BroadcastStats, Continue, Busy, world
    <3>6. CASE TakeFromPool \/ ReadStat \/ ReadLatestBlock
      BY <3>1, <3>6 DEF TakeFromPool, ReadStat, ReadLatestBlock, Busy, world
    <3>7. CASE HttpLock
      BY <3>1, <3>7 DEF HttpLock, Lock, Continue, Busy, world
    <3>8. CASE WriteStats
      BY <3>2, <3>8 DEF WriteStats, Busy, world
    <3> QED BY <1>5, <3>3, <3>4, <3>5, <3>6, <3>7, <3>8 DEF HttpStep
  <2>2. Alone(http)
    BY <1>5, HttpKinds, FinishAlone, ContinueAlone, ThreadFacts DEF GoesOn, Lock
  <2> QED BY <2>1, <2>2, AloneAside, ThreadFacts
<1>6. ASSUME NEW t \in Threads, SharedStep(t) PROVE Aside \/ (Alone(t) /\ ListStep(t))
  <2>0. CASE IteratorLost(t) /\ pc' = [s \in Threads |-> "ended"]
    <3>1. \A s \in Threads : pc'[s] \notin Busy
      BY <2>0 DEF Busy
    <3>2. ~Running' /\ UNCHANGED <<shared, overlapped>>
      BY <2>0, ThreadFacts DEF Running, IteratorLost, world
    <3> QED BY <3>1, <3>2 DEF Aside
  <2> SUFFICES ASSUME ~(IteratorLost(t) /\ pc' = [s \in Threads |-> "ended"])
      PROVE  Aside \/ (Alone(t) /\ ListStep(t))
    BY <2>0
  <2>1. Alone(t)
    <3>1. CASE pc' = [s \in Threads |-> "ended"]
      <4>1. ~Running' /\ pc'[t] = "ended" /\ pc'[t] # "idle"
        BY <3>1, ThreadFacts DEF Running
      <4>2. \A b : Goto(t, b) => pc'[t] = b
        BY DEF LocalInv, Goto
      <4> QED BY <1>6, <3>1, <4>1, <4>2
              DEF SharedStep, CheckForPool, PushTransaction, PushStat, BroadcastPool,
                  ValidateBlock, ProcessTransactions, PushBlock, SetUnspentTransOuts,
                  CopyForUpdate, BeginUpdate, CheckInputs, EraseTransaction, BroadcastBlock,
                  Continue, Finish, Visit, ToSend
    <3> QED BY <1>6, <3>1, SharedKinds, FinishAlone DEF GoesOn
  <2>2. CASE BroadcastPool(t)
    BY <1>2, <2>2 DEF BroadcastPool, Busy
  <2>3. CASE CopyForUpdate(t)
    <3>1. pc'[t] = "begin updatePool"
      BY <2>3 DEF CopyForUpdate, LocalInv, Goto
    <3> QED BY <2>1, <2>3, <3>1, AloneAside DEF CopyForUpdate, Busy, world
  <2>4. CASE BroadcastBlock(t)
    <3>1. UNCHANGED <<shared, overlapped>> /\ pc[t] \notin Busy
      BY <2>4 DEF BroadcastBlock, Busy
    <3>2. (\E a : Finish(t, a)) \/ Continue(t, "wait to send stats") \/ Continue(t, "write stats")
      BY <2>4 DEF BroadcastBlock
    <3> QED BY <1>1, <1>2, <3>1, <3>2 DEF Busy
  <2>5. CASE BeginUpdate(t)
    <3>1. /\ UNCHANGED <<shared, overlapped>> /\ pc[t] \notin Busy
          /\ pc'[t] \in {"updatePool", "wait to send block", "send block"}
      BY <2>5, VisitGoesOn DEF BeginUpdate, Busy, world
    <3> QED BY <2>1, <3>1, AloneAside DEF Busy
  <2> QED BY <1>6, <2>1, <2>2, <2>3, <2>4, <2>5 DEF SharedStep, ListStep
<1>7. ASSUME NEW t \in PeerThreads, Receive(t) PROVE Aside
  BY <1>1, <1>7, ThreadFacts DEF Receive, Lock, Busy, world
<1>8. ASSUME NEW t \in PeerThreads, PeerStep(t) PROVE Aside \/ (Alone(t) /\ ListStep(t))
  <2>0. t \in Threads /\ t # http
    BY ThreadFacts
  <2>1. ASSUME NEW a, Finish(t, a), pc[t] = "handle", UNCHANGED <<shared, overlapped>> PROVE Aside
    BY <1>2, <2>0, <2>1 DEF Busy
  <2>2. CASE NoMessage(t) \/ HandleQuery(t)
    BY <2>1, <2>2 DEF NoMessage, HandleQuery, world
  <2>3. CASE HandlePoolStats(t)
    <3>1. CASE \E a : Finish(t, a)
      BY <2>1, <2>3, <3>1 DEF HandlePoolStats, world
    <3>2. CASE /\ pc' = [s \in Threads |-> IF s \in EndedWith(t) THEN "ended" ELSE pc[s]]
               /\ UNCHANGED own
      <4>1. "ended" \notin Busy /\ "handle" \notin Busy /\ pc[t] = "handle"
        BY <2>3 DEF HandlePoolStats, Busy
      <4>2. EndedWith(t) = {t} \/ ~Running'
        BY <3>2, ThreadFacts DEF EndedWith, Running
      <4>3. UNCHANGED <<shared, overlapped>>
        BY <2>3 DEF HandlePoolStats, world
      <4> QED BY <2>0, <3>2, <4>1, <4>2, <4>3 DEF Aside
    <3> QED BY <2>3, <3>1, <3>2 DEF HandlePoolStats
  <2>4. ASSUME NEW x, HandlePool(t, x) PROVE Aside
    <3>1. PICK l : l = [Nothing EXCEPT !.transaction = x, !.utxo = utxo]
      OBVIOUS
    <3>2. IsLocal(l)
      BY <3>1 DEF IsLocal, Nothing
    <3>3. Alone(t) /\ pc'[t] = "addToPool"
      BY <2>0, <2>4, <3>1, <3>2, GotoAlone DEF HandlePool
    <3> QED BY <2>0, <2>4, <3>3, AloneAside DEF HandlePool, Busy, world
  <2>5. ASSUME NEW c \in peerChains,
               NewBlocksHandler(t, <<getLatestBlock(c)>>) \/ NewBlocksHandler(t, c)
        PROVE  Alone(t) /\ ListStep(t)
    <3>1. ListStep(t)
      BY <2>0, <2>5 DEF ListStep
    <3>2. PICK blocks : NewBlocksHandler(t, blocks)
      BY <2>5
    <3>3. \A l, b : IsLocal(l) /\ own' = [own EXCEPT ![t] = l] /\ Goto(t, b) => Alone(t)
      BY <2>0, GotoAlone
    <3> QED BY <3>1, <3>2, <3>3, NothingAssign DEF NewBlocksHandler
  <2>6. CASE CompareChains(t) \/ SetChain(t)
    <3>1. Alone(t)
      <4>1. PeerStep(t) /\ pc'[t] # "ended"
        BY <2>0, <2>6 DEF PeerStep, CompareChains, SetChain, Continue, Goto, Finish, LocalInv
      <4>2. ASSUME pc' = [s \in Threads |-> IF s \in EndedWith(t) THEN "ended" ELSE pc[s]]
            PROVE  FALSE
        BY <2>0, <4>1, <4>2 DEF EndedWith
      <4> QED BY <2>0, <4>1, <4>2, PeerKinds, FinishAlone DEF GoesOn
    <3> QED BY <2>0, <2>6, <3>1 DEF ListStep
  <2> QED BY <1>8, <2>2, <2>3, <2>4, <2>5, <2>6 DEF PeerStep, Handle
<1>9. CASE Peers \/ UNCHANGED vars
  BY <1>9 DEF Peers, PeerMines, PeerPays, vars, world, Aside
<1> QED BY <1>4, <1>5, <1>6, <1>7, <1>8, <1>9, ThreadFacts DEF Next

\* What each step of a list does: to the thread, and to the lists.
LEMMA Effects ==
  ASSUME LocalInv, NEW t \in Threads
  PROVE  /\ CheckForPool(t) =>
              /\ UNCHANGED shared /\ pc[t] = "addToPool"
              /\ \/ /\ pc'[t] = "push transaction" /\ own'[t] = own[t]
                    /\ BeginsChange(t, "pool")
                    /\ isValidTransForPool(own[t].transaction, pool)
                 \/ pc'[t] = "idle" /\ UNCHANGED overlapped
         /\ PushTransaction(t) =>
              /\ pc[t] = "push transaction" /\ pc'[t] = "push stat" /\ own'[t] = own[t]
              /\ pool' = Append(pool, own[t].transaction)
              /\ UNCHANGED <<chain, utxo, stats, overlapped>>
         /\ PushStat(t) =>
              /\ pc[t] = "push stat" /\ pc'[t] \notin Busy
              /\ stats' = Append(stats, getTransactionId(own[t].transaction))
              /\ UNCHANGED <<chain, utxo, pool, overlapped>>
         /\ ValidateBlock(t) =>
              /\ UNCHANGED shared /\ pc[t] = "addBlock"
              /\ \/ /\ pc'[t] = "process transactions" /\ own'[t] = own[t]
                    /\ BeginsChange(t, "chain")
                 \/ pc'[t] = "idle" /\ UNCHANGED overlapped
         /\ PushBlock(t) =>
              /\ pc[t] = "push block" /\ pc'[t] = "set utxo" /\ own'[t] = own[t]
              /\ chain' = Append(chain, own[t].block)
              /\ UNCHANGED <<utxo, pool, stats, overlapped>>
         /\ SetUnspentTransOuts(t) =>
              /\ pc[t] = "set utxo" /\ pc'[t] \notin Busy
              /\ utxo' = own[t].utxo /\ UNCHANGED <<chain, pool, stats, overlapped>>
         /\ CompareChains(t) =>
              /\ UNCHANGED shared /\ pc[t] = "replaceChain"
              /\ \/ /\ pc'[t] = "set chain" /\ own'[t] = own[t]
                    /\ BeginsChange(t, "chain")
                    /\ isBlockchainValid(own[t].chain, Self, Now)
                 \/ pc'[t] = "idle" /\ UNCHANGED overlapped
<1>1. \A b : Goto(t, b) => pc'[t] = b
  BY DEF LocalInv, Goto
<1>2. \A b : Continue(t, b) => pc'[t] = b /\ own'[t] = own[t]
  BY <1>1 DEF Continue
<1>3. \A a : Finish(t, a) => pc'[t] = "idle"
  BY <1>1 DEF Finish
<1>4. CheckForPool(t) =>
        /\ UNCHANGED shared /\ pc[t] = "addToPool"
        /\ \/ /\ pc'[t] = "push transaction" /\ own'[t] = own[t]
              /\ BeginsChange(t, "pool")
              /\ isValidTransForPool(own[t].transaction, pool)
           \/ pc'[t] = "idle" /\ UNCHANGED overlapped
  BY <1>2, <1>3 DEF CheckForPool, addToPoolAccepts
<1>5. PushTransaction(t) =>
        /\ pc[t] = "push transaction" /\ pc'[t] = "push stat" /\ own'[t] = own[t]
        /\ pool' = Append(pool, own[t].transaction)
        /\ UNCHANGED <<chain, utxo, stats, overlapped>>
  BY <1>2 DEF PushTransaction, world
<1>6. PushStat(t) =>
        /\ pc[t] = "push stat" /\ pc'[t] \notin Busy
        /\ stats' = Append(stats, getTransactionId(own[t].transaction))
        /\ UNCHANGED <<chain, utxo, pool, overlapped>>
  <2>1. ToSend(t, "wait to send pool", "send pool") \notin Busy
    BY DEF ToSend, Busy
  <2> QED BY <1>2, <2>1 DEF PushStat, world
<1>7. ValidateBlock(t) =>
        /\ UNCHANGED shared /\ pc[t] = "addBlock"
        /\ \/ /\ pc'[t] = "process transactions" /\ own'[t] = own[t]
              /\ BeginsChange(t, "chain")
           \/ pc'[t] = "idle" /\ UNCHANGED overlapped
  BY <1>2, <1>3 DEF ValidateBlock
<1>8. PushBlock(t) =>
        /\ pc[t] = "push block" /\ pc'[t] = "set utxo" /\ own'[t] = own[t]
        /\ chain' = Append(chain, own[t].block)
        /\ UNCHANGED <<utxo, pool, stats, overlapped>>
  BY <1>2 DEF PushBlock, world
<1>9. SetUnspentTransOuts(t) =>
        /\ pc[t] = "set utxo" /\ pc'[t] \notin Busy
        /\ utxo' = own[t].utxo /\ UNCHANGED <<chain, pool, stats, overlapped>>
  <2>1. "read utxo for updatePool" \notin Busy
    BY DEF Busy
  <2> QED BY <1>2, <2>1 DEF SetUnspentTransOuts, world
<1>11. CompareChains(t) =>
        /\ UNCHANGED shared /\ pc[t] = "replaceChain"
        /\ \/ /\ pc'[t] = "set chain" /\ own'[t] = own[t]
              /\ BeginsChange(t, "chain")
              /\ isBlockchainValid(own[t].chain, Self, Now)
           \/ pc'[t] = "idle" /\ UNCHANGED overlapped
  BY <1>2, <1>3 DEF CompareChains
<1> QED BY <1>4, <1>5, <1>6, <1>7, <1>8, <1>9, <1>11

\* The same of the steps of updatePool.
LEMMA EffectsOfUpdate ==
  ASSUME LocalInv, MutexInv, NEW t \in Threads
  PROVE  /\ CheckInputs(t) =>
              /\ pc[t] = "updatePool" /\ UNCHANGED <<chain, utxo, pool, overlapped>>
              /\ \/ pc'[t] \notin Busy /\ UNCHANGED stats
                 \/ /\ pc'[t] = "erase transaction" /\ own'[t] = own[t]
                    /\ stats' = RemoveFirst(stats, getTransactionId(own[t].transaction))
                    /\ own[t].transaction.transIns # {}
                    /\ \E i \in DOMAIN pool : pool[i] = own[t].transaction
         /\ EraseTransaction(t) =>
              /\ pc[t] = "erase transaction" /\ pc'[t] \notin Busy
              /\ UNCHANGED <<chain, utxo, stats, overlapped>>
              /\ \E i \in DOMAIN pool : /\ pool[i] = own[t].transaction
                                        /\ pool' = RemoveAt(pool, i)
         /\ IteratorLost(t) =>
              /\ pc[t] \in {"updatePool", "erase transaction"} /\ pc'[t] \notin Busy
              /\ UNCHANGED <<shared, overlapped>>
              /\ \A i \in DOMAIN pool : pool[i] # own[t].transaction
<1>1. ASSUME NEW p, NEW i, Visit(t, p, i), UNCHANGED mutex,
             pc[t] \in {"begin updatePool", "updatePool", "erase transaction"}
      PROVE  pc'[t] \notin Busy
  <2>1. pc'[t] \in {"updatePool", "wait to send block", "send block"}
    BY <1>1, VisitGoesOn
  <2> QED BY <2>1 DEF Busy
<1>2. ASSUME CheckInputs(t)
      PROVE  /\ pc[t] = "updatePool" /\ UNCHANGED <<chain, utxo, pool, overlapped>>
             /\ \/ pc'[t] \notin Busy /\ UNCHANGED stats
                \/ /\ pc'[t] = "erase transaction" /\ own'[t] = own[t]
                   /\ stats' = RemoveFirst(stats, getTransactionId(own[t].transaction))
                   /\ own[t].transaction.transIns # {}
                   /\ \E i \in DOMAIN pool : pool[i] = own[t].transaction
  <2>1. \A x, u : ~hasTransIns(x, u) => x.transIns # {}
    BY DEF hasTransIns
  <2>2. Continue(t, "erase transaction") => pc'[t] = "erase transaction" /\ own'[t] = own[t]
    BY DEF LocalInv, Continue, Goto
  <2>3. /\ pc[t] = "updatePool" /\ UNCHANGED <<chain, utxo, pool, overlapped, mutex>>
    BY <1>2 DEF CheckInputs, world
  <2>4. \/ (\E i : Visit(t, pool, i)) /\ UNCHANGED stats
        \/ /\ ~hasTransIns(own[t].transaction, own[t].utxo)
           /\ stats' = RemoveFirst(stats, getTransactionId(own[t].transaction))
           /\ Continue(t, "erase transaction")
    BY <1>2 DEF CheckInputs
  <2>5. \E i \in DOMAIN pool : pool[i] = own[t].transaction
    BY <1>2 DEF CheckInputs, Visited
  <2> QED BY <1>1, <2>1, <2>2, <2>3, <2>4, <2>5
<1>3. ASSUME EraseTransaction(t)
      PROVE  /\ pc[t] = "erase transaction" /\ pc'[t] \notin Busy
             /\ UNCHANGED <<chain, utxo, stats, overlapped>>
             /\ \E i \in DOMAIN pool : /\ pool[i] = own[t].transaction
                                       /\ pool' = RemoveAt(pool, i)
  <2>1. /\ pc[t] = "erase transaction" /\ UNCHANGED <<chain, utxo, stats, overlapped, mutex>>
    BY <1>3 DEF EraseTransaction, world
  <2>2. PICK i \in DOMAIN pool : /\ pool[i] = own[t].transaction
                                 /\ pool' = RemoveAt(pool, i) /\ Visit(t, pool', i)
    BY <1>3 DEF EraseTransaction, Visited
  <2> QED BY <1>1, <2>1, <2>2
<1>4. ASSUME IteratorLost(t)
      PROVE  /\ pc[t] \in {"updatePool", "erase transaction"} /\ pc'[t] \notin Busy
             /\ UNCHANGED <<shared, overlapped>>
             /\ \A i \in DOMAIN pool : pool[i] # own[t].transaction
  <2>1. /\ pc[t] \in {"updatePool", "erase transaction"}
        /\ UNCHANGED <<shared, overlapped, mutex>>
        /\ \A i \in DOMAIN pool : pool[i] # own[t].transaction
    BY <1>4 DEF IteratorLost, Visited, world
  <2>2. (pc' = [s \in Threads |-> "ended"]) \/ \E i : Visit(t, pool, i)
    BY <1>4 DEF IteratorLost
  <2>3. (pc' = [s \in Threads |-> "ended"]) => pc'[t] \notin Busy
    BY DEF Busy
  <2> QED BY <1>1, <2>1, <2>2, <2>3
<1> QED BY <1>2, <1>3, <1>4

\* The same of the steps that assign local variables.
LEMMA EffectsOnLocals ==
  ASSUME LocalInv, NEW t \in Threads
  PROVE  /\ ProcessTransactions(t) =>
              /\ UNCHANGED <<shared, overlapped>> /\ pc[t] = "process transactions"
              /\ \/ /\ pc'[t] = "push block" /\ own'[t].block = own[t].block
                    /\ own'[t].utxo = updateUnspentTransOuts(own[t].block.data, utxo)
                    /\ isValidCoinbaseTransaction(own[t].block.data[1], own[t].block.index)
                 \/ pc'[t] = "idle"
         /\ SetChain(t) =>
              /\ pc[t] = "set chain" /\ pc'[t] = "set utxo" /\ chain' = own[t].chain
              /\ own'[t].utxo = UtxoAfter(own[t].chain)[Len(own[t].chain)]
              /\ UNCHANGED <<utxo, pool, stats, overlapped>>
         /\ \A blocks : NewBlocksHandler(t, blocks) =>
              /\ UNCHANGED <<shared, overlapped>> /\ pc[t] = "handle"
              /\ \/ pc'[t] = "addBlock"
                 \/ pc'[t] = "replaceChain" /\ own'[t].chain = blocks
<1>1. \A b : Goto(t, b) => pc'[t] = b
  BY DEF LocalInv, Goto
<1>2. \A l : own' = [own EXCEPT ![t] = l] => own'[t] = l
  BY DEF LocalInv
<1>3. \A a : Finish(t, a) => pc'[t] = "idle"
  BY <1>1 DEF Finish
<1>4. ASSUME NEW u, own' = [own EXCEPT ![t].utxo = u]
      PROVE  own'[t].utxo = u /\ own'[t].block = own[t].block
  <2>1. IsLocal(own[t])
    BY DEF LocalInv
  <2>2. own'[t] = [own[t] EXCEPT !.utxo = u]
    BY <1>2, <1>4
  <2> QED BY <2>1, <2>2, LocalUtxo
<1>5. ASSUME ProcessTransactions(t)
      PROVE  /\ UNCHANGED <<shared, overlapped>> /\ pc[t] = "process transactions"
             /\ \/ /\ pc'[t] = "push block" /\ own'[t].block = own[t].block
                   /\ own'[t].utxo = updateUnspentTransOuts(own[t].block.data, utxo)
                   /\ isValidCoinbaseTransaction(own[t].block.data[1], own[t].block.index)
                \/ pc'[t] = "idle"
  <2> DEFINE b == own[t].block
  <2>1. /\ UNCHANGED <<shared, overlapped>> /\ pc[t] = "process transactions"
        /\ \/ /\ areValidBlockTransactions(b.data, utxo, b.index)
              /\ own' = [own EXCEPT ![t].utxo = updateUnspentTransOuts(b.data, utxo)]
              /\ Goto(t, "push block")
           \/ Finish(t, "error")
    BY <1>5 DEF ProcessTransactions, world
  <2>2. areValidBlockTransactions(b.data, utxo, b.index)
          => isValidCoinbaseTransaction(b.data[1], b.index)
    BY DEF areValidBlockTransactions
  <2> QED BY <1>1, <1>3, <1>4, <2>1, <2>2
<1>6. ASSUME SetChain(t)
      PROVE  /\ pc[t] = "set chain" /\ pc'[t] = "set utxo" /\ chain' = own[t].chain
             /\ own'[t].utxo = UtxoAfter(own[t].chain)[Len(own[t].chain)]
             /\ UNCHANGED <<utxo, pool, stats, overlapped>>
  BY <1>1, <1>4, <1>6 DEF SetChain, world
<1>7. ASSUME NEW blocks, NewBlocksHandler(t, blocks)
      PROVE  /\ UNCHANGED <<shared, overlapped>> /\ pc[t] = "handle"
             /\ \/ pc'[t] = "addBlock"
                \/ pc'[t] = "replaceChain" /\ own'[t].chain = blocks
  BY <1>1, <1>2, <1>7, NothingAssign DEF NewBlocksHandler, world
<1> QED BY <1>5, <1>6, <1>7

-----------------------------------------------------------------------------
(* Lists *)

\* The chains and the pool are lists, and a chain has a block.
ListsInv ==
  /\ IsSeq(chain) /\ chain # <<>> /\ IsSeq(pool)
  /\ \A c \in peerChains : IsSeq(c) /\ c # <<>>
  /\ \A t \in Threads : pc[t] \in {"replaceChain", "set chain"} =>
       IsSeq(own[t].chain) /\ own[t].chain # <<>>

\* The elements of two lists one after the other.
LEMMA ConcatDef ==
  ASSUME NEW S, NEW a \in Seq(S), NEW b \in Seq(S), NEW r, r = a \o b
  PROVE  /\ r \in Seq(S) /\ Len(r) = Len(a) + Len(b)
         /\ \A i \in 1..Len(a) : r[i] = a[i]
         /\ \A i \in 1..Len(b) : r[i + Len(a)] = b[i]
<1>1. Len(a) \in Nat /\ Len(b) \in Nat
  OBVIOUS
<1>2. r \in Seq(S) /\ Len(r) = Len(a) + Len(b)
  OBVIOUS
<1>3. \A i \in 1..Len(a) : r[i] = a[i]
  BY <1>1
<1>4. ASSUME NEW i \in 1..Len(b) PROVE r[i + Len(a)] = b[i]
  BY <1>1
<1> QED BY <1>2, <1>3, <1>4

\* What is left of a list when the element at j is removed.
LEMMA RemoveAtShape ==
  ASSUME NEW s, IsSeq(s), NEW j \in DOMAIN s, NEW r, r = RemoveAt(s, j)
  PROVE  /\ IsSeq(r) /\ DOMAIN r = 1..(Len(s) - 1)
         /\ j \in 1..Len(s) /\ Len(s) \in Nat
         /\ \A i \in 1..(Len(s) - 1) : r[i] = IF i < j THEN s[i] ELSE s[i + 1]
<1>0. Len(s) \in Nat /\ DOMAIN s = 1..Len(s)
  BY IsSeqShape
<1> DEFINE S == {s[i] : i \in DOMAIN s}
<1>1. s \in Seq(S)
  BY DEF IsSeq
<1> HIDE DEF S
<1>2. PICK a : a = SubSeq(s, 1, j - 1)
  OBVIOUS
<1>3. PICK b : b = SubSeq(s, j + 1, Len(s))
  OBVIOUS
<1>4. r = a \o b
  BY <1>2, <1>3 DEF RemoveAt
<1>5. /\ a \in Seq(S) /\ Len(a) = j - 1 /\ \A i \in 1..(j - 1) : a[i] = s[i]
  BY <1>0, <1>1, <1>2
<1>6. /\ b \in Seq(S) /\ Len(b) = Len(s) - j
      /\ \A i \in 1..(Len(s) - j) : b[i] = s[i + j]
  BY <1>0, <1>1, <1>3
<1>7. /\ r \in Seq(S) /\ Len(r) = Len(a) + Len(b)
      /\ \A i \in 1..Len(a) : r[i] = a[i]
      /\ \A i \in 1..Len(b) : r[i + Len(a)] = b[i]
  <2>1. \A x \in Seq(S), y \in Seq(S) : \A z : z = x \o y =>
          /\ z \in Seq(S) /\ Len(z) = Len(x) + Len(y)
          /\ \A i \in 1..Len(x) : z[i] = x[i]
          /\ \A i \in 1..Len(y) : z[i + Len(x)] = y[i]
    BY ConcatDef
  <2>2. a \in Seq(S) /\ b \in Seq(S)
    BY <1>5, <1>6
  <2>3. \A z : z = a \o b =>
          /\ z \in Seq(S) /\ Len(z) = Len(a) + Len(b)
          /\ \A i \in 1..Len(a) : z[i] = a[i]
          /\ \A i \in 1..Len(b) : z[i + Len(a)] = b[i]
    BY <2>1, <2>2, Zenon
  <2> QED BY <1>4, <2>3, Zenon
<1>8. Len(r) = Len(s) - 1
  <2>1. (j - 1) + (Len(s) - j) = Len(s) - 1
    BY <1>0
  <2> QED BY <1>5, <1>6, <1>7, <2>1
<1>9. IsSeq(r) /\ DOMAIN r = 1..(Len(s) - 1)
  BY <1>7, <1>8, SeqIsSeq, IsSeqShape
<1>10. ASSUME NEW i \in 1..(Len(s) - 1) PROVE r[i] = IF i < j THEN s[i] ELSE s[i + 1]
  <2>1. CASE i < j
    <3>1. i \in 1..(j - 1)
      BY <1>0, <2>1
    <3> QED BY <1>5, <1>7, <2>1, <3>1
  <2>2. CASE ~(i < j)
    <3>1. PICK k \in 1..(Len(s) - j) : k + (j - 1) = i /\ k + j = i + 1
      <4>1. /\ i - (j - 1) \in 1..(Len(s) - j) /\ (i - (j - 1)) + (j - 1) = i
            /\ (i - (j - 1)) + j = i + 1
        BY <1>0, <2>2
      <4> QED BY <4>1
    <3>2. r[k + (j - 1)] = b[k] /\ b[k] = s[k + j]
      BY <1>5, <1>6, <1>7
    <3> QED BY <2>2, <3>1, <3>2
  <2> QED BY <2>1, <2>2
<1> QED BY <1>0, <1>9, <1>10

\* What the peers learn: the chain of this node, or one block more.
LEMMA PeerChainsNext ==
  ASSUME [Next]_vars
  PROVE  \/ peerChains' \subseteq peerChains \cup {chain}
         \/ \E c \in peerChains : \E b : peerChains' = peerChains \cup {Append(c, b)}
<1> USE DEF world
<1>1. CASE Request \/ HttpStep
  BY <1>1 DEF Request, StartSendTransaction, StartMining, StartRequest, HttpStep, ReadUtxo,
              ReadPool, CreateTransaction, CopyForPool, TakeFromPool, ReadStat, ReadLatestBlock,
              MineBlock, HttpLock, Lock, BroadcastStats, WriteStats
<1>2. ASSUME NEW t, SharedStep(t) PROVE peerChains' \subseteq peerChains \cup {chain}
  BY <1>2 DEF SharedStep, CheckForPool, PushTransaction, PushStat, BroadcastPool,
              ValidateBlock, ProcessTransactions, PushBlock, SetUnspentTransOuts,
              CopyForUpdate, BeginUpdate, CheckInputs, EraseTransaction, IteratorLost,
              BroadcastBlock, Acceptable
<1>3. ASSUME NEW t, Receive(t) \/ PeerStep(t) PROVE peerChains' \subseteq peerChains \cup {chain}
  BY <1>3 DEF Receive, Lock, PeerStep, Handle, NoMessage, HandleQuery, HandlePoolStats,
              NewBlocksHandler, HandlePool, CompareChains, SetChain, Acceptable
<1>4. CASE Peers
  BY <1>4 DEF Peers, PeerMines, PeerPays
<1>5. CASE UNCHANGED vars
  BY <1>5 DEF vars
<1> QED BY <1>1, <1>2, <1>3, <1>4, <1>5 DEF Next

\* The first chain is a list of one block; the other lists are empty.
LEMMA ListsInit == Init => ListsInv
<1> SUFFICES ASSUME Init PROVE ListsInv
  OBVIOUS
<1>1. IsSeq(<<>>)
  BY DEF IsSeq
<1>2. \A t \in Threads : pc[t] = "idle"
  BY DEF Init
<1>3. \A b : IsSeq(<<b>>) /\ <<b>> # <<>>
  BY IsSeqSingleton
<1> QED BY <1>1, <1>2, <1>3 DEF Init, ListsInv

\* Every step keeps the lists lists, and the chain of at least one block.
LEMMA ListsNext == LocalInv /\ MutexInv /\ ListsInv /\ [Next]_vars => ListsInv'
<1> SUFFICES ASSUME LocalInv, MutexInv, ListsInv, [Next]_vars PROVE ListsInv'
  OBVIOUS
<1>1. \A c \in peerChains' : IsSeq(c) /\ c # <<>>
  <2>1. \A c \in peerChains : \A b : IsSeq(Append(c, b)) /\ Append(c, b) # <<>>
    BY IsSeqAppend DEF ListsInv
  <2> QED BY <2>1, PeerChainsNext DEF ListsInv
<1>2. CASE Aside
  BY <1>1, <1>2 DEF ListsInv, Aside, shared, Busy
<1>3. ASSUME NEW t \in Threads, Alone(t), ListStep(t) PROVE ListsInv'
  <2>1. \A s \in Threads \ {t} : pc'[s] = pc[s] /\ own'[s] = own[s]
    BY <1>3, AloneFacts
  <2>2. ASSUME IsSeq(chain') /\ chain' # <<>>, IsSeq(pool'),
               pc'[t] \in {"replaceChain", "set chain"} =>
                 IsSeq(own'[t].chain) /\ own'[t].chain # <<>>
        PROVE  ListsInv'
    BY <1>1, <2>1, <2>2 DEF ListsInv
  <2>3. CASE CheckForPool(t) \/ ValidateBlock(t) \/ PushStat(t) \/ SetUnspentTransOuts(t)
    BY <2>2, <2>3, Effects DEF ListsInv, shared, Busy
  <2>4. CASE PushTransaction(t)
    <3>1. pool' = Append(pool, own[t].transaction) /\ pc'[t] = "push stat" /\ UNCHANGED chain
      BY <2>4, Effects
    <3>2. \A x : IsSeq(Append(pool, x))
      BY IsSeqAppend DEF ListsInv
    <3> QED BY <2>2, <3>1, <3>2 DEF ListsInv
  <2>5. CASE ProcessTransactions(t)
    BY <2>2, <2>5, EffectsOnLocals DEF ListsInv, shared
  <2>6. CASE PushBlock(t)
    <3>1. chain' = Append(chain, own[t].block) /\ pc'[t] = "set utxo" /\ UNCHANGED pool
      BY <2>6, Effects
    <3>2. \A b : IsSeq(Append(chain, b)) /\ Append(chain, b) # <<>>
      BY IsSeqAppend DEF ListsInv
    <3> QED BY <2>2, <3>1, <3>2 DEF ListsInv
  <2>7. CASE EraseTransaction(t)
    <3>1. PICK j \in DOMAIN pool : pool' = RemoveAt(pool, j)
      BY <2>7, EffectsOfUpdate
    <3>2. pc'[t] \notin Busy /\ UNCHANGED chain
      BY <2>7, EffectsOfUpdate
    <3>3. IsSeq(pool')
      BY <3>1, RemoveAtShape DEF ListsInv
    <3>4. pc'[t] \notin {"replaceChain", "set chain"}
      BY <3>2 DEF Busy
    <3> QED BY <2>2, <3>2, <3>3, <3>4 DEF ListsInv
  <2>11. CASE CheckInputs(t) \/ IteratorLost(t)
    <3>1. UNCHANGED <<chain, pool>> /\ pc'[t] \notin {"replaceChain", "set chain"}
      BY <2>11, EffectsOfUpdate DEF Busy, shared
    <3> QED BY <2>2, <3>1 DEF ListsInv
  <2>8. ASSUME NEW c \in peerChains, NEW blocks \in {<<getLatestBlock(c)>>, c},
               NewBlocksHandler(t, blocks)
        PROVE  ListsInv'
    <3>1. IsSeq(blocks) /\ blocks # <<>>
      BY <2>8, IsSeqSingleton DEF ListsInv
    <3> QED BY <2>2, <2>8, <3>1, EffectsOnLocals DEF ListsInv, shared
  <2>9. CASE CompareChains(t)
    BY <2>2, <2>9, Effects DEF ListsInv, shared
  <2>10. CASE SetChain(t)
    BY <2>2, <2>10, EffectsOnLocals DEF ListsInv
  <2> QED BY <1>3, <2>3, <2>4, <2>5, <2>6, <2>7, <2>8, <2>9, <2>10, <2>11 DEF ListStep
<1> QED BY <1>2, <1>3, StepKinds

-----------------------------------------------------------------------------
(* Coinbases *)

\* Every block of the chain starts with the coinbase of its height.
HasCoinbases(c) ==
  \A i \in DOMAIN c : isValidCoinbaseTransaction(c[i].data[1], c[i].index)

\* The blocks of the chain, and those on the way into it, have the coinbase of
\* their height.
CoinbaseInv ==
  /\ HasCoinbases(chain)
  /\ \A t \in Threads :
       /\ pc[t] = "push block" =>
            isValidCoinbaseTransaction(own[t].block.data[1], own[t].block.index)
       /\ pc[t] = "set chain" => HasCoinbases(own[t].chain)

\* The genesis block has the coinbase of height 0.
LEMMA CoinbaseInit == Init => CoinbaseInv
<1> SUFFICES ASSUME Init PROVE CoinbaseInv
  OBVIOUS
<1>1. PICK g : g = getGenesisBlock(Self, 1)
  OBVIOUS
<1>2. g.index = 0 /\ g.data = <<getCoinbaseTransaction(Self, 0)>>
  BY <1>1 DEF getGenesisBlock, Block
<1>3. isValidCoinbaseTransaction(g.data[1], g.index)
  <2>1. g.data[1] = getCoinbaseTransaction(Self, 0)
    BY <1>2
  <2>2. PICK o : o = TransOut(Self, COINBASE_AMOUNT)
    OBVIOUS
  <2>3. PICK outs : outs = <<o>>
    OBVIOUS
  <2>4. PICK x : x = g.data[1]
    OBVIOUS
  <2>5. x.transIns = {OutPoint(None, 0)} /\ x.transOuts = outs
    BY <2>1, <2>2, <2>3, <2>4 DEF getCoinbaseTransaction
  <2>6. Len(outs) = 1 /\ outs[1] = o /\ o.amount = COINBASE_AMOUNT
    BY <2>2, <2>3 DEF TransOut
  <2>7. OutPoint(None, 0).transOutIndex = 0
    BY DEF OutPoint
  <2>8. isValidCoinbaseTransaction(x, 0)
    BY <2>5, <2>6, <2>7 DEF isValidCoinbaseTransaction
  <2> QED BY <1>2, <2>4, <2>8
<1>4. chain = <<g>> /\ \A t \in Threads : pc[t] = "idle"
  BY <1>1 DEF Init
<1>5. HasCoinbases(<<g>>)
  BY <1>3, IsSeqSingleton DEF HasCoinbases
<1> QED BY <1>4, <1>5 DEF CoinbaseInv

\* A block joins the chain after it was validated, whatever other threads do.
LEMMA CoinbaseNext ==
  LocalInv /\ MutexInv /\ ListsInv /\ CoinbaseInv /\ [Next]_vars => CoinbaseInv'
<1> SUFFICES ASSUME LocalInv, MutexInv, ListsInv, CoinbaseInv, [Next]_vars PROVE CoinbaseInv'
  OBVIOUS
<1>1. CASE Aside
  BY <1>1 DEF CoinbaseInv, Aside, shared, Busy
<1>2. ASSUME NEW t \in Threads, Alone(t), ListStep(t) PROVE CoinbaseInv'
  <2>1. \A s \in Threads \ {t} : pc'[s] = pc[s] /\ own'[s] = own[s]
    BY <1>2, AloneFacts
  <2>2. ASSUME HasCoinbases(chain'),
               pc'[t] = "push block" =>
                 isValidCoinbaseTransaction(own'[t].block.data[1], own'[t].block.index),
               pc'[t] = "set chain" => HasCoinbases(own'[t].chain)
        PROVE  CoinbaseInv'
    BY <2>1, <2>2 DEF CoinbaseInv
  <2>3. CASE \/ CheckForPool(t) \/ ValidateBlock(t) \/ PushTransaction(t) \/ PushStat(t)
             \/ SetUnspentTransOuts(t)
    BY <2>2, <2>3, Effects DEF CoinbaseInv, shared, Busy
  <2>9. CASE CheckInputs(t) \/ EraseTransaction(t) \/ IteratorLost(t)
    <3>1. UNCHANGED chain /\ pc'[t] \notin {"push block", "set chain"}
      BY <2>9, EffectsOfUpdate DEF Busy, shared
    <3> QED BY <2>2, <3>1 DEF CoinbaseInv
  <2>4. CASE ProcessTransactions(t)
    BY <2>2, <2>4, EffectsOnLocals DEF CoinbaseInv, shared
  <2>5. CASE PushBlock(t)
    <3>1. /\ chain' = Append(chain, own[t].block) /\ pc'[t] = "set utxo"
          /\ isValidCoinbaseTransaction(own[t].block.data[1], own[t].block.index)
      BY <2>5, Effects DEF CoinbaseInv
    <3>2. PICK b : b = own[t].block
      OBVIOUS
    <3>3. PICK c : c = chain
      OBVIOUS
    <3>4. IsSeq(c) /\ HasCoinbases(c) /\ isValidCoinbaseTransaction(b.data[1], b.index)
      BY <3>1, <3>2, <3>3 DEF ListsInv, CoinbaseInv
    <3>5. HasCoinbases(Append(c, b))
      <4> SUFFICES ASSUME NEW d, d = Append(c, b) PROVE HasCoinbases(d)
        OBVIOUS
      <4>1. /\ IsSeq(d) /\ Len(c) \in Nat /\ DOMAIN c = 1..Len(c) /\ DOMAIN d = 1..(Len(c) + 1)
            /\ d[Len(c) + 1] = b /\ \A i \in 1..Len(c) : d[i] = c[i]
        BY <3>4, IsSeqAppend, IsSeqShape
      <4>2. \A i \in DOMAIN d : i \in DOMAIN c \/ i = Len(c) + 1
        BY <4>1
      <4> QED BY <3>4, <4>1, <4>2 DEF HasCoinbases
    <3> QED BY <2>2, <3>1, <3>2, <3>3, <3>5
  <2>6. ASSUME NEW blocks, NewBlocksHandler(t, blocks) PROVE CoinbaseInv'
    BY <2>2, <2>6, EffectsOnLocals DEF CoinbaseInv, shared
  <2>7. CASE CompareChains(t)
    <3>1. ASSUME pc[t] = "replaceChain", isBlockchainValid(own[t].chain, Self, Now)
          PROVE  HasCoinbases(own[t].chain)
      <4>1. DOMAIN own[t].chain = 1..Len(own[t].chain)
        BY <3>1, IsSeqShape DEF ListsInv
      <4> QED BY <3>1, <4>1
              DEF isBlockchainValid, areValidBlockTransactions, HasCoinbases
    <3> QED BY <2>2, <2>7, <3>1, Effects DEF CoinbaseInv, shared
  <2>8. CASE SetChain(t)
    BY <2>2, <2>8, EffectsOnLocals DEF CoinbaseInv
  <2> QED BY <1>2, <2>3, <2>4, <2>5, <2>6, <2>7, <2>8, <2>9 DEF ListStep
<1> QED BY <1>1, <1>2, StepKinds

\* No block of the chain has the coinbase of another height, though the coinbase
\* is made for the latest block that createNextBlock saw, the block for the one
\* that createRawNextBlock saw, and both may be gone when it is added.
THEOREM AlwaysCoinbasePerBlock == Spec => []CoinbasePerBlock
<1> DEFINE Inv == LocalInv /\ MutexInv /\ ListsInv /\ CoinbaseInv
<1>1. Init => Inv
  BY MutexInit, ListsInit, CoinbaseInit
<1>2. Inv /\ [Next]_vars => Inv'
  BY MutexNext, ListsNext, CoinbaseNext
<1>3. Inv => CoinbasePerBlock
  BY DEF CoinbaseInv, HasCoinbases, CoinbasePerBlock
<1> QED BY <1>1, <1>2, <1>3, PTL DEF Spec

-----------------------------------------------------------------------------
(* Changes that overlap *)

\* Two threads are not in the middle of the same change, unless that is noted.
OverlapInv ==
  \A w \in {"chain", "pool"} \ overlapped : \A s, t \in Threads :
    pc[s] \in Changing[w] /\ pc[t] \in Changing[w] => s = t

\* The steps in the middle of a change, spelled out.
LEMMA ChangingFacts ==
  /\ Changing["chain"] = {"process transactions", "push block", "set utxo", "set chain"}
  /\ Changing["pool"] = {"push transaction"}
  /\ \A w \in {"chain", "pool"} : Changing[w] \subseteq Busy
BY DEF Changing, Busy

\* A thread enters a change by BeginsChange only.
LEMMA EntersChange ==
  ASSUME LocalInv, MutexInv, NEW t \in Threads, ListStep(t)
  PROVE  /\ overlapped \subseteq overlapped'
         /\ \A w \in {"chain", "pool"} : pc'[t] \in Changing[w] =>
              \/ pc[t] \in Changing[w]
              \/ BeginsChange(t, w) /\ pc[t] \notin {"idle", "ended"}
<1>1. CASE CheckForPool(t)
  BY <1>1, Effects, ChangingFacts DEF BeginsChange
<1>2. CASE ValidateBlock(t)
  BY <1>2, Effects, ChangingFacts DEF BeginsChange
<1>3. CASE CompareChains(t)
  BY <1>3, Effects, ChangingFacts DEF BeginsChange
<1>4. CASE PushTransaction(t) \/ PushBlock(t)
  BY <1>4, Effects, ChangingFacts
<1>5. CASE PushStat(t) \/ SetUnspentTransOuts(t)
  BY <1>5, Effects, ChangingFacts
<1>8. CASE CheckInputs(t) \/ EraseTransaction(t) \/ IteratorLost(t)
  <2>1. /\ UNCHANGED overlapped
        /\ pc'[t] \notin Busy \/ pc'[t] = "erase transaction"
    BY <1>8, EffectsOfUpdate
  <2> QED BY <2>1, ChangingFacts
<1>6. CASE ProcessTransactions(t) \/ SetChain(t)
  BY <1>6, EffectsOnLocals, ChangingFacts
<1>7. ASSUME NEW blocks, NewBlocksHandler(t, blocks)
      PROVE  overlapped \subseteq overlapped' /\ \A w \in {"chain", "pool"} : pc'[t] \notin Changing[w]
  BY <1>7, EffectsOnLocals, ChangingFacts
<1> QED BY <1>1, <1>2, <1>3, <1>4, <1>5, <1>6, <1>7, <1>8 DEF ListStep

\* Nobody changes anything at first.
LEMMA OverlapInit == Init => OverlapInv
BY ChangingFacts DEF Init, OverlapInv

\* Who begins a change while another is in the middle of one notes it.
LEMMA OverlapNext == LocalInv /\ MutexInv /\ OverlapInv /\ [Next]_vars => OverlapInv'
<1> SUFFICES ASSUME LocalInv, MutexInv, OverlapInv, [Next]_vars PROVE OverlapInv'
  OBVIOUS
<1>1. CASE Aside
  <2>1. \A w \in {"chain", "pool"} : \A s \in Threads : pc'[s] \in Changing[w] => pc'[s] = pc[s]
    BY <1>1, ChangingFacts DEF Aside
  <2> QED BY <1>1, <2>1 DEF Aside, OverlapInv
<1>2. ASSUME NEW t \in Threads, Alone(t), ListStep(t) PROVE OverlapInv'
  <2>1. \A s \in Threads \ {t} : pc'[s] = pc[s]
    BY <1>2, AloneFacts
  <2>2. overlapped \subseteq overlapped'
    BY <1>2, EntersChange
  <2>3. ASSUME NEW w \in {"chain", "pool"} \ overlapped', NEW s \in Threads \ {t},
               pc'[t] \in Changing[w], pc[s] \in Changing[w]
        PROVE  FALSE
    <3>1. CASE pc[t] \in Changing[w]
      BY <2>2, <2>3, <3>1 DEF OverlapInv
    <3>2. CASE BeginsChange(t, w) /\ pc[t] \notin {"idle", "ended"}
      <4>1. http \notin {s, t}
        BY <2>3, <3>2 DEF BeginsChange
      <4>2. pc[s] \notin {"idle", "ended"}
        BY <2>3, ChangingFacts DEF Busy
      <4>3. mutex = s /\ mutex = t
        BY <2>3, <3>2, <4>1, <4>2, ThreadFacts DEF MutexInv
      <4> QED BY <2>3, <4>3
    <3> QED BY <1>2, <2>3, <3>1, <3>2, EntersChange
  <2> QED BY <2>1, <2>2, <2>3 DEF OverlapInv
<1> QED BY <1>1, <1>2, StepKinds

-----------------------------------------------------------------------------
(* Double spends *)

\* A transaction that is about to be pushed fits the pool, unless two threads
\* were about to push one.
DoubleSpendInv ==
  "pool" \notin overlapped =>
    /\ ~hasDuplicates(pool)
    /\ \A t \in Threads : pc[t] = "push transaction" =>
         isValidTransForPool(own[t].transaction, pool)

\* A transaction that fits adds no duplicate.
LEMMA PushKeepsApart ==
  ASSUME NEW p, IsSeq(p), ~hasDuplicates(p), NEW x, isValidTransForPool(x, p)
  PROVE  ~hasDuplicates(Append(p, x))
<1> SUFFICES ASSUME NEW q, q = Append(p, x) PROVE ~hasDuplicates(q)
  OBVIOUS
<1>1. /\ Len(p) \in Nat /\ DOMAIN p = 1..Len(p) /\ DOMAIN q = 1..(Len(p) + 1)
      /\ q[Len(p) + 1] = x /\ \A i \in 1..Len(p) : q[i] = p[i]
  BY IsSeqAppend, IsSeqShape
<1>2. \A i \in DOMAIN q : i \in DOMAIN p \/ i = Len(p) + 1
  BY <1>1
<1>3. \A i \in DOMAIN p : p[i].transIns \cap x.transIns = {}
  BY DEF isValidTransForPool, ConsumedBy
<1> QED BY <1>1, <1>2, <1>3 DEF hasDuplicates

\* What is left when one transaction is erased has no duplicates that were not there.
LEMMA EraseKeepsApart ==
  ASSUME NEW p, IsSeq(p), NEW j \in DOMAIN p, NEW q, q = RemoveAt(p, j)
  PROVE  /\ \A i \in DOMAIN q : \E k \in DOMAIN p : k # j /\ q[i] = p[k]
         /\ ~hasDuplicates(p) => ~hasDuplicates(q)
         /\ \A x : isValidTransForPool(x, p) => isValidTransForPool(x, q)
<1>1. /\ DOMAIN p = 1..Len(p) /\ DOMAIN q = 1..(Len(p) - 1) /\ Len(p) \in Nat /\ j \in 1..Len(p)
      /\ \A i \in 1..(Len(p) - 1) : q[i] = IF i < j THEN p[i] ELSE p[i + 1]
  BY IsSeqShape, RemoveAtShape
<1> DEFINE old(i) == IF i < j THEN i ELSE i + 1
<1>2. \A i \in DOMAIN q : old(i) \in DOMAIN p /\ old(i) # j /\ q[i] = p[old(i)]
  BY <1>1
<1>3. \A x, y \in DOMAIN q : x # y => old(x) # old(y)
  BY <1>1
<1> HIDE DEF old
<1>4. ASSUME hasDuplicates(q) PROVE hasDuplicates(p)
  <2>1. PICK x \in DOMAIN q, y \in DOMAIN q :
          x # y /\ q[x].transIns \cap q[y].transIns # {}
    BY <1>4 DEF hasDuplicates
  <2>2. /\ old(x) \in DOMAIN p /\ old(y) \in DOMAIN p /\ old(x) # old(y)
        /\ p[old(x)].transIns \cap p[old(y)].transIns # {}
    BY <1>2, <1>3, <2>1
  <2> QED BY <2>2 DEF hasDuplicates
<1>5. ConsumedBy(q) \subseteq ConsumedBy(p)
  BY <1>2 DEF ConsumedBy
<1> QED BY <1>2, <1>4, <1>5 DEF isValidTransForPool

\* An empty pool spends nothing twice.
LEMMA DoubleSpendInit == Init => DoubleSpendInv
BY DEF Init, DoubleSpendInv, hasDuplicates

\* Without an overlap the pool is still the one the transaction was checked against.
LEMMA DoubleSpendNext ==
  LocalInv /\ MutexInv /\ ListsInv /\ OverlapInv /\ DoubleSpendInv /\ [Next]_vars
    => DoubleSpendInv'
<1> SUFFICES ASSUME LocalInv, MutexInv, ListsInv, OverlapInv, DoubleSpendInv, [Next]_vars
    PROVE  DoubleSpendInv'
  OBVIOUS
<1>1. CASE Aside
  BY <1>1 DEF Aside, shared, DoubleSpendInv, Busy
<1>2. ASSUME NEW t \in Threads, Alone(t), ListStep(t) PROVE DoubleSpendInv'
  <2> SUFFICES ASSUME "pool" \notin overlapped' PROVE DoubleSpendInv'
    BY DEF DoubleSpendInv
  <2>1. \A s \in Threads \ {t} : pc'[s] = pc[s] /\ own'[s] = own[s]
    BY <1>2, AloneFacts
  <2>2. "pool" \notin overlapped
    BY <1>2, EntersChange
  <2>3. /\ ~hasDuplicates(pool)
        /\ \A s \in Threads : pc[s] = "push transaction" =>
             isValidTransForPool(own[s].transaction, pool)
    BY <2>2 DEF DoubleSpendInv
  <2>4. ASSUME UNCHANGED pool,
               pc'[t] = "push transaction" => isValidTransForPool(own'[t].transaction, pool)
        PROVE  DoubleSpendInv'
    BY <2>1, <2>3, <2>4 DEF DoubleSpendInv
  <2>5. CASE CheckForPool(t)
    BY <2>4, <2>5, Effects DEF shared
  <2>6. CASE PushTransaction(t)
    <3>1. pc[t] = "push transaction" /\ pc'[t] = "push stat"
          /\ pool' = Append(pool, own[t].transaction)
      BY <2>6, Effects
    <3>2. ~hasDuplicates(pool')
      BY <2>3, <3>1, PushKeepsApart DEF ListsInv
    <3>3. \A s \in Threads \ {t} : pc[s] # "push transaction"
      BY <2>2, <3>1, ChangingFacts DEF OverlapInv
    <3> QED BY <2>1, <3>1, <3>2, <3>3 DEF DoubleSpendInv
  <2>7. CASE EraseTransaction(t)
    <3>1. PICK j \in DOMAIN pool : pool' = RemoveAt(pool, j)
      BY <2>7, EffectsOfUpdate
    <3>2. pc'[t] # "push transaction"
      BY <2>7, EffectsOfUpdate DEF Busy
    <3>3. ~hasDuplicates(pool')
          /\ \A x : isValidTransForPool(x, pool) => isValidTransForPool(x, pool')
      BY <2>3, <3>1, EraseKeepsApart DEF ListsInv
    <3> QED BY <2>1, <2>3, <3>2, <3>3 DEF DoubleSpendInv
  <2>11. CASE CheckInputs(t) \/ IteratorLost(t)
    BY <2>4, <2>11, EffectsOfUpdate DEF shared, Busy
  <2>8. CASE \/ ValidateBlock(t) \/ PushStat(t) \/ SetUnspentTransOuts(t) \/ PushBlock(t)
             \/ CompareChains(t)
    BY <2>4, <2>8, Effects DEF shared, Busy
  <2>9. CASE ProcessTransactions(t) \/ SetChain(t)
    BY <2>4, <2>9, EffectsOnLocals DEF shared
  <2>10. ASSUME NEW blocks, NewBlocksHandler(t, blocks) PROVE DoubleSpendInv'
    BY <2>4, <2>10, EffectsOnLocals DEF shared
  <2> QED BY <1>2, <2>5, <2>6, <2>7, <2>8, <2>9, <2>10, <2>11 DEF ListStep
<1> QED BY <1>1, <1>2, StepKinds

\* No two transactions of the pool consume the same output, unless the HTTP thread
\* and a peer thread have both checked theirs before either pushed it
\* (TransactionPool.cpp: addToPool takes no lock).
THEOREM DoubleSpendOnlyByOverlap == Spec => []DoubleSpendByOverlapOnly
<1> DEFINE Inv == LocalInv /\ MutexInv /\ ListsInv /\ OverlapInv /\ DoubleSpendInv
<1>1. Init => Inv
  BY MutexInit, ListsInit, OverlapInit, DoubleSpendInit
<1>2. Inv /\ [Next]_vars => Inv'
  BY MutexNext, ListsNext, OverlapNext, DoubleSpendNext
<1>3. Inv => DoubleSpendByOverlapOnly
  BY DEF DoubleSpendInv, DoubleSpendByOverlapOnly
<1> QED BY <1>1, <1>2, <1>3, PTL DEF Spec

-----------------------------------------------------------------------------
(* Unspent outputs *)

\* The unspent outputs of a chain.
UtxoOf(c) == UtxoAfter(c)[Len(c)]

\* The unspent outputs are those of the chain, or the thread that is changing the
\* chain is about to set them to those.
UtxoInv ==
  "chain" \notin overlapped /\ Running =>
    /\ (\A t \in Threads : pc[t] # "set utxo") => utxo = UtxoOf(chain)
    /\ \A t \in Threads :
         /\ pc[t] = "set utxo" => own[t].utxo = UtxoOf(chain)
         /\ pc[t] = "push block" =>
              own[t].utxo = updateUnspentTransOuts(own[t].block.data, utxo)

\* At first they are those of the genesis block.
LEMMA UtxoInit == Init => UtxoInv
<1> SUFFICES ASSUME Init PROVE UtxoInv
  OBVIOUS
<1>1. PICK g : g = getGenesisBlock(Self, 1)
  OBVIOUS
<1>2. chain = <<g>> /\ utxo = updateUnspentTransOuts(chain[1].data, {})
  BY <1>1 DEF Init
<1>3. chain[1] = g /\ Len(chain) = 1
  BY <1>2
<1>4. utxo = UtxoOf(chain)
  BY <1>2, <1>3, UtxoAfterSingleton DEF UtxoOf
<1>5. \A t \in Threads : pc[t] = "idle"
  BY DEF Init
<1> QED BY <1>4, <1>5 DEF UtxoInv

\* Without an overlap a change of the chain starts from the outputs of the chain.
LEMMA UtxoNext ==
  LocalInv /\ MutexInv /\ ListsInv /\ OverlapInv /\ UtxoInv /\ [Next]_vars => UtxoInv'
<1> SUFFICES ASSUME LocalInv, MutexInv, ListsInv, OverlapInv, UtxoInv, [Next]_vars
    PROVE  UtxoInv'
  OBVIOUS
<1> SUFFICES ASSUME "chain" \notin overlapped', Running' PROVE UtxoInv'
  BY DEF UtxoInv
<1>1. Running
  BY EndedStays
<1>2. CASE Aside
  <2>1. \A s \in Threads : \/ pc'[s] = pc[s] /\ own'[s] = own[s]
                           \/ pc'[s] \notin Busy /\ pc[s] \notin Busy
    BY <1>2, Zenon DEF Aside
  <2>2. UNCHANGED <<chain, utxo, overlapped>>
    BY <1>2 DEF Aside, shared
  <2> QED BY <1>1, <2>1, <2>2 DEF UtxoInv, Busy
<1>3. ASSUME NEW t \in Threads, Alone(t), ListStep(t) PROVE UtxoInv'
  <2>1. \A s \in Threads \ {t} : pc'[s] = pc[s] /\ own'[s] = own[s]
    BY <1>3, AloneFacts
  <2>2. "chain" \notin overlapped
    BY <1>3, EntersChange
  <2>3. /\ (\A s \in Threads : pc[s] # "set utxo") => utxo = UtxoOf(chain)
        /\ \A s \in Threads :
             /\ pc[s] = "set utxo" => own[s].utxo = UtxoOf(chain)
             /\ pc[s] = "push block" =>
                  own[s].utxo = updateUnspentTransOuts(own[s].block.data, utxo)
    BY <1>1, <2>2 DEF UtxoInv
  <2>4. pc[t] \in Changing["chain"] => \A s \in Threads \ {t} : pc[s] \notin Changing["chain"]
    BY <2>2 DEF OverlapInv
  <2>5. ASSUME UNCHANGED <<chain, utxo>>, pc[t] # "set utxo", pc'[t] # "set utxo",
               pc'[t] = "push block" =>
                 own'[t].utxo = updateUnspentTransOuts(own'[t].block.data, utxo)
        PROVE  UtxoInv'
    BY <2>1, <2>3, <2>5 DEF UtxoInv
  <2>6. CASE \/ CheckForPool(t) \/ PushTransaction(t) \/ PushStat(t) \/ ValidateBlock(t)
             \/ CompareChains(t)
    BY <2>5, <2>6, Effects DEF shared, Busy
  <2>13. CASE CheckInputs(t) \/ EraseTransaction(t) \/ IteratorLost(t)
    <3>1. /\ UNCHANGED <<chain, utxo>> /\ pc[t] # "set utxo"
          /\ pc'[t] \notin {"set utxo", "push block"}
      BY <2>13, EffectsOfUpdate DEF shared, Busy
    <3> QED BY <2>5, <3>1
  <2>7. CASE ProcessTransactions(t)
    BY <2>5, <2>7, EffectsOnLocals DEF shared
  <2>8. ASSUME NEW blocks, NewBlocksHandler(t, blocks) PROVE UtxoInv'
    BY <2>5, <2>8, EffectsOnLocals DEF shared
  <2>9. ASSUME pc[t] \in Changing["chain"], pc'[t] = "set utxo", own'[t].utxo = UtxoOf(chain')
        PROVE  UtxoInv'
    BY <2>1, <2>4, <2>9, ChangingFacts DEF UtxoInv
  <2>10. CASE PushBlock(t)
    <3>1. /\ pc[t] = "push block" /\ pc'[t] = "set utxo" /\ own'[t] = own[t]
          /\ chain' = Append(chain, own[t].block)
      BY <2>10, Effects
    <3>2. \A s \in Threads : pc[s] # "set utxo"
      BY <2>4, <3>1, ChangingFacts
    <3>3. own[t].utxo = updateUnspentTransOuts(own[t].block.data, UtxoOf(chain))
      BY <2>3, <3>1, <3>2
    <3>4. \A b : UtxoOf(Append(chain, b)) = updateUnspentTransOuts(b.data, UtxoOf(chain))
      <4> SUFFICES ASSUME NEW b
          PROVE UtxoOf(Append(chain, b)) = updateUnspentTransOuts(b.data, UtxoOf(chain))
        OBVIOUS
      <4>1. IsSeq(chain) /\ Len(Append(chain, b)) = Len(chain) + 1
        BY IsSeqAppend DEF ListsInv
      <4> QED BY <4>1, UtxoAfterAppend DEF UtxoOf
    <3> QED BY <2>9, <3>1, <3>3, <3>4, ChangingFacts
  <2>11. CASE SetChain(t)
    <3>1. /\ pc[t] = "set chain" /\ pc'[t] = "set utxo" /\ chain' = own[t].chain
          /\ own'[t].utxo = UtxoOf(own[t].chain)
      BY <2>11, EffectsOnLocals DEF UtxoOf
    <3> QED BY <2>9, <3>1, ChangingFacts
  <2>12. CASE SetUnspentTransOuts(t)
    <3>1. /\ pc[t] = "set utxo" /\ pc'[t] \notin Busy
          /\ utxo' = own[t].utxo /\ UNCHANGED chain
      BY <2>12, Effects
    <3>2. \A s \in Threads : pc'[s] # "set utxo" /\ pc'[s] # "push block"
      BY <2>1, <2>4, <3>1, ChangingFacts DEF Busy
    <3>3. utxo' = UtxoOf(chain')
      BY <2>3, <3>1
    <3> QED BY <3>2, <3>3 DEF UtxoInv
  <2> QED BY <1>3, <2>6, <2>7, <2>8, <2>10, <2>11, <2>12, <2>13 DEF ListStep
<1> QED BY <1>2, <1>3, StepKinds

\* When nobody is changing them, the unspent outputs are those of the chain,
\* unless the HTTP thread and a peer thread were changing the chain at one time
\* (Blockchain.cpp: the lists of BlockChain have no lock of their own).
THEOREM UtxoLostOnlyByOverlap == Spec => []UtxoLostByOverlapOnly
<1> DEFINE Inv == LocalInv /\ MutexInv /\ ListsInv /\ OverlapInv /\ UtxoInv
<1>1. Init => Inv
  BY MutexInit, ListsInit, OverlapInit, UtxoInit
<1>2. Inv /\ [Next]_vars => Inv'
  BY MutexNext, ListsNext, OverlapNext, UtxoNext
<1>3. Inv => UtxoLostByOverlapOnly
  BY DEF UtxoInv, UtxoLostByOverlapOnly, UtxoMatchesChain, Quiet, UtxoOf
<1> QED BY <1>1, <1>2, <1>3, PTL DEF Spec

-----------------------------------------------------------------------------
(* The statistics of the pool *)

\* The identifiers in a list of statistics.
Ids(s) == {s[k] : k \in DOMAIN s}

\* To remove the first e removes nothing else.
LEMMA RemoveFirstKeeps ==
  ASSUME NEW s, IsSeq(s), NEW e
  PROVE  IsSeq(RemoveFirst(s, e)) /\ Ids(s) \ {e} \subseteq Ids(RemoveFirst(s, e))
<1>0. Len(s) \in Nat /\ DOMAIN s = 1..Len(s)
  BY IsSeqShape
<1>1. CASE ~ \E i \in 1..Len(s) : s[i] = e
  BY <1>1 DEF RemoveFirst
<1>2. CASE \E i \in 1..Len(s) : s[i] = e
  <2> DEFINE I == {i \in 1..Len(s) : s[i] = e}
  <2>1. PICK k \in I : \A i \in I : k <= i
    <3>1. I \in SUBSET Nat /\ I # {}
      BY <1>0, <1>2
    <3> HIDE DEF I
    <3> QED BY <3>1, NatMinimum
  <2>2. Min(I) \in I
    <3> HIDE DEF I
    <3> QED BY <2>1 DEF Min
  <2>3. SelectInSeq(s, LAMBDA v : v = e) = Min(I)
    BY <1>2 DEF SelectInSeq
  <2>4. PICK j : j = Min(I) /\ j \in 1..Len(s) /\ s[j] = e
    BY <2>2
  <2>5. RemoveFirst(s, e) = RemoveAt(s, j)
    BY <1>2, <2>3, <2>4 DEF RemoveFirst
  <2> HIDE DEF I
  <2>6. PICK r : r = RemoveAt(s, j)
    OBVIOUS
  <2>7. /\ IsSeq(r) /\ DOMAIN r = 1..(Len(s) - 1)
        /\ \A i \in 1..(Len(s) - 1) : r[i] = IF i < j THEN s[i] ELSE s[i + 1]
    BY <1>0, <2>4, <2>6, RemoveAtShape
  <2>8. ASSUME NEW i \in 1..Len(s), i # j PROVE s[i] \in Ids(r)
    <3>1. CASE i < j
      <4>1. i \in 1..(Len(s) - 1)
        BY <1>0, <2>4, <3>1
      <4> QED BY <2>7, <3>1, <4>1 DEF Ids
    <3>2. CASE i > j
      <4>1. i - 1 \in 1..(Len(s) - 1) /\ ~(i - 1 < j) /\ (i - 1) + 1 = i
        BY <1>0, <2>4, <3>2
      <4> QED BY <2>7, <4>1 DEF Ids
    <3> QED BY <1>0, <2>4, <2>8, <3>1, <3>2
  <2>9. Ids(s) \ {e} \subseteq Ids(r)
    BY <1>0, <2>4, <2>8 DEF Ids
  <2> QED BY <2>5, <2>6, <2>7, <2>9
<1> QED BY <1>1, <1>2

\* Between the two steps for a transaction: of its receipt, or of its removal.
Between == {"push stat", "erase transaction"}

\* The times of receipt, and the threads that have one list still to change.
HasStats(x) == \/ getTransactionId(x) \in Ids(stats)
               \/ \E t \in Threads : pc[t] \in Between /\ own[t].transaction = x

\* Every transaction of the pool has its time of receipt, or a thread is between
\* its two steps.  What a thread erases has inputs: so no other transaction of a
\* pool without double spends is equal to it.
StatsInv ==
  /\ IsSeq(stats)
  /\ \A t \in Threads : pc[t] = "erase transaction" => own[t].transaction.transIns # {}
  /\ Running /\ "pool" \notin overlapped => \A i \in DOMAIN pool : HasStats(pool[i])

\* The first pool is empty.
LEMMA StatsInit == Init => StatsInv
BY DEF Init, StatsInv, IsSeq

\* deleteStat removes the time of the transaction that is erased next, no other.
LEMMA StatsNext ==
  LocalInv /\ MutexInv /\ ListsInv /\ DoubleSpendInv /\ StatsInv /\ [Next]_vars => StatsInv'
<1> SUFFICES ASSUME LocalInv, MutexInv, ListsInv, DoubleSpendInv, StatsInv, [Next]_vars
    PROVE  StatsInv'
  OBVIOUS
<1> DEFINE Sound == Running /\ "pool" \notin overlapped
<1>0. IsSeq(stats) /\ IsSeq(pool) /\ DOMAIN pool = 1..Len(pool) /\ Len(pool) \in Nat
  BY IsSeqShape DEF StatsInv, ListsInv
<1>3. \A t \in Threads : pc[t] = "erase transaction" => own[t].transaction.transIns # {}
  BY DEF StatsInv
<1>4. Running' => Running
  BY EndedStays
<1>5. Sound => ~hasDuplicates(pool) /\ \A i \in DOMAIN pool : HasStats(pool[i])
  BY DEF StatsInv, DoubleSpendInv
<1>1. CASE Aside
  <2>1. UNCHANGED <<pool, stats, overlapped>>
    BY <1>1 DEF Aside, shared
  <2>2. \A t \in Threads : pc'[t] = "erase transaction" => pc'[t] = pc[t] /\ own'[t] = own[t]
    BY <1>1 DEF Aside, Busy
  <2>3. ASSUME Running', NEW t \in Threads, pc[t] \in Between
        PROVE  pc'[t] = pc[t] /\ own'[t] = own[t]
    BY <1>1, <2>3 DEF Aside, Busy, Between
  <2>4. Sound' => \A i \in DOMAIN pool' : HasStats(pool[i])'
    BY <1>4, <1>5, <2>1, <2>3 DEF HasStats
  <2> QED BY <1>0, <1>3, <2>1, <2>2, <2>4 DEF StatsInv
<1>2. ASSUME NEW t \in Threads, Alone(t), ListStep(t) PROVE StatsInv'
  <2>1. \A s \in Threads \ {t} : pc'[s] = pc[s] /\ own'[s] = own[s]
    BY <1>2, AloneFacts
  <2>0. Sound' => Sound
    BY <1>2, <1>4, EntersChange
  <2>a. ASSUME IsSeq(stats'),
               pc'[t] = "erase transaction" => own'[t].transaction.transIns # {},
               Sound' => \A i \in DOMAIN pool' : HasStats(pool[i])'
        PROVE  StatsInv'
    BY <1>3, <2>1, <2>a DEF StatsInv
  <2> HIDE DEF Sound
  <2>2. ASSUME UNCHANGED <<pool, stats>>, pc[t] \notin Between,
               pc'[t] # "erase transaction"
        PROVE  StatsInv'
    <3>1. \A x : HasStats(x) => HasStats(x)'
      BY <2>1, <2>2 DEF HasStats
    <3> QED BY <1>0, <1>5, <2>0, <2>a, <2>2, <3>1
  <2>3. CASE PushTransaction(t)
    <3>1. /\ pc[t] = "push transaction" /\ pc'[t] = "push stat" /\ own'[t] = own[t]
          /\ pool' = Append(pool, own[t].transaction) /\ UNCHANGED stats
      BY <2>3, Effects
    <3>2. \A x : HasStats(x) => HasStats(x)'
      BY <2>1, <3>1 DEF HasStats, Between
    <3>3. \A x : x = own[t].transaction => HasStats(x)'
      BY <3>1 DEF HasStats, Between
    <3>4. \A x, q : q = Append(pool, x) =>
            \A i \in DOMAIN q : q[i] = x \/ \E j \in DOMAIN pool : q[i] = pool[j]
      <4> SUFFICES ASSUME NEW x, NEW q, q = Append(pool, x)
          PROVE  \A i \in DOMAIN q : q[i] = x \/ \E j \in DOMAIN pool : q[i] = pool[j]
        OBVIOUS
      <4>1. /\ DOMAIN q = 1..(Len(pool) + 1) /\ q[Len(pool) + 1] = x
            /\ \A i \in 1..Len(pool) : q[i] = pool[i]
        BY <1>0, IsSeqAppend, IsSeqShape
      <4>2. \A i \in DOMAIN q : i \in 1..Len(pool) \/ i = Len(pool) + 1
        BY <1>0, <4>1
      <4> QED BY <1>0, <4>1, <4>2
    <3>5. \A i \in DOMAIN pool' : pool'[i] = own[t].transaction
                                  \/ \E j \in DOMAIN pool : pool'[i] = pool[j]
      <4>1. PICK x : x = own[t].transaction
        OBVIOUS
      <4>2. PICK q : q = pool'
        OBVIOUS
      <4>3. q = Append(pool, x)
        BY <3>1, <4>1, <4>2
      <4> QED BY <3>4, <4>1, <4>2, <4>3
    <3>6. Sound' => \A i \in DOMAIN pool' : HasStats(pool[i])'
      BY <1>5, <2>0, <3>2, <3>3, <3>5
    <3> QED BY <1>0, <2>a, <3>1, <3>6
  <2>4. CASE PushStat(t)
    <3>1. /\ pc[t] = "push stat" /\ UNCHANGED pool /\ pc'[t] # "erase transaction"
          /\ stats' = Append(stats, getTransactionId(own[t].transaction))
      BY <2>4, Effects DEF Busy
    <3>2. \A e : /\ IsSeq(Append(stats, e))
                 /\ Ids(stats) \cup {e} \subseteq Ids(Append(stats, e))
      <4> SUFFICES ASSUME NEW e, NEW r, r = Append(stats, e)
          PROVE  IsSeq(r) /\ Ids(stats) \cup {e} \subseteq Ids(r)
        OBVIOUS
      <4>1. /\ IsSeq(r) /\ Len(stats) \in Nat /\ DOMAIN stats = 1..Len(stats)
            /\ DOMAIN r = 1..(Len(stats) + 1) /\ r[Len(stats) + 1] = e
            /\ \A i \in 1..Len(stats) : r[i] = stats[i]
        BY <1>0, IsSeqAppend, IsSeqShape
      <4>2. Len(stats) + 1 \in DOMAIN r /\ \A i \in DOMAIN stats : i \in DOMAIN r
        BY <4>1
      <4> QED BY <4>1, <4>2 DEF Ids
    <3>3. \A x : HasStats(x) => HasStats(x)'
      BY <2>1, <3>1, <3>2 DEF HasStats
    <3>4. IsSeq(stats')
      BY <3>1, <3>2
    <3> QED BY <1>5, <2>0, <2>a, <3>1, <3>3, <3>4
  <2>b. PICK x : x = own[t].transaction
    OBVIOUS
  <2>c. ASSUME Sound, NEW i \in DOMAIN pool, NEW j \in DOMAIN pool, i # j,
               pool[j].transIns # {}
        PROVE  getTransactionId(pool[i]) # getTransactionId(pool[j])
    <3>1. pool[i].transIns \cap pool[j].transIns = {}
      BY <1>5, <2>c DEF hasDuplicates
    <3>2. pool[i].transIns # pool[j].transIns
      BY <2>c, <3>1
    <3> QED BY <3>2 DEF getTransactionId
  <2>5. CASE CheckInputs(t)
    <3>1. CASE pc'[t] \notin Busy /\ UNCHANGED stats
      BY <2>2, <2>5, <3>1, EffectsOfUpdate DEF Busy, Between
    <3>2. CASE /\ pc'[t] = "erase transaction" /\ own'[t] = own[t]
               /\ stats' = RemoveFirst(stats, getTransactionId(x)) /\ x.transIns # {}
               /\ \E j \in DOMAIN pool : pool[j] = x
      <4>1. pc[t] = "updatePool" /\ UNCHANGED pool
        BY <2>5, EffectsOfUpdate
      <4>2. PICK j \in DOMAIN pool : pool[j] = x
        BY <3>2
      <4>3. /\ IsSeq(stats')
            /\ \A e : e # getTransactionId(x) /\ e \in Ids(stats) => e \in Ids(stats')
        BY <1>0, <3>2, RemoveFirstKeeps
      <4>4. ASSUME Sound, NEW i \in DOMAIN pool PROVE HasStats(pool[i])'
        <5>1. CASE i = j
          BY <2>b, <3>2, <4>1, <4>2, <5>1 DEF HasStats, Between
        <5>2. CASE i # j
          <6>1. getTransactionId(pool[i]) # getTransactionId(x)
            BY <2>c, <3>2, <4>2, <4>4, <5>2
          <6>2. HasStats(pool[i])
            BY <1>5, <4>4
          <6>3. pc[t] \notin Between
            BY <4>1 DEF Between
          <6> QED BY <2>1, <4>1, <4>3, <6>1, <6>2, <6>3 DEF HasStats
        <5> QED BY <5>1, <5>2
      <4> QED BY <2>0, <2>a, <2>b, <3>2, <4>1, <4>3, <4>4
    <3> QED BY <2>5, <2>b, <3>1, <3>2, EffectsOfUpdate
  <2>9. CASE EraseTransaction(t)
    <3>1. /\ pc[t] = "erase transaction" /\ pc'[t] \notin Busy /\ UNCHANGED stats
      BY <2>9, EffectsOfUpdate
    <3>2. PICK j \in DOMAIN pool : pool[j] = x /\ pool' = RemoveAt(pool, j)
      BY <2>9, <2>b, EffectsOfUpdate
    <3>3. ASSUME Sound, NEW k \in DOMAIN pool, k # j, NEW y, y = pool[k] PROVE HasStats(y)'
      <4>1. y # x
        <5>1. pool[j].transIns # {}
          BY <1>3, <2>b, <3>1, <3>2
        <5> QED BY <2>c, <3>2, <3>3, <5>1
      <4>2. HasStats(y)
        BY <1>5, <3>3
      <4> QED BY <2>1, <2>b, <3>1, <4>1, <4>2 DEF HasStats
    <3>4. \A i \in DOMAIN pool' : \E k \in DOMAIN pool : k # j /\ pool'[i] = pool[k]
      BY <1>0, <3>2, EraseKeepsApart
    <3>5. Sound => \A i \in DOMAIN pool' : HasStats(pool[i])'
      BY <3>3, <3>4
    <3>6. pc'[t] # "erase transaction"
      BY <3>1 DEF Busy
    <3> QED BY <1>0, <2>0, <2>a, <3>1, <3>5, <3>6
  <2>10. CASE IteratorLost(t)
    <3>1. /\ UNCHANGED <<pool, stats>> /\ pc'[t] # "erase transaction" /\ pc[t] # "push stat"
          /\ \A i \in DOMAIN pool : pool[i] # x
      BY <2>10, <2>b, EffectsOfUpdate DEF shared, Busy
    <3>2. ASSUME NEW y, y # x, HasStats(y) PROVE HasStats(y)'
      BY <2>1, <2>b, <3>1, <3>2 DEF HasStats
    <3> QED BY <1>0, <1>5, <2>0, <2>a, <3>1, <3>2
  <2>6. CASE \/ CheckForPool(t) \/ ValidateBlock(t) \/ SetUnspentTransOuts(t) \/ PushBlock(t)
             \/ CompareChains(t)
    BY <2>2, <2>6, Effects DEF shared, Busy, Between
  <2>7. CASE ProcessTransactions(t) \/ SetChain(t)
    BY <2>2, <2>7, EffectsOnLocals DEF shared, Between
  <2>8. ASSUME NEW blocks, NewBlocksHandler(t, blocks) PROVE StatsInv'
    BY <2>2, <2>8, EffectsOnLocals DEF shared, Between
  <2> QED BY <1>2, <2>3, <2>4, <2>5, <2>6, <2>7, <2>8, <2>9, <2>10 DEF ListStep
<1> QED BY <1>1, <1>2, StepKinds

\* Each transaction of the pool has its time of receipt, or a thread is between its
\* two steps for that transaction (TransactionPool.cpp:50-51 and 78-79): no race of
\* two walks through the pool takes the time from a transaction that stays.
THEOREM AlwaysPoolHasStats == Spec => []PoolHasStats
<1> DEFINE Inv == LocalInv /\ MutexInv /\ ListsInv /\ OverlapInv /\ DoubleSpendInv /\ StatsInv
<1>1. Init => Inv
  BY MutexInit, ListsInit, OverlapInit, DoubleSpendInit, StatsInit
<1>2. Inv /\ [Next]_vars => Inv'
  BY MutexNext, ListsNext, OverlapNext, DoubleSpendNext, StatsNext
<1>3. Inv => PoolHasStats
  BY DEF StatsInv, HasStats, Ids, Between, PoolHasStats
<1> QED BY <1>1, <1>2, <1>3, PTL DEF Spec
=============================================================================
