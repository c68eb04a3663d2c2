------------------------ MODULE ChainTransferProofs ------------------------
(***************************************************************************)
(* The transfer of a chain block by block implements the receipt of whole  *)
(* chains: every step of ChainTransfer is a step of SkanCoin, or changes   *)
(* nothing there.                                                          *)
(***************************************************************************)
EXTENDS ChainTransfer, SkanCoinProofs

-----------------------------------------------------------------------------
(* Beginnings of chains *)

\* The beginning of a linked chain is linked.
LEMMA FirstLinked ==
  ASSUME NEW c, IsSeq(c), Linked(c), NEW k \in 1..Len(c)
  PROVE  /\ IsSeq(SubSeq(c, 1, k)) /\ SubSeq(c, 1, k) # <<>> /\ Linked(SubSeq(c, 1, k))
         /\ getLatestBlock(SubSeq(c, 1, k)) = c[k]
<1> SUFFICES ASSUME NEW p, p = SubSeq(c, 1, k)
    PROVE IsSeq(p) /\ p # <<>> /\ Linked(p) /\ getLatestBlock(p) = c[k]
  OBVIOUS
<1>1. Len(c) \in Nat /\ k \in Nat /\ k >= 1 /\ k <= Len(c) /\ k \in 0..Len(c)
  BY IsSeqShape
<1>2. IsSeq(p) /\ Len(p) = k /\ \A i \in 1..k : p[i] = c[i]
  BY <1>1, IsSeqFirst
<1>3. 1 \in 1..k /\ k \in 1..k /\ \A i \in 2..k : i \in 1..k /\ i - 1 \in 1..k /\ i \in 2..Len(c)
  BY <1>1
<1>4. p # <<>>
  <2>1. Len(<<>>) = 0 /\ k # 0
    BY <1>1
  <2> QED BY <1>2, <2>1
<1>5. Linked(p)
  BY <1>2, <1>3 DEF Linked
<1>6. getLatestBlock(p) = c[k]
  BY <1>2, <1>3 DEF getLatestBlock
<1> QED BY <1>2, <1>4, <1>5, <1>6

\* With a chain the network knows all its beginnings: each was a chain that a
\* node held.
FirstKnown == \A c \in sentChains : \A k \in 1..Len(c) : SubSeq(c, 1, k) \in sentChains

\* A chain and its last block add the chain itself to the beginnings.
LEMMA FirstAppend ==
  ASSUME FirstKnown, NEW c \in sentChains, IsSeq(c), NEW b, NEW k \in 1..Len(Append(c, b))
  PROVE  SubSeq(Append(c, b), 1, k) \in sentChains \cup {Append(c, b)}
<1> SUFFICES ASSUME NEW d, d = Append(c, b), k \in 1..Len(d)
    PROVE SubSeq(d, 1, k) \in sentChains \cup {d}
  OBVIOUS
<1>1. IsSeq(d) /\ Len(d) = Len(c) + 1 /\ Len(c) \in Nat
  BY IsSeqShape, IsSeqAppend
<1>2. CASE k = Len(d)
  BY <1>1, <1>2, FirstAll
<1>3. CASE k # Len(d)
  <2>1. k \in 0..Len(c) /\ k \in 1..Len(c)
    BY <1>1, <1>3
  <2>2. SubSeq(d, 1, k) = SubSeq(c, 1, k)
    BY <2>1, FirstOfAppend
  <2> QED BY <2>1, <2>2 DEF FirstKnown
<1> QED BY <1>2, <1>3

\* A new chain is its only beginning.
LEMMA FirstOfInitial ==
  ASSUME NEW n, NEW time, NEW k \in 1..Len(InitialChain(n, time))
  PROVE  SubSeq(InitialChain(n, time), 1, k) = InitialChain(n, time)
<1> SUFFICES ASSUME NEW s, s = <<getGenesisBlock(n, time)>>, k \in 1..Len(s)
    PROVE SubSeq(s, 1, k) = s
  BY DEF InitialChain
<1>1. IsSeq(s) /\ Len(s) = 1
  BY IsSeqSingleton
<1>2. k = Len(s)
  BY <1>1
<1> QED BY <1>1, <1>2, FirstAll

\* It holds at the start.
LEMMA FirstInit == Init => FirstKnown
<1> SUFFICES ASSUME Init PROVE FirstKnown
  OBVIOUS
<1>1. \A c \in sentChains : \E n \in Nodes : c = InitialChain(n, clock[n])
  BY DEF Init
<1> QED BY <1>1, FirstOfInitial DEF FirstKnown

\* Every step of SkanCoin keeps it.
LEMMA FirstNext == IndInv /\ FirstKnown /\ [Next]_vars => FirstKnown'
<1> SUFFICES ASSUME IndInv, FirstKnown, [Next]_vars PROVE FirstKnown'
  OBVIOUS
<1>1. ASSUME UNCHANGED sentChains PROVE FirstKnown'
  BY <1>1 DEF FirstKnown
<1>2. ASSUME NEW n \in Nodes, FinishMining(n) PROVE FirstKnown'
  <2>1. CASE addBlockToBlockchain(n, mining[n])
    <3> DEFINE c == chain[n]
               b == mining[n]
    <3>1. sentChains' = sentChains \cup {Append(c, b)}
      BY <2>1 DEF addBlockToBlockchain, HoldChain
    <3>2. c \in sentChains /\ IsSeq(c)
      BY DEF IndInv, HeldInv, IsChain
    <3> HIDE DEF c, b
    <3>3. \A k \in 1..Len(Append(c, b)) : SubSeq(Append(c, b), 1, k) \in sentChains'
      BY <3>1, <3>2, FirstAppend
    <3> QED BY <3>1, <3>3 DEF FirstKnown
  <2>2. CASE UNCHANGED sentChains
    BY <1>1, <2>2
  <2> QED BY <1>2, <2>1, <2>2 DEF FinishMining
<1>3. ASSUME NEW n \in Nodes, NEW c \in sentChains,
             ReceiveLatest(n, c) \/ ReceiveBlockchain(n, c)
      PROVE  FirstKnown'
  BY <1>1, <1>3, LatestTaken, BlockchainTaken, TakenKnown
<1>4. ASSUME NEW n \in Nodes, Restart(n) PROVE FirstKnown'
  <2>1. sentChains' = sentChains \cup {InitialChain(n, clock[n])}
    BY <1>4 DEF Restart
  <2> QED BY <2>1, FirstOfInitial DEF FirstKnown
<1>5. ASSUME NEW n \in Nodes, NEW x,
             \/ SendTransaction(n, x) \/ createNextBlock(n)
             \/ createNextBlockWithTransaction(n, x) \/ ReceivePool(n, x) \/ Tick(n)
      PROVE  FirstKnown'
  BY <1>1, <1>5 DEF SendTransaction, createNextBlock, createNextBlockWithTransaction,
                    ReceivePool, Tick
<1>6. CASE UNCHANGED vars
  BY <1>1, <1>6 DEF vars
<1> QED BY <1>2, <1>3, <1>4, <1>5, <1>6 DEF Next, UserStep

-----------------------------------------------------------------------------
(* Lists of received blocks *)

\* The blocks of the chains of the network.
KnownBlocks == UNION {{c[i] : i \in DOMAIN c} : c \in sentChains}

\* A list of known blocks that begins with a first block and is valid as a
\* chain is a chain some node held: the last of its blocks names the others.
LEMMA ValidListKnown ==
  ASSUME IndInv, FirstKnown, NEW blocks \in Seq(KnownBlocks), blocks # <<>>,
         blocks[1].index = 0, NEW n, NEW now, isBlockchainValid(blocks, n, now)
  PROVE  blocks \in sentChains
<1>1. IsSeq(blocks)
  BY SeqIsSeq
<1>2. Len(blocks) \in Nat /\ Len(blocks) >= 1 /\ DOMAIN blocks = 1..Len(blocks)
  BY <1>1, IsSeqShape
<1>3. Linked(blocks)
  BY DEF isBlockchainValid, isBlockValid, Linked
<1>4. blocks[Len(blocks)] \in KnownBlocks
  BY <1>2
<1>5. PICK c \in sentChains : blocks[Len(blocks)] \in {c[i] : i \in DOMAIN c}
  BY <1>4 DEF KnownBlocks
<1>5a. PICK i \in DOMAIN c : c[i] = blocks[Len(blocks)]
  BY <1>5
<1>6. IsSeq(c) /\ Linked(c) /\ i \in 1..Len(c)
  BY IsSeqShape DEF IndInv, HeldInv, ChainLinked, IsChain
<1> SUFFICES ASSUME NEW p, p = SubSeq(c, 1, i) PROVE blocks \in sentChains
  OBVIOUS
<1>7. IsSeq(p) /\ p # <<>> /\ Linked(p) /\ getLatestBlock(p) = getLatestBlock(blocks)
  BY <1>5a, <1>6, FirstLinked DEF getLatestBlock
<1>8. p = blocks
  BY <1>1, <1>3, <1>7, LinkedTip
<1> QED BY <1>6, <1>8 DEF FirstKnown

\* A message about a block.
Messages(K) == [block : K, isLast : BOOLEAN]

\* All that travels, is left to send or was collected are blocks of K, whatever
\* was lost, and a list of collected blocks was begun by a first block only.
TravelsFrom(K, transit, loops, lists) ==
  /\ transit = [k \in Connections |-> transit[k]]
  /\ \A k \in Connections : transit[k] \in Seq(Messages(K))
  /\ loops = [n \in Nodes |-> loops[n]]
  /\ \A n \in Nodes : loops[n] # None =>
       /\ loops[n].connection \in Connections
       /\ loops[n].rest \in Seq(K) /\ loops[n].rest # <<>>
       /\ loops[n] = [connection |-> loops[n].connection, rest |-> loops[n].rest]
  /\ lists = [n \in Nodes |-> [m \in Nodes |-> lists[n][m]]]
  /\ \A n, m \in Nodes :
       /\ lists[n][m] \in Seq(K)
       /\ lists[n][m] # <<>> => lists[n][m][1].index = 0

\* What travels are known blocks, and a chain put together begins with a genesis block.
TravelInv == TravelsFrom(KnownBlocks, inTransit, sending, oncomingChains)

\* The inductive invariant.
TransferInv == IndInv /\ FirstKnown /\ TravelInv

\* What one more block makes of a list of collected blocks.
LEMMA ListGrows ==
  ASSUME NEW K, NEW o \in Seq(K), NEW b \in K, o # <<>> => o[1].index = 0,
         o # <<>> \/ b.index = 0
  PROVE  /\ Append(o, b) \in Seq(K) /\ Append(o, b) # <<>> /\ Append(o, b)[1].index = 0
<1>1. IsSeq(o) /\ Len(o) \in Nat /\ (o # <<>> => Len(o) >= 1) /\ (o = <<>> => Len(o) = 0)
  BY SeqIsSeq
<1>2. Append(o, b) \in Seq(K) /\ Append(o, b) # <<>>
  <2>1. Append(o, b) \in Seq(K)
    OBVIOUS
  <2>2. Append(o, b) # <<>>
    BY <1>1, IsSeqAppend, Zenon
  <2> QED BY <2>1, <2>2
<1>3. /\ \A i \in 1..Len(o) : Append(o, b)[i] = o[i]
      /\ Append(o, b)[Len(o) + 1] = b
  BY <1>1, IsSeqAppend
<1>4. Append(o, b)[1] \in {o[1], b} /\ (o = <<>> => Append(o, b)[1] = b)
      /\ (o # <<>> => Append(o, b)[1] = o[1])
  <2>1. CASE o = <<>>
    BY <1>1, <1>3, <2>1
  <2>2. CASE o # <<>>
    <3>1. 1 \in 1..Len(o)
      BY <1>1, <2>2
    <3> QED BY <1>3, <2>2, <3>1, Zenon
  <2> QED BY <2>1, <2>2, Zenon
<1> QED BY <1>2, <1>4

\* The list that ReceiveBlock hands over.
LEMMA CollectedList ==
  ASSUME TravelInv, NEW k \in Connections, inTransit[k] # <<>>,
         NEW m, m = Head(inTransit[k]),
         oncomingChains[k.to][k.from] # <<>> \/ m.block.index = 0,
         NEW blocks, blocks = Append(oncomingChains[k.to][k.from], m.block)
  PROVE  /\ blocks \in Seq(KnownBlocks) /\ blocks # <<>> /\ blocks[1].index = 0
<1> DEFINE o == oncomingChains[k.to][k.from]
<1>1. k.to \in Nodes /\ k.from \in Nodes
  BY ConnectionsAssumption
<1>2. o \in Seq(KnownBlocks) /\ (o # <<>> => o[1].index = 0)
  BY <1>1 DEF TravelInv, TravelsFrom
<1>3. m \in Messages(KnownBlocks)
  <2> DEFINE M == Messages(KnownBlocks)
  <2>1. inTransit[k] \in Seq(M)
    BY DEF TravelInv, TravelsFrom
  <2> HIDE DEF M
  <2>2. Head(inTransit[k]) \in M
    BY <2>1
  <2> QED BY <2>2 DEF M
<1>4. m.block \in KnownBlocks
  BY <1>3 DEF Messages
<1> QED BY <1>2, <1>4, ListGrows, ZenonT(40)

\* A list that is handed over is refused, or received as a whole chain.
LEMMA HandOverReceives ==
  ASSUME IndInv, FirstKnown, NEW n \in Nodes, NEW m, NEW blocks \in Seq(KnownBlocks),
         blocks # <<>>, blocks[1].index = 0, HandOver(n, m, blocks)
  PROVE  UNCHANGED vars \/ (blocks \in sentChains /\ ReceiveBlockchain(n, blocks))
<1> SUFFICES ASSUME ReceiveBlockchain(n, blocks) PROVE blocks \in sentChains
  BY DEF HandOver
<1>1. newBlocksHandler(n, blocks)
  BY DEF ReceiveBlockchain
<1>2. ~(Len(blocks) = 1 /\ getLatestBlock(blocks).index # 0)
  BY DEF getLatestBlock
<1>3. replaceChain(n, blocks)
  BY <1>1, <1>2 DEF newBlocksHandler
<1>4. isBlockchainValid(blocks, n, clock[n])
  BY <1>3 DEF replaceChain, replaceChainAccepts
<1> QED BY <1>4, ValidListKnown

\* Every step of the transfer is one of SkanCoin, or changes nothing there.
LEMMA TransferStep ==
  TransferInv /\ [TransferNext]_<<vars, transferVars>> => [Next]_vars
<1> SUFFICES ASSUME TransferInv, [TransferNext]_<<vars, transferVars>> PROVE [Next]_vars
  OBVIOUS
<1>1. ASSUME NEW k \in Connections, StartSending(k) PROVE [Next]_vars
  BY <1>1 DEF StartSending
<1>2. ASSUME NEW k \in Connections, ReceiveBlock(k) PROVE [Next]_vars
  <2> DEFINE m == Head(inTransit[k])
             blocks == Append(oncomingChains[k.to][k.from], m.block)
  <2>1. k.to \in Nodes
    BY ConnectionsAssumption
  <2>2. CASE UNCHANGED vars
    BY <2>2
  <2>3. CASE /\ oncomingChains[k.to][k.from] # <<>> \/ m.block.index = 0
             /\ HandOver(k.to, k.from, blocks)
    <3>1. inTransit[k] # <<>>
      BY <1>2 DEF ReceiveBlock
    <3>2. blocks \in Seq(KnownBlocks) /\ blocks # <<>> /\ blocks[1].index = 0
      BY <2>3, <3>1, CollectedList DEF TransferInv
    <3> HIDE DEF blocks
    <3>3. UNCHANGED vars \/ (blocks \in sentChains /\ ReceiveBlockchain(k.to, blocks))
      BY <2>1, <2>3, <3>2, HandOverReceives DEF TransferInv
    <3> QED BY <2>1, <3>3 DEF Next
  <2> QED BY <1>2, <2>2, <2>3 DEF ReceiveBlock
<1>3. ASSUME NEW n \in Nodes, SendBlock(n) PROVE [Next]_vars
  BY <1>3 DEF SendBlock
<1>4. ASSUME NEW n \in Nodes, RestartAndReconnect(n) PROVE [Next]_vars
  BY <1>4 DEF RestartAndReconnect, Next
<1>5. ASSUME NEW n \in Nodes, UserStep(n) \/ OtherMessages(n) \/ Tick(n) PROVE [Next]_vars
  BY <1>5 DEF OtherMessages, Next
<1>6. CASE UNCHANGED <<vars, transferVars>>
  BY <1>6
<1> QED BY <1>1, <1>2, <1>3, <1>4, <1>5, <1>6 DEF TransferNext

-----------------------------------------------------------------------------
(* What travels *)

\* Lists over a set are lists over a larger one.
LEMMA SeqGrows == ASSUME NEW S, NEW T, S \subseteq T PROVE Seq(S) \subseteq Seq(T)
<1> SUFFICES ASSUME NEW s \in Seq(S) PROVE s \in Seq(T)
  OBVIOUS
<1>1. Len(s) \in Nat /\ s \in [1..Len(s) -> S]
  OBVIOUS
<1>2. s \in [1..Len(s) -> T]
  BY <1>1
<1> QED BY <1>1, <1>2

\* No step forgets a chain.
LEMMA ChainsKept == IndInv /\ [Next]_vars => sentChains \subseteq sentChains'
<1> SUFFICES ASSUME IndInv, [Next]_vars PROVE sentChains \subseteq sentChains'
  OBVIOUS
<1>1. ASSUME NEW n \in Nodes, FinishMining(n) PROVE sentChains \subseteq sentChains'
  BY <1>1 DEF FinishMining, addBlockToBlockchain, HoldChain
<1>2. ASSUME NEW n \in Nodes, NEW c \in sentChains,
             ReceiveLatest(n, c) \/ ReceiveBlockchain(n, c)
      PROVE  sentChains \subseteq sentChains'
  BY <1>2, LatestTaken, BlockchainTaken, TakenKnown
<1>3. ASSUME NEW n \in Nodes, NEW x,
             \/ SendTransaction(n, x) \/ createNextBlock(n) \/ Restart(n)
             \/ createNextBlockWithTransaction(n, x) \/ ReceivePool(n, x) \/ Tick(n)
      PROVE  sentChains \subseteq sentChains'
  BY <1>3 DEF SendTransaction, createNextBlock, createNextBlockWithTransaction,
              ReceivePool, Tick, Restart
<1>4. CASE UNCHANGED vars
  BY <1>4 DEF vars
<1> QED BY <1>1, <1>2, <1>3, <1>4 DEF Next, UserStep

\* It stays so while the network learns more chains.
LEMMA TravelsFromMore ==
  ASSUME NEW K, NEW L, K \subseteq L, NEW transit, NEW loops, NEW lists,
         TravelsFrom(K, transit, loops, lists)
  PROVE  TravelsFrom(L, transit, loops, lists)
<1>1. Seq(K) \subseteq Seq(L)
  BY SeqGrows
<1>2. Seq(Messages(K)) \subseteq Seq(Messages(L))
  <2>1. Messages(K) \subseteq Messages(L)
    BY DEF Messages
  <2> QED BY <2>1, SeqGrows
<1> QED BY <1>1, <1>2 DEF TravelsFrom

\* A chain that a node holds is a list of known blocks.
LEMMA HeldKnown ==
  ASSUME IndInv, NEW n \in Nodes
  PROVE  chain[n] \in Seq(KnownBlocks) /\ chain[n] # <<>>
<1>1. chain[n] \in sentChains /\ IsSeq(chain[n]) /\ chain[n] # <<>>
  BY DEF IndInv, HeldInv, IsChain
<1>2. {chain[n][i] : i \in DOMAIN chain[n]} \subseteq KnownBlocks
  BY <1>1 DEF KnownBlocks
<1>3. chain[n] \in Seq({chain[n][i] : i \in DOMAIN chain[n]})
  BY <1>1 DEF IsSeq
<1> QED BY <1>1, <1>2, <1>3, SeqGrows

\* The blocks known at the next step.
LEMMA BlocksKept == IndInv /\ [Next]_vars => KnownBlocks \subseteq KnownBlocks'
BY ChainsKept DEF KnownBlocks

\* A list that is handed over is kept as it is, or erased.
LEMMA HandOverLists ==
  ASSUME NEW n, NEW m, NEW blocks, HandOver(n, m, blocks)
  PROVE  \E l \in {<<>>, blocks} :
           oncomingChains' = [oncomingChains EXCEPT ![n][m] = l]
BY DEF HandOver

\* Every step of the transfer keeps what travels a part of the known chains.
LEMMA TransferTravels ==
  ASSUME TransferInv, TransferNext
  PROVE  TravelsFrom(KnownBlocks, inTransit', sending', oncomingChains')
<1> DEFINE K == KnownBlocks
<1>1. TravelsFrom(K, inTransit, sending, oncomingChains)
  BY DEF TransferInv, TravelInv
<1>2. ASSUME NEW k \in Connections, StartSending(k)
      PROVE  TravelsFrom(K, inTransit', sending', oncomingChains')
  <2>1. k.from \in Nodes
    BY ConnectionsAssumption
  <2>2. chain[k.from] \in Seq(K) /\ chain[k.from] # <<>>
    BY <2>1, HeldKnown DEF TransferInv
  <2>3. sending' = [sending EXCEPT ![k.from] = [connection |-> k, rest |-> chain[k.from]]]
        /\ UNCHANGED <<inTransit, oncomingChains>>
    BY <1>2 DEF StartSending
  <2> HIDE DEF K
  <2> QED BY <1>1, <2>1, <2>2, <2>3 DEF TravelsFrom
<1>3. ASSUME NEW n \in Nodes, SendBlock(n)
      PROVE  TravelsFrom(K, inTransit', sending', oncomingChains')
  <2>1. PICK k : k = sending[n].connection
    OBVIOUS
  <2>2. PICK r : r = sending[n].rest
    OBVIOUS
  <2>3. k \in Connections /\ r \in Seq(K) /\ r # <<>>
        /\ sending[n] = [connection |-> k, rest |-> r]
    BY <1>1, <1>3, <2>1, <2>2 DEF TravelsFrom, SendBlock
  <2>4. PICK m : m = [block |-> Head(r), isLast |-> Head(r).index = getLatestBlock(chain[n]).index]
    OBVIOUS
  <2>5. /\ inTransit' = [inTransit EXCEPT ![k] = Append(@, m)]
        /\ sending' = [sending EXCEPT ![n] =
              IF Tail(r) = <<>> THEN None ELSE [@ EXCEPT !.rest = Tail(r)]]
        /\ UNCHANGED oncomingChains
    BY <1>3, <2>1, <2>2, <2>4 DEF SendBlock
  <2> HIDE DEF K
  <2>6. Head(r) \in K /\ Tail(r) \in Seq(K)
    BY <2>3
  <2>7. m \in Messages(K)
    BY <2>4, <2>6 DEF Messages
  <2>8. inTransit[k] \in Seq(Messages(K))
    BY <1>1, <2>3 DEF TravelsFrom
  <2>9. Append(inTransit[k], m) \in Seq(Messages(K))
    BY <2>7, <2>8
  <2>10. inTransit' = [inTransit EXCEPT ![k] = Append(inTransit[k], m)]
    BY <2>5
  <2>11. sending' = [sending EXCEPT ![n] =
           IF Tail(r) = <<>> THEN None ELSE [connection |-> k, rest |-> Tail(r)]]
    <3>1. [sending[n] EXCEPT !.rest = Tail(r)] = [connection |-> k, rest |-> Tail(r)]
      BY <2>3, SMTT(40)
    <3>2. sending' = [sending EXCEPT ![n] =
            IF Tail(r) = <<>> THEN None ELSE [sending[n] EXCEPT !.rest = Tail(r)]]
      BY <2>5
    <3> QED BY <3>1, <3>2
  <2>12. \A j \in Connections : inTransit'[j] \in Seq(Messages(K))
    BY <1>1, <2>9, <2>10 DEF TravelsFrom
  <2>13. \A j \in Nodes : sending'[j] # None =>
           /\ sending'[j].connection \in Connections
           /\ sending'[j].rest \in Seq(K) /\ sending'[j].rest # <<>>
           /\ sending'[j] = [connection |-> sending'[j].connection, rest |-> sending'[j].rest]
    BY <1>1, <2>3, <2>6, <2>11 DEF TravelsFrom
  <2>14. inTransit' = [j \in Connections |-> inTransit'[j]]
    BY <1>1, <2>10 DEF TravelsFrom
  <2>15. sending' = [j \in Nodes |-> sending'[j]]
    BY <1>1, <2>11 DEF TravelsFrom
  <2>16. TravelsFrom(K, inTransit', sending', oncomingChains)
    <3>1. /\ oncomingChains = [i \in Nodes |-> [w \in Nodes |-> oncomingChains[i][w]]]
          /\ \A i, w \in Nodes :
               /\ oncomingChains[i][w] \in Seq(K)
               /\ oncomingChains[i][w] # <<>> => oncomingChains[i][w][1].index = 0
      BY <1>1 DEF TravelsFrom
    <3> QED BY <2>12, <2>13, <2>14, <2>15, <3>1 DEF TravelsFrom
  <2> QED BY <2>5, <2>16
<1>4. ASSUME NEW k \in Connections, ReceiveBlock(k)
      PROVE  TravelsFrom(K, inTransit', sending', oncomingChains')
  <2> DEFINE m == Head(inTransit[k])
             blocks == Append(oncomingChains[k.to][k.from], m.block)
  <2>1. k.to \in Nodes /\ k.from \in Nodes
    BY ConnectionsAssumption
  <2>2. inTransit[k] # <<>> /\ UNCHANGED sending /\ inTransit' = [inTransit EXCEPT ![k] = Tail(@)]
    BY <1>4 DEF ReceiveBlock
  <2>3. UNCHANGED oncomingChains
        \/ /\ oncomingChains[k.to][k.from] # <<>> \/ m.block.index = 0
           /\ \E l \in {<<>>, blocks} :
                oncomingChains' = [oncomingChains EXCEPT ![k.to][k.from] = l]
    <3>1. HandOver(k.to, k.from, blocks) => \E l \in {<<>>, blocks} :
            oncomingChains' = [oncomingChains EXCEPT ![k.to][k.from] = l]
      BY HandOverLists
    <3> HIDE DEF HandOver
    <3> QED BY <1>4, <3>1 DEF ReceiveBlock
  <2>4. (oncomingChains[k.to][k.from] # <<>> \/ m.block.index = 0)
          => blocks \in Seq(K) /\ blocks # <<>> /\ blocks[1].index = 0
    BY <2>2, CollectedList DEF TransferInv
  <2>5. UNCHANGED oncomingChains
        \/ \E l \in Seq(K) : (l # <<>> => l[1].index = 0) /\
             oncomingChains' = [oncomingChains EXCEPT ![k.to][k.from] = l]
    <3> HIDE DEF blocks, m, K
    <3>1. <<>> \in Seq(K)
      OBVIOUS
    <3> QED BY <2>3, <2>4, <3>1
  <2> HIDE DEF blocks, m, K
  <2>6. Tail(inTransit[k]) \in Seq(Messages(K))
    <3>1. inTransit[k] \in Seq(Messages(K))
      BY <1>1 DEF TravelsFrom
    <3> QED BY <2>2, <3>1
  <2>7. /\ inTransit' = [j \in Connections |-> inTransit'[j]]
        /\ \A j \in Connections : inTransit'[j] \in Seq(Messages(K))
    BY <1>1, <2>2, <2>6 DEF TravelsFrom
  <2>8. /\ oncomingChains' = [n \in Nodes |-> [w \in Nodes |-> oncomingChains'[n][w]]]
        /\ \A n, w \in Nodes :
             /\ oncomingChains'[n][w] \in Seq(K)
             /\ oncomingChains'[n][w] # <<>> => oncomingChains'[n][w][1].index = 0
    <3>1. CASE UNCHANGED oncomingChains
      BY <1>1, <3>1 DEF TravelsFrom
    <3>2. ASSUME NEW l \in Seq(K), l # <<>> => l[1].index = 0,
                 oncomingChains' = [oncomingChains EXCEPT ![k.to][k.from] = l]
          PROVE  <2>8!1 /\ <2>8!2
      <4>1. oncomingChains = [n \in Nodes |-> [w \in Nodes |-> oncomingChains[n][w]]]
        BY <1>1 DEF TravelsFrom
      <4>2. oncomingChains' = [n \in Nodes |-> [w \in Nodes |->
              IF n = k.to /\ w = k.from THEN l ELSE oncomingChains[n][w]]]
        BY <2>1, <3>2, <4>1
      <4>3. \A n, w \in Nodes : oncomingChains'[n][w] \in {l, oncomingChains[n][w]}
        BY <4>2
      <4>4. \A n, w \in Nodes : /\ oncomingChains[n][w] \in Seq(K)
                                /\ oncomingChains[n][w] # <<>> => oncomingChains[n][w][1].index = 0
        BY <1>1 DEF TravelsFrom
      <4>5. \A n, w \in Nodes :
              /\ oncomingChains'[n][w] \in Seq(K)
              /\ oncomingChains'[n][w] # <<>> => oncomingChains'[n][w][1].index = 0
        BY <3>2, <4>3, <4>4
      <4> QED BY <4>2, <4>5
    <3> QED BY <2>5, <3>1, <3>2
  <2> QED BY <1>1, <2>2, <2>7, <2>8 DEF TravelsFrom
<1>5. ASSUME NEW n \in Nodes, RestartAndReconnect(n)
      PROVE  TravelsFrom(K, inTransit', sending', oncomingChains')
  <2> HIDE DEF K
  <2>1. <<>> \in Seq(K) /\ <<>> \in Seq(Messages(K))
    OBVIOUS
  <2>2. /\ inTransit' = [k \in Connections |->
                     IF n \in {k.from, k.to} THEN <<>> ELSE inTransit[k]]
        /\ sending' = [m \in Nodes |->
                   IF sending[m] # None /\ n \in {m, sending[m].connection.to}
                   THEN None ELSE sending[m]]
        /\ oncomingChains' = [oncomingChains EXCEPT ![n] = [m \in Nodes |-> <<>>]]
    BY <1>5 DEF RestartAndReconnect
  <2>3. /\ inTransit' = [k \in Connections |-> inTransit'[k]]
        /\ \A k \in Connections : inTransit'[k] \in Seq(Messages(K))
    BY <1>1, <2>1, <2>2 DEF TravelsFrom
  <2>4. /\ sending' = [m \in Nodes |-> sending'[m]]
        /\ \A m \in Nodes : sending'[m] \in {None, sending[m]}
    BY <2>2
  <2>5. /\ oncomingChains' = [i \in Nodes |-> [w \in Nodes |-> oncomingChains'[i][w]]]
        /\ \A i, w \in Nodes :
             /\ oncomingChains'[i][w] \in Seq(K)
             /\ oncomingChains'[i][w] # <<>> => oncomingChains'[i][w][1].index = 0
    BY <1>1, <2>1, <2>2, ZenonT(40) DEF TravelsFrom
  <2> QED BY <1>1, <2>3, <2>4, <2>5 DEF TravelsFrom
<1>6. CASE UNCHANGED transferVars
  BY <1>1, <1>6 DEF transferVars
<1> QED BY <1>2, <1>3, <1>4, <1>5, <1>6 DEF TransferNext

\* The invariant holds at the start.
LEMMA TransferInitInv == TransferInit => TransferInv
<1> SUFFICES ASSUME TransferInit PROVE TransferInv
  OBVIOUS
<1>1. IndInv /\ FirstKnown
  BY InitInd, FirstInit DEF TransferInit
<1>2. \A K : <<>> \in Seq(K)
  OBVIOUS
<1>3. TravelInv
  BY <1>2 DEF TransferInit, TravelInv, TravelsFrom
<1> QED BY <1>1, <1>3 DEF TransferInv

\* And every step keeps it.
LEMMA TransferNextInv ==
  TransferInv /\ [TransferNext]_<<vars, transferVars>> => TransferInv'
<1> SUFFICES ASSUME TransferInv, [TransferNext]_<<vars, transferVars>> PROVE TransferInv'
  OBVIOUS
<1>1. [Next]_vars
  BY TransferStep
<1>2. IndInv' /\ FirstKnown'
  BY <1>1, NextInd, FirstNext DEF TransferInv
<1>3. TravelsFrom(KnownBlocks, inTransit', sending', oncomingChains')
  <2>1. CASE TransferNext
    BY <2>1, TransferTravels
  <2>2. CASE UNCHANGED <<vars, transferVars>>
    BY <2>2 DEF TransferInv, TravelInv, transferVars
  <2> QED BY <2>1, <2>2
<1>4. KnownBlocks \subseteq KnownBlocks'
  BY <1>1, BlocksKept DEF TransferInv
<1>5. TravelInv'
  BY <1>3, <1>4, TravelsFromMore DEF TravelInv
<1> QED BY <1>2, <1>5 DEF TransferInv

-----------------------------------------------------------------------------
\* Whatever messages of a transfer are lost when a node ends, overtaken by a
\* block that is mined meanwhile, or mixed up with those of another transfer: the
\* transfer block by block implements the receipt of whole chains in SkanCoin, so
\* all that is proved of SkanCoin holds of it (Peer.cpp:9, handleBlockchainResponse).
THEOREM TransferImplements == TransferSpec => DeliversWholeChains
<1>1. TransferInit => Init
  BY DEF TransferInit
<1> QED BY <1>1, TransferInitInv, TransferNextInv, TransferStep, PTL
        DEF TransferSpec, DeliversWholeChains, Spec
=============================================================================
