--------------------------- MODULE SkanCoinProofs ---------------------------
(***************************************************************************)
(* Theorems about SkanCoin, for every set of nodes, every set of payments  *)
(* and every length of the chains: first the inductive invariant and what  *)
(* follows from it alone; then the contents of the chains and the pools,   *)
(* that is the difficulties of the blocks, the unspent outputs and their   *)
(* worth, and the transactions that wait; and at last what the nodes mine: *)
(* a running node only moves to chains of more work, and the work of its   *)
(* mining loop is lost only when the chain has moved.                      *)
(***************************************************************************)
EXTENDS SkanCoin, BlocksProofs

-----------------------------------------------------------------------------
(* What the operators return has its type *)

\* A payment lists outputs to wallets.
LEMMA PaymentTyped ==
  ASSUME NEW p \in PoolPayments \cup BlockPayments
  PROVE  /\ p.sender \in Nodes
         /\ IsSeq(p.outs)
         /\ \A k \in DOMAIN p.outs : p.outs[k].address \in Nodes
<1> DEFINE O == [address : Nodes, amount : Nat \ {0}]
<1>1. p.sender \in Nodes /\ p.outs \in Seq(O)
  BY NodesAssumption
<1>2. \A o \in O : o.address \in Nodes
  OBVIOUS
<1> SUFFICES ASSUME NEW s, s = p.outs
    PROVE IsSeq(s) /\ \A k \in DOMAIN s : s[k].address \in Nodes
  BY <1>1
<1>3. \A k \in DOMAIN s : s[k] \in O
  <2> HIDE DEF O
  <2> QED BY <1>1
<1>4. IsSeq(s)
  BY <1>1, SeqIsSeq
<1> QED BY <1>2, <1>3, <1>4

\* A coinbase transaction is a transaction.
LEMMA CoinbaseTyped ==
  ASSUME NEW n \in Nodes, NEW index \in Nat
  PROVE  IsTransaction(getCoinbaseTransaction(n, index))
<1> DEFINE t == getCoinbaseTransaction(n, index)
<1>1. /\ t.signer = None /\ t.transIns = {OutPoint(None, index)}
      /\ t.transOuts = <<TransOut(n, COINBASE_AMOUNT)>>
  BY DEF getCoinbaseTransaction
<1>2. \A in \in t.transIns : in.transOutIndex \in Nat
  BY <1>1 DEF OutPoint
<1>3. IsSeq(t.transOuts) /\ \A k \in DOMAIN t.transOuts : t.transOuts[k].address \in Nodes
  <2>1. IsSeq(t.transOuts) /\ DOMAIN t.transOuts = 1..1
        /\ t.transOuts[1] = TransOut(n, COINBASE_AMOUNT)
    BY <1>1, IsSeqSingleton
  <2>2. \A k \in 1..1 : k = 1
    OBVIOUS
  <2> HIDE DEF t
  <2> QED BY <2>1, <2>2 DEF TransOut
<1> HIDE DEF t
<1>4. IsTransaction(t)
  BY <1>1, <1>2, <1>3 DEF IsTransaction
<1> QED BY <1>4 DEF t

\* What the wallet creates is a transaction.
LEMMA CreatedTyped ==
  ASSUME NEW n \in Nodes, NEW outs, NEW us, NEW p,
         IsSeq(outs), \A k \in DOMAIN outs : outs[k].address \in Nodes,
         IsUtxoSet(us),
         NEW t \in createTransactionWithMultipleOutputs(outs, n, us, p)
  PROVE  IsTransaction(t)
<1> DEFINE amount == TotalOfTransOuts(outs)
           mine   == filterUnspentTransOuts(getUnspentTransOutsOfAddress(n, us), p)
<1>1. PICK included \in getTransOutsForAmount(amount, mine) :
        t = [transIns  |-> {getInputFromUnspentTransOut(u) : u \in included},
             transOuts |-> createTransOuts(outs, n,
                             getTotalFromOutputVector(included) - amount),
             signer    |-> n]
  BY DEF createTransactionWithMultipleOutputs
<1>2. included \subseteq us /\ included # {}
  BY DEF getTransOutsForAmount, filterUnspentTransOuts, getUnspentTransOutsOfAddress
<1>3. t.signer \in Nodes /\ t.transIns # {}
  BY <1>1, <1>2
<1>4. \A in \in t.transIns : in.transOutIndex \in Nat
  BY <1>1, <1>2 DEF IsUtxoSet, getInputFromUnspentTransOut, OutPoint
<1>5. IsSeq(t.transOuts) /\ \A k \in DOMAIN t.transOuts : t.transOuts[k].address \in Nodes
  <2> DEFINE left == getTotalFromOutputVector(included) - amount
  <2>1. t.transOuts = createTransOuts(outs, n, left)
    BY <1>1
  <2> HIDE DEF left
  <2>2. CASE left = 0
    BY <2>1, <2>2 DEF createTransOuts
  <2>3. CASE left # 0
    <3>1. t.transOuts = Append(outs, TransOut(n, left))
      BY <2>1, <2>3 DEF createTransOuts
    <3> SUFFICES ASSUME NEW s, s = Append(outs, TransOut(n, left))
        PROVE IsSeq(s) /\ \A k \in DOMAIN s : s[k].address \in Nodes
      BY <3>1
    <3>2. /\ IsSeq(s) /\ Len(s) = Len(outs) + 1 /\ s[Len(outs) + 1] = TransOut(n, left)
          /\ \A k \in 1..Len(outs) : s[k] = outs[k]
      BY IsSeqAppend
    <3>3. DOMAIN s = 1..Len(s) /\ DOMAIN outs = 1..Len(outs) /\ Len(outs) \in Nat
      BY <3>2, IsSeqShape
    <3>4. ASSUME NEW k \in DOMAIN s PROVE s[k].address \in Nodes
      <4>1. k \in 1..Len(outs) \/ k = Len(outs) + 1
        BY <3>2, <3>3
      <4> QED BY <4>1, <3>2, <3>3 DEF TransOut
    <3> QED BY <3>2, <3>4
  <2> QED BY <2>2, <2>3
<1> QED BY <1>3, <1>4, <1>5 DEF IsTransaction

\* Applying the transactions of a block keeps the type of the outputs.
LEMMA UtxoTypedUpdate ==
  ASSUME NEW ts, AreTransactions(ts), NEW us, IsUtxoSet(us)
  PROVE  IsUtxoSet(updateUnspentTransOuts(ts, us))
<1> SUFFICES ASSUME NEW u \in updateUnspentTransOuts(ts, us)
    PROVE u.transOutIndex \in Nat /\ u.address \in Nodes
  BY DEF IsUtxoSet
<1>1. CASE u \in us
  BY <1>1 DEF IsUtxoSet
<1>2. CASE u \in CreatedBy(ts)
  <2>1. PICK i \in DOMAIN ts : \E k \in DOMAIN ts[i].transOuts :
          u = UnspentTransOut(getTransactionId(ts[i]), k - 1, ts[i].transOuts[k])
    BY <1>2 DEF CreatedBy
  <2>2. PICK k \in DOMAIN ts[i].transOuts :
          u = UnspentTransOut(getTransactionId(ts[i]), k - 1, ts[i].transOuts[k])
    BY <2>1
  <2>3. IsSeq(ts[i].transOuts) /\ ts[i].transOuts[k].address \in Nodes
    BY DEF AreTransactions, IsTransaction
  <2>4. k - 1 \in Nat
    BY <2>3, IsSeqShape
  <2>5. u.transOutIndex = k - 1 /\ u.address = ts[i].transOuts[k].address
    BY <2>2 DEF UnspentTransOut
  <2> QED BY <2>3, <2>4, <2>5
<1> QED BY <1>1, <1>2 DEF updateUnspentTransOuts

\* So does the replay of a whole chain.
LEMMA UtxoTypedAfter ==
  ASSUME NEW c, IsChain(c)
  PROVE  IsUtxoSet(UtxoAfter(c)[Len(c)])
<1> DEFINE Bad == {j \in 0..Len(c) : ~IsUtxoSet(UtxoAfter(c)[j])}
<1>0. IsSeq(c) /\ Len(c) \in Nat /\ DOMAIN c = 1..Len(c)
  BY IsSeqShape DEF IsChain
<1>1. Bad = {}
  <2> SUFFICES ASSUME Bad # {} PROVE FALSE
    OBVIOUS
  <2>1. PICK m \in Bad : \A j \in Bad : m <= j
    <3>1. Bad \in SUBSET Nat
      BY <1>0
    <3> HIDE DEF Bad
    <3> QED BY <3>1, NatMinimum
  <2>2. m # 0
    <3>1. UtxoAfter(c)[0] = {}
      BY <1>0, UtxoAfterDef
    <3>2. IsUtxoSet({})
      BY DEF IsUtxoSet
    <3> QED BY <3>1, <3>2
  <2>3. m \in 1..Len(c) /\ m - 1 \in 0..Len(c) /\ ~(m <= m - 1)
    BY <1>0, <2>2
  <2>4. IsUtxoSet(UtxoAfter(c)[m - 1])
    BY <2>1, <2>3
  <2>5. AreTransactions(c[m].data)
    BY <1>0, <2>3 DEF IsChain, IsBlock
  <2>6. IsUtxoSet(updateUnspentTransOuts(c[m].data, UtxoAfter(c)[m - 1]))
    BY <2>4, <2>5, UtxoTypedUpdate
  <2>7. IsUtxoSet(UtxoAfter(c)[m])
    BY <1>0, <2>3, <2>6, UtxoAfterDef
  <2> QED BY <2>7
<1> QED BY <1>0, <1>1

\* The difficulty of the next block is an integer: in a linked chain, the
\* block of the previous adjustment exists.
LEMMA DifficultyTyped ==
  ASSUME NEW c, IsChain(c), Linked(c)
  PROVE  getDifficulty(c) \in Int
<1> DEFINE D == DIFFICULTY_ADJUSTMENT_INTERVAL
<1>0. /\ IsSeq(c) /\ Len(c) \in Nat /\ Len(c) >= 1 /\ DOMAIN c = 1..Len(c)
      /\ D \in Nat /\ D > 0
  BY IsSeqShape, IntervalAssumption DEF IsChain
<1>1. getLatestBlock(c).index = Len(c) - 1
  <2>1. \A i \in 1..Len(c) : c[i].index = i - 1
    BY LinkedIndex DEF IsChain
  <2> QED BY <1>0, <2>1 DEF getLatestBlock
<1>2. \A i \in 1..Len(c) : IsBlock(c[i])
  BY <1>0 DEF IsChain
<1>3. CASE getLatestBlock(c).index % D = 0 /\ getLatestBlock(c).index # 0
  <2>1. \A x \in Nat : x < D => x % D = x
    BY <1>0
  <2>2. Len(c) - 1 >= D
    BY <1>0, <1>1, <1>3, <2>1
  <2>3. Len(c) - D + 1 \in 1..Len(c)
    BY <1>0, <2>2
  <2>4. c[Len(c) - D + 1].difficulty \in Int
    BY <1>2, <2>3 DEF IsBlock
  <2>5. getDifficulty(c) = computeNewDifficulty(getLatestBlock(c), c)
    BY <1>3 DEF getDifficulty
  <2> QED BY <2>4, <2>5 DEF computeNewDifficulty
<1>4. CASE ~(getLatestBlock(c).index % D = 0 /\ getLatestBlock(c).index # 0)
  <2>1. getDifficulty(c) = getLatestBlock(c).difficulty
    BY <1>4 DEF getDifficulty
  <2>2. IsBlock(getLatestBlock(c))
    BY <1>0, <1>2 DEF getLatestBlock
  <2> QED BY <2>1, <2>2 DEF IsBlock
<1> QED BY <1>3, <1>4

-----------------------------------------------------------------------------
(* The transaction pool *)

\* What updatePool keeps are transactions.
LEMMA UpdatePoolTyped ==
  ASSUME NEW p, AreTransactions(p), NEW u
  PROVE  AreTransactions(updatePool(p, u))
<1> SUFFICES ASSUME NEW q, IsSelection(q, p, Len(p), u) PROVE AreTransactions(q)
  BY UpdatePoolSelects DEF AreTransactions
<1>1. IsSeq(q) /\ DOMAIN q = 1..Len(q) /\ DOMAIN p = 1..Len(p)
  BY IsSeqShape DEF IsSelection, AreTransactions
<1>2. \A i \in 1..Len(q) : IsTransaction(q[i])
  BY <1>1 DEF IsSelection, AreTransactions
<1> QED BY <1>1, <1>2 DEF AreTransactions

-----------------------------------------------------------------------------
(* The inductive invariant *)

\* The list of unspent outputs is the one a replay of the chain gives.
UtxoReplayed == \A n \in Nodes : utxo[n] = UtxoAfter(chain[n])[Len(chain[n])]

\* What a node holds: linked chains, the outputs of its chain, a pool.
HeldInv ==
  /\ chain \in [Nodes -> sentChains]
  /\ \A c \in sentChains : IsChain(c)
  /\ IsMap(utxo) /\ \A n \in Nodes : IsUtxoSet(utxo[n])
  /\ IsMap(pool) /\ \A n \in Nodes : AreTransactions(pool[n])
  /\ ChainLinked
  /\ UtxoReplayed

\* What else there is: candidates, clocks, transactions under way.
OtherInv ==
  /\ IsMap(mining) /\ \A n \in Nodes : mining[n] # None => IsBlock(mining[n])
  /\ clock \in [Nodes -> Nat]
  /\ \A t \in sentTransactions : IsTransaction(t)

\* The inductive invariant.
IndInv == HeldInv /\ OtherInv

\* A block added to a chain makes a chain.
LEMMA ChainAppend ==
  ASSUME NEW c, IsChain(c), NEW b, IsBlock(b)
  PROVE  IsChain(Append(c, b))
<1> SUFFICES ASSUME NEW d, d = Append(c, b) PROVE IsChain(d)
  OBVIOUS
<1>1. IsSeq(c) /\ Len(c) \in Nat /\ DOMAIN c = 1..Len(c)
  BY IsSeqShape DEF IsChain
<1>2. /\ IsSeq(d) /\ d # <<>> /\ Len(d) = Len(c) + 1 /\ d[Len(c) + 1] = b
      /\ \A i \in 1..Len(c) : d[i] = c[i]
  BY <1>1, IsSeqAppend
<1>3. DOMAIN d = 1..(Len(c) + 1)
  BY <1>2, IsSeqShape
<1>4. \A i \in DOMAIN d : i \in 1..Len(c) \/ i = Len(c) + 1
  BY <1>1, <1>3
<1>5. \A i \in 1..Len(c) : IsBlock(c[i])
  BY <1>1 DEF IsChain
<1> QED BY <1>2, <1>4, <1>5 DEF IsChain

\* The last block of a chain is a block.
LEMMA TipIsBlock ==
  ASSUME NEW c, IsChain(c)
  PROVE  IsBlock(getLatestBlock(c))
<1>1. Len(c) \in DOMAIN c
  BY IsSeqShape DEF IsChain
<1> QED BY <1>1 DEF IsChain, getLatestBlock

\* A node that takes up a linked chain and its outputs keeps HeldInv.
LEMMA HoldChainInv ==
  ASSUME HeldInv, NEW n \in Nodes,
         NEW c, IsChain(c), Linked(c),
         NEW u, u = UtxoAfter(c)[Len(c)],
         HoldChain(n, c, u)
  PROVE  HeldInv'
<1>1. chain' \in [Nodes -> sentChains'] /\ \A d \in sentChains' : IsChain(d)
  BY DEF HeldInv, HoldChain
<1>2. IsMap(utxo)' /\ \A m \in Nodes : IsUtxoSet(utxo'[m])
  BY UtxoTypedAfter DEF HeldInv, HoldChain, IsMap
<1>3. IsMap(pool)' /\ \A m \in Nodes : AreTransactions(pool'[m])
  <2>1. AreTransactions(updatePool(pool[n], u))
    BY UpdatePoolTyped DEF HeldInv
  <2> QED BY <2>1 DEF HeldInv, HoldChain, IsMap
<1>4. ChainLinked'
  BY DEF HeldInv, HoldChain, ChainLinked
<1>5. UtxoReplayed'
  <2> SUFFICES ASSUME NEW m \in Nodes
      PROVE utxo'[m] = UtxoAfter(chain'[m])[Len(chain'[m])]
    BY DEF UtxoReplayed
  <2>1. CASE m = n
    <3>1. utxo'[m] = u /\ chain'[m] = c
      BY <2>1 DEF HeldInv, HoldChain, IsMap
    <3> QED BY <3>1
  <2>2. CASE m # n
    <3>1. utxo'[m] = utxo[m] /\ chain'[m] = chain[m]
      BY <2>2 DEF HeldInv, HoldChain, IsMap
    <3> QED BY <3>1 DEF HeldInv, UtxoReplayed
  <2> QED BY <2>1, <2>2
<1> QED BY <1>1, <1>2, <1>3, <1>4, <1>5 DEF HeldInv

\* So does a node that adds a block it accepts.
LEMMA AddBlockInv ==
  ASSUME HeldInv, NEW n \in Nodes, NEW b, IsBlock(b), addBlockToBlockchain(n, b)
  PROVE  HeldInv'
<1>1. IsChain(chain[n]) /\ Linked(chain[n])
  BY DEF HeldInv, ChainLinked
<1>2. isBlockValid(b, getLatestBlock(chain[n]), clock[n])
  BY DEF addBlockToBlockchain, addBlockToBlockchainAccepts
<1> SUFFICES ASSUME NEW c, c = chain[n], NEW d, d = Append(c, b),
                    NEW u, u = updateUnspentTransOuts(b.data, utxo[n])
    PROVE HeldInv'
  OBVIOUS
<1>3. IsSeq(c) /\ c # <<>> /\ Len(d) = Len(c) + 1
  BY <1>1, IsSeqAppend DEF IsChain
<1>4. IsChain(d) /\ Linked(d)
  BY <1>1, <1>2, <1>3, ChainAppend, LinkedAppend
<1>5. u = UtxoAfter(d)[Len(d)]
  <2>1. utxo[n] = UtxoAfter(c)[Len(c)]
    BY DEF HeldInv, UtxoReplayed
  <2> QED BY <1>3, <2>1, UtxoAfterAppend
<1>6. HoldChain(n, d, u)
  BY DEF addBlockToBlockchain
<1> QED BY <1>4, <1>5, <1>6, HoldChainInv

\* So does a node that handles blocks of a peer.
LEMMA NewBlocksInv ==
  ASSUME HeldInv, NEW n \in Nodes, NEW blocks, IsChain(blocks),
         Linked(blocks) \/ (Len(blocks) = 1 /\ getLatestBlock(blocks).index # 0),
         newBlocksHandler(n, blocks)
  PROVE  HeldInv'
<1>1. CASE Len(blocks) = 1 /\ getLatestBlock(blocks).index # 0
  <2>1. addBlockToBlockchain(n, getLatestBlock(blocks))
    BY <1>1 DEF newBlocksHandler
  <2> QED BY <2>1, TipIsBlock, AddBlockInv
<1>2. CASE ~(Len(blocks) = 1 /\ getLatestBlock(blocks).index # 0)
  <2>1. replaceChain(n, blocks)
    BY <1>2 DEF newBlocksHandler
  <2>2. HoldChain(n, blocks, UtxoAfter(blocks)[Len(blocks)])
    BY <2>1 DEF replaceChain
  <2> QED BY <1>2, <2>2, HoldChainInv
<1> QED BY <1>1, <1>2

\* A new node holds a chain of one block.
LEMMA InitialChainOK ==
  ASSUME NEW n \in Nodes, NEW time \in Nat, NEW c, c = InitialChain(n, time)
  PROVE  /\ IsChain(c) /\ Linked(c)
         /\ updateUnspentTransOuts(c[1].data, {}) = UtxoAfter(c)[Len(c)]
<1> DEFINE b == getGenesisBlock(n, time)
           coinbase == getCoinbaseTransaction(n, 0)
<1>1. c = <<b>> /\ b.index = 0 /\ b.timestamp = time /\ b.difficulty = 0
      /\ b.data = <<coinbase>>
  BY DEF InitialChain, getGenesisBlock, Block
<1>2. IsTransaction(coinbase)
  BY CoinbaseTyped
<1>3. AreTransactions(b.data) /\ b.data # <<>>
  <2> HIDE DEF coinbase
  <2> SUFFICES ASSUME NEW s, s = <<coinbase>> PROVE AreTransactions(s) /\ s # <<>>
    BY <1>1
  <2>1. IsSeq(s) /\ s # <<>> /\ s[1] = coinbase /\ DOMAIN s = 1..1
    BY IsSeqSingleton
  <2>2. \A i \in 1..1 : i = 1
    OBVIOUS
  <2> QED BY <1>2, <2>1, <2>2 DEF AreTransactions
<1> HIDE DEF b, coinbase
<1>4. IsBlock(b)
  BY <1>1, <1>3 DEF IsBlock
<1>5. IsSeq(c) /\ c # <<>> /\ Len(c) = 1 /\ c[1] = b /\ DOMAIN c = 1..1
  BY <1>1, IsSeqSingleton
<1>6. IsChain(c)
  BY <1>4, <1>5 DEF IsChain
<1>7. Linked(c)
  BY <1>1, <1>5 DEF Linked
<1>8. updateUnspentTransOuts(c[1].data, {}) = UtxoAfter(c)[Len(c)]
  BY <1>1, <1>5, UtxoAfterSingleton
<1> QED BY <1>6, <1>7, <1>8

-----------------------------------------------------------------------------
(* The actions *)

\* The initial states satisfy the invariant.
LEMMA InitInd == Init => IndInv
<1> SUFFICES ASSUME Init PROVE IndInv
  OBVIOUS
<1>1. clock \in [Nodes -> Nat]
  BY NodesAssumption DEF Init
<1>2. ASSUME NEW n \in Nodes
      PROVE  /\ chain[n] \in sentChains
             /\ IsChain(chain[n]) /\ Linked(chain[n])
             /\ utxo[n] = UtxoAfter(chain[n])[Len(chain[n])]
             /\ IsUtxoSet(utxo[n])
  <2>1. chain[n] \in sentChains
    BY DEF Init
  <2>2. chain[n] = InitialChain(n, clock[n]) /\ clock[n] \in Nat
    BY <1>1 DEF Init
  <2>3. utxo[n] = updateUnspentTransOuts(chain[n][1].data, {})
    BY DEF Init
  <2>4. /\ IsChain(chain[n]) /\ Linked(chain[n])
        /\ utxo[n] = UtxoAfter(chain[n])[Len(chain[n])]
    BY <2>2, <2>3, InitialChainOK
  <2> QED BY <2>1, <2>4, UtxoTypedAfter
<1>3. chain \in [Nodes -> sentChains]
  BY DEF Init
<1>4. \A c \in sentChains : IsChain(c) /\ Linked(c)
  BY <1>2 DEF Init
<1>5. IsMap(utxo) /\ IsMap(pool) /\ IsMap(mining)
  BY DEF Init, IsMap
<1>6. \A n \in Nodes : AreTransactions(pool[n])
  <2>1. IsSeq(<<>>) /\ DOMAIN <<>> = {}
    BY DEF IsSeq
  <2>2. AreTransactions(<<>>)
    BY <2>1 DEF AreTransactions
  <2> QED BY <2>2 DEF Init
<1>7. \A n \in Nodes : mining[n] = None
  BY DEF Init
<1>8. sentTransactions = {}
  BY DEF Init
<1>9. HeldInv
  BY <1>2, <1>3, <1>4, <1>5, <1>6 DEF HeldInv, ChainLinked, UtxoReplayed
<1> QED BY <1>1, <1>5, <1>7, <1>8, <1>9 DEF IndInv, OtherInv

\* What createRawNextBlock builds is a block.
LEMMA RawBlockTyped ==
  ASSUME IndInv, NEW n \in Nodes, NEW ts, AreTransactions(ts)
  PROVE  IsBlock(createRawNextBlock(n, ts))
<1> DEFINE latest   == getLatestBlock(chain[n])
           coinbase == getCoinbaseTransaction(n, latest.index + 1)
           b        == createRawNextBlock(n, ts)
<1>1. IsChain(chain[n]) /\ Linked(chain[n])
  BY DEF IndInv, HeldInv, ChainLinked
<1>2. getDifficulty(chain[n]) \in Int /\ latest.index + 1 \in Nat
  BY <1>1, DifficultyTyped, TipIsBlock DEF IsBlock
<1>3. clock[n] \in Nat
  BY DEF IndInv, OtherInv
<1>4. /\ b.index = latest.index + 1 /\ b.timestamp = clock[n]
      /\ b.difficulty = getDifficulty(chain[n]) /\ b.data = <<coinbase>> \o ts
  BY DEF createRawNextBlock, Block
<1>5. IsTransaction(coinbase)
  BY <1>2, CoinbaseTyped
<1> HIDE DEF latest, coinbase, b
<1>6. AreTransactions(b.data) /\ b.data # <<>>
  <2> SUFFICES ASSUME NEW s, s = <<coinbase>> \o ts PROVE AreTransactions(s) /\ s # <<>>
    BY <1>4
  <2>1. /\ IsSeq(s) /\ Len(s) = Len(ts) + 1 /\ s[1] = coinbase
        /\ \A i \in 2..(Len(ts) + 1) : s[i] = ts[i - 1]
    BY IsSeqPrefixed DEF AreTransactions
  <2>2. Len(ts) \in Nat /\ DOMAIN ts = 1..Len(ts) /\ DOMAIN s = 1..Len(s)
    BY <2>1, IsSeqShape DEF AreTransactions
  <2>3. ASSUME NEW i \in DOMAIN s PROVE IsTransaction(s[i])
    <3>1. i = 1 \/ (i \in 2..(Len(ts) + 1) /\ i - 1 \in DOMAIN ts)
      BY <2>1, <2>2
    <3> QED BY <3>1, <2>1, <1>5 DEF AreTransactions
  <2>4. Len(<<>>) = 0
    OBVIOUS
  <2>5. s # <<>>
    BY <2>1, <2>2, <2>4
  <2> QED BY <2>1, <2>3, <2>5 DEF AreTransactions
<1>7. IsBlock(b)
  BY <1>2, <1>3, <1>4, <1>6 DEF IsBlock
<1> QED BY <1>7 DEF b

\* HeldInv only depends on what a node holds and on the chains seen.
LEMMA HeldUnchanged ==
  ASSUME HeldInv, UNCHANGED <<chain, utxo, pool, sentChains>>
  PROVE  HeldInv'
  BY DEF HeldInv, IsMap, ChainLinked, UtxoReplayed

\* A transaction that joins the pool keeps HeldInv.
LEMMA PoolAppendInv ==
  ASSUME HeldInv, NEW n \in Nodes, NEW t, IsTransaction(t),
         pool' = [pool EXCEPT ![n] = Append(@, t)],
         UNCHANGED <<chain, utxo, sentChains>>
  PROVE  HeldInv'
<1>1. AreTransactions(Append(pool[n], t))
  <2> SUFFICES ASSUME NEW p, p = pool[n], NEW q, q = Append(p, t) PROVE AreTransactions(q)
    OBVIOUS
  <2>1. AreTransactions(p)
    BY DEF HeldInv
  <2>2. /\ IsSeq(q) /\ Len(q) = Len(p) + 1 /\ q[Len(p) + 1] = t
        /\ \A i \in 1..Len(p) : q[i] = p[i]
    BY <2>1, IsSeqAppend DEF AreTransactions
  <2>3. DOMAIN q = 1..Len(q) /\ DOMAIN p = 1..Len(p) /\ Len(p) \in Nat
    BY <2>1, <2>2, IsSeqShape DEF AreTransactions
  <2>4. \A i \in DOMAIN q : i \in DOMAIN p \/ i = Len(p) + 1
    BY <2>2, <2>3
  <2> QED BY <2>1, <2>2, <2>3, <2>4 DEF AreTransactions
<1>2. IsMap(pool)' /\ \A m \in Nodes : AreTransactions(pool'[m])
  BY <1>1 DEF HeldInv, IsMap
<1> QED BY <1>2 DEF HeldInv, IsMap, ChainLinked, UtxoReplayed

\* Every step keeps the invariant.
LEMMA NextInd == IndInv /\ [Next]_vars => IndInv'
<1> SUFFICES ASSUME IndInv, [Next]_vars PROVE IndInv'
  OBVIOUS
<1> USE DEF IndInv
<1>1. ASSUME NEW n \in Nodes, NEW p \in PoolPayments, p.sender = n,
             SendTransaction(n, p.outs[1])
      PROVE  IndInv'
  <2> DEFINE out == p.outs[1]
  <2>1. PICK t \in createTransaction(out.address, out.amount, n, utxo[n], pool[n]) :
          /\ pool' = [pool EXCEPT ![n] = Append(@, t)]
          /\ sentTransactions' = sentTransactions \cup {t}
    BY <1>1 DEF SendTransaction
  <2>2. out.address \in Nodes
    <3>1. Len(p.outs) = 1
      BY NodesAssumption
    <3>2. 1 \in DOMAIN p.outs
      BY <3>1, PaymentTyped, IsSeqShape
    <3> QED BY <3>2, PaymentTyped
  <2> HIDE DEF out
  <2>3. IsTransaction(t)
    <3> SUFFICES ASSUME NEW s, s = <<TransOut(out.address, out.amount)>>
        PROVE IsSeq(s) /\ \A k \in DOMAIN s : s[k].address \in Nodes
      BY CreatedTyped DEF createTransaction, HeldInv
    <3>1. IsSeq(s) /\ DOMAIN s = 1..1 /\ s[1] = TransOut(out.address, out.amount)
      BY IsSeqSingleton
    <3>2. \A k \in 1..1 : k = 1
      OBVIOUS
    <3> QED BY <2>2, <3>1, <3>2 DEF TransOut
  <2>4. HeldInv'
    BY <1>1, <2>1, <2>3, PoolAppendInv DEF SendTransaction
  <2>5. OtherInv'
    BY <1>1, <2>1, <2>3 DEF SendTransaction, OtherInv, IsMap
  <2> QED BY <2>4, <2>5
<1>2. ASSUME NEW n \in Nodes, createNextBlock(n) PROVE IndInv'
  <2> DEFINE k  == IF Len(pool[n]) < 2 THEN Len(pool[n]) ELSE 2
             ts == SubSeq(pool[n], 1, k)
  <2>1. AreTransactions(ts)
    <3>1. IsSeq(pool[n]) /\ Len(pool[n]) \in Nat /\ DOMAIN pool[n] = 1..Len(pool[n])
      BY IsSeqShape DEF HeldInv, AreTransactions
    <3>2. k \in 0..Len(pool[n])
      BY <3>1
    <3> HIDE DEF k
    <3> SUFFICES ASSUME NEW q, q = pool[n], NEW s, s = SubSeq(q, 1, k)
        PROVE AreTransactions(s)
      OBVIOUS
    <3>3. IsSeq(s) /\ Len(s) = k /\ \A i \in 1..k : s[i] = q[i]
      BY <3>1, <3>2, IsSeqFirst
    <3>4. DOMAIN s = 1..k /\ \A i \in 1..k : i \in DOMAIN q
      BY <3>1, <3>2, <3>3, IsSeqShape
    <3> QED BY <3>3, <3>4 DEF AreTransactions, HeldInv
  <2>2. mining' = [mining EXCEPT ![n] = createRawNextBlock(n, ts)]
    BY <1>2 DEF createNextBlock
  <2> HIDE DEF k, ts
  <2>3. IsBlock(createRawNextBlock(n, ts))
    BY <2>1, RawBlockTyped
  <2>4. HeldInv'
    BY <1>2, HeldUnchanged DEF createNextBlock
  <2>5. OtherInv'
    BY <1>2, <2>2, <2>3 DEF createNextBlock, OtherInv, IsMap
  <2> QED BY <2>4, <2>5
<1>3. ASSUME NEW n \in Nodes, NEW p \in BlockPayments, p.sender = n,
             createNextBlockWithTransaction(n, p.outs)
      PROVE  IndInv'
  <2>1. PICK t \in createTransactionWithMultipleOutputs(p.outs, n, utxo[n], pool[n]) :
          mining' = [mining EXCEPT ![n] = createRawNextBlock(n, <<t>>)]
    BY <1>3 DEF createNextBlockWithTransaction
  <2>2. IsTransaction(t)
    BY PaymentTyped, CreatedTyped DEF HeldInv
  <2>3. IsBlock(createRawNextBlock(n, <<t>>))
    <3> SUFFICES ASSUME NEW s, s = <<t>> PROVE AreTransactions(s)
      BY RawBlockTyped
    <3>1. IsSeq(s) /\ s[1] = t /\ DOMAIN s = 1..1
      BY IsSeqSingleton
    <3>2. \A i \in 1..1 : i = 1
      OBVIOUS
    <3> QED BY <2>2, <3>1, <3>2 DEF AreTransactions
  <2>4. HeldInv'
    BY <1>3, HeldUnchanged DEF createNextBlockWithTransaction
  <2>5. OtherInv'
    BY <1>3, <2>1, <2>3 DEF createNextBlockWithTransaction, OtherInv, IsMap
  <2> QED BY <2>4, <2>5
<1>4. ASSUME NEW n \in Nodes, FinishMining(n) PROVE IndInv'
  <2>1. IsBlock(mining[n])
    BY <1>4 DEF FinishMining, OtherInv
  <2>2. HeldInv'
    <3>1. CASE addBlockToBlockchain(n, mining[n])
      BY <2>1, <3>1, AddBlockInv
    <3>2. CASE UNCHANGED <<chain, utxo, pool, sentChains>>
      BY <3>2, HeldUnchanged
    <3> QED BY <1>4, <3>1, <3>2 DEF FinishMining
  <2>3. OtherInv'
    BY <1>4 DEF FinishMining, OtherInv, IsMap
  <2> QED BY <2>2, <2>3
<1>5. ASSUME NEW n \in Nodes, NEW c \in sentChains, ReceiveLatest(n, c) PROVE IndInv'
  <2>1. IsChain(c)
    BY DEF HeldInv
  <2>2. HeldInv'
    <3> SUFFICES ASSUME NEW b, b = getLatestBlock(c), NEW s, s = <<b>> PROVE HeldInv'
      OBVIOUS
    <3>1. IsSeq(s) /\ s # <<>> /\ Len(s) = 1 /\ s[1] = b /\ DOMAIN s = 1..1
      BY IsSeqSingleton
    <3>2. IsChain(s)
      BY <2>1, <3>1, TipIsBlock DEF IsChain
    <3>3. Linked(s) \/ getLatestBlock(s).index # 0
      BY <3>1 DEF Linked, getLatestBlock
    <3>4. newBlocksHandler(n, s)
      BY <1>5 DEF ReceiveLatest
    <3> QED BY <3>1, <3>2, <3>3, <3>4, NewBlocksInv
  <2>3. OtherInv'
    BY <1>5 DEF ReceiveLatest, OtherInv, IsMap
  <2> QED BY <2>2, <2>3
<1>6. ASSUME NEW n \in Nodes, NEW c \in sentChains, ReceiveBlockchain(n, c)
      PROVE  IndInv'
  <2>1. IsChain(c) /\ Linked(c)
    BY DEF HeldInv, ChainLinked
  <2>2. HeldInv'
    BY <1>6, <2>1, NewBlocksInv DEF ReceiveBlockchain
  <2>3. OtherInv'
    BY <1>6 DEF ReceiveBlockchain, OtherInv, IsMap
  <2> QED BY <2>2, <2>3
<1>7. ASSUME NEW n \in Nodes, NEW t \in sentTransactions, ReceivePool(n, t)
      PROVE  IndInv'
  <2>1. HeldInv'
    BY <1>7, PoolAppendInv DEF ReceivePool, OtherInv
  <2>2. OtherInv'
    BY <1>7 DEF ReceivePool, OtherInv, IsMap
  <2> QED BY <2>1, <2>2
<1>8. ASSUME NEW n \in Nodes, Tick(n) PROVE IndInv'
  <2>1. HeldInv'
    BY <1>8, HeldUnchanged DEF Tick
  <2>2. OtherInv'
    BY <1>8 DEF Tick, OtherInv, IsMap
  <2> QED BY <2>1, <2>2
<1>9. ASSUME NEW n \in Nodes, Restart(n) PROVE IndInv'
  <2> SUFFICES ASSUME NEW c, c = InitialChain(n, clock[n]) PROVE IndInv'
    OBVIOUS
  <2> DEFINE u == UtxoAfter(c)[Len(c)]
  <2>1. /\ IsChain(c) /\ Linked(c)
        /\ updateUnspentTransOuts(c[1].data, {}) = u
    BY InitialChainOK DEF OtherInv
  <2>2. /\ chain' = [chain EXCEPT ![n] = c]
        /\ utxo' = [utxo EXCEPT ![n] = u]
        /\ pool' = [pool EXCEPT ![n] = <<>>]
        /\ sentChains' = sentChains \cup {c}
    BY <1>9, <2>1 DEF Restart
  <2>3. IsUtxoSet(u)
    BY <2>1, UtxoTypedAfter
  <2>4. AreTransactions(<<>>)
    <3>1. IsSeq(<<>>) /\ DOMAIN <<>> = {}
      BY DEF IsSeq
    <3> QED BY <3>1 DEF AreTransactions
  <2>5. HeldInv'
    <3>1. chain' \in [Nodes -> sentChains'] /\ \A d \in sentChains' : IsChain(d)
      BY <2>1, <2>2 DEF HeldInv
    <3>2. ChainLinked'
      BY <2>1, <2>2 DEF HeldInv, ChainLinked
    <3> HIDE DEF u
    <3>3. IsMap(utxo)' /\ \A m \in Nodes : IsUtxoSet(utxo'[m])
      BY <2>2, <2>3 DEF HeldInv, IsMap
    <3>4. IsMap(pool)' /\ \A m \in Nodes : AreTransactions(pool'[m])
      BY <2>2, <2>4 DEF HeldInv, IsMap
    <3>5. UtxoReplayed'
      <4> SUFFICES ASSUME NEW m \in Nodes
          PROVE utxo'[m] = UtxoAfter(chain'[m])[Len(chain'[m])]
        BY DEF UtxoReplayed
      <4>1. CASE m = n
        <5>1. utxo'[m] = u /\ chain'[m] = c
          BY <2>2, <4>1 DEF HeldInv, IsMap
        <5> QED BY <5>1 DEF u
      <4>2. CASE m # n
        <5>1. utxo'[m] = utxo[m] /\ chain'[m] = chain[m]
          BY <2>2, <4>2 DEF HeldInv, IsMap
        <5> QED BY <5>1 DEF HeldInv, UtxoReplayed
      <4> QED BY <4>1, <4>2
    <3> QED BY <3>1, <3>2, <3>3, <3>4, <3>5 DEF HeldInv
  <2>6. OtherInv'
    BY <1>9 DEF Restart, OtherInv, IsMap
  <2> QED BY <2>5, <2>6
<1>10. CASE UNCHANGED vars
  <2>1. HeldInv'
    BY <1>10, HeldUnchanged DEF vars
  <2>2. OtherInv'
    BY <1>10 DEF vars, OtherInv, IsMap
  <2> QED BY <2>1, <2>2
<1> QED
  BY <1>1, <1>2, <1>3, <1>4, <1>5, <1>6, <1>7, <1>8, <1>9, <1>10 DEF Next, UserStep

-----------------------------------------------------------------------------
(* The theorems *)

\* In every state the variables have their types, the chains are linked and
\* the unspent outputs are what a replay of the chain gives.
THEOREM Invariance == Spec => []IndInv
  BY InitInd, NextInd, PTL DEF Spec

\* The variables always have their types: in particular, the difficulty is
\* always computed from a block that exists.
THEOREM TypeCorrect == Spec => []TypeOK
<1>1. IndInv => TypeOK
  BY DEF IndInv, HeldInv, OtherInv, TypeOK
<1> QED BY <1>1, Invariance, PTL

\* Whatever is mined and received meanwhile, every chain a node ever holds is
\* linked from its genesis block to its tip.
THEOREM AlwaysLinked == Spec => []ChainLinked
<1>1. IndInv => ChainLinked
  BY DEF IndInv, HeldInv
<1> QED BY <1>1, Invariance, PTL

\* Nodes with the same latest block always agree on the whole chain and on
\* the unspent outputs, so that ignoring a known latest block is safe.
THEOREM AlwaysSameTipSameState == Spec => []SameTipSameState
<1>1. IndInv => SameTipSameState
  <2> SUFFICES ASSUME IndInv, NEW m \in Nodes, NEW n \in Nodes,
                      calculateHash(getLatestBlock(chain[m]))
                        = calculateHash(getLatestBlock(chain[n]))
      PROVE chain[m] = chain[n] /\ utxo[m] = utxo[n]
    BY DEF SameTipSameState
  <2>1. getLatestBlock(chain[m]) = getLatestBlock(chain[n])
    BY DEF calculateHash
  <2>2. \A k \in Nodes : IsSeq(chain[k]) /\ chain[k] # <<>> /\ Linked(chain[k])
    BY DEF IndInv, HeldInv, ChainLinked, IsChain
  <2>3. chain[m] = chain[n]
    BY <2>1, <2>2, LinkedTip
  <2>4. utxo[m] = utxo[n]
    BY <2>3 DEF IndInv, HeldInv, UtxoReplayed
  <2> QED BY <2>3, <2>4
<1> QED BY <1>1, Invariance, PTL

-----------------------------------------------------------------------------
(* What a node takes up from a peer is a chain the network knows *)

\* Node n holds c now, which it has from a peer.
TakesUp(n, c) ==
  /\ HoldChain(n, c, UtxoAfter(c)[Len(c)])
  /\ \/ replaceChainAccepts(n, c)
     \/ \E b : c = Append(chain[n], b) /\ addBlockToBlockchainAccepts(n, b)
  /\ UNCHANGED <<mining, clock, sentTransactions>>

\* A chain a node takes up is one of the network, whole.
LEMMA ReplaceTaken ==
  ASSUME NEW n \in Nodes, NEW c, replaceChain(n, c),
         UNCHANGED <<mining, clock, sentTransactions>>
  PROVE  TakesUp(n, c)
  BY DEF replaceChain, TakesUp

\* A block appended by newBlocksHandler extends the own chain by one valid block.
LEMMA AppendTaken ==
  ASSUME IndInv, NEW n \in Nodes, NEW c \in sentChains, getLatestBlock(c).index # 0,
         calculateHash(getLatestBlock(chain[n])) = getLatestBlock(c).previousHash,
         addBlockToBlockchain(n, getLatestBlock(c)),
         UNCHANGED <<mining, clock, sentTransactions>>
  PROVE  TakesUp(n, c)
<1> DEFINE b == getLatestBlock(c)
<1>1. /\ IsSeq(c) /\ c # <<>> /\ Linked(c)
      /\ IsSeq(chain[n]) /\ chain[n] # <<>> /\ Linked(chain[n])
      /\ utxo[n] = UtxoAfter(chain[n])[Len(chain[n])]
  BY DEF IndInv, HeldInv, ChainLinked, IsChain, UtxoReplayed
<1>2. c = Append(chain[n], b)
  BY <1>1, LinkedExtends
<1>3. Len(c) = Len(chain[n]) + 1
  BY <1>1, <1>2, IsSeqAppend
<1>4. UtxoAfter(c)[Len(c)] = updateUnspentTransOuts(b.data, utxo[n])
  BY <1>1, <1>2, <1>3, UtxoAfterAppend
<1> HIDE DEF b
<1> QED BY <1>2, <1>4 DEF addBlockToBlockchain, TakesUp, b

\* So what a node does with a latest block is to take up a chain, or nothing.
LEMMA LatestTaken ==
  ASSUME IndInv, NEW n \in Nodes, NEW c \in sentChains, ReceiveLatest(n, c)
  PROVE  TakesUp(n, c)
<1> SUFFICES ASSUME NEW s, s = <<getLatestBlock(c)>> PROVE TakesUp(n, c)
  OBVIOUS
<1>1. IsSeq(c) /\ c # <<>> /\ Linked(c)
  BY DEF IndInv, HeldInv, ChainLinked, IsChain
<1>2. newBlocksHandler(n, s) /\ UNCHANGED <<mining, clock, sentTransactions>>
  BY DEF ReceiveLatest
<1>3. Len(s) = 1 /\ getLatestBlock(s) = getLatestBlock(c)
  BY IsSeqSingleton DEF getLatestBlock
<1>4. CASE getLatestBlock(c).index = 0
  BY <1>1, <1>2, <1>3, <1>4, SoleBlock, ReplaceTaken DEF newBlocksHandler
<1>5. CASE getLatestBlock(c).index # 0
  BY <1>2, <1>3, <1>5, AppendTaken DEF newBlocksHandler
<1> QED BY <1>4, <1>5

\* And so is what it does with a whole blockchain.
LEMMA BlockchainTaken ==
  ASSUME IndInv, NEW n \in Nodes, NEW c \in sentChains, ReceiveBlockchain(n, c)
  PROVE  TakesUp(n, c)
<1>1. IsSeq(c) /\ c # <<>> /\ Linked(c)
  BY DEF IndInv, HeldInv, ChainLinked, IsChain
<1>2. newBlocksHandler(n, c) /\ UNCHANGED <<mining, clock, sentTransactions>>
  BY DEF ReceiveBlockchain
<1>3. CASE Len(c) = 1 /\ getLatestBlock(c).index # 0
  BY <1>2, <1>3, AppendTaken DEF newBlocksHandler
<1>4. CASE ~(Len(c) = 1 /\ getLatestBlock(c).index # 0)
  BY <1>2, <1>4, ReplaceTaken DEF newBlocksHandler
<1> QED BY <1>3, <1>4

\* The chains of the network grow by what is mined, and by new starts, only.
LEMMA TakenKnown ==
  ASSUME NEW n \in Nodes, NEW c \in sentChains, TakesUp(n, c)
  PROVE  sentChains' = sentChains
  BY DEF TakesUp, HoldChain

-----------------------------------------------------------------------------
(* Difficulties *)

\* What the first blocks of a chain are does not change when one is added.
LEMMA FirstOfAppend ==
  ASSUME NEW c, IsSeq(c), NEW b, NEW k \in 0..Len(c)
  PROVE  SubSeq(Append(c, b), 1, k) = SubSeq(c, 1, k)
<1> SUFFICES ASSUME NEW d, d = Append(c, b), NEW p, p = SubSeq(d, 1, k),
                    NEW q, q = SubSeq(c, 1, k)
    PROVE p = q
  OBVIOUS
<1>1. Len(c) \in Nat /\ Len(d) = Len(c) + 1 /\ IsSeq(d) /\ \A i \in 1..Len(c) : d[i] = c[i]
  BY IsSeqShape, IsSeqAppend
<1>2. k \in 0..Len(d) /\ k \in Nat /\ \A i \in 1..k : i \in 1..Len(c)
  BY <1>1
<1>3. IsSeq(p) /\ Len(p) = k /\ \A i \in 1..k : p[i] = d[i]
  BY <1>1, <1>2, IsSeqFirst
<1>4. IsSeq(q) /\ Len(q) = k /\ \A i \in 1..k : q[i] = c[i]
  BY IsSeqFirst
<1>5. \A i \in 1..k : p[i] = q[i]
  BY <1>1, <1>2, <1>3, <1>4
<1> QED BY <1>3, <1>4, <1>5, IsSeqShape

\* All blocks of a chain are the chain.
LEMMA FirstAll ==
  ASSUME NEW c, IsSeq(c)
  PROVE  SubSeq(c, 1, Len(c)) = c
<1> SUFFICES ASSUME NEW p, p = SubSeq(c, 1, Len(c)) PROVE p = c
  OBVIOUS
<1>1. Len(c) \in Nat /\ Len(c) \in 0..Len(c)
  BY IsSeqShape
<1>2. IsSeq(p) /\ Len(p) = Len(c) /\ \A i \in 1..Len(c) : p[i] = c[i]
  BY <1>1, IsSeqFirst
<1> QED BY <1>2, IsSeqShape

\* Each block of c has the difficulty that the blocks before it prescribe.
Scheduled(c) == \A i \in 2..Len(c) : c[i].difficulty = getDifficulty(SubSeq(c, 1, i - 1))

\* A block of the difficulty its chain asks for keeps every block on schedule.
LEMMA ScheduledAppend ==
  ASSUME NEW c, IsSeq(c), Scheduled(c), NEW b, b.difficulty = getDifficulty(c)
  PROVE  Scheduled(Append(c, b))
<1> SUFFICES ASSUME NEW d, d = Append(c, b) PROVE Scheduled(d)
  OBVIOUS
<1>1. /\ Len(c) \in Nat /\ Len(d) = Len(c) + 1 /\ d[Len(c) + 1] = b
      /\ \A i \in 1..Len(c) : d[i] = c[i]
  BY IsSeqShape, IsSeqAppend
<1>2. \A k \in 0..Len(c) : SubSeq(d, 1, k) = SubSeq(c, 1, k)
  BY FirstOfAppend
<1> SUFFICES ASSUME NEW i \in 2..Len(d)
    PROVE d[i].difficulty = getDifficulty(SubSeq(d, 1, i - 1))
  BY DEF Scheduled
<1>3. CASE i = Len(c) + 1
  <2>1. i - 1 = Len(c) /\ Len(c) \in 0..Len(c)
    BY <1>1, <1>3
  <2>2. SubSeq(d, 1, i - 1) = c
    BY <1>2, <2>1, FirstAll
  <2> QED BY <1>1, <1>3, <2>2
<1>4. CASE i # Len(c) + 1
  <2>1. i \in 2..Len(c) /\ i \in 1..Len(c) /\ i - 1 \in 0..Len(c)
    BY <1>1, <1>4
  <2> QED BY <1>1, <1>2, <2>1 DEF Scheduled
<1> QED BY <1>3, <1>4

\* The candidate b was made on the chain c, with the difficulty due then.
MinedOn(b, c) ==
  /\ b.previousHash = calculateHash(getLatestBlock(c))
  /\ b.difficulty = getDifficulty(c)

\* A block of a wrong difficulty could only be one that was mined: every
\* candidate was made on a chain the network knows.
ScheduleInv ==
  /\ \A c \in sentChains : Scheduled(c)
  /\ \A n \in Nodes : mining[n] # None => \E c \in sentChains : MinedOn(mining[n], c)

\* A candidate that is accepted was made on the very chain it extends.
LEMMA AcceptedOnOwn ==
  ASSUME IndInv, NEW n \in Nodes, NEW b, NEW c \in sentChains,
         b.previousHash = calculateHash(getLatestBlock(c)),
         addBlockToBlockchainAccepts(n, b)
  PROVE  c = chain[n]
<1>1. calculateHash(getLatestBlock(chain[n])) = calculateHash(getLatestBlock(c))
  BY DEF addBlockToBlockchainAccepts, isBlockValid
<1>2. getLatestBlock(chain[n]) = getLatestBlock(c)
  BY <1>1 DEF calculateHash
<1>3. /\ IsSeq(c) /\ c # <<>> /\ Linked(c)
      /\ IsSeq(chain[n]) /\ chain[n] # <<>> /\ Linked(chain[n])
  BY DEF IndInv, HeldInv, ChainLinked, IsChain
<1> QED BY <1>2, <1>3, LinkedTip

\* A new chain has one block, of no scheduled difficulty.
LEMMA InitialScheduled ==
  ASSUME NEW n, NEW time
  PROVE  Scheduled(InitialChain(n, time))
<1> SUFFICES ASSUME NEW s, s = <<getGenesisBlock(n, time)>> PROVE Scheduled(s)
  BY DEF InitialChain
<1>1. Len(s) = 1
  BY IsSeqSingleton
<1> QED BY <1>1 DEF Scheduled

\* The genesis block has nothing before it.
LEMMA ScheduleInit == Init => ScheduleInv
  BY InitialScheduled DEF Init, ScheduleInv

\* Mining, receiving and restarting keep every chain on schedule.
LEMMA ScheduleNext == IndInv /\ ScheduleInv /\ [Next]_vars => ScheduleInv'
<1> SUFFICES ASSUME IndInv, ScheduleInv, [Next]_vars PROVE ScheduleInv'
  OBVIOUS
<1>0. IsMap(mining) /\ chain \in [Nodes -> sentChains]
  BY DEF IndInv, HeldInv, OtherInv
<1>1. ASSUME NEW n \in Nodes, NEW ts,
             mining' = [mining EXCEPT ![n] = createRawNextBlock(n, ts)],
             UNCHANGED sentChains
      PROVE  ScheduleInv'
  <2>1. MinedOn(createRawNextBlock(n, ts), chain[n]) /\ chain[n] \in sentChains
    BY <1>0 DEF createRawNextBlock, Block, MinedOn
  <2>2. \A m \in Nodes : mining'[m] = IF m = n THEN createRawNextBlock(n, ts) ELSE mining[m]
    BY <1>0, <1>1 DEF IsMap
  <2> QED BY <1>1, <2>1, <2>2 DEF ScheduleInv
<1>2. ASSUME UNCHANGED <<mining, sentChains>> PROVE ScheduleInv'
  BY <1>2 DEF ScheduleInv
<1>3. ASSUME NEW n \in Nodes, FinishMining(n) PROVE ScheduleInv'
  <2> DEFINE b == mining[n]
             d == Append(chain[n], b)
  <2>1. mining[n] # None /\ mining' = [mining EXCEPT ![n] = None]
    BY <1>3 DEF FinishMining
  <2>2. \A m \in Nodes : mining'[m] = IF m = n THEN None ELSE mining[m]
    BY <1>0, <2>1 DEF IsMap
  <2>3. CASE addBlockToBlockchain(n, b)
    <3>1. addBlockToBlockchainAccepts(n, b) /\ sentChains' = sentChains \cup {d}
      BY <2>3 DEF addBlockToBlockchain, HoldChain
    <3>2. PICK c \in sentChains : MinedOn(b, c)
      BY <2>1 DEF ScheduleInv
    <3>3. c = chain[n]
      BY <3>1, <3>2, AcceptedOnOwn DEF MinedOn
    <3>4. Scheduled(d)
      <4>1. IsSeq(c) /\ Scheduled(c) /\ b.difficulty = getDifficulty(c)
        BY <3>2 DEF IndInv, HeldInv, IsChain, ScheduleInv, MinedOn
      <4> HIDE DEF b
      <4> QED BY <3>3, <4>1, ScheduledAppend
    <3> HIDE DEF b, d
    <3> QED BY <2>2, <3>1, <3>4 DEF ScheduleInv
  <2>4. CASE UNCHANGED sentChains
    BY <2>2, <2>4 DEF ScheduleInv
  <2> QED BY <1>3, <2>3, <2>4 DEF FinishMining
<1>4. ASSUME NEW n \in Nodes, Restart(n) PROVE ScheduleInv'
  <2>1. mining' = [mining EXCEPT ![n] = None]
        /\ sentChains' = sentChains \cup {InitialChain(n, clock[n])}
    BY <1>4 DEF Restart
  <2>2. \A m \in Nodes : mining'[m] = IF m = n THEN None ELSE mining[m]
    BY <1>0, <2>1 DEF IsMap
  <2> QED BY <2>1, <2>2, InitialScheduled DEF ScheduleInv
<1>5. ASSUME NEW n \in Nodes, NEW p, SendTransaction(n, p) PROVE ScheduleInv'
  BY <1>2, <1>5 DEF SendTransaction
<1>6. ASSUME NEW n \in Nodes, createNextBlock(n) PROVE ScheduleInv'
  BY <1>1, <1>6 DEF createNextBlock
<1>7. ASSUME NEW n \in Nodes, NEW outs, createNextBlockWithTransaction(n, outs)
      PROVE  ScheduleInv'
  BY <1>1, <1>7 DEF createNextBlockWithTransaction
<1>8. ASSUME NEW n \in Nodes, NEW c \in sentChains,
             ReceiveLatest(n, c) \/ ReceiveBlockchain(n, c)
      PROVE  ScheduleInv'
  <2>1. TakesUp(n, c)
    BY <1>8, LatestTaken, BlockchainTaken
  <2> QED BY <1>2, <2>1, TakenKnown DEF TakesUp
<1>9. ASSUME NEW n \in Nodes, NEW t, ReceivePool(n, t) PROVE ScheduleInv'
  BY <1>2, <1>9 DEF ReceivePool
<1>10. ASSUME NEW n \in Nodes, Tick(n) PROVE ScheduleInv'
  BY <1>2, <1>10 DEF Tick
<1>11. CASE UNCHANGED vars
  BY <1>2, <1>11 DEF vars
<1> QED
  BY <1>3, <1>4, <1>5, <1>6, <1>7, <1>8, <1>9, <1>10, <1>11 DEF Next, UserStep

\* No node checks the difficulty of a block it receives.  Still, in every chain
\* any node ever holds, each block has the difficulty that getDifficulty
\* prescribes, however the chains raced while it was mined.
THEOREM AlwaysDifficultyAsScheduled == Spec => []DifficultyAsScheduled
<1>1. ScheduleInv => DifficultyAsScheduled
  BY DEF ScheduleInv, Scheduled, DifficultyAsScheduled
<1> QED BY <1>1, ScheduleInit, ScheduleNext, Invariance, PTL DEF Spec

-----------------------------------------------------------------------------
(* Outputs *)

\* The empty string is the id of no transaction (it is no SHA-256 digest).
NoneIsNoId == \A t : getTransactionId(t) # None

\* Each unspent output is what the transaction it names has created.
WellMade(us) ==
  \A u \in us :
    /\ u.transOutId = getTransactionId(u.transOutId)
    /\ u = UnspentTransOut(u.transOutId, u.transOutIndex,
                           u.transOutId.transOuts[u.transOutIndex + 1])

\* A reference tells the output.
LEMMA SameOutPoint ==
  ASSUME NEW us, WellMade(us), NEW vs, WellMade(vs), NEW u \in us, NEW v \in vs,
         getInputFromUnspentTransOut(u) = getInputFromUnspentTransOut(v)
  PROVE  u = v
<1>1. u.transOutId = v.transOutId /\ u.transOutIndex = v.transOutIndex
  BY DEF getInputFromUnspentTransOut, OutPoint
<1> QED BY <1>1 DEF WellMade

\* The outputs that transactions create are well made.
LEMMA CreatedWellMade ==
  ASSUME NEW ts, AreTransactions(ts)
  PROVE  WellMade(CreatedBy(ts))
<1> SUFFICES ASSUME NEW i \in DOMAIN ts, NEW k \in DOMAIN ts[i].transOuts,
                    NEW u, u = UnspentTransOut(getTransactionId(ts[i]), k - 1, ts[i].transOuts[k])
    PROVE /\ u.transOutId = getTransactionId(u.transOutId)
          /\ u = UnspentTransOut(u.transOutId, u.transOutIndex,
                                 u.transOutId.transOuts[u.transOutIndex + 1])
  BY DEF CreatedBy, WellMade
<1>1. IsSeq(ts[i].transOuts)
  BY DEF AreTransactions, IsTransaction
<1>2. k \in Nat
  BY <1>1, IsSeqShape
<1>3. k - 1 + 1 = k
  BY <1>2
<1>4. u.transOutId = getTransactionId(ts[i]) /\ u.transOutIndex = k - 1
  BY DEF UnspentTransOut
<1>5. /\ getTransactionId(ts[i]).transOuts = ts[i].transOuts
      /\ getTransactionId(getTransactionId(ts[i])) = getTransactionId(ts[i])
  BY DEF getTransactionId
<1> QED BY <1>3, <1>4, <1>5

\* updateUnspentTransOuts keeps unspent outputs well made.
LEMMA UpdateWellMade ==
  ASSUME NEW us, WellMade(us), NEW ts, AreTransactions(ts)
  PROVE  WellMade(updateUnspentTransOuts(ts, us))
  BY CreatedWellMade DEF updateUnspentTransOuts, WellMade

\* So they are after every block of a chain.
LEMMA AfterWellMade ==
  ASSUME NEW c, IsChain(c)
  PROVE  \A i \in 0..Len(c) : WellMade(UtxoAfter(c)[i])
<1> DEFINE Bad == {j \in 0..Len(c) : ~WellMade(UtxoAfter(c)[j])}
<1>0. IsSeq(c) /\ Len(c) \in Nat /\ DOMAIN c = 1..Len(c)
  BY IsSeqShape DEF IsChain
<1>1. Bad = {}
  <2> SUFFICES ASSUME Bad # {} PROVE FALSE
    OBVIOUS
  <2>1. PICK m \in Bad : \A j \in Bad : m <= j
    <3>1. Bad \in SUBSET Nat
      BY <1>0
    <3> HIDE DEF Bad
    <3> QED BY <3>1, NatMinimum
  <2>2. m # 0
    <3>1. UtxoAfter(c)[0] = {}
      BY <1>0, UtxoAfterDef
    <3>2. WellMade({})
      BY DEF WellMade
    <3> QED BY <3>1, <3>2
  <2>3. m \in 1..Len(c) /\ m - 1 \in 0..Len(c) /\ ~(m <= m - 1)
    BY <1>0, <2>2
  <2>4. WellMade(UtxoAfter(c)[m - 1])
    BY <2>1, <2>3
  <2>5. AreTransactions(c[m].data)
    BY <1>0, <2>3 DEF IsChain, IsBlock
  <2>6. WellMade(updateUnspentTransOuts(c[m].data, UtxoAfter(c)[m - 1]))
    BY <2>4, <2>5, UpdateWellMade
  <2>7. WellMade(UtxoAfter(c)[m])
    BY <1>0, <2>3, <2>6, UtxoAfterDef
  <2> QED BY <2>7
<1> QED BY <1>1

\* What a transaction refers to does not depend on the list it is found in.
LEMMA SameReferenced ==
  ASSUME NEW us, WellMade(us), NEW vs, WellMade(vs), NEW t,
         hasTransIns(t, us), hasTransIns(t, vs)
  PROVE  ReferencedBy(t, us) = ReferencedBy(t, vs)
<1>1. ASSUME NEW u \in us, getInputFromUnspentTransOut(u) \in t.transIns
      PROVE  u \in vs
  <2>1. PICK v \in vs : getInputFromUnspentTransOut(v) = getInputFromUnspentTransOut(u)
    BY <1>1 DEF hasTransIns
  <2> QED BY <2>1, SameOutPoint
<1>2. ASSUME NEW v \in vs, getInputFromUnspentTransOut(v) \in t.transIns
      PROVE  v \in us
  <2>1. PICK u \in us : getInputFromUnspentTransOut(v) = getInputFromUnspentTransOut(u)
    BY <1>2 DEF hasTransIns
  <2> QED BY <2>1, SameOutPoint
<1> QED BY <1>1, <1>2 DEF ReferencedBy

\* A valid transaction has all its inputs, and stays valid while it has them:
\* updatePool need not look at signatures and totals again.
LEMMA ValidHasTransIns ==
  ASSUME NEW t, NEW us, isValidTransaction(t, us)
  PROVE  hasTransIns(t, us)
  BY DEF isValidTransaction, isValidTransIn, hasTransIns

\* A valid transaction stays valid while its inputs stay unspent.
LEMMA StaysValid ==
  ASSUME NEW us, WellMade(us), NEW vs, WellMade(vs), NEW t,
         isValidTransaction(t, us), hasTransIns(t, vs)
  PROVE  isValidTransaction(t, vs)
<1>1. hasTransIns(t, us)
  BY ValidHasTransIns
<1>2. ReferencedBy(t, us) = ReferencedBy(t, vs)
  BY <1>1, SameReferenced
<1>3. ASSUME NEW in \in t.transIns PROVE isValidTransIn(in, t, vs)
  <2>1. PICK u \in us : getInputFromUnspentTransOut(u) = in /\ signVerify(u.address, t)
    BY DEF isValidTransaction, isValidTransIn
  <2>2. PICK v \in vs : getInputFromUnspentTransOut(v) = in
    BY DEF hasTransIns
  <2>3. u = v
    BY <2>1, <2>2, SameOutPoint
  <2> QED BY <2>1, <2>2, <2>3 DEF isValidTransIn
<1> QED BY <1>2, <1>3 DEF isValidTransaction

-----------------------------------------------------------------------------
(* Pools *)

\* Every transaction of p is valid, and no two consume the same output.
PoolFits(p, us) ==
  /\ \A i, j \in DOMAIN p : i # j => p[i].transIns \cap p[j].transIns = {}
  /\ \A i \in DOMAIN p : isValidTransaction(p[i], us)

\* The pool of a node that takes up other outputs fits those.
LEMMA UpdatePoolFits ==
  ASSUME NEW p, IsSeq(p), NEW us, WellMade(us), NEW vs, WellMade(vs), PoolFits(p, us)
  PROVE  PoolFits(updatePool(p, vs), vs)
<1> SUFFICES ASSUME NEW q, IsSelection(q, p, Len(p), vs) PROVE PoolFits(q, vs)
  BY UpdatePoolSelects
<1>1. DOMAIN q = 1..Len(q) /\ DOMAIN p = 1..Len(p)
  BY IsSeqShape DEF IsSelection
<1>2. ASSUME NEW x \in DOMAIN q, NEW y \in DOMAIN q, x # y
      PROVE  q[x].transIns \cap q[y].transIns = {}
  <2>1. PICK i \in 1..Len(p), j \in 1..Len(p) : i # j /\ q[x] = p[i] /\ q[y] = p[j]
    BY <1>1, <1>2 DEF IsSelection
  <2> QED BY <1>1, <2>1 DEF PoolFits
<1>3. ASSUME NEW x \in DOMAIN q PROVE isValidTransaction(q[x], vs)
  <2>1. PICK j \in 1..Len(p) : q[x] = p[j] /\ hasTransIns(q[x], vs)
    BY <1>1 DEF IsSelection
  <2>2. isValidTransaction(q[x], us)
    BY <1>1, <2>1 DEF PoolFits
  <2> QED BY <2>1, <2>2, StaysValid
<1> QED BY <1>2, <1>3 DEF PoolFits

\* A transaction that the pool accepts fits into it.
LEMMA AppendFits ==
  ASSUME NEW p, IsSeq(p), NEW us, PoolFits(p, us), NEW t, addToPoolAccepts(t, p, us)
  PROVE  PoolFits(Append(p, t), us)
<1> SUFFICES ASSUME NEW q, q = Append(p, t) PROVE PoolFits(q, us)
  OBVIOUS
<1>1. /\ Len(p) \in Nat /\ DOMAIN p = 1..Len(p) /\ DOMAIN q = 1..(Len(p) + 1)
      /\ q[Len(p) + 1] = t /\ \A i \in 1..Len(p) : q[i] = p[i]
  BY IsSeqShape, IsSeqAppend
<1>2. \A i \in DOMAIN q : i = Len(p) + 1 \/ i \in DOMAIN p
  BY <1>1
<1>3. isValidTransaction(t, us) /\ \A i \in DOMAIN p : t.transIns \cap p[i].transIns = {}
  BY DEF addToPoolAccepts, isValidTransForPool, ConsumedBy
<1>4. \A i \in DOMAIN p : q[i] = p[i] /\ isValidTransaction(p[i], us)
  BY <1>1 DEF PoolFits
<1>5. ASSUME NEW i \in DOMAIN q, NEW j \in DOMAIN q, i # j
      PROVE  q[i].transIns \cap q[j].transIns = {}
  <2>1. CASE i \in DOMAIN p /\ j \in DOMAIN p
    BY <1>4, <1>5, <2>1 DEF PoolFits
  <2>2. CASE i = Len(p) + 1 /\ j \in DOMAIN p
    BY <1>1, <1>3, <1>4, <2>2
  <2>3. CASE i \in DOMAIN p /\ j = Len(p) + 1
    BY <1>1, <1>3, <1>4, <2>3
  <2> QED BY <1>2, <1>5, <2>1, <2>2, <2>3
<1>6. \A i \in DOMAIN q : isValidTransaction(q[i], us)
  BY <1>1, <1>2, <1>3, <1>4
<1> QED BY <1>5, <1>6 DEF PoolFits

\* So do the oldest transactions of a pool by themselves.
LEMMA FirstFit ==
  ASSUME NEW p, IsSeq(p), NEW us, PoolFits(p, us), NEW k \in 0..Len(p)
  PROVE  PoolFits(SubSeq(p, 1, k), us)
<1> SUFFICES ASSUME NEW q, q = SubSeq(p, 1, k) PROVE PoolFits(q, us)
  OBVIOUS
<1>1. IsSeq(q) /\ Len(q) = k /\ \A i \in 1..k : q[i] = p[i]
  BY IsSeqFirst
<1>2. DOMAIN q = 1..k /\ DOMAIN p = 1..Len(p) /\ Len(p) \in Nat
  BY <1>1, IsSeqShape
<1>3. \A i \in DOMAIN q : i \in DOMAIN p /\ q[i] = p[i]
  BY <1>1, <1>2
<1> QED BY <1>3 DEF PoolFits

\* No valid input is the input of a coinbase.
LEMMA NoCoinbaseInput ==
  ASSUME NoneIsNoId, NEW us, WellMade(us), NEW t, hasTransIns(t, us)
  PROVE  \A i : OutPoint(None, i) \notin t.transIns
<1> SUFFICES ASSUME NEW i, OutPoint(None, i) \in t.transIns PROVE FALSE
  OBVIOUS
<1>1. PICK u \in us : getInputFromUnspentTransOut(u) = OutPoint(None, i)
  BY DEF hasTransIns
<1>2. u.transOutId = None
  BY <1>1 DEF getInputFromUnspentTransOut, OutPoint
<1> QED BY <1>2 DEF WellMade, NoneIsNoId

\* A coinbase and transactions that fit make valid data for a block.
LEMMA FittingData ==
  ASSUME NoneIsNoId, NEW p, IsSeq(p), NEW us, WellMade(us), PoolFits(p, us),
         NEW n, NEW blockIndex
  PROVE  areValidBlockTransactions(
           <<getCoinbaseTransaction(n, blockIndex)>> \o p, us, blockIndex)
<1> DEFINE coinbase == getCoinbaseTransaction(n, blockIndex)
<1> SUFFICES ASSUME NEW ts, ts = <<coinbase>> \o p
    PROVE areValidBlockTransactions(ts, us, blockIndex)
  OBVIOUS
<1>1. /\ IsSeq(ts) /\ Len(ts) = Len(p) + 1 /\ ts[1] = coinbase
      /\ \A i \in 2..(Len(p) + 1) : ts[i] = p[i - 1]
  BY IsSeqPrefixed
<1>2. /\ Len(p) \in Nat /\ DOMAIN p = 1..Len(p) /\ DOMAIN ts = 1..(Len(p) + 1)
  BY <1>1, IsSeqShape
<1>3. coinbase.transIns = {OutPoint(None, blockIndex)}
  BY DEF getCoinbaseTransaction
<1>4. isValidCoinbaseTransaction(coinbase, blockIndex)
  <2> SUFFICES ASSUME NEW outs, outs = <<TransOut(n, COINBASE_AMOUNT)>>
      PROVE Len(outs) = 1 /\ outs[1].amount = COINBASE_AMOUNT
    BY DEF isValidCoinbaseTransaction, getCoinbaseTransaction, OutPoint
  <2> QED BY IsSeqSingleton DEF TransOut
<1> HIDE DEF coinbase
<1>5. \A i \in DOMAIN ts : i = 1 \/ (i \in 2..Len(ts) /\ i - 1 \in DOMAIN p /\ ts[i] = p[i - 1])
  BY <1>1, <1>2
<1>6. \A i \in DOMAIN p : isValidTransaction(p[i], us) /\ OutPoint(None, blockIndex) \notin p[i].transIns
  BY ValidHasTransIns, NoCoinbaseInput DEF PoolFits
<1>7. ASSUME NEW i \in DOMAIN ts, NEW j \in DOMAIN ts, i # j
      PROVE  ts[i].transIns \cap ts[j].transIns = {}
  <2>1. CASE i = 1
    <3>1. j - 1 \in DOMAIN p /\ ts[j] = p[j - 1]
      BY <1>5, <1>7, <2>1
    <3> QED BY <1>1, <1>3, <1>6, <2>1, <3>1
  <2>2. CASE j = 1
    <3>1. i - 1 \in DOMAIN p /\ ts[i] = p[i - 1]
      BY <1>5, <1>7, <2>2
    <3> QED BY <1>1, <1>3, <1>6, <2>2, <3>1
  <2>3. CASE i # 1 /\ j # 1
    <3>1. /\ i - 1 \in DOMAIN p /\ ts[i] = p[i - 1]
          /\ j - 1 \in DOMAIN p /\ ts[j] = p[j - 1]
      BY <1>5, <2>3
    <3>2. i - 1 # j - 1
      BY <1>2, <1>7
    <3> QED BY <3>1, <3>2 DEF PoolFits
  <2> QED BY <2>1, <2>2, <2>3
<1>8. \A i \in 2..Len(ts) : isValidTransaction(ts[i], us)
  <2>1. \A i \in 2..Len(ts) : i \in DOMAIN ts /\ i # 1
    BY <1>1, <1>2
  <2> QED BY <1>5, <1>6, <2>1
<1> QED BY <1>1, <1>4, <1>7, <1>8 DEF areValidBlockTransactions, hasDuplicates

\* The pool of each node fits its unspent outputs.
PoolInv == \A n \in Nodes : PoolFits(pool[n], utxo[n])

\* The outputs a node holds are well made.
LEMMA HeldWellMade ==
  ASSUME IndInv, NEW n \in Nodes
  PROVE  WellMade(utxo[n])
<1>1. IsChain(chain[n]) /\ utxo[n] = UtxoAfter(chain[n])[Len(chain[n])]
  BY DEF IndInv, HeldInv, UtxoReplayed
<1>2. Len(chain[n]) \in 0..Len(chain[n])
  BY <1>1, IsSeqShape DEF IsChain
<1> QED BY <1>1, <1>2, AfterWellMade

\* A node that takes a chain keeps in its pool what that chain leaves valid.
LEMMA HoldChainFits ==
  ASSUME IndInv, PoolInv, NEW n \in Nodes, NEW c, NEW u, WellMade(u), HoldChain(n, c, u)
  PROVE  PoolInv'
<1>1. PoolFits(updatePool(pool[n], u), u)
  BY HeldWellMade, UpdatePoolFits DEF IndInv, HeldInv, AreTransactions, PoolInv
<1>2. \A m \in Nodes : /\ pool'[m] = IF m = n THEN updatePool(pool[n], u) ELSE pool[m]
                       /\ utxo'[m] = IF m = n THEN u ELSE utxo[m]
  BY DEF HoldChain, IndInv, HeldInv, IsMap
<1> QED BY <1>1, <1>2 DEF PoolInv

\* So does one whose pool accepts a transaction.
LEMMA PoolGrowFits ==
  ASSUME IndInv, PoolInv, NEW n \in Nodes, NEW t, addToPoolAccepts(t, pool[n], utxo[n]),
         pool' = [pool EXCEPT ![n] = Append(@, t)], UNCHANGED utxo
  PROVE  PoolInv'
<1>1. PoolFits(Append(pool[n], t), utxo[n])
  BY AppendFits DEF IndInv, HeldInv, AreTransactions, PoolInv
<1>2. \A m \in Nodes : pool'[m] = IF m = n THEN Append(pool[n], t) ELSE pool[m]
  BY DEF IndInv, HeldInv, IsMap
<1> QED BY <1>1, <1>2 DEF PoolInv

\* The pool of a node that has just started is empty.
LEMMA EmptyFits == ASSUME NEW us PROVE PoolFits(<<>>, us)
  BY DEF PoolFits

\* All pools are empty at first.
LEMMA PoolInit == Init => PoolInv
  BY EmptyFits DEF Init, PoolInv

\* Every step keeps every pool minable.
LEMMA PoolNext == IndInv /\ PoolInv /\ [Next]_vars => PoolInv'
<1> SUFFICES ASSUME IndInv, PoolInv, [Next]_vars PROVE PoolInv'
  OBVIOUS
<1>1. ASSUME UNCHANGED <<pool, utxo>> PROVE PoolInv'
  BY <1>1 DEF PoolInv
<1>2. ASSUME NEW n \in Nodes, NEW out, SendTransaction(n, out) PROVE PoolInv'
  BY <1>2, PoolGrowFits DEF SendTransaction
<1>3. ASSUME NEW n \in Nodes, createNextBlock(n) PROVE PoolInv'
  BY <1>1, <1>3 DEF createNextBlock
<1>4. ASSUME NEW n \in Nodes, NEW outs, createNextBlockWithTransaction(n, outs)
      PROVE  PoolInv'
  BY <1>1, <1>4 DEF createNextBlockWithTransaction
<1>5. ASSUME NEW n \in Nodes, FinishMining(n) PROVE PoolInv'
  <2>1. CASE addBlockToBlockchain(n, mining[n])
    <3>1. AreTransactions(mining[n].data)
      BY <1>5 DEF FinishMining, IndInv, OtherInv, IsBlock
    <3>2. WellMade(updateUnspentTransOuts(mining[n].data, utxo[n]))
      BY <3>1, HeldWellMade, UpdateWellMade
    <3> QED BY <2>1, <3>2, HoldChainFits DEF addBlockToBlockchain
  <2>2. CASE UNCHANGED <<chain, utxo, pool, sentChains>>
    BY <1>1, <2>2
  <2> QED BY <1>5, <2>1, <2>2 DEF FinishMining
<1>6. ASSUME NEW n \in Nodes, NEW c \in sentChains,
             ReceiveLatest(n, c) \/ ReceiveBlockchain(n, c)
      PROVE  PoolInv'
  <2>1. TakesUp(n, c)
    BY <1>6, LatestTaken, BlockchainTaken
  <2>2. IsChain(c)
    BY DEF IndInv, HeldInv
  <2>3. Len(c) \in 0..Len(c)
    BY <2>2, IsSeqShape DEF IsChain
  <2>4. WellMade(UtxoAfter(c)[Len(c)])
    BY <2>2, <2>3, AfterWellMade
  <2> QED BY <2>1, <2>4, HoldChainFits DEF TakesUp
<1>7. ASSUME NEW n \in Nodes, NEW t, ReceivePool(n, t) PROVE PoolInv'
  BY <1>7, PoolGrowFits DEF ReceivePool
<1>8. ASSUME NEW n \in Nodes, Tick(n) PROVE PoolInv'
  BY <1>1, <1>8 DEF Tick
<1>9. ASSUME NEW n \in Nodes, Restart(n) PROVE PoolInv'
  <2>1. \A m \in Nodes : m # n => pool'[m] = pool[m] /\ utxo'[m] = utxo[m]
    BY <1>9 DEF Restart, IndInv, HeldInv, IsMap
  <2>2. pool'[n] = <<>>
    BY <1>9 DEF Restart, IndInv, HeldInv, IsMap
  <2> QED BY <2>1, <2>2, EmptyFits DEF PoolInv
<1>10. CASE UNCHANGED vars
  BY <1>1, <1>10 DEF vars
<1> QED
  BY <1>2, <1>3, <1>4, <1>5, <1>6, <1>7, <1>8, <1>9, <1>10 DEF Next, UserStep

\* updatePool checks only that the inputs of a waiting transaction exist, and
\* createNextBlock checks nothing.  Still a coinbase and the whole pool always
\* make valid data for the next block: outputs are told by their references,
\* so a transaction that was valid stays valid as long as its inputs exist.
THEOREM AlwaysPoolMinable == ASSUME NoneIsNoId PROVE Spec => []PoolMinable
<1>1. IndInv /\ PoolInv => PoolMinable
  BY HeldWellMade, FittingData DEF PoolMinable, PoolInv, IndInv, HeldInv, AreTransactions
<1> QED BY <1>1, PoolInit, PoolNext, Invariance, PTL DEF Spec

-----------------------------------------------------------------------------
(* Amounts *)

\* The outputs of t are worth natural numbers.
PayNat(t) == \A k \in DOMAIN t.transOuts : t.transOuts[k].amount \in Nat

\* All of these transactions pay natural amounts.
AllPayNat(ts) == \A i \in DOMAIN ts : PayNat(ts[i])

\* Finitely many outputs of natural amounts.
Countable(us) == IsFiniteSet(us) /\ HaveAmounts(us)

\* What the transaction t creates.
CreatedByOne(t) ==
  {UnspentTransOut(getTransactionId(t), k - 1, t.transOuts[k]) : k \in DOMAIN t.transOuts}

\* Transactions create finitely many outputs, of natural amounts.
LEMMA CreatedCountable ==
  ASSUME NEW ts, AreTransactions(ts), AllPayNat(ts)
  PROVE  Countable(CreatedBy(ts))
<1> DEFINE f == [i \in DOMAIN ts |-> CreatedByOne(ts[i])]
           S == {f[i] : i \in DOMAIN ts}
<1>1. CreatedBy(ts) = UNION S
  BY DEF CreatedBy, CreatedByOne
<1>2. IsFiniteSet(DOMAIN ts)
  <2>1. DOMAIN ts = 1..Len(ts) /\ Len(ts) \in Int /\ 1 \in Int
    BY IsSeqShape DEF AreTransactions
  <2> QED BY <2>1, FS_Interval
<1>3. IsFiniteSet(S)
  <2>1. f \in Surjection(DOMAIN ts, S)
    BY DEF Surjection
  <2> HIDE DEF f, S
  <2> QED BY <1>2, <2>1, FS_Surjection
<1>4. \A i \in DOMAIN ts : IsFiniteSet(CreatedByOne(ts[i])) /\ HaveAmounts(CreatedByOne(ts[i]))
  <2> SUFFICES ASSUME NEW i \in DOMAIN ts
      PROVE IsFiniteSet(CreatedByOne(ts[i])) /\ HaveAmounts(CreatedByOne(ts[i]))
    OBVIOUS
  <2>1. IsSeq(ts[i].transOuts) /\ \A k \in DOMAIN ts[i].transOuts : ts[i].transOuts[k].amount \in Nat
    BY DEF AreTransactions, IsTransaction, AllPayNat, PayNat
  <2> QED BY <2>1, TotalCreated DEF CreatedByOne
<1>5. \A T \in S : IsFiniteSet(T) /\ HaveAmounts(T)
  BY <1>4
<1> HIDE DEF S
<1>6. IsFiniteSet(UNION S)
  BY <1>3, <1>5, FS_UNION
<1>7. HaveAmounts(UNION S)
  BY <1>5 DEF HaveAmounts
<1> QED BY <1>1, <1>6, <1>7 DEF Countable

\* updateUnspentTransOuts keeps that.
LEMMA UpdateCountable ==
  ASSUME NEW us, Countable(us), NEW ts, AreTransactions(ts), AllPayNat(ts)
  PROVE  Countable(updateUnspentTransOuts(ts, us))
<1> DEFINE kept == {u \in us : getInputFromUnspentTransOut(u) \notin ConsumedBy(ts)}
<1>1. kept \subseteq us
  OBVIOUS
<1>2. updateUnspentTransOuts(ts, us) = kept \cup CreatedBy(ts)
  BY DEF updateUnspentTransOuts
<1> HIDE DEF kept
<1>3. Countable(kept)
  BY <1>1, FS_Subset DEF Countable, HaveAmounts
<1>4. Countable(CreatedBy(ts))
  BY CreatedCountable
<1>5. Countable(kept \cup CreatedBy(ts))
  BY <1>3, <1>4, FS_Union DEF Countable, HaveAmounts
<1> QED BY <1>2, <1>5

\* No outputs are countable.
LEMMA EmptyCountable == Countable({})
  BY FS_EmptySet DEF Countable, HaveAmounts

\* So the unspent outputs can be added up after every block of a chain.
LEMMA AfterCountable ==
  ASSUME NEW c, IsChain(c), \A i \in 1..Len(c) : AllPayNat(c[i].data)
  PROVE  \A i \in 0..Len(c) : Countable(UtxoAfter(c)[i])
<1> DEFINE Bad == {j \in 0..Len(c) : ~Countable(UtxoAfter(c)[j])}
<1>0. IsSeq(c) /\ Len(c) \in Nat /\ DOMAIN c = 1..Len(c)
  BY IsSeqShape DEF IsChain
<1>1. Bad = {}
  <2> SUFFICES ASSUME Bad # {} PROVE FALSE
    OBVIOUS
  <2>1. PICK m \in Bad : \A j \in Bad : m <= j
    <3>1. Bad \in SUBSET Nat
      BY <1>0
    <3> HIDE DEF Bad
    <3> QED BY <3>1, NatMinimum
  <2>2. m # 0
    BY <1>0, UtxoAfterDef, EmptyCountable
  <2>3. m \in 1..Len(c) /\ m - 1 \in 0..Len(c) /\ ~(m <= m - 1)
    BY <1>0, <2>2
  <2>4. Countable(UtxoAfter(c)[m - 1])
    BY <2>1, <2>3
  <2>5. AreTransactions(c[m].data) /\ AllPayNat(c[m].data)
    BY <1>0, <2>3 DEF IsChain, IsBlock
  <2>6. Countable(updateUnspentTransOuts(c[m].data, UtxoAfter(c)[m - 1]))
    BY <2>4, <2>5, UpdateCountable
  <2>7. Countable(UtxoAfter(c)[m])
    BY <1>0, <2>3, <2>6, UtxoAfterDef
  <2> QED BY <2>7
<1> QED BY <1>1

\* What the wallet creates is valid, consumes nothing that waits in the pool,
\* and pays natural amounts.
LEMMA CreatedValid ==
  ASSUME NEW n, NEW outs, IsSeq(outs), \A k \in DOMAIN outs : outs[k].amount \in Nat,
         NEW us, WellMade(us), Countable(us), NEW p,
         NEW t \in createTransactionWithMultipleOutputs(outs, n, us, p)
  PROVE  /\ isValidTransaction(t, us)
         /\ isValidTransForPool(t, p)
         /\ PayNat(t)
<1> DEFINE amount == TotalOfTransOuts(outs)
           mine   == filterUnspentTransOuts(getUnspentTransOutsOfAddress(n, us), p)
<1>1. PICK included \in getTransOutsForAmount(amount, mine) :
        t = [transIns  |-> {getInputFromUnspentTransOut(u) : u \in included},
             transOuts |-> createTransOuts(outs, n,
                             getTotalFromOutputVector(included) - amount),
             signer    |-> n]
  BY DEF createTransactionWithMultipleOutputs
<1> DEFINE left == getTotalFromOutputVector(included) - amount
<1>2. /\ t.transIns = {getInputFromUnspentTransOut(u) : u \in included}
      /\ t.transOuts = createTransOuts(outs, n, left)
      /\ t.signer = n
  BY <1>1
<1>3. \A u \in included : /\ u \in us /\ u.address = n
                          /\ getInputFromUnspentTransOut(u) \notin ConsumedBy(p)
  BY DEF getTransOutsForAmount, filterUnspentTransOuts, getUnspentTransOutsOfAddress
<1>4. getTotalFromOutputVector(included) >= amount
  BY DEF getTransOutsForAmount
<1> HIDE DEF left, amount, mine
<1>5. isValidTransForPool(t, p)
  BY <1>2, <1>3 DEF isValidTransForPool
<1>6. \A in \in t.transIns : isValidTransIn(in, t, us)
  BY <1>2, <1>3 DEF isValidTransIn, signVerify
<1>7. ReferencedBy(t, us) = included
  <2>1. ASSUME NEW u \in us, getInputFromUnspentTransOut(u) \in t.transIns
        PROVE  u \in included
    <3>1. PICK v \in included :
            getInputFromUnspentTransOut(u) = getInputFromUnspentTransOut(v)
      BY <1>2, <2>1
    <3> QED BY <1>3, <3>1, SameOutPoint
  <2> QED BY <1>2, <1>3, <2>1 DEF ReferencedBy
<1>8. getTotalFromOutputVector(included) \in Nat
  <2>1. included \in SUBSET us
    BY <1>3
  <2>2. IsFiniteSet(included) /\ HaveAmounts(included)
    BY <2>1, FS_Subset DEF Countable, HaveAmounts
  <2> QED BY <2>2, TotalNat
<1>9. amount \in Nat
  <2>1. TransOut(n, 0).amount \in Nat
    BY DEF TransOut
  <2> QED BY <2>1, TotalOfTransOutsAppend DEF amount
<1>10. TotalOfTransOuts(t.transOuts) = getTotalFromOutputVector(included) /\ PayNat(t)
  <2>1. CASE left = 0
    <3>1. t.transOuts = outs
      BY <1>2, <2>1 DEF createTransOuts
    <3>2. amount = getTotalFromOutputVector(included)
      BY <1>8, <1>9, <2>1 DEF left
    <3> QED BY <3>1, <3>2 DEF PayNat, amount
  <2>2. CASE left # 0
    <3> DEFINE o == TransOut(n, left)
    <3>1. left \in Nat /\ getTotalFromOutputVector(included) = amount + left
      BY <1>4, <1>8, <1>9 DEF left
    <3>2. t.transOuts = Append(outs, o) /\ o.amount = left
      BY <1>2, <2>2 DEF createTransOuts, TransOut
    <3> HIDE DEF o
    <3>3. TotalOfTransOuts(Append(outs, o)) = amount + left
      BY <3>1, <3>2, TotalOfTransOutsAppend DEF amount
    <3>4. \A k \in DOMAIN Append(outs, o) : Append(outs, o)[k].amount \in Nat
      <4> SUFFICES ASSUME NEW s, s = Append(outs, o) PROVE \A k \in DOMAIN s : s[k].amount \in Nat
        OBVIOUS
      <4>1. /\ Len(outs) \in Nat /\ DOMAIN outs = 1..Len(outs) /\ DOMAIN s = 1..(Len(outs) + 1)
            /\ s[Len(outs) + 1] = o /\ \A k \in 1..Len(outs) : s[k] = outs[k]
        BY IsSeqShape, IsSeqAppend
      <4>2. \A k \in DOMAIN s : k \in DOMAIN outs \/ k = Len(outs) + 1
        BY <4>1
      <4> QED BY <3>1, <3>2, <4>1, <4>2
    <3> QED BY <3>1, <3>2, <3>3, <3>4 DEF PayNat
  <2> QED BY <2>1, <2>2
<1> QED BY <1>5, <1>6, <1>7, <1>10 DEF isValidTransaction

-----------------------------------------------------------------------------
(* Sound chains *)

\* The block b could be added to unspent outputs us, and pays a node.
SoundBlock(b, us) ==
  /\ areValidBlockTransactions(b.data, us, b.index)
  /\ AllPayNat(b.data)
  /\ \E n \in Nodes : b.data[1] = getCoinbaseTransaction(n, b.index)

\* Every block of the chain is sound with what is unspent before it.
SoundChain(c) == \A i \in 1..Len(c) : SoundBlock(c[i], UtxoAfter(c)[i - 1])

\* A chain stays sound when a sound block is appended.
LEMMA SoundAppend ==
  ASSUME NEW c, IsSeq(c), SoundChain(c), NEW b, SoundBlock(b, UtxoAfter(c)[Len(c)])
  PROVE  SoundChain(Append(c, b))
<1> SUFFICES ASSUME NEW d, d = Append(c, b) PROVE SoundChain(d)
  OBVIOUS
<1>1. /\ Len(c) \in Nat /\ IsSeq(d) /\ Len(d) = Len(c) + 1 /\ d[Len(c) + 1] = b
      /\ \A i \in 1..Len(c) : d[i] = c[i] /\ c[i] = d[i]
  BY IsSeqShape, IsSeqAppend
<1>2. Len(c) <= Len(d)
  BY <1>1
<1>3. \A i \in 0..Len(c) : UtxoAfter(c)[i] = UtxoAfter(d)[i]
  BY <1>1, <1>2, UtxoAfterPrefix
<1> SUFFICES ASSUME NEW i \in 1..Len(d) PROVE SoundBlock(d[i], UtxoAfter(d)[i - 1])
  BY DEF SoundChain
<1>4. CASE i = Len(c) + 1
  <2>1. i - 1 = Len(c) /\ Len(c) \in 0..Len(c)
    BY <1>1, <1>4
  <2>2. UtxoAfter(d)[i - 1] = UtxoAfter(c)[Len(c)]
    BY <1>3, <2>1
  <2> QED BY <1>1, <1>4, <2>2
<1>5. CASE i # Len(c) + 1
  <2>1. i \in 1..Len(c) /\ i - 1 \in 0..Len(c)
    BY <1>1, <1>5
  <2>2. d[i] = c[i] /\ UtxoAfter(d)[i - 1] = UtxoAfter(c)[i - 1]
    BY <1>1, <1>3, <2>1
  <2> QED BY <2>1, <2>2 DEF SoundChain
<1> QED BY <1>4, <1>5

\* A coinbase pays the coinbase amount.
LEMMA CoinbasePays ==
  ASSUME NEW n, NEW index
  PROVE  /\ PayNat(getCoinbaseTransaction(n, index))
         /\ isValidCoinbaseTransaction(getCoinbaseTransaction(n, index), index)
         /\ TotalOfTransOuts(getCoinbaseTransaction(n, index).transOuts) = COINBASE_AMOUNT
<1> DEFINE o == TransOut(n, COINBASE_AMOUNT)
           coinbase == getCoinbaseTransaction(n, index)
<1> SUFFICES ASSUME NEW outs, outs = <<o>>
    PROVE /\ PayNat(coinbase)
          /\ isValidCoinbaseTransaction(coinbase, index)
          /\ TotalOfTransOuts(outs) = COINBASE_AMOUNT
  BY DEF getCoinbaseTransaction
<1>1. /\ coinbase.transIns = {OutPoint(None, index)} /\ coinbase.transOuts = outs
      /\ OutPoint(None, index).transOutIndex = index
  BY DEF getCoinbaseTransaction, OutPoint
<1>2. Len(outs) = 1 /\ outs[1] = o /\ DOMAIN outs = 1..1
  BY IsSeqSingleton
<1>3. o.amount = COINBASE_AMOUNT /\ o.amount \in Nat
  BY CoinbaseAssumption DEF TransOut
<1>4. \A k \in 1..1 : k = 1
  OBVIOUS
<1> HIDE DEF o, coinbase
<1>5. PayNat(coinbase)
  BY <1>1, <1>2, <1>3, <1>4 DEF PayNat
<1>6. isValidCoinbaseTransaction(coinbase, index)
  BY <1>1, <1>2, <1>3 DEF isValidCoinbaseTransaction
<1>7. TotalOfTransOuts(outs) = COINBASE_AMOUNT
  BY <1>3, TotalOfOneOutput
<1> QED BY <1>5, <1>6, <1>7

\* A new chain is sound.
LEMMA InitialSound ==
  ASSUME NEW n \in Nodes, NEW time
  PROVE  SoundChain(InitialChain(n, time))
<1> DEFINE b == getGenesisBlock(n, time)
           coinbase == getCoinbaseTransaction(n, 0)
<1> SUFFICES ASSUME NEW c, c = <<b>>, NEW ts, ts = <<coinbase>> PROVE SoundChain(c)
  BY DEF InitialChain
<1>1. b.data = ts /\ b.index = 0
  BY DEF getGenesisBlock, Block
<1>2. Len(c) = 1 /\ c[1] = b
  BY IsSeqSingleton
<1>3. Len(ts) = 1 /\ ts[1] = coinbase /\ DOMAIN ts = 1..1
  BY IsSeqSingleton
<1>4. \A i \in 1..1 : i = 1
  OBVIOUS
<1> HIDE DEF b, coinbase
<1>5. ~hasDuplicates(ts)
  BY <1>3, <1>4 DEF hasDuplicates
<1>6. AllPayNat(ts)
  BY <1>3, <1>4, CoinbasePays DEF AllPayNat, coinbase
<1>7. \A us : SoundBlock(b, us)
  BY <1>1, <1>3, <1>5, <1>6, CoinbasePays DEF SoundBlock, areValidBlockTransactions, coinbase
<1> QED BY <1>2, <1>4, <1>7 DEF SoundChain

\* Every chain of the network is sound, every transaction pays.
PayInv ==
  /\ \A c \in sentChains : SoundChain(c)
  /\ \A n \in Nodes :
       mining[n] # None =>
         /\ AllPayNat(mining[n].data)
         /\ mining[n].data[1] = getCoinbaseTransaction(n, mining[n].index)
  /\ \A n \in Nodes : AllPayNat(pool[n])
  /\ \A t \in sentTransactions : PayNat(t)

\* The unspent outputs of a node can be counted.
LEMMA HeldCountable ==
  ASSUME IndInv, PayInv, NEW n \in Nodes
  PROVE  Countable(utxo[n])
<1>1. /\ IsChain(chain[n]) /\ SoundChain(chain[n])
      /\ utxo[n] = UtxoAfter(chain[n])[Len(chain[n])]
  BY DEF IndInv, HeldInv, UtxoReplayed, PayInv
<1>2. Len(chain[n]) \in 0..Len(chain[n])
  BY <1>1, IsSeqShape DEF IsChain
<1>3. \A i \in 1..Len(chain[n]) : AllPayNat(chain[n][i].data)
  BY <1>1 DEF SoundChain, SoundBlock
<1> QED BY <1>1, <1>2, <1>3, AfterCountable

\* The outputs of a payment are worth natural numbers.
LEMMA PaymentPays ==
  ASSUME NEW p \in PoolPayments \cup BlockPayments
  PROVE  \A k \in DOMAIN p.outs : p.outs[k].amount \in Nat
<1> DEFINE O == [address : Nodes, amount : Nat \ {0}]
<1>1. p.outs \in Seq(O)
  BY NodesAssumption
<1>2. \A o \in O : o.amount \in Nat
  OBVIOUS
<1> HIDE DEF O
<1> QED BY <1>1, <1>2

\* What updatePool keeps pays.
LEMMA UpdatePoolPays ==
  ASSUME NEW p, IsSeq(p), AllPayNat(p), NEW u
  PROVE  AllPayNat(updatePool(p, u))
<1> SUFFICES ASSUME NEW q, IsSelection(q, p, Len(p), u) PROVE AllPayNat(q)
  BY UpdatePoolSelects
<1>1. DOMAIN q = 1..Len(q) /\ DOMAIN p = 1..Len(p)
  BY IsSeqShape DEF IsSelection
<1> QED BY <1>1 DEF IsSelection, AllPayNat

\* A transaction that pays may join those that do.
LEMMA AppendPays ==
  ASSUME NEW p, IsSeq(p), AllPayNat(p), NEW t, PayNat(t)
  PROVE  AllPayNat(Append(p, t))
<1> SUFFICES ASSUME NEW q, q = Append(p, t) PROVE AllPayNat(q)
  OBVIOUS
<1>1. /\ Len(p) \in Nat /\ DOMAIN p = 1..Len(p) /\ DOMAIN q = 1..(Len(p) + 1)
      /\ q[Len(p) + 1] = t /\ \A i \in 1..Len(p) : q[i] = p[i]
  BY IsSeqShape, IsSeqAppend
<1>2. \A i \in DOMAIN q : i = Len(p) + 1 \/ i \in DOMAIN p
  BY <1>1
<1> QED BY <1>1, <1>2 DEF AllPayNat

\* The data of a candidate pay, and begin with a coinbase.
LEMMA RawBlockPays ==
  ASSUME NEW n \in Nodes, NEW ts, IsSeq(ts), AllPayNat(ts),
         NEW b, b = createRawNextBlock(n, ts)
  PROVE  AllPayNat(b.data) /\ b.data[1] = getCoinbaseTransaction(n, b.index)
<1> DEFINE coinbase == getCoinbaseTransaction(n, getLatestBlock(chain[n]).index + 1)
<1>1. b.index = getLatestBlock(chain[n]).index + 1 /\ b.data = <<coinbase>> \o ts
  BY DEF createRawNextBlock, Block
<1> SUFFICES ASSUME NEW s, s = <<coinbase>> \o ts PROVE AllPayNat(s) /\ s[1] = coinbase
  BY <1>1
<1>2. PayNat(coinbase)
  BY CoinbasePays
<1> HIDE DEF coinbase
<1>3. /\ IsSeq(s) /\ Len(s) = Len(ts) + 1 /\ s[1] = coinbase
      /\ \A i \in 2..(Len(ts) + 1) : s[i] = ts[i - 1]
  BY IsSeqPrefixed
<1>4. Len(ts) \in Nat /\ DOMAIN ts = 1..Len(ts) /\ DOMAIN s = 1..(Len(ts) + 1)
  BY <1>3, IsSeqShape
<1>5. \A i \in DOMAIN s : i = 1 \/ (i - 1 \in DOMAIN ts /\ s[i] = ts[i - 1])
  BY <1>3, <1>4
<1>6. AllPayNat(s)
  BY <1>2, <1>3, <1>5 DEF AllPayNat
<1> QED BY <1>3, <1>6

\* The genesis blocks pay natural amounts, and nothing else exists at first.
LEMMA PayInit == Init => PayInv
<1>1. AllPayNat(<<>>)
  BY DEF AllPayNat
<1> QED BY <1>1, InitialSound DEF Init, PayInv

\* A node that takes a sound chain keeps all amounts natural.
LEMMA HoldChainPays ==
  ASSUME IndInv, PayInv, NEW n \in Nodes, NEW c, SoundChain(c), NEW u, HoldChain(n, c, u),
         UNCHANGED sentTransactions,
         \A m \in Nodes : mining'[m] = None \/ mining'[m] = mining[m]
  PROVE  PayInv'
<1>1. AllPayNat(updatePool(pool[n], u))
  BY UpdatePoolPays DEF PayInv, IndInv, HeldInv, AreTransactions
<1>2. \A m \in Nodes : pool'[m] = IF m = n THEN updatePool(pool[n], u) ELSE pool[m]
  BY DEF HoldChain, IndInv, HeldInv, IsMap
<1>3. sentChains' = sentChains \cup {c}
  BY DEF HoldChain
<1> QED BY <1>1, <1>2, <1>3 DEF PayInv

\* So does one whose pool takes a transaction,
LEMMA PoolGrowPays ==
  ASSUME IndInv, PayInv, NEW n \in Nodes, NEW t, PayNat(t),
         pool' = [pool EXCEPT ![n] = Append(@, t)],
         sentTransactions' \subseteq sentTransactions \cup {t},
         UNCHANGED <<sentChains, mining>>
  PROVE  PayInv'
<1>1. AllPayNat(Append(pool[n], t))
  BY AppendPays DEF PayInv, IndInv, HeldInv, AreTransactions
<1>2. \A m \in Nodes : pool'[m] = IF m = n THEN Append(pool[n], t) ELSE pool[m]
  BY DEF IndInv, HeldInv, IsMap
<1> QED BY <1>1, <1>2 DEF PayInv

\* and one that starts to mine a block.
LEMMA MiningPays ==
  ASSUME IndInv, PayInv, NEW n \in Nodes, NEW ts, IsSeq(ts), AllPayNat(ts),
         mining' = [mining EXCEPT ![n] = createRawNextBlock(n, ts)],
         UNCHANGED <<sentChains, pool, sentTransactions>>
  PROVE  PayInv'
<1> SUFFICES ASSUME NEW b, b = createRawNextBlock(n, ts) PROVE PayInv'
  OBVIOUS
<1>1. AllPayNat(b.data) /\ b.data[1] = getCoinbaseTransaction(n, b.index)
  BY RawBlockPays
<1>2. \A m \in Nodes : mining'[m] = IF m = n THEN b ELSE mining[m]
  BY DEF IndInv, OtherInv, IsMap
<1> QED BY <1>1, <1>2 DEF PayInv

\* Every step keeps all amounts natural and all chains sound.
LEMMA PayNext == IndInv /\ PayInv /\ [Next]_vars => PayInv'
<1> SUFFICES ASSUME IndInv, PayInv, [Next]_vars PROVE PayInv'
  OBVIOUS
<1>1. ASSUME UNCHANGED <<sentChains, mining, pool, sentTransactions>> PROVE PayInv'
  BY <1>1 DEF PayInv
<1>2. ASSUME NEW n \in Nodes, NEW p \in PoolPayments, SendTransaction(n, p.outs[1]),
             p.sender = n
      PROVE  PayInv'
  <2> DEFINE out == p.outs[1]
  <2>1. PICK t \in createTransaction(out.address, out.amount, n, utxo[n], pool[n]) :
          /\ pool' = [pool EXCEPT ![n] = Append(@, t)]
          /\ sentTransactions' = sentTransactions \cup {t}
    BY <1>2 DEF SendTransaction
  <2>2. out.amount \in Nat
    <3>1. 1 \in DOMAIN p.outs
      BY NodesAssumption, PaymentTyped, IsSeqShape
    <3> QED BY <3>1, PaymentPays
  <2> HIDE DEF out
  <2>3. PayNat(t)
    <3> SUFFICES ASSUME NEW s, s = <<TransOut(out.address, out.amount)>>,
                        t \in createTransactionWithMultipleOutputs(s, n, utxo[n], pool[n])
        PROVE PayNat(t)
      BY DEF createTransaction
    <3>1. IsSeq(s) /\ DOMAIN s = 1..1 /\ s[1] = TransOut(out.address, out.amount)
      BY IsSeqSingleton
    <3>2. \A k \in 1..1 : k = 1
      OBVIOUS
    <3>3. \A k \in DOMAIN s : s[k].amount \in Nat
      BY <2>2, <3>1, <3>2 DEF TransOut
    <3> QED BY <3>1, <3>3, HeldWellMade, HeldCountable, CreatedValid
  <2> QED BY <1>2, <2>1, <2>3, PoolGrowPays DEF SendTransaction
<1>3. ASSUME NEW n \in Nodes, createNextBlock(n) PROVE PayInv'
  <2> DEFINE k == IF Len(pool[n]) < 2 THEN Len(pool[n]) ELSE 2
  <2> SUFFICES ASSUME NEW q, q = pool[n], NEW ts, ts = SubSeq(q, 1, k) PROVE PayInv'
    OBVIOUS
  <2>1. IsSeq(q) /\ AllPayNat(q)
    BY DEF IndInv, HeldInv, AreTransactions, PayInv
  <2>2. Len(q) \in Nat /\ DOMAIN q = 1..Len(q)
    BY <2>1, IsSeqShape
  <2>3. k \in 0..Len(q)
    BY <2>2
  <2>4. mining' = [mining EXCEPT ![n] = createRawNextBlock(n, ts)]
    BY <1>3 DEF createNextBlock
  <2> HIDE DEF k
  <2>5. IsSeq(ts) /\ Len(ts) = k /\ \A i \in 1..k : ts[i] = q[i]
    BY <2>1, <2>3, IsSeqFirst
  <2>6. DOMAIN ts = 1..k /\ \A i \in 1..k : i \in DOMAIN q
    BY <2>2, <2>3, <2>5, IsSeqShape
  <2>7. AllPayNat(ts)
    BY <2>1, <2>5, <2>6 DEF AllPayNat
  <2> QED BY <1>3, <2>4, <2>5, <2>7, MiningPays DEF createNextBlock
<1>4. ASSUME NEW n \in Nodes, NEW p \in BlockPayments, p.sender = n,
             createNextBlockWithTransaction(n, p.outs)
      PROVE  PayInv'
  <2>1. PICK t \in createTransactionWithMultipleOutputs(p.outs, n, utxo[n], pool[n]) :
          mining' = [mining EXCEPT ![n] = createRawNextBlock(n, <<t>>)]
    BY <1>4 DEF createNextBlockWithTransaction
  <2>2. PayNat(t)
    BY PaymentTyped, PaymentPays, HeldWellMade, HeldCountable, CreatedValid
  <2> SUFFICES ASSUME NEW ts, ts = <<t>>,
                      mining' = [mining EXCEPT ![n] = createRawNextBlock(n, ts)]
      PROVE PayInv'
    BY <2>1
  <2>3. IsSeq(ts) /\ DOMAIN ts = 1..1 /\ ts[1] = t
    BY IsSeqSingleton
  <2>4. \A k \in 1..1 : k = 1
    OBVIOUS
  <2>5. AllPayNat(ts)
    BY <2>2, <2>3, <2>4 DEF AllPayNat
  <2> QED BY <1>4, <2>3, <2>5, MiningPays DEF createNextBlockWithTransaction
<1>5. ASSUME NEW n \in Nodes, FinishMining(n) PROVE PayInv'
  <2> DEFINE b == mining[n]
  <2>1. b # None /\ mining' = [mining EXCEPT ![n] = None] /\ UNCHANGED sentTransactions
    BY <1>5 DEF FinishMining
  <2>2. \A m \in Nodes : mining'[m] = IF m = n THEN None ELSE mining[m]
    BY <2>1 DEF IndInv, OtherInv, IsMap
  <2>3. CASE addBlockToBlockchain(n, b)
    <3>1. addBlockToBlockchainAccepts(n, b)
          /\ HoldChain(n, Append(chain[n], b), updateUnspentTransOuts(b.data, utxo[n]))
      BY <2>3 DEF addBlockToBlockchain
    <3>2. /\ IsSeq(chain[n]) /\ SoundChain(chain[n])
          /\ utxo[n] = UtxoAfter(chain[n])[Len(chain[n])]
      BY DEF IndInv, HeldInv, IsChain, UtxoReplayed, PayInv
    <3>3. SoundBlock(b, utxo[n])
      BY <2>1, <3>1 DEF PayInv, SoundBlock, addBlockToBlockchainAccepts
    <3> HIDE DEF b
    <3>4. SoundChain(Append(chain[n], b))
      BY <3>2, <3>3, SoundAppend
    <3> QED BY <2>1, <2>2, <3>1, <3>4, HoldChainPays
  <2>4. CASE UNCHANGED <<chain, utxo, pool, sentChains>>
    <3> HIDE DEF b
    <3> QED BY <2>1, <2>2, <2>4 DEF PayInv
  <2> QED BY <1>5, <2>3, <2>4 DEF FinishMining
<1>6. ASSUME NEW n \in Nodes, NEW c \in sentChains,
             ReceiveLatest(n, c) \/ ReceiveBlockchain(n, c)
      PROVE  PayInv'
  <2>1. TakesUp(n, c)
    BY <1>6, LatestTaken, BlockchainTaken
  <2>2. SoundChain(c)
    BY DEF PayInv
  <2> QED BY <2>1, <2>2, HoldChainPays DEF TakesUp
<1>7. ASSUME NEW n \in Nodes, NEW t \in sentTransactions, ReceivePool(n, t) PROVE PayInv'
  <2>1. PayNat(t)
    BY DEF PayInv
  <2> QED BY <1>7, <2>1, PoolGrowPays DEF ReceivePool
<1>8. ASSUME NEW n \in Nodes, Tick(n) PROVE PayInv'
  BY <1>1, <1>8 DEF Tick
<1>9. ASSUME NEW n \in Nodes, Restart(n) PROVE PayInv'
  <2>1. \A m \in Nodes : /\ pool'[m] = IF m = n THEN <<>> ELSE pool[m]
                         /\ mining'[m] = IF m = n THEN None ELSE mining[m]
    BY <1>9 DEF Restart, IndInv, HeldInv, OtherInv, IsMap
  <2>2. sentChains' = sentChains \cup {InitialChain(n, clock[n])} /\ UNCHANGED sentTransactions
    BY <1>9 DEF Restart
  <2>3. AllPayNat(<<>>)
    BY DEF AllPayNat
  <2> QED BY <2>1, <2>2, <2>3, InitialSound DEF PayInv
<1>10. CASE UNCHANGED vars
  BY <1>1, <1>10 DEF vars
<1> QED
  BY <1>2, <1>3, <1>4, <1>5, <1>6, <1>7, <1>8, <1>9, <1>10 DEF Next, UserStep

\* What the theorems on the pool and on the amounts rest on.
LEMMA LedgerInvariance == Spec => [](IndInv /\ PoolInv /\ PayInv)
  BY InitInd, NextInd, PoolInit, PoolNext, PayInit, PayNext, PTL DEF Spec

\* A handler that is one step does not reach the second exception of
\* sendTransaction: whatever the coin selection returns, the transaction made of it balances, is signed by the
\* owner of its inputs, and conflicts with nothing in the pool.
THEOREM AlwaysCreatedTransactionAccepted == Spec => []CreatedTransactionAccepted
<1>1. IndInv /\ PayInv => CreatedTransactionAccepted
  BY PaymentTyped, PaymentPays, HeldWellMade, HeldCountable, CreatedValid
     DEF CreatedTransactionAccepted, addToPoolAccepts
<1> QED BY <1>1, LedgerInvariance, PTL

-----------------------------------------------------------------------------
(* Unspent means created and not consumed *)

\* The blocks 0 to height - 1 have created the outputs in C and consumed the
\* references in K.
History(C, K, height) ==
  /\ WellMade(C)
  /\ \A u \in C : u.transOutId.transIns # {} /\ u.transOutId.transIns \subseteq K
  /\ \A in \in K : \/ \E j \in 0..(height - 1) : in = OutPoint(None, j)
                   \/ \E u \in C : in = getInputFromUnspentTransOut(u)

Unspent(C, K) == {u \in C : getInputFromUnspentTransOut(u) \notin K}

\* An output created by ts names a transaction of ts.
LEMMA CreatedFrom ==
  ASSUME NEW ts, NEW u \in CreatedBy(ts)
  PROVE  \E i \in DOMAIN ts : u.transOutId = getTransactionId(ts[i])
                             /\ u.transOutId.transIns = ts[i].transIns
  BY DEF CreatedBy, UnspentTransOut, getTransactionId

\* To the history C, K of height blocks, which leave us unspent, one more valid
\* block with the transactions ts is added.
HistoryGrows(C, K, height, ts, us, C2, K2) ==
  /\ height \in Nat /\ History(C, K, height) /\ us = Unspent(C, K)
  /\ AreTransactions(ts) /\ ts # <<>>
  /\ areValidBlockTransactions(ts, us, height)
  /\ \E n \in Nodes : ts[1] = getCoinbaseTransaction(n, height)
  /\ C2 = C \cup CreatedBy(ts) /\ K2 = K \cup ConsumedBy(ts)

\* The next block adds to the history; the outputs it creates are new, and
\* what it leaves is what is unspent.
LEMMA HistoryStep ==
  ASSUME NoneIsNoId, NEW C, NEW K, NEW height, NEW ts, NEW us, NEW C2, NEW K2,
         HistoryGrows(C, K, height, ts, us, C2, K2)
  PROVE  /\ History(C2, K2, height + 1)
         /\ updateUnspentTransOuts(ts, us) = Unspent(C2, K2)
         /\ \A u \in CreatedBy(ts), v \in C :
              getInputFromUnspentTransOut(u) # getInputFromUnspentTransOut(v)
<1>0. /\ height \in Nat /\ History(C, K, height) /\ us = Unspent(C, K)
      /\ AreTransactions(ts) /\ ts # <<>>
      /\ areValidBlockTransactions(ts, us, height)
      /\ \E n \in Nodes : ts[1] = getCoinbaseTransaction(n, height)
      /\ C2 = C \cup CreatedBy(ts) /\ K2 = K \cup ConsumedBy(ts)
  BY DEF HistoryGrows
<1>1. /\ Len(ts) \in Nat /\ DOMAIN ts = 1..Len(ts) /\ 1 \in DOMAIN ts
      /\ \A i \in DOMAIN ts : i = 1 \/ i \in 2..Len(ts)
  BY <1>0, IsSeqShape DEF AreTransactions
<1>2. ts[1].transIns = {OutPoint(None, height)}
  BY <1>0 DEF getCoinbaseTransaction
<1>3. \A i \in 2..Len(ts) : \A in \in ts[i].transIns :
        \E v \in C : in = getInputFromUnspentTransOut(v) /\ in \notin K
  BY <1>0 DEF areValidBlockTransactions, isValidTransaction, isValidTransIn, Unspent
<1>4. \A in \in ConsumedBy(ts) : \/ in = OutPoint(None, height)
                                 \/ \E v \in C : in = getInputFromUnspentTransOut(v)
  BY <1>0, <1>1, <1>2, <1>3 DEF ConsumedBy
<1>5. \A i \in DOMAIN ts : ts[i].transIns # {} /\ ts[i].transIns \subseteq ConsumedBy(ts)
  BY <1>0 DEF AreTransactions, IsTransaction, ConsumedBy
<1>6. WellMade(CreatedBy(ts)) /\ WellMade(C)
  BY <1>0, CreatedWellMade DEF History
<1>7. \A u \in C \cup CreatedBy(ts) : u.transOutId # None
  BY <1>0, <1>6 DEF WellMade, NoneIsNoId
<1>8. \A u \in C \cup CreatedBy(ts), j \in Int :
        getInputFromUnspentTransOut(u) # OutPoint(None, j)
  BY <1>0, <1>7 DEF getInputFromUnspentTransOut, OutPoint
<1>9. OutPoint(None, height) \notin K
  <2> SUFFICES ASSUME OutPoint(None, height) \in K PROVE FALSE
    OBVIOUS
  <2>1. CASE \E j \in 0..(height - 1) : OutPoint(None, height) = OutPoint(None, j)
    <3>1. PICK j \in 0..(height - 1) : height = j
      BY <1>0, <2>1 DEF OutPoint
    <3> QED BY <1>0, <3>1
  <2>2. CASE \E u \in C : OutPoint(None, height) = getInputFromUnspentTransOut(u)
    BY <1>0, <1>8, <2>2
  <2> QED BY <1>0, <2>1, <2>2 DEF History
<1>10. ASSUME NEW u \in CreatedBy(ts), NEW v \in C,
              getInputFromUnspentTransOut(u) = getInputFromUnspentTransOut(v)
       PROVE  FALSE
  <2>1. u.transOutId = v.transOutId
    BY <1>0, <1>10 DEF getInputFromUnspentTransOut, OutPoint
  <2>2. PICK i \in DOMAIN ts : u.transOutId.transIns = ts[i].transIns
    BY <1>0, CreatedFrom
  <2>3. ts[i].transIns \subseteq K /\ ts[i].transIns # {}
    BY <1>0, <2>1, <2>2 DEF History
  <2>4. CASE i = 1
    BY <1>0, <1>2, <1>9, <2>3, <2>4
  <2>5. CASE i \in 2..Len(ts)
    BY <1>0, <1>3, <2>3, <2>5
  <2> QED BY <1>0, <1>1, <2>4, <2>5
<1>11. \A u \in CreatedBy(ts) : getInputFromUnspentTransOut(u) \notin K2
  <2> SUFFICES ASSUME NEW u \in CreatedBy(ts), getInputFromUnspentTransOut(u) \in K2
      PROVE FALSE
    BY <1>0
  <2>1. \A v \in C : getInputFromUnspentTransOut(u) # getInputFromUnspentTransOut(v)
    BY <1>0, <1>10
  <2>2. \A j \in Int : getInputFromUnspentTransOut(u) # OutPoint(None, j)
    BY <1>0, <1>8
  <2>3. CASE getInputFromUnspentTransOut(u) \in K
    <3>1. \A j \in 0..(height - 1) : j \in Int
      BY <1>0
    <3> QED BY <1>0, <2>1, <2>2, <2>3, <3>1 DEF History
  <2>4. CASE getInputFromUnspentTransOut(u) \in ConsumedBy(ts)
    BY <1>0, <1>4, <2>1, <2>2, <2>4
  <2> QED BY <1>0, <2>3, <2>4
<1>12. updateUnspentTransOuts(ts, us) = Unspent(C2, K2)
  BY <1>0, <1>11 DEF updateUnspentTransOuts, Unspent
<1>13. History(C2, K2, height + 1)
  <2>1. WellMade(C2)
    BY <1>0, <1>6 DEF WellMade
  <2>2. \A u \in C2 : u.transOutId.transIns # {} /\ u.transOutId.transIns \subseteq K2
    <3>1. \A u \in CreatedBy(ts) : u.transOutId.transIns # {}
                                  /\ u.transOutId.transIns \subseteq ConsumedBy(ts)
      BY <1>0, <1>5, CreatedFrom
    <3> QED BY <1>0, <3>1 DEF History
  <2>3. ASSUME NEW in \in K2
        PROVE  \/ \E j \in 0..height : in = OutPoint(None, j)
               \/ \E u \in C2 : in = getInputFromUnspentTransOut(u)
    <3>1. height \in 0..height /\ \A j \in 0..(height - 1) : j \in 0..height
      BY <1>0
    <3>2. CASE in \in K
      BY <1>0, <3>1, <3>2 DEF History
    <3>3. CASE in \in ConsumedBy(ts)
      BY <1>0, <1>4, <3>1, <3>3
    <3> QED BY <1>0, <3>2, <3>3
  <2>4. height + 1 - 1 = height
    BY <1>0
  <2> QED BY <1>0, <2>1, <2>2, <2>3, <2>4 DEF History
<1> QED BY <1>0, <1>10, <1>12, <1>13

\* What the first i blocks of c create.
CreatedUpTo(c, i) == UNION {CreatedBy(c[j].data) : j \in 1..i}

\* The references of all inputs of the first i blocks.
ConsumedUpTo(c, i) == UNION {ConsumedBy(c[j].data) : j \in 1..i}

\* After i blocks of c the account is in order.
InOrder(c, i) ==
  /\ History(CreatedUpTo(c, i), ConsumedUpTo(c, i), i)
  /\ UtxoAfter(c)[i] = Unspent(CreatedUpTo(c, i), ConsumedUpTo(c, i))

\* One more block: its outputs are new, and are consumed only later.
LEMMA InOrderStep ==
  ASSUME NoneIsNoId, NEW c, IsChain(c), Linked(c), SoundChain(c),
         NEW i \in 1..Len(c), InOrder(c, i - 1)
  PROVE  /\ InOrder(c, i)
         /\ \A u \in CreatedBy(c[i].data), v \in UtxoAfter(c)[i - 1] :
              getInputFromUnspentTransOut(u) # getInputFromUnspentTransOut(v)
<1> DEFINE C == CreatedUpTo(c, i - 1)
           K == ConsumedUpTo(c, i - 1)
           ts == c[i].data
           us == UtxoAfter(c)[i - 1]
<1>1. /\ IsSeq(c) /\ Len(c) \in Nat /\ DOMAIN c = 1..Len(c)
      /\ i \in Nat /\ i - 1 \in Nat /\ i - 1 + 1 = i
  BY IsSeqShape DEF IsChain
<1>2. AreTransactions(ts) /\ ts # <<>>
  BY <1>1 DEF IsChain, IsBlock
<1>3. c[i].index = i - 1
  BY LinkedIndex DEF IsChain
<1>4. SoundBlock(c[i], us)
  BY DEF SoundChain
<1>5. PICK n \in Nodes : ts[1] = getCoinbaseTransaction(n, i - 1)
  BY <1>3, <1>4 DEF SoundBlock
<1>6. areValidBlockTransactions(ts, us, i - 1)
  BY <1>3, <1>4 DEF SoundBlock
<1>7. History(C, K, i - 1) /\ us = Unspent(C, K)
  BY DEF InOrder
<1>8. /\ CreatedUpTo(c, i) = C \cup CreatedBy(ts)
      /\ ConsumedUpTo(c, i) = K \cup ConsumedBy(ts)
  <2>1. \A j : j \in 1..i <=> j = i \/ j \in 1..(i - 1)
    BY <1>1
  <2> QED BY <2>1 DEF CreatedUpTo, ConsumedUpTo
<1>9. UtxoAfter(c)[i] = updateUnspentTransOuts(ts, us)
  BY <1>1, UtxoAfterDef
<1> HIDE DEF C, K, ts, us
<1>10. /\ History(CreatedUpTo(c, i), ConsumedUpTo(c, i), i - 1 + 1)
       /\ updateUnspentTransOuts(ts, us) = Unspent(CreatedUpTo(c, i), ConsumedUpTo(c, i))
       /\ \A u \in CreatedBy(ts), v \in C :
            getInputFromUnspentTransOut(u) # getInputFromUnspentTransOut(v)
  <2> DEFINE C2 == CreatedUpTo(c, i)
             K2 == ConsumedUpTo(c, i)
  <2>1. HistoryGrows(C, K, i - 1, ts, us, C2, K2)
    BY <1>1, <1>2, <1>5, <1>6, <1>7, <1>8 DEF HistoryGrows
  <2> HIDE DEF C2, K2
  <2>2. /\ History(C2, K2, i - 1 + 1)
        /\ updateUnspentTransOuts(ts, us) = Unspent(C2, K2)
        /\ \A u \in CreatedBy(ts), v \in C :
             getInputFromUnspentTransOut(u) # getInputFromUnspentTransOut(v)
    BY <2>1, HistoryStep
  <2> QED BY <2>2 DEF C2, K2
<1>11. us \subseteq C
  BY <1>7 DEF Unspent
<1> QED BY <1>1, <1>9, <1>10, <1>11 DEF InOrder, ts, us

\* In a sound chain it is in order after every block.
LEMMA SoundInOrder ==
  ASSUME NoneIsNoId, NEW c, IsChain(c), Linked(c), SoundChain(c)
  PROVE  \A i \in 0..Len(c) : InOrder(c, i)
<1> DEFINE Bad == {j \in 0..Len(c) : ~InOrder(c, j)}
<1>0. IsSeq(c) /\ Len(c) \in Nat
  BY IsSeqShape DEF IsChain
<1>1. Bad = {}
  <2> SUFFICES ASSUME Bad # {} PROVE FALSE
    OBVIOUS
  <2>1. PICK m \in Bad : \A j \in Bad : m <= j
    <3>1. Bad \in SUBSET Nat
      BY <1>0
    <3> HIDE DEF Bad
    <3> QED BY <3>1, NatMinimum
  <2>2. m # 0
    <3>1. CreatedUpTo(c, 0) = {} /\ ConsumedUpTo(c, 0) = {}
      BY DEF CreatedUpTo, ConsumedUpTo
    <3>2. InOrder(c, 0)
      BY <1>0, <3>1, UtxoAfterDef DEF InOrder, History, Unspent, WellMade
    <3> QED BY <3>2
  <2>3. m \in 1..Len(c) /\ m - 1 \in 0..Len(c) /\ ~(m <= m - 1)
    BY <1>0, <2>2
  <2>4. InOrder(c, m - 1)
    BY <2>1, <2>3
  <2> QED BY <2>3, <2>4, InOrderStep
<1> QED BY <1>1

\* The list of unspent outputs that each node keeps, block by block, is what its
\* chain has created and not consumed: an output is never created twice, nor
\* again after it was spent, because the id of a transaction covers its inputs.
THEOREM AlwaysUtxoIsUnspent == ASSUME NoneIsNoId PROVE Spec => []UtxoIsUnspent
<1>1. IndInv /\ PayInv => UtxoIsUnspent
  <2> SUFFICES ASSUME IndInv, PayInv, NEW n \in Nodes, NEW c, c = chain[n]
      PROVE utxo[n] = {u \in UNION {CreatedBy(c[i].data) : i \in DOMAIN c} :
              getInputFromUnspentTransOut(u) \notin
                UNION {ConsumedBy(c[i].data) : i \in DOMAIN c}}
    BY DEF UtxoIsUnspent
  <2>1. IsChain(c) /\ Linked(c) /\ SoundChain(c) /\ utxo[n] = UtxoAfter(c)[Len(c)]
    BY DEF IndInv, HeldInv, ChainLinked, UtxoReplayed, PayInv
  <2>2. DOMAIN c = 1..Len(c) /\ Len(c) \in 0..Len(c)
    BY <2>1, IsSeqShape DEF IsChain
  <2>3. InOrder(c, Len(c))
    BY <2>1, <2>2, SoundInOrder
  <2> QED BY <2>1, <2>2, <2>3 DEF InOrder, Unspent, CreatedUpTo, ConsumedUpTo
<1> QED BY <1>1, LedgerInvariance, PTL

-----------------------------------------------------------------------------
(* The supply of coins *)

\* What the first x transactions of ts create.
MadeBy(ts, x) == UNION {CreatedByOne(ts[y]) : y \in 1..x}

\* The outputs that the inputs of the first x transactions refer to.
SpentBy(ts, us, x) == UNION {ReferencedBy(ts[y], us) : y \in 1..x}

\* The first x transactions of ts have created what they consumed and a coinbase.
Balanced(ts, us, x) ==
  /\ Countable(MadeBy(ts, x)) /\ Countable(SpentBy(ts, us, x))
  /\ getTotalFromOutputVector(MadeBy(ts, x))
       = getTotalFromOutputVector(SpentBy(ts, us, x)) + COINBASE_AMOUNT

\* What one transaction creates is worth the total of its outputs.
LEMMA MadeByOne ==
  ASSUME NEW t, IsTransaction(t), PayNat(t)
  PROVE  /\ Countable(CreatedByOne(t))
         /\ getTotalFromOutputVector(CreatedByOne(t)) = TotalOfTransOuts(t.transOuts)
<1>1. IsSeq(t.transOuts) /\ \A k \in DOMAIN t.transOuts : t.transOuts[k].amount \in Nat
  BY DEF IsTransaction, PayNat
<1> DEFINE S == CreatedByOne(t)
<1>2. S = {UnspentTransOut(getTransactionId(t), k - 1, t.transOuts[k]) : k \in DOMAIN t.transOuts}
  BY DEF CreatedByOne
<1> HIDE DEF S
<1>3. IsFiniteSet(S) /\ HaveAmounts(S) /\ getTotalFromOutputVector(S) = TotalOfTransOuts(t.transOuts)
  BY ONLY <1>1, <1>2, TotalCreated
<1> QED BY <1>3 DEF Countable, S

\* Two transactions that consume something, but nothing in common, create
\* different outputs.
LEMMA MadeApart ==
  ASSUME NEW t, t.transIns # {}, NEW s, t.transIns \cap s.transIns = {}
  PROVE  CreatedByOne(t) \cap CreatedByOne(s) = {}
<1> SUFFICES ASSUME NEW u \in CreatedByOne(t), u \in CreatedByOne(s) PROVE FALSE
  OBVIOUS
<1>1. u.transOutId = getTransactionId(t) /\ u.transOutId = getTransactionId(s)
  BY DEF CreatedByOne, UnspentTransOut
<1>2. t.transIns = s.transIns
  BY <1>1 DEF getTransactionId
<1> QED BY <1>2

\* One more valid transaction keeps the balance.
LEMMA BalanceStep ==
  ASSUME NEW ts, AreTransactions(ts), AllPayNat(ts), NEW us, Countable(us),
         ~hasDuplicates(ts), NEW x \in Nat \ {0}, x + 1 \in DOMAIN ts,
         isValidTransaction(ts[x + 1], us), Balanced(ts, us, x)
  PROVE  Balanced(ts, us, x + 1)
<1> DEFINE M == MadeBy(ts, x)
           S == SpentBy(ts, us, x)
           t == ts[x + 1]
           m == CreatedByOne(t)
           r == ReferencedBy(t, us)
<1>1. DOMAIN ts = 1..Len(ts) /\ Len(ts) \in Nat
  BY IsSeqShape DEF AreTransactions
<1>2. /\ \A y \in 1..x : y \in DOMAIN ts /\ y # x + 1
      /\ \A y : y \in 1..(x + 1) <=> y \in 1..x \/ y = x + 1
  BY <1>1
<1>3. MadeBy(ts, x + 1) = M \cup m /\ SpentBy(ts, us, x + 1) = S \cup r
  BY <1>2 DEF MadeBy, SpentBy
<1>4. IsTransaction(t) /\ PayNat(t)
  BY DEF AreTransactions, AllPayNat
<1>5. \A y \in 1..x : ts[y].transIns \cap t.transIns = {} /\ ts[y].transIns # {}
  BY <1>2 DEF hasDuplicates, AreTransactions, IsTransaction
<1>6. M \cap m = {}
  <2>1. \A y \in 1..x : CreatedByOne(ts[y]) \cap CreatedByOne(t) = {}
    BY <1>5, MadeApart
  <2> QED BY <2>1 DEF MadeBy
<1>7. S \cap r = {}
  BY <1>5 DEF SpentBy, ReferencedBy
<1>8. r \subseteq us
  BY DEF ReferencedBy
<1>9. Countable(m) /\ getTotalFromOutputVector(m) = TotalOfTransOuts(t.transOuts)
  BY <1>4, MadeByOne
<1>10. getTotalFromOutputVector(m) = getTotalFromOutputVector(r)
  BY <1>9 DEF isValidTransaction
<1>11. Countable(M) /\ Countable(S)
       /\ getTotalFromOutputVector(M) = getTotalFromOutputVector(S) + COINBASE_AMOUNT
  BY DEF Balanced
<1> HIDE DEF M, S, m, r, t
<1>12. Countable(r)
  BY <1>8, FS_Subset DEF Countable, HaveAmounts
<1>13. Countable(M \cup m) /\ Countable(S \cup r)
  BY <1>9, <1>11, <1>12, FS_Union DEF Countable, HaveAmounts
<1>14. /\ getTotalFromOutputVector(M \cup m)
            = getTotalFromOutputVector(M) + getTotalFromOutputVector(m)
       /\ getTotalFromOutputVector(S \cup r)
            = getTotalFromOutputVector(S) + getTotalFromOutputVector(r)
       /\ getTotalFromOutputVector(S) \in Nat /\ getTotalFromOutputVector(r) \in Nat
  BY <1>6, <1>7, <1>9, <1>11, <1>12, TotalUnion, TotalNat DEF Countable
<1>15. getTotalFromOutputVector(M \cup m) = getTotalFromOutputVector(S \cup r) + COINBASE_AMOUNT
  BY <1>10, <1>11, <1>14, CoinbaseAssumption
<1> QED BY <1>3, <1>13, <1>15 DEF Balanced

\* A valid block adds the worth of a coinbase to the outputs, if its coinbase
\* refers to none of them and what it creates is not there yet.
LEMMA BlockAddsCoinbase ==
  ASSUME NEW ts, AreTransactions(ts), ts # <<>>, AllPayNat(ts), NEW us, Countable(us),
         NEW index, areValidBlockTransactions(ts, us, index),
         TotalOfTransOuts(ts[1].transOuts) = COINBASE_AMOUNT,
         ReferencedBy(ts[1], us) = {}, us \cap CreatedBy(ts) = {}
  PROVE  getTotalFromOutputVector(updateUnspentTransOuts(ts, us))
           = getTotalFromOutputVector(us) + COINBASE_AMOUNT
<1>1. DOMAIN ts = 1..Len(ts) /\ Len(ts) \in Nat \ {0} /\ 1 \in DOMAIN ts
  BY IsSeqShape DEF AreTransactions
<1>2. ~hasDuplicates(ts) /\ \A i \in 2..Len(ts) : isValidTransaction(ts[i], us)
  BY DEF areValidBlockTransactions
<1>3. Balanced(ts, us, 1)
  <2>1. \A y : y \in 1..1 <=> y = 1
    OBVIOUS
  <2>2. MadeBy(ts, 1) = CreatedByOne(ts[1]) /\ SpentBy(ts, us, 1) = {}
    BY <2>1 DEF MadeBy, SpentBy
  <2>3. IsTransaction(ts[1]) /\ PayNat(ts[1])
    BY <1>1 DEF AreTransactions, AllPayNat
  <2>4. Countable(CreatedByOne(ts[1]))
        /\ getTotalFromOutputVector(CreatedByOne(ts[1])) = COINBASE_AMOUNT
    BY <2>3, MadeByOne
  <2>5. COINBASE_AMOUNT = 0 + COINBASE_AMOUNT
    BY CoinbaseAssumption
  <2> QED BY <2>2, <2>4, <2>5, EmptyCountable, TotalEmpty DEF Balanced
<1>4. Balanced(ts, us, Len(ts))
  <2> DEFINE Bad == {x \in 1..Len(ts) : ~Balanced(ts, us, x)}
  <2>1. Bad = {}
    <3> SUFFICES ASSUME Bad # {} PROVE FALSE
      OBVIOUS
    <3>1. PICK m \in Bad : \A x \in Bad : m <= x
      <4>1. Bad \in SUBSET Nat
        BY <1>1
      <4> HIDE DEF Bad
      <4> QED BY <4>1, NatMinimum
    <3>2. m \in 1..Len(ts) /\ m # 1
      BY <1>3
    <3> DEFINE x == m - 1
    <3>3. /\ x \in Nat \ {0} /\ x + 1 = m /\ x + 1 \in DOMAIN ts /\ x + 1 \in 2..Len(ts)
          /\ x \in 1..Len(ts) /\ ~(m <= x)
      BY <1>1, <3>2
    <3>4. Balanced(ts, us, x)
      BY <3>1, <3>3
    <3> HIDE DEF x
    <3>5. Balanced(ts, us, x + 1)
      BY <1>2, <3>3, <3>4, BalanceStep
    <3> QED BY <3>3, <3>5
  <2> QED BY <1>1, <2>1
<1> DEFINE M == MadeBy(ts, Len(ts))
           S == SpentBy(ts, us, Len(ts))
           kept == {u \in us : getInputFromUnspentTransOut(u) \notin ConsumedBy(ts)}
<1>5. M = CreatedBy(ts)
  BY <1>1 DEF MadeBy, CreatedBy, CreatedByOne
<1>6. us = kept \cup S /\ kept \cap S = {}
  BY <1>1 DEF SpentBy, ReferencedBy, ConsumedBy
<1>7. updateUnspentTransOuts(ts, us) = kept \cup M /\ kept \cap M = {}
  BY <1>5 DEF updateUnspentTransOuts
<1>8. /\ Countable(M) /\ Countable(S)
      /\ getTotalFromOutputVector(M) = getTotalFromOutputVector(S) + COINBASE_AMOUNT
  BY <1>4 DEF Balanced
<1>9. kept \subseteq us
  OBVIOUS
<1> HIDE DEF M, S, kept
<1>10. Countable(kept)
  BY <1>9, FS_Subset DEF Countable, HaveAmounts
<1>11. /\ getTotalFromOutputVector(kept \cup S)
            = getTotalFromOutputVector(kept) + getTotalFromOutputVector(S)
       /\ getTotalFromOutputVector(kept \cup M)
            = getTotalFromOutputVector(kept) + getTotalFromOutputVector(M)
       /\ getTotalFromOutputVector(kept) \in Nat /\ getTotalFromOutputVector(S) \in Nat
  BY <1>6, <1>7, <1>8, <1>10, TotalUnion, TotalNat DEF Countable
<1>12. getTotalFromOutputVector(kept \cup M)
         = getTotalFromOutputVector(kept \cup S) + COINBASE_AMOUNT
  BY <1>8, <1>11, CoinbaseAssumption
<1> QED BY <1>6, <1>7, <1>12

\* In a sound chain every block adds the worth of a coinbase.
LEMMA SoundSupply ==
  ASSUME NoneIsNoId, NEW c, IsChain(c), Linked(c), SoundChain(c)
  PROVE  \A i \in 0..Len(c) :
           getTotalFromOutputVector(UtxoAfter(c)[i]) = COINBASE_AMOUNT * i
<1> DEFINE Wrong(i) == getTotalFromOutputVector(UtxoAfter(c)[i]) # COINBASE_AMOUNT * i
           Bad == {i \in 0..Len(c) : Wrong(i)}
<1>0. IsSeq(c) /\ Len(c) \in Nat /\ DOMAIN c = 1..Len(c)
  BY IsSeqShape DEF IsChain
<1>1. Bad = {}
  <2> SUFFICES ASSUME Bad # {} PROVE FALSE
    OBVIOUS
  <2>1. PICK m \in Bad : \A i \in Bad : m <= i
    <3>1. Bad \in SUBSET Nat
      BY <1>0
    <3> HIDE DEF Bad
    <3> QED BY <3>1, NatMinimum
  <2>2. m # 0
    <3>1. UtxoAfter(c)[0] = {}
      BY <1>0, UtxoAfterDef
    <3>2. COINBASE_AMOUNT * 0 = 0
      BY CoinbaseAssumption
    <3> QED BY <3>1, <3>2, TotalEmpty
  <2>3. m \in 1..Len(c) /\ m - 1 \in 0..Len(c) /\ ~(m <= m - 1) /\ m \in Nat
    BY <1>0, <2>2
  <2> DEFINE us == UtxoAfter(c)[m - 1]
             ts == c[m].data
  <2>4. getTotalFromOutputVector(us) = COINBASE_AMOUNT * (m - 1)
    BY <2>1, <2>3
  <2>5. SoundBlock(c[m], us) /\ AreTransactions(ts) /\ ts # <<>>
    BY <1>0, <2>3 DEF SoundChain, IsChain, IsBlock
  <2>6. Countable(us) /\ WellMade(us)
    <3>1. \A i \in 1..Len(c) : AllPayNat(c[i].data)
      BY DEF SoundChain, SoundBlock
    <3> QED BY <2>3, <3>1, AfterCountable, AfterWellMade
  <2>7. us \cap CreatedBy(ts) = {}
    <3>1. m - 1 \in 0..Len(c)
      BY <2>3
    <3>2. \A u \in CreatedBy(ts), v \in us :
            getInputFromUnspentTransOut(u) # getInputFromUnspentTransOut(v)
      BY <2>3, <3>1, SoundInOrder, InOrderStep
    <3> QED BY <3>2
  <2>8. UtxoAfter(c)[m] = updateUnspentTransOuts(ts, us)
    BY <1>0, <2>3, UtxoAfterDef
  <2>9. PICK n \in Nodes : ts[1] = getCoinbaseTransaction(n, c[m].index)
    BY <2>5 DEF SoundBlock
  <2>10. TotalOfTransOuts(ts[1].transOuts) = COINBASE_AMOUNT
    BY <2>9, CoinbasePays
  <2>11. ReferencedBy(ts[1], us) = {}
    <3>1. ts[1].transIns = {OutPoint(None, c[m].index)}
      BY <2>9 DEF getCoinbaseTransaction
    <3>2. \A u \in us : getInputFromUnspentTransOut(u) # OutPoint(None, c[m].index)
      BY <2>6 DEF WellMade, NoneIsNoId, getInputFromUnspentTransOut, OutPoint
    <3> QED BY <3>1, <3>2 DEF ReferencedBy
  <2>12. AllPayNat(ts) /\ areValidBlockTransactions(ts, us, c[m].index)
    BY <2>5 DEF SoundBlock
  <2> HIDE DEF us, ts
  <2>13. getTotalFromOutputVector(updateUnspentTransOuts(ts, us))
           = getTotalFromOutputVector(us) + COINBASE_AMOUNT
    BY <2>5, <2>6, <2>7, <2>10, <2>11, <2>12, BlockAddsCoinbase
  <2>14. COINBASE_AMOUNT * (m - 1) + COINBASE_AMOUNT = COINBASE_AMOUNT * m
    BY <2>3, CoinbaseAssumption
  <2> QED BY <2>1, <2>4, <2>8, <2>13, <2>14
<1> QED BY <1>1

\* Payments neither create nor destroy coins: at every node, after any appends,
\* replacements and restarts, the unspent outputs are worth one coinbase for
\* each block of the chain.
THEOREM AlwaysSupplyConserved == ASSUME NoneIsNoId PROVE Spec => []SupplyConserved
<1>1. IndInv /\ PayInv => SupplyConserved
  <2> SUFFICES ASSUME IndInv, PayInv, NEW n \in Nodes, NEW c, c = chain[n]
      PROVE getTotalFromOutputVector(utxo[n]) = COINBASE_AMOUNT * Len(c)
    BY DEF SupplyConserved
  <2>1. IsChain(c) /\ Linked(c) /\ SoundChain(c) /\ utxo[n] = UtxoAfter(c)[Len(c)]
    BY DEF IndInv, HeldInv, ChainLinked, UtxoReplayed, PayInv
  <2>2. Len(c) \in 0..Len(c)
    BY <2>1, IsSeqShape DEF IsChain
  <2> QED BY <2>1, <2>2, SoundSupply
<1> QED BY <1>1, LedgerInvariance, PTL

-----------------------------------------------------------------------------
(* Chains only improve *)

\* The mining loop ends only with a digest, so no candidate of a negative
\* difficulty gets into a chain.
DifficultyInv == \A c \in sentChains : FairDifficulties(c)

\* A new chain has a block of no difficulty.
LEMMA InitialFair ==
  ASSUME NEW n, NEW time
  PROVE  FairDifficulties(InitialChain(n, time))
<1> SUFFICES ASSUME NEW s, s = <<getGenesisBlock(n, time)>> PROVE FairDifficulties(s)
  BY DEF InitialChain
<1>1. DOMAIN s = 1..1 /\ s[1] = getGenesisBlock(n, time)
  BY IsSeqSingleton
<1>2. getGenesisBlock(n, time).difficulty = 0
  BY DEF getGenesisBlock, Block
<1>3. \A i \in 1..1 : i = 1
  OBVIOUS
<1> QED BY <1>1, <1>2, <1>3 DEF FairDifficulties

\* What FinishMining may add has a digest.
LEMMA MinedHasDigest ==
  ASSUME IndInv, NEW n \in Nodes, FinishMining(n)
  PROVE  mining[n].difficulty \in Nat
<1>1. mining[n].difficulty \in Int
  BY DEF IndInv, OtherInv, IsBlock, FinishMining
<1>2. mining[n].difficulty >= 0
  BY DEF FinishMining, FittingDigests, hashDifficultyCheck
<1> QED BY <1>1, <1>2

\* It holds at the start.
LEMMA DifficultyInit == Init => DifficultyInv
  BY InitialFair DEF Init, DifficultyInv

\* Every step keeps it.
LEMMA DifficultyNext == IndInv /\ DifficultyInv /\ [Next]_vars => DifficultyInv'
<1> SUFFICES ASSUME IndInv, DifficultyInv, [Next]_vars PROVE DifficultyInv'
  OBVIOUS
<1>1. ASSUME UNCHANGED sentChains PROVE DifficultyInv'
  BY <1>1 DEF DifficultyInv
<1>2. ASSUME NEW n \in Nodes, FinishMining(n) PROVE DifficultyInv'
  <2> DEFINE b == mining[n]
             c == chain[n]
  <2>1. CASE addBlockToBlockchain(n, b)
    <3>1. sentChains' = sentChains \cup {Append(c, b)}
      BY <2>1 DEF addBlockToBlockchain, HoldChain
    <3>2. c \in sentChains /\ IsSeq(c) /\ c # <<>> /\ FairDifficulties(c)
      BY DEF IndInv, HeldInv, IsChain, DifficultyInv
    <3>3. b.difficulty \in Nat
      BY <1>2, MinedHasDigest
    <3> HIDE DEF b, c
    <3>4. FairDifficulties(Append(c, b))
      BY <3>2, <3>3, FairAppend
    <3> QED BY <3>1, <3>4 DEF DifficultyInv
  <2>2. CASE UNCHANGED sentChains
    BY <1>1, <2>2
  <2> QED BY <1>2, <2>1, <2>2 DEF FinishMining
<1>3. ASSUME NEW n \in Nodes, NEW c \in sentChains,
             ReceiveLatest(n, c) \/ ReceiveBlockchain(n, c)
      PROVE  DifficultyInv'
  BY <1>1, <1>3, LatestTaken, BlockchainTaken, TakenKnown
<1>4. ASSUME NEW n \in Nodes, Restart(n) PROVE DifficultyInv'
  <2>1. sentChains' = sentChains \cup {InitialChain(n, clock[n])}
    BY <1>4 DEF Restart
  <2> QED BY <2>1, InitialFair DEF DifficultyInv
<1>5. ASSUME NEW n \in Nodes, NEW x,
             \/ SendTransaction(n, x) \/ createNextBlock(n)
             \/ createNextBlockWithTransaction(n, x) \/ ReceivePool(n, x) \/ Tick(n)
      PROVE  DifficultyInv'
  BY <1>1, <1>5 DEF SendTransaction, createNextBlock, createNextBlockWithTransaction,
                    ReceivePool, Tick
<1>6. CASE UNCHANGED vars
  BY <1>1, <1>6 DEF vars
<1> QED BY <1>2, <1>3, <1>4, <1>5, <1>6 DEF Next, UserStep

\* A node that runs moves to the chain new only if it is worth more than old,
\* or one of them costs more than an int can tell.
BetterThan(new, old) ==
  \/ Work(new) > Work(old)
  \/ Work(new) = Work(old) /\ getLatestBlock(new).timestamp < getLatestBlock(old).timestamp
  \/ Work(new) > MAX_INT \/ Work(old) > MAX_INT

\* One more block is worth something.
LEMMA AppendBetter ==
  ASSUME NEW c, IsSeq(c), HaveDifficulties(c), NEW b, b.difficulty \in Nat
  PROVE  BetterThan(Append(c, b), c)
<1>1. Work(c) \in Nat /\ pow2[b.difficulty] \in Nat /\ pow2[b.difficulty] >= 1
  BY WorkNat, PowPositive
<1>2. Work(Append(c, b)) = Work(c) + pow2[b.difficulty]
  BY WorkAppend
<1>3. Work(Append(c, b)) > Work(c)
  BY <1>1, <1>2
<1> QED BY <1>3 DEF BetterThan

\* isBetterChain tells the work of chains that fit into an int.
LEMMA AcceptedBetter ==
  ASSUME NEW c, IsChain(c), NEW d, IsChain(d), isBetterChain(c, d)
  PROVE  BetterThan(c, d)
<1>1. IsSeq(c) /\ HaveDifficulties(c) /\ IsSeq(d) /\ HaveDifficulties(d)
  BY DEF IsChain, IsBlock, HaveDifficulties
<1>2. Work(c) \in Nat /\ Work(d) \in Nat
  BY <1>1, WorkNat
<1>3. IsBlock(getLatestBlock(c)) /\ IsBlock(getLatestBlock(d))
  BY TipIsBlock
<1>4. CASE Work(c) <= MAX_INT /\ Work(d) <= MAX_INT
  <2>1. getAccumulatedDifficulty(c) = Work(c) /\ getAccumulatedDifficulty(d) = Work(d)
    BY <1>1, <1>4, AccIsWork
  <2>2. getLatestBlock(c).timestamp \in Nat /\ getLatestBlock(d).timestamp \in Nat
    BY <1>3 DEF IsBlock
  <2>3. \/ Work(c) > Work(d)
        \/ Work(c) = Work(d) /\ getLatestBlock(d).timestamp > getLatestBlock(c).timestamp
    BY <2>1 DEF isBetterChain
  <2>4. getLatestBlock(d).timestamp > getLatestBlock(c).timestamp
          => getLatestBlock(c).timestamp < getLatestBlock(d).timestamp
    BY <2>2
  <2> QED BY <2>3, <2>4 DEF BetterThan
<1>5. CASE ~(Work(c) <= MAX_INT /\ Work(d) <= MAX_INT)
  BY <1>2, <1>5, IntervalAssumption DEF BetterThan
<1> QED BY <1>4, <1>5

\* What a step may do to the chains.
ChainsImprove ==
  \A n \in Nodes :
    chain'[n] # chain[n] => \/ BetterThan(chain'[n], chain[n])
                            \/ n \in Crashing /\ chain'[n] = InitialChain(n, clock[n])

\* Only the chain of n moves, to a better one.
LEMMA HoldBetter ==
  ASSUME IndInv, NEW n \in Nodes, NEW c, NEW u, HoldChain(n, c, u), BetterThan(c, chain[n])
  PROVE  ChainsImprove
<1>1. \A m \in Nodes : chain'[m] = IF m = n THEN c ELSE chain[m]
  BY DEF HoldChain, IndInv, HeldInv
<1> QED BY <1>1 DEF ChainsImprove

\* No step makes a chain worse.
LEMMA NextImproves == IndInv /\ DifficultyInv /\ [Next]_vars => ChainsImprove
<1> SUFFICES ASSUME IndInv, DifficultyInv, [Next]_vars PROVE ChainsImprove
  OBVIOUS
<1>1. ASSUME UNCHANGED chain PROVE ChainsImprove
  BY <1>1 DEF ChainsImprove
<1>2. ASSUME NEW n \in Nodes, FinishMining(n) PROVE ChainsImprove
  <2> DEFINE b == mining[n]
             c == chain[n]
  <2>1. CASE addBlockToBlockchain(n, b)
    <3>1. PICK u : HoldChain(n, Append(c, b), u)
      BY <2>1 DEF addBlockToBlockchain
    <3>2. b.difficulty \in Nat
      BY <1>2, MinedHasDigest
    <3>3. IsSeq(c) /\ HaveDifficulties(c)
      BY DEF IndInv, HeldInv, IsChain, IsBlock, HaveDifficulties
    <3> HIDE DEF b, c
    <3>4. BetterThan(Append(c, b), c)
      BY <3>2, <3>3, AppendBetter
    <3> QED BY <3>1, <3>4, HoldBetter DEF c
  <2>2. CASE UNCHANGED <<chain, utxo, pool, sentChains>>
    BY <1>1, <2>2
  <2> QED BY <1>2, <2>1, <2>2 DEF FinishMining
<1>3. ASSUME NEW n \in Nodes, NEW c \in sentChains,
             ReceiveLatest(n, c) \/ ReceiveBlockchain(n, c)
      PROVE  ChainsImprove
  <2>1. TakesUp(n, c)
    BY <1>3, LatestTaken, BlockchainTaken
  <2>2. IsChain(c) /\ IsChain(chain[n]) /\ FairDifficulties(c)
    BY DEF IndInv, HeldInv, DifficultyInv
  <2>3. CASE replaceChainAccepts(n, c)
    <3>1. BetterThan(c, chain[n])
      BY <2>2, <2>3, AcceptedBetter DEF replaceChainAccepts
    <3> QED BY <2>1, <3>1, HoldBetter DEF TakesUp
  <2>4. CASE \E b : c = Append(chain[n], b)
    <3>1. PICK b : c = Append(chain[n], b)
      BY <2>4
    <3> SUFFICES ASSUME NEW d, d = chain[n], c = Append(d, b) PROVE ChainsImprove
      BY <3>1
    <3>2. IsSeq(d) /\ HaveDifficulties(d)
      BY <2>2 DEF IsChain, IsBlock, HaveDifficulties
    <3>3. b.difficulty \in Nat
      <4>1. /\ IsSeq(c) /\ Len(c) = Len(d) + 1 /\ c[Len(d) + 1] = b /\ Len(d) \in Nat
        BY <3>2, IsSeqShape, IsSeqAppend
      <4>2. Len(d) + 1 \in DOMAIN c
        BY <4>1, IsSeqShape
      <4> QED BY <2>2, <4>1, <4>2 DEF FairDifficulties
    <3>4. BetterThan(c, d)
      BY <3>2, <3>3, AppendBetter
    <3> QED BY <2>1, <3>4, HoldBetter DEF TakesUp
  <2> QED BY <2>1, <2>3, <2>4 DEF TakesUp
<1>4. ASSUME NEW n \in Nodes, n \in Crashing, Restart(n) PROVE ChainsImprove
  <2>1. \A m \in Nodes : chain'[m] = IF m = n THEN InitialChain(n, clock[n]) ELSE chain[m]
    BY <1>4 DEF Restart, IndInv, HeldInv
  <2> QED BY <1>4, <2>1 DEF ChainsImprove
<1>5. ASSUME NEW n \in Nodes, NEW x,
             \/ SendTransaction(n, x) \/ createNextBlock(n)
             \/ createNextBlockWithTransaction(n, x) \/ ReceivePool(n, x) \/ Tick(n)
      PROVE  ChainsImprove
  BY <1>1, <1>5 DEF SendTransaction, createNextBlock, createNextBlockWithTransaction,
                    ReceivePool, Tick
<1>6. CASE UNCHANGED vars
  BY <1>1, <1>6 DEF vars
<1> QED BY <1>2, <1>3, <1>4, <1>5, <1>6 DEF Next, UserStep

\* A running node never goes back: each chain it takes up has more work than
\* the one before, or the same and an earlier end, so it visits none twice and
\* no race of blocks, broadcasts and replies can make it swing between two.  Only
\* when the work of one of them is too much for an int, the comparison may fail.
THEOREM AlwaysChainOnlyImproves == Spec => ChainOnlyImproves
<1>1. IndInv /\ DifficultyInv /\ [Next]_vars
        => [\A n \in Nodes :
              chain'[n] # chain[n]
                => \/ Work(chain'[n]) > Work(chain[n])
                   \/ /\ Work(chain'[n]) = Work(chain[n])
                      /\ getLatestBlock(chain'[n]).timestamp < getLatestBlock(chain[n]).timestamp
                   \/ Work(chain'[n]) > MAX_INT \/ Work(chain[n]) > MAX_INT
                   \/ n \in Crashing /\ chain'[n] = InitialChain(n, clock[n])]_vars
  BY NextImproves DEF ChainsImprove, BetterThan
<1> QED BY <1>1, InitInd, NextInd, DifficultyInit, DifficultyNext, PTL DEF Spec, ChainOnlyImproves

-----------------------------------------------------------------------------
(* What is mined is accepted *)

\* The work of every chain of the network fits into an int.
WorkFits == \A c \in sentChains : Work(c) <= MAX_INT

\* The block b, made at the time now on the chain c, is fit to be its next.
Candidate(b, c, now) ==
  /\ b.previousHash = calculateHash(getLatestBlock(c))
  /\ b.index = getLatestBlock(c).index + 1
  /\ areValidBlockTransactions(b.data, UtxoAfter(c)[Len(c)], b.index)
  /\ b.timestamp <= now

\* The last block of c is no more ahead of the time now than is tolerated.
Timely(c, now) == getLatestBlock(c).timestamp - TIMESTAMP_TOLERANCE < now

\* Every candidate was made for a chain the network knows; clocks matter only
\* while the comparison of chains can be trusted.
CandidateInv ==
  /\ \A n \in Nodes :
       mining[n] # None =>
         \E c \in sentChains : /\ Candidate(mining[n], c, clock[n])
                               /\ WorkFits => Timely(c, mining[n].timestamp)
  /\ WorkFits => \A n \in Nodes : Timely(chain[n], clock[n])

\* The accumulated difficulty of a single first block is one at most.
LEMMA FirstWorth ==
  ASSUME NEW c, IsSeq(c), Len(c) = 1, FairDifficulties(c)
  PROVE  getAccumulatedDifficulty(c) <= 1
<1>1. PICK g : AccRecurrence(g, c, 1) /\ getAccumulatedDifficulty(c) = g[1]
  BY AccDef
<1>2. c[1].difficulty = 0
  BY DEF FairDifficulties
<1>3. g[0] = 0 /\ g[1] = AddWork(g[1 - 1], c[1].difficulty)
  <2>1. 0 \in 0..1 /\ 1 \in 0..1
    OBVIOUS
  <2> QED BY <1>1, <2>1 DEF AccRecurrence
<1>4. g[1] = AddWork(0, 0)
  <2>1. 1 - 1 = 0
    OBVIOUS
  <2> QED BY <1>2, <1>3, <2>1
<1>5. g[1] = ToInt(0 + pow2[0])
  <2>1. 0 >= 0
    OBVIOUS
  <2> QED BY <1>4, <2>1 DEF AddWork
<1>6. pow2[0] = 1 /\ 0 + 1 = 1
  BY PowDef
<1>7. g[1] = ToInt(1)
  BY <1>5, <1>6
<1>8. ToInt(1) <= 1
  BY IntervalAssumption DEF ToInt
<1> QED BY <1>1, <1>7, <1>8

\* A chain that a node takes up is timely: its last block was checked, or it
\* is a first block with an earlier time than the last one held.
LEMMA AcceptedTimely ==
  ASSUME IndInv, DifficultyInv, WorkFits, NEW n \in Nodes, Timely(chain[n], clock[n]),
         NEW c \in sentChains, TakesUp(n, c)
  PROVE  Timely(c, clock[n])
<1>1. /\ IsChain(c) /\ FairDifficulties(c) /\ Work(c) <= MAX_INT
      /\ IsChain(chain[n]) /\ FairDifficulties(chain[n]) /\ Work(chain[n]) <= MAX_INT
      /\ clock[n] \in Nat
  BY DEF IndInv, HeldInv, OtherInv, DifficultyInv, WorkFits
<1> SUFFICES ASSUME NEW d, d = chain[n], Timely(d, clock[n]) PROVE Timely(c, clock[n])
  OBVIOUS
<1>2. IsSeq(c) /\ Len(c) \in Nat /\ Len(c) >= 1
  BY <1>1, IsSeqShape DEF IsChain
<1>3. CASE \E b : c = Append(d, b) /\ addBlockToBlockchainAccepts(n, b)
  <2>1. PICK b : c = Append(d, b) /\ addBlockToBlockchainAccepts(n, b)
    BY <1>3
  <2>2. IsSeq(d)
    BY <1>1 DEF IsChain
  <2>3. Len(c) = Len(d) + 1 /\ c[Len(d) + 1] = b
    BY <2>1, <2>2, IsSeqAppend
  <2>4. getLatestBlock(c) = b
    BY <2>3 DEF getLatestBlock
  <2> QED BY <2>1, <2>4 DEF addBlockToBlockchainAccepts, isBlockValid, isValidTimestamp, Timely
<1>4. CASE replaceChainAccepts(n, c) /\ Len(c) # 1
  <2>1. Len(c) \in 2..Len(c)
    <3>1. Len(c) # 1 /\ Len(c) \in Nat /\ Len(c) >= 1
      BY <1>2, <1>4
    <3>2. \A k \in Nat : k >= 1 /\ k # 1 => k \in 2..k
      OBVIOUS
    <3> QED BY <3>1, <3>2
  <2>2. isBlockValid(c[Len(c)], c[Len(c) - 1], clock[n])
    BY <1>4, <2>1 DEF replaceChainAccepts, isBlockchainValid
  <2> QED BY <2>2 DEF isBlockValid, isValidTimestamp, Timely, getLatestBlock
<1>5. CASE replaceChainAccepts(n, c) /\ Len(c) = 1
  <2>1. getAccumulatedDifficulty(c) <= 1
    BY <1>1, <1>2, <1>5, FirstWorth
  <2>2. getAccumulatedDifficulty(d) = Work(d) /\ Work(d) >= 1 /\ Work(d) \in Nat
    <3>1. IsSeq(d) /\ d # <<>> /\ HaveDifficulties(d) /\ FairDifficulties(d)
      BY <1>1 DEF IsChain, IsBlock, HaveDifficulties
    <3> QED BY <1>1, <3>1, AccIsWork, WorkPositive
  <2>3. getAccumulatedDifficulty(c) = Work(c) /\ Work(c) \in Nat
    <3>1. HaveDifficulties(c)
      BY <1>1 DEF IsChain, IsBlock, HaveDifficulties
    <3> QED BY <1>1, <1>2, <3>1, AccIsWork, WorkNat
  <2>4. ~(getAccumulatedDifficulty(c) > getAccumulatedDifficulty(d))
    BY <2>1, <2>2, <2>3
  <2>5. getLatestBlock(d).timestamp > getLatestBlock(c).timestamp
    BY <1>5, <2>4 DEF replaceChainAccepts, isBetterChain
  <2>6. getLatestBlock(c).timestamp \in Nat /\ getLatestBlock(d).timestamp \in Nat
    BY <1>1, TipIsBlock DEF IsBlock
  <2> QED BY <1>1, <2>5, <2>6, IntervalAssumption DEF Timely
<1> QED BY <1>3, <1>4, <1>5 DEF TakesUp

\* What createRawNextBlock makes of transactions that fit is a candidate.
LEMMA RawBlockCandidate ==
  ASSUME NoneIsNoId, IndInv, NEW n \in Nodes, NEW ts, IsSeq(ts), PoolFits(ts, utxo[n]),
         NEW b, b = createRawNextBlock(n, ts)
  PROVE  Candidate(b, chain[n], clock[n]) /\ b.timestamp = clock[n]
<1> DEFINE index == getLatestBlock(chain[n]).index + 1
<1>1. /\ b.previousHash = calculateHash(getLatestBlock(chain[n]))
      /\ b.index = index /\ b.timestamp = clock[n]
      /\ b.data = <<getCoinbaseTransaction(n, index)>> \o ts
  BY DEF createRawNextBlock, Block
<1> HIDE DEF index
<1>2. areValidBlockTransactions(b.data, utxo[n], index)
  BY <1>1, HeldWellMade, FittingData
<1>3. utxo[n] = UtxoAfter(chain[n])[Len(chain[n])] /\ clock[n] \in Nat
  BY DEF IndInv, HeldInv, OtherInv, UtxoReplayed
<1>4. clock[n] <= clock[n]
  BY <1>3
<1> QED BY <1>1, <1>2, <1>3, <1>4 DEF Candidate, index

\* A node begins to mine on its own chain.
LEMMA MiningCandidate ==
  ASSUME NoneIsNoId, IndInv, CandidateInv, NEW n \in Nodes, NEW ts, IsSeq(ts),
         PoolFits(ts, utxo[n]),
         mining' = [mining EXCEPT ![n] = createRawNextBlock(n, ts)],
         UNCHANGED <<chain, clock, sentChains>>
  PROVE  CandidateInv'
<1> SUFFICES ASSUME NEW b, b = createRawNextBlock(n, ts) PROVE CandidateInv'
  OBVIOUS
<1>1. Candidate(b, chain[n], clock[n]) /\ b.timestamp = clock[n]
  BY RawBlockCandidate
<1>2. chain[n] \in sentChains /\ \A m \in Nodes : mining'[m] = IF m = n THEN b ELSE mining[m]
  BY DEF IndInv, HeldInv, OtherInv, IsMap
<1>3. WorkFits' <=> WorkFits
  BY DEF WorkFits
<1>4. WorkFits => \A m \in Nodes : Timely(chain[m], clock[m])
  BY DEF CandidateInv
<1>5. ASSUME NEW m \in Nodes, mining'[m] # None
      PROVE  \E c \in sentChains : /\ Candidate(mining'[m], c, clock[m])
                                   /\ WorkFits => Timely(c, mining'[m].timestamp)
  <2>1. CASE m = n
    BY <1>1, <1>2, <1>4, <2>1
  <2>2. CASE m # n
    BY <1>2, <1>5, <2>2 DEF CandidateInv
  <2> QED BY <2>1, <2>2
<1> QED BY <1>3, <1>4, <1>5 DEF CandidateInv

\* Chains that were broadcast cannot be taken back.
LEMMA FitsBefore ==
  ASSUME sentChains \subseteq sentChains', WorkFits'
  PROVE  WorkFits
  BY DEF WorkFits

\* Node n moves to a chain, which is timely if the comparison could be trusted.
LEMMA HoldCandidate ==
  ASSUME IndInv, CandidateInv, NEW n \in Nodes, NEW c, NEW u, HoldChain(n, c, u),
         WorkFits => Timely(c, clock[n]), UNCHANGED clock,
         \A m \in Nodes : mining'[m] = None \/ mining'[m] = mining[m]
  PROVE  CandidateInv'
<1>1. /\ \A m \in Nodes : chain'[m] = IF m = n THEN c ELSE chain[m]
      /\ sentChains \subseteq sentChains'
  BY DEF HoldChain, IndInv, HeldInv
<1>2. WorkFits' => WorkFits
  BY <1>1, FitsBefore
<1>3. ASSUME NEW m \in Nodes, mining'[m] # None
      PROVE  \E d \in sentChains' : /\ Candidate(mining'[m], d, clock[m])
                                    /\ WorkFits' => Timely(d, mining'[m].timestamp)
  <2>1. mining'[m] = mining[m]
    BY <1>3
  <2>2. PICK d \in sentChains : /\ Candidate(mining[m], d, clock[m])
                                /\ WorkFits => Timely(d, mining[m].timestamp)
    BY <1>3, <2>1 DEF CandidateInv
  <2> QED BY <1>1, <1>2, <2>1, <2>2
<1>4. WorkFits' => \A m \in Nodes : Timely(chain'[m], clock[m])
  BY <1>1, <1>2 DEF CandidateInv
<1> QED BY <1>3, <1>4 DEF CandidateInv

\* A new chain is timely, if any clock error is tolerated at all.
LEMMA InitialTimely ==
  ASSUME TIMESTAMP_TOLERANCE > 0, NEW n, NEW time \in Nat
  PROVE  Timely(InitialChain(n, time), time)
<1> SUFFICES ASSUME NEW s, s = <<getGenesisBlock(n, time)>> PROVE Timely(s, time)
  BY DEF InitialChain
<1>1. getLatestBlock(s) = getGenesisBlock(n, time)
  BY IsSeqSingleton DEF getLatestBlock
<1>2. getGenesisBlock(n, time).timestamp = time
  BY DEF getGenesisBlock, Block
<1> QED BY <1>1, <1>2, IntervalAssumption DEF Timely

\* At the start nobody mines.
LEMMA CandidateInit == ASSUME TIMESTAMP_TOLERANCE > 0 PROVE Init => CandidateInv
<1> SUFFICES ASSUME Init PROVE CandidateInv
  OBVIOUS
<1>1. clock \in [Nodes -> Nat]
  BY NodesAssumption DEF Init
<1>2. ASSUME NEW n \in Nodes PROVE Timely(InitialChain(n, clock[n]), clock[n])
  BY <1>1, InitialTimely
<1>3. \A n \in Nodes : chain[n] = InitialChain(n, clock[n]) /\ mining[n] = None
  BY DEF Init
<1> QED BY <1>2, <1>3 DEF CandidateInv

\* Every step keeps the candidates.
LEMMA CandidateNext ==
  ASSUME NoneIsNoId, TIMESTAMP_TOLERANCE > 0
  PROVE  IndInv /\ PoolInv /\ PayInv /\ DifficultyInv /\ CandidateInv /\ [Next]_vars
           => CandidateInv'
<1> SUFFICES ASSUME IndInv, PoolInv, PayInv, DifficultyInv, CandidateInv, [Next]_vars
    PROVE CandidateInv'
  OBVIOUS
<1>1. ASSUME UNCHANGED <<chain, mining, clock, sentChains>> PROVE CandidateInv'
  <2>1. WorkFits' <=> WorkFits
    BY <1>1 DEF WorkFits
  <2> QED BY <1>1, <2>1 DEF CandidateInv
<1>2. ASSUME NEW n \in Nodes, createNextBlock(n) PROVE CandidateInv'
  <2> DEFINE k == IF Len(pool[n]) < 2 THEN Len(pool[n]) ELSE 2
  <2> SUFFICES ASSUME NEW q, q = pool[n], NEW ts, ts = SubSeq(q, 1, k) PROVE CandidateInv'
    OBVIOUS
  <2>1. IsSeq(q) /\ PoolFits(q, utxo[n])
    BY DEF IndInv, HeldInv, AreTransactions, PoolInv
  <2>2. k \in 0..Len(q)
    BY <2>1, IsSeqShape
  <2>3. mining' = [mining EXCEPT ![n] = createRawNextBlock(n, ts)]
    BY <1>2 DEF createNextBlock
  <2> HIDE DEF k
  <2>4. IsSeq(ts) /\ PoolFits(ts, utxo[n])
    BY <2>1, <2>2, IsSeqFirst, FirstFit
  <2> QED BY <1>2, <2>3, <2>4, MiningCandidate DEF createNextBlock
<1>3. ASSUME NEW n \in Nodes, NEW p \in BlockPayments, p.sender = n,
             createNextBlockWithTransaction(n, p.outs)
      PROVE  CandidateInv'
  <2>1. PICK t \in createTransactionWithMultipleOutputs(p.outs, n, utxo[n], pool[n]) :
          mining' = [mining EXCEPT ![n] = createRawNextBlock(n, <<t>>)]
    BY <1>3 DEF createNextBlockWithTransaction
  <2>2. isValidTransaction(t, utxo[n])
    BY PaymentTyped, PaymentPays, HeldWellMade, HeldCountable, CreatedValid
  <2> SUFFICES ASSUME NEW ts, ts = <<t>>,
                      mining' = [mining EXCEPT ![n] = createRawNextBlock(n, ts)]
      PROVE CandidateInv'
    BY <2>1
  <2>3. IsSeq(ts) /\ DOMAIN ts = 1..1 /\ ts[1] = t
    BY IsSeqSingleton
  <2>4. \A k \in 1..1 : k = 1
    OBVIOUS
  <2>5. PoolFits(ts, utxo[n])
    BY <2>2, <2>3, <2>4 DEF PoolFits
  <2> QED BY <1>3, <2>3, <2>5, MiningCandidate DEF createNextBlockWithTransaction
<1>4. ASSUME NEW n \in Nodes, FinishMining(n) PROVE CandidateInv'
  <2> DEFINE b == mining[n]
  <2>1. mining' = [mining EXCEPT ![n] = None] /\ UNCHANGED clock
    BY <1>4 DEF FinishMining
  <2>2. \A m \in Nodes : mining'[m] = IF m = n THEN None ELSE mining[m]
    BY <2>1 DEF IndInv, OtherInv, IsMap
  <2>3. CASE addBlockToBlockchain(n, b)
    <3>1. PICK u : HoldChain(n, Append(chain[n], b), u)
      BY <2>3 DEF addBlockToBlockchain
    <3>2. b.timestamp - TIMESTAMP_TOLERANCE < clock[n]
      BY <2>3 DEF addBlockToBlockchain, addBlockToBlockchainAccepts, isBlockValid,
                  isValidTimestamp
    <3>3. IsSeq(chain[n])
      BY DEF IndInv, HeldInv, IsChain
    <3> HIDE DEF b
    <3>4. getLatestBlock(Append(chain[n], b)) = b
      BY <3>3, IsSeqAppend DEF getLatestBlock
    <3>5. Timely(Append(chain[n], b), clock[n])
      BY <3>2, <3>4 DEF Timely
    <3> QED BY <2>1, <2>2, <3>1, <3>5, HoldCandidate
  <2>4. CASE UNCHANGED <<chain, utxo, pool, sentChains>>
    <3>1. WorkFits' <=> WorkFits
      BY <2>4 DEF WorkFits
    <3> HIDE DEF b
    <3> QED BY <2>1, <2>2, <2>4, <3>1 DEF CandidateInv
  <2> QED BY <1>4, <2>3, <2>4 DEF FinishMining
<1>5. ASSUME NEW n \in Nodes, NEW c \in sentChains,
             ReceiveLatest(n, c) \/ ReceiveBlockchain(n, c)
      PROVE  CandidateInv'
  <2>1. TakesUp(n, c)
    BY <1>5, LatestTaken, BlockchainTaken
  <2>2. WorkFits => Timely(c, clock[n])
    BY <2>1, AcceptedTimely DEF CandidateInv
  <2> QED BY <2>1, <2>2, HoldCandidate DEF TakesUp
<1>6. ASSUME NEW n \in Nodes, Tick(n) PROVE CandidateInv'
  <2>1. /\ UNCHANGED <<chain, mining, sentChains>>
        /\ \A m \in Nodes : clock[m] \in Nat /\ clock'[m] \in Nat /\ clock[m] <= clock'[m]
    BY <1>6 DEF Tick, IndInv, OtherInv
  <2>2. WorkFits' <=> WorkFits
    BY <2>1 DEF WorkFits
  <2>3. ASSUME NEW m \in Nodes, mining[m] # None
        PROVE  \E c \in sentChains : /\ Candidate(mining[m], c, clock'[m])
                                     /\ WorkFits => Timely(c, mining[m].timestamp)
    <3>1. PICK c \in sentChains : /\ Candidate(mining[m], c, clock[m])
                                  /\ WorkFits => Timely(c, mining[m].timestamp)
      BY <2>3 DEF CandidateInv
    <3>2. mining[m].timestamp \in Nat
      BY <2>3 DEF IndInv, OtherInv, IsBlock
    <3>3. mining[m].timestamp <= clock'[m]
      BY <2>1, <3>1, <3>2 DEF Candidate
    <3> QED BY <3>1, <3>3 DEF Candidate
  <2>4. ASSUME WorkFits, NEW m \in Nodes PROVE Timely(chain[m], clock'[m])
    <3>1. Timely(chain[m], clock[m])
      BY <2>4 DEF CandidateInv
    <3>2. getLatestBlock(chain[m]).timestamp \in Nat
      BY TipIsBlock DEF IndInv, HeldInv, IsBlock
    <3> QED BY <2>1, <3>1, <3>2, IntervalAssumption DEF Timely
  <2> QED BY <2>1, <2>2, <2>3, <2>4 DEF CandidateInv
<1>7. ASSUME NEW n \in Nodes, Restart(n) PROVE CandidateInv'
  <2> DEFINE c == InitialChain(n, clock[n])
  <2>1. /\ \A m \in Nodes : /\ chain'[m] = IF m = n THEN c ELSE chain[m]
                            /\ mining'[m] = IF m = n THEN None ELSE mining[m]
        /\ sentChains' = sentChains \cup {c} /\ UNCHANGED clock
    BY <1>7 DEF Restart, IndInv, HeldInv, OtherInv, IsMap
  <2>2. Timely(c, clock[n])
    BY InitialTimely DEF IndInv, OtherInv
  <2> HIDE DEF c
  <2>3. WorkFits' => WorkFits
    BY <2>1, FitsBefore
  <2>4. ASSUME NEW m \in Nodes, mining'[m] # None
        PROVE  \E d \in sentChains' : /\ Candidate(mining'[m], d, clock[m])
                                      /\ WorkFits' => Timely(d, mining'[m].timestamp)
    <3>1. mining'[m] = mining[m] /\ mining[m] # None
      BY <2>1, <2>4
    <3>2. PICK d \in sentChains : /\ Candidate(mining[m], d, clock[m])
                                  /\ WorkFits => Timely(d, mining[m].timestamp)
      BY <3>1 DEF CandidateInv
    <3> QED BY <2>1, <2>3, <3>1, <3>2
  <2>5. WorkFits' => \A m \in Nodes : Timely(chain'[m], clock[m])
    BY <2>1, <2>2, <2>3 DEF CandidateInv
  <2> QED BY <2>1, <2>4, <2>5 DEF CandidateInv
<1>8. ASSUME NEW n \in Nodes, NEW x, SendTransaction(n, x) \/ ReceivePool(n, x)
      PROVE  CandidateInv'
  BY <1>1, <1>8 DEF SendTransaction, ReceivePool
<1>9. CASE UNCHANGED vars
  BY <1>1, <1>9 DEF vars
<1> QED BY <1>2, <1>3, <1>4, <1>5, <1>6, <1>7, <1>8, <1>9 DEF Next, UserStep

\* The work of the mining loop is lost only when the chain has moved: whatever
\* came in while a block was mined, and however the clocks differ, the block is
\* accepted if the node still holds the block it was mined on.  This needs some
\* tolerance, since a block may be found in the second it was begun, and that no
\* chain costs more than an int can tell: after an overflow a node may take up a
\* first block from the future, whose time nobody checks.
THEOREM AlwaysMinedBlockAccepted ==
  ASSUME NoneIsNoId, TIMESTAMP_TOLERANCE > 0
  PROVE  Spec => [](WorkFits => MinedBlockAccepted)
<1>1. IndInv /\ CandidateInv => (WorkFits => MinedBlockAccepted)
  <2> SUFFICES ASSUME IndInv, CandidateInv, WorkFits, NEW n \in Nodes, mining[n] # None,
                      mining[n].previousHash = calculateHash(getLatestBlock(chain[n]))
      PROVE addBlockToBlockchainAccepts(n, mining[n])
    BY DEF MinedBlockAccepted
  <2> DEFINE b == mining[n]
  <2>1. PICK c \in sentChains : Candidate(b, c, clock[n]) /\ Timely(c, b.timestamp)
    BY DEF CandidateInv
  <2>2. b.timestamp \in Nat /\ clock[n] \in Nat
    BY DEF IndInv, OtherInv, IsBlock
  <2>3. b.previousHash = calculateHash(getLatestBlock(chain[n]))
    OBVIOUS
  <2> HIDE DEF b
  <2>4. c = chain[n]
    <3>1. calculateHash(getLatestBlock(chain[n])) = calculateHash(getLatestBlock(c))
      BY <2>1, <2>3 DEF Candidate
    <3>2. getLatestBlock(chain[n]) = getLatestBlock(c)
      BY <3>1 DEF calculateHash
    <3>3. /\ IsSeq(c) /\ c # <<>> /\ Linked(c)
          /\ IsSeq(chain[n]) /\ chain[n] # <<>> /\ Linked(chain[n])
      BY DEF IndInv, HeldInv, ChainLinked, IsChain
    <3> QED BY <3>2, <3>3, LinkedTip
  <2>5. utxo[n] = UtxoAfter(c)[Len(c)]
    BY <2>4 DEF IndInv, HeldInv, UtxoReplayed
  <2>6. b.timestamp - TIMESTAMP_TOLERANCE < clock[n]
    BY <2>1, <2>2, IntervalAssumption DEF Candidate
  <2>7. isValidTimestamp(b, getLatestBlock(c), clock[n])
    BY <2>1, <2>6 DEF Timely, isValidTimestamp
  <2>8. isBlockValid(b, getLatestBlock(c), clock[n])
    BY <2>1, <2>7 DEF Candidate, isBlockValid
  <2> QED BY <2>1, <2>4, <2>5, <2>8 DEF Candidate, addBlockToBlockchainAccepts, b
<1> QED BY <1>1, InitInd, NextInd, PoolInit, PoolNext, PayInit, PayNext, DifficultyInit,
           DifficultyNext, CandidateInit, CandidateNext, PTL DEF Spec
=============================================================================
