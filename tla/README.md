# A TLA+ model of SkanCoin

SkanCoin is a small cryptocurrency node in C++ (`src/SkanCoin/src`, about 3900
lines; the libraries beside it are vendored). This directory holds TLA+ modules
that model what the node does, TLC configurations that check them on small
instances, and proofs that TLAPS checks for every instance.

## 1. The system

### Parts, state and operations

| part | source | state | operations |
|---|---|---|---|
| transactions and coin selection | `Transactions.cpp`, `TransactionComponents.cpp`, `Wallet.cpp` | none | create, sign, validate a transaction; apply the transactions of a block to the unspent outputs |
| blocks and validation | `Blockchain.cpp`, `Block.cpp` | none | hash, difficulty, accumulated difficulty, validity of a block and of a chain |
| blockchain of a node | `Blockchain.cpp`, `Blockchain.hpp` | `blockchain`, `unspentTransOuts` | `addBlockToBlockchain`, `replaceChain`, `createRawNextBlock` (mining), `sendTransaction` |
| transaction pool | `TransactionPool.cpp` | `unconfirmedTransactions`, `stats` | `addToPool`, `updatePool`, waiting times |
| peer messages | `Peer.cpp` | the socket lists, `oncomingChains` | `peerMessageHandler`, `newBlocksHandler`, `handleBlockchainResponse`, broadcasts |
| connections | `Peer.cpp`, `crow/websocket.h`, `easywsclient.cpp` | buffers, socket state | open, poll, read, write, break, destroy |
| HTTP server | `HttpServer.cpp` | none | REST requests: send a payment, mine the pool, mine a payment, connect to a peer, reads |
| wallet keys | `Wallet.cpp` | key files | generate, read, delete keys |
| statistics | `Blockchain.cpp`, `Peer.cpp` | text files | append mining and waiting times |
| start | `Main.cpp` | - | wallet, genesis block, three threads |

A node runs three threads: the HTTP server (one request at a time), the server
of incoming sockets and a client that polls the outgoing ones. Both peer
threads handle a message with `connectionsMtx` held. The HTTP thread takes that
mutex only to send; it reads and writes the chain, the unspent outputs and the
pool without any lock. Nodes exchange queries (latest block, whole chain, pool)
and answers; an answer is also broadcast after a change. A whole chain travels
as one message per block.

### What is hard

- mining takes time: what it was based on may be gone when it ends;
- the HTTP thread changes the chain and the pool without the mutex that orders
  the two peer threads, in several steps each;
- the unspent outputs and the pool are kept incrementally beside the chain,
  over appends, replacements and restarts;
- nobody checks the difficulty of a received block, and the check of the genesis
  block is inverted (it refuses only the block this node would generate now);
- a chain in transit is cut into blocks, while the sender goes on mining, and the
  receiver collects the blocks in a list per wallet that outlives the connection;
- one announcement per change and two questions per connection have to be enough
  for all nodes to agree, whatever a broken connection loses;
- a connection is written to by several threads, read in pieces, and deletes
  itself while a list still refers to it;
- timestamps may go back by a minute and the clocks of the nodes differ;
- a restarted node has its old wallet, and a genesis coinbase with the old id;
- the two key files are written one after the other, and only one is looked for;
- amounts are floats, and travel as text with six digits.

The complete list, each at its line, is under `hazards` in `PROJECT.json`.

### What makes it correct

Coins are conserved; the unspent outputs are those of the chain; chains are
linked, carry the scheduled difficulty and only improve; nodes with one latest
block agree; a pool never stops the miner; work is lost only when the chain has
moved; mining ends; a chain that was sent is compared as a whole; when all has
been said, peers agree; messages arrive whole and in order; keys stay.

## 2. The modules

```
Transactions            pure functions on transactions
  Blocks                pure functions on blocks and chains
    TransactionPool     pure functions on the list of unconfirmed transactions
      SkanCoin          the network: chain, unspent outputs, pool and miner per node
        ChainTransfer   the same network with chains sent block by block
      Network           queues of messages and connections; implements SkanCoin
      NodeThreads       the threads of one node, one access to a list at a time
      BlocksProofs      lemmas on sequences, replays, linked chains and the pool
        SkanCoinProofs  chains, outputs, amounts, the pool, the difficulties and the work
          ChainTransferProofs   the transfer block by block is a refinement
        NetworkProofs           so are queues and connections, and the peers agree
        NodeThreadsProofs       the invariants of the threads
Amounts                 one wallet with floats and their texts
  AmountsProofs         for which amounts they are exact
WalletFiles             the key files and the start of the program
  WalletFilesProofs     its inductive invariant and theorems
WebSockets              one connection, from the handlers down to the bytes
  WebSocketsProofs      what was sent is what the handlers are given
MC...                   small instances
```

`SkanCoin` is the abstract specification in the middle. Each of three modules
opens one thing it takes for granted: `ChainTransfer` that a chain arrives as a
whole, `Network` that enough is said, `NodeThreads` that a handler is one step.
`WebSockets` stands below `Network` (ordered queues), `WalletFiles` below the
restart of `SkanCoin` (the wallet survives), `Amounts` below `Transactions`
(amounts are numbers one can add).

**Transactions.** A transaction is its set of inputs, its list of outputs and the
wallet that signed it. Its id is its content, a digest of SHA-256 being taken as
collision free, and a signature verifies exactly against the key that made it.
The list of unspent outputs is a set, so `getTransOutsForAmount`, which takes
outputs in list order until they suffice, becomes the set of all selections some
order gives. Amounts are positive integers here; the code takes any float, also zero and
negative ones, from a user, and what floats do to the sums is in `Amounts`.

**Blocks.** A block has no stored hash: `calculateHash` wraps the block, so two
hashes are equal exactly when the blocks are. The nonce is the first that fits
and hence a function of the rest. `hashDifficultyCheck` is a condition on the
number of leading zero bits, with the code's behaviour for a negative difficulty
(`substr(0, -1)` is the whole digest, and differs from the empty prefix).
`getAccumulatedDifficulty` adds in an int of limit `MAX_INT`; beyond it the
conversion is undefined, and the model has what x86 gives, the least int.

**SkanCoin.** One action per handler:

| action | code |
|---|---|
| `SendTransaction` | `POST /transactions`, `BlockChain::sendTransaction` |
| `createNextBlock`, `createNextBlockWithTransaction` | `POST /blocks/pool`, `/blocks/transaction`, up to the mining loop |
| `FinishMining` | the end of `mineBlock`, `addBlockToBlockchain`, the broadcast |
| `ReceiveLatest`, `ReceiveBlockchain`, `ReceivePool` | `RESPONSE_LATEST`, `RESPONSE_BLOCKCHAIN`, `RESPONSE_POOL` |
| `Restart` | a crash and a new `main` with the wallet on disk |
| `Tick` | the clock of a node |

Messages are abstracted to what has ever been an answer: `sentChains` holds
every chain that some node has held (its last block is what `RESPONSE_LATEST`
carries), `sentTransactions` every transaction that was broadcast. A node may
receive any of it at any time and any number of times, which covers loss,
delay, duplication and reordering, and makes the queries, whose only effect is
an answer, unnecessary. Handlers that throw or return early change nothing and
are the absence of a step.

**ChainTransfer** adds the connections, the sending loop and `oncomingChains`:
`StartSending` and `SendBlock` are `sendBlockChain`, whose copy of the chain may
be older than the latest block that decides `isLast`; `ReceiveBlock` is
`handleBlockchainResponse`; `HandOver` passes the list to `newBlocksHandler`,
which may throw before the list is erased.

**Network** has the three questions and three answers as messages in one queue
per direction. `connectToPeer` is that function and `onopen` of the server: the
socket joins the list and the two questions are sent. `Receive` takes the first
message and runs its branch of `peerMessageHandler` with everything that branch
sends. `FinishMining` broadcasts the block only, the handler of received blocks
also the question for pools, as the code does. `Break` and `Restart` empty the
queues. A chain is one message here, a handler one step.

**NodeThreads** is one node among honest peers. Each thread has a program
counter (`pc`) and locals (`own`); a step is one access to `chain`, `utxo`,
`pool` or `stats`, or one acquisition of the mutex. The labels follow the code:
`addBlock`, `process transactions`, `push block`, `set utxo`, ... are the
statements of `addBlockToBlockchain`; `read arguments` the two copies that
`sendTransaction` passes to `createTransaction`, in either order. The peers are
what honest nodes may send: valid chains, transactions out of them. `overlapped`
is a history variable that no guard reads: it remembers whether the HTTP thread
and a peer thread were ever in the middle of changing the same thing. `updatePool` is a
loop of steps as in the code: `CheckInputs` looks at the inputs of one transaction and
deletes its waiting time (`TransactionPool.cpp:78`), `EraseTransaction` takes it out of the
pool (line 79), and other threads come in between; `IteratorLost` is the case that another
thread has erased the transaction under the iterator. `createNextBlock` copies the pool in
one step (`TakeFromPool`) and looks up each waiting time in a later one (`ReadStat`).

**WalletFiles** has a step per file operation of `initWallet`, `generateKeys` and
`saveKey`, with files that are absent, empty or hold half of a pair. A file may refuse to
be opened for writing (`OpenFails`) and, though it is there, for reading (`ReadFails`):
`initWallet` takes a private key that does not open for none (`Wallet.cpp:163`). The
history variable `missed` remembers that this has happened, until the pair made in its
place has been saved to the end.

**Amounts** has one owner who mines and pays. A number is a count of quanta; a float is a
significand below `Significands` times one of the `Units` (in the code 2^24 and the
powers of two), rounded to the nearest even; sums are made from the left in list order,
and `to_string` counts in `TextUnits` (millionths in the code) on the way to the other
nodes. `Exact(G)` says of a unit G that the formats hold its multiples.

**WebSockets** has the buffers and states of an easywsclient socket (`poll`,
`_dispatchBinary`, `clearClosedWs`) and of a crow connection (`do_read`'s states,
`do_write`, `handle_fragment`, `check_destroy`, `send_text` through the
io_service). The network delivers any number of bytes at a time. Bytes that are always
handled together are one unit, with one exception: the two bytes of a header, of which
`async_read_some` may return one (`ReadHalfHeader`). The code goes on with what the header
before has left in `mini_header_`, and from then on (`server.aligned` is false) takes any
bytes for headers, masks and payloads. `ReadMisaligned` and `ReadMisalignedPayload` let
each of those reads take any number of units, and let what comes out be anything the code
does with a frame: close the socket, hand a text that nobody sent to the handler (`NotSent`),
answer a ping or a close, ignore the frame, or wait for the rest of it for ever.

**Atomicity.** In `SkanCoin`, `ChainTransfer` and `Network` a handler is one step,
with two exceptions: the mining loop and the transfer of a chain. That is what
the mutex gives between the two peer threads of a node. `NodeThreads` shows what
it does not give between them and the HTTP thread.

## 3. The properties

| property | says |
|---|---|
| `TypeOK` | the variables have their types and each held chain is one the network has seen |
| `UtxoIsUnspent` | the unspent outputs are what the chain created and did not consume |
| `SupplyConserved` | the unspent outputs are worth one coinbase per block |
| `PoolMinable` | a coinbase and the whole pool are always valid block data |
| `CreatedTransactionAccepted` | what `createTransaction` makes, `addToPool` accepts, when both see the same lists |
| `MinedBlockAccepted` | a candidate is refused only when the chain has moved |
| `ChainLinked` | every chain ever held is linked from index 0 to its tip |
| `DifficultyAsScheduled` | every chain ever held carries the difficulties of `getDifficulty` |
| `SameTipSameState` | the same latest block means the same chain and unspent outputs |
| `ChainOnlyImproves` | a step replaces a chain by a better one only, restarts and an overflow of the work aside |
| `MiningEnds` | a request to mine ends |
| `DeliversWholeChains` | the transfer block by block implements the receipt of whole chains |
| `WholeChainCompared` | when the last block of a valid, better chain has come, the receiver holds it or a better one |
| `Implements` | questions, queues and broken connections implement `SkanCoin` |
| `PeersHoldBestChain` | when everything is handled, no node holds a chain that a peer would prefer |
| `PeersShareTransactions` | nor a transaction that a peer would still take |
| `MessagesEnd` | the traffic that a message sets off comes to an end |
| `UtxoMatchesChain` | the unspent outputs of a quiet node are those of its chain |
| `UtxoLostByOverlapOnly` | they are, unless the HTTP thread and a peer thread changed the chain at one time |
| `DoubleSpendByOverlapOnly` | no output is spent twice in the pool, unless both added to it at one time |
| `PoolHasStats` | each transaction of the pool has its time of receipt, unless a thread is between its two steps of adding or removing it (or two threads added to the pool at one time) |
| `CoinbasePerBlock` | no coinbase of another height gets into the chain |
| `HolderGivesBack` | who holds the mutex never waits for it nor goes idle with it |
| `AddressOfOwnPair` | a node that runs has its address, and halves of two pairs only after a private key did not open and the new pair was not saved to the end |
| `AcceptedWalletStarts` | a wallet that `initWallet` accepts lets the program start |
| `CompleteWalletStays` | a complete pair of keys is touched only by a start that could not open its private key |
| `StartEnds` | each start of the program ends |
| `InOrder` | the handlers are given what was sent, whole, once and in order; that of the server until a header is cut in two |
| `MessagesArrive` | all of it, unless the connection breaks, a header is cut in two or the server has stopped reading in a payload |
| `DestroyedUnlisted` | a destroyed connection is in no list |
| `BrokenUnlisted` | a broken one leaves the lists |
| `PaymentsFit`, `PeersAccept`, `SameWorth` | with amounts that the formats hold: every payment the wallet can afford balances, here and at the peers, and all agree on its worth |

`PoolMinable` is what makes the two shortcuts of the code safe (`updatePool`
looks only at the existence of inputs, `createNextBlock` at nothing);
`SameTipSameState` is what makes it safe to ignore a list that ends in the block
held; `DifficultyAsScheduled` holds although no receiver checks it, because in
this network every block comes from `createRawNextBlock`.

The two `...ByOverlapOnly` properties say how far the missing lock reaches:
however the mutex and the unlocked requests interleave, harm needs the HTTP
thread and a peer thread between the check and the end of the same change. The
exemption is real for both: without it, the first is refuted by the run
`NodeThreadsLostBlock`, the second by the bounds of `NodeThreads` itself (both
threads check a transaction before either pushes its own).

`PeersShareTransactions` leaves out a node whose latest block is its own: one
that refused a transaction because it was behind, and then catches up by a block
it mines, does not ask for pools (`Blockchain.cpp:243-246`, in contrast to
`Peer.cpp:473-474`).

## 4. The runs

Intervals, tolerances and the limit of the int are scaled down where a run is
about them; the rest keep the code's values (10 blocks, 10 s, 60 s, 2^31 - 1).
No user acts beyond the bounds, so the bounded systems stop in the end: deadlock
is not checked. (`HolderGivesBack` is what says that the threads do not stop one
another.)

| run | instance | states | shows |
|---|---|---|---|
| `SkanCoinPayments` | 2 nodes that pay each other, coinbase of 2, payments of one and two outputs with change, chains of 3, pool of 1 per user, difficulty that rises with every block, fair miners | 25,287 | `TypeOK`, `SupplyConserved`, `PoolMinable`, `MinedBlockAccepted`, `CreatedTransactionAccepted`, `UtxoIsUnspent`, `SameTipSameState`, `MiningEnds` |
| `SkanCoinClocks` | clocks of 0 to 2 that differ, adjustment every 2 blocks of 1 s, tolerance of 1 s, chains of 4, ints up to 4 | 51,116 | `ChainLinked`, `DifficultyAsScheduled`, `ChainOnlyImproves` |
| `SkanCoinCrash` | the paying node may restart at any time, chains of 3 | 225,561 | `UtxoIsUnspent`, `PoolMinable`, `MinedBlockAccepted`, `ChainOnlyImproves` |
| `SkanCoinSlowMining` | 1 fair miner, chains of 4, clock up to 5 | - | a violation of `MiningEnds` (section 6) |
| `ChainTransferSafe` | 2 connections of one pair, 2 transfers, chains of 3, the sender may crash | 109,473 | `DeliversWholeChains` |
| `ChainTransferInterrupted` | 1 connection, 2 transfers, chains of 3 | - | a violation of `WholeChainCompared` (section 6) |
| `Network` | 2 nodes, 2 connections one after the other, either may break, one node pays and may restart, chains of 2, clocks up to 1 | 44,686 | `PeersHoldBestChain`, `PeersShareTransactions`, `MessagesEnd`, `Implements` |
| `NodeThreads` | server thread, polling client and HTTP thread, payments of both sides, mining of the pool and of a payment, files that do not open, chains of 2, 2 chains of peers | 1,755,704 | `UtxoLostByOverlapOnly`, `DoubleSpendByOverlapOnly`, `PoolHasStats`, `CoinbasePerBlock`, `HolderGivesBack` |
| `NodeThreadsLostBlock` | the same threads, chains of 3, 3 chains of peers | - | a violation of `UtxoMatchesChain` (section 6) |
| `WalletFiles` | any failures to make a key and to open a file for writing or reading, and crashes, up to 6 pairs, a disk with room | 725 | `AddressOfOwnPair`, `AcceptedWalletStarts`, `CompleteWalletStays`, `StartEnds` |
| `WebSockets` | a message and an answer, with a payload of 2 units in a buffer of 2 and a longer length, two broadcasts of another thread with a payload of 1; bytes cut anywhere, also within a header, a break at any time | 254,415 | `InOrder`, `DestroyedUnlisted`, `MessagesArrive`, `BrokenUnlisted` |
| `AmountsExact` | floats of 8 digits, texts of 2, up to 2 coins of 10, payments of 0.25 to 4 in quarters | 1,683 | `PaymentsFit`, `PeersAccept`, `SameWorth` |

**Why the bounds are enough.** In `SkanCoin` the state of a node depends on the
others only through what was sent, and everything ever sent can be received at
any time: a third node adds senders, not kinds of messages. Chains of three
blocks hold a genesis block, a payment that spends its coinbase and a payment
that spends change; chains of four, with an adjustment at every second block,
reach the first adjusted difficulty and the block after it, and with an int of
4 their work overflows. `MaxPool` bounds only what users add: a pool of two, one
transaction of the user and one received, is the batch of two that a block takes.
`NodeSymmetry` is used where the nodes are interchangeable and nothing but safety
is checked.

In `Network` two nodes with forks from the start (each has its own genesis
block) and two connections in a row have every order of questions, announcements
and losses on one link; chains of two let one side mine while the other asks.
`MiningFrom`, which is a bound and no guard of the code, makes the miners wait until the
clocks have moved on: a block mined in the second of the start can make the inverted
genesis test refuse a chain (section 6). It does not keep a node from starting twice within
the later second; that such a node, too, may refuse a chain takes chains of three blocks
(one of two ends in a block that is simply appended), so that `MaxBlocks = 2` keeps it
out. A line of three nodes, where news are passed on, was explored with
the same result but takes longer than a regular run should.

In `NodeThreads` two peer threads and the HTTP thread give every pair of
handlers, and chains of two blocks one append and one replacement for each.
In `WebSockets` a payload of two units is the least that can be cut, and two
messages behind a write the least that can be reordered. A message of the client is five
units (header, length, mask, payload), which after a header that was cut are read as any
number of frames up to five, of any kind. In `Amounts` the
formats keep the proportions of the code's (a text coarser than the float's last
digit); 8 binary digits hold twenty coins in quarters as 24 digits hold hundred
thousands of them.

## 5. Fairness

- `SkanCoin!FairSpec`: weak fairness of `FinishMining` for each node. The mining
  loop is a loop of the request thread that nothing blocks and that draws a new
  digest at each turn, so if some digest fits it ends sooner or later. The guard
  `FittingDigests # {}` is the possibility of that end.
- `Network!FairSpec` adds weak fairness of `connectToPeer` and `Receive`: a
  socket that was opened is taken up by the thread that waits for it, and a
  message on an open connection is read in the end. Users, clocks, crashes and
  breaking connections are not assumed to act.
- `WebSockets!FairSpec`: the client polls for ever, the io_service runs what is
  ready, the network takes and delivers bytes and reports the loss of the other
  side in the end. Nobody is made to send, nothing is made to break.
- `WalletFiles!FairSpec`: the program goes on, and `ecc_make_key`, tried again
  and again, does not fail for ever (strong fairness of `MakeKey`).
- `NodeThreads` assumes none: whether a waiting thread ever gets a `std::mutex`
  is left to the platform.

## 6. Disagreements between code and comments

Three runs show them:

1. `SkanCoinSlowMining`. The comment of `mineBlock` (`Blockchain.cpp:349-350`)
   says that blocks are generated until a hash respects the difficulty. After an
   interval that took more than twice its time, `computeNewDifficulty` (line 182)
   makes -1 out of the 0 of the genesis block; no digest respects that, the loop
   never ends and neither does the request. With the code's constants: ten blocks
   in more than 200 seconds at difficulty 0. `SkanCoinPayments` shows that mining
   ends while the difficulty is not lowered: its clocks stand, so that the
   difficulty rises.
2. `ChainTransferInterrupted`. The comment of `handleBlockchainResponse`
   (`Peer.cpp:6-8`) says that a chain, once collected, is compared with the local
   one. If the HTTP thread adds a block while `sendBlockChain` is under way, no
   block is marked as the last (line 655). The list stays, the next transfer is
   appended to it, `replaceChain` throws on the doubled list, and the erase of line
   18 is skipped: the chain is not compared, nor is any later one from that wallet.
   `ChainTransferSafe` shows that such lists do no more harm than that: what is
   taken up is always a whole chain.
3. `NodeThreadsLostBlock`. The comment of `addBlockToBlockchain`
   (`Blockchain.cpp:622-623`) says that a block updates the unspent outputs. The
   block of the HTTP thread and that of a peer are both validated against the same
   tip and both enter the chain; of the two assignments of the unspent outputs the
   last one wins.

Others were met while modelling and have no run of their own:

- `Blockchain.cpp:480`: the accumulated difficulty is an int. When the work of a
  chain leaves its range (one difficulty above 30 does), a node may give the better
  chain up; `ChainOnlyImproves` shows that this is the only case.
- `Blockchain.cpp:582`: the test of the first block of a received chain is the wrong way
  round: it throws when that block equals the one this node would generate now, and lets
  every other pass. A node that crashes and starts again within the second of its first
  start has its old first block. If its peer has meanwhile built on it, the node refuses
  that chain whenever it is sent as a whole, and when everything has been handled the
  peers still differ. TLC finds this in `Network.cfg` with `MiningFrom = 0`, `MaxTime = 0`,
  `MaxBlocks = 3`, `MaxChains = 6`, `Crashing = {n1}` and no payments within seconds.
  `Network` shows that they agree when mining begins after the second of the start (with
  chains of three, a node that starts twice within a later second brings the difference
  back), and section 7 that it is enough when nobody builds on a first block within the
  second that it was made.
- `Blockchain.cpp:307`, `:310`, `HttpServer.cpp:101`: when a statistics file does not open,
  the user is told that mining failed although the block was added and broadcast.
- `Peer.cpp:260`: `POOL_STATS` throws a `std::string`, which the handlers of a
  `const char*` let pass; the mutex stays locked and the thread ends.
- `Peer.cpp:549`: the comment promises a pause of a second between two turns of the
  client thread; the loop has none and takes the mutex all the time.
- `TransactionPool.cpp:45`, `:50`: two threads may each check a transaction before
  either adds its own, so that one output is spent twice in the pool.
- `Blockchain.cpp:243-246`: a node that catches up by its own block does not ask for
  the transactions it refused before.
- `Wallet.cpp:136`: the counter of the attempts to make a key is never incremented.
- `Wallet.cpp:163`: the comment (`Wallet.cpp:155-156`) says that a key is generated when the
  file does not exist. Whether it exists is asked by opening it: a private key that is
  there and does not open is taken for none, a new pair is made, and `public_key` is
  truncated before anything else is tried. A complete wallet is replaced, with all its
  coins; if the second save then fails or is interrupted, the next start finds the old
  private key beside the new public one. `WalletFiles` has these steps, and
  `CompleteWalletStays` and `AddressOfOwnPair` show that they are the only way to it.
- `Wallet.cpp:43`: whether a key could be written is not looked at; with a full disk
  an empty file passes for the key at every later start.
- `Transactions.cpp:265`, `TransactionComponents.cpp:66`: with amounts that the float or
  the text cannot hold, the node refuses its own payment, or its peers do. In the
  format of `AmountsExact`, and with floats of 24 digits, two coinbases of 10, paid
  out by 7.8, 2.4 and 0.2, cannot pay 1.2 any more.
- `websocket.h:346`: a payload that is not read at once (any above the 4096 bytes of the
  buffer) stops the reading of the connection, which nobody notices. A chain is therefore
  sent block by block (`README.md:184`), but a block or a transaction may be long, too.
- `websocket.h:185`: the two bytes of a header are read with `async_read_some`, which may
  return one. The other one is then what the header before has left: 0x81 after it reads
  as 0x8181, a text of length 1. The second byte of the header and three more are taken for
  the mask, the next one for the payload, and the handler is given a message of one byte
  that nobody sent. The following headers are any bytes: frames of any kind and length,
  which the handler is given, or which are answered by a pong or a close, or a header
  without a mask, over which the connection is closed. Only a build with
  `CROW_ENABLE_DEBUG` tests for it (line 197).
- `websocket.h:435`: after the second frame taken for a close, `check_destroy` may delete the
  connection, which `handle_fragment` and `do_read` then go on using.

## 7. The proofs

Everything below is proved for every set of nodes or threads, every set of payments,
every length of chains, pools and queues, every clock and any restarts: the bounds of
section 4 are constants of the modules and appear in no proof but as natural numbers
(and in the amounts, where `MaxCoins` says what the owner may earn).

| theorem | property | rests on |
|---|---|---|
| `TypeCorrect`, `AlwaysLinked`, `AlwaysSameTipSameState` | `TypeOK`, `ChainLinked`, `SameTipSameState` | `IndInv` |
| `AlwaysDifficultyAsScheduled` | `DifficultyAsScheduled` | `IndInv`, `ScheduleInv` |
| `AlwaysPoolMinable` | `PoolMinable` | `IndInv`, `PoolInv` |
| `AlwaysCreatedTransactionAccepted` | `CreatedTransactionAccepted` | `IndInv`, `PoolInv`, `PayInv` |
| `AlwaysUtxoIsUnspent`, `AlwaysSupplyConserved` | `UtxoIsUnspent`, `SupplyConserved` | `IndInv`, `PoolInv`, `PayInv` |
| `AlwaysChainOnlyImproves` | `ChainOnlyImproves` | `IndInv`, `DifficultyInv` |
| `AlwaysMinedBlockAccepted` | `MinedBlockAccepted`, while the work of all chains fits an int | `IndInv`, `PoolInv`, `PayInv`, `DifficultyInv`, `CandidateInv` |
| `TransferImplements` | `DeliversWholeChains` | `IndInv`, `FirstKnown`, `TravelInv` |
| `NetworkImplements` (`NetworkKeepsInv`) | `Implements` | `NetworkInv` |
| `AlwaysPeersShareTransactions` (`NetworkKeepsChains`) | `PeersShareTransactions` | `NetworkInv`, `ChainsInv`, `Connections`, `Sharing` |
| `AlwaysPeersHoldBestChain` (`NetworkKeepsChains`) | `PeersHoldBestChain`, while clocks agree, first blocks are old and the work fits | `NetworkInv`, `ChainsInv`, `Connections`, `Agreement`, `Reborn` |
| `AlwaysHolderGivesBack` | `HolderGivesBack` | `MutexInv` |
| `AlwaysCoinbasePerBlock` | `CoinbasePerBlock` | `MutexInv`, `ListsInv`, `CoinbaseInv` |
| `DoubleSpendOnlyByOverlap` | `DoubleSpendByOverlapOnly` | `OverlapInv`, `DoubleSpendInv` |
| `UtxoLostOnlyByOverlap` | `UtxoLostByOverlapOnly` | `OverlapInv`, `UtxoInv` |
| `AlwaysPoolHasStats` | `PoolHasStats` | `MutexInv`, `ListsInv`, `StatsInv` |
| `AlwaysInOrder`, `AlwaysDestroyedUnlisted` | `InOrder`, `DestroyedUnlisted` | `Inv` of `WebSocketsProofs` |
| `AlwaysPaymentsFit`, `AlwaysPeersAccept`, `AlwaysSameWorth` | `PaymentsFit`, `PeersAccept`, `SameWorth`, for amounts that the formats hold (`Exact`) | `WalletInv` of `AmountsProofs` |
| `AcceptedStarts`, `RunsWithOwnPair`, `CompleteStays` | `AcceptedWalletStarts`, `AddressOfOwnPair`, `CompleteWalletStays` | `WalletInv` |

**The chain (`SkanCoinProofs`).** `IndInv` is the conjunction of `HeldInv` (types of the
chains, unspent outputs and pools; `ChainLinked`; and `UtxoReplayed`: the unspent outputs
of a node are what a replay of its chain from its first block gives) and `OtherInv` (types
of the miner, the clocks and the transactions sent). The parts need each other: `TypeOK`
alone is not inductive, since the type of the next difficulty needs the block of the last
adjustment to exist, which follows from the linking (index i sits at place i + 1).
`SameTipSameState` is not inductive, since two nodes may reach one tip by an append and by
a replacement; it follows from `ChainLinked`, because hashes are injective and a linked
chain is determined by its tip (`LinkedTip`), and from `UtxoReplayed`.

**The ledger (`SkanCoinProofs`).**

- *Difficulty.* `TakesUp` says what a step of receiving amounts to: the node holds a chain
  that is known already (`LinkedTip` again: an append to the own chain by the last block
  of a known chain is that chain). So no block on a wrong schedule can come in, although
  nobody checks: `ScheduleInv` says that every candidate was made on a known chain, with
  the difficulty that `getDifficulty` gives there.
- *Pool.* `PoolFits` says that each waiting transaction is valid with the outputs that are
  unspent now, and that no two share an input. An output is determined by its reference
  (`WellMade`), so what was valid once is valid as long as its inputs exist
  (`StaysValid`): this is why `updatePool` may look at nothing else.
- *Amounts.* `getTotalFromOutputVector` adds amounts over a set, which needs finite sets
  of natural amounts (`Countable`). `SoundBlock` says that a block's transactions balance
  against what is unspent before it; `SoundChain` follows for every chain of the network.
- *History.* `UtxoIsUnspent` is not inductive as it stands, because a block that were in
  the chain twice would bring outputs back. `History(C, K, height)` adds why this cannot
  be: an id covers the inputs, so a transaction whose id is known has inputs that are
  consumed (or a coinbase height that is past), and is no valid data for a later block.
  `SupplyConserved` follows block by block from `Balanced`.

**Work (`SkanCoinProofs`).** `getAccumulatedDifficulty` is a fold with an int that may
overflow. While the true work fits, the fold gives it (`DifficultyInv`: no difficulty of a
block is negative, since the mining loop ends only with a digest). `CandidateInv` relates
the block under way to the chain it was made on and to the clock: if the node still holds
that block's parent, it still holds that very chain, and the data are still valid.

**The transfer (`ChainTransferProofs`).** `TransferImplements` is a refinement with the
identity on the variables of `SkanCoin`. `FirstKnown` says that with a chain the network
knows all its beginnings, `TravelInv` that what is on the way, left to send or collected
are blocks of known chains and that a list is begun by a first block only. A list that
mixes two transfers is refused by `isBlockchainValid`; a list that passes it is linked, so
it is determined by its last block and hence a beginning of a known chain
(`ValidListKnown`): handing it over is `ReceiveBlockchain` or `ReceiveLatest` of
`SkanCoin`, and everything else stutters.

**The network (`NetworkProofs`).** `NetworkImplements` is a refinement as well: `SkanCoin`'s
chain, unspent outputs, pool and candidate of a node are the fields of `node`, and its
`sentChains` is `heldChains`. `NetworkInv` says that all that waits in a queue was held or
sent: a chain in a message is one that some node has held, a single block is the last of
one, a transaction was made by some node. So `Receive` is `ReceiveLatest`,
`ReceiveBlockchain` or `ReceivePool` of the same chain or transaction when it changes the
node, and a stutter when it answers, asks or refuses; the opening, taking up and breaking
of connections are stutters; the requests, the end of the mining loop, clocks and restarts
are the actions of the same name. The functions on blocks and transactions reach `Network`
twice, directly and through `SkanCoin`; the `Same...` lemmas say that both are one.

**The peers (`NetworkProofs`).** That peers agree when everything has been handled is no
inductive statement: it is about states in which nothing is under way. What is inductive
says what is under way otherwise.

- *Transactions.* For each transaction in the pool of n, a peer m that is caught up would
  not take it, or it is on the way from n to m, or the question for the pool is on the way
  from m to n (`Sharing`). A step that makes m take more than before is the change of its
  chain, and with that `News` asks everybody; a step that brings n more is one that sends
  the whole pool to everybody (`Offers`, `Requests`, `SharesKept`). What m is sent it takes
  or refuses, and in both cases would not take again, because a transaction consumes
  something. Nothing is assumed beyond the assumptions of the modules.
- *Chains.* The chain of n is no better than that of its peer m, or a chain as good as the
  one of n (or its last block) is on the way to m, or m has asked (`Agreement`). A node that
  handles a block takes its chain, or has a chain that is as good, or asks everybody
  (`AgreeBlocks`); a chain only gets better (`Improves`), and better is an order as long
  as the work fits an int (`BetterOrder`). All this needs that a node does not refuse what it
  is sent, although it validates it against its own clock: `ChainsInv` says that every chain
  was built of blocks that were valid when they were made (`Built`), at times that some
  clock has shown (`Past`). What is left are the three hypotheses below.
- *Connections.* The two sides take a connection up at different times, and who has taken it
  up may hear of changes of the other that were never announced to it. `Connections` says
  that until the other side takes it up too, the first side's own two questions are still in
  the queue: the answers will say it.

**The threads (`NodeThreadsProofs`).** `StepKinds` and `Effects` reduce the actions to those
that change a list, so that each invariant is checked against a few kinds of steps.
`MutexInv` says where the holder of the mutex can be; `OverlapInv` that two threads are in
the middle of the same change only if `overlapped` says so. With those, what a thread read
before its change is still so at the end of it: the pool the transaction was checked
against (`DoubleSpendInv`), the outputs the new ones were made of (`UtxoInv`).
`CoinbaseInv` holds with overlaps as well: a block keeps the coinbase it was validated with.
`StatsInv` says that a transaction of the pool has its time or a thread is between its two
steps for it. That the deletion of a time is always followed by the erasure of the same
transaction takes a pool in which no two transactions share an input (`DoubleSpendInv`):
`deleteStat` goes by the id, and of two equal transactions two threads could delete both
times and erase one. Hence `PoolHasStats` is about pools without such an overlap.

**The connection (`WebSocketsProofs`).** The messages of one direction are laid out on a
line, frame by frame (`Layout`), and every buffer holds a segment of that line (`At`). To
the server (`Reading`), the bytes on the way and those in `txbuf` are the rest of the line
from the place that the state of the connection says: at a header, after it, after the
length or after the mask of the next message. Once the server has stopped to read, in a
part of a payload, nothing is claimed but what it was given before; once a header was cut
in two, nothing is claimed about what the server is given (`UpInv` is under
`server.aligned`). What it then sends, answers to frames that nobody sent included, still
reaches the client as it was written: the section "After a header was cut in two" shows
that each of those reads only adds whole frames to what is written, or closes. To the
client (`Streaming`), `rxbuf` and the bytes on the way are the segment after what was
dispatched, and while the connection is up `sending` and `write_buffers` are the rest; the
list `W` of what was written has the messages of each thread in the order they were sent
(`Written`), and those that still wait in the io_service come after them (`Waiting`). So
every cut, every merge and every order of reads, writes and handlers keeps whole messages
whole. `W`, the line and the cuts are bound in the invariant, which is why TLC cannot
evaluate it: TLC checks `InOrder` itself. What a deleted connection does to the messages
that wait is taken as the loss of them (section 8), also in the proof.

**The wallet (`WalletFilesProofs`).** `WalletInv` says what the files may hold at each
place of the start. Its heart is `Kept`: a file of the private key, even an empty one,
comes with a complete public key of the same pair, unless a start has missed it. It holds
because the public key is saved first (`Saving`) and because a start that makes keys has
found no private file, or one that did not open, which `missed` records (`Making`); with
the other order of the two saves it fails. `missed` is reset when the new pair is complete:
from then on `Kept` holds again without exception. `RunsWithOwnPair` is about a disk that
has room; the other two hold even when it fills.

**The amounts (`AmountsProofs`).** `FloatExact` and `ReceivedExact` are the facts about the
formats: a float takes a unit that divides G, so a multiple of G comes out of a rounding,
an addition, a subtraction or a text as it is while it is below `Significands * G`.
`Totals(s, w, G)` gives the exact sums w of the beginnings of a list; `SumExact` says that
the sum of floats is the last of them. `WalletInv` is the inductive invariant: the nodes have
the same list, and its total is at most what was mined. A payment takes a part of the list
from the front and appends the difference (`TotalsPart`, `TotalsAppend`), so it never makes
the total larger, and that is why no sum ever needs more than `MaxCoins` coinbases
(`PaymentExact`). `WalletInv` binds w, so TLC checks the three properties themselves.

**Recursion.** The recursive functions (`UtxoAfter`, `updatePool`, `pow2`, `sum`,
the folds) are reasoned about through their recurrences, whose solutions exist and are unique
by arguments on a least counterexample (`NatMinimum`, `LeastNatural`, `LeastOf`), in
place of induction theorems with an operator parameter. The invariants were checked with TLC first: `IndInv` on the
instance of `SkanCoinCrash`, those of the threads on the instance of `NodeThreads`.

**Assumptions.** Those named in the modules: a positive coinbase (`CoinbaseAssumption`),
positive intervals (`IntervalAssumption`), nodes, threads and payments of the right shape
(`NodesAssumption`, `ThreadsAssumption`), payloads that are not empty
(`WebSocketsAssumption`), `None` and file contents told from what they must
differ from. Ideal hashes and signatures are part of the modules and so of the theorems.
Two more are hypotheses of single theorems:

- `NoneIsNoId` (`AlwaysPoolMinable`, `AlwaysUtxoIsUnspent`, `AlwaysSupplyConserved`,
  `AlwaysMinedBlockAccepted`): the empty string, which stands in the input of a coinbase,
  is no transaction's id. In the program an id is a SHA-256 digest of 64 characters; TLC
  uses a model value, which differs from every record.
- `TIMESTAMP_TOLERANCE > 0` (`AlwaysMinedBlockAccepted`; 60 in the code): with no tolerance a
  block found in the second it was begun would be refused.

`WorkFits` in `AlwaysMinedBlockAccepted` is needed: after an overflow a node may prefer a
chain whose first block lies in the future, whose time nobody checks, and its own blocks
are then too old for it. TLC checks `MinedBlockAccepted` without it on instances in which
the work fits anyhow.

Three more are hypotheses of `AlwaysPeersHoldBestChain`, which is false without them:

- `ClocksAgree`: the clocks of two nodes differ by less than `TIMESTAMP_TOLERANCE`. A node whose
  clock is further behind refuses a block for its timestamp, and nothing is sent again when
  its clock has caught up.
- `FirstBlocksOld`: no node would now generate a first block on which somebody has already built;
  the counterexample is in section 6. It holds as long as nobody mines on a first block
  before the clock of the node that made it has moved on, and fails when somebody does,
  whether a node restarts or not, though it takes a restart within that second to make
  peers differ. `Reborn` is what remains to be said of a node that restarts in its second when
  nobody has built on its block.
- `WorkFits`: without it "better" is no order, and a node may go back.

With them and without `MiningFrom`, TLC explored two million states of an instance with an
adjustment of the difficulty at every second block, a tolerance of 2 and chains of 3, before the
proof, and found no violation of `Agreement`, `Connections` and `Sharing`.

`Exact(G)` is the hypothesis of the theorems about amounts: a coinbase and what users type
are multiples of G, a text holds a multiple of G without rounding, and all that the owner
may earn is below `Significands * G`. With the code's formats and a coinbase of 10 it
holds for G = 1/64 of a coin and earnings below 2^18 coins: 1,000,000 / 64 is whole, and no
smaller binary fraction has a text of six digits. The instance of `AmountsExact` has G = 16
quanta, a quarter (`QuartersExact`, which TLC evaluates). Without it the three properties fail
(`Transactions.cpp:265` in section 6): a price of 0.1 is no such amount.

**Only model-checked.** Liveness (`MiningEnds`, `MessagesEnd`, `MessagesArrive`, `BrokenUnlisted`,
`StartEnds`), which is out of the prover's reach.

## 8. Not modelled, and why

- The vendored libraries (rapidjson, easyEcc, picosha2, and crow beyond its
  websocket connection) are most of the lines of the repository. They hold no state
  of the coin and are used through interfaces that the models take as ideal: a parsed
  message is the message, a signature verifies for its key, a digest is injective.
- Data races: two threads inside one `std::list` at a time have no defined outcome.
  `NodeThreads` makes one operation on one list one step, and of an iterator to an
  erased transaction has the end of the process or any place in the list.
- The life of a connection before its handshake has ended, and frames that neither end
  sends (ping and continuation; a close and a pong come only from a server that has
  misread a header, and are modelled). What the bytes after a header that was cut look
  like is abstracted: any kind of frame of any length may be seen in them.
- What happens in a deleted connection to which a message still waits in the
  io_service (`websocket.h:110`): undefined, here the message is lost.
- The contents of the statistics files, the getters and the answers to reads, on which
  no other state depends; what a file that does not open does to the threads is in
  `NodeThreads`.
- `deleteWallet`, which nothing calls; the arguments of the command line; the web
  application and the diagnostic client, which have no state of their own.
- Who gets a contended mutex.

## 9. What may be modelled or proved next

Every invariant and every action property that a run checks is stated by a theorem. Beyond
that: a line of three nodes as a run of its own, if its time can be brought down, and
the handshake of a websocket connection.

## 10. Running it

```
tlc -workers 2 -config SkanCoinPayments.cfg MCSkanCoin.tla
tlc -workers 2 -config ChainTransferSafe.cfg MCChainTransfer.tla
tlc -workers 2 -config Network.cfg MCNetwork.tla
tlc -workers 2 -config NodeThreads.cfg MCNodeThreads.tla
tlc -workers 2 -config WalletFiles.cfg MCWalletFiles.tla
tlc -workers 2 -config WebSockets.cfg MCWebSockets.tla
tlc -workers 2 -config AmountsExact.cfg MCAmounts.tla
tlapm BlocksProofs.tla
tlapm SkanCoinProofs.tla
tlapm ChainTransferProofs.tla
tlapm NetworkProofs.tla
tlapm NodeThreadsProofs.tla
tlapm WalletFilesProofs.tla
tlapm WebSocketsProofs.tla
tlapm AmountsProofs.tla
```
