---------------------------- MODULE ChainTransfer ----------------------------
(***************************************************************************)
(* How a chain travels.  SkanCoin lets a node receive a whole chain at     *)
(* once; here the answer to QUERY_BLOCKCHAIN is one message per block, and *)
(* the receiver collects the blocks in a list per sender, which it hands   *)
(* to newBlocksHandler when a block comes that is marked as the last.      *)
(*                                                                         *)
(* The loop that sends the blocks runs in a peer thread, which holds       *)
(* connectionsMtx, so the node handles no other message meanwhile; but the *)
(* HTTP thread adds mined blocks without that lock, and the mark is set by *)
(* comparing each block with the latest block of that moment.              *)
(***************************************************************************)
EXTENDS SkanCoin

CONSTANTS
  Connections,    \* the web sockets: records with two nodes, from and to, and
                  \* a number; the same pair may be connected more than once
  MaxTransfers    \* bound: no more queries for the whole chain than this

ASSUME ConnectionsAssumption ==
  /\ \A k \in Connections : k.from \in Nodes /\ k.to \in Nodes /\ k.from # k.to
  /\ MaxTransfers \in Nat

VARIABLES
  inTransit,       \* the messages on each connection, oldest first
  sending,         \* the loop of sendBlockChain of each node, or None
  oncomingChains,  \* at each node, the list of blocks collected from each
                   \* wallet; the empty list when there is none
  transfers        \* how many queries have been answered

transferVars == <<inTransit, sending, oncomingChains, transfers>>

-----------------------------------------------------------------------------
\* QUERY_BLOCKCHAIN: a peer thread starts to send a copy of the chain.
StartSending(k) ==
  /\ sending[k.from] = None
  /\ transfers < MaxTransfers
  /\ transfers' = transfers + 1
  /\ sending' = [sending EXCEPT ![k.from] = [connection |-> k, rest |-> chain[k.from]]]
  /\ UNCHANGED <<inTransit, oncomingChains>>
  /\ UNCHANGED vars

\* The next block of the loop: the last one is the one whose index is that of
\* the latest block now.
SendBlock(n) ==
  /\ sending[n] # None
  /\ LET k == sending[n].connection
         b == Head(sending[n].rest)
         remaining == Tail(sending[n].rest)
     IN  /\ inTransit' = [inTransit EXCEPT ![k] =
              Append(@, [block |-> b,
                         isLast |-> b.index = getLatestBlock(chain[n]).index])]
         /\ sending' = [sending EXCEPT ![n] =
              IF remaining = <<>> THEN None ELSE [@ EXCEPT !.rest = remaining]]
  /\ UNCHANGED <<oncomingChains, transfers>>
  /\ UNCHANGED vars

\* The list would replace the local chain and is not valid: replaceChain
\* throws, and so does newBlocksHandler.
newBlocksHandlerThrows(n, blocks) ==
  /\ calculateHash(getLatestBlock(blocks)) # calculateHash(getLatestBlock(chain[n]))
  /\ isBetterChain(blocks, chain[n])
  /\ ~isBlockchainValid(blocks, n, clock[n])

\* Mutation: the list is taken as it is, without a comparison or validation.
HandOver_Trusting(n, wallet, blocks) ==
  /\ HoldChain(n, blocks, UtxoAfter(blocks)[Len(blocks)])
  /\ oncomingChains' = [oncomingChains EXCEPT ![n][wallet] = <<>>]
  /\ UNCHANGED <<mining, clock, sentTransactions>>

\* The collected list goes to newBlocksHandler and is then erased, unless an
\* exception gets in the way; a list of one block was never stored.
HandOver(n, wallet, blocks) ==
  \/ /\ ReceiveBlockchain(n, blocks)
     /\ oncomingChains' = [oncomingChains EXCEPT ![n][wallet] = <<>>]
  \/ /\ newBlocksHandlerThrows(n, blocks)
     /\ oncomingChains' = [oncomingChains EXCEPT ![n][wallet] =
                              IF Len(blocks) = 1 THEN <<>> ELSE blocks]
     /\ UNCHANGED vars
  \/ /\ ~isBetterChain(blocks, chain[n])
        \/ calculateHash(getLatestBlock(blocks)) = calculateHash(getLatestBlock(chain[n]))
     /\ oncomingChains' = [oncomingChains EXCEPT ![n][wallet] = <<>>]
     /\ UNCHANGED vars

\* RESPONSE_BLOCKCHAIN: handleBlockchainResponse.
ReceiveBlock(k) ==
  /\ inTransit[k] # <<>>
  /\ sending[k.to] = None
  /\ LET m      == Head(inTransit[k])
         known  == oncomingChains[k.to][k.from] # <<>>
         blocks == Append(oncomingChains[k.to][k.from], m.block)
     IN  \/ /\ ~known /\ m.block.index # 0
            /\ UNCHANGED oncomingChains /\ UNCHANGED vars
         \/ /\ known \/ m.block.index = 0
            /\ ~m.isLast
            /\ oncomingChains' = [oncomingChains EXCEPT ![k.to][k.from] = blocks]
            /\ UNCHANGED vars
         \/ /\ known \/ m.block.index = 0
            /\ m.isLast
            /\ HandOver(k.to, k.from, blocks)
  /\ inTransit' = [inTransit EXCEPT ![k] = Tail(@)]
  /\ UNCHANGED <<sending, transfers>>

\* A crash closes the connections of the node: what is in transit is lost, and
\* what a peer has left to send to it goes nowhere.
RestartAndReconnect(n) ==
  /\ n \in Crashing
  /\ Restart(n)
  /\ inTransit' = [k \in Connections |->
                     IF n \in {k.from, k.to} THEN <<>> ELSE inTransit[k]]
  /\ sending' = [m \in Nodes |->
                   IF sending[m] # None /\ n \in {m, sending[m].connection.to}
                   THEN None ELSE sending[m]]
  /\ oncomingChains' = [oncomingChains EXCEPT ![n] = [m \in Nodes |-> <<>>]]
  /\ UNCHANGED transfers

-----------------------------------------------------------------------------
TransferInit ==
  /\ Init
  /\ inTransit = [k \in Connections |-> <<>>]
  /\ sending = [n \in Nodes |-> None]
  /\ oncomingChains = [n \in Nodes |-> [m \in Nodes |-> <<>>]]
  /\ transfers = 0

\* A node whose peer thread is in the loop handles no other message.
OtherMessages(n) ==
  /\ sending[n] = None
  /\ \/ \E c \in sentChains : ReceiveLatest(n, c)
     \/ \E t \in sentTransactions : ReceivePool(n, t)

TransferNext ==
  \/ \E k \in Connections : StartSending(k) \/ ReceiveBlock(k)
  \/ \E n \in Nodes : SendBlock(n) \/ RestartAndReconnect(n)
  \/ /\ \E n \in Nodes : UserStep(n) \/ OtherMessages(n) \/ Tick(n)
     /\ UNCHANGED transferVars

TransferSpec == TransferInit /\ [][TransferNext]_<<vars, transferVars>>

-----------------------------------------------------------------------------
(* Properties *)

\* Whatever is lost, mixed up or left over in the lists of blocks, a node only
\* ever takes up a chain that some node held as a whole: the transfer block by
\* block implements the receipt of whole chains in SkanCoin.
DeliversWholeChains == Spec

\* When the last block of a chain that the receiver would prefer and finds
\* valid has come, the receiver holds that chain or a better one.
WholeChainCompared ==
  [][\A k \in Connections :
       ReceiveBlock(k) /\ Head(inTransit[k]).isLast
         => \A c \in sentChains :
              /\ getLatestBlock(c) = Head(inTransit[k]).block
              /\ isBlockchainValid(c, k.to, clock[k.to])
              => ~isBetterChain(c, chain'[k.to])]_<<vars, transferVars>>
=============================================================================
