----------------------------- MODULE WebSockets -----------------------------
(***************************************************************************)
(* One connection between two nodes: at one end a socket of easywsclient,  *)
(* which the client thread polls, at the other end a connection of crow,   *)
(* whose handlers run on the thread of an io_service.  The messages of     *)
(* Peer.cpp travel as frames, the frames as a stream of bytes that the     *)
(* network delivers in pieces of its own choice.                           *)
(*                                                                         *)
(* The bytes of a frame are grouped: the two bytes of the header ("head"), *)
(* a longer length ("length"), the mask ("mask", from client to server)    *)
(* and the payload, Size pieces of it ("data").  SkanCoin never closes a   *)
(* connection: it ends when a process or the network does, or after the    *)
(* server has read one byte of a header and taken what came next for what  *)
(* it is not.                                                              *)
(***************************************************************************)
EXTENDS Integers, Sequences, SequencesExt, FiniteSetsExt

\* Who sends: any thread of the client's node, the io_service of the server in
\* a handler, and the other threads of the server's node in a broadcast.
Sender == {"client", "io", "other"}

\* What the frames are.  Only crow sends a pong or a close, when it takes a frame
\* for a ping or a close.
Kind == {"text", "pong", "close"}

CONSTANTS
  Sizes,         \* the payloads that the messages of each sender have
  LongFrom,      \* the payloads from this one on need a longer length
  BufferSize,    \* of buffer_, the most that one read of a payload returns
  MaxSent        \* bound on the messages of each sender

ASSUME WebSocketsAssumption ==
  /\ Sizes \in [Sender -> SUBSET (Nat \ {0})] /\ LongFrom \in Nat /\ BufferSize \in Nat \ {0}
  /\ MaxSent \in [Sender -> Nat]

VARIABLES
  client,    \* the _RealWebSocket, and whether openedConnections lists it
  server,    \* the crow Connection, and whether receivedConnections lists it
  posted,    \* the messages of other threads that wait in the io_service
  toServer,  \* bytes on the way
  toClient,
  link,      \* both processes, the network and the two sockets are up
  sent,      \* the messages that each sender has sent, in order
  got        \* the payloads of the frames that each end has taken; the handler
             \* of the client is given those of text

vars == <<client, server, posted, toServer, toClient, link, sent, got>>

-----------------------------------------------------------------------------
(* Frames *)

Payload(m) == [i \in 1..m.size |-> [part |-> "data", of |-> m, at |-> i]]

\* build_header and sendData: a short payload has its length in the header.
Frame(m, mask) ==
  (IF m.size < LongFrom
   THEN <<[part |-> "head", size |-> m.size]>>
   ELSE <<[part |-> "head", size |-> -1], [part |-> "length", size |-> m.size]>>)
  \o (IF mask THEN <<[part |-> "mask"]>> ELSE <<>>)
  \o Payload(m)

\* A text of the server's handler that the client has not sent.
NotSent == <<>>

NextOfKind(sender, kind, sizes) ==
  {[by |-> sender, n |-> Len(sent[sender]) + 1, kind |-> kind, size |-> s] :
     s \in IF Len(sent[sender]) < MaxSent[sender] THEN sizes ELSE {}}

NextMessages(sender) == NextOfKind(sender, "text", Sizes[sender])

\* What crow sends of itself repeats the bytes that it took for a payload; how many
\* they are is left out.
NextControl(kind) == NextOfKind("io", kind, {1})

Recorded(m) == [sent EXCEPT ![m.by] = Append(@, m)]

-----------------------------------------------------------------------------
(* The socket of the client *)

HeaderLen(buf) == IF buf[1].size < 0 THEN 2 ELSE 1
FrameLen(buf)  == HeaderLen(buf) + buf[HeaderLen(buf)].size

\* Mutation: the handler gets what has arrived of the payload.
FrameThere_Header(buf) == buf # <<>> /\ Len(buf) > HeaderLen(buf)

\* A frame of the server, which has no mask, is there to its last byte.
FrameThere(buf) ==
  buf # <<>> /\ Len(buf) >= HeaderLen(buf) /\ Len(buf) >= FrameLen(buf)

\* poll takes what has come and gives the network what it accepts.  It comes
\* after the frames of the turn before have been dispatched.  A socket that is
\* closing is closed when it has nothing left to send.
Poll(received, accepted, failed) ==
  /\ client.listed /\ client.readyState # "CLOSED" /\ ~FrameThere(client.rxbuf)
  /\ failed => ~link /\ accepted = 0
  /\ LET closed == failed \/ /\ client.readyState = "CLOSING"
                             /\ accepted = Len(client.txbuf)
     IN  /\ client' = [client EXCEPT
              !.readyState = IF closed THEN "CLOSED" ELSE @,
              !.rxbuf = @ \o SubSeq(toClient, 1, received),
              !.txbuf = SubSeq(@, accepted + 1, Len(@))]
         /\ link' = (link /\ ~closed)
  /\ toClient' = SubSeq(toClient, received + 1, Len(toClient))
  /\ toServer' = toServer \o SubSeq(client.txbuf, 1, accepted)
  /\ UNCHANGED <<server, posted, sent, got>>

\* close, which a frame of that kind calls: what is sent later is dropped.
Close(c) ==
  IF c.readyState # "OPEN" THEN c
  ELSE [c EXCEPT !.readyState = "CLOSING",
                 !.txbuf = @ \o <<[part |-> "head", size |-> 0], [part |-> "mask"]>>]

\* _dispatchBinary after the poll, also of a socket that was found closed: the
\* handler is called for each frame that is there, a part of one is left.  A
\* pong is dropped.
Dispatch ==
  /\ FrameThere(client.rxbuf)
  /\ LET end     == Min({FrameLen(client.rxbuf), Len(client.rxbuf)})
         payload == SubSeq(client.rxbuf, HeaderLen(client.rxbuf) + 1, end)
     IN  /\ client' = [IF payload[1].of.kind = "close" THEN Close(client) ELSE client
              EXCEPT !.rxbuf = SubSeq(@, end + 1, Len(@))]
         /\ got' = [got EXCEPT !.client = Append(@, payload)]
  /\ UNCHANGED <<server, posted, toServer, toClient, link, sent>>

\* The network has what it likes.  It accepts all or nothing: of what it would
\* accept in part, the server may as well read that part only.
PollSome ==
  \E k \in 0..Len(toClient), j \in {0, Len(client.txbuf)}, c \in BOOLEAN : Poll(k, j, c)

\* clearClosedWs, at the next turn of the polling.
ClearClosed ==
  /\ client.listed /\ client.readyState = "CLOSED" /\ ~FrameThere(client.rxbuf)
  /\ client' = [client EXCEPT !.listed = FALSE]
  /\ UNCHANGED <<server, posted, toServer, toClient, link, sent, got>>

\* A handler or a broadcast of the client's node sends a message.
ClientSend ==
  \E m \in NextMessages("client") :
    /\ client.listed /\ client.readyState = "OPEN"
    /\ client' = [client EXCEPT !.txbuf = @ \o Frame(m, TRUE)]
    /\ sent' = Recorded(m)
    /\ UNCHANGED <<server, posted, toServer, toClient, link, got>>

-----------------------------------------------------------------------------
(* The connection of the server *)

do_write(s) ==
  IF s.writing THEN s
  ELSE [s EXCEPT !.sending = s.write_buffers, !.write_buffers = <<>>,
                 !.writing = TRUE]

\* Mutation: the close handler is called only before the deletion.
check_destroy_Late(s) ==
  IF s.writing \/ s.reading THEN s
  ELSE [s EXCEPT !.listed = FALSE, !.deleted = TRUE]

\* Mutation: the close handler is forgotten.
check_destroy_Silent(s) ==
  IF s.writing \/ s.reading THEN s ELSE [s EXCEPT !.deleted = TRUE]

\* The close handler takes the connection out of receivedConnections, the
\* destructor closes its socket.
check_destroy(s) ==
  LET unlisted == [s EXCEPT !.listed = FALSE]
  IN  IF s.writing \/ s.reading THEN unlisted
      ELSE [unlisted EXCEPT !.deleted = TRUE, !.open = FALSE]

\* send_text on the thread of the io_service.
WriteText(s, m) == do_write([s EXCEPT !.write_buffers = @ \o Frame(m, FALSE)])

\* send_text of another thread: dispatch leaves it to the io_service.
SendText ==
  \E m \in NextMessages("other") :
    /\ server.listed
    /\ posted' = Append(posted, m)
    /\ sent' = Recorded(m)
    /\ UNCHANGED <<client, server, toServer, toClient, link, got>>

\* The connection may be destroyed by then; what the program does with it is
\* undefined, here the message is lost.
RunPosted ==
  /\ posted # <<>>
  /\ posted' = Tail(posted)
  /\ server' = IF server.deleted THEN server ELSE WriteText(server, Head(posted))
  /\ UNCHANGED <<client, toServer, toClient, link, sent, got>>

\* The other side may find a part of it first, and the rest never.
WriteBuffers ==
  /\ server.writing /\ server.sending # <<>> /\ link
  /\ toClient' = toClient \o server.sending
  /\ server' = [server EXCEPT !.sending = <<>>]
  /\ UNCHANGED <<client, posted, toServer, link, sent, got>>

\* Mutation: what was queued during a write is left in the queue.
AfterWrite_Idle(s) == IF s.close_connection THEN check_destroy(s) ELSE s

AfterWrite(s) ==
  IF s.close_connection THEN check_destroy(s)
  ELSE [IF s.write_buffers # <<>> THEN do_write(s) ELSE s
          EXCEPT !.close_connection = s.has_sent_close]

WriteDone ==
  /\ server.writing /\ server.sending = <<>>
  /\ server' = AfterWrite([server EXCEPT !.writing = FALSE])
  /\ link' = (link /\ server'.open)
  /\ UNCHANGED <<client, posted, toServer, toClient, sent, got>>

WriteError ==
  /\ server.writing /\ ~link
  /\ server' = check_destroy([server EXCEPT
       !.writing = FALSE, !.sending = <<>>, !.close_connection = TRUE])
  /\ UNCHANGED <<client, posted, toServer, toClient, link, sent, got>>

\* A completed read of the next k pieces, after which the connection is s.
Read(k, s) ==
  /\ server.reading /\ server.open /\ Len(toServer) >= k
  /\ toServer' = SubSeq(toServer, k + 1, Len(toServer))
  /\ server' = s /\ link' = (link /\ s.open)
  /\ UNCHANGED <<client, posted, toClient>>

ReadHeader ==
  /\ server.aligned /\ server.state = "MiniHeader" /\ toServer # <<>>
  /\ Read(1, IF Head(toServer).size < 0
             THEN [server EXCEPT !.state = "Len"]
             ELSE [server EXCEPT !.state = "Mask",
                                 !.remaining_length = Head(toServer).size])
  /\ UNCHANGED <<sent, got>>

ReadLen ==
  /\ server.aligned /\ server.state = "Len" /\ toServer # <<>>
  /\ Read(1, [server EXCEPT !.state = "Mask",
                            !.remaining_length = Head(toServer).size])
  /\ UNCHANGED <<sent, got>>

ReadMask ==
  /\ server.aligned /\ server.state = "Mask"
  /\ Read(1, [server EXCEPT !.state = "Payload"])
  /\ UNCHANGED <<sent, got>>

\* What a read of the payload may return.
PayloadReads ==
  1..Min({server.remaining_length, BufferSize, Len(toServer)})

\* A part of the payload: the handler of the read asks for no further one.
ReadPartOfPayload ==
  \E k \in PayloadReads :
    /\ server.aligned /\ server.state = "Payload" /\ k < server.remaining_length
    /\ Read(k, [server EXCEPT !.fragment = @ \o SubSeq(toServer, 1, k),
                              !.remaining_length = @ - k, !.reading = FALSE])
    /\ UNCHANGED <<sent, got>>

\* The payload to its end: handle_fragment calls onmessage, which may send an
\* answer, and the next header is awaited.
ReadPayload ==
  /\ server.aligned /\ server.state = "Payload"
  /\ server.remaining_length \in PayloadReads
  /\ LET k    == server.remaining_length
         next == [server EXCEPT !.state = "MiniHeader", !.fragment = <<>>,
                                !.remaining_length = 0]
     IN  /\ \/ Read(k, next) /\ UNCHANGED sent
            \/ \E m \in NextMessages("io") :
                 Read(k, WriteText(next, m)) /\ sent' = Recorded(m)
         /\ got' = [got EXCEPT
              !.server = Append(@, server.fragment \o SubSeq(toServer, 1, k))]

\* The socket is closed after a failed read, or a header without a mask.
CloseSocket(s) ==
  [s EXCEPT !.reading = FALSE, !.close_connection = TRUE, !.open = FALSE]

\* The handlers for the mask and for the payload do not check_destroy.
ReadError ==
  /\ server.reading /\ ~link
  /\ server' = IF server.state \in {"MiniHeader", "Len"}
               THEN check_destroy(CloseSocket(server)) ELSE CloseSocket(server)
  /\ UNCHANGED <<client, posted, toServer, toClient, link, sent, got>>

-----------------------------------------------------------------------------
(* Frames that nobody sent *)

\* A header that is not the one that was sent either has a mask after it or not.
AnyHeader(s) == {[s EXCEPT !.state = "Mask"], check_destroy(CloseSocket(s))}

\* async_read_some of the two bytes of a header returns one of them, when a
\* segment of TCP ends between the two.  The byte that the header before has left
\* in mini_header_ stands for the other one: a text of length 1 (before the first
\* header any byte may be there).  From here on the bytes that are read are not
\* those of the field they are taken for.
ReadHalfHeader ==
  /\ server.aligned /\ server.state = "MiniHeader" /\ toServer # <<>>
  /\ \E s \in AnyHeader([server EXCEPT !.aligned = FALSE]) : Read(1, s)
  /\ UNCHANGED <<sent, got>>

\* The next header, with the longer length that it may seem to have, is any bytes
\* that follow; a piece that it ends within counts as read with the fields after
\* it.  Each header takes one piece at least.
ReadMisaligned ==
  \E k \in 1..Len(toServer), s \in AnyHeader(server) :
    /\ ~server.aligned /\ server.state = "MiniHeader"
    /\ Read(k, s)
    /\ UNCHANGED <<sent, got>>

\* The first frame that is taken for a close is answered by one: the close handler
\* is called, and the connection is to end after the write.
FirstClose(s, m) ==
  WriteText([s EXCEPT !.listed = FALSE, !.has_sent_close = TRUE], m)

\* On the next one the connection may be destroyed at once, and is still used,
\* which is undefined: here nothing is done with it.
NextClose(s) ==
  LET closed == check_destroy(CloseSocket(s))
  IN  IF closed.deleted THEN closed ELSE [closed EXCEPT !.reading = TRUE]

\* The mask and the payload, of any bytes: a part of the payload, after which no
\* more is read, or handle_fragment with a frame of any kind: one that is ignored,
\* a text, which may even be answered, a ping or a close.  The first text that
\* nobody sent is recorded for all of them.
ReadMisalignedPayload ==
  \E k \in 0..Len(toServer) :
    /\ ~server.aligned /\ server.state = "Mask"
    /\ LET next == [server EXCEPT !.state = "MiniHeader"]
           text == IF NotSent \in Range(got.server) THEN got
                   ELSE [got EXCEPT !.server = Append(@, NotSent)]
       IN  \/ /\ Read(k, [server EXCEPT !.state = "Payload", !.reading = FALSE])
              /\ UNCHANGED <<sent, got>>
           \/ Read(k, next) /\ UNCHANGED sent /\ got' \in {got, text}
           \/ \E m \in NextMessages("io") :
                Read(k, WriteText(next, m)) /\ sent' = Recorded(m) /\ got' = text
           \/ \E m \in NextControl("pong") :
                Read(k, WriteText(next, m)) /\ sent' = Recorded(m) /\ UNCHANGED got
           \/ \E m \in NextControl("close") :
                /\ ~server.has_sent_close
                /\ Read(k, FirstClose(next, m)) /\ sent' = Recorded(m) /\ UNCHANGED got
           \/ /\ server.has_sent_close
              /\ Read(k, NextClose(next)) /\ UNCHANGED <<sent, got>>

-----------------------------------------------------------------------------
\* A process ends, or the network between the two fails.
Break ==
  /\ link
  /\ link' = FALSE
  /\ UNCHANGED <<client, server, posted, toServer, toClient, sent, got>>

\* After the handshake and the first queries.
Init ==
  /\ client = [readyState |-> "OPEN", rxbuf |-> <<>>, txbuf |-> <<>>,
               listed |-> TRUE]
  /\ server = [state |-> "MiniHeader", remaining_length |-> 0, fragment |-> <<>>,
               reading |-> TRUE, writing |-> FALSE, sending |-> <<>>,
               write_buffers |-> <<>>, close_connection |-> FALSE,
               has_sent_close |-> FALSE, open |-> TRUE, aligned |-> TRUE,
               listed |-> TRUE, deleted |-> FALSE]
  /\ posted = <<>> /\ toServer = <<>> /\ toClient = <<>>
  /\ link = TRUE
  /\ sent = [s \in Sender |-> <<>>]
  /\ got = [client |-> <<>>, server |-> <<>>]

\* What the io_service runs.
IoStep ==
  \/ RunPosted
  \/ WriteBuffers \/ WriteDone \/ WriteError
  \/ ReadHeader \/ ReadLen \/ ReadMask \/ ReadPartOfPayload \/ ReadPayload
  \/ ReadError \/ ReadHalfHeader \/ ReadMisaligned \/ ReadMisalignedPayload

Next ==
  \/ PollSome \/ Dispatch \/ ClearClosed \/ ClientSend
  \/ SendText \/ IoStep \/ Break

Spec == Init /\ [][Next]_vars

\* The client thread polls for ever and the io_service runs what is ready;
\* the network delivers what it has accepted, and reports in the end that the
\* other side is gone.
FairSpec ==
  /\ Spec
  /\ WF_vars(Poll(Len(toClient), Len(client.txbuf), FALSE))
  /\ WF_vars(\E k \in 0..Len(toClient) : Poll(k, 0, TRUE))
  /\ WF_vars(Dispatch)
  /\ WF_vars(ClearClosed)
  /\ WF_vars(IoStep)

-----------------------------------------------------------------------------
(* Properties *)

PayloadsOf(messages) == [i \in DOMAIN messages |-> Payload(messages[i])]

\* What the client's handler was given from this thread.
GotFrom(sender) ==
  LET from[i \in 0..Len(got.client)] ==
        IF i = 0 THEN <<>>
        ELSE IF got.client[i][1].of.by = sender THEN Append(from[i - 1], got.client[i])
             ELSE from[i - 1]
  IN  from[Len(got.client)]

\* However the bytes are buffered, merged and cut on the way, the handlers are
\* given what was sent, whole, once and in order; that of the server only until a
\* header is cut in two (websocket.h:185), after which it may be given anything,
\* and the client is still given what the server sends.  The server's node has the
\* order only per thread: an answer that the io_service sends at once overtakes
\* the broadcasts that wait in it.
InOrder ==
  /\ server.aligned => IsPrefix(got.server, PayloadsOf(sent["client"]))
  /\ \A s \in {"io", "other"} : IsPrefix(GotFrom(s), PayloadsOf(sent[s]))

\* A connection that has been destroyed is in no list: broadcast
\* (Peer.cpp:574-577) walks receivedConnections without asking.
DestroyedUnlisted == server.deleted => ~server.listed

\* While the connection is up and no header has been cut (websocket.h:185), every
\* broadcast and answer of the server arrives, and every message of the client if
\* the server still reads: a payload that comes in two parts (websocket.h:346)
\* stops that, which nobody notices.
MessagesArrive ==
  []<>(link /\ server.aligned =>
         /\ server.reading => Len(got.server) = Len(sent["client"])
         /\ Len(got.client) = Len(sent["io"]) + Len(sent["other"]))

\* A connection that is broken, or that the server has closed over a header it
\* misread, leaves the list of the client, and that of the server once there is
\* something to write to it: no node goes on broadcasting to it.
BrokenUnlisted ==
  /\ ~link ~> ~client.listed
  /\ (~link /\ server.sending # <<>>) ~> ~server.listed
=============================================================================
