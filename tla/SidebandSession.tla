--------------------------- MODULE SidebandSession ---------------------------
(***************************************************************************)
(* The sending half of one client session (src/src/SidebandSession.cpp):   *)
(* a non-blocking TCP socket, the byte queue m_sendQueue behind the mutex  *)
(* m_sendMutex, and the threads that use them.                             *)
(*                                                                         *)
(*   CursorThread    SendCursor, with the per-session cursor cache         *)
(*   TextThread      SendTextCursorState                                   *)
(*   CommandThreads  SendCommand: the display and audio monitors and the   *)
(*                   server's main loop (ServerThread)                     *)
(*   ServerThread    also FlushSendQueue, TryReceive's verdicts and Close  *)
(*                                                                         *)
(* A packet on the stream is a run of numbered bytes, so that the model    *)
(* can tell a whole packet from a torn one.  wire is the history of every  *)
(* byte send() has accepted; the kernel buffer holds those the client has  *)
(* not read.                                                               *)
(***************************************************************************)
EXTENDS Integers, Sequences, FiniteSets

CONSTANTS
    CursorThread, TextThread, ServerThread,
    CommandThreads,     \* threads that call SendCommand, ServerThread included
    NoThread,           \* the value of lock when m_sendMutex is free
    Hashes,             \* the cursor hashes the worker broadcasts
    LenOf,              \* packet kind -> its length in bytes
    MaxSendQueue,       \* MAX_SEND_QUEUE_BYTES
    MaxCached,          \* the 100 of SendCursor's cache limit
    SockBuf,            \* capacity of the kernel's send buffer
    MaxPackets          \* bound on the packets built in one behaviour

Threads == {CursorThread, TextThread} \cup CommandThreads

Kinds == {"full", "short", "text", "cmd"}

ASSUME ThreadsAssumption ==
    /\ ServerThread \in CommandThreads
    /\ CursorThread \notin CommandThreads
    /\ TextThread \notin CommandThreads
    /\ CursorThread # TextThread
    /\ NoThread \notin Threads

ASSUME SizesAssumption ==
    /\ Hashes \subseteq Nat
    /\ LenOf \in [Kinds -> Nat \ {0}]
    /\ MaxSendQueue \in Nat
    /\ MaxCached \in Nat
    /\ SockBuf \in Nat
    /\ MaxPackets \in Nat

VARIABLES
    connected,      \* m_connected
    sockOpen,       \* m_socket # INVALID_SOCKET
    peerGone,       \* the peer reset the connection: send() fails from now on
    sendQueue,      \* m_sendQueue
    wire,           \* every byte send() has accepted, in order
    taken,          \* how many of them the client has read
    lock,           \* the holder of m_sendMutex, or NoThread
    pc,             \* where each thread is
    packet,         \* the packet each thread is sending
    offset,         \* how much of it send() has accepted
    cachedHashes,   \* m_cachedHashes
    lastSentHash,   \* m_lastSentHash
    built           \* packets built so far

netVars    == <<peerGone, taken>>
cacheVars  == <<cachedHashes, lastSentHash>>
vars == <<connected, sockOpen, netVars, sendQueue, wire, lock, pc, packet,
          offset, cacheVars, built>>

-----------------------------------------------------------------------------
(* Packets and bytes. *)

Packet == [id : Nat, kind : Kinds, hash : Nat]

Byte == [pkt : Packet, at : Nat]

Size(p) == LenOf[p.kind]

Bytes(p) == [i \in 1..Size(p) |-> [pkt |-> p, at |-> i]]

\* Cursor and text frames may be dropped whole; commands may not.
Droppable(p) == p.kind # "cmd"

NoPacket == [id |-> 0, kind |-> "cmd", hash |-> 0]

\* packet.begin() + offset .. packet.end()
Remainder(t) == SubSeq(Bytes(packet[t]), offset[t] + 1, Size(packet[t]))

Alive == sockOpen /\ ~peerGone

Room == SockBuf - (Len(wire) - taken)

PCs == {"idle",         \* not inside the session
        "wait",         \* in SendOrQueue, waiting for m_sendMutex
        "flush",        \* holding it, emptying the queue ahead of its packet
        "direct",       \* holding it, sending its packet
        "account",      \* the packet was delivered, SendCursor books it
        "flushWait",    \* FlushSendQueue, waiting for m_sendMutex
        "flushOnly",    \* FlushSendQueue, holding it
        "closing",      \* Close, waiting for m_sendMutex
        "closed"}       \* Close has returned

Init ==
    /\ connected = TRUE
    /\ sockOpen = TRUE
    /\ peerGone = FALSE
    /\ sendQueue = <<>>
    /\ wire = <<>>
    /\ taken = 0
    /\ lock = NoThread
    /\ pc = [t \in Threads |-> "idle"]
    /\ packet = [t \in Threads |-> NoPacket]
    /\ offset = [t \in Threads |-> 0]
    /\ cachedHashes = {}
    /\ lastSentHash = 0
    /\ built = 0

-----------------------------------------------------------------------------
(* Callers: the test of m_connected, then the packet.  A caller that finds  *)
(* the session disconnected returns without a trace.                        *)

Build(t, kind, hash) ==
    /\ pc[t] = "idle"
    /\ connected
    /\ built < MaxPackets
    /\ built' = built + 1
    /\ packet' = [packet EXCEPT ![t] =
                    [id |-> built + 1, kind |-> kind, hash |-> hash]]
    /\ offset' = [offset EXCEPT ![t] = 0]
    /\ pc' = [pc EXCEPT ![t] = "wait"]
    /\ UNCHANGED <<connected, sockOpen, netVars, sendQueue, wire, lock, cacheVars>>

\* Variant: any frame makes the client's cache known, not the frame itself.
CursorKindOnceAny(h) == IF cachedHashes # {} THEN "short" ELSE "full"

CursorKind(h) == IF h \in cachedHashes THEN "short" ELSE "full"

SendCursor(h) ==
    /\ lastSentHash # h
    /\ Build(CursorThread, CursorKind(h), h)

SendTextCursorState == Build(TextThread, "text", 0)

SendCommand(t) == Build(t, "cmd", 0)

-----------------------------------------------------------------------------
(* SendOrQueue and FlushSendQueueLocked, one action per call of send(). *)

\* Variant: the packet does not wait for the queue ahead of it.
AcquireJumpsQueue(t) ==
    /\ pc[t] = "wait"
    /\ lock = NoThread
    /\ lock' = t
    /\ pc' = [pc EXCEPT ![t] = "direct"]
    /\ UNCHANGED <<connected, sockOpen, netVars, sendQueue, wire, packet, offset,
                   cacheVars, built>>

Acquire(t) ==
    /\ pc[t] = "wait"
    /\ lock = NoThread
    /\ lock' = t
    /\ pc' = [pc EXCEPT ![t] = IF sendQueue # <<>> THEN "flush" ELSE "direct"]
    /\ UNCHANGED <<connected, sockOpen, netVars, sendQueue, wire, packet, offset,
                   cacheVars, built>>

\* Variant: a frame is booked whether or not it was delivered.
AfterSendBooksAll(t, delivered) ==
    IF t = CursorThread THEN "account" ELSE "idle"

\* Where a thread goes when it gives the mutex back.
AfterSend(t, delivered) ==
    IF delivered /\ t = CursorThread THEN "account" ELSE "idle"

Release(t, delivered) ==
    /\ lock' = NoThread
    /\ pc' = [pc EXCEPT ![t] = AfterSend(t, delivered)]

\* send() takes the first k queued bytes.
FlushSent(t) ==
    /\ pc[t] \in {"flush", "flushOnly"}
    /\ Alive
    /\ \E k \in 1..Len(sendQueue) :
        /\ k <= Room
        /\ wire' = wire \o SubSeq(sendQueue, 1, k)
        /\ sendQueue' = SubSeq(sendQueue, k + 1, Len(sendQueue))
        /\ \/ k < Len(sendQueue) /\ UNCHANGED <<lock, pc>>
           \/ /\ k = Len(sendQueue)
              /\ pc[t] = "flush"
              /\ pc' = [pc EXCEPT ![t] = "direct"]
              /\ UNCHANGED lock
           \/ /\ k = Len(sendQueue)
              /\ pc[t] = "flushOnly"
              /\ Release(t, FALSE)
    /\ UNCHANGED <<connected, sockOpen, netVars, packet, offset, cacheVars, built>>

\* send() fails for good while the queue is being flushed.
FlushFailed(t) ==
    /\ pc[t] \in {"flush", "flushOnly"}
    /\ ~Alive
    /\ connected' = FALSE
    /\ sendQueue' = <<>>
    /\ Release(t, FALSE)
    /\ UNCHANGED <<sockOpen, netVars, wire, packet, offset, cacheVars, built>>

\* send() takes the next k bytes of the packet itself.
DirectSent(t) ==
    /\ pc[t] = "direct"
    /\ Alive
    /\ \E k \in 1..Len(Remainder(t)) :
        /\ k <= Room
        /\ wire' = wire \o SubSeq(Remainder(t), 1, k)
        /\ offset' = [offset EXCEPT ![t] = @ + k]
        /\ \/ k < Len(Remainder(t)) /\ UNCHANGED <<lock, pc>>
           \/ k = Len(Remainder(t)) /\ Release(t, TRUE)
    /\ UNCHANGED <<connected, sockOpen, netVars, sendQueue, packet, cacheVars, built>>

DirectFailed(t) ==
    /\ pc[t] = "direct"
    /\ ~Alive
    /\ connected' = FALSE
    /\ Release(t, FALSE)
    /\ UNCHANGED <<sockOpen, netVars, sendQueue, wire, packet, offset, cacheVars, built>>

\* send() would block.
Blocked == Alive /\ Room = 0

\* Variant: a frame is dropped even when part of it has been written.
MayDropTorn(t) == Droppable(packet[t])

MayDrop(t) == Droppable(packet[t]) /\ offset[t] = 0

\* Variant: the limit is tested before the packet is added.
FitsBefore(t) == Len(sendQueue) <= MaxSendQueue

Fits(t) == Len(sendQueue) + Len(Remainder(t)) <= MaxSendQueue

\* A droppable packet of which nothing has been written is dropped.
Drop(t) ==
    /\ pc[t] \in {"flush", "direct"}
    /\ Blocked
    /\ MayDrop(t)
    /\ Release(t, FALSE)
    /\ UNCHANGED <<connected, sockOpen, netVars, sendQueue, wire, packet, offset,
                   cacheVars, built>>

\* Anything else is queued, and counts as delivered ...
Enqueue(t) ==
    /\ pc[t] \in {"flush", "direct"}
    /\ Blocked
    /\ ~MayDrop(t)
    /\ Fits(t)
    /\ sendQueue' = sendQueue \o Remainder(t)
    /\ Release(t, TRUE)
    /\ UNCHANGED <<connected, sockOpen, netVars, wire, packet, offset, cacheVars, built>>

\* ... unless the queue would pass its limit: the client has stalled.
Overflow(t) ==
    /\ pc[t] \in {"flush", "direct"}
    /\ Blocked
    /\ ~MayDrop(t)
    /\ ~Fits(t)
    /\ connected' = FALSE
    /\ sendQueue' = <<>>
    /\ Release(t, FALSE)
    /\ UNCHANGED <<sockOpen, netVars, wire, packet, offset, cacheVars, built>>

\* SendCursor books a delivered frame: a full one enters the cache set, which
\* is emptied when it passes its limit.
Account ==
    LET sent  == packet[CursorThread]
        grown == cachedHashes \cup {sent.hash}
    IN  /\ pc[CursorThread] = "account"
        /\ pc' = [pc EXCEPT ![CursorThread] = "idle"]
        /\ \/ /\ sent.kind = "short"
              /\ lastSentHash' = sent.hash
              /\ UNCHANGED cachedHashes
           \/ /\ sent.kind = "full"
              /\ Cardinality(grown) <= MaxCached
              /\ cachedHashes' = grown
              /\ lastSentHash' = sent.hash
           \/ /\ sent.kind = "full"
              /\ Cardinality(grown) > MaxCached
              /\ cachedHashes' = {}
              /\ lastSentHash' = 0
        /\ UNCHANGED <<connected, sockOpen, netVars, sendQueue, wire, lock, packet,
                       offset, built>>

-----------------------------------------------------------------------------
(* The main loop: flush on POLLWRNORM, a receive that ends the connection,  *)
(* Close.                                                                   *)

\* Variant: POLLWRNORM is requested when there is nothing to write.
PollWritableInverted ==
    /\ pc[ServerThread] = "idle"
    /\ connected
    /\ lock = NoThread
    /\ sendQueue = <<>>
    /\ Room > 0 \/ peerGone
    /\ pc' = [pc EXCEPT ![ServerThread] = "flushWait"]
    /\ UNCHANGED <<connected, sockOpen, netVars, sendQueue, wire, lock, packet, offset,
                   cacheVars, built>>

\* HasQueuedData asked for POLLWRNORM and WSAPoll reported it.
PollWritable ==
    /\ pc[ServerThread] = "idle"
    /\ connected
    /\ lock = NoThread
    /\ sendQueue # <<>>
    /\ Room > 0 \/ peerGone
    /\ pc' = [pc EXCEPT ![ServerThread] = "flushWait"]
    /\ UNCHANGED <<connected, sockOpen, netVars, sendQueue, wire, lock, packet, offset,
                   cacheVars, built>>

\* FlushSendQueue: the test of m_connected came before, the mutex is taken
\* now; a queue that somebody else has emptied ends it at once.
AcquireFlush ==
    /\ pc[ServerThread] = "flushWait"
    /\ lock = NoThread
    /\ \/ /\ sendQueue = <<>>
          /\ pc' = [pc EXCEPT ![ServerThread] = "idle"]
          /\ UNCHANGED lock
       \/ /\ sendQueue # <<>>
          /\ pc' = [pc EXCEPT ![ServerThread] = "flushOnly"]
          /\ lock' = ServerThread
    /\ UNCHANGED <<connected, sockOpen, netVars, sendQueue, wire, packet, offset,
                   cacheVars, built>>

\* The flush that would block: FlushSendQueue leaves the rest for later.
FlushBlocked ==
    /\ pc[ServerThread] = "flushOnly"
    /\ Blocked
    /\ Release(ServerThread, FALSE)
    /\ UNCHANGED <<connected, sockOpen, netVars, sendQueue, wire, packet, offset,
                   cacheVars, built>>

\* TryReceive and ProcessRxBuffer find the connection over: recv() returned 0
\* or an error, or the input broke a size limit.
ReceiveEnds ==
    /\ pc[ServerThread] = "idle"
    /\ connected
    /\ connected' = FALSE
    /\ UNCHANGED <<sockOpen, netVars, sendQueue, wire, lock, pc, packet, offset,
                   cacheVars, built>>

\* Close, from ReapDisconnected or, on a live session, from HandleAuth.
Close ==
    /\ pc[ServerThread] = "idle"
    /\ connected' = FALSE
    /\ pc' = [pc EXCEPT ![ServerThread] = "closing"]
    /\ UNCHANGED <<sockOpen, netVars, sendQueue, wire, lock, packet, offset,
                   cacheVars, built>>

CloseSocket ==
    /\ pc[ServerThread] = "closing"
    /\ lock = NoThread
    /\ sockOpen' = FALSE
    /\ sendQueue' = <<>>
    /\ pc' = [pc EXCEPT ![ServerThread] = "closed"]
    /\ UNCHANGED <<connected, netVars, wire, lock, packet, offset, cacheVars, built>>

-----------------------------------------------------------------------------
(* The environment: the client's end of the connection. *)

ClientReads ==
    /\ ~peerGone
    /\ taken < Len(wire)
    /\ taken' = taken + 1
    /\ UNCHANGED <<connected, sockOpen, peerGone, sendQueue, wire, lock, pc, packet,
                   offset, cacheVars, built>>

PeerResets ==
    /\ ~peerGone
    /\ peerGone' = TRUE
    /\ UNCHANGED <<connected, sockOpen, taken, sendQueue, wire, lock, pc, packet,
                   offset, cacheVars, built>>

-----------------------------------------------------------------------------

CursorWorker == (\E h \in Hashes : SendCursor(h)) \/ Account

SendStep(t) ==
    \/ Acquire(t)
    \/ FlushSent(t) \/ FlushFailed(t)
    \/ DirectSent(t) \/ DirectFailed(t)
    \/ Drop(t) \/ Enqueue(t) \/ Overflow(t)

MainLoop ==
    \/ PollWritable \/ AcquireFlush \/ FlushBlocked
    \/ ReceiveEnds \/ Close \/ CloseSocket

Next ==
    \/ CursorWorker
    \/ SendTextCursorState
    \/ \E t \in CommandThreads : SendCommand(t)
    \/ \E t \in Threads : SendStep(t)
    \/ MainLoop
    \/ ClientReads
    \/ PeerResets

Spec == Init /\ [][Next]_vars

\* ReapDisconnected runs in every round of the main loop.
Reap == ~connected /\ Close

\* The threads run: whoever is inside the session, and the main loop, keep
\* going, and a client that has not gone away reads what it is sent.
Fairness ==
    /\ \A t \in Threads : WF_vars(SendStep(t))
    /\ WF_vars(Account)
    /\ WF_vars(PollWritable) /\ WF_vars(AcquireFlush) /\ WF_vars(FlushBlocked)
    /\ WF_vars(Reap) /\ WF_vars(CloseSocket)
    /\ WF_vars(ClientReads)

FairSpec == Spec /\ Fairness

-----------------------------------------------------------------------------
(* The stream: what the client has or will get.  A packet joins it when its *)
(* first byte is written or when it is queued.                              *)

Pending ==
    IF lock # NoThread /\ pc[lock] = "direct" /\ offset[lock] > 0
    THEN Remainder(lock) ELSE <<>>

Stream == (wire \o sendQueue) \o Pending

First(b) == b.at = 1
Last(b)  == b.at = Size(b.pkt)

\* b is the byte after a in one packet.
Follows(a, b) == b.pkt = a.pkt /\ b.at = a.at + 1

\* Whole packets, one after the other.
WellFramed(s) ==
    \A j \in 1..Len(s) :
        /\ First(s[j]) \/ (j > 1 /\ Follows(s[j-1], s[j]))
        /\ Last(s[j]) \/ (j < Len(s) /\ Follows(s[j], s[j+1]))

-----------------------------------------------------------------------------
(* Properties. *)

\* Every variable keeps to its type; an offset stays inside its packet and the
\* kernel holds no more than its buffer.
TypeOK ==
    /\ connected \in BOOLEAN /\ sockOpen \in BOOLEAN /\ peerGone \in BOOLEAN
    /\ sendQueue \in Seq(Byte)
    /\ wire \in Seq(Byte)
    /\ taken \in Nat /\ taken <= Len(wire) /\ Len(wire) - taken <= SockBuf
    /\ lock \in Threads \cup {NoThread}
    /\ pc \in [Threads -> PCs]
    /\ packet \in [Threads -> Packet]
    /\ offset \in [Threads -> Nat]
    /\ \A t \in Threads : offset[t] <= Size(packet[t])
    /\ cachedHashes \in SUBSET Nat
    /\ lastSentHash \in Nat
    /\ built \in Nat

InMutex == {"flush", "direct", "flushOnly"}

\* m_sendMutex is held by the one thread inside its critical section, and a
\* packet is written directly only while nothing is queued ahead of it.
LockDiscipline ==
    /\ \A t \in Threads : pc[t] \in InMutex <=> lock = t
    /\ \A t \in Threads :
           /\ pc[t] = "direct" => sendQueue = <<>> /\ offset[t] < Size(packet[t])
           /\ pc[t] \in {"wait", "flush"} => offset[t] = 0

\* Close clears m_connected before it touches anything else.
ClosingIsDisconnected ==
    pc[ServerThread] \in {"closing", "closed"} => ~connected

\* SidebandSession.hpp, "either a packet is delivered whole or the rest of it
\* is queued": while the session is connected the bytes written, the queue and
\* the packet being written are whole packets one after the other, whatever
\* the partial writes and the interleaving of the senders.
Framing == connected => WellFramed(Stream)

\* The inductive invariant behind Framing: who holds the mutex, what may be
\* queued at that point, and that a closing session is disconnected.
FramingInv == TypeOK /\ LockDiscipline /\ ClosingIsDisconnected /\ Framing

\* A short cursor packet is only ever sent to a client that gets the full
\* packet of that hash first (SendCursor books a hash only once delivered).
ShortAfterFull ==
    connected =>
        \A j \in 1..Len(Stream) :
            Stream[j].pkt.kind = "short" =>
                \E i \in 1..(j-1) : /\ Stream[i].pkt.kind = "full"
                                    /\ Stream[i].pkt.hash = Stream[j].pkt.hash

IsCursor(b) == b.pkt.kind \in {"full", "short"}

\* SendCursor suppresses a frame whose hash is m_lastSentHash: then that hash
\* is the cursor the client shows once it has read the stream.
SuppressedIsShown ==
    (connected /\ pc[CursorThread] = "idle" /\ lastSentHash # 0) =>
        \E j \in 1..Len(Stream) :
            /\ IsCursor(Stream[j])
            /\ Stream[j].pkt.hash = lastSentHash
            /\ \A i \in (j+1)..Len(Stream) : IsCursor(Stream[i]) =>
                   Stream[i].pkt.hash = lastSentHash

\* The send queue never passes MAX_SEND_QUEUE_BYTES, and a sender that waited
\* for the mutex while the session was closed leaves nothing in it, where
\* HasQueuedData would report it for ever.
QueueBounded ==
    /\ Len(sendQueue) <= MaxSendQueue
    /\ ~sockOpen => sendQueue = <<>>

\* A queued byte reaches the socket, or the session is dropped.
QueueDrains == (sendQueue # <<>>) ~> (sendQueue = <<>> \/ ~connected)

\* The refinement: the packets that callers can build, the stream they have
\* joined, and the part of it that send() has taken.
Buildable == [id : 1..MaxPackets, kind : Kinds, hash : Hashes \cup {0}]

Channel == INSTANCE PacketChannel WITH
    Packets <- Buildable,
    Whole   <- [p \in Buildable |-> Bytes(p)],
    up      <- connected,
    chan    <- IF connected THEN Stream ELSE <<>>,
    arrived <- IF connected THEN Len(wire) ELSE 0

\* The session implements the channel: whatever the partial writes, the drops and
\* the interleaving of four senders and the flush, each call of SendOrQueue that
\* counts as delivered is one packet joining the stream whole and for once.
ChannelSpec == Channel!Spec

=============================================================================
