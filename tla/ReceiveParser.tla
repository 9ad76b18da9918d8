----------------------------- MODULE ReceiveParser -----------------------------
(***************************************************************************)
(* The receiving half of a session (src/src/SidebandSession.cpp):          *)
(* TryReceive, which reads the socket until it is empty, ProcessRxBuffer,  *)
(* which cuts m_rxBuffer into packets, and the bytes a client sends.       *)
(*                                                                         *)
(* A packet is BodyLen and a body of that many bytes; the body of a        *)
(* command begins with Hash, CmdID, ReqID, PayloadLen.  The stream is laid *)
(* out byte by byte, a field's value at its first byte, so a parser that   *)
(* loses its place reads something else.  ReqID is the packet's place in   *)
(* the stream.  How TCP cuts the stream is the environment's choice.       *)
(***************************************************************************)
EXTENDS Integers, Sequences

CONSTANTS
    Packets,        \* the packets a client may send
    MaxPackets,     \* bound on how many it sends
    Field,          \* bytes of a header field (4)
    MagicHash,      \* MAGIC_HASH
    LastFailure,    \* a command whose handler ends the session (AUTH_REQ)
    MaxBody,        \* MAX_BODY_LEN
    Slack,          \* what m_rxBuffer may hold beyond it (4096)
    RecvSize        \* sizeof(buf) of one recv() (8192)

\* COMMAND_HEADER_SIZE
HeaderSize == 4 * Field

Packet == [bodyLen : Nat, hash : Nat, cmd : Nat, payloadLen : Nat]

ASSUME ReceiveAssumption ==
    /\ Packets \subseteq Packet
    /\ MaxPackets \in Nat /\ MaxBody \in Nat /\ Slack \in Nat
    /\ Field \in Nat \ {0} /\ RecvSize \in Nat \ {0}
    /\ Field <= Slack /\ HeaderSize <= MaxBody

VARIABLES
    sent,           \* the packets the client has sent
    stream,         \* their bytes
    ends,           \* where in it each of them ends (history)
    arrived,        \* how many of their bytes have reached the kernel
    finished,       \* the client has closed its end or reset the connection
    received,       \* how many bytes recv() has returned
    parsed,         \* how many were erased from m_rxBuffer
    consumed,       \* consumed of ProcessRxBuffer
    pc,             \* "poll", "recv" (TryReceive) or "process"
    connected,      \* m_connected
    cause,          \* what ended the session
    dispatched      \* the commands dispatched, with their ReqID

netVars == <<sent, stream, ends, arrived, finished>>
vars == <<netVars, received, parsed, consumed, pc, connected, cause, dispatched>>

-----------------------------------------------------------------------------
(* The stream. *)

LeastOf(a, b) == IF a < b THEN a ELSE b

\* The fields as far as the body goes, or the payload behind them.
BytesOf(k, req) ==
    [i \in 1..(Field + k.bodyLen) |->
        CASE i = 1             -> k.bodyLen
          [] i = Field + 1     -> k.hash
          [] i = 2 * Field + 1 -> k.cmd
          [] i = 3 * Field + 1 -> req
          [] i = 4 * Field + 1 -> k.payloadLen
          [] OTHER             -> 0]

AllArrived == arrived = Len(stream)

Init ==
    /\ sent = <<>> /\ stream = <<>> /\ ends = <<>> /\ arrived = 0 /\ finished = FALSE
    /\ received = 0 /\ parsed = 0 /\ consumed = 0
    /\ pc = "poll"
    /\ connected = TRUE /\ cause = "none"
    /\ dispatched = <<>>

-----------------------------------------------------------------------------
(* The client and the network. *)

\* Bytes under way to the kernel and bytes not yet sent are the same to the
\* server: the next packet is chosen when the ones before it have arrived.
Send(k) ==
    /\ ~finished /\ AllArrived /\ Len(sent) < MaxPackets
    /\ sent' = Append(sent, k)
    /\ stream' = stream \o BytesOf(k, Len(sent'))
    /\ ends' = Append(ends, Len(stream'))
    /\ UNCHANGED <<arrived, finished, received, parsed, consumed, pc, connected, cause,
                   dispatched>>

Arrive ==
    /\ arrived' \in (arrived + 1)..Len(stream)
    /\ UNCHANGED <<sent, stream, ends, finished, received, parsed, consumed, pc, connected,
                   cause, dispatched>>

Finish ==
    /\ ~finished
    /\ finished' = TRUE
    /\ UNCHANGED <<sent, stream, ends, arrived, received, parsed, consumed, pc, connected,
                   cause, dispatched>>

\* A thread that sends to the session ends it: its queue is full, or send()
\* has failed.
SenderEnds ==
    /\ connected
    /\ connected' = FALSE /\ cause' = "sender"
    /\ UNCHANGED <<netVars, received, parsed, consumed, pc, dispatched>>

-----------------------------------------------------------------------------
(* TryReceive, called when WSAPoll reports the socket readable: one action  *)
(* per recv().                                                              *)

TryReceive ==
    /\ pc = "poll" /\ connected
    /\ received < arrived \/ finished
    /\ pc' = "recv"
    /\ UNCHANGED <<netVars, received, parsed, consumed, connected, cause, dispatched>>

End(why) ==
    /\ connected' = FALSE
    /\ cause' = IF connected THEN why ELSE cause
    /\ pc' = "poll"

\* Variant: the limit is the longest body, without the header before it.
SwollenAtBody(size) == size > MaxBody

\* The total the buffer may hold before it is parsed.
Swollen(size) == size > MaxBody + Slack

\* recv() returns what there is, up to RecvSize; less than that ends the loop.
Recv ==
    /\ pc = "recv" /\ received < arrived
    /\ LET n == LeastOf(RecvSize, arrived - received)
       IN  /\ received' = received + n
           /\ \/ /\ Swollen(received' - parsed)
                 /\ parsed' = received'
                 /\ End("swollen")
              \/ /\ ~Swollen(received' - parsed)
                 /\ pc' = IF n < RecvSize THEN "process" ELSE "recv"
                 /\ UNCHANGED <<parsed, connected, cause>>
    /\ UNCHANGED <<netVars, consumed, dispatched>>

\* WSAEWOULDBLOCK after something was read.
RecvWouldBlock ==
    /\ pc = "recv" /\ received = arrived /\ ~(finished /\ AllArrived)
    /\ pc' = "process"
    /\ UNCHANGED <<netVars, received, parsed, consumed, connected, cause, dispatched>>

\* recv() returns 0 at the end of the stream, or fails, whatever there is still to
\* read: what was read before in the same call stays unprocessed.
RecvEnds ==
    /\ pc = "recv"
    /\ End("client")
    /\ UNCHANGED <<netVars, received, parsed, consumed, dispatched>>

-----------------------------------------------------------------------------
(* ProcessRxBuffer: one action per packet. *)

Avail == received - parsed - consumed

\* The value of the field that begins i bytes behind base.
FieldAt(i) == stream[parsed + consumed + i + 1]

BodyLen == FieldAt(0)

\* Variant: a packet that ends the buffer is not complete.
CompleteStrict == Avail > Field + BodyLen

Complete == Avail >= Field + BodyLen

\* Not a command with a consistent header: skipped.
IsCommand ==
    /\ BodyLen >= Field
    /\ FieldAt(Field) = MagicHash
    /\ BodyLen >= HeaderSize
    /\ BodyLen = HeaderSize + FieldAt(4 * Field)

\* Variant: a whole header is skipped where BodyLen counts most of it.
ConsumedHeader == consumed + HeaderSize + BodyLen

Consumed == consumed + Field + BodyLen

Oversized ==
    /\ pc = "process" /\ Avail >= Field /\ BodyLen > MaxBody
    /\ parsed' = received /\ consumed' = 0
    /\ End("oversized")
    /\ UNCHANGED <<netVars, received, dispatched>>

HasPacket == pc = "process" /\ Avail >= Field /\ BodyLen <= MaxBody /\ Complete

SkipPacket ==
    /\ HasPacket /\ ~IsCommand
    /\ consumed' = Consumed
    /\ UNCHANGED <<netVars, received, parsed, pc, connected, cause, dispatched>>

\* Variant: the session's end is noticed at the next receive only.
DispatchGoesOn ==
    /\ HasPacket /\ IsCommand
    /\ dispatched' = Append(dispatched,
                            <<FieldAt(2 * Field), FieldAt(3 * Field)>>)
    /\ connected' = (connected /\ FieldAt(2 * Field) # LastFailure)
    /\ cause' = IF connected /\ ~connected' THEN "refused" ELSE cause
    /\ consumed' = Consumed
    /\ UNCHANGED <<netVars, received, parsed, pc>>

\* DispatchCommand, then the test whether the session still stands: its
\* handler or another thread may have ended it.
Dispatch ==
    /\ HasPacket /\ IsCommand
    /\ dispatched' = Append(dispatched,
                            <<FieldAt(2 * Field), FieldAt(3 * Field)>>)
    /\ connected' = (connected /\ FieldAt(2 * Field) # LastFailure)
    /\ cause' = IF connected /\ ~connected' THEN "refused" ELSE cause
    /\ \/ connected' /\ consumed' = Consumed /\ UNCHANGED <<parsed, pc>>
       \/ ~connected' /\ consumed' = 0 /\ parsed' = received /\ pc' = "poll"
    /\ UNCHANGED <<netVars, received>>

\* No whole packet is left: the consumed ones are erased.
Erase ==
    /\ pc = "process"
    /\ ~(Avail >= Field /\ (BodyLen > MaxBody \/ Complete))
    /\ parsed' = parsed + consumed
    /\ consumed' = 0
    /\ pc' = "poll"
    /\ UNCHANGED <<netVars, received, connected, cause, dispatched>>

ProcessRxBuffer == Oversized \/ SkipPacket \/ Dispatch \/ Erase

Next ==
    \/ \E k \in Packets : Send(k)
    \/ Arrive \/ Finish \/ SenderEnds
    \/ TryReceive \/ Recv \/ RecvWouldBlock \/ RecvEnds
    \/ ProcessRxBuffer

Spec == Init /\ [][Next]_vars

-----------------------------------------------------------------------------
(* The reference: packets instead of bytes. *)

Legal(k) ==
    /\ k.bodyLen <= MaxBody
    /\ k.hash = MagicHash
    /\ k.bodyLen = HeaderSize + k.payloadLen

\* A packet behind which the session is over.
Ends(k) == k.bodyLen > MaxBody \/ (Legal(k) /\ k.cmd = LastFailure)

\* The n-th packet is a command, and none before it ends the session.
Asked(n) ==
    /\ n \in DOMAIN sent /\ Legal(sent[n])
    /\ \A m \in 1..(n - 1) : ~Ends(sent[m])

DispatchedWithin(n, k) == \E j \in 1..k : dispatched[j][2] = n

\* Where the first n packets end.
EndOf(n) == IF n = 0 THEN 0 ELSE ends[n]

-----------------------------------------------------------------------------
(* Properties. *)

\* Every variable keeps to its type, and the buffer is inside what has arrived.
TypeOK ==
    /\ sent \in Seq(Packets)
    /\ {parsed, consumed, received, arrived} \subseteq Nat
    /\ parsed + consumed <= received
    /\ received <= arrived /\ arrived <= Len(stream)
    /\ pc # "process" => consumed = 0
    /\ pc \in {"poll", "recv", "process"}
    /\ connected \in BOOLEAN /\ finished \in BOOLEAN
    /\ cause \in {"none", "sender", "client", "swollen", "oversized", "refused"}
    /\ (cause = "none" <=> connected)
    /\ dispatched \in Seq(Nat \X Nat)

\* However TCP cuts the stream, and whatever is not a command in it, the
\* commands dispatched are those the client sent, once each and in order, each
\* when it is whole, and none from behind a packet that ends the session
\* (ProcessRxBuffer).
DispatchedInOrder ==
    \A k \in DOMAIN dispatched :
        LET n == dispatched[k][2]
        IN  /\ Asked(n) /\ ends[n] <= received
            /\ dispatched[k][1] = sent[n].cmd
            /\ k > 1 => dispatched[k - 1][2] < n
            /\ \A m \in 1..(n - 1) : Asked(m) => DispatchedWithin(m, k - 1)

\* Between two calls of TryReceive no packet that has been received whole is
\* left in the buffer: a request is not kept until the client sends the next.
NothingLeftBehind ==
    (pc = "poll" /\ connected) =>
        \A n \in DOMAIN sent :
            Asked(n) /\ ends[n] <= received => DispatchedWithin(n, Len(dispatched))

\* A client that has one packet under way at most, of a length the server accepts,
\* is never taken for one that floods the buffer (TryReceive).  One that pipelines
\* may be, and one that sends a longer packet: the socket is read to its end before
\* anything is parsed.
OnlyFloodsSwell ==
    [][(cause' = "swollen" /\ cause # "swollen") =>
           \/ parsed < EndOf(Len(sent) - 1)
           \/ sent[Len(sent)].bodyLen > MaxBody]_vars

=============================================================================
