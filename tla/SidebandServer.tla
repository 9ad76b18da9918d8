--------------------------- MODULE SidebandServer ---------------------------
(***************************************************************************)
(* The server (src/src/SidebandServer.cpp): the client list behind         *)
(* m_clientsMutex, the rounds of its main loop (poll set, accept, receive  *)
(* and dispatch, reap), the broadcasts of the modules' threads, stop and   *)
(* shutdown, and the exceptions that cut a round or a broadcast short.  Of *)
(* a session only this is modelled: a command packet is accepted or the    *)
(* session goes down, and a frame may also be left out; how bytes travel   *)
(* is the subject of SidebandSession.                                      *)
(***************************************************************************)
EXTENDS Integers, Sequences, FiniteSets

CONSTANTS
    Clients,            \* the connections clients may open
    Broadcasters,       \* threads of the modules that broadcast
    FrameCases,         \* which of them broadcast cursor or text frames, the
                        \* others commands: the cases considered
    Listen,             \* the listening socket's place in the poll set
    NoClient,
    Requests,           \* the requests clients send: [cmd, good]
    Tokens,             \* whether a token is configured: the cases considered
    MaxAuthFailures,    \* kMaxAuthFailures
    MaxRequests,        \* bound on the requests of each client
    MaxBroadcasts,      \* bound on the broadcasts of one thread
    MaxThrows           \* bound on the exceptions and the failed polls

(* SidebandProtocol::Cmd *)
HEARTBEAT == 1
HELLO == 3
AUTH_REQ == 4
AUTH_RESP == 5
DISPLAY_LIST_REQ == 10
DISPLAY_LIST_RESP == 11
DISPLAY_SWITCH == 12
DISPLAY_CURRENT == 13
DISPLAY_MODE_LIST_REQ == 14
DISPLAY_MODE_LIST_RESP == 15
DISPLAY_MODE_SET == 16
DISPLAY_SCALE_SET == 17
AUDIO_LIST_REQ == 30
AUDIO_LIST_RESP == 31
AUDIO_DEFAULT_SET == 32
AUDIO_VOLUME_SET == 33
AUDIO_MUTE_SET == 34
AUDIO_OP_RESP == 35

Modules == <<"cursor", "display", "audio">>

\* good: an AUTH_REQ that carries the server's token.
Request == [cmd : Nat, good : BOOLEAN]

ASSUME ClientsAssumption == NoClient \notin Clients /\ Listen \notin Clients

ASSUME BoundsAssumption ==
    /\ Requests \subseteq Request
    /\ Tokens \subseteq BOOLEAN
    /\ FrameCases \subseteq SUBSET Broadcasters
    /\ MaxAuthFailures \in Nat \ {0}
    /\ MaxRequests \in [Clients -> Nat] /\ MaxBroadcasts \in Nat /\ MaxThrows \in Nat

VARIABLES
    hasToken,       \* m_authToken is not empty
    running,        \* m_running
    frames,         \* the broadcasters whose packets are frames
    backlog,        \* connections accept() has not returned yet
    inbox,          \* requests the kernel holds for each connection
    fin,            \* the client has closed its end
    clients,        \* m_clients
    connected,      \* m_connected of each session
    open,           \* m_socket # INVALID_SOCKET of each session
    authenticated,  \* m_authenticated
    authFailures,   \* m_authFailures
    rx,             \* m_rxBuffer, as the requests it holds
    at,             \* where the main loop is
    i,              \* its loop index
    fds,            \* the poll set
    polled,         \* the sessions in it
    ready,          \* indices of fds with revents
    doomed,         \* sessions taken off the list, not yet closed
    cur,            \* the session just accepted or being served
    sending,        \* per broadcaster: the rest of its snapshot
    targets,        \* per broadcaster: its snapshot, less those an
                    \* exception kept it from (history)
    casts,          \* per broadcaster: its broadcasts so far
    outbox,         \* answers each session has accepted (history)
    pushed,         \* broadcasts each session has accepted (history)
    dispatched,     \* requests dispatched, in order (history)
    changes,        \* indices of those that reached a state change (history)
    threw,          \* indices of those whose handler threw (history)
    notified,       \* what became of the reports of each client's coming and
                    \* going: made, or lost to an exception (history)
    sent,           \* requests each client has sent
    throws          \* exceptions and failed polls so far

confVars == <<hasToken, running, frames, throws>>
netVars == <<backlog, inbox, fin, sent>>
listVars == <<clients, doomed, notified>>
sessVars == <<connected, open, rx>>
authVars == <<authenticated, authFailures>>
loopVars == <<at, i, cur>>
pollVars == <<fds, polled, ready>>
castVars == <<sending, targets, casts, pushed>>
histVars == <<outbox, dispatched, changes, threw>>
vars == <<confVars, netVars, listVars, sessVars, authVars, loopVars, pollVars,
          castVars, histVars>>

-----------------------------------------------------------------------------
(* What the modules declare about commands, and what OnCommand does. *)

HandlesCommand(m, cmd) ==
    \/ /\ m = "display"
       /\ cmd \in {DISPLAY_LIST_REQ, DISPLAY_SWITCH, DISPLAY_MODE_LIST_REQ,
                   DISPLAY_MODE_SET, DISPLAY_SCALE_SET}
    \/ /\ m = "audio"
       /\ cmd \in {AUDIO_LIST_REQ, AUDIO_DEFAULT_SET, AUDIO_VOLUME_SET,
                   AUDIO_MUTE_SET}

\* Variant: the audio module forgets the mute command.
CommandRequiresAuthNoMute(m, cmd) ==
    \/ m = "display" /\ cmd \in {DISPLAY_SWITCH, DISPLAY_MODE_SET, DISPLAY_SCALE_SET}
    \/ m = "audio" /\ cmd \in {AUDIO_DEFAULT_SET, AUDIO_VOLUME_SET}

CommandRequiresAuth(m, cmd) ==
    \/ m = "display" /\ cmd \in {DISPLAY_SWITCH, DISPLAY_MODE_SET, DISPLAY_SCALE_SET}
    \/ m = "audio" /\ cmd \in {AUDIO_DEFAULT_SET, AUDIO_VOLUME_SET, AUDIO_MUTE_SET}

\* Variant: the scale command is paired with the event of the other two.
ResponseCommandForScale(cmd) ==
    CASE cmd = DISPLAY_LIST_REQ      -> DISPLAY_LIST_RESP
      [] cmd = DISPLAY_MODE_LIST_REQ -> DISPLAY_MODE_LIST_RESP
      [] cmd \in {DISPLAY_SWITCH, DISPLAY_MODE_SET, DISPLAY_SCALE_SET} -> DISPLAY_CURRENT
      [] cmd = AUDIO_LIST_REQ        -> AUDIO_LIST_RESP
      [] OTHER                       -> AUDIO_OP_RESP

ResponseCommandFor(cmd) ==
    CASE cmd = DISPLAY_LIST_REQ      -> DISPLAY_LIST_RESP
      [] cmd = DISPLAY_MODE_LIST_REQ -> DISPLAY_MODE_LIST_RESP
      [] cmd \in {DISPLAY_SWITCH, DISPLAY_MODE_SET} -> DISPLAY_CURRENT
      [] cmd = DISPLAY_SCALE_SET     -> DISPLAY_SCALE_SET
      [] cmd = AUDIO_LIST_REQ        -> AUDIO_LIST_RESP
      [] OTHER                       -> AUDIO_OP_RESP

\* The command of the packet each branch of OnCommand answers with.
ReplyOfOnCommand(cmd) ==
    CASE cmd = DISPLAY_LIST_REQ                     -> DISPLAY_LIST_RESP
      [] cmd \in {DISPLAY_SWITCH, DISPLAY_MODE_SET} -> DISPLAY_CURRENT
      [] cmd = DISPLAY_MODE_LIST_REQ                -> DISPLAY_MODE_LIST_RESP
      [] cmd = DISPLAY_SCALE_SET                    -> DISPLAY_SCALE_SET
      [] cmd = AUDIO_LIST_REQ                       -> AUDIO_LIST_RESP
      [] OTHER                                      -> AUDIO_OP_RESP

\* The branches of OnCommand that call something that changes the system.
ChangesSystem(cmd) ==
    cmd \in {DISPLAY_SWITCH, DISPLAY_MODE_SET, DISPLAY_SCALE_SET,
             AUDIO_DEFAULT_SET, AUDIO_VOLUME_SET, AUDIO_MUTE_SET}

Handlers(cmd) == {k \in DOMAIN Modules : HandlesCommand(Modules[k], cmd)}

\* The first registered module that handles the command.
HandlerOf(cmd) ==
    Modules[CHOOSE k \in Handlers(cmd) : \A j \in Handlers(cmd) : k <= j]

-----------------------------------------------------------------------------

Places == {"top", "build", "poll", "accept", "greet", "serve", "dispatch",
           "execute", "check", "reap", "close", "stopped", "shutdown", "off"}

Init ==
    /\ hasToken \in Tokens
    /\ running = TRUE
    /\ frames \in FrameCases
    /\ backlog = <<>>
    /\ inbox = [c \in Clients |-> <<>>]
    /\ fin = [c \in Clients |-> FALSE]
    /\ sent = [c \in Clients |-> 0]
    /\ clients = <<>>
    /\ connected = [c \in Clients |-> FALSE]
    /\ open = [c \in Clients |-> FALSE]
    /\ rx = [c \in Clients |-> <<>>]
    /\ authenticated = [c \in Clients |-> FALSE]
    /\ authFailures = [c \in Clients |-> 0]
    /\ at = "top" /\ i = 1
    /\ fds = <<>> /\ polled = <<>> /\ ready = {}
    /\ doomed = <<>> /\ cur = NoClient
    /\ sending = [b \in Broadcasters |-> <<>>]
    /\ targets = [b \in Broadcasters |-> {}]
    /\ casts = [b \in Broadcasters |-> 0]
    /\ outbox = [c \in Clients |-> <<>>]
    /\ pushed = [c \in Clients |-> <<>>]
    /\ dispatched = [c \in Clients |-> <<>>]
    /\ changes = [c \in Clients |-> {}]
    /\ threw = [c \in Clients |-> {}]
    /\ notified = [c \in Clients |-> <<>>]
    /\ throws = 0

\* m_clientsMutex is held by the main loop over several of its steps.
ListLocked == at \in {"build", "reap"}

\* SendCommand on a session: nothing if it is down, else the packet is
\* accepted or the session goes down.
Send(c, cmd, req) ==
    \/ /\ connected[c]
       /\ outbox' = [outbox EXCEPT ![c] = Append(@, [cmd |-> cmd, req |-> req])]
       /\ UNCHANGED connected
    \/ /\ connected[c]
       /\ connected' = [connected EXCEPT ![c] = FALSE]
       /\ UNCHANGED outbox
    \/ ~connected[c] /\ UNCHANGED <<connected, outbox>>

-----------------------------------------------------------------------------
(* The clients. *)

ClientConnects(c) ==
    /\ notified[c] = <<>> /\ ~open[c]
    /\ \A j \in DOMAIN backlog : backlog[j] # c
    /\ at \notin {"shutdown", "off"}
    /\ backlog' = Append(backlog, c)
    /\ UNCHANGED <<confVars, inbox, fin, sent, listVars, sessVars, authVars,
                   loopVars, pollVars, castVars, histVars>>

ClientSends(c) ==
    /\ open[c] /\ ~fin[c]
    /\ sent[c] < MaxRequests[c]
    /\ sent' = [sent EXCEPT ![c] = @ + 1]
    /\ \E r \in Requests : inbox' = [inbox EXCEPT ![c] = Append(@, r)]
    /\ UNCHANGED <<confVars, backlog, fin, listVars, sessVars, authVars,
                   loopVars, pollVars, castVars, histVars>>

ClientCloses(c) ==
    /\ open[c] /\ ~fin[c]
    /\ fin' = [fin EXCEPT ![c] = TRUE]
    /\ UNCHANGED <<confVars, backlog, inbox, sent, listVars, sessVars,
                   authVars, loopVars, pollVars, castVars, histVars>>

-----------------------------------------------------------------------------
(* RunRound: the poll set. *)

\* polled is cleared, or destroyed with Run: the sessions only it still held
\* close their sockets in their destructors.
RoundStarts ==
    /\ at = "top"
    /\ at' = IF running THEN "build" ELSE "stopped"
    /\ i' = 1
    /\ fds' = <<Listen>> /\ polled' = <<>> /\ ready' = {}
    /\ open' = [c \in Clients |-> open[c] /\ Len(notified[c]) < 2]
    /\ UNCHANGED <<confVars, netVars, listVars, connected, rx, authVars, cur,
                   castVars, histVars>>

\* Variant: the socket enters the poll set before the session is tested.
BuildOneUnfiltered ==
    /\ at = "build" /\ i <= Len(clients)
    /\ i' = i + 1
    /\ fds' = Append(fds, clients[i])
    /\ polled' = IF connected[clients[i]] THEN Append(polled, clients[i]) ELSE polled
    /\ UNCHANGED <<confVars, netVars, listVars, sessVars, authVars, at, cur,
                   ready, castVars, histVars>>

\* One session of the list, which a broadcaster may disconnect at any time.
BuildOne ==
    /\ at = "build" /\ i <= Len(clients)
    /\ i' = i + 1
    /\ IF connected[clients[i]] /\ open[clients[i]]
       THEN /\ fds' = Append(fds, clients[i])
            /\ polled' = Append(polled, clients[i])
       ELSE UNCHANGED <<fds, polled>>
    /\ UNCHANGED <<confVars, netVars, listVars, sessVars, authVars, at, cur,
                   ready, castVars, histVars>>

BuildEnds ==
    /\ at = "build" /\ i > Len(clients)
    /\ at' = "poll"
    /\ UNCHANGED <<confVars, netVars, listVars, sessVars, authVars, i, cur,
                   pollVars, castVars, histVars>>

Readable(s) == IF s = Listen THEN backlog # <<>> ELSE inbox[s] # <<>> \/ fin[s]

\* WSAPoll: it reports every socket that is readable, or times out.
Poll ==
    /\ at = "poll"
    /\ ready' = {k \in DOMAIN fds : Readable(fds[k])}
    /\ i' = 1
    /\ at' = IF ready' = {} THEN "reap" ELSE IF 1 \in ready' THEN "accept" ELSE "serve"
    /\ UNCHANGED <<confVars, netVars, listVars, sessVars, authVars, cur, fds,
                   polled, castVars, histVars>>

\* WSAPoll fails: nothing is accepted or received in this round.
PollFails ==
    /\ at = "poll" /\ throws < MaxThrows
    /\ throws' = throws + 1
    /\ ready' = {}
    /\ i' = 1
    /\ at' = "reap"
    /\ UNCHANGED <<hasToken, running, frames, netVars, listVars, sessVars,
                   authVars, cur, fds, polled, castVars, histVars>>

-----------------------------------------------------------------------------
(* AcceptNewClients. *)

AcceptOne ==
    /\ at = "accept" /\ backlog # <<>>
    /\ cur' = Head(backlog)
    /\ backlog' = Tail(backlog)
    /\ connected' = [connected EXCEPT ![cur'] = TRUE]
    /\ open' = [open EXCEPT ![cur'] = TRUE]
    /\ clients' = Append(clients, cur')
    /\ at' = "greet"
    /\ UNCHANGED <<confVars, inbox, fin, sent, doomed, notified, rx, authVars,
                   i, pollVars, castVars, histVars>>

\* NotifyClientConnected, outside the lock.
Greet ==
    /\ at = "greet"
    /\ notified' = [notified EXCEPT ![cur] = Append(@, "connected")]
    /\ cur' = NoClient
    /\ at' = "accept"
    /\ UNCHANGED <<confVars, netVars, clients, doomed, sessVars, authVars, i,
                   pollVars, castVars, histVars>>

AcceptEnds ==
    /\ at = "accept" /\ backlog = <<>>
    /\ at' = "serve"
    /\ UNCHANGED <<confVars, netVars, listVars, sessVars, authVars, i, cur,
                   pollVars, castVars, histVars>>

-----------------------------------------------------------------------------
(* TryReceive on the sessions with revents. *)

\* Variant: the listening socket's place in the poll set is forgotten.
HasEventsOffByOne(k) == k \in ready

\* fds[k + 1].revents # 0
HasEvents(k) == k + 1 \in ready

\* A session without revents, one that went down meanwhile, or a recv() that
\* would block.
ServeSkips ==
    /\ at = "serve" /\ i <= Len(polled)
    /\ \/ ~HasEvents(i)
       \/ ~connected[polled[i]]
       \/ inbox[polled[i]] = <<>> /\ ~fin[polled[i]]
    /\ i' = i + 1
    /\ UNCHANGED <<confVars, netVars, listVars, sessVars, authVars, at, cur,
                   pollVars, castVars, histVars>>

\* recv() brings some of the requests, and ProcessRxBuffer starts on them.
Receive ==
    /\ at = "serve" /\ i <= Len(polled) /\ HasEvents(i)
    /\ connected[polled[i]]
    /\ cur' = polled[i]
    /\ \E k \in 1..Len(inbox[cur']) :
        /\ rx' = [rx EXCEPT ![cur'] = @ \o SubSeq(inbox[cur'], 1, k)]
        /\ inbox' = [inbox EXCEPT ![cur'] = SubSeq(@, k + 1, Len(@))]
    /\ at' = "dispatch"
    /\ UNCHANGED <<confVars, backlog, fin, sent, listVars, connected, open,
                   authVars, i, pollVars, castVars, histVars>>

\* recv() returns 0 or an error: what the same call read before it, after
\* full buffers, is not processed.
ReceiveEnds ==
    /\ at = "serve" /\ i <= Len(polled) /\ HasEvents(i)
    /\ connected[polled[i]] /\ fin[polled[i]]
    /\ connected' = [connected EXCEPT ![polled[i]] = FALSE]
    /\ inbox' = [inbox EXCEPT ![polled[i]] = <<>>]
    /\ i' = i + 1
    /\ UNCHANGED <<confVars, backlog, fin, sent, listVars, open, rx, authVars,
                   at, cur, pollVars, castVars, histVars>>

ServeEnds ==
    /\ at = "serve" /\ i > Len(polled)
    /\ at' = "reap" /\ i' = 1
    /\ UNCHANGED <<confVars, netVars, listVars, sessVars, authVars, cur,
                   pollVars, castVars, histVars>>

-----------------------------------------------------------------------------
(* DispatchCommand.  req stands for the request's own id. *)

\* The next request of the session being served; it leaves the buffer.
Take(r) ==
    /\ at = "dispatch" /\ rx[cur] # <<>>
    /\ r = Head(rx[cur])
    /\ dispatched' = [dispatched EXCEPT ![cur] = Append(@, r)]

req == Len(dispatched[cur]) + 1

Consumed == rx' = [rx EXCEPT ![cur] = Tail(@)]

\* HEARTBEAT and HELLO are answered by the server.
DispatchCommon ==
    \E r \in Requests :
        /\ Take(r) /\ Consumed
        /\ r.cmd \in {HEARTBEAT, HELLO}
        /\ Send(cur, r.cmd, req)
        /\ at' = "check"
        /\ UNCHANGED <<confVars, netVars, listVars, open, authVars, i, cur,
                       pollVars, castVars, changes, threw>>

Accepts(r) == hasToken /\ r.good

\* Whether one more failure reaches the limit.
AtLimit(c) == authFailures[c] + 1 >= MaxAuthFailures

\* HandleAuth without the disconnection: no token configured, the right
\* token, or a failure below the limit.
HandleAuth ==
    \E r \in Requests :
        /\ Take(r) /\ Consumed
        /\ r.cmd = AUTH_REQ
        /\ \/ Accepts(r) /\ authenticated' = [authenticated EXCEPT ![cur] = TRUE]
                         /\ UNCHANGED authFailures
           \/ ~hasToken /\ ~Accepts(r) /\ UNCHANGED authVars
           \/ /\ hasToken /\ ~Accepts(r)
              /\ ~AtLimit(cur)
              /\ authFailures' = [authFailures EXCEPT ![cur] = @ + 1]
              /\ UNCHANGED authenticated
        /\ Send(cur, AUTH_RESP, req)
        /\ at' = "check"
        /\ UNCHANGED <<confVars, netVars, listVars, open, i, cur, pollVars,
                       castVars, changes, threw>>

\* Variant: the limit is answered, and that is all.
HandleAuthLimitAnswers ==
    \E r \in Requests :
        /\ Take(r) /\ Consumed
        /\ r.cmd = AUTH_REQ
        /\ hasToken /\ ~Accepts(r)
        /\ AtLimit(cur)
        /\ Send(cur, AUTH_RESP, req)
        /\ at' = "check"
        /\ UNCHANGED <<confVars, netVars, listVars, open, authVars, i, cur,
                       pollVars, castVars, changes, threw>>

\* The failure that reaches the limit: answered, then Close.
HandleAuthLimit ==
    \E r \in Requests :
        /\ Take(r)
        /\ r.cmd = AUTH_REQ
        /\ hasToken /\ ~Accepts(r)
        /\ AtLimit(cur)
        /\ authFailures' = [authFailures EXCEPT ![cur] = @ + 1]
        /\ \/ /\ connected[cur]
              /\ outbox' = [outbox EXCEPT ![cur] =
                                Append(@, [cmd |-> AUTH_RESP, req |-> req])]
           \/ UNCHANGED outbox
        /\ connected' = [connected EXCEPT ![cur] = FALSE]
        /\ open' = [open EXCEPT ![cur] = FALSE]
        /\ rx' = [rx EXCEPT ![cur] = <<>>]
        /\ at' = "check"
        /\ UNCHANGED <<confVars, netVars, listVars, authenticated, i, cur,
                       pollVars, castVars, changes, threw>>

\* Nobody handles the command: no answer.
DispatchUnknown ==
    \E r \in Requests :
        /\ Take(r) /\ Consumed
        /\ r.cmd \notin {HEARTBEAT, HELLO, AUTH_REQ} /\ Handlers(r.cmd) = {}
        /\ at' = "check"
        /\ UNCHANGED <<confVars, netVars, listVars, connected, open, authVars,
                       i, cur, pollVars, castVars, outbox, changes, threw>>

Unauthorized(r) == CommandRequiresAuth(HandlerOf(r.cmd), r.cmd) /\ ~authenticated[cur]

DispatchUnauthorized ==
    \E r \in Requests :
        /\ Take(r) /\ Consumed
        /\ r.cmd \notin {HEARTBEAT, HELLO, AUTH_REQ} /\ Handlers(r.cmd) # {}
        /\ Unauthorized(r)
        /\ Send(cur, ResponseCommandFor(r.cmd), req)
        /\ at' = "check"
        /\ UNCHANGED <<confVars, netVars, listVars, open, authVars, i, cur,
                       pollVars, castVars, changes, threw>>

\* OnCommand begins, on the main loop's thread ...
DispatchToModule ==
    \E r \in Requests :
        /\ Take(r) /\ Consumed
        /\ r.cmd \notin {HEARTBEAT, HELLO, AUTH_REQ} /\ Handlers(r.cmd) # {}
        /\ ~Unauthorized(r)
        /\ changes' = IF ChangesSystem(r.cmd)
                      THEN [changes EXCEPT ![cur] = @ \cup {req}] ELSE changes
        /\ at' = "execute"
        /\ UNCHANGED <<confVars, netVars, listVars, connected, open, authVars,
                       i, cur, pollVars, castVars, outbox, threw>>

\* ... and ends with its answer ...
CommandReturns ==
    /\ at = "execute"
    /\ LET n == Len(dispatched[cur])
       IN  Send(cur, ReplyOfOnCommand(dispatched[cur][n].cmd), n)
    /\ at' = "check"
    /\ UNCHANGED <<confVars, netVars, listVars, open, rx, authVars, i, cur,
                   pollVars, castVars, dispatched, changes, threw>>

\* ... or with an exception, which DispatchCommand swallows.
CommandThrows ==
    /\ at = "execute"
    /\ threw' = [threw EXCEPT ![cur] = @ \cup {Len(dispatched[cur])}]
    /\ at' = "check"
    /\ UNCHANGED <<confVars, netVars, listVars, sessVars, authVars, i, cur,
                   pollVars, castVars, outbox, dispatched, changes>>

\* After each request: a session that went down loses the rest of its buffer.
CheckConnected ==
    /\ at = "check"
    /\ \/ /\ connected[cur] /\ rx[cur] # <<>>
          /\ at' = "dispatch"
          /\ UNCHANGED <<rx, i, cur>>
       \/ /\ ~connected[cur] \/ rx[cur] = <<>>
          /\ rx' = [rx EXCEPT ![cur] = <<>>]
          /\ at' = "serve" /\ i' = i + 1 /\ cur' = NoClient
    /\ UNCHANGED <<confVars, netVars, listVars, connected, open, authVars,
                   pollVars, castVars, histVars>>

-----------------------------------------------------------------------------
(* ReapDisconnected, Tick and the end of the round. *)

DropAt(s, k) == SubSeq(s, 1, k - 1) \o SubSeq(s, k + 1, Len(s))

ReapOne ==
    /\ at = "reap" /\ i <= Len(clients)
    /\ IF connected[clients[i]]
       THEN i' = i + 1 /\ UNCHANGED <<clients, doomed>>
       ELSE /\ doomed' = Append(doomed, clients[i])
            /\ clients' = DropAt(clients, i)
            /\ UNCHANGED i
    /\ UNCHANGED <<confVars, netVars, notified, sessVars, authVars, at, cur,
                   pollVars, castVars, histVars>>

ReapEnds ==
    /\ at = "reap" /\ i > Len(clients)
    /\ at' = "close"
    /\ UNCHANGED <<confVars, netVars, listVars, sessVars, authVars, i, cur,
                   pollVars, castVars, histVars>>

\* Variant: a session is only closed and reported when its socket still is.
CloseOneOpen ==
    /\ at \in {"close", "shutdown"} /\ doomed # <<>>
    /\ LET c == Head(doomed)
       IN  /\ connected' = [connected EXCEPT ![c] = FALSE]
           /\ open' = [open EXCEPT ![c] = FALSE]
           /\ rx' = [rx EXCEPT ![c] = <<>>]
           /\ notified' = IF open[c]
                          THEN [notified EXCEPT ![c] = Append(@, "disconnected")]
                          ELSE notified
    /\ doomed' = Tail(doomed)
    /\ UNCHANGED <<confVars, netVars, clients, authVars, loopVars, pollVars,
                   castVars, histVars>>

\* Close and NotifyClientDisconnected, outside the lock.
CloseOne ==
    /\ at \in {"close", "shutdown"} /\ doomed # <<>>
    /\ LET c == Head(doomed)
       IN  /\ connected' = [connected EXCEPT ![c] = FALSE]
           /\ open' = [open EXCEPT ![c] = FALSE]
           /\ rx' = [rx EXCEPT ![c] = <<>>]
           /\ notified' = [notified EXCEPT ![c] = Append(@, "disconnected")]
    /\ doomed' = Tail(doomed)
    /\ UNCHANGED <<confVars, netVars, clients, authVars, loopVars, pollVars,
                   castVars, histVars>>

\* TickModules calls OnTick, which no module overrides.
RoundEnds ==
    /\ at = "close" /\ doomed = <<>>
    /\ at' = "top"
    /\ UNCHANGED <<confVars, netVars, listVars, sessVars, authVars, i, cur,
                   pollVars, castVars, histVars>>

\* Run's catch: the rest of the round, the reap included, is skipped.
Throws(places) ==
    /\ at \in places /\ throws < MaxThrows
    /\ throws' = throws + 1
    /\ at' = "top"
    /\ UNCHANGED <<hasToken, running, frames, inbox, fin, sent, clients,
                   sessVars, authVars, i, pollVars, castVars, histVars>>

RoundThrows ==
    /\ Throws({"build", "poll", "serve"})
    /\ UNCHANGED <<backlog, doomed, notified, cur>>

\* A connection that has been accepted but is not on the list yet is lost.
AcceptThrows ==
    /\ backlog # <<>>
    /\ Throws({"accept"})
    /\ backlog' = Tail(backlog)
    /\ UNCHANGED <<doomed, notified, cur>>

\* A module's OnClientConnected throws: the modules behind it are not told.
GreetThrows ==
    /\ Throws({"greet"})
    /\ notified' = [notified EXCEPT ![cur] = Append(@, "lost")]
    /\ cur' = NoClient
    /\ UNCHANGED <<backlog, doomed>>

\* The reap throws, in a module's OnClientDisconnected or on its way: the
\* sessions it has taken off the list are forgotten, their modules not told.
ReapThrows ==
    /\ Throws({"reap", "close"})
    /\ notified' = [c \in Clients |-> IF \E k \in DOMAIN doomed : doomed[k] = c
                                      THEN Append(notified[c], "lost")
                                      ELSE notified[c]]
    /\ doomed' = <<>>
    /\ UNCHANGED <<backlog, cur>>

-----------------------------------------------------------------------------
(* The main thread: RequestStop, then, once the loop has ended, StopModules *)
(* (which waits for the modules' threads) and Shutdown.                     *)

RequestStop ==
    /\ running
    /\ running' = FALSE
    /\ UNCHANGED <<hasToken, frames, throws, netVars, listVars, sessVars, authVars,
                   loopVars, pollVars, castVars, histVars>>

\* Variant: the sessions are closed but stay on the list.
ShutdownStartsCopies ==
    /\ at = "stopped"
    /\ \A b \in Broadcasters : sending[b] = <<>>
    /\ backlog' = <<>>
    /\ doomed' = clients
    /\ at' = "shutdown"
    /\ UNCHANGED <<confVars, inbox, fin, sent, clients, notified, sessVars,
                   authVars, i, cur, pollVars, castVars, histVars>>

ShutdownStarts ==
    /\ at = "stopped"
    /\ \A b \in Broadcasters : sending[b] = <<>>
    /\ backlog' = <<>>
    /\ doomed' = clients
    /\ clients' = <<>>
    /\ at' = "shutdown"
    /\ UNCHANGED <<confVars, inbox, fin, sent, notified, sessVars, authVars, i,
                   cur, pollVars, castVars, histVars>>

ShutdownEnds ==
    /\ at = "shutdown" /\ doomed = <<>>
    /\ at' = "off"
    /\ UNCHANGED <<confVars, netVars, listVars, sessVars, authVars, i, cur,
                   pollVars, castVars, histVars>>

-----------------------------------------------------------------------------
(* BroadcastCommand, BroadcastCursor, BroadcastTextCursorState: a snapshot  *)
(* of the list under the lock, then one session after the other.            *)

\* An empty snapshot is the end of the broadcast.
Snapshot(b) ==
    /\ sending[b] = <<>>
    /\ ~ListLocked /\ at \notin {"shutdown", "off"}
    /\ casts[b] < MaxBroadcasts
    /\ clients # <<>>
    /\ casts' = [casts EXCEPT ![b] = @ + 1]
    /\ sending' = [sending EXCEPT ![b] = clients]
    /\ targets' = [targets EXCEPT ![b] = {clients[k] : k \in DOMAIN clients}]
    /\ UNCHANGED <<confVars, netVars, listVars, sessVars, authVars, loopVars,
                   pollVars, pushed, histVars>>

\* Variant: the first session that is down ends the broadcast.
SendNextStops(b) ==
    /\ sending[b] # <<>>
    /\ LET c == Head(sending[b])
       IN  \/ /\ connected[c]
              /\ pushed' = [pushed EXCEPT ![c] = Append(@, [by |-> b, n |-> casts[b]])]
              /\ sending' = [sending EXCEPT ![b] = Tail(@)]
              /\ UNCHANGED connected
           \/ /\ connected[c]
              /\ connected' = [connected EXCEPT ![c] = FALSE]
              /\ sending' = [sending EXCEPT ![b] = <<>>]
              /\ UNCHANGED pushed
           \/ /\ ~connected[c]
              /\ sending' = [sending EXCEPT ![b] = <<>>]
              /\ UNCHANGED <<connected, pushed>>
           \/ /\ connected[c] /\ b \in frames
              /\ sending' = [sending EXCEPT ![b] = Tail(@)]
              /\ UNCHANGED <<connected, pushed>>
    /\ UNCHANGED <<confVars, netVars, listVars, open, rx, authVars, loopVars,
                   pollVars, targets, casts, histVars>>

\* A session that is down is passed over; one that is up accepts the packet
\* or goes down.  A frame may also be left out with the session up: dropped
\* for a full send queue, or suppressed as the repetition of the last one.
SendNext(b) ==
    /\ sending[b] # <<>>
    /\ sending' = [sending EXCEPT ![b] = Tail(@)]
    /\ LET c == Head(sending[b])
       IN  \/ /\ connected[c]
              /\ pushed' = [pushed EXCEPT ![c] = Append(@, [by |-> b, n |-> casts[b]])]
              /\ UNCHANGED connected
           \/ /\ connected[c]
              /\ connected' = [connected EXCEPT ![c] = FALSE]
              /\ UNCHANGED pushed
           \/ /\ b \in frames \/ ~connected[c]
              /\ UNCHANGED <<connected, pushed>>
    /\ UNCHANGED <<confVars, netVars, listVars, open, rx, authVars, loopVars,
                   pollVars, targets, casts, histVars>>

\* An exception in the broadcasting thread: the sessions it has not come to
\* are left out.
BroadcastThrows(b) ==
    /\ sending[b] # <<>> /\ throws < MaxThrows
    /\ throws' = throws + 1
    /\ targets' = [targets EXCEPT ![b] =
                       {c \in @ : \A k \in DOMAIN sending[b] : sending[b][k] # c}]
    /\ sending' = [sending EXCEPT ![b] = <<>>]
    /\ UNCHANGED <<hasToken, running, frames, netVars, listVars, sessVars,
                   authVars, loopVars, pollVars, casts, pushed, histVars>>

-----------------------------------------------------------------------------

Client(c) == ClientConnects(c) \/ ClientSends(c) \/ ClientCloses(c)

Dispatch ==
    \/ DispatchCommon \/ HandleAuth \/ HandleAuthLimit \/ DispatchUnknown
    \/ DispatchUnauthorized \/ DispatchToModule
    \/ CommandReturns \/ CommandThrows \/ CheckConnected

Round ==
    \/ RoundStarts \/ BuildOne \/ BuildEnds \/ Poll
    \/ AcceptOne \/ Greet \/ AcceptEnds
    \/ ServeSkips \/ Receive \/ ReceiveEnds \/ ServeEnds
    \/ Dispatch
    \/ ReapOne \/ ReapEnds \/ CloseOne \/ RoundEnds

MainThread == RequestStop \/ ShutdownStarts \/ ShutdownEnds

Exceptions ==
    \/ PollFails \/ RoundThrows \/ AcceptThrows \/ GreetThrows \/ ReapThrows

Broadcast(b) == Snapshot(b) \/ SendNext(b) \/ BroadcastThrows(b)

Next ==
    \/ \E c \in Clients : Client(c)
    \/ Round \/ Exceptions
    \/ MainThread
    \/ \E b \in Broadcasters : Broadcast(b)

Spec == Init /\ [][Next]_vars

\* The main loop and, once it has ended, the main thread keep running, and so
\* do the modules' threads; nobody has to connect, send, close or stop, and no
\* exception has to come.  The subscripts are what each of these steps changes.
Fairness ==
    /\ WF_<<at, i, clients, doomed>>(Round \/ ShutdownStarts \/ ShutdownEnds)
    /\ \A b \in Broadcasters : WF_sending(SendNext(b))

FairSpec == Spec /\ Fairness

-----------------------------------------------------------------------------
(* Properties. *)

Good(r) == r.cmd = AUTH_REQ /\ r.good
Bad(r)  == r.cmd = AUTH_REQ /\ ~r.good

InSeq(c, s) == \E k \in DOMAIN s : s[k] = c

\* Every variable keeps to its type, and a session is being served or greeted
\* exactly at the places of the loop that do so.
TypeOK ==
    /\ hasToken \in BOOLEAN /\ running \in BOOLEAN /\ frames \subseteq Broadcasters
    /\ backlog \in Seq(Clients)
    /\ inbox \in [Clients -> Seq(Request)]
    /\ fin \in [Clients -> BOOLEAN]
    /\ sent \in [Clients -> Nat]
    /\ clients \in Seq(Clients)
    /\ connected \in [Clients -> BOOLEAN]
    /\ open \in [Clients -> BOOLEAN]
    /\ rx \in [Clients -> Seq(Request)]
    /\ authenticated \in [Clients -> BOOLEAN]
    /\ authFailures \in [Clients -> Nat]
    /\ at \in Places /\ i \in Nat \ {0}
    /\ fds \in Seq(Clients \cup {Listen}) /\ polled \in Seq(Clients)
    /\ ready \subseteq Nat
    /\ doomed \in Seq(Clients)
    /\ cur \in Clients \cup {NoClient}
    /\ (cur = NoClient) <=> at \notin {"greet", "dispatch", "execute", "check"}
    /\ sending \in [Broadcasters -> Seq(Clients)]
    /\ targets \in [Broadcasters -> SUBSET Clients]
    /\ casts \in [Broadcasters -> Nat]
    /\ outbox \in [Clients -> Seq([cmd : Nat, req : Nat])]
    /\ pushed \in [Clients -> Seq([by : Broadcasters, n : Nat])]
    /\ dispatched \in [Clients -> Seq(Request)]
    /\ changes \in [Clients -> SUBSET Nat]
    /\ threw \in [Clients -> SUBSET Nat]
    /\ notified \in [Clients -> Seq({"connected", "disconnected", "lost"})]
    /\ throws \in Nat

\* The graded authorisation of SidebandProtocol.hpp: a command that changes
\* the system reaches its module only after an AUTH_REQ with the server's
\* token was dispatched earlier on the same connection.
ChangesAuthorised ==
    \A c \in Clients : \A n \in changes[c] :
        hasToken /\ \E j \in 1..(n-1) : Good(dispatched[c][j])

Failures(c) == Cardinality({j \in DOMAIN dispatched[c] : Bad(dispatched[c][j])})

\* kMaxAuthFailures: nothing a client has pipelined behind the failure that
\* reaches the limit is dispatched.
NothingAfterTheLimit ==
    hasToken => \A c \in Clients :
        /\ Failures(c) <= MaxAuthFailures
        /\ Failures(c) = MaxAuthFailures =>
               Bad(dispatched[c][Len(dispatched[c])])

\* The command a client waits for with a request of its own.
Expected(cmd) ==
    CASE cmd \in {HEARTBEAT, HELLO} -> cmd
      [] cmd = AUTH_REQ             -> AUTH_RESP
      [] OTHER                      -> ReplyOfOnCommand(cmd)

Serving(c) == at \in {"dispatch", "execute"} /\ cur = c

\* Whether a request is owed an answer.
Owed(c, n) ==
    LET r == dispatched[c][n]
    IN  n \notin threw[c] /\ (r.cmd \in {HEARTBEAT, HELLO, AUTH_REQ} \/ Handlers(r.cmd) # {})

\* ISidebandModule.hpp, on ResponseCommandFor: every answer, a refusal
\* included, carries the request's id and the command the client waits for;
\* on a session that is up every request that has been dealt with has its one
\* answer, in the order of the requests.
Answered ==
    \A c \in Clients :
        /\ \A k \in DOMAIN outbox[c] :
               /\ outbox[c][k].req \in DOMAIN dispatched[c]
               /\ outbox[c][k].cmd = Expected(dispatched[c][outbox[c][k].req].cmd)
               /\ k > 1 => outbox[c][k-1].req < outbox[c][k].req
        /\ (connected[c] /\ ~Serving(c)) =>
               \A n \in DOMAIN dispatched[c] :
                   Owed(c, n) => \E k \in DOMAIN outbox[c] : outbox[c][k].req = n

\* RunRound: "fds[i+1] <-> polled[i]", and no closed socket is given to
\* WSAPoll, where it would fail the whole call.
PollSetAligned ==
    at \in {"poll", "accept", "greet", "serve", "dispatch", "execute", "check"} =>
        /\ Len(fds) = Len(polled) + 1
        /\ \A k \in DOMAIN polled : fds[k+1] = polled[k]
        /\ at = "poll" => \A k \in DOMAIN polled : open[polled[k]]

\* The reports of a client's coming, and of its coming and going.
OneReport == {<<x>> : x \in {"connected", "lost"}}
TwoReports == {<<x, y>> : x \in {"connected", "lost"}, y \in {"disconnected", "lost"}}

\* OnClientConnected and OnClientDisconnected come at most once each, in this
\* order, whoever ends the session, and the list holds the sessions in
\* between; only an exception keeps a report from the modules, and what it
\* takes is never made up for nor made twice.
NotifiedOnce ==
    \A c \in Clients :
        /\ notified[c] \in {<<>>} \cup OneReport \cup TwoReports
        /\ InSeq(c, clients) <=>
               \/ at = "greet" /\ cur = c
               \/ notified[c] \in OneReport /\ ~InSeq(c, doomed)
        /\ InSeq("disconnected", notified[c]) => ~open[c]
        /\ InSeq("lost", notified[c]) => throws > 0

\* A command reaches every session of its broadcast's snapshot that stays up,
\* however many of the others go down meanwhile; a frame may be left out, but
\* no broadcast comes to a session twice.
BroadcastReaches ==
    /\ \A b \in Broadcasters \ frames : \A c \in targets[b] :
           (connected[c] /\ ~InSeq(c, sending[b])) =>
               \E k \in DOMAIN pushed[c] : pushed[c][k] = [by |-> b, n |-> casts[b]]
    /\ \A c \in Clients : \A j, k \in DOMAIN pushed[c] :
           pushed[c][j] = pushed[c][k] => j = k

\* A request that has arrived on a session is taken from it, or the session
\* or the server ends.
RequestsServed ==
    \A c \in Clients :
        (inbox[c] # <<>>) ~> (inbox[c] = <<>> \/ ~connected[c] \/ ~running)

\* A session that goes down is taken off the list, by the reap or by Shutdown,
\* its socket closed and the modules told, unless an exception comes between
\* its removal and the report; one anywhere else only delays it.
EndsReported ==
    \A c \in Clients :
        (notified[c] \in OneReport /\ ~connected[c]) ~>
            (notified[c] \in TwoReports /\ ~open[c])

=============================================================================
