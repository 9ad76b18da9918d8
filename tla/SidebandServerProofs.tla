------------------------- MODULE SidebandServerProofs -------------------------
(***************************************************************************)
(* What SidebandServer keeps for any clients, requests, broadcasters and   *)
(* bounds: the authorisation, the types, who is on which list and what the *)
(* modules know of him, the poll set, the limit on failures, the answers   *)
(* to requests and the reach of broadcasts.                                *)
(***************************************************************************)
EXTENDS SidebandServer, FiniteSetTheorems, SequenceTheorems, TLAPS

\* What the argument needs of the types.
AuthTypes ==
    /\ authenticated \in [Clients -> BOOLEAN]
    /\ dispatched \in [Clients -> Seq(Request)]
    /\ changes \in [Clients -> SUBSET Nat]

\* A session is authenticated only if the token has come on it.
TokenSeen(c) == \E j \in 1..Len(dispatched[c]) : Good(dispatched[c][j])
AuthEarned(c) == authenticated[c] => hasToken /\ TokenSeen(c)

\* A change stands for a dispatched request with the token before it.
ChangeEarned(c) ==
    \A n \in changes[c] :
        /\ n \in 1..Len(dispatched[c])
        /\ hasToken
        /\ \E j \in 1..(n-1) : Good(dispatched[c][j])

AuthInv == AuthTypes /\ \A c \in Clients : AuthEarned(c) /\ ChangeEarned(c)

\* The variables AuthInv speaks of.
authState == <<hasToken, authenticated, dispatched, changes>>

-----------------------------------------------------------------------------

\* Every branch of OnCommand that changes the system belongs to a module that
\* declares the command as one that requires authentication: the tables of the
\* two modules agree with their handlers, and no other module takes the command.
LEMMA ChangesRequireAuth ==
  ASSUME NEW cmd \in Nat, ChangesSystem(cmd)
  PROVE  CommandRequiresAuth(HandlerOf(cmd), cmd)
<1>0. DOMAIN Modules = 1..3 /\ Modules[1] = "cursor" /\ Modules[2] = "display" /\ Modules[3] = "audio"
  BY DEF Modules
<1>1. CASE cmd \in {DISPLAY_SWITCH, DISPLAY_MODE_SET, DISPLAY_SCALE_SET}
  <2>1. Handlers(cmd) = {2}
    BY <1>0, <1>1 DEF Handlers, HandlesCommand, DISPLAY_LIST_REQ, DISPLAY_SWITCH,
       DISPLAY_MODE_LIST_REQ, DISPLAY_MODE_SET, DISPLAY_SCALE_SET, AUDIO_LIST_REQ,
       AUDIO_DEFAULT_SET, AUDIO_VOLUME_SET, AUDIO_MUTE_SET
  <2>2. HandlerOf(cmd) = "display"
    BY <1>0, <2>1 DEF HandlerOf
  <2> QED BY <1>1, <2>2 DEF CommandRequiresAuth
<1>2. CASE cmd \in {AUDIO_DEFAULT_SET, AUDIO_VOLUME_SET, AUDIO_MUTE_SET}
  <2>1. Handlers(cmd) = {3}
    BY <1>0, <1>2 DEF Handlers, HandlesCommand, DISPLAY_LIST_REQ, DISPLAY_SWITCH,
       DISPLAY_MODE_LIST_REQ, DISPLAY_MODE_SET, DISPLAY_SCALE_SET, AUDIO_LIST_REQ,
       AUDIO_DEFAULT_SET, AUDIO_VOLUME_SET, AUDIO_MUTE_SET
  <2>2. HandlerOf(cmd) = "audio"
    BY <1>0, <2>1 DEF HandlerOf
  <2> QED BY <1>2, <2>2 DEF CommandRequiresAuth
<1> QED BY <1>1, <1>2 DEF ChangesSystem

\* A dispatched request keeps the histories histories.
LEMMA AppendTyped ==
  ASSUME AuthTypes, NEW r \in Request,
         dispatched' = [dispatched EXCEPT ![cur] = Append(@, r)]
  PROVE  dispatched' \in [Clients -> Seq(Request)]
<1>1. CASE cur \in Clients
  <2>1. Append(dispatched[cur], r) \in Seq(Request)
    BY <1>1 DEF AuthTypes
  <2> QED BY <1>1, <2>1 DEF AuthTypes
<1>2. CASE cur \notin Clients
  <2>1. dispatched' = dispatched
    BY <1>2 DEF AuthTypes
  <2> QED BY <2>1 DEF AuthTypes
<1> QED BY <1>1, <1>2

\* It leaves what came before it where it was.
LEMMA AppendKeeps ==
  ASSUME AuthTypes, NEW r \in Request, NEW c \in Clients,
         dispatched' = [dispatched EXCEPT ![cur] = Append(@, r)]
  PROVE  /\ Len(dispatched[c]) \in Nat
         /\ c # cur => dispatched'[c] = dispatched[c]
         /\ c = cur => /\ Len(dispatched'[c]) = Len(dispatched[c]) + 1
                       /\ dispatched'[c][Len(dispatched[c]) + 1] = r
         /\ \A j \in 1..Len(dispatched[c]) : dispatched'[c][j] = dispatched[c][j]
<1>1. dispatched[c] \in Seq(Request)
  BY DEF AuthTypes
<1>2. dispatched' \in [Clients -> Seq(Request)]
  BY AppendTyped
<1>3. CASE c = cur
  <2>1. dispatched'[c] = Append(dispatched[c], r)
    BY <1>3 DEF AuthTypes
  <2> QED BY <1>1, <1>3, <2>1
<1>4. CASE c # cur
  BY <1>1, <1>4 DEF AuthTypes
<1> QED BY <1>3, <1>4

\* A request that changes nothing here: what is kept when the session's
\* authentication stays as it is or is earned by the request itself.
LEMMA RequestKeeps ==
  ASSUME AuthInv, NEW r \in Request,
         dispatched' = [dispatched EXCEPT ![cur] = Append(@, r)],
         UNCHANGED <<hasToken, changes>>,
         \/ UNCHANGED authenticated
         \/ /\ hasToken /\ Good(r)
            /\ authenticated' = [authenticated EXCEPT ![cur] = TRUE]
  PROVE  AuthInv'
<1>0. AuthTypes
  BY DEF AuthInv
<1>1. AuthTypes'
  <2>1. dispatched' \in [Clients -> Seq(Request)]
    BY <1>0, AppendTyped
  <2> QED BY <2>1 DEF AuthInv, AuthTypes
<1>2. ASSUME NEW c \in Clients PROVE AuthEarned(c)' /\ ChangeEarned(c)'
  <2>0. AuthEarned(c) /\ ChangeEarned(c)
    BY DEF AuthInv
  <2>1. ChangeEarned(c)'
    BY <1>0, <2>0, AppendKeeps DEF ChangeEarned
  <2>2. CASE authenticated'[c] = authenticated[c]
    <3>1. TokenSeen(c) => TokenSeen(c)'
      BY <1>0, AppendKeeps DEF TokenSeen
    <3>2. AuthEarned(c)'
      BY <2>0, <2>2, <3>1 DEF AuthEarned
    <3> QED BY <2>1, <3>2
  <2>3. CASE authenticated'[c] # authenticated[c]
    <3>1. c = cur /\ hasToken /\ Good(r)
      BY <2>3 DEF AuthInv, AuthTypes
    <3>2. TokenSeen(c)'
      <4> DEFINE n == Len(dispatched[c]) + 1
      <4>1. n \in 1..Len(dispatched'[c]) /\ dispatched'[c][n] = r
        <5>1. c = cur
          BY <3>1
        <5>2. Len(dispatched[c]) \in Nat /\ Len(dispatched'[c]) = Len(dispatched[c]) + 1
          BY <1>0, <5>1, AppendKeeps
        <5>3. dispatched'[c][n] = r
          BY <1>0, <5>1, AppendKeeps
        <5> QED BY <5>2, <5>3
      <4>2. Good(dispatched'[c][n])
        BY <3>1, <4>1
      <4> HIDE DEF n
      <4> QED BY <4>1, <4>2 DEF TokenSeen
    <3>3. AuthEarned(c)'
      BY <3>1, <3>2 DEF AuthEarned
    <3> QED BY <2>1, <3>3
  <2> QED BY <2>2, <2>3
<1> QED BY <1>1, <1>2 DEF AuthInv

-----------------------------------------------------------------------------

\* No change of the system without the token, dispatched earlier on the same
\* connection.  The invariant adds why: the flag m_authenticated is only ever
\* set by an AUTH_REQ with the token, and every command that changes something
\* is declared as one that needs the flag.
THEOREM AuthorisedChanges == Spec => []ChangesAuthorised
<1>1. Init => AuthInv
  BY DEF Init, AuthInv, AuthTypes, AuthEarned, ChangeEarned
<1>2. AuthInv /\ [Next]_vars => AuthInv'
  <2> SUFFICES ASSUME AuthInv, [Next]_vars PROVE AuthInv'
    OBVIOUS
  <2>0. ASSUME UNCHANGED authState PROVE AuthInv'
    BY <2>0 DEF authState, AuthInv, AuthTypes, AuthEarned, ChangeEarned, TokenSeen
  <2> USE DEF confVars, netVars, listVars, sessVars, authVars, loopVars, pollVars,
              castVars, histVars
  <2>1. ASSUME NEW c \in Clients, Client(c) PROVE AuthInv'
    <3>1. UNCHANGED authState
      BY <2>1 DEF Client, ClientConnects, ClientSends, ClientCloses, authState
    <3> QED BY <2>0, <3>1
  <2>2. CASE RoundStarts \/ BuildOne \/ BuildEnds \/ Poll \/ AcceptOne \/ Greet \/ AcceptEnds
    <3>1. UNCHANGED authState
      BY <2>2 DEF RoundStarts, BuildOne, BuildEnds, Poll, AcceptOne, Greet, AcceptEnds, authState
    <3> QED BY <2>0, <3>1
  <2>3. CASE ServeSkips \/ Receive \/ ReceiveEnds \/ ServeEnds
    <3>1. UNCHANGED authState
      BY <2>3 DEF ServeSkips, Receive, ReceiveEnds, ServeEnds, authState
    <3> QED BY <2>0, <3>1
  <2>4. CASE ReapOne \/ ReapEnds \/ CloseOne \/ RoundEnds
    <3>1. UNCHANGED authState
      BY <2>4 DEF ReapOne, ReapEnds, CloseOne, RoundEnds, authState
    <3> QED BY <2>0, <3>1
  <2>5. CASE MainThread
    <3>1. UNCHANGED authState
      BY <2>5 DEF MainThread, RequestStop, ShutdownStarts, ShutdownEnds, authState
    <3> QED BY <2>0, <3>1
  <2>6. ASSUME NEW b \in Broadcasters, Broadcast(b) PROVE AuthInv'
    <3>1. UNCHANGED authState
      BY <2>6 DEF Broadcast, Snapshot, SendNext, BroadcastThrows, authState
    <3> QED BY <2>0, <3>1
  <2>7. CASE CommandReturns \/ CommandThrows \/ CheckConnected
    <3>1. UNCHANGED authState
      BY <2>7 DEF CommandReturns, CommandThrows, CheckConnected, Send, authState
    <3> QED BY <2>0, <3>1
  <2>8. CASE DispatchCommon
    <3>1. PICK r \in Requests : Take(r) /\ UNCHANGED <<hasToken, changes, authenticated>>
      BY <2>8 DEF DispatchCommon
    <3> QED BY <3>1, RequestKeeps, BoundsAssumption DEF Take
  <2>9. CASE DispatchUnknown
    <3>1. PICK r \in Requests : Take(r) /\ UNCHANGED <<hasToken, changes, authenticated>>
      BY <2>9 DEF DispatchUnknown
    <3> QED BY <3>1, RequestKeeps, BoundsAssumption DEF Take
  <2>10. CASE DispatchUnauthorized
    <3>1. PICK r \in Requests : Take(r) /\ UNCHANGED <<hasToken, changes, authenticated>>
      BY <2>10 DEF DispatchUnauthorized
    <3> QED BY <3>1, RequestKeeps, BoundsAssumption DEF Take
  <2>11. CASE HandleAuthLimit
    <3>1. PICK r \in Requests : Take(r) /\ UNCHANGED <<hasToken, changes, authenticated>>
      BY <2>11 DEF HandleAuthLimit
    <3> QED BY <3>1, RequestKeeps, BoundsAssumption DEF Take
  <2>12. CASE HandleAuth
    <3>1. PICK r \in Requests :
             /\ Take(r) /\ r.cmd = AUTH_REQ /\ UNCHANGED <<hasToken, changes>>
             /\ \/ UNCHANGED authenticated
                \/ Accepts(r) /\ authenticated' = [authenticated EXCEPT ![cur] = TRUE]
      BY <2>12 DEF HandleAuth
    <3>2. Accepts(r) => hasToken /\ Good(r)
      BY <3>1 DEF Accepts, Good
    <3> QED BY <3>1, <3>2, RequestKeeps, BoundsAssumption DEF Take
  <2>13. CASE DispatchToModule
    <3>1. PICK r \in Requests :
             /\ Take(r) /\ ~Unauthorized(r) /\ UNCHANGED <<hasToken, authenticated>>
             /\ changes' = IF ChangesSystem(r.cmd)
                           THEN [changes EXCEPT ![cur] = @ \cup {req}] ELSE changes
      BY <2>13 DEF DispatchToModule
    <3>2. r \in Request /\ dispatched' = [dispatched EXCEPT ![cur] = Append(@, r)]
      BY <3>1, BoundsAssumption DEF Take
    <3>0. AuthTypes
      BY DEF AuthInv
    <3>3. CASE ~ChangesSystem(r.cmd)
      BY <3>1, <3>2, <3>3, RequestKeeps
    <3>4. CASE ChangesSystem(r.cmd)
      <4>1. authenticated[cur]
        <5>1. r.cmd \in Nat
          BY <3>2 DEF Request
        <5>2. CommandRequiresAuth(HandlerOf(r.cmd), r.cmd)
          BY <3>4, <5>1, ChangesRequireAuth
        <5> QED BY <3>1, <5>2 DEF Unauthorized
      <4>2. ASSUME NEW c \in Clients
            PROVE  AuthEarned(c)' /\ ChangeEarned(c)' /\ changes'[c] \in SUBSET Nat
        <5>0. AuthEarned(c) /\ ChangeEarned(c) /\ changes[c] \in SUBSET Nat
          BY DEF AuthInv, AuthTypes
        <5>1. TokenSeen(c) => TokenSeen(c)'
          BY <3>2, <3>0, AppendKeeps DEF TokenSeen
        <5>2. AuthEarned(c)'
          BY <3>1, <5>0, <5>1 DEF AuthEarned
        <5>3. ASSUME NEW n \in changes[c]
              PROVE  /\ n \in 1..Len(dispatched'[c]) /\ hasToken'
                     /\ \E j \in 1..(n-1) : Good(dispatched'[c][j])
          BY <3>1, <3>2, <5>0, <3>0, AppendKeeps DEF ChangeEarned
        <5>4. CASE c # cur
          <6>1. changes'[c] = changes[c]
            BY <3>1, <5>4 DEF AuthInv, AuthTypes
          <6> QED BY <5>0, <5>2, <5>3, <6>1 DEF ChangeEarned
        <5>5. CASE c = cur
          <6>1. changes'[c] = changes[c] \cup {req}
            BY <3>1, <3>4, <5>5 DEF AuthInv, AuthTypes
          <6>2. hasToken' /\ TokenSeen(c)
            BY <3>1, <4>1, <5>0, <5>5 DEF AuthEarned
          <6>3. req = Len(dispatched[c]) + 1 /\ Len(dispatched[c]) \in Nat
            BY <3>2, <5>5, <3>0, AppendKeeps DEF req
          <6>4. req \in 1..Len(dispatched'[c]) /\ req \in Nat
            <7>1. Len(dispatched'[c]) = Len(dispatched[c]) + 1
              BY <3>0, <3>2, <5>5, AppendKeeps
            <7> HIDE DEF req
            <7> QED BY <6>3, <7>1
          <6>5. \E j \in 1..(req - 1) : Good(dispatched'[c][j])
            BY <3>2, <6>2, <6>3, <3>0, AppendKeeps DEF TokenSeen
          <6>6. ChangeEarned(c)'
            BY <5>3, <6>1, <6>2, <6>4, <6>5 DEF ChangeEarned
          <6> QED BY <5>0, <5>2, <6>1, <6>4, <6>6
        <5> QED BY <5>4, <5>5
      <4>3. changes' \in [Clients -> SUBSET Nat] /\ dispatched' \in [Clients -> Seq(Request)]
        <5>1. changes' = [changes EXCEPT ![cur] = @ \cup {req}]
          BY <3>1, <3>4
        <5>2. DOMAIN changes' = Clients /\ changes' = [c \in Clients |-> changes'[c]]
          BY <5>1 DEF AuthInv, AuthTypes
        <5> QED BY <3>0, <3>2, <4>2, <5>2, AppendTyped DEF AuthInv, AuthTypes
      <4> QED BY <3>1, <4>2, <4>3 DEF AuthInv, AuthTypes
    <3> QED BY <3>3, <3>4
  <2>14. CASE UNCHANGED vars
    <3>1. UNCHANGED authState
      BY <2>14 DEF vars, authState
    <3> QED BY <2>0, <3>1
  <2>15. CASE Exceptions
    <3>1. UNCHANGED authState
      BY <2>15 DEF Exceptions, PollFails, RoundThrows, AcceptThrows, GreetThrows, ReapThrows,
                   Throws, authState
    <3> QED BY <2>0, <3>1
  <2> QED BY <2>1, <2>2, <2>3, <2>4, <2>5, <2>6, <2>7, <2>8, <2>9, <2>10, <2>11,
             <2>12, <2>13, <2>14, <2>15 DEF Next, Round, Dispatch
<1>3. AuthInv => ChangesAuthorised
  BY DEF AuthInv, ChangeEarned, ChangesAuthorised
<1> QED BY <1>1, <1>2, <1>3, PTL DEF Spec

-----------------------------------------------------------------------------
(* The types of the whole server, in the groups the actions change. *)

ConfTypes ==
    /\ hasToken \in BOOLEAN
    /\ running \in BOOLEAN
    /\ frames \subseteq Broadcasters
    /\ throws \in Nat

NetTypes ==
    /\ backlog \in Seq(Clients)
    /\ inbox \in [Clients -> Seq(Request)]
    /\ fin \in [Clients -> BOOLEAN]
    /\ sent \in [Clients -> Nat]

ListTypes ==
    /\ clients \in Seq(Clients)
    /\ doomed \in Seq(Clients)
    /\ notified \in [Clients -> Seq({"connected", "disconnected", "lost"})]

SessTypes ==
    /\ connected \in [Clients -> BOOLEAN]
    /\ open \in [Clients -> BOOLEAN]
    /\ rx \in [Clients -> Seq(Request)]

FlagTypes ==
    /\ authenticated \in [Clients -> BOOLEAN]
    /\ authFailures \in [Clients -> Nat]

LoopTypes ==
    /\ at \in Places
    /\ i \in Nat \ {0}
    /\ cur \in Clients \cup {NoClient}
    /\ (cur = NoClient) <=> at \notin {"greet", "dispatch", "execute", "check"}

PollTypes ==
    /\ fds \in Seq(Clients \cup {Listen})
    /\ polled \in Seq(Clients)
    /\ ready \subseteq Nat

CastTypes ==
    /\ sending \in [Broadcasters -> Seq(Clients)]
    /\ targets \in [Broadcasters -> SUBSET Clients]
    /\ casts \in [Broadcasters -> Nat]
    /\ pushed \in [Clients -> Seq([by : Broadcasters, n : Nat])]

HistTypes ==
    /\ outbox \in [Clients -> Seq([cmd : Nat, req : Nat])]
    /\ dispatched \in [Clients -> Seq(Request)]
    /\ changes \in [Clients -> SUBSET Nat]
    /\ threw \in [Clients -> SUBSET Nat]

Types ==
    /\ ConfTypes /\ NetTypes /\ ListTypes /\ SessTypes /\ FlagTypes
    /\ LoopTypes /\ PollTypes /\ CastTypes /\ HistTypes

\* Changing one value of a function keeps its type.
LEMMA UpdateTyped ==
  ASSUME NEW D, NEW S, NEW f \in [D -> S], NEW x, NEW y \in S
  PROVE  [f EXCEPT ![x] = y] \in [D -> S]
OBVIOUS

\* Part of a sequence has the elements' type.
LEMMA PartTyped ==
  ASSUME NEW S, NEW s \in Seq(S), NEW a \in Nat \ {0}, NEW b \in 0..Len(s)
  PROVE  SubSeq(s, a, b) \in Seq(S)
OBVIOUS

\* Whatever a request is answered with is a command.
LEMMA RepliesTyped ==
  ASSUME NEW cmd \in Nat
  PROVE  ResponseCommandFor(cmd) \in Nat /\ ReplyOfOnCommand(cmd) \in Nat
BY DEF ResponseCommandFor, ReplyOfOnCommand, DISPLAY_LIST_REQ, DISPLAY_SWITCH,
       DISPLAY_MODE_LIST_REQ, DISPLAY_MODE_SET, DISPLAY_SCALE_SET, AUDIO_LIST_REQ,
       DISPLAY_LIST_RESP, DISPLAY_MODE_LIST_RESP, DISPLAY_CURRENT, AUDIO_LIST_RESP,
       AUDIO_OP_RESP

\* SendCommand keeps the types, whether the packet is accepted or not.
LEMMA SendTyped ==
  ASSUME SessTypes, HistTypes, NEW c \in Clients, NEW cmd \in Nat, NEW n \in Nat,
         Send(c, cmd, n)
  PROVE  /\ connected' \in [Clients -> BOOLEAN]
         /\ outbox' \in [Clients -> Seq([cmd : Nat, req : Nat])]
<1>1. Append(outbox[c], [cmd |-> cmd, req |-> n]) \in Seq([cmd : Nat, req : Nat])
  BY DEF HistTypes
<1>2. CASE outbox' = [outbox EXCEPT ![c] = Append(@, [cmd |-> cmd, req |-> n])]
  BY <1>1, <1>2 DEF HistTypes, SessTypes, Send
<1>3. CASE UNCHANGED outbox
  BY <1>3 DEF HistTypes, SessTypes, Send
<1> QED BY <1>2, <1>3 DEF Send

\* The next request of the session being served.
LEMMA TakeTyped ==
  ASSUME SessTypes, LoopTypes, HistTypes, NEW r \in Requests, Take(r)
  PROVE  /\ cur \in Clients /\ r \in Request /\ req \in Nat
         /\ dispatched' \in [Clients -> Seq(Request)]
         /\ Consumed => rx' \in [Clients -> Seq(Request)]
<1>1. cur \in Clients /\ r \in Request /\ r.cmd \in Nat
  BY BoundsAssumption, ClientsAssumption DEF Take, LoopTypes, Request
<1>2. Append(dispatched[cur], r) \in Seq(Request) /\ req \in Nat
  BY <1>1 DEF HistTypes, req
<1>3. Tail(rx[cur]) \in Seq(Request)
  BY <1>1 DEF SessTypes, Take
<1>4. dispatched' \in [Clients -> Seq(Request)]
  BY <1>2 DEF Take, HistTypes
<1>5. Consumed => rx' \in [Clients -> Seq(Request)]
  BY <1>3 DEF Consumed, SessTypes
<1> QED BY <1>1, <1>2, <1>4, <1>5

\* The groups of types hold together, whatever is done.
LEMMA TypesHold == Spec => []Types
<1>1. Init => Types
  BY BoundsAssumption, ClientsAssumption
     DEF Init, Types, ConfTypes, NetTypes, ListTypes, SessTypes, FlagTypes, LoopTypes,
         PollTypes, CastTypes, HistTypes, Places
<1>2. Types /\ [Next]_vars => Types'
  <2> SUFFICES ASSUME Types, [Next]_vars PROVE Types'
    OBVIOUS
  <2> USE DEF confVars, netVars, listVars, sessVars, authVars, loopVars, pollVars,
              castVars, histVars
  <2>0. /\ ConfTypes /\ NetTypes /\ ListTypes /\ SessTypes /\ FlagTypes
        /\ LoopTypes /\ PollTypes /\ CastTypes /\ HistTypes
    BY DEF Types
  \* What an action leaves alone keeps its type.
  <2>k. /\ UNCHANGED confVars => ConfTypes'
        /\ UNCHANGED netVars => NetTypes'
        /\ UNCHANGED listVars => ListTypes'
        /\ UNCHANGED sessVars => SessTypes'
        /\ UNCHANGED authVars => FlagTypes'
        /\ UNCHANGED loopVars => LoopTypes'
        /\ UNCHANGED pollVars => PollTypes'
        /\ UNCHANGED castVars => CastTypes'
        /\ UNCHANGED histVars => HistTypes'
    BY <2>0 DEF ConfTypes, NetTypes, ListTypes, SessTypes, FlagTypes, LoopTypes,
                PollTypes, CastTypes, HistTypes
  <2>1. ASSUME NEW c \in Clients, Client(c) PROVE Types'
    <3>0. UNCHANGED <<confVars, listVars, sessVars, authVars, loopVars, pollVars,
           castVars, histVars>>
      BY <2>1 DEF Client, ClientConnects, ClientSends, ClientCloses
    <3>1. NetTypes'
      <4>1. CASE ClientConnects(c)
        BY <2>0, <4>1 DEF ClientConnects, NetTypes
      <4>2. CASE ClientSends(c)
        <5>1. PICK r \in Requests : inbox' = [inbox EXCEPT ![c] = Append(@, r)]
          BY <4>2 DEF ClientSends
        <5>2. Append(inbox[c], r) \in Seq(Request)
          BY <2>0, BoundsAssumption DEF NetTypes
        <5>3. inbox' \in [Clients -> Seq(Request)]
          BY <2>0, <5>1, <5>2 DEF NetTypes
        <5> QED BY <2>0, <4>2, <5>3 DEF ClientSends, NetTypes
      <4>3. CASE ClientCloses(c)
        BY <2>0, <4>3 DEF ClientCloses, NetTypes
      <4> QED BY <2>1, <4>1, <4>2, <4>3 DEF Client
    <3> QED BY <2>0, <2>k, <3>0, <3>1 DEF Types
  <2>2. CASE BuildEnds \/ AcceptEnds \/ ReapEnds \/ RoundEnds \/ ShutdownEnds
    <3>0. UNCHANGED <<confVars, netVars, listVars, sessVars, authVars, pollVars, castVars,
           histVars>>
      BY <2>2 DEF BuildEnds, AcceptEnds, ReapEnds, RoundEnds, ShutdownEnds
    <3>1. LoopTypes'
      BY <2>0, <2>2, BoundsAssumption, ClientsAssumption DEF BuildEnds, AcceptEnds,
             ReapEnds, RoundEnds, ShutdownEnds, LoopTypes, Places, Take, NetTypes,
             SessTypes, PollTypes
    <3> QED BY <2>0, <2>k, <3>0, <3>1 DEF Types
  <2>3. CASE ServeSkips \/ ServeEnds
    <3>0. UNCHANGED <<confVars, netVars, listVars, sessVars, authVars, pollVars, castVars,
           histVars>>
      BY <2>3 DEF ServeSkips, ServeEnds
    <3>1. LoopTypes'
      <4>1. cur' = cur /\ i' \in Nat \ {0} /\ at' \in {"serve", "reap"} /\ at = "serve"
        BY <2>0, <2>3 DEF ServeSkips, ServeEnds, LoopTypes
      <4> QED BY <2>0, <4>1 DEF LoopTypes, Places
    <3> QED BY <2>0, <2>k, <3>0, <3>1 DEF Types
  <2>4. CASE RoundStarts
    <3>0. UNCHANGED <<confVars, netVars, listVars, authVars, castVars, histVars>>
      BY <2>4 DEF RoundStarts
    <3>3. SessTypes'
      BY <2>0, <2>4 DEF RoundStarts, SessTypes
    <3>1. LoopTypes'
      BY <2>0, <2>4, BoundsAssumption, ClientsAssumption DEF RoundStarts, LoopTypes,
             Places, Take, NetTypes, SessTypes, PollTypes
    <3>2. PollTypes'
      <4>1. <<Listen>> \in Seq(Clients \cup {Listen}) /\ <<>> \in Seq(Clients)
        OBVIOUS
      <4> QED BY <2>4, <4>1 DEF RoundStarts, PollTypes
    <3> QED BY <2>0, <2>k, <3>0, <3>1, <3>2, <3>3 DEF Types
  <2>5. CASE Poll
    <3>0. UNCHANGED <<confVars, netVars, listVars, sessVars, authVars, castVars, histVars>>
      BY <2>5 DEF Poll
    <3>1. LoopTypes'
      BY <2>0, <2>5, BoundsAssumption, ClientsAssumption DEF Poll, LoopTypes, Places,
             Take, NetTypes, SessTypes, PollTypes
    <3>2. PollTypes'
      BY <2>0, <2>5, BoundsAssumption, ClientsAssumption DEF Poll, PollTypes
    <3> QED BY <2>0, <2>k, <3>0, <3>1, <3>2 DEF Types
  <2>6. CASE BuildOne
    <3>0. UNCHANGED <<confVars, netVars, listVars, sessVars, authVars, castVars, histVars>>
      BY <2>6 DEF BuildOne
    <3>1. LoopTypes'
      BY <2>0, <2>6, BoundsAssumption, ClientsAssumption DEF BuildOne, LoopTypes, Places,
             Take, NetTypes, SessTypes, PollTypes
    <3>2. PollTypes'
      <4>1. clients[i] \in Clients
        BY <2>0, <2>6 DEF BuildOne, ListTypes, LoopTypes
      <4>2. /\ Append(fds, clients[i]) \in Seq(Clients \cup {Listen})
            /\ Append(polled, clients[i]) \in Seq(Clients)
        BY <2>0, <4>1 DEF PollTypes
      <4> QED BY <2>0, <2>6, <4>2 DEF BuildOne, PollTypes
    <3> QED BY <2>0, <2>k, <3>0, <3>1, <3>2 DEF Types
  <2>7. CASE AcceptOne
    <3>0. UNCHANGED <<confVars, authVars, pollVars, castVars, histVars>>
      BY <2>7 DEF AcceptOne
    <3>1. NetTypes'
      BY <2>0, <2>7, BoundsAssumption, ClientsAssumption DEF AcceptOne, NetTypes
    <3>2. ListTypes'
      BY <2>0, <2>7, BoundsAssumption, ClientsAssumption DEF AcceptOne, ListTypes,
             NetTypes, LoopTypes
    <3>3. SessTypes'
      BY <2>0, <2>7, BoundsAssumption, ClientsAssumption DEF AcceptOne, SessTypes, Take,
             ListTypes, NetTypes, LoopTypes
    <3>4. LoopTypes'
      BY <2>0, <2>7, BoundsAssumption, ClientsAssumption DEF AcceptOne, LoopTypes, Places,
             Take, NetTypes, SessTypes, PollTypes
    <3> QED BY <2>0, <2>k, <3>0, <3>1, <3>2, <3>3, <3>4 DEF Types
  <2>8. CASE Greet
    <3>0. UNCHANGED <<confVars, netVars, sessVars, authVars, pollVars, castVars, histVars>>
      BY <2>8 DEF Greet
    <3>1. ListTypes'
      BY <2>0, <2>8, BoundsAssumption, ClientsAssumption DEF Greet, ListTypes, NetTypes,
             LoopTypes
    <3>2. LoopTypes'
      BY <2>0, <2>8, BoundsAssumption, ClientsAssumption DEF Greet, LoopTypes, Places,
             Take, NetTypes, SessTypes, PollTypes
    <3> QED BY <2>0, <2>k, <3>0, <3>1, <3>2 DEF Types
  <2>9. CASE Receive
    <3>0. UNCHANGED <<confVars, listVars, authVars, pollVars, castVars, histVars>>
      BY <2>9 DEF Receive
    <3>1. NetTypes'
      <4>1. PICK k \in 1..Len(inbox[cur']) :
                 inbox' = [inbox EXCEPT ![cur'] = SubSeq(@, k + 1, Len(@))]
        BY <2>9 DEF Receive
      <4>2. polled[i] \in Clients /\ inbox[polled[i]] \in Seq(Request)
        BY <2>0, <2>9 DEF Receive, PollTypes, LoopTypes, NetTypes
      <4>3. SubSeq(inbox[polled[i]], k + 1, Len(inbox[polled[i]])) \in Seq(Request)
        BY <4>1, <4>2, <2>9, PartTyped DEF Receive
      <4> QED BY <2>0, <2>9, <4>1, <4>3 DEF Receive, NetTypes
    <3>2. SessTypes'
      <4>1. PICK k \in 1..Len(inbox[cur']) :
                 rx' = [rx EXCEPT ![cur'] = @ \o SubSeq(inbox[cur'], 1, k)]
        BY <2>9 DEF Receive
      <4>2. polled[i] \in Clients /\ inbox[polled[i]] \in Seq(Request)
        BY <2>0, <2>9 DEF Receive, PollTypes, LoopTypes, NetTypes
      <4>3. SubSeq(inbox[polled[i]], 1, k) \in Seq(Request)
        BY <4>1, <4>2, <2>9, PartTyped DEF Receive
      <4>4. rx[polled[i]] \o SubSeq(inbox[polled[i]], 1, k) \in Seq(Request)
        BY <2>0, <4>2, <4>3 DEF SessTypes
      <4> QED BY <2>0, <2>9, <4>1, <4>4 DEF Receive, SessTypes
    <3>3. LoopTypes'
      <4>1. cur' \in Clients /\ cur' # NoClient
        BY <2>0, <2>9, ClientsAssumption DEF Receive, PollTypes, LoopTypes
      <4> QED BY <2>0, <2>9, <4>1 DEF Receive, LoopTypes, Places
    <3> QED BY <2>0, <2>k, <3>0, <3>1, <3>2, <3>3 DEF Types
  <2>10. CASE ReceiveEnds
    <3>0. UNCHANGED <<confVars, listVars, authVars, pollVars, castVars, histVars>>
      BY <2>10 DEF ReceiveEnds
    <3>1. NetTypes'
      <4>1. polled[i] \in Clients /\ inbox' = [inbox EXCEPT ![polled[i]] = <<>>]
        BY <2>0, <2>10 DEF ReceiveEnds, PollTypes, LoopTypes
      <4>2. inbox' \in [Clients -> Seq(Request)]
        BY <2>0, <4>1 DEF NetTypes
      <4> QED BY <2>0, <2>10, <4>2 DEF ReceiveEnds, NetTypes
    <3>2. SessTypes'
      BY <2>0, <2>10, BoundsAssumption, ClientsAssumption DEF ReceiveEnds, SessTypes,
             Take, ListTypes, NetTypes, LoopTypes
    <3>3. LoopTypes'
      BY <2>0, <2>10, BoundsAssumption, ClientsAssumption DEF ReceiveEnds, LoopTypes,
             Places, Take, NetTypes, SessTypes, PollTypes
    <3> QED BY <2>0, <2>k, <3>0, <3>1, <3>2, <3>3 DEF Types
  <2>11. CASE DispatchCommon
    <3>0. UNCHANGED <<confVars, netVars, listVars, authVars, pollVars, castVars>>
      BY <2>11 DEF DispatchCommon
    <3>1. SessTypes'
      <4>1. PICK r \in Requests :
                 /\ Take(r) /\ Consumed /\ Send(cur, r.cmd, req)
                 /\ UNCHANGED <<open, changes, threw>>
        BY <2>11 DEF DispatchCommon
      <4>2. cur \in Clients /\ r \in Request /\ r.cmd \in Nat /\ req \in Nat
        BY <2>0, <4>1, TakeTyped DEF Request
      <4>3. r.cmd \in Nat
        BY <4>2
      <4>4. connected' \in [Clients -> BOOLEAN]
        BY <2>0, <4>1, <4>2, <4>3, SendTyped
      <4>5. rx' \in [Clients -> Seq(Request)]
        BY <2>0, <4>1, TakeTyped
      <4> QED BY <2>0, <4>1, <4>4, <4>5 DEF SessTypes
    <3>2. LoopTypes'
      BY <2>0, <2>11, BoundsAssumption, ClientsAssumption DEF DispatchCommon, LoopTypes,
             Places, Take, NetTypes, SessTypes, PollTypes
    <3>3. HistTypes'
      <4>1. PICK r \in Requests :
                 /\ Take(r) /\ Consumed /\ Send(cur, r.cmd, req)
                 /\ UNCHANGED <<open, changes, threw>>
        BY <2>11 DEF DispatchCommon
      <4>2. cur \in Clients /\ r \in Request /\ r.cmd \in Nat /\ req \in Nat
        BY <2>0, <4>1, TakeTyped DEF Request
      <4>3. r.cmd \in Nat
        BY <4>2
      <4>4. outbox' \in [Clients -> Seq([cmd : Nat, req : Nat])]
        BY <2>0, <4>1, <4>2, <4>3, SendTyped
      <4>5. dispatched' \in [Clients -> Seq(Request)]
        BY <2>0, <4>1, TakeTyped
      <4> QED BY <2>0, <4>1, <4>4, <4>5 DEF HistTypes
    <3> QED BY <2>0, <2>k, <3>0, <3>1, <3>2, <3>3 DEF Types
  <2>12. CASE DispatchUnauthorized
    <3>0. UNCHANGED <<confVars, netVars, listVars, authVars, pollVars, castVars>>
      BY <2>12 DEF DispatchUnauthorized
    <3>1. SessTypes'
      <4>1. PICK r \in Requests :
                 /\ Take(r) /\ Consumed /\ Send(cur, ResponseCommandFor(r.cmd), req)
                 /\ UNCHANGED <<open, changes, threw>>
        BY <2>12 DEF DispatchUnauthorized
      <4>2. cur \in Clients /\ r \in Request /\ r.cmd \in Nat /\ req \in Nat
        BY <2>0, <4>1, TakeTyped DEF Request
      <4>3. ResponseCommandFor(r.cmd) \in Nat
        BY <4>2, RepliesTyped
      <4>4. connected' \in [Clients -> BOOLEAN]
        BY <2>0, <4>1, <4>2, <4>3, SendTyped
      <4>5. rx' \in [Clients -> Seq(Request)]
        BY <2>0, <4>1, TakeTyped
      <4> QED BY <2>0, <4>1, <4>4, <4>5 DEF SessTypes
    <3>2. LoopTypes'
      BY <2>0, <2>12, BoundsAssumption, ClientsAssumption DEF DispatchUnauthorized,
             LoopTypes, Places, Take, NetTypes, SessTypes, PollTypes
    <3>3. HistTypes'
      <4>1. PICK r \in Requests :
                 /\ Take(r) /\ Consumed /\ Send(cur, ResponseCommandFor(r.cmd), req)
                 /\ UNCHANGED <<open, changes, threw>>
        BY <2>12 DEF DispatchUnauthorized
      <4>2. cur \in Clients /\ r \in Request /\ r.cmd \in Nat /\ req \in Nat
        BY <2>0, <4>1, TakeTyped DEF Request
      <4>3. ResponseCommandFor(r.cmd) \in Nat
        BY <4>2, RepliesTyped
      <4>4. outbox' \in [Clients -> Seq([cmd : Nat, req : Nat])]
        BY <2>0, <4>1, <4>2, <4>3, SendTyped
      <4>5. dispatched' \in [Clients -> Seq(Request)]
        BY <2>0, <4>1, TakeTyped
      <4> QED BY <2>0, <4>1, <4>4, <4>5 DEF HistTypes
    <3> QED BY <2>0, <2>k, <3>0, <3>1, <3>2, <3>3 DEF Types
  <2>13. CASE HandleAuth
    <3>0. UNCHANGED <<confVars, netVars, listVars, pollVars, castVars>>
      BY <2>13 DEF HandleAuth
    <3>1. SessTypes'
      <4>1. PICK r \in Requests :
                 /\ Take(r) /\ Consumed /\ Send(cur, AUTH_RESP, req)
                 /\ UNCHANGED <<open, changes, threw>>
        BY <2>13 DEF HandleAuth
      <4>2. cur \in Clients /\ r \in Request /\ r.cmd \in Nat /\ req \in Nat
        BY <2>0, <4>1, TakeTyped DEF Request
      <4>3. AUTH_RESP \in Nat
        BY <4>2 DEF AUTH_RESP
      <4>4. connected' \in [Clients -> BOOLEAN]
        BY <2>0, <4>1, <4>2, <4>3, SendTyped
      <4>5. rx' \in [Clients -> Seq(Request)]
        BY <2>0, <4>1, TakeTyped
      <4> QED BY <2>0, <4>1, <4>4, <4>5 DEF SessTypes
    <3>2. FlagTypes'
      <4>1. PICK r \in Requests :
                 /\ Take(r)
                 /\ \/ authenticated' = [authenticated EXCEPT ![cur] = TRUE] /\ UNCHANGED
                        authFailures
                    \/ UNCHANGED <<authenticated, authFailures>>
                    \/ /\ authFailures' = [authFailures EXCEPT ![cur] = @ + 1]
                       /\ UNCHANGED authenticated
        BY <2>13 DEF HandleAuth
      <4>2. cur \in Clients
        BY <2>0, <4>1, TakeTyped
      <4>3. authFailures[cur] + 1 \in Nat
        BY <2>0, <4>2 DEF FlagTypes
      <4> QED BY <2>0, <4>1, <4>3, UpdateTyped DEF FlagTypes
    <3>3. LoopTypes'
      BY <2>0, <2>13, BoundsAssumption, ClientsAssumption DEF HandleAuth, LoopTypes,
             Places, Take, NetTypes, SessTypes, PollTypes
    <3>4. HistTypes'
      <4>1. PICK r \in Requests :
                 /\ Take(r) /\ Consumed /\ Send(cur, AUTH_RESP, req)
                 /\ UNCHANGED <<open, changes, threw>>
        BY <2>13 DEF HandleAuth
      <4>2. cur \in Clients /\ r \in Request /\ r.cmd \in Nat /\ req \in Nat
        BY <2>0, <4>1, TakeTyped DEF Request
      <4>3. AUTH_RESP \in Nat
        BY <4>2 DEF AUTH_RESP
      <4>4. outbox' \in [Clients -> Seq([cmd : Nat, req : Nat])]
        BY <2>0, <4>1, <4>2, <4>3, SendTyped
      <4>5. dispatched' \in [Clients -> Seq(Request)]
        BY <2>0, <4>1, TakeTyped
      <4> QED BY <2>0, <4>1, <4>4, <4>5 DEF HistTypes
    <3> QED BY <2>0, <2>k, <3>0, <3>1, <3>2, <3>3, <3>4 DEF Types
  <2>14. CASE HandleAuthLimit
    <3>0. UNCHANGED <<confVars, netVars, listVars, pollVars, castVars>>
      BY <2>14 DEF HandleAuthLimit
    <3>1. SessTypes'
      BY <2>0, <2>14, BoundsAssumption, ClientsAssumption DEF HandleAuthLimit, SessTypes,
             Take, ListTypes, NetTypes, LoopTypes
    <3>2. FlagTypes'
      BY <2>0, <2>14, BoundsAssumption, ClientsAssumption DEF HandleAuthLimit, FlagTypes,
             Take, LoopTypes
    <3>3. LoopTypes'
      BY <2>0, <2>14, BoundsAssumption, ClientsAssumption DEF HandleAuthLimit, LoopTypes,
             Places, Take, NetTypes, SessTypes, PollTypes
    <3>4. HistTypes'
      <4>1. PICK r \in Requests :
                 /\ Take(r) /\ UNCHANGED <<changes, threw>>
                 /\ \/ outbox' = [outbox EXCEPT ![cur] = Append(@, [cmd |-> AUTH_RESP, req
                        |-> req])]
                    \/ UNCHANGED outbox
        BY <2>14 DEF HandleAuthLimit
      <4>2. cur \in Clients /\ req \in Nat /\ dispatched' \in [Clients -> Seq(Request)]
        BY <2>0, <4>1, TakeTyped
      <4>3. Append(outbox[cur], [cmd |-> AUTH_RESP, req |-> req]) \in Seq([cmd : Nat, req
             : Nat])
        BY <2>0, <4>2 DEF HistTypes, AUTH_RESP
      <4>4. outbox' \in [Clients -> Seq([cmd : Nat, req : Nat])]
        BY <2>0, <4>1, <4>3 DEF HistTypes
      <4> QED BY <2>0, <4>1, <4>2, <4>4 DEF HistTypes
    <3> QED BY <2>0, <2>k, <3>0, <3>1, <3>2, <3>3, <3>4 DEF Types
  <2>15. CASE DispatchUnknown
    <3>0. UNCHANGED <<confVars, netVars, listVars, authVars, pollVars, castVars>>
      BY <2>15 DEF DispatchUnknown
    <3>1. SessTypes'
      <4>1. PICK r \in Requests : Take(r) /\ Consumed /\ UNCHANGED <<connected, open>>
        BY <2>15 DEF DispatchUnknown
      <4> QED BY <2>0, <4>1, TakeTyped DEF SessTypes
    <3>2. LoopTypes'
      BY <2>0, <2>15, BoundsAssumption, ClientsAssumption DEF DispatchUnknown, LoopTypes,
             Places, Take, NetTypes, SessTypes, PollTypes
    <3>3. HistTypes'
      <4>1. PICK r \in Requests : Take(r) /\ UNCHANGED <<outbox, changes, threw>>
        BY <2>15 DEF DispatchUnknown
      <4> QED BY <2>0, <4>1, TakeTyped DEF HistTypes
    <3> QED BY <2>0, <2>k, <3>0, <3>1, <3>2, <3>3 DEF Types
  <2>16. CASE DispatchToModule
    <3>0. UNCHANGED <<confVars, netVars, listVars, authVars, pollVars, castVars>>
      BY <2>16 DEF DispatchToModule
    <3>1. SessTypes'
      <4>1. PICK r \in Requests : Take(r) /\ Consumed /\ UNCHANGED <<connected, open>>
        BY <2>16 DEF DispatchToModule
      <4> QED BY <2>0, <4>1, TakeTyped DEF SessTypes
    <3>2. LoopTypes'
      BY <2>0, <2>16, BoundsAssumption, ClientsAssumption DEF DispatchToModule, LoopTypes,
             Places, Take, NetTypes, SessTypes, PollTypes
    <3>3. HistTypes'
      <4>1. PICK r \in Requests :
                 /\ Take(r) /\ UNCHANGED <<outbox, threw>>
                 /\ \/ changes' = [changes EXCEPT ![cur] = @ \cup {req}]
                    \/ UNCHANGED changes
        BY <2>16 DEF DispatchToModule
      <4>2. cur \in Clients /\ req \in Nat /\ dispatched' \in [Clients -> Seq(Request)]
        BY <2>0, <4>1, TakeTyped
      <4>3. changes[cur] \cup {req} \in SUBSET Nat
        BY <2>0, <4>2 DEF HistTypes
      <4>4. changes' \in [Clients -> SUBSET Nat]
        BY <2>0, <4>1, <4>3, UpdateTyped DEF HistTypes
      <4> QED BY <2>0, <4>1, <4>2, <4>4 DEF HistTypes
    <3> QED BY <2>0, <2>k, <3>0, <3>1, <3>2, <3>3 DEF Types
  <2>17. CASE CommandReturns
    <3>0. UNCHANGED <<confVars, netVars, listVars, authVars, pollVars, castVars>>
      BY <2>17 DEF CommandReturns
    <3>1. SessTypes'
      <4> DEFINE n == Len(dispatched[cur])
                 m == ReplyOfOnCommand(dispatched[cur][n].cmd)
      <4>1. cur \in Clients
        BY <2>0, <2>17 DEF CommandReturns, LoopTypes
      <4>2. n \in Nat /\ m \in Nat
        BY <2>0, <4>1 DEF HistTypes, ReplyOfOnCommand, DISPLAY_LIST_RESP, DISPLAY_CURRENT,
              DISPLAY_MODE_LIST_RESP, DISPLAY_SCALE_SET, AUDIO_LIST_RESP, AUDIO_OP_RESP
      <4>3. Send(cur, m, n)
        BY <2>17 DEF CommandReturns
      <4> HIDE DEF n, m
      <4>4. connected' \in [Clients -> BOOLEAN]
        BY <2>0, <4>1, <4>2, <4>3, SendTyped
      <4> QED BY <2>0, <2>17, <4>4 DEF CommandReturns, SessTypes
    <3>2. LoopTypes'
      BY <2>0, <2>17, BoundsAssumption, ClientsAssumption DEF CommandReturns, LoopTypes,
             Places, Take, NetTypes, SessTypes, PollTypes
    <3>3. HistTypes'
      <4> DEFINE n == Len(dispatched[cur])
                 m == ReplyOfOnCommand(dispatched[cur][n].cmd)
      <4>1. cur \in Clients
        BY <2>0, <2>17 DEF CommandReturns, LoopTypes
      <4>2. n \in Nat /\ m \in Nat
        BY <2>0, <4>1 DEF HistTypes, ReplyOfOnCommand, DISPLAY_LIST_RESP, DISPLAY_CURRENT,
              DISPLAY_MODE_LIST_RESP, DISPLAY_SCALE_SET, AUDIO_LIST_RESP, AUDIO_OP_RESP
      <4>3. Send(cur, m, n)
        BY <2>17 DEF CommandReturns
      <4> HIDE DEF n, m
      <4>4. outbox' \in [Clients -> Seq([cmd : Nat, req : Nat])]
        BY <2>0, <4>1, <4>2, <4>3, SendTyped
      <4> QED BY <2>0, <2>17, <4>4 DEF CommandReturns, HistTypes
    <3> QED BY <2>0, <2>k, <3>0, <3>1, <3>2, <3>3 DEF Types
  <2>18. CASE CommandThrows
    <3>0. UNCHANGED <<confVars, netVars, listVars, sessVars, authVars, pollVars, castVars>>
      BY <2>18 DEF CommandThrows
    <3>1. LoopTypes'
      BY <2>0, <2>18, BoundsAssumption, ClientsAssumption DEF CommandThrows, LoopTypes,
             Places, Take, NetTypes, SessTypes, PollTypes
    <3>2. HistTypes'
      BY <2>0, <2>18, BoundsAssumption, ClientsAssumption DEF CommandThrows, HistTypes,
             LoopTypes
    <3> QED BY <2>0, <2>k, <3>0, <3>1, <3>2 DEF Types
  <2>19. CASE CheckConnected
    <3>0. UNCHANGED <<confVars, netVars, listVars, authVars, pollVars, castVars, histVars>>
      BY <2>19 DEF CheckConnected
    <3>1. SessTypes'
      <4>1. UNCHANGED <<connected, open>> /\ (UNCHANGED rx \/ rx' = [rx EXCEPT ![cur] =
             <<>>])
        BY <2>19 DEF CheckConnected
      <4>2. <<>> \in Seq(Request)
        OBVIOUS
      <4>3. [rx EXCEPT ![cur] = <<>>] \in [Clients -> Seq(Request)]
        BY <2>0, <4>2, UpdateTyped DEF SessTypes
      <4> QED BY <2>0, <4>1, <4>3 DEF SessTypes
    <3>2. LoopTypes'
      BY <2>0, <2>19, BoundsAssumption, ClientsAssumption DEF CheckConnected, LoopTypes,
             Places, Take, NetTypes, SessTypes, PollTypes
    <3> QED BY <2>0, <2>k, <3>0, <3>1, <3>2 DEF Types
  <2>20. CASE ReapOne
    <3>0. UNCHANGED <<confVars, netVars, sessVars, authVars, pollVars, castVars, histVars>>
      BY <2>20 DEF ReapOne
    <3>1. ListTypes'
      <4>1. i \in 1..Len(clients) /\ clients[i] \in Clients
        BY <2>0, <2>20 DEF ReapOne, ListTypes, LoopTypes
      <4>2. SubSeq(clients, 1, i - 1) \in Seq(Clients) /\ SubSeq(clients, i + 1,
             Len(clients)) \in Seq(Clients)
        BY <2>0, <4>1, PartTyped DEF ListTypes
      <4>3. DropAt(clients, i) \in Seq(Clients) /\ Append(doomed, clients[i]) \in
             Seq(Clients)
        BY <2>0, <4>1, <4>2 DEF DropAt, ListTypes
      <4> QED BY <2>0, <2>20, <4>3 DEF ReapOne, ListTypes
    <3>2. LoopTypes'
      <4>1. at' = at /\ cur' = cur /\ (i' = i \/ i' = i + 1)
        BY <2>20 DEF ReapOne
      <4> QED BY <2>0, <4>1 DEF LoopTypes
    <3> QED BY <2>0, <2>k, <3>0, <3>1, <3>2 DEF Types
  <2>21. CASE CloseOne
    <3>0. UNCHANGED <<confVars, netVars, authVars, loopVars, pollVars, castVars, histVars>>
      BY <2>21 DEF CloseOne
    <3>1. ListTypes'
      BY <2>0, <2>21, BoundsAssumption, ClientsAssumption DEF CloseOne, ListTypes,
             NetTypes, LoopTypes
    <3>2. SessTypes'
      BY <2>0, <2>21, BoundsAssumption, ClientsAssumption DEF CloseOne, SessTypes, Take,
             ListTypes, NetTypes, LoopTypes
    <3> QED BY <2>0, <2>k, <3>0, <3>1, <3>2 DEF Types
  <2>22. CASE PollFails
    <3>0. UNCHANGED <<netVars, listVars, sessVars, authVars, castVars, histVars>>
      BY <2>22 DEF PollFails
    <3>1. ConfTypes'
      BY <2>0, <2>22, BoundsAssumption DEF PollFails, ConfTypes
    <3>2. LoopTypes' /\ PollTypes'
      BY <2>0, <2>22 DEF PollFails, LoopTypes, PollTypes, Places
    <3> QED BY <2>0, <2>k, <3>0, <3>1, <3>2 DEF Types
  <2>28. CASE RoundThrows \/ AcceptThrows \/ GreetThrows \/ ReapThrows
    <3>0. UNCHANGED <<sessVars, authVars, pollVars, castVars, histVars>>
      BY <2>28 DEF RoundThrows, AcceptThrows, GreetThrows, ReapThrows, Throws
    <3>1. ConfTypes'
      BY <2>0, <2>28, BoundsAssumption DEF RoundThrows, AcceptThrows, GreetThrows,
         ReapThrows, Throws, ConfTypes
    <3>2. LoopTypes'
      <4>1. at' = "top" /\ UNCHANGED i
        BY <2>28 DEF RoundThrows, AcceptThrows, GreetThrows, ReapThrows, Throws
      <4>2. cur' = NoClient
        BY <2>0, <2>28 DEF RoundThrows, AcceptThrows, GreetThrows, ReapThrows, Throws,
           LoopTypes
      <4> QED BY <2>0, <4>1, <4>2 DEF LoopTypes, Places
    <3>3. NetTypes'
      <4>0. UNCHANGED backlog \/ (backlog # <<>> /\ backlog' = Tail(backlog))
        BY <2>28 DEF RoundThrows, AcceptThrows, GreetThrows, ReapThrows
      <4>1. backlog' \in Seq(Clients)
        <5>1. backlog \in Seq(Clients)
          BY <2>0 DEF NetTypes
        <5> QED BY <4>0, <5>1
      <4> QED BY <2>0, <2>28, <4>1 DEF RoundThrows, AcceptThrows, GreetThrows,
              ReapThrows, Throws, NetTypes
    <3>4. ListTypes'
      <4> DEFINE K == {"connected", "disconnected", "lost"}
      <4>0. UNCHANGED doomed \/ doomed' = <<>>
        BY <2>28 DEF RoundThrows, AcceptThrows, GreetThrows, ReapThrows
      <4>1. doomed' \in Seq(Clients)
        <5>1. doomed \in Seq(Clients) /\ <<>> \in Seq(Clients)
          BY <2>0 DEF ListTypes
        <5> QED BY <4>0, <5>1
      <4>2. \A c \in Clients : Append(notified[c], "lost") \in Seq(K)
        BY <2>0 DEF ListTypes
      <4>3. notified' \in [Clients -> Seq(K)]
        <5>1. CASE RoundThrows \/ AcceptThrows
          BY <2>0, <5>1 DEF RoundThrows, AcceptThrows, ListTypes
        <5>2. CASE GreetThrows
          <6>1. cur \in Clients
            BY <2>0, <5>2 DEF GreetThrows, Throws, LoopTypes
          <6> QED BY <2>0, <4>2, <5>2, <6>1, UpdateTyped DEF GreetThrows, ListTypes
        <5>3. CASE ReapThrows
          BY <2>0, <4>2, <5>3 DEF ReapThrows, ListTypes
        <5> QED BY <2>28, <5>1, <5>2, <5>3
      <4> QED BY <2>0, <2>28, <4>1, <4>3 DEF RoundThrows, AcceptThrows, GreetThrows,
              ReapThrows, Throws, ListTypes
    <3> QED BY <2>0, <2>k, <3>0, <3>1, <3>2, <3>3, <3>4 DEF Types
  <2>29. ASSUME NEW b \in Broadcasters, BroadcastThrows(b) PROVE Types'
    <3>0. UNCHANGED <<netVars, listVars, sessVars, authVars, loopVars, pollVars, histVars>>
      BY <2>29 DEF BroadcastThrows
    <3>1. ConfTypes'
      BY <2>0, <2>29, BoundsAssumption DEF BroadcastThrows, ConfTypes
    <3>2. CastTypes'
      <4> DEFINE rest == {c \in targets[b] : \A k \in DOMAIN sending[b] : sending[b][k] # c}
      <4>1. rest \in SUBSET Clients /\ targets' = [targets EXCEPT ![b] = rest]
        BY <2>0, <2>29 DEF BroadcastThrows, CastTypes
      <4>2. <<>> \in Seq(Clients) /\ sending' = [sending EXCEPT ![b] = <<>>]
        BY <2>29 DEF BroadcastThrows
      <4> HIDE DEF rest
      <4>3. targets' \in [Broadcasters -> SUBSET Clients]
        BY <2>0, <4>1, UpdateTyped DEF CastTypes
      <4>4. sending' \in [Broadcasters -> Seq(Clients)]
        BY <2>0, <4>2, UpdateTyped DEF CastTypes
      <4> QED BY <2>0, <2>29, <4>3, <4>4 DEF BroadcastThrows, CastTypes
    <3> QED BY <2>0, <2>k, <3>0, <3>1, <3>2 DEF Types
  <2>23. CASE RequestStop
    <3>0. UNCHANGED <<netVars, listVars, sessVars, authVars, loopVars, pollVars, castVars,
           histVars>>
      BY <2>23 DEF RequestStop
    <3>1. ConfTypes'
      BY <2>0, <2>23, BoundsAssumption, ClientsAssumption DEF RequestStop, ConfTypes
    <3> QED BY <2>0, <2>k, <3>0, <3>1 DEF Types
  <2>24. CASE ShutdownStarts
    <3>0. UNCHANGED <<confVars, sessVars, authVars, pollVars, castVars, histVars>>
      BY <2>24 DEF ShutdownStarts
    <3>1. NetTypes'
      BY <2>0, <2>24, BoundsAssumption, ClientsAssumption DEF ShutdownStarts, NetTypes
    <3>2. ListTypes'
      BY <2>0, <2>24, BoundsAssumption, ClientsAssumption DEF ShutdownStarts, ListTypes,
             NetTypes, LoopTypes
    <3>3. LoopTypes'
      BY <2>0, <2>24, BoundsAssumption, ClientsAssumption DEF ShutdownStarts, LoopTypes,
             Places, Take, NetTypes, SessTypes, PollTypes
    <3> QED BY <2>0, <2>k, <3>0, <3>1, <3>2, <3>3 DEF Types
  <2>25. ASSUME NEW b \in Broadcasters, Snapshot(b) PROVE Types'
    <3>0. UNCHANGED <<confVars, netVars, listVars, sessVars, authVars, loopVars, pollVars,
           histVars>>
      BY <2>25 DEF Snapshot
    <3>1. CastTypes'
      <4>1. {clients[k] : k \in DOMAIN clients} \in SUBSET Clients
        BY <2>0 DEF ListTypes
      <4>2. targets' \in [Broadcasters -> SUBSET Clients]
        BY <2>0, <2>25, <4>1, UpdateTyped DEF Snapshot, CastTypes
      <4>3. sending' \in [Broadcasters -> Seq(Clients)]
        BY <2>0, <2>25, UpdateTyped DEF Snapshot, CastTypes, ListTypes
      <4>4. casts' \in [Broadcasters -> Nat] /\ UNCHANGED pushed
        BY <2>0, <2>25 DEF Snapshot, CastTypes
      <4> QED BY <2>0, <4>2, <4>3, <4>4 DEF CastTypes
    <3> QED BY <2>0, <2>k, <3>0, <3>1 DEF Types
  <2>26. ASSUME NEW b \in Broadcasters, SendNext(b) PROVE Types'
    <3>0. UNCHANGED <<confVars, netVars, listVars, authVars, loopVars, pollVars, histVars>>
      BY <2>26 DEF SendNext
    <3>1. SessTypes'
      BY <2>0, <2>26, BoundsAssumption, ClientsAssumption DEF SendNext, SessTypes, Take,
             ListTypes, NetTypes, LoopTypes
    <3>2. CastTypes'
      <4> DEFINE d == Head(sending[b])
                 p == [by |-> b, n |-> casts[b]]
      <4>1. d \in Clients /\ p \in [by : Broadcasters, n : Nat] /\ Tail(sending[b]) \in
             Seq(Clients)
        BY <2>0, <2>26 DEF SendNext, CastTypes
      <4>2. sending' \in [Broadcasters -> Seq(Clients)]
        BY <2>0, <2>26, <4>1, UpdateTyped DEF SendNext, CastTypes
      <4>3. Append(pushed[d], p) \in Seq([by : Broadcasters, n : Nat])
        <5> HIDE DEF d, p
        <5>1. pushed[d] \in Seq([by : Broadcasters, n : Nat])
          BY <2>0, <4>1 DEF CastTypes
        <5> QED BY <4>1, <5>1
      <4>4. UNCHANGED pushed \/ pushed' = [pushed EXCEPT ![d] = Append(@, p)]
        BY <2>26 DEF SendNext
      <4>5. pushed' \in [Clients -> Seq([by : Broadcasters, n : Nat])]
        <5> HIDE DEF d, p
        <5>1. pushed \in [Clients -> Seq([by : Broadcasters, n : Nat])]
          BY <2>0 DEF CastTypes
        <5>2. CASE pushed' = [pushed EXCEPT ![d] = Append(pushed[d], p)]
          BY <4>3, <5>1, <5>2, UpdateTyped
        <5> QED BY <4>4, <5>1, <5>2
      <4> QED BY <2>0, <2>26, <4>2, <4>5 DEF SendNext, CastTypes
    <3> QED BY <2>0, <2>k, <3>0, <3>1, <3>2 DEF Types
  <2>27. CASE UNCHANGED vars
    BY <2>0, <2>k, <2>27 DEF vars, Types
  <2> QED BY <2>1, <2>2, <2>3, <2>4, <2>5, <2>6, <2>7, <2>8, <2>9, <2>10, <2>11, <2>12,
         <2>13, <2>14, <2>15, <2>16, <2>17, <2>18, <2>19, <2>20, <2>21, <2>22, <2>23,
         <2>24, <2>25, <2>26, <2>27, <2>28, <2>29
          DEF Next, Client, Round, Exceptions, Dispatch, MainThread, Broadcast
<1> QED BY <1>1, <1>2, PTL DEF Spec

\* Every variable keeps its type, and the main loop has a session at hand
\* exactly while it greets or serves one, for any clients and bounds.
THEOREM TypeCorrect == Spec => []TypeOK
<1>1. Types => TypeOK
  BY DEF Types, TypeOK, ConfTypes, NetTypes, ListTypes, SessTypes, FlagTypes, LoopTypes,
         PollTypes, CastTypes, HistTypes
<1> QED BY <1>1, TypesHold, PTL

-----------------------------------------------------------------------------
(* Who is on which list, and what the modules know of him. *)

\* No session twice.
Distinct(s) == \A j, k \in DOMAIN s : s[j] = s[k] => j = k

\* What Append adds to a list without repetitions.
LEMMA InAppend ==
  ASSUME NEW S, NEW s \in Seq(S), NEW x \in S
  PROVE  /\ \A c : InSeq(c, Append(s, x)) <=> InSeq(c, s) \/ c = x
         /\ Distinct(s) /\ ~InSeq(x, s) => Distinct(Append(s, x))
<1>1. /\ DOMAIN Append(s, x) = 1..(Len(s) + 1) /\ DOMAIN s = 1..Len(s) /\ Len(s) \in Nat
      /\ \A k \in 1..Len(s) : Append(s, x)[k] = s[k]
      /\ Append(s, x)[Len(s) + 1] = x
  OBVIOUS
<1> QED BY <1>1 DEF InSeq, Distinct

\* What Tail takes off it.
LEMMA InTail ==
  ASSUME NEW S, NEW s \in Seq(S), s # <<>>, Distinct(s)
  PROVE  /\ Head(s) \in S /\ InSeq(Head(s), s)
         /\ \A c : InSeq(c, Tail(s)) <=> InSeq(c, s) /\ c # Head(s)
         /\ Distinct(Tail(s))
<1>1. /\ DOMAIN Tail(s) = 1..(Len(s) - 1) /\ DOMAIN s = 1..Len(s) /\ Len(s) \in Nat \ {0}
      /\ \A k \in 1..(Len(s) - 1) : Tail(s)[k] = s[k + 1]
      /\ Head(s) = s[1] /\ Head(s) \in S
  OBVIOUS
<1>2. \A c : InSeq(c, Tail(s)) <=> InSeq(c, s) /\ c # Head(s)
  <2>1. ASSUME NEW c, InSeq(c, Tail(s)) PROVE InSeq(c, s) /\ c # Head(s)
    BY <1>1, <2>1 DEF InSeq, Distinct
  <2>2. ASSUME NEW c, InSeq(c, s), c # Head(s) PROVE InSeq(c, Tail(s))
    <3>1. PICK k \in 1..Len(s) : s[k] = c
      BY <1>1, <2>2 DEF InSeq
    <3>2. k - 1 \in 1..(Len(s) - 1) /\ Tail(s)[k - 1] = c
      BY <1>1, <2>2, <3>1
    <3> QED BY <1>1, <3>2 DEF InSeq
  <2> QED BY <2>1, <2>2
<1> QED BY <1>1, <1>2 DEF InSeq, Distinct

\* What DropAt takes off it.
LEMMA InDrop ==
  ASSUME NEW S, NEW s \in Seq(S), NEW n \in 1..Len(s), Distinct(s)
  PROVE  /\ s[n] \in S /\ InSeq(s[n], s)
         /\ \A c : InSeq(c, DropAt(s, n)) <=> InSeq(c, s) /\ c # s[n]
         /\ Distinct(DropAt(s, n))
<1> DEFINE d == DropAt(s, n)
<1>0. DOMAIN s = 1..Len(s) /\ Len(s) \in Nat
  OBVIOUS
<1>1. /\ DOMAIN d = 1..(Len(s) - 1)
      /\ \A k \in 1..(Len(s) - 1) : d[k] = IF k < n THEN s[k] ELSE s[k + 1]
  <2>1. /\ Len(SubSeq(s, 1, n - 1)) = n - 1 /\ SubSeq(s, 1, n - 1) \in Seq(S)
        /\ \A k \in 1..(n - 1) : SubSeq(s, 1, n - 1)[k] = s[k]
    OBVIOUS
  <2>2. /\ Len(SubSeq(s, n + 1, Len(s))) = Len(s) - n /\ SubSeq(s, n + 1, Len(s)) \in Seq(S)
        /\ \A k \in 1..(Len(s) - n) : SubSeq(s, n + 1, Len(s))[k] = s[k + n]
    <3>1. n + 1 \in Nat /\ Len(s) \in Nat /\ n + 1 <= Len(s) + 1
      OBVIOUS
    <3> QED BY <3>1, SubSeqProperties
  <2> DEFINE a == SubSeq(s, 1, n - 1)
             b == SubSeq(s, n + 1, Len(s))
  <2>3. a \in Seq(S) /\ b \in Seq(S) /\ Len(a) = n - 1 /\ Len(b) = Len(s) - n
    BY <2>1, <2>2
  <2>4. d = a \o b
    BY DEF DropAt
  <2>5. /\ \A k \in 1..(n - 1) : a[k] = s[k]
        /\ \A k \in 1..(Len(s) - n) : b[k] = s[k + n]
    BY <2>1, <2>2
  <2> HIDE DEF a, b, d
  <2>6. /\ DOMAIN d = 1..(Len(s) - 1)
        /\ \A k \in 1..(Len(s) - 1) : d[k] = IF k < n THEN a[k] ELSE b[k - (n - 1)]
    <3>0. /\ a \o b \in Seq(S) /\ Len(a \o b) = Len(a) + Len(b)
          /\ \A k \in 1..(Len(a) + Len(b)) :
                 (a \o b)[k] = IF k <= Len(a) THEN a[k] ELSE b[k - Len(a)]
      BY <2>3, ConcatProperties
    <3>3. Len(a) + Len(b) = Len(s) - 1
      BY <1>0, <2>3
    <3>1. /\ Len(d) = Len(s) - 1 /\ d \in Seq(S)
          /\ \A k \in 1..(Len(s) - 1) : d[k] = IF k <= n - 1 THEN a[k] ELSE b[k - (n - 1)]
      BY <2>3, <2>4, <3>0, <3>3
    <3>2. DOMAIN d = 1..Len(d)
      BY <3>1
    <3> QED BY <1>0, <3>1, <3>2
  <2>7. ASSUME NEW k \in 1..(Len(s) - 1), ~(k < n) PROVE d[k] = s[k + 1]
    <3>1. k - (n - 1) \in 1..(Len(s) - n)
      BY <1>0, <2>7
    <3>2. b[k - (n - 1)] = s[k - (n - 1) + n]
      BY <2>5, <3>1
    <3>3. k - (n - 1) + n = k + 1
      BY <1>0
    <3> QED BY <2>6, <2>7, <3>2, <3>3
  <2>8. ASSUME NEW k \in 1..(Len(s) - 1), k < n PROVE d[k] = s[k]
    BY <1>0, <2>5, <2>6, <2>8
  <2> QED BY <2>6, <2>7, <2>8
<1> HIDE DEF d
<1>2. ASSUME NEW c, InSeq(c, d) PROVE InSeq(c, s) /\ c # s[n]
  BY <1>0, <1>1, <1>2 DEF InSeq, Distinct
<1>3. ASSUME NEW c, InSeq(c, s), c # s[n] PROVE InSeq(c, d)
  <2>1. PICK k \in 1..Len(s) : s[k] = c
    BY <1>0, <1>3 DEF InSeq
  <2>2. CASE k < n
    BY <1>0, <1>1, <2>1, <2>2 DEF InSeq
  <2>3. CASE k > n
    <3>1. k - 1 \in 1..(Len(s) - 1) /\ d[k - 1] = c
      BY <1>0, <1>1, <2>1, <2>3
    <3> QED BY <1>1, <3>1 DEF InSeq
  <2> QED BY <1>0, <1>3, <2>1, <2>2, <2>3
<1>4. Distinct(d)
  <2> SUFFICES ASSUME NEW j \in 1..(Len(s) - 1), NEW k \in 1..(Len(s) - 1), d[j] = d[k]
               PROVE  j = k
    BY <1>1 DEF Distinct
  <2> DEFINE at_(m) == IF m < n THEN m ELSE m + 1
  <2>1. at_(j) \in 1..Len(s) /\ at_(k) \in 1..Len(s)
    BY <1>0
  <2>2. d[j] = s[at_(j)] /\ d[k] = s[at_(k)]
    BY <1>1
  <2>3. at_(j) = at_(k)
    BY <1>0, <2>1, <2>2 DEF Distinct
  <2> QED BY <1>0, <2>3
<1>5. s[n] \in S /\ InSeq(s[n], s)
  BY <1>0 DEF InSeq
<1> QED BY <1>2, <1>3, <1>4, <1>5 DEF d

\* One report more: what it makes of the two kinds of history.
LEMMA Notices ==
  /\ \A x \in {"connected", "lost"} : Append(<<>>, x) \in OneReport
  /\ \A s \in OneReport : \A y \in {"disconnected", "lost"} :
         /\ Append(s, y) \in TwoReports
         /\ y = "lost" => ~InSeq("disconnected", Append(s, y))
         /\ InSeq("lost", Append(s, y)) => InSeq("lost", s) \/ y = "lost"
  /\ ~InSeq("lost", Append(<<>>, "connected"))
  /\ \A s \in OneReport : ~InSeq("disconnected", s) /\ Len(s) = 1
  /\ \A s \in TwoReports : s \notin OneReport /\ Len(s) = 2
  /\ <<>> \notin OneReport /\ <<>> \notin TwoReports /\ Len(<<>>) = 0
  /\ \A x : ~InSeq(x, <<>>)
<1>1. \A x \in {"connected", "lost"} : Append(<<>>, x) = <<x>>
  OBVIOUS
<1>2. ASSUME NEW x \in {"connected", "lost"}, NEW y \in {"disconnected", "lost"}
      PROVE  Append(<<x>>, y) = <<x, y>>
  <2> DEFINE K == {"connected", "disconnected", "lost"}
             a == Append(<<x>>, y)
             b == <<x, y>>
  <2>0. <<x>> \in Seq(K) /\ Len(<<x>>) = 1 /\ <<x>>[1] = x /\ y \in K
    OBVIOUS
  <2>1. a \in Seq(K) /\ Len(a) = 2 /\ a[1] = x /\ a[2] = y
    BY <2>0, AppendProperties
  <2>2. Len(b) = 2 /\ b[1] = x /\ b[2] = y /\ b \in Seq(K)
    OBVIOUS
  <2> HIDE DEF a, b, K
  <2>3. \A k \in 1..Len(a) : a[k] = b[k]
    BY <2>1, <2>2
  <2>4. a = b
    BY <2>1, <2>2, <2>3, SeqEqual
  <2> QED BY <2>4 DEF a, b
<1>3. ASSUME NEW s \in OneReport
      PROVE  Len(s) = 1 /\ ~InSeq("disconnected", s)
  <2>1. PICK x \in {"connected", "lost"} : s = <<x>>
    BY DEF OneReport
  <2>2. Len(s) = 1 /\ DOMAIN s = 1..1 /\ s[1] = x
    BY <2>1
  <2> QED BY <2>2 DEF InSeq
<1>4. ASSUME NEW s \in TwoReports
      PROVE  Len(s) = 2
  BY DEF TwoReports
<1>5. ASSUME NEW s \in OneReport, NEW y \in {"disconnected", "lost"}
      PROVE  /\ Append(s, y) \in TwoReports
             /\ y = "lost" => ~InSeq("disconnected", Append(s, y))
             /\ InSeq("lost", Append(s, y)) => InSeq("lost", s) \/ y = "lost"
  <2>1. PICK x \in {"connected", "lost"} : s = <<x>>
    BY DEF OneReport
  <2>2. Append(s, y) = <<x, y>>
    BY <1>2, <2>1
  <2>3. DOMAIN <<x, y>> = 1..2 /\ <<x, y>>[1] = x /\ <<x, y>>[2] = y
    OBVIOUS
  <2>4. DOMAIN s = 1..1 /\ s[1] = x
    BY <2>1
  <2>5. y = "lost" => ~InSeq("disconnected", Append(s, y))
    BY <2>2, <2>3 DEF InSeq
  <2>6. InSeq("lost", Append(s, y)) => InSeq("lost", s) \/ y = "lost"
    BY <2>2, <2>3, <2>4 DEF InSeq
  <2> QED BY <2>2, <2>5, <2>6 DEF TwoReports
<1>6. ~InSeq("lost", Append(<<>>, "connected"))
  <2>1. DOMAIN <<"connected">> = 1..1 /\ <<"connected">>[1] = "connected"
    OBVIOUS
  <2> QED BY <1>1, <2>1 DEF InSeq
<1>7. Len(<<>>) = 0 /\ DOMAIN <<>> = {}
  OBVIOUS
<1>8. \A x \in {"connected", "lost"} : Append(<<>>, x) \in OneReport
  BY <1>1 DEF OneReport
<1>9. \A x : ~InSeq(x, <<>>)
  BY <1>7 DEF InSeq
<1>10. <<>> \notin OneReport /\ <<>> \notin TwoReports
  BY <1>3, <1>4, <1>7
<1>11. \A s \in TwoReports : s \notin OneReport /\ Len(s) = 2
  BY <1>3, <1>4
<1> QED BY <1>3, <1>5, <1>6, <1>7, <1>8, <1>9, <1>10, <1>11

\* A connection not accepted yet is unknown to everybody.
Waiting(c) ==
    InSeq(c, backlog) => notified[c] = <<>> /\ ~open[c] /\ ~InSeq(c, clients)

BeingGreeted(c) == at = "greet" /\ cur = c

Come(c) == notified[c] \in OneReport
Gone(c) == notified[c] \in TwoReports

\* Of a session on the list the coming has been reported, but for the one just
\* accepted; of one taken off the list too, until it is closed or forgotten.
Member(c) ==
    /\ InSeq(c, clients) => Come(c) \/ BeingGreeted(c)
    /\ InSeq(c, clients) => ~InSeq(c, doomed)
    /\ InSeq(c, doomed) => Come(c)
    /\ Come(c) => InSeq(c, clients) \/ InSeq(c, doomed)
    /\ notified[c] = <<>> \/ Come(c) \/ Gone(c)
    /\ InSeq("disconnected", notified[c]) => ~open[c]
    /\ InSeq("lost", notified[c]) => throws > 0
    /\ BeingGreeted(c) => InSeq(c, clients) /\ notified[c] = <<>> /\ open[c]
    /\ open[c] /\ notified[c] = <<>> => BeingGreeted(c)

\* Only the reap and Shutdown have sessions to close.
Closing == doomed # <<>> => at \in {"reap", "close", "shutdown"}

MemberInv ==
    /\ Distinct(backlog) /\ Distinct(clients) /\ Distinct(doomed)
    /\ Closing
    /\ \A c \in Clients : Waiting(c) /\ Member(c)

\* A step that moves no session keeps all this.
LEMMA MemberKept ==
  ASSUME MemberInv, UNCHANGED <<backlog, clients, doomed, notified, open>>,
         throws > 0 => throws' > 0,
         at = "greet" \/ at' = "greet" => UNCHANGED <<at, cur>>,
         doomed # <<>> => at' \in {"reap", "close", "shutdown"}
  PROVE  MemberInv'
BY DEF MemberInv, Distinct, Closing, Waiting, Member, Come, Gone, BeingGreeted, InSeq

\* An exception counts.
LEMMA ThrowsGrow ==
  ASSUME ConfTypes, UNCHANGED throws \/ throws' = throws + 1
  PROVE  throws > 0 => throws' > 0
BY DEF ConfTypes

\* What an exception in the main loop leaves alone; and a session it keeps from
\* being greeted is marked.
LEMMA ExceptionKeeps ==
  ASSUME Types, Exceptions
  PROVE  /\ UNCHANGED <<hasToken, running, frames, clients, sessVars, authVars, polled,
                       castVars, histVars>>
         /\ at' \in {"top", "reap"}
         /\ \A c \in Clients : notified[c] # <<>> => notified'[c] # <<>>
         /\ \A c \in Clients : BeingGreeted(c) => notified'[c] # <<>>
<1> USE DEF sessVars, authVars, castVars, histVars
<1>0. ListTypes /\ LoopTypes
  BY DEF Types
<1>1. \A c \in Clients : Append(notified[c], "lost") # <<>>
  <2> SUFFICES ASSUME NEW c \in Clients PROVE Append(notified[c], "lost") # <<>>
    OBVIOUS
  <2>1. notified[c] \in Seq({"connected", "disconnected", "lost"})
    BY <1>0 DEF ListTypes
  <2> QED BY <2>1, AppendProperties
<1>2. CASE PollFails \/ RoundThrows \/ AcceptThrows
  <2>1. /\ at' \in {"top", "reap"} /\ at # "greet" /\ UNCHANGED notified
        /\ UNCHANGED <<hasToken, running, frames, clients, connected, open, rx, authenticated,
                       authFailures, polled, sending, targets, casts, pushed, outbox,
                       dispatched, changes, threw>>
    BY <1>2 DEF PollFails, RoundThrows, AcceptThrows, Throws, listVars, pollVars
  <2> QED BY <2>1 DEF BeingGreeted
<1>3. CASE GreetThrows
  <2>1. /\ at' = "top" /\ at = "greet" /\ cur \in Clients
        /\ notified' = [notified EXCEPT ![cur] = Append(@, "lost")]
        /\ UNCHANGED <<hasToken, running, frames, clients, connected, open, rx, authenticated,
                       authFailures, polled, sending, targets, casts, pushed, outbox,
                       dispatched, changes, threw>>
    BY <1>0, <1>3 DEF GreetThrows, Throws, pollVars, LoopTypes
  <2>2. \A c \in Clients : notified'[c] = IF c = cur THEN Append(notified[c], "lost")
                                          ELSE notified[c]
    BY <1>0, <2>1 DEF ListTypes
  <2> QED BY <1>1, <2>1, <2>2 DEF BeingGreeted
<1>4. CASE ReapThrows
  <2>1. /\ at' = "top" /\ at # "greet"
        /\ UNCHANGED <<hasToken, running, frames, clients, connected, open, rx, authenticated,
                       authFailures, polled, sending, targets, casts, pushed, outbox,
                       dispatched, changes, threw>>
    BY <1>4 DEF ReapThrows, Throws, pollVars
  <2>2. \A c \in Clients : notified'[c] \in {notified[c], Append(notified[c], "lost")}
    BY <1>4 DEF ReapThrows
  <2> QED BY <1>1, <2>1, <2>2 DEF BeingGreeted
<1> QED BY <1>2, <1>3, <1>4 DEF Exceptions

\* A step that moves sessions keeps it too.
LEMMA MemberStep ==
  ASSUME Types, MemberInv, [Next]_vars
  PROVE  MemberInv'
<1> USE DEF confVars, netVars, listVars, sessVars, authVars, loopVars, pollVars,
            castVars, histVars
<1>0. ConfTypes /\ NetTypes /\ ListTypes /\ SessTypes /\ LoopTypes
  BY DEF Types
<1>1. ASSUME NEW c \in Clients, ClientConnects(c) PROVE MemberInv'
  <2>1. /\ backlog' = Append(backlog, c) /\ ~InSeq(c, backlog)
        /\ notified[c] = <<>> /\ ~open[c]
        /\ UNCHANGED <<clients, doomed, notified, open, at, cur, throws>>
    BY <1>1 DEF ClientConnects, InSeq
  <2>2. /\ Distinct(backlog')
        /\ \A d : InSeq(d, backlog') <=> InSeq(d, backlog) \/ d = c
    BY <1>0, <2>1, InAppend DEF NetTypes, MemberInv
  <2>3. ~InSeq(c, clients)
    BY <2>1, Notices DEF MemberInv, Member, Come
  <2>4. ASSUME NEW d \in Clients PROVE Waiting(d)' /\ Member(d)'
    <3>1. Member(d)'
      BY <2>1 DEF MemberInv, Member, Come, Gone, BeingGreeted, InSeq
    <3>2. Waiting(d)'
      BY <2>1, <2>2, <2>3 DEF MemberInv, Waiting, InSeq
    <3> QED BY <3>1, <3>2
  <2> QED BY <2>1, <2>2, <2>4 DEF MemberInv, Closing, Distinct
<1>2. ASSUME NEW c \in Clients, ClientSends(c) \/ ClientCloses(c) PROVE MemberInv'
  <2>1. UNCHANGED <<backlog, clients, doomed, notified, open, at, cur, throws>>
    BY <1>2 DEF ClientSends, ClientCloses
  <2> QED BY <2>1, MemberKept DEF MemberInv, Closing
<1>3. ASSUME NEW b \in Broadcasters, Broadcast(b) PROVE MemberInv'
  <2>1. /\ UNCHANGED <<backlog, clients, doomed, notified, open, at, cur>>
        /\ UNCHANGED throws \/ throws' = throws + 1
    BY <1>3 DEF Broadcast, Snapshot, SendNext, BroadcastThrows
  <2> QED BY <1>0, <2>1, MemberKept, ThrowsGrow DEF MemberInv, Closing
<1>4. CASE \/ BuildOne \/ BuildEnds \/ Poll \/ AcceptEnds \/ ServeSkips
           \/ Receive \/ ReceiveEnds \/ ServeEnds \/ PollFails \/ RoundThrows
  <2>1. /\ UNCHANGED <<backlog, clients, doomed, notified, open>>
        /\ UNCHANGED throws \/ throws' = throws + 1
        /\ at # "greet" /\ at' # "greet" /\ at \notin {"reap", "close", "shutdown"}
    BY <1>4 DEF BuildOne, BuildEnds, Poll, AcceptEnds, ServeSkips, Receive,
                ReceiveEnds, ServeEnds, PollFails, RoundThrows, Throws
  <2> QED BY <1>0, <2>1, MemberKept, ThrowsGrow DEF MemberInv, Closing
<1>5. CASE \/ DispatchCommon \/ HandleAuth \/ DispatchUnknown \/ DispatchUnauthorized
           \/ DispatchToModule \/ CommandReturns \/ CommandThrows \/ CheckConnected
  <2>1. /\ UNCHANGED <<backlog, clients, doomed, notified, open, throws>>
        /\ at # "greet" /\ at' # "greet" /\ at \notin {"reap", "close", "shutdown"}
    BY <1>5 DEF DispatchCommon, HandleAuth, DispatchUnknown, DispatchUnauthorized,
                DispatchToModule, CommandReturns, CommandThrows, CheckConnected, Take
  <2> QED BY <2>1, MemberKept DEF MemberInv, Closing
<1>6. CASE ReapEnds \/ RoundEnds \/ ShutdownEnds \/ RequestStop
  <2>1. /\ UNCHANGED <<backlog, clients, doomed, notified, open, throws>>
        /\ at = "greet" \/ at' = "greet" => UNCHANGED <<at, cur>>
        /\ at' \in {at, "close"} \/ doomed = <<>>
    BY <1>6 DEF ReapEnds, RoundEnds, ShutdownEnds, RequestStop
  <2> QED BY <2>1, MemberKept DEF MemberInv, Closing
<1>7. CASE AcceptOne
  <2> DEFINE c == Head(backlog)
  <2>1. /\ at = "accept" /\ at' = "greet" /\ cur' = c
        /\ backlog # <<>> /\ backlog' = Tail(backlog) /\ clients' = Append(clients, c)
        /\ open' = [open EXCEPT ![c] = TRUE]
        /\ UNCHANGED <<doomed, notified, throws>>
    BY <1>7 DEF AcceptOne
  <2>2. /\ c \in Clients /\ InSeq(c, backlog) /\ Distinct(backlog')
        /\ \A d : InSeq(d, backlog') <=> InSeq(d, backlog) /\ d # c
    BY <1>0, <2>1, InTail DEF NetTypes, MemberInv
  <2> HIDE DEF c
  <2>3. notified[c] = <<>> /\ ~InSeq(c, clients)
    BY <2>2 DEF MemberInv, Waiting
  <2>4. /\ Distinct(clients')
        /\ \A d : InSeq(d, clients') <=> InSeq(d, clients) \/ d = c
    BY <1>0, <2>1, <2>2, <2>3, InAppend DEF ListTypes, MemberInv
  <2>5. doomed = <<>> /\ \A d : ~InSeq(d, doomed)
    BY <2>1 DEF MemberInv, Closing, InSeq
  <2>6. \A d \in Clients : open'[d] = IF d = c THEN TRUE ELSE open[d]
    BY <1>0, <2>1 DEF SessTypes
  <2>7. ASSUME NEW d \in Clients PROVE Waiting(d)' /\ Member(d)'
    <3>0. /\ Waiting(d) /\ Member(d) /\ notified'[d] = notified[d] /\ ~InSeq(d, doomed')
          /\ throws' = throws
      BY <2>1, <2>5 DEF MemberInv
    <3>1. Waiting(d)'
      BY <2>2, <2>4, <2>6, <3>0 DEF Waiting
    <3>2. BeingGreeted(d)' <=> d = c
      BY <2>1 DEF BeingGreeted
    <3>3. ~BeingGreeted(d)
      BY <2>1 DEF BeingGreeted
    <3>4. CASE d = c
      <4>1. InSeq(d, clients') /\ notified'[d] = <<>> /\ open'[d]
        BY <2>3, <2>4, <2>6, <3>0, <3>4
      <4> QED BY <3>0, <3>1, <3>2, <3>4, <4>1, Notices DEF Member, Come, Gone
    <3>5. CASE d # c
      <4>1. /\ InSeq(d, clients') <=> InSeq(d, clients)
            /\ open'[d] = open[d] /\ ~InSeq(d, doomed)
        BY <2>4, <2>5, <2>6, <3>5
      <4> QED BY <3>0, <3>1, <3>2, <3>3, <3>5, <4>1 DEF Member, Come, Gone
    <3> QED BY <3>4, <3>5
  <2>8. Distinct(doomed') /\ Closing'
    BY <2>1, <2>5 DEF MemberInv, Distinct, Closing
  <2> QED BY <2>2, <2>4, <2>7, <2>8 DEF MemberInv
<1>8. CASE Greet
  <2>1. /\ at = "greet" /\ at' = "accept" /\ cur \in Clients
        /\ notified' = [notified EXCEPT ![cur] = Append(@, "connected")]
        /\ UNCHANGED <<backlog, clients, doomed, open, throws>>
    BY <1>0, <1>8 DEF Greet, LoopTypes
  <2>2. InSeq(cur, clients) /\ notified[cur] = <<>> /\ open[cur] /\ BeingGreeted(cur)
    BY <2>1 DEF MemberInv, Member, BeingGreeted
  <2>3. \A d \in Clients : notified'[d] = IF d = cur THEN Append(<<>>, "connected")
                                                     ELSE notified[d]
    BY <1>0, <2>1, <2>2 DEF ListTypes
  <2>6. Append(<<>>, "connected") \in OneReport
    BY Notices
  <2>4. ASSUME NEW d \in Clients PROVE Waiting(d)' /\ Member(d)'
    <3>0. Waiting(d) /\ Member(d) /\ ~BeingGreeted(d)'
      BY <2>1 DEF MemberInv, BeingGreeted
    <3>1. /\ InSeq(d, clients') <=> InSeq(d, clients)
          /\ InSeq(d, doomed') <=> InSeq(d, doomed)
          /\ InSeq(d, backlog') <=> InSeq(d, backlog)
          /\ open'[d] = open[d] /\ throws' = throws
      BY <2>1 DEF InSeq
    <3>2. CASE d = cur
      BY <2>2, <2>3, <2>6, <3>0, <3>1, <3>2, Notices DEF Waiting, Member, Come, Gone
    <3>3. CASE d # cur
      <4>1. notified'[d] = notified[d] /\ ~BeingGreeted(d)
        BY <2>3, <3>3 DEF BeingGreeted
      <4> QED BY <3>0, <3>1, <4>1 DEF Waiting, Member, Come, Gone
    <3> QED BY <3>2, <3>3
  <2>5. Distinct(backlog') /\ Distinct(clients') /\ Distinct(doomed') /\ Closing'
    BY <2>1 DEF MemberInv, Distinct, Closing
  <2> QED BY <2>4, <2>5 DEF MemberInv
<1>9. CASE HandleAuthLimit
  <2>1. /\ at = "dispatch" /\ at' = "check" /\ open' = [open EXCEPT ![cur] = FALSE]
        /\ UNCHANGED <<backlog, clients, doomed, notified, throws>>
    BY <1>9 DEF HandleAuthLimit, Take
  <2>2. \A d \in Clients : open'[d] => open[d]
    BY <1>0, <2>1 DEF SessTypes
  <2>3. doomed = <<>>
    BY <2>1 DEF MemberInv, Closing
  <2> QED BY <2>1, <2>2, <2>3 DEF MemberInv, Distinct, Closing, Waiting, Member, Come, Gone,
                                  BeingGreeted, InSeq
<1>10. CASE ReapOne
  <2>1. CASE connected[clients[i]]
    <3>1. UNCHANGED <<backlog, clients, doomed, notified, open, at, cur, throws>>
      BY <1>10, <2>1 DEF ReapOne
    <3> QED BY <3>1, MemberKept DEF MemberInv, Closing
  <2>2. CASE ~connected[clients[i]]
    <3> DEFINE c == clients[i]
    <3>1. /\ at = "reap" /\ at' = at /\ i \in 1..Len(clients)
          /\ doomed' = Append(doomed, c) /\ clients' = DropAt(clients, i)
          /\ UNCHANGED <<backlog, notified, open, throws>>
      BY <1>0, <1>10, <2>2 DEF ReapOne, LoopTypes, ListTypes
    <3>2. /\ c \in Clients /\ InSeq(c, clients) /\ Distinct(clients')
          /\ \A d : InSeq(d, clients') <=> InSeq(d, clients) /\ d # c
      BY <1>0, <3>1, InDrop DEF ListTypes, MemberInv
    <3> HIDE DEF c
    <3>3. Come(c) /\ ~InSeq(c, doomed)
      BY <3>1, <3>2 DEF MemberInv, Member, BeingGreeted
    <3>4. /\ Distinct(doomed')
          /\ \A d : InSeq(d, doomed') <=> InSeq(d, doomed) \/ d = c
      BY <1>0, <3>1, <3>2, <3>3, InAppend DEF ListTypes, MemberInv
    <3>5. ASSUME NEW d \in Clients PROVE Waiting(d)' /\ Member(d)'
      <4>0. /\ Waiting(d) /\ Member(d) /\ ~BeingGreeted(d) /\ ~BeingGreeted(d)'
            /\ notified'[d] = notified[d] /\ open'[d] = open[d] /\ throws' = throws
            /\ InSeq(d, backlog') <=> InSeq(d, backlog)
        BY <3>1 DEF MemberInv, BeingGreeted, InSeq
      <4> QED BY <3>2, <3>3, <3>4, <4>0 DEF Waiting, Member, Come, Gone
    <3>6. Distinct(backlog') /\ Closing'
      BY <3>1 DEF MemberInv, Distinct, Closing
    <3> QED BY <3>2, <3>4, <3>5, <3>6 DEF MemberInv
  <2> QED BY <2>1, <2>2
<1>11. CASE CloseOne
  <2> DEFINE c == Head(doomed)
  <2>1. /\ at \in {"close", "shutdown"} /\ at' = at /\ doomed # <<>>
        /\ doomed' = Tail(doomed) /\ open' = [open EXCEPT ![c] = FALSE]
        /\ notified' = [notified EXCEPT ![c] = Append(@, "disconnected")]
        /\ UNCHANGED <<backlog, clients, throws>>
    BY <1>11 DEF CloseOne
  <2>2. /\ c \in Clients /\ InSeq(c, doomed) /\ Distinct(doomed')
        /\ \A d : InSeq(d, doomed') <=> InSeq(d, doomed) /\ d # c
    BY <1>0, <2>1, InTail DEF ListTypes, MemberInv
  <2> HIDE DEF c
  <2>3. Come(c) /\ ~InSeq(c, clients) /\ ~InSeq(c, backlog)
    BY <2>2, Notices DEF MemberInv, Member, Waiting, Come
  <2>4. \A d \in Clients :
           /\ notified'[d] = IF d = c THEN Append(notified[c], "disconnected") ELSE notified[d]
           /\ open'[d] = IF d = c THEN FALSE ELSE open[d]
    BY <1>0, <2>1 DEF ListTypes, SessTypes
  <2>7. /\ Append(notified[c], "disconnected") \in TwoReports
        /\ InSeq("lost", Append(notified[c], "disconnected")) => InSeq("lost", notified[c])
    BY <2>3, Notices DEF Come
  <2>5. ASSUME NEW d \in Clients PROVE Waiting(d)' /\ Member(d)'
    <3>0. /\ Waiting(d) /\ Member(d) /\ ~BeingGreeted(d) /\ ~BeingGreeted(d)'
          /\ InSeq(d, backlog') <=> InSeq(d, backlog)
          /\ InSeq(d, clients') <=> InSeq(d, clients)
          /\ throws' = throws
      BY <2>1 DEF MemberInv, BeingGreeted, InSeq
    <3>1. CASE d = c
      BY <2>2, <2>3, <2>4, <2>7, <3>0, <3>1, Notices DEF Waiting, Member, Come, Gone
    <3>2. CASE d # c
      BY <2>2, <2>4, <3>0, <3>2 DEF Waiting, Member, Come, Gone
    <3> QED BY <3>1, <3>2
  <2>6. Distinct(backlog') /\ Distinct(clients') /\ Closing'
    BY <2>1 DEF MemberInv, Distinct, Closing
  <2> QED BY <2>2, <2>5, <2>6 DEF MemberInv
<1>12. CASE ShutdownStarts
  <2>1. /\ at = "stopped" /\ at' = "shutdown" /\ backlog' = <<>> /\ doomed' = clients
        /\ clients' = <<>> /\ UNCHANGED <<notified, open, throws>>
    BY <1>12 DEF ShutdownStarts
  <2>2. doomed = <<>> /\ \A d : ~InSeq(d, <<>>)
    BY <2>1 DEF MemberInv, Closing, InSeq
  <2>3. ASSUME NEW d \in Clients PROVE Waiting(d)' /\ Member(d)'
    <3>0. /\ Member(d) /\ ~BeingGreeted(d) /\ ~BeingGreeted(d)' /\ ~InSeq(d, doomed)
          /\ ~InSeq(d, backlog') /\ ~InSeq(d, clients')
          /\ InSeq(d, doomed') <=> InSeq(d, clients)
      BY <2>1, <2>2 DEF MemberInv, BeingGreeted
    <3> QED BY <2>1, <3>0 DEF Waiting, Member, Come, Gone
  <2>4. Distinct(backlog') /\ Distinct(clients') /\ Distinct(doomed') /\ Closing'
    BY <2>1 DEF MemberInv, Distinct, Closing
  <2> QED BY <2>3, <2>4 DEF MemberInv
<1>13. CASE UNCHANGED vars
  <2>1. UNCHANGED <<backlog, clients, doomed, notified, open, at, cur, throws>>
    BY <1>13 DEF vars
  <2> QED BY <2>1, MemberKept DEF MemberInv, Closing
<1>14. CASE RoundStarts
  <2>1. /\ at = "top" /\ at' \in {"build", "stopped"}
        /\ open' = [c \in Clients |-> open[c] /\ Len(notified[c]) < 2]
        /\ UNCHANGED <<backlog, clients, doomed, notified, throws>>
    BY <1>14 DEF RoundStarts
  <2>2. \A d \in Clients : open'[d] => open[d]
    BY <2>1
  <2>3. doomed = <<>>
    BY <2>1 DEF MemberInv, Closing
  <2> QED BY <2>1, <2>2, <2>3 DEF MemberInv, Distinct, Closing, Waiting, Member, Come, Gone,
                                  BeingGreeted, InSeq
<1>15. CASE AcceptThrows
  <2>1. /\ at = "accept" /\ at' = "top" /\ backlog # <<>> /\ backlog' = Tail(backlog)
        /\ throws' = throws + 1
        /\ UNCHANGED <<clients, doomed, notified, open>>
    BY <1>15 DEF AcceptThrows, Throws
  <2>2. /\ Distinct(backlog')
        /\ \A d : InSeq(d, backlog') => InSeq(d, backlog)
    BY <1>0, <2>1, InTail DEF NetTypes, MemberInv
  <2>3. ASSUME NEW d \in Clients PROVE Waiting(d)' /\ Member(d)'
    <3>0. /\ Waiting(d) /\ Member(d) /\ ~BeingGreeted(d) /\ ~BeingGreeted(d)'
          /\ InSeq(d, clients') <=> InSeq(d, clients)
          /\ InSeq(d, doomed') <=> InSeq(d, doomed)
          /\ notified'[d] = notified[d] /\ open'[d] = open[d]
          /\ throws > 0 => throws' > 0
      BY <1>0, <2>1, ThrowsGrow DEF MemberInv, BeingGreeted, InSeq
    <3> QED BY <2>2, <3>0 DEF Waiting, Member, Come, Gone
  <2>4. Distinct(clients') /\ Distinct(doomed') /\ Closing'
    BY <2>1 DEF MemberInv, Distinct, Closing
  <2> QED BY <2>2, <2>3, <2>4 DEF MemberInv
<1>16. CASE GreetThrows
  <2>1. /\ at = "greet" /\ at' = "top" /\ cur \in Clients
        /\ notified' = [notified EXCEPT ![cur] = Append(@, "lost")]
        /\ throws' = throws + 1
        /\ UNCHANGED <<backlog, clients, doomed, open>>
    BY <1>0, <1>16 DEF GreetThrows, Throws, LoopTypes
  <2>2. InSeq(cur, clients) /\ notified[cur] = <<>> /\ open[cur] /\ BeingGreeted(cur)
    BY <2>1 DEF MemberInv, Member, BeingGreeted
  <2>3. \A d \in Clients : notified'[d] = IF d = cur THEN Append(<<>>, "lost") ELSE notified[d]
    BY <1>0, <2>1, <2>2 DEF ListTypes
  <2>6. Append(<<>>, "lost") \in OneReport
    BY Notices
  <2>4. ASSUME NEW d \in Clients PROVE Waiting(d)' /\ Member(d)'
    <3>0. Waiting(d) /\ Member(d) /\ ~BeingGreeted(d)'
      BY <2>1 DEF MemberInv, BeingGreeted
    <3>1. /\ InSeq(d, clients') <=> InSeq(d, clients)
          /\ InSeq(d, doomed') <=> InSeq(d, doomed)
          /\ InSeq(d, backlog') <=> InSeq(d, backlog)
          /\ open'[d] = open[d] /\ throws' > 0
      BY <1>0, <2>1 DEF InSeq, ConfTypes
    <3>2. CASE d = cur
      BY <2>2, <2>3, <2>6, <3>0, <3>1, <3>2, Notices DEF Waiting, Member, Come, Gone
    <3>3. CASE d # cur
      <4>1. notified'[d] = notified[d] /\ ~BeingGreeted(d)
        BY <2>3, <3>3 DEF BeingGreeted
      <4> QED BY <3>0, <3>1, <4>1 DEF Waiting, Member, Come, Gone
    <3> QED BY <3>2, <3>3
  <2>5. Distinct(backlog') /\ Distinct(clients') /\ Distinct(doomed') /\ Closing'
    BY <2>1 DEF MemberInv, Distinct, Closing
  <2> QED BY <2>4, <2>5 DEF MemberInv
<1>17. CASE ReapThrows
  <2>1. /\ at \in {"reap", "close"} /\ at' = "top" /\ doomed' = <<>>
        /\ notified' = [c \in Clients |-> IF InSeq(c, doomed) THEN Append(notified[c], "lost")
                                         ELSE notified[c]]
        /\ throws' = throws + 1
        /\ UNCHANGED <<backlog, clients, open>>
    BY <1>17 DEF ReapThrows, Throws, InSeq
  <2>2. ASSUME NEW d \in Clients PROVE Waiting(d)' /\ Member(d)'
    <3>0. /\ Waiting(d) /\ Member(d) /\ ~BeingGreeted(d) /\ ~BeingGreeted(d)'
          /\ InSeq(d, backlog') <=> InSeq(d, backlog)
          /\ InSeq(d, clients') <=> InSeq(d, clients)
          /\ ~InSeq(d, doomed')
          /\ open'[d] = open[d] /\ throws' > 0
      BY <1>0, <2>1, Notices DEF MemberInv, BeingGreeted, InSeq, ConfTypes
    <3>1. CASE InSeq(d, doomed)
      <4>1. Come(d) /\ ~InSeq(d, clients) /\ ~InSeq(d, backlog)
        BY <3>0, <3>1, Notices DEF Member, Waiting, Come
      <4>2. notified'[d] = Append(notified[d], "lost")
        BY <2>1, <3>1
      <4>3. notified'[d] \in TwoReports /\ ~InSeq("disconnected", notified'[d])
        BY <4>1, <4>2, Notices DEF Come
      <4> QED BY <3>0, <4>1, <4>3, Notices DEF Waiting, Member, Come, Gone
    <3>2. CASE ~InSeq(d, doomed)
      <4>1. notified'[d] = notified[d]
        BY <2>1, <3>2
      <4> QED BY <3>0, <3>2, <4>1 DEF Waiting, Member, Come, Gone
    <3> QED BY <3>1, <3>2
  <2>3. Distinct(backlog') /\ Distinct(clients') /\ Closing'
    BY <2>1 DEF MemberInv, Distinct, Closing
  <2>4. Distinct(<<>>)
    BY DEF Distinct
  <2> QED BY <2>1, <2>2, <2>3, <2>4 DEF MemberInv
<1> QED BY <1>1, <1>2, <1>3, <1>4, <1>5, <1>6, <1>7, <1>8, <1>9, <1>10, <1>11, <1>12,
           <1>13, <1>14, <1>15, <1>16, <1>17
        DEF Next, Client, Round, Exceptions, Dispatch, MainThread

\* The modules hear of every session at most once when it comes and once when
\* it goes, in this order, whoever ends it: AcceptNewClients, ReapDisconnected
\* and Shutdown, for any number of clients and exceptions; and of each exactly
\* once, once its turn is over, where no exception comes.
THEOREM NotifiedInOrder == Spec => []NotifiedOnce
<1>1. Init => MemberInv
  BY Notices DEF Init, MemberInv, Distinct, Closing, Waiting, Member, Come, Gone, BeingGreeted,
                 InSeq
<1>2. Types /\ MemberInv /\ [Next]_vars => MemberInv'
  BY MemberStep
<1>3. MemberInv => NotifiedOnce
  BY Notices DEF MemberInv, Member, Come, Gone, BeingGreeted, NotifiedOnce
<1> QED BY <1>1, <1>2, <1>3, TypesHold, PTL DEF Spec

-----------------------------------------------------------------------------
(* The poll set, and the limit on failed authentications. *)

\* The two halves of the poll set grow together and with open sockets only.
AlignedInv ==
    /\ at \in {"build", "poll", "accept", "greet", "serve", "dispatch", "execute", "check"} =>
           /\ Len(fds) = Len(polled) + 1
           /\ \A k \in 1..Len(polled) : fds[k + 1] = polled[k]
    /\ at \in {"build", "poll"} => \A k \in 1..Len(polled) : open[polled[k]]

\* fds[i + 1] belongs to polled[i] from the building of the poll set to the end
\* of the receives, and WSAPoll is given open sockets only (RunRound).
THEOREM PollSetMatches == Spec => []PollSetAligned
<1> USE DEF confVars, netVars, listVars, sessVars, authVars, loopVars, pollVars,
            castVars, histVars
<1>1. Init => AlignedInv
  BY DEF Init, AlignedInv
<1>2. Types /\ AlignedInv /\ [Next]_vars => AlignedInv'
  <2> SUFFICES ASSUME Types, AlignedInv, [Next]_vars PROVE AlignedInv'
    OBVIOUS
  <2>0. ListTypes /\ SessTypes /\ LoopTypes /\ PollTypes
    BY DEF Types
  <2>1. ASSUME UNCHANGED <<fds, polled>>,
               at' = "poll" => at = "build",
               at' # "build" \/ at = "build",
               at' \in {"accept", "greet", "serve", "dispatch", "execute", "check"} =>
                   at \in {"poll", "accept", "greet", "serve", "dispatch", "execute", "check"},
               at' \in {"build", "poll"} => UNCHANGED open
        PROVE  AlignedInv'
    BY <2>1 DEF AlignedInv
  <2>2. ASSUME UNCHANGED <<at, open, fds, polled>> PROVE AlignedInv'
    BY <2>2 DEF AlignedInv
  <2>3. ASSUME NEW c \in Clients, Client(c) PROVE AlignedInv'
    BY <2>2, <2>3 DEF Client, ClientConnects, ClientSends, ClientCloses
  <2>4. ASSUME NEW b \in Broadcasters, Broadcast(b) PROVE AlignedInv'
    BY <2>2, <2>4 DEF Broadcast, Snapshot, SendNext, BroadcastThrows
  <2>5. CASE RequestStop \/ UNCHANGED vars
    BY <2>2, <2>5 DEF RequestStop, vars
  <2>6. CASE RoundStarts
    <3>1. Len(<<Listen>>) = 1 /\ Len(<<>>) = 0
      OBVIOUS
    <3> QED BY <2>6, <3>1 DEF RoundStarts, AlignedInv
  <2>7. CASE BuildOne
    <3>1. /\ at = "build" /\ at' = "build" /\ i \in 1..Len(clients) /\ UNCHANGED open
      BY <2>0, <2>7 DEF BuildOne, LoopTypes, ListTypes
    <3>2. CASE connected[clients[i]] /\ open[clients[i]]
      <4> DEFINE c == clients[i]
      <4>1. fds' = Append(fds, c) /\ polled' = Append(polled, c) /\ c \in Clients /\ open[c]
        BY <2>0, <2>7, <3>1, <3>2 DEF BuildOne, ListTypes
      <4> HIDE DEF c
      <4>2. /\ Len(fds') = Len(fds) + 1 /\ fds'[Len(fds) + 1] = c
            /\ \A k \in 1..Len(fds) : fds'[k] = fds[k]
            /\ Len(polled') = Len(polled) + 1 /\ polled'[Len(polled) + 1] = c
            /\ \A k \in 1..Len(polled) : polled'[k] = polled[k]
            /\ Len(fds) \in Nat /\ Len(polled) \in Nat
        BY <2>0, <4>1 DEF PollTypes
      <4> QED BY <3>1, <4>1, <4>2 DEF AlignedInv
    <3>3. CASE ~(connected[clients[i]] /\ open[clients[i]])
      BY <2>2, <2>7, <3>1, <3>3 DEF BuildOne
    <3> QED BY <3>2, <3>3
  <2>8. CASE BuildEnds \/ Poll \/ AcceptOne \/ Greet \/ AcceptEnds
    BY <2>1, <2>8 DEF BuildEnds, Poll, AcceptOne, Greet, AcceptEnds
  <2>9. CASE ServeSkips \/ Receive \/ ReceiveEnds \/ ServeEnds
    BY <2>1, <2>9 DEF ServeSkips, Receive, ReceiveEnds, ServeEnds
  <2>10. CASE \/ DispatchCommon \/ HandleAuth \/ HandleAuthLimit \/ DispatchUnknown
              \/ DispatchUnauthorized \/ DispatchToModule
    <3>1. at = "dispatch" /\ at' \in {"check", "execute"} /\ UNCHANGED <<fds, polled>>
      BY <2>10 DEF DispatchCommon, HandleAuth, HandleAuthLimit, DispatchUnknown,
                   DispatchUnauthorized, DispatchToModule, Take
    <3> QED BY <2>1, <3>1
  <2>11. CASE CommandReturns \/ CommandThrows \/ CheckConnected
    <3>1. /\ at \in {"execute", "check"} /\ at' \in {"check", "dispatch", "serve"}
          /\ UNCHANGED <<fds, polled>>
      BY <2>11 DEF CommandReturns, CommandThrows, CheckConnected
    <3> QED BY <2>1, <3>1
  <2>12. CASE ReapOne \/ ReapEnds \/ CloseOne \/ RoundEnds \/ ShutdownStarts
              \/ ShutdownEnds \/ Exceptions
    <3>1. at' \in {"reap", "close", "shutdown", "top", "off"} /\ UNCHANGED <<fds, polled>>
      BY <2>12 DEF ReapOne, ReapEnds, CloseOne, RoundEnds, ShutdownStarts, ShutdownEnds,
                   Exceptions, PollFails, RoundThrows, AcceptThrows, GreetThrows, ReapThrows,
                   Throws
    <3> QED BY <2>1, <3>1
  <2> QED BY <2>3, <2>4, <2>5, <2>6, <2>7, <2>8, <2>9, <2>10, <2>11, <2>12
          DEF Next, Round, Dispatch, MainThread
<1>3. Types /\ AlignedInv => PollSetAligned
  BY DEF Types, PollTypes, AlignedInv, PollSetAligned
<1> QED BY <1>1, <1>2, <1>3, TypesHold, PTL DEF Spec

\* A request adds to the failures of its session if it is one.
LEMMA OneMoreFailure ==
  ASSUME HistTypes, NEW c \in Clients, NEW r \in Request,
         dispatched'[c] = Append(dispatched[c], r)
  PROVE  /\ Failures(c) \in Nat
         /\ Failures(c)' = IF Bad(r) THEN Failures(c) + 1 ELSE Failures(c)
<1> DEFINE n == Len(dispatched[c])
           F == {j \in DOMAIN dispatched[c] : Bad(dispatched[c][j])}
           G == {j \in DOMAIN dispatched'[c] : Bad(dispatched'[c][j])}
<1>1. /\ n \in Nat /\ DOMAIN dispatched[c] = 1..n /\ DOMAIN dispatched'[c] = 1..(n + 1)
      /\ dispatched'[c][n + 1] = r
      /\ \A j \in 1..n : dispatched'[c][j] = dispatched[c][j]
  BY DEF HistTypes
<1> HIDE DEF n
<1>2. IsFiniteSet(F) /\ n + 1 \notin F /\ Cardinality(F) \in Nat
  <2>1. IsFiniteSet(1..n)
    <3>1. 1 \in Int /\ n \in Int
      BY <1>1
    <3> QED BY <3>1, FS_Interval
  <2>2. F \subseteq 1..n
    BY <1>1
  <2> QED BY <1>1, <2>1, <2>2, FS_Subset, FS_CardinalityType
<1>3. CASE Bad(r)
  <2>1. G = F \cup {n + 1}
    BY <1>1, <1>3
  <2> HIDE DEF F, G
  <2>2. Cardinality(G) = Cardinality(F) + 1
    BY <1>2, <2>1, FS_AddElement
  <2> QED BY <1>2, <1>3, <2>2 DEF Failures, F, G
<1>4. CASE ~Bad(r)
  <2>1. G = F
    BY <1>1, <1>4
  <2> QED BY <1>2, <1>4, <2>1 DEF Failures
<1> QED BY <1>3, <1>4

\* A session at the limit is down, with nothing left to dispatch.
Spent(c) ==
    /\ ~connected[c] /\ rx[c] = <<>>
    /\ dispatched[c] # <<>> /\ Bad(dispatched[c][Len(dispatched[c])])

\* A connection counts failures only once the modules know of it, so no session
\* that has reached the limit is accepted again; and the count is that of the
\* requests dispatched.
Limited(c) ==
    /\ notified[c] = <<>> => authFailures[c] = 0
    /\ authFailures[c] <= MaxAuthFailures
    /\ authFailures[c] = MaxAuthFailures => Spent(c)
    /\ hasToken => authFailures[c] = Failures(c)

LimitInv ==
    /\ \A k \in 1..Len(polled) : notified[polled[k]] # <<>>
    /\ at \in {"dispatch", "execute", "check"} => notified[cur] # <<>>
    /\ \A c \in Clients : Limited(c)

\* Sessions only ever go down or lose what they have buffered, except where one
\* is accepted or served.
LEMMA LimitKept ==
  ASSUME Types, LimitInv,
         UNCHANGED <<hasToken, polled, authFailures, dispatched>>,
         \A c \in Clients : notified[c] # <<>> => notified'[c] # <<>>,
         at' \in {"dispatch", "execute", "check"} =>
             at \in {"dispatch", "execute", "check"} /\ cur' = cur,
         \A c \in Clients : connected'[c] => connected[c],
         \A c \in Clients : rx'[c] = rx[c] \/ rx'[c] = <<>>
  PROVE  LimitInv'
<1>1. polled \in Seq(Clients) /\ (at \in {"dispatch", "execute", "check"} => cur \in Clients)
  BY DEF Types, PollTypes, LoopTypes
<1>2. ASSUME NEW c \in Clients PROVE Limited(c)'
  <2>1. Limited(c) /\ Failures(c)' = Failures(c)
    BY DEF LimitInv, Failures, Bad
  <2> QED BY <2>1 DEF Limited, Spent
<1>3. \A k \in 1..Len(polled') : notified'[polled'[k]] # <<>>
  BY <1>1 DEF LimitInv
<1> QED BY <1>1, <1>2, <1>3 DEF LimitInv

\* A request is dispatched on a session below the limit; it may be the failure
\* that reaches it.
LEMMA LimitDispatch ==
  ASSUME Types, LimitInv, NEW r \in Requests, Take(r),
         UNCHANGED <<hasToken, polled, notified, cur>>,
         \A c \in Clients : connected'[c] => connected[c],
         \A c \in Clients : c # cur => rx'[c] = rx[c],
         \/ UNCHANGED authFailures /\ (hasToken => ~Bad(r))
         \/ /\ hasToken /\ Bad(r) /\ authFailures' = [authFailures EXCEPT ![cur] = @ + 1]
            /\ AtLimit(cur) => ~connected'[cur] /\ rx'[cur] = <<>>
  PROVE  LimitInv'
<1>0. SessTypes /\ HistTypes /\ FlagTypes /\ LoopTypes /\ PollTypes
  BY DEF Types
<1>1. /\ cur \in Clients /\ r \in Request
      /\ dispatched' = [dispatched EXCEPT ![cur] = Append(@, r)]
      /\ rx[cur] # <<>> /\ at = "dispatch"
  BY <1>0, TakeTyped DEF Take
<1>2. authFailures[cur] \in Nat /\ authFailures[cur] < MaxAuthFailures
  BY <1>0, <1>1, BoundsAssumption DEF LimitInv, Limited, Spent, FlagTypes
<1>3. ASSUME NEW c \in Clients, c # cur PROVE Limited(c)'
  <2>1. Limited(c) /\ dispatched'[c] = dispatched[c] /\ authFailures'[c] = authFailures[c]
    BY <1>0, <1>1, <1>3 DEF LimitInv, HistTypes, FlagTypes
  <2>2. Failures(c)' = Failures(c)
    BY <2>1 DEF Failures, Bad
  <2> QED BY <1>3, <2>1, <2>2 DEF Limited, Spent
<1>4. ASSUME NEW c \in Clients, c = cur PROVE Limited(c)'
  <2>1. dispatched'[c] = Append(dispatched[c], r) /\ dispatched[c] \in Seq(Request)
    BY <1>0, <1>1, <1>4 DEF HistTypes
  <2>2. /\ Failures(c) \in Nat
        /\ Failures(c)' = IF Bad(r) THEN Failures(c) + 1 ELSE Failures(c)
    BY <1>0, <1>1, <2>1, OneMoreFailure
  <2>3. notified'[c] # <<>> /\ Limited(c)
    BY <1>1, <1>4 DEF LimitInv
  <2>4. CASE UNCHANGED authFailures /\ (hasToken => ~Bad(r))
    BY <1>2, <1>4, <2>2, <2>3, <2>4 DEF Limited
  <2>5. CASE /\ hasToken /\ Bad(r) /\ authFailures' = [authFailures EXCEPT ![cur] = @ + 1]
             /\ AtLimit(cur) => ~connected'[cur] /\ rx'[cur] = <<>>
    <3>1. authFailures'[c] = authFailures[c] + 1
      BY <1>0, <1>1, <1>4, <2>5 DEF FlagTypes
    <3>2. authFailures'[c] <= MaxAuthFailures
      BY <1>2, <1>4, <3>1, BoundsAssumption
    <3>3. authFailures'[c] = MaxAuthFailures => ~connected'[c] /\ rx'[c] = <<>>
      BY <1>4, <2>5, <3>1, BoundsAssumption DEF AtLimit
    <3>4. /\ dispatched'[c] # <<>>
          /\ dispatched'[c][Len(dispatched'[c])] = r
      BY <1>1, <2>1, AppendProperties
    <3>5. hasToken => authFailures'[c] = Failures(c)'
      BY <2>2, <2>3, <2>5, <3>1 DEF Limited
    <3> QED BY <2>3, <2>5, <3>2, <3>3, <3>4, <3>5 DEF Limited, Spent, Bad
  <2> QED BY <2>4, <2>5
<1>5. \A c \in Clients : Limited(c)'
  BY <1>3, <1>4
<1> QED BY <1>0, <1>1, <1>5 DEF LimitInv

\* Every step keeps the count and what a session at the limit has lost.
LEMMA LimitStep ==
  ASSUME Types, MemberInv, LimitInv, [Next]_vars
  PROVE  LimitInv'
<1> USE DEF confVars, netVars, listVars, sessVars, authVars, loopVars, pollVars,
            castVars, histVars
<1>0. /\ NetTypes /\ ListTypes /\ SessTypes /\ FlagTypes /\ LoopTypes /\ PollTypes
      /\ CastTypes /\ HistTypes
  BY DEF Types
<1>1. ASSUME NEW c \in Clients, Client(c) PROVE LimitInv'
  <2>1. UNCHANGED <<hasToken, polled, notified, authFailures, dispatched, at, cur, connected, rx>>
    BY <1>1 DEF Client, ClientConnects, ClientSends, ClientCloses
  <2> QED BY <2>1, LimitKept
<1>2. ASSUME NEW b \in Broadcasters, Broadcast(b) PROVE LimitInv'
  <2>1. UNCHANGED <<hasToken, polled, notified, authFailures, dispatched, at, cur, rx>>
    BY <1>2 DEF Broadcast, Snapshot, SendNext, BroadcastThrows
  <2>2. \A c \in Clients : connected'[c] => connected[c]
    BY <1>0, <1>2 DEF Broadcast, Snapshot, SendNext, BroadcastThrows, SessTypes
  <2> QED BY <2>1, <2>2, LimitKept
<1>3. CASE RequestStop \/ UNCHANGED vars
  <2>1. UNCHANGED <<hasToken, polled, notified, authFailures, dispatched, at, cur, connected, rx>>
    BY <1>3 DEF RequestStop, vars
  <2> QED BY <2>1, LimitKept
<1>4. CASE RoundStarts
  <2>1. /\ UNCHANGED <<hasToken, notified, authFailures, dispatched, connected, rx, cur>>
        /\ polled' = <<>> /\ at' \in {"build", "stopped"}
    BY <1>4 DEF RoundStarts
  <2>2. ASSUME NEW c \in Clients PROVE Limited(c)'
    <3>1. Limited(c) /\ Failures(c)' = Failures(c)
      BY <2>1 DEF LimitInv, Failures, Bad
    <3> QED BY <2>1, <3>1 DEF Limited, Spent
  <2> QED BY <2>1, <2>2 DEF LimitInv
<1>5. CASE BuildOne
  <2>1. /\ UNCHANGED <<hasToken, notified, authFailures, dispatched, connected, rx, cur, at>>
        /\ at = "build" /\ i \in 1..Len(clients)
        /\ polled' \in {polled, Append(polled, clients[i])}
    BY <1>0, <1>5 DEF BuildOne, LoopTypes, ListTypes
  <2>2. clients[i] \in Clients /\ notified[clients[i]] # <<>>
    <3>1. clients[i] \in Clients /\ InSeq(clients[i], clients)
      BY <1>0, <2>1 DEF ListTypes, InSeq
    <3> QED BY <2>1, <3>1, Notices DEF MemberInv, Member, Come, BeingGreeted
  <2>3. \A k \in 1..Len(polled') : notified'[polled'[k]] # <<>>
    BY SMTT(30), <1>0, <2>1, <2>2 DEF PollTypes, LimitInv
  <2>4. ASSUME NEW c \in Clients PROVE Limited(c)'
    <3>1. Limited(c) /\ Failures(c)' = Failures(c)
      BY <2>1 DEF LimitInv, Failures, Bad
    <3> QED BY <2>1, <3>1 DEF Limited, Spent
  <2> QED BY <2>1, <2>3, <2>4 DEF LimitInv
<1>6. CASE BuildEnds \/ Poll \/ AcceptEnds \/ ServeSkips \/ ServeEnds \/ ReapOne \/ ReapEnds
           \/ RoundEnds \/ ShutdownStarts \/ ShutdownEnds
  <2>1. /\ UNCHANGED <<hasToken, polled, notified, authFailures, dispatched, cur, connected, rx>>
        /\ at' \notin {"dispatch", "execute", "check"}
    BY <1>6 DEF BuildEnds, Poll, AcceptEnds, ServeSkips, ServeEnds, ReapOne, ReapEnds,
                RoundEnds, ShutdownStarts, ShutdownEnds
  <2> QED BY <2>1, LimitKept
<1>7. CASE AcceptOne
  <2> DEFINE c == Head(backlog)
  <2>1. /\ backlog # <<>> /\ at' = "greet" /\ connected' = [connected EXCEPT ![c] = TRUE]
        /\ UNCHANGED <<hasToken, polled, notified, authFailures, dispatched, rx>>
    BY <1>7 DEF AcceptOne
  <2>2. c \in Clients /\ InSeq(c, backlog)
    BY <1>0, <2>1, InTail DEF NetTypes, MemberInv
  <2> HIDE DEF c
  <2>3. authFailures[c] = 0 /\ authFailures[c] # MaxAuthFailures
    BY <2>2, BoundsAssumption DEF MemberInv, Waiting, LimitInv, Limited
  <2>4. ASSUME NEW d \in Clients PROVE Limited(d)'
    <3>1. Limited(d) /\ Failures(d)' = Failures(d)
      BY <2>1 DEF LimitInv, Failures, Bad
    <3>2. d # c => connected'[d] = connected[d]
      BY <1>0, <2>1 DEF SessTypes
    <3> QED BY <2>1, <2>3, <3>1, <3>2 DEF Limited, Spent
  <2> QED BY <2>1, <2>4 DEF LimitInv
<1>8. CASE Greet
  <2>1. /\ at' = "accept" /\ cur \in Clients
        /\ notified' = [notified EXCEPT ![cur] = Append(@, "connected")]
        /\ UNCHANGED <<hasToken, polled, authFailures, dispatched, connected, rx>>
    BY <1>0, <1>8 DEF Greet, LoopTypes
  <2>2. \A c \in Clients : notified[c] # <<>> => notified'[c] # <<>>
    <3>1. Append(notified[cur], "connected") # <<>>
      <4>1. notified[cur] \in Seq({"connected", "disconnected", "lost"})
        BY <1>0, <2>1 DEF ListTypes
      <4> QED BY <4>1, AppendProperties
    <3> QED BY <1>0, <2>1, <3>1 DEF ListTypes
  <2> QED BY <2>1, <2>2, LimitKept
<1>9. CASE CloseOne
  <2> DEFINE c == Head(doomed)
  <2>1. /\ at \in {"close", "shutdown"} /\ at' = at /\ doomed # <<>>
        /\ connected' = [connected EXCEPT ![c] = FALSE] /\ rx' = [rx EXCEPT ![c] = <<>>]
        /\ notified' = [notified EXCEPT ![c] = Append(@, "disconnected")]
        /\ UNCHANGED <<hasToken, polled, authFailures, dispatched>>
    BY <1>9 DEF CloseOne
  <2>2. c \in Clients
    BY <1>0, <2>1 DEF ListTypes
  <2> HIDE DEF c
  <2>3. \A d \in Clients : notified[d] # <<>> => notified'[d] # <<>>
    <3>1. Append(notified[c], "disconnected") # <<>>
      <4>1. notified[c] \in Seq({"connected", "disconnected", "lost"})
        BY <1>0, <2>2 DEF ListTypes
      <4> QED BY <4>1, AppendProperties
    <3> QED BY <1>0, <2>1, <3>1 DEF ListTypes
  <2>4. /\ \A d \in Clients : connected'[d] => connected[d]
        /\ \A d \in Clients : rx'[d] = rx[d] \/ rx'[d] = <<>>
    BY <1>0, <2>1 DEF SessTypes
  <2> QED BY <2>1, <2>3, <2>4, LimitKept
<1>10. CASE Receive
  <2>1. /\ at = "serve" /\ i \in 1..Len(polled) /\ connected[polled[i]] /\ cur' = polled[i]
        /\ \A c \in Clients : c # polled[i] => rx'[c] = rx[c]
        /\ UNCHANGED <<hasToken, polled, notified, authFailures, dispatched, connected>>
    BY <1>0, <1>10 DEF Receive, LoopTypes, PollTypes, SessTypes
  <2>2. ASSUME NEW c \in Clients PROVE Limited(c)'
    <3>1. Limited(c) /\ Failures(c)' = Failures(c)
      BY <2>1 DEF LimitInv, Failures, Bad
    <3> QED BY <2>1, <3>1 DEF Limited, Spent
  <2>3. notified'[cur'] # <<>>
    BY <2>1 DEF LimitInv
  <2> QED BY <2>1, <2>2, <2>3 DEF LimitInv
<1>11. CASE ReceiveEnds
  <2>1. /\ UNCHANGED <<hasToken, polled, notified, authFailures, dispatched, cur, rx, at>>
        /\ \A c \in Clients : connected'[c] => connected[c]
    BY <1>0, <1>11 DEF ReceiveEnds, SessTypes
  <2> QED BY <2>1, LimitKept
<1>12. CASE CommandReturns \/ CommandThrows \/ CheckConnected
  <2>1. /\ UNCHANGED <<hasToken, polled, notified, authFailures, dispatched>>
        /\ at \in {"execute", "check"}
        /\ at' \in {"dispatch", "execute", "check"} => cur' = cur
    BY <1>12 DEF CommandReturns, CommandThrows, CheckConnected
  <2>2. \A c \in Clients : connected'[c] => connected[c]
    BY <1>0, <1>12 DEF CommandReturns, CommandThrows, CheckConnected, Send, SessTypes
  <2>3. \A c \in Clients : rx'[c] = rx[c] \/ rx'[c] = <<>>
    BY <1>0, <1>12 DEF CommandReturns, CommandThrows, CheckConnected, SessTypes
  <2> QED BY <2>1, <2>2, <2>3, LimitKept
<1>13. CASE DispatchCommon \/ DispatchUnknown \/ DispatchUnauthorized \/ DispatchToModule
  <2>1. PICK r \in Requests :
           /\ Take(r) /\ Consumed /\ r.cmd # AUTH_REQ
           /\ UNCHANGED <<hasToken, polled, notified, cur, authFailures>>
    BY <1>13 DEF DispatchCommon, DispatchUnknown, DispatchUnauthorized, DispatchToModule,
                 HEARTBEAT, HELLO, AUTH_REQ
  <2>2. \A c \in Clients : connected'[c] => connected[c]
    BY <1>0, <1>13 DEF DispatchCommon, DispatchUnknown, DispatchUnauthorized,
                       DispatchToModule, Send, SessTypes
  <2>3. \A c \in Clients : c # cur => rx'[c] = rx[c]
    BY <1>0, <2>1 DEF Consumed, SessTypes
  <2> QED BY <2>1, <2>2, <2>3, LimitDispatch DEF Bad
<1>14. CASE HandleAuth
  <2>1. PICK r \in Requests :
           /\ Take(r) /\ Consumed /\ r.cmd = AUTH_REQ
           /\ UNCHANGED <<hasToken, polled, notified, cur>>
           /\ \/ UNCHANGED authFailures /\ (~hasToken \/ Accepts(r))
              \/ /\ hasToken /\ ~Accepts(r) /\ ~AtLimit(cur)
                 /\ authFailures' = [authFailures EXCEPT ![cur] = @ + 1]
    BY <1>14 DEF HandleAuth
  <2>2. \A c \in Clients : connected'[c] => connected[c]
    BY <1>0, <1>14 DEF HandleAuth, Send, SessTypes
  <2>3. \A c \in Clients : c # cur => rx'[c] = rx[c]
    BY <1>0, <2>1 DEF Consumed, SessTypes
  <2> QED BY <2>1, <2>2, <2>3, LimitDispatch DEF Bad, Accepts
<1>15. CASE HandleAuthLimit
  <2>1. PICK r \in Requests :
           /\ Take(r) /\ r.cmd = AUTH_REQ /\ hasToken /\ ~Accepts(r)
           /\ UNCHANGED <<hasToken, polled, notified, cur>>
           /\ authFailures' = [authFailures EXCEPT ![cur] = @ + 1]
           /\ connected' = [connected EXCEPT ![cur] = FALSE]
           /\ rx' = [rx EXCEPT ![cur] = <<>>]
    BY <1>15 DEF HandleAuthLimit
  <2>2. cur \in Clients
    BY <1>0, <2>1, TakeTyped
  <2>3. /\ \A c \in Clients : connected'[c] => connected[c]
        /\ \A c \in Clients : c # cur => rx'[c] = rx[c]
        /\ ~connected'[cur] /\ rx'[cur] = <<>>
    BY <1>0, <2>1, <2>2 DEF SessTypes
  <2> QED BY <2>1, <2>3, LimitDispatch DEF Bad, Accepts
<1>16. CASE Exceptions
  BY <1>16, ExceptionKeeps, LimitKept
<1> QED BY <1>1, <1>2, <1>3, <1>4, <1>5, <1>6, <1>7, <1>8, <1>9, <1>10, <1>11, <1>12,
           <1>13, <1>14, <1>15, <1>16 DEF Next, Round, Dispatch, MainThread

\* At the start nobody is on a list and nothing has failed.
LEMMA MemberStart == Init => MemberInv /\ LimitInv
<1>1. Init => MemberInv
  BY Notices DEF Init, MemberInv, Distinct, Closing, Waiting, Member, Come, Gone, BeingGreeted, InSeq
<1>2. ASSUME Init, NEW c \in Clients PROVE Limited(c)
  <2>1. dispatched[c] = <<>>
    BY <1>2 DEF Init
  <2>2. {j \in DOMAIN dispatched[c] : Bad(dispatched[c][j])} = {}
    BY <2>1
  <2>3. Failures(c) = 0
    BY <2>2, FS_EmptySet DEF Failures
  <2> QED BY <1>2, <2>3, BoundsAssumption DEF Init, Limited
<1>3. Init => /\ \A k \in 1..Len(polled) : notified[polled[k]] # <<>>
              /\ at \notin {"dispatch", "execute", "check"}
  BY DEF Init
<1> QED BY <1>1, <1>2, <1>3 DEF LimitInv

\* kMaxAuthFailures, for any limit, any number of clients and whatever they
\* pipeline: nothing is dispatched behind the failure that reaches the limit.
THEOREM LimitEnds == Spec => []NothingAfterTheLimit
<1>1. Init => MemberInv /\ LimitInv
  BY MemberStart
<1>2. Types /\ MemberInv /\ LimitInv /\ [Next]_vars => MemberInv' /\ LimitInv'
  BY MemberStep, LimitStep
<1>3. LimitInv => NothingAfterTheLimit
  BY DEF LimitInv, Limited, Spent, NothingAfterTheLimit
<1> QED BY <1>1, <1>2, <1>3, TypesHold, PTL DEF Spec

-----------------------------------------------------------------------------
(* Requests and answers. *)

\* A module's command is under way on the session.
Executing(c) == at = "execute" /\ cur = c

HasAnswer(s, n) == \E k \in 1..Len(s) : s[k].req = n

\* The answers s fit the requests d: each names one of them and the command its
\* client waits for, in the order of the requests.
Fits(s, d) ==
    \A k \in 1..Len(s) :
        /\ s[k].req \in 1..Len(d)
        /\ s[k].cmd = Expected(d[s[k].req].cmd)
        /\ k > 1 => s[k-1].req < s[k].req

\* What a session has answered: a command under way is the last request, and the
\* only one the session may still owe; a session the modules do not know of has
\* dispatched nothing.
Answering(c) ==
    /\ Fits(outbox[c], dispatched[c])
    /\ notified[c] = <<>> => dispatched[c] = <<>>
    /\ Executing(c) =>
           /\ dispatched[c] # <<>>
           /\ dispatched[c][Len(dispatched[c])].cmd \notin {HEARTBEAT, HELLO, AUTH_REQ}
           /\ \A k \in 1..Len(outbox[c]) : outbox[c][k].req < Len(dispatched[c])
    /\ connected[c] =>
           \A n \in 1..Len(dispatched[c]) :
               Owed(c, n) => \/ HasAnswer(outbox[c], n)
                             \/ Executing(c) /\ n = Len(dispatched[c])

AnswerInv == \A c \in Clients : Answering(c)

Answer == [cmd : Nat, req : Nat]

\* A refusal is sent with the command the client waits for: ResponseCommandFor
\* of each module agrees with its OnCommand on the commands it handles.
LEMMA RefusalExpected ==
  ASSUME NEW cmd \in Nat, Handlers(cmd) # {}, cmd \notin {HEARTBEAT, HELLO, AUTH_REQ}
  PROVE  ResponseCommandFor(cmd) = Expected(cmd)
<1>1. PICK k \in DOMAIN Modules : HandlesCommand(Modules[k], cmd)
  BY DEF Handlers
<1>2. cmd \in {DISPLAY_LIST_REQ, DISPLAY_SWITCH, DISPLAY_MODE_LIST_REQ, DISPLAY_MODE_SET,
               DISPLAY_SCALE_SET, AUDIO_LIST_REQ, AUDIO_DEFAULT_SET, AUDIO_VOLUME_SET,
               AUDIO_MUTE_SET}
  BY <1>1 DEF HandlesCommand
<1> QED BY <1>2 DEF ResponseCommandFor, ReplyOfOnCommand, Expected, HEARTBEAT, HELLO, AUTH_REQ,
       DISPLAY_LIST_REQ, DISPLAY_SWITCH, DISPLAY_MODE_LIST_REQ, DISPLAY_MODE_SET,
       DISPLAY_SCALE_SET, AUDIO_LIST_REQ, AUDIO_DEFAULT_SET, AUDIO_VOLUME_SET,
       AUDIO_MUTE_SET, DISPLAY_LIST_RESP, DISPLAY_MODE_LIST_RESP, DISPLAY_CURRENT,
       AUDIO_LIST_RESP, AUDIO_OP_RESP

\* A request more, with or without its answer, and the answer that comes later.
LEMMA FitsAppend ==
  ASSUME NEW s \in Seq(Answer), NEW d \in Seq(Request), Fits(s, d)
  PROVE  /\ \A r \in Request :
               /\ Fits(s, Append(d, r))
               /\ Fits(Append(s, [cmd |-> Expected(r.cmd), req |-> Len(d) + 1]), Append(d, r))
               /\ \A k \in 1..Len(s) : s[k].req < Len(Append(d, r))
         /\ (d # <<>> /\ \A k \in 1..Len(s) : s[k].req < Len(d)) =>
               Fits(Append(s, [cmd |-> Expected(d[Len(d)].cmd), req |-> Len(d)]), d)
<1>0. /\ Len(s) \in Nat /\ Len(d) \in Nat
      /\ \A k \in 1..Len(s) : s[k].req \in 1..Len(d) /\ s[k].req \in Nat
  BY DEF Fits
<1>1. ASSUME NEW r \in Request
      PROVE  /\ Fits(s, Append(d, r))
             /\ Fits(Append(s, [cmd |-> Expected(r.cmd), req |-> Len(d) + 1]), Append(d, r))
             /\ \A k \in 1..Len(s) : s[k].req < Len(Append(d, r))
  <2> DEFINE e == Append(d, r)
             a == [cmd |-> Expected(r.cmd), req |-> Len(d) + 1]
             t == Append(s, a)
  <2>1. /\ Len(e) = Len(d) + 1 /\ e[Len(d) + 1] = r
        /\ \A j \in 1..Len(d) : e[j] = d[j]
    OBVIOUS
  <2>2. /\ Len(t) = Len(s) + 1 /\ t[Len(s) + 1] = a
        /\ \A k \in 1..Len(s) : t[k] = s[k]
    OBVIOUS
  <2>3. a.cmd = Expected(r.cmd) /\ a.req = Len(d) + 1
    OBVIOUS
  <2> HIDE DEF e, t, a
  <2>4. Fits(s, e)
    BY <1>0, <2>1 DEF Fits
  <2>5. \A k \in 1..Len(s) : s[k].req < Len(e)
    BY <1>0, <2>1
  <2>6. ASSUME NEW k \in 1..Len(t)
        PROVE  /\ t[k].req \in 1..Len(e)
               /\ t[k].cmd = Expected(e[t[k].req].cmd)
               /\ k > 1 => t[k-1].req < t[k].req
    <3>1. CASE k \in 1..Len(s)
      <4>1. t[k] = s[k] /\ (k > 1 => t[k-1] = s[k-1])
        BY <1>0, <2>2, <3>1
      <4> QED BY <2>4, <3>1, <4>1 DEF Fits
    <3>2. CASE k = Len(s) + 1
      <4>1. t[k] = a /\ (k > 1 => k - 1 \in 1..Len(s) /\ t[k-1] = s[k-1])
        BY <1>0, <2>2, <3>2
      <4>2. k > 1 => s[k-1].req < Len(d) + 1
        BY <2>1, <2>5, <4>1
      <4> QED BY <1>0, <2>1, <2>3, <4>1, <4>2
    <3> QED BY <1>0, <2>2, <3>1, <3>2
  <2>7. Fits(t, e)
    BY <2>6 DEF Fits
  <2> QED BY <2>4, <2>5, <2>7 DEF e, t, a
<1>2. ASSUME d # <<>>, \A k \in 1..Len(s) : s[k].req < Len(d)
      PROVE  Fits(Append(s, [cmd |-> Expected(d[Len(d)].cmd), req |-> Len(d)]), d)
  <2> DEFINE a == [cmd |-> Expected(d[Len(d)].cmd), req |-> Len(d)]
             t == Append(s, a)
  <2>1. /\ Len(t) = Len(s) + 1 /\ t[Len(s) + 1] = a
        /\ \A k \in 1..Len(s) : t[k] = s[k]
    OBVIOUS
  <2>2. a.cmd = Expected(d[Len(d)].cmd) /\ a.req = Len(d) /\ Len(d) \in 1..Len(d)
    BY <1>2
  <2> HIDE DEF t, a
  <2>3. ASSUME NEW k \in 1..Len(t)
        PROVE  /\ t[k].req \in 1..Len(d)
               /\ t[k].cmd = Expected(d[t[k].req].cmd)
               /\ k > 1 => t[k-1].req < t[k].req
    <3>1. CASE k \in 1..Len(s)
      <4>1. t[k] = s[k] /\ (k > 1 => t[k-1] = s[k-1])
        BY <1>0, <2>1, <3>1
      <4> QED BY <3>1, <4>1 DEF Fits
    <3>2. CASE k = Len(s) + 1
      <4>1. t[k] = a /\ (k > 1 => k - 1 \in 1..Len(s) /\ t[k-1] = s[k-1])
        BY <1>0, <2>1, <3>2
      <4> QED BY <1>0, <1>2, <2>2, <4>1
    <3> QED BY <1>0, <2>1, <3>1, <3>2
  <2> QED BY <2>3 DEF Fits, t, a
<1> QED BY <1>1, <1>2

\* Answers stay answers, and the one appended is there.
LEMMA AnswerAppended ==
  ASSUME NEW s \in Seq(Answer), NEW a \in Answer
  PROVE  /\ \A n : HasAnswer(s, n) => HasAnswer(Append(s, a), n)
         /\ HasAnswer(Append(s, a), a.req)
<1>1. /\ Len(s) \in Nat /\ Len(Append(s, a)) = Len(s) + 1 /\ Append(s, a)[Len(s) + 1] = a
      /\ \A k \in 1..Len(s) : Append(s, a)[k] = s[k]
  OBVIOUS
<1> QED BY <1>1 DEF HasAnswer

\* A step that dispatches and answers nothing keeps it, when it connects nobody
\* but a newcomer.
LEMMA AnswerKept ==
  ASSUME Types, AnswerInv, UNCHANGED <<outbox, dispatched, threw>>,
         at \notin {"execute"}, at' \notin {"execute"},
         \A c \in Clients : connected'[c] => connected[c] \/ notified[c] = <<>>,
         \A c \in Clients : notified[c] # <<>> => notified'[c] # <<>>
  PROVE  AnswerInv'
<1> SUFFICES ASSUME NEW c \in Clients PROVE Answering(c)'
  BY DEF AnswerInv
<1>1. Answering(c)
  BY DEF AnswerInv
<1>2. Fits(outbox[c], dispatched[c])'
  BY <1>1 DEF Answering, Fits
<1>3. ASSUME connected'[c], NEW n \in 1..Len(dispatched'[c]), Owed(c, n)'
      PROVE  HasAnswer(outbox'[c], n)
  <2>1. connected[c] \/ dispatched[c] = <<>>
    BY <1>1, <1>3 DEF Answering
  <2>2. connected[c] /\ n \in 1..Len(dispatched[c]) /\ Owed(c, n)
    BY <1>3, <2>1 DEF Owed
  <2> QED BY <1>1, <2>2 DEF Answering, Executing
<1> QED BY <1>1, <1>2, <1>3 DEF Answering, Executing, HasAnswer

\* A request is dispatched: it is answered at once, or its module starts on it,
\* or nothing is owed, or the session goes down.
LEMMA AnswerDispatch ==
  ASSUME Types, LimitInv, AnswerInv, NEW r \in Requests, Take(r),
         UNCHANGED <<notified, threw, cur>>,
         \A c \in Clients : connected'[c] => connected[c],
         \/ /\ outbox' = [outbox EXCEPT ![cur] =
                            Append(@, [cmd |-> Expected(r.cmd), req |-> req])]
            /\ at' = "check"
         \/ /\ UNCHANGED outbox /\ at' = "check"
            /\ \/ ~connected'[cur]
               \/ r.cmd \notin {HEARTBEAT, HELLO, AUTH_REQ} /\ Handlers(r.cmd) = {}
         \/ /\ UNCHANGED outbox /\ at' = "execute"
            /\ r.cmd \notin {HEARTBEAT, HELLO, AUTH_REQ}
  PROVE  AnswerInv'
<1>0. SessTypes /\ HistTypes /\ LoopTypes
  BY DEF Types
<1>1. /\ cur \in Clients /\ r \in Request /\ at = "dispatch"
      /\ dispatched' = [dispatched EXCEPT ![cur] = Append(@, r)]
  BY <1>0, TakeTyped DEF Take
<1>2. ASSUME NEW c \in Clients, c # cur PROVE Answering(c)'
  <2>1. /\ dispatched'[c] = dispatched[c] /\ outbox'[c] = outbox[c]
        /\ Answering(c) /\ ~Executing(c) /\ ~Executing(c)'
    BY <1>0, <1>1, <1>2 DEF AnswerInv, HistTypes, Executing
  <2>2. Fits(outbox[c], dispatched[c])'
    BY <2>1 DEF Answering, Fits
  <2>3. \A n : Owed(c, n)' <=> Owed(c, n)
    BY <2>1 DEF Owed
  <2> QED BY <2>1, <2>2, <2>3 DEF Answering, HasAnswer
<1>3. Answering(cur)'
  <2> DEFINE d == dispatched[cur]
             s == outbox[cur]
             a == [cmd |-> Expected(r.cmd), req |-> Len(d) + 1]
  <2>1. /\ d \in Seq(Request) /\ s \in Seq(Answer) /\ dispatched'[cur] = Append(d, r)
        /\ Len(d) \in Nat /\ Len(Append(d, r)) = Len(d) + 1
        /\ Append(d, r)[Len(d) + 1] = r /\ Append(d, r) # <<>>
        /\ \A n \in 1..Len(d) : Append(d, r)[n] = d[n]
    <3>1. d \in Seq(Request) /\ s \in Seq(Answer) /\ dispatched'[cur] = Append(d, r)
      BY <1>0, <1>1 DEF HistTypes, Answer
    <3> HIDE DEF d, s
    <3>2. /\ Len(d) \in Nat /\ Len(Append(d, r)) = Len(d) + 1
          /\ Append(d, r)[Len(d) + 1] = r
          /\ \A n \in 1..Len(d) : Append(d, r)[n] = d[n]
      BY <1>1, <3>1
    <3>3. Append(d, r) # <<>>
      BY <1>1, <3>1, AppendProperties
    <3> QED BY <3>1, <3>2, <3>3
  <2>2. Answering(cur) /\ ~Executing(cur) /\ notified'[cur] # <<>>
    BY <1>1 DEF AnswerInv, Executing, LimitInv
  <2>3. a \in Answer /\ a.req = Len(d) + 1
    <3>1. Expected(r.cmd) \in Nat
      <4>1. r.cmd \in Nat
        BY <1>1 DEF Request
      <4> QED BY <4>1, RepliesTyped DEF Expected, HEARTBEAT, HELLO, AUTH_RESP
    <3> QED BY <2>1, <3>1 DEF Answer
  <2>4. outbox'[cur] = s \/ outbox'[cur] = Append(s, a)
    BY <1>0, <1>1 DEF HistTypes, req
  <2>5. /\ Fits(s, Append(d, r)) /\ Fits(Append(s, a), Append(d, r))
        /\ \A k \in 1..Len(s) : s[k].req < Len(Append(d, r))
    BY <1>1, <2>1, <2>2, FitsAppend DEF Answering
  <2>6. Fits(outbox[cur], dispatched[cur])'
    BY <2>1, <2>4, <2>5 DEF Fits
  <2>7. ASSUME Executing(cur)'
        PROVE  /\ dispatched'[cur] # <<>>
               /\ dispatched'[cur][Len(dispatched'[cur])].cmd \notin {HEARTBEAT, HELLO, AUTH_REQ}
               /\ \A k \in 1..Len(outbox'[cur]) : outbox'[cur][k].req < Len(dispatched'[cur])
    <3>1. /\ outbox'[cur] = s /\ dispatched'[cur] = Append(d, r)
          /\ r.cmd \notin {HEARTBEAT, HELLO, AUTH_REQ}
      BY <2>1, <2>7 DEF Executing
    <3>2. dispatched'[cur][Len(dispatched'[cur])] = r
      BY <2>1
    <3>3. \A k \in 1..Len(outbox'[cur]) : outbox'[cur][k].req < Len(dispatched'[cur])
      BY <2>5, <3>1
    <3> HIDE DEF d, s
    <3> QED BY <2>1, <3>1, <3>2, <3>3
  <2> HIDE DEF a
  <2>8. ASSUME connected'[cur], NEW n \in 1..Len(dispatched'[cur]), Owed(cur, n)'
        PROVE  \/ HasAnswer(outbox'[cur], n)
               \/ Executing(cur)' /\ n = Len(dispatched'[cur])
    <3>1. CASE n \in 1..Len(d)
      <4>1. dispatched'[cur][n] = d[n]
        BY <2>1, <3>1
      <4>2. Owed(cur, n) /\ connected[cur]
        BY <1>1, <2>8, <4>1 DEF Owed
      <4>3. HasAnswer(s, n)
        BY <2>2, <3>1, <4>2 DEF Answering
      <4>4. CASE outbox'[cur] = s
        BY <4>3, <4>4
      <4>5. CASE outbox'[cur] = Append(s, a)
        <5>1. s \in Seq(Answer)
          BY <2>1
        <5>2. HasAnswer(Append(s, a), n)
          BY <2>3, <4>3, <5>1, AnswerAppended
        <5> QED BY <4>5, <5>2
      <4> QED BY <2>4, <4>4, <4>5
    <3>2. CASE n = Len(d) + 1
      <4>1. dispatched'[cur][n] = r /\ n = Len(dispatched'[cur])
        BY <2>1, <3>2
      <4>2. r.cmd \in {HEARTBEAT, HELLO, AUTH_REQ} \/ Handlers(r.cmd) # {}
        BY <2>8, <4>1 DEF Owed
      <4>3. \/ outbox'[cur] = Append(s, a)
            \/ at' = "execute"
        BY <1>0, <1>1, <2>8, <4>2 DEF HistTypes, req, a
      <4>4. CASE outbox'[cur] = Append(s, a)
        BY <2>1, <2>3, <3>2, <4>4, AnswerAppended
      <4>5. CASE at' = "execute"
        BY <4>1, <4>5 DEF Executing
      <4> QED BY <4>3, <4>4, <4>5
    <3> QED BY <2>1, <3>1, <3>2
  <2> QED BY <2>2, <2>6, <2>7, <2>8 DEF Answering
<1> QED BY <1>2, <1>3 DEF AnswerInv

\* The command under way ends: with its answer, with the session down, or with
\* an exception.
LEMMA AnswerReturn ==
  ASSUME Types, AnswerInv, at = "execute", at' = "check",
         UNCHANGED <<notified, cur, dispatched>>,
         \A c \in Clients : connected'[c] => connected[c],
         LET n == Len(dispatched[cur])
         IN  \/ /\ UNCHANGED threw
                /\ outbox' = [outbox EXCEPT ![cur] = Append(@,
                       [cmd |-> ReplyOfOnCommand(dispatched[cur][n].cmd), req |-> n])]
             \/ UNCHANGED <<outbox, threw>> /\ ~connected'[cur]
             \/ UNCHANGED outbox /\ threw' = [threw EXCEPT ![cur] = @ \cup {n}]
  PROVE  AnswerInv'
<1>0. SessTypes /\ HistTypes /\ LoopTypes
  BY DEF Types
<1>1. cur \in Clients
  BY <1>0 DEF LoopTypes
<1>2. ASSUME NEW c \in Clients, c # cur PROVE Answering(c)'
  <2>1. /\ outbox'[c] = outbox[c] /\ threw'[c] = threw[c]
        /\ Answering(c) /\ ~Executing(c) /\ ~Executing(c)'
    BY <1>0, <1>1, <1>2 DEF AnswerInv, HistTypes, Executing
  <2>2. Fits(outbox[c], dispatched[c])'
    BY <2>1 DEF Answering, Fits
  <2>3. \A n : Owed(c, n)' <=> Owed(c, n)
    BY <2>1 DEF Owed
  <2> QED BY <2>1, <2>2, <2>3 DEF Answering, HasAnswer
<1>3. Answering(cur)'
  <2> DEFINE d == dispatched[cur]
             s == outbox[cur]
             n == Len(d)
             a == [cmd |-> Expected(d[n].cmd), req |-> n]
  <2>1. /\ d \in Seq(Request) /\ s \in Seq(Answer) /\ n \in Nat
    BY <1>0, <1>1 DEF HistTypes, Answer
  <2>2. /\ Answering(cur) /\ ~Executing(cur)'
        /\ d # <<>> /\ d[n].cmd \notin {HEARTBEAT, HELLO, AUTH_REQ}
        /\ \A k \in 1..Len(s) : s[k].req < n
    BY <1>1 DEF AnswerInv, Executing, Answering
  <2>3. n \in 1..n /\ d[n] \in Request /\ d[n].cmd \in Nat
    <3>1. d \in Seq(Request) /\ d # <<>> /\ n = Len(d)
      BY <2>1, <2>2
    <3> HIDE DEF d, n
    <3>2. n \in 1..Len(d)
      BY <3>1
    <3>3. d[n] \in Request
      BY <3>1, <3>2
    <3> QED BY <3>1, <3>2, <3>3 DEF Request
  <2>4. a \in Answer /\ a.req = n /\ Expected(d[n].cmd) = ReplyOfOnCommand(d[n].cmd)
    <3>1. Expected(d[n].cmd) = ReplyOfOnCommand(d[n].cmd)
      BY <2>2 DEF Expected
    <3>2. Expected(d[n].cmd) \in Nat
      BY <2>3, <3>1, RepliesTyped
    <3> QED BY <2>1, <3>1, <3>2 DEF Answer
  <2>5. /\ threw[cur] \subseteq threw'[cur]
        /\ \/ outbox'[cur] = Append(s, a) /\ threw'[cur] = threw[cur]
           \/ outbox'[cur] = s /\ (~connected'[cur] \/ n \in threw'[cur])
    BY <1>0, <1>1, <2>4 DEF HistTypes
  <2>6. Fits(outbox[cur], dispatched[cur])'
    <3>1. Fits(s, d) /\ Fits(Append(s, a), d)
      BY <2>1, <2>2, FitsAppend DEF Answering
    <3> QED BY <2>5, <3>1 DEF Fits
  <2> HIDE DEF a
  <2>7. ASSUME connected'[cur], NEW m \in 1..Len(dispatched'[cur]), Owed(cur, m)'
        PROVE  HasAnswer(outbox'[cur], m)
    <3>1. Owed(cur, m) /\ m \notin threw'[cur] /\ connected[cur]
      BY <1>1, <2>5, <2>7 DEF Owed
    <3>2. CASE m = n
      <4>1. outbox'[cur] = Append(s, a)
        BY <2>5, <2>7, <3>1, <3>2
      <4> QED BY <2>1, <2>4, <3>2, <4>1, AnswerAppended
    <3>3. CASE m # n
      <4>1. HasAnswer(s, m)
        BY <2>2, <2>7, <3>1, <3>3 DEF Answering
      <4> QED BY <2>1, <2>4, <2>5, <4>1, AnswerAppended
    <3> QED BY <3>2, <3>3
  <2> QED BY <2>2, <2>6, <2>7 DEF Answering
<1> QED BY <1>2, <1>3 DEF AnswerInv

\* Every step keeps requests and answers together.
LEMMA AnswerStep ==
  ASSUME Types, MemberInv, LimitInv, AnswerInv, [Next]_vars
  PROVE  AnswerInv'
<1> USE DEF confVars, netVars, listVars, sessVars, authVars, loopVars, pollVars,
            castVars, histVars
<1>0. /\ NetTypes /\ ListTypes /\ SessTypes /\ LoopTypes /\ HistTypes /\ CastTypes
  BY DEF Types
<1>1. ASSUME UNCHANGED <<outbox, dispatched, threw, notified, at, cur>>,
             \A c \in Clients : connected'[c] => connected[c]
      PROVE  AnswerInv'
  <2> SUFFICES ASSUME NEW c \in Clients PROVE Answering(c)'
    BY DEF AnswerInv
  <2>1. Answering(c)
    BY DEF AnswerInv
  <2>2. Fits(outbox[c], dispatched[c])'
    BY <1>1, <2>1 DEF Answering, Fits
  <2>3. \A n : Owed(c, n)' <=> Owed(c, n)
    BY <1>1 DEF Owed
  <2> QED BY <1>1, <2>1, <2>2, <2>3 DEF Answering, Executing, HasAnswer
<1>2. ASSUME NEW c \in Clients, Client(c) PROVE AnswerInv'
  <2>1. UNCHANGED <<outbox, dispatched, threw, notified, at, cur, connected>>
    BY <1>2 DEF Client, ClientConnects, ClientSends, ClientCloses
  <2> QED BY <1>1, <2>1
<1>3. ASSUME NEW b \in Broadcasters, Broadcast(b) PROVE AnswerInv'
  <2>1. UNCHANGED <<outbox, dispatched, threw, notified, at, cur>>
    BY <1>3 DEF Broadcast, Snapshot, SendNext, BroadcastThrows
  <2>2. \A c \in Clients : connected'[c] => connected[c]
    BY <1>0, <1>3 DEF Broadcast, Snapshot, SendNext, BroadcastThrows, SessTypes
  <2> QED BY <1>1, <2>1, <2>2
<1>4. CASE RequestStop \/ UNCHANGED vars
  <2>1. UNCHANGED <<outbox, dispatched, threw, notified, at, cur, connected>>
    BY <1>4 DEF RequestStop, vars
  <2> QED BY <1>1, <2>1
<1>5. CASE RoundStarts \/ BuildOne \/ BuildEnds \/ Poll \/ AcceptEnds \/ ServeSkips \/ ServeEnds
           \/ Receive \/ CheckConnected \/ ReapOne \/ ReapEnds \/ RoundEnds
           \/ ShutdownStarts \/ ShutdownEnds
  <2>1. /\ UNCHANGED <<outbox, dispatched, threw, notified, connected>>
        /\ at # "execute" /\ at' # "execute"
    BY <1>5 DEF RoundStarts, BuildOne, BuildEnds, Poll, AcceptEnds, ServeSkips, ServeEnds,
                Receive, CheckConnected, ReapOne, ReapEnds, RoundEnds,
                ShutdownStarts, ShutdownEnds
  <2> QED BY <2>1, AnswerKept
<1>6. CASE AcceptOne
  <2> DEFINE c == Head(backlog)
  <2>1. /\ backlog # <<>> /\ at = "accept" /\ at' = "greet"
        /\ connected' = [connected EXCEPT ![c] = TRUE]
        /\ UNCHANGED <<outbox, dispatched, threw, notified>>
    BY <1>6 DEF AcceptOne
  <2>2. c \in Clients /\ InSeq(c, backlog)
    BY <1>0, <2>1, InTail DEF NetTypes, MemberInv
  <2> HIDE DEF c
  <2>3. notified[c] = <<>>
    BY <2>2 DEF MemberInv, Waiting
  <2>4. \A d \in Clients : connected'[d] => connected[d] \/ notified[d] = <<>>
    BY <1>0, <2>1, <2>3 DEF SessTypes
  <2> QED BY <2>1, <2>4, AnswerKept
<1>7. CASE Greet
  <2>1. /\ at = "greet" /\ at' = "accept" /\ cur \in Clients
        /\ notified' = [notified EXCEPT ![cur] = Append(@, "connected")]
        /\ UNCHANGED <<outbox, dispatched, threw, connected>>
    BY <1>0, <1>7 DEF Greet, LoopTypes
  <2>2. \A c \in Clients : notified[c] # <<>> => notified'[c] # <<>>
    <3>1. Append(notified[cur], "connected") # <<>>
      <4>1. notified[cur] \in Seq({"connected", "disconnected", "lost"})
        BY <1>0, <2>1 DEF ListTypes
      <4> QED BY <4>1, AppendProperties
    <3> QED BY <1>0, <2>1, <3>1 DEF ListTypes
  <2> QED BY <2>1, <2>2, AnswerKept
<1>8. CASE CloseOne
  <2> DEFINE c == Head(doomed)
  <2>1. /\ at \in {"close", "shutdown"} /\ at' = at /\ doomed # <<>>
        /\ connected' = [connected EXCEPT ![c] = FALSE]
        /\ notified' = [notified EXCEPT ![c] = Append(@, "disconnected")]
        /\ UNCHANGED <<outbox, dispatched, threw>>
    BY <1>8 DEF CloseOne
  <2>2. c \in Clients
    BY <1>0, <2>1 DEF ListTypes
  <2> HIDE DEF c
  <2>3. \A d \in Clients : notified[d] # <<>> => notified'[d] # <<>>
    <3>1. Append(notified[c], "disconnected") # <<>>
      <4>1. notified[c] \in Seq({"connected", "disconnected", "lost"})
        BY <1>0, <2>2 DEF ListTypes
      <4> QED BY <4>1, AppendProperties
    <3> QED BY <1>0, <2>1, <3>1 DEF ListTypes
  <2>4. \A d \in Clients : connected'[d] => connected[d]
    BY <1>0, <2>1 DEF SessTypes
  <2> QED BY <2>1, <2>3, <2>4, AnswerKept
<1>9. CASE ReceiveEnds
  <2>1. /\ UNCHANGED <<outbox, dispatched, threw, notified>>
        /\ at # "execute" /\ at' # "execute"
    BY <1>9 DEF ReceiveEnds
  <2>2. \A c \in Clients : connected'[c] => connected[c]
    BY <1>0, <1>9 DEF ReceiveEnds, SessTypes
  <2> QED BY <2>1, <2>2, AnswerKept
<1>10. CASE CommandReturns
  <2> DEFINE n == Len(dispatched[cur])
  <2>1. /\ at = "execute" /\ at' = "check" /\ UNCHANGED <<notified, cur, dispatched, threw>>
        /\ Send(cur, ReplyOfOnCommand(dispatched[cur][n].cmd), n)
    BY <1>10 DEF CommandReturns
  <2>2. cur \in Clients
    BY <1>0, <2>1 DEF LoopTypes
  <2>3. /\ \A c \in Clients : connected'[c] => connected[c]
        /\ \/ outbox' = [outbox EXCEPT ![cur] = Append(@,
                  [cmd |-> ReplyOfOnCommand(dispatched[cur][n].cmd), req |-> n])]
           \/ UNCHANGED outbox /\ ~connected'[cur]
    BY <1>0, <2>1, <2>2 DEF Send, SessTypes
  <2> QED BY <2>1, <2>3, AnswerReturn
<1>11. CASE CommandThrows
  <2>1. /\ at = "execute" /\ at' = "check"
        /\ UNCHANGED <<notified, cur, dispatched, outbox, connected>>
        /\ threw' = [threw EXCEPT ![cur] = @ \cup {Len(dispatched[cur])}]
    BY <1>11 DEF CommandThrows
  <2> QED BY <2>1, AnswerReturn
\* What a request gets when it is answered by SendCommand at once.
<1>12. ASSUME NEW r \in Requests, Take(r), Send(cur, Expected(r.cmd), req),
              UNCHANGED <<notified, threw, cur>>, at' = "check"
       PROVE  AnswerInv'
  <2>1. cur \in Clients
    BY <1>0, <1>12, TakeTyped
  <2>2. /\ \A c \in Clients : connected'[c] => connected[c]
        /\ \/ outbox' = [outbox EXCEPT ![cur] =
                            Append(@, [cmd |-> Expected(r.cmd), req |-> req])]
           \/ UNCHANGED outbox /\ ~connected'[cur]
    BY <1>0, <1>12, <2>1 DEF Send, SessTypes
  <2> QED BY <1>12, <2>2, AnswerDispatch
<1>13. CASE DispatchCommon
  <2>1. PICK r \in Requests :
           /\ Take(r) /\ r.cmd \in {HEARTBEAT, HELLO} /\ Send(cur, r.cmd, req)
           /\ UNCHANGED <<notified, threw, cur>> /\ at' = "check"
    BY <1>13 DEF DispatchCommon
  <2>2. Expected(r.cmd) = r.cmd
    BY <2>1 DEF Expected, AUTH_REQ, HEARTBEAT, HELLO
  <2> QED BY <1>12, <2>1, <2>2
<1>14. CASE HandleAuth
  <2>1. PICK r \in Requests :
           /\ Take(r) /\ r.cmd = AUTH_REQ /\ Send(cur, AUTH_RESP, req)
           /\ UNCHANGED <<notified, threw, cur>> /\ at' = "check"
    BY <1>14 DEF HandleAuth
  <2>2. Expected(r.cmd) = AUTH_RESP
    BY <2>1 DEF Expected, AUTH_REQ, HEARTBEAT, HELLO
  <2> QED BY <1>12, <2>1, <2>2
<1>15. CASE DispatchUnauthorized
  <2>1. PICK r \in Requests :
           /\ Take(r) /\ Send(cur, ResponseCommandFor(r.cmd), req)
           /\ r.cmd \notin {HEARTBEAT, HELLO, AUTH_REQ} /\ Handlers(r.cmd) # {}
           /\ UNCHANGED <<notified, threw, cur>> /\ at' = "check"
    BY <1>15 DEF DispatchUnauthorized
  <2>2. r.cmd \in Nat
    BY BoundsAssumption DEF Request
  <2>3. Expected(r.cmd) = ResponseCommandFor(r.cmd)
    BY <2>1, <2>2, RefusalExpected
  <2> QED BY <1>12, <2>1, <2>3
<1>16. CASE HandleAuthLimit
  <2>1. PICK r \in Requests :
           /\ Take(r) /\ r.cmd = AUTH_REQ
           /\ UNCHANGED <<notified, threw, cur>> /\ at' = "check"
           /\ connected' = [connected EXCEPT ![cur] = FALSE]
           /\ \/ outbox' = [outbox EXCEPT ![cur] =
                                Append(@, [cmd |-> AUTH_RESP, req |-> req])]
              \/ UNCHANGED outbox
    BY <1>16 DEF HandleAuthLimit
  <2>2. cur \in Clients /\ Expected(r.cmd) = AUTH_RESP
    BY <1>0, <2>1, TakeTyped DEF Expected, AUTH_REQ, HEARTBEAT, HELLO
  <2>3. ~connected'[cur] /\ \A c \in Clients : connected'[c] => connected[c]
    BY <1>0, <2>1, <2>2 DEF SessTypes
  <2> QED BY <2>1, <2>2, <2>3, AnswerDispatch
<1>17. CASE DispatchUnknown \/ DispatchToModule
  <2>1. PICK r \in Requests :
           /\ Take(r) /\ r.cmd \notin {HEARTBEAT, HELLO, AUTH_REQ}
           /\ UNCHANGED <<notified, threw, cur, outbox, connected>>
           /\ (at' = "check" /\ Handlers(r.cmd) = {}) \/ at' = "execute"
    BY <1>17 DEF DispatchUnknown, DispatchToModule
  <2> QED BY <2>1, AnswerDispatch
<1>18. CASE Exceptions
  <2>1. at # "execute" /\ at' # "execute"
    BY <1>18, ExceptionKeeps DEF Exceptions, PollFails, RoundThrows, AcceptThrows, GreetThrows,
                                ReapThrows, Throws
  <2> QED BY <1>18, <2>1, ExceptionKeeps, AnswerKept
<1> QED BY <1>2, <1>3, <1>4, <1>5, <1>6, <1>7, <1>8, <1>9, <1>10, <1>11, <1>13, <1>14,
           <1>15, <1>16, <1>17, <1>18 DEF Next, Round, Dispatch, MainThread

\* Of any requests, pipelined as the client likes, each that is owed an answer
\* gets its one, with its id and the command the client waits for, in order,
\* while the session is up; a refusal for want of the token included.
THEOREM EveryRequestAnswered == Spec => []Answered
<1>1. Init => MemberInv /\ LimitInv /\ AnswerInv
  <2>1. Init => AnswerInv
    BY DEF Init, AnswerInv, Answering, Fits, Executing
  <2> QED BY <2>1, MemberStart
<1>2. /\ Types /\ MemberInv /\ LimitInv /\ AnswerInv
      /\ [Next]_vars
      => MemberInv' /\ LimitInv' /\ AnswerInv'
  BY MemberStep, LimitStep, AnswerStep
<1>3. Types /\ AnswerInv => Answered
  <2> SUFFICES ASSUME Types, AnswerInv, NEW c \in Clients
               PROVE  /\ \A k \in DOMAIN outbox[c] :
                            /\ outbox[c][k].req \in DOMAIN dispatched[c]
                            /\ outbox[c][k].cmd = Expected(dispatched[c][outbox[c][k].req].cmd)
                            /\ k > 1 => outbox[c][k-1].req < outbox[c][k].req
                      /\ (connected[c] /\ ~Serving(c)) =>
                            \A n \in DOMAIN dispatched[c] :
                               Owed(c, n) => \E k \in DOMAIN outbox[c] : outbox[c][k].req = n
    BY DEF Answered
  <2>1. DOMAIN outbox[c] = 1..Len(outbox[c]) /\ DOMAIN dispatched[c] = 1..Len(dispatched[c])
    BY DEF Types, HistTypes
  <2>2. Answering(c) /\ (Executing(c) => Serving(c))
    BY DEF AnswerInv, Executing, Serving
  <2> QED BY <2>1, <2>2 DEF Answering, Fits, HasAnswer
<1> QED BY <1>1, <1>2, <1>3, TypesHold, PTL DEF Spec

-----------------------------------------------------------------------------
(* Broadcasts. *)

Push == [by : Broadcasters, n : Nat]

\* The broadcast under way of b, as a session gets it.
Current(b) == [by |-> b, n |-> casts[b]]

\* A session of the snapshot has not been reached yet, or has got the command, or
\* is down; and it had been accepted when the snapshot was taken, so a session
\* accepted later is in none.
Reaching(b, c) ==
    /\ InSeq(c, sending[b]) => c \in targets[b] /\ ~InSeq(Current(b), pushed[c])
    /\ (b \notin frames /\ c \in targets[b] /\ connected[c] /\ ~InSeq(c, sending[b])) =>
           InSeq(Current(b), pushed[c])
    /\ c \in targets[b] => notified[c] # <<>> \/ BeingGreeted(c)
    /\ \A k \in DOMAIN pushed[c] : pushed[c][k].by = b => pushed[c][k].n <= casts[b]

CastInv ==
    /\ \A b \in Broadcasters : Distinct(sending[b])
    /\ \A c \in Clients : Distinct(pushed[c])
    /\ \A b \in Broadcasters, c \in Clients : Reaching(b, c)

\* A step of somebody else keeps it, when it connects nobody but a newcomer.
LEMMA CastKept ==
  ASSUME CastInv, UNCHANGED castVars, UNCHANGED frames,
         \A c \in Clients : connected'[c] => connected[c] \/ (notified[c] = <<>> /\ ~BeingGreeted(c)),
         \A c \in Clients : notified[c] # <<>> => notified'[c] # <<>>,
         \A c \in Clients : BeingGreeted(c) => BeingGreeted(c)' \/ notified'[c] # <<>>
  PROVE  CastInv'
<1>0. UNCHANGED <<sending, targets, casts, pushed, frames>>
  BY DEF castVars
<1>1. ASSUME NEW b \in Broadcasters, NEW c \in Clients PROVE Reaching(b, c)'
  <2>1. Reaching(b, c)
    BY DEF CastInv
  <2>2. Current(b)' = Current(b)
    BY <1>0 DEF Current
  <2>3. ~InSeq(c, sending[b]) /\ c \in targets[b] /\ connected'[c] => connected[c]
    BY <2>1 DEF Reaching
  <2>4. /\ InSeq(c, sending'[b]) <=> InSeq(c, sending[b])
        /\ \A v : InSeq(v, pushed'[c]) <=> InSeq(v, pushed[c])
    BY <1>0
  <2>5. c \in targets'[b] => notified'[c] # <<>> \/ BeingGreeted(c)'
    BY <1>0, <2>1 DEF Reaching
  <2>6. /\ InSeq(c, sending[b])' <=> InSeq(c, sending'[b])
        /\ InSeq(Current(b), pushed[c])' <=> InSeq(Current(b)', pushed'[c])
    BY DEF InSeq
  <2> QED BY <1>0, <2>1, <2>2, <2>3, <2>4, <2>5, <2>6 DEF Reaching
<1> QED BY <1>0, <1>1 DEF CastInv, Distinct

\* A snapshot starts a broadcast nobody has got.
LEMMA CastSnapshot ==
  ASSUME Types, MemberInv, CastInv, NEW b \in Broadcasters, Snapshot(b)
  PROVE  CastInv'
<1> USE DEF confVars, netVars, listVars, sessVars, authVars, loopVars, pollVars,
            castVars, histVars
<1>0. CastTypes /\ ListTypes
  BY DEF Types
<1>1. /\ casts'[b] = casts[b] + 1 /\ sending'[b] = clients
      /\ targets'[b] = {clients[k] : k \in DOMAIN clients}
      /\ \A d \in Broadcasters \ {b} : /\ casts'[d] = casts[d] /\ sending'[d] = sending[d]
                                      /\ targets'[d] = targets[d]
      /\ UNCHANGED <<pushed, frames, connected, notified, at, cur, clients>>
  BY <1>0 DEF Snapshot, CastTypes
<1>2. ASSUME NEW c \in Clients PROVE Reaching(b, c)'
  <2>1. Reaching(b, c) /\ casts[b] \in Nat /\ pushed[c] \in Seq(Push)
    BY <1>0 DEF CastInv, CastTypes, Push
  <2>2. \A k \in DOMAIN pushed[c] : pushed[c][k] \in Push /\ pushed[c][k].n \in Nat
    <3>1. \A k \in DOMAIN pushed[c] : pushed[c][k] \in Push
      <4> HIDE DEF castVars
      <4> QED BY <2>1
    <3>2. \A v \in Push : v.n \in Nat
      BY DEF Push
    <3> QED BY <3>1, <3>2
  <2>3. \A k \in DOMAIN pushed[c] : pushed[c][k].by = b => pushed[c][k].n < casts'[b]
    BY <1>1, <2>1, <2>2 DEF Reaching
  <2>4. /\ Current(b)' = [by |-> b, n |-> casts'[b]]
        /\ casts'[b] \in Nat
    BY <1>1, <2>1 DEF Current
  <2>5. \A k \in DOMAIN pushed[c] : pushed[c][k] # Current(b)'
    <3> SUFFICES ASSUME NEW k \in DOMAIN pushed[c], pushed[c][k] = Current(b)' PROVE FALSE
      OBVIOUS
    <3>1. pushed[c][k].by = b /\ pushed[c][k].n = casts'[b]
      BY <2>4
    <3> QED BY <2>2, <2>3, <2>4, <3>1
  <2>6. InSeq(c, sending[b])' <=> c \in targets'[b]
    BY <1>1 DEF InSeq
  <2>7. ~InSeq(Current(b), pushed[c])'
    BY <1>1, <2>5 DEF InSeq
  <2>8. c \in targets'[b] => notified'[c] # <<>> \/ BeingGreeted(c)'
    <3>1. c \in targets'[b] => InSeq(c, clients)
      BY <1>1 DEF InSeq
    <3> QED BY <1>1, <3>1, Notices DEF MemberInv, Member, Come, BeingGreeted
  <2>9. \A k \in DOMAIN pushed'[c] : pushed'[c][k].by = b => pushed'[c][k].n <= casts'[b]
    BY <1>1, <2>2, <2>3, <2>4
  <2> QED BY <2>6, <2>7, <2>8, <2>9 DEF Reaching
<1>3. ASSUME NEW d \in Broadcasters \ {b}, NEW c \in Clients PROVE Reaching(d, c)'
  <2>1. Reaching(d, c) /\ Current(d)' = Current(d)
    BY <1>1 DEF CastInv, Current
  <2> QED BY <1>1, <2>1 DEF Reaching, BeingGreeted, InSeq
<1>4. /\ \A d \in Broadcasters : Distinct(sending'[d])
      /\ \A c \in Clients : Distinct(pushed'[c])
  BY <1>1 DEF CastInv, MemberInv, Distinct
<1>5. \A d \in Broadcasters, c \in Clients : Reaching(d, c)'
  BY <1>2, <1>3
<1> QED BY <1>4, <1>5 DEF CastInv, Distinct

\* The next session of the snapshot gets the command, or is down;
\* a frame may also be left out.
LEMMA CastNext ==
  ASSUME Types, CastInv, NEW b \in Broadcasters, SendNext(b)
  PROVE  CastInv'
<1> USE DEF confVars, netVars, listVars, sessVars, authVars, loopVars, pollVars,
            castVars, histVars
<1> DEFINE x == Head(sending[b])
           v == Current(b)
<1>0. CastTypes /\ SessTypes
  BY DEF Types
<1>1. /\ sending[b] # <<>> /\ sending'[b] = Tail(sending[b])
      /\ \A d \in Broadcasters \ {b} : sending'[d] = sending[d]
      /\ UNCHANGED <<targets, casts, frames, notified, at, cur>>
  BY <1>0 DEF SendNext, CastTypes
<1>2. /\ x \in Clients /\ InSeq(x, sending[b])
      /\ \A c : InSeq(c, Tail(sending[b])) <=> InSeq(c, sending[b]) /\ c # x
      /\ Distinct(Tail(sending[b]))
  BY <1>0, <1>1, InTail DEF CastTypes, CastInv
<1>3. /\ \A c \in Clients : connected'[c] => connected[c]
      /\ \A c \in Clients \ {x} : pushed'[c] = pushed[c]
      /\ \/ pushed'[x] = Append(pushed[x], v)
         \/ pushed'[x] = pushed[x] /\ (b \in frames \/ ~connected'[x])
  <2>1. \/ /\ pushed' = [pushed EXCEPT ![x] = Append(@, v)] /\ UNCHANGED connected
        \/ /\ UNCHANGED pushed
           /\ connected' = [connected EXCEPT ![x] = FALSE]
        \/ UNCHANGED <<pushed, connected>> /\ (b \in frames \/ ~connected[x])
    BY DEF SendNext, Current
  <2> HIDE DEF x, v
  <2> QED BY <1>0, <1>2, <2>1 DEF CastTypes, SessTypes
<1>4. v \in Push /\ v.by = b /\ v.n = casts[b] /\ pushed[x] \in Seq(Push)
  BY <1>0, <1>2 DEF CastTypes, Push, Current
<1>5. \A d \in Broadcasters : Current(d)' = Current(d)
  BY <1>1 DEF Current
<1> HIDE DEF x, v
<1>6. ASSUME NEW d \in Broadcasters, NEW c \in Clients PROVE Reaching(d, c)'
  <2>0. Reaching(d, c) /\ InSeq(c, sending'[d]) => InSeq(c, sending[d])
    BY <1>1, <1>2 DEF CastInv
  <2>1. CASE c # x
    <3>1. /\ pushed'[c] = pushed[c] /\ (connected'[c] => connected[c])
          /\ InSeq(c, sending'[d]) <=> InSeq(c, sending[d])
      BY <1>1, <1>2, <1>3, <2>1
    <3>2. Reaching(d, c)
      BY DEF CastInv
    <3> QED BY <1>1, <1>5, <3>1, <3>2 DEF Reaching, BeingGreeted, InSeq
  <2>2. CASE c = x /\ pushed'[x] = pushed[x] /\ (b \in frames \/ ~connected'[x])
    <3>1. /\ Reaching(d, c) /\ (connected'[c] => connected[c])
          /\ InSeq(c, sending'[d]) => InSeq(c, sending[d])
          /\ d # b => sending'[d] = sending[d]
      BY <1>1, <1>2, <1>3 DEF CastInv
    <3>2. /\ InSeq(c, sending[d])' <=> InSeq(c, sending'[d])
          /\ InSeq(Current(d), pushed[c])' <=> InSeq(Current(d), pushed[c])
      BY <1>5, <2>2 DEF InSeq
    <3>3. d = b \/ (InSeq(c, sending'[d]) <=> InSeq(c, sending[d]))
      BY <3>1
    <3> QED BY <1>1, <2>2, <3>1, <3>2, <3>3 DEF Reaching, BeingGreeted
  <2>3. CASE c = x /\ pushed'[x] = Append(pushed[x], v)
    <3>1. Reaching(d, c) /\ Reaching(b, c) /\ (connected'[c] => connected[c])
      BY <1>3 DEF CastInv
    <3>2. \A k \in DOMAIN pushed'[c] : pushed'[c][k].by = d => pushed'[c][k].n <= casts'[d]
      <4>1. /\ \A k \in DOMAIN pushed'[c] :
                  pushed'[c][k] = v \/ (k \in DOMAIN pushed[c] /\ pushed'[c][k] = pushed[c][k])
        BY <1>4, <2>3
      <4>2. casts[d] \in Nat
        BY <1>0 DEF CastTypes
      <4> QED BY <1>1, <1>4, <3>1, <4>1, <4>2 DEF Reaching
    <3>3. \A w : InSeq(w, pushed'[c]) <=> InSeq(w, pushed[c]) \/ w = v
      BY <1>4, <2>3, InAppend
    <3>4. /\ InSeq(c, sending[d])' <=> InSeq(c, sending'[d])
          /\ InSeq(Current(d), pushed[c])' <=> InSeq(Current(d), pushed'[c])
      BY <1>5 DEF InSeq
    <3>5. CASE d = b
      <4>1. c \in targets[b] /\ ~InSeq(c, sending'[d]) /\ InSeq(Current(d), pushed'[c])
        BY <1>1, <1>2, <2>3, <3>1, <3>3, <3>5 DEF Reaching, v
      <4> QED BY <1>1, <3>1, <3>2, <3>4, <4>1 DEF Reaching, BeingGreeted
    <3>6. CASE d # b
      <4>1. Current(d) # v
        <5>1. Current(d).by = d
          BY DEF Current
        <5> QED BY <1>4, <3>6, <5>1
      <4>2. sending'[d] = sending[d]
        BY <1>1, <3>6
      <4>3. InSeq(Current(d), pushed'[c]) <=> InSeq(Current(d), pushed[c])
        BY <3>3, <4>1
      <4> QED BY <1>1, <3>1, <3>2, <3>4, <4>2, <4>3 DEF Reaching, BeingGreeted
    <3> QED BY <3>5, <3>6
  <2> QED BY <1>3, <2>1, <2>2, <2>3
<1>7. \A d \in Broadcasters : Distinct(sending'[d])
  BY <1>1, <1>2 DEF CastInv
<1>8. ASSUME NEW c \in Clients PROVE Distinct(pushed'[c])
  <2>1. pushed'[c] = pushed[c] \/ (c = x /\ pushed'[c] = Append(pushed[c], v))
    BY <1>3
  <2>2. Distinct(pushed[c]) /\ (c = x => ~InSeq(v, pushed[c]))
    BY <1>2 DEF CastInv, Reaching, v
  <2> QED BY <1>4, <2>1, <2>2, InAppend
<1> QED BY <1>6, <1>7, <1>8 DEF CastInv, Distinct

\* An exception in the broadcasting thread leaves out those it has not come to.
LEMMA CastThrows ==
  ASSUME Types, CastInv, NEW b \in Broadcasters, BroadcastThrows(b)
  PROVE  CastInv'
<1> USE DEF confVars, netVars, listVars, sessVars, authVars, loopVars, pollVars,
            castVars, histVars
<1>0. CastTypes
  BY DEF Types
<1>1. /\ sending'[b] = <<>> /\ targets'[b] = {c \in targets[b] : ~InSeq(c, sending[b])}
      /\ \A d \in Broadcasters \ {b} : sending'[d] = sending[d] /\ targets'[d] = targets[d]
      /\ UNCHANGED <<pushed, casts, frames, connected, notified, at, cur>>
  BY <1>0 DEF BroadcastThrows, CastTypes, InSeq
<1>2. ASSUME NEW c \in Clients PROVE Reaching(b, c)'
  <2>1. Reaching(b, c)
    BY DEF CastInv
  <2>2. ~InSeq(c, sending[b])'
    BY <1>1 DEF InSeq
  <2>3. InSeq(Current(b), pushed[c])' <=> InSeq(Current(b), pushed[c])
    BY <1>1 DEF InSeq, Current
  <2> QED BY <1>1, <2>1, <2>2, <2>3 DEF Reaching, BeingGreeted
<1>3. ASSUME NEW d \in Broadcasters \ {b}, NEW c \in Clients PROVE Reaching(d, c)'
  <2>1. Reaching(d, c) /\ Current(d)' = Current(d)
    BY <1>1 DEF CastInv, Current
  <2> QED BY <1>1, <2>1 DEF Reaching, BeingGreeted, InSeq
<1>4. /\ \A d \in Broadcasters : Distinct(sending'[d])
      /\ \A c \in Clients : Distinct(pushed'[c])
  BY <1>1 DEF CastInv, Distinct
<1>5. \A d \in Broadcasters, c \in Clients : Reaching(d, c)'
  BY <1>2, <1>3
<1> QED BY <1>4, <1>5 DEF CastInv, Distinct


\* Every step keeps what the broadcasts have reached.
LEMMA CastStep ==
  ASSUME Types, MemberInv, CastInv, [Next]_vars
  PROVE  CastInv'
<1> USE DEF confVars, netVars, listVars, sessVars, authVars, loopVars, pollVars,
            histVars
<1>0. NetTypes /\ ListTypes /\ SessTypes /\ LoopTypes
  BY DEF Types
<1>1. ASSUME UNCHANGED castVars, UNCHANGED <<frames, notified>>,
             \A c \in Clients : connected'[c] => connected[c],
             at = "greet" => UNCHANGED <<at, cur>>
      PROVE  CastInv'
  BY <1>1, CastKept DEF BeingGreeted
<1>2. ASSUME NEW c \in Clients, Client(c) PROVE CastInv'
  <2>1. UNCHANGED castVars /\ UNCHANGED <<frames, notified, at, cur, connected>>
    BY <1>2 DEF Client, ClientConnects, ClientSends, ClientCloses
  <2> QED BY <1>1, <2>1
<1>3. ASSUME NEW b \in Broadcasters, Broadcast(b) PROVE CastInv'
  BY <1>3, CastSnapshot, CastNext, CastThrows DEF Broadcast
<1>4. CASE RequestStop \/ UNCHANGED vars
  <2>1. UNCHANGED castVars /\ UNCHANGED <<frames, notified, at, cur, connected>>
    BY <1>4 DEF RequestStop, vars
  <2> QED BY <1>1, <2>1
<1>5. CASE RoundStarts \/ BuildOne \/ BuildEnds \/ Poll \/ AcceptEnds \/ ServeSkips \/ ServeEnds
           \/ Receive \/ CommandThrows \/ CheckConnected \/ ReapOne \/ ReapEnds \/ RoundEnds
           \/ ShutdownStarts \/ ShutdownEnds \/ DispatchUnknown
           \/ DispatchToModule
  <2>1. UNCHANGED castVars /\ UNCHANGED <<frames, notified, connected>> /\ at # "greet"
    BY <1>5 DEF RoundStarts, BuildOne, BuildEnds, Poll, AcceptEnds, ServeSkips, ServeEnds,
                Receive, CommandThrows, CheckConnected, ReapOne, ReapEnds, RoundEnds,
                ShutdownStarts, ShutdownEnds, DispatchUnknown,
                DispatchToModule, Take
  <2> QED BY <1>1, <2>1
<1>6. CASE AcceptOne
  <2> DEFINE c == Head(backlog)
  <2>1. /\ backlog # <<>> /\ at = "accept"
        /\ connected' = [connected EXCEPT ![c] = TRUE]
        /\ UNCHANGED castVars /\ UNCHANGED <<frames, notified>>
    BY <1>6 DEF AcceptOne
  <2>2. c \in Clients /\ InSeq(c, backlog)
    BY <1>0, <2>1, InTail DEF NetTypes, MemberInv
  <2> HIDE DEF c
  <2>3. notified[c] = <<>> /\ \A d \in Clients : ~BeingGreeted(d)
    BY <2>1, <2>2 DEF MemberInv, Waiting, BeingGreeted
  <2>4. \A d \in Clients : connected'[d] => connected[d] \/ d = c
    BY <1>0, <2>1 DEF SessTypes
  <2> QED BY <2>1, <2>3, <2>4, CastKept
<1>7. CASE Greet
  <2>1. /\ at = "greet" /\ cur \in Clients
        /\ notified' = [notified EXCEPT ![cur] = Append(@, "connected")]
        /\ UNCHANGED castVars /\ UNCHANGED <<frames, connected>>
    BY <1>0, <1>7 DEF Greet, LoopTypes
  <2>2. \A c \in Clients : notified[c] # <<>> \/ c = cur => notified'[c] # <<>>
    <3>1. Append(notified[cur], "connected") # <<>>
      <4>1. notified[cur] \in Seq({"connected", "disconnected", "lost"})
        BY <1>0, <2>1 DEF ListTypes
      <4> QED BY <4>1, AppendProperties
    <3> QED BY <1>0, <2>1, <3>1 DEF ListTypes
  <2> QED BY <2>1, <2>2, CastKept DEF BeingGreeted
<1>8. CASE CloseOne
  <2> DEFINE c == Head(doomed)
  <2>1. /\ at \in {"close", "shutdown"} /\ doomed # <<>>
        /\ connected' = [connected EXCEPT ![c] = FALSE]
        /\ notified' = [notified EXCEPT ![c] = Append(@, "disconnected")]
        /\ UNCHANGED castVars /\ UNCHANGED frames
    BY <1>8 DEF CloseOne
  <2>2. c \in Clients
    BY <1>0, <2>1 DEF ListTypes
  <2> HIDE DEF c
  <2>3. \A d \in Clients : notified[d] # <<>> => notified'[d] # <<>>
    <3>1. Append(notified[c], "disconnected") # <<>>
      <4>1. notified[c] \in Seq({"connected", "disconnected", "lost"})
        BY <1>0, <2>2 DEF ListTypes
      <4> QED BY <4>1, AppendProperties
    <3> QED BY <1>0, <2>1, <3>1 DEF ListTypes
  <2>4. \A d \in Clients : connected'[d] => connected[d]
    BY <1>0, <2>1 DEF SessTypes
  <2> QED BY <2>1, <2>3, <2>4, CastKept DEF BeingGreeted
<1>9. CASE ReceiveEnds \/ CommandReturns \/ DispatchCommon \/ HandleAuth \/ HandleAuthLimit
           \/ DispatchUnauthorized
  <2>1. UNCHANGED castVars /\ UNCHANGED <<frames, notified>> /\ at # "greet"
    BY <1>9 DEF ReceiveEnds, CommandReturns, DispatchCommon, HandleAuth, HandleAuthLimit,
                DispatchUnauthorized, Take
  <2>2. \A c \in Clients : connected'[c] => connected[c]
    BY <1>0, <1>9 DEF ReceiveEnds, CommandReturns, DispatchCommon, HandleAuth,
                      HandleAuthLimit, DispatchUnauthorized, Send, SessTypes
  <2> QED BY <1>1, <2>1, <2>2
<1>10. CASE Exceptions
  <2>1. UNCHANGED castVars /\ UNCHANGED <<frames, connected>>
    BY <1>10, ExceptionKeeps
  <2> QED BY <1>10, <2>1, ExceptionKeeps, CastKept
<1> QED BY <1>2, <1>3, <1>4, <1>5, <1>6, <1>7, <1>8, <1>9, <1>10
        DEF Next, Round, Dispatch, MainThread

\* Any number of broadcasters, of sessions and of broadcasts: a session of the
\* snapshot that stays up gets the command, however the list, the other sessions
\* and the other broadcasts change meanwhile, though a frame may be left out; and
\* no session gets any broadcast twice.
THEOREM BroadcastsReach == Spec => []BroadcastReaches
<1>1. Init => MemberInv /\ CastInv
  <2>1. Init => CastInv
    BY DEF Init, CastInv, Distinct, Reaching, InSeq
  <2> QED BY <2>1, MemberStart
<1>2. Types /\ MemberInv /\ CastInv /\ [Next]_vars => MemberInv' /\ CastInv'
  BY MemberStep, CastStep
<1>3. Types /\ CastInv => BroadcastReaches
  <2>1. ASSUME Types, CastInv, NEW b \in Broadcasters \ frames, NEW c \in targets[b],
               connected[c], ~InSeq(c, sending[b])
        PROVE  \E k \in DOMAIN pushed[c] : pushed[c][k] = [by |-> b, n |-> casts[b]]
    <3>1. c \in Clients
      BY <2>1 DEF Types, CastTypes
    <3>2. InSeq(Current(b), pushed[c])
      BY <2>1, <3>1 DEF CastInv, Reaching
    <3> QED BY <3>2 DEF InSeq, Current
  <2>2. ASSUME CastInv, NEW c \in Clients PROVE Distinct(pushed[c])
    BY <2>2 DEF CastInv
  <2> QED BY <2>1, <2>2 DEF BroadcastReaches, Distinct
<1> QED BY <1>1, <1>2, <1>3, TypesHold, PTL DEF Spec

=============================================================================
