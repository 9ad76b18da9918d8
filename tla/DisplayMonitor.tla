---------------------------- MODULE DisplayMonitor ----------------------------
(***************************************************************************)
(* The monitor of the display module (src/modules/DisplayModule.cpp): its  *)
(* rounds, the flags by which the server thread and the window's thread    *)
(* ask for a push, and the push.  What the operations do to the displays   *)
(* is the subject of DisplaySwitch; here they replace one state of the     *)
(* displays by another.                                                    *)
(***************************************************************************)
EXTENDS Integers

CONSTANTS
    States,         \* states of the displays, as the enumeration returns them
    NoPrimary,      \* among them: an enumeration that failed, without a primary
    Clients,
    Nothing,
    MaxChanges,     \* bound on operations and on changes made by others
    MaxFailures,    \* bound on enumerations that fail
    MaxThrows       \* bound on rounds that throw anywhere but in the payload

ASSUME ConstantsAssumption ==
    /\ NoPrimary \in States /\ Nothing \notin States
    /\ MaxChanges \in Nat /\ MaxFailures \in Nat /\ MaxThrows \in Nat

Requesters == {"server", "ui"}

VARIABLES
    state,          \* the displays
    clients,        \* the server's list
    told,           \* the last DISPLAY_CURRENT of the monitor each client got
    meant,          \* the state the last push with the client on the list was
                    \* to tell, whatever became of it (history)
    forcePush,      \* m_forcePush
    wakeRequested,  \* m_wakeRequested
    displayMutex,   \* m_displayMutex is held, by an operation
    at,             \* where the threads that ask for pushes are
    doing,          \* the operation that is running
    pc,             \* where the monitor is
    force,          \* its local of that name
    seen,           \* what its enumeration returned
    last,           \* last.hash, or Nothing after DisplayState{}
    primary,        \* what the second enumeration, in the push, returned
    rest,           \* the clients its broadcast has not reached yet
    changes, failures, throws

clientVars == <<clients, told, meant>>
flagVars == <<forcePush, wakeRequested>>
opVars == <<at, doing>>
monitorVars == <<pc, force, seen, last, primary, rest>>
boundVars == <<changes, failures, throws>>
vars == <<state, clientVars, flagVars, displayMutex, opVars, monitorVars, boundVars>>

\* about: the state the packet was made from; whole: its payload is the JSON.
Packet == [about : States, whole : BOOLEAN]

ASSUME NothingAssumption == Nothing \notin Packet

Init ==
    /\ state \in States \ {NoPrimary}
    /\ clients = {}
    /\ told = [c \in Clients |-> Nothing] /\ meant = [c \in Clients |-> Nothing]
    /\ forcePush = FALSE /\ wakeRequested = FALSE /\ displayMutex = FALSE
    /\ at = [r \in Requesters |-> "idle"] /\ doing = Nothing
    /\ pc = "top" /\ force = FALSE /\ seen = Nothing /\ last = Nothing
    /\ primary = Nothing /\ rest = {}
    /\ changes = 0 /\ failures = 0 /\ throws = 0

-----------------------------------------------------------------------------
(* The displays change by other hands; the window may be told. *)

CountChange == changes < MaxChanges /\ changes' = changes + 1

SomeoneChanges ==
    /\ CountChange
    /\ \E s \in States \ {NoPrimary, state} : state' = s
    /\ \/ UNCHANGED at
       \/ at["ui"] = "idle" /\ at' = [at EXCEPT !["ui"] = "store"]
    /\ UNCHANGED <<clientVars, flagVars, displayMutex, doing, monitorVars,
                   failures, throws>>

-----------------------------------------------------------------------------
(* The server thread and the window's thread. *)

\* The client is put on the list, then OnClientConnected is called.
Accept(c) ==
    /\ at["server"] = "idle" /\ c \notin clients
    /\ clients' = clients \cup {c}
    /\ told' = [told EXCEPT ![c] = Nothing] /\ meant' = [meant EXCEPT ![c] = Nothing]
    /\ at' = [at EXCEPT !["server"] = "store"]
    /\ UNCHANGED <<state, flagVars, displayMutex, doing, monitorVars, boundVars>>

Reap(c) ==
    /\ at["server"] = "idle" /\ c \in clients
    /\ clients' = clients \ {c}
    /\ told' = [told EXCEPT ![c] = Nothing] /\ meant' = [meant EXCEPT ![c] = Nothing]
    /\ UNCHANGED <<state, flagVars, displayMutex, opVars, monitorVars, boundVars>>

\* DISPLAY_SWITCH, DISPLAY_MODE_SET, DISPLAY_SCALE_SET: the calls that change
\* something run under m_displayMutex.
OperationBegins(op) ==
    /\ at["server"] = "idle" /\ ~displayMutex
    /\ CountChange
    /\ displayMutex' = TRUE
    /\ at' = [at EXCEPT !["server"] = "changing"] /\ doing' = op
    /\ UNCHANGED <<state, clientVars, flagVars, monitorVars, failures, throws>>

\* A switch and a mode that succeeded ask for a push; a scale does not.
OperationEnds(ok) ==
    /\ at["server"] = "changing"
    /\ state' \in States \ {NoPrimary}
    /\ displayMutex' = FALSE
    /\ doing' = Nothing
    /\ at' = [at EXCEPT !["server"] =
                IF ok /\ doing \in {"switch", "mode"} THEN "store" ELSE "idle"]
    /\ UNCHANGED <<clientVars, flagVars, monitorVars, boundVars>>

\* Variant: the flag without the wake-up.
RequestStoreOnly(r) ==
    /\ at[r] = "store"
    /\ forcePush' = TRUE
    /\ at' = [at EXCEPT ![r] = "idle"]
    /\ UNCHANGED <<wakeRequested, state, clientVars, displayMutex, doing,
                   monitorVars, boundVars>>

\* RequestPush: first m_forcePush ...
RequestStore(r) ==
    /\ at[r] = "store"
    /\ forcePush' = TRUE
    /\ at' = [at EXCEPT ![r] = "wake"]
    /\ UNCHANGED <<wakeRequested, state, clientVars, displayMutex, doing,
                   monitorVars, boundVars>>

\* ... then, under m_wakeMutex, m_wakeRequested.
RequestWake(r) ==
    /\ at[r] = "wake"
    /\ wakeRequested' = TRUE
    /\ at' = [at EXCEPT ![r] = "idle"]
    /\ UNCHANGED <<forcePush, state, clientVars, displayMutex, doing,
                   monitorVars, boundVars>>

-----------------------------------------------------------------------------
(* One round of MonitorLoop. *)

\* The round's locals die with it.
EndRound ==
    /\ pc' = "wait"
    /\ force' = FALSE /\ seen' = Nothing /\ primary' = Nothing /\ rest' = {}

Exchange ==
    /\ pc = "top"
    /\ force' = forcePush /\ forcePush' = FALSE
    /\ pc' = "enumerate"
    /\ UNCHANGED <<seen, last, primary, rest, wakeRequested, state, clientVars,
                   displayMutex, opVars, boundVars>>

\* EnumerateDisplays, never while an operation changes the displays.
Enumerated(s) ==
    /\ ~displayMutex
    /\ \/ s = state /\ UNCHANGED failures
       \/ s = NoPrimary /\ failures < MaxFailures /\ failures' = failures + 1

Enumerate ==
    /\ pc = "enumerate"
    /\ \E s \in States : Enumerated(s) /\ seen' = s
    /\ pc' = "compare"
    /\ UNCHANGED <<force, last, primary, rest, flagVars, state, clientVars,
                   displayMutex, opVars, changes, throws>>

Compare ==
    /\ pc = "compare"
    /\ last' = seen
    /\ IF force \/ last # seen
       THEN pc' = "hasClients" /\ UNCHANGED <<force, seen, primary, rest>>
       ELSE EndRound
    /\ UNCHANGED <<flagVars, state, clientVars, displayMutex, opVars, boundVars>>

HasClients ==
    /\ pc = "hasClients"
    /\ IF force \/ clients # {}
       THEN pc' = "primary" /\ UNCHANGED <<force, seen, primary, rest>>
       ELSE EndRound
    /\ UNCHANGED <<last, flagVars, state, clientVars, displayMutex, opVars, boundVars>>

\* PushCurrentDisplayState enumerates again, in GetCurrentPrimary.
GetCurrentPrimary ==
    /\ pc = "primary"
    /\ \E s \in States :
        /\ Enumerated(s) /\ primary' = s
        /\ meant' = [c \in Clients |-> IF c \in clients THEN s ELSE meant[c]]
        /\ pc' = IF s = NoPrimary THEN "snapshot" ELSE "build"
    /\ UNCHANGED <<force, seen, last, rest, flagVars, state, clients, told,
                   displayMutex, opVars, changes, throws>>

\* The payload of a state is built from begin() of one temporary string and
\* end() of another: the vector's constructor throws (Catch, any number of
\* times), or what it copies is the memory from one string to the other.
BuildPayload ==
    /\ pc = "build"
    /\ pc' = "snapshot"
    /\ UNCHANGED <<force, seen, last, primary, rest, flagVars, state, clientVars,
                   displayMutex, opVars, boundVars>>

\* BroadcastCommand copies the list ...
Snapshot ==
    /\ pc = "snapshot"
    /\ rest' = clients
    /\ pc' = "send"
    /\ UNCHANGED <<force, seen, last, primary, flagVars, state, clientVars,
                   displayMutex, opVars, boundVars>>

\* The error message is built from one string; the other payload is never the
\* JSON alone.
Payload == [about |-> primary, whole |-> primary = NoPrimary]

\* ... and sends to each session that is still there.
Send(c) ==
    /\ pc = "send" /\ c \in rest
    /\ told' = [told EXCEPT ![c] = IF c \in clients THEN Payload ELSE @]
    /\ rest' = rest \ {c}
    /\ UNCHANGED <<pc, force, seen, last, primary, clients, meant, flagVars, state,
                   displayMutex, opVars, boundVars>>

PushEnds ==
    /\ pc = "send" /\ rest = {}
    /\ EndRound
    /\ UNCHANGED <<last, flagVars, state, clientVars, displayMutex, opVars, boundVars>>

InRound ==
    {"enumerate", "compare", "hasClients", "primary", "build", "snapshot", "send"}

CountThrow ==
    \/ pc = "build" /\ UNCHANGED throws
    \/ throws < MaxThrows /\ throws' = throws + 1

\* Variant: the exception is only logged.
CatchLogged ==
    /\ pc \in InRound
    /\ CountThrow
    /\ EndRound
    /\ UNCHANGED <<last, flagVars, state, clientVars, displayMutex, opVars,
                   changes, failures>>

\* Anything in the round throws: last = DisplayState{}.
Catch ==
    /\ pc \in InRound
    /\ CountThrow
    /\ last' = Nothing
    /\ EndRound
    /\ UNCHANGED <<flagVars, state, clientVars, displayMutex, opVars, changes, failures>>

\* wait_for returns, at once if m_wakeRequested, in 2 or 5 seconds otherwise.
WaitEnds ==
    /\ pc = "wait"
    /\ wakeRequested' = FALSE
    /\ pc' = "top"
    /\ UNCHANGED <<force, seen, last, primary, rest, forcePush, state, clientVars,
                   displayMutex, opVars, boundVars>>

-----------------------------------------------------------------------------
Goes == \/ \E r \in Requesters : RequestStore(r) \/ RequestWake(r)
        \/ \E ok \in BOOLEAN : OperationEnds(ok)

Server ==
    \/ \E c \in Clients : Accept(c) \/ Reap(c)
    \/ \E op \in {"switch", "mode", "scale"} : OperationBegins(op)
    \/ Goes

Monitor ==
    \/ Exchange \/ Enumerate \/ Compare \/ HasClients \/ GetCurrentPrimary
    \/ BuildPayload \/ Snapshot \/ (\E c \in Clients : Send(c)) \/ PushEnds \/ Catch \/ WaitEnds

Next == SomeoneChanges \/ Server \/ Monitor

Spec == Init /\ [][Next]_vars

\* The threads run: requests and operations go on, the monitor's rounds follow
\* each other.
FairSpec == Spec /\ WF_vars(Goes) /\ WF_vars(Monitor)

-----------------------------------------------------------------------------
\* Types; the mutex is held while an operation changes the displays.
TypeOK ==
    /\ state \in States
    /\ clients \subseteq Clients
    /\ told \in [Clients -> Packet \cup {Nothing}]
    /\ meant \in [Clients -> States \cup {Nothing}]
    /\ forcePush \in BOOLEAN /\ wakeRequested \in BOOLEAN /\ force \in BOOLEAN
    /\ at \in [Requesters -> {"idle", "store", "wake", "changing"}]
    /\ displayMutex = (at["server"] = "changing")
    /\ pc \in {"top", "wait"} \cup InRound
    /\ seen \in States \cup {Nothing} /\ last \in States \cup {Nothing}
    /\ primary \in States \cup {Nothing}
    /\ pc \in {"build", "snapshot", "send"} => primary \in States
    /\ pc = "compare" => seen \in States
    /\ rest \subseteq Clients

\* A request made while the monitor was busy does not sleep through the poll
\* interval, whichever of the two threads made it.
NoLostWakeup ==
    pc = "wait" /\ forcePush => wakeRequested \/ \E r \in Requesters : at[r] = "wake"

\* A push that will reach c is on its way: it has been asked for, or is going
\* on, or the next comparison cannot but find a difference.
PushDue(c) ==
    \/ at["server"] = "store" \/ forcePush
    \/ force /\ pc \in {"enumerate", "compare"}
    \/ last = Nothing
    \/ pc \in {"hasClients", "primary", "build", "snapshot"}
    \/ pc = "send" /\ c \in rest

\* No client is forgotten: it has been sent a packet since it connected, or a
\* push is due that will reach it.  The force flag is consumed before anything
\* else happens in the round, so this rests on the reset after an exception.
NobodyForgotten ==
    \A c \in clients : told[c] # Nothing \/ PushDue(c)

\* Of every change the monitor makes a push (DisplayModule.hpp:35), whoever makes
\* the change and whatever throws: the state that pushes to a client are made from
\* becomes the state that is, though every one of their payloads may throw.  Only
\* a push whose own enumeration fails says no_primary and is never made again.
\* What reaches the client is the subject of NewClientTold.
ChangesPushed ==
    \A c \in Clients :
       c \in clients ~> c \notin clients \/ meant[c] \in {state, NoPrimary}

\* A new client is told the state as it is ("客户端连接时立即推送一次当前状态",
\* DisplayModule.hpp:36).
NewClientTold ==
    \A c \in Clients :
       c \in clients ~> c \notin clients \/ told[c] = [about |-> state, whole |-> TRUE]
=============================================================================
