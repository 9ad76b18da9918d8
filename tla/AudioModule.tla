----------------------------- MODULE AudioModule -----------------------------
(***************************************************************************)
(* The audio module (src/modules/AudioModule.cpp): the server thread that  *)
(* accepts clients and runs the operations on the outputs, the monitor     *)
(* thread that enumerates the outputs and tells the clients, and the two   *)
(* flags between them.  The system's own settings are changed by others at *)
(* any time, and its calls fail.  Stopping is the subject of Lifecycle.    *)
(***************************************************************************)
EXTENDS Integers, FiniteSets

CONSTANTS
    Devices,        \* output endpoints
    Levels,         \* values of volume and mute together
    Clients,
    Nothing,        \* no default device; nothing told; no hash
    MaxChanges,     \* bound on operations and on changes made by others
    MaxFailures,    \* bound on queries of the enumeration that fail
    MaxThrows       \* bound on rounds of the monitor that throw

ASSUME ConstantsAssumption ==
    /\ Nothing \notin Devices
    /\ MaxChanges \in Nat /\ MaxFailures \in Nat /\ MaxThrows \in Nat

Roles == {"eConsole", "eMultimedia", "eCommunications"}

VARIABLES
    active,         \* the outputs in state DEVICE_STATE_ACTIVE
    role,           \* the default endpoint of each role
    level,          \* volume and mute of each output
    clients,        \* the server's list
    told,           \* the last AUDIO_STATE each client got
    forcePush,      \* m_forcePush
    wakeRequested,  \* m_wakeRequested
    audioMutex,     \* who holds m_audioMutex
    at,             \* where the server thread is
    device,         \* the device of its operation
    pc,             \* where the monitor is
    force,          \* its local of that name
    defaults,       \* the defaults its enumeration has read
    seen,           \* the list its enumeration returned
    last,           \* lastHash, or Nothing while hasLast is false
    rest,           \* the clients its broadcast has not reached yet
    changes, failures, throws

systemVars == <<active, role, level>>
clientVars == <<clients, told>>
flagVars == <<forcePush, wakeRequested>>
serverVars == <<at, device>>
monitorVars == <<pc, force, defaults, seen, last, rest>>
boundVars == <<changes, failures, throws>>
vars == <<systemVars, clientVars, flagVars, audioMutex, serverVars, monitorVars,
          boundVars>>

\* An enumeration that finds the outputs of S, with the given defaults.  The
\* hash of a list covers what the list holds here: 64-bit collisions are left
\* out, and so is the name, which the hash does not cover.
List(S, def) ==
    [d \in S |-> [level |-> level[d], isDefault |-> def.console = d,
                  isDefaultComm |-> def.comm = d]]

Defaults == [console |-> role["eConsole"], comm |-> role["eCommunications"]]

\* What the system is.
Current == List(active, Defaults)

Init ==
    /\ active = Devices
    /\ role \in {[r \in Roles |-> d] : d \in Devices}
    /\ level \in {[d \in Devices |-> l] : l \in Levels}
    /\ clients = {} /\ told = [c \in Clients |-> Nothing]
    /\ forcePush = FALSE /\ wakeRequested = FALSE
    /\ audioMutex = "free"
    /\ at = "loop" /\ device = Nothing
    /\ pc = "top" /\ force = FALSE /\ defaults = Nothing /\ seen = Nothing
    /\ last = Nothing /\ rest = {}
    /\ changes = 0 /\ failures = 0 /\ throws = 0

-----------------------------------------------------------------------------
(* The user and the drivers. *)

CountChange == changes < MaxChanges /\ changes' = changes + 1

SomeoneSetsRole(r, d) ==
    /\ d \in active /\ role[r] # d
    /\ CountChange
    /\ role' = [role EXCEPT ![r] = d]
    /\ UNCHANGED <<active, level, clientVars, flagVars, audioMutex, serverVars,
                   monitorVars, failures, throws>>

SomeoneSetsLevel(d, l) ==
    /\ level[d] # l
    /\ CountChange
    /\ level' = [level EXCEPT ![d] = l]
    /\ UNCHANGED <<active, role, clientVars, flagVars, audioMutex, serverVars,
                   monitorVars, failures, throws>>

\* The default moves to some output that is left.
Unplugged(d) ==
    /\ d \in active
    /\ CountChange
    /\ active' = active \ {d}
    /\ \E e \in (IF active' = {} THEN {Nothing} ELSE active') :
          role' = [r \in Roles |-> IF role[r] = d THEN e ELSE role[r]]
    /\ UNCHANGED <<level, clientVars, flagVars, audioMutex, serverVars,
                   monitorVars, failures, throws>>

-----------------------------------------------------------------------------
(* The server thread. *)

\* The client is put on the list, then OnClientConnected is called.
Accept(c) ==
    /\ at = "loop" /\ c \notin clients
    /\ clients' = clients \cup {c}
    /\ told' = [told EXCEPT ![c] = Nothing]
    /\ at' = "store"
    /\ UNCHANGED <<device, systemVars, flagVars, audioMutex, monitorVars, boundVars>>

Reap(c) ==
    /\ at = "loop" /\ c \in clients
    /\ clients' = clients \ {c}
    /\ told' = [told EXCEPT ![c] = Nothing]
    /\ UNCHANGED <<serverVars, systemVars, flagVars, audioMutex, monitorVars, boundVars>>

\* Variant: the flag without the wake-up.
RequestStoreOnly ==
    /\ at = "store"
    /\ forcePush' = TRUE
    /\ at' = "loop"
    /\ UNCHANGED <<wakeRequested, device, systemVars, clientVars, audioMutex,
                   monitorVars, boundVars>>

\* RequestPush: first m_forcePush ...
RequestStore ==
    /\ at = "store"
    /\ forcePush' = TRUE
    /\ at' = "wake"
    /\ UNCHANGED <<wakeRequested, device, systemVars, clientVars, audioMutex,
                   monitorVars, boundVars>>

\* ... then, under m_wakeMutex, m_wakeRequested.
RequestWake ==
    /\ at = "wake"
    /\ wakeRequested' = TRUE
    /\ at' = "loop"
    /\ UNCHANGED <<forcePush, device, systemVars, clientVars, audioMutex,
                   monitorVars, boundVars>>

\* Every write operation ends in the answer and a RequestPush, also one that
\* was refused or has failed.
EndOperation ==
    /\ audioMutex' = "free"
    /\ at' = "store"
    /\ device' = Nothing

\* A payload with a field missing or out of range.
Refuse ==
    /\ at = "loop"
    /\ CountChange
    /\ at' = "store"
    /\ UNCHANGED <<device, audioMutex, systemVars, clientVars, flagVars,
                   monitorVars, failures, throws>>

\* AUDIO_VOLUME_SET and AUDIO_MUTE_SET: one call, or none when a step fails.
SetLevel(d, l) ==
    /\ at = "loop" /\ audioMutex = "free"
    /\ CountChange
    /\ level' \in {level, [level EXCEPT ![d] = l]}
    /\ EndOperation
    /\ UNCHANGED <<active, role, clientVars, flagVars, monitorVars, failures, throws>>

\* AUDIO_DEFAULT_SET: the endpoint is found, and so is IPolicyConfig.
SwitchBegins(d) ==
    /\ at = "loop" /\ audioMutex = "free"
    /\ CountChange
    /\ at' = "eConsole" /\ device' = d /\ audioMutex' = "server"
    /\ UNCHANGED <<systemVars, clientVars, flagVars, monitorVars, failures, throws>>

\* SetDefaultEndpoint succeeds; whether it has done anything is another matter.
SetDefaultEndpoint(r) ==
    /\ at = r
    /\ role' \in {role} \cup
         {IF device \in active THEN [role EXCEPT ![r] = device] ELSE role}
    /\ at' = IF r = "eConsole" THEN "eMultimedia" ELSE "verify"
    /\ UNCHANGED <<active, level, device, audioMutex, clientVars, flagVars,
                   monitorVars, boundVars>>

\* A call fails, the first or the second, or the read-back has been done.
SwitchEnds ==
    /\ at \in {"eConsole", "eMultimedia", "verify"}
    /\ EndOperation
    /\ UNCHANGED <<systemVars, clientVars, flagVars, monitorVars, boundVars>>

-----------------------------------------------------------------------------
(* The monitor thread: one round of MonitorLoop. *)

Exchange ==
    /\ pc = "top"
    /\ force' = forcePush /\ forcePush' = FALSE
    /\ pc' = "defaults"
    /\ UNCHANGED <<defaults, seen, last, rest, wakeRequested, systemVars,
                   clientVars, audioMutex, serverVars, boundVars>>

\* Variant: the enumeration does not take the mutex.
ReadDefaultsUnlocked ==
    /\ pc = "defaults"
    /\ defaults' = Defaults
    /\ pc' = "devices"
    /\ UNCHANGED <<force, seen, last, rest, flagVars, systemVars, clientVars,
                   audioMutex, serverVars, boundVars>>

CountFailure(right) ==
    \/ right /\ UNCHANGED failures
    \/ ~right /\ failures < MaxFailures /\ failures' = failures + 1

\* EnumerateDevices takes m_audioMutex and asks for the two defaults first.  Where
\* the query fails no output is the default.
ReadDefaults ==
    /\ pc = "defaults" /\ audioMutex = "free"
    /\ audioMutex' = "monitor"
    /\ defaults' \in {Defaults, [Defaults EXCEPT !.console = Nothing],
                      [Defaults EXCEPT !.comm = Nothing]}
    /\ CountFailure(defaults' = Defaults)
    /\ pc' = "devices"
    /\ UNCHANGED <<force, seen, last, rest, flagVars, systemVars, clientVars,
                   serverVars, changes, throws>>

\* Then the active outputs.  A failing call loses one of them, or all, or leaves
\* the volume or the mute of one at what a DeviceInfo starts with: another level.
ReadDevices ==
    /\ pc = "devices"
    /\ LET whole == List(active, defaults)
       IN  /\ seen' \in {List(S, defaults) : S \in SUBSET active} \cup
                  {[whole EXCEPT ![d].level = l] : d \in active, l \in Levels}
           /\ CountFailure(seen' = whole)
    /\ audioMutex' = "free" /\ defaults' = Nothing
    /\ pc' = "compare"
    /\ UNCHANGED <<force, last, rest, flagVars, systemVars, clientVars,
                   serverVars, changes, throws>>

SeenNone == DOMAIN seen = {}

\* The round's locals die with it.
EndRound ==
    /\ pc' = "wait"
    /\ force' = FALSE /\ defaults' = Nothing /\ seen' = Nothing /\ rest' = {}

\* An empty list is taken for a failure of the enumerator and not pushed.
SkipEmpty ==
    /\ pc = "compare" /\ SeenNone
    /\ EndRound
    /\ UNCHANGED <<last, flagVars, systemVars,
                   clientVars, audioMutex, serverVars, boundVars>>

Compare ==
    /\ pc = "compare" /\ ~SeenNone
    /\ last' = seen
    /\ IF force \/ last = Nothing \/ last # seen
       THEN pc' = "hasClients" /\ UNCHANGED <<force, defaults, seen, rest>>
       ELSE EndRound
    /\ UNCHANGED << flagVars, systemVars, clientVars,
                   audioMutex, serverVars, boundVars>>

HasClients ==
    /\ pc = "hasClients"
    /\ IF clients = {} THEN EndRound
       ELSE pc' = "snapshot" /\ UNCHANGED <<force, defaults, seen, rest>>
    /\ UNCHANGED <<last, flagVars, systemVars,
                   clientVars, audioMutex, serverVars, boundVars>>

\* PushState: BroadcastCommand copies the list under its mutex ...
Snapshot ==
    /\ pc = "snapshot"
    /\ rest' = clients
    /\ pc' = "send"
    /\ UNCHANGED <<force, defaults, seen, last, flagVars, systemVars, clientVars,
                   audioMutex, serverVars, boundVars>>

\* ... and sends to each session that is still there.
Send(c) ==
    /\ pc = "send" /\ c \in rest
    /\ told' = [told EXCEPT ![c] = IF c \in clients THEN seen ELSE @]
    /\ rest' = rest \ {c}
    /\ UNCHANGED <<pc, force, defaults, seen, last, clients, flagVars, systemVars,
                   audioMutex, serverVars, boundVars>>

PushEnds ==
    /\ pc = "send" /\ rest = {}
    /\ EndRound
    /\ UNCHANGED <<last, flagVars, systemVars,
                   clientVars, audioMutex, serverVars, boundVars>>

\* Variant: the exception is only logged.
CatchLogged ==
    /\ pc \in {"defaults", "devices", "compare", "hasClients", "snapshot", "send"}
    /\ throws < MaxThrows /\ throws' = throws + 1
    /\ EndRound
    /\ audioMutex' = IF audioMutex = "monitor" THEN "free" ELSE audioMutex
    /\ UNCHANGED <<last, flagVars, systemVars, clientVars, serverVars,
                   changes, failures>>

\* Anything in the round throws: the locks are released, hasLast is cleared.
Catch ==
    /\ pc \in {"defaults", "devices", "compare", "hasClients", "snapshot", "send"}
    /\ throws < MaxThrows /\ throws' = throws + 1
    /\ last' = Nothing
    /\ EndRound
    /\ audioMutex' = IF audioMutex = "monitor" THEN "free" ELSE audioMutex
    /\ UNCHANGED <<flagVars, systemVars, clientVars, serverVars,
                   changes, failures>>

\* wait_for returns, at once if m_wakeRequested, in 2 or 5 seconds otherwise.
WaitEnds ==
    /\ pc = "wait"
    /\ wakeRequested' = FALSE
    /\ pc' = "top"
    /\ UNCHANGED <<force, defaults, seen, last, rest, forcePush, systemVars,
                   clientVars, audioMutex, serverVars, boundVars>>

-----------------------------------------------------------------------------
System ==
    \/ \E r \in Roles, d \in Devices : SomeoneSetsRole(r, d)
    \/ \E d \in Devices, l \in Levels : SomeoneSetsLevel(d, l)
    \/ \E d \in Devices : Unplugged(d)

ServerSteps ==
    \/ RequestStore \/ RequestWake
    \/ \E r \in {"eConsole", "eMultimedia"} : SetDefaultEndpoint(r)
    \/ SwitchEnds

Server ==
    \/ \E c \in Clients : Accept(c) \/ Reap(c)
    \/ Refuse
    \/ \E d \in Devices, l \in Levels : SetLevel(d, l)
    \/ \E d \in Devices : SwitchBegins(d)
    \/ ServerSteps

Monitor ==
    \/ Exchange \/ ReadDefaults \/ ReadDevices \/ SkipEmpty \/ Compare
    \/ HasClients \/ Snapshot \/ (\E c \in Clients : Send(c)) \/ PushEnds
    \/ Catch \/ WaitEnds

Next == System \/ Server \/ Monitor

Spec == Init /\ [][Next]_vars

\* The threads run: an operation that has begun goes on and the monitor's
\* rounds follow each other.  Strong fairness of ReadDefaults: the mutex is
\* free again and again, and a thread that waits for it gets it in the end.
Fairness == WF_vars(ServerSteps) /\ WF_vars(Monitor) /\ SF_vars(ReadDefaults)

FairSpec == Spec /\ Fairness

-----------------------------------------------------------------------------
Switching == {"eConsole", "eMultimedia", "verify"}

\* Types, and m_audioMutex held exactly where the code holds it.
TypeOK ==
    /\ active \subseteq Devices
    /\ role \in [Roles -> Devices \cup {Nothing}]
    /\ level \in [Devices -> Levels]
    /\ clients \subseteq Clients
    /\ forcePush \in BOOLEAN /\ wakeRequested \in BOOLEAN /\ force \in BOOLEAN
    /\ audioMutex \in {"free", "server", "monitor"}
    /\ at \in {"loop", "store", "wake"} \cup Switching
    /\ device \in Devices \cup {Nothing}
    /\ pc \in {"top", "defaults", "devices", "compare", "hasClients", "snapshot",
               "send", "wait"}
    /\ rest \subseteq Clients
    /\ audioMutex = "server" <=> at \in Switching
    /\ audioMutex = "monitor" <=> pc = "devices"
    /\ changes \in 0..MaxChanges /\ failures \in 0..MaxFailures /\ throws \in 0..MaxThrows

\* A request made while the monitor was busy does not sleep through the poll
\* interval: when the monitor waits with m_forcePush set, it is about to be
\* woken.  The two flags are set and cleared in two steps each, under
\* different protection (RequestPush; the exchange at the top of the loop and
\* the reset after the wait).
NoLostWakeup ==
    pc = "wait" /\ forcePush => wakeRequested \/ at = "wake"

\* The monitor never reads the defaults while a switch has moved one role and
\* not yet the other ("避免一边切设备一边枚举出半成品列表", the comment on
\* m_audioMutex).
NoHalfSwitchSeen ==
    pc = "devices" => at \notin Switching

\* A client that stays is in the end told what the system has become, whatever
\* fails in between: rounds that throw before, between or after the sends,
\* partial enumerations, switches of which only one role succeeded.  Excepted
\* are only a client that has been told nothing yet when a query of an enumeration
\* fails, which may find nothing and consumes the force flag, and a system without
\* any output, which the module does not report.
Informed(c) == told[c] = Current \/ active = {}
Overlooked(c) == failures > 0 /\ told[c] = Nothing
ClientsLearn ==
    \A c \in Clients :
       c \in clients ~> c \notin clients \/ Informed(c) \/ Overlooked(c)

=============================================================================
