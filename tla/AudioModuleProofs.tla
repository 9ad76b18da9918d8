-------------------------- MODULE AudioModuleProofs --------------------------
(***************************************************************************)
(* The invariants of AudioModule, for any outputs, clients and bounds.     *)
(***************************************************************************)
EXTENDS AudioModule, TLAPS

\* From the end of one wait to the end of the next, a flag that is set has its
\* wake-up requested or on its way; only at the top of the loop, where the flag
\* is consumed at once, it may stand without one.
WakeupComes == pc # "top" /\ forcePush => wakeRequested \/ at = "wake"

\* TypeOK is kept by every step: the mutex is taken and released exactly at the
\* edges of the sections in which the code holds it.
THEOREM TypeCorrect == Spec => []TypeOK
<1>1. Init => TypeOK
  <2> SUFFICES ASSUME Init PROVE TypeOK
    OBVIOUS
  <2>1. role \in [Roles -> Devices \cup {Nothing}] /\ level \in [Devices -> Levels]
    BY DEF Init
  <2>2. 0 \in 0..MaxChanges /\ 0 \in 0..MaxFailures /\ 0 \in 0..MaxThrows
    BY ConstantsAssumption
  <2> QED BY <2>1, <2>2 DEF Init, TypeOK, Switching
<1>2. TypeOK /\ [Next]_vars => TypeOK'
  <2> SUFFICES ASSUME TypeOK, [Next]_vars PROVE TypeOK'
    OBVIOUS
  <2> USE ConstantsAssumption DEF TypeOK, Switching
  <2>1. CASE System
    <3>1. ASSUME NEW r \in Roles, NEW d \in Devices, SomeoneSetsRole(r, d) PROVE TypeOK'
      BY <3>1 DEF SomeoneSetsRole, CountChange, clientVars, flagVars, serverVars, monitorVars
    <3>2. ASSUME NEW d \in Devices, NEW l \in Levels, SomeoneSetsLevel(d, l) PROVE TypeOK'
      BY <3>2 DEF SomeoneSetsLevel, CountChange, clientVars, flagVars, serverVars, monitorVars
    <3>3. ASSUME NEW d \in Devices, Unplugged(d) PROVE TypeOK'
      BY <3>3 DEF Unplugged, CountChange, clientVars, flagVars, serverVars, monitorVars
    <3> QED BY <2>1, <3>1, <3>2, <3>3 DEF System
  <2>2. CASE ServerSteps
    <3>1. ASSUME NEW r \in {"eConsole", "eMultimedia"}, SetDefaultEndpoint(r) PROVE TypeOK'
      BY <3>1 DEF SetDefaultEndpoint, Roles, clientVars, flagVars, monitorVars, boundVars
    <3>2. CASE SwitchEnds
      BY <3>2 DEF SwitchEnds, EndOperation, systemVars, clientVars, flagVars, monitorVars, boundVars
    <3>3. CASE RequestStore \/ RequestWake
      BY <3>3 DEF RequestStore, RequestWake, systemVars, clientVars, monitorVars, boundVars
    <3> QED BY <2>2, <3>1, <3>2, <3>3 DEF ServerSteps
  <2>3. ASSUME NEW c \in Clients, Accept(c) \/ Reap(c) PROVE TypeOK'
    BY <2>3 DEF Accept, Reap, serverVars, systemVars, flagVars, monitorVars, boundVars
  <2>4. CASE Refuse
    BY <2>4 DEF Refuse, CountChange, systemVars, clientVars, flagVars, monitorVars
  <2>5. ASSUME NEW d \in Devices, NEW l \in Levels, SetLevel(d, l) PROVE TypeOK'
    BY <2>5 DEF SetLevel, CountChange, EndOperation, clientVars, flagVars, monitorVars
  <2>6. ASSUME NEW d \in Devices, SwitchBegins(d) PROVE TypeOK'
    BY <2>6 DEF SwitchBegins, CountChange, systemVars, clientVars, flagVars, monitorVars
  <2>7. CASE Monitor
    <3>1. CASE Exchange
      BY <3>1 DEF Exchange, systemVars, clientVars, serverVars, boundVars
    <3>2. CASE ReadDefaults
      BY <3>2 DEF ReadDefaults, CountFailure, flagVars, systemVars, clientVars, serverVars
    <3>3. CASE ReadDevices
      BY <3>3 DEF ReadDevices, CountFailure, flagVars, systemVars, clientVars, serverVars
    <3>4. CASE SkipEmpty
      BY <3>4 DEF SkipEmpty, EndRound, flagVars, systemVars, clientVars, serverVars, boundVars
    <3>5. CASE Compare
      BY <3>5 DEF Compare, EndRound, flagVars, systemVars, clientVars, serverVars, boundVars
    <3>6. CASE HasClients
      BY <3>6 DEF HasClients, EndRound, flagVars, systemVars, clientVars, serverVars, boundVars
    <3>7. CASE Snapshot
      BY <3>7 DEF Snapshot, flagVars, systemVars, clientVars, serverVars, boundVars
    <3>8. ASSUME NEW c \in Clients, Send(c) PROVE TypeOK'
      BY <3>8 DEF Send, flagVars, systemVars, serverVars, boundVars
    <3>9. CASE PushEnds
      BY <3>9 DEF PushEnds, EndRound, flagVars, systemVars, clientVars, serverVars, boundVars
    <3>10. CASE Catch
      <4> USE <3>10 DEF Catch
      <4>1. throws' \in 0..MaxThrows /\ UNCHANGED <<changes, failures>>
        OBVIOUS
      <4>2. pc' = "wait" /\ UNCHANGED <<at, device>>
        BY DEF EndRound, serverVars
      <4>3. audioMutex' \in {"free", "server"} /\ (audioMutex' = "server" <=> audioMutex = "server")
        OBVIOUS
      <4>4. /\ rest' \subseteq Clients /\ force' \in BOOLEAN
            /\ UNCHANGED <<active, role, level, clients, forcePush, wakeRequested>>
        BY DEF EndRound, systemVars, clientVars, flagVars
      <4> QED BY <4>1, <4>2, <4>3, <4>4
    <3>11. CASE WaitEnds
      BY <3>11 DEF WaitEnds, systemVars, clientVars, serverVars, boundVars
    <3> QED BY <2>7, <3>1, <3>2, <3>3, <3>4, <3>5, <3>6, <3>7, <3>8, <3>9, <3>10,
               <3>11 DEF Monitor
  <2>8. CASE UNCHANGED vars
    BY <2>8 DEF vars, systemVars, clientVars, flagVars, serverVars, monitorVars, boundVars
  <2> QED BY <2>1, <2>2, <2>3, <2>4, <2>5, <2>6, <2>7, <2>8 DEF Next, Server
<1> QED BY <1>1, <1>2, PTL DEF Spec

\* No switch is ever half made while the monitor reads the defaults: one mutex
\* cannot be held by both threads.
THEOREM HalfSwitchHidden == Spec => []NoHalfSwitchSeen
<1>1. TypeOK => NoHalfSwitchSeen
  BY DEF TypeOK, NoHalfSwitchSeen, Switching
<1> QED BY <1>1, TypeCorrect, PTL

\* No request for a push sleeps through the poll interval.
THEOREM WakeupKept == Spec => []NoLostWakeup
<1>1. Init => WakeupComes
  BY DEF Init, WakeupComes
<1>2. WakeupComes /\ [Next]_vars => WakeupComes'
  <2> SUFFICES ASSUME WakeupComes, [Next]_vars PROVE WakeupComes'
    OBVIOUS
  <2> USE DEF WakeupComes
  <2>1. CASE System
    BY <2>1 DEF System, SomeoneSetsRole, SomeoneSetsLevel, Unplugged, flagVars,
                serverVars, monitorVars
  <2>2. CASE ServerSteps
    BY <2>2 DEF ServerSteps, RequestStore, RequestWake, SetDefaultEndpoint, SwitchEnds,
                EndOperation, flagVars, monitorVars
  <2>3. ASSUME NEW c \in Clients, Accept(c) \/ Reap(c) PROVE WakeupComes'
    BY <2>3 DEF Accept, Reap, flagVars, serverVars, monitorVars
  <2>4. CASE Refuse
    BY <2>4 DEF Refuse, flagVars, monitorVars
  <2>5. ASSUME NEW d \in Devices, NEW l \in Levels, SetLevel(d, l) PROVE WakeupComes'
    BY <2>5 DEF SetLevel, EndOperation, flagVars, monitorVars
  <2>6. ASSUME NEW d \in Devices, SwitchBegins(d) PROVE WakeupComes'
    BY <2>6 DEF SwitchBegins, flagVars, monitorVars
  <2>7. CASE Exchange \/ WaitEnds
    BY <2>7 DEF Exchange, WaitEnds, serverVars
  <2>8. CASE ReadDefaults \/ ReadDevices
    <3>1. pc # "top" /\ UNCHANGED <<forcePush, wakeRequested, at>>
      BY <2>8 DEF ReadDefaults, ReadDevices, flagVars, serverVars
    <3> QED BY <3>1
  <2>12. CASE SkipEmpty \/ Compare \/ HasClients
    BY <2>12 DEF SkipEmpty, Compare, HasClients, EndRound, flagVars, serverVars
  <2>9. CASE Snapshot \/ PushEnds \/ Catch
    BY <2>9 DEF Snapshot, PushEnds, Catch, EndRound, flagVars, serverVars
  <2>10. ASSUME NEW c \in Clients, Send(c) PROVE WakeupComes'
    BY <2>10 DEF Send, flagVars, serverVars
  <2>11. CASE UNCHANGED vars
    BY <2>11 DEF vars, flagVars, serverVars, monitorVars
  <2> QED BY <2>1, <2>2, <2>3, <2>4, <2>5, <2>6, <2>7, <2>8, <2>9, <2>10, <2>11, <2>12
          DEF Next, Server, Monitor
<1>3. WakeupComes => NoLostWakeup
  BY DEF WakeupComes, NoLostWakeup
<1> QED BY <1>1, <1>2, <1>3, PTL DEF Spec
=============================================================================
