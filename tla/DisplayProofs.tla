----------------------------- MODULE DisplayProofs -----------------------------
(***************************************************************************)
(* The display module, for any clients, displays, sources, target ids,     *)
(* values and bounds: the invariants of its monitor (DisplayMonitor), and  *)
(* what its operations promise (DisplaySwitch).                            *)
(***************************************************************************)
EXTENDS DisplayMonitor, DisplaySwitch, TLAPS

\* From the end of one wait to the end of the next, a flag that is set has its
\* wake-up requested or on its way.
WakeupComes ==
    pc # "top" /\ forcePush => wakeRequested \/ \E r \in Requesters : at[r] = "wake"

\* TypeOK is kept by every step, and with it the mutex stays with the thread
\* that is changing the displays.
THEOREM TypeCorrect == Spec => []TypeOK
<1>1. Init => TypeOK
  BY ConstantsAssumption DEF Init, TypeOK, InRound, Requesters
<1>2. TypeOK /\ [Next]_vars => TypeOK'
  <2> SUFFICES ASSUME TypeOK, [Next]_vars PROVE TypeOK'
    OBVIOUS
  <2> USE ConstantsAssumption DEF TypeOK, InRound, Requesters
  <2>1. CASE SomeoneChanges
    BY <2>1 DEF SomeoneChanges, clientVars, flagVars, monitorVars
  <2>2. ASSUME NEW c \in Clients, Accept(c) \/ Reap(c) PROVE TypeOK'
    BY <2>2 DEF Accept, Reap, flagVars, opVars, monitorVars
  <2>3. ASSUME NEW kind \in {"switch", "mode", "scale"}, OperationBegins(kind) PROVE TypeOK'
    BY <2>3 DEF OperationBegins, clientVars, flagVars, monitorVars
  <2>4. ASSUME NEW ok \in BOOLEAN, OperationEnds(ok) PROVE TypeOK'
    <3>1. state' \in States /\ displayMutex' = FALSE
      BY <2>4 DEF OperationEnds
    <3>2. at' \in [Requesters -> {"idle", "store", "wake", "changing"}] /\ at'["server"] # "changing"
      BY <2>4 DEF OperationEnds
    <3> QED BY <2>4, <3>1, <3>2 DEF OperationEnds, clientVars, flagVars, monitorVars
  <2>5. ASSUME NEW r \in Requesters, RequestStore(r) \/ RequestWake(r) PROVE TypeOK'
    BY <2>5 DEF RequestStore, RequestWake, clientVars, monitorVars
  <2>6. CASE Exchange
    BY <2>6 DEF Exchange, clientVars, opVars
  <2>7. CASE Enumerate
    BY <2>7 DEF Enumerate, Enumerated, flagVars, clientVars, opVars
  <2>8. CASE Compare
    BY <2>8 DEF Compare, EndRound, flagVars, clientVars, opVars
  <2>9. CASE HasClients
    BY <2>9 DEF HasClients, EndRound, flagVars, clientVars, opVars
  <2>10. CASE GetCurrentPrimary
    BY <2>10 DEF GetCurrentPrimary, Enumerated, flagVars, clientVars, opVars
  <2>11. CASE BuildPayload \/ Snapshot
    BY <2>11 DEF BuildPayload, Snapshot, flagVars, clientVars, opVars
  <2>12. ASSUME NEW c \in Clients, Send(c) PROVE TypeOK'
    <3>1. told' \in [Clients -> Packet \cup {Nothing}]
      <4>1. Payload \in Packet
        BY <2>12 DEF Send, Payload, Packet
      <4> QED BY <4>1, <2>12 DEF Send
    <3> QED BY <2>12, <3>1 DEF Send, flagVars, opVars
  <2>13. CASE PushEnds
    BY <2>13 DEF PushEnds, EndRound, flagVars, clientVars, opVars
  <2>14. CASE Catch
    BY <2>14 DEF Catch, CountThrow, EndRound, flagVars, clientVars, opVars
  <2>15. CASE WaitEnds
    BY <2>15 DEF WaitEnds, clientVars, opVars
  <2>16. CASE UNCHANGED vars
    BY <2>16 DEF vars, clientVars, flagVars, opVars, monitorVars
  <2> QED BY <2>1, <2>2, <2>3, <2>4, <2>5, <2>6, <2>7, <2>8, <2>9, <2>10, <2>11,
             <2>12, <2>13, <2>14, <2>15, <2>16 DEF Next, Server, Goes, Monitor
<1> QED BY <1>1, <1>2, PTL DEF Spec

\* No request for a push sleeps through the poll interval.
THEOREM WakeupKept == Spec => []NoLostWakeup
<1>1. Init => WakeupComes
  BY DEF Init, WakeupComes
<1>2. TypeOK /\ WakeupComes /\ [Next]_vars => WakeupComes'
  <2> SUFFICES ASSUME TypeOK, WakeupComes, [Next]_vars PROVE WakeupComes'
    OBVIOUS
  <2> USE DEF WakeupComes, Requesters
  <2>0. at \in [Requesters -> {"idle", "store", "wake", "changing"}]
    BY DEF TypeOK
  <2>1. CASE SomeoneChanges
    BY <2>0, <2>1 DEF SomeoneChanges, flagVars, monitorVars
  <2>2. ASSUME NEW c \in Clients, Accept(c) \/ Reap(c) PROVE WakeupComes'
    BY <2>0, <2>2 DEF Accept, Reap, flagVars, opVars, monitorVars
  <2>3. ASSUME NEW kind \in {"switch", "mode", "scale"}, OperationBegins(kind) PROVE WakeupComes'
    BY <2>0, <2>3 DEF OperationBegins, flagVars, monitorVars
  <2>4. ASSUME NEW ok \in BOOLEAN, OperationEnds(ok) PROVE WakeupComes'
    BY <2>0, <2>4 DEF OperationEnds, flagVars, monitorVars
  <2>5. ASSUME NEW r \in Requesters, RequestStore(r) \/ RequestWake(r) PROVE WakeupComes'
    BY <2>0, <2>5 DEF RequestStore, RequestWake, monitorVars
  <2>6. CASE Exchange \/ WaitEnds
    BY <2>6 DEF Exchange, WaitEnds, opVars
  <2>7. CASE Enumerate \/ Compare \/ HasClients \/ GetCurrentPrimary
    BY <2>7 DEF Enumerate, Compare, HasClients, GetCurrentPrimary, EndRound, flagVars, opVars
  <2>8. CASE BuildPayload \/ Snapshot \/ PushEnds \/ Catch
    BY <2>8 DEF BuildPayload, Snapshot, PushEnds, Catch, EndRound, InRound, flagVars, opVars
  <2>9. ASSUME NEW c \in Clients, Send(c) PROVE WakeupComes'
    BY <2>9 DEF Send, flagVars, opVars
  <2>10. CASE UNCHANGED vars
    BY <2>10 DEF vars, flagVars, opVars, monitorVars
  <2> QED BY <2>1, <2>2, <2>3, <2>4, <2>5, <2>6, <2>7, <2>8, <2>9, <2>10
          DEF Next, Server, Goes, Monitor
<1>3. WakeupComes => NoLostWakeup
  BY DEF WakeupComes, NoLostWakeup
<1> QED BY <1>1, <1>2, <1>3, TypeCorrect, PTL DEF Spec

\* No client is forgotten: by induction, since PushDue passes from the request
\* to the flag, from the flag to the round, from the round to the broadcast's
\* list, and an exception anywhere leaves last = Nothing behind.
THEOREM ClientsRemembered == Spec => []NobodyForgotten
<1>1. Init => NobodyForgotten
  BY DEF Init, NobodyForgotten
<1>2. TypeOK /\ TypeOK' /\ NobodyForgotten /\ [Next]_vars => NobodyForgotten'
  <2> SUFFICES ASSUME TypeOK, TypeOK', NobodyForgotten, [Next]_vars,
                      NEW k \in clients', told'[k] = Nothing
               PROVE PushDue(k)'
    BY DEF NobodyForgotten
  <2>0. /\ at \in [Requesters -> {"idle", "store", "wake", "changing"}]
        /\ told \in [Clients -> Packet \cup {Nothing}] /\ k \in Clients
        /\ "server" \in Requesters /\ "ui" \in Requesters
    BY DEF TypeOK, Requesters
  <2>a. k \in clients /\ told[k] = Nothing => PushDue(k)
    BY DEF NobodyForgotten
  <2> USE DEF PushDue
  <2>1. CASE SomeoneChanges
    BY <2>0, <2>a, <2>1 DEF SomeoneChanges, clientVars, flagVars, monitorVars
  <2>2. ASSUME NEW c \in Clients, Accept(c) PROVE PushDue(k)'
    BY <2>0, <2>2 DEF Accept
  <2>3. ASSUME NEW c \in Clients, Reap(c) PROVE PushDue(k)'
    BY <2>0, <2>a, <2>3 DEF Reap, flagVars, opVars, monitorVars
  <2>4. ASSUME NEW kind \in {"switch", "mode", "scale"}, OperationBegins(kind) PROVE PushDue(k)'
    BY <2>0, <2>a, <2>4 DEF OperationBegins, clientVars, flagVars, monitorVars
  <2>5. ASSUME NEW ok \in BOOLEAN, OperationEnds(ok) PROVE PushDue(k)'
    BY <2>0, <2>a, <2>5 DEF OperationEnds, clientVars, flagVars, monitorVars
  <2>6. ASSUME NEW r \in Requesters, RequestStore(r) \/ RequestWake(r) PROVE PushDue(k)'
    BY <2>0, <2>a, <2>6 DEF RequestStore, RequestWake, clientVars, monitorVars
  <2>7. CASE Exchange
    BY <2>a, <2>7 DEF Exchange, clientVars, opVars
  <2>8. CASE Enumerate
    BY <2>a, <2>8 DEF Enumerate, flagVars, clientVars, opVars
  <2>9. CASE Compare
    <3>1. k \in clients /\ told[k] = Nothing /\ UNCHANGED <<at, forcePush>>
      BY <2>9 DEF Compare, clientVars, opVars, flagVars
    <3>2. seen # Nothing
      BY <2>9, ConstantsAssumption DEF Compare, TypeOK
    <3> QED BY <2>a, <2>9, <3>1, <3>2 DEF Compare
  <2>10. CASE HasClients
    <3>1. k \in clients /\ told[k] = Nothing /\ clients # {}
      BY <2>10 DEF HasClients, clientVars
    <3> QED BY <2>10, <3>1 DEF HasClients
  <2>11. CASE GetCurrentPrimary
    BY <2>11 DEF GetCurrentPrimary
  <2>12. CASE BuildPayload \/ Snapshot
    BY <2>12 DEF BuildPayload, Snapshot, clientVars
  <2>13. ASSUME NEW c \in Clients, Send(c) PROVE PushDue(k)'
    <3>1. told'[c] # Nothing \/ c \notin clients
      <4>1. primary \in States
        BY <2>13 DEF Send, TypeOK
      <4>2. Payload \in Packet
        BY <4>1 DEF Payload, Packet
      <4>3. Payload # Nothing
        BY <4>2, NothingAssumption
      <4> QED BY <2>0, <2>13, <4>3 DEF Send
    <3>2. k # c /\ told[k] = Nothing /\ k \in clients
      BY <2>0, <2>13, <3>1 DEF Send
    <3> QED BY <2>a, <2>13, <3>2 DEF Send, flagVars, opVars
  <2>14. CASE PushEnds
    BY <2>a, <2>14 DEF PushEnds, EndRound, flagVars, clientVars, opVars
  <2>15. CASE Catch
    BY <2>15 DEF Catch
  <2>16. CASE WaitEnds
    BY <2>a, <2>16 DEF WaitEnds, clientVars, opVars
  <2>17. CASE UNCHANGED vars
    BY <2>a, <2>17 DEF vars, clientVars, flagVars, opVars, monitorVars
  <2> QED BY <2>1, <2>2, <2>3, <2>4, <2>5, <2>6, <2>7, <2>8, <2>9, <2>10, <2>11,
             <2>12, <2>13, <2>14, <2>15, <2>16, <2>17 DEF Next, Server, Goes, Monitor
<1> QED BY <1>1, <1>2, TypeCorrect, PTL DEF Spec
-----------------------------------------------------------------------------
(* The operations. *)

Operations == [kind : {"switch", "mode", "scale"}, d : Displays, v : Values \cup {None}]
StagedCalls == [primary : Sources \cup {None}, off : SUBSET Sources,
                mode : [Sources -> Values \cup {None}]]

\* Where a switch can be once it has captured the settings; where it restores
\* them.
Restoring == {"restoreMode", "restoreScale"}
Switching == {"activate", "verify1", "topology", "verify2", "stage", "disable", "verify3"}
                 \cup Restoring

SwitchTypes ==
    /\ active \subseteq Displays /\ primarySource \in Sources
    /\ setting \in [Displays -> Setting]
    /\ staged \in StagedCalls
    /\ saved \in [Displays -> [Kinds -> Values \cup {None}]]
    /\ was \in [Displays -> Setting \cup {None}]
    /\ listed \subseteq Displays
    /\ clean \in BOOLEAN /\ lost \subseteq Displays /\ restored \in BOOLEAN
    /\ phase \in {"idle", "switch", "mode", "scale", "apply"} \cup Switching
    /\ phase # "idle" => op \in Operations /\ answer = None
    /\ answer # None => answer.op \in Operations

\* Which operation is where.
KindsOfPhase ==
    /\ phase \in {"switch"} \cup Switching => op.kind = "switch"
    /\ phase = "mode" => op.kind = "mode" /\ op.v \in Values
    /\ phase = "scale" => op.kind = "scale" /\ op.v \in Values
    /\ phase = "apply" =>
           /\ op.kind \in {"switch", "mode"} /\ ModeWanted \in Values
           /\ op.d \in active

\* Nothing has been touched where an operation can still be refused.
UntouchedYet ==
    phase \in {"switch", "mode", "scale"} => before = Now

\* Unless an operation has found something staged, only the third method and the
\* mode have something staged, between their two calls.
StagedByUs ==
    clean =>
       /\ phase \in {"switch", "mode", "scale", "restoreMode"}
                    \cup (Switching \ {"disable", "restoreScale"}) => staged = NothingStaged
       /\ phase = "apply" => staged = [NothingStaged EXCEPT !.mode[Gdi[op.d]] = ModeWanted]

\* Where the saved settings are restored the target has been verified.
Verified ==
    clean /\ (phase \in Restoring \/ (phase = "apply" /\ op.kind = "switch")) => TargetActive(op.d)

\* What is saved of a display that is off is what it had when the module began to
\* switch it off; from the capture to the end of a switch this is so of every
\* display.
SavedIsPast ==
    clean =>
       \A e \in Displays : was[e] # None =>
          /\ phase = "switch" /\ e \in active => was[e] = setting[e]
          /\ \/ e \notin active \/ phase \in Switching
             \/ phase = "apply" /\ op.kind = "switch"
             => e \in lost \/ saved[e] = was[e]

\* Between the two halves of a restoration the first is done.
HalfRestored ==
    (phase = "restoreScale" /\ restored /\ clean /\ op.d \notin lost /\ was[op.d] # None)
        => setting[op.d]["mode"] = was[op.d]["mode"]

SwitchInv ==
    /\ SwitchTypes /\ KindsOfPhase /\ UntouchedYet /\ StagedByUs /\ Verified
    /\ SavedIsPast /\ HalfRestored
    /\ OkIsActive /\ RefusedUntouched /\ ComesBack /\ ModeTakesEffect

LEMMA SwitchBasics ==
  /\ None \notin Displays /\ None \notin Values /\ None \notin Sources
  /\ \A d \in Displays : Gdi[d] \in Sources
  /\ NoScale \in Values /\ Defaults \subseteq Setting
  /\ NothingStaged \in StagedCalls
  /\ NoneSaved \in [Kinds -> Values \cup {None}]
  /\ \A s \in Setting : /\ s["mode"] \in Values /\ s["scale"] \in Values
                        /\ s \in [Kinds -> Values \cup {None}]
<1>1. /\ None \notin Displays /\ None \notin Values /\ None \notin Sources /\ NoScale \in Values
      /\ Defaults \subseteq Setting
  BY DisplaysAssumption
<1>2. \A d \in Displays : Gdi[d] \in Sources
  BY DEF Sources
<1>3. NothingStaged \in StagedCalls
  BY DEF NothingStaged, StagedCalls
<1>4. NoneSaved \in [Kinds -> Values \cup {None}]
  BY DEF NoneSaved
<1>5. \A s \in Setting : /\ s["mode"] \in Values /\ s["scale"] \in Values
                         /\ s \in [Kinds -> Values \cup {None}]
  BY DEF Setting, Kinds
<1> QED BY <1>1, <1>2, <1>3, <1>4, <1>5

\* What an enumeration says of a display, whether a query has failed or not.
LEMMA Sightings ==
  ASSUME SwitchTypes, NEW sight \in {Sight} \cup Blurred, NEW e \in Displays
  PROVE  /\ sight[e].set \in [Kinds -> Values \cup {None}]
         /\ sight[e].set = Sight[e].set =>
                /\ sight[e].on <=> e \in active
                /\ e \in active => sight[e].set = setting[e]
<1> DEFINE Seen(x) == /\ x.set \in [Kinds -> Values \cup {None}]
                      /\ x.set = Sight[e].set =>
                             /\ x.on <=> e \in active
                             /\ e \in active => x.set = setting[e]
           Settings == [Kinds -> Values \cup {None}]
<1>1. setting[e] \in Setting /\ setting[e] \in Settings
  BY SwitchBasics DEF SwitchTypes
<1>2. NoneSaved \in Settings /\ NoneSaved # setting[e]
  BY <1>1, SwitchBasics DEF NoneSaved, Kinds
<1>3. /\ Unlisted = [on |-> FALSE, primary |-> FALSE, set |-> NoneSaved]
      /\ Sight[e] = IF e \in active
                    THEN [on |-> TRUE, primary |-> Gdi[e] = primarySource, set |-> setting[e]]
                    ELSE Unlisted
      /\ Sight = [x \in Displays |-> Sight[x]]
  BY DEF Unlisted, Sight
<1>4. Seen(Unlisted) /\ Seen(Sight[e])
  BY <1>1, <1>2, <1>3
<1>5. ASSUME NEW a \in active, NEW m \in Values \cup {None},
             sight = FromRegistry(a, m)
      PROVE  Seen(sight[e])
  <2>1. CASE e = a
    <3>1. Sight[e] = [on |-> TRUE, primary |-> Gdi[e] = primarySource, set |-> setting[e]]
      BY <1>3, <2>1
    <3>2. sight[e] = [Sight[e] EXCEPT !.primary = FALSE, !.set["mode"] = m]
      BY <1>3, <1>5, <2>1 DEF FromRegistry
    <3>3. sight[e].on = TRUE /\ sight[e].set = [setting[e] EXCEPT !["mode"] = m]
      BY <3>1, <3>2
    <3>4. [setting[e] EXCEPT !["mode"] = m] \in Settings
      BY <1>1
    <3>5. Sight[e].set = setting[e]
      BY <3>1
    <3> QED BY <2>1, <3>3, <3>4, <3>5
  <2>2. CASE e # a
    BY <1>3, <1>4, <1>5, <2>2 DEF FromRegistry
  <2> QED BY <2>1, <2>2
<1>6. ASSUME NEW a \in active, sight = [Sight EXCEPT ![a].set["scale"] = NoScale]
      PROVE  Seen(sight[e])
  <2>1. CASE e = a
    <3>1. Sight[e] = [on |-> TRUE, primary |-> Gdi[e] = primarySource, set |-> setting[e]]
      BY <1>3, <2>1
    <3>2. sight[e] = [Sight[e] EXCEPT !.set["scale"] = NoScale]
      BY <1>3, <1>6, <2>1
    <3>3. sight[e].on = TRUE /\ sight[e].set = [setting[e] EXCEPT !["scale"] = NoScale]
      BY <3>1, <3>2
    <3>4. [setting[e] EXCEPT !["scale"] = NoScale] \in Settings
      BY <1>1, SwitchBasics
    <3>5. Sight[e].set = setting[e]
      BY <3>1
    <3> QED BY <2>1, <3>3, <3>4, <3>5
  <2>2. CASE e # a
    BY <1>3, <1>4, <1>6, <2>2
  <2> QED BY <2>1, <2>2
<1>7. ASSUME NEW a, sight = [Sight EXCEPT ![a] = Unlisted] PROVE Seen(sight[e])
  BY <1>3, <1>4, <1>7
<1>8. ASSUME sight = [x \in Displays |-> Unlisted] PROVE Seen(sight[e])
  BY <1>4, <1>8
<1>9. ASSUME sight = Sight PROVE Seen(sight[e])
  BY <1>4, <1>9
<1>10. ASSUME NEW a \in active, NEW f \in Displays \ active, NEW s \in Settings,
              s["scale"] # None,
              sight = [Sight EXCEPT ![a] = Unlisted,
                          ![f] = [on |-> TRUE, primary |-> Gdi[f] = primarySource, set |-> s]]
       PROVE  Seen(sight[e])
  <2>1. CASE e = f
    <3>1. sight[e].set = s /\ Sight[e].set = NoneSaved
      BY <1>3, <1>10, <2>1
    <3>2. s # NoneSaved
      BY <1>10 DEF NoneSaved, Kinds
    <3> QED BY <1>10, <3>1, <3>2
  <2>2. CASE e # f
    <3>1. sight[e] = IF e = a THEN Unlisted ELSE Sight[e]
      BY <1>3, <1>10, <2>2
    <3> QED BY <1>4, <3>1
  <2> QED BY <2>1, <2>2
<1>11. ASSUME NEW pair \in Mistakable, NEW s \in Guesses, sight = Mistaken(pair, s)
       PROVE  Seen(sight[e])
  <2>1. pair[1] \in active /\ pair[2] \in Displays \ active
    BY <1>11 DEF Mistakable
  <2>2. s \in Settings /\ s["scale"] # None
    BY <1>11 DEF Guesses
  <2> QED BY <1>10, <1>11, <2>1, <2>2 DEF Mistaken
<1>12. Seen(sight[e])
  <2> HIDE DEF Seen
  <2>1. CASE sight \in {[x \in Displays |-> Unlisted]}
    BY <1>8, <2>1
  <2>2. CASE sight \in {[Sight EXCEPT ![a] = Unlisted] : a \in active \ {op.d}}
    BY <1>7, <2>2
  <2>3. CASE sight \in {Mistaken(pair, s) : pair \in {q \in Mistakable : q[1] # op.d}, s \in Guesses}
    BY <1>11, <2>3
  <2>4. CASE sight \in {FromRegistry(a, m) : a \in active, m \in Values \cup {None}}
    BY <1>5, <2>4
  <2>5. CASE sight \in {[Sight EXCEPT ![a].set["scale"] = NoScale] : a \in active}
    BY <1>6, <2>5
  <2> QED BY <1>9, <2>1, <2>2, <2>3, <2>4, <2>5 DEF Blurred
<1> QED BY <1>12

\* What SetDisplayConfig leaves of the displays.
LEMMA BecameActive ==
  ASSUME SwitchTypes, NEW lit \in Displays, BecomeActive(lit)
  PROVE  /\ active' = {lit} /\ primarySource' \in Sources
         /\ setting' \in [Displays -> Setting]
         /\ staged' = NothingStaged
  BY SwitchBasics DEF SwitchTypes, BecomeActive

\* What the call that applies the registry leaves of them.
LEMMA AppliedTypes ==
  ASSUME SwitchTypes, ApplyStaged
  PROVE  /\ active' \subseteq Displays /\ primarySource' \in Sources
         /\ setting' \in [Displays -> Setting]
         /\ staged' = NothingStaged
<1>1. PICK S \in AfterStaged, s \in Defaults :
        /\ active' = S
        /\ primarySource' = IF staged.primary = None THEN primarySource ELSE staged.primary
        /\ setting' = [d \in Displays |->
              LET now == IF d \in active' \ active THEN s ELSE setting[d]
              IN  IF d \in active' /\ staged.mode[Gdi[d]] # None
                  THEN [now EXCEPT !["mode"] = staged.mode[Gdi[d]]] ELSE now]
        /\ staged' = NothingStaged
  BY DEF ApplyStaged
<1>2. S \subseteq Displays
  BY DEF AfterStaged, SwitchTypes
<1>3. primarySource' \in Sources
  BY <1>1 DEF SwitchTypes, StagedCalls
<1>4. ASSUME NEW d \in Displays PROVE setting'[d] \in Setting
  <2> DEFINE now == IF d \in active' \ active THEN s ELSE setting[d]
             m == staged.mode[Gdi[d]]
  <2>1. now \in Setting
    BY SwitchBasics DEF SwitchTypes
  <2>2. m \in Values \cup {None}
    BY SwitchBasics DEF SwitchTypes, StagedCalls
  <2>3. setting'[d] = IF d \in active' /\ m # None THEN [now EXCEPT !["mode"] = m] ELSE now
    BY <1>1
  <2> HIDE DEF now, m
  <2>4. m # None => [now EXCEPT !["mode"] = m] \in Setting
    BY <2>1, <2>2 DEF Setting, Kinds
  <2> QED BY <2>1, <2>3, <2>4
<1>5. setting' = [d \in Displays |-> setting'[d]]
  BY <1>1
<1>6. setting' \in [Displays -> Setting]
  BY <1>4, <1>5
<1> QED BY <1>1, <1>2, <1>3, <1>6

\* When a mode alone is staged: the displays stay, and the one asked for gets it.
LEMMA ModeAlone ==
  ASSUME SwitchTypes, ApplyStaged, NEW d \in active, NEW m \in Values,
         staged = [NothingStaged EXCEPT !.mode[Gdi[d]] = m]
  PROVE  /\ active' = active
         /\ setting'[d]["mode"] = m
         /\ \A e \in Displays \ active : setting'[e] = setting[e]
<1>1. PICK S \in AfterStaged, s \in Defaults :
        /\ active' = S
        /\ setting' = [e \in Displays |->
              LET now == IF e \in active' \ active THEN s ELSE setting[e]
              IN  IF e \in active' /\ staged.mode[Gdi[e]] # None
                  THEN [now EXCEPT !["mode"] = staged.mode[Gdi[e]]] ELSE now]
  BY DEF ApplyStaged
<1>2. staged.off = {} /\ staged.primary = None /\ staged.mode[Gdi[d]] = m
  <2>1. Gdi[d] \in Sources
    BY SwitchBasics DEF SwitchTypes
  <2> QED BY <2>1 DEF NothingStaged
<1>3. active' = active
  <2>1. {e \in active : Gdi[e] \notin staged.off} = active
    BY <1>2
  <2>2. {e \in Displays : Gdi[e] = staged.primary} = {}
    BY <1>2, SwitchBasics
  <2> QED BY <1>1, <2>1, <2>2 DEF AfterStaged
<1>4. d \in Displays /\ setting[d] \in Setting /\ m # None
  BY SwitchBasics DEF SwitchTypes
<1>5. setting'[d] = [setting[d] EXCEPT !["mode"] = m]
  BY <1>1, <1>2, <1>3, <1>4
<1>6. setting'[d]["mode"] = m
  BY <1>4, <1>5 DEF Setting, Kinds
<1>7. \A e \in Displays \ active : setting'[e] = setting[e]
  BY <1>1, <1>3
<1> QED BY <1>3, <1>6, <1>7

\* The types and the kinds, by groups of actions: an operation begins, a switch
\* goes on, a mode or a scale is set.
LEMMA BeginTypes ==
  ASSUME SwitchTypes, KindsOfPhase, NEW kind \in {"switch", "mode", "scale"},
         NEW d \in Displays, NEW v \in Values \cup {None}, kind # "switch" => v \in Values,
         Begins(kind, d, v)
  PROVE  SwitchTypes' /\ KindsOfPhase'
<1> USE DEF SwitchTypes, KindsOfPhase, systemVars
<1>1. op' \in Operations /\ op'.kind = kind /\ op'.v = v /\ op'.d = d
  BY DEF Begins, Operations
<1>2. was' \in [Displays -> Setting \cup {None}]
  BY DEF Begins
<1>3. clean' \in BOOLEAN
  BY DEF Begins
<1>4. /\ UNCHANGED <<active, primarySource, setting, staged, saved, listed, lost>>
      /\ answer' = None /\ restored' = FALSE /\ phase' = kind
  BY DEF Begins
<1>5. SwitchTypes'
  BY <1>1, <1>2, <1>3, <1>4
<1>6. KindsOfPhase'
  BY <1>1, <1>4 DEF Switching, Restoring
<1> QED BY <1>5, <1>6

LEMMA SwitchingTypes ==
  ASSUME SwitchTypes, KindsOfPhase,
         \/ SwitchRefused \/ SwitchGoesOn \/ Activate
         \/ Verify("verify1", "topology") \/ SetTopology \/ SkipTopology
         \/ Verify("verify2", "stage") \/ StagePrimary
         \/ (\E g \in Sources : StageOff(g)) \/ ApplySwitch
         \/ SwitchFails \/ SwitchVerified
  PROVE  SwitchTypes' /\ KindsOfPhase'
<1> USE DEF SwitchTypes, KindsOfPhase, systemVars, requestVars, pastVars, histVars,
        Switching, Restoring
<1>1. CASE SwitchRefused
  BY <1>1 DEF SwitchRefused, Answer
<1>2. CASE SwitchGoesOn
  <2>1. PICK sight \in {Sight} \cup Blurred :
          /\ saved' = Capture(sight)
          /\ lost' = (lost \ active) \cup {e \in Displays : sight[e].set # Sight[e].set}
          /\ listed' = {e \in Displays : sight[e].on}
    BY <1>2 DEF SwitchGoesOn
  <2>2. \A e \in Displays : sight[e].set \in [Kinds -> Values \cup {None}]
    BY Sightings
  <2>3. saved' \in [Displays -> [Kinds -> Values \cup {None}]]
    BY <2>1, <2>2 DEF Capture
  <2>4. lost' \subseteq Displays /\ listed' \subseteq Displays
    BY <2>1
  <2> QED BY <1>2, <2>3, <2>4 DEF SwitchGoesOn
<1>3. CASE Activate
  <2>1. /\ phase = "activate" /\ phase' \in {"verify1", "topology"}
        /\ UNCHANGED <<saved, op, listed, todo, answer, was, clean, lost, restored>>
    BY <1>3 DEF Activate
  <2>2. /\ active' \subseteq Displays /\ primarySource' \in Sources
        /\ setting' \in [Displays -> Setting] /\ staged' \in StagedCalls
    BY <1>3, BecameActive, SwitchBasics DEF Activate
  <2> QED BY <2>1, <2>2
<1>4. CASE Verify("verify1", "topology") \/ Verify("verify2", "stage")
  <2>1. /\ phase \in Switching /\ phase' \in {"restoreMode", "topology", "stage"}
        /\ UNCHANGED <<active, primarySource, setting, staged, saved, op, listed, answer,
                       was, clean, lost, restored>>
    BY <1>4 DEF Verify
  <2> QED BY <2>1
<1>5. CASE SetTopology
  <2>1. /\ phase = "topology" /\ phase' \in {"verify2", "stage"}
        /\ UNCHANGED <<saved, op, listed, todo, answer, was, clean, lost, restored>>
    BY <1>5 DEF SetTopology
  <2>2. /\ active' \subseteq Displays /\ primarySource' \in Sources
        /\ setting' \in [Displays -> Setting] /\ staged' \in StagedCalls
    BY <1>5, BecameActive, SwitchBasics DEF SetTopology
  <2> QED BY <2>1, <2>2
<1>6. CASE SkipTopology
  BY <1>6 DEF SkipTopology
<1>7. CASE StagePrimary
  <2>1. Gdi[op.d] \in Sources
    BY <1>7, SwitchBasics DEF StagePrimary, Operations
  <2>2. staged' \in StagedCalls
    BY <1>7, <2>1 DEF StagePrimary, StagedCalls
  <2> QED BY <1>7, <2>2 DEF StagePrimary
<1>8. ASSUME NEW g \in Sources, StageOff(g) PROVE SwitchTypes' /\ KindsOfPhase'
  <2>1. staged' \in StagedCalls
    BY <1>8 DEF StageOff, StagedCalls
  <2> QED BY <1>8, <2>1 DEF StageOff
<1>9. CASE ApplySwitch
  <2>1. /\ phase = "disable" /\ phase' = "verify3"
        /\ UNCHANGED <<saved, op, listed, todo, answer, was, clean, lost, restored>>
    BY <1>9 DEF ApplySwitch
  <2>2. /\ active' \subseteq Displays /\ primarySource' \in Sources
        /\ setting' \in [Displays -> Setting] /\ staged' \in StagedCalls
    BY <1>9, AppliedTypes, SwitchBasics DEF ApplySwitch
  <2> QED BY <2>1, <2>2
<1>10. CASE SwitchFails
  BY <1>10 DEF SwitchFails, Answer
<1>11. CASE SwitchVerified
  BY <1>11 DEF SwitchVerified
<1> QED BY <1>1, <1>2, <1>3, <1>4, <1>5, <1>6, <1>7, <1>8, <1>9, <1>10, <1>11

LEMMA SettingTypes ==
  ASSUME SwitchTypes, KindsOfPhase,
         \/ NoModeSaved \/ ModeRefused \/ ModeStaged \/ ModeApplied \/ ModeFails
         \/ NoScaleSaved \/ ScaleSet \/ ScaleFails
  PROVE  SwitchTypes' /\ KindsOfPhase'
<1> USE DEF SwitchTypes, KindsOfPhase, systemVars, requestVars, pastVars, histVars,
        Switching, Restoring
<1>0. phase # "idle" /\ op \in Operations /\ op.d \in Displays /\ op.v \in Values \cup {None}
  BY DEF NoModeSaved, ModeRefused, ModeStaged, ModeApplied, ModeFails, NoScaleSaved, ScaleSet,
         ScaleFails, Operations
<1>1. ASSUME NEW ok \in BOOLEAN, ModeEnds(ok), phase \in {"mode", "restoreMode", "apply"},
             active' \subseteq Displays, primarySource' \in Sources,
             setting' \in [Displays -> Setting], staged' \in StagedCalls,
             UNCHANGED <<was, clean, lost>>
      PROVE  SwitchTypes' /\ KindsOfPhase'
  <2>1. CASE op.kind = "switch"
    BY <1>1, <2>1 DEF ModeEnds
  <2>2. CASE op.kind # "switch"
    <3>1. [saved EXCEPT ![op.d]["mode"] = op.v] \in [Displays -> [Kinds -> Values \cup {None}]]
      BY <1>0
    <3>2. saved' \in [Displays -> [Kinds -> Values \cup {None}]]
      BY <1>1, <2>2, <3>1 DEF ModeEnds
    <3> QED BY <1>0, <1>1, <2>2, <3>2 DEF ModeEnds, Answer
  <2> QED BY <2>1, <2>2
<1>2. CASE NoModeSaved
  BY <1>0, <1>2 DEF NoModeSaved
<1>3. CASE ModeRefused
  <2>1. CASE op.kind = "switch"
    BY <1>1, <1>3, <2>1 DEF ModeRefused
  <2>2. CASE op.kind # "switch"
    BY <1>0, <1>3, <2>2 DEF ModeRefused, Answer
  <2> QED BY <2>1, <2>2
<1>4. CASE ModeStaged
  <2>1. ModeWanted \in Values
    BY <1>0, <1>4 DEF ModeStaged, ModeWanted, Kinds
  <2>2. staged' \in StagedCalls
    BY <1>0, <1>4, <2>1, SwitchBasics DEF ModeStaged, StagedCalls
  <2>3. ModeWanted' = ModeWanted
    BY <1>4 DEF ModeStaged, ModeWanted
  <2> QED BY <1>0, <1>4, <2>1, <2>2, <2>3 DEF ModeStaged
<1>5. CASE ModeApplied
  BY <1>1, <1>5, AppliedTypes, SwitchBasics DEF ModeApplied
<1>6. CASE ModeFails
  BY <1>1, <1>6 DEF ModeFails
<1>7. CASE NoScaleSaved
  BY <1>0, <1>7 DEF NoScaleSaved, Answer
<1>8. CASE ScaleSet
  <2>1. ScaleWanted \in Values
    BY <1>0, <1>8 DEF ScaleSet, ScaleWanted, Kinds
  <2>2. setting' \in [Displays -> Setting] /\ saved' \in [Displays -> [Kinds -> Values \cup {None}]]
    BY <1>0, <1>8, <2>1 DEF ScaleSet, Setting
  <2> QED BY <1>0, <1>8, <2>2 DEF ScaleSet, Answer
<1>9. CASE ScaleFails
  BY <1>0, <1>9 DEF ScaleFails, Answer
<1> QED BY <1>2, <1>3, <1>4, <1>5, <1>6, <1>7, <1>8, <1>9

LEMMA SwitchTypesStep ==
  ASSUME SwitchTypes, KindsOfPhase, [SwitchNext]_switchVars
  PROVE  SwitchTypes' /\ KindsOfPhase'
<1>1. ASSUME NEW d \in Displays, NEW k \in Kinds, NEW v \in Values, SomeoneSets(d, k, v)
      PROVE  SwitchTypes' /\ KindsOfPhase'
  <2>1. setting' \in [Displays -> Setting]
    BY <1>1 DEF SomeoneSets, SwitchTypes, Setting
  <2> QED BY <1>1, <2>1 DEF SomeoneSets, SomeoneActs, SwitchTypes, KindsOfPhase, requestVars, pastVars,
             Switching, Restoring
<1>2. ASSUME NEW S \in Desktops, SomeoneSwitches(S) PROVE SwitchTypes' /\ KindsOfPhase'
  <2>1. active' \subseteq Displays /\ primarySource' \in Sources
    BY <1>2, SwitchBasics DEF SomeoneSwitches, Desktops
  <2>2. setting' \in [Displays -> Setting]
    BY <1>2, SwitchBasics DEF SomeoneSwitches, SwitchTypes
  <2>3. staged' \in StagedCalls /\ was' \in [Displays -> Setting \cup {None}]
    BY <1>2, SwitchBasics DEF SomeoneSwitches, SwitchTypes
  <2> QED BY <1>2, <2>1, <2>2, <2>3 DEF SomeoneSwitches, SomeoneActs, SwitchTypes, KindsOfPhase,
             requestVars, Switching, Restoring
<1>3. CASE UNCHANGED switchVars
  BY <1>3 DEF switchVars, systemVars, requestVars, histVars, pastVars, SwitchTypes,
     KindsOfPhase, ModeWanted
<1> QED BY <1>1, <1>2, <1>3, BeginTypes, SwitchingTypes, SettingTypes DEF SwitchNext

\* Refusals.
LEMMA UntouchedStep ==
  ASSUME SwitchTypes, KindsOfPhase, UntouchedYet, RefusedUntouched, [SwitchNext]_switchVars
  PROVE  UntouchedYet' /\ RefusedUntouched'
<1> USE DEF UntouchedYet, RefusedUntouched, Answered, systemVars, requestVars, pastVars,
        histVars
<1>1. ASSUME phase' \notin {"idle", "switch", "mode", "scale"}
      PROVE  UntouchedYet' /\ RefusedUntouched'
  BY <1>1
<1>2. ASSUME phase' = "idle", answer' = None PROVE UntouchedYet' /\ RefusedUntouched'
  BY <1>2
<1>3. ASSUME NEW result, Answer(result), result # "refused"
      PROVE  UntouchedYet' /\ RefusedUntouched'
  BY <1>3 DEF Answer
<1>4. ASSUME phase \in {"switch", "mode", "scale"}, phase' = "idle",
             UNCHANGED <<systemVars, saved, before>>
      PROVE  UntouchedYet' /\ RefusedUntouched'
  BY <1>4 DEF Now
<1>5. ASSUME NEW kind \in {"switch", "mode", "scale"}, NEW d \in Displays,
             NEW v \in Values \cup {None}, Begins(kind, d, v)
      PROVE  UntouchedYet' /\ RefusedUntouched'
  <2>1. before' = Now /\ Now' = Now /\ answer' = None
    BY <1>5 DEF Begins, Now
  <2> QED BY <2>1
<1>6. ASSUME NEW d \in Displays, NEW k \in Kinds, NEW v \in Values, SomeoneSets(d, k, v)
      PROVE  UntouchedYet' /\ RefusedUntouched'
  BY <1>2, <1>6 DEF SomeoneSets, SomeoneActs
<1>7. CASE SwitchRefused
  BY <1>4, <1>7 DEF SwitchRefused, Answer
<1>8. CASE SwitchGoesOn \/ Activate \/ Verify("verify1", "topology") \/ SetTopology \/ SkipTopology
  BY <1>1, <1>8 DEF SwitchGoesOn, Activate, Verify, SetTopology, SkipTopology
<1>9. CASE Verify("verify2", "stage") \/ StagePrimary \/ ApplySwitch \/ SwitchVerified
  BY <1>1, <1>9 DEF Verify, StagePrimary, ApplySwitch, SwitchVerified
<1>10. ASSUME NEW g \in Sources, StageOff(g) PROVE UntouchedYet' /\ RefusedUntouched'
  BY <1>1, <1>10 DEF StageOff
<1>11. CASE SwitchFails
  BY <1>3, <1>11 DEF SwitchFails
<1>12. CASE NoModeSaved \/ ModeStaged
  BY <1>1, <1>12 DEF NoModeSaved, ModeStaged
<1>13. CASE ModeRefused
  <2>1. CASE op.kind = "switch"
    BY <1>1, <1>13, <2>1 DEF ModeRefused, ModeEnds
  <2>2. CASE op.kind # "switch"
    <3>1. phase = "mode"
      BY <1>13, <2>2 DEF ModeRefused, KindsOfPhase, Switching, Restoring
    <3> QED BY <1>4, <1>13, <2>2, <3>1 DEF ModeRefused, Answer
  <2> QED BY <2>1, <2>2
<1>14. CASE ModeApplied \/ ModeFails
  <2>1. PICK ok \in BOOLEAN : ModeEnds(ok)
    BY <1>14 DEF ModeApplied, ModeFails
  <2> QED BY <1>1, <1>3, <2>1 DEF ModeEnds
<1>15. CASE NoScaleSaved \/ ScaleSet
  BY <1>3, <1>15 DEF NoScaleSaved, ScaleSet
<1>16. CASE ScaleFails
  <2>1. CASE op.kind = "switch"
    BY <1>3, <1>16, <2>1 DEF ScaleFails
  <2>2. CASE op.kind # "switch"
    <3>1. phase = "scale"
      BY <1>16, <2>2 DEF ScaleFails, KindsOfPhase, Switching, Restoring
    <3> QED BY <1>4, <1>16, <2>2, <3>1 DEF ScaleFails, Answer
  <2> QED BY <2>1, <2>2
<1>17. ASSUME NEW S \in Desktops, SomeoneSwitches(S) PROVE UntouchedYet' /\ RefusedUntouched'
  BY <1>2, <1>17 DEF SomeoneSwitches, SomeoneActs
<1>18. CASE UNCHANGED switchVars
  BY <1>18 DEF switchVars, Now
<1> QED BY <1>5, <1>6, <1>7, <1>8, <1>9, <1>10, <1>11, <1>12, <1>13, <1>14, <1>15, <1>16,
           <1>17, <1>18 DEF SwitchNext

\* What is staged, where all is as the operation found it.
LEMMA StagedStep ==
  ASSUME SwitchTypes, KindsOfPhase, StagedByUs, [SwitchNext]_switchVars
  PROVE  StagedByUs'
<1> USE DEF StagedByUs, Switching, Restoring, systemVars, requestVars, pastVars, histVars
<1>1. ASSUME phase' \in {"idle", "disable", "restoreScale"} PROVE StagedByUs'
  BY <1>1
<1>2. ASSUME phase # "apply", phase \notin {"idle", "disable", "restoreScale"},
             phase' # "apply", UNCHANGED <<staged, clean>>
      PROVE  StagedByUs'
  BY <1>2 DEF SwitchTypes
<1>3. ASSUME phase' # "apply", staged' = NothingStaged PROVE StagedByUs'
  BY <1>3 DEF NothingStaged
<1>4. ASSUME NEW kind \in {"switch", "mode", "scale"}, NEW d \in Displays,
             NEW v \in Values \cup {None}, Begins(kind, d, v)
      PROVE  StagedByUs'
  <2>1. staged' = staged /\ phase' = kind /\ (clean' => staged = NothingStaged)
    BY <1>4 DEF Begins
  <2> QED BY <2>1 DEF NothingStaged
<1>5. ASSUME NEW d \in Displays, NEW k \in Kinds, NEW v \in Values, SomeoneSets(d, k, v)
      PROVE  StagedByUs'
  BY <1>1, <1>5 DEF SomeoneSets, SomeoneActs
<1>6. CASE SwitchRefused \/ SwitchFails \/ NoScaleSaved \/ ScaleSet \/ ScaleFails
  BY <1>1, <1>6 DEF SwitchRefused, SwitchFails, NoScaleSaved, ScaleSet, ScaleFails, Answer
<1>7. CASE SwitchGoesOn \/ SkipTopology
  BY <1>2, <1>7 DEF SwitchGoesOn, SkipTopology
<1>8. CASE SwitchVerified
  BY <1>2, <1>8 DEF SwitchVerified
<1>9. CASE Verify("verify1", "topology") \/ Verify("verify2", "stage")
  BY <1>2, <1>9 DEF Verify
<1>10. CASE Activate
  <2>1. phase = "activate" /\ phase' \in {"verify1", "topology"} /\ clean' = clean
    BY <1>10 DEF Activate
  <2>2. staged' = NothingStaged \/ staged' = staged
    BY <1>10, BecameActive DEF Activate
  <2> QED BY <1>2, <1>3, <2>1, <2>2
<1>11. CASE SetTopology
  <2>1. phase = "topology" /\ phase' \in {"verify2", "stage"} /\ clean' = clean
    BY <1>11 DEF SetTopology
  <2>2. staged' = NothingStaged \/ staged' = staged
    BY <1>11, BecameActive DEF SetTopology
  <2> QED BY <1>2, <1>3, <2>1, <2>2
<1>12. CASE StagePrimary
  BY <1>1, <1>12 DEF StagePrimary
<1>13. ASSUME NEW g \in Sources, StageOff(g) PROVE StagedByUs'
  BY <1>1, <1>13 DEF StageOff
<1>14. CASE ApplySwitch
  BY <1>3, <1>14, AppliedTypes DEF ApplySwitch
<1>15. CASE NoModeSaved
  BY <1>1, <1>15 DEF NoModeSaved
<1>16. CASE ModeRefused \/ ModeApplied \/ ModeFails
  BY <1>1, <1>16 DEF ModeRefused, ModeApplied, ModeFails, ModeEnds, Answer
<1>17. CASE ModeStaged
  <2>1. /\ phase' = "apply" /\ UNCHANGED <<op, clean>> /\ ModeWanted' = ModeWanted
        /\ clean => staged = NothingStaged
        /\ staged' = [staged EXCEPT !.mode[Gdi[op.d]] = ModeWanted]
    BY <1>17 DEF ModeStaged, ModeWanted
  <2> QED BY <2>1 DEF NothingStaged
<1>18. ASSUME NEW S \in Desktops, SomeoneSwitches(S) PROVE StagedByUs'
  BY <1>1, <1>18 DEF SomeoneSwitches, SomeoneActs
<1>19. CASE UNCHANGED switchVars
  BY <1>19 DEF switchVars, ModeWanted, NothingStaged
<1> QED BY <1>4, <1>5, <1>6, <1>7, <1>8, <1>9, <1>10, <1>11, <1>12, <1>13, <1>14, <1>15,
           <1>16, <1>17, <1>18, <1>19 DEF SwitchNext

\* The mode is applied, and nothing else with it.
LEMMA ModeAppliedAlone ==
  ASSUME SwitchTypes, KindsOfPhase, StagedByUs, clean, ModeApplied
  PROVE  /\ active' = active /\ op.d \in active
         /\ setting'[op.d]["mode"] = ModeWanted
         /\ \A e \in Displays \ active : setting'[e] = setting[e]
<1>1. /\ phase = "apply" /\ ApplyStaged /\ op.d \in active /\ ModeWanted \in Values
      /\ staged = [NothingStaged EXCEPT !.mode[Gdi[op.d]] = ModeWanted]
  BY DEF ModeApplied, KindsOfPhase, StagedByUs
<1> QED BY <1>1, ModeAlone

\* A switch that answers ok has verified its target, and no restoration of a mode
\* takes it off the desktop.
LEMMA VerifiedStep ==
  ASSUME SwitchTypes, KindsOfPhase, StagedByUs, Verified, OkIsActive, [SwitchNext]_switchVars
  PROVE  Verified' /\ OkIsActive'
<1> USE DEF Verified, OkIsActive, Answered, TargetActive, Restoring, systemVars, requestVars,
        pastVars, histVars
<1>1. ASSUME phase' \notin {"idle", "apply", "restoreMode", "restoreScale"}
      PROVE  Verified' /\ OkIsActive'
  BY <1>1
<1>2. ASSUME phase' = "idle",
             answer' = None \/ answer'.result # "ok" \/ answer'.op.kind # "switch"
      PROVE  Verified' /\ OkIsActive'
  BY <1>2
<1>3. ASSUME phase' \in Restoring \cup {"apply"}, UNCHANGED <<op, clean>>,
             clean /\ (phase' = "apply" => op.kind = "switch") => TargetActive(op.d),
             clean => UNCHANGED active
      PROVE  Verified' /\ OkIsActive'
  BY <1>3
<1>4. ASSUME Answer("ok"), clean /\ op.kind = "switch" => TargetActive(op.d),
             UNCHANGED <<active, clean>>
      PROVE  Verified' /\ OkIsActive'
  BY <1>4 DEF Answer
<1>5. ASSUME NEW kind \in {"switch", "mode", "scale"}, NEW d \in Displays,
             NEW v \in Values \cup {None}, Begins(kind, d, v)
      PROVE  Verified' /\ OkIsActive'
  BY <1>1, <1>5 DEF Begins
<1>6. ASSUME NEW d \in Displays, NEW k \in Kinds, NEW v \in Values, SomeoneSets(d, k, v)
      PROVE  Verified' /\ OkIsActive'
  BY <1>2, <1>6 DEF SomeoneSets, SomeoneActs
<1>7. CASE SwitchRefused \/ SwitchFails
  BY <1>2, <1>7 DEF SwitchRefused, SwitchFails, Answer
<1>8. CASE SwitchGoesOn \/ Activate \/ SetTopology \/ SkipTopology \/ StagePrimary \/ ApplySwitch
  BY <1>1, <1>8 DEF SwitchGoesOn, Activate, SetTopology, SkipTopology, StagePrimary, ApplySwitch
<1>9. ASSUME NEW g \in Sources, StageOff(g) PROVE Verified' /\ OkIsActive'
  BY <1>1, <1>9 DEF StageOff
<1>10. CASE Verify("verify1", "topology") \/ Verify("verify2", "stage") \/ SwitchVerified
  <2>1. /\ UNCHANGED <<active, op, clean>>
        /\ \/ phase' = "restoreMode" /\ TargetActive(op.d)
           \/ phase' \in {"topology", "stage"}
    BY <1>10 DEF Verify, SwitchVerified
  <2> QED BY <1>1, <1>3, <2>1
<1>11. CASE NoModeSaved \/ ModeStaged
  <2>1. /\ UNCHANGED <<active, op, clean>> /\ phase \in {"mode", "restoreMode"}
        /\ phase' \in {"restoreScale", "apply"} /\ (phase' = "restoreScale" => phase = "restoreMode")
    BY <1>11 DEF NoModeSaved, ModeStaged
  <2>2. phase = "mode" => op.kind = "mode"
    BY DEF KindsOfPhase
  <2> QED BY <1>3, <2>1, <2>2
<1>12. CASE ModeRefused \/ ModeApplied \/ ModeFails
  <2>1. /\ clean' = clean /\ phase \in {"mode", "restoreMode", "apply"}
        /\ phase = "mode" => op.kind = "mode"
    BY <1>12 DEF ModeRefused, ModeApplied, ModeFails, KindsOfPhase
  <2>2. clean => UNCHANGED active
    BY <1>12, ModeAppliedAlone DEF ModeRefused, ModeFails
  <2>3. CASE op.kind = "switch"
    <3>1. phase' = "restoreScale" /\ UNCHANGED op
      BY <1>12, <2>3 DEF ModeRefused, ModeApplied, ModeFails, ModeEnds
    <3> QED BY <1>3, <2>1, <2>2, <2>3, <3>1
  <2>4. CASE op.kind # "switch"
    BY <1>2, <1>12, <2>4 DEF ModeRefused, ModeApplied, ModeFails, ModeEnds, Answer
  <2> QED BY <2>3, <2>4
<1>13. CASE NoScaleSaved \/ ScaleSet \/ ScaleFails
  <2>1. /\ UNCHANGED <<active, clean>> /\ phase \in {"scale", "restoreScale"}
        /\ phase = "scale" => op.kind = "scale"
    BY <1>13 DEF NoScaleSaved, ScaleSet, ScaleFails, KindsOfPhase
  <2>2. Answer("ok") \/ Answer("refused")
    BY <1>13 DEF NoScaleSaved, ScaleSet, ScaleFails
  <2>3. CASE Answer("ok")
    BY <1>4, <2>1, <2>3
  <2>4. CASE Answer("refused")
    BY <1>2, <2>4 DEF Answer
  <2> QED BY <2>2, <2>3, <2>4
<1>14. ASSUME NEW S \in Desktops, SomeoneSwitches(S) PROVE Verified' /\ OkIsActive'
  BY <1>2, <1>14 DEF SomeoneSwitches, SomeoneActs
<1>15. CASE UNCHANGED switchVars
  BY <1>15 DEF switchVars
<1> QED BY <1>5, <1>6, <1>7, <1>8, <1>9, <1>10, <1>11, <1>12, <1>13, <1>14, <1>15 DEF SwitchNext

\* ok for a mode is answered where it has been applied, alone.
LEMMA ModeTakesStep ==
  ASSUME SwitchTypes, KindsOfPhase, StagedByUs, ModeTakesEffect, [SwitchNext]_switchVars
  PROVE  ModeTakesEffect'
<1> USE DEF ModeTakesEffect, Answered, systemVars, requestVars, pastVars, histVars
<1>1. ASSUME phase' # "idle" \/ answer' = None \/ answer'.result # "ok" \/ answer'.op.kind # "mode"
      PROVE  ModeTakesEffect'
  BY <1>1
<1>2. ASSUME NEW kind \in {"switch", "mode", "scale"}, NEW d \in Displays,
             NEW v \in Values \cup {None}, Begins(kind, d, v)
      PROVE  ModeTakesEffect'
  BY <1>1, <1>2 DEF Begins
<1>3. ASSUME NEW d \in Displays, NEW k \in Kinds, NEW v \in Values, SomeoneSets(d, k, v)
      PROVE  ModeTakesEffect'
  BY <1>1, <1>3 DEF SomeoneSets, SomeoneActs
<1>4. CASE SwitchRefused \/ SwitchFails
  <2>1. Answer("refused") \/ Answer("api_failed")
    BY <1>4 DEF SwitchRefused, SwitchFails
  <2> QED BY <1>1, <2>1 DEF Answer
<1>5. CASE SwitchGoesOn \/ Activate \/ SetTopology \/ SkipTopology \/ StagePrimary \/ ApplySwitch
  BY <1>1, <1>5 DEF SwitchGoesOn, Activate, SetTopology, SkipTopology, StagePrimary, ApplySwitch
<1>6. ASSUME NEW g \in Sources, StageOff(g) PROVE ModeTakesEffect'
  BY <1>1, <1>6 DEF StageOff
<1>7. CASE Verify("verify1", "topology") \/ Verify("verify2", "stage") \/ SwitchVerified
           \/ NoModeSaved \/ ModeStaged
  <2>1. phase' \in {"restoreMode", "topology", "stage", "restoreScale", "apply"}
    BY <1>7 DEF Verify, SwitchVerified, NoModeSaved, ModeStaged
  <2> QED BY <1>1, <2>1
<1>8. CASE ModeRefused \/ ModeFails
  <2>1. Answer("refused") \/ Answer("api_failed") \/ phase' = "restoreScale"
    BY <1>8 DEF ModeRefused, ModeFails, ModeEnds
  <2> QED BY <1>1, <2>1 DEF Answer
<1>9. CASE ModeApplied
  <2>1. CASE op.kind = "switch"
    BY <1>1, <1>9, <2>1 DEF ModeApplied, ModeEnds
  <2>2. CASE op.kind # "switch"
    <3>1. Answer("ok") /\ clean' = clean
      BY <1>9, <2>2 DEF ModeApplied, ModeEnds
    <3>2. clean => op.d \in active' /\ setting'[op.d]["mode"] = op.v
      BY <1>9, <2>2, ModeAppliedAlone DEF ModeWanted
    <3> QED BY <3>1, <3>2 DEF Answer
  <2> QED BY <2>1, <2>2
<1>10. CASE NoScaleSaved \/ ScaleSet \/ ScaleFails
  <2>1. op.kind # "mode"
    BY <1>10 DEF NoScaleSaved, ScaleSet, ScaleFails, KindsOfPhase, Switching, Restoring
  <2>2. answer'.op = op
    BY <1>10 DEF NoScaleSaved, ScaleSet, ScaleFails, Answer
  <2> QED BY <1>1, <2>1, <2>2
<1>11. ASSUME NEW S \in Desktops, SomeoneSwitches(S) PROVE ModeTakesEffect'
  BY <1>1, <1>11 DEF SomeoneSwitches, SomeoneActs
<1>12. CASE UNCHANGED switchVars
  BY <1>12 DEF switchVars
<1> QED BY <1>2, <1>3, <1>4, <1>5, <1>6, <1>7, <1>8, <1>9, <1>10, <1>11, <1>12 DEF SwitchNext

\* What is saved of a display and what it had when it was last on.
LEMMA PastStep ==
  ASSUME SwitchTypes, KindsOfPhase, StagedByUs, SavedIsPast, HalfRestored, ComesBack,
         [SwitchNext]_switchVars
  PROVE  SavedIsPast' /\ HalfRestored' /\ ComesBack'
<1> USE DEF Answered, Switching, Restoring, systemVars, requestVars, pastVars, histVars
<1> DEFINE OfSwitch == phase \in Switching \/ (phase = "apply" /\ op.kind = "switch")
<1>0. /\ \A e \in Displays : was[e] # None => was[e] \in Setting
      /\ \A e \in Displays : saved[e] \in [Kinds -> Values \cup {None}]
      /\ active \subseteq Displays
      /\ \A e \in active : setting[e] \in Setting
  BY DEF SwitchTypes
<1>a. clean => \A e \in Displays : was[e] # None =>
          /\ phase = "switch" /\ e \in active => was[e] = setting[e]
          /\ e \notin active \/ OfSwitch => e \in lost \/ saved[e] = was[e]
  BY DEF SavedIsPast
\* Most steps change neither what is saved nor the past, ...
<1>1. ASSUME phase' # "switch", UNCHANGED <<saved, was, clean, lost>>,
             clean /\ OfSwitch' => OfSwitch,
             clean /\ ~OfSwitch' => UNCHANGED active \/ OfSwitch
      PROVE  SavedIsPast'
  BY <1>a, <1>1 DEF SavedIsPast
\* ... or report on no switch that has been restored.
<1>2. ASSUME phase' # "restoreScale" \/ ~restored',
             \/ phase' # "idle" \/ answer' = None \/ answer'.result # "ok"
             \/ answer'.op.kind # "switch" \/ ~restored'
      PROVE  HalfRestored' /\ ComesBack'
  BY <1>2 DEF HalfRestored, ComesBack
<1>3. ASSUME NEW kind \in {"switch", "mode", "scale"}, NEW d \in Displays,
             NEW v \in Values \cup {None}, Begins(kind, d, v)
      PROVE  SavedIsPast' /\ HalfRestored' /\ ComesBack'
  <2>1. /\ phase = "idle" /\ phase' = kind /\ UNCHANGED <<active, setting, saved, lost>>
        /\ clean' => clean
        /\ \A e \in Displays : was'[e] = IF e \in active THEN setting[e] ELSE was[e]
    BY <1>3 DEF Begins
  <2>2. SavedIsPast'
    BY <1>a, <2>1 DEF SavedIsPast
  <2> QED BY <1>2, <2>1, <2>2
<1>4. ASSUME NEW d \in Displays, NEW k \in Kinds, NEW v \in Values, SomeoneSets(d, k, v)
      PROVE  SavedIsPast' /\ HalfRestored' /\ ComesBack'
  <2>1. /\ phase = "idle" /\ phase' = "idle" /\ answer' = None
        /\ UNCHANGED <<active, saved, was, clean, lost>>
    BY <1>4 DEF SomeoneSets, SomeoneActs
  <2> QED BY <1>1, <1>2, <2>1
<1>5. CASE SwitchRefused \/ SwitchFails
  <2>1. /\ UNCHANGED <<active, saved, was, clean, lost>> /\ phase' = "idle"
        /\ Answer("refused") \/ Answer("api_failed")
    BY <1>5 DEF SwitchRefused, SwitchFails, Answer
  <2>2. answer'.result # "ok"
    BY <2>1 DEF Answer
  <2> QED BY <1>1, <1>2, <2>1, <2>2
<1>6. CASE SwitchGoesOn
  <2>1. /\ phase = "switch" /\ phase' = "activate" /\ UNCHANGED <<active, setting, was, clean>>
    BY <1>6 DEF SwitchGoesOn
  <2>2. PICK sight \in {Sight} \cup Blurred :
          /\ saved' = Capture(sight)
          /\ lost' = (lost \ active) \cup {e \in Displays : sight[e].set # Sight[e].set}
    BY <1>6 DEF SwitchGoesOn
  <2>3. ASSUME NEW e \in Displays, e \notin lost', was[e] # None, clean
        PROVE  saved'[e] = was[e]
    <3>1. /\ sight[e].on <=> e \in active
          /\ e \in active => sight[e].set = setting[e]
      BY <2>2, <2>3, Sightings
    <3>2. saved'[e] = IF sight[e].on THEN sight[e].set ELSE saved[e]
      BY <2>2 DEF Capture
    <3>3. CASE e \in active
      BY <2>1, <2>2, <2>3, <3>1, <3>2, <3>3 DEF SavedIsPast
    <3>4. CASE e \notin active
      <4>1. e \notin lost
        BY <2>2, <2>3, <3>4
      <4> QED BY <1>a, <2>3, <3>1, <3>2, <3>4, <4>1
    <3> QED BY <3>3, <3>4
  <2>4. SavedIsPast'
    BY <2>1, <2>3 DEF SavedIsPast
  <2> QED BY <1>2, <2>1, <2>4
<1>7. CASE \/ Activate \/ Verify("verify1", "topology") \/ SetTopology \/ SkipTopology
           \/ Verify("verify2", "stage") \/ StagePrimary \/ (\E g \in Sources : StageOff(g))
           \/ ApplySwitch \/ SwitchVerified
  <2>1. /\ UNCHANGED <<saved, was, clean, lost>> /\ phase \in Switching
        /\ phase' \in Switching \ {"restoreScale"}
    BY <1>7 DEF Activate, Verify, SetTopology, SkipTopology, StagePrimary, StageOff,
                ApplySwitch, SwitchVerified
  <2> QED BY <1>1, <1>2, <2>1
<1>8. CASE NoModeSaved
  <2>1. /\ phase = "restoreMode" /\ phase' = "restoreScale"
        /\ saved[op.d]["mode"] = None
        /\ UNCHANGED <<active, setting, saved, op, was, clean, lost>>
    BY <1>8 DEF NoModeSaved
  <2>2. op.d \in Displays
    BY <2>1 DEF SwitchTypes, Operations
  <2>3. clean /\ op.d \notin lost => was[op.d] = None
    <3>1. clean /\ op.d \notin lost /\ was[op.d] # None =>
              saved[op.d] = was[op.d] /\ was[op.d] \in Setting
      BY <1>0, <1>a, <2>1, <2>2
    <3> QED BY <2>1, <3>1, SwitchBasics
  <2>4. SavedIsPast'
    BY <1>1, <2>1
  <2> QED BY <2>1, <2>3, <2>4 DEF HalfRestored, ComesBack
<1>9. CASE ModeStaged
  <2>1. /\ phase \in {"mode", "restoreMode"} /\ phase' = "apply"
        /\ phase = "mode" => op.kind = "mode"
        /\ UNCHANGED <<active, saved, op, was, clean, lost>>
    BY <1>9 DEF ModeStaged, KindsOfPhase
  <2> QED BY <1>1, <1>2, <2>1
<1>10. CASE ModeRefused \/ ModeFails
  <2>1. /\ phase \in {"mode", "restoreMode", "apply"}
        /\ UNCHANGED <<active, saved, was, clean, lost>>
        /\ \/ phase' = "restoreScale" /\ ~restored' /\ op.kind = "switch"
           \/ phase' = "idle" /\ answer'.op.kind # "switch"
    BY <1>10 DEF ModeRefused, ModeFails, ModeEnds, Answer
  <2>2. op.kind = "switch" => phase # "mode"
    BY DEF KindsOfPhase
  <2>3. SavedIsPast'
    BY <1>1, <2>1, <2>2
  <2> QED BY <1>2, <2>1, <2>3
<1>11. CASE ModeApplied
  <2>1. phase = "apply" /\ UNCHANGED <<was, clean, lost>> /\ op.d \in Displays
    BY <1>11 DEF ModeApplied, SwitchTypes, Operations
  <2>2. clean => /\ active' = active /\ op.d \in active
                 /\ setting'[op.d]["mode"] = ModeWanted
    BY <1>11, ModeAppliedAlone
  <2>3. CASE op.kind = "switch"
    <3>1. phase' = "restoreScale" /\ UNCHANGED <<saved, op, answer>>
      BY <1>11, <2>3 DEF ModeApplied, ModeEnds
    <3>2. SavedIsPast'
      BY <1>1, <2>1, <2>3, <3>1
    <3>3. clean /\ op.d \notin lost /\ was[op.d] # None => saved[op.d] = was[op.d]
      BY <1>a, <2>1, <2>3
    <3> QED BY <2>1, <2>2, <2>3, <3>1, <3>2, <3>3 DEF HalfRestored, ComesBack, ModeWanted
  <2>4. CASE op.kind # "switch"
    <3>1. /\ phase' = "idle" /\ answer'.op.kind # "switch"
          /\ saved' = [saved EXCEPT ![op.d]["mode"] = op.v]
      BY <1>11, <2>4 DEF ModeApplied, ModeEnds, Answer
    <3>2. \A e \in Displays : e # op.d => saved'[e] = saved[e]
      BY <3>1 DEF SwitchTypes
    <3>3. SavedIsPast'
      BY <1>a, <2>1, <2>2, <3>1, <3>2 DEF SavedIsPast
    <3> QED BY <1>2, <3>1, <3>3
  <2> QED BY <2>3, <2>4
<1>12. CASE NoScaleSaved \/ ScaleSet \/ ScaleFails
  <2>1. /\ UNCHANGED <<active, was, clean, lost>> /\ phase' = "idle" /\ answer'.op = op
        /\ phase \in {"scale", "restoreScale"} /\ op.d \in Displays
    BY <1>12 DEF NoScaleSaved, ScaleSet, ScaleFails, Answer, SwitchTypes, Operations
  <2>2. phase = "scale" <=> op.kind # "switch"
    BY <2>1 DEF KindsOfPhase
  <2>3. clean /\ op.d \notin lost /\ op.kind = "switch" /\ was[op.d] # None =>
            saved[op.d] = was[op.d] /\ was[op.d] \in Setting
    BY <1>0, <1>a, <2>1, <2>2
  <2>4. CASE NoScaleSaved
    <3>1. /\ phase = "restoreScale" /\ UNCHANGED <<saved, setting, restored>>
          /\ saved[op.d]["scale"] = None
      BY <2>2, <2>4 DEF NoScaleSaved, ScaleWanted, KindsOfPhase
    <3>2. clean /\ op.d \notin lost => was[op.d] = None
      BY <2>1, <2>2, <2>3, <3>1, SwitchBasics
    <3>3. SavedIsPast'
      BY <1>1, <2>1, <3>1
    <3> QED BY <2>1, <3>2, <3>3 DEF HalfRestored, ComesBack
  <2>5. CASE ScaleFails
    <3>1. UNCHANGED saved /\ ~restored'
      BY <2>5 DEF ScaleFails
    <3>2. SavedIsPast'
      BY <1>1, <2>1, <3>1
    <3> QED BY <1>2, <2>1, <3>1, <3>2
  <2>6. CASE ScaleSet
    <3>1. /\ saved' = [saved EXCEPT ![op.d]["scale"] = ScaleWanted]
          /\ setting'[op.d] = [setting[op.d] EXCEPT !["scale"] = ScaleWanted]
          /\ op.d \in active /\ UNCHANGED restored
      BY <2>1, <2>6 DEF ScaleSet, Mirrors
    <3>2. \A e \in Displays : e # op.d => saved'[e] = saved[e]
      BY <3>1 DEF SwitchTypes
    <3>3. op.kind = "switch" => saved'[op.d] = saved[op.d]
      <4>1. op.kind = "switch" => ScaleWanted = saved[op.d]["scale"]
        BY DEF ScaleWanted
      <4>2. saved'[op.d] = [saved[op.d] EXCEPT !["scale"] = ScaleWanted]
        BY <2>1, <3>1 DEF SwitchTypes
      <4> QED BY <1>0, <2>1, <4>1, <4>2
    <3>4. SavedIsPast'
      BY <1>a, <2>1, <2>2, <3>1, <3>2, <3>3 DEF SavedIsPast
    <3>5. ASSUME op.kind = "switch", restored, clean, op.d \notin lost, was[op.d] # None
          PROVE  setting'[op.d] = was[op.d]
      <4>1. setting[op.d] \in Setting /\ was[op.d] \in Setting
        BY <1>0, <2>1, <3>1, <3>5
      <4>2. setting'[op.d] = [setting[op.d] EXCEPT !["scale"] = was[op.d]["scale"]]
        BY <2>1, <2>3, <3>1, <3>5 DEF ScaleWanted, SwitchTypes
      <4>3. setting[op.d]["mode"] = was[op.d]["mode"]
        BY <2>1, <2>2, <3>5 DEF HalfRestored
      <4> QED BY <4>1, <4>2, <4>3 DEF Setting, Kinds
    <3>6. ComesBack'
      BY <2>1, <3>1, <3>5 DEF ComesBack
    <3> QED BY <2>1, <3>4, <3>6 DEF HalfRestored
  <2> QED BY <1>12, <2>4, <2>5, <2>6
<1>13. ASSUME NEW S \in Desktops, SomeoneSwitches(S)
       PROVE  SavedIsPast' /\ HalfRestored' /\ ComesBack'
  <2>1. /\ phase = "idle" /\ phase' = "idle" /\ answer' = None /\ active' = S
        /\ UNCHANGED <<saved, clean, lost>>
        /\ \A e \in Displays : was'[e] = IF e \in active \ S THEN None ELSE was[e]
    BY <1>13 DEF SomeoneSwitches, SomeoneActs
  <2>2. SavedIsPast'
    BY <1>a, <2>1 DEF SavedIsPast
  <2> QED BY <1>2, <2>1, <2>2
<1>14. CASE UNCHANGED switchVars
  BY <1>14 DEF switchVars, SavedIsPast, HalfRestored, ComesBack
<1> QED BY <1>3, <1>4, <1>5, <1>6, <1>7, <1>8, <1>9, <1>10, <1>11, <1>12, <1>13, <1>14
    DEF SwitchNext

LEMMA SwitchStart == SwitchInit => SwitchInv
<1> SUFFICES ASSUME SwitchInit PROVE SwitchInv
  OBVIOUS
<1>1. SwitchTypes
  <2>1. primarySource \in Sources
    BY SwitchBasics DEF SwitchInit, Desktops
  <2>2. setting \in [Displays -> Setting] /\ active \subseteq Displays
    <3>1. PICK s \in Defaults : setting = [d \in Displays |-> s]
      BY DEF SwitchInit
    <3>2. s \in Setting
      BY SwitchBasics
    <3> QED BY <3>1, <3>2 DEF SwitchInit, Desktops
  <2>3. saved \in [Displays -> [Kinds -> Values \cup {None}]]
    BY SwitchBasics DEF SwitchInit
  <2>4. was \in [Displays -> Setting \cup {None}]
    BY DEF SwitchInit
  <2> QED BY <2>1, <2>2, <2>3, <2>4, SwitchBasics DEF SwitchInit, SwitchTypes
<1>2. KindsOfPhase /\ UntouchedYet /\ StagedByUs /\ Verified /\ HalfRestored
  BY DEF SwitchInit, KindsOfPhase, UntouchedYet, StagedByUs, Verified, HalfRestored, Switching,
         Restoring
<1>3. SavedIsPast
  BY DEF SwitchInit, SavedIsPast
<1>4. OkIsActive /\ RefusedUntouched /\ ComesBack /\ ModeTakesEffect
  BY DEF SwitchInit, OkIsActive, RefusedUntouched, ComesBack, ModeTakesEffect, Answered
<1> QED BY <1>1, <1>2, <1>3, <1>4 DEF SwitchInv

LEMMA SwitchInvHolds == SwitchSpec => []SwitchInv
<1>1. SwitchInv /\ [SwitchNext]_switchVars => SwitchInv'
  BY SwitchTypesStep, UntouchedStep, StagedStep, VerifiedStep, ModeTakesStep, PastStep
     DEF SwitchInv
<1> QED BY SwitchStart, <1>1, PTL DEF SwitchSpec

\* A switch that answered ok has its target on the desktop, for any displays,
\* sources and target ids and any failures, unless a failed one left calls staged.
THEOREM SwitchTells == SwitchSpec => []OkIsActive
<1>1. SwitchInv => OkIsActive
  BY DEF SwitchInv
<1> QED BY <1>1, SwitchInvHolds, PTL

\* A refused operation has touched nothing.
THEOREM RefusalsHarmless == SwitchSpec => []RefusedUntouched
<1>1. SwitchInv => RefusedUntouched
  BY DEF SwitchInv
<1> QED BY <1>1, SwitchInvHolds, PTL

\* A display that is switched to gets back the settings it had when the module last
\* began an operation with it on, on the conditions that ComesBack names: the module
\* has switched it off, and no query of its capture nor restoring call has failed.
THEOREM SettingsComeBack == SwitchSpec => []ComesBack
<1>1. SwitchInv => ComesBack
  BY DEF SwitchInv
<1> QED BY <1>1, SwitchInvHolds, PTL

\* A mode that was answered with ok is in force on an active display.
THEOREM ModeInForce == SwitchSpec => []ModeTakesEffect
<1>1. SwitchInv => ModeTakesEffect
  BY DEF SwitchInv
<1> QED BY <1>1, SwitchInvHolds, PTL
===============================================================================
