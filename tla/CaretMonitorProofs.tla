-------------------------- MODULE CaretMonitorProofs --------------------------
(***************************************************************************)
(* What a client was told stays near what the text-cursor thread found,    *)
(* for any clients, places, layouts, threshold and bounds.                 *)
(***************************************************************************)
EXTENDS CaretMonitor, TLAPS

\* A client that is not connected has been told nothing.
StrangersUntold ==
    \A c \in Clients \ clients : told[c] = NotTold /\ ~missed[c]

\* Every client that got its last packet got the state sent last: a packet that
\* was lost, or a broadcast that throws, makes the client one that missed it.
ToldLastSent ==
    \A c \in clients : Informed(c) => told[c] = lastSentState

\* ClientWithinThreshold outside of the broadcast: before the update, state and
\* what was told are those of an earlier round.
NearOutsideSend ==
    pc # "send" =>
        \A c \in clients : Informed(c) =>
            /\ state = -1 => told[c] = -1
            /\ ~Apart(state, told[c])

CaretInv == TypeOK /\ StrangersUntold /\ ToldLastSent /\ NearOutsideSend

\* An update that sends nothing found what is near to the state sent last, and
\* no end of a caret.
LEMMA NotWorthSending ==
  ASSUME lastSentState \in States \cup {-2}, NEW s \in States, ~WorthSending(s)
  PROVE  /\ s = -1 => lastSentState = -1
         /\ ~Apart(s, lastSentState)
  BY CaretAssumption DEF WorthSending, Apart, States

LEMMA InitCaret == Init => CaretInv
<1> SUFFICES ASSUME Init PROVE CaretInv
  OBVIOUS
<1>1. TypeOK
  <2>1. 0 \in 0..MaxMoves /\ 0 \in 0..MaxJoins /\ 0 \in 0..MaxFaults
    BY CaretAssumption
  <2> QED BY <2>1 DEF Init, TypeOK
<1>2. StrangersUntold /\ ToldLastSent /\ NearOutsideSend
  BY DEF Init, StrangersUntold, ToldLastSent, NearOutsideSend, Informed
<1> QED BY <1>1, <1>2 DEF CaretInv

\* TypeOK is kept by every step.
LEMMA TypeKept ==
  ASSUME TypeOK, [Next]_vars
  PROVE  TypeOK'
<1> USE CaretAssumption DEF TypeOK, sysVars, listVars, pokeVars, cacheVars, boundVars
<1>1. CASE CaretMoves BY <1>1 DEF CaretMoves
<1>2. CASE LayoutChanges BY <1>2 DEF LayoutChanges
<1>3. CASE MouseProc BY <1>3 DEF MouseProc
<1>4. CASE KeyboardProc BY <1>4 DEF KeyboardProc
<1>5. ASSUME NEW c \in Clients, Join(c) PROVE TypeOK'
  BY <1>5 DEF Join
<1>6. ASSUME NEW c \in Clients, Leave(c) PROVE TypeOK'
  BY <1>6 DEF Leave
<1>7. CASE Wake BY <1>7 DEF Wake
<1>8. CASE NothingNew BY <1>8 DEF NothingNew
<1>9. ASSUME NEW p \in Places \cup {NoPlace}, NEW s \in States, Look(p, s),
             faults' \in 0..MaxFaults
      PROVE  TypeOK'
  BY <1>9 DEF Look
<1>10. CASE Found
  <2>1. StateOf[layout][caret] \in States
    BY <1>10 DEF Found, States
  <2> QED BY <1>9, <1>10, <2>1 DEF Found
<1>11. CASE NotFound
  <2>1. -1 \in States
    BY DEF States
  <2> QED BY <1>9, <1>11, <2>1 DEF NotFound
<1>12. CASE QueryFails
  <2>1. -1 \in States
    BY DEF States
  <2> QED BY <1>9, <1>12, <2>1 DEF QueryFails
<1>13. ASSUME NEW d \in SUBSET clients, Send(d), faults' \in 0..MaxFaults
       PROVE  TypeOK'
  <2>1. state \in States /\ lastSentState' = state /\ pc' = "wait"
    BY <1>13 DEF Send
  <2>2. told' \in [Clients -> States \cup {NotTold}]
    BY <1>13, <2>1 DEF Send
  <2>3. missed' \in [Clients -> BOOLEAN]
    <3>1. ASSUME NEW c \in Clients
          PROVE  (IF c \in clients THEN c \in d ELSE missed[c]) \in BOOLEAN
      <4>1. (c \in d) \in BOOLEAN /\ missed[c] \in BOOLEAN
        OBVIOUS
      <4> QED BY <4>1, Zenon
    <3>2. missed' = [c \in Clients |-> IF c \in clients THEN c \in d ELSE missed[c]]
      BY <1>13 DEF Send
    <3> HIDE DEF TypeOK
    <3> QED BY <3>1, <3>2, Zenon
  <2> QED BY <1>13, <2>1, <2>2, <2>3 DEF Send
<1>14. CASE SendToAll BY <1>13, <1>14 DEF SendToAll
<1>15. CASE SendToSome BY <1>13, <1>15 DEF SendToSome
<1>16. CASE SendThrows BY <1>16 DEF SendThrows
<1>17. CASE UNCHANGED vars BY <1>17 DEF vars
<1> QED
  BY <1>1, <1>2, <1>3, <1>4, <1>5, <1>6, <1>7, <1>8, <1>10, <1>11, <1>12, <1>14, <1>15,
     <1>16, <1>17 DEF Next, Monitor
\* So are the other three conjuncts.
LEMMA CaretKept ==
  ASSUME CaretInv, [Next]_vars
  PROVE  StrangersUntold' /\ ToldLastSent' /\ NearOutsideSend'
<1> USE DEF CaretInv, StrangersUntold, ToldLastSent, NearOutsideSend, Informed, Apart,
            sysVars, listVars, pokeVars, cacheVars, boundVars
<1>1. CASE CaretMoves BY <1>1 DEF CaretMoves
<1>2. CASE LayoutChanges BY <1>2 DEF LayoutChanges
<1>3. CASE MouseProc BY <1>3 DEF MouseProc
<1>4. CASE KeyboardProc BY <1>4 DEF KeyboardProc
<1>5. ASSUME NEW c \in Clients, Join(c)
      PROVE  StrangersUntold' /\ ToldLastSent' /\ NearOutsideSend'
  BY <1>5 DEF Join
<1>6. ASSUME NEW c \in Clients, Leave(c)
      PROVE  StrangersUntold' /\ ToldLastSent' /\ NearOutsideSend'
  BY <1>6 DEF Leave, TypeOK
<1>7. CASE Wake BY <1>7 DEF Wake
<1>8. CASE NothingNew BY <1>8 DEF NothingNew
<1>9. ASSUME NEW p \in Places \cup {NoPlace}, NEW s \in States, Look(p, s)
      PROVE  StrangersUntold' /\ ToldLastSent' /\ NearOutsideSend'
  <2>1. StrangersUntold' /\ ToldLastSent'
    BY <1>9 DEF Look
  <2>2. CASE WorthSending(s)
    BY <1>9, <2>2 DEF Look
  <2>3. CASE ~WorthSending(s)
    <3>1. (s = -1 => lastSentState = -1) /\ ~Apart(s, lastSentState)
      BY <2>3, NotWorthSending DEF TypeOK
    <3>2. state' = s /\ UNCHANGED <<clients, told, missed, lastSentState>>
      BY <1>9 DEF Look
    <3>3. ASSUME NEW c \in clients', Informed(c)' PROVE told'[c] = lastSentState
      BY <3>2, <3>3
    <3> QED BY <3>1, <3>2, <3>3
  <2> QED BY <2>1, <2>2, <2>3
<1>10. CASE Found
  <2>1. StateOf[layout][caret] \in States
    BY <1>10, CaretAssumption DEF Found, States, TypeOK
  <2> QED BY <1>9, <1>10, <2>1 DEF Found, TypeOK
<1>11. CASE NotFound
  <2>1. -1 \in States
    BY DEF States
  <2> QED BY <1>9, <1>11, <2>1 DEF NotFound
<1>12. CASE QueryFails
  <2>1. -1 \in States
    BY DEF States
  <2> QED BY <1>9, <1>12, <2>1 DEF QueryFails, TypeOK
<1>13. ASSUME NEW d \in SUBSET clients, Send(d)
       PROVE  StrangersUntold' /\ ToldLastSent' /\ NearOutsideSend'
  <2>1. /\ state \in Int /\ state' = state /\ lastSentState' = state
        /\ clients' = clients /\ clients \subseteq Clients
    BY <1>13 DEF Send, TypeOK, States
  <2>2. \A c \in Clients :
            /\ told'[c] = IF c \in clients \ d THEN state ELSE told[c]
            /\ missed'[c] = IF c \in clients THEN c \in d ELSE missed[c]
    BY <1>13 DEF Send
  <2>3. ToldLastSent' /\ StrangersUntold'
    BY <2>1, <2>2
  <2>4. ~Apart(state, state)
    BY <2>1, CaretAssumption
  <2>5. ASSUME NEW c \in clients', Informed(c)' PROVE told'[c] = state'
    BY <2>1, <2>3, <2>5
  <2> QED BY <2>1, <2>3, <2>4, <2>5
<1>14. CASE SendToAll BY <1>13, <1>14 DEF SendToAll
<1>15. CASE SendToSome BY <1>13, <1>15 DEF SendToSome
<1>16. CASE SendThrows BY <1>16 DEF SendThrows, TypeOK
<1>17. CASE UNCHANGED vars BY <1>17 DEF vars
<1> QED
  BY <1>1, <1>2, <1>3, <1>4, <1>5, <1>6, <1>7, <1>8, <1>10, <1>11, <1>12, <1>14, <1>15,
     <1>16, <1>17 DEF Next, Monitor

LEMMA CaretInvHolds == Spec => []CaretInv
<1>1. CaretInv /\ [Next]_vars => CaretInv'
  BY TypeKept, CaretKept DEF CaretInv
<1> QED BY InitCaret, <1>1, PTL DEF Spec

\* Every variable keeps to its type.
THEOREM CaretTypes == Spec => []TypeOK
<1>1. CaretInv => TypeOK
  BY DEF CaretInv
<1> QED BY CaretInvHolds, <1>1, PTL

\* A client that got its last packet is within the threshold of the height the
\* thread last found, and knows of the end of the caret
\* (CursorModule::UpdateTextCursorState).
THEOREM CaretNear == Spec => []ClientWithinThreshold
<1>1. CaretInv => ClientWithinThreshold
  BY DEF CaretInv, NearOutsideSend, ClientWithinThreshold
<1> QED BY CaretInvHolds, <1>1, PTL

===============================================================================
