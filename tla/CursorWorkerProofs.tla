-------------------------- MODULE CursorWorkerProofs --------------------------
(***************************************************************************)
(* A cursor the worker remembers has been sent to every session, for any   *)
(* clients, cursors, sizes, tiers and bounds.                              *)
(***************************************************************************)
EXTENDS CursorWorker, TLAPS

\* The client has the frame, or one of the exceptions of RememberedIsShown.
Served(c) == shown[c] = frame \/ missed[c] \/ Unhashable(frame)

\* A session's last hash is 0, or that of the image its client shows.
HashIsShown ==
    \A c \in Clients : lastSentHash[c] # 0 =>
        shown[c] \in Images /\ HashOf[shown[c]] = lastSentHash[c]

\* RememberedIsShown until the next frame is made ...
BeforeFrame ==
    (pc \in {"wait", "capture"} /\ lastCursor # NoHandle /\ ~displayResetPending) =>
        \A c \in clients \ joining : Served(c)

\* ... and while it is sent: a client in nobody's turn any more is served, or it
\* joined behind the snapshot and the reset for it is pending.
DuringSend ==
    (pc = "send" /\ ~displayResetPending) =>
        \A c \in clients \ joining : c \in todo \/ Served(c)

CursorInv == TypeOK /\ HashIsShown /\ BeforeFrame /\ DuringSend

LEMMA InitCursor == Init => CursorInv
<1> SUFFICES ASSUME Init PROVE CursorInv
  OBVIOUS
<1>1. TypeOK
  BY CursorAssumption DEF Init, TypeOK, Image, Images
<1>2. HashIsShown /\ BeforeFrame /\ DuringSend
  BY DEF Init, HashIsShown, BeforeFrame, DuringSend
<1> QED BY <1>1, <1>2 DEF CursorInv

\* A changed pointer size makes the worker forget its cursor, never learn one.
LEMMA KnownOrNothing ==
  ASSUME NEW s PROVE Known(s) \in {lastCursor, NoHandle}
  BY DEF Known

\* The system, the hook and the display.
LEMMA SystemKeeps ==
  ASSUME CursorInv, System
  PROVE  CursorInv'
<1> USE CursorAssumption DEF CursorInv, HashIsShown, BeforeFrame, DuringSend, Served,
        Unhashable, sysVars, listVars, clientVars, flagVars, engineVars, sendVars,
        boundVars, Change
<1>1. CASE CursorChanges
  BY <1>1 DEF CursorChanges, TypeOK, Image, Images
<1>2. CASE LookChanges
  BY <1>2 DEF LookChanges, TypeOK, Image, Images
<1>3. CASE WinEventProc
  BY <1>3 DEF WinEventProc, TypeOK, Image
<1>4. CASE OnDisplayChanged
  BY <1>4 DEF OnDisplayChanged, RequestReset, TypeOK, Image
<1> QED BY <1>1, <1>2, <1>3, <1>4 DEF System

\* A client that joins is in joining until the reset is pending.
LEMMA ServerKeeps ==
  ASSUME CursorInv, Server
  PROVE  CursorInv'
<1> USE CursorAssumption DEF CursorInv, HashIsShown, BeforeFrame, DuringSend, Served,
        Unhashable, sysVars, listVars, clientVars, flagVars, engineVars, sendVars,
        boundVars
<1>1. CASE OnClientConnected
  BY <1>1 DEF OnClientConnected, RequestReset, TypeOK, Image
<1>2. ASSUME NEW c \in Clients, Accept(c) PROVE CursorInv'
  BY <1>2 DEF Accept, TypeOK, Image
<1>3. ASSUME NEW c \in Clients, Leave(c) PROVE CursorInv'
  <2>1. TypeOK'
    BY <1>3 DEF Leave, TypeOK, Image
  <2>2. HashIsShown'
    BY <1>3 DEF Leave, TypeOK
  <2>3. BeforeFrame' /\ DuringSend'
    BY <1>3 DEF Leave, TypeOK
  <2> QED BY <2>1, <2>2, <2>3
<1> QED BY <1>1, <1>2, <1>3 DEF Server

LEMMA WakeKeeps ==
  ASSUME CursorInv, Wake
  PROVE  CursorInv'
<1> USE CursorAssumption DEF CursorInv, HashIsShown, BeforeFrame, DuringSend, Served,
        Unhashable, sysVars, listVars, clientVars, sendVars, boundVars
<1> QED BY DEF Wake, TypeOK, Image

\* Up to the frame the worker only forgets; the frame begins anew.
LEMMA CaptureKeeps ==
  ASSUME CursorInv, Capturing
  PROVE  CursorInv'
<1> USE CursorAssumption DEF CursorInv, HashIsShown, BeforeFrame, DuringSend, Served,
        Unhashable, sysVars, listVars, clientVars, flagVars, engineVars, sendVars,
        boundVars
<1>1. CASE NoClients
  BY <1>1 DEF NoClients, TypeOK, Image
<1>2. CASE Skip
  BY <1>2 DEF Skip, TypeOK, Image
<1>3. ASSUME NEW t \in {dpi, tier}, NEW s \in {base, lastTargetSize} \ {-1}
      PROVE  /\ t \in Tiers /\ s \in Sizes /\ OldTier(t) \in Tiers
             /\ Known(s) \in Handles \cup {NoHandle}
  BY DEF TypeOK, Image, Images, OldTier, Known
<1>4. ASSUME NEW t \in {dpi, tier}, NEW s \in {base, lastTargetSize} \ {-1},
             NEW held \in BOOLEAN, TierDiffers(t, s, held)
      PROVE  CursorInv'
  <2>1. lastCursor' \in {lastCursor, NoHandle}
    BY <1>4, KnownOrNothing DEF TierDiffers, Debounce
  <2>2. TypeOK'
    BY <1>3, <1>4 DEF TierDiffers, Debounce, Looking, TypeOK, Image
  <2>3. HashIsShown' /\ BeforeFrame' /\ DuringSend'
    BY <1>4, <2>1 DEF TierDiffers, Looking
  <2> QED BY <2>2, <2>3
<1>5. ASSUME NEW t \in {dpi, tier}, NEW s \in {base, lastTargetSize} \ {-1},
             SameHandle(t, s)
      PROVE  CursorInv'
  <2>1. lastCursor' \in {lastCursor, NoHandle}
    BY <1>5, KnownOrNothing DEF SameHandle
  <2>2. TypeOK'
    BY <1>3, <1>5 DEF SameHandle, Look, Looking, TypeOK, Image
  <2>3. HashIsShown' /\ BeforeFrame' /\ DuringSend'
    BY <1>5, <2>1 DEF SameHandle, Look, Looking
  <2> QED BY <2>2, <2>3
<1>6. ASSUME NEW t \in {dpi, tier}, NEW s \in {base, lastTargetSize} \ {-1},
             CaptureFails(t, s)
      PROVE  CursorInv'
  <2>1. lastCursor' \in {lastCursor, NoHandle}
    BY <1>6, KnownOrNothing DEF CaptureFails
  <2>2. TypeOK'
    <3>1. faults' \in Nat
      BY <1>6 DEF CaptureFails, TypeOK
    <3>2. /\ lastCursor' \in Handles \cup {NoHandle} /\ pc' = "wait"
          /\ UNCHANGED sendVars
      BY <1>3, <1>6 DEF CaptureFails
    <3>3. /\ dpi' = t /\ lastTargetSize' = s /\ lastTierSize' = t
          /\ isDpiChanging' = FALSE
          /\ UNCHANGED <<sysVars, listVars, clientVars, flagVars, early, changes, joins>>
      BY <1>6 DEF CaptureFails, Look
    <3> QED BY <1>3, <3>1, <3>2, <3>3 DEF TypeOK, Image
  <2>3. HashIsShown' /\ BeforeFrame' /\ DuringSend'
    BY <1>6, <2>1 DEF CaptureFails, Look, Looking
  <2> QED BY <2>2, <2>3
<1>7. ASSUME NEW t \in {dpi, tier}, NEW s \in {base, lastTargetSize} \ {-1},
             Capture(t, s)
      PROVE  CursorInv'
  <2>1. TypeOK'
    BY <1>3, <1>7 DEF Capture, Look, Looking, TypeOK, Image, Images
  <2>2. HashIsShown' /\ BeforeFrame' /\ DuringSend'
    BY <1>7 DEF Capture, Look, Looking
  <2> QED BY <2>1, <2>2
<1> QED BY <1>1, <1>2, <1>4, <1>5, <1>6, <1>7 DEF Capturing

\* Each session of the snapshot is served, has missed the frame or has left.
LEMMA SendKeeps ==
  ASSUME CursorInv, Sending
  PROVE  CursorInv'
<1> USE CursorAssumption DEF CursorInv, HashIsShown, BeforeFrame, DuringSend, Served,
        Unhashable, sysVars, listVars, clientVars, flagVars, engineVars, sendVars,
        boundVars
<1>1. CASE Snapshot
  BY <1>1 DEF Snapshot, TypeOK, Image
<1>2. ASSUME NEW c \in Clients, Gone(c) PROVE CursorInv'
  BY <1>2 DEF Gone, ToNext, TypeOK, Image
<1>3. ASSUME NEW c \in Clients, Suppressed(c) PROVE CursorInv'
  <2>1. TypeOK'
    BY <1>3 DEF Suppressed, ToNext, TypeOK, Image
  <2>2. HashOf[frame] = 0 \/ shown[c] = frame
    BY <1>3, HashAssumption DEF Suppressed, ToNext, TypeOK
  <2>3. HashIsShown' /\ BeforeFrame' /\ DuringSend'
    BY <1>3, <2>2 DEF Suppressed, ToNext, TypeOK
  <2> QED BY <2>1, <2>3
<1>4. ASSUME NEW c \in Clients, Delivered(c) PROVE CursorInv'
  <2>1. HashOf[frame] \in Nat /\ frame \in Images
    BY <1>4 DEF Delivered, ToNext, TypeOK
  <2>2. PICK h \in {0, HashOf[frame]} : lastSentHash' = [lastSentHash EXCEPT ![c] = h]
    BY <1>4 DEF Delivered
  <2>3. TypeOK'
    BY <1>4, <2>1, <2>2 DEF Delivered, ToNext, TypeOK, Image
  <2>4. HashIsShown'
    BY <1>4, <2>1, <2>2 DEF Delivered, ToNext, TypeOK
  <2>5. BeforeFrame' /\ DuringSend'
    BY <1>4 DEF Delivered, ToNext, TypeOK
  <2> QED BY <2>3, <2>4, <2>5
<1>5. ASSUME NEW c \in Clients, Dropped(c) PROVE CursorInv'
  <2>1. TypeOK'
    BY <1>5 DEF Dropped, ToNext, TypeOK, Image
  <2>2. HashIsShown' /\ BeforeFrame' /\ DuringSend'
    BY <1>5 DEF Dropped, ToNext, TypeOK
  <2> QED BY <2>1, <2>2
<1>6. CASE BroadcastThrows
  <2> DEFINE left == IF pc = "send" THEN todo ELSE clients
  <2>1. missed' = [c \in Clients |-> c \in left \cap clients \/ missed[c]]
    BY <1>6 DEF BroadcastThrows
  <2>2. missed' \in [Clients -> BOOLEAN]
    <3>1. \A c \in Clients : (c \in left \cap clients \/ missed[c]) \in BOOLEAN
      BY Zenon
    <3> HIDE DEF left
    <3> QED BY <2>1, <3>1, Zenon
  <2>3. TypeOK'
    BY <1>6, <2>2 DEF BroadcastThrows, TypeOK, Image
  <2>4. HashIsShown' /\ BeforeFrame' /\ DuringSend'
    BY <1>6, <2>1 DEF BroadcastThrows, TypeOK
  <2> QED BY <2>3, <2>4
<1> QED BY <1>1, <1>2, <1>3, <1>4, <1>5, <1>6 DEF Sending

LEMMA CursorInvHolds == Spec => []CursorInv
<1>1. CursorInv /\ [Next]_vars => CursorInv'
  <2> SUFFICES ASSUME CursorInv, [Next]_vars PROVE CursorInv'
    OBVIOUS
  <2>1. CASE UNCHANGED vars
    BY <2>1 DEF vars, sysVars, listVars, clientVars, flagVars, engineVars, sendVars,
       boundVars, CursorInv, TypeOK, Image, HashIsShown, BeforeFrame, DuringSend,
       Served, Unhashable
  <2> QED
    BY <2>1, SystemKeeps, ServerKeeps, WakeKeeps, CaptureKeeps, SendKeeps
       DEF Next, Worker
<1> QED BY InitCursor, <1>1, PTL DEF Spec

\* Every variable keeps to its type.
THEOREM CursorTypes == Spec => []TypeOK
<1>1. CursorInv => TypeOK
  BY DEF CursorInv
<1> QED BY CursorInvHolds, <1>1, PTL

\* While the worker remembers a cursor and nobody has asked for a reset, every
\* session of the list has the frame that was sent for it
\* (CursorEngine::CaptureAndSend, CursorModule::WorkerLoop).
THEOREM RememberedShown == Spec => []RememberedIsShown
<1>1. CursorInv => RememberedIsShown
  BY DEF CursorInv, BeforeFrame, Served, RememberedIsShown
<1> QED BY CursorInvHolds, <1>1, PTL

===============================================================================
