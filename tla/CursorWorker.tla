----------------------------- MODULE CursorWorker -----------------------------
(***************************************************************************)
(* The capture thread of src/modules/CursorModule.cpp: CursorEngine with   *)
(* its cached handle, tier and size, the two flags other threads set, and  *)
(* SidebandServer::BroadcastCursor.                                        *)
(*                                                                         *)
(* An image is what Windows draws for a cursor handle at one pointer size  *)
(* and one DPI tier: it is rebuilt in place, so a handle does not tell     *)
(* which image a client got.  Each session is reduced to what its client   *)
(* shows and its m_lastSentHash; SidebandSession models the rest.  Clock   *)
(* tests (30 ms, 500 ms, 2 s) are choices, and fairness says that time     *)
(* passes.                                                                 *)
(***************************************************************************)
EXTENDS Integers

CONSTANTS
    Clients,
    Handles,        \* the cursors of the system (HCURSOR)
    NoHandle,       \* NULL
    Sizes,          \* values of CursorBaseSize, clamped
    Tiers,          \* results of GetExpectedSystemCursorSize
    DefaultTier,    \* the tier of 96 DPI
    HashOf,         \* image -> CalculateCRC32 of its pixels
    NoImage,        \* what a client shows before its first cursor
    FirstImage,     \* the image on the screen at start
    MaxChanges,     \* bound on the changes of the system
    MaxJoins,       \* bound on the connections
    MaxFaults       \* bound on failed captures, dropped frames and exceptions

Images == Handles \X Sizes \X Tiers

ASSUME CursorAssumption ==
    /\ NoHandle \notin Handles
    /\ NoImage \notin Images /\ FirstImage \in Images
    /\ Sizes \subseteq Nat /\ Tiers \subseteq Nat /\ DefaultTier \in Tiers
    /\ HashOf \in [Images -> Nat]
    /\ MaxChanges \in Nat /\ MaxJoins \in Nat /\ MaxFaults \in Nat

\* Two images of one hash are one image to the code; the model has none, but
\* for those that hash to 0.
ASSUME HashAssumption ==
    \A i, j \in Images : HashOf[i] = HashOf[j] => HashOf[i] = 0 \/ i = j

VARIABLES
    cursor, visible, base, tier,        \* the system
    clients,                            \* m_clients
    joining,            \* in m_clients, OnClientConnected still to be called
    shown,              \* the image each client shows
    lastSentHash,       \* m_lastSentHash of each session
    cursorChanged, displayResetPending, \* the flags behind m_mutexCursor
    pc, early,          \* where the worker is; 30 ms have not passed
    lastCursor,         \* mLastCursor
    lastTargetSize,     \* mLastTargetSize, -1 before the first reading
    lastTierSize,       \* mLastTierSize, -1 before the first reading
    dpi,                \* the tier mLastDpi stands for
    isDpiChanging,      \* m_isDpiChanging
    frame, todo,        \* the image being sent, the snapshot's rest
    missed,             \* history: the last frame did not reach the session
    unseen,             \* history: it was drawn before its size or tier was read
    changes, joins, faults

sysVars    == <<cursor, visible, base, tier>>
listVars   == <<clients, joining>>
clientVars == <<shown, lastSentHash, missed>>
flagVars   == <<cursorChanged, displayResetPending>>
engineVars == <<lastCursor, lastTargetSize, lastTierSize, dpi, isDpiChanging>>
sendVars   == <<frame, todo, unseen>>
boundVars  == <<changes, joins, faults>>
vars == <<sysVars, listVars, clientVars, flagVars, pc, early, engineVars, sendVars,
          boundVars>>

Image == <<cursor, base, tier>>

Init ==
    /\ cursor = FirstImage[1] /\ base = FirstImage[2] /\ tier = FirstImage[3]
    /\ visible = TRUE
    /\ clients = {} /\ joining = {}
    /\ shown = [c \in Clients |-> NoImage]
    /\ lastSentHash = [c \in Clients |-> 0]
    /\ missed = [c \in Clients |-> FALSE]
    /\ cursorChanged = FALSE /\ displayResetPending = FALSE
    /\ pc = "wait" /\ early = FALSE
    /\ lastCursor = NoHandle
    /\ lastTargetSize = -1 /\ lastTierSize = -1
    /\ dpi = DefaultTier /\ isDpiChanging = FALSE
    /\ frame = NoImage /\ todo = {} /\ unseen = FALSE
    /\ changes = 0 /\ joins = 0 /\ faults = 0

-----------------------------------------------------------------------------
(* The system and its user. *)

Change == changes < MaxChanges /\ changes' = changes + 1

CursorChanges ==
    /\ Change
    /\ cursor' \in Handles /\ visible' \in BOOLEAN
    /\ <<cursor', visible'>> # <<cursor, visible>>
    /\ UNCHANGED <<base, tier, listVars, clientVars, flagVars, pc, early, engineVars,
                   sendVars, joins, faults>>

\* The pointer size slider, a display of another scaling under the pointer, or
\* another scaling of this one.
LookChanges ==
    /\ Change
    /\ \/ base' \in Sizes \ {base} /\ UNCHANGED tier
       \/ tier' \in Tiers \ {tier} /\ UNCHANGED base
    /\ UNCHANGED <<cursor, visible, listVars, clientVars, flagVars, pc, early,
                   engineVars, sendVars, joins, faults>>

\* The hook's thread: a name change of the cursor object.
WinEventProc ==
    /\ ~cursorChanged
    /\ cursorChanged' = TRUE
    /\ UNCHANGED <<sysVars, listVars, clientVars, displayResetPending, pc, early,
                   engineVars, sendVars, boundVars>>

\* Variant: only the wake-up is requested.
RequestWakesOnly ==
    /\ cursorChanged' = TRUE
    /\ UNCHANGED displayResetPending

\* What OnClientConnected and OnDisplayChanged do under m_mutexCursor.
RequestReset == cursorChanged' = TRUE /\ displayResetPending' = TRUE

OnDisplayChanged ==
    /\ Change
    /\ RequestReset
    /\ UNCHANGED <<sysVars, listVars, clientVars, pc, early, engineVars, sendVars,
                   joins, faults>>

-----------------------------------------------------------------------------
(* The server's thread: a session enters the list, then the modules are     *)
(* told; it leaves the list when it has ended, and a connection of the same *)
(* client is a new session.                                                 *)

Accept(c) ==
    /\ joining = {} /\ c \notin clients /\ joins < MaxJoins
    /\ joins' = joins + 1
    /\ clients' = clients \cup {c}
    /\ joining' = {c}
    /\ UNCHANGED <<sysVars, clientVars, flagVars, pc, early, engineVars, sendVars,
                   changes, faults>>

OnClientConnected ==
    /\ joining # {}
    /\ joining' = {}
    /\ RequestReset
    /\ UNCHANGED <<sysVars, clients, clientVars, pc, early, engineVars, sendVars,
                   boundVars>>

Leave(c) ==
    /\ c \in clients \ joining
    /\ clients' = clients \ {c}
    /\ shown' = [shown EXCEPT ![c] = NoImage]
    /\ lastSentHash' = [lastSentHash EXCEPT ![c] = 0]
    /\ missed' = [missed EXCEPT ![c] = FALSE]
    /\ UNCHANGED <<sysVars, joining, flagVars, pc, early, engineVars, sendVars,
                   boundVars>>

-----------------------------------------------------------------------------
(* WorkerLoop: wait for m_cursorChanged or 33 ms, take both flags, reset.   *)
(* A wake-up by the flag may come less than 30 ms after the last capture.   *)
(* The reset also asks for a new DPI reading, which may fail: see Capturing *)

Wake ==
    /\ pc = "wait"
    /\ pc' = "capture"
    /\ early' \in (IF cursorChanged THEN BOOLEAN ELSE {FALSE})
    /\ cursorChanged' = FALSE /\ displayResetPending' = FALSE
    /\ IF displayResetPending
       THEN lastCursor' = NoHandle /\ isDpiChanging' = FALSE
       ELSE UNCHANGED <<lastCursor, isDpiChanging>>
    /\ UNCHANGED <<sysVars, listVars, clientVars, lastTargetSize, lastTierSize, dpi,
                   sendVars, boundVars>>

-----------------------------------------------------------------------------
(* CaptureAndSend, up to the frame. *)

NoClients ==
    /\ pc = "capture" /\ clients = {}
    /\ pc' = "wait" /\ early' = FALSE
    /\ lastCursor' = NoHandle
    /\ UNCHANGED <<sysVars, listVars, clientVars, flagVars, lastTargetSize,
                   lastTierSize, dpi, isDpiChanging, sendVars, boundVars>>

\* Less than 30 ms since the last capture, or no cursor on the screen.
Skip ==
    /\ pc = "capture" /\ clients # {}
    /\ early \/ ~visible
    /\ pc' = "wait" /\ early' = FALSE
    /\ UNCHANGED <<sysVars, listVars, clientVars, flagVars, engineVars, sendVars,
                   boundVars>>

Looking == pc = "capture" /\ clients # {} /\ ~early /\ visible

\* mLastCursor after the pointer size s has been compared with the last one.
Known(s) == IF lastTargetSize \in {-1, s} THEN lastCursor ELSE NoHandle

\* The tier the captures were made at; the first reading defines it.
OldTier(t) == IF lastTierSize = -1 THEN t ELSE lastTierSize

\* Variant: a changed tier starts the debounce and is never accepted.
DebounceStaysOn(t, s, held) ==
    /\ isDpiChanging' = TRUE
    /\ lastTierSize' = OldTier(t)
    /\ lastCursor' = Known(s)

\* Another tier than before: it must last 500 ms (held), then it is accepted
\* and the cursor captured anew.
Debounce(t, s, held) ==
    /\ isDpiChanging' = ~(isDpiChanging /\ held)
    /\ lastTierSize' = IF isDpiChanging /\ held THEN t ELSE OldTier(t)
    /\ lastCursor' = IF isDpiChanging /\ held THEN NoHandle ELSE Known(s)

TierDiffers(t, s, held) ==
    /\ Looking
    /\ t # OldTier(t)
    /\ Debounce(t, s, held)
    /\ dpi' = t /\ lastTargetSize' = s
    /\ pc' = "wait"
    /\ UNCHANGED <<sysVars, listVars, clientVars, flagVars, early, sendVars, boundVars>>

\* Tier and size are as before or noted: the common part of what follows.
Look(t, s) ==
    /\ Looking
    /\ t = OldTier(t)
    /\ dpi' = t /\ lastTargetSize' = s /\ lastTierSize' = t /\ isDpiChanging' = FALSE
    /\ UNCHANGED <<sysVars, listVars, clientVars, flagVars, early, changes, joins>>

SameHandle(t, s) ==
    /\ Look(t, s)
    /\ cursor = Known(s)
    /\ lastCursor' = Known(s)
    /\ pc' = "wait"
    /\ UNCHANGED <<sendVars, faults>>

\* GetIconInfo, the bitmaps, the encoder fail or an allocation throws: nothing
\* has been remembered yet, and the next round tries again.
CaptureFails(t, s) ==
    /\ faults < MaxFaults /\ faults' = faults + 1
    /\ Look(t, s)
    /\ cursor # Known(s)
    /\ lastCursor' = Known(s)
    /\ pc' = "wait"
    /\ UNCHANGED sendVars

\* The handle is remembered before the frame is sent.
Capture(t, s) ==
    /\ Look(t, s)
    /\ cursor # Known(s)
    /\ lastCursor' = cursor
    /\ frame' = Image
    /\ unseen' = (s # base \/ t # tier)
    /\ pc' = "broadcast"
    /\ UNCHANGED <<todo, faults>>

-----------------------------------------------------------------------------
(* BroadcastCursor: a snapshot of the list, then each session's SendCursor. *)

Snapshot ==
    /\ pc = "broadcast"
    /\ todo' = clients
    /\ pc' = IF clients = {} THEN "wait" ELSE "send"
    /\ UNCHANGED <<sysVars, listVars, clientVars, flagVars, early, engineVars, frame,
                   unseen, boundVars>>

ToNext(c) ==
    /\ pc = "send" /\ c \in todo
    /\ todo' = todo \ {c}
    /\ pc' = IF todo = {c} THEN "wait" ELSE "send"
    /\ UNCHANGED <<sysVars, listVars, flagVars, early, engineVars, frame, unseen,
                   changes, joins>>

Gone(c) == ToNext(c) /\ c \notin clients /\ UNCHANGED <<clientVars, faults>>

\* SendCursor finds the hash it sent last.
Suppressed(c) ==
    /\ ToNext(c)
    /\ c \in clients
    /\ lastSentHash[c] = HashOf[frame]
    /\ missed' = [missed EXCEPT ![c] = FALSE]
    /\ UNCHANGED <<shown, lastSentHash, faults>>

\* Delivered; m_lastSentHash is 0 afterwards if the session's set of cached
\* hashes passed its limit.
Delivered(c) ==
    /\ ToNext(c)
    /\ c \in clients
    /\ lastSentHash[c] # HashOf[frame]
    /\ shown' = [shown EXCEPT ![c] = frame]
    /\ \E h \in {0, HashOf[frame]} : lastSentHash' = [lastSentHash EXCEPT ![c] = h]
    /\ missed' = [missed EXCEPT ![c] = FALSE]
    /\ UNCHANGED faults

\* The socket is full and the frame dropped: the worker is not told.
Dropped(c) ==
    /\ faults < MaxFaults /\ faults' = faults + 1
    /\ ToNext(c)
    /\ c \in clients
    /\ lastSentHash[c] # HashOf[frame]
    /\ missed' = [missed EXCEPT ![c] = TRUE]
    /\ UNCHANGED <<shown, lastSentHash>>

\* The broadcast throws; WorkerLoop swallows it with the handle remembered.
BroadcastThrows ==
    /\ faults < MaxFaults /\ faults' = faults + 1
    /\ pc \in {"broadcast", "send"}
    /\ pc' = "wait"
    /\ todo' = {}
    /\ LET left == IF pc = "send" THEN todo ELSE clients
       IN  missed' = [c \in Clients |-> c \in left \cap clients \/ missed[c]]
    /\ UNCHANGED <<sysVars, listVars, shown, lastSentHash, flagVars, early, engineVars,
                   frame, unseen, changes, joins>>

-----------------------------------------------------------------------------

\* GetCursorMonitorDPI and GetTargetSize answer the last reading for up to two
\* seconds, and go on answering it when the query fails.
Capturing ==
    \/ NoClients \/ Skip
    \/ \E t \in {dpi, tier}, s \in {base, lastTargetSize} \ {-1} :
        \/ \E held \in BOOLEAN : TierDiffers(t, s, held)
        \/ SameHandle(t, s) \/ CaptureFails(t, s) \/ Capture(t, s)

Sending ==
    \/ Snapshot
    \/ \E c \in Clients : Gone(c) \/ Suppressed(c) \/ Delivered(c) \/ Dropped(c)
    \/ BroadcastThrows

Worker == Wake \/ Capturing \/ Sending

Server ==
    \/ OnClientConnected
    \/ \E c \in Clients : Accept(c) \/ Leave(c)

System == CursorChanges \/ LookChanges \/ WinEventProc \/ OnDisplayChanged

Next == Worker \/ Server \/ System

Spec == Init /\ [][Next]_vars

\* The clocks run: not every wake-up is early, the cached readings expire, and
\* a tier that stays is held for 500 ms.
WakeInTime == Wake /\ ~early'

LookAgain ==
    \/ TierDiffers(tier, base, TRUE)
    \/ SameHandle(tier, base)
    \/ Capture(tier, base)

FairSpec ==
    /\ Spec
    /\ WF_vars(Worker) /\ WF_vars(OnClientConnected)
    /\ SF_vars(WakeInTime) /\ SF_vars(LookAgain)

-----------------------------------------------------------------------------
(* Properties. *)

Unhashable(i) == HashOf[i] = 0

\* Every variable keeps to its type, and there is a frame while one is sent.
TypeOK ==
    /\ Image \in Images /\ visible \in BOOLEAN
    /\ clients \subseteq Clients /\ joining \subseteq clients
    /\ shown \in [Clients -> Images \cup {NoImage}]
    /\ lastSentHash \in [Clients -> Nat]
    /\ missed \in [Clients -> BOOLEAN]
    /\ cursorChanged \in BOOLEAN /\ displayResetPending \in BOOLEAN
    /\ pc \in {"wait", "capture", "broadcast", "send"} /\ early \in BOOLEAN
    /\ lastCursor \in Handles \cup {NoHandle}
    /\ lastTargetSize \in Sizes \cup {-1} /\ lastTierSize \in Tiers \cup {-1}
    /\ dpi \in Tiers /\ isDpiChanging \in BOOLEAN
    /\ frame \in Images \cup {NoImage} /\ todo \subseteq Clients
    /\ pc \in {"broadcast", "send"} => frame \in Images
    /\ unseen \in BOOLEAN
    /\ changes \in Nat /\ joins \in Nat /\ faults \in Nat

\* mLastCursor stops the worker from sending the same cursor again.  So while
\* it is set, and nobody has asked for a reset, every session of the list has
\* the frame that was sent for it: also the one that joined between the
\* snapshot and the end of the broadcast.  Excepted are frames that were
\* dropped, which nothing repeats, and an image whose hash is 0, which a new
\* session takes for sent.
RememberedIsShown ==
    (pc = "wait" /\ lastCursor # NoHandle /\ ~displayResetPending) =>
        \A c \in clients \ joining :
            shown[c] = frame \/ missed[c] \/ Unhashable(frame)

\* A client comes to show the cursor as the system draws it, after a change
\* of handle, size or tier and for a new client, with the exceptions above;
\* a size or tier that was put back before the worker had read it (unseen) may
\* leave the image drawn meanwhile.
CursorShown ==
    \A c \in Clients :
        (c \in clients /\ visible /\ shown[c] # Image) ~>
            \/ c \notin clients \/ ~visible \/ shown[c] = Image
            \/ missed[c] \/ unseen \/ Unhashable(Image)

=============================================================================
