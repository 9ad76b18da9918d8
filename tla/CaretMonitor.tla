----------------------------- MODULE CaretMonitor -----------------------------
(***************************************************************************)
(* The text-cursor thread of src/modules/CursorModule.cpp: the two flags   *)
(* the low-level hooks set, TextCursorMonitorLoop, UpdateTextCursorState   *)
(* with its cached place and state, and the broadcast.                     *)
(*                                                                         *)
(* A place is the caret's point on the desktop; its state is the height on *)
(* its monitor, 0..10000 in the code, which depends on the display layout. *)
(* -1 stands for no caret, -2 for nothing sent yet, as in the code.        *)
(***************************************************************************)
EXTENDS Integers

CONSTANTS
    Clients,
    Places,
    NoPlace,        \* no caret; the code's (-1, -1)
    Layouts,
    StateOf,        \* layout -> place -> state
    Threshold,      \* the 50 of UpdateTextCursorState
    NotTold,        \* what a client knows before its first packet
    MaxMoves,       \* bound on moves of the caret and changes of the layout
    MaxJoins,       \* bound on the connections
    MaxFaults       \* bound on failed queries, dropped packets and exceptions

States == -1..100

ASSUME CaretAssumption ==
    /\ NoPlace \notin Places /\ NotTold \notin States
    /\ StateOf \in [Layouts -> [Places -> 0..100]]
    /\ Threshold \in Nat
    /\ MaxMoves \in Nat /\ MaxJoins \in Nat /\ MaxFaults \in Nat

VARIABLES
    caret, layout,          \* the system
    clients,                \* m_clients
    told,                   \* the last state each client got
    missed,                 \* history: its last packet was lost
    poke, pokeForce,        \* m_textCursorPoke, m_textCursorPokeForce
    pc, force,              \* where the thread is, its copy of pokeForce
    lastCaret,              \* lastCaretX, lastCaretY
    lastSentState,          \* m_lastSentState
    textCursorActive,       \* m_textCursorActive
    state,                  \* currentState of the last update that got that far
    moves, joins, faults

sysVars   == <<caret, layout>>
listVars  == <<clients, told, missed>>
pokeVars  == <<poke, pokeForce>>
cacheVars == <<lastCaret, lastSentState, textCursorActive, state>>
boundVars == <<moves, joins, faults>>
vars == <<sysVars, listVars, pokeVars, pc, force, cacheVars, boundVars>>

Init ==
    /\ caret = NoPlace /\ layout \in Layouts
    /\ clients = {}
    /\ told = [c \in Clients |-> NotTold]
    /\ missed = [c \in Clients |-> FALSE]
    /\ poke = FALSE /\ pokeForce = FALSE
    /\ pc = "wait" /\ force = FALSE
    /\ lastCaret = NoPlace /\ lastSentState = -2
    /\ textCursorActive = FALSE /\ state = -2
    /\ moves = 0 /\ joins = 0 /\ faults = 0

-----------------------------------------------------------------------------
(* The user, the hooks' thread and the server's thread. *)

CaretMoves ==
    /\ moves < MaxMoves /\ moves' = moves + 1
    /\ caret' \in (Places \cup {NoPlace}) \ {caret}
    /\ UNCHANGED <<layout, listVars, pokeVars, pc, force, cacheVars, joins, faults>>

LayoutChanges ==
    /\ moves < MaxMoves /\ moves' = moves + 1
    /\ layout' \in Layouts \ {layout}
    /\ UNCHANGED <<caret, listVars, pokeVars, pc, force, cacheVars, joins, faults>>

\* The left button goes up: the next update sends whatever it finds.
MouseProc ==
    /\ ~pokeForce
    /\ poke' = TRUE /\ pokeForce' = TRUE
    /\ UNCHANGED <<sysVars, listVars, pc, force, cacheVars, boundVars>>

\* A key goes down while there was a caret at the last look.
KeyboardProc ==
    /\ textCursorActive /\ ~poke
    /\ poke' = TRUE
    /\ UNCHANGED <<sysVars, listVars, pokeForce, pc, force, cacheVars, boundVars>>

Join(c) ==
    /\ c \notin clients /\ joins < MaxJoins /\ joins' = joins + 1
    /\ clients' = clients \cup {c}
    /\ UNCHANGED <<sysVars, told, missed, pokeVars, pc, force, cacheVars, moves, faults>>

Leave(c) ==
    /\ c \in clients
    /\ clients' = clients \ {c}
    /\ told' = [told EXCEPT ![c] = NotTold]
    /\ missed' = [missed EXCEPT ![c] = FALSE]
    /\ UNCHANGED <<sysVars, pokeVars, pc, force, cacheVars, boundVars>>

-----------------------------------------------------------------------------
(* TextCursorMonitorLoop: a poke or 100 ms, both flags taken under the      *)
(* mutex; without clients the round ends there.                             *)

Wake ==
    /\ pc = "wait"
    /\ force' = pokeForce
    /\ poke' = FALSE /\ pokeForce' = FALSE
    /\ pc' = IF clients = {} THEN "wait" ELSE "update"
    /\ UNCHANGED <<sysVars, listVars, cacheVars, boundVars>>

-----------------------------------------------------------------------------
(* UpdateTextCursorState. *)

\* Variant: the same place is the same state, forced or not.
SamePlaceAlways(place) == place = lastCaret

SamePlace(place) == ~force /\ place = lastCaret

NothingNew ==
    /\ pc = "update"
    /\ caret # NoPlace /\ SamePlace(caret)
    /\ pc' = "wait"
    /\ UNCHANGED <<sysVars, listVars, pokeVars, force, cacheVars, boundVars>>

Apart(a, b) == (IF a > b THEN a - b ELSE b - a) > Threshold

\* Variant: the threshold is for all changes, the end of the caret included.
WorthSendingByDistance(s) == force \/ Apart(s, lastSentState)

\* stateChanged: forced, the caret is gone, or it is far enough from what was
\* sent last, which may be -1 or -2.
WorthSending(s) ==
    \/ force
    \/ s = -1 /\ lastSentState # -1
    \/ s # -1 /\ Apart(s, lastSentState)

\* Variant: the last state is the last one seen, not the last one sent.
LookNotesAll(place, s) ==
    /\ pc = "update"
    /\ lastCaret' = place
    /\ textCursorActive' = (place # NoPlace)
    /\ state' = s
    /\ pc' = IF WorthSending(s) THEN "send" ELSE "wait"
    /\ lastSentState' = IF WorthSending(s) THEN lastSentState ELSE s
    /\ UNCHANGED <<sysVars, listVars, pokeVars, force, moves, joins>>

\* The caret was found at a place, or not at all, and its state computed.
Look(place, s) ==
    /\ pc = "update"
    /\ lastCaret' = place
    /\ textCursorActive' = (place # NoPlace)
    /\ state' = s
    /\ pc' = IF WorthSending(s) THEN "send" ELSE "wait"
    /\ UNCHANGED <<sysVars, listVars, pokeVars, force, lastSentState, moves, joins>>

\* GetCaretViaWin32 or GetCaretViaUIA finds it.
Found ==
    /\ caret # NoPlace /\ ~SamePlace(caret)
    /\ Look(caret, StateOf[layout][caret])
    /\ UNCHANGED faults

NotFound == caret = NoPlace /\ Look(NoPlace, -1) /\ UNCHANGED faults

\* Neither way to ask works this time (UI Automation rests for 60 s after a
\* failure), or GetMonitorInfo fails: the place is noted and -1 is sent.
QueryFails ==
    /\ caret # NoPlace
    /\ faults < MaxFaults /\ faults' = faults + 1
    /\ \/ Look(NoPlace, -1)
       \/ ~SamePlace(caret) /\ Look(caret, -1)

\* BroadcastTextCursorState and m_lastSentState; sessions whose socket is full
\* drop the packet, and the monitor is not told.
Send(dropping) ==
    /\ pc = "send"
    /\ dropping \subseteq clients
    /\ told' = [c \in Clients |->
                   IF c \in clients \ dropping THEN state ELSE told[c]]
    /\ missed' = [c \in Clients |->
                     IF c \in clients THEN c \in dropping ELSE missed[c]]
    /\ lastSentState' = state
    /\ pc' = "wait"
    /\ UNCHANGED <<sysVars, clients, pokeVars, force, lastCaret, textCursorActive, state,
                   moves, joins>>

SendToAll == Send({}) /\ UNCHANGED faults

SendToSome ==
    /\ faults < MaxFaults /\ faults' = faults + 1
    /\ \E c \in clients : Send({c})

\* The broadcast throws: the place has been noted, the state has not.
SendThrows ==
    /\ pc = "send"
    /\ faults < MaxFaults /\ faults' = faults + 1
    /\ missed' = [c \in Clients |-> c \in clients]
    /\ pc' = "wait"
    /\ UNCHANGED <<sysVars, clients, told, pokeVars, force, cacheVars, moves, joins>>

Monitor ==
    \/ Wake
    \/ NothingNew \/ Found \/ NotFound \/ QueryFails
    \/ SendToAll \/ SendToSome \/ SendThrows

Next ==
    \/ Monitor
    \/ CaretMoves \/ LayoutChanges \/ MouseProc \/ KeyboardProc
    \/ \E c \in Clients : Join(c) \/ Leave(c)

Spec == Init /\ [][Next]_vars

\* The thread runs: it wakes every 100 ms at the latest, and no system call
\* blocks it for ever.
FairSpec == Spec /\ WF_vars(Monitor)

-----------------------------------------------------------------------------
(* Properties. *)

\* Every variable keeps to its type, and only a state that was computed is sent.
TypeOK ==
    /\ caret \in Places \cup {NoPlace} /\ layout \in Layouts
    /\ clients \subseteq Clients
    /\ told \in [Clients -> States \cup {NotTold}]
    /\ missed \in [Clients -> BOOLEAN]
    /\ poke \in BOOLEAN /\ pokeForce \in BOOLEAN
    /\ pc \in {"wait", "update", "send"} /\ force \in BOOLEAN
    /\ lastCaret \in Places \cup {NoPlace}
    /\ lastSentState \in States \cup {-2} /\ state \in States \cup {-2}
    /\ pc = "send" => state \in States
    /\ textCursorActive \in BOOLEAN
    /\ moves \in 0..MaxMoves /\ joins \in 0..MaxJoins /\ faults \in 0..MaxFaults

\* A client that got its last packet.
Informed(c) == c \in clients /\ told[c] # NotTold /\ ~missed[c]

\* Between two rounds an informed client is within the threshold of the last
\* height the monitor found, and knows that there was no caret when there was
\* none: small moves that are not sent do not add up to a large error, whoever
\* joined, left or missed a packet in between.
ClientWithinThreshold ==
    pc = "wait" =>
        \A c \in clients : Informed(c) =>
            /\ state = -1 => told[c] = -1
            /\ ~Apart(state, told[c])

\* A client showing a caret that has gone is told so, unless a caret is back,
\* the packet was lost or the client left: the end of the input is sent
\* however near to the sentinel -1 the last height was.
VanishTold ==
    \A c \in Clients :
        (Informed(c) /\ caret = NoPlace /\ told[c] # -1)
            ~> (~Informed(c) \/ caret # NoPlace \/ told[c] = -1)

\* A click tells every client connected by then, a new one included, that no
\* threshold and no cached place keeps the answer from.
ClickTells ==
    \A c \in Clients :
        (c \in clients /\ pokeForce)
            ~> (c \notin clients \/ missed[c] \/ told[c] = state)
=============================================================================
