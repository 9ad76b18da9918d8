---------------------------- MODULE DisplaySwitch ----------------------------
(***************************************************************************)
(* The operations of the display module (src/modules/DisplayModule.cpp) on *)
(* the displays: the switch with its three methods, the mode, the scale,   *)
(* and the settings remembered for each display.  They all run on the      *)
(* server thread, one at a time; each call of Windows is a step of its own *)
(* that may fail, succeed, or report a success that changed nothing.       *)
(***************************************************************************)
EXTENDS Integers, FiniteSets

CONSTANTS
    Displays,       \* DisplayInfo::id, "gdi#target"
    Gdi,            \* the source of each
    Target,         \* the target id of each, without its adapter
    Values,         \* display modes, and scales
    Defaults,       \* what others set a display to that comes up: the cases considered
    NoScale,        \* GetDpiScalingPercent when its query fails: 100
    None,
    MaxOps,         \* bound on the operations and on what the user does
    MaxFaults       \* bound on the calls that fail or do nothing

Kinds == {"mode", "scale"}
Setting == [Kinds -> Values]
Sources == {Gdi[d] : d \in Displays}

ASSUME DisplaysAssumption ==
    /\ Displays # {} /\ IsFiniteSet(Displays)
    /\ DOMAIN Gdi = Displays /\ DOMAIN Target = Displays
    /\ \A d, e \in Displays : Gdi[d] = Gdi[e] /\ Target[d] = Target[e] => d = e
    /\ None \notin Displays \cup Values \cup Sources
    /\ NoScale \in Values /\ Defaults \subseteq Setting
    /\ MaxOps \in Nat /\ MaxFaults \in Nat

VARIABLES
    active,         \* the displays of the desktop
    primarySource,  \* the source flagged MONITORINFOF_PRIMARY
    setting,        \* mode and scale of each display
    staged,         \* what CDS_NORESET calls have left in the registry
    saved,          \* m_savedSettings; None for hasMode, hasScale = false
    phase,          \* where the operation is
    op,             \* the operation: [kind, d, v]
    listed,         \* the displays that its first enumeration called active
    todo,           \* the sources it still has to disable
    answer,         \* the last operation and its result
    before,         \* the displays and m_savedSettings when it began (history)
    was,            \* what each display was set to when an operation last began
                    \* with it on; None once others switch it off (history)
    clean,          \* no operation has found anything staged (history)
    lost,           \* displays whose last capture a failed query spoiled (history)
    restored,       \* whether ApplySavedSettings put everything back (history)
    ops, faults

systemVars == <<active, primarySource, setting, staged>>
requestVars == <<op, listed, todo>>
pastVars == <<before, was, clean, lost>>
histVars == <<answer, pastVars, restored>>
switchVars == <<systemVars, saved, phase, requestVars, histVars, ops, faults>>

Now == [active |-> active, primary |-> primarySource, setting |-> setting,
        staged |-> staged, saved |-> saved]
IsPrimary(d) == d \in active /\ Gdi[d] = primarySource
NothingStaged == [primary |-> None, off |-> {}, mode |-> [g \in Sources |-> None]]
NoneSaved == [k \in Kinds |-> None]

\* Displays of one source mirror each other: the mode and the scale are its own.
Desktops == SUBSET Displays \ {{}}
Mirrors(d) == {e \in active : Gdi[e] = Gdi[d]}

SwitchInit ==
    /\ active \in Desktops
    /\ primarySource \in {Gdi[d] : d \in active}
    /\ setting \in {[d \in Displays |-> s] : s \in Defaults}
    /\ staged = NothingStaged
    /\ saved = [d \in Displays |-> NoneSaved]
    /\ phase = "idle" /\ op = None /\ listed = {} /\ todo = {}
    /\ answer = None /\ before = None /\ restored = FALSE
    /\ was = [d \in Displays |-> None] /\ clean = TRUE /\ lost = {}
    /\ ops = 0 /\ faults = 0

\* Somebody else does something.
SomeoneActs ==
    /\ phase = "idle"
    /\ ops < MaxOps /\ ops' = ops + 1
    /\ answer' = None /\ before' = None
    /\ UNCHANGED <<saved, phase, requestVars, clean, lost, restored, faults>>

Fails == faults < MaxFaults /\ faults' = faults + 1

\* SetDisplayConfig puts display lit alone on the desktop and, saving that to the
\* database, ends what is staged.  What goes off keeps its settings in the
\* registry, what comes up gets others.
BecomeActive(lit) ==
    LET S == {lit} IN
    /\ active' = S /\ primarySource' = Gdi[lit] /\ staged' = NothingStaged
    /\ setting' \in {[d \in Displays |-> IF d \in S \ active THEN s ELSE setting[d]] :
                        s \in Defaults}

Answer(result) ==
    /\ answer' = [op |-> op, result |-> result]
    /\ phase' = "idle" /\ op' = None /\ listed' = {} /\ todo' = {}

-----------------------------------------------------------------------------
(* SwitchPrimaryDisplay. *)

Begins(kind, d, v) ==
    /\ phase = "idle" /\ ops < MaxOps /\ ops' = ops + 1
    /\ op' = [kind |-> kind, d |-> d, v |-> v]
    /\ before' = Now
    /\ was' = [e \in Displays |-> IF e \in active THEN setting[e] ELSE was[e]]
    /\ clean' = (clean /\ staged = NothingStaged)
    /\ answer' = None /\ restored' = FALSE
    /\ phase' = kind
    /\ UNCHANGED <<systemVars, saved, listed, todo, lost, faults>>

\* Variant: the settings are captured before the display is found to be primary.
SwitchRefusedLate ==
    /\ phase = "switch" /\ IsPrimary(op.d)
    /\ saved' = [e \in Displays |-> IF e \in active THEN setting[e] ELSE saved[e]]
    /\ Answer("refused")
    /\ UNCHANGED <<systemVars, pastVars, restored, ops, faults>>

\* not_found, when the enumeration fails; already_primary.
SwitchRefused ==
    /\ phase = "switch"
    /\ \/ Fails
       \/ IsPrimary(op.d) /\ UNCHANGED faults
    /\ Answer("refused")
    /\ UNCHANGED <<systemVars, saved, pastVars, restored, ops>>

\* What EnumerateDisplays says of the displays: of those it does not call active
\* nothing is captured.
Unlisted == [on |-> FALSE, primary |-> FALSE, set |-> NoneSaved]
Sight ==
    [e \in Displays |->
        IF e \in active
        THEN [on |-> TRUE, primary |-> Gdi[e] = primarySource, set |-> setting[e]]
        ELSE Unlisted]

\* The path of display pair[1] is skipped, and its target listed with another
\* source, as display pair[2] with whatever settings.
Mistakable == {pair \in active \X (Displays \ active) : Target[pair[1]] = Target[pair[2]]}
Guesses == {s \in [Kinds -> Values \cup {None}] : s["scale"] # None}
Mistaken(pair, s) ==
    [Sight EXCEPT ![pair[1]] = Unlisted,
                  ![pair[2]] = [on |-> TRUE, primary |-> Gdi[pair[2]] = primarySource, set |-> s]]

\* Without its current mode a display is not primary, and has the registry's mode
\* or none.
FromRegistry(e, m) == [Sight EXCEPT ![e].primary = FALSE, ![e].set["mode"] = m]

\* What one failed query makes of it: no display is active
\* (QDC_ONLY_ACTIVE_PATHS); one is missing or taken for another (its source's
\* name; where op.d itself is missing the operation is refused); one has no current
\* mode (ENUM_CURRENT_SETTINGS), or the scale of the failure.
Blurred ==
    {[e \in Displays |-> Unlisted]}
    \cup {[Sight EXCEPT ![e] = Unlisted] : e \in active \ {op.d}}
    \cup {Mistaken(pair, s) : pair \in {q \in Mistakable : q[1] # op.d}, s \in Guesses}
    \cup {FromRegistry(e, m) : e \in active, m \in Values \cup {None}}
    \cup {[Sight EXCEPT ![e].set["scale"] = NoScale] : e \in active}

\* Variant: only the display that is being switched to is captured.
CaptureTarget(sight) ==
    [e \in Displays |-> IF sight[e].on /\ e = op.d THEN sight[e].set ELSE saved[e]]

\* CaptureCurrentSettings of every display it calls active.
Capture(sight) ==
    [e \in Displays |-> IF sight[e].on THEN sight[e].set ELSE saved[e]]

\* No answer after this is a refusal: what was before is no longer needed.
SwitchGoesOn ==
    /\ phase = "switch"
    /\ \E sight \in {Sight} \cup Blurred :
        /\ ~sight[op.d].primary
        /\ IF sight = Sight THEN UNCHANGED faults ELSE Fails
        /\ saved' = Capture(sight)
        /\ listed' = {e \in Displays : sight[e].on}
        /\ lost' = (lost \ active) \cup {e \in Displays : sight[e].set # Sight[e].set}
    /\ before' = None
    /\ phase' = "activate"
    /\ UNCHANGED <<systemVars, op, todo, answer, was, clean, restored, ops>>

\* Method 1, ActivateTargetExclusive: of the paths to a target with this id,
\* from the database or from all paths, one whose source has the right name,
\* else any.  SetDisplayConfig may also report a success that changed nothing.
Activate ==
    /\ phase = "activate"
    /\ \/ /\ \E e \in Displays :
               /\ Target[e] = Target[op.d]
               /\ e # op.d => faults < MaxFaults
               /\ faults' = IF e = op.d THEN faults ELSE faults + 1
               /\ BecomeActive(e)
          /\ phase' = "verify1"
       \/ Fails /\ phase' = "verify1" /\ UNCHANGED systemVars
       \/ Fails /\ phase' = "topology" /\ UNCHANGED systemVars
    /\ UNCHANGED <<saved, requestVars, answer, pastVars, restored, ops>>

\* Variant: the call's success is believed.
TargetActiveUnchecked(d) == TRUE

\* VerifyTargetActive compares the target id alone.
TargetActive(d) == \E e \in active : Target[e] = Target[d]

\* An enumeration in VerifyTargetActive may fail, at every attempt.
Verify(here, next) ==
    /\ phase = here
    /\ \/ TargetActive(op.d) /\ phase' = "restoreMode" /\ UNCHANGED faults
       \/ ~TargetActive(op.d) /\ phase' = next /\ UNCHANGED faults
       \/ Fails /\ phase' = next
    /\ UNCHANGED <<systemVars, saved, requestVars, histVars, ops>>

\* Method 2, for a display that was not active: the topology of its class,
\* whichever display that activates.
SetTopology ==
    /\ phase = "topology" /\ op.d \notin listed
    /\ \/ \E e \in Displays : BecomeActive(e) /\ phase' = "verify2" /\ UNCHANGED faults
       \/ Fails /\ phase' = "verify2" /\ UNCHANGED systemVars
       \/ Fails /\ phase' = "stage" /\ UNCHANGED systemVars
    /\ UNCHANGED <<saved, requestVars, answer, pastVars, restored, ops>>

SkipTopology ==
    /\ phase = "topology" /\ op.d \in listed
    /\ phase' = "stage"
    /\ UNCHANGED <<systemVars, saved, requestVars, histVars, ops, faults>>

\* Method 3: the target's source is staged as the primary one, ...
StagePrimary ==
    /\ phase = "stage"
    /\ staged' = [staged EXCEPT !.primary = Gdi[op.d], !.off = @ \ {Gdi[op.d]}]
    /\ todo' = {Gdi[e] : e \in listed} \ {Gdi[op.d]}
    /\ phase' = "disable"
    /\ UNCHANGED <<active, primarySource, setting, saved, op, listed, histVars, ops, faults>>

\* ... the others that the first enumeration called active (it lists the active
\* display of a source before the others) are staged as off, ignoring failures, ...
StageOff(g) ==
    /\ phase = "disable" /\ g \in todo
    /\ todo' = todo \ {g}
    /\ \/ staged' = [staged EXCEPT !.off = @ \cup {g}] /\ UNCHANGED faults
       \/ Fails /\ UNCHANGED staged
    /\ UNCHANGED <<active, primarySource, setting, saved, phase, op, listed, histVars, ops>>

\* The displays that the staged calls leave: a source staged as the primary one
\* keeps its display or, if it has none, gets one of its own.
AfterStaged ==
    LET kept == {d \in active : Gdi[d] \notin staged.off}
        lit  == {d \in Displays : Gdi[d] = staged.primary}
    IN  IF lit = {} \/ lit \cap kept # {} THEN {kept} ELSE {kept \cup {d} : d \in lit}

\* The call with no device applies everything that is staged, by whomever.
ApplyStaged ==
    \E S \in AfterStaged :
        /\ active' = S
        /\ primarySource' = IF staged.primary = None THEN primarySource ELSE staged.primary
        /\ \E s \in Defaults :
             setting' = [d \in Displays |->
                LET now == IF d \in active' \ active THEN s ELSE setting[d]
                IN  IF d \in active' /\ staged.mode[Gdi[d]] # None
                    THEN [now EXCEPT !["mode"] = staged.mode[Gdi[d]]] ELSE now]
        /\ staged' = NothingStaged

\* ... and the registry is applied.
ApplySwitch ==
    /\ phase = "disable" /\ todo = {}
    /\ ApplyStaged
    /\ phase' = "verify3"
    /\ UNCHANGED <<saved, requestVars, answer, pastVars, restored, ops, faults>>

\* api_failed: the staging or the application fails, or the last verification.
SwitchFails ==
    /\ phase \in {"stage", "disable", "verify3"} /\ (phase = "disable" => todo = {})
    /\ \/ Fails
       \/ phase = "verify3" /\ ~TargetActive(op.d) /\ UNCHANGED faults
    /\ Answer("api_failed")
    /\ UNCHANGED <<systemVars, saved, pastVars, restored, ops>>

SwitchVerified ==
    /\ phase = "verify3" /\ TargetActive(op.d)
    /\ phase' = "restoreMode"
    /\ UNCHANGED <<systemVars, saved, requestVars, histVars, ops, faults>>

-----------------------------------------------------------------------------
(* SetDisplayMode: for a client, and in ApplySavedSettings. *)

ModeWanted == IF op.kind = "switch" THEN saved[op.d]["mode"] ELSE op.v

\* After the mode: the answer, or the rest of ApplySavedSettings.
ModeEnds(ok) ==
    IF op.kind = "switch"
    THEN /\ phase' = "restoreScale" /\ restored' = ok
         /\ UNCHANGED <<saved, requestVars, answer>>
    ELSE /\ Answer(IF ok THEN "ok" ELSE "api_failed")
         /\ saved' = IF ok THEN [saved EXCEPT ![op.d]["mode"] = op.v] ELSE saved
         /\ UNCHANGED restored

\* No mode is saved for the display.
NoModeSaved ==
    /\ phase = "restoreMode" /\ saved[op.d]["mode"] = None
    /\ phase' = "restoreScale" /\ restored' = TRUE
    /\ UNCHANGED <<systemVars, saved, requestVars, answer, pastVars, ops, faults>>

\* not_found, not_active, mode_not_found: also when an enumeration fails.
ModeRefused ==
    /\ phase \in {"mode", "restoreMode"} /\ ModeWanted # None
    /\ \/ Fails
       \/ op.d \notin active /\ UNCHANGED faults
    /\ IF op.kind = "switch" THEN ModeEnds(FALSE)
       ELSE Answer("refused") /\ UNCHANGED <<saved, restored>>
    /\ UNCHANGED <<systemVars, pastVars, ops>>

\* The mode is staged; a failure here leaves nothing behind ...
ModeStaged ==
    /\ phase \in {"mode", "restoreMode"} /\ ModeWanted # None /\ op.d \in active
    /\ staged' = [staged EXCEPT !.mode[Gdi[op.d]] = ModeWanted]
    /\ before' = None
    /\ phase' = "apply"
    /\ UNCHANGED <<active, primarySource, setting, saved, requestVars, answer, was, clean,
                   lost, restored, ops, faults>>

\* Variant: the staged mode is never applied.
ModeAppliedNot ==
    /\ phase = "apply"
    /\ ModeEnds(TRUE)
    /\ UNCHANGED <<systemVars, pastVars, ops, faults>>

\* ... and applied.
ModeApplied ==
    /\ phase = "apply"
    /\ ApplyStaged
    /\ ModeEnds(TRUE)
    /\ UNCHANGED <<pastVars, ops, faults>>

\* One of the two calls fails; the second leaves the mode staged.
ModeFails ==
    /\ phase \in {"mode", "restoreMode", "apply"} /\ ModeWanted # None
    /\ phase # "apply" => op.d \in active
    /\ Fails
    /\ ModeEnds(FALSE)
    /\ UNCHANGED <<systemVars, pastVars, ops>>

-----------------------------------------------------------------------------
(* SetDisplayScale: for a client, and at the end of ApplySavedSettings. *)

ScaleWanted == IF op.kind = "switch" THEN saved[op.d]["scale"] ELSE op.v

NoScaleSaved ==
    /\ phase = "restoreScale" /\ ScaleWanted = None
    /\ Answer("ok")
    /\ UNCHANGED <<systemVars, saved, pastVars, restored, ops, faults>>

\* Found, active, and the call succeeds.
ScaleSet ==
    /\ phase \in {"scale", "restoreScale"} /\ ScaleWanted # None /\ op.d \in active
    /\ setting' = [e \in Displays |->
          IF e \in Mirrors(op.d) THEN [setting[e] EXCEPT !["scale"] = ScaleWanted] ELSE setting[e]]
    /\ saved' = [saved EXCEPT ![op.d]["scale"] = ScaleWanted]
    /\ Answer("ok")
    /\ UNCHANGED <<active, primarySource, staged, pastVars, restored, ops, faults>>

\* Not active, or a call fails: the switch ignores it.
ScaleFails ==
    /\ phase \in {"scale", "restoreScale"} /\ ScaleWanted # None
    /\ Fails \/ (op.d \notin active /\ UNCHANGED faults)
    /\ restored' = FALSE
    /\ Answer(IF op.kind = "switch" THEN "ok" ELSE "refused")
    /\ UNCHANGED <<systemVars, saved, pastVars, ops>>

-----------------------------------------------------------------------------
(* The user, between operations, changes a setting of an active display ... *)

SomeoneSets(d, k, v) ==
    /\ SomeoneActs
    /\ d \in active /\ setting[d][k] # v
    /\ setting' = [e \in Displays |->
          IF e \in Mirrors(d) THEN [setting[e] EXCEPT ![k] = v] ELSE setting[e]]
    /\ UNCHANGED <<active, primarySource, staged, was>>

\* ... or which displays are on, by Win+P, the Windows settings or a plug; what is
\* staged may survive that.
SomeoneSwitches(S) ==
    /\ SomeoneActs
    /\ S # active /\ active' = S
    /\ primarySource' \in {Gdi[d] : d \in S}
    /\ \E s \in Defaults :
         setting' = [d \in Displays |->
            IF d \in S /\ \E e \in S \ active : Gdi[e] = Gdi[d] THEN s ELSE setting[d]]
    /\ staged' \in {staged, NothingStaged}
    /\ was' = [d \in Displays |-> IF d \in active \ S THEN None ELSE was[d]]

SwitchNext ==
    \/ \E d \in Displays : Begins("switch", d, None)
    \/ \E d \in Displays, v \in Values : Begins("mode", d, v) \/ Begins("scale", d, v)
    \/ \E d \in Displays, k \in Kinds, v \in Values : SomeoneSets(d, k, v)
    \/ \E S \in Desktops : SomeoneSwitches(S)
    \/ SwitchRefused \/ SwitchGoesOn \/ Activate
    \/ Verify("verify1", "topology") \/ SetTopology \/ SkipTopology
    \/ Verify("verify2", "stage") \/ StagePrimary
    \/ (\E g \in Sources : StageOff(g)) \/ ApplySwitch
    \/ SwitchFails \/ SwitchVerified
    \/ NoModeSaved \/ ModeRefused \/ ModeStaged \/ ModeApplied \/ ModeFails
    \/ NoScaleSaved \/ ScaleSet \/ ScaleFails

SwitchSpec == SwitchInit /\ [][SwitchNext]_switchVars

-----------------------------------------------------------------------------
Answered(kind, result) ==
    phase = "idle" /\ answer # None /\ answer.op.kind = kind /\ answer.result = result

\* "绝不给客户端假的 ok:true" (never a false ok), as far as it goes: whichever of
\* the three methods it took, when a switch has answered ok a target with the
\* id asked for is on the desktop, unless a failed switch has left something
\* staged, which the restored mode then applies.
OkIsActive ==
    (Answered("switch", "ok") /\ clean) =>
       \E e \in active : Target[e] = Target[answer.op.d]

\* A refusal, by whichever check, is one before anything was touched: the
\* displays and what is remembered of them are as they were.
RefusedUntouched ==
    \A kind \in {"switch", "mode", "scale"} :
       Answered(kind, "refused") => before = Now

\* "切走时捕获当前生效设置；切回该显示器时自动恢复" (DisplayModule.hpp): a display that
\* is switched to has the settings it had when the module last began an operation
\* with it on, whatever was set in between, whoever has switched it on since and
\* whatever Windows chose for it.  This asks that the module, not somebody else,
\* has switched it off; that no query failed in its last capture; that the
\* restoring calls worked; and that no failed switch has left anything staged.
ComesBack ==
    LET d == answer.op.d
    IN  (Answered("switch", "ok") /\ restored /\ clean /\ d \notin lost /\ was[d] # None)
            => setting[d] = was[d]

\* "立即生效" (DisplayModule.hpp, on the mode): when ok is answered, the display
\* that was asked for is on and has the mode, unless a failed switch has left
\* something staged, which is applied with it.
ModeTakesEffect ==
    (Answered("mode", "ok") /\ clean) =>
       /\ answer.op.d \in active
       /\ setting[answer.op.d]["mode"] = answer.op.v
=============================================================================
