----------------------------- MODULE ProcessProofs -----------------------------
(***************************************************************************)
(* The process: the invariants of its threads' start and stop (Lifecycle), *)
(* for every interleaving of the main thread with the six others; and what *)
(* the user counts on in its files (ProcessFiles), over every start, save, *)
(* edit, rotation and failure, for any limits, lengths and number of runs. *)
(***************************************************************************)
EXTENDS Lifecycle, ProcessFiles, TLAPS

\* The main thread's way out: the server thread has been joined.
AfterServer == {"stopAudio", "joinAudio", "stopDisplay", "joinDisplay", "stopCursor",
                "postQuit", "joinCursor", "shutdown", "exited"}
AfterAudio == AfterServer \ {"stopAudio", "joinAudio"}
AfterDisplay == AfterAudio \ {"stopDisplay", "joinDisplay"}
AfterCursor == {"shutdown", "exited"}

Places == {"none", "new", "top", "work", "wait", "install", "check", "get", "unhook",
           "done"}

\* What the proof needs of the types.
Shapes ==
    /\ thread \in [Threads -> Places]
    /\ exit \in [Modules -> BOOLEAN]
    /\ engine \in BOOLEAN /\ hooks \in BOOLEAN

\* A thread that has been joined stays ended, and no module is told to end
\* before the server thread has been joined.
JoinedStayEnded ==
    /\ main \notin AfterServer => \A m \in Modules : ~exit[m]
    /\ main \in AfterServer => thread["server"] = "done"
    /\ main \in AfterAudio => Ended("audio")
    /\ main \in AfterDisplay => Ended("display")
    /\ main \in AfterCursor => \A t \in CursorThreads : Ended(t)

\* The engine is there from before the first thread of the cursor module starts
\* until after the last one has been joined; the hooks while their thread is
\* between installing and removing them.
EngineThere ==
    /\ main = "startCursor" => \A t \in Threads : thread[t] = "none"
    /\ engine \/ main \in {"startCursor"} \cup AfterCursor

HooksOwned == hooks => thread["hook"] \in {"check", "get", "unhook"}

StopInv == Shapes /\ JoinedStayEnded /\ EngineThere /\ HooksOwned

USE DEF Threads, Modules, Monitors, CursorThreads, Ended, Places

LEMMA InitStops == Init => StopInv
  BY DEF Init, StopInv, Shapes, JoinedStayEnded, EngineThere, HooksOwned,
         AfterServer, AfterAudio, AfterDisplay, AfterCursor

\* The main thread's steps, each in its own phase.
LEMMA MainPreserves ==
  ASSUME StopInv, Starting \/ WindowEvent \/ Stopping
  PROVE  StopInv'
<1> USE DEF StopInv, Shapes, JoinedStayEnded, EngineThere, HooksOwned,
            AfterServer, AfterAudio, AfterDisplay, AfterCursor, Goes, At,
            flagVars, modVars, hookVars, ModuleOf
<1>1. CASE StartCursor  BY <1>1 DEF StartCursor
<1>2. CASE AwaitHooks   BY <1>2 DEF AwaitHooks
<1>3. CASE StartDisplay BY <1>3 DEF StartDisplay
<1>4. CASE StartAudio   BY <1>4 DEF StartAudio
<1>5. CASE CreateTray   BY <1>5 DEF CreateTray
<1>6. CASE SpawnServer  BY <1>6 DEF SpawnServer
<1>7. CASE WindowEvent
  <2>1. CASE DisplayChanged BY <2>1 DEF DisplayChanged
  <2>2. CASE EndSession     BY <2>2 DEF EndSession, OnExit
  <2>3. CASE WindowCloses   BY <2>3 DEF WindowCloses, OnExit
  <2>4. CASE LoopBreaks     BY <2>4 DEF LoopBreaks
  <2> QED BY <1>7, <2>1, <2>2, <2>3, <2>4 DEF WindowEvent
<1>8. CASE RequestStop  BY <1>8 DEF RequestStop
<1>9. CASE JoinServer   BY <1>9 DEF JoinServer
<1>10. CASE StopMonitor("audio", "stopAudio", "joinAudio")
  BY <1>10 DEF StopMonitor
<1>11. CASE JoinMonitor("audio", "joinAudio", "stopDisplay")
  BY <1>11 DEF JoinMonitor
<1>12. CASE StopMonitor("display", "stopDisplay", "joinDisplay")
  BY <1>12 DEF StopMonitor
<1>13. CASE JoinMonitor("display", "joinDisplay", "stopCursor")
  BY <1>13 DEF JoinMonitor
<1>14. CASE StopCursor  BY <1>14 DEF StopCursor, RaiseExit, PostQuitMessage
<1>15. CASE JoinCursor  BY <1>15 DEF JoinCursor
<1>16. CASE Shutdown    BY <1>16 DEF Shutdown
<1> QED
  BY <1>1, <1>2, <1>3, <1>4, <1>5, <1>6, <1>7, <1>8, <1>9, <1>10, <1>11, <1>12,
     <1>13, <1>14, <1>15, <1>16 DEF Starting, Stopping

\* The other threads' steps: none of them leaves "none" or "done".
LEMMA ThreadPreserves ==
  ASSUME StopInv,
         Server \/ RunRound \/ (\E t \in Looping : Loop(t)) \/ Hook \/ HookInput
  PROVE  StopInv'
<1> USE DEF StopInv, Shapes, JoinedStayEnded, EngineThere, HooksOwned,
            AfterServer, AfterAudio, AfterDisplay, AfterCursor, At,
            flagVars, modVars, hookVars
<1>1. CASE RunStarts BY <1>1 DEF RunStarts
<1>2. CASE RunRound  BY <1>2 DEF RunRound
<1>3. CASE RunEnds   BY <1>3 DEF RunEnds
<1>4. ASSUME NEW t \in Looping, Loop(t)
      PROVE  StopInv'
  <2> USE DEF Looping
  <2>1. CASE LoopStarts(t) BY <2>1 DEF LoopStarts
  <2>2. CASE LoopGoesOn(t) BY <2>2 DEF LoopGoesOn
  <2>3. CASE LoopEnds(t)   BY <2>3 DEF LoopEnds
  <2>4. CASE Work(t)       BY <2>4 DEF Work
  <2>5. CASE MonitorWakes(t) BY <2>5 DEF MonitorWakes
  <2>6. CASE CursorWakes(t)  BY <2>6 DEF CursorWakes
  <2> QED BY <1>4, <2>1, <2>2, <2>3, <2>4, <2>5, <2>6 DEF Loop
<1>5. CASE HookStarts   BY <1>5 DEF HookStarts
<1>6. CASE HookInstalls BY <1>6 DEF HookInstalls
<1>7. CASE HookChecks   BY <1>7 DEF HookChecks
<1>8. CASE HookInput    BY <1>8 DEF HookInput
<1>9. CASE HookQuits    BY <1>9 DEF HookQuits
<1>10. CASE HookEnds    BY <1>10 DEF HookEnds
<1> QED
  BY <1>1, <1>2, <1>3, <1>4, <1>5, <1>6, <1>7, <1>8, <1>9, <1>10 DEF Server, Hook

LEMMA StopInvHolds == Spec => []StopInv
<1>1. StopInv /\ [Next]_vars => StopInv'
  <2>1. CASE Next BY <2>1, MainPreserves, ThreadPreserves DEF Next
  <2>2. CASE UNCHANGED vars
    BY <2>2 DEF vars, flagVars, modVars, hookVars, StopInv, Shapes, JoinedStayEnded,
                EngineThere, HooksOwned
  <2> QED BY <2>1, <2>2
<1> QED BY <1>1, InitStops, PTL DEF Spec

\* The cursor's worker and text threads only work on an engine that exists
\* (CursorModule::Stop joins them before m_engine goes).
THEOREM EngineSafe == Spec => []EngineOutlivesThreads
<1>1. StopInv => EngineOutlivesThreads
  BY DEF StopInv, Shapes, JoinedStayEnded, EngineThere, EngineOutlivesThreads, AfterCursor
<1> QED BY <1>1, StopInvHolds, PTL

\* While the server thread can call a module, none has been told to stop (main
\* joins it before StopModules).
THEOREM ModulesSafe == Spec => []ModulesOutliveServer
<1>1. StopInv => ModulesOutliveServer
  BY DEF StopInv, Shapes, JoinedStayEnded, ModulesOutliveServer
<1> QED BY <1>1, StopInvHolds, PTL

\* When main returns, every thread has ended and the hooks are gone.
THEOREM NothingRuns == Spec => []NothingLeft
<1>1. StopInv => NothingLeft
  BY DEF StopInv, Shapes, JoinedStayEnded, HooksOwned, NothingLeft, AfterServer,
         AfterAudio, AfterDisplay, AfterCursor
<1> QED BY <1>1, StopInvHolds, PTL

-----------------------------------------------------------------------------
(* The ini file. *)

IniFiles == [limit : Limits \cup {DefaultMax, NoLimit}, token : Tokens]

\* The defaults hold where there is no file.
NoFileNoSetting == file = Missing => wanted = DefaultMax /\ copied = NoToken

\* Save: it is only reached for a new token, so no token that somebody copied is
\* lost, unless the file could not be read; from its opening to its end the
\* user counts on what main has in memory.
Saving ==
    /\ pc = "load" => ~unread
    /\ pc = "save" /\ ~unread =>
           /\ copied = NoToken /\ wanted = cfg.limit
           /\ file = Missing \/ file.token = NoToken
    /\ pc = "save" /\ unread => cfg.limit = DefaultMax
    /\ pc = "write" => file = Empty /\ copied = NoToken /\ wanted = cfg.limit

\* A run that could read its file, or made it, has the token of the file.
RunKnowsToken ==
    (pc \in {"init", "run"} /\ ~unread /\ file # Missing /\ file.token # NoToken)
        => cfg.token = file.token

FilesInv == TypeOK /\ NoFileNoSetting /\ Saving /\ RunKnowsToken /\ UserSettingsKept

LEMMA Basics ==
  /\ MaxTokens \in Nat /\ NoToken \in Tokens
  /\ Limits \subseteq Nat /\ DefaultMax \in Nat /\ NoLimit \notin Nat
<1>1. MaxTokens \in {MaxTokens, MaxRuns, MaxEdits, MaxLines, MaxFaults}
  OBVIOUS
<1>2. MaxTokens \in Nat
  BY <1>1, FilesAssumption
<1>3. NoToken \in Tokens
  BY <1>2 DEF NoToken, Tokens
<1>4. Limits \subseteq Nat /\ DefaultMax \in Nat \ {0} /\ NoLimit \notin Nat
  BY FilesAssumption
<1> QED BY <1>2, <1>3, <1>4

LEMMA ParsedType ==
  ASSUME NEW f \in IniFiles
  PROVE  /\ Parsed(f) \in [limit : Limits \cup {DefaultMax}, token : Tokens]
         /\ Parsed(f).token = f.token
         /\ f.limit \in Nat => Parsed(f).limit = f.limit
  BY Basics DEF IniFiles, Parsed

LEMMA FileThere ==
  ASSUME NEW f \in IniFiles
  PROVE  f # Missing
<1>1. f.limit \in Nat \cup {NoLimit} /\ f.token \in Nat
  <2>1. f.limit \in Limits \cup {DefaultMax, NoLimit} /\ f.token \in 0..MaxTokens
    BY DEF IniFiles, Tokens
  <2>2. f.limit \in Nat \cup {NoLimit}
    BY <2>1, Basics
  <2>3. f.token \in Nat
    BY <2>1, Basics
  <2> QED BY <2>2, <2>3
<1>2. f = [limit |-> f.limit, token |-> f.token]
  BY DEF IniFiles
<1>3. f \in [limit : Nat \cup {NoLimit}, token : Nat]
  BY <1>1, <1>2
<1> QED BY <1>3, FilesAssumption

RotationPlaces == [Instances -> {"idle", "delete", "move", "reopen"}]

LEMMA PlaceTypes ==
  ASSUME at \in RotationPlaces, NEW p \in Instances
  PROVE  /\ Free(p) => at' \in RotationPlaces
         /\ \A n : Closes(p, n) => at' \in RotationPlaces
         /\ \A fails : at[p] # "reopen" /\ at[p] # "idle" /\ Passes(p, fails)
                       => at' \in RotationPlaces
  BY DEF RotationPlaces, Free, Closes, Passes, After

LEMMA InitFiles == FilesInit => FilesInv
<1>1. 0 \in Tokens
  BY FilesAssumption DEF Tokens
<1> SUFFICES ASSUME FilesInit PROVE FilesInv
  OBVIOUS
<1>2. TypeOK
  BY <1>1, FilesAssumption DEF FilesInit, TypeOK, Default, NoToken
<1>3. NoFileNoSetting /\ Saving /\ RunKnowsToken /\ UserSettingsKept
  BY DEF FilesInit, NoFileNoSetting, Saving, RunKnowsToken, UserSettingsKept
<1> QED BY <1>2, <1>3 DEF FilesInv

\* The user and other programs.
LEMMA EditsKeep ==
  ASSUME FilesInv,
         CopyToken \/ SetLimit \/ DeleteToken \/ DeleteFile \/ HoldFile \/ ReleaseFile
  PROVE  FilesInv'
<1> USE DEF FilesInv, TypeOK, NoFileNoSetting, Saving, RunKnowsToken,
        UserSettingsKept, Editing, iniVars, mainVars, logVars, rotVars, histVars
<1>1. CASE CopyToken BY <1>1 DEF CopyToken
<1>2. ASSUME NEW f \in IniFiles, NEW w \in Limits \cup {DefaultMax}, Edit(f, w),
             f.token \in {file.token, NoToken}, Parsed(f).limit = w
      PROVE  FilesInv'
  <2>1. f # Missing
    BY FileThere
  <2>2. NoToken \in Tokens
    BY Basics
  <2>3. /\ file' = f /\ wanted' = w /\ pc \in {"off", "run"} /\ file # Missing
        /\ copied' = IF f.token = NoToken THEN NoToken ELSE copied
        /\ UNCHANGED <<locked, pc, cfg, unread, open, bad, m_maxBytes, at, tokens>>
    BY <1>2, <2>1 DEF Edit
  <2>4. TypeOK'
    BY <2>2, <2>3 DEF IniFiles
  <2>5. NoFileNoSetting' /\ Saving' /\ RunKnowsToken'
    BY <1>2, <2>1, <2>3
  <2>6. UserSettingsKept'
    BY <1>2, <2>1, <2>3 DEF Parsed
  <2> QED BY <2>4, <2>5, <2>6
<1>3. CASE SetLimit
  <2> PICK l \in Limits : Edit([file EXCEPT !.limit = l], l)
    BY <1>3 DEF SetLimit
  <2> DEFINE f == [file EXCEPT !.limit = l]
  <2>1. f \in IniFiles /\ f.token = file.token /\ f.limit = l
    BY DEF Edit, IniFiles
  <2>2. Parsed(f).limit = l
    BY <2>1, ParsedType, FilesAssumption
  <2> QED BY <1>2, <2>1, <2>2
<1>4. CASE DeleteToken
  <2> DEFINE f == [file EXCEPT !.token = NoToken]
  <2>1. f \in IniFiles /\ f.token = NoToken /\ f.limit = file.limit
    BY <1>4, Basics DEF DeleteToken, Edit, IniFiles
  <2>2. Parsed(f).limit = wanted
    BY <1>4, <2>1 DEF DeleteToken, Edit, Parsed
  <2> QED BY <1>2, <1>4, <2>1, <2>2 DEF DeleteToken
<1>5. CASE DeleteFile
  <2>1. NoToken \in Tokens
    BY Basics
  <2> QED BY <1>5, <2>1 DEF DeleteFile, Edit
<1>6. CASE HoldFile BY <1>6 DEF HoldFile
<1>7. CASE ReleaseFile
  <2>1. locked' = FALSE /\ UNCHANGED <<file, pc, cfg, unread, open, bad, m_maxBytes, at,
                                       copied, wanted, tokens>>
    BY <1>7 DEF ReleaseFile
  <2>2. TypeOK'
    BY <2>1
  <2>3. NoFileNoSetting' /\ Saving' /\ RunKnowsToken' /\ UserSettingsKept'
    BY <2>1
  <2> QED BY <2>2, <2>3
<1> QED BY <1>1, <1>3, <1>4, <1>5, <1>6, <1>7

\* main from its start to its end.
LEMMA RunKeeps ==
  ASSUME FilesInv,
         \/ Start \/ FirstRun \/ LoadWhole \/ LoadWithoutToken
         \/ SaveRefused \/ SaveOpens \/ SaveWrites \/ SaveLost \/ LoggerInit \/ Stop
  PROVE  FilesInv'
<1> USE DEF FilesInv, TypeOK, NoFileNoSetting, Saving, RunKnowsToken,
        UserSettingsKept, Readable, MainAt, iniVars, mainVars, logVars, rotVars, histVars
<1>0. /\ NoToken \in Tokens /\ Default \in [limit : Limits \cup {DefaultMax}, token : Tokens]
      /\ Empty \in IniFiles /\ Empty.token = NoToken /\ Parsed(Empty).limit = DefaultMax
      /\ Empty # Missing
  <2>1. Default \in [limit : Limits \cup {DefaultMax}, token : Tokens]
    BY Basics DEF Default
  <2>2. Empty \in IniFiles
    BY Basics DEF Empty, IniFiles
  <2> QED BY <2>1, <2>2, Basics, FileThere DEF Empty, Parsed
<1>1. CASE Start BY <1>0, <1>1 DEF Start
<1>2. ASSUME NEW c \in [limit : Limits \cup {DefaultMax}, token : Tokens],
             GenerateToken(c)
      PROVE  /\ cfg' \in [limit : Limits \cup {DefaultMax}, token : Tokens]
             /\ cfg'.limit = c.limit /\ tokens' \in Tokens /\ pc' = "save"
  <2>1. tokens + 1 \in Tokens
    BY <1>2, Basics DEF GenerateToken, Tokens
  <2> QED BY <1>2, <2>1 DEF GenerateToken
<1>3. CASE FirstRun
  <2>1. Default.limit = DefaultMax
    BY DEF Default
  <2>2. GenerateToken(Default)
    BY <1>3 DEF FirstRun
  <2> QED BY <1>0, <1>2, <1>3, <2>1, <2>2 DEF FirstRun
<1>4. CASE LoadWhole
  <2>1. file \in IniFiles
    BY <1>4 DEF LoadWhole, IniFiles
  <2> QED BY <1>4, <2>1, ParsedType DEF LoadWhole
<1>5. CASE LoadWithoutToken
  <2>1. file \in IniFiles
    BY <1>5 DEF LoadWithoutToken, IniFiles
  <2>2. GenerateToken(Parsed(file)) /\ pc = "load" /\ file # Missing
    BY <1>5 DEF LoadWithoutToken
  <2>3. copied = NoToken /\ wanted = Parsed(file).limit
    BY <1>5, <2>1, ParsedType DEF LoadWithoutToken
  <2>4. /\ cfg' \in [limit : Limits \cup {DefaultMax}, token : Tokens]
        /\ cfg'.limit = Parsed(file).limit /\ tokens' \in Tokens /\ pc' = "save"
    BY <1>2, <2>1, <2>2, ParsedType
  <2>5. UNCHANGED <<file, locked, unread, open, bad, m_maxBytes, at, copied, wanted>>
    BY <1>5 DEF LoadWithoutToken
  <2>6. TypeOK' /\ NoFileNoSetting' /\ RunKnowsToken'
    BY <2>4, <2>5
  <2>7. Saving'
    <3>1. ~unread' /\ copied' = NoToken /\ wanted' = cfg'.limit
      BY <2>2, <2>3, <2>4, <2>5
    <3>2. file'.token = NoToken
      BY <1>5, <2>1, <2>5, ParsedType DEF LoadWithoutToken
    <3> QED BY <2>4, <3>1, <3>2
  <2>8. UserSettingsKept'
    BY <2>2, <2>3, <2>4, <2>5
  <2> QED BY <2>6, <2>7, <2>8
<1>6. CASE SaveRefused
  <2>1. file # Missing => file \in IniFiles
    BY DEF IniFiles
  <2>2. pc = "save" /\ pc' = "init"
        /\ UNCHANGED <<file, locked, cfg, unread, open, bad, m_maxBytes, at, copied, wanted,
                       tokens>>
    BY <1>6 DEF SaveRefused
  <2>3. TypeOK' /\ NoFileNoSetting' /\ Saving' /\ UserSettingsKept'
    BY <2>2
  <2> QED BY <2>2, <2>3
<1>7. CASE SaveOpens BY <1>0, <1>7 DEF SaveOpens, IniFiles
<1>8. CASE SaveWrites
  <2>0. cfg \in IniFiles /\ cfg.limit \in Nat
    BY FilesAssumption DEF IniFiles
  <2>1. cfg \in IniFiles /\ cfg # Missing /\ cfg.limit \in Nat
    BY <2>0, FileThere
  <2>2. Parsed(cfg).limit = cfg.limit
    BY <2>1, ParsedType
  <2> QED BY <1>8, <2>1, <2>2 DEF SaveWrites, IniFiles
<1>9. CASE SaveLost BY <1>0, <1>9 DEF SaveLost
<1>10. CASE LoggerInit BY <1>10 DEF LoggerInit
<1>11. CASE Stop
  <2>1. at' \in RotationPlaces
    BY <1>11, PlaceTypes DEF Stop, RotationPlaces, Instances
  <2>2. /\ pc' = "off" /\ open' = FALSE /\ UNCHANGED <<file, locked, cfg, unread, bad>>
        /\ UNCHANGED <<m_maxBytes, copied, tokens>>
        /\ wanted' = IF pc = "write" THEN DefaultMax ELSE wanted
    BY <1>11 DEF Stop
  <2>3. TypeOK'
    BY <2>1, <2>2 DEF RotationPlaces
  <2>4. NoFileNoSetting' /\ Saving' /\ RunKnowsToken' /\ UserSettingsKept'
    BY <1>0, <2>2
  <2> QED BY <2>3, <2>4
<1> QED
  BY <1>1, <1>3, <1>4, <1>5, <1>6, <1>7, <1>8, <1>9, <1>10, <1>11

\* The steps of the two instances' loggers.
LogCalls == \E n \in Lengths :
                LogLine(n) \/ LogNotOpened(n) \/ LogCloses(n) \/ SecondLogs(n) \/ SecondCloses(n)
RotationSteps ==
    (\E p \in Instances : DeletesBackup(p) \/ MovesLog(p)) \/ LogReopens \/ SecondReopens

\* The logger does not touch the settings.
LEMMA LogKeeps ==
  ASSUME FilesInv, LogCalls \/ RotationSteps
  PROVE  FilesInv'
<1>1. UNCHANGED <<iniVars, mainVars, m_maxBytes, histVars, tokens>>
  <2>1. CASE LogCalls
    BY <2>1 DEF LogCalls, LogLine, LogNotOpened, LogCloses, SecondLogs, SecondCloses, Logs
  <2>2. CASE RotationSteps
    BY <2>2 DEF RotationSteps, DeletesBackup, MovesLog, Passes, LogReopens, SecondReopens
  <2> QED BY <2>1, <2>2
<1>2. open \in BOOLEAN /\ bad \in BOOLEAN /\ at \in RotationPlaces
  BY DEF FilesInv, TypeOK, RotationPlaces
<1>3. open' \in BOOLEAN /\ bad' \in BOOLEAN /\ at' \in RotationPlaces
  <2> USE DEF rotVars
  <2>1. ASSUME NEW n \in Lengths, LogLine(n)
        PROVE  open' \in BOOLEAN /\ bad' \in BOOLEAN /\ at' \in RotationPlaces
    BY <1>2, <2>1 DEF LogLine, Write
  <2>2. ASSUME NEW n \in Lengths, LogNotOpened(n)
        PROVE  open' \in BOOLEAN /\ bad' \in BOOLEAN /\ at' \in RotationPlaces
    BY <1>2, <2>2 DEF LogNotOpened
  <2>3. ASSUME NEW n \in Lengths, LogCloses(n) \/ SecondCloses(n)
        PROVE  open' \in BOOLEAN /\ bad' \in BOOLEAN /\ at' \in RotationPlaces
    BY <1>2, <2>3, PlaceTypes DEF LogCloses, SecondCloses, Instances
  <2>4. ASSUME NEW n \in Lengths, SecondLogs(n)
        PROVE  open' \in BOOLEAN /\ bad' \in BOOLEAN /\ at' \in RotationPlaces
    BY <1>2, <2>4 DEF SecondLogs, SecondWrites
  <2>5. ASSUME NEW p \in Instances, DeletesBackup(p) \/ MovesLog(p)
        PROVE  open' \in BOOLEAN /\ bad' \in BOOLEAN /\ at' \in RotationPlaces
    <3>1. PICK fails \in BOOLEAN : Passes(p, fails)
      BY <2>5 DEF DeletesBackup, MovesLog
    <3>2. at[p] = "delete" \/ at[p] = "move"
      BY <2>5 DEF DeletesBackup, MovesLog
    <3>3. at' \in RotationPlaces
      BY <1>2, <3>1, <3>2, PlaceTypes
    <3> QED BY <1>2, <3>1, <3>3 DEF Passes
  <2>6. CASE LogReopens
    <3>1. at' \in RotationPlaces
      BY <1>2, <2>6, PlaceTypes DEF LogReopens, Instances
    <3>2. open' \in BOOLEAN /\ bad' \in BOOLEAN
      BY <1>2, <2>6 DEF LogReopens, Write
    <3> QED BY <3>1, <3>2
  <2>7. CASE SecondReopens
    <3>1. at' \in RotationPlaces
      BY <1>2, <2>7, PlaceTypes DEF SecondReopens, Instances
    <3> QED BY <1>2, <2>7, <3>1 DEF SecondReopens, SecondWrites
  <2> QED BY <2>1, <2>2, <2>3, <2>4, <2>5, <2>6, <2>7 DEF LogCalls, RotationSteps
<1> QED
  BY <1>1, <1>3 DEF FilesInv, TypeOK, NoFileNoSetting, Saving, RunKnowsToken,
     UserSettingsKept, iniVars, mainVars, histVars, RotationPlaces

LEMMA FilesInvHolds == FilesSpec => []FilesInv
<1>1. FilesInv /\ [FilesNext]_filesVars => FilesInv'
  <2> SUFFICES ASSUME FilesInv, [FilesNext]_filesVars PROVE FilesInv'
    OBVIOUS
  <2>1. CASE UNCHANGED filesVars
    BY <2>1 DEF filesVars, FilesInv, TypeOK, NoFileNoSetting, Saving, RunKnowsToken,
       UserSettingsKept, iniVars, mainVars, logVars, rotVars, histVars
  <2> QED BY <2>1, EditsKeep, RunKeeps, LogKeeps DEF FilesNext, LogCalls, RotationSteps
<1> QED BY InitFiles, <1>1, PTL DEF FilesSpec

\* The ini file, main's settings and the logger's limit keep to their types.
THEOREM FilesTypes == FilesSpec => []TypeOK
<1>1. FilesInv => TypeOK
  BY DEF FilesInv
<1> QED BY FilesInvHolds, <1>1, PTL

\* The token a user copied and the limit a user set are those of the file and of
\* every run that could read it (Config::LoadOrCreate, Config::Save).
THEOREM SettingsKept == FilesSpec => []UserSettingsKept
<1>1. FilesInv => UserSettingsKept
  BY DEF FilesInv
<1> QED BY FilesInvHolds, <1>1, PTL

-----------------------------------------------------------------------------
(* The log. *)

LogFiles == [ids : SUBSET Nat, bytes : Nat]

Rotating(p) == at[p] # "idle"

LogTypes ==
    /\ log \in LogFiles /\ backup \in LogFiles
    /\ m_size \in Nat /\ foreign \in Nat /\ lines \in Nat
    /\ at \in RotationPlaces
    /\ incoming \in [Instances -> Nat] /\ kept \in [Instances -> SUBSET Nat]
    /\ alone \in [Instances -> BOOLEAN] /\ smooth \in BOOLEAN

\* The open stream counts every byte but those of other instances.
StreamCounts == open => at["first"] = "idle" /\ log.bytes <= m_size + foreign

\* Once the first instance's rotation has tried to delete the backup and that has
\* worked, a backup is there only if the second one has moved the log there; once
\* it has tried to move the log, the log is in any case what others wrote since.
OthersOnly ==
    /\ at["first"] = "move" /\ smooth /\ backup # NoLines => log.bytes = foreign
    /\ at["first"] = "reopen" /\ smooth => log.bytes = foreign

\* An instance that rotates the log alone has its lines in the log until it has
\* moved them, then in the log or in the backup.
LinesOf(p) ==
    Rotating(p) /\ alone[p] =>
        /\ ~Rotating(Other(p))
        /\ kept[p] \subseteq (IF at[p] = "reopen" THEN log.ids \cup backup.ids ELSE log.ids)

LogInv == LogTypes /\ StreamCounts /\ OthersOnly /\ \A p \in Instances : LinesOf(p)

\* What a step leaves of the lines that a rotation began with.
Survive ==
    \A p \in Instances :
        Rotating(p) /\ alone[p] => kept[p] \subseteq log'.ids \cup backup'.ids

\* A process that has ended rotates nothing.
IdleWhenOff == pc = "off" => ~Rotating("first")

LEMMA NoLinesType == NoLines \in LogFiles /\ NoLines.ids = {} /\ NoLines.bytes = 0
  BY DEF NoLines, LogFiles

LEMMA Two == "first" \in Instances /\ "second" \in Instances
             /\ \A p \in Instances : /\ p = "first" \/ p = "second"
                                     /\ Other(p) \in Instances /\ Other(p) # p
                                     /\ Other(Other(p)) = p
  BY DEF Instances, Other

LEMMA WithLineType ==
  ASSUME LogTypes, NEW n \in Nat
  PROVE  /\ WithLine(n) \in LogFiles
         /\ WithLine(n).bytes = log.bytes + n
         /\ log.ids \subseteq WithLine(n).ids
<1>1. lines + 1 \in Nat /\ log.bytes \in Nat /\ log.ids \in SUBSET Nat
  BY DEF LogTypes, LogFiles
<1> QED BY <1>1 DEF WithLine, LogFiles

\* The log after a line has been written to it, or not.
LEMMA Written ==
  ASSUME LogTypes, NEW n \in Nat, NEW size \in Nat, NEW wasBad \in BOOLEAN,
         NEW fails \in BOOLEAN, Write(n, size, wasBad, fails)
  PROVE  /\ log' \in LogFiles /\ m_size' = size + n
         /\ log.ids \subseteq log'.ids
         /\ log'.bytes \in Nat
         /\ log'.bytes = log.bytes \/ log'.bytes = log.bytes + n
<1>1. log' = WithLine(n) \/ log' = log
  BY DEF Write
<1>2. m_size' = size + n /\ log \in LogFiles /\ log.bytes \in Nat
  BY DEF Write, LogTypes, LogFiles
<1>3. CASE log' = WithLine(n)
  <2> DEFINE g == WithLine(n)
  <2>1. g \in LogFiles /\ g.bytes = log.bytes + n /\ log.ids \subseteq g.ids
    BY WithLineType
  <2> HIDE DEF g
  <2>2. log' = g
    BY <1>3 DEF g
  <2> QED BY <1>2, <2>1, <2>2
<1>4. CASE log' = log
  BY <1>2, <1>4
<1> QED BY <1>1, <1>3, <1>4

\* Where the log keeps its lines and no rotation goes on or ends but so.
LEMMA LinesStay ==
  ASSUME LogInv, log.ids \subseteq log'.ids, UNCHANGED backup,
         \/ UNCHANGED rotVars
         \/ \E p \in Instances : Free(p)
  PROVE  Survive /\ (LogTypes' => \A q \in Instances : LinesOf(q)')
<1>0. LogTypes
  BY DEF LogInv
<1>1. Survive
  BY DEF LogInv, LinesOf, Survive
<1>2. ASSUME NEW q \in Instances, Rotating(q)', alone'[q]
      PROVE  /\ Rotating(q) /\ alone[q] /\ at'[q] = at[q] /\ kept'[q] = kept[q]
             /\ ~Rotating(Other(q))'
  <2>1. CASE UNCHANGED rotVars
    BY <1>2, <2>1 DEF rotVars, Rotating, LogInv, LinesOf
  <2>2. ASSUME NEW p \in Instances, Free(p)
        PROVE  /\ Rotating(q) /\ alone[q] /\ at'[q] = at[q] /\ kept'[q] = kept[q]
               /\ ~Rotating(Other(q))'
    <3>1. q # p /\ Other(q) = p /\ Other(p) = q
      BY <1>0, <1>2, <2>2, Two DEF Free, Rotating, LogTypes, RotationPlaces
    <3>2. at'[q] = at[q] /\ kept'[q] = kept[q] /\ at'[p] = "idle"
      BY <1>0, <2>2, <3>1 DEF Free, LogTypes, RotationPlaces
    <3>3. alone[q]
      BY <1>0, <1>2, <2>2, <3>1, <3>2 DEF Free, Rotating, LogTypes
    <3> QED BY <1>2, <3>1, <3>2, <3>3 DEF Rotating
  <2> QED BY <2>1, <2>2
<1>3. ASSUME NEW q \in Instances PROVE LinesOf(q)'
  <2> SUFFICES ASSUME Rotating(q)', alone'[q]
               PROVE  /\ ~Rotating(Other(q))'
                      /\ kept'[q] \subseteq (IF at'[q] = "reopen" THEN log'.ids \cup backup'.ids
                                                                  ELSE log'.ids)
    BY DEF LinesOf
  <2>1. LinesOf(q)
    BY DEF LogInv
  <2> QED BY <1>2, <2>1 DEF LinesOf
<1> QED BY <1>1, <1>3

LEMMA FreeTypes ==
  ASSUME LogTypes, NEW p \in Instances, Free(p)
  PROVE  /\ at' \in RotationPlaces
         /\ incoming' \in [Instances -> Nat] /\ kept' \in [Instances -> SUBSET Nat]
         /\ alone' \in [Instances -> BOOLEAN] /\ smooth' \in BOOLEAN
<1>1. at' \in RotationPlaces
  BY PlaceTypes DEF LogTypes
<1>2. \A q \in Instances : (at[Other(p)] = "idle" \/ alone[q]) \in BOOLEAN
  BY DEF LogTypes
<1>3. alone' \in [Instances -> BOOLEAN]
  BY <1>2 DEF Free
<1> QED BY <1>1, <1>3 DEF Free, LogTypes

-----------------------------------------------------------------------------
LEMMA LogLineInv ==
  ASSUME TypeOK, LogInv, NEW n \in Lengths, LogLine(n)
  PROVE  /\ LogInv' /\ Survive
         /\ m_maxBytes = 0 \/ log'.bytes - foreign' <= m_maxBytes
<1>0. /\ n \in Nat /\ open \in BOOLEAN /\ bad \in BOOLEAN /\ m_maxBytes \in Nat
      /\ LogTypes /\ log.bytes \in Nat /\ foreign \in Nat /\ lines \in Nat
  BY FilesAssumption DEF LogInv, LogTypes, LogFiles, TypeOK
<1>1. PICK fails \in BOOLEAN : Write(n, SizeNow, open /\ bad, fails)
  BY DEF LogLine
<1>2. SizeNow \in Nat /\ log.bytes <= SizeNow + foreign /\ (open /\ bad) \in BOOLEAN
  BY <1>0 DEF SizeNow, SizeAtOpen, LogInv, LogTypes, StreamCounts
<1>3. /\ log' \in LogFiles /\ m_size' = SizeNow + n /\ log.ids \subseteq log'.ids
      /\ log'.bytes \in Nat /\ (log'.bytes = log.bytes \/ log'.bytes = log.bytes + n)
  BY <1>0, <1>1, <1>2, Written
<1>4. /\ UNCHANGED <<backup, foreign, rotVars>> /\ lines' = lines + 1 /\ at["first"] = "idle"
      /\ m_maxBytes = 0 \/ SizeNow + n <= m_maxBytes
  BY <1>0, <1>2 DEF LogLine, Logs, Count, Rotates
<1>5. LogTypes'
  BY <1>0, <1>2, <1>3, <1>4 DEF LogTypes, rotVars
<1>6. StreamCounts'
  BY <1>0, <1>2, <1>3, <1>4 DEF StreamCounts, rotVars
<1>7. OthersOnly'
  BY <1>4 DEF OthersOnly, rotVars
<1>8. Survive /\ \A q \in Instances : LinesOf(q)'
  BY <1>3, <1>4, <1>5, LinesStay
<1> QED BY <1>0, <1>2, <1>3, <1>4, <1>5, <1>6, <1>7, <1>8 DEF LogInv

LEMMA ClosesInv ==
  ASSUME TypeOK, LogInv, NEW p \in Instances, NEW n \in Lengths, ~Rotating(p),
         Closes(p, n), UNCHANGED <<log, backup, m_size, lines>>,
         \/ p = "first" /\ open' = FALSE /\ foreign' = 0 /\ smooth' = TRUE
         \/ p = "second" /\ UNCHANGED <<open, foreign, smooth>>
  PROVE  LogInv' /\ Survive
<1>0. LogTypes /\ n \in Nat /\ log.ids \in SUBSET Nat
  BY FilesAssumption DEF LogInv, LogTypes, LogFiles
<1>1. at' \in RotationPlaces /\ at'[p] = "delete" /\ kept'[p] = log.ids
      /\ at'[Other(p)] = at[Other(p)]
  <2>1. Other(p) # p /\ Other(p) \in Instances
    BY Two
  <2> QED BY <1>0, <2>1, PlaceTypes DEF Closes, LogTypes, RotationPlaces, After
<1>2. LogTypes'
  <2>1. alone' \in [Instances -> BOOLEAN]
    BY DEF Closes
  <2>2. incoming' \in [Instances -> Nat] /\ kept' \in [Instances -> SUBSET Nat]
    BY <1>0 DEF Closes, LogTypes
  <2>3. foreign' \in Nat
    BY <1>0 DEF LogTypes
  <2>4. smooth' \in BOOLEAN
    BY <1>0, Zenon DEF LogTypes
  <2> QED BY <1>0, <1>1, <2>1, <2>2, <2>3, <2>4 DEF LogTypes
<1>3. p = "second" => at'["first"] = at["first"]
  BY <1>1 DEF Other
<1>4. StreamCounts'
  BY <1>3 DEF StreamCounts, LogInv
<1>5. OthersOnly'
  BY <1>1, <1>3 DEF OthersOnly, LogInv
<1>6. ASSUME NEW q \in Instances PROVE LinesOf(q)'
  <2>1. alone'[q] <=> ~Rotating(Other(p))
    BY DEF Closes, Rotating
  <2>2. CASE q = p
    BY <1>1, <2>1, <2>2 DEF LinesOf, Rotating
  <2>3. CASE q # p
    <3>1. q = Other(p)
      BY <2>3, Two
    <3> QED BY <1>1, <2>1, <3>1 DEF LinesOf, Rotating
  <2> QED BY <2>2, <2>3
<1>7. Survive
  BY DEF Survive, LogInv, LinesOf
<1> QED BY <1>2, <1>4, <1>5, <1>6, <1>7 DEF LogInv

\* What either of the two calls of a rotation does, apart from its effect on the files.
LEMMA PassTypes ==
  ASSUME LogInv, NEW p \in Instances, NEW fails \in BOOLEAN, Passes(p, fails),
         at[p] = "delete" \/ at[p] = "move"
  PROVE  /\ at' \in RotationPlaces /\ at'[Other(p)] = at[Other(p)]
         /\ at'[p] = IF at[p] = "delete" THEN "move" ELSE "reopen"
         /\ UNCHANGED <<open, m_size, lines, incoming, kept, alone>>
         /\ smooth' \in BOOLEAN
         /\ smooth' => smooth
         /\ p = "first" /\ smooth' => ~fails
<1>0. at \in RotationPlaces /\ smooth \in BOOLEAN
  BY DEF LogInv, LogTypes
<1>1. at' \in RotationPlaces
  BY <1>0, PlaceTypes
<1>2. at'[Other(p)] = at[Other(p)] /\ at'[p] = After[at[p]]
  BY <1>0, Two DEF Passes, RotationPlaces
<1>3. at'[p] = IF at[p] = "delete" THEN "move" ELSE "reopen"
  BY <1>2 DEF After
<1> QED BY <1>0, <1>1, <1>2, <1>3 DEF Passes

LEMMA DeletesInv ==
  ASSUME TypeOK, LogInv, NEW p \in Instances, DeletesBackup(p)
  PROVE  LogInv' /\ Survive
<1>1. PICK fails \in BOOLEAN :
          Passes(p, fails) /\ backup' = IF fails THEN backup ELSE NoLines
  BY DEF DeletesBackup
<1>2. UNCHANGED <<log, foreign>> /\ at[p] = "delete"
  BY DEF DeletesBackup
<1>3. /\ at' \in RotationPlaces /\ at'[Other(p)] = at[Other(p)] /\ at'[p] = "move"
      /\ UNCHANGED <<open, m_size, lines, incoming, kept, alone>>
      /\ smooth' \in BOOLEAN /\ (smooth' => smooth) /\ (p = "first" /\ smooth' => ~fails)
  BY <1>1, <1>2, PassTypes
<1>4. LogTypes'
  BY <1>1, <1>2, <1>3, NoLinesType DEF LogInv, LogTypes
<1>5. p = "second" => at'["first"] = at["first"]
  BY <1>3 DEF Other
<1>6. StreamCounts'
  BY <1>2, <1>3, <1>5, Two DEF LogInv, StreamCounts
<1>7. OthersOnly'
  BY <1>1, <1>2, <1>3, <1>5, Two DEF LogInv, OthersOnly
<1>8. ASSUME NEW q \in Instances
      PROVE  /\ LinesOf(q)'
             /\ Rotating(q) /\ alone[q] => kept[q] \subseteq log'.ids \cup backup'.ids
  <2>1. CASE q = p
    BY <1>2, <1>3, <2>1 DEF LogInv, LinesOf, Rotating
  <2>2. CASE q # p
    <3>1. q = Other(p) /\ p = Other(q)
      BY <2>2, Two
    <3>2. ~(Rotating(q) /\ alone[q])
      BY <1>2, <3>1 DEF LogInv, LinesOf, Rotating
    <3> QED BY <1>3, <3>1, <3>2 DEF LinesOf, Rotating
  <2> QED BY <2>1, <2>2
<1> QED BY <1>4, <1>6, <1>7, <1>8 DEF LogInv, Survive

LEMMA MovesInv ==
  ASSUME TypeOK, LogInv, NEW p \in Instances, MovesLog(p)
  PROVE  LogInv' /\ Survive
<1>1. PICK fails \in BOOLEAN :
          /\ Passes(p, fails)
          /\ IF Movable /\ ~fails
             THEN log' = NoLines /\ backup' = log /\ foreign' = 0
             ELSE UNCHANGED <<log, backup, foreign>>
  BY DEF MovesLog
<1>2. at[p] = "move"
  BY DEF MovesLog
<1>3. /\ at' \in RotationPlaces /\ at'[Other(p)] = at[Other(p)] /\ at'[p] = "reopen"
      /\ UNCHANGED <<open, m_size, lines, incoming, kept, alone>>
      /\ smooth' \in BOOLEAN /\ (smooth' => smooth) /\ (p = "first" /\ smooth' => ~fails)
  BY <1>1, <1>2, PassTypes
<1>4. \/ ~open /\ log' = NoLines /\ backup' = log /\ foreign' = 0
      \/ UNCHANGED <<log, backup, foreign>> /\ (fails \/ open \/ backup # NoLines)
  BY <1>1 DEF Movable
<1>5. LogTypes'
  BY <1>3, <1>4, NoLinesType DEF LogInv, LogTypes
<1>6. p = "second" => at'["first"] = at["first"]
  BY <1>3 DEF Other
<1>7. StreamCounts'
  <2>1. open => p = "second"
    BY <1>2, Two DEF LogInv, StreamCounts
  <2> QED BY <1>3, <1>4, <1>6, <2>1 DEF LogInv, StreamCounts
<1>8. OthersOnly'
  <2>1. CASE log' = NoLines /\ foreign' = 0
    BY <2>1, NoLinesType DEF OthersOnly
  <2>2. CASE UNCHANGED <<log, backup, foreign>> /\ (fails \/ open \/ backup # NoLines)
    <3>1. CASE p = "second"
      BY <1>3, <1>6, <2>2, <3>1 DEF LogInv, OthersOnly
    <3>2. CASE p = "first"
      <4>1. ~open
        BY <1>2, <3>2 DEF LogInv, StreamCounts
      <4> QED BY <1>2, <1>3, <2>2, <3>2, <4>1 DEF LogInv, OthersOnly
    <3> QED BY <3>1, <3>2, Two
  <2> QED BY <1>4, <2>1, <2>2
<1>9. ASSUME NEW q \in Instances
      PROVE  /\ LinesOf(q)'
             /\ Rotating(q) /\ alone[q] => kept[q] \subseteq log'.ids \cup backup'.ids
  <2>1. CASE q = p
    BY <1>2, <1>3, <1>4, <2>1 DEF LogInv, LinesOf, Rotating
  <2>2. CASE q # p
    <3>1. q = Other(p) /\ p = Other(q)
      BY <2>2, Two
    <3>2. ~(Rotating(q) /\ alone[q])
      BY <1>2, <3>1 DEF LogInv, LinesOf, Rotating
    <3> QED BY <1>3, <3>1, <3>2 DEF LinesOf, Rotating
  <2> QED BY <2>1, <2>2
<1> QED BY <1>5, <1>7, <1>8, <1>9 DEF LogInv, Survive

LEMMA ReopensInv ==
  ASSUME TypeOK, LogInv, LogReopens
  PROVE  /\ LogInv' /\ Survive
         /\ smooth => \/ log'.bytes - foreign' = 0
                      \/ log'.bytes - foreign' = incoming["first"]
<1> DEFINE n == incoming["first"]
<1>0. /\ LogTypes /\ n \in Nat /\ log.bytes \in Nat /\ foreign \in Nat /\ lines \in Nat
      /\ log \in LogFiles /\ "first" \in Instances /\ at["first"] = "reopen"
  BY Two DEF LogInv, LogTypes, LogFiles, LogReopens
<1> HIDE DEF n
<1>1. /\ Free("first") /\ UNCHANGED <<backup, foreign>> /\ lines' = lines + 1
      /\ \/ open' = TRUE /\ \E fails \in BOOLEAN : Write(n, log.bytes, FALSE, fails)
         \/ UNCHANGED <<log, open>> /\ m_size' = 0
  BY DEF LogReopens, Count, SizeAtOpen, n
<1>2. /\ log' \in LogFiles /\ log.ids \subseteq log'.ids /\ log'.bytes \in Nat
      /\ m_size' \in Nat
      /\ log'.bytes = log.bytes \/ log'.bytes = log.bytes + n
      /\ open' => log'.bytes <= m_size'
  <2>1. CASE UNCHANGED <<log, open>> /\ m_size' = 0
    <3>1. ~open
      BY <1>0 DEF LogInv, StreamCounts
    <3> QED BY <1>0, <2>1, <3>1
  <2>2. ASSUME NEW fails \in BOOLEAN, Write(n, log.bytes, FALSE, fails)
        PROVE  /\ log' \in LogFiles /\ log.ids \subseteq log'.ids /\ log'.bytes \in Nat
               /\ m_size' \in Nat
               /\ log'.bytes = log.bytes \/ log'.bytes = log.bytes + n
               /\ open' => log'.bytes <= m_size'
    <3>1. /\ log' \in LogFiles /\ m_size' = log.bytes + n /\ log.ids \subseteq log'.ids
          /\ log'.bytes \in Nat /\ (log'.bytes = log.bytes \/ log'.bytes = log.bytes + n)
      BY <1>0, <2>2, Written
    <3> QED BY <1>0, <3>1
  <2> QED BY <1>1, <2>1, <2>2
<1>3. LogTypes' /\ at'["first"] = "idle"
  <2>1. at'["first"] = "idle"
    BY <1>0, <1>1 DEF Free, LogTypes, RotationPlaces
  <2> QED BY <1>0, <1>1, <1>2, <2>1, FreeTypes DEF LogTypes
<1>4. StreamCounts' /\ OthersOnly'
  BY <1>0, <1>1, <1>2, <1>3 DEF StreamCounts, OthersOnly
<1>5. Survive /\ \A q \in Instances : LinesOf(q)'
  BY <1>0, <1>1, <1>2, <1>3, LinesStay
<1>6. smooth => log'.bytes - foreign' = 0 \/ log'.bytes - foreign' = n
  <2>1. smooth => log.bytes = foreign
    BY <1>0 DEF LogInv, OthersOnly
  <2> QED BY <1>0, <1>1, <1>2, <2>1
<1> QED BY <1>3, <1>4, <1>5, <1>6 DEF LogInv, n

\* The second instance's line.
LEMMA SecondInv ==
  ASSUME TypeOK, LogInv, NEW n \in Nat, SecondWrites(n),
         UNCHANGED rotVars \/ Free("second")
  PROVE  LogInv' /\ Survive
<1>0. /\ LogTypes /\ log.bytes \in Nat /\ foreign \in Nat /\ lines \in Nat /\ m_size \in Nat
      /\ "second" \in Instances
  BY Two DEF LogInv, LogTypes, LogFiles
<1>1. /\ log' \in LogFiles /\ log'.bytes = log.bytes + n /\ log.ids \subseteq log'.ids
      /\ lines' = lines + 1 /\ UNCHANGED <<backup, open, m_size>>
      /\ foreign' = IF open \/ at["first"] # "idle" THEN foreign + n ELSE 0
  <2>1. log' = WithLine(n)
    BY DEF SecondWrites
  <2> DEFINE g == WithLine(n)
  <2>2. g \in LogFiles /\ g.bytes = log.bytes + n /\ log.ids \subseteq g.ids
    BY <1>0, WithLineType
  <2>3. log' = g
    BY <2>1
  <2> HIDE DEF g
  <2> QED BY <2>2, <2>3 DEF SecondWrites, Count
<1>2. at'["first"] = at["first"]
  <2>1. CASE UNCHANGED rotVars
    BY <2>1 DEF rotVars
  <2>2. CASE Free("second")
    BY <1>0, <2>2, Two DEF Free, LogTypes, RotationPlaces
  <2> QED BY <2>1, <2>2
<1>3. smooth' = smooth
  <2>1. smooth \in BOOLEAN
    BY <1>0 DEF LogTypes
  <2> QED BY <2>1 DEF rotVars, Free
<1>4. LogTypes'
  <2>1. /\ at' \in RotationPlaces
        /\ incoming' \in [Instances -> Nat] /\ kept' \in [Instances -> SUBSET Nat]
        /\ alone' \in [Instances -> BOOLEAN] /\ smooth' \in BOOLEAN
    BY <1>0, FreeTypes DEF LogTypes, rotVars
  <2> QED BY <1>0, <1>1, <2>1 DEF LogTypes
<1>5. StreamCounts' /\ OthersOnly'
  BY <1>0, <1>1, <1>2, <1>3 DEF LogInv, StreamCounts, OthersOnly
<1>6. Survive /\ \A q \in Instances : LinesOf(q)'
  BY <1>0, <1>1, <1>4, LinesStay
<1> QED BY <1>4, <1>5, <1>6 DEF LogInv

LEMMA IdleStep ==
  ASSUME TypeOK, IdleWhenOff, [FilesNext]_filesVars
  PROVE  IdleWhenOff'
<1> USE DEF IdleWhenOff, Rotating
<1>0. at \in RotationPlaces /\ "first" \in Instances /\ "second" \in Instances
  BY Two DEF TypeOK, RotationPlaces
<1>1. pc' # "off" \/ UNCHANGED <<pc, at>> \/ (pc' = pc /\ at'["first"] = at["first"])
      \/ at'["first"] = "idle"
  <2> USE DEF logVars, rotVars, mainVars
  <2>1. CASE CopyToken \/ SetLimit \/ DeleteToken \/ DeleteFile \/ HoldFile \/ ReleaseFile
    BY <2>1 DEF CopyToken, SetLimit, DeleteToken, DeleteFile, Edit, HoldFile, ReleaseFile
  <2>2. CASE Start \/ FirstRun \/ LoadWhole \/ LoadWithoutToken \/ SaveRefused
    BY <2>2 DEF Start, FirstRun, LoadWhole, LoadWithoutToken, GenerateToken, SaveRefused
  <2>3. CASE SaveOpens \/ SaveWrites \/ SaveLost \/ LoggerInit
    BY <2>3 DEF SaveOpens, SaveWrites, SaveLost, LoggerInit
  <2>4. CASE Stop
    BY <1>0, <2>4 DEF Stop, Free, RotationPlaces
  <2>5. CASE LogCalls
    BY <2>5 DEF LogCalls, LogLine, LogNotOpened, LogCloses, SecondLogs, SecondCloses, Logs
  <2>6. ASSUME NEW p \in Instances, DeletesBackup(p) \/ MovesLog(p)
        PROVE  pc' # "off" \/ (pc' = pc /\ at'["first"] = at["first"])
    <3>1. pc' = pc /\ at[p] # "idle" /\ at' = [at EXCEPT ![p] = After[at[p]]]
      BY <2>6 DEF DeletesBackup, MovesLog, Passes
    <3>2. CASE p = "first"
      BY <3>1, <3>2
    <3>3. CASE p = "second"
      BY <1>0, <3>1, <3>3 DEF RotationPlaces
    <3> QED BY <3>2, <3>3, Two
  <2>7. CASE LogReopens \/ SecondReopens
    BY <1>0, <2>7 DEF LogReopens, SecondReopens, Free, RotationPlaces
  <2>8. CASE UNCHANGED filesVars
    BY <2>8 DEF filesVars
  <2> QED BY <2>1, <2>2, <2>3, <2>4, <2>5, <2>6, <2>7, <2>8 DEF FilesNext, LogCalls
<1> QED BY <1>1

LEMMA LogStep ==
  ASSUME TypeOK, LogInv, IdleWhenOff, [FilesNext]_filesVars
  PROVE  LogInv' /\ Survive
<1>1. ASSUME NEW n \in Lengths, LogLine(n) PROVE LogInv' /\ Survive
  BY <1>1, LogLineInv
<1>2. ASSUME NEW n \in Lengths, LogNotOpened(n) PROVE LogInv' /\ Survive
  <2>1. /\ UNCHANGED <<log, backup, open, m_size, foreign, rotVars>> /\ lines' = lines + 1
    BY <1>2 DEF LogNotOpened, Count
  <2>2. LogTypes'
    BY <2>1 DEF LogInv, LogTypes, rotVars
  <2>3. StreamCounts' /\ OthersOnly'
    BY <2>1 DEF LogInv, StreamCounts, OthersOnly, rotVars
  <2> QED BY <2>1, <2>2, <2>3, LinesStay DEF LogInv
<1>3. ASSUME NEW n \in Lengths, LogCloses(n) \/ SecondCloses(n) PROVE LogInv' /\ Survive
  BY <1>3, Two, ClosesInv DEF LogCloses, SecondCloses, Logs, Rotating
<1>4. ASSUME NEW n \in Lengths, SecondLogs(n) PROVE LogInv' /\ Survive
  <2>1. n \in Nat
    BY FilesAssumption
  <2> QED BY <1>4, <2>1, SecondInv DEF SecondLogs
<1>5. ASSUME NEW p \in Instances, DeletesBackup(p) \/ MovesLog(p) PROVE LogInv' /\ Survive
  BY <1>5, DeletesInv, MovesInv
<1>6. CASE LogReopens
  BY <1>6, ReopensInv
<1>7. CASE SecondReopens
  <2>1. incoming["second"] \in Nat
    BY Two DEF LogInv, LogTypes
  <2> QED BY <1>7, <2>1, SecondInv DEF SecondReopens
<1>8. CASE /\ UNCHANGED <<log, backup, lines>>
           /\ \/ UNCHANGED <<open, m_size, foreign, rotVars>>
              \/ open' = FALSE /\ m_size' \in {0, m_size} /\ foreign' = 0 /\ UNCHANGED rotVars
                 /\ at["first"] = "idle"
              \/ open' = FALSE /\ UNCHANGED <<m_size, foreign>> /\ Free("first")
  <2>0. "first" \in Instances /\ LogTypes
    BY Two DEF LogInv
  <2>1. LogTypes'
    BY <1>8, <2>0, FreeTypes DEF LogTypes, rotVars
  <2>2. Free("first") => at'["first"] = "idle"
    BY <2>0 DEF Free, LogTypes, RotationPlaces
  <2>3. StreamCounts' /\ OthersOnly'
    BY <1>8, <2>2 DEF LogInv, StreamCounts, OthersOnly, rotVars
  <2>4. Survive /\ \A q \in Instances : LinesOf(q)'
    BY <1>8, <2>0, <2>1, LinesStay
  <2> QED BY <2>1, <2>3, <2>4 DEF LogInv
<1>9. CASE ~LogCalls /\ ~RotationSteps
  <2> USE DEF logVars
  <2>1. CASE CopyToken \/ SetLimit \/ DeleteToken \/ DeleteFile \/ HoldFile \/ ReleaseFile
    BY <1>8, <2>1 DEF CopyToken, SetLimit, DeleteToken, DeleteFile, Edit, HoldFile, ReleaseFile
  <2>2. CASE Start
    BY <1>8, <2>2 DEF Start, IdleWhenOff, Rotating
  <2>3. CASE FirstRun \/ LoadWhole \/ LoadWithoutToken \/ SaveRefused \/ SaveOpens \/ SaveWrites
    BY <1>8, <2>3
       DEF FirstRun, LoadWhole, LoadWithoutToken, SaveRefused, SaveOpens, SaveWrites
  <2>4. CASE SaveLost \/ LoggerInit \/ Stop
    BY <1>8, <2>4 DEF SaveLost, LoggerInit, Stop
  <2>5. CASE UNCHANGED filesVars
    BY <1>8, <2>5 DEF filesVars
  <2> QED BY <1>9, <2>1, <2>2, <2>3, <2>4, <2>5 DEF FilesNext, LogCalls, RotationSteps
<1> QED
  BY <1>1, <1>2, <1>3, <1>4, <1>5, <1>6, <1>7, <1>9 DEF LogCalls, RotationSteps

LEMMA LogInvHolds == FilesSpec => [](LogInv /\ IdleWhenOff)
<1>1. FilesInit => LogInv /\ IdleWhenOff
  <2> SUFFICES ASSUME FilesInit PROVE LogInv /\ IdleWhenOff
    OBVIOUS
  <2>1. LogTypes
    BY NoLinesType DEF FilesInit, LogTypes, RotationPlaces
  <2>2. StreamCounts /\ OthersOnly /\ IdleWhenOff /\ \A p \in Instances : ~Rotating(p)
    BY Two DEF FilesInit, StreamCounts, OthersOnly, Rotating, IdleWhenOff
  <2> QED BY <2>1, <2>2 DEF LogInv, LinesOf
<1>2. TypeOK /\ LogInv /\ IdleWhenOff /\ [FilesNext]_filesVars => LogInv' /\ IdleWhenOff'
  BY LogStep, IdleStep
<1> QED BY <1>1, <1>2, FilesTypes, PTL DEF FilesSpec

\* Every line that the log held when a rotation closed it is in one of the two
\* files until it is open again, whichever call fails and whatever another
\* instance does in between but rotate (Logger::RotateIfNeededLocked).
THEOREM LinesSurvive == FilesSpec => LogLinesSurvive
<1>1. TypeOK /\ LogInv /\ IdleWhenOff /\ [FilesNext]_filesVars
      => [\A p \in Instances :
             at[p] # "idle" /\ alone[p] => kept[p] \subseteq log'.ids \cup backup'.ids]_filesVars
  BY LogStep DEF Survive, Rotating
<1> QED BY <1>1, LogInvHolds, FilesTypes, PTL DEF FilesSpec, LogLinesSurvive

\* A line that is logged leaves a log of which this instance has written no more
\* than the limit, or this line alone: m_size is never less than what this instance
\* has in the file, and what a smooth rotation reopens holds nothing of its own.
THEOREM LogKeepsToLimit == FilesSpec => LogBounded
<1> DEFINE Within == \A n \in Lengths :
                        /\ LogLine(n) \/ (LogReopens /\ incoming["first"] = n /\ smooth)
                        /\ faults' = faults
                        => \/ m_maxBytes = 0 \/ log'.bytes - foreign' = n
                           \/ log'.bytes - foreign' <= m_maxBytes
<1>1. ASSUME TypeOK, LogInv PROVE Within
  <2> SUFFICES ASSUME NEW n \in Lengths,
                      LogLine(n) \/ (LogReopens /\ incoming["first"] = n /\ smooth)
               PROVE  \/ m_maxBytes = 0 \/ log'.bytes - foreign' = n
                      \/ log'.bytes - foreign' <= m_maxBytes
    OBVIOUS
  <2>0. m_maxBytes \in Nat
    BY <1>1, FilesAssumption DEF TypeOK
  <2>1. CASE LogLine(n)
    BY <1>1, <2>1, LogLineInv
  <2>2. CASE LogReopens /\ incoming["first"] = n /\ smooth
    <3>1. log'.bytes - foreign' = 0 \/ log'.bytes - foreign' = n
      BY <1>1, <2>2, ReopensInv
    <3> QED BY <2>0, <3>1
  <2> QED BY <2>1, <2>2
<1>2. TypeOK /\ LogInv /\ [FilesNext]_filesVars => [Within]_filesVars
  BY <1>1
<1> QED BY <1>2, LogInvHolds, FilesTypes, PTL DEF FilesSpec, LogBounded
===============================================================================
