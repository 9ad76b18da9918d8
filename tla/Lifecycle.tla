----------------------------- MODULE Lifecycle -----------------------------
(***************************************************************************)
(* Start and stop of the process (src/main.cpp): the main thread, which    *)
(* starts the modules and then runs the window's message loop, the server  *)
(* thread, and the modules' threads with the flags that end them.          *)
(***************************************************************************)
EXTENDS Naturals

VARIABLES
    main,           \* where the main thread is
    thread,         \* where every other thread is
    running,        \* SidebandServer::m_running
    stopping,       \* main's stopping
    hwnd,           \* the hidden window exists
    exit,           \* m_exit of each module
    wake,           \* m_wakeRequested of the two monitors
    engine,         \* CursorModule::m_engine # nullptr
    hookId,         \* m_hookThreadId # 0
    queue,          \* the hook thread has a message queue
    quit,           \* WM_QUIT is in it
    hooks,          \* the hooks are installed
    lost            \* RequestStop came before the server thread had run

hookVars == <<hookId, queue, quit, hooks>>
flagVars == <<running, stopping, hwnd>>
modVars == <<exit, wake, engine>>
vars == <<main, thread, flagVars, modVars, hookVars, lost>>

Monitors == {"display", "audio"}
Modules == Monitors \cup {"cursor"}
CursorThreads == {"hook", "worker", "text"}
Threads == CursorThreads \cup Monitors \cup {"server"}

ModuleOf(t) == IF t \in CursorThreads THEN "cursor" ELSE t

Init ==
    /\ main = "startCursor"
    /\ thread = [t \in Threads |-> "none"]
    /\ running = FALSE /\ stopping = FALSE /\ hwnd = FALSE
    /\ exit = [m \in Modules |-> FALSE]
    /\ wake = [m \in Monitors |-> FALSE]
    /\ engine = FALSE
    /\ hookId = FALSE /\ queue = FALSE /\ quit = FALSE /\ hooks = FALSE
    /\ lost = FALSE

At(t, p, q) == thread[t] = p /\ thread' = [thread EXCEPT ![t] = q]

Goes(p, q) == main = p /\ main' = q

Ended(t) == thread[t] \in {"none", "done"}

-----------------------------------------------------------------------------
(* The main thread starts everything. *)

\* CursorModule::Start: the engine, then the hook thread.
StartCursor ==
    /\ Goes("startCursor", "awaitHooks")
    /\ engine' = TRUE
    /\ exit' = [exit EXCEPT !["cursor"] = FALSE]
    /\ At("hook", "none", "new")
    /\ UNCHANGED <<flagVars, wake, hookVars, lost>>

\* It waits for the hooks, but not longer than a second.
AwaitHooks ==
    /\ Goes("awaitHooks", "startDisplay")
    /\ thread' = [thread EXCEPT !["worker"] = "new", !["text"] = "new"]
    /\ UNCHANGED <<flagVars, modVars, hookVars, lost>>

StartDisplay ==
    /\ Goes("startDisplay", "startAudio")
    /\ exit' = [exit EXCEPT !["display"] = FALSE]
    /\ At("display", "none", "new")
    /\ UNCHANGED <<flagVars, wake, engine, hookVars, lost>>

\* Without a device enumerator there is no audio monitor.
StartAudio ==
    /\ Goes("startAudio", "tray")
    /\ \/ /\ exit' = [exit EXCEPT !["audio"] = FALSE]
          /\ At("audio", "none", "new")
       \/ UNCHANGED <<exit, thread>>
    /\ UNCHANGED <<flagVars, wake, engine, hookVars, lost>>

CreateTray ==
    /\ Goes("tray", "spawn")
    /\ hwnd' \in BOOLEAN
    /\ UNCHANGED <<thread, running, stopping, modVars, hookVars, lost>>

SpawnServer ==
    /\ main = "spawn"
    /\ main' = IF hwnd THEN "loop" ELSE "noWindow"
    /\ At("server", "none", "new")
    /\ UNCHANGED <<flagVars, modVars, hookVars, lost>>

-----------------------------------------------------------------------------
(* The message loop. *)

\* WM_DISPLAYCHANGE: NotifyDisplayChanged.
DisplayChanged ==
    /\ main = "loop"
    /\ wake' = [wake EXCEPT !["display"] = TRUE]
    /\ UNCHANGED <<main, thread, flagVars, exit, engine, hookVars, lost>>

\* m_onExit: the first call stops the server.
OnExit == stopping' = TRUE /\ running' = (IF stopping THEN running ELSE FALSE)

\* WM_ENDSESSION; the loop goes on.
EndSession ==
    /\ main = "loop"
    /\ OnExit
    /\ UNCHANGED <<main, thread, hwnd, modVars, hookVars, lost>>

\* WM_CLOSE, from the menu; PostQuitMessage ends the loop.
WindowCloses ==
    /\ Goes("loop", "requestStop")
    /\ OnExit
    /\ UNCHANGED <<thread, hwnd, modVars, hookVars, lost>>

\* GetMessage fails.
LoopBreaks ==
    /\ Goes("loop", "requestStop")
    /\ UNCHANGED <<thread, flagVars, modVars, hookVars, lost>>

-----------------------------------------------------------------------------
(* The main thread stops everything. *)

RequestStop ==
    /\ Goes("requestStop", "join")
    /\ running' = FALSE
    /\ lost' = (thread["server"] = "new")
    /\ UNCHANGED <<thread, stopping, hwnd, modVars, hookVars>>

\* Variant: the modules are stopped without waiting for the server.
JoinServerNot ==
    /\ Goes("join", "stopAudio")
    /\ UNCHANGED <<thread, flagVars, modVars, hookVars, lost>>

JoinServer ==
    /\ Goes("join", "stopAudio")
    /\ thread["server"] = "done"
    /\ UNCHANGED <<thread, flagVars, modVars, hookVars, lost>>

\* StopModules, in the reverse order: the flag and the wake-up of a monitor ...
StopMonitor(m, p, q) ==
    /\ Goes(p, q)
    /\ exit' = [exit EXCEPT ![m] = TRUE]
    /\ wake' = [wake EXCEPT ![m] = TRUE]
    /\ UNCHANGED <<thread, flagVars, engine, hookVars, lost>>

\* Variant: the monitor is told to end and left to itself.
JoinMonitorNot(m, p, q) ==
    /\ Goes(p, q)
    /\ UNCHANGED <<thread, flagVars, modVars, hookVars, lost>>

\* ... then the join.
JoinMonitor(m, p, q) ==
    /\ Goes(p, q)
    /\ Ended(m)
    /\ UNCHANGED <<thread, flagVars, modVars, hookVars, lost>>

PostQuitMessage == quit' = (quit \/ (hookId /\ queue)) /\ UNCHANGED exit

RaiseExit == exit' = [exit EXCEPT !["cursor"] = TRUE] /\ UNCHANGED quit

\* Variant: the flag is raised after the message has been posted.
StopCursorLate ==
    /\ \/ Goes("stopCursor", "postQuit") /\ PostQuitMessage
       \/ Goes("postQuit", "joinCursor") /\ RaiseExit
    /\ UNCHANGED <<thread, flagVars, wake, engine, hookId, queue, hooks, lost>>

\* CursorModule::Stop: the flag, then WM_QUIT if the hook thread has an id; it
\* is lost if that thread has no message queue yet.
StopCursor ==
    /\ \/ Goes("stopCursor", "postQuit") /\ RaiseExit
       \/ Goes("postQuit", "joinCursor") /\ PostQuitMessage
    /\ UNCHANGED <<thread, flagVars, wake, engine, hookId, queue, hooks, lost>>

\* Variant: only the hook thread is waited for before the engine goes.
JoinCursorHookOnly ==
    /\ Goes("joinCursor", "shutdown")
    /\ Ended("hook")
    /\ engine' = FALSE
    /\ UNCHANGED <<thread, flagVars, exit, wake, hookVars, lost>>

\* ... then the three joins, and the engine goes.
JoinCursor ==
    /\ Goes("joinCursor", "shutdown")
    /\ \A t \in CursorThreads : Ended(t)
    /\ engine' = FALSE
    /\ UNCHANGED <<thread, flagVars, exit, wake, hookVars, lost>>

Shutdown ==
    /\ Goes("shutdown", "exited")
    /\ running' = FALSE
    /\ UNCHANGED <<thread, stopping, hwnd, modVars, hookVars, lost>>

-----------------------------------------------------------------------------
(* The server thread. *)

\* Run begins: m_running = true.
RunStarts ==
    /\ At("server", "new", "top")
    /\ running' = TRUE
    /\ UNCHANGED <<main, stopping, hwnd, modVars, hookVars, lost>>

\* A round: it may call the modules, which wake their monitors.
RunRound ==
    /\ thread["server"] = "top" /\ running
    /\ \E m \in Monitors : wake' = [wake EXCEPT ![m] = TRUE]
    /\ UNCHANGED <<main, thread, flagVars, exit, engine, hookVars, lost>>

RunEnds ==
    /\ At("server", "top", "done")
    /\ ~running
    /\ UNCHANGED <<main, flagVars, modVars, hookVars, lost>>

-----------------------------------------------------------------------------
(* The modules' threads. *)

Looping == Monitors \cup {"worker", "text"}

LoopStarts(t) ==
    /\ t \in Looping
    /\ At(t, "new", "top")
    /\ UNCHANGED <<main, flagVars, modVars, hookVars, lost>>

\* while (!m_exit)
LoopGoesOn(t) ==
    /\ t \in Looping
    /\ ~exit[ModuleOf(t)]
    /\ At(t, "top", IF t \in Monitors THEN "work" ELSE "wait")
    /\ UNCHANGED <<main, flagVars, modVars, hookVars, lost>>

LoopEnds(t) ==
    /\ t \in Looping
    /\ exit[ModuleOf(t)]
    /\ At(t, "top", "done")
    /\ UNCHANGED <<main, flagVars, modVars, hookVars, lost>>

\* Enumerate and push, or capture and send.
Work(t) ==
    /\ t \in Looping
    /\ At(t, "work", IF t \in Monitors THEN "wait" ELSE "top")
    /\ UNCHANGED <<main, flagVars, modVars, hookVars, lost>>

\* wait_for: a request, the exit flag or the timeout.
MonitorWakes(m) ==
    /\ m \in Monitors
    /\ At(m, "wait", "top")
    /\ wake' = [wake EXCEPT ![m] = FALSE]
    /\ UNCHANGED <<main, flagVars, exit, engine, hookVars, lost>>

CursorWakes(t) ==
    /\ t \in {"worker", "text"}
    /\ At(t, "wait", IF exit["cursor"] THEN "done" ELSE "work")
    /\ UNCHANGED <<main, flagVars, modVars, hookVars, lost>>

\* HookLoop publishes its id ...
HookStarts ==
    /\ At("hook", "new", "install")
    /\ hookId' = TRUE
    /\ UNCHANGED <<main, flagVars, modVars, queue, quit, hooks, lost>>

\* ... installs the hooks, which gives it a message queue ...
HookInstalls ==
    /\ At("hook", "install", "check")
    /\ queue' = TRUE /\ hooks' = TRUE
    /\ UNCHANGED <<main, flagVars, modVars, hookId, quit, lost>>

\* ... and gets messages until the flag or WM_QUIT.
HookChecks ==
    /\ At("hook", "check", IF exit["cursor"] THEN "unhook" ELSE "get")
    /\ UNCHANGED <<main, flagVars, modVars, hookVars, lost>>

HookInput ==
    /\ At("hook", "get", "check")
    /\ UNCHANGED <<main, flagVars, modVars, hookVars, lost>>

HookQuits ==
    /\ quit
    /\ At("hook", "get", "unhook")
    /\ UNCHANGED <<main, flagVars, modVars, hookVars, lost>>

HookEnds ==
    /\ At("hook", "unhook", "done")
    /\ hooks' = FALSE
    /\ UNCHANGED <<main, flagVars, modVars, hookId, queue, quit, lost>>

-----------------------------------------------------------------------------

Starting == StartCursor \/ AwaitHooks \/ StartDisplay \/ StartAudio \/ CreateTray
                \/ SpawnServer

WindowEvent == DisplayChanged \/ EndSession \/ WindowCloses \/ LoopBreaks

Stopping ==
    \/ RequestStop \/ JoinServer
    \/ StopMonitor("audio", "stopAudio", "joinAudio")
    \/ JoinMonitor("audio", "joinAudio", "stopDisplay")
    \/ StopMonitor("display", "stopDisplay", "joinDisplay")
    \/ JoinMonitor("display", "joinDisplay", "stopCursor")
    \/ StopCursor \/ JoinCursor
    \/ Shutdown

Server == RunStarts \/ RunEnds

Loop(t) ==
    \/ LoopStarts(t) \/ LoopGoesOn(t) \/ LoopEnds(t) \/ Work(t)
    \/ MonitorWakes(t) \/ CursorWakes(t)

Hook == HookStarts \/ HookInstalls \/ HookChecks \/ HookQuits \/ HookEnds

Next ==
    \/ Starting \/ WindowEvent \/ Stopping
    \/ Server \/ RunRound
    \/ \E t \in Looping : Loop(t)
    \/ Hook \/ HookInput

Spec == Init /\ [][Next]_vars

\* Every thread that can go on does; windows events and input need not come.
Fairness ==
    /\ WF_vars(Starting \/ Stopping)
    /\ WF_vars(Server)
    /\ \A t \in Looping : WF_vars(Loop(t))
    /\ WF_vars(Hook)

FairSpec == Spec /\ Fairness

-----------------------------------------------------------------------------
(* Properties. *)

\* CaptureAndSend and the caret's update run on an engine that exists.
EngineOutlivesThreads ==
    \A t \in {"worker", "text"} : thread[t] = "work" => engine

\* While the server thread can call a module, no module has been stopped.
ModulesOutliveServer ==
    thread["server"] = "top" => \A m \in Modules : ~exit[m]

\* Nothing runs, and no hook is left in the system, once main returns.
NothingLeft ==
    main = "exited" => ~hooks /\ \A t \in Threads : Ended(t)

\* A stop that finds the server thread running ends the process.
StopEnds == (main = "join" /\ ~lost) ~> (main = "exited")

=============================================================================
