# A TLA+ model of moonlight-sideband

moonlight-sideband is a resident Windows process that serves a side channel of
a game-streaming session over one TCP port (5005): it pushes the mouse cursor's
image and the text caret's position to the connected clients, lets them list
and switch displays, display modes, scaling and audio outputs, and tells them
when these change.  This directory models the parts of it whose correctness
depends on the order of events: several threads that share a socket, a list of
sessions and a few flags, clients that come, stall, pipeline requests and go,
and operating-system calls that fail half way.

## The system

| component | state it keeps | operations | interacts with |
|---|---|---|---|
| `SidebandSession`, sending (`src/src/SidebandSession.cpp`) | socket, `m_connected`, `m_sendQueue` behind `m_sendMutex`, `m_cachedHashes`, `m_lastSentHash` | `SendCursor`, `SendTextCursorState`, `SendCommand` (all through `SendOrQueue`), `FlushSendQueue`, `Close` | called by every module's thread and by the main loop |
| `SidebandSession`, receiving (the same file) | `m_rxBuffer`, `m_authenticated`, `m_authFailures` | `TryReceive`, `ProcessRxBuffer` | called by the main loop; calls the server's dispatch |
| `SidebandServer` (`src/src/SidebandServer.cpp`) | `m_clients` behind `m_clientsMutex`, `m_running`, modules, token, PNG cache | `Run` (rounds of poll, accept, receive, reap, tick), `Broadcast*`, `HandleAuth`, `DispatchCommand`, `StartModules`, `StopModules`, `Shutdown` | owns the sessions; calls the modules; called by the modules' threads |
| `CursorModule` / `CursorEngine` (`src/modules/CursorModule.cpp`) | last cursor handle, pointer size and DPI tier; the caret's last place and state; flags behind two mutexes | worker, text-cursor and hook threads; `OnClientConnected` | broadcasts cursor and caret packets |
| `DisplayModule` (`src/modules/DisplayModule.cpp`) | last state hash, `m_forcePush`, `m_wakeRequested`, saved settings per display | monitor thread; `OnCommand` list, switch, mode, scale | broadcasts `DISPLAY_CURRENT`; drives the Windows display APIs |
| `AudioModule` (`src/modules/AudioModule.cpp`) | last state hash, `m_forcePush`, `m_wakeRequested` | monitor thread; `OnCommand` list, default device, volume, mute | broadcasts `AUDIO_STATE`; drives WASAPI |
| `main` and `TrayIcon` (`src/main.cpp`, `src/src/TrayIcon.cpp`) | `stopping`, the window | start-up, message loop, exit | creates the server thread, stops it, stops the modules |
| `Config` (`src/src/Config.cpp`) | the ini file: token, port, log settings | load, make a token and save | read by `main` at start |
| `Logger` (`src/include/Logger.hpp`) | the log file, its size, one backup | write, rotate | used by all |
| `Json`, `Win32Util` | none | scan and escape text; wrap Windows calls | used by the modules |

Behaviours that are hard to test: partial and refused writes on a non-blocking
socket shared by four kinds of threads; sessions that end at any point of a
round, for four different reasons; requests pipelined behind one that ends the
session; a stop that races the start; pushes that are requested while the
monitor is busy or its enumeration fails; operations of several system calls of
which one fails; what was sent remembered as sent although a client joined, a
frame was dropped or a broadcast threw; files that are held, edited or cut short
between two runs.  PROJECT.json lists them one by one under `hazards`, at the
line where each bites.

What makes each component correct:

* **session**: the client's byte stream is whole packets in the order in which
  they were accepted; a short cursor packet only refers to an image the client
  has; the queue is bounded, drains, and does not outlive the socket.
* **parser**: what is dispatched is what the client's packets ask for, in order
  and at once, however TCP cuts them and whatever is skipped.
* **server**: no change of the system without the token; nothing after the
  failure limit; one answer per request under the command the client waits for;
  every session is reported to the modules once and its end noticed; a command
  that is broadcast reaches every session that stays, and no frame comes to one
  twice; a stop ends the loop.
* **modules**: what the clients were last told becomes what the system is; a new
  client is told the state; an operation that answers ok has happened.
* **cursor and caret**: a client comes to show the cursor that is on the screen;
  what it was told of the caret is near what was found last.
* **files**: the token and the limit a user counts on outlive starts, saves and
  edits; the log keeps to its limit and loses no line that its backup should hold.
* **lifecycle**: every thread that was started is joined, whatever the moment of
  the exit.

## The modules and the code

    PacketChannel          the promise of a session: packets, whole and in order
      ^ implemented by
    SidebandSession        one session's sending half, byte by byte
      MCSession            instances for TLC
      SidebandSessionProofs
    SidebandServer         the list of sessions, the main loop, authorisation, dispatch
      MCServer, SidebandServerProofs
    ReceiveParser          one session's receiving half, byte by byte, and its reference
      MCReceive, ReceiveParserProofs
    CursorWorker           the capture thread with what it caches, and the new client's reset
      MCCursor, CursorWorkerProofs
    CaretMonitor           the text-cursor thread and the hooks that poke it
      MCCaret, CaretMonitorProofs
    AudioModule            the audio monitor and the operations on outputs
      MCAudio, AudioModuleProofs
    DisplayMonitor         the display monitor and the requests that wake it
    DisplaySwitch          the display operations, one Windows call per step
      MCDisplay, DisplayProofs (of both)
    Lifecycle              start and stop of the process and its threads
    ProcessFiles           the ini file and the log over several runs of the process
      ProcessProofs (of both)

Each module takes as atomic what the module below it proves: the server's model
sends whole packets, which is `SidebandSession`'s `Framing`, and dispatches
whole requests, which is `ReceiveParser`'s `DispatchedInOrder`; the monitors'
and the cursor's models broadcast to a snapshot of the list, which is
`SidebandServer`'s `BroadcastReaches` (commands reach every session that stays up,
frames may be left out); `Lifecycle` reduces each module to its
threads and flags. Operators and variables keep the names of the code where TLA+
allows it, and PROJECT.json gives for each definition the lines it stands for.
Definitions that begin with the comment "Variant" are plausible bugs: replacing
the named definition by its variant must break the property listed with it.

**SidebandSession.**  Four kinds of threads send on one non-blocking socket.
`Build` tests `m_connected` without the mutex, `Acquire` takes `m_sendMutex`;
then every call of `send()` is a step (`FlushSent`, `DirectSent` accept any
part that fits the kernel's buffer, `Blocked` and `FlushBlocked` are
WSAEWOULDBLOCK, `DirectFailed` and `FlushFailed` the other errors), and the rest
is dropped (`Drop`), queued (`Enqueue`) or ends the session (`Overflow`).
`Account` is what `SendCursor` books after the send.  Packets are runs of
numbered bytes, so a torn packet is visible, and `wire` is a history of all
bytes that `send()` took.  `PacketChannel` knows neither threads nor queue: its
stream grows by whole packets, each of which joins it once, and is delivered from
the front.  The refinement maps the stream to `Stream`, what `send()` took and
the queue and the packet being written behind it, while the session is
connected.

**SidebandServer.**  A round of `RunRound` is split where other threads may
come between: build the poll set under `m_clientsMutex`, `WSAPoll`, accept,
each session's receive, each request's dispatch and its module's handler, reap,
tick.  Requests carry their command and whether the token is right; the tables
`HandlesCommand`, `CommandRequiresAuth` and `ResponseCommandFor` are those of
the three modules.  Broadcasters are module threads that take a snapshot and
send to it one session at a time, and may disconnect one that is stuck.  Those
that send frames (`frames`; cursor and text cursor) may also leave a session out
that stays up: the session drops a frame for a full queue and suppresses one that
repeats the last; a command is accepted or ends the session.  WSAPoll may fail
(`PollFails`), and an exception may cut a round short at each of its places:
while the poll set is built or requests are dispatched (`RoundThrows`), on the way
of a connection to the list (`AcceptThrows`: it is lost), in a module's
`OnClientConnected` (`GreetThrows`) or `OnClientDisconnected` and the rest of the
reap (`ReapThrows`); a handler's is caught by the dispatch (`CommandThrows`), a
broadcaster's by its own thread (`BroadcastThrows`).  What an exception takes of
the reports to the modules is recorded as "lost" in `notified`.

**ReceiveParser.**  The client's packets are laid out byte by byte, a field's
value at its first byte, and TCP delivers any number of them at a time.
`TryReceive` is one action per `recv()` with the limit on the buffer;
`ProcessRxBuffer` one per packet: reject an oversized one, skip what is no
command, dispatch, or erase the consumed ones and wait for more.  The reference
looks at packets only, whose bodies are sent whole however long they are, and
`recv()` may fail at any time: `Asked(n)` says that the n-th packet sent is a command
and none before it ends the session.  `ends`, a history, says where in the
stream each packet ends.

**CursorWorker.**  An image is what Windows draws for a handle at one pointer
size and one tier.  A round of `WorkerLoop` is split where another thread may
come between: the wait and its two flags, the readings of size and tier, the
capture, the moment the handle is remembered, each session of the broadcast.  A
connection is two steps, joining the list and `OnClientConnected`'s reset.  A
session is reduced to the image its client shows and to `m_lastSentHash`.

**CaretMonitor.**  A place on the desktop and the height it has under a layout;
a query finds the caret, finds nothing, or fails.  `UpdateTextCursorState`
compares the place, then the state, with the code's sentinels -1 and -2, and
notes both before it broadcasts.

**ProcessFiles.**  `Config::Load` and `Save` with each file operation a step,
over several runs that may crash anywhere.  `Logger::Log` is one step with every
outcome of its file operations, unless it rotates: then closing the log, deleting the
backup, moving the log and opening it again are a step each (`LogCloses`,
`DeletesBackup`, `MovesLog`, `LogReopens`), since the mutex it holds is the process's
own.  The user edits the ini file, other programs hold it, a second instance logs one
line before it exits and may rotate the log for it, call by call (`SecondCloses`,
`SecondReopens`).  The log and its backup are each the set of lines in it and its
length.

**AudioModule, DisplayMonitor.**  The two flags of a push request are set in two
steps (`RequestStore`, `RequestWake`) and cleared in two (`Exchange`,
`WaitEnds`); a round may throw at any of its points (`Catch`) and an enumeration
may fail: as a whole (display), or in the query of a default device, of one output
or of its level (audio).  What a state contains is one model value (display) or
the defaults and levels (audio); `told` is what each client was last told.  The
display's payload is built from two different strings: there the round may throw
every time (`BuildPayload`, `CountThrow`), or the packet's payload is not the JSON
(`whole`); `meant`, a history, is the state a push was made from, whatever
became of it.  An access violation in the copy is such an exception, as the
program is built with /EHa.

**DisplaySwitch.**  `SwitchPrimaryDisplay`, `SetDisplayMode`, `SetDisplayScale`
and `ApplySavedSettings`, run by the server thread one at a time.  Each call of
Windows may fail, and `SetDisplayConfig` may also succeed without an effect or
bring up another display with the same target id.  What Windows does is
external: a display that comes up has settings of Windows' choice (`Defaults`);
displays of one source mirror each other and share its settings (`Mirrors`);
`CDS_NORESET` calls collect in the registry (`staged`) until a call with no device
applies them all; a successful `SetDisplayConfig` is taken to end what is staged.
Between two operations others set displays (`SomeoneSets`) and switch them on and
off in any way that leaves one on (`SomeoneSwitches`: Win+P, a plug); that they do so
in the middle of an operation is not modelled.  The enumeration an operation
starts from sees the displays as they are or, with one failed query (`Blurred`), none
of them as active, one of them missing, with another source's name, without its
current mode and so not as primary, or with a scale of 100.

**Lifecycle.**  The main thread's start and exit, the windows messages that end
it, and for each other thread: not started, created, at the top of its loop,
working, waiting, ended.  The hook thread's message queue is modelled, since a
WM_QUIT posted before it exists is lost.

## The runs

Passing runs; every bound is a constant of the .cfg.

| run | bounds | what it shows |
|---|---|---|
| session_send | 4 threads, 3 hashes, a cache of 2, a queue of 3, a kernel buffer of 1, 3 packets | `Framing`, `QueueBounded`, `ShortAfterFull`, `SuppressedIsShown`; the session implements `PacketChannel`; `QueueDrains`.  No packet passes in one `send()` and two cannot be queued whole, so partial writes, drops, queueing behind a torn packet and overflow all happen; three cursors pass the cache's limit. |
| server_auth | one client, any 3 of 7 kinds of request, a limit of 2, with and without a token | `ChangesAuthorised`, `NothingAfterTheLimit`, `Answered`.  Three requests reach the limit and still have one behind it. |
| server_members | 2 clients of which one sends a request, one broadcast of a command or of a frame, one failed poll or exception | `PollSetAligned`, `NotifiedOnce`, `BroadcastReaches`, `RequestsServed`, `EndsReported`: two clients are enough for one to end while another is being polled, sent to or accepted, and for an exception to take one's report and leave the other's. |
| receive | 3 packets of 8 kinds (dispatched, foreign hash, short, inconsistent, empty, oversized, ending the session), fields of 2 bytes, `recv()` of 4, a largest body of 18 | `DispatchedInOrder`, `NothingLeftBehind`, `OnlyFloodsSwell`.  A header takes two reads at least, a length field may be cut in two, two packets of the largest size pass the buffer's limit while one does not, and an oversized one passes it before it is parsed. |
| audio_state | 2 outputs, 2 levels, 2 clients, one change or operation, one failed query of an enumeration, one exception | `NoLostWakeup`, `NoHalfSwitchSeen`, `ClientsLearn`. |
| display_monitor | 3 states, 2 clients, one change, one failure, one exception, any number of them at the payload | `NoLostWakeup`, `NobodyForgotten`, `ChangesPushed`. |
| display_switch | 3 displays on 2 sources, two with one target id, 2 values, 3 operations or changes by others, 2 failures | `OkIsActive`, `RefusedUntouched`, `ComesBack`, `ModeTakesEffect`: away, a change, and back, with two methods failing before the third. |
| cursor_worker | 2 clients, 2 handles at 2 sizes and 2 tiers, an image that hashes to 0, 2 changes, 2 connections, one fault | `RememberedIsShown`, `CursorShown`.  Two changes can alter the cursor and its size or tier in one round, and change back; the fault is a failed capture, a dropped frame or an exception. |
| caret | 2 clients, 4 places under 2 layouts, one at the top edge, others one threshold and more than one apart, 3 moves, 2 connections, one fault | `ClientWithinThreshold`, `VanishTold`, `ClickTells`. |
| lifecycle_stop | none: the state space is finite | `EngineOutlivesThreads`, `ModulesOutliveServer`, `NothingLeft`, `StopEnds`. |
| files | 2 runs, 2 edits, 3 lines of 2 lengths, limits 0 and 2, 2 tokens, 2 faults | `UserSettingsKept`, `LogBounded`, `LogLinesSurvive`: a run that leaves something wrong and one that lives with it; three lines rotate twice, or in both instances at once. |

CHECK_DEADLOCK is FALSE where the system may come to rest: the bounds on
packets, requests or operations are used up, or the process has exited.

Fairness.  The sessions, the server and the monitors assume weak fairness of
each thread's steps: an operating system that runs a thread which can run.  In the
server's the subscripts are the variables that each of the steps meant changes, so
that an exception is a step of a thread but not one that has to come.
Where threads wait for `m_audioMutex` the monitor's acquisition is strongly
fair: the server thread holds it only for single operations.  `session_send`
also assumes that a client which has not gone away reads.  In `cursor_worker`
two things are strongly fair, `WakeInTime` and `LookAgain`: the worker wakes
after the 30 ms of its wait, and now and then early enough to look, and the
500 ms of the debounce and the 2 s between two readings of the size pass.  In
`caret` weak fairness of the thread says that its calls of UI Automation
return; a target that hangs can hold them up, and then nothing is told.
`DisplaySwitch`, `ReceiveParser`, `ProcessFiles` and `server_auth` check safety
only.  Nothing is assumed of
clients connecting, sending or leaving, of exceptions and failures, or of
windows messages.

## What the code does not keep

One run must end in a counterexample; the promise it refutes is quoted in
PROJECT.json under `findings`.

* display_payload: the payload pushed by the display monitor is built from the
  iterators of two different strings, so no client is ever told the state.

The models contain more behaviours that a reader of the properties should know,
since the passing properties state what holds besides them.

Session and server:

* A sender that tested `m_connected` before another one overflowed the queue
  writes its packet behind the torn one, until the main loop closes the socket.
  `Framing` therefore speaks of what was written while the session was
  connected (`SidebandSession.cpp:47`).
* `TryReceive` reads all there is before it parses, so a client that pipelines
  legal requests fast enough passes the buffer's limit and is disconnected, and so
  may one oversized packet, for its size in the buffer instead of its length
  field; `OnlyFloodsSwell` says that a single packet of a legal length never does
  (`SidebandSession.cpp:277`).
* The failure count is never reset: five failed authentications end a session,
  whether or not they are the five in a row (连续 5 次) of the repository's
  README (`SidebandSession.cpp:375`).
* The reap takes the sessions that are down off the list before it reports them: one
  of the modules' callbacks that throws, which `Run` survives, leaves the rest
  unreported for good and unclosed until nobody holds them any more; a module
  behind one whose `OnClientConnected` throws never hears of the client.
  `NotifiedOnce` and `EndsReported` except what an exception takes there ("lost"),
  and nothing else (`SidebandServer.cpp:493`, `503`).  A broadcast's snapshot may hold
  such a session's socket open a moment longer than the model, which closes it in
  the next round.
* `Run` sets `m_running` itself; a stop that comes between the creation of the
  server thread and that line is overwritten, and the main thread waits for
  ever.  `StopEnds` starts where the server thread has been seen running
  (`SidebandServer.cpp:512`, `main.cpp:226`).

Cursor:

* A cursor that has been captured is remembered whether or not the sessions took
  the frame: a dropped one is not sent again before the next change (`missed`,
  `CursorModule.cpp:532`).
* Size and tier are read every two seconds and every 30 ms; an image drawn while
  they were different and put back before they were read stays (`unseen`).
* An image whose CRC32 is 0 is taken for sent by a new session
  (`SidebandSession.cpp:138`).  Two images of one other hash are assumed away,
  and with them the same pixels with another hotspot, which the session
  suppresses.

Text cursor:

* The sentinels -1 (no caret) and -2 (nothing sent) are compared like heights, so
  a caret that appears at the top edge is within the threshold of no caret and
  may not be told; the end of a caret is (`CursorModule.cpp:1243`).
* The place is noted before the monitor is asked and before the broadcast: after
  a failed `GetMonitorInfo`, an exception or a change of the layout the same
  place is not computed again until a click or a move.
* A packet that no session took is recorded as sent, and a new client is told
  nothing until a click or a move beyond the threshold; a click that finds no
  client is used up (`CursorModule.cpp:1254`).

Audio and displays:

* An empty or partial enumeration uses up the force flag, although
  `AudioModule.hpp:72` lets a new client expect the state; `ClientsLearn` excepts
  it for clients that were told nothing yet (`AudioModule.cpp:727`).
* A push of the display state enumerates a second time; when that fails,
  `no_primary` is sent and not corrected, because the recorded hash is that of
  the first enumeration.  `ChangesPushed` excepts failed enumerations
  (`DisplayModule.cpp:1936`).  It promises the push and the state it is made from; that
  the payload arrives is what display_payload refutes.
* Setting a scale does not request a push, unlike the other two changes: clients
  learn of it at the next poll, some seconds later (`DisplayModule.cpp:1790`).
* A switch is verified by target id without the adapter and may answer ok for
  another adapter's display; `OkIsActive` says only that a display with this
  target id is active (`DisplayModule.cpp:1106`).
* What a failed switch has staged with CDS_NORESET is applied by the next change
  of mode; `ModeTakesEffect` and `OkIsActive` ask that no operation has found
  anything staged (`clean`, `DisplayModule.cpp:1307`).
* An enumeration with a failed query is captured like any other: a failed query of the
  active paths makes no display active, so that nothing is captured and older
  settings come back; a skipped path takes a display for another one; a failed
  query of the scale is captured as 100.  `ComesBack` asks that no query failed in the
  display's last capture (`lost`, `DisplayModule.cpp:713`, `751`, `836`, `1133`).  Nor does
  it speak of a display that others have switched off: what it was set to last
  was never captured.

Files:

* An ini file that exists but cannot be opened is taken for a first run, and a
  new token and the defaults are written over it (`unread`, `Config.cpp:94`).
* `Save` truncates first and asks `good()` before the text is flushed: a crash or
  a full disk leaves an empty file, and `Config.hpp`'s "false" for a failed write
  is not returned (`Config.cpp:163`).
* Only a missing token makes `Load` write the file again; other missing settings
  take their defaults in memory.
* A log that has failed stays silent until the next rotation, for ever where
  there is no limit; a failed move costs the backup; a second instance's line is
  not counted (`foreign`, `Logger.hpp:196`, `219`).
* When a second instance rotates the log while the first one does, one may move the
  log and the other delete it as the backup: what the log held is gone.
  `LogLinesSurvive` excepts that (`alone`, `Logger.hpp:219`).

## What is proved

Every invariant, every action property and the refinement that a passing run checks is
also a theorem: the runs show them on small instances, the theorems for any
number of threads, clients, requests, packets, displays, cursors, places and
sizes that the named assumptions admit (distinct thread names, positive packet
lengths, natural bounds, heights between 0 and 100, a header that fits the
largest body); TLC checks the assumptions on every run.  Hardly any property is
inductive.  Where the strengthened invariant says something about the code, it is
named here.

* **SidebandSessionProofs**: `StreamFramed`, `QueueHolds`, `MutexHolds`.
  `Framing` alone is not inductive: a step of a sender preserves it only if that
  sender holds the mutex, nothing is queued while it writes directly, and a
  closing session is no longer connected.  `FramingInv` adds these, and the proof
  goes action by action over lemmas about concatenations, prefixes and suffixes
  of framed streams.
  `ShortFollowsFull` and `SuppressedFrameShown` follow from `CursorInv`, which
  says of `SendCursor`'s books what they stand for in the stream: only the cursor
  thread sends cursor packets, a booked hash has its full packet in the stream,
  and the last hash sent is the cursor shown there last, or is about to be
  replaced by that of a packet which has joined and is not yet booked.
  `ImplementsChannel` needs both and `PacketsFresh`, that no byte of a packet is in
  the stream before its thread sends it: every step of the session is a packet
  that joins whole and for the first time, bytes that `send()` takes, a break, or
  nothing the channel can see.
* **SidebandServerProofs**: seven theorems.  `AuthorisedChanges`: the inductive
  `AuthInv` says how authorisation was earned (an AUTH_REQ with the token among
  the dispatched requests) for each session, and for each change at an earlier
  place of its own session; `ChangesRequireAuth` reduces the tables of the
  modules.  `TypeCorrect`: the types of each group of variables.
  `NotifiedInOrder`: `MemberInv` ties what the modules were told of a client to
  the list that it is on (waiting to be accepted, just accepted, a member, taken
  off to be closed), and says that no list names a client twice.
  `PollSetMatches`: the two halves of the poll set grow together, and a socket
  in it stays open until the poll.  `LimitEnds`: `LimitInv` counts a session's
  failures over what was dispatched of it; one that has reached the limit is
  disconnected and has nothing left to dispatch.  `EveryRequestAnswered`: by
  `AnswerInv` only the request that a module is executing may still be without
  its answer, and all answers are to earlier ones; `RefusalExpected` shows that
  the tables of the modules let a refusal carry the command the client waits for.
  `BroadcastsReach`: by `CastInv` a session of a command's snapshot has not been
  reached, or has got it, or is down; no session that waits for a broadcast of
  either kind has got it already; and a session in a snapshot has been
  accepted, so that nobody new can be taken for one of its members.
* **ReceiveParserProofs**: `ParserTypes`, `CommandsInOrder`, `NothingLeft`,
  `OnlyFloods`.  The promises speak of packets, the program of bytes.  `Layout`
  says where in the stream each packet is; `InPlace` that the parser, as long as
  it will go on, stands where some packet ends, has dispatched what the packets
  before it ask for, found none of them to end the session, and between two calls
  has less than the next one.  The lemma `NextPacket` joins the two: the fields
  the program reads there are the next packet's.
* **AudioModuleProofs**: `TypeCorrect`, `HalfSwitchHidden`, `WakeupKept`.  The
  second follows from the types, which say who holds the mutex at which point;
  the third needs that between the two steps of a request the second is still
  to come.
* **DisplayProofs**, the monitor: `TypeCorrect`, `WakeupKept`,
  `ClientsRemembered`.  `PushDue` is the invariant's core: at every point of a
  round it names what guarantees the push that is still owed.  The operations:
  `SwitchTells`, `RefusalsHarmless`, `SettingsComeBack`, `ModeInForce`, all from
  `SwitchInv`.  Its parts say which operations can be at which phase
  (`KindsOfPhase`), up to where nothing has been touched (`UntouchedYet`), that
  while the history is clean what is staged was staged by the operation that runs
  (`StagedByUs`), that an answer ok comes after the verification (`Verified`),
  that what is saved for a display that is off and whose last capture was sound is what
  the history remembers of it (`SavedIsPast`), and what is restored of it between the two halves of
  `ApplySavedSettings` (`HalfRestored`).
* **CursorWorkerProofs**: `CursorTypes`, `RememberedShown`.  The property speaks
  of the time between rounds; `BeforeFrame` and `DuringSend` carry it through the
  broadcast, where a client that is in nobody's turn any more has been served or
  has a reset pending, and `HashIsShown` says what a session's last hash means,
  without which a suppressed frame could not be told from a lost one.
* **CaretMonitorProofs**: `CaretTypes`, `CaretNear`.  `ToldLastSent` says that
  every client that missed nothing was told the state sent last, and
  `NotWorthSending` that an update which sends nothing found a state near to it;
  together they bound the error by one threshold, however many small moves.
* **ProcessProofs**, the lifecycle: `EngineSafe`, `ModulesSafe`, `NothingRuns`.
  None is inductive alone: `StopInv` says phase by phase of the main thread which
  threads it has joined, that no module is told to end before the server
  thread has been joined, and when the engine and the hooks exist.  The files:
  `FilesTypes`, `SettingsKept`.  `Saving` says that a save is reached only where
  no copied token can be lost, unless the file could not be read, and
  `RunKnowsToken` that a run accepts what its file says.  `LinesSurvive` and
  `LogKeepsToLimit` are about single steps and rest on `LogInv`: while the log is
  open, its length is at most `m_size` and what a second instance has written
  (`StreamCounts`); what a rotation of which no call failed reopens is only what
  others wrote since, whether it or the second instance moved the log
  (`OthersOnly`); and the lines that a rotation began with are in the log until it
  is moved, in one of the files after that (`LinesOf`).

Only model-checked: liveness (`QueueDrains`, `RequestsServed`, `EndsReported`,
`StopEnds`, `ClientsLearn`, `ChangesPushed`, `CursorShown`, `VanishTold`,
`ClickTells`), since neither fairness nor ENABLED can be reasoned about in the
proof system used, and `NewClientTold`, which the code does not keep.

## What is not modelled

`Json` and `Win32Util`: pure text functions and wrappers of single calls, with
unit tests of their own in the repository.  Of `main` and `TrayIcon`, the icon
and its menu, the crash handlers and the command line; of the server, the PNG
cache and the socket's setup.  Pixels, PNG encoding, the text of JSON and of the
ini file (a record in `ProcessFiles`; that `5MB` is read as 5 and `abc` as 0, no
limit, is not in it), COM, the ways of UI Automation to find a caret, the frames
of animated cursors, the table of DPI steps and the guards against drivers that
write too much are data or plumbing no property here is about.  Windows is
modelled by what the code relies on and by how its calls may fail.

## Plan

1. The cursor's broadcast composed with the session's queue and cache, instead of
   the reduction to `m_lastSentHash`; the composition's invariants from those of
   its parts.
2. Step properties behind the liveness that can be proved: that each step of a
   queue that drains, of a stop and of a round goes forward.
3. The index arithmetic of the DPI table against a reference.
