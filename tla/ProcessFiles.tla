----------------------------- MODULE ProcessFiles -----------------------------
(***************************************************************************)
(* The two files the process keeps beside its executable, over several     *)
(* runs: moonlight_sideband.ini (src/src/Config.cpp) with its token and,   *)
(* for the settings, log_max_bytes; and the log that this setting limits,  *)
(* with its one backup (src/include/Logger.hpp).  src/main.cpp loads the   *)
(* one and initialises the other.                                          *)
(*                                                                         *)
(* The ini file may be held by another program, a save may be cut short or *)
(* lost, renames and writes may fail, and a second instance, which logs    *)
(* one line, may rotate the log while the first one does.                  *)
(***************************************************************************)
EXTENDS Integers

CONSTANTS
    Limits,         \* values of log_max_bytes a user may set
    DefaultMax,     \* m_maxBytes before Init, and the setting's default
    Lengths,        \* lengths of a line
    Missing,        \* there is no ini file
    NoLimit,        \* the file has no log_max_bytes line
    MaxTokens, MaxRuns, MaxEdits, MaxLines, MaxFaults     \* bounds

ASSUME FilesAssumption ==
    /\ Limits \subseteq Nat /\ DefaultMax \in Nat \ {0}
    /\ Lengths \subseteq Nat \ {0}
    /\ NoLimit \notin Nat /\ Missing \notin [limit : Nat \cup {NoLimit}, token : Nat]
    /\ {MaxTokens, MaxRuns, MaxEdits, MaxLines, MaxFaults} \subseteq Nat

\* The process whose runs these are, and another one started meanwhile.
Instances == {"first", "second"}
Other(p) == IF p = "first" THEN "second" ELSE "first"

NoToken == 0
Tokens == 0..MaxTokens

VARIABLES
    file, locked,       \* the ini file; another program holds it
    pc, cfg,            \* main; its Config
    unread,             \* history: this run could not open an existing file
    log, backup,        \* the log and its .1
    open, bad, m_size,  \* m_file.is_open(), its error bits, m_size
    m_maxBytes,
    copied, wanted,     \* history: the token and limit the user counts on
    foreign,            \* history: bytes of the log that other instances wrote since
                        \* it was opened or a rotation began
    at, incoming,       \* per instance: where its rotation is, and the length of the
                        \* line that waits for it
    kept, alone,        \* per instance, history: the lines of the log when it closed
                        \* it; the other has not been rotating since
    smooth,             \* history: no call of the first one's rotation has failed
    tokens, runs, edits, lines, faults

iniVars  == <<file, locked>>
mainVars == <<pc, cfg, unread>>
rotVars  == <<at, incoming, kept, alone, smooth>>
logVars  == <<log, backup, open, bad, m_size, m_maxBytes, foreign, rotVars>>
histVars == <<copied, wanted>>
filesVars == <<iniVars, mainVars, logVars, histVars, tokens, runs, edits, lines, faults>>

\* A log file is the lines it holds and its length; no file is one of no lines.
NoLines == [ids |-> {}, bytes |-> 0]

Default == [limit |-> DefaultMax, token |-> NoToken]
Empty   == [limit |-> NoLimit, token |-> NoToken]

\* What the lines of the file make of the defaults.
Parsed(f) == [limit |-> IF f.limit = NoLimit THEN DefaultMax ELSE f.limit,
              token |-> f.token]

FilesInit ==
    /\ file = Missing /\ locked = FALSE
    /\ pc = "off" /\ cfg = Default /\ unread = FALSE
    /\ log = NoLines /\ backup = NoLines
    /\ open = FALSE /\ bad = FALSE /\ m_size = 0 /\ m_maxBytes = DefaultMax
    /\ copied = NoToken /\ wanted = DefaultMax
    /\ foreign = 0 /\ smooth = TRUE
    /\ at = [p \in Instances |-> "idle"] /\ incoming = [p \in Instances |-> 0]
    /\ kept = [p \in Instances |-> {}] /\ alone = [p \in Instances |-> TRUE]
    /\ tokens = 0 /\ runs = 0 /\ edits = 0 /\ lines = 0 /\ faults = 0

Fault == faults < MaxFaults /\ faults' = faults + 1

-----------------------------------------------------------------------------
(* The user, between runs or while one is working: copies the token to the  *)
(* phone, sets the limit, removes the token's line or the file.             *)

Editing == pc \in {"off", "run"} /\ file # Missing /\ ~locked

CopyToken ==
    /\ Editing /\ file.token # NoToken /\ copied' = file.token
    /\ UNCHANGED <<iniVars, mainVars, logVars, wanted, tokens, runs, edits, lines, faults>>

Edit(f, w) ==
    /\ Editing /\ edits < MaxEdits /\ edits' = edits + 1
    /\ file' = f /\ wanted' = w
    /\ copied' = IF f = Missing \/ f.token = NoToken THEN NoToken ELSE copied
    /\ UNCHANGED <<locked, mainVars, logVars, tokens, runs, lines, faults>>

SetLimit    == \E l \in Limits : Edit([file EXCEPT !.limit = l], l)
DeleteToken == Edit([file EXCEPT !.token = NoToken], wanted)
DeleteFile  == Edit(Missing, DefaultMax)

\* An editor, a backup or a scanner holds the file, then lets it go.
HoldFile ==
    /\ file # Missing /\ pc # "write" /\ ~locked /\ Fault
    /\ locked' = TRUE
    /\ UNCHANGED <<file, mainVars, logVars, histVars, tokens, runs, edits, lines>>

ReleaseFile ==
    /\ locked /\ locked' = FALSE
    /\ UNCHANGED <<file, mainVars, logVars, histVars, tokens, runs, edits, lines, faults>>

-----------------------------------------------------------------------------
(* main and Config. *)

\* The logger is a new one, with its default limit and no file open.
Start ==
    /\ pc = "off" /\ runs < MaxRuns /\ runs' = runs + 1
    /\ pc' = "load" /\ cfg' = Default /\ unread' = FALSE
    /\ open' = FALSE /\ bad' = FALSE /\ m_size' = 0 /\ m_maxBytes' = DefaultMax
    /\ foreign' = 0
    /\ UNCHANGED <<iniVars, log, backup, rotVars, histVars, tokens, edits, lines, faults>>

Readable == file # Missing /\ ~locked

\* main waits for its own call of the logger, and in Init for the others' calls.
MainAt(place) == pc = place /\ at["first"] = "idle"

GenerateToken(c) ==
    /\ tokens < MaxTokens /\ tokens' = tokens + 1
    /\ cfg' = [c EXCEPT !.token = tokens + 1]
    /\ pc' = "save"

\* A file that cannot be opened is taken for a first run.
FirstRun ==
    /\ MainAt("load") /\ ~Readable
    /\ GenerateToken(Default)
    /\ unread' = (file # Missing)
    /\ UNCHANGED <<iniVars, logVars, histVars, runs, edits, lines, faults>>

LoadWhole ==
    /\ MainAt("load") /\ Readable /\ Parsed(file).token # NoToken
    /\ cfg' = Parsed(file) /\ pc' = "init"
    /\ UNCHANGED <<iniVars, unread, logVars, histVars, tokens, runs, edits, lines, faults>>

\* Variant: a file without a token is treated as a first run.
LoadWithoutTokenAfresh ==
    /\ MainAt("load") /\ Readable /\ Parsed(file).token = NoToken
    /\ GenerateToken(Default)
    /\ UNCHANGED <<iniVars, unread, logVars, histVars, runs, edits, lines, faults>>

\* The user has removed the token's line: the other settings are kept.
LoadWithoutToken ==
    /\ MainAt("load") /\ Readable /\ Parsed(file).token = NoToken
    /\ GenerateToken(Parsed(file))
    /\ UNCHANGED <<iniVars, unread, logVars, histVars, runs, edits, lines, faults>>

\* Save cannot open the file: the run goes on with what is in memory.
SaveRefused ==
    /\ MainAt("save")
    /\ IF locked THEN UNCHANGED faults ELSE Fault
    /\ pc' = "init"
    /\ UNCHANGED <<iniVars, cfg, unread, logVars, histVars, tokens, runs, edits, lines>>

\* std::ios::trunc: the old content is gone at once, and what the user counted
\* on with it when this run could not read it.
SaveOpens ==
    /\ MainAt("save") /\ ~locked
    /\ file' = Empty /\ pc' = "write"
    /\ copied' = IF unread THEN NoToken ELSE copied
    /\ wanted' = IF unread THEN DefaultMax ELSE wanted
    /\ UNCHANGED <<locked, cfg, unread, logVars, tokens, runs, edits, lines, faults>>

\* The buffered text reaches the file when the stream is destroyed.
SaveWrites ==
    /\ MainAt("write") /\ file' = cfg /\ pc' = "init"
    /\ UNCHANGED <<locked, cfg, unread, logVars, histVars, tokens, runs, edits, lines, faults>>

\* It does not: good() has been asked before, and the run goes on.  The file
\* stays empty and the setting is lost.
SaveLost ==
    /\ MainAt("write") /\ Fault
    /\ pc' = "init" /\ wanted' = DefaultMax
    /\ UNCHANGED <<iniVars, cfg, unread, logVars, copied, tokens, runs, edits, lines>>

LoggerInit ==
    /\ MainAt("init") /\ pc' = "run"
    /\ m_maxBytes' = cfg.limit
    /\ UNCHANGED <<iniVars, cfg, unread, log, backup, open, bad, m_size, foreign, rotVars,
                   histVars, tokens, runs, edits, lines, faults>>

\* The instance is done with its rotation.
Free(p) ==
    /\ at' = [at EXCEPT ![p] = "idle"]
    /\ incoming' = [incoming EXCEPT ![p] = 0]
    /\ kept' = [kept EXCEPT ![p] = {}]
    /\ smooth' = (p = "first" \/ smooth)
    /\ alone' = [q \in Instances |-> at[Other(p)] = "idle" \/ alone[q]]

\* The process ends, or crashes: in the middle of a save the file stays empty, of a
\* rotation what it has come to.
Stop ==
    /\ pc # "off" /\ pc' = "off"
    /\ \/ MainAt(pc) /\ pc \in {"init", "run"} /\ UNCHANGED <<wanted, faults>>
       \/ pc # "write" /\ Fault /\ UNCHANGED wanted
       \/ pc = "write" /\ Fault /\ wanted' = DefaultMax
    /\ open' = FALSE
    /\ Free("first")
    /\ UNCHANGED <<iniVars, cfg, unread, log, backup, bad, m_size, m_maxBytes, foreign,
                   copied, tokens, runs, edits, lines>>

-----------------------------------------------------------------------------
(* Logger::Log, under m_mutex: a call is one step, or several if it rotates. *)

\* Variant: an opened log counts from nothing.
SizeAtOpenForgotten == 0

\* EnsureOpenLocked seeks to the end.
SizeAtOpen == log.bytes

\* It is called before the test, too.
SizeNow == IF open THEN m_size ELSE SizeAtOpen

Rotates(n) == m_maxBytes # 0 /\ SizeNow + n > m_maxBytes

\* The next line, of n bytes, is appended to the log.
WithLine(n) == [ids |-> log.ids \cup {lines + 1}, bytes |-> log.bytes + n]

\* The stream takes the line unless it is bad already or becomes so; m_size
\* counts it either way.
Write(n, size, wasBad, fails) ==
    LET written == ~wasBad /\ ~fails
    IN /\ log' = IF written THEN WithLine(n) ELSE log
       /\ bad' = ~written
       /\ m_size' = size + n

Logs(p) ==
    /\ pc # "off" /\ at[p] = "idle" /\ lines < MaxLines
    /\ UNCHANGED <<iniVars, mainVars, m_maxBytes, histVars, tokens, runs, edits>>

Count == lines' = lines + 1

\* The open file, or the one opened now, has room.
LogLine(n) ==
    /\ Logs("first") /\ ~Rotates(n)
    /\ Count
    /\ open' = TRUE
    /\ \E fails \in BOOLEAN :
        /\ IF fails THEN Fault ELSE UNCHANGED faults
        /\ Write(n, SizeNow, open /\ bad, fails)
    /\ UNCHANGED <<backup, foreign, rotVars>>

\* The log cannot be opened: the line is lost, and the next one tries again.
LogNotOpened(n) ==
    /\ Logs("first") /\ ~open /\ Fault
    /\ m_maxBytes = 0 \/ m_size + n <= m_maxBytes
    /\ Count
    /\ UNCHANGED <<log, backup, open, bad, m_size, foreign, rotVars>>

\* Variant: the log is moved before the backup is deleted.
AfterMoveFirst == [idle |-> "move", move |-> "delete", delete |-> "reopen"]

\* The order of the calls of RotateIfNeededLocked.
After == [idle |-> "delete", delete |-> "move", move |-> "reopen"]

\* The log is closed ...
Closes(p, n) ==
    /\ at' = [at EXCEPT ![p] = After["idle"]]
    /\ incoming' = [incoming EXCEPT ![p] = n]
    /\ kept' = [kept EXCEPT ![p] = log.ids]
    /\ alone' = [q \in Instances |-> at[Other(p)] = "idle"]

LogCloses(n) ==
    /\ Logs("first") /\ Rotates(n)
    /\ Closes("first", n)
    /\ open' = FALSE /\ foreign' = 0 /\ smooth' = TRUE
    /\ UNCHANGED <<log, backup, bad, m_size, lines, faults>>

\* ... and goes from one call to the next, whether it fails or not.
Passes(p, fails) ==
    /\ at' = [at EXCEPT ![p] = After[at[p]]]
    /\ IF fails THEN Fault ELSE UNCHANGED faults
    /\ smooth' = (smooth /\ ~(fails /\ p = "first"))
    /\ UNCHANGED <<iniVars, mainVars, open, bad, m_size, m_maxBytes, incoming, kept, alone,
                   histVars, tokens, runs, edits, lines>>

\* DeleteFileW, of the backup.
DeletesBackup(p) ==
    /\ at[p] = "delete"
    /\ \E fails \in BOOLEAN :
        /\ Passes(p, fails)
        /\ backup' = IF fails THEN backup ELSE NoLines
    /\ UNCHANGED <<log, foreign>>

\* A log that the first instance has open cannot be moved, nor onto a backup.
Movable == ~open /\ backup = NoLines

\* MoveFileW, of the log.
MovesLog(p) ==
    /\ at[p] = "move"
    /\ \E fails \in BOOLEAN :
        /\ Passes(p, fails)
        /\ IF Movable /\ ~fails
           THEN log' = NoLines /\ backup' = log /\ foreign' = 0
           ELSE UNCHANGED <<log, backup, foreign>>

\* The log is opened again with whatever it then holds, its error bits cleared,
\* and takes the line; or it cannot be opened and the line is lost.
LogReopens ==
    /\ at["first"] = "reopen"
    /\ Count /\ Free("first")
    /\ \/ \E fails \in BOOLEAN :
            /\ IF fails THEN Fault ELSE UNCHANGED faults
            /\ open' = TRUE
            /\ Write(incoming["first"], SizeAtOpen, FALSE, fails)
       \/ Fault /\ m_size' = 0 /\ bad' = FALSE /\ UNCHANGED <<log, open>>
    /\ UNCHANGED <<iniVars, mainVars, backup, m_maxBytes, foreign, histVars, tokens, runs,
                   edits>>

\* main of a second instance logs one line, with the default limit and its own
\* count, and exits: it has the log open for that step only.  A rotation is its own
\* calls, under a mutex of its own.
SecondWrites(n) ==
    /\ Count
    /\ log' = WithLine(n)
    /\ foreign' = IF open \/ at["first"] # "idle" THEN foreign + n ELSE 0
    /\ UNCHANGED <<backup, open, bad, m_size, faults>>

SecondLogs(n) ==
    /\ Logs("second") /\ log.bytes + n <= DefaultMax
    /\ SecondWrites(n)
    /\ UNCHANGED rotVars

SecondCloses(n) ==
    /\ Logs("second") /\ log.bytes + n > DefaultMax
    /\ Closes("second", n)
    /\ UNCHANGED <<log, backup, open, bad, m_size, foreign, smooth, lines, faults>>

SecondReopens ==
    /\ at["second"] = "reopen"
    /\ SecondWrites(incoming["second"])
    /\ Free("second")
    /\ UNCHANGED <<iniVars, mainVars, m_maxBytes, histVars, tokens, runs, edits>>

-----------------------------------------------------------------------------
FilesNext ==
    \/ CopyToken \/ SetLimit \/ DeleteToken \/ DeleteFile
    \/ HoldFile \/ ReleaseFile
    \/ Start \/ FirstRun \/ LoadWhole \/ LoadWithoutToken
    \/ SaveRefused \/ SaveOpens \/ SaveWrites \/ SaveLost
    \/ LoggerInit \/ Stop
    \/ \E n \in Lengths :
        \/ LogLine(n) \/ LogNotOpened(n) \/ LogCloses(n)
        \/ SecondLogs(n) \/ SecondCloses(n)
    \/ \E p \in Instances : DeletesBackup(p) \/ MovesLog(p)
    \/ LogReopens \/ SecondReopens

FilesSpec == FilesInit /\ [][FilesNext]_filesVars

-----------------------------------------------------------------------------
(* Properties. *)

\* The ini file, main's settings and the logger's limit keep to their types.
TypeOK ==
    /\ file = Missing \/ file \in [limit : Limits \cup {DefaultMax, NoLimit}, token : Tokens]
    /\ cfg \in [limit : Limits \cup {DefaultMax}, token : Tokens]
    /\ pc \in {"off", "load", "save", "write", "init", "run"}
    /\ locked \in BOOLEAN /\ unread \in BOOLEAN /\ open \in BOOLEAN /\ bad \in BOOLEAN
    /\ m_maxBytes \in Limits \cup {DefaultMax}
    /\ at \in [Instances -> {"idle", "delete", "move", "reopen"}]
    /\ copied \in Tokens /\ wanted \in Limits \cup {DefaultMax} /\ tokens \in Tokens

\* What the user counts on is what the file says: the token copied to a phone
\* stays the one of the file, and every run that could read the file accepts it;
\* the limit that was set stays in force when a new token is made.  No start,
\* refused save or held file changes either; a save that is lost or cut short
\* costs the limit, and a run that could not read the file but could write it
\* costs both.
UserSettingsKept ==
    /\ copied # NoToken =>
           /\ file # Missing /\ file.token = copied
           /\ pc = "run" /\ ~unread => cfg.token = copied
    /\ (file # Missing /\ pc # "write") => Parsed(file).limit = wanted

\* A line that is logged and no call of which fails leaves a log of which this
\* instance has written no more than the limit, or this line alone: across
\* restarts, changes of the limit, earlier failures, and another instance that
\* writes to the log or rotates it, whatever of this one's call comes in between.
LogBounded ==
    [][\A n \in Lengths :
          /\ LogLine(n) \/ (LogReopens /\ incoming["first"] = n /\ smooth)
          /\ faults' = faults
          => \/ m_maxBytes = 0 \/ log'.bytes - foreign' = n
             \/ log'.bytes - foreign' <= m_maxBytes]_filesVars

\* A rotation costs the backup at most, whichever of its calls fails and whatever
\* is written meanwhile: every line that the log held when it was closed is in one
\* of the two files, until it has been opened again.  Of two rotations at once, by
\* two instances, one may move the log and the other delete it as the backup: that
\* is excepted.
LogLinesSurvive ==
    [][\A p \in Instances :
          at[p] # "idle" /\ alone[p] => kept[p] \subseteq log'.ids \cup backup'.ids]_filesVars
=============================================================================
