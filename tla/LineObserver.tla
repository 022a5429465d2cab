--------------------------- MODULE LineObserver ----------------------------
(***************************************************************************)
(* The adapter of agents whose history is one JSON object per line         *)
(* (internal/lineobserver/observer.go), with the Reduce functions of       *)
(* Claude Code (claudeobserver) and Gemini CLI (geminiobserver).           *)
(*                                                                         *)
(* A log is a sequence of lines, each of them written in one piece or in   *)
(* two: sizes and offsets count half lines.  Of a session only its status  *)
(* and its managed indicator are kept.                                     *)
(* A step is one critical section of mu or one file of the walk.  Stat and *)
(* ReadAll are one step: what is appended between them is read all the     *)
(* same, and after a truncation between them nothing is read.              *)
(***************************************************************************)
EXTENDS Integers, SequencesExt

CONSTANTS
    Paths,       \* log files, as naturals in the order WalkDir meets them
    Ids,         \* native session ids
    None,        \* no session id
    Written,     \* bound: the lines that are written, of Lines
    MaxLines,    \* bound: lines of a log
    MaxChanges   \* bound: changes of the log directory and failing reads

VARIABLES
    agent,      \* which adapter it is
    root,       \* the directory of the logs exists
    disk,       \* the logs
    changes,    \* bounded counter
    rewritten,  \* history: logs rewritten since the observer last read them
    files,      \* Observer.files with each file's state
    sessions,   \* Observer.sessions
    shared,     \* history: sessions that a second log has joined
    phase,      \* as in CodexObserver
    walk        \* the Scan that runs

diskVars == <<root, disk, changes>>
memory == <<files, sessions, shared>>
vars == <<agent, diskVars, rewritten, memory, phase, walk>>

Bad == [id |-> None, kind |-> "bad"]             \* not a JSON object
Lines == [id : Ids \cup {None}, kind : {"user", "reply", "other"}] \cup {Bad}

ASSUME LineAssumption ==
    /\ Paths \subseteq Nat /\ None \notin Ids
    /\ Written \subseteq Lines
    /\ MaxLines \in Nat /\ MaxChanges \in Nat

\* half: the last line is not complete yet.
Missing == [there |-> FALSE, lines |-> <<>>, half |-> FALSE]
Size(log) == 2 * Len(log.lines) - (IF log.half THEN 1 ELSE 0)

\* A fileState; pending is the line whose first half was read.
Untracked == [known |-> FALSE, offset |-> 0, pending |-> Bad, session |-> None]
Tracked == [Untracked EXCEPT !.known = TRUE]

Absent == [there |-> FALSE, status |-> "none", managed |-> FALSE]

Resting == [pc |-> "idle", todo |-> {}, seen |-> {}, path |-> 0,
            lines |-> <<>>]

Init ==
    /\ agent \in {"claude", "gemini"}
    /\ root = FALSE /\ disk = [p \in Paths |-> Missing] /\ changes = 0
    /\ rewritten = {} /\ shared = {}
    /\ files = [p \in Paths |-> Untracked]
    /\ sessions = [id \in Ids |-> Absent]
    /\ phase = "initial" /\ walk = Resting

-----------------------------------------------------------------------------
(* Reduce: the session of a line and what the line says of its status.  A  *)
(* file is reduced to [session, status]; session None is the zero value    *)
(* that sessions[""] yields.                                               *)

NewFile == [session |-> None, status |-> "none"]

\* Claude Code needs an id in every line, Gemini CLI only in the first one;
\* neither looks at the id again once the session has one.
NativeID(of, line) ==
    IF agent = "claude" /\ line.id = None THEN None
    ELSE IF of.session # None THEN of.session ELSE line.id

\* "user" stands for every line that shows the agent at work (a tool call of
\* Claude Code too), "reply" for the end of a turn, "other" for lines that say
\* nothing of the status; an error of Claude Code is one more such kind.
StatusAfter(status, line) ==
    CASE line.kind = "user"  -> "active"
      [] line.kind = "reply" -> "idle"
      [] line.kind = "other" -> IF status = "none" THEN "idle" ELSE status

\* reduceLine on a file's state, markUnknown included.
Reduced(of, line) ==
    IF line = Bad
    THEN IF of.session = None THEN of ELSE [of EXCEPT !.status = "unknown"]
    ELSE IF NativeID(of, line) = None THEN of
    ELSE [session |-> NativeID(of, line),
          status |-> StatusAfter(of.status, line)]

-----------------------------------------------------------------------------
(* Scan.                                                                   *)

\* sessionReferencedExceptLocked.
ReferencedExcept(id, p) == \E q \in Paths \ {p} : files[q].session = id

NextPhase == IF phase = "initial" THEN "first" ELSE "polling"
FailedPhase == CASE phase = "initial" -> "failed"
                 [] phase = "first"   -> "stopped"
                 [] phase = "polling" -> "polling"

\* Without a root the walk ends at once, and Scan swallows the error.
StartScan ==
    /\ phase \notin {"stopped", "failed"} /\ walk.pc = "idle"
    /\ IF root
       THEN /\ walk' = [Resting EXCEPT !.pc = "walk",
                                       !.todo = {p \in Paths : disk[p].there}]
            /\ UNCHANGED phase
       ELSE phase' = NextPhase /\ UNCHANGED walk
    /\ UNCHANGED <<agent, diskVars, rewritten, memory>>

UpNext(p) == /\ walk.pc = "walk" /\ p \in walk.todo
             /\ \A q \in walk.todo : p <= q

\* Stat fails for a file that was deleted since it was listed.
FileVanished(p) ==
    /\ UpNext(p) /\ ~disk[p].there
    /\ walk' = Resting /\ phase' = NextPhase
    /\ UNCHANGED <<agent, diskVars, rewritten, memory>>

Truncated(p) == Size(disk[p]) < files[p].offset

\* The check of the size at the start of scanFile.
Checked(p) == IF Truncated(p) \/ ~files[p].known THEN Tracked ELSE files[p]

CheckedSessionsKept(p) == sessions            \* mutant of CheckedSessions
CheckedSessions(p) ==
    IF Truncated(p) /\ files[p].session # None
                    /\ ~ReferencedExcept(files[p].session, p)
    THEN [sessions EXCEPT ![files[p].session] = Absent]
    ELSE sessions

\* Sessions that have gone are not shared any more.
StillShared(next) == {id \in shared : next[id].there}

\* The lines of log that end between the offset of file and the end.  The
\* first one is glued together when its first half was read before.
ReadLines(file, log) ==
    LET first == file.offset \div 2
        whole == SubSeq(log.lines, first + 1, Size(log) \div 2) IN
    IF file.offset % 2 = 0 \/ whole = <<>> \/ file.pending = whole[1]
    THEN whole
    ELSE <<Bad>> \o Tail(whole)

LeftoverLost(log) == Bad                      \* mutant of Leftover
\* The half line at the end, kept for the next scan.
Leftover(log) == IF log.half THEN Last(log.lines) ELSE Bad

PositionDoubled(file, log) ==                 \* mutant of Position
    [file EXCEPT !.offset = @ + Size(log), !.pending = Leftover(log)]
\* A file of the size that was read before is not opened.
Position(file, log) ==
    IF Size(log) = file.offset THEN file
    ELSE [file EXCEPT !.offset = Size(log), !.pending = Leftover(log)]

\* The walk with lines of p left to reduce, or on its way to the next file.
Reducing(p, lines, todo, seen) ==
    [Resting EXCEPT !.todo = todo, !.seen = seen, !.lines = lines,
                    !.pc = IF lines = <<>> THEN "walk" ELSE "lines",
                    !.path = IF lines = <<>> THEN 0 ELSE p]

ScanFile(p) ==
    LET lines == ReadLines(Checked(p), disk[p]) IN
    /\ UpNext(p) /\ disk[p].there
    /\ files' = [files EXCEPT ![p] = Position(Checked(p), disk[p])]
    /\ sessions' = CheckedSessions(p)
    /\ shared' = StillShared(sessions')
    /\ rewritten' = IF Truncated(p) THEN rewritten \ {p} ELSE rewritten
    /\ walk' = Reducing(p, lines, walk.todo \ {p}, walk.seen \cup {p})
    /\ UNCHANGED <<agent, diskVars, phase>>

\* Open or ReadAll fails, after the check of the size: the walk ends.
ReadFails(p) ==
    /\ UpNext(p) /\ disk[p].there /\ Size(disk[p]) # Checked(p).offset
    /\ changes < MaxChanges /\ changes' = changes + 1
    /\ files' = [files EXCEPT ![p] = Checked(p)]
    /\ sessions' = CheckedSessions(p)
    /\ shared' = StillShared(sessions')
    /\ rewritten' = IF Truncated(p) THEN rewritten \ {p} ELSE rewritten
    /\ walk' = Resting /\ phase' = FailedPhase
    /\ UNCHANGED <<agent, root, disk>>

CurrentBlank(p) == Absent                     \* mutant of Current
\* sessions[state.sessionID], the zero value for a file without a session.
Current(p) ==
    IF files[p].session = None THEN Absent ELSE sessions[files[p].session]

\* The next line of the file.
ReduceLine ==
    LET p == walk.path
        id == files[p].session
        next == Reduced([session |-> id, status |-> Current(p).status],
                        Head(walk.lines)) IN
    /\ walk.pc = "lines"
    /\ walk' = Reducing(p, Tail(walk.lines), walk.todo, walk.seen)
    /\ files' = [files EXCEPT ![p].session = next.session]
    /\ sessions' =
         IF next.session = None THEN sessions
         ELSE [sessions EXCEPT ![next.session] =
                 [there |-> TRUE, status |-> next.status,
                  managed |-> Current(p).managed]]
    /\ shared' = IF id = None /\ next.session # None
                              /\ sessions[next.session].there
                 THEN shared \cup {next.session} ELSE shared
    /\ UNCHANGED <<agent, diskVars, rewritten, phase>>

ForgottenNot == files                         \* mutant of Forgotten
Forgotten ==
    [p \in Paths |-> IF p \in walk.seen THEN files[p] ELSE Untracked]

\* Files that the walk has not met are forgotten, and their sessions with them
\* unless a file that is left has the session.
FinishWalk ==
    /\ walk.pc = "walk" /\ walk.todo = {}
    /\ files' = Forgotten
    /\ sessions' = [id \in Ids |-> IF \E p \in walk.seen : files[p].session = id
                                   THEN sessions[id] ELSE Absent]
    /\ shared' = StillShared(sessions')
    /\ rewritten' = rewritten \cap walk.seen
    /\ walk' = Resting /\ phase' = NextPhase
    /\ UNCHANGED <<agent, diskVars>>

-----------------------------------------------------------------------------
(* The relay, which connects after the initial Scan.                       *)

SetManaged(id, process) ==
    /\ phase \notin {"initial", "failed"} /\ sessions[id].there
    /\ sessions' = [sessions EXCEPT ![id].managed = process]
    /\ UNCHANGED <<agent, diskVars, rewritten, files, shared, phase, walk>>

-----------------------------------------------------------------------------
(* The log directory.                                                      *)

Change ==
    /\ changes < MaxChanges /\ changes' = changes + 1
    /\ UNCHANGED <<agent, memory, phase, walk>>

\* The agent writes a line, or the first part of one.
Write(p, line, half) ==
    /\ Change
    /\ ~disk[p].half /\ Len(disk[p].lines) < MaxLines
    /\ root' = TRUE
    /\ disk' = [disk EXCEPT ![p] = [there |-> TRUE, half |-> half,
                                    lines |-> Append(@.lines, line)]]
    /\ UNCHANGED rewritten

CompleteLine(p) ==
    /\ Change
    /\ disk[p].half
    /\ disk' = [disk EXCEPT ![p].half = FALSE]
    /\ UNCHANGED <<root, rewritten>>

\* What was read of these logs is not what their next bytes follow on.
Rewrite(paths) ==
    rewritten' = rewritten \cup {p \in paths : files[p].offset > 0}

Truncate(p) ==
    /\ Change
    /\ disk[p].lines # <<>>
    /\ disk' = [disk EXCEPT ![p] = [Missing EXCEPT !.there = TRUE]]
    /\ Rewrite({p})
    /\ UNCHANGED root

Delete(p) ==
    /\ Change
    /\ disk[p].there
    /\ disk' = [disk EXCEPT ![p] = Missing]
    /\ Rewrite({p})
    /\ UNCHANGED root

RemoveRoot ==
    /\ Change
    /\ root
    /\ root' = FALSE
    /\ disk' = [p \in Paths |-> Missing]
    /\ Rewrite(Paths)

ScanStep ==
    \/ StartScan \/ ReduceLine \/ FinishWalk
    \/ \E p \in Paths : FileVanished(p) \/ ScanFile(p)

DiskStep ==
    \/ \E p \in Paths, line \in Written, half \in BOOLEAN : Write(p, line, half)
    \/ \E p \in Paths : CompleteLine(p) \/ Truncate(p) \/ Delete(p)
    \/ RemoveRoot
    \/ \E p \in Paths : ReadFails(p)

Next ==
    \/ ScanStep \/ DiskStep
    \/ \E id \in Ids, process \in BOOLEAN : SetManaged(id, process)

\* The poll ticker runs the adapter; nothing else need ever happen.
Spec == Init /\ [][Next]_vars /\ WF_vars(ScanStep)
-----------------------------------------------------------------------------
(* Properties.                                                             *)

\* Every variable keeps its type, and no offset lies beyond the bound of a log.
TypeOK ==
    /\ agent \in {"claude", "gemini"} /\ root \in BOOLEAN
    /\ disk \in [Paths -> [there : BOOLEAN, lines : BoundedSeq(Lines, MaxLines),
                           half : BOOLEAN]]
    /\ changes \in 0 .. MaxChanges
    /\ files \in [Paths -> [known : BOOLEAN, offset : 0 .. 2 * MaxLines,
                            pending : Lines, session : Ids \cup {None}]]
    /\ sessions \in [Ids -> [there : BOOLEAN, managed : BOOLEAN,
                             status : {"none", "active", "idle", "unknown"}]]
    /\ rewritten \subseteq Paths /\ shared \subseteq Ids
    /\ phase \in {"initial", "first", "polling", "stopped", "failed"}
    /\ walk \in [pc : {"idle", "walk", "lines"}, todo : SUBSET Paths,
                 seen : SUBSET Paths, path : Nat, lines : Seq(Lines)]
    /\ walk.pc = "lines" => walk.path \in Paths /\ walk.lines # <<>>

\* A session is in the map exactly as long as some log belongs to it, however
\* logs are truncated, deleted, shared between sessions or fail to open.
SessionsReferenced ==
    \A id \in Ids :
       sessions[id].there <=> \E p \in Paths : files[p].session = id

\* Reading a log piece by piece gives what reading it in one go would give:
\* between two files of the walk the state of a session is the reduction of
\* all complete lines of its log up to the offset.  Half-written lines, failing
\* reads and truncations that the size betrays do no harm.  Excepted are logs
\* that were rewritten to at least their old size before the next scan, and
\* sessions whose logs are several.
TailingIsReading ==
    walk.pc # "lines" =>
       \A p \in Paths :
          LET id == files[p].session
              read == FoldLeft(Reduced, NewFile,
                               SubSeq(disk[p].lines, 1, files[p].offset \div 2))
          IN  p \notin rewritten /\ id \notin shared
                 => /\ read.session = id
                    /\ id # None => read.status = sessions[id].status

\* The managed indicator is taken away by the relay or with its session; of the
\* lines of the logs only the first one of a log that joins the session does it.
ManagedKept ==
    [][\A id \in Ids :
          sessions[id].managed /\ sessions'[id].there /\ ~sessions'[id].managed
             => \/ UNCHANGED <<files, walk>>
                \/ id \in shared' /\ files[walk.path].session = None
                                  /\ files'[walk.path].session = id]_vars

\* When the logs come to rest, every log is read to its end and those that are
\* gone are forgotten, as long as their directory exists and Run goes on.
LogsFollowed ==
    <>[](root /\ phase \notin {"stopped", "failed"}) =>
       <>[](\A p \in Paths :
              IF disk[p].there THEN files[p].offset = Size(disk[p])
                               ELSE ~files[p].known)
=============================================================================
