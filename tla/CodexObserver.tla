--------------------------- MODULE CodexObserver ---------------------------
(***************************************************************************)
(* The Codex adapter (internal/codexobserver/observer.go): the walk over   *)
(* the session logs, the tailing state of each file, the sessions map, the *)
(* registrations that alias the log of a resumed session to its parent,    *)
(* and what the metadata database keeps of it (internal/observerstore).    *)
(*                                                                         *)
(* A log is a sequence of lines.  Only session_meta lines change which     *)
(* sessions exist; every other line is Other.  One working directory is    *)
(* enough: a registration of another directory never matches.              *)
(* A step is one critical section of mu or one file of the walk.           *)
(***************************************************************************)
EXTENDS Integers, Sequences, FiniteSets

CONSTANTS
    Paths,         \* log files, as naturals in the order WalkDir meets them
    Ids,           \* native session ids
    None,          \* no session
    MaxLines,      \* bound: lines of a log
    MaxChanges,    \* bound: changes of the log directory by Codex, the user or
                   \* a failing file system
    MaxResumes,    \* bound: registrations made
    MaxClock,      \* bound: ticks
    MaxCrashes,    \* bound: restarts
    ResumeWindow,  \* the ten minutes a registration is good for, in ticks
    ClockSlack     \* the two minutes a log may be older than it, in ticks

ASSUME ObserverAssumption ==
    /\ Paths \subseteq Nat /\ IsFiniteSet(Paths)
    /\ None \notin Ids
    /\ MaxLines \in Nat /\ MaxChanges \in Nat
    /\ MaxResumes \in Nat /\ MaxClock \in Nat /\ MaxCrashes \in Nat
    /\ ResumeWindow \in Nat /\ ClockSlack \in Nat

VARIABLES
    disk,           \* the lines of each log, or Missing
    unreadable,     \* logs that cannot be opened
    files,          \* Observer.files with each file's state
    sessions,       \* Observer.sessions: "absent", "plain" or "managed"
    resumes,        \* Observer.resumes; n orders the entries of the slice
    continuations,  \* table session_continuations
    stored,         \* table observed_files: the committed offset
    phase,          \* "initial" Scan, Run's "first" Scan, "polling", "stopped":
                    \* Run has returned, "failed": the Connector has
    walk,           \* the Scan that runs: its position and locals
    clock, changes, registrations, crashes   \* bounded counters

diskVars == <<disk, unreadable>>
counters == <<clock, changes, registrations, crashes>>
memory == <<files, sessions, resumes>>
vars == <<diskVars, memory, continuations, stored, phase, walk, counters>>

Other == [id |-> None, at |-> 0]
Metas == [id : Ids, at : 0 .. MaxClock]
Lines == Metas \cup {Other}
Missing == [lines |-> <<>>, there |-> FALSE]
Log(lines) == [lines |-> lines, there |-> TRUE]

\* A fileState; known: the file is in Observer.files.
Untracked == [known |-> FALSE, offset |-> 0, session |-> None, source |-> None]
Tracked == [Untracked EXCEPT !.known = TRUE]

Resting == [pc |-> "idle", todo |-> {}, seen |-> {}, path |-> 0,
            lines |-> <<>>]

Init ==
    /\ disk = [p \in Paths |-> Missing] /\ unreadable = {}
    /\ files = [p \in Paths |-> Untracked]
    /\ sessions = [id \in Ids |-> "absent"]
    /\ resumes = {}
    /\ continuations = [id \in Ids |-> None]
    /\ stored = [p \in Paths |-> 0]
    /\ phase = "initial" /\ walk = Resting
    /\ clock = 0 /\ changes = 0 /\ registrations = 0
    /\ crashes = 0

-----------------------------------------------------------------------------
(* References of files to sessions.                                        *)

Present(id) == sessions[id] # "absent"

\* sessionReferencedExceptLocked, on a given file table.
ReferencedExcept(table, id, p) ==
    \E q \in Paths \ {p} : table[q].session = id

\* hasLocalRolloutLocked.
HasLocalRollout(id) ==
    Present(id) \/ \E p \in Paths : files[p].source = id

RepointedFresh(p, next) ==                    \* mutant of Repointed
    LET old == files[p].session IN
    [id \in Ids |->
       IF id = next THEN "plain"
       ELSE IF id = old /\ ~ReferencedExcept(files, id, p) THEN "absent"
       ELSE sessions[id]]

\* The sessions after file p has let go of its session and taken `next`.
Repointed(p, next) ==
    LET old == files[p].session IN
    [id \in Ids |->
       IF id = next THEN IF Present(id) THEN sessions[id] ELSE "plain"
       ELSE IF id = old /\ ~ReferencedExcept(files, id, p) THEN "absent"
       ELSE sessions[id]]

-----------------------------------------------------------------------------
(* Scan: the walk and the files.                                           *)

StartScan ==
    /\ phase \notin {"stopped", "failed"} /\ walk.pc = "idle"
    /\ walk' = [Resting EXCEPT !.pc = "walk",
                               !.todo = {p \in Paths : disk[p].there}]
    /\ UNCHANGED <<diskVars, memory, continuations, stored, phase, counters>>

\* The loop of Run goes on after a Scan, however it ended.
NextPhase == IF phase = "initial" THEN "first" ELSE "polling"

\* Both Scans of the start give up on an error that is not ErrNotExist: the
\* first one ends the Connector, the second one the adapter's Run.
FailedPhase == CASE phase = "initial" -> "failed"
                 [] phase = "first"   -> "stopped"
                 [] phase = "polling" -> "polling"

\* The next file of the walk that is about to be scanned.
UpNext(p) == /\ walk.pc = "walk" /\ p \in walk.todo
             /\ \A q \in walk.todo : p <= q

\* os.Stat fails: the file was deleted since the walk listed it.
FileVanished(p) ==
    /\ UpNext(p) /\ ~disk[p].there
    /\ walk' = Resting /\ phase' = NextPhase
    /\ UNCHANGED <<diskVars, memory, continuations, stored, counters>>

\* The file has become shorter than what was read of it.
Truncated(p) == Len(disk[p].lines) < files[p].offset

\* The file's state once scanFile has checked its size: a truncated file
\* starts again, and its session goes with it unless another file has it.
Checked(p) == IF Truncated(p) \/ ~files[p].known THEN Tracked ELSE files[p]

CheckedSessions(p) == IF Truncated(p) THEN Repointed(p, None) ELSE sessions

\* scanFile up to the split into lines; an unreadable file ends the walk.
ScanFile(p) ==
    LET from == Checked(p).offset
        size == Len(disk[p].lines) IN
    /\ UpNext(p) /\ disk[p].there
    /\ sessions' = CheckedSessions(p)
    /\ IF size = from
       THEN /\ files' = [files EXCEPT ![p] = Checked(p)]
            /\ walk' = [walk EXCEPT !.todo = @ \ {p}, !.seen = @ \cup {p}]
            /\ UNCHANGED phase
       ELSE IF p \in unreadable
       THEN /\ files' = [files EXCEPT ![p] = Checked(p)]
            /\ walk' = Resting /\ phase' = FailedPhase
       ELSE /\ files' = [files EXCEPT ![p] = [Checked(p) EXCEPT !.offset = size]]
            /\ walk' = [walk EXCEPT !.pc = "lines", !.path = p,
                          !.todo = @ \ {p}, !.seen = @ \cup {p},
                          !.lines = SubSeq(disk[p].lines, from + 1, size)]
            /\ UNCHANGED phase
    /\ UNCHANGED <<diskVars, resumes, continuations, stored, counters>>

CleanedKept == sessions                       \* mutant of Cleaned
\* Sessions that only files no longer seen refer to are gone.
Cleaned ==
    [id \in Ids |-> IF \E p \in walk.seen : files[p].session = id
                    THEN sessions[id] ELSE "absent"]

ForgottenNot == files                         \* mutant of Forgotten
Forgotten ==
    [p \in Paths |-> IF p \in walk.seen THEN files[p] ELSE Untracked]

\* The end of Scan: files that the walk has not met are forgotten.
FinishWalk ==
    /\ walk.pc = "walk" /\ walk.todo = {}
    /\ files' = Forgotten
    /\ stored' = [p \in Paths |-> IF p \notin walk.seen /\ files[p].known
                                  THEN 0 ELSE stored[p]]
    /\ sessions' = Cleaned
    /\ walk' = Resting /\ phase' = NextPhase
    /\ UNCHANGED <<diskVars, resumes, continuations, counters>>

-----------------------------------------------------------------------------
(* The metadata database (observerstore): one transaction per call.        *)

SaveContinuation(source, parent) ==
    continuations' = [continuations EXCEPT ![source] = parent]

DeleteContinuation(source) ==
    continuations' = [continuations EXCEPT ![source] = None]

SaveFile(p, offset) == stored' = [stored EXCEPT ![p] = offset]

-----------------------------------------------------------------------------
(* reduceLine.                                                             *)

LineDoneStuck ==                              \* mutant of LineDone
    /\ walk' = [walk EXCEPT !.lines = Tail(@)]
    /\ SaveFile(walk.path, files[walk.path].offset)

\* After the last line of a file persistFileState saves its offset.
LineDone ==
    /\ walk' = IF Len(walk.lines) > 1 THEN [walk EXCEPT !.lines = Tail(@)]
               ELSE [Resting EXCEPT !.pc = "walk", !.todo = walk.todo,
                                    !.seen = walk.seen]
    /\ IF Len(walk.lines) = 1
       THEN SaveFile(walk.path, files[walk.path].offset)
       ELSE UNCHANGED stored

\* An event changes the fields of its file's session, never which exist.
ReduceOther ==
    /\ walk.pc = "lines" /\ Head(walk.lines) = Other
    /\ LineDone
    /\ UNCHANGED <<diskVars, memory, continuations, phase, counters>>

\* matchResumeLocked searches the registrations from the latest one back.
Prunable(e, id) == clock - e.started > ResumeWindow \/ e.parent = id
FitsAny(e, id, at) ==                         \* mutant of Fits
    ~Prunable(e, id) /\ at >= e.started - ClockSlack
Fits(e, id, at) ==
    /\ ~Prunable(e, id)
    /\ at >= e.started - ClockSlack
    /\ ~Present(id)

Matching(id, at) == {e \in resumes : Fits(e, id, at)}

\* The latest registration that fits.
Latest(id, at) ==
    CHOOSE e \in Matching(id, at) : \A f \in Matching(id, at) : f.n <= e.n

\* The search drops the prunable registrations it passes.
LeftUnmatched(id) == {e \in resumes : ~Prunable(e, id)}
LeftAfter(id, match) ==
    {e \in resumes : e.n < match.n \/ (e.n > match.n /\ ~Prunable(e, id))}

\* The file of the line now belongs to `target`, under the id it was written.
Assign(id, target) ==
    /\ files' = [files EXCEPT ![walk.path].session = target,
                              ![walk.path].source = id]
    /\ sessions' = Repointed(walk.path, target)

\* A stored continuation whose parent is local.
MetaContinued(id) ==
    /\ continuations[id] # None /\ HasLocalRollout(continuations[id])
    /\ Assign(id, continuations[id])
    /\ UNCHANGED <<resumes, continuations>>

\* A stored continuation without its parent is deleted.
MetaOrphaned(id) ==
    /\ continuations[id] # None /\ ~HasLocalRollout(continuations[id])
    /\ Assign(id, id)
    /\ DeleteContinuation(id)
    /\ UNCHANGED resumes

\* The latest registration that fits takes the new log in.
MetaMatched(id, at) ==
    /\ continuations[id] = None /\ Matching(id, at) # {}
    /\ LET match == Latest(id, at) IN
       /\ Assign(id, match.parent)
       /\ resumes' = LeftAfter(id, match)
       /\ SaveContinuation(id, match.parent)

\* Or it is a session of its own.
MetaOwn(id, at) ==
    /\ continuations[id] = None /\ Matching(id, at) = {}
    /\ Assign(id, id)
    /\ resumes' = LeftUnmatched(id)
    /\ UNCHANGED continuations

ReduceMeta ==
    /\ walk.pc = "lines" /\ Head(walk.lines) # Other
    /\ LET line == Head(walk.lines) IN
       \/ MetaContinued(line.id) \/ MetaOrphaned(line.id)
       \/ MetaMatched(line.id, line.at) \/ MetaOwn(line.id, line.at)
    /\ LineDone
    /\ UNCHANGED <<diskVars, phase, counters>>

-----------------------------------------------------------------------------
(* Calls of the relay, which connects after the initial Scan.              *)

Called == phase \notin {"initial", "failed"}

RegisterResume(id) ==
    /\ Called
    /\ registrations < MaxResumes
    /\ registrations' = registrations + 1
    /\ resumes' = resumes \cup
          {[parent |-> id, started |-> clock, n |-> registrations]}
    /\ UNCHANGED <<diskVars, files, sessions, continuations, stored, phase,
                   walk, clock, changes, crashes>>

\* CancelResume names its registration by parent and exact start time.
CancelResume(e) ==
    /\ Called
    /\ e \in resumes
    /\ resumes' = resumes \ {e}
    /\ UNCHANGED <<diskVars, files, sessions, continuations, stored, phase,
                   walk, counters>>

SetManaged(id, next) ==
    /\ Called
    /\ Present(id)
    /\ sessions' = [sessions EXCEPT ![id] = next]
    /\ UNCHANGED <<diskVars, files, resumes, continuations, stored, phase,
                   walk, counters>>

-----------------------------------------------------------------------------
(* The log directory, time and crashes.                                    *)

Change ==
    /\ changes < MaxChanges
    /\ changes' = changes + 1
    /\ UNCHANGED <<memory, continuations, stored, phase, walk, clock,
                   registrations, crashes>>

\* Codex opens a log with its session_meta line, and appends to it.
WriteMeta(p, id) ==
    /\ Change
    /\ Len(disk[p].lines) < MaxLines
    /\ disk' = [disk EXCEPT ![p] =
                  Log(Append(@.lines, [id |-> id, at |-> clock]))]
    /\ UNCHANGED unreadable

WriteOther(p) ==
    /\ Change
    /\ disk[p].there /\ Len(disk[p].lines) < MaxLines
    /\ disk' = [disk EXCEPT ![p] = Log(Append(@.lines, Other))]
    /\ UNCHANGED unreadable

Truncate(p) ==
    /\ Change
    /\ disk[p].lines # <<>>
    /\ disk' = [disk EXCEPT ![p] = Log(<<>>)]
    /\ UNCHANGED unreadable

Delete(p) ==
    /\ Change
    /\ disk[p].there
    /\ disk' = [disk EXCEPT ![p] = Missing]
    /\ unreadable' = unreadable \ {p}

Rename(p, q) ==
    /\ Change
    /\ disk[p].there /\ ~disk[q].there
    /\ disk' = [disk EXCEPT ![q] = disk[p], ![p] = Missing]
    /\ unreadable' = {IF r = p THEN q ELSE r : r \in unreadable}

\* Permissions, a sharing violation: the file cannot be opened, for a while
\* or for good.
BecomeUnreadable(p) ==
    /\ Change
    /\ disk[p].there /\ p \notin unreadable
    /\ unreadable' = unreadable \cup {p}
    /\ UNCHANGED disk

BecomeReadable(p) ==
    /\ p \in unreadable
    /\ unreadable' = unreadable \ {p}
    /\ UNCHANGED <<disk, memory, continuations, stored, phase, walk, counters>>

Tick ==
    /\ clock < MaxClock
    /\ clock' = clock + 1
    /\ UNCHANGED <<diskVars, memory, continuations, stored, phase, walk,
                   changes, registrations, crashes>>

\* The Connector restarts: the logs and the database remain.
Restart ==
    /\ crashes < MaxCrashes
    /\ crashes' = crashes + 1
    /\ files' = [p \in Paths |-> Untracked]
    /\ sessions' = [id \in Ids |-> "absent"]
    /\ resumes' = {}
    /\ phase' = "initial" /\ walk' = Resting
    /\ UNCHANGED <<diskVars, continuations, stored, clock, changes,
                   registrations>>

ScanStep ==
    \/ StartScan \/ FinishWalk \/ ReduceOther \/ ReduceMeta
    \/ \E p \in Paths : FileVanished(p) \/ ScanFile(p)

RelayStep ==
    \/ \E id \in Ids : RegisterResume(id)
    \/ \E e \in resumes : CancelResume(e)
    \/ \E id \in Ids, next \in {"plain", "managed"} : SetManaged(id, next)

DiskStep ==
    \/ \E p \in Paths, id \in Ids : WriteMeta(p, id)
    \/ \E p \in Paths : WriteOther(p) \/ Truncate(p) \/ Delete(p)
    \/ \E p, q \in Paths : Rename(p, q)
    \/ \E p \in Paths : BecomeUnreadable(p) \/ BecomeReadable(p)

Next == ScanStep \/ RelayStep \/ DiskStep \/ Tick \/ Restart

Spec == Init /\ [][Next]_vars

\* The poll ticker runs the adapter; nothing else need ever happen.
FairSpec == Spec /\ WF_vars(ScanStep)
-----------------------------------------------------------------------------
(* Properties.                                                             *)

\* Every variable keeps its type; a file's lines are reduced one by one.
TypeOK ==
    /\ disk \in [Paths -> [lines : Seq(Lines), there : BOOLEAN]]
    /\ unreadable \in SUBSET Paths
    /\ files \in [Paths -> [known : BOOLEAN, offset : Nat,
                            session : Ids \cup {None},
                            source : Ids \cup {None}]]
    /\ sessions \in [Ids -> {"absent", "plain", "managed"}]
    /\ resumes \in SUBSET [parent : Ids, started : Nat, n : 0 .. MaxResumes]
    /\ continuations \in [Ids -> Ids \cup {None}]
    /\ stored \in [Paths -> Nat]
    /\ phase \in {"initial", "first", "polling", "stopped", "failed"}
    /\ walk \in [pc : {"idle", "walk", "lines"}, todo : SUBSET Paths,
                 seen : SUBSET Paths, path : Nat, lines : Seq(Lines)]
    /\ clock \in 0 .. MaxClock /\ registrations \in 0 .. MaxResumes
    /\ walk.pc = "lines" => walk.path \in Paths /\ walk.lines # <<>>

\* A session is in the map exactly as long as some log file belongs to it,
\* through truncation, deletion, renaming and re-assignment of files: no ghost
\* row and no file whose events have no session to go to.
SessionsReferenced ==
    \A id \in Ids :
       Present(id) <=> \E p \in Paths : files[p].session = id

\* A log that is shown under another session has a stored continuation that
\* says so, and one with a stored continuation is shown nowhere else.
AliasesStored ==
    \A p \in Paths : LET f == files[p] IN
       /\ (f.session = None) <=> (f.source = None)
       /\ f.source # None =>
            f.session = IF continuations[f.source] = None
                        THEN f.source ELSE continuations[f.source]

\* The managed indicator is only lost when the relay takes it away or when the
\* session disappears: no log line, not even another session_meta, drops it.
ManagedKept ==
    [][\A id \in Ids :
          sessions[id] = "managed" /\ sessions'[id] = "plain"
             => UNCHANGED <<files, walk>>]_vars

\* Comment at observer.go:208: "File-level errors produce unknown state instead
\* of stopping observation": while the adapter polls, a log that is unreadable
\* for good does not keep the readable ones from being followed.
ReadableLogsFollowed ==
    \A p \in Paths :
       <>[](disk[p].there /\ p \notin unreadable /\ phase = "polling") =>
          <>[](files[p].offset = Len(disk[p].lines))

\* Every error passes and the adapter's Run goes on: when the logs come to
\* rest, every log is read to its end, whatever was truncated, renamed or
\* deleted during a walk or unreadable for a while, and the logs that are gone
\* are forgotten.
LogsFollowed ==
    <>[](unreadable = {} /\ phase \notin {"stopped", "failed"}) =>
       <>[](\A p \in Paths :
              IF disk[p].there THEN files[p].offset = Len(disk[p].lines)
                               ELSE ~files[p].known)

\* observer_test.go: "persisted continuation must remain aliased after
\* restart": as long as the parent's log is there, the mapping is kept.
ContinuationSurvives ==
    [][\A id \in Ids :
          continuations[id] # None /\ continuations'[id] = None =>
             ~\E p \in Paths : \E i \in DOMAIN disk[p].lines :
                 disk[p].lines[i].id = continuations[id]]_vars
=============================================================================
