------------------------- MODULE LineObserverProofs ------------------------
(***************************************************************************)
(* Proofs about the adapter of line logs, for any logs, sessions and bounds. *)
(*                                                                         *)
(* SessionsInv carries the types, the sessions and the managed indicator.  *)
(* ReadingInv adds how far each log has been reduced: Followed(p) says that *)
(* the lines still waiting lie between the lines that are reduced and the   *)
(* offset, and that the state of the file is the reduction of the former.   *)
(* Induction over lines is hidden in the laws of Read, which are instances  *)
(* of the fold lemmas.                                                      *)
(***************************************************************************)
EXTENDS LineObserver, TLAPS, SequenceTheorems

USE DEF diskVars, memory

-----------------------------------------------------------------------------
(* Logs.                                                                   *)

LEMMA Bounded ==
  ASSUME NEW S, NEW n \in Nat
  PROVE  BoundedSeq(S, n) = {s \in Seq(S) : Len(s) <= n}
<1>1. ASSUME NEW s \in BoundedSeq(S, n) PROVE s \in Seq(S) /\ Len(s) <= n
  BY <1>1, IsASeq DEF BoundedSeq, SeqOf
<1>2. ASSUME NEW s \in Seq(S), Len(s) <= n PROVE s \in BoundedSeq(S, n)
  BY <1>2, LenProperties DEF BoundedSeq, SeqOf
<1> QED
  BY <1>1, <1>2

LEMMA BoundedLines ==
  BoundedSeq(Lines, MaxLines) = {s \in Seq(Lines) : Len(s) <= MaxLines}
BY Bounded, LineAssumption

LogStates == [there : BOOLEAN, lines : BoundedSeq(Lines, MaxLines),
              half : BOOLEAN]
FileStates == [known : BOOLEAN, offset : 0 .. 2 * MaxLines,
               pending : Lines, session : Ids \cup {None}]
SessionStates == [there : BOOLEAN, managed : BOOLEAN,
                  status : {"none", "active", "idle", "unknown"}]
Walks == [pc : {"idle", "walk", "lines"}, todo : SUBSET Paths,
          seen : SUBSET Paths, path : Nat, lines : Seq(Lines)]

\* The types, and what else a step rests on: half a line is a line, a file
\* that is not in the table has no state, a session that is gone no indicator,
\* and a Scan only runs while the adapter does.
TableKept ==
    /\ \A p \in Paths : disk[p].half => disk[p].lines # <<>>
    /\ \A p \in Paths : ~files[p].known => files[p] = Untracked
    /\ walk.pc = "lines" => files[walk.path].known
    /\ walk.pc # "idle" => phase \in {"initial", "first", "polling"}
    /\ \A id \in Ids : ~sessions[id].there => sessions[id] = Absent

\* The half of an even and of an odd number.
LEMMA Halves ==
  ASSUME NEW n \in Int
  PROVE  /\ (2 * n) \div 2 = n /\ (2 * n) % 2 = 0
         /\ (2 * n - 1) \div 2 = n - 1 /\ (2 * n - 1) % 2 = 1
OBVIOUS

\* A log without half a line at its start.
LEMMA Sizes ==
  ASSUME NEW log \in LogStates, log.half => log.lines # <<>>
  PROVE  /\ Len(log.lines) \in 0 .. MaxLines /\ log.lines \in Seq(Lines)
         /\ Size(log) \in 0 .. 2 * MaxLines
         /\ Size(log) \div 2 = IF log.half THEN Len(log.lines) - 1
                               ELSE Len(log.lines)
         /\ Size(log) % 2 = IF log.half THEN 1 ELSE 0
         /\ log.half => Len(log.lines) > 0
<1> USE LineAssumption
<1>1. log.lines \in Seq(Lines) /\ Len(log.lines) <= MaxLines
  BY Bounded DEF LogStates
<1>2. Len(log.lines) \in 0 .. MaxLines /\ log.half \in BOOLEAN
  BY <1>1, LenProperties DEF LogStates
<1>3. log.half => Len(log.lines) > 0
  BY <1>1, <1>2, EmptySeq
<1>4. PICK n \in 0 .. MaxLines : n = Len(log.lines)
  BY <1>2
<1>5. CASE log.half
  <2>1. Size(log) = 2 * n - 1 /\ n > 0
    BY <1>3, <1>4, <1>5 DEF Size
  <2>2. Size(log) \in 0 .. 2 * MaxLines
    BY <2>1
  <2>3. Size(log) \div 2 = n - 1 /\ Size(log) % 2 = 1
    BY <2>1, Halves
  <2> QED
    BY <1>1, <1>4, <1>5, <2>1, <2>2, <2>3
<1>6. CASE ~log.half
  <2>1. Size(log) = 2 * n
    BY <1>4, <1>6 DEF Size
  <2>2. Size(log) \in 0 .. 2 * MaxLines
    BY <2>1
  <2>3. Size(log) \div 2 = n /\ Size(log) % 2 = 0
    BY <2>1, Halves
  <2> QED
    BY <1>1, <1>4, <1>6, <2>2, <2>3
<1> QED
  BY <1>2, <1>5, <1>6

\* A log of those and a line behind it, or its last half, are a log again.
LEMMA LinesOf ==
  ASSUME NEW log \in LogStates, log.half => log.lines # <<>>,
         NEW k \in 0 .. MaxLines, NEW n \in 0 .. Size(log) \div 2
  PROVE  LET l == SubSeq(log.lines, k + 1, n) IN
         /\ l \in Seq(Lines)
         /\ Len(l) = IF k < n THEN n - k ELSE 0
         /\ \A i \in 1 .. Len(l) : l[i] = log.lines[k + i]
<1> USE LineAssumption
<1>1. /\ log.lines \in Seq(Lines)
      /\ \A i \in k + 1 .. n : i \in 1 .. Len(log.lines)
  BY Sizes
<1>2. \A i \in k + 1 .. n : log.lines[i] \in Lines
  BY <1>1, ElementOfSeq
<1>3. k + 1 \in Int /\ n \in Int
  BY Sizes
<1>4. /\ SubSeq(log.lines, k + 1, n) \in Seq(Lines)
      /\ Len(SubSeq(log.lines, k + 1, n))
           = IF k + 1 <= n THEN n - (k + 1) + 1 ELSE 0
      /\ \A i \in 1 .. n - (k + 1) + 1 :
            SubSeq(log.lines, k + 1, n)[i] = log.lines[(k + 1) + i - 1]
  BY <1>2, <1>3, SubSeqProperties
<1> DEFINE l == SubSeq(log.lines, k + 1, n)
<1>5. Len(l) = IF k < n THEN n - k ELSE 0
  BY <1>3, <1>4
<1>6. \A i \in 1 .. Len(l) : i \in 1 .. n - (k + 1) + 1 /\ (k + 1) + i - 1 = k + i
  BY <1>3, <1>5
<1> QED
  BY <1>4, <1>5, <1>6

LEMMA ReadType ==
  ASSUME NEW log \in LogStates, log.half => log.lines # <<>>,
         NEW file \in FileStates
  PROVE  ReadLines(file, log) \in Seq(Lines)
<1> USE LineAssumption
<1> DEFINE k == file.offset \div 2
           whole == SubSeq(log.lines, k + 1, Size(log) \div 2)
<1>1. k \in 0 .. MaxLines
  <2>1. PICK n \in 0 .. 2 * MaxLines : n = file.offset
    BY DEF FileStates
  <2> QED
    BY <2>1
<1>2. Size(log) \div 2 \in 0 .. Size(log) \div 2
  BY Sizes
<1>3. whole \in Seq(Lines)
  BY <1>1, <1>2, LinesOf
<1>4. whole # <<>> => <<Bad>> \o Tail(whole) \in Seq(Lines)
  BY <1>3, HeadTailProperties DEF Lines
<1>5. \/ ReadLines(file, log) = whole
      \/ whole # <<>> /\ ReadLines(file, log) = <<Bad>> \o Tail(whole)
  BY DEF ReadLines
<1> HIDE DEF whole
<1> QED
  BY <1>3, <1>4, <1>5

-----------------------------------------------------------------------------
(* Types.                                                                  *)

FlatTypes ==
    /\ agent \in {"claude", "gemini"} /\ root \in BOOLEAN
    /\ disk \in [Paths -> LogStates] /\ files \in [Paths -> FileStates]
    /\ sessions \in [Ids -> SessionStates] /\ walk \in Walks
    /\ changes \in 0 .. MaxChanges
    /\ rewritten \subseteq Paths /\ shared \subseteq Ids
    /\ phase \in {"initial", "first", "polling", "stopped", "failed"}
    /\ walk.pc = "lines" => walk.path \in Paths /\ walk.lines # <<>>

LEMMA Types == TypeOK <=> FlatTypes
BY DEF TypeOK, FlatTypes, LogStates, FileStates, SessionStates, Walks

LEMMA Constants ==
  /\ Untracked \in FileStates /\ Tracked \in FileStates
  /\ Absent \in SessionStates /\ Resting \in Walks /\ Missing \in LogStates
  /\ Bad \in Lines /\ <<>> \in Seq(Lines)
<1> USE LineAssumption
<1>1. Bad \in Lines
  BY DEF Lines
<1>2. Untracked \in FileStates /\ Tracked \in FileStates
  <2>1. 0 \in 0 .. 2 * MaxLines
    OBVIOUS
  <2>2. Untracked \in FileStates
    BY <1>1, <2>1 DEF Untracked, FileStates
  <2> QED
    BY <2>2 DEF Tracked, FileStates
<1>3. <<>> \in Seq(Lines) /\ Len(<<>>) = 0
  BY EmptySeq
<1>4. Missing \in LogStates
  <2>1. <<>> \in BoundedSeq(Lines, MaxLines)
    BY <1>3, BoundedLines
  <2> QED
    BY <2>1 DEF Missing, LogStates
<1> QED
  BY <1>1, <1>2, <1>3, <1>4 DEF Absent, SessionStates, Resting, Walks

LEMMA CheckedType ==
  ASSUME FlatTypes, NEW p \in Paths
  PROVE  /\ Checked(p) \in FileStates
         /\ CheckedSessions(p) \in [Ids -> SessionStates]
BY Constants DEF Checked, CheckedSessions, FlatTypes, FileStates

LEMMA ReducingType ==
  ASSUME NEW p \in Paths, NEW lines \in Seq(Lines), NEW todo \in SUBSET Paths,
         NEW seen \in SUBSET Paths
  PROVE  /\ Reducing(p, lines, todo, seen) \in Walks
         /\ Reducing(p, lines, todo, seen).lines = lines
         /\ Reducing(p, lines, todo, seen).todo = todo
         /\ Reducing(p, lines, todo, seen).seen = seen
         /\ Reducing(p, lines, todo, seen).pc =
               IF lines = <<>> THEN "walk" ELSE "lines"
         /\ Reducing(p, lines, todo, seen).pc = "lines"
               => Reducing(p, lines, todo, seen).path = p /\ lines # <<>>
BY LineAssumption DEF Reducing, Resting, Walks

LEMMA PositionType ==
  ASSUME NEW log \in LogStates, log.half => log.lines # <<>>,
         NEW file \in FileStates
  PROVE  /\ Position(file, log) \in FileStates
         /\ Position(file, log).offset = Size(log)
         /\ Position(file, log).session = file.session
         /\ Position(file, log).known = file.known
         /\ Position(file, log).pending =
               IF Size(log) = file.offset THEN file.pending ELSE Leftover(log)
         /\ log.half => Leftover(log) = log.lines[Len(log.lines)]
<1>1. Leftover(log) \in Lines
  <2>1. CASE log.half
    <3>1. log.lines \in Seq(Lines) /\ Len(log.lines) \in 1 .. Len(log.lines)
      BY <2>1, Sizes
    <3> QED
      BY <2>1, <3>1, ElementOfSeq DEF Leftover, Last
  <2> QED
    BY <2>1, Constants DEF Leftover
<1>2. Size(log) \in 0 .. 2 * MaxLines
  BY Sizes
<1> QED
  BY <1>1, <1>2 DEF Position, FileStates, Leftover, Last

\* What Reduce makes of a file.
Reductions == [session : Ids \cup {None},
               status : {"none", "active", "idle", "unknown"}]

LEMMA ReducedType ==
  ASSUME FlatTypes, NEW of \in Reductions, NEW line \in Lines
  PROVE  /\ Reduced(of, line) \in Reductions
         /\ of.session # None => Reduced(of, line).session = of.session
         /\ Reduced(of, line).session = None => Reduced(of, line) = of
<1>1. CASE line = Bad
  BY <1>1 DEF Reduced, Reductions
<1>2. CASE line # Bad
  <2>1. /\ line.id \in Ids \cup {None}
        /\ line.kind \in {"user", "reply", "other"}
    BY <1>2 DEF Lines
  <2>2. /\ NativeID(of, line) \in Ids \cup {None}
        /\ of.session # None /\ NativeID(of, line) # None
             => NativeID(of, line) = of.session
    BY <2>1 DEF NativeID, Reductions
  <2>3. StatusAfter(of.status, line) \in {"none", "active", "idle", "unknown"}
    BY <2>1 DEF StatusAfter, Reductions
  <2> QED
    BY <1>2, <2>2, <2>3 DEF Reduced, Reductions
<1> QED
  BY <1>1, <1>2

\* The state of a file, as reduceLine finds it.
FileOf(p) == [session |-> files[p].session, status |-> Current(p).status]

LEMMA CurrentType ==
  ASSUME FlatTypes, NEW p \in Paths
  PROVE  /\ Current(p) \in SessionStates /\ FileOf(p) \in Reductions
         /\ files[p].session \in Ids \cup {None}
BY Constants DEF FlatTypes, Current, FileOf, Reductions, FileStates,
   SessionStates

LEMMA TypeStep == FlatTypes /\ TableKept /\ [Next]_vars => FlatTypes'
<1> SUFFICES ASSUME FlatTypes, TableKept, [Next]_vars PROVE FlatTypes'
  OBVIOUS
<1> USE LineAssumption, Constants DEF FlatTypes
<1>p. /\ \A p \in Paths : disk[p] \in LogStates
      /\ \A p \in Paths : disk[p].half => disk[p].lines # <<>>
      /\ walk.todo \in SUBSET Paths /\ walk.seen \in SUBSET Paths
  BY DEF TableKept, Walks
<1>1. CASE StartScan
  <2>1. CASE root
    <3>1. walk' \in Walks /\ walk'.pc = "walk"
      <4> DEFINE T == {p \in Paths : disk[p].there}
      <4>1. T \in SUBSET Paths
        OBVIOUS
      <4>2. walk' = [Resting EXCEPT !.pc = "walk", !.todo = T]
        BY <1>1, <2>1 DEF StartScan
      <4> HIDE DEF T
      <4> QED
        BY <4>1, <4>2 DEF Walks, Resting
    <3> QED
      BY <1>1, <2>1, <3>1 DEF StartScan
  <2>2. CASE ~root
    BY <1>1, <2>2 DEF StartScan, NextPhase
  <2> QED
    BY <2>1, <2>2
<1>2. CASE FinishWalk
  <2>1. /\ files' \in [Paths -> FileStates]
        /\ sessions' \in [Ids -> SessionStates]
    BY <1>2 DEF FinishWalk, Forgotten
  <2> QED
    BY <1>2, <2>1 DEF FinishWalk, StillShared, NextPhase, Resting
<1>3. CASE ReduceLine
  <2> DEFINE next == Reduced(FileOf(walk.path), Head(walk.lines))
  <2>1. /\ walk.path \in Paths /\ walk.lines \in Seq(Lines)
        /\ walk.lines # <<>>
    BY <1>3 DEF ReduceLine, Walks
  <2>2. Head(walk.lines) \in Lines /\ Tail(walk.lines) \in Seq(Lines)
    BY <2>1, HeadTailProperties
  <2>3. next \in Reductions /\ Current(walk.path) \in SessionStates
    BY <2>1, <2>2, ReducedType, CurrentType
  <2>4. /\ files' = [files EXCEPT ![walk.path].session = next.session]
        /\ sessions' = IF next.session = None THEN sessions
                       ELSE [sessions EXCEPT ![next.session] =
                              [there |-> TRUE, status |-> next.status,
                               managed |-> Current(walk.path).managed]]
        /\ shared' \subseteq shared \cup ({next.session} \ {None})
        /\ walk' = Reducing(walk.path, Tail(walk.lines), walk.todo, walk.seen)
        /\ UNCHANGED <<agent, root, disk, changes, rewritten, phase>>
    BY <1>3 DEF ReduceLine, FileOf
  <2> HIDE DEF next
  <2>5. /\ files' \in [Paths -> FileStates]
        /\ sessions' \in [Ids -> SessionStates]
        /\ shared' \subseteq Ids
    BY <2>1, <2>3, <2>4 DEF Reductions, FileStates, SessionStates
  <2>6. walk' \in Walks /\ (walk'.pc = "lines" => walk'.path \in Paths /\ walk'.lines # <<>>)
    <3> DEFINE r == Reducing(walk.path, Tail(walk.lines), walk.todo, walk.seen)
    <3>1. r \in Walks /\ r.lines = Tail(walk.lines)
          /\ (r.pc = "lines" => r.path = walk.path /\ r.lines # <<>>)
      <4>1. /\ walk.path \in Paths /\ Tail(walk.lines) \in Seq(Lines)
            /\ walk.todo \in SUBSET Paths /\ walk.seen \in SUBSET Paths
        BY <1>p, <2>1, <2>2
      <4> HIDE DEF FlatTypes
      <4>2. /\ r \in Walks /\ r.lines = Tail(walk.lines)
            /\ r.pc = IF Tail(walk.lines) = <<>> THEN "walk" ELSE "lines"
            /\ r.pc = "lines" => r.path = walk.path
        BY <4>1 DEF Reducing, Resting, Walks
      <4> QED
        BY <4>2
    <3> HIDE DEF r
    <3> QED
      BY <2>1, <2>4, <3>1 DEF r
  <2> QED
    BY <2>4, <2>5, <2>6
<1>4. ASSUME NEW p \in Paths, FileVanished(p) PROVE FlatTypes'
  BY <1>4 DEF FileVanished, NextPhase, Resting
<1>5. ASSUME NEW p \in Paths, ScanFile(p) PROVE FlatTypes'
  <2>1. /\ Checked(p) \in FileStates
        /\ CheckedSessions(p) \in [Ids -> SessionStates]
    BY CheckedType
  <2>2. files' \in [Paths -> FileStates]
    BY <1>5, <1>p, <2>1, PositionType DEF ScanFile
  <2>3. ReadLines(Checked(p), disk[p]) \in Seq(Lines)
    BY <1>p, <2>1, ReadType
  <2>4. walk' \in Walks /\ (walk'.pc = "lines" => walk'.path \in Paths /\ walk'.lines # <<>>)
    BY <1>5, <1>p, <2>3, ReducingType DEF ScanFile
  <2> QED
    BY <1>5, <2>1, <2>2, <2>4 DEF ScanFile, StillShared
<1>6. ASSUME NEW p \in Paths, ReadFails(p) PROVE FlatTypes'
  <2>1. /\ Checked(p) \in FileStates
        /\ CheckedSessions(p) \in [Ids -> SessionStates]
    BY CheckedType
  <2>2. phase' \in {"initial", "first", "polling", "stopped", "failed"}
    BY <1>6 DEF ReadFails, UpNext, FailedPhase, TableKept
  <2> QED
    BY <1>6, <2>1, <2>2 DEF ReadFails, StillShared, Resting
<1>7. ASSUME NEW id \in Ids, NEW process \in BOOLEAN, SetManaged(id, process)
      PROVE  FlatTypes'
  BY <1>7 DEF SetManaged, SessionStates
<1>8. ASSUME Change, disk' \in [Paths -> LogStates], root' \in BOOLEAN,
             rewritten' \subseteq Paths
      PROVE  FlatTypes'
  BY <1>8 DEF Change
<1>9. ASSUME NEW p \in Paths, NEW line \in Written, NEW half \in BOOLEAN,
             Write(p, line, half)
      PROVE  FlatTypes'
  <2>0. Len(disk[p].lines) < MaxLines /\ line \in Lines
    BY <1>9 DEF Write
  <2>1. disk[p].lines \in Seq(Lines) /\ Len(disk[p].lines) \in Nat
    <3>1. disk[p] \in LogStates
      OBVIOUS
    <3>2. disk[p].lines \in BoundedSeq(Lines, MaxLines)
      BY <3>1 DEF LogStates
    <3> QED
      BY <3>2, BoundedLines, LenProperties
  <2>2. /\ Append(disk[p].lines, line) \in Seq(Lines)
        /\ Len(Append(disk[p].lines, line)) <= MaxLines
    BY <2>0, <2>1, AppendProperties
  <2>3. Append(disk[p].lines, line) \in BoundedSeq(Lines, MaxLines)
    BY <2>2, BoundedLines
  <2> QED
    BY <1>8, <1>9, <2>3 DEF Write, LogStates
<1>10. ASSUME NEW p \in Paths, CompleteLine(p) PROVE FlatTypes'
  BY <1>8, <1>10 DEF CompleteLine, LogStates
<1>11. ASSUME NEW p \in Paths, Truncate(p) \/ Delete(p) PROVE FlatTypes'
  <2>1. [Missing EXCEPT !.there = TRUE] \in LogStates
    BY DEF LogStates
  <2>2. disk' \in [Paths -> LogStates]
    BY <1>11, <2>1 DEF Truncate, Delete
  <2> QED
    BY <1>8, <1>11, <2>2 DEF Truncate, Delete, Rewrite
<1>12. CASE RemoveRoot
  BY <1>8, <1>12 DEF RemoveRoot, Rewrite
<1>13. CASE UNCHANGED vars
  BY <1>13 DEF vars
<1> QED
  BY <1>1, <1>2, <1>3, <1>4, <1>5, <1>6, <1>7, <1>9, <1>10, <1>11, <1>12,
     <1>13 DEF Next, ScanStep, DiskStep

-----------------------------------------------------------------------------
(* What a step does to the file it is about.                               *)

LEMMA ScanMoves ==
  ASSUME FlatTypes, TableKept, NEW p \in Paths, ScanFile(p)
  PROVE  /\ walk.pc = "walk"
         /\ files'[p] = Position(Checked(p), disk[p])
         /\ files'[p].session = Checked(p).session /\ files'[p].known
         /\ files'[p].offset = Size(disk[p])
         /\ \A q \in Paths \ {p} : files'[q] = files[q]
         /\ sessions' = CheckedSessions(p)
         /\ walk'.lines = ReadLines(Checked(p), disk[p])
         /\ walk'.pc = IF walk'.lines = <<>> THEN "walk" ELSE "lines"
         /\ walk'.pc = "lines" => walk'.path = p
         /\ UNCHANGED <<agent, root, disk, changes, phase>>
<1> USE LineAssumption, Constants
<1>1. /\ Checked(p) \in FileStates /\ disk[p] \in LogStates
      /\ disk[p].half => disk[p].lines # <<>>
      /\ walk.todo \in SUBSET Paths /\ walk.seen \in SUBSET Paths
  BY CheckedType DEF FlatTypes, TableKept, Walks
<1>2. Checked(p).known
  BY DEF Checked, Tracked, Untracked
<1>3. /\ Position(Checked(p), disk[p]).session = Checked(p).session
      /\ Position(Checked(p), disk[p]).known
      /\ Position(Checked(p), disk[p]).offset = Size(disk[p])
  BY <1>1, <1>2, PositionType
<1>4. ReadLines(Checked(p), disk[p]) \in Seq(Lines)
  BY <1>1, ReadType
<1>5. files' = [files EXCEPT ![p] = Position(Checked(p), disk[p])]
  BY DEF ScanFile
<1>6. /\ files'[p] = Position(Checked(p), disk[p])
      /\ \A q \in Paths \ {p} : files'[q] = files[q]
  BY <1>5 DEF FlatTypes
<1> DEFINE l == ReadLines(Checked(p), disk[p])
<1>7. walk' = Reducing(p, l, walk.todo \ {p}, walk.seen \cup {p})
  BY DEF ScanFile
<1>8. /\ walk'.lines = l
      /\ walk'.pc = IF l = <<>> THEN "walk" ELSE "lines"
      /\ walk'.pc = "lines" => walk'.path = p
  <2> HIDE DEF l
  <2> QED
    BY <1>7 DEF Reducing, Resting
<1> QED
  BY <1>3, <1>6, <1>8 DEF ScanFile, UpNext

LEMMA FailMoves ==
  ASSUME FlatTypes, TableKept, NEW p \in Paths, ReadFails(p)
  PROVE  /\ walk.pc = "walk" /\ walk' = Resting
         /\ files'[p] = Checked(p) /\ files'[p].known
         /\ \A q \in Paths \ {p} : files'[q] = files[q]
         /\ sessions' = CheckedSessions(p)
         /\ UNCHANGED <<agent, root, disk>>
<1>1. Checked(p).known
  BY DEF Checked, Tracked, Untracked
<1> QED
  BY <1>1 DEF FlatTypes, ReadFails, UpNext

LEMMA ReduceMoves ==
  ASSUME FlatTypes, TableKept, ReduceLine
  PROVE  LET p == walk.path
             next == Reduced(FileOf(p), Head(walk.lines))
         IN
         /\ walk.pc = "lines" /\ p \in Paths
         /\ next \in Reductions
         /\ FileOf(p) \in Reductions
         /\ files[p].session # None => next.session = files[p].session
         /\ next.session = None => next = FileOf(p)
         /\ files'[p] = [files[p] EXCEPT !.session = next.session]
         /\ \A q \in Paths \ {p} : files'[q] = files[q]
         /\ \A id \in Ids :
              sessions'[id] = IF id = next.session
                              THEN [there |-> TRUE, status |-> next.status,
                                    managed |-> Current(p).managed]
                              ELSE sessions[id]
         /\ walk'.lines = Tail(walk.lines)
         /\ walk'.pc = IF walk'.lines = <<>> THEN "walk" ELSE "lines"
         /\ walk'.pc = "lines" => walk'.path = p
         /\ UNCHANGED <<agent, root, disk, changes, rewritten, phase>>
<1> DEFINE p == walk.path
           next == Reduced(FileOf(p), Head(walk.lines))
<1> USE LineAssumption
<1>1. /\ walk.pc = "lines" /\ p \in Paths
      /\ walk.lines \in Seq(Lines) /\ walk.lines # <<>>
  BY DEF ReduceLine, FlatTypes, Walks
<1>2. /\ Head(walk.lines) \in Lines
      /\ FileOf(p) \in Reductions /\ FileOf(p).session = files[p].session
  BY <1>1, HeadTailProperties, CurrentType DEF FileOf
<1>3. /\ next \in Reductions
      /\ files[p].session # None => next.session = files[p].session
      /\ next.session = None => next = FileOf(p)
  BY <1>2, ReducedType
<1>4. /\ files' = [files EXCEPT ![p].session = next.session]
      /\ sessions' = IF next.session = None THEN sessions
                     ELSE [sessions EXCEPT ![next.session] =
                            [there |-> TRUE, status |-> next.status,
                             managed |-> Current(p).managed]]
      /\ walk' = Reducing(p, Tail(walk.lines), walk.todo, walk.seen)
      /\ UNCHANGED <<agent, root, disk, changes, rewritten, phase>>
  BY DEF ReduceLine, FileOf
<1>5. /\ walk'.lines = Tail(walk.lines)
      /\ walk'.pc = IF walk'.lines = <<>> THEN "walk" ELSE "lines"
      /\ walk'.pc = "lines" => walk'.path = p
  BY <1>4 DEF Reducing, Resting
<1> HIDE DEF next
<1>6. /\ files'[p] = [files[p] EXCEPT !.session = next.session]
      /\ \A q \in Paths \ {p} : files'[q] = files[q]
  BY <1>1, <1>4 DEF FlatTypes
<1>7. \A id \in Ids :
         sessions'[id] = IF id = next.session
                         THEN [there |-> TRUE, status |-> next.status,
                               managed |-> Current(p).managed]
                         ELSE sessions[id]
  BY <1>3, <1>4 DEF FlatTypes
<1> QED
  BY <1>1, <1>2, <1>3, <1>4, <1>5, <1>6, <1>7 DEF next, Reductions

-----------------------------------------------------------------------------
(* The tables, and which sessions exist.                                   *)

LEMMA CheckedKept ==
  ASSUME FlatTypes, TableKept, NEW p \in Paths
  PROVE  /\ \A id \in Ids : CheckedSessions(p)[id] \in {sessions[id], Absent}
         /\ \A id \in Ids :
              CheckedSessions(p)[id] # sessions[id]
                => /\ Truncated(p) /\ id = files[p].session
                   /\ ~ReferencedExcept(id, p)
         /\ Truncated(p) => Checked(p).session = None
         /\ ~Truncated(p) => Checked(p).session = files[p].session
BY DEF CheckedSessions, Checked, Tracked, Untracked, TableKept, FlatTypes

\* The sessions after file p has let go of its session or kept it.
LEMMA CheckedReferenced ==
  ASSUME FlatTypes, TableKept, SessionsReferenced, NEW p \in Paths,
         files'[p].session = Checked(p).session,
         \A q \in Paths \ {p} : files'[q] = files[q],
         sessions' = CheckedSessions(p)
  PROVE  SessionsReferenced'
<1> SUFFICES ASSUME NEW id \in Ids
             PROVE  sessions'[id].there <=>
                      \E q \in Paths : files'[q].session = id
  BY DEF SessionsReferenced
<1> USE LineAssumption
<1>1. sessions[id].there <=> \E q \in Paths : files[q].session = id
  BY DEF SessionsReferenced
<1>2. CASE ~Truncated(p)
  <2>1. files'[p].session = files[p].session /\ sessions'[id] = sessions[id]
    BY <1>2, CheckedKept DEF CheckedSessions
  <2> QED
    BY <1>1, <2>1
<1>3. CASE Truncated(p) /\ id # files[p].session
  <2>1. files'[p].session = None /\ sessions'[id] = sessions[id]
    BY <1>3, CheckedKept
  <2> QED
    BY <1>1, <1>3, <2>1
<1>4. CASE Truncated(p) /\ id = files[p].session
  <2>1. /\ files'[p].session = None
        /\ sessions'[id] = IF ReferencedExcept(id, p) THEN sessions[id]
                           ELSE Absent
    BY <1>4, CheckedKept DEF CheckedSessions, FlatTypes
  <2>2. ReferencedExcept(id, p) <=> \E q \in Paths : files'[q].session = id
    BY <2>1 DEF ReferencedExcept
  <2> QED
    BY <1>1, <1>4, <2>1, <2>2 DEF Absent
<1> QED
  BY <1>2, <1>3, <1>4

LEMMA TableStep == FlatTypes /\ TableKept /\ [Next]_vars => TableKept'
<1> SUFFICES ASSUME FlatTypes, TableKept, [Next]_vars PROVE TableKept'
  OBVIOUS
<1> USE LineAssumption
<1>1. CASE StartScan
  <2>1. UNCHANGED <<disk, files, sessions>>
    BY <1>1 DEF StartScan
  <2>2. CASE root
    BY <1>1, <2>1, <2>2 DEF StartScan, TableKept, Resting, FlatTypes
  <2>3. CASE ~root
    BY <1>1, <2>1, <2>3 DEF StartScan, NextPhase, TableKept
  <2> QED
    BY <2>2, <2>3 DEF FlatTypes
<1>2. CASE FinishWalk
  BY <1>2 DEF FinishWalk, Forgotten, TableKept, Resting
<1>3. CASE ReduceLine
  <2> DEFINE p == walk.path
             next == Reduced(FileOf(p), Head(walk.lines))
  <2>1. /\ p \in Paths /\ walk.pc = "lines"
        /\ files'[p] = [files[p] EXCEPT !.session = next.session]
        /\ \A q \in Paths \ {p} : files'[q] = files[q]
        /\ \A id \in Ids : sessions'[id].there \/ sessions'[id] = sessions[id]
        /\ walk'.pc = "lines" => walk'.path = p
        /\ UNCHANGED <<disk, phase>>
    BY <1>3, ReduceMoves
  <2>2. files'[p].known /\ files[p].known
    BY <2>1 DEF TableKept, FlatTypes, FileStates
  <2> HIDE DEF next
  <2> QED
    BY <2>1, <2>2 DEF TableKept
<1>4. ASSUME NEW p \in Paths, FileVanished(p) PROVE TableKept'
  BY <1>4 DEF FileVanished, TableKept, Resting
<1>5. ASSUME NEW p \in Paths, ScanFile(p) PROVE TableKept'
  <2>1. \A id \in Ids : CheckedSessions(p)[id] \in {sessions[id], Absent}
    BY CheckedKept
  <2> QED
    BY <1>5, <2>1, ScanMoves DEF TableKept
<1>6. ASSUME NEW p \in Paths, ReadFails(p) PROVE TableKept'
  <2>1. \A id \in Ids : CheckedSessions(p)[id] \in {sessions[id], Absent}
    BY CheckedKept
  <2> QED
    BY <1>6, <2>1, FailMoves DEF TableKept, Resting
<1>7. ASSUME NEW id \in Ids, NEW process \in BOOLEAN, SetManaged(id, process)
      PROVE  TableKept'
  BY <1>7 DEF SetManaged, TableKept, FlatTypes, SessionStates
<1>8. ASSUME UNCHANGED <<files, sessions, phase, walk>>,
             \A p \in Paths : disk'[p].half => disk'[p].lines # <<>>
      PROVE  TableKept'
  BY <1>8 DEF TableKept
<1>9. ASSUME NEW p \in Paths, NEW line \in Written, NEW half \in BOOLEAN,
             Write(p, line, half)
      PROVE  TableKept'
  <2>1. Append(disk[p].lines, line) # <<>>
    <3>1. disk[p].lines \in Seq(Lines) /\ line \in Lines
      BY Sizes DEF FlatTypes, TableKept
    <3> QED
      BY <3>1, AppendProperties
  <2> QED
    BY <1>8, <1>9, <2>1 DEF Write, Change, FlatTypes, TableKept
<1>10. ASSUME NEW p \in Paths, CompleteLine(p) PROVE TableKept'
  BY <1>8, <1>10 DEF CompleteLine, Change, FlatTypes, LogStates, TableKept
<1>11. ASSUME NEW p \in Paths, Truncate(p) \/ Delete(p) PROVE TableKept'
  BY <1>8, <1>11 DEF Truncate, Delete, Change, Missing, FlatTypes, TableKept
<1>12. CASE RemoveRoot
  BY <1>8, <1>12 DEF RemoveRoot, Change, Missing
<1>13. CASE UNCHANGED vars
  BY <1>13 DEF vars, TableKept
<1> QED
  BY <1>1, <1>2, <1>3, <1>4, <1>5, <1>6, <1>7, <1>9, <1>10, <1>11, <1>12,
     <1>13 DEF Next, ScanStep, DiskStep

LEMMA ReferencedStep ==
  FlatTypes /\ TableKept /\ SessionsReferenced /\ [Next]_vars
    => SessionsReferenced'
<1> SUFFICES ASSUME FlatTypes, TableKept, SessionsReferenced, [Next]_vars
             PROVE  SessionsReferenced'
  OBVIOUS
<1> USE LineAssumption
<1>1. CASE FinishWalk
  <2>1. \A p \in Paths : /\ p \in walk.seen => files'[p] = files[p]
                         /\ p \notin walk.seen => files'[p].session = None
    BY <1>1 DEF FinishWalk, Forgotten, Untracked
  <2>2. \A id \in Ids : sessions'[id] =
           IF \E p \in walk.seen : files[p].session = id
           THEN sessions[id] ELSE Absent
    BY <1>1 DEF FinishWalk
  <2>3. walk.seen \subseteq Paths
    BY DEF FlatTypes, Walks
  <2> SUFFICES ASSUME NEW id \in Ids
               PROVE  sessions'[id].there
                        <=> \E p \in Paths : files'[p].session = id
    BY DEF SessionsReferenced
  <2>4. (\E p \in walk.seen : files[p].session = id) => sessions[id].there
    BY <2>3 DEF SessionsReferenced
  <2>5. (\E p \in Paths : files'[p].session = id)
           <=> \E p \in walk.seen : files[p].session = id
    BY <2>1, <2>3
  <2> QED
    BY <2>2, <2>4, <2>5 DEF Absent
<1>2. CASE ReduceLine
  <2> DEFINE p == walk.path
             next == Reduced(FileOf(p), Head(walk.lines))
  <2>1. /\ p \in Paths
        /\ files[p].session # None => next.session = files[p].session
        /\ files'[p] = [files[p] EXCEPT !.session = next.session]
        /\ \A q \in Paths \ {p} : files'[q] = files[q]
        /\ \A id \in Ids : IF id = next.session THEN sessions'[id].there
                           ELSE sessions'[id] = sessions[id]
    BY <1>2, ReduceMoves
  <2> HIDE DEF next
  <2>2. files'[p].session = next.session
    BY <2>1 DEF FlatTypes, FileStates
  <2>3. files[p].session \in Ids \cup {None}
    BY <2>1 DEF FlatTypes, FileStates
  <2> SUFFICES ASSUME NEW id \in Ids
               PROVE  sessions'[id].there
                        <=> \E q \in Paths : files'[q].session = id
    BY DEF SessionsReferenced
  <2>4. CASE id = next.session
    BY <2>1, <2>2, <2>4
  <2>5. CASE id # next.session
    <3>1. files[p].session # id /\ files'[p].session # id
      BY <2>1, <2>2, <2>5
    <3>2. \A q \in Paths : files'[q].session = id <=> files[q].session = id
      BY <2>1, <3>1
    <3>3. sessions'[id] = sessions[id]
      BY <2>1, <2>5
    <3> QED
      BY <3>2, <3>3 DEF SessionsReferenced
  <2> QED
    BY <2>4, <2>5
<1>3. ASSUME NEW p \in Paths, ScanFile(p) PROVE SessionsReferenced'
  BY <1>3, ScanMoves, CheckedReferenced
<1>4. ASSUME NEW p \in Paths, ReadFails(p) PROVE SessionsReferenced'
  BY <1>4, FailMoves, CheckedReferenced
<1>5. ASSUME NEW id \in Ids, NEW process \in BOOLEAN, SetManaged(id, process)
      PROVE  SessionsReferenced'
  <2>1. UNCHANGED files /\ \A k \in Ids : sessions'[k].there = sessions[k].there
    BY <1>5 DEF SetManaged, FlatTypes, SessionStates
  <2> QED
    BY <2>1 DEF SessionsReferenced
<1>6. CASE \/ StartScan \/ \E p \in Paths : FileVanished(p)
           \/ \E p \in Paths, line \in Written, half \in BOOLEAN :
                 Write(p, line, half)
           \/ \E p \in Paths : CompleteLine(p) \/ Truncate(p) \/ Delete(p)
           \/ RemoveRoot \/ UNCHANGED vars
  <2>1. UNCHANGED <<files, sessions>>
    BY <1>6 DEF StartScan, FileVanished, Write, CompleteLine, Truncate, Delete,
       RemoveRoot, Change, vars
  <2> QED
    BY <2>1 DEF SessionsReferenced
<1> QED
  BY <1>1, <1>2, <1>3, <1>4, <1>5, <1>6 DEF Next, ScanStep, DiskStep

-----------------------------------------------------------------------------
(* Theorems on types and sessions.                                         *)

SessionsInv == FlatTypes /\ TableKept /\ SessionsReferenced

LEMMA InitSessions == Init => SessionsInv
<1> SUFFICES ASSUME Init PROVE SessionsInv
  OBVIOUS
<1> USE LineAssumption, Constants
<1>1. /\ disk = [p \in Paths |-> Missing] /\ files = [p \in Paths |-> Untracked]
      /\ sessions = [id \in Ids |-> Absent] /\ walk = Resting
      /\ changes \in 0 .. MaxChanges
  BY DEF Init
<1>2. FlatTypes
  <2>1. /\ disk \in [Paths -> LogStates] /\ files \in [Paths -> FileStates]
        /\ sessions \in [Ids -> SessionStates] /\ walk \in Walks
    BY <1>1
  <2>2. walk.pc # "lines"
    BY <1>1 DEF Resting
  <2> QED
    BY <1>1, <2>1, <2>2 DEF Init, FlatTypes
<1>3. TableKept
  BY <1>1 DEF TableKept, Missing, Resting
<1>4. SessionsReferenced
  BY <1>1 DEF SessionsReferenced, Absent, Untracked
<1> QED
  BY <1>2, <1>3, <1>4 DEF SessionsInv

LEMMA SessionsAlways == Spec => []SessionsInv
<1>1. SessionsInv /\ [Next]_vars => SessionsInv'
  BY TypeStep, TableStep, ReferencedStep DEF SessionsInv
<1> QED
  BY <1>1, InitSessions, PTL DEF Spec

\* Every variable of the adapter keeps its type, and no offset lies beyond the
\* bound of a log (scanFile, reduceLine).
THEOREM LineTypes == Spec => []TypeOK
<1>1. SessionsInv => TypeOK
  BY Types DEF SessionsInv
<1> QED
  BY <1>1, SessionsAlways, PTL

\* A session is in the map exactly as long as some log belongs to it, however
\* logs are truncated, deleted, shared between sessions or fail to open
\* (scanFile, the cleanup of Scan, reduceLine).
THEOREM SessionsHaveFiles == Spec => []SessionsReferenced
BY SessionsAlways, PTL DEF SessionsInv

\* The managed indicator is taken away by SetManaged or with its session; of
\* the lines of the logs only the first one of a log that joins the session
\* does it, because its fileState starts with the zero Session.
THEOREM IndicatorSurvivesLogs == Spec => ManagedKept
<1> DEFINE Loses(id) == sessions[id].managed /\ sessions'[id].there
                          /\ ~sessions'[id].managed
           Allowed(id) == \/ UNCHANGED <<files, walk>>
                          \/ id \in shared' /\ files[walk.path].session = None
                                            /\ files'[walk.path].session = id
<1>1. SessionsInv /\ [Next]_vars => [\A id \in Ids : Loses(id) => Allowed(id)]_vars
  <2> SUFFICES ASSUME SessionsInv, Next, NEW id \in Ids, Loses(id)
               PROVE  Allowed(id)
    OBVIOUS
  <2> USE LineAssumption DEF SessionsInv
  <2>1. sessions'[id] # sessions[id] /\ sessions'[id] # Absent
        /\ sessions[id].there
    BY DEF Absent, TableKept
  <2>2. CASE FinishWalk
    BY <2>1, <2>2 DEF FinishWalk
  <2>3. CASE ReduceLine
    <3> DEFINE p == walk.path
               next == Reduced(FileOf(p), Head(walk.lines))
    <3>1. /\ files[p].session # None => next.session = files[p].session
          /\ \A k \in Ids :
               sessions'[k] = IF k = next.session
                              THEN [there |-> TRUE, status |-> next.status,
                                    managed |-> Current(p).managed]
                              ELSE sessions[k]
          /\ p \in Paths
          /\ files'[p] = [files[p] EXCEPT !.session = next.session]
      BY <2>3, ReduceMoves
    <3>2. shared' = IF files[p].session = None /\ next.session # None
                                  /\ sessions[next.session].there
                    THEN shared \cup {next.session} ELSE shared
      BY <2>3 DEF ReduceLine, FileOf
    <3> HIDE DEF next
    <3>3. id = next.session
      BY <2>1, <3>1
    <3>4. sessions'[id].managed = Current(p).managed
      BY <3>1, <3>3
    <3>5. files[p].session = None
      BY <3>1, <3>3, <3>4 DEF Current
    <3>6. id \in shared' /\ files'[p].session = id
      BY <2>1, <3>1, <3>2, <3>3, <3>5 DEF FlatTypes, FileStates
    <3> QED
      BY <3>5, <3>6
  <2>4. ASSUME NEW p \in Paths, ScanFile(p) \/ ReadFails(p) PROVE FALSE
    BY <2>1, <2>4, CheckedKept DEF ScanFile, ReadFails
  <2>5. ASSUME NEW k \in Ids, NEW process \in BOOLEAN, SetManaged(k, process)
        PROVE  Allowed(id)
    BY <2>5 DEF SetManaged
  <2>6. CASE \/ StartScan \/ \E p \in Paths : FileVanished(p)
             \/ \E p \in Paths, line \in Written, half \in BOOLEAN :
                   Write(p, line, half)
             \/ \E p \in Paths : CompleteLine(p) \/ Truncate(p) \/ Delete(p)
             \/ RemoveRoot
    BY <2>1, <2>6 DEF StartScan, FileVanished, Write, CompleteLine, Truncate,
       Delete, RemoveRoot, Change
  <2> QED
    BY <2>2, <2>3, <2>4, <2>5, <2>6 DEF Next, ScanStep, DiskStep
<1> QED
  BY <1>1, SessionsAlways, PTL DEF Spec, ManagedKept

-----------------------------------------------------------------------------
(* Reading a log piece by piece.                                           *)

Fold == INSTANCE FoldLemmas WITH Op <- Reduced, Base <- NewFile

\* Reading complete lines in one go.
Read == [s \in Seq(Lines) |-> FoldLeft(Reduced, NewFile, s)]

\* Lines of p that wait to be reduced, and those that have been.
Waiting(p) == IF walk.pc = "lines" /\ walk.path = p THEN Len(walk.lines) ELSE 0
Done(p) == files[p].offset \div 2 - Waiting(p)

\* What is left to reduce lies between the two positions, the half line that
\* was read is the one that the log goes on with, and the state of the file is
\* the reduction of the lines behind the first position.
Followed(p) ==
    /\ files[p].offset <= Size(disk[p])
    /\ Done(p) \in 0 .. MaxLines
    /\ files[p].offset % 2 = 1 =>
         files[p].pending = disk[p].lines[files[p].offset \div 2 + 1]
    /\ walk.pc = "lines" /\ walk.path = p =>
         walk.lines = SubSeq(disk[p].lines, Done(p) + 1, files[p].offset \div 2)
    /\ files[p].session \notin shared =>
         FileOf(p) = Read[SubSeq(disk[p].lines, 1, Done(p))]

\* Two logs have a session only as a shared one.
JoinsRecorded ==
    \A p, q \in Paths :
       p # q /\ files[p].session = files[q].session /\ files[p].session # None
          => files[p].session \in shared

ReadingInv ==
    /\ SessionsInv /\ JoinsRecorded
    /\ \A p \in Paths \ rewritten : Followed(p)

-----------------------------------------------------------------------------
(* The laws of Read.                                                       *)

ReadLaws ==
    /\ Read[<<>>] = NewFile
    /\ \A s \in Seq(Lines) : \A e \in Lines :
          Read[Append(s, e)] = Reduced(Read[s], e)

LEMMA ReadIs ==
  ASSUME NEW s
  PROVE  FoldLeft(Reduced, NewFile, s) = Fold!Folded(s)
BY Zenon DEF FoldLeft, MapThenFoldSet, Max, Fold!Folded, Fold!FoldLeft,
   Fold!MapThenFoldSet, Fold!Max

LEMMA ReadLawsHold == ReadLaws
<1>1. \A s \in Seq(Lines) : Read[s] = Fold!Folded(s)
  BY ReadIs DEF Read
<1>2. Read[<<>>] = NewFile
  <2>1. <<>> \in Seq(Lines)
    BY Constants
  <2> QED
    BY <1>1, <2>1, Fold!FoldEmpty
<1>3. ASSUME NEW s \in Seq(Lines), NEW e \in Lines
      PROVE  Read[Append(s, e)] = Reduced(Read[s], e)
  <2>1. Append(s, e) \in Seq(Lines)
    BY AppendProperties
  <2>2. Fold!Folded(Append(s, e)) = Reduced(Fold!Folded(s), e)
    BY Fold!FoldAppend
  <2> QED
    BY <1>1, <2>1, <2>2
<1> QED
  BY <1>2, <1>3 DEF ReadLaws

LEMMA ReadLawsNext == ReadLaws'
BY ReadLawsHold, PTL

-----------------------------------------------------------------------------
(* Pieces of sequences.                                                    *)

LEMMA Piece ==
  ASSUME NEW S, NEW s \in Seq(S), NEW m \in Nat, NEW n \in Nat,
         n <= Len(s)
  PROVE  /\ SubSeq(s, m + 1, n) \in Seq(S)
         /\ Len(SubSeq(s, m + 1, n)) = IF m <= n THEN n - m ELSE 0
         /\ \A i \in 1 .. n - m : SubSeq(s, m + 1, n)[i] = s[m + i]
<1>1. \A i \in m + 1 .. n : s[i] \in S
  <2> SUFFICES ASSUME NEW i \in m + 1 .. n PROVE s[i] \in S
    OBVIOUS
  <2>1. i \in 1 .. Len(s)
    BY LenProperties
  <2> QED
    BY <2>1, ElementOfSeq
<1>2. m + 1 \in Int /\ n \in Int
  OBVIOUS
<1> DEFINE l == SubSeq(s, m + 1, n)
<1>3. /\ l \in Seq(S)
      /\ Len(l) = IF m + 1 <= n THEN n - (m + 1) + 1 ELSE 0
      /\ \A i \in 1 .. n - (m + 1) + 1 : l[i] = s[(m + 1) + i - 1]
  BY <1>1, <1>2, SubSeqProperties
<1>4. n - (m + 1) + 1 = n - m
  OBVIOUS
<1>5. \A i \in 1 .. n - m : (m + 1) + i - 1 = m + i
  OBVIOUS
<1> HIDE DEF l
<1>6. Len(l) = IF m <= n THEN n - m ELSE 0
  BY <1>3
<1>7. \A i \in 1 .. n - m : l[i] = s[m + i]
  BY <1>3, <1>4, <1>5
<1> QED
  BY <1>3, <1>6, <1>7 DEF l

\* Sequences that agree up to n have the same pieces up to n.
LEMMA SamePiece ==
  ASSUME NEW S, NEW s \in Seq(S), NEW t \in Seq(S), NEW m \in Nat, NEW n \in Nat,
         n <= Len(s), n <= Len(t),
         \A i \in 1 .. n : s[i] = t[i]
  PROVE  SubSeq(s, m + 1, n) = SubSeq(t, m + 1, n)
<1> DEFINE a == SubSeq(s, m + 1, n)
           b == SubSeq(t, m + 1, n)
<1>1. /\ a \in Seq(S) /\ b \in Seq(S) /\ Len(a) = Len(b)
      /\ Len(a) = IF m <= n THEN n - m ELSE 0
      /\ \A i \in 1 .. n - m : a[i] = s[m + i] /\ b[i] = t[m + i]
  BY Piece
<1>2. \A i \in 1 .. n - m : m + i \in 1 .. n
  OBVIOUS
<1> HIDE DEF a, b
<1>3. \A i \in 1 .. Len(a) : a[i] = b[i]
  BY <1>1, <1>2
<1>4. a = b
  BY <1>1, <1>3, SeqEqual
<1> QED
  BY <1>4 DEF a, b

\* A piece and the element behind it.
LEMMA PieceAndNext ==
  ASSUME NEW S, NEW s \in Seq(S), NEW n \in Nat, n < Len(s)
  PROVE  /\ SubSeq(s, 1, n) \in Seq(S) /\ s[n + 1] \in S
         /\ SubSeq(s, 1, n + 1) = Append(SubSeq(s, 1, n), s[n + 1])
<1>0. Len(s) \in Nat
  BY LenProperties
<1> DEFINE a == SubSeq(s, 0 + 1, n + 1)
           b == SubSeq(s, 0 + 1, n)
           c == Append(b, s[n + 1])
<1>1. /\ a \in Seq(S) /\ Len(a) = n + 1
      /\ \A i \in 1 .. n + 1 : a[i] = s[i]
  BY <1>0, Piece
<1>2. /\ b \in Seq(S) /\ Len(b) = n
      /\ \A i \in 1 .. n : b[i] = s[i]
  BY <1>0, Piece
<1>3. s[n + 1] \in S
  BY <1>0, ElementOfSeq
<1>4. /\ c \in Seq(S) /\ Len(c) = n + 1 /\ c[n + 1] = s[n + 1]
      /\ \A i \in 1 .. n : c[i] = s[i]
  <2> HIDE DEF b
  <2> QED
    BY <1>2, <1>3, AppendProperties
<1>5. a = c
  <2> HIDE DEF a, c
  <2>1. \A i \in 1 .. Len(a) : a[i] = c[i]
    BY <1>1, <1>4
  <2> QED
    BY <1>1, <1>4, <2>1, SeqEqual
<1>6. a = SubSeq(s, 1, n + 1) /\ b = SubSeq(s, 1, n)
  OBVIOUS
<1> HIDE DEF a
<1> QED
  BY <1>2, <1>3, <1>5, <1>6

\* The same agent reads the same.
LEMMA SameAgent == UNCHANGED agent => Read' = Read
<1> SUFFICES ASSUME UNCHANGED agent PROVE Read' = Read
  OBVIOUS
<1> DEFINE T == {n \in Nat : \E s \in Seq(Lines) : Len(s) = n /\ Read'[s] # Read[s]}
<1>1. ASSUME NEW of, NEW line PROVE Reduced(of, line)' = Reduced(of, line)
  BY DEF Reduced, NativeID, StatusAfter
<1>2. T = {}
  <2> SUFFICES ASSUME T # {} PROVE FALSE
    OBVIOUS
  <2>1. PICK n \in T : \A y \in T : n <= y
    BY Fold!SmallestNat
  <2>2. PICK s \in Seq(Lines) : Len(s) = n /\ Read'[s] # Read[s]
    OBVIOUS
  <2>3. n # 0
    BY <2>2, EmptySeq, ReadLawsHold, ReadLawsNext DEF ReadLaws
  <2>4. n - 1 \in Nat /\ n - 1 < Len(s) /\ (n - 1) + 1 = n /\ n - 1 \notin T
    BY <2>1, <2>2, <2>3
  <2> DEFINE t == SubSeq(s, 1, n - 1)
  <2>5. t \in Seq(Lines) /\ Len(t) = n - 1 /\ s[n] \in Lines
    BY <2>2, <2>4, Piece, PieceAndNext
  <2>6. s = Append(t, s[n])
    BY <2>2, <2>4, PieceAndNext, SubSeqFull
  <2>7. Read'[t] = Read[t]
    BY <2>4, <2>5
  <2> HIDE DEF t
  <2> PICK r : r = Read[t]
    OBVIOUS
  <2>8. /\ Read[Append(t, s[n])] = Reduced(r, s[n])
        /\ Read'[Append(t, s[n])] = Reduced(r, s[n])'
    BY <2>5, <2>7, ReadLawsHold, ReadLawsNext DEF ReadLaws
  <2> QED
    BY <1>1, <2>2, <2>6, <2>8
<1>3. \A s \in Seq(Lines) : Len(s) \in Nat
  BY LenProperties
<1>4. \A s \in Seq(Lines) : Read'[s] = Read[s]
  BY <1>2, <1>3
<1> QED
  BY <1>4 DEF Read

-----------------------------------------------------------------------------
(* Positions in a log.                                                     *)

LEMMA Halved ==
  ASSUME NEW o \in Nat
  PROVE  o = 2 * (o \div 2) + (o % 2) /\ o % 2 \in {0, 1} /\ o \div 2 \in Nat
OBVIOUS

LEMMA Positions ==
  ASSUME NEW log \in LogStates, log.half => log.lines # <<>>,
         NEW o \in 0 .. 2 * MaxLines, o <= Size(log)
  PROVE  /\ o \div 2 \in 0 .. Size(log) \div 2
         /\ o \div 2 \in 0 .. Len(log.lines)
         /\ o \div 2 \in 0 .. MaxLines
         /\ o % 2 \in {0, 1}
         /\ o % 2 = 1 => o \div 2 + 1 \in 1 .. Len(log.lines)
<1> USE LineAssumption
<1>1. PICK n \in 0 .. MaxLines, z \in 0 .. 2 * MaxLines :
         /\ n = Len(log.lines) /\ z = Size(log)
         /\ z \div 2 <= n /\ z <= 2 * n
  <2>1. Size(log) <= 2 * Len(log.lines)
    <3>1. log.half \in BOOLEAN /\ Len(log.lines) \in Nat
      BY Sizes DEF LogStates
    <3>2. CASE log.half
      BY <3>1, <3>2 DEF Size
    <3>3. CASE ~log.half
      BY <3>1, <3>3 DEF Size
    <3> QED
      BY <3>2, <3>3
  <2>2. Size(log) \div 2 <= Len(log.lines)
    BY Sizes
  <2> QED
    BY <2>1, <2>2, Sizes
<1>2. o \in Nat /\ o <= z /\ z \in Nat /\ n \in Nat /\ MaxLines \in Nat
  BY <1>1
<1>3. o = 2 * (o \div 2) + (o % 2) /\ o % 2 \in {0, 1} /\ o \div 2 \in Nat
  BY <1>2, Halved
<1>4. z = 2 * (z \div 2) + (z % 2) /\ z % 2 \in {0, 1} /\ z \div 2 \in Nat
  BY <1>2, Halved
<1> DEFINE a == o \div 2
           b == z \div 2
           c == o % 2
           d == z % 2
<1>5. a \in 0 .. b /\ a \in 0 .. n /\ a \in 0 .. MaxLines
      /\ (c = 1 => a + 1 \in 1 .. n)
  <2>1. /\ o = 2 * a + c /\ c \in {0, 1} /\ a \in Nat
        /\ z = 2 * b + d /\ d \in {0, 1} /\ b \in Nat
        /\ b <= n /\ z <= 2 * n
    BY <1>1, <1>3, <1>4
  <2> HIDE DEF a, b, c, d
  <2> QED
    BY <1>1, <1>2, <2>1
<1> QED
  BY <1>1, <1>3, <1>5

\* When the half line is the one the log goes on with, nothing is glued wrong.
LEMMA ReadsOn ==
  ASSUME NEW log \in LogStates, log.half => log.lines # <<>>,
         NEW file \in FileStates, file.offset <= Size(log),
         file.offset % 2 = 1
           => file.pending = log.lines[file.offset \div 2 + 1]
  PROVE  ReadLines(file, log) =
           SubSeq(log.lines, file.offset \div 2 + 1, Size(log) \div 2)
<1> DEFINE k == file.offset \div 2
           n == Size(log) \div 2
           whole == SubSeq(log.lines, k + 1, n)
<1> USE LineAssumption
<1>1. file.offset \in 0 .. 2 * MaxLines
  BY DEF FileStates
<1>2. k \in 0 .. n /\ k \in 0 .. MaxLines /\ n \in Nat /\ file.offset % 2 \in {0, 1}
  BY <1>1, Positions, Sizes
<1>3. /\ Len(whole) = IF k < n THEN n - k ELSE 0
      /\ whole \in Seq(Lines)
      /\ \A i \in 1 .. Len(whole) : whole[i] = log.lines[k + i]
  <2>1. n \in 0 .. Size(log) \div 2
    BY <1>2
  <2> QED
    BY <1>2, <2>1, LinesOf
<1>4. file.offset % 2 = 1 /\ whole # <<>> => file.pending = whole[1]
  <2> SUFFICES ASSUME file.offset % 2 = 1, whole # <<>>
               PROVE  file.pending = whole[1]
    OBVIOUS
  <2> HIDE DEF whole
  <2>1. Len(whole) \in Nat \ {0}
    BY <1>3, EmptySeq
  <2>2. whole[1] = log.lines[k + 1]
    BY <1>3, <2>1
  <2> QED
    BY <2>2
<1>5. file.offset % 2 = 0 \/ whole = <<>> \/ file.pending = whole[1]
  BY <1>2, <1>4
<1> QED
  BY <1>5 DEF ReadLines

-----------------------------------------------------------------------------
(* Shared sessions.                                                        *)

\* A session that a file has is not struck from the shared ones.
LEMMA SharedKept ==
  ASSUME SessionsInv', NEW p \in Paths, files'[p].session # None,
         files'[p].session \in shared, shared' = StillShared(sessions')
  PROVE  files'[p].session \in shared'
<1>1. files'[p].session \in Ids
  BY DEF SessionsInv, FlatTypes, FileStates
<1>2. sessions'[files'[p].session].there
  BY <1>1 DEF SessionsInv, SessionsReferenced
<1> QED
  BY <1>2 DEF StillShared

LEMMA JoinsStep ==
  SessionsInv /\ SessionsInv' /\ JoinsRecorded /\ [Next]_vars => JoinsRecorded'
<1> SUFFICES ASSUME SessionsInv, SessionsInv', JoinsRecorded, [Next]_vars,
                    NEW p \in Paths, NEW q \in Paths, p # q,
                    files'[p].session = files'[q].session,
                    files'[p].session # None
             PROVE  files'[p].session \in shared'
  BY DEF JoinsRecorded
<1> USE LineAssumption DEF SessionsInv
<1>1. ASSUME shared' = StillShared(sessions'),
             files'[p].session = files[p].session,
             files'[q].session = files[q].session
      PROVE  files'[p].session \in shared'
  BY <1>1, SharedKept DEF JoinsRecorded
<1>2. CASE FinishWalk
  <2>1. \A r \in Paths : files'[r].session \in {files[r].session, None}
    BY <1>2 DEF FinishWalk, Forgotten, Untracked
  <2> QED
    BY <1>1, <1>2, <2>1 DEF FinishWalk
<1>3. CASE ReduceLine
  <2> DEFINE w == walk.path
             next == Reduced(FileOf(w), Head(walk.lines))
  <2>1. /\ w \in Paths
        /\ files[w].session # None => next.session = files[w].session
        /\ files'[w] = [files[w] EXCEPT !.session = next.session]
        /\ \A r \in Paths \ {w} : files'[r] = files[r]
    BY <1>3, ReduceMoves
  <2>2. shared' = IF files[w].session = None /\ next.session # None
                                /\ sessions[next.session].there
                  THEN shared \cup {next.session} ELSE shared
    BY <1>3 DEF ReduceLine, FileOf
  <2> HIDE DEF next
  <2>3. files'[w].session = next.session
    BY <2>1 DEF FlatTypes, FileStates
  <2>4. CASE files[w].session # None \/ (p # w /\ q # w)
    <3>1. files'[p].session = files[p].session /\ files'[q].session = files[q].session
      BY <2>1, <2>3, <2>4
    <3> QED
      BY <2>2, <3>1 DEF JoinsRecorded
  <2>5. CASE files[w].session = None /\ (p = w \/ q = w)
    <3>1. PICK r \in Paths : r # w /\ files[r].session = next.session
      BY <2>1, <2>3, <2>5
    <3>2. next.session # None /\ next.session = files'[p].session
      BY <2>1, <2>3, <2>5
    <3>3. next.session \in Ids
      BY <3>1, <3>2 DEF FlatTypes, FileStates
    <3>4. sessions[next.session].there
      BY <3>1, <3>3 DEF SessionsReferenced
    <3> QED
      BY <2>2, <2>5, <3>2, <3>4
  <2> QED
    BY <2>4, <2>5
<1>4. ASSUME NEW r \in Paths, ScanFile(r) \/ ReadFails(r)
      PROVE  files'[p].session \in shared'
  <2>1. /\ files'[r].session = Checked(r).session
        /\ \A t \in Paths \ {r} : files'[t] = files[t]
    BY <1>4, ScanMoves, FailMoves
  <2>2. Checked(r).session \in {None, files[r].session}
    BY CheckedKept
  <2>3. \A t \in Paths : files'[t].session \in {files[t].session, None}
    BY <2>1, <2>2
  <2>4. shared' = StillShared(sessions')
    BY <1>4 DEF ScanFile, ReadFails
  <2> QED
    BY <1>1, <2>3, <2>4
<1>5. CASE \/ StartScan \/ \E r \in Paths : FileVanished(r)
           \/ \E id \in Ids, process \in BOOLEAN : SetManaged(id, process)
           \/ \E r \in Paths, line \in Written, half \in BOOLEAN :
                 Write(r, line, half)
           \/ \E r \in Paths : CompleteLine(r) \/ Truncate(r) \/ Delete(r)
           \/ RemoveRoot \/ UNCHANGED vars
  <2>1. UNCHANGED <<files, shared>>
    BY <1>5 DEF StartScan, FileVanished, SetManaged, Write, CompleteLine,
       Truncate, Delete, RemoveRoot, Change, vars
  <2> QED
    BY <2>1 DEF JoinsRecorded
<1> QED
  BY <1>2, <1>3, <1>4, <1>5 DEF Next, ScanStep, DiskStep

-----------------------------------------------------------------------------
(* What is followed stays followed.                                        *)

LEMMA LogTypes ==
  ASSUME SessionsInv, NEW p \in Paths
  PROVE  /\ disk[p] \in LogStates /\ (disk[p].half => disk[p].lines # <<>>)
         /\ disk[p].lines \in Seq(Lines) /\ Len(disk[p].lines) \in Nat
         /\ files[p] \in FileStates /\ files[p].offset \in 0 .. 2 * MaxLines
         /\ files[p].session \in Ids \cup {None}
         /\ None \notin shared
         /\ walk.lines \in Seq(Lines) /\ Waiting(p) \in Nat
<1>1. /\ disk[p] \in LogStates /\ (disk[p].half => disk[p].lines # <<>>)
      /\ files[p] \in FileStates /\ walk.lines \in Seq(Lines)
      /\ shared \subseteq Ids
  BY DEF SessionsInv, FlatTypes, TableKept, Walks
<1>2. disk[p].lines \in Seq(Lines) /\ Len(disk[p].lines) \in Nat
  BY <1>1, Sizes
<1>3. Waiting(p) \in Nat
  BY <1>1, LenProperties DEF Waiting
<1>4. files[p].offset \in 0 .. 2 * MaxLines /\ files[p].session \in Ids \cup {None}
  BY <1>1 DEF FileStates
<1> QED
  BY <1>1, <1>2, <1>3, <1>4, LineAssumption

\* A file of which nothing has been read.
Fresh(p) == /\ files[p].offset = 0 /\ files[p].session = None
            /\ walk.pc # "lines" \/ walk.path # p
FreshFollowed == SessionsInv => \A p \in Paths : Fresh(p) => Followed(p)

LEMMA FollowedFresh == FreshFollowed
<1> SUFFICES ASSUME SessionsInv, NEW p \in Paths, Fresh(p) PROVE Followed(p)
  BY DEF FreshFollowed
<1> USE LineAssumption
<1>1. /\ disk[p] \in LogStates /\ (disk[p].half => disk[p].lines # <<>>)
      /\ disk[p].lines \in Seq(Lines) /\ Len(disk[p].lines) \in Nat
  BY LogTypes
<1>2. Size(disk[p]) \in 0 .. 2 * MaxLines
  BY <1>1, Sizes
<1>3. Done(p) = 0 /\ files[p].offset % 2 = 0 /\ files[p].offset = 0
  <2>1. 0 \div 2 = 0 /\ 0 % 2 = 0
    OBVIOUS
  <2>2. Waiting(p) = 0 /\ files[p].offset = 0
    BY DEF Waiting, Fresh
  <2> QED
    BY <2>1, <2>2 DEF Done
<1>4. SubSeq(disk[p].lines, 1, 0) = <<>>
  <2> DEFINE l == SubSeq(disk[p].lines, 0 + 1, 0)
  <2>1. l \in Seq(Lines) /\ Len(l) = 0
    BY <1>1, Piece
  <2>2. l = <<>>
    BY <2>1, EmptySeq
  <2> QED
    BY <2>2
<1>5. FileOf(p) = NewFile
  BY DEF FileOf, Current, NewFile, Absent, Fresh
<1>6. FileOf(p) = Read[SubSeq(disk[p].lines, 1, Done(p))]
  BY <1>3, <1>4, <1>5, ReadLawsHold DEF ReadLaws
<1>7. Done(p) \in 0 .. MaxLines /\ files[p].offset <= Size(disk[p])
  BY <1>2, <1>3
<1> QED
  BY <1>3, <1>6, <1>7 DEF Followed, Fresh

LEMMA FollowedFreshNext == FreshFollowed'
BY FollowedFresh, PTL

\* A file that a step leaves alone, with every line it has read a byte of.
LEMMA FollowedKept ==
  ASSUME SessionsInv, SessionsInv', NEW p \in Paths, Followed(p),
         UNCHANGED agent, files'[p] = files[p],
         walk'.pc = "lines" /\ walk'.path = p
            <=> walk.pc = "lines" /\ walk.path = p,
         walk.pc = "lines" /\ walk.path = p => walk'.lines = walk.lines,
         files[p].offset <= Size(disk'[p]),
         \A i \in 1 .. Len(disk[p].lines) :
            2 * (i - 1) < files[p].offset
              => disk'[p].lines[i] = disk[p].lines[i],
         files[p].session \notin shared'
           => /\ files[p].session \notin shared
              /\ Current(p)'.status = Current(p).status
  PROVE  Followed(p)'
<1> USE LineAssumption
<1> DEFINE L == disk[p].lines
           M == disk'[p].lines
           o == files[p].offset
           h == o \div 2
           k == Done(p)
<1>1. /\ disk[p] \in LogStates /\ (disk[p].half => disk[p].lines # <<>>)
      /\ disk'[p] \in LogStates /\ (disk'[p].half => disk'[p].lines # <<>>)
      /\ L \in Seq(Lines) /\ M \in Seq(Lines)
      /\ Len(L) \in Nat /\ Len(M) \in Nat
      /\ o \in 0 .. 2 * MaxLines /\ Waiting(p) \in Nat
  <2>1. disk'[p] \in LogStates /\ (disk'[p].half => disk'[p].lines # <<>>)
    BY DEF SessionsInv, FlatTypes, TableKept
  <2>2. M \in Seq(Lines) /\ Len(M) \in Nat
    BY <2>1, Sizes
  <2> QED
    BY <2>1, <2>2, LogTypes
<1>2. o <= Size(disk[p]) /\ o <= Size(disk'[p])
  BY DEF Followed
<1>3. /\ h \in 0 .. Len(L) /\ h \in 0 .. Len(M)
      /\ o % 2 = 1 => h + 1 \in 1 .. Len(L)
  BY <1>1, <1>2, Positions
<1>4. o = 2 * h + (o % 2) /\ o % 2 \in {0, 1}
  <2>1. o \in Nat
    BY <1>1
  <2> HIDE DEF o
  <2> QED
    BY <2>1, Halved
<1>5. /\ \A i \in 1 .. h : L[i] = M[i]
      /\ o % 2 = 1 => L[h + 1] = M[h + 1]
  <2>1. \A i \in 1 .. Len(L) : 2 * (i - 1) < o => M[i] = L[i]
    OBVIOUS
  <2> HIDE DEF L, M, o, h
  <2>2. \A i \in 1 .. h : i \in 1 .. Len(L) /\ 2 * (i - 1) < o
    BY <1>1, <1>3, <1>4
  <2>3. o % 2 = 1 => h + 1 \in 1 .. Len(L) /\ 2 * ((h + 1) - 1) < o
    BY <1>1, <1>3, <1>4
  <2> QED
    BY <2>1, <2>2, <2>3
<1>6. Waiting(p)' = Waiting(p) /\ Done(p)' = k
  <2>1. Waiting(p)' = Waiting(p)
    BY DEF Waiting
  <2> QED
    BY <2>1 DEF Done
<1>7. k \in 0 .. MaxLines /\ k \in 0 .. h
  <2>1. k = h - Waiting(p) /\ k \in 0 .. MaxLines
    BY DEF Done, Followed
  <2> HIDE DEF k, h
  <2> QED
    BY <1>1, <1>3, <2>1
<1>8. /\ SubSeq(L, k + 1, h) = SubSeq(M, k + 1, h)
      /\ SubSeq(L, 1, k) = SubSeq(M, 1, k)
  <2> HIDE DEF L, M, h, k
  <2>1. /\ h \in Nat /\ k \in Nat /\ h <= Len(L) /\ h <= Len(M)
        /\ k <= Len(L) /\ k <= Len(M) /\ \A i \in 1 .. k : L[i] = M[i]
    BY <1>1, <1>3, <1>5, <1>7
  <2>2. SubSeq(L, k + 1, h) = SubSeq(M, k + 1, h)
    BY <1>1, <1>5, <2>1, SamePiece
  <2>3. SubSeq(L, 0 + 1, k) = SubSeq(M, 0 + 1, k)
    BY <1>1, <2>1, SamePiece
  <2>4. 0 + 1 = 1
    OBVIOUS
  <2>5. SubSeq(L, 1, k) = SubSeq(M, 1, k)
    BY <2>3, <2>4, Zenon
  <2> QED
    BY <2>2, <2>5
<1>9. Read' = Read
  BY SameAgent
<1>10. files[p].session \notin shared' => FileOf(p)' = Read[SubSeq(M, 1, k)]
  <2> SUFFICES ASSUME files[p].session \notin shared'
               PROVE  FileOf(p)' = Read[SubSeq(M, 1, k)]
    OBVIOUS
  <2>1. FileOf(p) = Read[SubSeq(L, 1, k)]
    BY DEF Followed
  <2>2. FileOf(p)' = FileOf(p)
    BY DEF FileOf
  <2> QED
    BY <1>8, <2>1, <2>2
<1>11. walk'.pc = "lines" /\ walk'.path = p => walk'.lines = SubSeq(M, k + 1, h)
  BY <1>8 DEF Followed
<1>12. o % 2 = 1 => files[p].pending = M[h + 1]
  BY <1>5 DEF Followed
<1> HIDE DEF k
<1> QED
  BY <1>2, <1>6, <1>7, <1>9, <1>10, <1>11, <1>12 DEF Followed

\* Reading a file on, or from its start after a truncation.
LEMMA ScanFollowed ==
  ASSUME SessionsInv, SessionsInv', NEW p \in Paths, ScanFile(p),
         p \notin rewritten', p \notin rewritten => Followed(p)
  PROVE  Followed(p)'
<1> USE LineAssumption
<1> DEFINE log == disk[p]
           f == Checked(p)
           k == f.offset \div 2
           n == Size(log) \div 2
<1>1. /\ log \in LogStates /\ (log.half => log.lines # <<>>)
      /\ log.lines \in Seq(Lines) /\ Len(log.lines) \in Nat
      /\ files[p] \in FileStates /\ f \in FileStates
      /\ f.offset \in 0 .. 2 * MaxLines /\ None \notin shared
  <2>1. f \in FileStates
    BY CheckedType DEF SessionsInv
  <2> QED
    BY <2>1, LogTypes DEF FileStates
<1>2. /\ Size(log) \in 0 .. 2 * MaxLines
      /\ n = IF log.half THEN Len(log.lines) - 1 ELSE Len(log.lines)
      /\ Size(log) % 2 = IF log.half THEN 1 ELSE 0
  BY <1>1, Sizes
<1>3. /\ walk.pc = "walk" /\ files'[p] = Position(f, log)
      /\ files'[p].session = f.session /\ files'[p].offset = Size(log)
      /\ sessions' = CheckedSessions(p) /\ walk'.lines = ReadLines(f, log)
      /\ walk'.pc = IF walk'.lines = <<>> THEN "walk" ELSE "lines"
      /\ walk'.pc = "lines" => walk'.path = p
      /\ UNCHANGED <<agent, disk>>
  BY ScanMoves DEF SessionsInv
<1>4. /\ f.offset <= Size(log)
      /\ f.offset % 2 = 1 => f.pending = log.lines[k + 1]
      /\ f.session \notin shared'
           => FileOf(p)' = Read[SubSeq(log.lines, 1, k)]
  <2>1. CASE f = Tracked
    <3>1. f.offset = 0 /\ f.session = None
      BY <2>1 DEF Tracked, Untracked
    <3>2. 0 \div 2 = 0 /\ 0 % 2 = 0
      OBVIOUS
    <3>3. SubSeq(log.lines, 1, 0) = <<>>
      <4> DEFINE l == SubSeq(log.lines, 0 + 1, 0)
      <4>1. l \in Seq(Lines) /\ Len(l) = 0
        BY <1>1, Piece
      <4>2. l = <<>>
        BY <4>1, EmptySeq
      <4> QED
        BY <4>2
    <3>4. FileOf(p)' = NewFile
      BY <1>3, <3>1 DEF FileOf, Current, NewFile, Absent
    <3>5. Read[<<>>] = NewFile
      BY ReadLawsHold DEF ReadLaws
    <3>6. FileOf(p)' = Read[SubSeq(log.lines, 1, k)]
      BY <3>1, <3>2, <3>3, <3>4, <3>5
    <3>7. f.offset <= Size(log) /\ f.offset % 2 # 1
      BY <1>2, <3>1, <3>2
    <3> QED
      BY <3>6, <3>7
  <2>2. CASE f # Tracked
    <3>1. f = files[p] /\ ~Truncated(p)
      BY <2>2 DEF Checked
    <3>2. p \notin rewritten
      BY <3>1 DEF ScanFile
    <3>3. Followed(p)
      BY <3>2
    <3>4. Done(p) = k
      <4>1. Waiting(p) = 0
        BY <1>3 DEF Waiting
      <4>2. k \in Nat
        BY <1>1, Halved
      <4> QED
        BY <3>1, <4>1, <4>2 DEF Done
    <3>5. sessions' = sessions
      BY <1>3, <3>1 DEF CheckedSessions
    <3>6. ASSUME f.session \notin shared'
          PROVE  FileOf(p)' = Read[SubSeq(log.lines, 1, k)]
      <4>1. f.session \notin shared
        <5>1. f.session = None \/ files'[p].session \in shared' \/ f.session \notin shared
          BY <1>3, SharedKept DEF ScanFile
        <5> QED
          BY <1>1, <1>3, <3>6, <5>1
      <4>2. FileOf(p)' = FileOf(p)
        BY <1>3, <3>1, <3>5 DEF FileOf, Current
      <4> QED
        BY <3>1, <3>3, <3>4, <4>1, <4>2 DEF Followed
    <3> QED
      BY <3>1, <3>3, <3>6 DEF Followed
  <2> QED
    BY <2>1, <2>2
<1>5. /\ k \in 0 .. n /\ n \in Nat /\ k \in 0 .. MaxLines /\ n <= Len(log.lines)
  BY <1>1, <1>2, <1>4, Positions
<1>6. walk'.lines = SubSeq(log.lines, k + 1, n)
  BY <1>1, <1>3, <1>4, ReadsOn
<1>7. Waiting(p)' = n - k
  <2> HIDE DEF k, n, log
  <2>1. Len(walk'.lines) = n - k
    <3>1. n - k >= 0 /\ (k <= n)
      BY <1>5
    <3>2. Len(walk'.lines) = IF k <= n THEN n - k ELSE 0
      BY <1>1, <1>5, <1>6, Piece
    <3> QED
      BY <3>1, <3>2
  <2>2. walk'.lines = <<>> => Len(walk'.lines) = 0
    BY EmptySeq
  <2> QED
    BY <1>3, <2>1, <2>2 DEF Waiting
<1>8. Done(p)' = k
  <2>1. Done(p)' = n - (n - k)
    BY <1>3, <1>7 DEF Done
  <2> HIDE DEF k, n
  <2> QED
    BY <1>5, <2>1
<1>9. Size(log) % 2 = 1 => files'[p].pending = log.lines[n + 1]
  <2> SUFFICES ASSUME Size(log) % 2 = 1
               PROVE  files'[p].pending = log.lines[n + 1]
    OBVIOUS
  <2>1. log.half /\ n = Len(log.lines) - 1
    BY <1>2
  <2>2. n + 1 = Len(log.lines)
    BY <1>1, <2>1
  <2>3. CASE Size(log) = f.offset
    <3>1. files'[p].pending = f.pending
      BY <1>1, <1>3, <2>3, PositionType
    <3> QED
      BY <1>4, <2>3, <3>1
  <2>4. CASE Size(log) # f.offset
    BY <1>1, <1>3, <2>1, <2>2, <2>4, PositionType
  <2> QED
    BY <2>3, <2>4
<1>10. Read' = Read
  BY <1>3, SameAgent
<1>11. Size(log) <= Size(log)
  BY <1>2
<1> QED
  <2> HIDE DEF k, f
  <2>1. files'[p].session \notin shared'
          => FileOf(p)' = Read'[SubSeq(disk'[p].lines, 1, Done(p)')]
    BY <1>3, <1>4, <1>8, <1>10
  <2>2. files'[p].offset <= Size(disk'[p]) /\ Done(p)' \in 0 .. MaxLines
    BY <1>3, <1>5, <1>8, <1>11
  <2>3. files'[p].offset % 2 = 1 =>
          files'[p].pending = disk'[p].lines[files'[p].offset \div 2 + 1]
    BY <1>3, <1>9
  <2>4. walk'.lines = SubSeq(disk'[p].lines, Done(p)' + 1, files'[p].offset \div 2)
    BY <1>3, <1>6, <1>8
  <2> QED
    BY <2>1, <2>2, <2>3, <2>4 DEF Followed

\* The next line of a file.
LEMMA ReduceFollowed ==
  ASSUME SessionsInv, SessionsInv', NEW p \in Paths, p = walk.path,
         ReduceLine, Followed(p)
  PROVE  Followed(p)'
<1> USE LineAssumption
<1> DEFINE L == disk[p].lines
           h == files[p].offset \div 2
           k == Done(p)
           next == Reduced(FileOf(p), Head(walk.lines))
<1>1. /\ walk.pc = "lines" /\ walk.path = p /\ FileOf(p) \in Reductions
      /\ files[p].session # None => next.session = files[p].session
      /\ next.session = None => next = FileOf(p)
      /\ files'[p] = [files[p] EXCEPT !.session = next.session]
      /\ \A id \in Ids :
            sessions'[id] = IF id = next.session
                            THEN [there |-> TRUE, status |-> next.status,
                                  managed |-> Current(p).managed]
                            ELSE sessions[id]
      /\ walk'.lines = Tail(walk.lines)
      /\ walk'.pc = IF walk'.lines = <<>> THEN "walk" ELSE "lines"
      /\ walk'.pc = "lines" => walk'.path = p
      /\ UNCHANGED <<agent, disk>>
      /\ next \in Reductions
  BY ReduceMoves DEF SessionsInv
<1>2. /\ L \in Seq(Lines) /\ Len(L) \in Nat /\ files[p] \in FileStates
      /\ walk.lines \in Seq(Lines) /\ files[p].offset \in 0 .. 2 * MaxLines
      /\ None \notin shared
      /\ disk[p] \in LogStates /\ (disk[p].half => disk[p].lines # <<>>)
  BY <1>1, LogTypes
<1>3. /\ files'[p].session = next.session /\ files'[p].offset = files[p].offset
      /\ files'[p].pending = files[p].pending
  BY <1>1, <1>2 DEF FileStates
<1>4. /\ walk.lines # <<>> /\ Len(walk.lines) \in Nat \ {0}
      /\ Tail(walk.lines) \in Seq(Lines)
      /\ Len(Tail(walk.lines)) = Len(walk.lines) - 1
      /\ Tail(walk.lines) = SubSeq(walk.lines, 2, Len(walk.lines))
      /\ Head(walk.lines) = walk.lines[1]
      /\ \A i \in 1 .. Len(Tail(walk.lines)) : Tail(walk.lines)[i] = walk.lines[i + 1]
  <2>1. walk.lines # <<>>
    BY <1>1 DEF SessionsInv, FlatTypes
  <2>2. Len(walk.lines) \in Nat \ {0}
    BY <1>2, <2>1, EmptySeq, LenProperties
  <2> QED
    BY <1>2, <2>1, <2>2, HeadTailProperties
<1>5. /\ h \in 0 .. Len(L) /\ k \in 0 .. MaxLines /\ k = h - Len(walk.lines)
      /\ walk.lines = SubSeq(L, k + 1, h)
  <2>1. files[p].offset <= Size(disk[p])
    BY DEF Followed
  <2>2. h \in 0 .. Len(L)
    BY <1>2, <2>1, Positions
  <2> QED
    BY <1>1, <2>2 DEF Followed, Done, Waiting
<1>6. /\ k \in Nat /\ h \in Nat /\ k < h /\ h <= Len(L) /\ k < Len(L)
      /\ Len(walk.lines) = h - k
  <2> HIDE DEF k, h, L
  <2>1. h \in 0 .. Len(L) /\ k \in 0 .. MaxLines /\ k = h - Len(walk.lines)
    BY <1>5
  <2>2. Len(L) \in Nat /\ Len(walk.lines) \in Nat \ {0}
    BY <1>2, <1>4
  <2>3. PICK w \in Nat \ {0}, l \in Nat : w = Len(walk.lines) /\ l = Len(L)
    BY <2>2
  <2> QED
    BY <2>1, <2>3
<1>7. /\ \A i \in 1 .. h - k : walk.lines[i] = L[k + i]
      /\ SubSeq(L, (k + 1) + 1, h) \in Seq(Lines)
      /\ Len(SubSeq(L, (k + 1) + 1, h)) = h - k - 1
      /\ \A i \in 1 .. h - (k + 1) : SubSeq(L, (k + 1) + 1, h)[i] = L[(k + 1) + i]
  <2> HIDE DEF k, h, L
  <2>1. k + 1 \in Nat /\ k + 1 <= h /\ h - (k + 1) = h - k - 1 /\ h <= Len(L)
    BY <1>6
  <2>2. \A i \in 1 .. h - k : SubSeq(L, k + 1, h)[i] = L[k + i]
    BY <1>2, <1>6, Piece
  <2>3. \A i \in 1 .. h - k : walk.lines[i] = L[k + i]
    BY <1>5, <2>2
  <2>4. /\ SubSeq(L, (k + 1) + 1, h) \in Seq(Lines)
        /\ Len(SubSeq(L, (k + 1) + 1, h)) = IF k + 1 <= h THEN h - (k + 1) ELSE 0
        /\ \A i \in 1 .. h - (k + 1) :
              SubSeq(L, (k + 1) + 1, h)[i] = L[(k + 1) + i]
    BY <1>2, <1>6, <2>1, Piece
  <2> QED
    BY <2>1, <2>3, <2>4
<1>8. Head(walk.lines) = L[k + 1]
  <2> HIDE DEF k, h, L
  <2>1. 1 \in 1 .. h - k
    BY <1>6
  <2> QED
    BY <1>4, <1>7, <2>1
<1>9. Tail(walk.lines) = SubSeq(L, (k + 1) + 1, h)
  <2> DEFINE a == Tail(walk.lines)
             b == SubSeq(L, (k + 1) + 1, h)
  <2>0. /\ \A i \in 1 .. Len(a) : a[i] = walk.lines[i + 1]
        /\ a \in Seq(Lines) /\ b \in Seq(Lines)
        /\ Len(a) = Len(walk.lines) - 1 /\ Len(b) = h - k - 1
        /\ \A i \in 1 .. h - (k + 1) : b[i] = L[(k + 1) + i]
    BY <1>4, <1>7
  <2> HIDE DEF k, h, L, a, b
  <2>1. Len(a) = h - k - 1 /\ Len(b) = h - k - 1
    BY <1>6, <2>0
  <2>2. ASSUME NEW i \in 1 .. Len(a) PROVE a[i] = b[i]
    <3>1. /\ i \in 1 .. h - (k + 1) /\ i + 1 \in 1 .. h - k
          /\ (k + 1) + i = k + (i + 1)
      BY <1>6, <2>1
    <3>2. a[i] = L[k + (i + 1)]
      BY <1>7, <2>0, <2>2, <3>1
    <3> QED
      BY <2>0, <3>1, <3>2
  <2>3. a = b
    BY <2>0, <2>1, <2>2, SeqEqual
  <2> QED
    BY <2>3 DEF a, b
<1>10. Waiting(p)' = Len(walk.lines) - 1
  <2>1. Len(walk'.lines) = Len(walk.lines) - 1 /\ walk'.lines \in Seq(Lines)
    BY <1>1, <1>4
  <2>2. walk'.lines = <<>> => Len(walk'.lines) = 0
    BY EmptySeq
  <2> QED
    BY <1>1, <2>1, <2>2 DEF Waiting
<1>11. Done(p)' = k + 1
  <2>1. Done(p)' = h - (Len(walk.lines) - 1)
    BY <1>3, <1>10 DEF Done
  <2> HIDE DEF k, h
  <2>2. h \in Nat /\ k \in Nat /\ Len(walk.lines) = h - k
    BY <1>6
  <2> QED
    BY <2>1, <2>2
<1>12. FileOf(p)' = next
  <2>1. FileOf(p)' = [session |-> next.session, status |-> Current(p)'.status]
    BY <1>3 DEF FileOf
  <2>2. next = [session |-> next.session, status |-> next.status]
    BY <1>1 DEF Reductions
  <2>3. Current(p)'.status = next.status
    <3>1. CASE next.session = None
      <4>1. files[p].session = None /\ files'[p].session = None
        BY <1>1, <1>3, <3>1
      <4>2. Current(p)' = Absent /\ Current(p) = Absent
        BY <4>1 DEF Current
      <4> QED
        BY <1>1, <3>1, <4>2 DEF FileOf
    <3>2. CASE next.session # None
      <4>1. next.session \in Ids
        BY <1>1, <3>2 DEF Reductions
      <4>2. sessions'[next.session].status = next.status
        BY <1>1, <4>1
      <4> QED
        BY <1>3, <3>2, <4>2 DEF Current
    <3> QED
      BY <3>1, <3>2
  <2> QED
    BY <2>1, <2>2, <2>3
<1>13. ASSUME files'[p].session \notin shared'
       PROVE  FileOf(p)' = Read[SubSeq(L, 1, k + 1)]
  <2>1. shared \subseteq shared'
    BY DEF ReduceLine
  <2>2. files[p].session \notin shared
    BY <1>1, <1>2, <1>3, <1>13, <2>1
  <2>3. FileOf(p) = Read[SubSeq(L, 1, k)]
    BY <2>2 DEF Followed
  <2>4. next = Reduced(Read[SubSeq(L, 1, k)], L[k + 1])
    BY <1>8, <2>3
  <2>5. /\ SubSeq(L, 1, k) \in Seq(Lines) /\ L[k + 1] \in Lines
        /\ SubSeq(L, 1, k + 1) = Append(SubSeq(L, 1, k), L[k + 1])
    <3> HIDE DEF L, k
    <3> QED
      BY <1>2, <1>6, PieceAndNext
  <2>6. Read[Append(SubSeq(L, 1, k), L[k + 1])]
          = Reduced(Read[SubSeq(L, 1, k)], L[k + 1])
    BY <2>5, ReadLawsHold DEF ReadLaws
  <2> QED
    BY <1>12, <2>4, <2>5, <2>6
<1>14. Read' = Read
  BY <1>1, SameAgent
<1>15. k + 1 \in 0 .. MaxLines
  <2>1. Len(L) <= MaxLines
    BY <1>2, Sizes
  <2> HIDE DEF k, L
  <2> QED
    BY <1>2, <1>6, <2>1
<1> QED
  <2>1. /\ files[p].offset <= Size(disk[p])
        /\ files[p].offset % 2 = 1 => files[p].pending = disk[p].lines[h + 1]
    BY DEF Followed
  <2>2. walk'.lines = SubSeq(disk'[p].lines, Done(p)' + 1, h)
    BY <1>1, <1>9, <1>11
  <2>3. files'[p].session \notin shared'
          => FileOf(p)' = Read'[SubSeq(disk'[p].lines, 1, Done(p)')]
    BY <1>1, <1>11, <1>13, <1>14
  <2>4. Done(p)' \in 0 .. MaxLines
    BY <1>11, <1>15
  <2>5. /\ files'[p].offset <= Size(disk'[p])
        /\ files'[p].offset % 2 = 1 =>
             files'[p].pending = disk'[p].lines[files'[p].offset \div 2 + 1]
        /\ walk'.lines = SubSeq(disk'[p].lines, Done(p)' + 1, files'[p].offset \div 2)
    BY <1>1, <1>3, <2>1, <2>2
  <2> QED
    BY <2>3, <2>4, <2>5 DEF Followed

\* A file that keeps its position while other files or the table change.
LEMMA BesideFollowed ==
  ASSUME SessionsInv, SessionsInv', NEW p \in Paths, Followed(p),
         UNCHANGED <<agent, disk>>, files'[p] = files[p],
         walk'.pc = "lines" /\ walk'.path = p
            <=> walk.pc = "lines" /\ walk.path = p,
         walk.pc = "lines" /\ walk.path = p => walk'.lines = walk.lines,
         files[p].session \notin shared' =>
            /\ files[p].session \notin shared
            /\ files[p].session # None =>
                 sessions'[files[p].session].status
                   = sessions[files[p].session].status
  PROVE  Followed(p)'
<1>1. files[p].offset <= Size(disk'[p])
  BY DEF Followed
<1>2. files[p].session \notin shared' =>
         /\ files[p].session \notin shared
         /\ Current(p)'.status = Current(p).status
  BY DEF Current
<1> QED
  BY <1>1, <1>2, FollowedKept

LEMMA ReadingStep ==
  ASSUME SessionsInv, SessionsInv', JoinsRecorded', [Next]_vars,
         NEW p \in Paths, p \notin rewritten', p \notin rewritten => Followed(p)
  PROVE  Followed(p)'
<1> USE LineAssumption
<1>0. /\ disk[p] \in LogStates /\ (disk[p].half => disk[p].lines # <<>>)
      /\ disk[p].lines \in Seq(Lines) /\ Len(disk[p].lines) \in Nat
      /\ files[p] \in FileStates /\ files[p].offset \in 0 .. 2 * MaxLines
      /\ files[p].session \in Ids \cup {None} /\ None \notin shared
      /\ None \notin shared'
  <2>1. None \notin shared'
    BY DEF SessionsInv, FlatTypes
  <2> QED
    BY <2>1, LogTypes
<1>1. CASE \/ StartScan \/ \E q \in Paths : FileVanished(q)
           \/ UNCHANGED vars
  <2>1. /\ UNCHANGED <<agent, disk, rewritten, files, sessions, shared>>
        /\ \/ UNCHANGED walk
           \/ walk.pc # "lines" /\ walk'.pc # "lines"
    <3>1. CASE StartScan
      <4>1. walk'.pc # "lines" /\ walk.pc = "idle"
        BY <3>1 DEF StartScan, Resting
      <4> QED
        BY <3>1, <4>1 DEF StartScan
    <3>2. ASSUME NEW q \in Paths, FileVanished(q)
          PROVE  /\ UNCHANGED <<agent, disk, rewritten, files, sessions, shared>>
                 /\ walk.pc # "lines" /\ walk'.pc # "lines"
      BY <3>2 DEF FileVanished, UpNext, Resting
    <3>3. CASE UNCHANGED vars
      BY <3>3 DEF vars
    <3> QED
      BY <1>1, <3>1, <3>2, <3>3
  <2> QED
    BY <2>1, BesideFollowed
<1>2. CASE FinishWalk
  <2>1. /\ walk.pc # "lines" /\ walk'.pc # "lines" /\ UNCHANGED <<agent, disk>>
        /\ shared' = StillShared(sessions')
    BY <1>2 DEF FinishWalk, Resting
  <2>2. CASE p \in walk.seen
    <3>1. p \notin rewritten /\ files'[p] = files[p]
      BY <1>2, <2>2 DEF FinishWalk, Forgotten
    <3>2. files[p].session # None =>
             sessions'[files[p].session] = sessions[files[p].session]
      BY <1>0, <1>2, <2>2 DEF FinishWalk
    <3>3. files[p].session \notin shared' => files[p].session \notin shared
      BY <1>0, <2>1, <3>1, SharedKept
    <3> QED
      BY <2>1, <3>1, <3>2, <3>3, BesideFollowed
  <2>3. CASE p \notin walk.seen
    <3>1. files'[p] = Untracked
      BY <1>2, <2>3 DEF FinishWalk, Forgotten
    <3> QED
      BY <2>1, <3>1, FollowedFreshNext DEF FreshFollowed, Fresh, Untracked
  <2> QED
    BY <2>2, <2>3
<1>3. ASSUME ScanFile(p) PROVE Followed(p)'
  BY <1>3, ScanFollowed
<1>4. ASSUME ReadFails(p) PROVE Followed(p)'
  <2>1. /\ files'[p] = Checked(p) /\ sessions' = CheckedSessions(p)
        /\ UNCHANGED <<agent, disk>> /\ walk.pc = "walk" /\ walk'.pc = "idle"
    BY <1>4, FailMoves DEF SessionsInv, Resting
  <2>2. CASE Checked(p) = Tracked
    BY <2>1, <2>2, FollowedFreshNext DEF FreshFollowed, Fresh, Tracked, Untracked
  <2>3. CASE Checked(p) # Tracked
    <3>1. ~Truncated(p) /\ files'[p] = files[p] /\ sessions' = sessions
      BY <2>1, <2>3 DEF Checked, CheckedSessions
    <3>2. p \notin rewritten /\ shared' = StillShared(sessions')
      BY <1>4, <3>1 DEF ReadFails
    <3>3. files[p].session \notin shared' => files[p].session \notin shared
      BY <1>0, <3>1, <3>2, SharedKept
    <3> QED
      BY <2>1, <3>1, <3>2, <3>3, BesideFollowed
  <2> QED
    BY <2>2, <2>3
<1>5. ASSUME NEW q \in Paths, q # p, ScanFile(q) \/ ReadFails(q)
      PROVE  Followed(p)'
  <2>1. /\ files'[p] = files[p] /\ sessions' = CheckedSessions(q)
        /\ UNCHANGED <<agent, disk>> /\ walk.pc = "walk"
        /\ walk'.pc = "lines" => walk'.path = q
    <3>1. CASE ScanFile(q)
      BY <1>5, <3>1, ScanMoves DEF SessionsInv
    <3>2. CASE ReadFails(q)
      BY <1>5, <3>2, FailMoves DEF SessionsInv, Resting
    <3> QED
      BY <1>5, <3>1, <3>2
  <2>2. p \notin rewritten /\ shared' = StillShared(sessions')
    BY <1>5 DEF ScanFile, ReadFails
  <2>3. files[p].session # None =>
           sessions'[files[p].session] = sessions[files[p].session]
    <3> SUFFICES ASSUME files[p].session # None
                 PROVE  sessions'[files[p].session] = sessions[files[p].session]
      OBVIOUS
    <3>1. files[p].session \in Ids
      BY <1>0
    <3>2. ReferencedExcept(files[p].session, q)
      BY <1>5 DEF ReferencedExcept
    <3> QED
      BY <2>1, <3>1, <3>2, CheckedKept DEF SessionsInv
  <2>4. files[p].session \notin shared' => files[p].session \notin shared
    BY <1>0, <2>1, <2>2, SharedKept
  <2> QED
    BY <1>5, <2>1, <2>2, <2>3, <2>4, BesideFollowed
<1>6. CASE ReduceLine /\ walk.path = p
  <2>1. p \notin rewritten
    BY <1>6 DEF ReduceLine
  <2> QED
    BY <1>6, <2>1, ReduceFollowed
<1>7. CASE ReduceLine /\ walk.path # p
  <2> DEFINE w == walk.path
             next == Reduced(FileOf(w), Head(walk.lines))
  <2>1. /\ w \in Paths /\ walk.pc = "lines"
        /\ files[w].session # None => next.session = files[w].session
        /\ files'[w] = [files[w] EXCEPT !.session = next.session]
        /\ \A q \in Paths \ {w} : files'[q] = files[q]
        /\ \A id \in Ids :
              sessions'[id] = IF id = next.session
                              THEN [there |-> TRUE, status |-> next.status,
                                    managed |-> Current(w).managed]
                              ELSE sessions[id]
        /\ walk'.pc = "lines" => walk'.path = w
        /\ UNCHANGED <<agent, disk, rewritten>>
    BY <1>7, ReduceMoves DEF SessionsInv
  <2>2. shared \subseteq shared'
    BY <1>7 DEF ReduceLine
  <2> HIDE DEF next
  <2>3. files'[w].session = next.session
    BY <2>1 DEF SessionsInv, FlatTypes, FileStates
  <2>4. files'[p] = files[p]
    BY <1>7, <2>1
  <2>5. ASSUME files[p].session \notin shared'
        PROVE  /\ files[p].session \notin shared
               /\ files[p].session # None =>
                    sessions'[files[p].session].status
                      = sessions[files[p].session].status
    <3>1. files[p].session # None => files[p].session # next.session
      BY <1>7, <2>1, <2>3, <2>4, <2>5 DEF JoinsRecorded
    <3> QED
      BY <1>0, <2>1, <2>2, <2>5, <3>1
  <2> QED
    BY <1>7, <2>1, <2>4, <2>5, BesideFollowed
<1>8. ASSUME NEW id \in Ids, NEW process \in BOOLEAN, SetManaged(id, process)
      PROVE  Followed(p)'
  <2>1. /\ UNCHANGED <<agent, disk, rewritten, files, shared, walk>>
        /\ \A k \in Ids : sessions'[k].status = sessions[k].status
    BY <1>8 DEF SetManaged, SessionsInv, FlatTypes, SessionStates
  <2> QED
    BY <1>0, <2>1, BesideFollowed
<1>9. ASSUME UNCHANGED <<agent, files, sessions, shared, walk>>,
             p \notin rewritten, files[p].offset <= Size(disk'[p]),
             \A i \in 1 .. Len(disk[p].lines) :
                2 * (i - 1) < files[p].offset
                  => disk'[p].lines[i] = disk[p].lines[i]
      PROVE  Followed(p)'
  BY <1>9, FollowedKept DEF Current
<1>10. ASSUME Change, disk'[p] = disk[p], p \notin rewritten PROVE Followed(p)'
  <2>1. files[p].offset <= Size(disk[p])
    BY <1>10 DEF Followed
  <2> QED
    BY <1>9, <1>10, <2>1 DEF Change
<1>11. ASSUME NEW q \in Paths, NEW line \in Written, NEW half \in BOOLEAN,
              Write(q, line, half)
       PROVE  Followed(p)'
  <2>1. CASE q # p
    BY <1>10, <1>11, <2>1 DEF Write, SessionsInv, FlatTypes
  <2>2. CASE q = p
    <3>1. /\ disk'[p] = [there |-> TRUE, half |-> half,
                         lines |-> Append(disk[p].lines, line)]
          /\ ~disk[p].half /\ Change /\ p \notin rewritten
      BY <1>11, <2>2 DEF Write, SessionsInv, FlatTypes
    <3>2. line \in Lines
      OBVIOUS
    <3>3. /\ Len(disk'[p].lines) = Len(disk[p].lines) + 1
          /\ \A i \in 1 .. Len(disk[p].lines) : disk'[p].lines[i] = disk[p].lines[i]
      BY <1>0, <3>1, <3>2, AppendProperties
    <3>4. Size(disk[p]) <= Size(disk'[p])
      <4>1. /\ Size(disk[p]) = 2 * Len(disk[p].lines)
            /\ Size(disk'[p]) = 2 * (Len(disk[p].lines) + 1) - (IF half THEN 1 ELSE 0)
        BY <1>0, <3>1, <3>3 DEF Size
      <4>2. 2 * Len(disk[p].lines) <= 2 * (Len(disk[p].lines) + 1) - 1
            /\ 2 * Len(disk[p].lines) <= 2 * (Len(disk[p].lines) + 1) - 0
        BY <1>0
      <4>3. CASE half
        BY <4>1, <4>2, <4>3
      <4>4. CASE ~half
        BY <4>1, <4>2, <4>4
      <4> QED
        BY <4>3, <4>4
    <3>5. files[p].offset <= Size(disk[p])
      BY <3>1 DEF Followed
    <3>6. Size(disk[p]) \in 0 .. 2 * MaxLines /\ Size(disk'[p]) \in 0 .. 2 * MaxLines
      BY LogTypes, Sizes DEF SessionsInv, FlatTypes, TableKept
    <3>7. files[p].offset <= Size(disk'[p])
      BY <1>0, <3>4, <3>5, <3>6
    <3> QED
      BY <1>9, <3>1, <3>3, <3>7 DEF Change
  <2> QED
    BY <2>1, <2>2
<1>12. ASSUME NEW q \in Paths, CompleteLine(q) PROVE Followed(p)'
  <2>1. CASE q # p
    BY <1>10, <1>12, <2>1 DEF CompleteLine, SessionsInv, FlatTypes
  <2>2. CASE q = p
    <3>1. /\ disk'[p].lines = disk[p].lines /\ ~disk'[p].half /\ disk[p].half
          /\ Change /\ p \notin rewritten
      BY <1>0, <1>12, <2>2 DEF CompleteLine, SessionsInv, FlatTypes, LogStates
    <3>2. Size(disk[p]) <= Size(disk'[p])
      BY <1>0, <3>1 DEF Size
    <3>3. files[p].offset <= Size(disk[p])
      BY <3>1 DEF Followed
    <3>4. Size(disk[p]) \in 0 .. 2 * MaxLines /\ Size(disk'[p]) \in 0 .. 2 * MaxLines
      BY LogTypes, Sizes DEF SessionsInv, FlatTypes, TableKept
    <3>5. files[p].offset <= Size(disk'[p])
      BY <1>0, <3>2, <3>3, <3>4
    <3> QED
      BY <1>9, <3>1, <3>5 DEF Change
  <2> QED
    BY <2>1, <2>2
<1>13. ASSUME Change, p \notin rewritten, ~(files[p].offset > 0)
       PROVE  Followed(p)'
  <2>1. files[p].offset = 0
    BY <1>0, <1>13
  <2>2. Size(disk'[p]) \in 0 .. 2 * MaxLines
    BY Sizes DEF SessionsInv, FlatTypes, TableKept
  <2>3. \A i \in 1 .. Len(disk[p].lines) : ~(2 * (i - 1) < 0)
    BY <1>0
  <2>4. files[p].offset <= Size(disk'[p])
    BY <2>1, <2>2
  <2> QED
    BY <1>9, <1>13, <2>1, <2>3, <2>4 DEF Change
<1>14. ASSUME NEW q \in Paths, Truncate(q) \/ Delete(q) PROVE Followed(p)'
  <2>1. /\ Change /\ rewritten' = rewritten \cup {r \in {q} : files[r].offset > 0}
        /\ q # p => disk'[p] = disk[p]
    BY <1>14 DEF Truncate, Delete, Rewrite, SessionsInv, FlatTypes
  <2>2. p \notin rewritten
    BY <2>1
  <2>3. q = p => ~(files[p].offset > 0)
    BY <2>1
  <2> QED
    BY <1>10, <1>13, <2>1, <2>2, <2>3
<1>15. CASE RemoveRoot
  BY <1>13, <1>15 DEF RemoveRoot, Rewrite
<1> QED
  BY <1>1, <1>2, <1>3, <1>4, <1>5, <1>6, <1>7, <1>8, <1>11, <1>12, <1>14,
     <1>15 DEF Next, ScanStep, DiskStep

LEMMA InitReading == Init => ReadingInv
<1> SUFFICES ASSUME Init PROVE ReadingInv
  OBVIOUS
<1> USE LineAssumption
<1>1. SessionsInv
  BY InitSessions
<1>2. /\ files = [p \in Paths |-> Untracked] /\ walk.pc = "idle"
  BY DEF Init, Resting
<1>3. JoinsRecorded
  BY <1>2 DEF JoinsRecorded, Untracked
<1>4. \A p \in Paths : Followed(p)
  BY <1>1, <1>2, FollowedFresh DEF FreshFollowed, Fresh, Untracked
<1> QED
  BY <1>1, <1>3, <1>4 DEF ReadingInv

LEMMA ReadingAlways == Spec => []ReadingInv
<1>1. ReadingInv /\ [Next]_vars => ReadingInv'
  <2> SUFFICES ASSUME ReadingInv, [Next]_vars PROVE ReadingInv'
    OBVIOUS
  <2>1. SessionsInv'
    BY TypeStep, TableStep, ReferencedStep DEF ReadingInv, SessionsInv
  <2>2. JoinsRecorded'
    BY <2>1, JoinsStep DEF ReadingInv
  <2>3. ASSUME NEW p \in Paths, p \notin rewritten' PROVE Followed(p)'
    BY <2>1, <2>2, <2>3, ReadingStep DEF ReadingInv
  <2> QED
    BY <2>1, <2>2, <2>3 DEF ReadingInv
<1> QED
  BY <1>1, InitReading, PTL DEF Spec

\* Reading a log piece by piece gives what reading it in one go would give:
\* between two files of the walk, the session and the status that a fileState
\* stands for are the reduction of all complete lines of its log up to the
\* offset (scanFile, reduceLine and the Reduce functions of the agents).
THEOREM TailingReads == Spec => []TailingIsReading
<1>1. ReadingInv => TailingIsReading
  <2> SUFFICES ASSUME ReadingInv, walk.pc # "lines", NEW p \in Paths,
                      p \notin rewritten, files[p].session \notin shared
               PROVE  LET read == FoldLeft(Reduced, NewFile,
                                    SubSeq(disk[p].lines, 1, files[p].offset \div 2))
                      IN  /\ read.session = files[p].session
                          /\ files[p].session # None =>
                               read.status = sessions[files[p].session].status
    BY DEF TailingIsReading
  <2> DEFINE h == files[p].offset \div 2
             s == SubSeq(disk[p].lines, 1, h)
  <2>1. SessionsInv /\ Followed(p)
    BY DEF ReadingInv
  <2>2. /\ disk[p] \in LogStates /\ (disk[p].half => disk[p].lines # <<>>)
        /\ disk[p].lines \in Seq(Lines) /\ Len(disk[p].lines) \in Nat
        /\ files[p].offset \in 0 .. 2 * MaxLines
    BY <2>1, LogTypes
  <2>3. h \in 0 .. Len(disk[p].lines)
    BY <2>1, <2>2, Positions DEF Followed
  <2>4. Done(p) = h
    <3>1. Waiting(p) = 0
      BY DEF Waiting
    <3> QED
      BY <2>2, <2>3, <3>1 DEF Done
  <2>5. s \in Seq(Lines)
    <3> HIDE DEF h
    <3>1. SubSeq(disk[p].lines, 0 + 1, h) \in Seq(Lines)
      BY <2>2, <2>3, Piece
    <3>2. 0 + 1 = 1
      OBVIOUS
    <3> QED
      BY <3>1, <3>2, Zenon
  <2>6. Read[s] = FoldLeft(Reduced, NewFile, s)
    BY <2>5 DEF Read
  <2>7. FileOf(p) = Read[s]
    BY <2>1, <2>4 DEF Followed
  <2>8. Read[s].session = files[p].session /\ Read[s].status = Current(p).status
    BY <2>7 DEF FileOf
  <2> HIDE DEF s
  <2>9. files[p].session # None =>
           Read[s].status = sessions[files[p].session].status
    BY <2>8 DEF Current
  <2> QED
    BY <2>6, <2>8, <2>9 DEF s
<1> QED
  BY <1>1, ReadingAlways, PTL
=============================================================================
