------------------------ MODULE CodexObserverProofs ------------------------
(***************************************************************************)
(* Theorems about CodexObserver: what the sessions map, the file table and *)
(* the stored continuations promise each other, for any number of logs,    *)
(* sessions and registrations and for logs of any length.                  *)
(*                                                                         *)
(* The two promises rest on each other.  A registration takes in a new     *)
(* log only when the id of the log has no session, and a continuation is   *)
(* deleted only when its parent has none: that no other file of the same   *)
(* id is then left shown elsewhere follows because a file's session is     *)
(* always in the map (SessionsReferenced), and that it is the stored one   *)
(* because AliasesStored held before.                                      *)
(***************************************************************************)
EXTENDS CodexObserver, TLAPS, WellFoundedInduction, SequenceTheorems

USE DEF diskVars, counters, memory

-----------------------------------------------------------------------------
(* The latest registration.                                                *)

LEMMA SmallestNat ==
  ASSUME NEW T \in SUBSET Nat, T # {}
  PROVE  \E x \in T : \A y \in T : x <= y
<1>1. PICK x \in T : \A y \in T : <<y, x>> \notin OpToRel(<, Nat)
  BY NatLessThanWellFounded, WFMin
<1>2. \A y \in T : ~(y < x)
  BY <1>1 DEF OpToRel
<1> QED
  BY <1>2

LEMMA LatestMatches ==
  ASSUME TypeOK, NEW id, NEW at, Matching(id, at) # {}
  PROVE  Latest(id, at) \in Matching(id, at)
<1> DEFINE S == Matching(id, at)
           T == {MaxResumes - e.n : e \in S}
<1>1. \A e \in S : e.n \in 0 .. MaxResumes
  BY DEF TypeOK, Matching
<1>2. T \in SUBSET Nat /\ T # {}
  BY <1>1, ObserverAssumption
<1>3. PICK x \in T : \A y \in T : x <= y
  BY <1>2, SmallestNat
<1>4. PICK e \in S : x = MaxResumes - e.n
  BY <1>3
<1>5. \A f \in S : f.n <= e.n
  <2> SUFFICES ASSUME NEW f \in S PROVE f.n <= e.n
    OBVIOUS
  <2>1. MaxResumes - f.n \in T
    OBVIOUS
  <2>2. MaxResumes - e.n <= MaxResumes - f.n
    BY <1>3, <1>4, <2>1
  <2>3. e.n \in Int /\ f.n \in Int /\ MaxResumes \in Int
    BY <1>1, ObserverAssumption
  <2> HIDE DEF T, S
  <2> QED
    BY <2>2, <2>3
<1> QED
  BY <1>4, <1>5 DEF Latest
-----------------------------------------------------------------------------
(* The inductive invariant.                                                *)

\* A file that is not in the table has no state, and the file whose lines are
\* reduced is in it.  A Scan only runs while the adapter does.
TableKept ==
    /\ \A p \in Paths : ~files[p].known => files[p] = Untracked
    /\ walk.pc = "lines" => files[walk.path].known
    /\ walk.pc # "idle" => phase \in {"initial", "first", "polling"}

SessionsInv == TypeOK /\ TableKept /\ SessionsReferenced /\ AliasesStored

FileStates == [known : BOOLEAN, offset : Nat, session : Ids \cup {None},
               source : Ids \cup {None}]

LEMMA RepointedType ==
  ASSUME TypeOK, NEW p, NEW next
  PROVE  Repointed(p, next) \in [Ids -> {"absent", "plain", "managed"}]
BY DEF TypeOK, Repointed

\* Taking a file from its session to another one, or to none, keeps the map.
LEMMA RepointKeeps ==
  ASSUME TypeOK, SessionsReferenced, NEW p \in Paths, NEW f,
         f.session \in Ids \cup {None},
         files' = [files EXCEPT ![p] = f],
         sessions' = Repointed(p, f.session)
  PROVE  SessionsReferenced'
<1>1. files'[p] = f /\ \A q \in Paths \ {p} : files'[q] = files[q]
  BY DEF TypeOK
<1>2. \A id \in Ids : sessions'[id] =
         IF id = f.session THEN IF Present(id) THEN sessions[id] ELSE "plain"
         ELSE IF id = files[p].session /\ ~ReferencedExcept(files, id, p)
              THEN "absent" ELSE sessions[id]
  BY DEF Repointed
<1> SUFFICES ASSUME NEW id \in Ids
             PROVE  Present(id)' <=> \E q \in Paths : files'[q].session = id
  BY DEF SessionsReferenced
<1>3. Present(id) <=> \E q \in Paths : files[q].session = id
  BY DEF SessionsReferenced
<1>4. CASE id = f.session
  BY <1>1, <1>2, <1>4 DEF Present
<1>5. CASE id # f.session /\ id = files[p].session
  BY <1>1, <1>2, <1>3, <1>5 DEF Present, ReferencedExcept
<1>6. CASE id # f.session /\ id # files[p].session
  BY <1>1, <1>2, <1>3, <1>6 DEF Present
<1> QED
  BY <1>4, <1>5, <1>6

LEMMA InitSessions == Init => SessionsInv
<1> SUFFICES ASSUME Init PROVE SessionsInv
  OBVIOUS
<1> USE ObserverAssumption
<1>1. <<>> \in Seq(Lines)
  OBVIOUS
<1>2. \A p \in Paths : files[p] = Untracked
  BY DEF Init
<1>3. TypeOK
  BY <1>1 DEF Init, TypeOK, Missing, Untracked, Resting
<1>4. TableKept
  BY <1>2 DEF Init, TableKept, Resting
<1>5. SessionsReferenced
  BY <1>2 DEF Init, SessionsReferenced, Present, Untracked
<1>6. AliasesStored
  BY <1>2 DEF AliasesStored, Untracked
<1> QED
  BY <1>3, <1>4, <1>5, <1>6 DEF SessionsInv

-----------------------------------------------------------------------------
(* Types.                                                                  *)

\* What scanFile reads is what lies behind the checked offset.
LEMMA CheckedOffset ==
  ASSUME TypeOK, NEW p \in Paths
  PROVE  /\ Checked(p) \in FileStates
         /\ Checked(p).offset \in 0 .. Len(disk[p].lines)
         /\ Checked(p).known
<1>1. /\ files[p] \in FileStates /\ Len(disk[p].lines) \in Nat
      /\ Tracked \in FileStates /\ Tracked.offset = 0 /\ Tracked.known
  BY LenProperties DEF TypeOK, FileStates, Tracked, Untracked
<1>2. CASE Truncated(p) \/ ~files[p].known
  BY <1>1, <1>2 DEF Checked
<1>3. CASE ~(Truncated(p) \/ ~files[p].known)
  BY <1>1, <1>3 DEF Checked, Truncated, FileStates
<1> QED
  BY <1>2, <1>3

LEMMA LinesRead ==
  ASSUME TypeOK, NEW p \in Paths,
         Len(disk[p].lines) # Checked(p).offset
  PROVE  LET l == SubSeq(disk[p].lines, Checked(p).offset + 1,
                         Len(disk[p].lines))
         IN  l \in Seq(Lines) /\ l # <<>>
<1> DEFINE a == Checked(p).offset
           d == disk[p].lines
<1>1. a \in 0 .. Len(d) /\ d \in Seq(Lines) /\ Len(d) \in Nat
  BY CheckedOffset, LenProperties DEF TypeOK
<1>2. a + 1 \in 1 .. Len(d) + 1 /\ Len(d) \in a .. Len(d) /\ a < Len(d)
  BY <1>1
<1>3. SubSeq(d, a + 1, Len(d)) \in Seq(Lines)
  BY <1>1, <1>2, SubSeqProperties
<1>4. Len(SubSeq(d, a + 1, Len(d))) # 0
  BY <1>1, <1>2, SubSeqProperties
<1> QED
  BY <1>3, <1>4, EmptySeq

LEMMA LineDoneTypes ==
  ASSUME TypeOK, walk.pc = "lines", LineDone
  PROVE  /\ stored' \in [Paths -> Nat]
         /\ walk' \in [pc : {"idle", "walk", "lines"}, todo : SUBSET Paths,
                       seen : SUBSET Paths, path : Nat, lines : Seq(Lines)]
         /\ walk'.pc = "lines" => /\ walk'.path = walk.path
                                  /\ walk'.lines # <<>>
<1>1. walk.path \in Paths /\ walk.lines \in Seq(Lines) /\ walk.lines # <<>>
  BY DEF TypeOK
<1>2. /\ Tail(walk.lines) \in Seq(Lines)
      /\ Len(Tail(walk.lines)) = Len(walk.lines) - 1
      /\ Len(walk.lines) \in Nat
  BY <1>1, HeadTailProperties, LenProperties
<1>3. Len(walk.lines) > 1 => Tail(walk.lines) # <<>>
  <2>1. Len(<<>>) = 0
    OBVIOUS
  <2> DEFINE n == Len(walk.lines)
             m == Len(Tail(walk.lines))
  <2>2. n > 1 => m # 0
    <3>1. m = n - 1 /\ n \in Nat
      BY <1>2
    <3> HIDE DEF n, m
    <3> QED
      BY <3>1
  <2> QED
    BY <2>1, <2>2
<1>4. stored' \in [Paths -> Nat]
  BY <1>1 DEF LineDone, SaveFile, TypeOK
<1>5. <<>> \in Seq(Lines)
  OBVIOUS
<1>6. CASE Len(walk.lines) > 1
  BY <1>2, <1>3, <1>4, <1>6 DEF LineDone, TypeOK
<1>7. CASE ~(Len(walk.lines) > 1)
  BY <1>4, <1>5, <1>7 DEF LineDone, TypeOK, Resting
<1> QED
  BY <1>6, <1>7

LEMMA AssignTypes ==
  ASSUME TypeOK, walk.pc = "lines", NEW id \in Ids, NEW target \in Ids,
         Assign(id, target)
  PROVE  /\ files' \in [Paths -> FileStates]
         /\ sessions' \in [Ids -> {"absent", "plain", "managed"}]
<1>1. walk.path \in Paths /\ files \in [Paths -> FileStates]
  BY DEF TypeOK, FileStates
<1>2. [files[walk.path] EXCEPT !.session = target, !.source = id] \in FileStates
  BY <1>1 DEF FileStates
<1>3. files' = [files EXCEPT ![walk.path] =
                  [files[walk.path] EXCEPT !.session = target, !.source = id]]
  BY <1>1 DEF Assign
<1>4. files' \in [Paths -> FileStates]
  BY <1>1, <1>2, <1>3
<1> QED
  BY <1>4, RepointedType DEF Assign

\* The four outcomes of a session_meta line: which session the log goes to.
LEMMA MetaTargets ==
  ASSUME TypeOK, walk.pc = "lines", Head(walk.lines) # Other, ReduceMeta
  PROVE  \E id, target \in Ids :
            /\ Assign(id, target)
            /\ resumes' \in SUBSET resumes
            /\ \/ /\ continuations[id] = target /\ UNCHANGED continuations
               \/ /\ continuations[id] \in Ids /\ target = id
                  /\ ~Present(continuations[id])
                  /\ DeleteContinuation(id)
               \/ /\ continuations[id] = None /\ ~Present(id)
                  /\ SaveContinuation(id, target)
               \/ /\ continuations[id] = None /\ target = id
                  /\ UNCHANGED continuations
<1> DEFINE line == Head(walk.lines)
           id == line.id
           at == line.at
<1> USE ObserverAssumption
<1>1. id \in Ids /\ continuations[id] \in Ids \cup {None}
  <2>1. line \in Lines
    BY HeadTailProperties DEF TypeOK
  <2> QED
    BY <2>1 DEF TypeOK, Lines, Metas
<1>2. CASE MetaContinued(id)
  BY <1>1, <1>2 DEF MetaContinued
<1>3. CASE MetaOrphaned(id)
  BY <1>1, <1>3 DEF MetaOrphaned, HasLocalRollout
<1>4. CASE MetaMatched(id, at)
  <2>1. Latest(id, at) \in Matching(id, at)
    BY <1>4, LatestMatches DEF MetaMatched
  <2>2. Latest(id, at).parent \in Ids /\ ~Present(id)
    BY <2>1 DEF Matching, Fits, TypeOK
  <2>3. resumes' \in SUBSET resumes
    BY <1>4 DEF MetaMatched, LeftAfter
  <2> QED
    BY <1>1, <1>4, <2>2, <2>3 DEF MetaMatched
<1>5. CASE MetaOwn(id, at)
  BY <1>1, <1>5 DEF MetaOwn, LeftUnmatched
<1> QED
  BY <1>2, <1>3, <1>4, <1>5 DEF ReduceMeta

LEMMA TypeStep == TypeOK /\ TableKept /\ [Next]_vars => TypeOK'
<1> SUFFICES ASSUME TypeOK, TableKept, [Next]_vars PROVE TypeOK'
  OBVIOUS
<1> USE ObserverAssumption
<1>f. files \in [Paths -> FileStates]
  BY DEF TypeOK, FileStates
<1>s. \A p \in Paths : disk[p].lines \in Seq(Lines)
  BY DEF TypeOK
<1>e. <<>> \in Seq(Lines)
  OBVIOUS
<1>1. CASE StartScan
  BY <1>1, <1>e DEF StartScan, TypeOK, Resting
<1>2. CASE FinishWalk
  <2>1. Untracked \in FileStates
    BY DEF Untracked, FileStates
  <2>2. files' \in [Paths -> FileStates]
    BY <1>2, <1>f, <2>1 DEF FinishWalk, Forgotten
  <2>3. sessions' \in [Ids -> {"absent", "plain", "managed"}]
    BY <1>2 DEF FinishWalk, Cleaned, TypeOK
  <2>4. stored' \in [Paths -> Nat]
    BY <1>2 DEF FinishWalk, TypeOK
  <2> QED
    BY <1>2, <1>e, <2>2, <2>3, <2>4 DEF FinishWalk, TypeOK, FileStates,
       Resting, NextPhase
<1>3. CASE ReduceOther
  BY <1>3, LineDoneTypes DEF ReduceOther, TypeOK
<1>4. CASE ReduceMeta
  <2>1. LineDone /\ walk.pc = "lines" /\ Head(walk.lines) # Other
    BY <1>4 DEF ReduceMeta
  <2>2. PICK id, target \in Ids :
           /\ Assign(id, target)
           /\ resumes' \in SUBSET resumes
           /\ \/ UNCHANGED continuations
              \/ DeleteContinuation(id) \/ SaveContinuation(id, target)
    BY <1>4, <2>1, MetaTargets
  <2>3. continuations' \in [Ids -> Ids \cup {None}]
    BY <2>2 DEF DeleteContinuation, SaveContinuation, TypeOK
  <2>4. /\ files' \in [Paths -> FileStates]
        /\ sessions' \in [Ids -> {"absent", "plain", "managed"}]
    BY <2>1, <2>2, AssignTypes
  <2> QED
    BY <1>4, <2>1, <2>2, <2>3, <2>4, LineDoneTypes DEF ReduceMeta, TypeOK,
       FileStates
<1>5. ASSUME NEW p \in Paths, FileVanished(p) PROVE TypeOK'
  BY <1>5, <1>e DEF FileVanished, TypeOK, Resting, NextPhase
<1>6. ASSUME NEW p \in Paths, ScanFile(p) PROVE TypeOK'
  <2>1. Checked(p) \in FileStates
    BY CheckedOffset
  <2>2. sessions' \in [Ids -> {"absent", "plain", "managed"}]
    BY <1>6, RepointedType DEF ScanFile, CheckedSessions, TypeOK
  <2>3. Len(disk[p].lines) \in Nat
    BY <1>s, LenProperties
  <2>4. files' \in [Paths -> FileStates]
    <3>1. [Checked(p) EXCEPT !.offset = Len(disk[p].lines)] \in FileStates
      BY <2>1, <2>3 DEF FileStates
    <3> QED
      BY <1>6, <1>f, <2>1, <3>1 DEF ScanFile
  <2> DEFINE read == SubSeq(disk[p].lines, Checked(p).offset + 1,
                            Len(disk[p].lines))
             passed == [walk EXCEPT !.todo = @ \ {p}, !.seen = @ \cup {p}]
             started == [passed EXCEPT !.pc = "lines", !.path = p,
                                       !.lines = read]
  <2>5. \/ walk' = passed /\ walk.pc = "walk" /\ UNCHANGED phase
        \/ walk' = Resting /\ phase' = FailedPhase
        \/ /\ walk' = started /\ UNCHANGED phase
           /\ Len(disk[p].lines) # Checked(p).offset
    BY <1>6 DEF ScanFile, UpNext, TypeOK
  <2>6. phase' \in {"initial", "first", "polling", "stopped", "failed"}
    BY <1>6, <2>5 DEF ScanFile, UpNext, FailedPhase, TypeOK, TableKept
  <2>7. /\ walk' \in [pc : {"idle", "walk", "lines"}, todo : SUBSET Paths,
                      seen : SUBSET Paths, path : Nat, lines : Seq(Lines)]
        /\ walk'.pc = "lines" => walk'.path \in Paths /\ walk'.lines # <<>>
    <3>1. CASE walk' = passed /\ walk.pc = "walk"
      BY <3>1 DEF TypeOK
    <3>2. CASE walk' = Resting
      BY <1>e, <3>2 DEF Resting
    <3>3. CASE walk' = started /\ Len(disk[p].lines) # Checked(p).offset
      <4>1. read \in Seq(Lines) /\ read # <<>>
        BY <3>3, LinesRead
      <4> HIDE DEF read
      <4> QED
        BY <3>3, <4>1 DEF TypeOK
    <3> QED
      BY <2>5, <3>1, <3>2, <3>3
  <2> QED
    BY <1>6, <2>2, <2>4, <2>6, <2>7 DEF ScanFile, TypeOK, FileStates
<1>7. ASSUME NEW id \in Ids, RegisterResume(id) PROVE TypeOK'
  BY <1>7 DEF RegisterResume, TypeOK
<1>8. ASSUME NEW e \in resumes, CancelResume(e) PROVE TypeOK'
  BY <1>8 DEF CancelResume, TypeOK
<1>9. ASSUME NEW id \in Ids, NEW next \in {"plain", "managed"},
             SetManaged(id, next)
      PROVE  TypeOK'
  BY <1>9 DEF SetManaged, TypeOK
<1>10. ASSUME NEW p \in Paths, NEW l \in Lines, Change,
              disk' = [disk EXCEPT ![p] = Log(Append(@.lines, l))],
              UNCHANGED unreadable
       PROVE  TypeOK'
  <2>1. Append(disk[p].lines, l) \in Seq(Lines)
    BY <1>10, <1>s, AppendProperties
  <2>2. Log(Append(disk[p].lines, l)) \in [lines : Seq(Lines), there : BOOLEAN]
    BY <2>1 DEF Log
  <2> QED
    BY <1>10, <2>2 DEF Change, TypeOK
<1>11. ASSUME NEW p \in Paths, NEW id \in Ids, WriteMeta(p, id) PROVE TypeOK'
  <2>1. [id |-> id, at |-> clock] \in Lines
    BY DEF Lines, Metas, TypeOK
  <2> QED
    BY <1>10, <1>11, <2>1 DEF WriteMeta
<1>12. ASSUME NEW p \in Paths, WriteOther(p) PROVE TypeOK'
  BY <1>10, <1>12 DEF WriteOther, Lines
<1>13. ASSUME NEW p \in Paths, Truncate(p) PROVE TypeOK'
  BY <1>13, <1>e DEF Truncate, Change, Log, TypeOK
<1>14. ASSUME NEW p \in Paths, Delete(p) PROVE TypeOK'
  BY <1>14, <1>e DEF Delete, Change, Missing, TypeOK
<1>15. ASSUME NEW p \in Paths, NEW q \in Paths, Rename(p, q) PROVE TypeOK'
  <2>1. Missing \in [lines : Seq(Lines), there : BOOLEAN]
    BY <1>e DEF Missing
  <2>2. disk' \in [Paths -> [lines : Seq(Lines), there : BOOLEAN]]
    BY <1>15, <2>1 DEF Rename, TypeOK
  <2>3. unreadable' \in SUBSET Paths
    BY <1>15 DEF Rename, TypeOK
  <2> QED
    BY <1>15, <2>2, <2>3 DEF Rename, Change, TypeOK
<1>16. ASSUME NEW p \in Paths, BecomeUnreadable(p) \/ BecomeReadable(p)
       PROVE  TypeOK'
  BY <1>16 DEF BecomeUnreadable, BecomeReadable, Change, TypeOK
<1>17. CASE Tick
  BY <1>17 DEF Tick, TypeOK
<1>18. CASE Restart
  BY <1>18, <1>e DEF Restart, TypeOK, Untracked, Resting
<1>19. CASE UNCHANGED vars
  BY <1>19 DEF vars, TypeOK
<1> QED
  BY <1>1, <1>2, <1>3, <1>4, <1>5, <1>6, <1>7, <1>8, <1>9, <1>11, <1>12,
     <1>13, <1>14, <1>15, <1>16, <1>17, <1>18, <1>19
     DEF Next, ScanStep, RelayStep, DiskStep

-----------------------------------------------------------------------------
(* The file table.                                                         *)

LEMMA TableStep == TypeOK /\ TableKept /\ [Next]_vars => TableKept'
<1> SUFFICES ASSUME TypeOK, TableKept, [Next]_vars PROVE TableKept'
  OBVIOUS
<1>f. files \in [Paths -> FileStates]
  BY DEF TypeOK, FileStates
<1>1. CASE StartScan
  BY <1>1 DEF StartScan, TableKept, TypeOK, Resting
<1>2. CASE FinishWalk
  BY <1>2 DEF FinishWalk, Forgotten, TableKept, Resting
<1>3. ASSUME LineDone, walk.pc = "lines", UNCHANGED phase,
             files' \in [Paths -> FileStates],
             \A p \in Paths : files'[p].known <=> files[p].known,
             \A p \in Paths : ~files[p].known => files'[p] = files[p]
      PROVE  TableKept'
  <2>1. walk'.pc = "lines" => walk'.path = walk.path
    BY <1>3, LineDoneTypes
  <2> QED
    BY <1>3, <2>1 DEF TableKept, TypeOK
<1>4. CASE ReduceOther
  BY <1>3, <1>4, <1>f DEF ReduceOther
<1>5. CASE ReduceMeta
  <2>1. walk.pc = "lines" /\ LineDone /\ Head(walk.lines) # Other
        /\ UNCHANGED phase
    BY <1>5 DEF ReduceMeta
  <2>2. PICK id, target \in Ids : Assign(id, target)
    BY <1>5, <2>1, MetaTargets
  <2>3. files' \in [Paths -> FileStates]
    BY <2>1, <2>2, AssignTypes
  <2>4. walk.path \in Paths /\ files[walk.path].known
    BY <2>1 DEF TableKept, TypeOK
  <2>5. \A p \in Paths : /\ files'[p].known <=> files[p].known
                         /\ p # walk.path => files'[p] = files[p]
    BY <1>f, <2>2, <2>4 DEF Assign, FileStates
  <2> QED
    BY <1>3, <2>1, <2>3, <2>4, <2>5
<1>6. ASSUME NEW p \in Paths, FileVanished(p) PROVE TableKept'
  BY <1>6 DEF FileVanished, TableKept, Resting
<1>7. ASSUME NEW p \in Paths, ScanFile(p) PROVE TableKept'
  <2>1. /\ files'[p].known
        /\ \A q \in Paths \ {p} : files'[q] = files[q]
    BY <1>7, <1>f, CheckedOffset DEF ScanFile, FileStates
  <2>2. /\ walk.pc = "walk"
        /\ walk'.pc = "lines" => walk'.path = p
        /\ walk'.pc # "idle" => UNCHANGED phase
    <3>1. \/ /\ walk' = [walk EXCEPT !.todo = @ \ {p}, !.seen = @ \cup {p}]
             /\ UNCHANGED phase
          \/ walk' = Resting
          \/ /\ UNCHANGED phase
             /\ \E l : walk' = [walk EXCEPT !.pc = "lines", !.path = p,
                           !.todo = @ \ {p}, !.seen = @ \cup {p}, !.lines = l]
      BY <1>7 DEF ScanFile
    <3>2. walk.pc = "walk"
      BY <1>7 DEF ScanFile, UpNext
    <3>3. CASE walk' = [walk EXCEPT !.todo = @ \ {p}, !.seen = @ \cup {p}]
               /\ UNCHANGED phase
      BY <3>2, <3>3 DEF TypeOK
    <3>4. CASE walk' = Resting
      BY <3>2, <3>4 DEF Resting
    <3>5. ASSUME NEW l, UNCHANGED phase,
                 walk' = [walk EXCEPT !.pc = "lines", !.path = p,
                            !.todo = @ \ {p}, !.seen = @ \cup {p}, !.lines = l]
          PROVE  /\ walk'.pc = "lines" => walk'.path = p
                 /\ walk'.pc # "idle" => UNCHANGED phase
      BY <3>5 DEF TypeOK
    <3> QED
      BY <3>1, <3>2, <3>3, <3>4, <3>5
  <2> QED
    BY <2>1, <2>2 DEF TableKept
<1>8. CASE Restart
  BY <1>8 DEF Restart, TableKept, Resting
<1>9. CASE RelayStep \/ DiskStep \/ Tick \/ UNCHANGED vars
  <2>1. UNCHANGED <<files, walk, phase>>
    BY <1>9 DEF RelayStep, DiskStep, Tick, RegisterResume, CancelResume,
       SetManaged, WriteMeta, WriteOther, Truncate, Delete, Rename, Change,
       BecomeUnreadable, BecomeReadable, vars
  <2> QED
    BY <2>1 DEF TableKept
<1> QED
  BY <1>1, <1>2, <1>4, <1>5, <1>6, <1>7, <1>8, <1>9 DEF Next, ScanStep

-----------------------------------------------------------------------------
(* Sessions and files.                                                     *)

LEMMA ReferencedStep ==
  TypeOK /\ TableKept /\ SessionsReferenced /\ [Next]_vars
    => SessionsReferenced'
<1> SUFFICES ASSUME TypeOK, TableKept, SessionsReferenced, [Next]_vars
             PROVE  SessionsReferenced'
  OBVIOUS
<1> USE ObserverAssumption
<1>f. files \in [Paths -> FileStates]
  BY DEF TypeOK, FileStates
<1>1. ASSUME UNCHANGED sessions,
             \A p \in Paths : files'[p].session = files[p].session
      PROVE  SessionsReferenced'
  BY <1>1 DEF SessionsReferenced, Present
<1>2. CASE FinishWalk
  <2>1. \A p \in Paths : /\ p \in walk.seen => files'[p] = files[p]
                         /\ p \notin walk.seen => files'[p].session = None
    BY <1>2 DEF FinishWalk, Forgotten, Untracked
  <2>2. \A id \in Ids : sessions'[id] =
           IF \E p \in walk.seen : files[p].session = id
           THEN sessions[id] ELSE "absent"
    BY <1>2 DEF FinishWalk, Cleaned
  <2>3. walk.seen \subseteq Paths
    BY DEF TypeOK
  <2> SUFFICES ASSUME NEW id \in Ids
               PROVE  sessions'[id] # "absent"
                        <=> \E p \in Paths : files'[p].session = id
    BY DEF SessionsReferenced, Present
  <2>4. (\E p \in walk.seen : files[p].session = id) => sessions[id] # "absent"
    BY <2>3 DEF SessionsReferenced, Present
  <2>5. (\E p \in Paths : files'[p].session = id)
           <=> \E p \in walk.seen : files[p].session = id
    BY <2>1, <2>3
  <2> QED
    BY <2>2, <2>4, <2>5
<1>3. CASE ReduceMeta
  <2>1. PICK id, target \in Ids : Assign(id, target)
    BY <1>3, MetaTargets DEF ReduceMeta
  <2> DEFINE g == [files[walk.path] EXCEPT !.session = target, !.source = id]
  <2>2. walk.path \in Paths
    BY <1>3 DEF ReduceMeta, TypeOK
  <2>3. g.session = target
    BY <1>f, <2>2 DEF FileStates
  <2>4. files' = [files EXCEPT ![walk.path] = g]
    BY <1>f, <2>1, <2>2 DEF Assign
  <2>5. sessions' = Repointed(walk.path, g.session)
    BY <2>1, <2>3 DEF Assign
  <2> HIDE DEF g
  <2> QED
    BY <2>2, <2>3, <2>4, <2>5, RepointKeeps
<1>4. ASSUME NEW p \in Paths, ScanFile(p) PROVE SessionsReferenced'
  <2>1. PICK f : /\ files' = [files EXCEPT ![p] = f]
                 /\ f.session = Checked(p).session
    BY <1>4, CheckedOffset DEF ScanFile, FileStates
  <2>2. CASE Truncated(p)
    <3>1. f.session = None
      BY <2>1, <2>2 DEF Checked, Tracked, Untracked
    <3>2. sessions' = Repointed(p, f.session)
      BY <1>4, <2>2, <3>1 DEF ScanFile, CheckedSessions
    <3> QED
      BY <2>1, <3>1, <3>2, RepointKeeps
  <2>3. CASE ~Truncated(p)
    <3>1. UNCHANGED sessions
      BY <1>4, <2>3 DEF ScanFile, CheckedSessions
    <3>2. f.session = files[p].session
      BY <2>1, <2>3 DEF Checked, TableKept, Tracked, Untracked
    <3> QED
      BY <1>1, <1>f, <2>1, <3>1, <3>2
  <2> QED
    BY <2>2, <2>3
<1>5. ASSUME NEW id \in Ids, NEW next \in {"plain", "managed"},
             SetManaged(id, next)
      PROVE  SessionsReferenced'
  <2>1. \A k \in Ids : Present(k)' <=> Present(k)
    BY <1>5 DEF SetManaged, Present, TypeOK
  <2> QED
    BY <1>5, <2>1 DEF SetManaged, SessionsReferenced
<1>6. CASE Restart
  BY <1>6 DEF Restart, SessionsReferenced, Present, Untracked
<1>7. CASE \/ StartScan \/ ReduceOther \/ \E p \in Paths : FileVanished(p)
           \/ \E id \in Ids : RegisterResume(id)
           \/ \E e \in resumes : CancelResume(e)
           \/ DiskStep \/ Tick \/ UNCHANGED vars
  <2>1. UNCHANGED <<files, sessions>>
    BY <1>7 DEF StartScan, ReduceOther, FileVanished, RegisterResume,
       CancelResume, DiskStep, Tick, WriteMeta, WriteOther, Truncate, Delete,
       Rename, Change, BecomeUnreadable, BecomeReadable, vars
  <2> QED
    BY <1>1, <2>1
<1> QED
  BY <1>2, <1>3, <1>4, <1>5, <1>6, <1>7 DEF Next, ScanStep, RelayStep

-----------------------------------------------------------------------------
(* Aliases.                                                                *)

\* What AliasesStored says of one file.
Aliased(f) ==
    /\ (f.session = None) <=> (f.source = None)
    /\ f.source # None =>
         f.session = IF continuations[f.source] = None
                     THEN f.source ELSE continuations[f.source]

LEMMA AliasStep ==
  SessionsInv /\ [Next]_vars => AliasesStored'
<1> SUFFICES ASSUME SessionsInv, [Next]_vars
             PROVE  AliasesStored'
  OBVIOUS
<1> USE ObserverAssumption DEF SessionsInv
<1>f. files \in [Paths -> FileStates]
  BY DEF TypeOK, FileStates
<1>a. \A p \in Paths : Aliased(files[p])
  BY DEF AliasesStored, Aliased
<1>u. Aliased(Untracked) /\ Aliased(Tracked)
  BY DEF Aliased, Tracked, Untracked
<1>1. ASSUME UNCHANGED continuations,
             \A p \in Paths : \E f : /\ Aliased(f)
                                     /\ files'[p].session = f.session
                                     /\ files'[p].source = f.source
      PROVE  AliasesStored'
  BY <1>1 DEF AliasesStored, Aliased
<1>2. CASE FinishWalk
  BY <1>1, <1>2, <1>a, <1>u DEF FinishWalk, Forgotten
<1>3. ASSUME NEW p \in Paths, ScanFile(p) PROVE AliasesStored'
  <2>1. Aliased(Checked(p)) /\ Checked(p) \in FileStates
    BY <1>a, <1>u, CheckedOffset DEF Checked
  <2>2. /\ files'[p].session = Checked(p).session
        /\ files'[p].source = Checked(p).source
        /\ \A q \in Paths \ {p} : files'[q] = files[q]
        /\ UNCHANGED continuations
    BY <1>3, <1>f, <2>1 DEF ScanFile, FileStates
  <2> QED
    BY <1>1, <1>a, <2>1, <2>2
<1>4. CASE ReduceMeta
  <2>1. PICK id, target \in Ids :
           /\ Assign(id, target)
           /\ \/ /\ continuations[id] = target /\ UNCHANGED continuations
              \/ /\ continuations[id] \in Ids /\ target = id
                 /\ ~Present(continuations[id])
                 /\ DeleteContinuation(id)
              \/ /\ continuations[id] = None /\ ~Present(id)
                 /\ SaveContinuation(id, target)
              \/ /\ continuations[id] = None /\ target = id
                 /\ UNCHANGED continuations
    BY <1>4, MetaTargets DEF ReduceMeta
  <2> DEFINE w == walk.path
  <2>2. w \in Paths
    BY <1>4 DEF ReduceMeta, TypeOK
  <2>3. /\ files'[w].session = target /\ files'[w].source = id
        /\ \A p \in Paths \ {w} : files'[p] = files[p]
    BY <1>f, <2>1, <2>2 DEF Assign, FileStates
  <2>4. /\ target = IF continuations'[id] = None
                   THEN id ELSE continuations'[id]
        /\ \A k \in Ids \ {id} : continuations'[k] = continuations[k]
    BY <2>1 DEF DeleteContinuation, SaveContinuation, TypeOK
  \* No other file shows the session whose continuation changes.
  <2>5. ASSUME NEW p \in Paths, files[p].source = id
        PROVE  UNCHANGED continuations
    <3>1. Present(files[p].session)
      BY <1>a, <1>f, <2>5 DEF Aliased, SessionsReferenced, FileStates
    <3>2. files[p].session = IF continuations[id] = None
                             THEN id ELSE continuations[id]
      BY <1>a, <2>5 DEF Aliased
    <3> QED
      BY <2>1, <3>1, <3>2
  <2>6. ASSUME NEW p \in Paths, p # w
        PROVE  /\ (files'[p].session = None) <=> (files'[p].source = None)
               /\ files'[p].source # None =>
                    files'[p].session = IF continuations'[files'[p].source] = None
                                        THEN files'[p].source
                                        ELSE continuations'[files'[p].source]
    <3>1. files'[p] = files[p] /\ Aliased(files[p])
      BY <1>a, <2>3, <2>6
    <3>2. CASE files[p].source = id
      BY <2>5, <3>1, <3>2 DEF Aliased
    <3>3. CASE files[p].source # id
      BY <1>f, <2>4, <3>1, <3>3 DEF Aliased, FileStates
    <3> QED
      BY <3>2, <3>3
  <2> QED
    BY <2>2, <2>3, <2>4, <2>6 DEF AliasesStored
<1>5. CASE Restart
  BY <1>1, <1>5, <1>u DEF Restart
<1>6. CASE \/ StartScan \/ ReduceOther \/ \E p \in Paths : FileVanished(p)
           \/ RelayStep \/ DiskStep \/ Tick \/ UNCHANGED vars
  <2>1. UNCHANGED <<files, continuations>>
    BY <1>6 DEF StartScan, ReduceOther, FileVanished, RelayStep, SetManaged,
       RegisterResume, CancelResume, DiskStep, Tick, WriteMeta, WriteOther,
       Truncate, Delete, Rename, Change, BecomeUnreadable, BecomeReadable,
       vars
  <2> QED
    BY <1>1, <1>a, <2>1
<1> QED
  BY <1>2, <1>3, <1>4, <1>5, <1>6 DEF Next, ScanStep

-----------------------------------------------------------------------------
(* Theorems.                                                               *)

LEMMA SessionsStep == SessionsInv /\ [Next]_vars => SessionsInv'
BY TypeStep, TableStep, ReferencedStep, AliasStep DEF SessionsInv

LEMMA SessionsAlways == Spec => []SessionsInv
BY InitSessions, SessionsStep, PTL DEF Spec

\* Every variable of the adapter keeps its type, and lines wait to be reduced
\* only while a file is being scanned (scanFile).
THEOREM CodexTypes == Spec => []TypeOK
BY SessionsAlways, PTL DEF SessionsInv

\* A session is in the map exactly as long as some log file belongs to it,
\* through truncation, deletion, renaming and any number of session_meta lines
\* (scanFile, the cleanup of Scan, reduceLine).
THEOREM SessionsHaveFiles == Spec => []SessionsReferenced
BY SessionsAlways, PTL DEF SessionsInv

\* A log is shown under another session exactly when its stored continuation
\* names that session (matchResumeLocked, the continuations of reduceLine).
THEOREM AliasesAreStored == Spec => []AliasesStored
BY SessionsAlways, PTL DEF SessionsInv

\* No line of a log takes the managed indicator away from a session that
\* stays in the map: only SetManaged does.
THEOREM IndicatorSurvivesLogs == Spec => ManagedKept
<1>1. SessionsInv /\ [Next]_vars =>
        [\A id \in Ids :
           sessions[id] = "managed" /\ sessions'[id] = "plain"
              => UNCHANGED <<files, walk>>]_vars
  <2> SUFFICES ASSUME SessionsInv, Next, NEW id \in Ids,
                      sessions[id] = "managed", sessions'[id] = "plain"
               PROVE  UNCHANGED <<files, walk>>
    OBVIOUS
  <2>1. ASSUME NEW p, NEW next, sessions' = Repointed(p, next) PROVE FALSE
    BY <2>1 DEF Repointed, Present
  <2>2. CASE FinishWalk
    BY <2>2 DEF FinishWalk, Cleaned
  <2>3. CASE ReduceMeta
    BY <2>1, <2>3, MetaTargets DEF ReduceMeta, Assign, SessionsInv
  <2>4. ASSUME NEW p \in Paths, ScanFile(p) PROVE FALSE
    BY <2>1, <2>4 DEF ScanFile, CheckedSessions
  <2>5. CASE Restart
    BY <2>5 DEF Restart
  <2>6. CASE RelayStep
    BY <2>6 DEF RelayStep, RegisterResume, CancelResume, SetManaged
  <2>7. CASE \/ StartScan \/ ReduceOther \/ \E p \in Paths : FileVanished(p)
             \/ DiskStep \/ Tick
    BY <2>7 DEF StartScan, ReduceOther, FileVanished, DiskStep, Tick,
       WriteMeta, WriteOther, Truncate, Delete, Rename, Change,
       BecomeUnreadable, BecomeReadable
  <2> QED
    BY <2>2, <2>3, <2>4, <2>5, <2>6, <2>7 DEF Next, ScanStep
<1> QED
  BY <1>1, SessionsAlways, PTL DEF Spec, ManagedKept
=============================================================================
