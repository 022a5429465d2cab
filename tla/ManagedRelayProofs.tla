------------------------- MODULE ManagedRelayProofs -------------------------
(***************************************************************************)
(* Proofs about ManagedRelay, for every set of sessions, directories,      *)
(* request ids, handles and pids and every value of the bounds: first who  *)
(* owns what, then what remote control promises over several steps on top  *)
(* of it: a redelivered request starts nothing, a cancelled child is not   *)
(* reported as failed, a late watcher takes no newer child's indicator     *)
(* away, and the relay implements ChildSlots.                              *)
(***************************************************************************)
EXTENDS ManagedRelay, TLAPS

USE DEF Targets, relayVars, slotVars, resumeVars, newVars, restVars, worldVars

\* The initial states have the inductive invariant.
LEMMA InitInv == Init => RelayInv
<1> SUFFICES ASSUME Init PROVE RelayInv
  OBVIOUS
<1> USE SetAssumption, BoundAssumption
<1>1. TypeOK
  <2>1. Idle \in Handlers /\ Fresh \in Children
    BY DEF Idle, Handlers, PCs, Fresh, Children
  <2> QED
    BY <2>1 DEF Init, TypeOK, Queued
<1>2. HandlerOwns
  BY DEF Init, HandlerOwns, Idle, ResumePCs, StartPCs, Reserving,
         NewReserving, Unwatched
<1>3. /\ HoldersRecorded /\ ReservationsOwned /\ OneChildPerTarget
      /\ WatchersHold
  BY DEF Init, HoldersRecorded, ReservationsOwned, OneChildPerTarget, Holding,
         Fresh, WatchersHold
<1> QED
  BY <1>1, <1>2, <1>3 DEF RelayInv

\* The handler's record at the first step of an operation.
LEMMA AtTyped ==
  ASSUME NEW pc \in PCs, NEW r \in RequestIDs, NEW t \in Targets
  PROVE  At(pc, r, t) \in Handlers
BY DEF Handlers, At, Idle

\* exec.Cmd.Start leaves a typed child and a typed handler.
LEMMA SpawnTyped ==
  ASSUME TypeOK, NEW c \in Cmds, NEW next \in PCs, Spawn(c, next)
  PROVE  /\ handler' \in Handlers
         /\ children' \in [Cmds -> Children]
         /\ spawns' \in [RequestIDs -> Nat]
<1>1. PICK p \in PIDs :
        /\ children' = [children EXCEPT ![c] = Spawned(c, p)]
        /\ spawns' = [spawns EXCEPT ![handler.req] = @ + 1]
        /\ handler' = [handler EXCEPT !.pc = next, !.cmd = c, !.pid = p]
  BY DEF Spawn, FreePIDs
<1>2. handler \in Handlers /\ children \in [Cmds -> Children]
  BY DEF TypeOK
<1>3. Spawned(c, p) \in Children
  BY <1>2 DEF Spawned, Fresh, Children, Handlers
<1>4. handler' \in Handlers
  BY <1>1, <1>2 DEF Handlers
<1>5. children' \in [Cmds -> Children]
  BY <1>1, <1>2, <1>3
<1>6. spawns' \in [RequestIDs -> Nat]
  <2>1. spawns \in [RequestIDs -> Nat]
    BY DEF TypeOK
  <2>2. spawns' = [r \in RequestIDs |-> IF r = handler.req THEN spawns[r] + 1
                                                           ELSE spawns[r]]
    BY <1>1, <2>1
  <2> QED
    BY <2>1, <2>2
<1> QED
  BY <1>4, <1>5, <1>6

\* The steps of a child and of its watcher leave a typed record.
LEMMA ChildTyped ==
  ASSUME children \in [Cmds -> Children], NEW c \in Cmds, NEW b \in BOOLEAN,
         NEW w \in {"wait", "report", "send", "orphan"}
  PROVE  /\ Exited(children[c]) \in Children
         /\ [children[c] EXCEPT !.killed = TRUE] \in Children
         /\ [children[c] EXCEPT !.os = "reaped", !.watch = "release"]
               \in Children
         /\ [children[c] EXCEPT !.watch = "clear", !.silent = b] \in Children
         /\ [children[c] EXCEPT !.watch = w] \in Children
<1>1. children[c] \in Children
  OBVIOUS
<1>2. Exited(children[c]) \in Children
  BY <1>1 DEF Children, Exited, Fresh
<1>3. /\ [children[c] EXCEPT !.killed = TRUE] \in Children
      /\ [children[c] EXCEPT !.os = "reaped", !.watch = "release"]
            \in Children
  BY <1>1 DEF Children
<1>4. [children[c] EXCEPT !.watch = "clear", !.silent = b] \in Children
  BY <1>1 DEF Children
<1>5. [children[c] EXCEPT !.watch = w] \in Children
  BY <1>1 DEF Children
<1> QED
  BY <1>2, <1>3, <1>4, <1>5

\* Every step keeps every variable in its type.
LEMMA TypeStep == TypeOK /\ HandlerOwns /\ [Next]_vars => TypeOK'
<1> SUFFICES ASSUME TypeOK, HandlerOwns, [Next]_vars PROVE TypeOK'
  OBVIOUS
<1> USE SetAssumption, BoundAssumption
<1> USE DEF TypeOK, observerVars
<1>i. Idle \in Handlers
  BY DEF Handlers, Idle, PCs
<1>f. Fresh \in Children
  BY DEF Children, Fresh
<1>h. /\ handler.target \in Targets \cup {None}
      /\ handler.req \in RequestIDs \cup {None}
      /\ handler.cmd \in Cmds \cup {None}
      /\ handler.pc \in {"reserve", "activate"} => handler.target \in Sessions
      /\ handler.pc = "newReserve" => handler.target \in Dirs
      /\ handler.pc \in {"start", "ack", "newAck"} => handler.cmd \in Cmds
  BY DEF Handlers, HandlerOwns, ResumePCs, StartPCs, Unwatched
<1>c. ASSUME NEW c \in Cmds
      PROVE  /\ children[c].pid \in PIDs \cup {None}
             /\ Exited(children[c]) \in Children
  <2>1. children[c] \in Children
    OBVIOUS
  <2>2. children[c].pid \in PIDs \cup {None}
    BY <2>1 DEF Children
  <2> QED
    BY <2>2, ChildTyped
<1>1. ASSUME NEW r \in RequestIDs, ReceiveQuery(r) PROVE TypeOK'
  BY <1>1 DEF ReceiveQuery, Claim
<1>2. ASSUME NEW r \in RequestIDs, NEW s \in Sessions, ReceiveResume(r, s) PROVE TypeOK'
  <2>1. At("reserve", r, s) \in Handlers
    BY AtTyped DEF PCs, ResumePCs
  <2> QED
    BY <1>2, <1>i, <2>1 DEF ReceiveResume, Claim
<1>3. ASSUME NEW r \in RequestIDs, NEW d \in Dirs, ReceiveStart(r, d) PROVE TypeOK'
  <2>1. At("newReserve", r, d) \in Handlers
    BY AtTyped DEF PCs, StartPCs
  <2> QED
    BY <1>3, <1>i, <2>1 DEF ReceiveStart, Claim
<1>4. ASSUME NEW r \in RequestIDs, NEW s \in Sessions, ReceiveCancel(r, s) PROVE TypeOK'
  <2>1. At("sigterm", r, s) \in Handlers
    BY AtTyped DEF PCs, CancelPCs
  <2>2. managed[s] # None =>
        [At("sigterm", r, s) EXCEPT !.cmd = managed[s],
           !.pid = children[managed[s]].pid] \in Handlers
    BY <1>c, <2>1 DEF Handlers
  <2> QED
    BY <1>4, <2>1, <2>2 DEF ReceiveCancel, Claim, Flagged
<1>5. CASE ReserveResume
  <2>1. [handler EXCEPT !.pc = "command"] \in Handlers
    BY DEF Handlers, PCs, ResumePCs, StartPCs, CancelPCs
  <2> QED
    BY <1>5, <1>i, <1>h, <2>1 DEF ReserveResume
<1>6. CASE ResumeCommand
  <2>1. [handler EXCEPT !.pc = "register"] \in Handlers
    BY DEF Handlers, PCs, ResumePCs, StartPCs, CancelPCs
  <2>2. [handler EXCEPT !.pc = "unreserve"] \in Handlers
    BY DEF Handlers, PCs, ResumePCs, StartPCs, CancelPCs
  <2> QED
    BY <1>6, <2>1, <2>2 DEF ResumeCommand
<1>7. CASE RegisterResume
  <2>1. PICK c \in Cmds :
          /\ handler' = [handler EXCEPT !.pc = "start", !.cmd = c]
          /\ registered' \in {registered, registered \cup {c}}
    BY <1>7 DEF RegisterResume, FreeCmds
  <2>2. handler' \in Handlers
    BY <2>1 DEF Handlers, PCs, ResumePCs, StartPCs, CancelPCs
  <2>3. registered' \in SUBSET Cmds
    BY <2>1
  <2> QED
    BY <1>7, <2>1, <2>2, <2>3 DEF RegisterResume
<1>8. CASE StartResume
  <2>1. "activate" \in PCs
    BY DEF PCs, ResumePCs
  <2>2. [handler EXCEPT !.pc = "withdraw"] \in Handlers
    BY DEF Handlers, PCs, ResumePCs, StartPCs, CancelPCs
  <2> QED
    BY <1>8, <1>h, SpawnTyped, <2>1, <2>2 DEF StartResume
<1>9. CASE WithdrawResume
  <2>1. [handler EXCEPT !.pc = "unreserve"] \in Handlers
    BY DEF Handlers, PCs, ResumePCs, StartPCs, CancelPCs
  <2> QED
    BY <1>9, <2>1 DEF WithdrawResume, Withdrawn
<1>10. CASE ReleaseReservation
  BY <1>10, <1>i DEF ReleaseReservation
<1>11. CASE ActivateResume
  <2>1. [handler EXCEPT !.pc = "show"] \in Handlers
    BY DEF Handlers, PCs, ResumePCs, StartPCs, CancelPCs
  <2> QED
    BY <1>11, <1>h, <2>1 DEF ActivateResume
<1>12. CASE ShowManaged
  <2>1. [handler EXCEPT !.pc = "ack"] \in Handlers
    BY DEF Handlers, PCs, ResumePCs, StartPCs, CancelPCs
  <2> QED
    BY <1>12, <1>h, <2>1 DEF ShowManaged, SetManaged, Queued
<1>13. CASE Acknowledge
  <2>1. handler.cmd \in Cmds
    BY <1>13, <1>h DEF Acknowledge
  <2>2. [children[handler.cmd] EXCEPT !.watch = "wait"] \in Children
    BY <2>1, ChildTyped
  <2> QED
    BY <1>13, <1>i, <1>h, <2>1, <2>2 DEF Acknowledge
<1>14. CASE ReserveStart
  <2>1. [handler EXCEPT !.pc = "newCommand"] \in Handlers
    BY DEF Handlers, PCs, ResumePCs, StartPCs, CancelPCs
  <2> QED
    BY <1>14, <1>i, <1>h, <2>1 DEF ReserveStart
<1>15. CASE StartCommand
  <2>1. [handler EXCEPT !.pc = "newStart"] \in Handlers
    BY DEF Handlers, PCs, ResumePCs, StartPCs, CancelPCs
  <2>2. [handler EXCEPT !.pc = "newRelease"] \in Handlers
    BY DEF Handlers, PCs, ResumePCs, StartPCs, CancelPCs
  <2> QED
    BY <1>15, <2>1, <2>2 DEF StartCommand
<1>16. CASE StartNew
  <2>1. "newAck" \in PCs
    BY DEF PCs, StartPCs
  <2>2. [handler EXCEPT !.pc = "newRelease"] \in Handlers
    BY DEF Handlers, PCs, ResumePCs, StartPCs, CancelPCs
  <2> QED
    BY <1>16, <1>h, SpawnTyped, <2>1, <2>2 DEF StartNew, FreeCmds
<1>17. CASE ReleaseNewSession
  BY <1>17, <1>i DEF ReleaseNewSession
<1>18. CASE SigTerm
  <2>1. [handler EXCEPT !.pc = "sigkill"] \in Handlers
    BY DEF Handlers, PCs, ResumePCs, StartPCs, CancelPCs
  <2>2. ASSUME NEW c \in Cmds
        PROVE  [children[c] EXCEPT !.killed = TRUE] \in Children
    BY ChildTyped
  <2> QED
    BY <1>18, <1>i, <2>1, <2>2 DEF SigTerm
<1>19. CASE SigKill
  <2>1. [handler EXCEPT !.pc = "cancelAck"] \in Handlers
    BY DEF Handlers, PCs, ResumePCs, StartPCs, CancelPCs
  <2> QED
    BY <1>19, <1>c, <2>1 DEF SigKill
<1>20. CASE AcknowledgeCancel
  BY <1>20, <1>i DEF AcknowledgeCancel
<1>21. ASSUME NEW c \in Cmds, Reap(c) PROVE TypeOK'
  <2>1. [children[c] EXCEPT !.os = "reaped", !.watch = "release"] \in Children
    BY ChildTyped
  <2> QED
    BY <1>21, <2>1 DEF Reap
<1>22. ASSUME NEW c \in Cmds, ReleaseManaged(c) PROVE TypeOK'
  <2>1. children' \in [Cmds -> Children]
    BY <1>22, ChildTyped DEF ReleaseManaged, Freed
  <2> QED
    BY <1>22, <2>1 DEF ReleaseManaged, Freed
<1>23. ASSUME NEW c \in Cmds, ReleaseStarted(c) PROVE TypeOK'
  <2>1. [children[c] EXCEPT !.watch = "report"] \in Children
    BY ChildTyped
  <2> QED
    BY <1>23, <2>1 DEF ReleaseStarted
<1>24. ASSUME NEW c \in Cmds, ClearManaged(c) PROVE TypeOK'
  <2>1. [children[c] EXCEPT !.watch = "report"] \in Children
    BY ChildTyped
  <2> QED
    BY <1>24, <2>1 DEF ClearManaged, SetManaged, Queued
<1>25. ASSUME NEW c \in Cmds, Report(c) PROVE TypeOK'
  <2>1. [children[c] EXCEPT !.watch = "send"] \in Children
    BY ChildTyped
  <2> QED
    BY <1>25, <1>f, <2>1 DEF Report, Withdrawn
<1>26. ASSUME NEW c \in Cmds, SendFailure(c) PROVE TypeOK'
  BY <1>26, <1>f DEF SendFailure
<1>27. ASSUME NEW c \in Cmds, ProcessExits(c) PROVE TypeOK'
  BY <1>27, <1>c DEF ProcessExits
<1>28. ASSUME NEW s \in Sessions, AdapterUpdate(s) PROVE TypeOK'
  <2>1. shown' \in [Sessions -> Cmds \cup {None}]
    BY <1>28 DEF AdapterUpdate, Carried
  <2>2. updates' \in [Sessions -> 0 .. QueueCap]
    BY <1>28 DEF AdapterUpdate, Queued
  <2> QED
    BY <1>28, <2>1, <2>2 DEF AdapterUpdate
<1>29. ASSUME NEW s \in Sessions, AdapterRemove(s) PROVE TypeOK'
  BY <1>29 DEF AdapterRemove, Queued
<1>30. ASSUME NEW s \in Sessions, ForwardUpdate(s) PROVE TypeOK'
  BY <1>30 DEF ForwardUpdate
<1>31. ASSUME NEW s \in Sessions, ForwardRemoval(s) PROVE TypeOK'
  BY <1>31 DEF ForwardRemoval
<1>32. ASSUME NEW c \in Cmds, ConsumeRegistration(c) PROVE TypeOK'
  BY <1>32 DEF ConsumeRegistration
<1>33. CASE Tick
  BY <1>33 DEF Tick, Less
<1>34. CASE Restart
  <2>1. ASSUME NEW c \in Cmds
        PROVE  [children[c] EXCEPT !.watch = "orphan"] \in Children
    BY ChildTyped
  <2> QED
    BY <1>34, <1>i, <1>f, <2>1 DEF Restart, Queued
<1>35. CASE UNCHANGED vars
  BY <1>35 DEF vars
<1> QED
  BY <1>1, <1>2, <1>3, <1>4, <1>5, <1>6, <1>7, <1>8, <1>9, <1>10, <1>11,
     <1>12, <1>13, <1>14, <1>15, <1>16, <1>17, <1>18, <1>19, <1>20, <1>21,
     <1>22, <1>23, <1>24, <1>25, <1>26, <1>27, <1>28, <1>29, <1>30, <1>31,
     <1>32, <1>33, <1>34, <1>35 DEF Next, Receive, HandlerStep, WatcherStep,
     ObserverStep

-----------------------------------------------------------------------------
\* What a step needs of the types to keep the ownership facts.
OwnTypes == /\ handler \in Handlers
            /\ children \in [Cmds -> Children]
            /\ managed \in [Sessions -> Cmds \cup {None}]
            /\ starting \subseteq Sessions /\ newStarting \subseteq Dirs

Ownership == /\ HandlerOwns /\ HoldersRecorded
             /\ ReservationsOwned /\ OneChildPerTarget

\* No child starts or stops holding its target, and none that the handler
\* still has in its hands changes.
SameHolder(c) ==
    /\ Holding(c)' <=> Holding(c)
    /\ Holding(c) => children'[c].target = children[c].target
    /\ children[c] = Fresh => children'[c] = Fresh
    /\ children[c].watch = "none" /\ children[c].os # "none"
          => children'[c].watch = "none" /\ children'[c].os # "none"

SameHolders == \A c \in Cmds : SameHolder(c)

\* A step of a child, a watcher or a cancel that changes no holder and no
\* reservation keeps the ownership facts.
LEMMA QuietStep ==
  ASSUME Ownership, SameHolders, UNCHANGED <<managed, starting, newStarting>>,
         managed \in [Sessions -> Cmds \cup {None}],
         \/ UNCHANGED handler
         \/ handler.pc \in CancelPCs /\ handler'.pc \in {"idle"} \cup CancelPCs
  PROVE  Ownership'
<1> USE DEF Ownership, SameHolders, SameHolder
<1>1. CASE UNCHANGED handler
  <2>1. HandlerOwns'
    BY <1>1 DEF HandlerOwns, Holding
  <2>2. HoldersRecorded' /\ OneChildPerTarget'
    BY <1>1 DEF HoldersRecorded, OneChildPerTarget
  <2>3. ReservationsOwned'
    BY <1>1 DEF ReservationsOwned
  <2> QED
    BY <2>1, <2>2, <2>3
<1>2. CASE handler.pc \in CancelPCs /\ handler'.pc \in {"idle"} \cup CancelPCs
  <2>1. HandlerOwns'
    BY <1>2 DEF HandlerOwns, CancelPCs, ResumePCs, StartPCs, Reserving,
                NewReserving, Unwatched
  <2>2. HoldersRecorded' /\ OneChildPerTarget'
    BY <1>2 DEF HoldersRecorded, OneChildPerTarget, CancelPCs
  <2>3. ReservationsOwned'
    BY <1>2 DEF ReservationsOwned, CancelPCs
  <2> QED
    BY <2>1, <2>2, <2>3
<1> QED
  BY <1>1, <1>2

\* A step that only moves the handler keeps them if the handler keeps what
\* it has reserved and its new position fits.
LEMMA MoveStep ==
  ASSUME Ownership, HandlerOwns', handler.pc # "activate",
         UNCHANGED <<children, managed, starting, newStarting>>,
         handler.pc \in Reserving =>
            handler'.pc \in Reserving /\ handler'.target = handler.target,
         handler.pc \in NewReserving =>
            handler'.pc \in NewReserving /\ handler'.target = handler.target
  PROVE  Ownership'
<1> USE DEF Ownership
<1>1. HoldersRecorded'
  BY DEF HoldersRecorded, Holding
<1>2. ReservationsOwned'
  BY DEF ReservationsOwned, Holding, Reserving, NewReserving
<1>3. OneChildPerTarget'
  BY DEF OneChildPerTarget, Holding
<1> QED
  BY <1>1, <1>2, <1>3

\* What the two end positions of a child's record look like.
LEMMA ExitedFields ==
  ASSUME NEW x \in Children
  PROVE  /\ x.watch = "orphan" => Exited(x) = Fresh /\ Exited(x).os = "none"
         /\ x.watch # "orphan" => /\ Exited(x).os = "zombie"
                                  /\ Exited(x).watch = x.watch
                                  /\ Exited(x).target = x.target
BY DEF Exited, Children, Fresh

\* Every step keeps a child under every watcher.
LEMMA WatchersStep ==
  TypeOK /\ HandlerOwns /\ WatchersHold /\ [Next]_vars => WatchersHold'
<1> SUFFICES ASSUME TypeOK, HandlerOwns, WatchersHold, [Next]_vars,
                    NEW d \in Cmds, children'[d].watch \in {"wait", "release"}
             PROVE  children'[d].os # "none"
  BY DEF WatchersHold
<1>t. /\ handler \in Handlers /\ children \in [Cmds -> Children]
      /\ children[d] \in Children
  BY DEF TypeOK
<1>u. children'[d] = children[d] => children'[d].os # "none"
  BY DEF WatchersHold
<1>x. ASSUME children'[d] = Exited(children[d]), children[d].os = "running"
      PROVE  children'[d].os # "none"
  <2>1. children[d].watch # "orphan"
    BY <1>t, <1>x, ExitedFields DEF Fresh
  <2> QED
    BY <1>t, <1>x, <2>1, ExitedFields
<1>1. CASE UNCHANGED children
  BY <1>1, <1>u
<1>2. CASE StartResume \/ StartNew
  <2>1. CASE UNCHANGED children
    BY <2>1, <1>u
  <2>2. CASE \E c \in Cmds, next \in PCs : Spawn(c, next)
    <3>1. PICK c \in Cmds, next \in PCs : Spawn(c, next)
      BY <2>2
    <3>2. PICK p \in PIDs :
            children' = [children EXCEPT ![c] = Spawned(c, p)]
      BY <3>1 DEF Spawn, FreePIDs
    <3>3. Spawned(c, p).watch = "none"
      BY DEF Spawned, Fresh
    <3> QED
      BY <1>t, <1>u, <3>2, <3>3
  <2> QED
    <3>1. handler.pc = "start" => handler.cmd \in Cmds
      BY DEF HandlerOwns
    <3> QED
      BY <1>2, <2>1, <2>2, <3>1 DEF StartResume, StartNew, PCs, ResumePCs,
         StartPCs, FreeCmds
<1>3. CASE Acknowledge
  <2>1. handler.cmd \in Cmds /\ children[handler.cmd].os # "none"
    BY <1>3 DEF Acknowledge, HandlerOwns, Unwatched
  <2>2. children' = [children EXCEPT ![handler.cmd].watch = "wait"]
    BY <1>3 DEF Acknowledge
  <2>3. CASE d = handler.cmd
    <3>1. children'[d] = [children[d] EXCEPT !.watch = "wait"]
      BY <1>t, <2>2, <2>3
    <3> QED
      BY <1>t, <2>1, <2>3, <3>1 DEF Children
  <2> QED
    BY <1>t, <1>u, <2>2, <2>3
<1>4. CASE SigTerm
  <2>1. \/ children'[d] = children[d]
        \/ children'[d] = [children[d] EXCEPT !.killed = TRUE]
    BY <1>4, <1>t DEF SigTerm
  <2>2. children'[d].os = children[d].os /\ children'[d].watch = children[d].watch
    BY <1>t, <2>1 DEF Children
  <2> QED
    BY <2>2 DEF WatchersHold
<1>5. CASE SigKill
  <2>1. \/ children'[d] = children[d]
        \/ children[d].os = "running" /\ children'[d] = Exited(children[d])
    BY <1>5, <1>t DEF SigKill, Hit
  <2> QED
    BY <1>u, <1>x, <2>1
<1>6. ASSUME NEW c \in Cmds, ProcessExits(c) PROVE children'[d].os # "none"
  <2>1. \/ children'[d] = children[d]
        \/ children[d].os = "running" /\ children'[d] = Exited(children[d])
    BY <1>6, <1>t DEF ProcessExits
  <2> QED
    BY <1>u, <1>x, <2>1
<1>7. ASSUME NEW c \in Cmds, Reap(c) PROVE children'[d].os # "none"
  <2>1. \/ children'[d] = children[d]
        \/ children'[d] = [children[d] EXCEPT !.os = "reaped",
                                              !.watch = "release"]
    BY <1>7, <1>t DEF Reap
  <2>2. children'[d] = children[d] \/ children'[d].os = "reaped"
    BY <1>t, <2>1 DEF Children
  <2> QED
    BY <1>u, <2>2
<1>8. ASSUME NEW c \in Cmds,
             \/ ReleaseManaged(c) \/ ReleaseStarted(c) \/ ClearManaged(c)
             \/ Report(c) \/ SendFailure(c)
      PROVE  children'[d].os # "none"
  <2>1. \/ children'[d] = children[d]
        \/ children'[d].watch \in {"none", "clear", "report", "send"}
    <3>0. ASSUME NEW w \in {"report", "send"}, NEW b
          PROVE  /\ [children[d] EXCEPT !.watch = w].watch = w
                 /\ [children[d] EXCEPT !.watch = "clear", !.silent = b].watch
                       = "clear"
                 /\ Fresh.watch = "none"
      BY <1>t DEF Children, Fresh
    <3>1. CASE ReleaseManaged(c)
      BY <3>0, <3>1, <1>t DEF ReleaseManaged, Freed
    <3>2. CASE ReleaseStarted(c)
      BY <3>0, <3>2, <1>t DEF ReleaseStarted
    <3>3. CASE ClearManaged(c)
      BY <3>0, <3>3, <1>t DEF ClearManaged
    <3>4. CASE Report(c)
      BY <3>0, <3>4, <1>t DEF Report
    <3>5. CASE SendFailure(c)
      BY <3>0, <3>5, <1>t DEF SendFailure
    <3> QED
      BY <1>8, <3>1, <3>2, <3>3, <3>4, <3>5
  <2> QED
    BY <1>u, <2>1
<1>9. CASE Restart
  <2>1. \/ children'[d] = Fresh
        \/ children'[d] = [children[d] EXCEPT !.watch = "orphan"]
    BY <1>9 DEF Restart
  <2>2. children'[d].watch \in {"none", "orphan"}
    BY <1>t, <2>1 DEF Children, Fresh
  <2> QED
    BY <2>2
<1> QED
  <2>1. \/ UNCHANGED children
        \/ StartResume \/ StartNew \/ Acknowledge \/ SigTerm \/ SigKill
        \/ \E c \in Cmds : ProcessExits(c) \/ WatcherStep(c)
        \/ Restart
    BY DEF Next, Receive, HandlerStep, ObserverStep, ReceiveQuery,
       ReceiveResume, ReceiveStart, ReceiveCancel, ReserveResume,
       ResumeCommand, RegisterResume, WithdrawResume, ReleaseReservation,
       ActivateResume, ShowManaged, ReserveStart, StartCommand,
       ReleaseNewSession, AcknowledgeCancel, AdapterUpdate, AdapterRemove,
       ForwardUpdate, ForwardRemoval, ConsumeRegistration, Tick, vars,
       observerVars
  <2> QED
    BY <1>1, <1>2, <1>3, <1>4, <1>5, <1>6, <1>7, <1>8, <1>9, <2>1
       DEF WatcherStep

\* The fields of a handler that starts an operation.
LEMMA AtFields ==
  ASSUME NEW pc, NEW r, NEW t
  PROVE  /\ At(pc, r, t).pc = pc /\ At(pc, r, t).req = r
         /\ At(pc, r, t).target = t
         /\ Idle.pc = "idle"
BY DEF At, Idle

\* Every step keeps the ownership of reservations and children.
LEMMA OwnershipStep ==
  TypeOK /\ WatchersHold /\ Ownership /\ [Next]_vars => Ownership'
<1> SUFFICES ASSUME TypeOK, WatchersHold, Ownership, [Next]_vars
             PROVE  Ownership'
  OBVIOUS
<1> USE SetAssumption
<1>t. OwnTypes
  BY DEF OwnTypes, TypeOK
<1>u. ASSUME UNCHANGED <<handler, children, managed, starting, newStarting>>
      PROVE  Ownership'
  BY <1>u DEF Ownership, HandlerOwns, HoldersRecorded, ReservationsOwned,
              OneChildPerTarget, Holding
<1>1. ASSUME NEW r \in RequestIDs, ReceiveQuery(r) PROVE Ownership'
  BY <1>1, <1>u DEF ReceiveQuery
<1>2. ASSUME NEW r \in RequestIDs, NEW s \in Sessions, ReceiveResume(r, s) PROVE Ownership'
  <2>1. /\ handler.pc = "idle"
        /\ \/ handler'.pc = "idle"
           \/ /\ handler'.pc = "reserve" /\ handler'.req \in RequestIDs
              /\ handler'.target \in Sessions
    BY <1>2, AtFields DEF ReceiveResume, Claim
  <2>2. UNCHANGED <<children, managed, starting, newStarting>>
    BY <1>2 DEF ReceiveResume, Claim
  <2>3. HandlerOwns'
    BY <2>1, <2>2 DEF Ownership, HandlerOwns, Holding, ResumePCs, StartPCs,
       Reserving, NewReserving, Unwatched
  <2> QED
    BY <2>1, <2>2, <2>3, MoveStep DEF Reserving, NewReserving
<1>3. ASSUME NEW r \in RequestIDs, NEW d \in Dirs, ReceiveStart(r, d) PROVE Ownership'
  <2>1. /\ handler.pc = "idle"
        /\ \/ handler'.pc = "idle"
           \/ /\ handler'.pc = "newReserve" /\ handler'.req \in RequestIDs
              /\ handler'.target \in Dirs
    BY <1>3, AtFields DEF ReceiveStart, Claim
  <2>2. UNCHANGED <<children, managed, starting, newStarting>>
    BY <1>3 DEF ReceiveStart, Claim
  <2>3. HandlerOwns'
    BY <2>1, <2>2 DEF Ownership, HandlerOwns, Holding, ResumePCs, StartPCs,
       Reserving, NewReserving, Unwatched
  <2> QED
    BY <2>1, <2>2, <2>3, MoveStep DEF Reserving, NewReserving
<1>4. ASSUME NEW r \in RequestIDs, NEW s \in Sessions, ReceiveCancel(r, s) PROVE Ownership'
  <2>1. /\ handler.pc = "idle"
        /\ handler'.pc \in {"idle", "sigterm"}
    BY <1>4, <1>t DEF ReceiveCancel, Claim, At, Idle, OwnTypes, Handlers
  <2>2. UNCHANGED <<children, managed, starting, newStarting>>
    BY <1>4 DEF ReceiveCancel, Claim
  <2>3. HandlerOwns'
    BY <2>1, <2>2 DEF Ownership, HandlerOwns, Holding, ResumePCs, StartPCs,
       Reserving, NewReserving, Unwatched
  <2> QED
    BY <2>1, <2>2, <2>3, MoveStep DEF Reserving, NewReserving
<1>5. CASE ReserveResume
  <2>1. HandlerOwns'
    BY <1>t, <1>5 DEF ReserveResume, Idle, MayResume, OwnTypes, Ownership,
       Handlers, ResumePCs, StartPCs, Reserving, NewReserving, Unwatched,
       HandlerOwns, HoldersRecorded, ReservationsOwned, Holding
  <2>2. HoldersRecorded'
    BY <1>t, <1>5 DEF ReserveResume, Idle, MayResume, OwnTypes, Ownership,
       Handlers, HandlerOwns, HoldersRecorded, Holding, Unwatched, Reserving,
       NewReserving
  <2>3. ReservationsOwned'
    BY <1>t, <1>5 DEF ReserveResume, Idle, MayResume, OwnTypes, Ownership,
       Handlers, HandlerOwns, HoldersRecorded, ReservationsOwned, Holding,
       Unwatched, Reserving, NewReserving
  <2>4. OneChildPerTarget'
    BY <1>t, <1>5 DEF ReserveResume, Idle, MayResume, OwnTypes, Ownership,
       Handlers, HandlerOwns, HoldersRecorded, ReservationsOwned,
       OneChildPerTarget, Holding, Reserving, NewReserving
  <2> QED
    BY <2>1, <2>2, <2>3, <2>4 DEF Ownership
<1>6. CASE ResumeCommand
  <2>1. /\ handler.pc = "command"
        /\ handler'.pc \in {"register", "unreserve"}
        /\ handler'.target = handler.target /\ handler'.req = handler.req
    BY <1>6, <1>t DEF ResumeCommand, OwnTypes, Handlers
  <2>2. UNCHANGED <<children, managed, starting, newStarting>>
    BY <1>6 DEF ResumeCommand
  <2>3. HandlerOwns'
    BY <2>1, <2>2 DEF Ownership, HandlerOwns, Holding, ResumePCs, StartPCs,
       Reserving, NewReserving, Unwatched
  <2> QED
    BY <2>1, <2>2, <2>3, MoveStep DEF Reserving, NewReserving
<1>7. CASE RegisterResume
  <2>1. /\ handler.pc = "register"
        /\ handler'.pc = "start"
        /\ handler'.target = handler.target /\ handler'.req = handler.req
        /\ handler'.cmd \in Cmds /\ children[handler'.cmd] = Fresh
    BY <1>7, <1>t DEF RegisterResume, FreeCmds, OwnTypes, Handlers
  <2>2. UNCHANGED <<children, managed, starting, newStarting>>
    BY <1>7 DEF RegisterResume
  <2>3. HandlerOwns'
    BY <2>1, <2>2 DEF Ownership, HandlerOwns, Holding, ResumePCs, StartPCs,
       Reserving, NewReserving, Unwatched
  <2> QED
    BY <2>1, <2>2, <2>3, MoveStep DEF Reserving, NewReserving
<1>8. CASE StartResume
  <2>1. CASE Spawn(handler.cmd, "activate")
    <3>1. PICK p \in PIDs :
            /\ children' = [children EXCEPT ![handler.cmd] = Spawned(handler.cmd, p)]
            /\ handler' = [handler EXCEPT !.pc = "activate", !.cmd = handler.cmd,
                                           !.pid = p]
      BY <2>1 DEF Spawn, FreePIDs
    <3>2. /\ handler.pc = "start" /\ handler.cmd \in Cmds /\ children[handler.cmd] = Fresh
          /\ UNCHANGED <<managed, starting, newStarting>>
      BY <1>8, <2>1 DEF StartResume, FreeCmds, Ownership, HandlerOwns
    <3>3. /\ handler'.pc = "activate" /\ handler'.cmd = handler.cmd
          /\ handler'.target = handler.target /\ handler'.req = handler.req
      BY <3>1, <1>t DEF OwnTypes, Handlers
    <3>4. /\ children'[handler.cmd].os = "running" /\ children'[handler.cmd].watch = "none"
          /\ children'[handler.cmd].target = handler.target
      BY <3>1, <3>2, <1>t DEF OwnTypes, Spawned, Fresh
    <3>5. \A d \in Cmds \ {handler.cmd} : children'[d] = children[d]
      BY <3>1, <1>t DEF OwnTypes
    <3>6. ~Holding(handler.cmd)
      BY <3>2 DEF Holding, Fresh
    <3>7. HandlerOwns'
      BY <1>t, <3>2, <3>3, <3>4, <3>5, <3>6 DEF OwnTypes, Ownership,
         HandlerOwns, Holding, ResumePCs, StartPCs, Reserving, NewReserving,
         Unwatched
    <3>8. HoldersRecorded'
      BY <1>t, <3>2, <3>3, <3>4, <3>5, <3>6 DEF OwnTypes, Ownership,
         HandlerOwns, HoldersRecorded, Holding, ResumePCs, StartPCs,
         Reserving, NewReserving, Unwatched
    <3>9. ReservationsOwned'
      BY <1>t, <3>2, <3>3, <3>4, <3>5, <3>6 DEF OwnTypes, Ownership,
         HandlerOwns, ReservationsOwned, Holding, ResumePCs, StartPCs,
         Reserving, NewReserving, Unwatched
    <3>10. OneChildPerTarget'
      BY <1>t, <3>2, <3>3, <3>4, <3>5, <3>6 DEF OwnTypes, Ownership,
         HandlerOwns, HoldersRecorded, OneChildPerTarget, Holding, ResumePCs,
         StartPCs, Reserving, NewReserving, Unwatched
    <3> QED
      BY <3>7, <3>8, <3>9, <3>10 DEF Ownership
  <2>2. CASE handler' = [handler EXCEPT !.pc = "withdraw"] /\ UNCHANGED children
    <3>1. /\ handler.pc = "start" /\ handler'.pc = "withdraw"
          /\ handler'.target = handler.target /\ handler'.req = handler.req
          /\ handler'.cmd = handler.cmd
      BY <1>8, <2>2, <1>t DEF StartResume, OwnTypes, Handlers
    <3>2. UNCHANGED <<children, managed, starting, newStarting>>
      BY <1>8, <2>2 DEF StartResume
    <3>3. HandlerOwns'
      BY <3>1, <3>2 DEF Ownership, HandlerOwns, Holding, ResumePCs, StartPCs,
         Reserving, NewReserving, Unwatched
    <3> QED
      BY <3>1, <3>2, <3>3, MoveStep DEF Reserving, NewReserving
  <2> QED
    BY <1>8, <2>1, <2>2 DEF StartResume
<1>9. CASE WithdrawResume
  <2>1. /\ handler.pc = "withdraw"
        /\ handler'.pc = "unreserve"
        /\ handler'.target = handler.target /\ handler'.req = handler.req
    BY <1>9, <1>t DEF WithdrawResume, OwnTypes, Handlers
  <2>2. UNCHANGED <<children, managed, starting, newStarting>>
    BY <1>9 DEF WithdrawResume
  <2>3. HandlerOwns'
    BY <2>1, <2>2 DEF Ownership, HandlerOwns, Holding, ResumePCs, StartPCs,
       Reserving, NewReserving, Unwatched
  <2> QED
    BY <2>1, <2>2, <2>3, MoveStep DEF Reserving, NewReserving
<1>10. CASE ReleaseReservation
  <2>1. HandlerOwns'
    BY <1>t, <1>10 DEF ReleaseReservation, Idle, OwnTypes, Ownership,
       Handlers, ResumePCs, StartPCs, Reserving, NewReserving, Unwatched,
       HandlerOwns, HoldersRecorded, ReservationsOwned, Holding
  <2>2. HoldersRecorded'
    BY <1>t, <1>10 DEF ReleaseReservation, Idle, OwnTypes, Ownership,
       Handlers, HandlerOwns, HoldersRecorded, Holding, Unwatched, Reserving,
       NewReserving
  <2>3. ReservationsOwned'
    BY <1>t, <1>10 DEF ReleaseReservation, Idle, OwnTypes, Ownership,
       Handlers, HandlerOwns, HoldersRecorded, ReservationsOwned, Holding,
       Unwatched, Reserving, NewReserving
  <2>4. OneChildPerTarget'
    BY <1>t, <1>10 DEF ReleaseReservation, Idle, OwnTypes, Ownership,
       Handlers, HandlerOwns, HoldersRecorded, ReservationsOwned,
       OneChildPerTarget, Holding, Reserving, NewReserving
  <2> QED
    BY <2>1, <2>2, <2>3, <2>4 DEF Ownership
<1>11. CASE ActivateResume
  <2>1. HandlerOwns'
    BY <1>t, <1>11 DEF ActivateResume, OwnTypes, Ownership, Handlers,
       ResumePCs, StartPCs, Reserving, NewReserving, Unwatched, HandlerOwns,
       HoldersRecorded, ReservationsOwned, Holding
  <2>2. HoldersRecorded'
    BY <1>t, <1>11 DEF ActivateResume, OwnTypes, Ownership, Handlers,
       HandlerOwns, HoldersRecorded, Holding, Unwatched, Reserving,
       NewReserving
  <2>3. ReservationsOwned'
    BY <1>t, <1>11 DEF ActivateResume, OwnTypes, Ownership, Handlers,
       HandlerOwns, HoldersRecorded, ReservationsOwned, Holding, Unwatched,
       Reserving, NewReserving
  <2>4. OneChildPerTarget'
    BY <1>t, <1>11 DEF ActivateResume, OwnTypes, Ownership, Handlers,
       HandlerOwns, HoldersRecorded, ReservationsOwned, OneChildPerTarget,
       Holding, Reserving, NewReserving
  <2> QED
    BY <2>1, <2>2, <2>3, <2>4 DEF Ownership
<1>12. CASE ShowManaged
  <2>1. /\ handler.pc = "show"
        /\ handler'.pc = "ack"
        /\ handler'.target = handler.target /\ handler'.req = handler.req
        /\ handler'.cmd = handler.cmd
    BY <1>12, <1>t DEF ShowManaged, OwnTypes, Handlers
  <2>2. UNCHANGED <<children, managed, starting, newStarting>>
    BY <1>12 DEF ShowManaged
  <2>3. HandlerOwns'
    BY <2>1, <2>2 DEF Ownership, HandlerOwns, Holding, ResumePCs, StartPCs,
       Reserving, NewReserving, Unwatched
  <2> QED
    BY <2>1, <2>2, <2>3, MoveStep DEF Reserving, NewReserving
<1>13. CASE Acknowledge
  <2>1. /\ handler.pc \in {"ack", "newAck"} /\ handler'.pc = "idle"
        /\ UNCHANGED <<managed, starting, newStarting>>
    BY <1>13, AtFields DEF Acknowledge
  <2>2. ASSUME NEW d \in Cmds
        PROVE  /\ (Holding(d)' <=> Holding(d))
               /\ children'[d].target = children[d].target
    BY <1>13, <1>t, <2>1 DEF Acknowledge, OwnTypes, Children, Ownership,
       HandlerOwns, Unwatched, Holding
  <2>3. HandlerOwns'
    BY <1>t, <2>1, <2>2 DEF OwnTypes, Ownership, Holding, HandlerOwns,
       ReservationsOwned, ResumePCs, StartPCs, Reserving, NewReserving,
       Unwatched
  <2>4. HoldersRecorded'
    BY <1>t, <2>1, <2>2 DEF OwnTypes, Ownership, Holding, HandlerOwns,
       HoldersRecorded, ResumePCs, StartPCs, Reserving, NewReserving,
       Unwatched
  <2>5. ReservationsOwned'
    BY <1>t, <2>1, <2>2 DEF OwnTypes, Ownership, Holding, HandlerOwns,
       HoldersRecorded, ReservationsOwned, ResumePCs, StartPCs, Reserving,
       NewReserving, Unwatched
  <2>6. OneChildPerTarget'
    BY <1>t, <2>1, <2>2 DEF OwnTypes, Ownership, Holding, OneChildPerTarget
  <2> QED
    BY <2>3, <2>4, <2>5, <2>6 DEF Ownership
<1>14. CASE ReserveStart
  <2>1. HandlerOwns'
    BY <1>t, <1>14 DEF ReserveStart, Idle, MayStart, OwnTypes, Ownership,
       Handlers, ResumePCs, StartPCs, Reserving, NewReserving, Unwatched,
       HandlerOwns, HoldersRecorded, ReservationsOwned, Holding
  <2>2. HoldersRecorded'
    BY <1>t, <1>14 DEF ReserveStart, Idle, MayStart, OwnTypes, Ownership,
       Handlers, HandlerOwns, HoldersRecorded, Holding, Unwatched, Reserving,
       NewReserving
  <2>3. ReservationsOwned'
    BY <1>t, <1>14 DEF ReserveStart, Idle, MayStart, OwnTypes, Ownership,
       Handlers, HandlerOwns, HoldersRecorded, ReservationsOwned, Holding,
       Unwatched, Reserving, NewReserving
  <2>4. OneChildPerTarget'
    BY <1>t, <1>14 DEF ReserveStart, Idle, MayStart, OwnTypes, Ownership,
       Handlers, HandlerOwns, HoldersRecorded, ReservationsOwned,
       OneChildPerTarget, Holding, Reserving, NewReserving
  <2> QED
    BY <2>1, <2>2, <2>3, <2>4 DEF Ownership
<1>15. CASE StartCommand
  <2>1. /\ handler.pc = "newCommand"
        /\ handler'.pc \in {"newStart", "newRelease"}
        /\ handler'.target = handler.target /\ handler'.req = handler.req
    BY <1>15, <1>t DEF StartCommand, OwnTypes, Handlers
  <2>2. UNCHANGED <<children, managed, starting, newStarting>>
    BY <1>15 DEF StartCommand
  <2>3. HandlerOwns'
    BY <2>1, <2>2 DEF Ownership, HandlerOwns, Holding, ResumePCs, StartPCs,
       Reserving, NewReserving, Unwatched
  <2> QED
    BY <2>1, <2>2, <2>3, MoveStep DEF Reserving, NewReserving
<1>16. CASE StartNew
  <2>1. ASSUME NEW c \in FreeCmds, Spawn(c, "newAck") PROVE Ownership'
    <3>1. PICK p \in PIDs :
            /\ children' = [children EXCEPT ![c] = Spawned(c, p)]
            /\ handler' = [handler EXCEPT !.pc = "newAck", !.cmd = c,
                                           !.pid = p]
      BY <2>1 DEF Spawn, FreePIDs
    <3>2. /\ handler.pc = "newStart" /\ c \in Cmds /\ children[c] = Fresh
          /\ UNCHANGED <<managed, starting, newStarting>>
      BY <1>16, <2>1 DEF StartNew, FreeCmds, Ownership, HandlerOwns
    <3>3. /\ handler'.pc = "newAck" /\ handler'.cmd = c
          /\ handler'.target = handler.target /\ handler'.req = handler.req
      BY <3>1, <1>t DEF OwnTypes, Handlers
    <3>4. /\ children'[c].os = "running" /\ children'[c].watch = "none"
          /\ children'[c].target = handler.target
      BY <3>1, <3>2, <1>t DEF OwnTypes, Spawned, Fresh
    <3>5. \A d \in Cmds \ {c} : children'[d] = children[d]
      BY <3>1, <1>t DEF OwnTypes
    <3>6. ~Holding(c)
      BY <3>2 DEF Holding, Fresh
    <3>7. HandlerOwns'
      BY <1>t, <3>2, <3>3, <3>4, <3>5, <3>6 DEF OwnTypes, Ownership,
         HandlerOwns, Holding, ResumePCs, StartPCs, Reserving, NewReserving,
         Unwatched
    <3>8. HoldersRecorded'
      BY <1>t, <3>2, <3>3, <3>4, <3>5, <3>6 DEF OwnTypes, Ownership,
         HandlerOwns, HoldersRecorded, Holding, ResumePCs, StartPCs,
         Reserving, NewReserving, Unwatched
    <3>9. ReservationsOwned'
      BY <1>t, <3>2, <3>3, <3>4, <3>5, <3>6 DEF OwnTypes, Ownership,
         HandlerOwns, ReservationsOwned, Holding, ResumePCs, StartPCs,
         Reserving, NewReserving, Unwatched
    <3>10. OneChildPerTarget'
      BY <1>t, <3>2, <3>3, <3>4, <3>5, <3>6 DEF OwnTypes, Ownership,
         HandlerOwns, HoldersRecorded, OneChildPerTarget, Holding, ResumePCs,
         StartPCs, Reserving, NewReserving, Unwatched
    <3> QED
      BY <3>7, <3>8, <3>9, <3>10 DEF Ownership
  <2>2. CASE handler' = [handler EXCEPT !.pc = "newRelease"] /\ UNCHANGED children
    <3>1. /\ handler.pc = "newStart" /\ handler'.pc = "newRelease"
          /\ handler'.target = handler.target /\ handler'.req = handler.req
          /\ handler'.cmd = handler.cmd
      BY <1>16, <2>2, <1>t DEF StartNew, OwnTypes, Handlers
    <3>2. UNCHANGED <<children, managed, starting, newStarting>>
      BY <1>16, <2>2 DEF StartNew
    <3>3. HandlerOwns'
      BY <3>1, <3>2 DEF Ownership, HandlerOwns, Holding, ResumePCs, StartPCs,
         Reserving, NewReserving, Unwatched
    <3> QED
      BY <3>1, <3>2, <3>3, MoveStep DEF Reserving, NewReserving
  <2> QED
    BY <1>16, <2>1, <2>2 DEF StartNew
<1>17. CASE ReleaseNewSession
  <2>1. HandlerOwns'
    BY <1>t, <1>17 DEF ReleaseNewSession, Idle, OwnTypes, Ownership, Handlers,
       ResumePCs, StartPCs, Reserving, NewReserving, Unwatched, HandlerOwns,
       HoldersRecorded, ReservationsOwned, Holding
  <2>2. HoldersRecorded'
    BY <1>t, <1>17 DEF ReleaseNewSession, Idle, OwnTypes, Ownership, Handlers,
       HandlerOwns, HoldersRecorded, Holding, Unwatched, Reserving,
       NewReserving
  <2>3. ReservationsOwned'
    BY <1>t, <1>17 DEF ReleaseNewSession, Idle, OwnTypes, Ownership, Handlers,
       HandlerOwns, HoldersRecorded, ReservationsOwned, Holding, Unwatched,
       Reserving, NewReserving
  <2>4. OneChildPerTarget'
    BY <1>t, <1>17 DEF ReleaseNewSession, Idle, OwnTypes, Ownership, Handlers,
       HandlerOwns, HoldersRecorded, ReservationsOwned, OneChildPerTarget,
       Holding, Reserving, NewReserving
  <2> QED
    BY <2>1, <2>2, <2>3, <2>4 DEF Ownership
<1>18. CASE SigTerm
  <2>1. ASSUME NEW d \in Cmds
        PROVE  \/ children'[d] = children[d]
               \/ /\ children[d].os = "running"
                  /\ children'[d] = [children[d] EXCEPT !.killed = TRUE]
    BY <1>18, <1>t DEF SigTerm, OwnTypes, Hit
  <2>2. SameHolders
    <3> SUFFICES ASSUME NEW d \in Cmds PROVE SameHolder(d)
      BY DEF SameHolders
    <3>1. children[d] \in Children
      BY <1>t DEF OwnTypes
    <3>2. CASE children'[d] = children[d]
      BY <3>2 DEF SameHolder, Holding
    <3>3. CASE children'[d] # children[d]
      <4>1. /\ children[d].os # "none" /\ children'[d].os = children[d].os
            /\ children'[d].watch = children[d].watch
            /\ children'[d].target = children[d].target
        BY <3>1, <3>3, <2>1 DEF Children, Exited, Fresh
      <4> QED
        BY <4>1 DEF SameHolder, Holding, Fresh
    <3> QED
      BY <3>2, <3>3
  <2>3. handler.pc \in CancelPCs /\ handler'.pc \in {"idle"} \cup CancelPCs
    BY <1>18, <1>t DEF SigTerm, Idle, CancelPCs, OwnTypes, Handlers
  <2>4. UNCHANGED <<managed, starting, newStarting>>
    BY <1>18 DEF SigTerm
  <2> QED
    BY <1>t, <2>2, <2>3, <2>4, QuietStep DEF OwnTypes
<1>19. CASE SigKill
  <2>1. ASSUME NEW d \in Cmds
        PROVE  \/ children'[d] = children[d]
               \/ /\ children[d].os = "running"
                  /\ children'[d] = Exited(children[d])
    BY <1>19, <1>t DEF SigKill, Hit, OwnTypes
  <2>2. SameHolders
    <3> SUFFICES ASSUME NEW d \in Cmds PROVE SameHolder(d)
      BY DEF SameHolders
    <3>1. children[d] \in Children
      BY <1>t DEF OwnTypes
    <3>2. CASE children'[d] = children[d]
      BY <3>2 DEF SameHolder, Holding
    <3>3. CASE children'[d] # children[d]
      <4>1. /\ children[d].os = "running"
            /\ \/ /\ children[d].watch = "orphan"
                  /\ children'[d].os = "none"
               \/ /\ children'[d].os = "zombie"
                  /\ children'[d].watch = children[d].watch
                  /\ children'[d].target = children[d].target
        BY <3>1, <3>3, <2>1, ExitedFields
      <4> QED
        BY <4>1 DEF SameHolder, Holding, Fresh
    <3> QED
      BY <3>2, <3>3
  <2>3. handler.pc \in CancelPCs /\ handler'.pc \in {"idle"} \cup CancelPCs
    BY <1>19, <1>t DEF SigKill, Idle, CancelPCs, OwnTypes, Handlers
  <2>4. UNCHANGED <<managed, starting, newStarting>>
    BY <1>19 DEF SigKill
  <2> QED
    BY <1>t, <2>2, <2>3, <2>4, QuietStep DEF OwnTypes
<1>20. CASE AcknowledgeCancel
  <2>1. handler.pc = "cancelAck" /\ handler'.pc = "idle"
    BY <1>20, <1>t DEF AcknowledgeCancel, Idle, OwnTypes, Handlers
  <2>2. UNCHANGED <<children, managed, starting, newStarting>>
    BY <1>20 DEF AcknowledgeCancel
  <2>3. HandlerOwns'
    BY <2>1, <2>2 DEF Ownership, HandlerOwns, Holding, ResumePCs, StartPCs,
       Reserving, NewReserving, Unwatched
  <2> QED
    BY <2>1, <2>2, <2>3, MoveStep DEF Reserving, NewReserving
<1>21. ASSUME NEW c \in Cmds, Reap(c) PROVE Ownership'
  <2>1. ASSUME NEW d \in Cmds
        PROVE  \/ children'[d] = children[d]
               \/ /\ children[d].watch = "wait" /\ children[d].os = "zombie"
                  /\ children'[d] = [children[d] EXCEPT !.os = "reaped",
                                                        !.watch = "release"]
    BY <1>21, <1>t DEF Reap, OwnTypes
  <2>2. SameHolders
    <3> SUFFICES ASSUME NEW d \in Cmds PROVE SameHolder(d)
      BY DEF SameHolders
    <3>1. children[d] \in Children
      BY <1>t DEF OwnTypes
    <3>2. CASE children'[d] = children[d]
      BY <3>2 DEF SameHolder, Holding
    <3>3. CASE children'[d] # children[d]
      <4>1. /\ children[d].watch = "wait" /\ children[d].os = "zombie"
            /\ children'[d].watch = "release" /\ children'[d].os = "reaped"
            /\ children'[d].target = children[d].target
        BY <3>1, <3>3, <2>1 DEF Children, Exited, Fresh
      <4> QED
        BY <4>1 DEF SameHolder, Holding, Fresh
    <3> QED
      BY <3>2, <3>3
  <2>3. UNCHANGED handler
    BY <1>21, <1>t DEF Reap
  <2>4. UNCHANGED <<managed, starting, newStarting>>
    BY <1>21 DEF Reap
  <2> QED
    BY <1>t, <2>2, <2>3, <2>4, QuietStep DEF OwnTypes
<1>22. ASSUME NEW c \in Cmds, ReleaseManaged(c) PROVE Ownership'
  <2>1. /\ children[c].watch = "release" /\ children[c].target \in Sessions
        /\ managed' = [managed EXCEPT ![children[c].target] = None]
        /\ UNCHANGED <<handler, starting, newStarting>>
    BY <1>22 DEF ReleaseManaged, Freed
  <2>2. ASSUME NEW d \in Cmds \ {c} PROVE children'[d] = children[d]
    BY <1>22, <1>t DEF ReleaseManaged, Freed, OwnTypes
  <2>3. children'[c].watch = "clear" /\ ~Holding(c)'
    BY <1>22, <1>t DEF ReleaseManaged, Freed, OwnTypes, Children, Holding
  <2>4. Holding(c) /\ managed[children[c].target] = c
    BY <1>t, <2>1 DEF OwnTypes, Ownership, HoldersRecorded, HandlerOwns,
       Holding, WatchersHold, Unwatched, SetAssumption
  <2>5. children[c] # Fresh
    BY <2>1 DEF Fresh
  <2>6. HandlerOwns'
    <3>1. handler.pc \in NewReserving => handler.target # children[c].target
      BY <2>4 DEF Ownership, HandlerOwns
    <3>2. \A d \in Cmds : Holding(d)' =>
             Holding(d) /\ children'[d].target = children[d].target
      BY <2>2, <2>3 DEF Holding
    <3>3. handler.pc \in Unwatched => handler.cmd # c
      BY <2>1 DEF Ownership, HandlerOwns
    <3>4. handler.pc = "start" => handler.cmd # c
      BY <2>5 DEF Ownership, HandlerOwns
    <3> QED
      BY <2>1, <2>2, <3>1, <3>2, <3>3, <3>4 DEF Ownership, HandlerOwns
  <2>7. HoldersRecorded'
    <3> SUFFICES ASSUME NEW d \in Cmds, Holding(d)'
                 PROVE  \/ /\ children'[d].target \in Sessions
                           /\ \/ managed'[children'[d].target] = d
                              \/ handler'.pc = "activate" /\ handler'.cmd = d
                        \/ children'[d].target \in newStarting'
      BY DEF HoldersRecorded
    <3>1. d # c /\ children'[d] = children[d]
      BY <2>2, <2>3
    <3>2. Holding(d)
      BY <3>1 DEF Holding
    <3>3. children[d].target # children[c].target
      BY <2>4, <3>1, <3>2 DEF Ownership, OneChildPerTarget
    <3> QED
      BY <2>1, <3>1, <3>2, <3>3 DEF Ownership, HoldersRecorded
  <2>8. ReservationsOwned'
    BY <1>t, <2>1, <2>2, <2>3, <2>4, <2>5 DEF OwnTypes, Ownership, Holding,
       HandlerOwns, HoldersRecorded, ReservationsOwned, ResumePCs, StartPCs,
       Reserving, NewReserving, Unwatched
  <2>9. OneChildPerTarget'
    BY <1>t, <2>1, <2>2, <2>3, <2>4, <2>5 DEF OwnTypes, Ownership, Holding,
       OneChildPerTarget
  <2> QED
    BY <2>6, <2>7, <2>8, <2>9 DEF Ownership
<1>23. ASSUME NEW c \in Cmds, ReleaseStarted(c) PROVE Ownership'
  <2>1. /\ children[c].watch = "release" /\ children[c].target \in Dirs
        /\ newStarting' = newStarting \ {children[c].target}
        /\ UNCHANGED <<handler, managed, starting>>
    BY <1>23 DEF ReleaseStarted
  <2>2. ASSUME NEW d \in Cmds \ {c} PROVE children'[d] = children[d]
    BY <1>23, <1>t DEF ReleaseStarted, OwnTypes
  <2>3. children'[c].watch = "report" /\ ~Holding(c)'
    BY <1>23, <1>t DEF ReleaseStarted, OwnTypes, Children, Holding
  <2>4. Holding(c)
    BY <2>1 DEF Holding, WatchersHold
  <2>5. children[c] # Fresh
    BY <2>1 DEF Fresh
  <2>6. HandlerOwns'
    BY <1>t, <2>1, <2>2, <2>3, <2>4, <2>5 DEF OwnTypes, Ownership, Holding,
       HandlerOwns, ReservationsOwned, ResumePCs, StartPCs, Reserving,
       NewReserving, Unwatched
  <2>7. HoldersRecorded'
    <3> SUFFICES ASSUME NEW d \in Cmds, Holding(d)'
                 PROVE  \/ /\ children'[d].target \in Sessions
                           /\ \/ managed'[children'[d].target] = d
                              \/ handler'.pc = "activate" /\ handler'.cmd = d
                        \/ children'[d].target \in newStarting'
      BY DEF HoldersRecorded
    <3>1. d # c /\ children'[d] = children[d]
      BY <2>2, <2>3
    <3>2. Holding(d)
      BY <3>1 DEF Holding
    <3>3. children[d].target # children[c].target
      BY <2>4, <3>1, <3>2 DEF Ownership, OneChildPerTarget
    <3> QED
      BY <2>1, <3>1, <3>2, <3>3 DEF Ownership, HoldersRecorded
  <2>8. ReservationsOwned'
    BY <1>t, <2>1, <2>2, <2>3, <2>4, <2>5 DEF OwnTypes, Ownership, Holding,
       HandlerOwns, HoldersRecorded, ReservationsOwned, ResumePCs, StartPCs,
       Reserving, NewReserving, Unwatched
  <2>9. OneChildPerTarget'
    BY <1>t, <2>1, <2>2, <2>3, <2>4, <2>5 DEF OwnTypes, Ownership, Holding,
       OneChildPerTarget
  <2> QED
    BY <2>6, <2>7, <2>8, <2>9 DEF Ownership
<1>24. ASSUME NEW c \in Cmds, ClearManaged(c) PROVE Ownership'
  <2>1. ASSUME NEW d \in Cmds
        PROVE  \/ children'[d] = children[d]
               \/ /\ children[d].watch = "clear"
                  /\ children'[d] = [children[d] EXCEPT !.watch = "report"]
    BY <1>24, <1>t DEF ClearManaged, OwnTypes
  <2>2. SameHolders
    <3> SUFFICES ASSUME NEW d \in Cmds PROVE SameHolder(d)
      BY DEF SameHolders
    <3>1. children[d] \in Children
      BY <1>t DEF OwnTypes
    <3>2. CASE children'[d] = children[d]
      BY <3>2 DEF SameHolder, Holding
    <3>3. CASE children'[d] # children[d]
      <4>1. /\ children[d].watch = "clear" /\ children'[d].watch = "report"
            /\ children'[d].os = children[d].os
        BY <3>1, <3>3, <2>1 DEF Children, Exited, Fresh
      <4> QED
        BY <4>1 DEF SameHolder, Holding, Fresh
    <3> QED
      BY <3>2, <3>3
  <2>3. UNCHANGED handler
    BY <1>24, <1>t DEF ClearManaged
  <2>4. UNCHANGED <<managed, starting, newStarting>>
    BY <1>24 DEF ClearManaged
  <2> QED
    BY <1>t, <2>2, <2>3, <2>4, QuietStep DEF OwnTypes
<1>25. ASSUME NEW c \in Cmds, Report(c) PROVE Ownership'
  <2>1. ASSUME NEW d \in Cmds
        PROVE  \/ children'[d] = children[d]
               \/ /\ children[d].watch = "report"
                  /\ children'[d] \in {Fresh, [children[d] EXCEPT !.watch = "send"]}
    BY <1>25, <1>t DEF Report, OwnTypes
  <2>2. SameHolders
    <3> SUFFICES ASSUME NEW d \in Cmds PROVE SameHolder(d)
      BY DEF SameHolders
    <3>1. children[d] \in Children
      BY <1>t DEF OwnTypes
    <3>2. CASE children'[d] = children[d]
      BY <3>2 DEF SameHolder, Holding
    <3>3. CASE children'[d] # children[d]
      <4>1. /\ children[d].watch = "report"
            /\ children'[d].os = "none" \/ children'[d].watch = "send"
        BY <3>1, <3>3, <2>1 DEF Children, Exited, Fresh
      <4> QED
        BY <4>1 DEF SameHolder, Holding, Fresh
    <3> QED
      BY <3>2, <3>3
  <2>3. UNCHANGED handler
    BY <1>25, <1>t DEF Report
  <2>4. UNCHANGED <<managed, starting, newStarting>>
    BY <1>25 DEF Report
  <2> QED
    BY <1>t, <2>2, <2>3, <2>4, QuietStep DEF OwnTypes
<1>26. ASSUME NEW c \in Cmds, SendFailure(c) PROVE Ownership'
  <2>1. ASSUME NEW d \in Cmds
        PROVE  \/ children'[d] = children[d]
               \/ children[d].watch = "send" /\ children'[d] = Fresh
    BY <1>26, <1>t DEF SendFailure, OwnTypes
  <2>2. SameHolders
    <3> SUFFICES ASSUME NEW d \in Cmds PROVE SameHolder(d)
      BY DEF SameHolders
    <3>1. children[d] \in Children
      BY <1>t DEF OwnTypes
    <3>2. CASE children'[d] = children[d]
      BY <3>2 DEF SameHolder, Holding
    <3>3. CASE children'[d] # children[d]
      <4>1. children[d].watch = "send" /\ children'[d].os = "none"
        BY <3>1, <3>3, <2>1 DEF Children, Exited, Fresh
      <4> QED
        BY <4>1 DEF SameHolder, Holding, Fresh
    <3> QED
      BY <3>2, <3>3
  <2>3. UNCHANGED handler
    BY <1>26, <1>t DEF SendFailure
  <2>4. UNCHANGED <<managed, starting, newStarting>>
    BY <1>26 DEF SendFailure
  <2> QED
    BY <1>t, <2>2, <2>3, <2>4, QuietStep DEF OwnTypes
<1>27. ASSUME NEW c \in Cmds, ProcessExits(c) PROVE Ownership'
  <2>1. ASSUME NEW d \in Cmds
        PROVE  \/ children'[d] = children[d]
               \/ /\ children[d].os = "running"
                  /\ children'[d] = Exited(children[d])
    BY <1>27, <1>t DEF ProcessExits, OwnTypes
  <2>2. SameHolders
    <3> SUFFICES ASSUME NEW d \in Cmds PROVE SameHolder(d)
      BY DEF SameHolders
    <3>1. children[d] \in Children
      BY <1>t DEF OwnTypes
    <3>2. CASE children'[d] = children[d]
      BY <3>2 DEF SameHolder, Holding
    <3>3. CASE children'[d] # children[d]
      <4>1. /\ children[d].os = "running"
            /\ \/ /\ children[d].watch = "orphan"
                  /\ children'[d].os = "none"
               \/ /\ children'[d].os = "zombie"
                  /\ children'[d].watch = children[d].watch
                  /\ children'[d].target = children[d].target
        BY <3>1, <3>3, <2>1, ExitedFields
      <4> QED
        BY <4>1 DEF SameHolder, Holding, Fresh
    <3> QED
      BY <3>2, <3>3
  <2>3. UNCHANGED handler
    BY <1>27, <1>t DEF ProcessExits
  <2>4. UNCHANGED <<managed, starting, newStarting>>
    BY <1>27 DEF ProcessExits
  <2> QED
    BY <1>t, <2>2, <2>3, <2>4, QuietStep DEF OwnTypes
<1>28. ASSUME NEW s \in Sessions, AdapterUpdate(s) PROVE Ownership'
  BY <1>28, <1>u DEF AdapterUpdate
<1>29. ASSUME NEW s \in Sessions, AdapterRemove(s) PROVE Ownership'
  BY <1>29, <1>u DEF AdapterRemove
<1>30. ASSUME NEW s \in Sessions, ForwardUpdate(s) PROVE Ownership'
  BY <1>30, <1>u DEF ForwardUpdate
<1>31. ASSUME NEW s \in Sessions, ForwardRemoval(s) PROVE Ownership'
  BY <1>31, <1>u DEF ForwardRemoval
<1>32. ASSUME NEW c \in Cmds, ConsumeRegistration(c) PROVE Ownership'
  BY <1>32, <1>u DEF ConsumeRegistration
<1>33. CASE Tick
  BY <1>33, <1>u DEF Tick
<1>34. CASE Restart
  <2>1. HandlerOwns'
    BY <1>t, <1>34 DEF Restart, Idle, Fresh, OwnTypes, Ownership, Handlers,
       ResumePCs, StartPCs, Reserving, NewReserving, Unwatched, HandlerOwns,
       HoldersRecorded, ReservationsOwned, Holding
  <2>2. HoldersRecorded'
    BY <1>t, <1>34 DEF Restart, Idle, Fresh, OwnTypes, Ownership, Handlers,
       HandlerOwns, HoldersRecorded, Holding, Unwatched, Reserving,
       NewReserving
  <2>3. ReservationsOwned'
    BY <1>t, <1>34 DEF Restart, Idle, Fresh, OwnTypes, Ownership, Handlers,
       HandlerOwns, HoldersRecorded, ReservationsOwned, Holding, Unwatched,
       Reserving, NewReserving
  <2>4. OneChildPerTarget'
    BY <1>t, <1>34 DEF Restart, Idle, Fresh, OwnTypes, Ownership, Handlers,
       HandlerOwns, HoldersRecorded, ReservationsOwned, OneChildPerTarget,
       Holding, Reserving, NewReserving
  <2> QED
    BY <2>1, <2>2, <2>3, <2>4 DEF Ownership
<1>35. CASE UNCHANGED vars
  BY <1>35, <1>u DEF vars
<1> QED
  BY <1>1, <1>2, <1>3, <1>4, <1>5, <1>6, <1>7, <1>8, <1>9, <1>10, <1>11,
     <1>12, <1>13, <1>14, <1>15, <1>16, <1>17, <1>18, <1>19, <1>20, <1>21,
     <1>22, <1>23, <1>24, <1>25, <1>26, <1>27, <1>28, <1>29, <1>30, <1>31,
     <1>32, <1>33, <1>34, <1>35 DEF Next, Receive, HandlerStep, WatcherStep,
     ObserverStep

-----------------------------------------------------------------------------
\* The ownership invariant holds in every state of every behaviour.
THEOREM Invariance == Spec => []RelayInv
<1>1. RelayInv /\ [Next]_vars => RelayInv'
  BY TypeStep, WatchersStep, OwnershipStep DEF RelayInv, Ownership
<1> QED
  BY <1>1, InitInv, PTL DEF Spec

\* relay.go: requests, reservations, cooldowns, the handler's locals and the
\* children keep their types, whatever browsers, processes and files do.
THEOREM TypeCorrect == Spec => []TypeOK
<1>1. RelayInv => TypeOK
  BY DEF RelayInv
<1> QED
  BY <1>1, Invariance, PTL

\* reserveResume and reserveNewSession with their releases: no two children of
\* the Connector ever work on one session or start in one directory.
THEOREM OneChild == Spec => []OneChildPerTarget
<1>1. RelayInv => OneChildPerTarget
  BY DEF RelayInv
<1> QED
  BY <1>1, Invariance, PTL

\* Every early return of handleResume and handleStart, every end of a child
\* and every restart gives its reservation back: none is left without owner.
THEOREM NoLeak == Spec => []ReservationsOwned
<1>1. RelayInv => ReservationsOwned
  BY DEF RelayInv
<1> QED
  BY <1>1, Invariance, PTL

HIDE DEF Targets
USE DEF observerVars

-----------------------------------------------------------------------------
(* Redelivered requests.                                                   *)

\* The positions of a handler that may still fork.
MayFork == {"reserve", "command", "register", "start",
            "newReserve", "newCommand", "newStart"}

\* A request id that is not remembered has no child to its account, and one
\* whose handler may still fork is remembered and has none either: time does
\* not pass for a handler at these positions.
ForkInv ==
    /\ \A r \in RequestIDs : /\ spawns[r] <= 1
                             /\ requests[r] = 0 => spawns[r] = 0
    /\ handler.pc \in MayFork =>
          requests[handler.req] > 0 /\ spawns[handler.req] = 0

\* A step that forks nothing and claims nothing does not bring the handler
\* to a position from which it may fork.
LEMMA ForkQuiet ==
  ASSUME ForkInv, UNCHANGED <<requests, spawns>>,
         handler'.pc \in MayFork =>
            handler.pc \in MayFork /\ handler'.req = handler.req
  PROVE  ForkInv'
BY DEF ForkInv

\* Every step keeps the account of forks.
LEMMA ForkStep == RelayInv /\ ForkInv /\ [Next]_vars => ForkInv'
<1> SUFFICES ASSUME RelayInv, ForkInv, [Next]_vars PROVE ForkInv'
  OBVIOUS
<1> USE SetAssumption, BoundAssumption
<1>t. /\ handler \in Handlers /\ spawns \in [RequestIDs -> Nat]
      /\ requests \in [RequestIDs -> 0 .. RequestTTL + 1]
      /\ handler.pc \in MayFork => handler.req \in RequestIDs
  BY DEF RelayInv, TypeOK, HandlerOwns, MayFork, ResumePCs, StartPCs
<1>1. ASSUME NEW r \in RequestIDs, Claim(r), UNCHANGED spawns,
             handler'.pc \in MayFork => handler'.req = r
      PROVE  ForkInv'
  <2>1. requests[r] = 0 /\ requests' = [requests EXCEPT ![r] = RequestTTL + 1]
        /\ handler.pc = "idle"
    BY <1>1 DEF Claim, CanClaim
  <2>2. requests'[r] > 0 /\ spawns'[r] = 0
    BY <1>1, <1>t, <2>1 DEF ForkInv
  <2> QED
    BY <1>1, <1>t, <2>1, <2>2 DEF ForkInv
<1>2. CASE Receive
  <2>0. Idle.pc \notin MayFork
    BY DEF Idle, MayFork
  <2>1. ASSUME NEW r \in RequestIDs, ReceiveQuery(r) PROVE ForkInv'
    BY <2>1, <1>1 DEF ReceiveQuery, Claim, MayFork
  <2>2. ASSUME NEW r \in RequestIDs, NEW s \in Sessions, ReceiveResume(r, s)
        PROVE  ForkInv'
    BY <2>0, <2>2, <1>1, AtFields DEF ReceiveResume
  <2>3. ASSUME NEW r \in RequestIDs, NEW d \in Dirs, ReceiveStart(r, d)
        PROVE  ForkInv'
    BY <2>0, <2>3, <1>1, AtFields DEF ReceiveStart
  <2>4. ASSUME NEW r \in RequestIDs, NEW s \in Sessions, ReceiveCancel(r, s)
        PROVE  ForkInv'
    <3>1. handler'.pc \in {"idle", "sigterm"}
      BY <2>4 DEF ReceiveCancel, Claim, At, Idle
    <3> QED
      BY <2>4, <3>1, <1>1 DEF ReceiveCancel, MayFork
  <2> QED
    BY <1>2, <2>1, <2>2, <2>3, <2>4 DEF Receive
<1>3. CASE StartResume \/ StartNew
  <2>1. ASSUME NEW c, NEW next \in {"activate", "newAck"}, Spawn(c, next),
               handler.pc \in MayFork, UNCHANGED requests
        PROVE  ForkInv'
    <3>1. PICK p \in PIDs :
            /\ spawns' = [spawns EXCEPT ![handler.req] = @ + 1]
            /\ handler' = [handler EXCEPT !.pc = next, !.cmd = c, !.pid = p]
      BY <2>1 DEF Spawn, FreePIDs
    <3>2. handler'.pc = next
      BY <1>t, <3>1 DEF Handlers
    <3>3. requests[handler.req] > 0 /\ spawns[handler.req] = 0
      BY <2>1 DEF ForkInv
    <3>4. \A r \in RequestIDs :
            spawns'[r] = IF r = handler.req THEN 1 ELSE spawns[r]
      BY <1>t, <3>1, <3>3
    <3> QED
      BY <2>1, <3>2, <3>3, <3>4 DEF ForkInv, MayFork
  <2>2. ASSUME UNCHANGED <<requests, spawns>>,
               \E next \in {"withdraw", "newRelease"} :
                  handler' = [handler EXCEPT !.pc = next]
        PROVE  ForkInv'
    <3>1. handler'.pc \notin MayFork
      BY <2>2, <1>t DEF Handlers, MayFork
    <3> QED
      BY <2>2, <3>1, ForkQuiet
  <2>3. handler.pc \in MayFork /\ UNCHANGED requests
    BY <1>3 DEF StartResume, StartNew, MayFork
  <2>4. CASE StartResume
    BY <2>1, <2>2, <2>3, <2>4 DEF StartResume
  <2>5. CASE StartNew
    BY <2>1, <2>2, <2>3, <2>5 DEF StartNew
  <2> QED
    BY <1>3, <2>4, <2>5
<1>4. CASE Tick
  <2>1. handler.pc \notin MayFork /\ UNCHANGED handler
    BY <1>4 DEF Tick, Prompt, MayFork
  <2>2. \A r \in RequestIDs : /\ requests'[r] = Less(requests[r])
                              /\ spawns'[r] = IF requests[r] <= 1 THEN 0
                                                              ELSE spawns[r]
    BY <1>4 DEF Tick
  <2> QED
    BY <1>t, <2>1, <2>2 DEF ForkInv, Less
<1>5. CASE Restart
  BY <1>5 DEF Restart, ForkInv, Idle, MayFork
<1>6. CASE HandlerStep /\ ~(StartResume \/ StartNew)
  <2>1. UNCHANGED <<requests, spawns>>
    BY <1>6 DEF HandlerStep, ReserveResume, ResumeCommand, RegisterResume,
       WithdrawResume, ReleaseReservation, ActivateResume, ShowManaged,
       Acknowledge, ReserveStart, StartCommand, ReleaseNewSession, SigTerm,
       SigKill, AcknowledgeCancel
  <2>2. CASE handler' = Idle
    BY <2>1, <2>2, ForkQuiet DEF Idle, MayFork
  <2>3. CASE \E pc \in PCs : /\ handler' = [handler EXCEPT !.pc = pc]
                             /\ pc \in MayFork => handler.pc \in MayFork
    <3>1. handler'.req = handler.req
          /\ (handler'.pc \in MayFork => handler.pc \in MayFork)
      BY <2>3, <1>t DEF Handlers
    <3> QED
      BY <2>1, <3>1, ForkQuiet
  <2>4. CASE RegisterResume
    <3>1. handler.pc \in MayFork /\ handler'.req = handler.req
      BY <2>4, <1>t DEF RegisterResume, Handlers, MayFork
    <3> QED
      BY <2>1, <3>1, ForkQuiet
  <2> QED
    BY <1>6, <2>2, <2>3, <2>4 DEF HandlerStep, ReserveResume, ResumeCommand,
       WithdrawResume, ReleaseReservation, ActivateResume, ShowManaged,
       Acknowledge, ReserveStart, StartCommand, ReleaseNewSession, SigTerm,
       SigKill, AcknowledgeCancel, MayFork, PCs, ResumePCs, StartPCs,
       CancelPCs
<1>7. CASE UNCHANGED <<requests, spawns, handler>>
  BY <1>7, ForkQuiet
<1> QED
  <2>1. \/ Receive \/ HandlerStep \/ Tick \/ Restart
        \/ UNCHANGED <<requests, spawns, handler>>
    BY DEF Next, WatcherStep, Reap, ReleaseManaged, ReleaseStarted,
       ClearManaged, Report, SendFailure, ProcessExits, ObserverStep,
       AdapterUpdate, AdapterRemove, ForwardUpdate, ForwardRemoval,
       ConsumeRegistration, vars
  <2> QED
    BY <2>1, <1>2, <1>3, <1>4, <1>5, <1>6, <1>7

\* claimRequest: whatever the browser, the network and the children do, a
\* request id starts no second process while it is remembered.
THEOREM RedeliveryHarmless == Spec => []RedeliveryStartsNothing
<1>1. Init => ForkInv
  BY DEF Init, ForkInv, Idle, MayFork
<1>2. ForkInv => RedeliveryStartsNothing
  BY DEF ForkInv, RedeliveryStartsNothing
<1> QED
  BY <1>1, <1>2, ForkStep, Invariance, PTL DEF Spec

-----------------------------------------------------------------------------
(* What a step makes of one child.                                         *)

Keeps(c) == children'[c] = children[c]
Ends(c) == /\ children'[c] = Fresh
           /\ Restart \/ children[c].watch \in {"report", "send"}
Forks(c) == /\ children[c] = Fresh
            /\ StartResume \/ StartNew
            /\ \E p \in PIDs : children'[c] = Spawned(c, p)
Watched(c) == /\ Acknowledge /\ handler.cmd = c
              /\ children'[c] = [children[c] EXCEPT !.watch = "wait"]
Signalled(c) == /\ SigTerm /\ Hit(c) /\ handler.cmd = c
                /\ children'[c] = [children[c] EXCEPT !.killed = TRUE]
Exits(c) == /\ children[c].os = "running"
            /\ children'[c] = Exited(children[c])
Reaped(c) == /\ children[c].watch = "wait"
             /\ children'[c] = [children[c] EXCEPT !.os = "reaped",
                                                   !.watch = "release"]
Released(c) ==
    /\ ReleaseManaged(c)
    /\ children'[c] = [children[c] EXCEPT
          !.watch = "clear",
          !.silent = managed[children[c].target] = None
                        \/ children[c].target \in cancelRequested]
Started(c) == /\ ReleaseStarted(c)
              /\ children'[c] = [children[c] EXCEPT !.watch = "report"]
Cleared(c) == /\ children[c].watch = "clear"
              /\ children'[c] = [children[c] EXCEPT !.watch = "report"]
Reported(c) == /\ children[c].watch = "report" /\ ~children[c].silent
               /\ children'[c] = [children[c] EXCEPT !.watch = "send"]
Orphaned(c) == /\ Restart /\ children[c].os = "running"
               /\ children'[c] = [children[c] EXCEPT !.watch = "orphan"]

Moves(c) == \/ Keeps(c) \/ Ends(c) \/ Forks(c) \/ Watched(c) \/ Signalled(c)
            \/ Exits(c) \/ Reaped(c) \/ Released(c) \/ Started(c)
            \/ Cleared(c) \/ Reported(c) \/ Orphaned(c)

\* The actions that change a child.
ChildAction == \/ StartResume \/ StartNew \/ Acknowledge \/ SigTerm \/ SigKill
               \/ \E c \in Cmds : WatcherStep(c) \/ ProcessExits(c)
               \/ Restart

LEMMA ChildActions == [Next]_vars => UNCHANGED children \/ ChildAction
BY DEF Next, ChildAction, Receive, HandlerStep, ObserverStep, ReceiveQuery,
   ReceiveResume, ReceiveStart, ReceiveCancel, ReserveResume,
   ResumeCommand, RegisterResume, WithdrawResume, ReleaseReservation,
   ActivateResume, ShowManaged, ReserveStart, StartCommand,
   ReleaseNewSession, AcknowledgeCancel, AdapterUpdate, AdapterRemove,
   ForwardUpdate, ForwardRemoval, ConsumeRegistration, Tick, vars

\* Every step makes one of these of every child.
LEMMA ChildMoves ==
  ASSUME RelayInv, [Next]_vars, NEW c \in Cmds PROVE Moves(c)
<1>t. /\ children \in [Cmds -> Children] /\ handler \in Handlers
      /\ handler.pc = "start" => handler.cmd \in Cmds
                                 /\ children[handler.cmd] = Fresh
      /\ handler.pc \in {"ack", "newAck"} => handler.cmd \in Cmds
  BY DEF RelayInv, TypeOK, HandlerOwns, Unwatched
<1>1. CASE UNCHANGED children
  BY <1>1 DEF Moves, Keeps
<1>2. ASSUME NEW d \in Cmds, NEW next, Spawn(d, next), children[d] = Fresh,
             StartResume \/ StartNew
      PROVE  Moves(c)
  <2>1. PICK p \in PIDs : children' = [children EXCEPT ![d] = Spawned(d, p)]
    BY <1>2 DEF Spawn, FreePIDs
  <2>2. CASE c = d
    <3>1. children'[c] = Spawned(d, p)
      BY <1>t, <2>1, <2>2
    <3> QED
      BY <1>2, <2>2, <3>1 DEF Moves, Forks, Spawned
  <2> QED
    BY <1>t, <2>1, <2>2 DEF Moves, Keeps
<1>3. CASE StartResume
  BY <1>1, <1>2, <1>3, <1>t DEF StartResume
<1>4. CASE StartNew
  BY <1>1, <1>2, <1>4, <1>t DEF StartNew, FreeCmds
<1>5. CASE Acknowledge
  <2>1. Keeps(c) \/ Watched(c)
    BY <1>5, <1>t DEF Acknowledge, Keeps, Watched
  <2> QED
    BY <2>1 DEF Moves
<1>6. CASE SigTerm
  <2>1. Keeps(c) \/ Signalled(c)
    BY <1>6, <1>t DEF SigTerm, Keeps, Signalled
  <2> QED
    BY <2>1 DEF Moves
<1>7. CASE SigKill
  <2>1. Keeps(c) \/ Exits(c)
    BY <1>7, <1>t DEF SigKill, Hit, Keeps, Exits
  <2> QED
    BY <2>1 DEF Moves
<1>8. ASSUME NEW d \in Cmds, WatcherStep(d) \/ ProcessExits(d) PROVE Moves(c)
  <2>1. CASE Reap(d)
    BY <2>1, <1>t DEF Reap, Moves, Keeps, Reaped
  <2>2. CASE ReleaseManaged(d)
    <3>1. Keeps(c) \/ Released(c)
      BY <2>2, <1>t DEF ReleaseManaged, Keeps, Released
    <3> QED
      BY <3>1 DEF Moves
  <2>3. CASE ReleaseStarted(d)
    <3>1. Keeps(c) \/ Started(c)
      BY <2>3, <1>t DEF ReleaseStarted, Keeps, Started
    <3> QED
      BY <3>1 DEF Moves
  <2>4. CASE ClearManaged(d)
    BY <2>4, <1>t DEF ClearManaged, Moves, Keeps, Cleared
  <2>5. CASE Report(d)
    BY <2>5, <1>t DEF Report, Reportable, Moves, Keeps, Ends, Reported
  <2>6. CASE SendFailure(d)
    BY <2>6, <1>t DEF SendFailure, Moves, Keeps, Ends
  <2>7. CASE ProcessExits(d)
    BY <2>7, <1>t DEF ProcessExits, Moves, Keeps, Exits
  <2> QED
    BY <1>8, <2>1, <2>2, <2>3, <2>4, <2>5, <2>6, <2>7 DEF WatcherStep
<1>9. CASE Restart
  <2>1. Orphaned(c) \/ Ends(c)
    BY <1>9, <1>t DEF Restart, Orphaned, Ends
  <2> QED
    BY <2>1 DEF Moves
<1> QED
  BY <1>1, <1>3, <1>4, <1>5, <1>6, <1>7, <1>8, <1>9, ChildActions
     DEF ChildAction

-----------------------------------------------------------------------------
(* Cancelled children.                                                     *)

\* The child is the one of its session's entry, and the entry has the flag.
Cancelled(c) == /\ children[c].target \in cancelRequested
                /\ managed[children[c].target] = c

\* A child that a cancel has signalled has its flag in the entry until the
\* watcher copies it; the child that is about to be signalled is, while it
\* runs, the one the handler has read from the entry.
CancelInv ==
    /\ \A c \in Cmds :
          children[c].watch \in {"release", "clear", "report", "send"} =>
             children[c].os = "reaped"
    /\ handler.pc = "sigterm" =>
          /\ handler.cmd \in Cmds
          /\ children[handler.cmd].os = "running" =>
                /\ Holding(handler.cmd) /\ Cancelled(handler.cmd)
    /\ \A c \in Cmds : children[c].killed =>
          \/ Holding(c) /\ Cancelled(c)
          \/ children[c].watch \in {"clear", "report"} /\ children[c].silent
          \/ children[c].watch = "orphan"

\* A watcher in releaseManagedResume finds its own child in the entry.
LEMMA ReleasesOwn ==
  ASSUME RelayInv, NEW c \in Cmds, children[c].watch = "release",
         children[c].target \in Sessions
  PROVE  Holding(c) /\ managed[children[c].target] = c
<1>1. Holding(c)
  BY DEF RelayInv, WatchersHold, Holding
<1>2. handler.pc = "activate" => children[handler.cmd].watch = "none"
  BY DEF RelayInv, HandlerOwns, Unwatched
<1>3. children[c].target \notin newStarting
  BY SetAssumption DEF RelayInv, TypeOK
<1> QED
  BY <1>1, <1>2, <1>3 DEF RelayInv, HoldersRecorded

\* The entry of a child stays until the child is released.
LEMMA EntryKept ==
  ASSUME RelayInv, [Next]_vars, NEW c \in Cmds, NEW s \in Sessions,
         managed[s] = c, ~ReleaseManaged(c), ~Restart
  PROVE  managed'[s] = c /\ (s \in cancelRequested => s \in cancelRequested')
<1>t. /\ managed \in [Sessions -> Cmds \cup {None}] /\ None \notin Cmds
      /\ children[c].target = s
  BY SetAssumption DEF RelayInv, TypeOK, ReservationsOwned
<1>1. CASE ActivateResume
  <2>1. handler.target # s
    BY <1>1, <1>t DEF ActivateResume, RelayInv, HandlerOwns, Reserving
  <2> QED
    BY <1>1, <1>t, <2>1 DEF ActivateResume
<1>2. ASSUME NEW d \in Cmds, ReleaseManaged(d)
      PROVE  managed'[s] = c /\ (s \in cancelRequested => s \in cancelRequested')
  <2>1. children[d].target # s
    BY <1>2, <1>t, ReleasesOwn DEF ReleaseManaged
  <2> QED
    BY <1>2, <1>t, <2>1 DEF ReleaseManaged, Freed
<1>3. ASSUME NEW r \in RequestIDs, NEW t \in Sessions, ReceiveCancel(r, t)
      PROVE  managed'[s] = c /\ (s \in cancelRequested => s \in cancelRequested')
  BY <1>3, <1>t DEF ReceiveCancel, Flagged
<1>4. CASE UNCHANGED <<managed, cancelRequested>>
  BY <1>4
<1> QED
  <2>1. \/ ActivateResume \/ \E d \in Cmds : ReleaseManaged(d)
        \/ \E r \in RequestIDs, t \in Sessions : ReceiveCancel(r, t)
        \/ UNCHANGED <<managed, cancelRequested>>
    BY DEF Next, Receive, HandlerStep, ObserverStep, WatcherStep,
       ReceiveQuery, ReceiveResume, ReceiveStart, ReserveResume,
       ResumeCommand, RegisterResume, StartResume, WithdrawResume,
       ReleaseReservation, ShowManaged, Acknowledge, ReserveStart,
       StartCommand, StartNew, ReleaseNewSession, SigTerm, SigKill,
       AcknowledgeCancel, Reap, ReleaseStarted, ClearManaged, Report,
       SendFailure, ProcessExits, AdapterUpdate, AdapterRemove,
       ForwardUpdate, ForwardRemoval, ConsumeRegistration, Tick, vars
  <2> QED
    BY <1>1, <1>2, <1>3, <1>4, <2>1

\* Only handleCancel brings the handler to its first signal.
LEMMA SigtermRead ==
  ASSUME RelayInv, [Next]_vars, handler'.pc = "sigterm"
  PROVE  \/ UNCHANGED handler /\ handler.pc = "sigterm"
         \/ \E r \in RequestIDs, s \in Sessions : ReceiveCancel(r, s)
<1>t. handler \in Handlers
  BY DEF RelayInv, TypeOK
<1>1. CASE UNCHANGED handler
  BY <1>1
<1>2. CASE HandlerStep
  <2>2. CASE handler' = Idle
    BY <2>2 DEF Idle
  <2>3. CASE \E pc \in PCs \ {"sigterm"} : handler' = [handler EXCEPT !.pc = pc]
    BY <1>t, <2>3 DEF Handlers
  <2>4. CASE RegisterResume
    BY <1>t, <2>4 DEF RegisterResume, Handlers
  <2>5. ASSUME NEW c, NEW pc \in {"activate", "newAck"}, Spawn(c, pc)
        PROVE  FALSE
    <3>1. PICK p \in PIDs :
            handler' = [handler EXCEPT !.pc = pc, !.cmd = c, !.pid = p]
      BY <2>5 DEF Spawn, FreePIDs
    <3> QED
      BY <1>t, <3>1 DEF Handlers
  <2>6. CASE StartResume
    BY <2>3, <2>5, <2>6 DEF StartResume, PCs, ResumePCs
  <2>7. CASE StartNew
    BY <2>3, <2>5, <2>7 DEF StartNew, PCs, StartPCs
  <2> QED
    BY <1>2, <2>2, <2>3, <2>4, <2>6, <2>7 DEF HandlerStep, ReserveResume,
       ResumeCommand, WithdrawResume, ReleaseReservation, ActivateResume,
       ShowManaged, Acknowledge, ReserveStart, StartCommand,
       ReleaseNewSession, SigTerm, SigKill, AcknowledgeCancel, PCs,
       ResumePCs, StartPCs, CancelPCs
<1>3. CASE Receive
  <2>1. ASSUME NEW r \in RequestIDs, NEW t, ReceiveResume(r, t) \/ ReceiveStart(r, t)
        PROVE  FALSE
    BY <2>1, AtFields DEF ReceiveResume, ReceiveStart
  <2> QED
    BY <1>1, <1>3, <2>1 DEF Receive, ReceiveQuery
<1>4. CASE Restart
  BY <1>4 DEF Restart, Idle
<1> QED
  <2>1. Receive \/ HandlerStep \/ Restart \/ UNCHANGED handler
    BY DEF Next, WatcherStep, Reap, ReleaseManaged, ReleaseStarted,
       ClearManaged, Report, SendFailure, ProcessExits, ObserverStep,
       AdapterUpdate, AdapterRemove, ForwardUpdate, ForwardRemoval,
       ConsumeRegistration, Tick, vars
  <2> QED
    BY <1>1, <1>2, <1>3, <1>4, <2>1

\* Every step keeps the flags of signalled children where they are needed.
LEMMA CancelStep == RelayInv /\ CancelInv /\ [Next]_vars => CancelInv'
<1> SUFFICES ASSUME RelayInv, CancelInv, [Next]_vars PROVE CancelInv'
  OBVIOUS
<1>t. /\ children \in [Cmds -> Children] /\ handler \in Handlers
      /\ cancelRequested \subseteq Sessions
      /\ managed \in [Sessions -> Cmds \cup {None}]
  BY DEF RelayInv, TypeOK
<1>h. ASSUME NEW c \in Cmds, Holding(c), Cancelled(c), ~Restart,
             ~ReleaseManaged(c), children'[c].target = children[c].target
      PROVE  Cancelled(c)'
  <2>1. /\ children[c].target \in Sessions
        /\ managed[children[c].target] = c
        /\ children[c].target \in cancelRequested
    BY <1>h, <1>t DEF Cancelled
  <2> QED
    BY <1>h, <2>1, EntryKept DEF Cancelled
<1>c. ASSUME NEW c \in Cmds
      PROVE  children[c] \in Children
  BY <1>t
<1>1. ASSUME NEW c \in Cmds, children'[c].killed
      PROVE  \/ Holding(c)' /\ Cancelled(c)'
             \/ children'[c].watch \in {"clear", "report"} /\ children'[c].silent
             \/ children'[c].watch = "orphan"
  <2>0. ASSUME children[c].killed, children'[c].target = children[c].target,
               children'[c].watch = children[c].watch,
               children'[c].silent = children[c].silent,
               Holding(c) => Holding(c)'
        PROVE  \/ Holding(c)' /\ Cancelled(c)'
               \/ /\ children'[c].watch \in {"clear", "report"}
                  /\ children'[c].silent
               \/ children'[c].watch = "orphan"
    <3>1. CASE Holding(c) /\ Cancelled(c)
      <4>1. CASE ReleaseManaged(c)
        <5>1. children'[c].watch = "clear" /\ children[c].watch = "release"
          BY <4>1, <1>c, <1>t DEF ReleaseManaged, Children
        <5> QED
          BY <2>0, <5>1
      <4>2. CASE Restart
        <5>1. children'[c] = Fresh \/ children'[c].watch = "orphan"
          BY <4>2, <1>c DEF Restart, Children
        <5> QED
          BY <1>1, <5>1 DEF Fresh
      <4> QED
        BY <2>0, <3>1, <4>1, <4>2, <1>h
    <3> QED
      BY <2>0, <3>1 DEF CancelInv
  <2>1. CASE Keeps(c)
    BY <1>1, <2>0, <2>1 DEF Keeps, Holding
  <2>2. CASE Ends(c)
    BY <1>1, <2>2 DEF Ends, Fresh
  <2>3. CASE Forks(c)
    BY <1>1, <2>3 DEF Forks, Spawned, Fresh
  <2>4. CASE Watched(c)
    <3>1. /\ children'[c].watch = "wait" /\ children[c].watch = "none"
          /\ children'[c].os = children[c].os /\ children[c].os # "none"
          /\ children'[c].target = children[c].target
          /\ children'[c].killed = children[c].killed
      BY <1>c, <2>4 DEF Watched, Acknowledge, RelayInv, HandlerOwns, Unwatched,
         Children
    <3>2. ~Restart /\ ~ReleaseManaged(c)
      BY <1>c, <1>t, <2>4, <3>1 DEF Restart, ReleaseManaged, Fresh, Children
    <3>3. Holding(c) /\ Cancelled(c)
      BY <1>1, <3>1 DEF CancelInv
    <3> QED
      BY <1>h, <3>1, <3>2, <3>3 DEF Holding
  <2>5. CASE Signalled(c)
    <3>1. /\ children'[c].watch = children[c].watch
          /\ children'[c].os = children[c].os
          /\ children'[c].target = children[c].target
      BY <1>c, <2>5 DEF Signalled, Children
    <3>2. Holding(c) /\ Cancelled(c)
      BY <2>5 DEF Signalled, SigTerm, Hit, CancelInv
    <3>3. Cancelled(c)'
      BY <2>5, <3>1, <3>2 DEF Signalled, SigTerm, Cancelled
    <3> QED
      BY <3>1, <3>2, <3>3 DEF Holding
  <2>6. CASE Exits(c)
    <3>1. CASE children[c].watch = "orphan"
      BY <1>1, <1>c, <2>6, <3>1, ExitedFields DEF Exits, Fresh
    <3>2. CASE children[c].watch # "orphan"
      <4>1. children'[c] = [children[c] EXCEPT !.os = "zombie"]
        BY <2>6, <3>2 DEF Exits, Exited
      <4>2. /\ children'[c].watch = children[c].watch
            /\ children'[c].silent = children[c].silent
            /\ children'[c].killed = children[c].killed
            /\ children'[c].target = children[c].target
            /\ children'[c].os = "zombie"
        BY <1>c, <4>1 DEF Children
      <4> QED
        BY <1>1, <2>0, <4>2 DEF Holding
    <3> QED
      BY <3>1, <3>2
  <2>7. CASE Reaped(c)
    <3>1. /\ children'[c].watch = "release" /\ children[c].watch = "wait"
          /\ children'[c].os = "reaped"
          /\ children'[c].target = children[c].target
          /\ children'[c].killed = children[c].killed
      BY <1>c, <2>7 DEF Reaped, Children
    <3>2. ~Restart /\ ~ReleaseManaged(c)
      BY <1>c, <1>t, <3>1 DEF Restart, ReleaseManaged, Fresh, Children
    <3>3. Holding(c) /\ Cancelled(c)
      BY <1>1, <3>1 DEF CancelInv
    <3> QED
      BY <1>h, <3>1, <3>2, <3>3 DEF Holding
  <2>8. CASE Released(c)
    <3>1. PICK b \in BOOLEAN :
            /\ children'[c] = [children[c] EXCEPT !.watch = "clear",
                                                 !.silent = b]
            /\ children[c].target \in cancelRequested => b
      BY <2>8 DEF Released
    <3>2. /\ children'[c].watch = "clear" /\ children'[c].silent = b
          /\ children'[c].killed = children[c].killed
      BY <1>c, <3>1 DEF Children
    <3>3. children[c].watch = "release"
      BY <2>8 DEF Released, ReleaseManaged
    <3> QED
      BY <1>1, <3>1, <3>2, <3>3 DEF CancelInv, Cancelled
  <2>9. CASE Started(c)
    <3>1. /\ children[c].watch = "release" /\ children[c].target \in Dirs
          /\ children'[c].killed = children[c].killed
      BY <1>c, <2>9 DEF Started, ReleaseStarted, Children
    <3> QED
      BY <1>1, <1>t, <3>1, SetAssumption DEF CancelInv, Cancelled
  <2>10. CASE Cleared(c)
    <3>1. /\ children'[c].watch = "report" /\ children[c].watch = "clear"
          /\ children'[c].killed = children[c].killed
          /\ children'[c].silent = children[c].silent
      BY <1>c, <2>10 DEF Cleared, Children
    <3> QED
      BY <1>1, <3>1 DEF CancelInv, Holding
  <2>11. CASE Reported(c)
    <3>1. /\ children[c].watch = "report" /\ ~children[c].silent
          /\ children'[c].killed = children[c].killed
      BY <1>c, <2>11 DEF Reported, Children
    <3> QED
      BY <1>1, <3>1 DEF CancelInv, Holding
  <2>12. CASE Orphaned(c)
    BY <1>c, <2>12 DEF Orphaned, Children
  <2> QED
    BY ChildMoves, <2>1, <2>2, <2>3, <2>4, <2>5, <2>6, <2>7, <2>8, <2>9,
       <2>10, <2>11, <2>12 DEF Moves
<1>2. ASSUME handler'.pc = "sigterm"
      PROVE  /\ handler'.cmd \in Cmds
             /\ children'[handler'.cmd].os = "running" =>
                   Holding(handler.cmd)' /\ Cancelled(handler.cmd)'
  <2>1. ASSUME NEW r \in RequestIDs, NEW s \in Sessions, ReceiveCancel(r, s)
        PROVE  /\ handler'.cmd \in Cmds
               /\ Holding(handler.cmd)' /\ Cancelled(handler.cmd)'
    <3>1. /\ managed[s] \in Cmds /\ managed' = managed
          /\ children' = children /\ s \in cancelRequested'
          /\ handler' = [At("sigterm", r, s) EXCEPT !.cmd = managed[s],
                                         !.pid = children[managed[s]].pid]
      BY <1>2, <1>t, <2>1 DEF ReceiveCancel, Claim, Flagged
    <3>2. handler'.cmd = managed[s]
      BY <3>1 DEF At, Idle
    <3>3. Holding(managed[s]) /\ children[managed[s]].target = s
      BY <3>1, SetAssumption DEF RelayInv, ReservationsOwned
    <3> QED
      BY <3>1, <3>2, <3>3 DEF Holding, Cancelled
  <2>2. CASE UNCHANGED handler /\ handler.pc = "sigterm"
    <3>1. ~Restart
      BY <2>2 DEF Restart, Idle
    <3>2. handler.cmd \in Cmds
      BY <2>2 DEF CancelInv
    <3>3. ASSUME NEW c \in Cmds, c = handler.cmd, children'[c].os = "running"
          PROVE  /\ Holding(c)' /\ Cancelled(c)'
      <4>0. c \in Cmds /\ children'[c].os = "running" /\ c = handler.cmd
        BY <3>3
      <4>1. Moves(c)
        BY <4>0, ChildMoves
      <4>2. ~Ends(c) /\ ~Forks(c) /\ ~Watched(c) /\ ~Orphaned(c)
        BY <2>2, <3>1, <4>0 DEF Ends, Forks, Watched, Orphaned, Fresh,
           Acknowledge, StartResume, StartNew
      <4>6. ~Signalled(c)
        BY <1>t, <2>2 DEF Signalled, SigTerm, Handlers, Idle
      <4>3. ~Exits(c) /\ ~Reaped(c)
        BY <1>c, <4>0, ExitedFields DEF Exits, Reaped, Children
      <4>4. CASE Keeps(c)
        <5>1. /\ children'[c].target = children[c].target
              /\ Holding(c) /\ Cancelled(c) /\ Holding(c)'
          BY <2>2, <4>0, <4>4 DEF Keeps, CancelInv, Holding
        <5>2. ~ReleaseManaged(c)
          <6>1. ReleaseManaged(c) => children'[c].watch = "clear"
            BY <1>c, <1>t, <4>0 DEF ReleaseManaged, Children
          <6> QED
            BY <4>4, <5>1, <6>1 DEF Keeps, Holding
        <5> QED
          BY <3>1, <4>0, <5>1, <5>2, <1>h
      <4>5. ~Released(c) /\ ~Started(c) /\ ~Cleared(c) /\ ~Reported(c)
        <5>1. Released(c) \/ Started(c) \/ Cleared(c) \/ Reported(c) =>
                 children[c].watch \in {"release", "clear", "report"}
          BY DEF Released, Started, Cleared, Reported, ReleaseManaged,
             ReleaseStarted
        <5>2. Released(c) \/ Started(c) \/ Cleared(c) \/ Reported(c) =>
                 children'[c].os = children[c].os
          BY <1>c, <4>0 DEF Released, Started, Cleared, Reported, Children
        <5> QED
          BY <4>0, <5>1, <5>2 DEF CancelInv
      <4> QED
        BY <4>0, <4>1, <4>2, <4>3, <4>4, <4>5, <4>6 DEF Moves
    <3> QED
      BY <2>2, <3>2, <3>3 DEF Holding, Cancelled
  <2>3. \/ UNCHANGED handler /\ handler.pc = "sigterm"
        \/ \E r \in RequestIDs, s \in Sessions : ReceiveCancel(r, s)
    BY <1>2, SigtermRead
  <2> QED
    BY <2>1, <2>2, <2>3
<1>3. ASSUME NEW c \in Cmds,
             children'[c].watch \in {"release", "clear", "report", "send"}
      PROVE  children'[c].os = "reaped"
  <2>1. CASE Keeps(c)
    BY <1>3, <2>1 DEF Keeps, CancelInv
  <2>2. CASE Ends(c) \/ Forks(c) \/ Watched(c) \/ Orphaned(c)
    <3>1. children'[c].watch \in {"none", "wait", "orphan"}
      <4>1. CASE Ends(c)
        BY <4>1 DEF Ends, Fresh
      <4>2. CASE Forks(c)
        BY <4>2 DEF Forks, Spawned, Fresh
      <4>3. CASE Watched(c)
        BY <4>3, <1>c DEF Watched, Children
      <4>4. CASE Orphaned(c)
        BY <4>4, <1>c DEF Orphaned, Children
      <4> QED
        BY <2>2, <4>1, <4>2, <4>3, <4>4
    <3> QED
      BY <1>3, <3>1
  <2>3. CASE Signalled(c)
    BY <1>3, <1>c, <2>3 DEF Signalled, Children, CancelInv
  <2>4. CASE Exits(c)
    BY <1>3, <1>c, <2>4, ExitedFields DEF Exits, CancelInv, Fresh
  <2>5. CASE Reaped(c)
    BY <1>c, <2>5 DEF Reaped, Children
  <2>6. CASE Released(c) \/ Started(c) \/ Cleared(c) \/ Reported(c)
    <3>1. children[c].watch \in {"release", "clear", "report"}
      BY <2>6 DEF Released, Started, Cleared, Reported, ReleaseManaged,
         ReleaseStarted
    <3>2. children'[c].os = children[c].os
      BY <1>c, <2>6 DEF Released, Started, Cleared, Reported, Children
    <3> QED
      BY <3>1, <3>2 DEF CancelInv
  <2> QED
    BY ChildMoves, <2>1, <2>2, <2>3, <2>4, <2>5, <2>6 DEF Moves
<1> QED
  BY <1>1, <1>2, <1>3 DEF CancelInv

\* A cancelled child is never reported as a failed resume: handleCancel and
\* watchManaged agree on the copy of the entry in every order.
THEOREM CancelSilent == Spec => []CancelSilencesFailure
<1>1. Init => CancelInv
  BY DEF Init, CancelInv, Idle, Fresh
<1>2. CancelInv => CancelSilencesFailure
  BY DEF CancelInv, CancelSilencesFailure, Holding
<1> QED
  BY <1>1, <1>2, CancelStep, Invariance, PTL DEF Spec

-----------------------------------------------------------------------------
(* Cooldowns: a released target rests until nobody is about to touch it.   *)

\* A reserved target is not cooling; a watcher that is about to clear the
\* indicator of its session has no successor yet, because the cooldown it has
\* started cannot end before it is done.
CoolInv ==
    /\ \A s \in starting : cooldowns[s] = 0
    /\ \A d \in newStarting : newCooldowns[d] = 0
    /\ \A c \in Cmds : children[c].watch = "clear" =>
          /\ children[c].target \in Sessions \ starting
          /\ managed[children[c].target] = None
          /\ cooldowns[children[c].target] >= ResumeCooldown - ClearBound

\* The variables that CoolInv is about.
CoolTypes == /\ handler \in Handlers
             /\ children \in [Cmds -> Children]
             /\ managed \in [Sessions -> Cmds \cup {None}]
             /\ starting \subseteq Sessions /\ newStarting \subseteq Dirs
             /\ cooldowns \in [Sessions -> 0 .. ResumeCooldown]
             /\ newCooldowns \in [Dirs -> 0 .. StartCooldown]

\* A watcher comes to "clear" from its release only.
LEMMA ClearMoves ==
  ASSUME CoolTypes, NEW c \in Cmds, Moves(c), children'[c].watch = "clear"
  PROVE  /\ children'[c].target = children[c].target
         /\ children[c].watch = "clear" \/ ReleaseManaged(c)
<1>c. children[c] \in Children
  BY DEF CoolTypes
<1>1. CASE Keeps(c) \/ Signalled(c)
  BY <1>c, <1>1 DEF Keeps, Signalled, Children
<1>2. CASE Exits(c)
  BY <1>c, <1>2, ExitedFields DEF Exits, Fresh
<1>3. CASE Ends(c) \/ Forks(c)
  <2>1. Fresh.watch = "none" /\ \A p \in PIDs : Spawned(c, p).watch = "none"
    BY DEF Fresh, Spawned
  <2> QED
    BY <1>3, <2>1 DEF Ends, Forks
<1>4. CASE \/ Watched(c) \/ Reaped(c) \/ Started(c) \/ Cleared(c)
           \/ Reported(c) \/ Orphaned(c)
  BY <1>c, <1>4 DEF Watched, Reaped, Started, Cleared, Reported, Orphaned,
     Children
<1>5. CASE Released(c)
  BY <1>c, <1>5 DEF Released, Children
<1> QED
  BY <1>1, <1>2, <1>3, <1>4, <1>5 DEF Moves

\* Every step keeps the cooldowns of what was released.
LEMMA CoolStep == RelayInv /\ CoolInv /\ [Next]_vars => CoolInv'
<1> SUFFICES ASSUME RelayInv, CoolInv, [Next]_vars PROVE CoolInv'
  OBVIOUS
<1> USE SetAssumption, BoundAssumption
<1>t. CoolTypes
  BY DEF RelayInv, TypeOK, CoolTypes
<1>m. ASSUME NEW c \in Cmds, children'[c].watch = "clear"
      PROVE  /\ children'[c].target = children[c].target
             /\ children[c].watch = "clear" \/ ReleaseManaged(c)
  BY <1>m, <1>t, ChildMoves, ClearMoves
<1>1. ASSUME UNCHANGED <<managed, cooldowns, newCooldowns>>,
             starting' \subseteq starting, newStarting' \subseteq newStarting,
             \A c \in Cmds : ~ReleaseManaged(c)
      PROVE  CoolInv'
  <2>1. ASSUME NEW c \in Cmds, children'[c].watch = "clear"
        PROVE  /\ children'[c].target \in Sessions \ starting'
               /\ managed'[children'[c].target] = None
               /\ cooldowns'[children'[c].target] >= ResumeCooldown - ClearBound
    BY <1>1, <1>m, <2>1 DEF CoolInv
  <2> QED
    BY <1>1, <2>1 DEF CoolInv
<1>s. ASSUME UNCHANGED children
      PROVE  \A c \in Cmds : ~ReleaseManaged(c)
  BY <1>s, <1>t DEF ReleaseManaged, CoolTypes, Children
<1>2. CASE ReserveResume
  <2>1. handler.target \in Sessions
    BY <1>2 DEF ReserveResume, RelayInv, HandlerOwns, ResumePCs
  <2>2. /\ UNCHANGED <<children, managed, cooldowns, newStarting, newCooldowns>>
        /\ \/ UNCHANGED starting
           \/ /\ starting' = starting \cup {handler.target}
              /\ cooldowns[handler.target] = 0
    BY <1>2 DEF ReserveResume, MayResume
  <2> QED
    BY <1>t, <2>1, <2>2 DEF CoolInv, CoolTypes
<1>3. CASE ReserveStart
  <2>1. /\ UNCHANGED <<children, managed, cooldowns, starting, newCooldowns>>
        /\ \/ UNCHANGED newStarting
           \/ /\ newStarting' = newStarting \cup {handler.target}
              /\ newCooldowns[handler.target] = 0
    BY <1>3 DEF ReserveStart, MayStart
  <2> QED
    BY <2>1 DEF CoolInv
<1>4. CASE ActivateResume
  <2>1. handler.target \in starting
    BY <1>4 DEF ActivateResume, RelayInv, HandlerOwns, Reserving
  <2>2. /\ UNCHANGED <<children, cooldowns, newStarting, newCooldowns>>
        /\ starting' = starting \ {handler.target}
        /\ managed' = [managed EXCEPT ![handler.target] = handler.cmd]
    BY <1>4 DEF ActivateResume
  <2> QED
    BY <1>t, <2>1, <2>2 DEF CoolInv, CoolTypes
<1>5. ASSUME NEW c \in Cmds, ReleaseManaged(c) PROVE CoolInv'
  <2> DEFINE s == children[c].target
  <2>1. /\ s \in Sessions /\ managed[s] = c
        /\ UNCHANGED <<starting, newStarting, newCooldowns>>
        /\ managed' = [managed EXCEPT ![s] = None]
        /\ cooldowns' = [cooldowns EXCEPT ![s] = ResumeCooldown]
    BY <1>5, ReleasesOwn DEF ReleaseManaged, Freed
  <2>2. s \notin starting
    BY <2>1 DEF RelayInv, ReservationsOwned, HandlerOwns, Reserving
  <2>3. \A d \in Cmds : ReleaseManaged(d) => d = c
    <3>1. ASSUME NEW d \in Cmds, ReleaseManaged(d), d # c PROVE FALSE
      <4>1. children'[d] = children[d]
        BY <1>5, <1>t, <3>1 DEF ReleaseManaged, CoolTypes
      <4>2. children'[d].watch = "clear" /\ children[d].watch = "release"
        BY <1>t, <3>1 DEF ReleaseManaged, CoolTypes, Children
      <4> QED
        BY <4>1, <4>2
    <3> QED
      BY <3>1
  <2>4. ASSUME NEW d \in Cmds, children'[d].watch = "clear"
        PROVE  /\ children'[d].target \in Sessions \ starting'
               /\ managed'[children'[d].target] = None
               /\ cooldowns'[children'[d].target] >= ResumeCooldown - ClearBound
    <3>1. children'[d].target = children[d].target
          /\ (children[d].watch = "clear" \/ d = c)
      BY <1>m, <2>3, <2>4
    <3> QED
      BY <1>t, <2>1, <2>2, <3>1 DEF CoolInv, CoolTypes
  <2>5. \A t \in starting' : cooldowns'[t] = 0
    BY <1>t, <2>1, <2>2 DEF CoolInv, CoolTypes
  <2> QED
    BY <2>1, <2>4, <2>5 DEF CoolInv
<1>6. ASSUME NEW c \in Cmds, ReleaseStarted(c) PROVE CoolInv'
  <2>1. /\ UNCHANGED <<managed, cooldowns, starting>>
        /\ newStarting' = newStarting \ {children[c].target}
        /\ newCooldowns' = [newCooldowns EXCEPT
                               ![children[c].target] = StartCooldown]
        /\ children' = [children EXCEPT ![c].watch = "report"]
    BY <1>6 DEF ReleaseStarted
  <2>2. \A d \in Cmds : children'[d].watch = "clear" =>
          children'[d] = children[d]
    BY <1>t, <2>1 DEF CoolTypes, Children
  <2>3. \A d \in newStarting' : newCooldowns'[d] = 0
    BY <1>t, <2>1 DEF CoolInv, CoolTypes
  <2> QED
    BY <2>1, <2>2, <2>3 DEF CoolInv
<1>7. CASE Tick
  <2>1. /\ UNCHANGED <<children, managed, starting, newStarting>>
        /\ cooldowns' = [s \in Sessions |-> Less(cooldowns[s])]
        /\ newCooldowns' = [d \in Dirs |-> Less(newCooldowns[d])]
        /\ \A c \in Cmds : children[c].watch = "clear" =>
              cooldowns[children[c].target] > ResumeCooldown - ClearBound
    BY <1>7 DEF Tick, Prompt
  <2>2. \A n \in Nat : Less(n) = IF n > 0 THEN n - 1 ELSE 0
    BY DEF Less
  <2>3. ASSUME NEW c \in Cmds, children[c].watch = "clear"
        PROVE  cooldowns'[children[c].target] >= ResumeCooldown - ClearBound
    BY <1>t, <2>1, <2>2, <2>3 DEF CoolInv, CoolTypes
  <2>4. \A s \in starting : cooldowns'[s] = 0
    BY <1>t, <2>1, <2>2 DEF CoolInv, CoolTypes
  <2>5. \A d \in newStarting : newCooldowns'[d] = 0
    BY <1>t, <2>1, <2>2 DEF CoolInv, CoolTypes
  <2> QED
    BY <2>1, <2>3, <2>4, <2>5 DEF CoolInv
<1>8. CASE Restart
  <2>1. \A c \in Cmds : children'[c].watch # "clear"
    BY <1>8, <1>t DEF Restart, Fresh, CoolTypes, Children
  <2> QED
    BY <1>8, <2>1 DEF Restart, CoolInv
<1> QED
  <2>1. \/ ReserveResume \/ ReserveStart \/ ActivateResume \/ Tick \/ Restart
        \/ \E c \in Cmds : ReleaseManaged(c) \/ ReleaseStarted(c)
        \/ /\ UNCHANGED <<managed, cooldowns, newCooldowns>>
           /\ starting' \subseteq starting
           /\ newStarting' \subseteq newStarting
    BY DEF Next, Receive, HandlerStep, ObserverStep, WatcherStep,
       ReceiveQuery, ReceiveResume, ReceiveStart, ReceiveCancel,
       ResumeCommand, RegisterResume, StartResume, WithdrawResume,
       ReleaseReservation, ShowManaged, Acknowledge,
       StartCommand, StartNew, ReleaseNewSession, SigTerm, SigKill,
       AcknowledgeCancel, Reap, ClearManaged, Report,
       SendFailure, ProcessExits, AdapterUpdate, AdapterRemove,
       ForwardUpdate, ForwardRemoval, ConsumeRegistration, vars
  <2> QED
    BY <1>1, <1>2, <1>3, <1>4, <1>5, <1>6, <1>7, <1>8, <2>1

\* Init has the cooldowns of CoolInv.
LEMMA InitCool == Init => CoolInv
BY DEF Init, CoolInv, Fresh

\* One step takes the indicator of a child that holds its session away only
\* with the session, the Connector or a log line of a line adapter.
LEMMA IndicatorStep ==
  ASSUME RelayInv, CoolInv, [Next]_vars, NEW s \in Sessions,
         shown[s] # None, Holding(shown[s]),
         children[shown[s]].target = s, shown'[s] # shown[s]
  PROVE  \/ s \notin known' \/ crashes' # crashes
         \/ s \notin CodexSessions /\ UNCHANGED <<relayVars, children>>
<1> USE SetAssumption, BoundAssumption
<1>t. /\ CoolTypes /\ shown \in [Sessions -> Cmds \cup {None}]
      /\ crashes \in Nat
  BY DEF RelayInv, TypeOK, CoolTypes
<1>1. CASE ShowManaged
  <2>1. /\ handler.target = s /\ shown'[s] = handler.cmd
    BY <1>1, <1>t DEF ShowManaged, SetManaged
  <2>2. /\ handler.cmd \in Cmds /\ Holding(handler.cmd)
        /\ children[handler.cmd].target = s
    BY <1>1, <2>1 DEF ShowManaged, RelayInv, HandlerOwns, Unwatched, Holding
  <2> QED
    BY <1>t, <2>1, <2>2 DEF RelayInv, OneChildPerTarget
<1>2. ASSUME NEW c \in Cmds, ClearManaged(c) PROVE FALSE
  <2>1. children[c].watch = "clear" /\ children[c].target = s
    BY <1>2, <1>t DEF ClearManaged, SetManaged
  <2>2. managed[s] = None /\ s \notin starting
    BY <2>1 DEF CoolInv
  <2>3. shown[s] \in Cmds /\ s \notin newStarting
    BY <1>t DEF CoolTypes
  <2>4. handler.pc = "activate" /\ handler.cmd = shown[s]
    BY <2>2, <2>3 DEF RelayInv, HoldersRecorded
  <2> QED
    BY <2>2, <2>4 DEF RelayInv, HandlerOwns, Reserving, Unwatched
<1>3. ASSUME NEW t \in Sessions, AdapterRemove(t)
      PROVE  s \notin known'
  BY <1>3, <1>t DEF AdapterRemove
<1>4. CASE Restart
  BY <1>4, <1>t DEF Restart
<1>5. ASSUME NEW t \in Sessions, AdapterUpdate(t)
      PROVE  s \notin CodexSessions /\ UNCHANGED <<relayVars, children>>
  <2>1. t = s /\ s \notin CodexSessions
    BY <1>5, <1>t DEF AdapterUpdate, Carried
  <2> QED
    BY <1>5, <2>1 DEF AdapterUpdate
<1> QED
  <2>1. \/ ShowManaged \/ Restart \/ UNCHANGED shown
        \/ \E c \in Cmds : ClearManaged(c)
        \/ \E t \in Sessions : AdapterRemove(t) \/ AdapterUpdate(t)
    BY DEF Next, Receive, HandlerStep, ObserverStep, WatcherStep,
       ReceiveQuery, ReceiveResume, ReceiveStart, ReceiveCancel,
       ReserveResume, ResumeCommand, RegisterResume, StartResume,
       WithdrawResume, ReleaseReservation, ActivateResume, Acknowledge,
       ReserveStart, StartCommand, StartNew, ReleaseNewSession, SigTerm,
       SigKill, AcknowledgeCancel, Reap, ReleaseManaged, ReleaseStarted,
       Report, SendFailure, ProcessExits, ForwardUpdate,
       ForwardRemoval, ConsumeRegistration, Tick, vars
  <2> QED
    BY <1>1, <1>2, <1>3, <1>4, <1>5, <2>1

\* No handler and no watcher of an earlier child takes the cancel button of
\* the child that holds the session now, for any cooldown longer than a watcher
\* may stall.
THEOREM IndicatorKept == Spec => IndicatorOutlivesChild
<1>1. RelayInv /\ CoolInv /\ [Next]_vars =>
        [\A s \in Sessions :
           LET c == shown[s] IN
           c # None /\ Holding(c) /\ children[c].target = s /\ shown'[s] # c
              => \/ s \notin known'
                 \/ crashes' # crashes
                 \/ s \notin CodexSessions
                    /\ UNCHANGED <<relayVars, children>>]_vars
  BY IndicatorStep
<1> QED
  BY <1>1, InitCool, CoolStep, Invariance, PTL DEF Spec, IndicatorOutlivesChild

-----------------------------------------------------------------------------
(* The relay implements ChildSlots.                                        *)

Slot == [t \in Targets |-> SlotOf(t)]
Held(t) == \E c \in Cmds : Holding(c) /\ children[c].target = t
Reserved(t) == t \in starting \cup newStarting
Cooling(t) == \/ t \in Sessions /\ cooldowns[t] > 0
              \/ t \in Dirs /\ newCooldowns[t] > 0

LEMMA SlotIs ==
  ASSUME NEW t
  PROVE  SlotOf(t) = IF Held(t) THEN "occupied"
                     ELSE IF Reserved(t) THEN "reserved"
                     ELSE IF Cooling(t) THEN "cooling" ELSE "free"
BY DEF SlotOf, Held, Reserved, Cooling

\* A child keeps its hold unless it is forked, released or orphaned.
LEMMA HoldKept ==
  ASSUME RelayInv, [Next]_vars, NEW c \in Cmds, ~Restart, ~Forks(c),
         ~ReleaseManaged(c), ~ReleaseStarted(c)
  PROVE  /\ Holding(c)' <=> Holding(c)
         /\ Holding(c) => children'[c].target = children[c].target
<1>c. children[c] \in Children
  BY DEF RelayInv, TypeOK
<1>1. CASE Keeps(c)
  BY <1>1 DEF Keeps, Holding
<1>2. CASE Ends(c)
  BY <1>2 DEF Ends, Holding, Fresh
<1>3. CASE Watched(c) \/ Reaped(c)
  <2>1. /\ children'[c].watch \in {"wait", "release"}
        /\ children'[c].os # "none"
        /\ children'[c].target = children[c].target
        /\ children[c].watch \in {"none", "wait"} /\ children[c].os # "none"
    BY <1>c, <1>3 DEF Watched, Reaped, Children, Acknowledge, RelayInv,
       HandlerOwns, Unwatched, WatchersHold
  <2> QED
    BY <2>1 DEF Holding
<1>4. CASE Signalled(c)
  BY <1>c, <1>4 DEF Signalled, Holding, Children
<1>5. CASE Exits(c)
  BY <1>c, <1>5, ExitedFields DEF Exits, Holding, Fresh
<1>6. CASE Cleared(c) \/ Reported(c)
  BY <1>c, <1>6 DEF Cleared, Reported, Holding, Children
<1> QED
  BY ChildMoves, <1>1, <1>2, <1>3, <1>4, <1>5, <1>6 DEF Moves, Released,
     Started, Orphaned

\* A step that moves one slot.
LEMMA OneMove ==
  ASSUME NEW u \in Targets, NEW a, NEW b, SlotOf(u) = a, SlotOf(u)' = b,
         \A t \in Targets \ {u} : SlotOf(t)' = SlotOf(t)
  PROVE  Slots!Move(u, a, b)
BY DEF Slots!Move

LEMMA NoMove ==
  ASSUME \A t \in Targets : SlotOf(t)' = SlotOf(t)
  PROVE  Slot' = Slot
BY DEF Slot

\* A reserved target is nobody's until the child is forked.
LEMMA ReservedFree ==
  ASSUME RelayInv, handler.pc \in (Reserving \ {"activate"}) \cup NewReserving
  PROVE  /\ handler.target \in Targets /\ Reserved(handler.target)
         /\ ~Held(handler.target)
         /\ handler.pc \in Reserving => handler.target \in Sessions
         /\ handler.pc \in NewReserving => handler.target \in Dirs
<1> USE SetAssumption DEF Targets
<1>t. starting \subseteq Sessions /\ newStarting \subseteq Dirs
  BY DEF RelayInv, TypeOK
<1>1. CASE handler.pc \in Reserving \ {"activate"}
  <2>1. handler.target \in starting /\ managed[handler.target] = None
        /\ handler.pc \notin NewReserving
    BY <1>1 DEF RelayInv, HandlerOwns, Reserving, NewReserving
  <2>2. ~Held(handler.target)
    BY <1>1, <1>t, <2>1 DEF RelayInv, HoldersRecorded, Held
  <2> QED
    BY <1>1, <1>t, <2>1, <2>2 DEF Reserved
<1>2. CASE handler.pc \in NewReserving
  BY <1>2, <1>t DEF RelayInv, HandlerOwns, Held, Reserved, NewReserving,
     Reserving
<1> QED
  BY <1>1, <1>2

\* Every step of the relay is a step of the slots, or leaves them.
LEMMA SlotStep == RelayInv /\ CoolInv /\ [Next]_vars => [Slots!Next]_Slot
<1> SUFFICES ASSUME RelayInv, CoolInv, [Next]_vars
             PROVE  Slots!Next \/ Slot' = Slot
  OBVIOUS
<1> USE SetAssumption, BoundAssumption
<1>t. CoolTypes
  BY DEF RelayInv, TypeOK, CoolTypes
<1>s. /\ \A t : SlotOf(t) = IF Held(t) THEN "occupied"
                            ELSE IF Reserved(t) THEN "reserved"
                            ELSE IF Cooling(t) THEN "cooling" ELSE "free"
      /\ \A t : SlotOf(t)' = IF Held(t)' THEN "occupied"
                             ELSE IF Reserved(t)' THEN "reserved"
                             ELSE IF Cooling(t)' THEN "cooling" ELSE "free"
  BY SlotIs DEF SlotOf, Held, Reserved, Cooling
<1>h. ASSUME ~Restart, ~StartResume, ~StartNew,
             \A c \in Cmds : ~ReleaseManaged(c) /\ ~ReleaseStarted(c)
      PROVE  \A t : Held(t)' <=> Held(t)
  BY <1>h, HoldKept DEF Forks, Held
<1>r. ASSUME UNCHANGED children
      PROVE  \A t : Held(t)' <=> Held(t)
  BY <1>r DEF Held, Holding
<1>m. ASSUME NEW u \in Targets, NEW a, NEW b, Slots!Move(u, a, b),
             <<a, b>> \in {<<"free", "reserved">>, <<"reserved", "free">>,
                          <<"reserved", "occupied">>, <<"occupied", "cooling">>}
      PROVE  Slots!Next
  BY <1>m DEF Slots!Next, Slots!Reserve, Slots!Abandon, Slots!Fork,
     Slots!Release
<1>1. CASE ReserveResume
  <2> SUFFICES ASSUME NEW s, s = handler.target
               PROVE  Slots!Next \/ Slot' = Slot
    OBVIOUS
  <2>0. s \in Sessions /\ s \in Targets
    BY <1>1 DEF ReserveResume, RelayInv, HandlerOwns, ResumePCs, Targets
  <2>1. UNCHANGED <<children, newStarting, cooldowns, newCooldowns>>
    BY <1>1 DEF ReserveResume
  <2>2. CASE MayResume(s)
    <3>1. starting' = starting \cup {s} /\ s \notin newStarting
      BY <1>1, <1>t, <2>0, <2>2 DEF ReserveResume, CoolTypes
    <3>2. ~Held(s) /\ ~Reserved(s) /\ ~Cooling(s)
      BY <1>1, <1>t, <2>0, <2>2, <3>1 DEF MayResume, ReserveResume, RelayInv,
         HoldersRecorded, Held, Reserved, Cooling, CoolTypes
    <3>3. SlotOf(s) = "free" /\ SlotOf(s)' = "reserved"
      BY <1>s, <1>r, <2>1, <3>1, <3>2 DEF Reserved
    <3>4. \A t \in Targets \ {s} : SlotOf(t)' = SlotOf(t)
      BY <1>s, <1>r, <2>1, <3>1 DEF Reserved, Cooling
    <3> QED
      BY <1>m, <2>0, <3>3, <3>4, OneMove
  <2>3. CASE ~MayResume(s)
    <3>1. UNCHANGED starting
      BY <1>1, <2>3 DEF ReserveResume
    <3> QED
      BY <1>s, <1>r, <2>1, <3>1, NoMove DEF Reserved, Cooling
  <2> QED
    BY <2>2, <2>3
<1>2. CASE ReserveStart
  <2> SUFFICES ASSUME NEW d, d = handler.target
               PROVE  Slots!Next \/ Slot' = Slot
    OBVIOUS
  <2>0. d \in Dirs /\ d \in Targets /\ d \notin Sessions
    BY <1>2 DEF ReserveStart, RelayInv, HandlerOwns, StartPCs, Targets
  <2>1. UNCHANGED <<children, starting, cooldowns, newCooldowns>>
    BY <1>2 DEF ReserveStart
  <2>2. CASE MayStart(d)
    <3>1. newStarting' = newStarting \cup {d} /\ d \notin starting
      BY <1>2, <1>t, <2>0, <2>2 DEF ReserveStart, CoolTypes
    <3>2. ~Held(d) /\ ~Reserved(d) /\ ~Cooling(d)
      BY <1>2, <1>t, <2>0, <2>2, <3>1 DEF MayStart, ReserveStart, RelayInv,
         HoldersRecorded, Held, Reserved, Cooling, CoolTypes
    <3>3. SlotOf(d) = "free" /\ SlotOf(d)' = "reserved"
      BY <1>s, <1>r, <2>1, <3>1, <3>2 DEF Reserved
    <3>4. \A t \in Targets \ {d} : SlotOf(t)' = SlotOf(t)
      BY <1>s, <1>r, <2>1, <3>1 DEF Reserved, Cooling
    <3> QED
      BY <1>m, <2>0, <3>3, <3>4, OneMove
  <2>3. CASE ~MayStart(d)
    <3>1. UNCHANGED newStarting
      BY <1>2, <2>3 DEF ReserveStart
    <3> QED
      BY <1>s, <1>r, <2>1, <3>1, NoMove DEF Reserved, Cooling
  <2> QED
    BY <2>2, <2>3
<1>3. CASE ReleaseReservation
  <2> SUFFICES ASSUME NEW s, s = handler.target
               PROVE  Slots!Next \/ Slot' = Slot
    OBVIOUS
  <2>0. s \in Sessions /\ s \in Targets /\ ~Held(s) /\ Reserved(s)
    BY <1>3, ReservedFree DEF ReleaseReservation, Reserving
  <2>1. /\ UNCHANGED <<children, newStarting, cooldowns, newCooldowns>>
        /\ starting' = starting \ {s}
    BY <1>3 DEF ReleaseReservation
  <2>2. ~Reserved(s)' /\ ~Cooling(s)
    BY <1>t, <2>0, <2>1 DEF Reserved, Cooling, CoolInv, CoolTypes
  <2>3. SlotOf(s) = "reserved" /\ SlotOf(s)' = "free"
    BY <1>s, <1>r, <2>0, <2>1, <2>2 DEF Cooling
  <2>4. \A t \in Targets \ {s} : SlotOf(t)' = SlotOf(t)
    BY <1>s, <1>r, <2>1 DEF Reserved, Cooling
  <2> QED
    BY <1>m, <2>0, <2>3, <2>4, OneMove
<1>4. CASE ReleaseNewSession
  <2> SUFFICES ASSUME NEW d, d = handler.target
               PROVE  Slots!Next \/ Slot' = Slot
    OBVIOUS
  <2>0. d \in Dirs /\ d \in Targets /\ ~Held(d) /\ Reserved(d)
    BY <1>4, ReservedFree DEF ReleaseNewSession, NewReserving
  <2>1. /\ UNCHANGED <<children, starting, cooldowns, newCooldowns>>
        /\ newStarting' = newStarting \ {d}
    BY <1>4 DEF ReleaseNewSession
  <2>2. ~Reserved(d)' /\ ~Cooling(d)
    BY <1>t, <2>0, <2>1 DEF Reserved, Cooling, CoolInv, CoolTypes
  <2>3. SlotOf(d) = "reserved" /\ SlotOf(d)' = "free"
    BY <1>s, <1>r, <2>0, <2>1, <2>2 DEF Cooling
  <2>4. \A t \in Targets \ {d} : SlotOf(t)' = SlotOf(t)
    BY <1>s, <1>r, <2>1 DEF Reserved, Cooling
  <2> QED
    BY <1>m, <2>0, <2>3, <2>4, OneMove
<1>5. ASSUME NEW c \in Cmds, NEW n, Spawn(c, n), children[c] = Fresh,
             handler.pc \in {"start", "newStart"},
             UNCHANGED slotVars
      PROVE  Slots!Next
  <2> SUFFICES ASSUME NEW u, u = handler.target
               PROVE  Slots!Next
    OBVIOUS
  <2>0. u \in Targets /\ ~Held(u) /\ Reserved(u)
    BY <1>5, ReservedFree DEF Reserving, NewReserving
  <2>1. PICK p : children' = [children EXCEPT ![c] = Spawned(c, p)]
    BY <1>5 DEF Spawn
  <2>2. /\ children'[c] = Spawned(c, p)
        /\ \A e \in Cmds \ {c} : children'[e] = children[e]
    BY <1>t, <2>1 DEF CoolTypes
  <2>3. /\ Spawned(c, p).os = "running" /\ Spawned(c, p).watch = "none"
        /\ Spawned(c, p).target = u /\ children[c].os = "none"
    BY <1>5 DEF Spawned, Fresh
  <2>4. Held(u)'
    BY <2>2, <2>3 DEF Held, Holding
  <2>5. \A t : t # u => (Held(t)' <=> Held(t))
    BY <2>2, <2>3 DEF Held, Holding
  <2>6. SlotOf(u) = "reserved" /\ SlotOf(u)' = "occupied"
    BY <1>s, <2>0, <2>4
  <2>7. \A t \in Targets \ {u} : SlotOf(t)' = SlotOf(t)
    BY <1>5, <1>s, <2>5 DEF Reserved, Cooling
  <2> QED
    BY <1>m, <2>0, <2>6, <2>7, OneMove
<1>6. CASE StartResume \/ StartNew
  <2>1. /\ UNCHANGED slotVars /\ handler.pc \in {"start", "newStart"}
        /\ \/ UNCHANGED children
           \/ \E n : \E c \in Cmds : Spawn(c, n) /\ children[c] = Fresh
    BY <1>6 DEF StartResume, StartNew, FreeCmds, RelayInv, HandlerOwns
  <2>2. CASE UNCHANGED children
    BY <1>s, <1>r, <2>1, <2>2, NoMove DEF Reserved, Cooling
  <2> QED
    BY <1>5, <2>1, <2>2
<1>7. CASE ActivateResume
  <2> SUFFICES ASSUME NEW s, s = handler.target
               PROVE  Slots!Next \/ Slot' = Slot
    OBVIOUS
  <2>1. /\ UNCHANGED <<children, newStarting, cooldowns, newCooldowns>>
        /\ starting' = starting \ {s}
    BY <1>7 DEF ActivateResume
  <2>2. Held(s)
    BY <1>7 DEF ActivateResume, RelayInv, HandlerOwns, Unwatched, Held, Holding
  <2>3. \A t : t # s => (Reserved(t)' <=> Reserved(t))
    BY <2>1 DEF Reserved
  <2> QED
    BY <1>s, <1>r, <2>1, <2>2, <2>3, NoMove DEF Cooling
<1>8. ASSUME NEW c \in Cmds, ReleaseManaged(c) PROVE Slots!Next
  <2> SUFFICES ASSUME NEW s, s = children[c].target
               PROVE  Slots!Next
    OBVIOUS
  <2>1. /\ s \in Sessions /\ s \in Targets /\ Holding(c) /\ managed[s] = c
        /\ UNCHANGED <<starting, newStarting, newCooldowns>>
        /\ cooldowns' = [cooldowns EXCEPT ![s] = ResumeCooldown]
    BY <1>8, ReleasesOwn DEF ReleaseManaged, Targets
  <2>2. /\ children'[c].watch = "clear"
        /\ \A e \in Cmds \ {c} : children'[e] = children[e]
    BY <1>8, <1>t DEF ReleaseManaged, CoolTypes, Children
  <2>3. Held(s) /\ ~Held(s)'
    <3>1. Held(s)
      BY <2>1 DEF Held
    <3>2. ~Held(s)'
      BY <2>1, <2>2 DEF Held, Holding, RelayInv, OneChildPerTarget
    <3> QED
      BY <3>1, <3>2
  <2>4. \A t : t # s => (Held(t)' <=> Held(t))
    BY <2>2 DEF Held, Holding
  <2>5. ~Reserved(s)' /\ Cooling(s)'
    BY <1>t, <2>1 DEF Reserved, Cooling, CoolTypes, RelayInv,
       ReservationsOwned, HandlerOwns, Reserving
  <2>6. SlotOf(s) = "occupied" /\ SlotOf(s)' = "cooling"
    BY <1>s, <2>3, <2>5
  <2>7. \A t \in Targets \ {s} : SlotOf(t)' = SlotOf(t)
    BY <1>s, <1>t, <2>1, <2>4 DEF Reserved, Cooling, CoolTypes
  <2> QED
    BY <1>m, <2>1, <2>6, <2>7, OneMove
<1>9. ASSUME NEW c \in Cmds, ReleaseStarted(c) PROVE Slots!Next
  <2> SUFFICES ASSUME NEW d, d = children[c].target
               PROVE  Slots!Next
    OBVIOUS
  <2>1. /\ d \in Dirs /\ d \in Targets /\ Holding(c) /\ d \notin starting
        /\ UNCHANGED <<starting, cooldowns>>
        /\ newStarting' = newStarting \ {d}
        /\ newCooldowns' = [newCooldowns EXCEPT ![d] = StartCooldown]
    BY <1>9, <1>t DEF ReleaseStarted, Targets, RelayInv, WatchersHold, Holding,
       CoolTypes
  <2>2. /\ children'[c].watch = "report"
        /\ \A e \in Cmds \ {c} : children'[e] = children[e]
    BY <1>9, <1>t DEF ReleaseStarted, CoolTypes, Children
  <2>3. Held(d) /\ ~Held(d)'
    <3>1. Held(d)
      BY <2>1 DEF Held
    <3>2. ~Held(d)'
      BY <2>1, <2>2 DEF Held, Holding, RelayInv, OneChildPerTarget
    <3> QED
      BY <3>1, <3>2
  <2>4. \A t : t # d => (Held(t)' <=> Held(t))
    BY <2>2 DEF Held, Holding
  <2>5. ~Reserved(d)' /\ Cooling(d)'
    BY <1>t, <2>1 DEF Reserved, Cooling, CoolTypes
  <2>6. SlotOf(d) = "occupied" /\ SlotOf(d)' = "cooling"
    BY <1>s, <2>3, <2>5
  <2>7. \A t \in Targets \ {d} : SlotOf(t)' = SlotOf(t)
    BY <1>s, <1>t, <2>1, <2>4 DEF Reserved, Cooling, CoolTypes
  <2> QED
    BY <1>m, <2>1, <2>6, <2>7, OneMove
<1>10. CASE Tick
  <2> DEFINE T == {t \in Targets : SlotOf(t) = "cooling" /\ SlotOf(t)' = "free"}
  <2>1. /\ UNCHANGED <<children, starting, newStarting>>
        /\ cooldowns' = [s \in Sessions |-> Less(cooldowns[s])]
        /\ newCooldowns' = [d \in Dirs |-> Less(newCooldowns[d])]
    BY <1>10 DEF Tick
  <2>2. \A t : Cooling(t)' => Cooling(t)
    BY <1>t, <2>1 DEF Cooling, CoolTypes, Less
  <2>3. \A t \in Targets : \/ SlotOf(t)' = SlotOf(t)
                           \/ SlotOf(t) = "cooling" /\ SlotOf(t)' = "free"
    BY <1>s, <1>r, <2>1, <2>2 DEF Reserved
  <2>4. Slots!CoolDown(T)
    BY <2>3 DEF Slots!CoolDown
  <2> QED
    BY <2>4 DEF Slots!Next
<1>11. CASE Restart
  <2>1. \A c \in Cmds : ~Holding(c)'
    BY <1>11, <1>t DEF Restart, Holding, Fresh, CoolTypes, Children
  <2>2. \A t \in Targets : ~Held(t)' /\ ~Reserved(t)' /\ ~Cooling(t)'
    BY <1>11, <2>1 DEF Restart, Held, Reserved, Cooling
  <2>3. Slots!Restart
    BY <1>s, <2>2 DEF Slots!Restart
  <2> QED
    BY <2>3 DEF Slots!Next
<1> QED
  <2>1. ASSUME ~Restart, ~StartResume, ~StartNew,
               \A c \in Cmds : ~ReleaseManaged(c) /\ ~ReleaseStarted(c),
               UNCHANGED <<starting, newStarting, cooldowns, newCooldowns>>
        PROVE  Slot' = Slot
    BY <2>1, <1>h, <1>s, NoMove DEF Reserved, Cooling
  <2>2. \/ ReserveResume \/ ReserveStart \/ ReleaseReservation
        \/ ReleaseNewSession \/ StartResume \/ StartNew \/ ActivateResume
        \/ \E c \in Cmds : ReleaseManaged(c) \/ ReleaseStarted(c)
        \/ Tick \/ Restart
        \/ UNCHANGED <<starting, newStarting, cooldowns, newCooldowns>>
    BY DEF Next, Receive, HandlerStep, ObserverStep, WatcherStep,
       ReceiveQuery, ReceiveResume, ReceiveStart, ReceiveCancel,
       ResumeCommand, RegisterResume, WithdrawResume, ShowManaged,
       Acknowledge, StartCommand, SigTerm, SigKill, AcknowledgeCancel, Reap,
       ClearManaged, Report, SendFailure, ProcessExits, AdapterUpdate,
       AdapterRemove, ForwardUpdate, ForwardRemoval, ConsumeRegistration,
       vars
  <2> QED
    BY <1>1, <1>2, <1>3, <1>4, <1>6, <1>7, <1>8, <1>9, <1>10, <1>11,
       <2>1, <2>2

\* The relay implements the slots of ChildSlots: a process is forked only under
\* a reservation of its target, is released exactly once, and a cooldown
\* follows before the target can be reserved again.
THEOREM RelayImplementsSlots == Spec => SlotsImplemented
<1>1. Init => Slots!Init
  <2> SUFFICES ASSUME Init PROVE Slots!Init
    OBVIOUS
  <2>1. \A t \in Targets : ~Held(t) /\ ~Reserved(t) /\ ~Cooling(t)
    BY DEF Init, Held, Holding, Fresh, Reserved, Cooling
  <2>2. \A t \in Targets : SlotOf(t) = "free"
    BY <2>1, SlotIs
  <2> QED
    BY <2>2 DEF Slots!Init
<1> QED
  BY <1>1, InitCool, CoolStep, SlotStep, Invariance, PTL
     DEF Spec, SlotsImplemented, Slots!Spec, Slot
=============================================================================
