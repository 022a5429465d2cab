---------------------------- MODULE ManagedRelay ----------------------------
(***************************************************************************)
(* Remote control of local agent processes by the Connector                *)
(* (internal/observerrelay/relay.go): the handlers that readLoop runs one  *)
(* at a time for observe.start, observe.resume and observe.managed_cancel, *)
(* one watcher goroutine per child process, the children themselves, the   *)
(* reservations and cooldowns that keep two of them from working on one    *)
(* session or directory, and the part of the session projection that the   *)
(* handlers read and write (multiobserver's locations map, the adapters'   *)
(* managed indicator and resume registrations).                            *)
(*                                                                         *)
(* A step of the model is one critical section (managedMu, requestsMu, the *)
(* observers' mu), one system call or one write to the socket.  Time is a  *)
(* tick: every deadline in the code is kept as the ticks left to it.       *)
(***************************************************************************)
EXTENDS Integers, FiniteSets

CONSTANTS
    Sessions,        \* public session ids
    CodexSessions,   \* those whose adapter is a resumeRegistrar
    Dirs,            \* values of newSessionKey(cwd)
    RequestIDs,      \* request_id values of browser messages
    Cmds,            \* exec.Cmd handles: bounds the children alive at once
    PIDs,            \* process ids the operating system hands out
    None,            \* no handle, no pid, no target
    ResumeCooldown,  \* resumeCooldown in ticks
    StartCooldown,   \* startCooldown in ticks
    RequestTTL,      \* the two minutes a request id is remembered, in ticks
    ClearBound,      \* ticks a watcher may stall between release and clear
    QueueCap,        \* capacity of an adapter's updates and removals channels
    MaxCrashes       \* bound: restarts of the Connector in a behaviour

Targets == Sessions \cup Dirs

ASSUME SetAssumption ==
    /\ Sessions \cap Dirs = {}
    /\ CodexSessions \subseteq Sessions
    /\ None \notin Targets /\ None \notin Cmds
    /\ None \notin PIDs /\ None \notin RequestIDs
    /\ IsFiniteSet(Cmds)

ASSUME BoundAssumption ==
    /\ ResumeCooldown \in Nat \ {0} /\ StartCooldown \in Nat \ {0}
    /\ RequestTTL \in Nat /\ QueueCap \in Nat /\ MaxCrashes \in Nat
    /\ ClearBound \in 0 .. ResumeCooldown - 1

VARIABLES
    requests,         \* ticks for which a claimed request id is remembered
    managed,          \* relay.managed: session -> its child, or None
    cancelRequested,  \* sessions whose managed entry has cancelRequested
    starting,         \* relay.starting
    cooldowns,        \* ticks left of relay.cooldowns
    newStarting,      \* relay.newStarting
    newCooldowns,     \* ticks left of relay.newCooldowns
    handler,          \* the handler readLoop is in, its locals and position
    children,         \* child processes with their watcher goroutines
    known,            \* sessions an adapter has in its sessions map
    located,          \* sessions multiobserver has in sessions and locations
    active,           \* located sessions whose projected Status is active
    updates,          \* per session: updates waiting in the adapter's channel
    removals,         \* per session: removals waiting in the adapter's channel
    shown,            \* the adapter's ManagedProcess indicator of a session
    registered,       \* children with a pending resume registration
    spawns,           \* history: children started per remembered request id
    crashes           \* restarts so far

resumeVars == <<managed, cancelRequested, starting, cooldowns>>
newVars == <<newStarting, newCooldowns>>
slotVars == <<resumeVars, newVars>>
relayVars == <<requests, slotVars, handler>>
observerVars == <<known, located, active, updates, removals, shown>>
restVars == <<observerVars, registered, spawns, crashes>>
worldVars == <<children, restVars>>
vars == <<relayVars, worldVars>>

-----------------------------------------------------------------------------
Idle == [pc |-> "idle", req |-> None, target |-> None, cmd |-> None,
         pid |-> None]

At(pc, r, t) == [Idle EXCEPT !.pc = pc, !.req = r, !.target = t]

ResumePCs == {"reserve", "command", "register", "start", "withdraw",
              "unreserve", "activate", "show", "ack"}
StartPCs == {"newReserve", "newCommand", "newStart", "newRelease", "newAck"}
CancelPCs == {"sigterm", "sigkill", "cancelAck"}
PCs == {"idle"} \cup ResumePCs \cup StartPCs \cup CancelPCs

Handlers == [pc : PCs,
             req : RequestIDs \cup {None}, target : Targets \cup {None},
             cmd : Cmds \cup {None}, pid : PIDs \cup {None}]

\* os: the process; watch: its watcher goroutine ("none" before it is spawned);
\* killed: a cancel meant for this child has signalled it
Fresh == [os |-> "none", target |-> None, req |-> None, pid |-> None,
          watch |-> "none", silent |-> FALSE, killed |-> FALSE]

Children == [os : {"none", "running", "zombie", "reaped"},
             target : Targets \cup {None}, req : RequestIDs \cup {None},
             pid : PIDs \cup {None},
             watch : {"none", "wait", "release", "clear", "report", "send",
                      "orphan"},
             silent : BOOLEAN, killed : BOOLEAN]

HoldsPid(c) == children[c].os \in {"running", "zombie"}
FreePIDs == {p \in PIDs : \A c \in Cmds : HoldsPid(c) => children[c].pid # p}
FreeCmds == {c \in Cmds : children[c] = Fresh} \ registered

HandlesLeft == FreeCmds # {} /\ FreePIDs # {}   \* the bound on children

QueuedUnbounded(n) == n + 1                   \* mutant of Queued
Queued(n) == IF n < QueueCap THEN n + 1 ELSE n   \* send with a default case
Less(n) == IF n > 0 THEN n - 1 ELSE 0

Init ==
    /\ requests = [r \in RequestIDs |-> 0]
    /\ managed = [s \in Sessions |-> None]
    /\ cancelRequested = {}
    /\ starting = {}
    /\ cooldowns = [s \in Sessions |-> 0]
    /\ newStarting = {}
    /\ newCooldowns = [d \in Dirs |-> 0]
    /\ handler = Idle
    /\ children = [c \in Cmds |-> Fresh]
    /\ known \in SUBSET Sessions
    /\ located = known
    /\ active \in SUBSET located
    /\ updates = [s \in Sessions |-> IF s \in known THEN Queued(0) ELSE 0]
    /\ removals = [s \in Sessions |-> 0]
    /\ shown = [s \in Sessions |-> None]
    /\ registered = {}
    /\ spawns = [r \in RequestIDs |-> 0]
    /\ crashes = 0

-----------------------------------------------------------------------------
(* readLoop hands one message at a time to a handler, which first claims   *)
(* its request id; an id still remembered is dropped without an answer.    *)

CanClaimForgotten(r) == TRUE                  \* mutant of CanClaim
CanClaim(r) == requests[r] = 0

Claim(r) ==
    /\ handler.pc = "idle"
    /\ CanClaim(r)
    /\ requests' = [requests EXCEPT ![r] = RequestTTL + 1]

\* handleDetail and handleInput: nothing but the claim is kept.
ReceiveQuery(r) ==
    /\ Claim(r)
    /\ UNCHANGED <<slotVars, handler, worldVars>>

\* handleResume up to the reservation.  A session that is located and not
\* active may still fail CanResume or the prompt checks.
ReceiveResume(r, s) ==
    /\ Claim(r)
    /\ \/ handler' = Idle
       \/ /\ s \in located \ active /\ HandlesLeft
          /\ handler' = At("reserve", r, s)
    /\ UNCHANGED <<slotVars, worldVars>>

\* handleStart up to the reservation: the input checks may reject it.
ReceiveStart(r, d) ==
    /\ Claim(r)
    /\ \/ handler' = Idle
       \/ HandlesLeft /\ handler' = At("newReserve", r, d)
    /\ UNCHANGED <<slotVars, worldVars>>

FlaggedNotStored(s) == cancelRequested        \* mutant of Flagged

\* The flag handleCancel stores back into the managed entry.
Flagged(s) == cancelRequested \cup {s}

\* handleCancel up to the signals: marks the entry under managedMu.
ReceiveCancel(r, s) ==
    /\ Claim(r)
    /\ IF managed[s] = None
       THEN UNCHANGED <<cancelRequested, handler>>
       ELSE /\ cancelRequested' = Flagged(s)
            /\ handler' = [At("sigterm", r, s) EXCEPT
                             !.cmd = managed[s],
                             !.pid = children[managed[s]].pid]
    /\ UNCHANGED <<managed, starting, cooldowns, newVars, worldVars>>

-----------------------------------------------------------------------------
(* handleResume: reserve, build the command, register, start, activate,    *)
(* show, acknowledge and spawn the watcher.                                *)

MayResumeManaged(s) == s \notin starting /\ cooldowns[s] = 0
                                              \* mutant of MayResume
MayResumeHot(s) == managed[s] = None /\ s \notin starting
                                              \* mutant of MayResume
MayResume(s) == /\ managed[s] = None
                /\ s \notin starting
                /\ cooldowns[s] = 0

ReserveResume ==
    /\ handler.pc = "reserve"
    /\ LET s == handler.target IN
       IF MayResume(s)
       THEN /\ starting' = starting \cup {s}
            /\ handler' = [handler EXCEPT !.pc = "command"]
       ELSE /\ handler' = Idle
            /\ UNCHANGED starting
    /\ UNCHANGED <<requests, managed, cancelRequested, cooldowns, newVars,
                   worldVars>>

\* ResumeCommand looks the session up again, at its existence only.
ResumeCommand ==
    /\ handler.pc = "command"
    /\ handler' = [handler EXCEPT !.pc = IF handler.target \in located
                                         THEN "register" ELSE "unreserve"]
    /\ UNCHANGED <<requests, slotVars, worldVars>>

RegisterResume ==
    /\ handler.pc = "register"
    /\ \E c \in FreeCmds :
         /\ handler' = [handler EXCEPT !.pc = "start", !.cmd = c]
         /\ registered' = IF handler.target \in located \cap CodexSessions
                          THEN registered \cup {c} ELSE registered
    /\ UNCHANGED <<requests, slotVars, children, observerVars, spawns,
                   crashes>>

\* exec.Cmd.Start: forks a child for the handler's target under a free pid.
Spawned(c, p) ==
    [Fresh EXCEPT !.os = "running", !.target = handler.target,
                  !.req = handler.req, !.pid = p]

Spawn(c, next) ==
    \E p \in FreePIDs :
      /\ children' = [children EXCEPT ![c] = Spawned(c, p)]
      /\ spawns' = [spawns EXCEPT ![handler.req] = @ + 1]
      /\ handler' = [handler EXCEPT !.pc = next, !.cmd = c, !.pid = p]

StartResume ==
    /\ handler.pc = "start"
    /\ \/ Spawn(handler.cmd, "activate")
       \/ /\ handler' = [handler EXCEPT !.pc = "withdraw"]
          /\ UNCHANGED <<children, spawns>>
    /\ UNCHANGED <<requests, slotVars, observerVars, registered, crashes>>

\* multiobserver.CancelResume gives up when the session has no location.
Withdrawn(c, s) == IF s \in located THEN registered \ {c} ELSE registered

WithdrawResume ==
    /\ handler.pc = "withdraw"
    /\ registered' = Withdrawn(handler.cmd, handler.target)
    /\ handler' = [handler EXCEPT !.pc = "unreserve"]
    /\ UNCHANGED <<requests, slotVars, children, observerVars, spawns,
                   crashes>>

ReleaseReservationLeak ==                     \* mutant of ReleaseReservation
    /\ handler.pc = "unreserve"
    /\ handler' = Idle
    /\ UNCHANGED <<requests, slotVars, worldVars>>

\* The deferred releaseResumeReservation of every failing return.
ReleaseReservation ==
    /\ handler.pc = "unreserve"
    /\ starting' = starting \ {handler.target}
    /\ handler' = Idle
    /\ UNCHANGED <<requests, managed, cancelRequested, cooldowns, newVars,
                   worldVars>>

ActivateResume ==
    /\ handler.pc = "activate"
    /\ starting' = starting \ {handler.target}
    /\ managed' = [managed EXCEPT ![handler.target] = handler.cmd]
    /\ cancelRequested' = cancelRequested \ {handler.target}
    /\ handler' = [handler EXCEPT !.pc = "show"]
    /\ UNCHANGED <<requests, cooldowns, newVars, worldVars>>

\* SetManaged of multiobserver and of the adapter: needs the location and a
\* session in the adapter, and publishes the changed session.
SetManaged(s, c) ==
    IF s \in located \cap known
    THEN /\ shown' = [shown EXCEPT ![s] = c]
         /\ updates' = [updates EXCEPT ![s] = Queued(@)]
    ELSE UNCHANGED <<updates, shown>>

ShowManaged ==
    /\ handler.pc = "show"
    /\ SetManaged(handler.target, handler.cmd)
    /\ handler' = [handler EXCEPT !.pc = "ack"]
    /\ UNCHANGED <<requests, slotVars, children, known, located, active,
                   removals, registered, spawns, crashes>>

\* Write the started message, then `go watchManaged` or `go watchNewSession`.
Acknowledge ==
    /\ handler.pc \in {"ack", "newAck"}
    /\ children' = [children EXCEPT ![handler.cmd].watch = "wait"]
    /\ handler' = Idle
    /\ UNCHANGED <<requests, slotVars, restVars>>

-----------------------------------------------------------------------------
(* handleStart: newStarting holds the directory until the child has exited.*)

MayStartHot(d) == d \notin newStarting         \* mutant of MayStart
MayStart(d) == /\ d \notin newStarting
               /\ newCooldowns[d] = 0

ReserveStart ==
    /\ handler.pc = "newReserve"
    /\ LET d == handler.target IN
       IF MayStart(d)
       THEN /\ newStarting' = newStarting \cup {d}
            /\ handler' = [handler EXCEPT !.pc = "newCommand"]
       ELSE /\ handler' = Idle
            /\ UNCHANGED newStarting
    /\ UNCHANGED <<requests, resumeVars, newCooldowns, worldVars>>

\* StartCommand fails unless some observed Codex session has this directory.
StartCommand ==
    /\ handler.pc = "newCommand"
    /\ \E next \in {"newStart", "newRelease"} :
         handler' = [handler EXCEPT !.pc = next]
    /\ UNCHANGED <<requests, slotVars, worldVars>>

StartNew ==
    /\ handler.pc = "newStart"
    /\ \/ \E c \in FreeCmds : Spawn(c, "newAck")
       \/ /\ handler' = [handler EXCEPT !.pc = "newRelease"]
          /\ UNCHANGED <<children, spawns>>
    /\ UNCHANGED <<requests, slotVars, observerVars, registered, crashes>>

ReleaseNewSession ==
    /\ handler.pc = "newRelease"
    /\ newStarting' = newStarting \ {handler.target}
    /\ handler' = Idle
    /\ UNCHANGED <<requests, resumeVars, newCooldowns, worldVars>>

-----------------------------------------------------------------------------
(* handleCancel: TerminatePID signals the process group twice, 250 ms      *)
(* apart, without a lock; whoever holds the pid by then is hit.            *)

Hit(c) == children[c].os = "running" /\ children[c].pid = handler.pid

SigTerm ==
    /\ handler.pc = "sigterm"
    /\ \/ handler' = Idle                    \* the signal failed: cancel_failed
          /\ UNCHANGED children
       \/ /\ children' = [c \in Cmds |->
                IF Hit(c) /\ c = handler.cmd
                THEN [children[c] EXCEPT !.killed = TRUE]
                ELSE children[c]]
          /\ handler' = [handler EXCEPT !.pc = "sigkill"]
    /\ UNCHANGED <<requests, slotVars, restVars>>

\* A process leaves: its parent still has to reap it, an orphan has none.
Exited(child) == IF child.watch = "orphan"
                 THEN Fresh
                 ELSE [child EXCEPT !.os = "zombie"]

SigKillSkipped ==                             \* mutant of SigKill
    /\ handler.pc = "sigkill"
    /\ handler' = [handler EXCEPT !.pc = "cancelAck"]
    /\ UNCHANGED <<requests, slotVars, worldVars>>

SigKill ==
    /\ handler.pc = "sigkill"
    /\ children' = [c \in Cmds |-> IF Hit(c) THEN Exited(children[c])
                                             ELSE children[c]]
    /\ handler' = [handler EXCEPT !.pc = "cancelAck"]
    /\ UNCHANGED <<requests, slotVars, restVars>>

AcknowledgeCancel ==
    /\ handler.pc = "cancelAck"
    /\ handler' = Idle
    /\ UNCHANGED <<requests, slotVars, worldVars>>

-----------------------------------------------------------------------------
(* watchManaged and watchNewSession.                                       *)

\* exec.Cmd.Wait reaps the zombie first and then waits for stderr to close:
\* the pid is free while the entry is still there.
Reap(c) ==
    /\ children[c].watch = "wait" /\ children[c].os = "zombie"
    /\ children' = [children EXCEPT ![c].os = "reaped",
                                    ![c].watch = "release"]
    /\ UNCHANGED <<relayVars, restVars>>

FreedNot(s) == managed                        \* mutant of Freed
Freed(s) == [managed EXCEPT ![s] = None]

\* releaseManagedResume: takes the entry out by session and starts the
\* cooldown; the copy of the entry decides later whether to report.
ReleaseManaged(c) ==
    LET s == children[c].target IN
    /\ children[c].watch = "release" /\ s \in Sessions
    /\ children' = [children EXCEPT
          ![c].watch = "clear",
          ![c].silent = managed[s] = None \/ s \in cancelRequested]
    /\ managed' = Freed(s)
    /\ cancelRequested' = cancelRequested \ {s}
    /\ cooldowns' = IF managed[s] = None THEN cooldowns
                    ELSE [cooldowns EXCEPT ![s] = ResumeCooldown]
    /\ UNCHANGED <<requests, starting, newVars, handler, restVars>>

\* releaseNewSessionAfterExit.
ReleaseStarted(c) ==
    LET d == children[c].target IN
    /\ children[c].watch = "release" /\ d \in Dirs
    /\ children' = [children EXCEPT ![c].watch = "report"]
    /\ newStarting' = newStarting \ {d}
    /\ newCooldowns' = [newCooldowns EXCEPT ![d] = StartCooldown]
    /\ UNCHANGED <<requests, resumeVars, handler, restVars>>

\* SetManaged(sessionID, nil).
ClearManaged(c) ==
    /\ children[c].watch = "clear"
    /\ SetManaged(children[c].target, None)
    /\ children' = [children EXCEPT ![c].watch = "report"]
    /\ UNCHANGED <<relayVars, known, located, active, removals, registered,
                   spawns, crashes>>

\* Only a failed child whose copied entry has no cancel flag is reported.
Reportable(c) == ~children[c].silent

Report(c) ==
    /\ children[c].watch = "report"
    /\ \/ /\ children' = [children EXCEPT ![c] = Fresh]
          /\ UNCHANGED registered
       \/ /\ Reportable(c)
          /\ children' = [children EXCEPT ![c].watch = "send"]
          /\ registered' \in {registered,      \* withdrawn if the writer is busy
                              Withdrawn(c, children[c].target)}
    /\ UNCHANGED <<relayVars, observerVars, spawns, crashes>>

SendFailure(c) ==
    /\ children[c].watch = "send"
    /\ children' = [children EXCEPT ![c] = Fresh]
    /\ UNCHANGED <<relayVars, restVars>>

-----------------------------------------------------------------------------
(* The environment: processes end, log files change, the projection        *)
(* follows, time passes, the Connector is killed and restarted.            *)

ProcessExits(c) ==
    /\ children[c].os = "running"
    /\ children' = [children EXCEPT ![c] = Exited(@)]
    /\ UNCHANGED <<relayVars, restVars>>

\* What becomes of the indicators when a log line of s is reduced.  Codex
\* carries it over; a line adapter builds the session anew, without it, from
\* the first line of a further log.
Carried(s) == IF s \in CodexSessions THEN {shown}
              ELSE {shown, [shown EXCEPT ![s] = None]}

\* setSessionLocked: a log line of s was reduced.
AdapterUpdate(s) ==
    /\ known' = known \cup {s}
    /\ updates' = [updates EXCEPT ![s] = Queued(@)]
    /\ shown' \in Carried(s)
    /\ UNCHANGED <<relayVars, children, located, active, removals, registered,
                   spawns, crashes>>

\* The last log file of s was truncated or deleted: the indicator goes too.
AdapterRemove(s) ==
    /\ s \in known
    /\ known' = known \ {s}
    /\ shown' = [shown EXCEPT ![s] = None]
    /\ removals' = [removals EXCEPT ![s] = Queued(@)]
    /\ UNCHANGED <<relayVars, children, located, active, updates, registered,
                   spawns, crashes>>

\* multiobserver.forward picks either channel when both are ready.
ForwardUpdate(s) ==
    /\ updates[s] > 0
    /\ updates' = [updates EXCEPT ![s] = @ - 1]
    /\ located' = located \cup {s}
    /\ active' \in {active \cup {s}, active \ {s}}
    /\ UNCHANGED <<relayVars, children, known, removals, shown, registered,
                   spawns, crashes>>

ForwardRemoval(s) ==
    /\ removals[s] > 0
    /\ removals' = [removals EXCEPT ![s] = @ - 1]
    /\ located' = located \ {s}
    /\ active' = active \ {s}
    /\ UNCHANGED <<relayVars, children, known, updates, shown, registered,
                   spawns, crashes>>

\* matchResumeLocked consumes a registration or expires it.
ConsumeRegistration(c) ==
    /\ c \in registered
    /\ registered' = registered \ {c}
    /\ UNCHANGED <<relayVars, children, observerVars, spawns, crashes>>

\* A handler is shorter than a tick except while it writes to the socket, and
\* a watcher clears the indicator within ClearBound ticks of the release.
Prompt ==
    /\ handler.pc \in {"idle", "ack", "newAck", "cancelAck"}
    /\ \A c \in Cmds : children[c].watch = "clear" =>
          cooldowns[children[c].target] > ResumeCooldown - ClearBound

TimeLeft == \/ \E r \in RequestIDs : requests[r] > 0
            \/ \E s \in Sessions : cooldowns[s] > 0
            \/ \E d \in Dirs : newCooldowns[d] > 0

Tick ==
    /\ Prompt /\ TimeLeft
    /\ requests' = [r \in RequestIDs |-> Less(requests[r])]
    /\ cooldowns' = [s \in Sessions |-> Less(cooldowns[s])]
    /\ newCooldowns' = [d \in Dirs |-> Less(newCooldowns[d])]
    /\ spawns' = [r \in RequestIDs |-> IF requests[r] <= 1 THEN 0
                                                           ELSE spawns[r]]
    /\ UNCHANGED <<managed, cancelRequested, starting, newStarting, handler,
                   children, observerVars, registered, crashes>>

\* The Connector dies and is restarted: its memory is gone, the first scan and
\* rebuild find the sessions on disk again, its children live on as orphans.
Restart ==
    /\ crashes < MaxCrashes
    /\ crashes' = crashes + 1
    /\ requests' = [r \in RequestIDs |-> 0]
    /\ managed' = [s \in Sessions |-> None]
    /\ cancelRequested' = {}
    /\ starting' = {}
    /\ cooldowns' = [s \in Sessions |-> 0]
    /\ newStarting' = {}
    /\ newCooldowns' = [d \in Dirs |-> 0]
    /\ handler' = Idle
    /\ children' = [c \in Cmds |->
          IF children[c].os = "running"
          THEN [children[c] EXCEPT !.watch = "orphan"] ELSE Fresh]
    /\ known' = known
    /\ located' = known
    /\ active' \in SUBSET known
    /\ updates' = [s \in Sessions |-> IF s \in known THEN Queued(0) ELSE 0]
    /\ removals' = [s \in Sessions |-> 0]
    /\ shown' = [s \in Sessions |-> None]
    /\ registered' = {}
    /\ spawns' = [r \in RequestIDs |-> 0]

-----------------------------------------------------------------------------
Receive ==
    \/ \E r \in RequestIDs : ReceiveQuery(r)
    \/ \E r \in RequestIDs, s \in Sessions : ReceiveResume(r, s)
    \/ \E r \in RequestIDs, d \in Dirs : ReceiveStart(r, d)
    \/ \E r \in RequestIDs, s \in Sessions : ReceiveCancel(r, s)

HandlerStep ==
    \/ ReserveResume \/ ResumeCommand \/ RegisterResume \/ StartResume
    \/ WithdrawResume \/ ReleaseReservation \/ ActivateResume \/ ShowManaged
    \/ Acknowledge
    \/ ReserveStart \/ StartCommand \/ StartNew \/ ReleaseNewSession
    \/ SigTerm \/ SigKill \/ AcknowledgeCancel

WatcherStep(c) ==
    \/ Reap(c) \/ ReleaseManaged(c) \/ ReleaseStarted(c)
    \/ ClearManaged(c) \/ Report(c) \/ SendFailure(c)

ObserverStep(s) ==
    \/ AdapterUpdate(s) \/ AdapterRemove(s)
    \/ ForwardUpdate(s) \/ ForwardRemoval(s)

Next ==
    \/ Receive
    \/ HandlerStep
    \/ \E c \in Cmds : WatcherStep(c) \/ ProcessExits(c)
    \/ \E s \in Sessions : ObserverStep(s)
    \/ \E c \in Cmds : ConsumeRegistration(c)
    \/ Tick
    \/ Restart

Spec == Init /\ [][Next]_vars

\* Goroutines that can run do run, and the clock advances.  Nothing makes a
\* child exit, a browser send or a log file change.
Fairness ==
    /\ WF_vars(HandlerStep)
    /\ \A c \in Cmds : WF_vars(WatcherStep(c))
    /\ WF_vars(Tick)

FairSpec == Spec /\ Fairness
-----------------------------------------------------------------------------
(* Properties.                                                             *)

\* Every variable keeps its type.
TypeOK ==
    /\ requests \in [RequestIDs -> 0 .. RequestTTL + 1]
    /\ managed \in [Sessions -> Cmds \cup {None}]
    /\ cancelRequested \in SUBSET Sessions
    /\ starting \in SUBSET Sessions
    /\ cooldowns \in [Sessions -> 0 .. ResumeCooldown]
    /\ newStarting \in SUBSET Dirs
    /\ newCooldowns \in [Dirs -> 0 .. StartCooldown]
    /\ handler \in Handlers
    /\ children \in [Cmds -> Children]
    /\ known \in SUBSET Sessions /\ located \in SUBSET Sessions
    /\ active \in SUBSET Sessions
    /\ updates \in [Sessions -> 0 .. QueueCap]
    /\ removals \in [Sessions -> 0 .. QueueCap]
    /\ shown \in [Sessions -> Cmds \cup {None}]
    /\ registered \in SUBSET Cmds
    /\ spawns \in [RequestIDs -> Nat]
    /\ crashes \in 0 .. MaxCrashes

\* A child of this run of the Connector whose watcher has not released it.
Holding(c) == /\ children[c].os # "none"
              /\ children[c].watch \in {"none", "wait", "release"}

\* No two children of the Connector ever work on one session, nor two new
\* conversations in one directory, from the fork to the watcher's release
\* (reserveResume, reserveNewSession and the two releases).
OneChildPerTarget ==
    \A c, d \in Cmds :
       Holding(c) /\ Holding(d) /\ children[c].target = children[d].target
          => c = d

\* No reservation leaks: every entry of starting, managed and newStarting
\* belongs to the running handler or to a child that will release it.
ReservationsOwned ==
    /\ \A s \in starting :
          /\ handler.target = s
          /\ handler.pc \in {"command", "register", "start", "withdraw",
                             "unreserve", "activate"}
    /\ \A s \in Sessions : managed[s] # None =>
          Holding(managed[s]) /\ children[managed[s]].target = s
    /\ \A d \in newStarting :
          \/ handler.target = d /\ handler.pc \in {"newCommand", "newStart",
                                                 "newRelease"}
          \/ \E c \in Cmds : Holding(c) /\ children[c].target = d

\* TerminatePID runs without a lock on a pid read earlier: no other process
\* of the Connector (an orphan of an earlier run included) holds that pid.
SignalsReachTarget ==
    handler.pc \in {"sigterm", "sigkill"} =>
       \A c \in Cmds : HoldsPid(c) /\ children[c].pid = handler.pid
                        => children[c].target = handler.target

\* The slot of a target as the relay's maps and the real processes define it.
SlotOf(t) ==
    IF \E c \in Cmds : Holding(c) /\ children[c].target = t THEN "occupied"
    ELSE IF t \in starting \cup newStarting THEN "reserved"
    ELSE IF \/ t \in Sessions /\ cooldowns[t] > 0
            \/ t \in Dirs /\ newCooldowns[t] > 0 THEN "cooling"
    ELSE "free"

Slots == INSTANCE ChildSlots WITH slot <- [t \in Targets |-> SlotOf(t)]

\* The relay implements the slots: processes are forked only under a
\* reservation, released exactly once and always followed by a cooldown.
SlotsImplemented == Slots!Spec

\* A child the user cancelled is never reported as a failed resume: the flag
\* is in the entry the watcher copies, whoever of the two comes first.
CancelSilencesFailure ==
    \A c \in Cmds : children[c].watch = "send" => ~children[c].killed

\* A redelivered request starts no second process while its id is remembered,
\* even after the first process has ended and the cooldown is over.
RedeliveryStartsNothing == \A r \in RequestIDs : spawns[r] <= 1

\* While a child holds its session, no handler and no watcher takes its
\* managed indicator (the dashboard's cancel button) away: no late
\* SetManaged(nil) of an earlier child's watcher does.  It goes with the
\* session or the Connector, and a session of a line adapter also loses it to
\* a log line (reduceLine), which is a step of the adapter alone.
IndicatorOutlivesChild ==
    [][\A s \in Sessions :
          LET c == shown[s] IN
          c # None /\ Holding(c) /\ children[c].target = s /\ shown'[s] # c
             => \/ s \notin known'
                \/ crashes' # crashes
                \/ s \notin CodexSessions /\ UNCHANGED <<relayVars, children>>
      ]_vars

\* Once a child has exited, its session can be continued again, and its
\* directory can take a new conversation, after a while.
TargetReusable ==
    /\ \A s \in Sessions :
         (\E c \in Cmds : children[c].os = "zombie" /\ children[c].target = s)
            ~> MayResume(s)
    /\ \A d \in Dirs :
         (\E c \in Cmds : children[c].os = "zombie" /\ children[c].target = d)
            ~> MayStart(d)

\* A child that got the cancel's SIGTERM ends, however it treats SIGTERM,
\* unless the Connector dies before the SIGKILL.
CancelTerminates ==
    \A c \in Cmds :
       children[c].killed ~> \/ children[c].os # "running"
                             \/ children[c].watch = "orphan"

\* codexobserver CancelResume: "removes a pending registration when the child
\* Codex process could not be started, so an unrelated future session cannot
\* be aliased".
FailedStartWithdrawn ==
    handler.pc = "unreserve" /\ handler.cmd # None
       => handler.cmd \notin registered

\* The guide: "An active session is never force-injected".  ResumeCommand
\* reads the projection again just before the start.
NeverResumesActive ==
    [][handler.pc = "command" /\ handler'.pc = "register"
          => handler.target \notin active]_vars

\* codexobserver SetManaged: "projects only a Connector-owned local PTY into
\* the outbound DTO": the indicator names a child that is still held, or one
\* whose watcher is about to clear it.
IndicatorOnlyWhileOwned ==
    \A s \in Sessions : shown[s] # None =>
       /\ children[shown[s]].target = s
       /\ Holding(shown[s]) \/ children[shown[s]].watch = "clear"
-----------------------------------------------------------------------------
(* The inductive strengthening: who may hold what, by handler position.    *)

\* Positions between reserveResume and activateManagedResume, between
\* reserveNewSession and the fork, and between the fork and the watcher.
Reserving == {"command", "register", "start", "withdraw", "unreserve",
              "activate"}
NewReserving == {"newCommand", "newStart", "newRelease"}
Unwatched == {"activate", "show", "ack", "newAck"}

\* The handler's locals fit its position, and it owns what it reserved.
HandlerOwns ==
    /\ handler.pc \in ResumePCs => handler.target \in Sessions
    /\ handler.pc \in StartPCs => handler.target \in Dirs
    /\ handler.pc \in ResumePCs \cup StartPCs => handler.req \in RequestIDs
    /\ handler.pc \in Reserving =>
          handler.target \in starting /\ managed[handler.target] = None
    /\ handler.pc \in NewReserving =>
          /\ handler.target \in newStarting
          /\ \A c \in Cmds : Holding(c) => children[c].target # handler.target
    /\ handler.pc \in {"start", "withdraw"} => handler.cmd \in Cmds
    /\ handler.pc = "start" => children[handler.cmd] = Fresh
    /\ handler.pc \in Unwatched =>
          /\ handler.cmd \in Cmds
          /\ children[handler.cmd].os # "none"
          /\ children[handler.cmd].watch = "none"
          /\ children[handler.cmd].target = handler.target

\* A child that holds a session is the one in managed, or the handler is
\* about to put it there; a child that holds a directory keeps newStarting.
HoldersRecorded ==
    \A c \in Cmds : Holding(c) =>
       \/ /\ children[c].target \in Sessions
          /\ \/ managed[children[c].target] = c
             \/ handler.pc = "activate" /\ handler.cmd = c
       \/ children[c].target \in newStarting

\* A watcher that waits for its child or is about to release it has one.
WatchersHold ==
    \A c \in Cmds : children[c].watch \in {"wait", "release"}
                      => children[c].os # "none"

\* The inductive invariant of the proofs.
RelayInv == /\ TypeOK /\ HandlerOwns /\ WatchersHold /\ HoldersRecorded
            /\ ReservationsOwned /\ OneChildPerTarget
=============================================================================
