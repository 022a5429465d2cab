----------------------------- MODULE CommandLine -----------------------------
(***************************************************************************)
(* The commands of ai-connector (cmd/ai-connector): pair, observe serve,   *)
(* those that only read, and service install, uninstall, start and stop,   *)
(* with what they talk to: the Run key and the process list of Windows,    *)
(* systemd, launchd.  Commands run side by side, and any process may die   *)
(* between two of its steps.                                               *)
(***************************************************************************)
EXTENDS ConnectorConfig

CONSTANT
    Renamed    \* processes run from a file that is not named ai-connector.exe,
               \* as a release asset under its own name, or go.exe

ASSUME RenamedAssumption == Renamed \subseteq Procs

VARIABLES
    entry,     \* the Run value, the systemd unit or the LaunchAgent: who may
               \* run from the file it names, {} if it does not exist
    wanted,    \* external: the manager will start the observer when none runs
    job        \* external: the process the manager has started, or None

serviceVars == <<entry, wanted, job>>
vars == <<platform, files, claimed, procs, serviceVars>>

\* A device may have been paired before, by this build or an early one, and an
\* earlier command may have been cut short.
Init ==
    /\ platform \in Platforms
    /\ files \in Found
    /\ \A p \in Places : files[p].sealed => platform = "windows"
    /\ claimed = {Early}
    /\ procs = [c \in Procs |-> Unborn]
    /\ entry \in {{}, Renamed, Procs \ Renamed} /\ wanted = FALSE /\ job = None

\* What runs: observers, and `go run` processes that wait for one.
Runners == {c \in Procs : procs[c].pc \in {"build", "wait"}}
Observing == {c \in Procs : Alive(c) /\ procs[c].verb = "observe"} \ Runners

\* The list of observers that Windows gives: by command line and file name.
Observers == Observing \ Renamed

\* Who may run from the file that c was run from (os.Executable).
Namesakes(c) == IF c \in Renamed THEN Renamed ELSE Procs \ Renamed

Job == {c \in Procs : c = job /\ Alive(c)}

Unused == {c \in Procs : procs[c].pc = "unborn"}   \* the bound on processes

\* c ends, and what was running in S is killed.
End(c, how, S) ==
    procs' = [d \in Procs |-> IF d = c THEN Gone(d, how)
                              ELSE IF d \in S THEN Gone(d, "killed")
                              ELSE procs[d]]

Finish(c, S) == End(c, "exited", S)
Fail(c) == End(c, "failed", {})

\* A step on the configuration only.
ConfigStep(c) == /\ Look(c) \/ Truncate(c) \/ Write(c) \/ Claim(c)
                 /\ UNCHANGED serviceVars

-----------------------------------------------------------------------------
(* The user, the login session and the service manager start processes.    *)

Run(c) ==
    /\ procs[c].pc = "unborn"
    /\ \E verb \in Verbs, search \in Searches[c] :
         Become(c, Begun(verb, search,
                         IF verb \in {"start", "stop"}
                         THEN Observing \cup Runners ELSE {}))
    /\ UNCHANGED <<platform, files, claimed, serviceVars>>

\* `go run ./cmd/ai-connector observe serve` builds ai-connector.exe, runs it
\* as its child and waits for it.
GoRun(c) ==
    /\ procs[c].pc = "unborn"
    /\ Become(c, [Unborn EXCEPT !.pc = "build", !.verb = "observe"])
    /\ UNCHANGED <<platform, files, claimed, serviceVars>>

GoRunStarts(c) ==
    /\ procs[c].pc = "build"
    /\ \E d \in Unused \ Renamed : \E search \in Searches[d] :
         procs' = [procs EXCEPT ![c].pc = "wait", ![c].seen = {d},
                                ![d] = Begun("observe", search, {})]
    /\ UNCHANGED <<platform, files, claimed, serviceVars>>

GoRunEnds(c) ==
    /\ procs[c].pc = "wait" /\ \A d \in procs[c].seen : ~Alive(d)
    /\ Become(c, Gone(c, "exited"))
    /\ UNCHANGED <<platform, files, claimed, serviceVars>>

\* External: the Run key once per login, systemd's Restart=on-failure and
\* launchd's KeepAlive whenever the observer has ended.
ManagerStarts(c) ==
    /\ wanted /\ Job = {} /\ c \in Unused
    /\ platform = "windows" => c \in entry
    /\ Become(c, Begun("observe", <<"home", "exe">>, {}))
    /\ job' = c /\ wanted' = (platform # "windows")
    /\ UNCHANGED <<platform, files, claimed, entry>>

\* A crash, Ctrl-C, the task manager.
Die(c) ==
    /\ Alive(c)
    /\ Become(c, Gone(c, "killed"))
    /\ UNCHANGED <<platform, files, claimed, serviceVars>>

\* The user logs off, or the machine loses power, and logs in again; an entry
\* may have been disabled.
LoginAgain ==
    /\ procs' = [c \in Procs |-> IF Alive(c) THEN Gone(c, "killed")
                                             ELSE procs[c]]
    /\ wanted' \in {entry # {}, FALSE} /\ job' = None
    /\ UNCHANGED <<platform, files, claimed, entry>>

-----------------------------------------------------------------------------
(* service install and uninstall.                                          *)

\* reg add.
InstallWindows(c) ==
    /\ procs[c].pc = "install" /\ platform = "windows"
    /\ \/ entry' = Namesakes(c) /\ Finish(c, {})
       \/ UNCHANGED entry /\ Fail(c)
    /\ UNCHANGED <<platform, files, claimed, wanted, job>>

\* Writing the unit may fail, and so may daemon-reload or enable --now.
InstallLinux(c) ==
    /\ procs[c].pc = "install" /\ platform = "linux"
    /\ \/ entry' = Namesakes(c) /\ wanted' = TRUE /\ Finish(c, {})
       \/ entry' \in {entry, Namesakes(c)} /\ UNCHANGED wanted /\ Fail(c)
    /\ UNCHANGED <<platform, files, claimed, job>>

\* bootout ends a loaded agent; bootstrap, with RunAtLoad, may fail.
InstallDarwin(c) ==
    /\ procs[c].pc = "install" /\ platform = "darwin"
    /\ \/ entry' = Namesakes(c) /\ wanted' = TRUE /\ Finish(c, Job)
       \/ entry' = Namesakes(c) /\ wanted' = FALSE /\ End(c, "failed", Job)
       \/ UNCHANGED <<entry, wanted>> /\ Fail(c)
    /\ UNCHANGED <<platform, files, claimed, job>>

\* reg delete, if there is an entry; the observer goes on.
UninstallWindows(c) ==
    /\ procs[c].pc = "uninstall" /\ platform = "windows"
    /\ \/ entry' = {} /\ Finish(c, {})
       \/ UNCHANGED entry /\ Fail(c)
    /\ UNCHANGED <<platform, files, claimed, wanted, job>>

\* Whether the service was stopped is ignored; removing the unit may fail, and
\* daemon-reload after it.
UninstallLinux(c) ==
    /\ procs[c].pc = "uninstall" /\ platform = "linux"
    /\ \E how \in {"exited", "failed"} :
          /\ entry' \in {{}} \cup IF how = "failed" THEN {entry} ELSE {}
          /\ \/ wanted' = FALSE /\ End(c, how, Job)
             \/ UNCHANGED wanted /\ End(c, how, {})
    /\ UNCHANGED <<platform, files, claimed, job>>

\* So is what bootout has said; only removing the agent may fail.
UninstallDarwin(c) ==
    /\ procs[c].pc = "uninstall" /\ platform = "darwin"
    /\ \E how \in {"exited", "failed"} :
          /\ entry' = IF how = "failed" THEN entry ELSE {}
          /\ \/ wanted' = FALSE /\ End(c, how, Job)
             \/ UNCHANGED wanted /\ End(c, how, {})
    /\ UNCHANGED <<platform, files, claimed, job>>

-----------------------------------------------------------------------------
(* service start.                                                          *)

MayStartAlways == TRUE                        \* mutant of MayStart
MayStart == Observers = {}

\* Windows: only with a startup entry, and only if the process list is empty;
\* either may be unreadable.
StartWindows(c) ==
    /\ procs[c].pc = "start" /\ platform = "windows"
    /\ \/ entry # {} /\ MayStart /\ Become(c, [procs[c] EXCEPT !.pc = "spawn"])
       \/ entry # {} /\ ~MayStart /\ Finish(c, {})
       \/ Fail(c)
    /\ UNCHANGED <<platform, files, claimed, serviceVars>>

\* exec.Command(binary, "observe", "serve"), with the same environment.
SpawnObserver(c) ==
    /\ procs[c].pc = "spawn"
    /\ \/ \E d \in Unused \cap Namesakes(c) :
            procs' = [procs EXCEPT
                        ![c] = Gone(c, "exited"),
                        ![d] = Begun("observe", procs[c].search,
                                                procs[c].before)]
       \/ Fail(c)
    /\ UNCHANGED <<platform, files, claimed, serviceVars>>

\* systemctl start needs the unit, launchctl kickstart the loaded agent.
Startable == IF platform = "linux" THEN entry # {} ELSE wanted

StartManaged(c) ==
    /\ procs[c].pc = "start" /\ platform # "windows"
    /\ \/ Startable /\ Finish(c, {}) /\ wanted' = TRUE
       \/ Fail(c) /\ UNCHANGED wanted
    /\ UNCHANGED <<platform, files, claimed, entry, job>>

-----------------------------------------------------------------------------
(* service stop.                                                           *)

\* Windows: the observers, then the runners, then Stop-Process for both, each
\* by a powershell that may fail.
StopLists(c) ==
    /\ procs[c].pc = "stop" /\ platform = "windows"
    /\ \/ Become(c, [procs[c] EXCEPT !.pc = "runners", !.seen = Observers])
       \/ Fail(c)
    /\ UNCHANGED <<platform, files, claimed, serviceVars>>

ListedNot(c) == procs[c].seen                 \* mutant of Listed
Listed(c) == procs[c].seen \cup Runners

StopListsRunners(c) ==
    /\ procs[c].pc = "runners"
    /\ \/ Listed(c) = {} /\ Finish(c, {})
       \/ /\ Listed(c) # {}
          /\ Become(c, [procs[c] EXCEPT !.pc = "kill", !.seen = Listed(c)])
       \/ Fail(c)
    /\ UNCHANGED <<platform, files, claimed, serviceVars>>

StopKills(c) ==
    /\ procs[c].pc = "kill"
    /\ LET left == {d \in procs[c].seen : Alive(d)} IN
       \/ Finish(c, left)
       \/ \E S \in SUBSET left : End(c, "failed", S)
    /\ UNCHANGED <<platform, files, claimed, serviceVars>>

\* systemctl stop waits for the end.
StopLinux(c) ==
    /\ procs[c].pc = "stop" /\ platform = "linux"
    /\ \/ Finish(c, Job) /\ wanted' = FALSE
       \/ Fail(c) /\ UNCHANGED wanted
    /\ UNCHANGED <<platform, files, claimed, entry, job>>

\* launchctl kill sends a SIGTERM, which an observer that is connected
\* outlives, and KeepAlive starts one that has ended again.
StopDarwin(c) ==
    /\ procs[c].pc = "stop" /\ platform = "darwin"
    /\ \/ wanted /\ (Finish(c, Job) \/ Finish(c, {}))
       \/ Fail(c)
    /\ UNCHANGED <<platform, files, claimed, serviceVars>>

ServiceStep(c) ==
    \/ InstallWindows(c) \/ InstallLinux(c) \/ InstallDarwin(c)
    \/ UninstallWindows(c) \/ UninstallLinux(c) \/ UninstallDarwin(c)
    \/ StartWindows(c) \/ SpawnObserver(c) \/ StartManaged(c)
    \/ StopLists(c) \/ StopListsRunners(c) \/ StopKills(c)
    \/ StopLinux(c) \/ StopDarwin(c)

Next ==
    \/ \E c \in Procs :
          \/ ConfigStep(c) \/ ServiceStep(c)
          \/ Run(c) \/ GoRun(c) \/ GoRunStarts(c) \/ GoRunEnds(c)
          \/ ManagerStarts(c) \/ Die(c)
    \/ LoginAgain

Spec == Init /\ [][Next]_vars
-----------------------------------------------------------------------------
(* Properties.                                                             *)

Processes ==
    [pc : {"unborn"} \cup Living \cup Over, verb : Verbs, search : Paths,
     left : {<<>>, <<"exe">>, <<"here", "exe">>} \cup Paths,
     id : Ids \cup {None}, seen : SUBSET Procs, before : SUBSET Procs,
     knew : BOOLEAN]

\* Every variable keeps its type.
TypeOK ==
    /\ platform \in Platforms
    /\ files \in [Places -> Contents]
    /\ claimed \in SUBSET Ids
    /\ procs \in [Procs -> Processes]
    /\ entry \in SUBSET Procs /\ wanted \in BOOLEAN /\ job \in Procs \cup {None}

\* An observer never serves with an identity the server has not accepted,
\* whatever was cut short, migrated or paired again before: pair saves only
\* what was claimed, and whatever else is written was read from a whole file.
ServesClaimed ==
    \A c \in Procs : procs[c].pc = "serve" => procs[c].id \in claimed

\* A device that was paired is never taken for a new one: a pair that begins
\* when its default path holds anything, be it cut short, does not generate an
\* identity, whoever empties, writes or migrates the file in the meantime.
PairingNotForgotten ==
    \A c \in Procs :
       procs[c].pc = "claim" /\ procs[c].knew => Ensured(c) # c

\* On Windows service start adds no observer beside one that was already
\* running, under the name ai-connector.exe, when the command was given (two
\* commands given at once may both start one).  Elsewhere the manager looks at
\* its own process only: an observer run by hand does not keep it from starting.
StartSeesRunning ==
    platform = "windows" =>
       \A c, d \in Procs :
          c \in Observing /\ d \in Observers => d \notin procs[c].before

\* Once service stop has succeeded, this is left of what ran when it was given:
\* on Windows at most observers under another name than ai-connector.exe, and
\* no `go run` nor its child; on Linux all but the process of the unit.  On
\* macOS nothing is promised: a SIGTERM alone does not end an observer.
StopStops ==
    \A c \in Procs : procs[c].verb = "stop" /\ procs[c].pc = "exited" =>
       \A d \in procs[c].before :
          \/ ~Alive(d)
          \/ platform = "windows" /\ d \in Observing \ Observers
          \/ platform = "linux" /\ d # job
          \/ platform = "darwin"

\* "Stop or remove the service with: ai-connector service stop" (README.md:206):
\* on Windows, once that has succeeded, the observer that the startup entry had
\* started is not running.
StopStopsService ==
    platform = "windows" =>
       \A c \in Procs : procs[c].verb = "stop" /\ procs[c].pc = "exited" =>
          procs[c].before \cap Job = {}
=============================================================================
