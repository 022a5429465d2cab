--------------------------- MODULE ConnectorConfig ---------------------------
(***************************************************************************)
(* The identity of the device on disk (internal/connectorconfig/config.go) *)
(* and the processes of ai-connector that read and write it: LoadDefault   *)
(* with its migration of earlier locations, EnsureIdentity, the claim of   *)
(* pair, and Save, whose os.WriteFile empties the file before writing it.  *)
(*                                                                         *)
(* An identity stands for device_id, credential_id and key pair together,  *)
(* which are generated, stored and read together; the one a process would  *)
(* generate is named after the process.  The addresses in the file, the    *)
(* environment variables that override its fields, and files that lack     *)
(* only a part of an identity are left out.                                *)
(***************************************************************************)
EXTENDS Sequences

CONSTANTS
    Procs,     \* processes: bounds the commands of a behaviour
    Early,     \* the identity of a device that was paired before
    None,
    Found,     \* the files that earlier commands and builds may have left
    Searches   \* where the command of a process may look: DefaultPath and
               \* then legacyPaths

Ids == Procs \cup {Early}

VARIABLES
    platform,   \* the build: which service_*.go and secret_*.go it has
    files,      \* connector.json at each of the places it may be
    claimed,    \* external: identities the server has accepted with a code
    procs       \* the processes: command, position, locals and history

Platforms == {"windows", "linux", "darwin"}

\* The user's configuration directory, .agentboard in the working directory
\* and .agentboard beside the executable.
Places == {"home", "here", "exe"}

Absent == [state |-> "absent", id |-> None, sealed |-> FALSE]
Torn == [Absent EXCEPT !.state = "torn"]   \* emptied or cut short: not JSON

\* sealed: instead of the private key it holds protected_private_key.
Stored(i, sealed) == [state |-> "whole", id |-> i, sealed |-> sealed]
Blank == Stored(None, FALSE)               \* JSON that names no identity
Contents == {Absent, Torn, Blank} \cup {Stored(i, b) : i \in Ids, b \in BOOLEAN}

\* Without a configuration directory the default path is the working one, by
\* another name, so that it is looked at twice; a command given in another
\* directory does not see what is here.
Paths == {<<"home", "here", "exe">>, <<"home", "exe">>,
          <<"here", "here", "exe">>}

ASSUME NamesAssumption == Early \notin Procs /\ None \notin Ids
ASSUME SearchAssumption == Searches \in [Procs -> SUBSET Paths]
ASSUME FoundAssumption ==
    Found \subseteq [Places -> {Absent, Torn, Blank}
                                 \cup {Stored(Early, b) : b \in BOOLEAN}]

Verbs == {"pair", "observe", "status", "install", "uninstall", "start", "stop"}

Over == {"exited", "failed", "killed"}
Living == {"look", "truncate", "write", "claim", "serve", "install",
           "uninstall", "start", "spawn", "stop", "runners", "kill", "build",
           "wait"}

Alive(c) == procs[c].pc \in Living

\* seen: pids listed by service stop, or the child of `go run`.  History:
\* before, what ran when service start or stop was called; knew, the default
\* path held something when pair began, other than JSON without an identity.
Unborn == [pc |-> "unborn", verb |-> "status", search |-> <<"home", "exe">>,
           left |-> <<>>, id |-> None, seen |-> {}, before |-> {},
           knew |-> FALSE]

Gone(c, how) ==
    IF procs[c].verb = "stop" /\ how = "exited"
    THEN [Unborn EXCEPT !.pc = how, !.verb = "stop", !.before = procs[c].before]
    ELSE [Unborn EXCEPT !.pc = how]

Begun(verb, search, before) ==
    [Unborn EXCEPT !.pc = "look", !.verb = verb, !.search = search,
                   !.left = search, !.before = before,
                   !.knew = /\ verb = "pair"
                            /\ files[Head(search)] \notin {Absent, Blank}]

Become(c, process) == procs' = [procs EXCEPT ![c] = process]

Path(c) == Head(procs[c].search)

-----------------------------------------------------------------------------
(* LoadDefault: the default path, then the earlier ones in their order.    *)

\* What a command does once it has its configuration; without main.paired only
\* pair, uninstall, status and doctor go on.
After(verb, i) ==
    CASE verb = "pair" -> "claim"
      [] verb = "status" -> "exited"
      [] verb \notin {"pair", "status", "uninstall"} /\ i = None -> "failed"
      [] verb = "observe" /\ i # None -> "serve"
      [] OTHER -> verb

Loaded(c, i) ==
    IF After(procs[c].verb, i) \in Over THEN Gone(c, After(procs[c].verb, i))
    ELSE [procs[c] EXCEPT !.pc = After(procs[c].verb, i), !.left = <<>>,
                          !.id = i]

\* Save refuses a configuration that lacks the private key itself, or an id.
MaySave(file) == ~file.sealed /\ file.id # None

LookAt(c, file) ==
    LET p == procs[c] IN
    \/ /\ file = Absent
       /\ Become(c, IF Len(p.left) = 1 THEN Loaded(c, None)
                                       ELSE [p EXCEPT !.left = Tail(@)])
    \/ /\ file = Torn
       /\ Become(c, Gone(c, "failed"))
    \/ /\ file.state = "whole" /\ p.left = p.search
       /\ Become(c, Loaded(c, file.id))
    \/ /\ file.state = "whole" /\ p.left # p.search
       /\ Become(c, IF MaySave(file)
                    THEN [p EXCEPT !.pc = "truncate", !.id = file.id]
                    ELSE Gone(c, "failed"))

Look(c) ==
    /\ procs[c].pc = "look"
    /\ LookAt(c, files[Head(procs[c].left)])
    /\ UNCHANGED <<platform, files, claimed>>

-----------------------------------------------------------------------------
(* Save, of a migration or of pair: os.WriteFile is two system calls.      *)

EmptiedRemoved(place) == [files EXCEPT ![place] = Absent]   \* mutant of Emptied
Emptied(place) == [files EXCEPT ![place] = Torn]

Truncate(c) ==
    /\ procs[c].pc = "truncate"
    /\ files' = Emptied(Path(c))
    /\ Become(c, [procs[c] EXCEPT !.pc = "write"])
    /\ UNCHANGED <<platform, claimed>>

\* configForStorage seals the key where the platform can.  Over what another
\* process has written since the file was emptied, a longer end may be left.
Written(c) ==
    {Stored(procs[c].id, platform = "windows")}
       \cup IF files[Path(c)].state = "whole" THEN {Torn} ELSE {}

Write(c) ==
    /\ procs[c].pc = "write"
    /\ \E file \in Written(c) : files' = [files EXCEPT ![Path(c)] = file]
    /\ Become(c, IF procs[c].left # <<>> THEN Loaded(c, procs[c].id)
                                         ELSE Gone(c, "exited"))
    /\ UNCHANGED <<platform, claimed>>

-----------------------------------------------------------------------------
(* pair: an identity, the claim at the server, and only then Save.         *)

EnsuredNot(c) == procs[c].id                  \* mutant of Ensured
\* EnsureIdentity generates only what the configuration lacks.
Ensured(c) == IF procs[c].id = None THEN c ELSE procs[c].id

ClaimUnchecked(c) ==                          \* mutant of Claim
    /\ procs[c].pc = "claim"
    /\ claimed' \in {claimed, claimed \cup {Ensured(c)}}
    /\ Become(c, [procs[c] EXCEPT !.pc = "truncate", !.id = Ensured(c)])
    /\ UNCHANGED <<platform, files>>

Claim(c) ==
    /\ procs[c].pc = "claim"
    /\ \/ /\ claimed' = claimed \cup {Ensured(c)}
          /\ \/ Become(c, [procs[c] EXCEPT !.pc = "truncate",
                                           !.id = Ensured(c)])
             \/ Become(c, Gone(c, "failed"))         \* the answer was lost
       \/ /\ Become(c, Gone(c, "failed"))            \* the code was refused
          /\ UNCHANGED claimed
    /\ UNCHANGED <<platform, files>>
=============================================================================
