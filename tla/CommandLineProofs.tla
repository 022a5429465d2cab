-------------------------- MODULE CommandLineProofs --------------------------
(***************************************************************************)
(* Proofs about CommandLine, for every set of processes and every state of *)
(* the machine that Found allows.                                          *)
(***************************************************************************)
EXTENDS CommandLine, TLAPS

\* What holds of every process: it has a place to look at while it looks, its
\* identity, if any, is one the server has accepted, and it has one wherever
\* the code uses it.
SoundFor(p, ids) ==
    /\ p \in Processes
    /\ p.pc = "look" => p.left # <<>>
    /\ p.id # None => p.id \in ids
    /\ p.pc \in {"truncate", "write", "serve"} => p.id # None

Sound(p) == SoundFor(p, claimed)

SoundFile(file) ==
    /\ file \in Contents
    /\ file.state = "whole" /\ file # Blank => file.id \in claimed

ProcsSound ==
    /\ procs \in [Procs -> Processes]
    /\ \A c \in Procs : Sound(procs[c])

FilesSound ==
    /\ files \in [Places -> Contents]
    /\ \A p \in Places : SoundFile(files[p])

RestTyped ==
    /\ platform \in Platforms /\ claimed \in SUBSET Ids
    /\ entry \in SUBSET Procs /\ wanted \in BOOLEAN /\ job \in Procs \cup {None}

\* The inductive invariant.
IdentityInv == ProcsSound /\ FilesSound /\ RestTyped

-----------------------------------------------------------------------------
(* The values that the steps give to a process.                            *)

\* A process that is not running.
LEMMA UnbornSound == Sound(Unborn)
<1>1. Unborn \in Processes
  BY DEF Unborn, Processes, Verbs, Paths
<1> QED
  BY <1>1 DEF Sound, SoundFor, Unborn

LEMMA GoneSound ==
  ASSUME ProcsSound, NEW c \in Procs, NEW how \in Over
  PROVE  Sound(Gone(c, how)) /\ Gone(c, how).pc = how
<1>1. procs[c].before \in SUBSET Procs
  BY DEF ProcsSound, Processes
<1>2. Gone(c, how) \in Processes
  BY <1>1 DEF Gone, Unborn, Processes, Verbs, Paths
<1>3. Gone(c, how).pc = how /\ Gone(c, how).id = None
  BY DEF Gone, Unborn
<1> QED
  BY <1>2, <1>3 DEF Sound, SoundFor, Over

LEMMA BegunSound ==
  ASSUME NEW verb \in Verbs, NEW search \in Paths, NEW before \in SUBSET Procs
  PROVE  Sound(Begun(verb, search, before))
<1>1. search # <<>>
  BY DEF Paths
<1>2. Begun(verb, search, before) \in Processes
  BY DEF Begun, Unborn, Processes, Living
<1> QED
  BY <1>1, <1>2 DEF Sound, SoundFor, Begun, Unborn

\* A command goes on with the identity it has found.
LEMMA LoadedSound ==
  ASSUME ProcsSound, NEW c \in Procs,
         NEW i \in (claimed \cup {None}) \cap (Ids \cup {None})
  PROVE  Sound(Loaded(c, i))
<1>1. procs[c] \in Processes
  BY DEF ProcsSound
<1>2. procs[c].verb \in Verbs
  BY <1>1 DEF Processes
<1>3. After(procs[c].verb, i) \in Over \cup Living
  BY <1>2 DEF After, Verbs, Over, Living
<1>4. /\ After(procs[c].verb, i) \notin {"look", "truncate", "write"}
      /\ After(procs[c].verb, i) = "serve" => i # None
  BY <1>2 DEF After, Verbs
<1>5. CASE After(procs[c].verb, i) \in Over
  BY <1>5, GoneSound DEF Loaded
<1>6. CASE After(procs[c].verb, i) \notin Over
  <2> DEFINE p == [procs[c] EXCEPT !.pc = After(procs[c].verb, i),
                                   !.left = <<>>, !.id = i]
  <2>1. p \in Processes
    BY <1>1, <1>3, <1>6 DEF Processes
  <2>2. p.pc = After(procs[c].verb, i) /\ p.id = i
    BY <1>1 DEF Processes
  <2>3. Sound(p)
    BY <2>1, <2>2, <1>4 DEF Sound, SoundFor
  <2> QED
    BY <2>3, <1>6 DEF Loaded
<1> QED
  BY <1>5, <1>6

-----------------------------------------------------------------------------
(* How the steps give them.                                                *)

LEMMA BecomeSound ==
  ASSUME ProcsSound, NEW c \in Procs, NEW p, Sound(p), Become(c, p),
         claimed' = claimed
  PROVE  ProcsSound'
BY DEF ProcsSound, Become, Sound, SoundFor

LEMMA EndSound ==
  ASSUME ProcsSound, NEW c \in Procs, NEW how \in Over, NEW S, End(c, how, S),
         claimed' = claimed
  PROVE  ProcsSound'
<1>1. \A d \in Procs : procs'[d] \in {Gone(d, how), Gone(d, "killed"), procs[d]}
  BY DEF End
<1>2. \A d \in Procs : Sound(Gone(d, how)) /\ Sound(Gone(d, "killed"))
  BY GoneSound DEF Over
<1>3. \A d \in Procs : Sound(procs'[d])
  BY <1>1, <1>2 DEF ProcsSound
<1>4. procs' \in [Procs -> Processes]
  BY <1>3 DEF End, Sound, SoundFor
<1> QED
  BY <1>3, <1>4 DEF ProcsSound, Sound

LEMMA SameFiles ==
  ASSUME FilesSound, files' = files, claimed' = claimed
  PROVE  FilesSound'
BY DEF FilesSound, SoundFile

-----------------------------------------------------------------------------
(* The steps on the configuration.                                         *)

LEMMA NoneNotId == None \notin Ids
BY NamesAssumption

LEMMA StoredContents ==
  ASSUME NEW i \in Ids, NEW b \in BOOLEAN
  PROVE  Stored(i, b) \in Contents /\ Stored(i, b).id = i
BY DEF Stored, Contents

\* JSON that names no identity.
LEMMA BlankIs == /\ Blank \in Contents /\ Blank.state = "whole"
                 /\ Blank.id = None /\ Blank # Absent /\ Blank # Torn
BY DEF Blank, Stored, Contents, Absent, Torn

\* What may be found at a place.
LEMMA ContentsCases ==
  ASSUME NEW file \in Contents
  PROVE  file = Absent \/ file = Torn \/ file.state = "whole"
<1>1. \A i \in Ids, b \in BOOLEAN : Stored(i, b).state = "whole"
  BY DEF Stored
<1> QED
  BY <1>1, BlankIs DEF Contents

LEMMA AbsentTorn == /\ Absent \in Contents /\ Absent.state # "whole"
                    /\ Torn \in Contents /\ Torn.state # "whole"
                    /\ Absent # Torn
BY DEF Absent, Torn, Contents

\* The rest of a search.
LEMMA TailLeft ==
  ASSUME ProcsSound, NEW c \in Procs, procs[c].pc = "look"
  PROVE  /\ Head(procs[c].left) \in Places
         /\ Len(procs[c].left) # 1 =>
               /\ Tail(procs[c].left) # <<>>
               /\ Tail(procs[c].left) \in {<<"exe">>, <<"here", "exe">>}
<1> DEFINE left == procs[c].left
<1>1. left \in {<<"exe">>, <<"here", "exe">>} \cup Paths
  BY DEF ProcsSound, Sound, SoundFor, Processes
<1>2. left \in {<<"exe">>, <<"here", "exe">>, <<"home", "here", "exe">>,
                <<"home", "exe">>, <<"here", "here", "exe">>}
  BY <1>1 DEF Paths
<1>3. Head(left) \in Places
  BY <1>2 DEF Places
<1>4. \A x, y : Tail(<<x, y>>) = <<y>>
  OBVIOUS
<1>5. \A x, y, z : Tail(<<x, y, z>>) = <<y, z>>
  OBVIOUS
<1>6. Len(<<"exe">>) = 1
  OBVIOUS
<1>7. <<"exe">> # <<>> /\ <<"here", "exe">> # <<>>
  OBVIOUS
<1> HIDE DEF left
<1>8. ASSUME Len(left) # 1
      PROVE  Tail(left) \in {<<"exe">>, <<"here", "exe">>}
  <2>1. CASE left = <<"here", "exe">> \/ left = <<"home", "exe">>
    BY <2>1, <1>4, Zenon
  <2>2. CASE \/ left = <<"home", "here", "exe">>
             \/ left = <<"here", "here", "exe">>
    BY <2>2, <1>5, Zenon
  <2> QED
    BY <1>2, <1>6, <1>8, <2>1, <2>2, Zenon
<1> QED
  BY <1>3, <1>7, <1>8, Zenon DEF left

LEMMA PathPlace ==
  ASSUME ProcsSound, NEW c \in Procs
  PROVE  Path(c) \in Places
<1>1. procs[c].search \in Paths
  BY DEF ProcsSound, Processes
<1> QED
  BY <1>1 DEF Path, Paths, Places

LEMMA LookStep ==
  ASSUME IdentityInv, NEW c \in Procs, Look(c)
  PROVE  ProcsSound' /\ FilesSound'
<1> DEFINE file == files[Head(procs[c].left)]
<1>1. ProcsSound /\ claimed' = claimed
  BY DEF IdentityInv, Look
<1>2. procs[c] \in Processes /\ procs[c].pc = "look" /\ Sound(procs[c])
  BY <1>1 DEF ProcsSound, Look
<1>3. SoundFile(file)
  BY <1>1, <1>2, TailLeft DEF IdentityInv, FilesSound
<1>4. FilesSound'
  BY SameFiles DEF IdentityInv, Look
<1>5. LookAt(c, file)
  BY DEF Look
<1> HIDE DEF file
<1>6. file = Absent \/ file = Torn \/ file.state = "whole"
  BY <1>3, ContentsCases DEF SoundFile
<1>7. Sound(Gone(c, "failed"))
  BY <1>1, GoneSound DEF Over
<1>8. CASE file = Absent
  <2> DEFINE p == [procs[c] EXCEPT !.left = Tail(@)]
  <2>1. Become(c, IF Len(procs[c].left) = 1 THEN Loaded(c, None) ELSE p)
    BY <1>5, <1>8, AbsentTorn, Zenon DEF LookAt
  <2>2. Sound(Loaded(c, None))
    BY <1>1, LoadedSound
  <2>3. Len(procs[c].left) # 1 => Sound(p)
    <3> SUFFICES ASSUME Len(procs[c].left) # 1 PROVE Sound(p)
      OBVIOUS
    <3>1. p \in Processes /\ p.left # <<>>
      BY <1>1, <1>2, TailLeft DEF Processes
    <3>2. p.id = procs[c].id /\ p.pc = "look"
      BY <1>2 DEF Processes
    <3> QED
      BY <1>2, <3>1, <3>2 DEF Sound, SoundFor
  <2> HIDE DEF p
  <2> QED
    BY <1>1, <1>4, <2>1, <2>2, <2>3, BecomeSound
<1>9. CASE file.state = "whole"
  <2> DEFINE p == [procs[c] EXCEPT !.pc = "truncate", !.id = file.id]
  <2>1. /\ file.id \in (claimed \cup {None}) \cap (Ids \cup {None})
        /\ file.id # None => file.id \in claimed /\ file.id \in Ids
    BY <1>3, <1>9, BlankIs DEF SoundFile, IdentityInv, RestTyped
  <2>2. \/ Become(c, Loaded(c, file.id))
        \/ file.id # None /\ Become(c, p)
        \/ Become(c, Gone(c, "failed"))
    BY <1>5, <1>9, AbsentTorn DEF LookAt, MaySave
  <2>3. file.id # None => Sound(p)
    <3> SUFFICES ASSUME file.id # None PROVE Sound(p)
      OBVIOUS
    <3>1. p \in Processes
      BY <1>2, <2>1 DEF Processes, Living
    <3>2. p.pc = "truncate" /\ p.id = file.id
      BY <1>2 DEF Processes
    <3> QED
      BY <3>1, <3>2, <2>1, NoneNotId DEF Sound, SoundFor
  <2>4. Sound(Loaded(c, file.id))
    BY <1>1, <2>1, LoadedSound
  <2> HIDE DEF p
  <2> QED
    BY <1>1, <1>4, <1>7, <2>2, <2>3, <2>4, BecomeSound
<1>10. CASE file = Torn
  <2>1. Become(c, Gone(c, "failed"))
    BY <1>5, <1>10, AbsentTorn DEF LookAt
  <2> QED
    BY <1>1, <1>4, <1>7, <2>1, BecomeSound
<1> QED
  BY <1>6, <1>8, <1>9, <1>10

\* os.WriteFile empties the file: nothing wrong can be read from it.
LEMMA TruncateStep ==
  ASSUME IdentityInv, NEW c \in Procs, Truncate(c)
  PROVE  ProcsSound' /\ FilesSound'
<1> DEFINE p == [procs[c] EXCEPT !.pc = "write"]
<1>1. procs[c] \in Processes /\ procs[c].pc = "truncate" /\ Sound(procs[c])
  BY DEF IdentityInv, ProcsSound, Truncate
<1>2. p \in Processes /\ p.pc = "write" /\ p.id = procs[c].id
  BY <1>1 DEF Processes, Living
<1>3. Sound(p)
  BY <1>1, <1>2 DEF Sound, SoundFor
<1>4. ProcsSound'
  BY <1>3, BecomeSound DEF IdentityInv, Truncate
<1>5. Torn \in Contents /\ Torn.state # "whole"
  BY DEF Torn, Absent, Contents
<1>6. files' = [files EXCEPT ![Path(c)] = Torn] /\ claimed' = claimed
  BY DEF Truncate, Emptied
<1>7. FilesSound'
  BY <1>5, <1>6 DEF IdentityInv, FilesSound, SoundFile
<1> QED
  BY <1>4, <1>7

LEMMA WriteStep ==
  ASSUME IdentityInv, NEW c \in Procs, Write(c)
  PROVE  ProcsSound' /\ FilesSound'
<1> DEFINE i == procs[c].id
<1>1. procs[c].pc = "write" /\ Sound(procs[c]) /\ claimed' = claimed
  BY DEF IdentityInv, ProcsSound, Write
<1>2. i \in claimed /\ i \in Ids
  BY <1>1 DEF Sound, SoundFor, IdentityInv, RestTyped
<1>3. Sound(Loaded(c, i)) /\ Sound(Gone(c, "exited"))
  BY <1>2, LoadedSound, GoneSound DEF IdentityInv, Over
<1>4. ProcsSound'
  BY <1>1, <1>3, BecomeSound DEF IdentityInv, Write
<1>5. PICK file \in Written(c) : files' = [files EXCEPT ![Path(c)] = file]
  BY DEF Write
<1>6. file \in Contents /\ (file.state = "whole" => file.id = i)
  BY <1>2, StoredContents, AbsentTorn DEF Written
<1>7. FilesSound'
  BY <1>1, <1>2, <1>5, <1>6 DEF IdentityInv, FilesSound, SoundFile
<1> QED
  BY <1>4, <1>7

\* claimed grows: what was sound stays so.
LEMMA ClaimStep ==
  ASSUME IdentityInv, NEW c \in Procs, Claim(c)
  PROVE  ProcsSound' /\ FilesSound' /\ claimed' \in SUBSET Ids
<1> DEFINE i == Ensured(c)
           p == [procs[c] EXCEPT !.pc = "truncate", !.id = i]
<1>1. procs[c] \in Processes /\ Sound(procs[c])
  BY DEF IdentityInv, ProcsSound
<1>2. i \in Ids
  BY <1>1 DEF Ensured, Processes, Ids
<1>3. claimed \subseteq claimed' /\ claimed' \in SUBSET Ids
  BY <1>2 DEF Claim, IdentityInv, RestTyped
<1>4. FilesSound'
  BY <1>3 DEF Claim, IdentityInv, FilesSound, SoundFile
<1>5. \A q : SoundFor(q, claimed) => SoundFor(q, claimed')
  BY <1>3 DEF SoundFor
<1>6. \/ Become(c, p) /\ i \in claimed'
      \/ Become(c, Gone(c, "failed"))
  BY DEF Claim
<1>7. i \in claimed' => SoundFor(p, claimed')
  <2>1. p \in Processes
    BY <1>1, <1>2 DEF Processes, Living
  <2>2. p.pc = "truncate" /\ p.id = i
    BY <1>1 DEF Processes
  <2> QED
    BY <2>1, <2>2, <1>2, NoneNotId DEF SoundFor
<1>8. SoundFor(Gone(c, "failed"), claimed')
  BY <1>5, GoneSound DEF IdentityInv, Over, Sound
<1>9. PICK q : Become(c, q) /\ SoundFor(q, claimed')
  BY <1>6, <1>7, <1>8
<1>10. ProcsSound'
  <2>1. \A d \in Procs : SoundFor(procs[d], claimed')
    BY <1>5 DEF IdentityInv, ProcsSound, Sound
  <2>2. procs' = [procs EXCEPT ![c] = q] /\ procs \in [Procs -> Processes]
    BY <1>9 DEF Become, IdentityInv, ProcsSound
  <2> QED
    BY <1>9, <2>1, <2>2 DEF ProcsSound, Sound, SoundFor
<1> QED
  BY <1>3, <1>4, <1>10

-----------------------------------------------------------------------------
(* The steps that start, end and move processes.                           *)

\* A step that only moves a process.
LEMMA MovedSound ==
  ASSUME ProcsSound, NEW c \in Procs, NEW seen \in SUBSET Procs,
         NEW pc \in {"runners", "kill", "spawn", "wait"}
  PROVE  Sound([procs[c] EXCEPT !.pc = pc, !.seen = seen])
<1> DEFINE p == [procs[c] EXCEPT !.pc = pc, !.seen = seen]
<1>1. procs[c] \in Processes /\ Sound(procs[c])
  BY DEF ProcsSound
<1>2. p \in Processes
  BY <1>1 DEF Processes, Living
<1>3. p.pc = pc /\ p.id = procs[c].id
  BY <1>1 DEF Processes
<1> QED
  BY <1>1, <1>2, <1>3 DEF Sound, SoundFor

LEMMA ListsTyped == /\ Observing \in SUBSET Procs /\ Runners \in SUBSET Procs
                    /\ Observers \in SUBSET Procs
BY DEF Observing, Observers, Runners

LEMMA NamesakesTyped == \A c : Namesakes(c) \in SUBSET Procs
BY RenamedAssumption DEF Namesakes

LEMMA SearchTyped == \A c \in Procs : Searches[c] \subseteq Paths
BY SearchAssumption

LEMMA RunStep ==
  ASSUME ProcsSound, NEW c \in Procs, Run(c)
  PROVE  ProcsSound'
<1>1. PICK verb \in Verbs, search \in Searches[c] :
        Become(c, Begun(verb, search,
                        IF verb \in {"start", "stop"}
                        THEN Observing \cup Runners ELSE {}))
  BY DEF Run
<1> DEFINE before == IF verb \in {"start", "stop"}
                     THEN Observing \cup Runners ELSE {}
<1>2. before \in SUBSET Procs /\ search \in Paths
  BY ListsTyped, SearchTyped
<1>3. Sound(Begun(verb, search, before))
  BY <1>2, BegunSound
<1> QED
  BY <1>1, <1>3, BecomeSound DEF Run

LEMMA GoRunStep ==
  ASSUME ProcsSound, NEW c \in Procs, GoRun(c)
  PROVE  ProcsSound'
<1> DEFINE p == [Unborn EXCEPT !.pc = "build", !.verb = "observe"]
<1>1. p \in Processes
  BY DEF Unborn, Processes, Verbs, Paths, Living
<1>2. Sound(p)
  BY <1>1 DEF Sound, SoundFor, Unborn
<1> QED
  BY <1>2, BecomeSound DEF GoRun

\* Two processes change: one moves or ends, and an observer begins.
LEMMA PairSound ==
  ASSUME ProcsSound, claimed' = claimed, NEW c \in Procs, NEW d \in Procs,
         NEW p, Sound(p), NEW q, Sound(q),
         procs' = [procs EXCEPT ![c] = p, ![d] = q]
  PROVE  ProcsSound'
<1>1. p \in Processes /\ q \in Processes
  BY DEF Sound, SoundFor
<1>2. procs \in [Procs -> Processes] /\ \A e \in Procs : Sound(procs[e])
  BY DEF ProcsSound
<1>3. \A e \in Procs : procs'[e] \in {p, q, procs[e]}
  BY <1>2
<1>4. \A e \in Procs : Sound(procs'[e])
  BY <1>2, <1>3
<1>5. procs' \in [Procs -> Processes]
  BY <1>1, <1>2
<1> QED
  BY <1>4, <1>5 DEF ProcsSound, Sound

LEMMA GoRunStartsStep ==
  ASSUME ProcsSound, NEW c \in Procs, GoRunStarts(c)
  PROVE  ProcsSound'
<1>1. PICK d \in Unused \ Renamed, search \in Paths :
        procs' = [procs EXCEPT ![c].pc = "wait", ![c].seen = {d},
                               ![d] = Begun("observe", search, {})]
  BY SearchTyped DEF GoRunStarts, Unused
<1>2. d \in Procs
  BY DEF Unused
<1> DEFINE p == [procs[c] EXCEPT !.pc = "wait", !.seen = {d}]
           q == Begun("observe", search, {})
<1>3. Sound(p)
  BY <1>2, MovedSound
<1>4. Sound(q)
  BY <1>2, BegunSound DEF Verbs
<1>5. procs \in [Procs -> Processes]
  BY DEF ProcsSound
<1>6. procs' = [procs EXCEPT ![c] = p, ![d] = q]
  BY <1>1, <1>2, <1>5
<1> QED
  BY <1>2, <1>3, <1>4, <1>6, PairSound DEF GoRunStarts

LEMMA SpawnStep ==
  ASSUME ProcsSound, NEW c \in Procs, SpawnObserver(c)
  PROVE  ProcsSound'
<1>0. CASE Fail(c)
  BY <1>0, EndSound DEF Fail, SpawnObserver, Over
<1> SUFFICES ASSUME ~Fail(c) PROVE ProcsSound'
  BY <1>0
<1>1. PICK d \in Unused :
        procs' = [procs EXCEPT
                    ![c] = Gone(c, "exited"),
                    ![d] = Begun("observe", procs[c].search, procs[c].before)]
  BY DEF SpawnObserver
<1>2. /\ d \in Procs /\ procs[c].search \in Paths
      /\ procs[c].before \in SUBSET Procs
  BY DEF Unused, ProcsSound, Processes
<1>3. Sound(Begun("observe", procs[c].search, procs[c].before))
  BY <1>2, BegunSound DEF Verbs
<1>4. Sound(Gone(c, "exited"))
  BY GoneSound DEF Over
<1> QED
  BY <1>1, <1>2, <1>3, <1>4, PairSound DEF SpawnObserver

LEMMA ManagerStep ==
  ASSUME ProcsSound, NEW c \in Procs, ManagerStarts(c)
  PROVE  ProcsSound'
<1>1. Sound(Begun("observe", <<"home", "exe">>, {}))
  BY BegunSound DEF Verbs, Paths
<1> QED
  BY <1>1, BecomeSound DEF ManagerStarts

\* A process that has ended was sound before.
LEMMA GoneStep ==
  ASSUME ProcsSound, NEW c \in Procs, GoRunEnds(c) \/ Die(c)
  PROVE  ProcsSound'
<1>1. Sound(Gone(c, "exited")) /\ Sound(Gone(c, "killed"))
  BY GoneSound DEF Over
<1> QED
  BY <1>1, BecomeSound DEF GoRunEnds, Die

LEMMA LoginStep ==
  ASSUME ProcsSound, LoginAgain
  PROVE  ProcsSound'
<1>1. \A c \in Procs : Sound(Gone(c, "killed")) /\ Sound(procs[c])
  BY GoneSound DEF Over, ProcsSound
<1>2. \A c \in Procs : procs'[c] \in {Gone(c, "killed"), procs[c]}
  BY DEF LoginAgain
<1>3. \A c \in Procs : Sound(procs'[c])
  BY <1>1, <1>2
<1>4. procs' \in [Procs -> Processes]
  BY <1>3 DEF LoginAgain, Sound, SoundFor
<1> QED
  BY <1>3, <1>4 DEF ProcsSound, Sound, LoginAgain

LEMMA ServiceSound ==
  ASSUME ProcsSound, NEW c \in Procs, ServiceStep(c)
  PROVE  ProcsSound'
<1>1. claimed' = claimed
  BY DEF ServiceStep, InstallWindows, InstallLinux, InstallDarwin,
         UninstallWindows, UninstallLinux, UninstallDarwin, StartWindows,
         SpawnObserver, StartManaged, StopLists, StopListsRunners, StopKills,
         StopLinux, StopDarwin
<1>2. ASSUME NEW how \in Over, NEW S, End(c, how, S) PROVE ProcsSound'
  BY <1>1, <1>2, EndSound
<1>3. ASSUME NEW S, Finish(c, S) \/ Fail(c) PROVE ProcsSound'
  BY <1>2, <1>3 DEF Finish, Fail, Over
<1>4. CASE InstallWindows(c) \/ InstallLinux(c) \/ InstallDarwin(c)
  BY <1>2, <1>3, <1>4 DEF InstallWindows, InstallLinux, InstallDarwin, Over
<1>5. CASE UninstallWindows(c) \/ UninstallLinux(c) \/ UninstallDarwin(c)
  BY <1>2, <1>3, <1>5
     DEF UninstallWindows, UninstallLinux, UninstallDarwin, Over
<1>6. CASE StartWindows(c)
  <2>1. Sound([procs[c] EXCEPT !.pc = "spawn"])
    <3>1. procs[c] \in Processes /\ Sound(procs[c])
      BY DEF ProcsSound
    <3>2. [procs[c] EXCEPT !.pc = "spawn"] \in Processes
      BY <3>1 DEF Processes, Living
    <3> QED
      BY <3>1, <3>2 DEF Sound, SoundFor, Processes
  <2> QED
    BY <1>1, <1>3, <1>6, <2>1, BecomeSound DEF StartWindows
<1>7. CASE SpawnObserver(c)
  BY <1>7, SpawnStep
<1>8. CASE StopLists(c)
  BY <1>1, <1>3, <1>8, MovedSound, ListsTyped, BecomeSound DEF StopLists
<1>9. CASE StopListsRunners(c)
  <2>1. Listed(c) \in SUBSET Procs
    BY ListsTyped DEF Listed, ProcsSound, Processes
  <2> QED
    BY <1>1, <1>3, <1>9, <2>1, MovedSound, BecomeSound DEF StopListsRunners
<1>10. CASE StartManaged(c) \/ StopKills(c) \/ StopLinux(c) \/ StopDarwin(c)
  BY <1>2, <1>3, <1>10 DEF StartManaged, StopKills, StopLinux, StopDarwin, Over
<1> QED
  BY <1>4, <1>5, <1>6, <1>7, <1>8, <1>9, <1>10 DEF ServiceStep

-----------------------------------------------------------------------------
(* The invariant.                                                          *)

LEMMA InitInv == Init => IdentityInv
<1> SUFFICES ASSUME Init PROVE IdentityInv
  OBVIOUS
<1>1. ProcsSound
  BY UnbornSound DEF Init, ProcsSound, Sound, SoundFor
<1>2. files \in [Places -> {Absent, Torn, Blank}
                             \cup {Stored(Early, b) : b \in BOOLEAN}]
  BY FoundAssumption DEF Init
<1>3. \A b \in BOOLEAN : SoundFile(Stored(Early, b))
  BY StoredContents DEF SoundFile, Init, Ids
<1>4. SoundFile(Absent) /\ SoundFile(Torn) /\ SoundFile(Blank)
  BY AbsentTorn, BlankIs DEF SoundFile
<1>5. \A p \in Places : SoundFile(files[p])
  BY <1>2, <1>3, <1>4
<1>6. FilesSound
  BY <1>2, <1>5 DEF FilesSound, SoundFile
<1>7. RestTyped
  BY RenamedAssumption DEF Init, RestTyped, Ids
<1> QED
  BY <1>1, <1>6, <1>7 DEF IdentityInv

LEMMA NextInv == IdentityInv /\ [Next]_vars => IdentityInv'
<1> SUFFICES ASSUME IdentityInv, [Next]_vars PROVE IdentityInv'
  OBVIOUS
<1>1. ProcsSound /\ FilesSound /\ RestTyped
  BY DEF IdentityInv
<1>2. ASSUME NEW c \in Procs, ConfigStep(c) PROVE IdentityInv'
  <2>1. ProcsSound' /\ FilesSound'
    BY <1>2, LookStep, TruncateStep, WriteStep, ClaimStep DEF ConfigStep
  <2>2. RestTyped'
    BY <1>1, <1>2, ClaimStep DEF RestTyped, ConfigStep, Look, Truncate, Write,
       Claim, serviceVars
  <2> QED
    BY <2>1, <2>2 DEF IdentityInv
<1>3. ASSUME NEW c \in Procs, ServiceStep(c) PROVE IdentityInv'
  <2>1. files' = files /\ claimed' = claimed /\ RestTyped'
    BY <1>1, <1>3, NamesakesTyped DEF RestTyped, ServiceStep, InstallWindows, InstallLinux,
       InstallDarwin, UninstallWindows, UninstallLinux, UninstallDarwin,
       StartWindows, SpawnObserver, StartManaged, StopLists, StopListsRunners,
       StopKills, StopLinux, StopDarwin, serviceVars
  <2> QED
    BY <1>1, <1>3, <2>1, ServiceSound, SameFiles DEF IdentityInv
<1>4. ASSUME NEW c \in Procs,
             \/ Run(c) \/ GoRun(c) \/ GoRunStarts(c) \/ GoRunEnds(c)
             \/ ManagerStarts(c) \/ Die(c)
      PROVE  IdentityInv'
  <2>1. ProcsSound'
    BY <1>1, <1>4, RunStep, GoRunStep, GoRunStartsStep, GoneStep, ManagerStep
  <2>2. files' = files /\ claimed' = claimed /\ RestTyped'
    BY <1>1, <1>4 DEF RestTyped, Run, GoRun, GoRunStarts, GoRunEnds,
       ManagerStarts, Die, serviceVars
  <2> QED
    BY <1>1, <2>1, <2>2, SameFiles DEF IdentityInv
<1>5. CASE LoginAgain
  <2>1. files' = files /\ claimed' = claimed /\ RestTyped'
    BY <1>1, <1>5 DEF RestTyped, LoginAgain
  <2> QED
    BY <1>1, <1>5, <2>1, LoginStep, SameFiles DEF IdentityInv
<1>6. CASE UNCHANGED vars
  BY <1>1, <1>6 DEF vars, serviceVars, IdentityInv, ProcsSound, FilesSound,
     SoundFile, RestTyped, Sound
<1> QED
  BY <1>2, <1>3, <1>4, <1>5, <1>6 DEF Next

\* Processes, files and accepted identities are always as IdentityInv says.
THEOREM Identities == Spec => []IdentityInv
BY InitInv, NextInv, PTL DEF Spec

\* Every variable of the command line keeps its type.
THEOREM TypeCorrect == Spec => []TypeOK
<1>1. IdentityInv => TypeOK
  BY DEF IdentityInv, ProcsSound, FilesSound, RestTyped, TypeOK
<1> QED
  BY <1>1, Identities, PTL

\* Whatever commands run side by side, are killed, migrate or pair again, an
\* observer only ever serves with an identity that the server has accepted.
THEOREM AcceptedServes == Spec => []ServesClaimed
<1>1. IdentityInv => ServesClaimed
  BY DEF IdentityInv, ProcsSound, Sound, SoundFor, ServesClaimed
<1> QED
  BY <1>1, Identities, PTL

-----------------------------------------------------------------------------
(* Pairing.  A process whose own identity has been claimed only saves it,  *)
(* so that one that still looks or claims finds another in the files; and  *)
(* a pair that knew its device takes what it finds at the first place.     *)

PairFor(c, p, ids, places) ==
    /\ c \in ids => p.pc \in {"truncate", "write"} \cup Over
    /\ c \in ids /\ p.pc \in {"truncate", "write"} => p.left = <<>>
    /\ p.pc = "claim" => p.left = <<>>
    /\ p.knew /\ p.pc = "look" => /\ p.left = p.search
                                  /\ places[Head(p.search)] \notin {Absent, Blank}
    /\ p.knew /\ p.pc \in {"truncate", "write"} => p.left = <<>>
    /\ p.knew /\ p.pc = "claim" => p.id # None

PairInv == \A c \in Procs : PairFor(c, procs[c], claimed, files)

\* What a step that leaves the files alone may make of a process.
Ended(c) == procs'[c].pc \in Over
Moved(c) == c \notin claimed /\ procs'[c].pc \in {"runners", "kill", "spawn",
                                                   "build", "wait"}
Started(c) ==
    /\ c \notin claimed
    /\ \E verb, search, before : procs'[c] = Begun(verb, search, before)

Quiet == \A c \in Procs : procs'[c] = procs[c] \/ Ended(c) \/ Moved(c)
                                               \/ Started(c)

LEMMA BegunPair ==
  ASSUME NEW c \in Procs, c \notin claimed, NEW verb, NEW search, NEW before
  PROVE  PairFor(c, Begun(verb, search, before), claimed, files)
<1> DEFINE p == Begun(verb, search, before)
<1>1. /\ p.pc = "look" /\ p.left = search /\ p.search = search
      /\ p.knew = (verb = "pair" /\ files[Head(search)] \notin {Absent, Blank})
  BY DEF Begun, Unborn
<1> QED
  BY <1>1 DEF PairFor

LEMMA QuietPair ==
  ASSUME PairInv, Quiet, files' = files, claimed' = claimed
  PROVE  PairInv'
<1> SUFFICES ASSUME NEW c \in Procs
             PROVE  PairFor(c, procs'[c], claimed, files)
  BY DEF PairInv
<1>1. CASE procs'[c] = procs[c]
  BY <1>1 DEF PairInv
<1>2. CASE Ended(c)
  BY <1>2 DEF Ended, PairFor, Over
<1>3. CASE Moved(c)
  BY <1>3 DEF Moved, PairFor
<1>4. CASE Started(c)
  BY <1>4, BegunPair DEF Started
<1> QED
  BY <1>1, <1>2, <1>3, <1>4 DEF Quiet

\* A process in the middle of another command has claimed nothing.
LEMMA Unclaimed ==
  ASSUME PairInv, NEW c \in Procs,
         procs[c].pc \notin {"truncate", "write"} \cup Over
  PROVE  c \notin claimed
BY DEF PairInv, PairFor

LEMMA EndQuiet ==
  ASSUME NEW c \in Procs, NEW how \in Over, NEW S, End(c, how, S)
  PROVE  Quiet
<1>1. \A d \in Procs : Gone(d, how).pc = how /\ Gone(d, "killed").pc = "killed"
  BY DEF Gone, Unborn
<1>2. \A d \in Procs : procs'[d] \in {Gone(d, how), Gone(d, "killed"), procs[d]}
  BY DEF End
<1> QED
  BY <1>1, <1>2 DEF Quiet, Ended, Over

\* One process changes.
LEMMA BecomeQuiet ==
  ASSUME ProcsSound, NEW c \in Procs, NEW p, Become(c, p),
         \/ p.pc \in Over
         \/ /\ c \notin claimed
            /\ p.pc \in {"runners", "kill", "spawn", "build", "wait"}
  PROVE  Quiet
BY DEF ProcsSound, Become, Quiet, Ended, Moved

LEMMA BeginQuiet ==
  ASSUME ProcsSound, PairInv, NEW c \in Unused, NEW verb, NEW search,
         NEW before, Become(c, Begun(verb, search, before))
  PROVE  Quiet
<1>1. c \in Procs /\ c \notin claimed
  BY Unclaimed DEF Unused, Over
<1>2. procs'[c] = Begun(verb, search, before)
  BY <1>1 DEF ProcsSound, Become
<1>3. \A d \in Procs : d # c => procs'[d] = procs[d]
  BY DEF ProcsSound, Become
<1> QED
  BY <1>1, <1>2, <1>3 DEF Quiet, Started

LEMMA GonePC == \A c, how : Gone(c, how).pc = how
BY DEF Gone, Unborn

LEMMA ServiceQuiet ==
  ASSUME ProcsSound, PairInv, NEW c \in Procs, ServiceStep(c)
  PROVE  Quiet
<1>0. ASSUME NEW how \in Over, NEW S, End(c, how, S) PROVE Quiet
  BY <1>0, EndQuiet
<1>1. ASSUME NEW S, Finish(c, S) \/ Fail(c) \/ End(c, "failed", S) PROVE Quiet
  BY <1>1, EndQuiet DEF Finish, Fail, Over
<1>2. CASE InstallWindows(c) \/ InstallLinux(c) \/ InstallDarwin(c)
  BY <1>1, <1>2 DEF InstallWindows, InstallLinux, InstallDarwin
<1>3. CASE UninstallWindows(c) \/ UninstallLinux(c) \/ UninstallDarwin(c)
  BY <1>0, <1>1, <1>3
     DEF UninstallWindows, UninstallLinux, UninstallDarwin, Over
<1>4. procs[c] \in Processes
  BY DEF ProcsSound
<1>5. CASE StartWindows(c)
  <2>1. [procs[c] EXCEPT !.pc = "spawn"].pc = "spawn"
    BY <1>4 DEF Processes
  <2>2. c \notin claimed
    BY <1>5, Unclaimed DEF StartWindows, Over
  <2> QED
    BY <1>1, <1>5, <2>1, <2>2, BecomeQuiet DEF StartWindows
<1>6. CASE SpawnObserver(c) /\ ~Fail(c)
  <2>1. PICK d \in Unused :
          procs' = [procs EXCEPT
                      ![c] = Gone(c, "exited"),
                      ![d] = Begun("observe", procs[c].search, procs[c].before)]
    BY <1>6 DEF SpawnObserver
  <2>2. d \in Procs /\ d \notin claimed /\ d # c
    BY <1>6, Unclaimed DEF Unused, Over, SpawnObserver
  <2>3. procs'[d] = Begun("observe", procs[c].search, procs[c].before)
    BY <2>1, <2>2 DEF ProcsSound
  <2>4. Gone(c, "exited").pc \in Over
    BY GonePC DEF Over
  <2>5. procs'[c].pc \in Over
    BY <2>1, <2>2, <2>4 DEF ProcsSound
  <2>6. \A e \in Procs : e # c /\ e # d => procs'[e] = procs[e]
    BY <2>1 DEF ProcsSound
  <2> QED
    BY <2>2, <2>3, <2>5, <2>6 DEF Quiet, Ended, Started
<1>7. CASE StopLists(c)
  <2>1. [procs[c] EXCEPT !.pc = "runners", !.seen = Observers].pc = "runners"
    BY <1>4 DEF Processes
  <2>2. c \notin claimed
    BY <1>7, Unclaimed DEF StopLists, Over
  <2> QED
    BY <1>1, <1>7, <2>1, <2>2, BecomeQuiet DEF StopLists
<1>8. CASE StopListsRunners(c)
  <2>1. [procs[c] EXCEPT !.pc = "kill", !.seen = Listed(c)].pc = "kill"
    BY <1>4 DEF Processes
  <2>2. c \notin claimed
    BY <1>8, Unclaimed DEF StopListsRunners, Over
  <2> QED
    BY <1>1, <1>8, <2>1, <2>2, BecomeQuiet DEF StopListsRunners
<1>9. CASE StartManaged(c) \/ StopKills(c) \/ StopLinux(c) \/ StopDarwin(c)
  BY <1>1, <1>9 DEF StartManaged, StopKills, StopLinux, StopDarwin
<1> QED
  BY <1>1, <1>2, <1>3, <1>5, <1>6, <1>7, <1>8, <1>9 DEF ServiceStep

LEMMA OtherQuiet ==
  ASSUME ProcsSound, PairInv,
         \/ LoginAgain
         \/ \E c \in Procs :
               \/ Run(c) \/ GoRun(c) \/ GoRunStarts(c) \/ GoRunEnds(c)
               \/ ManagerStarts(c) \/ Die(c)
  PROVE  Quiet
<1>1. CASE LoginAgain
  BY <1>1, GonePC DEF LoginAgain, Quiet, Ended, Over
<1>2. ASSUME NEW c \in Procs, Run(c) PROVE Quiet
  BY <1>2, BeginQuiet DEF Run, Unused
<1>3. ASSUME NEW c \in Procs, GoRun(c) PROVE Quiet
  <2>1. [Unborn EXCEPT !.pc = "build", !.verb = "observe"].pc = "build"
    BY DEF Unborn
  <2>2. c \notin claimed
    BY <1>3, Unclaimed DEF GoRun, Over
  <2> QED
    BY <1>3, <2>1, <2>2, BecomeQuiet DEF GoRun
<1>4. ASSUME NEW c \in Procs, GoRunStarts(c) PROVE Quiet
  <2>1. PICK d \in Unused \ Renamed, search \in Paths :
          procs' = [procs EXCEPT ![c].pc = "wait", ![c].seen = {d},
                                 ![d] = Begun("observe", search, {})]
    BY <1>4, SearchTyped DEF GoRunStarts, Unused
  <2>2. d \in Procs /\ d \notin claimed /\ d # c /\ c \notin claimed
    BY <1>4, Unclaimed DEF Unused, Over, GoRunStarts
  <2>3. procs \in [Procs -> Processes]
    BY DEF ProcsSound
  <2>4. procs'[d] = Begun("observe", search, {})
    BY <2>1, <2>2, <2>3
  <2>5. procs'[c].pc = "wait"
    BY <1>4, <2>1, <2>2, <2>3 DEF Processes
  <2>6. \A e \in Procs : e # c /\ e # d => procs'[e] = procs[e]
    BY <2>1, <2>3
  <2> QED
    BY <2>2, <2>4, <2>5, <2>6 DEF Quiet, Moved, Started
<1>5. ASSUME NEW c \in Procs, GoRunEnds(c) \/ Die(c) PROVE Quiet
  <2>1. Gone(c, "exited").pc \in Over /\ Gone(c, "killed").pc \in Over
    BY GonePC DEF Over
  <2> QED
    BY <1>5, <2>1, BecomeQuiet DEF GoRunEnds, Die
<1>6. ASSUME NEW c \in Procs, ManagerStarts(c) PROVE Quiet
  BY <1>6, BeginQuiet DEF ManagerStarts
<1> QED
  BY <1>1, <1>2, <1>3, <1>4, <1>5, <1>6

\* One process and the files change, and the default path of nobody empties.
LEMMA FilePair ==
  ASSUME IdentityInv, PairInv, NEW c \in Procs, NEW p, Become(c, p),
         claimed' = claimed, PairFor(c, p, claimed, files'),
         \A place \in Places : files[place] \notin {Absent, Blank}
                                  => files'[place] \notin {Absent, Blank}
  PROVE  PairInv'
<1> SUFFICES ASSUME NEW d \in Procs
             PROVE  PairFor(d, procs'[d], claimed, files')
  BY DEF PairInv
<1>1. procs \in [Procs -> Processes]
  BY DEF IdentityInv, ProcsSound
<1>2. CASE d = c
  BY <1>1, <1>2 DEF Become
<1>3. CASE d # c
  <2>1. procs'[d] = procs[d] /\ PairFor(d, procs[d], claimed, files)
    BY <1>1, <1>3 DEF Become, PairInv
  <2>2. Head(procs[d].search) \in Places
    BY PathPlace DEF IdentityInv, Path
  <2> QED
    BY <2>1, <2>2 DEF PairFor
<1> QED
  BY <1>2, <1>3

\* What a command does once it has loaded its configuration.
LEMMA LoadedPair ==
  ASSUME IdentityInv, NEW c \in Procs, c \notin claimed, NEW i,
         procs[c].knew => i # None
  PROVE  PairFor(c, Loaded(c, i), claimed, files)
<1>1. procs[c] \in Processes
  BY DEF IdentityInv, ProcsSound
<1> DEFINE pc == After(procs[c].verb, i)
<1>2. pc \notin {"look", "truncate", "write"}
  BY <1>1 DEF After, Processes, Verbs
<1> HIDE DEF pc
<1>3. CASE pc \in Over
  <2>1. Loaded(c, i).pc \in Over
    BY <1>3, GonePC DEF Loaded, pc
  <2> QED
    BY <2>1 DEF PairFor, Over
<1>4. CASE pc \notin Over
  <2> DEFINE p == [procs[c] EXCEPT !.pc = pc, !.left = <<>>, !.id = i]
  <2>1. /\ p.pc = pc /\ p.left = <<>> /\ p.id = i
        /\ p.knew = procs[c].knew
    BY <1>1 DEF Processes
  <2>2. Loaded(c, i) = p
    BY <1>4 DEF Loaded, pc
  <2> HIDE DEF p
  <2> QED
    BY <1>2, <2>1, <2>2 DEF PairFor
<1> QED
  BY <1>3, <1>4

\* A process that ends is fine with everything.
LEMMA GonePair ==
  ASSUME NEW c, NEW how \in Over, NEW ids, NEW places
  PROVE  PairFor(c, Gone(c, how), ids, places)
BY GonePC DEF PairFor, Over

LEMMA LookPair ==
  ASSUME IdentityInv, PairInv, NEW c \in Procs, Look(c)
  PROVE  PairInv'
<1> DEFINE file == files[Head(procs[c].left)]
<1>1. procs[c] \in Processes /\ procs[c].pc = "look"
  BY DEF IdentityInv, ProcsSound, Look
<1>2. claimed' = claimed /\ files' = files /\ LookAt(c, file)
  BY DEF Look
<1>3. c \notin claimed
  BY <1>1, Unclaimed DEF Over
<1>4. procs[c].knew => /\ procs[c].left = procs[c].search
                     /\ file \notin {Absent, Blank}
  BY <1>1 DEF PairInv, PairFor
<1>5. SoundFile(file)
  BY <1>1, TailLeft DEF IdentityInv, FilesSound
<1> HIDE DEF file
<1>6. PairFor(c, Gone(c, "failed"), claimed, files)
  BY GonePair DEF Over
<1>7. CASE file = Absent
  <2> DEFINE p == [procs[c] EXCEPT !.left = Tail(@)]
  <2>1. Become(c, IF Len(procs[c].left) = 1 THEN Loaded(c, None) ELSE p)
    BY <1>2, <1>7, AbsentTorn, Zenon DEF LookAt
  <2>2. ~procs[c].knew
    BY <1>4, <1>7
  <2>3. PairFor(c, Loaded(c, None), claimed, files)
    BY <1>3, <2>2, LoadedPair
  <2>4. p.pc = "look" /\ p.knew = procs[c].knew
    BY <1>1 DEF Processes
  <2>5. PairFor(c, p, claimed, files)
    BY <1>3, <2>2, <2>4 DEF PairFor
  <2> HIDE DEF p
  <2> QED
    BY <1>2, <2>1, <2>3, <2>5, FilePair
<1>8. CASE file.state = "whole"
  <2>1. file # Absent /\ file # Torn /\ (file # Blank => file.id # None)
    BY <1>5, <1>8, AbsentTorn, NoneNotId
       DEF SoundFile, IdentityInv, RestTyped
  <2> DEFINE p == [procs[c] EXCEPT !.pc = "truncate", !.id = file.id]
  <2>2. \/ Become(c, Loaded(c, file.id))
        \/ procs[c].left # procs[c].search /\ Become(c, p)
        \/ Become(c, Gone(c, "failed"))
    BY <1>2, <2>1 DEF LookAt
  <2>3. PairFor(c, Loaded(c, file.id), claimed, files)
    BY <1>3, <1>4, <2>1, LoadedPair
  <2>4. p.pc = "truncate" /\ p.knew = procs[c].knew
    BY <1>1 DEF Processes
  <2>5. procs[c].left # procs[c].search => PairFor(c, p, claimed, files)
    BY <1>3, <1>4, <2>4 DEF PairFor
  <2> HIDE DEF p
  <2> QED
    BY <1>2, <1>6, <2>2, <2>3, <2>5, FilePair
<1>9. CASE file = Torn
  <2>1. Become(c, Gone(c, "failed"))
    BY <1>2, <1>9, AbsentTorn DEF LookAt
  <2> QED
    BY <1>2, <1>6, <2>1, FilePair
<1> QED
  BY <1>5, <1>7, <1>8, <1>9, ContentsCases DEF SoundFile

LEMMA TruncatePair ==
  ASSUME IdentityInv, PairInv, NEW c \in Procs, Truncate(c)
  PROVE  PairInv'
<1> DEFINE p == [procs[c] EXCEPT !.pc = "write"]
<1>1. procs[c] \in Processes /\ PairFor(c, procs[c], claimed, files)
  BY DEF IdentityInv, ProcsSound, PairInv
<1>2. /\ procs[c].pc = "truncate" /\ claimed' = claimed /\ Become(c, p)
      /\ files' = [files EXCEPT ![Path(c)] = Torn]
  BY DEF Truncate, Emptied
<1>3. p.pc = "write" /\ p.left = procs[c].left /\ p.knew = procs[c].knew
  BY <1>1 DEF Processes
<1> HIDE DEF p
<1>4. PairFor(c, p, claimed, files')
  BY <1>1, <1>2, <1>3 DEF PairFor
<1>5. \A place \in Places : files[place] \notin {Absent, Blank}
                             => files'[place] \notin {Absent, Blank}
  BY <1>2, AbsentTorn, BlankIs DEF IdentityInv, FilesSound
<1> QED
  BY <1>2, <1>4, <1>5, FilePair

LEMMA WritePair ==
  ASSUME IdentityInv, PairInv, NEW c \in Procs, Write(c)
  PROVE  PairInv'
<1>1. /\ procs[c] \in Processes /\ Sound(procs[c])
      /\ PairFor(c, procs[c], claimed, files)
  BY DEF IdentityInv, ProcsSound, PairInv
<1>0. PICK file \in Written(c) : files' = [files EXCEPT ![Path(c)] = file]
  BY DEF Write
<1>2. procs[c].pc = "write" /\ claimed' = claimed
  BY DEF Write
<1>3. file \notin {Absent, Blank}
  <2>1. procs[c].id # None
    BY <1>1, <1>2 DEF Sound, SoundFor
  <2>2. \A i, b : /\ Stored(i, b).state = "whole"
                  /\ i # None => Stored(i, b) # Blank
    BY BlankIs DEF Stored
  <2> QED
    BY <2>1, <2>2, AbsentTorn, BlankIs DEF Written
<1>4. \A place \in Places : files[place] \notin {Absent, Blank}
                             => files'[place] \notin {Absent, Blank}
  BY <1>0, <1>3 DEF IdentityInv, FilesSound
<1>5. CASE procs[c].left = <<>>
  <2>1. Become(c, Gone(c, "exited"))
    BY <1>5 DEF Write
  <2>2. PairFor(c, Gone(c, "exited"), claimed, files')
    BY GonePair DEF Over
  <2> QED
    BY <1>2, <1>4, <2>1, <2>2, FilePair
<1>6. CASE procs[c].left # <<>>
  <2>1. Become(c, Loaded(c, procs[c].id))
    BY <1>6 DEF Write
  <2>2. c \notin claimed /\ ~procs[c].knew
    BY <1>1, <1>2, <1>6 DEF PairFor
  <2>3. PairFor(c, Loaded(c, procs[c].id), claimed, files)
    BY <2>2, LoadedPair
  <2>4. Loaded(c, procs[c].id).pc # "look"
    <3>1. After(procs[c].verb, procs[c].id) # "look"
      BY <1>1 DEF After, Processes, Verbs
    <3>2. [procs[c] EXCEPT !.pc = After(procs[c].verb, procs[c].id),
                           !.left = <<>>, !.id = procs[c].id].pc
            = After(procs[c].verb, procs[c].id)
      BY <1>1 DEF Processes
    <3> QED
      BY <3>1, <3>2, GonePC DEF Loaded
  <2>5. PairFor(c, Loaded(c, procs[c].id), claimed, files')
    BY <2>3, <2>4 DEF PairFor
  <2> QED
    BY <1>2, <1>4, <2>1, <2>5, FilePair
<1> QED
  BY <1>5, <1>6

\* A claim adds the identity of the process itself, or one that was claimed.
LEMMA ClaimPair ==
  ASSUME IdentityInv, PairInv, NEW c \in Procs, Claim(c)
  PROVE  PairInv'
<1> DEFINE i == Ensured(c)
           p == [procs[c] EXCEPT !.pc = "truncate", !.id = i]
<1>1. /\ procs[c] \in Processes /\ Sound(procs[c])
      /\ PairFor(c, procs[c], claimed, files)
  BY DEF IdentityInv, ProcsSound, PairInv
<1>2. procs[c].pc = "claim" /\ files' = files /\ procs[c].left = <<>>
  BY <1>1 DEF Claim, PairFor
<1>3. claimed' \subseteq claimed \cup {c}
  BY <1>1 DEF Claim, Ensured, Sound, SoundFor
<1>4. PICK q \in {p, Gone(c, "failed")} : Become(c, q)
  BY DEF Claim
<1>5. p.pc = "truncate" /\ p.left = procs[c].left
  BY <1>1 DEF Processes
<1>6. PairFor(c, p, claimed', files)
  BY <1>2, <1>5 DEF PairFor
<1>7. PairFor(c, Gone(c, "failed"), claimed', files)
  BY GonePair DEF Over
<1> HIDE DEF p
<1> SUFFICES ASSUME NEW d \in Procs
             PROVE  PairFor(d, procs'[d], claimed', files)
  BY <1>2 DEF PairInv
<1>8. procs \in [Procs -> Processes]
  BY DEF IdentityInv, ProcsSound
<1>9. CASE d = c
  BY <1>4, <1>6, <1>7, <1>8, <1>9 DEF Become
<1>10. CASE d # c
  <2>1. procs'[d] = procs[d] /\ PairFor(d, procs[d], claimed, files)
    BY <1>4, <1>8, <1>10 DEF Become, PairInv
  <2>2. d \in claimed' => d \in claimed
    BY <1>3, <1>10
  <2> QED
    BY <2>1, <2>2 DEF PairFor
<1> QED
  BY <1>9, <1>10

LEMMA PairStep == IdentityInv /\ PairInv /\ [Next]_vars => PairInv'
<1> SUFFICES ASSUME IdentityInv, PairInv, [Next]_vars PROVE PairInv'
  OBVIOUS
<1>1. ProcsSound
  BY DEF IdentityInv
<1>2. ASSUME NEW c \in Procs, ConfigStep(c) PROVE PairInv'
  BY <1>2, LookPair, TruncatePair, WritePair, ClaimPair DEF ConfigStep
<1>3. ASSUME NEW c \in Procs, ServiceStep(c) PROVE PairInv'
  <2>1. files' = files /\ claimed' = claimed
    BY <1>3 DEF ServiceStep, InstallWindows, InstallLinux,
       InstallDarwin, UninstallWindows, UninstallLinux, UninstallDarwin,
       StartWindows, SpawnObserver, StartManaged, StopLists, StopListsRunners,
       StopKills, StopLinux, StopDarwin
  <2> QED
    BY <1>1, <1>3, <2>1, ServiceQuiet, QuietPair
<1>4. CASE \/ LoginAgain
           \/ \E c \in Procs :
                 \/ Run(c) \/ GoRun(c) \/ GoRunStarts(c) \/ GoRunEnds(c)
                 \/ ManagerStarts(c) \/ Die(c)
  <2>1. files' = files /\ claimed' = claimed
    BY <1>4 DEF LoginAgain, Run, GoRun, GoRunStarts, GoRunEnds, ManagerStarts,
       Die
  <2> QED
    BY <1>1, <1>4, <2>1, OtherQuiet, QuietPair
<1>5. CASE UNCHANGED vars
  BY <1>5 DEF vars, PairInv
<1> QED
  BY <1>2, <1>3, <1>4, <1>5 DEF Next

LEMMA InitPair == Init => PairInv
<1> SUFFICES ASSUME Init, NEW c \in Procs
             PROVE  PairFor(c, procs[c], claimed, files)
  BY DEF PairInv
<1>1. c \notin claimed /\ procs[c] = Unborn
  BY NamesAssumption DEF Init
<1>2. Unborn.pc = "unborn"
  BY DEF Unborn
<1> QED
  BY <1>1, <1>2 DEF PairFor

\* A pair that began when its default path held anything, even a file cut
\* short, claims the identity stored there and generates none.
THEOREM NotForgotten == Spec => []PairingNotForgotten
<1>1. IdentityInv /\ PairInv => PairingNotForgotten
  <2> SUFFICES ASSUME IdentityInv, PairInv, NEW c \in Procs,
                      procs[c].pc = "claim", procs[c].knew
               PROVE  Ensured(c) # c
    BY DEF PairingNotForgotten
  <2>1. procs[c].id # None /\ procs[c].id \in claimed
    BY DEF PairInv, PairFor, IdentityInv, ProcsSound, Sound, SoundFor
  <2>2. c \notin claimed
    BY Unclaimed DEF Over
  <2> QED
    BY <2>1, <2>2 DEF Ensured
<1>2. Spec => []PairInv
  BY InitPair, Identities, PairStep, PTL DEF Spec
<1> QED
  BY <1>1, <1>2, Identities, PTL

-----------------------------------------------------------------------------
(* service start and stop.  What a command has seen running stays an        *)
(* observer or a `go run` until it ends; what service stop has to end is    *)
(* on its list or about to be, but for observers under another name.        *)

Closed(d) == procs[d].pc \in Over
Spent(d) == procs[d].pc \in {"build", "wait"} \cup Over
Ran(d) == Spent(d) \/ d \in Observing
Hidden == Observing \ Observers

StopFor(c) ==
    LET p == procs[c] IN
    /\ p.pc \in {"look", "truncate", "write", "stop", "runners", "kill"} \cup Over
    /\ p.pc \in {"look", "truncate", "write"} => p.left # <<>>
    /\ p.pc \in {"runners", "kill"} => platform = "windows"
    /\ p.pc = "runners" =>
         \A d \in p.before \ Hidden :
            d \in p.seen \/ d \in Runners \/ Closed(d)
    /\ p.pc = "kill" =>
         \A d \in p.before \ Hidden : d \in p.seen \/ Closed(d)
    /\ p.pc = "exited" =>
         \A d \in p.before : \/ Closed(d)
                             \/ platform = "windows" /\ d \in Hidden
                             \/ platform = "linux" /\ d # job
                             \/ platform = "darwin"

CommandFor(c) ==
    /\ \A d \in procs[c].before : Ran(d)
    /\ procs[c].pc = "spawn" \/ procs[c].verb = "observe"
         => \A d \in procs[c].before \ Renamed : Spent(d)
    /\ procs[c].verb = "stop" => StopFor(c)

CommandInv == \A c \in Procs : CommandFor(c)

\* What a step may make of a process.
Ends(c) == /\ Alive(c) /\ procs'[c].pc \in Over
           /\ procs'[c].before = {} /\ procs'[c].verb = "status"

Begins(c) ==
    /\ procs[c].pc = "unborn" /\ procs'[c].pc \in {"look", "build"}
    /\ \/ procs'[c].before = {} /\ procs'[c].verb # "stop"
       \/ /\ procs'[c].before = Observing \cup Runners
          /\ procs'[c].verb \in {"start", "stop"} /\ procs'[c].left # <<>>
          /\ procs'[c].pc = "look"
       \/ /\ procs'[c].verb = "observe"
          /\ \E s \in Procs : /\ procs[s].pc = "spawn"
                              /\ procs'[c].before = procs[s].before

StopGoes(c) ==
    \/ procs'[c].pc \in {"look", "truncate", "write"} /\ procs'[c].left # <<>>
    \/ procs'[c].pc = "stop"
    \/ /\ platform = "windows" /\ procs'[c].pc = "runners"
       /\ procs'[c].seen = Observers
    \/ /\ procs[c].pc = "runners" /\ procs'[c].pc = "kill"
       /\ procs'[c].seen = procs[c].seen \cup Runners

Goes(c) ==
    /\ Alive(c) /\ procs'[c].pc \in Living
    /\ procs'[c].verb = procs[c].verb /\ procs'[c].before = procs[c].before
    /\ procs[c].pc \in {"build", "wait"} <=> procs'[c].pc \in {"build", "wait"}
    /\ procs'[c].pc = "spawn" => Observers = {}
    /\ procs[c].verb = "stop" => StopGoes(c)

StopDone(c) ==
    \/ procs[c].pc = "runners" /\ procs[c].seen = {} /\ Runners = {}
    \/ /\ procs[c].pc = "kill"
       /\ \A d \in procs[c].seen : Alive(d) => procs'[d].pc \in Over
    \/ /\ platform = "linux" /\ UNCHANGED job
       /\ job \in Procs /\ Alive(job) => procs'[job].pc \in Over
    \/ platform = "darwin"

Stops(c) ==
    /\ Alive(c) /\ procs[c].verb = "stop"
    /\ procs'[c].pc = "exited" /\ procs'[c].verb = "stop"
    /\ procs'[c].before = procs[c].before
    /\ StopDone(c)

Course(c) == procs'[c] = procs[c] \/ Ends(c) \/ Begins(c) \/ Goes(c) \/ Stops(c)
Courses == \A c \in Procs : Course(c)

\* Nothing that has ended, or was seen running, becomes something else.
LEMMA CourseKeeps ==
  ASSUME ProcsSound, NEW d \in Procs, Course(d)
  PROVE  /\ Closed(d) => Closed(d)'
         /\ Spent(d) => Spent(d)'
         /\ Ran(d) => Ran(d)'
         /\ d \in Runners => d \in Runners' \/ Closed(d)'
         /\ d \in Hidden => d \in Hidden' \/ Closed(d)'
<1>1. CASE procs'[d] = procs[d]
  BY <1>1 DEF Closed, Spent, Ran, Hidden, Observing, Observers, Runners, Alive
<1>2. CASE Ends(d)
  BY <1>2 DEF Ends, Closed, Spent, Ran, Hidden, Observing, Observers, Runners, Alive
<1>3. CASE Begins(d)
  BY <1>3 DEF Begins, Closed, Spent, Ran, Hidden, Observing, Observers, Runners, Alive, Living, Over
<1>4. CASE Goes(d)
  BY <1>4 DEF Goes, Closed, Spent, Ran, Hidden, Observing, Observers, Runners, Alive, Living, Over
<1>5. CASE Stops(d)
  BY <1>5 DEF Stops, Closed, Spent, Ran, Hidden, Observing, Observers, Runners, Alive, Living, Over
<1> QED
  BY <1>1, <1>2, <1>3, <1>4, <1>5 DEF Course

LEMMA RanNotUnborn ==
  ASSUME NEW d \in Procs, Ran(d)
  PROVE  d \notin Unused
BY DEF Ran, Spent, Observing, Alive, Unused, Living, Over

\* A process that stays as it is.
LEMMA StayCommand ==
  ASSUME IdentityInv, IdentityInv', Courses, UNCHANGED platform,
         job' \in {job, None} \cup Unused,
         NEW c \in Procs, CommandFor(c), procs'[c] = procs[c]
  PROVE  CommandFor(c)'
<1> DEFINE B == procs[c].before
<1>1. B \in SUBSET Procs
  BY DEF IdentityInv, ProcsSound, Processes
<1>2. \A d \in B : /\ d \in Procs
                   /\ Closed(d) => Closed(d)'
                   /\ Spent(d) => Spent(d)'
                   /\ Ran(d) => Ran(d)'
                   /\ d \in Runners => d \in Runners' \/ Closed(d)'
                   /\ d \in Hidden => d \in Hidden' \/ Closed(d)'
  BY <1>1, CourseKeeps DEF Courses, IdentityInv
<1>3. \A d \in B : Ran(d)'
  BY <1>2 DEF CommandFor
<1>4. procs[c].pc = "spawn" \/ procs[c].verb = "observe" => \A d \in B \ Renamed : Spent(d)'
  BY <1>2 DEF CommandFor
<1>5. ASSUME procs[c].verb = "stop" PROVE StopFor(c)'
  <2>1. StopFor(c)
    BY <1>5 DEF CommandFor
  <2>2. \A d \in B : d # job => d # job'
    BY <1>2, RanNotUnborn, NoneNotId DEF CommandFor, Ids
  <2> QED
    BY <1>2, <2>1, <2>2 DEF StopFor
<1> QED
  BY <1>3, <1>4, <1>5 DEF CommandFor

LEMMA CommandStep ==
  ASSUME IdentityInv, IdentityInv', CommandInv, Courses, UNCHANGED platform,
         job' \in {job, None} \cup Unused
  PROVE  CommandInv'
<1> SUFFICES ASSUME NEW c \in Procs PROVE CommandFor(c)'
  BY DEF CommandInv
<1>1. CASE procs'[c] = procs[c]
  BY <1>1, StayCommand DEF CommandInv
<1>2. \A d \in Procs : /\ Closed(d) => Closed(d)'
                       /\ Spent(d) => Spent(d)'
                       /\ Ran(d) => Ran(d)'
                       /\ d \in Runners => d \in Runners' \/ Closed(d)'
                       /\ d \in Hidden => d \in Hidden' \/ Closed(d)'
  BY CourseKeeps DEF Courses, IdentityInv
<1>3. \A s \in Procs : procs[s].before \in SUBSET Procs /\ CommandFor(s)
  BY DEF IdentityInv, ProcsSound, Processes, CommandInv
<1>4. CASE Ends(c)
  BY <1>4 DEF Ends, CommandFor, Over
<1>5. CASE Begins(c)
  <2>1. CASE procs'[c].before = {} /\ procs'[c].verb # "stop"
    BY <2>1 DEF CommandFor
  <2>2. CASE /\ procs'[c].before = Observing \cup Runners
             /\ procs'[c].verb \in {"start", "stop"} /\ procs'[c].left # <<>>
             /\ procs'[c].pc = "look"
    <3>1. \A d \in Observing \cup Runners : d \in Procs /\ Ran(d)
      BY DEF Ran, Spent, Observing, Runners
    <3> QED
      BY <1>2, <2>2, <3>1 DEF CommandFor, StopFor
  <2>3. CASE /\ procs'[c].verb = "observe"
             /\ \E s \in Procs : /\ procs[s].pc = "spawn"
                                 /\ procs'[c].before = procs[s].before
    <3>1. PICK s \in Procs : /\ procs[s].pc = "spawn"
                             /\ procs'[c].before = procs[s].before
      BY <2>3
    <3>2. \A d \in procs[s].before :
            d \in Procs /\ Ran(d) /\ (d \notin Renamed => Spent(d))
      BY <1>3, <3>1 DEF CommandFor
    <3> QED
      BY <1>2, <2>3, <3>1, <3>2 DEF CommandFor
  <2> QED
    BY <1>5, <2>1, <2>2, <2>3 DEF Begins
<1>6. CASE Goes(c)
  <2> DEFINE B == procs[c].before
  <2>1. procs'[c].before = B /\ procs'[c].verb = procs[c].verb
    BY <1>6 DEF Goes
  <2>2. \A d \in B : d \in Procs /\ Ran(d) /\ Ran(d)'
    BY <1>2, <1>3 DEF CommandFor
  <2>3. ASSUME procs'[c].pc = "spawn" \/ procs[c].verb = "observe",
               NEW d \in B \ Renamed
        PROVE  Spent(d)'
    <3>1. procs[c].verb = "observe" => Spent(d)
      BY <1>3 DEF CommandFor
    <3>2. procs'[c].pc = "spawn" => Spent(d)
      BY <1>6, <2>2 DEF Goes, Ran, Observers
    <3> QED
      BY <1>2, <2>2, <2>3, <3>1, <3>2
  <2>4. ASSUME procs[c].verb = "stop" PROVE StopFor(c)'
    <3>1. StopGoes(c) /\ StopFor(c)
      BY <1>3, <1>6, <2>4 DEF Goes, CommandFor
    <3>2. CASE \/ /\ procs'[c].pc \in {"look", "truncate", "write"}
                  /\ procs'[c].left # <<>>
               \/ procs'[c].pc = "stop"
      BY <3>2 DEF StopFor, Over
    <3>3. CASE /\ platform = "windows" /\ procs'[c].pc = "runners"
               /\ procs'[c].seen = Observers
      <4>1. \A d \in B \ Hidden : d \in Observers \/ d \in Runners \/ Closed(d)
        BY <2>2 DEF Ran, Spent, Closed, Runners, Hidden
      <4> QED
        BY <1>2, <2>1, <2>2, <3>3, <4>1 DEF StopFor, Over
    <3>4. CASE /\ procs[c].pc = "runners" /\ procs'[c].pc = "kill"
               /\ procs'[c].seen = procs[c].seen \cup Runners
      <4>1. \A d \in B \ Hidden :
              d \in procs[c].seen \/ d \in Runners \/ Closed(d)
        BY <3>1, <3>4 DEF StopFor
      <4>2. platform = "windows"
        BY <3>1, <3>4 DEF StopFor
      <4> QED
        BY <1>2, <2>1, <2>2, <3>4, <4>1, <4>2 DEF StopFor, Over
    <3> QED
      BY <3>1, <3>2, <3>3, <3>4 DEF StopGoes
  <2> QED
    BY <2>1, <2>2, <2>3, <2>4 DEF CommandFor
<1>7. CASE Stops(c)
  <2> DEFINE B == procs[c].before
  <2>1. /\ procs'[c].before = B /\ procs'[c].verb = "stop"
        /\ procs'[c].pc = "exited" /\ StopDone(c) /\ StopFor(c)
    BY <1>3, <1>7 DEF Stops, CommandFor
  <2>2. \A d \in B : d \in Procs /\ Ran(d) /\ Ran(d)'
    BY <1>2, <1>3 DEF CommandFor
  <2>3. ASSUME NEW d \in B
        PROVE  \/ Closed(d)'
               \/ platform = "windows" /\ d \in Hidden'
               \/ platform = "linux" /\ d # job'
               \/ platform = "darwin"
    <3>0. Alive(d) \/ Closed(d)
      BY <2>2 DEF Ran, Spent, Observing, Closed, Alive, Living
    <3>1. CASE procs[c].pc = "runners" /\ procs[c].seen = {} /\ Runners = {}
      BY <1>2, <2>1, <2>2, <3>1 DEF StopFor
    <3>2. CASE /\ procs[c].pc = "kill"
               /\ \A e \in procs[c].seen : Alive(e) => procs'[e].pc \in Over
      <4>1. \/ d \in procs[c].seen \/ Closed(d)
            \/ platform = "windows" /\ d \in Hidden
        BY <2>1, <3>2 DEF StopFor
      <4> QED
        BY <1>2, <2>2, <3>0, <3>2, <4>1 DEF Closed
    <3>3. CASE /\ platform = "linux" /\ UNCHANGED job
               /\ job \in Procs /\ Alive(job) => procs'[job].pc \in Over
      BY <1>2, <2>2, <3>0, <3>3 DEF Closed
    <3> QED
      BY <2>1, <3>1, <3>2, <3>3 DEF StopDone
  <2> QED
    BY <2>1, <2>2, <2>3 DEF CommandFor, StopFor, Over
<1> QED
  BY <1>1, <1>4, <1>5, <1>6, <1>7 DEF Courses, Course

LEMMA GoneIs ==
  ASSUME NEW c, NEW how
  PROVE  /\ Gone(c, how).pc = how
         /\ procs[c].verb # "stop" \/ how # "exited" =>
              Gone(c, how).before = {} /\ Gone(c, how).verb = "status"
         /\ procs[c].verb = "stop" /\ how = "exited" =>
              /\ Gone(c, how).before = procs[c].before
              /\ Gone(c, how).verb = "stop"
BY DEF Gone, Unborn

LEMMA BegunIs ==
  ASSUME NEW verb, NEW search, NEW before
  PROVE  LET p == Begun(verb, search, before) IN
         /\ p.pc = "look" /\ p.verb = verb /\ p.left = search
         /\ p.before = before
BY DEF Begun, Unborn

LEMMA BecomeCourse ==
  ASSUME ProcsSound, NEW c \in Procs, NEW p, Become(c, p),
         procs'[c] = p => Course(c)
  PROVE  Courses
BY DEF ProcsSound, Become, Courses, Course

\* A process that ends without having stopped anything.
LEMMA GoneCourse ==
  ASSUME NEW c \in Procs, Alive(c), NEW how \in Over,
         procs[c].verb # "stop" \/ how # "exited", procs'[c] = Gone(c, how)
  PROVE  Course(c)
BY GoneIs DEF Course, Ends

LEMMA EndCourses ==
  ASSUME ProcsSound, NEW c \in Procs, Alive(c), NEW how \in Over, NEW S,
         End(c, how, S), \A d \in S : Alive(d),
         procs[c].verb = "stop" /\ how = "exited" => StopDone(c)
  PROVE  Courses
<1>1. procs'[c] = Gone(c, how)
  BY DEF End
<1>2. Course(c)
  <2>1. CASE procs[c].verb = "stop" /\ how = "exited"
    BY <1>1, <2>1, GoneIs DEF Course, Stops
  <2>2. CASE procs[c].verb # "stop" \/ how # "exited"
    BY <1>1, <2>2, GoneCourse
  <2> QED
    BY <2>1, <2>2
<1>3. ASSUME NEW d \in Procs, d # c PROVE Course(d)
  <2>1. CASE d \in S
    <3>1. procs'[d] = Gone(d, "killed")
      BY <1>3, <2>1 DEF End
    <3>2. "killed" \in Over /\ "killed" # "exited"
      BY DEF Over
    <3> QED
      BY <2>1, <3>1, <3>2, GoneCourse
  <2>2. CASE d \notin S
    BY <1>3, <2>2 DEF End, Course
  <2> QED
    BY <2>1, <2>2
<1> QED
  BY <1>2, <1>3 DEF Courses

LEMMA LoadedCourse ==
  ASSUME ProcsSound, NEW c \in Procs, procs[c].pc \in {"look", "write"},
         NEW i, procs'[c] = Loaded(c, i)
  PROVE  Course(c)
<1> DEFINE pc == After(procs[c].verb, i)
<1>1. procs[c] \in Processes /\ procs[c].verb \in Verbs /\ Alive(c)
  BY DEF ProcsSound, Processes, Alive, Living
<1>2. /\ pc \in Over \cup Living /\ pc \notin {"build", "wait", "spawn"}
      /\ procs[c].verb = "stop" => pc \in {"stop", "failed"}
  BY <1>1 DEF After, Verbs, Over, Living
<1>3. CASE pc \in Over
  <2>1. procs'[c] = Gone(c, pc)
    BY <1>3 DEF Loaded
  <2> HIDE DEF pc
  <2>2. procs[c].verb # "stop" \/ pc # "exited"
    BY <1>2
  <2> QED
    BY <1>1, <1>3, <2>1, <2>2, GoneCourse
<1>4. CASE pc \notin Over
  <2> DEFINE p == [procs[c] EXCEPT !.pc = pc, !.left = <<>>, !.id = i]
  <2>1. /\ p.pc = pc /\ p.verb = procs[c].verb /\ p.before = procs[c].before
    BY <1>1 DEF Processes
  <2>2. procs'[c] = p
    BY <1>4 DEF Loaded
  <2> HIDE DEF p, pc
  <2> QED
    BY <1>1, <1>2, <1>4, <2>1, <2>2 DEF Course, Goes, StopGoes, Over
<1> QED
  BY <1>3, <1>4

\* A process that goes on with what it is doing.
LEMMA MoveCourse ==
  ASSUME ProcsSound, NEW c \in Procs, NEW p, Alive(c), procs'[c] = p,
         p.pc \in {"look", "truncate", "write"}, p.verb = procs[c].verb,
         p.before = procs[c].before, procs[c].pc \notin {"build", "wait"},
         procs[c].verb = "stop" => p.left # <<>>
  PROVE  Course(c)
BY DEF Course, Goes, StopGoes, Living

LEMMA LookCourses ==
  ASSUME IdentityInv, NEW c \in Procs, Look(c)
  PROVE  Courses
<1> DEFINE file == files[Head(procs[c].left)]
<1>1. /\ ProcsSound /\ procs[c] \in Processes /\ procs[c].pc = "look"
      /\ Alive(c) /\ procs[c].left # <<>>
  BY DEF IdentityInv, ProcsSound, Look, Alive, Living, Sound, SoundFor
<1>2. LookAt(c, file)
  BY DEF Look
<1>3. SoundFile(file)
  BY <1>1, TailLeft DEF IdentityInv, FilesSound
<1> HIDE DEF file
<1>4. file = Absent \/ file = Torn \/ file.state = "whole"
  BY <1>3, ContentsCases DEF SoundFile
<1>5. procs'[c] = Gone(c, "failed") => Course(c)
  BY <1>1, GoneCourse DEF Over
<1>6. \A i : procs'[c] = Loaded(c, i) => Course(c)
  BY <1>1, LoadedCourse
<1>7. CASE file = Absent
  <2> DEFINE p == [procs[c] EXCEPT !.left = Tail(@)]
  <2>1. Become(c, IF Len(procs[c].left) = 1 THEN Loaded(c, None) ELSE p)
    BY <1>2, <1>7, AbsentTorn, Zenon DEF LookAt
  <2>2. Len(procs[c].left) # 1 /\ procs'[c] = p => Course(c)
    <3> SUFFICES ASSUME Len(procs[c].left) # 1, procs'[c] = p PROVE Course(c)
      OBVIOUS
    <3>1. p.left # <<>>
      BY <1>1, TailLeft DEF Processes
    <3>2. p.pc = "look" /\ p.verb = procs[c].verb /\ p.before = procs[c].before
      BY <1>1 DEF Processes
    <3> HIDE DEF p
    <3> QED
      BY <1>1, <3>1, <3>2, MoveCourse
  <2> HIDE DEF p
  <2> QED
    BY <1>1, <1>6, <2>1, <2>2, BecomeCourse
<1>8. CASE file.state = "whole"
  <2> DEFINE p == [procs[c] EXCEPT !.pc = "truncate", !.id = file.id]
  <2>1. \/ Become(c, Loaded(c, file.id))
        \/ Become(c, p)
        \/ Become(c, Gone(c, "failed"))
    BY <1>2, <1>8, AbsentTorn DEF LookAt
  <2>2. /\ p.pc = "truncate" /\ p.verb = procs[c].verb
        /\ p.before = procs[c].before /\ p.left = procs[c].left
    BY <1>1 DEF Processes
  <2> HIDE DEF p
  <2>3. procs'[c] = p => Course(c)
    BY <1>1, <2>2, MoveCourse
  <2> QED
    BY <1>1, <1>5, <1>6, <2>1, <2>3, BecomeCourse
<1>9. CASE file = Torn
  <2>1. Become(c, Gone(c, "failed"))
    BY <1>2, <1>9, AbsentTorn DEF LookAt
  <2> QED
    BY <1>1, <1>5, <2>1, BecomeCourse
<1> QED
  BY <1>4, <1>7, <1>8, <1>9

\* The other steps on the configuration.
LEMMA ConfigCourses ==
  ASSUME IdentityInv, CommandInv, NEW c \in Procs, ConfigStep(c)
  PROVE  Courses
<1>1. ProcsSound /\ procs[c] \in Processes
  BY DEF IdentityInv, ProcsSound
<1>2. /\ procs[c].verb = "stop" /\ procs[c].pc \in {"truncate", "write"}
           => procs[c].left # <<>>
      /\ procs[c].pc = "claim" => procs[c].verb # "stop"
  BY DEF CommandInv, CommandFor, StopFor, Over
<1>3. CASE Truncate(c)
  <2> DEFINE p == [procs[c] EXCEPT !.pc = "write"]
  <2>1. /\ p.pc = "write" /\ p.verb = procs[c].verb
        /\ p.before = procs[c].before /\ p.left = procs[c].left
    BY <1>1 DEF Processes
  <2>2. Become(c, p) /\ procs[c].pc = "truncate" /\ Alive(c)
    BY <1>3 DEF Truncate, Alive, Living
  <2> HIDE DEF p
  <2> QED
    BY <1>1, <1>2, <2>1, <2>2, MoveCourse, BecomeCourse
<1>4. CASE Write(c)
  <2>1. procs[c].pc = "write" /\ Alive(c)
    BY <1>4 DEF Write, Alive, Living
  <2>2. CASE procs[c].left # <<>>
    BY <1>1, <1>4, <2>1, <2>2, LoadedCourse, BecomeCourse DEF Write
  <2>3. CASE procs[c].left = <<>>
    <3>1. procs'[c] = Gone(c, "exited") => Course(c)
      BY <1>2, <2>1, <2>3, GoneCourse DEF Over
    <3> QED
      BY <1>1, <1>4, <2>3, <3>1, BecomeCourse DEF Write
  <2> QED
    BY <2>2, <2>3
<1>5. CASE Claim(c)
  <2> DEFINE p == [procs[c] EXCEPT !.pc = "truncate", !.id = Ensured(c)]
  <2>1. /\ p.pc = "truncate" /\ p.verb = procs[c].verb
        /\ p.before = procs[c].before
    BY <1>1 DEF Processes
  <2>2. /\ Become(c, p) \/ Become(c, Gone(c, "failed"))
        /\ procs[c].pc = "claim" /\ Alive(c)
    BY <1>5 DEF Claim, Alive, Living
  <2> HIDE DEF p
  <2>3. procs'[c] = p => Course(c)
    BY <1>1, <1>2, <2>1, <2>2, MoveCourse
  <2>4. procs'[c] = Gone(c, "failed") => Course(c)
    BY <2>2, GoneCourse DEF Over
  <2> QED
    BY <1>1, <2>2, <2>3, <2>4, BecomeCourse
<1> QED
  BY <1>3, <1>4, <1>5, LookCourses DEF ConfigStep

LEMMA ServiceCourses ==
  ASSUME IdentityInv, CommandInv, NEW c \in Procs, ServiceStep(c)
  PROVE  Courses
<1>1. ProcsSound /\ procs[c] \in Processes
  BY DEF IdentityInv, ProcsSound
<1>2. Alive(c)
  BY DEF ServiceStep, InstallWindows, InstallLinux, InstallDarwin,
     UninstallWindows, UninstallLinux, UninstallDarwin, StartWindows,
     SpawnObserver, StartManaged, StopLists, StopListsRunners, StopKills,
     StopLinux, StopDarwin, Alive, Living
<1>3. procs[c].pc \in {"install", "uninstall", "start", "spawn"}
        => procs[c].verb # "stop"
  BY DEF CommandInv, CommandFor, StopFor, Over
<1>4. ASSUME NEW S, Finish(c, S), \A d \in S : Alive(d),
             procs[c].verb = "stop" => StopDone(c)
      PROVE  Courses
  BY <1>1, <1>2, <1>4, EndCourses DEF Finish, Over
<1>5. ASSUME NEW S, Fail(c) \/ End(c, "failed", S), \A d \in S : Alive(d)
      PROVE  Courses
  BY <1>1, <1>2, <1>5, EndCourses DEF Fail, Over
<1>6. /\ \A d \in {} : Alive(d)
      /\ \A d \in Job : Alive(d)
      /\ \A d \in {e \in procs[c].seen : Alive(e)} : Alive(d)
  BY DEF Job
<1>7. CASE InstallWindows(c) \/ InstallLinux(c) \/ InstallDarwin(c)
  BY <1>3, <1>4, <1>5, <1>6, <1>7 DEF InstallWindows, InstallLinux, InstallDarwin
<1>8. CASE UninstallWindows(c) \/ UninstallLinux(c) \/ UninstallDarwin(c)
  <2>1. ASSUME NEW how \in {"exited", "failed"}, NEW S, End(c, how, S),
               \A d \in S : Alive(d), procs[c].verb # "stop"
        PROVE  Courses
    BY <1>4, <1>5, <2>1 DEF Finish
  <2> QED
    BY <1>3, <1>4, <1>5, <1>6, <1>8, <2>1
       DEF UninstallWindows, UninstallLinux, UninstallDarwin
<1>9. CASE StartWindows(c)
  <2> DEFINE p == [procs[c] EXCEPT !.pc = "spawn"]
  <2>1. /\ p.pc = "spawn" /\ p.verb = procs[c].verb
        /\ p.before = procs[c].before
    BY <1>1 DEF Processes
  <2>2. /\ procs[c].pc = "start" /\ procs[c].verb # "stop"
        /\ (MayStart /\ Become(c, p)) \/ Finish(c, {}) \/ Fail(c)
    BY <1>3, <1>9 DEF StartWindows
  <2> HIDE DEF p
  <2>3. MayStart /\ procs'[c] = p => Course(c)
    BY <1>2, <2>1, <2>2 DEF Course, Goes, MayStart, Living
  <2> QED
    BY <1>1, <1>4, <1>5, <1>6, <2>2, <2>3, BecomeCourse
<1>10. CASE SpawnObserver(c) /\ ~Fail(c)
  <2>1. PICK d \in Unused :
          procs' = [procs EXCEPT
                      ![c] = Gone(c, "exited"),
                      ![d] = Begun("observe", procs[c].search, procs[c].before)]
    BY <1>10 DEF SpawnObserver
  <2>2. d \in Procs /\ procs[d].pc = "unborn" /\ d # c /\ procs[c].pc = "spawn"
    BY <1>10 DEF Unused, SpawnObserver
  <2>3. procs'[d] = Begun("observe", procs[c].search, procs[c].before)
    BY <1>1, <2>1, <2>2 DEF ProcsSound
  <2>4. Course(d)
    BY <2>2, <2>3, BegunIs DEF Course, Begins
  <2>5. procs'[c] = Gone(c, "exited")
    BY <1>1, <2>1, <2>2 DEF ProcsSound
  <2>6. Course(c)
    BY <1>2, <1>3, <2>2, <2>5, GoneCourse DEF Over
  <2>7. \A e \in Procs : e # c /\ e # d => procs'[e] = procs[e]
    BY <1>1, <2>1 DEF ProcsSound
  <2> QED
    BY <2>4, <2>6, <2>7 DEF Courses, Course
<1>11. CASE StopLists(c)
  <2> DEFINE p == [procs[c] EXCEPT !.pc = "runners", !.seen = Observers]
  <2>1. /\ p.pc = "runners" /\ p.verb = procs[c].verb
        /\ p.before = procs[c].before /\ p.seen = Observers
    BY <1>1 DEF Processes
  <2>2. /\ procs[c].pc = "stop" /\ platform = "windows"
        /\ Become(c, p) \/ Fail(c)
    BY <1>11 DEF StopLists
  <2> HIDE DEF p
  <2>3. procs'[c] = p => Course(c)
    BY <1>2, <2>1, <2>2 DEF Course, Goes, StopGoes, Living
  <2> QED
    BY <1>1, <1>5, <1>6, <2>2, <2>3, BecomeCourse
<1>12. CASE StopListsRunners(c)
  <2> DEFINE p == [procs[c] EXCEPT !.pc = "kill", !.seen = Listed(c)]
  <2>1. /\ p.pc = "kill" /\ p.verb = procs[c].verb
        /\ p.before = procs[c].before
        /\ p.seen = procs[c].seen \cup Runners
    BY <1>1 DEF Processes, Listed
  <2>2. procs[c].pc = "runners"
    BY <1>12 DEF StopListsRunners
  <2>3. CASE Listed(c) = {} /\ ~Fail(c)
    <3>1. StopDone(c)
      BY <2>2, <2>3 DEF StopDone, Listed
    <3>2. Finish(c, {})
      BY <1>12, <2>3 DEF StopListsRunners
    <3> QED
      BY <1>4, <1>6, <3>1, <3>2
  <2>4. CASE Listed(c) # {} /\ ~Fail(c)
    <3>1. Become(c, p)
      BY <1>12, <2>4 DEF StopListsRunners
    <3> HIDE DEF p
    <3>2. procs'[c] = p => Course(c)
      BY <1>2, <2>1, <2>2 DEF Course, Goes, StopGoes, Living
    <3> QED
      BY <1>1, <3>1, <3>2, BecomeCourse
  <2> QED
    BY <1>5, <1>6, <2>3, <2>4
<1>13. CASE StopKills(c)
  <2> DEFINE S == {d \in procs[c].seen : Alive(d)}
  <2>0. ASSUME NEW T \in SUBSET S, End(c, "failed", T) PROVE Courses
    BY <1>5, <2>0
  <2> SUFFICES ASSUME Finish(c, S) PROVE Courses
    BY <1>13, <2>0 DEF StopKills
  <2>1. procs[c].pc = "kill" /\ End(c, "exited", S)
    BY <1>13 DEF StopKills, Finish
  <2>2. \A d \in procs[c].seen : Alive(d) => procs'[d].pc \in Over
    <3> SUFFICES ASSUME NEW d \in procs[c].seen, Alive(d)
                 PROVE  procs'[d].pc \in Over
      OBVIOUS
    <3>1. d \in Procs
      BY <1>1 DEF Processes
    <3>2. procs'[d] \in {Gone(d, "exited"), Gone(d, "killed")}
      BY <2>1, <3>1 DEF End
    <3> QED
      BY <3>2, GoneIs DEF Over
  <2>3. StopDone(c)
    BY <2>1, <2>2 DEF StopDone
  <2> QED
    BY <1>4, <1>6, <2>3
<1>14. CASE StopLinux(c) /\ ~Fail(c)
  <2>1. End(c, "exited", Job) /\ platform = "linux" /\ job' = job
    BY <1>14 DEF StopLinux, Finish
  <2>2. job \in Procs /\ Alive(job) => procs'[job].pc \in Over
    <3> SUFFICES ASSUME job \in Procs, Alive(job) PROVE procs'[job].pc \in Over
      OBVIOUS
    <3>1. procs'[job] \in {Gone(job, "exited"), Gone(job, "killed")}
      BY <2>1 DEF End, Job
    <3> QED
      BY <3>1, GoneIs DEF Over
  <2>3. StopDone(c)
    BY <2>1, <2>2 DEF StopDone
  <2> QED
    BY <1>4, <1>6, <1>14, <2>3 DEF StopLinux
<1>15. CASE StopDarwin(c)
  <2>1. StopDone(c)
    BY <1>15 DEF StopDarwin, StopDone
  <2> QED
    BY <1>4, <1>5, <1>6, <1>15, <2>1 DEF StopDarwin
<1>16. CASE StartManaged(c)
  BY <1>3, <1>4, <1>5, <1>6, <1>16 DEF StartManaged
<1> QED
  BY <1>5, <1>6, <1>7, <1>8, <1>9, <1>10, <1>11, <1>12, <1>13, <1>14, <1>15,
     <1>16 DEF ServiceStep

LEMMA OtherCourses ==
  ASSUME IdentityInv, CommandInv,
         \/ LoginAgain
         \/ \E c \in Procs :
               \/ Run(c) \/ GoRun(c) \/ GoRunStarts(c) \/ GoRunEnds(c)
               \/ ManagerStarts(c) \/ Die(c)
  PROVE  Courses
<1>0. ProcsSound /\ procs \in [Procs -> Processes]
  BY DEF IdentityInv, ProcsSound
<1>1. CASE LoginAgain
  <2> SUFFICES ASSUME NEW c \in Procs PROVE Course(c)
    BY DEF Courses
  <2>1. CASE Alive(c)
    <3>1. procs'[c] = Gone(c, "killed")
      BY <1>1, <2>1 DEF LoginAgain
    <3>2. "killed" \in Over /\ "killed" # "exited"
      BY DEF Over
    <3> QED
      BY <2>1, <3>1, <3>2, GoneCourse
  <2>2. CASE ~Alive(c)
    BY <1>1, <2>2 DEF LoginAgain, Course
  <2> QED
    BY <2>1, <2>2
<1>2. ASSUME NEW c \in Procs, Run(c) PROVE Courses
  <2>1. PICK verb \in Verbs, search \in Searches[c] :
          Become(c, Begun(verb, search,
                          IF verb \in {"start", "stop"}
                          THEN Observing \cup Runners ELSE {}))
    BY <1>2 DEF Run
  <2> DEFINE before == IF verb \in {"start", "stop"}
                       THEN Observing \cup Runners ELSE {}
             p == Begun(verb, search, before)
  <2>2. search # <<>>
    BY SearchTyped DEF Paths
  <2>3. p.pc = "look" /\ p.verb = verb /\ p.left = search /\ p.before = before
    BY BegunIs
  <2>4. Become(c, p) /\ procs[c].pc = "unborn"
    BY <1>2, <2>1 DEF Run
  <2> HIDE DEF p
  <2>5. procs'[c] = p => Course(c)
    BY <2>2, <2>3, <2>4 DEF Course, Begins
  <2> QED
    BY <1>0, <2>4, <2>5, BecomeCourse
<1>3. ASSUME NEW c \in Procs, GoRun(c) PROVE Courses
  <2> DEFINE p == [Unborn EXCEPT !.pc = "build", !.verb = "observe"]
  <2>1. p.pc = "build" /\ p.verb = "observe" /\ p.before = {}
    BY DEF Unborn
  <2>2. Become(c, p) /\ procs[c].pc = "unborn"
    BY <1>3 DEF GoRun
  <2> HIDE DEF p
  <2>3. procs'[c] = p => Course(c)
    BY <2>1, <2>2 DEF Course, Begins
  <2> QED
    BY <1>0, <2>2, <2>3, BecomeCourse
<1>4. ASSUME NEW c \in Procs, GoRunStarts(c) PROVE Courses
  <2>1. PICK d \in Unused \ Renamed, search \in Paths :
          procs' = [procs EXCEPT ![c].pc = "wait", ![c].seen = {d},
                                 ![d] = Begun("observe", search, {})]
    BY <1>4, SearchTyped DEF GoRunStarts, Unused
  <2>2. d \in Procs /\ procs[d].pc = "unborn" /\ d # c /\ procs[c].pc = "build"
    BY <1>4 DEF Unused, GoRunStarts
  <2>3. procs'[d] = Begun("observe", search, {})
    BY <1>0, <2>1, <2>2
  <2>4. Course(d)
    BY <2>2, <2>3, BegunIs DEF Course, Begins
  <2>5. procs'[c].pc = "wait" /\ procs'[c].verb = procs[c].verb
        /\ procs'[c].before = procs[c].before
    BY <1>0, <2>1, <2>2 DEF Processes
  <2>6. procs[c].verb # "stop"
    BY <2>2 DEF CommandInv, CommandFor, StopFor, Over
  <2>7. Course(c)
    BY <2>2, <2>5, <2>6 DEF Course, Goes, Alive, Living
  <2>8. \A e \in Procs : e # c /\ e # d => procs'[e] = procs[e]
    BY <1>0, <2>1
  <2> QED
    BY <2>4, <2>7, <2>8 DEF Courses, Course
<1>5. ASSUME NEW c \in Procs, GoRunEnds(c) PROVE Courses
  <2>1. Alive(c) /\ procs[c].verb # "stop"
    BY <1>5 DEF GoRunEnds, Alive, Living, CommandInv, CommandFor, StopFor, Over
  <2>2. procs'[c] = Gone(c, "exited") => Course(c)
    BY <2>1, GoneCourse DEF Over
  <2> QED
    BY <1>0, <1>5, <2>2, BecomeCourse DEF GoRunEnds
<1>6. ASSUME NEW c \in Procs, Die(c) PROVE Courses
  <2>1. procs'[c] = Gone(c, "killed") => Course(c)
    BY <1>6, GoneCourse DEF Over, Die
  <2> QED
    BY <1>0, <1>6, <2>1, BecomeCourse DEF Die
<1>7. ASSUME NEW c \in Procs, ManagerStarts(c) PROVE Courses
  <2> DEFINE p == Begun("observe", <<"home", "exe">>, {})
  <2>1. p.pc = "look" /\ p.verb = "observe" /\ p.before = {}
    BY BegunIs
  <2>2. Become(c, p) /\ procs[c].pc = "unborn"
    BY <1>7 DEF ManagerStarts, Unused
  <2> HIDE DEF p
  <2>3. procs'[c] = p => Course(c)
    BY <2>1, <2>2 DEF Course, Begins
  <2> QED
    BY <1>0, <2>2, <2>3, BecomeCourse
<1> QED
  BY <1>1, <1>2, <1>3, <1>4, <1>5, <1>6, <1>7

LEMMA NextCommand == IdentityInv /\ CommandInv /\ [Next]_vars => CommandInv'
<1> SUFFICES ASSUME IdentityInv, CommandInv, [Next]_vars PROVE CommandInv'
  OBVIOUS
<1>1. IdentityInv'
  BY NextInv
<1>2. UNCHANGED platform
  BY DEF Next, ConfigStep, Look, Truncate, Write, Claim, ServiceStep,
     InstallWindows, InstallLinux, InstallDarwin, UninstallWindows,
     UninstallLinux, UninstallDarwin, StartWindows, SpawnObserver,
     StartManaged, StopLists, StopListsRunners, StopKills, StopLinux,
     StopDarwin, Run, GoRun, GoRunStarts, GoRunEnds, ManagerStarts, Die,
     LoginAgain, vars
<1>3. job' \in {job, None} \cup Unused
  BY DEF Next, ConfigStep, ServiceStep, serviceVars,
     InstallWindows, InstallLinux, InstallDarwin, UninstallWindows,
     UninstallLinux, UninstallDarwin, StartWindows, SpawnObserver,
     StartManaged, StopLists, StopListsRunners, StopKills, StopLinux,
     StopDarwin, Run, GoRun, GoRunStarts, GoRunEnds, ManagerStarts, Die,
     LoginAgain, vars
<1>4. Courses
  <2>1. CASE UNCHANGED vars
    BY <2>1 DEF vars, Courses, Course
  <2> QED
    BY <2>1, ConfigCourses, ServiceCourses, OtherCourses DEF Next
<1> QED
  BY <1>1, <1>2, <1>3, <1>4, CommandStep

LEMMA CommandAlways == Spec => []CommandInv
<1>1. Init => CommandInv
  <2>1. Unborn.before = {} /\ Unborn.verb = "status"
    BY DEF Unborn
  <2> QED
    BY <2>1 DEF Init, CommandInv, CommandFor
<1> QED
  BY <1>1, NextCommand, Identities, PTL DEF Spec

\* On Windows service start adds no observer beside one that was running as
\* ai-connector.exe when the command was given, whatever starts, ends or is
\* killed between the list of processes and the start (startService,
\* service_windows.go).
THEOREM StartSees == Spec => []StartSeesRunning
<1>1. CommandInv => StartSeesRunning
  <2> SUFFICES ASSUME CommandInv, NEW c \in Procs, NEW d \in Procs,
                      c \in Observing, d \in Observers, d \in procs[c].before
               PROVE  FALSE
    BY DEF StartSeesRunning
  <2>1. Spent(d)
    BY DEF CommandInv, CommandFor, Observing, Observers
  <2> QED
    BY <2>1 DEF Spent, Observing, Observers, Runners, Alive, Living, Over
<1> QED
  BY <1>1, CommandAlways, PTL

\* Once service stop has succeeded on Windows, no observer that ran as
\* ai-connector.exe when it was given is left, and no `go run`: the observers
\* are listed first and the `go run` processes second, and what is neither by
\* then has ended (stopService, service_windows.go).  On Linux systemctl stop
\* has ended the process of the unit, and no other; on macOS the theorem says
\* nothing.
THEOREM StopEnds == Spec => []StopStops
<1>1. CommandInv => StopStops
  BY DEF CommandInv, CommandFor, StopFor, StopStops, Closed, Hidden, Alive, Living, Over
<1> QED
  BY <1>1, CommandAlways, PTL
=============================================================================
