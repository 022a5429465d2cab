---------------------------- MODULE MCCommandLine ----------------------------
(* Model-checking constants of CommandLine: a machine that is new, paired, or *)
(* was paired by an early build, one whose file names no identity, and the    *)
(* directories commands are run in.                                           *)
EXTENDS CommandLine, TLC

Interchangeable == Permutations(Renamed) \cup Permutations(Procs \ Renamed)

AllBut(place, file) == [[p \in Places |-> Absent] EXCEPT ![place] = file]

SomeFiles == {AllBut("home", Absent), AllBut("home", Stored(Early, FALSE)),
              AllBut("home", Stored(Early, TRUE)),
              AllBut("here", Stored(Early, FALSE)), AllBut("home", Blank)}

\* A renamed file is run in a directory of its own.
SomeSearches ==
    [c \in Procs |-> IF c \in Renamed THEN {<<"home", "exe">>}
                     ELSE {<<"home", "here", "exe">>, <<"here", "here", "exe">>}]
=============================================================================
