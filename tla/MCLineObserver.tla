-------------------------- MODULE MCLineObserver ---------------------------
(* Model-checking constants of LineObserver: lines of two sessions, one     *)
(* that changes the status and one that does not, and a line without an id. *)
(* Lines that are no JSON come about when a log is replaced behind a half   *)
(* line: the observer glues the old half to the new text.                   *)
EXTENDS LineObserver

CONSTANTS i1, i2

SomeLines == {[id |-> i1, kind |-> "user"], [id |-> i2, kind |-> "other"],
              [id |-> None, kind |-> "reply"]}
=============================================================================
