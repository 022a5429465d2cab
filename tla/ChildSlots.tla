----------------------------- MODULE ChildSlots -----------------------------
(***************************************************************************)
(* What remote control promises about each target, a session to continue   *)
(* or a directory to start a new conversation in: at most one process of   *)
(* the Connector works on it, a process is started only under a            *)
(* reservation, and the target rests for a cooldown before the next one.   *)
(* A restart of the Connector forgets every slot.                          *)
(***************************************************************************)
CONSTANT Targets
VARIABLE slot      \* slot[t] \in {"free", "reserved", "occupied", "cooling"}

Init == slot = [t \in Targets |-> "free"]

Move(t, from, to) == /\ slot[t] = from
                     /\ slot' = [slot EXCEPT ![t] = to]

Reserve(t) == Move(t, "free", "reserved")
Abandon(t) == Move(t, "reserved", "free")
Fork(t)    == Move(t, "reserved", "occupied")
Release(t) == Move(t, "occupied", "cooling")

\* Several cooldowns may end together.
CoolDown(T) == /\ \A t \in T : slot[t] = "cooling"
               /\ slot' = [t \in Targets |-> IF t \in T THEN "free"
                                                        ELSE slot[t]]

Restart == slot' = [t \in Targets |-> "free"]

Next == \/ \E t \in Targets : \/ Reserve(t) \/ Abandon(t)
                              \/ Fork(t) \/ Release(t)
        \/ \E T \in SUBSET Targets : CoolDown(T)
        \/ Restart

Spec == Init /\ [][Next]_slot
=============================================================================
