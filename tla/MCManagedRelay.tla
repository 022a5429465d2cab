-------------------------- MODULE MCManagedRelay --------------------------
(* Model-checking constants of ManagedRelay: the sets are model values given
   in the configurations; interchangeable values form symmetry sets. *)
EXTENDS ManagedRelay, TLC

Interchangeable == Permutations(Cmds) \cup Permutations(PIDs)
                      \cup Permutations(RequestIDs)
=============================================================================
