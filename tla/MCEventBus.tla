----------------------------- MODULE MCEventBus -----------------------------
(***************************************************************************)
(* Model-checking instances of EventBus.                                   *)
(***************************************************************************)
EXTENDS EventBus, TLC

Symmetry == Permutations(Publishers) \cup Permutations(Subs) \cup Permutations(Stoppers)
=============================================================================
