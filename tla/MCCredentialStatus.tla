------------------------ MODULE MCCredentialStatus --------------------------
(***************************************************************************)
(* Model-checking instances of CredentialStatus.                           *)
(***************************************************************************)
EXTENDS CredentialStatus, TLC

Symmetry == Permutations(Procs) \cup Permutations(Profiles)
=============================================================================
