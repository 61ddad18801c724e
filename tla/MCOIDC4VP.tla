------------------------------ MODULE MCOIDC4VP ------------------------------
(***************************************************************************)
(* Model-checking instances of OIDC4VP.                                    *)
(***************************************************************************)
EXTENDS OIDC4VP, TLC

CONSTANTS A, B  \* two profiles of two organizations

MCOrgOf == (A :> "orgA") @@ (B :> "orgB")

Symmetry == Permutations(Procs) \cup Permutations(Nonces) \cup Permutations(Claims)
=============================================================================
