------------------------------ MODULE MCServices ------------------------------
(***************************************************************************)
(* The instance of Services that TLC checks.                               *)
(***************************************************************************)
EXTENDS ServicesProperties, TLC

Symmetry == Permutations(Jobs) \cup Permutations(Requests) \cup Permutations(Wallets)
=============================================================================
