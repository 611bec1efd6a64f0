------------------------------ MODULE MCGrants ------------------------------
(* Grants on a small instance. *)
EXTENDS Grants, TLC

Symmetry == Permutations(Callers) \cup Permutations(Owners)

=============================================================================
