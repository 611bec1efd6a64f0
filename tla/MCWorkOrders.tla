--------------------------- MODULE MCWorkOrders ---------------------------
(* WorkOrders on a small instance. *)
EXTENDS WorkOrders, TLC

CONSTANTS o1, o2, c1, c2

Symmetry == Permutations(Orders) \cup Permutations(Calls)

=============================================================================
