----------------------------- MODULE MCRunStore -----------------------------
(* RunStore on small instances. *)
EXTENDS RunStore, TLC

CONSTANTS r1, r2, p1, p2, c1, c2, c3

TwoProjects == [r \in Runs |-> IF r = r1 THEN p1 ELSE p2]

\* How far the Runs are moved.
OneMoves == [r \in Runs |-> IF r = r1 THEN 3 ELSE 1]

CallSymmetry == Permutations(Calls)

=============================================================================
