--------------------------- MODULE MCRunDispatch ---------------------------
(* RunDispatch on small instances. *)
EXTENDS RunDispatch, TLC

CONSTANTS r1, r2, p1, p2, x1, x2, c1, c2

\* Each call has a Run of its own, or both dispatch the same one.
OwnRun == [c \in Calls |-> IF c = c1 THEN r1 ELSE r2]
SameRun == [c \in Calls |-> r1]

\* All calls in the process of engage(), or the second one elsewhere.
OneProcess == [c \in Calls |-> x1]
TwoProcesses == [c \in Calls |-> IF c = c1 THEN x1 ELSE x2]

ProfileSymmetry == Permutations(Profiles)

=============================================================================
