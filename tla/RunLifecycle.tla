---------------------------- MODULE RunLifecycle ----------------------------
(***************************************************************************)
(* What the Run table promises, whatever the number of concurrent callers: *)
(* every change of a Run is one indivisible, legal step from the state it  *)
(* replaces, and each change takes the next version.  RunStore, where a    *)
(* call reads, checks and writes in separate database transactions, is     *)
(* shown to implement this.                                                *)
(***************************************************************************)
EXTENDS Naturals, RunStates

CONSTANT Runs

VARIABLES
  state,     \* stored state of each Run, or Absent
  version    \* optimistic version of each Run, 0 while the row does not exist

lifeVars == <<state, version>>

LInit ==
  /\ state = [r \in Runs |-> Absent]
  /\ version = [r \in Runs |-> 0]

\* A new Run appears QUEUED at version 1.
LCreate(r) ==
  /\ state[r] = Absent
  /\ state' = [state EXCEPT ![r] = "QUEUED"]
  /\ version' = [version EXCEPT ![r] = 1]

\* One caller moves one Run along an edge of the table (or re-asserts its state).
LMove(r, to) ==
  /\ state[r] # Absent
  /\ Allowed(state[r], to)
  /\ state' = [state EXCEPT ![r] = to]
  /\ version' = [version EXCEPT ![r] = @ + 1]

\* Emergency Stop moves a set of interruptible Runs in one database transaction.
LInterrupt(S) ==
  /\ \A r \in S : state[r] \in Interruptible
  /\ state' = [r \in Runs |-> IF r \in S THEN "INTERRUPTED" ELSE state[r]]
  /\ version' = [r \in Runs |-> IF r \in S THEN version[r] + 1 ELSE version[r]]

LNext ==
  \/ \E r \in Runs : LCreate(r)
  \/ \E r \in Runs, to \in RunStateSet : LMove(r, to)
  \/ \E S \in SUBSET Runs : LInterrupt(S)

LSpec == LInit /\ [][LNext]_lifeVars

=============================================================================
