---------------------------- MODULE Orchestrator ----------------------------
(***************************************************************************)
(* VP-0: one job carried from profile to profile by Core.run_with_switch   *)
(* (orchestrator.py) over the SQLite store (store.py) and its leases       *)
(* (leases.py).  A failed attempt leaves a checkpoint and a handoff with   *)
(* the progress made, then gives the lease back; a rate limit goes on with *)
(* the next candidate.  Core may die between any two writes; the next Core *)
(* marks the Runs it finds active, frees the orphaned lease after          *)
(* reconciliation and continues from the last handoff.                     *)
(***************************************************************************)
EXTENDS Integers, Sequences

CONSTANTS
  Candidates,  \* bound: how many profiles may try, over all restarts
  Length       \* bound: items of the job

VARIABLES
  core,        \* what Core is doing
  attempt,     \* number of the present or last attempt
  from,        \* where the present job package starts
  reached,     \* what the present attempt has got to: in the memory of Core
  runs,        \* state of the Run row of each attempt
  checkpoints, \* number of checkpoints saved
  handoffs,    \* processed_index of each handoff saved
  held,        \* the worktree has an active lease
  performed,   \* how often each item was worked on
  cut,         \* history: deaths of Core that left work unrecorded
  blanks,      \* history: handoffs saved without an index
  result       \* the result returned, "none" until then

orchVars == <<core, attempt, from, reached, runs, checkpoints, handoffs, held, performed, cut, blanks, result>>
work == <<performed, cut, blanks>>

Active == {"QUEUED", "PREPARING", "RUNNING", "COLLECTING"}
Switchable == {"RATE_LIMITED"}
Midway == Switchable \cup {"USER_INTERRUPTED", "NETWORK_ERROR"}

\* Raised before the first item; AUTH_EXPIRED, POLICY_DENIED and OUTPUT_INVALID go the same way.
Early == {"AUTH_REQUIRED"}
Codes == Midway \cup Early

NoIndex == -1

StateFor(code) ==
  CASE code = "RATE_LIMITED" -> "RATE_LIMITED"
    [] code = "USER_INTERRUPTED" -> "INTERRUPTED"
    [] OTHER -> "FAILED"

Pending == [pc |-> "failed", code |-> "NETWORK_ERROR"]
At(pc) == [Pending EXCEPT !.pc = pc]

TypeOK ==
  /\ core \in [pc : {"idle", "acquired", "working", "failed", "checkpointed", "saved", "recorded",
                     "released", "answered", "freed", "down", "restarted", "gone"}, code : Codes]
  /\ attempt \in 0..Candidates
  /\ from \in 0..Length /\ reached \in 0..Length
  /\ runs \in [1..attempt -> Active \cup {"RATE_LIMITED", "INTERRUPTED", "FAILED", "SUCCEEDED", "none"}]
  /\ handoffs \in Seq({NoIndex} \cup 0..Length)
  /\ result \in {"none", "done"}

Init ==
  /\ core = At("idle")
  /\ attempt = 0 /\ from = 0 /\ reached = 0 /\ cut = 0 /\ blanks = 0
  /\ performed = [i \in 1..Length |-> 0]
  /\ runs = <<>> /\ handoffs = <<>> /\ checkpoints = 0
  /\ held = FALSE
  /\ result = "none"

\* No active lease, then acquire: WORKTREE_CONFLICT otherwise.
Acquire ==
  /\ core.pc = "idle"
  /\ attempt < Candidates
  /\ ~held
  /\ held' = TRUE
  /\ attempt' = attempt + 1
  /\ runs' = Append(runs, "none")
  /\ core' = At("acquired")
  /\ UNCHANGED <<from, reached, checkpoints, handoffs, work, result>>

Conflict ==
  /\ core.pc = "idle"
  /\ held
  /\ core' = At("gone")
  /\ UNCHANGED <<attempt, from, reached, runs, checkpoints, handoffs, held, work, result>>

StartRun ==
  /\ core.pc = "acquired"
  /\ runs' = [runs EXCEPT ![attempt] = "RUNNING"]
  /\ reached' = from
  /\ core' = At("working")
  /\ UNCHANGED <<attempt, from, checkpoints, handoffs, held, work, result>>

\* on_progress
Progress ==
  /\ core.pc = "working"
  /\ reached < Length
  /\ reached' = reached + 1
  /\ performed' = [performed EXCEPT ![reached + 1] = @ + 1]
  /\ UNCHANGED <<core, attempt, from, runs, checkpoints, handoffs, held, cut, blanks, result>>

\* The adapter raises, midway through the items or before it has looked at one.
Fail(code) ==
  /\ core.pc = "working"
  /\ reached < Length
  /\ code \in Early => reached = from
  /\ core' = [pc |-> "failed", code |-> code]
  /\ UNCHANGED <<attempt, from, reached, runs, checkpoints, handoffs, held, work, result>>

SaveCheckpoint ==
  /\ core.pc = "failed"
  /\ checkpoints' = checkpoints + 1
  /\ core' = [core EXCEPT !.pc = "checkpointed"]
  /\ UNCHANGED <<attempt, from, reached, runs, handoffs, held, work, result>>

\* Mutant: the handoff is left for later.
SaveHandoffLate ==
  /\ core.pc = "checkpointed"
  /\ core' = [core EXCEPT !.pc = "saved"]
  /\ UNCHANGED <<attempt, from, reached, runs, checkpoints, handoffs, held, work, result>>

\* The handoff takes the partial_state of the error as it is: that of an early error is where the
\* attempt started, under the name start_index, and has no processed_index.
SaveHandoff ==
  /\ core.pc = "checkpointed"
  /\ handoffs' = Append(handoffs, IF core.code \in Early THEN NoIndex ELSE reached)
  /\ blanks' = IF core.code \in Early THEN blanks + 1 ELSE blanks
  /\ core' = [core EXCEPT !.pc = "saved"]
  /\ UNCHANGED <<attempt, from, reached, runs, checkpoints, held, performed, cut, result>>

RecordFailure ==
  /\ core.pc = "saved"
  /\ runs' = [runs EXCEPT ![attempt] = StateFor(core.code)]
  /\ core' = [core EXCEPT !.pc = "recorded"]
  /\ UNCHANGED <<attempt, from, reached, checkpoints, handoffs, held, work, result>>

Release ==
  /\ core.pc = "recorded"
  /\ held' = FALSE
  /\ core' = [core EXCEPT !.pc = "released"]
  /\ UNCHANGED <<attempt, from, reached, runs, checkpoints, handoffs, work, result>>

\* The handoff is verified (a mismatch is only logged) and the next job starts where it ended;
\* other errors, and the last candidate's, are raised.
Switch ==
  /\ core.pc = "released"
  /\ IF core.code \in Switchable /\ attempt < Candidates
     THEN core' = At("idle") /\ from' = reached
     ELSE core' = At("gone") /\ UNCHANGED from
  /\ UNCHANGED <<attempt, reached, runs, checkpoints, handoffs, held, work, result>>

\* Success: the lease first, then the Run and its evidence.
Succeed ==
  /\ core.pc = "working"
  /\ reached = Length
  /\ core' = At("answered")
  /\ UNCHANGED <<attempt, from, reached, runs, checkpoints, handoffs, held, work, result>>

ReleaseDone ==
  /\ core.pc = "answered"
  /\ held' = FALSE
  /\ core' = At("freed")
  /\ UNCHANGED <<attempt, from, reached, runs, checkpoints, handoffs, work, result>>

RecordSuccess ==
  /\ core.pc = "freed"
  /\ runs' = [runs EXCEPT ![attempt] = "SUCCEEDED"]
  /\ result' = "done"
  /\ core' = At("gone")
  /\ UNCHANGED <<attempt, from, reached, checkpoints, handoffs, held, work>>

-----------------------------------------------------------------------------
\* Until its handoff is saved an attempt exists in memory only; and a success gives the lease back
\* before its result is recorded.
Unrecorded == core.pc \in {"working", "failed", "checkpointed", "answered", "freed"}

Die ==
  /\ core.pc \notin {"down", "restarted"}
  /\ core' = At("down")
  /\ cut' = IF Unrecorded THEN cut + 1 ELSE cut
  /\ UNCHANGED <<attempt, from, reached, runs, checkpoints, handoffs, held, performed, blanks, result>>

\* recover_after_core_restart: mark_interrupted_active.
Restart ==
  /\ core.pc = "down"
  /\ runs' = [a \in DOMAIN runs |-> IF runs[a] \in Active THEN "INTERRUPTED" ELSE runs[a]]
  /\ core' = At("restarted")
  /\ UNCHANGED <<attempt, from, reached, checkpoints, handoffs, held, work, result>>

\* The orphaned lease has expired and its process is dead.
Reconcile ==
  /\ core.pc = "restarted"
  /\ held
  /\ held' = FALSE
  /\ UNCHANGED <<core, attempt, from, reached, runs, checkpoints, handoffs, work, result>>

\* Where the job continues after the last handoff: progress.get("processed_index", 0).
Resume(s) == IF s = <<>> \/ s[Len(s)] = NoIndex THEN 0 ELSE s[Len(s)]

\* The owner continues the job from the last handoff.
Continue ==
  /\ core.pc = "restarted"
  /\ result = "none"
  /\ from' = Resume(handoffs)
  /\ core' = At("idle")
  /\ UNCHANGED <<attempt, reached, runs, checkpoints, handoffs, held, work, result>>

Next ==
  \/ Acquire \/ Conflict \/ StartRun \/ Progress
  \/ \E code \in Codes : Fail(code)
  \/ SaveCheckpoint \/ SaveHandoff \/ RecordFailure \/ Release \/ Switch
  \/ Succeed \/ ReleaseDone \/ RecordSuccess
  \/ Die \/ Restart \/ Reconcile \/ Continue

Spec == Init /\ [][Next]_orchVars

-----------------------------------------------------------------------------
(* Properties *)

\* Work is repeated only where its record was lost: Core died during an attempt or before the record
\* of its success, or a handoff was saved without an index.  Any other attempt that fails has its
\* progress in a handoff before the worktree is free, so neither the next candidate nor a Core that
\* starts after a crash does an item again.  A handoff without an index hides the progress in those
\* before it: a job continued from it starts at the first item (orchestrator.py:96, 165).
RepeatedOnlyIfLost == \A i \in 1..Length : performed[i] <= 1 + cut + blanks

=============================================================================
