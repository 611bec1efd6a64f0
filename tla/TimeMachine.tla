----------------------------- MODULE TimeMachine -----------------------------
(***************************************************************************)
(* Replay of one checkpoint (timemachine.py) against Emergency Stop        *)
(* (emergency.py), a grant the owner may revoke and a source branch that   *)
(* its Builder may move.  A replay makes a branch with git and then a Run  *)
(* in the database; no transaction covers both.                            *)
(*                                                                         *)
(* A checkpoint is abstracted to what verification and git tell apart:     *)
(* whether its row still hashes to its content_hash, what became of the    *)
(* files it names, and what its head_sha is to git - the whole name of a   *)
(* commit ("exact"), another name of one ("short"), or no commit that the  *)
(* checkout has ("unknown").                                               *)
(***************************************************************************)
EXTENDS Naturals

CONSTANTS
  Calls,        \* overlapping replay() / fork() / recover() calls
  Elsewhere,    \* calls in another Core process: engage()'s own flag is not theirs
  HeadShas,     \* what a checkpoint may be given as its head_sha
  Scope,        \* autonomy.evaluate permits repo_write in the trusted scope
  MaxCommits,   \* bound: commits to the source branch
  MaxStops,     \* bound: Emergency Stops
  MayCrash      \* processes may die

ASSUME BoundsAssumption ==
  /\ HeadShas \subseteq {"none", "exact", "short", "unknown"}
  /\ MaxCommits \in Nat /\ MaxStops \in Nat

VARIABLES
  checkpoint,   \* its row: made, still sound, the files it names, its head_sha
  grant,        \* state of the grant the calls name
  source,       \* commits on the source branch
  stop,         \* durable Emergency Stop
  engage,       \* step of engage(): "idle", "marked", "durable"
  stops,        \* Emergency Stops so far
  step,         \* step of each call
  before,       \* head of the source branch that the call read
  branch,       \* the call's replay branch exists
  run,          \* state of the call's Run, "none" before the INSERT
  result        \* how the call ended

vars == <<checkpoint, grant, source, stop, engage, stops, step, before, branch, run, result>>

RunStatesHere == {"none", "QUEUED", "INTERRUPTED", "CANCELLED"}
CheckpointInputs == [secret : BOOLEAN, unhashed : BOOLEAN, head : HeadShas]
Checkpoint == [made : BOOLEAN, sound : BOOLEAN, files : {"match", "altered", "missing"},
               head : {"none", "exact", "short", "unknown"}]
Ended == {"replayed", "INVALID_EVIDENCE", "EMERGENCY_STOP", "GRANT", "CHECKPOINT_NO_HEAD",
          "BRANCH_FAILED", "REPLAY_STATE_MISMATCH", "SOURCE_REWRITTEN", "INSERT_FAILED", "cut"}

TypeOK ==
  /\ checkpoint \in Checkpoint
  /\ grant \in {"ACTIVE", "REVOKED", "EXPIRED"}
  /\ source \in 0..MaxCommits
  /\ stop \in BOOLEAN
  /\ engage \in {"idle", "marked", "durable"}
  /\ stops \in 0..MaxStops
  /\ step \in [Calls -> {"idle", "verified", "allowed", "branched", "checked", "inserted",
                         "cancelled", "done"}]
  /\ before \in [Calls -> 0..MaxCommits]
  /\ branch \in [Calls -> BOOLEAN]
  /\ run \in [Calls -> RunStatesHere]
  /\ result \in [Calls -> Ended \cup {"open"}]

Init ==
  /\ checkpoint = [made |-> FALSE, sound |-> TRUE, files |-> "match", head |-> "none"]
  /\ grant = "ACTIVE"
  /\ source = 0
  /\ stop = FALSE
  /\ engage = "idle"
  /\ stops = 0
  /\ step = [c \in Calls |-> "idle"]
  /\ before = [c \in Calls |-> 0]
  /\ branch = [c \in Calls |-> FALSE]
  /\ run = [c \in Calls |-> "none"]
  /\ result = [c \in Calls |-> "open"]

(* create_checkpoint refuses secrets and files without a hash, then writes the row once. *)
CreateCheckpoint ==
  /\ ~checkpoint.made
  /\ \E i \in CheckpointInputs :
       /\ ~i.secret /\ ~i.unhashed
       /\ checkpoint' = [made |-> TRUE, sound |-> TRUE, files |-> "match", head |-> i.head]
  /\ UNCHANGED <<grant, source, stop, engage, stops, step, before, branch, run, result>>

Verified == checkpoint.made /\ checkpoint.sound /\ checkpoint.files = "match"

BlocksNewJobs(c) == stop \/ (engage # "idle" /\ c \notin Elsewhere)

End(c, r) == step' = [step EXCEPT ![c] = "done"] /\ result' = [result EXCEPT ![c] = r]
Go(c, s) == step' = [step EXCEPT ![c] = s] /\ result' = result

Verify(c) ==
  /\ step[c] = "idle" /\ checkpoint.made
  /\ IF Verified THEN Go(c, "verified") ELSE End(c, "INVALID_EVIDENCE")
  /\ UNCHANGED <<checkpoint, grant, source, stop, engage, stops, before, branch, run>>

(* First reading of the Stop, freshness of the grant, its scope, the checkpoint's head. *)
Authorize(c) ==
  /\ step[c] = "verified"
  /\ IF BlocksNewJobs(c) THEN End(c, "EMERGENCY_STOP")
     ELSE IF grant # "ACTIVE" \/ ~Scope THEN End(c, "GRANT")
     ELSE IF checkpoint.head = "none" THEN End(c, "CHECKPOINT_NO_HEAD")
     ELSE Go(c, "allowed")
  /\ before' = [before EXCEPT ![c] = source]
  /\ UNCHANGED <<checkpoint, grant, source, stop, engage, stops, branch, run>>

(* git branch <new> <head_sha>: the source branch is read, never written.  The new branch is   *)
(* compared with the head_sha as text, and only if git can read it back.                       *)
MakeBranch(c) ==
  /\ step[c] = "allowed" /\ checkpoint.head \in {"exact", "short"}
  /\ branch' = [branch EXCEPT ![c] = TRUE]
  /\ \/ Go(c, "branched")
     \/ checkpoint.head = "short" /\ End(c, "REPLAY_STATE_MISMATCH")
  /\ UNCHANGED <<checkpoint, grant, source, stop, engage, stops, before, run>>

(* git refuses: the head is no commit of the checkout, or git fails. *)
BranchFails(c) ==
  /\ step[c] = "allowed"
  /\ End(c, "BRANCH_FAILED")
  /\ UNCHANGED <<checkpoint, grant, source, stop, engage, stops, before, branch, run>>

(* The source branch moved meanwhile: the call fails and the new branch stays. *)
SourceMoved(c) ==
  /\ step[c] = "branched" /\ source # before[c]
  /\ End(c, "SOURCE_REWRITTEN")
  /\ UNCHANGED <<checkpoint, grant, source, stop, engage, stops, before, branch, run>>

Barrier(c) ==
  /\ step[c] = "branched" /\ source = before[c]
  /\ IF BlocksNewJobs(c)
     THEN End(c, "EMERGENCY_STOP") /\ branch' = [branch EXCEPT ![c] = FALSE]
     ELSE Go(c, "checked") /\ branch' = branch
  /\ UNCHANGED <<checkpoint, grant, source, stop, engage, stops, before, run>>

InsertRun(c) ==
  /\ step[c] = "checked"
  /\ run' = [run EXCEPT ![c] = "QUEUED"]
  /\ Go(c, "inserted")
  /\ UNCHANGED <<checkpoint, grant, source, stop, engage, stops, before, branch>>

InsertFails(c) ==
  /\ step[c] = "checked"
  /\ branch' = [branch EXCEPT ![c] = FALSE]
  /\ End(c, "INSERT_FAILED")
  /\ UNCHANGED <<checkpoint, grant, source, stop, engage, stops, before, run>>

(* The mutant: the Stop is not read again after the INSERT. *)
NoRecheck(c) ==
  /\ step[c] = "inserted"
  /\ End(c, "replayed")
  /\ UNCHANGED <<checkpoint, grant, source, stop, engage, stops, before, branch, run>>

Recheck(c) ==
  /\ step[c] = "inserted"
  /\ IF BlocksNewJobs(c)
     THEN Go(c, "cancelled") /\ run' = [run EXCEPT ![c] = "CANCELLED"]
     ELSE End(c, "replayed") /\ run' = run
  /\ UNCHANGED <<checkpoint, grant, source, stop, engage, stops, before, branch>>

(* The mutant: the Run is cancelled and its branch kept. *)
KeepBranch(c) ==
  /\ step[c] = "cancelled"
  /\ End(c, "EMERGENCY_STOP")
  /\ UNCHANGED <<checkpoint, grant, source, stop, engage, stops, before, branch, run>>

RollBack(c) ==
  /\ step[c] = "cancelled"
  /\ branch' = [branch EXCEPT ![c] = FALSE]
  /\ End(c, "EMERGENCY_STOP")
  /\ UNCHANGED <<checkpoint, grant, source, stop, engage, stops, before, run>>

(* The process dies between two steps of a call: nothing resumes the call. *)
Crash(c) ==
  /\ MayCrash /\ step[c] \notin {"idle", "done"}
  /\ End(c, "cut")
  /\ UNCHANGED <<checkpoint, grant, source, stop, engage, stops, before, branch, run>>

(* engage(): its own flag, the durable row, then the Runs it finds; resume() is the owner's. *)
Mark ==
  /\ ~stop /\ engage = "idle" /\ stops < MaxStops
  /\ engage' = "marked" /\ stops' = stops + 1
  /\ UNCHANGED <<checkpoint, grant, source, stop, step, before, branch, run, result>>

Engage ==
  /\ engage = "marked"
  /\ engage' = "durable" /\ stop' = TRUE
  /\ UNCHANGED <<checkpoint, grant, source, stops, step, before, branch, run, result>>

InterruptActiveRuns ==
  /\ engage = "durable"
  /\ run' = [c \in Calls |-> IF run[c] = "QUEUED" THEN "INTERRUPTED" ELSE run[c]]
  /\ engage' = "idle"
  /\ UNCHANGED <<checkpoint, grant, source, stop, stops, step, before, branch, result>>

Resume ==
  /\ stop /\ engage = "idle"
  /\ stop' = FALSE
  /\ UNCHANGED <<checkpoint, grant, source, engage, stops, step, before, branch, run, result>>

Tamper ==
  /\ checkpoint.made
  /\ \/ checkpoint' = [checkpoint EXCEPT !.sound = FALSE]
     \/ \E f \in {"altered", "missing"} : checkpoint' = [checkpoint EXCEPT !.files = f]
  /\ UNCHANGED <<grant, source, stop, engage, stops, step, before, branch, run, result>>

LoseGrant ==
  /\ grant = "ACTIVE" /\ grant' \in {"REVOKED", "EXPIRED"}
  /\ UNCHANGED <<checkpoint, source, stop, engage, stops, step, before, branch, run, result>>

Commit ==
  /\ source < MaxCommits /\ source' = source + 1
  /\ UNCHANGED <<checkpoint, grant, stop, engage, stops, step, before, branch, run, result>>

Next ==
  \/ CreateCheckpoint \/ Tamper \/ LoseGrant \/ Commit
  \/ Mark \/ Engage \/ InterruptActiveRuns \/ Resume
  \/ \E c \in Calls :
       \/ Verify(c) \/ Authorize(c) \/ MakeBranch(c) \/ BranchFails(c) \/ SourceMoved(c)
       \/ Barrier(c) \/ InsertRun(c) \/ InsertFails(c) \/ Recheck(c) \/ RollBack(c) \/ Crash(c)

Spec == Init /\ [][Next]_vars

-----------------------------------------------------------------------------
(* Once Emergency Stop has done its work and a replay call is over, the   *)
(* call left no Run that waits to be started, from whichever process it   *)
(* came and wherever the Stop cut into it (the two-sided barrier around   *)
(* the INSERT).  A call cut by a crash is the exception: nothing runs the *)
(* second reading for it.                                                 *)
StopHoldsReplays ==
  stop /\ engage = "idle" =>
    \A c \in Calls : step[c] = "done" /\ result[c] # "cut" => run[c] # "QUEUED"

(* A call that ended without its replay and without a crash leaves neither *)
(* a live Run nor a branch.  The two refusals that come between git branch *)
(* and the first barrier take no branch back, although the message of the  *)
(* second (timemachine.py:495) speaks of a rollback; they leave no Run.    *)
AbandonedLeavesNothing ==
  \A c \in Calls : step[c] = "done" /\ result[c] \notin {"replayed", "cut"} =>
    /\ run[c] \in {"none", "CANCELLED"}
    /\ result[c] \notin {"REPLAY_STATE_MISMATCH", "SOURCE_REWRITTEN"} => ~branch[c]

=============================================================================
