---------------------------- MODULE MergeDelivery ----------------------------
(***************************************************************************)
(* merge_pull_request of the GitHub adapter (github_adapter.py), with the  *)
(* merge gate (merge_gate.py) that authorizes it, the durable delivery     *)
(* rows (deliveries.py) that record it, the grant it is paid from (module  *)
(* Grants) and Emergency Stop.  Callers merge one pull request.  GitHub is *)
(* the environment: pushes, retargeting, checks and closing happen between *)
(* any two reads.                                                          *)
(***************************************************************************)
EXTENDS Grants

CONSTANTS
  Heads,      \* commits the branch of the pull request may point to
  Reviewed,   \* those with a ReviewPackage whose QualityReport is PASS
  Previewed,  \* bases and heads for which the gate is previewed
  Reported,   \* merge states the client of a preview sends along: stored as they are
  Local,      \* callers in the process that runs engage()
  MaxStops    \* bound: Emergency Stop is engaged at most this often

ASSUME MergeAssumption ==
  Reviewed \subseteq Heads /\ Previewed \subseteq Scopes \X Heads /\ Local \subseteq Callers /\ MaxStops \in Nat

VARIABLES
  pr,        \* the pull request on GitHub
  ready,     \* heads whose checks are green and which GitHub calls mergeable
  valid,     \* heads whose ReviewPackage is still valid
  delivery,  \* the rows of github_deliveries, by base and head
  merge,     \* progress and locals of each merge_pull_request
  stop,      \* "off", "engaging": the in-process flag, "on": the durable row
  stops,     \* engagements so far
  caught     \* history: callers that were short of the squash when they could see the stop

mvars == <<pr, ready, valid, delivery, merge, stop, stops, caught>>
vars == <<gvars, mvars>>

Bases == Scopes
Steps == {"gate", "base", "pay", "fresh", "record", "last", "squash", "finalize"}
Idle == [step |-> "idle"]
Over == [step |-> "over"]
Merges ==
  {Idle, Over}
  \cup [step : {"forge"}, head : Heads]
  \cup [step : Steps, head : Heads, base : Bases, fit : BOOLEAN]

\* The two columns of a row that tell how far the delivery is; Absent is no row.
Row(pr_state, merge_state) == [pr_state |-> pr_state, merge_state |-> merge_state]
Absent == Row("absent", "absent")
Deliveries ==
  {Absent} \cup [pr_state : {"NONE", "OPEN", "MERGED"},
                merge_state : {"AUTHORIZED", "MERGED"} \cup Reported]

MergeTypeOK ==
  /\ pr \in [state : {"OPEN", "CLOSED", "MERGED"}, head : Heads, base : Bases]
  /\ ready \subseteq Heads
  /\ valid \subseteq Reviewed
  /\ delivery \in [Bases \X Heads -> Deliveries]
  /\ merge \in [Callers -> Merges]
  /\ stop \in {"off", "engaging", "on"}
  /\ stops \in Nat
  /\ caught \subseteq Callers

TypeOK == GrantTypeOK /\ MergeTypeOK

Init ==
  /\ GrantInit
  /\ pr \in [state : {"OPEN"}, head : Heads, base : Granted]
  /\ ready = {}
  /\ valid = Reviewed
  /\ delivery = [k \in Bases \X Heads |-> Absent]
  /\ merge = [c \in Callers |-> Idle]
  /\ stop = "off"
  /\ stops = 0
  /\ caught = {}

-----------------------------------------------------------------------------
Before(c, step) == merge[c].step = step
GoOn(c, step, base) ==
  merge' = [merge EXCEPT ![c] = [step |-> step, head |-> @.head, base |-> base, fit |-> @.fit]]
Goto(c, step) == GoOn(c, step, merge[c].base)
End(c) == merge' = [merge EXCEPT ![c] = Over]

\* Each refusal is an exception: nothing the call did is undone.
GoIf(c, condition, step) == IF condition THEN Goto(c, step) ELSE End(c)

environment == <<pr, ready, valid, stop, stops, caught>>
Live(c) == pr.state = "OPEN" /\ pr.head = merge[c].head

-----------------------------------------------------------------------------
(* authorize_merge_execution and evaluate_merge *)

\* The package the caller names is validated against the head: one of another head becomes
\* invalid for good.
Review(c, head, pack) ==
  /\ merge[c] = Idle
  /\ valid' = IF pack = head THEN valid ELSE valid \ {pack}
  /\ merge' = [merge EXCEPT ![c] = IF pack = head /\ pack \in valid
                                  THEN [step |-> "forge", head |-> head] ELSE Over]
  /\ UNCHANGED <<gvars, pr, ready, delivery, stop, stops, caught>>

\* get_pr, checks, mergeability and then is_active(), which sees the durable row only.  What
\* GitHub changes between these reads it might as well change before or after all of them, so
\* they are one step.
ReadForge(c) ==
  /\ Before(c, "forge")
  /\ IF Live(c) /\ stop # "on"
     THEN merge' = [merge EXCEPT ![c] = [step |-> "gate", head |-> pr.head, base |-> pr.base,
                                         fit |-> pr.head \in ready]]
     ELSE End(c)
  /\ UNCHANGED <<gvars, environment, delivery>>

GateEvaluate(c) ==
  /\ Before(c, "gate")
  /\ Evaluate(c, merge[c].base)
  /\ UNCHANGED mvars

\* The remaining conditions of the gate are about what has been read.
Decide(c) ==
  /\ Before(c, "gate")
  /\ Forget(c)
  /\ GoIf(c, merge[c].fit, "base")
  /\ UNCHANGED <<environment, delivery>>

-----------------------------------------------------------------------------
(* _consume: under the base the caller named, which the gate has compared with the live one, *)
(* or else under the base the pull request has now                                           *)

\* emergency.blocks_new_jobs(): the flag of the own process or the durable row.
BlocksNewJobs(c) == stop = "on" \/ (c \in Local /\ stop = "engaging")

ReadBase(c) ==
  /\ Before(c, "base")
  /\ IF BlocksNewJobs(c)
     THEN End(c)
     ELSE \E base \in {merge[c].base, pr.base} : GoOn(c, "pay", base)
  /\ UNCHANGED <<gvars, environment, delivery>>

PayEvaluate(c) ==
  /\ Before(c, "pay")
  /\ Evaluate(c, merge[c].base)
  /\ UNCHANGED mvars

PayRead(c) ==
  /\ Before(c, "pay")
  /\ ConsumeRead(c)
  /\ UNCHANGED mvars

Pay(c) ==
  /\ Before(c, "pay")
  /\ ConsumeWrite(c)
  /\ Goto(c, "fresh")
  /\ UNCHANGED <<environment, delivery>>

-----------------------------------------------------------------------------
(* Back in merge_pull_request *)

\* Pull request, checks and mergeability are read again, then the first barrier.
ReadAgain(c) ==
  /\ Before(c, "fresh")
  /\ IF Live(c) /\ pr.head \in ready /\ ~BlocksNewJobs(c)
     THEN GoOn(c, "record", pr.base)
     ELSE End(c)
  /\ UNCHANGED <<gvars, environment, delivery>>

\* record_delivery is one upsert: it inserts the row or overwrites both columns.
Upsert(k, row) == delivery' = [delivery EXCEPT ![k] = row]
Key(c) == <<merge[c].base, merge[c].head>>

\* Mutant: the delivery is written after the merge only.
NotYet(c) ==
  /\ Before(c, "record")
  /\ Goto(c, "last")
  /\ UNCHANGED <<gvars, environment, delivery>>

\* record_delivery before the squash; when it raises there is no merge (Break).
Record(c) ==
  /\ Before(c, "record")
  /\ Upsert(Key(c), Row("OPEN", "AUTHORIZED"))
  /\ Goto(c, "last")
  /\ UNCHANGED <<gvars, environment>>

\* Mutant: no second look at Emergency Stop.
NoBarrier(c) ==
  /\ Before(c, "last")
  /\ Goto(c, "squash")
  /\ UNCHANGED <<gvars, environment, delivery>>

LastBarrier(c) ==
  /\ Before(c, "last")
  /\ GoIf(c, ~BlocksNewJobs(c), "squash")
  /\ UNCHANGED <<gvars, environment, delivery>>

\* Mutant: without --match-head-commit.
AnyHead(c) == pr.state = "OPEN"

\* gh pr merge --squash --match-head-commit.
Accepts(c) == Live(c)

Squash(c) ==
  /\ Before(c, "squash")
  /\ Accepts(c)
  /\ pr' = [pr EXCEPT !.state = "MERGED"]
  /\ Goto(c, "finalize")
  /\ UNCHANGED <<gvars, ready, valid, delivery, stop, stops, caught>>

\* Mutant: the exit status of gh is not looked at.
SquashUnchecked(c) ==
  /\ Before(c, "squash")
  /\ ~Accepts(c)
  /\ Goto(c, "finalize")
  /\ UNCHANGED <<gvars, environment, delivery>>

SquashRefused(c) ==
  /\ Before(c, "squash")
  /\ ~Accepts(c)
  /\ End(c)
  /\ UNCHANGED <<gvars, environment, delivery>>

Finalize(c) ==
  /\ Before(c, "finalize")
  /\ Upsert(Key(c), Row("MERGED", "MERGED"))
  /\ End(c)
  /\ UNCHANGED <<gvars, environment>>

\* The process dies, or a call to SQLite or GitHub raises: also after GitHub has merged and
\* its answer was lost.
Break(c) ==
  /\ merge[c].step \notin {"idle", "over"}
  /\ End(c)
  /\ UNCHANGED <<gvars, environment, delivery>>

\* evaluate() marks an expired grant before it refuses.
Mark(c) ==
  /\ merge[c].step \in {"gate", "pay"}
  /\ MarkRead(c) \/ MarkWrite(c)
  /\ UNCHANGED mvars

-----------------------------------------------------------------------------
(* GitHub, the owner and Emergency Stop *)

rest == <<gvars, delivery, merge, stop, stops, caught>>

Push(head) ==
  /\ pr.state = "OPEN"
  /\ head # pr.head
  /\ pr' = [pr EXCEPT !.head = head]
  /\ UNCHANGED <<rest, ready, valid>>

Retarget(base) ==
  /\ pr.state = "OPEN"
  /\ base # pr.base
  /\ pr' = [pr EXCEPT !.base = base]
  /\ UNCHANGED <<rest, ready, valid>>

Close ==
  /\ pr.state = "OPEN"
  /\ pr' = [pr EXCEPT !.state = "CLOSED"]
  /\ UNCHANGED <<rest, ready, valid>>

\* Checks are green or red again, the head becomes mergeable or not.  Nothing looks at the
\* checks of a head without a review.
Judge(head) ==
  /\ pr.state = "OPEN"
  /\ ready' = IF head \in ready THEN ready \ {head} ELSE ready \cup {head}
  /\ UNCHANGED <<rest, pr, valid>>

\* A file named as evidence changes or disappears: validation rejects the package from now on.
LoseEvidence(head) ==
  /\ head \in valid
  /\ valid' = valid \ {head}
  /\ UNCHANGED <<rest, pr, ready>>

\* The preview of the gate records its decision under the same key.  It names no pr_state, so
\* that column falls back to its default, and takes the merge state from the request, unchecked.
\* To the grant its evaluation is one more GateEvaluate.
Preview(k) ==
  /\ \E state \in Reported : Upsert(k, Row("NONE", state))
  /\ UNCHANGED <<gvars, pr, ready, valid, merge, stop, stops, caught>>

Short == {c \in Callers : merge[c].step \notin {"squash", "finalize"}}

EngageFlag ==
  /\ stop = "off"
  /\ stops < MaxStops
  /\ stop' = "engaging"
  /\ stops' = stops + 1
  /\ caught' = Short \cap Local
  /\ UNCHANGED <<gvars, pr, ready, valid, delivery, merge>>

EngageBarrier ==
  /\ stop = "engaging"
  /\ stop' = "on"
  /\ caught' = caught \cup (Short \ Local)
  /\ UNCHANGED <<gvars, pr, ready, valid, delivery, merge, stops>>

\* engage() raises before its row is durable and lowers the flag, or the owner resumes.
StopEnds ==
  /\ stop # "off"
  /\ stop' = "off"
  /\ caught' = {}
  /\ UNCHANGED <<gvars, pr, ready, valid, delivery, merge, stops>>

-----------------------------------------------------------------------------
CallStep(c) ==
  \/ \E head \in Heads, pack \in Reviewed : Review(c, head, pack)
  \/ ReadForge(c) \/ GateEvaluate(c) \/ Decide(c)
  \/ ReadBase(c) \/ PayEvaluate(c) \/ PayRead(c) \/ Pay(c) \/ Mark(c)
  \/ ReadAgain(c) \/ Record(c) \/ LastBarrier(c)
  \/ Squash(c) \/ SquashRefused(c) \/ Finalize(c)
  \/ Break(c)

Forge ==
  \/ \E head \in Heads : Push(head)
  \/ \E head \in Reviewed : Judge(head) \/ LoseEvidence(head)
  \/ \E base \in Bases : Retarget(base)
  \/ Close

Next ==
  \/ \E c \in Callers : CallStep(c)
  \/ Forge
  \/ \E k \in Previewed : Preview(k)
  \/ \E o \in Owners : OwnerStep(o) /\ UNCHANGED mvars
  \/ TimePasses /\ UNCHANGED mvars
  \/ EngageFlag \/ EngageBarrier \/ StopEnds

Spec == Init /\ [][Next]_vars

-----------------------------------------------------------------------------
(* Properties *)

\* A merge never precedes its durable record: whatever breaks, and whatever the pull request
\* has become meanwhile, a merged head has a delivery row.
MergeIsRecorded ==
  pr.state = "MERGED" => \E base \in Bases : delivery[<<base, pr.head>>] # Absent

\* What is merged is a head that was reviewed, although the branch may be pushed to between
\* any two checks and the squash.
MergedIsReviewed == pr.state = "MERGED" => pr.head \in Reviewed

MergedAt(head) == pr.state = "MERGED" /\ pr.head = head

\* A row whose pr_state is MERGED (the column the list of deliveries shows) is of a pull request
\* that was merged at that head: only the end of a merge writes it, never a preview.  Of merge_state this
\* is not so: a preview stores what its client sends (api_autonomy.py:184).
RecordsAreTrue ==
  \A k \in Bases \X Heads : delivery[k].pr_state = "MERGED" => MergedAt(k[2])

\* Until the owner resumes, a call that could see Emergency Stop before it reached the squash
\* does not merge, in whichever process it runs.
StopHoldsMerges ==
  [][\A c \in caught : ~(merge[c].step = "squash" /\ merge'[c].step = "finalize")]_vars

=============================================================================
