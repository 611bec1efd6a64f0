--------------------------- MODULE PlanningProofs ---------------------------
(***************************************************************************)
(* What decides about the work, for any number of calls, versions, nodes,  *)
(* profiles, packages and orders: a replay of the Time Machine against     *)
(* Emergency Stop, and for each component of MCPlanning its invariant with *)
(* the inductive invariant that it needs.  A component moves only while it *)
(* is in focus, so what holds of it alone holds of PlanningSpec.           *)
(***************************************************************************)
EXTENDS MCPlanning, SequenceTheorems, FiniteSetTheorems, WellFoundedInduction, TLAPS

-----------------------------------------------------------------------------
(* TimeMachine: a replay against Emergency Stop *)

BeforeBranch == {"idle", "verified", "allowed"}
BeforeInsert == BeforeBranch \cup {"branched", "checked"}

\* A call has a branch or a Run only from the step that makes it, and a Run it has taken back
\* stays CANCELLED although engage() passes over the Runs.
MadeInOrder ==
  \A c \in Calls :
    /\ step[c] \in BeforeBranch => ~branch[c]
    /\ step[c] \in BeforeInsert => run[c] = "none"
    /\ step[c] = "cancelled" => run[c] = "CANCELLED"
    /\ step[c] = "done" /\ result[c] \in {"REPLAY_STATE_MISMATCH", "SOURCE_REWRITTEN"} => run[c] = "none"

ReplayInv == TypeOK /\ MadeInOrder /\ AbandonedLeavesNothing /\ StopHoldsReplays

LEMMA ReplayInitially == Init => ReplayInv
<1> SUFFICES ASSUME Init PROVE ReplayInv
  OBVIOUS
<1>1. TypeOK
  <2>1. checkpoint \in Checkpoint
    BY DEF Init, Checkpoint
  <2>2. source \in 0..MaxCommits /\ stops \in 0..MaxStops /\ before \in [Calls -> 0..MaxCommits]
    BY BoundsAssumption DEF Init
  <2> QED
    BY <2>1, <2>2 DEF Init, TypeOK, RunStatesHere, Ended
<1>2. \A c \in Calls : step[c] = "idle" /\ ~branch[c] /\ run[c] = "none"
  BY DEF Init
<1> QED
  BY <1>1, <1>2 DEF ReplayInv, MadeInOrder, AbandonedLeavesNothing, StopHoldsReplays

\* Every step keeps the invariant.  A replay is reported only by a second reading that saw no Stop,
\* so a Stop that is on later has still to pass over the Run it left.
LEMMA ReplayInductive == ReplayInv /\ [Next]_vars => ReplayInv'
<1> SUFFICES ASSUME ReplayInv, [Next]_vars PROVE ReplayInv'
  OBVIOUS
<1> USE BoundsAssumption
    DEF ReplayInv, TypeOK, MadeInOrder, AbandonedLeavesNothing, StopHoldsReplays,
        Checkpoint, CheckpointInputs, BeforeBranch, BeforeInsert, RunStatesHere, Ended, End, Go
<1>1. CASE CreateCheckpoint
  <2>1. PICK i \in CheckpointInputs :
          checkpoint' = [made |-> TRUE, sound |-> TRUE, files |-> "match", head |-> i.head]
    BY <1>1 DEF CreateCheckpoint
  <2>2. checkpoint' \in Checkpoint
    BY <2>1
  <2>3. UNCHANGED <<grant, source, stop, engage, stops, step, before, branch, run, result>>
    BY <1>1 DEF CreateCheckpoint
  <2> QED
    BY <2>2, <2>3
<1>2. CASE Tamper
  BY <1>2 DEF Tamper
<1>3. CASE LoseGrant
  BY <1>3 DEF LoseGrant
<1>4. CASE Commit
  BY <1>4 DEF Commit
<1>5. CASE Mark
  BY <1>5 DEF Mark
<1>6. CASE Engage
  BY <1>6 DEF Engage
<1>7. CASE InterruptActiveRuns
  BY <1>7 DEF InterruptActiveRuns
<1>8. CASE Resume
  BY <1>8 DEF Resume
<1>9. ASSUME NEW c \in Calls, Verify(c) PROVE ReplayInv'
  BY <1>9 DEF Verify
<1>10. ASSUME NEW c \in Calls, Authorize(c) PROVE ReplayInv'
  BY <1>10 DEF Authorize
<1>11. ASSUME NEW c \in Calls, MakeBranch(c) PROVE ReplayInv'
  BY <1>11 DEF MakeBranch
<1>12. ASSUME NEW c \in Calls, SourceMoved(c) PROVE ReplayInv'
  BY <1>12 DEF SourceMoved
<1>20. ASSUME NEW c \in Calls, BranchFails(c) PROVE ReplayInv'
  BY <1>20 DEF BranchFails
<1>13. ASSUME NEW c \in Calls, Barrier(c) PROVE ReplayInv'
  <2>1. CASE BlocksNewJobs(c)
    <3>1. /\ step' = [step EXCEPT ![c] = "done"] /\ result' = [result EXCEPT ![c] = "EMERGENCY_STOP"]
          /\ branch' = [branch EXCEPT ![c] = FALSE]
          /\ UNCHANGED <<checkpoint, grant, source, stop, engage, stops, before, run>>
          /\ run[c] = "none"
      BY <1>13, <2>1 DEF Barrier
    <3>2. TypeOK'
      BY <3>1
    <3>3. MadeInOrder' /\ AbandonedLeavesNothing' /\ StopHoldsReplays'
      BY <3>1
    <3> QED
      BY <3>2, <3>3
  <2>2. CASE ~BlocksNewJobs(c)
    BY <1>13, <2>2 DEF Barrier
  <2> QED
    BY <2>1, <2>2
<1>14. ASSUME NEW c \in Calls, InsertRun(c) PROVE ReplayInv'
  BY <1>14 DEF InsertRun
<1>15. ASSUME NEW c \in Calls, InsertFails(c) PROVE ReplayInv'
  BY <1>15 DEF InsertFails
<1>16. ASSUME NEW c \in Calls, Recheck(c) PROVE ReplayInv'
  BY <1>16 DEF Recheck, BlocksNewJobs
<1>17. ASSUME NEW c \in Calls, RollBack(c) PROVE ReplayInv'
  BY <1>17 DEF RollBack
<1>18. ASSUME NEW c \in Calls, Crash(c) PROVE ReplayInv'
  BY <1>18 DEF Crash
<1>19. CASE UNCHANGED vars
  BY <1>19 DEF vars
<1> QED
  BY <1>1, <1>2, <1>3, <1>4, <1>5, <1>6, <1>7, <1>8, <1>9, <1>10, <1>11, <1>12, <1>13, <1>14,
     <1>15, <1>16, <1>17, <1>18, <1>19, <1>20 DEF Next

\* The inductive invariant of a replay.
LEMMA ReplayHolds == Spec => []ReplayInv
<1>1. Init => ReplayInv
  BY ReplayInitially
<1>2. ReplayInv /\ [Next]_vars => ReplayInv'
  BY ReplayInductive
<1> QED
  BY <1>1, <1>2, PTL DEF Spec

\* Among the components of MCPlanning a replay behaves as the specification of TimeMachine says.
LEMMA ReplayOfPlanning == PlanningSpec => Spec
<1>1. PlanningInit => Init
  BY DEF PlanningInit
<1>2. [PlanningNext]_planningVars => [Next]_vars
  BY DEF PlanningNext, planningVars
<1> QED
  BY <1>1, <1>2, PTL DEF PlanningSpec, Spec

(* Emergency Stop that has done its work leaves no Run of a replay that waits to be started,  *)
(* whichever process the call came from and wherever the Stop cut into it (timemachine.py     *)
(* replay, the second reading after the INSERT).                                              *)
THEOREM StopReachesReplays == Spec => []StopHoldsReplays
<1>1. ReplayInv => StopHoldsReplays
  BY DEF ReplayInv
<1> QED
  BY ReplayHolds, <1>1, PTL

(* A replay refused or failed after it had made its branch takes back the branch and its Run. *)
THEOREM RefusedReplaysLeaveNothing == Spec => []AbandonedLeavesNothing
<1>1. ReplayInv => AbandonedLeavesNothing
  BY DEF ReplayInv
<1> QED
  BY ReplayHolds, <1>1, PTL

-----------------------------------------------------------------------------
(* ProductMap: versions of the Brief *)

BriefStatuses == {"draft", "approved", "superseded"}
Brief == [scope : BOOLEAN, verified : BOOLEAN, status : BriefStatuses, parent : Nat]

\* What a call has read still bounds what it may find: versions are only added, and none becomes a
\* draft again.
RequestStands(r) ==
  /\ r.op \in {"intake", "revise"} => r.content \in Contents
  /\ r.op \in {"revise", "approve"} => r.brief \in 1..Product!Latest
  /\ r.op = "revise" /\ r.status # "draft" => briefs[r.brief].status # "draft"

ProductInv ==
  /\ briefs \in Seq(Brief)
  /\ client = [c \in Clients |-> client[c]]
  /\ \A c \in Clients : RequestStands(client[c].request)
  /\ Product!OneApprovedOneDraft

\* The versions that others have read are still there and none is a draft again.
BriefsGrow ==
  /\ briefs' \in Seq(Brief)
  /\ Len(briefs) <= Len(briefs')
  /\ \A v \in 1..Len(briefs) : briefs[v].status # "draft" => briefs'[v].status # "draft"

LEMMA NoRequestStands == ASSUME NEW c, client[c] = Product!NoCall PROVE RequestStands(client[c].request)
<1>1. client[c].request.op = "none"
  BY DEF Product!NoCall
<1> QED
  BY <1>1 DEF RequestStands

LEMMA RequestsStand ==
  ASSUME ProductInv, BriefsGrow, NEW c \in Clients, RequestStands(client[c].request),
         client'[c].request = client[c].request
  PROVE  RequestStands(client[c].request)'
<1>1. Len(briefs) \in Nat /\ Len(briefs') \in Nat
  BY LenProperties DEF ProductInv, BriefsGrow
<1> QED
  BY <1>1 DEF RequestStands, BriefsGrow, Product!Latest

\* The UPDATE of some rows.
LEMMA StatusIsSet ==
  ASSUME NEW rows \in Seq(Brief), NEW versions, NEW s \in BriefStatuses
  PROVE  LET set == Product!WithStatus(rows, versions, s) IN
         /\ set \in Seq(Brief)
         /\ Len(set) = Len(rows)
         /\ \A v \in 1..Len(rows) : set[v].status = IF v \in versions THEN s ELSE rows[v].status
<1> DEFINE set == Product!WithStatus(rows, versions, s)
           row(v) == IF v \in versions THEN [rows[v] EXCEPT !.status = s] ELSE rows[v]
<1>1. Len(rows) \in Nat /\ DOMAIN rows = 1..Len(rows) /\ \A v \in 1..Len(rows) : rows[v] \in Brief
  BY LenProperties, ElementOfSeq
<1>2. \A v \in 1..Len(rows) : row(v) \in Brief /\ row(v).status = IF v \in versions THEN s ELSE rows[v].status
  BY <1>1 DEF Brief
<1>3. set = [v \in 1..Len(rows) |-> row(v)]
  BY <1>1 DEF Product!WithStatus
<1> HIDE DEF row
<1>4. set \in Seq(Brief) /\ Len(set) = Len(rows)
  BY <1>1, <1>2, <1>3, IsASeq
<1> QED
  BY <1>2, <1>3, <1>4

\* A transaction changes the versions so that one is approved and the newest is the draft.
LEMMA WritesKeepOrder ==
  ASSUME ProductInv, NEW c \in Clients, NEW r, r = client[c].request, Product!Write(r)
  PROVE  BriefsGrow /\ Product!OneApprovedOneDraft'
<1> DEFINE len == Len(briefs)
<1>1. /\ briefs \in Seq(Brief) /\ RequestStands(r)
      /\ \A v, w \in 1..len : briefs[v].status = "approved" /\ briefs[w].status = "approved" => v = w
      /\ \A v \in 1..len : briefs[v].status = "draft" => v = len
  BY LenProperties DEF ProductInv, Product!OneApprovedOneDraft, Product!Latest
<1>2. len \in Nat /\ DOMAIN briefs = 1..len /\ \A v \in 1..len : briefs[v].status \in BriefStatuses
  <2>1. \A v \in 1..len : briefs[v] \in Brief
    BY <1>1, ElementOfSeq
  <2> QED
    BY <1>1, <2>1, LenProperties DEF Brief
<1>3. SUFFICES /\ briefs' \in Seq(Brief)
               /\ len <= Len(briefs')
               /\ \A v \in 1..len : briefs[v].status # "draft" => briefs'[v].status # "draft"
               /\ \A v, w \in 1..Len(briefs') :
                    briefs'[v].status = "approved" /\ briefs'[w].status = "approved" => v = w
               /\ \A v \in 1..Len(briefs') : briefs'[v].status = "draft" => v = Len(briefs')
  BY LenProperties DEF BriefsGrow, Product!OneApprovedOneDraft, Product!Latest
<1> DEFINE draft(parent) == Product!Draft(r.content, parent)
<1>4. ASSUME r.op \in {"intake", "revise"}, NEW p \in Nat PROVE draft(p) \in Brief /\ draft(p).status = "draft"
  BY <1>1, <1>4, ContentsAssumption DEF RequestStands, Product!Draft, Brief, BriefStatuses
<1> HIDE DEF draft
<1>5. CASE r.op = "intake" /\ Product!SubmitIntake(r)
  <2>1. briefs = << >> /\ briefs' = <<draft(0)>> /\ draft(0) \in Brief /\ draft(0).status = "draft"
    BY <1>4, <1>5 DEF Product!SubmitIntake, draft
  <2>2. len = 0 /\ briefs' \in Seq(Brief) /\ Len(briefs') = 1 /\ briefs'[1] = draft(0)
    BY <2>1
  <2> QED
    BY <2>1, <2>2
<1>6. CASE r.op = "revise" /\ Product!ReviseBrief(r)
  <2> DEFINE changed == IF r.status = "draft" THEN {r.brief} ELSE {}
             set == Product!WithStatus(briefs, changed, "superseded")
  <2>1. r.brief = len /\ len \in 1..len /\ (r.status # "draft" => briefs[len].status # "draft")
    BY <1>1, <1>6 DEF Product!ReviseBrief, RequestStands, Product!Latest
  <2>2. /\ set \in Seq(Brief) /\ Len(set) = len
        /\ \A v \in 1..len : set[v].status = IF v \in changed THEN "superseded" ELSE briefs[v].status
    <3>1. "superseded" \in BriefStatuses
      BY DEF BriefStatuses
    <3> QED
      BY <3>1, <1>1, StatusIsSet
  <2>3. briefs' = Append(set, draft(len)) /\ draft(len) \in Brief /\ draft(len).status = "draft"
    BY <1>2, <1>4, <1>6, <2>1 DEF Product!ReviseBrief, draft
  <2> HIDE DEF set, changed
  <2>4. /\ briefs' \in Seq(Brief) /\ Len(briefs') = len + 1
        /\ \A v \in 1..len : briefs'[v] = set[v]
        /\ briefs'[len + 1] = draft(len)
    BY <2>2, <2>3, AppendProperties
  <2>5. \A v \in 1..len : set[v].status # "draft"
    <3>1. ASSUME NEW v \in 1..len, v \in changed PROVE set[v].status # "draft"
      BY <2>2, <3>1
    <3>2. ASSUME NEW v \in 1..len, v \notin changed PROVE set[v].status # "draft"
      <4>1. v # len \/ briefs[v].status # "draft"
        BY <2>1, <3>2 DEF changed
      <4> QED
        BY <1>1, <2>2, <3>2, <4>1
    <3> QED
      BY <3>1, <3>2
  <2>6. \A v \in 1..len : set[v].status = "approved" => briefs[v].status = "approved"
    BY <2>2
  <2>7. \A v \in 1..(len + 1) : v \in 1..len \/ v = len + 1
    BY <1>2
  <2>8. \A v \in 1..(len + 1) : briefs'[v].status = "approved" => v \in 1..len /\ briefs[v].status = "approved"
    BY <2>3, <2>4, <2>6, <2>7
  <2>9. \A v \in 1..(len + 1) : briefs'[v].status = "draft" => v = len + 1
    BY <2>4, <2>5, <2>7
  <2>10. \A v, w \in 1..(len + 1) : briefs'[v].status = "approved" /\ briefs'[w].status = "approved" => v = w
    BY <1>1, <2>8
  <2>11. \A v \in 1..len : briefs'[v].status # "draft"
    BY <2>4, <2>5
  <2> QED
    BY <1>2, <2>4, <2>9, <2>10, <2>11
<1>7. CASE r.op = "approve" /\ Product!ApproveBrief(r)
  <2> DEFINE previous == {v \in DOMAIN briefs : briefs[v].status = "approved"}
             written == IF r.status = "approved" THEN {} ELSE {r.brief}
             others == Product!WithStatus(briefs, previous \ {r.brief}, "superseded")
             set == Product!WithStatus(others, written, "approved")
  <2>0. "superseded" \in BriefStatuses /\ "approved" \in BriefStatuses
    BY DEF BriefStatuses
  <2>1. /\ others \in Seq(Brief) /\ Len(others) = len
        /\ \A v \in 1..len : others[v].status = IF v \in previous \ {r.brief} THEN "superseded" ELSE briefs[v].status
    BY <2>0, <1>1, StatusIsSet
  <2> HIDE DEF others
  <2>2. /\ set \in Seq(Brief) /\ Len(set) = len
        /\ \A v \in 1..len : set[v].status = IF v \in written THEN "approved" ELSE others[v].status
    BY <2>0, <2>1, StatusIsSet
  <2>3. briefs' = set
    BY <1>7 DEF Product!ApproveBrief, others
  <2> HIDE DEF set
  <2>4. \A v \in 1..len : set[v].status = "approved" => v = r.brief
    BY <1>2, <2>1, <2>2
  <2>5. \A v \in 1..len : set[v].status = "draft" => briefs[v].status = "draft"
    BY <2>1, <2>2
  <2>6. \A v, w \in 1..len : set[v].status = "approved" /\ set[w].status = "approved" => v = w
    BY <2>4
  <2>7. \A v \in 1..len : set[v].status = "draft" => v = len
    BY <1>1, <2>5
  <2>8. Len(briefs') = len /\ len <= len
    BY <1>2, <2>2, <2>3
  <2> QED
    BY <2>2, <2>3, <2>5, <2>6, <2>7, <2>8
<1>8. CASE UNCHANGED briefs
  <2>1. briefs' = briefs
    BY <1>8
  <2>2. Len(briefs') = len /\ briefs' \in Seq(Brief)
    BY <1>1, <2>1
  <2>3. len <= len
    BY <1>2
  <2> QED
    BY <1>1, <2>1, <2>2, <2>3
<1> QED
  BY <1>5, <1>6, <1>7, <1>8 DEF Product!Write, Product!Decide, Product!CreateMapVersion, Product!ActivateVp, Product!DeactivateVp

LEMMA ProductInductive == ASSUME ProductInv, Product!Next PROVE ProductInv'
<1> USE DEF ProductInv
<1>0. Len(briefs) \in Nat /\ DOMAIN briefs = 1..Len(briefs)
  BY LenProperties
<1>1. ASSUME NEW c \in Clients, NEW k, NEW q, Product!Begin(c, k, q), RequestStands(q) PROVE ProductInv'
  <2>1. client' = [client EXCEPT ![c] = [key |-> k, request |-> q]] /\ UNCHANGED briefs
    BY <1>1 DEF Product!Begin
  <2>2. BriefsGrow /\ Product!OneApprovedOneDraft'
    BY <2>1, <1>0 DEF BriefsGrow, Product!OneApprovedOneDraft, Product!Latest
  <2>3. RequestStands(q)'
    BY <1>1, <2>1 DEF RequestStands, Product!Latest
  <2>4. ASSUME NEW d \in Clients PROVE RequestStands(client[d].request)'
    <3>1. CASE d = c
      BY <2>1, <2>3, <3>1 DEF RequestStands, Product!Latest
    <3>2. CASE d # c
      BY <2>1, <2>2, <3>2, RequestsStand
    <3> QED
      BY <3>1, <3>2
  <2> QED
    BY <2>1, <2>2, <2>4 DEF BriefsGrow
<1>2. ASSUME NEW c \in Clients, client' = [client EXCEPT ![c] = Product!NoCall],
             BriefsGrow, Product!OneApprovedOneDraft'
      PROVE  ProductInv'
  <2>1. ASSUME NEW d \in Clients PROVE RequestStands(client[d].request)'
    <3>1. CASE d = c
      <4>1. client'[d].request.op = "none"
        BY <1>2, <3>1 DEF Product!NoCall
      <4> QED
        BY <4>1 DEF RequestStands
    <3>2. CASE d # c
      BY <1>2, <3>2, RequestsStand
    <3> QED
      BY <3>1, <3>2
  <2> QED
    BY <1>2, <2>1 DEF BriefsGrow
<1>3. ASSUME UNCHANGED briefs PROVE BriefsGrow /\ Product!OneApprovedOneDraft'
  BY <1>0, <1>3 DEF BriefsGrow, Product!OneApprovedOneDraft, Product!Latest
<1>4. ASSUME NEW c \in Clients, NEW k, Product!BeginIntake(c, k) PROVE ProductInv'
  <2>1. PICK content \in Contents : Product!Begin(c, k, [op |-> "intake", content |-> content])
    BY <1>4 DEF Product!BeginIntake
  <2> DEFINE q == [op |-> "intake", content |-> content]
  <2>2. q.op = "intake" /\ q.content = content
    OBVIOUS
  <2>3. Product!Begin(c, k, q)
    BY <2>1
  <2> HIDE DEF q
  <2> QED
    BY <2>2, <2>3, <1>1 DEF RequestStands
<1>5. ASSUME NEW c \in Clients, NEW k, Product!BeginRevise(c, k) PROVE ProductInv'
  <2>1. Product!Latest \in 1..Product!Latest
    BY <1>0, <1>5 DEF Product!BeginRevise, Product!Latest
  <2>2. PICK content \in Contents :
          Product!Begin(c, k, [op |-> "revise", brief |-> Product!Latest,
                               status |-> briefs[Product!Latest].status, content |-> content])
    BY <1>5 DEF Product!BeginRevise
  <2> DEFINE q == [op |-> "revise", brief |-> Product!Latest,
                   status |-> briefs[Product!Latest].status, content |-> content]
  <2>3. /\ q.op = "revise" /\ q.content = content /\ q.brief = Product!Latest
        /\ q.status = briefs[Product!Latest].status
    OBVIOUS
  <2>4. Product!Begin(c, k, q)
    BY <2>2
  <2> HIDE DEF q
  <2> QED
    BY <2>1, <2>3, <2>4, <1>1 DEF RequestStands
<1>6. ASSUME NEW c \in Clients, NEW k, Product!BeginDecide(c, k) PROVE ProductInv'
  <2>1. PICK d \in DOMAIN decisions, to \in {"accepted", "rejected"} :
          Product!Begin(c, k, [op |-> "decide", decision |-> d, version |-> edits[d], to |-> to])
    BY <1>6 DEF Product!BeginDecide
  <2> DEFINE q == [op |-> "decide", decision |-> d, version |-> edits[d], to |-> to]
  <2>2. q.op = "decide" /\ Product!Begin(c, k, q)
    BY <2>1
  <2> HIDE DEF q
  <2> QED
    BY <2>2, <1>1 DEF RequestStands
<1>7. ASSUME NEW c \in Clients, NEW k, Product!BeginApprove(c, k) PROVE ProductInv'
  <2>1. Product!Latest \in 1..Product!Latest
    BY <1>0, <1>7 DEF Product!BeginApprove, Product!Latest
  <2>2. PICK m \in DOMAIN maps :
          Product!Begin(c, k, [op |-> "approve", brief |-> Product!Latest, status |-> briefs[Product!Latest].status,
                               map |-> m, decisions |-> decisions])
    BY <1>7 DEF Product!BeginApprove
  <2> DEFINE q == [op |-> "approve", brief |-> Product!Latest, status |-> briefs[Product!Latest].status,
                   map |-> m, decisions |-> decisions]
  <2>3. q.op = "approve" /\ q.brief = Product!Latest
    OBVIOUS
  <2>4. Product!Begin(c, k, q)
    BY <2>2
  <2> HIDE DEF q
  <2> QED
    BY <2>1, <2>3, <2>4, <1>1 DEF RequestStands
<1>8. ASSUME NEW c \in Clients, NEW k, Product!BeginMap(c, k) \/ Product!BeginActivate(c, k) \/ Product!BeginDeactivate(c)
      PROVE  ProductInv'
  <2>1. \E q, j : Product!Begin(c, j, q) /\ q.op \in {"map", "activate", "deactivate"}
    <3>1. CASE Product!BeginMap(c, k)
      <4> DEFINE q == [op |-> "map", map |-> Product!LatestMap]
      <4>1. q.op = "map" /\ Product!Begin(c, k, q)
        BY <3>1 DEF Product!BeginMap
      <4> QED
        BY <4>1
    <3>2. CASE Product!BeginActivate(c, k)
      <4> DEFINE q == [op |-> "activate"]
      <4>1. q.op = "activate" /\ Product!Begin(c, k, q)
        BY <3>2 DEF Product!BeginActivate
      <4> QED
        BY <4>1
    <3>3. CASE Product!BeginDeactivate(c)
      <4>1. PICK a \in open : Product!Begin(c, NoKey, [op |-> "deactivate", row |-> a])
        BY <3>3 DEF Product!BeginDeactivate
      <4> DEFINE q == [op |-> "deactivate", row |-> a]
      <4>2. q.op = "deactivate" /\ Product!Begin(c, NoKey, q)
        BY <4>1
      <4> QED
        BY <4>2
    <3> QED
      BY <1>8, <3>1, <3>2, <3>3
  <2> QED
    BY <2>1, <1>1 DEF RequestStands
<1>9. ASSUME NEW c \in Clients, Product!Commit(c) PROVE ProductInv'
  <2>1. client' = [client EXCEPT ![c] = Product!NoCall] /\ Product!Write(client[c].request)
    BY <1>9 DEF Product!Commit
  <2> QED
    BY <2>1, <1>2, WritesKeepOrder
<1>10. ASSUME NEW c \in Clients, Product!Rollback(c) PROVE ProductInv'
  BY <1>10, <1>2, <1>3 DEF Product!Rollback
<1>11. ASSUME Product!ObserveBaseline PROVE ProductInv'
  <2>1. UNCHANGED <<briefs, client>>
    BY <1>11 DEF Product!ObserveBaseline
  <2> QED
    BY <2>1, <1>3 DEF RequestStands, Product!Latest
<1> QED
  BY <1>4, <1>5, <1>6, <1>7, <1>8, <1>9, <1>10, <1>11 DEF Product!Next

\* At most one version of the Brief is approved and only the newest may be a draft, whatever calls
\* overlap (productmap.py:approve_brief, revise_brief).
THEOREM OneBriefStands == PlanningSpec => []OneApprovedOneDraft
<1>1. PlanningInit => ProductInv
  <2> SUFFICES ASSUME PlanningInit PROVE ProductInv
    OBVIOUS
  <2>1. briefs = << >> /\ client = [c \in Clients |-> Product!NoCall]
    BY DEF PlanningInit, Product!Init
  <2>2. \A c \in Clients : RequestStands(client[c].request)
    BY <2>1, NoRequestStands
  <2>3. briefs \in Seq(Brief) /\ DOMAIN briefs = {}
    BY <2>1
  <2> QED
    BY <2>1, <2>2, <2>3 DEF ProductInv, Product!OneApprovedOneDraft
<1>2. ProductInv /\ [PlanningNext]_planningVars => ProductInv'
  <2> SUFFICES ASSUME ProductInv, [PlanningNext]_planningVars PROVE ProductInv'
    OBVIOUS
  <2>1. Product!Next \/ UNCHANGED productVars
    BY DEF PlanningNext, planningVars
  <2>2. CASE UNCHANGED productVars
    BY <2>2 DEF productVars, ProductInv, RequestStands, Product!OneApprovedOneDraft, Product!Latest
  <2> QED
    BY <2>1, <2>2, ProductInductive
<1>3. ProductInv => OneApprovedOneDraft
  BY DEF ProductInv, OneApprovedOneDraft
<1> QED
  BY <1>1, <1>2, <1>3, PTL DEF PlanningSpec

-----------------------------------------------------------------------------
(* MapGraph: the depth-first search *)

Frame == [node : Graph!Nodes, left : SUBSET Graph!Nodes]

GraphTypes ==
  /\ offer.edges \subseteq Graph!Nodes \X Graph!Nodes
  /\ Graph!Nodes \subseteq Names
  /\ color \in [Names -> {"white", "gray", "black"}]
  /\ stack \in Seq(Frame)
  /\ verdict \in {"searching", "accepted", "cycle"}

Black(n) == color[n] = "black"

\* The gray nodes are those of the frames, each in one frame, and a path leads through them.
FramesAreGray ==
  /\ \A i \in 1..Len(stack) : color[stack[i].node] = "gray"
  /\ \A i, j \in 1..Len(stack) : stack[i].node = stack[j].node => i = j
  /\ \A n \in Graph!Nodes : color[n] = "gray" => \E i \in 1..Len(stack) : stack[i].node = n
  /\ \A i \in 1..(Len(stack) - 1) : <<stack[i].node, stack[i + 1].node>> \in offer.edges

\* A successor that a frame has looked at is black, or the node of the next frame.
LookedAt ==
  \A i \in 1..Len(stack) :
    /\ stack[i].left \subseteq Graph!Successors(stack[i].node)
    /\ \A m \in Graph!Successors(stack[i].node) \ stack[i].left :
         Black(m) \/ (i < Len(stack) /\ m = stack[i + 1].node)

\* What is black leads to black nodes only, and has no cycle.
BlackIsDone ==
  /\ \A n \in Graph!Nodes : Black(n) => \A m \in Graph!Successors(n) : Black(m)
  /\ \A W \in SUBSET Graph!Nodes : W # {} /\ (\A n \in W : Black(n)) =>
       ~ \A n \in W : \E m \in W : <<n, m>> \in offer.edges

SearchIsRight ==
  /\ verdict = "accepted" => \A n \in Graph!Nodes : Black(n)
  /\ verdict = "cycle" => Graph!Cyclic(offer.edges)

GraphInv ==
  verdict # "invalid" => GraphTypes /\ FramesAreGray /\ LookedAt /\ BlackIsDone /\ SearchIsRight

LEMMA EdgesLead ==
  ASSUME offer.edges \subseteq Graph!Nodes \X Graph!Nodes, NEW n, NEW m
  PROVE  m \in Graph!Successors(n) <=> <<n, m>> \in offer.edges
<1>1. ASSUME m \in Graph!Successors(n) PROVE <<n, m>> \in offer.edges
  <2>1. PICK e \in offer.edges : e[1] = n /\ m = e[2]
    BY <1>1 DEF Graph!Successors
  <2>2. e = <<e[1], e[2]>>
    BY <2>1
  <2> QED
    BY <2>1, <2>2
<1>2. ASSUME <<n, m>> \in offer.edges PROVE m \in Graph!Successors(n)
  <2> DEFINE e == <<n, m>>
  <2>1. e \in offer.edges /\ e[1] = n /\ e[2] = m
    BY <1>2
  <2> HIDE DEF e
  <2> QED
    BY <2>1 DEF Graph!Successors
<1> QED
  BY <1>1, <1>2

LEMMA GraphInitially == ASSUME Graph!Init PROVE GraphInv
<1> SUFFICES ASSUME Graph!WellFormed(offer)
             PROVE  GraphTypes /\ FramesAreGray /\ LookedAt /\ BlackIsDone /\ SearchIsRight
  BY DEF Graph!Init, GraphInv
<1> USE DEF Graph!Init
<1>1. offer.keys \in Seq(Names)
  BY MapsAssumption
<1>2. Graph!Nodes \subseteq Names
  BY <1>1 DEF Graph!Nodes, Graph!KeysOf
<1>3. stack = << >> /\ stack \in Seq(Frame) /\ Len(stack) = 0
  BY EmptySeq
<1>4. GraphTypes
  BY <1>2, <1>3 DEF GraphTypes, Graph!WellFormed, Graph!Nodes
<1>5. \A n \in Graph!Nodes : color[n] = "white"
  BY <1>2
<1> QED
  BY <1>3, <1>4, <1>5 DEF FramesAreGray, LookedAt, BlackIsDone, SearchIsRight, Black

\* The verdict apart, nothing depends on more than the graph, the colors and the frames.
LEMMA GraphStays ==
  ASSUME UNCHANGED <<offer, color, stack>>, GraphTypes, FramesAreGray, LookedAt, BlackIsDone
  PROVE  /\ verdict' \in {"searching", "accepted", "cycle"} => GraphTypes'
         /\ FramesAreGray' /\ LookedAt' /\ BlackIsDone'
         /\ (Graph!Cyclic(offer.edges)') <=> Graph!Cyclic(offer.edges)
<1>1. Graph!Nodes' = Graph!Nodes /\ \A n : Graph!Successors(n)' = Graph!Successors(n)
  BY DEF Graph!Nodes, Graph!Successors
<1>2. verdict' \in {"searching", "accepted", "cycle"} => GraphTypes'
  BY <1>1 DEF GraphTypes, Frame
<1>3. FramesAreGray' /\ LookedAt' /\ BlackIsDone'
  BY <1>1 DEF FramesAreGray, LookedAt, BlackIsDone, Black
<1>4. (Graph!Cyclic(offer.edges)') <=> Graph!Cyclic(offer.edges)
  BY <1>1 DEF Graph!Cyclic
<1> QED
  BY <1>2, <1>3, <1>4

\* A white node that becomes the top: of an empty stack, or below a node that leads to it.
LEMMA GraphEnters ==
  ASSUME GraphInv, verdict = "searching", UNCHANGED <<offer, verdict>>,
         NEW v \in Graph!Nodes, color[v] = "white",
         NEW seen \in Seq(Frame), Len(seen) = Len(stack),
         \A i \in 1..Len(stack) : seen[i].node = stack[i].node,
         \A i \in 1..(Len(stack) - 1) : seen[i].left = stack[i].left,
         Len(stack) > 0 =>
           /\ v \in stack[Len(stack)].left
           /\ seen[Len(stack)].left = stack[Len(stack)].left \ {v},
         color' = [color EXCEPT ![v] = "gray"],
         stack' = Append(seen, [node |-> v, left |-> Graph!Successors(v)])
  PROVE  GraphInv'
<1> DEFINE top == [node |-> v, left |-> Graph!Successors(v)]
           len == Len(stack)
<1>1. GraphTypes /\ FramesAreGray /\ LookedAt /\ BlackIsDone /\ SearchIsRight
  BY DEF GraphInv
<1>0. \A n : Graph!Successors(n)' = Graph!Successors(n)
  BY DEF Graph!Successors
<1>2. len \in Nat /\ Graph!Nodes' = Graph!Nodes
  BY <1>1, LenProperties DEF GraphTypes, Graph!Nodes
<1>3. Graph!Successors(v) \subseteq Graph!Nodes
  BY <1>1 DEF GraphTypes, Graph!Successors
<1>4. top \in Frame /\ top.node = v /\ top.left = Graph!Successors(v)
  BY <1>3 DEF Frame
<1> HIDE DEF top
<1>5. /\ stack' \in Seq(Frame) /\ Len(stack') = len + 1
      /\ \A i \in 1..len : stack'[i] = seen[i]
      /\ stack'[len + 1] = top
  <2>1. stack' = Append(seen, top)
    BY DEF top
  <2> QED
    BY <2>1, <1>2, <1>4, AppendProperties
<1>6. /\ \A n \in Graph!Nodes : color'[n] = IF n = v THEN "gray" ELSE color[n]
      /\ color' \in [Names -> {"white", "gray", "black"}]
  BY <1>1 DEF GraphTypes
<1>7. GraphTypes'
  BY <1>1, <1>2, <1>5, <1>6 DEF GraphTypes, Frame
<1>8. \A i \in 1..len : /\ stack[i].node \in Graph!Nodes /\ stack[i].node # v
                        /\ stack'[i].node = stack[i].node /\ color[stack[i].node] = "gray"
  <2> SUFFICES ASSUME NEW i \in 1..len
               PROVE  /\ stack[i].node \in Graph!Nodes /\ stack[i].node # v
                      /\ stack'[i].node = stack[i].node /\ color[stack[i].node] = "gray"
    OBVIOUS
  <2>1. stack[i] \in Frame
    BY <1>1, ElementOfSeq DEF GraphTypes
  <2>2. color[stack[i].node] = "gray"
    BY <1>1 DEF FramesAreGray
  <2> QED
    BY <2>1, <2>2, <1>5 DEF Frame
<1>9. \A n \in Graph!Nodes : Black(n)' <=> Black(n)
  BY <1>6 DEF Black
<1>10. len > 0 => <<stack[len].node, v>> \in offer.edges
  <2>1. ASSUME len > 0 PROVE v \in Graph!Successors(stack[len].node)
    BY <2>1, <1>1, <1>0, <1>2 DEF LookedAt
  <2> QED
    BY <2>1, <1>1, EdgesLead DEF GraphTypes
<1>11. FramesAreGray'
  <2>1. \A i \in 1..(len + 1) : color'[stack'[i].node] = "gray"
    BY <1>2, <1>4, <1>5, <1>6, <1>8
  <2>2. \A i, j \in 1..(len + 1) : stack'[i].node = stack'[j].node => i = j
    BY <1>1, <1>2, <1>4, <1>5, <1>8 DEF FramesAreGray
  <2>3. ASSUME NEW n \in Graph!Nodes, color'[n] = "gray" PROVE \E i \in 1..(len + 1) : stack'[i].node = n
    BY <2>3, <1>1, <1>2, <1>4, <1>5, <1>6, <1>8 DEF FramesAreGray
  <2>4. ASSUME NEW i \in 1..len PROVE <<stack'[i].node, stack'[i + 1].node>> \in offer.edges
    <3>1. i = len \/ (i \in 1..(len - 1) /\ i + 1 \in 1..len)
      BY <1>2
    <3>2. CASE i = len
      <4>1. stack'[i].node = stack[len].node /\ stack'[i + 1].node = v
        BY <3>2, <1>2, <1>4, <1>5, <1>8
      <4>2. <<stack[len].node, v>> \in offer.edges
        BY <3>2, <1>2, <1>10
      <4> QED
        BY <4>1, <4>2
    <3>3. CASE i \in 1..(len - 1) /\ i + 1 \in 1..len
      <4>1. stack'[i].node = stack[i].node /\ stack'[i + 1].node = stack[i + 1].node
        BY <3>3, <1>2, <1>8
      <4>2. <<stack[i].node, stack[i + 1].node>> \in offer.edges
        BY <3>3, <1>1 DEF FramesAreGray
      <4> QED
        BY <4>1, <4>2
    <3> QED
      BY <3>1, <3>2, <3>3
  <2> QED
    BY <2>1, <2>2, <2>3, <2>4, <1>2, <1>5 DEF FramesAreGray
<1>12. LookedAt'
  <2> SUFFICES ASSUME NEW i \in 1..(len + 1)
               PROVE  /\ stack'[i].left \subseteq Graph!Successors(stack'[i].node)
                      /\ \A m \in Graph!Successors(stack'[i].node) \ stack'[i].left :
                           Black(m)' \/ (i < len + 1 /\ m = stack'[i + 1].node)
    BY <1>0, <1>2, <1>5 DEF LookedAt
  <2>0. \A n : Graph!Successors(n) \subseteq Graph!Nodes
    BY <1>1 DEF GraphTypes, Graph!Successors
  <2>1. CASE i = len + 1
    BY <2>1, <1>4, <1>5
  <2>2. CASE i = len
    BY <2>2, <2>0, <1>1, <1>0, <1>2, <1>4, <1>5, <1>8, <1>9 DEF LookedAt
  <2>3. CASE i < len
    BY <2>3, <2>0, <1>1, <1>0, <1>2, <1>5, <1>8, <1>9 DEF LookedAt
  <2> QED
    BY <2>1, <2>2, <2>3, <1>2
<1>13. BlackIsDone'
  <2>0. \A n : Graph!Successors(n) \subseteq Graph!Nodes
    BY <1>1 DEF GraphTypes, Graph!Successors
  <2>1. \A n \in Graph!Nodes : Black(n)' => \A m \in Graph!Successors(n) : Black(m)'
    BY <2>0, <1>1, <1>9 DEF BlackIsDone
  <2>2. ASSUME NEW W \in SUBSET Graph!Nodes, W # {}, \A n \in W : Black(n)'
        PROVE  ~ \A n \in W : \E m \in W : <<n, m>> \in offer.edges
    BY <2>2, <1>1, <1>9 DEF BlackIsDone
  <2> QED
    BY <2>1, <2>2, <1>0, <1>2 DEF BlackIsDone
<1>14. SearchIsRight'
  BY DEF SearchIsRight
<1> QED
  BY <1>7, <1>11, <1>12, <1>13, <1>14 DEF GraphInv

\* The node of the top frame has been looked at from all sides.
LEMMA GraphLeaves == ASSUME GraphInv, Graph!Leave PROVE GraphInv'
<1> DEFINE len == Len(stack)
           v == stack[len].node
<1>1. GraphTypes /\ FramesAreGray /\ LookedAt /\ BlackIsDone /\ SearchIsRight /\ verdict = "searching"
  BY DEF GraphInv, Graph!Leave
<1>0. \A n : Graph!Successors(n)' = Graph!Successors(n)
  BY DEF Graph!Successors, Graph!Leave
<1>2. len \in Nat /\ len > 0 /\ Graph!Nodes' = Graph!Nodes /\ offer' = offer /\ verdict' = verdict
  BY <1>1, EmptySeq DEF GraphTypes, Graph!Nodes, Graph!Leave
<1>3. \A n : Graph!Successors(n) \subseteq Graph!Nodes
  BY <1>1 DEF GraphTypes, Graph!Successors
<1>4. \A i \in 1..len : stack[i] \in Frame /\ stack[i].node \in Graph!Nodes
  <2>1. \A i \in 1..len : stack[i] \in Frame
    BY <1>1, ElementOfSeq DEF GraphTypes
  <2> QED
    BY <2>1 DEF Frame
<1>5. /\ v \in Graph!Nodes /\ color[v] = "gray" /\ stack[len].left = {}
      /\ \A m \in Graph!Successors(v) : Black(m)
  BY <1>1, <1>0, <1>2, <1>4 DEF FramesAreGray, LookedAt, Graph!Leave, Graph!Top
<1>6. /\ stack' \in Seq(Frame) /\ Len(stack') = len - 1
      /\ \A i \in 1..(len - 1) : stack'[i] = stack[i]
  <2>1. stack' = SubSeq(stack, 1, len - 1)
    BY DEF Graph!Leave
  <2>2. 1 \in Int /\ len - 1 \in Int /\ \A i \in 1..(len - 1) : stack[i] \in Frame
    BY <1>2, <1>4
  <2>3. /\ SubSeq(stack, 1, len - 1) \in Seq(Frame)
        /\ Len(SubSeq(stack, 1, len - 1)) = IF 1 <= len - 1 THEN (len - 1) - 1 + 1 ELSE 0
        /\ \A i \in 1..((len - 1) - 1 + 1) : SubSeq(stack, 1, len - 1)[i] = stack[1 + i - 1]
    BY <2>2, SubSeqProperties
  <2>4. ASSUME NEW i \in 1..(len - 1) PROVE stack'[i] = stack[i]
    <3>1. i \in 1..((len - 1) - 1 + 1) /\ 1 + i - 1 = i
      BY <1>2
    <3> QED
      BY <3>1, <2>1, <2>3
  <2>5. Len(stack') = len - 1 /\ stack' \in Seq(Frame)
    <3>1. CASE len = 1
      BY <3>1, <2>1, <2>3
    <3>2. CASE len > 1
      <4>1. 1 <= len - 1 /\ (len - 1) - 1 + 1 = len - 1
        BY <3>2, <1>2
      <4> QED
        BY <4>1, <2>1, <2>3
    <3>3. len = 1 \/ len > 1
      BY <1>2
    <3> QED
      BY <3>1, <3>2, <3>3
  <2> QED
    BY <2>4, <2>5
<1>7. /\ color' \in [Names -> {"white", "gray", "black"}]
      /\ \A n \in Graph!Nodes : color'[n] = IF n = v THEN "black" ELSE color[n]
  BY <1>1, <1>5 DEF GraphTypes, Graph!Leave, Graph!Top
<1>8. GraphTypes'
  BY <1>1, <1>2, <1>6, <1>7 DEF GraphTypes, Frame
<1>9. \A n \in Graph!Nodes : Black(n)' <=> Black(n) \/ n = v
  BY <1>7 DEF Black
<1>10. \A i \in 1..(len - 1) : stack'[i].node = stack[i].node /\ stack[i].node # v
  BY <1>1, <1>2, <1>6 DEF FramesAreGray
<1>11. FramesAreGray'
  <2>1. \A i \in 1..(len - 1) : color'[stack'[i].node] = "gray"
    BY <1>1, <1>2, <1>4, <1>7, <1>10 DEF FramesAreGray
  <2>2. \A i, j \in 1..(len - 1) : stack'[i].node = stack'[j].node => i = j
    BY <1>1, <1>2, <1>10 DEF FramesAreGray
  <2>3. ASSUME NEW n \in Graph!Nodes, color'[n] = "gray" PROVE \E i \in 1..(len - 1) : stack'[i].node = n
    <3>1. n # v /\ color[n] = "gray"
      BY <2>3, <1>7
    <3>2. PICK i \in 1..len : stack[i].node = n
      BY <3>1, <1>1 DEF FramesAreGray
    <3> QED
      BY <3>1, <3>2, <1>2, <1>10
  <2>4. \A i \in 1..(len - 2) : <<stack'[i].node, stack'[i + 1].node>> \in offer.edges
    BY <1>1, <1>2, <1>10 DEF FramesAreGray
  <2> QED
    BY <2>1, <2>2, <2>3, <2>4, <1>2, <1>6 DEF FramesAreGray
<1>12. LookedAt'
  <2> SUFFICES ASSUME NEW i \in 1..(len - 1)
               PROVE  /\ stack'[i].left \subseteq Graph!Successors(stack'[i].node)
                      /\ \A m \in Graph!Successors(stack'[i].node) \ stack'[i].left :
                           Black(m)' \/ (i < len - 1 /\ m = stack'[i + 1].node)
    BY <1>0, <1>2, <1>6 DEF LookedAt
  <2>1. /\ stack[i].left \subseteq Graph!Successors(stack[i].node)
        /\ \A m \in Graph!Successors(stack[i].node) \ stack[i].left :
             Black(m) \/ (i < len /\ m = stack[i + 1].node)
    BY <1>1, <1>0, <1>2 DEF LookedAt
  <2>2. CASE i = len - 1
    BY <2>1, <2>2, <1>2, <1>3, <1>6, <1>9
  <2>3. CASE i < len - 1
    BY <2>1, <2>3, <1>2, <1>3, <1>6, <1>9
  <2> QED
    BY <2>2, <2>3, <1>2
<1>13. BlackIsDone'
  <2>1. ASSUME NEW n \in Graph!Nodes, Black(n)', NEW m \in Graph!Successors(n) PROVE Black(m)'
    BY <2>1, <1>1, <1>3, <1>5, <1>9 DEF BlackIsDone
  <2>2. ASSUME NEW W \in SUBSET Graph!Nodes, W # {}, \A n \in W : Black(n)',
               \A n \in W : \E m \in W : <<n, m>> \in offer.edges
        PROVE  FALSE
    <3>1. \A n, m : m \in Graph!Successors(n) <=> <<n, m>> \in offer.edges
      BY <1>1, EdgesLead DEF GraphTypes
    <3>2. ~Black(v)
      BY <1>5 DEF Black
    <3>3. \A n \in W : Black(n) \/ n = v
      BY <2>2, <1>9
    <3> DEFINE rest == W \ {v}
    \* no member of W leads back to v: what is black leads to black, and so does v
    <3>4. \A n \in W : \E m \in rest : <<n, m>> \in offer.edges
      BY <2>2, <3>1, <3>2, <3>3, <1>1, <1>5 DEF BlackIsDone
    <3>5. rest \in SUBSET Graph!Nodes /\ rest # {} /\ \A n \in rest : Black(n)
      BY <2>2, <3>3, <3>4
    <3> HIDE DEF rest
    <3>6. \A n \in rest : n \in W
      BY DEF rest
    <3> QED
      BY <3>4, <3>5, <3>6, <1>1 DEF BlackIsDone
  <2> QED
    BY <2>1, <2>2, <1>0, <1>2 DEF BlackIsDone
<1>14. SearchIsRight'
  BY <1>1, <1>2 DEF SearchIsRight
<1> QED
  BY <1>8, <1>11, <1>12, <1>13, <1>14 DEF GraphInv

\* One successor of the top frame: it closes a cycle, is entered, or is known to be harmless.
LEMMA GraphLooks == ASSUME GraphInv, Graph!Look PROVE GraphInv'
<1> DEFINE len == Len(stack)
           top == stack[len]
<1>1. GraphTypes /\ FramesAreGray /\ LookedAt /\ BlackIsDone /\ SearchIsRight /\ verdict = "searching"
  BY DEF GraphInv, Graph!Look
<1>0. \A n : Graph!Successors(n)' = Graph!Successors(n)
  BY DEF Graph!Successors, Graph!Look
<1>2. len \in Nat /\ len > 0 /\ Graph!Nodes' = Graph!Nodes /\ offer' = offer
  BY <1>1, EmptySeq DEF GraphTypes, Graph!Nodes, Graph!Look
<1>3. \A i \in 1..len : stack[i] \in Frame /\ stack[i].node \in Graph!Nodes
  <2>1. \A i \in 1..len : stack[i] \in Frame
    BY <1>1, ElementOfSeq DEF GraphTypes
  <2> QED
    BY <2>1 DEF Frame
<1>4. top \in Frame /\ top.node \in Graph!Nodes /\ top.left \subseteq Graph!Nodes
  BY <1>2, <1>3 DEF Frame
<1> DEFINE less(v) == [node |-> top.node, left |-> top.left \ {v}]
           seen(v) == [stack EXCEPT ![len] = less(v)]
<1>5. PICK v \in top.left :
        IF Graph!ClosesCycle(v) THEN verdict' = "cycle" /\ UNCHANGED <<color, stack>>
        ELSE /\ verdict' = verdict
             /\ IF color[v] = "white"
                THEN /\ color' = [color EXCEPT ![v] = "gray"]
                     /\ stack' = Append(seen(v), [node |-> v, left |-> Graph!Successors(v)])
                ELSE color' = color /\ stack' = seen(v)
  BY DEF Graph!Look, Graph!Top
<1>6. v \in Graph!Nodes
  BY <1>4
<1>7. less(v) \in Frame /\ less(v).node = top.node /\ less(v).left = top.left \ {v}
  BY <1>4 DEF Frame
<1> HIDE DEF less
<1>8. /\ seen(v) \in Seq(Frame) /\ Len(seen(v)) = len
      /\ \A i \in 1..len : seen(v)[i] = IF i = len THEN less(v) ELSE stack[i]
  <2>1. stack \in Seq(Frame) /\ len \in 1..Len(stack)
    BY <1>1, <1>2 DEF GraphTypes
  <2> QED
    BY <2>1, <1>7, ExceptSeq
<1> HIDE DEF seen
<1>9. /\ \A i \in 1..len : seen(v)[i].node = stack[i].node
      /\ \A i \in 1..(len - 1) : seen(v)[i].left = stack[i].left
      /\ seen(v)[len].left = stack[len].left \ {v}
  BY <1>2, <1>7, <1>8
<1>10. <<top.node, v>> \in offer.edges
  <2>1. v \in Graph!Successors(top.node)
    BY <1>1, <1>0, <1>2 DEF LookedAt
  <2> QED
    BY <2>1, <1>1, EdgesLead DEF GraphTypes
<1>11. CASE color[v] = "gray"
  <2>1. verdict' = "cycle" /\ UNCHANGED <<color, stack>>
    BY <1>5, <1>11 DEF Graph!ClosesCycle
  <2>2. PICK k \in 1..len : stack[k].node = v
    BY <1>1, <1>6, <1>11 DEF FramesAreGray
  <2> DEFINE W == {stack[i].node : i \in k..len}
  <2>3. W \in SUBSET Graph!Nodes /\ W # {}
    BY <1>2, <1>3, <2>2
  <2>4. ASSUME NEW n \in W PROVE \E m \in W : <<n, m>> \in offer.edges
    <3>1. PICK i \in k..len : n = stack[i].node
      OBVIOUS
    <3>2. i = len \/ (i \in 1..(len - 1) /\ i + 1 \in k..len)
      BY <1>2, <2>2
    <3>3. CASE i = len
      <4>1. n = top.node /\ v \in W
        BY <3>1, <3>3, <2>2, <1>2
      <4> QED
        BY <4>1, <1>10
    <3>4. CASE i \in 1..(len - 1) /\ i + 1 \in k..len
      <4>1. <<stack[i].node, stack[i + 1].node>> \in offer.edges
        BY <3>4, <1>1 DEF FramesAreGray
      <4> QED
        BY <3>1, <3>4, <4>1
    <3> QED
      BY <3>2, <3>3, <3>4
  <2> HIDE DEF W
  <2>5. Graph!Cyclic(offer.edges)
    BY <2>3, <2>4 DEF Graph!Cyclic
  <2> QED
    BY <2>1, <2>5, <1>1, <1>2, GraphStays DEF GraphInv, SearchIsRight
<1>12. CASE color[v] = "white"
  <2>1. /\ verdict' = verdict /\ color' = [color EXCEPT ![v] = "gray"]
        /\ stack' = Append(seen(v), [node |-> v, left |-> Graph!Successors(v)])
    BY <1>5, <1>12 DEF Graph!ClosesCycle
  <2> QED
    BY <2>1, <1>1, <1>2, <1>6, <1>8, <1>9, <1>12, GraphEnters
<1>13. CASE color[v] = "black"
  <2>1. verdict' = verdict /\ color' = color /\ stack' = seen(v)
    BY <1>5, <1>13 DEF Graph!ClosesCycle
  <2>2. GraphTypes'
    BY <2>1, <1>1, <1>2, <1>8 DEF GraphTypes, Frame
  <2>3. FramesAreGray'
    BY <2>1, <1>1, <1>2, <1>8, <1>9 DEF FramesAreGray
  <2>4. LookedAt'
    <3> SUFFICES ASSUME NEW i \in 1..len
                 PROVE  /\ seen(v)[i].left \subseteq Graph!Successors(stack[i].node)
                        /\ \A m \in Graph!Successors(stack[i].node) \ seen(v)[i].left :
                             Black(m) \/ (i < len /\ m = seen(v)[i + 1].node)
      BY <2>1, <1>0, <1>2, <1>8, <1>9 DEF LookedAt, Black
    <3>1. /\ stack[i].left \subseteq Graph!Successors(stack[i].node)
          /\ \A m \in Graph!Successors(stack[i].node) \ stack[i].left :
               Black(m) \/ (i < len /\ m = stack[i + 1].node)
      BY <1>1 DEF LookedAt
    <3>2. CASE i = len
      BY <3>1, <3>2, <1>2, <1>9, <1>13 DEF Black
    <3>3. CASE i < len
      BY <3>1, <3>3, <1>2, <1>9
    <3> QED
      BY <3>2, <3>3, <1>2
  <2>5. BlackIsDone' /\ SearchIsRight'
    BY <2>1, <1>1, <1>0, <1>2 DEF BlackIsDone, SearchIsRight, Black, Graph!Cyclic
  <2> QED
    BY <2>2, <2>3, <2>4, <2>5 DEF GraphInv
<1> QED
  BY <1>1, <1>6, <1>11, <1>12, <1>13 DEF GraphTypes

LEMMA GraphInductive == ASSUME GraphInv, Graph!Next PROVE GraphInv'
<1>1. ASSUME Graph!NextRoot PROVE GraphInv'
  <2>1. GraphTypes /\ verdict = "searching" /\ stack = << >> /\ UNCHANGED <<offer, verdict>>
    BY <1>1 DEF GraphInv, Graph!NextRoot
  <2>2. PICK i \in DOMAIN offer.keys : color[offer.keys[i]] = "white" /\ Graph!Enter(offer.keys[i])
    BY <1>1 DEF Graph!NextRoot
  <2>3. offer.keys[i] \in Graph!Nodes
    BY DEF Graph!Nodes, Graph!KeysOf
  <2>4. stack \in Seq(Frame) /\ Len(stack) = 0
    BY <2>1, EmptySeq
  <2> DEFINE v == offer.keys[i]
  <2>5. /\ v \in Graph!Nodes /\ color[v] = "white"
        /\ color' = [color EXCEPT ![v] = "gray"]
        /\ stack' = Append(stack, [node |-> v, left |-> Graph!Successors(v)])
    BY <2>2, <2>3 DEF Graph!Enter
  <2> HIDE DEF v
  <2>6. /\ \A j \in 1..Len(stack) : stack[j].node = stack[j].node
        /\ \A j \in 1..(Len(stack) - 1) : stack[j].left = stack[j].left
        /\ Len(stack) > 0 => v \in stack[Len(stack)].left
                             /\ stack[Len(stack)].left = stack[Len(stack)].left \ {v}
    BY <2>4
  <2> QED
    BY <2>1, <2>4, <2>5, <2>6, GraphEnters
<1>2. ASSUME Graph!Accept PROVE GraphInv'
  <2>1. GraphTypes /\ FramesAreGray /\ LookedAt /\ BlackIsDone /\ SearchIsRight
    BY <1>2 DEF GraphInv, Graph!Accept
  <2>2. \A n \in Graph!Nodes : Black(n)
    <3>1. Len(stack) = 0
      BY <1>2 DEF Graph!Accept
    <3>2. \A n \in Graph!Nodes : color[n] # "white" /\ color[n] # "gray"
      BY <1>2, <2>1, <3>1 DEF Graph!Accept, FramesAreGray
    <3> QED
      BY <2>1, <3>2 DEF GraphTypes, Black
  <2>3. UNCHANGED <<offer, color, stack>> /\ verdict' = "accepted"
    BY <1>2 DEF Graph!Accept
  <2>4. \A n \in Graph!Nodes' : Black(n)'
    BY <2>2, <2>3 DEF Graph!Nodes, Black
  <2> QED
    BY <2>1, <2>3, <2>4, GraphStays DEF GraphInv, SearchIsRight
<1> QED
  BY <1>1, <1>2, GraphLooks, GraphLeaves DEF Graph!Next

\* A map is refused for a cycle exactly when it has one: for every graph, whatever the order of its
\* nodes and of the edges of a node (productmap.py:_reject_cycles).
THEOREM CyclesAreFound == PlanningSpec => []RefusedIffCyclic
<1> DEFINE Inv == focus = "graph" => GraphInv
<1>1. PlanningInit => Inv
  BY GraphInitially DEF PlanningInit
<1>2. Inv /\ [PlanningNext]_planningVars => Inv'
  <2> SUFFICES ASSUME Inv, [PlanningNext]_planningVars, focus' = "graph" PROVE GraphInv'
    OBVIOUS
  <2>1. focus = "graph" /\ (Graph!Next \/ UNCHANGED graphVars)
    BY DEF PlanningNext, planningVars, graphVars
  <2>2. CASE Graph!Next
    BY <2>1, <2>2, GraphInductive
  <2>3. CASE UNCHANGED graphVars
    <3>1. UNCHANGED <<offer, color, stack, verdict>>
      BY <2>3 DEF graphVars
    <3>2. SearchIsRight => SearchIsRight'
      BY <3>1 DEF SearchIsRight, Graph!Nodes, Graph!Cyclic, Black
    <3>3. ASSUME verdict # "invalid" PROVE GraphTypes' /\ FramesAreGray' /\ LookedAt' /\ BlackIsDone' /\ SearchIsRight'
      <4>1. GraphTypes /\ FramesAreGray /\ LookedAt /\ BlackIsDone /\ SearchIsRight
        BY <2>1, <3>3 DEF GraphInv
      <4>2. verdict' \in {"searching", "accepted", "cycle"}
        BY <3>1, <4>1 DEF GraphTypes
      <4> QED
        BY <3>1, <3>2, <4>1, <4>2, GraphStays
    <3> QED
      BY <3>1, <3>3 DEF GraphInv
  <2> QED
    BY <2>1, <2>2, <2>3
<1>3. Inv => RefusedIffCyclic
  <2> SUFFICES ASSUME GraphInv PROVE Graph!RefusedIffCyclic
    BY DEF RefusedIffCyclic
  <2>1. ASSUME verdict = "accepted" PROVE ~Graph!Cyclic(offer.edges)
    <3>1. BlackIsDone /\ \A n \in Graph!Nodes : Black(n)
      BY <2>1 DEF GraphInv, SearchIsRight
    <3> QED
      BY <3>1 DEF BlackIsDone, Graph!Cyclic
  <2> QED
    BY <2>1 DEF Graph!RefusedIffCyclic, GraphInv, SearchIsRight
<1> QED
  BY <1>1, <1>2, <1>3, PTL DEF PlanningSpec

-----------------------------------------------------------------------------
(* Router: the reason given is true against all others *)

Profile ==
  [alias : Nat, ready : BOOLEAN, affinity : BOOLEAN, remaining : 0..100, used : Nat,
   capacity : {"AVAILABLE", "LOW", "UNKNOWN", "STALE", "EXHAUSTED"}]

\* Profiles that differ in their aliases.
Profiles == {S \in SUBSET Profile : \A c, d \in S : c.alias = d.alias => c = d}

Before(k, l) ==
  \/ k[1] < l[1]
  \/ k[1] = l[1] /\ k[2] < l[2]
  \/ k[1] = l[1] /\ k[2] = l[2] /\ k[3] < l[3]
  \/ k[1] = l[1] /\ k[2] = l[2] /\ k[3] = l[3] /\ k[4] < l[4]
  \/ k[1] = l[1] /\ k[2] = l[2] /\ k[3] = l[3] /\ k[4] = l[4] /\ k[5] < l[5]

LEMMA KeysAre ==
  ASSUME NEW c \in Profile
  PROVE  LET k == Route!SortKey(c) IN
         /\ k[1] = IF c.affinity THEN 0 ELSE 1
         /\ k[2] = Route!Rank(c) /\ k[2] \in 0..3
         /\ k[3] = IF Route!Fresh(c) THEN -c.remaining ELSE 0
         /\ k[3] \in -100..0
         /\ k[4] = c.used /\ k[5] = c.alias
         /\ \A i \in 1..5 : k[i] \in Int /\ k[i] >= -100
<1>1. Route!Rank(c) \in 0..3
  BY DEF Route!Rank, Profile
<1> DEFINE k1 == IF c.affinity THEN 0 ELSE 1
           k2 == Route!Rank(c)
           k3 == IF Route!Fresh(c) THEN -c.remaining ELSE 0
           k4 == c.used
           k5 == c.alias
<1>2. k1 \in 0..1 /\ k2 \in 0..3 /\ k3 \in -100..0 /\ k4 \in Nat /\ k5 \in Nat
  BY <1>1 DEF Profile
<1>3. Route!SortKey(c) = <<k1, k2, k3, k4, k5>>
  BY DEF Route!SortKey
<1> HIDE DEF k1, k2, k3, k4, k5
<1> DEFINE k == Route!SortKey(c)
<1>4. k[1] = k1 /\ k[2] = k2 /\ k[3] = k3 /\ k[4] = k4 /\ k[5] = k5
  BY <1>3
<1>5. ASSUME NEW i \in 1..5 PROVE k[i] \in Int /\ k[i] >= -100
  <2> HIDE DEF k
  <2>1. i = 1 \/ i = 2 \/ i = 3 \/ i = 4 \/ i = 5
    OBVIOUS
  <2> QED
    BY <1>2, <1>4, <2>1
<1> QED
  BY <1>2, <1>4, <1>5 DEF k1, k2, k3, k4, k5

\* The order of candidates is that of their keys.
LEMMA BeforeIs ==
  ASSUME NEW c \in Profile, NEW d \in Profile
  PROVE  Route!Before(c, d) <=> Before(Route!SortKey(c), Route!SortKey(d))
<1> DEFINE k == Route!SortKey(c)
           l == Route!SortKey(d)
<1> HIDE DEF k, l
<1>1. Route!Before(c, d) <=> \E i \in 1..5 : k[i] < l[i] /\ \A j \in 1..(i - 1) : k[j] = l[j]
  BY DEF Route!Before, k, l
<1>2. (\E i \in 1..5 : k[i] < l[i] /\ \A j \in 1..(i - 1) : k[j] = l[j]) => Before(k, l)
  <2> SUFFICES ASSUME NEW i \in 1..5, k[i] < l[i], \A j \in 1..(i - 1) : k[j] = l[j] PROVE Before(k, l)
    OBVIOUS
  <2>1. i = 1 \/ i = 2 \/ i = 3 \/ i = 4 \/ i = 5
    OBVIOUS
  <2> QED
    BY <2>1 DEF Before
<1>3. Before(k, l) => \E i \in 1..5 : k[i] < l[i] /\ \A j \in 1..(i - 1) : k[j] = l[j]
  <2>1. \A j \in 1..(1 - 1) : FALSE
    OBVIOUS
  <2>2. \A j \in 1..(2 - 1) : j = 1
    OBVIOUS
  <2>3. \A j \in 1..(3 - 1) : j \in {1, 2}
    OBVIOUS
  <2>4. \A j \in 1..(4 - 1) : j \in {1, 2, 3}
    OBVIOUS
  <2>5. \A j \in 1..(5 - 1) : j \in {1, 2, 3, 4}
    OBVIOUS
  <2>6. 1 \in 1..5 /\ 2 \in 1..5 /\ 3 \in 1..5 /\ 4 \in 1..5 /\ 5 \in 1..5
    OBVIOUS
  <2> QED
    BY <2>1, <2>2, <2>3, <2>4, <2>5, <2>6 DEF Before
<1> QED
  BY <1>1, <1>2, <1>3 DEF k, l

\* Some candidate has the least of what is bounded below.
LEMMA LeastExists ==
  ASSUME NEW S, S # {}, NEW f \in [S -> Nat] PROVE \E x \in S : \A y \in S : f[x] <= f[y]
<1> DEFINE T == {f[x] : x \in S}
<1>1. T \subseteq Nat /\ T # {}
  OBVIOUS
<1> DEFINE R == {p \in Nat \X Nat : p[1] < p[2]}
<1>2. IsWellFoundedOn(R, Nat)
  BY NatLessThanWellFounded DEF OpToRel
<1> HIDE DEF R
<1>3. PICK n \in T : \A m \in T : ~(<<m, n>> \in R)
  <2> HIDE DEF T
  <2> QED
    BY <1>1, <1>2, WFMin
<1>4. \A m \in T : ~(m < n)
  BY <1>1, <1>3 DEF R
<1>5. PICK x \in S : n = f[x]
  BY <1>3
<1>6. ASSUME NEW y \in S PROVE f[x] <= f[y]
  <2>1. f[y] \in T /\ f[y] \in Nat /\ f[x] \in Nat
    OBVIOUS
  <2>2. ~(f[y] < f[x])
    BY <1>4, <1>5, <2>1
  <2> QED
    BY <2>1, <2>2
<1> QED
  BY <1>6

\* Those with the least key at a place.
Least(S, i) == {x \in S : \A y \in S : Route!SortKey(x)[i] <= Route!SortKey(y)[i]}

LEMMA LeastIsNotEmpty == ASSUME NEW S \in SUBSET Profile, S # {}, NEW i \in 1..5 PROVE Least(S, i) # {}
<1> DEFINE f == [x \in S |-> Route!SortKey(x)[i] + 100]
<1>1. ASSUME NEW x \in S PROVE Route!SortKey(x)[i] \in Int /\ Route!SortKey(x)[i] >= -100
  BY KeysAre
<1>2. f \in [S -> Nat]
  BY <1>1
<1>3. PICK x \in S : \A y \in S : f[x] <= f[y]
  <2> HIDE DEF f
  <2> QED
    BY <1>2, LeastExists
<1>4. \A y \in S : Route!SortKey(x)[i] <= Route!SortKey(y)[i]
  BY <1>1, <1>3
<1> QED
  BY <1>4 DEF Least

\* The first in the order of the router is one of the candidates, before all others.
LEMMA FirstIsFirst ==
  ASSUME NEW S \in Profiles, S # {}
  PROVE  Route!First(S) \in S /\ \A d \in S \ {Route!First(S)} : Route!Before(Route!First(S), d)
<1> DEFINE S1 == Least(S, 1)
           S2 == Least(S1, 2)
           S3 == Least(S2, 3)
           S4 == Least(S3, 4)
           S5 == Least(S4, 5)
<1>1. S \in SUBSET Profile /\ \A c, d \in S : c.alias = d.alias => c = d
  BY DEF Profiles
<1>2. S1 \in SUBSET S /\ S2 \in SUBSET S1 /\ S3 \in SUBSET S2 /\ S4 \in SUBSET S3 /\ S5 \in SUBSET S4
  BY DEF Least
<1>3. S5 # {}
  <2> HIDE DEF S1, S2, S3, S4, S5
  <2>1. S1 # {}
    BY <1>1, LeastIsNotEmpty DEF S1
  <2>2. S2 # {}
    BY <1>1, <1>2, <2>1, LeastIsNotEmpty DEF S2
  <2>3. S3 # {}
    BY <1>1, <1>2, <2>2, LeastIsNotEmpty DEF S3
  <2>4. S4 # {}
    BY <1>1, <1>2, <2>3, LeastIsNotEmpty DEF S4
  <2> QED
    BY <1>1, <1>2, <2>4, LeastIsNotEmpty DEF S5
<1>4. PICK c \in S5 : TRUE
  BY <1>3
<1>5. c \in S /\ c \in S1 /\ c \in S2 /\ c \in S3 /\ c \in S4
  BY <1>2
<1>6. ASSUME NEW d \in S, d # c PROVE Route!Before(c, d)
  <2> DEFINE k == Route!SortKey(c)
             l == Route!SortKey(d)
  <2>1. /\ k[1] \in Int /\ k[2] \in Int /\ k[3] \in Int /\ k[4] \in Int /\ k[5] \in Int
        /\ l[1] \in Int /\ l[2] \in Int /\ l[3] \in Int /\ l[4] \in Int /\ l[5] \in Int
    BY <1>1, <1>5, <1>6, KeysAre
  <2>2. k[5] # l[5]
    BY <1>1, <1>5, <1>6, KeysAre
  \* The first place where d is not among the least.
  <2>3. k[1] <= l[1] /\ (d \in S1 \/ k[1] # l[1])
    BY <1>5, <2>1 DEF Least
  <2>4. d \in S1 => k[2] <= l[2] /\ (d \in S2 \/ k[2] # l[2])
    BY <1>5, <2>1 DEF Least
  <2>5. d \in S2 => k[3] <= l[3] /\ (d \in S3 \/ k[3] # l[3])
    BY <1>5, <2>1 DEF Least
  <2>6. d \in S3 => k[4] <= l[4] /\ (d \in S4 \/ k[4] # l[4])
    BY <1>5, <2>1 DEF Least
  <2>7. d \in S4 => k[5] <= l[5]
    BY <1>4, <2>1 DEF Least
  <2> HIDE DEF S1, S2, S3, S4, S5, k, l
  <2>8. Before(k, l)
    BY <2>1, <2>2, <2>3, <2>4, <2>5, <2>6, <2>7 DEF Before
  <2> QED
    BY <1>1, <1>5, <1>6, <2>8, BeforeIs DEF k, l
<1> HIDE DEF S1, S2, S3, S4, S5
<1>7. c \in S /\ \A d \in S \ {c} : Route!Before(c, d)
  BY <1>5, <1>6
<1> QED
  BY <1>7 DEF Route!First

-----------------------------------------------------------------------------
\* The choice among the eligible of a request: the first, and why it is before every other.
LEMMA ReasonHolds ==
  ASSUME NEW S \in Profiles, S # {}, IsFiniteSet(S), NEW d \in S, d # Route!First(S)
  PROVE  LET a == Route!First(S)
             reason == Route!Reason(S)
             k == Route!SortKey(a)
             l == Route!SortKey(d)
         IN /\ reason # "ROLE_READY_ONLY"
            /\ reason = "ROLE_READY_AFFINITY" => k[1] < l[1]
            /\ reason = "ROLE_READY_CAPACITY" /\ k[1] = l[1] => k[2] < l[2] \/ (k[2] = l[2] /\ k[3] < l[3])
            /\ reason = "ROLE_READY_LRU" /\ k[1] = l[1] /\ k[2] = l[2] /\ k[3] = l[3] => k[4] < l[4]
            /\ reason = "DETERMINISTIC_TIE" /\ k[1] = l[1] /\ k[2] = l[2] /\ k[3] = l[3] /\ k[4] = l[4] => k[5] < l[5]
            /\ reason = "DETERMINISTIC_TIE" =>
                 \E b \in S \ {a} : \A i \in 1..4 : k[i] = Route!SortKey(b)[i]
<1> DEFINE a == Route!First(S)
           b == Route!First(S \ {a})
           k == Route!SortKey(a)
           l == Route!SortKey(d)
           m == Route!SortKey(b)
           differ == {i \in 1..5 : k[i] # m[i]}
<1>1. a \in S /\ \A c \in S \ {a} : Route!Before(a, c)
  BY FirstIsFirst
<1>2. b \in S \ {a} /\ \A c \in (S \ {a}) \ {b} : Route!Before(b, c)
  <2> HIDE DEF a
  <2>1. S \ {a} \in Profiles /\ S \ {a} # {}
    BY DEF Profiles, a
  <2> QED
    BY <2>1, FirstIsFirst
<1>3. Route!Cardinality(S) # 1
  <2>1. Route!Cardinality(S) = Cardinality(S)
    BY DEF Route!Cardinality, Cardinality
  <2>2. ~ \E x : S = {x}
    BY <1>1
  <2>3. Cardinality(S) # 1
    BY <2>2, FS_Singleton
  <2> QED
    BY <2>1, <2>3
<1>4. a \in Profile /\ b \in Profile /\ d \in Profile
  BY <1>1, <1>2 DEF Profiles
<1>5. /\ k[1] \in Int /\ k[2] \in Int /\ k[3] \in Int /\ k[4] \in Int /\ k[5] \in Int
      /\ l[1] \in Int /\ l[2] \in Int /\ l[3] \in Int /\ l[4] \in Int /\ l[5] \in Int
      /\ m[1] \in Int /\ m[2] \in Int /\ m[3] \in Int /\ m[4] \in Int /\ m[5] \in Int
  BY <1>4, KeysAre
<1>6. Before(k, l) /\ Before(k, m) /\ (l = m \/ Before(m, l))
  BY <1>1, <1>2, <1>4, BeforeIs
<1>7. Route!Reason(S) =
        CASE 1 \in differ -> "ROLE_READY_AFFINITY"
          [] 1 \notin differ /\ {2, 3} \cap differ # {} -> "ROLE_READY_CAPACITY"
          [] differ \cap 1..3 = {} /\ 4 \in differ -> "ROLE_READY_LRU"
          [] OTHER -> "DETERMINISTIC_TIE"
  BY <1>3 DEF Route!Reason
<1> HIDE DEF k, l, m
<1>8. \A i \in 1..5 : i \in differ <=> k[i] # m[i]
  OBVIOUS
<1> HIDE DEF differ
<1> DEFINE reason == Route!Reason(S)
<1>9. /\ reason # "ROLE_READY_ONLY"
      /\ reason = "ROLE_READY_AFFINITY" => 1 \in differ
      /\ reason = "ROLE_READY_CAPACITY" => 1 \notin differ /\ (2 \in differ \/ 3 \in differ)
      /\ reason = "ROLE_READY_LRU" => differ \cap 1..3 = {} /\ 4 \in differ
      /\ reason = "DETERMINISTIC_TIE" => 1 \notin differ /\ 2 \notin differ /\ 3 \notin differ /\ 4 \notin differ
  BY <1>7
<1> HIDE DEF reason
<1>10. /\ reason = "ROLE_READY_AFFINITY" => k[1] # m[1]
       /\ reason = "ROLE_READY_CAPACITY" => k[1] = m[1] /\ (k[2] # m[2] \/ k[3] # m[3])
       /\ reason = "ROLE_READY_LRU" => k[1] = m[1] /\ k[2] = m[2] /\ k[3] = m[3] /\ k[4] # m[4]
       /\ reason = "DETERMINISTIC_TIE" => k[1] = m[1] /\ k[2] = m[2] /\ k[3] = m[3] /\ k[4] = m[4]
  BY <1>8, <1>9
<1> DEFINE Smaller ==
             /\ reason = "ROLE_READY_AFFINITY" => k[1] < l[1]
             /\ reason = "ROLE_READY_CAPACITY" /\ k[1] = l[1] => k[2] < l[2] \/ (k[2] = l[2] /\ k[3] < l[3])
             /\ reason = "ROLE_READY_LRU" /\ k[1] = l[1] /\ k[2] = l[2] /\ k[3] = l[3] => k[4] < l[4]
             /\ reason = "DETERMINISTIC_TIE" /\ k[1] = l[1] /\ k[2] = l[2] /\ k[3] = l[3] /\ k[4] = l[4] => k[5] < l[5]
<1>11. ASSUME l = m PROVE Smaller
  BY <1>5, <1>6, <1>10, <1>11 DEF Before
<1>12. ASSUME Before(m, l) PROVE Smaller
  BY <1>5, <1>6, <1>10, <1>12 DEF Before
<1>13. Smaller
  BY <1>6, <1>11, <1>12
<1>14. reason = "DETERMINISTIC_TIE" => \A i \in 1..4 : k[i] = m[i]
  <2>1. \A i \in 1..4 : i = 1 \/ i = 2 \/ i = 3 \/ i = 4
    OBVIOUS
  <2> QED
    BY <1>10, <2>1
<1> QED
  BY <1>2, <1>9, <1>13, <1>14 DEF k, l, m, reason

\* What the router answers a request.
Routed(r) ==
  LET routed == Route!RouteProfile(r)
      resolved == Route!ResolveModel(r.available, r.model, r.preferred)
  IN [profile |-> routed.profile, reason |-> routed.reason, model |-> resolved.model, why |-> resolved.why]

RouteInv ==
  focus = "route" =>
    /\ request \in Requests
    /\ answer # Route!Unanswered => answer = Routed(request)

\* The reasons that compare profiles are given when nothing was asked for and some profile is fit.
LEMMA RoutedIs ==
  ASSUME NEW r
  PROVE  LET eligible == {c \in r.profiles : Route!Eligible(c)}
             routed == Route!RouteProfile(r)
         IN /\ r.asked # 0 => routed.profile \in {NoProfile, r.asked}
            /\ routed.reason \notin {"OWNER_OVERRIDE", "OWNER_OVERRIDE_UNAVAILABLE", "NO_ELIGIBLE_PROFILE"} =>
                 /\ eligible # {}
                 /\ routed.profile = Route!First(eligible).alias /\ routed.reason = Route!Reason(eligible)
            /\ r.model # 0 => Route!ResolveModel(r.available, r.model, r.preferred).model \in {0, r.model}
<1> DEFINE eligible == {c \in r.profiles : Route!Eligible(c)}
           asked == {c \in eligible : c.alias = r.asked}
           routed == Route!RouteProfile(r)
           resolved == Route!ResolveModel(r.available, r.model, r.preferred)
<1>1. routed = CASE r.asked # 0 /\ asked # {} -> [profile |-> r.asked, reason |-> "OWNER_OVERRIDE"]
                 [] r.asked # 0 /\ asked = {} -> [profile |-> NoProfile, reason |-> "OWNER_OVERRIDE_UNAVAILABLE"]
                 [] r.asked = 0 /\ eligible = {} -> [profile |-> NoProfile, reason |-> "NO_ELIGIBLE_PROFILE"]
                 [] OTHER -> [profile |-> Route!First(eligible).alias, reason |-> Route!Reason(eligible)]
  BY DEF Route!RouteProfile
<1> HIDE DEF eligible, asked, routed
<1>2. r.asked # 0 => routed \in {[profile |-> r.asked, reason |-> "OWNER_OVERRIDE"],
                                [profile |-> NoProfile, reason |-> "OWNER_OVERRIDE_UNAVAILABLE"]}
  BY <1>1
<1>3. r.asked = 0 /\ eligible = {} => routed = [profile |-> NoProfile, reason |-> "NO_ELIGIBLE_PROFILE"]
  BY <1>1
<1>4. r.asked = 0 /\ eligible # {} =>
        routed = [profile |-> Route!First(eligible).alias, reason |-> Route!Reason(eligible)]
  BY <1>1
<1>5. r.model # 0 => resolved \in {[model |-> r.model, why |-> "MODEL_REQUESTED"],
                                  [model |-> 0, why |-> "MODEL_REQUESTED_UNAVAILABLE"]}
  BY DEF Route!ResolveModel
<1> HIDE DEF resolved
<1>6. r.asked # 0 => /\ routed.profile \in {NoProfile, r.asked}
                     /\ routed.reason \in {"OWNER_OVERRIDE", "OWNER_OVERRIDE_UNAVAILABLE"}
  BY <1>2
<1>7. r.asked = 0 /\ eligible = {} => routed.reason = "NO_ELIGIBLE_PROFILE"
  BY <1>3
<1>8. r.asked = 0 /\ eligible # {} =>
        routed.profile = Route!First(eligible).alias /\ routed.reason = Route!Reason(eligible)
  BY <1>4
<1>9. r.model # 0 => resolved.model \in {0, r.model}
  BY <1>5
<1> QED
  BY <1>6, <1>7, <1>8, <1>9 DEF eligible, routed, resolved

LEMMA RoutedIsTrue == ASSUME request \in Requests, answer = Routed(request) PROVE Route!ReasonIsTrue
<1> DEFINE eligible == {c \in request.profiles : Route!Eligible(c)}
           a == Route!First(eligible)
<1>1. /\ IsFiniteSet(request.profiles) /\ request.profiles \in SUBSET Profile
      /\ \A c, d \in request.profiles : c.alias = d.alias => c = d
  BY RequestsAssumption DEF Profile
<1>2. eligible \in Profiles /\ IsFiniteSet(eligible)
  <2>1. eligible \in SUBSET request.profiles
    OBVIOUS
  <2> HIDE DEF eligible
  <2> QED
    BY <1>1, <2>1, FS_Subset DEF Profiles
<1>3. /\ answer.profile = Route!RouteProfile(request).profile /\ answer.reason = Route!RouteProfile(request).reason
      /\ answer.model = Route!ResolveModel(request.available, request.model, request.preferred).model
  BY DEF Routed
<1>4. /\ request.asked # 0 => answer.profile \in {NoProfile, request.asked}
      /\ request.model # 0 => answer.model \in {0, request.model}
  BY <1>3, RoutedIs
<1>5. SUFFICES
        ASSUME answer.reason \in {"ROLE_READY_ONLY", "ROLE_READY_AFFINITY", "ROLE_READY_CAPACITY",
                                  "ROLE_READY_LRU", "DETERMINISTIC_TIE"}
        PROVE  Route!ReasonIsTrue
  BY <1>4, <1>5 DEF Route!ReasonIsTrue
<1>6. eligible # {} /\ answer.profile = a.alias /\ answer.reason = Route!Reason(eligible)
  BY <1>3, <1>5, RoutedIs
<1> HIDE DEF eligible
<1>7. a \in eligible /\ \A d \in eligible \ {a} : Route!Before(a, d)
  BY <1>2, <1>6, FirstIsFirst
<1> HIDE DEF a
<1>8. a \in request.profiles /\ Route!Chosen = a
  <2>1. a \in request.profiles
    BY <1>7 DEF eligible
  <2>2. \A c \in request.profiles : c.alias = answer.profile <=> c = a
    BY <1>1, <1>6, <2>1
  <2>3. Route!Chosen \in request.profiles /\ Route!Chosen.alias = answer.profile
    BY <2>1, <2>2 DEF Route!Chosen
  <2> QED
    BY <2>1, <2>2, <2>3
<1>9. Route!Others = eligible \ {a}
  BY <1>1, <1>6, <1>8 DEF Route!Others, eligible
<1>10. ASSUME answer.reason = "ROLE_READY_ONLY" PROVE Route!Others = {}
  <2>1. ~ \E d \in eligible : d # Route!First(eligible)
    BY <1>2, <1>6, <1>10, ReasonHolds
  <2> QED
    BY <1>9, <2>1 DEF a
<1> DEFINE k == Route!SortKey(a)
           l(d) == Route!SortKey(d)
           reason == answer.reason
<1>11. ASSUME NEW d \in Route!Others
       PROVE  /\ reason = "ROLE_READY_AFFINITY" => k[1] < l(d)[1]
              /\ reason = "ROLE_READY_CAPACITY" /\ k[1] = l(d)[1] =>
                   k[2] < l(d)[2] \/ (k[2] = l(d)[2] /\ k[3] < l(d)[3])
              /\ reason = "ROLE_READY_LRU" /\ k[1] = l(d)[1] /\ k[2] = l(d)[2] /\ k[3] = l(d)[3] => k[4] < l(d)[4]
              /\ reason = "DETERMINISTIC_TIE" /\ k[1] = l(d)[1] /\ k[2] = l(d)[2] /\ k[3] = l(d)[3] /\ k[4] = l(d)[4]
                   => k[5] < l(d)[5]
  BY <1>2, <1>6, <1>9, <1>11, ReasonHolds DEF a
<1>12. a \in Profile /\ \A d \in Route!Others : d \in Profile
  BY <1>1, <1>8 DEF Route!Others
<1> USE DEF l
<1>13. ASSUME NEW d \in Route!Others
       PROVE  /\ Route!Equal(d, 1) => k[1] = l(d)[1]
              /\ Route!Equal(d, 2) <=> k[1] = l(d)[1] /\ k[2] = l(d)[2]
              /\ Route!Equal(d, 3) => k[1] = l(d)[1] /\ k[2] = l(d)[2] /\ k[3] = l(d)[3]
              /\ Route!Equal(d, 4) => k[1] = l(d)[1] /\ k[2] = l(d)[2] /\ k[3] = l(d)[3] /\ k[4] = l(d)[4]
  <2>1. \A n \in 1..4 : Route!Equal(d, n) <=> \A i \in 1..n : k[i] = l(d)[i]
    BY <1>8 DEF Route!Equal
  <2> HIDE DEF k, l
  <2>2. /\ \A i \in 1..1 : i = 1
        /\ \A i \in 1..2 : i = 1 \/ i = 2
        /\ 1 \in 1..1
    OBVIOUS
  <2>3. 1 \in 1..2 /\ 2 \in 1..2
    OBVIOUS
  <2>4. 1 \in 1..3 /\ 2 \in 1..3 /\ 3 \in 1..3
    OBVIOUS
  <2>5. 1 \in 1..4 /\ 2 \in 1..4 /\ 3 \in 1..4 /\ 4 \in 1..4
    OBVIOUS
  <2> QED
    BY <2>1, <2>2, <2>3, <2>4, <2>5
<1>14. /\ k[1] = IF a.affinity THEN 0 ELSE 1
       /\ k[2] = Route!Rank(a) /\ k[2] \in 0..3
       /\ k[3] = (IF Route!Fresh(a) THEN -a.remaining ELSE 0) /\ k[3] \in -100..0 /\ a.remaining \in 0..100
       /\ k[4] = a.used /\ k[5] = a.alias
  BY <1>12, KeysAre DEF Profile
<1>15. ASSUME NEW d \in Route!Others
       PROVE  /\ l(d)[1] = IF d.affinity THEN 0 ELSE 1
              /\ l(d)[2] = Route!Rank(d) /\ l(d)[2] \in 0..3
              /\ l(d)[3] = (IF Route!Fresh(d) THEN -d.remaining ELSE 0) /\ l(d)[3] \in -100..0 /\ d.remaining \in 0..100
              /\ l(d)[4] = d.used /\ l(d)[5] = d.alias
  BY <1>12, KeysAre DEF Profile
<1>16. Route!Others # {} \/ reason = "ROLE_READY_ONLY"
  <2>1. CASE Route!Others = {}
    <3>1. eligible = {a}
      BY <1>7, <1>9, <2>1
    <3>2. Cardinality(eligible) = 1
      BY <3>1, FS_Singleton
    <3>3. Route!Cardinality(eligible) = 1
      BY <3>2 DEF Route!Cardinality, Cardinality
    <3> QED
      BY <1>6, <3>3 DEF Route!Reason
  <2> QED
    BY <2>1
<1> HIDE DEF k, l
<1>17. ASSUME reason = "ROLE_READY_AFFINITY" PROVE a.affinity /\ \A d \in Route!Others : ~d.affinity
  <2>1. ASSUME NEW d \in Route!Others PROVE a.affinity /\ ~d.affinity
    BY <1>11, <1>14, <1>15, <1>17, <2>1
  <2> QED
    BY <1>16, <1>17, <2>1
<1>18. ASSUME reason = "ROLE_READY_CAPACITY", NEW d \in Route!Others, Route!Equal(d, 1)
       PROVE  \/ Route!Rank(a) < Route!Rank(d)
              \/ Route!Equal(d, 2) /\ Route!Fresh(a) /\ (Route!Fresh(d) => d.remaining < a.remaining)
  <2>1. k[1] = l(d)[1] /\ (k[2] < l(d)[2] \/ (k[2] = l(d)[2] /\ k[3] < l(d)[3]))
    BY <1>11, <1>13, <1>18
  <2>2. CASE k[2] < l(d)[2]
    BY <1>14, <1>15, <2>2
  <2>3. CASE k[2] = l(d)[2] /\ k[3] < l(d)[3]
    <3>1. Route!Equal(d, 2)
      BY <1>13, <2>1, <2>3
    <3>2. Route!Fresh(a)
      BY <1>14, <1>15, <2>3
    <3>3. Route!Fresh(d) => d.remaining < a.remaining
      BY <1>14, <1>15, <2>3, <3>2
    <3> QED
      BY <3>1, <3>2, <3>3
  <2> QED
    BY <2>1, <2>2, <2>3
<1>19. ASSUME reason = "ROLE_READY_LRU", NEW d \in Route!Others, Route!Equal(d, 3) PROVE a.used < d.used
  BY <1>11, <1>13, <1>14, <1>15, <1>19
<1>20. ASSUME reason = "DETERMINISTIC_TIE", NEW d \in Route!Others, Route!Equal(d, 4) PROVE a.alias < d.alias
  BY <1>11, <1>13, <1>14, <1>15, <1>20
<1>21. ASSUME reason = "DETERMINISTIC_TIE" PROVE \E d \in Route!Others : Route!Equal(d, 4)
  <2>1. PICK d \in Route!Others : TRUE
    BY <1>16, <1>21
  <2>2. d \in eligible /\ d # a
    BY <1>9
  <2>3. \E b \in eligible \ {a} : \A i \in 1..4 : Route!SortKey(a)[i] = Route!SortKey(b)[i]
    BY <1>2, <1>6, <1>21, <2>2, ReasonHolds DEF a
  <2> QED
    BY <1>8, <1>9, <2>3 DEF Route!Equal
<1> QED
  BY <1>4, <1>8, <1>10, <1>17, <1>18, <1>19, <1>20, <1>21 DEF Route!ReasonIsTrue

\* What the owner asks for is used or refused, never replaced, and the reason that is persisted with
\* a choice is true of it against every other profile, for any number of them (router.py:route_profile,
\* resolve_model).
THEOREM ReasonsAreTrue == PlanningSpec => []ReasonIsTrue
<1>1. PlanningInit => RouteInv
  BY DEF PlanningInit, RouteInv, Route!Init
<1>2. RouteInv /\ [PlanningNext]_planningVars => RouteInv'
  <2> SUFFICES ASSUME RouteInv, [PlanningNext]_planningVars PROVE RouteInv'
    OBVIOUS
  <2>1. (focus = "route" /\ Route!Next /\ UNCHANGED focus) \/ UNCHANGED <<request, answer, focus>>
    BY DEF PlanningNext, planningVars, routerVars
  <2>2. CASE focus = "route" /\ Route!Next /\ UNCHANGED focus
    BY <2>2 DEF RouteInv, Route!Next, Route!Answer, Routed
  <2>3. CASE UNCHANGED <<request, answer, focus>>
    BY <2>3 DEF RouteInv, Routed, Route!RouteProfile, Route!ResolveModel, Route!Unanswered
  <2> QED
    BY <2>1, <2>2, <2>3
<1>3. RouteInv => ReasonIsTrue
  BY RoutedIsTrue DEF RouteInv, ReasonIsTrue, Route!ReasonIsTrue
<1> QED
  BY <1>1, <1>2, <1>3, PTL DEF PlanningSpec

-----------------------------------------------------------------------------
(* Rotations: what a session found still holds when it begins *)

Handoff == [head : Nat, status : {"issued", "acknowledged", "rejected"}, sound : BOOLEAN]
RotationRecord == [package : Nat, status : {"awaiting_ack", "continued"}]
RotateCall ==
  [pc : Rotation!Points, head : Nat, base : Nat, package : Nat, rotation : Nat, ok : BOOLEAN,
   given : HeadGiven \cup {FALSE}, rest : BOOLEAN, spell : Nat]

\* Nobody commits while the order rests, and it leaves this rest by a new spell of activity only.
AtRest == {"handoff_ready", "blocked", "completed"}

\* The call names a package there is; and if it found the order at rest and nobody has begun
\* a spell since, the order still rests and what was found of its HEAD still holds.
FindingStands(c) ==
  LET k == rotateCall[c] IN
  /\ k.pc \in {"ready", "record", "ack", "reread", "activate", "note"} => k.package \in 1..Len(packages)
  /\ k.pc \in {"reread", "activate"} => k.ok
  /\ k.pc \in {"ack", "reread", "activate"} /\ k.given /\ k.rest =>
       /\ k.spell <= spells
       /\ k.spell = spells => status \in AtRest /\ (k.ok => packages[k.package].head = head)

RotationInv ==
  /\ status \in DOMAIN Rotation!Moves /\ version \in Nat /\ head \in Nat /\ spells \in Nat
  /\ packages \in Seq(Handoff) /\ rotations \in Seq(RotationRecord)
  /\ rotateCall \in [Rotators -> RotateCall]
  /\ \A r \in 1..Len(rotations) : rotations[r].package \in 1..Len(packages)
  /\ \A c \in Rotators : FindingStands(c)
  /\ Rotation!FreshIfUndisturbed

\* What any step leaves of what others have found.
RotationMoves ==
  /\ packages' \in Seq(Handoff) /\ Len(packages) <= Len(packages')
  /\ \A p \in 1..Len(packages) : packages'[p].head = packages[p].head
  /\ spells' \in Nat /\ spells <= spells'
  /\ spells' = spells /\ status \in AtRest => status' \in AtRest /\ head' = head

LEMMA FindingsStand ==
  ASSUME RotationInv, RotationMoves, NEW c \in Rotators, rotateCall'[c] = rotateCall[c]
  PROVE  FindingStands(c)'
<1> DEFINE k == rotateCall[c]
<1>1. k = rotateCall'[c] /\ k \in RotateCall /\ FindingStands(c)
  BY DEF RotationInv
<1>2. Len(packages) \in Nat /\ Len(packages') \in Nat /\ spells \in Nat /\ spells' \in Nat /\ k.spell \in Nat
  BY <1>1, LenProperties DEF RotationInv, RotationMoves, RotateCall
<1>3. k.package \in 1..Len(packages) => k.package \in 1..Len(packages')
  BY <1>2 DEF RotationMoves
<1>4. CASE spells' = spells
  BY <1>1, <1>2, <1>3, <1>4 DEF FindingStands, RotationMoves
<1>5. CASE spells' # spells
  <2>1. spells < spells'
    BY <1>2, <1>5 DEF RotationMoves
  <2>2. k.spell <= spells => k.spell <= spells' /\ k.spell # spells'
    BY <1>2, <2>1
  <2> QED
    BY <1>1, <1>3, <2>2 DEF FindingStands
<1> QED
  BY <1>4, <1>5

\* WorkOrderService.transition.
LEMMA MoveIsSound ==
  ASSUME RotationInv, NEW to, to \in Rotation!Moves[status], Rotation!Move(to), UNCHANGED <<packages, head>>
  PROVE  RotationMoves /\ status' \in DOMAIN Rotation!Moves /\ version' \in Nat
<1>1. packages' \in Seq(Handoff) /\ Len(packages') = Len(packages) /\ Len(packages) \in Nat
  BY LenProperties DEF RotationInv
<1>2. status' = to /\ to \in DOMAIN Rotation!Moves /\ (status \in AtRest /\ to # "active" => to \in AtRest)
  BY DEF RotationInv, Rotation!Moves, Rotation!Move, AtRest
<1>3. spells' \in Nat /\ spells <= spells' /\ (to = "active" => spells' # spells) /\ version' \in Nat
  BY DEF RotationInv, Rotation!Move
<1>4. Len(packages) <= Len(packages')
  BY <1>1
<1> QED
  BY <1>1, <1>2, <1>3, <1>4 DEF RotationMoves

\* Marking a package, or an edit of its content, changes no HEAD.
LEMMA MarkIsSound ==
  ASSUME RotationInv, NEW p \in 1..Len(packages), NEW h \in Handoff, h.head = packages[p].head,
         packages' = [packages EXCEPT ![p] = h], UNCHANGED <<status, head, spells>>
  PROVE  RotationMoves
<1>1. packages \in Seq(Handoff) /\ Len(packages) \in Nat /\ spells \in Nat
  BY LenProperties DEF RotationInv
<1>2. packages' \in Seq(Handoff) /\ Len(packages') = Len(packages)
      /\ \A q \in 1..Len(packages) : packages'[q] = IF q = p THEN h ELSE packages[q]
  BY <1>1, ExceptSeq
<1>3. Len(packages) <= Len(packages') /\ spells <= spells'
  BY <1>1, <1>2
<1> QED
  BY <1>1, <1>2, <1>3 DEF RotationMoves

LEMMA StayIsSound == ASSUME RotationInv, UNCHANGED <<packages, status, head, spells>> PROVE RotationMoves
<1>1. packages \in Seq(Handoff) /\ Len(packages) \in Nat /\ spells \in Nat /\ Len(packages') = Len(packages)
  BY LenProperties DEF RotationInv
<1>2. Len(packages) <= Len(packages') /\ spells <= spells'
  BY <1>1
<1> QED
  BY <1>1, <1>2 DEF RotationMoves

\* A step of one call, whatever it finds for itself.
LEMMA OneCallSteps ==
  ASSUME RotationInv, RotationMoves, NEW c \in Rotators, NEW k \in RotateCall,
         rotateCall' = [rotateCall EXCEPT ![c] = k],
         FindingStands(c)',
         status' \in DOMAIN Rotation!Moves, version' \in Nat, head' \in Nat,
         rotations' \in Seq(RotationRecord),
         \A r \in 1..Len(rotations') : rotations'[r].package \in 1..Len(packages'),
         Rotation!FreshIfUndisturbed'
  PROVE  RotationInv'
<1>1. rotateCall' \in [Rotators -> RotateCall]
  BY DEF RotationInv
<1>2. ASSUME NEW d \in Rotators, d # c PROVE FindingStands(d)'
  BY <1>2, FindingsStand DEF RotationInv
<1>3. packages' \in Seq(Handoff) /\ spells' \in Nat
  BY DEF RotationMoves
<1> QED
  BY <1>1, <1>2, <1>3 DEF RotationInv

LEMMA RotationInductive == ASSUME RotationInv, Rotation!Next PROVE RotationInv'
<1>1. /\ status \in DOMAIN Rotation!Moves /\ version \in Nat /\ head \in Nat /\ spells \in Nat
      /\ packages \in Seq(Handoff) /\ Len(packages) \in Nat
      /\ rotations \in Seq(RotationRecord) /\ Len(rotations) \in Nat
      /\ \A p \in 1..Len(packages) : packages[p] \in Handoff
      /\ \A r \in 1..Len(rotations) : rotations[r] \in RotationRecord
  BY LenProperties, ElementOfSeq DEF RotationInv
<1>2. \A r \in 1..Len(rotations) : rotations[r].package \in 1..Len(packages)
  BY DEF RotationInv
<1>3. ASSUME NEW c \in Rotators PROVE rotateCall[c] \in RotateCall /\ FindingStands(c)
  BY <1>3 DEF RotationInv
<1>4. Rotation!Idle \in RotateCall /\ Rotation!Idle.pc = "idle"
  BY DEF Rotation!Idle, RotateCall, Rotation!Points
\* What a step of a call has to show, when it does not touch the records of rotations.
<1>5. ASSUME RotationMoves, UNCHANGED <<rotations, began, head>>, status' \in DOMAIN Rotation!Moves, version' \in Nat,
             NEW c \in Rotators, NEW k \in RotateCall, rotateCall' = [rotateCall EXCEPT ![c] = k], FindingStands(c)'
      PROVE  RotationInv'
  <2>1. \A r \in 1..Len(rotations) : rotations[r].package \in 1..Len(packages')
    <3>1. packages' \in Seq(Handoff) /\ Len(packages) <= Len(packages')
      BY <1>5 DEF RotationMoves
    <3>2. Len(packages') \in Nat
      BY <3>1, LenProperties
    <3> QED
      BY <1>1, <1>2, <3>1, <3>2
  <2>2. rotations' \in Seq(RotationRecord) /\ head' \in Nat /\ Rotation!FreshIfUndisturbed'
    BY <1>1, <1>5 DEF Rotation!FreshIfUndisturbed, RotationInv
  <2>3. \A r \in 1..Len(rotations') : rotations'[r].package \in 1..Len(packages')
    BY <1>5, <2>1
  <2> QED
    BY <1>5, <2>2, <2>3, OneCallSteps
\* A call that ends.
<1>6. ASSUME RotationMoves, UNCHANGED <<rotations, began, head>>, status' \in DOMAIN Rotation!Moves, version' \in Nat,
             NEW c \in Rotators, Rotation!Finish(c)
      PROVE  RotationInv'
  <2>1. rotateCall' = [rotateCall EXCEPT ![c] = Rotation!Idle] /\ rotateCall'[c] = Rotation!Idle
    BY <1>6 DEF Rotation!Finish, RotationInv
  <2>2. FindingStands(c)'
    BY <1>4, <2>1 DEF FindingStands
  <2> QED
    BY <1>4, <1>5, <1>6, <2>1, <2>2
\* A step of nobody's call.
<1>7. ASSUME RotationMoves, UNCHANGED <<rotations, began, rotateCall>>, head' \in Nat,
             status' \in DOMAIN Rotation!Moves, version' \in Nat
      PROVE  RotationInv'
  <2>1. \A c \in Rotators : FindingStands(c)'
    BY <1>7, FindingsStand
  <2>2. packages' \in Seq(Handoff) /\ Len(packages) <= Len(packages') /\ spells' \in Nat
    BY <1>7 DEF RotationMoves
  <2>3. Len(packages') \in Nat
    BY <2>2, LenProperties
  <2>4. \A r \in 1..Len(rotations) : rotations[r].package \in 1..Len(packages')
    BY <1>1, <1>2, <2>2, <2>3
  <2>5. \A r \in 1..Len(rotations') : rotations'[r].package \in 1..Len(packages')
    BY <1>7, <2>4
  <2>6. rotateCall' \in [Rotators -> RotateCall] /\ rotations' \in Seq(RotationRecord) /\ Rotation!FreshIfUndisturbed'
    BY <1>7 DEF RotationInv, Rotation!FreshIfUndisturbed
  <2> QED
    BY <1>7, <2>1, <2>2, <2>5, <2>6 DEF RotationInv
<1>8. CASE Rotation!OtherMove
  <2>1. PICK to \in Rotation!Moves[status] : Rotation!Move(to)
    BY <1>8 DEF Rotation!OtherMove
  <2>2. UNCHANGED <<packages, head, rotations, began, rotateCall>>
    BY <1>8 DEF Rotation!OtherMove, Rotation!rows
  <2> QED
    BY <1>1, <1>7, <2>1, <2>2, MoveIsSound
<1>9. CASE Rotation!Commit
  <2>1. status = "active" /\ head' = head + 1 /\ UNCHANGED <<status, version, packages, rotations, rotateCall, spells, began>>
    BY <1>9 DEF Rotation!Commit, Rotation!rows
  <2>2. Len(packages) <= Len(packages') /\ spells <= spells' /\ status \notin AtRest
    BY <1>1, <2>1 DEF AtRest
  <2>3. RotationMoves
    BY <1>1, <2>1, <2>2 DEF RotationMoves
  <2> QED
    BY <1>1, <1>7, <2>1, <2>3
<1>10. CASE Rotation!Disconnect
  <2>1. UNCHANGED <<status, version, head, packages, rotations, rotateCall, spells, began>>
    BY <1>10 DEF Rotation!Disconnect, Rotation!rows
  <2> QED
    BY <1>1, <1>7, <2>1, StayIsSound
<1>11. CASE Rotation!Tamper
  <2>1. PICK p \in 1..Len(packages) : packages' = [packages EXCEPT ![p].sound = FALSE]
    BY <1>11 DEF Rotation!Tamper
  <2> DEFINE h == [packages[p] EXCEPT !.sound = FALSE]
  <2>2. h \in Handoff /\ h.head = packages[p].head /\ packages' = [packages EXCEPT ![p] = h]
    BY <1>1, <2>1 DEF Handoff
  <2>3. UNCHANGED <<status, version, head, rotations, rotateCall, spells, began>>
    BY <1>11 DEF Rotation!Tamper
  <2> QED
    BY <1>1, <1>7, <2>2, <2>3, MarkIsSound
<1>12. ASSUME NEW p \in 1..Len(packages), NEW s \in {"issued", "acknowledged", "rejected"}, Rotation!Mark(p, s),
              UNCHANGED <<status, head, spells>>
       PROVE  RotationMoves
  <2> DEFINE h == [packages[p] EXCEPT !.status = s]
  <2>1. h \in Handoff /\ h.head = packages[p].head /\ packages' = [packages EXCEPT ![p] = h]
    BY <1>1, <1>12 DEF Handoff, Rotation!Mark
  <2> QED
    BY <1>12, <2>1, MarkIsSound
<1>13. CASE Rotation!Reject
  <2>1. UNCHANGED <<status, version, head, rotations, rotateCall, spells, began>>
    BY <1>13 DEF Rotation!Reject
  <2>2. RotationMoves
    BY <1>12, <1>13, <2>1 DEF Rotation!Reject
  <2> QED
    BY <1>1, <1>7, <2>1, <2>2
<1>14. ASSUME NEW c \in Rotators, Rotation!RotateRead(c) PROVE RotationInv'
  <2> DEFINE k == [Rotation!Idle EXCEPT !.pc = "checkpoint", !.head = head, !.base = version]
  <2>1. k \in RotateCall /\ k.pc = "checkpoint"
    BY <1>1 DEF Rotation!Idle, RotateCall, Rotation!Points
  <2>2. rotateCall' = [rotateCall EXCEPT ![c] = k] /\ UNCHANGED <<status, version, head, packages, rotations, spells, began>>
    BY <1>14 DEF Rotation!RotateRead, Rotation!rows
  <2> HIDE DEF k
  <2>3. rotateCall'[c] = k
    BY <2>2 DEF RotationInv
  <2>4. FindingStands(c)'
    BY <2>1, <2>3 DEF FindingStands
  <2> QED
    BY <1>1, <1>5, <2>1, <2>2, <2>4, StayIsSound
<1>15. ASSUME NEW c \in Rotators, Rotation!RotateCheckpoint(c) PROVE RotationInv'
  <2>1. UNCHANGED <<head, packages, rotations, began>>
    BY <1>15 DEF Rotation!RotateCheckpoint, Rotation!rows
  <2>2. ASSUME NEW k \in RotateCall, k.pc = "handoff", rotateCall' = [rotateCall EXCEPT ![c] = k] PROVE FindingStands(c)'
    <3>1. rotateCall'[c] = k
      BY <2>2 DEF RotationInv
    <3> QED
      BY <2>2, <3>1 DEF FindingStands
  <2>3. CASE status = "active" /\ Rotation!Moved("checkpointed", rotateCall[c].base)
    <3> DEFINE k == [rotateCall[c] EXCEPT !.pc = "handoff", !.base = version + 1]
    <3>1. k \in RotateCall /\ k.pc = "handoff"
      <4>1. version + 1 \in Nat
        BY <1>1
      <4> QED
        BY <1>3, <4>1 DEF RotateCall, Rotation!Points
    <3>2. rotateCall' = [rotateCall EXCEPT ![c] = k] /\ Rotation!Move("checkpointed")
      BY <1>15, <2>3 DEF Rotation!RotateCheckpoint, RotationInv
    <3> HIDE DEF k
    <3>3. RotationMoves /\ status' \in DOMAIN Rotation!Moves /\ version' \in Nat
      BY <2>1, <2>3, <3>2, MoveIsSound DEF Rotation!Moved
    <3> QED
      BY <1>5, <2>1, <2>2, <3>1, <3>2, <3>3
  <2>4. CASE ~(status = "active" /\ Rotation!Moved("checkpointed", rotateCall[c].base))
    <3>1. UNCHANGED <<status, version, spells>>
      BY <1>15, <2>4 DEF Rotation!RotateCheckpoint
    <3>2. RotationMoves
      BY <2>1, <3>1, StayIsSound
    <3>3. CASE rotateCall' = [rotateCall EXCEPT ![c].pc = "handoff"]
      <4> DEFINE k == [rotateCall[c] EXCEPT !.pc = "handoff"]
      <4>1. k \in RotateCall /\ k.pc = "handoff" /\ rotateCall' = [rotateCall EXCEPT ![c] = k]
        BY <1>3, <3>3 DEF RotateCall, Rotation!Points
      <4> HIDE DEF k
      <4> QED
        BY <1>1, <1>5, <2>1, <2>2, <3>1, <3>2, <4>1
    <3>4. CASE Rotation!Finish(c)
      BY <1>1, <1>6, <2>1, <3>1, <3>2, <3>4
    <3> QED
      BY <1>15, <2>4, <3>3, <3>4 DEF Rotation!RotateCheckpoint
  <2> QED
    BY <2>3, <2>4
<1>16. ASSUME NEW c \in Rotators, Rotation!BuildHandoff(c) PROVE RotationInv'
  <2> DEFINE h == [head |-> rotateCall[c].head, status |-> "issued", sound |-> TRUE]
             k == [rotateCall[c] EXCEPT !.pc = "ready", !.package = Len(packages) + 1]
  <2>1. h \in Handoff /\ k \in RotateCall /\ k.pc = "ready" /\ k.package = Len(packages) + 1
    <3>1. Len(packages) + 1 \in Nat
      BY <1>1
    <3> QED
      BY <1>3, <3>1 DEF Handoff, RotateCall, Rotation!Points
  <2>2. /\ packages' = Append(packages, h) /\ rotateCall' = [rotateCall EXCEPT ![c] = k]
        /\ UNCHANGED <<status, version, head, rotations, spells, began>>
    BY <1>16 DEF Rotation!BuildHandoff, RotationInv
  <2> HIDE DEF h, k
  <2>3. /\ packages' \in Seq(Handoff) /\ Len(packages') = Len(packages) + 1
        /\ \A p \in 1..Len(packages) : packages'[p] = packages[p]
    BY <1>1, <2>1, <2>2, AppendProperties
  <2>4. RotationMoves
    <3>1. Len(packages) <= Len(packages') /\ spells <= spells' /\ spells' \in Nat
      BY <1>1, <2>2, <2>3
    <3> QED
      BY <2>2, <2>3, <3>1 DEF RotationMoves
  <2>5. rotateCall'[c] = k
    BY <2>2 DEF RotationInv
  <2>6. FindingStands(c)'
    <3>1. k.package \in 1..Len(packages')
      BY <1>1, <2>1, <2>3
    <3> QED
      BY <2>1, <2>5, <3>1 DEF FindingStands
  <2> QED
    BY <1>1, <1>5, <2>1, <2>2, <2>4, <2>6
<1>17. ASSUME NEW c \in Rotators, Rotation!RotateReady(c) PROVE RotationInv'
  <2>1. UNCHANGED <<head, packages, rotations, began>>
    BY <1>17 DEF Rotation!RotateReady, Rotation!rows
  <2>2. CASE Rotation!Moved("handoff_ready", rotateCall[c].base)
    <3> DEFINE k == [rotateCall[c] EXCEPT !.pc = "record"]
    <3>1. k \in RotateCall /\ k.pc = "record" /\ k.package = rotateCall[c].package
      BY <1>3 DEF RotateCall, Rotation!Points
    <3>2. rotateCall' = [rotateCall EXCEPT ![c] = k] /\ Rotation!Move("handoff_ready")
      BY <1>17, <2>2 DEF Rotation!RotateReady, RotationInv
    <3> HIDE DEF k
    <3>3. RotationMoves /\ status' \in DOMAIN Rotation!Moves /\ version' \in Nat
      BY <2>1, <2>2, <3>2, MoveIsSound DEF Rotation!Moved
    <3>4. rotateCall'[c] = k
      BY <3>2 DEF RotationInv
    <3>5. k.package \in 1..Len(packages')
      BY <1>3, <1>17, <2>1, <3>1 DEF Rotation!RotateReady, FindingStands
    <3>6. FindingStands(c)'
      BY <3>1, <3>4, <3>5 DEF FindingStands
    <3> QED
      BY <1>5, <2>1, <3>1, <3>2, <3>3, <3>6
  <2>3. CASE ~Rotation!Moved("handoff_ready", rotateCall[c].base)
    <3>1. UNCHANGED <<status, version, spells>> /\ Rotation!Finish(c)
      BY <1>17, <2>3 DEF Rotation!RotateReady
    <3> QED
      BY <1>1, <1>6, <2>1, <3>1, StayIsSound
  <2> QED
    BY <2>2, <2>3
<1>18. ASSUME NEW c \in Rotators, Rotation!RotateRecord(c) PROVE RotationInv'
  <2> DEFINE r == [package |-> rotateCall[c].package, status |-> "awaiting_ack"]
  <2>1. r \in RotationRecord /\ r.package \in 1..Len(packages)
    BY <1>3, <1>18 DEF Rotation!RotateRecord, RotationRecord, RotateCall, FindingStands
  <2>2. /\ rotations' = Append(rotations, r) /\ rotateCall' = [rotateCall EXCEPT ![c] = Rotation!Idle]
        /\ UNCHANGED <<status, version, head, packages, spells, began>>
    BY <1>18 DEF Rotation!RotateRecord, Rotation!Finish
  <2> HIDE DEF r
  <2>3. /\ rotations' \in Seq(RotationRecord) /\ Len(rotations') = Len(rotations) + 1
        /\ \A i \in 1..Len(rotations) : rotations'[i] = rotations[i]
        /\ rotations'[Len(rotations) + 1] = r
    BY <1>1, <2>1, <2>2, AppendProperties
  <2>4. \A i \in 1..(Len(rotations) + 1) : i \in 1..Len(rotations) \/ i = Len(rotations) + 1
    BY <1>1
  <2>5. \A i \in 1..Len(rotations') : rotations'[i].package \in 1..Len(packages')
    BY <1>2, <2>1, <2>2, <2>3, <2>4
  <2>6. rotateCall'[c] = Rotation!Idle /\ Rotation!FreshIfUndisturbed'
    BY <2>2 DEF RotationInv, Rotation!FreshIfUndisturbed
  <2>7. FindingStands(c)'
    BY <1>4, <2>6 DEF FindingStands
  <2>8. RotationMoves
    BY <2>2, StayIsSound
  <2>9. status' \in DOMAIN Rotation!Moves /\ version' \in Nat /\ head' \in Nat
    BY <1>1, <2>2
  <2> QED
    BY <1>4, <2>2, <2>3, <2>5, <2>6, <2>7, <2>8, <2>9, OneCallSteps
<1>19. ASSUME NEW c \in Rotators, NEW r \in 1..Len(rotations), NEW given \in HeadGiven, Rotation!Verify(c, r, given)
       PROVE  RotationInv'
  <2> DEFINE p == rotations[r].package
             fit == Rotation!Fit(p, given)
             k == [Rotation!Idle EXCEPT
                    !.pc = "ack", !.package = p, !.rotation = r, !.ok = fit, !.given = given,
                    !.rest = (status = "handoff_ready"), !.spell = spells]
  <2>1. p \in 1..Len(packages) /\ p \in Nat /\ r \in Nat /\ spells \in Nat
    BY <1>1, <1>2
  <2>2. fit \in BOOLEAN /\ ((fit /\ given) => packages[p].head = head)
    BY DEF Rotation!Fit
  <2>3. rotateCall' = [rotateCall EXCEPT ![c] = k] /\ UNCHANGED <<status, version, head, packages, rotations, spells, began>>
    BY <1>19 DEF Rotation!Verify, Rotation!rows
  <2> HIDE DEF p, fit
  <2>4. /\ k \in RotateCall /\ k.pc = "ack" /\ k.package = p /\ k.given = given /\ k.spell = spells
        /\ k.rest = (status = "handoff_ready") /\ k.ok = fit
    BY <2>1, <2>2 DEF Rotation!Idle, RotateCall, Rotation!Points
  <2> HIDE DEF k
  <2>5. rotateCall'[c] = k
    BY <2>3 DEF RotationInv
  <2>6. k.spell <= spells
    BY <2>1, <2>4
  <2>7. FindingStands(c)'
    BY <2>1, <2>2, <2>3, <2>4, <2>5, <2>6 DEF FindingStands, AtRest
  <2> QED
    BY <1>1, <1>5, <2>3, <2>4, <2>7, StayIsSound
<1>20. ASSUME NEW c \in Rotators, Rotation!Acknowledge(c) PROVE RotationInv'
  <2>1. /\ UNCHANGED <<status, version, head, rotations, spells, began>>
        /\ rotateCall[c].pc = "ack" /\ rotateCall[c].package \in 1..Len(packages)
    BY <1>3, <1>20 DEF Rotation!Acknowledge, FindingStands
  <2>2. RotationMoves
    <3>1. Rotation!Mark(rotateCall[c].package, "acknowledged") \/ Rotation!Mark(rotateCall[c].package, "rejected")
      BY <1>20 DEF Rotation!Acknowledge
    <3> QED
      BY <1>12, <2>1, <3>1
  <2>3. CASE rotateCall[c].ok
    <3> DEFINE k == [rotateCall[c] EXCEPT !.pc = "reread"]
    <3>1. /\ k \in RotateCall /\ k.pc = "reread" /\ k.package = rotateCall[c].package /\ k.ok
          /\ k.given = rotateCall[c].given /\ k.rest = rotateCall[c].rest /\ k.spell = rotateCall[c].spell
      BY <1>3, <2>3 DEF RotateCall, Rotation!Points
    <3>2. rotateCall' = [rotateCall EXCEPT ![c] = k]
      BY <1>20, <2>3 DEF Rotation!Acknowledge, RotationInv
    <3> HIDE DEF k
    <3>3. rotateCall'[c] = k
      BY <3>2 DEF RotationInv
    <3>4. /\ k.package \in 1..Len(packages) /\ k.package \in 1..Len(packages')
          /\ packages'[k.package].head = packages[k.package].head
      <4>1. packages' \in Seq(Handoff) /\ Len(packages) <= Len(packages')
        BY <2>2 DEF RotationMoves
      <4>2. Len(packages') \in Nat
        BY <4>1, LenProperties
      <4> QED
        BY <1>1, <2>1, <2>2, <3>1, <4>1, <4>2 DEF RotationMoves
    <3>5. FindingStands(c)'
      BY <1>3, <2>1, <2>3, <3>1, <3>3, <3>4 DEF FindingStands
    <3> QED
      BY <1>1, <1>5, <2>1, <2>2, <3>1, <3>2, <3>5
  <2>4. CASE ~rotateCall[c].ok
    BY <1>1, <1>6, <1>20, <2>1, <2>2, <2>4 DEF Rotation!Acknowledge
  <2> QED
    BY <2>3, <2>4
<1>21. ASSUME NEW c \in Rotators, Rotation!Reread(c) PROVE RotationInv'
  <2> DEFINE k == [rotateCall[c] EXCEPT !.pc = "activate", !.base = version]
  <2>1. /\ k \in RotateCall /\ k.pc = "activate" /\ k.package = rotateCall[c].package /\ k.ok = rotateCall[c].ok
        /\ k.given = rotateCall[c].given /\ k.rest = rotateCall[c].rest /\ k.spell = rotateCall[c].spell
    BY <1>1, <1>3 DEF RotateCall, Rotation!Points
  <2>2. /\ rotateCall' = [rotateCall EXCEPT ![c] = k] /\ rotateCall[c].pc = "reread"
        /\ UNCHANGED <<status, version, head, packages, rotations, spells, began>>
    BY <1>21 DEF Rotation!Reread, RotationInv, Rotation!rows
  <2> HIDE DEF k
  <2>3. rotateCall'[c] = k
    BY <2>2 DEF RotationInv
  <2>4. FindingStands(c)'
    BY <1>3, <2>1, <2>2, <2>3 DEF FindingStands
  <2> QED
    BY <1>1, <1>5, <2>1, <2>2, <2>4, StayIsSound
<1>22. ASSUME NEW c \in Rotators, Rotation!Activate(c) PROVE RotationInv'
  <2>1. UNCHANGED <<head, packages, rotations>> /\ rotateCall[c].pc = "activate"
    BY <1>22 DEF Rotation!Activate, Rotation!rows
  <2>2. CASE Rotation!Moved("active", rotateCall[c].base)
    <3> DEFINE k == [rotateCall[c] EXCEPT !.pc = "note"]
               b == [package |-> rotateCall[c].package, latest |-> Len(packages),
                     undisturbed |-> rotateCall[c].given /\ rotateCall[c].rest /\ rotateCall[c].spell = spells,
                     head |-> packages[rotateCall[c].package].head, actual |-> head]
    <3>1. k \in RotateCall /\ k.pc = "note" /\ k.package = rotateCall[c].package
      BY <1>3 DEF RotateCall, Rotation!Points
    <3>2. rotateCall' = [rotateCall EXCEPT ![c] = k] /\ Rotation!Move("active") /\ began' = b
      BY <1>22, <2>2 DEF Rotation!Activate, RotationInv
    <3>3. b.undisturbed => b.head = b.actual
      BY <1>3, <2>1 DEF FindingStands
    <3>4. Rotation!FreshIfUndisturbed'
      BY <3>2, <3>3 DEF Rotation!FreshIfUndisturbed
    <3> HIDE DEF k, b
    <3>5. RotationMoves /\ status' \in DOMAIN Rotation!Moves /\ version' \in Nat
      BY <2>1, <2>2, <3>2, MoveIsSound DEF Rotation!Moved
    <3>6. rotateCall'[c] = k
      BY <3>2 DEF RotationInv
    <3>7. k.package \in 1..Len(packages')
      BY <1>3, <2>1, <3>1 DEF FindingStands
    <3>8. FindingStands(c)'
      BY <3>1, <3>6, <3>7 DEF FindingStands
    <3>9. rotations' \in Seq(RotationRecord) /\ \A i \in 1..Len(rotations') : rotations'[i].package \in 1..Len(packages')
      BY <1>1, <1>2, <2>1
    <3>10. head' \in Nat
      BY <1>1, <2>1
    <3> QED
      BY <3>1, <3>2, <3>4, <3>5, <3>8, <3>9, <3>10, OneCallSteps
  <2>3. CASE ~Rotation!Moved("active", rotateCall[c].base)
    <3>1. UNCHANGED <<status, version, spells, began>> /\ Rotation!Finish(c)
      BY <1>22, <2>3 DEF Rotation!Activate
    <3> QED
      BY <1>1, <1>6, <2>1, <3>1, StayIsSound
  <2> QED
    BY <2>2, <2>3
<1>23. ASSUME NEW c \in Rotators, Rotation!NoteContinued(c) PROVE RotationInv'
  <2>1. /\ rotateCall' = [rotateCall EXCEPT ![c] = Rotation!Idle]
        /\ UNCHANGED <<status, version, head, packages, spells, began>>
        /\ rotations' = [rotations EXCEPT ![rotateCall[c].rotation].status = "continued"]
    BY <1>23 DEF Rotation!NoteContinued, Rotation!Finish
  <2>2. rotations' \in Seq(RotationRecord) /\ \A i \in 1..Len(rotations') : rotations'[i].package \in 1..Len(packages')
    <3> DEFINE j == rotateCall[c].rotation
               r == [rotations[j] EXCEPT !.status = "continued"]
    <3>1. CASE j \in 1..Len(rotations)
      <4>1. r \in RotationRecord /\ r.package = rotations[j].package /\ rotations' = [rotations EXCEPT ![j] = r]
        BY <1>1, <2>1, <3>1 DEF RotationRecord
      <4> HIDE DEF r
      <4>2. rotations' \in Seq(RotationRecord) /\ Len(rotations') = Len(rotations)
            /\ \A i \in 1..Len(rotations) : rotations'[i] = IF i = j THEN r ELSE rotations[i]
        BY <1>1, <3>1, <4>1, ExceptSeq
      <4> QED
        BY <1>2, <2>1, <4>1, <4>2
    <3>2. CASE j \notin 1..Len(rotations)
      <4>1. rotations' = rotations
        <5>1. DOMAIN rotations = 1..Len(rotations)
          BY <1>1, LenProperties
        <5>2. rotations = [i \in 1..Len(rotations) |-> rotations[i]]
          BY <1>1, <5>1
        <5> QED
          BY <2>1, <3>2, <5>1, <5>2
      <4> QED
        BY <1>1, <1>2, <2>1, <4>1
    <3> QED
      BY <3>1, <3>2
  <2>3. rotateCall'[c] = Rotation!Idle /\ Rotation!FreshIfUndisturbed'
    BY <2>1 DEF RotationInv, Rotation!FreshIfUndisturbed
  <2>4. FindingStands(c)'
    BY <1>4, <2>3 DEF FindingStands
  <2>5. RotationMoves
    BY <2>1, StayIsSound
  <2>6. status' \in DOMAIN Rotation!Moves /\ version' \in Nat /\ head' \in Nat
    BY <1>1, <2>1
  <2> QED
    BY <1>4, <2>1, <2>2, <2>3, <2>4, <2>5, <2>6, OneCallSteps
<1>24. ASSUME NEW c \in Rotators, Rotation!Crash(c) PROVE RotationInv'
  <2>1. UNCHANGED <<status, version, head, packages, rotations, spells, began>> /\ Rotation!Finish(c)
    BY <1>24 DEF Rotation!Crash, Rotation!rows
  <2> QED
    BY <1>1, <1>6, <2>1, StayIsSound
<1> QED
  BY <1>8, <1>9, <1>10, <1>11, <1>13, <1>14, <1>15, <1>16, <1>17, <1>18, <1>19, <1>20, <1>21, <1>22, <1>23, <1>24
  DEF Rotation!Next

\* A session that saw the order at rest and began its next spell began on the HEAD of its package,
\* however rotations, other sessions, owners and edits overlap (governor.py:continue_after_rotation).
THEOREM UndisturbedStartIsFresh == PlanningSpec => []FreshIfUndisturbed
<1>1. PlanningInit => RotationInv
  <2> SUFFICES ASSUME PlanningInit PROVE RotationInv
    OBVIOUS
  <2>1. Rotation!Init
    BY DEF PlanningInit
  <2>2. Rotation!Idle \in RotateCall /\ Rotation!Idle.pc = "idle"
    BY DEF Rotation!Idle, RotateCall, Rotation!Points
  <2>3. rotateCall \in [Rotators -> RotateCall] /\ \A c \in Rotators : FindingStands(c)
    BY <2>1, <2>2 DEF Rotation!Init, FindingStands
  <2>4. packages \in Seq(Handoff) /\ rotations \in Seq(RotationRecord) /\ Len(rotations) = 0
    BY <2>1 DEF Rotation!Init
  <2> QED
    BY <2>1, <2>3, <2>4 DEF Rotation!Init, RotationInv, Rotation!FreshIfUndisturbed, Rotation!Moves
<1>2. RotationInv /\ [PlanningNext]_planningVars => RotationInv'
  <2> SUFFICES ASSUME RotationInv, [PlanningNext]_planningVars PROVE RotationInv'
    OBVIOUS
  <2>1. Rotation!Next \/ UNCHANGED rotationVars
    BY DEF PlanningNext, planningVars
  <2>2. CASE UNCHANGED rotationVars
    BY <2>2 DEF rotationVars, RotationInv, FindingStands, Rotation!FreshIfUndisturbed
  <2> QED
    BY <2>1, <2>2, RotationInductive
<1>3. RotationInv => FreshIfUndisturbed
  BY DEF RotationInv, FreshIfUndisturbed
<1> QED
  BY <1>1, <1>2, <1>3, PTL DEF PlanningSpec

-----------------------------------------------------------------------------
(* WorkPlan: criteria live on in the orders derived *)

PlannedOrder ==
  [criteria : SUBSET Criteria, binding : Bindings, status : Plan!Statuses, from : SUBSET Nat]
PlanCall ==
  [pc : {"idle", "merge", "split", "cancel"}, of : SUBSET Nat, same : SUBSET Nat,
   groups : {<<>>} \cup [1..2 -> SUBSET Criteria]]

\* What a call has read and not yet written: its orders are there, the parts of a split make up
\* the order that it divides, and one that is to be cancelled has its children.
PlanStands(c) ==
  LET k == planCall[c] IN
  /\ k.pc # "idle" => k.of # {} /\ k.of \subseteq Plan!Ids
  /\ k.pc = "split" => \E o \in Plan!Ids : k.of = {o} /\ Plan!Divides(o, k.groups)
  /\ k.pc = "cancel" => k.of \subseteq split

\* Every criterion of o is one of an order derived from it.
LivesOn(o) ==
  \A k \in orders[o].criteria : \E d \in Plan!Ids : o \in orders[d].from /\ k \in orders[d].criteria

PlanInv ==
  /\ orders \in Seq(PlannedOrder)
  /\ planCall \in [Planners -> PlanCall]
  /\ archived \subseteq Plan!Ids /\ split \subseteq Plan!Ids
  /\ \A c \in Planners : PlanStands(c)
  /\ \A o \in archived \cup split : LivesOn(o)

\* Orders are only added, and none changes its criteria or its origin.
OrdersGrow ==
  /\ orders' \in Seq(PlannedOrder)
  /\ Len(orders) <= Len(orders')
  /\ \A o \in 1..Len(orders) : orders'[o].criteria = orders[o].criteria /\ orders'[o].from = orders[o].from

LEMMA PlanLengths ==
  ASSUME PlanInv
  PROVE  /\ Len(orders) \in Nat /\ DOMAIN orders = 1..Len(orders)
         /\ \A o \in 1..Len(orders) : orders[o] \in PlannedOrder
  BY LenProperties, ElementOfSeq DEF PlanInv

LEMMA StillLivesOn ==
  ASSUME PlanInv, OrdersGrow, NEW o \in 1..Len(orders), LivesOn(o) PROVE LivesOn(o)'
<1>1. Len(orders) \in Nat /\ Len(orders') \in Nat
  BY LenProperties DEF PlanInv, OrdersGrow
<1>2. \A d \in 1..Len(orders) : d \in 1..Len(orders')
  BY <1>1 DEF OrdersGrow
<1>3. ASSUME NEW k \in orders'[o].criteria
      PROVE  \E d \in 1..Len(orders') : o \in orders'[d].from /\ k \in orders'[d].criteria
  <2>1. PICK d \in 1..Len(orders) : o \in orders[d].from /\ k \in orders[d].criteria
    BY <1>3 DEF LivesOn, OrdersGrow, Plan!Ids
  <2> QED
    BY <1>2, <2>1 DEF OrdersGrow
<1> QED
  BY <1>3 DEF LivesOn, Plan!Ids

\* A call that keeps its orders, its parts and its point keeps what it has read.
LEMMA PlanStillStands ==
  ASSUME PlanInv, OrdersGrow, split \subseteq split', NEW c \in Planners,
         planCall'[c].pc = planCall[c].pc, planCall'[c].of = planCall[c].of, planCall'[c].groups = planCall[c].groups
  PROVE  PlanStands(c)'
<1>1. Len(orders) \in Nat /\ Len(orders') \in Nat /\ PlanStands(c)
  BY LenProperties DEF PlanInv, OrdersGrow
<1>2. \A d \in 1..Len(orders) : d \in 1..Len(orders')
  BY <1>1 DEF OrdersGrow
<1>3. ASSUME planCall[c].pc = "split"
      PROVE  \E o \in 1..Len(orders') : planCall[c].of = {o} /\ Plan!Divides(o, planCall[c].groups)'
  <2>1. PICK o \in 1..Len(orders) : planCall[c].of = {o} /\ Plan!Divides(o, planCall[c].groups)
    BY <1>1, <1>3 DEF PlanStands, Plan!Ids
  <2>2. orders'[o].criteria = orders[o].criteria
    BY DEF OrdersGrow
  <2>3. Plan!Divides(o, planCall[c].groups)'
    BY <2>1, <2>2 DEF Plan!Divides
  <2> QED
    BY <1>2, <2>1, <2>3
<1> QED
  BY <1>1, <1>2, <1>3 DEF PlanStands, Plan!Ids, Plan!Divides

\* One call acts; what the others have read moves at most from "the same" to "changed".
LEMMA PlanCallSteps ==
  ASSUME PlanInv, OrdersGrow, archived \subseteq archived', split \subseteq split',
         NEW c \in Planners, NEW k \in PlanCall, NEW os,
         planCall' = Plan!Touch([planCall EXCEPT ![c] = k], os),
         PlanStands(c)',
         archived' \subseteq 1..Len(orders'), split' \subseteq 1..Len(orders'),
         \A o \in archived' \cup split' : o \in archived \cup split \/ LivesOn(o)'
  PROVE  PlanInv'
<1>1. planCall \in [Planners -> PlanCall]
  BY DEF PlanInv
<1>2. ASSUME NEW d \in Planners PROVE planCall'[d] \in PlanCall
  BY <1>1 DEF Plan!Touch, PlanCall
<1>3. ASSUME NEW d \in Planners, d # c
      PROVE  planCall'[d].pc = planCall[d].pc /\ planCall'[d].of = planCall[d].of /\ planCall'[d].groups = planCall[d].groups
  BY <1>1, <1>3 DEF Plan!Touch, PlanCall
<1>4. \A d \in Planners : PlanStands(d)'
  BY <1>3, PlanStillStands
<1>5. planCall' \in [Planners -> PlanCall]
  BY <1>2 DEF Plan!Touch
<1>6. ASSUME NEW o \in archived \cup split PROVE LivesOn(o)'
  BY <1>6, StillLivesOn DEF PlanInv, Plan!Ids
<1> QED
  BY <1>4, <1>5, <1>6 DEF PlanInv, OrdersGrow, Plan!Ids

\* The UPDATE of one order's status.
LEMMA StatusMoves ==
  ASSUME PlanInv, NEW o \in 1..Len(orders), NEW s \in Plan!Statuses,
         orders' = [orders EXCEPT ![o].status = s]
  PROVE  OrdersGrow /\ Len(orders') = Len(orders)
<1> DEFINE moved == [orders[o] EXCEPT !.status = s]
<1>1. Len(orders) \in Nat /\ orders \in Seq(PlannedOrder) /\ \A p \in 1..Len(orders) : orders[p] \in PlannedOrder
  BY PlanLengths DEF PlanInv
<1>2. moved \in PlannedOrder /\ moved.criteria = orders[o].criteria /\ moved.from = orders[o].from
  BY <1>1 DEF PlannedOrder
<1>3. orders' = [orders EXCEPT ![o] = moved]
  OBVIOUS
<1> HIDE DEF moved
<1>4. orders' \in Seq(PlannedOrder) /\ Len(orders') = Len(orders)
      /\ \A p \in 1..Len(orders) : orders'[p] = IF p = o THEN moved ELSE orders[p]
  BY <1>1, <1>2, <1>3, ExceptSeq
<1>5. Len(orders) <= Len(orders')
  BY <1>1, <1>4
<1> QED
  BY <1>2, <1>4, <1>5 DEF OrdersGrow

LEMMA OrdersStay == ASSUME PlanInv, UNCHANGED orders PROVE OrdersGrow
<1>1. Len(orders) \in Nat /\ Len(orders') = Len(orders)
  BY PlanLengths
<1>2. Len(orders) <= Len(orders')
  BY <1>1
<1> QED
  BY <1>2 DEF OrdersGrow, PlanInv

\* The merge archives its sources and lives on with the criteria of all of them.
LEMMA MergeKeepsCriteria == ASSUME PlanInv, NEW c \in Planners, Plan!MergeCommit(c) PROVE PlanInv'
<1> DEFINE os == planCall[c].of
           kept == planCall[c].same
           len == Len(orders)
           row(o) == IF o \in kept THEN [orders[o] EXCEPT !.status = "cancelled"] ELSE orders[o]
           sources == [o \in 1..len |-> row(o)]
           merged == Plan!New(Plan!Merged(os), orders[CHOOSE o \in os : TRUE].binding, os)
<1>1. len \in Nat /\ DOMAIN orders = 1..len /\ \A o \in 1..len : orders[o] \in PlannedOrder
  BY PlanLengths
<1>2. os # {} /\ os \subseteq 1..len
  BY DEF PlanInv, PlanStands, Plan!MergeCommit, Plan!Ids
<1>3. \A o \in 1..len : row(o) \in PlannedOrder /\ row(o).criteria = orders[o].criteria /\ row(o).from = orders[o].from
  BY <1>1 DEF PlannedOrder, Plan!Statuses
<1>4. merged \in PlannedOrder /\ merged.from = os /\ \A o \in os : orders[o].criteria \subseteq merged.criteria
  <2>1. (CHOOSE o \in os : TRUE) \in 1..len
    BY <1>2
  <2>2. orders[CHOOSE o \in os : TRUE].binding \in Bindings
    BY <1>1, <2>1 DEF PlannedOrder
  <2>3. Plan!Merged(os) \subseteq Criteria /\ \A o \in os : orders[o].criteria \subseteq Plan!Merged(os)
    BY <1>1, <1>2 DEF Plan!Merged, Plan!Union, PlannedOrder
  <2>4. os \in SUBSET Nat
    BY <1>1, <1>2
  <2> QED
    BY <2>2, <2>3, <2>4 DEF Plan!New, PlannedOrder, Plan!Statuses
<1>5. orders' = Append(sources, merged) /\ archived' = archived \cup os /\ UNCHANGED split
  BY DEF Plan!MergeCommit, Plan!Ids
<1> HIDE DEF row, merged
<1>6. sources \in Seq(PlannedOrder) /\ Len(sources) = len
  BY <1>1, <1>3, IsASeq
<1>7. /\ orders' \in Seq(PlannedOrder) /\ Len(orders') = len + 1
      /\ orders'[len + 1] = merged
      /\ \A o \in 1..len : orders'[o] = row(o)
  BY <1>4, <1>5, <1>6, AppendProperties
<1>8. OrdersGrow
  <2>1. Len(orders) <= Len(orders')
    BY <1>1, <1>7
  <2> QED
    BY <1>3, <1>7, <2>1 DEF OrdersGrow
<1>9. ASSUME NEW o \in os PROVE LivesOn(o)'
  <2>1. len + 1 \in 1..Len(orders')
    BY <1>1, <1>7
  <2>2. o \in orders'[len + 1].from /\ orders'[o].criteria \subseteq orders'[len + 1].criteria
    BY <1>2, <1>3, <1>4, <1>7
  <2> QED
    BY <2>1, <2>2 DEF LivesOn, Plan!Ids
<1>10. 1..len \subseteq 1..Len(orders')
  BY <1>1, <1>7
<1>11. archived' \subseteq 1..Len(orders') /\ split' \subseteq 1..Len(orders')
  BY <1>2, <1>5, <1>10 DEF PlanInv, Plan!Ids
<1>12. planCall' = Plan!Touch([planCall EXCEPT ![c] = Plan!Idle], planCall[c].same) /\ Plan!Idle \in PlanCall
  BY DEF Plan!MergeCommit, Plan!Idle, PlanCall
<1>13. PlanStands(c)'
  <2>1. planCall'[c].pc = "idle"
    BY <1>12 DEF Plan!Touch, PlanInv, Plan!Idle
  <2> QED
    BY <2>1 DEF PlanStands
<1> QED
  BY <1>5, <1>8, <1>9, <1>11, <1>12, <1>13, PlanCallSteps

\* The split is recorded together with the two orders that divide its criteria.
LEMMA SplitKeepsCriteria == ASSUME PlanInv, NEW c \in Planners, Plan!SplitCommit(c) PROVE PlanInv'
<1> DEFINE len == Len(orders)
           groups == planCall[c].groups
<1>1. len \in Nat /\ DOMAIN orders = 1..len /\ \A o \in 1..len : orders[o] \in PlannedOrder
  BY PlanLengths
<1>2. PICK o \in 1..len : planCall[c].of = {o} /\ Plan!Divides(o, groups)
  BY DEF PlanInv, PlanStands, Plan!SplitCommit, Plan!Ids
<1> DEFINE part(i) == Plan!New(groups[i], orders[o].binding, {o})
           parts == [i \in 1..2 |-> part(i)]
<1>3. orders' = orders \o parts /\ split' = split \cup {o} /\ UNCHANGED archived
  BY <1>2 DEF Plan!SplitCommit
<1>4. groups[1] \cup groups[2] = orders[o].criteria
  BY <1>2 DEF Plan!Divides
<1>5. \A i \in 1..2 : part(i) \in PlannedOrder /\ part(i).from = {o} /\ part(i).criteria = groups[i]
  <2>1. groups[1] \subseteq Criteria /\ groups[2] \subseteq Criteria /\ orders[o].binding \in Bindings /\ o \in Nat
    BY <1>1, <1>4 DEF PlannedOrder
  <2>2. \A i \in 1..2 : groups[i] \subseteq Criteria
    BY <2>1
  <2> QED
    BY <2>1, <2>2 DEF Plan!New, PlannedOrder, Plan!Statuses
<1> HIDE DEF part
<1>6. parts \in Seq(PlannedOrder) /\ Len(parts) = 2
  BY <1>5, IsASeq
<1>7. /\ orders' \in Seq(PlannedOrder) /\ Len(orders') = len + 2
      /\ \A i \in 1..(len + 2) : orders'[i] = IF i <= len THEN orders[i] ELSE parts[i - len]
  <2>1. orders \in Seq(PlannedOrder)
    BY DEF PlanInv
  <2> HIDE DEF parts
  <2>2. orders \o parts \in Seq(PlannedOrder) /\ Len(orders \o parts) = len + Len(parts)
        /\ \A i \in 1..(len + Len(parts)) :
             (orders \o parts)[i] = IF i <= len THEN orders[i] ELSE parts[i - len]
    BY <1>6, <2>1, ConcatProperties
  <2> QED
    BY <1>3, <1>6, <2>2
<1>8. OrdersGrow
  <2>1. Len(orders) <= Len(orders')
    BY <1>1, <1>7
  <2>2. \A i \in 1..len : i \in 1..(len + 2) /\ i <= len
    BY <1>1
  <2>3. \A i \in 1..len : orders'[i] = orders[i]
    BY <1>7, <2>2
  <2> QED
    BY <1>7, <2>1, <2>3 DEF OrdersGrow
<1>9. LivesOn(o)'
  <2>1. len + 1 \in 1..Len(orders') /\ len + 2 \in 1..Len(orders') /\ orders'[len + 1] = part(1) /\ orders'[len + 2] = part(2)
    <3>1. len + 1 \in 1..(len + 2) /\ ~(len + 1 <= len) /\ (len + 1) - len = 1
      BY <1>1
    <3>2. len + 2 \in 1..(len + 2) /\ ~(len + 2 <= len) /\ (len + 2) - len = 2
      BY <1>1
    <3>3. parts[1] = part(1) /\ parts[2] = part(2)
      OBVIOUS
    <3> HIDE DEF parts
    <3> QED
      BY <1>7, <3>1, <3>2, <3>3
  <2>2. orders'[o].criteria = groups[1] \cup groups[2]
    BY <1>4, <1>8 DEF OrdersGrow
  <2>3. part(1).from = {o} /\ part(2).from = {o} /\ part(1).criteria = groups[1] /\ part(2).criteria = groups[2]
    BY <1>5
  <2> QED
    BY <2>1, <2>2, <2>3 DEF LivesOn, Plan!Ids
<1>10. 1..len \subseteq 1..Len(orders')
  BY <1>1, <1>7
<1>11. archived' \subseteq 1..Len(orders') /\ split' \subseteq 1..Len(orders')
  BY <1>3, <1>10 DEF PlanInv, Plan!Ids
<1> DEFINE k == [planCall[c] EXCEPT !.pc = "cancel"]
<1>12. /\ k \in PlanCall /\ k.pc = "cancel" /\ k.of = {o}
       /\ planCall' = [planCall EXCEPT ![c] = k]
  BY <1>2 DEF PlanInv, PlanCall, Plan!SplitCommit
<1> HIDE DEF k
<1>13. planCall' \in [Planners -> PlanCall] /\ planCall'[c] = k
  BY <1>12 DEF PlanInv
<1>14. PlanStands(c)'
  BY <1>3, <1>10, <1>12, <1>13 DEF PlanStands, Plan!Ids
<1>15. ASSUME NEW d \in Planners, d # c PROVE PlanStands(d)'
  BY <1>3, <1>8, <1>12, <1>15, PlanStillStands DEF PlanInv
<1>16. ASSUME NEW p \in archived \cup split PROVE LivesOn(p)'
  BY <1>8, <1>16, StillLivesOn DEF PlanInv, Plan!Ids
<1> QED
  BY <1>3, <1>7, <1>9, <1>11, <1>13, <1>14, <1>15, <1>16 DEF PlanInv, Plan!Ids

LEMMA CancelKeepsCriteria == ASSUME PlanInv, NEW c \in Planners, Plan!SplitCancel(c) PROVE PlanInv'
<1> DEFINE os == planCall[c].of
<1>1. os \subseteq split /\ split \subseteq 1..Len(orders) /\ archived \subseteq 1..Len(orders)
  BY DEF PlanInv, PlanStands, Plan!SplitCancel, Plan!Ids
<1>2. PICK o \in os :
        IF "cancelled" \in Plan!Next_[orders[o].status]
        THEN orders' = [orders EXCEPT ![o].status = "cancelled"] /\ archived' = archived \cup {o}
        ELSE UNCHANGED <<orders, archived>>
  BY DEF Plan!SplitCancel
<1>3. /\ OrdersGrow /\ Len(orders') = Len(orders)
      /\ archived \subseteq archived' /\ archived' \subseteq archived \cup split
  <2>1. "cancelled" \in Plan!Statuses /\ o \in 1..Len(orders)
    BY <1>1 DEF Plan!Statuses
  <2>2. CASE "cancelled" \in Plan!Next_[orders[o].status]
    <3>1. orders' = [orders EXCEPT ![o].status = "cancelled"] /\ archived' = archived \cup {o}
      BY <1>2, <2>2
    <3>2. OrdersGrow /\ Len(orders') = Len(orders)
      BY <2>1, <3>1, StatusMoves
    <3> QED
      BY <1>1, <3>1, <3>2
  <2>3. CASE ~("cancelled" \in Plan!Next_[orders[o].status])
    <3>1. UNCHANGED <<orders, archived>>
      BY <1>2, <2>3
    <3> QED
      BY <3>1, OrdersStay
  <2> QED
    BY <2>2, <2>3
<1>4. planCall' = Plan!Touch([planCall EXCEPT ![c] = Plan!Idle], os) /\ Plan!Idle \in PlanCall /\ split' = split
  BY DEF Plan!SplitCancel, Plan!Idle, PlanCall
<1>5. PlanStands(c)'
  <2>1. planCall'[c].pc = "idle"
    BY <1>4 DEF Plan!Touch, PlanInv, Plan!Idle
  <2> QED
    BY <2>1 DEF PlanStands
<1> HIDE DEF os
<1> QED
  BY <1>1, <1>3, <1>4, <1>5, PlanCallSteps

LEMMA PlanInductive == ASSUME PlanInv, Plan!Next PROVE PlanInv'
<1>1. /\ Len(orders) \in Nat /\ orders \in Seq(PlannedOrder)
      /\ \A o \in 1..Len(orders) : orders[o] \in PlannedOrder
      /\ planCall \in [Planners -> PlanCall]
  BY PlanLengths DEF PlanInv
\* A step that changes no order's criteria and records nothing.
<1>2. ASSUME OrdersGrow, UNCHANGED <<archived, split>>, planCall' \in [Planners -> PlanCall],
             \A c \in Planners : PlanStands(c)'
      PROVE  PlanInv'
  <2>1. Len(orders') \in Nat
    BY <1>2, LenProperties DEF OrdersGrow
  <2>2. 1..Len(orders) \subseteq 1..Len(orders')
    BY <1>1, <1>2, <2>1 DEF OrdersGrow
  <2>3. ASSUME NEW o \in archived \cup split PROVE LivesOn(o)'
    BY <1>2, <2>3, StillLivesOn DEF PlanInv, Plan!Ids
  <2>4. archived' \subseteq 1..Len(orders') /\ split' \subseteq 1..Len(orders')
    BY <1>2, <2>2 DEF PlanInv, Plan!Ids
  <2> QED
    BY <1>2, <2>3, <2>4 DEF PlanInv, OrdersGrow, Plan!Ids
<1>3. ASSUME OrdersGrow, UNCHANGED <<archived, split, planCall>> PROVE PlanInv'
  <2>1. \A c \in Planners : PlanStands(c)'
    BY <1>3, PlanStillStands
  <2> QED
    BY <1>1, <1>2, <1>3, <2>1
\* A call that reads or ends.
<1>4. ASSUME UNCHANGED <<orders, archived, split>>, NEW c \in Planners, NEW k \in PlanCall,
             planCall' = [planCall EXCEPT ![c] = k], PlanStands(c)'
      PROVE  PlanInv'
  <2>1. OrdersGrow
    BY <1>4, OrdersStay
  <2>2. ASSUME NEW d \in Planners, d # c PROVE PlanStands(d)'
    BY <1>1, <1>4, <2>1, <2>2, PlanStillStands
  <2>3. \A d \in Planners : PlanStands(d)'
    BY <1>4, <2>2
  <2> QED
    BY <1>1, <1>2, <1>4, <2>1, <2>3
<1>5. CASE Plan!Approve \/ Plan!Decide \/ Plan!CreateSpec \/ Plan!SaveCheckpoint
  BY <1>3, <1>5, OrdersStay
  DEF Plan!Approve, Plan!Decide, Plan!CreateSpec, Plan!SaveCheckpoint, Plan!rows
<1>6. CASE Plan!CreateOrder
  <2>1. PICK wanted \in SUBSET Criteria, b \in Bindings : orders' = Append(orders, Plan!New(wanted, b, {}))
    BY <1>6 DEF Plan!CreateOrder
  <2> DEFINE o == Plan!New(wanted, b, {})
  <2>2. o \in PlannedOrder
    BY DEF Plan!New, PlannedOrder, Plan!Statuses
  <2> HIDE DEF o
  <2>3. orders' \in Seq(PlannedOrder) /\ Len(orders') = Len(orders) + 1
        /\ \A p \in 1..Len(orders) : orders'[p] = orders[p]
    BY <1>1, <2>1, <2>2, AppendProperties DEF o
  <2>4. Len(orders) <= Len(orders')
    BY <1>1, <2>3
  <2> QED
    BY <1>3, <1>6, <2>3, <2>4 DEF OrdersGrow, Plan!CreateOrder
<1>7. CASE Plan!Move
  <2>0. PICK o \in Plan!Ids : \E to \in Plan!Next_[orders[o].status] :
          orders' = [orders EXCEPT ![o].status = to] /\ planCall' = Plan!Touch(planCall, {o})
    BY <1>7 DEF Plan!Move
  <2>1. PICK to \in Plan!Next_[orders[o].status] :
          orders' = [orders EXCEPT ![o].status = to] /\ planCall' = Plan!Touch(planCall, {o})
    BY <2>0
  <2>2. o \in 1..Len(orders) /\ to \in Plan!Statuses
    BY <1>1 DEF Plan!Ids, PlannedOrder, Plan!Statuses, Plan!Next_
  <2>3. OrdersGrow
    BY <2>1, <2>2, StatusMoves
  <2>4. ASSUME NEW c \in Planners
        PROVE  /\ planCall'[c] \in PlanCall /\ planCall'[c].pc = planCall[c].pc
               /\ planCall'[c].of = planCall[c].of /\ planCall'[c].groups = planCall[c].groups
    BY <1>1, <2>1 DEF Plan!Touch, PlanCall
  <2>5. planCall' \in [Planners -> PlanCall]
    BY <2>1, <2>4 DEF Plan!Touch
  <2>6. UNCHANGED <<archived, split>>
    BY <1>7 DEF Plan!Move
  <2>7. \A c \in Planners : PlanStands(c)'
    BY <2>3, <2>4, <2>6, PlanStillStands
  <2> QED
    BY <1>2, <2>3, <2>5, <2>6, <2>7
<1>8. ASSUME NEW c \in Planners, NEW os \in SUBSET Plan!Ids, Plan!MergeRead(c, os) PROVE PlanInv'
  <2> DEFINE k == [Plan!Idle EXCEPT !.pc = "merge", !.of = os, !.same = os]
  <2>1. os # {} /\ os \subseteq Nat
    <3>1. Cardinality(os) >= 2
      BY <1>8 DEF Plan!MergeRead, Plan!Compatible, Plan!Cardinality, Cardinality
    <3>2. Cardinality({}) = 0
      BY FS_EmptySet
    <3>3. ~(0 >= 2)
      OBVIOUS
    <3>4. os # {}
      BY <3>1, <3>2, <3>3
    <3> QED
      BY <1>1, <3>4 DEF Plan!Ids
  <2>2. k \in PlanCall /\ k.pc = "merge" /\ k.of = os
    BY <2>1 DEF Plan!Idle, PlanCall
  <2>3. planCall' = [planCall EXCEPT ![c] = k] /\ UNCHANGED <<orders, archived, split>>
    BY <1>8 DEF Plan!MergeRead, Plan!rows
  <2> HIDE DEF k
  <2>4. planCall'[c] = k
    BY <1>1, <2>3
  <2>5. PlanStands(c)'
    BY <2>1, <2>2, <2>3, <2>4 DEF PlanStands, Plan!Ids
  <2> QED
    BY <1>4, <2>2, <2>3, <2>5
<1>9. ASSUME NEW c \in Planners, NEW o \in Plan!Ids, Plan!SplitRead(c, o) PROVE PlanInv'
  <2>1. PICK g \in [1..2 -> SUBSET Criteria] :
          /\ Plan!Divides(o, g)
          /\ planCall' = [planCall EXCEPT ![c] = [Plan!Idle EXCEPT !.pc = "split", !.of = {o}, !.groups = g]]
    BY <1>9 DEF Plan!SplitRead
  <2> DEFINE k == [Plan!Idle EXCEPT !.pc = "split", !.of = {o}, !.groups = g]
  <2>2. o \in Nat
    BY <1>1 DEF Plan!Ids
  <2>3. k \in PlanCall /\ k.pc = "split" /\ k.of = {o} /\ k.groups = g
    BY <2>2 DEF Plan!Idle, PlanCall
  <2>4. planCall' = [planCall EXCEPT ![c] = k] /\ UNCHANGED <<orders, archived, split>>
    BY <1>9, <2>1 DEF Plan!SplitRead, Plan!rows
  <2> HIDE DEF k
  <2>5. planCall'[c] = k
    BY <1>1, <2>4
  <2>6. PlanStands(c)'
    BY <2>1, <2>3, <2>4, <2>5 DEF PlanStands, Plan!Ids, Plan!Divides
  <2> QED
    BY <1>4, <2>3, <2>4, <2>6
<1>10. ASSUME NEW c \in Planners, Plan!Crash(c) PROVE PlanInv'
  <2>1. /\ planCall' = [planCall EXCEPT ![c] = Plan!Idle] /\ UNCHANGED <<orders, archived, split>>
        /\ Plan!Idle \in PlanCall /\ Plan!Idle.pc = "idle"
    BY <1>10 DEF Plan!Crash, Plan!Finish, Plan!rows, Plan!Idle, PlanCall
  <2>2. planCall'[c].pc = "idle"
    BY <1>1, <2>1
  <2>3. PlanStands(c)'
    BY <2>2 DEF PlanStands
  <2> QED
    BY <1>4, <2>1, <2>3
<1> QED
  BY <1>5, <1>6, <1>7, <1>8, <1>9, <1>10, MergeKeepsCriteria, SplitKeepsCriteria, CancelKeepsCriteria DEF Plan!Next

LEMMA PlanHolds == PlanningSpec => []PlanInv
<1>1. PlanningInit => PlanInv
  <2> SUFFICES ASSUME PlanningInit PROVE PlanInv
    OBVIOUS
  <2>1. /\ orders = << >> /\ archived = {} /\ split = {}
        /\ planCall = [c \in Planners |-> Plan!Idle]
    BY DEF PlanningInit, Plan!Init
  <2>2. Plan!Idle \in PlanCall /\ Plan!Idle.pc = "idle"
    BY DEF Plan!Idle, PlanCall
  <2>3. \A c \in Planners : PlanStands(c)
    BY <2>1, <2>2 DEF PlanStands
  <2>4. orders \in Seq(PlannedOrder)
    BY <2>1
  <2> QED
    BY <2>1, <2>2, <2>3, <2>4 DEF PlanInv
<1>2. PlanInv /\ [PlanningNext]_planningVars => PlanInv'
  <2> SUFFICES ASSUME PlanInv, [PlanningNext]_planningVars PROVE PlanInv'
    OBVIOUS
  <2>1. Plan!Next \/ UNCHANGED planVars
    BY DEF PlanningNext, planningVars
  <2>2. CASE UNCHANGED planVars
    BY <2>2 DEF planVars, PlanInv, PlanStands, LivesOn, Plan!Ids, Plan!Divides
  <2> QED
    BY <2>1, <2>2, PlanInductive
<1> QED
  BY <1>1, <1>2, PTL DEF PlanningSpec

\* No merge and no split loses an acceptance criterion, however calls overlap or break off between
\* the transaction of the children and that of the parent (optimizer.py:merge, split).
THEOREM CriteriaLiveOn == PlanningSpec => []NoCriterionLost
<1>1. PlanInv => NoCriterionLost
  <2> SUFFICES ASSUME PlanInv, NEW o \in archived \cup split, NEW k \in orders[o].criteria
               PROVE  k \in Plan!Union({d \in Plan!Ids : o \in orders[d].from})
    BY DEF NoCriterionLost, Plan!NoCriterionLost
  <2>1. LivesOn(o)
    BY DEF PlanInv
  <2> QED
    BY <2>1 DEF LivesOn, Plan!Union
<1> QED
  BY <1>1, PlanHolds, PTL

-----------------------------------------------------------------------------
(* Reviews: what ReviewsProofs proves of them alone holds here *)

ReviewFacts == INSTANCE ReviewsProofs WITH
  Calls <- Reviewers, MaxPackages <- MaxReviewed, head <- actual, packages <- reviewed, call <- reviewCall

\* An instance of the proofs speaks of the same actions as the instance that is checked.
LEMMA SameReviews ==
  /\ Review!Init <=> ReviewFacts!Init
  /\ Review!Next <=> ReviewFacts!Next
  /\ Review!GateSeesReviewedBytes <=> ReviewFacts!GateSeesReviewedBytes
<1>1. Review!Init <=> ReviewFacts!Init
  BY DEF Review!Init, ReviewFacts!Init, Review!Idle, ReviewFacts!Idle, Review!Heads, ReviewFacts!Heads
<1>2. Review!Next <=> ReviewFacts!Next
  BY DEF Review!Next, ReviewFacts!Next,
       Review!Commit, ReviewFacts!Commit, Review!Edit, ReviewFacts!Edit, Review!register_merge_evidence,
       ReviewFacts!register_merge_evidence, Review!build_review_package,
       ReviewFacts!build_review_package, Review!Collect, ReviewFacts!Collect, Review!CollectForReview,
       ReviewFacts!CollectForReview, Review!CollectForGate, ReviewFacts!CollectForGate, Review!Facts,
       ReviewFacts!Facts, Review!Registered, ReviewFacts!Registered, Review!Registers,
       ReviewFacts!Registers, Review!Review, ReviewFacts!Review, Review!Validated,
       ReviewFacts!Validated, Review!Refusal, ReviewFacts!Refusal, Review!Present, ReviewFacts!Present,
       Review!run_firewall, ReviewFacts!run_firewall, Review!GATES, ReviewFacts!GATES,
       Review!compute_verdict, ReviewFacts!compute_verdict, Review!Major, ReviewFacts!Major,
       Review!HardBlock, ReviewFacts!HardBlock, Review!OwnerBlock, ReviewFacts!OwnerBlock,
       Review!EvaluateFixLoop, ReviewFacts!EvaluateFixLoop, Review!Waive, ReviewFacts!Waive,
       Review!NonWaivable, ReviewFacts!NonWaivable, Review!Authorize, ReviewFacts!Authorize,
       Review!Finish, ReviewFacts!Finish, Review!Idle, ReviewFacts!Idle, Review!Heads,
       ReviewFacts!Heads, Review!verdicts, ReviewFacts!verdicts
<1>3. Review!GateSeesReviewedBytes <=> ReviewFacts!GateSeesReviewedBytes
  BY DEF Review!GateSeesReviewedBytes, ReviewFacts!GateSeesReviewedBytes
<1> QED
  BY <1>1, <1>2, <1>3

\* The merge gate and every passing review of a package read the same registered bytes
\* (merge_gate.py:_authoritative_rp_facts, reviewpkg.py:resolve_review_facts).
THEOREM ReviewedBytesAreMerged ==
  ASSUME MaxHead \in Nat
  PROVE  PlanningSpec => []GateSeesReviewedBytes
<1>1. PlanningInit => ReviewFacts!Init
  BY SameReviews DEF PlanningInit
<1>2. [PlanningNext]_planningVars => [ReviewFacts!Next]_(ReviewFacts!vars)
  BY SameReviews DEF PlanningNext, planningVars, reviewVars, ReviewFacts!vars, ReviewFacts!verdicts
<1>3. ReviewFacts!Spec => []ReviewFacts!GateSeesReviewedBytes
  BY ReviewFacts!GateReadsWhatWasReviewed
<1>4. ReviewFacts!GateSeesReviewedBytes <=> GateSeesReviewedBytes
  BY SameReviews DEF GateSeesReviewedBytes
<1> QED
  BY <1>1, <1>2, <1>3, <1>4, PTL DEF PlanningSpec, ReviewFacts!Spec
=============================================================================
