------------------------------ MODULE WorkPlan ------------------------------
(***************************************************************************)
(* VP Specs, the Work Orders made from them, and how the optimizer merges  *)
(* and splits those (workorders.py create_vp_spec and create_work_order,   *)
(* optimizer.py).                                                          *)
(*                                                                         *)
(* An order is abstracted to its acceptance criteria, its status and the   *)
(* orders it was derived from.  A version only serves to find out that a   *)
(* row has moved since it was read: a call keeps the set of orders that    *)
(* have not.  A SELECT opens no transaction in SQLite, so a merge and a    *)
(* split read in one step and write in another; of creation, where only an *)
(* approval could come between, the two are one step.                      *)
(***************************************************************************)
EXTENDS Naturals, Sequences, FiniteSets

CONSTANTS
  Criteria,     \* acceptance criteria of the approved Brief
  Bindings,     \* roles, capabilities, constraints: orders merge only when equal
  Calls,        \* overlapping requests
  MaxCriteria,  \* _MAX_MERGED_CRITERIA
  MaxSaved,     \* bound: orders with a checkpoint row
  MaxOrders,    \* bound: Work Orders
  MaxApprovals, \* bound: approvals of a Brief
  MayCrash      \* calls may die with their process

VARIABLES
  approval,   \* the current approval
  drifted,    \* decisions changed since that approval
  specs,      \* VP Specs of one vp_key by version: the approval of each
  saved,      \* orders that have a checkpoint row
  orders,     \* Work Orders in the order made
  archived,   \* orders whose history says that the optimizer archived them
  split,      \* orders whose split is recorded as a decision
  call

rows == <<orders, archived, split>>
vars == <<approval, drifted, specs, saved, orders, archived, split, call>>

Statuses == {"draft", "ready", "active", "checkpointed", "completed", "cancelled"}
Next_ ==
  [ draft        |-> {"ready", "cancelled"},
    ready        |-> {"active", "cancelled"},
    active       |-> {"checkpointed", "completed", "cancelled"},
    checkpointed |-> {"active", "completed", "cancelled"},
    completed    |-> {},
    cancelled    |-> {} ]
Order == [criteria : SUBSET Criteria, binding : Bindings, status : Statuses,
          from : SUBSET (1..MaxOrders)]
Ids == 1..Len(orders)
Idle == [pc |-> "idle", of |-> {}, same |-> {}, groups |-> <<>>]

TypeOK ==
  /\ approval \in 0..MaxApprovals /\ drifted \in BOOLEAN
  /\ specs \in Seq(0..MaxApprovals)
  /\ orders \in Seq(Order)
  /\ saved \subseteq Ids /\ archived \subseteq Ids /\ split \subseteq Ids
  /\ \A c \in Calls : call[c].pc \in {"idle", "merge", "split", "cancel"}

Init ==
  /\ approval = 0 /\ drifted = FALSE
  /\ specs = <<>> /\ orders = <<>>
  /\ saved = {} /\ archived = {} /\ split = {}
  /\ call = [c \in Calls |-> Idle]

Finish(c) == call' = [call EXCEPT ![c] = Idle]

-----------------------------------------------------------------------------
\* The Product Map: an owner approves a Brief, or decides something anew.
Approve ==
  /\ approval < MaxApprovals /\ approval' = approval + 1 /\ drifted' = FALSE
  /\ UNCHANGED <<specs, saved, rows, call>>

Decide ==
  /\ approval > 0 /\ ~drifted /\ drifted' = TRUE
  /\ UNCHANGED <<approval, specs, saved, rows, call>>

\* create_vp_spec: OWNER_REQUIRED without an approval, SOURCE_STALE when its source drifted.
CreateSpec ==
  /\ approval > 0 /\ ~drifted /\ Len(specs) < MaxApprovals
  /\ specs' = Append(specs, approval)
  /\ UNCHANGED <<approval, drifted, saved, rows, call>>

New(criteria, binding, from) ==
  [criteria |-> criteria, binding |-> binding, status |-> "draft", from |-> from]

\* create_work_order: the latest spec, still of the current approval, and some of its criteria.
CreateOrder ==
  /\ specs # <<>> /\ specs[Len(specs)] = approval /\ ~drifted /\ Len(orders) < MaxOrders
  /\ \E wanted \in (SUBSET Criteria) \ {{}}, b \in Bindings : orders' = Append(orders, New(wanted, b, {}))
  /\ UNCHANGED <<approval, drifted, specs, saved, archived, split, call>>

\* Rows written by one call have moved for all others.
Touch(calls, os) == [d \in Calls |-> [calls[d] EXCEPT !.same = @ \ os]]

\* transition, by sessions and the owner: one versioned UPDATE (WorkOrders has its leases).
Move ==
  /\ \E o \in Ids : \E to \in Next_[orders[o].status] :
       orders' = [orders EXCEPT ![o].status = to] /\ call' = Touch(call, {o})
  /\ UNCHANGED <<approval, drifted, specs, saved, archived, split>>

\* build_checkpoint, which asks nothing of the order's status.
SaveCheckpoint ==
  /\ Cardinality(saved) < MaxSaved
  /\ \E o \in Ids \ saved : saved' = saved \cup {o}
  /\ UNCHANGED <<approval, drifted, specs, rows, call>>

-----------------------------------------------------------------------------
\* Merge.
Union(os) == UNION {orders[o].criteria : o \in os}

Compatible(os) ==
  /\ Cardinality(os) >= 2
  /\ \A o, p \in os : orders[o].binding = orders[p].binding
  /\ Cardinality(Union(os)) <= MaxCriteria
  /\ \A o \in os : orders[o].status \in {"draft", "ready"}

MergeRead(c, os) ==
  /\ call[c].pc = "idle" /\ Compatible(os)
  /\ call' = [call EXCEPT ![c] =
       [Idle EXCEPT !.pc = "merge", !.of = os, !.same = os]]
  /\ UNCHANGED <<approval, drifted, specs, saved, rows>>

\* The mutant: criteria that several sources share are dropped with their duplicates.
MergedOnce(os) == {k \in Union(os) : Cardinality({o \in os : k \in orders[o].criteria}) = 1}

Merged(os) == Union(os)

\* One transaction; a source that moved meanwhile is not updated and still logged as archived.
MergeCommit(c) ==
  LET os == call[c].of IN
  /\ call[c].pc = "merge" /\ Len(orders) < MaxOrders
  /\ orders' = Append([o \in Ids |->
         IF o \in call[c].same THEN [orders[o] EXCEPT !.status = "cancelled"] ELSE orders[o]],
       New(Merged(os), orders[CHOOSE o \in os : TRUE].binding, os))
  /\ archived' = archived \cup os
  /\ call' = Touch([call EXCEPT ![c] = Idle], call[c].same)
  /\ UNCHANGED <<approval, drifted, specs, saved, split>>

-----------------------------------------------------------------------------
\* Split.

Divides(o, g) == g[1] # {} /\ g[2] # {} /\ g[1] \cup g[2] = orders[o].criteria

SplitRead(c, o) ==
  /\ call[c].pc = "idle" /\ orders[o].status = "checkpointed" /\ o \in saved
  /\ \E g \in [1..2 -> SUBSET Criteria] :
       /\ Divides(o, g)
       /\ call' = [call EXCEPT ![c] = [Idle EXCEPT !.pc = "split", !.of = {o}, !.groups = g]]
  /\ UNCHANGED <<approval, drifted, specs, saved, rows>>

\* Children and decision are committed before the parent is touched.
SplitCommit(c) ==
  /\ call[c].pc = "split" /\ Len(orders) + 2 <= MaxOrders
  /\ \E o \in call[c].of :
       orders' = orders \o [i \in 1..2 |-> New(call[c].groups[i], orders[o].binding, {o})]
  /\ split' = split \cup call[c].of
  /\ call' = [call EXCEPT ![c].pc = "cancel"]
  /\ UNCHANGED <<approval, drifted, specs, saved, archived>>

SplitCancel(c) ==
  /\ call[c].pc = "cancel"
  /\ \E o \in call[c].of :
       IF "cancelled" \in Next_[orders[o].status]
       THEN orders' = [orders EXCEPT ![o].status = "cancelled"] /\ archived' = archived \cup {o}
       ELSE UNCHANGED <<orders, archived>>
  /\ call' = Touch([call EXCEPT ![c] = Idle], call[c].of)
  /\ UNCHANGED <<approval, drifted, specs, saved, split>>

Crash(c) ==
  /\ MayCrash /\ call[c].pc # "idle" /\ Finish(c)
  /\ UNCHANGED <<approval, drifted, specs, saved, rows>>

Next ==
  \/ Approve \/ Decide \/ CreateSpec \/ CreateOrder \/ Move \/ SaveCheckpoint
  \/ \E c \in Calls :
       \/ \E os \in SUBSET Ids : MergeRead(c, os)
       \/ MergeCommit(c)
       \/ \E o \in Ids : SplitRead(c, o)
       \/ SplitCommit(c) \/ SplitCancel(c) \/ Crash(c)

Spec == Init /\ [][Next]_vars

-----------------------------------------------------------------------------
(* No merge or split loses a criterion, however calls overlap or break     *)
(* off: an order archived by the optimizer lives on in the orders derived  *)
(* from it.                                                                *)
NoCriterionLost ==
  \A o \in archived \cup split :
    orders[o].criteria \subseteq Union({d \in Ids : o \in orders[d].from})
=============================================================================
