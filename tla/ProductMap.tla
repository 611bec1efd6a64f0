----------------------------- MODULE ProductMap -----------------------------
(* Brief, decisions, Project Map, approval and active VP of one connected
   Project (productmap.py).  Every operation of the service reads its rows in
   a call of its own and writes them in one transaction that SQLite opens at the
   first write: `Begin` is the reads and the refusals they cause, `Commit` the
   transaction.  A refused call changes nothing and is not a step.            *)
EXTENDS Naturals, Sequences

CONSTANTS
  Clients,     \* concurrent callers of the API
  Keys,        \* Idempotency-Key values
  NoKey,       \* a call without one; not one of the Keys
  Required, Optional,  \* decisions an intake proposes
  Contents,    \* of a Brief: [scope, verified], has its envelope a scope, has it a VERIFIED fact
  MaxVersion,  \* bound: versions of the Brief, the Map and a decision, approvals
  MaxActive    \* bound: activations of a VP

VARIABLES
  briefs,      \* versions of the Brief, oldest first
  maps,        \* status of the versions of the Map, oldest first
  decisions,   \* status of the decisions; none before the intake
  edits,       \* version column of the decisions
  approvals,   \* Approval records in the order of their transactions
  activations, \* activate_vp rows inserted
  open,        \* those whose active_slot is 'ACTIVE'
  used,        \* idempotency_keys
  fresh,       \* the hash a VERIFIED fact names is the one of its Git baseline
  call         \* what a caller has read and not yet written

productVars == <<briefs, maps, decisions, edits, approvals, activations, open, used, fresh, call>>

Proposed == Required \cup Optional
NoCall == [key |-> NoKey, request |-> [op |-> "none"]]

Latest == Len(briefs)
LatestMap == Len(maps)
Unresolved == {d \in Required \cap DOMAIN decisions : decisions[d] = "proposed"}

Init ==
  /\ briefs = <<>> /\ maps = <<>> /\ decisions = <<>> /\ edits = <<>>
  /\ approvals = <<>> /\ activations = 0 /\ open = {} /\ used = {} /\ fresh = TRUE
  /\ call = [c \in Clients |-> NoCall]

-----------------------------------------------------------------------------
(* A repeated key is answered from its row, whatever operation stored it.     *)
Begin(c, k, request) ==
  /\ call[c] = NoCall
  /\ k \notin used
  /\ call' = [call EXCEPT ![c] = [key |-> k, request |-> request]]
  /\ UNCHANGED <<briefs, maps, decisions, edits, approvals, activations, open, used, fresh>>

BeginIntake(c, k) ==
  \E content \in Contents :
    /\ content.verified => fresh
    /\ Begin(c, k, [op |-> "intake", content |-> content])

BeginRevise(c, k) ==
  /\ Latest \in 1..(MaxVersion - 1)
  /\ \E content \in Contents :
       /\ content.verified => fresh
       /\ Begin(c, k, [op |-> "revise", brief |-> Latest, status |-> briefs[Latest].status,
                       content |-> content])

BeginDecide(c, k) ==
  \E d \in DOMAIN decisions, to \in {"accepted", "rejected"} :
    /\ edits[d] < MaxVersion
    /\ Begin(c, k, [op |-> "decide", decision |-> d, version |-> edits[d], to |-> to])

(* The Brief must be the latest, its scope not empty, its VERIFIED facts still
   proved, every required decision taken; the Map may be any of the Project.  *)
BeginApprove(c, k) ==
  /\ Latest > 0 /\ Len(approvals) < MaxVersion
  /\ Unresolved = {}
  /\ briefs[Latest].scope
  /\ briefs[Latest].verified => fresh
  /\ \E m \in DOMAIN maps :
       Begin(c, k, [op |-> "approve", brief |-> Latest, status |-> briefs[Latest].status,
                    map |-> m, decisions |-> decisions])

BeginMap(c, k) ==
  /\ LatestMap < MaxVersion  \* its nodes and edges are valid: MapGraph
  /\ Begin(c, k, [op |-> "map", map |-> LatestMap])

BeginActivate(c, k) == activations < MaxActive /\ Begin(c, k, [op |-> "activate"])

BeginDeactivate(c) == \E a \in open : Begin(c, NoKey, [op |-> "deactivate", row |-> a])

-----------------------------------------------------------------------------
(* Transactions.  `WithStatus` is an UPDATE of one row.                       *)
WithStatus(rows, versions, status) ==
  [v \in DOMAIN rows |-> IF v \in versions THEN [rows[v] EXCEPT !.status = status] ELSE rows[v]]

Draft(content, parent) ==
  [scope |-> content.scope, verified |-> content.verified, status |-> "draft", parent |-> parent]

Store(k) == used' = IF k = NoKey THEN used ELSE used \cup {k}

(* Version 1 of the Brief and of the Map: UNIQUE(project_id, version) refuses a second intake. *)
SubmitIntake(r) ==
  /\ briefs = <<>> /\ maps = <<>>
  /\ briefs' = <<Draft(r.content, 0)>>
  /\ maps' = <<[status |-> "draft"]>>
  /\ decisions' = [d \in Proposed |-> "proposed"]
  /\ edits' = [d \in Proposed |-> 1]
  /\ UNCHANGED <<approvals, activations, open>>

ReviseBrief(r) ==
  /\ Latest = r.brief
  /\ briefs' = Append(WithStatus(briefs, IF r.status = "draft" THEN {r.brief} ELSE {}, "superseded"),
                      Draft(r.content, r.brief))
  /\ UNCHANGED <<maps, decisions, edits, approvals, activations, open>>

Decide(r) ==
  /\ edits[r.decision] = r.version
  /\ decisions' = [decisions EXCEPT ![r.decision] = r.to]
  /\ edits' = [edits EXCEPT ![r.decision] = @ + 1]
  /\ UNCHANGED <<briefs, maps, approvals, activations, open>>

\* A variant of ApproveBrief: the version approved before is left approved.
ApproveOnly(r) ==
  /\ approvals' = Append(approvals, [brief |-> r.brief, map |-> r.map, decisions |-> r.decisions])
  /\ briefs' = WithStatus(briefs, {r.brief}, "approved")
  /\ maps' = WithStatus(maps, {r.map}, "approved")
  /\ UNCHANGED <<decisions, edits, activations, open>>

(* The approved versions are selected after the INSERT of the Approval, under
   the write lock.  A Brief read as approved is not written again.            *)
ApproveBrief(r) ==
  /\ approvals' = Append(approvals, [brief |-> r.brief, map |-> r.map, decisions |-> r.decisions])
  /\ LET previous == {v \in DOMAIN briefs : briefs[v].status = "approved"}
         written == IF r.status = "approved" THEN {} ELSE {r.brief}
     IN  briefs' = WithStatus(WithStatus(briefs, previous \ {r.brief}, "superseded"), written, "approved")
  /\ maps' = WithStatus(maps, {r.map}, "approved")
  /\ UNCHANGED <<decisions, edits, activations, open>>

CreateMapVersion(r) ==
  /\ LatestMap = r.map
  /\ maps' = Append(WithStatus(maps, {r.map}, "superseded"), [status |-> "draft"])
  /\ UNCHANGED <<briefs, decisions, edits, approvals, activations, open>>

ActivateVp(r) ==
  /\ open = {}
  /\ activations' = activations + 1
  /\ open' = open \cup {activations'}
  /\ UNCHANGED <<briefs, maps, decisions, edits, approvals>>

DeactivateVp(r) ==
  /\ open' = open \ {r.row}
  /\ UNCHANGED <<briefs, maps, decisions, edits, approvals, activations>>

Write(r) ==
  \/ r.op = "intake" /\ SubmitIntake(r)
  \/ r.op = "revise" /\ ReviseBrief(r)
  \/ r.op = "decide" /\ Decide(r)
  \/ r.op = "approve" /\ ApproveBrief(r)
  \/ r.op = "map" /\ CreateMapVersion(r)
  \/ r.op = "activate" /\ ActivateVp(r)
  \/ r.op = "deactivate" /\ DeactivateVp(r)

Commit(c) ==
  /\ call[c] # NoCall
  /\ call[c].key \notin used
  /\ Write(call[c].request)
  /\ Store(call[c].key)
  /\ call' = [call EXCEPT ![c] = NoCall]
  /\ UNCHANGED fresh

(* A UNIQUE constraint, the version of the decision, or a lost connection.    *)
Rollback(c) ==
  /\ call[c] # NoCall
  /\ call' = [call EXCEPT ![c] = NoCall]
  /\ UNCHANGED <<briefs, maps, decisions, edits, approvals, activations, open, used, fresh>>

(* A new Git baseline is observed: its hash no longer is the one the fact names. *)
ObserveBaseline ==
  /\ fresh /\ fresh' = FALSE
  /\ UNCHANGED <<briefs, maps, decisions, edits, approvals, activations, open, used, call>>

Next ==
  \/ \E c \in Clients, k \in Keys \cup {NoKey} :
       \/ BeginIntake(c, k) \/ BeginRevise(c, k) \/ BeginDecide(c, k) \/ BeginApprove(c, k)
       \/ BeginMap(c, k) \/ BeginActivate(c, k)
  \/ \E c \in Clients : BeginDeactivate(c) \/ Commit(c) \/ Rollback(c)
  \/ ObserveBaseline

Spec == Init /\ [][Next]_productVars

-----------------------------------------------------------------------------
(* What a reader is shown: _approved_brief, _stage, _next_action, export.     *)
ApprovedBrief == IF approvals = <<>> THEN 0 ELSE approvals[Len(approvals)].brief

Stage ==
  IF ApprovedBrief # 0 THEN "approved" ELSE IF Latest = 0 THEN "intake_pending" ELSE "draft"

NextAction ==
  IF Latest = 0 THEN "intake"
  ELSE IF Unresolved # {} THEN "decide"
  ELSE IF ApprovedBrief = 0 THEN "approve"
  ELSE IF open = {} THEN "activate" ELSE "export"

ExportedMap(b) == IF b = ApprovedBrief /\ b # 0 THEN approvals[Len(approvals)].map ELSE LatestMap

-----------------------------------------------------------------------------
TypeOK ==
  /\ \A v \in DOMAIN briefs : briefs[v].status \in {"draft", "approved", "superseded"}
  /\ \A v \in DOMAIN maps : maps[v].status \in {"draft", "approved", "superseded"}
  /\ DOMAIN decisions \in {{}, Proposed} /\ DOMAIN edits = DOMAIN decisions
  /\ open \subseteq 1..activations
  /\ used \subseteq Keys

(* At most one version of the Brief is approved, whatever calls overlapped, and
   a draft is the newest version: no draft is left that nobody can approve.
   (approve_brief supersedes the previous version, revise_brief its parent.)  *)
OneApprovedOneDraft ==
  \A v, w \in DOMAIN briefs :
    /\ briefs[v].status = "approved" /\ briefs[w].status = "approved" => v = w
    /\ briefs[v].status = "draft" => v = Latest

=============================================================================
