------------------------------- MODULE Grants -------------------------------
(***************************************************************************)
(* One grant of the Autonomy Envelope (apps/core/atlas_core/autonomy.py)   *)
(* and the callers that act under it.  A caller evaluates the grant, then  *)
(* consumes one invocation under the version it evaluated; an owner may    *)
(* revoke the grant at any moment and its time may run out.  The ORM       *)
(* writes a changed column of the row by its id alone, one transaction     *)
(* after it was read, so consume_budget, revoke_grant and _mark_expired    *)
(* are each a step that reads and a step that writes.                      *)
(***************************************************************************)
EXTENDS Naturals, FiniteSets

CONSTANTS
  Callers,         \* those who act under the grant
  Owners,          \* requests to revoke it
  Scopes,          \* what an action may ask for: repository and base branch
  Granted,         \* those the allowlists of the grant name
  MaxInvocations   \* budget.max_invocations

ASSUME GrantAssumption == MaxInvocations \in Nat /\ Granted \subseteq Scopes

VARIABLES
  grant,     \* the row: state, revoked (revoked_at is set), version, used (used_invocations)
  outdated,  \* expires_at has passed
  use,       \* progress of each caller and the values it has read
  revoker    \* progress of each revoke request and the row it has read

gvars == <<grant, outdated, use, revoker>>

States == {"ACTIVE", "REVOKED", "EXPIRED"}
Rows == [state : States, revoked : BOOLEAN, version : Nat \ {0}, used : Nat]

NewGrant == [state |-> "ACTIVE", revoked |-> FALSE, version |-> 1, used |-> 0]

\* A caller keeps what it has read only as long as it is going to use it.
Points == {"idle", "mark", "marking", "evaluated", "consuming", "paid", "refused"}
Holding(point) == [pc |-> point, version |-> grant.version, used |-> grant.used]
At(point) == [pc |-> point, version |-> NewGrant.version, used |-> NewGrant.used]
Answered == [pc |-> "answered", row |-> NewGrant]

GrantTypeOK ==
  /\ grant \in Rows
  /\ outdated \in BOOLEAN
  /\ use \in [Callers -> [pc : Points, version : Nat \ {0}, used : Nat]]
  /\ revoker \in [Owners -> [pc : {"idle", "writing", "answered"}, row : Rows]]

GrantInit ==
  /\ grant = NewGrant
  /\ outdated = FALSE
  /\ use = [c \in Callers |-> At("idle")]
  /\ revoker = [o \in Owners |-> [pc |-> "idle", row |-> NewGrant]]

-----------------------------------------------------------------------------
(* evaluate(): nothing is written but the mark of an expired grant *)

Revoked(row) == row.state = "REVOKED" \/ row.revoked
Spendable(row) == row.used < MaxInvocations

Permits(scope) ==
  /\ ~Revoked(grant)
  /\ grant.state = "ACTIVE"
  /\ ~outdated
  /\ scope \in Granted
  /\ Spendable(grant)

\* An active grant found to be out of date is marked before the caller is refused.
MustMark == ~Revoked(grant) /\ grant.state = "ACTIVE" /\ outdated

Evaluate(c, scope) ==
  /\ use[c].pc = "idle"
  /\ use' = [use EXCEPT ![c] = IF Permits(scope) THEN Holding("evaluated")
                              ELSE At(IF MustMark THEN "mark" ELSE "refused")]
  /\ UNCHANGED <<grant, outdated, revoker>>

\* _mark_expired reads the row again, in a session of its own.
MarkRead(c) ==
  /\ use[c].pc = "mark"
  /\ use' = [use EXCEPT ![c] = At(IF grant.state = "ACTIVE" THEN "marking" ELSE "refused")]
  /\ UNCHANGED <<grant, outdated, revoker>>

\* It writes the state and leaves the version alone.
MarkWrite(c) ==
  /\ use[c].pc = "marking"
  /\ use' = [use EXCEPT ![c] = At("refused")]
  /\ grant' = [grant EXCEPT !.state = "EXPIRED"]
  /\ UNCHANGED <<outdated, revoker>>

\* The caller only wanted the decision; it may evaluate again later.
Forget(c) ==
  /\ use[c].pc = "evaluated"
  /\ use' = [use EXCEPT ![c] = At("idle")]
  /\ UNCHANGED <<grant, outdated, revoker>>

-----------------------------------------------------------------------------
(* consume_budget(expected_version = the version that was evaluated) *)

ConsumeRead(c) ==
  /\ use[c].pc = "evaluated"
  /\ LET fit == /\ grant.version = use[c].version
                /\ ~Revoked(grant)
                /\ grant.state = "ACTIVE"
                /\ ~outdated
                /\ Spendable(grant)
     IN  use' = [use EXCEPT ![c] = IF fit THEN Holding("consuming") ELSE At("refused")]
  /\ UNCHANGED <<grant, outdated, revoker>>

\* Mutant: all columns are written back as they were read.
PaidWhole(c) == [state |-> "ACTIVE", revoked |-> FALSE,
                 version |-> use[c].version + 1, used |-> use[c].used + 1]

\* Only the changed columns are written: the state stays what it has become.
Paid(c) == [state |-> grant.state, revoked |-> grant.revoked,
            version |-> use[c].version + 1, used |-> use[c].used + 1]

ConsumeWrite(c) ==
  /\ use[c].pc = "consuming"
  /\ grant' = Paid(c)
  /\ use' = [use EXCEPT ![c] = At("paid")]
  /\ UNCHANGED <<outdated, revoker>>

-----------------------------------------------------------------------------
(* revoke_grant() *)

\* expected_version is optional and is the owner's; when it does not fit nothing is read for it.
RevokeRead(o) ==
  /\ revoker[o].pc = "idle"
  /\ \/ revoker' = [revoker EXCEPT ![o] = [pc |-> "writing", row |-> grant]]
     \/ revoker' = [revoker EXCEPT ![o] = Answered]
  /\ UNCHANGED <<grant, outdated, use>>

RevokeWrite(o) ==
  /\ revoker[o].pc = "writing"
  /\ grant' = [state |-> IF revoker[o].row.state = "REVOKED" THEN grant.state ELSE "REVOKED",
               revoked |-> TRUE,
               version |-> revoker[o].row.version + 1,
               used |-> grant.used]
  /\ revoker' = [revoker EXCEPT ![o] = Answered]
  /\ UNCHANGED <<outdated, use>>

-----------------------------------------------------------------------------
TimePasses ==
  /\ ~outdated
  /\ outdated' = TRUE
  /\ UNCHANGED <<grant, use, revoker>>

OwnerStep(o) == RevokeRead(o) \/ RevokeWrite(o)

GrantNext ==
  \/ \E c \in Callers, scope \in Scopes : Evaluate(c, scope)
  \/ \E c \in Callers :
       \/ MarkRead(c) \/ MarkWrite(c)
       \/ Forget(c)
       \/ ConsumeRead(c) \/ ConsumeWrite(c)
  \/ \E o \in Owners : OwnerStep(o)
  \/ TimePasses

GrantSpec == GrantInit /\ [][GrantNext]_gvars

-----------------------------------------------------------------------------
(* Properties *)

\* However consumes overlap, the row never shows more invocations than the budget: what is
\* written was checked against the value it was computed from.
UsedWithinBudget == grant.used <= MaxInvocations

\* A grant that was revoked or has expired is never usable again: neither a consume that read
\* it while it was active nor the mark of its expiry reopens it when they write afterwards.
ClosedStaysClosed ==
  [][/\ grant.state # "ACTIVE" => grant'.state # "ACTIVE"
     /\ grant.revoked => grant'.revoked]_gvars

\* autonomy.py:479 calls the check and the charge one atomic step: then no more actions are
\* paid than the budget has.
BudgetIsABound == Cardinality({c \in Callers : use[c].pc = "paid"}) <= MaxInvocations

=============================================================================
