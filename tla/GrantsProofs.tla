---------------------------- MODULE GrantsProofs ----------------------------
(***************************************************************************)
(* What one grant promises, for any number of callers and owners and any   *)
(* budget.  A write is made from a row read earlier, so the invariant says *)
(* what still holds of the values a caller has in hand: they passed the    *)
(* check of the budget when they were read, and nothing written from them  *)
(* needs more than that.                                                   *)
(***************************************************************************)
EXTENDS Grants, TLAPS

\* What a caller is about to write was computed from a value below the budget.
CheckedBeforePaid == \A c \in Callers : use[c].pc = "consuming" => use[c].used < MaxInvocations

GrantInv == GrantTypeOK /\ UsedWithinBudget /\ CheckedBeforePaid

USE GrantAssumption

\* The values everything starts from.
LEMMA Defaults == /\ NewGrant \in Rows /\ NewGrant.used = 0
                  /\ Answered \in [pc : {"idle", "writing", "answered"}, row : Rows]
  BY DEF NewGrant, Rows, States, Answered

LEMMA GrantInitially == ASSUME GrantInit PROVE GrantInv
<1>1. grant \in Rows /\ grant.used <= MaxInvocations
  BY Defaults DEF GrantInit, Rows
<1>2. use \in [Callers -> [pc : Points, version : Nat \ {0}, used : Nat]]
  BY DEF GrantInit, At, NewGrant, Points
<1>3. revoker \in [Owners -> [pc : {"idle", "writing", "answered"}, row : Rows]]
  BY Defaults DEF GrantInit
<1>4. \A c \in Callers : use[c].pc = "idle"
  BY DEF GrantInit, At
<1> QED
  BY <1>1, <1>2, <1>3, <1>4
  DEF GrantInit, GrantInv, GrantTypeOK, UsedWithinBudget, CheckedBeforePaid

LEMMA GrantInductive ==
  ASSUME GrantInv, [GrantNext]_gvars
  PROVE  GrantInv'
<1> USE DEF GrantInv, GrantTypeOK, UsedWithinBudget, CheckedBeforePaid, Rows, States
<1>1. ASSUME NEW c \in Callers, NEW scope \in Scopes, Evaluate(c, scope) PROVE GrantInv'
  BY <1>1 DEF Evaluate, Holding, At, NewGrant, Points
<1>2. ASSUME NEW c \in Callers, MarkRead(c) PROVE GrantInv'
  BY <1>2 DEF MarkRead, At, NewGrant, Points
<1>3. ASSUME NEW c \in Callers, MarkWrite(c) PROVE GrantInv'
  BY <1>3 DEF MarkWrite, At, NewGrant, Points
<1>4. ASSUME NEW c \in Callers, Forget(c) PROVE GrantInv'
  BY <1>4 DEF Forget, At, NewGrant, Points
<1>5. ASSUME NEW c \in Callers, ConsumeRead(c) PROVE GrantInv'
  BY <1>5 DEF ConsumeRead, Holding, At, NewGrant, Points, Spendable
<1>6. ASSUME NEW c \in Callers, ConsumeWrite(c) PROVE GrantInv'
  BY <1>6 DEF ConsumeWrite, Paid, At, NewGrant, Points
<1>7. ASSUME NEW o \in Owners, RevokeRead(o) PROVE GrantInv'
  <2>1. /\ UNCHANGED <<grant, outdated, use>>
        /\ \/ revoker' = [revoker EXCEPT ![o] = [pc |-> "writing", row |-> grant]]
           \/ revoker' = [revoker EXCEPT ![o] = Answered]
    BY <1>7 DEF RevokeRead
  <2>2. revoker' \in [Owners -> [pc : {"idle", "writing", "answered"}, row : Rows]]
    <3> DEFINE Read == [pc |-> "writing", row |-> grant]
    <3>1. Read \in [pc : {"idle", "writing", "answered"}, row : Rows]
      OBVIOUS
    <3> HIDE DEF Read, Rows
    <3> QED
      BY <2>1, <3>1, Defaults DEF Read
  <2> QED
    BY <2>1, <2>2
<1>8. ASSUME NEW o \in Owners, RevokeWrite(o) PROVE GrantInv'
  BY <1>8 DEF RevokeWrite, Answered, NewGrant
<1>9. CASE TimePasses
  BY <1>9 DEF TimePasses
<1>10. CASE UNCHANGED gvars
  BY <1>10 DEF gvars
<1> QED
  BY <1>1, <1>2, <1>3, <1>4, <1>5, <1>6, <1>7, <1>8, <1>9, <1>10 DEF GrantNext, OwnerStep

\* The row, and what callers hold of it, keep their types.
THEOREM GrantTypeCorrect == GrantSpec => []GrantTypeOK
<1>1. GrantInv => GrantTypeOK
  BY DEF GrantInv
<1> QED
  BY <1>1, GrantInitially, GrantInductive, PTL DEF GrantSpec

\* consume_budget never writes more invocations than the budget allows, however many callers
\* overlap: it writes one more than a value that was below the budget.
THEOREM BudgetKept == GrantSpec => []UsedWithinBudget
<1>1. GrantInv => UsedWithinBudget
  BY DEF GrantInv
<1> QED
  BY <1>1, GrantInitially, GrantInductive, PTL DEF GrantSpec

\* No write of a caller or an owner reopens a grant that was revoked or has expired: the ORM
\* writes changed columns only, and nobody changes the state back.
THEOREM ClosedForGood == GrantSpec => ClosedStaysClosed
<1>1. ASSUME GrantInv, [GrantNext]_gvars
      PROVE  [/\ grant.state # "ACTIVE" => grant'.state # "ACTIVE"
              /\ grant.revoked => grant'.revoked]_gvars
  <2> SUFFICES /\ grant.state # "ACTIVE" => grant'.state # "ACTIVE"
               /\ grant.revoked => grant'.revoked
    OBVIOUS
  <2> USE DEF GrantInv, GrantTypeOK, Rows, States
  <2>1. ASSUME NEW c \in Callers, MarkWrite(c)
        PROVE  /\ grant'.state = "EXPIRED"
               /\ grant'.revoked = grant.revoked
    BY <2>1 DEF MarkWrite
  <2>2. ASSUME NEW c \in Callers, ConsumeWrite(c)
        PROVE  /\ grant'.state = grant.state
               /\ grant'.revoked = grant.revoked
    BY <2>2 DEF ConsumeWrite, Paid
  <2>3. ASSUME NEW o \in Owners, RevokeWrite(o)
        PROVE  /\ grant'.state \in {grant.state, "REVOKED"}
               /\ grant'.revoked
    BY <2>3 DEF RevokeWrite
  <2>4. \/ grant' = grant
        \/ \E c \in Callers : MarkWrite(c) \/ ConsumeWrite(c)
        \/ \E o \in Owners : RevokeWrite(o)
    BY <1>1 DEF GrantNext, OwnerStep, Evaluate, MarkRead, Forget, ConsumeRead, RevokeRead,
                TimePasses, gvars
  <2> QED
    BY <2>1, <2>2, <2>3, <2>4
<1> QED
  BY <1>1, GrantInitially, GrantInductive, PTL DEF GrantSpec, ClosedStaysClosed

=============================================================================
