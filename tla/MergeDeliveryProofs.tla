------------------------- MODULE MergeDeliveryProofs -------------------------
(***************************************************************************)
(* What merge_pull_request promises, for any number of calls, heads and    *)
(* base branches, and any interleaving with GitHub, the owner and          *)
(* Emergency Stop.                                                         *)
(***************************************************************************)
EXTENDS MergeDelivery, GrantsProofs

USE MergeAssumption

PullRequests == [state : {"OPEN", "CLOSED", "MERGED"}, head : Heads, base : Bases]
Calls == [step : Steps, head : Heads, base : Bases, fit : BOOLEAN]

Underway(c) == merge[c].step \notin {"idle", "over"}

-----------------------------------------------------------------------------
(* The helpers of the steps *)

LEMMA InGear ==
  ASSUME NEW c \in Callers, MergeTypeOK, merge[c].step \in Steps
  PROVE  merge[c] \in Calls
  BY DEF MergeTypeOK, Merges, Calls, Steps, Idle, Over

LEMMA GoesOn ==
  ASSUME NEW c \in Callers, MergeTypeOK, merge[c].step \in Steps,
         NEW step \in Steps, NEW base \in Bases, GoOn(c, step, base)
  PROVE  /\ merge' \in [Callers -> Merges]
         /\ merge'[c].step = step
         /\ merge'[c].head = merge[c].head
         /\ merge'[c].base = base
         /\ \A d \in Callers \ {c} : merge'[d] = merge[d]
<1> DEFINE call == [step |-> step, head |-> merge[c].head, base |-> base, fit |-> merge[c].fit]
<1>1. merge \in [Callers -> Merges]
  BY DEF MergeTypeOK
<1>2. merge[c] \in Calls
  BY InGear
<1>3. call \in Calls
  BY <1>2 DEF Calls
<1>4. call \in Merges
  BY <1>3 DEF Calls, Merges
<1>5. merge' = [merge EXCEPT ![c] = call]
  BY DEF GoOn
<1>6. call.step = step /\ call.head = merge[c].head /\ call.base = base
  OBVIOUS
<1> HIDE DEF call
<1> QED
  BY <1>1, <1>4, <1>5, <1>6

LEMMA Ends ==
  ASSUME NEW c \in Callers, MergeTypeOK, End(c)
  PROVE  /\ merge' \in [Callers -> Merges]
         /\ merge'[c].step = "over"
         /\ \A d \in Callers \ {c} : merge'[d] = merge[d]
<1>1. Over \in Merges /\ Over.step = "over"
  BY DEF Over, Merges
<1>2. merge \in [Callers -> Merges]
  BY DEF MergeTypeOK
<1>3. merge' = [merge EXCEPT ![c] = Over]
  BY DEF End
<1> QED
  BY <1>1, <1>2, <1>3

LEMMA Moves ==
  ASSUME NEW c \in Callers, MergeTypeOK, merge[c].step \in Steps, NEW step \in Steps,
         Goto(c, step)
  PROVE  /\ merge' \in [Callers -> Merges]
         /\ merge'[c].step = step
         /\ merge'[c].head = merge[c].head
         /\ merge'[c].base = merge[c].base
         /\ \A d \in Callers \ {c} : merge'[d] = merge[d]
<1>1. merge[c].base \in Bases
  BY InGear DEF Calls
<1> QED
  BY <1>1, GoesOn DEF Goto

-----------------------------------------------------------------------------
(* Every step is a step of the grant or leaves it alone *)

LEMMA MergeInitially ==
  ASSUME Init
  PROVE  TypeOK
<1>1. GrantTypeOK
  BY GrantInitially DEF Init, GrantInv
<1>2. merge \in [Callers -> Merges]
  BY DEF Init, Merges
<1>3. delivery \in [Bases \X Heads -> Deliveries]
  BY DEF Init, Deliveries
<1> QED
  BY <1>1, <1>2, <1>3, GrantAssumption DEF Init, TypeOK, MergeTypeOK, Bases

LEMMA StepOfGrant ==
  ASSUME MergeTypeOK, [Next]_vars
  PROVE  [GrantNext]_gvars
<1>1. ASSUME NEW c \in Callers, CallStep(c) PROVE [GrantNext]_gvars
  <2>1. CASE GateEvaluate(c) \/ PayEvaluate(c)
    <3>1. merge[c].step \in Steps /\ Evaluate(c, merge[c].base)
      BY <2>1 DEF GateEvaluate, PayEvaluate, Before, Steps
    <3>2. merge[c].base \in Scopes
      BY <3>1, InGear DEF Calls, Bases
    <3> QED
      BY <3>1, <3>2 DEF GrantNext
  <2>2. CASE Decide(c)
    BY <2>2 DEF Decide, GrantNext
  <2>3. CASE PayRead(c) \/ Pay(c) \/ Mark(c)
    BY <2>3 DEF PayRead, Pay, Mark, GrantNext
  <2>4. CASE \E head \in Heads, pack \in Reviewed : Review(c, head, pack)
    BY <2>4 DEF Review
  <2>5. CASE ReadForge(c) \/ ReadBase(c) \/ ReadAgain(c)
    BY <2>5 DEF ReadForge, ReadBase, ReadAgain
  <2>6. CASE Record(c) \/ LastBarrier(c)
    BY <2>6 DEF Record, LastBarrier
  <2>7. CASE Squash(c) \/ SquashRefused(c) \/ Finalize(c) \/ Break(c)
    BY <2>7 DEF Squash, SquashRefused, Finalize, Break
  <2> QED
    BY <1>1, <2>1, <2>2, <2>3, <2>4, <2>5, <2>6, <2>7 DEF CallStep
<1>2. ASSUME Forge PROVE UNCHANGED gvars
  BY <1>2 DEF Forge, Push, Retarget, Close, Judge, LoseEvidence, rest
<1>3. ASSUME NEW k \in Previewed, Preview(k) PROVE UNCHANGED gvars
  BY <1>3 DEF Preview
<1>4. ASSUME NEW o \in Owners, OwnerStep(o) PROVE GrantNext
  BY <1>4 DEF GrantNext
<1>5. ASSUME TimePasses PROVE GrantNext
  BY <1>5 DEF GrantNext
<1>6. ASSUME EngageFlag \/ EngageBarrier \/ StopEnds PROVE UNCHANGED gvars
  BY <1>6 DEF EngageFlag, EngageBarrier, StopEnds
<1>7. ASSUME UNCHANGED vars PROVE UNCHANGED gvars
  BY <1>7 DEF vars
<1> QED
  BY <1>1, <1>2, <1>3, <1>4, <1>5, <1>6, <1>7 DEF Next

LEMMA MergeTypeInductive ==
  ASSUME MergeTypeOK, [Next]_vars
  PROVE  MergeTypeOK'
<1>1. ASSUME NEW c \in Callers, CallStep(c) PROVE MergeTypeOK'
  <2>1. CASE GateEvaluate(c) \/ PayEvaluate(c) \/ PayRead(c) \/ Mark(c)
    BY <2>1 DEF GateEvaluate, PayEvaluate, PayRead, Mark, mvars, MergeTypeOK
  <2>2. CASE Decide(c) \/ Pay(c) \/ LastBarrier(c)
    <3>1. merge[c].step \in Steps
      BY <2>2 DEF Decide, Pay, LastBarrier, Before, Steps
    <3>2. merge' \in [Callers -> Merges]
      BY <2>2, <3>1, Ends, Moves DEF Decide, Pay, LastBarrier, GoIf, Steps
    <3> QED
      BY <2>2, <3>2 DEF Decide, Pay, LastBarrier, environment, MergeTypeOK
  <2>3. ASSUME NEW head \in Heads, NEW pack \in Reviewed, Review(c, head, pack)
        PROVE  MergeTypeOK'
    <3> DEFINE call == IF pack = head /\ pack \in valid THEN [step |-> "forge", head |-> head]
                       ELSE Over
    <3>1. call \in Merges
      BY DEF Merges, Over
    <3>2. merge' = [merge EXCEPT ![c] = call]
      BY <2>3 DEF Review
    <3> HIDE DEF call
    <3>3. merge' \in [Callers -> Merges]
      BY <3>1, <3>2 DEF MergeTypeOK
    <3> QED
      BY <2>3, <3>3 DEF Review, MergeTypeOK
  <2>4. CASE ReadForge(c)
    <3> DEFINE call == [step |-> "gate", head |-> pr.head, base |-> pr.base,
                        fit |-> pr.head \in ready]
    <3>1. call \in Merges
      BY DEF Merges, MergeTypeOK, Steps
    <3>2. End(c) \/ merge' = [merge EXCEPT ![c] = call]
      BY <2>4 DEF ReadForge
    <3> HIDE DEF call
    <3>3. merge' \in [Callers -> Merges]
      BY <3>1, <3>2, Ends DEF MergeTypeOK
    <3> QED
      BY <2>4, <3>3 DEF ReadForge, environment, MergeTypeOK
  <2>5. CASE ReadBase(c) \/ ReadAgain(c)
    <3>1. merge[c].step \in Steps
      BY <2>5 DEF ReadBase, ReadAgain, Before, Steps
    <3>2. merge[c].base \in Bases /\ pr.base \in Bases
      BY <3>1, InGear DEF Calls, MergeTypeOK
    <3>3. End(c) \/ \E base \in Bases, step \in Steps : GoOn(c, step, base)
      BY <2>5, <3>2 DEF ReadBase, ReadAgain, Steps
    <3>4. merge' \in [Callers -> Merges]
      BY <3>1, <3>3, Ends, GoesOn
    <3> QED
      BY <2>5, <3>4 DEF ReadBase, ReadAgain, environment, MergeTypeOK
  <2>6. CASE Record(c) \/ Finalize(c)
    <3>1. merge[c].step \in Steps
      BY <2>6 DEF Record, Finalize, Before, Steps
    <3>2. merge' \in [Callers -> Merges]
      BY <2>6, <3>1, Ends, Moves DEF Record, Finalize, Steps
    <3>3. /\ Row("OPEN", "AUTHORIZED") \in Deliveries
          /\ Row("MERGED", "MERGED") \in Deliveries
      BY DEF Row, Deliveries
    <3>4. \E row \in Deliveries : Upsert(Key(c), row)
      BY <2>6, <3>3 DEF Record, Finalize
    <3>5. delivery' \in [Bases \X Heads -> Deliveries]
      BY <3>4 DEF Upsert, MergeTypeOK
    <3> QED
      BY <2>6, <3>2, <3>5 DEF Record, Finalize, environment, MergeTypeOK
  <2>7. CASE Squash(c)
    <3>1. merge' \in [Callers -> Merges]
      BY <2>7, Moves DEF Squash, Before, Steps
    <3>2. pr' = [pr EXCEPT !.state = "MERGED"]
      BY <2>7 DEF Squash
    <3>3. pr' \in PullRequests
      BY <3>2 DEF MergeTypeOK, PullRequests
    <3> QED
      BY <2>7, <3>1, <3>3 DEF Squash, MergeTypeOK, PullRequests
  <2>8. CASE SquashRefused(c) \/ Break(c)
    BY <2>8, Ends DEF SquashRefused, Break, environment, MergeTypeOK
  <2> QED
    BY <1>1, <2>1, <2>2, <2>3, <2>4, <2>5, <2>6, <2>7, <2>8 DEF CallStep
<1>2. ASSUME Forge PROVE MergeTypeOK'
  <2>1. pr' \in PullRequests
    <3>1. ASSUME NEW head \in Heads, Push(head) PROVE pr' \in PullRequests
      BY <3>1 DEF Push, MergeTypeOK, PullRequests
    <3>2. ASSUME NEW base \in Bases, Retarget(base) PROVE pr' \in PullRequests
      BY <3>2 DEF Retarget, MergeTypeOK, PullRequests
    <3>3. ASSUME Close PROVE pr' \in PullRequests
      BY <3>3 DEF Close, MergeTypeOK, PullRequests
    <3>4. ASSUME NEW head \in Reviewed, Judge(head) \/ LoseEvidence(head) PROVE pr' = pr
      BY <3>4 DEF Judge, LoseEvidence
    <3> QED
      BY <1>2, <3>1, <3>2, <3>3, <3>4 DEF Forge, MergeTypeOK, PullRequests
  <2>2. ready' \subseteq Heads /\ valid' \subseteq Reviewed
    BY <1>2 DEF Forge, Push, Retarget, Close, Judge, LoseEvidence, MergeTypeOK
  <2> QED
    BY <1>2, <2>1, <2>2
    DEF Forge, Push, Retarget, Close, Judge, LoseEvidence, rest, MergeTypeOK, PullRequests
<1>3. ASSUME NEW k \in Previewed, Preview(k) PROVE MergeTypeOK'
  <2>1. PICK state \in Reported : Upsert(k, Row("NONE", state))
    BY <1>3 DEF Preview
  <2>2. Row("NONE", state) \in Deliveries
    BY DEF Row, Deliveries
  <2>3. delivery' \in [Bases \X Heads -> Deliveries]
    BY <2>1, <2>2 DEF Upsert, MergeTypeOK
  <2> QED
    BY <1>3, <2>3 DEF Preview, MergeTypeOK
<1>4. ASSUME UNCHANGED mvars PROVE MergeTypeOK'
  BY <1>4 DEF mvars, MergeTypeOK
<1>5. ASSUME EngageFlag \/ EngageBarrier \/ StopEnds PROVE MergeTypeOK'
  BY <1>5 DEF EngageFlag, EngageBarrier, StopEnds, Short, MergeTypeOK
<1> QED
  BY <1>1, <1>2, <1>3, <1>4, <1>5 DEF Next, vars

-----------------------------------------------------------------------------
(* The invariant *)

\* The head of a merged pull request was reviewed and has a delivery row.
MergedIsCovered ==
  pr.state = "MERGED" =>
    /\ pr.head \in Reviewed
    /\ \E base \in Bases : delivery[<<base, pr.head>>] # Absent

\* A call only ever carries a reviewed head; it has its record before it reaches the squash,
\* and what it merged is still that head when it records it.
CarriesReviewed(c) == Underway(c) => merge[c].head \in Reviewed
HasRecord(c) ==
  merge[c].step \in {"last", "squash", "finalize"} =>
    delivery[<<merge[c].base, merge[c].head>>] # Absent
HasMerged(c) ==
  merge[c].step = "finalize" => pr.state = "MERGED" /\ pr.head = merge[c].head

\* A call that was caught sees the stop whenever it looks and is still short of the squash.
HeldBack(c) ==
  c \in caught => BlocksNewJobs(c) /\ merge[c].step \notin {"squash", "finalize"}

CallInv(c) == CarriesReviewed(c) /\ HasRecord(c) /\ HasMerged(c) /\ HeldBack(c)

DeliveryInv ==
  /\ TypeOK
  /\ MergedIsCovered
  /\ RecordsAreTrue
  /\ \A c \in Callers : CallInv(c)

\* A row that is written is there.
LEMMA Written ==
  /\ Row("OPEN", "AUTHORIZED") # Absent
  /\ Row("MERGED", "MERGED") # Absent
  /\ \A state : Row("NONE", state) # Absent
BY DEF Row, Absent

\* What no step undoes: a merged pull request stays as it is, and a row stays recorded.
LEMMA Lasting ==
  ASSUME TypeOK, [Next]_vars
  PROVE  /\ pr.state = "MERGED" => pr' = pr
         /\ \A k \in Bases \X Heads : delivery[k] # Absent => delivery'[k] # Absent
<1> USE DEF TypeOK, MergeTypeOK
<1>1. pr.state = "MERGED" => pr' = pr
  BY DEF Next, CallStep, Review, ReadForge, GateEvaluate, Decide, ReadBase, PayEvaluate, PayRead,
         Pay, Mark, ReadAgain, Record, LastBarrier, Squash, SquashRefused, Finalize, Break, Accepts,
         Live, Forge, Push, Retarget, Close, Judge, LoseEvidence, Preview, EngageFlag,
         EngageBarrier, StopEnds, environment, rest, mvars, vars
<1>2. \/ delivery' = delivery
      \/ \E k, row : row # Absent /\ Upsert(k, row)
  BY Written DEF Next, CallStep, Review, ReadForge, GateEvaluate, Decide, ReadBase, PayEvaluate, PayRead,
         Pay, Mark, ReadAgain, Record, LastBarrier, Squash, SquashRefused, Finalize,
         Break, Forge, Push, Retarget, Close, Judge, LoseEvidence, Preview, EngageFlag,
         EngageBarrier, StopEnds, environment, rest, mvars, vars
<1>3. ASSUME NEW k \in Bases \X Heads, delivery[k] # Absent PROVE delivery'[k] # Absent
  BY <1>2, <1>3 DEF Upsert
<1> QED
  BY <1>1, <1>3

\* A call stays as good as it was when a step leaves it where it is.
LEMMA Untouched ==
  ASSUME DeliveryInv, [Next]_vars, NEW d \in Callers, merge'[d] = merge[d], HeldBack(d)'
  PROVE  CallInv(d)'
<1>1. CallInv(d) /\ MergeTypeOK
  BY DEF DeliveryInv, TypeOK
<1>2. HasRecord(d)'
  <2> SUFFICES ASSUME merge[d].step \in {"last", "squash", "finalize"}
               PROVE  delivery'[<<merge[d].base, merge[d].head>>] # Absent
    BY DEF HasRecord
  <2>1. delivery[<<merge[d].base, merge[d].head>>] # Absent
    BY <1>1 DEF CallInv, HasRecord
  <2>2. <<merge[d].base, merge[d].head>> \in Bases \X Heads
    BY <1>1, InGear DEF Calls, Steps
  <2> QED
    BY <2>1, <2>2, Lasting DEF DeliveryInv
<1>3. HasMerged(d)'
  BY <1>1, Lasting DEF DeliveryInv, CallInv, HasMerged
<1>4. CarriesReviewed(d)'
  BY <1>1 DEF CallInv, CarriesReviewed, Underway
<1> QED
  BY <1>2, <1>3, <1>4 DEF CallInv

LEMMA OneCallMoves ==
  ASSUME MergeTypeOK, NEW c \in Callers, CallStep(c)
  PROVE  /\ \A d \in Callers \ {c} : merge'[d] = merge[d]
         /\ stop' = stop /\ caught' = caught
<1>1. stop' = stop /\ caught' = caught
  BY DEF CallStep, Review, ReadForge, GateEvaluate, Decide, ReadBase, PayEvaluate, PayRead, Pay,
         Mark, ReadAgain, Record, LastBarrier, Squash, SquashRefused, Finalize, Break, environment,
         mvars
<1>2. \/ merge' = merge
      \/ \E call : merge' = [merge EXCEPT ![c] = call]
  BY DEF CallStep, Review, ReadForge, GateEvaluate, Decide, ReadBase, PayEvaluate, PayRead, Pay,
         Mark, ReadAgain, Record, LastBarrier, Squash, SquashRefused, Finalize, Break, GoIf, Goto,
         GoOn, End, mvars
<1>3. \A d \in Callers \ {c} : merge'[d] = merge[d]
  BY <1>2 DEF MergeTypeOK
<1> QED
  BY <1>1, <1>3

LEMMA CallStepKeepsCalls ==
  ASSUME DeliveryInv, NEW c \in Callers, CallStep(c)
  PROVE  \A d \in Callers : CallInv(d)'
<1>0. /\ MergeTypeOK /\ CallInv(c)
      /\ Reviewed \subseteq Heads
  BY DEF DeliveryInv, TypeOK
<1>1. Next
  BY DEF Next
<1>2. ASSUME NEW d \in Callers \ {c} PROVE CallInv(d)'
  <2>1. HeldBack(d)'
    BY <1>0, <1>2, OneCallMoves DEF DeliveryInv, CallInv, HeldBack, BlocksNewJobs
  <2> QED
    BY <1>0, <1>1, <1>2, <2>1, OneCallMoves, Untouched
<1>3. ASSUME merge'[c] = merge[c] PROVE CallInv(c)'
  <2>1. HeldBack(c)'
    BY <1>0, <1>3, OneCallMoves DEF CallInv, HeldBack, BlocksNewJobs
  <2> QED
    BY <1>1, <1>3, <2>1, Untouched
<1>4. ASSUME merge'[c].step \in {"over", "idle"} PROVE CallInv(c)'
  <2>1. HeldBack(c)'
    BY <1>0, <1>4, OneCallMoves DEF CallInv, HeldBack, BlocksNewJobs
  <2> QED
    BY <1>4, <2>1 DEF CallInv, CarriesReviewed, HasRecord, HasMerged, Underway
\* On the way to the squash only the reviewed head counts.
<1>5. ASSUME merge'[c].step \in {"forge", "gate", "base", "pay", "fresh", "record"},
             merge'[c].head \in Reviewed
      PROVE  CallInv(c)'
  <2>1. HeldBack(c)'
    BY <1>0, <1>5, OneCallMoves DEF CallInv, HeldBack, BlocksNewJobs
  <2> QED
    BY <1>5, <2>1 DEF CallInv, CarriesReviewed, HasRecord, HasMerged
<1>6. ASSUME GateEvaluate(c) \/ PayEvaluate(c) \/ PayRead(c) \/ Mark(c) PROVE CallInv(c)'
  <2>1. merge'[c] = merge[c]
    BY <1>6 DEF GateEvaluate, PayEvaluate, PayRead, Mark, mvars
  <2> QED
    BY <1>3, <2>1
<1>7. ASSUME SquashRefused(c) \/ Break(c) \/ Finalize(c) PROVE CallInv(c)'
  <2>1. merge'[c].step = "over"
    BY <1>0, <1>7, Ends DEF SquashRefused, Break, Finalize
  <2> QED
    BY <1>4, <2>1
<1>8. ASSUME \E head \in Heads, pack \in Reviewed : Review(c, head, pack) PROVE CallInv(c)'
  <2>1. PICK head \in Heads, pack \in Reviewed : Review(c, head, pack)
    BY <1>8
  <2> DEFINE call == [step |-> "forge", head |-> head]
  <2>2. \/ End(c)
        \/ merge' = [merge EXCEPT ![c] = call] /\ head \in Reviewed
    BY <2>1 DEF Review, End
  <2>3. call.step = "forge" /\ call.head = head
    OBVIOUS
  <2> HIDE DEF call
  <2>4. \/ merge'[c].step \in {"over", "idle"}
        \/ /\ merge'[c].step \in {"forge", "gate", "base", "pay", "fresh", "record"}
           /\ merge'[c].head \in Reviewed
    BY <1>0, <2>2, <2>3, Ends DEF MergeTypeOK
  <2> QED
    BY <1>4, <1>5, <2>4
<1>9. ASSUME ReadForge(c) PROVE CallInv(c)'
  <2> DEFINE call == [step |-> "gate", head |-> pr.head, base |-> pr.base,
                      fit |-> pr.head \in ready]
  <2>1. \/ End(c)
        \/ merge' = [merge EXCEPT ![c] = call] /\ pr.head \in Reviewed
    BY <1>0, <1>9 DEF ReadForge, Live, Before, CallInv, CarriesReviewed, Underway
  <2>2. call.step = "gate" /\ call.head = pr.head
    OBVIOUS
  <2> HIDE DEF call
  <2>3. \/ merge'[c].step \in {"over", "idle"}
        \/ /\ merge'[c].step \in {"forge", "gate", "base", "pay", "fresh", "record"}
           /\ merge'[c].head \in Reviewed
    BY <1>0, <2>1, <2>2, Ends DEF MergeTypeOK
  <2> QED
    BY <1>4, <1>5, <2>3
<1>10. ASSUME Decide(c) \/ Pay(c) \/ ReadBase(c) \/ ReadAgain(c) PROVE CallInv(c)'
  <2>1. merge[c].step \in Steps
    BY <1>10 DEF Decide, Pay, ReadBase, ReadAgain, Before, Steps
  <2>2. merge[c].base \in Bases /\ pr.base \in Bases /\ merge[c].head \in Reviewed
    BY <1>0, <2>1, InGear
    DEF Calls, MergeTypeOK, CallInv, CarriesReviewed, Underway, Steps
  <2>3. End(c) \/ \E base \in Bases, step \in {"base", "pay", "fresh", "record"} :
                   GoOn(c, step, base)
    BY <1>10, <2>2 DEF Decide, Pay, ReadBase, ReadAgain, GoIf, Goto
  <2>4. \/ merge'[c].step \in {"over", "idle"}
        \/ /\ merge'[c].step \in {"forge", "gate", "base", "pay", "fresh", "record"}
           /\ merge'[c].head \in Reviewed
    BY <1>0, <2>1, <2>2, <2>3, GoesOn, Ends DEF Steps
  <2> QED
    BY <1>4, <1>5, <2>4
<1>11. ASSUME Record(c) PROVE CallInv(c)'
  <2>1. merge[c] \in Calls
    BY <1>0, <1>11, InGear DEF Record, Before, Steps
  <2>2. /\ merge'[c].step = "last"
        /\ merge'[c].head = merge[c].head
        /\ merge'[c].base = merge[c].base
    BY <1>0, <1>11, Moves DEF Record, Before, Steps
  <2>3. delivery'[<<merge[c].base, merge[c].head>>] # Absent
    BY <1>0, <1>11, <2>1, Written DEF Record, Upsert, Key, Calls, MergeTypeOK
  <2>4. HeldBack(c)'
    BY <1>0, <2>2, OneCallMoves DEF CallInv, HeldBack, BlocksNewJobs
  <2>5. merge[c].head \in Reviewed
    BY <1>0, <1>11 DEF Record, Before, CallInv, CarriesReviewed, Underway
  <2>6. CarriesReviewed(c)' /\ HasRecord(c)' /\ HasMerged(c)'
    BY <2>2, <2>3, <2>5 DEF CarriesReviewed, HasRecord, HasMerged
  <2> QED
    BY <2>4, <2>6 DEF CallInv
<1>12. ASSUME LastBarrier(c) PROVE CallInv(c)'
  <2>1. ASSUME BlocksNewJobs(c) PROVE CallInv(c)'
    <3>1. merge'[c].step = "over"
      BY <1>0, <1>12, <2>1, Ends DEF LastBarrier, GoIf
    <3> QED
      BY <1>4, <3>1
  <2>2. ASSUME ~BlocksNewJobs(c) PROVE CallInv(c)'
    <3>1. /\ merge'[c].step = "squash"
          /\ merge'[c].head = merge[c].head
          /\ merge'[c].base = merge[c].base
      BY <1>0, <1>12, <2>2, Moves DEF LastBarrier, GoIf, Before, Steps
    <3>2. c \notin caught
      BY <1>0, <2>2 DEF CallInv, HeldBack
    <3>3. delivery' = delivery
      BY <1>12 DEF LastBarrier
    <3>4. /\ merge[c].head \in Reviewed
          /\ delivery[<<merge[c].base, merge[c].head>>] # Absent
      BY <1>0, <1>12 DEF LastBarrier, Before, CallInv, CarriesReviewed, HasRecord, Underway
    <3>5. CarriesReviewed(c)' /\ HasRecord(c)' /\ HasMerged(c)'
      BY <3>1, <3>3, <3>4 DEF CarriesReviewed, HasRecord, HasMerged
    <3>6. HeldBack(c)'
      BY <1>0, <3>2, OneCallMoves DEF HeldBack
    <3> QED
      BY <3>5, <3>6 DEF CallInv
  <2> QED
    BY <2>1, <2>2
<1>13. ASSUME Squash(c) PROVE CallInv(c)'
  <2>1. /\ merge'[c].step = "finalize"
        /\ merge'[c].head = merge[c].head
        /\ merge'[c].base = merge[c].base
    BY <1>0, <1>13, Moves DEF Squash, Before, Steps
  <2>2. c \notin caught
    BY <1>0, <1>13 DEF Squash, Before, CallInv, HeldBack
  <2>3. pr' \in PullRequests /\ pr'.state = "MERGED" /\ pr'.head = pr.head
    <3>1. pr \in PullRequests /\ pr' = [pr EXCEPT !.state = "MERGED"]
      BY <1>0, <1>13 DEF Squash, MergeTypeOK, PullRequests
    <3> QED
      BY <3>1 DEF PullRequests
  <2>4. /\ merge[c].head \in Reviewed
        /\ merge[c].head = pr.head
        /\ delivery[<<merge[c].base, merge[c].head>>] # Absent
        /\ delivery' = delivery
    BY <1>0, <1>13
    DEF Squash, Accepts, Live, Before, CallInv, CarriesReviewed, HasRecord, Underway
  <2>5. CarriesReviewed(c)' /\ HasRecord(c)' /\ HasMerged(c)'
    BY <2>1, <2>3, <2>4 DEF CarriesReviewed, HasRecord, HasMerged
  <2>6. HeldBack(c)'
    BY <1>0, <2>2, OneCallMoves DEF HeldBack
  <2> QED
    BY <2>5, <2>6 DEF CallInv
<1>14. CallInv(c)'
  BY <1>6, <1>7, <1>8, <1>9, <1>10, <1>11, <1>12, <1>13 DEF CallStep
<1> QED
  BY <1>2, <1>14

LEMMA StopKeepsCalls ==
  ASSUME DeliveryInv, EngageFlag \/ EngageBarrier \/ StopEnds
  PROVE  \A d \in Callers : CallInv(d)'
<1>1. Next
  BY DEF Next
<1>2. merge' = merge
  BY DEF EngageFlag, EngageBarrier, StopEnds
<1>3. ASSUME NEW d \in Callers PROVE HeldBack(d)'
  <2>1. HeldBack(d)
    BY DEF DeliveryInv, CallInv
  <2> QED
    BY <1>2, <2>1 DEF HeldBack, BlocksNewJobs, Short, EngageFlag, EngageBarrier, StopEnds
<1> QED
  BY <1>1, <1>2, <1>3, Untouched

LEMMA OthersKeepCalls ==
  ASSUME DeliveryInv, [Next]_vars, UNCHANGED <<merge, stop, caught>>
  PROVE  \A d \in Callers : CallInv(d)'
<1>1. ASSUME NEW d \in Callers PROVE HeldBack(d)'
  <2>1. HeldBack(d)
    BY DEF DeliveryInv, CallInv
  <2> QED
    BY <2>1 DEF HeldBack, BlocksNewJobs
<1> QED
  BY <1>1, Untouched

LEMMA DeliveryInitially == ASSUME Init PROVE DeliveryInv
<1>1. TypeOK
  BY MergeInitially
<1>2. ASSUME NEW c \in Callers PROVE CallInv(c)
  BY DEF Init, Idle, CallInv, CarriesReviewed, HasRecord, HasMerged, HeldBack, Underway
<1>3. MergedIsCovered /\ RecordsAreTrue
  BY DEF Init, MergedIsCovered, RecordsAreTrue, Absent, Row
<1> QED
  BY <1>1, <1>2, <1>3 DEF DeliveryInv

LEMMA DeliveryInductive ==
  ASSUME GrantInv, DeliveryInv, [Next]_vars
  PROVE  GrantInv' /\ DeliveryInv'
<1>1. MergeTypeOK
  BY DEF DeliveryInv, TypeOK
<1>2. GrantInv'
  BY <1>1, StepOfGrant, GrantInductive
<1>3. TypeOK'
  BY <1>1, <1>2, MergeTypeInductive DEF GrantInv, TypeOK
<1>4. \A d \in Callers : CallInv(d)'
  <2>1. \/ \E c \in Callers : CallStep(c)
        \/ EngageFlag \/ EngageBarrier \/ StopEnds
        \/ UNCHANGED <<merge, stop, caught>>
    BY DEF Next, Forge, Push, Retarget, Close, Judge, LoseEvidence, Preview, rest, mvars, vars
  <2> QED
    BY <2>1, CallStepKeepsCalls, StopKeepsCalls, OthersKeepCalls
\* Only the squash merges, and the call that makes it has the record of its head.
<1>5. MergedIsCovered'
  <2>1. CASE pr.state = "MERGED"
    <3>1. pr' = pr /\ pr.head \in Reviewed
      BY <2>1, Lasting DEF DeliveryInv, MergedIsCovered
    <3>2. PICK base \in Bases : delivery[<<base, pr.head>>] # Absent
      BY <2>1 DEF DeliveryInv, MergedIsCovered
    <3>3. pr.head \in Heads
      BY <1>1 DEF MergeTypeOK
    <3>4. delivery'[<<base, pr.head>>] # Absent
      BY <3>2, <3>3, Lasting DEF DeliveryInv
    <3> QED
      BY <3>1, <3>2, <3>4 DEF MergedIsCovered
  <2>2. ASSUME NEW c \in Callers, Squash(c) PROVE MergedIsCovered'
    <3>1. CallInv(c) /\ merge[c] \in Calls
      BY <1>1, <2>2, InGear DEF Squash, Before, Steps, DeliveryInv
    <3>2. /\ pr.head = merge[c].head
          /\ pr.head \in Reviewed
          /\ merge[c].base \in Bases
          /\ delivery[<<merge[c].base, pr.head>>] # Absent
          /\ delivery' = delivery
      BY <2>2, <3>1
      DEF Squash, Accepts, Live, Before, CallInv, CarriesReviewed, HasRecord, Underway, Calls
    <3>3. pr'.head = pr.head
      <4>1. pr \in PullRequests /\ pr' = [pr EXCEPT !.state = "MERGED"]
        BY <1>1, <2>2 DEF Squash, MergeTypeOK, PullRequests
      <4> QED
        BY <4>1 DEF PullRequests
    <3> QED
      BY <3>2, <3>3 DEF MergedIsCovered
  <2>3. pr.state # "MERGED" /\ pr'.state = "MERGED" => \E c \in Callers : Squash(c)
    <3>1. ASSUME NEW head, Push(head) PROVE pr'.state = pr.state
      BY <1>1, <3>1 DEF Push, MergeTypeOK
    <3>2. ASSUME NEW base, Retarget(base) PROVE pr'.state = pr.state
      BY <1>1, <3>2 DEF Retarget, MergeTypeOK
    <3>3. ASSUME Close PROVE pr'.state = "CLOSED"
      BY <1>1, <3>3 DEF Close, MergeTypeOK
    <3>4. \/ pr' = pr
          \/ Close
          \/ \E x : Push(x) \/ Retarget(x)
          \/ \E c \in Callers : Squash(c)
      BY DEF Next, CallStep, Review, ReadForge, GateEvaluate, Decide, ReadBase, PayEvaluate,
             PayRead, Pay, Mark, ReadAgain, Record, LastBarrier, SquashRefused, Finalize,
             Break, Forge, Judge, LoseEvidence, Preview, EngageFlag,
             EngageBarrier, StopEnds, environment, rest, mvars, vars
    <3> QED
      BY <3>1, <3>2, <3>3, <3>4
  <2> QED
    BY <2>1, <2>2, <2>3 DEF MergedIsCovered
<1>6. RecordsAreTrue'
  <2>1. ASSUME NEW k \in Bases \X Heads, delivery'[k].pr_state = "MERGED"
        PROVE  MergedAt(k[2])
    <3>1. CASE delivery[k].pr_state = "MERGED"
      BY <3>1 DEF DeliveryInv, RecordsAreTrue
    <3>2. CASE delivery[k].pr_state # "MERGED"
      <4>1. PICK c \in Callers : Finalize(c)
        <5>1. \/ delivery' = delivery
              \/ \E i, row : row.pr_state # "MERGED" /\ Upsert(i, row)
              \/ \E c \in Callers : Finalize(c)
          <6>1. /\ Row("OPEN", "AUTHORIZED").pr_state # "MERGED"
                /\ \A state : Row("NONE", state).pr_state # "MERGED"
            BY DEF Row
          <6> QED
            BY <6>1
            DEF Next, CallStep, Review, ReadForge, GateEvaluate, Decide, ReadBase, PayEvaluate,
                PayRead, Pay, Mark, ReadAgain, Record, LastBarrier, Squash,
                SquashRefused, Break, Forge, Push, Retarget, Close, Judge, LoseEvidence, Preview,
                EngageFlag, EngageBarrier, StopEnds, environment, rest, mvars, vars
        <5>2. ASSUME NEW i, NEW row, row.pr_state # "MERGED", Upsert(i, row) PROVE FALSE
          BY <1>1, <2>1, <3>2, <5>2 DEF Upsert, MergeTypeOK
        <5> QED
          BY <2>1, <3>2, <5>1, <5>2
      <4>2. k = Key(c)
        BY <1>1, <2>1, <3>2, <4>1 DEF Finalize, Upsert, MergeTypeOK
      <4>3. CallInv(c) /\ merge[c].step = "finalize"
        BY <4>1 DEF Finalize, Before, DeliveryInv
      <4> QED
        BY <4>2, <4>3 DEF CallInv, HasMerged, Key, MergedAt
    <3> QED
      BY <3>1, <3>2
  <2>2. ASSUME NEW head, MergedAt(head) PROVE MergedAt(head)'
    BY <2>2, Lasting DEF DeliveryInv, MergedAt
  <2> QED
    BY <2>1, <2>2 DEF RecordsAreTrue
<1> QED
  BY <1>2, <1>3, <1>4, <1>5, <1>6 DEF DeliveryInv

-----------------------------------------------------------------------------
(* Theorems *)

LEMMA DeliveryInvariant == Spec => [](GrantInv /\ DeliveryInv)
<1>1. Init => GrantInv /\ DeliveryInv
  BY GrantInitially, DeliveryInitially DEF Init
<1>2. GrantInv /\ DeliveryInv /\ [Next]_vars => GrantInv' /\ DeliveryInv'
  BY DeliveryInductive
<1> QED
  BY <1>1, <1>2, PTL DEF Spec

\* Every variable keeps its type, whatever GitHub, the owner and Emergency Stop do.
THEOREM MergeTypeCorrect == Spec => []TypeOK
<1>1. DeliveryInv => TypeOK
  BY DEF DeliveryInv
<1> QED
  BY <1>1, DeliveryInvariant, PTL

\* To the grant, merge calls are callers like any other: what is proved of one grant in
\* GrantsProofs holds of it when merges are paid from it.
THEOREM MergeUsesGrant == Spec => GrantSpec
<1>1. Init => GrantInit
  BY DEF Init
<1>2. DeliveryInv /\ [Next]_vars => [GrantNext]_gvars
  BY StepOfGrant DEF DeliveryInv, TypeOK
<1> QED
  BY <1>1, <1>2, DeliveryInvariant, PTL DEF Spec, GrantSpec

\* A merged head always has a delivery row: it was written before the squash, and neither a
\* later push, a crash nor another call can separate the two.
THEOREM RecordComesFirst == Spec => []MergeIsRecorded
<1>1. DeliveryInv => MergeIsRecorded
  BY DEF DeliveryInv, MergedIsCovered, MergeIsRecorded
<1> QED
  BY <1>1, DeliveryInvariant, PTL

\* Only a reviewed head is ever merged: every call carries the head it was reviewed for, and
\* GitHub is told to match it.
THEOREM OnlyReviewedMerges == Spec => []MergedIsReviewed
<1>1. DeliveryInv => MergedIsReviewed
  BY DEF DeliveryInv, MergedIsCovered, MergedIsReviewed
<1> QED
  BY <1>1, DeliveryInvariant, PTL

\* A delivery row never shows a merge that did not happen: previews reset its pr_state, whatever
\* merge state their client reports, and only a call GitHub has answered sets it to MERGED.
THEOREM RecordsTrue == Spec => []RecordsAreTrue
<1>1. DeliveryInv => RecordsAreTrue
  BY DEF DeliveryInv
<1> QED
  BY <1>1, DeliveryInvariant, PTL

\* Emergency Stop holds every merge that could see it before the squash: the last barrier is
\* the only way there.
THEOREM StopHolds == Spec => StopHoldsMerges
<1>1. DeliveryInv => [\A c \in caught : ~(merge[c].step = "squash" /\ merge'[c].step = "finalize")]_vars
  BY DEF DeliveryInv, TypeOK, MergeTypeOK, CallInv, HeldBack
<1> QED
  BY <1>1, DeliveryInvariant, PTL DEF StopHoldsMerges

=============================================================================
