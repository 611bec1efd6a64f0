-------------------------- MODULE WorkOrdersProofs --------------------------
(***************************************************************************)
(* One active order per worktree and no lost or doubled lease, for any     *)
(* number of orders and of overlapping calls.                              *)
(***************************************************************************)
EXTENDS WorkOrders, SequenceTheorems, TLAPS

Points == {"read", "acquire", "readback", "update", "undo", "free", "refresh"}
Moves == Statuses \cup {"release"}

\* What a transition read stays true of the order as long as its version does (the WHERE clause
\* of phase 3 rests on this).
ReadStands ==
  \A c \in Calls : call[c].pc \in {"acquire", "readback", "update"} =>
    /\ call[c].base <= version[call[c].order]
    /\ version[call[c].order] = call[c].base =>
         status[call[c].order] = call[c].from /\ leaseId[call[c].order] = call[c].prev
    /\ To(c) = "release" \/ To(c) \in ValidNext[call[c].from]

\* A lease is taken only to enter active, and no order enters active without one.
TakenToEnter ==
  \A c \in Calls :
    /\ call[c].pc \in {"acquire", "readback"} => To(c) = "active" /\ call[c].prev = 0
    /\ call[c].pc = "update" =>
         \/ call[c].got = call[c].prev /\ (To(c) = "active" => call[c].got # 0)
         \/ To(c) = "active" /\ call[c].prev = 0 /\ call[c].got # 0
    /\ call[c].pc = "free" => call[c].prev # 0

\* The call has a lease that no order names: taken and not yet recorded, or recorded away and
\* not yet released.
Owns(c) ==
  \/ call[c].pc \in {"readback", "undo", "free"}
  \/ call[c].pc = "update" /\ call[c].got # call[c].prev

LeaseOf(c) == IF call[c].pc = "free" THEN call[c].prev ELSE call[c].got

\* Until an Emergency Stop a call that owns a lease is alone with the active one.
OwnersAreAlone ==
  stops = 0 => \A c \in Calls : Owns(c) =>
    /\ active # 0
    /\ \A o \in Orders : leaseId[o] = 0
    /\ \A d \in Calls : Owns(d) => d = c
    /\ call[c].pc # "readback" => LeaseOf(c) = active

\* An order in work names a lease, until a stop or a stray release.
WritersNameLease ==
  stops = 0 /\ ~stray => \A o \in Orders : status[o] \in Writing => leaseId[o] # 0

\* Without a crash the active lease is named by an order or owned by a call.
ActiveIsKept ==
  crashes = 0 /\ active # 0 =>
    \/ \E o \in Orders : leaseId[o] = active
    \/ \E c \in Calls : call[c].pc = "readback" \/ (Owns(c) /\ LeaseOf(c) = active)

StopIsCounted == engage = "listed" => stops # 0

IInv ==
  /\ TypeOK /\ ReadStands /\ TakenToEnter /\ StopIsCounted
  /\ NamedLeaseIsActive /\ OwnersAreAlone
  /\ RestingNamesNoLease /\ WritersNameLease /\ ActiveIsKept

-----------------------------------------------------------------------------
\* What the proofs use of the table of transitions (workorders.py VALID_TRANSITIONS).
LEMMA Table ==
  ASSUME NEW s \in Statuses, NEW t \in ValidNext[s]
  PROVE  /\ t \in Statuses
         /\ s \in LeaseHeld => t \in LeaseHeld \cup Closed \cup {"blocked"}
         /\ t = "checkpointed" => s = "active"
BY DEF ValidNext, Statuses, LeaseHeld, Closed

\* The first move of a call that does something, and the record of that call.
LEMMA BusyCall ==
  ASSUME TypeOK, NEW c \in Calls, call[c].pc # "idle"
  PROVE  call[c] \in Busy /\ call[c].moves \in Seq(Moves) /\ call[c].moves # <<>> /\ To(c) \in Moves
<1>1. call[c] \in Busy
  BY DEF TypeOK, Idle
<1>2. call[c] # Idle
  BY DEF Idle
<1>3. call[c].moves \in Seq(Moves) /\ call[c].moves # <<>>
  BY <1>1, <1>2 DEF TypeOK, Busy, Moves
<1> QED
  BY <1>1, <1>3 DEF To

\* A call that goes on keeps all but its point.
LEMMA GoesOn ==
  ASSUME TypeOK, NEW c \in Calls, call[c].pc # "idle", NEW p \in Points, Goto(c, p)
  PROVE  /\ call' \in [Calls -> Busy \cup {Idle}]
         /\ \A d \in Calls : call'[d] # Idle => call'[d].moves # <<>>
         /\ \A d \in Calls : d # c => call'[d] = call[d]
         /\ call'[c].pc = p
         /\ call'[c].order = call[c].order /\ call'[c].moves = call[c].moves
         /\ call'[c].from = call[c].from /\ call'[c].base = call[c].base
         /\ call'[c].prev = call[c].prev /\ call'[c].got = call[c].got
         /\ call'[c] \in Busy
<1> DEFINE r == [call[c] EXCEPT !.pc = p]
<1>1. call[c] \in Busy /\ call[c].moves # <<>>
  BY BusyCall
<1>2. /\ r \in Busy /\ r.pc = p /\ r.order = call[c].order /\ r.moves = call[c].moves
      /\ r.from = call[c].from /\ r.base = call[c].base /\ r.prev = call[c].prev /\ r.got = call[c].got
  BY <1>1 DEF Busy, Points
<1>3. call' = [call EXCEPT ![c] = r] /\ call \in [Calls -> Busy \cup {Idle}]
  BY DEF Goto, TypeOK
<1> HIDE DEF r
<1>4. call'[c] = r /\ \A d \in Calls : d # c => call'[d] = call[d]
  BY <1>3
<1>5. call' \in [Calls -> Busy \cup {Idle}]
  BY <1>2, <1>3
<1>6. \A d \in Calls : call'[d] # Idle => call'[d].moves # <<>>
  BY <1>1, <1>2, <1>4 DEF TypeOK
<1> QED
  BY <1>2, <1>4, <1>5, <1>6

\* A call that ends.
LEMMA Ends ==
  ASSUME TypeOK, NEW c \in Calls, Finish(c)
  PROVE  /\ call' \in [Calls -> Busy \cup {Idle}]
         /\ \A d \in Calls : call'[d] # Idle => call'[d].moves # <<>>
         /\ \A d \in Calls : d # c => call'[d] = call[d]
         /\ call'[c].pc = "idle"
<1>1. call'[c] = Idle /\ call' \in [Calls -> Busy \cup {Idle}]
      /\ \A d \in Calls : d # c => call'[d] = call[d]
  BY DEF Finish, TypeOK
<1>2. call'[c].pc = "idle"
  BY <1>1 DEF Idle
<1> QED
  BY <1>1, <1>2 DEF TypeOK

\* A call that starts on the first of its moves.
LEMMA Starts ==
  ASSUME TypeOK, NEW c \in Calls, NEW o \in Orders, NEW moves \in Seq(Moves), moves # <<>>,
         NEW expected \in Nat, Start(c, o, moves, expected)
  PROVE  /\ call' \in [Calls -> Busy \cup {Idle}]
         /\ \A d \in Calls : call'[d] # Idle => call'[d].moves # <<>>
         /\ \A d \in Calls : d # c => call'[d] = call[d]
         /\ call'[c].pc = "read"
<1> DEFINE r == [pc |-> "read", order |-> o, moves |-> moves, expected |-> expected,
                 from |-> "draft", base |-> 0, prev |-> 0, got |-> 0]
<1>1. r \in Busy /\ r.moves # <<>> /\ r.pc = "read"
  BY DEF Busy, Moves, Statuses
<1>2. call' = [call EXCEPT ![c] = r]
  BY DEF Start
<1> HIDE DEF r
<1>3. call'[c] = r /\ call' \in [Calls -> Busy \cup {Idle}]
      /\ \A d \in Calls : d # c => call'[d] = call[d]
  BY <1>1, <1>2 DEF TypeOK
<1> QED
  BY <1>1, <1>3 DEF TypeOK

-----------------------------------------------------------------------------
(* Each step keeps the invariant.  Other calls keep what they know because no step of c touches *)
(* their record; what they read of an order stands as long as its version does.                 *)

\* A step of a call that changes no order, no lease and no counter but that of crashes, and after
\* which the call owns nothing it did not own and has read nothing.
LEMMA QuietStep ==
  ASSUME IInv, TypeOK', NEW c \in Calls, UNCHANGED <<orderVars, leaseVars, stopVars, stray>>,
         \A d \in Calls : d # c => call'[d] = call[d],
         call'[c].pc \in {"idle", "read"},
         \/ crashes' = crashes + 1
         \/ /\ crashes' = crashes
            /\ ~(call[c].pc = "readback" /\ active # 0)
            /\ ~(Owns(c) /\ LeaseOf(c) = active /\ active # 0)
  PROVE  IInv'
<1> USE DEF IInv, orderVars, leaseVars, stopVars
<1>1. ReadStands' /\ TakenToEnter'
  BY DEF ReadStands, TakenToEnter, To
<1>2. StopIsCounted' /\ NamedLeaseIsActive' /\ RestingNamesNoLease' /\ WritersNameLease'
  BY DEF StopIsCounted, NamedLeaseIsActive, RestingNamesNoLease, WritersNameLease
<1>3. \A d \in Calls : Owns(d)' => d # c /\ Owns(d) /\ LeaseOf(d)' = LeaseOf(d)
  BY DEF Owns, LeaseOf
<1>4. OwnersAreAlone'
  BY <1>3 DEF OwnersAreAlone, Owns, LeaseOf
<1>5. ActiveIsKept'
  <2>1. CASE crashes' = crashes + 1
    BY <2>1 DEF ActiveIsKept, TypeOK
  <2>2. CASE crashes' = crashes /\ ~(call[c].pc = "readback" /\ active # 0)
                                /\ ~(Owns(c) /\ LeaseOf(c) = active /\ active # 0)
    BY <2>2 DEF ActiveIsKept, Owns, LeaseOf
  <2> QED
    BY <2>1, <2>2
<1> QED
  BY <1>1, <1>2, <1>4, <1>5

LEMMA RequestKeeps ==
  ASSUME IInv, NEW c \in Calls, NEW o \in Orders,
         RequestRotation(c, o) \/ \E to \in Statuses : RequestMove(c, o, to)
  PROVE  IInv'
<1>1. call[c].pc = "idle" /\ UNCHANGED <<orderVars, leaseVars, stopVars, crashes, stray>>
  <2>1. call[c] = Idle /\ UNCHANGED <<orderVars, leaseVars, stopVars, crashes, stray>>
    BY DEF RequestRotation, RequestMove
  <2> QED
    BY <2>1 DEF Idle
<1>2. PICK moves \in Seq(Moves), expected \in Nat : moves # <<>> /\ Start(c, o, moves, expected)
  <2>1. CASE RequestRotation(c, o)
    <3>1. version[o] \in Nat
      BY DEF IInv, TypeOK
    <3> DEFINE moves == IF status[o] = "active" THEN <<"checkpointed", "handoff_ready", "release">>
                                                ELSE <<"handoff_ready", "release">>
    <3>2. moves \in Seq(Moves) /\ moves # <<>>
      <4>1. {"checkpointed", "handoff_ready", "release"} \subseteq Moves
        BY DEF Moves, Statuses
      <4>2. /\ <<"checkpointed", "handoff_ready", "release">> \in Seq(Moves)
            /\ <<"handoff_ready", "release">> \in Seq(Moves)
        BY <4>1
      <4>3. /\ <<"checkpointed", "handoff_ready", "release">> # <<>>
            /\ <<"handoff_ready", "release">> # <<>>
        OBVIOUS
      <4> QED
        BY <4>2, <4>3
    <3>3. Start(c, o, moves, version[o])
      BY <2>1 DEF RequestRotation
    <3> HIDE DEF moves
    <3> QED
      BY <3>1, <3>2, <3>3
  <2>2. ASSUME NEW to \in Statuses, RequestMove(c, o, to)
        PROVE  \E moves \in Seq(Moves), expected \in Nat : moves # <<>> /\ Start(c, o, moves, expected)
    <3>1. <<to>> \in Seq(Moves) /\ <<to>> # <<>>
      BY DEF Moves
    <3>2. Start(c, o, <<to>>, 0)
      BY <2>2 DEF RequestMove
    <3> QED
      BY <3>1, <3>2
  <2> QED
    BY <2>1, <2>2
<1>3. /\ call' \in [Calls -> Busy \cup {Idle}]
      /\ \A d \in Calls : call'[d] # Idle => call'[d].moves # <<>>
      /\ \A d \in Calls : d # c => call'[d] = call[d]
      /\ call'[c].pc = "read"
  BY <1>2, Starts DEF IInv
<1>4. TypeOK'
  BY <1>1, <1>3 DEF IInv, TypeOK, orderVars, leaseVars, stopVars
<1>5. crashes' = crashes /\ ~Owns(c) /\ call[c].pc # "readback"
  BY <1>1 DEF Owns
<1> QED
  BY <1>1, <1>3, <1>4, <1>5, QuietStep

\* A call that ends owns nothing.
LEMMA EndKeeps ==
  ASSUME IInv, NEW c \in Calls, Finish(c), UNCHANGED <<orderVars, leaseVars, stopVars, stray>>,
         \/ crashes' = crashes /\ ~(call[c].pc = "readback" /\ active # 0)
                               /\ ~(Owns(c) /\ LeaseOf(c) = active /\ active # 0)
         \/ crashes' = crashes + 1
  PROVE  IInv'
<1>1. /\ call' \in [Calls -> Busy \cup {Idle}]
      /\ \A d \in Calls : call'[d] # Idle => call'[d].moves # <<>>
      /\ \A d \in Calls : d # c => call'[d] = call[d]
      /\ call'[c].pc = "idle"
  BY Ends DEF IInv
<1>2. TypeOK'
  BY <1>1 DEF IInv, TypeOK, orderVars, leaseVars, stopVars
<1> QED
  BY <1>1, <1>2, QuietStep

LEMMA ReadKeeps ==
  ASSUME IInv, NEW c \in Calls, Read(c)
  PROVE  IInv'
<1> DEFINE o == call[c].order
           p == IF NeedsLease(c, o) THEN "acquire" ELSE "update"
           r == [call[c] EXCEPT !.pc = p, !.from = status[o], !.base = version[o],
                                !.prev = leaseId[o], !.got = leaseId[o]]
<1>1. call[c].pc = "read" /\ UNCHANGED <<orderVars, leaseVars, stopVars, crashes, stray>>
  BY DEF Read
<1>2. CASE ~Permitted(c, o)
  <2>1. Finish(c) /\ ~Owns(c)
    BY <1>1, <1>2 DEF Read, Owns
  <2> QED
    BY <1>1, <2>1, EndKeeps
<1>3. CASE Permitted(c, o)
  <2>1. call' = [call EXCEPT ![c] = r]
    BY <1>3 DEF Read
  <2>2. call[c] \in Busy /\ call[c].moves # <<>> /\ To(c) \in Moves
    BY <1>1, BusyCall DEF IInv
  <2>3. o \in Orders
    BY <2>2 DEF Busy
  <2>4. status[o] \in Statuses /\ version[o] \in Nat /\ leaseId[o] \in Nat
    BY <2>3 DEF IInv, TypeOK
  <2>5. /\ r \in Busy /\ r.pc = p /\ r.order = o /\ r.moves = call[c].moves /\ r.from = status[o]
        /\ r.base = version[o] /\ r.prev = leaseId[o] /\ r.got = leaseId[o]
    BY <2>2, <2>3, <2>4 DEF Busy
  <2> HIDE DEF r
  <2>6. call'[c] = r /\ call' \in [Calls -> Busy \cup {Idle}]
        /\ \A d \in Calls : d # c => call'[d] = call[d]
    BY <2>1, <2>5 DEF IInv, TypeOK
  <2>7. TypeOK'
    BY <1>1, <2>2, <2>5, <2>6 DEF IInv, TypeOK, orderVars, leaseVars, stopVars
  <2>8. To(c)' = To(c)
    BY <2>5, <2>6 DEF To
  <2>9. To(c) = "release" \/ To(c) \in ValidNext[status[o]]
    BY <1>3 DEF Permitted
  <2>10. ReadStands'
    <3>1. \A d \in Calls : d # c => To(d)' = To(d)
      BY <2>6 DEF To
    <3> QED
      BY <1>1, <2>4, <2>5, <2>6, <2>8, <2>9, <3>1 DEF IInv, ReadStands, orderVars
  <2>11. TakenToEnter'
    <3>1. \A d \in Calls : d # c => To(d)' = To(d)
      BY <2>6 DEF To
    <3>2. call'[c].pc = "acquire" => To(c) = "active" /\ leaseId[o] = 0
      BY <2>5, <2>6 DEF NeedsLease
    <3>3. call'[c].pc = "update" => (To(c) = "active" => leaseId[o] # 0)
      BY <2>5, <2>6 DEF NeedsLease
    <3> QED
      BY <2>5, <2>6, <2>8, <3>1, <3>2, <3>3 DEF IInv, TakenToEnter
  <2>12. \A d \in Calls : Owns(d)' => d # c /\ Owns(d) /\ LeaseOf(d)' = LeaseOf(d)
    BY <2>5, <2>6 DEF Owns, LeaseOf
  <2>13. \A d \in Calls : Owns(d) => d # c /\ Owns(d)' /\ LeaseOf(d)' = LeaseOf(d)
    BY <1>1, <2>6 DEF Owns, LeaseOf
  <2>14. OwnersAreAlone'
    BY <1>1, <2>6, <2>12 DEF IInv, OwnersAreAlone, orderVars, leaseVars, stopVars
  <2>15. ActiveIsKept'
    BY <1>1, <2>6, <2>13 DEF IInv, ActiveIsKept, orderVars, leaseVars
  <2>16. StopIsCounted' /\ NamedLeaseIsActive' /\ RestingNamesNoLease' /\ WritersNameLease'
    BY <1>1 DEF IInv, StopIsCounted, NamedLeaseIsActive, RestingNamesNoLease, WritersNameLease,
                orderVars, leaseVars, stopVars
  <2> QED
    BY <2>7, <2>10, <2>11, <2>14, <2>15, <2>16 DEF IInv
<1> QED
  BY <1>2, <1>3

LEMMA AcquireKeeps ==
  ASSUME IInv, NEW c \in Calls, Acquire(c)
  PROVE  IInv'
<1>1. /\ call[c].pc = "acquire" /\ active = 0 /\ active' = nextId /\ nextId' = nextId + 1
      /\ Goto(c, "readback") /\ UNCHANGED <<orderVars, stopVars, crashes, stray>>
  BY DEF Acquire, Free
<1> USE DEF orderVars, leaseVars, stopVars
<1>2. nextId \in Nat \ {0} /\ active' # 0
  BY <1>1 DEF IInv, TypeOK
<1>3. /\ call' \in [Calls -> Busy \cup {Idle}]
      /\ \A d \in Calls : call'[d] # Idle => call'[d].moves # <<>>
      /\ \A d \in Calls : d # c => call'[d] = call[d]
      /\ call'[c].pc = "readback"
      /\ call'[c].order = call[c].order /\ call'[c].moves = call[c].moves
      /\ call'[c].from = call[c].from /\ call'[c].base = call[c].base
      /\ call'[c].prev = call[c].prev /\ call'[c].got = call[c].got
  BY <1>1, GoesOn DEF IInv, Points
<1>4. TypeOK'
  BY <1>1, <1>2, <1>3 DEF IInv, TypeOK
<1>5. \A d \in Calls : To(d)' = To(d)
  BY <1>3 DEF To
<1>6. ReadStands' /\ TakenToEnter'
  BY <1>1, <1>3, <1>5 DEF IInv, ReadStands, TakenToEnter
<1>7. stops = 0 => (\A o \in Orders : leaseId[o] = 0) /\ \A d \in Calls : ~Owns(d)
  BY <1>1 DEF IInv, NamedLeaseIsActive, OwnersAreAlone
<1>8. \A d \in Calls : d # c => (Owns(d)' <=> Owns(d))
  BY <1>3 DEF Owns
<1>9. OwnersAreAlone' /\ NamedLeaseIsActive'
  BY <1>1, <1>2, <1>3, <1>7, <1>8 DEF OwnersAreAlone, NamedLeaseIsActive
<1>10. StopIsCounted' /\ RestingNamesNoLease' /\ WritersNameLease'
  BY <1>1 DEF IInv, StopIsCounted, RestingNamesNoLease, WritersNameLease
<1>11. ActiveIsKept'
  BY <1>3 DEF ActiveIsKept
<1> QED
  BY <1>4, <1>6, <1>9, <1>10, <1>11 DEF IInv

LEMMA ReadBackKeeps ==
  ASSUME IInv, NEW c \in Calls, ReadBack(c)
  PROVE  IInv'
<1> DEFINE r == [call[c] EXCEPT !.pc = "update", !.got = active]
<1>1. call[c].pc = "readback" /\ UNCHANGED <<orderVars, leaseVars, stopVars, crashes, stray>>
  BY DEF ReadBack
<1>2. CASE active = 0
  BY <1>1, <1>2, EndKeeps DEF ReadBack
<1>3. CASE active # 0
  <2> USE DEF orderVars, leaseVars, stopVars
  <2>1. call' = [call EXCEPT ![c] = r]
    BY <1>3 DEF ReadBack
  <2>2. call[c] \in Busy /\ call[c].moves # <<>> /\ active \in Nat
    BY <1>1, BusyCall DEF IInv, TypeOK
  <2>3. /\ r \in Busy /\ r.pc = "update" /\ r.order = call[c].order /\ r.moves = call[c].moves
        /\ r.from = call[c].from /\ r.base = call[c].base /\ r.prev = call[c].prev /\ r.got = active
    BY <2>2 DEF Busy
  <2> HIDE DEF r
  <2>4. call'[c] = r /\ call' \in [Calls -> Busy \cup {Idle}]
        /\ \A d \in Calls : d # c => call'[d] = call[d]
    BY <2>1, <2>3 DEF IInv, TypeOK
  <2>5. TypeOK'
    BY <1>1, <2>2, <2>3, <2>4 DEF IInv, TypeOK
  <2>6. \A d \in Calls : To(d)' = To(d)
    BY <2>3, <2>4 DEF To
  <2>7. To(c) = "active" /\ call[c].prev = 0
    BY <1>1 DEF IInv, TakenToEnter
  <2>8. ReadStands'
    BY <1>1, <2>3, <2>4, <2>6 DEF IInv, ReadStands
  <2>9. TakenToEnter'
    BY <1>3, <2>3, <2>4, <2>6, <2>7 DEF IInv, TakenToEnter
  <2>10. \A d \in Calls : d # c => (Owns(d)' <=> Owns(d)) /\ LeaseOf(d)' = LeaseOf(d)
    BY <2>4 DEF Owns, LeaseOf
  <2>11. Owns(c) /\ Owns(c)' /\ LeaseOf(c)' = active
    BY <1>1, <1>3, <2>3, <2>4, <2>7 DEF Owns, LeaseOf
  <2>12. OwnersAreAlone'
    BY <1>1, <2>4, <2>10, <2>11 DEF IInv, OwnersAreAlone
  <2>13. ActiveIsKept'
    BY <1>1, <2>11 DEF ActiveIsKept
  <2>14. StopIsCounted' /\ NamedLeaseIsActive' /\ RestingNamesNoLease' /\ WritersNameLease'
    BY <1>1 DEF IInv, StopIsCounted, NamedLeaseIsActive, RestingNamesNoLease, WritersNameLease
  <2> QED
    BY <2>5, <2>8, <2>9, <2>12, <2>13, <2>14 DEF IInv
<1> QED
  BY <1>2, <1>3

\* The update is lost: a lease taken for it is given back, one the order had is not.
LEMMA UpdateConflictKeeps ==
  ASSUME IInv, NEW c \in Calls, UpdateConflict(c)
  PROVE  IInv'
<1>1. call[c].pc = "update" /\ UNCHANGED <<orderVars, leaseVars, stopVars, crashes, stray>>
  BY DEF UpdateConflict
<1>2. CASE call[c].got = call[c].prev
  <2>1. Finish(c) /\ ~Owns(c)
    BY <1>1, <1>2 DEF UpdateConflict, Owns
  <2> QED
    BY <1>1, <2>1, EndKeeps
<1>3. CASE call[c].got # call[c].prev
  <2> USE DEF orderVars, leaseVars, stopVars
  <2>1. Goto(c, "undo")
    BY <1>3 DEF UpdateConflict
  <2>2. /\ call' \in [Calls -> Busy \cup {Idle}]
        /\ \A d \in Calls : call'[d] # Idle => call'[d].moves # <<>>
        /\ \A d \in Calls : d # c => call'[d] = call[d]
        /\ call'[c].pc = "undo" /\ call'[c].got = call[c].got
    BY <1>1, <2>1, GoesOn DEF IInv, Points
  <2>3. TypeOK'
    BY <1>1, <2>2 DEF IInv, TypeOK
  <2>4. \A d \in Calls : d # c => To(d)' = To(d)
    BY <2>2 DEF To
  <2>5. ReadStands' /\ TakenToEnter'
    BY <1>1, <2>2, <2>4 DEF IInv, ReadStands, TakenToEnter
  <2>6. \A d \in Calls : (Owns(d)' <=> Owns(d)) /\ LeaseOf(d)' = LeaseOf(d)
                       /\ (call'[d].pc = "readback" <=> call[d].pc = "readback")
    BY <1>1, <1>3, <2>2 DEF Owns, LeaseOf
  <2>7. OwnersAreAlone' /\ ActiveIsKept'
    BY <1>1, <2>6 DEF IInv, OwnersAreAlone, ActiveIsKept
  <2>8. StopIsCounted' /\ NamedLeaseIsActive' /\ RestingNamesNoLease' /\ WritersNameLease'
    BY <1>1 DEF IInv, StopIsCounted, NamedLeaseIsActive, RestingNamesNoLease, WritersNameLease
  <2> QED
    BY <2>3, <2>5, <2>7, <2>8 DEF IInv
<1> QED
  BY <1>2, <1>3

\* A lease is released by the call that owns it, or was released before.
LEMMA GiveUpKeeps ==
  ASSUME IInv, NEW c \in Calls, Owns(c), call[c].pc \in {"undo", "free"},
         active' = Without(LeaseOf(c)),
         UNCHANGED <<orderVars, nextId, stopVars, crashes, stray>>,
         call' \in [Calls -> Busy \cup {Idle}],
         \A d \in Calls : call'[d] # Idle => call'[d].moves # <<>>,
         \A d \in Calls : d # c => call'[d] = call[d],
         call'[c].pc \in {"idle", "refresh"}
  PROVE  IInv'
<1> USE DEF orderVars, stopVars
<1>1. active' = 0 \/ (active' = active /\ active # LeaseOf(c))
  BY DEF Without
<1>2. TypeOK'
  BY <1>1 DEF IInv, TypeOK
<1>3. ReadStands' /\ TakenToEnter'
  <2>1. \A d \in Calls : d # c => To(d)' = To(d)
    BY DEF To
  <2> QED
    BY <2>1 DEF IInv, ReadStands, TakenToEnter
<1>4. \A d \in Calls : Owns(d)' => d # c /\ Owns(d)
  BY DEF Owns
<1>5. \A d \in Calls : d # c => (Owns(d)' <=> Owns(d)) /\ LeaseOf(d)' = LeaseOf(d)
  BY DEF Owns, LeaseOf
<1>6. stops = 0 => (\A o \in Orders : leaseId[o] = 0) /\ \A d \in Calls : ~Owns(d)'
  BY <1>4 DEF IInv, OwnersAreAlone
<1>7. OwnersAreAlone' /\ NamedLeaseIsActive'
  BY <1>6 DEF OwnersAreAlone, NamedLeaseIsActive
<1>8. ActiveIsKept'
  BY <1>1, <1>5 DEF IInv, ActiveIsKept
<1>9. StopIsCounted' /\ RestingNamesNoLease' /\ WritersNameLease'
  BY DEF IInv, StopIsCounted, RestingNamesNoLease, WritersNameLease
<1> QED
  BY <1>2, <1>3, <1>7, <1>8, <1>9 DEF IInv

LEMMA UndoKeeps ==
  ASSUME IInv, NEW c \in Calls, Undo(c)
  PROVE  IInv'
<1>1. /\ call[c].pc = "undo" /\ active' = Without(call[c].got) /\ Finish(c)
      /\ UNCHANGED <<orderVars, nextId, stopVars, crashes, stray>>
  BY DEF Undo, GiveBack
<1>2. Owns(c) /\ LeaseOf(c) = call[c].got
  BY <1>1 DEF Owns, LeaseOf
<1>3. /\ call' \in [Calls -> Busy \cup {Idle}]
      /\ \A d \in Calls : call'[d] # Idle => call'[d].moves # <<>>
      /\ \A d \in Calls : d # c => call'[d] = call[d]
      /\ call'[c].pc = "idle"
  BY <1>1, Ends DEF IInv
<1> QED
  BY <1>1, <1>2, <1>3, GiveUpKeeps

LEMMA ReleasePreviousKeeps ==
  ASSUME IInv, NEW c \in Calls, ReleasePrevious(c)
  PROVE  IInv'
<1>1. /\ call[c].pc = "free" /\ active' = Without(call[c].prev) /\ Goto(c, "refresh")
      /\ UNCHANGED <<orderVars, nextId, stopVars, crashes, stray>>
  BY DEF ReleasePrevious
<1>2. Owns(c) /\ LeaseOf(c) = call[c].prev
  BY <1>1 DEF Owns, LeaseOf
<1>3. /\ call' \in [Calls -> Busy \cup {Idle}]
      /\ \A d \in Calls : call'[d] # Idle => call'[d].moves # <<>>
      /\ \A d \in Calls : d # c => call'[d] = call[d]
      /\ call'[c].pc = "refresh"
  BY <1>1, GoesOn DEF IInv, Points
<1> QED
  BY <1>1, <1>2, <1>3, GiveUpKeeps

LEMMA RefreshKeeps ==
  ASSUME IInv, NEW c \in Calls, Refresh(c)
  PROVE  IInv'
<1>1. call[c].pc = "refresh" /\ UNCHANGED <<orderVars, leaseVars, stopVars, crashes, stray>>
  BY DEF Refresh
<1>2. ~Owns(c)
  BY <1>1 DEF Owns
<1>3. CASE Done(c)
  BY <1>1, <1>2, <1>3, EndKeeps DEF Refresh
<1>4. CASE ~Done(c)
  <2>1. call[c] \in Busy /\ call[c].moves \in Seq(Moves) /\ call[c].moves # <<>>
    BY <1>1, BusyCall DEF IInv
  <2>2. call[c].order \in Orders
    BY <2>1 DEF Busy
  <2>3. version[call[c].order] \in Nat
    BY <2>2 DEF IInv, TypeOK
  <2>4. Tail(call[c].moves) \in Seq(Moves) /\ Len(Tail(call[c].moves)) = Len(call[c].moves) - 1
    BY <2>1, HeadTailProperties
  <2>5. Len(call[c].moves) \in Nat /\ Len(call[c].moves) # 0 /\ Len(call[c].moves) # 1
    BY <1>4, <2>1, EmptySeq DEF Done
  <2>6. Tail(call[c].moves) # <<>>
    <3>1. Len(Tail(call[c].moves)) # 0
      BY <2>4, <2>5
    <3> QED
      BY <2>4, <3>1, EmptySeq
  <2>7. Start(c, call[c].order, Tail(call[c].moves), version[call[c].order])
    BY <1>4 DEF Refresh
  <2>8. /\ call' \in [Calls -> Busy \cup {Idle}]
        /\ \A d \in Calls : call'[d] # Idle => call'[d].moves # <<>>
        /\ \A d \in Calls : d # c => call'[d] = call[d]
        /\ call'[c].pc = "read"
    BY <2>2, <2>3, <2>4, <2>6, <2>7, Starts DEF IInv
  <2>9. TypeOK'
    BY <1>1, <2>8 DEF IInv, TypeOK, orderVars, leaseVars, stopVars
  <2> QED
    BY <1>1, <1>2, <2>8, <2>9, QuietStep
<1> QED
  BY <1>3, <1>4

\* Phase 3 of a transition: the order changes as its caller last saw it.
LEMMA UpdateKeeps ==
  ASSUME IInv, NEW c \in Calls, Update(c)
  PROVE  IInv'
<1> DEFINE o == call[c].order
           p == IF GivesUp(c) /\ call[c].prev # 0 THEN "free" ELSE "refresh"
           to == To(c)
           got == call[c].got
           prev == call[c].prev
<1>1. /\ call[c].pc = "update" /\ version[o] = call[c].base
      /\ status' = [status EXCEPT ![o] = IF to = "release" THEN status[o] ELSE to]
      /\ version' = [version EXCEPT ![o] = call[c].base + 1]
      /\ leaseId' = [leaseId EXCEPT ![o] = NewLease(c)]
      /\ Goto(c, p)
      /\ stray' = (stray \/ (to = "release" /\ status[o] \in Writing))
      /\ UNCHANGED <<leaseVars, stopVars, crashes>>
  BY DEF Update, Unchanged
<1> USE DEF leaseVars, stopVars
<1>2. call[c] \in Busy /\ to \in Moves
  BY <1>1, BusyCall DEF IInv
<1>3. o \in Orders /\ got \in Nat /\ prev \in Nat /\ call[c].from \in Statuses
  BY <1>2 DEF Busy
<1>4. /\ status[o] = call[c].from /\ leaseId[o] = prev
      /\ to = "release" \/ to \in ValidNext[call[c].from]
  BY <1>1, <1>3 DEF IInv, ReadStands, TypeOK
<1>5. \/ got = prev /\ (to = "active" => got # 0)
      \/ to = "active" /\ prev = 0 /\ got # 0
  BY <1>1 DEF IInv, TakenToEnter
<1>6. /\ status \in [Orders -> Statuses] /\ version \in [Orders -> Nat] /\ leaseId \in [Orders -> Nat]
      /\ stray \in BOOLEAN
  BY DEF IInv, TypeOK
<1>7. p \in Points
  BY DEF Points
<1>8. /\ call' \in [Calls -> Busy \cup {Idle}]
      /\ \A d \in Calls : call'[d] # Idle => call'[d].moves # <<>>
      /\ \A d \in Calls : d # c => call'[d] = call[d]
      /\ call'[c].pc = p /\ call'[c].prev = prev
  <2>1. call[c].pc # "idle" /\ TypeOK /\ Goto(c, p)
    BY <1>1 DEF IInv
  <2> QED
    BY <1>7, <2>1, GoesOn
<1>9. /\ p \in {"free", "refresh"}
      /\ p = "free" => GivesUp(c) /\ prev # 0
      /\ p = "refresh" => ~GivesUp(c) \/ prev = 0
  OBVIOUS
<1>10. to = "active" => ~GivesUp(c)
  BY DEF GivesUp, Closed
<1>11. NewLease(c) = IF GivesUp(c) THEN 0 ELSE got
  BY DEF NewLease
<1> HIDE DEF p
<1>12. TypeOK'
  <2>1. status' \in [Orders -> Statuses]
    BY <1>1, <1>2, <1>6 DEF Moves
  <2>2. version' \in [Orders -> Nat] /\ leaseId' \in [Orders -> Nat]
    BY <1>1, <1>2, <1>3, <1>6, <1>11 DEF Busy
  <2>3. stray' \in BOOLEAN
    BY <1>1, <1>6
  <2> QED
    BY <1>1, <1>8, <2>1, <2>2, <2>3 DEF IInv, TypeOK
<1>13. ASSUME NEW d \in Calls, d # c
       PROVE  To(d)' = To(d) /\ LeaseOf(d)' = LeaseOf(d) /\ (Owns(d)' <=> Owns(d))
  BY <1>8, <1>13 DEF To, Owns, LeaseOf
<1>14. ReadStands'
  <2>1. ASSUME NEW d \in Calls, d # c, call[d].pc \in {"acquire", "readback", "update"}
        PROVE  /\ call[d].base <= version'[call[d].order]
               /\ version'[call[d].order] = call[d].base =>
                    status'[call[d].order] = call[d].from /\ leaseId'[call[d].order] = call[d].prev
    <3>1. call[d] \in Busy
      BY <2>1, BusyCall DEF IInv
    <3>2. call[d].order \in Orders /\ call[d].base \in Nat
      BY <3>1 DEF Busy
    <3>3. /\ call[d].base <= version[call[d].order]
          /\ version[call[d].order] = call[d].base =>
               status[call[d].order] = call[d].from /\ leaseId[call[d].order] = call[d].prev
      BY <2>1 DEF IInv, ReadStands
    <3>4. CASE call[d].order = o
      <4>1. version'[o] = version[o] + 1 /\ version[o] \in Nat
        BY <1>1, <1>3, <1>6
      <4> QED
        BY <3>2, <3>3, <3>4, <4>1
    <3>5. CASE call[d].order # o
      BY <1>1, <1>3, <1>6, <3>2, <3>3, <3>5
    <3> QED
      BY <3>4, <3>5
  <2> QED
    BY <1>8, <1>9, <1>13, <2>1 DEF IInv, ReadStands
<1>15. TakenToEnter'
  BY <1>8, <1>9, <1>13 DEF IInv, TakenToEnter
<1>16. (p # "free" => ~Owns(c)') /\ (p = "free" => Owns(c)')
  BY <1>8, <1>9 DEF Owns
<1>17. p = "free" => LeaseOf(c)' = prev
  BY <1>8 DEF LeaseOf
<1>18. \A q \in Orders : leaseId'[q] = IF q = o THEN NewLease(c) ELSE leaseId[q]
  BY <1>1, <1>3, <1>6
<1>19. NamedLeaseIsActive' /\ OwnersAreAlone'
  <2>1. CASE stops # 0
    BY <1>1, <2>1 DEF NamedLeaseIsActive, OwnersAreAlone
  <2>2. CASE stops = 0 /\ got # prev
    <3>1. Owns(c) /\ LeaseOf(c) = got
      BY <1>1, <2>2 DEF Owns, LeaseOf
    <3>2. /\ got = active /\ active # 0 /\ \A q \in Orders : leaseId[q] = 0
          /\ \A d \in Calls : Owns(d) => d = c
      BY <1>1, <2>2, <3>1 DEF IInv, OwnersAreAlone
    <3>3. NewLease(c) = active /\ p # "free"
      BY <1>5, <1>9, <1>10, <1>11, <2>2, <3>2
    <3>4. NamedLeaseIsActive'
      BY <1>1, <1>18, <3>2, <3>3 DEF NamedLeaseIsActive
    <3>5. ASSUME NEW d \in Calls PROVE ~Owns(d)'
      BY <1>13, <1>16, <3>2, <3>3
    <3> QED
      BY <3>4, <3>5 DEF OwnersAreAlone
  <2>3. CASE stops = 0 /\ got = prev /\ p = "free"
    <3>1. leaseId[o] = active /\ active # 0 /\ \A q \in Orders : q # o => leaseId[q] = 0
      BY <1>3, <1>4, <1>9, <2>3 DEF IInv, NamedLeaseIsActive
    <3>2. \A q \in Orders : leaseId'[q] = 0
      BY <1>9, <1>11, <1>18, <2>3, <3>1
    <3>3. \A d \in Calls : ~Owns(d)
      BY <1>3, <2>3, <3>1 DEF IInv, OwnersAreAlone
    <3>4. ASSUME NEW d \in Calls, Owns(d)' PROVE d = c
      BY <1>13, <3>3, <3>4
    <3>5. LeaseOf(c)' = active
      BY <1>4, <1>17, <2>3, <3>1
    <3> QED
      BY <1>1, <3>1, <3>2, <3>4, <3>5 DEF NamedLeaseIsActive, OwnersAreAlone
  <2>4. CASE stops = 0 /\ got = prev /\ p # "free"
    <3>1. NewLease(c) = leaseId[o]
      BY <1>4, <1>9, <1>11, <2>4
    <3>2. \A q \in Orders : leaseId'[q] = leaseId[q]
      BY <1>18, <3>1
    <3>3. ASSUME NEW d \in Calls, Owns(d)'
          PROVE  d # c /\ Owns(d) /\ LeaseOf(d)' = LeaseOf(d) /\ call'[d] = call[d]
      <4>1. d # c
        BY <1>16, <2>4, <3>3
      <4> QED
        BY <1>8, <1>13, <3>3, <4>1
    <3> QED
      BY <1>1, <3>2, <3>3 DEF IInv, NamedLeaseIsActive, OwnersAreAlone
  <2> QED
    BY <1>9, <2>1, <2>2, <2>3, <2>4
<1>20. status'[o] = IF to = "release" THEN status[o] ELSE to
  BY <1>1, <1>3, <1>6
<1>21. RestingNamesNoLease'
  <2>1. status'[o] \notin LeaseHeld => leaseId'[o] = 0
    <3> SUFFICES ASSUME status'[o] \notin LeaseHeld, to # "release" PROVE NewLease(c) = 0
      BY <1>3, <1>11, <1>18 DEF GivesUp
    <3>1. to \notin LeaseHeld /\ to \in ValidNext[call[c].from]
      BY <1>4, <1>20
    <3>2. got = prev
      BY <1>5, <3>1 DEF LeaseHeld
    <3>3. CASE prev = 0
      BY <1>11, <3>2, <3>3
    <3>4. CASE prev # 0
      <4>1. call[c].from \in LeaseHeld
        BY <1>3, <1>4, <3>4 DEF IInv, RestingNamesNoLease
      <4>2. to \in Closed \cup {"blocked"}
        BY <1>3, <3>1, <4>1, Table
      <4> QED
        BY <1>11, <3>4, <4>1, <4>2 DEF GivesUp
    <3> QED
      BY <3>3, <3>4
  <2>2. \A q \in Orders : q # o => status'[q] = status[q] /\ leaseId'[q] = leaseId[q]
    BY <1>1, <1>3, <1>6
  <2> QED
    BY <2>1, <2>2 DEF IInv, RestingNamesNoLease
<1>22. WritersNameLease'
  <2> SUFFICES ASSUME stops = 0, ~stray' PROVE \A q \in Orders : status'[q] \in Writing => leaseId'[q] # 0
    BY <1>1 DEF WritersNameLease
  <2>1. ~stray /\ ~(to = "release" /\ status[o] \in Writing)
    BY <1>1, <1>6
  <2>2. \A q \in Orders : status[q] \in Writing => leaseId[q] # 0
    BY <2>1 DEF IInv, WritersNameLease
  <2>3. status'[o] \in Writing => leaseId'[o] # 0
    <3> SUFFICES ASSUME status'[o] \in Writing PROVE NewLease(c) # 0
      BY <1>3, <1>18
    <3>1. to \in Writing /\ to # "release"
      BY <1>20, <2>1 DEF Writing
    <3>2. ~GivesUp(c)
      BY <3>1 DEF GivesUp, Writing, Closed
    <3>3. CASE to = "active"
      BY <1>5, <1>11, <3>2, <3>3
    <3>4. CASE to = "checkpointed"
      <4>1. status[o] \in Writing
        BY <1>3, <1>4, <3>4, Table DEF Writing
      <4> QED
        BY <1>3, <1>4, <1>5, <1>11, <2>2, <3>2, <3>4, <4>1
    <3> QED
      BY <3>1, <3>3, <3>4 DEF Writing
  <2>4. \A q \in Orders : q # o => status'[q] = status[q] /\ leaseId'[q] = leaseId[q]
    BY <1>1, <1>3, <1>6
  <2> QED
    BY <2>2, <2>3, <2>4
<1>23. ActiveIsKept'
  <2> SUFFICES ASSUME crashes = 0, active # 0
               PROVE  \/ \E q \in Orders : leaseId'[q] = active
                      \/ \E d \in Calls : call'[d].pc = "readback" \/ (Owns(d)' /\ LeaseOf(d)' = active)
    BY <1>1 DEF ActiveIsKept
  <2>1. CASE \E q \in Orders : leaseId[q] = active
    <3>1. PICK q \in Orders : leaseId[q] = active
      BY <2>1
    <3>2. CASE q # o
      BY <1>18, <3>1, <3>2
    <3>3. CASE q = o
      <4>1. prev = active /\ got = prev
        BY <1>4, <1>5, <3>1, <3>3
      <4>2. CASE GivesUp(c)
        BY <1>9, <1>16, <1>17, <4>1, <4>2
      <4>3. CASE ~GivesUp(c)
        BY <1>3, <1>11, <1>18, <4>1, <4>3
      <4> QED
        BY <4>2, <4>3
    <3> QED
      BY <3>2, <3>3
  <2>2. CASE \E d \in Calls : d # c /\ (call[d].pc = "readback" \/ (Owns(d) /\ LeaseOf(d) = active))
    BY <1>8, <1>13, <2>2
  <2>3. CASE Owns(c) /\ LeaseOf(c) = active
    <3>1. got = active /\ got # prev
      BY <1>1, <2>3 DEF Owns, LeaseOf
    <3>2. NewLease(c) = active
      BY <1>5, <1>10, <1>11, <3>1
    <3> QED
      BY <1>3, <1>18, <3>2
  <2> QED
    BY <1>1, <2>1, <2>2, <2>3 DEF IInv, ActiveIsKept
<1>24. StopIsCounted'
  BY <1>1 DEF IInv, StopIsCounted
<1> QED
  BY <1>12, <1>14, <1>15, <1>19, <1>21, <1>22, <1>23, <1>24 DEF IInv

-----------------------------------------------------------------------------
\* Emergency Stop releases what it listed; what is promised until a stop is void from here on.
LEMMA EngageKeeps ==
  ASSUME IInv, EngageList \/ EngageRelease
  PROVE  IInv'
<1>1. stops' \in Nat /\ stops' # 0
  BY DEF EngageList, EngageRelease, IInv, TypeOK, StopIsCounted
<1>2. /\ UNCHANGED <<status, version, leaseId, nextId, call, crashes, stray>>
      /\ active' = active \/ active' = 0
      /\ found' \in Nat /\ engage' \in {"idle", "listed"}
  BY DEF EngageList, EngageRelease, IInv, TypeOK, orderVars, leaseVars, Without
<1>3. TypeOK'
  BY <1>1, <1>2 DEF IInv, TypeOK
<1>4. ReadStands' /\ TakenToEnter' /\ RestingNamesNoLease'
  BY <1>2 DEF IInv, ReadStands, TakenToEnter, RestingNamesNoLease, To
<1>5. StopIsCounted' /\ NamedLeaseIsActive' /\ OwnersAreAlone' /\ WritersNameLease'
  BY <1>1 DEF StopIsCounted, NamedLeaseIsActive, OwnersAreAlone, WritersNameLease
<1>6. ActiveIsKept'
  BY <1>2 DEF IInv, ActiveIsKept, Owns, LeaseOf
<1> QED
  BY <1>3, <1>4, <1>5, <1>6 DEF IInv

LEMMA InitIInv == Init => IInv
<1> SUFFICES ASSUME Init PROVE IInv
  OBVIOUS
<1> USE DEF Init
<1>1. \A c \in Calls : call[c] = Idle /\ call[c].pc = "idle"
  BY DEF Idle
<1>2. TypeOK
  <2>1. /\ call \in [Calls -> Busy \cup {Idle}]
        /\ \A c \in Calls : call[c] # Idle => call[c].moves # <<>>
    BY <1>1
  <2>2. /\ status \in [Orders -> Statuses]
        /\ version \in [Orders -> Nat] /\ leaseId \in [Orders -> Nat]
    BY DEF Statuses
  <2>3. /\ active \in Nat /\ nextId \in Nat \ {0} /\ found \in Nat /\ stops \in Nat /\ crashes \in Nat
        /\ engage \in {"idle", "listed"}
    OBVIOUS
  <2>4. stray \in BOOLEAN
    OBVIOUS
  <2> HIDE DEF Init
  <2> QED
    BY <2>1, <2>2, <2>3, <2>4 DEF TypeOK
<1>3. ReadStands /\ TakenToEnter /\ StopIsCounted
  BY <1>1 DEF ReadStands, TakenToEnter, StopIsCounted
<1>4. NamedLeaseIsActive /\ RestingNamesNoLease
  BY DEF NamedLeaseIsActive, RestingNamesNoLease
<1>5. OwnersAreAlone /\ WritersNameLease /\ ActiveIsKept
  BY <1>1 DEF OwnersAreAlone, WritersNameLease, ActiveIsKept, Owns, Writing
<1> QED
  BY <1>2, <1>3, <1>4, <1>5 DEF IInv

LEMMA Invariance == IInv /\ [Next]_vars => IInv'
<1> SUFFICES ASSUME IInv, [Next]_vars PROVE IInv'
  OBVIOUS
<1>1. ASSUME NEW c \in Calls, NEW o \in Orders,
             RequestRotation(c, o) \/ \E to \in Statuses : RequestMove(c, o, to)
      PROVE  IInv'
  BY <1>1, RequestKeeps
<1>2. ASSUME NEW c \in Calls, CallStep(c) PROVE IInv'
  <2>1. CASE WriterConflict(c)
    <3>1. /\ Finish(c) /\ UNCHANGED <<orderVars, leaseVars, stopVars, stray>>
          /\ crashes' = crashes /\ call[c].pc = "acquire"
      BY <2>1 DEF WriterConflict
    <3> QED
      BY <3>1, EndKeeps DEF Owns
  <2> QED
    BY <1>2, <2>1, ReadKeeps, AcquireKeeps, ReadBackKeeps, UpdateKeeps, UpdateConflictKeeps,
       UndoKeeps, ReleasePreviousKeeps, RefreshKeeps DEF CallStep
<1>3. ASSUME NEW c \in Calls, Crash(c) PROVE IInv'
  BY <1>3, EndKeeps DEF Crash
<1>4. CASE EngageList \/ EngageRelease
  BY <1>4, EngageKeeps
<1>5. CASE UNCHANGED vars
  <2> USE <1>5 DEF vars, orderVars, leaseVars, stopVars
  <2>1. TypeOK' /\ StopIsCounted' /\ NamedLeaseIsActive' /\ RestingNamesNoLease' /\ WritersNameLease'
    BY DEF IInv, TypeOK, StopIsCounted, NamedLeaseIsActive, RestingNamesNoLease, WritersNameLease
  <2>2. ReadStands' /\ TakenToEnter'
    BY DEF IInv, ReadStands, TakenToEnter, To
  <2>3. OwnersAreAlone' /\ ActiveIsKept'
    BY DEF IInv, OwnersAreAlone, ActiveIsKept, Owns, LeaseOf
  <2> QED
    BY <2>1, <2>2, <2>3 DEF IInv
<1> QED
  BY <1>1, <1>2, <1>3, <1>4, <1>5 DEF Next

\* The inductive invariant of Work Orders.
LEMMA Inductive == Spec => []IInv
<1>1. Init => IInv
  BY InitIInv
<1>2. IInv /\ [Next]_vars => IInv'
  BY Invariance
<1> QED
  BY <1>1, <1>2, PTL DEF Spec

(* Until an Emergency Stop an order names the active lease of its worktree or none, and two   *)
(* orders never name one, for any overlap of transitions and crashes (workorders.py:531-619). *)
THEOREM NamedLease == Spec => []NamedLeaseIsActive
<1>1. IInv => NamedLeaseIsActive
  BY DEF IInv
<1> QED
  BY Inductive, <1>1, PTL

(* At most one order of a worktree is in work until an Emergency Stop or a stray release:  *)
(* an order in work names the active lease, and only one order can.                        *)
THEOREM OneActive == Spec => []OneActiveUntilStop
<1>1. IInv => OneActiveUntilStop
  BY DEF IInv, NamedLeaseIsActive, WritersNameLease, OneActiveUntilStop, OneActiveOrder
<1> QED
  BY Inductive, <1>1, PTL

(* An order that is not in work names no lease, also after an Emergency Stop.              *)
THEOREM RestingOrders == Spec => []RestingNamesNoLease
<1>1. IInv => RestingNamesNoLease
  BY DEF IInv
<1> QED
  BY Inductive, <1>1, PTL

(* Without a crash no lease outlives the calls that could release it.                      *)
THEOREM NoLeaseIsOrphaned == Spec => []NoOrphanLease
<1>1. IInv => NoOrphanLease
  BY DEF IInv, ActiveIsKept, NoOrphanLease, Owns, Idle
<1> QED
  BY Inductive, <1>1, PTL
=============================================================================
