----------------------------- MODULE WorkOrders -----------------------------
(***************************************************************************)
(* Work Orders and their writer lease (workorders.py transition and        *)
(* release_writer_lease, governor.py rotate and continue_after_rotation),  *)
(* for concurrent callers, process crashes and Emergency Stop.             *)
(*                                                                         *)
(* All orders here share one baseline branch and so one lease key: that    *)
(* is when they compete.  A transition is not atomic: it reads the order,  *)
(* takes a lease on another connection, updates the order if its version   *)
(* is unchanged, and only then releases the lease it no longer needs.      *)
(***************************************************************************)
EXTENDS Naturals, Sequences

CONSTANTS
  Orders,
  Calls,       \* request threads
  MaxVersion,  \* bound: no order is moved beyond this version
  MaxStops,    \* bound: Emergency Stops
  MaxCrashes   \* bound: calls killed with their process

ASSUME OrdersAssumption == MaxVersion \in Nat /\ MaxStops \in Nat /\ MaxCrashes \in Nat

VARIABLES
  status, version, leaseId,  \* columns of "work_orders"; 0 is no lease
  active,                    \* id of the active row of "worktree_leases", or 0
  nextId,                    \* lease ids are never used twice
  call,                      \* what each thread is doing
  found,                     \* leases read by _release_active_leases, 0 if none
  engage,                    \* "idle", or "listed" while Emergency Stop releases leases
  stops, crashes,            \* counters
  stray                      \* history: a rotation has released the lease of an order in work

orderVars == <<status, version, leaseId>>
leaseVars == <<active, nextId>>
stopVars == <<found, engage, stops>>
vars == <<status, version, leaseId, active, nextId, call, found, engage, stops, crashes, stray>>

\* VALID_TRANSITIONS
ValidNext ==
  [ draft         |-> {"ready", "cancelled"},
    ready         |-> {"active", "draft", "cancelled"},
    active        |-> {"checkpointed", "handoff_ready", "blocked", "completed", "cancelled"},
    checkpointed  |-> {"active", "handoff_ready", "blocked", "completed", "cancelled"},
    handoff_ready |-> {"active", "completed", "blocked", "cancelled"},
    blocked       |-> {"ready", "active", "cancelled"},
    completed     |-> {},
    cancelled     |-> {} ]

Statuses == {"draft", "ready", "active", "checkpointed", "handoff_ready", "blocked",
             "completed", "cancelled"}
LeaseHeld == {"active", "checkpointed", "handoff_ready"}
Closed == {"completed", "cancelled"}
Writing == {"active", "checkpointed"}  \* a session may be editing the worktree

\* What a thread is doing: the point it has reached, its order, the moves it has still to make
\* ("release" is release_writer_lease), and what it has read.  An expected version of 0 is
\* none: the caller relies on the version read by transition itself.
Idle == [pc |-> "idle"]
Busy == [pc : {"read", "acquire", "readback", "update", "undo", "free", "refresh"},
         order : Orders, moves : Seq(Statuses \cup {"release"}), expected : Nat,
         from : Statuses, base : Nat, prev : Nat, got : Nat]

TypeOK ==
  /\ status \in [Orders -> Statuses]
  /\ version \in [Orders -> Nat]
  /\ leaseId \in [Orders -> Nat]
  /\ active \in Nat /\ nextId \in Nat \ {0}
  /\ call \in [Calls -> Busy \cup {Idle}]
  /\ \A c \in Calls : call[c] # Idle => call[c].moves # <<>>
  /\ found \in Nat
  /\ engage \in {"idle", "listed"}
  /\ stops \in Nat /\ crashes \in Nat
  /\ stray \in BOOLEAN

Init ==
  /\ status = [o \in Orders |-> "draft"]
  /\ version = [o \in Orders |-> 1]
  /\ leaseId = [o \in Orders |-> 0]
  /\ active = 0 /\ nextId = 1
  /\ call = [c \in Calls |-> Idle]
  /\ found = 0
  /\ engage = "idle"
  /\ stops = 0 /\ crashes = 0
  /\ stray = FALSE

To(c) == Head(call[c].moves)
Goto(c, point) == call' = [call EXCEPT ![c].pc = point]
Finish(c) == call' = [call EXCEPT ![c] = Idle]

\* UPDATE worktree_leases SET released_at WHERE id = ? AND released_at = ''
Without(id) == IF active = id THEN 0 ELSE active

-----------------------------------------------------------------------------
(* Requests *)

Start(c, o, moves, expected) ==
  call' = [call EXCEPT ![c] = [pc |-> "read", order |-> o, moves |-> moves, expected |-> expected,
                               from |-> "draft", base |-> 0, prev |-> 0, got |-> 0]]

\* The owner, or continue_after_rotation, asks for one transition.
RequestMove(c, o, to) ==
  /\ call[c] = Idle
  /\ version[o] < MaxVersion
  /\ Start(c, o, <<to>>, 0)
  /\ UNCHANGED <<orderVars, leaseVars, stopVars, crashes, stray>>

\* rotate: from active or checkpointed to handoff_ready, then the lease is given up.
RequestRotation(c, o) ==
  /\ call[c] = Idle
  /\ version[o] < MaxVersion
  /\ status[o] \in {"active", "checkpointed"}
  /\ Start(c, o, IF status[o] = "active" THEN <<"checkpointed", "handoff_ready", "release">>
                                         ELSE <<"handoff_ready", "release">>, version[o])
  /\ UNCHANGED <<orderVars, leaseVars, stopVars, crashes, stray>>

-----------------------------------------------------------------------------
(* transition and release_writer_lease *)

\* The lease is needed on entering active, unless the order still names one.
NeedsLease(c, o) == To(c) = "active" /\ leaseId[o] = 0

\* The lease is given up with the status that needs no writer, or by release_writer_lease.
GivesUp(c) ==
  \/ To(c) \in Closed \cup {"blocked"} /\ call[c].from \in LeaseHeld /\ call[c].prev # 0
  \/ To(c) = "release"

\* Phase 1: the edge, the expected version, and what the order holds.
Permitted(c, o) ==
  /\ IF To(c) = "release" THEN status[o] \in LeaseHeld ELSE To(c) \in ValidNext[status[o]]
  /\ call[c].expected \in {0, version[o]}

Read(c) ==
  LET o == call[c].order IN
  /\ call[c].pc = "read"
  /\ IF Permitted(c, o)
     THEN call' = [call EXCEPT ![c].pc = IF NeedsLease(c, o) THEN "acquire" ELSE "update",
                               ![c].from = status[o], ![c].base = version[o],
                               ![c].prev = leaseId[o], ![c].got = leaseId[o]]
     ELSE Finish(c)
  /\ UNCHANGED <<orderVars, leaseVars, stopVars, crashes, stray>>

\* Phase 2: INSERT, admitted by the unique index; otherwise WRITER_CONFLICT.
AlwaysFree == TRUE  \* mutant: no unique index
Free == active = 0

Acquire(c) ==
  /\ call[c].pc = "acquire"
  /\ Free
  /\ active' = nextId
  /\ nextId' = nextId + 1
  /\ Goto(c, "readback")
  /\ UNCHANGED <<orderVars, stopVars, crashes, stray>>

WriterConflict(c) ==
  /\ call[c].pc = "acquire"
  /\ ~Free
  /\ Finish(c)
  /\ UNCHANGED <<orderVars, leaseVars, stopVars, crashes, stray>>

\* acquire answers with the row active by now; if there is none, lease.id raises.
ReadBack(c) ==
  /\ call[c].pc = "readback"
  /\ IF active = 0
     THEN Finish(c)
     ELSE call' = [call EXCEPT ![c].pc = "update", ![c].got = active]
  /\ UNCHANGED <<orderVars, leaseVars, stopVars, crashes, stray>>

\* Phase 3: UPDATE ... WHERE version = base.
AnyVersion(c) == TRUE  \* mutant: the WHERE clause names only the id
Unchanged(c) == version[call[c].order] = call[c].base

KeepsLease(c) == call[c].got  \* mutant: the lease id stays on the order
NewLease(c) == IF GivesUp(c) THEN 0 ELSE call[c].got

Update(c) ==
  LET o == call[c].order IN
  /\ call[c].pc = "update"
  /\ Unchanged(c)
  /\ status' = [status EXCEPT ![o] = IF To(c) = "release" THEN @ ELSE To(c)]
  /\ version' = [version EXCEPT ![o] = call[c].base + 1]
  /\ leaseId' = [leaseId EXCEPT ![o] = NewLease(c)]
  /\ Goto(c, IF GivesUp(c) /\ call[c].prev # 0 THEN "free" ELSE "refresh")
  /\ stray' = (stray \/ (To(c) = "release" /\ status[o] \in Writing))
  /\ UNCHANGED <<leaseVars, stopVars, crashes>>

\* VERSION_CONFLICT: a lease taken in phase 2 is given back.
UpdateConflict(c) ==
  /\ call[c].pc = "update"
  /\ ~Unchanged(c)
  /\ IF call[c].got # call[c].prev THEN Goto(c, "undo") ELSE Finish(c)
  /\ UNCHANGED <<orderVars, leaseVars, stopVars, crashes, stray>>

KeepRow(c) == active  \* mutant: the failed update keeps the lease
GiveBack(c) == Without(call[c].got)

Undo(c) ==
  /\ call[c].pc = "undo"
  /\ active' = GiveBack(c)
  /\ Finish(c)
  /\ UNCHANGED <<orderVars, nextId, stopVars, crashes, stray>>

\* Phase 4: the lease of before is released after the commit.
ReleasePrevious(c) ==
  /\ call[c].pc = "free"
  /\ active' = Without(call[c].prev)
  /\ Goto(c, "refresh")
  /\ UNCHANGED <<orderVars, nextId, stopVars, crashes, stray>>

Done(c) == Len(call[c].moves) = 1

\* get_work_order at the end: its version is what rotate expects at the next move.
Refresh(c) ==
  /\ call[c].pc = "refresh"
  /\ IF Done(c)
     THEN Finish(c)
     ELSE Start(c, call[c].order, Tail(call[c].moves), version[call[c].order])
  /\ UNCHANGED <<orderVars, leaseVars, stopVars, crashes, stray>>

-----------------------------------------------------------------------------
(* Emergency Stop and crashes *)

\* _release_active_leases releases every active lease; the orders keep the ids.
EngageList ==
  /\ engage = "idle" /\ stops < MaxStops
  /\ engage' = "listed"
  /\ stops' = stops + 1
  /\ found' = active
  /\ UNCHANGED <<orderVars, leaseVars, call, crashes, stray>>

EngageRelease ==
  /\ engage = "listed"
  /\ active' = Without(found)
  /\ found' = 0
  /\ engage' = "idle"
  /\ UNCHANGED <<orderVars, nextId, call, stops, crashes, stray>>

\* A call dies with its process; what it committed stays.
Crash(c) ==
  /\ call[c] # Idle /\ crashes < MaxCrashes
  /\ crashes' = crashes + 1
  /\ Finish(c)
  /\ UNCHANGED <<orderVars, leaseVars, stopVars, stray>>

-----------------------------------------------------------------------------
CallStep(c) ==
  \/ Read(c)
  \/ Acquire(c)
  \/ WriterConflict(c)
  \/ ReadBack(c)
  \/ Update(c)
  \/ UpdateConflict(c)
  \/ Undo(c)
  \/ ReleasePrevious(c)
  \/ Refresh(c)

Next ==
  \/ \E c \in Calls, o \in Orders : RequestRotation(c, o) \/ \E to \in Statuses : RequestMove(c, o, to)
  \/ \E c \in Calls : CallStep(c) \/ Crash(c)
  \/ EngageList
  \/ EngageRelease

Spec == Init /\ [][Next]_vars

-----------------------------------------------------------------------------
(* Properties *)

\* At most one order of a worktree is worked on, for any overlap of transitions and any crash
\* between their phases (workorders.py:531-619).  Two things end that: an Emergency Stop, which
\* releases the lease of an order that stays active, and a stray release (below).
OneActiveOrder ==
  \A o, p \in Orders : status[o] \in Writing /\ status[p] \in Writing => o = p

OneActiveUntilStop == stops = 0 /\ ~stray => OneActiveOrder

\* At most one order names a lease, and the lease it names is the active one of the worktree:
\* also while a lease is taken but not yet recorded, or recorded away but not yet released.
NamedLeaseIsActive ==
  stops = 0 => \A o, p \in Orders :
    /\ leaseId[o] \in {0, active}
    /\ leaseId[o] # 0 /\ leaseId[p] # 0 => o = p

\* An order that was never started, is blocked or is closed names no lease, whatever moves
\* overlapped before (workorders.py:61-62, 572-573).
RestingNamesNoLease == \A o \in Orders : status[o] \notin LeaseHeld => leaseId[o] = 0

\* Without a crash no lease is left that nobody will release: when no call is in progress the
\* active lease is named by an order (workorders.py:603-611, 613-619).
NoOrphanLease ==
  crashes = 0 /\ active # 0 /\ (\A c \in Calls : call[c] = Idle)
    => \E o \in Orders : leaseId[o] = active

(* Statements of the code that concurrent calls break *)

\* governor.py:186-192, workorders.py:628: the lease is released only at the safe point of a
\* rotation, in handoff_ready.  rotate expects the version it reads after its own move, so an
\* order moved back to active in between loses the lease it is worked on under.
ReleasedOnlyInHandoff == ~stray

=============================================================================
