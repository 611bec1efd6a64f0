------------------------------ MODULE RunStore ------------------------------
(***************************************************************************)
(* The Run table as concurrent callers really use it                       *)
(* (apps/core/atlas_core/runs.py, emergency.py).  FastAPI runs each request *)
(* in a thread of its own and several Core processes may share the SQLite  *)
(* file, so a step here is one database transaction and the calls          *)
(* interleave between them:                                                *)
(*   - transition: read and check the row, conditional UPDATE, then two    *)
(*     more transactions to append the event;                              *)
(*   - create_run: Emergency Stop check, lookup by key, INSERT, event;     *)
(*   - engage: durable barrier, snapshot of the interruptible Runs, one    *)
(*     transaction of conditional UPDATEs.                                 *)
(* A crash of a Core process drops any call where it stands.               *)
(***************************************************************************)
EXTENDS Naturals, FiniteSets, RunStates

CONSTANTS
  Runs,        \* ids of the Runs that may be created
  ProjectOf,   \* the project each of them belongs to
  Keys,        \* idempotency keys
  NoKey,       \* the empty key: no deduplication
  Calls,       \* API calls that can be in flight at once
  Local,       \* those served by the process that runs engage()
  CanCrash,    \* whether Core processes crash
  MaxVersion,  \* bound: no transition is requested on a Run at its version here
  MaxStops     \* bound: Emergency Stop is engaged at most this often

ASSUME ConstantsAssumption ==
  MaxVersion \in [Runs -> Nat] /\ MaxStops \in Nat /\ Local \subseteq Calls /\ IsFiniteSet(Calls)

VARIABLES
  state, version, key,   \* columns of "runs"
  log,        \* "run_events" of each Run: how many
  call,       \* progress of each API call
  stop,       \* active flag of the last emergency_stops row
  engage,     \* progress of engage(): "idle", "flagged", "barrier", "snapshot"
  snap,       \* what _interrupt_active_runs has read
  stops       \* engagements so far

rowVars == <<state, version, key>>
stopVars == <<stop, engage, snap, stops>>
vars == <<state, version, key, log, call, stop, engage, snap, stops>>

\* What callers ask for: every state but the first.
Targets == RunStateSet \ {"QUEUED"}

Exists(r) == state[r] # Absent
Idle == [pc |-> "idle"]

CallState ==
  {Idle}
  \cup [pc : {"check"}, run : Runs, to : RunStateSet, expected : Nat]
  \cup [pc : {"update"}, run : Runs, to : RunStateSet, expected : Nat, from : RunStateSet]
  \cup [pc : {"seq"}, run : Runs]
  \cup [pc : {"event"}, run : Runs, seq : Nat]
  \cup [pc : {"lookup", "insert"}, run : Runs, key : Keys \cup {NoKey}]

TypeOK ==
  /\ state \in [Runs -> RunStateSet \cup {Absent}]
  /\ version \in [Runs -> Nat]
  /\ key \in [Runs -> Keys \cup {NoKey}]
  /\ log \in [Runs -> Nat]
  /\ call \in [Calls -> CallState]
  /\ stop \in BOOLEAN
  /\ engage \in {"idle", "flagged", "barrier", "snapshot"}
  /\ snap \in SUBSET [run : Runs, version : Nat]
  /\ stops \in Nat

Init ==
  /\ state = [r \in Runs |-> Absent]
  /\ version = [r \in Runs |-> 0]
  /\ key = [r \in Runs |-> NoKey]
  /\ log = [r \in Runs |-> 0]
  /\ call = [c \in Calls |-> Idle]
  /\ stop = FALSE
  /\ engage = "idle"
  /\ snap = {}
  /\ stops = 0

Goto(c, record) == call' = [call EXCEPT ![c] = record]

-----------------------------------------------------------------------------
(* RunService.transition *)

\* A caller asks for a state with a version it has read earlier.
Request(c, r, to, expected) ==
  /\ call[c] = Idle
  /\ Exists(r)
  /\ version[r] < MaxVersion[r]
  /\ expected \in 1..version[r]
  /\ Goto(c, [pc |-> "check", run |-> r, to |-> to, expected |-> expected])
  /\ UNCHANGED <<rowVars, log, stopVars>>

\* The row is read and the edge checked; INVALID_TRANSITION ends the call.
Check(c) ==
  /\ call[c].pc = "check"
  /\ LET q == call[c] IN
       Goto(c, IF Allowed(state[q.run], q.to)
               THEN [pc |-> "update", run |-> q.run, to |-> q.to,
                     expected |-> q.expected, from |-> state[q.run]]
               ELSE Idle)
  /\ UNCHANGED <<rowVars, log, stopVars>>

\* The row takes the new state, whatever its version; the event comes next.
Write(c) ==
  /\ call[c].pc = "update"
  /\ LET q == call[c] IN
       /\ state' = [state EXCEPT ![q.run] = q.to]
       /\ version' = [version EXCEPT ![q.run] = @ + 1]
       /\ Goto(c, [pc |-> "seq", run |-> q.run])
  /\ UNCHANGED <<key, log, stopVars>>

\* UPDATE ... WHERE version = expected_version.
Update(c) == Write(c) /\ version[call[c].run] = call[c].expected

\* Mutant: the row count of the UPDATE is not looked at, the event is appended anyway.
UpdateUnchecked(c) ==
  /\ call[c].pc = "update"
  /\ version[call[c].run] # call[c].expected
  /\ Goto(c, [pc |-> "seq", run |-> call[c].run])
  /\ UNCHANGED <<rowVars, log, stopVars>>

\* The UPDATE matched no row: VERSION_CONFLICT.
UpdateConflict(c) ==
  /\ call[c].pc = "update"
  /\ version[call[c].run] # call[c].expected
  /\ Goto(c, Idle)
  /\ UNCHANGED <<rowVars, log, stopVars>>

-----------------------------------------------------------------------------
(* RunService._event: max(seq) + 1 is read, then inserted under UNIQUE(run_id, seq) *)

ReadSeq(c) ==
  /\ call[c].pc = "seq"
  /\ Goto(c, [pc |-> "event", run |-> call[c].run, seq |-> log[call[c].run] + 1])
  /\ UNCHANGED <<rowVars, log, stopVars>>

InsertEvent(c) ==
  /\ call[c].pc = "event"
  /\ LET q == call[c] IN
       /\ q.seq = log[q.run] + 1
       /\ log' = [log EXCEPT ![q.run] = q.seq]
  /\ Goto(c, Idle)
  /\ UNCHANGED <<rowVars, stopVars>>

\* Another call took the number: IntegrityError, although the move is committed.
EventConflict(c) ==
  /\ call[c].pc = "event"
  /\ call[c].seq # log[call[c].run] + 1
  /\ Goto(c, Idle)
  /\ UNCHANGED <<rowVars, log, stopVars>>

-----------------------------------------------------------------------------
(* RunService.create_run *)

\* emergency.blocks_new_jobs(): the in-process flag or the durable one.
BlocksNewJobs(c) == stop \/ (c \in Local /\ engage # "idle")

BeginCreate(c, r, k) ==
  /\ call[c] = Idle
  /\ ~Exists(r)
  /\ \A d \in Calls : call[d].pc \in {"lookup", "insert"} => call[d].run # r
  /\ ~BlocksNewJobs(c)
  /\ Goto(c, [pc |-> "lookup", run |-> r, key |-> k])
  /\ UNCHANGED <<rowVars, log, stopVars>>

\* The Runs of a project that carry a key.
WithKey(k, project) == {r \in Runs : Exists(r) /\ key[r] = k /\ ProjectOf[r] = project}

\* A Run of the same project with the same key answers the call.
Lookup(c) ==
  /\ call[c].pc = "lookup"
  /\ LET q == call[c] IN
       Goto(c, IF q.key # NoKey /\ WithKey(q.key, ProjectOf[q.run]) # {}
               THEN Idle
               ELSE [q EXCEPT !.pc = "insert"])
  /\ UNCHANGED <<rowVars, log, stopVars>>

\* Mutant: no unique index, only the lookup.
NoIndex(k) == FALSE

\* The partial index uq_runs_dedup is unique over all projects.
KeyTaken(k) == k # NoKey /\ \E r \in Runs : Exists(r) /\ key[r] = k

InsertAs(c, initial) ==
  /\ call[c].pc = "insert"
  /\ LET q == call[c] IN
       /\ ~KeyTaken(q.key)
       /\ state' = [state EXCEPT ![q.run] = initial]
       /\ version' = [version EXCEPT ![q.run] = 1]
       /\ key' = [key EXCEPT ![q.run] = q.key]
       /\ Goto(c, [pc |-> "seq", run |-> q.run])
  /\ UNCHANGED <<log, stopVars>>

Insert(c) == InsertAs(c, "QUEUED")

\* Rollback: the call answers the existing Run, or RUN_CONFLICT when it is another project's.
InsertConflict(c) ==
  /\ call[c].pc = "insert"
  /\ KeyTaken(call[c].key)
  /\ Goto(c, Idle)
  /\ UNCHANGED <<rowVars, log, stopVars>>

\* The Core process serving the call dies.
Crash(c) ==
  /\ CanCrash
  /\ call[c] # Idle
  /\ Goto(c, Idle)
  /\ UNCHANGED <<rowVars, log, stopVars>>

-----------------------------------------------------------------------------
(* emergency.engage and resume, as far as they concern the Run table *)

\* Not active: raise the in-process flag.
EngageFlag ==
  /\ engage = "idle"
  /\ ~stop
  /\ stops < MaxStops
  /\ engage' = "flagged"
  /\ stops' = stops + 1
  /\ UNCHANGED <<rowVars, log, call, stop, snap>>

\* The durable barrier is committed before anything is read.
EngageBarrier ==
  /\ engage = "flagged"
  /\ stop' = TRUE
  /\ engage' = "barrier"
  /\ UNCHANGED <<rowVars, log, call, snap, stops>>

\* SELECT ... WHERE state IN INTERRUPTIBLE_STATES.
EngageSnapshot ==
  /\ engage = "barrier"
  /\ snap' = {[run |-> r, version |-> version[r]] : r \in {x \in Runs : state[x] \in Interruptible}}
  /\ engage' = "snapshot"
  /\ UNCHANGED <<rowVars, log, call, stop, stops>>

\* The Runs of the snapshot whose version is still the one read.
Fresh == {s.run : s \in {x \in snap : version[x.run] = x.version}}

\* One transaction updates the fresh Runs.  (engage() then releases leases and completes its
\* own row; no other row here changes.)
EngageInterrupt ==
  /\ engage = "snapshot"
  /\ state' = [r \in Runs |-> IF r \in Fresh THEN "INTERRUPTED" ELSE state[r]]
  /\ version' = [r \in Runs |-> IF r \in Fresh THEN version[r] + 1 ELSE version[r]]
  /\ snap' = {}
  /\ engage' = "idle"
  /\ UNCHANGED <<key, log, call, stop, stops>>

EngageCrash ==
  /\ CanCrash
  /\ engage # "idle"
  /\ engage' = "idle"
  /\ snap' = {}
  /\ UNCHANGED <<rowVars, log, call, stop, stops>>

\* Explicit owner resume.
Resume ==
  /\ stop
  /\ stop' = FALSE
  /\ UNCHANGED <<rowVars, log, call, engage, snap, stops>>

-----------------------------------------------------------------------------
CallStep(c) ==
  \/ Check(c)
  \/ Update(c)
  \/ UpdateConflict(c)
  \/ ReadSeq(c)
  \/ InsertEvent(c)
  \/ EventConflict(c)
  \/ Lookup(c)
  \/ Insert(c)
  \/ InsertConflict(c)
  \/ Crash(c)

Next ==
  \/ \E c \in Calls : CallStep(c)
  \/ \E c \in Calls, r \in Runs, to \in Targets : \E e \in 1..MaxVersion[r] : Request(c, r, to, e)
  \/ \E c \in Calls, r \in Runs, k \in Keys \cup {NoKey} : BeginCreate(c, r, k)
  \/ EngageFlag
  \/ EngageBarrier
  \/ EngageSnapshot
  \/ EngageInterrupt
  \/ EngageCrash
  \/ Resume

Spec == Init /\ [][Next]_vars

-----------------------------------------------------------------------------
(* Properties *)

\* transition() reads and writes in separate steps and Emergency Stop updates from an old
\* snapshot, yet every change of a Run is one legal step from the state it replaces: the
\* version condition of both UPDATEs makes the earlier check still true when it is used.
Lifecycle == INSTANCE RunLifecycle WITH Runs <- Runs, state <- state, version <- version
AtomicLifecycle == Lifecycle!LSpec

\* A finished Run stays as it finished: neither a late transition nor an Emergency Stop that
\* read the Run before it finished moves SUCCEEDED, FAILED or CANCELLED anywhere.
TerminalIsFinal ==
  [][\A r \in Runs : state[r] \in Terminal => state'[r] = state[r]]_vars

\* No event reports a move that was not committed and none is reported twice, whatever calls
\* conflict, fail or crash: events, written and pending, never outnumber the committed changes.
LoggedMovesHappened ==
  \A r \in Runs :
    log[r] + Cardinality({c \in Calls : call[c].pc \in {"seq", "event"} /\ call[c].run = r})
      <= version[r]

\* Concurrent and retried create_run calls with one idempotency key make one Run: the lookup
\* before the INSERT can miss a concurrent call, the unique index cannot.
OneRunPerKey ==
  \A r, q \in Runs : r # q /\ key[r] = key[q] => key[r] = NoKey

=============================================================================
