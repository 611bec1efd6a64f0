---------------------------- MODULE RunDispatch ----------------------------
(***************************************************************************)
(* Production dispatch of the Builder step of a Run                        *)
(* (apps/core/atlas_core/runtime.py start_builder_run) with the profile    *)
(* leases of run_leases.py, Emergency Stop (emergency.py) and the owner's  *)
(* pause, resume and cancel (api_runs.py), for several dispatch calls in   *)
(* several Core processes.                                                 *)
(*                                                                         *)
(* A step is one database transaction, or one access to the in-process job *)
(* registry.  RunService.transition is one step here: RunStore, whose      *)
(* calls read and write separately, implements it (RunStoreProofs).        *)
(***************************************************************************)
EXTENDS Naturals, FiniteSets, RunStates

CONSTANTS
  Runs,
  Profiles,    \* Claude profiles that are pool members and READY
  Processes,   \* Core processes
  Calls,       \* dispatch calls: each is one POST /runs/{id}/start
  RunOf,       \* the Run each call dispatches
  ProcOf,      \* the process that serves it
  StopProc,    \* the process that serves engage()
  None,
  MaxStops,    \* bound: Emergency Stop is engaged at most this often
  MaxOwner,    \* bound: owner actions on Runs
  MaxCrashes   \* bound: process crashes

ASSUME DispatchAssumption ==
  /\ RunOf \in [Calls -> Runs]
  /\ ProcOf \in [Calls -> Processes]
  /\ StopProc \in Processes
  /\ None \notin Calls
  /\ MaxStops \in Nat /\ MaxOwner \in Nat /\ MaxCrashes \in Nat

VARIABLES
  state, version,  \* rows of "runs"
  lease,           \* the active row of "run_leases" per profile, or NoLease
  exhausted,       \* profiles whose last capacity observation is EXHAUSTED
  pc,              \* where each dispatch call stands
  ver,             \* version it read for its next transition, 0 if not yet
  prof,            \* profile it selected
  held,            \* the lease acquire() returned to it
  seen,            \* profiles eligible in the list it holds
  excluded,        \* profiles it must not select again
  jobs,            \* _ACTIVE_JOBS of each process: the call registered per Run
  cancel,          \* cancel events that are set
  stop,            \* active flag of the last emergency_stops row
  engage,          \* progress of engage()
  snap,            \* Runs and versions read by _interrupt_active_runs
  found,           \* leases read by _release_active_leases
  stops, resumes, owner, crashes,  \* counters: engagements, owner resumes, owner actions, crashes
  stopped          \* history: Runs interrupted by Emergency Stop, until the owner moves them

runVars == <<state, version>>
callVars == <<pc, ver, prof, held, seen, excluded>>
jobVars == <<jobs, cancel>>
stopVars == <<stop, engage, snap, found, stops, resumes>>
vars == <<state, version, lease, exhausted, pc, ver, prof, held, seen, excluded, jobs, cancel,
          stop, engage, snap, found, stops, resumes, owner, crashes, stopped>>

-----------------------------------------------------------------------------
(* The points of start_builder_run *)

\* Points where the call makes a transition, and the state it asks for.
Target ==
  [ giveUpPrepare |-> "PREPARING",        \* no profile or lease conflict, from QUEUED
    owner         |-> "OWNER_REQUIRED",
    prepare       |-> "PREPARING",
    run           |-> "RUNNING",
    limited       |-> "RATE_LIMITED",
    auth          |-> "AUTH_REQUIRED",
    collect       |-> "COLLECTING",
    interrupt     |-> "INTERRUPTED" ]

\* Where the call goes when the transition succeeds.
After ==
  [ giveUpPrepare |-> "owner",
    owner         |-> "returned",
    prepare       |-> "run",
    run           |-> "register",
    limited       |-> "exhaust",
    auth          |-> "returned",
    collect       |-> "release",
    interrupt     |-> "returned" ]

\* Before the adapter starts, while it runs, and once it has ended.
Started == {"running"}
Ended == {"returned", "raised"}
Points == {"new", "queued", "acquire", "readback", "giveUp", "current", "register", "barrier",
           "abort", "running", "failed", "judge", "answered", "release", "exhaust", "refresh",
           "settle"}
          \cup DOMAIN Target \cup Ended

\* A lease row: the call that inserted it and how many profiles that call had excluded.
NoLease == [by |-> None, n |-> 0]
LeaseOf(c) == [by |-> c, n |-> Cardinality(excluded[c])]
Leases == {NoLease} \cup [by : Calls, n : Nat]

TypeOK ==
  /\ state \in [Runs -> RunStateSet]
  /\ version \in [Runs -> Nat]
  /\ lease \in [Profiles -> Leases]
  /\ exhausted \in SUBSET Profiles
  /\ pc \in [Calls -> Points]
  /\ ver \in [Calls -> Nat]
  /\ prof \in [Calls -> Profiles \cup {None}]
  /\ held \in [Calls -> Leases]
  /\ seen \in [Calls -> SUBSET Profiles]
  /\ excluded \in [Calls -> SUBSET Profiles]
  /\ jobs \in [Processes -> [Runs -> Calls \cup {None}]]
  /\ cancel \in SUBSET Calls
  /\ stop \in BOOLEAN
  /\ engage \in {"idle", "flagged", "barrier", "cancelled", "snapshot", "interrupted", "listed"}
  /\ snap \in SUBSET [run : Runs, version : Nat]
  /\ found \in SUBSET (Leases \ {NoLease})
  /\ {stops, resumes, owner, crashes} \subseteq Nat
  /\ stopped \in SUBSET Runs

Init ==
  /\ state = [r \in Runs |-> "QUEUED"]
  /\ version = [r \in Runs |-> 1]
  /\ lease = [p \in Profiles |-> NoLease]
  /\ exhausted = {}
  /\ pc = [c \in Calls |-> "new"]
  /\ ver = [c \in Calls |-> 0]
  /\ prof = [c \in Calls |-> None]
  /\ held = [c \in Calls |-> NoLease]
  /\ seen = [c \in Calls |-> {}]
  /\ excluded = [c \in Calls |-> {}]
  /\ jobs = [x \in Processes |-> [r \in Runs |-> None]]
  /\ cancel = {}
  /\ stop = FALSE
  /\ engage = "idle"
  /\ snap = {}
  /\ found = {}
  /\ stops = 0 /\ resumes = 0 /\ owner = 0 /\ crashes = 0
  /\ stopped = {}

Goto(c, point) == pc' = [pc EXCEPT ![c] = point]

\* emergency.blocks_new_jobs() as the process of call c sees it.
BlocksNewJobs(c) == stop \/ (ProcOf[c] = StopProc /\ engage # "idle")

NeverLeased(p) == FALSE  \* mutant: no unique index on the active lease of a profile

\* Is there an active lease row of profile p?
Leased(p) == lease[p] # NoLease

\* RunLeaseService.release: UPDATE ... WHERE id = ? AND released_at = ''.
Released(l) == [p \in Profiles |-> IF lease[p] = l THEN NoLease ELSE lease[p]]
Unregistered(c) == [jobs EXCEPT ![ProcOf[c]][RunOf[c]] = None]

-----------------------------------------------------------------------------
(* Selecting a profile and taking its lease *)

\* list_profiles and the check that Emergency Stop does not block new jobs.
Begin(c) ==
  /\ pc[c] = "new"
  /\ seen' = [seen EXCEPT ![c] = Profiles \ exhausted]
  /\ Goto(c, IF BlocksNewJobs(c) THEN "returned" ELSE "queued")
  /\ UNCHANGED <<runVars, lease, exhausted, ver, prof, held, excluded, jobVars, stopVars,
                 owner, crashes, stopped>>

\* Only a QUEUED Run is dispatched.
CheckQueued(c) ==
  /\ pc[c] = "queued"
  /\ Goto(c, IF state[RunOf[c]] = "QUEUED" THEN "acquire" ELSE "returned")
  /\ UNCHANGED <<runVars, lease, exhausted, ver, prof, held, seen, excluded, jobVars, stopVars,
                 owner, crashes, stopped>>

\* What select_builder may return: capacities decide which, a list may be out of date.
EligibleAgain(c) == seen[c]  \* mutant: exclude is not passed to select_builder
Eligible(c) == seen[c] \ excluded[c]

\* INSERT into run_leases; the unique index admits one active row per profile.
Acquire(c) ==
  /\ pc[c] = "acquire"
  /\ \E p \in Eligible(c) :
       /\ ~Leased(p)
       /\ lease' = [lease EXCEPT ![p] = LeaseOf(c)]
       /\ prof' = [prof EXCEPT ![c] = p]
  /\ Goto(c, "readback")
  /\ UNCHANGED <<runVars, exhausted, ver, held, seen, excluded, jobVars, stopVars,
                 owner, crashes, stopped>>

\* No eligible profile, or the selected one is leased: the Run goes to the owner.
CannotAcquire(c) ==
  /\ pc[c] = "acquire"
  /\ Eligible(c) = {} \/ \E p \in Eligible(c) : Leased(p)
  /\ Goto(c, "giveUp")
  /\ UNCHANGED <<runVars, lease, exhausted, ver, prof, held, seen, excluded, jobVars, stopVars,
                 owner, crashes, stopped>>

GiveUp(c) ==
  /\ pc[c] = "giveUp"
  /\ Goto(c, IF state[RunOf[c]] = "QUEUED" THEN "giveUpPrepare" ELSE "owner")
  /\ UNCHANGED <<runVars, lease, exhausted, ver, prof, held, seen, excluded, jobVars, stopVars,
                 owner, crashes, stopped>>

\* acquire() answers with whatever row is active for the profile by then.
ReadBack(c) ==
  /\ pc[c] = "readback"
  /\ held' = [held EXCEPT ![c] = lease[prof[c]]]
  /\ Goto(c, "current")
  /\ UNCHANGED <<runVars, lease, exhausted, ver, prof, seen, excluded, jobVars, stopVars,
                 owner, crashes, stopped>>

ReadCurrent(c) ==
  /\ pc[c] = "current"
  /\ Goto(c, IF state[RunOf[c]] \in {"QUEUED", "RATE_LIMITED"} THEN "prepare" ELSE "run")
  /\ UNCHANGED <<runVars, lease, exhausted, ver, prof, held, seen, excluded, jobVars, stopVars,
                 owner, crashes, stopped>>

-----------------------------------------------------------------------------
(* Transitions *)

\* _ver(run): the version is read just before the transition asks for it.
\* _safe_interrupt reads it with the state, and does nothing on a Run already stopped.
ReadVersion(c) ==
  /\ pc[c] \in DOMAIN Target
  /\ ver[c] = 0
  /\ IF pc[c] = "interrupt" /\ state[RunOf[c]] \in Terminal \cup {"INTERRUPTED"}
     THEN Goto(c, "returned") /\ ver' = ver
     ELSE ver' = [ver EXCEPT ![c] = version[RunOf[c]]] /\ pc' = pc
  /\ UNCHANGED <<runVars, lease, exhausted, prof, held, seen, excluded, jobVars, stopVars,
                 owner, crashes, stopped>>

CanMove(c) ==
  /\ version[RunOf[c]] = ver[c]
  /\ Allowed(state[RunOf[c]], Target[pc[c]])

MoveThen(c, next) ==
  /\ pc[c] \in DOMAIN Target
  /\ ver[c] # 0
  /\ CanMove(c)
  /\ state' = [state EXCEPT ![RunOf[c]] = Target[pc[c]]]
  /\ version' = [version EXCEPT ![RunOf[c]] = @ + 1]
  /\ ver' = [ver EXCEPT ![c] = 0]
  /\ Goto(c, next)
  /\ UNCHANGED <<lease, exhausted, prof, held, seen, excluded, jobVars, stopVars,
                 owner, crashes, stopped>>

Transition(c) == MoveThen(c, After[pc[c]])

\* The move is committed, but its event collides with one that another call or the owner
\* appends to the same Run (RunStore, EventConflict): the IntegrityError leaves
\* start_builder_run, from _safe_interrupt too.
EventFails(c) ==
  /\ owner > 0 \/ \E d \in Calls \ {c} : RunOf[d] = RunOf[c] /\ pc[d] # "new"
  /\ MoveThen(c, "raised")

\* INVALID_TRANSITION or VERSION_CONFLICT leaves start_builder_run as it stands;
\* only _safe_interrupt swallows it.
TransitionRefused(c) ==
  /\ pc[c] \in DOMAIN Target
  /\ ver[c] # 0
  /\ ~CanMove(c)
  /\ ver' = [ver EXCEPT ![c] = 0]
  /\ Goto(c, IF pc[c] = "interrupt" THEN "returned" ELSE "raised")
  /\ UNCHANGED <<runVars, lease, exhausted, prof, held, seen, excluded, jobVars, stopVars,
                 owner, crashes, stopped>>

-----------------------------------------------------------------------------
(* The Builder step itself *)

\* _register_job with a fresh cancel event; an entry of the same Run is overwritten.
Register(c) ==
  /\ pc[c] = "register"
  /\ jobs' = [jobs EXCEPT ![ProcOf[c]][RunOf[c]] = c]
  /\ cancel' = cancel \ {c}
  /\ Goto(c, "barrier")
  /\ UNCHANGED <<runVars, lease, exhausted, ver, prof, held, seen, excluded, stopVars,
                 owner, crashes, stopped>>

\* The second check of Emergency Stop, then adapter.start.
NeverBlocked(c) == FALSE  \* mutant: no check between registration and start
BlockedAtStart(c) == BlocksNewJobs(c)

\* mutant: the call waits until the owner resumes
BarrierWaits(c) ==
  /\ pc[c] = "barrier"
  /\ ~BlocksNewJobs(c)
  /\ Goto(c, "running")
  /\ UNCHANGED <<runVars, lease, exhausted, ver, prof, held, seen, excluded, jobVars, stopVars,
                 owner, crashes, stopped>>

Barrier(c) ==
  /\ pc[c] = "barrier"
  /\ Goto(c, IF BlockedAtStart(c) THEN "abort" ELSE "running")
  /\ UNCHANGED <<runVars, lease, exhausted, ver, prof, held, seen, excluded, jobVars, stopVars,
                 owner, crashes, stopped>>

\* mutant: the lease is not released
ForgetLease(c, next) == lease' = lease /\ Goto(c, next)

\* lease.id of a lease that acquire() did not get back raises AttributeError.
ReleaseThen(c, next) ==
  IF held[c] = NoLease
  THEN lease' = lease /\ Goto(c, "raised")
  ELSE lease' = Released(held[c]) /\ Goto(c, next)

Abort(c) ==
  /\ pc[c] = "abort"
  /\ jobs' = Unregistered(c)
  /\ ReleaseThen(c, "interrupt")
  /\ UNCHANGED <<runVars, exhausted, ver, prof, held, seen, excluded, cancel, stopVars,
                 owner, crashes, stopped>>

\* The provider process ends: with a result, with a classified error, or with an
\* exception of another class, which leaves the lease and the registry as they are.
ProviderEnds(c) ==
  /\ pc[c] = "running"
  /\ \E next \in {"answered", "failed", "raised"} : Goto(c, next)
  /\ UNCHANGED <<runVars, lease, exhausted, ver, prof, held, seen, excluded, jobVars, stopVars,
                 owner, crashes, stopped>>

\* An error unregisters the job and releases the lease before anything is decided.
Fail(c) ==
  /\ pc[c] = "failed"
  /\ jobs' = Unregistered(c)
  /\ ReleaseThen(c, "judge")
  /\ UNCHANGED <<runVars, exhausted, ver, prof, held, seen, excluded, cancel, stopVars,
                 owner, crashes, stopped>>

\* Emergency Stop wins over the class of the error.
Judge(c) ==
  /\ pc[c] = "judge"
  /\ IF c \in cancel \/ stop
     THEN Goto(c, "interrupt")
     ELSE \E next \in {"limited", "auth", "owner"} : Goto(c, next)
  /\ UNCHANGED <<runVars, lease, exhausted, ver, prof, held, seen, excluded, jobVars, stopVars,
                 owner, crashes, stopped>>

\* excluded.add(profile)
Excluding(c) == excluded[c] \cup {prof[c]}

\* handle_rate_limit, and exactly one switch to another profile if there is one.
Exhaust(c) ==
  /\ pc[c] = "exhaust"
  /\ exhausted' = exhausted \cup {prof[c]}
  /\ excluded' = [excluded EXCEPT ![c] = Excluding(c)]
  /\ Goto(c, IF excluded[c] # {} \/ Profiles \ exhausted' = {} THEN "owner" ELSE "refresh")
  /\ UNCHANGED <<runVars, lease, ver, prof, held, seen, jobVars, stopVars, owner, crashes, stopped>>

\* list_profiles again.
Refresh(c) ==
  /\ pc[c] = "refresh"
  /\ seen' = [seen EXCEPT ![c] = Profiles \ exhausted]
  /\ Goto(c, "acquire")
  /\ UNCHANGED <<runVars, lease, exhausted, ver, prof, held, excluded, jobVars, stopVars,
                 owner, crashes, stopped>>

\* A result under Emergency Stop is not recorded.
Answer(c) ==
  /\ pc[c] = "answered"
  /\ jobs' = Unregistered(c)
  /\ Goto(c, IF c \in cancel \/ stop THEN "settle" ELSE "collect")
  /\ UNCHANGED <<runVars, lease, exhausted, ver, prof, held, seen, excluded, cancel, stopVars,
                 owner, crashes, stopped>>

Settle(c) ==
  /\ pc[c] = "settle"
  /\ ReleaseThen(c, "interrupt")
  /\ UNCHANGED <<runVars, exhausted, ver, prof, held, seen, excluded, jobVars, stopVars,
                 owner, crashes, stopped>>

Release(c) ==
  /\ pc[c] = "release"
  /\ ReleaseThen(c, "returned")
  /\ UNCHANGED <<runVars, exhausted, ver, prof, held, seen, excluded, jobVars, stopVars,
                 owner, crashes, stopped>>

-----------------------------------------------------------------------------
(* Emergency Stop *)

EngageFlag ==
  /\ engage = "idle" /\ ~stop /\ stops < MaxStops
  /\ engage' = "flagged"
  /\ stops' = stops + 1
  /\ UNCHANGED <<runVars, lease, exhausted, callVars, jobVars, stop, snap, found, resumes,
                 owner, crashes, stopped>>

EngageBarrier ==
  /\ engage = "flagged"
  /\ stop' = TRUE
  /\ engage' = "barrier"
  /\ UNCHANGED <<runVars, lease, exhausted, callVars, jobVars, snap, found, stops, resumes,
                 owner, crashes, stopped>>

\* cancel_all_jobs sets the events registered in the process that serves engage().
EngageCancel ==
  /\ engage = "barrier"
  /\ cancel' = cancel \cup {c \in Calls : \E r \in Runs : jobs[StopProc][r] = c}
  /\ engage' = "cancelled"
  /\ UNCHANGED <<runVars, lease, exhausted, callVars, jobs, stop, snap, found, stops, resumes,
                 owner, crashes, stopped>>

PreparingRuns == {r \in Runs : state[r] = "PREPARING"}  \* mutant: RUNNING is forgotten
ActiveRuns == {r \in Runs : state[r] \in Interruptible}

EngageSnapshot ==
  /\ engage = "cancelled"
  /\ snap' = {[run |-> r, version |-> version[r]] : r \in ActiveRuns}
  /\ engage' = "snapshot"
  /\ UNCHANGED <<runVars, lease, exhausted, callVars, jobVars, stop, found, stops, resumes,
                 owner, crashes, stopped>>

Fresh == {s.run : s \in {x \in snap : version[x.run] = x.version}}

EngageInterrupt ==
  /\ engage = "snapshot"
  /\ state' = [r \in Runs |-> IF r \in Fresh THEN "INTERRUPTED" ELSE state[r]]
  /\ version' = [r \in Runs |-> IF r \in Fresh THEN version[r] + 1 ELSE version[r]]
  /\ stopped' = stopped \cup Fresh
  /\ snap' = {}
  /\ engage' = "interrupted"
  /\ UNCHANGED <<lease, exhausted, callVars, jobVars, stop, found, stops, resumes, owner, crashes>>

ActiveLeases == {lease[p] : p \in Profiles} \ {NoLease}

EngageList ==
  /\ engage = "interrupted"
  /\ found' = ActiveLeases
  /\ engage' = "listed"
  /\ UNCHANGED <<runVars, lease, exhausted, callVars, jobVars, stop, snap, stops, resumes,
                 owner, crashes, stopped>>

EngageRelease ==
  /\ engage = "listed"
  /\ lease' = [p \in Profiles |-> IF lease[p] \in found THEN NoLease ELSE lease[p]]
  /\ found' = {}
  /\ engage' = "idle"
  /\ UNCHANGED <<runVars, exhausted, callVars, jobVars, stop, snap, stops, resumes,
                 owner, crashes, stopped>>

ResumeStop ==
  /\ stop
  /\ stop' = FALSE
  /\ resumes' = resumes + 1
  /\ UNCHANGED <<runVars, lease, exhausted, callVars, jobVars, engage, snap, found, stops,
                 owner, crashes, stopped>>

-----------------------------------------------------------------------------
(* The owner, capacity observations and crashes *)

\* POST /runs/{id}/pause, resume and cancel ask for one transition and touch nothing else:
\* neither the lease nor the job of a running Builder.
OwnerMoves(r, to) ==
  /\ owner < MaxOwner
  /\ to \in {"PAUSED", "RUNNING", "CANCELLED"}
  /\ Allowed(state[r], to)
  /\ state' = [state EXCEPT ![r] = to]
  /\ version' = [version EXCEPT ![r] = @ + 1]
  /\ owner' = owner + 1
  /\ stopped' = stopped \ {r}
  /\ UNCHANGED <<lease, exhausted, callVars, jobVars, stopVars, crashes>>

\* A later observation shows capacity again.
Replenish(p) ==
  /\ p \in exhausted
  /\ exhausted' = exhausted \ {p}
  /\ UNCHANGED <<runVars, lease, callVars, jobVars, stopVars, owner, crashes, stopped>>

\* A Core process dies with its threads, their locals, its registry and provider children;
\* rows stay.  (The death of a process that serves nothing shows in no variable.)
Served(x) == {c \in Calls : ProcOf[c] = x /\ pc[c] \notin Ended \cup {"new"}}
Cleared(f, x, nothing) == [c \in Calls |-> IF c \in Served(x) THEN nothing ELSE f[c]]

Crash(x) ==
  /\ crashes < MaxCrashes
  /\ Served(x) # {} \/ (x = StopProc /\ engage # "idle")
  /\ crashes' = crashes + 1
  /\ pc' = Cleared(pc, x, "raised")
  /\ ver' = Cleared(ver, x, 0)
  /\ prof' = Cleared(prof, x, None)
  /\ held' = Cleared(held, x, NoLease)
  /\ seen' = Cleared(seen, x, {})
  /\ excluded' = Cleared(excluded, x, {})
  /\ jobs' = [jobs EXCEPT ![x] = [r \in Runs |-> None]]
  /\ cancel' = cancel \ Served(x)
  /\ IF x = StopProc
     THEN engage' = "idle" /\ snap' = {} /\ found' = {}
     ELSE UNCHANGED <<engage, snap, found>>
  /\ UNCHANGED <<runVars, lease, exhausted, stop, stops, resumes, owner, stopped>>

-----------------------------------------------------------------------------
CallStep(c) ==
  \/ Begin(c)
  \/ CheckQueued(c)
  \/ Acquire(c)
  \/ CannotAcquire(c)
  \/ GiveUp(c)
  \/ ReadBack(c)
  \/ ReadCurrent(c)
  \/ ReadVersion(c)
  \/ Transition(c)
  \/ EventFails(c)
  \/ TransitionRefused(c)
  \/ Register(c)
  \/ Barrier(c)
  \/ Abort(c)
  \/ ProviderEnds(c)
  \/ Fail(c)
  \/ Judge(c)
  \/ Exhaust(c)
  \/ Refresh(c)
  \/ Answer(c)
  \/ Settle(c)
  \/ Release(c)

EngageStep ==
  \/ EngageBarrier
  \/ EngageCancel
  \/ EngageSnapshot
  \/ EngageInterrupt
  \/ EngageList
  \/ EngageRelease

Next ==
  \/ \E c \in Calls : CallStep(c)
  \/ EngageFlag
  \/ EngageStep
  \/ ResumeStop
  \/ \E r \in Runs, to \in RunStateSet : OwnerMoves(r, to)
  \/ \E p \in Profiles : Replenish(p)
  \/ \E x \in Processes : Crash(x)

Spec == Init /\ [][Next]_vars

\* A started call and a started engage() run to their end: threads are scheduled, and the
\* adapter ends every provider process by its timeout.
Fairness ==
  /\ \A c \in Calls : WF_vars(pc[c] # "new" /\ CallStep(c))
  /\ WF_vars(EngageStep)

FairSpec == Spec /\ Fairness

-----------------------------------------------------------------------------
(* Properties *)

Running(c) == pc[c] \in Started

\* run_leases.py:8: no second writer on a profile.  The lease makes it so until the owner
\* resumes after an Emergency Stop, which has released leases of Builders still running.
OneBuilderPerProfile ==
  \A c, d \in Calls : Running(c) /\ Running(d) /\ prof[c] = prof[d] => c = d

OneBuilderUntilResume == resumes = 0 => OneBuilderPerProfile

\* A dispatch starts at most two Builders and never the same profile twice, although another
\* observation can make an exhausted profile look available again in between.
OneSwitch ==
  \A c \in Calls :
    /\ Cardinality(excluded[c]) <= 2
    /\ Running(c) => prof[c] \notin excluded[c] /\ Cardinality(excluded[c]) <= 1

\* A call that returns (rather than raises) leaves no lease of its own behind, whatever path
\* it took through failure, switch and Emergency Stop (runtime.py:211, 221, 257, 270).
ReturnedHoldsNothing ==
  \A c \in Calls : pc[c] = "returned" =>
    \A p \in Profiles : lease[p].by # c

\* Emergency Stop has signalled every Builder of its own process by the time it interrupts
\* the Runs, also one that was starting at that moment.
StopReachesLocalBuilders ==
  \A c \in Calls :
    Running(c) /\ ProcOf[c] = StopProc /\ stop /\ engage \in {"cancelled", "snapshot", "interrupted", "listed"}
      => c \in cancel

\* Every call that begins returns or raises.
CallsEnd == \A c \in Calls : pc[c] = "queued" ~> pc[c] \in Ended

\* A Builder that runs when Emergency Stop comes on ends, and its Run does not stay active while
\* the stop stays on, if the owner moves no Run from there (emergency.py:103-114, runtime.py:222-228,
\* 254-262); a resume between the snapshot and the UPDATE of engage() would take the Run out.
StopEndsBuilders ==
  \A c \in Calls :
    stop /\ engage = "barrier" /\ Running(c) /\ owner = MaxOwner
      ~> ~stop \/ state[RunOf[c]] \notin {"PREPARING", "RUNNING"}

(* Statements of the code that concurrent calls break *)

\* runtime.py:125: one writer.  Two calls that both saw the Run QUEUED can each start a
\* Builder for it, on different profiles.
OneBuilderPerRun ==
  \A c, d \in Calls : Running(c) /\ Running(d) /\ RunOf[c] = RunOf[d] => c = d

\* emergency.py:131: interrupted Runs are resumed by the owner only.
\* (A call that passed the first check before the stop starts its Builder after resume().)
NoSilentRestart ==
  [][\A c \in Calls : pc[c] = "barrier" /\ pc'[c] = "running" => RunOf[c] \notin stopped]_vars

=============================================================================
