------------------------- MODULE RunDispatchProofs -------------------------
(***************************************************************************)
(* Leases, switches and Emergency Stop of Builder dispatch, for any number *)
(* of Runs, profiles, Core processes and overlapping calls.                *)
(***************************************************************************)
EXTENDS RunDispatch, FiniteSetTheorems, TLAPS

\* From the insertion of its lease to its release a call has a profile and a lease.
Holding == {"readback", "current", "prepare", "run", "register", "barrier", "abort", "running",
            "answered", "failed", "settle", "collect", "release"}
\* Registered and not yet ended.
InJobs == {"barrier", "running"}
\* From here a call starts no further Builder.
Done == {"owner", "returned", "raised"}
Late == {"cancelled", "snapshot", "interrupted", "listed"}

Types ==
  /\ pc \in [Calls -> Points]
  /\ lease \in [Profiles -> Leases]
  /\ prof \in [Calls -> Profiles \cup {None}]
  /\ held \in [Calls -> Leases]
  /\ seen \in [Calls -> SUBSET Profiles]
  /\ excluded \in [Calls -> SUBSET (Profiles \cup {None})]
  /\ jobs \in [Processes -> [Runs -> Calls \cup {None}]]
  /\ cancel \subseteq Calls
  /\ stop \in BOOLEAN
  /\ engage \in {"idle", "flagged", "barrier"} \cup Late
  /\ resumes \in Nat

\* A row names a call that has not given it back, or that raised; once read back it is the very
\* row the call will release.
LeaseIsHeld ==
  \A c \in Calls, p \in Profiles : lease[p].by = c =>
    /\ pc[c] \in Holding \cup {"raised"}
    /\ pc[c] \in Holding => p = prof[c]
    /\ pc[c] \in Holding \ {"readback"} => held[c] = lease[p]

\* Until an Emergency Stop nobody else takes that row away.
HolderHasLease ==
  ~stop /\ resumes = 0 => \A c \in Calls : pc[c] \in Holding =>
    /\ lease[prof[c]].by = c
    /\ pc[c] # "readback" => held[c] = lease[prof[c]]

\* engage() is beyond its barrier only with the Stop on, unless the owner has resumed.
StopStands == engage \in {"barrier"} \cup Late => stop \/ resumes # 0

\* One profile is excluded before the switch, two after the second limit.
ExcludedOnce ==
  \A c \in Calls :
    /\ IsFiniteSet(excluded[c]) /\ Cardinality(excluded[c]) <= 2
    /\ pc[c] \notin Done => Cardinality(excluded[c]) <= 1
    /\ pc[c] \in Holding => prof[c] \in Profiles \ excluded[c]

Local(c) == ProcOf[c] = StopProc

\* The calls in the process of engage() dispatch different Runs.
OneCallPerRun == \A c, d \in Calls : Local(c) /\ Local(d) /\ RunOf[c] = RunOf[d] => c = d

\* Then a starting or running Builder of that process is found in its registry, and signalled.
LocalIsSignalled ==
  OneCallPerRun => \A c \in Calls : Local(c) =>
    /\ pc[c] \in InJobs => jobs[StopProc][RunOf[c]] = c
    /\ Running(c) /\ engage \in Late => c \in cancel

IInv ==
  /\ Types /\ LeaseIsHeld /\ HolderHasLease /\ StopStands /\ OneBuilderUntilResume
  /\ ExcludedOnce /\ LocalIsSignalled

-----------------------------------------------------------------------------
\* The points of a call, written out.
LEMMA PointsAre ==
  /\ DOMAIN Target = {"giveUpPrepare", "owner", "prepare", "run", "limited", "auth", "collect", "interrupt"}
  /\ DOMAIN After = DOMAIN Target
  /\ Holding \cup InJobs \cup Done \subseteq Points
  /\ {"new", "queued", "acquire", "giveUp", "judge", "exhaust", "refresh"} \subseteq Points
BY DEF Target, After, Points, Holding, InJobs, Done, Ended

LEMMA AfterIs ==
  ASSUME NEW s \in DOMAIN Target
  PROVE  /\ After[s] \in Points
         /\ s \in {"prepare", "run", "collect"} => After[s] \in Holding \ ({"readback"} \cup InJobs)
         /\ s \notin {"prepare", "run", "collect"} => After[s] \notin Holding
         /\ s \in Done => After[s] \in Done
BY PointsAre DEF After, Holding, InJobs, Done, Points, Ended

\* Removing call c from the registry of its process touches the entry of its own Run only.
LEMMA UnregisteredIs ==
  ASSUME Types, NEW c \in Calls
  PROVE  /\ Unregistered(c) \in [Processes -> [Runs -> Calls \cup {None}]]
         /\ \A r \in Runs : StopProc # ProcOf[c] \/ r # RunOf[c] =>
              Unregistered(c)[StopProc][r] = jobs[StopProc][r]
<1> DEFINE x == ProcOf[c]
           row == [jobs[x] EXCEPT ![RunOf[c]] = None]
<1>1. x \in Processes /\ RunOf[c] \in Runs /\ StopProc \in Processes
  BY DispatchAssumption
<1>2. jobs[x] \in [Runs -> Calls \cup {None}] /\ jobs[StopProc] \in [Runs -> Calls \cup {None}]
  BY <1>1 DEF Types
<1>3. row \in [Runs -> Calls \cup {None}] /\ \A r \in Runs : r # RunOf[c] => row[r] = jobs[x][r]
  BY <1>2
<1>4. Unregistered(c) = [jobs EXCEPT ![x] = row]
  BY DEF Unregistered
<1> HIDE DEF row
<1> QED
  BY <1>1, <1>2, <1>3, <1>4 DEF Types

\* A step of call c that takes no lease and starts no Builder: it moves on, and perhaps takes
\* itself out of the registry.
LEMMA WalkKeeps ==
  ASSUME IInv, NEW c \in Calls, NEW q \in Points \ InJobs, pc' = [pc EXCEPT ![c] = q],
         UNCHANGED <<lease, prof, held, excluded, cancel, stop, engage, resumes>>,
         jobs' \in {jobs, Unregistered(c)},
         seen' \in [Calls -> SUBSET Profiles],
         q \in Holding => pc[c] \in Holding \ {"readback"} /\ q # "readback",
         pc[c] \in Holding => q \in Holding \cup {"raised"},
         pc[c] = "raised" => q = "raised",
         pc[c] \in Done => q \in Done
  PROVE  IInv'
<1>1. pc \in [Calls -> Points] /\ pc'[c] = q /\ \A d \in Calls : d # c => pc'[d] = pc[d]
  BY DEF IInv, Types
<1>2. Types'
  <2>1. jobs' \in [Processes -> [Runs -> Calls \cup {None}]]
    BY UnregisteredIs DEF IInv, Types
  <2> QED
    BY <1>1, <2>1 DEF IInv, Types
<1>3. LeaseIsHeld'
  <2> SUFFICES ASSUME NEW d \in Calls, NEW p \in Profiles, lease[p].by = d
               PROVE  /\ pc'[d] \in Holding \cup {"raised"}
                      /\ pc'[d] \in Holding => p = prof[d]
                      /\ pc'[d] \in Holding \ {"readback"} => held[d] = lease[p]
    BY DEF LeaseIsHeld
  <2>1. /\ pc[d] \in Holding \cup {"raised"}
        /\ pc[d] \in Holding => p = prof[d]
        /\ pc[d] \in Holding \ {"readback"} => held[d] = lease[p]
    BY DEF IInv, LeaseIsHeld
  <2>2. CASE d = c
    BY <1>1, <2>1, <2>2
  <2>3. CASE d # c
    BY <1>1, <2>1, <2>3
  <2> QED
    BY <2>2, <2>3
<1>4. HolderHasLease'
  BY <1>1 DEF IInv, HolderHasLease
<1>5. StopStands'
  BY DEF IInv, StopStands
<1>6. \A d \in Calls : pc'[d] \in InJobs => d # c /\ pc[d] = pc'[d]
  BY <1>1
<1>7. OneBuilderUntilResume'
  BY <1>6 DEF IInv, OneBuilderUntilResume, OneBuilderPerProfile, Running, Started, InJobs
<1>8. LocalIsSignalled'
  <2> SUFFICES ASSUME OneCallPerRun, NEW d \in Calls, Local(d), pc'[d] \in InJobs
               PROVE  /\ jobs'[StopProc][RunOf[d]] = d
                      /\ pc'[d] = "running" /\ engage \in Late => d \in cancel
    BY DEF LocalIsSignalled, OneCallPerRun, Local, Running, Started, InJobs
  <2>1. d # c /\ jobs[StopProc][RunOf[d]] = d /\ (pc'[d] = "running" /\ engage \in Late => d \in cancel)
    BY <1>6 DEF IInv, LocalIsSignalled, Running, Started
  <2>2. ~Local(c) \/ RunOf[c] # RunOf[d]
    BY <2>1 DEF OneCallPerRun
  <2>3. jobs'[StopProc][RunOf[d]] = jobs[StopProc][RunOf[d]]
    BY <2>2, UnregisteredIs, DispatchAssumption DEF Local, IInv
  <2> QED
    BY <2>1, <2>3
<1>9. ExcludedOnce'
  BY <1>1 DEF IInv, ExcludedOnce
<1> QED
  BY <1>2, <1>3, <1>4, <1>5, <1>7, <1>8, <1>9 DEF IInv

\* A call that gives its lease back removes exactly its own row.
LEMMA GiveBackKeeps ==
  ASSUME IInv, NEW c \in Calls, NEW next \in Points \ (Holding \cup InJobs \cup Done \cup {"acquire"}),
         pc[c] \in Holding \ {"readback"}, ReleaseThen(c, next) \/ ReleaseThen(c, "returned"),
         UNCHANGED <<prof, held, seen, excluded, cancel, stop, engage, resumes>>,
         jobs' \in {jobs, Unregistered(c)}
  PROVE  IInv'
<1> DEFINE q == pc'[c]
<1>1. /\ pc \in [Calls -> Points] /\ pc' = [pc EXCEPT ![c] = q]
      /\ q \in Points \ (Holding \cup InJobs)
      /\ \A d \in Calls : d # c => pc'[d] = pc[d]
  BY PointsAre DEF IInv, Types, ReleaseThen, Goto, Done, Holding, InJobs
<1>2. lease' \in [Profiles -> Leases]
      /\ \A p \in Profiles : lease'[p] = lease[p] \/ (lease'[p] = NoLease /\ lease[p] = held[c])
  BY DEF IInv, Types, ReleaseThen, Released, Leases
<1>3. \A p \in Profiles : lease'[p].by # c
  <2> SUFFICES ASSUME NEW p \in Profiles, lease'[p].by = c  PROVE FALSE
    OBVIOUS
  <2>1. NoLease.by \notin Calls
    BY DispatchAssumption DEF NoLease
  <2>2. lease[p] = lease'[p] /\ lease[p] # NoLease
    BY <1>2, <2>1
  <2>3. held[c] = lease[p]
    BY <2>2 DEF IInv, LeaseIsHeld
  <2>4. lease'[p] = NoLease
    BY <2>2, <2>3 DEF ReleaseThen, Released
  <2> QED
    BY <2>2, <2>4
<1>4. \A d \in Calls : pc'[d] \in Holding => d # c /\ pc'[d] = pc[d]
  BY <1>1
<1>5. Types'
  <2>1. jobs' \in [Processes -> [Runs -> Calls \cup {None}]]
    BY UnregisteredIs DEF IInv, Types
  <2> QED
    BY <1>1, <1>2, <2>1 DEF IInv, Types
<1>6. LeaseIsHeld'
  <2> SUFFICES ASSUME NEW d \in Calls, NEW p \in Profiles, lease'[p].by = d
               PROVE  /\ pc'[d] \in Holding \cup {"raised"}
                      /\ pc'[d] \in Holding => p = prof[d]
                      /\ pc'[d] \in Holding \ {"readback"} => held[d] = lease'[p]
    BY DEF LeaseIsHeld
  <2>1. d # c /\ lease'[p] = lease[p]
    BY <1>2, <1>3, DispatchAssumption DEF NoLease
  <2> QED
    BY <1>1, <2>1 DEF IInv, LeaseIsHeld
<1>7. HolderHasLease'
  <2> SUFFICES ASSUME ~stop, resumes = 0, NEW d \in Calls, pc'[d] \in Holding
               PROVE  /\ lease'[prof[d]].by = d
                      /\ pc'[d] # "readback" => held[d] = lease'[prof[d]]
    BY DEF HolderHasLease
  <2>1. d # c /\ pc[d] = pc'[d]
    BY <1>4
  <2>2. /\ lease[prof[d]].by = d
        /\ pc[d] # "readback" => held[d] = lease[prof[d]]
    BY <2>1 DEF IInv, HolderHasLease
  <2>3. held[c].by = c
    BY DEF IInv, HolderHasLease
  <2>4. lease'[prof[d]] = lease[prof[d]]
    BY <1>2, <2>1, <2>2, <2>3 DEF IInv, ExcludedOnce
  <2> QED
    BY <2>1, <2>2, <2>4
<1>8. StopStands'
  BY DEF IInv, StopStands
<1>9. OneBuilderUntilResume'
  BY <1>1 DEF IInv, OneBuilderUntilResume, OneBuilderPerProfile, Running, Started, InJobs
<1>10. LocalIsSignalled'
  <2> SUFFICES ASSUME OneCallPerRun, NEW d \in Calls, Local(d), pc'[d] \in InJobs
               PROVE  /\ jobs'[StopProc][RunOf[d]] = d
                      /\ pc'[d] = "running" /\ engage \in Late => d \in cancel
    BY DEF LocalIsSignalled, OneCallPerRun, Local, Running, Started, InJobs
  <2>1. d # c /\ jobs[StopProc][RunOf[d]] = d /\ (pc'[d] = "running" /\ engage \in Late => d \in cancel)
    BY <1>1 DEF IInv, LocalIsSignalled, Running, Started
  <2>2. ~Local(c) \/ RunOf[c] # RunOf[d]
    BY <2>1 DEF OneCallPerRun
  <2>3. jobs'[StopProc][RunOf[d]] = jobs[StopProc][RunOf[d]]
    BY <2>2, UnregisteredIs, DispatchAssumption DEF Local, IInv
  <2> QED
    BY <2>1, <2>3
<1>11. ExcludedOnce'
  BY <1>1 DEF IInv, ExcludedOnce, Holding, Done
<1> QED
  BY <1>5, <1>6, <1>7, <1>8, <1>9, <1>10, <1>11 DEF IInv

-----------------------------------------------------------------------------
(* The steps of a call *)

\* The unique index gives the profile to nobody else.
LEMMA AcquireKeeps ==
  ASSUME IInv, NEW c \in Calls, Acquire(c)
  PROVE  IInv'
<1> USE DEF IInv
<1>1. PICK p \in Eligible(c) : /\ lease[p] = NoLease
                               /\ lease' = [lease EXCEPT ![p] = LeaseOf(c)]
                               /\ prof' = [prof EXCEPT ![c] = p]
  BY DEF Acquire, Leased
<1>2. p \in Profiles \ excluded[c]
  BY DEF Eligible, Types
<1>3. /\ pc[c] = "acquire" /\ pc'[c] = "readback" /\ pc' \in [Calls -> Points]
      /\ \A d \in Calls : d # c => pc'[d] = pc[d]
  BY PointsAre DEF Acquire, Goto, Types, Holding
<1>4. prof'[c] = p /\ \A d \in Calls : d # c => prof'[d] = prof[d]
  BY <1>1 DEF Types
<1>5. LeaseOf(c) \in Leases /\ LeaseOf(c).by = c
  BY FS_CardinalityType DEF LeaseOf, Leases, ExcludedOnce
<1>6. lease'[p].by = c /\ \A r \in Profiles : r # p => lease'[r] = lease[r]
  BY <1>1, <1>2, <1>5 DEF Types
<1>7. Types'
  BY <1>1, <1>2, <1>3, <1>5 DEF Acquire, Types, jobVars, stopVars
<1>8. \A r \in Profiles : lease[r].by # c
  BY <1>3 DEF LeaseIsHeld, Holding
<1>9. NoLease.by \notin Calls
  BY DispatchAssumption DEF NoLease
<1>10. LeaseIsHeld'
  BY <1>3, <1>4, <1>6, <1>8 DEF LeaseIsHeld, Acquire, Holding
<1>11. HolderHasLease'
  <2> SUFFICES ASSUME ~stop, resumes = 0, NEW d \in Calls, pc'[d] \in Holding
               PROVE  /\ lease'[prof'[d]].by = d
                      /\ pc'[d] # "readback" => held[d] = lease'[prof'[d]]
    BY DEF HolderHasLease, Acquire, stopVars
  <2>1. CASE d = c
    BY <2>1, <1>3, <1>4, <1>6
  <2>2. CASE d # c
    <3>1. /\ lease[prof[d]].by = d /\ prof[d] \in Profiles
          /\ pc[d] # "readback" => held[d] = lease[prof[d]]
      BY <2>2, <1>3 DEF HolderHasLease, ExcludedOnce
    <3>2. prof[d] # p
      BY <3>1, <1>1, <1>9
    <3> QED
      BY <3>1, <3>2, <2>2, <1>3, <1>4, <1>6
  <2> QED
    BY <2>1, <2>2
<1>12. StopStands'
  BY DEF Acquire, StopStands, stopVars
<1>13. \A d \in Calls : pc'[d] \in InJobs => d # c /\ pc[d] = pc'[d] /\ prof'[d] = prof[d]
  BY <1>3, <1>4 DEF InJobs
<1>14. OneBuilderUntilResume' /\ LocalIsSignalled'
  BY <1>13 DEF OneBuilderUntilResume, OneBuilderPerProfile, LocalIsSignalled, Running, Started,
               InJobs, OneCallPerRun, Local, Acquire, jobVars, stopVars
<1>15. ExcludedOnce'
  BY <1>2, <1>3, <1>4 DEF ExcludedOnce, Acquire, Holding, Done
<1> QED
  BY <1>7, <1>10, <1>11, <1>12, <1>14, <1>15

\* What is read back is the row of the profile, whoever holds it.
LEMMA ReadBackKeeps ==
  ASSUME IInv, NEW c \in Calls, ReadBack(c)
  PROVE  IInv'
<1> USE DEF IInv
<1>1. /\ pc[c] = "readback" /\ pc'[c] = "current" /\ pc' \in [Calls -> Points]
      /\ \A d \in Calls : d # c => pc'[d] = pc[d]
  BY PointsAre DEF ReadBack, Goto, Types, Holding
<1>2. prof[c] \in Profiles
  BY <1>1 DEF ExcludedOnce, Holding
<1>3. held'[c] = lease[prof[c]] /\ held' \in [Calls -> Leases]
      /\ \A d \in Calls : d # c => held'[d] = held[d]
  BY <1>2 DEF ReadBack, Types
<1>4. Types'
  BY <1>1, <1>3 DEF ReadBack, Types, jobVars, stopVars
<1>5. LeaseIsHeld'
  BY <1>1, <1>3 DEF LeaseIsHeld, ReadBack, Holding
<1>6. HolderHasLease'
  BY <1>1, <1>3 DEF HolderHasLease, ReadBack, Holding, stopVars
<1>7. StopStands'
  BY DEF ReadBack, StopStands, stopVars
<1>8. OneBuilderUntilResume' /\ LocalIsSignalled'
  BY <1>1 DEF OneBuilderUntilResume, OneBuilderPerProfile, LocalIsSignalled, Running, Started,
              InJobs, OneCallPerRun, Local, ReadBack, jobVars, stopVars
<1>9. ExcludedOnce'
  BY <1>1 DEF ExcludedOnce, ReadBack, Holding, Done
<1> QED
  BY <1>4, <1>5, <1>6, <1>7, <1>8, <1>9

LEMMA RegisterKeeps ==
  ASSUME IInv, NEW c \in Calls, Register(c)
  PROVE  IInv'
<1> USE DEF IInv
<1> DEFINE x == ProcOf[c]
           row == [jobs[x] EXCEPT ![RunOf[c]] = c]
<1>1. x \in Processes /\ RunOf[c] \in Runs /\ StopProc \in Processes
  BY DispatchAssumption
<1>2. jobs[x] \in [Runs -> Calls \cup {None}]
  BY <1>1 DEF Types
<1>3. /\ row \in [Runs -> Calls \cup {None}] /\ row[RunOf[c]] = c
      /\ \A r \in Runs : r # RunOf[c] => row[r] = jobs[x][r]
  BY <1>1, <1>2
<1>4. jobs' = [jobs EXCEPT ![x] = row]
  BY DEF Register
<1> HIDE DEF row
<1>5. /\ jobs' \in [Processes -> [Runs -> Calls \cup {None}]]
      /\ jobs'[x][RunOf[c]] = c
      /\ \A r \in Runs : StopProc # x \/ r # RunOf[c] => jobs'[StopProc][r] = jobs[StopProc][r]
  BY <1>1, <1>3, <1>4 DEF Types
<1>6. /\ pc[c] = "register" /\ pc'[c] = "barrier" /\ pc' \in [Calls -> Points]
      /\ \A d \in Calls : d # c => pc'[d] = pc[d]
  BY PointsAre DEF Register, Goto, Types, Holding
<1>7. Types'
  BY <1>5, <1>6 DEF Register, Types, stopVars
<1>8. LeaseIsHeld'
  BY <1>6 DEF LeaseIsHeld, Register, Holding
<1>9. HolderHasLease'
  BY <1>6 DEF HolderHasLease, Register, Holding, stopVars
<1>10. StopStands'
  BY DEF Register, StopStands, stopVars
<1>11. OneBuilderUntilResume'
  BY <1>6 DEF OneBuilderUntilResume, OneBuilderPerProfile, Running, Started, Register, stopVars
<1>12. LocalIsSignalled'
  <2> SUFFICES ASSUME OneCallPerRun, NEW d \in Calls, Local(d)
               PROVE  /\ pc'[d] \in InJobs => jobs'[StopProc][RunOf[d]] = d
                      /\ pc'[d] = "running" /\ engage \in Late => d \in cancel'
    BY DEF LocalIsSignalled, OneCallPerRun, Local, Running, Started, Register, stopVars
  <2>1. CASE d = c
    BY <2>1, <1>5, <1>6 DEF Local
  <2>2. CASE d # c
    <3>1. /\ pc[d] \in InJobs => jobs[StopProc][RunOf[d]] = d
          /\ pc[d] = "running" /\ engage \in Late => d \in cancel
      BY DEF LocalIsSignalled, Running, Started
    <3>2. StopProc # x \/ RunOf[d] # RunOf[c]
      BY <2>2 DEF OneCallPerRun, Local
    <3>3. jobs'[StopProc][RunOf[d]] = jobs[StopProc][RunOf[d]]
      BY <3>2, <1>5, DispatchAssumption
    <3> QED
      BY <2>2, <3>1, <3>3, <1>6 DEF Register
  <2> QED
    BY <2>1, <2>2
<1>13. ExcludedOnce'
  BY <1>6 DEF ExcludedOnce, Register, Holding, Done
<1> QED
  BY <1>7, <1>8, <1>9, <1>10, <1>11, <1>12, <1>13

\* A Builder starts only with Emergency Stop off, and then the lease of its profile is its own.
LEMMA BarrierKeeps ==
  ASSUME IInv, NEW c \in Calls, Barrier(c)
  PROVE  IInv'
<1> USE DEF IInv
<1>1. /\ pc[c] = "barrier" /\ pc'[c] \in {"abort", "running"} /\ pc' \in [Calls -> Points]
      /\ \A d \in Calls : d # c => pc'[d] = pc[d]
      /\ pc'[c] = "running" => ~stop /\ (Local(c) => engage = "idle")
  BY PointsAre DEF Barrier, Goto, Types, Holding, BlockedAtStart, BlocksNewJobs, Local
<1>2. Types' /\ StopStands'
  BY <1>1 DEF Barrier, Types, StopStands, jobVars, stopVars
<1>3. LeaseIsHeld'
  BY <1>1 DEF LeaseIsHeld, Barrier, Holding
<1>4. HolderHasLease'
  BY <1>1 DEF HolderHasLease, Barrier, Holding, stopVars
<1>5. OneBuilderUntilResume'
  <2> SUFFICES ASSUME resumes = 0, NEW d \in Calls, NEW e \in Calls, pc'[d] = "running",
                      pc'[e] = "running", prof[d] = prof[e]
               PROVE  d = e
    BY DEF OneBuilderUntilResume, OneBuilderPerProfile, Running, Started, Barrier, stopVars
  <2>1. CASE d # c /\ e # c
    BY <2>1, <1>1 DEF OneBuilderUntilResume, OneBuilderPerProfile, Running, Started
  <2>2. CASE d = c \/ e = c
    <3>1. ~stop
      BY <2>2, <1>1
    <3>2. lease[prof[d]].by = d /\ lease[prof[e]].by = e
      BY <3>1, <1>1 DEF HolderHasLease, Holding
    <3> QED
      BY <3>2
  <2> QED
    BY <2>1, <2>2
<1>6. LocalIsSignalled'
  <2> SUFFICES ASSUME OneCallPerRun, NEW d \in Calls, Local(d)
               PROVE  /\ pc'[d] \in InJobs => jobs[StopProc][RunOf[d]] = d
                      /\ pc'[d] = "running" /\ engage \in Late => d \in cancel
    BY DEF LocalIsSignalled, OneCallPerRun, Local, Running, Started, Barrier, stopVars, jobVars
  <2>1. /\ pc[d] \in InJobs => jobs[StopProc][RunOf[d]] = d
        /\ pc[d] = "running" /\ engage \in Late => d \in cancel
    BY DEF LocalIsSignalled, Running, Started
  <2> QED
    BY <2>1, <1>1 DEF InJobs, Late
<1>7. ExcludedOnce'
  BY <1>1 DEF ExcludedOnce, Barrier, Holding, Done
<1> QED
  BY <1>2, <1>3, <1>4, <1>5, <1>6, <1>7

\* The first limit excludes one profile and goes on, the second one excludes another and gives up.
LEMMA ExhaustKeeps ==
  ASSUME IInv, NEW c \in Calls, Exhaust(c)
  PROVE  IInv'
<1> USE DEF IInv
<1>1. /\ pc[c] = "exhaust" /\ pc'[c] \in {"owner", "refresh"} /\ pc' \in [Calls -> Points]
      /\ pc'[c] = "refresh" => excluded[c] = {}
      /\ \A d \in Calls : d # c => pc'[d] = pc[d]
  BY PointsAre DEF Exhaust, Goto, Types, Done
<1>2. /\ excluded'[c] = excluded[c] \cup {prof[c]}
      /\ excluded' \in [Calls -> SUBSET (Profiles \cup {None})]
      /\ \A d \in Calls : d # c => excluded'[d] = excluded[d]
  BY DEF Exhaust, Types, Excluding
<1>3. /\ IsFiniteSet(excluded'[c]) /\ Cardinality(excluded'[c]) <= 2
      /\ pc'[c] = "refresh" => Cardinality(excluded'[c]) <= 1
  <2>1. IsFiniteSet(excluded[c]) /\ Cardinality(excluded[c]) <= 1 /\ Cardinality(excluded[c]) \in Nat
    BY <1>1, FS_CardinalityType DEF ExcludedOnce, Done
  <2>2. IsFiniteSet(excluded'[c])
        /\ (Cardinality(excluded'[c]) = Cardinality(excluded[c])
            \/ Cardinality(excluded'[c]) = Cardinality(excluded[c]) + 1)
    <3> DEFINE S == excluded[c]
               e == prof[c]
    <3>1. IsFiniteSet(S) /\ excluded'[c] = S \cup {e}
      BY <2>1, <1>2
    <3> HIDE DEF S
    <3>2. /\ IsFiniteSet(S \cup {e})
          /\ e \in S => Cardinality(S \cup {e}) = Cardinality(S)
          /\ e \notin S => Cardinality(S \cup {e}) = Cardinality(S) + 1
      BY <3>1, FS_AddElement
    <3> QED
      BY <3>1, <3>2 DEF S
  <2>3. excluded[c] = {} => Cardinality(excluded[c]) = 0
    BY FS_EmptySet
  <2> QED
    BY <2>1, <2>2, <2>3, <1>1
<1>4. Types' /\ StopStands'
  BY <1>1, <1>2 DEF Exhaust, Types, StopStands, jobVars, stopVars
<1>5. LeaseIsHeld' /\ HolderHasLease'
  BY <1>1 DEF LeaseIsHeld, HolderHasLease, Exhaust, Holding, stopVars
<1>6. OneBuilderUntilResume' /\ LocalIsSignalled'
  BY <1>1 DEF OneBuilderUntilResume, OneBuilderPerProfile, LocalIsSignalled, Running, Started,
              InJobs, OneCallPerRun, Local, Exhaust, jobVars, stopVars
<1>7. ExcludedOnce'
  <2> SUFFICES ASSUME NEW d \in Calls
               PROVE  /\ IsFiniteSet(excluded'[d]) /\ Cardinality(excluded'[d]) <= 2
                      /\ pc'[d] \notin Done => Cardinality(excluded'[d]) <= 1
                      /\ pc'[d] \in Holding => prof[d] \in Profiles \ excluded'[d]
    BY DEF ExcludedOnce, Exhaust
  <2>1. CASE d = c
    BY <2>1, <1>1, <1>3 DEF Holding, Done
  <2>2. CASE d # c
    BY <2>2, <1>1, <1>2 DEF ExcludedOnce
  <2> QED
    BY <2>1, <2>2
<1> QED
  BY <1>4, <1>5, <1>6, <1>7

\* Every step of a call.
LEMMA CallKeeps ==
  ASSUME IInv, NEW c \in Calls, CallStep(c)
  PROVE  IInv'
<1> USE DEF IInv
<1> DEFINE Quiet == UNCHANGED <<lease, prof, held, excluded, jobs, cancel, stop, engage, resumes>>
<1>1. ASSUME Begin(c)
      PROVE  IInv'
  <2>1. /\ pc[c] = "new" /\ pc' = [pc EXCEPT ![c] = pc'[c]] /\ pc'[c] \in {"returned", "queued"}
        /\ seen' \in [Calls -> SUBSET Profiles] /\ Quiet
    BY <1>1 DEF Begin, Goto, Types, jobVars, stopVars
  <2> QED
    BY <2>1, WalkKeeps, PointsAre DEF Holding, InJobs, Done
<1>2. ASSUME CheckQueued(c) \/ CannotAcquire(c) \/ GiveUp(c)
      PROVE  IInv'
  <2>1. /\ pc[c] \in {"queued", "acquire", "giveUp"} /\ pc' = [pc EXCEPT ![c] = pc'[c]] /\ seen' = seen
        /\ pc'[c] \in {"acquire", "returned", "giveUp", "giveUpPrepare", "owner", "raised"} /\ Quiet
    BY <1>2 DEF CheckQueued, CannotAcquire, GiveUp, Goto, Types, jobVars, stopVars
  <2> QED
    BY <2>1, WalkKeeps, PointsAre DEF Types, Holding, InJobs, Done, Points, Ended
<1>3. ASSUME ReadCurrent(c)
      PROVE  IInv'
  <2>1. /\ pc[c] = "current" /\ pc' = [pc EXCEPT ![c] = pc'[c]] /\ seen' = seen
        /\ pc'[c] \in {"prepare", "run"} /\ Quiet
    BY <1>3 DEF ReadCurrent, Goto, Types, jobVars, stopVars
  <2> QED
    BY <2>1, WalkKeeps, PointsAre DEF Types, Holding, InJobs, Done
<1>4. ASSUME ReadVersion(c)
      PROVE  IInv'
  <2>1. /\ pc[c] \in DOMAIN Target /\ pc' = [pc EXCEPT ![c] = pc'[c]] /\ seen' = seen
        /\ pc'[c] = pc[c] \/ (pc[c] = "interrupt" /\ pc'[c] = "returned")
        /\ Quiet
    BY <1>4 DEF ReadVersion, Goto, Types, jobVars, stopVars
  <2> QED
    BY <2>1, WalkKeeps, PointsAre DEF Types, Holding, InJobs, Done
<1>5. ASSUME Transition(c) \/ EventFails(c) \/ TransitionRefused(c)
      PROVE  IInv'
  <2>1. /\ pc[c] \in DOMAIN Target /\ pc' = [pc EXCEPT ![c] = pc'[c]] /\ seen' = seen
        /\ pc'[c] \in {After[pc[c]], "raised"} \/ (pc[c] = "interrupt" /\ pc'[c] = "returned")
        /\ Quiet
    BY <1>5 DEF Transition, EventFails, MoveThen, TransitionRefused, Goto, Types, jobVars, stopVars
  <2>2. /\ pc'[c] \in Points \ InJobs
        /\ pc'[c] \in Holding => pc[c] \in Holding \ {"readback"} /\ pc'[c] # "readback"
        /\ pc[c] \in Holding => pc'[c] \in Holding \cup {"raised"}
        /\ pc[c] \in Done => pc'[c] \in Done
        /\ pc[c] # "raised"
    BY <2>1, AfterIs, PointsAre DEF Holding, InJobs, Done
  <2> QED
    BY <2>1, <2>2, WalkKeeps DEF Types
<1>6. ASSUME ProviderEnds(c) \/ Answer(c)
      PROVE  IInv'
  <2>1. /\ pc[c] \in {"running", "answered"} /\ pc' = [pc EXCEPT ![c] = pc'[c]] /\ seen' = seen
        /\ pc'[c] \in {"answered", "failed", "raised", "settle", "collect"}
        /\ jobs' \in {jobs, Unregistered(c)}
        /\ UNCHANGED <<lease, prof, held, excluded, cancel, stop, engage, resumes>>
    BY <1>6 DEF ProviderEnds, Answer, Goto, Types, jobVars, stopVars
  <2>2. /\ pc'[c] \in Points \ InJobs
        /\ pc'[c] \in (Holding \ {"readback"}) \cup {"raised"}
        /\ pc[c] \in Holding \ {"readback"} /\ pc[c] # "raised" /\ pc[c] \notin Done
    BY <2>1, PointsAre DEF Holding, InJobs, Done, Points
  <2>3. seen' \in [Calls -> SUBSET Profiles]
    BY <2>1 DEF Types
  <2> QED
    BY <2>1, <2>2, <2>3, WalkKeeps DEF Done, Holding
<1>7. ASSUME Judge(c) \/ Refresh(c)
      PROVE  IInv'
  <2>1. /\ pc[c] \in {"judge", "refresh"} /\ pc' = [pc EXCEPT ![c] = pc'[c]]
        /\ pc'[c] \in {"interrupt", "limited", "auth", "owner", "acquire"}
        /\ seen' \in [Calls -> SUBSET Profiles] /\ Quiet
    BY <1>7 DEF Judge, Refresh, Goto, Types, jobVars, stopVars
  <2>2. /\ pc'[c] \in Points \ (Holding \cup InJobs) /\ pc'[c] # "raised"
        /\ pc[c] \notin Holding \cup Done
    BY <2>1, PointsAre DEF Holding, InJobs, Done, Points
  <2> QED
    BY <2>1, <2>2, WalkKeeps DEF Done
<1>8. ASSUME Abort(c) \/ Fail(c) \/ Settle(c) \/ Release(c)
      PROVE  IInv'
  <2>1. /\ pc[c] \in Holding \ {"readback"}
        /\ ReleaseThen(c, "interrupt") \/ ReleaseThen(c, "judge") \/ ReleaseThen(c, "returned")
        /\ jobs' \in {jobs, Unregistered(c)}
        /\ UNCHANGED <<prof, held, seen, excluded, cancel, stop, engage, resumes>>
    BY <1>8 DEF Abort, Fail, Settle, Release, Holding, jobVars, stopVars
  <2>2. {"interrupt", "judge"} \subseteq Points \ (Holding \cup InJobs \cup Done \cup {"acquire"})
    BY PointsAre DEF Holding, InJobs, Done, Points
  <2> QED
    BY <2>1, <2>2, GiveBackKeeps
<1> QED
  BY <1>1, <1>2, <1>3, <1>4, <1>5, <1>6, <1>7, <1>8, AcquireKeeps, ReadBackKeeps, RegisterKeeps,
     BarrierKeeps, ExhaustKeeps DEF CallStep

-----------------------------------------------------------------------------
(* The other steps *)

\* Emergency Stop: its cancellation finds what is registered, its release frees rows only after
\* the barrier.
LEMMA EngageKeeps ==
  ASSUME IInv, EngageFlag \/ EngageStep \/ ResumeStop
  PROVE  IInv'
<1> USE DEF IInv, callVars, runVars, jobVars, stopVars
<1>1. pc' = pc /\ prof' = prof /\ held' = held /\ excluded' = excluded /\ jobs' = jobs
  BY DEF EngageFlag, EngageStep, ResumeStop, EngageBarrier, EngageCancel, EngageSnapshot,
         EngageInterrupt, EngageList, EngageRelease
<1>2. ExcludedOnce'
  BY <1>1 DEF ExcludedOnce
<1>3. ASSUME EngageFlag \/ EngageBarrier \/ EngageSnapshot \/ EngageInterrupt \/ EngageList
      PROVE  IInv'
  <2>1. /\ lease' = lease /\ cancel' = cancel /\ resumes' = resumes /\ seen' = seen
        /\ stop' \in BOOLEAN /\ (stop => stop')
        /\ engage' \in {"flagged", "barrier"} \cup Late
        /\ engage' \in Late => engage \in Late /\ stop' = stop
        /\ engage' = "barrier" => stop'
    BY <1>3 DEF EngageFlag, EngageBarrier, EngageSnapshot, EngageInterrupt, EngageList, Types, Late
  <2>2. Types' /\ StopStands' /\ LeaseIsHeld'
    BY <1>1, <2>1 DEF Types, StopStands, LeaseIsHeld, Late
  <2>3. HolderHasLease'
    BY <1>1, <2>1 DEF HolderHasLease, Types
  <2>4. OneBuilderUntilResume' /\ LocalIsSignalled'
    BY <1>1, <2>1 DEF OneBuilderUntilResume, OneBuilderPerProfile, Running, Started, LocalIsSignalled,
                      OneCallPerRun, Local
  <2> QED
    BY <1>2, <2>2, <2>3, <2>4
<1>4. ASSUME EngageCancel
      PROVE  IInv'
  <2>1. /\ UNCHANGED <<lease, seen, stop, resumes>> /\ engage = "barrier" /\ engage' = "cancelled"
        /\ cancel' = cancel \cup {d \in Calls : \E r \in Runs : jobs[StopProc][r] = d}
    BY <1>4 DEF EngageCancel
  <2>2. Types' /\ StopStands' /\ LeaseIsHeld' /\ HolderHasLease'
    BY <1>1, <2>1 DEF Types, StopStands, LeaseIsHeld, HolderHasLease, Late
  <2>3. OneBuilderUntilResume'
    BY <1>1, <2>1 DEF OneBuilderUntilResume, OneBuilderPerProfile, Running, Started
  <2>4. LocalIsSignalled'
    <3> SUFFICES ASSUME OneCallPerRun, NEW d \in Calls, Local(d)
                 PROVE  /\ pc[d] \in InJobs => jobs[StopProc][RunOf[d]] = d
                        /\ pc[d] = "running" => d \in cancel'
      BY <1>1 DEF LocalIsSignalled, OneCallPerRun, Local, Running, Started
    <3>1. pc[d] \in InJobs => jobs[StopProc][RunOf[d]] = d
      BY DEF LocalIsSignalled
    <3>2. RunOf[d] \in Runs
      BY DispatchAssumption
    <3> QED
      BY <3>1, <3>2, <2>1 DEF InJobs
  <2> QED
    BY <1>2, <2>2, <2>3, <2>4
<1>5. ASSUME EngageRelease
      PROVE  IInv'
  <2>1. /\ UNCHANGED <<cancel, seen, stop, resumes>> /\ engage = "listed" /\ engage' = "idle"
        /\ lease' = [p \in Profiles |-> IF lease[p] \in found THEN NoLease ELSE lease[p]]
    BY <1>5 DEF EngageRelease
  <2>2. /\ lease' \in [Profiles -> Leases]
        /\ \A p \in Profiles : lease'[p] = lease[p] \/ lease'[p].by \notin Calls
    BY <2>1, DispatchAssumption DEF Types, Leases, NoLease
  <2>3. Types' /\ StopStands'
    BY <1>1, <2>1, <2>2 DEF Types, StopStands, Late
  <2>4. LeaseIsHeld'
    <3> SUFFICES ASSUME NEW d \in Calls, NEW p \in Profiles, lease'[p].by = d
                 PROVE  /\ pc[d] \in Holding \cup {"raised"}
                        /\ pc[d] \in Holding => p = prof[d]
                        /\ pc[d] \in Holding \ {"readback"} => held[d] = lease'[p]
      BY <1>1 DEF LeaseIsHeld
    <3>1. lease'[p] = lease[p]
      BY <2>2
    <3> QED
      BY <3>1 DEF LeaseIsHeld
  <2>5. stop \/ resumes # 0
    BY <2>1 DEF StopStands, Late
  <2>6. HolderHasLease'
    BY <2>1, <2>5 DEF HolderHasLease
  <2>7. OneBuilderUntilResume' /\ LocalIsSignalled'
    BY <1>1, <2>1 DEF OneBuilderUntilResume, OneBuilderPerProfile, Running, Started, LocalIsSignalled,
                      OneCallPerRun, Local, Late
  <2> QED
    BY <1>2, <2>3, <2>4, <2>6, <2>7
<1>6. ASSUME ResumeStop
      PROVE  IInv'
  <2>1. /\ UNCHANGED <<lease, cancel, seen, engage>> /\ stop' = FALSE /\ resumes' = resumes + 1
        /\ resumes' \in Nat /\ resumes' # 0
    BY <1>6 DEF ResumeStop, Types
  <2>2. Types' /\ StopStands' /\ LeaseIsHeld' /\ HolderHasLease'
    BY <1>1, <2>1 DEF Types, StopStands, LeaseIsHeld, HolderHasLease
  <2>3. OneBuilderUntilResume' /\ LocalIsSignalled'
    BY <1>1, <2>1 DEF OneBuilderUntilResume, LocalIsSignalled, Running, Started, OneCallPerRun, Local
  <2> QED
    BY <1>2, <2>2, <2>3
<1> QED
  BY <1>3, <1>4, <1>5, <1>6 DEF EngageStep

\* A crash ends the calls of one process; their rows stay, under the name of a call that raised.
LEMMA CrashKeeps ==
  ASSUME IInv, NEW x \in Processes, Crash(x)
  PROVE  IInv'
<1> USE DEF IInv
<1>1. /\ \A d \in Served(x) : pc'[d] = "raised" /\ prof'[d] = None /\ excluded'[d] = {}
      /\ \A d \in Calls \ Served(x) : pc'[d] = pc[d] /\ prof'[d] = prof[d] /\ held'[d] = held[d]
                                      /\ excluded'[d] = excluded[d]
      /\ Served(x) \subseteq Calls
  BY DEF Crash, Cleared, Served
<1>2. /\ UNCHANGED <<lease, stop, resumes>> /\ cancel' = cancel \ Served(x)
      /\ engage' = engage \/ engage' = "idle"
      /\ x = StopProc => engage' = "idle"
  BY DEF Crash
<1>3. Types'
  <2>1. /\ pc' \in [Calls -> Points] /\ prof' \in [Calls -> Profiles \cup {None}]
        /\ held' \in [Calls -> Leases] /\ seen' \in [Calls -> SUBSET Profiles]
        /\ excluded' \in [Calls -> SUBSET (Profiles \cup {None})]
    BY PointsAre DEF Crash, Cleared, Types, Leases, Done
  <2>2. jobs' \in [Processes -> [Runs -> Calls \cup {None}]]
    BY DEF Crash, Types
  <2> QED
    BY <1>2, <2>1, <2>2 DEF Types
<1>4. \A d \in Calls : pc'[d] \in Holding \cup InJobs => d \notin Served(x)
  BY <1>1 DEF Holding, InJobs
<1>5. LeaseIsHeld'
  BY <1>1, <1>2 DEF LeaseIsHeld, Holding
<1>6. HolderHasLease'
  BY <1>1, <1>2, <1>4 DEF HolderHasLease
<1>7. StopStands'
  BY <1>2 DEF StopStands, Late
<1>8. OneBuilderUntilResume'
  BY <1>1, <1>2, <1>4 DEF OneBuilderUntilResume, OneBuilderPerProfile, Running, Started, InJobs
<1>9. LocalIsSignalled'
  <2> SUFFICES ASSUME OneCallPerRun, NEW d \in Calls, Local(d), pc'[d] \in InJobs
               PROVE  /\ jobs'[StopProc][RunOf[d]] = d
                      /\ pc'[d] = "running" /\ engage' \in Late => d \in cancel'
    BY DEF LocalIsSignalled, OneCallPerRun, Local, Running, Started, InJobs
  <2>1. d \notin Served(x) /\ pc'[d] = pc[d]
    BY <1>1, <1>4
  <2>2. /\ jobs[StopProc][RunOf[d]] = d
        /\ pc[d] = "running" /\ engage \in Late => d \in cancel
    BY <2>1 DEF LocalIsSignalled, Running, Started
  <2>3. x # StopProc
    BY <2>1 DEF Served, Ended, Local, InJobs
  <2>4. jobs'[StopProc] = jobs[StopProc]
    BY <2>3, DispatchAssumption DEF Crash, Types
  <2> QED
    BY <1>2, <2>1, <2>2, <2>4 DEF Late
<1>10. ExcludedOnce'
  <2> SUFFICES ASSUME NEW d \in Calls
               PROVE  /\ IsFiniteSet(excluded'[d]) /\ Cardinality(excluded'[d]) <= 2
                      /\ pc'[d] \notin Done => Cardinality(excluded'[d]) <= 1
                      /\ pc'[d] \in Holding => prof'[d] \in Profiles \ excluded'[d]
    BY DEF ExcludedOnce
  <2>1. CASE d \in Served(x)
    <3>1. pc'[d] = "raised" /\ excluded'[d] = {}
      BY <2>1, <1>1
    <3>2. IsFiniteSet({}) /\ Cardinality({}) = 0
      BY FS_EmptySet
    <3>3. IsFiniteSet(excluded'[d]) /\ Cardinality(excluded'[d]) = 0
      BY <3>1, <3>2
    <3> QED
      BY <3>1, <3>3 DEF Holding, Done
  <2>2. CASE d \notin Served(x)
    BY <2>2, <1>1 DEF ExcludedOnce
  <2> QED
    BY <2>1, <2>2
<1> QED
  BY <1>3, <1>5, <1>6, <1>7, <1>8, <1>9, <1>10

\* What changes neither calls nor leases nor the registry keeps everything.
LEMMA RestKeeps ==
  ASSUME IInv, UNCHANGED <<lease, callVars, jobVars, stopVars>>
  PROVE  IInv'
BY DEF IInv, callVars, jobVars, stopVars, Types, LeaseIsHeld, HolderHasLease, StopStands,
       OneBuilderUntilResume, OneBuilderPerProfile, ExcludedOnce, LocalIsSignalled, Running, OneCallPerRun,
       Local

LEMMA StepKeeps ==
  ASSUME IInv, [Next]_vars
  PROVE  IInv'
<1>1. ASSUME NEW r \in Runs, NEW to \in RunStateSet, OwnerMoves(r, to)
      PROVE  IInv'
  BY <1>1, RestKeeps DEF OwnerMoves
<1>2. ASSUME NEW p \in Profiles, Replenish(p)
      PROVE  IInv'
  BY <1>2, RestKeeps DEF Replenish
<1>3. CASE UNCHANGED vars
  BY <1>3, RestKeeps DEF vars, callVars, jobVars, stopVars
<1> QED
  BY <1>1, <1>2, <1>3, CallKeeps, EngageKeeps, CrashKeeps DEF Next

LEMMA InitHolds ==
  ASSUME Init
  PROVE  IInv
<1>1. "new" \in Points /\ "new" \notin Holding \cup InJobs \cup Done
  BY PointsAre DEF Holding, InJobs, Done
<1>2. Types
  BY <1>1 DEF Init, Types, Leases
<1>3. LeaseIsHeld /\ HolderHasLease
  BY <1>1, DispatchAssumption DEF Init, LeaseIsHeld, HolderHasLease, NoLease
<1>4. StopStands /\ OneBuilderUntilResume /\ LocalIsSignalled
  BY <1>1 DEF Init, StopStands, OneBuilderUntilResume, OneBuilderPerProfile, LocalIsSignalled, Running,
              Started, InJobs, Late
<1>5. ExcludedOnce
  BY <1>1, FS_EmptySet DEF Init, ExcludedOnce
<1> QED
  BY <1>2, <1>3, <1>4, <1>5 DEF IInv

-----------------------------------------------------------------------------
(* Theorems *)

\* IInv is inductive: it holds in every reachable state of every instance.
THEOREM Invariance == Spec => []IInv
<1>1. Init => IInv
  BY InitHolds
<1>2. IInv /\ [Next]_vars => IInv'
  BY StepKeeps
<1> QED
  BY <1>1, <1>2, PTL DEF Spec

\* Two Builders never run on one profile before the owner resumes from an Emergency Stop,
\* whatever Runs, processes, switches and crashes there are (run_leases.py:8).
THEOREM BuildersAreAlone == Spec => []OneBuilderUntilResume
<1>1. IInv => OneBuilderUntilResume
  BY DEF IInv
<1> QED
  BY <1>1, Invariance, PTL

\* No dispatch starts more than two Builders, nor two on one profile (runtime.py:230-252).
THEOREM SwitchIsSingle == Spec => []OneSwitch
<1>1. IInv => OneSwitch
  BY DEF IInv, ExcludedOnce, OneSwitch, Running, Started, Holding, Done
<1> QED
  BY <1>1, Invariance, PTL

\* A dispatch that returned has no lease, on every path (runtime.py:211, 221, 257, 270).
THEOREM NothingIsKept == Spec => []ReturnedHoldsNothing
<1>1. IInv => ReturnedHoldsNothing
  BY DEF IInv, LeaseIsHeld, ReturnedHoldsNothing, Holding
<1> QED
  BY <1>1, Invariance, PTL

\* If the calls that the process of engage() serves dispatch different Runs, then Emergency Stop
\* reaches each Builder they run before it interrupts Runs (emergency.py:96-99, runtime.py:59-66).
THEOREM StopReaches == OneCallPerRun => (Spec => []StopReachesLocalBuilders)
<1> SUFFICES ASSUME OneCallPerRun
             PROVE  Spec => []StopReachesLocalBuilders
  OBVIOUS
<1>1. IInv => StopReachesLocalBuilders
  BY DEF IInv, LocalIsSignalled, StopReachesLocalBuilders, Local, Late
<1> QED
  BY <1>1, Invariance, PTL
=============================================================================
