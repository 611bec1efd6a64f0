# Atlas in TLA+

A verification project for CodeVinci Atlas (`apps/core/atlas_core`, `apps/runner/atlas_runner`):
TLA+ modules of its core, TLC configurations that check them on small instances, and TLAPS proofs of
what the most important ones promise for every instance. Paths below are relative to
`apps/core/atlas_core` unless they say otherwise.

## 1. The system

Atlas drives coding agents for one owner. The **Core** is a FastAPI process over one SQLite file;
the **Runner** executes provider processes in transient systemd units; the **web UI** is a client of
the Core. Requests are synchronous functions, so FastAPI runs each in a thread of its own, and
several Core processes may share the database file. There is no lock around a request.

What keeps concurrent requests apart is in the database only:

* an `UPDATE ... WHERE version = ?` whose row count is checked (a compare-and-swap);
* a unique index that makes an `INSERT` fail (idempotency keys, one active lease per worktree or
  profile, one active VP);
* the durable row of Emergency Stop.

A `SELECT` opens no transaction of its own, so what was read may be stale by the next statement.
The models take one database transaction (or one access to in-process state, one git command, one
stretch of the Runner's loop between two awaits) as a step, and let calls interleave between steps.

### Components, their state and operations

| component | state | operations | what is hard |
|---|---|---|---|
| Runs (`runs.py`, `api_runs.py`) | `runs`: state, version, dedup key; `run_events` | create, transition, append event | read-check-write in three transactions, concurrent creates with one key |
| Emergency Stop (`emergency.py`) | rows of `emergency_stops`, the flag `_ENGAGING` | engage, resume, status | two processes; jobs that are just starting; interruption from a snapshot; leases of living writers |
| Dispatch (`runtime.py`) | `_ACTIVE_JOBS` (in memory), Runs, profile leases | `start_builder_run`, `cancel_all_jobs` | checks long before use, one switch after a rate limit, giving the lease back on each path |
| Profile and worktree leases (`run_leases.py`, `wsleases.py`, `leases.py`) | `run_leases`, `worktree_leases`, `leases` | acquire, heartbeat, release, reconcile | insert and read-back are two steps; expiry is not death; a dead writer's uncommitted work |
| Claude pool, router, capacity, profiles (`claude_pool.py`, `router.py`, `capacity.py`, `profile_reconcile.py`, `auth_health.py`, `agent_registry.py`) | `agent_profiles`, `profile_states`, `capacity_observations`, `registry.json` | reconcile, sync, refresh, select, route, handle rate limit | choices from rows that expired, were carried over, or arrive late |
| Work Orders (`workorders.py`) | `work_orders`: status, version, lease id; VP Specs | create, transition, release writer lease | a transition spans two connections and four phases |
| Context governor, optimizer (`governor.py`, `optimizer.py`, `context_engine.py`) | rotations, decisions | rotate, continue, detect, evaluate, merge, split | a chain of transitions by one caller against another; splits and merges read in one transaction and write in others; `evaluate` and `detect` only advise |
| Handoff (`vp4handoff.py`) | checkpoints, handoff packages, acks | build, verify, acknowledge, reject | verification and acknowledgement are two steps |
| Pipeline (`pipeline.py`, `adapters/fake.py`) | role steps, leases, artifacts | planner, builder, fix loop, reviewer | two kinds of lease, progress handed on through a switch or a resumption |
| VP-0 orchestrator (`orchestrator.py`, `store.py`, `handoff.py`) | runs, checkpoints, handoffs, lease | `run_with_switch`, recovery | Core dying between any two writes |
| Autonomy (`autonomy.py`) | grants: state, version, used budget, expiry | create, revoke, evaluate, consume | a budget shared by concurrent actions; revocation and expiry between check, charge and use |
| Merge gate, GitHub, deliveries (`merge_gate.py`, `github_adapter.py`, `deliveries.py`) | deliveries; the pull request on GitHub | authorize, merge, record, preview | order of check, charge, record and the external merge; GitHub moving meanwhile; crashes between them |
| Reviews (`reconstruct.py`, `reviewpkg.py`, `quality.py`, `firewall.py`) | ReviewPackages, evidence, findings, reports | register, build, review, fix loop, waive | evidence files rewritten between registration, review and gate |
| Time Machine (`timemachine.py`) | checkpoints, replay branches and Runs | checkpoint, replay | replay against Emergency Stop, grants and a moving branch; git and database without a common transaction |
| Product Map (`productmap.py`) | Briefs, Maps, decisions, approvals, activations | intake, revise, decide, approve, activate, check of a map | approval of a stale revision; a cycle search |
| Workspace (`workspace.py`, `worktrees.py`, `gitbaseline.py`, `archives.py`) | projects, baselines, worktrees | connect, refresh, view, create worktree | several git commands while the source moves; lease, directory and row made one after the other |
| Database (`orm.py`, `schema_check.py`, `migration_guard.py`, `backup.py`, migrations) | schema objects, revision stamp, backups | upgrade, downgrade, check at start, backup | DDL without transactions |
| Runner (`server.py`, `journal.py`, `client.py`, `recovery_demo.py`) | job table, journal | submit, interrupt, stream, recover | disconnects, timeouts, a restart while workers live |
| everything else | files, text, HTTP | | I/O, formatting or read-only: see section 5 |

Interactions: dispatch calls Runs (transition), the pool (select), profile leases, the provider
adapter and the job registry; Emergency Stop writes Runs and both kinds of lease and signals the job
registry; Work Orders take worktree leases; the governor moves Work Orders and builds packages; a
merge evaluates and charges a grant, reads the facts of a review, reads GitHub three times, looks at
Emergency Stop four times and writes its delivery before and after the squash; a replay reads a
grant, makes a branch and a Run and looks at Emergency Stop on both sides of the INSERT.

### What makes each component correct

* Runs: every change is one legal step from the state it replaces; finished Runs stay finished; one
  key makes one Run; an event reports a committed move.
* Emergency Stop: no new Builder once it is on, running ones are signalled, Runs end up at rest.
* Dispatch: one Builder per profile and per Run, at most one switch, no lease left behind.
* Leases: one living writer; a slow writer is not robbed; a dead writer's uncommitted work is not
  taken over; a caller gets its own lease.
* Pool and router: the profile chosen is enabled and not exhausted on fresh numbers; an explicit
  choice of the owner is used or refused; the reason recorded is true.
* Work Orders: one order of a worktree is worked on, under the active lease; no lease is left that
  nobody will release. Their criteria survive merging and splitting.
* Rotations: the next session starts on the HEAD its package names, from the latest package.
* Pipeline, orchestrator, Runner jobs: each item of work is done once, through switches, resumptions
  and crashes; an acknowledged interruption holds.
* Autonomy: a revoked or expired grant is never usable again; the row never shows more invocations
  than its budget.
* Merge: nothing is merged without a record written before; only a reviewed head is merged, whatever
  is pushed meanwhile; no record is closed as merged (`pr_state`) without the merge; Emergency Stop holds
  every merge that has not reached the squash.
* Reviews: the gate accepts a package on the bytes its reviews read.
* Time Machine: a refused replay leaves no Run and no branch, a stopped one nothing that waits to be
  started.
* Product Map: one approved Brief; a map is refused exactly when it is malformed or cyclic.
* Workspace: "clean" names a head that was clean; a worktree is registered once and exists.
* Database: Core serves only on a complete schema.

## 2. Modules

| module | models | state and actions in the code |
|---|---|---|
| `RunStates` | the state tables of a Run | `VALID_RUN_TRANSITIONS`, `TERMINAL`, `INTERRUPTIBLE_STATES` |
| `RunLifecycle` | what the `runs` table promises: atomic, legal, versioned changes | abstract |
| `RunStore` | create_run, transition, `_event`, engage and resume, one transaction per step | `state`, `version`, `key` are columns; `log` stands for the rows of `run_events`; `call[c]` is the program point and the locals of a request |
| `RunDispatch` | `start_builder_run`, the job registry, profile leases, Emergency Stop, the owner's pause, resume and cancel, process crashes | `pc[c]` is the statement a dispatch has reached; `Target` and `After` tabulate the transitions it asks for and where it goes next; `lease`, `jobs`, `cancel` are the rows of `run_leases`, `_ACTIVE_JOBS` and the cancel events |
| `WriterLease` | the lease protocol of `wsleases.py` (and `leases.py`, `run_leases.py`) with clock, deaths and reconcile | `lease` is the row with `released_at = ''` |
| `WorkOrders` | transition and release_writer_lease of Work Orders, rotation, Emergency Stop on worktree leases, crashes | `call[c]` carries the moves a caller has still to make and what it read |
| `Rotations` | rotate and continue_after_rotation over checkpoints, packages and acks | one transaction per action; a package is the HEAD it names, whether it is intact and bound |
| `WorkPlan` | VP Specs, creation of orders, checkpoints, merge and split | an order is its criteria, status and origins; `saved` the orders with a checkpoint row |
| `Grants` | one grant and those who act under it | `grant` is the row (`used` is `budget.used_invocations`); `Evaluate`, `MarkRead`/`MarkWrite`, `ConsumeRead`/`ConsumeWrite`, `RevokeRead`/`RevokeWrite` are the reading and the writing half of `evaluate`, `_mark_expired`, `consume_budget`, `revoke_grant` |
| `MergeDelivery` | `merge_pull_request` over `Grants`, GitHub and Emergency Stop | `merge[c]` is the stage and the locals of a call; `delivery` holds `pr_state` and `merge_state` of `github_deliveries`; `pr`, `ready` and their actions are GitHub, external |
| `Reviews` | evidence, ReviewPackages, firewall and verdict, fix loop, waivers, the gate's reading of a package | a file is its bytes, its sha256 too; collecting facts and judging them are two steps |
| `TimeMachine` | checkpoint and replay against Emergency Stop, a grant and a source branch | `step[c]` is the statement a replay has reached; `branch`, `run` what it has made |
| `ProductMap` | Briefs, decisions, maps, approvals, activation, idempotency keys | `Begin*` is the reads and refusals of a service call, `Commit` its transaction |
| `MapGraph` | the check of a map and its depth-first search | one frame of `visit` per element of `stack` |
| `Router` | `route_profile`, `resolve_model` | functions of a request |
| `AgentPool` | registry file, reconciliation, auth sync, capacity refresh, `select_builder`, `handle_rate_limit` | rows by alias; `reconciling`, `sync`, `refresh` are what a pass has read and not yet written |
| `Pipeline` | planner, Builder with switch and resumption, reviewer, fix, both leases | `line[l]` is the role step and its progress |
| `Orchestrator` | `run_with_switch`, its store, and recovery | `core` is the statement; the other variables are rows, one the Core's memory |
| `RunnerJobs` | server, journal, client calls and the recovery demonstration | `table` is `_jobs`, `journal` the events, `job[j]` a request and its process |
| `Workspace` | connect, baseline, overview, worktree, the owner of the source | `call[c]` is the git command reached |
| `Schema` | seven migrations, the check at start, one-shot migration, downgrade, backup | `db` is the set of objects and the stamp; a statement is a step |
| `RunStoreProofs`, `RunDispatchProofs`, `WorkOrdersProofs`, `GrantsProofs`, `MergeDeliveryProofs`, `ReviewsProofs` | theorems about the module of that name | |
| `HostProofs`, `PlanningProofs` | theorems about the components of `MCHost` and of `MCPlanning`, `WriterLease` and `TimeMachine` among them | |
| `MC*` | instances for TLC | |

Composition. `MergeDelivery` extends `Grants`: a merge is a caller of the grant. `RunDispatch` treats
a transition of a Run as one step; that `RunStore`, where it is three, implements `RunLifecycle`,
where it is one, justifies this (`AtomicLifecycle`, a refinement by `INSTANCE RunLifecycle WITH`,
checked and proved). What a single step would hide, that the move is committed and its event is not,
is the action `EventFails`. `Rotations` leaves leases to `WorkOrders`, `Workspace` and `Orchestrator`
leave the fate of a lease whose holder is slow or dead to `WriterLease`.

Abstractions common to the modules: ids are model values or counters and are never used twice;
text, audit records, router decisions, role steps and provider sessions are left out (no decision
reads them); a lease row that is released is forgotten. In `MergeDelivery`, `get_pr`, `checks`,
`mergeability` and the look at Emergency Stop that follows them are one step: each only reads, and what
GitHub or the owner changes in between could as well come before the first or after the last. The
conditions of the gate that are fixed for a head (verdict, findings, baseline, scope, owner gate) are
the constant `Reviewed`; how a verdict comes about is in `Reviews`. A grant starts when it is created,
so `NOT_YET_ACTIVE` does not arise; commit, push and create_pr pay through the same `_consume` and add
no state, so to the grant they are more callers.

Assumptions about the surroundings: the expected version a client sends is one it has read; one
engage() runs at a time; the clock of one host does not go back; GitHub refuses a squash whose head is
not the `--match-head-commit` (`Accepts`); `git branch -D` of a branch that a replay has just made
succeeds (its exit code is not looked at); a SHA-256 is as good as the bytes. Of what clients send to
the preview nothing is assumed: any merge state may be among `Reported`.

## 3. Runs

| run | question | instance |
|---|---|---|
| `store` | are non-atomic transitions and Emergency Stop atomic and legal in effect, and does one key make one Run? | 2 Runs of 2 projects, 2 calls, 1 key, 1 stop, crashes; one Run is moved for three versions |
| `dispatch` | one Builder per profile, one switch, nothing left behind, stop reaches starting jobs | 2 Runs, 2 profiles, 2 processes, 1 stop, 1 crash |
| `dispatch_live` | does a dispatch end, and does Emergency Stop end a Builder? | 1 call, 2 stops, 1 owner action, fairness |
| `orders` | one active order, its lease the active one, none orphaned | 2 orders of one worktree, 2 calls, 1 stop, 1 crash, versions up to 5 |
| `merge` | is a merge reviewed, recorded first, truly recorded, held by Emergency Stop; does the grant stay closed? | 2 calls, one in the process of engage(), 2 heads of which 1 reviewed, 2 bases of which 1 granted, 1 owner, budget 1, 1 stop |
| `host` | the components that work on the host: leases, Runner jobs, pipeline, orchestrator, workspace, schema, pool | see below |
| `planning` | the components that decide about the work: replay, Product Map, graph, router, rotations, plan, reviews | see below |

`host` and `planning` are unions of instances. The variable `focus`, chosen in the initial state,
names the one component whose steps are taken; the others keep their initial values, so the states are
the sum, not the product, of those of the instances, and a property of one component is a property of
the states where it has the focus. They extend one module each (`WriterLease`, `TimeMachine`) and
instantiate the others with the bounds:

* `lease`: 3 writers, 2 reconcile calls, ttl and grace 1, clock up to 4, 4 leases.
* `recovery`: 2 resumable workers of 2 items, 2 request ids, 1 crash of the Runner; `service`: 2
  ordinary jobs, one of which may ignore SIGTERM, 1 crash.
* `pipeline`: 2 pipelines in 2 worktrees over 2 profiles, 2 items, each Builder falsifies its
  first artifact.
* `switch`: 3 candidates, 2 items; Core dies at any moment.
* `reading`: 1 reader, 2 archive entries, 1 commit of the owner; `making`: 2 callers that create one
  worktree.
* `schema`: the code of releases 6 and 7, the downgrade from 7, backups.
* `pool`: 2 profiles, 1 window, 2 probes, 1 sync.
* `replay`: 2 calls, one in another process than engage(), 2 stops, 1 commit, every combination of a
  secret, an unhashed input and a head_sha that is missing, exact, abbreviated or unknown to git.
* `product`: 2 clients, 1 key, 1 required decision, Briefs up to version 2.
* `graph`: every graph on 3 nodes, and malformed ones; `route`: every combination of three profiles
  over the values the criteria tell apart.
* `rotation`: 2 calls, 2 packages, 1 commit, versions up to 5; `plan`: 2 calls, 2 criteria, 3
  orders, checkpoints of orders.
* `review`: 1 caller, 1 file with 2 contents, 1 reference, 1 package, 1 report.

Why the bounds are enough. A lost update or a stale check needs two calls and one row that changes
between the read and the write of one of them; the versions let a Run reach every state that
Emergency Stop interrupts and finish in between. Two dispatches and two profiles are the least that
lets a switch meet a leased profile. Three writers let one die, one take over and one be refused
while two reconcile calls overlap; a clock up to 4 with a ttl and a grace of 1 lets a lease expire,
become orphaned and be replaced by one that expires again. For a merge, two calls are the
least that can charge one grant twice or finish in each other's wake; the second head is the one pushed
between check and squash, the second base the one retargeted to; one stop can come at each stage of
either call, be lifted, and meet a call of its own process or of another. Versions up to 5 let an order
go to handoff and back while a second caller is in any of the four phases. Two items let work be cut
before, between and after them. Three nodes have every shape of colouring: a back edge to the root, to
an inner node, a self loop, a shared descendant. One reviewer suffices for evidence that changes: the
other actors of `Reviews` are those who edit files and register evidence. Crashes and owner actions are
bounded, not the properties. Deadlock is not checked: all instances may stop when their bounds are used
up.

Fairness (`RunDispatch!Fairness`): a dispatch that has begun takes its next step, because its thread
is scheduled and the adapter ends the provider process at its timeout (`inputs.timeout_s`); an
engage() that has begun goes on. Nothing is assumed of the owner, of new requests or of crashes.

Each property of a passing run has a mutant in PROJECT.json: an operator of the module changed the
way a plausible bug would change it, under which TLC finds the property violated.

### Where code and its statements disagree

These runs are expected to fail; each shows what the code does against a sentence it carries.

* `dispatch_per_run`: two `POST /runs/{id}/start` of one Run that both saw QUEUED start two Builders on
  two profiles (`runtime.py:125` says one writer).
* `dispatch_restart`: a dispatch that had moved its Run to RUNNING before engage() and reaches its second
  check only after resume() starts the Builder of an INTERRUPTED Run (`emergency.py:131`).
* `grant_budget`: two callers that evaluated one version of a grant are both charged successfully, and
  the second charge repeats the first, so a budget of one pays two actions (`autonomy.py:479`,
  `github_adapter.py:563-565`). What holds is weaker: `UsedWithinBudget` (proved) and
  `ClosedStaysClosed`.
* `orders_stray`: transition returns the version it re-reads, so a rotation can release the lease of an
  order that another caller has moved back to active (`governor.py:192`).
* `rotation_latest`: a session continues from the package of an earlier rotation although a later one
  has replaced its checkpoint: `verify_handoff` looks whether the checkpoint exists
  (`vp4handoff.py:340`), its comment at line 339 says known and not replaced.

More of what the code does shapes the properties without a run of its own:

* A create_run that passed its check before the barrier of Emergency Stop can insert its Run after it, and
  nothing rechecks (`emergency.py:93-95`; the recheck exists in Time Machine replay only, which is what
  `StopHoldsReplays` is about).
* Events of two transitions can be appended in the opposite order, so `LoggedMovesHappened` counts them
  and does not order them.
* The last look before a squash does not compare the base, so a pull request retargeted after its grant
  was charged is merged into a base nobody evaluated. A merge that was waiting while Emergency Stop was
  engaged and resumed goes on, so `StopHoldsMerges` speaks of the time until resume.
* A second call sets the delivery row of a merge back to `OPEN` and `AUTHORIZED`; a preview sets it back to
  `NONE`, with the merge state its client sends, which nothing checks (`deliveries.py:68`,
  `api_autonomy.py:184`). So `MergeIsRecorded` asks for a row and not for `MERGED`, and `RecordsAreTrue`
  speaks of the column `pr_state`. In the run `merge` the previews report `MERGED`.
* Emergency Stop releases leases of Builders that still run and of Work Orders that stay active; after an
  owner resume a second Builder can get the profile, and a second order the worktree.
  `OneBuilderUntilResume` and `OneActiveUntilStop` say exactly until when the lease protects. A second
  dispatch of one Run in the same process overwrites the cancel event of the first, so
  `StopReachesLocalBuilders` is stated for dispatches of different Runs.
* When the lease of the profile is refused to a pipeline, the exception leaves the worktree leased and the
  Run RUNNING (`pipeline.py:127`), so `Pipeline!ReturnedHoldsNothing` speaks of pipelines that return.
* A `git status` that fails counts as clean (`gitbaseline.py:97`, `:127` against `workspace.py:221-222`),
  hence `blindAt` in `CleanWasTrue`.
* The two refusals of a replay between `git branch` and the first barrier, `REPLAY_STATE_MISMATCH` and
  `SOURCE_REWRITTEN`, keep its branch although the message of the second speaks of a rollback
  (`timemachine.py:490-495`), hence the exception in `AbandonedLeavesNothing`.
* A fault before the first item (`AUTH_REQUIRED` and its like, `adapters/fake.py:94-101`) saves a handoff
  with a `start_index` and no `processed_index`, and a job continued from it starts at 0
  (`orchestrator.py:96`, `:165`), hence `blanks` in `RepeatedOnlyIfLost`.
* A revision of a Brief that read its parent as a draft writes superseded over an approval that came
  meanwhile (`productmap.py:376`), so `OneApprovedOneDraft` does not say that the last approval stands.
* Two overlapping splits of one order both find it checkpointed and make four orders
  (`optimizer.py:260`), and a merge logs a source as archived whether or not its UPDATE matched
  (`optimizer.py:405`); `NoCriterionLost` holds all the same. Merge and READY count criteria while a
  JobPackage is bounded in bytes too (`optimizer.py:94`, `context_engine.py:84-95`).
* A request of the Runner whose `run.started` cannot be sent ends with its process alive and its entry in
  the table (`server.py:241`): the program point `lost`.
* A downgrade that broke off keeps the stamp of the revision it was taking away, hence `torn` in
  `ServesCompleteSchema`.

## 4. Proofs

`RunStoreProofs` (any number of Runs, keys, calls, versions; `ConstantsAssumption`):

* `TypeCorrect`: `Spec => []TypeOK`.
* `RefinesLifecycle`: `Spec => AtomicLifecycle`, that is `RunStore` implements `RunLifecycle`. The
  inductive invariant adds to the types that a call about to update has checked an edge that is legal
  from the state of the Run *as long as the version is the expected one*: versions only grow and a
  state changes only with its version, so the condition in the WHERE clause is what carries the check
  over to the write.
* `TerminalStays`: follows from the refinement, since no edge leaves a terminal state and the stop
  interrupts only Runs whose version is the one of the snapshot.
* `KeysAreUnique`: by the guard of the unique index.
* `EventsAreOfMoves`: each committed change of a Run owes one event. A call that owes one is counted
  until it appends it, conflicts or dies (`OneMoves` says what one step does to that count), and a Run
  without a row has made no move (`AbsentAtZero`), so that creating it pays for its first event.

`RunDispatchProofs` (any number of Runs, profiles, processes, overlapping calls, stops, owner actions
and crashes; `DispatchAssumption`): `Invariance` proves `Spec => []IInv`. A row of `run_leases` names a
call that has not given it back, or that raised, and once read back it is the very row that call will
release (`LeaseIsHeld`); until a stop or a resume nobody else takes it away (`HolderHasLease`), and a
Builder starts only with the stop off, so it is alone on its profile. That engage() is past its barrier
only with the stop on, unless the owner has resumed (`StopStands`), covers the leases it releases.
`ExcludedOnce` counts the profiles a dispatch has used up. `BuildersAreAlone`, `SwitchIsSingle` and
`NothingIsKept` follow. `StopReaches` has a premise, `OneCallPerRun`: the calls of the process that
serves engage() dispatch different Runs, without which a registration overwrites another.

`WorkOrdersProofs` (any number of orders and overlapping calls): what a transition read stays true of
the order as long as its version does (`ReadStands`), a lease is taken only to enter active
(`TakenToEnter`), and until a stop a call that has a lease no order names is alone with the active one
(`OwnersAreAlone`); `ActiveIsKept` says who will release the active lease when nothing crashes.
`NamedLease`, `OneActive`, `RestingOrders` and `NoLeaseIsOrphaned` follow, with the stop, the stray
release and the crash as the exceptions they name.

`GrantsProofs` (any number of callers, owners and scopes, any budget; `GrantAssumption`): `BudgetKept`
and `ClosedForGood`. The invariant `GrantInv` adds to the types that a caller about to write a charge
read a value below the budget (`CheckedBeforePaid`): the row may have changed since, but what is written
is one more than what was read, so it is within the budget whoever else has written. For the closing,
no write ever sets the state to `ACTIVE` or `revoked` to false: only changed columns are written.

`MergeDeliveryProofs` (any number of calls, heads, bases and stops; `MergeAssumption`):
`MergeUsesGrant` proves `Spec => GrantSpec`, each step of a merge being a step of its grant or none, so
the theorems above hold of grants that merges are paid from. `DeliveryInv` is inductive together with
`GrantInv`. For each call it says that it carries a reviewed head, that from the last barrier on
its delivery row exists, that when it is about to finalize the pull request is merged at its head, and
that a call that was caught by Emergency Stop sees it and is short of the squash (`HeldBack`); of the
pull request it says that a merged head was reviewed and has a row (`MergedIsCovered`), which `Lasting`
carries on: nothing moves a merged pull request, and no row is ever removed. `RecordComesFirst`,
`OnlyReviewedMerges`, `RecordsTrue`, `StopHolds` and `MergeTypeCorrect` follow.

`ReviewsProofs` (any number of files, references, packages and callers; premise `MaxHead \in Nat`):
`GateReadsWhatWasReviewed`. The notion it rests on is `Witnessed`: whoever collected facts for a package
had before it, for each reference, the bytes of the registered row. Rows are never replaced and packages
keep their references, so `Extends` carries what was witnessed on to the verdict and to the gate.

### The components on the host (`HostProofs`) and of planning (`PlanningProofs`)

A component of `MCHost` or `MCPlanning` moves only while it has the focus. Each has an inductive
invariant over its own variables, which the steps of the others leave alone, and the theorems are about
`HostSpec` and `PlanningSpec`, the specifications the runs check, for every value of the constants that
satisfies the assumptions of the two modules:

* `HostAssumption`: bounds are naturals; the value that stands for "nobody" is not the name of a job, a
  pipeline or a caller; a resumable worker is not one that ignores SIGTERM (`scripts/vp0_worker.py`
  installs no handler); releases of the code are 5, 6 and 7, the ones whose needs `Schema` tells apart,
  and there are seven migrations. Without the third, `EachItemOnce` is false: a job that times out is
  answered when the grace period ends, and the answer frees the lease under a worker that still lives.
* `ContentsAssumption`, `MapsAssumption`, `RequestsAssumption`: what clients submit has the shape its
  parser leaves; a map has finitely many nodes, a request finitely many profiles.

The lease protocol and the replay are the modules `MCHost` and `MCPlanning` extend; theorems about them
are about their own `Spec`, which `LeaseOfHost` and `ReplayOfPlanning` show the composed ones to imply.

* Lease protocol (`LeaseInv`; any number of writers and reconcilers, any ttl and grace;
  `LeaseAssumption`): a writer that holds the worktree owns the row (`RowIsHolders`), ids of rows are
  below the next id and so never come back (`IdsAreFresh`), and a reconcile that has passed a check on a
  lease still finds its writer dead, and the tree clean, as long as that lease is the active one
  (`ChecksStand`: a dead process does not come back, and only a living writer edits the tree).
  `AtMostOneWriter`, `AnswerIsOwnRow`, `LivingWriterKeepsLease` and `DirtyTreeStaysClosed` follow.
* Runner after a crash (`RecoveryInv`): a worker that is about to run, runs or outlives its server owns
  the lease and has not been reported, and its process continues the recorded progress
  (`WorkerIsOwner`). So the one who records an item is alone, and the item is the next one:
  `ItemsAreDoneOnce`.
* Runner and interrupts (`ServiceInv`): the table names requests in hand, and a request whose interrupt
  was acknowledged stays marked until it ends (`AnswerStands`); an outcome looks at the mark before the
  exit code. `AcknowledgedInterruptHolds`, although two requests may use one id and replace each other
  in the table.
* Pipeline (`PipeInv`): the items a job has done are the first ones, each once and in order, and the job
  continues after the last (`JobIsExact`): `ArtifactsAreWhole`. A lease names a pipeline that works under
  it or one that raised (`LeasesAreHeld`): `ReturnedIsFree`.
* Orchestrator (`SwitchInv`): the next attempt starts where the last saved handoff ended (`HandedOn`),
  and an item beyond that was only worked on by attempts that were cut off, or whose handoffs a later one
  without an index hides (`BeyondOnlyLost`): `WorkIsHandedOn`.
* Workspace (`WorkInv`): the head a baseline calls clean was clean, or is one commit old, in which case
  a later look at the head differs (`HeadsAreOld`): `CleanIsTrue`. A call between the lease and the
  insert holds the path (`MakerHolds`): `OneRegistration`.
* Schema (`SchemaInv`): a stamp that no downgrade tore vouches for all objects of the revisions below it
  (`StampIsTrue`), and the statements of a broken-off upgrade can be repeated: `ServedSchemaIsComplete`.
  The lemmas `OfInitial` to `OfMigration` and `NamesApart` say which objects a migration makes and that
  two migrations make different ones; `NeedsAreMade` compares that with what the code of a release needs.
* Pool (`PoolInv`): a row that shows a rejected window says EXHAUSTED, or is stale (`ReadingIsSound`):
  `BuilderIsFit`.
* Replay (`ReplayInv`; `BoundsAssumption`): a call has a branch or a Run only from the step that makes
  it, and a Run taken back stays CANCELLED (`MadeInOrder`). `StopReachesReplays` and
  `RefusedReplaysLeaveNothing` (with the two refusals it exempts) follow: a replay is reported only by a second reading that saw no stop, so
  a stop that is on later has still to pass over the Run it left.
* Briefs (`ProductInv`): what a call has read stands, or its commit is refused, since a version that is
  not a draft never becomes one again (`RequestStands`, `BriefsGrow`): `OneBriefStands`.
* Cycle search (`GraphInv`): the frames of the stack are the gray nodes, each once, and each leads to the
  next (`FramesAreGray`); a successor that a frame has looked at is black or the node of the next frame
  (`LookedAt`); black nodes lead only to black nodes, and hold no set of nodes that each lead into the
  set (`BlackIsDone`). An edge to a gray node then closes a cycle, and a search that ends has all nodes
  black, none of them on a cycle: `CyclesAreFound`, for maps of every size.
* Router: the profile that comes first exists, by taking the least of each part of the key in turn
  (`Least`), and precedes every other (`FirstIsFirst`). The reason is computed against the second best
  alone; it is true of the others because the second best precedes them (`ReasonHolds`):
  `ReasonsAreTrue`.
* Rotations (`RotationInv`): what a call found true of the order at rest still is when it writes, unless
  somebody made the order active meanwhile (`FindingStands`, by counting those spells):
  `UndisturbedStartIsFresh`.
* Plan (`PlanInv`): orders only grow and keep their criteria and origins (`OrdersGrow`); the parts a call
  is about to insert make up the order it splits, and an order it is about to cancel has its children
  inserted (`PlanStands`), so each criterion is one of a derived order (`LivesOn`): `CriteriaLiveOn`.
* Reviews: `ReviewedBytesAreMerged` carries the theorem of `ReviewsProofs` over to `PlanningSpec`
  (`SameReviews`; premise `MaxHead \in Nat`).

Every invariant and every action property that a passing run checks is proved. Only model-checked are
the two liveness properties of `dispatch_live`: liveness under fairness, and `ENABLED`, are outside what
the prover does. What the runs add to
the proofs is that the guards are not so strong that nothing happens: every action and every disjunct is
taken in some run.

## 5. Not modelled

PROJECT.json lists every component with its status. Left out, with the reason:

* Product Map export, redaction and secret scan: text in, text out, no state.
* System surface (`app.py`, `cli.py`, `api_*` glue, audit, diagnostics, settings): each handler calls
  one service that is modelled, or only reads.
* Web UI: a client of the API. Acceptance scripts: end-to-end checks of the program, not part of it.
* Real adapters (`adapters/real_claude.py`, `real_codex.py`), provider probes of `capacity.py`:
  child processes and parsing; their outcomes are the alternatives of the actions that meet them.
* The governor's `detect` and the optimizer's `evaluate`: functions of signals and rows that carry
  nothing out; what carries them out is `rotate`, merge and split. The JobPackages of the context engine:
  a selection of text under limits of number and bytes.
* Impact classes, the evidence cache, manual audits; timeline and compare of the Time Machine; audit
  rows; column types and plain indexes: nothing a modelled decision reads.
* Two overlapping engage() calls; a grant whose start lies in the future and the choice among several
  grants; retries, pauses and handoff links of a Run; idempotency keys of Work Order creation.

What could come next, in order: `Rotations` composed with `WorkOrders` over one lease; the type
invariants that the modules of `MCHost` and `MCPlanning` state, as theorems of their own (the inductive
invariants contain the parts of them that the proofs need); fairness for `RunnerJobs` (an accepted job
is reported) and for `Rotations`.
