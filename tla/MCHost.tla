------------------------------- MODULE MCHost -------------------------------
(* What works on the host, one component at a time: the writer leases of      *)
(* WriterLease itself, the jobs of the Runner, the pipeline over its fakes,    *)
(* the VP-0 orchestrator, a project of the workspace, the database and the    *)
(* pool of profiles.                                                          *)
(* `focus` chooses the component; the others keep still.                      *)
EXTENDS WriterLease, Sequences, TLC

CONSTANTS
  Jobs, Workers, Stubborn, Items,                             \* of RunnerJobs, when the server crashes
  ServiceJobs, ServiceWorkers, ServiceStubborn, ServiceItems, \* and when its clients interrupt
  Ids, MaxCrashes,
  Lines, WorktreeOf, Builders, Size, Corruption,              \* of Pipeline
  Candidates, Length,                                         \* of Orchestrator
  Readers, OtherMakers, MaxHead,                              \* of Workspace, for its overviews
  Makers, OtherReaders, MaxMakingHead,                        \* and for its worktrees
  Archives, MaxEntries,
  Aliases, Windows, MaxProbes, MaxSyncs,                      \* of AgentPool
  Releases, Downgrades,                                       \* of Schema
  None,
  l1, l2, t1, t2, b1, b2  \* model values of the instance that is checked

ASSUME HostAssumption ==
  /\ Items \in Nat /\ ServiceItems \in Nat /\ Size \in Nat /\ Length \in Nat
  /\ MaxHead \in Nat /\ MaxMakingHead \in Nat
  /\ None \notin Jobs \cup ServiceJobs \cup Lines \cup Readers \cup OtherMakers \cup Makers \cup OtherReaders
  /\ Workers \cap Stubborn = {}  \* vp0_worker leaves SIGTERM at its default: it ends
  /\ Releases \subseteq {5, 6, 7} /\ Downgrades \subseteq 1..7

VARIABLES
  focus,
  up, job, table, journal, found, acked, owner, progress, stored, crashes,
  line, eligible, trees, profiles, artifact,
  core, attempt, from, reached, runs, checkpoints, handoffs, held, performed, cut, blanks, result,
  source, cleanAt, blindAt, intake, project, baseline, tree, pathLease, rows, told, call,
  release, db, process, saved,
  registry, row, profileState, version, reconciling, sync, reading, old, refresh, probes, chosen

jobVars == <<up, job, table, journal, found, acked, owner, progress, stored, crashes>>
pipeVars == <<line, eligible, trees, profiles, artifact>>
orchVars == <<core, attempt, from, reached, runs, checkpoints, handoffs, held, performed, cut, blanks, result>>
workVars == <<source, cleanAt, blindAt, intake, project, baseline, tree, pathLease, rows, told, call>>
schemaVars == <<release, db, process, saved>>
poolVars == <<registry, row, profileState, version, reconciling, sync, reading, old, refresh, probes, chosen>>

Recovery == INSTANCE RunnerJobs WITH NoJob <- None, lease <- owner, saved <- stored
Service == INSTANCE RunnerJobs WITH
  Jobs <- ServiceJobs, Workers <- ServiceWorkers, Stubborn <- ServiceStubborn, Items <- ServiceItems,
  NoJob <- None, lease <- owner, saved <- stored
Pipe == INSTANCE Pipeline WITH NoProfile <- None
Switch == INSTANCE Orchestrator
Reading == INSTANCE Workspace WITH Makers <- OtherMakers, lease <- pathLease
Making == INSTANCE Workspace WITH Readers <- OtherReaders, MaxHead <- MaxMakingHead, lease <- pathLease
Data == INSTANCE Schema
Pool == INSTANCE AgentPool WITH state <- profileState

-----------------------------------------------------------------------------
(* The instance that is checked. *)
Symmetry == Permutations({b1, b2})
OwnTrees == l1 :> t1 @@ l2 :> t2
SmallArchives == {<<"file", "dir">>, <<"file", "link">>, <<"file", "file", "file">>}

-----------------------------------------------------------------------------
Newest == CHOOSE r \in Releases : \A s \in Releases : s <= r

\* A component that is not in focus starts in one state of its own.
HostInit ==
  /\ focus \in {"lease", "recovery", "service", "pipeline", "switch", "reading", "making", "schema", "pool"}
  /\ Init
  /\ IF focus = "recovery" THEN Recovery!Init ELSE Service!Init
  /\ Pipe!Init /\ (focus # "pipeline" => eligible = Builders)
  /\ Switch!Init
  /\ IF focus = "making" THEN Making!Init ELSE Reading!Init
  /\ Data!Init /\ (focus # "schema" => release = Newest)
  /\ Pool!Init /\ (focus # "pool" => registry = [a \in Aliases |-> "enabled"])

HostNext ==
  \/ focus = "lease" /\ Next /\ UNCHANGED <<focus, jobVars, pipeVars, orchVars, workVars, schemaVars, poolVars>>
  \/ focus = "recovery" /\ Recovery!Next
       /\ UNCHANGED <<focus, vars, pipeVars, orchVars, workVars, schemaVars, poolVars>>
  \/ focus = "service" /\ Service!Next
       /\ UNCHANGED <<focus, vars, pipeVars, orchVars, workVars, schemaVars, poolVars>>
  \/ focus = "pipeline" /\ Pipe!Next /\ UNCHANGED <<focus, vars, jobVars, orchVars, workVars, schemaVars, poolVars>>
  \/ focus = "switch" /\ Switch!Next /\ UNCHANGED <<focus, vars, jobVars, pipeVars, workVars, schemaVars, poolVars>>
  \/ focus = "reading" /\ Reading!Next /\ UNCHANGED <<focus, vars, jobVars, pipeVars, orchVars, schemaVars, poolVars>>
  \/ focus = "making" /\ Making!Next /\ UNCHANGED <<focus, vars, jobVars, pipeVars, orchVars, schemaVars, poolVars>>
  \/ focus = "schema" /\ Data!Next /\ UNCHANGED <<focus, vars, jobVars, pipeVars, orchVars, workVars, poolVars>>
  \/ focus = "pool" /\ Pool!Next
       /\ UNCHANGED <<focus, vars, jobVars, pipeVars, orchVars, workVars, schemaVars>>

hostVars == <<focus, vars, jobVars, pipeVars, orchVars, workVars, schemaVars, poolVars>>

HostSpec == HostInit /\ [][HostNext]_hostVars

-----------------------------------------------------------------------------
\* RunnerJobs: no item of work is done twice and none is lost, through crashes of the server.
EachItemOnce == focus = "recovery" => Recovery!EachItemOnce

\* RunnerJobs: an interruption that was acknowledged is what the caller is told.
InterruptHolds == focus = "service" => Service!InterruptHolds

\* Pipeline: an artifact attributes every item to exactly one Builder.
EachItemByOne == Pipe!EachItemByOne

\* Pipeline: a pipeline that returned holds no lease.
ReturnedHoldsNothing == Pipe!ReturnedHoldsNothing

\* Orchestrator: an item is done twice only if Core was cut off or a handoff named no index.
RepeatedOnlyIfLost == Switch!RepeatedOnlyIfLost

\* Workspace: "clean" names a head at which the source was clean, or at which git did not answer.
CleanWasTrue == Reading!CleanWasTrue

\* Workspace: a worktree is registered once, and only when it exists.
RegisteredOnce == Making!RegisteredOnce

\* AgentPool: the profile chosen is enabled, and exhausted only by numbers that went stale.
ChosenIsFit == Pool!ChosenIsFit

\* Schema: Core serves only on a schema that has all its code needs.
ServesCompleteSchema == Data!ServesCompleteSchema
=============================================================================
