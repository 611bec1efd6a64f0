------------------------------ MODULE Pipeline ------------------------------
(***************************************************************************)
(* The VP-5 pipeline of one Run: Planner, Builder, independent Reviewer,   *)
(* one fix loop (apps/core/atlas_core/pipeline.py, with the fake adapter of *)
(* adapters/fake.py).  The Builder works through a list of items under a   *)
(* lease of the worktree and one of its profile; a rate limit moves it once *)
(* to another profile with the progress made, an interruption resumes it   *)
(* once, anything else ends the Run.  Pipelines run concurrently and meet  *)
(* at the two leases; a refused lease is an exception nobody catches.      *)
(***************************************************************************)
EXTENDS Naturals, Sequences, FiniteSets

CONSTANTS
  Lines,       \* pipelines, one for each Run
  WorktreeOf,  \* the worktree each works in
  Builders,    \* builder profiles
  NoProfile,
  Size,        \* bound: items of a job
  Corruption   \* how the Builder falsifies its artifact: "none", "first" or "always"

VARIABLES
  line,      \* progress of each pipeline
  eligible,  \* builder profiles the router may choose
  trees,     \* worktree -> the pipeline with its active lease, or NoProfile
  profiles,  \* profile -> the pipeline with its active lease, or NoProfile
  artifact   \* RESULT.json of each worktree

pipeVars == <<line, eligible, trees, profiles, artifact>>

NoArtifact == [done |-> <<>>, false |-> TRUE]

\* Attributes of a pipeline: where it is, the state of its Run, and the locals of _run_builder.
Fresh == [attempt |-> 0, switches |-> 0, recoveries |-> 0, from |-> 0, done |-> <<>>, resume |-> FALSE]
NewLine == [pc |-> "start", state |-> "QUEUED", fixes |-> 0, profile |-> NoProfile, job |-> Fresh]

TypeOK ==
  /\ \A l \in Lines :
       /\ line[l].pc \in {"start", "plan", "route", "tree", "profile", "work", "review", "returned", "raised"}
       /\ line[l].fixes \in 0..1
       /\ line[l].profile \in Builders \cup {NoProfile}
       /\ line[l].job.from \in 0..Size
  /\ eligible \subseteq Builders
  /\ \A t \in DOMAIN trees : trees[t] \in Lines \cup {NoProfile}
  /\ profiles \in [Builders -> Lines \cup {NoProfile}]

Init ==
  /\ line = [l \in Lines |-> NewLine]
  /\ eligible \in SUBSET Builders
  /\ trees = [t \in {WorktreeOf[l] : l \in Lines} |-> NoProfile]
  /\ profiles = [p \in Builders |-> NoProfile]
  /\ artifact = [t \in {WorktreeOf[l] : l \in Lines} |-> NoArtifact]

To(l, pc, state) == [line EXCEPT ![l].pc = pc, ![l].state = state]
Return(l, state) == To(l, "returned", state)

\* QUEUED -> PREPARING; no planner profile: OWNER_REQUIRED.
Start(l) ==
  /\ line[l].pc = "start"
  /\ \/ line' = To(l, "plan", "PREPARING")
     \/ line' = Return(l, "OWNER_REQUIRED")
  /\ UNCHANGED <<eligible, trees, profiles, artifact>>

\* The planner runs and is recorded.
Plan(l) ==
  /\ line[l].pc = "plan"
  /\ line' = To(l, "route", "RUNNING")
  /\ UNCHANGED <<eligible, trees, profiles, artifact>>

\* The router chooses among the eligible builders, or there is none.
RouteBuilder(l) ==
  /\ line[l].pc = "route"
  /\ \/ \E p \in eligible : line' = [line EXCEPT ![l].pc = "tree", ![l].profile = p]
     \/ eligible = {} /\ line' = Return(l, "OWNER_REQUIRED")
  /\ UNCHANGED <<eligible, trees, profiles, artifact>>

-----------------------------------------------------------------------------
(* _run_builder *)

\* wl.acquire: a conflict leaves the Run as it is.
AcquireTree(l) ==
  /\ line[l].pc = "tree"
  /\ LET t == WorktreeOf[l] IN
       IF trees[t] = NoProfile
       THEN trees' = [trees EXCEPT ![t] = l] /\ line' = [line EXCEPT ![l].pc = "profile"]
       ELSE line' = [line EXCEPT ![l].pc = "raised"] /\ UNCHANGED trees
  /\ UNCHANGED <<eligible, profiles, artifact>>

\* pl.acquire: a conflict leaves the worktree leased as well.
AcquireProfile(l) ==
  /\ line[l].pc = "profile"
  /\ LET p == line[l].profile IN
       IF profiles[p] = NoProfile
       THEN /\ profiles' = [profiles EXCEPT ![p] = l]
            /\ line' = [line EXCEPT ![l].pc = "work", ![l].job.attempt = @ + 1]
       ELSE line' = [line EXCEPT ![l].pc = "raised"] /\ UNCHANGED profiles
  /\ UNCHANGED <<eligible, trees, artifact>>

\* A variant of ReleaseBoth: the lease of the profile is forgotten.
ReleaseTree(l) ==
  /\ trees' = [trees EXCEPT ![WorktreeOf[l]] = NoProfile]
  /\ UNCHANGED profiles

\* Both leases are given back before anything else is done.
ReleaseBoth(l) ==
  /\ trees' = [trees EXCEPT ![WorktreeOf[l]] = NoProfile]
  /\ profiles' = [profiles EXCEPT ![line[l].profile] = NoProfile]

\* The adapter's faults are injected into the first attempt of the first Builder only.
Faulty(l) == line[l].fixes = 0 /\ line[l].job.attempt = 1

\* The work items the adapter records when it does k items from where it was told to start.
Did(l, k) ==
  line[l].job.done \o [i \in 1..k |-> [who |-> line[l].profile, item |-> line[l].job.from + i]]

\* Mutant: the continuation is told what was done but not where to start.
WithoutIndex(l, k) == [line[l].job EXCEPT !.done = Did(l, k)]

\* What an interrupted attempt leaves to the next one.
Progress(l, k) == [line[l].job EXCEPT !.from = @ + k, !.done = Did(l, k)]

\* Authentication, policy: no retry.  (The partial state of these early faults names no progress.)
Stopped(l) ==
  /\ line[l].pc = "work" /\ Faulty(l)
  /\ ReleaseBoth(l)
  /\ \E state \in {"AUTH_REQUIRED", "OWNER_REQUIRED", "FAILED"} : line' = Return(l, state)
  /\ UNCHANGED <<eligible, artifact>>

\* A rate limit after k items: another eligible profile takes over once, in a fresh session.
RateLimited(l) ==
  /\ line[l].pc = "work" /\ Faulty(l)
  /\ ReleaseBoth(l)
  /\ \E k \in 0..(Size - 1 - line[l].job.from) :
       LET others == IF line[l].job.switches = 0 THEN eligible \ {line[l].profile} ELSE {} IN
       IF others = {}
       THEN line' = Return(l, "OWNER_REQUIRED")
       ELSE \E p \in others :
              line' = [line EXCEPT ![l].pc = "tree", ![l].profile = p,
                                   ![l].job = [Progress(l, k) EXCEPT !.switches = @ + 1, !.resume = FALSE]]
  /\ UNCHANGED <<eligible, artifact>>

\* An interruption after k items: the same session is resumed once.
Interrupted(l) ==
  /\ line[l].pc = "work" /\ Faulty(l)
  /\ ReleaseBoth(l)
  /\ \E k \in 0..(Size - 1 - line[l].job.from) :
       IF line[l].job.recoveries < 1
       THEN line' = [line EXCEPT ![l].pc = "tree",
                                 ![l].job = [Progress(l, k) EXCEPT !.recoveries = @ + 1, !.resume = TRUE]]
       ELSE line' = Return(l, "FAILED")
  /\ UNCHANGED <<eligible, artifact>>

\* Network, timeout: the Run fails.
Failed(l) ==
  /\ line[l].pc = "work" /\ Faulty(l)
  /\ ReleaseBoth(l)
  /\ line' = Return(l, "FAILED")
  /\ UNCHANGED <<eligible, artifact>>

\* Does the Builder lie about the sum this time?
Lies(l) == Corruption = "always" \/ (Corruption = "first" /\ line[l].fixes = 0)

\* The rest of the items, then the artifact, then the leases, then COLLECTING.
Built(l) ==
  /\ line[l].pc = "work"
  /\ ReleaseBoth(l)
  /\ artifact' = [artifact EXCEPT ![WorktreeOf[l]] =
                    [done |-> Did(l, Size - line[l].job.from), false |-> Lies(l)]]
  /\ line' = To(l, "review", "COLLECTING")
  /\ UNCHANGED eligible

-----------------------------------------------------------------------------
(* _run_reviewer and the fix loop *)

\* The reviewer recomputes the result from the plan.
Verdict(a) ==
  /\ ~a.false
  /\ {a.done[i].item : i \in DOMAIN a.done} = 1..Size

\* No reviewer profile, or somebody writes in the worktree: the owner decides.
ReviewBlocked(l) ==
  /\ line[l].pc = "review"
  /\ line' = Return(l, "OWNER_REQUIRED")
  /\ UNCHANGED <<eligible, trees, profiles, artifact>>

\* A second Builder starts from nothing, with the profile of the first.
Review(l) ==
  /\ line[l].pc = "review"
  /\ trees[WorktreeOf[l]] = NoProfile
  /\ line' = IF Verdict(artifact[WorktreeOf[l]]) THEN Return(l, "SUCCEEDED")
             ELSE IF line[l].fixes >= 1 THEN Return(l, "OWNER_REQUIRED")
             ELSE [line EXCEPT ![l].pc = "tree", ![l].state = "RUNNING", ![l].fixes = @ + 1, ![l].job = Fresh]
  /\ UNCHANGED <<eligible, trees, profiles, artifact>>

LineStep(l) ==
  \/ Start(l)
  \/ Plan(l)
  \/ RouteBuilder(l)
  \/ AcquireTree(l)
  \/ AcquireProfile(l)
  \/ Stopped(l)
  \/ RateLimited(l)
  \/ Interrupted(l)
  \/ Failed(l)
  \/ Built(l)
  \/ ReviewBlocked(l)
  \/ Review(l)

Next == \E l \in Lines : LineStep(l)

Spec == Init /\ [][Next]_pipeVars

-----------------------------------------------------------------------------
(* Properties *)

\* Whatever profile switches and resumptions there were, a written artifact attributes every item
\* to exactly one Builder: what was done before the fault is kept and not done again.
EachItemByOne ==
  \A t \in DOMAIN artifact :
    artifact[t] # NoArtifact =>
      /\ Len(artifact[t].done) = Size
      /\ {artifact[t].done[i].item : i \in 1..Size} = 1..Size

\* A pipeline that returned holds no lease, whichever way its Run ended: the next Builder of that
\* worktree or profile is not kept out.  (One that raised may: see AcquireProfile.)
ReturnedHoldsNothing ==
  \A l \in Lines : line[l].pc = "returned" =>
    l \notin {trees[t] : t \in DOMAIN trees} \cup {profiles[p] : p \in Builders}

=============================================================================
