----------------------------- MODULE AgentPool ------------------------------
(* What Core knows of the agent profiles: the file registry of the owner, the
   durable rows it is reconciled into, the auth-health and capacity probes, and
   the choice of a Builder from them (profile_reconcile.py, auth_health.py,
   agent_registry.py, capacity.py, claude_pool.py).                           *)
EXTENDS Naturals, FiniteSets

CONSTANTS
  Aliases,     \* profiles of the Claude pool
  Windows,     \* limit windows of a subscription: 5h, 7d
  MaxProbes,   \* bound: answers about capacity
  MaxSyncs     \* bound: auth-health writes of one profile

VARIABLES
  registry,    \* registry.json: "absent", "enabled" or "disabled"
  row,         \* agent_profiles.enabled/schedulable; "absent" before the first upsert
  state,       \* profile_states.state
  version,     \* profile_states.version
  reconciling, \* the step reconcile_profiles is at, and its alias
  sync,        \* what an auth-health run has read of the state and will write
  reading,     \* newest capacity_observations row
  old,         \* are the numbers it shows older than CAPACITY_TTL_S
  refresh,     \* the alias whose provider is being asked, under _cap_lock
  probes,
  chosen       \* the last answer of select_builder, with the rows it was made from

poolVars == <<registry, row, state, version, reconciling, sync,
              reading, old, refresh, probes, chosen>>

Levels == {"allowed", "warning", "rejected"}
Limits == UNION {[W -> Levels] : W \in (SUBSET Windows) \ {{}}}
NoLimits == [status |-> "UNKNOWN", limits |-> <<>>]
Nobody == [alias |-> "nobody"]
Syncable == {"UNCONFIGURED", "AUTH_REQUIRED", "READY", "ERROR"}

Init ==
  /\ registry \in [Aliases -> {"absent", "enabled"}]
  /\ row = [a \in Aliases |-> "absent"]
  /\ state = [a \in Aliases |-> "UNCONFIGURED"]
  /\ version = [a \in Aliases |-> 1]
  /\ reconciling = Nobody
  /\ sync = [a \in Aliases |-> Nobody]
  /\ reading = [a \in Aliases |-> NoLimits]
  /\ old = [a \in Aliases |-> FALSE]
  /\ refresh = Nobody /\ probes = 0
  /\ chosen = Nobody

profileRows == <<row, state, version>>
capacityRows == <<reading, old, refresh, probes>>

-----------------------------------------------------------------------------
(* The owner adds a profile to the registry, disables or restores it.         *)
EditRegistry(a, to) ==
  /\ registry[a] # to
  /\ registry' = [registry EXCEPT ![a] = to]
  /\ UNCHANGED <<profileRows, reconciling, sync, capacityRows, chosen>>

(* upsert_profile and then, in a transaction of its own, _force_disabled or
   _promote_unconfigured: neither of them moves the version.                  *)
UpsertProfile(a) ==
  /\ reconciling = Nobody
  /\ registry[a] # "absent"
  /\ row' = [row EXCEPT ![a] = registry[a]]
  /\ reconciling' = [alias |-> a, created |-> row[a] = "absent", to |-> registry[a]]
  /\ UNCHANGED <<registry, state, version, sync, capacityRows, chosen>>

SettleState ==
  /\ reconciling # Nobody
  /\ LET a == reconciling.alias
         to == IF reconciling.to = "disabled" /\ state[a] # "LEASED" THEN "DISABLED"
               ELSE IF reconciling.created /\ reconciling.to = "enabled" /\ state[a] = "UNCONFIGURED"
                 THEN "AUTH_REQUIRED" ELSE state[a]
     IN  state' = [state EXCEPT ![a] = to]
  /\ reconciling' = Nobody
  /\ UNCHANGED <<registry, row, version, sync, capacityRows, chosen>>

(* deploy stopped between the two transactions *)
AbortReconcile ==
  /\ reconciling # Nobody /\ reconciling' = Nobody
  /\ UNCHANGED <<registry, profileRows, sync, capacityRows, chosen>>

(* run_auth_health: the CLI proves READY or AUTH_REQUIRED; an answer that
   proves nothing leaves the state alone.  set_state is versioned.            *)
ReadForSync(a) ==
  \E target \in {"READY", "AUTH_REQUIRED"} :
    /\ row[a] # "absent" /\ sync[a] = Nobody
    /\ state[a] \in Syncable \ {target}
    /\ version[a] <= MaxSyncs
    /\ sync' = [sync EXCEPT ![a] = [alias |-> a, to |-> target, version |-> version[a]]]
    /\ UNCHANGED <<registry, profileRows, reconciling, capacityRows, chosen>>

SyncState(a) ==
  /\ sync[a] # Nobody
  /\ IF version[a] = sync[a].version
       THEN /\ state' = [state EXCEPT ![a] = sync[a].to]
            /\ version' = [version EXCEPT ![a] = @ + 1]
       ELSE UNCHANGED <<state, version>>
  /\ sync' = [sync EXCEPT ![a] = Nobody]
  /\ UNCHANGED <<registry, row, reconciling, capacityRows, chosen>>

-----------------------------------------------------------------------------
(* capacity_status_from_windows *)
StatusOf(limits) ==
  LET levels == {limits[w] : w \in DOMAIN limits}
  IN  IF "rejected" \in levels THEN "EXHAUSTED"
      ELSE IF "warning" \in levels THEN "LOW"
      ELSE IF "allowed" \in levels THEN "AVAILABLE" ELSE "UNKNOWN"

Observed(limits) == [status |-> StatusOf(limits), limits |-> limits]

(* persist_capacity: a probe without windows carries the last ones over. *)
Carried(previous) ==
  IF previous.limits = <<>> THEN NoLimits ELSE [status |-> "STALE", limits |-> previous.limits]

Persist(a, limits) ==
  IF limits = <<>>
    THEN reading' = [reading EXCEPT ![a] = Carried(@)] /\ UNCHANGED old
    ELSE /\ reading' = [reading EXCEPT ![a] = Observed(limits)]
         /\ old' = [old EXCEPT ![a] = FALSE]

(* reconcile_capacity takes the lock or answers REFRESH_IN_PROGRESS. *)
StartRefresh(a) ==
  /\ refresh = Nobody /\ row[a] # "absent" /\ probes < MaxProbes
  /\ refresh' = [alias |-> a]
  /\ UNCHANGED <<registry, profileRows, reconciling, sync, reading, old, probes, chosen>>

(* The provider answers with the windows it has, or with none: CLI absent,
   not authenticated, no rate limits, onboarding gate, timeout.               *)
FinishRefresh ==
  /\ refresh # Nobody
  /\ \E limits \in Limits \cup {<<>>} : Persist(refresh.alias, limits)
  /\ refresh' = Nobody /\ probes' = probes + 1
  /\ UNCHANGED <<registry, profileRows, reconciling, sync, chosen>>

(* The numbers become older than the TTL. *)
Expire(a) ==
  /\ reading[a].limits # <<>> /\ ~old[a]
  /\ old' = [old EXCEPT ![a] = TRUE]
  /\ UNCHANGED <<registry, profileRows, reconciling, sync, reading, refresh, probes, chosen>>

-----------------------------------------------------------------------------
(* _latest_capacity_view and _is_pool_member *)
ShownStatus(a) == IF old[a] /\ reading[a].status # "UNKNOWN" THEN "STALE" ELSE reading[a].status

\* A variant of PoolMember: the state alone is looked at.
ByState(a) == state[a] \notin {"DISABLED", "RETIRED", "UNCONFIGURED"}

PoolMember(a) == row[a] = "enabled" /\ state[a] \notin {"DISABLED", "RETIRED", "UNCONFIGURED"}

Eligible(a) == PoolMember(a) /\ state[a] = "READY" /\ ShownStatus(a) # "EXHAUSTED"

Rank(status) == CASE status = "AVAILABLE" -> 0 [] status = "LOW" -> 1 [] status = "UNKNOWN" -> 2 [] OTHER -> 3

Best(candidates) ==
  {a \in candidates : \A b \in candidates : Rank(ShownStatus(a)) <= Rank(ShownStatus(b))}

Answer(a) == [alias |-> a, enabled |-> row[a] = "enabled", limits |-> reading[a].limits,
              shown |-> ShownStatus(a)]

SelectBuilder(candidates) ==
  IF candidates = {} THEN chosen' = Nobody ELSE \E a \in Best(candidates) : chosen' = Answer(a)

Route ==
  /\ SelectBuilder({a \in Aliases : Eligible(a)})
  /\ UNCHANGED <<registry, profileRows, reconciling, sync, capacityRows>>

(* handle_rate_limit of the chosen Builder: its window is written as rejected,
   the only one of the row, and another profile is chosen; the list of profiles
   is read again after the write.                                             *)
RateLimit(w) ==
  /\ chosen # Nobody /\ probes < MaxProbes
  /\ Persist(chosen.alias, [x \in {w} |-> "rejected"])
  /\ SelectBuilder({a \in Aliases \ {chosen.alias} : Eligible(a)})
  /\ probes' = probes + 1
  /\ UNCHANGED <<registry, profileRows, reconciling, sync, refresh>>

Next ==
  \/ \E a \in Aliases, to \in {"enabled", "disabled"} : EditRegistry(a, to)
  \/ \E a \in Aliases : UpsertProfile(a) \/ ReadForSync(a) \/ SyncState(a) \/ StartRefresh(a) \/ Expire(a)
  \/ SettleState \/ AbortReconcile \/ FinishRefresh \/ Route
  \/ \E w \in Windows : RateLimit(w)

Spec == Init /\ [][Next]_poolVars

-----------------------------------------------------------------------------
TypeOK ==
  /\ \A a \in Aliases : row[a] \in {"absent", "enabled", "disabled"}
  /\ \A a \in Aliases : state[a] \in {"UNCONFIGURED", "AUTH_REQUIRED", "READY", "DISABLED"}
  /\ \A a \in Aliases : reading[a].status \in {"UNKNOWN", "STALE", "EXHAUSTED", "LOW", "AVAILABLE"}

(* The profile select_builder answers is enabled in its row, even when a late
   auth-health write has turned its state from DISABLED back to READY; and when
   its last numbers say that a window is exhausted, that is because they went
   stale, by age or by a later probe that failed. (_is_pool_member, _eligible)  *)
ChosenIsFit ==
  chosen # Nobody =>
    /\ chosen.enabled
    /\ (\E w \in DOMAIN chosen.limits : chosen.limits[w] = "rejected") => chosen.shown = "STALE"
=============================================================================
