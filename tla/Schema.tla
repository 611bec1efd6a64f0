------------------------------- MODULE Schema -------------------------------
(***************************************************************************)
(* The schema of Core's database: the Alembic migrations, the check that   *)
(* an ordinary start makes (schema_check.py), the one-shot migration of    *)
(* core-entrypoint.sh and the on-line backup.                              *)
(*                                                                         *)
(* Columns are left out except those added later; of the indexes, those    *)
(* that are unique.  Alembic runs SQLite without transactional DDL: every  *)
(* statement of a migration is durable at once, its revision is stamped in *)
(* a transaction at its end.                                               *)
(***************************************************************************)
EXTENDS Naturals, Sequences

CONSTANTS
  Releases,   \* head revisions of the code that may be deployed
  Downgrades  \* revisions that the operator may downgrade

VARIABLES
  release,  \* the code deployed
  db,       \* the database file: [objects, stamp, torn]; torn is history: a downgrade is under way or broke off
  process,  \* what runs on it: [pc, step]
  saved     \* the last backup

vars == <<release, db, process, saved>>

Table(t) == <<"table", t, {}>>
Unique(t, columns) == <<"unique", t, columns>>
Column(t, c) == <<"column", t, {c}>>
Tables(names) == {Table(t) : t \in names}
Create(t) == {Table(t)}
CreateUnique(t, columns) == {Table(t), Unique(t, columns)}

Empty == [objects |-> {}, stamp |-> 0, torn |-> FALSE]

-----------------------------------------------------------------------------
\* The statements of each upgrade(), as sets of what one statement makes.
Initial == <<Create("audit_events")>>

ProjectWorkspace ==
  << Create("projects"), Create("git_baselines"), Create("worktrees"),
     CreateUnique("worktree_leases", {"worktree", "released_at"}) >>

BriefTables ==
  << Create("product_intakes"),
     CreateUnique("briefs", {"project_id", "version"}),
     CreateUnique("map_versions", {"project_id", "version"}),
     CreateUnique("map_nodes", {"map_version_id", "node_key"}),
     Create("map_edges"),
     CreateUnique("decisions", {"project_id", "decision_key"}) >>

ApprovalTables ==
  << Create("decision_events"), Create("parking_items"), Create("approvals"),
     CreateUnique("vp_activations", {"project_id", "active_slot"}),
     Create("idempotency_keys") >>

WorkOrderTables ==
  << CreateUnique("vp_specs", {"project_id", "vp_key", "version"}),
     Create("work_orders"), Create("work_order_events"), Create("optimizer_decisions"),
     Create("job_packages") >>

HandoffTables ==
  << Create("wo_checkpoints"), Create("handoff_packages"), Create("handoff_acks"),
     Create("rotation_records") >>

RegistryTables ==
  << CreateUnique("model_registry", {"provider", "model_id"}),
     Create("discovery_snapshots"),
     CreateUnique("role_presets", {"preset_key", "role"}),
     CreateUnique("agent_profiles", {"alias"}),
     CreateUnique("profile_states", {"profile_id"}),
     Create("profile_health"), Create("capacity_observations") >>

RunTables ==
  << Create("runs"), {Unique("runs", {"dedup_key"})},
     CreateUnique("run_role_steps", {"run_id", "role", "seq"}),
     CreateUnique("run_events", {"run_id", "seq"}),
     Create("provider_sessions"), Create("router_decisions"),
     CreateUnique("run_leases", {"profile_id", "released_at"}),
     Create("run_retries"), Create("run_pauses"), Create("handoff_links") >>

ReviewTables ==
  << Create("review_packages"), Create("quality_findings"), Create("quality_reports"),
     Create("impact_assessments") >>

EvidenceTables ==
  << CreateUnique("evidence_cache", {"cache_key"}),
     Create("manual_audits"), Create("waivers"), Create("fix_loops"),
     Create("profile_registry_reconciles") >>

AutonomyTables ==
  << Create("grants"), Create("emergency_stops"), Create("checkpoints"),
     Create("github_deliveries"), {Unique("github_deliveries", {"idempotency_key"})},
     Create("merge_evidence"), {Unique("merge_evidence", {"head_sha", "ref"})} >>

AddedColumns ==
  << {Column("profile_health", "source")},        {Column("capacity_observations", "plan")},
     {Column("capacity_observations", "five_h_reset_at")},
     {Column("capacity_observations", "seven_d_reset_at")},
     {Column("capacity_observations", "error_code")},
     {Column("capacity_observations", "windows_json")},
     {Column("capacity_observations", "data_observed_at")} >>

Migrations ==
  << Initial, ProjectWorkspace, BriefTables \o ApprovalTables, WorkOrderTables \o HandoffTables,
     RegistryTables \o RunTables, ReviewTables \o EvidenceTables, AutonomyTables \o AddedColumns >>
Latest == Len(Migrations)

-----------------------------------------------------------------------------
\* What orm.py declares, and what INSERTs in the code rely on to be refused.
WorkspaceModels ==
  Tables({"audit_events", "projects", "git_baselines", "worktrees", "worktree_leases"})
    \cup {Unique("worktree_leases", {"worktree", "released_at"})}

BriefModels ==
  Tables({"product_intakes", "briefs", "map_versions", "map_nodes", "map_edges", "decisions"})
    \cup { Unique("briefs", {"project_id", "version"}), Unique("map_versions", {"project_id", "version"}),
           Unique("map_nodes", {"map_version_id", "node_key"}),
           Unique("decisions", {"project_id", "decision_key"}) }

ApprovalModels ==
  Tables({"decision_events", "parking_items", "approvals", "vp_activations", "idempotency_keys"})
    \cup {Unique("vp_activations", {"project_id", "active_slot"})}

WorkOrderModels ==
  Tables({"vp_specs", "work_orders", "work_order_events", "optimizer_decisions", "job_packages"})
    \cup {Unique("vp_specs", {"project_id", "vp_key", "version"})}

HandoffModels == Tables({"wo_checkpoints", "handoff_packages", "handoff_acks", "rotation_records"})

ProfileModels ==
  Tables({"model_registry", "discovery_snapshots", "role_presets", "agent_profiles", "profile_states",
          "profile_health", "capacity_observations"})
    \cup { Unique("model_registry", {"provider", "model_id"}), Unique("role_presets", {"preset_key", "role"}),
           Unique("agent_profiles", {"alias"}), Unique("profile_states", {"profile_id"}) }

RunModels ==
  Tables({"runs", "run_role_steps", "run_events", "provider_sessions", "router_decisions"})
    \cup { Unique("runs", {"dedup_key"}), Unique("run_role_steps", {"run_id", "role", "seq"}),
           Unique("run_events", {"run_id", "seq"}) }

RunLinkModels ==
  Tables({"run_leases", "run_retries", "run_pauses", "handoff_links"})
    \cup {Unique("run_leases", {"profile_id", "released_at"})}

ReviewModels ==
  Tables({"review_packages", "quality_findings", "quality_reports", "impact_assessments"})

EvidenceModels ==
  Tables({"evidence_cache", "manual_audits", "waivers", "fix_loops", "profile_registry_reconciles"})
    \cup {Unique("evidence_cache", {"cache_key"})}

MergeModels == Tables({"merge_evidence"}) \cup {Unique("merge_evidence", {"head_sha", "ref"})}

AutonomyModels == Tables({"grants", "emergency_stops"})

TimeMachineModels ==
  Tables({"checkpoints", "github_deliveries"}) \cup {Unique("github_deliveries", {"idempotency_key"})}

LateColumns ==
  {Column("profile_health", "source")}
    \cup {Column("capacity_observations", c) :
            c \in {"plan", "five_h_reset_at", "seven_d_reset_at", "error_code", "windows_json", "data_observed_at"}}

\* What the code of a release reads and writes.
Needs(r) ==
  UNION { WorkspaceModels, BriefModels, ApprovalModels, WorkOrderModels, HandoffModels,
          ProfileModels, RunModels, RunLinkModels,
          IF r >= 6 THEN ReviewModels \cup EvidenceModels ELSE {},
          IF r >= 7 THEN MergeModels \cup AutonomyModels \cup TimeMachineModels \cup LateColumns ELSE {} }

-----------------------------------------------------------------------------
File == [objects : SUBSET (Needs(Latest) \cup UNION {Migrations[5][i] : i \in 1..Len(Migrations[5])}),
         stamp : 0..Latest, torn : BOOLEAN]
TypeOK ==
  /\ release \in Releases
  /\ db \in File /\ saved \in File
  /\ process.pc \in {"down", "upgrade", "check", "serving", "downgrade"}
  /\ process.step \in 0..Len(RegistryTables \o RunTables)

Init ==
  /\ release \in Releases
  /\ db = Empty /\ saved = Empty
  /\ process = [pc |-> "down", step |-> 0]

Down == [pc |-> "down", step |-> 0]
At(pc, step) == process' = [pc |-> pc, step |-> step]

\* A deployment replaces the image.
Deploy(r) ==
  /\ process = Down /\ release' = r
  /\ UNCHANGED <<db, process, saved>>

\* core-entrypoint.sh, with and without ATLAS_RUN_MIGRATIONS.
Start ==
  /\ process = Down
  /\ At("upgrade", 0) \/ At("check", 0)
  /\ UNCHANGED <<release, db, saved>>

Statements == Migrations[db.stamp + 1]

\* One statement; what exists already makes it fail, and the entrypoint with it.
Upgrade ==
  /\ process.pc = "upgrade" /\ db.stamp < release /\ process.step < Len(Statements)
  /\ LET made == Statements[process.step + 1] IN
     IF made \cap db.objects = {}
     THEN db' = [db EXCEPT !.objects = @ \cup made] /\ At("upgrade", process.step + 1)
     ELSE UNCHANGED db /\ process' = Down
  /\ UNCHANGED <<release, saved>>

\* The mutant: the revision is stamped before its last statement.
StampEarly == process.step + 1 >= Len(Statements)

Complete == process.step = Len(Statements)

Stamp ==
  /\ process.pc = "upgrade" /\ db.stamp < release /\ Complete
  /\ db' = [db EXCEPT !.stamp = @ + 1] /\ At("upgrade", 0)
  /\ UNCHANGED <<release, saved>>

\* At head, or at a revision this code does not know: the second is an error.
UpgradeEnds ==
  /\ process.pc = "upgrade" /\ db.stamp >= release
  /\ IF db.stamp = release THEN At("check", 0) ELSE process' = Down
  /\ UNCHANGED <<release, db, saved>>

\* schema_check: the revisions of the file are exactly the head of the code.
Check ==
  /\ process.pc = "check"
  /\ IF db.stamp = release THEN At("serving", 0) ELSE process' = Down
  /\ UNCHANGED <<release, db, saved>>

\* The process stops or dies, wherever it is.
Stop ==
  /\ process # Down /\ process' = Down
  /\ UNCHANGED <<release, db, saved>>

\* alembic downgrade -1: statements in reverse, the stamp last.
DowngradeStart ==
  /\ process = Down /\ db.stamp \in Downgrades /\ db.stamp <= release /\ ~db.torn
  /\ At("downgrade", 0)
  /\ UNCHANGED <<release, db, saved>>

Downgrade ==
  LET last == Migrations[db.stamp] IN
  /\ process.pc = "downgrade"
  /\ IF process.step < Len(last)
     THEN /\ db' = [db EXCEPT !.objects = @ \ last[Len(last) - process.step], !.torn = TRUE]
          /\ At("downgrade", process.step + 1)
     ELSE db' = [db EXCEPT !.stamp = @ - 1, !.torn = FALSE] /\ process' = Down
  /\ UNCHANGED <<release, saved>>

\* The on-line backup is one consistent snapshot, whatever runs.
Backup ==
  /\ saved # db /\ db # Empty /\ saved' = db
  /\ UNCHANGED <<release, db, process>>

\* The operator puts the file of a backup back.
Restore ==
  /\ process = Down /\ saved # Empty /\ db # saved /\ db' = saved
  /\ UNCHANGED <<release, process, saved>>

Next ==
  \/ \E r \in Releases : Deploy(r)
  \/ Start \/ Upgrade \/ Stamp \/ UpgradeEnds \/ Check \/ Stop
  \/ DowngradeStart \/ Downgrade \/ Backup \/ Restore

Spec == Init /\ [][Next]_vars

-----------------------------------------------------------------------------
(* Core serves only on a schema that has every table, column and unique    *)
(* index its code relies on, through interrupted and repeated upgrades,    *)
(* older and newer releases, downgrades, and backups taken and restored at *)
(* any moment.  Only a downgrade that broke off, or a backup taken during  *)
(* one, defeats it: its stamp is still that of the revision it takes away. *)
ServesCompleteSchema ==
  process.pc = "serving" /\ ~db.torn => Needs(release) \subseteq db.objects
=============================================================================
