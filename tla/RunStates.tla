----------------------------- MODULE RunStates -----------------------------
(***************************************************************************)
(* The state vocabulary of a Run (apps/core/atlas_core/runs.py): the twelve *)
(* stored states, the table of legal transitions, and the set of states    *)
(* Emergency Stop moves to INTERRUPTED (apps/core/atlas_core/emergency.py). *)
(***************************************************************************)

\* Successors of each stored state: VALID_RUN_TRANSITIONS.
ValidNext ==
  [ QUEUED         |-> {"PREPARING", "CANCELLED"},
    PREPARING      |-> {"RUNNING", "RATE_LIMITED", "AUTH_REQUIRED", "PAUSED",
                        "INTERRUPTED", "FAILED", "CANCELLED", "OWNER_REQUIRED"},
    RUNNING        |-> {"COLLECTING", "RATE_LIMITED", "AUTH_REQUIRED", "PAUSED",
                        "INTERRUPTED", "FAILED", "CANCELLED", "OWNER_REQUIRED"},
    COLLECTING     |-> {"SUCCEEDED", "RUNNING", "PREPARING", "FAILED",
                        "INTERRUPTED", "CANCELLED", "OWNER_REQUIRED"},
    RATE_LIMITED   |-> {"PREPARING", "RUNNING", "OWNER_REQUIRED", "FAILED", "CANCELLED"},
    AUTH_REQUIRED  |-> {"PREPARING", "OWNER_REQUIRED", "FAILED", "CANCELLED"},
    PAUSED         |-> {"RUNNING", "PREPARING", "OWNER_REQUIRED", "CANCELLED"},
    INTERRUPTED    |-> {"PREPARING", "RUNNING", "OWNER_REQUIRED", "FAILED", "CANCELLED"},
    OWNER_REQUIRED |-> {"PREPARING", "RUNNING", "CANCELLED", "FAILED"},
    SUCCEEDED      |-> {},
    FAILED         |-> {},
    CANCELLED      |-> {} ]

RunStateSet == {"QUEUED", "PREPARING", "RUNNING", "COLLECTING", "RATE_LIMITED",
                "AUTH_REQUIRED", "PAUSED", "INTERRUPTED", "OWNER_REQUIRED",
                "SUCCEEDED", "FAILED", "CANCELLED"}

\* TERMINAL
Terminal == {"SUCCEEDED", "FAILED", "CANCELLED"}

\* INTERRUPTIBLE_STATES of Emergency Stop.
Interruptible == {"PREPARING", "RUNNING", "COLLECTING", "RATE_LIMITED", "AUTH_REQUIRED"}

\* The check of RunService.transition: staying in the same state is always let through.
Allowed(from, to) == to = from \/ to \in ValidNext[from]

\* The state of a Run whose row does not exist yet.
Absent == "ABSENT"

=============================================================================
