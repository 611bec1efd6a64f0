----------------------------- MODULE Workspace -----------------------------
(* A project of the workspace (workspace.py): its source is connected, its    *)
(* baseline collected by several git commands, its overview compared with the *)
(* live source, its worktree made under a lease, while the owner of the       *)
(* source goes on working in it.                                              *)
EXTENDS Naturals, Sequences

CONSTANTS
  Readers,      \* requests that collect baselines and overviews
  Makers,       \* requests that make the worktree
  Archives,     \* archives that may be offered, as sequences of kinds of entry
  MaxEntries,   \* the budget of an archive (archives.py:23)
  MaxHead,      \* bound: commits of the owner
  None

VARIABLES
  source,     \* [head, dirty, present]: what git would answer now
  cleanAt,    \* heads at which the source has been clean (history)
  blindAt,    \* heads a baseline took for clean because git status failed (history)
  intake,     \* the directory an archive is unpacked into
  project,    \* its status and the kind of its source
  baseline,   \* the row with the latest observed_at
  tree,       \* the directory of the worktree and its branch exist
  lease,      \* the holder of the active lease of the worktree
  rows,       \* rows of the worktree in the database
  told,       \* the head of the last overview that said "clean" of a live source
  call

vars == <<source, cleanAt, blindAt, intake, project, baseline, tree, lease, rows, told, call>>

Calls == Readers \cup Makers
Kinds == {"local_git", "github", "archive", "empty"}
Facts == [head: 0..MaxHead, dirty: BOOLEAN]
Idle == [step |-> "idle", head |-> 0, dirty |-> FALSE, base |-> None]

TypeOK ==
  /\ source \in [head: 0..MaxHead, dirty: BOOLEAN, present: BOOLEAN]
  /\ cleanAt \subseteq 0..MaxHead /\ blindAt \subseteq 0..MaxHead
  /\ intake \in {"none", "partial", "whole"}
  /\ project \in [status: {"none", "connected", "disconnected"}, kind: Kinds]
  /\ baseline \in Facts \cup {None}
  /\ tree \in BOOLEAN /\ lease \in Calls \cup {None, "other"} /\ rows \in 0..2
  /\ told \in 0..MaxHead \cup {None}
  /\ call \in [Calls -> [step: {"idle", "collect", "head", "store", "view", "live", "state",
                                "acquire", "git", "undo", "insert"},
                         head: 0..MaxHead, dirty: BOOLEAN, base: Facts \cup {None}]]

Init ==
  /\ source = [head |-> 0, dirty |-> TRUE, present |-> TRUE]
  /\ cleanAt = {} /\ blindAt = {} /\ intake = "none"
  /\ project = [status |-> "none", kind |-> "empty"]
  /\ baseline = None
  /\ tree = FALSE /\ lease = None /\ rows = 0 /\ told = None
  /\ call = [c \in Calls |-> Idle]

To(c, step) == call' = [call EXCEPT ![c] = [Idle EXCEPT !.step = step]]
End(c) == To(c, "idle")

-----------------------------------------------------------------------------
\* The owner edits, cleans or commits; the directory may be moved away.
OwnerWorks ==
  /\ \E h \in source.head..MaxHead, d \in BOOLEAN, p \in BOOLEAN :
       /\ h <= source.head + 1
       /\ source' = [head |-> h, dirty |-> d, present |-> p]
       /\ source' # source
       /\ cleanAt' = cleanAt \cup {x \in {h} : ~d}
  /\ UNCHANGED <<blindAt, intake, project, baseline, tree, lease, rows, told, call>>

\* An entry is refused by its kind, its path or the budget (archives.py:28, wspaths.py:117).
Admitted(archive) ==
  /\ Len(archive) <= MaxEntries
  /\ \A i \in 1..Len(archive) : archive[i] \in {"file", "dir"}

\* safe_extract: what was unpacked before the refused entry stays on disk.
Unpack(archive) == intake' = IF Admitted(archive) THEN "whole" ELSE "partial"

Connect(c) ==
  /\ call[c].step = "idle" /\ project.status = "none"
  /\ \/ \E kind \in {"github", "empty"} :
          /\ project' = [status |-> "connected", kind |-> kind]
          /\ To(c, "view") /\ UNCHANGED intake
     \/ /\ source.present        \* inside an allowed root, exists, is a repository
        /\ project' = [status |-> "connected", kind |-> "local_git"]
        /\ To(c, "collect") /\ UNCHANGED intake
     \/ /\ intake # "whole"
        /\ \E archive \in Archives :
             /\ Unpack(archive)
             /\ IF Admitted(archive) /\ source.present
                THEN project' = [status |-> "connected", kind |-> "archive"] /\ To(c, "collect")
                ELSE project' = project /\ End(c)
  /\ UNCHANGED <<source, cleanAt, blindAt, baseline, tree, lease, rows, told>>

\* The status alone: source, worktrees and leases stay.
Disconnect ==
  /\ project.status # "none"
  /\ project' = [project EXCEPT !.status = "disconnected"]
  /\ UNCHANGED <<source, cleanAt, blindAt, intake, baseline, tree, lease, rows, told, call>>

-----------------------------------------------------------------------------
\* A project whose source git can answer for, whatever its status (_repo_path).
Analyzable == project.status # "none" /\ project.kind \in {"local_git", "archive"} /\ source.present

Refresh(c) ==
  /\ call[c].step = "idle" /\ Analyzable
  /\ To(c, "collect")
  /\ UNCHANGED <<source, cleanAt, blindAt, intake, project, baseline, tree, lease, rows, told>>

\* collect_baseline: the head and the status come from two commands.
CollectHead(c) ==
  /\ call[c].step = "collect"
  /\ IF source.present
     THEN call' = [call EXCEPT ![c] = [@ EXCEPT !.step = "head", !.head = source.head]]
     ELSE End(c)
  /\ UNCHANGED <<source, cleanAt, blindAt, intake, project, baseline, tree, lease, rows, told>>

\* A git status that fails counts as "nothing to report" (gitbaseline.py:127).
CollectStatus(c) ==
  /\ call[c].step = "head"
  /\ call' = [call EXCEPT ![c] = [@ EXCEPT !.step = "store", !.dirty = source.present /\ source.dirty]]
  /\ blindAt' = blindAt \cup {h \in {call[c].head} : ~source.present}
  /\ UNCHANGED <<source, cleanAt, intake, project, baseline, tree, lease, rows, told>>

StoreBaseline(c) ==
  /\ call[c].step = "store"
  /\ baseline' = [head |-> call[c].head, dirty |-> call[c].dirty]
  /\ To(c, "view")
  /\ UNCHANGED <<source, cleanAt, blindAt, intake, project, tree, lease, rows, told>>

-----------------------------------------------------------------------------
View(c) ==
  /\ call[c].step = "idle" /\ project.status # "none"
  /\ To(c, "view")
  /\ UNCHANGED <<source, cleanAt, blindAt, intake, project, baseline, tree, lease, rows, told>>

\* overview: the rows first, then the live head, then the live status.
ReadRows(c) ==
  /\ call[c].step = "view"
  /\ call' = [call EXCEPT ![c] = [@ EXCEPT !.step = "live", !.base = baseline]]
  /\ UNCHANGED <<source, cleanAt, blindAt, intake, project, baseline, tree, lease, rows, told>>

ReadLive(c) ==
  /\ call[c].step = "live"
  /\ IF source.present
     THEN call' = [call EXCEPT ![c] = [@ EXCEPT !.step = "state", !.head = source.head]]
     ELSE End(c)
  /\ UNCHANGED <<source, cleanAt, blindAt, intake, project, baseline, tree, lease, rows, told>>

\* A variant of State: the head is not compared with the baseline's.
StatusOnly(c, dirty) ==
  LET base == call[c].base IN
  IF project.status = "disconnected" THEN "disconnected"
  ELSE IF project.kind = "empty" THEN "empty"
  ELSE IF base = None THEN "pending"
  ELSE IF dirty # base.dirty THEN "stale"
  ELSE IF base.dirty THEN "dirty" ELSE "clean"

\* _compute_state, with the status of the source read as it decides.
State(c, dirty) ==
  LET base == call[c].base IN
  IF project.status = "disconnected" THEN "disconnected"
  ELSE IF project.kind = "empty" THEN "empty"
  ELSE IF base = None THEN "pending"
  ELSE IF project.kind # "github" /\ (call[c].head # base.head \/ dirty # base.dirty) THEN "stale"
  ELSE IF base.dirty THEN "dirty" ELSE "clean"

Answer(c) ==
  /\ call[c].step = "state"
  /\ told' = IF State(c, source.dirty /\ source.present) = "clean" /\ project.kind # "github"
             THEN call[c].base.head ELSE None
  /\ End(c)
  /\ UNCHANGED <<source, cleanAt, blindAt, intake, project, baseline, tree, lease, rows>>

-----------------------------------------------------------------------------
BeginWorktree(c) ==
  /\ call[c].step = "idle" /\ Analyzable
  /\ To(c, "acquire")
  /\ UNCHANGED <<source, cleanAt, blindAt, intake, project, baseline, tree, lease, rows, told>>

Acquire(c) ==
  /\ call[c].step = "acquire"
  /\ IF lease = None THEN lease' = c /\ To(c, "git") ELSE lease' = lease /\ End(c)
  /\ UNCHANGED <<source, cleanAt, blindAt, intake, project, baseline, tree, rows, told>>

\* A variant of Refused: git add --force on a directory that exists.
Forced == ~source.present

\* git refuses a directory or a branch that exists.
Refused == tree \/ ~source.present

\* git worktree add, which may fail or outlive its 30 seconds after it made the directory.
GitAdd(c) ==
  /\ call[c].step = "git"
  /\ \/ /\ Refused
        /\ tree' = tree /\ To(c, "undo")
     \/ /\ ~Refused
        /\ tree' = TRUE /\ To(c, "insert")
     \/ tree' \in {tree, TRUE} /\ To(c, "undo")
  /\ UNCHANGED <<source, cleanAt, blindAt, intake, project, baseline, lease, rows, told>>

Undo(c) ==
  /\ call[c].step = "undo"
  /\ lease' = IF lease = c THEN None ELSE lease
  /\ End(c)
  /\ UNCHANGED <<source, cleanAt, blindAt, intake, project, baseline, tree, rows, told>>

\* The lease of a worktree that was made is kept.
InsertWorktree(c) ==
  /\ call[c].step = "insert"
  /\ rows' = rows + 1
  /\ To(c, "view")
  /\ UNCHANGED <<source, cleanAt, blindAt, intake, project, baseline, tree, lease, told>>

\* A crash of the service; what the call had done stays done.
Crash(c) ==
  /\ call[c].step # "idle"
  /\ End(c)
  /\ UNCHANGED <<source, cleanAt, blindAt, intake, project, baseline, tree, lease, rows, told>>

\* Another holder takes the path by try_acquire_writer, or the lease is released
\* for its holder (WriterLease); a call that still works keeps its own.
OtherHolder ==
  /\ lease \notin {c \in Calls : call[c].step # "idle"}
  /\ lease' = IF lease = None THEN "other" ELSE None
  /\ UNCHANGED <<source, cleanAt, blindAt, intake, project, baseline, tree, rows, told, call>>

-----------------------------------------------------------------------------
Step(c) ==
  \/ Connect(c) \/ CollectHead(c) \/ CollectStatus(c) \/ StoreBaseline(c)
  \/ c \in Readers /\ (Refresh(c) \/ View(c))
  \/ ReadRows(c) \/ ReadLive(c) \/ Answer(c)
  \/ c \in Makers /\ BeginWorktree(c)
  \/ Acquire(c) \/ GitAdd(c) \/ Undo(c) \/ InsertWorktree(c) \/ Crash(c)

Next == OwnerWorks \/ Disconnect \/ OtherHolder \/ \E c \in Calls : Step(c)

Spec == Init /\ [][Next]_vars

-----------------------------------------------------------------------------
(* An overview that says "clean" names a head at which the source really was  *)
(* clean, or of which git status gave no answer: although head and status are *)
(* read by different commands, for the baseline and again for the overview,   *)
(* and the owner commits between them (workspace.py:_compute_state).          *)
CleanWasTrue == told # None => told \in cleanAt \cup blindAt

(* A worktree is registered once and only when its directory exists, whoever  *)
(* takes or loses the lease of its path and wherever a call is cut            *)
(* (workspace.py:create_worktree).                                            *)
RegisteredOnce == rows <= 1 /\ (rows = 1 => tree)

=============================================================================
