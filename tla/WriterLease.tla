---------------------------- MODULE WriterLease ----------------------------
(***************************************************************************)
(* The one-writer lease of a worktree (wsleases.py; leases.py has the same *)
(* protocol, run_leases.py has it per profile and without the Git check):  *)
(* acquire, heartbeat, release and reconcile, for writers that are         *)
(* processes and may die, and for several callers of reconcile at once.    *)
(*                                                                         *)
(* One worktree stands for all of them: the rows of two worktrees never    *)
(* meet.  A step is one SQLite transaction or one call of a liveness or    *)
(* Git callback.  A process that restarts is another writer.               *)
(***************************************************************************)
EXTENDS Naturals

CONSTANTS
  Writers,      \* processes that may ask for the worktree
  Reconcilers,  \* calls of reconcile()
  Ttl,          \* ttl_s
  Grace,        \* stale_grace_s
  MaxTime,      \* bound: the clock
  MaxLeases     \* bound: rows ever inserted

ASSUME LeaseAssumption ==
  /\ Ttl \in Nat /\ Grace \in Nat
  /\ MaxTime \in Nat /\ MaxLeases \in Nat

VARIABLES
  lease,   \* the row with released_at = '', or NoLease
  nextId,  \* ids of lease rows are never used twice
  now,     \* the clock of the host
  alive,   \* writers whose process runs
  clean,   \* whether the worktree has no uncommitted work
  pc,      \* of each writer: "idle", "inserted" (acquire not yet returned), "writing"
  mine,    \* id of the lease acquire() returned to it
  rpc,     \* of each reconcile call: which check comes next
  target   \* the lease it read

vars == <<lease, nextId, now, alive, clean, pc, mine, rpc, target>>

NoLease == [id |-> 0]
Lease == [id : Nat \ {0}, by : Writers, hb : Nat, exp : Nat]

TypeOK ==
  /\ lease \in Lease \cup {NoLease}
  /\ nextId \in Nat \ {0}
  /\ now \in Nat
  /\ alive \in SUBSET Writers
  /\ clean \in BOOLEAN
  /\ pc \in [Writers -> {"idle", "inserted", "writing"}]
  /\ mine \in [Writers -> Nat]
  /\ rpc \in [Reconcilers -> {"idle", "alive", "git", "free"}]
  /\ target \in [Reconcilers -> Lease \cup {NoLease}]

Init ==
  /\ lease = NoLease
  /\ nextId = 1
  /\ now = 0
  /\ alive = Writers
  /\ clean = TRUE
  /\ pc = [w \in Writers |-> "idle"]
  /\ mine = [w \in Writers |-> 0]
  /\ rpc = [r \in Reconcilers |-> "idle"]
  /\ target = [r \in Reconcilers |-> NoLease]

\* is_expired and _heartbeat_stale
Expired(l) == now >= l.exp
HeartbeatStale(l) == now > l.hb + Ttl + Grace
Orphaned(l) == Expired(l) /\ HeartbeatStale(l)

\* UPDATE ... SET released_at WHERE id = ? AND released_at = ''
WithoutAny(id) == NoLease  \* mutant: ... WHERE worktree = ?
Without(id) == IF lease.id = id THEN NoLease ELSE lease

-----------------------------------------------------------------------------
(* Writers *)

\* acquire: the INSERT, admitted by UNIQUE(worktree, released_at); on conflict an error is
\* raised and nothing changes, also when the active lease is orphaned (no auto-steal).
VacantOrOrphaned == IF lease = NoLease THEN TRUE ELSE Orphaned(lease)  \* mutant: auto-steal
Vacant == lease = NoLease

Acquire(w) ==
  /\ w \in alive /\ pc[w] = "idle"
  /\ nextId <= MaxLeases
  /\ Vacant
  /\ lease' = [id |-> nextId, by |-> w, hb |-> now, exp |-> now + Ttl]
  /\ nextId' = nextId + 1
  /\ pc' = [pc EXCEPT ![w] = "inserted"]
  /\ UNCHANGED <<now, alive, clean, mine, rpc, target>>

\* acquire: the SELECT whose answer the caller keeps.
ReadBack(w) ==
  /\ w \in alive /\ pc[w] = "inserted"
  /\ mine' = [mine EXCEPT ![w] = lease.id]
  /\ pc' = [pc EXCEPT ![w] = "writing"]
  /\ UNCHANGED <<lease, nextId, now, alive, clean, rpc, target>>

Heartbeat(w) ==
  /\ w \in alive /\ pc[w] = "writing"
  /\ lease' = IF lease.id = mine[w]
              THEN [lease EXCEPT !.hb = now, !.exp = now + Ttl]
              ELSE lease
  /\ UNCHANGED <<nextId, now, alive, clean, pc, mine, rpc, target>>

\* The worktree is edited or committed by the writer.
Work(w) ==
  /\ w \in alive /\ pc[w] = "writing"
  /\ clean' = ~clean
  /\ UNCHANGED <<lease, nextId, now, alive, pc, mine, rpc, target>>

Release(w) ==
  /\ w \in alive /\ pc[w] = "writing"
  /\ lease' = Without(mine[w])
  /\ pc' = [pc EXCEPT ![w] = "idle"]
  /\ UNCHANGED <<nextId, now, alive, clean, mine, rpc, target>>

\* The process dies; its row and its uncommitted work stay.
Die(w) ==
  /\ w \in alive
  /\ alive' = alive \ {w}
  /\ UNCHANGED <<lease, nextId, now, clean, pc, mine, rpc, target>>

Tick ==
  /\ now < MaxTime
  /\ now' = now + 1
  /\ UNCHANGED <<lease, nextId, alive, clean, pc, mine, rpc, target>>

-----------------------------------------------------------------------------
(* reconcile *)

\* The lease must have expired and its heartbeat must be stale.
Look(r) ==
  /\ rpc[r] = "idle"
  /\ lease # NoLease /\ Orphaned(lease)
  /\ target' = [target EXCEPT ![r] = lease]
  /\ rpc' = [rpc EXCEPT ![r] = "alive"]
  /\ UNCHANGED <<lease, nextId, now, alive, clean, pc, mine>>

AssumedDead(l) == TRUE  \* mutant: expiry is taken for death
ProcessDead(l) == l.by \notin alive

AskAlive(r) ==
  /\ rpc[r] = "alive"
  /\ rpc' = [rpc EXCEPT ![r] = IF ProcessDead(target[r]) THEN "git" ELSE "idle"]
  /\ UNCHANGED <<lease, nextId, now, alive, clean, pc, mine, target>>

Unchecked == TRUE  \* mutant: the Git check is dropped
GitClean == clean

AskGit(r) ==
  /\ rpc[r] = "git"
  /\ rpc' = [rpc EXCEPT ![r] = IF GitClean THEN "free" ELSE "idle"]
  /\ UNCHANGED <<lease, nextId, now, alive, clean, pc, mine, target>>

Free(r) ==
  /\ rpc[r] = "free"
  /\ lease' = Without(target[r].id)
  /\ rpc' = [rpc EXCEPT ![r] = "idle"]
  /\ UNCHANGED <<nextId, now, alive, clean, pc, mine, target>>

-----------------------------------------------------------------------------
Next ==
  \/ \E w \in Writers :
       Acquire(w) \/ ReadBack(w) \/ Heartbeat(w) \/ Work(w) \/ Release(w) \/ Die(w)
  \/ \E r \in Reconcilers : Look(r) \/ AskAlive(r) \/ AskGit(r) \/ Free(r)
  \/ Tick

Spec == Init /\ [][Next]_vars

-----------------------------------------------------------------------------
(* Properties *)

Holds(w) == w \in alive /\ pc[w] \in {"inserted", "writing"}

\* Two living processes never both work under a lease of the worktree: not through an expired
\* lease, and not through a reconcile that overlaps another one (wsleases.py:3-9).
OneWriter == \A v, w \in Writers : Holds(v) /\ Holds(w) => v = w

\* acquire() answers with the row it inserted, although it selects it by worktree in a
\* transaction of its own; so heartbeat and release act on the caller's lease.
LeaseIsOwn == \A w \in Writers : w \in alive /\ pc[w] = "writing" => lease.id = mine[w] /\ lease.by = w

\* A living writer loses its lease only by its own release (wsleases.py:7-9).
NoTheft ==
  [][\A w \in Writers :
       w \in alive /\ lease # NoLease /\ lease.by = w /\ lease'.id # lease.id
         => pc[w] = "writing" /\ pc'[w] = "idle"]_vars

\* The work a dead writer left uncommitted keeps the worktree closed: its lease is freed only
\* while the worktree is clean, also if the check was made some steps ago (wsleases.py:132).
NoTakeoverOfDirtyTree ==
  [][lease # NoLease /\ lease.by \notin alive /\ lease'.id # lease.id => clean]_vars

=============================================================================
