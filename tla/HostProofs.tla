------------------------------ MODULE HostProofs ------------------------------
(***************************************************************************)
(* What works on the host, proved for any number of writers, jobs, lines,   *)
(* callers and profiles: the one writer of a worktree, and of each other    *)
(* component the properties that MCHost states.  The components do not      *)
(* meet: each has an inductive invariant of its own, which the steps of the *)
(* others leave alone.                                                      *)
(***************************************************************************)
EXTENDS MCHost, SequenceTheorems, TLAPS

-----------------------------------------------------------------------------
(* WriterLease: one writer per worktree *)

\* Whoever lives between acquire and release is named by the active row, and a writer knows
\* the id of that row.
RowIsHolders ==
  \A w \in Writers :
    /\ Holds(w) => lease \in Lease /\ lease.by = w
    /\ w \in alive /\ pc[w] = "writing" => mine[w] = lease.id

\* Ids already handed out are below nextId, so a later row differs from what was read before.
IdsAreFresh ==
  /\ lease.id < nextId
  /\ \A r \in Reconcilers : target[r].id < nextId

\* What a reconcile call knows about the row it read stays true of that row.
ChecksStand ==
  \A r \in Reconcilers :
    /\ rpc[r] # "idle" => target[r] \in Lease
    /\ rpc[r] # "idle" /\ lease.id = target[r].id => lease.by = target[r].by
    /\ rpc[r] \in {"git", "free"} => target[r].by \notin alive
    /\ rpc[r] = "free" /\ lease.id = target[r].id => clean

LeaseInv == TypeOK /\ RowIsHolders /\ IdsAreFresh /\ ChecksStand

LEMMA LeaseInitially == Init => LeaseInv
BY LeaseAssumption DEF NoLease, Lease, Init, LeaseInv, TypeOK, RowIsHolders, IdsAreFresh, ChecksStand, Holds

\* Every step keeps the invariant.
LEMMA LeaseInductive == LeaseInv /\ [Next]_vars => LeaseInv'
<1> SUFFICES ASSUME LeaseInv, [Next]_vars PROVE LeaseInv'
  OBVIOUS
<1> USE LeaseAssumption DEF NoLease, Lease, LeaseInv, TypeOK, RowIsHolders, IdsAreFresh, ChecksStand, Holds
<1>1. ASSUME NEW w \in Writers, Acquire(w) PROVE LeaseInv'
  <2>1. lease = NoLease /\ lease' \in Lease /\ lease'.id = nextId /\ lease'.by = w
    BY <1>1 DEF Acquire, Vacant
  <2>2. TypeOK' /\ IdsAreFresh'
    BY <1>1, <2>1 DEF Acquire
  <2>3. RowIsHolders'
    BY <1>1, <2>1 DEF Acquire
  <2>4. \A r \in Reconcilers : target[r].id < nextId
    OBVIOUS
  <2>5. ChecksStand'
    BY <1>1, <2>1, <2>4 DEF Acquire
  <2> QED
    BY <2>2, <2>3, <2>5
<1>2. ASSUME NEW w \in Writers, ReadBack(w) PROVE LeaseInv'
  BY <1>2 DEF ReadBack
<1>3. ASSUME NEW w \in Writers, Heartbeat(w) PROVE LeaseInv'
  <2>1. lease \in Lease
    BY <1>3 DEF Heartbeat
  <2>2. lease' \in Lease /\ lease'.id = lease.id /\ lease'.by = lease.by
    <3>1. now + Ttl \in Nat /\ now \in Nat
      OBVIOUS
    <3>2. lease' = lease \/ lease' = [lease EXCEPT !.hb = now, !.exp = now + Ttl]
      BY <1>3 DEF Heartbeat
    <3>3. lease' = [lease EXCEPT !.hb = now, !.exp = now + Ttl]
            => lease' = [id |-> lease.id, by |-> lease.by, hb |-> now, exp |-> now + Ttl]
      BY <2>1
    <3> QED
      BY <2>1, <3>1, <3>2, <3>3
  <2>3. TypeOK' /\ RowIsHolders'
    BY <1>3, <2>2 DEF Heartbeat
  <2>4. IdsAreFresh' /\ ChecksStand'
    BY <1>3, <2>2 DEF Heartbeat
  <2> QED
    BY <2>3, <2>4
<1>4. ASSUME NEW w \in Writers, Work(w) PROVE LeaseInv'
  BY <1>4 DEF Work
<1>5. ASSUME NEW w \in Writers, Release(w) PROVE LeaseInv'
  BY <1>5 DEF Release, Without
<1>6. ASSUME NEW w \in Writers, Die(w) PROVE LeaseInv'
  BY <1>6 DEF Die
<1>7. ASSUME NEW r \in Reconcilers, Look(r) PROVE LeaseInv'
  BY <1>7 DEF Look
<1>8. ASSUME NEW r \in Reconcilers, AskAlive(r) PROVE LeaseInv'
  BY <1>8 DEF AskAlive, ProcessDead
<1>9. ASSUME NEW r \in Reconcilers, AskGit(r) PROVE LeaseInv'
  BY <1>9 DEF AskGit, GitClean
<1>10. ASSUME NEW r \in Reconcilers, Free(r) PROVE LeaseInv'
  BY <1>10 DEF Free, Without
<1>11. CASE Tick
  BY <1>11 DEF Tick
<1>12. CASE UNCHANGED vars
  BY <1>12 DEF vars
<1> QED
  BY <1>1, <1>2, <1>3, <1>4, <1>5, <1>6, <1>7, <1>8, <1>9, <1>10, <1>11, <1>12 DEF Next

\* The invariant holds throughout: with it, the types of the state (wsleases.py:59-147).
THEOREM LeaseIsInductive == Spec => []LeaseInv
BY LeaseInitially, LeaseInductive, PTL DEF Spec

\* Two living processes never both hold the lease of the worktree (wsleases.py:3-9).
THEOREM AtMostOneWriter == Spec => []OneWriter
<1>1. LeaseInv => OneWriter
  BY DEF LeaseInv, RowIsHolders, OneWriter
<1> QED
  BY <1>1, LeaseIsInductive, PTL

\* The lease acquire() answers with is the caller's own row (wsleases.py:106).
THEOREM AnswerIsOwnRow == Spec => []LeaseIsOwn
<1>1. LeaseInv => LeaseIsOwn
  BY DEF LeaseInv, RowIsHolders, LeaseIsOwn, Holds
<1> QED
  BY <1>1, LeaseIsInductive, PTL

\* Nothing but its own release takes the lease from a living writer (wsleases.py:7-9).
THEOREM LivingWriterKeepsLease == Spec => NoTheft
<1>1. LeaseInv /\ [Next]_vars =>
        [\A w \in Writers :
           w \in alive /\ lease # NoLease /\ lease.by = w /\ lease'.id # lease.id
             => pc[w] = "writing" /\ pc'[w] = "idle"]_vars
  <2> SUFFICES ASSUME LeaseInv, Next, NEW w \in Writers,
                      w \in alive, lease # NoLease, lease.by = w, lease'.id # lease.id
               PROVE  pc[w] = "writing" /\ pc'[w] = "idle"
    OBVIOUS
  <2> USE DEF NoLease, Lease, LeaseInv, TypeOK, RowIsHolders, ChecksStand, Holds
  <2>1. ASSUME NEW v \in Writers, Acquire(v) PROVE FALSE
    BY <2>1 DEF Acquire, Vacant
  <2>2. ASSUME NEW v \in Writers, Heartbeat(v) PROVE FALSE
    BY <2>2 DEF Heartbeat
  <2>3. ASSUME NEW v \in Writers, Release(v) PROVE v = w /\ pc[v] = "writing" /\ pc'[v] = "idle"
    BY <2>3 DEF Release, Without
  <2>4. ASSUME NEW r \in Reconcilers, Free(r) PROVE FALSE
    BY <2>4 DEF Free, Without
  <2> QED
    BY <2>1, <2>2, <2>3, <2>4 DEF Next, ReadBack, Work, Die, Look, AskAlive, AskGit, Tick
<1> QED
  BY <1>1, LeaseIsInductive, PTL DEF Spec, NoTheft

\* The lease of a dead writer is freed only while the worktree is clean (wsleases.py:132).
THEOREM DirtyTreeStaysClosed == Spec => NoTakeoverOfDirtyTree
<1>1. LeaseInv /\ [Next]_vars =>
        [lease # NoLease /\ lease.by \notin alive /\ lease'.id # lease.id => clean]_vars
  <2> SUFFICES ASSUME LeaseInv, Next, lease # NoLease, lease.by \notin alive, lease'.id # lease.id
               PROVE  clean
    OBVIOUS
  <2> USE DEF NoLease, Lease, LeaseInv, TypeOK, RowIsHolders, ChecksStand, Holds
  <2>1. ASSUME NEW v \in Writers, Acquire(v) PROVE FALSE
    BY <2>1 DEF Acquire, Vacant
  <2>2. ASSUME NEW v \in Writers, Heartbeat(v) PROVE FALSE
    BY <2>2 DEF Heartbeat
  <2>3. ASSUME NEW v \in Writers, Release(v) PROVE FALSE
    BY <2>3 DEF Release, Without
  <2>4. ASSUME NEW r \in Reconcilers, Free(r) PROVE clean
    BY <2>4 DEF Free, Without
  <2> QED
    BY <2>1, <2>2, <2>3, <2>4 DEF Next, ReadBack, Work, Die, Look, AskAlive, AskGit, Tick
<1> QED
  BY <1>1, LeaseIsInductive, PTL DEF Spec, NoTakeoverOfDirtyTree

\* The host's leases behave as the specification of WriterLease says.
LEMMA LeaseOfHost == HostSpec => Spec
<1>1. HostInit => Init
  BY DEF HostInit
<1>2. [HostNext]_hostVars => [Next]_vars
  BY DEF HostNext, hostVars
<1> QED
  BY <1>1, <1>2, PTL DEF HostSpec, Spec

-----------------------------------------------------------------------------
(* RunnerJobs: the workers, when the server crashes *)

Moments == {"new", "accepted", "running", "grace", "dropped", "lost", "closed"}
Verdicts == {"SUCCEEDED", "FAILED", "TIMEOUT", "INTERRUPTED", "nothing", "error"}
RequestRow == [pc : Moments, id : Ids \cup {None}, proc : {"none", "alive", "zero", "nonzero"}, next : Nat,
               interrupted : BOOLEAN, truncated : BOOLEAN, client : BOOLEAN, told : Verdicts]

\* What may be in the table.
InHand == {"running", "grace", "dropped", "lost"}

\* A worker that is about to run, runs, or outlives its handler.
Busy(r) == r.pc \in {"accepted", "running", "grace", "dropped"} \/ r.proc = "alive"

\* What a worker's request may be while the lease and the progress are what they are: its caller has
\* not been answered, so the lease is still its own, and the process continues the recorded progress.
WorkerIsOwner(j, r) ==
  /\ Busy(r) => owner = j /\ r.told = "nothing"
  /\ r.proc = "alive" => r.next = progress
  /\ r.pc = "new" => r.told = "nothing"
  /\ r.pc \in {"new", "accepted"} => r.proc # "alive"

RecoveryInv ==
  focus = "recovery" =>
    /\ job \in [Jobs -> RequestRow] /\ progress \in Nat
    /\ stored \in [0..(Items - 1) -> Nat]
    /\ \A i \in 0..(Items - 1) : stored[i] <= IF i < progress THEN 1 ELSE 0
    /\ \A j \in Jobs : j \in Workers => WorkerIsOwner(j, job[j])

LEMMA RecoveryInitially == HostInit => RecoveryInv
<1> SUFFICES ASSUME HostInit, focus = "recovery" PROVE RecoveryInv
  BY DEF RecoveryInv
<1> DEFINE new == [pc |-> "new", id |-> None, proc |-> "none", next |-> 0, interrupted |-> FALSE,
                   truncated |-> FALSE, client |-> TRUE, told |-> "nothing"]
<1>1. job = [j \in Jobs |-> new] /\ progress = 0 /\ stored = [i \in 0..(Items - 1) |-> 0]
  BY DEF HostInit, Recovery!Init, Recovery!New
<1>2. new \in RequestRow
  BY DEF RequestRow, Moments, Verdicts
<1>3. new.pc = "new" /\ new.proc = "none" /\ new.told = "nothing"
  OBVIOUS
<1> HIDE DEF new
<1>4. \A j \in Jobs : WorkerIsOwner(j, job[j])
  BY <1>1, <1>3 DEF WorkerIsOwner, Busy, InHand
<1>5. stored \in [0..(Items - 1) -> Nat] /\ job \in [Jobs -> RequestRow]
  BY <1>1, <1>2
<1> QED
  BY <1>1, <1>4, <1>5 DEF RecoveryInv

\* The step of one request.
LEMMA RequestMoves ==
  ASSUME RecoveryInv, focus = "recovery", UNCHANGED <<focus, owner, progress, stored>>,
         NEW j \in Jobs, NEW k \in RequestRow, job' = [job EXCEPT ![j] = k],
         j \in Workers => WorkerIsOwner(j, k)
  PROVE  RecoveryInv'
<1>1. job' \in [Jobs -> RequestRow] /\ job'[j] = k /\ \A i \in Jobs : i # j => job'[i] = job[i]
  BY DEF RecoveryInv
<1>2. ASSUME NEW i \in Jobs, i \in Workers PROVE WorkerIsOwner(i, job[i])'
  BY <1>1, <1>2 DEF RecoveryInv, WorkerIsOwner
<1> QED
  BY <1>1, <1>2 DEF RecoveryInv

\* The outcome of a request closes it; its process may outlive it.
LEMMA ClosedIs ==
  ASSUME NEW r \in RequestRow, NEW said \in Verdicts
  PROVE  LET k == Recovery!Closed(r, said) IN
           /\ k \in RequestRow /\ k.pc = "closed" /\ k.proc = r.proc /\ k.next = r.next /\ k.told = said
           /\ ~k.truncated /\ k.client
<1>1. (r.interrupted /\ r.proc = "alive") \in BOOLEAN
  OBVIOUS
<1>2. PICK b \in BOOLEAN : b = (r.interrupted /\ r.proc = "alive")
  BY <1>1
<1>3. PICK k : k = [Recovery!New EXCEPT !.pc = "closed", !.proc = r.proc, !.next = r.next, !.interrupted = b, !.told = said]
  OBVIOUS
<1>4. k = Recovery!Closed(r, said)
  BY <1>2, <1>3 DEF Recovery!Closed
<1>5. /\ k \in RequestRow /\ k.pc = "closed" /\ k.proc = r.proc /\ k.next = r.next /\ k.told = said
      /\ ~k.truncated /\ k.client
  BY <1>2, <1>3 DEF RequestRow, Moments, Verdicts, Recovery!New
<1> QED
  BY <1>4, <1>5

LEMMA TerminatedIs ==
  ASSUME NEW r \in RequestRow
  PROVE  LET k == Recovery!Terminated(r) IN
           /\ k \in RequestRow /\ k.interrupted
           /\ k.pc = r.pc /\ k.id = r.id /\ k.proc = r.proc /\ k.next = r.next
           /\ k.truncated = r.truncated /\ k.client = r.client /\ k.told = r.told
BY DEF Recovery!Terminated, RequestRow

\* The steps by which the handler of a request, the client and the process move it on.
LEMMA HandlerSteps ==
  ASSUME RecoveryInv, focus = "recovery", UNCHANGED focus, NEW j \in Jobs,
         \/ \E id \in Ids : Recovery!Accept(j, id)
         \/ Recovery!Spawn(j) \/ Recovery!OutputLimit(j) \/ Recovery!Timeout(j)
         \/ Recovery!Disconnect(j) \/ Recovery!SendFails(j)
         \/ Recovery!TearDown(j) \/ \E code \in {"zero", "nonzero"} : Recovery!Exit(j, code)
  PROVE  RecoveryInv'
<1>1. job \in [Jobs -> RequestRow] /\ job[j] \in RequestRow /\ progress \in Nat /\ (j \in Workers => WorkerIsOwner(j, job[j]))
  BY DEF RecoveryInv
<1>2. UNCHANGED <<owner, progress, stored>>
  BY DEF Recovery!Accept, Recovery!Spawn, Recovery!OutputLimit, Recovery!Timeout, Recovery!Disconnect,
         Recovery!SendFails, Recovery!TearDown, Recovery!Exit, Recovery!core
<1>3. ASSUME NEW k \in RequestRow, job' = [job EXCEPT ![j] = k], j \in Workers => WorkerIsOwner(j, k)
      PROVE  RecoveryInv'
  BY <1>2, <1>3, RequestMoves
<1>4. ASSUME NEW id \in Ids, Recovery!Accept(j, id) PROVE RecoveryInv'
  <2>1. PICK k : k = [job[j] EXCEPT !.pc = "accepted", !.id = id]
    OBVIOUS
  <2>2. k \in RequestRow /\ k.pc = "accepted" /\ k.proc = job[j].proc /\ k.next = job[j].next /\ k.told = job[j].told
    BY <1>1, <2>1 DEF RequestRow, Moments
  <2>3. job' = [job EXCEPT ![j] = k] /\ job[j].pc = "new" /\ (j \in Workers => owner = j)
    BY <1>1, <1>4, <2>1 DEF Recovery!Accept
  <2> QED
    BY <1>1, <1>3, <2>2, <2>3 DEF WorkerIsOwner
<1>5. CASE Recovery!Spawn(j)
  <2>0. PICK point \in {"running", "lost"} :
          job' = [job EXCEPT ![j].pc = point, ![j].proc = "alive", ![j].next = progress]
    BY <1>5 DEF Recovery!Spawn
  <2>1. PICK k : k = [job[j] EXCEPT !.pc = point, !.proc = "alive", !.next = progress]
    OBVIOUS
  <2>2. k \in RequestRow /\ k.pc = point /\ k.proc = "alive" /\ k.next = progress /\ k.told = job[j].told
    BY <1>1, <2>1 DEF RequestRow, Moments
  <2>3. job' = [job EXCEPT ![j] = k] /\ job[j].pc = "accepted"
    BY <1>1, <1>5, <2>0, <2>1 DEF Recovery!Spawn
  <2> QED
    BY <1>1, <1>3, <2>2, <2>3 DEF WorkerIsOwner, Busy
<1>6. CASE Recovery!OutputLimit(j)
  <2>1. PICK t : t = Recovery!Terminated(job[j])
    OBVIOUS
  <2>2. PICK k : k = [t EXCEPT !.truncated = TRUE]
    OBVIOUS
  <2>3. t \in RequestRow /\ t.pc = job[j].pc /\ t.proc = job[j].proc /\ t.next = job[j].next /\ t.told = job[j].told
    BY <1>1, <2>1, TerminatedIs
  <2>4. k \in RequestRow /\ k.pc = job[j].pc /\ k.proc = job[j].proc /\ k.next = job[j].next /\ k.told = job[j].told
    BY <2>2, <2>3 DEF RequestRow
  <2>5. job' = [job EXCEPT ![j] = k]
    BY <1>6, <2>1, <2>2 DEF Recovery!OutputLimit
  <2> QED
    BY <1>1, <1>3, <2>4, <2>5 DEF WorkerIsOwner, Busy
<1>7. CASE Recovery!Timeout(j)
  <2>1. PICK t : t = Recovery!Terminated(job[j])
    OBVIOUS
  <2>2. PICK k : k = [t EXCEPT !.pc = "grace"]
    OBVIOUS
  <2>3. t \in RequestRow /\ t.proc = job[j].proc /\ t.next = job[j].next /\ t.told = job[j].told
    BY <1>1, <2>1, TerminatedIs
  <2>4. k \in RequestRow /\ k.pc = "grace" /\ k.proc = job[j].proc /\ k.next = job[j].next /\ k.told = job[j].told
    BY <2>2, <2>3 DEF RequestRow, Moments
  <2>5. job' = [job EXCEPT ![j] = k] /\ job[j].pc = "running"
    BY <1>7, <2>1, <2>2 DEF Recovery!Timeout
  <2> QED
    BY <1>1, <1>3, <2>4, <2>5 DEF WorkerIsOwner, Busy, InHand
<1>8. CASE Recovery!Disconnect(j)
  <2>1. PICK k : k = [job[j] EXCEPT !.client = FALSE]
    OBVIOUS
  <2>2. k \in RequestRow /\ k.pc = job[j].pc /\ k.proc = job[j].proc /\ k.next = job[j].next /\ k.told = job[j].told
    BY <1>1, <2>1 DEF RequestRow
  <2>3. job' = [job EXCEPT ![j] = k]
    BY <1>1, <1>8, <2>1 DEF Recovery!Disconnect
  <2> QED
    BY <1>1, <1>3, <2>2, <2>3 DEF WorkerIsOwner, Busy
<1>9. CASE Recovery!SendFails(j)
  <2>1. PICK k : k = [job[j] EXCEPT !.pc = "dropped"]
    OBVIOUS
  <2>2. k \in RequestRow /\ k.pc = "dropped" /\ k.proc = job[j].proc /\ k.next = job[j].next /\ k.told = job[j].told
    BY <1>1, <2>1 DEF RequestRow, Moments
  <2>3. job' = [job EXCEPT ![j] = k] /\ job[j].pc = "running"
    BY <1>1, <1>9, <2>1 DEF Recovery!SendFails
  <2> QED
    BY <1>1, <1>3, <2>2, <2>3 DEF WorkerIsOwner, Busy, InHand
<1>10. ASSUME NEW code \in {"zero", "nonzero"}, job' = [job EXCEPT ![j].proc = code, ![j].next = 0], job[j].proc = "alive"
       PROVE  RecoveryInv'
  <2>1. PICK k : k = [job[j] EXCEPT !.proc = code, !.next = 0]
    OBVIOUS
  <2>2. k \in RequestRow /\ k.pc = job[j].pc /\ k.proc = code /\ k.told = job[j].told
    BY <1>1, <2>1 DEF RequestRow
  <2>3. job' = [job EXCEPT ![j] = k]
    BY <1>1, <1>10, <2>1
  <2> QED
    BY <1>1, <1>3, <1>10, <2>2, <2>3 DEF WorkerIsOwner, Busy
<1> QED
  BY <1>4, <1>5, <1>6, <1>7, <1>8, <1>9, <1>10 DEF Recovery!TearDown, Recovery!Exit, Recovery!Alive

\* The steps that end a request: no worker outlives the answer to its caller.
LEMMA ClosingSteps ==
  ASSUME RecoveryInv, focus = "recovery", UNCHANGED focus, NEW j \in Jobs,
         Recovery!Refuse(j) \/ Recovery!Finish(j) \/ Recovery!Drop(j)
  PROVE  RecoveryInv'
<1>1. job \in [Jobs -> RequestRow] /\ job[j] \in RequestRow /\ (j \in Workers => WorkerIsOwner(j, job[j]))
  BY DEF RecoveryInv
<1>2. UNCHANGED <<owner, progress, stored>>
  BY DEF Recovery!Refuse, Recovery!Finish, Recovery!Drop, Recovery!core
<1>3. ASSUME NEW r \in RequestRow, NEW said \in Verdicts, job' = [job EXCEPT ![j] = Recovery!Closed(r, said)],
             r.proc = job[j].proc, r.next = job[j].next,
             j \in Workers /\ r.proc = "alive" => said = "nothing"
      PROVE  RecoveryInv'
  <2>1. PICK k : k = Recovery!Closed(r, said)
    OBVIOUS
  <2>2. k \in RequestRow /\ k.pc = "closed" /\ k.proc = r.proc /\ k.next = r.next /\ k.told = said
    BY <2>1, ClosedIs
  <2>3. j \in Workers => WorkerIsOwner(j, k)
    BY <1>1, <1>3, <2>2 DEF WorkerIsOwner, Busy, InHand
  <2> QED
    BY <1>2, <1>3, <2>1, <2>2, <2>3, RequestMoves
<1>4. CASE Recovery!Refuse(j)
  <2> DEFINE said == IF job[j].client THEN "error" ELSE "nothing"
  <2>1. job' = [job EXCEPT ![j] = Recovery!Closed(job[j], said)] /\ job[j].pc \in {"new", "accepted"}
    BY <1>4 DEF Recovery!Refuse
  <2>2. said \in Verdicts /\ (j \in Workers => job[j].proc # "alive")
    BY <1>1, <2>1 DEF WorkerIsOwner, Verdicts
  <2> QED
    BY <1>1, <1>3, <2>1, <2>2
<1>5. CASE Recovery!Finish(j)
  <2>1. PICK said : said = IF job[j].client THEN Recovery!Outcome(job[j]) ELSE "nothing"
    OBVIOUS
  <2>2. job' = [job EXCEPT ![j] = Recovery!Closed(job[j], said)]
    BY <1>5, <2>1 DEF Recovery!Finish
  <2>3. said \in Verdicts
    BY <2>1 DEF Recovery!Outcome, Verdicts
  <2>4. j \in Workers => job[j].proc # "alive"
    BY <1>5, HostAssumption DEF Recovery!Finish, Recovery!GivenUp, Recovery!Alive
  <2> QED
    BY <1>1, <1>3, <2>2, <2>3, <2>4
<1>6. CASE Recovery!Drop(j)
  <2>1. PICK t : t = Recovery!Terminated(job[j])
    OBVIOUS
  <2>2. t \in RequestRow /\ t.proc = job[j].proc /\ t.next = job[j].next
    BY <1>1, <2>1, TerminatedIs
  <2>3. job' = [job EXCEPT ![j] = Recovery!Closed(t, "nothing")] /\ "nothing" \in Verdicts
    BY <1>6, <2>1 DEF Recovery!Drop, Verdicts
  <2> QED
    BY <1>3, <2>2, <2>3
<1> QED
  BY <1>4, <1>5, <1>6

\* An interrupt reaches the job of the table, if there is one.
LEMMA InterruptKeeps ==
  ASSUME RecoveryInv, focus = "recovery", UNCHANGED focus, NEW id \in Ids, Recovery!Interrupt(id)
  PROVE  RecoveryInv'
<1>1. UNCHANGED <<owner, progress, stored>> /\ job' = [job EXCEPT ![table[id]] = Recovery!Terminated(job[table[id]])]
  BY DEF Recovery!Interrupt, Recovery!core
<1>2. job \in [Jobs -> RequestRow] /\ \A j \in Jobs : j \in Workers => WorkerIsOwner(j, job[j])
  BY DEF RecoveryInv
<1>3. CASE table[id] \in Jobs
  <2>1. PICK j \in Jobs : j = table[id]
    BY <1>3
  <2>2. PICK k : k = Recovery!Terminated(job[j])
    OBVIOUS
  <2>3. /\ k \in RequestRow /\ k.pc = job[j].pc /\ k.proc = job[j].proc /\ k.next = job[j].next
        /\ k.told = job[j].told
    BY <1>2, <2>2, TerminatedIs
  <2>4. j \in Workers => WorkerIsOwner(j, k)
    BY <1>2, <2>3 DEF WorkerIsOwner, Busy
  <2>5. job' = [job EXCEPT ![j] = k]
    BY <1>1, <2>1, <2>2
  <2> QED
    BY <1>1, <2>3, <2>4, <2>5, RequestMoves
<1>4. CASE table[id] \notin Jobs
  <2>1. job' = job
    BY <1>1, <1>2, <1>4
  <2> QED
    BY <1>1, <2>1 DEF RecoveryInv, WorkerIsOwner
<1> QED
  BY <1>3, <1>4

\* The server is gone: its workers go on under the lease they have.
LEMMA DownKeeps ==
  ASSUME RecoveryInv, focus = "recovery", UNCHANGED focus, Recovery!Crash \/ Recovery!Stop
  PROVE  RecoveryInv'
<1>1. job \in [Jobs -> RequestRow] /\ \A j \in Jobs : j \in Workers => WorkerIsOwner(j, job[j])
  BY DEF RecoveryInv
<1>2. PICK after \in [Jobs -> RequestRow] :
        /\ UNCHANGED <<owner, progress, stored>>
        /\ job' = [j \in Jobs |-> IF job[j].pc = "new" THEN job[j] ELSE Recovery!Closed(after[j], job[j].told)]
        /\ \A j \in Jobs : after[j].proc = job[j].proc /\ after[j].next = job[j].next
  <2>1. CASE Recovery!Crash
    BY <1>1, <2>1 DEF Recovery!Crash, Recovery!Down, Recovery!core
  <2>2. CASE Recovery!Stop
    <3>1. PICK a : a = [j \in Jobs |-> IF \E i \in Ids : table[i] = j THEN Recovery!Terminated(job[j]) ELSE job[j]]
      OBVIOUS
    <3>2. Recovery!Down(a)
      BY <2>2, <3>1 DEF Recovery!Stop
    <3>3. \A j \in Jobs : a[j] \in RequestRow /\ a[j].proc = job[j].proc /\ a[j].next = job[j].next
      BY <1>1, <3>1, TerminatedIs
    <3>4. a \in [Jobs -> RequestRow]
      BY <3>1, <3>3
    <3> QED
      BY <3>2, <3>3, <3>4 DEF Recovery!Down, Recovery!core
  <2> QED
    BY <2>1, <2>2
<1>3. ASSUME NEW j \in Jobs
      PROVE  job'[j] \in RequestRow /\ (j \in Workers => WorkerIsOwner(j, job[j])')
  <2>1. CASE job[j].pc = "new"
    BY <1>1, <1>2, <2>1 DEF WorkerIsOwner
  <2>2. CASE job[j].pc # "new"
    <3>1. job[j].told \in Verdicts /\ after[j] \in RequestRow
      BY <1>1 DEF RequestRow
    <3>2. PICK k : k = Recovery!Closed(after[j], job[j].told)
      OBVIOUS
    <3>3. k \in RequestRow /\ k.pc = "closed" /\ k.proc = job[j].proc /\ k.next = job[j].next /\ k.told = job[j].told
      BY <1>2, <3>1, <3>2, ClosedIs
    <3>4. job'[j] = k
      BY <1>2, <2>2, <3>2
    <3> QED
      BY <1>1, <1>2, <3>3, <3>4 DEF WorkerIsOwner, Busy, InHand
  <2> QED
    BY <2>1, <2>2
<1>4. job' \in [Jobs -> RequestRow]
  BY <1>2, <1>3
<1> QED
  BY <1>2, <1>3, <1>4 DEF RecoveryInv

\* A worker records the item after the recorded progress: no other worker lives.
LEMMA SaveKeeps ==
  ASSUME RecoveryInv, focus = "recovery", UNCHANGED focus, NEW j \in Jobs, Recovery!Save(j)
  PROVE  RecoveryInv'
<1>1. /\ job \in [Jobs -> RequestRow] /\ job[j] \in RequestRow /\ progress \in Nat
      /\ stored \in [0..(Items - 1) -> Nat]
      /\ \A i \in 0..(Items - 1) : stored[i] <= IF i < progress THEN 1 ELSE 0
  BY DEF RecoveryInv
<1>2. /\ j \in Workers /\ job[j].proc = "alive" /\ job[j].next < Items
      /\ progress' = job[j].next + 1 /\ UNCHANGED owner
      /\ stored' = [stored EXCEPT ![job[j].next] = stored[job[j].next] + 1]
      /\ job' = [job EXCEPT ![j].next = job[j].next + 1]
  BY DEF Recovery!Save, Recovery!Alive
<1>3. owner = j /\ job[j].next = progress /\ job[j].told = "nothing" /\ job[j].pc \notin {"new", "accepted"}
  BY <1>2 DEF RecoveryInv, WorkerIsOwner, Busy
<1>4. progress + 1 \in Nat /\ progress \in 0..(Items - 1)
  BY <1>1, <1>2, <1>3, HostAssumption
<1>5. stored[progress] = 0
  <2>1. stored[progress] \in Nat /\ stored[progress] <= 0
    BY <1>1, <1>4
  <2> QED
    BY <2>1
<1>6. /\ stored' \in [0..(Items - 1) -> Nat] /\ stored'[progress] = 1
      /\ \A i \in 0..(Items - 1) : i # progress => stored'[i] = stored[i]
  BY <1>1, <1>2, <1>3, <1>4, <1>5
<1>7. \A i \in 0..(Items - 1) : stored'[i] <= IF i < progress' THEN 1 ELSE 0
  <2> SUFFICES ASSUME NEW i \in 0..(Items - 1) PROVE stored'[i] <= IF i < progress + 1 THEN 1 ELSE 0
    BY <1>2, <1>3
  <2>1. CASE i = progress
    BY <1>4, <1>6, <2>1
  <2>2. CASE i # progress
    <3>1. i < progress + 1 <=> i < progress
      BY <1>1, <2>2
    <3> QED
      BY <1>1, <1>6, <2>2, <3>1
  <2> QED
    BY <2>1, <2>2
<1>8. PICK k : k = [job[j] EXCEPT !.next = job[j].next + 1]
  OBVIOUS
<1>9. k \in RequestRow /\ k.pc = job[j].pc /\ k.proc = "alive" /\ k.next = progress + 1 /\ k.told = job[j].told
  BY <1>1, <1>2, <1>3, <1>4, <1>8 DEF RequestRow
<1>10. job' = [job EXCEPT ![j] = k]
  BY <1>1, <1>2, <1>8
<1>11. job' \in [Jobs -> RequestRow] /\ job'[j] = k /\ \A i \in Jobs : i # j => job'[i] = job[i]
  BY <1>1, <1>9, <1>10
<1>12. ASSUME NEW i \in Jobs, i \in Workers PROVE WorkerIsOwner(i, job[i])'
  <2>1. CASE i = j
    BY <1>2, <1>3, <1>9, <1>11, <2>1 DEF WorkerIsOwner, Busy
  <2>2. CASE i # j
    BY <1>2, <1>3, <1>11, <1>12, <2>2 DEF RecoveryInv, WorkerIsOwner, Busy
  <2> QED
    BY <2>1, <2>2
<1>13. progress' \in Nat
  BY <1>2, <1>3, <1>4
<1> QED
  BY <1>6, <1>7, <1>11, <1>12, <1>13 DEF RecoveryInv

\* The lease goes to a new worker, and from one whose caller was answered or that is dead.
LEMMA LeaseMoves ==
  ASSUME RecoveryInv, focus = "recovery", UNCHANGED focus, NEW j \in Jobs,
         Recovery!Acquire(j) \/ Recovery!Release(j) \/ Recovery!Reconcile(j)
  PROVE  RecoveryInv'
<1>1. UNCHANGED <<job, progress, stored>>
  BY DEF Recovery!Acquire, Recovery!Release, Recovery!Reconcile
<1>2. ASSUME NEW i \in Jobs, i \in Workers, Busy(job[i]) PROVE owner' = i
  <2>1. owner = i /\ job[i].told = "nothing" /\ i # None
    BY <1>2, HostAssumption DEF RecoveryInv, WorkerIsOwner
  <2> QED
    BY <1>2, <2>1 DEF Recovery!Acquire, Recovery!Release, Recovery!Reconcile, Recovery!WriterDead, Recovery!Alive,
                      Busy, InHand
<1>3. ASSUME NEW i \in Jobs, i \in Workers PROVE WorkerIsOwner(i, job[i])'
  <2>1. WorkerIsOwner(i, job[i])
    BY <1>3 DEF RecoveryInv
  <2> QED
    BY <1>1, <1>2, <1>3, <2>1 DEF WorkerIsOwner, Busy
<1> QED
  BY <1>1, <1>3 DEF RecoveryInv

LEMMA RecoveryInductive == RecoveryInv /\ [HostNext]_hostVars => RecoveryInv'
<1> SUFFICES ASSUME RecoveryInv, focus = "recovery",
                    (Recovery!Next /\ UNCHANGED focus) \/ UNCHANGED <<jobVars, focus>>
             PROVE  RecoveryInv'
  BY DEF HostNext, hostVars, RecoveryInv
<1>1. CASE UNCHANGED <<jobVars, focus>>
  BY <1>1 DEF jobVars, RecoveryInv, WorkerIsOwner, Busy
<1>2. ASSUME UNCHANGED focus, NEW j \in Jobs, Recovery!JobStep(j) PROVE RecoveryInv'
  BY <1>2, HandlerSteps, ClosingSteps, SaveKeeps, LeaseMoves DEF Recovery!JobStep
<1>3. ASSUME UNCHANGED focus, Recovery!Restart PROVE RecoveryInv'
  BY <1>3 DEF Recovery!Restart, Recovery!core, RecoveryInv, WorkerIsOwner, Busy
<1>4. ASSUME UNCHANGED focus, NEW id \in Ids, Recovery!Interrupt(id) PROVE RecoveryInv'
  BY <1>4, InterruptKeeps
<1>5. ASSUME UNCHANGED focus, Recovery!Crash \/ Recovery!Stop PROVE RecoveryInv'
  BY <1>5, DownKeeps
<1> QED
  BY <1>1, <1>2, <1>3, <1>4, <1>5 DEF Recovery!Next

(* No item of work is recorded twice, through crashes of the server, workers that outlive it,       *)
(* reconciliation of their lease and runs that continue their progress (recovery_demo.py).          *)
THEOREM ItemsAreDoneOnce == HostSpec => []EachItemOnce
<1>1. RecoveryInv => EachItemOnce
  <2> SUFFICES ASSUME RecoveryInv, focus = "recovery", NEW i \in 0..(Items - 1) PROVE stored[i] <= 1
    BY DEF EachItemOnce, Recovery!EachItemOnce, RecoveryInv
  <2>1. stored[i] \in Nat /\ stored[i] <= IF i < progress THEN 1 ELSE 0
    BY DEF RecoveryInv
  <2> QED
    BY <2>1
<1> QED
  BY <1>1, RecoveryInitially, RecoveryInductive, PTL DEF HostSpec
-----------------------------------------------------------------------------
(* RunnerJobs: the answers, when clients interrupt *)

\* What a request may be: only the end of it is told, and one whose interrupt was acknowledged is
\* marked as interrupted until it ends, and does not end as a success.
AnswerStands(j, r) ==
  /\ r.pc # "closed" => r.told = "nothing"
  /\ j \in acked => r.told # "SUCCEEDED" /\ r.pc \in InHand \cup {"closed"} /\ (r.pc \in InHand => r.interrupted)

ServiceInv ==
  focus = "service" =>
    /\ job \in [ServiceJobs -> RequestRow] /\ progress \in Nat
    /\ table \in [Ids -> ServiceJobs \cup {None}]
    /\ \A i \in Ids : table[i] # None => job[table[i]].pc \in InHand /\ job[table[i]].id = i
    /\ acked \subseteq ServiceJobs
    /\ \A j \in ServiceJobs : AnswerStands(j, job[j])

LEMMA ServiceInitially == HostInit => ServiceInv
<1> SUFFICES ASSUME HostInit, focus = "service" PROVE ServiceInv
  BY DEF ServiceInv
<1> DEFINE new == [pc |-> "new", id |-> None, proc |-> "none", next |-> 0, interrupted |-> FALSE,
                   truncated |-> FALSE, client |-> TRUE, told |-> "nothing"]
<1>1. job = [j \in ServiceJobs |-> new] /\ table = [i \in Ids |-> None] /\ acked = {} /\ progress = 0
  BY DEF HostInit, Service!Init, Service!New
<1>2. new \in RequestRow /\ new.told = "nothing"
  BY DEF RequestRow, Moments, Verdicts
<1> HIDE DEF new
<1> QED
  BY <1>1, <1>2 DEF ServiceInv, AnswerStands

\* The step of one request, with what it does to the table.
LEMMA ServiceMoves ==
  ASSUME ServiceInv, focus = "service", UNCHANGED focus,
         NEW j \in ServiceJobs, NEW k \in RequestRow, job' = [job EXCEPT ![j] = k],
         table' \in [Ids -> ServiceJobs \cup {None}],
         \A i \in Ids : table'[i] \notin {None, j} => table'[i] = table[i],
         \A i \in Ids : table'[i] = j => k.pc \in InHand /\ k.id = i,
         acked' = acked \/ acked' = acked \cup {j}, AnswerStands(j, k)', progress' \in Nat
  PROVE  ServiceInv'
<1>1. job' \in [ServiceJobs -> RequestRow] /\ job'[j] = k /\ \A i \in ServiceJobs : i # j => job'[i] = job[i]
  BY DEF ServiceInv
<1>2. ASSUME NEW i \in ServiceJobs PROVE AnswerStands(i, job[i])'
  <2>1. CASE i = j
    BY <1>1, <2>1 DEF AnswerStands
  <2>2. CASE i # j
    BY <1>1, <2>2 DEF ServiceInv, AnswerStands
  <2> QED
    BY <2>1, <2>2
<1>3. ASSUME NEW i \in Ids, table'[i] # None PROVE job'[table'[i]].pc \in InHand /\ job'[table'[i]].id = i
  <2>1. CASE table'[i] = j
    BY <1>1, <2>1
  <2>2. CASE table'[i] # j
    BY <1>1, <1>3, <2>2 DEF ServiceInv
  <2> QED
    BY <2>1, <2>2
<1>4. acked' \subseteq ServiceJobs
  BY DEF ServiceInv
<1> QED
  BY <1>1, <1>2, <1>3, <1>4 DEF ServiceInv

LEMMA ServiceClosedIs ==
  ASSUME NEW r \in RequestRow, NEW said \in Verdicts
  PROVE  Service!Closed(r, said) \in RequestRow /\ Service!Closed(r, said).pc = "closed"
         /\ Service!Closed(r, said).told = said
<1>1. Service!Closed(r, said) = Recovery!Closed(r, said)
  BY DEF Service!Closed, Recovery!Closed, Service!New, Recovery!New
<1> QED
  BY <1>1, ClosedIs

LEMMA ServiceTerminatedIs ==
  ASSUME NEW r \in RequestRow
  PROVE  LET k == Service!Terminated(r) IN
           k \in RequestRow /\ k.interrupted /\ k.pc = r.pc /\ k.id = r.id /\ k.told = r.told
BY DEF Service!Terminated, RequestRow

\* A request that goes on: it stays in the table as it is, or enters it when its process starts.
LEMMA ServiceHandlers ==
  ASSUME ServiceInv, focus = "service", UNCHANGED focus, NEW j \in ServiceJobs,
         \/ \E id \in Ids : Service!Accept(j, id)
         \/ Service!Spawn(j) \/ Service!OutputLimit(j) \/ Service!Timeout(j)
         \/ Service!Disconnect(j) \/ Service!SendFails(j)
         \/ Service!TearDown(j) \/ Service!Save(j)
         \/ \E code \in {"zero", "nonzero"} : Service!Exit(j, code)
  PROVE  ServiceInv'
<1>1. /\ job \in [ServiceJobs -> RequestRow] /\ job[j] \in RequestRow /\ AnswerStands(j, job[j])
      /\ table \in [Ids -> ServiceJobs \cup {None}]
      /\ \A i \in Ids : table[i] = j => job[j].pc \in InHand /\ job[j].id = i
  BY HostAssumption DEF ServiceInv
<1>2. UNCHANGED acked /\ progress \in Nat /\ progress' \in Nat
  BY <1>1 DEF ServiceInv, RequestRow, Service!Accept, Service!Spawn, Service!OutputLimit, Service!Timeout, Service!Disconnect,
         Service!SendFails, Service!TearDown, Service!Save, Service!Exit, Service!core
<1>3. ASSUME NEW k \in RequestRow, job' = [job EXCEPT ![j] = k], UNCHANGED table,
             k.told = job[j].told, job[j].interrupted => k.interrupted,
             \/ k.pc = job[j].pc /\ k.id = job[j].id
             \/ job[j].pc = "running" /\ k.pc \in InHand /\ k.id = job[j].id
             \/ job[j].pc = "new" /\ k.pc = "accepted"
      PROVE  ServiceInv'
  <2>1. AnswerStands(j, k)'
    BY <1>1, <1>2, <1>3 DEF AnswerStands, InHand
  <2>2. \A i \in Ids : table'[i] = j => k.pc \in InHand /\ k.id = i
    BY <1>1, <1>3 DEF InHand
  <2> QED
    BY <1>1, <1>2, <1>3, <2>1, <2>2, ServiceMoves
<1>4. ASSUME NEW id \in Ids, Service!Accept(j, id) PROVE ServiceInv'
  <2>1. PICK k : k = [job[j] EXCEPT !.pc = "accepted", !.id = id]
    OBVIOUS
  <2>2. k \in RequestRow /\ k.pc = "accepted" /\ k.told = job[j].told /\ k.interrupted = job[j].interrupted
    BY <1>1, <2>1 DEF RequestRow, Moments
  <2>3. job' = [job EXCEPT ![j] = k] /\ job[j].pc = "new" /\ UNCHANGED table
    BY <1>1, <1>4, <2>1 DEF Service!Accept
  <2> QED
    BY <1>3, <2>2, <2>3
<1>5. CASE Service!Spawn(j)
  <2>0. PICK point \in {"running", "lost"} :
          job' = [job EXCEPT ![j].pc = point, ![j].proc = "alive", ![j].next = progress]
    BY <1>5 DEF Service!Spawn
  <2>1. PICK k : k = [job[j] EXCEPT !.pc = point, !.proc = "alive", !.next = progress]
    OBVIOUS
  <2>2. job' = [job EXCEPT ![j] = k] /\ job[j].pc = "accepted" /\ table' = [table EXCEPT ![job[j].id] = j]
    BY <1>1, <1>5, <2>0, <2>1 DEF Service!Spawn
  <2>3. k \in RequestRow /\ k.pc \in {"running", "lost"} /\ k.id = job[j].id /\ k.told = job[j].told
    BY <1>1, <1>2, <2>1 DEF RequestRow, Moments
  <2>4. AnswerStands(j, k)'
    BY <1>1, <1>2, <2>2, <2>3 DEF AnswerStands, InHand
  <2>5. \A i \in Ids : table[i] # j
    BY <1>1, <2>2 DEF InHand
  <2>6. table' \in [Ids -> ServiceJobs \cup {None}] /\ \A i \in Ids : table'[i] = IF i = job[j].id THEN j ELSE table[i]
    BY <1>1, <2>2
  <2>7. \A i \in Ids : table'[i] = j => k.pc \in InHand /\ k.id = i
    BY <2>3, <2>5, <2>6 DEF InHand
  <2> QED
    BY <1>2, <2>2, <2>3, <2>4, <2>6, <2>7, ServiceMoves
<1>6. CASE Service!OutputLimit(j)
  <2>1. PICK t : t = Service!Terminated(job[j])
    OBVIOUS
  <2>2. PICK k : k = [t EXCEPT !.truncated = TRUE]
    OBVIOUS
  <2>3. t \in RequestRow /\ t.pc = job[j].pc /\ t.id = job[j].id /\ t.told = job[j].told /\ t.interrupted
    BY <1>1, <2>1, ServiceTerminatedIs
  <2>4. k \in RequestRow /\ k.pc = job[j].pc /\ k.id = job[j].id /\ k.told = job[j].told /\ k.interrupted
    BY <2>2, <2>3 DEF RequestRow
  <2>5. job' = [job EXCEPT ![j] = k] /\ UNCHANGED table
    BY <1>6, <2>1, <2>2 DEF Service!OutputLimit
  <2> QED
    BY <1>3, <2>4, <2>5
<1>7. CASE Service!Timeout(j)
  <2>1. PICK t : t = Service!Terminated(job[j])
    OBVIOUS
  <2>2. PICK k : k = [t EXCEPT !.pc = "grace"]
    OBVIOUS
  <2>3. t \in RequestRow /\ t.id = job[j].id /\ t.told = job[j].told /\ t.interrupted
    BY <1>1, <2>1, ServiceTerminatedIs
  <2>4. k \in RequestRow /\ k.pc = "grace" /\ k.id = job[j].id /\ k.told = job[j].told /\ k.interrupted
    BY <2>2, <2>3 DEF RequestRow, Moments
  <2>5. job' = [job EXCEPT ![j] = k] /\ job[j].pc = "running" /\ UNCHANGED table
    BY <1>7, <2>1, <2>2 DEF Service!Timeout
  <2> QED
    BY <1>3, <2>4, <2>5 DEF InHand
<1>8. CASE Service!Disconnect(j)
  <2>1. PICK k : k = [job[j] EXCEPT !.client = FALSE]
    OBVIOUS
  <2>2. /\ k \in RequestRow /\ k.pc = job[j].pc /\ k.id = job[j].id /\ k.told = job[j].told
        /\ k.interrupted = job[j].interrupted
    BY <1>1, <2>1 DEF RequestRow
  <2>3. job' = [job EXCEPT ![j] = k] /\ UNCHANGED table
    BY <1>1, <1>8, <2>1 DEF Service!Disconnect
  <2> QED
    BY <1>3, <2>2, <2>3
<1>9. CASE Service!SendFails(j)
  <2>1. PICK k : k = [job[j] EXCEPT !.pc = "dropped"]
    OBVIOUS
  <2>2. /\ k \in RequestRow /\ k.pc = "dropped" /\ k.id = job[j].id /\ k.told = job[j].told
        /\ k.interrupted = job[j].interrupted
    BY <1>1, <2>1 DEF RequestRow, Moments
  <2>3. job' = [job EXCEPT ![j] = k] /\ job[j].pc = "running" /\ UNCHANGED table
    BY <1>1, <1>9, <2>1 DEF Service!SendFails
  <2> QED
    BY <1>3, <2>2, <2>3 DEF InHand
<1>10. ASSUME NEW code \in {"zero", "nonzero"}, job' = [job EXCEPT ![j].proc = code, ![j].next = 0], UNCHANGED table
       PROVE  ServiceInv'
  <2>1. PICK k : k = [job[j] EXCEPT !.proc = code, !.next = 0]
    OBVIOUS
  <2>2. /\ k \in RequestRow /\ k.pc = job[j].pc /\ k.id = job[j].id /\ k.told = job[j].told
        /\ k.interrupted = job[j].interrupted
    BY <1>1, <2>1 DEF RequestRow
  <2>3. job' = [job EXCEPT ![j] = k]
    BY <1>1, <1>10, <2>1
  <2> QED
    BY <1>3, <1>10, <2>2, <2>3
<1>11. CASE Service!Save(j)
  <2>1. PICK k : k = [job[j] EXCEPT !.next = job[j].next + 1]
    OBVIOUS
  <2>2. job[j].next + 1 \in Nat
    BY <1>1 DEF RequestRow
  <2>3. /\ k \in RequestRow /\ k.pc = job[j].pc /\ k.id = job[j].id /\ k.told = job[j].told
        /\ k.interrupted = job[j].interrupted
    BY <1>1, <2>1, <2>2 DEF RequestRow
  <2>4. job' = [job EXCEPT ![j] = k] /\ UNCHANGED table
    BY <1>1, <1>11, <2>1 DEF Service!Save
  <2> QED
    BY <1>3, <2>3, <2>4
<1> QED
  BY <1>4, <1>5, <1>6, <1>7, <1>8, <1>9, <1>10, <1>11 DEF Service!TearDown, Service!Exit

\* A request that ends leaves the table: what was marked as interrupted is not told as a success.
LEMMA ServiceCloses ==
  ASSUME ServiceInv, focus = "service", UNCHANGED focus, NEW j \in ServiceJobs,
         Service!Refuse(j) \/ Service!Finish(j) \/ Service!Drop(j)
  PROVE  ServiceInv'
<1>1. /\ job \in [ServiceJobs -> RequestRow] /\ job[j] \in RequestRow /\ AnswerStands(j, job[j])
      /\ table \in [Ids -> ServiceJobs \cup {None}]
      /\ \A i \in Ids : table[i] = j => job[j].pc \in InHand /\ job[j].id = i
  BY HostAssumption DEF ServiceInv
<1>2. UNCHANGED acked /\ progress' \in Nat
  BY DEF ServiceInv, Service!Refuse, Service!Finish, Service!Drop, Service!core
<1>3. ASSUME NEW r \in RequestRow, NEW said \in Verdicts, job' = [job EXCEPT ![j] = Service!Closed(r, said)],
             j \in acked => said # "SUCCEEDED",
             \/ job[j].pc \in {"new", "accepted"} /\ UNCHANGED table
             \/ table' = [table EXCEPT ![job[j].id] = None]
      PROVE  ServiceInv'
  <2>1. PICK k : k = Service!Closed(r, said)
    OBVIOUS
  <2>2. k \in RequestRow /\ k.pc = "closed" /\ k.told = said
    BY <2>1, ServiceClosedIs
  <2>3. AnswerStands(j, k)'
    BY <1>2, <1>3, <2>2 DEF AnswerStands, InHand
  <2>4. table' \in [Ids -> ServiceJobs \cup {None}] /\ \A i \in Ids : table'[i] # j /\ (table'[i] # None => table'[i] = table[i])
    BY <1>1, <1>3, HostAssumption DEF InHand
  <2> QED
    BY <1>2, <1>3, <2>1, <2>2, <2>3, <2>4, ServiceMoves
<1>4. CASE Service!Refuse(j)
  <2> DEFINE said == IF job[j].client THEN "error" ELSE "nothing"
  <2>1. /\ job' = [job EXCEPT ![j] = Service!Closed(job[j], said)] /\ job[j].pc \in {"new", "accepted"}
        /\ UNCHANGED table /\ said \in Verdicts /\ said # "SUCCEEDED"
    BY <1>4 DEF Service!Refuse, Verdicts
  <2> QED
    BY <1>1, <1>3, <2>1
<1>5. CASE Service!Finish(j)
  <2>1. PICK said : said = IF job[j].client THEN Service!Outcome(job[j]) ELSE "nothing"
    OBVIOUS
  <2>2. /\ job' = [job EXCEPT ![j] = Service!Closed(job[j], said)] /\ job[j].pc \in InHand
        /\ table' = [table EXCEPT ![job[j].id] = None]
    BY <1>5, <2>1 DEF Service!Finish, Service!Forgotten, InHand
  <2>3. said \in Verdicts /\ (job[j].interrupted => said # "SUCCEEDED")
    BY <2>1 DEF Service!Outcome, Verdicts
  <2> QED
    BY <1>1, <1>3, <2>2, <2>3 DEF AnswerStands
<1>6. CASE Service!Drop(j)
  <2>1. PICK t : t = Service!Terminated(job[j])
    OBVIOUS
  <2>2. t \in RequestRow
    BY <1>1, <2>1, ServiceTerminatedIs
  <2>3. /\ job' = [job EXCEPT ![j] = Service!Closed(t, "nothing")] /\ "nothing" \in Verdicts
        /\ table' = [table EXCEPT ![job[j].id] = None]
    BY <1>6, <2>1 DEF Service!Drop, Service!Forgotten, Verdicts
  <2> QED
    BY <1>3, <2>2, <2>3
<1> QED
  BY <1>4, <1>5, <1>6

\* An interrupt is acknowledged for a request that is still in hand, and marks it.
LEMMA ServiceInterrupts ==
  ASSUME ServiceInv, focus = "service", UNCHANGED focus, NEW id \in Ids, Service!Interrupt(id)
  PROVE  ServiceInv'
<1>1. PICK j : j = table[id]
  OBVIOUS
<1>2. /\ j \in ServiceJobs /\ job[j].pc \in InHand /\ job \in [ServiceJobs -> RequestRow]
      /\ table \in [Ids -> ServiceJobs \cup {None}]
      /\ \A i \in Ids : table[i] = j => job[j].id = i
  BY <1>1, HostAssumption DEF Service!Interrupt, ServiceInv
<1>3. job[j] \in RequestRow /\ job[j].told = "nothing"
  BY <1>2 DEF ServiceInv, AnswerStands, InHand
<1>4. PICK k : k = Service!Terminated(job[j])
  OBVIOUS
<1>5. k \in RequestRow /\ k.interrupted /\ k.pc = job[j].pc /\ k.id = job[j].id /\ k.told = job[j].told
  BY <1>3, <1>4, ServiceTerminatedIs
<1>6. job' = [job EXCEPT ![j] = k] /\ acked' = acked \cup {j} /\ UNCHANGED table /\ progress' \in Nat
  BY <1>1, <1>4 DEF ServiceInv, Service!Interrupt, Service!core
<1>7. AnswerStands(j, k)'
  BY <1>2, <1>3, <1>5 DEF AnswerStands, InHand
<1> QED
  BY <1>2, <1>5, <1>6, <1>7, ServiceMoves

\* The server is gone: the requests in hand are closed without an answer.
LEMMA ServiceEnds ==
  ASSUME ServiceInv, focus = "service", UNCHANGED focus, Service!Crash \/ Service!Stop
  PROVE  ServiceInv'
<1>1. job \in [ServiceJobs -> RequestRow] /\ \A j \in ServiceJobs : AnswerStands(j, job[j])
  BY DEF ServiceInv
<1>2. PICK after \in [ServiceJobs -> RequestRow] :
        /\ acked' = acked /\ progress' \in Nat /\ table' = [i \in Ids |-> None]
        /\ job' = [j \in ServiceJobs |-> IF job[j].pc = "new" THEN job[j] ELSE Service!Closed(after[j], job[j].told)]
  <2>1. CASE Service!Crash
    BY <1>1, <2>1 DEF ServiceInv, Service!Crash, Service!Down, Service!core
  <2>2. CASE Service!Stop
    <3>1. PICK a : a = [j \in ServiceJobs |-> IF \E i \in Ids : table[i] = j THEN Service!Terminated(job[j]) ELSE job[j]]
      OBVIOUS
    <3>2. Service!Down(a)
      BY <2>2, <3>1 DEF Service!Stop
    <3>3. \A j \in ServiceJobs : a[j] \in RequestRow
      BY <1>1, <3>1, ServiceTerminatedIs
    <3>4. a \in [ServiceJobs -> RequestRow]
      BY <3>1, <3>3
    <3> QED
      BY <3>2, <3>4 DEF ServiceInv, Service!Down, Service!core
  <2> QED
    BY <2>1, <2>2
<1>3. ASSUME NEW j \in ServiceJobs PROVE job'[j] \in RequestRow /\ AnswerStands(j, job[j])'
  <2>1. CASE job[j].pc = "new"
    BY <1>1, <1>2, <2>1 DEF AnswerStands
  <2>2. CASE job[j].pc # "new"
    <3>1. job[j].told \in Verdicts /\ after[j] \in RequestRow
      BY <1>1 DEF RequestRow
    <3>2. PICK k : k = Service!Closed(after[j], job[j].told)
      OBVIOUS
    <3>3. k \in RequestRow /\ k.pc = "closed" /\ k.told = job[j].told
      BY <3>1, <3>2, ServiceClosedIs
    <3>4. job'[j] = k
      BY <1>2, <2>2, <3>2
    <3> QED
      BY <1>1, <1>2, <3>3, <3>4 DEF AnswerStands, InHand
  <2> QED
    BY <2>1, <2>2
<1>4. job' \in [ServiceJobs -> RequestRow]
  BY <1>2, <1>3
<1> QED
  BY <1>2, <1>3, <1>4 DEF ServiceInv

LEMMA ServiceInductive == ServiceInv /\ [HostNext]_hostVars => ServiceInv'
<1> SUFFICES ASSUME ServiceInv, focus = "service",
                    (Service!Next /\ UNCHANGED focus) \/ UNCHANGED <<jobVars, focus>>
             PROVE  ServiceInv'
  BY DEF HostNext, hostVars, ServiceInv
<1>1. ASSUME UNCHANGED <<job, table, acked, progress, focus>> PROVE ServiceInv'
  BY <1>1 DEF ServiceInv, AnswerStands
<1>2. ASSUME UNCHANGED focus, NEW j \in ServiceJobs, Service!JobStep(j) PROVE ServiceInv'
  <2>1. ASSUME Service!Acquire(j) \/ Service!Release(j) \/ Service!Reconcile(j) PROVE ServiceInv'
    BY <1>1, <1>2, <2>1 DEF Service!Acquire, Service!Release, Service!Reconcile
  <2> QED
    BY <1>2, <2>1, ServiceHandlers, ServiceCloses DEF Service!JobStep
<1>3. ASSUME UNCHANGED focus, Service!Restart PROVE ServiceInv'
  BY <1>1, <1>3 DEF Service!Restart, Service!core
<1>4. ASSUME UNCHANGED focus, NEW id \in Ids, Service!Interrupt(id) PROVE ServiceInv'
  BY <1>4, ServiceInterrupts
<1>5. ASSUME UNCHANGED focus, Service!Crash \/ Service!Stop PROVE ServiceInv'
  BY <1>5, ServiceEnds
<1> QED
  BY <1>1, <1>2, <1>3, <1>4, <1>5 DEF Service!Next, jobVars

(* A request whose interrupt was acknowledged is never answered as a success, whatever the order of  *)
(* the exit of its process, its output, its deadline and a crash of the server (server.py).          *)
THEOREM AcknowledgedInterruptHolds == HostSpec => []InterruptHolds
<1>1. ServiceInv => InterruptHolds
  BY DEF ServiceInv, AnswerStands, InterruptHolds, Service!InterruptHolds
<1> QED
  BY <1>1, ServiceInitially, ServiceInductive, PTL DEF HostSpec

-----------------------------------------------------------------------------
(* Pipeline: the items of a job, and the two leases *)

Stations == {"start", "plan", "route", "tree", "profile", "work", "review", "returned", "raised"}
Endings == {"QUEUED", "PREPARING", "RUNNING", "COLLECTING", "SUCCEEDED", "FAILED", "AUTH_REQUIRED", "OWNER_REQUIRED"}
ItemRow == [who : Builders \cup {None}, item : Nat]
JobRow == [attempt : Nat, switches : Nat, recoveries : Nat, from : Nat, done : Seq(ItemRow), resume : BOOLEAN]
LineRow == [pc : Stations, state : Endings, fixes : Nat, profile : Builders \cup {None}, job : JobRow]

\* The continuation starts after the last item done, and the items done are the first ones, each once.
ItemsAre(done, n) == done \in Seq(ItemRow) /\ Len(done) = n /\ \A i \in 1..n : done[i].item = i
JobIsExact(j) == j.from <= Size /\ ItemsAre(j.done, j.from)

PipeTypes ==
  /\ line \in [Lines -> LineRow]
  /\ eligible \subseteq Builders
  /\ DOMAIN profiles = Builders

JobsAreExact == \A l \in Lines : JobIsExact(line[l].job)

\* A lease names the pipeline that works under it, or one that raised: never one that returned.
LeasesAreHeld ==
  /\ \A l \in Lines : \A t \in DOMAIN trees :
       trees[t] = l => t = WorktreeOf[l] /\ line[l].pc \in {"profile", "work", "raised"}
  /\ \A l \in Lines : \A p \in Builders :
       profiles[p] = l => p = line[l].profile /\ line[l].pc = "work"

LinesInv == PipeTypes /\ JobsAreExact /\ LeasesAreHeld
PipeInv == LinesInv /\ EachItemByOne

LEMMA PipeInitially == HostInit => PipeInv
<1> SUFFICES ASSUME HostInit PROVE PipeInv
  OBVIOUS
<1> DEFINE fresh == [attempt |-> 0, switches |-> 0, recoveries |-> 0, from |-> 0, done |-> <<>>, resume |-> FALSE]
<1> DEFINE first == [pc |-> "start", state |-> "QUEUED", fixes |-> 0, profile |-> None, job |-> fresh]
<1>1. /\ line = [l \in Lines |-> first] /\ eligible \subseteq Builders
      /\ trees = [t \in {WorktreeOf[l] : l \in Lines} |-> None]
      /\ profiles = [p \in Builders |-> None]
      /\ artifact = [t \in {WorktreeOf[l] : l \in Lines} |-> Pipe!NoArtifact]
  BY DEF HostInit, Pipe!Init, Pipe!NewLine, Pipe!Fresh
<1>2. <<>> \in Seq(ItemRow) /\ Len(<<>>) = 0
  BY EmptySeq
<1>3. fresh \in JobRow
  BY <1>2 DEF JobRow
<1>4. JobIsExact(fresh)
  BY <1>2, HostAssumption DEF JobIsExact, ItemsAre
<1>5. first \in LineRow
  BY <1>3 DEF LineRow, Stations, Endings
<1>6. first.job = fresh
  OBVIOUS
<1> HIDE DEF first, fresh
<1>7. PipeTypes /\ JobsAreExact
  BY <1>1, <1>4, <1>5, <1>6 DEF PipeTypes, JobsAreExact
<1>8. LeasesAreHeld
  BY <1>1, HostAssumption DEF LeasesAreHeld
<1>9. EachItemByOne
  BY <1>1 DEF EachItemByOne, Pipe!EachItemByOne
<1> QED
  BY <1>7, <1>8, <1>9 DEF PipeInv, LinesInv

\* What it takes for the step of one pipeline to keep the invariant.
LEMMA LineMoves ==
  ASSUME LinesInv, NEW l \in Lines, NEW k \in LineRow, line' = [line EXCEPT ![l] = k], UNCHANGED eligible,
         JobIsExact(k.job),
         DOMAIN trees' = DOMAIN trees, DOMAIN profiles' = DOMAIN profiles,
         \A t \in DOMAIN trees : trees'[t] = trees[t] \/ trees'[t] \in {l, None},
         \A p \in Builders : profiles'[p] = profiles[p] \/ profiles'[p] \in {l, None},
         \A t \in DOMAIN trees : trees'[t] = l => t = WorktreeOf[l] /\ k.pc \in {"profile", "work", "raised"},
         \A p \in Builders : profiles'[p] = l => p = k.profile /\ k.pc = "work"
  PROVE  LinesInv'
<1>1. line' \in [Lines -> LineRow] /\ line'[l] = k /\ \A m \in Lines : m # l => line'[m] = line[m]
  BY DEF LinesInv, PipeTypes
<1>2. PipeTypes'
  BY <1>1 DEF LinesInv, PipeTypes
<1>3. JobsAreExact'
  BY <1>1 DEF LinesInv, JobsAreExact, JobIsExact, ItemsAre
<1>4. ASSUME NEW m \in Lines, NEW t \in DOMAIN trees, trees'[t] = m
      PROVE  t = WorktreeOf[m] /\ line'[m].pc \in {"profile", "work", "raised"}
  BY <1>1, <1>4, HostAssumption DEF LinesInv, LeasesAreHeld
<1>5. ASSUME NEW m \in Lines, NEW p \in Builders, profiles'[p] = m
      PROVE  p = line'[m].profile /\ line'[m].pc = "work"
  BY <1>1, <1>5, HostAssumption DEF LinesInv, LeasesAreHeld
<1>6. LeasesAreHeld'
  BY <1>4, <1>5 DEF LeasesAreHeld
<1> QED
  BY <1>2, <1>3, <1>6 DEF LinesInv

\* What the adapter records goes on where the job was told to start.
LEMMA DidIsExact ==
  ASSUME LinesInv, NEW l \in Lines, NEW k \in Nat
  PROVE  ItemsAre(Pipe!Did(l, k), line[l].job.from + k)
<1> DEFINE d == line[l].job.done
           n == line[l].job.from
           more == [i \in 1..k |-> [who |-> line[l].profile, item |-> n + i]]
<1>1. line[l] \in LineRow /\ line[l].job \in JobRow
  BY DEF LinesInv, PipeTypes, LineRow
<1>2. n \in Nat /\ d \in Seq(ItemRow) /\ Len(d) = n /\ \A i \in 1..n : d[i].item = i
  BY <1>1 DEF LinesInv, JobsAreExact, JobIsExact, ItemsAre, JobRow
<1>3. more \in Seq(ItemRow) /\ Len(more) = k /\ \A i \in 1..k : more[i].item = n + i
  <2>1. \A i \in 1..k : [who |-> line[l].profile, item |-> n + i] \in ItemRow
    <3>1. line[l].profile \in Builders \cup {None}
      BY <1>1 DEF LineRow
    <3>2. \A i \in 1..k : n + i \in Nat
      BY <1>2
    <3> QED
      BY <3>1, <3>2 DEF ItemRow
  <2>2. more \in [1..k -> ItemRow]
    BY <2>1
  <2>3. more \in Seq(ItemRow)
    BY <2>2, IsASeq
  <2>4. Len(more) = k
    BY <2>2, <2>3, LenProperties
  <2> QED
    BY <2>3, <2>4
<1>4. Pipe!Did(l, k) = d \o more
  BY DEF Pipe!Did
<1> HIDE DEF d, n, more
<1>5. /\ d \o more \in Seq(ItemRow) /\ Len(d \o more) = n + k
      /\ \A i \in 1..(n + k) : (d \o more)[i] = IF i <= n THEN d[i] ELSE more[i - n]
  BY <1>2, <1>3, ConcatProperties
<1>6. \A i \in 1..(n + k) : (d \o more)[i].item = i
  <2> SUFFICES ASSUME NEW i \in 1..(n + k) PROVE (d \o more)[i].item = i
    OBVIOUS
  <2>1. CASE i <= n
    BY <1>2, <1>5, <2>1
  <2>2. CASE i > n
    <3>1. i - n \in 1..k /\ n + (i - n) = i
      BY <1>2, <2>2
    <3> QED
      BY <1>2, <1>3, <1>5, <2>2, <3>1
  <2>3. n \in Nat /\ i \in Int
    BY <1>2
  <2>4. i <= n \/ i > n
    BY <2>3
  <2> QED
    BY <2>1, <2>2, <2>4
<1>7. ItemsAre(d \o more, n + k)
  BY <1>5, <1>6 DEF ItemsAre
<1> QED
  BY <1>4, <1>7 DEF n

\* Before, between and after the attempts of a Builder: no lease changes.
LEMMA WithoutLeases ==
  ASSUME PipeInv, NEW l \in Lines, UNCHANGED <<eligible, trees, profiles, artifact>>,
         \/ Pipe!Start(l) \/ Pipe!Plan(l) \/ Pipe!RouteBuilder(l) \/ Pipe!ReviewBlocked(l) \/ Pipe!Review(l)
         \/ line[l].pc = "tree" /\ line' = [line EXCEPT ![l].pc = "raised"]
         \/ line[l].pc = "profile" /\ line' = [line EXCEPT ![l].pc = "raised"]
  PROVE  PipeInv'
<1>1. line[l] \in LineRow /\ JobIsExact(line[l].job) /\ line \in [Lines -> LineRow]
  BY DEF PipeInv, LinesInv, PipeTypes, JobsAreExact
<1>2. JobIsExact(Pipe!Fresh) /\ Pipe!Fresh \in JobRow
  <2>1. <<>> \in Seq(ItemRow) /\ Len(<<>>) = 0
    BY EmptySeq
  <2>2. /\ Pipe!Fresh.from = 0 /\ Pipe!Fresh.done = <<>>
        /\ Pipe!Fresh \in JobRow
    BY <2>1 DEF Pipe!Fresh, JobRow
  <2> QED
    BY <2>1, <2>2, HostAssumption DEF JobIsExact, ItemsAre
<1>3. PICK k \in LineRow : /\ line' = [line EXCEPT ![l] = k]
                           /\ k.job = line[l].job \/ k.job = Pipe!Fresh
                           /\ line[l].pc = "profile" => k.pc = "raised"
  <2>1. CASE \E point \in Stations, state \in Endings : line' = Pipe!To(l, point, state) /\ line[l].pc # "profile"
    <3>1. PICK point \in Stations : \E state \in Endings : line' = Pipe!To(l, point, state) /\ line[l].pc # "profile"
      BY <2>1
    <3>2. PICK state \in Endings : line' = Pipe!To(l, point, state) /\ line[l].pc # "profile"
      BY <3>1
    <3>3. PICK k : k = [line[l] EXCEPT !.pc = point, !.state = state]
      OBVIOUS
    <3>4. k \in LineRow /\ k.job = line[l].job
      BY <1>1, <3>3 DEF LineRow
    <3>5. line' = [line EXCEPT ![l] = k]
      BY <1>1, <3>2, <3>3 DEF Pipe!To
    <3> QED
      BY <3>2, <3>4, <3>5
  <2>2. CASE Pipe!RouteBuilder(l) /\ \E p \in eligible : line' = [line EXCEPT ![l].pc = "tree", ![l].profile = p]
    <3>1. PICK p \in eligible : line' = [line EXCEPT ![l].pc = "tree", ![l].profile = p]
      BY <2>2
    <3>2. p \in Builders
      BY DEF PipeInv, LinesInv, PipeTypes
    <3>3. PICK k : k = [line[l] EXCEPT !.pc = "tree", !.profile = p]
      OBVIOUS
    <3>4. k \in LineRow /\ k.job = line[l].job
      BY <1>1, <3>2, <3>3 DEF LineRow, Stations
    <3>5. line' = [line EXCEPT ![l] = k]
      BY <1>1, <3>1, <3>3
    <3>6. line[l].pc # "profile"
      BY <2>2 DEF Pipe!RouteBuilder
    <3> QED
      BY <3>4, <3>5, <3>6
  <2>3. CASE line[l].pc = "review"
              /\ line' = [line EXCEPT ![l].pc = "tree", ![l].state = "RUNNING", ![l].fixes = line[l].fixes + 1, ![l].job = Pipe!Fresh]
    <3>1. line[l].fixes + 1 \in Nat
      BY <1>1 DEF LineRow
    <3>2. PICK k : k = [line[l] EXCEPT !.pc = "tree", !.state = "RUNNING", !.fixes = line[l].fixes + 1, !.job = Pipe!Fresh]
      OBVIOUS
    <3>3. k \in LineRow /\ k.job = Pipe!Fresh
      BY <1>1, <1>2, <3>1, <3>2 DEF LineRow, Stations, Endings
    <3>4. line' = [line EXCEPT ![l] = k]
      BY <1>1, <2>3, <3>2
    <3> QED
      BY <2>3, <3>3, <3>4
  <2>4. CASE line' = [line EXCEPT ![l].pc = "raised"]
    <3>1. PICK k : k = [line[l] EXCEPT !.pc = "raised"]
      OBVIOUS
    <3>2. k \in LineRow /\ k.job = line[l].job /\ k.pc = "raised"
      BY <1>1, <3>1 DEF LineRow, Stations
    <3>3. line' = [line EXCEPT ![l] = k]
      BY <1>1, <2>4, <3>1
    <3> QED
      BY <3>2, <3>3
  <2> QED
    BY <2>1, <2>2, <2>3, <2>4
    DEF Pipe!Start, Pipe!Plan, Pipe!RouteBuilder, Pipe!ReviewBlocked, Pipe!Review, Pipe!Return, Stations, Endings
<1>4. /\ \A t \in DOMAIN trees : trees[t] = l => t = WorktreeOf[l] /\ line[l].pc \in {"profile", "work", "raised"}
      /\ \A p \in Builders : profiles[p] = l => p = line[l].profile /\ line[l].pc = "work"
  BY DEF PipeInv, LinesInv, LeasesAreHeld
<1>5. line[l].pc \notin {"work", "raised"}
  BY DEF Pipe!Start, Pipe!Plan, Pipe!RouteBuilder, Pipe!ReviewBlocked, Pipe!Review
<1>6. /\ \A t \in DOMAIN trees : trees'[t] = l => t = WorktreeOf[l] /\ k.pc \in {"profile", "work", "raised"}
      /\ \A p \in Builders : profiles'[p] = l => p = k.profile /\ k.pc = "work"
  BY <1>3, <1>4, <1>5
<1>7. JobIsExact(k.job)
  BY <1>1, <1>2, <1>3
<1>8. LinesInv'
  BY <1>3, <1>6, <1>7, LineMoves DEF PipeInv
<1> QED
  BY <1>8 DEF PipeInv, EachItemByOne, Pipe!EachItemByOne

LEMMA AcquireTreeKeeps ==
  ASSUME PipeInv, NEW l \in Lines, Pipe!AcquireTree(l)
  PROVE  PipeInv'
<1>1. line[l] \in LineRow /\ JobIsExact(line[l].job) /\ line \in [Lines -> LineRow]
  BY DEF PipeInv, LinesInv, PipeTypes, JobsAreExact
<1>2. CASE trees[WorktreeOf[l]] = None
  <2>1. /\ line' = [line EXCEPT ![l].pc = "profile"] /\ trees' = [trees EXCEPT ![WorktreeOf[l]] = l]
        /\ UNCHANGED <<eligible, profiles, artifact>> /\ line[l].pc = "tree"
    BY <1>2 DEF Pipe!AcquireTree
  <2>2. PICK k : k = [line[l] EXCEPT !.pc = "profile"]
    OBVIOUS
  <2>3. k \in LineRow /\ k.job = line[l].job /\ k.pc = "profile"
    BY <1>1, <2>2 DEF LineRow, Stations
  <2>4. line' = [line EXCEPT ![l] = k]
    BY <1>1, <2>1, <2>2
  <2>5. /\ \A t \in DOMAIN trees : trees'[t] = trees[t] \/ (trees'[t] = l /\ t = WorktreeOf[l])
        /\ DOMAIN trees' = DOMAIN trees
    BY <2>1
  <2>6. /\ \A t \in DOMAIN trees : trees[t] # l
        /\ \A p \in Builders : profiles[p] # l
    BY <2>1 DEF PipeInv, LinesInv, LeasesAreHeld
  <2>7. /\ \A t \in DOMAIN trees : trees'[t] = trees[t] \/ trees'[t] \in {l, None}
        /\ \A p \in Builders : profiles'[p] = profiles[p] \/ profiles'[p] \in {l, None}
        /\ \A t \in DOMAIN trees : trees'[t] = l => t = WorktreeOf[l] /\ k.pc \in {"profile", "work", "raised"}
        /\ \A p \in Builders : profiles'[p] = l => p = k.profile /\ k.pc = "work"
        /\ DOMAIN profiles' = DOMAIN profiles
    BY <2>1, <2>3, <2>5, <2>6
  <2>8. JobIsExact(k.job) /\ LinesInv /\ UNCHANGED eligible
    BY <1>1, <2>1, <2>3 DEF PipeInv
  <2>9. LinesInv'
    BY <2>3, <2>4, <2>5, <2>7, <2>8, LineMoves
  <2> QED
    BY <2>1, <2>9 DEF PipeInv, EachItemByOne, Pipe!EachItemByOne
<1>3. CASE trees[WorktreeOf[l]] # None
  BY <1>3, WithoutLeases DEF Pipe!AcquireTree
<1> QED
  BY <1>2, <1>3

LEMMA AcquireProfileKeeps ==
  ASSUME PipeInv, NEW l \in Lines, Pipe!AcquireProfile(l)
  PROVE  PipeInv'
<1>1. line[l] \in LineRow /\ line[l].job \in JobRow /\ JobIsExact(line[l].job) /\ line \in [Lines -> LineRow]
  BY DEF PipeInv, LinesInv, PipeTypes, JobsAreExact, LineRow
<1>2. CASE profiles[line[l].profile] = None
  <2>1. /\ line' = [line EXCEPT ![l].pc = "work", ![l].job.attempt = line[l].job.attempt + 1]
        /\ profiles' = [profiles EXCEPT ![line[l].profile] = l]
        /\ UNCHANGED <<eligible, trees, artifact>> /\ line[l].pc = "profile"
    BY <1>2 DEF Pipe!AcquireProfile
  <2>2. line[l].job.attempt + 1 \in Nat
    BY <1>1 DEF JobRow
  <2>3. PICK j : j = [line[l].job EXCEPT !.attempt = line[l].job.attempt + 1]
    OBVIOUS
  <2>4. j \in JobRow /\ j.from = line[l].job.from /\ j.done = line[l].job.done
    BY <1>1, <2>2, <2>3 DEF JobRow
  <2>5. PICK k : k = [line[l] EXCEPT !.pc = "work", !.job = j]
    OBVIOUS
  <2>6. k \in LineRow /\ k.job = j /\ k.pc = "work" /\ k.profile = line[l].profile
    BY <1>1, <2>4, <2>5 DEF LineRow, Stations
  <2>7. line' = [line EXCEPT ![l] = k]
    BY <1>1, <2>1, <2>3, <2>5
  <2>8. JobIsExact(k.job)
    BY <1>1, <2>4, <2>6 DEF JobIsExact
  <2>9. /\ \A p \in Builders : profiles'[p] = profiles[p] \/ (profiles'[p] = l /\ p = line[l].profile)
        /\ DOMAIN profiles' = DOMAIN profiles
    BY <2>1 DEF PipeInv, LinesInv, PipeTypes
  <2>10. /\ \A t \in DOMAIN trees : trees[t] = l => t = WorktreeOf[l]
         /\ \A p \in Builders : profiles[p] # l
    BY <2>1 DEF PipeInv, LinesInv, LeasesAreHeld
  <2>12. /\ \A t \in DOMAIN trees : trees'[t] = trees[t] \/ trees'[t] \in {l, None}
         /\ \A p \in Builders : profiles'[p] = profiles[p] \/ profiles'[p] \in {l, None}
         /\ \A t \in DOMAIN trees : trees'[t] = l => t = WorktreeOf[l] /\ k.pc \in {"profile", "work", "raised"}
         /\ \A p \in Builders : profiles'[p] = l => p = k.profile /\ k.pc = "work"
         /\ DOMAIN trees' = DOMAIN trees
    BY <2>1, <2>6, <2>9, <2>10
  <2>13. LinesInv /\ UNCHANGED eligible
    BY <2>1 DEF PipeInv
  <2>11. LinesInv'
    BY <2>6, <2>7, <2>8, <2>9, <2>12, <2>13, LineMoves
  <2> QED
    BY <2>1, <2>11 DEF PipeInv, EachItemByOne, Pipe!EachItemByOne
<1>3. CASE profiles[line[l].profile] # None
  BY <1>3, WithoutLeases DEF Pipe!AcquireProfile
<1> QED
  BY <1>2, <1>3

\* Whatever ends an attempt gives both leases back; what the job has done goes on with it.
LEMMA ReleasingKeeps ==
  ASSUME LinesInv, NEW l \in Lines, line[l].pc = "work", Pipe!ReleaseBoth(l), UNCHANGED eligible,
         NEW k \in LineRow, line' = [line EXCEPT ![l] = k], JobIsExact(k.job)
  PROVE  LinesInv'
<1>1. /\ DOMAIN trees' = DOMAIN trees /\ DOMAIN profiles' = DOMAIN profiles
      /\ \A t \in DOMAIN trees : trees'[t] = IF t = WorktreeOf[l] THEN None ELSE trees[t]
      /\ \A p \in Builders : profiles'[p] = IF p = line[l].profile THEN None ELSE profiles[p]
  BY DEF Pipe!ReleaseBoth, LinesInv, PipeTypes
<1>2. /\ \A t \in DOMAIN trees : trees'[t] # l
      /\ \A p \in Builders : profiles'[p] # l
  BY <1>1, HostAssumption DEF LinesInv, LeasesAreHeld
<1> QED
  BY <1>1, <1>2, LineMoves

\* An attempt that stops: the Run ends, or the job goes on from the items that were done.
LEMMA AttemptEnds ==
  ASSUME PipeInv, NEW l \in Lines,
         Pipe!Stopped(l) \/ Pipe!Failed(l) \/ Pipe!RateLimited(l) \/ Pipe!Interrupted(l) \/ Pipe!Built(l)
  PROVE  LinesInv'
<1>1. line[l] \in LineRow /\ line[l].job \in JobRow /\ JobIsExact(line[l].job) /\ line \in [Lines -> LineRow]
  BY DEF PipeInv, LinesInv, PipeTypes, JobsAreExact, LineRow
<1>2. line[l].pc = "work" /\ Pipe!ReleaseBoth(l) /\ UNCHANGED eligible
  BY DEF Pipe!Stopped, Pipe!Failed, Pipe!RateLimited, Pipe!Interrupted, Pipe!Built
<1>3. CASE \E point \in Stations, state \in Endings : line' = Pipe!To(l, point, state)
  <2>1. PICK point \in Stations : \E state \in Endings : line' = Pipe!To(l, point, state)
    BY <1>3
  <2>2. PICK state \in Endings : line' = Pipe!To(l, point, state)
    BY <2>1
  <2>3. PICK k : k = [line[l] EXCEPT !.pc = point, !.state = state]
    OBVIOUS
  <2>4. k \in LineRow /\ k.job = line[l].job
    BY <1>1, <2>3 DEF LineRow
  <2>5. line' = [line EXCEPT ![l] = k]
    BY <1>1, <2>2, <2>3 DEF Pipe!To
  <2> QED
    BY <1>1, <1>2, <2>4, <2>5, ReleasingKeeps DEF PipeInv
<1>4. ASSUME NEW n \in 0..(Size - 1 - line[l].job.from)
      PROVE  LET f == Pipe!Progress(l, n) IN f \in JobRow /\ JobIsExact(f)
  <2>1. line[l].job.from \in Nat /\ n \in Nat /\ n <= Size - 1 - line[l].job.from
    BY <1>1, HostAssumption DEF JobRow
  <2>2. line[l].job.from + n \in Nat /\ line[l].job.from + n <= Size
    BY <2>1, HostAssumption
  <2>3. PICK d : d = Pipe!Did(l, n)
    OBVIOUS
  <2>4. ItemsAre(d, line[l].job.from + n)
    BY <2>1, <2>3, DidIsExact DEF PipeInv
  <2>5. d \in Seq(ItemRow)
    BY <2>4 DEF ItemsAre
  <2>6. PICK f : f = [line[l].job EXCEPT !.from = line[l].job.from + n, !.done = d]
    OBVIOUS
  <2>7. f \in JobRow /\ f.from = line[l].job.from + n /\ f.done = d
    BY <1>1, <2>2, <2>5, <2>6 DEF JobRow
  <2>8. f = Pipe!Progress(l, n)
    BY <2>3, <2>6 DEF Pipe!Progress
  <2> QED
    BY <2>2, <2>4, <2>7, <2>8 DEF JobIsExact
<1>5. CASE Pipe!RateLimited(l) /\ ~\E point \in Stations, state \in Endings : line' = Pipe!To(l, point, state)
  <2>1. "returned" \in Stations /\ "OWNER_REQUIRED" \in Endings
    BY DEF Stations, Endings
  <2>2. PICK n \in 0..(Size - 1 - line[l].job.from) : \E p \in eligible :
          line' = [line EXCEPT ![l].pc = "tree", ![l].profile = p,
                     ![l].job = [Pipe!Progress(l, n) EXCEPT !.switches = Pipe!Progress(l, n).switches + 1, !.resume = FALSE]]
    BY <1>5, <2>1 DEF Pipe!RateLimited, Pipe!Return
  <2>3. PICK p \in eligible :
          line' = [line EXCEPT ![l].pc = "tree", ![l].profile = p,
                     ![l].job = [Pipe!Progress(l, n) EXCEPT !.switches = Pipe!Progress(l, n).switches + 1, !.resume = FALSE]]
    BY <2>2
  <2>4. PICK f : f = Pipe!Progress(l, n)
    OBVIOUS
  <2>5. f \in JobRow /\ JobIsExact(f)
    BY <1>4, <2>4
  <2>6. f.switches + 1 \in Nat
    BY <2>5 DEF JobRow
  <2>7. PICK j : j = [f EXCEPT !.switches = f.switches + 1, !.resume = FALSE]
    OBVIOUS
  <2>8. j \in JobRow /\ j.from = f.from /\ j.done = f.done
    BY <2>5, <2>6, <2>7 DEF JobRow
  <2>9. PICK k : k = [line[l] EXCEPT !.pc = "tree", !.profile = p, !.job = j]
    OBVIOUS
  <2>10. line' = [line EXCEPT ![l] = k]
    BY <1>1, <2>3, <2>4, <2>7, <2>9
  <2>11. p \in Builders
    BY DEF PipeInv, LinesInv, PipeTypes
  <2>12. k \in LineRow /\ k.job = j
    BY <1>1, <2>8, <2>9, <2>11 DEF LineRow, Stations
  <2>13. JobIsExact(k.job)
    BY <2>5, <2>8, <2>12 DEF JobIsExact
  <2> QED
    BY <1>2, <2>10, <2>12, <2>13, ReleasingKeeps DEF PipeInv
<1>6. CASE Pipe!Interrupted(l) /\ ~\E point \in Stations, state \in Endings : line' = Pipe!To(l, point, state)
  <2>1. "returned" \in Stations /\ "FAILED" \in Endings
    BY DEF Stations, Endings
  <2>2. PICK n \in 0..(Size - 1 - line[l].job.from) :
          line' = [line EXCEPT ![l].pc = "tree",
                     ![l].job = [Pipe!Progress(l, n) EXCEPT !.recoveries = Pipe!Progress(l, n).recoveries + 1, !.resume = TRUE]]
    BY <1>6, <2>1 DEF Pipe!Interrupted, Pipe!Return
  <2>4. PICK f : f = Pipe!Progress(l, n)
    OBVIOUS
  <2>5. f \in JobRow /\ JobIsExact(f)
    BY <1>4, <2>4
  <2>6. f.recoveries + 1 \in Nat
    BY <2>5 DEF JobRow
  <2>7. PICK j : j = [f EXCEPT !.recoveries = f.recoveries + 1, !.resume = TRUE]
    OBVIOUS
  <2>8. j \in JobRow /\ j.from = f.from /\ j.done = f.done
    BY <2>5, <2>6, <2>7 DEF JobRow
  <2>9. PICK k : k = [line[l] EXCEPT !.pc = "tree", !.job = j]
    OBVIOUS
  <2>10. line' = [line EXCEPT ![l] = k]
    BY <1>1, <2>2, <2>4, <2>7, <2>9
  <2>12. k \in LineRow /\ k.job = j
    BY <1>1, <2>8, <2>9 DEF LineRow, Stations
  <2>13. JobIsExact(k.job)
    BY <2>5, <2>8, <2>12 DEF JobIsExact
  <2> QED
    BY <1>2, <2>10, <2>12, <2>13, ReleasingKeeps DEF PipeInv
<1> QED
  BY <1>3, <1>5, <1>6 DEF Pipe!Stopped, Pipe!Failed, Pipe!Built, Pipe!Return, Stations, Endings

\* The artifact is written when all the items are done.
LEMMA ArtifactIsExact ==
  ASSUME PipeInv, NEW l \in Lines,
         Pipe!Stopped(l) \/ Pipe!Failed(l) \/ Pipe!RateLimited(l) \/ Pipe!Interrupted(l) \/ Pipe!Built(l)
  PROVE  EachItemByOne'
<1>1. CASE Pipe!Built(l)
  <2> DEFINE n == line[l].job.from
  <2>1. n \in Nat /\ n <= Size
    BY DEF PipeInv, LinesInv, PipeTypes, JobsAreExact, JobIsExact, LineRow, JobRow
  <2>2. PICK d : d = Pipe!Did(l, Size - n)
    OBVIOUS
  <2>3. Size - n \in Nat /\ n + (Size - n) = Size
    BY <2>1, HostAssumption
  <2>4. ItemsAre(d, Size)
    BY <2>2, <2>3, DidIsExact DEF PipeInv
  <2>5. Len(d) = Size /\ {d[i].item : i \in 1..Size} = 1..Size
    BY <2>4 DEF ItemsAre
  <2>6. artifact' = [artifact EXCEPT ![WorktreeOf[l]] = [done |-> d, false |-> Pipe!Lies(l)]]
    BY <1>1, <2>2 DEF Pipe!Built
  <2>7. \A t \in DOMAIN artifact' : t \in DOMAIN artifact
           /\ (artifact'[t] = artifact[t] \/ artifact'[t].done = d)
    BY <2>6
  <2>8. ASSUME NEW t \in DOMAIN artifact', artifact'[t] # Pipe!NoArtifact
        PROVE  Len(artifact'[t].done) = Size /\ {artifact'[t].done[i].item : i \in 1..Size} = 1..Size
    <3>1. CASE artifact'[t] = artifact[t]
      BY <2>7, <2>8, <3>1 DEF PipeInv, EachItemByOne, Pipe!EachItemByOne
    <3>2. CASE artifact'[t].done = d
      BY <2>5, <3>2
    <3> QED
      BY <2>7, <3>1, <3>2
  <2>9. Pipe!NoArtifact' = Pipe!NoArtifact
    BY DEF Pipe!NoArtifact
  <2> QED
    BY <2>8, <2>9 DEF EachItemByOne, Pipe!EachItemByOne
<1>2. CASE UNCHANGED artifact
  BY <1>2 DEF PipeInv, EachItemByOne, Pipe!EachItemByOne
<1> QED
  BY <1>1, <1>2 DEF Pipe!Stopped, Pipe!Failed, Pipe!RateLimited, Pipe!Interrupted

LEMMA PipeInductive == PipeInv /\ [HostNext]_hostVars => PipeInv'
<1> SUFFICES ASSUME PipeInv, Pipe!Next \/ UNCHANGED pipeVars PROVE PipeInv'
  BY DEF HostNext, hostVars
<1>1. CASE UNCHANGED pipeVars
  BY <1>1 DEF pipeVars, PipeInv, LinesInv, PipeTypes, JobsAreExact, LeasesAreHeld, EachItemByOne, Pipe!EachItemByOne
<1>2. ASSUME NEW l \in Lines, Pipe!LineStep(l) PROVE PipeInv'
  <2>1. CASE Pipe!Start(l) \/ Pipe!Plan(l) \/ Pipe!RouteBuilder(l) \/ Pipe!ReviewBlocked(l) \/ Pipe!Review(l)
    BY <2>1, WithoutLeases DEF Pipe!Start, Pipe!Plan, Pipe!RouteBuilder, Pipe!ReviewBlocked, Pipe!Review
  <2>2. CASE Pipe!AcquireTree(l)
    BY <2>2, AcquireTreeKeeps
  <2>3. CASE Pipe!AcquireProfile(l)
    BY <2>3, AcquireProfileKeeps
  <2>4. CASE Pipe!Stopped(l) \/ Pipe!Failed(l) \/ Pipe!RateLimited(l) \/ Pipe!Interrupted(l) \/ Pipe!Built(l)
    BY <2>4, AttemptEnds, ArtifactIsExact DEF PipeInv
  <2> QED
    BY <1>2, <2>1, <2>2, <2>3, <2>4 DEF Pipe!LineStep
<1> QED
  BY <1>1, <1>2 DEF Pipe!Next

(* An artifact attributes every item of the job to one Builder, however often the profile was      *)
(* switched and the session resumed (pipeline.py _run_builder).                                    *)
THEOREM ArtifactsAreWhole == HostSpec => []EachItemByOne
<1>1. PipeInv => EachItemByOne
  BY DEF PipeInv
<1> QED
  BY <1>1, PipeInitially, PipeInductive, PTL DEF HostSpec

(* A pipeline that returned holds neither lease, whichever way its Run ended (pipeline.py).         *)
THEOREM ReturnedIsFree == HostSpec => []ReturnedHoldsNothing
<1>1. PipeInv => ReturnedHoldsNothing
  BY DEF PipeInv, LinesInv, LeasesAreHeld, ReturnedHoldsNothing, Pipe!ReturnedHoldsNothing
<1> QED
  BY <1>1, PipeInitially, PipeInductive, PTL DEF HostSpec

-----------------------------------------------------------------------------
(* Orchestrator: a job carried from profile to profile *)

\* Up to where the next attempt will be told that the job is done: the present attempt's
\* progress while only the memory of Core has it, the last handoff otherwise.
Frontier == IF Switch!Unrecorded THEN reached ELSE Switch!Resume(handoffs)

Places == {"idle", "acquired", "working", "failed", "checkpointed", "saved", "recorded",
           "released", "answered", "freed", "down", "restarted", "gone"}

SwitchTypes ==
  /\ core \in [pc : Places, code : Switch!Codes]
  /\ reached \in Nat /\ from \in Nat /\ cut \in Nat /\ blanks \in Nat
  /\ handoffs \in Seq(Int) /\ Switch!Resume(handoffs) \in Nat
  /\ performed \in [1..Length -> Nat]

\* The progress is in the last handoff before the worktree is free, unless the error was an early
\* one, and the next attempt starts where that handoff ended.
HandedOn ==
  /\ core.pc \in {"idle", "acquired"} => from = Switch!Resume(handoffs)
  /\ core.pc \in {"saved", "recorded", "released"} /\ core.code \notin Switch!Early
       => reached = Switch!Resume(handoffs)
  /\ result # "none" => core.pc \in {"gone", "down", "restarted"}

\* An item beyond the frontier was worked on only by attempts that were cut off, or before a
\* handoff that named no index.
BeyondOnlyLost ==
  result = "none" => \A i \in 1..Length : i > Frontier => performed[i] <= cut + blanks

SwitchInv == SwitchTypes /\ HandedOn /\ BeyondOnlyLost /\ RepeatedOnlyIfLost

LEMMA SwitchInitially == HostInit => SwitchInv
<1> SUFFICES ASSUME HostInit PROVE SwitchInv
  OBVIOUS
<1>1. Switch!Init
  BY DEF HostInit
<1>2. core = [pc |-> "idle", code |-> "NETWORK_ERROR"]
  BY <1>1 DEF Switch!Init, Switch!At, Switch!Pending
<1>3. handoffs = <<>> /\ handoffs \in Seq(Int) /\ Switch!Resume(handoffs) = 0
  BY <1>1, EmptySeq DEF Switch!Init, Switch!Resume
<1>4. SwitchTypes
  BY <1>1, <1>2, <1>3 DEF Switch!Init, SwitchTypes, Places, Switch!Codes, Switch!Midway
<1>5. HandedOn
  BY <1>1, <1>2, <1>3 DEF Switch!Init, HandedOn
<1> QED
  BY <1>1, <1>4, <1>5 DEF Switch!Init, SwitchInv, BeyondOnlyLost, RepeatedOnlyIfLost, Switch!RepeatedOnlyIfLost

LEMMA SwitchInductive == SwitchInv /\ [HostNext]_hostVars => SwitchInv'
<1> SUFFICES ASSUME SwitchInv, Switch!Next \/ UNCHANGED orchVars PROVE SwitchInv'
  BY DEF HostNext, hostVars
<1> USE DEF SwitchInv, SwitchTypes, HandedOn, BeyondOnlyLost, RepeatedOnlyIfLost, Switch!RepeatedOnlyIfLost, Frontier,
            Switch!Unrecorded, Places, Switch!Codes, Switch!Midway, Switch!Switchable, Switch!Early, Switch!At, Switch!Pending, Switch!work
<1>a. UNCHANGED handoffs => Switch!Resume(handoffs') = Switch!Resume(handoffs)
  BY DEF Switch!Resume
<1>1. CASE Switch!Acquire
  BY <1>1, <1>a DEF Switch!Acquire
<1>2. CASE Switch!Conflict
  BY <1>2, <1>a DEF Switch!Conflict
<1>3. CASE Switch!StartRun
  BY <1>3, <1>a DEF Switch!StartRun
<1>4. CASE Switch!Progress
  <2>1. /\ core.pc = "working" /\ reached' = reached + 1 /\ reached + 1 \in Nat
        /\ UNCHANGED <<core, from, handoffs, cut, blanks, result>>
    BY <1>4 DEF Switch!Progress
  <2>2. /\ performed' = [performed EXCEPT ![reached + 1] = performed[reached + 1] + 1]
        /\ result = "none"
    BY <1>4, <2>1 DEF Switch!Progress
  <2>3. \A i \in 1..Length : performed'[i] = IF i = reached + 1 THEN performed[i] + 1 ELSE performed[i]
    BY <2>2
  <2>4. \A i \in 1..Length : performed[i] + 1 \in Nat
    OBVIOUS
  <2>5. performed' \in [1..Length -> Nat]
    BY <2>2, <2>4
  <2>6. \A i \in 1..Length : performed[i] <= 1 + cut + blanks /\ (i > reached => performed[i] <= cut + blanks)
    BY <2>1, <2>2
  <2>7. \A i \in 1..Length : performed'[i] <= 1 + cut + blanks /\ (i > reached + 1 => performed'[i] <= cut + blanks)
    BY <2>3, <2>6, <2>1
  <2> QED
    BY <2>1, <2>2, <2>5, <2>7, <1>a
<1>5. ASSUME NEW code \in Switch!Codes, Switch!Fail(code) PROVE SwitchInv'
  BY <1>5, <1>a DEF Switch!Fail
<1>6. CASE Switch!SaveCheckpoint
  BY <1>6, <1>a DEF Switch!SaveCheckpoint
<1>7. CASE Switch!SaveHandoff
  <2> DEFINE index == IF core.code \in Switch!Early THEN Switch!NoIndex ELSE reached
  <2>1. /\ handoffs' \in Seq(Int) /\ Len(handoffs') = Len(handoffs) + 1
        /\ handoffs'[Len(handoffs) + 1] = index
    BY <1>7, AppendProperties DEF Switch!SaveHandoff, Switch!NoIndex
  <2>2. handoffs' # <<>>
    BY <2>1, LenProperties
  <2>3. Switch!Resume(handoffs') = IF core.code \in Switch!Early THEN 0 ELSE reached
    BY <2>1, <2>2 DEF Switch!Resume, Switch!NoIndex
  <2>4. /\ core' \in [pc : Places, code : Switch!Codes] /\ core'.pc = "saved" /\ core.pc = "checkpointed"
        /\ core'.code = core.code
        /\ UNCHANGED <<reached, from, cut, performed, result>>
        /\ blanks' = IF core.code \in Switch!Early THEN blanks + 1 ELSE blanks
    BY <1>7 DEF Switch!SaveHandoff
  <2> HIDE DEF index
  <2>5. CASE core.code \in Switch!Early
    <3>1. blanks' = blanks + 1 /\ blanks' \in Nat /\ Switch!Resume(handoffs') = 0
      BY <2>3, <2>4, <2>5
    <3>2. SwitchTypes' /\ HandedOn'
      BY <2>1, <2>4, <2>5, <3>1
    <3>3. \A i \in 1..Length : performed'[i] <= cut' + blanks'
      BY <2>4, <3>1
    <3>4. performed' = performed /\ performed \in [1..Length -> Nat]
      BY <2>4
    <3>5. \A i \in 1..Length : performed'[i] <= 1 + cut' + blanks'
      BY <2>4, <3>1, <3>3, <3>4
    <3>6. RepeatedOnlyIfLost' /\ BeyondOnlyLost'
      BY <3>3, <3>5
    <3> QED
      BY <3>2, <3>6
  <2>6. CASE core.code \notin Switch!Early
    <3>1. blanks' = blanks /\ Switch!Resume(handoffs') = reached
      BY <2>3, <2>4, <2>6
    <3> QED
      BY <2>1, <2>4, <2>6, <3>1
  <2> QED
    BY <2>5, <2>6
<1>8. CASE Switch!RecordFailure
  BY <1>8, <1>a DEF Switch!RecordFailure
<1>9. CASE Switch!Release
  BY <1>9, <1>a DEF Switch!Release
<1>10. CASE Switch!Switch
  BY <1>10, <1>a DEF Switch!Switch
<1>11. CASE Switch!Succeed
  BY <1>11, <1>a DEF Switch!Succeed
<1>12. CASE Switch!ReleaseDone
  BY <1>12, <1>a DEF Switch!ReleaseDone
<1>13. CASE Switch!RecordSuccess
  BY <1>13, <1>a DEF Switch!RecordSuccess
<1>14. CASE Switch!Die
  BY <1>14, <1>a DEF Switch!Die
<1>15. CASE Switch!Restart
  BY <1>15, <1>a DEF Switch!Restart
<1>16. CASE Switch!Reconcile
  BY <1>16, <1>a DEF Switch!Reconcile
<1>17. CASE Switch!Continue
  BY <1>17, <1>a DEF Switch!Continue
<1>18. CASE UNCHANGED orchVars
  BY <1>18, <1>a DEF orchVars
<1> QED
  BY <1>1, <1>2, <1>3, <1>4, <1>5, <1>6, <1>7, <1>8, <1>9, <1>10, <1>11, <1>12, <1>13, <1>14, <1>15,
     <1>16, <1>17, <1>18 DEF Switch!Next

(* An item is worked on again only as often as Core died with work it had not recorded, or saved a *)
(* handoff without an index: a switch to the next candidate and a restart of Core repeat nothing   *)
(* by themselves (orchestrator.py run_with_switch).                                                *)
THEOREM WorkIsHandedOn == HostSpec => []RepeatedOnlyIfLost
<1>1. SwitchInv => RepeatedOnlyIfLost
  BY DEF SwitchInv
<1> QED
  BY <1>1, SwitchInitially, SwitchInductive, PTL DEF HostSpec

-----------------------------------------------------------------------------
(* Workspace: the two ways in which it is instantiated take the same steps *)

Steps == {"idle", "collect", "head", "store", "view", "live", "state", "acquire", "git", "undo", "insert"}
BaselineRow == [head : Nat, dirty : BOOLEAN]
CallRow == [step : Steps, head : Nat, dirty : BOOLEAN, base : BaselineRow \cup {None}]

WorkTypes ==
  /\ source \in [head : Nat, dirty : BOOLEAN, present : BOOLEAN]
  /\ baseline \in BaselineRow \cup {None}
  /\ call \in [DOMAIN call -> CallRow] /\ None \notin DOMAIN call
  /\ DOMAIN call = IF focus = "making" THEN Making!Calls ELSE Reading!Calls
  /\ rows \in Nat /\ tree \in BOOLEAN

\* That the source is clean now, and that a baseline was, goes for a head at which it was clean or git
\* gave no answer; a head that a baseline took from an earlier command may be one commit old already.
SeenClean(h) == h \in cleanAt \cup blindAt
CleanOrOld(h) == SeenClean(h) \/ source.head > h
CleanBase(b) == b # None /\ ~b.dirty => CleanOrOld(b.head)

\* What each step of a baseline and of an overview knows.
HeadsAreOld ==
  /\ ~source.dirty => source.head \in cleanAt
  /\ CleanBase(baseline)
  /\ \A c \in DOMAIN call :
       /\ call[c].step = "head" => call[c].head <= source.head
       /\ call[c].step = "store" /\ ~call[c].dirty => CleanOrOld(call[c].head)
       /\ call[c].step = "live" => CleanBase(call[c].base)
       /\ call[c].step = "state" /\ call[c].base # None /\ ~call[c].base.dirty /\ call[c].base.head = call[c].head
            => SeenClean(call[c].head)

\* The call that works under the lease of the path holds it, and alone adds the worktree.
MakerHolds ==
  \A c \in DOMAIN call :
    /\ call[c].step \in {"git", "undo", "insert"} => pathLease = c
    /\ call[c].step = "insert" => tree /\ rows = 0

WorkInv == WorkTypes /\ HeadsAreOld /\ MakerHolds /\ CleanWasTrue /\ RegisteredOnce

LEMMA WorkInitially == HostInit => WorkInv
<1> SUFFICES ASSUME HostInit PROVE WorkInv
  OBVIOUS
<1> DEFINE C == IF focus = "making" THEN Making!Calls ELSE Reading!Calls
<1> DEFINE idle == [step |-> "idle", head |-> 0, dirty |-> FALSE, base |-> None]
<1>1. /\ source = [head |-> 0, dirty |-> TRUE, present |-> TRUE]
      /\ baseline = None /\ tree = FALSE /\ rows = 0 /\ told = None
      /\ call = [c \in C |-> idle]
  BY DEF HostInit, Making!Init, Reading!Init, Making!Idle, Reading!Idle
<1>2. None \notin C
  BY HostAssumption DEF Making!Calls, Reading!Calls
<1>3. idle \in CallRow
  BY DEF CallRow, Steps
<1>4. DOMAIN call = C /\ \A c \in C : call[c] = idle
  BY <1>1
<1>5. WorkTypes
  BY <1>1, <1>2, <1>3, <1>4 DEF WorkTypes
<1> HIDE DEF C
<1>6. HeadsAreOld /\ MakerHolds
  BY <1>1, <1>4 DEF HeadsAreOld, CleanBase, MakerHolds
<1> QED
  BY <1>1, <1>5, <1>6 DEF WorkInv, CleanWasTrue, RegisteredOnce, Reading!CleanWasTrue, Making!RegisteredOnce

\* A call that goes to another step and forgets what it read.
GoesTo(c, step) ==
  call' = [call EXCEPT ![c] = [step |-> step, head |-> 0, dirty |-> FALSE, base |-> None]]

LEMMA ToIsGoesTo ==
  ASSUME NEW c, NEW step
  PROVE  /\ Reading!To(c, step) <=> GoesTo(c, step)
         /\ Making!To(c, step) <=> GoesTo(c, step)
         /\ Reading!End(c) <=> GoesTo(c, "idle")
         /\ Making!End(c) <=> GoesTo(c, "idle")
BY DEF Reading!To, Making!To, Reading!End, Making!End, Reading!Idle, Making!Idle, GoesTo

\* The calls other than c keep what they know when the source moves on only.
LEMMA ForgettingKeeps ==
  ASSUME WorkInv, UNCHANGED focus, NEW c \in DOMAIN call, NEW step \in Steps, GoesTo(c, step),
         step \notin {"git", "undo", "insert", "head", "store", "live", "state"},
         UNCHANGED <<source, cleanAt, blindAt, tree, rows, told>>,
         baseline' = baseline \/ (baseline' \in BaselineRow /\ CleanBase(baseline')),
         \A d \in DOMAIN call : d # c /\ pathLease = d => pathLease' = d
  PROVE  WorkInv'
<1>1. [step |-> step, head |-> 0, dirty |-> FALSE, base |-> None] \in CallRow
  BY DEF CallRow
<1>2. /\ call' \in [DOMAIN call -> CallRow] /\ DOMAIN call' = DOMAIN call
      /\ call'[c].step = step /\ \A d \in DOMAIN call : d # c => call'[d] = call[d]
  BY <1>1 DEF GoesTo, WorkInv, WorkTypes
<1>3. WorkTypes'
  BY <1>2 DEF WorkInv, WorkTypes, Making!Calls, Reading!Calls
<1>4. HeadsAreOld'
  BY <1>2 DEF WorkInv, HeadsAreOld, CleanBase, CleanOrOld, SeenClean
<1>5. MakerHolds'
  BY <1>2 DEF WorkInv, MakerHolds
<1>6. CleanWasTrue' /\ RegisteredOnce'
  BY DEF WorkInv, CleanWasTrue, RegisteredOnce, Reading!CleanWasTrue, Making!RegisteredOnce
<1> QED
  BY <1>3, <1>4, <1>5, <1>6 DEF WorkInv

-----------------------------------------------------------------------------
(* The steps that matter: the ones that read, those that answer, and those under the lease. *)

LEMMA OwnerKeeps ==
  ASSUME WorkInv, UNCHANGED focus, Reading!OwnerWorks \/ Making!OwnerWorks
  PROVE  WorkInv'
<1>1. /\ source' \in [head : Nat, dirty : BOOLEAN, present : BOOLEAN] /\ source'.head >= source.head
      /\ cleanAt \subseteq cleanAt' /\ (~source'.dirty => source'.head \in cleanAt')
      /\ UNCHANGED <<blindAt, baseline, tree, pathLease, rows, told, call>>
  <2>1. ASSUME NEW M \in Nat, NEW h \in source.head..M, NEW d \in BOOLEAN, NEW p \in BOOLEAN,
               source' = [head |-> h, dirty |-> d, present |-> p], cleanAt' = cleanAt \cup {x \in {h} : ~d}
        PROVE  /\ source' \in [head : Nat, dirty : BOOLEAN, present : BOOLEAN] /\ source'.head >= source.head
               /\ cleanAt \subseteq cleanAt' /\ (~source'.dirty => source'.head \in cleanAt')
    <3>1. source.head \in Nat
      BY DEF WorkInv, WorkTypes
    <3>2. h \in Nat /\ h >= source.head
      BY <2>1, <3>1
    <3> QED
      BY <2>1, <3>2
  <2> QED
    BY <2>1, HostAssumption DEF Reading!OwnerWorks, Making!OwnerWorks
<1>2. WorkTypes'
  BY <1>1 DEF WorkInv, WorkTypes, Making!Calls, Reading!Calls
<1>3. \A h \in Nat : CleanOrOld(h) => CleanOrOld(h)'
  BY <1>1 DEF WorkInv, WorkTypes, CleanOrOld, SeenClean
<1>4. \A h : SeenClean(h) => SeenClean(h)'
  BY <1>1 DEF SeenClean
<1>5. HeadsAreOld'
  <2>1. \A b \in BaselineRow \cup {None} : CleanBase(b) => CleanBase(b)'
    BY <1>3 DEF CleanBase, BaselineRow
  <2>2. CleanBase(baseline)'
    BY <1>1, <2>1 DEF WorkInv, WorkTypes, HeadsAreOld, CleanBase
  <2>3. \A c \in DOMAIN call : call[c].head \in Nat /\ call[c].base \in BaselineRow \cup {None}
    BY DEF WorkInv, WorkTypes, CallRow
  <2>4. ASSUME NEW c \in DOMAIN call
        PROVE  /\ call[c].step = "head" => call[c].head <= source'.head
               /\ call[c].step = "store" /\ ~call[c].dirty => CleanOrOld(call[c].head)'
               /\ call[c].step = "live" => CleanBase(call[c].base)'
               /\ call[c].step = "state" /\ call[c].base # None /\ ~call[c].base.dirty
                    /\ call[c].base.head = call[c].head => SeenClean(call[c].head)'
    BY <1>1, <1>3, <1>4, <2>1, <2>3 DEF WorkInv, HeadsAreOld, CleanOrOld, SeenClean, CleanBase, WorkTypes
  <2> QED
    BY <1>1, <2>2, <2>4 DEF HeadsAreOld
<1>6. MakerHolds' /\ CleanWasTrue' /\ RegisteredOnce'
  BY <1>1 DEF WorkInv, MakerHolds, CleanWasTrue, RegisteredOnce, Reading!CleanWasTrue, Making!RegisteredOnce
<1> QED
  BY <1>2, <1>5, <1>6 DEF WorkInv

\* Steps that only begin, give up or store what was collected.
LEMMA PlainSteps ==
  ASSUME WorkInv, UNCHANGED focus, NEW c \in DOMAIN call,
         \/ Reading!Connect(c) \/ Reading!Refresh(c) \/ Reading!View(c) \/ Reading!StoreBaseline(c)
         \/ Reading!BeginWorktree(c) \/ Reading!Undo(c) \/ Reading!Crash(c)
  PROVE  WorkInv'
<1>1. PICK step \in {"collect", "view", "idle", "acquire"} : GoesTo(c, step)
  BY ToIsGoesTo DEF Reading!Connect, Reading!Refresh, Reading!View, Reading!StoreBaseline,
                    Reading!BeginWorktree, Reading!Undo, Reading!Crash
<1>2. step \in Steps /\ step \notin {"git", "undo", "insert", "head", "store", "live", "state"}
  BY DEF Steps
<1>3. UNCHANGED <<source, cleanAt, blindAt, tree, rows, told>>
  BY DEF Reading!Connect, Reading!Refresh, Reading!View, Reading!StoreBaseline,
         Reading!BeginWorktree, Reading!Undo, Reading!Crash
<1>4. baseline' = baseline \/ (baseline' \in BaselineRow /\ CleanBase(baseline'))
  <2>1. CASE Reading!StoreBaseline(c)
    <3>1. call[c].step = "store" /\ baseline' = [head |-> call[c].head, dirty |-> call[c].dirty]
      BY <2>1 DEF Reading!StoreBaseline
    <3>2. call[c].head \in Nat /\ call[c].dirty \in BOOLEAN
      BY DEF WorkInv, WorkTypes, CallRow
    <3>3. baseline' \in BaselineRow /\ baseline'.head = call[c].head /\ baseline'.dirty = call[c].dirty
      BY <3>1, <3>2 DEF BaselineRow
    <3> QED
      BY <3>1, <3>3 DEF CleanBase, WorkInv, HeadsAreOld
  <2> QED
    BY <2>1 DEF Reading!Connect, Reading!Refresh, Reading!View,
                Reading!BeginWorktree, Reading!Undo, Reading!Crash
<1>5. \A d \in DOMAIN call : d # c /\ pathLease = d => pathLease' = d
  BY DEF Reading!Connect, Reading!Refresh, Reading!View, Reading!StoreBaseline,
         Reading!BeginWorktree, Reading!Undo, Reading!Crash
<1> QED
  BY <1>1, <1>2, <1>3, <1>4, <1>5, ForgettingKeeps

\* A call that reads one more fact; the others keep what they know.
LEMMA ReadingKeeps ==
  ASSUME WorkInv, UNCHANGED focus, NEW c \in DOMAIN call, NEW k \in CallRow, call' = [call EXCEPT ![c] = k],
         UNCHANGED <<source, cleanAt, baseline, tree, pathLease, rows, told>>,
         blindAt \subseteq blindAt', k.step \notin {"git", "undo", "insert"},
         k.step = "head" => k.head <= source.head,
         k.step = "store" /\ ~k.dirty => CleanOrOld(k.head)',
         k.step = "live" => CleanBase(k.base)',
         k.step = "state" /\ k.base # None /\ ~k.base.dirty /\ k.base.head = k.head => SeenClean(k.head)'
  PROVE  WorkInv'
<1>1. /\ call' \in [DOMAIN call -> CallRow] /\ DOMAIN call' = DOMAIN call
      /\ call'[c] = k /\ \A d \in DOMAIN call : d # c => call'[d] = call[d]
  BY DEF WorkInv, WorkTypes
<1>2. WorkTypes'
  BY <1>1 DEF WorkInv, WorkTypes, Making!Calls, Reading!Calls
<1>3. /\ \A h : SeenClean(h) => SeenClean(h)'
      /\ \A h : CleanOrOld(h) => CleanOrOld(h)'
      /\ \A b : CleanBase(b) => CleanBase(b)'
  BY DEF SeenClean, CleanOrOld, CleanBase
<1>4. HeadsAreOld'
  <2>1. (~source.dirty => source.head \in cleanAt)' /\ CleanBase(baseline)'
    BY <1>3 DEF WorkInv, HeadsAreOld, CleanBase, CleanOrOld, SeenClean
  <2>2. ASSUME NEW d \in DOMAIN call, d # c
        PROVE  /\ call[d].step = "head" => call[d].head <= source.head
               /\ call[d].step = "store" /\ ~call[d].dirty => CleanOrOld(call[d].head)'
               /\ call[d].step = "live" => CleanBase(call[d].base)'
               /\ call[d].step = "state" /\ call[d].base # None /\ ~call[d].base.dirty
                    /\ call[d].base.head = call[d].head => SeenClean(call[d].head)'
    BY <1>3, <2>2 DEF WorkInv, HeadsAreOld
  <2>3. \A d \in DOMAIN call' : d = c \/ (d \in DOMAIN call /\ d # c /\ call'[d] = call[d])
    BY <1>1
  <2> QED
    BY <1>1, <2>1, <2>2, <2>3 DEF HeadsAreOld, CleanOrOld, CleanBase, SeenClean
<1>5. MakerHolds' /\ CleanWasTrue' /\ RegisteredOnce'
  BY <1>1 DEF WorkInv, MakerHolds, CleanWasTrue, RegisteredOnce, Reading!CleanWasTrue, Making!RegisteredOnce
<1> QED
  BY <1>2, <1>4, <1>5 DEF WorkInv

LEMMA ReadingSteps ==
  ASSUME WorkInv, UNCHANGED focus, NEW c \in DOMAIN call,
         Reading!CollectHead(c) \/ Reading!CollectStatus(c) \/ Reading!ReadRows(c) \/ Reading!ReadLive(c)
  PROVE  WorkInv'
<1>1. call[c] \in CallRow /\ source.head \in Nat /\ source.dirty \in BOOLEAN /\ source.present \in BOOLEAN
  BY DEF WorkInv, WorkTypes
<1>2. CASE (Reading!CollectHead(c) \/ Reading!ReadLive(c)) /\ ~source.present
  <2>1. /\ GoesTo(c, "idle")
        /\ UNCHANGED <<source, cleanAt, blindAt, tree, rows, told, baseline, pathLease>>
    BY <1>2, ToIsGoesTo DEF Reading!CollectHead, Reading!ReadLive
  <2>2. "idle" \in Steps /\ "idle" \notin {"git", "undo", "insert", "head", "store", "live", "state"}
    BY DEF Steps
  <2> QED
    BY <2>1, <2>2, ForgettingKeeps
<1>3. CASE Reading!CollectHead(c) /\ source.present
  <2>0. PICK k : k = [call[c] EXCEPT !.step = "head", !.head = source.head]
    OBVIOUS
  <2>1. /\ call' = [call EXCEPT ![c] = k]
        /\ UNCHANGED <<source, cleanAt, blindAt, baseline, tree, pathLease, rows, told>>
    BY <1>3, <2>0 DEF Reading!CollectHead
  <2>2. k \in CallRow /\ k.step = "head" /\ k.head = source.head
    BY <1>1, <2>0 DEF CallRow, Steps
  <2>3. k.head <= source.head
    BY <1>1, <2>2
  <2> QED
    BY <2>1, <2>2, <2>3, ReadingKeeps
<1>4. CASE Reading!CollectStatus(c)
  <2>0. PICK k : k = [call[c] EXCEPT !.step = "store", !.dirty = source.present /\ source.dirty]
    OBVIOUS
  <2>1. /\ call' = [call EXCEPT ![c] = k]
        /\ UNCHANGED <<source, cleanAt, baseline, tree, pathLease, rows, told>>
        /\ blindAt' = blindAt \cup {h \in {call[c].head} : ~source.present}
    BY <1>4, <2>0 DEF Reading!CollectStatus
  <2>2. /\ k \in CallRow /\ k.step = "store" /\ k.head = call[c].head
        /\ k.dirty = (source.present /\ source.dirty)
    <3>1. (source.present /\ source.dirty) \in BOOLEAN
      OBVIOUS
    <3> QED
      BY <1>1, <2>0, <3>1 DEF CallRow, Steps
  <2>3. call[c].head <= source.head
    BY <1>4 DEF Reading!CollectStatus, WorkInv, HeadsAreOld
  <2>4. ASSUME ~k.dirty PROVE CleanOrOld(k.head)'
    <3>1. CASE ~source.present
      BY <2>1, <2>2, <3>1 DEF CleanOrOld, SeenClean
    <3>2. CASE source.present
      <4>1. source.head \in cleanAt
        BY <2>2, <2>4, <3>2 DEF WorkInv, HeadsAreOld
      <4>2. source.head = call[c].head \/ source.head > call[c].head
        BY <1>1, <2>3 DEF CallRow
      <4> QED
        BY <2>1, <2>2, <4>1, <4>2 DEF CleanOrOld, SeenClean
    <3> QED
      BY <3>1, <3>2
  <2>5. blindAt \subseteq blindAt'
    BY <2>1
  <2> QED
    BY <2>1, <2>2, <2>4, <2>5, ReadingKeeps
<1>5. CASE Reading!ReadRows(c)
  <2>0. PICK k : k = [call[c] EXCEPT !.step = "live", !.base = baseline]
    OBVIOUS
  <2>1. /\ call' = [call EXCEPT ![c] = k]
        /\ UNCHANGED <<source, cleanAt, blindAt, baseline, tree, pathLease, rows, told>>
    BY <1>5, <2>0 DEF Reading!ReadRows
  <2>2. k \in CallRow /\ k.step = "live" /\ k.base = baseline
    BY <1>1, <2>0 DEF CallRow, Steps, WorkInv, WorkTypes
  <2>3. CleanBase(k.base)'
    BY <2>1, <2>2 DEF WorkInv, HeadsAreOld, CleanBase, CleanOrOld, SeenClean
  <2> QED
    BY <2>1, <2>2, <2>3, ReadingKeeps
<1>6. CASE Reading!ReadLive(c) /\ source.present
  <2>0. PICK k : k = [call[c] EXCEPT !.step = "state", !.head = source.head]
    OBVIOUS
  <2>1. /\ call' = [call EXCEPT ![c] = k] /\ call[c].step = "live"
        /\ UNCHANGED <<source, cleanAt, blindAt, baseline, tree, pathLease, rows, told>>
    BY <1>6, <2>0 DEF Reading!ReadLive
  <2>2. k \in CallRow /\ k.step = "state" /\ k.head = source.head /\ k.base = call[c].base
    BY <1>1, <2>0 DEF CallRow, Steps
  <2>3. CleanBase(k.base)
    BY <2>1, <2>2 DEF WorkInv, HeadsAreOld
  <2>4. k.base # None /\ ~k.base.dirty /\ k.base.head = k.head => SeenClean(k.head)'
    BY <1>1, <2>1, <2>2, <2>3 DEF CleanBase, CleanOrOld, SeenClean
  <2> QED
    BY <2>1, <2>2, <2>4, ReadingKeeps
<1> QED
  BY <1>1, <1>2, <1>3, <1>4, <1>5, <1>6

\* The answer is "clean" only of the head that the baseline and the overview both read.
LEMMA AnswerKeeps ==
  ASSUME WorkInv, UNCHANGED focus, NEW c \in DOMAIN call, Reading!Answer(c)
  PROVE  WorkInv'
<1>1. /\ call[c].step = "state" /\ GoesTo(c, "idle")
      /\ UNCHANGED <<source, cleanAt, blindAt, baseline, tree, pathLease, rows>>
  BY ToIsGoesTo DEF Reading!Answer
<1>2. told' # None => told' \in cleanAt \cup blindAt
  <2>1. CASE Reading!State(c, source.dirty /\ source.present) = "clean" /\ project.kind # "github"
    <3>1. /\ call[c].base # None /\ ~call[c].base.dirty /\ call[c].base.head = call[c].head
          /\ told' = call[c].base.head
      BY <2>1 DEF Reading!State, Reading!Answer
    <3> QED
      BY <1>1, <3>1 DEF WorkInv, HeadsAreOld, SeenClean
  <2>2. CASE ~(Reading!State(c, source.dirty /\ source.present) = "clean" /\ project.kind # "github")
    BY <2>2 DEF Reading!Answer
  <2> QED
    BY <2>1, <2>2
<1>3. [step |-> "idle", head |-> 0, dirty |-> FALSE, base |-> None] \in CallRow
  BY DEF CallRow, Steps
<1>4. /\ call' \in [DOMAIN call -> CallRow] /\ DOMAIN call' = DOMAIN call
      /\ call'[c].step = "idle" /\ \A d \in DOMAIN call : d # c => call'[d] = call[d]
  BY <1>1, <1>3 DEF GoesTo, WorkInv, WorkTypes
<1>5. WorkTypes'
  BY <1>1, <1>4 DEF WorkInv, WorkTypes, Making!Calls, Reading!Calls
<1>6. HeadsAreOld'
  BY <1>1, <1>4 DEF WorkInv, HeadsAreOld, CleanBase, CleanOrOld, SeenClean
<1>7. MakerHolds' /\ CleanWasTrue' /\ RegisteredOnce'
  BY <1>1, <1>2, <1>4 DEF WorkInv, MakerHolds, CleanWasTrue, RegisteredOnce, Reading!CleanWasTrue, Making!RegisteredOnce
<1> QED
  BY <1>5, <1>6, <1>7 DEF WorkInv

\* Under the lease.
LEMMA LeaseSteps ==
  ASSUME WorkInv, UNCHANGED focus, NEW c \in DOMAIN call,
         Reading!Acquire(c) \/ Reading!GitAdd(c) \/ Reading!InsertWorktree(c)
  PROVE  WorkInv'
<1>1. PICK step \in {"git", "idle", "undo", "insert", "view"} : GoesTo(c, step)
  BY ToIsGoesTo DEF Reading!Acquire, Reading!GitAdd, Reading!InsertWorktree
<1>2. UNCHANGED <<source, cleanAt, blindAt, baseline, told>>
  BY DEF Reading!Acquire, Reading!GitAdd, Reading!InsertWorktree
<1>3. [step |-> step, head |-> 0, dirty |-> FALSE, base |-> None] \in CallRow
  BY DEF CallRow, Steps
<1>4. /\ call' \in [DOMAIN call -> CallRow] /\ DOMAIN call' = DOMAIN call
      /\ call'[c].step = step /\ \A d \in DOMAIN call : d # c => call'[d] = call[d]
  BY <1>1, <1>3 DEF GoesTo, WorkInv, WorkTypes
<1>5. rows' \in Nat
  <2>1. rows \in Nat /\ rows + 1 \in Nat
    BY DEF WorkInv, WorkTypes
  <2> QED
    BY <2>1 DEF Reading!Acquire, Reading!GitAdd, Reading!InsertWorktree
<1>6. tree' \in BOOLEAN /\ (tree => tree')
  <2>1. tree \in BOOLEAN /\ tree' \in {tree, TRUE}
    BY DEF WorkInv, WorkTypes, Reading!Acquire, Reading!GitAdd, Reading!InsertWorktree
  <2> QED
    BY <2>1
<1>7. \A s : GoesTo(c, s) => call'[c].step = s
  BY DEF GoesTo, WorkInv, WorkTypes
<1>8. WorkTypes'
  BY <1>2, <1>4, <1>5, <1>6 DEF WorkInv, WorkTypes, Making!Calls, Reading!Calls
<1>9. HeadsAreOld'
  BY <1>2, <1>4 DEF WorkInv, HeadsAreOld, CleanBase, CleanOrOld, SeenClean
<1>10. CleanWasTrue'
  BY <1>2 DEF WorkInv, CleanWasTrue, Reading!CleanWasTrue
<1>11. MakerHolds' /\ RegisteredOnce'
  <2>1. CASE Reading!Acquire(c)
    <3>1. (pathLease = None /\ pathLease' = c /\ call'[c].step = "git") \/ (pathLease' = pathLease /\ call'[c].step = "idle")
      BY <2>1, ToIsGoesTo, <1>7 DEF Reading!Acquire
    <3>2. UNCHANGED <<tree, rows>>
      BY <2>1 DEF Reading!Acquire
    <3>3. MakerHolds'
      BY <1>4, <3>1, <3>2 DEF WorkInv, WorkTypes, MakerHolds
    <3> QED
      BY <3>2, <3>3 DEF WorkInv, RegisteredOnce, Making!RegisteredOnce
  <2>2. CASE Reading!GitAdd(c)
    <3>1. pathLease = c /\ UNCHANGED <<pathLease, rows>>
      BY <2>2 DEF Reading!GitAdd, WorkInv, MakerHolds
    <3>2. call'[c].step = "undo" \/ (call'[c].step = "insert" /\ tree' /\ ~tree)
      BY <2>2, ToIsGoesTo, <1>7 DEF Reading!GitAdd, Reading!Refused
    <3>3. \A d \in DOMAIN call : d # c => call[d].step \notin {"git", "undo", "insert"}
      BY <3>1 DEF WorkInv, MakerHolds
    <3>4. ~tree => rows = 0
      BY DEF WorkInv, RegisteredOnce, Making!RegisteredOnce, WorkTypes
    <3>5. MakerHolds'
      BY <1>4, <1>6, <3>1, <3>2, <3>3, <3>4 DEF MakerHolds
    <3> QED
      BY <1>6, <3>1, <3>5 DEF WorkInv, RegisteredOnce, Making!RegisteredOnce
  <2>3. CASE Reading!InsertWorktree(c)
    <3>1. pathLease = c /\ tree /\ rows = 0 /\ rows' = rows + 1 /\ UNCHANGED <<pathLease, tree>>
      BY <2>3 DEF Reading!InsertWorktree, WorkInv, MakerHolds
    <3>2. \A d \in DOMAIN call : d # c => call[d].step \notin {"git", "undo", "insert"}
      BY <3>1 DEF WorkInv, MakerHolds
    <3>3. call'[c].step = "view"
      BY <2>3, ToIsGoesTo, <1>4 DEF Reading!InsertWorktree, GoesTo, WorkInv, WorkTypes
    <3>4. MakerHolds'
      BY <1>4, <3>2, <3>3 DEF MakerHolds
    <3> QED
      BY <3>1, <3>4 DEF RegisteredOnce, Making!RegisteredOnce
  <2> QED
    BY <2>1, <2>2, <2>3
<1> QED
  BY <1>8, <1>9, <1>10, <1>11 DEF WorkInv

\* The status of the project, and a lease that no call works under, may change at any time.
LEMMA OthersKeep ==
  ASSUME WorkInv, UNCHANGED focus, UNCHANGED <<source, cleanAt, blindAt, baseline, tree, rows, told, call>>,
         pathLease' = pathLease \/ pathLease \notin {c \in DOMAIN call : call[c].step # "idle"}
  PROVE  WorkInv'
<1>1. WorkTypes' /\ HeadsAreOld'
  BY DEF WorkInv, WorkTypes, HeadsAreOld, CleanBase, CleanOrOld, SeenClean, Making!Calls, Reading!Calls
<1>2. MakerHolds'
  BY DEF WorkInv, MakerHolds
<1> QED
  BY <1>1, <1>2 DEF WorkInv, CleanWasTrue, RegisteredOnce, Reading!CleanWasTrue, Making!RegisteredOnce

\* A request of the makers' instance takes the steps that one of the readers' takes.
LEMMA SameSteps ==
  ASSUME NEW c, Making!Step(c)
  PROVE  \/ Reading!Connect(c) \/ Reading!Refresh(c) \/ Reading!View(c) \/ Reading!StoreBaseline(c)
         \/ Reading!BeginWorktree(c) \/ Reading!Undo(c) \/ Reading!Crash(c)
         \/ Reading!CollectHead(c) \/ Reading!CollectStatus(c) \/ Reading!ReadRows(c) \/ Reading!ReadLive(c)
         \/ Reading!Answer(c)
         \/ Reading!Acquire(c) \/ Reading!GitAdd(c) \/ Reading!InsertWorktree(c)
<1>1. \A step : Making!To(c, step) = Reading!To(c, step) /\ Making!End(c) = Reading!End(c)
  BY DEF Making!To, Reading!To, Making!End, Reading!End, Making!Idle, Reading!Idle
<1>2. /\ \A a : Making!Admitted(a) = Reading!Admitted(a) /\ Making!Unpack(a) = Reading!Unpack(a)
      /\ Making!Analyzable = Reading!Analyzable /\ Making!Refused = Reading!Refused
      /\ \A d : Making!State(c, d) = Reading!State(c, d)
  BY DEF Making!Admitted, Reading!Admitted, Making!Unpack, Reading!Unpack, Making!Analyzable, Reading!Analyzable,
         Making!Refused, Reading!Refused, Making!State, Reading!State
<1>3. /\ Making!Connect(c) => Reading!Connect(c)
      /\ Making!Refresh(c) => Reading!Refresh(c)
      /\ Making!View(c) => Reading!View(c)
      /\ Making!StoreBaseline(c) => Reading!StoreBaseline(c)
  BY <1>1, <1>2 DEF Making!Connect, Reading!Connect, Making!Refresh, Reading!Refresh, Making!View, Reading!View,
                    Making!StoreBaseline, Reading!StoreBaseline
<1>4. /\ Making!BeginWorktree(c) => Reading!BeginWorktree(c)
      /\ Making!Undo(c) => Reading!Undo(c)
      /\ Making!Crash(c) => Reading!Crash(c)
  BY <1>1, <1>2 DEF Making!BeginWorktree, Reading!BeginWorktree, Making!Undo, Reading!Undo, Making!Crash, Reading!Crash
<1>5. /\ Making!CollectHead(c) => Reading!CollectHead(c)
      /\ Making!CollectStatus(c) => Reading!CollectStatus(c)
      /\ Making!ReadRows(c) => Reading!ReadRows(c)
      /\ Making!ReadLive(c) => Reading!ReadLive(c)
      /\ Making!Answer(c) => Reading!Answer(c)
  BY <1>1, <1>2 DEF Making!CollectHead, Reading!CollectHead, Making!CollectStatus, Reading!CollectStatus,
     Making!ReadRows, Reading!ReadRows, Making!ReadLive, Reading!ReadLive, Making!Answer, Reading!Answer
<1>6. /\ Making!Acquire(c) => Reading!Acquire(c)
      /\ Making!GitAdd(c) => Reading!GitAdd(c)
      /\ Making!InsertWorktree(c) => Reading!InsertWorktree(c)
  BY <1>1, <1>2 DEF Making!Acquire, Reading!Acquire, Making!GitAdd, Reading!GitAdd, Making!InsertWorktree, Reading!InsertWorktree
<1> QED
  BY <1>3, <1>4, <1>5, <1>6 DEF Making!Step

LEMMA WorkInductive == WorkInv /\ [HostNext]_hostVars => WorkInv'
<1> SUFFICES ASSUME WorkInv,
                    \/ focus = "reading" /\ Reading!Next /\ UNCHANGED focus
                    \/ focus = "making" /\ Making!Next /\ UNCHANGED focus
                    \/ UNCHANGED <<workVars, focus>>
             PROVE  WorkInv'
  BY DEF HostNext, hostVars
<1> DEFINE Calls == DOMAIN call
<1>1. ASSUME NEW c \in Calls, UNCHANGED focus,
             \/ Reading!Connect(c) \/ Reading!Refresh(c) \/ Reading!View(c) \/ Reading!StoreBaseline(c)
             \/ Reading!BeginWorktree(c) \/ Reading!Undo(c) \/ Reading!Crash(c)
             \/ Reading!CollectHead(c) \/ Reading!CollectStatus(c) \/ Reading!ReadRows(c) \/ Reading!ReadLive(c)
             \/ Reading!Answer(c)
             \/ Reading!Acquire(c) \/ Reading!GitAdd(c) \/ Reading!InsertWorktree(c)
      PROVE  WorkInv'
  BY <1>1, PlainSteps, ReadingSteps, AnswerKeeps, LeaseSteps
<1>2. CASE focus = "reading" /\ Reading!Next /\ UNCHANGED focus
  <2>1. Calls = Reading!Calls
    BY <1>2 DEF WorkInv, WorkTypes
  <2>2. CASE Reading!OwnerWorks
    BY <1>2, <2>2, OwnerKeeps
  <2>3. CASE Reading!Disconnect
    BY <1>2, <2>3, OthersKeep DEF Reading!Disconnect
  <2>4. CASE Reading!OtherHolder
    BY <1>2, <2>1, <2>4, OthersKeep DEF Reading!OtherHolder
  <2>5. ASSUME NEW c \in Reading!Calls, Reading!Step(c) PROVE WorkInv'
    BY <1>1, <1>2, <2>1, <2>5 DEF Reading!Step
  <2> QED
    BY <1>2, <2>2, <2>3, <2>4, <2>5 DEF Reading!Next
<1>3. CASE focus = "making" /\ Making!Next /\ UNCHANGED focus
  <2>1. Calls = Making!Calls
    BY <1>3 DEF WorkInv, WorkTypes
  <2>2. CASE Making!OwnerWorks
    BY <1>3, <2>2, OwnerKeeps
  <2>3. CASE Making!Disconnect
    BY <1>3, <2>3, OthersKeep DEF Making!Disconnect
  <2>4. CASE Making!OtherHolder
    BY <1>3, <2>1, <2>4, OthersKeep DEF Making!OtherHolder
  <2>5. ASSUME NEW c \in Making!Calls, Making!Step(c) PROVE WorkInv'
    BY <1>1, <1>3, <2>1, <2>5, SameSteps
  <2> QED
    BY <1>3, <2>2, <2>3, <2>4, <2>5 DEF Making!Next
<1>4. CASE UNCHANGED <<workVars, focus>>
  BY <1>4, OthersKeep DEF workVars
<1> QED
  BY <1>2, <1>3, <1>4

(* An overview that says "clean" names a head at which the source was clean or git gave no answer,  *)
(* although four commands read it and the owner commits between them (workspace.py _compute_state). *)
THEOREM CleanIsTrue == HostSpec => []CleanWasTrue
<1>1. WorkInv => CleanWasTrue
  BY DEF WorkInv
<1> QED
  BY <1>1, WorkInitially, WorkInductive, PTL DEF HostSpec

(* A worktree is registered once and only when its directory exists, however the calls that make it *)
(* overlap and wherever one is cut (workspace.py create_worktree).                                  *)
THEOREM OneRegistration == HostSpec => []RegisteredOnce
<1>1. WorkInv => RegisteredOnce
  BY DEF WorkInv
<1> QED
  BY <1>1, WorkInitially, WorkInductive, PTL DEF HostSpec

-----------------------------------------------------------------------------
(* Schema: what the migrations make and what the code needs *)

MadeBy(statements) == UNION {statements[i] : i \in 1..Len(statements)}

LEMMA MadeByBoth ==
  ASSUME NEW S, NEW s \in Seq(S), NEW t \in Seq(S)
  PROVE  MadeBy(s \o t) = MadeBy(s) \cup MadeBy(t) /\ Len(s \o t) \in Nat
<1>1. /\ Len(s \o t) = Len(s) + Len(t) /\ Len(s) \in Nat /\ Len(t) \in Nat
      /\ \A i \in 1..(Len(s) + Len(t)) : (s \o t)[i] = IF i <= Len(s) THEN s[i] ELSE t[i - Len(s)]
  BY ConcatProperties, LenProperties
<1>2. ASSUME NEW o \in MadeBy(s \o t) PROVE o \in MadeBy(s) \cup MadeBy(t)
  <2>1. PICK i \in 1..(Len(s) + Len(t)) : o \in (s \o t)[i]
    BY <1>1 DEF MadeBy
  <2>2. i <= Len(s) \/ (i - Len(s) \in 1..Len(t) /\ i > Len(s))
    BY <1>1
  <2> QED
    BY <1>1, <2>1, <2>2 DEF MadeBy
<1>3. ASSUME NEW o \in MadeBy(s) PROVE o \in MadeBy(s \o t)
  <2>1. PICK i \in 1..Len(s) : o \in s[i]
    BY DEF MadeBy
  <2>2. i \in 1..(Len(s) + Len(t)) /\ i <= Len(s)
    BY <1>1
  <2> QED
    BY <1>1, <2>1, <2>2 DEF MadeBy
<1>4. ASSUME NEW o \in MadeBy(t) PROVE o \in MadeBy(s \o t)
  <2>1. PICK i \in 1..Len(t) : o \in t[i]
    BY DEF MadeBy
  <2>2. i + Len(s) \in 1..(Len(s) + Len(t)) /\ ~(i + Len(s) <= Len(s)) /\ (i + Len(s)) - Len(s) = i
    BY <1>1
  <2>3. (s \o t)[i + Len(s)] = t[i]
    BY <1>1, <2>2
  <2> QED
    BY <1>1, <2>1, <2>2, <2>3 DEF MadeBy
<1> QED
  BY <1>1, <1>2, <1>3, <1>4

\* The tables that each revision creates, with their unique indexes.
NamesOf(k) ==
  CASE k = 1 ->
         {"audit_events"}
    [] k = 2 ->
         {"projects", "git_baselines", "worktrees", "worktree_leases"}
    [] k = 3 ->
         {"product_intakes", "briefs", "map_versions", "map_nodes", "map_edges", "decisions",
          "decision_events", "parking_items", "approvals", "vp_activations", "idempotency_keys"}
    [] k = 4 ->
         {"vp_specs", "work_orders", "work_order_events", "optimizer_decisions", "job_packages",
          "wo_checkpoints", "handoff_packages", "handoff_acks", "rotation_records"}
    [] k = 5 ->
         {"model_registry", "discovery_snapshots", "role_presets", "agent_profiles",
          "profile_states", "profile_health", "capacity_observations", "runs", "run_role_steps",
          "run_events", "provider_sessions", "router_decisions", "run_leases", "run_retries",
          "run_pauses", "handoff_links"}
    [] k = 6 ->
         {"review_packages", "quality_findings", "quality_reports", "impact_assessments",
          "evidence_cache", "manual_audits", "waivers", "fix_loops", "profile_registry_reconciles"}
    [] k = 7 ->
         {"grants", "emergency_stops", "checkpoints", "github_deliveries", "merge_evidence"}

LEMMA NamesApart == \A j, k \in 1..7 : j # k => NamesOf(j) \cap NamesOf(k) = {}
BY DEF NamesOf

\* An object is of the revision that creates its table, unless it is a column added later.
OfRevision(o, k) == o[1] \in {"table", "unique"} /\ o[2] \in NamesOf(k)

\* Each part of a migration makes tables of its own revision, among them what the code needs of it.
LEMMA OfInitial ==
  /\ \A o \in MadeBy(Data!Initial) : OfRevision(o, 1)
<1>1. Len(Data!Initial) = 1
  BY DEF Data!Initial
<1>2. MadeBy(Data!Initial) =
        Data!Initial[1]
  BY <1>1 DEF MadeBy
<1>3. \A o \in MadeBy(Data!Initial) : OfRevision(o, 1)
  BY <1>2 DEF Data!Initial, OfRevision, NamesOf, Data!Create, Data!CreateUnique, Data!Table, Data!Unique
<1> QED
  BY <1>3

LEMMA OfProjectWorkspace ==
  /\ \A o \in MadeBy(Data!ProjectWorkspace) : OfRevision(o, 2)
<1>1. Len(Data!ProjectWorkspace) = 4
  BY DEF Data!ProjectWorkspace
<1>2. MadeBy(Data!ProjectWorkspace) =
        Data!ProjectWorkspace[1] \cup Data!ProjectWorkspace[2] \cup Data!ProjectWorkspace[3] \cup Data!ProjectWorkspace[4]
  BY <1>1 DEF MadeBy
<1>3. \A o \in MadeBy(Data!ProjectWorkspace) : OfRevision(o, 2)
  BY <1>2 DEF Data!ProjectWorkspace, OfRevision, NamesOf, Data!Create, Data!CreateUnique, Data!Table, Data!Unique
<1> QED
  BY <1>3

LEMMA OfBriefTables ==
  /\ \A o \in MadeBy(Data!BriefTables) : OfRevision(o, 3)
  /\ Data!BriefModels \subseteq MadeBy(Data!BriefTables)
<1>1. Len(Data!BriefTables) = 6
  BY DEF Data!BriefTables
<1>2. MadeBy(Data!BriefTables) =
        Data!BriefTables[1] \cup Data!BriefTables[2] \cup Data!BriefTables[3] \cup Data!BriefTables[4]
          \cup Data!BriefTables[5] \cup Data!BriefTables[6]
  BY <1>1 DEF MadeBy
<1>3. \A o \in MadeBy(Data!BriefTables) : OfRevision(o, 3)
  BY <1>2 DEF Data!BriefTables, OfRevision, NamesOf, Data!Create, Data!CreateUnique, Data!Table, Data!Unique
<1>4. Data!BriefModels \subseteq MadeBy(Data!BriefTables)
  BY <1>2 DEF Data!BriefTables, Data!Create, Data!CreateUnique, Data!Tables, Data!BriefModels
<1> QED
  BY <1>3, <1>4

LEMMA OfApprovalTables ==
  /\ \A o \in MadeBy(Data!ApprovalTables) : OfRevision(o, 3)
  /\ Data!ApprovalModels \subseteq MadeBy(Data!ApprovalTables)
<1>1. Len(Data!ApprovalTables) = 5
  BY DEF Data!ApprovalTables
<1>2. MadeBy(Data!ApprovalTables) =
        Data!ApprovalTables[1] \cup Data!ApprovalTables[2] \cup Data!ApprovalTables[3] \cup Data!ApprovalTables[4]
          \cup Data!ApprovalTables[5]
  BY <1>1 DEF MadeBy
<1>3. \A o \in MadeBy(Data!ApprovalTables) : OfRevision(o, 3)
  BY <1>2 DEF Data!ApprovalTables, OfRevision, NamesOf, Data!Create, Data!CreateUnique, Data!Table, Data!Unique
<1>4. Data!ApprovalModels \subseteq MadeBy(Data!ApprovalTables)
  BY <1>2 DEF Data!ApprovalTables, Data!Create, Data!CreateUnique, Data!Tables, Data!ApprovalModels
<1> QED
  BY <1>3, <1>4

LEMMA OfWorkOrderTables ==
  /\ \A o \in MadeBy(Data!WorkOrderTables) : OfRevision(o, 4)
  /\ Data!WorkOrderModels \subseteq MadeBy(Data!WorkOrderTables)
<1>1. Len(Data!WorkOrderTables) = 5
  BY DEF Data!WorkOrderTables
<1>2. MadeBy(Data!WorkOrderTables) =
        Data!WorkOrderTables[1] \cup Data!WorkOrderTables[2] \cup Data!WorkOrderTables[3] \cup Data!WorkOrderTables[4]
          \cup Data!WorkOrderTables[5]
  BY <1>1 DEF MadeBy
<1>3. \A o \in MadeBy(Data!WorkOrderTables) : OfRevision(o, 4)
  BY <1>2 DEF Data!WorkOrderTables, OfRevision, NamesOf, Data!Create, Data!CreateUnique, Data!Table, Data!Unique
<1>4. Data!WorkOrderModels \subseteq MadeBy(Data!WorkOrderTables)
  BY <1>2 DEF Data!WorkOrderTables, Data!Create, Data!CreateUnique, Data!Tables, Data!WorkOrderModels
<1> QED
  BY <1>3, <1>4

LEMMA OfHandoffTables ==
  /\ \A o \in MadeBy(Data!HandoffTables) : OfRevision(o, 4)
  /\ Data!HandoffModels \subseteq MadeBy(Data!HandoffTables)
<1>1. Len(Data!HandoffTables) = 4
  BY DEF Data!HandoffTables
<1>2. MadeBy(Data!HandoffTables) =
        Data!HandoffTables[1] \cup Data!HandoffTables[2] \cup Data!HandoffTables[3] \cup Data!HandoffTables[4]
  BY <1>1 DEF MadeBy
<1>3. \A o \in MadeBy(Data!HandoffTables) : OfRevision(o, 4)
  BY <1>2 DEF Data!HandoffTables, OfRevision, NamesOf, Data!Create, Data!CreateUnique, Data!Table, Data!Unique
<1>4. Data!HandoffModels \subseteq MadeBy(Data!HandoffTables)
  BY <1>2 DEF Data!HandoffTables, Data!Create, Data!CreateUnique, Data!Tables, Data!HandoffModels
<1> QED
  BY <1>3, <1>4

LEMMA OfRegistryTables ==
  /\ \A o \in MadeBy(Data!RegistryTables) : OfRevision(o, 5)
  /\ Data!ProfileModels \subseteq MadeBy(Data!RegistryTables)
<1>1. Len(Data!RegistryTables) = 7
  BY DEF Data!RegistryTables
<1>2. MadeBy(Data!RegistryTables) =
        Data!RegistryTables[1] \cup Data!RegistryTables[2] \cup Data!RegistryTables[3] \cup Data!RegistryTables[4]
          \cup Data!RegistryTables[5] \cup Data!RegistryTables[6] \cup Data!RegistryTables[7]
  BY <1>1 DEF MadeBy
<1>3. \A o \in MadeBy(Data!RegistryTables) : OfRevision(o, 5)
  BY <1>2 DEF Data!RegistryTables, OfRevision, NamesOf, Data!Create, Data!CreateUnique, Data!Table, Data!Unique
<1>4. Data!ProfileModels \subseteq MadeBy(Data!RegistryTables)
  BY <1>2 DEF Data!RegistryTables, Data!Create, Data!CreateUnique, Data!Tables, Data!ProfileModels
<1> QED
  BY <1>3, <1>4

LEMMA OfRunTables ==
  /\ \A o \in MadeBy(Data!RunTables) : OfRevision(o, 5)
  /\ Data!RunModels \cup Data!RunLinkModels \subseteq MadeBy(Data!RunTables)
<1>1. Len(Data!RunTables) = 10
  BY DEF Data!RunTables
<1>2. MadeBy(Data!RunTables) =
        Data!RunTables[1] \cup Data!RunTables[2] \cup Data!RunTables[3] \cup Data!RunTables[4]
          \cup Data!RunTables[5] \cup Data!RunTables[6] \cup Data!RunTables[7] \cup Data!RunTables[8]
          \cup Data!RunTables[9] \cup Data!RunTables[10]
  BY <1>1 DEF MadeBy
<1>3. \A o \in MadeBy(Data!RunTables) : OfRevision(o, 5)
  BY <1>2 DEF Data!RunTables, OfRevision, NamesOf, Data!Create, Data!CreateUnique, Data!Table, Data!Unique
<1>4. Data!RunModels \subseteq MadeBy(Data!RunTables)
  BY <1>2 DEF Data!RunTables, Data!Create, Data!CreateUnique, Data!Tables, Data!RunModels
<1>5. Data!RunLinkModels \subseteq MadeBy(Data!RunTables)
  BY <1>2 DEF Data!RunTables, Data!Create, Data!CreateUnique, Data!Tables, Data!RunLinkModels
<1> QED
  BY <1>3, <1>4, <1>5

LEMMA OfReviewTables ==
  /\ \A o \in MadeBy(Data!ReviewTables) : OfRevision(o, 6)
  /\ Data!ReviewModels \subseteq MadeBy(Data!ReviewTables)
<1>1. Len(Data!ReviewTables) = 4
  BY DEF Data!ReviewTables
<1>2. MadeBy(Data!ReviewTables) =
        Data!ReviewTables[1] \cup Data!ReviewTables[2] \cup Data!ReviewTables[3] \cup Data!ReviewTables[4]
  BY <1>1 DEF MadeBy
<1>3. \A o \in MadeBy(Data!ReviewTables) : OfRevision(o, 6)
  BY <1>2 DEF Data!ReviewTables, OfRevision, NamesOf, Data!Create, Data!CreateUnique, Data!Table, Data!Unique
<1>4. Data!ReviewModels \subseteq MadeBy(Data!ReviewTables)
  BY <1>2 DEF Data!ReviewTables, Data!Create, Data!CreateUnique, Data!Tables, Data!ReviewModels
<1> QED
  BY <1>3, <1>4

LEMMA OfEvidenceTables ==
  /\ \A o \in MadeBy(Data!EvidenceTables) : OfRevision(o, 6)
  /\ Data!EvidenceModels \subseteq MadeBy(Data!EvidenceTables)
<1>1. Len(Data!EvidenceTables) = 5
  BY DEF Data!EvidenceTables
<1>2. MadeBy(Data!EvidenceTables) =
        Data!EvidenceTables[1] \cup Data!EvidenceTables[2] \cup Data!EvidenceTables[3] \cup Data!EvidenceTables[4]
          \cup Data!EvidenceTables[5]
  BY <1>1 DEF MadeBy
<1>3. \A o \in MadeBy(Data!EvidenceTables) : OfRevision(o, 6)
  BY <1>2 DEF Data!EvidenceTables, OfRevision, NamesOf, Data!Create, Data!CreateUnique, Data!Table, Data!Unique
<1>4. Data!EvidenceModels \subseteq MadeBy(Data!EvidenceTables)
  BY <1>2 DEF Data!EvidenceTables, Data!Create, Data!CreateUnique, Data!Tables, Data!EvidenceModels
<1> QED
  BY <1>3, <1>4

LEMMA OfAutonomyTables ==
  /\ \A o \in MadeBy(Data!AutonomyTables) : OfRevision(o, 7)
  /\ Data!MergeModels \cup Data!AutonomyModels \cup Data!TimeMachineModels \subseteq MadeBy(Data!AutonomyTables)
<1>1. Len(Data!AutonomyTables) = 7
  BY DEF Data!AutonomyTables
<1>2. MadeBy(Data!AutonomyTables) =
        Data!AutonomyTables[1] \cup Data!AutonomyTables[2] \cup Data!AutonomyTables[3] \cup Data!AutonomyTables[4]
          \cup Data!AutonomyTables[5] \cup Data!AutonomyTables[6] \cup Data!AutonomyTables[7]
  BY <1>1 DEF MadeBy
<1>3. \A o \in MadeBy(Data!AutonomyTables) : OfRevision(o, 7)
  BY <1>2 DEF Data!AutonomyTables, OfRevision, NamesOf, Data!Create, Data!CreateUnique, Data!Table, Data!Unique
<1>4. Data!MergeModels \subseteq MadeBy(Data!AutonomyTables)
  BY <1>2 DEF Data!AutonomyTables, Data!Create, Data!CreateUnique, Data!Tables, Data!MergeModels
<1>5. Data!AutonomyModels \subseteq MadeBy(Data!AutonomyTables)
  BY <1>2 DEF Data!AutonomyTables, Data!Create, Data!CreateUnique, Data!Tables, Data!AutonomyModels
<1>6. Data!TimeMachineModels \subseteq MadeBy(Data!AutonomyTables)
  BY <1>2 DEF Data!AutonomyTables, Data!Create, Data!CreateUnique, Data!Tables, Data!TimeMachineModels
<1> QED
  BY <1>3, <1>4, <1>5, <1>6

LEMMA OfAddedColumns ==
  /\ \A o \in MadeBy(Data!AddedColumns) : o[1] = "column"
  /\ Data!LateColumns \subseteq MadeBy(Data!AddedColumns)
<1>1. Len(Data!AddedColumns) = 7
  BY DEF Data!AddedColumns
<1>2. MadeBy(Data!AddedColumns) =
        Data!AddedColumns[1] \cup Data!AddedColumns[2] \cup Data!AddedColumns[3] \cup Data!AddedColumns[4]
          \cup Data!AddedColumns[5] \cup Data!AddedColumns[6] \cup Data!AddedColumns[7]
  BY <1>1 DEF MadeBy
<1>3. \A o \in MadeBy(Data!AddedColumns) : o[1] = "column"
  BY <1>2 DEF Data!AddedColumns, Data!Column
<1>4. Data!LateColumns \subseteq MadeBy(Data!AddedColumns)
  BY <1>2 DEF Data!AddedColumns, Data!LateColumns
<1> QED
  BY <1>3, <1>4

\* What a migration of two parts makes.
LEMMA TwoParts ==
  /\ MadeBy(Data!Migrations[3]) = MadeBy(Data!BriefTables) \cup MadeBy(Data!ApprovalTables) /\ Len(Data!Migrations[3]) \in Nat
  /\ MadeBy(Data!Migrations[4]) = MadeBy(Data!WorkOrderTables) \cup MadeBy(Data!HandoffTables) /\ Len(Data!Migrations[4]) \in Nat
  /\ MadeBy(Data!Migrations[5]) = MadeBy(Data!RegistryTables) \cup MadeBy(Data!RunTables) /\ Len(Data!Migrations[5]) \in Nat
  /\ MadeBy(Data!Migrations[6]) = MadeBy(Data!ReviewTables) \cup MadeBy(Data!EvidenceTables) /\ Len(Data!Migrations[6]) \in Nat
  /\ MadeBy(Data!Migrations[7]) = MadeBy(Data!AutonomyTables) \cup MadeBy(Data!AddedColumns) /\ Len(Data!Migrations[7]) \in Nat
<1>1. MadeBy(Data!Migrations[3]) = MadeBy(Data!BriefTables) \cup MadeBy(Data!ApprovalTables) /\ Len(Data!Migrations[3]) \in Nat
  <2> DEFINE S == {Data!BriefTables[i] : i \in 1..6} \cup {Data!ApprovalTables[i] : i \in 1..5}
  <2>1. Data!BriefTables \in Seq(S) /\ Data!ApprovalTables \in Seq(S)
    BY DEF Data!BriefTables, Data!ApprovalTables
  <2>2. Data!Migrations[3] = Data!BriefTables \o Data!ApprovalTables
    BY DEF Data!Migrations
  <2> HIDE DEF S
  <2> QED
    BY <2>1, <2>2, MadeByBoth
<1>2. MadeBy(Data!Migrations[4]) = MadeBy(Data!WorkOrderTables) \cup MadeBy(Data!HandoffTables) /\ Len(Data!Migrations[4]) \in Nat
  <2> DEFINE S == {Data!WorkOrderTables[i] : i \in 1..5} \cup {Data!HandoffTables[i] : i \in 1..4}
  <2>1. Data!WorkOrderTables \in Seq(S) /\ Data!HandoffTables \in Seq(S)
    BY DEF Data!WorkOrderTables, Data!HandoffTables
  <2>2. Data!Migrations[4] = Data!WorkOrderTables \o Data!HandoffTables
    BY DEF Data!Migrations
  <2> HIDE DEF S
  <2> QED
    BY <2>1, <2>2, MadeByBoth
<1>3. MadeBy(Data!Migrations[5]) = MadeBy(Data!RegistryTables) \cup MadeBy(Data!RunTables) /\ Len(Data!Migrations[5]) \in Nat
  <2> DEFINE S == {Data!RegistryTables[i] : i \in 1..7} \cup {Data!RunTables[i] : i \in 1..10}
  <2>1. Data!RegistryTables \in Seq(S) /\ Data!RunTables \in Seq(S)
    BY DEF Data!RegistryTables, Data!RunTables
  <2>2. Data!Migrations[5] = Data!RegistryTables \o Data!RunTables
    BY DEF Data!Migrations
  <2> HIDE DEF S
  <2> QED
    BY <2>1, <2>2, MadeByBoth
<1>4. MadeBy(Data!Migrations[6]) = MadeBy(Data!ReviewTables) \cup MadeBy(Data!EvidenceTables) /\ Len(Data!Migrations[6]) \in Nat
  <2> DEFINE S == {Data!ReviewTables[i] : i \in 1..4} \cup {Data!EvidenceTables[i] : i \in 1..5}
  <2>1. Data!ReviewTables \in Seq(S) /\ Data!EvidenceTables \in Seq(S)
    BY DEF Data!ReviewTables, Data!EvidenceTables
  <2>2. Data!Migrations[6] = Data!ReviewTables \o Data!EvidenceTables
    BY DEF Data!Migrations
  <2> HIDE DEF S
  <2> QED
    BY <2>1, <2>2, MadeByBoth
<1>5. MadeBy(Data!Migrations[7]) = MadeBy(Data!AutonomyTables) \cup MadeBy(Data!AddedColumns) /\ Len(Data!Migrations[7]) \in Nat
  <2> DEFINE S == {Data!AutonomyTables[i] : i \in 1..7} \cup {Data!AddedColumns[i] : i \in 1..7}
  <2>1. Data!AutonomyTables \in Seq(S) /\ Data!AddedColumns \in Seq(S)
    BY DEF Data!AutonomyTables, Data!AddedColumns
  <2>2. Data!Migrations[7] = Data!AutonomyTables \o Data!AddedColumns
    BY DEF Data!Migrations
  <2> HIDE DEF S
  <2> QED
    BY <2>1, <2>2, MadeByBoth
<1> QED
  BY <1>1, <1>2, <1>3, <1>4, <1>5

LEMMA OfMigration ==
  \A k \in 1..7 : \A o \in MadeBy(Data!Migrations[k]) : OfRevision(o, k) \/ (k = 7 /\ o[1] = "column")
<1>1. \A o \in MadeBy(Data!Migrations[1]) : OfRevision(o, 1)
  BY OfInitial DEF Data!Migrations
<1>2. \A o \in MadeBy(Data!Migrations[2]) : OfRevision(o, 2)
  BY OfProjectWorkspace DEF Data!Migrations
<1>3. \A o \in MadeBy(Data!Migrations[3]) : OfRevision(o, 3)
  BY TwoParts, OfBriefTables, OfApprovalTables
<1>4. \A o \in MadeBy(Data!Migrations[4]) : OfRevision(o, 4)
  BY TwoParts, OfWorkOrderTables, OfHandoffTables
<1>5. \A o \in MadeBy(Data!Migrations[5]) : OfRevision(o, 5)
  BY TwoParts, OfRegistryTables, OfRunTables
<1>6. \A o \in MadeBy(Data!Migrations[6]) : OfRevision(o, 6)
  BY TwoParts, OfReviewTables, OfEvidenceTables
<1>7. \A o \in MadeBy(Data!Migrations[7]) : OfRevision(o, 7) \/ o[1] = "column"
  BY TwoParts, OfAutonomyTables, OfAddedColumns
<1> QED
  BY <1>1, <1>2, <1>3, <1>4, <1>5, <1>6, <1>7

\* What one revision takes away no other had made.
LEMMA MigrationsApart ==
  \A j, k \in 1..7 : j # k => MadeBy(Data!Migrations[j]) \cap MadeBy(Data!Migrations[k]) = {}
<1> SUFFICES ASSUME NEW j \in 1..7, NEW k \in 1..7, j # k,
                    NEW o, o \in MadeBy(Data!Migrations[j]), o \in MadeBy(Data!Migrations[k])
             PROVE  FALSE
  OBVIOUS
<1>1. OfRevision(o, j) \/ (j = 7 /\ o[1] = "column")
  BY OfMigration
<1>2. OfRevision(o, k) \/ (k = 7 /\ o[1] = "column")
  BY OfMigration
<1>3. ~(OfRevision(o, j) /\ OfRevision(o, k))
  BY NamesApart DEF OfRevision
<1> QED
  BY <1>1, <1>2, <1>3 DEF OfRevision

MadeUpTo(r) == UNION {MadeBy(Data!Migrations[k]) : k \in 1..r}

LEMMA NextRevision ==
  ASSUME NEW r \in Nat
  PROVE  MadeUpTo(r + 1) = MadeUpTo(r) \cup MadeBy(Data!Migrations[r + 1])
<1>1. \A k : k \in 1..(r + 1) <=> k \in 1..r \/ k = r + 1
  OBVIOUS
<1> QED
  BY <1>1 DEF MadeUpTo

\* The migrations up to its head make all that the code of a release needs.
LEMMA NeedsAreMade == \A r \in {5, 6, 7} : Data!Needs(r) \subseteq MadeUpTo(r)
<1> SUFFICES ASSUME NEW r \in {5, 6, 7} PROVE Data!Needs(r) \subseteq MadeUpTo(r)
  OBVIOUS
<1>1. \A k \in 1..5 : MadeBy(Data!Migrations[k]) \subseteq MadeUpTo(r)
  <2>1. \A k \in 1..5 : k \in 1..r
    OBVIOUS
  <2> QED
    BY <2>1 DEF MadeUpTo
<1>2. /\ r >= 6 => MadeBy(Data!Migrations[6]) \subseteq MadeUpTo(r)
      /\ r >= 7 => MadeBy(Data!Migrations[7]) \subseteq MadeUpTo(r)
  <2>1. (r >= 6 => 6 \in 1..r) /\ (r >= 7 => 7 \in 1..r)
    OBVIOUS
  <2> QED
    BY <2>1 DEF MadeUpTo
<1>3. Data!WorkspaceModels \subseteq MadeUpTo(r)
  <2>1. /\ MadeBy(Data!Migrations[1]) = MadeBy(Data!Initial)
        /\ MadeBy(Data!Migrations[2]) = MadeBy(Data!ProjectWorkspace)
    BY DEF Data!Migrations
  <2>2. MadeBy(Data!Initial) \cup MadeBy(Data!ProjectWorkspace) \subseteq MadeUpTo(r)
    BY <1>1, <2>1
  <2>3. Data!Table("audit_events") \in MadeBy(Data!Initial)
    <3>1. Len(Data!Initial) = 1 /\ Data!Table("audit_events") \in Data!Initial[1]
      BY DEF Data!Initial, Data!Create
    <3> QED
      BY <3>1 DEF MadeBy
  <2>4. /\ Data!Table("projects") \in MadeBy(Data!ProjectWorkspace)
        /\ Data!Table("git_baselines") \in MadeBy(Data!ProjectWorkspace)
        /\ Data!Table("worktrees") \in MadeBy(Data!ProjectWorkspace)
        /\ Data!Table("worktree_leases") \in MadeBy(Data!ProjectWorkspace)
        /\ Data!Unique("worktree_leases", {"worktree", "released_at"}) \in MadeBy(Data!ProjectWorkspace)
    <3>1. /\ Len(Data!ProjectWorkspace) = 4
          /\ Data!Table("projects") \in Data!ProjectWorkspace[1]
          /\ Data!Table("git_baselines") \in Data!ProjectWorkspace[2]
          /\ Data!Table("worktrees") \in Data!ProjectWorkspace[3]
          /\ Data!Table("worktree_leases") \in Data!ProjectWorkspace[4]
          /\ Data!Unique("worktree_leases", {"worktree", "released_at"}) \in Data!ProjectWorkspace[4]
      BY DEF Data!ProjectWorkspace, Data!Create, Data!CreateUnique
    <3> QED
      BY <3>1 DEF MadeBy
  <2>5. Data!WorkspaceModels \subseteq MadeBy(Data!Initial) \cup MadeBy(Data!ProjectWorkspace)
    BY <2>3, <2>4 DEF Data!WorkspaceModels, Data!Tables
  <2> QED
    BY <2>2, <2>5
<1>4. Data!BriefModels \cup Data!ApprovalModels \subseteq MadeUpTo(r)
  BY <1>1, TwoParts, OfBriefTables, OfApprovalTables
<1>5. Data!WorkOrderModels \cup Data!HandoffModels \subseteq MadeUpTo(r)
  BY <1>1, TwoParts, OfWorkOrderTables, OfHandoffTables
<1>6. Data!ProfileModels \cup Data!RunModels \cup Data!RunLinkModels \subseteq MadeUpTo(r)
  BY <1>1, TwoParts, OfRegistryTables, OfRunTables
<1>7. r >= 6 => Data!ReviewModels \cup Data!EvidenceModels \subseteq MadeUpTo(r)
  BY <1>2, TwoParts, OfReviewTables, OfEvidenceTables
<1>8. r >= 7 => Data!MergeModels \cup Data!AutonomyModels \cup Data!TimeMachineModels \cup Data!LateColumns \subseteq MadeUpTo(r)
  BY <1>2, TwoParts, OfAutonomyTables, OfAddedColumns
<1> QED
  BY <1>3, <1>4, <1>5, <1>6, <1>7, <1>8 DEF Data!Needs

-----------------------------------------------------------------------------
DatabaseFile == [objects : SUBSET MadeUpTo(7), stamp : 0..7, torn : BOOLEAN]
Phases == {"down", "upgrade", "check", "serving", "downgrade"}

\* The stamp of a file that no downgrade tore vouches for the revisions below it.
StampIsTrue(f) == ~f.torn => MadeUpTo(f.stamp) \subseteq f.objects

SchemaInv ==
  /\ release \in {5, 6, 7}
  /\ db \in DatabaseFile /\ saved \in DatabaseFile
  /\ process \in [pc : Phases, step : Nat]
  /\ StampIsTrue(db) /\ StampIsTrue(saved)
  /\ process.pc = "upgrade" /\ db.stamp < release =>
       \A i \in 1..process.step : i <= Len(Data!Statements) => Data!Statements[i] \subseteq db.objects
  /\ process.pc = "downgrade" => db.stamp \in 1..7 /\ MadeUpTo(db.stamp - 1) \subseteq db.objects
  /\ process.pc = "serving" => db.stamp = release

LEMMA SchemaInitially == HostInit => SchemaInv
<1> SUFFICES ASSUME HostInit PROVE SchemaInv
  OBVIOUS
<1>1. /\ release \in Releases /\ process = [pc |-> "down", step |-> 0]
      /\ db = [objects |-> {}, stamp |-> 0, torn |-> FALSE] /\ saved = [objects |-> {}, stamp |-> 0, torn |-> FALSE]
  BY DEF HostInit, Data!Init, Data!Empty
<1>2. release \in {5, 6, 7}
  BY <1>1, HostAssumption
<1>3. MadeUpTo(0) = {}
  BY DEF MadeUpTo
<1>4. db \in DatabaseFile /\ saved \in DatabaseFile /\ process \in [pc : Phases, step : Nat]
  BY <1>1 DEF DatabaseFile, Phases
<1>5. StampIsTrue(db) /\ StampIsTrue(saved)
  BY <1>1, <1>3 DEF StampIsTrue
<1> QED
  BY <1>1, <1>2, <1>4, <1>5 DEF SchemaInv

\* The database keeps still.
LEMMA FileKeeps ==
  ASSUME SchemaInv, UNCHANGED db, saved' = saved \/ saved' = db, release' \in {5, 6, 7},
         process' \in [pc : Phases, step : Nat],
         \/ UNCHANGED <<process, release>>
         \/ process'.pc \in {"down", "check"}
         \/ process'.pc = "upgrade" /\ process'.step = 0
         \/ process'.pc = "serving" /\ db.stamp = release'
         \/ process'.pc = "downgrade" /\ ~db.torn /\ db.stamp \in 1..7
  PROVE  SchemaInv'
<1>1. Data!Statements' = Data!Statements
  BY DEF Data!Statements
<1>2. StampIsTrue(db)' /\ StampIsTrue(saved)'
  BY DEF SchemaInv, StampIsTrue
<1>3. process'.pc = "downgrade" => db.stamp \in 1..7 /\ MadeUpTo(db.stamp - 1) \subseteq db.objects
  <2>1. CASE UNCHANGED <<process, release>>
    BY <2>1 DEF SchemaInv
  <2>2. CASE process'.pc = "downgrade" /\ ~db.torn /\ db.stamp \in 1..7
    <3>1. \A k : k \in 1..(db.stamp - 1) => k \in 1..db.stamp
      BY <2>2
    <3>2. MadeUpTo(db.stamp - 1) \subseteq MadeUpTo(db.stamp)
      BY <3>1 DEF MadeUpTo
    <3> QED
      BY <2>2, <3>2 DEF SchemaInv, StampIsTrue
  <2> QED
    BY <2>1, <2>2
<1>4. process'.pc = "upgrade" /\ db.stamp < release' =>
        \A i \in 1..process'.step : i <= Len(Data!Statements) => Data!Statements[i] \subseteq db.objects
  BY DEF SchemaInv
<1>5. db' \in DatabaseFile /\ saved' \in DatabaseFile
  BY DEF SchemaInv
<1> QED
  BY <1>1, <1>2, <1>3, <1>4, <1>5 DEF SchemaInv

\* A statement of a migration makes objects of that migration.
LEMMA StatementMakes ==
  ASSUME NEW k \in 1..7, NEW i \in 1..Len(Data!Migrations[k])
  PROVE  /\ Data!Migrations[k][i] \subseteq MadeBy(Data!Migrations[k])
         /\ Data!Migrations[k][i] \subseteq MadeUpTo(7)
         /\ Data!Migrations[k][i] \cap MadeUpTo(k - 1) = {}
<1>1. Data!Migrations[k][i] \subseteq MadeBy(Data!Migrations[k])
  BY DEF MadeBy
<1>2. MadeBy(Data!Migrations[k]) \subseteq MadeUpTo(7)
  BY DEF MadeUpTo
<1>3. \A j \in 1..(k - 1) : j \in 1..7 /\ j # k
  OBVIOUS
<1>4. MadeBy(Data!Migrations[k]) \cap MadeUpTo(k - 1) = {}
  BY <1>3, MigrationsApart DEF MadeUpTo
<1> QED
  BY <1>1, <1>2, <1>4

LEMMA MigrationsHaveLength == \A k \in 1..7 : Len(Data!Migrations[k]) \in Nat
<1>1. Len(Data!Migrations[1]) \in Nat /\ Len(Data!Migrations[2]) \in Nat
  BY DEF Data!Migrations, Data!Initial, Data!ProjectWorkspace
<1> QED
  BY <1>1, TwoParts

LEMMA UpgradeKeeps == SchemaInv /\ Data!Upgrade => SchemaInv'
<1> SUFFICES ASSUME SchemaInv, Data!Upgrade PROVE SchemaInv'
  OBVIOUS
<1>1. CASE Data!Statements[process.step + 1] \cap db.objects = {}
  <2>1. PICK made : made = Data!Statements[process.step + 1]
    OBVIOUS
  <2>2. /\ db' = [db EXCEPT !.objects = db.objects \cup made]
        /\ process' = [pc |-> "upgrade", step |-> process.step + 1]
        /\ UNCHANGED <<release, saved>> /\ process.pc = "upgrade"
        /\ db.stamp < release /\ process.step < Len(Data!Statements)
    BY <1>1, <2>1 DEF Data!Upgrade, Data!At
  <2>3. db.stamp + 1 \in 1..7 /\ process.step \in Nat /\ process.step + 1 \in Nat
    BY <2>2 DEF SchemaInv, DatabaseFile
  <2>4. Len(Data!Statements) \in Nat
    BY <2>3, MigrationsHaveLength DEF Data!Statements
  <2>5. process.step + 1 \in 1..Len(Data!Statements)
    BY <2>2, <2>3, <2>4
  <2>6. made \subseteq MadeUpTo(7)
    BY <2>1, <2>3, <2>5, StatementMakes DEF Data!Statements
  <2>7. /\ db' \in DatabaseFile /\ db'.stamp = db.stamp /\ db'.torn = db.torn
        /\ db'.objects = db.objects \cup made
    BY <2>2, <2>6 DEF SchemaInv, DatabaseFile
  <2>8. process' \in [pc : Phases, step : Nat] /\ process'.pc = "upgrade" /\ process'.step = process.step + 1
    BY <2>2, <2>3 DEF Phases
  <2>9. Data!Statements' = Data!Statements
    BY <2>7 DEF Data!Statements
  <2>10. \A i \in 1..(process.step + 1) : Data!Statements[i] \subseteq db.objects \cup made
    <3>1. \A i \in 1..(process.step + 1) : i \in 1..process.step \/ i = process.step + 1
      BY <2>3
    <3>2. \A i \in 1..process.step : i <= Len(Data!Statements)
      BY <2>3, <2>4, <2>5
    <3>3. \A i \in 1..process.step : Data!Statements[i] \subseteq db.objects
      BY <2>2, <3>2 DEF SchemaInv
    <3> QED
      BY <2>1, <3>1, <3>3
  <2>11. StampIsTrue(db)' /\ StampIsTrue(saved)'
    BY <2>2, <2>7 DEF SchemaInv, StampIsTrue
  <2> QED
    BY <2>2, <2>7, <2>8, <2>9, <2>10, <2>11 DEF SchemaInv
<1>2. CASE ~(Data!Statements[process.step + 1] \cap db.objects = {})
  <2>1. UNCHANGED <<db, saved, release>> /\ process' = [pc |-> "down", step |-> 0]
    BY <1>2 DEF Data!Upgrade, Data!Down
  <2>2. process' \in [pc : Phases, step : Nat] /\ process'.pc = "down" /\ release' \in {5, 6, 7}
    BY <2>1 DEF Phases, SchemaInv
  <2> QED
    BY <2>1, <2>2, FileKeeps
<1> QED
  BY <1>1, <1>2

LEMMA StampKeeps == SchemaInv /\ Data!Stamp => SchemaInv'
<1> SUFFICES ASSUME SchemaInv, Data!Stamp PROVE SchemaInv'
  OBVIOUS
<1>1. /\ db' = [db EXCEPT !.stamp = db.stamp + 1] /\ process' = [pc |-> "upgrade", step |-> 0]
      /\ UNCHANGED <<release, saved>> /\ process.pc = "upgrade"
      /\ db.stamp < release /\ process.step = Len(Data!Statements)
  BY DEF Data!Stamp, Data!At, Data!Complete
<1>2. db.stamp + 1 \in 1..7 /\ db.stamp \in Nat
  BY <1>1 DEF SchemaInv, DatabaseFile
<1>3. Len(Data!Statements) \in Nat
  BY <1>2, MigrationsHaveLength DEF Data!Statements
<1>4. \A i \in 1..Len(Data!Statements) : Data!Statements[i] \subseteq db.objects
  BY <1>1, <1>3 DEF SchemaInv
<1>5. MadeBy(Data!Migrations[db.stamp + 1]) \subseteq db.objects
  BY <1>4 DEF MadeBy, Data!Statements
<1>6. MadeUpTo(db.stamp + 1) = MadeUpTo(db.stamp) \cup MadeBy(Data!Migrations[db.stamp + 1])
  BY <1>2, NextRevision
<1>7. db' \in DatabaseFile /\ db'.stamp = db.stamp + 1 /\ db'.torn = db.torn /\ db'.objects = db.objects
  BY <1>1, <1>2 DEF SchemaInv, DatabaseFile
<1>8. StampIsTrue(db)' /\ StampIsTrue(saved)'
  BY <1>1, <1>5, <1>6, <1>7 DEF SchemaInv, StampIsTrue
<1>9. process' \in [pc : Phases, step : Nat] /\ process'.pc = "upgrade" /\ process'.step = 0
  BY <1>1 DEF Phases
<1> QED
  BY <1>1, <1>7, <1>8, <1>9 DEF SchemaInv

LEMMA DowngradeKeeps == SchemaInv /\ Data!Downgrade => SchemaInv'
<1> SUFFICES ASSUME SchemaInv, Data!Downgrade PROVE SchemaInv'
  OBVIOUS
<1>1. process.pc = "downgrade" /\ UNCHANGED <<release, saved>>
  BY DEF Data!Downgrade
<1>2. /\ db.stamp \in 1..7 /\ db.stamp - 1 \in 0..7 /\ MadeUpTo(db.stamp - 1) \subseteq db.objects
      /\ process.step \in Nat /\ process.step + 1 \in Nat
  BY <1>1 DEF SchemaInv
<1>3. PICK last : last = Data!Migrations[db.stamp]
  OBVIOUS
<1>4. Len(last) \in Nat
  BY <1>2, <1>3, MigrationsHaveLength
<1>5. CASE process.step < Len(last)
  <2>1. PICK gone : gone = last[Len(last) - process.step]
    OBVIOUS
  <2>2. /\ db' = [db EXCEPT !.objects = db.objects \ gone, !.torn = TRUE]
        /\ process' = [pc |-> "downgrade", step |-> process.step + 1]
    BY <1>3, <1>5, <2>1 DEF Data!Downgrade, Data!At
  <2>3. Len(last) - process.step \in 1..Len(last)
    BY <1>2, <1>4, <1>5
  <2>4. gone \cap MadeUpTo(db.stamp - 1) = {}
    BY <1>2, <1>3, <2>1, <2>3, StatementMakes
  <2>5. db' \in DatabaseFile /\ db'.stamp = db.stamp /\ db'.torn /\ db'.objects = db.objects \ gone
    BY <2>2 DEF SchemaInv, DatabaseFile
  <2>6. process' \in [pc : Phases, step : Nat] /\ process'.pc = "downgrade"
    BY <1>2, <2>2 DEF Phases
  <2>7. MadeUpTo(db'.stamp - 1) \subseteq db'.objects
    BY <1>2, <2>4, <2>5
  <2>8. StampIsTrue(db)' /\ StampIsTrue(saved)'
    BY <1>1, <2>5 DEF SchemaInv, StampIsTrue
  <2> QED
    BY <1>1, <1>2, <2>5, <2>6, <2>7, <2>8 DEF SchemaInv
<1>6. CASE ~(process.step < Len(last))
  <2>1. /\ db' = [db EXCEPT !.stamp = db.stamp - 1, !.torn = FALSE]
        /\ process' = [pc |-> "down", step |-> 0]
    BY <1>3, <1>6 DEF Data!Downgrade, Data!Down
  <2>2. db' \in DatabaseFile /\ db'.stamp = db.stamp - 1 /\ db'.objects = db.objects
    BY <1>2, <2>1 DEF SchemaInv, DatabaseFile
  <2>3. StampIsTrue(db)' /\ StampIsTrue(saved)'
    BY <1>1, <1>2, <2>2 DEF SchemaInv, StampIsTrue
  <2>4. process' \in [pc : Phases, step : Nat] /\ process'.pc = "down"
    BY <2>1 DEF Phases
  <2> QED
    BY <1>1, <2>2, <2>3, <2>4 DEF SchemaInv
<1> QED
  BY <1>5, <1>6

LEMMA SchemaInductive == SchemaInv /\ [HostNext]_hostVars => SchemaInv'
<1> SUFFICES ASSUME SchemaInv, Data!Next \/ UNCHANGED schemaVars PROVE SchemaInv'
  BY DEF HostNext, hostVars
<1>1. \A phase \in Phases : [pc |-> phase, step |-> 0] \in [pc : Phases, step : Nat]
  OBVIOUS
<1>2. "down" \in Phases /\ "upgrade" \in Phases /\ "check" \in Phases /\ "serving" \in Phases /\ "downgrade" \in Phases
  BY DEF Phases
<1>3. release \in {5, 6, 7} /\ process \in [pc : Phases, step : Nat]
  BY DEF SchemaInv
<1>4. ASSUME NEW r \in Releases, Data!Deploy(r) PROVE SchemaInv'
  <2>1. /\ UNCHANGED <<db, process, saved>> /\ release' \in {5, 6, 7} /\ process.pc = "down"
    BY <1>4, HostAssumption DEF Data!Deploy, Data!Down
  <2> QED
    BY <1>3, <2>1, FileKeeps
<1>5. CASE Data!Start
  BY <1>1, <1>2, <1>3, <1>5, FileKeeps DEF Data!Start, Data!At
<1>6. CASE Data!Upgrade
  BY <1>6, UpgradeKeeps
<1>7. CASE Data!Stamp
  BY <1>7, StampKeeps
<1>8. CASE Data!UpgradeEnds
  BY <1>1, <1>2, <1>3, <1>8, FileKeeps DEF Data!UpgradeEnds, Data!At, Data!Down
<1>9. CASE Data!Check
  BY <1>1, <1>2, <1>3, <1>9, FileKeeps DEF Data!Check, Data!At, Data!Down
<1>10. CASE Data!Stop
  BY <1>1, <1>2, <1>3, <1>10, FileKeeps DEF Data!Stop, Data!Down
<1>11. CASE Data!DowngradeStart
  BY <1>1, <1>2, <1>3, <1>11, FileKeeps, HostAssumption DEF Data!DowngradeStart, Data!At
<1>12. CASE Data!Downgrade
  BY <1>12, DowngradeKeeps
<1>13. CASE Data!Backup
  BY <1>3, <1>13, FileKeeps DEF Data!Backup
<1>14. CASE Data!Restore
  <2>1. UNCHANGED <<release, process, saved>> /\ db' = saved /\ process.pc = "down"
    BY <1>14 DEF Data!Restore, Data!Down
  <2> QED
    BY <2>1 DEF SchemaInv, StampIsTrue
<1>15. CASE UNCHANGED schemaVars
  BY <1>3, <1>15, FileKeeps DEF schemaVars
<1> QED
  BY <1>4, <1>5, <1>6, <1>7, <1>8, <1>9, <1>10, <1>11, <1>12, <1>13, <1>14, <1>15 DEF Data!Next

(* Core serves only on a schema with every table, column and unique index its code relies on, for   *)
(* every interleaving of upgrades cut short, releases, downgrades and restored backups, except one  *)
(* that a downgrade tore (schema_check.py, core-entrypoint.sh).                                     *)
THEOREM ServedSchemaIsComplete == HostSpec => []ServesCompleteSchema
<1>1. SchemaInv => ServesCompleteSchema
  BY NeedsAreMade DEF SchemaInv, StampIsTrue, ServesCompleteSchema, Data!ServesCompleteSchema
<1> QED
  BY <1>1, SchemaInitially, SchemaInductive, PTL DEF HostSpec

-----------------------------------------------------------------------------
(* AgentPool: the choice of a Builder *)

Full(r) == \E w \in DOMAIN r.limits : r.limits[w] = "rejected"

\* A row that shows a rejected window says so in its status, or was carried over by a failed probe.
ReadingIsSound(r) == Full(r) => r.status \in {"EXHAUSTED", "STALE"}

PoolInv ==
  /\ DOMAIN reading = Aliases
  /\ \A a \in Aliases : ReadingIsSound(reading[a])
  /\ ChosenIsFit

LEMMA PoolInitially == HostInit => PoolInv
<1> SUFFICES ASSUME HostInit PROVE PoolInv
  OBVIOUS
<1>1. reading = [a \in Aliases |-> Pool!NoLimits] /\ chosen = Pool!Nobody
  BY DEF HostInit, Pool!Init
<1>2. ReadingIsSound(Pool!NoLimits)
  BY DEF ReadingIsSound, Full, Pool!NoLimits
<1>3. ChosenIsFit
  BY <1>1 DEF ChosenIsFit, Pool!ChosenIsFit
<1> QED
  BY <1>1, <1>2, <1>3 DEF PoolInv

\* Whatever a probe answers, the row that is written is sound.
LEMMA PersistIsSound ==
  ASSUME PoolInv, NEW a, NEW limits, Pool!Persist(a, limits)
  PROVE  DOMAIN reading' = Aliases /\ \A b \in Aliases : ReadingIsSound(reading'[b])
<1>1. CASE limits = <<>>
  <2>1. reading' = [reading EXCEPT ![a] = Pool!Carried(reading[a])]
    BY <1>1 DEF Pool!Persist
  <2>2. ReadingIsSound(Pool!Carried(reading[a]))
    BY DEF ReadingIsSound, Full, Pool!Carried, Pool!NoLimits
  <2> QED
    BY <2>1, <2>2 DEF PoolInv
<1>2. CASE limits # <<>>
  <2>1. reading' = [reading EXCEPT ![a] = Pool!Observed(limits)]
    BY <1>2 DEF Pool!Persist
  <2>2. ReadingIsSound(Pool!Observed(limits))
    BY DEF ReadingIsSound, Full, Pool!Observed, Pool!StatusOf
  <2> QED
    BY <2>1, <2>2 DEF PoolInv
<1> QED
  BY <1>1, <1>2

\* Among candidates that are eligible the answer is fit, whichever is the best of them.
LEMMA SelectionIsFit ==
  ASSUME PoolInv, NEW S, \A a \in S : a \in Aliases /\ Pool!Eligible(a), Pool!SelectBuilder(S)
  PROVE  ChosenIsFit'
<1>1. CASE S = {}
  BY <1>1 DEF Pool!SelectBuilder, ChosenIsFit, Pool!ChosenIsFit
<1>2. CASE S # {}
  <2>1. PICK a \in Pool!Best(S) : chosen' = Pool!Answer(a)
    BY <1>2 DEF Pool!SelectBuilder
  <2>2. a \in Aliases /\ Pool!Eligible(a)
    BY DEF Pool!Best
  <2>3. row[a] = "enabled" /\ Pool!ShownStatus(a) # "EXHAUSTED" /\ ReadingIsSound(reading[a])
    BY <2>2 DEF Pool!Eligible, Pool!PoolMember, PoolInv
  <2>4. Full(reading[a]) => Pool!ShownStatus(a) = "STALE"
    BY <2>3 DEF ReadingIsSound, Pool!ShownStatus
  <2>5. /\ chosen'.enabled = (row[a] = "enabled")
        /\ chosen'.limits = reading[a].limits /\ chosen'.shown = Pool!ShownStatus(a)
    BY <2>1 DEF Pool!Answer
  <2>6. chosen'.enabled
    BY <2>3, <2>5
  <2> QED
    BY <2>4, <2>5, <2>6 DEF ChosenIsFit, Pool!ChosenIsFit, Full
<1> QED
  BY <1>1, <1>2

LEMMA PoolInductive == PoolInv /\ [HostNext]_hostVars => PoolInv'
<1> SUFFICES ASSUME PoolInv, Pool!Next \/ UNCHANGED poolVars PROVE PoolInv'
  BY DEF HostNext, hostVars
<1>1. CASE UNCHANGED <<reading, chosen>>
  BY <1>1 DEF PoolInv, ChosenIsFit, Pool!ChosenIsFit
<1>2. CASE Pool!FinishRefresh
  <2>1. chosen' = chosen
    BY <1>2 DEF Pool!FinishRefresh
  <2>2. PICK limits : Pool!Persist(refresh.alias, limits)
    BY <1>2 DEF Pool!FinishRefresh
  <2>3. DOMAIN reading' = Aliases /\ \A b \in Aliases : ReadingIsSound(reading'[b])
    BY <2>2, PersistIsSound
  <2> QED
    BY <2>1, <2>3 DEF PoolInv, ChosenIsFit, Pool!ChosenIsFit
<1>3. CASE Pool!Route
  <2>1. UNCHANGED reading
    BY <1>3 DEF Pool!Route, Pool!capacityRows
  <2> DEFINE S == {a \in Aliases : Pool!Eligible(a)}
  <2>2. Pool!SelectBuilder(S)
    BY <1>3 DEF Pool!Route
  <2>3. \A a \in S : a \in Aliases /\ Pool!Eligible(a)
    OBVIOUS
  <2> HIDE DEF S
  <2>4. ChosenIsFit'
    BY <2>2, <2>3, SelectionIsFit
  <2> QED
    BY <2>1, <2>4 DEF PoolInv
<1>4. ASSUME NEW w \in Windows, Pool!RateLimit(w) PROVE PoolInv'
  <2> DEFINE S == {a \in Aliases \ {chosen.alias} : Pool!Eligible(a)}
  <2>1. Pool!SelectBuilder(S) /\ Pool!Persist(chosen.alias, [x \in {w} |-> "rejected"])
    BY <1>4 DEF Pool!RateLimit
  <2>2. \A a \in S : a \in Aliases /\ Pool!Eligible(a)
    OBVIOUS
  <2> HIDE DEF S
  <2>3. ChosenIsFit'
    BY <2>1, <2>2, SelectionIsFit
  <2>4. DOMAIN reading' = Aliases /\ \A b \in Aliases : ReadingIsSound(reading'[b])
    BY <2>1, PersistIsSound
  <2> QED
    BY <2>3, <2>4 DEF PoolInv
<1> QED
  BY <1>1, <1>2, <1>3, <1>4
  DEF Pool!Next, poolVars, Pool!capacityRows, Pool!EditRegistry, Pool!UpsertProfile, Pool!SettleState,
      Pool!AbortReconcile, Pool!ReadForSync, Pool!SyncState, Pool!StartRefresh, Pool!Expire

(* The profile the router answers is enabled in its row, whatever a late auth-health write made of *)
(* its state, and a window it shows as rejected is one whose numbers went stale (claude_pool.py    *)
(* _is_pool_member, _eligible).                                                                    *)
THEOREM BuilderIsFit == HostSpec => []ChosenIsFit
<1>1. PoolInv => ChosenIsFit
  BY DEF PoolInv
<1> QED
  BY <1>1, PoolInitially, PoolInductive, PTL DEF HostSpec
=============================================================================
