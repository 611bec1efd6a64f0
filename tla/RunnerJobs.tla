----------------------------- MODULE RunnerJobs -----------------------------
(***************************************************************************)
(* The Runner: a Unix-socket server that starts processes for Core, keeps  *)
(* a table of its jobs and an append-only journal, and after a restart     *)
(* marks the jobs it finds started but not ended (apps/runner, server.py,  *)
(* journal.py, client.py).  Some jobs run the resumable worker of          *)
(* vp0_worker.py under a writer lease, as recovery_demo.py drives them:    *)
(* crash, tear-down, reconcile, fresh lease, continue.                     *)
(*                                                                         *)
(* The server is one asyncio loop: a step here runs from one await to the  *)
(* next.  Processes are in sessions of their own and outlive the server.   *)
(***************************************************************************)
EXTENDS Naturals, FiniteSets

CONSTANTS
  Jobs,       \* requests to run a process
  Workers,    \* those that run vp0_worker, under the lease of the worktree
  Stubborn,   \* those whose process may ignore SIGTERM
  Ids,        \* request ids, which the caller chooses
  NoJob,
  Items,      \* bound: what a worker has to process
  MaxCrashes  \* bound: the server dies at most this often

VARIABLES
  up,        \* the server is running
  job,       \* progress of each request
  table,     \* _jobs: request id -> job
  journal,   \* events recorded for each request id
  found,     \* recovered_on_start of the present server
  acked,     \* jobs whose interrupt was acknowledged with found = True
  lease,     \* the job that holds the worktree, NoJob if free
  progress,  \* items recorded in the worker's state file
  saved,     \* how often each item was recorded
  crashes

vars == <<up, job, table, journal, found, acked, lease, progress, saved, crashes>>
core == <<lease, progress, saved>>

Final == {"SUCCEEDED", "FAILED", "TIMEOUT", "INTERRUPTED"}
Points == {"new", "accepted", "running", "grace", "dropped", "lost", "closed"}

New == [pc |-> "new", id |-> NoJob, proc |-> "none", next |-> 0, interrupted |-> FALSE,
        truncated |-> FALSE, client |-> TRUE, told |-> "nothing"]

TypeOK ==
  /\ up \in BOOLEAN
  /\ \A j \in Jobs :
       /\ job[j].pc \in Points
       /\ job[j].id \in Ids \cup {NoJob}
       /\ job[j].proc \in {"none", "alive", "zero", "nonzero"}
       /\ job[j].told \in Final \cup {"nothing", "error"}
  /\ table \in [Ids -> Jobs \cup {NoJob}]
  /\ journal \in [Ids -> SUBSET {"started", "finished", "interrupted"}]
  /\ found \subseteq Ids
  /\ lease \in Workers \cup {NoJob}
  /\ progress \in 0..Items

Init ==
  /\ up = TRUE
  /\ job = [j \in Jobs |-> New]
  /\ table = [i \in Ids |-> NoJob]
  /\ journal = [i \in Ids |-> {}]
  /\ found = {}
  /\ acked = {}
  /\ lease = NoJob
  /\ progress = 0
  /\ saved = [i \in 0..(Items - 1) |-> 0]
  /\ crashes = 0

Alive(j) == job[j].proc = "alive"
Record(id, event) == journal' = [journal EXCEPT ![id] = @ \cup {event}]

\* _terminate: the job is interrupted, and its process group has SIGTERM if it is still there.
Terminated(r) == [r EXCEPT !.interrupted = TRUE]

\* The handler is gone; of the job remain its process, if it lives, and what the client was told.
Closed(r, told) == [New EXCEPT !.pc = "closed", !.proc = r.proc, !.next = r.next,
                               !.interrupted = r.interrupted /\ r.proc = "alive", !.told = told]

-----------------------------------------------------------------------------
(* _handle_run *)

\* A request that passes validation is accepted; a worker's request needs the lease.
Accept(j, id) ==
  /\ up
  /\ job[j].pc = "new"
  /\ j \in Workers => lease = j
  /\ job' = [job EXCEPT ![j].pc = "accepted", ![j].id = id]
  /\ UNCHANGED <<up, table, journal, found, acked, core, crashes>>

\* Refused by policy, or the process cannot be started, or the client is gone before it is tried.
Refuse(j) ==
  /\ up
  /\ job[j].pc \in {"new", "accepted"}
  /\ job' = [job EXCEPT ![j] = Closed(@, IF @.client THEN "error" ELSE "nothing")]
  /\ UNCHANGED <<up, table, journal, found, acked, core, crashes>>

\* The process is running: the table and the journal learn of it.  When run.started cannot be sent
\* the handler ends before its first try: nobody waits for the process, and its entry stays.
Spawn(j) ==
  /\ job[j].pc = "accepted"
  /\ \E pc \in {"running", "lost"} :
       /\ pc = "lost" => ~job[j].client
       /\ job' = [job EXCEPT ![j].pc = pc, ![j].proc = "alive", ![j].next = progress]
  /\ table' = [table EXCEPT ![job[j].id] = j]
  /\ Record(job[j].id, "started")
  /\ UNCHANGED <<up, found, acked, core, crashes>>

\* Too much output: the process is told to end and the rest is not read.
OutputLimit(j) ==
  /\ job[j].pc = "running"
  /\ Alive(j) /\ ~job[j].truncated
  /\ job' = [job EXCEPT ![j] = [Terminated(@) EXCEPT !.truncated = TRUE]]
  /\ UNCHANGED <<up, table, journal, found, acked, core, crashes>>

\* The deadline of the request, or of the wait for the process after its output ended.
Timeout(j) ==
  /\ job[j].pc = "running"
  /\ Alive(j)
  /\ job' = [job EXCEPT ![j] = [Terminated(@) EXCEPT !.pc = "grace"]]
  /\ UNCHANGED <<up, table, journal, found, acked, core, crashes>>

\* The server stops waiting for a process: it ended, or the grace period did (a second SIGTERM).
GivenUp(j) == ~Alive(j) \/ j \in Stubborn

Forgotten(j) == [table EXCEPT ![job[j].id] = NoJob]

\* Mutant: the exit code is looked at first.
ByExitCode(r) ==
  IF r.pc = "grace" THEN "TIMEOUT"
  ELSE IF r.proc = "zero" THEN "SUCCEEDED"
  ELSE IF r.interrupted THEN "INTERRUPTED"
  ELSE "FAILED"

\* How a job ends.
Outcome(r) ==
  IF r.truncated THEN "FAILED"
  ELSE IF r.pc = "grace" THEN "TIMEOUT"
  ELSE IF r.interrupted THEN "INTERRUPTED"
  ELSE IF r.proc = "zero" THEN "SUCCEEDED"
  ELSE "FAILED"

\* Without an await the job leaves the table, its outcome is computed, recorded and sent.
Finish(j) ==
  /\ \/ job[j].pc = "running" /\ ~Alive(j)
     \/ job[j].pc = "grace" /\ GivenUp(j)
  /\ table' = Forgotten(j)
  /\ Record(job[j].id, "finished")
  /\ job' = [job EXCEPT ![j] = Closed(@, IF @.client THEN Outcome(@) ELSE "nothing")]
  /\ UNCHANGED <<up, found, acked, core, crashes>>

\* RunnerClient.run gives up after its own timeout and drops the connection.
Disconnect(j) ==
  /\ job[j].pc \in {"accepted", "running", "grace"}
  /\ job[j].client
  /\ job' = [job EXCEPT ![j].client = FALSE]
  /\ UNCHANGED <<up, table, journal, found, acked, core, crashes>>

\* Output cannot be sent any more: the handler unwinds through its finally blocks ...
SendFails(j) ==
  /\ job[j].pc = "running"
  /\ ~job[j].client
  /\ job' = [job EXCEPT ![j].pc = "dropped"]
  /\ UNCHANGED <<up, table, journal, found, acked, core, crashes>>

\* ... waits for the process, else terminates it, and records nothing.
Drop(j) ==
  /\ job[j].pc = "dropped"
  /\ job' = [job EXCEPT ![j] = Closed(Terminated(@), "nothing")]
  /\ table' = Forgotten(j)
  /\ UNCHANGED <<up, journal, found, acked, core, crashes>>

-----------------------------------------------------------------------------
(* _handle_interrupt, and the life of the server *)

\* An id not in the table is answered with found = False and changes nothing.
Interrupt(id) ==
  /\ up
  /\ table[id] # NoJob
  /\ job' = [job EXCEPT ![table[id]] = Terminated(@)]
  /\ acked' = acked \cup {table[id]}
  /\ Record(id, "interrupted")
  /\ UNCHANGED <<up, table, found, core, crashes>>

\* The server is gone with its handlers; what the clients were told stays.
Down(after) ==
  /\ up
  /\ crashes < MaxCrashes
  /\ up' = FALSE
  /\ crashes' = crashes + 1
  /\ table' = [i \in Ids |-> NoJob]
  /\ job' = [j \in Jobs |-> IF job[j].pc = "new" THEN job[j] ELSE Closed(after[j], job[j].told)]
  /\ UNCHANGED <<journal, found, acked, core>>

\* SIGKILL.
Crash == Down(job)

\* stop() terminates the jobs of the table first.
Stop == Down([j \in Jobs |-> IF \E i \in Ids : table[i] = j THEN Terminated(job[j]) ELSE job[j]])

\* KillMode=control-group: the processes of a dead server are killed.
TearDown(j) ==
  /\ ~up
  /\ Alive(j)
  /\ job' = [job EXCEPT ![j].proc = "nonzero", ![j].next = 0]
  /\ UNCHANGED <<up, table, journal, found, acked, core, crashes>>

\* unfinished_jobs(): a start and no end among all the records of an id.
Unfinished == {i \in Ids : journal[i] = {"started"}}

\* A new server marks them interrupted before it listens.
Restart ==
  /\ ~up
  /\ up' = TRUE
  /\ found' = Unfinished
  /\ journal' = [i \in Ids |-> IF i \in Unfinished THEN journal[i] \cup {"interrupted"} ELSE journal[i]]
  /\ UNCHANGED <<job, table, acked, core, crashes>>

-----------------------------------------------------------------------------
(* The processes *)

\* A worker records one item: the state file is replaced in one rename.
Save(j) ==
  /\ j \in Workers /\ Alive(j)
  /\ job[j].next < Items
  /\ progress' = job[j].next + 1
  /\ saved' = [saved EXCEPT ![job[j].next] = @ + 1]
  /\ job' = [job EXCEPT ![j].next = @ + 1]
  /\ UNCHANGED <<up, table, journal, found, acked, lease, crashes>>

\* A process ends by itself (a worker after its last item) or because of SIGTERM.
Exit(j, code) ==
  /\ Alive(j)
  /\ \/ code = "zero" /\ (j \in Workers => job[j].next = Items)
     \/ code = "nonzero" /\ (j \notin Workers \/ job[j].interrupted)
  /\ job' = [job EXCEPT ![j].proc = code, ![j].next = 0]
  /\ UNCHANGED <<up, table, journal, found, acked, core, crashes>>

-----------------------------------------------------------------------------
(* Core, as recovery_demo.py drives it *)

Acquire(j) ==
  /\ j \in Workers
  /\ lease = NoJob
  /\ job[j].pc = "new"
  /\ lease' = j
  /\ UNCHANGED <<up, job, table, journal, found, acked, progress, saved, crashes>>

\* client.run returned the end of the job.
Release(j) ==
  /\ lease = j
  /\ job[j].told # "nothing"
  /\ lease' = NoJob
  /\ UNCHANGED <<up, job, table, journal, found, acked, progress, saved, crashes>>

\* Mutant: the worker is presumed dead with its server.
PresumedDead(j) == job[j].pc \in {"lost", "closed"}

\* process_alive answers False for the pid of the lease.
WriterDead(j) == job[j].pc \in {"lost", "closed"} /\ ~Alive(j)

\* An expired lease is freed once its process is dead.
Reconcile(j) ==
  /\ lease = j
  /\ WriterDead(j)
  /\ lease' = NoJob
  /\ UNCHANGED <<up, job, table, journal, found, acked, progress, saved, crashes>>

-----------------------------------------------------------------------------
JobStep(j) ==
  \/ \E id \in Ids : Accept(j, id)
  \/ Refuse(j)
  \/ Spawn(j)
  \/ OutputLimit(j)
  \/ Timeout(j)
  \/ Finish(j)
  \/ Disconnect(j)
  \/ SendFails(j)
  \/ Drop(j)
  \/ TearDown(j)
  \/ Save(j)
  \/ \E code \in {"zero", "nonzero"} : Exit(j, code)
  \/ Acquire(j)
  \/ Release(j)
  \/ Reconcile(j)

Next ==
  \/ \E j \in Jobs : JobStep(j)
  \/ \E id \in Ids : Interrupt(id)
  \/ Crash
  \/ Stop
  \/ Restart

Spec == Init /\ [][Next]_vars

-----------------------------------------------------------------------------
(* Properties *)

\* Through crashes of the Runner, orphaned workers, reconciliation and a second run, no item is
\* processed twice: the lease outlives the server and is freed only when the worker is dead, and a
\* worker continues from the recorded progress.
EachItemOnce == \A i \in DOMAIN saved : saved[i] <= 1

\* An interrupt acknowledged as found is never followed by the report of a success, even when the
\* process had ended by itself before the signal: leaving the table, judging the job and answering
\* happen without an await between them.
InterruptHolds == \A j \in acked : job[j].told # "SUCCEEDED"

=============================================================================
