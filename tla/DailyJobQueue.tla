--------------------------- MODULE DailyJobQueue ---------------------------
(***************************************************************************)
(* The durable queue of daily summary jobs: the rows of the SQLite table   *)
(* daily_summary_jobs, the statements of ArchiveStore that change them,    *)
(* and the workers, API threads and CLI processes that issue those         *)
(* statements.  Every thread has its own connection, so one action is one  *)
(* transaction; an operation that reads in one transaction and writes in   *)
(* another is two actions, with the result of the read kept in `pend`.     *)
(*                                                                         *)
(* What a worker does between its claim and its last write is the subject  *)
(* of DailyJobWorker; here it only appears as the writes it may issue.     *)
(***************************************************************************)
EXTENDS Integers

CONSTANTS
  Workers,       \* DailyJobWorker objects, each with a worker_id of its own
  Clients,       \* threads and processes that enqueue or cancel
  Keys,          \* dedupe keys; a forced request is one whose key is unused
  NoWorker,      \* worker_id IS NULL
  NoOp,          \* a client between two operations
  MaxJobs,       \* bound: rows ever inserted
  MaxRetries,    \* daily.ai.fallback.max_retries
  MaxFaults,     \* bound: executions a database error throws out of _execute
  LeaseMayLapse  \* may a live worker's lease expire while it executes?

ASSUME QueueAssumption ==
  /\ MaxJobs \in Nat
  /\ MaxRetries \in Nat
  /\ MaxFaults \in Nat
  /\ NoWorker \notin Workers
  /\ LeaseMayLapse \in BOOLEAN

VARIABLES
  jobs,    \* the table: one row per job id
  exec,    \* exec[w]: the job whose _execute runs in worker w, or NoJob
  wstate,  \* life of a worker: off, up, stopping, gone
  pend,    \* pend[c]: what client c read and is about to write
  faults   \* database errors so far

vars == <<jobs, exec, wstate, pend, faults>>

-----------------------------------------------------------------------------
JobId == 1 .. MaxJobs
NoJob == 0

Active   == {"queued", "running", "cancel_requested"}
Terminal == {"completed", "failed", "canceled"}
Status   == {"absent"} \cup Active \cup Terminal

(* Timestamps, as far as a comparison with now tells them apart. *)
Lease   == {"none", "live", "expired"}
RetryAt == {"none", "future", "due"}

(* A row of the table; `overrun` is no column of it: it remembers that the  *)
(* lease once expired while its owner was executing the job.               *)
Row == [status : Status, key : Keys, worker : Workers \cup {NoWorker},
        lease : Lease, retryAt : RetryAt, retries : Nat, cancelAt : BOOLEAN,
        overrun : BOOLEAN]

PendingOp == [op : {"insert"}, key : Keys] \cup [op : {"cancel"}, job : JobId]

(* The partial unique index on dedupe_key: row j may take status s only if *)
(* no other active row has its key.                                        *)
IndexAllows(j, k, s) ==
  s \in Active => \A i \in JobId \ {j} : jobs[i].key = k => jobs[i].status \notin Active

(* Mutation: a claim that forgets to compare the lease with now. *)
ClaimableUnderLease(j) ==
  \/ jobs[j].status = "queued" /\ jobs[j].retryAt # "future"
  \/ jobs[j].status = "running"

(* Mutation: a claim that never takes over a lapsed execution. *)
ClaimableIfQueued(j) == jobs[j].status = "queued" /\ jobs[j].retryAt # "future"

Claimable(j) ==
  \/ jobs[j].status = "queued" /\ jobs[j].retryAt # "future"
  \/ jobs[j].status = "running" /\ jobs[j].lease # "live"

(* Mutation: a sweep that only sees requests nobody ever held. *)
OrphanIfUnheld(j) == jobs[j].status = "cancel_requested" /\ jobs[j].worker = NoWorker

(* A cancel-requested row nobody holds a running lease on. *)
Orphan(j) ==
  /\ jobs[j].status = "cancel_requested"
  /\ jobs[j].worker = NoWorker \/ jobs[j].lease # "live"

Canceled(r) ==
  [r EXCEPT !.status = "canceled", !.worker = NoWorker, !.lease = "none", !.retryAt = "none"]

Swept == [j \in JobId |-> IF Orphan(j) THEN Canceled(jobs[j]) ELSE jobs[j]]

Idle(w) == wstate[w] = "up" /\ exec[w] = NoJob

-----------------------------------------------------------------------------
Init ==
  /\ \E k \in Keys :
       jobs = [j \in JobId |-> [status |-> "absent", key |-> k, worker |-> NoWorker,
                                lease |-> "none", retryAt |-> "none", retries |-> 0,
                                cancelAt |-> FALSE, overrun |-> FALSE]]
  /\ exec = [w \in Workers |-> NoJob]
  /\ wstate = [w \in Workers |-> "off"]
  /\ pend = [c \in Clients |-> NoOp]
  /\ faults = 0

-----------------------------------------------------------------------------
(* Clients.  enqueue_daily_summary_job returns the active row of the key,  *)
(* or its completed one; only when it finds neither does it go on to       *)
(* insert, in a later transaction.                                         *)
EnqueueCheck(c, k) ==
  /\ pend[c] = NoOp
  /\ \A j \in JobId : jobs[j].key = k => jobs[j].status \notin Active \cup {"completed"}
  /\ pend' = [pend EXCEPT ![c] = [op |-> "insert", key |-> k]]
  /\ UNCHANGED <<jobs, exec, wstate, faults>>

(* Mutation: an insert without the partial unique index. *)
EnqueueInsertUnchecked(c) ==
  /\ pend[c] # NoOp /\ pend[c].op = "insert"
  /\ \E j \in JobId :
       /\ jobs[j].status = "absent"
       /\ jobs' = [jobs EXCEPT ![j] =
            [status |-> "queued", key |-> pend[c].key, worker |-> NoWorker, lease |-> "none",
             retryAt |-> "none", retries |-> 0, cancelAt |-> FALSE, overrun |-> FALSE]]
  /\ pend' = [pend EXCEPT ![c] = NoOp]
  /\ UNCHANGED <<exec, wstate, faults>>

(* Mutation: an insert that replaces an ended row of the same key. *)
EnqueueInsertOver(c) ==
  /\ pend[c] # NoOp /\ pend[c].op = "insert"
  /\ \E j \in JobId :
       /\ jobs[j].status \notin Active
       /\ IndexAllows(j, pend[c].key, "queued")
       /\ jobs' = [jobs EXCEPT ![j] =
            [status |-> "queued", key |-> pend[c].key, worker |-> NoWorker, lease |-> "none",
             retryAt |-> "none", retries |-> 0, cancelAt |-> FALSE, overrun |-> FALSE]]
  /\ pend' = [pend EXCEPT ![c] = NoOp]
  /\ UNCHANGED <<exec, wstate, faults>>

(* The insert.  Any free id may be taken: ids stand for the order of       *)
(* started_at, which two racing requests may read in either order.         *)
EnqueueInsert(c) ==
  /\ pend[c] # NoOp /\ pend[c].op = "insert"
  /\ \E j \in JobId :
       /\ jobs[j].status = "absent"
       /\ IndexAllows(j, pend[c].key, "queued")
       /\ jobs' = [jobs EXCEPT ![j] =
            [status |-> "queued", key |-> pend[c].key, worker |-> NoWorker, lease |-> "none",
             retryAt |-> "none", retries |-> 0, cancelAt |-> FALSE, overrun |-> FALSE]]
  /\ pend' = [pend EXCEPT ![c] = NoOp]
  /\ UNCHANGED <<exec, wstate, faults>>

(* The index refuses the insert: the request is answered with the row that *)
(* won the race, or with the error when that row has ended since.          *)
EnqueueRaced(c) ==
  /\ pend[c] # NoOp /\ pend[c].op = "insert"
  /\ \E j \in JobId : jobs[j].key = pend[c].key /\ jobs[j].status \in Active
  /\ pend' = [pend EXCEPT ![c] = NoOp]
  /\ UNCHANGED <<jobs, exec, wstate, faults>>

(* request_daily_summary_job_cancel reads the status outside a transaction *)
(* and opens one only for its UPDATE.                                      *)
CancelRead(c, j) ==
  /\ pend[c] = NoOp
  /\ jobs[j].status \in Active
  /\ pend' = [pend EXCEPT ![c] = [op |-> "cancel", job |-> j]]
  /\ UNCHANGED <<jobs, exec, wstate, faults>>

CancelUpdate(c) ==
  /\ pend[c] # NoOp /\ pend[c].op = "cancel"
  /\ LET j == pend[c].job IN
       jobs' = IF IndexAllows(j, jobs[j].key, "cancel_requested")
               THEN [jobs EXCEPT ![j].status = "cancel_requested",
                                 ![j].cancelAt = TRUE, ![j].retryAt = "none"]
               ELSE jobs
  /\ pend' = [pend EXCEPT ![c] = NoOp]
  /\ UNCHANGED <<exec, wstate, faults>>

-----------------------------------------------------------------------------
(* Workers.  claim_daily_summary_job sweeps the orphaned cancel requests   *)
(* and takes the earliest claimable row, in one immediate transaction.     *)
Claim(w) ==
  /\ Idle(w)
  /\ \E j \in JobId :
       /\ Claimable(j)
       /\ \A i \in JobId : Claimable(i) => j <= i
       /\ jobs' = [Swept EXCEPT ![j].status = "running", ![j].worker = w,
                                ![j].lease = "live", ![j].retryAt = "none"]
       /\ exec' = [exec EXCEPT ![w] = j]
  /\ UNCHANGED <<wstate, pend, faults>>

ClaimNothing(w) ==
  /\ Idle(w)
  /\ \A j \in JobId : ~Claimable(j)
  /\ jobs' = Swept
  /\ UNCHANGED <<exec, wstate, pend, faults>>

(* Mutation: a progress write that overwrites a cancel request. *)
WrittenOver(r, w, s) == [r EXCEPT !.status = s, !.worker = w, !.lease = "live"]

(* What write_job leaves in the row: a running write does not undo a       *)
(* cancel request; the writer becomes the owner under a fresh lease.       *)
Written(r, w, s) ==
  [r EXCEPT !.status = IF r.status = "cancel_requested" /\ s = "running"
                       THEN "cancel_requested" ELSE s,
            !.worker = w, !.lease = "live"]

WriteJob(w, s) ==
  LET j == exec[w]
      r == Written(jobs[j], w, s)
  IN  /\ IndexAllows(j, r.key, r.status)
      /\ jobs' = [jobs EXCEPT ![j] = r]

(* A progress or process callback records where the execution is. *)
WriteRunning(w) ==
  /\ exec[w] # NoJob
  /\ WriteJob(w, "running")
  /\ UNCHANGED <<exec, wstate, pend, faults>>

(* The last write of an execution. *)
Finish(w, s) ==
  /\ exec[w] # NoJob
  /\ WriteJob(w, s)
  /\ exec' = [exec EXCEPT ![w] = NoJob]
  /\ UNCHANGED <<wstate, pend, faults>>

(* Mutation: a hand-back that does not ask what became of the job. *)
OwnsInAnyStatus(w) == jobs[exec[w]].worker = w

(* A row this worker may hand back: it still owns it and nobody has asked  *)
(* to cancel it.                                                           *)
OwnsRunning(w) == jobs[exec[w]].worker = w /\ jobs[exec[w]].status = "running"

(* Mutation: a hand-back that gives the attempt back. *)
HandedBackForgiven(r, t, n) ==
  [r EXCEPT !.status = "queued", !.worker = NoWorker, !.lease = "none",
            !.retryAt = t, !.retries = n - 1]

HandedBack(r, t, n) ==
  [r EXCEPT !.status = "queued", !.worker = NoWorker, !.lease = "none",
            !.retryAt = t, !.retries = n]

(* requeue_daily_summary_job, when the worker is told to stop.  Whether or *)
(* not the statement matches a row, the execution is over.                 *)
Requeue(w) ==
  /\ exec[w] # NoJob /\ wstate[w] = "stopping"
  /\ LET j == exec[w] IN
       jobs' = IF OwnsRunning(w)
               THEN [jobs EXCEPT ![j] = HandedBack(@, "none", @.retries)]
               ELSE jobs
  /\ exec' = [exec EXCEPT ![w] = NoJob]
  /\ UNCHANGED <<wstate, pend, faults>>

(* schedule_daily_summary_job_retry, after a retryable AI failure. *)
ScheduleRetry(w) ==
  /\ exec[w] # NoJob
  /\ OwnsRunning(w)
  /\ LET j == exec[w] IN
       /\ ~jobs[j].cancelAt
       /\ jobs[j].retries < MaxRetries
       /\ jobs' = [jobs EXCEPT ![j] = HandedBack(@, "future", @.retries + 1)]
  /\ exec' = [exec EXCEPT ![w] = NoJob]
  /\ UNCHANGED <<wstate, pend, faults>>

(* A database error in a handler of _execute: the loop resets its          *)
(* connection and goes on; the row stays as the last write left it.        *)
Abandon(w) ==
  /\ exec[w] # NoJob
  /\ faults < MaxFaults
  /\ faults' = faults + 1
  /\ exec' = [exec EXCEPT ![w] = NoJob]
  /\ UNCHANGED <<jobs, wstate, pend>>

Start(w) ==
  /\ wstate[w] = "off"
  /\ wstate' = [wstate EXCEPT ![w] = "up"]
  /\ UNCHANGED <<jobs, exec, pend, faults>>

(* Bound: a worker stops or crashes only while a fresh one is left to take *)
(* its place.                                                              *)
Replaceable(w) == \E v \in Workers \ {w} : wstate[v] = "off"

Stop(w) ==
  /\ wstate[w] = "up" /\ Replaceable(w)
  /\ wstate' = [wstate EXCEPT ![w] = "stopping"]
  /\ UNCHANGED <<jobs, exec, pend, faults>>

LeaveLoop(w) ==
  /\ wstate[w] = "stopping" /\ exec[w] = NoJob
  /\ wstate' = [wstate EXCEPT ![w] = "gone"]
  /\ UNCHANGED <<jobs, exec, pend, faults>>

(* The process dies.  A worker that is already stopping may be killed too. *)
Crash(w) ==
  /\ \/ wstate[w] = "up" /\ Replaceable(w)
     \/ wstate[w] = "stopping"
  /\ wstate' = [wstate EXCEPT ![w] = "gone"]
  /\ exec' = [exec EXCEPT ![w] = NoJob]
  /\ UNCHANGED <<jobs, pend, faults>>

-----------------------------------------------------------------------------
(* Time. *)
HeldBy(w, j) == exec[w] = j /\ jobs[j].worker = w

LeaseExpires(j) ==
  /\ jobs[j].lease = "live"
  /\ LeaseMayLapse \/ \A w \in Workers : ~HeldBy(w, j)
  /\ jobs' = [jobs EXCEPT ![j].lease = "expired",
                          ![j].overrun = @ \/ \E w \in Workers : HeldBy(w, j)]
  /\ UNCHANGED <<exec, wstate, pend, faults>>

RetryDue(j) ==
  /\ jobs[j].retryAt = "future"
  /\ jobs' = [jobs EXCEPT ![j].retryAt = "due"]
  /\ UNCHANGED <<exec, wstate, pend, faults>>

-----------------------------------------------------------------------------
ClientStep(c) ==
  \/ \E k \in Keys : EnqueueCheck(c, k)
  \/ EnqueueInsert(c)
  \/ EnqueueRaced(c)
  \/ \E j \in JobId : CancelRead(c, j)
  \/ CancelUpdate(c)

(* The ways an execution ends by itself. *)
EndExecution(w) ==
  \/ \E s \in Terminal : Finish(w, s)
  \/ Requeue(w)
  \/ ScheduleRetry(w)

WorkerStep(w) ==
  \/ Claim(w)
  \/ ClaimNothing(w)
  \/ WriteRunning(w)
  \/ EndExecution(w)
  \/ Abandon(w)
  \/ Start(w)
  \/ Stop(w)
  \/ LeaveLoop(w)
  \/ Crash(w)

Next ==
  \/ \E c \in Clients : ClientStep(c)
  \/ \E w \in Workers : WorkerStep(w)
  \/ \E j \in JobId : LeaseExpires(j) \/ RetryDue(j)

Spec == Init /\ [][Next]_vars

(* A started loop polls forever; an execution ends, because every provider *)
(* and Telegram call has a timeout; the clock advances; a client that read *)
(* goes on to write.                                                       *)
Fairness ==
  /\ \A w \in Workers :
       /\ WF_vars(Start(w))
       /\ WF_vars(Claim(w) \/ ClaimNothing(w))
       /\ WF_vars(EndExecution(w))
       /\ WF_vars(LeaveLoop(w))
  /\ \A c \in Clients : WF_vars(CancelUpdate(c))
  /\ \A j \in JobId : WF_vars(LeaseExpires(j)) /\ WF_vars(RetryDue(j))

FairSpec == Spec /\ Fairness
-----------------------------------------------------------------------------
(* The rows, the executions and the clients' reads have their types. *)
TypeOK ==
  /\ jobs \in [JobId -> Row]
  /\ exec \in [Workers -> JobId \cup {NoJob}]
  /\ wstate \in [Workers -> {"off", "up", "stopping", "gone"}]
  /\ pend \in [Clients -> PendingOp \cup {NoOp}]
  /\ faults \in Nat

(* While leases outlive executions, two workers never work on equivalent   *)
(* requests at the same time: not on one job, and not on two jobs with the *)
(* same dedupe key.                                                        *)
OneExecutionPerKey ==
  \A v, w \in Workers :
    /\ exec[v] # NoJob /\ exec[w] # NoJob
    /\ jobs[exec[v]].key = jobs[exec[w]].key
    => v = w

(* While leases outlive executions, a job somebody asked to cancel is      *)
(* never again claimable: no progress write, retry, requeue or claim that  *)
(* races with the request loses it.                                        *)
CancelSticks ==
  \A j \in JobId : jobs[j].cancelAt => jobs[j].status \notin {"queued", "running"}

(* While leases outlive executions, a job that has ended is never worked   *)
(* on again.                                                               *)
NoRerun ==
  [][\A j \in JobId : jobs[j].status \in Terminal
                         => jobs'[j].status \notin {"queued", "running"}]_vars

(* When a lease does expire under a live execution, the damage stays with  *)
(* that job: of two workers that work on equivalent requests at the same   *)
(* time, one is at a job whose lease lapsed under its executor, and only   *)
(* of such a job can a request to cancel be lost.                          *)
LapseStaysLocal ==
  /\ \A v, w \in Workers :
       /\ v # w
       /\ exec[v] # NoJob /\ exec[w] # NoJob
       /\ jobs[exec[v]].key = jobs[exec[w]].key
       => jobs[exec[v]].overrun \/ jobs[exec[w]].overrun
  /\ \A j \in JobId :
       jobs[j].cancelAt /\ ~jobs[j].overrun => jobs[j].status \notin {"queued", "running"}

(* A job that has ended keeps the status it ended with. *)
TerminalStays ==
  [][\A j \in JobId : jobs[j].status \in Terminal
                         => jobs'[j].status = jobs[j].status]_vars

(* A request to cancel ends in a terminal status, whoever holds the job    *)
(* and whatever happens to that worker.                                    *)
CancelEnds ==
  \A j \in JobId : jobs[j].status = "cancel_requested" ~> jobs[j].status \in Terminal

(* A queued job ends: crashes, stops, retries and database errors delay it *)
(* but never strand it.                                                    *)
QueuedEnds ==
  \A j \in JobId : jobs[j].status = "queued" ~> jobs[j].status \in Terminal
=============================================================================
