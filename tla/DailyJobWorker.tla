--------------------------- MODULE DailyJobWorker ---------------------------
(***************************************************************************)
(* What a DailyJobWorker does between the claim of a job and its last      *)
(* write: _execute, and in it build_daily_package, run_daily_summary and   *)
(* the drain of the delivery outbox.  The module composes the queue of     *)
(* DailyJobQueue with the rows these stages keep: the package run, the     *)
(* summary run and the delivery rows of each job.                          *)
(*                                                                         *)
(* pc[w] names the next thing the execution does.  Most stages begin with  *)
(* check_cancel, which looks at the stop event, then at the job row.  A    *)
(* check and the write that follows it are one action when cancel requests *)
(* and stops commute with the write (a progress write keeps a cancel       *)
(* request), and two actions otherwise.                                    *)
(*                                                                         *)
(* The delivery rows of a job are taken together, as one row that a worker *)
(* claims, sends and marks in three steps.  That the chunks of a run stay  *)
(* in order, and requests accepted long after their caller gave them up,   *)
(* are the subject of DeliveryOutbox; here such a request is accepted when *)
(* it is given up, or never.                                               *)
(***************************************************************************)
EXTENDS DailyJobQueue, FiniteSets

CONSTANT MaxErrors  \* bound: failures of the provider, a file or a statement

ASSUME WorkerAssumption ==
  /\ MaxErrors \in Nat
  /\ IsFiniteSet(Workers)

VARIABLES
  pc,       \* where the execution of each worker is
  package,  \* status of each job's row in daily_package_runs
  summary,  \* status of each job's row in daily_summary_runs
  outbox,   \* state of each job's row in delivery_outbox
  letter,   \* the job whose row each worker has claimed and is sending
  told,     \* how often its summary reached the chat
  doubt,    \* attempts to send it given up without a recorded outcome
  hits,     \* what befell its executions: error, stop, crash, bad input
  errors    \* failures so far

sendVars == <<letter, told, doubt>>
runVars == <<package, summary, outbox, sendVars, hits, errors>>
allVars == <<vars, pc, runVars>>

-----------------------------------------------------------------------------
RunStatus == {"absent", "running", "completed", "failed", "canceled"}

(* Stages whose next act is a check_cancel that raises into _execute.  The *)
(* first progress update of build_daily_package and of run_daily_summary   *)
(* lies outside their try blocks.                                          *)
Open == {"start", "opening", "opened", "packaged", "beginning", "begun",
         "summarized", "draining", "drained"}

(* Stages inside those try blocks, which turn whatever is raised into a    *)
(* status of the run's row.                                                *)
Guarded == {"building", "analyzing", "persisted"}

Handlers == {"retrying", "discarding", "canceling", "failing"}

(* In _deliver_pending_once, called by the drain or by the idle loop. *)
Sending == {"calling", "answered", "failed"}

Stages == Open \cup Guarded \cup Handlers \cup Sending
            \cup {"idle", "free", "stored", "finishing"}

(* The status column of delivery_outbox with its two times, as far as a    *)
(* claim compares them with now: a retry waits until it is pending again,  *)
(* a sending row is recent or stale.                                       *)
RowState == {"none", "pending", "waiting", "sending", "stale", "sent"}
Due      == {"pending", "stale"}
InFlight == {"sending", "stale"}

Busy(w) == exec[w] # NoJob

Stopping(w) == wstate[w] = "stopping"
CancelSeen(j) == jobs[j].status = "cancel_requested" \/ jobs[j].cancelAt

(* The three outcomes of check_cancel. *)
Clear(w) == ~Stopping(w) /\ ~CancelSeen(exec[w])
SeesCancel(w) == ~Stopping(w) /\ CancelSeen(exec[w])

Go(w, from, to) == pc[w] = from /\ pc' = [pc EXCEPT ![w] = to]

Doubtful(j) == doubt' = [doubt EXCEPT ![j] = @ + 1]

(* After which the worker polls again. *)
Leave(w) == pc' = [pc EXCEPT ![w] = "idle"]

Hit(j, what) == hits' = [hits EXCEPT ![j] = @ \cup {what}]

Error == errors < MaxErrors /\ errors' = errors + 1

Fail(w) ==
  /\ Error
  /\ Hit(exec[w], "error")

-----------------------------------------------------------------------------
PipelineInit ==
  /\ Init
  /\ pc = [w \in Workers |-> "idle"]
  /\ package = [j \in JobId |-> "absent"]
  /\ summary = [j \in JobId |-> "absent"]
  /\ outbox = [j \in JobId |-> "none"]
  /\ letter = [w \in Workers |-> NoJob]
  /\ told = [j \in JobId |-> 0]
  /\ doubt = [j \in JobId |-> 0]
  /\ hits = [j \in JobId |-> {}]
  /\ errors = 0

(* A request may name a package run, in whatever state that is. *)
Submit(c) ==
  /\ EnqueueInsert(c)
  /\ \E j \in JobId, s \in RunStatus :
       /\ jobs[j].status = "absent" /\ jobs'[j].status = "queued"
       /\ package' = [package EXCEPT ![j] = s]
       /\ IF s \in {"running", "failed"} THEN Hit(j, "input") ELSE UNCHANGED hits
  /\ UNCHANGED <<pc, summary, outbox, sendVars, errors>>

(* DELETE FROM delivery_outbox WHERE job_id = ... AND status != 'sent'.    *)
(* An attempt in flight loses its row.                                     *)
Discard(j) ==
  /\ outbox' = [outbox EXCEPT ![j] = IF @ = "sent" THEN "sent" ELSE "none"]
  /\ IF outbox[j] \in InFlight THEN Doubtful(j) ELSE UNCHANGED doubt

(* A cancel request deletes the job's unsent row in the transaction that   *)
(* marks the job.                                                          *)
Cancel(c) ==
  /\ CancelUpdate(c)
  /\ LET j == pend[c].job IN
       IF IndexAllows(j, jobs[j].key, "cancel_requested")
       THEN Discard(j)
       ELSE UNCHANGED <<outbox, doubt>>
  /\ UNCHANGED <<pc, package, summary, letter, told, hits, errors>>

AskedElsewhere(c) ==
  /\ \/ \E k \in Keys : EnqueueCheck(c, k)
     \/ EnqueueRaced(c)
     \/ \E j \in JobId : CancelRead(c, j)
  /\ UNCHANGED <<pc, runVars>>

-----------------------------------------------------------------------------
(* The loop. *)
TakeJob(w) ==
  /\ Claim(w)
  /\ Go(w, "idle", "start")
  /\ UNCHANGED runVars

FindNoJob(w) ==
  /\ ClaimNothing(w)
  /\ Go(w, "idle", "free")
  /\ UNCHANGED runVars

-----------------------------------------------------------------------------
(* Delivery.  claim_delivery_outbox takes a row that is due; taking one    *)
(* that went stale gives its earlier attempt up.  The hit remembers that   *)
(* another worker may still be at it.                                      *)
ClaimRow(w, j) ==
  /\ outbox[j] \in Due
  /\ outbox' = [outbox EXCEPT ![j] = "sending"]
  /\ IF outbox[j] = "stale" THEN Doubtful(j) ELSE UNCHANGED doubt
  /\ IF \E v \in Workers : letter[v] = j THEN Hit(j, "twice") ELSE UNCHANGED hits
  /\ letter' = [letter EXCEPT ![w] = j]
  /\ UNCHANGED <<vars, package, summary, told, errors>>

(* A worker that finds no job claims a row of any job, whatever became of  *)
(* that job; it does not look at the stop event again.                     *)
PostNext(w) ==
  /\ Go(w, "free", "calling")
  /\ \E j \in JobId : ClaimRow(w, j)

PostNothing(w) ==
  /\ \A j \in JobId : outbox[j] \notin Due
  /\ Go(w, "free", "idle")
  /\ UNCHANGED <<vars, runVars>>

Told(j) == told' = [told EXCEPT ![j] = @ + 1]

(* Telegram accepts the message and the call returns. *)
Accept(w) ==
  /\ Go(w, "calling", "answered")
  /\ Told(letter[w])
  /\ UNCHANGED <<vars, package, summary, outbox, letter, doubt, hits, errors>>

(* The call fails and Telegram has not accepted the message. *)
Reject(w) ==
  /\ Go(w, "calling", "failed")
  /\ UNCHANGED <<vars, runVars>>

(* The caller stops waiting, after a timeout or because the worker stops:  *)
(* the request may still reach Telegram.                                   *)
GiveUp(w) ==
  /\ Go(w, "calling", "failed")
  /\ \/ Stopping(w) /\ UNCHANGED errors
     \/ Error
  /\ Doubtful(letter[w])
  /\ Told(letter[w]) \/ UNCHANGED told
  /\ UNCHANGED <<vars, package, summary, outbox, letter, hits>>

(* Telegram accepted it, but the call or complete_delivery_outbox raises. *)
LoseAnswer(w) ==
  /\ Go(w, "answered", "failed")
  /\ Error
  /\ Doubtful(letter[w])
  /\ UNCHANGED <<vars, package, summary, outbox, letter, told, hits>>

(* An UPDATE by outbox_id, without effect when the row is gone; the worker *)
(* is through with the row.                                                *)
Marked(w, state) ==
  /\ outbox' = IF outbox[letter[w]] = "none" THEN outbox
               ELSE [outbox EXCEPT ![letter[w]] = state]
  /\ letter' = [letter EXCEPT ![w] = NoJob]

(* complete_delivery_outbox; the drain goes on to the next row. *)
Complete(w) ==
  /\ Go(w, "answered", IF Busy(w) THEN "draining" ELSE "idle")
  /\ Marked(w, "sent")
  /\ UNCHANGED <<vars, package, summary, told, doubt, hits, errors>>

(* retry_delivery_outbox, with a backoff; the drain ends. *)
PutOff(w) ==
  /\ Go(w, "failed", IF Busy(w) THEN "drained" ELSE "idle")
  /\ Marked(w, "waiting")
  /\ UNCHANGED <<vars, package, summary, told, doubt, hits, errors>>

(* retry_delivery_outbox raises: the row stays sending, the job fails. *)
LoseRecord(w) ==
  /\ Go(w, "failed", IF Busy(w) THEN "failing" ELSE "idle")
  /\ Error
  /\ IF Busy(w) THEN Hit(exec[w], "error") ELSE UNCHANGED hits
  /\ letter' = [letter EXCEPT ![w] = NoJob]
  /\ UNCHANGED <<vars, package, summary, outbox, told, doubt>>

BackoffEnds(j) ==
  /\ outbox[j] = "waiting"
  /\ outbox' = [outbox EXCEPT ![j] = "pending"]
  /\ UNCHANGED <<vars, pc, package, summary, sendVars, hits, errors>>

(* Five minutes after a claim, when its sender may still be at it. *)
GoesStale(j) ==
  /\ outbox[j] = "sending"
  /\ IF \E w \in Workers : letter[w] = j THEN Error ELSE UNCHANGED errors
  /\ outbox' = [outbox EXCEPT ![j] = "stale"]
  /\ UNCHANGED <<vars, pc, package, summary, sendVars, hits>>

-----------------------------------------------------------------------------
(* Mutation: a cancel is handled like any other exception. *)
NoticeCancelAsFailure(w) ==
  /\ \E p \in Open : Go(w, p, "failing")
  /\ SeesCancel(w)
  /\ UNCHANGED <<vars, runVars>>

(* check_cancel raises outside the runs' try blocks: a stop hands the job  *)
(* back, a cancel goes to its handler.                                     *)
StopJob(w) ==
  /\ pc[w] \in Open /\ Stopping(w)
  /\ Requeue(w)
  /\ Leave(w)
  /\ UNCHANGED runVars

NoticeCancel(w) ==
  /\ \E p \in Open : Go(w, p, "discarding")
  /\ SeesCancel(w)
  /\ UNCHANGED <<vars, runVars>>

Progress(w) == Clear(w) /\ WriteRunning(w)

(* The package stage of _execute: a row that exists is not built again.    *)
PlanPackage(w) ==
  /\ package[exec[w]] = "absent"
  /\ Progress(w)
  /\ Go(w, "start", "opening")
  /\ UNCHANGED runVars

ReusePackage(w) ==
  /\ Clear(w)
  /\ \/ package[exec[w]] = "completed" /\ Go(w, "start", "packaged")
     \/ package[exec[w]] = "canceled" /\ Go(w, "start", "discarding")
     \/ package[exec[w]] \in {"running", "failed"} /\ Go(w, "start", "failing")
  /\ UNCHANGED <<vars, runVars>>

(* build_daily_package up to its try block. *)
OpenPackage(w) ==
  /\ Clear(w)
  /\ Go(w, "opening", "opened")
  /\ package' = [package EXCEPT ![exec[w]] = "running"]
  /\ UNCHANGED <<vars, summary, outbox, sendVars, hits, errors>>

EnterPackage(w) ==
  /\ Progress(w)
  /\ Go(w, "opened", "building")
  /\ UNCHANGED runVars

(* How the try block of build_daily_package ends: the last check is well   *)
(* before the row is completed, and only DailyJobCancelled has a handler   *)
(* of its own.                                                             *)
EndPackage(w, s) ==
  /\ package' = [package EXCEPT ![exec[w]] = s]
  /\ \/ /\ s = "completed" /\ Go(w, "building", "packaged")
        /\ UNCHANGED <<hits, errors>>
     \/ /\ s = "canceled" /\ SeesCancel(w) /\ Go(w, "building", "discarding")
        /\ UNCHANGED <<hits, errors>>
     \/ /\ s = "failed" /\ Go(w, "building", "failing")
        /\ \/ Stopping(w) /\ UNCHANGED <<hits, errors>>
           \/ Fail(w)
  /\ UNCHANGED <<vars, summary, outbox, sendVars>>

(* The summary stage of _execute: a completed row is reused.               *)
PlanSummary(w) ==
  /\ summary[exec[w]] # "completed"
  /\ Progress(w)
  /\ Go(w, "packaged", "beginning")
  /\ UNCHANGED runVars

(* Mutation: a row left by a broken execution will do. *)
ReuseSummaryAnyhow(w) ==
  /\ summary[exec[w]] # "absent" /\ Clear(w)
  /\ Go(w, "packaged", "summarized")
  /\ UNCHANGED <<vars, runVars>>

ReuseSummary(w) ==
  /\ summary[exec[w]] = "completed" /\ Clear(w)
  /\ Go(w, "packaged", "summarized")
  /\ UNCHANGED <<vars, runVars>>

(* run_daily_summary up to its try block. *)
OpenSummary(w) ==
  /\ Clear(w)
  /\ Go(w, "beginning", "begun")
  /\ summary' = [summary EXCEPT ![exec[w]] = "running"]
  /\ UNCHANGED <<vars, package, outbox, sendVars, hits, errors>>

EnterSummary(w) ==
  /\ Progress(w)
  /\ Go(w, "begun", "analyzing")
  /\ UNCHANGED runVars

(* The package is built origin by origin, with progress in between. *)
ReportPackage(w) ==
  /\ pc[w] = "building"
  /\ Progress(w)
  /\ UNCHANGED <<pc, runVars>>

(* The provider runs task by task; the callback that records the start and *)
(* the end of its process does not check.                                  *)
ReportSummary(w) ==
  /\ pc[w] = "analyzing"
  /\ WriteRunning(w)
  /\ UNCHANGED <<pc, runVars>>

(* Mutation: an insert that resets the rows it finds. *)
PersistedAnew(j) == [outbox EXCEPT ![j] = "pending"]

(* ON CONFLICT DO NOTHING: rows of an earlier execution stay. *)
Persisted(j) == [outbox EXCEPT ![j] = IF @ = "none" THEN "pending" ELSE @]

(* persist_daily_summary_batch, with delivery and without. *)
PersistBatch(w) ==
  /\ \/ Go(w, "analyzing", "persisted") /\ outbox' = Persisted(exec[w])
     \/ Go(w, "analyzing", "stored") /\ UNCHANGED outbox
  /\ UNCHANGED <<vars, package, summary, sendVars, hits, errors>>

ReportQueued(w) ==
  /\ Progress(w)
  /\ Go(w, "persisted", "stored")
  /\ UNCHANGED runVars

CompleteSummary(w) ==
  /\ Go(w, "stored", "summarized")
  /\ summary' = [summary EXCEPT ![exec[w]] = "completed"]
  /\ UNCHANGED <<vars, package, outbox, sendVars, hits, errors>>

(* How the try block of run_daily_summary ends otherwise.  Only a failure  *)
(* of the provider can be retryable.                                       *)
BreakSummary(w, s) ==
  /\ summary' = [summary EXCEPT ![exec[w]] = s]
  /\ \/ /\ s = "canceled" /\ SeesCancel(w)
        /\ \E p \in {"analyzing", "persisted"} : Go(w, p, "discarding")
        /\ UNCHANGED <<hits, errors>>
     \/ /\ s = "failed" /\ Stopping(w)
        /\ \E p \in {"analyzing", "persisted"} : Go(w, p, "failing")
        /\ UNCHANGED <<hits, errors>>
     \/ /\ s = "failed" /\ Fail(w)
        /\ \/ \E p \in {"analyzing", "persisted", "stored"} : Go(w, p, "failing")
           \/ Go(w, "analyzing", "retrying")
  /\ UNCHANGED <<vars, package, outbox, sendVars>>

(* The retry budget is read before the retry is scheduled; a row that then *)
(* refuses it has been canceled or has another owner.                      *)
Retry(w) ==
  /\ pc[w] = "retrying"
  /\ ScheduleRetry(w)
  /\ Leave(w)
  /\ UNCHANGED runVars

NoRetry(w) ==
  LET j == exec[w]
      refused == jobs[j].cancelAt \/ ~OwnsRunning(w)
  IN  /\ \/ jobs[j].retries >= MaxRetries /\ Go(w, "retrying", "failing")
         \/ jobs[j].retries < MaxRetries /\ refused
              /\ Go(w, "retrying", IF CancelSeen(j) THEN "discarding" ELSE "failing")
      /\ UNCHANGED <<vars, runVars>>

(* _drain_summary_delivery sends until a claim finds nothing or a send     *)
(* fails; neither keeps the job from completing.                           *)
StartDrain(w) ==
  /\ Clear(w)
  /\ Go(w, "summarized", "draining")
  /\ UNCHANGED <<vars, runVars>>

DrainNext(w) ==
  /\ Clear(w)
  /\ Go(w, "draining", "calling")
  /\ ClaimRow(w, exec[w])

(* Mutation: the drain waits for its row to be sent. *)
EndDrainWhenSent(w) ==
  /\ Clear(w) /\ outbox[exec[w]] \in {"none", "sent"} /\ Go(w, "draining", "drained")
  /\ UNCHANGED <<vars, runVars>>

EndDrain(w) ==
  /\ Clear(w) /\ outbox[exec[w]] \notin Due
  /\ Go(w, "draining", "drained")
  /\ UNCHANGED <<vars, runVars>>

LastCheck(w) ==
  /\ Clear(w)
  /\ Go(w, "drained", "finishing")
  /\ UNCHANGED <<vars, runVars>>

-----------------------------------------------------------------------------
(* The last writes, and the handlers of _execute. *)
Mark(w, p, s) ==
  /\ pc[w] = p
  /\ Finish(w, s)
  /\ Leave(w)
  /\ UNCHANGED runVars

(* Mutation: the cancel handler leaves the outbox alone. *)
DiscardNothing(w) == Go(w, "discarding", "canceling") /\ UNCHANGED <<vars, runVars>>

DiscardUnsent(w) ==
  /\ Go(w, "discarding", "canceling")
  /\ Discard(exec[w])
  /\ UNCHANGED <<vars, package, summary, letter, told, hits, errors>>

(* A statement or a file fails outside the runs' try blocks, or in writing *)
(* the row that ends one.                                                  *)
Break(w) ==
  /\ \E p \in Open \cup Guarded \cup {"stored", "retrying", "finishing"} : Go(w, p, "failing")
  /\ Fail(w)
  /\ UNCHANGED <<vars, package, summary, outbox, sendVars>>

(* A statement fails in a handler of _execute. *)
BreakHandler(w) ==
  /\ \/ pc[w] \in {"discarding", "canceling", "failing"}
     \/ pc[w] \in Open /\ Stopping(w)
  /\ Abandon(w)
  /\ Leave(w)
  /\ Hit(exec[w], "error")
  /\ UNCHANGED <<package, summary, outbox, sendVars, errors>>

StopWorker(w) ==
  /\ Stop(w)
  /\ IF Busy(w) THEN Hit(exec[w], "stop") ELSE UNCHANGED hits
  /\ UNCHANGED <<pc, package, summary, outbox, sendVars, errors>>

(* A call under way when the process dies may reach Telegram or not. *)
CrashWorker(w) ==
  /\ Crash(w)
  /\ Leave(w)
  /\ \/ UNCHANGED told
     \/ pc[w] = "calling" /\ Told(letter[w])
  /\ letter' = [letter EXCEPT ![w] = NoJob]
  /\ IF Busy(w) THEN Hit(exec[w], "crash") ELSE UNCHANGED hits
  /\ UNCHANGED <<package, summary, outbox, doubt, errors>>

StartOrLeave(w) ==
  /\ pc[w] = "idle"
  /\ Start(w) \/ LeaveLoop(w)
  /\ UNCHANGED <<pc, runVars>>

-----------------------------------------------------------------------------
(* The steps that move an execution on. *)
PackageStep(w) ==
  \/ PlanPackage(w) \/ ReusePackage(w) \/ OpenPackage(w) \/ EnterPackage(w)
  \/ \E s \in RunStatus : EndPackage(w, s)

SummaryStep(w) ==
  \/ PlanSummary(w) \/ ReuseSummary(w) \/ OpenSummary(w) \/ EnterSummary(w)
  \/ PersistBatch(w) \/ ReportQueued(w) \/ CompleteSummary(w)
  \/ \E s \in RunStatus : BreakSummary(w, s)

FinalStep(w) ==
  \/ StopJob(w) \/ NoticeCancel(w) \/ Retry(w) \/ NoRetry(w)
  \/ StartDrain(w) \/ DrainNext(w) \/ EndDrain(w) \/ LastCheck(w) \/ DiscardUnsent(w)
  \/ Mark(w, "finishing", "completed")
  \/ Mark(w, "canceling", "canceled")
  \/ Mark(w, "failing", "failed")

(* The call returns or times out, and its outcome is written. *)
SendStep(w) == Accept(w) \/ Reject(w) \/ GiveUp(w) \/ Complete(w) \/ PutOff(w)

(* What a worker without a job does with the outbox. *)
Post(w) == ~Busy(w) /\ (PostNext(w) \/ PostNothing(w) \/ SendStep(w))

Advance(w) == Busy(w) /\ (PackageStep(w) \/ SummaryStep(w) \/ FinalStep(w) \/ SendStep(w))

PipelineNext ==
  \/ \E c \in Clients : Submit(c) \/ Cancel(c) \/ AskedElsewhere(c)
  \/ \E w \in Workers :
       \/ TakeJob(w) \/ FindNoJob(w) \/ Post(w)
       \/ Advance(w)
       \/ LoseAnswer(w) \/ LoseRecord(w)
       \/ Busy(w) /\ (ReportPackage(w) \/ ReportSummary(w))
       \/ Busy(w) /\ (Break(w) \/ BreakHandler(w))
       \/ StopWorker(w) \/ CrashWorker(w) \/ StartOrLeave(w)
  \/ \E j \in JobId :
       \/ (LeaseExpires(j) \/ RetryDue(j)) /\ UNCHANGED <<pc, runVars>>
       \/ BackoffEnds(j) \/ GoesStale(j)

PipelineSpec == PipelineInit /\ [][PipelineNext]_allVars

(* An execution does not stand still: package building, the provider's     *)
(* calls and the sends are finite and have timeouts.                       *)
PipelineFairness ==
  /\ \A w \in Workers :
       /\ WF_allVars(Start(w) /\ StartOrLeave(w))
       /\ WF_allVars(TakeJob(w) \/ FindNoJob(w))
       /\ WF_allVars(Post(w))
       /\ WF_allVars(Advance(w))
       /\ WF_allVars(LeaveLoop(w) /\ StartOrLeave(w))
  /\ \A c \in Clients : WF_allVars(Cancel(c))
  /\ \A j \in JobId :
       /\ WF_allVars(LeaseExpires(j) /\ UNCHANGED <<pc, runVars>>)
       /\ WF_allVars(RetryDue(j) /\ UNCHANGED <<pc, runVars>>)

FairPipeline == PipelineSpec /\ PipelineFairness

-----------------------------------------------------------------------------
(* The rows have their types; a worker executes a job exactly while it is  *)
(* at a stage of the pipeline, and has claimed a row while it sends.       *)
PipelineTypeOK ==
  /\ pc \in [Workers -> Stages]
  /\ package \in [JobId -> RunStatus]
  /\ summary \in [JobId -> RunStatus]
  /\ outbox \in [JobId -> RowState]
  /\ letter \in [Workers -> JobId \cup {NoJob}]
  /\ told \in [JobId -> Nat]
  /\ doubt \in [JobId -> Nat]
  /\ hits \in [JobId -> SUBSET {"error", "stop", "crash", "input", "twice"}]
  /\ errors \in Nat
  /\ \A w \in Workers :
       /\ pc[w] \in Sending <=> letter[w] # NoJob
       /\ pc[w] \in {"idle", "free"} => exec[w] = NoJob
       /\ exec[w] = NoJob => pc[w] \in {"idle", "free"} \cup Sending

(* The fairness DailyJobQueue assumes of an execution, that it ends, is    *)
(* kept by the stages and by the sends of the idle loop.                   *)
KeepsQueueFair == Fairness

(* A completed job has a completed package and a completed summary, over   *)
(* every crash, stop, retry and late cancel of its executions.             *)
HonestEnd ==
  \A j \in JobId :
    jobs[j].status = "completed" => package[j] = "completed" /\ summary[j] = "completed"

(* A summary reaches the chat at most once more than attempts to send it   *)
(* were given up without a recorded outcome, however often the stages of   *)
(* its job run: a crash after the send repeats it, a stage that runs again *)
(* does not.  It reaches the chat only after its package was completed.    *)
RepeatNeedsDoubt ==
  \A j \in JobId :
    told[j] <= 1 + doubt[j] /\ (told[j] > 0 => package[j] = "completed")

(* A job canceled without a crash or an error on the way leaves nothing to *)
(* deliver, whichever stage or send the request met, unless two workers    *)
(* were sending its row: one may put it off after the other marked it.     *)
CanceledIsQuiet ==
  \A j \in JobId :
    jobs[j].status = "canceled" /\ hits[j] \cap {"crash", "error", "twice"} = {}
    => outbox[j] \in {"none", "sent"}

(* No job fails by itself: a cancel, a retry, a failed send or another job *)
(* never makes one fail.                                                   *)
FailureHasCause ==
  \A j \in JobId : jobs[j].status = "failed" => hits[j] \ {"twice"} # {}

(* A worker that is stopped hands its job back: being stopped alone does   *)
(* not make a job fail.                                                    *)
StopDoesNotFail ==
  \A j \in JobId : jobs[j].status = "failed" => hits[j] # {"stop"}

(* A job whose worker crashed is recovered: a crash alone does not make it *)
(* fail.                                                                   *)
CrashDoesNotFail ==
  \A j \in JobId : jobs[j].status = "failed" => hits[j] # {"crash"}

(* Canceling a job discards its unsent row. *)
CancelDiscards ==
  \A j \in JobId : jobs[j].status = "canceled" => outbox[j] \in {"none", "sent"}
=============================================================================
