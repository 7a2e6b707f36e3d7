--------------------------- MODULE DailyJobProofs ---------------------------
(***************************************************************************)
(* Theorems about the daily jobs, for every number of workers, clients,    *)
(* keys, jobs, retries and errors: about the statements of the queue, that *)
(* the queue implements its contract, that a job ends with the rows its    *)
(* status promises, and that its chunk reaches the chat once but for those *)
(* sends of which the server lost the answer.                              *)
(***************************************************************************)
EXTENDS DailyJobWorker, DailyJobRefinement, FiniteSetTheorems, TLAPS

-----------------------------------------------------------------------------
(* A row rewritten by one of the statements is a row. *)
LEMMA CanceledType ==
  ASSUME NEW r \in Row
  PROVE  Canceled(r) \in Row
BY DEF Canceled, Row, Status, Terminal, Lease, RetryAt

LEMMA WrittenType ==
  ASSUME NEW r \in Row, NEW w \in Workers, NEW s \in Terminal \cup {"running"}
  PROVE  Written(r, w, s) \in Row
BY DEF Written, Row, Status, Active, Terminal, Lease

LEMMA HandedBackType ==
  ASSUME NEW r \in Row, NEW t \in RetryAt, NEW n \in Nat
  PROVE  HandedBack(r, t, n) \in Row
BY DEF HandedBack, Row, Status, Active, Lease

LEMMA CancelAskedType ==
  ASSUME NEW r \in Row
  PROVE  [r EXCEPT !.status = "cancel_requested", !.cancelAt = TRUE, !.retryAt = "none"] \in Row
BY DEF Row, Status, Active, RetryAt

LEMMA ClaimedType ==
  ASSUME NEW r \in Row, NEW w \in Workers
  PROVE  [r EXCEPT !.status = "running", !.worker = w, !.lease = "live",
                   !.retryAt = "none"] \in Row
BY DEF Row, Status, Active, Lease, RetryAt

LEMMA SweptType ==
  ASSUME TypeOK
  PROVE  Swept \in [JobId -> Row]
BY CanceledType DEF TypeOK, Swept

(* The initial state has its types. *)
LEMMA TypeInit == Init => TypeOK
BY QueueAssumption DEF Init, TypeOK, Row, Status, Lease, RetryAt, PendingOp

(* Every step keeps them. *)
LEMMA TypeStep == TypeOK /\ [Next]_vars => TypeOK'
<1> SUFFICES ASSUME TypeOK, [Next]_vars PROVE TypeOK'
  OBVIOUS
<1> USE DEF TypeOK
<1>1. ASSUME NEW c \in Clients, NEW k \in Keys, EnqueueCheck(c, k) PROVE TypeOK'
  BY <1>1 DEF EnqueueCheck, PendingOp
<1>2. ASSUME NEW c \in Clients, EnqueueInsert(c) PROVE TypeOK'
  <2>1. PICK j \in JobId :
          jobs' = [jobs EXCEPT ![j] =
            [status |-> "queued", key |-> pend[c].key, worker |-> NoWorker, lease |-> "none",
             retryAt |-> "none", retries |-> 0, cancelAt |-> FALSE, overrun |-> FALSE]]
    BY <1>2 DEF EnqueueInsert
  <2>2. pend[c].key \in Keys
    BY <1>2 DEF EnqueueInsert, PendingOp
  <2>3. [status |-> "queued", key |-> pend[c].key, worker |-> NoWorker, lease |-> "none",
         retryAt |-> "none", retries |-> 0, cancelAt |-> FALSE, overrun |-> FALSE] \in Row
    BY <2>2 DEF Row, Status, Active, Lease, RetryAt
  <2> QED BY <1>2, <2>1, <2>3 DEF EnqueueInsert
<1>3. ASSUME NEW c \in Clients, EnqueueRaced(c) PROVE TypeOK'
  BY <1>3 DEF EnqueueRaced
<1>4. ASSUME NEW c \in Clients, NEW j \in JobId, CancelRead(c, j) PROVE TypeOK'
  BY <1>4 DEF CancelRead, PendingOp
<1>5. ASSUME NEW c \in Clients, CancelUpdate(c) PROVE TypeOK'
  <2> DEFINE j == pend[c].job
  <2>1. j \in JobId
    BY <1>5 DEF CancelUpdate, PendingOp
  <2>2. [jobs[j] EXCEPT !.status = "cancel_requested", !.cancelAt = TRUE, !.retryAt = "none"] \in Row
    BY <2>1, CancelAskedType
  <2>3. jobs' = jobs \/ jobs' = [jobs EXCEPT ![j] =
          [jobs[j] EXCEPT !.status = "cancel_requested", !.cancelAt = TRUE, !.retryAt = "none"]]
    BY <1>5, <2>1 DEF CancelUpdate
  <2> QED BY <1>5, <2>1, <2>2, <2>3 DEF CancelUpdate
<1>6. ASSUME NEW w \in Workers, Claim(w) PROVE TypeOK'
  <2>1. PICK j \in JobId :
          /\ jobs' = [Swept EXCEPT ![j].status = "running", ![j].worker = w,
                                   ![j].lease = "live", ![j].retryAt = "none"]
          /\ exec' = [exec EXCEPT ![w] = j]
    BY <1>6 DEF Claim
  <2>2. [Swept[j] EXCEPT !.status = "running", !.worker = w, !.lease = "live",
                         !.retryAt = "none"] \in Row
    BY SweptType, ClaimedType
  <2>3. jobs' = [Swept EXCEPT ![j] = [Swept[j] EXCEPT !.status = "running", !.worker = w,
                                                    !.lease = "live", !.retryAt = "none"]]
    BY <2>1, SweptType
  <2> QED BY <1>6, <2>1, <2>2, <2>3, SweptType DEF Claim
<1>7. ASSUME NEW w \in Workers, ClaimNothing(w) PROVE TypeOK'
  BY <1>7, SweptType DEF ClaimNothing
<1>8. ASSUME NEW w \in Workers, NEW s \in Terminal \cup {"running"},
             exec[w] # NoJob, WriteJob(w, s)
      PROVE  jobs' \in [JobId -> Row]
  BY <1>8, WrittenType DEF WriteJob
<1>9. ASSUME NEW w \in Workers, WriteRunning(w) PROVE TypeOK'
  BY <1>8, <1>9 DEF WriteRunning
<1>10. ASSUME NEW w \in Workers, NEW s \in Terminal, Finish(w, s) PROVE TypeOK'
  BY <1>8, <1>10 DEF Finish
<1>11. ASSUME NEW w \in Workers, Requeue(w) PROVE TypeOK'
  <2>1. exec[w] \in JobId
    BY <1>11 DEF Requeue
  <2>0. jobs[exec[w]] \in Row
    BY <2>1
  <2>2. HandedBack(jobs[exec[w]], "none", jobs[exec[w]].retries) \in Row
    <3>1. jobs[exec[w]].retries \in Nat
      BY <2>0 DEF Row
    <3> QED BY <2>0, <3>1, HandedBackType DEF RetryAt
  <2>3. jobs' \in [JobId -> Row]
    BY <1>11, <2>1, <2>2 DEF Requeue
  <2> QED BY <1>11, <2>3 DEF Requeue
<1>12. ASSUME NEW w \in Workers, ScheduleRetry(w) PROVE TypeOK'
  <2>1. exec[w] \in JobId
    BY <1>12 DEF ScheduleRetry
  <2>0. jobs[exec[w]] \in Row
    BY <2>1
  <2>2. HandedBack(jobs[exec[w]], "future", jobs[exec[w]].retries + 1) \in Row
    <3>1. jobs[exec[w]].retries + 1 \in Nat
      BY <2>0 DEF Row
    <3> QED BY <2>0, <3>1, HandedBackType DEF RetryAt
  <2>3. jobs' \in [JobId -> Row]
    BY <1>12, <2>1, <2>2 DEF ScheduleRetry
  <2> QED BY <1>12, <2>3 DEF ScheduleRetry
<1>13. ASSUME NEW w \in Workers, Abandon(w) \/ Start(w) \/ Stop(w) \/ LeaveLoop(w) \/ Crash(w)
       PROVE  TypeOK'
  BY <1>13 DEF Abandon, Start, Stop, LeaveLoop, Crash
<1>14. ASSUME NEW j \in JobId, LeaseExpires(j) PROVE TypeOK'
  <2>1. [jobs[j] EXCEPT !.lease = "expired",
                        !.overrun = @ \/ \E w \in Workers : HeldBy(w, j)] \in Row
    BY DEF Row, Lease
  <2>2. jobs' = [jobs EXCEPT ![j] = [jobs[j] EXCEPT !.lease = "expired",
                               !.overrun = @ \/ \E w \in Workers : HeldBy(w, j)]]
    BY <1>14 DEF LeaseExpires
  <2> QED BY <1>14, <2>1, <2>2 DEF LeaseExpires
<1>15. ASSUME NEW j \in JobId, RetryDue(j) PROVE TypeOK'
  <2>1. [jobs[j] EXCEPT !.retryAt = "due"] \in Row
    BY DEF Row, RetryAt
  <2> QED BY <1>15, <2>1 DEF RetryDue
<1>16. CASE UNCHANGED vars
  BY <1>16 DEF vars
<1> QED
  BY <1>1, <1>2, <1>3, <1>4, <1>5, <1>6, <1>7, <1>9, <1>10, <1>11, <1>12, <1>13, <1>14, <1>15,
     <1>16 DEF Next, ClientStep, WorkerStep, EndExecution

(* Rows, executions and pending operations keep their types. *)
THEOREM TypeCorrect == Spec => []TypeOK
<1> QED BY TypeInit, TypeStep, PTL DEF Spec
-----------------------------------------------------------------------------
(* The strengthening.  The unique index makes active rows of one key       *)
(* unique; a claim needs a row without a live lease; and the lease of an   *)
(* executing worker is live until it lapses under it, which `overrun`      *)
(* remembers: so until then an execution pins its row, and only its own    *)
(* worker or a cancel request changes that row's status.                   *)
OneActivePerKey ==
  \A i, j \in JobId :
    i # j /\ jobs[i].status \in Active /\ jobs[j].status \in Active => jobs[i].key # jobs[j].key

Pinned(j, w) ==
  /\ jobs[j].worker = w
  /\ jobs[j].status \in {"running", "cancel_requested"}
  /\ jobs[j].lease = "live"

HolderUnlessOverrun ==
  \A w \in Workers :
    exec[w] # NoJob =>
      /\ jobs[exec[w]].status # "absent"
      /\ ~jobs[exec[w]].overrun => Pinned(exec[w], w)

CancelUnlessOverrun ==
  \A j \in JobId :
    jobs[j].cancelAt /\ ~jobs[j].overrun => jobs[j].status \notin {"queued", "running"}

NoneOverrun == \A j \in JobId : ~jobs[j].overrun

IInv ==
  /\ TypeOK
  /\ OneActivePerKey
  /\ HolderUnlessOverrun
  /\ CancelUnlessOverrun
  /\ ~LeaseMayLapse => NoneOverrun

(* What it comes to while leases outlive executions. *)
ExecutorHoldsLease == \A w \in Workers : exec[w] # NoJob => Pinned(exec[w], w)

LEMMA LeasesHold ==
  ASSUME ~LeaseMayLapse, IInv
  PROVE  ExecutorHoldsLease /\ CancelSticks
BY DEF IInv, TypeOK, NoneOverrun, HolderUnlessOverrun, CancelUnlessOverrun,
       ExecutorHoldsLease, CancelSticks

(* Two executions of rows with the same key, neither overrun, are one. *)
LEMMA OverlapFollows == IInv => LapseStaysLocal
<1> SUFFICES ASSUME IInv, NEW v \in Workers, NEW w \in Workers, v # w,
                    exec[v] # NoJob, exec[w] # NoJob, jobs[exec[v]].key = jobs[exec[w]].key,
                    ~jobs[exec[v]].overrun, ~jobs[exec[w]].overrun
             PROVE  FALSE
  BY DEF LapseStaysLocal, IInv, CancelUnlessOverrun
<1>1. exec[v] \in JobId /\ exec[w] \in JobId
  BY DEF IInv, TypeOK
<1>2. Pinned(exec[v], v) /\ Pinned(exec[w], w)
  BY DEF IInv, HolderUnlessOverrun
<1> QED BY <1>1, <1>2 DEF Pinned, IInv, OneActivePerKey, Active

(* Reachable or not, a state that satisfies the strengthening has at most  *)
(* one execution per key.                                                  *)
LEMMA OneExecutionFollows ==
  ASSUME ~LeaseMayLapse, IInv
  PROVE  OneExecutionPerKey
<1> SUFFICES ASSUME NEW v \in Workers, NEW w \in Workers, v # w,
                    exec[v] # NoJob, exec[w] # NoJob, jobs[exec[v]].key = jobs[exec[w]].key
             PROVE  FALSE
  BY DEF OneExecutionPerKey
<1>1. exec[v] \in JobId /\ exec[w] \in JobId
  BY DEF IInv, TypeOK
<1>2. ~jobs[exec[v]].overrun /\ ~jobs[exec[w]].overrun
  BY <1>1 DEF IInv, NoneOverrun
<1> QED BY <1>2, OverlapFollows DEF LapseStaysLocal

LEMMA IInvInit == Init => IInv
<1> SUFFICES ASSUME Init PROVE IInv
  OBVIOUS
<1>1. TypeOK
  BY TypeInit
<1>2. \A j \in JobId :
        jobs[j].status = "absent" /\ jobs[j].cancelAt = FALSE /\ jobs[j].overrun = FALSE
  BY DEF Init
<1>3. \A w \in Workers : exec[w] = NoJob
  BY DEF Init
<1> QED
  BY <1>1, <1>2, <1>3
  DEF IInv, OneActivePerKey, HolderUnlessOverrun, CancelUnlessOverrun, NoneOverrun, Active

(* Only rows that stay inactive, or that were active already, or that the  *)
(* index admits, are active after a step.                                  *)
LEMMA IndexKept ==
  ASSUME TypeOK, OneActivePerKey,
         NEW j \in JobId, NEW r, IndexAllows(j, r.key, r.status),
         jobs' = [jobs EXCEPT ![j] = r]
  PROVE  OneActivePerKey'
<1>1. \A i \in JobId : i # j => jobs'[i] = jobs[i]
  BY DEF TypeOK
<1>2. jobs'[j] = r
  BY DEF TypeOK
<1>3. SUFFICES ASSUME NEW a \in JobId, NEW b \in JobId, a # b,
                      jobs'[a].status \in Active, jobs'[b].status \in Active
               PROVE  jobs'[a].key # jobs'[b].key
  BY DEF OneActivePerKey
<1>4. CASE a = j
  BY <1>1, <1>2, <1>3, <1>4 DEF IndexAllows
<1>5. CASE b = j
  BY <1>1, <1>2, <1>3, <1>5 DEF IndexAllows
<1>6. CASE a # j /\ b # j
  BY <1>1, <1>3, <1>6 DEF OneActivePerKey
<1> QED BY <1>4, <1>5, <1>6

LEMMA StatusesKept ==
  ASSUME TypeOK, OneActivePerKey,
         \A i \in JobId : /\ jobs'[i].key = jobs[i].key
                          /\ jobs'[i].status \in Active => jobs[i].status \in Active
  PROVE  OneActivePerKey'
BY DEF OneActivePerKey

LEMMA SweptRows ==
  ASSUME TypeOK, NEW i \in JobId
  PROVE  /\ Swept[i].key = jobs[i].key
         /\ Swept[i].cancelAt = jobs[i].cancelAt
         /\ Swept[i].overrun = jobs[i].overrun
         /\ ~Orphan(i) => Swept[i] = jobs[i]
         /\ Orphan(i) => Swept[i].status = "canceled"
BY DEF Swept, Canceled, TypeOK, Row
-----------------------------------------------------------------------------
LEMMA NoJobIsNoId == NoJob \notin JobId
BY DEF NoJob, JobId

(* What each statement does to the rows, in the form the invariants use.   *)

(* A worker's write changes its own row and keeps a cancel request. *)
LEMMA WriteJobRows ==
  ASSUME TypeOK, NEW w \in Workers, NEW s \in Terminal \cup {"running"},
         exec[w] # NoJob, WriteJob(w, s)
  PROVE  /\ exec[w] \in JobId
         /\ \A i \in JobId : i # exec[w] => jobs'[i] = jobs[i]
         /\ jobs'[exec[w]] = Written(jobs[exec[w]], w, s)
         /\ IndexAllows(exec[w], Written(jobs[exec[w]], w, s).key,
                        Written(jobs[exec[w]], w, s).status)
         /\ jobs' = [jobs EXCEPT ![exec[w]] = Written(jobs[exec[w]], w, s)]
BY DEF WriteJob, TypeOK

LEMMA WrittenRow ==
  ASSUME NEW r \in Row, NEW w, NEW s
  PROVE  /\ Written(r, w, s).key = r.key
         /\ Written(r, w, s).worker = w
         /\ Written(r, w, s).lease = "live"
         /\ Written(r, w, s).cancelAt = r.cancelAt
         /\ Written(r, w, s).retries = r.retries
         /\ Written(r, w, s).overrun = r.overrun
         /\ Written(r, w, s).status = IF r.status = "cancel_requested" /\ s = "running"
                                      THEN "cancel_requested" ELSE s
BY DEF Written, Row

(* Handing a job back changes a running row, its owner's, to queued, or    *)
(* nothing.                                                                *)
LEMMA HandBackRows ==
  ASSUME TypeOK, NEW w \in Workers, Requeue(w) \/ ScheduleRetry(w)
  PROVE  /\ exec[w] \in JobId
         /\ exec' = [exec EXCEPT ![w] = NoJob]
         /\ \A i \in JobId : i # exec[w] => jobs'[i] = jobs[i]
         /\ jobs' # jobs => /\ jobs[exec[w]].worker = w
                            /\ jobs[exec[w]].status = "running"
                            /\ jobs'[exec[w]].status = "queued"
         /\ jobs'[exec[w]].key = jobs[exec[w]].key
         /\ jobs'[exec[w]].cancelAt = jobs[exec[w]].cancelAt
         /\ jobs'[exec[w]].overrun = jobs[exec[w]].overrun
<1>1. exec[w] \in JobId /\ jobs[exec[w]] \in Row
  BY DEF Requeue, ScheduleRetry, TypeOK
<1>2. exec' = [exec EXCEPT ![w] = NoJob]
  BY DEF Requeue, ScheduleRetry
<1>3. PICK t, n : \/ jobs' = jobs
                  \/ /\ OwnsRunning(w)
                     /\ jobs' = [jobs EXCEPT ![exec[w]] = HandedBack(jobs[exec[w]], t, n)]
  <2>1. CASE Requeue(w)
    BY <2>1 DEF Requeue
  <2>2. CASE ScheduleRetry(w)
    BY <2>2 DEF ScheduleRetry
  <2> QED BY <2>1, <2>2
<1>4. LET h == HandedBack(jobs[exec[w]], t, n) IN
        /\ h.status = "queued" /\ h.key = jobs[exec[w]].key
        /\ h.cancelAt = jobs[exec[w]].cancelAt
        /\ h.overrun = jobs[exec[w]].overrun
  BY <1>1 DEF HandedBack, Row
<1>5. jobs \in [JobId -> Row]
  BY DEF TypeOK
<1>6. CASE jobs' = jobs
  BY <1>1, <1>2, <1>6
<1>7. CASE OwnsRunning(w) /\ jobs' = [jobs EXCEPT ![exec[w]] = HandedBack(jobs[exec[w]], t, n)]
  <2>1. jobs'[exec[w]] = HandedBack(jobs[exec[w]], t, n)
    BY <1>1, <1>5, <1>7
  <2>2. \A i \in JobId : i # exec[w] => jobs'[i] = jobs[i]
    BY <1>1, <1>5, <1>7
  <2> QED BY <1>1, <1>2, <1>4, <1>7, <2>1, <2>2 DEF OwnsRunning
<1> QED BY <1>3, <1>6, <1>7

(* A claim cancels the orphans and makes one claimable row running. *)
LEMMA ClaimRows ==
  ASSUME TypeOK, NEW w \in Workers, Claim(w)
  PROVE  \E j \in JobId :
           /\ Claimable(j)
           /\ exec[w] = NoJob /\ exec' = [exec EXCEPT ![w] = j]
           /\ \A i \in JobId : i # j => jobs'[i] = Swept[i]
           /\ jobs'[j].status = "running" /\ jobs'[j].worker = w /\ jobs'[j].lease = "live"
           /\ jobs'[j].key = jobs[j].key
           /\ jobs'[j].cancelAt = jobs[j].cancelAt
           /\ jobs'[j].overrun = jobs[j].overrun
<1>1. PICK j \in JobId :
        /\ Claimable(j)
        /\ jobs' = [Swept EXCEPT ![j].status = "running", ![j].worker = w,
                                 ![j].lease = "live", ![j].retryAt = "none"]
        /\ exec' = [exec EXCEPT ![w] = j]
  BY DEF Claim
<1>2. Swept \in [JobId -> Row]
  BY SweptType
<1>3. /\ Swept[j].key = jobs[j].key /\ Swept[j].cancelAt = jobs[j].cancelAt
      /\ Swept[j].overrun = jobs[j].overrun
  BY SweptRows
<1>4. /\ jobs'[j].status = "running" /\ jobs'[j].worker = w /\ jobs'[j].lease = "live"
      /\ jobs'[j].key = Swept[j].key
      /\ jobs'[j].cancelAt = Swept[j].cancelAt
      /\ jobs'[j].overrun = Swept[j].overrun
  BY <1>1, <1>2 DEF Row
<1>5. \A i \in JobId : i # j => jobs'[i] = Swept[i]
  BY <1>1, <1>2
<1>6. exec[w] = NoJob
  BY DEF Claim, Idle
<1> QED BY <1>1, <1>3, <1>4, <1>5, <1>6

(* A cancel request changes one row, which the index must admit. *)
LEMMA CancelRows ==
  ASSUME TypeOK, NEW c \in Clients, CancelUpdate(c), jobs' # jobs
  PROVE  \E j \in JobId :
           /\ IndexAllows(j, jobs[j].key, "cancel_requested")
           /\ \A i \in JobId : i # j => jobs'[i] = jobs[i]
           /\ jobs' = [jobs EXCEPT ![j] = jobs'[j]]
           /\ jobs'[j].status = "cancel_requested"
           /\ jobs'[j].key = jobs[j].key
           /\ jobs'[j].worker = jobs[j].worker
           /\ jobs'[j].lease = jobs[j].lease
           /\ jobs'[j].overrun = jobs[j].overrun
<1> DEFINE j == pend[c].job
<1>1. j \in JobId
  BY DEF CancelUpdate, PendingOp, TypeOK
<1>2. /\ IndexAllows(j, jobs[j].key, "cancel_requested")
      /\ jobs' = [jobs EXCEPT ![j].status = "cancel_requested",
                              ![j].cancelAt = TRUE, ![j].retryAt = "none"]
  BY DEF CancelUpdate
<1>3. jobs \in [JobId -> Row]
  BY DEF TypeOK
<1>4. jobs' = [jobs EXCEPT ![j] = [jobs[j] EXCEPT !.status = "cancel_requested",
                                                  !.cancelAt = TRUE, !.retryAt = "none"]]
  BY <1>1, <1>2, <1>3
<1>5. /\ jobs'[j].status = "cancel_requested"
      /\ jobs'[j].key = jobs[j].key
      /\ jobs'[j].worker = jobs[j].worker
      /\ jobs'[j].lease = jobs[j].lease
      /\ jobs'[j].overrun = jobs[j].overrun
  BY <1>1, <1>3, <1>4 DEF Row
<1>6. \A i \in JobId : i # j => jobs'[i] = jobs[i]
  BY <1>1, <1>3, <1>4
<1>7. jobs' = [jobs EXCEPT ![j] = jobs'[j]]
  BY <1>1, <1>3, <1>4
<1> QED BY <1>1, <1>2, <1>5, <1>6, <1>7

(* An insert turns one absent row into a queued one. *)
LEMMA InsertRows ==
  ASSUME TypeOK, NEW c \in Clients, EnqueueInsert(c)
  PROVE  \E j \in JobId :
           /\ jobs[j].status = "absent"
           /\ IndexAllows(j, jobs'[j].key, "queued")
           /\ \A i \in JobId : i # j => jobs'[i] = jobs[i]
           /\ jobs' = [jobs EXCEPT ![j] = jobs'[j]]
           /\ jobs'[j].status = "queued"
           /\ jobs'[j].cancelAt = FALSE
           /\ jobs'[j].overrun = FALSE
<1>1. PICK j \in JobId :
        /\ jobs[j].status = "absent"
        /\ IndexAllows(j, pend[c].key, "queued")
        /\ jobs' = [jobs EXCEPT ![j] =
             [status |-> "queued", key |-> pend[c].key, worker |-> NoWorker, lease |-> "none",
              retryAt |-> "none", retries |-> 0, cancelAt |-> FALSE, overrun |-> FALSE]]
  BY DEF EnqueueInsert
<1>2. jobs \in [JobId -> Row]
  BY DEF TypeOK
<1>3. jobs'[j] = [status |-> "queued", key |-> pend[c].key, worker |-> NoWorker,
                  lease |-> "none", retryAt |-> "none", retries |-> 0, cancelAt |-> FALSE, overrun |-> FALSE]
  BY <1>1, <1>2
<1> QED BY <1>1, <1>2, <1>3

(* A lapse marks the job when its owner is at it. *)
LEMMA LapseRow ==
  ASSUME TypeOK, NEW j \in JobId, LeaseExpires(j)
  PROVE  jobs'[j].overrun = (jobs[j].overrun \/ \E w \in Workers : HeldBy(w, j))
<1> DEFINE o == jobs[j].overrun \/ \E w \in Workers : HeldBy(w, j)
<1>1. jobs' = [jobs EXCEPT ![j].lease = "expired", ![j].overrun = o]
  BY DEF LeaseExpires
<1> HIDE DEF o
<1>2. jobs'[j].overrun = o
  BY <1>1 DEF TypeOK, Row
<1> QED BY <1>2 DEF o

(* Time changes no status, key, owner or cancel request. *)
LEMMA ClockRows ==
  ASSUME TypeOK, NEW j \in JobId, LeaseExpires(j) \/ RetryDue(j)
  PROVE  /\ exec' = exec
         /\ \A i \in JobId : i # j => jobs'[i] = jobs[i]
         /\ jobs'[j].status = jobs[j].status
         /\ jobs'[j].key = jobs[j].key
         /\ jobs'[j].worker = jobs[j].worker
         /\ jobs'[j].cancelAt = jobs[j].cancelAt
         /\ RetryDue(j) => jobs'[j].lease = jobs[j].lease
         /\ \/ jobs'[j].overrun = jobs[j].overrun
            \/ LeaseExpires(j) /\ \E w \in Workers : HeldBy(w, j)
         /\ jobs[j].overrun => jobs'[j].overrun
<1>1. jobs \in [JobId -> Row]
  BY DEF TypeOK
<1>2. CASE LeaseExpires(j)
  <2>1. PICK o : jobs' = [jobs EXCEPT ![j] = [jobs[j] EXCEPT !.lease = "expired", !.overrun = o]]
    BY <1>2 DEF LeaseExpires
  <2>2. jobs'[j] = [jobs[j] EXCEPT !.lease = "expired", !.overrun = o]
    BY <1>1, <2>1
  <2>3. ~RetryDue(j) \/ jobs'[j].lease = jobs[j].lease
    BY <1>1, <1>2, <2>2 DEF LeaseExpires, RetryDue, Row
  <2>4. /\ \/ jobs'[j].overrun = jobs[j].overrun
           \/ \E w \in Workers : HeldBy(w, j)
        /\ jobs[j].overrun => jobs'[j].overrun
    <3>1. jobs[j].overrun \in BOOLEAN
      BY <1>1 DEF Row
    <3> QED BY <1>2, <3>1, LapseRow
  <2>5. /\ exec' = exec
        /\ \A i \in JobId : i # j => jobs'[i] = jobs[i]
        /\ jobs'[j].status = jobs[j].status
        /\ jobs'[j].key = jobs[j].key
        /\ jobs'[j].worker = jobs[j].worker
        /\ jobs'[j].cancelAt = jobs[j].cancelAt
    BY <1>1, <1>2, <2>1, <2>2 DEF LeaseExpires, Row
  <2> QED BY <1>2, <2>3, <2>4, <2>5
<1>3. CASE RetryDue(j)
  <2>1. jobs' = [jobs EXCEPT ![j] = [jobs[j] EXCEPT !.retryAt = "due"]]
    BY <1>3 DEF RetryDue
  <2>2. jobs'[j] = [jobs[j] EXCEPT !.retryAt = "due"]
    BY <1>1, <2>1
  <2> QED BY <1>1, <1>3, <2>1, <2>2 DEF RetryDue, Row
<1> QED BY <1>2, <1>3
-----------------------------------------------------------------------------
(* The three parts of the strengthening, preserved by every step. *)
LEMMA OneActiveStep == IInv /\ [Next]_vars => OneActivePerKey'
<1> SUFFICES ASSUME IInv, [Next]_vars PROVE OneActivePerKey'
  OBVIOUS
<1> USE DEF IInv
<1>0. jobs \in [JobId -> Row]
  BY DEF TypeOK
<1>1. ASSUME UNCHANGED jobs PROVE OneActivePerKey'
  BY <1>1, StatusesKept
<1>2. ASSUME NEW c \in Clients, EnqueueInsert(c) PROVE OneActivePerKey'
  BY <1>2, InsertRows, IndexKept
<1>3. ASSUME NEW c \in Clients, CancelUpdate(c) PROVE OneActivePerKey'
  <2>1. CASE jobs' = jobs
    BY <1>1, <2>1
  <2>2. CASE jobs' # jobs
    BY <1>3, <2>2, CancelRows, IndexKept
  <2> QED BY <2>1, <2>2
<1>4. ASSUME NEW w \in Workers, Claim(w) PROVE OneActivePerKey'
  <2>1. PICK j \in JobId :
          /\ Claimable(j)
          /\ \A i \in JobId : i # j => jobs'[i] = Swept[i]
          /\ jobs'[j].key = jobs[j].key
    BY <1>4, ClaimRows
  <2>2. \A i \in JobId : jobs'[i].key = jobs[i].key
    BY <2>1, SweptRows
  <2>3. \A i \in JobId : jobs'[i].status \in Active => jobs[i].status \in Active
    BY <2>1, SweptRows DEF Claimable, Active
  <2> QED BY <2>2, <2>3, StatusesKept
<1>5. ASSUME NEW w \in Workers, ClaimNothing(w) PROVE OneActivePerKey'
  <2>1. jobs' = Swept
    BY <1>5 DEF ClaimNothing
  <2> QED BY <2>1, SweptRows, StatusesKept DEF Active
<1>6. ASSUME NEW w \in Workers, NEW s \in Terminal \cup {"running"},
             exec[w] # NoJob, WriteJob(w, s)
      PROVE  OneActivePerKey'
  BY <1>6, WriteJobRows, IndexKept
<1>7. ASSUME NEW w \in Workers, Requeue(w) \/ ScheduleRetry(w) PROVE OneActivePerKey'
  <2>1. \A i \in JobId : /\ jobs'[i].key = jobs[i].key
                         /\ jobs'[i].status \in Active => jobs[i].status \in Active
    BY <1>7, HandBackRows DEF Active
  <2> QED BY <2>1, StatusesKept
<1>8. ASSUME NEW j \in JobId, LeaseExpires(j) \/ RetryDue(j) PROVE OneActivePerKey'
  <2>1. \A i \in JobId : /\ jobs'[i].key = jobs[i].key
                         /\ jobs'[i].status \in Active => jobs[i].status \in Active
    BY <1>8, ClockRows
  <2> QED BY <2>1, StatusesKept
<1> QED
  BY <1>1, <1>2, <1>3, <1>4, <1>5, <1>6, <1>7, <1>8
  DEF Next, ClientStep, WorkerStep, EndExecution, EnqueueCheck, EnqueueRaced, CancelRead,
      WriteRunning, Finish, Abandon, Start, Stop, LeaveLoop, Crash, vars

(* The mark of an overrun job is set when its lease lapses under the       *)
(* worker that holds it, and never taken back.                             *)
LEMMA OverrunRows ==
  ASSUME TypeOK, [Next]_vars, NEW j \in JobId
  PROVE  \/ jobs'[j].overrun = jobs[j].overrun
         \/ jobs[j].status = "absent" /\ jobs'[j].overrun = FALSE
         \/ LeaseExpires(j) /\ \E w \in Workers : HeldBy(w, j)
<1>1. CASE UNCHANGED jobs
  BY <1>1
<1>2. ASSUME NEW c \in Clients, EnqueueInsert(c)
      PROVE  jobs'[j].overrun = jobs[j].overrun \/ (jobs[j].status = "absent" /\ jobs'[j].overrun = FALSE)
  BY <1>2, InsertRows
<1>3. ASSUME NEW c \in Clients, CancelUpdate(c) PROVE jobs'[j].overrun = jobs[j].overrun
  <2>1. CASE jobs' = jobs
    BY <2>1
  <2>2. CASE jobs' # jobs
    BY <1>3, <2>2, CancelRows
  <2> QED BY <2>1, <2>2
<1>4. ASSUME NEW w \in Workers, Claim(w) PROVE jobs'[j].overrun = jobs[j].overrun
  BY <1>4, ClaimRows, SweptRows
<1>5. ASSUME NEW w \in Workers, ClaimNothing(w) PROVE jobs'[j].overrun = jobs[j].overrun
  BY <1>5, SweptRows DEF ClaimNothing
<1>6. ASSUME NEW w \in Workers, NEW s \in Terminal \cup {"running"},
             exec[w] # NoJob, WriteJob(w, s)
      PROVE  jobs'[j].overrun = jobs[j].overrun
  <2>1. exec[w] \in JobId /\ jobs[exec[w]] \in Row
    BY <1>6, WriteJobRows DEF TypeOK
  <2> QED BY <1>6, <2>1, WriteJobRows, WrittenRow
<1>7. ASSUME NEW w \in Workers, Requeue(w) \/ ScheduleRetry(w)
      PROVE  jobs'[j].overrun = jobs[j].overrun
  BY <1>7, HandBackRows
<1>8. ASSUME NEW i \in JobId, LeaseExpires(i) \/ RetryDue(i)
      PROVE  \/ jobs'[j].overrun = jobs[j].overrun
             \/ LeaseExpires(j) /\ \E w \in Workers : HeldBy(w, j)
  BY <1>8, ClockRows
<1> QED
  BY <1>1, <1>2, <1>3, <1>4, <1>5, <1>6, <1>7, <1>8
  DEF Next, ClientStep, WorkerStep, EndExecution, EnqueueCheck, EnqueueRaced, CancelRead,
      WriteRunning, Finish, Abandon, Start, Stop, LeaveLoop, Crash, vars

LEMMA NoneOverrunStep ==
  ASSUME ~LeaseMayLapse, IInv, [Next]_vars
  PROVE  NoneOverrun'
<1> SUFFICES ASSUME NEW j \in JobId PROVE ~jobs'[j].overrun
  BY DEF NoneOverrun
<1>1. ~(LeaseExpires(j) /\ \E w \in Workers : HeldBy(w, j))
  BY DEF LeaseExpires
<1> QED BY <1>1, OverrunRows DEF IInv, NoneOverrun

(* No statement deletes a row. *)
LEMMA RowsStay ==
  ASSUME IInv, [Next]_vars, NEW j \in JobId, jobs[j].status # "absent"
  PROVE  jobs'[j].status # "absent"
<1> USE DEF IInv
<1>1. CASE UNCHANGED jobs
  BY <1>1
<1>2. ASSUME NEW c \in Clients, EnqueueInsert(c) PROVE jobs'[j].status # "absent"
  BY <1>2, InsertRows
<1>3. ASSUME NEW c \in Clients, CancelUpdate(c) PROVE jobs'[j].status # "absent"
  <2>1. CASE jobs' = jobs
    BY <1>1, <2>1
  <2>2. CASE jobs' # jobs
    BY <1>3, <2>2, CancelRows
  <2> QED BY <2>1, <2>2
<1>4. ASSUME NEW w \in Workers, Claim(w) PROVE jobs'[j].status # "absent"
  BY <1>4, ClaimRows, SweptRows
<1>5. ASSUME NEW w \in Workers, ClaimNothing(w) PROVE jobs'[j].status # "absent"
  BY <1>5, SweptRows DEF ClaimNothing
<1>6. ASSUME NEW w \in Workers, NEW s \in Terminal \cup {"running"},
             exec[w] # NoJob, WriteJob(w, s)
      PROVE  jobs'[j].status # "absent"
  <2>1. exec[w] \in JobId /\ jobs[exec[w]] \in Row
    BY <1>6, WriteJobRows DEF TypeOK
  <2>2. jobs'[exec[w]].status # "absent"
    BY <1>6, <2>1, WriteJobRows, WrittenRow DEF Terminal
  <2> QED BY <1>6, <2>2, WriteJobRows
<1>7. ASSUME NEW w \in Workers, Requeue(w) \/ ScheduleRetry(w) PROVE jobs'[j].status # "absent"
  BY <1>7, HandBackRows
<1>8. ASSUME NEW i \in JobId, LeaseExpires(i) \/ RetryDue(i) PROVE jobs'[j].status # "absent"
  BY <1>8, ClockRows
<1> QED
  BY <1>1, <1>2, <1>3, <1>4, <1>5, <1>6, <1>7, <1>8
  DEF Next, ClientStep, WorkerStep, EndExecution, EnqueueCheck, EnqueueRaced, CancelRead,
      WriteRunning, Finish, Abandon, Start, Stop, LeaveLoop, Crash, vars

(* An execution whose lease has not lapsed still holds its row. *)
LEMMA ExecutorStep ==
  ASSUME IInv, [Next]_vars
  PROVE  HolderUnlessOverrun'
<1> USE DEF IInv
<1>0. /\ jobs \in [JobId -> Row] /\ exec \in [Workers -> JobId \cup {NoJob}]
      /\ HolderUnlessOverrun
  BY DEF TypeOK
<1>1. SUFFICES ASSUME NEW v \in Workers, exec'[v] # NoJob
               PROVE  /\ jobs'[exec'[v]].status # "absent"
                      /\ ~jobs'[exec'[v]].overrun => Pinned(exec[v], v)'
  BY DEF HolderUnlessOverrun
<1>14. jobs'[exec'[v]].status # "absent"
  <2>1. CASE exec'[v] = exec[v]
    BY <1>0, <1>1, <2>1, RowsStay DEF HolderUnlessOverrun
  <2>2. CASE exec'[v] # exec[v]
    <3>1. PICK w \in Workers : Claim(w)
      BY <1>0, <1>1, <2>2
      DEF Next, ClientStep, WorkerStep, EndExecution, EnqueueCheck, EnqueueInsert, EnqueueRaced,
          CancelRead, CancelUpdate, ClaimNothing, WriteRunning, Finish, Requeue, ScheduleRetry,
          Abandon, Start, Stop, LeaveLoop, Crash, LeaseExpires, RetryDue, vars
    <3>2. PICK j \in JobId : exec' = [exec EXCEPT ![w] = j] /\ jobs'[j].status = "running"
      BY <3>1, ClaimRows
    <3>3. v = w /\ exec'[v] = j
      BY <1>0, <2>2, <3>2
    <3> QED BY <3>2, <3>3
  <2> QED BY <2>1, <2>2
<1>15. SUFFICES ASSUME ~jobs'[exec'[v]].overrun PROVE Pinned(exec[v], v)'
  BY <1>14
<1> USE DEF Pinned
<1>2. exec'[v] = exec[v] => /\ exec[v] \in JobId /\ Pinned(exec[v], v)
                            /\ ~jobs[exec[v]].overrun
  <2> SUFFICES ASSUME exec'[v] = exec[v]
               PROVE  exec[v] \in JobId /\ Pinned(exec[v], v) /\ ~jobs[exec[v]].overrun
    OBVIOUS
  <2>1. exec[v] \in JobId /\ jobs[exec[v]].status # "absent"
    BY <1>0, <1>1 DEF HolderUnlessOverrun
  <2>2. CASE ~jobs[exec[v]].overrun
    BY <1>0, <1>1, <2>1, <2>2 DEF HolderUnlessOverrun
  <2>3. CASE jobs[exec[v]].overrun
    <3>1. PICK w \in Workers : LeaseExpires(exec[v]) /\ HeldBy(w, exec[v])
      BY <1>0, <1>15, <2>1, <2>3, OverrunRows
    <3>2. jobs'[exec[v]].overrun
      BY <2>1, <2>3, <3>1, LapseRow
    <3> QED BY <1>15, <3>2
  <2> QED BY <2>2, <2>3
<1>3. ASSUME UNCHANGED jobs, exec'[v] = exec[v] PROVE Pinned(exec[v], v)'
  BY <1>2, <1>3
<1>4. ASSUME NEW c \in Clients, EnqueueInsert(c) PROVE Pinned(exec[v], v)'
  <2>1. exec' = exec
    BY <1>4 DEF EnqueueInsert
  <2> QED BY <1>2, <1>4, <2>1, InsertRows
<1>5. ASSUME NEW c \in Clients, CancelUpdate(c) PROVE Pinned(exec[v], v)'
  <2>1. exec' = exec
    BY <1>5 DEF CancelUpdate
  <2>2. CASE jobs' = jobs
    BY <1>3, <2>1, <2>2
  <2>3. CASE jobs' # jobs
    BY <1>2, <1>5, <2>1, <2>3, CancelRows
  <2> QED BY <2>2, <2>3
<1>6. ASSUME NEW w \in Workers, Claim(w) PROVE Pinned(exec[v], v)'
  <2>1. PICK j \in JobId :
           /\ Claimable(j)
           /\ exec[w] = NoJob /\ exec' = [exec EXCEPT ![w] = j]
           /\ \A i \in JobId : i # j => jobs'[i] = Swept[i]
           /\ jobs'[j].status = "running" /\ jobs'[j].worker = w /\ jobs'[j].lease = "live"
    BY <1>6, ClaimRows
  <2>2. CASE v = w
    <3>1. exec'[v] = j
      BY <1>0, <2>1, <2>2
    <3> QED BY <2>1, <2>2, <3>1
  <2>3. CASE v # w
    <3>1. exec'[v] = exec[v]
      BY <1>0, <2>1, <2>3
    <3>2. exec[v] \in JobId /\ ~Claimable(exec[v]) /\ ~Orphan(exec[v])
      BY <1>2, <3>1, QueueAssumption DEF Claimable, Orphan
    <3>3. jobs'[exec[v]] = jobs[exec[v]]
      BY <2>1, <3>2, SweptRows
    <3> QED BY <1>2, <3>1, <3>3
  <2> QED BY <2>2, <2>3
<1>7. ASSUME NEW w \in Workers, ClaimNothing(w) PROVE Pinned(exec[v], v)'
  <2>1. jobs' = Swept /\ exec' = exec
    BY <1>7 DEF ClaimNothing
  <2>2. exec[v] \in JobId /\ ~Orphan(exec[v])
    BY <1>2, <2>1, QueueAssumption DEF Orphan
  <2> QED BY <1>2, <2>1, <2>2, SweptRows
<1>8. ASSUME NEW w \in Workers, WriteRunning(w) PROVE Pinned(exec[v], v)'
  <2>1. exec' = exec /\ exec[w] \in JobId
    BY <1>0, <1>8 DEF WriteRunning
  <2>2. /\ \A i \in JobId : i # exec[w] => jobs'[i] = jobs[i]
        /\ jobs'[exec[w]] = Written(jobs[exec[w]], w, "running")
    BY <1>8, WriteJobRows DEF WriteRunning
  <2>3. CASE exec[v] = exec[w]
    <3>1. v = w
      BY <1>0, <1>2, <2>1, <2>3, NoJobIsNoId DEF HolderUnlessOverrun
    <3>2. jobs[exec[w]] \in Row
      BY <1>0, <2>1
    <3>3. /\ jobs'[exec[w]].worker = w
          /\ jobs'[exec[w]].lease = "live"
          /\ jobs'[exec[w]].status \in {"running", "cancel_requested"}
      BY <2>2, <3>2, WrittenRow
    <3> QED BY <2>1, <3>1, <3>3
  <2>4. CASE exec[v] # exec[w]
    BY <1>2, <2>1, <2>2, <2>4
  <2> QED BY <2>3, <2>4
<1>9. ASSUME NEW w \in Workers, NEW s \in Terminal, Finish(w, s) PROVE Pinned(exec[v], v)'
  <2>1. exec' = [exec EXCEPT ![w] = NoJob] /\ exec[w] \in JobId
    BY <1>0, <1>9 DEF Finish
  <2>2. v # w /\ exec'[v] = exec[v]
    BY <1>0, <1>1, <2>1
  <2>3. exec[v] # exec[w]
    BY <1>0, <1>2, <2>1, <2>2, NoJobIsNoId DEF HolderUnlessOverrun
  <2> QED BY <1>2, <1>9, <2>2, <2>3, WriteJobRows DEF Finish
<1>10. ASSUME NEW w \in Workers, Requeue(w) \/ ScheduleRetry(w) PROVE Pinned(exec[v], v)'
  <2>1. exec' = [exec EXCEPT ![w] = NoJob] /\ exec[w] \in JobId
    BY <1>10, HandBackRows
  <2>2. v # w /\ exec'[v] = exec[v]
    BY <1>0, <1>1, <2>1
  <2>3. exec[v] # exec[w]
    BY <1>0, <1>2, <2>1, <2>2, NoJobIsNoId DEF HolderUnlessOverrun
  <2> QED BY <1>2, <1>10, <2>2, <2>3, HandBackRows
<1>11. ASSUME NEW w \in Workers, Abandon(w) \/ Crash(w) PROVE Pinned(exec[v], v)'
  <2>1. jobs' = jobs /\ exec' = [exec EXCEPT ![w] = NoJob]
    BY <1>11 DEF Abandon, Crash
  <2>2. exec'[v] = exec[v]
    BY <1>0, <1>1, <2>1
  <2> QED BY <1>3, <2>1, <2>2
<1>12. ASSUME NEW j \in JobId, LeaseExpires(j) PROVE Pinned(exec[v], v)'
  <2>1. exec' = exec
    BY <1>12 DEF LeaseExpires
  <2>2. exec[v] # j
    <3>1. SUFFICES ASSUME exec[v] = j PROVE FALSE
      OBVIOUS
    <3>2. HeldBy(v, j)
      BY <1>2, <2>1, <3>1 DEF HeldBy
    <3>3. jobs'[j].overrun
      BY <1>12, <3>2, LapseRow
    <3> QED BY <1>15, <2>1, <3>1, <3>3
  <2> QED BY <1>2, <1>12, <2>1, <2>2, ClockRows
<1>13. ASSUME NEW j \in JobId, RetryDue(j) PROVE Pinned(exec[v], v)'
  <2>1. exec' = exec
    BY <1>13 DEF RetryDue
  <2> QED BY <1>2, <1>13, <2>1, ClockRows
<1> QED
  BY <1>3, <1>4, <1>5, <1>6, <1>7, <1>8, <1>9, <1>10, <1>11, <1>12, <1>13
  DEF Next, ClientStep, WorkerStep, EndExecution, EnqueueCheck, EnqueueRaced, CancelRead,
      Start, Stop, LeaveLoop, vars
(* A job with a cancel request stays out of the claimable statuses until   *)
(* it is overrun: every write to it finds it cancel-requested or ended.    *)
LEMMA CancelStep ==
  ASSUME IInv, [Next]_vars
  PROVE  CancelUnlessOverrun'
<1> USE DEF IInv
<1>0. /\ jobs \in [JobId -> Row] /\ exec \in [Workers -> JobId \cup {NoJob}]
      /\ HolderUnlessOverrun /\ CancelUnlessOverrun
  BY DEF TypeOK
<1>1. ASSUME \A i \in JobId : /\ jobs'[i].cancelAt = jobs[i].cancelAt
                              /\ jobs[i].overrun => jobs'[i].overrun
                              /\ \/ jobs'[i].status = jobs[i].status
                                 \/ jobs'[i].status \notin {"queued", "running"}
                                 \/ jobs[i].status \in {"queued", "running"}
      PROVE  CancelUnlessOverrun'
  BY <1>0, <1>1 DEF CancelUnlessOverrun
<1>2. ASSUME UNCHANGED jobs PROVE CancelUnlessOverrun'
  BY <1>1, <1>2
<1>3. ASSUME NEW c \in Clients, EnqueueInsert(c) PROVE CancelUnlessOverrun'
  BY <1>0, <1>3, InsertRows DEF CancelUnlessOverrun
<1>4. ASSUME NEW c \in Clients, CancelUpdate(c) PROVE CancelUnlessOverrun'
  <2>1. CASE jobs' = jobs
    BY <1>2, <2>1
  <2>2. CASE jobs' # jobs
    BY <1>0, <1>4, <2>2, CancelRows DEF CancelUnlessOverrun
  <2> QED BY <2>1, <2>2
<1>5. ASSUME NEW w \in Workers, Claim(w) PROVE CancelUnlessOverrun'
  <2>1. PICK j \in JobId :
           /\ Claimable(j)
           /\ \A i \in JobId : i # j => jobs'[i] = Swept[i]
           /\ jobs'[j].cancelAt = jobs[j].cancelAt
           /\ jobs'[j].overrun = jobs[j].overrun
    BY <1>5, ClaimRows
  <2>2. \A i \in JobId : jobs'[i].cancelAt = jobs[i].cancelAt /\ jobs'[i].overrun = jobs[i].overrun
    BY <2>1, SweptRows
  <2>3. \A i \in JobId : \/ jobs'[i].status = jobs[i].status
                         \/ jobs'[i].status \notin {"queued", "running"}
                         \/ jobs[i].status \in {"queued", "running"}
    BY <2>1, SweptRows DEF Claimable
  <2> QED BY <1>1, <2>2, <2>3
<1>6. ASSUME NEW w \in Workers, ClaimNothing(w) PROVE CancelUnlessOverrun'
  <2>1. jobs' = Swept
    BY <1>6 DEF ClaimNothing
  <2>2. \A i \in JobId : /\ jobs'[i].cancelAt = jobs[i].cancelAt
                         /\ jobs'[i].overrun = jobs[i].overrun
                         /\ \/ jobs'[i].status = jobs[i].status
                            \/ jobs'[i].status \notin {"queued", "running"}
    BY <2>1, SweptRows
  <2> QED BY <1>1, <2>2
<1>7. ASSUME NEW w \in Workers, NEW s \in Terminal \cup {"running"},
             exec[w] # NoJob, WriteJob(w, s)
      PROVE  CancelUnlessOverrun'
  <2>1. /\ exec[w] \in JobId
        /\ \A i \in JobId : i # exec[w] => jobs'[i] = jobs[i]
        /\ jobs'[exec[w]] = Written(jobs[exec[w]], w, s)
    BY <1>7, WriteJobRows
  <2>2. jobs[exec[w]] \in Row
    BY <1>0, <2>1
  <2>3. /\ jobs'[exec[w]].cancelAt = jobs[exec[w]].cancelAt
        /\ jobs'[exec[w]].overrun = jobs[exec[w]].overrun
        /\ \/ jobs[exec[w]].overrun
           \/ jobs'[exec[w]].status = jobs[exec[w]].status
           \/ jobs'[exec[w]].status \in Terminal
    <3>1. \/ jobs[exec[w]].overrun
          \/ jobs[exec[w]].status \in {"running", "cancel_requested"}
      BY <1>0, <1>7 DEF HolderUnlessOverrun, Pinned
    <3> QED BY <1>7, <2>1, <2>2, <3>1, WrittenRow
  <2>4. SUFFICES ASSUME NEW i \in JobId, jobs'[i].cancelAt, ~jobs'[i].overrun
                 PROVE  jobs'[i].status \notin {"queued", "running"}
    BY DEF CancelUnlessOverrun
  <2>5. CASE i = exec[w]
    BY <1>0, <2>3, <2>4, <2>5 DEF Terminal, CancelUnlessOverrun
  <2>6. CASE i # exec[w]
    BY <1>0, <2>1, <2>4, <2>6 DEF CancelUnlessOverrun
  <2> QED BY <2>5, <2>6
<1>8. ASSUME NEW w \in Workers, Requeue(w) \/ ScheduleRetry(w) PROVE CancelUnlessOverrun'
  <2>1. \A i \in JobId : /\ jobs'[i].cancelAt = jobs[i].cancelAt
                         /\ jobs'[i].overrun = jobs[i].overrun
                         /\ \/ jobs'[i].status = jobs[i].status
                            \/ jobs[i].status = "running"
    BY <1>8, HandBackRows
  <2> QED BY <1>1, <2>1
<1>9. ASSUME NEW j \in JobId, LeaseExpires(j) \/ RetryDue(j) PROVE CancelUnlessOverrun'
  <2>1. \A i \in JobId : /\ jobs'[i].cancelAt = jobs[i].cancelAt
                         /\ jobs[i].overrun => jobs'[i].overrun
                         /\ jobs'[i].status = jobs[i].status
    BY <1>9, ClockRows
  <2> QED BY <1>1, <2>1
<1> QED
  BY <1>2, <1>3, <1>4, <1>5, <1>6, <1>7, <1>8, <1>9
  DEF Next, ClientStep, WorkerStep, EndExecution, EnqueueCheck, EnqueueRaced, CancelRead,
      WriteRunning, Finish, Abandon, Start, Stop, LeaveLoop, Crash, vars

LEMMA IInvStep == IInv /\ [Next]_vars => IInv'
<1> SUFFICES ASSUME IInv, [Next]_vars PROVE IInv'
  OBVIOUS
<1>1. TypeOK'
  BY TypeStep DEF IInv
<1>2. OneActivePerKey' /\ HolderUnlessOverrun' /\ CancelUnlessOverrun'
  BY OneActiveStep, ExecutorStep, CancelStep
<1>3. ~LeaseMayLapse => NoneOverrun'
  BY NoneOverrunStep
<1> QED BY <1>1, <1>2, <1>3 DEF IInv

(* The strengthening is an invariant of the queue. *)
THEOREM Inductive == Spec => []IInv
<1> QED BY IInvInit, IInvStep, PTL DEF Spec

(* While leases outlive executions, equivalent requests are never worked   *)
(* on by two workers at the same time.                                     *)
THEOREM MutualExclusion ==
  ASSUME ~LeaseMayLapse
  PROVE  Spec => []OneExecutionPerKey
<1>1. IInv => OneExecutionPerKey
  BY OneExecutionFollows
<1> QED BY Inductive, <1>1, PTL

(* When a lease lapses under an execution, the job it lapsed on, and no    *)
(* other, may be worked on twice or lose its request to cancel.            *)
THEOREM LapsesStayLocal == Spec => []LapseStaysLocal
<1> QED BY Inductive, OverlapFollows, PTL

(* While leases outlive executions, a cancel request is never lost. *)
THEOREM CancelIsKept ==
  ASSUME ~LeaseMayLapse
  PROVE  Spec => []CancelSticks
<1>1. IInv => CancelSticks
  BY LeasesHold
<1> QED BY Inductive, <1>1, PTL
-----------------------------------------------------------------------------
(* Which rows a step may make queued or running, and from what. *)
LEMMA WorkableStep ==
  ASSUME TypeOK, [Next]_vars, NEW j \in JobId,
         jobs'[j].status \in {"queued", "running"}
  PROVE  \/ jobs[j].status \in {"absent", "queued", "running"}
         \/ \E w \in Workers : exec[w] = j /\ exec[w] # NoJob
<1>1. CASE UNCHANGED jobs
  BY <1>1
<1>2. ASSUME NEW c \in Clients, EnqueueInsert(c)
      PROVE  jobs[j].status \in {"absent", "queued", "running"}
  BY <1>2, InsertRows
<1>3. ASSUME NEW c \in Clients, CancelUpdate(c)
      PROVE  jobs[j].status \in {"absent", "queued", "running"}
  <2>1. CASE jobs' = jobs
    BY <1>1, <2>1
  <2>2. CASE jobs' # jobs
    BY <1>3, <2>2, CancelRows
  <2> QED BY <2>1, <2>2
<1>4. ASSUME NEW w \in Workers, Claim(w)
      PROVE  jobs[j].status \in {"absent", "queued", "running"}
  BY <1>4, ClaimRows, SweptRows DEF Claimable
<1>5. ASSUME NEW w \in Workers, ClaimNothing(w)
      PROVE  jobs[j].status \in {"absent", "queued", "running"}
  BY <1>5, SweptRows DEF ClaimNothing
<1>6. ASSUME NEW w \in Workers, NEW s \in Terminal \cup {"running"},
             exec[w] # NoJob, WriteJob(w, s)
      PROVE  \/ jobs[j].status \in {"absent", "queued", "running"}
             \/ exec[w] = j
  BY <1>6, WriteJobRows
<1>7. ASSUME NEW w \in Workers, Requeue(w) \/ ScheduleRetry(w)
      PROVE  jobs[j].status \in {"absent", "queued", "running"}
  BY <1>7, HandBackRows
<1>8. ASSUME NEW i \in JobId, LeaseExpires(i) \/ RetryDue(i)
      PROVE  jobs[j].status \in {"absent", "queued", "running"}
  BY <1>8, ClockRows
<1> QED
  BY <1>1, <1>2, <1>3, <1>4, <1>5, <1>6, <1>7, <1>8
  DEF Next, ClientStep, WorkerStep, EndExecution, EnqueueCheck, EnqueueRaced, CancelRead,
      WriteRunning, Finish, Abandon, Start, Stop, LeaveLoop, Crash, vars

(* While leases outlive executions, no job is worked on after it ended:    *)
(* the only steps that make a row runnable start from a runnable row or    *)
(* from the row of an execution, which has not ended.                      *)
THEOREM EndedJobsRest ==
  ASSUME ~LeaseMayLapse
  PROVE  Spec => NoRerun
<1>1. IInv /\ [Next]_vars =>
        [\A j \in JobId : jobs[j].status \in Terminal
                          => jobs'[j].status \notin {"queued", "running"}]_vars
  <2> SUFFICES ASSUME IInv, [Next]_vars, NEW j \in JobId, jobs[j].status \in Terminal
               PROVE  jobs'[j].status \notin {"queued", "running"}
    OBVIOUS
  <2>1. \A w \in Workers : exec[w] # NoJob => exec[w] # j
    BY LeasesHold DEF ExecutorHoldsLease, Pinned, Terminal
  <2> QED BY <2>1, WorkableStep DEF IInv, Terminal
<1> QED BY Inductive, <1>1, PTL DEF Spec, NoRerun

-----------------------------------------------------------------------------
(* The queue implements the contract. *)
(* A cancel about to be written is for a row that exists. *)
PendingKnown ==
  \A c \in Clients :
    pend[c] # NoOp /\ pend[c].op = "cancel" => jobs[pend[c].job].status # "absent"

LEMMA PendingKnownInit == Init => PendingKnown
BY DEF Init, PendingKnown

LEMMA PendingKnownStep == IInv /\ PendingKnown /\ [Next]_vars => PendingKnown'
<1> SUFFICES ASSUME IInv, PendingKnown, [Next]_vars,
                    NEW c \in Clients, pend'[c] # NoOp, pend'[c].op = "cancel"
             PROVE  jobs'[pend'[c].job].status # "absent"
  BY DEF PendingKnown
<1>0. pend \in [Clients -> PendingOp \cup {NoOp}]
  BY DEF IInv, TypeOK
<1>1. CASE pend'[c] = pend[c]
  <2>1. pend[c].job \in JobId /\ jobs[pend[c].job].status # "absent"
    BY <1>0, <1>1 DEF PendingKnown, PendingOp
  <2> QED BY <1>1, <2>1, RowsStay
<1>2. CASE pend'[c] # pend[c]
  <2>1. ASSUME NEW d \in Clients, NEW k \in Keys, EnqueueCheck(d, k) PROVE FALSE
    BY <1>0, <1>2, <2>1 DEF EnqueueCheck
  <2>2. ASSUME NEW d \in Clients, EnqueueInsert(d) \/ EnqueueRaced(d) \/ CancelUpdate(d)
        PROVE  FALSE
    BY <1>0, <1>2, <2>2 DEF EnqueueInsert, EnqueueRaced, CancelUpdate
  <2>3. ASSUME NEW d \in Clients, NEW j \in JobId, CancelRead(d, j)
        PROVE  jobs'[pend'[c].job].status # "absent"
    <3>1. pend'[c] = [op |-> "cancel", job |-> j] /\ jobs' = jobs
      BY <1>0, <1>2, <2>3 DEF CancelRead
    <3> QED BY <2>3, <3>1 DEF CancelRead, Active
  <2> QED
    BY <1>2, <2>1, <2>2, <2>3
    DEF Next, ClientStep, WorkerStep, EndExecution, Claim, ClaimNothing, WriteRunning, Finish,
        Requeue, ScheduleRetry, Abandon, Start, Stop, LeaveLoop, Crash, LeaseExpires, RetryDue,
        vars
<1> QED BY <1>1, <1>2

-----------------------------------------------------------------------------
(* The refinement mapping. *)
LEMMA PhaseFacts ==
  ASSUME NEW s \in Status
  PROVE  /\ PhaseOf(s) = "none" <=> s = "absent"
         /\ PhaseOf(s) = "open" <=> s \in {"queued", "running"}
         /\ PhaseOf(s) = "closing" <=> s = "cancel_requested"
         /\ s \in Terminal => PhaseOf(s) = s
         /\ PhaseOf(s) \in {"open", "closing"} <=> s \in Active
BY DEF PhaseOf, Status, Active, Terminal

LEMMA InitRefines == Init => Contract!Init
<1> SUFFICES ASSUME Init PROVE Contract!Init
  OBVIOUS
<1>1. phaseBar = [j \in JobId |-> "none"]
  BY DEF Init, phaseBar, PhaseOf
<1>2. keyBar \in [JobId -> Keys]
  BY DEF Init, keyBar
<1> QED BY <1>1, <1>2 DEF Init, Contract!Init

(* A step that keeps the statuses' phases, the keys and the executions is  *)
(* invisible to the contract.                                              *)
LEMMA Stutters ==
  ASSUME exec' = exec,
         \A i \in JobId : /\ PhaseOf(jobs'[i].status) = PhaseOf(jobs[i].status)
                          /\ jobs'[i].key = jobs[i].key
  PROVE  UNCHANGED Contract!contractVars
BY DEF phaseBar, keyBar, Contract!contractVars

(* The index makes a row the sole pending one of its key. *)
LEMMA SoleFromIndex ==
  ASSUME TypeOK, NEW j \in JobId, NEW k, NEW s \in Active, IndexAllows(j, k, s)
  PROVE  Contract!Sole(j, k)
<1> SUFFICES ASSUME NEW i \in JobId \ {j}, keyBar[i] = k
             PROVE  phaseBar[i] \notin {"open", "closing"}
  BY DEF Contract!Sole, Contract!Pending
<1>1. jobs[i].status \in Status
  BY DEF TypeOK, Row
<1>2. jobs[i].key = k /\ jobs[i].status \notin Active
  BY DEF IndexAllows, keyBar
<1> QED BY <1>1, <1>2, PhaseFacts DEF phaseBar

(* Orphans are free: an execution keeps its lease. *)
LEMMA OrphansFree ==
  ASSUME ~LeaseMayLapse, IInv, NEW j \in JobId, Orphan(j) \/ Claimable(j)
  PROVE  Contract!Free(j)
<1> SUFFICES ASSUME NEW w \in Workers, exec[w] = j PROVE FALSE
  BY DEF Contract!Free
<1>1. exec[w] # NoJob
  BY NoJobIsNoId
<1>2. jobs[j].worker = w /\ jobs[j].lease = "live" /\ jobs[j].status # "queued"
  BY <1>1, LeasesHold DEF ExecutorHoldsLease, Pinned
<1> QED BY <1>2, QueueAssumption DEF Orphan, Claimable

LEMMA SweepRefines ==
  ASSUME ~LeaseMayLapse, IInv,
         \A i \in JobId : /\ jobs'[i].key = jobs[i].key
                          /\ Orphan(i) => jobs'[i].status = "canceled"
                          /\ ~Orphan(i) => PhaseOf(jobs'[i].status) = PhaseOf(jobs[i].status)
  PROVE  Contract!Clear({i \in JobId : Orphan(i)})
<1> DEFINE S == {i \in JobId : Orphan(i)}
<1>1. \A i \in S : phaseBar[i] = "closing" /\ Contract!Free(i)
  BY OrphansFree DEF Orphan, phaseBar, PhaseOf
<1>2. phaseBar' = [i \in JobId |-> IF i \in S THEN "canceled" ELSE phaseBar[i]]
  BY DEF phaseBar, PhaseOf
<1>3. keyBar' = keyBar
  BY DEF keyBar
<1> QED BY <1>1, <1>2, <1>3 DEF Contract!Clear, Contract!Cleared
-----------------------------------------------------------------------------
LEMMA StepRefines ==
  ASSUME ~LeaseMayLapse, IInv, PendingKnown, [Next]_vars
  PROVE  [Contract!Next]_(Contract!contractVars)
<1> USE DEF IInv
<1>0. jobs \in [JobId -> Row] /\ exec \in [Workers -> JobId \cup {NoJob}]
  BY DEF TypeOK
<1>1. ASSUME UNCHANGED jobs, UNCHANGED exec PROVE UNCHANGED Contract!contractVars
  BY <1>1, Stutters
<1>2. ASSUME NEW c \in Clients, EnqueueInsert(c) PROVE Contract!Next
  <2>1. PICK j \in JobId :
           /\ jobs[j].status = "absent"
           /\ IndexAllows(j, jobs'[j].key, "queued")
           /\ \A i \in JobId : i # j => jobs'[i] = jobs[i]
           /\ jobs'[j].status = "queued"
    BY <1>2, InsertRows
  <2> DEFINE k == jobs'[j].key
  <2>2. k \in Keys
    <3>1. TypeOK'
      BY TypeStep
    <3> QED BY <3>1 DEF TypeOK, Row
  <2>3. phaseBar[j] = "none" /\ Contract!Sole(j, k)
    BY <2>1, SoleFromIndex DEF phaseBar, PhaseOf, Active
  <2>4. phaseBar' = [phaseBar EXCEPT ![j] = "open"]
    BY <2>1 DEF phaseBar, PhaseOf
  <2>5. keyBar' = [keyBar EXCEPT ![j] = k]
    BY <2>1 DEF keyBar
  <2>6. exec' = exec
    BY <1>2 DEF EnqueueInsert
  <2>7. Contract!Submit(j, k)
    BY <2>3, <2>4, <2>5, <2>6 DEF Contract!Submit
  <2> QED BY <2>2, <2>7 DEF Contract!Next
<1>3. ASSUME NEW c \in Clients, CancelUpdate(c) PROVE [Contract!Next]_(Contract!contractVars)
  <2>1. exec' = exec
    BY <1>3 DEF CancelUpdate
  <2>2. CASE jobs' = jobs
    BY <1>1, <2>1, <2>2
  <2>3. CASE jobs' # jobs
    <3>1. PICK j \in JobId :
             /\ IndexAllows(j, jobs[j].key, "cancel_requested")
             /\ \A i \in JobId : i # j => jobs'[i] = jobs[i]
             /\ jobs'[j].status = "cancel_requested"
             /\ jobs'[j].key = jobs[j].key
      BY <1>3, <2>3, CancelRows
    <3>2. pend[c].job \in JobId /\ jobs[pend[c].job].status # "absent"
      BY <1>3 DEF CancelUpdate, PendingKnown, PendingOp, TypeOK
    <3>3. j = pend[c].job
      BY <1>0, <1>3, <2>3, <3>1, <3>2 DEF CancelUpdate
    <3>4. phaseBar[j] # "none"
      BY <1>0, <3>2, <3>3, PhaseFacts DEF phaseBar, Row
    <3>5. Contract!Sole(j, keyBar[j])
      BY <3>1, SoleFromIndex DEF keyBar, Active
    <3>6. phaseBar' = [phaseBar EXCEPT ![j] = "closing"]
      BY <3>1 DEF phaseBar, PhaseOf
    <3>7. keyBar' = keyBar
      BY <3>1 DEF keyBar
    <3>8. Contract!AskCancel(j)
      BY <2>1, <3>4, <3>5, <3>6, <3>7 DEF Contract!AskCancel
    <3> QED BY <3>8 DEF Contract!Next
  <2> QED BY <2>2, <2>3
<1>4. ASSUME NEW w \in Workers, Claim(w) PROVE Contract!Next
  <2>1. PICK j \in JobId :
           /\ Claimable(j)
           /\ exec[w] = NoJob /\ exec' = [exec EXCEPT ![w] = j]
           /\ \A i \in JobId : i # j => jobs'[i] = Swept[i]
           /\ jobs'[j].status = "running"
           /\ jobs'[j].key = jobs[j].key
    BY <1>4, ClaimRows
  <2>2. \A i \in JobId : /\ jobs'[i].key = jobs[i].key
                         /\ Orphan(i) => jobs'[i].status = "canceled"
                         /\ ~Orphan(i) => PhaseOf(jobs'[i].status) = PhaseOf(jobs[i].status)
    BY <2>1, SweptRows DEF Claimable, Orphan, PhaseOf
  <2>3. Contract!Clear({i \in JobId : Orphan(i)})
    BY <2>2, SweepRefines
  <2>4. phaseBar[j] = "open" /\ Contract!Free(j)
    BY <2>1, OrphansFree DEF Claimable, phaseBar, PhaseOf
  <2>5. Contract!Take(w, j)
    BY <2>1, <2>4 DEF Contract!Take
  <2> QED BY <2>3, <2>5 DEF Contract!Next
<1>5. ASSUME NEW w \in Workers, ClaimNothing(w) PROVE Contract!Next
  <2>1. jobs' = Swept /\ exec' = exec
    BY <1>5 DEF ClaimNothing
  <2>2. Contract!Clear({i \in JobId : Orphan(i)})
    BY <2>1, SweptRows, SweepRefines
  <2> QED BY <2>1, <2>2 DEF Contract!Next
<1>6. ASSUME NEW w \in Workers, WriteRunning(w) PROVE UNCHANGED Contract!contractVars
  <2>1. /\ exec[w] \in JobId
        /\ \A i \in JobId : i # exec[w] => jobs'[i] = jobs[i]
        /\ jobs'[exec[w]] = Written(jobs[exec[w]], w, "running")
        /\ exec' = exec
    BY <1>6, WriteJobRows DEF WriteRunning
  <2>2. jobs[exec[w]].status \in {"running", "cancel_requested"}
    BY <1>6, LeasesHold DEF ExecutorHoldsLease, Pinned, WriteRunning
  <2>3. /\ jobs'[exec[w]].key = jobs[exec[w]].key
        /\ jobs'[exec[w]].status = jobs[exec[w]].status
    BY <1>0, <2>1, <2>2, WrittenRow
  <2> QED BY <2>1, <2>3, Stutters
<1>7. ASSUME NEW w \in Workers, NEW s \in Terminal, Finish(w, s) PROVE Contract!Next
  <2>1. /\ exec[w] \in JobId /\ exec[w] # NoJob
        /\ \A i \in JobId : i # exec[w] => jobs'[i] = jobs[i]
        /\ jobs'[exec[w]] = Written(jobs[exec[w]], w, s)
        /\ exec' = [exec EXCEPT ![w] = NoJob]
    BY <1>7, WriteJobRows DEF Finish
  <2>2. /\ jobs'[exec[w]].key = jobs[exec[w]].key
        /\ jobs'[exec[w]].status = s
    BY <1>0, <2>1, WrittenRow DEF Terminal
  <2>3. PhaseOf(s) = s
    BY DEF PhaseOf, Terminal
  <2>4. phaseBar' = [phaseBar EXCEPT ![exec[w]] = s]
    BY <2>1, <2>2, <2>3 DEF phaseBar
  <2>5. keyBar' = keyBar
    BY <2>1, <2>2 DEF keyBar
  <2>6. Contract!End(w, s)
    BY <2>1, <2>4, <2>5 DEF Contract!End
  <2> QED BY <2>6 DEF Contract!Next, Contract!Ended, Terminal
<1>8. ASSUME NEW w \in Workers, exec[w] # NoJob, exec' = [exec EXCEPT ![w] = NoJob],
             \A i \in JobId : /\ PhaseOf(jobs'[i].status) = PhaseOf(jobs[i].status)
                              /\ jobs'[i].key = jobs[i].key
      PROVE  Contract!Next
  <2>1. phaseBar' = phaseBar /\ keyBar' = keyBar
    BY <1>8 DEF phaseBar, keyBar
  <2>2. Contract!LetGo(w)
    BY <1>8, <2>1 DEF Contract!LetGo
  <2> QED BY <2>2 DEF Contract!Next
<1>9. ASSUME NEW w \in Workers, Requeue(w) \/ ScheduleRetry(w) PROVE Contract!Next
  <2>1. exec[w] # NoJob /\ exec' = [exec EXCEPT ![w] = NoJob]
    BY <1>9 DEF Requeue, ScheduleRetry
  <2>2. \A i \in JobId : /\ PhaseOf(jobs'[i].status) = PhaseOf(jobs[i].status)
                         /\ jobs'[i].key = jobs[i].key
    BY <1>9, HandBackRows DEF PhaseOf
  <2> QED BY <1>8, <2>1, <2>2
<1>10. ASSUME NEW w \in Workers, Abandon(w) \/ Crash(w)
       PROVE  [Contract!Next]_(Contract!contractVars)
  <2>1. jobs' = jobs /\ exec' = [exec EXCEPT ![w] = NoJob]
    BY <1>10 DEF Abandon, Crash
  <2>2. CASE exec[w] = NoJob
    <3>1. exec' = exec
      BY <1>0, <2>1, <2>2
    <3> QED BY <1>1, <2>1, <3>1
  <2>3. CASE exec[w] # NoJob
    BY <1>8, <2>1, <2>3
  <2> QED BY <2>2, <2>3
<1>11. ASSUME NEW j \in JobId, LeaseExpires(j) \/ RetryDue(j)
       PROVE  UNCHANGED Contract!contractVars
  <2>1. /\ exec' = exec
        /\ \A i \in JobId : jobs'[i].status = jobs[i].status /\ jobs'[i].key = jobs[i].key
    BY <1>11, ClockRows
  <2> QED BY <2>1, Stutters
<1> QED
  BY <1>1, <1>2, <1>3, <1>4, <1>5, <1>6, <1>7, <1>9, <1>10, <1>11
  DEF Next, ClientStep, WorkerStep, EndExecution, EnqueueCheck, EnqueueRaced, CancelRead,
      Start, Stop, LeaveLoop, vars

(* While leases outlive executions, the rows, the statements and the       *)
(* workers implement the contract.                                         *)
THEOREM QueueImplementsContract ==
  ASSUME ~LeaseMayLapse
  PROVE  Spec => ImplementsContract
<1>1. IInv /\ PendingKnown /\ [Next]_vars => [Contract!Next]_(Contract!contractVars)
  BY StepRefines
<1>2. Spec => []PendingKnown
  <2>1. IInv /\ PendingKnown /\ [Next]_vars => PendingKnown'
    BY PendingKnownStep
  <2> QED BY Inductive, PendingKnownInit, <2>1, PTL DEF Spec
<1> QED
  BY Inductive, InitRefines, <1>1, <1>2, PTL DEF Spec, ImplementsContract, Contract!Spec

-----------------------------------------------------------------------------
(* The pipeline takes the steps of the queue. *)
(* A worker's step of the queue is a step of the queue. *)
LEMMA WorkerSteps ==
  ASSUME NEW w \in Workers, WorkerStep(w)
  PROVE  Next
  BY DEF Next

(* A send leaves the queue alone. *)
LEMMA SendsAreApart ==
  ASSUME NEW w \in Workers, SendStep(w) \/ PostNext(w) \/ PostNothing(w) \/ LoseAnswer(w) \/ LoseRecord(w)
  PROVE  UNCHANGED vars
BY DEF SendStep, Accept, Reject, GiveUp, Complete, PutOff, PostNext, PostNothing, ClaimRow,
       LoseAnswer, LoseRecord

(* A stage either leaves the queue alone or takes one of the steps the     *)
(* queue allows the worker.                                                *)
LEMMA StagesAreQueueSteps ==
  ASSUME NEW w \in Workers, Advance(w)
  PROVE  WorkerStep(w) \/ UNCHANGED vars
  <1>1. CASE PackageStep(w)
    BY <1>1 DEF PackageStep, PlanPackage, ReusePackage, OpenPackage, EnterPackage,
       EndPackage, Progress, WorkerStep
  <1>2. CASE SummaryStep(w)
    BY <1>2 DEF SummaryStep, PlanSummary, ReuseSummary, OpenSummary, EnterSummary,
       PersistBatch, ReportQueued, CompleteSummary, BreakSummary, Progress, WorkerStep
  <1>3. CASE FinalStep(w)
    <2>1. CASE StopJob(w) \/ Retry(w)
      BY <2>1 DEF StopJob, Retry, WorkerStep, EndExecution
    <2>2. CASE NoticeCancel(w) \/ NoRetry(w) \/ DiscardUnsent(w)
      BY <2>2 DEF NoticeCancel, NoRetry, DiscardUnsent
    <2>3. CASE StartDrain(w) \/ DrainNext(w) \/ EndDrain(w) \/ LastCheck(w)
      BY <2>3 DEF StartDrain, DrainNext, ClaimRow, EndDrain, LastCheck
    <2>4. ASSUME NEW s \in Terminal, Finish(w, s)
          PROVE  WorkerStep(w)
      BY <2>4 DEF WorkerStep, EndExecution
    <2>5. CASE \/ Mark(w, "finishing", "completed") \/ Mark(w, "canceling", "canceled")
               \/ Mark(w, "failing", "failed")
      BY <2>4, <2>5 DEF Mark, Terminal
    <2> QED BY <1>3, <2>1, <2>2, <2>3, <2>5 DEF FinalStep
  <1> QED BY <1>1, <1>2, <1>3, SendsAreApart DEF Advance

(* Every step of the pipeline is a step of the queue or leaves the queue   *)
(* alone.                                                                  *)
LEMMA PipelineStepIsQueueStep ==
  ASSUME [PipelineNext]_allVars
  PROVE  [Next]_vars
  <1>1. CASE UNCHANGED allVars
    BY <1>1 DEF allVars
  <1>2. ASSUME NEW c \in Clients, Submit(c) \/ Cancel(c) \/ AskedElsewhere(c)
        PROVE  Next
    BY <1>2 DEF Submit, Cancel, AskedElsewhere, ClientStep, Next
  <1>3. ASSUME NEW w \in Workers, TakeJob(w) \/ FindNoJob(w)
        PROVE  Next
    BY <1>3, WorkerSteps DEF TakeJob, FindNoJob, WorkerStep
  <1>4. ASSUME NEW w \in Workers, Advance(w)
        PROVE  [Next]_vars
    BY <1>4, StagesAreQueueSteps, WorkerSteps
  <1>5. ASSUME NEW w \in Workers, ReportPackage(w) \/ ReportSummary(w) \/ BreakHandler(w)
        PROVE  Next
    BY <1>5, WorkerSteps DEF ReportPackage, ReportSummary, Progress, BreakHandler, WorkerStep
  <1>6. ASSUME NEW w \in Workers, Post(w) \/ LoseAnswer(w) \/ LoseRecord(w) \/ Break(w)
        PROVE  UNCHANGED vars
    BY <1>6, SendsAreApart DEF Post, Break
  <1>7. ASSUME NEW w \in Workers, StopWorker(w) \/ CrashWorker(w) \/ StartOrLeave(w)
        PROVE  Next
    BY <1>7, WorkerSteps DEF StopWorker, CrashWorker, StartOrLeave, WorkerStep
  <1>8. ASSUME NEW j \in JobId, LeaseExpires(j) \/ RetryDue(j)
        PROVE  Next
    BY <1>8 DEF Next
  <1>9. ASSUME NEW j \in JobId, BackoffEnds(j) \/ GoesStale(j)
        PROVE  UNCHANGED vars
    BY <1>9 DEF BackoffEnds, GoesStale
  <1>10. CASE PipelineNext
    BY <1>10, <1>2, <1>3, <1>4, <1>5, <1>6, <1>7, <1>8, <1>9 DEF PipelineNext
  <1> QED BY <1>1, <1>10

(* So what is proved of the queue holds of its workers as they run. *)
LEMMA PipelineIsQueue == PipelineSpec => Spec
  <1>1. PipelineInit => Init
    BY DEF PipelineInit
  <1>2. [PipelineNext]_allVars => [Next]_vars
    BY PipelineStepIsQueueStep
  <1> QED BY <1>1, <1>2, PTL DEF PipelineSpec, Spec
-----------------------------------------------------------------------------
(* The stages, while leases outlive executions.  Then a job has one        *)
(* executor, so that the place of that executor says what the rows of the  *)
(* job can be, and rows nobody works on say what became of it.             *)
AfterPackage ==
  {"packaged", "beginning", "begun", "analyzing", "persisted", "stored", "summarized",
   "draining", "calling", "answered", "failed", "drained", "finishing"}

AfterSummary ==
  {"summarized", "draining", "calling", "answered", "failed", "drained", "finishing"}

(* Two senders of one row are no cause of a failure. *)
Caused(ht) == ht \ {"twice"} # {}
Calm(ht) == ht \cap {"crash", "error", "twice"} = {}
Unsent(ob) == ob \notin {"none", "sent"}

(* The rows that stage p may find: of the package, the summary and the     *)
(* outbox, and what befell the job.                                        *)
StageRows(p, pk, sm, ob, ht) ==
  /\ p = "opening" => pk = "absent"
  /\ p \in {"opened", "building"} => pk = "running"
  /\ p \in AfterPackage => pk = "completed"
  /\ p \in AfterSummary => sm = "completed"
  /\ p = "canceling" /\ Unsent(ob) => "twice" \in ht
  /\ p \in {"failing", "retrying"} => Caused(ht)

(* What holds of the rows of every job, whether it is executed or not.     *)
(* A package row that is running is being built, or its job has met        *)
(* something that ends it; unsent rows persisted after a cancel request    *)
(* are on the way to be discarded, or their job fails.                     *)
JobRows(building, leaving, ca, pk, ob, ht) ==
  /\ ob # "none" => pk = "completed"
  /\ pk = "failed" => Caused(ht)
  /\ pk = "running" => Caused(ht) \/ ca \/ building
  /\ ca /\ Calm(ht) /\ Unsent(ob) => leaving

(* What the status of a job says of its rows. *)
StatusRows(s, ca, pk, sm, ob, ht) ==
  /\ s = "absent" => pk = "absent" /\ ob = "none"
  /\ s = "completed" => pk = "completed" /\ sm = "completed"
  /\ s = "failed" => Caused(ht)
  /\ s = "cancel_requested" => ca
  /\ s = "canceled" /\ Calm(ht) => ~Unsent(ob)

Working == Stages \ {"idle", "free"}
Building == {"opened", "building"}
Leaving == {"persisted", "discarding", "failing"}
At(j, stages) == \E w \in Workers : exec[w] = j /\ pc[w] \in stages

JobSound(j) ==
  /\ StatusRows(jobs[j].status, jobs[j].cancelAt, package[j], summary[j], outbox[j], hits[j])
  /\ JobRows(At(j, Building), jobs[j].status = "failed" \/ At(j, Leaving), jobs[j].cancelAt,
             package[j], outbox[j], hits[j])

StageSound(w) ==
  exec[w] # NoJob =>
    /\ StageRows(pc[w], package[exec[w]], summary[exec[w]], outbox[exec[w]], hits[exec[w]])
    /\ letter[w] \in {exec[w], NoJob}
    /\ Stopping(w) => "stop" \in hits[exec[w]]

StagesSound ==
  /\ PipelineTypeOK
  /\ \A w \in Workers : StageSound(w)
  /\ \A j \in JobId : JobSound(j)

-----------------------------------------------------------------------------
Hits == SUBSET {"error", "stop", "crash", "input", "twice"}

RowsTypeOK ==
  /\ package \in [JobId -> RunStatus] /\ summary \in [JobId -> RunStatus]
  /\ outbox \in [JobId -> RowState] /\ hits \in [JobId -> Hits]
  /\ told \in [JobId -> Nat] /\ doubt \in [JobId -> Nat]
  /\ errors \in Nat

(* What the places of the workers say of what they execute and send. *)
PlaceOK(w) ==
  /\ pc[w] \in Stages /\ letter[w] \in JobId \cup {NoJob}
  /\ pc[w] \in Sending <=> letter[w] # NoJob
  /\ pc[w] \in {"idle", "free"} => exec[w] = NoJob
  /\ exec[w] = NoJob => pc[w] \in {"idle", "free"} \cup Sending

PlacesOK ==
  /\ pc \in [Workers -> Stages]
  /\ letter \in [Workers -> JobId \cup {NoJob}]
  /\ \A w \in Workers : PlaceOK(w)

LEMMA PipelineTypes == PipelineTypeOK <=> RowsTypeOK /\ PlacesOK
BY DEF PipelineTypeOK, RowsTypeOK, PlacesOK, PlaceOK, Hits

LEMMA PipelineTypesNext == PipelineTypeOK' <=> RowsTypeOK' /\ PlacesOK'
BY DEF PipelineTypeOK, RowsTypeOK, PlacesOK, PlaceOK, Hits

LEMMA OneExecutor ==
  ASSUME ~LeaseMayLapse, IInv, NEW v \in Workers, NEW w \in Workers, exec[w] # NoJob, exec[v] = exec[w]
  PROVE  v = w
BY LeasesHold DEF ExecutorHoldsLease, Pinned

LEMMA ExecutedRow ==
  ASSUME ~LeaseMayLapse, IInv, NEW w \in Workers, exec[w] # NoJob
  PROVE  exec[w] \in JobId /\ jobs[exec[w]].status \in {"running", "cancel_requested"}
BY LeasesHold DEF IInv, ExecutorHoldsLease, Pinned, TypeOK

(* What a step may use of the job its worker executes. *)
Found(w, j) ==
  /\ j = exec[w] /\ exec[w] # NoJob
  /\ jobs[j].status \in {"running", "cancel_requested"} /\ jobs[j].cancelAt \in BOOLEAN
  /\ pc[w] \in Working /\ (pc[w] \in Sending <=> letter[w] # NoJob) /\ letter[w] \in {j, NoJob}
  /\ package[j] \in RunStatus /\ summary[j] \in RunStatus /\ outbox[j] \in RowState
  /\ hits[j] \in Hits /\ RowsTypeOK
  /\ StageRows(pc[w], package[j], summary[j], outbox[j], hits[j])
  /\ JobRows(pc[w] \in Building, pc[w] \in Leaving, jobs[j].cancelAt,
             package[j], outbox[j], hits[j])
  /\ Stopping(w) => "stop" \in hits[j]
  /\ CancelSeen(j) <=> jobs[j].cancelAt

LEMMA JobFound ==
  ASSUME ~LeaseMayLapse, IInv, StagesSound, NEW w \in Workers, exec[w] # NoJob
  PROVE  \E j \in JobId : Found(w, j)
<1> PICK j \in JobId : j = exec[w]
  BY ExecutedRow
<1>1. jobs[j].cancelAt \in BOOLEAN
  BY DEF IInv, TypeOK, Row
<1>2. jobs[j].status \in {"running", "cancel_requested"}
  BY ExecutedRow
<1>3. \A s : At(j, s) <=> pc[w] \in s
  BY OneExecutor DEF At
<1>4. JobSound(j) /\ StageSound(w) /\ RowsTypeOK /\ PlaceOK(w)
  BY PipelineTypes DEF StagesSound, PlacesOK
<1>5. JobRows(pc[w] \in Building, pc[w] \in Leaving, jobs[j].cancelAt, package[j], outbox[j], hits[j])
  BY <1>2, <1>3, <1>4 DEF JobSound, JobRows
<1>6. package[j] \in RunStatus /\ summary[j] \in RunStatus /\ outbox[j] \in RowState /\ hits[j] \in Hits
  BY <1>4 DEF RowsTypeOK
<1>7. pc[w] \in Working
  BY <1>4 DEF PlaceOK, Working
<1>8. StageRows(pc[w], package[j], summary[j], outbox[j], hits[j]) /\ letter[w] \in {j, NoJob}
  BY <1>4 DEF StageSound
<1>9. /\ pc[w] \in Sending <=> letter[w] # NoJob
      /\ Stopping(w) => "stop" \in hits[j]
      /\ CancelSeen(j) <=> jobs[j].cancelAt
  BY <1>2, <1>4 DEF PlaceOK, StageSound, JobSound, StatusRows, CancelSeen
<1> QED
  BY <1>1, <1>2, <1>4, <1>5, <1>6, <1>7, <1>8, <1>9 DEF Found

(* A job that a step leaves alone. *)
LEMMA JobKept ==
  ASSUME NEW i \in JobId, JobSound(i),
         jobs'[i].status = jobs[i].status, jobs'[i].cancelAt = jobs[i].cancelAt,
         package'[i] = package[i], summary'[i] = summary[i], outbox'[i] = outbox[i],
         hits'[i] = hits[i],
         At(i, Building) => At(i, Building)', At(i, Leaving) => At(i, Leaving)'
  PROVE  JobSound(i)'
BY DEF JobSound, JobRows

(* No execution begins or ends, and no job changes its status. *)
QuietQueue ==
  /\ exec' = exec
  /\ \A i \in JobId : jobs'[i].status = jobs[i].status /\ jobs'[i].cancelAt = jobs[i].cancelAt

OthersKept(j) ==
  \A i \in JobId \ {j} :
    /\ package'[i] = package[i] /\ summary'[i] = summary[i] /\ outbox'[i] = outbox[i]
    /\ hits'[i] = hits[i]

(* Worker w goes to p, and keeps the row it sends or is through with it. *)
Moves(w, p) ==
  /\ pc' = [pc EXCEPT ![w] = p]
  /\ letter' = [letter EXCEPT ![w] = letter'[w]]
  /\ letter'[w] \in {letter[w], NoJob}
  /\ p \in Sending <=> letter'[w] # NoJob

LEMMA MovesApart ==
  ASSUME PipelineTypeOK, NEW w \in Workers, pc[w] \notin Sending,
         NEW p, p \notin Sending, pc' = [pc EXCEPT ![w] = p], letter' = letter
  PROVE  Moves(w, p)
BY DEF PipelineTypeOK, Moves

LEMMA PlacesMove ==
  ASSUME PipelineTypeOK, NEW w \in Workers, NEW p \in Stages, Moves(w, p),
         \A v \in Workers \ {w} : exec'[v] = exec[v],
         p \in {"idle", "free"} => exec'[w] = NoJob,
         exec'[w] = NoJob => p \in {"idle", "free"} \cup Sending
  PROVE  PlacesOK'
<1>1. PlacesOK
  BY PipelineTypes
<1>2. /\ pc'[w] = p /\ pc' \in [Workers -> Stages]
      /\ letter' \in [Workers -> JobId \cup {NoJob}]
      /\ \A v \in Workers : v # w => pc'[v] = pc[v] /\ letter'[v] = letter[v]
  BY <1>1 DEF PlacesOK, PlaceOK, Moves
<1>3. ASSUME NEW v \in Workers PROVE PlaceOK(v)'
  <2>1. CASE v = w
    BY <1>2, <2>1 DEF PlaceOK, Moves
  <2>2. CASE v # w
    BY <1>1, <1>2, <2>2 DEF PlacesOK, PlaceOK
  <2> QED
    BY <2>1, <2>2
<1> QED
  BY <1>2, <1>3 DEF PlacesOK

(* A worker goes on to the next stage and changes rows of its job. *)
LEMMA StageStep ==
  ASSUME ~LeaseMayLapse, IInv, StagesSound, NEW w \in Workers, NEW j \in JobId, Found(w, j),
         QuietQueue, RowsTypeOK', OthersKept(j),
         NEW p \in Working, Moves(w, p),
         \A v \in Workers \ {w} : wstate'[v] = wstate[v],
         wstate'[w] = "stopping" => "stop" \in hits'[j],
         StageRows(p, package'[j], summary'[j], outbox'[j], hits'[j]),
         JobRows(p \in Building, p \in Leaving, jobs[j].cancelAt,
                 package'[j], outbox'[j], hits'[j])
  PROVE  StagesSound'
<1>1. /\ j = exec[w] /\ exec[w] # NoJob
      /\ jobs[j].status \in {"running", "cancel_requested"}
      /\ jobs[j].status = "cancel_requested" => jobs[j].cancelAt
  BY DEF Found, CancelSeen
<1>2. PipelineTypeOK /\ exec' = exec
  BY DEF StagesSound, QuietQueue
<1>3. /\ pc'[w] = p /\ \A v \in Workers : v # w => pc'[v] = pc[v] /\ letter'[v] = letter[v]
      /\ letter'[w] \in {j, NoJob}
  BY <1>2 DEF PipelineTypeOK, Moves, Found
<1>4. PipelineTypeOK'
  <2>1. p \in Stages /\ p \notin {"idle", "free"}
    BY DEF Working
  <2> QED
    BY <1>1, <1>2, <2>1, PlacesMove, PipelineTypesNext
<1>5. ASSUME NEW v \in Workers PROVE StageSound(v)'
  <2>1. CASE v = w
    BY <2>1, <1>1, <1>2, <1>3 DEF StageSound, Stopping
  <2>2. CASE v # w
    <3>1. exec[v] # NoJob => exec[v] \in JobId \ {j}
      BY <2>2, <1>1, OneExecutor, ExecutedRow
    <3> QED
      BY <2>2, <3>1, <1>2, <1>3 DEF StagesSound, StageSound, Stopping, OthersKept
  <2> QED
    BY <2>1, <2>2
<1>6. ASSUME NEW i \in JobId PROVE JobSound(i)'
  <2>1. CASE i # j
    <3>1. \A s : At(i, s) => At(i, s)'
      BY <1>1, <2>1, <1>2, <1>3 DEF At
    <3> QED
      BY <2>1, <3>1, JobKept DEF StagesSound, QuietQueue, OthersKept
  <2>2. CASE i = j
    <3>1. \A s : p \in s => At(j, s)'
      BY <1>1, <1>2, <1>3 DEF At
    <3>2. jobs'[j].status = jobs[j].status /\ jobs'[j].cancelAt = jobs[j].cancelAt
      BY DEF QuietQueue
    <3>3. StatusRows(jobs'[j].status, jobs'[j].cancelAt, package'[j], summary'[j], outbox'[j], hits'[j])
      BY <1>1, <3>2 DEF StatusRows
    <3>4. JobRows(At(j, Building)', jobs'[j].status = "failed" \/ At(j, Leaving)', jobs'[j].cancelAt,
                  package'[j], outbox'[j], hits'[j])
      BY <3>1, <3>2 DEF JobRows
    <3> QED
      BY <2>2, <3>3, <3>4 DEF JobSound
  <2> QED
    BY <2>1, <2>2
<1> QED
  BY <1>4, <1>5, <1>6 DEF StagesSound

(* A worker goes on and changes no row. *)
LEMMA MoveStep ==
  ASSUME ~LeaseMayLapse, IInv, StagesSound, NEW w \in Workers, NEW j \in JobId, Found(w, j),
         QuietQueue, wstate' = wstate, UNCHANGED runVars, pc[w] \notin Sending,
         NEW p \in Working \ Sending, pc' = [pc EXCEPT ![w] = p],
         StageRows(p, package[j], summary[j], outbox[j], hits[j]),
         JobRows(p \in Building, p \in Leaving, jobs[j].cancelAt,
                 package[j], outbox[j], hits[j])
  PROVE  StagesSound'
<1>1. RowsTypeOK' /\ OthersKept(j)
  BY DEF Found, RowsTypeOK, OthersKept, runVars, sendVars
<1>2. wstate'[w] = "stopping" => "stop" \in hits'[j]
  BY DEF Found, Stopping, runVars
<1>3. /\ StageRows(p, package'[j], summary'[j], outbox'[j], hits'[j])
      /\ JobRows(p \in Building, p \in Leaving, jobs[j].cancelAt,
                 package'[j], outbox'[j], hits'[j])
  BY DEF runVars
<1>4. Moves(w, p)
  BY MovesApart DEF StagesSound, runVars, sendVars
<1> QED
  BY <1>1, <1>2, <1>3, <1>4, StageStep

(* An execution ends, and with it the job may get a last status. *)
LEMMA LeaveStep ==
  ASSUME ~LeaseMayLapse, IInv, StagesSound, NEW w \in Workers, NEW j \in JobId, Found(w, j),
         exec' = [exec EXCEPT ![w] = NoJob], Moves(w, "idle"),
         UNCHANGED <<package, summary, outbox>>, RowsTypeOK',
         \A v \in Workers \ {w} : wstate'[v] = wstate[v],
         \A i \in JobId \ {j} : jobs'[i] = jobs[i] /\ hits'[i] = hits[i],
         jobs'[j].cancelAt = jobs[j].cancelAt,
         StatusRows(jobs'[j].status, jobs[j].cancelAt, package[j], summary[j], outbox[j], hits'[j]),
         JobRows(FALSE, jobs'[j].status = "failed", jobs[j].cancelAt,
                 package[j], outbox[j], hits'[j])
  PROVE  StagesSound'
<1>1. PipelineTypeOK /\ exec \in [Workers -> JobId \cup {NoJob}] /\ j = exec[w] /\ exec[w] # NoJob
  BY DEF StagesSound, IInv, TypeOK, Found
<1>2. /\ exec'[w] = NoJob /\ pc'[w] = "idle"
      /\ \A v \in Workers : v # w => pc'[v] = pc[v] /\ exec'[v] = exec[v] /\ letter'[v] = letter[v]
  BY <1>1 DEF PipelineTypeOK, Moves
<1>3. PipelineTypeOK'
  BY <1>1, <1>2, PlacesMove, PipelineTypesNext DEF Stages
<1>4. ASSUME NEW v \in Workers PROVE StageSound(v)'
  <2>1. CASE v = w
    BY <2>1, <1>2 DEF StageSound
  <2>2. CASE v # w
    <3>1. exec[v] # NoJob => exec[v] \in JobId \ {j}
      BY <2>2, <1>1, OneExecutor, ExecutedRow
    <3> QED
      BY <2>2, <3>1, <1>2 DEF StagesSound, StageSound, Stopping
  <2> QED
    BY <2>1, <2>2
<1>5. ASSUME NEW i \in JobId PROVE JobSound(i)'
  <2>1. CASE i # j
    <3>1. \A st : At(i, st) => At(i, st)'
      BY <2>1, <1>1, <1>2 DEF At
    <3> QED
      BY <2>1, <3>1, JobKept DEF StagesSound
  <2>2. CASE i = j
    <3>1. JobRows(At(j, Building)', jobs'[j].status = "failed" \/ At(j, Leaving)', jobs'[j].cancelAt,
                  package[j], outbox[j], hits'[j])
      BY DEF JobRows
    <3> QED
      BY <2>2, <3>1 DEF JobSound
  <2> QED
    BY <2>1, <2>2
<1> QED
  BY <1>3, <1>4, <1>5 DEF StagesSound

-----------------------------------------------------------------------------
(* Steps beside the executions. *)

LEMMA Unmoved ==
  ASSUME StagesSound, QuietQueue, UNCHANGED <<pc, runVars>>,
         \A v \in Workers : wstate'[v] = "stopping" => wstate[v] = "stopping" \/ exec[v] = NoJob
  PROVE  StagesSound'
<1> USE DEF runVars, sendVars
<1>1. PipelineTypeOK'
  BY DEF StagesSound, PipelineTypeOK, QuietQueue
<1>2. ASSUME NEW v \in Workers PROVE StageSound(v)'
  BY DEF StagesSound, StageSound, Stopping, QuietQueue
<1>3. ASSUME NEW i \in JobId PROVE JobSound(i)'
  <2>1. \A s : At(i, s) => At(i, s)'
    BY DEF At, QuietQueue
  <2> QED
    BY <2>1, JobKept DEF StagesSound, QuietQueue
<1> QED
  BY <1>1, <1>2, <1>3 DEF StagesSound

(* A step of delivery adds no row, and takes none back from the chat       *)
(* unless two workers send it.                                             *)
RowKept(j) ==
  /\ \A i \in JobId \ {j} : outbox'[i] = outbox[i] /\ hits'[i] = hits[i]
  /\ hits[j] \subseteq hits'[j]
  /\ outbox[j] = "none" => outbox'[j] = "none"
  /\ Unsent(outbox'[j]) /\ "twice" \notin hits'[j] => Unsent(outbox[j])

AtSend(v) ==
  \/ pc'[v] = pc[v] /\ letter'[v] = letter[v]
  \/ exec[v] = NoJob
  \/ {pc[v], pc'[v]} \subseteq AfterSummary /\ letter'[v] \in {exec[v], NoJob}

LEMMA RowStep ==
  ASSUME ~LeaseMayLapse, IInv, StagesSound, PipelineTypeOK',
         UNCHANGED <<exec, jobs, package, summary>>,
         \A v \in Workers : wstate'[v] = "stopping" => wstate[v] = "stopping" \/ exec[v] = NoJob,
         NEW j \in JobId, RowKept(j), \A v \in Workers : AtSend(v)
  PROVE  StagesSound'
<1>0. exec' = exec /\ jobs' = jobs
  OBVIOUS
<1>1. Caused(hits[j]) => Caused(hits'[j])
  BY DEF RowKept, Caused
<1>2. Calm(hits'[j]) => Calm(hits[j]) /\ "twice" \notin hits'[j]
  BY DEF RowKept, Calm
<1>3. ASSUME NEW v \in Workers PROVE StageSound(v)'
  <2> SUFFICES ASSUME exec[v] # NoJob PROVE StageSound(v)'
    BY <1>0 DEF StageSound
  <2>1. exec[v] \in JobId /\ StageSound(v) /\ AtSend(v)
    BY ExecutedRow DEF StagesSound
  <2>2. letter'[v] \in {exec[v], NoJob}
    BY <2>1 DEF StageSound, AtSend
  <2>3. Stopping(v)' => "stop" \in hits'[exec[v]]
    BY <1>0, <2>1 DEF StageSound, Stopping, RowKept
  <2>4. pc'[v] = pc[v] \/ {pc[v], pc'[v]} \subseteq AfterSummary
    BY <2>1 DEF AtSend
  <2>5. StageRows(pc'[v], package[exec[v]], summary[exec[v]], outbox[exec[v]], hits[exec[v]])
    BY <2>1, <2>4 DEF StageSound, StageRows, AfterPackage, AfterSummary
  <2>6. StageRows(pc'[v], package[exec[v]], summary[exec[v]], outbox'[exec[v]], hits'[exec[v]])
    <3>1. CASE exec[v] # j
      BY <2>1, <2>5, <3>1 DEF RowKept
    <3>2. CASE exec[v] = j
      BY <1>1, <2>5, <3>2 DEF RowKept, StageRows
    <3> QED
      BY <3>1, <3>2
  <2> QED
    BY <1>0, <2>2, <2>3, <2>6 DEF StageSound
<1>4. ASSUME NEW i \in JobId PROVE JobSound(i)'
  <2>1. /\ At(i, Building) => At(i, Building)'
        /\ At(i, Leaving) => At(i, Leaving)'
    <3>1. ASSUME NEW v \in Workers, exec[v] = i, pc[v] \in Building \cup Leaving
          PROVE  exec'[v] = i /\ pc'[v] = pc[v]
      BY <1>0, <3>1, NoJobIsNoId DEF AtSend, AfterSummary, Building, Leaving
    <3> QED
      BY <3>1 DEF At
  <2>2. CASE i # j
    BY <1>0, <2>1, <2>2, JobKept DEF StagesSound, RowKept
  <2>3. CASE i = j
    <3>1. JobSound(j)
      BY DEF StagesSound
    <3>2. StatusRows(jobs[j].status, jobs[j].cancelAt, package[j], summary[j], outbox'[j], hits'[j])
      BY <1>1, <1>2, <3>1 DEF JobSound, StatusRows, RowKept
    <3>3. JobRows(At(j, Building)', jobs[j].status = "failed" \/ At(j, Leaving)', jobs[j].cancelAt,
                  package[j], outbox'[j], hits'[j])
      BY <1>1, <1>2, <2>1, <2>3, <3>1 DEF JobSound, JobRows, RowKept
    <3> QED
      BY <1>0, <2>3, <3>2, <3>3 DEF JobSound
  <2> QED
    BY <2>2, <2>3
<1> QED
  BY <1>3, <1>4 DEF StagesSound

LEMMA DiscardRows ==
  ASSUME RowsTypeOK, NEW j \in JobId, Discard(j)
  PROVE  /\ outbox' \in [JobId -> RowState]
         /\ outbox'[j] = IF outbox[j] = "sent" THEN "sent" ELSE "none"
         /\ \A i \in JobId \ {j} : outbox'[i] = outbox[i]
         /\ doubt' \in [JobId -> Nat]
<1>1. outbox' = [outbox EXCEPT ![j] = IF outbox[j] = "sent" THEN "sent" ELSE "none"]
  BY DEF Discard
<1>2. doubt' = [doubt EXCEPT ![j] = doubt[j] + 1] \/ doubt' = doubt
  BY DEF Discard, Doubtful
<1>3. doubt' \in [JobId -> Nat]
  BY <1>2 DEF RowsTypeOK
<1> QED
  BY <1>1, <1>3 DEF RowsTypeOK, RowState

(* A cancel request marks its job and takes its unsent row, or finds that  *)
(* an equivalent job is active and does nothing.                           *)
LEMMA AskedRows ==
  ASSUME TypeOK, NEW c \in Clients, Cancel(c)
  PROVE  \/ jobs' = jobs /\ UNCHANGED <<outbox, doubt>>
         \/ \E j \in JobId :
              /\ \A i \in JobId : i # j => jobs'[i] = jobs[i]
              /\ jobs'[j].status = "cancel_requested" /\ jobs'[j].cancelAt = TRUE
              /\ Discard(j)
<1> PICK j \in JobId : j = pend[c].job
  BY DEF Cancel, CancelUpdate, PendingOp, TypeOK
<1>1. CASE ~IndexAllows(j, jobs[j].key, "cancel_requested")
  BY <1>1 DEF Cancel, CancelUpdate
<1>2. CASE IndexAllows(j, jobs[j].key, "cancel_requested")
  <2>1. jobs' = [jobs EXCEPT ![j].status = "cancel_requested", ![j].cancelAt = TRUE, ![j].retryAt = "none"]
    BY <1>2 DEF Cancel, CancelUpdate
  <2>2. jobs \in [JobId -> Row] /\ jobs[j] \in Row
    BY DEF TypeOK
  <2>3. jobs'[j] = [jobs[j] EXCEPT !.status = "cancel_requested", !.cancelAt = TRUE, !.retryAt = "none"]
    BY <2>1, <2>2
  <2>4. jobs'[j].status = "cancel_requested" /\ jobs'[j].cancelAt = TRUE
    BY <2>2, <2>3 DEF Row
  <2>5. \A i \in JobId : i # j => jobs'[i] = jobs[i]
    BY <2>1, <2>2
  <2>6. Discard(j)
    BY <1>2 DEF Cancel
  <2> QED
    BY <2>4, <2>5, <2>6
<1> QED
  BY <1>1, <1>2

LEMMA AskCancelStep ==
  ASSUME IInv, StagesSound, NEW c \in Clients, Cancel(c)
  PROVE  StagesSound'
<1>0. /\ TypeOK /\ PipelineTypeOK /\ RowsTypeOK
      /\ UNCHANGED <<exec, wstate, pc, package, summary, letter, told, hits, errors>>
  BY PipelineTypes DEF IInv, StagesSound, Cancel, CancelUpdate
<1>1. CASE jobs' = jobs /\ UNCHANGED <<outbox, doubt>>
  BY <1>0, <1>1, Unmoved DEF QuietQueue, runVars, sendVars
<1>2. ASSUME NEW j \in JobId,
             \A i \in JobId : i # j => jobs'[i] = jobs[i],
             jobs'[j].status = "cancel_requested", jobs'[j].cancelAt = TRUE, Discard(j)
      PROVE  StagesSound'
  <2>1. /\ outbox' \in [JobId -> RowState] /\ doubt' \in [JobId -> Nat]
        /\ outbox'[j] = IF outbox[j] = "sent" THEN "sent" ELSE "none"
        /\ \A i \in JobId : i # j => outbox'[i] = outbox[i]
    BY <1>0, <1>2, DiscardRows
  <2>2. PipelineTypeOK'
    BY <1>0, <2>1 DEF PipelineTypeOK
  <2>3. ASSUME NEW v \in Workers PROVE StageSound(v)'
    <3> SUFFICES ASSUME exec[v] # NoJob PROVE StageSound(v)'
      BY <1>0 DEF StageSound
    <3>1. exec[v] \in JobId
      BY <1>0 DEF TypeOK
    <3>2. StageSound(v) /\ outbox'[exec[v]] \in {outbox[exec[v]], "sent", "none"}
      BY <2>1, <3>1 DEF StagesSound
    <3> QED
      BY <1>0, <3>2 DEF StageSound, StageRows, Stopping, Unsent
  <2>4. ASSUME NEW i \in JobId PROVE JobSound(i)'
    <3>0. \A s : At(i, s) <=> At(i, s)'
      BY <1>0 DEF At
    <3>1. CASE i # j
      BY <1>0, <1>2, <2>1, <3>0, <3>1, JobKept DEF StagesSound
    <3>2. CASE i = j
      <4>1. /\ StatusRows("cancel_requested", TRUE, package[j], summary[j], outbox'[j], hits[j])
            /\ JobRows(At(j, Building)', jobs'[j].status = "failed" \/ At(j, Leaving)', TRUE,
                       package[j], outbox'[j], hits[j])
        BY <2>1 DEF StagesSound, JobSound, StatusRows, JobRows, Unsent
      <4> QED
        BY <1>0, <1>2, <3>2, <4>1 DEF JobSound
    <3> QED
      BY <3>1, <3>2
  <2> QED
    BY <2>2, <2>3, <2>4 DEF StagesSound
<1>3. \/ jobs' = jobs /\ UNCHANGED <<outbox, doubt>>
      \/ \E j \in JobId :
           /\ \A i \in JobId : i # j => jobs'[i] = jobs[i]
           /\ jobs'[j].status = "cancel_requested" /\ jobs'[j].cancelAt = TRUE
           /\ Discard(j)
  BY <1>0, AskedRows
<1>4. StagesSound'
  BY <1>1, <1>2, <1>3
<1> QED
  BY <1>4

LEMMA SubmitStep ==
  ASSUME ~LeaseMayLapse, IInv, StagesSound, NEW c \in Clients, Submit(c)
  PROVE  StagesSound'
<1>0. TypeOK /\ PipelineTypeOK /\ UNCHANGED <<exec, wstate, pc, summary, outbox, sendVars, errors>>
  BY DEF IInv, StagesSound, Submit, EnqueueInsert
<1>1. PICK j \in JobId, s \in RunStatus :
        /\ jobs[j].status = "absent" /\ jobs'[j].status = "queued"
        /\ package' = [package EXCEPT ![j] = s]
        /\ IF s \in {"running", "failed"} THEN Hit(j, "input") ELSE UNCHANGED hits
  BY DEF Submit
<1>2. jobs'[j].cancelAt = FALSE /\ \A i \in JobId : i # j => jobs'[i] = jobs[i]
  BY <1>0, <1>1, InsertRows DEF Submit
<1>3. /\ package'[j] = s /\ \A i \in JobId : i # j => package'[i] = package[i]
      /\ hits' \in [JobId -> Hits] /\ \A i \in JobId : i # j => hits'[i] = hits[i]
      /\ s \in {"running", "failed"} => Caused(hits'[j])
  <2>1. CASE s \in {"running", "failed"}
    <3>1. hits' = [hits EXCEPT ![j] = hits[j] \cup {"input"}]
      BY <1>1, <2>1 DEF Hit
    <3>2. /\ hits' \in [JobId -> Hits] /\ \A i \in JobId : i # j => hits'[i] = hits[i]
          /\ "input" \in hits'[j]
      BY <1>0, <3>1 DEF PipelineTypeOK, Hits
    <3>3. Caused(hits'[j])
      BY <3>2 DEF Caused
    <3> QED
      BY <1>0, <1>1, <3>2, <3>3 DEF PipelineTypeOK
  <2>2. CASE s \notin {"running", "failed"}
    <3>1. hits' = hits
      BY <1>1, <2>2
    <3> QED
      BY <1>0, <1>1, <2>2, <3>1 DEF PipelineTypeOK, Hits
  <2> QED
    BY <2>1, <2>2
<1>4. PipelineTypeOK'
  BY <1>0, <1>1, <1>3 DEF PipelineTypeOK, Hits, sendVars
<1>5. ASSUME NEW v \in Workers PROVE StageSound(v)'
  <2> SUFFICES ASSUME exec[v] # NoJob PROVE StageSound(v)'
    BY <1>0 DEF StageSound
  <2>1. exec[v] \in JobId /\ exec[v] # j
    BY <1>1, ExecutedRow
  <2> QED
    BY <1>0, <1>3, <2>1 DEF StagesSound, StageSound, Stopping, sendVars
<1>6. ASSUME NEW i \in JobId PROVE JobSound(i)'
  <2>0. \A st : At(i, st) <=> At(i, st)'
    BY <1>0 DEF At
  <2>1. CASE i # j
    BY <1>0, <1>2, <1>3, <2>0, <2>1, JobKept DEF StagesSound
  <2>2. CASE i = j
    <3>1. outbox[j] = "none"
      BY <1>1 DEF StagesSound, JobSound, StatusRows
    <3>2. /\ StatusRows("queued", FALSE, s, summary[j], outbox[j], hits'[j])
          /\ JobRows(At(j, Building)', jobs'[j].status = "failed" \/ At(j, Leaving)', FALSE,
                     s, outbox[j], hits'[j])
      BY <1>3, <3>1 DEF StatusRows, JobRows
    <3> QED
      BY <1>0, <1>1, <1>2, <1>3, <2>2, <3>2 DEF JobSound
  <2> QED
    BY <2>1, <2>2
<1> QED
  BY <1>4, <1>5, <1>6 DEF StagesSound

-----------------------------------------------------------------------------
(* The sweep cancels jobs nobody executes any more. *)
LEMMA SweptSound ==
  ASSUME ~LeaseMayLapse, IInv, StagesSound, NEW i \in JobId, jobs'[i] = Swept[i],
         \A s : At(i, s) => At(i, s)', UNCHANGED runVars
  PROVE  JobSound(i)'
<1> USE DEF runVars
<1>0. TypeOK
  BY DEF IInv
<1>1. CASE ~Orphan(i)
  BY <1>0, <1>1, SweptRows, JobKept DEF StagesSound
<1>2. CASE Orphan(i)
  <2>1. jobs'[i].status = "canceled" /\ jobs'[i].cancelAt = jobs[i].cancelAt
    BY <1>0, <1>2, SweptRows
  <2>2. \A s : ~At(i, s)
    <3> SUFFICES ASSUME NEW w \in Workers, exec[w] = i PROVE FALSE
      BY DEF At
    <3>1. jobs[i].worker = w /\ jobs[i].lease = "live"
      BY NoJobIsNoId, LeasesHold DEF ExecutorHoldsLease, Pinned
    <3> QED
      BY <1>2, <3>1, QueueAssumption DEF Orphan
  <2>3. JobSound(i) /\ jobs[i].status = "cancel_requested"
    BY <1>2 DEF StagesSound, Orphan
  <2>4. /\ StatusRows("canceled", jobs[i].cancelAt, package[i], summary[i], outbox[i], hits[i])
        /\ JobRows(FALSE, FALSE, jobs[i].cancelAt, package[i], outbox[i], hits[i])
    BY <2>2, <2>3 DEF JobSound, StatusRows, JobRows
  <2>5. JobRows(At(i, Building)', jobs'[i].status = "failed" \/ At(i, Leaving)', jobs[i].cancelAt,
                package[i], outbox[i], hits[i])
    BY <2>4 DEF JobRows
  <2> QED
    BY <2>1, <2>4, <2>5 DEF JobSound
<1> QED
  BY <1>1, <1>2

LEMMA FindNoJobStep ==
  ASSUME ~LeaseMayLapse, IInv, StagesSound, NEW w \in Workers, FindNoJob(w)
  PROVE  StagesSound'
<1>1. /\ jobs' = Swept /\ UNCHANGED <<exec, wstate, runVars>> /\ letter' = letter
      /\ pc[w] = "idle" /\ exec[w] = NoJob /\ pc' = [pc EXCEPT ![w] = "free"]
  BY DEF FindNoJob, ClaimNothing, Go, Idle, runVars, sendVars
<1>2. PipelineTypeOK /\ \A v \in Workers : v # w => pc'[v] = pc[v]
  BY <1>1 DEF StagesSound, PipelineTypeOK
<1>3. PipelineTypeOK'
  <2>1. Moves(w, "free")
    BY <1>1, <1>2, MovesApart DEF Sending
  <2>2. PlacesOK'
    BY <1>1, <1>2, <2>1, PlacesMove DEF Stages
  <2>3. RowsTypeOK'
    BY <1>1, <1>2, PipelineTypes DEF RowsTypeOK, runVars, sendVars
  <2> QED
    BY <2>2, <2>3, PipelineTypesNext
<1>4. \A v \in Workers : StageSound(v)'
  BY <1>1, <1>2 DEF StagesSound, StageSound, Stopping, runVars
<1>5. ASSUME NEW i \in JobId PROVE JobSound(i)'
  <2>1. \A s : At(i, s) => At(i, s)'
    BY <1>1, <1>2, NoJobIsNoId DEF At
  <2> QED
    BY <1>1, <2>1, SweptSound
<1> QED
  BY <1>3, <1>4, <1>5 DEF StagesSound

(* A claimed job has no executor and nobody has asked to cancel it. *)
LEMMA TakeJobStep ==
  ASSUME ~LeaseMayLapse, IInv, StagesSound, NEW w \in Workers, TakeJob(w)
  PROVE  StagesSound'
<1>0. TypeOK /\ PipelineTypeOK /\ UNCHANGED <<wstate, runVars>> /\ letter' = letter
  BY DEF IInv, StagesSound, TakeJob, Claim, runVars, sendVars
<1>1. PICK j \in JobId :
        /\ Claimable(j)
        /\ exec[w] = NoJob /\ exec' = [exec EXCEPT ![w] = j]
        /\ \A i \in JobId : i # j => jobs'[i] = Swept[i]
        /\ jobs'[j].status = "running" /\ jobs'[j].cancelAt = jobs[j].cancelAt
  BY <1>0, ClaimRows DEF TakeJob
<1>2. pc[w] = "idle" /\ pc' = [pc EXCEPT ![w] = "start"] /\ wstate[w] = "up"
  BY DEF TakeJob, Go, Claim, Idle
<1>3. /\ exec'[w] = j /\ pc'[w] = "start" /\ j # NoJob
      /\ \A v \in Workers : v # w => exec'[v] = exec[v] /\ pc'[v] = pc[v]
  BY <1>0, <1>1, <1>2, NoJobIsNoId DEF TypeOK, PipelineTypeOK
<1>4. PipelineTypeOK'
  <2>1. Moves(w, "start")
    BY <1>0, <1>2, MovesApart DEF Sending
  <2>2. PlacesOK'
    BY <1>0, <1>3, <2>1, PlacesMove DEF Stages, Open
  <2>3. RowsTypeOK'
    BY <1>0, PipelineTypes DEF RowsTypeOK, runVars, sendVars
  <2> QED
    BY <2>2, <2>3, PipelineTypesNext
<1>5. ASSUME NEW v \in Workers PROVE StageSound(v)'
  <2>1. CASE v = w
    <3>1. letter'[w] = NoJob
      BY <1>0, <1>2 DEF PipelineTypeOK, Sending
    <3> QED
      BY <1>0, <1>2, <1>3, <2>1, <3>1 DEF StageSound, StageRows, Stopping, AfterPackage, AfterSummary
  <2>2. CASE v # w
    BY <1>0, <1>3, <2>2 DEF StagesSound, StageSound, Stopping, runVars
  <2> QED
    BY <2>1, <2>2
<1>6. ASSUME NEW i \in JobId PROVE JobSound(i)'
  <2>1. CASE i # j
    <3>1. \A s : At(i, s) => At(i, s)'
      BY <1>1, <1>3, <2>1, NoJobIsNoId DEF At
    <3> QED
      BY <1>0, <1>1, <2>1, <3>1, SweptSound
  <2>2. CASE i = j
    <3>1. jobs[j].cancelAt = FALSE
      BY <1>0, <1>1, LeasesHold DEF CancelSticks, Claimable, TypeOK, Row
    <3>2. \A s : ~At(j, s)
      BY <1>1, NoJobIsNoId, LeasesHold DEF At, ExecutorHoldsLease, Pinned, Claimable
    <3>3. JobRows(FALSE, jobs[j].status = "failed", FALSE, package[j], outbox[j], hits[j])
      BY <3>1, <3>2 DEF StagesSound, JobSound, JobRows
    <3>4. JobRows(At(j, Building)', jobs'[j].status = "failed" \/ At(j, Leaving)', FALSE,
                  package[j], outbox[j], hits[j])
      BY <3>3 DEF JobRows
    <3>5. StatusRows("running", FALSE, package[j], summary[j], outbox[j], hits[j])
      BY DEF StatusRows
    <3> QED
      BY <1>0, <1>1, <2>2, <3>1, <3>4, <3>5 DEF JobSound, runVars
  <2> QED
    BY <2>1, <2>2
<1> QED
  BY <1>4, <1>5, <1>6 DEF StagesSound
-----------------------------------------------------------------------------
(* The stages, one by one. *)
LEMMA WriteIsQuiet ==
  ASSUME ~LeaseMayLapse, IInv, NEW w \in Workers, WriteRunning(w)
  PROVE  QuietQueue /\ wstate' = wstate
<1>1. TypeOK /\ exec[w] # NoJob /\ WriteJob(w, "running") /\ exec' = exec /\ wstate' = wstate
  BY DEF IInv, WriteRunning
<1> PICK j \in JobId : j = exec[w]
  BY <1>1, ExecutedRow
<1>2. /\ jobs'[j] = Written(jobs[j], w, "running") /\ \A i \in JobId : i # j => jobs'[i] = jobs[i]
      /\ jobs[j] \in Row /\ jobs[j].status \in {"running", "cancel_requested"}
  BY <1>1, WriteJobRows, ExecutedRow DEF TypeOK
<1>3. jobs'[j].status = jobs[j].status /\ jobs'[j].cancelAt = jobs[j].cancelAt
  BY <1>2, WrittenRow
<1> QED
  BY <1>1, <1>2, <1>3 DEF QuietQueue

LEMMA HitRows ==
  ASSUME NEW j \in JobId, NEW what \in {"error", "stop", "crash", "input", "twice"},
         hits \in [JobId -> Hits], Hit(j, what)
  PROVE  /\ hits' \in [JobId -> Hits] /\ hits'[j] = hits[j] \cup {what}
         /\ \A i \in JobId \ {j} : hits'[i] = hits[i]
BY DEF Hit, Hits

LEMMA FailRows ==
  ASSUME NEW w \in Workers, NEW j \in JobId, Found(w, j), Fail(w)
  PROVE  /\ hits' \in [JobId -> Hits] /\ hits'[j] = hits[j] \cup {"error"} /\ errors' \in Nat
         /\ \A i \in JobId \ {j} : hits'[i] = hits[i]
         /\ Caused(hits'[j])
<1>1. /\ hits' \in [JobId -> Hits] /\ hits'[j] = hits[j] \cup {"error"} /\ errors' \in Nat
      /\ \A i \in JobId \ {j} : hits'[i] = hits[i]
  BY HitRows DEF Fail, Error, Found, RowsTypeOK
<1> QED
  BY <1>1 DEF Caused

LEMMA PackageSteps ==
  ASSUME ~LeaseMayLapse, IInv, StagesSound, NEW w \in Workers, exec[w] # NoJob, PackageStep(w)
  PROVE  StagesSound'
<1> PICK j \in JobId : Found(w, j)
  BY JobFound
<1>u. UNCHANGED vars => QuietQueue /\ wstate' = wstate
  BY DEF vars, QuietQueue
<1>p. Progress(w) => QuietQueue /\ wstate' = wstate /\ jobs[j].cancelAt = FALSE
  BY WriteIsQuiet DEF Progress, Clear, Found
<1>c. Clear(w) => jobs[j].cancelAt = FALSE
  BY DEF Clear, Found
<1> USE DEF Sending, Working
<1>1. CASE PlanPackage(w)
  BY <1>1, <1>p, MoveStep DEF PlanPackage, Go, Found, StageRows, JobRows, Stages, Open, AfterPackage, AfterSummary, Building, Leaving
<1>2. CASE ReusePackage(w)
  <2> USE DEF Go, Found, StageRows, JobRows, Stages, Open, Handlers, AfterPackage, AfterSummary, Building, Leaving
  <2>0. pc[w] = "start" /\ UNCHANGED <<vars, runVars>> /\ Clear(w)
    BY <1>2 DEF ReusePackage
  <2>1. CASE package[j] = "completed" /\ Go(w, "start", "packaged")
    BY <2>0, <2>1, <1>u, <1>c, MoveStep
  <2>2. CASE package[j] = "canceled" /\ Go(w, "start", "discarding")
    BY <2>0, <2>2, <1>u, <1>c, MoveStep
  <2>3. CASE package[j] \in {"running", "failed"} /\ Go(w, "start", "failing")
    BY <2>0, <2>3, <1>u, <1>c, MoveStep
  <2> QED
    BY <1>2, <2>1, <2>2, <2>3 DEF ReusePackage
<1>3. CASE EnterPackage(w)
  BY <1>3, <1>p, MoveStep DEF EnterPackage, Go, Found, StageRows, JobRows, Stages, Guarded, AfterPackage, AfterSummary, Building, Leaving
<1>w. wstate' = wstate /\ hits[j] \subseteq hits'[j] =>
        /\ \A v \in Workers \ {w} : wstate'[v] = wstate[v]
        /\ wstate'[w] = "stopping" => "stop" \in hits'[j]
  BY DEF Found, Stopping
<1> USE DEF Go, StageRows, JobRows, AfterPackage, AfterSummary, Building, Leaving
<1>4. CASE OpenPackage(w)
  <2>1. RowsTypeOK' /\ OthersKept(j) /\ hits' = hits /\ UNCHANGED vars
    BY <1>4 DEF OpenPackage, Found, RowsTypeOK, OthersKept, RunStatus, sendVars
  <2>2. /\ StageRows("opened", package'[j], summary'[j], outbox'[j], hits'[j])
        /\ JobRows("opened" \in Building, "opened" \in Leaving, jobs[j].cancelAt,
                   package'[j], outbox'[j], hits'[j])
    BY <1>4, <1>c DEF OpenPackage, Found, RowsTypeOK
  <2>3. Moves(w, "opened") /\ "opened" \in Working
    BY <1>4, MovesApart DEF OpenPackage, Stages, Open, StagesSound, sendVars
  <2> QED
    BY <1>u, <1>w, <2>1, <2>2, <2>3, StageStep
<1>5. ASSUME NEW s \in RunStatus, EndPackage(w, s) PROVE StagesSound'
  <2>1. /\ RowsTypeOK' /\ OthersKept(j) /\ hits[j] \subseteq hits'[j] /\ UNCHANGED vars /\ package'[j] = s
        /\ UNCHANGED <<summary, outbox, sendVars>> /\ pc[w] = "building"
        /\ s = "failed" => Caused(hits'[j])
    <3>1. /\ UNCHANGED vars /\ UNCHANGED <<summary, outbox, sendVars>> /\ pc[w] = "building"
          /\ package' = [package EXCEPT ![j] = s]
      BY <1>5 DEF EndPackage, Found
    <3>2. /\ package' \in [JobId -> RunStatus] /\ package'[j] = s
          /\ \A i \in JobId \ {j} : package'[i] = package[i]
      BY <3>1 DEF Found, RowsTypeOK
    <3>3. /\ hits' \in [JobId -> Hits] /\ errors' \in Nat /\ hits[j] \subseteq hits'[j]
          /\ \A i \in JobId \ {j} : hits'[i] = hits[i]
          /\ s = "failed" => Caused(hits'[j])
      <4>1. CASE Fail(w)
        BY <4>1, FailRows
      <4>2. CASE UNCHANGED <<hits, errors>> /\ (s = "failed" => Stopping(w))
        BY <4>2 DEF Found, RowsTypeOK, Caused
      <4> QED
        BY <1>5, <4>1, <4>2 DEF EndPackage
    <3> QED
      BY <3>1, <3>2, <3>3 DEF Found, RowsTypeOK, OthersKept, sendVars
  <2>2. PICK p \in {"packaged", "discarding", "failing"} :
          /\ pc' = [pc EXCEPT ![w] = p]
          /\ p = "packaged" => s = "completed"
          /\ p = "discarding" => s = "canceled"
          /\ p = "failing" => s = "failed"
    BY <1>5 DEF EndPackage
  <2>3. /\ StageRows(p, package'[j], summary'[j], outbox'[j], hits'[j])
        /\ JobRows(p \in Building, p \in Leaving, jobs[j].cancelAt,
                   package'[j], outbox'[j], hits'[j])
    BY <2>1, <2>2 DEF Found, Calm
  <2>4. p \in Working /\ Moves(w, p)
    BY <2>1, <2>2, MovesApart DEF Stages, Open, Handlers, StagesSound, sendVars
  <2> QED
    BY <1>u, <1>w, <2>1, <2>2, <2>3, <2>4, StageStep
<1> QED
  BY <1>1, <1>2, <1>3, <1>4, <1>5 DEF PackageStep

LEMMA PersistRows ==
  ASSUME RowsTypeOK, NEW j \in JobId, outbox' = Persisted(j)
  PROVE  /\ outbox' \in [JobId -> RowState]
         /\ outbox'[j] = IF outbox[j] = "none" THEN "pending" ELSE outbox[j]
         /\ \A i \in JobId \ {j} : outbox'[i] = outbox[i]
BY DEF RowsTypeOK, Persisted, RowState

LEMMA SummarySteps ==
  ASSUME ~LeaseMayLapse, IInv, StagesSound, NEW w \in Workers, exec[w] # NoJob, SummaryStep(w)
  PROVE  StagesSound'
<1> PICK j \in JobId : Found(w, j)
  BY JobFound
<1>u. UNCHANGED vars => QuietQueue /\ wstate' = wstate
  BY DEF vars, QuietQueue
<1>p. Progress(w) => QuietQueue /\ wstate' = wstate /\ jobs[j].cancelAt = FALSE
  BY WriteIsQuiet DEF Progress, Clear, Found
<1>c. Clear(w) => jobs[j].cancelAt = FALSE
  BY DEF Clear, Found
<1>w. wstate' = wstate /\ hits[j] \subseteq hits'[j] =>
        /\ \A v \in Workers \ {w} : wstate'[v] = wstate[v]
        /\ wstate'[w] = "stopping" => "stop" \in hits'[j]
  BY DEF Found, Stopping
<1>l. ASSUME NEW p \in Working, pc[w] \notin Sending, p \notin Sending,
             pc' = [pc EXCEPT ![w] = p], UNCHANGED sendVars
      PROVE  Moves(w, p)
  BY <1>l, MovesApart DEF StagesSound, sendVars
<1> USE DEF Go, StageRows, JobRows, AfterPackage, AfterSummary, Building, Leaving, Sending, Working
<1>1. CASE PlanSummary(w)
  BY <1>1, <1>p, MoveStep DEF PlanSummary, Found, Stages, Open
<1>2. CASE ReuseSummary(w)
  BY <1>2, <1>u, <1>c, MoveStep DEF ReuseSummary, Found, Stages, Open
<1>3. CASE EnterSummary(w)
  BY <1>3, <1>p, MoveStep DEF EnterSummary, Found, Stages, Guarded
<1>4. CASE ReportQueued(w)
  BY <1>4, <1>p, MoveStep DEF ReportQueued, Found, Stages
<1>5. ASSUME NEW s \in RunStatus, NEW p \in {"begun", "summarized"},
             UNCHANGED <<vars, package, outbox, sendVars, hits, errors>>,
             summary' = [summary EXCEPT ![exec[w]] = s], pc' = [pc EXCEPT ![w] = p],
             p = "begun" => pc[w] = "beginning",
             p = "summarized" => s = "completed" /\ pc[w] = "stored"
      PROVE  StagesSound'
  <2>1. /\ summary' \in [JobId -> RunStatus] /\ summary'[j] = s
        /\ \A i \in JobId \ {j} : summary'[i] = summary[i]
    BY <1>5 DEF Found, RowsTypeOK
  <2>2. RowsTypeOK' /\ OthersKept(j)
    BY <1>5, <2>1 DEF Found, RowsTypeOK, OthersKept, sendVars
  <2>3. /\ StageRows(p, package'[j], summary'[j], outbox'[j], hits'[j])
        /\ JobRows(p \in Building, p \in Leaving, jobs[j].cancelAt,
                   package'[j], outbox'[j], hits'[j])
    BY <1>5, <2>1 DEF Found
  <2>4. p \in Working
    BY DEF Stages, Open
  <2>5. Moves(w, p)
    BY <1>5, <1>l, <2>4
  <2> QED
    BY <1>5, <1>u, <1>w, <2>2, <2>3, <2>4, <2>5, StageStep
<1>6. CASE OpenSummary(w)
  BY <1>5, <1>6 DEF OpenSummary, RunStatus
<1>7. CASE CompleteSummary(w)
  BY <1>5, <1>7 DEF CompleteSummary, RunStatus
<1>8. CASE PersistBatch(w)
  <2>1. /\ UNCHANGED <<vars, package, summary, sendVars, hits, errors>> /\ pc[w] = "analyzing"
        /\ \/ pc' = [pc EXCEPT ![w] = "persisted"] /\ outbox' = Persisted(j)
           \/ pc' = [pc EXCEPT ![w] = "stored"] /\ outbox' = outbox
    BY <1>8 DEF PersistBatch, Found
  <2>2. PICK p \in {"persisted", "stored"} :
          /\ pc' = [pc EXCEPT ![w] = p]
          /\ p = "persisted" => outbox' = Persisted(j)
          /\ p = "stored" => outbox' = outbox
    BY <2>1
  <2>3. /\ outbox' \in [JobId -> RowState] /\ \A i \in JobId \ {j} : outbox'[i] = outbox[i]
        /\ outbox'[j] = IF outbox[j] = "none" /\ p = "persisted" THEN "pending" ELSE outbox[j]
    BY <2>2, PersistRows DEF Found, RowsTypeOK
  <2>4. RowsTypeOK' /\ OthersKept(j)
    BY <2>1, <2>3 DEF Found, RowsTypeOK, OthersKept, sendVars
  <2>5. /\ StageRows(p, package'[j], summary'[j], outbox'[j], hits'[j])
        /\ JobRows(p \in Building, p \in Leaving, jobs[j].cancelAt,
                   package'[j], outbox'[j], hits'[j])
    BY <2>1, <2>3 DEF Found
  <2>6. p \in Working /\ Moves(w, p)
    BY <1>l, <2>1, <2>2 DEF Stages, Guarded
  <2> QED
    BY <1>u, <1>w, <2>1, <2>2, <2>4, <2>5, <2>6, StageStep
<1>9. ASSUME NEW s \in RunStatus, BreakSummary(w, s) PROVE StagesSound'
  <2>1. /\ UNCHANGED <<vars, package, outbox, sendVars>>
        /\ summary' = [summary EXCEPT ![j] = s] /\ pc[w] \in {"analyzing", "persisted", "stored"}
    BY <1>9 DEF BreakSummary, Found
  <2>2. summary' \in [JobId -> RunStatus] /\ \A i \in JobId \ {j} : summary'[i] = summary[i]
    BY <2>1 DEF Found, RowsTypeOK
  <2>3. PICK p \in {"discarding", "failing", "retrying"} :
          /\ pc' = [pc EXCEPT ![w] = p]
          /\ p = "discarding" => SeesCancel(w) /\ UNCHANGED <<hits, errors>>
          /\ p = "failing" => Fail(w) \/ (Stopping(w) /\ UNCHANGED <<hits, errors>>)
          /\ p = "retrying" => Fail(w) /\ pc[w] = "analyzing"
    BY <1>9 DEF BreakSummary
  <2>4. /\ hits' \in [JobId -> Hits] /\ errors' \in Nat /\ hits[j] \subseteq hits'[j]
        /\ \A i \in JobId \ {j} : hits'[i] = hits[i]
        /\ p \in {"failing", "retrying"} => Caused(hits'[j])
        /\ Caused(hits[j]) => Caused(hits'[j])
    <3>1. CASE Fail(w)
      BY <3>1, FailRows
    <3>2. CASE UNCHANGED <<hits, errors>> /\ (p \in {"failing", "retrying"} => Stopping(w))
      BY <3>2 DEF Found, RowsTypeOK, Caused
    <3> QED
      BY <2>3, <3>1, <3>2
  <2>5. RowsTypeOK' /\ OthersKept(j)
    BY <2>1, <2>2, <2>4 DEF Found, RowsTypeOK, OthersKept, sendVars
  <2>6. p = "retrying" => pc[w] = "analyzing" /\ ~Calm(hits'[j])
    BY <2>3, FailRows DEF Calm
  <2>7. /\ StageRows(p, package'[j], summary'[j], outbox'[j], hits'[j])
        /\ JobRows(p \in Building, p \in Leaving, jobs[j].cancelAt,
                   package'[j], outbox'[j], hits'[j])
    BY <2>1, <2>4, <2>6 DEF Found, Calm
  <2>8. p \in Working /\ Moves(w, p)
    BY <1>l, <2>1, <2>3 DEF Stages, Handlers
  <2> QED
    BY <1>u, <1>w, <2>1, <2>3, <2>4, <2>5, <2>7, <2>8, StageStep
<1> QED
  BY <1>1, <1>2, <1>3, <1>4, <1>6, <1>7, <1>8, <1>9 DEF SummaryStep

LEMMA FinalSteps ==
  ASSUME ~LeaseMayLapse, IInv, StagesSound, NEW w \in Workers, exec[w] # NoJob,
         FinalStep(w), ~DrainNext(w)
  PROVE  StagesSound'
<1> PICK j \in JobId : Found(w, j)
  BY JobFound
<1>0. TypeOK /\ exec \in [Workers -> JobId \cup {NoJob}] /\ jobs \in [JobId -> Row] /\ jobs[j] \in Row
  BY DEF IInv, TypeOK
<1>u. UNCHANGED vars => QuietQueue /\ wstate' = wstate
  BY DEF vars, QuietQueue
<1>c. Clear(w) => jobs[j].cancelAt = FALSE
  BY DEF Clear, Found
<1>r. UNCHANGED runVars => RowsTypeOK' /\ hits' = hits /\ letter' = letter
  BY DEF Found, RowsTypeOK, runVars, sendVars
<1>l. ASSUME pc[w] \notin Sending, pc' = [pc EXCEPT ![w] = "idle"], letter' = letter
      PROVE  Moves(w, "idle")
  BY <1>l, MovesApart DEF StagesSound, Sending
<1> USE DEF Go, StageRows, JobRows, AfterPackage, AfterSummary, Building, Leaving, Sending, Working
<1>1. CASE NoticeCancel(w)
  <2>1. PICK q \in Open : pc[w] = q /\ pc' = [pc EXCEPT ![w] = "discarding"]
    BY <1>1 DEF NoticeCancel
  <2>2. jobs[j].cancelAt /\ "discarding" \in Working \ Sending /\ q \notin Sending
    BY <1>1 DEF NoticeCancel, SeesCancel, Found, Stages, Handlers, Open
  <2> QED
    BY <1>1, <1>u, <2>1, <2>2, MoveStep DEF NoticeCancel, Found
<1>2. CASE NoRetry(w)
  <2>1. pc[w] = "retrying" /\ UNCHANGED <<vars, runVars>>
    BY <1>2 DEF NoRetry
  <2>2. PICK p \in {"failing", "discarding"} : pc' = [pc EXCEPT ![w] = p]
    BY <1>2 DEF NoRetry
  <2>3. p \in Working \ Sending
    BY DEF Stages, Handlers
  <2> QED
    BY <1>u, <2>1, <2>2, <2>3, MoveStep DEF Found
<1>3. CASE StartDrain(w)
  BY <1>3, <1>u, <1>c, MoveStep DEF StartDrain, Found, Stages, Open
<1>4. CASE EndDrain(w)
  BY <1>4, <1>u, <1>c, MoveStep DEF EndDrain, Found, Stages, Open
<1>5. CASE LastCheck(w)
  BY <1>5, <1>u, <1>c, MoveStep DEF LastCheck, Found, Stages
<1>6. CASE DiscardUnsent(w)
  <2>1. /\ UNCHANGED <<vars, package, summary, letter, told, hits, errors>> /\ pc[w] = "discarding"
        /\ pc' = [pc EXCEPT ![w] = "canceling"] /\ Discard(j)
    BY <1>6 DEF DiscardUnsent, Found
  <2>2. /\ outbox' \in [JobId -> RowState] /\ \A i \in JobId \ {j} : outbox'[i] = outbox[i]
        /\ outbox'[j] = IF outbox[j] = "sent" THEN "sent" ELSE "none"
        /\ doubt' \in [JobId -> Nat]
    BY <2>1, DiscardRows DEF Found
  <2>3. RowsTypeOK' /\ OthersKept(j)
    BY <2>1, <2>2 DEF Found, RowsTypeOK, OthersKept
  <2>4. /\ StageRows("canceling", package'[j], summary'[j], outbox'[j], hits'[j])
        /\ JobRows("canceling" \in Building, "canceling" \in Leaving, jobs[j].cancelAt,
                   package'[j], outbox'[j], hits'[j])
    BY <2>1, <2>2 DEF Found, Unsent
  <2>5. "canceling" \in Working
    BY DEF Stages, Handlers
  <2>6. /\ \A v \in Workers \ {w} : wstate'[v] = wstate[v]
        /\ wstate'[w] = "stopping" => "stop" \in hits'[j]
    BY <2>1 DEF Found, Stopping, vars
  <2>7. Moves(w, "canceling")
    BY <2>1, MovesApart DEF StagesSound
  <2> QED
    BY <1>u, <2>1, <2>3, <2>4, <2>5, <2>6, <2>7, StageStep
<1>7. CASE StopJob(w) \/ Retry(w)
  <2>1. /\ Requeue(w) \/ ScheduleRetry(w)
        /\ pc' = [pc EXCEPT ![w] = "idle"] /\ UNCHANGED <<runVars, wstate>>
        /\ pc[w] = "retrying" \/ (pc[w] \in Open /\ Stopping(w))
    BY <1>7 DEF StopJob, Retry, Leave, Requeue, ScheduleRetry
  <2>2. /\ exec' = [exec EXCEPT ![w] = NoJob] /\ \A i \in JobId : i # j => jobs'[i] = jobs[i]
        /\ jobs'[j].cancelAt = jobs[j].cancelAt
        /\ jobs'[j].status \in {"running", "cancel_requested", "queued"}
        /\ jobs'[j].status = "cancel_requested" => jobs[j].status = "cancel_requested"
    BY <1>0, <2>1, HandBackRows DEF Found
  <2>3. pc[w] \notin Leaving /\ pc[w] \notin Sending /\ (pc[w] \in Building => Caused(hits[j]))
    BY <2>1 DEF Found, Open, Caused
  <2>4. /\ StatusRows(jobs'[j].status, jobs[j].cancelAt, package[j], summary[j], outbox[j], hits'[j])
        /\ JobRows(FALSE, jobs'[j].status = "failed", jobs[j].cancelAt,
                   package[j], outbox[j], hits'[j])
    BY <1>r, <2>1, <2>2, <2>3 DEF Found, StatusRows, CancelSeen
  <2>5. Moves(w, "idle")
    BY <1>l, <1>r, <2>1, <2>3
  <2> QED
    BY <1>r, <2>1, <2>2, <2>4, <2>5, LeaveStep DEF runVars
<1>8. ASSUME NEW p, NEW s \in Terminal, Mark(w, p, s),
             <<p, s>> \in {<<"finishing", "completed">>, <<"canceling", "canceled">>, <<"failing", "failed">>}
      PROVE  StagesSound'
  <2>1. /\ pc[w] = p /\ pc' = [pc EXCEPT ![w] = "idle"] /\ UNCHANGED <<runVars, wstate>>
        /\ exec' = [exec EXCEPT ![w] = NoJob] /\ WriteJob(w, s)
    BY <1>8 DEF Mark, Finish, Leave
  <2>2. /\ \A i \in JobId : i # j => jobs'[i] = jobs[i]
        /\ jobs'[j] = Written(jobs[j], w, s)
    BY <1>0, <2>1, WriteJobRows DEF Found
  <2>3. jobs'[j].cancelAt = jobs[j].cancelAt /\ jobs'[j].status = s
    BY <1>0, <2>2, WrittenRow DEF Terminal
  <2>4. /\ StatusRows(s, jobs[j].cancelAt, package[j], summary[j], outbox[j], hits[j])
        /\ JobRows(FALSE, s = "failed", jobs[j].cancelAt, package[j], outbox[j], hits[j])
    BY <1>8, <2>1 DEF Found, StatusRows, Calm
  <2>5. Moves(w, "idle")
    BY <1>8, <1>l, <1>r, <2>1
  <2> QED
    BY <1>r, <2>1, <2>2, <2>3, <2>4, <2>5, LeaveStep DEF runVars
<1> QED
  BY <1>1, <1>2, <1>3, <1>4, <1>5, <1>6, <1>7, <1>8 DEF FinalStep, Terminal

(* Reports, errors, stops and crashes. *)
LEMMA ReportSteps ==
  ASSUME ~LeaseMayLapse, IInv, StagesSound, NEW w \in Workers, exec[w] # NoJob,
         ReportPackage(w) \/ ReportSummary(w)
  PROVE  StagesSound'
<1>1. QuietQueue /\ wstate' = wstate /\ UNCHANGED <<pc, runVars>>
  BY WriteIsQuiet DEF ReportPackage, ReportSummary, Progress
<1> QED
  BY <1>1, Unmoved

(* A failed statement ends a stage, and with it perhaps a send. *)
LEMMA BreakStep ==
  ASSUME ~LeaseMayLapse, IInv, StagesSound, NEW w \in Workers, exec[w] # NoJob,
         Break(w) \/ LoseRecord(w)
  PROVE  StagesSound'
<1> PICK j \in JobId : Found(w, j)
  BY JobFound
<1>1. /\ UNCHANGED <<vars, package, summary, outbox, told, doubt>> /\ Fail(w)
      /\ pc' = [pc EXCEPT ![w] = "failing"]
  BY DEF Break, LoseRecord, Go, sendVars, Busy, Fail
<1>2. QuietQueue /\ wstate' = wstate
  BY <1>1 DEF vars, QuietQueue
<1>3. /\ hits' \in [JobId -> Hits] /\ hits'[j] = hits[j] \cup {"error"} /\ errors' \in Nat
      /\ \A i \in JobId \ {j} : hits'[i] = hits[i] /\ Caused(hits'[j])
  BY <1>1, FailRows
<1>4. RowsTypeOK' /\ OthersKept(j)
  BY <1>1, <1>3 DEF Found, RowsTypeOK, OthersKept
<1>5. /\ StageRows("failing", package'[j], summary'[j], outbox'[j], hits'[j])
      /\ JobRows("failing" \in Building, "failing" \in Leaving, jobs[j].cancelAt,
                 package'[j], outbox'[j], hits'[j])
  <2>1. Caused(hits'[j])
    BY <1>1, FailRows
  <2> QED
    BY <1>1, <2>1 DEF Found, StageRows, JobRows, AfterPackage, AfterSummary, Building, Leaving
<1>6. "failing" \in Working
  BY DEF Stages, Handlers, Working
<1>7. /\ \A v \in Workers \ {w} : wstate'[v] = wstate[v]
      /\ wstate'[w] = "stopping" => "stop" \in hits'[j]
  BY <1>2, <1>3 DEF Found, Stopping
<1>8. Moves(w, "failing")
  <2>1. CASE Break(w)
    BY <1>1, <2>1, MovesApart DEF StagesSound, Break, Go, sendVars, Open, Guarded, Sending
  <2>2. CASE LoseRecord(w)
    BY <1>1, <2>2 DEF StagesSound, PipelineTypeOK, LoseRecord, Moves, Sending
  <2> QED
    BY <2>1, <2>2
<1> QED
  BY <1>1, <1>2, <1>4, <1>5, <1>6, <1>7, <1>8, StageStep

(* An execution that is thrown out leaves a trace in hits. *)
LEMMA ThrownOut ==
  ASSUME ~LeaseMayLapse, IInv, StagesSound, NEW w \in Workers, NEW j \in JobId, Found(w, j),
         NEW what \in {"error", "crash"}, Hit(j, what),
         exec' = [exec EXCEPT ![w] = NoJob], Moves(w, "idle"),
         UNCHANGED <<jobs, package, summary, outbox, doubt, errors>>, told' \in [JobId -> Nat],
         \A v \in Workers \ {w} : wstate'[v] = wstate[v]
  PROVE  StagesSound'
<1>1. /\ hits' \in [JobId -> Hits] /\ hits'[j] = hits[j] \cup {what}
      /\ \A i \in JobId \ {j} : hits'[i] = hits[i]
  BY HitRows DEF Found, RowsTypeOK
<1>2. RowsTypeOK'
  BY <1>1 DEF Found, RowsTypeOK
<1>3. Caused(hits'[j]) /\ ~Calm(hits'[j])
  BY <1>1 DEF Caused, Calm
<1>4. /\ StatusRows(jobs'[j].status, jobs[j].cancelAt, package[j], summary[j], outbox[j], hits'[j])
      /\ JobRows(FALSE, jobs'[j].status = "failed", jobs[j].cancelAt,
                 package[j], outbox[j], hits'[j])
  BY <1>1, <1>3 DEF Found, StatusRows, JobRows, CancelSeen
<1> QED
  BY <1>1, <1>2, <1>4, LeaveStep

LEMMA BreakHandlerStep ==
  ASSUME ~LeaseMayLapse, IInv, StagesSound, NEW w \in Workers, exec[w] # NoJob, BreakHandler(w)
  PROVE  StagesSound'
<1> PICK j \in JobId : Found(w, j)
  BY JobFound
<1>1. /\ Hit(j, "error") /\ exec' = [exec EXCEPT ![w] = NoJob] /\ pc' = [pc EXCEPT ![w] = "idle"]
      /\ UNCHANGED <<jobs, package, summary, outbox, letter, told, doubt, errors>> /\ wstate' = wstate
      /\ pc[w] \notin Sending
  BY DEF BreakHandler, Abandon, Leave, Found, sendVars, Open, Sending
<1>2. Moves(w, "idle") /\ told' \in [JobId -> Nat]
  BY <1>1, MovesApart DEF StagesSound, PipelineTypeOK, Sending
<1> QED
  BY <1>1, <1>2, ThrownOut

LEMMA StopWorkerStep ==
  ASSUME ~LeaseMayLapse, IInv, StagesSound, NEW w \in Workers, StopWorker(w)
  PROVE  StagesSound'
<1>0. /\ wstate' = [wstate EXCEPT ![w] = "stopping"]
      /\ UNCHANGED <<jobs, exec, pc, package, summary, outbox, sendVars, errors>>
      /\ wstate \in [Workers -> {"off", "up", "stopping", "gone"}]
  BY DEF StopWorker, Stop, IInv, TypeOK
<1>1. \A v \in Workers \ {w} : wstate'[v] = wstate[v]
  BY <1>0
<1>2. QuietQueue
  BY <1>0 DEF QuietQueue
<1>3. CASE exec[w] = NoJob
  <2>1. hits' = hits
    BY <1>3 DEF StopWorker, Busy
  <2> QED
    BY <1>0, <1>1, <1>2, <1>3, <2>1, Unmoved DEF runVars
<1>4. CASE exec[w] # NoJob
  <2> PICK j \in JobId : Found(w, j)
    BY <1>4, JobFound
  <2>1. /\ hits' \in [JobId -> Hits] /\ hits'[j] = hits[j] \cup {"stop"}
        /\ \A i \in JobId \ {j} : hits'[i] = hits[i]
    BY <1>4, HitRows DEF StopWorker, Found, RowsTypeOK, Busy
  <2>2. RowsTypeOK' /\ OthersKept(j)
    BY <1>0, <2>1 DEF Found, RowsTypeOK, OthersKept, sendVars
  <2>3. Moves(w, pc[w]) /\ pc[w] \in Working
    BY <1>0 DEF StagesSound, PipelineTypeOK, Found, Moves, sendVars
  <2>4. Caused(hits'[j]) /\ (Calm(hits'[j]) => Calm(hits[j]))
    BY <2>1 DEF Caused, Calm
  <2>5. /\ StageRows(pc[w], package'[j], summary'[j], outbox'[j], hits'[j])
        /\ JobRows(pc[w] \in Building, pc[w] \in Leaving, jobs[j].cancelAt,
                   package'[j], outbox'[j], hits'[j])
    BY <1>0, <2>1, <2>4 DEF Found, StageRows, JobRows
  <2> QED
    BY <1>1, <1>2, <2>1, <2>2, <2>3, <2>5, StageStep
<1> QED
  BY <1>3, <1>4

-----------------------------------------------------------------------------
(* The sends.  A row has one sender until a claim finds another one at it, *)
(* and until then a row marked as sent has none.  What is sent, or was,    *)
(* comes from a completed package.                                         *)
Sole(j) ==
  "twice" \notin hits[j] =>
    /\ \A v, w \in Workers : letter[v] = j /\ letter[w] = j => v = w
    /\ outbox[j] = "sent" => \A w \in Workers : letter[w] # j

Sent(j) ==
  told[j] > 0 \/ (\E w \in Workers : letter[w] = j) => package[j] = "completed"

SendersSound == \A j \in JobId : Sole(j) /\ Sent(j)

(* The row a worker sends. *)
LEMMA LetterRow ==
  ASSUME PipelineTypeOK, NEW w \in Workers, pc[w] \in Sending
  PROVE  letter[w] \in JobId
BY DEF PipelineTypeOK

LEMMA ClaimedRow ==
  ASSUME PipelineTypeOK, NEW w \in Workers, NEW j \in JobId, ClaimRow(w, j)
  PROVE  /\ outbox[j] \in Due /\ outbox' \in [JobId -> RowState] /\ outbox'[j] = "sending"
         /\ \A i \in JobId \ {j} : outbox'[i] = outbox[i] /\ hits'[i] = hits[i] /\ doubt'[i] = doubt[i]
         /\ hits' \in [JobId -> Hits] /\ hits[j] \subseteq hits'[j]
         /\ (\E v \in Workers : letter[v] = j) => "twice" \in hits'[j]
         /\ letter' \in [Workers -> JobId \cup {NoJob}] /\ letter'[w] = j
         /\ \A v \in Workers \ {w} : letter'[v] = letter[v]
         /\ doubt' \in [JobId -> Nat]
         /\ doubt'[j] = IF outbox[j] = "stale" THEN doubt[j] + 1 ELSE doubt[j]
         /\ UNCHANGED <<vars, package, summary, told, errors>>
<1>1. outbox' = [outbox EXCEPT ![j] = "sending"] /\ outbox[j] \in Due
      /\ letter' = [letter EXCEPT ![w] = j] /\ UNCHANGED <<vars, package, summary, told, errors>>
  BY DEF ClaimRow
<1>2. CASE \E v \in Workers : letter[v] = j
  <2>1. hits' = [hits EXCEPT ![j] = hits[j] \cup {"twice"}]
    BY <1>2 DEF ClaimRow, Hit
  <2>2. hits \in [JobId -> Hits]
    BY DEF PipelineTypeOK, Hits
  <2>3. /\ hits' \in [JobId -> Hits] /\ hits[j] \subseteq hits'[j] /\ "twice" \in hits'[j]
        /\ \A i \in JobId \ {j} : hits'[i] = hits[i]
    BY <2>1, <2>2 DEF Hits
  <2>4. doubt' = IF outbox[j] = "stale" THEN [doubt EXCEPT ![j] = doubt[j] + 1] ELSE doubt
    BY DEF ClaimRow, Doubtful
  <2>5. /\ doubt' \in [JobId -> Nat]
        /\ doubt'[j] = IF outbox[j] = "stale" THEN doubt[j] + 1 ELSE doubt[j]
        /\ \A i \in JobId \ {j} : doubt'[i] = doubt[i]
    BY <2>4 DEF PipelineTypeOK
  <2> QED
    BY <1>1, <2>3, <2>5 DEF PipelineTypeOK, RowState
<1>3. CASE ~\E v \in Workers : letter[v] = j
  <2>3. hits' = hits /\ hits \in [JobId -> Hits]
    BY <1>3 DEF ClaimRow, PipelineTypeOK, Hits
  <2>4. doubt' = IF outbox[j] = "stale" THEN [doubt EXCEPT ![j] = doubt[j] + 1] ELSE doubt
    BY DEF ClaimRow, Doubtful
  <2>5. /\ doubt' \in [JobId -> Nat]
        /\ doubt'[j] = IF outbox[j] = "stale" THEN doubt[j] + 1 ELSE doubt[j]
        /\ \A i \in JobId \ {j} : doubt'[i] = doubt[i]
    BY <2>4 DEF PipelineTypeOK
  <2> QED
    BY <1>1, <1>3, <2>3, <2>5 DEF PipelineTypeOK, RowState
<1> QED
  BY <1>2, <1>3

LEMMA ClaimStep ==
  ASSUME ~LeaseMayLapse, IInv, StagesSound, NEW w \in Workers, NEW j \in JobId, ClaimRow(w, j),
         pc' = [pc EXCEPT ![w] = "calling"],
         \/ exec[w] = NoJob
         \/ exec[w] = j /\ pc[w] = "draining"
  PROVE  StagesSound'
<1>0. PipelineTypeOK /\ exec' = exec /\ jobs' = jobs /\ wstate' = wstate
  BY DEF StagesSound, ClaimRow, vars
<1>1. /\ outbox[j] \in Due /\ outbox' \in [JobId -> RowState] /\ outbox'[j] = "sending"
      /\ \A i \in JobId \ {j} : outbox'[i] = outbox[i] /\ hits'[i] = hits[i]
      /\ hits' \in [JobId -> Hits] /\ hits[j] \subseteq hits'[j]
      /\ letter' \in [Workers -> JobId \cup {NoJob}] /\ letter'[w] = j
      /\ \A v \in Workers \ {w} : letter'[v] = letter[v]
      /\ doubt' \in [JobId -> Nat] /\ UNCHANGED <<package, summary, told, errors>>
  BY <1>0, ClaimedRow
<1>2. pc'[w] = "calling" /\ \A v \in Workers \ {w} : pc'[v] = pc[v]
  BY <1>0 DEF PipelineTypeOK
<1>3. PipelineTypeOK'
  <2>1. RowsTypeOK'
    BY <1>0, <1>1 DEF PipelineTypeOK, RowsTypeOK
  <2>2. ASSUME NEW v \in Workers PROVE PlaceOK(v)'
    <3>1. CASE v = w
      BY <1>0, <1>1, <1>2, <3>1, NoJobIsNoId DEF PlaceOK, Stages, Sending
    <3>2. CASE v # w
      BY <1>0, <1>1, <1>2, <3>2, PipelineTypes DEF PlacesOK, PlaceOK
    <3> QED
      BY <3>1, <3>2
  <2>3. pc' \in [Workers -> Stages]
    BY <1>0 DEF PipelineTypeOK, Stages, Sending
  <2> QED
    BY <1>1, <2>1, <2>2, <2>3, PipelineTypesNext DEF PlacesOK
<1>4. RowKept(j)
  BY <1>1 DEF RowKept, Unsent, Due
<1>5. ASSUME NEW v \in Workers PROVE AtSend(v)
  BY <1>1, <1>2 DEF AtSend, AfterSummary
<1> QED
  BY <1>0, <1>1, <1>3, <1>4, <1>5, RowStep

(* The rest of a send: an outcome of the call, then of the row.            *)
Outcome(w) ==
  \/ Accept(w) \/ Reject(w) \/ GiveUp(w) \/ LoseAnswer(w) \/ Complete(w) \/ PutOff(w)
  \/ LoseRecord(w) /\ ~Busy(w)

LEMMA OutcomeRows ==
  ASSUME PipelineTypeOK, NEW w \in Workers, Outcome(w)
  PROVE  /\ pc[w] \in Sending /\ UNCHANGED <<vars, package, summary, hits>>
         /\ RowsTypeOK'
         /\ \A i \in JobId \ {letter[w]} : outbox'[i] = outbox[i]
         /\ outbox'[letter[w]] \in {outbox[letter[w]]} \cup
              (IF outbox[letter[w]] = "none" THEN {}
               ELSE IF Complete(w) THEN {"sent"} ELSE {"waiting"})
         /\ PutOff(w) \/ Complete(w) \/ outbox' = outbox
         /\ \E p \in {"answered", "failed", "draining", "drained", "idle"} :
              /\ Moves(w, p)
              /\ p \in {"draining", "drained"} => Busy(w)
              /\ p = "idle" => ~Busy(w)
<1>0. /\ RowsTypeOK /\ letter \in [Workers -> JobId \cup {NoJob}] /\ (pc[w] \in Sending => letter[w] \in JobId)
      /\ pc[w] \in Sending <=> letter[w] # NoJob
  BY PipelineTypes, LetterRow DEF PipelineTypeOK
<1>1. CASE \/ Accept(w) \/ Reject(w) \/ GiveUp(w) \/ LoseAnswer(w)
  <2>1. /\ pc[w] \in Sending /\ UNCHANGED <<vars, package, summary, outbox, letter, hits>>
        /\ errors' = errors \/ errors' = errors + 1
        /\ told' = told \/ told' = [told EXCEPT ![letter[w]] = told[letter[w]] + 1]
        /\ doubt' = doubt \/ doubt' = [doubt EXCEPT ![letter[w]] = doubt[letter[w]] + 1]
    BY <1>1 DEF Accept, Reject, GiveUp, LoseAnswer, Go, Told, Doubtful, Error, Sending, runVars, sendVars
  <2>2. RowsTypeOK'
    BY <1>0, <2>1 DEF RowsTypeOK
  <2>3. PICK p \in {"answered", "failed"} : pc' = [pc EXCEPT ![w] = p]
    BY <1>1 DEF Accept, Reject, GiveUp, LoseAnswer, Go
  <2>4. Moves(w, p)
    BY <1>0, <2>1, <2>3 DEF Moves, Sending
  <2> QED
    BY <2>1, <2>2, <2>3, <2>4
<1>2. ASSUME NEW state \in {"sent", "waiting"}, Marked(w, state), pc[w] \in Sending,
             UNCHANGED <<vars, package, summary, told, doubt, hits, errors>>
      PROVE  /\ RowsTypeOK' /\ letter' = [letter EXCEPT ![w] = NoJob]
             /\ \A i \in JobId \ {letter[w]} : outbox'[i] = outbox[i]
             /\ outbox'[letter[w]] = IF outbox[letter[w]] = "none" THEN "none" ELSE state
  <2>1. /\ outbox' \in [JobId -> RowState]
        /\ \A i \in JobId \ {letter[w]} : outbox'[i] = outbox[i]
        /\ outbox'[letter[w]] = IF outbox[letter[w]] = "none" THEN "none" ELSE state
    BY <1>0, <1>2 DEF Marked, RowsTypeOK, RowState
  <2> QED
    BY <1>0, <1>2, <2>1 DEF RowsTypeOK, Marked
<1>3. ASSUME NEW p \in {"draining", "drained", "idle"}, pc' = [pc EXCEPT ![w] = p],
             letter' = [letter EXCEPT ![w] = NoJob]
      PROVE  Moves(w, p)
  BY <1>0, <1>3 DEF Moves, Sending
<1>4. CASE Complete(w)
  <2>1. /\ pc[w] \in Sending /\ Marked(w, "sent")
        /\ UNCHANGED <<vars, package, summary, told, doubt, hits, errors>>
        /\ pc' = [pc EXCEPT ![w] = IF Busy(w) THEN "draining" ELSE "idle"]
    BY <1>4 DEF Complete, Go, Sending
  <2>2. \E p \in {"draining", "idle"} :
           Moves(w, p) /\ (p = "draining" => Busy(w)) /\ (p = "idle" => ~Busy(w))
    <3>1. CASE Busy(w)
      BY <1>2, <1>3, <2>1, <3>1
    <3>2. CASE ~Busy(w)
      BY <1>2, <1>3, <2>1, <3>2
    <3> QED
      BY <3>1, <3>2
  <2> QED
    BY <1>2, <1>4, <2>1, <2>2
<1>5. CASE PutOff(w)
  <2>1. /\ pc[w] \in Sending /\ Marked(w, "waiting")
        /\ UNCHANGED <<vars, package, summary, told, doubt, hits, errors>>
        /\ pc' = [pc EXCEPT ![w] = IF Busy(w) THEN "drained" ELSE "idle"] /\ pc[w] = "failed"
    BY <1>5 DEF PutOff, Go, Sending
  <2>2. ~Complete(w)
    BY <2>1 DEF Complete, Go
  <2>3. \E p \in {"drained", "idle"} :
           Moves(w, p) /\ (p = "drained" => Busy(w)) /\ (p = "idle" => ~Busy(w))
    <3>1. CASE Busy(w)
      BY <1>2, <1>3, <2>1, <3>1
    <3>2. CASE ~Busy(w)
      BY <1>2, <1>3, <2>1, <3>2
    <3> QED
      BY <3>1, <3>2
  <2> QED
    BY <1>2, <1>5, <2>1, <2>2, <2>3
<1>6. CASE LoseRecord(w) /\ ~Busy(w)
  <2>1. /\ pc[w] \in Sending /\ letter' = [letter EXCEPT ![w] = NoJob]
        /\ UNCHANGED <<vars, package, summary, outbox, told, doubt, hits>> /\ errors' = errors + 1
        /\ pc' = [pc EXCEPT ![w] = "idle"]
    BY <1>6 DEF LoseRecord, Go, Sending, Error
  <2>2. RowsTypeOK'
    BY <1>0, <2>1 DEF RowsTypeOK
  <2> QED
    BY <1>3, <1>6, <2>1, <2>2
<1> QED
  BY <1>1, <1>4, <1>5, <1>6 DEF Outcome

LEMMA OutcomeStep ==
  ASSUME ~LeaseMayLapse, IInv, StagesSound, SendersSound, NEW w \in Workers, Outcome(w)
  PROVE  StagesSound'
<1> DEFINE j == letter[w]
<1>0. PipelineTypeOK
  BY DEF StagesSound
<1>1. /\ pc[w] \in Sending /\ UNCHANGED <<vars, package, summary, hits>>
      /\ RowsTypeOK'
      /\ \A i \in JobId \ {j} : outbox'[i] = outbox[i]
      /\ outbox'[j] \in {outbox[j]} \cup
           (IF outbox[j] = "none" THEN {} ELSE IF Complete(w) THEN {"sent"} ELSE {"waiting"})
  BY <1>0, OutcomeRows
<1>2. j \in JobId
  BY <1>0, <1>1, LetterRow
<1>3. PICK p \in {"answered", "failed", "draining", "drained", "idle"} :
        /\ Moves(w, p)
        /\ p \in {"draining", "drained"} => Busy(w)
        /\ p = "idle" => ~Busy(w)
  BY <1>0, OutcomeRows
<1>4. exec' = exec /\ jobs' = jobs /\ wstate' = wstate
  BY <1>1 DEF vars
<1>5. PipelineTypeOK'
  <2>1. p \in Stages
    BY DEF Stages, Sending, Open
  <2>2. PlacesOK'
    BY <1>0, <1>3, <1>4, <2>1, PlacesMove DEF Busy, Sending
  <2> QED
    BY <1>1, <2>2, PipelineTypesNext
<1>6. RowKept(j)
  <2>1. "twice" \notin hits[j] => outbox[j] # "sent"
    BY <1>2 DEF SendersSound, Sole
  <2> QED
    BY <1>1, <1>2, <2>1 DEF RowKept, Unsent
<1>7. ASSUME NEW v \in Workers PROVE AtSend(v)
  <2>1. CASE v = w
    <3>1. CASE exec[w] # NoJob
      <4>1. pc[w] \in AfterSummary
        BY <1>1 DEF Sending, AfterSummary
      <4>2. pc'[w] = p /\ p \in AfterSummary /\ letter'[w] \in {letter[w], NoJob}
        BY <1>0, <1>3, <3>1 DEF PipelineTypeOK, Moves, Busy, AfterSummary
      <4>3. letter[w] \in {exec[w], NoJob}
        BY <3>1 DEF StagesSound, StageSound
      <4> QED
        BY <2>1, <4>1, <4>2, <4>3 DEF AtSend
    <3>2. CASE exec[w] = NoJob
      BY <2>1, <3>2 DEF AtSend
    <3> QED
      BY <3>1, <3>2
  <2>2. CASE v # w
    BY <1>0, <1>3, <2>2 DEF AtSend, Moves, PipelineTypeOK
  <2> QED
    BY <2>1, <2>2
<1> HIDE DEF j
<1> QED
  BY <1>1, <1>2, <1>4, <1>5, <1>6, <1>7, RowStep

(* A row becomes due again, or its claim grows old. *)
LEMMA RowAges ==
  ASSUME PipelineTypeOK, NEW j \in JobId, BackoffEnds(j) \/ GoesStale(j)
  PROVE  /\ UNCHANGED <<vars, pc, package, summary, letter, told, doubt, hits>>
         /\ RowsTypeOK'
         /\ \A i \in JobId \ {j} : outbox'[i] = outbox[i]
         /\ <<outbox[j], outbox'[j]>> \in {<<"waiting", "pending">>, <<"sending", "stale">>}
<1>1. /\ UNCHANGED <<vars, pc, package, summary, letter, told, doubt, hits>>
      /\ errors' = errors \/ errors' = errors + 1
  BY DEF BackoffEnds, GoesStale, Error, sendVars
<1>2. /\ outbox' \in [JobId -> RowState]
      /\ \A i \in JobId \ {j} : outbox'[i] = outbox[i]
      /\ <<outbox[j], outbox'[j]>> \in {<<"waiting", "pending">>, <<"sending", "stale">>}
  BY DEF BackoffEnds, GoesStale, PipelineTypeOK, RowState
<1>3. RowsTypeOK
  BY PipelineTypes
<1> QED
  BY <1>1, <1>2, <1>3 DEF RowsTypeOK

LEMMA AgeStep ==
  ASSUME ~LeaseMayLapse, IInv, StagesSound, NEW j \in JobId, BackoffEnds(j) \/ GoesStale(j)
  PROVE  StagesSound'
<1>1. /\ PipelineTypeOK /\ UNCHANGED <<vars, pc, package, summary, letter, hits>>
      /\ RowsTypeOK'
      /\ \A i \in JobId \ {j} : outbox'[i] = outbox[i]
      /\ <<outbox[j], outbox'[j]>> \in {<<"waiting", "pending">>, <<"sending", "stale">>}
  BY RowAges DEF StagesSound
<1>2. PlacesOK' /\ UNCHANGED <<exec, jobs, wstate>>
  BY <1>1, PipelineTypes DEF PlacesOK, PlaceOK, vars
<1>3. RowKept(j) /\ \A v \in Workers : AtSend(v)
  BY <1>1 DEF RowKept, Unsent, AtSend
<1> QED
  BY <1>1, <1>2, <1>3, RowStep, PipelineTypesNext

LEMMA PostNothingStep ==
  ASSUME StagesSound, NEW w \in Workers, PostNothing(w)
  PROVE  StagesSound'
<1>1. /\ UNCHANGED <<vars, runVars>> /\ pc[w] = "free" /\ pc' = [pc EXCEPT ![w] = "idle"]
      /\ letter' = letter /\ PipelineTypeOK
  BY DEF PostNothing, Go, runVars, sendVars, StagesSound
<1>2. exec[w] = NoJob /\ \A v \in Workers : v # w => pc'[v] = pc[v]
  BY <1>1 DEF PipelineTypeOK
<1>3. PipelineTypeOK'
  <2>1. Moves(w, "idle")
    BY <1>1, MovesApart DEF Sending
  <2>2. PlacesOK'
    BY <1>1, <1>2, <2>1, PlacesMove DEF Stages, vars
  <2>3. RowsTypeOK'
    BY <1>1, PipelineTypes DEF RowsTypeOK, runVars, sendVars
  <2> QED
    BY <2>2, <2>3, PipelineTypesNext
<1>4. \A v \in Workers : StageSound(v)'
  BY <1>1, <1>2 DEF StagesSound, StageSound, Stopping, runVars, vars
<1>5. ASSUME NEW i \in JobId PROVE JobSound(i)'
  <2>1. \A s : At(i, s) => At(i, s)'
    BY <1>1, <1>2, NoJobIsNoId DEF At, vars
  <2> QED
    BY <1>1, <2>1, JobKept DEF StagesSound, runVars, vars
<1> QED
  BY <1>3, <1>4, <1>5 DEF StagesSound

LEMMA CrashRows ==
  ASSUME PipelineTypeOK, NEW w \in Workers, CrashWorker(w)
  PROVE  /\ exec' = [exec EXCEPT ![w] = NoJob] /\ Moves(w, "idle")
         /\ UNCHANGED <<jobs, package, summary, outbox, doubt, errors>>
         /\ told' = told \/ (pc[w] = "calling" /\ Told(letter[w]))
         /\ told' \in [JobId -> Nat]
<1>1. /\ exec' = [exec EXCEPT ![w] = NoJob] /\ letter' = [letter EXCEPT ![w] = NoJob]
      /\ UNCHANGED <<jobs, package, summary, outbox, doubt, errors>>
      /\ pc' = [pc EXCEPT ![w] = "idle"]
      /\ told' = told \/ (pc[w] = "calling" /\ Told(letter[w]))
  BY DEF CrashWorker, Crash, Leave
<1>2. Moves(w, "idle")
  BY <1>1 DEF Moves, PipelineTypeOK, Sending
<1>3. told' \in [JobId -> Nat]
  BY <1>1, LetterRow DEF PipelineTypeOK, Told, Sending
<1> QED
  BY <1>1, <1>2, <1>3

LEMMA CrashWorkerStep ==
  ASSUME ~LeaseMayLapse, IInv, StagesSound, NEW w \in Workers, CrashWorker(w)
  PROVE  StagesSound'
<1>0. /\ exec' = [exec EXCEPT ![w] = NoJob] /\ Moves(w, "idle") /\ PipelineTypeOK
      /\ UNCHANGED <<jobs, package, summary, outbox, doubt, errors>> /\ told' \in [JobId -> Nat]
  BY CrashRows DEF StagesSound
<1>1. wstate'[w] = "gone" /\ \A v \in Workers \ {w} : wstate'[v] = wstate[v]
  BY DEF CrashWorker, Crash, IInv, TypeOK
<1>2. CASE exec[w] # NoJob
  <2> PICK j \in JobId : Found(w, j)
    BY <1>2, JobFound
  <2>1. Hit(j, "crash")
    BY <1>2 DEF CrashWorker, Found, Busy
  <2> QED
    BY <1>0, <1>1, <2>1, ThrownOut
<1>3. CASE exec[w] = NoJob
  <2>1. hits' = hits
    BY <1>3 DEF CrashWorker, Busy
  <2>2. exec' = exec
    BY <1>0, <1>3 DEF IInv, TypeOK
  <2>3. RowsTypeOK'
    BY <1>0, <2>1, PipelineTypes DEF RowsTypeOK
  <2>4. PipelineTypeOK'
    BY <1>0, <1>3, <2>2, <2>3, PlacesMove, PipelineTypesNext DEF Stages
  <2>5. ASSUME NEW v \in Workers PROVE AtSend(v)
    BY <1>0, <1>3 DEF AtSend, Moves, PipelineTypeOK
  <2>6. ASSUME NEW v \in Workers, exec[v] # NoJob
        PROVE  StageSound(v)'
    <3>1. v # w /\ pc'[v] = pc[v] /\ letter'[v] = letter[v] /\ exec[v] \in JobId
      BY <1>0, <1>3, <2>6, ExecutedRow DEF Moves, PipelineTypeOK
    <3> QED
      BY <1>0, <1>1, <2>1, <2>2, <2>6, <3>1 DEF StagesSound, StageSound, Stopping
  <2>7. \A v \in Workers : StageSound(v)'
    BY <2>2, <2>6 DEF StageSound
  <2>8. ASSUME NEW i \in JobId PROVE JobSound(i)'
    <3>1. \A s : At(i, s) => At(i, s)'
      BY <1>0, <1>3, <2>2, NoJobIsNoId DEF At, Moves, PipelineTypeOK
    <3> QED
      BY <1>0, <2>1, <3>1, JobKept DEF StagesSound
  <2> QED
    BY <2>4, <2>7, <2>8 DEF StagesSound
<1> QED
  BY <1>2, <1>3

-----------------------------------------------------------------------------
LEMMA StagesInit == PipelineInit => StagesSound
<1> SUFFICES ASSUME PipelineInit PROVE StagesSound
  OBVIOUS
<1>1. \A w \in Workers : exec[w] = NoJob
  BY DEF PipelineInit, Init
<1>2. PipelineTypeOK
  BY <1>1 DEF PipelineInit, PipelineTypeOK, Stages, RunStatus, RowState, Sending
<1>3. \A w \in Workers : StageSound(w)
  BY <1>1 DEF StageSound
<1>4. ASSUME NEW j \in JobId PROVE JobSound(j)
  <2>1. jobs[j].status = "absent" /\ jobs[j].cancelAt = FALSE
    BY DEF PipelineInit, Init
  <2> QED
    BY <2>1 DEF PipelineInit, JobSound, StatusRows, JobRows
<1> QED
  BY <1>2, <1>3, <1>4 DEF StagesSound

LEMMA AdvanceStep ==
  ASSUME ~LeaseMayLapse, IInv, StagesSound, SendersSound, NEW w \in Workers, Advance(w)
  PROVE  StagesSound'
<1>1. exec[w] # NoJob
  BY DEF Advance, Busy
<1>2. CASE PackageStep(w) \/ SummaryStep(w)
  BY <1>1, <1>2, PackageSteps, SummarySteps
<1>3. CASE FinalStep(w) /\ ~DrainNext(w)
  BY <1>1, <1>3, FinalSteps
<1>4. CASE DrainNext(w)
  <2>1. exec[w] \in JobId
    BY <1>1, ExecutedRow
  <2>2. ClaimRow(w, exec[w]) /\ pc' = [pc EXCEPT ![w] = "calling"] /\ pc[w] = "draining"
    BY <1>4 DEF DrainNext, Go
  <2> QED
    BY <2>1, <2>2, ClaimStep
<1>5. CASE SendStep(w)
  BY <1>5, OutcomeStep DEF SendStep, Outcome
<1> QED
  BY <1>2, <1>3, <1>4, <1>5 DEF Advance

LEMMA PostStep ==
  ASSUME ~LeaseMayLapse, IInv, StagesSound, SendersSound, NEW w \in Workers, Post(w)
  PROVE  StagesSound'
<1>1. CASE PostNext(w)
  <2>1. exec[w] = NoJob
    BY DEF Post, Busy
  <2>2. PICK j \in JobId : ClaimRow(w, j)
    BY <1>1 DEF PostNext
  <2>3. pc' = [pc EXCEPT ![w] = "calling"]
    BY <1>1 DEF PostNext, Go
  <2> QED
    BY <2>1, <2>2, <2>3, ClaimStep
<1>2. CASE PostNothing(w)
  BY <1>2, PostNothingStep
<1>3. CASE SendStep(w)
  BY <1>3, OutcomeStep DEF SendStep, Outcome
<1> QED
  BY <1>1, <1>2, <1>3 DEF Post

LEMMA StagesNext ==
  ASSUME ~LeaseMayLapse, IInv, StagesSound, SendersSound, [PipelineNext]_allVars
  PROVE  StagesSound'
<1>1. CASE UNCHANGED allVars
  BY <1>1, Unmoved DEF allVars, vars, runVars, QuietQueue
<1>2. ASSUME NEW c \in Clients, Submit(c) \/ Cancel(c) \/ AskedElsewhere(c) PROVE StagesSound'
  <2>1. CASE AskedElsewhere(c)
    BY <2>1, Unmoved DEF AskedElsewhere, EnqueueCheck, EnqueueRaced, CancelRead, QuietQueue
  <2> QED
    BY <1>2, <2>1, SubmitStep, AskCancelStep
<1>3. ASSUME NEW w \in Workers, TakeJob(w) \/ FindNoJob(w) \/ Post(w) PROVE StagesSound'
  BY <1>3, TakeJobStep, FindNoJobStep, PostStep
<1>4. ASSUME NEW w \in Workers, Advance(w) PROVE StagesSound'
  BY <1>4, AdvanceStep
<1>5. ASSUME NEW w \in Workers, Busy(w),
             ReportPackage(w) \/ ReportSummary(w) \/ Break(w) \/ BreakHandler(w)
      PROVE  StagesSound'
  BY <1>5, ReportSteps, BreakStep, BreakHandlerStep DEF Busy
<1>6. ASSUME NEW w \in Workers, StopWorker(w) \/ CrashWorker(w) PROVE StagesSound'
  BY <1>6, StopWorkerStep, CrashWorkerStep
<1>7. ASSUME NEW w \in Workers, StartOrLeave(w) PROVE StagesSound'
  <2>1. /\ UNCHANGED <<jobs, exec, pc, runVars>>
        /\ \/ wstate' = [wstate EXCEPT ![w] = "up"]
           \/ wstate' = [wstate EXCEPT ![w] = "gone"]
    BY <1>7 DEF StartOrLeave, Start, LeaveLoop
  <2>2. wstate \in [Workers -> {"off", "up", "stopping", "gone"}]
    BY DEF IInv, TypeOK
  <2>3. \A v \in Workers : wstate'[v] = "stopping" => wstate[v] = "stopping"
    BY <2>1, <2>2
  <2> QED
    BY <2>1, <2>3, Unmoved DEF QuietQueue
<1>8. ASSUME NEW j \in JobId, LeaseExpires(j) \/ RetryDue(j), UNCHANGED <<pc, runVars>>
      PROVE  StagesSound'
  <2>1. QuietQueue /\ wstate' = wstate
    BY <1>8, ClockRows DEF QuietQueue, IInv, LeaseExpires, RetryDue
  <2> QED
    BY <1>8, <2>1, Unmoved
<1>9. ASSUME NEW w \in Workers, LoseAnswer(w) \/ LoseRecord(w) PROVE StagesSound'
  BY <1>9, OutcomeStep, BreakStep DEF Outcome, Busy
<1>10. ASSUME NEW j \in JobId, BackoffEnds(j) \/ GoesStale(j) PROVE StagesSound'
  BY <1>10, AgeStep
<1> QED
  BY <1>1, <1>2, <1>3, <1>4, <1>5, <1>6, <1>7, <1>8, <1>9, <1>10 DEF PipelineNext

-----------------------------------------------------------------------------
(* What a step that claims no row leaves of the sends: letters are kept or *)
(* dropped, only a row being sent reaches the chat, and only its only      *)
(* sender marks it.                                                        *)
Gentle ==
  /\ \A w \in Workers : letter'[w] \in {letter[w], NoJob}
  /\ \A i \in JobId :
       /\ told'[i] = told[i] \/ \E w \in Workers : letter[w] = i
       /\ hits[i] \subseteq hits'[i]
       /\ package[i] = "completed" => package'[i] = "completed"
       /\ \/ outbox'[i] = "sent" => outbox[i] = "sent"
          \/ \E w \in Workers : letter[w] = i /\ letter'[w] = NoJob

LEMMA GentleStep ==
  ASSUME SendersSound, Gentle
  PROVE  SendersSound'
<1> SUFFICES ASSUME NEW i \in JobId PROVE Sole(i)' /\ Sent(i)'
  BY DEF SendersSound
<1>1. Sole(i) /\ Sent(i) /\ i # NoJob
  BY NoJobIsNoId DEF SendersSound
<1>2. /\ \A w \in Workers : letter'[w] = i => letter[w] = i
      /\ "twice" \notin hits'[i] => "twice" \notin hits[i]
      /\ package[i] = "completed" => package'[i] = "completed"
      /\ told'[i] = told[i] \/ \E w \in Workers : letter[w] = i
  BY <1>1 DEF Gentle
<1>3. Sent(i)'
  BY <1>1, <1>2 DEF Sent
<1>4. Sole(i)'
  <2> SUFFICES ASSUME "twice" \notin hits'[i]
               PROVE  /\ \A v, w \in Workers : letter'[v] = i /\ letter'[w] = i => v = w
                      /\ outbox'[i] = "sent" => \A w \in Workers : letter'[w] # i
    BY DEF Sole
  <2>1. \A v, w \in Workers : letter[v] = i /\ letter[w] = i => v = w
    BY <1>1, <1>2 DEF Sole
  <2>2. ASSUME outbox'[i] = "sent", NEW w \in Workers, letter'[w] = i PROVE FALSE
    <3>1. letter[w] = i /\ outbox[i] # "sent"
      BY <1>1, <1>2, <2>2 DEF Sole
    <3>2. PICK v \in Workers : letter[v] = i /\ letter'[v] = NoJob
      BY <2>2, <3>1 DEF Gentle
    <3> QED
      BY <1>1, <2>1, <2>2, <3>1, <3>2
  <2> QED
    BY <1>2, <2>1, <2>2
<1> QED
  BY <1>3, <1>4

LEMMA ClaimKeepsSenders ==
  ASSUME StagesSound, SendersSound, NEW w \in Workers, NEW j \in JobId, ClaimRow(w, j)
  PROVE  SendersSound'
<1> SUFFICES ASSUME NEW i \in JobId PROVE Sole(i)' /\ Sent(i)'
  BY DEF SendersSound
<1>1. /\ outbox[j] \in Due /\ outbox'[j] = "sending"
      /\ \A k \in JobId \ {j} : outbox'[k] = outbox[k] /\ hits'[k] = hits[k]
      /\ hits[j] \subseteq hits'[j]
      /\ (\E v \in Workers : letter[v] = j) => "twice" \in hits'[j]
      /\ letter'[w] = j /\ \A v \in Workers \ {w} : letter'[v] = letter[v]
      /\ package' = package /\ told' = told
  BY ClaimedRow DEF StagesSound
<1>2. Sole(i) /\ Sent(i) /\ JobSound(j)
  BY DEF SendersSound, StagesSound
<1>3. package[j] = "completed"
  BY <1>1, <1>2 DEF JobSound, JobRows, Due
<1>4. CASE i = j
  BY <1>1, <1>2, <1>3, <1>4 DEF Sole, Sent
<1>5. CASE i # j
  BY <1>1, <1>2, <1>5 DEF Sole, Sent
<1> QED
  BY <1>4, <1>5

(* A failure adds to what befell the job; so does nothing else. *)
LEMMA HitsGrow ==
  ASSUME RowsTypeOK, NEW j, NEW what, Hit(j, what)
  PROVE  \A i \in JobId : hits[i] \subseteq hits'[i]
BY DEF RowsTypeOK, Hit

(* The stages keep the letters, and complete no package twice. *)
LEMMA StagesAreGentle ==
  ASSUME ~LeaseMayLapse, IInv, StagesSound, NEW w \in Workers, exec[w] # NoJob,
         PackageStep(w) \/ SummaryStep(w) \/ (FinalStep(w) /\ ~DrainNext(w))
  PROVE  Gentle
<1> PICK j \in JobId : Found(w, j)
  BY JobFound
<1>0. RowsTypeOK /\ j = exec[w]
  BY DEF Found
<1>1. \A i \in JobId : hits[i] \subseteq hits'[i]
  <2>1. UNCHANGED hits \/ Fail(w)
    BY DEF PackageStep, PlanPackage, ReusePackage, OpenPackage, EnterPackage, EndPackage,
           SummaryStep, PlanSummary, ReuseSummary, OpenSummary, EnterSummary, PersistBatch,
           ReportQueued, CompleteSummary, BreakSummary, FinalStep, StopJob, NoticeCancel, Retry,
           NoRetry, StartDrain, EndDrain, LastCheck, DiscardUnsent, Mark, runVars
  <2> QED
    BY <1>0, <2>1, HitsGrow DEF Fail
<1>2. letter' = letter /\ told' = told
  BY DEF PackageStep, PlanPackage, ReusePackage, OpenPackage, EnterPackage, EndPackage,
         SummaryStep, PlanSummary, ReuseSummary, OpenSummary, EnterSummary, PersistBatch,
         ReportQueued, CompleteSummary, BreakSummary, FinalStep, StopJob, NoticeCancel, Retry,
         NoRetry, StartDrain, EndDrain, LastCheck, DiscardUnsent, Mark, runVars, sendVars
<1>3. ASSUME NEW i \in JobId, package[i] = "completed" PROVE package'[i] = "completed"
  <2>1. CASE package' = package
    BY <1>3, <2>1
  <2>2. CASE OpenPackage(w) \/ \E s \in RunStatus : EndPackage(w, s)
    <3>1. \A k \in JobId \ {j} : package'[k] = package[k]
      BY <1>0, <2>2 DEF OpenPackage, EndPackage, RowsTypeOK
    <3>2. package[j] # "completed"
      BY <2>2 DEF OpenPackage, EndPackage, Go, Found, StageRows
    <3> QED
      BY <1>3, <3>1, <3>2
  <2>3. package' = package \/ OpenPackage(w) \/ \E s \in RunStatus : EndPackage(w, s)
    BY DEF PackageStep, PlanPackage, ReusePackage, EnterPackage,
           SummaryStep, PlanSummary, ReuseSummary, OpenSummary, EnterSummary, PersistBatch,
           ReportQueued, CompleteSummary, BreakSummary, FinalStep, StopJob, NoticeCancel, Retry,
           NoRetry, StartDrain, EndDrain, LastCheck, DiscardUnsent, Mark, runVars
  <2> QED
    BY <2>1, <2>2, <2>3
<1>4. ASSUME NEW i \in JobId, outbox'[i] = "sent" PROVE outbox[i] = "sent"
  <2>1. CASE outbox' = outbox
    BY <1>4, <2>1
  <2>2. CASE PersistBatch(w)
    BY <1>0, <1>4, <2>1, <2>2, PersistRows DEF PersistBatch
  <2>3. CASE DiscardUnsent(w)
    BY <1>0, <1>4, <2>3, DiscardRows DEF DiscardUnsent
  <2>4. outbox' = outbox \/ PersistBatch(w) \/ DiscardUnsent(w)
    BY DEF PackageStep, PlanPackage, ReusePackage, OpenPackage, EnterPackage, EndPackage,
           SummaryStep, PlanSummary, ReuseSummary, OpenSummary, EnterSummary,
           ReportQueued, CompleteSummary, BreakSummary, FinalStep, StopJob, NoticeCancel, Retry,
           NoRetry, StartDrain, EndDrain, LastCheck, Mark, runVars
  <2> QED
    BY <2>1, <2>2, <2>3, <2>4
<1> QED
  BY <1>1, <1>2, <1>3, <1>4 DEF Gentle

(* So do the outcomes of a send, where only the sender counts its row.     *)
LEMMA OutcomesAreGentle ==
  ASSUME PipelineTypeOK, NEW w \in Workers, Outcome(w) \/ LoseRecord(w)
  PROVE  Gentle
<1>0. RowsTypeOK /\ letter \in [Workers -> JobId \cup {NoJob}]
  BY PipelineTypes DEF PipelineTypeOK
<1>1. CASE Outcome(w)
  <2> DEFINE j == letter[w]
  <2>1. /\ pc[w] \in Sending /\ UNCHANGED <<package, hits>>
        /\ \A i \in JobId \ {j} : outbox'[i] = outbox[i]
        /\ PutOff(w) \/ Complete(w) \/ outbox' = outbox
    BY <1>1, OutcomeRows
  <2>2. \A v \in Workers : letter'[v] \in {letter[v], NoJob}
    <3>1. PICK p : Moves(w, p)
      BY <1>1, OutcomeRows
    <3> QED
      BY <1>0, <3>1 DEF Moves
  <2>3. ASSUME NEW i \in JobId PROVE told'[i] = told[i] \/ \E v \in Workers : letter[v] = i
    <3>1. told' = told \/ Told(j)
      BY <1>1 DEF Outcome, Accept, Reject, GiveUp, LoseAnswer, Complete, PutOff, LoseRecord, runVars, sendVars
    <3>2. CASE Told(j)
      BY <1>0, <3>2 DEF Told, RowsTypeOK
    <3> QED
      BY <3>1, <3>2
  <2>4. ASSUME NEW i \in JobId
        PROVE  \/ outbox'[i] = "sent" => outbox[i] = "sent"
               \/ \E v \in Workers : letter[v] = i /\ letter'[v] = NoJob
    <3>1. CASE outbox' = outbox \/ i # j
      BY <2>1, <3>1
    <3>2. CASE (PutOff(w) \/ Complete(w)) /\ i = j
      BY <1>0, <3>2 DEF PutOff, Complete, Marked
    <3> QED
      BY <2>1, <3>1, <3>2
  <2> QED
    BY <2>1, <2>2, <2>3, <2>4 DEF Gentle
<1>2. CASE LoseRecord(w)
  <2>1. /\ UNCHANGED <<package, outbox, told>> /\ letter' = [letter EXCEPT ![w] = NoJob]
        /\ hits' = hits \/ Hit(exec[w], "error")
    BY <1>2 DEF LoseRecord
  <2>2. \A i \in JobId : hits[i] \subseteq hits'[i]
    BY <1>0, <2>1, HitsGrow
  <2> QED
    BY <1>0, <2>1, <2>2 DEF Gentle
<1> QED
  BY <1>1, <1>2

LEMMA SendersNext ==
  ASSUME ~LeaseMayLapse, IInv, StagesSound, SendersSound, [PipelineNext]_allVars
  PROVE  SendersSound'
<1>0. PipelineTypeOK /\ RowsTypeOK
  BY PipelineTypes DEF StagesSound
<1>1. ASSUME UNCHANGED <<letter, told, package, outbox>>, \A i \in JobId : hits[i] \subseteq hits'[i]
      PROVE  SendersSound'
  BY <1>1, GentleStep DEF Gentle
<1>2. CASE UNCHANGED allVars
  BY <1>1, <1>2 DEF allVars, runVars, sendVars
<1>3. ASSUME NEW c \in Clients, Submit(c) PROVE SendersSound'
  <2>1. UNCHANGED <<letter, told, outbox>>
    BY <1>3 DEF Submit, sendVars
  <2>2. PICK j \in JobId, s \in RunStatus :
          /\ jobs[j].status = "absent" /\ package' = [package EXCEPT ![j] = s]
          /\ hits' = hits \/ Hit(j, "input")
    BY <1>3 DEF Submit
  <2>3. package[j] = "absent"
    BY <2>2 DEF StagesSound, JobSound, StatusRows
  <2>4. \A i \in JobId : package[i] = "completed" => package'[i] = "completed"
    BY <1>0, <2>2, <2>3 DEF RowsTypeOK
  <2>5. \A i \in JobId : hits[i] \subseteq hits'[i]
    BY <1>0, <2>2, HitsGrow
  <2> QED
    BY <2>1, <2>4, <2>5, GentleStep DEF Gentle
<1>4. ASSUME NEW c \in Clients, Cancel(c) PROVE SendersSound'
  <2>1. UNCHANGED <<letter, told, package, hits>>
    BY <1>4 DEF Cancel
  <2>2. \A i \in JobId : outbox'[i] = "sent" => outbox[i] = "sent"
    BY <1>0, <1>4, AskedRows, DiscardRows DEF IInv
  <2> QED
    BY <2>1, <2>2, GentleStep DEF Gentle
<1>5. ASSUME NEW w \in Workers, Post(w) \/ Advance(w) \/ LoseAnswer(w) \/ LoseRecord(w)
      PROVE  SendersSound'
  <2>1. CASE \E j \in JobId : ClaimRow(w, j)
    BY <2>1, ClaimKeepsSenders
  <2>2. CASE Outcome(w) \/ LoseRecord(w)
    BY <1>0, <2>2, OutcomesAreGentle, GentleStep
  <2>3. CASE exec[w] # NoJob /\ (PackageStep(w) \/ SummaryStep(w) \/ (FinalStep(w) /\ ~DrainNext(w)))
    BY <2>3, StagesAreGentle, GentleStep
  <2>4. CASE PostNothing(w)
    BY <1>1, <2>4 DEF PostNothing, runVars, sendVars
  <2>5. CASE DrainNext(w) /\ exec[w] # NoJob
    BY <2>1, <2>5, ExecutedRow DEF DrainNext
  <2> QED
    BY <1>5, <2>1, <2>2, <2>3, <2>4, <2>5 DEF Post, PostNext, Advance, Busy, SendStep, Outcome
<1>6. ASSUME NEW w \in Workers, CrashWorker(w) PROVE SendersSound'
  <2>1. /\ Moves(w, "idle") /\ UNCHANGED <<package, outbox>>
        /\ told' = told \/ (pc[w] = "calling" /\ Told(letter[w]))
    BY <1>0, <1>6, CrashRows
  <2>2. \A v \in Workers : letter'[v] \in {letter[v], NoJob}
    BY <1>0, <2>1 DEF Moves, PipelineTypeOK
  <2>3. ASSUME NEW i \in JobId PROVE told'[i] = told[i] \/ \E v \in Workers : letter[v] = i
    BY <1>0, <2>1 DEF Told, RowsTypeOK
  <2>4. \A i \in JobId : hits[i] \subseteq hits'[i]
    BY <1>0, <1>6, HitsGrow DEF CrashWorker
  <2> QED
    BY <2>1, <2>2, <2>3, <2>4, GentleStep DEF Gentle
<1>7. ASSUME NEW w \in Workers,
             \/ TakeJob(w) \/ FindNoJob(w) \/ ReportPackage(w) \/ ReportSummary(w)
             \/ Break(w) \/ BreakHandler(w) \/ StopWorker(w) \/ StartOrLeave(w)
      PROVE  SendersSound'
  <2>1. /\ UNCHANGED <<letter, told, package, outbox>>
        /\ hits' = hits \/ Hit(exec[w], "error") \/ Hit(exec[w], "stop")
    BY <1>7 DEF TakeJob, FindNoJob, ReportPackage, ReportSummary, Break, BreakHandler, StopWorker,
                StartOrLeave, Fail, runVars, sendVars
  <2> QED
    BY <1>0, <1>1, <2>1, HitsGrow
<1>8. ASSUME NEW j \in JobId, BackoffEnds(j) \/ GoesStale(j) PROVE SendersSound'
  <2>1. /\ UNCHANGED <<package, letter, told, hits>>
        /\ \A i \in JobId : outbox'[i] = "sent" => outbox[i] = "sent"
    BY <1>0, <1>8, RowAges
  <2> QED
    BY <2>1, GentleStep DEF Gentle
<1>9. ASSUME UNCHANGED runVars PROVE SendersSound'
  BY <1>1, <1>9 DEF runVars, sendVars
<1> QED
  BY <1>2, <1>3, <1>4, <1>5, <1>6, <1>7, <1>8, <1>9 DEF PipelineNext, AskedElsewhere

(* While leases outlive executions, the rows of a job are what the stage   *)
(* of its execution, or its status, says they are, and so are its sends.   *)
LEMMA StagesHold ==
  ASSUME ~LeaseMayLapse
  PROVE  PipelineSpec => [](StagesSound /\ SendersSound)
<1>1. IInv /\ StagesSound /\ SendersSound /\ [PipelineNext]_allVars => StagesSound' /\ SendersSound'
  BY StagesNext, SendersNext
<1>2. PipelineSpec => []IInv
  BY PipelineIsQueue, Inductive, PTL
<1>3. PipelineInit => StagesSound /\ SendersSound
  <2>1. PipelineInit => SendersSound
    BY NoJobIsNoId DEF PipelineInit, SendersSound, Sole, Sent
  <2> QED
    BY <2>1, StagesInit
<1> QED
  BY <1>1, <1>2, <1>3, PTL DEF PipelineSpec

-----------------------------------------------------------------------------
(* The budget of copies.  A row that was never handed to Telegram, or was  *)
(* handed back, owes the chat one copy; so does a sender that has not been *)
(* answered or was refused.  What is owed and what was told exceed one     *)
(* only by the attempts given up without a recorded outcome.               *)
Carrying == {"calling", "failed"}
Unspent == {"none", "pending", "waiting"}

Carriers(j) == {w \in Workers : letter[w] = j /\ pc[w] \in Carrying}
Owed(j) == IF outbox[j] \in Unspent THEN 1 ELSE 0
Budget(j) == told[j] + Cardinality(Carriers(j)) + Owed(j) <= 1 + doubt[j]

LEMMA CountWorkers ==
  ASSUME NEW S \in SUBSET Workers, NEW T \in SUBSET Workers, NEW w \in Workers
  PROVE  /\ Cardinality(S) \in Nat
         /\ S \subseteq T => Cardinality(S) <= Cardinality(T)
         /\ S \subseteq T \cup {w} => Cardinality(S) <= Cardinality(T) + 1
         /\ S \subseteq T \ {w} /\ w \in T => Cardinality(S) <= Cardinality(T) - 1
<1>1. /\ IsFiniteSet(S) /\ IsFiniteSet(T) /\ IsFiniteSet(T \cup {w}) /\ IsFiniteSet(T \ {w})
      /\ Cardinality(S) \in Nat /\ Cardinality(T) \in Nat
  BY WorkerAssumption, FS_Subset, FS_CardinalityType, FS_AddElement, FS_RemoveElement
<1>2. Cardinality(T \cup {w}) <= Cardinality(T) + 1
  <2>1. Cardinality(T \cup {w}) = IF w \in T THEN Cardinality(T) ELSE Cardinality(T) + 1
    BY <1>1, FS_AddElement
  <2> QED
    BY <1>1, <2>1
<1>3. w \in T => Cardinality(T \ {w}) = Cardinality(T) - 1
  BY <1>1, FS_RemoveElement
<1>4. S \subseteq T => Cardinality(S) <= Cardinality(T)
  BY <1>1, FS_Subset
<1>5. S \subseteq T \cup {w} => Cardinality(S) <= Cardinality(T \cup {w})
  BY <1>1, FS_Subset
<1>6. S \subseteq T \ {w} => Cardinality(S) <= Cardinality(T \ {w})
  BY <1>1, FS_Subset
<1>7. Cardinality(T \cup {w}) \in Nat /\ Cardinality(T \ {w}) \in Nat
  BY <1>1, FS_CardinalityType
<1>8. S \subseteq T \cup {w} => Cardinality(S) <= Cardinality(T) + 1
  BY <1>1, <1>2, <1>5, <1>7
<1> QED
  BY <1>1, <1>3, <1>4, <1>6, <1>8

(* A step balances when it tells and owes no more than it doubts. *)
LEMMA Balance ==
  ASSUME PipelineTypeOK, PipelineTypeOK', NEW j \in JobId, Budget(j), NEW d \in Int,
         Cardinality(Carriers(j)') <= Cardinality(Carriers(j)) + d,
         told'[j] + d + Owed(j)' - doubt'[j] <= told[j] + Owed(j) - doubt[j]
  PROVE  Budget(j)'
<1>1. /\ told[j] \in Nat /\ told'[j] \in Nat /\ doubt[j] \in Nat /\ doubt'[j] \in Nat
      /\ Owed(j) \in Nat /\ Owed(j)' \in Nat
  BY DEF PipelineTypeOK, Owed
<1>2. ASSUME NEW w \in Workers PROVE Cardinality(Carriers(j)) \in Nat /\ Cardinality(Carriers(j)') \in Nat
  BY CountWorkers DEF Carriers
<1>3. CASE Workers = {}
  <2>1. Carriers(j) = {} /\ Carriers(j)' = {}
    BY <1>3 DEF Carriers
  <2>2. Cardinality({}) = 0
    BY FS_EmptySet
  <2> QED
    BY <1>1, <2>1, <2>2 DEF Budget
<1>4. CASE Workers # {}
  <2>1. Cardinality(Carriers(j)) \in Nat /\ Cardinality(Carriers(j)') \in Nat
    BY <1>2, <1>4
  <2> QED
    BY <1>1, <2>1 DEF Budget
<1> QED
  BY <1>3, <1>4

LEMMA Light ==
  ASSUME PipelineTypeOK, PipelineTypeOK', NEW j \in JobId, Budget(j),
         \A v \in Workers : letter'[v] = j /\ pc'[v] \in Carrying => letter[v] = j /\ pc[v] \in Carrying,
         told'[j] = told[j], doubt'[j] = doubt[j],
         outbox'[j] \in Unspent => outbox[j] \in Unspent
  PROVE  Budget(j)'
<1>1. Carriers(j)' \subseteq Carriers(j)
  BY DEF Carriers
<1>2. Cardinality(Carriers(j)') <= Cardinality(Carriers(j)) + 0
  <2>1. IsFiniteSet(Carriers(j)) /\ IsFiniteSet(Carriers(j)')
    BY <1>1, WorkerAssumption, FS_Subset DEF Carriers
  <2>2. Cardinality(Carriers(j)) \in Nat /\ Cardinality(Carriers(j)') <= Cardinality(Carriers(j))
    BY <1>1, <2>1, FS_Subset, FS_CardinalityType
  <2>3. Cardinality(Carriers(j)') \in Nat
    BY <2>1, FS_CardinalityType
  <2> QED
    BY <2>2, <2>3
<1>3. told'[j] + 0 + Owed(j)' - doubt'[j] <= told[j] + Owed(j) - doubt[j]
  BY DEF Owed, PipelineTypeOK
<1> QED
  BY <1>2, <1>3, Balance

LEMMA DiscardBalance ==
  ASSUME PipelineTypeOK, PipelineTypeOK', NEW j \in JobId, NEW k \in JobId, Budget(j), Discard(k),
         told' = told, letter' = letter,
         \A v \in Workers : pc'[v] \in Carrying => pc[v] \in Carrying
  PROVE  Budget(j)'
<1>1. /\ doubt \in [JobId -> Nat] /\ outbox \in [JobId -> RowState]
      /\ told[j] \in Nat /\ doubt[j] \in Nat
  BY DEF PipelineTypeOK
<1>2. CASE j = k /\ outbox[j] \in InFlight
  <2>1. doubt'[j] = doubt[j] + 1 /\ outbox'[j] = "none"
    BY <1>1, <1>2 DEF Discard, Doubtful, InFlight
  <2>2. Owed(j) = 0 /\ Owed(j)' = 1
    BY <1>2, <2>1 DEF Owed, Unspent, InFlight
  <2>3. Carriers(j)' \subseteq Carriers(j)
    BY DEF Carriers
  <2>4. Cardinality(Carriers(j)') <= Cardinality(Carriers(j)) + 0
    <3>1. IsFiniteSet(Carriers(j)) /\ IsFiniteSet(Carriers(j)')
      BY WorkerAssumption, FS_Subset DEF Carriers
    <3>2. Cardinality(Carriers(j)) \in Nat /\ Cardinality(Carriers(j)') <= Cardinality(Carriers(j))
      BY <2>3, <3>1, FS_Subset, FS_CardinalityType
    <3> QED
      BY <3>1, <3>2, FS_CardinalityType
  <2>5. told'[j] + 0 + Owed(j)' - doubt'[j] <= told[j] + Owed(j) - doubt[j]
    BY <1>1, <2>1, <2>2
  <2> QED
    BY <2>4, <2>5, Balance
<1>3. CASE j # k \/ outbox[j] \notin InFlight
  <2>1. doubt'[j] = doubt[j]
    BY <1>1, <1>3 DEF Discard, Doubtful
  <2>2. outbox'[j] \in Unspent => outbox[j] \in Unspent
    BY <1>1, <1>3 DEF Discard, InFlight, Unspent, RowState
  <2> QED
    BY <2>1, <2>2, Light
<1> QED
  BY <1>2, <1>3

LEMMA ClaimBalance ==
  ASSUME PipelineTypeOK, PipelineTypeOK', NEW j \in JobId, NEW k \in JobId, Budget(j),
         NEW w \in Workers, ClaimRow(w, k), pc' = [pc EXCEPT ![w] = "calling"]
  PROVE  Budget(j)'
<1>1. /\ outbox[k] \in Due /\ outbox'[k] = "sending"
      /\ \A i \in JobId \ {k} : outbox'[i] = outbox[i] /\ doubt'[i] = doubt[i]
      /\ letter'[w] = k /\ \A v \in Workers \ {w} : letter'[v] = letter[v]
      /\ doubt'[k] = IF outbox[k] = "stale" THEN doubt[k] + 1 ELSE doubt[k]
      /\ told' = told
  BY ClaimedRow
<1>2. \A v \in Workers \ {w} : pc'[v] = pc[v]
  BY DEF PipelineTypeOK
<1>3. CASE j = k
  <2>1. Carriers(j)' \subseteq Carriers(j) \cup {w}
    BY <1>1, <1>2 DEF Carriers
  <2>2. Cardinality(Carriers(j)') <= Cardinality(Carriers(j)) + 1
    BY <2>1, CountWorkers DEF Carriers
  <2>3. told'[j] + 1 + Owed(j)' - doubt'[j] <= told[j] + Owed(j) - doubt[j]
    <3>1. told[j] \in Nat /\ doubt[j] \in Nat /\ told'[j] = told[j] /\ Owed(j)' = 0
      BY <1>1, <1>3 DEF PipelineTypeOK, Owed, Unspent
    <3>2. CASE outbox[j] = "stale"
      <4>1. Owed(j) = 0 /\ doubt'[j] = doubt[j] + 1
        BY <1>1, <1>3, <3>2 DEF Owed, Unspent
      <4> QED
        BY <3>1, <4>1
    <3>3. CASE outbox[j] = "pending"
      <4>1. Owed(j) = 1 /\ doubt'[j] = doubt[j]
        BY <1>1, <1>3, <3>3 DEF Owed, Unspent
      <4> QED
        BY <3>1, <4>1
    <3> QED
      BY <1>1, <1>3, <3>2, <3>3 DEF Due
  <2> QED
    BY <2>2, <2>3, Balance
<1>4. CASE j # k
  BY <1>1, <1>2, <1>4, Light
<1> QED
  BY <1>3, <1>4

(* Acceptance spends what the sender owed; giving up is doubted. *)
LEMMA OutcomeBalance ==
  ASSUME PipelineTypeOK, PipelineTypeOK', NEW j \in JobId, Budget(j),
         NEW w \in Workers, Outcome(w) \/ LoseRecord(w)
  PROVE  Budget(j)'
<1> DEFINE i == letter[w]
<1>0. /\ told \in [JobId -> Nat] /\ doubt \in [JobId -> Nat]
      /\ letter \in [Workers -> JobId \cup {NoJob}] /\ pc \in [Workers -> Stages]
      /\ told[j] \in Nat /\ doubt[j] \in Nat /\ outbox \in [JobId -> RowState]
      /\ Owed(j) \in {0, 1} /\ Owed(j)' \in {0, 1}
  BY DEF PipelineTypeOK, Owed
<1>1. CASE Accept(w)
  <2>1. /\ pc[w] = "calling" /\ pc' = [pc EXCEPT ![w] = "answered"] /\ UNCHANGED <<outbox, letter, doubt>>
        /\ told' = [told EXCEPT ![i] = told[i] + 1]
    BY <1>1 DEF Accept, Go, Told
  <2>2. CASE i = j
    <3>1. w \in Carriers(j) /\ Carriers(j)' \subseteq Carriers(j) \ {w}
      BY <1>0, <2>1, <2>2 DEF Carriers, Carrying
    <3>2. Cardinality(Carriers(j)') <= Cardinality(Carriers(j)) + (-1)
      <4>1. Cardinality(Carriers(j)') <= Cardinality(Carriers(j)) - 1
        BY <3>1, CountWorkers DEF Carriers
      <4>2. Cardinality(Carriers(j)') \in Nat /\ Cardinality(Carriers(j)) \in Nat
        BY CountWorkers DEF Carriers
      <4> QED
        BY <4>1, <4>2
    <3>3. told'[j] + (-1) + Owed(j)' - doubt'[j] <= told[j] + Owed(j) - doubt[j]
      BY <1>0, <2>1, <2>2 DEF Owed
    <3> QED
      BY <3>2, <3>3, Balance
  <2>3. CASE i # j
    BY <1>0, <2>1, <2>3, Light DEF Carrying
  <2> QED
    BY <2>2, <2>3
<1>2. CASE GiveUp(w) \/ LoseAnswer(w)
  <2>1. /\ pc[w] \in {"calling", "answered"} /\ pc' = [pc EXCEPT ![w] = "failed"]
        /\ UNCHANGED <<outbox, letter>>
        /\ doubt' = [doubt EXCEPT ![i] = doubt[i] + 1]
        /\ told' = told \/ (pc[w] = "calling" /\ told' = [told EXCEPT ![i] = told[i] + 1])
    BY <1>2 DEF GiveUp, LoseAnswer, Go, Told, Doubtful
  <2>2. CASE i = j /\ pc[w] = "calling"
    <3>1. Carriers(j)' \subseteq Carriers(j)
      BY <1>0, <2>1, <2>2 DEF Carriers, Carrying
    <3>2. Cardinality(Carriers(j)') <= Cardinality(Carriers(j)) + 0
      <4>1. Cardinality(Carriers(j)') <= Cardinality(Carriers(j))
        BY <3>1, CountWorkers DEF Carriers
      <4>2. Cardinality(Carriers(j)') \in Nat /\ Cardinality(Carriers(j)) \in Nat
        BY CountWorkers DEF Carriers
      <4> QED
        BY <4>1, <4>2
    <3>3. told'[j] + 0 + Owed(j)' - doubt'[j] <= told[j] + Owed(j) - doubt[j]
      <4>1. told'[j] \in {told[j], told[j] + 1} /\ doubt'[j] = doubt[j] + 1 /\ Owed(j)' = Owed(j)
        BY <1>0, <2>1, <2>2 DEF Owed
      <4> QED
        BY <1>0, <4>1
    <3> QED
      BY <3>2, <3>3, Balance
  <2>3. CASE i = j /\ pc[w] = "answered"
    <3>1. Carriers(j)' \subseteq Carriers(j) \cup {w}
      BY <1>0, <2>1, <2>3 DEF Carriers, Carrying
    <3>2. Cardinality(Carriers(j)') <= Cardinality(Carriers(j)) + 1
      BY <3>1, CountWorkers DEF Carriers
    <3>3. told'[j] + 1 + Owed(j)' - doubt'[j] <= told[j] + Owed(j) - doubt[j]
      <4>1. told'[j] = told[j] /\ doubt'[j] = doubt[j] + 1 /\ Owed(j)' = Owed(j)
        BY <1>0, <2>1, <2>3 DEF Owed
      <4> QED
        BY <1>0, <4>1
    <3> QED
      BY <3>2, <3>3, Balance
  <2>4. CASE i # j
    <3>1. told'[j] = told[j] /\ doubt'[j] = doubt[j] /\ outbox' = outbox
      BY <1>0, <2>1, <2>4
    <3>2. \A v \in Workers : letter'[v] = j /\ pc'[v] \in Carrying => letter[v] = j /\ pc[v] \in Carrying
      BY <1>0, <2>1, <2>4
    <3> QED
      BY <3>1, <3>2, Light
  <2> QED
    BY <2>1, <2>2, <2>3, <2>4
<1>3. CASE Reject(w)
  <2>1. /\ pc[w] = "calling" /\ pc' = [pc EXCEPT ![w] = "failed"]
        /\ UNCHANGED <<outbox, letter, told, doubt>>
    BY <1>3 DEF Reject, Go, runVars, sendVars
  <2> QED
    BY <1>0, <2>1, Light DEF Carrying
<1>4. CASE Complete(w)
  <2>1. /\ UNCHANGED <<told, doubt>> /\ letter' = [letter EXCEPT ![w] = NoJob]
        /\ pc' = [pc EXCEPT ![w] = IF Busy(w) THEN "draining" ELSE "idle"]
        /\ outbox' = outbox \/ outbox' = [outbox EXCEPT ![i] = "sent"]
    BY <1>4 DEF Complete, Marked, Go
  <2>2. outbox'[j] \in Unspent => outbox[j] \in Unspent
    BY <1>0, <2>1 DEF Unspent
  <2>3. \A v \in Workers : letter'[v] = j /\ pc'[v] \in Carrying => letter[v] = j /\ pc[v] \in Carrying
    BY <1>0, <2>1, NoJobIsNoId
  <2> QED
    BY <2>1, <2>2, <2>3, Light
<1>5. CASE LoseRecord(w)
  <2>1. /\ UNCHANGED <<told, doubt, outbox>> /\ letter' = [letter EXCEPT ![w] = NoJob]
        /\ pc' = [pc EXCEPT ![w] = IF Busy(w) THEN "failing" ELSE "idle"]
    BY <1>5 DEF LoseRecord, Go
  <2>3. \A v \in Workers : letter'[v] = j /\ pc'[v] \in Carrying => letter[v] = j /\ pc[v] \in Carrying
    BY <1>0, <2>1, NoJobIsNoId
  <2> QED
    BY <2>1, <2>3, Light
<1>6. CASE PutOff(w)
  <2>1. /\ pc[w] = "failed" /\ UNCHANGED <<told, doubt>> /\ letter' = [letter EXCEPT ![w] = NoJob]
        /\ pc' = [pc EXCEPT ![w] = IF Busy(w) THEN "drained" ELSE "idle"]
        /\ outbox' = outbox \/ outbox' = [outbox EXCEPT ![i] = "waiting"]
    BY <1>6 DEF PutOff, Marked, Go
  <2>2. CASE i = j
    <3>1. w \in Carriers(j) /\ Carriers(j)' \subseteq Carriers(j) \ {w}
      BY <1>0, <2>1, <2>2, NoJobIsNoId DEF Carriers, Carrying
    <3>2. Cardinality(Carriers(j)') <= Cardinality(Carriers(j)) + (-1)
      <4>1. Cardinality(Carriers(j)') <= Cardinality(Carriers(j)) - 1
        BY <3>1, CountWorkers DEF Carriers
      <4>2. Cardinality(Carriers(j)') \in Nat /\ Cardinality(Carriers(j)) \in Nat
        BY CountWorkers DEF Carriers
      <4> QED
        BY <4>1, <4>2
    <3>3. told'[j] + (-1) + Owed(j)' - doubt'[j] <= told[j] + Owed(j) - doubt[j]
      <4>1. told'[j] = told[j] /\ doubt'[j] = doubt[j]
        BY <2>1
      <4> QED
        BY <1>0, <4>1
    <3> QED
      BY <3>2, <3>3, Balance
  <2>3. CASE i # j
    <3>1. outbox'[j] = outbox[j]
      BY <1>0, <2>1, <2>3
    <3>2. \A v \in Workers : letter'[v] = j /\ pc'[v] \in Carrying => letter[v] = j /\ pc[v] \in Carrying
      BY <1>0, <2>1, <2>3, NoJobIsNoId
    <3> QED
      BY <2>1, <3>1, <3>2, Light
  <2> QED
    BY <2>2, <2>3
<1> QED
  BY <1>1, <1>2, <1>3, <1>4, <1>5, <1>6 DEF Outcome

LEMMA CrashBalance ==
  ASSUME PipelineTypeOK, PipelineTypeOK', NEW j \in JobId, Budget(j),
         NEW w \in Workers, CrashWorker(w)
  PROVE  Budget(j)'
<1> DEFINE i == letter[w]
<1>0. /\ told \in [JobId -> Nat] /\ letter \in [Workers -> JobId \cup {NoJob}] /\ pc \in [Workers -> Stages]
      /\ told[j] \in Nat /\ doubt[j] \in Nat /\ Owed(j) \in {0, 1}
  BY DEF PipelineTypeOK, Owed
<1>1. /\ UNCHANGED <<doubt, outbox>> /\ letter' = [letter EXCEPT ![w] = NoJob]
      /\ pc' = [pc EXCEPT ![w] = "idle"]
      /\ told' = told \/ (pc[w] = "calling" /\ told' = [told EXCEPT ![i] = told[i] + 1])
  BY DEF CrashWorker, Leave, Told
<1>2. CASE told'[j] = told[j]
  <2>1. \A v \in Workers : letter'[v] = j /\ pc'[v] \in Carrying => letter[v] = j /\ pc[v] \in Carrying
    BY <1>0, <1>1, NoJobIsNoId
  <2> QED
    BY <1>1, <1>2, <2>1, Light
<1>3. CASE told'[j] # told[j]
  <2>1. pc[w] = "calling" /\ i = j /\ told'[j] = told[j] + 1
    BY <1>0, <1>1, <1>3
  <2>2. w \in Carriers(j) /\ Carriers(j)' \subseteq Carriers(j) \ {w}
    BY <1>0, <1>1, <2>1, NoJobIsNoId DEF Carriers, Carrying
  <2>3. Cardinality(Carriers(j)') <= Cardinality(Carriers(j)) + (-1)
    <3>1. Cardinality(Carriers(j)') <= Cardinality(Carriers(j)) - 1
      BY <2>2, CountWorkers DEF Carriers
    <3>2. Cardinality(Carriers(j)') \in Nat /\ Cardinality(Carriers(j)) \in Nat
      BY CountWorkers DEF Carriers
    <3> QED
      BY <3>1, <3>2
  <2>4. told'[j] + (-1) + Owed(j)' - doubt'[j] <= told[j] + Owed(j) - doubt[j]
    BY <1>0, <1>1, <2>1 DEF Owed
  <2> QED
    BY <2>3, <2>4, Balance
<1> QED
  BY <1>2, <1>3

LEMMA StageBalance ==
  ASSUME IInv, PipelineTypeOK, PipelineTypeOK', NEW j \in JobId, Budget(j), NEW w \in Workers, exec[w] # NoJob,
         PackageStep(w) \/ SummaryStep(w) \/ (FinalStep(w) /\ ~DrainNext(w))
  PROVE  Budget(j)'
<1>0. pc \in [Workers -> Stages] /\ exec[w] \in JobId /\ RowsTypeOK
  BY PipelineTypes DEF PipelineTypeOK, IInv, TypeOK
<1>1. letter' = letter /\ told' = told
  BY DEF PackageStep, PlanPackage, ReusePackage, OpenPackage, EnterPackage, EndPackage,
         SummaryStep, PlanSummary, ReuseSummary, OpenSummary, EnterSummary, PersistBatch,
         ReportQueued, CompleteSummary, BreakSummary, FinalStep, StopJob, NoticeCancel, Retry,
         NoRetry, StartDrain, EndDrain, LastCheck, DiscardUnsent, Mark, runVars, sendVars
<1>2. \A v \in Workers : pc'[v] \in Carrying => pc[v] \in Carrying
  <2>1. CASE PackageStep(w)
    BY <1>0, <2>1 DEF PackageStep, PlanPackage, ReusePackage, OpenPackage, EnterPackage, EndPackage, Go, Carrying
  <2>2. CASE SummaryStep(w)
    BY <1>0, <2>2 DEF SummaryStep, PlanSummary, ReuseSummary, OpenSummary, EnterSummary, PersistBatch,
           ReportQueued, CompleteSummary, BreakSummary, Go, Carrying
  <2>3. CASE FinalStep(w) /\ ~DrainNext(w)
    BY <1>0, <2>3 DEF FinalStep, StopJob, NoticeCancel, Retry, NoRetry, StartDrain, EndDrain, LastCheck,
           DiscardUnsent, Mark, Leave, Go, Carrying
  <2> QED
    BY <2>1, <2>2, <2>3
<1>3. CASE DiscardUnsent(w)
  BY <1>0, <1>1, <1>2, <1>3, DiscardBalance DEF DiscardUnsent
<1>4. CASE ~DiscardUnsent(w)
  <2>1. doubt' = doubt
    BY <1>4 DEF PackageStep, PlanPackage, ReusePackage, OpenPackage, EnterPackage, EndPackage,
         SummaryStep, PlanSummary, ReuseSummary, OpenSummary, EnterSummary, PersistBatch,
         ReportQueued, CompleteSummary, BreakSummary, FinalStep, StopJob, NoticeCancel, Retry,
         NoRetry, StartDrain, EndDrain, LastCheck, Mark, runVars, sendVars
  <2>2. outbox' = outbox \/ outbox' = Persisted(exec[w])
    BY <1>4 DEF PackageStep, PlanPackage, ReusePackage, OpenPackage, EnterPackage, EndPackage,
         SummaryStep, PlanSummary, ReuseSummary, OpenSummary, EnterSummary, PersistBatch,
         ReportQueued, CompleteSummary, BreakSummary, FinalStep, StopJob, NoticeCancel, Retry,
         NoRetry, StartDrain, EndDrain, LastCheck, Mark, runVars, sendVars
  <2>3. outbox'[j] \in Unspent => outbox[j] \in Unspent
    BY <1>0, <2>2, PersistRows DEF Unspent
  <2> QED
    BY <1>1, <1>2, <2>1, <2>3, Light
<1> QED
  BY <1>3, <1>4

LEMMA BudgetNext ==
  ASSUME IInv, PipelineTypeOK, PipelineTypeOK', NEW j \in JobId, Budget(j), [PipelineNext]_allVars
  PROVE  Budget(j)'
<1>0. pc \in [Workers -> Stages]
  BY DEF PipelineTypeOK
<1>1. ASSUME UNCHANGED <<letter, told, doubt, outbox>>,
             \A v \in Workers : pc'[v] \in Carrying => pc[v] \in Carrying
      PROVE  Budget(j)'
  BY <1>1, Light
<1>2. ASSUME UNCHANGED <<pc, runVars>> PROVE Budget(j)'
  BY <1>1, <1>2 DEF runVars, sendVars
<1>3. CASE UNCHANGED allVars
  BY <1>2, <1>3 DEF allVars
<1>4. ASSUME NEW c \in Clients, Submit(c) PROVE Budget(j)'
  BY <1>1, <1>4 DEF Submit, sendVars
<1>5. ASSUME NEW c \in Clients, Cancel(c) PROVE Budget(j)'
  <2>1. UNCHANGED <<letter, told, pc>>
    BY <1>5 DEF Cancel
  <2>2. CASE UNCHANGED <<outbox, doubt>>
    BY <1>1, <2>1, <2>2
  <2>3. ASSUME NEW k \in JobId, Discard(k) PROVE Budget(j)'
    BY <2>1, <2>3, DiscardBalance
  <2>4. UNCHANGED <<outbox, doubt>> \/ \E k \in JobId : Discard(k)
    <3>1. TypeOK
      BY DEF IInv
    <3> QED
      BY <1>5, <3>1, AskedRows
  <2> QED
    BY <2>2, <2>3, <2>4
<1>6. ASSUME NEW w \in Workers, Post(w) \/ Advance(w) \/ LoseAnswer(w) \/ LoseRecord(w)
      PROVE  Budget(j)'
  <2>1. ASSUME NEW k \in JobId, ClaimRow(w, k), pc' = [pc EXCEPT ![w] = "calling"] PROVE Budget(j)'
    BY <2>1, ClaimBalance
  <2>2. CASE Outcome(w) \/ LoseRecord(w)
    BY <2>2, OutcomeBalance
  <2>3. CASE exec[w] # NoJob /\ (PackageStep(w) \/ SummaryStep(w) \/ (FinalStep(w) /\ ~DrainNext(w)))
    BY <2>3, StageBalance
  <2>4. CASE PostNothing(w)
    BY <1>0, <1>1, <2>4 DEF PostNothing, Go, Carrying, runVars, sendVars
  <2>5. CASE DrainNext(w) /\ exec[w] # NoJob
    BY <2>1, <2>5 DEF DrainNext, Go, IInv, TypeOK
  <2>6. CASE PostNext(w)
    BY <2>1, <2>6 DEF PostNext, Go
  <2> QED
    BY <1>6, <2>2, <2>3, <2>4, <2>5, <2>6 DEF Post, Advance, Busy, SendStep, Outcome
<1>7. ASSUME NEW w \in Workers, CrashWorker(w) PROVE Budget(j)'
  BY <1>7, CrashBalance
<1>8. ASSUME NEW w \in Workers,
             \/ TakeJob(w) \/ FindNoJob(w) \/ ReportPackage(w) \/ ReportSummary(w)
             \/ Break(w) \/ BreakHandler(w) \/ StopWorker(w) \/ StartOrLeave(w)
      PROVE  Budget(j)'
  <2>1. UNCHANGED <<letter, told, doubt, outbox>>
    BY <1>8 DEF TakeJob, FindNoJob, ReportPackage, ReportSummary, Break, BreakHandler, StopWorker,
                StartOrLeave, runVars, sendVars
  <2>2. pc' = pc \/ \E p \in {"start", "free", "failing", "idle"} : pc' = [pc EXCEPT ![w] = p]
    BY <1>8 DEF TakeJob, FindNoJob, ReportPackage, ReportSummary, Break, BreakHandler, StopWorker,
                StartOrLeave, Go, Leave
  <2> QED
    BY <1>0, <1>1, <2>1, <2>2 DEF Carrying
<1>9. ASSUME NEW k \in JobId, BackoffEnds(k) \/ GoesStale(k) PROVE Budget(j)'
  <2>1. /\ UNCHANGED <<pc, letter, told, doubt>>
        /\ \A i \in JobId \ {k} : outbox'[i] = outbox[i]
        /\ <<outbox[k], outbox'[k]>> \in {<<"waiting", "pending">>, <<"sending", "stale">>}
    BY <1>9, RowAges
  <2> QED
    BY <2>1, Light DEF Unspent
<1> QED
  BY <1>2, <1>3, <1>4, <1>5, <1>6, <1>7, <1>8, <1>9 DEF PipelineNext, AskedElsewhere

LEMMA BudgetInit ==
  ASSUME PipelineInit, NEW j \in JobId
  PROVE  Budget(j)
<1>1. Carriers(j) = {} /\ told[j] = 0 /\ doubt[j] = 0 /\ Owed(j) = 1
  BY NoJobIsNoId DEF PipelineInit, Carriers, Owed, Unspent
<1> QED
  BY <1>1, FS_EmptySet DEF Budget

LEMMA BudgetHolds ==
  ASSUME ~LeaseMayLapse
  PROVE  PipelineSpec => [](\A j \in JobId : Budget(j))
<1>1. PipelineInit => \A j \in JobId : Budget(j)
  BY BudgetInit
<1>2. /\ IInv /\ StagesSound /\ StagesSound' /\ (\A j \in JobId : Budget(j)) /\ [PipelineNext]_allVars
      => (\A j \in JobId : Budget(j))'
  BY BudgetNext DEF StagesSound
<1>3. PipelineSpec => []IInv
  BY PipelineIsQueue, Inductive, PTL
<1> QED
  BY <1>1, <1>2, <1>3, StagesHold, PTL DEF PipelineSpec

-----------------------------------------------------------------------------
(* A completed job has a completed package and a completed summary,        *)
(* whatever stopped, crashed, failed or was canceled on the way.           *)
THEOREM EndsAreHonest ==
  ASSUME ~LeaseMayLapse
  PROVE  PipelineSpec => []HonestEnd
<1>1. StagesSound => HonestEnd
  BY DEF StagesSound, JobSound, StatusRows, HonestEnd
<1> QED
  BY StagesHold, <1>1, PTL

(* The chat gets a summary at most once more than attempts to send it were *)
(* given up without a recorded outcome, and only of a completed package.   *)
THEOREM RepeatsAreDoubted ==
  ASSUME ~LeaseMayLapse
  PROVE  PipelineSpec => []RepeatNeedsDoubt
<1>1. ASSUME StagesSound, SendersSound, \A j \in JobId : Budget(j)
      PROVE  RepeatNeedsDoubt
  <2> SUFFICES ASSUME NEW j \in JobId
               PROVE  told[j] <= 1 + doubt[j] /\ (told[j] > 0 => package[j] = "completed")
    BY DEF RepeatNeedsDoubt
  <2>1. told[j] \in Nat /\ doubt[j] \in Nat /\ Owed(j) \in Nat
    BY <1>1 DEF StagesSound, PipelineTypeOK, Owed
  <2>2. Cardinality(Carriers(j)) \in Nat
    <3>1. IsFiniteSet(Carriers(j))
      BY WorkerAssumption, FS_Subset DEF Carriers
    <3> QED
      BY <3>1, FS_CardinalityType
  <2> QED
    BY <1>1, <2>1, <2>2 DEF Budget, SendersSound, Sent
<1>2. StagesSound /\ SendersSound /\ (\A j \in JobId : Budget(j)) => RepeatNeedsDoubt
  BY <1>1
<1> QED
  BY StagesHold, BudgetHolds, <1>2, PTL

(* A job canceled without a crash or an error leaves nothing to deliver,   *)
(* unless two workers sent its row.                                        *)
THEOREM CancelIsQuiet ==
  ASSUME ~LeaseMayLapse
  PROVE  PipelineSpec => []CanceledIsQuiet
<1>1. StagesSound => CanceledIsQuiet
  BY DEF StagesSound, JobSound, StatusRows, CanceledIsQuiet, Calm, Unsent
<1> QED
  BY StagesHold, <1>1, PTL

(* A job fails only when something befell it.                              *)
THEOREM FailuresAreCaused ==
  ASSUME ~LeaseMayLapse
  PROVE  PipelineSpec => []FailureHasCause
<1>1. StagesSound => FailureHasCause
  BY DEF StagesSound, JobSound, StatusRows, FailureHasCause, Caused
<1> QED
  BY StagesHold, <1>1, PTL
=============================================================================
