--------------------------- MODULE AccountRuntime ---------------------------
(***************************************************************************)
(* The runtimes of one Telegram account.  A TelegramAccountRuntime owns a  *)
(* supervisor, which dials one client after the other, the ingestion       *)
(* service that registers its handlers on a client before it connects, and *)
(* the task that activates this service.  All of it runs on one event      *)
(* loop, where anything may happen at an await.  Other threads call the    *)
(* account through TelegramRuntimeManager, which finds its runtime or      *)
(* makes one, and unregister the account.                                  *)
(*                                                                         *)
(* A step of this module lasts from one await to the next.  A client is    *)
(* numbered within its runtime; 0 stands for none.                         *)
(***************************************************************************)
EXTENDS Integers, Sequences, SequencesExt

CONSTANTS
  Callers,     \* threads that call the account, and notifications
  MaxRuntimes, \* bound: runtimes made for the account
  MaxFaults    \* bound: lost connections and failures

ASSUME RuntimeAssumption == MaxRuntimes \in Nat \ {0} /\ MaxFaults \in Nat

VARIABLES
  entry,    \* the runtime in _runtimes; 0 when there is none
  rt,       \* the runtimes
  queue,    \* who holds the command lock of a runtime, first, and waits for it
  calls,    \* the calls of execute
  session,  \* is the session of the account authorised?
  faults    \* faults so far

vars == <<entry, rt, queue, calls, session, faults>>

-----------------------------------------------------------------------------
RuntimeId == 1 .. MaxRuntimes

Operations == {"auth_status", "submit_code", "deliver_chunk", "refresh_capture"}

Connection == {"new", "up", "lost", "closed"}

(* sup is where the supervisor waits, stop where stop() does; task is      *)
(* _ingest_task and on its client, ended a task whose callback is due,     *)
(* retry the client a retry of the activation was scheduled for, handlers  *)
(* the client the handlers of the service are registered on, known the     *)
(* last client Telegram called authorised.                                 *)
Runtime ==
  [sup : {"unused", "connecting", "checking", "live", "waiting", "leaving", "done"},
   clients : Seq(Connection), current : Nat, known : Nat, ready : BOOLEAN, stopping : BOOLEAN,
   handlers : Nat, task : {"none", "running", "ok", "failed"}, on : Nat,
   ended : {"none", "ok", "failed"}, active : BOOLEAN, retry : Nat,
   stop : {"no", "ingestion", "client", "supervisor", "returned"}]

Unused == [sup |-> "unused", clients |-> <<>>, current |-> 0, known |-> 0,
           ready |-> FALSE, stopping |-> FALSE, handlers |-> 0, task |-> "none", on |-> 0, ended |-> "none",
           active |-> FALSE, retry |-> 0, stop |-> "no"]

Idle == [at |-> "idle"]

Call == {Idle} \cup
  [at : {"ready", "lock", "client", "task", "resumed"}, op : Operations, r : RuntimeId, n : Nat]

Latest(x) == Len(x.clients)

IsUp(x, n) == n \in DOMAIN x.clients /\ x.clients[n] = "up"

(* is_user_authorized asks Telegram once and answers from memory then, also *)
(* when the connection is gone.                                            *)
Authorized(x, n) == x.known = n \/ (IsUp(x, n) /\ session)

Fault == faults < MaxFaults /\ faults' = faults + 1

-----------------------------------------------------------------------------
(* _prepare_ingestion: a service stays on the client it was made for.      *)
Prepared(x, n) == IF x.handlers = 0 THEN [x EXCEPT !.handlers = n] ELSE x

Dialled(x) ==
  Prepared([x EXCEPT !.clients = Append(@, "new"), !.sup = "connecting"], Latest(x) + 1)

(* _schedule_ingestion *)
Scheduled(x, n) ==
  IF x.task # "none" THEN x
  ELSE [Prepared(x, n) EXCEPT !.retry = 0, !.active = FALSE, !.task = "running", !.on = n]

ScheduledKnown(x, n) == Scheduled([x EXCEPT !.known = n], n)

(* _stop_ingestion cancels the task, and with it those who wait for it.    *)
IngestionStopped(x) ==
  [x EXCEPT !.task = "none", !.on = 0, !.retry = 0, !.handlers = 0, !.active = FALSE]

WaitersResume(r) ==
  calls' = [c \in Callers |-> IF calls[c].at = "task" /\ calls[c].r = r
                              THEN [calls[c] EXCEPT !.at = "resumed"] ELSE calls[c]]

Init ==
  /\ entry = 0
  /\ rt = [r \in RuntimeId |-> Unused]
  /\ queue = [r \in RuntimeId |-> <<>>]
  /\ calls = [c \in Callers |-> Idle]
  /\ session \in BOOLEAN
  /\ faults = 0

-----------------------------------------------------------------------------
(* The manager.  It makes a runtime when it has none for the account. *)
Registered(r) ==
  \/ entry = r /\ UNCHANGED <<entry, rt>>
  \/ /\ entry = 0 /\ rt[r] = Unused /\ \A q \in RuntimeId : q < r => rt[q] # Unused
     /\ entry' = r
     /\ rt' = [rt EXCEPT ![r] = Dialled(@)]

Register ==
  /\ entry = 0
  /\ \E r \in RuntimeId : Registered(r)
  /\ UNCHANGED <<queue, calls, session, faults>>

Ask(c) ==
  /\ calls[c] = Idle
  /\ \E r \in RuntimeId, op \in Operations :
       /\ Registered(r)
       /\ calls' = [calls EXCEPT ![c] = [at |-> "ready", op |-> op, r |-> r, n |-> 0]]
  /\ UNCHANGED <<queue, session, faults>>

(* The runtime is taken off the table first and stopped then. *)
Unregister ==
  /\ entry # 0
  /\ entry' = 0
  /\ rt' = [rt EXCEPT ![entry] = [IngestionStopped(@) EXCEPT !.stopping = TRUE, !.stop = "ingestion"]]
  /\ WaitersResume(entry)
  /\ UNCHANGED <<queue, session, faults>>

-----------------------------------------------------------------------------
(* _supervise_connection *)
Lose(r) ==
  /\ \E n \in DOMAIN rt[r].clients :
       /\ IsUp(rt[r], n) /\ Fault
       /\ rt' = [rt EXCEPT ![r].clients[n] = "lost"]
  /\ UNCHANGED <<entry, queue, calls, session>>

(* A callback that is due and a caller the lock was handed to run in the    *)
(* next round of the loop, before a delay or a connect that began earlier  *)
(* is over.                                                                *)
Settled(r) ==
  /\ rt[r].ended = "none"
  /\ ~\E c \in Callers : calls[c].at = "lock" /\ calls[c].r = r /\ Head(queue[r]) = c

Connect(r) ==
  /\ rt[r].sup = "connecting" /\ Settled(r)
  /\ rt' = [rt EXCEPT ![r].clients[Latest(rt[r])] = "up", ![r].sup = "checking",
                      ![r].current = Latest(rt[r]), ![r].ready = TRUE]
  /\ UNCHANGED <<entry, queue, calls, session, faults>>

ConnectFails(r) ==
  /\ rt[r].sup = "connecting" /\ Fault
  /\ rt' = [rt EXCEPT ![r].sup = "waiting"]
  /\ UNCHANGED <<entry, queue, calls, session>>

Check(r) ==
  /\ rt[r].sup = "checking"
  /\ LET x == rt[r]
     IN  rt' = [rt EXCEPT ![r] =
                  IF ~IsUp(x, Latest(x)) THEN [x EXCEPT !.sup = "waiting"]
                  ELSE IF session THEN [ScheduledKnown(x, Latest(x)) EXCEPT !.sup = "live"]
                  ELSE [x EXCEPT !.sup = "live"]]
  /\ UNCHANGED <<entry, queue, calls, session, faults>>

(* The authorisation cannot be read or recorded: the connection is given up. *)
CheckFails(r) ==
  /\ rt[r].sup = "checking" /\ IsUp(rt[r], Latest(rt[r])) /\ Fault
  /\ rt' = [rt EXCEPT ![r].sup = "waiting"]
  /\ UNCHANGED <<entry, queue, calls, session>>

(* The end of an iteration: the ingestion is stopped before the client is  *)
(* disconnected, and self.client goes last.                                *)
Left(x) == [IngestionStopped(x) EXCEPT !.ready = FALSE, !.sup = "leaving"]

Leave(r) ==
  /\ \/ rt[r].sup = "waiting" /\ (Settled(r) \/ rt[r].stopping)
     \/ rt[r].sup = "live" /\ ~IsUp(rt[r], Latest(rt[r])) /\ rt[r].stopping
  /\ rt' = [rt EXCEPT ![r] = Left(@)]
  /\ WaitersResume(r)
  /\ UNCHANGED <<entry, queue, session, faults>>

NoticeLoss(r) ==
  /\ rt[r].sup = "live" /\ ~IsUp(rt[r], Latest(rt[r])) /\ ~rt[r].stopping
  /\ rt' = [rt EXCEPT ![r].sup = "waiting"]
  /\ UNCHANGED <<entry, queue, calls, session, faults>>

Redial(r) ==
  /\ rt[r].sup = "leaving"
  /\ LET x == [rt[r] EXCEPT !.clients[Latest(rt[r])] = "closed", !.current = 0]
     IN  rt' = [rt EXCEPT ![r] = IF x.stopping THEN [x EXCEPT !.sup = "done"] ELSE Dialled(x)]
  /\ UNCHANGED <<entry, queue, calls, session, faults>>

-----------------------------------------------------------------------------
(* The activation: a task, its callback and its retry.  Without connection *)
(* it need not fail: what is left to catch up is only queued, and targets  *)
(* that cannot be read are retried by the service.                         *)
Activate(r) ==
  /\ rt[r].task = "running" /\ rt[r].ended = "none"
  /\ \/ /\ Authorized(rt[r], rt[r].on)
        /\ rt' = [rt EXCEPT ![r].task = "ok", ![r].ended = "ok",
                            ![r].known = rt[r].on]
        /\ UNCHANGED faults
     \/ /\ IF IsUp(rt[r], rt[r].on) /\ session THEN Fault ELSE UNCHANGED faults
        /\ rt' = [rt EXCEPT ![r].task = "failed", ![r].ended = "failed"]
  /\ WaitersResume(r)
  /\ UNCHANGED <<entry, queue, session>>

(* Mutation: a failed activation is only recorded. *)
IngestDoneForGood(r) ==
  /\ rt[r].ended # "none"
  /\ rt' = [rt EXCEPT ![r].ended = "none", ![r].active = (rt[r].ended = "ok" /\ ~rt[r].stopping)]
  /\ UNCHANGED <<entry, queue, calls, session, faults>>

(* _ingest_done; its task need not be the runtime's any more. *)
IngestDone(r) ==
  /\ rt[r].ended # "none"
  /\ LET x == [rt[r] EXCEPT !.ended = "none"]
         failed == [x EXCEPT !.active = FALSE,
                             !.task = IF @ = "failed" THEN "none" ELSE @,
                             !.on = IF x.task = "failed" THEN 0 ELSE @,
                             !.retry = IF x.current # 0 THEN x.current ELSE @]
     IN  rt' = [rt EXCEPT ![r] = CASE x.stopping -> x
                                   [] ~x.stopping /\ rt[r].ended = "ok" -> [x EXCEPT !.active = TRUE]
                                   [] OTHER -> failed]
  /\ UNCHANGED <<entry, queue, calls, session, faults>>

RetryActivation(r) ==
  /\ rt[r].retry # 0
  /\ LET x == [rt[r] EXCEPT !.retry = 0]
     IN  rt' = [rt EXCEPT ![r] = IF x.stopping \/ x.current # rt[r].retry THEN x
                                 ELSE Scheduled(x, rt[r].retry)]
  /\ UNCHANGED <<entry, queue, calls, session, faults>>

-----------------------------------------------------------------------------
(* Mutation: the supervisor is not canceled but left to notice. *)
CanceledLazily(x) == x

(* stop().  Canceled at any await but one of its last, the supervisor      *)
(* leaves as after a failure; canceled there it is over.                   *)
Canceled(x) ==
  CASE x.sup = "done" -> x
    [] x.sup = "leaving" -> [x EXCEPT !.sup = "done"]
    [] OTHER -> Left(x)

StopClient(r) ==
  /\ rt[r].stop = "ingestion" /\ rt[r].current # 0
  /\ rt' = [rt EXCEPT ![r].stop = "client"]
  /\ UNCHANGED <<entry, queue, calls, session, faults>>

(* Mutation: the supervisor is canceled before its client is disconnected. *)
StopSupervisorFirst(r) ==
  /\ rt[r].stop \in {"ingestion", "client"}
  /\ rt' = [rt EXCEPT ![r] = [Canceled(@) EXCEPT !.stop = "supervisor"]]
  /\ IF rt[r].sup \in {"done", "leaving"} THEN UNCHANGED calls ELSE WaitersResume(r)
  /\ UNCHANGED <<entry, queue, session, faults>>

StopSupervisor(r) ==
  /\ \/ rt[r].stop = "ingestion" /\ rt[r].current = 0
     \/ rt[r].stop = "client"
  /\ LET x == IF rt[r].stop = "client" THEN [rt[r] EXCEPT !.clients[Latest(rt[r])] = "closed"] ELSE rt[r]
     IN  rt' = [rt EXCEPT ![r] = [Canceled(x) EXCEPT !.stop = "supervisor"]]
  /\ IF rt[r].sup \in {"done", "leaving"} THEN UNCHANGED calls ELSE WaitersResume(r)
  /\ UNCHANGED <<entry, queue, session, faults>>

StopReturns(r) ==
  /\ rt[r].stop = "supervisor" /\ rt[r].sup = "done"
  /\ rt' = [rt EXCEPT ![r].stop = "returned", ![r].current = 0, ![r].ready = FALSE]
  /\ UNCHANGED <<entry, queue, calls, session, faults>>

-----------------------------------------------------------------------------
(* execute: wait until the runtime is ready, take its command lock, take   *)
(* the client it has then, and work with it.  A free lock and an answer    *)
(* from memory suspend nobody.                                             *)

Released(c) ==
  /\ calls' = [calls EXCEPT ![c] = Idle]
  /\ queue' = [queue EXCEPT ![calls[c].r] = RemoveFirst(@, c)]

Holding(c, n, at) ==
  /\ calls' = [calls EXCEPT ![c].at = at, ![c].n = n]
  /\ queue' = [queue EXCEPT ![calls[c].r] = <<c>> \o RemoveFirst(@, c)]

(* Mutation: refresh_capture waits for the next activation, not for one    *)
(* that is under way.                                                      *)
OnAuthorizedAwaitNext(c, n) ==
  /\ rt' = [rt EXCEPT ![calls[c].r] = ScheduledKnown(@, n)]
  /\ IF calls[c].op = "refresh_capture" THEN Holding(c, n, "task") ELSE Released(c)

(* What the operations do when the account is authorised.  refresh_capture *)
(* waits for the activation with the lock in its hands.                    *)
OnAuthorized(c, n) ==
  LET r == calls[c].r
      x == ScheduledKnown(rt[r], n)
  IN  /\ rt' = [rt EXCEPT ![r] = x]
      /\ IF calls[c].op = "refresh_capture"
         THEN Holding(c, n, IF x.task = "running" THEN "task" ELSE "resumed")
         ELSE Released(c)

Began(c) ==
  LET x == rt[calls[c].r]
      remembered == calls[c].op \in {"auth_status", "refresh_capture"} /\ x.known = x.current
  IN  IF x.current = 0 THEN Released(c) /\ UNCHANGED rt
      ELSE IF remembered THEN OnAuthorized(c, x.current)
      ELSE Holding(c, x.current, "client") /\ UNCHANGED rt

Enter(c) ==
  /\ calls[c].at = "ready" /\ rt[calls[c].r].ready
  /\ IF queue[calls[c].r] = <<>> THEN Began(c)
     ELSE /\ calls' = [calls EXCEPT ![c].at = "lock"]
          /\ queue' = [queue EXCEPT ![calls[c].r] = Append(@, c)]
          /\ UNCHANGED rt
  /\ UNCHANGED <<entry, session, faults>>

Acquire(c) ==
  /\ calls[c].at = "lock" /\ Head(queue[calls[c].r]) = c
  /\ Began(c)
  /\ UNCHANGED <<entry, session, faults>>

(* Telegram answers, or the connection is gone. *)
Answered(c) ==
  /\ calls[c].at = "client"
  /\ IF /\ IsUp(rt[calls[c].r], calls[c].n)
        /\ calls[c].op = "submit_code" \/ (calls[c].op # "deliver_chunk" /\ session)
     THEN OnAuthorized(c, calls[c].n) /\ session' = TRUE
     ELSE Released(c) /\ UNCHANGED <<rt, session>>
  /\ UNCHANGED <<entry, faults>>

(* An operation that fails, or whose caller is canceled or has waited long *)
(* enough; Telegram may have accepted a code all the same.  Nobody gives a *)
(* notification up.                                                        *)
GiveUp(c) ==
  /\ calls[c] # Idle /\ calls[c].op # "refresh_capture"
  /\ Released(c)
  /\ \/ UNCHANGED session
     \/ /\ calls[c].op = "submit_code" /\ calls[c].at = "client"
        /\ IsUp(rt[calls[c].r], calls[c].n)
        /\ session' = TRUE
  /\ UNCHANGED <<entry, rt, faults>>

Refreshed(c) ==
  /\ calls[c].at = "resumed"
  /\ Released(c)
  /\ UNCHANGED <<entry, rt, session, faults>>

-----------------------------------------------------------------------------
Supervise(r) == Connect(r) \/ Check(r) \/ NoticeLoss(r) \/ Leave(r) \/ Redial(r)

Stop(r) == StopClient(r) \/ StopSupervisor(r) \/ StopReturns(r)

Serve(c) == Enter(c) \/ Acquire(c) \/ Answered(c) \/ Refreshed(c)

Next ==
  \/ Register \/ Unregister
  \/ \E r \in RuntimeId :
       \/ Supervise(r) \/ Lose(r) \/ ConnectFails(r) \/ CheckFails(r)
       \/ Activate(r) \/ IngestDone(r) \/ RetryActivation(r)
       \/ Stop(r)
  \/ \E c \in Callers : Ask(c) \/ Serve(c) \/ GiveUp(c)

Spec == Init /\ [][Next]_vars

(* The event loop runs what is ready, and Telegram answers or fails. *)
Fairness ==
  /\ \A r \in RuntimeId :
       /\ WF_vars(Supervise(r)) /\ WF_vars(Stop(r))
       /\ WF_vars(Activate(r)) /\ WF_vars(IngestDone(r)) /\ WF_vars(RetryActivation(r))
  /\ \A c \in Callers : WF_vars(Serve(c))

FairSpec == Spec /\ Fairness

-----------------------------------------------------------------------------
(* Runtimes and calls have their types, and the command lock has its queue. *)
RuntimeTypeOK ==
  /\ entry \in 0 .. MaxRuntimes
  /\ rt \in [RuntimeId -> Runtime]
  /\ calls \in [Callers -> Call]
  /\ queue \in [RuntimeId -> Seq(Callers)]
  /\ session \in BOOLEAN
  /\ \A r \in RuntimeId, c \in Callers :
       c \in ToSet(queue[r])
       <=> calls[c] # Idle /\ calls[c].at # "ready" /\ calls[c].r = r

Live(r) == rt[r].sup = "live" /\ IsUp(rt[r], Latest(rt[r])) /\ ~rt[r].stopping

(* A client the runtime has left behind is not connected any more, nor is  *)
(* any when stop() has returned, wherever the supervisor was canceled:     *)
(* a connection that leaks holds the session of the account.               *)
NoClientLeaks ==
  \A r \in RuntimeId : \A n \in DOMAIN rt[r].clients :
    IsUp(rt[r], n) => n = Latest(rt[r]) /\ rt[r].stop # "returned"

(* While the ingestion is active on a live client, its handlers are on     *)
(* that client, so that live updates reach the archive.                    *)
HandlersAttached ==
  \A r \in RuntimeId : Live(r) /\ rt[r].active => rt[r].handlers = Latest(rt[r])

(* A client that was found authorised and stays connected is ingested in   *)
(* the end, whatever activations fail and whoever schedules them.          *)
CaptureResumes ==
  \A r \in RuntimeId :
    (Live(r) /\ rt[r].known = Latest(rt[r])) ~> (rt[r].active \/ ~Live(r))

(* A call of execute ends, unless its runtime is stopped before it is      *)
(* ready: no operation keeps the command lock for good.                    *)
CallsEnd ==
  \A c \in Callers :
    calls[c] # Idle
    ~> (calls[c] = Idle \/ (calls[c].at = "ready" /\ rt[calls[c].r].stopping))

(* stop() returns, wherever the supervisor, the activation and the calls   *)
(* are when it begins.                                                     *)
StopEnds == \A r \in RuntimeId : rt[r].stopping ~> rt[r].stop = "returned"
=============================================================================
