--------------------------- MODULE DeliveryOutbox ---------------------------
(***************************************************************************)
(* The delivery outbox: the rows of delivery_outbox, one per chunk of a    *)
(* summary run, the worker threads that send them, and the Telegram chat   *)
(* they end up in.  A sender claims a row in one transaction, sends it     *)
(* outside any transaction and records the outcome in another, by the      *)
(* row's id and without looking at the row again.                          *)
(*                                                                         *)
(* A run has one target, so its chunks form one sequence.                  *)
(***************************************************************************)
EXTENDS Integers, Sequences, FiniteSets

CONSTANTS
  Runs,         \* summary runs with delivery, numbered in created_at order
  MaxChunks,    \* bound: chunks of a run
  Senders,      \* worker threads that drain a run or poll the whole outbox
  MaxFaults     \* bound: timeouts, lost answers, crashes, discards in
                \* flight, and rows that go stale under their sender

ASSUME OutboxAssumption ==
  /\ Runs \subseteq Nat
  /\ IsFiniteSet(Senders)
  /\ MaxChunks \in Nat
  /\ MaxFaults \in Nat

VARIABLES
  box,     \* box[r][c]: the row of chunk c of run r
  sender,  \* what each sender is at
  chat,    \* chat[r]: the chunks of r in the order Telegram accepted them
  late,    \* late[r][c]: requests whose caller no longer waits for them
  doubt,   \* doubt[r][c]: attempts given up without a recorded outcome
  faults   \* faults so far

vars == <<box, sender, chat, late, doubt, faults>>

-----------------------------------------------------------------------------
Chunks == 1 .. MaxChunks

(* The status column, with next_attempt_at and updated_at as far as a      *)
(* claim compares them with now: a retry waits or is due, a sending row is *)
(* recent or stale.                                                        *)
Due    == {"pending", "due", "stale"}
Unsent == {"waiting", "sending"} \cup Due
States == {"absent", "sent"} \cup Unsent

At == {"calling", "answered", "failed"}

Idle == [at |-> "idle"]

SenderState == {Idle} \cup [at : At, run : Runs, chunk : Chunks]

Occurrences(r, c) == {i \in DOMAIN chat[r] : chat[r][i] = c}
Delivered(r, c) == \E i \in DOMAIN chat[r] : chat[r][i] = c

(* Mutation: a row waiting for its backoff does not hold back later ones. *)
FirstUnsentSkipping(r, c) ==
  \A d \in Chunks : d < c => box[r][d] \notin Due \cup {"sending"}

(* The order of a run: no earlier row of it is unsent. *)
FirstUnsent(r, c) == \A d \in Chunks : d < c => box[r][d] \notin Unsent

(* Mutation: a claim that takes a row somebody has just claimed. *)
ClaimableInFlight(r, c) == box[r][c] \in Due \cup {"sending"} /\ FirstUnsent(r, c)

(* Mutation: a claim that never takes over a stale row. *)
ClaimableIfFresh(r, c) == box[r][c] \in {"pending", "due"} /\ FirstUnsent(r, c)

Claimable(r, c) == box[r][c] \in Due /\ FirstUnsent(r, c)

Busy(s) == sender[s] # Idle
Is(s, at, r, c) == sender[s] = [at |-> at, run |-> r, chunk |-> c]
Now(s, at, r, c) == sender' = [sender EXCEPT ![s] = [at |-> at, run |-> r, chunk |-> c]]
Done(s) == sender' = [sender EXCEPT ![s] = Idle]

Doubtful(r, c) == doubt' = [doubt EXCEPT ![r][c] = @ + 1]

Fault == faults < MaxFaults /\ faults' = faults + 1

(* An UPDATE by outbox_id: without effect when the row is gone. *)
Marked(r, c, state) ==
  box' = IF box[r][c] = "absent" THEN box ELSE [box EXCEPT ![r][c] = state]

-----------------------------------------------------------------------------
Init ==
  /\ box = [r \in Runs |-> [c \in Chunks |-> "absent"]]
  /\ sender = [s \in Senders |-> Idle]
  /\ chat = [r \in Runs |-> <<>>]
  /\ late = [r \in Runs |-> [c \in Chunks |-> 0]]
  /\ doubt = [r \in Runs |-> [c \in Chunks |-> 0]]
  /\ faults = 0

(* Mutation: an insert that resets the rows it finds. *)
PersistReset(r, n) ==
  /\ box' = [box EXCEPT ![r] = [c \in Chunks |-> IF c <= n THEN "pending" ELSE box[r][c]]]
  /\ UNCHANGED <<sender, chat, late, doubt, faults>>

(* persist_daily_summary_batch inserts the n chunks of a run; a row that   *)
(* exists, from an earlier execution of the run, is left alone.            *)
Persist(r, n) ==
  /\ box' = [box EXCEPT ![r] =
       [c \in Chunks |-> IF c <= n /\ box[r][c] = "absent" THEN "pending" ELSE box[r][c]]]
  /\ UNCHANGED <<sender, chat, late, doubt, faults>>

(* discard_unsent_delivery_outbox, and the DELETE of a cancel request.  An *)
(* attempt in flight loses its row.                                        *)
InFlight(r, c) == box[r][c] \in {"sending", "stale"}

Discard(r) ==
  /\ IF \E c \in Chunks : InFlight(r, c) THEN Fault ELSE UNCHANGED faults
  /\ box' = [box EXCEPT ![r] =
       [c \in Chunks |-> IF box[r][c] \in Unsent THEN "absent" ELSE box[r][c]]]
  /\ doubt' = [doubt EXCEPT ![r] =
       [c \in Chunks |-> doubt[r][c] + (IF InFlight(r, c) THEN 1 ELSE 0)]]
  /\ UNCHANGED <<sender, chat, late>>

-----------------------------------------------------------------------------
(* claim_delivery_outbox: the oldest claimable row of the runs in R, which *)
(* is one run for an execution that drains its summary and every run for   *)
(* the idle loop.  Claiming a stale row gives its earlier attempt up.      *)
Claim(s, R) ==
  /\ ~Busy(s)
  /\ \E r \in R, c \in Chunks :
       /\ Claimable(r, c)
       /\ \A q \in R, d \in Chunks : Claimable(q, d) => r <= q
       /\ IF box[r][c] = "stale" THEN Doubtful(r, c) ELSE UNCHANGED doubt
       /\ box' = [box EXCEPT ![r][c] = "sending"]
       /\ Now(s, "calling", r, c)
  /\ UNCHANGED <<chat, late, faults>>

(* Telegram accepts the message and the call returns. *)
Accept(s, r, c) ==
  /\ Is(s, "calling", r, c)
  /\ chat' = [chat EXCEPT ![r] = Append(@, c)]
  /\ Now(s, "answered", r, c)
  /\ UNCHANGED <<box, late, doubt, faults>>

(* The call fails and Telegram has not accepted the message. *)
Reject(s, r, c) ==
  /\ Is(s, "calling", r, c)
  /\ Now(s, "failed", r, c)
  /\ UNCHANGED <<box, chat, late, doubt, faults>>

(* The caller stops waiting, after call_timeout or because the worker      *)
(* stops: the request may still reach Telegram.                            *)
GiveUp(s, r, c) ==
  /\ Is(s, "calling", r, c)
  /\ Fault
  /\ Doubtful(r, c)
  /\ late' = [late EXCEPT ![r][c] = @ + 1]
  /\ Now(s, "failed", r, c)
  /\ UNCHANGED <<box, chat>>

(* Telegram accepted it, but the call raises: the answer comes too late,   *)
(* or recording the operation event fails.                                 *)
LoseAnswer(s, r, c) ==
  /\ Is(s, "answered", r, c)
  /\ Fault
  /\ Doubtful(r, c)
  /\ Now(s, "failed", r, c)
  /\ UNCHANGED <<box, chat, late>>

(* Mutation: the row is marked sent before the call. *)
CompleteFirst(s, r, c) ==
  /\ Is(s, "calling", r, c)
  /\ Marked(r, c, "sent")
  /\ Done(s)
  /\ UNCHANGED <<chat, late, doubt, faults>>

(* complete_delivery_outbox *)
Complete(s, r, c) ==
  /\ Is(s, "answered", r, c)
  /\ Marked(r, c, "sent")
  /\ Done(s)
  /\ UNCHANGED <<chat, late, doubt, faults>>

(* Mutation: a failed send leaves a status no claim looks for. *)
RetryFailed(s, r, c) ==
  /\ Is(s, "failed", r, c)
  /\ Marked(r, c, "failed")
  /\ Done(s)
  /\ UNCHANGED <<chat, late, doubt, faults>>

(* retry_delivery_outbox, with a backoff. *)
Retry(s, r, c) ==
  /\ Is(s, "failed", r, c)
  /\ Marked(r, c, "waiting")
  /\ Done(s)
  /\ UNCHANGED <<chat, late, doubt, faults>>

(* The sender dies, or the write of its outcome fails: the row stays as it *)
(* is until it is stale.                                                   *)
Die(s, r, c) ==
  /\ \E at \in At : Is(s, at, r, c)
  /\ Fault
  /\ late' = IF Is(s, "calling", r, c) THEN [late EXCEPT ![r][c] = @ + 1] ELSE late
  /\ Done(s)
  /\ UNCHANGED <<box, chat, doubt>>

-----------------------------------------------------------------------------
(* Telegram and the clock. *)
LateAccept(r, c) ==
  /\ late[r][c] > 0
  /\ late' = [late EXCEPT ![r][c] = @ - 1]
  /\ chat' = [chat EXCEPT ![r] = Append(@, c)]
  /\ UNCHANGED <<box, sender, doubt, faults>>

LateLoss(r, c) ==
  /\ late[r][c] > 0
  /\ late' = [late EXCEPT ![r][c] = @ - 1]
  /\ UNCHANGED <<box, sender, chat, doubt, faults>>

BackoffEnds(r, c) ==
  /\ box[r][c] = "waiting"
  /\ box' = [box EXCEPT ![r][c] = "due"]
  /\ UNCHANGED <<sender, chat, late, doubt, faults>>

(* Five minutes after a claim.  A send through the runtime bridge gives up *)
(* after the same five minutes, one of a CLI process when Telethon does:   *)
(* so its sender may still be at it.                                       *)
GoesStale(r, c) ==
  /\ box[r][c] = "sending"
  /\ IF \E s \in Senders, at \in At : Is(s, at, r, c)
     THEN Fault
     ELSE UNCHANGED faults
  /\ box' = [box EXCEPT ![r][c] = "stale"]
  /\ UNCHANGED <<sender, chat, late, doubt>>

-----------------------------------------------------------------------------
Answer(s, r, c) == Accept(s, r, c) \/ Reject(s, r, c) \/ GiveUp(s, r, c)
Record(s, r, c) == Complete(s, r, c) \/ Retry(s, r, c)

Next ==
  \/ \E r \in Runs : Discard(r) \/ \E n \in Chunks : Persist(r, n)
  \/ \E s \in Senders :
       \/ Claim(s, Runs)
       \/ \E r \in Runs : Claim(s, {r})
       \/ \E r \in Runs, c \in Chunks :
            Answer(s, r, c) \/ LoseAnswer(s, r, c) \/ Record(s, r, c) \/ Die(s, r, c)
  \/ \E r \in Runs, c \in Chunks :
       LateAccept(r, c) \/ LateLoss(r, c) \/ BackoffEnds(r, c) \/ GoesStale(r, c)

Spec == Init /\ [][Next]_vars

(* An idle worker polls; a call returns or times out; its outcome is       *)
(* written; the clock advances.  Telegram is external: a chunk sent again  *)
(* and again is accepted in the end.                                       *)
Fairness ==
  /\ \A s \in Senders : WF_vars(Claim(s, Runs))
  /\ \A s \in Senders, r \in Runs, c \in Chunks :
       /\ WF_vars(Answer(s, r, c))
       /\ SF_vars(Accept(s, r, c))
       /\ WF_vars(Record(s, r, c))
  /\ \A r \in Runs, c \in Chunks : WF_vars(BackoffEnds(r, c)) /\ WF_vars(GoesStale(r, c))

FairSpec == Spec /\ Fairness

-----------------------------------------------------------------------------
TypeOK ==
  /\ box \in [Runs -> [Chunks -> States]]
  /\ sender \in [Senders -> SenderState]
  /\ chat \in [Runs -> Seq(Chunks)]
  /\ late \in [Runs -> [Chunks -> Nat]]
  /\ doubt \in [Runs -> [Chunks -> Nat]]
  /\ faults \in Nat

(* A reader of the chat meets the chunks of a run in order: a chunk        *)
(* appears only after every earlier one has, whatever is lost, repeated,   *)
(* discarded or sent late, and however many workers drain the outbox.      *)
InOrder ==
  \A r \in Runs : \A i \in DOMAIN chat[r] : \A d \in Chunks :
    d < chat[r][i] => \E h \in 1 .. i - 1 : chat[r][h] = d

(* A row marked sent is in the chat. *)
SentWasDelivered ==
  \A r \in Runs, c \in Chunks : box[r][c] = "sent" => Delivered(r, c)

(* A chunk is in the chat at most once more than attempts at it were given *)
(* up without a recorded outcome; without such an attempt, exactly once    *)
(* when its row is sent.                                                   *)
DuplicatesNeedDoubt ==
  \A r \in Runs, c \in Chunks : Cardinality(Occurrences(r, c)) <= 1 + doubt[r][c]

(* A sent row becomes unsent again only through an attempt that had been   *)
(* given up: as long as there is none, sent is final.                      *)
SentIsFinal ==
  [][\A r \in Runs, c \in Chunks :
       box[r][c] = "sent" /\ doubt[r][c] = 0 => box'[r][c] = "sent"]_vars

(* Every queued chunk is sent in the end, or discarded: no crash, backoff  *)
(* or stale claim of it or of an earlier chunk strands it.                 *)
ChunksEnd ==
  \A r \in Runs, c \in Chunks :
    box[r][c] \in Unsent ~> box[r][c] \in {"sent", "absent"}
=============================================================================
