------------------------ MODULE DeliveryOutboxProofs ------------------------
(***************************************************************************)
(* The chat is in order and repeats a chunk only after an attempt that was *)
(* given up, for every number of runs, chunks, senders and faults.         *)
(***************************************************************************)
EXTENDS DeliveryOutbox, FiniteSetTheorems, TLAPS

(* Updating one cell of a table indexed by run and chunk. *)
LEMMA CellUpdate ==
  ASSUME NEW S, NEW f \in [Runs -> [Chunks -> S]], NEW r \in Runs, NEW c \in Chunks, NEW v \in S
  PROVE  /\ [f EXCEPT ![r][c] = v] \in [Runs -> [Chunks -> S]]
         /\ \A q \in Runs, d \in Chunks :
              [f EXCEPT ![r][c] = v][q][d] = IF q = r /\ d = c THEN v ELSE f[q][d]
<1> DEFINE g == [f EXCEPT ![r][c] = v]
<1>1. f[r] \in [Chunks -> S]
  OBVIOUS
<1>2. g[r] = [f[r] EXCEPT ![c] = v]
  OBVIOUS
<1>3. g[r] \in [Chunks -> S] /\ \A d \in Chunks : g[r][d] = IF d = c THEN v ELSE f[r][d]
  BY <1>1, <1>2
<1>4. g = [q \in Runs |-> g[q]] /\ \A q \in Runs : q # r => g[q] = f[q]
  OBVIOUS
<1>5. \A q \in Runs : g[q] \in [Chunks -> S]
  BY <1>3, <1>4
<1>6. g \in [Runs -> [Chunks -> S]]
  BY <1>4, <1>5
<1> HIDE DEF g
<1>7. \A q \in Runs, d \in Chunks : g[q][d] = IF q = r /\ d = c THEN v ELSE f[q][d]
  BY <1>3, <1>4
<1> QED BY <1>6, <1>7 DEF g

(* Telegram's next message in a chat. *)
LEMMA Appended ==
  ASSUME TypeOK, NEW r \in Runs, NEW c \in Chunks, chat' = [chat EXCEPT ![r] = Append(@, c)]
  PROVE  /\ chat' \in [Runs -> Seq(Chunks)]
         /\ \A q \in Runs : q # r => chat'[q] = chat[q]
         /\ chat[r] \in Seq(Chunks)
         /\ DOMAIN chat'[r] = 1 .. Len(chat[r]) + 1
         /\ \A i \in 1 .. Len(chat[r]) : chat'[r][i] = chat[r][i]
         /\ chat'[r][Len(chat[r]) + 1] = c
<1>1. chat[r] \in Seq(Chunks)
  BY DEF TypeOK
<1>2. chat'[r] = Append(chat[r], c)
  BY DEF TypeOK
<1>3. Append(chat[r], c) \in Seq(Chunks)
  BY <1>1
<1>4. /\ DOMAIN Append(chat[r], c) = 1 .. Len(chat[r]) + 1
      /\ \A i \in 1 .. Len(chat[r]) : Append(chat[r], c)[i] = chat[r][i]
      /\ Append(chat[r], c)[Len(chat[r]) + 1] = c
  BY <1>1
<1>5. \A q \in Runs : q # r => chat'[q] = chat[q]
  BY DEF TypeOK
<1>6. chat' \in [Runs -> Seq(Chunks)]
  BY <1>3 DEF TypeOK
<1> QED BY <1>1, <1>2, <1>4, <1>5, <1>6

LEMMA TypeInit == Init => TypeOK
BY OutboxAssumption DEF Init, TypeOK, States, SenderState

LEMMA NowType ==
  ASSUME TypeOK, NEW s \in Senders, NEW at \in At, NEW r \in Runs, NEW c \in Chunks,
         Now(s, at, r, c)
  PROVE  sender' \in [Senders -> SenderState]
BY DEF TypeOK, Now, SenderState

LEMMA DoneType ==
  ASSUME TypeOK, NEW s \in Senders, Done(s)
  PROVE  sender' \in [Senders -> SenderState]
BY DEF TypeOK, Done, SenderState

LEMMA MarkedType ==
  ASSUME TypeOK, NEW r \in Runs, NEW c \in Chunks, NEW state \in States, Marked(r, c, state)
  PROVE  box' \in [Runs -> [Chunks -> States]]
BY CellUpdate DEF Marked, TypeOK

LEMMA DoubtfulType ==
  ASSUME TypeOK, NEW r \in Runs, NEW c \in Chunks, Doubtful(r, c)
  PROVE  doubt' \in [Runs -> [Chunks -> Nat]]
<1>1. doubt[r][c] + 1 \in Nat
  BY DEF TypeOK
<1> QED BY <1>1, CellUpdate DEF TypeOK, Doubtful

LEMMA LateType ==
  ASSUME TypeOK, NEW r \in Runs, NEW c \in Chunks,
         \/ late' = [late EXCEPT ![r][c] = @ + 1]
         \/ late[r][c] > 0 /\ late' = [late EXCEPT ![r][c] = @ - 1]
         \/ late' = late
  PROVE  late' \in [Runs -> [Chunks -> Nat]]
<1>1. late[r][c] \in Nat
  BY DEF TypeOK
<1>2. late[r][c] + 1 \in Nat /\ (late[r][c] > 0 => late[r][c] - 1 \in Nat)
  BY <1>1
<1>3. late \in [Runs -> [Chunks -> Nat]]
  BY DEF TypeOK
<1>4. CASE late' = [late EXCEPT ![r][c] = @ + 1]
  BY <1>2, <1>3, <1>4, CellUpdate
<1>5. CASE late[r][c] > 0 /\ late' = [late EXCEPT ![r][c] = @ - 1]
  BY <1>2, <1>3, <1>5, CellUpdate
<1> QED BY <1>3, <1>4, <1>5

LEMMA TypeStep == TypeOK /\ [Next]_vars => TypeOK'
<1> SUFFICES ASSUME TypeOK, [Next]_vars PROVE TypeOK'
  OBVIOUS
<1> USE DEF TypeOK
<1>0. faults' = faults \/ Fault => faults' \in Nat
  BY DEF Fault
<1>1. ASSUME NEW r \in Runs, NEW n \in Chunks, Persist(r, n) PROVE TypeOK'
  <2>1. [c \in Chunks |-> IF c <= n /\ box[r][c] = "absent" THEN "pending" ELSE box[r][c]]
          \in [Chunks -> States]
    BY DEF States, Unsent, Due
  <2> QED BY <1>1, <2>1 DEF Persist
<1>2. ASSUME NEW r \in Runs, Discard(r) PROVE TypeOK'
  <2>1. [c \in Chunks |-> IF box[r][c] \in Unsent THEN "absent" ELSE box[r][c]]
          \in [Chunks -> States]
    BY DEF States
  <2>2. [c \in Chunks |-> doubt[r][c] + (IF InFlight(r, c) THEN 1 ELSE 0)] \in [Chunks -> Nat]
    OBVIOUS
  <2>3. faults' \in Nat
    BY <1>0, <1>2 DEF Discard
  <2> QED BY <1>2, <2>1, <2>2, <2>3 DEF Discard
<1>3. ASSUME NEW s \in Senders, NEW R \in SUBSET Runs, Claim(s, R) PROVE TypeOK'
  <2>1. PICK r \in R, c \in Chunks :
          /\ IF box[r][c] = "stale" THEN Doubtful(r, c) ELSE UNCHANGED doubt
          /\ box' = [box EXCEPT ![r][c] = "sending"]
          /\ Now(s, "calling", r, c)
    BY <1>3 DEF Claim
  <2>0. r \in Runs
    OBVIOUS
  <2>2. box' \in [Runs -> [Chunks -> States]]
    BY <2>0, <2>1, CellUpdate DEF States, Unsent
  <2>3. sender' \in [Senders -> SenderState]
    BY <2>0, <2>1, NowType DEF At
  <2>4. doubt' \in [Runs -> [Chunks -> Nat]]
    BY <2>0, <2>1, DoubtfulType
  <2> QED BY <1>3, <2>2, <2>3, <2>4 DEF Claim
<1>4. ASSUME NEW s \in Senders, NEW r \in Runs, NEW c \in Chunks,
             \/ Accept(s, r, c) \/ Reject(s, r, c) \/ GiveUp(s, r, c) \/ LoseAnswer(s, r, c)
      PROVE  TypeOK'
  <2>1. sender' \in [Senders -> SenderState]
    BY <1>4, NowType DEF Accept, Reject, GiveUp, LoseAnswer, At
  <2>2. chat' \in [Runs -> Seq(Chunks)]
    BY <1>4, Appended DEF Accept, Reject, GiveUp, LoseAnswer
  <2>3. /\ doubt' \in [Runs -> [Chunks -> Nat]]
        /\ late' \in [Runs -> [Chunks -> Nat]]
    BY <1>4, DoubtfulType, LateType DEF Accept, Reject, GiveUp, LoseAnswer
  <2>4. faults' \in Nat /\ box' = box
    BY <1>0, <1>4 DEF Accept, Reject, GiveUp, LoseAnswer
  <2> QED BY <2>1, <2>2, <2>3, <2>4
<1>5. ASSUME NEW s \in Senders, NEW r \in Runs, NEW c \in Chunks,
             Complete(s, r, c) \/ Retry(s, r, c) \/ Die(s, r, c)
      PROVE  TypeOK'
  <2>1. sender' \in [Senders -> SenderState]
    BY <1>5, DoneType DEF Complete, Retry, Die
  <2>2. box' \in [Runs -> [Chunks -> States]]
    BY <1>5, MarkedType DEF Complete, Retry, Die, States, Unsent
  <2>3. late' \in [Runs -> [Chunks -> Nat]]
    BY <1>5, LateType DEF Complete, Retry, Die
  <2>4. faults' \in Nat /\ chat' = chat /\ doubt' = doubt
    BY <1>0, <1>5 DEF Complete, Retry, Die
  <2> QED BY <2>1, <2>2, <2>3, <2>4
<1>6. ASSUME NEW r \in Runs, NEW c \in Chunks, LateAccept(r, c) \/ LateLoss(r, c) PROVE TypeOK'
  <2>1. late' \in [Runs -> [Chunks -> Nat]]
    BY <1>6, LateType DEF LateAccept, LateLoss
  <2>2. chat' \in [Runs -> Seq(Chunks)]
    BY <1>6, Appended DEF LateAccept, LateLoss
  <2> QED BY <1>6, <2>1, <2>2 DEF LateAccept, LateLoss
<1>7. ASSUME NEW r \in Runs, NEW c \in Chunks, BackoffEnds(r, c) \/ GoesStale(r, c)
      PROVE  TypeOK'
  <2>1. box' \in [Runs -> [Chunks -> States]]
    <3>1. "due" \in States /\ "stale" \in States
      BY DEF States, Unsent, Due
    <3>2. PICK v \in States : box' = [box EXCEPT ![r][c] = v]
      BY <1>7, <3>1 DEF BackoffEnds, GoesStale
    <3>3. box \in [Runs -> [Chunks -> States]]
      OBVIOUS
    <3> QED BY <3>2, <3>3, CellUpdate
  <2>2. faults' \in Nat
    BY <1>0, <1>7 DEF BackoffEnds, GoesStale
  <2> QED BY <1>7, <2>1, <2>2 DEF BackoffEnds, GoesStale
<1>8. CASE UNCHANGED vars
  BY <1>8 DEF vars
<1> QED
  BY <1>1, <1>2, <1>3, <1>4, <1>5, <1>6, <1>7, <1>8 DEF Next, Answer, Record

(* Rows, senders, chats and counters keep their types. *)
THEOREM TypeCorrect == Spec => []TypeOK
<1> QED BY TypeInit, TypeStep, PTL DEF Spec

-----------------------------------------------------------------------------
(* The strengthening: whatever may still put a chunk into the chat - a     *)
(* sender at it, a late request, a row a claim may take - is only there    *)
(* when every earlier chunk already is in the chat, or stands before it in *)
(* the outbox.                                                             *)
Ahead(r, c) == \A d \in Chunks : d < c => Delivered(r, d)

SendersInOrder ==
  \A s \in Senders, r \in Runs, c \in Chunks, at \in At :
    Is(s, at, r, c) => Ahead(r, c) /\ (at = "answered" => Delivered(r, c))

LateInOrder == \A r \in Runs, c \in Chunks : late[r][c] > 0 => Ahead(r, c)

RowsInOrder ==
  \A r \in Runs, c \in Chunks, d \in Chunks :
    box[r][c] \in Unsent /\ d < c /\ box[r][d] = "absent" => Delivered(r, d)

IInv == TypeOK /\ InOrder /\ SentWasDelivered /\ SendersInOrder /\ LateInOrder /\ RowsInOrder

LEMMA IInvInit == Init => IInv
<1> SUFFICES ASSUME Init PROVE IInv
  OBVIOUS
<1>1. TypeOK
  BY TypeInit
<1>2. InOrder
  BY DEF Init, InOrder
<1>3. SentWasDelivered /\ RowsInOrder
  BY DEF Init, SentWasDelivered, RowsInOrder, Unsent, Due
<1>4. SendersInOrder
  BY DEF Init, SendersInOrder, Is, Idle, At
<1>5. LateInOrder
  BY DEF Init, LateInOrder
<1> QED BY <1>1, <1>2, <1>3, <1>4, <1>5 DEF IInv

(* Nothing leaves a chat. *)
LEMMA StaysDelivered ==
  ASSUME TypeOK, NEW q \in Runs, NEW d \in Chunks, Delivered(q, d),
         \/ chat' = chat
         \/ \E r \in Runs, c \in Chunks : chat' = [chat EXCEPT ![r] = Append(@, c)]
  PROVE  Delivered(q, d)'
<1>1. CASE chat' = chat
  BY <1>1 DEF Delivered
<1>2. ASSUME NEW r \in Runs, NEW c \in Chunks, chat' = [chat EXCEPT ![r] = Append(@, c)]
      PROVE  Delivered(q, d)'
  <2>1. CASE q # r
    BY <1>2, <2>1, Appended DEF Delivered
  <2>2. CASE q = r
    <3>1. PICK i \in DOMAIN chat[q] : chat[q][i] = d
      BY DEF Delivered
    <3>2. chat[q] \in Seq(Chunks)
      BY DEF TypeOK
    <3>3. i \in 1 .. Len(chat[q])
      BY <3>1, <3>2
    <3>4. chat'[q][i] = d /\ DOMAIN chat'[q] = 1 .. Len(chat[q]) + 1
      BY <1>2, <2>2, <3>1, <3>3, Appended
    <3>5. Len(chat[q]) \in Nat
      BY <3>2
    <3>6. i \in DOMAIN chat'[q]
      BY <3>3, <3>4, <3>5
    <3> QED BY <3>4, <3>6 DEF Delivered
  <2> QED BY <2>1, <2>2
<1> QED BY <1>1, <1>2

(* A message that arrives with every earlier chunk ahead of it keeps the   *)
(* chat in order, and is in it.                                            *)
LEMMA AppendInOrder ==
  ASSUME TypeOK, InOrder, NEW r \in Runs, NEW c \in Chunks, Ahead(r, c),
         chat' = [chat EXCEPT ![r] = Append(@, c)]
  PROVE  InOrder' /\ Delivered(r, c)'
<1> DEFINE n == Len(chat[r])
<1>0. chat[r] \in Seq(Chunks) /\ n \in Nat /\ DOMAIN chat[r] = 1 .. n
  <2>1. chat[r] \in Seq(Chunks)
    BY Appended
  <2> QED BY <2>1
<1>1. /\ \A q \in Runs : q # r => chat'[q] = chat[q]
      /\ DOMAIN chat'[r] = 1 .. n + 1
      /\ \A i \in 1 .. n : chat'[r][i] = chat[r][i]
      /\ chat'[r][n + 1] = c
  BY Appended
<1> HIDE DEF n
<1>2. Delivered(r, c)'
  BY <1>0, <1>1 DEF Delivered
<1>3. SUFFICES ASSUME NEW q \in Runs, NEW i \in DOMAIN chat'[q], NEW d \in Chunks,
                      d < chat'[q][i]
               PROVE  \E h \in 1 .. i - 1 : chat'[q][h] = d
  BY <1>2 DEF InOrder
<1>4. CASE q # r
  BY <1>1, <1>3, <1>4 DEF InOrder
<1>5. CASE q = r /\ i \in 1 .. n
  <2>1. PICK h \in 1 .. i - 1 : chat[r][h] = d
    BY <1>0, <1>1, <1>3, <1>5 DEF InOrder
  <2>2. h \in 1 .. n
    BY <1>0, <1>5
  <2> QED BY <1>1, <1>5, <2>1, <2>2
<1>6. CASE q = r /\ i = n + 1
  <2>1. PICK h \in 1 .. n : chat[r][h] = d
    BY <1>0, <1>1, <1>3, <1>6 DEF Ahead, Delivered
  <2>2. h \in 1 .. i - 1
    BY <1>0, <1>6
  <2> QED BY <1>1, <1>6, <2>1, <2>2
<1> QED BY <1>0, <1>1, <1>3, <1>4, <1>5, <1>6

-----------------------------------------------------------------------------
(* The chat only grows, and each growth is a message of a sender or a late *)
(* request that was ahead of nothing.                                      *)
LEMMA ChatStep ==
  ASSUME TypeOK, [Next]_vars
  PROVE  \/ chat' = chat
         \/ \E r \in Runs, c \in Chunks :
              /\ chat' = [chat EXCEPT ![r] = Append(@, c)]
              /\ \/ late[r][c] > 0
                 \/ \E s \in Senders : Is(s, "calling", r, c)
BY DEF Next, Persist, Discard, Claim, Answer, Accept, Reject, GiveUp, LoseAnswer, Record,
       Complete, Retry, Die, LateAccept, LateLoss, BackoffEnds, GoesStale, vars

LEMMA Monotone ==
  ASSUME TypeOK, [Next]_vars
  PROVE  \A r \in Runs, c \in Chunks : /\ Delivered(r, c) => Delivered(r, c)'
                                       /\ Ahead(r, c) => Ahead(r, c)'
<1>1. \A r \in Runs, c \in Chunks : Delivered(r, c) => Delivered(r, c)'
  BY ChatStep, StaysDelivered
<1> QED BY <1>1 DEF Ahead

LEMMA InOrderStep == IInv /\ [Next]_vars => InOrder'
<1> SUFFICES ASSUME IInv, [Next]_vars PROVE InOrder'
  OBVIOUS
<1> USE DEF IInv
<1>1. CASE chat' = chat
  BY <1>1 DEF InOrder
<1>2. ASSUME NEW r \in Runs, NEW c \in Chunks,
             chat' = [chat EXCEPT ![r] = Append(@, c)],
             late[r][c] > 0 \/ \E s \in Senders : Is(s, "calling", r, c)
      PROVE  InOrder'
  <2>1. Ahead(r, c)
    BY <1>2 DEF SendersInOrder, LateInOrder, At
  <2> QED BY <1>2, <2>1, AppendInOrder
<1> QED BY <1>1, <1>2, ChatStep

(* What a sender is at after a step. *)
LEMMA SenderStep ==
  ASSUME IInv, [Next]_vars, NEW s \in Senders, NEW r \in Runs, NEW c \in Chunks, NEW at \in At,
         Is(s, at, r, c)'
  PROVE  \/ Is(s, at, r, c)
         \/ at = "calling" /\ FirstUnsent(r, c) /\ box[r][c] \in Unsent
         \/ at = "answered" /\ Is(s, "calling", r, c) /\ chat' = [chat EXCEPT ![r] = Append(@, c)]
         \/ at = "failed" /\ \E was \in At : Is(s, was, r, c)
<1> USE DEF IInv
<1>0. sender \in [Senders -> SenderState]
  BY DEF TypeOK
<1>1. CASE sender' = sender
  BY <1>1 DEF Is
<1>2. ASSUME NEW t \in Senders, NEW R \in SUBSET Runs, Claim(t, R)
      PROVE  Is(s, at, r, c) \/ (at = "calling" /\ FirstUnsent(r, c) /\ box[r][c] \in Unsent)
  <2>1. PICK q \in R, d \in Chunks : Claimable(q, d) /\ Now(t, "calling", q, d)
    BY <1>2 DEF Claim
  <2>2. CASE s = t
    <3>1. at = "calling" /\ r = q /\ c = d
      BY <1>0, <2>1, <2>2 DEF Now, Is
    <3> QED BY <2>1, <3>1 DEF Claimable, Unsent
  <2>3. CASE s # t
    BY <1>0, <2>1, <2>3 DEF Now, Is
  <2> QED BY <2>2, <2>3
<1>3. ASSUME NEW t \in Senders, NEW q \in Runs, NEW d \in Chunks, Accept(t, q, d)
      PROVE  \/ Is(s, at, r, c)
             \/ at = "answered" /\ Is(s, "calling", r, c) /\ chat' = [chat EXCEPT ![r] = Append(@, c)]
  BY <1>0, <1>3 DEF Accept, Now, Is
<1>4. ASSUME NEW t \in Senders, NEW q \in Runs, NEW d \in Chunks,
             Reject(t, q, d) \/ GiveUp(t, q, d) \/ LoseAnswer(t, q, d)
      PROVE  \/ Is(s, at, r, c)
             \/ at = "failed" /\ \E was \in At : Is(s, was, r, c)
  BY <1>0, <1>4 DEF Reject, GiveUp, LoseAnswer, Now, Is, At
<1>5. ASSUME NEW t \in Senders, NEW q \in Runs, NEW d \in Chunks,
             Complete(t, q, d) \/ Retry(t, q, d) \/ Die(t, q, d)
      PROVE  Is(s, at, r, c)
  BY <1>0, <1>5 DEF Complete, Retry, Die, Done, Is, Idle, At
<1> QED
  BY <1>1, <1>2, <1>3, <1>4, <1>5
  DEF Next, Persist, Discard, Answer, Record, LateAccept, LateLoss, BackoffEnds, GoesStale, vars

(* A row that may be claimed has every earlier chunk in the chat. *)
LEMMA ClaimAhead ==
  ASSUME IInv, NEW r \in Runs, NEW c \in Chunks, FirstUnsent(r, c), box[r][c] \in Unsent
  PROVE  Ahead(r, c)
<1> SUFFICES ASSUME NEW d \in Chunks, d < c PROVE Delivered(r, d)
  BY DEF Ahead
<1>1. box[r][d] \in {"absent", "sent"}
  BY DEF IInv, TypeOK, States, FirstUnsent
<1> QED BY <1>1 DEF IInv, SentWasDelivered, RowsInOrder

LEMMA SendersStep == IInv /\ [Next]_vars => SendersInOrder'
<1> SUFFICES ASSUME IInv, [Next]_vars, NEW s \in Senders, NEW r \in Runs, NEW c \in Chunks,
                    NEW at \in At, Is(s, at, r, c)'
             PROVE  Ahead(r, c)' /\ (at = "answered" => Delivered(r, c)')
  BY DEF SendersInOrder
<1> USE DEF IInv
<1>1. CASE Is(s, at, r, c)
  BY <1>1, Monotone DEF SendersInOrder
<1>2. CASE at = "calling" /\ FirstUnsent(r, c) /\ box[r][c] \in Unsent
  BY <1>2, ClaimAhead, Monotone
<1>3. CASE at = "answered" /\ Is(s, "calling", r, c) /\ chat' = [chat EXCEPT ![r] = Append(@, c)]
  <2>1. Ahead(r, c)
    BY <1>3 DEF SendersInOrder, At
  <2> QED BY <1>3, <2>1, AppendInOrder, Monotone
<1>4. CASE at = "failed" /\ \E was \in At : Is(s, was, r, c)
  BY <1>4, Monotone DEF SendersInOrder
<1> QED BY <1>1, <1>2, <1>3, <1>4, SenderStep

LEMMA LateStep == IInv /\ [Next]_vars => LateInOrder'
<1> SUFFICES ASSUME IInv, [Next]_vars, NEW r \in Runs, NEW c \in Chunks, late'[r][c] > 0
             PROVE  Ahead(r, c)'
  BY DEF LateInOrder
<1> USE DEF IInv
<1>0. late \in [Runs -> [Chunks -> Nat]]
  BY DEF TypeOK
<1>1. CASE late[r][c] > 0
  BY <1>1, Monotone DEF LateInOrder
<1>2. CASE ~(late[r][c] > 0)
  <2>0. late[r][c] \in Nat /\ late[r][c] = 0
    BY <1>0, <1>2
  <2>1. ASSUME NEW s \in Senders, NEW q \in Runs, NEW d \in Chunks,
               GiveUp(s, q, d) \/ (Die(s, q, d) /\ late' # late)
        PROVE  Ahead(r, c)
    <3>1. Is(s, "calling", q, d) /\ late' = [late EXCEPT ![q][d] = @ + 1]
      BY <2>1 DEF GiveUp, Die
    <3>2. late[q][d] + 1 \in Nat
      BY <1>0
    <3>3. q = r /\ d = c
      BY <1>0, <1>2, <3>1, <3>2, CellUpdate
    <3> QED BY <3>1, <3>3 DEF SendersInOrder, At
  <2>2. ASSUME NEW q \in Runs, NEW d \in Chunks, LateAccept(q, d) \/ LateLoss(q, d)
        PROVE  FALSE
    <3>1. late[q][d] > 0 /\ late' = [late EXCEPT ![q][d] = late[q][d] - 1]
      BY <2>2 DEF LateAccept, LateLoss
    <3>2. late[q][d] - 1 \in Nat /\ ~(q = r /\ d = c)
      BY <1>0, <1>2, <3>1
    <3>3. late'[r][c] = late[r][c]
      BY <1>0, <3>1, <3>2, CellUpdate
    <3> QED BY <1>2, <3>3
  <2>3. late' # late
    BY <1>2
  <2>4. \/ late' = late
        \/ \E s \in Senders, q \in Runs, d \in Chunks : GiveUp(s, q, d) \/ Die(s, q, d)
        \/ \E q \in Runs, d \in Chunks : LateAccept(q, d) \/ LateLoss(q, d)
    BY DEF Next, Persist, Discard, Claim, Answer, Accept, Reject, LoseAnswer, Record, Complete,
           Retry, BackoffEnds, GoesStale, vars
  <2>5. Ahead(r, c)
    BY <2>1, <2>2, <2>3, <2>4
  <2> QED BY <2>5, Monotone
<1> QED BY <1>1, <1>2

-----------------------------------------------------------------------------
(* What a row may become in a step, and why. *)
LEMMA RowStep ==
  ASSUME TypeOK, [Next]_vars, NEW r \in Runs, NEW c \in Chunks
  PROVE  \/ box'[r][c] = box[r][c]
         \/ box[r][c] = "absent" /\ box'[r][c] = "pending"
              /\ \A d \in Chunks : d < c => box'[r][d] # "absent"
         \/ box[r][c] \in Unsent /\ box'[r][c] = "absent"
              /\ \A d \in Chunks : box'[r][d] \notin Unsent
         \/ box[r][c] \in Unsent /\ box'[r][c] \in Unsent
         \/ box[r][c] # "absent" /\ box'[r][c] = "sent"
              /\ \E s \in Senders : Is(s, "answered", r, c)
         \/ box[r][c] # "absent" /\ box'[r][c] = "waiting"
              /\ \E s \in Senders : Is(s, "failed", r, c)
<1>0. box \in [Runs -> [Chunks -> States]]
  BY DEF TypeOK
<1>1. CASE box' = box
  BY <1>1
<1>2. ASSUME NEW q \in Runs, NEW n \in Chunks, Persist(q, n)
      PROVE  \/ box'[r][c] = box[r][c]
             \/ box[r][c] = "absent" /\ box'[r][c] = "pending"
                  /\ \A d \in Chunks : d < c => box'[r][d] # "absent"
  <2>1. CASE q # r
    BY <1>0, <1>2, <2>1 DEF Persist
  <2>2. CASE q = r
    <3>1. \A d \in Chunks :
            box'[r][d] = IF d <= n /\ box[r][d] = "absent" THEN "pending" ELSE box[r][d]
      BY <1>0, <1>2, <2>2 DEF Persist
    <3>2. Chunks \subseteq Nat
      BY OutboxAssumption DEF Chunks
    <3> QED BY <3>1, <3>2
  <2> QED BY <2>1, <2>2
<1>3. ASSUME NEW q \in Runs, Discard(q)
      PROVE  \/ box'[r][c] = box[r][c]
             \/ box[r][c] \in Unsent /\ box'[r][c] = "absent"
                  /\ \A d \in Chunks : box'[r][d] \notin Unsent
  <2>1. CASE q # r
    BY <1>0, <1>3, <2>1 DEF Discard
  <2>2. CASE q = r
    <3>1. \A d \in Chunks : box'[r][d] = IF box[r][d] \in Unsent THEN "absent" ELSE box[r][d]
      BY <1>0, <1>3, <2>2 DEF Discard
    <3> QED BY <3>1 DEF Unsent, Due
  <2> QED BY <2>1, <2>2
<1>4. ASSUME NEW q \in Runs, NEW d \in Chunks, NEW v \in Unsent, box[q][d] \in Unsent,
             box' = [box EXCEPT ![q][d] = v]
      PROVE  box'[r][c] = box[r][c] \/ (box[r][c] \in Unsent /\ box'[r][c] \in Unsent)
  BY <1>0, <1>4, CellUpdate DEF States
<1>5. ASSUME NEW s \in Senders, NEW R \in SUBSET Runs, Claim(s, R)
      PROVE  box'[r][c] = box[r][c] \/ (box[r][c] \in Unsent /\ box'[r][c] \in Unsent)
  <2>1. PICK q \in R, d \in Chunks : Claimable(q, d) /\ box' = [box EXCEPT ![q][d] = "sending"]
    BY <1>5 DEF Claim
  <2>2. q \in Runs /\ box[q][d] \in Unsent /\ "sending" \in Unsent
    BY <2>1 DEF Claimable, Unsent
  <2> QED BY <1>4, <2>1, <2>2
<1>6. ASSUME NEW q \in Runs, NEW d \in Chunks, BackoffEnds(q, d) \/ GoesStale(q, d)
      PROVE  box'[r][c] = box[r][c] \/ (box[r][c] \in Unsent /\ box'[r][c] \in Unsent)
  <2>1. box[q][d] \in Unsent /\ "due" \in Unsent /\ "stale" \in Unsent
    BY <1>6 DEF BackoffEnds, GoesStale, Unsent, Due
  <2>2. PICK v \in Unsent : box' = [box EXCEPT ![q][d] = v]
    BY <1>6, <2>1 DEF BackoffEnds, GoesStale
  <2> QED BY <1>4, <2>1, <2>2
<1>7. ASSUME NEW q \in Runs, NEW d \in Chunks, NEW v \in States, Marked(q, d, v)
      PROVE  box'[r][c] = box[r][c] \/ (q = r /\ d = c /\ box[r][c] # "absent" /\ box'[r][c] = v)
  BY <1>0, <1>7, CellUpdate DEF Marked
<1>8. ASSUME NEW s \in Senders, NEW q \in Runs, NEW d \in Chunks, Complete(s, q, d)
      PROVE  \/ box'[r][c] = box[r][c]
             \/ box[r][c] # "absent" /\ box'[r][c] = "sent" /\ Is(s, "answered", r, c)
  <2>1. "sent" \in States /\ Marked(q, d, "sent") /\ Is(s, "answered", q, d)
    BY <1>8 DEF Complete, States
  <2> QED BY <1>7, <2>1
<1>9. ASSUME NEW s \in Senders, NEW q \in Runs, NEW d \in Chunks, Retry(s, q, d)
      PROVE  \/ box'[r][c] = box[r][c]
             \/ box[r][c] # "absent" /\ box'[r][c] = "waiting" /\ Is(s, "failed", r, c)
  <2>1. "waiting" \in States /\ Marked(q, d, "waiting") /\ Is(s, "failed", q, d)
    BY <1>9 DEF Retry, States, Unsent
  <2> QED BY <1>7, <2>1
<1>10. \/ box' = box
       \/ \E q \in Runs : Discard(q) \/ \E n \in Chunks : Persist(q, n)
       \/ \E s \in Senders, R \in SUBSET Runs : Claim(s, R)
       \/ \E q \in Runs, d \in Chunks : BackoffEnds(q, d) \/ GoesStale(q, d)
       \/ \E s \in Senders, q \in Runs, d \in Chunks : Complete(s, q, d) \/ Retry(s, q, d)
  <2>1. ASSUME NEW s \in Senders, Claim(s, Runs)
        PROVE  \E R \in SUBSET Runs : Claim(s, R)
    BY <2>1
  <2>2. ASSUME NEW s \in Senders, NEW q \in Runs, Claim(s, {q})
        PROVE  \E R \in SUBSET Runs : Claim(s, R)
    <3>1. {q} \in SUBSET Runs
      OBVIOUS
    <3> QED BY <2>2, <3>1
  <2>3. ASSUME NEW s \in Senders, NEW q \in Runs, NEW d \in Chunks,
               Answer(s, q, d) \/ LoseAnswer(s, q, d) \/ Die(s, q, d)
        PROVE  box' = box
    BY <2>3 DEF Answer, Accept, Reject, GiveUp, LoseAnswer, Die
  <2>4. ASSUME NEW q \in Runs, NEW d \in Chunks, LateAccept(q, d) \/ LateLoss(q, d)
        PROVE  box' = box
    BY <2>4 DEF LateAccept, LateLoss
  <2> QED
    BY <2>1, <2>2, <2>3, <2>4 DEF Next, Record, vars
<1> QED BY <1>1, <1>2, <1>3, <1>5, <1>6, <1>8, <1>9, <1>10

LEMMA SentStep == IInv /\ [Next]_vars => SentWasDelivered'
<1> SUFFICES ASSUME IInv, [Next]_vars, NEW r \in Runs, NEW c \in Chunks, box'[r][c] = "sent"
             PROVE  Delivered(r, c)'
  BY DEF SentWasDelivered
<1>1. Delivered(r, c)
  <2>1. CASE box[r][c] = "sent"
    BY <2>1 DEF IInv, SentWasDelivered
  <2>2. CASE box[r][c] # "sent"
    <3>1. \E s \in Senders : Is(s, "answered", r, c)
      BY <2>2, RowStep DEF IInv, Unsent, Due
    <3> QED BY <3>1 DEF IInv, SendersInOrder, At
  <2> QED BY <2>1, <2>2
<1> QED BY <1>1, Monotone DEF IInv

LEMMA RowsStep == IInv /\ [Next]_vars => RowsInOrder'
<1> SUFFICES ASSUME IInv, [Next]_vars, NEW r \in Runs, NEW c \in Chunks, NEW d \in Chunks,
                    box'[r][c] \in Unsent, d < c, box'[r][d] = "absent"
             PROVE  Delivered(r, d)'
  BY DEF RowsInOrder
<1> USE DEF IInv
<1>1. box[r][d] = "absent"
  BY RowStep DEF Unsent, Due
<1>2. CASE box[r][c] \in Unsent
  BY <1>1, <1>2, Monotone DEF RowsInOrder
<1>3. CASE box[r][c] \notin Unsent
  <2>1. \E s \in Senders : Is(s, "failed", r, c)
    BY <1>3, RowStep DEF Unsent, Due
  <2>2. Ahead(r, c)
    BY <2>1 DEF SendersInOrder, At
  <2> QED BY <2>2, Monotone DEF Ahead
<1> QED BY <1>2, <1>3

LEMMA IInvStep == IInv /\ [Next]_vars => IInv'
BY TypeStep, InOrderStep, SentStep, SendersStep, LateStep, RowsStep DEF IInv

(* The strengthening is an invariant of the outbox. *)
THEOREM Inductive == Spec => []IInv
<1> QED BY IInvInit, IInvStep, PTL DEF Spec

(* Readers of a chat meet the chunks of a run in order. *)
THEOREM ChatInOrder == Spec => []InOrder
<1>1. IInv => InOrder
  BY DEF IInv
<1> QED BY Inductive, <1>1, PTL

(* No row claims a delivery that did not happen. *)
THEOREM SentIsTrue == Spec => []SentWasDelivered
<1>1. IInv => SentWasDelivered
  BY DEF IInv
<1> QED BY Inductive, <1>1, PTL

-----------------------------------------------------------------------------
(* What bounds the duplicates: every message in the chat, every request on *)
(* its way, every sender that may still get one accepted or bring the row  *)
(* back, and a row that waits for its next attempt, is paid for by an      *)
(* attempt that was given up, but for one.                                 *)
Trying(r, c) == {s \in Senders : Is(s, "calling", r, c) \/ Is(s, "failed", r, c)}

Open(r, c) == IF box[r][c] \in {"absent", "pending", "due", "waiting"} THEN 1 ELSE 0

Count(r, c) == Cardinality(Occurrences(r, c))

Budget ==
  \A r \in Runs, c \in Chunks :
    Count(r, c) + late[r][c] + Cardinality(Trying(r, c)) + Open(r, c) <= 1 + doubt[r][c]

LEMMA CountType ==
  ASSUME TypeOK, NEW r \in Runs, NEW c \in Chunks
  PROVE  IsFiniteSet(Occurrences(r, c)) /\ Count(r, c) \in Nat
<1>1. chat[r] \in Seq(Chunks)
  BY DEF TypeOK
<1>2. Len(chat[r]) \in Nat /\ DOMAIN chat[r] = 1 .. Len(chat[r])
  BY <1>1
<1>3. IsFiniteSet(1 .. Len(chat[r]))
  BY <1>2, FS_Interval
<1>4. Occurrences(r, c) \in SUBSET (1 .. Len(chat[r]))
  BY <1>2 DEF Occurrences
<1>5. IsFiniteSet(Occurrences(r, c))
  BY <1>3, <1>4, FS_Subset
<1> QED BY <1>5, FS_CardinalityType DEF Count

LEMMA TryingType ==
  ASSUME NEW r, NEW c
  PROVE  IsFiniteSet(Trying(r, c)) /\ Cardinality(Trying(r, c)) \in Nat
<1>1. Trying(r, c) \in SUBSET Senders
  BY DEF Trying
<1>2. IsFiniteSet(Trying(r, c))
  BY <1>1, OutboxAssumption, FS_Subset
<1> QED BY <1>2, FS_CardinalityType

(* A message more in the chat counts for its chunk only. *)
LEMMA CountAppended ==
  ASSUME TypeOK, NEW q \in Runs, NEW d \in Chunks, chat' = [chat EXCEPT ![q] = Append(@, d)],
         NEW r \in Runs, NEW c \in Chunks
  PROVE  Count(r, c)' = Count(r, c) + (IF r = q /\ c = d THEN 1 ELSE 0)
<1>0. IsFiniteSet(Occurrences(r, c)) /\ Count(r, c) \in Nat
  BY CountType
<1>1. CASE r # q
  <2>1. chat'[r] = chat[r]
    BY <1>1, Appended
  <2>2. Occurrences(r, c)' = Occurrences(r, c)
    BY <2>1 DEF Occurrences
  <2> QED BY <1>0, <1>1, <2>2 DEF Count
<1>2. CASE r = q
  <2> DEFINE n == Len(chat[r]) + 1
  <2>1. /\ chat[r] \in Seq(Chunks) /\ DOMAIN chat'[r] = 1 .. n
        /\ \A i \in 1 .. Len(chat[r]) : chat'[r][i] = chat[r][i]
        /\ chat'[r][n] = d
    BY <1>2, Appended
  <2>2. Len(chat[r]) \in Nat /\ DOMAIN chat[r] = 1 .. Len(chat[r])
    BY <2>1
  <2>3. n \notin Occurrences(r, c)
    BY <2>2 DEF Occurrences
  <2>4. CASE c = d
    <3>1. Occurrences(r, c)' = Occurrences(r, c) \cup {n}
      BY <2>1, <2>2, <2>4 DEF Occurrences
    <3> HIDE DEF n
    <3>2. Cardinality(Occurrences(r, c) \cup {n}) = Cardinality(Occurrences(r, c)) + 1
      BY <1>0, <2>3, FS_AddElement
    <3> QED BY <1>2, <2>4, <3>1, <3>2 DEF Count
  <2>5. CASE c # d
    <3>1. Occurrences(r, c)' = Occurrences(r, c)
      BY <2>1, <2>2, <2>5 DEF Occurrences
    <3> QED BY <1>0, <2>5, <3>1 DEF Count
  <2> QED BY <2>4, <2>5
<1> QED BY <1>1, <1>2

(* One sender at a time moves. *)
LEMMA TryingMoved ==
  ASSUME TypeOK, NEW s \in Senders, NEW x \in SenderState, sender' = [sender EXCEPT ![s] = x],
         NEW r \in Runs, NEW c \in Chunks
  PROVE  Cardinality(Trying(r, c)') =
           Cardinality(Trying(r, c)) - (IF s \in Trying(r, c) THEN 1 ELSE 0)
             + (IF s \in Trying(r, c)' THEN 1 ELSE 0)
<1> DEFINE T == Trying(r, c)
           U == Trying(r, c)'
<1>1. IsFiniteSet(T) /\ Cardinality(T) \in Nat
  BY TryingType
<1>2. U \in SUBSET Senders
  BY DEF Trying
<1>3. IsFiniteSet(U)
  BY <1>2, OutboxAssumption, FS_Subset
<1>4. Cardinality(U) \in Nat
  BY <1>3, FS_CardinalityType
<1>5. T \ {s} = U \ {s}
  <2>1. \A t \in Senders : t # s => sender'[t] = sender[t]
    BY DEF TypeOK
  <2> QED BY <2>1 DEF Trying, Is
<1> HIDE DEF T, U
<1>6. Cardinality(T \ {s}) = IF s \in T THEN Cardinality(T) - 1 ELSE Cardinality(T)
  BY <1>1, FS_RemoveElement
<1>7. Cardinality(U \ {s}) = IF s \in U THEN Cardinality(U) - 1 ELSE Cardinality(U)
  BY <1>3, FS_RemoveElement
<1>8. Cardinality(U) = Cardinality(T) - (IF s \in T THEN 1 ELSE 0) + (IF s \in U THEN 1 ELSE 0)
  <2>1. Cardinality(T \ {s}) = Cardinality(U \ {s})
    BY <1>5, Zenon
  <2> QED BY <1>1, <1>4, <1>6, <1>7, <2>1
<1> QED BY <1>8 DEF T, U

(* From an attempt to its next stage, and out of it.  The weight of a      *)
(* stage is 1 when the attempt may still be accepted or sent again.        *)
LEMMA TryingNow ==
  ASSUME TypeOK, NEW s \in Senders, NEW q \in Runs, NEW d \in Chunks, NEW to \in At,
         sender[s] = Idle \/ \E at \in At : Is(s, at, q, d), Now(s, to, q, d),
         NEW r \in Runs, NEW c \in Chunks
  PROVE  Cardinality(Trying(r, c)') =
           IF r = q /\ c = d
           THEN Cardinality(Trying(r, c)) - (IF s \in Trying(q, d) THEN 1 ELSE 0)
                  + (IF to \in {"calling", "failed"} THEN 1 ELSE 0)
           ELSE Cardinality(Trying(r, c))
<1> DEFINE x == [at |-> to, run |-> q, chunk |-> d]
<1>1. x \in SenderState
  BY DEF SenderState
<1>2. sender' = [sender EXCEPT ![s] = x]
  BY DEF Now
<1>3. sender'[s] = x
  BY <1>2 DEF TypeOK
<1>4. s \in Trying(r, c)' <=> r = q /\ c = d /\ to \in {"calling", "failed"}
  BY <1>3 DEF Trying, Is
<1>5. s \in Trying(r, c) => r = q /\ c = d
  <2>1. CASE sender[s] = Idle
    BY <2>1 DEF Trying, Is, Idle
  <2>2. CASE \E at \in At : Is(s, at, q, d)
    BY <2>2 DEF Trying, Is
  <2> QED BY <2>1, <2>2
<1>6. Cardinality(Trying(r, c)) \in Nat
  BY TryingType
<1> HIDE DEF x
<1>7. Cardinality(Trying(r, c)') =
        Cardinality(Trying(r, c)) - (IF s \in Trying(r, c) THEN 1 ELSE 0)
          + (IF s \in Trying(r, c)' THEN 1 ELSE 0)
  BY <1>1, <1>2, TryingMoved
<1> QED BY <1>4, <1>5, <1>6, <1>7

LEMMA TryingDone ==
  ASSUME TypeOK, NEW s \in Senders, NEW q \in Runs, NEW d \in Chunks,
         \E at \in At : Is(s, at, q, d), Done(s),
         NEW r \in Runs, NEW c \in Chunks
  PROVE  Cardinality(Trying(r, c)') =
           IF r = q /\ c = d
           THEN Cardinality(Trying(r, c)) - (IF s \in Trying(q, d) THEN 1 ELSE 0)
           ELSE Cardinality(Trying(r, c))
<1>1. Idle \in SenderState
  BY DEF SenderState
<1>2. sender' = [sender EXCEPT ![s] = Idle]
  BY DEF Done
<1>3. sender'[s] = Idle
  BY <1>2 DEF TypeOK
<1>4. s \notin Trying(r, c)'
  BY <1>3 DEF Trying, Is, Idle
<1>5. s \in Trying(r, c) => r = q /\ c = d
  BY DEF Trying, Is
<1>6. Cardinality(Trying(r, c)) \in Nat
  BY TryingType
<1>7. Cardinality(Trying(r, c)') =
        Cardinality(Trying(r, c)) - (IF s \in Trying(r, c) THEN 1 ELSE 0)
          + (IF s \in Trying(r, c)' THEN 1 ELSE 0)
  BY <1>1, <1>2, TryingMoved
<1> QED BY <1>4, <1>5, <1>6, <1>7

LEMMA BudgetInit == Init => Budget
<1> SUFFICES ASSUME Init, NEW r \in Runs, NEW c \in Chunks
             PROVE  Count(r, c) + late[r][c] + Cardinality(Trying(r, c)) + Open(r, c) <= 1 + doubt[r][c]
  BY DEF Budget
<1>1. Occurrences(r, c) = {}
  BY DEF Init, Occurrences
<1>2. Trying(r, c) = {}
  BY DEF Init, Trying, Is, Idle
<1>3. late[r][c] = 0 /\ doubt[r][c] = 0 /\ Open(r, c) = 1
  BY DEF Init, Open
<1>4. Count(r, c) = 0 /\ Cardinality(Trying(r, c)) = 0
  BY <1>1, <1>2, FS_EmptySet DEF Count
<1> QED BY <1>3, <1>4

(* When no sender moves and nothing arrives, it is the row and its doubt.  *)
LEMMA BudgetOfRow ==
  ASSUME TypeOK, Budget, UNCHANGED <<sender, chat, late>>, NEW r \in Runs, NEW c \in Chunks,
         doubt'[r][c] \in Nat, Open(r, c)' + doubt[r][c] <= Open(r, c) + doubt'[r][c]
  PROVE  Count(r, c)' + late'[r][c] + Cardinality(Trying(r, c)') + Open(r, c)' <= 1 + doubt'[r][c]
<1>1. Count(r, c)' = Count(r, c) /\ Cardinality(Trying(r, c)') = Cardinality(Trying(r, c))
  BY DEF Count, Occurrences, Trying, Is
<1>2. Count(r, c) \in Nat /\ Cardinality(Trying(r, c)) \in Nat
  BY CountType, TryingType
<1>3. late[r][c] \in Nat /\ doubt[r][c] \in Nat /\ late'[r][c] = late[r][c]
  BY DEF TypeOK
<1>4. Count(r, c) + late[r][c] + Cardinality(Trying(r, c)) + Open(r, c) <= 1 + doubt[r][c]
  BY DEF Budget
<1>5. Open(r, c) \in {0, 1} /\ Open(r, c)' \in {0, 1}
  BY DEF Open
<1> QED BY <1>1, <1>2, <1>3, <1>4, <1>5

LEMMA BudgetStep == TypeOK /\ Budget /\ [Next]_vars => Budget'
<1> SUFFICES ASSUME TypeOK, Budget, [Next]_vars, NEW r \in Runs, NEW c \in Chunks
             PROVE  Count(r, c)' + late'[r][c] + Cardinality(Trying(r, c)') + Open(r, c)' <= 1 + doubt'[r][c]
  BY DEF Budget
<1> DEFINE Goal == Count(r, c)' + late'[r][c] + Cardinality(Trying(r, c)') + Open(r, c)' <= 1 + doubt'[r][c]
<1>a. Count(r, c) \in Nat /\ Cardinality(Trying(r, c)) \in Nat
  BY CountType, TryingType
<1>b. late[r][c] \in Nat /\ doubt[r][c] \in Nat /\ Open(r, c) \in {0, 1} /\ Open(r, c)' \in {0, 1}
  BY DEF TypeOK, Open
<1>c. Count(r, c) + late[r][c] + Cardinality(Trying(r, c)) + Open(r, c) <= 1 + doubt[r][c]
  BY DEF Budget
<1>d. /\ box \in [Runs -> [Chunks -> States]]
      /\ late \in [Runs -> [Chunks -> Nat]] /\ doubt \in [Runs -> [Chunks -> Nat]]
  BY DEF TypeOK
<1>e. chat' = chat => Count(r, c)' = Count(r, c)
  BY DEF Count, Occurrences
<1>f. box' = box => Open(r, c)' = Open(r, c)
  BY DEF Open
<1>g. ASSUME NEW q \in Runs, NEW d \in Chunks, Doubtful(q, d)
      PROVE  doubt'[r][c] = doubt[r][c] + (IF r = q /\ c = d THEN 1 ELSE 0)
  <2>1. doubt[q][d] + 1 \in Nat
    BY <1>d
  <2> QED BY <1>b, <1>d, <1>g, <2>1, CellUpdate DEF Doubtful
<1>h. ASSUME NEW q \in Runs, NEW d \in Chunks, late' = [late EXCEPT ![q][d] = @ + 1]
      PROVE  late'[r][c] = late[r][c] + (IF r = q /\ c = d THEN 1 ELSE 0)
  <2>1. late[q][d] + 1 \in Nat
    BY <1>d
  <2> QED BY <1>b, <1>d, <1>h, <2>1, CellUpdate
<1>i. ASSUME NEW q \in Runs, NEW d \in Chunks, late[q][d] > 0, late' = [late EXCEPT ![q][d] = @ - 1]
      PROVE  late'[r][c] = late[r][c] - (IF r = q /\ c = d THEN 1 ELSE 0)
  <2>1. late[q][d] - 1 \in Nat
    BY <1>d, <1>i
  <2> QED BY <1>b, <1>d, <1>i, <2>1, CellUpdate
<1>j. ASSUME NEW s \in Senders, NEW at \in At, NEW q \in Runs, NEW d \in Chunks, Is(s, at, q, d)
      PROVE  s \in Trying(q, d) <=> at \in {"calling", "failed"}
  BY <1>j DEF Trying, Is, At
<1> HIDE DEF Goal
<1>1. ASSUME NEW q \in Runs, NEW n \in Chunks, Persist(q, n) PROVE Goal
  <2>1. (box[r][c] = "absent" /\ box'[r][c] = "pending") \/ box'[r][c] = box[r][c]
    BY <1>1, <1>d DEF Persist
  <2>2. Open(r, c)' = Open(r, c) /\ doubt' = doubt
    BY <1>1, <2>1 DEF Persist, Open
  <2> QED BY <1>1, <1>b, <2>2, BudgetOfRow DEF Persist, Goal
<1>2. ASSUME NEW q \in Runs, Discard(q) PROVE Goal
  <2>1. CASE q # r
    <3>1. box'[r][c] = box[r][c] /\ doubt'[r][c] = doubt[r][c]
      BY <1>2, <1>d, <2>1 DEF Discard
    <3>2. Open(r, c)' = Open(r, c)
      BY <3>1 DEF Open
    <3> QED BY <1>2, <1>b, <3>1, <3>2, BudgetOfRow DEF Discard, Goal
  <2>2. CASE q = r
    <3>1. /\ box'[r][c] = IF box[r][c] \in Unsent THEN "absent" ELSE box[r][c]
          /\ doubt'[r][c] = doubt[r][c] + (IF InFlight(r, c) THEN 1 ELSE 0)
      BY <1>2, <1>d, <2>2 DEF Discard
    <3>2. InFlight(r, c) \/ Open(r, c)' = Open(r, c)
      BY <3>1, <1>d DEF InFlight, Open, States, Unsent, Due
    <3> QED BY <1>2, <1>b, <3>1, <3>2, BudgetOfRow DEF Discard, Goal
  <2> QED BY <2>1, <2>2
<1>3. ASSUME NEW s \in Senders, NEW R \in SUBSET Runs, Claim(s, R) PROVE Goal
  <2>1. PICK q \in R, d \in Chunks :
          /\ Claimable(q, d)
          /\ IF box[q][d] = "stale" THEN Doubtful(q, d) ELSE UNCHANGED doubt
          /\ box' = [box EXCEPT ![q][d] = "sending"]
          /\ Now(s, "calling", q, d)
    BY <1>3 DEF Claim
  <2>2. q \in Runs /\ sender[s] = Idle /\ "sending" \in States /\ "calling" \in At
    BY <1>3 DEF Claim, Busy, States, Unsent, At
  <2>3. s \notin Trying(q, d)
    BY <2>2 DEF Trying, Is, Idle
  <2>4. Cardinality(Trying(r, c)') =
          IF r = q /\ c = d THEN Cardinality(Trying(r, c)) + 1 ELSE Cardinality(Trying(r, c))
    BY <1>a, <2>1, <2>2, <2>3, TryingNow
  <2>5. box'[r][c] = IF r = q /\ c = d THEN "sending" ELSE box[r][c]
    BY <1>d, <2>1, <2>2, CellUpdate
  <2>6. Count(r, c)' = Count(r, c) /\ late'[r][c] = late[r][c]
    BY <1>3, <1>e DEF Claim
  <2>7. CASE r = q /\ c = d
    <3>1. Open(r, c)' = 0
      BY <2>5, <2>7 DEF Open
    <3>2. box[r][c] = "stale" \/ Open(r, c) = 1
      BY <2>1, <2>7 DEF Claimable, Due, Open
    <3>3. doubt'[r][c] = IF box[r][c] = "stale" THEN doubt[r][c] + 1 ELSE doubt[r][c]
      BY <1>g, <2>1, <2>2, <2>7
    <3> QED BY <1>a, <1>b, <1>c, <2>4, <2>6, <2>7, <3>1, <3>2, <3>3 DEF Goal
  <2>8. CASE ~(r = q /\ c = d)
    <3>1. Open(r, c)' = Open(r, c)
      BY <2>5, <2>8 DEF Open
    <3>2. doubt'[r][c] = doubt[r][c]
      BY <1>b, <1>g, <2>1, <2>2, <2>8
    <3> QED BY <1>a, <1>b, <1>c, <2>4, <2>6, <2>8, <3>1, <3>2 DEF Goal
  <2> QED BY <2>7, <2>8
<1>4. ASSUME NEW s \in Senders, NEW q \in Runs, NEW d \in Chunks, Accept(s, q, d) PROVE Goal
  <2>1. Cardinality(Trying(r, c)') =
          IF r = q /\ c = d THEN Cardinality(Trying(r, c)) - 1 ELSE Cardinality(Trying(r, c))
    BY <1>4, <1>a, <1>j, TryingNow DEF Accept, At
  <2>2. Count(r, c)' = Count(r, c) + (IF r = q /\ c = d THEN 1 ELSE 0)
    <3>1. chat' = [chat EXCEPT ![q] = Append(@, d)]
      BY <1>4 DEF Accept
    <3>2. \A k \in Runs, e \in Chunks : Count(k, e)' = Count(k, e) + (IF k = q /\ e = d THEN 1 ELSE 0)
      BY <3>1, CountAppended
    <3> QED BY <3>2
  <2>3. late'[r][c] = late[r][c] /\ doubt'[r][c] = doubt[r][c] /\ Open(r, c)' = Open(r, c)
    BY <1>4, <1>f DEF Accept
  <2> QED BY <1>a, <1>b, <1>c, <2>1, <2>2, <2>3 DEF Goal
<1>5. ASSUME NEW s \in Senders, NEW q \in Runs, NEW d \in Chunks, Reject(s, q, d) PROVE Goal
  <2>1. Cardinality(Trying(r, c)') = Cardinality(Trying(r, c))
    BY <1>5, <1>a, <1>j, TryingNow DEF Reject, At
  <2> QED BY <1>5, <1>a, <1>b, <1>c, <1>e, <1>f, <2>1 DEF Reject, Goal
<1>6. ASSUME NEW s \in Senders, NEW q \in Runs, NEW d \in Chunks, GiveUp(s, q, d) PROVE Goal
  <2>1. Cardinality(Trying(r, c)') = Cardinality(Trying(r, c))
    BY <1>6, <1>a, <1>j, TryingNow DEF GiveUp, At
  <2>2. /\ doubt'[r][c] = doubt[r][c] + (IF r = q /\ c = d THEN 1 ELSE 0)
        /\ late'[r][c] = late[r][c] + (IF r = q /\ c = d THEN 1 ELSE 0)
    BY <1>6, <1>g, <1>h DEF GiveUp
  <2>3. Count(r, c)' = Count(r, c) /\ Open(r, c)' = Open(r, c)
    BY <1>6, <1>e, <1>f DEF GiveUp
  <2> QED BY <1>a, <1>b, <1>c, <2>1, <2>2, <2>3 DEF Goal
<1>7. ASSUME NEW s \in Senders, NEW q \in Runs, NEW d \in Chunks, LoseAnswer(s, q, d) PROVE Goal
  <2>1. Cardinality(Trying(r, c)') =
          IF r = q /\ c = d THEN Cardinality(Trying(r, c)) + 1 ELSE Cardinality(Trying(r, c))
    BY <1>7, <1>a, <1>j, TryingNow DEF LoseAnswer, At
  <2>2. doubt'[r][c] = doubt[r][c] + (IF r = q /\ c = d THEN 1 ELSE 0)
    BY <1>7, <1>g DEF LoseAnswer
  <2>3. Count(r, c)' = Count(r, c) /\ Open(r, c)' = Open(r, c) /\ late'[r][c] = late[r][c]
    BY <1>7, <1>e, <1>f DEF LoseAnswer
  <2> QED BY <1>a, <1>b, <1>c, <2>1, <2>2, <2>3 DEF Goal
<1>8. ASSUME NEW s \in Senders, NEW q \in Runs, NEW d \in Chunks, NEW v \in States, Marked(q, d, v)
      PROVE  /\ ~(r = q /\ c = d) => Open(r, c)' = Open(r, c)
             /\ v = "sent" => Open(r, c)' <= Open(r, c)
  <2>1. box'[r][c] = box[r][c] \/ (r = q /\ c = d /\ box'[r][c] = v)
    BY <1>8, <1>d, CellUpdate DEF Marked
  <2> QED BY <1>b, <2>1 DEF Open
<1>9. ASSUME NEW s \in Senders, NEW q \in Runs, NEW d \in Chunks, Complete(s, q, d) PROVE Goal
  <2>1. Cardinality(Trying(r, c)') = Cardinality(Trying(r, c))
    BY <1>9, <1>a, <1>j, TryingDone DEF Complete, At
  <2>2. Open(r, c)' <= Open(r, c)
    BY <1>9, <1>8 DEF Complete, States
  <2>3. Count(r, c)' = Count(r, c) /\ late'[r][c] = late[r][c] /\ doubt'[r][c] = doubt[r][c]
    BY <1>9, <1>e DEF Complete
  <2> QED BY <1>a, <1>b, <1>c, <2>1, <2>2, <2>3 DEF Goal
<1>10. ASSUME NEW s \in Senders, NEW q \in Runs, NEW d \in Chunks, Retry(s, q, d) PROVE Goal
  <2>1. Cardinality(Trying(r, c)') =
          IF r = q /\ c = d THEN Cardinality(Trying(r, c)) - 1 ELSE Cardinality(Trying(r, c))
    BY <1>10, <1>a, <1>j, TryingDone DEF Retry, At
  <2>2. ~(r = q /\ c = d) => Open(r, c)' = Open(r, c)
    BY <1>10, <1>8 DEF Retry, States, Unsent
  <2>3. Count(r, c)' = Count(r, c) /\ late'[r][c] = late[r][c] /\ doubt'[r][c] = doubt[r][c]
    BY <1>10, <1>e DEF Retry
  <2> QED BY <1>a, <1>b, <1>c, <2>1, <2>2, <2>3 DEF Goal
<1>11. ASSUME NEW s \in Senders, NEW q \in Runs, NEW d \in Chunks, Die(s, q, d) PROVE Goal
  <2>1. PICK at \in At : Is(s, at, q, d)
    BY <1>11 DEF Die
  <2>2. Cardinality(Trying(r, c)') =
          IF r = q /\ c = d /\ at \in {"calling", "failed"}
          THEN Cardinality(Trying(r, c)) - 1 ELSE Cardinality(Trying(r, c))
    BY <1>11, <1>a, <1>j, <2>1, TryingDone DEF Die
  <2>3. late'[r][c] = late[r][c] + (IF r = q /\ c = d /\ at = "calling" THEN 1 ELSE 0)
    <3>1. Is(s, "calling", q, d) <=> at = "calling"
      BY <2>1 DEF Is
    <3>2. CASE at = "calling"
      BY <1>11, <1>h, <3>1, <3>2 DEF Die
    <3>3. CASE at # "calling"
      BY <1>11, <1>b, <3>1, <3>3 DEF Die
    <3> QED BY <3>2, <3>3
  <2>4. Count(r, c)' = Count(r, c) /\ Open(r, c)' = Open(r, c) /\ doubt'[r][c] = doubt[r][c]
    BY <1>11, <1>e, <1>f DEF Die
  <2> QED BY <1>a, <1>b, <1>c, <2>2, <2>3, <2>4 DEF Goal
<1>12. ASSUME NEW q \in Runs, NEW d \in Chunks, LateAccept(q, d) \/ LateLoss(q, d) PROVE Goal
  <2>1. late'[r][c] = late[r][c] - (IF r = q /\ c = d THEN 1 ELSE 0)
    BY <1>12, <1>i DEF LateAccept, LateLoss
  <2>2. Count(r, c)' \in Nat /\ Count(r, c)' <= Count(r, c) + (IF r = q /\ c = d THEN 1 ELSE 0)
    BY <1>12, <1>a, <1>e, CountAppended DEF LateAccept, LateLoss
  <2>3. Cardinality(Trying(r, c)') = Cardinality(Trying(r, c))
    BY <1>12 DEF LateAccept, LateLoss, Trying, Is
  <2>4. Open(r, c)' = Open(r, c) /\ doubt'[r][c] = doubt[r][c]
    BY <1>12, <1>f DEF LateAccept, LateLoss
  <2> QED BY <1>a, <1>b, <1>c, <2>1, <2>2, <2>3, <2>4 DEF Goal
<1>13. ASSUME NEW q \in Runs, NEW d \in Chunks, BackoffEnds(q, d) \/ GoesStale(q, d) PROVE Goal
  <2>1. PICK v \in {"due", "stale"} :
          /\ box' = [box EXCEPT ![q][d] = v] /\ box[q][d] = IF v = "due" THEN "waiting" ELSE "sending"
    BY <1>13 DEF BackoffEnds, GoesStale
  <2>2. v \in States
    BY <2>1 DEF States, Unsent, Due
  <2>3. box'[r][c] = IF r = q /\ c = d THEN v ELSE box[r][c]
    BY <1>d, <2>1, <2>2, CellUpdate
  <2>4. Open(r, c)' = Open(r, c)
    BY <2>1, <2>3 DEF Open
  <2> QED BY <1>13, <1>b, <2>4, BudgetOfRow DEF BackoffEnds, GoesStale, Goal
<1>14. CASE UNCHANGED vars
  <2>1. UNCHANGED <<sender, chat, late>> /\ doubt'[r][c] = doubt[r][c] /\ box' = box
    BY <1>14 DEF vars
  <2>2. doubt'[r][c] \in Nat /\ Open(r, c)' + doubt[r][c] <= Open(r, c) + doubt'[r][c]
    BY <1>b, <1>f, <2>1
  <2> QED BY <2>1, <2>2, BudgetOfRow DEF Goal
<1>15. ASSUME NEW s \in Senders, Claim(s, Runs) \/ \E q \in Runs : Claim(s, {q}) PROVE Goal
  <2>1. Runs \in SUBSET Runs /\ \A q \in Runs : {q} \in SUBSET Runs
    OBVIOUS
  <2> QED BY <1>3, <1>15, <2>1
<1>16. ASSUME NEW s \in Senders, NEW q \in Runs, NEW d \in Chunks,
              Answer(s, q, d) \/ LoseAnswer(s, q, d) \/ Record(s, q, d) \/ Die(s, q, d)
       PROVE  Goal
  BY <1>4, <1>5, <1>6, <1>7, <1>9, <1>10, <1>11, <1>16 DEF Answer, Record
<1>17. CASE Next
  BY <1>1, <1>2, <1>12, <1>13, <1>15, <1>16, <1>17 DEF Next, Goal
<1>18. Goal
  BY <1>14, <1>17 DEF Goal
<1> QED BY <1>18 DEF Goal

LEMMA BudgetHolds == Spec => []Budget
<1>1. TypeOK /\ Budget /\ [Next]_vars => Budget'
  BY BudgetStep
<1> QED BY <1>1, BudgetInit, TypeCorrect, PTL DEF Spec

(* A chunk arrives twice only after an attempt at it was given up. *)
THEOREM DoubtBounds == Spec => []DuplicatesNeedDoubt
<1>1. TypeOK /\ Budget => DuplicatesNeedDoubt
  <2> SUFFICES ASSUME TypeOK, Budget, NEW r \in Runs, NEW c \in Chunks
               PROVE  Cardinality(Occurrences(r, c)) <= 1 + doubt[r][c]
    BY DEF DuplicatesNeedDoubt
  <2>1. Count(r, c) \in Nat /\ Cardinality(Trying(r, c)) \in Nat
    BY CountType, TryingType
  <2>2. late[r][c] \in Nat /\ doubt[r][c] \in Nat /\ Open(r, c) \in {0, 1}
    BY DEF TypeOK, Open
  <2>3. Count(r, c) + late[r][c] + Cardinality(Trying(r, c)) + Open(r, c) <= 1 + doubt[r][c]
    BY DEF Budget
  <2>4. Count(r, c) <= 1 + doubt[r][c]
    BY <2>1, <2>2, <2>3
  <2> QED BY <2>4 DEF Count
<1> QED BY <1>1, BudgetHolds, TypeCorrect, PTL

(* No answer of an attempt that failed takes a delivered chunk back into   *)
(* the queue, unless an attempt at it was given up.                        *)
LEMMA SentKept ==
  ASSUME IInv, Budget, [Next]_vars, NEW r \in Runs, NEW c \in Chunks,
         box[r][c] = "sent", doubt[r][c] = 0
  PROVE  box'[r][c] = "sent"
<1> USE DEF IInv
<1>1. ASSUME NEW s \in Senders, Is(s, "failed", r, c) PROVE FALSE
  <2>1. Count(r, c) \in Nat /\ Cardinality(Trying(r, c)) \in Nat
    BY CountType, TryingType
  <2>2. Occurrences(r, c) # {}
    BY DEF SentWasDelivered, Delivered, Occurrences
  <2>3. Count(r, c) # 0
    BY <2>2, CountType, FS_EmptySet DEF Count
  <2>4. Cardinality(Trying(r, c)) # 0
    <3>1. s \in Trying(r, c)
      BY <1>1 DEF Trying
    <3> QED BY <3>1, TryingType, FS_EmptySet
  <2>5. late[r][c] \in Nat /\ Open(r, c) \in {0, 1}
    BY DEF TypeOK, Open
  <2>6. Count(r, c) + late[r][c] + Cardinality(Trying(r, c)) + Open(r, c) <= 1
    BY DEF Budget
  <2> QED BY <2>1, <2>3, <2>4, <2>5, <2>6
<1>2. "sent" \notin Unsent
  BY DEF Unsent, Due
<1> QED BY <1>1, <1>2, RowStep

(* A row marked sent stays so, as long as no attempt was given up. *)
THEOREM SentStays == Spec => SentIsFinal
<1>1. IInv /\ Budget /\ [Next]_vars =>
        [\A r \in Runs, c \in Chunks :
           box[r][c] = "sent" /\ doubt[r][c] = 0 => box'[r][c] = "sent"]_vars
  BY SentKept
<1> QED BY <1>1, Inductive, BudgetHolds, PTL DEF Spec, SentIsFinal
=============================================================================
