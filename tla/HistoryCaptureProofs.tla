------------------------ MODULE HistoryCaptureProofs ------------------------
(***************************************************************************)
(* What the history cursor has passed is in the archive, and a row shows   *)
(* what the chat shows once the updates about its message are handled, for *)
(* every length of the chat, page size, initial limit and number of faults.*)
(***************************************************************************)
EXTENDS HistoryCapture, FiniteSetTheorems, WellFoundedInduction, TLAPS

-----------------------------------------------------------------------------
(* The inductive invariant.  Ids are given out in order, so that whatever  *)
(* is posted later lies beyond every head, page and cursor read so far.    *)
Started(n) == n = 0 \/ (n \in Id /\ chat[n].state # "none")

Stored(m) == rows[m] # NoRow /\ rows[m].text # 0

Wanted(m) == m \in Posted \ skipped /\ (legacy = "pending" \/ floor < m)

InPage(m) == \E s \in pass.page : s.id = m

ChatInOrder == \A m, k \in Id : k < m /\ chat[m].state # "none" => chat[k].state # "none"

(* Nothing that shows a message shows it without a text. *)
TextsShown ==
  /\ \A m \in Id : chat[m].state # "none" => chat[m].text # 0
  /\ \A i \in DOMAIN updates : updates[i].seen.text # 0
  /\ \A m \in Id : rows[m] # NoRow /\ rows[m].edited # 0 => rows[m].text # 0
  /\ pass # NoPass => \A s \in pass.page : s.seen.text # 0

(* A cursor from an older schema never takes the window of an initial pass. *)
LegacyKept ==
  legacy = "pending" =>
    /\ Rescanning \/ cursor.done
    /\ pass # NoPass => pass.mode # "initial" /\ (pass.mode = "rescan" \/ cursor.done)

WindowFirst ==
  pass # NoPass /\ Windowed /\ pass.at # "done" => pass.scanned = 0 /\ cursor.scanned = 0

ReadsStarted ==
  /\ Started(cursor.scanned)
  /\ pass # NoPass => Started(pass.scanned) /\ Started(pass.head) /\ Started(pass.upto)

(* What the pass has scanned is stored, and what its page stands for is    *)
(* stored or in the page.                                                  *)
PassSound ==
  pass # NoPass =>
    /\ \A m \in Id : Wanted(m) /\ m <= pass.scanned => Stored(m)
    /\ pass.at = "store" =>
         /\ ~Windowed => \A m \in Id :
              /\ Wanted(m) /\ (m <= pass.upto \/ (pass.last /\ m <= pass.head))
              => Stored(m) \/ InPage(m)
         /\ Windowed => \A m \in Posted \ skipped :
              pass.below < m /\ m <= pass.head => Stored(m) \/ InPage(m)

IInv ==
  /\ CaptureTypeOK /\ CursorSound
  /\ ChatInOrder /\ TextsShown /\ LegacyKept /\ WindowFirst /\ ReadsStarted /\ PassSound

-----------------------------------------------------------------------------
(* Every set of message ids, and of 0, has a least and a greatest element. *)
LEMMA LeastOf ==
  ASSUME NEW S \in SUBSET Nat, S # {}
  PROVE  \E x \in S : \A y \in S : x <= y
<1>1. PICK x \in S : \A y \in S : ~ (<<y, x>> \in OpToRel(<, Nat))
  BY NatLessThanWellFounded, WFMin
<1>2. \A y \in S : ~ (y < x)
  BY <1>1 DEF OpToRel
<1> QED BY <1>2

LEMMA GreatestOf ==
  ASSUME NEW S \in SUBSET (0 .. MaxId), S # {}
  PROVE  Max(S) \in S /\ \A y \in S : y <= Max(S)
<1> DEFINE T == {MaxId - x : x \in S}
<1>1. \A x \in S : x \in Nat /\ x <= MaxId /\ MaxId - x \in Nat
  BY CaptureAssumption
<1>2. T \in SUBSET Nat /\ T # {}
  BY <1>1
<1>3. PICK t \in T : \A u \in T : t <= u
  BY <1>2, LeastOf
<1>4. PICK x \in S : t = MaxId - x
  BY <1>3
<1>5. \A y \in S : MaxId - x <= MaxId - y
  BY <1>3, <1>4
<1>6. \A y \in S : x >= y
  BY <1>1, <1>5, CaptureAssumption
<1>7. \A y \in S : Max(S) \in S /\ Max(S) >= y
  BY <1>6 DEF Max
<1> QED BY <1>1, <1>7

(* A page holds everything up to its last message; when it is short, it    *)
(* holds everything.                                                       *)
LEMMA PageIsPrefix ==
  ASSUME NEW S \in SUBSET Id
  PROVE  /\ Oldest(S, PageSize) \in SUBSET S
         /\ Oldest(S, PageSize) = {} => S = {}
         /\ \A m \in S, k \in Oldest(S, PageSize) : m <= k => m \in Oldest(S, PageSize)
         /\ Cardinality(Oldest(S, PageSize)) < PageSize => Oldest(S, PageSize) = S
<1> DEFINE page == Oldest(S, PageSize)
           Before(m) == {k \in S : k < m}
<1>1. \A m \in S : m \in page <=> Cardinality(Before(m)) < PageSize
  BY DEF Oldest
<1>2. page \in SUBSET S
  BY DEF Oldest
<1>n. S \in SUBSET Nat /\ \A m \in S : m \in Nat
  BY CaptureAssumption DEF Id
<1>3. \A T \in SUBSET S : IsFiniteSet(T) /\ Cardinality(T) \in Nat
  <2>1. IsFiniteSet(Id)
    BY FS_Interval, CaptureAssumption DEF Id
  <2>2. \A T \in SUBSET S : T \in SUBSET Id
    OBVIOUS
  <2>3. \A T \in SUBSET S : IsFiniteSet(T)
    BY <2>1, <2>2, FS_Subset
  <2> QED BY <2>3, FS_CardinalityType
<1>4. page = {} => S = {}
  <2> SUFFICES ASSUME S # {} PROVE page # {}
    OBVIOUS
  <2>1. PICK m \in S : \A k \in S : m <= k
    BY <1>n, LeastOf
  <2>2. Before(m) = {}
    <3>1. \A k \in S : ~ (k < m)
      BY <2>1, <1>n
    <3> QED BY <3>1, Zenon
  <2>3. Cardinality(Before(m)) = 0
    BY <2>2, FS_EmptySet
  <2> QED BY <1>1, <2>3, CaptureAssumption
<1>5. ASSUME NEW m \in S, NEW k \in page, m <= k PROVE m \in page
  <2>1. Before(m) \in SUBSET Before(k)
    <3>1. k \in S /\ m \in Nat /\ k \in Nat /\ m <= k
      BY <1>5, <1>2, <1>n
    <3>2. \A j \in S : j < m => j < k
      BY <3>1, <1>n
    <3> QED BY <3>2
  <2>2. Cardinality(Before(m)) <= Cardinality(Before(k))
    BY <2>1, <1>3, FS_Subset
  <2>3. Cardinality(Before(k)) < PageSize
    BY <1>1, <1>2
  <2>4. Cardinality(Before(m)) \in Nat /\ Cardinality(Before(k)) \in Nat
    BY <1>3
  <2> HIDE DEF page, Before
  <2>5. Cardinality(Before(m)) < PageSize
    BY <2>2, <2>3, <2>4, CaptureAssumption
  <2> QED BY <1>1, <2>5
<1>6. Cardinality(page) < PageSize => page = S
  <2> SUFFICES ASSUME page # S PROVE PageSize <= Cardinality(page)
    BY <1>2, <1>3, CaptureAssumption
  <2>1. PICK m \in S \ page : \A k \in S \ page : m <= k
    <3>1. S \ page \in SUBSET Nat /\ S \ page # {}
      BY <1>2, <1>n
    <3> HIDE DEF page
    <3> QED BY <3>1, LeastOf
  <2>2. Before(m) \in SUBSET page
    <3> HIDE DEF page
    <3>1. \A k \in S : k < m => k \in page
      BY <2>1, <1>n
    <3> QED BY <3>1
  <2>3. Cardinality(Before(m)) <= Cardinality(page)
    BY <2>2, <1>2, <1>3, FS_Subset
  <2>4. ~(Cardinality(Before(m)) < PageSize)
    BY <2>1, <1>1
  <2>5. Cardinality(Before(m)) \in Nat /\ Cardinality(page) \in Nat
    BY <1>2, <1>3
  <2> HIDE DEF page, Before
  <2> QED BY <2>3, <2>4, <2>5, CaptureAssumption
<1> QED BY <1>2, <1>4, <1>5, <1>6

-----------------------------------------------------------------------------
LEMMA UpsertedType ==
  ASSUME NEW row \in {NoRow} \cup MessageRow, NEW s \in Snapshot, NEW type
  PROVE  Upserted(row, s, type) \in MessageRow
<1>1. MergedReactions(s, row, type) \in Nat \/ row = NoRow
  BY DEF MergedReactions, Snapshot, MessageRow
<1> QED BY <1>1 DEF Upserted, Snapshot, MessageRow, Greater

LEMMA KnownType ==
  ASSUME NEW row \in {NoRow} \cup MessageRow, NEW n \in Nat
  PROVE  MarkedDeleted(row) \in MessageRow /\ Reacted(row, n) \in MessageRow
BY DEF MarkedDeleted, Reacted, Known, BlankRow, MessageRow

LEMMA HandledType ==
  ASSUME CaptureTypeOK, NEW u \in Update
  PROVE  Handled(u) \in [Id -> {NoRow} \cup MessageRow]
<1>1. u.id \in Id /\ u.seen \in Snapshot /\ u.seen.reactions \in Nat /\ rows[u.id] \in {NoRow} \cup MessageRow
  BY DEF CaptureTypeOK, Update, Snapshot
<1>2. /\ Upserted(rows[u.id], u.seen, u.kind) \in MessageRow
      /\ MarkedDeleted(rows[u.id]) \in MessageRow
      /\ Reacted(rows[u.id], u.seen.reactions) \in MessageRow
  BY <1>1, UpsertedType, KnownType
<1>3. u.kind \in {"new", "edit", "delete", "react"}
  BY DEF Update
<1> QED BY <1>1, <1>2, <1>3 DEF Handled, CaptureTypeOK

LEMMA SeenType ==
  ASSUME CaptureTypeOK, NEW m \in Id
  PROVE  Seen(m) \in Snapshot
BY DEF CaptureTypeOK, Post, Seen, Snapshot

LEMMA PageType ==
  ASSUME CaptureTypeOK, NEW S \in SUBSET Id
  PROVE  PageOf(S) \in SUBSET Snap
BY SeenType DEF PageOf, Snap

LEMMA SaveType ==
  ASSUME CaptureTypeOK, NEW n \in Nat, NEW done \in BOOLEAN,
         NEW status \in {"none", "running", "failed", "completed", "rescan", "rescan_running", "rescan_failed"},
         SaveCursor(n, status, done)
  PROVE  cursor' \in Cursor
BY DEF SaveCursor, CaptureTypeOK, Cursor, Greater

LEMMA HeadType == Max(Posted \cup {0}) \in Posted \cup {0}
<1>1. Posted \cup {0} \in SUBSET (0 .. MaxId)
  BY CaptureAssumption DEF Posted, Id
<1> QED BY <1>1, GreatestOf

(* Appending to, and dropping from, the updates. *)
LEMMA DeliverType ==
  ASSUME CaptureTypeOK, NEW kind \in {"new", "edit", "delete", "react"}, NEW m \in Id,
         chat' \in [Id -> Post], Deliver(kind, m)
  PROVE  updates' \in Seq(Update) /\ lost' \in SUBSET Id
<1>1. [kind |-> kind, id |-> m, seen |-> Seen(m)'] \in Update
  BY DEF Seen, Post, Update, Snapshot
<1>2. updates \in Seq(Update) /\ lost \in SUBSET Id
  BY DEF CaptureTypeOK
<1>3. Append(updates, [kind |-> kind, id |-> m, seen |-> Seen(m)']) \in Seq(Update)
  BY <1>1, <1>2
<1> QED BY <1>2, <1>3 DEF Deliver

LEMMA FirstUpdate ==
  ASSUME CaptureTypeOK, updates # <<>>
  PROVE  Head(updates) \in Update /\ Tail(updates) \in Seq(Update)
BY DEF CaptureTypeOK

(* Rows, cursor and pass have their types initially. *)
LEMMA TypeInit == Init => CaptureTypeOK
<1> SUFFICES ASSUME Init PROVE CaptureTypeOK
  OBVIOUS
<1>1. chat \in [Id -> Post]
  <2>1. PICK n \in 0 .. MaxId :
          chat = [m \in Id |-> [state |-> IF m <= n THEN "posted" ELSE "none",
                                text |-> IF m <= n THEN 1 ELSE 0, edited |-> 0, reactions |-> 0]]
    BY DEF Init
  <2> QED BY <2>1 DEF Post
<1>2. rows \in [Id -> {NoRow} \cup MessageRow]
  <2>1. [text |-> 1, edited |-> 0, reactions |-> 0, deleted |-> FALSE] \in MessageRow
    BY DEF MessageRow
  <2>2. rows \in [Id -> {NoRow, [text |-> 1, edited |-> 0, reactions |-> 0, deleted |-> FALSE]}]
    BY DEF Init
  <2> QED BY <2>1, <2>2
<1>3. cursor \in Cursor
  BY DEF Init, Cursor, NoCursor
<1> QED BY <1>1, <1>2, <1>3 DEF Init, CaptureTypeOK, Pass

LEMMA ChatStepType ==
  ASSUME CaptureTypeOK, Publish \/ Edit \/ React \/ Delete
  PROVE  CaptureTypeOK'
<1>1. CASE Publish
  <2>1. PICK m \in Id : chat' = [chat EXCEPT ![m].state = "posted", ![m].text = 1] /\ Deliver("new", m)
    BY <1>1 DEF Publish
  <2>2. chat' \in [Id -> Post]
    BY <2>1 DEF CaptureTypeOK, Post
  <2> QED BY <1>1, <2>1, <2>2, DeliverType DEF Publish, CaptureTypeOK
<1>2. CASE Edit
  <2>0. PICK m \in Id :
          /\ \E date \in {Greater(chat[m].edited, 1), chat[m].edited + 1} :
               /\ chat' = [chat EXCEPT ![m].text = @ + 1, ![m].edited = date]
               /\ tied' = IF date = chat[m].edited THEN tied \cup {m} ELSE tied
          /\ Deliver("edit", m)
    BY <1>2 DEF Edit, Posted
  <2>1. PICK date \in {Greater(chat[m].edited, 1), chat[m].edited + 1} :
          /\ chat' = [chat EXCEPT ![m].text = @ + 1, ![m].edited = date]
          /\ tied' = IF date = chat[m].edited THEN tied \cup {m} ELSE tied
    BY <2>0
  <2>2. date \in Nat /\ chat[m].text + 1 \in Nat
    BY <2>1 DEF CaptureTypeOK, Post, Greater
  <2>3. chat' \in [Id -> Post]
    BY <2>1, <2>2 DEF CaptureTypeOK, Post
  <2> QED BY <1>2, <2>0, <2>1, <2>3, DeliverType DEF Edit, CaptureTypeOK
<1>3. CASE React
  <2>1. PICK m \in Id : chat' = [chat EXCEPT ![m].reactions = @ + 1] /\ Deliver("react", m)
    BY <1>3 DEF React, Posted
  <2>2. chat' \in [Id -> Post]
    <3>1. chat \in [Id -> Post] /\ chat[m] \in Post
      BY DEF CaptureTypeOK
    <3>2. [chat[m] EXCEPT !.reactions = @ + 1] \in Post
      BY <3>1 DEF Post
    <3> QED BY <2>1, <3>1, <3>2
  <2> QED BY <1>3, <2>1, <2>2, DeliverType DEF React, CaptureTypeOK
<1>4. CASE Delete
  <2>1. PICK m \in Id : chat' = [chat EXCEPT ![m].state = "deleted"] /\ Deliver("delete", m)
    BY <1>4 DEF Delete, Posted
  <2>2. chat' \in [Id -> Post]
    BY <2>1 DEF CaptureTypeOK, Post
  <2> QED BY <1>4, <2>1, <2>2, DeliverType DEF Delete, CaptureTypeOK
<1> QED BY <1>1, <1>2, <1>3, <1>4

LEMMA LinkStepType ==
  ASSUME CaptureTypeOK,
         Handle \/ HandlerFails \/ Connect \/ Activated \/ Disconnect \/ SetPolicy \/ DeleteOrigin
  PROVE  CaptureTypeOK'
<1>1. CASE Handle
  <2>1. Head(updates) \in Update /\ Tail(updates) \in Seq(Update)
    BY <1>1, FirstUpdate DEF Handle
  <2>2. Handled(Head(updates)) \in [Id -> {NoRow} \cup MessageRow] /\ Head(updates).id \in Id
    BY <2>1, HandledType DEF Update
  <2> QED BY <1>1, <2>1, <2>2 DEF Handle, CaptureTypeOK
<1>2. CASE HandlerFails
  <2>1. Head(updates) \in Update /\ Tail(updates) \in Seq(Update)
    BY <1>2, FirstUpdate DEF HandlerFails
  <2>2. Head(updates).id \in Id
    BY <2>1 DEF Update
  <2> QED BY <1>2, <2>1, <2>2 DEF HandlerFails, CaptureTypeOK
<1>3. CASE Connect
  BY <1>3 DEF Connect, CaptureTypeOK, Askers, telegram, history
<1>4. CASE Activated
  BY <1>4 DEF Activated, CaptureTypeOK, telegram, history
<1>5. CASE Disconnect
  <2>1. {u.id : u \in {updates[i] : i \in DOMAIN updates}} \in SUBSET Id
    <3>1. \A i \in DOMAIN updates : updates[i] \in Update
      BY DEF CaptureTypeOK
    <3>2. \A u \in Update : u.id \in Id
      BY DEF Update
    <3> QED BY <3>1, <3>2
  <2>2. updates' \in Seq(Update) /\ lost' \in SUBSET Id
    <3>1. updates \in Seq(Update) /\ lost \in SUBSET Id /\ <<>> \in Seq(Update)
      BY DEF CaptureTypeOK
    <3> QED BY <1>5, <2>1, <3>1 DEF Disconnect
  <2> QED BY <1>5, <2>2 DEF Disconnect, CaptureTypeOK, Pass
<1>6. CASE SetPolicy
  BY <1>6 DEF SetPolicy, CaptureTypeOK, Askers, telegram, history
<1>7. CASE DeleteOrigin
  BY <1>7 DEF DeleteOrigin, CaptureTypeOK, Cursor, NoCursor, telegram
<1> QED BY <1>1, <1>2, <1>3, <1>4, <1>5, <1>6, <1>7

LEMMA Underway ==
  ASSUME CaptureTypeOK, pass # NoPass
  PROVE  /\ pass \in PassRecord
         /\ pass.scanned \in Nat /\ pass.head \in Nat /\ pass.upto \in Nat /\ pass.below \in Nat
         /\ pass.page \in SUBSET Snap /\ pass.at \in {"head", "fetch", "store", "done"}
         /\ pass.last \in BOOLEAN /\ pass.mode \in {"initial", "catch_up", "rescan"} /\ link # "down"
<1>1. pass \in PassRecord
  BY DEF CaptureTypeOK, Pass, PassRecord
<1> QED BY <1>1 DEF PassRecord, CaptureTypeOK

LEMMA AtIsUnderway ==
  ASSUME NEW at \in {"head", "fetch", "store", "done"}, pass.at = at
  PROVE  pass # NoPass
BY DEF NoPass

LEMMA BeginType ==
  ASSUME CaptureTypeOK, NEW by \in Askers, Begin(by) \/ BeginBlind(by)
  PROVE  CaptureTypeOK'
<1>1. link # "down"
  BY DEF CaptureTypeOK, Begin, BeginBlind, MayBegin
<1>2. CASE Begin(by)
  <2>1. pass' \in Pass
    <3>1. Mode \in {"initial", "catch_up", "rescan"}
      BY DEF Mode
    <3>2. cursor.scanned \in Nat
      BY DEF CaptureTypeOK, Cursor
    <3>3. [at |-> "head", by |-> by, mode |-> Mode, scanned |-> cursor.scanned,
           head |-> 0, page |-> {}, upto |-> 0, below |-> 0, last |-> FALSE] \in PassRecord
      BY <3>1, <3>2 DEF PassRecord
    <3> QED BY <1>2, <3>3 DEF Begin, Pass, PassRecord
  <2> QED BY <1>1, <1>2, <2>1 DEF Begin, CaptureTypeOK, telegram, history
<1>3. CASE BeginBlind(by)
  <2>1. cursor' \in Cursor
    BY <1>3, SaveType DEF BeginBlind
  <2> QED BY <1>1, <1>3, <2>1 DEF BeginBlind, CaptureTypeOK, telegram, Askers
<1> QED BY <1>2, <1>3

LEMMA RunningType ==
  ASSUME CaptureTypeOK, NEW n \in Nat, NEW done \in BOOLEAN,
         SaveCursor(n, Running, done) \/ SaveCursor(n, Failed, done) \/ SaveCursor(n, "completed", done)
  PROVE  cursor' \in Cursor
<1>1. Running \in {"running", "rescan_running"} /\ Failed \in {"failed", "rescan_failed"}
  BY DEF Running, Failed
<1> QED BY <1>1, SaveType

LEMMA PassStepType ==
  ASSUME CaptureTypeOK, PassStep
  PROVE  CaptureTypeOK'
<1>1. pass # NoPass
  BY AtIsUnderway DEF PassStep, ReadHead, FetchInitial, FetchPage, StoreNext, EndWindow, SavePage,
     PageStored, Complete
<1>2. /\ pass \in PassRecord
      /\ pass.scanned \in Nat /\ pass.head \in Nat /\ pass.upto \in Nat /\ pass.below \in Nat
      /\ pass.page \in SUBSET Snap /\ link # "down"
  BY <1>1, Underway
<1>3. CASE ReadHead
  <2>1. Max(Posted \cup {0}) \in Nat
    BY HeadType, CaptureAssumption DEF Posted, Id
  <2>2. pass' \in Pass
    <3> DEFINE head == Max(Posted \cup {0})
    <3>1. pass' = [pass EXCEPT !.head = head,
                               !.at = IF Windowed \/ pass.scanned < head THEN "fetch" ELSE "done"]
      BY <1>3 DEF ReadHead
    <3> HIDE DEF head
    <3>2. pass' \in PassRecord
      BY <1>2, <2>1, <3>1 DEF PassRecord, head
    <3> QED BY <3>2 DEF Pass, PassRecord
  <2>3. cursor' \in Cursor
    BY <1>2, <1>3, RunningType DEF ReadHead
  <2> QED BY <1>2, <1>3, <2>2, <2>3 DEF ReadHead, CaptureTypeOK, telegram, history
<1>4. CASE FetchInitial
  <2> DEFINE S == {m \in Posted : m <= pass.head}
             window == Newest(S, InitialLimit)
  <2>1. window \in SUBSET Id /\ (S \ window) \cup {0} \in SUBSET (0 .. MaxId)
    BY CaptureAssumption DEF Newest, Posted, Id
  <2>2. PageOf(window) \in SUBSET Snap
    BY <2>1, PageType
  <2>3. Max((S \ window) \cup {0}) \in Nat
    <3> DEFINE rest == (S \ window) \cup {0}
    <3>1. rest \in SUBSET (0 .. MaxId) /\ rest # {}
      BY <2>1
    <3> HIDE DEF rest
    <3>2. Max(rest) \in 0 .. MaxId
      BY <3>1, GreatestOf
    <3> QED BY <3>2 DEF rest
  <2>4. pass' = [pass EXCEPT !.at = "store", !.page = PageOf(window), !.below = Max((S \ window) \cup {0})]
    BY <1>4 DEF FetchInitial
  <2> HIDE DEF S, window
  <2>5. pass' \in PassRecord
    BY <1>2, <2>2, <2>3, <2>4 DEF PassRecord
  <2> QED BY <1>2, <1>4, <2>5 DEF FetchInitial, CaptureTypeOK, telegram, history, Pass, PassRecord
<1>5. CASE FetchPage
  <2> DEFINE page == Oldest({m \in Posted : pass.scanned < m /\ m <= pass.head}, PageSize)
  <2>1. page \in SUBSET Id
    BY DEF Oldest, Posted
  <2>2. PageOf(page) \in SUBSET Snap
    BY <2>1, PageType
  <2>3. page # {} => Max(page) \in Nat
    <3>1. page \in SUBSET (0 .. MaxId)
      BY <2>1, CaptureAssumption DEF Id
    <3> QED BY <3>1, GreatestOf
  <2>4. pass' = IF page = {}
                THEN [pass EXCEPT !.at = "done", !.scanned = pass.head]
                ELSE [pass EXCEPT !.at = "store", !.page = PageOf(page), !.upto = Max(page),
                                  !.last = Cardinality(page) < PageSize]
    BY <1>5 DEF FetchPage
  <2> HIDE DEF page
  <2>5. CASE page = {}
    <3>1. pass' \in PassRecord
      BY <1>2, <2>4, <2>5 DEF PassRecord
    <3> QED BY <1>2, <1>5, <3>1 DEF FetchPage, CaptureTypeOK, telegram, history, Pass, PassRecord
  <2>6. CASE page # {}
    <3>1. (Cardinality(page) < PageSize) \in BOOLEAN
      OBVIOUS
    <3>2. pass' \in PassRecord
      BY <1>2, <2>2, <2>3, <2>4, <2>6, <3>1 DEF PassRecord
    <3> QED BY <1>2, <1>5, <3>2 DEF FetchPage, CaptureTypeOK, telegram, history, Pass, PassRecord
  <2> QED BY <2>5, <2>6
<1>6. CASE StoreNext
  <2>1. PICK s \in pass.page :
          /\ IF enabled
             THEN /\ rows' = [rows EXCEPT ![s.id] = Upserted(@, s.seen, "backfill")]
                  /\ UNCHANGED skipped
             ELSE /\ skipped' = skipped \cup {s.id}
                  /\ UNCHANGED rows
          /\ pass' = [pass EXCEPT !.page = @ \ {s}]
    BY <1>6 DEF StoreNext
  <2>2. s.id \in Id /\ s.seen \in Snapshot
    BY <1>2 DEF Snap
  <2>3. rows' \in [Id -> {NoRow} \cup MessageRow] /\ skipped' \in SUBSET Id
    <3>1. rows[s.id] \in {NoRow} \cup MessageRow
      BY <2>2 DEF CaptureTypeOK
    <3>2. Upserted(rows[s.id], s.seen, "backfill") \in MessageRow
      BY <2>2, <3>1, UpsertedType
    <3> QED BY <2>1, <2>2, <3>2 DEF CaptureTypeOK
  <2>4. pass' \in PassRecord
    BY <1>2, <2>1 DEF PassRecord
  <2> QED BY <1>2, <1>6, <2>3, <2>4 DEF StoreNext, CaptureTypeOK, telegram, Pass, PassRecord
<1>7. CASE EndWindow
  <2>1. pass' \in PassRecord
    BY <1>2, <1>7 DEF EndWindow, PassRecord
  <2> QED BY <1>2, <1>7, <2>1 DEF EndWindow, CaptureTypeOK, telegram, Pass, PassRecord
<1>8. CASE SavePage
  <2>1. pass' \in PassRecord
    BY <1>2, <1>8 DEF SavePage, PassRecord
  <2>2. cursor' \in Cursor
    BY <1>2, <1>8, RunningType DEF SavePage
  <2> QED BY <1>2, <1>8, <2>1, <2>2 DEF SavePage, CaptureTypeOK, telegram, history, Pass, PassRecord
<1>9. CASE Complete
  <2>1. cursor' \in Cursor
    BY <1>2, <1>9, RunningType DEF Complete
  <2> QED BY <1>2, <1>9, <2>1 DEF Complete, CaptureTypeOK, telegram, history, Pass
<1> QED BY <1>3, <1>4, <1>5, <1>6, <1>7, <1>8, <1>9 DEF PassStep

LEMMA PassEndType ==
  ASSUME CaptureTypeOK, FailPass \/ BreakPass
  PROVE  CaptureTypeOK'
<1>1. pass # NoPass
  BY DEF FailPass, BreakPass
<1>2. pass.scanned \in Nat /\ pass.upto \in Nat /\ link # "down"
  BY <1>1, Underway
<1>3. CASE FailPass
  <2>1. cursor' \in Cursor
    BY <1>2, <1>3, RunningType DEF FailPass
  <2>2. asked' \in SUBSET Askers /\ given' \in {"no", "refused", "dropped"}
    BY <1>3 DEF FailPass, CaptureTypeOK, Askers
  <2> QED BY <1>2, <1>3, <2>1, <2>2 DEF FailPass, CaptureTypeOK, telegram, history, Pass
<1>4. CASE BreakPass
  <2>1. asked' \in SUBSET Askers /\ given' \in {"no", "refused", "dropped"}
    BY <1>4 DEF BreakPass, CaptureTypeOK, Askers
  <2> QED BY <1>2, <1>4, <2>1 DEF BreakPass, CaptureTypeOK, telegram, history, Pass
<1> QED BY <1>3, <1>4

LEMMA TypeStep ==
  ASSUME CaptureTypeOK, [Next]_vars
  PROVE  CaptureTypeOK'
<1>1. CASE UNCHANGED vars
  BY <1>1 DEF CaptureTypeOK, vars, telegram, history
<1> QED BY <1>1, ChatStepType, LinkStepType, BeginType, PassStepType, PassEndType DEF Next

(* Rows, the cursor and the pass keep their types, and no pass outlives    *)
(* its connection.                                                         *)
THEOREM TypeCorrect == Spec => []CaptureTypeOK
<1> QED BY TypeInit, TypeStep, PTL DEF Spec

-----------------------------------------------------------------------------
(* What Telegram posts from now on lies beyond everything read so far.     *)
LEMMA Beyond ==
  ASSUME ChatInOrder, NEW n, Started(n), NEW m \in Id, chat[m].state = "none"
  PROVE  ~ (m <= n)
BY CaptureAssumption DEF ChatInOrder, Started, Id

Unread == <<rows, cursor, pass, legacy, floor, skipped>>

LEMMA ChatKeeps ==
  ASSUME IInv, UNCHANGED Unread,
         \A m \in Id : chat[m].state # "none" => chat'[m].state # "none",
         \A m \in Id : chat'[m].state = "posted" => chat[m].state \in {"none", "posted"}
  PROVE  CursorSound' /\ LegacyKept' /\ WindowFirst' /\ ReadsStarted' /\ PassSound'
<1>1. \A m \in Id : Wanted(m)' => Wanted(m) \/ chat[m].state = "none"
  BY DEF Wanted, Posted, Unread
<1>2. \A m \in Posted' \ skipped' : m \in Id /\ (m \in Posted \ skipped \/ chat[m].state = "none")
  BY DEF Posted, Unread
<1>3. \A n : Started(n) => Started(n)'
  BY DEF Started
<1>4. ReadsStarted'
  BY <1>3 DEF IInv, ReadsStarted, Unread
<1>5. LegacyKept' /\ WindowFirst'
  BY DEF IInv, LegacyKept, WindowFirst, Rescanning, Windowed, Unread
<1>6. \A m \in Id : chat[m].state = "none" =>
        /\ ~ (m <= cursor.scanned)
        /\ pass # NoPass => ~ (m <= pass.scanned) /\ ~ (m <= pass.head) /\ ~ (m <= pass.upto)
  BY Beyond DEF IInv, ReadsStarted
<1>7. CursorSound'
  <2> SUFFICES ASSUME NEW m \in Posted' \ skipped', (m <= cursor.scanned)', (legacy = "pending" \/ floor < m)'
               PROVE  (rows[m] # NoRow /\ rows[m].text # 0)'
    BY DEF CursorSound
  <2>1. m \in Posted \ skipped /\ m <= cursor.scanned /\ (legacy = "pending" \/ floor < m)
    BY <1>2, <1>6 DEF Unread
  <2> QED BY <2>1 DEF IInv, CursorSound, Unread
<1>8. PassSound'
  <2> SUFFICES ASSUME pass # NoPass PROVE PassSound'
    BY DEF PassSound, Unread
  <2>1. \A m \in Id : (Stored(m) <=> Stored(m)') /\ (InPage(m) <=> InPage(m)')
    BY DEF Stored, InPage, Unread
  <2>2. \A m \in Id : Wanted(m)' /\ m <= pass.scanned => Stored(m)
    BY <1>1, <1>6 DEF IInv, PassSound
  <2>3. ASSUME pass.at = "store", ~Windowed, NEW m \in Id, Wanted(m)',
               m <= pass.upto \/ (pass.last /\ m <= pass.head)
        PROVE  Stored(m) \/ InPage(m)
    BY <1>1, <1>6, <2>3 DEF IInv, PassSound
  <2>4. ASSUME pass.at = "store", Windowed, NEW m \in Posted' \ skipped', pass.below < m, m <= pass.head
        PROVE  Stored(m) \/ InPage(m)
    BY <1>2, <1>6, <2>4 DEF IInv, PassSound
  <2>5. \A m \in Posted' : m \in Id
    BY DEF Posted
  <2> QED BY <2>1, <2>2, <2>3, <2>4, <2>5 DEF PassSound, Windowed, Unread
<1> QED BY <1>4, <1>5, <1>7, <1>8

(* A step that only adds to the rows. *)
LEMMA RowsKeep ==
  ASSUME IInv, UNCHANGED <<chat, cursor, pass, legacy, floor, skipped>>,
         \A m \in Id : Stored(m) => Stored(m)'
  PROVE  CursorSound' /\ ChatInOrder' /\ LegacyKept' /\ WindowFirst' /\ ReadsStarted' /\ PassSound'
<1>1. CursorSound'
  BY DEF IInv, CursorSound, Posted, Stored
<1>2. ChatInOrder' /\ LegacyKept' /\ WindowFirst' /\ ReadsStarted'
  BY DEF IInv, ChatInOrder, LegacyKept, WindowFirst, ReadsStarted, Rescanning, Windowed, Started
<1>3. PassSound'
  <2>1. \A m \in Id : (Wanted(m) <=> Wanted(m)') /\ (InPage(m) <=> InPage(m)')
    BY DEF Wanted, Posted, InPage
  <2>2. (Posted \ skipped)' = Posted \ skipped /\ \A m \in Posted : m \in Id
    BY DEF Posted
  <2> QED BY <2>1, <2>2 DEF IInv, PassSound, Windowed
<1> QED BY <1>1, <1>2, <1>3

LEMMA SoundInit == Init => IInv
<1> SUFFICES ASSUME Init PROVE IInv
  OBVIOUS
<1>0. CaptureTypeOK
  BY TypeInit
<1>1. PICK n \in 0 .. MaxId :
        chat = [m \in Id |-> [state |-> IF m <= n THEN "posted" ELSE "none",
                              text |-> IF m <= n THEN 1 ELSE 0, edited |-> 0, reactions |-> 0]]
  BY DEF Init
<1>2. ChatInOrder
  BY <1>1, CaptureAssumption DEF ChatInOrder, Id
<1>3. TextsShown
  <2>1. \A m \in Id : chat[m].state # "none" => chat[m].text # 0
    BY <1>1
  <2>2. \A m \in Id : rows[m] # NoRow => rows[m].edited = 0
    BY DEF Init
  <2>3. \A i \in DOMAIN updates : updates[i].seen.text # 0
    BY DEF Init
  <2> QED BY <2>1, <2>2, <2>3 DEF Init, TextsShown
<1>4. cursor.scanned = 0 /\ pass = NoPass /\ (legacy = "pending" => cursor.status = "rescan")
  BY DEF Init, NoCursor
<1>5. CursorSound
  BY <1>4, CaptureAssumption DEF CursorSound, Posted, Id
<1>6. LegacyKept /\ WindowFirst /\ ReadsStarted /\ PassSound
  BY <1>4 DEF LegacyKept, Rescanning, WindowFirst, ReadsStarted, Started, PassSound
<1> QED BY <1>0, <1>2, <1>3, <1>5, <1>6 DEF IInv

LEMMA FetchedText ==
  ASSUME NEW row \in {NoRow} \cup MessageRow, NEW s \in Snapshot, NEW type, s.text # 0,
         row # NoRow /\ row.edited # 0 => row.text # 0
  PROVE  /\ Upserted(row, s, type).text # 0
         /\ Upserted(row, s, type) # NoRow
<1>1. CASE row = NoRow
  BY <1>1 DEF Upserted, NoRow
<1>2. CASE row # NoRow
  <2>1. row \in MessageRow
    BY <1>2
  <2>2. Upserted(row, s, type).text = IF NotOlder(s, row) THEN s.text ELSE row.text
    BY <1>2, <2>1 DEF Upserted, MessageRow
  <2>3. ~ NotOlder(s, row) => row.text # 0
    BY <1>2 DEF NotOlder
  <2>4. Upserted(row, s, type).text # 0
    BY <2>2, <2>3
  <2> QED BY <2>4 DEF NoRow
<1> QED BY <1>1, <1>2

LEMMA OtherText ==
  ASSUME NEW row \in {NoRow} \cup MessageRow, NEW n \in Nat,
         row # NoRow /\ row.edited # 0 => row.text # 0
  PROVE  /\ MarkedDeleted(row).edited # 0 => MarkedDeleted(row).text # 0
         /\ Reacted(row, n).edited # 0 => Reacted(row, n).text # 0
         /\ row # NoRow => MarkedDeleted(row).text = row.text /\ Reacted(row, n).text = row.text
BY DEF MarkedDeleted, Reacted, Known, BlankRow, MessageRow, NoRow

(* Posting, editing, reacting and deleting. *)
LEMMA DeliverTexts ==
  ASSUME CaptureTypeOK, TextsShown, NEW kind, NEW m \in Id, Deliver(kind, m), chat'[m].text # 0
  PROVE  \A i \in DOMAIN updates' : updates'[i].seen.text # 0
<1>1. updates \in Seq(Update)
  BY DEF CaptureTypeOK
<1> DEFINE u == [kind |-> kind, id |-> m, seen |-> Seen(m)']
<1>2. u.seen.text # 0
  BY DEF Seen
<1>3. CASE updates' = updates
  BY <1>3 DEF TextsShown
<1>4. CASE updates' = Append(updates, u)
  <2> HIDE DEF u
  <2>1. \A i \in 1 .. Len(updates) + 1 :
          Append(updates, u)[i] = IF i <= Len(updates) THEN updates[i] ELSE u
    BY <1>1
  <2>2. DOMAIN updates' = 1 .. Len(updates) + 1 /\ DOMAIN updates = 1 .. Len(updates) /\ Len(updates) \in Nat
    BY <1>1, <1>4
  <2> QED BY <1>2, <1>4, <2>1, <2>2 DEF TextsShown
<1> QED BY <1>3, <1>4 DEF Deliver

LEMMA ChatStepSound ==
  ASSUME IInv, CaptureTypeOK', Publish \/ Edit \/ React \/ Delete
  PROVE  IInv'
<1>1. chat \in [Id -> Post] /\ UNCHANGED Unread
  BY DEF IInv, CaptureTypeOK, Publish, Edit, React, Delete, Unread
<1>2. PICK m \in Id, kind \in {"new", "edit", "react", "delete"} :
        /\ Deliver(kind, m)
        /\ \A k \in Id : k # m => chat'[k] = chat[k]
        /\ chat'[m].text # 0
        /\ chat'[m].state # "none"
        /\ chat[m].state = "none" => \A k \in Id : k < m => chat[k].state # "none"
        /\ chat[m].state \in {"none", "posted"}
  <2>0. \A k \in Id : chat[k] \in Post /\ (chat[k].state # "none" => chat[k].text \in Nat /\ chat[k].text # 0)
    BY <1>1 DEF IInv, TextsShown, Post
  <2>1. CASE Publish
    <3>1. PICK m \in Id :
            /\ chat[m].state = "none" /\ \A k \in Id : k < m => chat[k].state # "none"
            /\ chat' = [chat EXCEPT ![m].state = "posted", ![m].text = 1]
            /\ Deliver("new", m)
      BY <2>1 DEF Publish
    <3>2. chat'[m].text = 1 /\ chat'[m].state = "posted" /\ \A k \in Id : k # m => chat'[k] = chat[k]
      BY <1>1, <2>0, <3>1 DEF Post
    <3>3. chat'[m].text # 0 /\ chat'[m].state # "none"
      BY <3>2
    <3> QED BY <3>1, <3>2, <3>3, Zenon
  <2>2. CASE Edit
    <3>1. PICK m \in Id :
            /\ chat[m].state = "posted"
            /\ \E date : chat' = [chat EXCEPT ![m].text = @ + 1, ![m].edited = date]
            /\ Deliver("edit", m)
      BY <2>2 DEF Edit, Posted
    <3>2. chat'[m].text = chat[m].text + 1 /\ chat'[m].state = "posted" /\ \A k \in Id : k # m => chat'[k] = chat[k]
      BY <1>1, <2>0, <3>1 DEF Post
    <3>3. chat'[m].text # 0
      BY <2>0, <3>1, <3>2
    <3> QED BY <3>1, <3>2, <3>3
  <2>3. CASE React
    <3>1. PICK m \in Id :
            /\ chat[m].state = "posted"
            /\ chat' = [chat EXCEPT ![m].reactions = @ + 1]
            /\ Deliver("react", m)
      BY <2>3 DEF React, Posted
    <3>2. chat'[m].text = chat[m].text /\ chat'[m].state = "posted" /\ \A k \in Id : k # m => chat'[k] = chat[k]
      BY <1>1, <2>0, <3>1 DEF Post
    <3> QED BY <2>0, <3>1, <3>2
  <2>4. CASE Delete
    <3>1. PICK m \in Id :
            /\ chat[m].state = "posted"
            /\ chat' = [chat EXCEPT ![m].state = "deleted"]
            /\ Deliver("delete", m)
      BY <2>4 DEF Delete, Posted
    <3>2. chat'[m].text = chat[m].text /\ chat'[m].state = "deleted" /\ \A k \in Id : k # m => chat'[k] = chat[k]
      BY <1>1, <2>0, <3>1 DEF Post
    <3> QED BY <2>0, <3>1, <3>2
  <2> QED BY <2>1, <2>2, <2>3, <2>4
<1>3. /\ \A k \in Id : chat[k].state # "none" => chat'[k].state # "none"
      /\ \A k \in Id : chat'[k].state = "posted" => chat[k].state \in {"none", "posted"}
  BY <1>2
<1>4. CursorSound' /\ LegacyKept' /\ WindowFirst' /\ ReadsStarted' /\ PassSound'
  BY <1>1, <1>3, ChatKeeps
<1>5. ChatInOrder'
  <2>1. \A k \in Id : k < m => chat[k].state # "none"
    BY <1>2 DEF IInv, ChatInOrder
  <2>2. ASSUME NEW j \in Id, NEW k \in Id, k < j, chat'[j].state # "none" PROVE chat'[k].state # "none"
    <3>1. CASE j = m
      BY <1>3, <2>1, <2>2, <3>1
    <3>2. CASE j # m
      BY <1>2, <1>3, <2>2, <3>2 DEF IInv, ChatInOrder
    <3> QED BY <3>1, <3>2
  <2> QED BY <2>2 DEF ChatInOrder
<1>6. TextsShown'
  <2>1. \A i \in DOMAIN updates' : updates'[i].seen.text # 0
    BY <1>2, DeliverTexts DEF IInv
  <2>2. \A k \in Id : chat'[k].state # "none" => chat'[k].text # 0
    BY <1>2 DEF IInv, TextsShown
  <2> QED BY <1>1, <2>1, <2>2 DEF IInv, TextsShown, Unread
<1> QED BY <1>4, <1>5, <1>6 DEF IInv

(* The handlers, and an update they lose. *)
LEMMA TailTexts ==
  ASSUME CaptureTypeOK, TextsShown, updates # <<>>
  PROVE  /\ \A i \in DOMAIN Tail(updates) : Tail(updates)[i].seen.text # 0
         /\ Head(updates).seen.text # 0
<1>1. updates \in Seq(Update) /\ Len(updates) \in Nat /\ DOMAIN updates = 1 .. Len(updates) /\ Len(updates) # 0
  BY DEF CaptureTypeOK
<1>2. /\ DOMAIN Tail(updates) = 1 .. Len(updates) - 1
      /\ \A i \in 1 .. Len(updates) - 1 : Tail(updates)[i] = updates[i + 1]
      /\ Head(updates) = updates[1]
  BY <1>1
<1> QED BY <1>1, <1>2 DEF TextsShown

LEMMA HandleSound ==
  ASSUME IInv, CaptureTypeOK', Handle \/ HandlerFails
  PROVE  IInv'
<1> DEFINE u == Head(updates)
<1>1. /\ updates # <<>> /\ updates' = Tail(updates)
      /\ UNCHANGED <<chat, cursor, pass, legacy, floor, skipped>>
      /\ rows' = rows \/ rows' = Handled(u)
  BY DEF Handle, HandlerFails
<1>2. u \in Update /\ u.seen.text # 0 /\ \A i \in DOMAIN updates' : updates'[i].seen.text # 0
  BY <1>1, FirstUpdate, TailTexts DEF IInv
<1> HIDE DEF u
<1>3. u.id \in Id /\ u.seen \in Snapshot /\ u.seen.reactions \in Nat /\ rows \in [Id -> {NoRow} \cup MessageRow]
  BY <1>2 DEF Update, Snapshot, IInv, CaptureTypeOK
<1>4. rows[u.id] # NoRow /\ rows[u.id].edited # 0 => rows[u.id].text # 0
  BY <1>3 DEF IInv, TextsShown
<1>5. \A m \in Id : m # u.id => rows'[m] = rows[m]
  BY <1>1, <1>3 DEF Handled
<1>6. \/ rows'[u.id] = rows[u.id]
      \/ rows'[u.id] = Upserted(rows[u.id], u.seen, u.kind)
      \/ rows'[u.id] = MarkedDeleted(rows[u.id])
      \/ rows'[u.id] = Reacted(rows[u.id], u.seen.reactions)
  BY <1>1, <1>2, <1>3 DEF Handled, Update
<1>7. /\ Upserted(rows[u.id], u.seen, u.kind).text # 0 /\ Upserted(rows[u.id], u.seen, u.kind) # NoRow
      /\ MarkedDeleted(rows[u.id]) # NoRow /\ Reacted(rows[u.id], u.seen.reactions) # NoRow
  <2>1. rows[u.id] \in {NoRow} \cup MessageRow
    BY <1>3
  <2>2. /\ MarkedDeleted(rows[u.id]) # NoRow /\ Reacted(rows[u.id], u.seen.reactions) # NoRow
    BY <2>1 DEF MarkedDeleted, Reacted, Known, BlankRow, MessageRow, NoRow
  <2> QED BY <1>2, <1>3, <1>4, <2>1, <2>2, FetchedText
<1>8. /\ MarkedDeleted(rows[u.id]).edited # 0 => MarkedDeleted(rows[u.id]).text # 0
      /\ Reacted(rows[u.id], u.seen.reactions).edited # 0 => Reacted(rows[u.id], u.seen.reactions).text # 0
      /\ rows[u.id] # NoRow => /\ MarkedDeleted(rows[u.id]).text = rows[u.id].text
                               /\ Reacted(rows[u.id], u.seen.reactions).text = rows[u.id].text
  BY <1>3, <1>4, OtherText
<1>9. rows'[u.id] # NoRow /\ rows'[u.id].edited # 0 => rows'[u.id].text # 0
  BY <1>4, <1>6, <1>7, <1>8
<1>10. \A m \in Id : Stored(m) => Stored(m)'
  <2> SUFFICES ASSUME NEW m \in Id, rows[m] # NoRow, rows[m].text # 0
               PROVE  rows'[m] # NoRow /\ rows'[m].text # 0
    BY DEF Stored
  <2>1. CASE m = u.id
    BY <1>6, <1>7, <1>8, <2>1
  <2>2. CASE m # u.id
    BY <1>5, <2>2
  <2> QED BY <2>1, <2>2
<1>11. TextsShown'
  BY <1>1, <1>2, <1>5, <1>9 DEF IInv, TextsShown
<1> QED BY <1>1, <1>10, <1>11, RowsKeep DEF IInv

(* Connecting, and a policy that changes. *)
LEMMA LinkSound ==
  ASSUME IInv, CaptureTypeOK', Connect \/ Activated \/ SetPolicy
  PROVE  IInv'
<1>1. UNCHANGED <<chat, updates, rows, cursor, pass, legacy, floor, skipped>>
  BY DEF Connect, Activated, SetPolicy, telegram, history
<1>2. \A m \in Id : Stored(m) => Stored(m)'
  BY <1>1 DEF Stored
<1>3. TextsShown'
  BY <1>1 DEF IInv, TextsShown
<1> QED BY <1>1, <1>2, <1>3, RowsKeep DEF IInv

(* What holds of the pass holds when there is none. *)
LEMMA NoPassSound ==
  ASSUME IInv, CaptureTypeOK', pass' = NoPass, UNCHANGED <<chat, rows, skipped>>,
         legacy' = "pending" => legacy = "pending" /\ (Rescanning \/ cursor.done)',
         UNCHANGED floor,
         updates' = updates \/ updates' = <<>>,
         Started(cursor'.scanned),
         \A m \in Id : Wanted(m) /\ m <= cursor'.scanned => Stored(m)
  PROVE  IInv'
<1>1. ChatInOrder' /\ WindowFirst' /\ PassSound'
  BY DEF IInv, ChatInOrder, WindowFirst, PassSound
<1>2. LegacyKept'
  BY DEF LegacyKept
<1>3. ReadsStarted'
  BY DEF ReadsStarted, Started
<1>4. TextsShown'
  <2>1. \A i \in DOMAIN updates' : updates'[i].seen.text # 0
    BY DEF IInv, TextsShown
  <2> QED BY <2>1 DEF IInv, TextsShown
<1>5. CursorSound'
  <2> SUFFICES ASSUME NEW m \in Posted \ skipped, m <= cursor'.scanned, legacy' = "pending" \/ floor < m
               PROVE  Stored(m)
    BY DEF CursorSound, Stored, Posted
  <2> QED BY DEF Wanted, Posted
<1> QED BY <1>1, <1>2, <1>3, <1>4, <1>5 DEF IInv

LEMMA Scanned ==
  ASSUME IInv
  PROVE  /\ \A m \in Id : Wanted(m) /\ m <= cursor.scanned => Stored(m)
         /\ cursor.scanned \in Nat
BY DEF IInv, CursorSound, Wanted, Stored, CaptureTypeOK, Cursor

(* A disconnect and a deleted origin. *)
LEMMA DownSound ==
  ASSUME IInv, CaptureTypeOK', Disconnect
  PROVE  IInv'
<1>1. /\ pass' = NoPass /\ UNCHANGED <<chat, rows, skipped, legacy, floor, cursor>>
      /\ updates' = updates \/ updates' = <<>>
  BY DEF Disconnect
<1>2. legacy' = "pending" => legacy = "pending" /\ (Rescanning \/ cursor.done)'
  BY <1>1 DEF IInv, LegacyKept, Rescanning
<1>3. Started(cursor'.scanned) /\ \A m \in Id : Wanted(m) /\ m <= cursor'.scanned => Stored(m)
  BY <1>1, Scanned DEF IInv, ReadsStarted
<1> QED BY <1>1, <1>2, <1>3, NoPassSound

LEMMA DeleteOriginSound ==
  ASSUME IInv, CaptureTypeOK', DeleteOrigin
  PROVE  IInv'
<1>1. /\ cursor' = NoCursor /\ legacy' = "never"
      /\ UNCHANGED <<chat, updates, rows, pass, floor, skipped>>
  BY DEF DeleteOrigin, telegram
<1>2. cursor'.scanned = 0
  BY <1>1 DEF NoCursor
<1>3. CursorSound'
  BY <1>2, CaptureAssumption DEF CursorSound, Posted, Id
<1>4. ChatInOrder' /\ TextsShown' /\ LegacyKept'
  BY <1>1 DEF IInv, ChatInOrder, TextsShown, LegacyKept
<1>5. WindowFirst' /\ ReadsStarted'
  BY <1>1, <1>2 DEF IInv, WindowFirst, Windowed, ReadsStarted, Started
<1>6. PassSound'
  <2>1. \A m \in Id : /\ Wanted(m)' => Wanted(m)
                      /\ Stored(m)' <=> Stored(m)
                      /\ InPage(m)' <=> InPage(m)
    BY <1>1 DEF Wanted, Posted, Stored, InPage
  <2>2. (Posted \ skipped)' = Posted \ skipped /\ \A m \in Posted : m \in Id
    BY <1>1 DEF Posted
  <2> QED BY <1>1, <2>1, <2>2 DEF IInv, PassSound, Windowed
<1> QED BY <1>3, <1>4, <1>5, <1>6 DEF IInv

(* The first step of a pass. *)
LEMMA BeginSound ==
  ASSUME IInv, CaptureTypeOK', NEW by \in Askers, Begin(by)
  PROVE  IInv'
<1>1. pass = NoPass /\ UNCHANGED <<chat, updates, rows, cursor, legacy, floor, skipped>>
  BY DEF Begin, MayBegin, telegram, history
<1>2. CASE ~ enabled
  <2>1. pass' = NoPass
    BY <1>2 DEF Begin
  <2>2. legacy' = "pending" => legacy = "pending" /\ (Rescanning \/ cursor.done)'
    BY <1>1 DEF IInv, LegacyKept, Rescanning
  <2>3. Started(cursor'.scanned) /\ \A m \in Id : Wanted(m) /\ m <= cursor'.scanned => Stored(m)
    BY <1>1, Scanned DEF IInv, ReadsStarted
  <2> QED BY <1>1, <2>1, <2>2, <2>3, NoPassSound
<1>3. CASE enabled
  <2>1. pass' = [at |-> "head", by |-> by, mode |-> Mode, scanned |-> cursor.scanned,
                 head |-> 0, page |-> {}, upto |-> 0, below |-> 0, last |-> FALSE]
    BY <1>3 DEF Begin
  <2>2. /\ pass'.at = "head" /\ pass'.mode = Mode /\ pass'.scanned = cursor.scanned
        /\ pass'.head = 0 /\ pass'.page = {} /\ pass'.upto = 0
    BY <2>1
  <2>3. CursorSound' /\ ChatInOrder' /\ TextsShown'
    BY <1>1, <2>2 DEF IInv, CursorSound, ChatInOrder, TextsShown, Posted
  <2>4. LegacyKept'
    BY <1>1, <2>2 DEF IInv, LegacyKept, Rescanning, Mode
  <2>5. WindowFirst'
    BY <1>1, <2>2 DEF WindowFirst, Windowed, Mode
  <2>6. ReadsStarted'
    BY <1>1, <2>2 DEF IInv, ReadsStarted, Started
  <2>7. PassSound'
    <3>1. \A m \in Id : (Wanted(m)' <=> Wanted(m)) /\ (Stored(m)' <=> Stored(m))
      BY <1>1 DEF Wanted, Posted, Stored
    <3> QED BY <2>2, <3>1, Scanned DEF PassSound
  <2> QED BY <2>3, <2>4, <2>5, <2>6, <2>7 DEF IInv
<1> QED BY <1>2, <1>3

LEMMA BeginBlindSound ==
  ASSUME IInv, CaptureTypeOK', NEW by \in Askers, BeginBlind(by)
  PROVE  IInv'
<1>1. /\ pass' = NoPass /\ UNCHANGED <<chat, updates, rows, floor, skipped>>
      /\ legacy' = IF Rescanning THEN "forgotten" ELSE legacy
      /\ cursor' = [scanned |-> Greater(cursor.scanned, 0), status |-> "failed", done |-> cursor.done \/ FALSE]
  BY DEF BeginBlind, MayBegin, telegram, SaveCursor
<1>2. cursor'.scanned = cursor.scanned /\ cursor'.done = cursor.done
  BY <1>1, Scanned DEF Greater, IInv, CaptureTypeOK, Cursor
<1>3. legacy' = "pending" => legacy = "pending" /\ (Rescanning \/ cursor.done)'
  BY <1>1, <1>2 DEF IInv, LegacyKept
<1>4. Started(cursor'.scanned) /\ \A m \in Id : Wanted(m) /\ m <= cursor'.scanned => Stored(m)
  BY <1>2, Scanned DEF IInv, ReadsStarted
<1> QED BY <1>1, <1>3, <1>4, NoPassSound

(* A pass that ends before it is complete. *)
LEMMA PassEndSound ==
  ASSUME IInv, CaptureTypeOK', FailPass \/ BreakPass
  PROVE  IInv'
<1>1. /\ pass # NoPass /\ pass' = NoPass
      /\ UNCHANGED <<chat, updates, rows, legacy, floor, skipped>>
  BY DEF FailPass, BreakPass, telegram, history
<1>2. CASE BreakPass
  <2>1. UNCHANGED cursor
    BY <1>2 DEF BreakPass
  <2>2. legacy' = "pending" => legacy = "pending" /\ (Rescanning \/ cursor.done)'
    BY <1>1, <2>1 DEF IInv, LegacyKept, Rescanning
  <2>3. Started(cursor'.scanned) /\ \A m \in Id : Wanted(m) /\ m <= cursor'.scanned => Stored(m)
    BY <2>1, Scanned DEF IInv, ReadsStarted
  <2> QED BY <1>1, <2>2, <2>3, NoPassSound
<1>3. CASE FailPass
  <2> DEFINE n == IF PageStored /\ ~Windowed THEN pass.upto ELSE pass.scanned
  <2>1. cursor' = [scanned |-> Greater(cursor.scanned, n), status |-> Failed, done |-> cursor.done \/ FALSE]
    BY <1>3 DEF FailPass, SaveCursor
  <2>2. n \in Nat /\ Started(n) /\ \A m \in Id : Wanted(m) /\ m <= n => Stored(m)
    <3>1. CASE PageStored /\ ~Windowed
      <4>1. \A m \in Id : ~ InPage(m)
        BY <3>1 DEF InPage, PageStored
      <4> QED BY <1>1, <3>1, <4>1, Underway DEF IInv, ReadsStarted, PassSound, PageStored
    <3>2. CASE ~ (PageStored /\ ~Windowed)
      BY <1>1, <3>2, Underway DEF IInv, ReadsStarted, PassSound
    <3> QED BY <3>1, <3>2
  <2> HIDE DEF n
  <2>3. cursor'.scanned = Greater(cursor.scanned, n) /\ cursor'.status = Failed /\ cursor'.done = cursor.done
    BY <2>1 DEF IInv, CaptureTypeOK, Cursor
  <2>4. Started(cursor'.scanned) /\ \A m \in Id : Wanted(m) /\ m <= cursor'.scanned => Stored(m)
    BY <2>2, <2>3, Scanned DEF Greater, IInv, ReadsStarted
  <2>5. legacy' = "pending" => legacy = "pending" /\ (Rescanning \/ cursor.done)'
    BY <1>1, <2>3 DEF IInv, LegacyKept, Rescanning, Failed
  <2> QED BY <1>1, <2>4, <2>5, NoPassSound
<1> QED BY <1>2, <1>3

-----------------------------------------------------------------------------
(* The steps of a pass.  None of them changes the chat or the updates.     *)
LEMMA SavedCursor ==
  ASSUME IInv, NEW n \in Nat, NEW done \in BOOLEAN, NEW status, SaveCursor(n, status, done),
         Started(n), \A m \in Id : Wanted(m) /\ m <= n => Stored(m)
  PROVE  /\ Started(cursor'.scanned)
         /\ \A m \in Id : Wanted(m) /\ m <= cursor'.scanned => Stored(m)
         /\ cursor'.status = status /\ cursor'.done = (cursor.done \/ done)
         /\ cursor.scanned = 0 /\ n = 0 => cursor'.scanned = 0
BY Scanned DEF SaveCursor, Greater, IInv, ReadsStarted

LEMMA ReadHeadSound ==
  ASSUME IInv, CaptureTypeOK', ReadHead
  PROVE  IInv'
<1> DEFINE head == Max(Posted \cup {0})
<1>1. /\ pass # NoPass
      /\ UNCHANGED <<chat, updates, rows, legacy, floor, skipped>>
      /\ pass' = [pass EXCEPT !.head = head,
                              !.at = IF Windowed \/ pass.scanned < head THEN "fetch" ELSE "done"]
      /\ SaveCursor(pass.scanned, Running, FALSE)
      /\ pass.at = "head"
  BY AtIsUnderway DEF ReadHead, telegram, history
<1>2. Started(head)
  BY HeadType DEF Started, Posted
<1> HIDE DEF head
<1>3. /\ pass \in PassRecord /\ pass.scanned \in Nat
      /\ pass'.head = head /\ pass'.at \in {"fetch", "done"} /\ pass'.mode = pass.mode
      /\ pass'.scanned = pass.scanned /\ pass'.page = pass.page /\ pass'.upto = pass.upto
  BY <1>1, Underway DEF IInv, PassRecord
<1>4. Started(pass.scanned) /\ \A m \in Id : Wanted(m) /\ m <= pass.scanned => Stored(m)
  BY <1>1 DEF IInv, ReadsStarted, PassSound
<1>5. /\ Started(cursor'.scanned)
      /\ \A m \in Id : Wanted(m) /\ m <= cursor'.scanned => Stored(m)
      /\ cursor'.status = Running /\ cursor'.done = (cursor.done \/ FALSE)
      /\ cursor.scanned = 0 /\ pass.scanned = 0 => cursor'.scanned = 0
  BY <1>1, <1>3, <1>4, SavedCursor
<1>6. cursor'.done = cursor.done
  BY <1>5 DEF IInv, CaptureTypeOK, Cursor
<1>7. \A m \in Id : (Wanted(m)' <=> Wanted(m)) /\ (Stored(m)' <=> Stored(m))
  BY <1>1 DEF Wanted, Posted, Stored
<1>8. CursorSound' /\ PassSound'
  <2>1. \A m \in Posted : m \in Id
    BY DEF Posted
  <2>2. CursorSound'
    BY <1>1, <1>5, <2>1 DEF CursorSound, Wanted, Stored, Posted
  <2>3. PassSound'
    BY <1>3, <1>4, <1>7 DEF PassSound
  <2> QED BY <2>2, <2>3
<1>9. ChatInOrder' /\ TextsShown' /\ WindowFirst' /\ ReadsStarted'
  <2>1. ChatInOrder' /\ TextsShown'
    BY <1>1, <1>3 DEF IInv, ChatInOrder, TextsShown
  <2>2. WindowFirst'
    BY <1>1, <1>3, <1>5 DEF IInv, WindowFirst, Windowed
  <2>3. ReadsStarted'
    BY <1>1, <1>2, <1>3, <1>5 DEF IInv, ReadsStarted, Started
  <2> QED BY <2>1, <2>2, <2>3
<1>10. LegacyKept'
  BY <1>1, <1>3, <1>5, <1>6 DEF IInv, LegacyKept, Rescanning, Running
<1> QED BY <1>8, <1>9, <1>10 DEF IInv

(* Rows and cursor as they are, and the pass elsewhere. *)
LEMMA FetchKeeps ==
  ASSUME IInv, pass # NoPass, UNCHANGED <<chat, updates, rows, cursor, legacy, floor, skipped>>,
         pass'.mode = pass.mode, \A s \in pass'.page : s.seen.text # 0
  PROVE  CursorSound' /\ ChatInOrder' /\ TextsShown' /\ LegacyKept'
BY DEF IInv, CursorSound, Posted, ChatInOrder, TextsShown, LegacyKept, Rescanning

LEMMA PageTexts ==
  ASSUME IInv, NEW S \in SUBSET Posted
  PROVE  /\ \A s \in PageOf(S) : s.seen.text # 0
         /\ \A m \in S : \E s \in PageOf(S) : s.id = m
<1>1. \A m \in S : Seen(m).text # 0
  BY DEF Seen, IInv, TextsShown, Posted
<1>2. \A s \in PageOf(S) : \E m \in S : s = [id |-> m, seen |-> Seen(m)]
  BY DEF PageOf
<1>3. \A m \in S : [id |-> m, seen |-> Seen(m)] \in PageOf(S)
  BY DEF PageOf
<1>4. \A s \in PageOf(S) : s.seen.text # 0
  BY <1>1, <1>2
<1>5. ASSUME NEW m \in S PROVE \E s \in PageOf(S) : s.id = m
  <2>1. [id |-> m, seen |-> Seen(m)].id = m
    OBVIOUS
  <2> QED BY <1>3, <2>1
<1> QED BY <1>4, <1>5

LEMMA FetchInitialSound ==
  ASSUME IInv, CaptureTypeOK', FetchInitial
  PROVE  IInv'
<1> DEFINE S == {m \in Posted : m <= pass.head}
           window == Newest(S, InitialLimit)
           rest == (S \ window) \cup {0}
<1>1. /\ pass # NoPass /\ Windowed /\ pass.at = "fetch"
      /\ UNCHANGED <<chat, updates, rows, cursor, legacy, floor, skipped>>
      /\ pass' = [pass EXCEPT !.at = "store", !.page = PageOf(window), !.below = Max(rest)]
  BY AtIsUnderway DEF FetchInitial, telegram, history
<1>2. window \in SUBSET Posted
  BY DEF Newest
<1>3. \A m \in S \ window : m <= Max(rest)
  <2>1. rest \in SUBSET (0 .. MaxId) /\ rest # {}
    BY CaptureAssumption DEF Posted, Id
  <2> HIDE DEF rest
  <2>2. \A m \in rest : m <= Max(rest)
    BY <2>1, GreatestOf
  <2> QED BY <2>2 DEF rest
<1>4. /\ pass \in PassRecord /\ pass.scanned \in Nat /\ pass.head \in Nat
      /\ pass'.at = "store" /\ pass'.page = PageOf(window) /\ pass'.below = Max(rest)
      /\ pass'.mode = pass.mode /\ pass'.scanned = pass.scanned /\ pass'.head = pass.head
      /\ pass'.upto = pass.upto
  <2> HIDE DEF rest, window
  <2> QED BY <1>1, Underway DEF IInv, PassRecord
<1>5. \A s \in pass'.page : s.seen.text # 0
  BY <1>2, <1>4, PageTexts
<1>6. CursorSound' /\ ChatInOrder' /\ TextsShown' /\ LegacyKept'
  BY <1>1, <1>4, <1>5, FetchKeeps
<1>7. WindowFirst' /\ ReadsStarted'
  BY <1>1, <1>4 DEF IInv, WindowFirst, Windowed, ReadsStarted, Started
<1>8. PassSound'
  <2>1. \A m \in Id : (Wanted(m)' <=> Wanted(m)) /\ (Stored(m)' <=> Stored(m))
    BY <1>1 DEF Wanted, Posted, Stored
  <2>2. Windowed' /\ (Posted \ skipped)' = Posted \ skipped
    BY <1>1, <1>4 DEF Windowed, Posted
  <2>3. ASSUME NEW m \in Posted, Max(rest) < m, m <= pass.head
        PROVE  InPage(m)'
    <3>1. m \in window
      <4>1. m \in S
        BY <2>3
      <4>2. Max(rest) \in Nat /\ m \in Nat
        <5>1. rest \in SUBSET (0 .. MaxId) /\ rest # {}
          BY CaptureAssumption DEF Posted, Id
        <5> HIDE DEF rest
        <5>2. Max(rest) \in 0 .. MaxId
          BY <5>1, GreatestOf
        <5> QED BY <5>2, CaptureAssumption DEF Posted, Id
      <4>3. ~ (m <= Max(rest))
        <5> HIDE DEF rest
        <5> QED BY <2>3, <4>2
      <4> QED BY <1>3, <4>1, <4>3
    <3> QED BY <1>2, <1>4, <3>1, PageTexts DEF InPage
  <2>4. \A m \in Id : Wanted(m) /\ m <= pass.scanned => Stored(m)
    BY <1>1 DEF IInv, PassSound
  <2> HIDE DEF rest, window
  <2>5. \A m \in (Posted \ skipped)' : (pass'.below < m /\ m <= pass'.head) => (Stored(m) \/ InPage(m))'
    BY <1>4, <2>2, <2>3
  <2> QED BY <1>4, <2>1, <2>2, <2>4, <2>5 DEF PassSound
<1> QED BY <1>6, <1>7, <1>8 DEF IInv

LEMMA FetchPageSound ==
  ASSUME IInv, CaptureTypeOK', FetchPage
  PROVE  IInv'
<1> DEFINE S == {m \in Posted : pass.scanned < m /\ m <= pass.head}
           page == Oldest(S, PageSize)
<1>1. /\ pass # NoPass /\ ~ Windowed /\ pass.at = "fetch"
      /\ UNCHANGED <<chat, updates, rows, cursor, legacy, floor, skipped>>
      /\ pass' = IF page = {}
                 THEN [pass EXCEPT !.at = "done", !.scanned = pass.head]
                 ELSE [pass EXCEPT !.at = "store", !.page = PageOf(page), !.upto = Max(page),
                                   !.last = Cardinality(page) < PageSize]
  BY AtIsUnderway DEF FetchPage, telegram, history
<1>2. S \in SUBSET Id /\ S \in SUBSET Posted
  BY DEF Posted
<1>3. /\ page \in SUBSET S
      /\ page = {} => S = {}
      /\ \A m \in S, k \in page : m <= k => m \in page
      /\ Cardinality(page) < PageSize => page = S
  <2> HIDE DEF S
  <2> QED BY <1>2, PageIsPrefix
<1>4. /\ pass \in PassRecord /\ pass.scanned \in Nat /\ pass.head \in Nat
      /\ \A s \in pass.page : s.seen.text # 0
  BY <1>1, Underway DEF IInv, TextsShown
<1>5. \A m \in Id : (Wanted(m)' <=> Wanted(m)) /\ (Stored(m)' <=> Stored(m))
  BY <1>1 DEF Wanted, Posted, Stored
<1>6. \A m \in Id : Wanted(m) /\ m <= pass.scanned => Stored(m)
  BY <1>1 DEF IInv, PassSound
<1>7. \A m \in Id : Wanted(m) /\ m <= pass.head => Stored(m) \/ m \in S
  BY <1>4, <1>6, CaptureAssumption DEF Wanted, Id
<1>8. CASE page = {}
  <2> HIDE DEF S, page
  <2>1. /\ pass'.at = "done" /\ pass'.scanned = pass.head /\ pass'.mode = pass.mode
        /\ pass'.head = pass.head /\ pass'.upto = pass.upto /\ pass'.page = pass.page
    BY <1>1, <1>4, <1>8 DEF PassRecord
  <2>2. CursorSound' /\ ChatInOrder' /\ TextsShown' /\ LegacyKept'
    BY <1>1, <1>4, <2>1, FetchKeeps
  <2>3. WindowFirst' /\ ReadsStarted'
    BY <1>1, <2>1 DEF IInv, WindowFirst, ReadsStarted, Started
  <2>4. PassSound'
    BY <1>3, <1>5, <1>7, <1>8, <2>1 DEF PassSound
  <2> QED BY <2>2, <2>3, <2>4 DEF IInv
<1>9. CASE page # {}
  <2>1. Max(page) \in page /\ \A m \in page : m <= Max(page)
    <3>1. page \in SUBSET (0 .. MaxId)
      <4> HIDE DEF S, page
      <4> QED BY <1>2, <1>3, CaptureAssumption DEF Id
    <3> HIDE DEF S, page
    <3> QED BY <1>9, <3>1, GreatestOf
  <2>2. page \in SUBSET Posted
    BY <1>2, <1>3
  <2> HIDE DEF page
  <2>3. /\ pass'.at = "store" /\ pass'.scanned = pass.scanned /\ pass'.mode = pass.mode
        /\ pass'.head = pass.head /\ pass'.upto = Max(page) /\ pass'.page = PageOf(page)
        /\ pass'.last = (Cardinality(page) < PageSize)
    BY <1>1, <1>4, <1>9 DEF PassRecord
  <2>4. (\A s \in pass'.page : s.seen.text # 0) /\ \A m \in page : InPage(m)'
    BY <2>2, <2>3, PageTexts DEF InPage
  <2>5. CursorSound' /\ ChatInOrder' /\ TextsShown' /\ LegacyKept'
    BY <1>1, <2>3, <2>4, FetchKeeps
  <2>6. WindowFirst' /\ ~ Windowed'
    BY <1>1, <2>3 DEF WindowFirst, Windowed
  <2>7. ReadsStarted'
    <3>1. Max(page) \in Posted
      BY <2>1, <2>2
    <3> QED BY <1>1, <2>3, <3>1 DEF IInv, ReadsStarted, Started, Posted
  <2>8. ASSUME NEW m \in Id, Wanted(m), m <= Max(page) \/ (Cardinality(page) < PageSize /\ m <= pass.head)
        PROVE  Stored(m) \/ m \in page
    <3>1. Max(page) <= pass.head /\ Max(page) \in Nat /\ m \in Nat
      BY <1>2, <1>3, <2>1, CaptureAssumption DEF Id
    <3>2. m <= pass.head
      BY <1>4, <2>8, <3>1
    <3>3. Stored(m) \/ m \in S
      BY <1>7, <2>8, <3>2
    <3> HIDE DEF S
    <3> QED BY <1>3, <2>1, <2>8, <3>3
  <2>9. PassSound'
    <3>1. \A m \in Id : Wanted(m)' /\ (m <= pass'.upto \/ (pass'.last /\ m <= pass'.head))
            => Stored(m)' \/ InPage(m)'
      BY <1>5, <2>3, <2>4, <2>8
    <3> QED BY <1>5, <1>6, <2>3, <2>6, <3>1 DEF PassSound
  <2> QED BY <2>5, <2>6, <2>7, <2>9 DEF IInv
<1> QED BY <1>8, <1>9

LEMMA StoreNextSound ==
  ASSUME IInv, CaptureTypeOK', StoreNext
  PROVE  IInv'
<1>1. /\ pass # NoPass /\ pass.at = "store"
      /\ UNCHANGED <<chat, updates, cursor, legacy, floor>>
  BY AtIsUnderway DEF StoreNext, telegram
<1>2. PICK s \in pass.page :
        /\ IF enabled
           THEN /\ rows' = [rows EXCEPT ![s.id] = Upserted(@, s.seen, "backfill")]
                /\ UNCHANGED skipped
           ELSE /\ skipped' = skipped \cup {s.id}
                /\ UNCHANGED rows
        /\ pass' = [pass EXCEPT !.page = @ \ {s}]
  BY DEF StoreNext
<1>3. /\ pass \in PassRecord /\ pass.page \in SUBSET Snap
      /\ rows \in [Id -> {NoRow} \cup MessageRow]
  BY <1>1, Underway DEF IInv, CaptureTypeOK
<1>4. s.id \in Id /\ s.seen \in Snapshot /\ s.seen.text # 0
  BY <1>1, <1>2, <1>3 DEF Snap, IInv, TextsShown
<1>5. /\ pass'.at = "store" /\ pass'.scanned = pass.scanned /\ pass'.mode = pass.mode
      /\ pass'.head = pass.head /\ pass'.upto = pass.upto /\ pass'.below = pass.below
      /\ pass'.last = pass.last /\ pass'.page = pass.page \ {s}
  BY <1>1, <1>2, <1>3 DEF PassRecord
<1>6. /\ Upserted(rows[s.id], s.seen, "backfill").text # 0
      /\ Upserted(rows[s.id], s.seen, "backfill") # NoRow
  <2>1. rows[s.id] \in {NoRow} \cup MessageRow
    BY <1>3, <1>4
  <2>2. rows[s.id] # NoRow /\ rows[s.id].edited # 0 => rows[s.id].text # 0
    BY <1>4 DEF IInv, TextsShown
  <2> QED BY <1>4, <2>1, <2>2, FetchedText
<1>7. \A m \in Id : /\ Stored(m) => Stored(m)'
                    /\ m = s.id => Stored(m)' \/ m \in skipped'
                    /\ m # s.id => rows'[m] = rows[m] /\ (InPage(m) => InPage(m)')
  <2>1. \A m \in Id : m # s.id => rows'[m] = rows[m]
    BY <1>2, <1>3
  <2>2. \/ rows'[s.id] = rows[s.id] /\ s.id \in skipped'
        \/ rows'[s.id] = Upserted(rows[s.id], s.seen, "backfill")
    BY <1>2, <1>3, <1>4
  <2>3. \A m \in Id : m # s.id => (InPage(m) => InPage(m)')
    BY <1>5 DEF InPage
  <2> QED BY <1>6, <2>1, <2>2, <2>3 DEF Stored
<1>8. skipped \in SUBSET skipped'
  BY <1>2
<1>9. \A m \in Id : Wanted(m)' => Wanted(m) /\ m \notin skipped'
  BY <1>1, <1>8 DEF Wanted, Posted
<1>10. (Posted \ skipped)' \in SUBSET (Posted \ skipped) /\ \A m \in Posted : m \in Id
  BY <1>1, <1>8 DEF Posted
<1>11. CursorSound'
  BY <1>1, <1>7, <1>10 DEF IInv, CursorSound, Stored
<1>12. TextsShown'
  <2>1. \A m \in Id : rows'[m] # NoRow /\ rows'[m].edited # 0 => rows'[m].text # 0
    <3>1. \A m \in Id : m # s.id => rows'[m] = rows[m]
      BY <1>7
    <3>2. rows'[s.id] = rows[s.id] \/ rows'[s.id] = Upserted(rows[s.id], s.seen, "backfill")
      BY <1>2, <1>3, <1>4
    <3> QED BY <1>6, <3>1, <3>2 DEF IInv, TextsShown
  <2> QED BY <1>1, <1>5, <2>1 DEF IInv, TextsShown
<1>13. ChatInOrder' /\ LegacyKept' /\ WindowFirst' /\ ReadsStarted'
  BY <1>1, <1>5 DEF IInv, ChatInOrder, LegacyKept, Rescanning, WindowFirst, Windowed, ReadsStarted, Started
<1>14. PassSound'
  <2>1. \A m \in Id : Wanted(m)' /\ m <= pass.scanned => Stored(m)'
    BY <1>1, <1>7, <1>9 DEF IInv, PassSound
  <2>2. ASSUME ~ Windowed, NEW m \in Id, Wanted(m)', m <= pass.upto \/ (pass.last /\ m <= pass.head)
        PROVE  Stored(m)' \/ InPage(m)'
    <3>1. Stored(m) \/ InPage(m)
      BY <1>1, <1>9, <2>2 DEF IInv, PassSound
    <3> QED BY <1>7, <1>9, <2>2, <3>1
  <2>3. ASSUME Windowed, NEW m \in (Posted \ skipped)', pass.below < m, m <= pass.head
        PROVE  Stored(m)' \/ InPage(m)'
    <3>1. m \in Posted \ skipped /\ m \in Id /\ m \notin skipped'
      BY <1>10
    <3>2. Stored(m) \/ InPage(m)
      BY <1>1, <2>3, <3>1 DEF IInv, PassSound
    <3> QED BY <1>7, <3>1, <3>2
  <2> QED BY <1>5, <2>1, <2>2, <2>3 DEF PassSound, Windowed
<1> QED BY <1>11, <1>12, <1>13, <1>14 DEF IInv

LEMMA EndWindowSound ==
  ASSUME IInv, CaptureTypeOK', EndWindow
  PROVE  IInv'
<1>1. /\ pass # NoPass /\ pass.at = "store" /\ pass.page = {} /\ Windowed
      /\ UNCHANGED <<chat, updates, rows, cursor, legacy, skipped>>
      /\ floor' = pass.below
      /\ pass' = [pass EXCEPT !.at = "done", !.scanned = pass.head]
  BY AtIsUnderway DEF EndWindow, PageStored, telegram
<1>2. pass \in PassRecord
  BY <1>1, Underway DEF IInv
<1>3. /\ pass'.at = "done" /\ pass'.scanned = pass.head /\ pass'.mode = pass.mode
      /\ pass'.head = pass.head /\ pass'.upto = pass.upto /\ pass'.page = pass.page
  BY <1>1, <1>2 DEF PassRecord
<1>4. legacy # "pending" /\ cursor.scanned = 0
  BY <1>1 DEF IInv, LegacyKept, WindowFirst, Windowed
<1>5. \A m \in Posted \ skipped : pass.below < m /\ m <= pass.head => Stored(m)
  BY <1>1 DEF IInv, PassSound, InPage
<1>6. CursorSound'
  BY <1>1, <1>4, CaptureAssumption DEF CursorSound, Posted, Id
<1>7. ChatInOrder' /\ TextsShown' /\ LegacyKept' /\ WindowFirst' /\ ReadsStarted'
  BY <1>1, <1>3, <1>4 DEF IInv, ChatInOrder, TextsShown, LegacyKept, WindowFirst, ReadsStarted, Started
<1>8. PassSound'
  <2>1. \A m \in Id : Wanted(m)' /\ m <= pass.head => Stored(m)'
    BY <1>1, <1>4, <1>5 DEF Wanted, Posted, Stored
  <2> QED BY <1>3, <2>1 DEF PassSound
<1> QED BY <1>6, <1>7, <1>8 DEF IInv

LEMMA SavePageSound ==
  ASSUME IInv, CaptureTypeOK', SavePage
  PROVE  IInv'
<1>1. /\ pass # NoPass /\ pass.at = "store" /\ pass.page = {} /\ ~ Windowed
      /\ UNCHANGED <<chat, updates, rows, legacy, floor, skipped>>
      /\ SaveCursor(pass.upto, Running, FALSE)
      /\ pass' = IF pass.last \/ pass.upto >= pass.head
                 THEN [pass EXCEPT !.at = "done", !.scanned = pass.head]
                 ELSE [pass EXCEPT !.at = "fetch", !.scanned = pass.upto]
  BY AtIsUnderway DEF SavePage, PageStored, telegram, history
<1>2. pass \in PassRecord /\ pass.upto \in Nat /\ pass.head \in Nat
  BY <1>1, Underway DEF IInv
<1>3. /\ pass'.at \in {"done", "fetch"} /\ pass'.mode = pass.mode
      /\ pass'.head = pass.head /\ pass'.upto = pass.upto /\ pass'.page = pass.page
      /\ \/ (pass.last \/ pass.upto >= pass.head) /\ pass'.scanned = pass.head
         \/ pass'.scanned = pass.upto
  BY <1>1, <1>2 DEF PassRecord
<1>4. \A m \in Id : Wanted(m) /\ (m <= pass.upto \/ (pass.last /\ m <= pass.head)) => Stored(m)
  BY <1>1 DEF IInv, PassSound, InPage
<1>5. \A m \in Id : Wanted(m) /\ m <= pass'.scanned => Stored(m)
  <2>1. \A m \in Id : m \in Nat
    BY DEF Id
  <2> QED BY <1>2, <1>3, <1>4, <2>1
<1>6. Started(pass.upto) /\ Started(pass.head)
  BY <1>1 DEF IInv, ReadsStarted
<1>7. /\ Started(cursor'.scanned)
      /\ \A m \in Id : Wanted(m) /\ m <= cursor'.scanned => Stored(m)
      /\ cursor'.status = Running /\ cursor'.done = (cursor.done \/ FALSE)
  BY <1>1, <1>2, <1>4, <1>6, SavedCursor
<1>8. cursor'.done = cursor.done
  BY <1>7 DEF IInv, CaptureTypeOK, Cursor
<1>9. CursorSound'
  <2>1. \A m \in Posted : m \in Id
    BY DEF Posted
  <2> QED BY <1>1, <1>7, <2>1 DEF CursorSound, Wanted, Stored, Posted
<1>10. ChatInOrder' /\ TextsShown' /\ WindowFirst' /\ ReadsStarted'
  <2>1. ChatInOrder' /\ TextsShown'
    BY <1>1, <1>3 DEF IInv, ChatInOrder, TextsShown
  <2>2. WindowFirst'
    BY <1>1, <1>3 DEF WindowFirst, Windowed
  <2>3. ReadsStarted'
    BY <1>1, <1>3, <1>6, <1>7 DEF ReadsStarted, Started
  <2> QED BY <2>1, <2>2, <2>3
<1>11. LegacyKept'
  BY <1>1, <1>3, <1>7, <1>8 DEF IInv, LegacyKept, Rescanning, Running
<1>12. PassSound'
  <2>1. \A m \in Id : (Wanted(m)' <=> Wanted(m)) /\ (Stored(m)' <=> Stored(m))
    BY <1>1 DEF Wanted, Posted, Stored
  <2> QED BY <1>3, <1>5, <2>1 DEF PassSound
<1> QED BY <1>9, <1>10, <1>11, <1>12 DEF IInv

LEMMA CompleteSound ==
  ASSUME IInv, CaptureTypeOK', Complete
  PROVE  IInv'
<1>1. /\ pass # NoPass /\ pass' = NoPass
      /\ UNCHANGED <<chat, updates, rows, legacy, floor, skipped>>
      /\ SaveCursor(pass.scanned, "completed", TRUE)
  BY AtIsUnderway DEF Complete, telegram, history
<1>2. /\ pass.scanned \in Nat /\ Started(pass.scanned)
      /\ \A m \in Id : Wanted(m) /\ m <= pass.scanned => Stored(m)
  BY <1>1, Underway DEF IInv, ReadsStarted, PassSound
<1>3. /\ Started(cursor'.scanned)
      /\ \A m \in Id : Wanted(m) /\ m <= cursor'.scanned => Stored(m)
      /\ cursor'.done = (cursor.done \/ TRUE)
  BY <1>1, <1>2, SavedCursor
<1>4. legacy' = "pending" => legacy = "pending" /\ (Rescanning \/ cursor.done)'
  BY <1>1, <1>3
<1> QED BY <1>1, <1>3, <1>4, NoPassSound

-----------------------------------------------------------------------------
LEMMA SoundStep ==
  ASSUME IInv, [Next]_vars
  PROVE  IInv'
<1>0. CaptureTypeOK'
  BY TypeStep DEF IInv
<1>1. CASE UNCHANGED vars
  <2>1. UNCHANGED <<chat, updates, rows, cursor, pass, legacy, floor, skipped>>
    BY <1>1 DEF vars, telegram, history
  <2>2. \A m \in Id : Stored(m) => Stored(m)'
    BY <2>1 DEF Stored
  <2>3. TextsShown'
    BY <2>1 DEF IInv, TextsShown
  <2> QED BY <1>0, <2>1, <2>2, <2>3, RowsKeep DEF IInv
<1>2. CASE Publish \/ Edit \/ React \/ Delete
  BY <1>0, <1>2, ChatStepSound
<1>3. CASE Handle \/ HandlerFails
  BY <1>0, <1>3, HandleSound
<1>4. CASE Connect \/ Activated \/ SetPolicy
  BY <1>0, <1>4, LinkSound
<1>5. CASE Disconnect \/ DeleteOrigin
  BY <1>0, <1>5, DownSound, DeleteOriginSound
<1>6. ASSUME NEW by \in Askers, Begin(by) \/ BeginBlind(by) PROVE IInv'
  BY <1>0, <1>6, BeginSound, BeginBlindSound
<1>7. CASE PassStep
  BY <1>0, <1>7, ReadHeadSound, FetchInitialSound, FetchPageSound, StoreNextSound, EndWindowSound,
     SavePageSound, CompleteSound DEF PassStep
<1>8. CASE FailPass \/ BreakPass
  BY <1>0, <1>8, PassEndSound
<1> QED BY <1>1, <1>2, <1>3, <1>4, <1>5, <1>6, <1>7, <1>8 DEF Next

(* What the history cursor has passed is in the archive, whatever fails,   *)
(* disconnects or is interrupted between a page and its cursor.            *)
THEOREM CursorIsSound == Spec => []CursorSound
<1>1. IInv => CursorSound
  BY DEF IInv
<1> QED BY <1>1, SoundInit, SoundStep, PTL DEF Spec

-----------------------------------------------------------------------------
(* Why a row that is settled shows what the chat shows.  What is on its    *)
(* way or on a page is a state the message was in: it bears an earlier     *)
(* date than the last edit, or that edit's text.  The last change of each  *)
(* kind is in the row or still among the updates, and an update that bears *)
(* older reactions is followed by the one that bears the last.             *)
Shows(s, message) ==
  /\ s.edited <= message.edited
  /\ s.edited = message.edited => s.text = message.text
  /\ s.reactions <= message.reactions

RowShows(m) ==
  rows[m] # NoRow =>
    /\ rows[m].edited <= chat[m].edited
    /\ rows[m].edited = chat[m].edited => rows[m].text \in {0, chat[m].text}
    /\ rows[m].reactions <= chat[m].reactions
    /\ rows[m].deleted => chat[m].state = "deleted"

SeenShow(m) ==
  /\ \A i \in DOMAIN updates : updates[i].id = m =>
       Shows(updates[i].seen, chat[m]) /\ (updates[i].kind = "delete" => chat[m].state = "deleted")
  /\ pass # NoPass => \A s \in pass.page : s.id = m => Shows(s.seen, chat[m])

LastEdit(i, m) == updates[i].id = m /\ updates[i].kind = "edit" /\ updates[i].seen.edited = chat[m].edited
Deletion(i, m) == updates[i].id = m /\ updates[i].kind = "delete"
LastReact(i, m) ==
  updates[i].id = m /\ updates[i].kind = "react" /\ updates[i].seen.reactions = chat[m].reactions

Due(m) ==
  /\ chat[m].edited > 0 =>
       (\E i \in DOMAIN updates : LastEdit(i, m)) \/ (rows[m] # NoRow /\ rows[m].edited = chat[m].edited)
  /\ chat[m].state = "deleted" =>
       (\E i \in DOMAIN updates : Deletion(i, m)) \/ (rows[m] # NoRow /\ rows[m].deleted)
  /\ chat[m].reactions > 0 =>
       (\E i \in DOMAIN updates : LastReact(i, m)) \/ (rows[m] # NoRow /\ rows[m].reactions = chat[m].reactions)

OldReactionsFirst(m) ==
  \A i \in DOMAIN updates :
    updates[i].id = m /\ updates[i].seen.reactions # chat[m].reactions =>
      \E j \in DOMAIN updates : i < j /\ LastReact(j, m)

Unseen(m) ==
  chat[m].state = "none" =>
    /\ rows[m] = NoRow
    /\ \A i \in DOMAIN updates : updates[i].id # m
    /\ pass # NoPass => \A s \in pass.page : s.id # m

Settles(m) == RowShows(m) /\ SeenShow(m) /\ Due(m) /\ OldReactionsFirst(m)

FInv ==
  /\ IInv
  /\ \A m \in Id : Unseen(m)
  /\ \A m \in Id \ (lost \cup tied) : Settles(m)

LEMMA RowIsNoRow == \A row \in MessageRow : row # NoRow
BY DEF MessageRow, NoRow

(* The updates before and after one is appended, or the first is taken.    *)
LEMMA AppendedUpdate ==
  ASSUME CaptureTypeOK, NEW u, updates' = Append(updates, u)
  PROVE  \E n \in Nat : /\ DOMAIN updates = 1 .. n /\ DOMAIN updates' = 1 .. n + 1
                        /\ updates'[n + 1] = u /\ \A i \in 1 .. n : updates'[i] = updates[i]
<1>1. updates \in Seq(Update)
  BY DEF CaptureTypeOK
<1> WITNESS Len(updates) \in Nat
<1> QED BY <1>1

LEMMA TakenUpdate ==
  ASSUME CaptureTypeOK, updates # <<>>, updates' = Tail(updates)
  PROVE  \E n \in Nat : /\ DOMAIN updates = 1 .. n + 1 /\ DOMAIN updates' = 1 .. n
                        /\ Head(updates) = updates[1] /\ \A i \in 1 .. n : updates'[i] = updates[i + 1]
<1>1. updates \in Seq(Update) /\ Len(updates) \in Nat /\ DOMAIN updates = 1 .. Len(updates) /\ Len(updates) # 0
  BY DEF CaptureTypeOK
<1>2. /\ DOMAIN Tail(updates) = 1 .. Len(updates) - 1
      /\ \A i \in 1 .. Len(updates) - 1 : Tail(updates)[i] = updates[i + 1]
      /\ Head(updates) = updates[1]
  BY <1>1
<1>3. Len(updates) - 1 \in Nat /\ Len(updates) = (Len(updates) - 1) + 1
  BY <1>1
<1> WITNESS Len(updates) - 1 \in Nat
<1> QED BY <1>1, <1>2, <1>3

-----------------------------------------------------------------------------
(* The steps that only read: rows, chat and updates stay, and what is new  *)
(* on a page is what the chat shows.                                       *)
LEMMA PageFresh ==
  ASSUME FInv, UNCHANGED <<chat, updates, rows>>, lost \subseteq lost', tied \subseteq tied',
         pass' # NoPass => \A s \in pass'.page :
           (pass # NoPass /\ s \in pass.page) \/ (s.id \in Posted /\ s.seen = Seen(s.id))
  PROVE  (\A m \in Id : Unseen(m)') /\ \A m \in Id \ (lost' \cup tied') : Settles(m)'
<1>1. ASSUME NEW m \in Id PROVE Unseen(m)'
  <2>1. Unseen(m)
    BY DEF FInv
  <2> QED BY <2>1 DEF Unseen, Posted
<1>2. ASSUME NEW m \in Id \ (lost' \cup tied') PROVE Settles(m)'
  <2>1. RowShows(m) /\ SeenShow(m) /\ Due(m) /\ OldReactionsFirst(m)
    BY <1>2 DEF FInv, Settles
  <2>2. RowShows(m)' /\ Due(m)' /\ OldReactionsFirst(m)'
    BY <2>1 DEF RowShows, Due, OldReactionsFirst, LastEdit, Deletion, LastReact
  <2>3. chat[m] \in Post
    BY DEF FInv, IInv, CaptureTypeOK
  <2>4. Shows(Seen(m), chat[m])
    BY <2>3 DEF Shows, Seen, Post
  <2>6. SeenShow(m)'
    BY <2>1, <2>4 DEF SeenShow, Shows
  <2> QED BY <2>2, <2>6 DEF Settles
<1> QED BY <1>1, <1>2

-----------------------------------------------------------------------------
(* A snapshot of the message put into its row. *)
LEMMA UpsertedShows ==
  ASSUME CaptureTypeOK, NEW m \in Id, NEW s \in Snapshot, NEW type, Shows(s, chat[m]), RowShows(m),
         rows'[m] = Upserted(rows[m], s, type), chat' = chat
  PROVE  /\ RowShows(m)' /\ rows'[m] # NoRow
         /\ rows'[m].edited >= s.edited
         /\ rows[m] # NoRow => rows'[m].edited >= rows[m].edited /\ rows'[m].deleted = rows[m].deleted
         /\ type # "backfill" /\ s.reactions > 0 => rows'[m].reactions = s.reactions
         /\ rows[m] # NoRow /\ s.reactions = 0 => rows'[m].reactions = rows[m].reactions
         /\ rows[m] # NoRow /\ rows[m].reactions > 0 /\ type = "backfill" =>
              rows'[m].reactions = rows[m].reactions
<1>1. /\ rows[m] \in {NoRow} \cup MessageRow /\ chat[m] \in Post
      /\ s.text \in Nat /\ s.edited \in Nat /\ s.reactions \in Nat
  BY DEF CaptureTypeOK, Snapshot
<1>2. CASE rows[m] = NoRow
  <2>1. rows'[m] = [text |-> s.text, edited |-> s.edited, reactions |-> s.reactions, deleted |-> FALSE]
    BY <1>2 DEF Upserted
  <2>2. rows'[m] # NoRow
    BY <1>1, <2>1, RowIsNoRow DEF MessageRow
  <2> QED BY <1>1, <1>2, <2>1, <2>2 DEF RowShows, Shows, Post
<1>3. CASE rows[m] # NoRow
  <2> DEFINE row == rows[m]
  <2>0. /\ row \in MessageRow /\ row.text \in Nat /\ row.edited \in Nat /\ row.reactions \in Nat
        /\ row.deleted \in BOOLEAN
    BY <1>1, <1>3 DEF MessageRow
  <2>1. /\ rows'[m].text = IF NotOlder(s, row) THEN s.text ELSE row.text
        /\ rows'[m].edited = Greater(row.edited, s.edited)
        /\ rows'[m].reactions = MergedReactions(s, row, type)
        /\ rows'[m].deleted = row.deleted
    BY <1>3, <2>0 DEF Upserted, MessageRow
  <2>2. rows'[m] # NoRow
    BY <1>1, RowIsNoRow, UpsertedType
  <2>3. /\ chat[m].edited \in Nat /\ chat[m].reactions \in Nat
        /\ s.edited <= chat[m].edited /\ (s.edited = chat[m].edited => s.text = chat[m].text)
        /\ row.edited <= chat[m].edited
        /\ row.edited = chat[m].edited => row.text \in {0, chat[m].text}
    BY <1>1, <1>3 DEF Shows, RowShows, Post
  <2>4. /\ rows'[m].edited >= s.edited /\ rows'[m].edited >= row.edited
        /\ rows'[m].edited <= chat[m].edited
        /\ rows'[m].edited = chat[m].edited => rows'[m].text \in {0, chat[m].text}
    BY <1>1, <2>0, <2>1, <2>3 DEF Greater, NotOlder
  <2>5. /\ rows'[m].reactions <= chat[m].reactions
        /\ type # "backfill" /\ s.reactions > 0 => rows'[m].reactions = s.reactions
        /\ s.reactions = 0 => rows'[m].reactions = row.reactions
        /\ row.reactions > 0 /\ type = "backfill" => rows'[m].reactions = row.reactions
    BY <1>1, <1>3, <2>0, <2>1 DEF MergedReactions, Shows, RowShows
  <2>6. rows'[m].deleted => chat[m].state = "deleted"
    BY <1>3, <2>1 DEF RowShows
  <2> QED BY <2>1, <2>2, <2>4, <2>5, <2>6 DEF RowShows
<1> QED BY <1>2, <1>3

(* Marking a row deleted, or replacing its reactions by some of the past.  *)
LEMMA MarkedShows ==
  ASSUME CaptureTypeOK, NEW m \in Id, NEW n \in Nat, n <= chat[m].reactions, RowShows(m), chat' = chat,
         \/ rows'[m] = MarkedDeleted(rows[m]) /\ chat[m].state = "deleted"
         \/ rows'[m] = Reacted(rows[m], n)
  PROVE  /\ RowShows(m)' /\ rows'[m] # NoRow
         /\ rows[m] # NoRow => rows'[m].edited = rows[m].edited /\ (rows[m].deleted => rows'[m].deleted)
         /\ rows'[m] = MarkedDeleted(rows[m]) => rows'[m].deleted
         /\ rows[m] # NoRow /\ rows'[m] = MarkedDeleted(rows[m]) => rows'[m].reactions = rows[m].reactions
         /\ rows'[m] = Reacted(rows[m], n) => rows'[m].reactions = n
<1>1. rows[m] \in {NoRow} \cup MessageRow /\ chat[m] \in Post
  BY DEF CaptureTypeOK
<1>2. rows'[m] # NoRow
  BY <1>1, KnownType, RowIsNoRow
<1>3. CASE rows[m] = NoRow
  BY <1>1, <1>2, <1>3 DEF RowShows, MarkedDeleted, Reacted, Known, BlankRow, Post
<1>4. CASE rows[m] # NoRow
  BY <1>1, <1>2, <1>4 DEF RowShows, MarkedDeleted, Reacted, Known, MessageRow, Post
<1> QED BY <1>3, <1>4

-----------------------------------------------------------------------------
(* What the updates behind the first one still promise. *)
LEMMA TakenKeeps ==
  ASSUME CaptureTypeOK, updates # <<>>, updates' = Tail(updates), UNCHANGED <<chat, pass>>, NEW m \in Id,
         SeenShow(m), OldReactionsFirst(m)
  PROVE  /\ SeenShow(m)' /\ OldReactionsFirst(m)'
         /\ (\E i \in DOMAIN updates : LastEdit(i, m)) =>
              LastEdit(1, m) \/ (\E i \in DOMAIN updates : LastEdit(i, m))'
         /\ (\E i \in DOMAIN updates : Deletion(i, m)) =>
              Deletion(1, m) \/ (\E i \in DOMAIN updates : Deletion(i, m))'
         /\ (\E i \in DOMAIN updates : LastReact(i, m)) =>
              LastReact(1, m) \/ (\E i \in DOMAIN updates : LastReact(i, m))'
         /\ updates[1].id = m /\ updates[1].seen.reactions # chat[m].reactions =>
              (\E i \in DOMAIN updates : LastReact(i, m))'
         /\ updates[1].id = m => Shows(updates[1].seen, chat[m])
         /\ updates[1].id = m /\ updates[1].kind = "delete" => chat[m].state = "deleted"
<1>1. PICK n \in Nat : /\ DOMAIN updates = 1 .. n + 1 /\ DOMAIN updates' = 1 .. n
                       /\ \A i \in 1 .. n : updates'[i] = updates[i + 1]
  BY TakenUpdate
<1>2. 1 \in DOMAIN updates
  BY <1>1
<1>3. \A i \in DOMAIN updates' : i + 1 \in DOMAIN updates /\ updates'[i] = updates[i + 1]
  BY <1>1
<1>4. \A i \in DOMAIN updates : i = 1 \/ (i - 1 \in DOMAIN updates' /\ updates'[i - 1] = updates[i])
  BY <1>1
<1>5. SeenShow(m)'
  BY <1>3 DEF SeenShow, Shows
<1>6. \A i \in DOMAIN updates : i # 1 =>
        /\ LastEdit(i, m) => LastEdit(i - 1, m)'
        /\ Deletion(i, m) => Deletion(i - 1, m)'
        /\ LastReact(i, m) => LastReact(i - 1, m)'
  BY <1>4 DEF LastEdit, Deletion, LastReact
<1>7. OldReactionsFirst(m)'
  <2> SUFFICES ASSUME NEW i \in DOMAIN updates', updates'[i].id = m,
                      updates'[i].seen.reactions # chat[m].reactions
               PROVE  \E j \in DOMAIN updates' : i < j /\ LastReact(j, m)'
    BY DEF OldReactionsFirst
  <2>1. PICK j \in DOMAIN updates : i + 1 < j /\ LastReact(j, m)
    BY <1>3 DEF OldReactionsFirst
  <2>2. j # 1 /\ i < j - 1
    BY <1>1, <2>1
  <2> QED BY <1>4, <1>6, <2>1, <2>2
<1>8. ASSUME updates[1].id = m, updates[1].seen.reactions # chat[m].reactions
      PROVE  \E i \in DOMAIN updates' : LastReact(i, m)'
  <2>1. PICK j \in DOMAIN updates : 1 < j /\ LastReact(j, m)
    BY <1>2, <1>8 DEF OldReactionsFirst
  <2> QED BY <1>4, <1>6, <2>1
<1>9. updates[1].id = m =>
        Shows(updates[1].seen, chat[m]) /\ (updates[1].kind = "delete" => chat[m].state = "deleted")
  BY <1>2 DEF SeenShow
<1> QED BY <1>4, <1>5, <1>6, <1>7, <1>8, <1>9

(* The handlers: an update is put into its row, or lost. *)
LEMMA HandleFresh ==
  ASSUME FInv, Handle \/ HandlerFails
  PROVE  (\A m \in Id : Unseen(m)') /\ \A m \in Id \ (lost' \cup tied') : Settles(m)'
<1> DEFINE u == updates[1]
<1>0. CaptureTypeOK
  BY DEF FInv, IInv
<1>1. /\ updates # <<>> /\ updates' = Tail(updates) /\ UNCHANGED <<chat, pass, tied>>
      /\ \/ rows' = Handled(Head(updates)) /\ lost' = lost
         \/ rows' = rows /\ lost' = lost \cup {Head(updates).id}
  BY DEF Handle, HandlerFails
<1>2. PICK n \in Nat : /\ DOMAIN updates = 1 .. n + 1 /\ DOMAIN updates' = 1 .. n
                       /\ Head(updates) = u /\ \A i \in 1 .. n : updates'[i] = updates[i + 1]
  BY <1>0, <1>1, TakenUpdate
<1>3. u \in Update
  BY <1>0, <1>1, <1>2, FirstUpdate
<1>4. /\ u.id \in Id /\ u.seen \in Snapshot /\ u.kind \in {"new", "edit", "delete", "react"}
      /\ u.seen.reactions \in Nat /\ 1 \in DOMAIN updates
  BY <1>2, <1>3 DEF Update, Snapshot
<1> HIDE DEF u
<1>5. rows \in [Id -> {NoRow} \cup MessageRow] /\ chat \in [Id -> Post]
  BY <1>0 DEF CaptureTypeOK
<1>6. \A m \in Id : m # u.id => rows'[m] = rows[m]
  BY <1>1, <1>2, <1>4, <1>5 DEF Handled
<1>7. ASSUME NEW m \in Id PROVE Unseen(m)'
  <2> SUFFICES ASSUME chat[m].state = "none"
               PROVE  /\ rows'[m] = NoRow
                      /\ \A i \in DOMAIN updates' : updates'[i].id # m
                      /\ pass # NoPass => \A s \in pass.page : s.id # m
    BY <1>1 DEF Unseen
  <2>1. /\ rows[m] = NoRow /\ \A i \in DOMAIN updates : updates[i].id # m
        /\ pass # NoPass => \A s \in pass.page : s.id # m
    BY DEF FInv, Unseen
  <2>2. m # u.id
    BY <1>4, <2>1 DEF u
  <2> QED BY <1>2, <1>6, <2>1, <2>2
<1>8. ASSUME NEW m \in Id \ (lost' \cup tied') PROVE Settles(m)'
  <2>1. /\ m \in Id \ (lost \cup tied) /\ RowShows(m) /\ SeenShow(m) /\ Due(m) /\ OldReactionsFirst(m)
    BY <1>1, <1>8 DEF FInv, Settles
  <2>2. /\ SeenShow(m)' /\ OldReactionsFirst(m)'
        /\ (\E i \in DOMAIN updates : LastEdit(i, m)) =>
             LastEdit(1, m) \/ (\E i \in DOMAIN updates : LastEdit(i, m))'
        /\ (\E i \in DOMAIN updates : Deletion(i, m)) =>
             Deletion(1, m) \/ (\E i \in DOMAIN updates : Deletion(i, m))'
        /\ (\E i \in DOMAIN updates : LastReact(i, m)) =>
             LastReact(1, m) \/ (\E i \in DOMAIN updates : LastReact(i, m))'
        /\ u.id = m /\ u.seen.reactions # chat[m].reactions =>
             (\E i \in DOMAIN updates : LastReact(i, m))'
        /\ u.id = m => Shows(u.seen, chat[m])
        /\ u.id = m /\ u.kind = "delete" => chat[m].state = "deleted"
    BY <1>0, <1>1, <2>1, TakenKeeps DEF u
  <2>3. /\ LastEdit(1, m) => u.id = m /\ u.kind = "edit" /\ u.seen.edited = chat[m].edited
        /\ Deletion(1, m) => u.id = m /\ u.kind = "delete"
        /\ LastReact(1, m) => u.id = m /\ u.kind = "react"
    BY DEF LastEdit, Deletion, LastReact, u
  <2>4. /\ chat[m].edited \in Nat /\ chat[m].reactions \in Nat /\ chat' = chat
    BY <1>1, <1>5 DEF Post
  <2>5. CASE m # u.id
    <3>1. rows'[m] = rows[m]
      BY <1>6, <2>5
    <3>2. RowShows(m)'
      BY <2>1, <2>4, <3>1 DEF RowShows
    <3>3. Due(m)'
      BY <2>1, <2>2, <2>3, <2>4, <2>5, <3>1 DEF Due
    <3> QED BY <2>2, <3>2, <3>3 DEF Settles
  <2>6. CASE m = u.id /\ u.kind \in {"new", "edit"}
    <3>1. rows'[m] = Upserted(rows[m], u.seen, u.kind)
      BY <1>1, <1>2, <1>4, <1>5, <1>8, <2>6 DEF Handled
    <3>2. /\ RowShows(m)' /\ rows'[m] # NoRow
          /\ rows'[m].edited >= u.seen.edited
          /\ rows[m] # NoRow => rows'[m].edited >= rows[m].edited /\ rows'[m].deleted = rows[m].deleted
          /\ u.seen.reactions > 0 => rows'[m].reactions = u.seen.reactions
      BY <1>0, <1>4, <2>1, <2>2, <2>4, <2>6, <3>1, UpsertedShows
    <3>3. rows'[m].edited <= chat[m].edited /\ rows'[m].edited \in Nat
      <4>1. rows'[m] \in MessageRow
        BY <1>4, <1>5, <3>1, UpsertedType
      <4> QED BY <2>4, <3>2, <4>1 DEF RowShows, MessageRow
    <3>4. chat[m].edited > 0 =>
            (\E i \in DOMAIN updates : LastEdit(i, m))' \/ rows'[m].edited = chat[m].edited
      BY <2>1, <2>2, <2>3, <2>4, <3>2, <3>3 DEF Due
    <3>5. chat[m].state = "deleted" =>
            (\E i \in DOMAIN updates : Deletion(i, m))' \/ rows'[m].deleted
      BY <2>1, <2>2, <2>3, <2>6, <3>2 DEF Due
    <3>6. chat[m].reactions > 0 =>
            (\E i \in DOMAIN updates : LastReact(i, m))' \/ rows'[m].reactions = chat[m].reactions
      BY <2>2, <2>6, <3>2
    <3>7. Due(m)'
      BY <2>4, <3>2, <3>4, <3>5, <3>6 DEF Due
    <3> QED BY <2>2, <3>2, <3>7 DEF Settles
  <2>7. CASE m = u.id /\ u.kind \in {"delete", "react"}
    <3>0. u.seen.reactions <= chat[m].reactions
      BY <2>2, <2>7 DEF Shows
    <3>1. \/ u.kind = "delete" /\ rows'[m] = MarkedDeleted(rows[m]) /\ chat[m].state = "deleted"
          \/ u.kind = "react" /\ rows'[m] = Reacted(rows[m], u.seen.reactions)
      BY <1>1, <1>2, <1>4, <1>5, <1>8, <2>2, <2>7 DEF Handled
    <3>2. /\ RowShows(m)' /\ rows'[m] # NoRow
          /\ rows[m] # NoRow => rows'[m].edited = rows[m].edited /\ (rows[m].deleted => rows'[m].deleted)
          /\ rows'[m] = MarkedDeleted(rows[m]) => rows'[m].deleted
          /\ rows[m] # NoRow /\ rows'[m] = MarkedDeleted(rows[m]) => rows'[m].reactions = rows[m].reactions
          /\ rows'[m] = Reacted(rows[m], u.seen.reactions) => rows'[m].reactions = u.seen.reactions
      BY <1>0, <1>4, <2>1, <2>4, <3>0, <3>1, MarkedShows
    <3>3. chat[m].edited > 0 =>
            (\E i \in DOMAIN updates : LastEdit(i, m))' \/ rows'[m].edited = chat[m].edited
      BY <2>1, <2>2, <2>3, <2>7, <3>2 DEF Due
    <3>4. chat[m].state = "deleted" =>
            (\E i \in DOMAIN updates : Deletion(i, m))' \/ rows'[m].deleted
      BY <2>1, <2>2, <2>3, <3>1, <3>2 DEF Due
    <3>5. chat[m].reactions > 0 =>
            (\E i \in DOMAIN updates : LastReact(i, m))' \/ rows'[m].reactions = chat[m].reactions
      BY <2>1, <2>2, <2>3, <2>7, <3>1, <3>2 DEF Due
    <3>6. Due(m)'
      BY <2>4, <3>2, <3>3, <3>4, <3>5 DEF Due
    <3> QED BY <2>2, <3>2, <3>6 DEF Settles
  <2> QED BY <1>4, <2>5, <2>6, <2>7
<1> QED BY <1>7, <1>8

-----------------------------------------------------------------------------
(* What an update appended to the others promises of its own message, and  *)
(* leaves of the rest.                                                     *)
LEMMA AppendKeeps ==
  ASSUME FInv, NEW u, updates' = Append(updates, u), UNCHANGED <<rows, pass>>,
         NEW m \in Id \ (lost \cup tied), u.id # m, chat'[m] = chat[m]
  PROVE  Settles(m)'
<1>0. CaptureTypeOK /\ RowShows(m) /\ SeenShow(m) /\ Due(m) /\ OldReactionsFirst(m)
  BY DEF FInv, IInv, Settles
<1>1. PICK n \in Nat : /\ DOMAIN updates = 1 .. n /\ DOMAIN updates' = 1 .. n + 1
                       /\ updates'[n + 1] = u /\ \A i \in 1 .. n : updates'[i] = updates[i]
  BY <1>0, AppendedUpdate
<1>2. \A i \in DOMAIN updates : i \in DOMAIN updates' /\ updates'[i] = updates[i]
  BY <1>1
<1>3. \A i \in DOMAIN updates' : updates'[i].id = m => i \in DOMAIN updates /\ updates'[i] = updates[i]
  BY <1>1
<1>4. RowShows(m)' /\ SeenShow(m)'
  BY <1>0, <1>3 DEF RowShows, SeenShow, Shows
<1>5. \A i \in DOMAIN updates : /\ LastEdit(i, m) => LastEdit(i, m)'
                                /\ Deletion(i, m) => Deletion(i, m)'
                                /\ LastReact(i, m) => LastReact(i, m)'
  BY <1>2 DEF LastEdit, Deletion, LastReact
<1>6. Due(m)'
  BY <1>0, <1>2, <1>5 DEF Due
<1>7. OldReactionsFirst(m)'
  BY <1>0, <1>2, <1>3, <1>5 DEF OldReactionsFirst
<1> QED BY <1>4, <1>6, <1>7 DEF Settles

(* A change of a posted message that is on its way to the handlers. *)
LEMMA ChangeFresh ==
  ASSUME FInv, NEW m \in Id \ (lost \cup tied), NEW kind \in {"edit", "react", "delete"},
         updates' = Append(updates, [kind |-> kind, id |-> m, seen |-> Seen(m)']),
         UNCHANGED <<rows, pass>>, chat'[m] \in Post, chat[m].state = "posted",
         IF kind = "edit" THEN chat'[m].edited > chat[m].edited
         ELSE chat'[m].edited = chat[m].edited /\ chat'[m].text = chat[m].text,
         chat'[m].reactions = chat[m].reactions + (IF kind = "react" THEN 1 ELSE 0),
         chat'[m].state = IF kind = "delete" THEN "deleted" ELSE "posted"
  PROVE  Settles(m)'
<1> DEFINE u == [kind |-> kind, id |-> m, seen |-> Seen(m)']
<1>0. /\ CaptureTypeOK /\ RowShows(m) /\ SeenShow(m) /\ Due(m) /\ OldReactionsFirst(m)
      /\ chat[m] \in Post /\ chat[m].edited \in Nat /\ chat[m].reactions \in Nat
      /\ chat'[m].edited \in Nat
      /\ rows[m] \in {NoRow} \cup MessageRow /\ pass \in Pass
  BY DEF FInv, IInv, Settles, CaptureTypeOK, Post
<1>1. PICK n \in Nat : /\ DOMAIN updates = 1 .. n /\ DOMAIN updates' = 1 .. n + 1
                       /\ updates'[n + 1] = u /\ \A i \in 1 .. n : updates'[i] = updates[i]
  BY <1>0, AppendedUpdate
<1>2. /\ u.id = m /\ u.kind = kind /\ u.seen.text = chat'[m].text
      /\ u.seen.edited = chat'[m].edited /\ u.seen.reactions = chat'[m].reactions
  BY DEF Seen
<1> HIDE DEF u
<1>3. \A s \in Snapshot : Shows(s, chat[m]) => Shows(s, chat'[m])
  <2> SUFFICES ASSUME NEW s \in Snapshot, Shows(s, chat[m]) PROVE Shows(s, chat'[m])
    OBVIOUS
  <2>1. s.edited \in Nat /\ s.reactions \in Nat
    BY DEF Snapshot
  <2> QED BY <1>0, <2>1 DEF Shows
<1>4. RowShows(m)'
  <2>1. rows[m] # NoRow => rows[m].edited \in Nat /\ rows[m].reactions \in Nat
    BY <1>0 DEF MessageRow
  <2> QED BY <1>0, <2>1 DEF RowShows
<1>5. SeenShow(m)'
  <2>1. ASSUME NEW i \in 1 .. n + 1, updates'[i].id = m
        PROVE  /\ Shows(updates'[i].seen, chat'[m])
               /\ updates'[i].kind = "delete" => chat'[m].state = "deleted"
    <3>1. CASE i = n + 1
      <4>1. updates'[i] = u /\ chat'[m].reactions \in Nat
        BY <1>0, <1>1, <3>1
      <4>2. Shows(u.seen, chat'[m])
        BY <1>0, <1>2, <4>1 DEF Shows
      <4>3. u.kind = "delete" => chat'[m].state = "deleted"
        BY <1>2
      <4> QED BY <4>1, <4>2, <4>3
    <3>2. CASE i \in 1 .. n
      <4>1. updates[i] \in Update /\ updates'[i] = updates[i]
        BY <1>0, <1>1, <3>2 DEF CaptureTypeOK
      <4>2. updates[i].seen \in Snapshot
        BY <4>1 DEF Update
      <4>3. Shows(updates[i].seen, chat[m]) /\ updates[i].kind # "delete"
        BY <1>0, <1>1, <2>1, <3>2, <4>1 DEF SeenShow
      <4> QED BY <1>3, <4>1, <4>2, <4>3
    <3>3. i = n + 1 \/ i \in 1 .. n
      OBVIOUS
    <3> QED BY <3>1, <3>2, <3>3
  <2>2. ASSUME pass # NoPass, NEW s \in pass.page, s.id = m PROVE Shows(s.seen, chat'[m])
    <3>1. pass.page \in SUBSET Snap
      BY <1>0, <2>2, Underway
    <3>2. s.seen \in Snapshot
      BY <2>2, <3>1 DEF Snap
    <3> QED BY <1>0, <1>3, <2>2, <3>2 DEF SeenShow
  <2> QED BY <1>1, <2>1, <2>2 DEF SeenShow, Shows
<1>6. /\ kind = "edit" => LastEdit(n + 1, m)'
      /\ kind = "delete" => Deletion(n + 1, m)'
      /\ kind = "react" => LastReact(n + 1, m)'
      /\ n + 1 \in DOMAIN updates'
  BY <1>1, <1>2 DEF LastEdit, Deletion, LastReact
<1>7. \A i \in DOMAIN updates : /\ i \in DOMAIN updates'
                                /\ kind # "edit" /\ LastEdit(i, m) => LastEdit(i, m)'
                                /\ kind # "react" /\ LastReact(i, m) => LastReact(i, m)'
  BY <1>0, <1>1 DEF LastEdit, LastReact
<1>8. Due(m)'
  <2>1. chat'[m].edited > 0 =>
          (\E i \in DOMAIN updates' : LastEdit(i, m)') \/ (rows[m] # NoRow /\ rows[m].edited = chat'[m].edited)
    BY <1>0, <1>6, <1>7 DEF Due
  <2>2. chat'[m].state = "deleted" => \E i \in DOMAIN updates' : Deletion(i, m)'
    BY <1>6
  <2>3. chat'[m].reactions > 0 =>
          (\E i \in DOMAIN updates' : LastReact(i, m)')
            \/ (rows[m] # NoRow /\ rows[m].reactions = chat'[m].reactions)
    BY <1>0, <1>6, <1>7 DEF Due
  <2> QED BY <2>1, <2>2, <2>3 DEF Due
<1>9. OldReactionsFirst(m)'
  <2> SUFFICES ASSUME NEW i \in DOMAIN updates', updates'[i].id = m,
                      updates'[i].seen.reactions # chat'[m].reactions
               PROVE  \E j \in DOMAIN updates' : i < j /\ LastReact(j, m)'
    BY DEF OldReactionsFirst
  <2>1. i \in 1 .. n /\ i < n + 1
    BY <1>1, <1>2
  <2>2. CASE kind = "react"
    BY <1>6, <2>1, <2>2
  <2>3. CASE kind # "react"
    <3>1. PICK j \in DOMAIN updates : i < j /\ LastReact(j, m)
      BY <1>0, <1>1, <2>1, <2>3 DEF OldReactionsFirst
    <3> QED BY <1>7, <2>3, <3>1
  <2> QED BY <2>2, <2>3
<1> QED BY <1>4, <1>5, <1>8, <1>9 DEF Settles

(* A message that appears: nothing has shown it before. *)
LEMMA PublishFresh ==
  ASSUME FInv, NEW m \in Id \ (lost \cup tied), chat[m].state = "none",
         chat'[m] = [chat[m] EXCEPT !.state = "posted", !.text = 1],
         \/ updates' = updates
         \/ updates' = Append(updates, [kind |-> "new", id |-> m, seen |-> Seen(m)']),
         UNCHANGED <<rows, pass>>
  PROVE  Settles(m)'
<1> DEFINE u == [kind |-> "new", id |-> m, seen |-> Seen(m)']
<1>0. /\ CaptureTypeOK /\ Due(m) /\ chat[m] \in Post
      /\ rows[m] = NoRow /\ \A i \in DOMAIN updates : updates[i].id # m
      /\ pass # NoPass => \A s \in pass.page : s.id # m
  BY DEF FInv, IInv, Settles, CaptureTypeOK, Unseen
<1>1. /\ chat'[m].edited = chat[m].edited /\ chat'[m].reactions = chat[m].reactions
      /\ chat'[m].state = "posted" /\ chat[m].edited \in Nat /\ chat[m].reactions \in Nat
  BY <1>0 DEF Post
<1>2. /\ u.id = m /\ u.kind = "new" /\ u.seen.text = chat'[m].text
      /\ u.seen.edited = chat'[m].edited /\ u.seen.reactions = chat'[m].reactions
  BY DEF Seen
<1> HIDE DEF u
<1>3. \A i \in DOMAIN updates' : updates'[i].id = m => updates'[i] = u
  <2>1. CASE updates' = updates
    BY <1>0, <2>1
  <2>2. CASE updates' = Append(updates, u)
    <3>1. PICK n \in Nat : /\ DOMAIN updates = 1 .. n /\ DOMAIN updates' = 1 .. n + 1
                           /\ updates'[n + 1] = u /\ \A i \in 1 .. n : updates'[i] = updates[i]
      BY <1>0, <2>2, AppendedUpdate
    <3> QED BY <1>0, <3>1
  <2> QED BY <2>1, <2>2 DEF u
<1>4. RowShows(m)' /\ SeenShow(m)'
  BY <1>0, <1>1, <1>2, <1>3 DEF RowShows, SeenShow, Shows
<1>5. Due(m)'
  <2>1. ~ (chat[m].edited > 0) /\ ~ (chat[m].reactions > 0)
    BY <1>0 DEF Due, LastEdit, LastReact
  <2> QED BY <1>1, <2>1 DEF Due
<1>6. OldReactionsFirst(m)'
  BY <1>1, <1>2, <1>3 DEF OldReactionsFirst
<1> QED BY <1>4, <1>5, <1>6 DEF Settles

LEMMA ChatFresh ==
  ASSUME FInv, CaptureTypeOK', Publish \/ Edit \/ React \/ Delete
  PROVE  (\A m \in Id : Unseen(m)') /\ \A m \in Id \ (lost' \cup tied') : Settles(m)'
<1>0. /\ CaptureTypeOK /\ chat \in [Id -> Post] /\ chat' \in [Id -> Post] /\ UNCHANGED <<rows, pass>>
  BY DEF FInv, IInv, CaptureTypeOK, Publish, Edit, React, Delete
<1>1. PICK m \in Id, kind \in {"new", "edit", "react", "delete"} :
        /\ Deliver(kind, m)
        /\ \A k \in Id : k # m => chat'[k] = chat[k]
        /\ chat'[m].state # "none" /\ tied \subseteq tied'
        /\ kind = "new" =>
             chat[m].state = "none" /\ chat'[m] = [chat[m] EXCEPT !.state = "posted", !.text = 1]
        /\ kind # "new" =>
             /\ chat[m].state = "posted" /\ chat'[m].state = (IF kind = "delete" THEN "deleted" ELSE "posted")
             /\ IF kind = "edit" THEN chat'[m].edited > chat[m].edited \/ m \in tied'
                ELSE chat'[m].edited = chat[m].edited /\ chat'[m].text = chat[m].text
             /\ chat'[m].reactions = chat[m].reactions + (IF kind = "react" THEN 1 ELSE 0)
  <2>0. \A k \in Id : /\ chat[k] \in Post /\ chat[k].edited \in Nat /\ chat[k].reactions \in Nat
                      /\ chat[k].text \in Nat
    BY <1>0 DEF Post
  <2>1. CASE Publish
    <3>1. PICK m \in Id :
            /\ chat[m].state = "none"
            /\ chat' = [chat EXCEPT ![m].state = "posted", ![m].text = 1]
            /\ Deliver("new", m)
      BY <2>1 DEF Publish
    <3>2. /\ chat'[m] = [chat[m] EXCEPT !.state = "posted", !.text = 1]
          /\ chat'[m].state # "none" /\ \A k \in Id : k # m => chat'[k] = chat[k]
      BY <1>0, <2>0, <3>1 DEF Post
    <3>3. tied' = tied
      BY <2>1 DEF Publish
    <3> QED BY <3>1, <3>2, <3>3
  <2>2. CASE Edit
    <3>1. PICK m \in Id :
            /\ chat[m].state = "posted"
            /\ \E date \in {Greater(chat[m].edited, 1), chat[m].edited + 1} :
                 /\ chat' = [chat EXCEPT ![m].text = @ + 1, ![m].edited = date]
                 /\ tied' = IF date = chat[m].edited THEN tied \cup {m} ELSE tied
            /\ Deliver("edit", m)
      BY <2>2 DEF Edit, Posted
    <3>2. PICK date \in {Greater(chat[m].edited, 1), chat[m].edited + 1} :
            /\ chat' = [chat EXCEPT ![m].text = @ + 1, ![m].edited = date]
            /\ tied' = IF date = chat[m].edited THEN tied \cup {m} ELSE tied
      BY <3>1
    <3>3. /\ chat'[m].edited = date /\ chat'[m].state = "posted" /\ chat'[m].reactions = chat[m].reactions
          /\ \A k \in Id : k # m => chat'[k] = chat[k]
      BY <1>0, <2>0, <3>1, <3>2 DEF Post
    <3>4. tied \subseteq tied' /\ (date > chat[m].edited \/ m \in tied')
      BY <2>0, <3>2 DEF Greater
    <3>5. chat'[m].reactions = chat[m].reactions + 0
      BY <2>0, <3>3
    <3> QED BY <3>1, <3>3, <3>4, <3>5
  <2>3. CASE React
    <3>1. PICK m \in Id :
            /\ chat[m].state = "posted"
            /\ chat' = [chat EXCEPT ![m].reactions = @ + 1]
            /\ Deliver("react", m)
      BY <2>3 DEF React, Posted
    <3>2. /\ chat'[m].edited = chat[m].edited /\ chat'[m].text = chat[m].text /\ chat'[m].state = "posted"
          /\ chat'[m].reactions = chat[m].reactions + 1
          /\ \A k \in Id : k # m => chat'[k] = chat[k]
      BY <1>0, <2>0, <3>1 DEF Post
    <3>3. tied' = tied
      BY <2>3 DEF React
    <3> QED BY <3>1, <3>2, <3>3
  <2>4. CASE Delete
    <3>1. PICK m \in Id :
            /\ chat[m].state = "posted"
            /\ chat' = [chat EXCEPT ![m].state = "deleted"]
            /\ Deliver("delete", m)
      BY <2>4 DEF Delete, Posted
    <3>2. /\ chat'[m].edited = chat[m].edited /\ chat'[m].text = chat[m].text /\ chat'[m].state = "deleted"
          /\ chat'[m].reactions = chat[m].reactions
          /\ \A k \in Id : k # m => chat'[k] = chat[k]
      BY <1>0, <2>0, <3>1 DEF Post
    <3>3. tied' = tied /\ chat'[m].reactions = chat[m].reactions + 0
      BY <2>0, <2>4, <3>2 DEF Delete
    <3> QED BY <3>1, <3>2, <3>3
  <2> QED BY <2>1, <2>2, <2>3, <2>4
<1> DEFINE u == [kind |-> kind, id |-> m, seen |-> Seen(m)']
<1>2. /\ lost \subseteq lost'
      /\ updates' = Append(updates, u) \/ (updates' = updates /\ (kind = "new" \/ m \in lost'))
  BY <1>1 DEF Deliver
<1>3. u.id = m
  OBVIOUS
<1>4. ASSUME NEW k \in Id PROVE Unseen(k)'
  <2> SUFFICES ASSUME chat'[k].state = "none"
               PROVE  /\ rows[k] = NoRow
                      /\ \A i \in DOMAIN updates' : updates'[i].id # k
                      /\ pass # NoPass => \A s \in pass.page : s.id # k
    BY <1>0 DEF Unseen
  <2>1. k # m /\ chat[k].state = "none"
    BY <1>1
  <2>2. /\ rows[k] = NoRow /\ \A i \in DOMAIN updates : updates[i].id # k
        /\ pass # NoPass => \A s \in pass.page : s.id # k
    BY <2>1 DEF FInv, Unseen
  <2>3. CASE updates' = updates
    BY <2>2, <2>3
  <2>4. CASE updates' = Append(updates, u)
    <3> HIDE DEF u
    <3>1. PICK n \in Nat : /\ DOMAIN updates = 1 .. n /\ DOMAIN updates' = 1 .. n + 1
                           /\ updates'[n + 1] = u /\ \A i \in 1 .. n : updates'[i] = updates[i]
      BY <1>0, <2>4, AppendedUpdate
    <3> QED BY <1>3, <2>1, <2>2, <3>1
  <2> QED BY <1>2, <2>2, <2>3, <2>4
<1>5. ASSUME NEW k \in Id \ (lost' \cup tied') PROVE Settles(k)'
  <2>1. k \in Id \ (lost \cup tied)
    BY <1>1, <1>2, <1>5
  <2>2. CASE k # m /\ updates' = Append(updates, u)
    <3>1. chat'[k] = chat[k] /\ u.id # k
      BY <1>1, <1>3, <1>5, <2>2
    <3> HIDE DEF u
    <3> QED BY <1>0, <2>1, <2>2, <3>1, AppendKeeps
  <2>3. CASE k # m /\ updates' = updates
    <3>1. chat'[k] = chat[k]
      BY <1>1, <1>5, <2>3
    <3> QED BY <1>0, <2>1, <2>3, <3>1
        DEF FInv, Settles, RowShows, SeenShow, Shows, Due, OldReactionsFirst, LastEdit, Deletion, LastReact
  <2>4. CASE k = m /\ kind = "new"
    BY <1>0, <1>1, <1>2, <2>1, <2>4, PublishFresh
  <2>5. CASE k = m /\ kind # "new"
    <3>1. m \in Id \ (lost \cup tied) /\ kind \in {"edit", "react", "delete"}
      BY <1>1, <2>1, <2>5
    <3>2. updates' = Append(updates, [kind |-> kind, id |-> m, seen |-> Seen(m)'])
      BY <1>2, <1>5, <2>5
    <3>3. /\ chat[m].state = "posted" /\ chat'[m] \in Post
          /\ chat'[m].state = (IF kind = "delete" THEN "deleted" ELSE "posted")
          /\ IF kind = "edit" THEN chat'[m].edited > chat[m].edited
             ELSE chat'[m].edited = chat[m].edited /\ chat'[m].text = chat[m].text
          /\ chat'[m].reactions = chat[m].reactions + (IF kind = "react" THEN 1 ELSE 0)
      BY <1>0, <1>1, <1>5, <2>5
    <3> HIDE DEF u
    <3>4. Settles(m)'
      BY <1>0, <3>1, <3>2, <3>3, ChangeFresh
    <3> QED BY <2>5, <3>4
  <2> QED BY <1>2, <2>2, <2>3, <2>4, <2>5
<1> QED BY <1>4, <1>5

-----------------------------------------------------------------------------
(* A message of the page is stored, or skipped. *)
LEMMA StoreFresh ==
  ASSUME FInv, StoreNext
  PROVE  (\A m \in Id : Unseen(m)') /\ \A m \in Id \ (lost' \cup tied') : Settles(m)'
<1>0. CaptureTypeOK /\ pass # NoPass /\ pass \in PassRecord /\ pass.page \in SUBSET Snap
  BY AtIsUnderway, Underway DEF FInv, IInv, StoreNext
<1>1. PICK s \in pass.page :
        /\ \/ rows' = [rows EXCEPT ![s.id] = Upserted(@, s.seen, "backfill")]
           \/ rows' = rows
        /\ pass' = [pass EXCEPT !.page = @ \ {s}]
  BY DEF StoreNext
<1>2. UNCHANGED <<chat, updates, lost, tied>>
  BY DEF StoreNext, telegram
<1>3. pass' # NoPass /\ pass'.page = pass.page \ {s}
  BY <1>0, <1>1 DEF PassRecord, NoPass
<1>4. CASE rows' = rows
  BY <1>0, <1>2, <1>3, <1>4, PageFresh
<1>5. CASE rows' = [rows EXCEPT ![s.id] = Upserted(@, s.seen, "backfill")]
  <2>0. s.id \in Id /\ s.seen \in Snapshot /\ rows \in [Id -> {NoRow} \cup MessageRow]
    BY <1>0, <1>1 DEF Snap, CaptureTypeOK
  <2>1. rows'[s.id] = Upserted(rows[s.id], s.seen, "backfill")
    BY <1>5, <2>0
  <2>2. \A m \in Id : m # s.id => rows'[m] = rows[m]
    BY <1>5, <2>0
  <2>3. ASSUME NEW m \in Id PROVE Unseen(m)'
    <3>1. Unseen(m)
      BY DEF FInv
    <3>2. chat[m].state = "none" => m # s.id
      BY <1>0, <1>1, <3>1 DEF Unseen
    <3> QED BY <1>0, <1>2, <1>3, <2>2, <3>1, <3>2 DEF Unseen
  <2>4. ASSUME NEW m \in Id \ (lost' \cup tied') PROVE Settles(m)'
    <3>1. /\ RowShows(m) /\ SeenShow(m) /\ Due(m) /\ OldReactionsFirst(m)
          /\ chat[m] \in Post /\ rows[m] \in {NoRow} \cup MessageRow
      BY <1>0, <1>2, <2>4 DEF FInv, Settles, CaptureTypeOK
    <3>2. SeenShow(m)' /\ OldReactionsFirst(m)'
      BY <1>0, <1>2, <1>3, <3>1 DEF SeenShow, OldReactionsFirst, LastReact
    <3>3. CASE m # s.id
      <4>1. rows'[m] = rows[m]
        BY <2>2, <3>3
      <4>2. RowShows(m)' /\ Due(m)'
        BY <1>2, <3>1, <4>1 DEF RowShows, Due, LastEdit, Deletion, LastReact
      <4> QED BY <3>2, <4>2 DEF Settles
    <3>4. CASE m = s.id
      <4>1. Shows(s.seen, chat[m])
        BY <1>0, <1>1, <3>1, <3>4 DEF SeenShow
      <4>2. /\ RowShows(m)' /\ rows'[m] # NoRow
            /\ rows[m] # NoRow => rows'[m].edited >= rows[m].edited /\ rows'[m].deleted = rows[m].deleted
            /\ rows[m] # NoRow /\ rows[m].reactions > 0 => rows'[m].reactions = rows[m].reactions
        BY <1>0, <1>2, <2>0, <2>1, <3>1, <3>4, <4>1, UpsertedShows
      <4>3. rows'[m].edited \in Nat /\ chat[m].edited \in Nat /\ rows'[m].edited <= chat[m].edited
        <5>1. rows'[m] \in MessageRow
          BY <2>0, <2>1, <3>1, <3>4, UpsertedType
        <5> QED BY <1>2, <3>1, <4>2, <5>1 DEF RowShows, MessageRow, Post
      <4>4. Due(m)'
        <5>1. chat[m].edited > 0 =>
                (\E i \in DOMAIN updates : LastEdit(i, m)) \/ rows'[m].edited = chat[m].edited
          BY <3>1, <4>2, <4>3 DEF Due
        <5>2. chat[m].state = "deleted" =>
                (\E i \in DOMAIN updates : Deletion(i, m)) \/ rows'[m].deleted
          BY <3>1, <4>2 DEF Due
        <5>3. chat[m].reactions > 0 =>
                (\E i \in DOMAIN updates : LastReact(i, m)) \/ rows'[m].reactions = chat[m].reactions
          BY <3>1, <4>2 DEF Due
        <5> QED BY <1>2, <4>2, <5>1, <5>2, <5>3 DEF Due, LastEdit, Deletion, LastReact
      <4> QED BY <3>2, <4>2, <4>4 DEF Settles
    <3> QED BY <3>3, <3>4
  <2> QED BY <2>3, <2>4
<1> QED BY <1>1, <1>4, <1>5

(* With the connection go the updates that are lost. *)
LEMMA DownFresh ==
  ASSUME FInv, Disconnect
  PROVE  (\A m \in Id : Unseen(m)') /\ \A m \in Id \ (lost' \cup tied') : Settles(m)'
<1>1. UNCHANGED <<chat, rows, tied>> /\ pass' = NoPass
  BY DEF Disconnect
<1>2. CASE UNCHANGED <<updates, lost>>
  BY <1>1, <1>2, PageFresh
<1>3. CASE updates' = <<>> /\ lost' = lost \cup {u.id : u \in {updates[i] : i \in DOMAIN updates}}
  <2>0. DOMAIN updates' = {}
    BY <1>3
  <2>1. ASSUME NEW m \in Id PROVE Unseen(m)'
    <3>1. Unseen(m)
      BY DEF FInv
    <3> QED BY <1>1, <2>0, <3>1 DEF Unseen
  <2>2. ASSUME NEW m \in Id \ (lost' \cup tied') PROVE Settles(m)'
    <3>1. RowShows(m) /\ Due(m)
      BY <1>1, <1>3, <2>2 DEF FInv, Settles
    <3>2. \A i \in DOMAIN updates : updates[i].id # m
      BY <1>3, <2>2
    <3>3. RowShows(m)' /\ SeenShow(m)' /\ OldReactionsFirst(m)'
      BY <1>1, <2>0, <3>1 DEF RowShows, SeenShow, OldReactionsFirst
    <3>4. Due(m)'
      BY <1>1, <3>1, <3>2 DEF Due, LastEdit, Deletion, LastReact
    <3> QED BY <3>3, <3>4 DEF Settles
  <2> QED BY <2>1, <2>2
<1> QED BY <1>2, <1>3 DEF Disconnect

(* The steps that store nothing and change no update. *)
LEMMA ReadFresh ==
  ASSUME FInv, \/ ReadHead \/ FetchInitial \/ FetchPage \/ EndWindow \/ SavePage \/ Complete
               \/ FailPass \/ BreakPass
  PROVE  (\A m \in Id : Unseen(m)') /\ \A m \in Id \ (lost' \cup tied') : Settles(m)'
<1>0. /\ UNCHANGED <<chat, updates, rows, lost, tied>> /\ pass # NoPass /\ CaptureTypeOK
      /\ pass \in PassRecord
  <2>1. UNCHANGED <<chat, updates, rows, lost, tied>>
    BY DEF ReadHead, FetchInitial, FetchPage, EndWindow, SavePage, Complete, FailPass, BreakPass,
       telegram, history
  <2>2. pass # NoPass
    BY AtIsUnderway DEF ReadHead, FetchInitial, FetchPage, EndWindow, SavePage, PageStored,
       Complete, FailPass, BreakPass
  <2> QED BY <2>1, <2>2, Underway DEF FInv, IInv
<1>1. \A S \in SUBSET Posted : \A s \in PageOf(S) : s.id \in Posted /\ s.seen = Seen(s.id)
  BY DEF PageOf
<1>2. CASE ReadHead \/ EndWindow
  <2>1. pass'.page = pass.page
    BY <1>0, <1>2 DEF ReadHead, EndWindow, PassRecord
  <2> QED BY <1>0, <2>1, PageFresh
<1>3. CASE FetchInitial
  <2> DEFINE window == Newest({m \in Posted : m <= pass.head}, InitialLimit)
  <2>1. pass'.page = PageOf(window)
    BY <1>0, <1>3 DEF FetchInitial, PassRecord
  <2>2. window \in SUBSET Posted
    BY DEF Newest
  <2> HIDE DEF window
  <2> QED BY <1>0, <1>1, <2>1, <2>2, PageFresh
<1>4. CASE FetchPage
  <2> DEFINE page == Oldest({m \in Posted : pass.scanned < m /\ m <= pass.head}, PageSize)
  <2>1. pass'.page \in {pass.page, PageOf(page)}
    BY <1>0, <1>4 DEF FetchPage, PassRecord
  <2>2. page \in SUBSET Posted
    BY DEF Oldest
  <2> HIDE DEF page
  <2> QED BY <1>0, <1>1, <2>1, <2>2, PageFresh
<1>5. CASE SavePage
  <2>1. pass'.page \in {{}, pass.page}
    BY <1>0, <1>5 DEF SavePage, PassRecord
  <2> QED BY <1>0, <2>1, PageFresh
<1>6. CASE Complete \/ FailPass \/ BreakPass
  <2>1. pass' = NoPass
    BY <1>6 DEF Complete, FailPass, BreakPass
  <2> QED BY <1>0, <2>1, PageFresh
<1> QED BY <1>2, <1>3, <1>4, <1>5, <1>6

(* The steps around the passes. *)
LEMMA AroundFresh ==
  ASSUME FInv, \/ Connect \/ Activated \/ SetPolicy \/ DeleteOrigin \/ UNCHANGED vars
               \/ (\E by \in Askers : Begin(by) \/ BeginBlind(by))
  PROVE  (\A m \in Id : Unseen(m)') /\ \A m \in Id \ (lost' \cup tied') : Settles(m)'
<1>1. CASE UNCHANGED <<chat, updates, rows, lost, tied, pass>>
  BY <1>1, PageFresh
<1>2. CASE Connect \/ Activated \/ SetPolicy \/ DeleteOrigin \/ UNCHANGED vars
  <2>1. UNCHANGED <<chat, updates, rows, lost, tied, pass>>
    BY <1>2 DEF Connect, Activated, SetPolicy, DeleteOrigin, vars, telegram, history
  <2> QED BY <1>1, <2>1
<1>3. CASE \E by \in Askers : Begin(by) \/ BeginBlind(by)
  <2>1. PICK by \in Askers : Begin(by) \/ BeginBlind(by)
    BY <1>3
  <2>2. CASE BeginBlind(by)
    <3>1. UNCHANGED <<chat, updates, rows, lost, tied, pass>>
      BY <2>2 DEF BeginBlind, telegram
    <3> QED BY <1>1, <3>1
  <2>3. CASE Begin(by)
    <3>1. UNCHANGED <<chat, updates, rows, lost, tied>>
      BY <2>3 DEF Begin, telegram, history
    <3>2. pass' # NoPass => pass'.page = {}
      BY <2>3 DEF Begin
    <3> QED BY <3>1, <3>2, PageFresh
  <2> QED BY <2>1, <2>2, <2>3
<1> QED BY <1>2, <1>3

-----------------------------------------------------------------------------
LEMMA FreshInit == Init => FInv
<1> SUFFICES ASSUME Init PROVE FInv
  OBVIOUS
<1>0. IInv
  BY SoundInit
<1>1. /\ updates = <<>> /\ DOMAIN updates = {} /\ pass = NoPass
      /\ \A m \in Id : rows[m] # NoRow => m \in Posted
      /\ rows \in [Id -> {NoRow, [text |-> 1, edited |-> 0, reactions |-> 0, deleted |-> FALSE]}]
  BY DEF Init
<1>2. PICK n \in 0 .. MaxId :
        chat = [m \in Id |-> [state |-> IF m <= n THEN "posted" ELSE "none",
                              text |-> IF m <= n THEN 1 ELSE 0, edited |-> 0, reactions |-> 0]]
  BY DEF Init
<1>3. ASSUME NEW m \in Id
      PROVE  /\ chat[m].edited = 0 /\ chat[m].reactions = 0 /\ chat[m].state # "deleted"
             /\ chat[m].state = "posted" => chat[m].text = 1
             /\ rows[m] # NoRow =>
                  /\ chat[m].state = "posted"
                  /\ rows[m] = [text |-> 1, edited |-> 0, reactions |-> 0, deleted |-> FALSE]
  BY <1>1, <1>2, <1>3 DEF Posted
<1>4. ASSUME NEW m \in Id PROVE Unseen(m)
  BY <1>1, <1>3 DEF Unseen
<1>5. ASSUME NEW m \in Id PROVE Settles(m)
  <2>1. RowShows(m)
    BY <1>3 DEF RowShows
  <2>2. SeenShow(m) /\ Due(m) /\ OldReactionsFirst(m)
    BY <1>1, <1>3 DEF SeenShow, Due, OldReactionsFirst
  <2> QED BY <2>1, <2>2 DEF Settles
<1> QED BY <1>0, <1>4, <1>5 DEF FInv

LEMMA FreshStep ==
  ASSUME FInv, [Next]_vars
  PROVE  FInv'
<1>1. IInv'
  BY SoundStep DEF FInv
<1>2. CaptureTypeOK'
  BY <1>1 DEF IInv
<1>3. (\A m \in Id : Unseen(m)') /\ \A m \in Id \ (lost' \cup tied') : Settles(m)'
  <2>1. CASE Publish \/ Edit \/ React \/ Delete
    BY <1>2, <2>1, ChatFresh
  <2>2. CASE Handle \/ HandlerFails
    BY <2>2, HandleFresh
  <2>3. CASE Disconnect
    BY <2>3, DownFresh
  <2>4. CASE StoreNext
    BY <2>4, StoreFresh
  <2>5. CASE \/ ReadHead \/ FetchInitial \/ FetchPage \/ EndWindow \/ SavePage \/ Complete
             \/ FailPass \/ BreakPass
    BY <2>5, ReadFresh
  <2>6. CASE \/ Connect \/ Activated \/ SetPolicy \/ DeleteOrigin \/ UNCHANGED vars
             \/ (\E by \in Askers : Begin(by) \/ BeginBlind(by))
    BY <2>6, AroundFresh
  <2> QED BY <2>1, <2>2, <2>3, <2>4, <2>5, <2>6 DEF Next, PassStep
<1> QED BY <1>1, <1>3 DEF FInv, Id

(* Once the updates about a message are handled its row shows what the     *)
(* chat shows, in whatever order pages are stored and updates handled,     *)
(* except for messages of which an update was lost and for edits of one    *)
(* second.                                                                 *)
THEOREM RowsAreFresh == Spec => []Fresh
<1>1. FInv => Fresh
  <2> SUFFICES ASSUME FInv, NEW m \in Id \ (lost \cup tied), rows[m] # NoRow,
                      \A i \in DOMAIN updates : updates[i].id # m
               PROVE  /\ rows[m].text \in {0, chat[m].text}
                      /\ rows[m].deleted = (chat[m].state = "deleted")
                      /\ rows[m].reactions = chat[m].reactions
    BY DEF Fresh
  <2>1. /\ RowShows(m) /\ Due(m) /\ chat[m].edited \in Nat /\ chat[m].reactions \in Nat
        /\ rows[m] \in MessageRow
    BY DEF FInv, IInv, Settles, CaptureTypeOK, Post
  <2>2. rows[m].edited \in Nat /\ rows[m].reactions \in Nat /\ rows[m].deleted \in BOOLEAN
    BY <2>1 DEF MessageRow
  <2>3. /\ chat[m].edited > 0 => rows[m].edited = chat[m].edited
        /\ chat[m].state = "deleted" => rows[m].deleted
        /\ chat[m].reactions > 0 => rows[m].reactions = chat[m].reactions
    BY <2>1 DEF Due, LastEdit, Deletion, LastReact
  <2>4. rows[m].text \in {0, chat[m].text} /\ rows[m].reactions = chat[m].reactions
    BY <2>1, <2>2, <2>3 DEF RowShows
  <2>5. rows[m].deleted = (chat[m].state = "deleted")
    BY <2>1, <2>2, <2>3 DEF RowShows
  <2> QED BY <2>4, <2>5
<1> QED BY <1>1, FreshInit, FreshStep, PTL DEF Spec

=============================================================================
