--------------------------- MODULE HistoryCapture ---------------------------
(***************************************************************************)
(* How the messages of one chat get into the archive: a Telegram chat, the *)
(* updates Telethon delivers about it, and TelegramArchiveService, which   *)
(* stores these updates and reconciles the history behind them, page by    *)
(* page, up to a head that is fixed when a pass begins.  Both write the    *)
(* same rows; only the pass moves history_scanned_through_id.              *)
(*                                                                         *)
(* The chat is one capture target of its account.  Passes of an account    *)
(* are serialised by _backfill_lock, and updates by sequential_updates.    *)
(***************************************************************************)
EXTENDS MessageRows, Sequences, FiniteSets, FiniteSetsExt

CONSTANTS
  MaxId,         \* bound: messages ever posted
  Restless,      \* bound: messages that are edited, deleted or reacted to
  MaxChanges,    \* bound: edits of one message and changes of its reactions
  MaxUpdates,    \* bound: updates on their way
  MaxFaults,     \* bound: disconnects, errors and changes of the policy
  PageSize,      \* telegram.backfill.catch_up_limit
  InitialLimit   \* telegram.backfill.initial_limit; 0 stands for unlimited

ASSUME CaptureAssumption ==
  /\ MaxId \in Nat /\ MaxChanges \in Nat
  /\ MaxUpdates \in Nat /\ MaxFaults \in Nat
  /\ Restless \subseteq Nat
  /\ PageSize \in Nat \ {0}
  /\ InitialLimit \in Nat

VARIABLES
  chat,     \* the messages as Telegram has them
  updates,  \* updates on their way to the handlers
  rows,     \* the table messages
  cursor,   \* the chat's row in capture_cursors
  enabled,  \* backup_policies.enabled
  link,     \* down, activating (until the first pass is over) or active
  asked,    \* is a pass over the chat wanted, and by whom
  pass,     \* the pass over the chat, if one runs
  legacy,   \* does the cursor go back to a schema before version 18?  A pass
            \* that cannot read it forgets that it does
  floor,    \* the initial pass left out the messages up to this one
  skipped,  \* messages scanned while capture was disabled
  lost,     \* messages an update about which was lost
  tied,     \* messages edited twice within a second
  given,    \* why nobody tries a failed pass again: access is refused, or the
            \* retry was dropped
  faults    \* faults so far

telegram == <<chat, updates>>
history  == <<legacy, floor, skipped, lost, tied>>
vars == <<telegram, rows, cursor, enabled, link, asked, pass, history, given, faults>>

-----------------------------------------------------------------------------
Id == 1 .. MaxId

Post == [state : {"none", "posted", "deleted"}, text : Nat, edited : Nat, reactions : Nat]

Update == [kind : {"new", "edit", "delete", "react"}, id : Id, seen : Snapshot]

Cursor == [scanned : Nat, done : BOOLEAN,
           status : {"none", "running", "failed", "completed",
                     "rescan", "rescan_running", "rescan_failed"}]

NoCursor == [scanned |-> 0, done |-> FALSE, status |-> "none"]

Askers == {"activation", "refresh", "retry"}

NoPass == [at |-> "off"]

Snap == [id : Id, seen : Snapshot]

(* upto is how far the pass has scanned when its page is stored, below the *)
(* last message an initial pass leaves out, last whether a page is short.  *)
PassRecord ==
  [at : {"head", "fetch", "store", "done"}, by : Askers,
   mode : {"initial", "catch_up", "rescan"}, scanned : Nat, head : Nat,
   page : SUBSET Snap, upto : Nat, below : Nat, last : BOOLEAN]

Pass == {NoPass} \cup PassRecord

Seen(m) == [text |-> chat[m].text, edited |-> chat[m].edited, reactions |-> chat[m].reactions]

Posted == {m \in Id : chat[m].state = "posted"}

Rescanning == cursor.status \in {"rescan", "rescan_running", "rescan_failed"}

Fault == faults < MaxFaults /\ faults' = faults + 1

(* The first or the last n messages of a set, in the order of their ids.   *)
Oldest(S, n) == {m \in S : Cardinality({k \in S : k < m}) < n}
Newest(S, n) == {m \in S : Cardinality({k \in S : k > m}) < n}

PageOf(S) == {[id |-> m, seen |-> Seen(m)] : m \in S}

-----------------------------------------------------------------------------
Init ==
  /\ updates = <<>>
  /\ \E n \in 0 .. MaxId :
       chat = [m \in Id |-> [state |-> IF m <= n THEN "posted" ELSE "none",
                             text |-> IF m <= n THEN 1 ELSE 0, edited |-> 0, reactions |-> 0]]
  /\ legacy \in {"never", "pending"}
  /\ rows \in [Id -> {NoRow, [text |-> 1, edited |-> 0, reactions |-> 0, deleted |-> FALSE]}]
  /\ \A m \in Id : rows[m] # NoRow => legacy = "pending" /\ m \in Posted
  /\ \E d \in BOOLEAN :
       cursor = IF legacy = "pending" THEN [scanned |-> 0, done |-> d, status |-> "rescan"] ELSE NoCursor
  /\ enabled \in BOOLEAN
  /\ link = "down"
  /\ asked = {}
  /\ pass = NoPass
  /\ floor = 0 /\ skipped = {} /\ lost = {} /\ tied = {}
  /\ given = "no"
  /\ faults = 0

-----------------------------------------------------------------------------
(* Telegram.  While the account is connected every change is delivered;    *)
(* of what happened while it was not, catch_up recovers some.              *)
Deliver(kind, m) ==
  \/ /\ Len(updates) < MaxUpdates
     /\ updates' = Append(updates, [kind |-> kind, id |-> m, seen |-> Seen(m)'])
     /\ UNCHANGED lost
  \/ /\ link = "down"
     /\ lost' = IF kind = "new" THEN lost ELSE lost \cup {m}
     /\ UNCHANGED updates

Publish ==
  /\ \E m \in Id :
       /\ chat[m].state = "none" /\ \A k \in Id : k < m => chat[k].state # "none"
       /\ chat' = [chat EXCEPT ![m].state = "posted", ![m].text = 1]
       /\ Deliver("new", m)
  /\ UNCHANGED <<rows, cursor, enabled, link, asked, pass, legacy, floor, skipped, tied, given, faults>>

Edit ==
  /\ \E m \in Posted \cap Restless :
       /\ chat[m].text + chat[m].reactions <= MaxChanges
       /\ \E date \in {Greater(chat[m].edited, 1), chat[m].edited + 1} :
            /\ chat' = [chat EXCEPT ![m].text = @ + 1, ![m].edited = date]
            /\ tied' = IF date = chat[m].edited THEN tied \cup {m} ELSE tied
       /\ Deliver("edit", m)
  /\ UNCHANGED <<rows, cursor, enabled, link, asked, pass, legacy, floor, skipped, given, faults>>

React ==
  /\ \E m \in Posted \cap Restless :
       /\ chat[m].text + chat[m].reactions <= MaxChanges
       /\ chat' = [chat EXCEPT ![m].reactions = @ + 1]
       /\ Deliver("react", m)
  /\ UNCHANGED <<rows, cursor, enabled, link, asked, pass, legacy, floor, skipped, tied, given, faults>>

Delete ==
  /\ \E m \in Posted \cap Restless :
       /\ chat' = [chat EXCEPT ![m].state = "deleted"]
       /\ Deliver("delete", m)
  /\ UNCHANGED <<rows, cursor, enabled, link, asked, pass, legacy, floor, skipped, tied, given, faults>>

-----------------------------------------------------------------------------
(* The handlers of register_handlers. *)
Handled(u) ==
  [rows EXCEPT ![u.id] =
     CASE u.kind \in {"new", "edit"} -> Upserted(@, u.seen, u.kind)
       [] u.kind = "delete" -> MarkedDeleted(@)
       [] u.kind = "react" -> Reacted(@, u.seen.reactions)]

(* An update that comes while capture is disabled is ignored. *)
Handle ==
  /\ link # "down" /\ updates # <<>>
  /\ updates' = Tail(updates)
  /\ rows' = IF enabled THEN Handled(Head(updates)) ELSE rows
  /\ lost' = IF enabled THEN lost ELSE lost \cup {Head(updates).id}
  /\ UNCHANGED <<chat, cursor, enabled, link, asked, pass, legacy, floor, skipped, tied, given, faults>>

(* A handler that raises loses its update: Telethon logs and goes on. *)
HandlerFails ==
  /\ link # "down" /\ updates # <<>>
  /\ Fault
  /\ updates' = Tail(updates)
  /\ lost' = lost \cup {Head(updates).id}
  /\ UNCHANGED <<chat, rows, cursor, enabled, link, asked, pass, legacy, floor, skipped, tied, given>>

-----------------------------------------------------------------------------
(* The connection.  A new service is activated at every reconnect; it      *)
(* reads the targets once and reconciles them.  What happens before it     *)
(* reads them, catch_up included, counts as down.                          *)
Connect ==
  /\ link = "down"
  /\ link' = "activating"
  /\ asked' = IF enabled THEN {"activation"} ELSE {}
  /\ given' = "no"
  /\ UNCHANGED <<telegram, rows, cursor, enabled, pass, history, faults>>

(* The pass over all targets of the account is over. *)
Activated ==
  /\ link = "activating" /\ asked \cap {"activation"} = {} /\ pass = NoPass
  /\ link' = "active"
  /\ UNCHANGED <<telegram, rows, cursor, enabled, asked, pass, history, given, faults>>

(* A lost connection cancels the tasks of the service, a crash of the      *)
(* process all of it.  Updates not yet handled may be lost.                *)
Disconnect ==
  /\ link # "down" /\ Fault
  /\ link' = "down"
  /\ asked' = {}
  /\ pass' = NoPass
  /\ \/ UNCHANGED <<updates, lost>>
     \/ updates' = <<>> /\ lost' = lost \cup {u.id : u \in {updates[i] : i \in DOMAIN updates}}
  /\ UNCHANGED <<chat, rows, cursor, enabled, legacy, floor, skipped, tied, given>>

(* set_backup_policy, then refresh_capture, which passes over the targets  *)
(* again only when the account was active.                                 *)
SetPolicy ==
  /\ Fault
  /\ enabled' = ~enabled
  /\ asked' = IF link = "active" /\ enabled' THEN asked \cup {"refresh"} ELSE asked
  /\ UNCHANGED <<telegram, rows, cursor, link, pass, history, given>>

(* delete_origin, possibly under a running pass. *)
DeleteOrigin ==
  /\ Fault
  /\ enabled' = FALSE
  /\ cursor' = NoCursor
  /\ legacy' = "never"
  /\ UNCHANGED <<telegram, rows, link, asked, pass, floor, skipped, lost, tied, given>>

-----------------------------------------------------------------------------
(* _backfill_capture_targets_locked.  A pass over a disabled chat is over  *)
(* at once; otherwise it reads the cursor and decides its mode.  Retries   *)
(* start when an activation has returned.                                  *)
Mode ==
  CASE Rescanning -> "rescan"
    [] ~Rescanning /\ cursor.scanned = 0 /\ ~cursor.done -> "initial"
    [] OTHER -> "catch_up"

MayBegin(by) == pass = NoPass /\ by \in asked /\ (by = "activation" \/ link = "active")

Begin(by) ==
  /\ MayBegin(by)
  /\ asked' = asked \ {by}
  /\ given' = "no"
  /\ pass' = IF enabled
             THEN [at |-> "head", by |-> by, mode |-> Mode, scanned |-> cursor.scanned,
                   head |-> 0, page |-> {}, upto |-> 0, below |-> 0, last |-> FALSE]
             ELSE NoPass
  /\ UNCHANGED <<telegram, rows, cursor, enabled, link, history, faults>>

(* Mutation: one high-water mark for history and updates, as before schema 18. *)
SaveCursorObserved(n, status, done) ==
  cursor' = [scanned |-> Max({cursor.scanned, n} \cup {m \in Id : rows[m] # NoRow}),
             status |-> status, done |-> cursor.done \/ done]

(* upsert_capture_cursor: nothing it counts goes back. *)
SaveCursor(n, status, done) ==
  cursor' = [scanned |-> Greater(cursor.scanned, n), status |-> status, done |-> cursor.done \/ done]

(* The cursor cannot be read: the pass fails before it knows of a rescan.  *)
BeginBlind(by) ==
  /\ MayBegin(by) /\ enabled /\ Fault
  /\ asked' = (asked \ {by}) \cup {"retry"}
  /\ given' = "no"
  /\ SaveCursor(0, "failed", FALSE)
  /\ legacy' = IF Rescanning THEN "forgotten" ELSE legacy
  /\ UNCHANGED <<telegram, rows, enabled, link, pass, floor, skipped, lost, tied>>

Running == IF pass.mode = "rescan" THEN "rescan_running" ELSE "running"
Failed  == IF pass.mode = "rescan" THEN "rescan_failed" ELSE "failed"

Windowed == pass.mode = "initial" /\ InitialLimit > 0

(* The remote head is read and fixed for the rest of the pass. *)
ReadHead ==
  /\ pass.at = "head"
  /\ LET head == Max(Posted \cup {0})
     IN  pass' = [pass EXCEPT !.head = head,
                              !.at = IF Windowed \/ pass.scanned < head THEN "fetch" ELSE "done"]
  /\ SaveCursor(pass.scanned, Running, FALSE)
  /\ UNCHANGED <<telegram, rows, enabled, link, asked, history, given, faults>>

(* An initial pass takes the newest messages up to the head. *)
FetchInitial ==
  /\ pass.at = "fetch" /\ Windowed
  /\ LET S == {m \in Posted : m <= pass.head}
         window == Newest(S, InitialLimit)
     IN  pass' = [pass EXCEPT !.at = "store", !.page = PageOf(window),
                              !.below = Max((S \ window) \cup {0})]
  /\ UNCHANGED <<telegram, rows, cursor, enabled, link, asked, history, given, faults>>

(* Every other pass takes page after page, oldest first.  A short page is  *)
(* the last one.                                                           *)
FetchPage ==
  /\ pass.at = "fetch" /\ ~Windowed
  /\ LET page == Oldest({m \in Posted : pass.scanned < m /\ m <= pass.head}, PageSize)
     IN  pass' = IF page = {}
                 THEN [pass EXCEPT !.at = "done", !.scanned = pass.head]
                 ELSE [pass EXCEPT !.at = "store", !.page = PageOf(page), !.upto = Max(page),
                                   !.last = Cardinality(page) < PageSize]
  /\ UNCHANGED <<telegram, rows, cursor, enabled, link, asked, history, given, faults>>

(* The messages of a page are stored oldest first.  _store_message asks    *)
(* the policy again, for every message.                                    *)
StoreNext ==
  /\ pass.at = "store"
  /\ \E s \in pass.page :
       /\ \A t \in pass.page : s.id <= t.id
       /\ IF enabled
          THEN /\ rows' = [rows EXCEPT ![s.id] = Upserted(@, s.seen, "backfill")]
               /\ UNCHANGED skipped
          ELSE /\ skipped' = skipped \cup {s.id}
               /\ UNCHANGED rows
       /\ pass' = [pass EXCEPT !.page = @ \ {s}]
  /\ UNCHANGED <<telegram, cursor, enabled, link, asked, legacy, floor, lost, tied, given, faults>>

PageStored == pass.at = "store" /\ pass.page = {}

(* What an initial pass leaves out stays out. *)
EndWindow ==
  /\ PageStored /\ Windowed
  /\ pass' = [pass EXCEPT !.at = "done", !.scanned = pass.head]
  /\ floor' = pass.below
  /\ UNCHANGED <<telegram, rows, cursor, enabled, link, asked, legacy, skipped, lost, tied, given, faults>>

(* The history cursor follows the pages that are stored. *)
SavePage ==
  /\ PageStored /\ ~Windowed
  /\ SaveCursor(pass.upto, Running, FALSE)
  /\ pass' = IF pass.last \/ pass.upto >= pass.head
             THEN [pass EXCEPT !.at = "done", !.scanned = pass.head]
             ELSE [pass EXCEPT !.at = "fetch", !.scanned = pass.upto]
  /\ UNCHANGED <<telegram, rows, enabled, link, asked, history, given, faults>>

Complete ==
  /\ pass.at = "done"
  /\ pass' = NoPass
  /\ SaveCursor(pass.scanned, "completed", TRUE)
  /\ UNCHANGED <<telegram, rows, enabled, link, asked, history, given, faults>>

(* Mutation: a failed pass is not scheduled again. *)
FailPassForGood ==
  /\ pass # NoPass /\ Fault
  /\ pass' = NoPass
  /\ SaveCursor(pass.scanned, Failed, FALSE)
  /\ UNCHANGED <<telegram, rows, enabled, link, asked, history, given>>

(* An error inside the pass: the cursor keeps what was scanned, and the    *)
(* chat is tried again unless access to it was refused.                    *)
FailPass ==
  /\ pass # NoPass /\ Fault
  /\ pass' = NoPass
  /\ SaveCursor(IF PageStored /\ ~Windowed THEN pass.upto ELSE pass.scanned, Failed, FALSE)
  /\ \/ given' = "refused" /\ UNCHANGED asked
     \/ asked' = asked \cup {"retry"} /\ UNCHANGED given
  /\ UNCHANGED <<telegram, rows, enabled, link, history>>

(* An error the pass does not handle: reading the policy, or saving the    *)
(* failure itself.  An activation is repeated; the retry task has already  *)
(* taken the chat off its set, and refresh_capture only logs.              *)
BreakPass ==
  /\ pass # NoPass /\ Fault
  /\ pass' = NoPass
  /\ \/ pass.by = "activation" /\ asked' = asked \cup {"activation"} /\ UNCHANGED given
     \/ pass.by # "activation" /\ given' = "dropped" /\ UNCHANGED asked
  /\ UNCHANGED <<telegram, rows, cursor, enabled, link, history>>

-----------------------------------------------------------------------------
PassStep ==
  ReadHead \/ FetchInitial \/ FetchPage \/ StoreNext \/ EndWindow \/ SavePage \/ Complete

Next ==
  \/ Publish \/ Edit \/ React \/ Delete
  \/ Handle \/ HandlerFails
  \/ Connect \/ Activated \/ Disconnect
  \/ SetPolicy \/ DeleteOrigin
  \/ \E by \in Askers : Begin(by) \/ BeginBlind(by)
  \/ PassStep \/ FailPass \/ BreakPass

Spec == Init /\ [][Next]_vars

(* The supervisor reconnects, the loop of the account runs its tasks, and  *)
(* Telegram answers or fails.                                              *)
Fairness ==
  /\ WF_vars(Connect) /\ WF_vars(Activated) /\ WF_vars(Handle)
  /\ \A by \in Askers : WF_vars(Begin(by))
  /\ WF_vars(PassStep)

FairSpec == Spec /\ Fairness

-----------------------------------------------------------------------------
(* Rows, cursor and pass have their types, and a pass runs only on a live  *)
(* connection.                                                             *)
CaptureTypeOK ==
  /\ chat \in [Id -> Post]
  /\ updates \in Seq(Update)
  /\ rows \in [Id -> {NoRow} \cup MessageRow]
  /\ cursor \in Cursor
  /\ enabled \in BOOLEAN
  /\ link \in {"down", "activating", "active"}
  /\ asked \in SUBSET Askers
  /\ pass \in Pass
  /\ link = "down" => pass = NoPass /\ asked = {}
  /\ legacy \in {"never", "pending", "forgotten"} /\ floor \in Nat
  /\ given \in {"no", "refused", "dropped"}
  /\ skipped \in SUBSET Id /\ lost \in SUBSET Id /\ tied \in SUBSET Id

(* What the history cursor has passed is in the archive: a live message    *)
(* that is already stored never makes a pass skip older ones, whatever     *)
(* fails, disconnects or is interrupted between a page and its cursor.     *)
(* Only what an initial pass leaves out on purpose, and what was scanned   *)
(* while capture was disabled, may be missing; a cursor from an older      *)
(* schema is reconciled in full as long as the archive knows it is one.    *)
CursorSound ==
  \A m \in Posted \ skipped :
    /\ m <= cursor.scanned
    /\ legacy = "pending" \/ floor < m
    => rows[m] # NoRow /\ rows[m].text # 0

(* Once the updates about a message are handled, its row shows what the    *)
(* chat shows, although pages fetched earlier may be stored later.  An     *)
(* update that was lost is not recovered, and two edits of one second      *)
(* cannot be told apart.                                                   *)
Fresh ==
  \A m \in Id \ (lost \cup tied) :
    /\ rows[m] # NoRow
    /\ \A i \in DOMAIN updates : updates[i].id # m
    => /\ rows[m].text \in {0, chat[m].text}
       /\ rows[m].deleted = (chat[m].state = "deleted")
       /\ rows[m].reactions = chat[m].reactions

(* What was posted before the account reconnected is archived in the end.  *)
CaughtUp ==
  \A m \in Id :
    "activation" \in asked /\ m \in Posted
    ~> \/ rows[m] # NoRow \/ m \notin Posted
       \/ m <= floor \/ m \in skipped \/ ~enabled \/ given # "no"

(* A chat whose pass failed is retried in the background until it          *)
(* completes, unless access to it is refused.                              *)
FailedIsRetried ==
  cursor.status \in {"failed", "rescan_failed"} /\ enabled
  ~> cursor.status = "completed" \/ ~enabled \/ given = "refused"
=============================================================================
