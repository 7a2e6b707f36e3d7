-------------------------- MODULE ArchiveConnections --------------------------
(***************************************************************************)
(* The archive as its threads share it.  Every thread has a connection of  *)
(* its own: the loop, on which updates of Telegram, discovery and notes of *)
(* operations are written, and the threads of requests.  The first         *)
(* statement of a write opens a transaction and takes the write lock of    *)
(* the database; the commit ends it.  When a statement fails, nothing      *)
(* rolls the loop's transaction back: it stays open until the next write   *)
(* of the loop commits it.  A request ends by closing its connection.      *)
(*                                                                         *)
(* A client outside follows the feed: it asks for the messages of the      *)
(* events after its cursor, stores them and saves the next cursor.         *)
(***************************************************************************)
EXTENDS Naturals, Sequences, SequencesExt, FiniteSets

CONSTANTS
  Loop,       \* the thread of the Telegram loop
  Requests,   \* threads of requests
  Messages,
  Topics,     \* topics of one chat
  Nothing,
  PageSize,   \* the limit the client asks for
  MaxEvents,  \* bound: events of the feed
  MaxFaults   \* bound: statements that fail, and crashes

ASSUME ConnectionsAssumption == PageSize \in Nat \ {0} /\ MaxEvents \in Nat /\ MaxFaults \in Nat

(* The contents of the archive, and the pages a client is answered.        *)
Status == {"absent", "kept", "archived"}
Contents ==
  [rows : [Messages -> Nat], events : Seq([message : Messages, version : Nat]),
   chat : Status, topics : [Topics -> Status], restored : SUBSET Topics, raced : SUBSET Topics]
PagesOf(S) == [rows : [S -> Nat], next : Nat]

ASSUME NothingAssumption ==
  /\ Nothing \notin Topics /\ Nothing \notin Contents
  /\ \A S \in SUBSET Messages : Nothing \notin PagesOf(S)

Threads == {Loop} \cup Requests

VARIABLES
  disk,     \* what is committed: rows (versions), events, the chat and its topics,
            \* which of these were restored by themselves, or were stored with
            \* what their chat had been before
  open,     \* the open transaction of each thread: what it has made of disk
  job,      \* the write each thread is in
  found,    \* topics discovery has yet to store
  client,   \* the client: its cursor, its rows, the page it was answered
  faults,
  torn      \* messages the event of which could not be written

vars == <<disk, open, job, found, client, faults, torn>>

Idle == [at |-> "idle"]

Init ==
  /\ disk = [rows |-> [m \in Messages |-> 0], events |-> <<>>,
             chat |-> "absent", topics |-> [t \in Topics |-> "absent"],
             restored |-> {}, raced |-> {}]
  /\ open = [c \in Threads |-> Nothing]
  /\ job = [c \in Threads |-> Idle]
  /\ found = {}
  /\ client = [cursor |-> 0, rows |-> [m \in Messages |-> 0], page |-> Nothing]
  /\ faults = 0
  /\ torn = {}

-----------------------------------------------------------------------------
(* What a connection sees, and whether it may write. *)
Seen(c) == IF open[c] = Nothing THEN disk ELSE open[c]
Free(c) == \A d \in Threads \ {c} : open[d] = Nothing

Start(c, op, x, at) ==
  /\ job[c] = Idle
  /\ job' = [job EXCEPT ![c] = [at |-> at, op |-> op, x |-> x]]
  /\ UNCHANGED <<disk, open, client, faults, torn>>

(* upsert_message and update_reactions write a row and an event,           *)
(* mark_deleted a row and an event for each message, in one transaction.   *)
Change(ms) == Start(Loop, "message", ms, "row") /\ UNCHANGED found

(* add_operation_event and other writes of the loop. *)
Note == Start(Loop, "note", Nothing, "row") /\ UNCHANGED found

(* discover_origins stores a chat and then, after another answer of        *)
(* Telegram, its topics.  For a topic upsert_origin looks whether the chat *)
(* is archived before its first write.                                     *)
DiscoverChat == found = {} /\ Start(Loop, "chat", Nothing, "row") /\ UNCHANGED found
DiscoverTopic(t) ==
  /\ t \in found
  /\ Start(Loop, "topic", [topic |-> t, archived |-> FALSE], "look")
  /\ found' = found \ {t}

(* Requests: archive or restore the chat or a topic, or delete one. *)
Ask(c, op, t) == c \in Requests /\ Start(c, op, t, "row") /\ UNCHANGED found

Look(c) ==
  /\ job[c].at = "look"
  /\ job' = [job EXCEPT ![c].at = "row", ![c].x.archived = (Seen(c).chat = "archived")]
  /\ UNCHANGED <<disk, open, found, client, faults, torn>>

-----------------------------------------------------------------------------
Changed(d, m) == [d EXCEPT !.rows[m] = @ + 1]
Logged(d, m) == [d EXCEPT !.events = Append(@, [message |-> m, version |-> d.rows[m]])]

(* Mutation: a topic is stored as any origin. *)
StoredUnseen(d, x) ==
  [d EXCEPT !.topics[x.topic] = IF @ = "absent" THEN "kept" ELSE @]

(* Only a topic that is new takes over what its chat was found to be. *)
Stored(d, x) ==
  LET t == x.topic IN
    IF d.topics[t] # "absent" THEN d
    ELSE [d EXCEPT !.topics[t] = IF x.archived THEN "archived" ELSE "kept",
                   !.restored = @ \ {t},
                   !.raced = IF d.chat = "archived" /\ ~x.archived THEN @ \cup {t} ELSE @ \ {t}]

(* archive_origin and delete_origin; a chat is archived with its topics,   *)
(* but deleted without them.                                               *)
Set(o, s) == IF o = "absent" \/ s = "delete" THEN "absent" ELSE s

Managed(d, op, t) ==
  LET whole == t = Nothing
      touched == IF whole THEN IF op = "delete" THEN {} ELSE Topics ELSE {t}
  IN  [d EXCEPT !.chat = IF whole THEN Set(@, op) ELSE @,
                !.topics = [u \in Topics |-> IF u \in touched THEN Set(@[u], op) ELSE @[u]],
                !.restored = IF op = "kept" /\ ~whole /\ d.chat = "archived" THEN @ \cup touched ELSE @ \ touched,
                !.raced = @ \ touched]

Goto(c, at) == job' = [job EXCEPT ![c].at = at]

(* The first statement waits for the write lock. *)
Row(c) ==
  /\ job[c].at = "row" /\ Free(c)
  /\ LET j == job[c] IN
       IF j.op = "message"
       THEN /\ open' = [open EXCEPT ![c] = Changed(Seen(c), Head(j.x))]
            /\ Goto(c, "event")
       ELSE /\ open' = [open EXCEPT ![c] =
                 CASE j.op = "note" -> Seen(c)
                   [] j.op = "chat" -> [Seen(c) EXCEPT !.chat = IF @ = "absent" THEN "kept" ELSE @]
                   [] j.op = "topic" -> Stored(Seen(c), j.x)
                   [] OTHER -> Managed(Seen(c), j.op, j.x)]
            /\ Goto(c, "commit")
  /\ UNCHANGED <<disk, found, client, faults, torn>>

(* Mutation: the row is committed before its event is written. *)
EventApart(c) ==
  /\ job[c].at = "event"
  /\ IF disk = open[c]
     THEN /\ open' = [open EXCEPT ![c] = Logged(@, Head(job[c].x))]
          /\ job' = [job EXCEPT ![c].x = Tail(@), ![c].at = IF Tail(job[c].x) = <<>> THEN "commit" ELSE "row"]
          /\ UNCHANGED disk
     ELSE disk' = open[c] /\ UNCHANGED <<open, job>>
  /\ UNCHANGED <<found, client, faults, torn>>

Event(c) ==
  /\ job[c].at = "event"
  /\ open' = [open EXCEPT ![c] = Logged(@, Head(job[c].x))]
  /\ job' = [job EXCEPT ![c].x = Tail(@), ![c].at = IF Tail(job[c].x) = <<>> THEN "commit" ELSE "row"]
  /\ UNCHANGED <<disk, found, client, faults, torn>>

Closed(c) == job' = [job EXCEPT ![c] = Idle]

Commit(c) ==
  /\ job[c].at = "commit"
  /\ disk' = open[c]
  /\ open' = [open EXCEPT ![c] = Nothing]
  /\ Closed(c)
  /\ found' = IF job[c].op = "chat" THEN Topics ELSE found
  /\ UNCHANGED <<client, faults, torn>>

(* A statement fails, or the lock is not to be had for busy_timeout.  The  *)
(* write is given up where it is; discovery leaves the rest of the chat.   *)
GiveUp(c) ==
  /\ Closed(c)
  /\ open' = IF c = Loop THEN open ELSE [open EXCEPT ![c] = Nothing]
  /\ found' = IF job[c].op = "topic" THEN {} ELSE found
  /\ torn' = IF job[c].at = "event" THEN torn \cup {Head(job[c].x)} ELSE torn
  /\ UNCHANGED <<disk, client>>

Fail(c) ==
  /\ job[c].at \in {"row", "event"} /\ faults < MaxFaults
  /\ faults' = faults + 1
  /\ GiveUp(c)

LockedOut(c) ==
  /\ job[c].at = "row" /\ ~Free(c)
  /\ UNCHANGED faults
  /\ GiveUp(c)

(* The server dies and is started again. *)
Crash ==
  /\ faults < MaxFaults
  /\ faults' = faults + 1
  /\ open' = [c \in Threads |-> Nothing]
  /\ job' = [c \in Threads |-> Idle]
  /\ found' = {}
  /\ UNCHANGED <<disk, client, torn>>

-----------------------------------------------------------------------------
(* list_messages_after: an event brings the row as it is now, not as it    *)
(* was; the next cursor is the event of the last row.                      *)
After(cursor) ==
  LET later == SubSeq(disk.events, cursor + 1, Len(disk.events)) IN
    IF Len(later) <= PageSize THEN later ELSE SubSeq(later, 1, PageSize)

Answered(cursor, next) ==
  [rows |-> [m \in {e.message : e \in ToSet(After(cursor))} |-> disk.rows[m]], next |-> next]

(* Mutation: the next cursor is the newest of the feed. *)
PageToEnd(cursor) == Answered(cursor, Len(disk.events))

Page(cursor) == Answered(cursor, cursor + Len(After(cursor)))

Fetch ==
  /\ client.page = Nothing /\ client.cursor < Len(disk.events)
  /\ client' = [client EXCEPT !.page = Page(client.cursor)]
  /\ UNCHANGED <<disk, open, job, found, faults, torn>>

Updated(rows, news) == [m \in Messages |-> IF m \in DOMAIN news THEN news[m] ELSE rows[m]]

(* The client upserts the rows and saves the cursor then; if it dies in    *)
(* between, it asks for the page again.                                    *)
Apply ==
  /\ client.page # Nothing
  /\ \E saved \in BOOLEAN :
       client' = [client EXCEPT !.rows = Updated(@, client.page.rows), !.page = Nothing,
                                !.cursor = IF saved THEN client.page.next ELSE @]
  /\ UNCHANGED <<disk, open, job, found, faults, torn>>

-----------------------------------------------------------------------------
Write(c) == Look(c) \/ Row(c) \/ Event(c) \/ Commit(c) \/ Fail(c) \/ LockedOut(c)

CanChange(ms) == Len(Seen(Loop).events) + Len(ms) <= MaxEvents

Next ==
  \/ \E ms \in UNION {[1 .. n -> Messages] : n \in 1 .. 2} :
       IsInjective(ms) /\ CanChange(ms) /\ Change(ms)
  \/ Note \/ DiscoverChat \/ \E t \in Topics : DiscoverTopic(t)
  \/ \E c \in Requests, op \in {"archived", "kept", "delete"}, t \in Topics \cup {Nothing} : Ask(c, op, t)
  \/ \E c \in Threads : Write(c)
  \/ Crash
  \/ Fetch \/ Apply

Spec == Init /\ [][Next]_vars

-----------------------------------------------------------------------------
(* Threads hold the write lock one at a time, and the feed is in the order *)
(* of its commits: what the client has saved is a prefix of it.            *)
OneWriter == \A c, d \in Threads : open[c] # Nothing /\ open[d] # Nothing => c = d

(* No event up to the saved cursor is lost on the client, wherever the     *)
(* client died, and although a page brings rows that are newer than the    *)
(* events it stands for.                                                   *)
NothingSkipped ==
  \A i \in 1 .. client.cursor :
    client.rows[disk.events[i].message] >= disk.events[i].version

(* A client that is through has the rows of the archive, whatever crashed  *)
(* between a row and its event; only a message the event of which could    *)
(* not be written may differ.                                              *)
MirrorExact ==
  client.cursor = Len(disk.events) =>
    \A m \in Messages \ torn : client.rows[m] = disk.rows[m]

Stray == {t \in Topics : disk.chat = "archived" /\ disk.topics[t] = "kept"}

(* A topic of an archived chat is not archived only when it was restored   *)
(* by itself, or stored while its chat was being archived.                 *)
StrayHasCause == Stray \subseteq disk.restored \cup disk.raced

(* "test_topic_inherits_archived_parent_state": a topic is archived with   *)
(* its chat, also when it is stored later.                                 *)
TopicInherits == Stray \subseteq disk.restored
=============================================================================
