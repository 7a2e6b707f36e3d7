------------------------------ MODULE StoreOpen ------------------------------
(***************************************************************************)
(* ArchiveStore.initialize, which every process runs when it opens the     *)
(* archive: the server, and each command line tool beside it.  It upgrades *)
(* a database of the first version, which knew no accounts, adds columns   *)
(* that are missing, makes the triggers of the search index anew and       *)
(* applies the numbered migrations.  A script and a statement that defines *)
(* data commit one statement at a time; only the copying of rows and each  *)
(* numbered migration is a transaction.                                    *)
(*                                                                         *)
(* Processes that are through store messages and scan the history.  Rows   *)
(* of the first version are abstracted to whether a table has them.        *)
(***************************************************************************)
EXTENDS Naturals, Sequences, FiniteSets

CONSTANTS
  Procs,     \* executions of initialize, each by a process of its own
  Messages,  \* messages stored after the upgrade
  Versions,  \* SCHEMA_VERSION - LEGACY_SCHEMA_BASELINE
  Rescan,    \* the migration that makes the history be scanned again (18)
  MaxFaults  \* bound: processes that die

(* The order in which the tables of the first version are renamed; the     *)
(* table of the messages is what tells the versions apart.                 *)
Tables == <<"chats", "messages">>

ASSUME OpenAssumption == Versions \in Nat /\ Rescan \in 1 .. Versions /\ MaxFaults \in Nat

None == "none"
Table(layout, full) == [layout |-> layout, full |-> full]
Absent == [layout |-> None, full |-> FALSE]

VARIABLES
  plain,    \* the tables under their names
  aside,    \* the tables called *_v1
  account,  \* is there an account default?
  column,   \* is a column that _ensure_current_schema adds there?
  trigger,  \* is messages_ai there?
  version,  \* schema_version in meta, less the baseline
  applied,  \* migrations that were applied
  history,  \* the history cursor: not there yet, to be scanned again, or through
  rows,     \* messages stored by open archives
  indexed,  \* those the search index has
  pc,       \* where each execution is
  from,     \* the version it goes on from
  died,
  origin,   \* which database it was
  rescans,  \* times a history that was scanned was to be scanned again
  overlap   \* did an execution begin beside another, or beside an open archive?

disk == <<plain, aside, account, column, trigger, version, applied, history, rows, indexed>>
ghosts == <<origin, rescans, overlap>>
vars == <<disk, pc, from, died, ghosts>>

-----------------------------------------------------------------------------
(* A new database, one of the first version, and one of a version before   *)
(* the numbered migrations, in which a history was recorded.               *)
Fresh ==
  /\ origin = "fresh"
  /\ plain = [t \in 1 .. 2 |-> Absent] /\ account = FALSE
  /\ column = FALSE /\ trigger = FALSE /\ history = None
First ==
  /\ origin = "first"
  /\ plain = [t \in 1 .. 2 |-> Table("v1", TRUE)] /\ account = FALSE
  /\ column = FALSE /\ trigger = TRUE /\ history = None
Baseline ==
  /\ origin = "baseline"
  /\ plain = [t \in 1 .. 2 |-> Table("v2", TRUE)] /\ account = TRUE
  /\ column = FALSE /\ trigger = TRUE /\ history = "legacy"

Init ==
  /\ Fresh \/ First \/ Baseline
  /\ aside = [t \in 1 .. 2 |-> Absent]
  /\ version = 0 /\ applied = {} /\ rows = {} /\ indexed = {}
  /\ pc = [p \in Procs |-> "closed"] /\ from = [p \in Procs |-> 0]
  /\ died = 0 /\ rescans = 0 /\ overlap = None

Goto(p, l) == pc' = [pc EXCEPT ![p] = l]
Raise(p) == Goto(p, "raised")

(* The schema script creates what is missing, with every column. *)
Created == [t \in 1 .. 2 |-> IF plain[t] = Absent THEN Table("v2", FALSE) ELSE plain[t]]

Decide(p) ==
  /\ pc[p] = "closed"
  /\ overlap' = IF \E q \in Procs : pc[q] \notin {"closed", "raised", "open"} THEN "opening"
                ELSE IF overlap = None /\ \E q \in Procs : pc[q] = "open" THEN "open" ELSE overlap
  /\ Goto(p, IF plain[2].layout = "v1" THEN "clear" ELSE "create")
  /\ UNCHANGED <<disk, from, died, origin, rescans>>

(* _migrate_v1_to_v2 begins by dropping the triggers and the index. *)
ClearIndex(p) ==
  /\ pc[p] = "clear"
  /\ trigger' = FALSE /\ indexed' = {}
  /\ Goto(p, "rename 1")
  /\ UNCHANGED <<plain, aside, account, column, version, applied, history, rows, from, died, ghosts>>

Rename(p, t) ==
  /\ pc[p] = IF t = 1 THEN "rename 1" ELSE "rename 2"
  /\ IF plain[t] = Absent \/ aside[t] # Absent THEN Raise(p) /\ UNCHANGED <<plain, aside>>
     ELSE /\ aside' = [aside EXCEPT ![t] = plain[t]]
          /\ plain' = [plain EXCEPT ![t] = Absent]
          /\ Goto(p, IF t = 1 THEN "rename 2" ELSE "recreate")
  /\ UNCHANGED <<account, column, trigger, version, applied, history, rows, indexed, from, died, ghosts>>

CreateTables(p) ==
  /\ pc[p] \in {"create", "recreate"}
  /\ plain' = Created
  /\ trigger' = TRUE
  /\ column' = (column \/ plain[2] = Absent)
  /\ Goto(p, IF pc[p] = "create" THEN "columns" ELSE "copy")
  /\ UNCHANGED <<aside, account, version, applied, history, rows, indexed, from, died, ghosts>>

(* Mutation: an account that is there means that the rows are, too. *)
CopyUnlessDone(p) ==
  /\ pc[p] = "copy"
  /\ account' = TRUE
  /\ plain' = IF account THEN plain ELSE [t \in 1 .. 2 |-> [plain[t] EXCEPT !.full = @ \/ aside[t].full]]
  /\ Goto(p, "drop 1")
  /\ UNCHANGED <<aside, column, trigger, version, applied, history, rows, indexed, from, died, ghosts>>

(* One transaction inserts the account and the rows; a table that is gone, *)
(* or the account that is there already, makes it fail.                    *)
CopyRows(p) ==
  /\ pc[p] = "copy"
  /\ IF account \/ \E t \in 1 .. 2 : aside[t] = Absent \/ plain[t] = Absent
     THEN Raise(p) /\ UNCHANGED <<plain, account>>
     ELSE /\ account' = TRUE
          /\ plain' = [t \in 1 .. 2 |-> [plain[t] EXCEPT !.full = @ \/ aside[t].full]]
          /\ Goto(p, "drop 1")
  /\ UNCHANGED <<aside, column, trigger, version, applied, history, rows, indexed, from, died, ghosts>>

Drop(p, t) ==
  /\ pc[p] = IF t = 1 THEN "drop 1" ELSE "drop 2"
  /\ IF aside[t] = Absent THEN Raise(p) /\ UNCHANGED aside
     ELSE aside' = [aside EXCEPT ![t] = Absent] /\ Goto(p, IF t = 1 THEN "drop 2" ELSE "columns")
  /\ UNCHANGED <<plain, account, column, trigger, version, applied, history, rows, indexed, from, died, ghosts>>

(* _ensure_current_schema looks for a column, and then adds it. *)
LookForColumn(p) ==
  /\ pc[p] = "columns"
  /\ Goto(p, IF column THEN "index" ELSE "alter")
  /\ UNCHANGED <<disk, from, died, ghosts>>

AddColumn(p) ==
  /\ pc[p] = "alter"
  /\ IF column THEN Raise(p) /\ UNCHANGED column
     ELSE column' = TRUE /\ Goto(p, "index")
  /\ UNCHANGED <<plain, aside, account, trigger, version, applied, history, rows, indexed, from, died, ghosts>>

(* _ensure_message_fts_triggers drops the triggers and creates them. *)
DropTrigger(p) ==
  /\ pc[p] = "index"
  /\ IF plain[2] = Absent THEN Goto(p, "version") /\ UNCHANGED trigger
     ELSE trigger' = FALSE /\ Goto(p, "trigger")
  /\ UNCHANGED <<plain, aside, account, column, version, applied, history, rows, indexed, from, died, ghosts>>

CreateTrigger(p) ==
  /\ pc[p] = "trigger"
  /\ IF trigger \/ plain[2] = Absent THEN Raise(p) /\ UNCHANGED trigger
     ELSE trigger' = TRUE /\ Goto(p, "version")
  /\ UNCHANGED <<plain, aside, account, column, version, applied, history, rows, indexed, from, died, ghosts>>

(* Mutation: the version of an old database is not looked at. *)
ReadBaseline(p) ==
  /\ pc[p] = "version"
  /\ from' = [from EXCEPT ![p] = 0]
  /\ Goto(p, "migrate")
  /\ UNCHANGED <<disk, died, ghosts>>

(* The version is read once. *)
ReadVersion(p) ==
  /\ pc[p] = "version"
  /\ from' = [from EXCEPT ![p] = version]
  /\ Goto(p, "migrate")
  /\ UNCHANGED <<disk, died, ghosts>>

Reset == history \in {"legacy", "scanned", "rescan"}

Migrate(p) ==
  /\ pc[p] = "migrate" /\ from[p] < Versions
  /\ LET v == from[p] + 1 IN
       /\ from' = [from EXCEPT ![p] = v]
       /\ version' = v
       /\ applied' = applied \cup {v}
       /\ IF v = Rescan /\ Reset
          THEN /\ history' = "rescan"
               /\ rescans' = IF history = "scanned" THEN rescans + 1 ELSE rescans
          ELSE UNCHANGED <<history, rescans>>
  /\ UNCHANGED <<plain, aside, account, column, trigger, rows, indexed, pc, died, origin, overlap>>

(* Mutation: the version is sealed whatever was applied. *)
SealAlways(p) ==
  /\ pc[p] = "migrate"
  /\ version' = Versions
  /\ Goto(p, "open")
  /\ UNCHANGED <<plain, aside, account, column, trigger, applied, history, rows, indexed, from, died, ghosts>>

Seal(p) ==
  /\ pc[p] = "migrate" /\ from[p] = Versions
  /\ version' = Versions
  /\ Goto(p, "open")
  /\ UNCHANGED <<plain, aside, account, column, trigger, applied, history, rows, indexed, from, died, ghosts>>

Initialize(p) ==
  \/ Decide(p) \/ ClearIndex(p) \/ CreateTables(p) \/ CopyRows(p)
  \/ \E t \in 1 .. 2 : Rename(p, t) \/ Drop(p, t)
  \/ LookForColumn(p) \/ AddColumn(p) \/ DropTrigger(p) \/ CreateTrigger(p)
  \/ ReadVersion(p) \/ Migrate(p) \/ Seal(p)

-----------------------------------------------------------------------------
(* A process that is through stores a message; the trigger indexes it. *)
StoreMessage(p, m) ==
  /\ pc[p] = "open" /\ plain[2].layout = "v2" /\ m \notin rows
  /\ rows' = rows \cup {m}
  /\ indexed' = IF trigger THEN indexed \cup {m} ELSE indexed
  /\ UNCHANGED <<plain, aside, account, column, trigger, version, applied, history, pc, from, died, ghosts>>

(* Its ingestion gets to the end of the history. *)
ScanHistory(p) ==
  /\ pc[p] = "open" /\ history \in {None, "rescan"}
  /\ history' = "scanned"
  /\ UNCHANGED <<plain, aside, account, column, trigger, version, applied, rows, indexed, pc, from, died, ghosts>>

(* A process dies, or closes the archive. *)
Die(p) ==
  /\ pc[p] \notin {"closed", "raised"} /\ died < MaxFaults
  /\ died' = died + 1
  /\ Raise(p)
  /\ UNCHANGED <<disk, from, ghosts>>

Next ==
  \E p \in Procs : Initialize(p) \/ Die(p) \/ ScanHistory(p) \/ \E m \in Messages : StoreMessage(p, m)

Spec == Init /\ [][Next]_vars

-----------------------------------------------------------------------------
Open == \E p \in Procs : pc[p] = "open"
Full == \A t \in 1 .. 2 : plain[t].full

(* Rows of the first version are in the table they were in, or in the one  *)
(* that was put aside, wherever executions die, fail or get in each        *)
(* other's way.                                                            *)
NoRowLost == origin # "fresh" => \A t \in 1 .. 2 : plain[t].full \/ aside[t].full

(* The version that is recorded names migrations that were applied, and an *)
(* open archive has them all, also when a second execution writes the      *)
(* lower versions again.                                                   *)
VersionTrue ==
  /\ 1 .. version \subseteq applied
  /\ Open => applied = 1 .. Versions

(* One process after the other opens the archive without loss: rows of the *)
(* first version are missing from it only after an execution died or two   *)
(* executions met, a scanned history is scanned again only after two met,  *)
(* and a message is missing from the index only if an execution was beside *)
(* a process that stored messages, or two met.                             *)
TroubleHasCause ==
  /\ Open /\ origin # "fresh" /\ ~Full => died > 0 \/ overlap # None
  /\ rescans > 0 => overlap = "opening"
  /\ rows # indexed => overlap # None

(* "Numbered, transactional migrations upgrade the archive schema": what   *)
(* is opened shows the rows the database had.                              *)
OpenShowsAll == Open /\ origin # "fresh" => Full
=============================================================================
