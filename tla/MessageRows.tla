----------------------------- MODULE MessageRows -----------------------------
(***************************************************************************)
(* A row of the table messages and the three statements of ArchiveStore    *)
(* that write it.  Each writes whatever the row holds: updates arrive      *)
(* late, in a different order than the history pages, or for a message the *)
(* archive has never seen, and the merge rules decide what is kept.        *)
(*                                                                         *)
(* A text is numbered by the edits made to it, a set of reactions by the   *)
(* changes; 0 stands for NULL.  edited is the date of the last edit, whose *)
(* resolution is a second, so that two edits may bear the same date.       *)
(***************************************************************************)
EXTENDS Integers

NoRow == [text |-> 0]

MessageRow == [text : Nat, edited : Nat, reactions : Nat, deleted : BOOLEAN]

(* A message as Telegram shows it, in an update or on a history page. *)
Snapshot == [text : Nat, edited : Nat, reactions : Nat]

Greater(m, n) == IF m >= n THEN m ELSE n

(* Mutation: the later statement wins. *)
NotOlderEver(s, row) == TRUE

(* What a statement may replace: anything that was never edited, and the   *)
(* result of an edit that is not later than the snapshot's.                *)
NotOlder(s, row) == row.edited = 0 \/ (s.edited # 0 /\ s.edited >= row.edited)

(* A history page fills in reactions, an update replaces them. *)
MergedReactions(s, row, type) ==
  IF s.reactions = 0 \/ (type = "backfill" /\ row.reactions # 0)
  THEN row.reactions
  ELSE s.reactions

(* upsert_message.  Its caller never sets deleted_at. *)
Upserted(row, s, type) ==
  IF row = NoRow
  THEN [text |-> s.text, edited |-> s.edited, reactions |-> s.reactions, deleted |-> FALSE]
  ELSE [row EXCEPT !.text = IF NotOlder(s, row) THEN s.text ELSE @,
                   !.edited = Greater(@, s.edited),
                   !.reactions = MergedReactions(s, row, type)]

(* mark_deleted and update_reactions insert a row when there is none.      *)
BlankRow == [text |-> 0, edited |-> 0, reactions |-> 0, deleted |-> FALSE]

Known(row) == IF row = NoRow THEN BlankRow ELSE row

MarkedDeleted(row) == [Known(row) EXCEPT !.deleted = TRUE]

Reacted(row, n) == [Known(row) EXCEPT !.reactions = n]
=============================================================================
