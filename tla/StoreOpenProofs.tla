--------------------------- MODULE StoreOpenProofs ---------------------------
(***************************************************************************)
(* Opening the archive keeps the rows of the first version, records no     *)
(* migration that was not applied, and does harm only where a process died *)
(* or two met, for any number of processes, messages, versions and deaths. *)
(***************************************************************************)
EXTENDS StoreOpen, TLAPS

-----------------------------------------------------------------------------
Layouts == [layout : {None, "v1", "v2"}, full : BOOLEAN]

Places ==
  {"closed", "raised", "open", "clear", "rename 1", "rename 2", "recreate", "copy", "drop 1",
   "drop 2", "create", "columns", "alter", "index", "trigger", "version", "migrate"}

OpenTypeOK ==
  /\ plain \in [1 .. 2 -> Layouts] /\ aside \in [1 .. 2 -> Layouts]
  /\ account \in BOOLEAN /\ column \in BOOLEAN /\ trigger \in BOOLEAN
  /\ version \in 0 .. Versions /\ applied \subseteq 1 .. Versions
  /\ history \in {None, "legacy", "scanned", "rescan"}
  /\ rows \subseteq Messages /\ indexed \subseteq Messages
  /\ pc \in [Procs -> Places] /\ from \in [Procs -> 0 .. Versions]
  /\ died \in Nat /\ rescans \in Nat
  /\ origin \in {"fresh", "first", "baseline"}
  /\ overlap \in {None, "open", "opening"}

(* What an execution goes on from was applied, and an execution that is    *)
(* through has found or applied everything.                                *)
AppliedUpTo ==
  \A p \in Procs :
    /\ pc[p] = "migrate" => 1 .. from[p] \subseteq applied
    /\ pc[p] = "open" => applied = 1 .. Versions

(* The account is inserted once, so that one execution at most ever drops  *)
(* tables that were put aside; what it has yet to drop is copied, and as   *)
(* long as it is there nothing takes its place.                            *)
Dropping(p, t) == pc[p] = "drop 1" \/ (t = 2 /\ pc[p] = "drop 2")

DropsCopies ==
  /\ \A p \in Procs : pc[p] \in {"drop 1", "drop 2"} =>
       account /\ \A q \in Procs : pc[q] \in {"drop 1", "drop 2"} => q = p
  /\ \A p \in Procs, t \in 1 .. 2 : Dropping(p, t) =>
       aside[t] # Absent /\ (origin # "fresh" => plain[t].full)

SafeInv == OpenTypeOK /\ VersionTrue /\ AppliedUpTo /\ NoRowLost /\ DropsCopies

-----------------------------------------------------------------------------
LEMMA OneOrTwo == 1 # 2 /\ 1 \in 1 .. 2 /\ 2 \in 1 .. 2 /\ \A t \in 1 .. 2 : t = 1 \/ t = 2
OBVIOUS

LEMMA LayoutFacts ==
  /\ Absent \in Layouts
  /\ \A l \in {"v1", "v2"}, b \in BOOLEAN : Table(l, b) \in Layouts
  /\ \A x \in Layouts, b \in BOOLEAN : [x EXCEPT !.full = b] \in Layouts
BY DEF Absent, Table, Layouts, None

LEMMA GotoType ==
  ASSUME NEW p \in Procs, NEW l \in Places, pc \in [Procs -> Places], Goto(p, l)
  PROVE  pc' \in [Procs -> Places]
BY DEF Goto

LEMMA SafeInit == Init => SafeInv
<1> USE OpenAssumption
<1> SUFFICES ASSUME Init PROVE SafeInv
  OBVIOUS
<1>1. OpenTypeOK
  <2>1. pc \in [Procs -> Places]
    BY DEF Init, Places
  <2>2. /\ plain \in [1 .. 2 -> Layouts] /\ aside \in [1 .. 2 -> Layouts]
        /\ account \in BOOLEAN /\ column \in BOOLEAN /\ trigger \in BOOLEAN
        /\ history \in {None, "legacy"} /\ origin \in {"fresh", "first", "baseline"}
    BY LayoutFacts DEF Init, Fresh, First, Baseline
  <2> QED
    BY <2>1, <2>2 DEF Init, OpenTypeOK
<1>2. VersionTrue /\ AppliedUpTo
  BY DEF Init, VersionTrue, AppliedUpTo, Open
<1>3. NoRowLost
  BY DEF Init, Fresh, First, Baseline, NoRowLost, Table
<1>4. DropsCopies
  BY DEF Init, DropsCopies, Dropping
<1> QED
  BY <1>1, <1>2, <1>3, <1>4 DEF SafeInv

LEMMA TypeStep == OpenTypeOK /\ [Next]_vars => OpenTypeOK'
<1> USE OpenAssumption
<1> SUFFICES ASSUME OpenTypeOK, [Next]_vars PROVE OpenTypeOK'
  OBVIOUS
<1> USE DEF OpenTypeOK
<1>u. CASE UNCHANGED vars
  BY <1>u DEF vars, disk, ghosts
<1>n. CASE Next
  <2> PICK p \in Procs : Initialize(p) \/ Die(p) \/ ScanHistory(p) \/ \E m \in Messages : StoreMessage(p, m)
    BY <1>n DEF Next
  <2> USE DEF Goto, Raise, disk, ghosts
  <2>1. CASE Decide(p)
    BY <2>1 DEF Decide, Places, None
  <2>2. CASE ClearIndex(p)
    BY <2>2 DEF ClearIndex, Places
  <2>3. CASE CreateTables(p)
    <3>1. plain' \in [1 .. 2 -> Layouts]
      BY <2>3 DEF CreateTables, Created, Table, Layouts
    <3> QED
      BY <2>3, <3>1 DEF CreateTables, Places
  <2>4. CASE CopyRows(p)
    <3>1. plain' \in [1 .. 2 -> Layouts]
      <4>1. CASE plain' = plain
        BY <4>1
      <4>2. CASE plain' = [t \in 1 .. 2 |-> [plain[t] EXCEPT !.full = @ \/ aside[t].full]]
        <5> SUFFICES ASSUME NEW t \in 1 .. 2
                     PROVE  [plain[t] EXCEPT !.full = @ \/ aside[t].full] \in Layouts
          BY <4>2
        <5>1. (plain[t].full \/ aside[t].full) \in BOOLEAN
          OBVIOUS
        <5> QED
          BY <5>1, LayoutFacts
      <4> QED
        BY <2>4, <4>1, <4>2 DEF CopyRows
    <3> QED
      BY <2>4, <3>1 DEF CopyRows, Places
  <2>5. ASSUME NEW t \in 1 .. 2, Rename(p, t) PROVE OpenTypeOK'
    <3>1. Absent \in Layouts
      BY DEF Absent, Layouts, None
    <3> QED
      BY <2>5, <3>1 DEF Rename, Places
  <2>6. ASSUME NEW t \in 1 .. 2, Drop(p, t) PROVE OpenTypeOK'
    <3>1. Absent \in Layouts
      BY DEF Absent, Layouts, None
    <3> QED
      BY <2>6, <3>1 DEF Drop, Places
  <2>7. CASE LookForColumn(p)
    BY <2>7 DEF LookForColumn, Places
  <2>8. CASE AddColumn(p)
    BY <2>8 DEF AddColumn, Places
  <2>9. CASE DropTrigger(p)
    BY <2>9 DEF DropTrigger, Places
  <2>10. CASE CreateTrigger(p)
    BY <2>10 DEF CreateTrigger, Places
  <2>11. CASE ReadVersion(p)
    BY <2>11 DEF ReadVersion, Places
  <2>12. CASE Migrate(p)
    <3> DEFINE v == from[p] + 1
    <3>1. v \in 1 .. Versions
      BY <2>12 DEF Migrate
    <3>2. /\ from' = [from EXCEPT ![p] = v] /\ version' = v /\ applied' = applied \cup {v}
          /\ history' \in {history, "rescan"} /\ rescans' \in {rescans, rescans + 1}
          /\ UNCHANGED <<plain, aside, account, column, trigger, rows, indexed, pc, died, origin, overlap>>
      BY <2>12 DEF Migrate
    <3>3. applied' \subseteq 1 .. Versions
      BY <3>1, <3>2
    <3>4. v \in 0 .. Versions
      BY <3>1
    <3>5. from' \in [Procs -> 0 .. Versions] /\ version' \in 0 .. Versions
      BY <3>2, <3>4
    <3> HIDE DEF v
    <3> QED
      BY <3>2, <3>3, <3>5
  <2>13. CASE Seal(p)
    BY <2>13 DEF Seal, Places
  <2>14. CASE Die(p)
    <3>1. pc' \in [Procs -> Places]
      BY <2>14, GotoType DEF Die, Places
    <3> QED
      BY <2>14, <3>1 DEF Die
  <2>15. CASE ScanHistory(p)
    BY <2>15 DEF ScanHistory
  <2>16. ASSUME NEW m \in Messages, StoreMessage(p, m) PROVE OpenTypeOK'
    BY <2>16 DEF StoreMessage
  <2> QED
    BY <2>1, <2>2, <2>3, <2>4, <2>5, <2>6, <2>7, <2>8, <2>9, <2>10, <2>11, <2>12, <2>13, <2>14,
       <2>15, <2>16 DEF Initialize
<1> QED
  BY <1>u, <1>n

LEMMA VersionStep == OpenTypeOK /\ VersionTrue /\ AppliedUpTo /\ [Next]_vars => VersionTrue' /\ AppliedUpTo'
<1> USE OpenAssumption
<1> SUFFICES ASSUME OpenTypeOK, VersionTrue, AppliedUpTo, [Next]_vars PROVE VersionTrue' /\ AppliedUpTo'
  OBVIOUS
<1> USE DEF VersionTrue, AppliedUpTo, Open
<1>u. CASE UNCHANGED vars
  BY <1>u DEF vars, disk, ghosts
<1>n. CASE Next
  <2> PICK p \in Procs : Initialize(p) \/ Die(p) \/ ScanHistory(p) \/ \E m \in Messages : StoreMessage(p, m)
    BY <1>n DEF Next
  <2>t. pc \in [Procs -> Places] /\ from \in [Procs -> 0 .. Versions] /\ version \in 0 .. Versions
        /\ applied \subseteq 1 .. Versions
    BY DEF OpenTypeOK
  <2>1. ASSUME UNCHANGED <<version, applied, from>>,
               NEW l \in Places \ {"open", "migrate"}, pc' = [pc EXCEPT ![p] = l]
        PROVE  VersionTrue' /\ AppliedUpTo'
    BY <2>1, <2>t
  <2>2. CASE ReadVersion(p)
    BY <2>2, <2>t DEF ReadVersion, Goto, disk
  <2>3. CASE Migrate(p)
    BY <2>3, <2>t DEF Migrate
  <2>4. CASE Seal(p)
    BY <2>4, <2>t DEF Seal, Goto
  <2>5. CASE ScanHistory(p)
    BY <2>5 DEF ScanHistory
  <2>6. ASSUME NEW m \in Messages, StoreMessage(p, m) PROVE VersionTrue' /\ AppliedUpTo'
    BY <2>6 DEF StoreMessage
  <2> USE DEF Goto, Raise, disk, Places
  <2>7. CASE Decide(p)
    BY <2>7, <2>1 DEF Decide
  <2>8. CASE ClearIndex(p)
    BY <2>8, <2>1 DEF ClearIndex
  <2>9. CASE CreateTables(p)
    BY <2>9, <2>1 DEF CreateTables
  <2>10. CASE CopyRows(p)
    BY <2>10, <2>1 DEF CopyRows
  <2>11. ASSUME NEW t \in 1 .. 2, Rename(p, t) PROVE VersionTrue' /\ AppliedUpTo'
    BY <2>11, <2>1 DEF Rename
  <2>12. ASSUME NEW t \in 1 .. 2, Drop(p, t) PROVE VersionTrue' /\ AppliedUpTo'
    BY <2>12, <2>1 DEF Drop
  <2>13. CASE LookForColumn(p)
    BY <2>13, <2>1 DEF LookForColumn
  <2>14. CASE AddColumn(p)
    BY <2>14, <2>1 DEF AddColumn
  <2>15. CASE DropTrigger(p)
    BY <2>15, <2>1 DEF DropTrigger
  <2>16. CASE CreateTrigger(p)
    BY <2>16, <2>1 DEF CreateTrigger
  <2>17. CASE Die(p)
    BY <2>17, <2>1 DEF Die
  <2> QED
    BY <2>2, <2>3, <2>4, <2>5, <2>6, <2>7, <2>8, <2>9, <2>10, <2>11, <2>12, <2>13, <2>14, <2>15,
       <2>16, <2>17 DEF Initialize
<1> QED
  BY <1>u, <1>n

LEMMA RowStep == OpenTypeOK /\ NoRowLost /\ DropsCopies /\ [Next]_vars => NoRowLost' /\ DropsCopies'
<1> SUFFICES ASSUME OpenTypeOK, NoRowLost, DropsCopies, [Next]_vars PROVE NoRowLost' /\ DropsCopies'
  OBVIOUS
<1> USE DEF NoRowLost, DropsCopies, Dropping
<1>u. CASE UNCHANGED vars
  BY <1>u DEF vars, disk, ghosts
<1>n. CASE Next
  <2> PICK p \in Procs : Initialize(p) \/ Die(p) \/ ScanHistory(p) \/ \E m \in Messages : StoreMessage(p, m)
    BY <1>n DEF Next
  <2>t. /\ pc \in [Procs -> Places] /\ account \in BOOLEAN
        /\ plain \in [1 .. 2 -> Layouts] /\ aside \in [1 .. 2 -> Layouts]
    BY DEF OpenTypeOK
  <2>1. ASSUME UNCHANGED <<plain, aside, account, origin>>,
               NEW l \in Places \ {"drop 1", "drop 2"}, pc' = [pc EXCEPT ![p] = l]
        PROVE  NoRowLost' /\ DropsCopies'
    BY <2>1, <2>t
  <2>2. ASSUME UNCHANGED <<plain, aside, account, origin, pc>> PROVE NoRowLost' /\ DropsCopies'
    BY <2>2
  <2>3. CASE CreateTables(p)
    <3>1. \A t \in 1 .. 2 : plain'[t].full = plain[t].full
      <4> SUFFICES ASSUME NEW t \in 1 .. 2 PROVE plain'[t].full = plain[t].full
        OBVIOUS
      <4>1. plain'[t] = IF plain[t] = Absent THEN Table("v2", FALSE) ELSE plain[t]
        BY <2>3 DEF CreateTables, Created
      <4>2. Absent.full = FALSE /\ Table("v2", FALSE).full = FALSE
        BY DEF Absent, Table
      <4> QED
        BY <4>1, <4>2
    <3>2. UNCHANGED <<aside, account, origin>> /\ \E l \in {"columns", "copy"} : pc' = [pc EXCEPT ![p] = l]
      BY <2>3 DEF CreateTables, Goto, ghosts
    <3> QED
      BY <3>1, <3>2, <2>t
  <2>4. CASE CopyRows(p)
    <3>1. CASE plain' = plain /\ account' = account /\ pc' = [pc EXCEPT ![p] = "raised"]
      BY <3>1, <2>4, <2>1 DEF CopyRows, Places, ghosts
    <3>2. CASE ~(plain' = plain /\ account' = account /\ pc' = [pc EXCEPT ![p] = "raised"])
      <4>1. /\ ~account /\ account' /\ UNCHANGED <<aside, origin>> /\ pc' = [pc EXCEPT ![p] = "drop 1"]
            /\ \A t \in 1 .. 2 : aside[t] # Absent
            /\ \A t \in 1 .. 2 : plain'[t].full = (plain[t].full \/ aside[t].full)
        BY <3>2, <2>4, <2>t DEF CopyRows, Goto, Raise, Layouts, ghosts
      <4> QED
        BY <4>1, <2>t
    <3> QED
      BY <3>1, <3>2
  <2>5. ASSUME NEW t \in 1 .. 2, Rename(p, t) PROVE NoRowLost' /\ DropsCopies'
    <3>1. CASE pc' = [pc EXCEPT ![p] = "raised"] /\ UNCHANGED <<plain, aside>>
      BY <3>1, <2>5, <2>1 DEF Rename, Places, ghosts
    <3>2. CASE ~(pc' = [pc EXCEPT ![p] = "raised"] /\ UNCHANGED <<plain, aside>>)
      <4>1. /\ plain[t] # Absent /\ aside[t] = Absent /\ UNCHANGED <<account, origin>>
            /\ aside' = [aside EXCEPT ![t] = plain[t]] /\ plain' = [plain EXCEPT ![t] = Absent]
            /\ \E l \in {"rename 2", "recreate"} : pc' = [pc EXCEPT ![p] = l]
        BY <3>2, <2>5 DEF Rename, Goto, Raise, ghosts
      <4>2. NoRowLost'
        BY <4>1, <2>t DEF Absent
      <4>3. \A q \in Procs : ~Dropping(q, t)
        BY <4>1
      <4> QED
        BY <4>1, <4>2, <4>3, <2>t
    <3> QED
      BY <3>1, <3>2
  <2>6. ASSUME NEW t \in 1 .. 2, Drop(p, t) PROVE NoRowLost' /\ DropsCopies'
    <3>0. pc[p] = IF t = 1 THEN "drop 1" ELSE "drop 2"
      BY <2>6 DEF Drop
    <3>1. Dropping(p, t) /\ aside[t] # Absent
      <4>1. t = 1 \/ t = 2
        BY OneOrTwo
      <4>2. Dropping(p, t)
        BY <3>0, <4>1
      <4> QED
        BY <4>2
    <3>2. /\ UNCHANGED <<plain, account, origin>> /\ aside' = [aside EXCEPT ![t] = Absent]
          /\ pc' = [pc EXCEPT ![p] = IF t = 1 THEN "drop 2" ELSE "columns"]
          /\ pc[p] = IF t = 1 THEN "drop 1" ELSE "drop 2"
      BY <2>6, <3>1 DEF Drop, Goto, ghosts
    <3>3. NoRowLost'
      BY <3>1, <3>2, <2>t
    <3>4. \A q \in Procs : pc'[q] \in {"drop 1", "drop 2"} => q = p /\ t = 1
      BY <3>2, <2>t
    <3>5. CASE t = 1
      <4>0. Dropping(p, 2)
        BY <3>0, <3>5
      <4>1. /\ aside'[2] = aside[2]
            /\ aside[2] # Absent /\ (origin # "fresh" => plain[2].full)
        <5>1. aside'[2] = aside[2]
          BY <3>2, <3>5, <2>t, OneOrTwo, Zenon
        <5>2. aside[2] # Absent /\ (origin # "fresh" => plain[2].full)
          BY <4>0, OneOrTwo
        <5> QED
          BY <5>1, <5>2
      <4>2. \A q \in Procs, u \in 1 .. 2 : Dropping(q, u)' => u = 2
        BY <3>2, <3>4, <3>5, <2>t
      <4> QED
        BY <3>0, <3>2, <3>3, <3>4, <3>5, <4>1, <4>2
    <3>6. CASE t # 1
      BY <3>2, <3>3, <3>4, <3>6
    <3> QED
      BY <3>5, <3>6
  <2>7. CASE ScanHistory(p)
    BY <2>7, <2>2 DEF ScanHistory, ghosts
  <2>8. ASSUME NEW m \in Messages, StoreMessage(p, m) PROVE NoRowLost' /\ DropsCopies'
    BY <2>8, <2>2 DEF StoreMessage, ghosts
  <2>9. CASE Migrate(p)
    BY <2>9, <2>2 DEF Migrate
  <2> USE DEF Goto, Raise, disk, ghosts, Places
  <2>10. CASE Decide(p)
    BY <2>10, <2>1 DEF Decide
  <2>11. CASE ClearIndex(p)
    BY <2>11, <2>1 DEF ClearIndex
  <2>12. CASE LookForColumn(p)
    BY <2>12, <2>1 DEF LookForColumn
  <2>13. CASE AddColumn(p)
    BY <2>13, <2>1 DEF AddColumn
  <2>14. CASE DropTrigger(p)
    BY <2>14, <2>1 DEF DropTrigger
  <2>15. CASE CreateTrigger(p)
    BY <2>15, <2>1 DEF CreateTrigger
  <2>16. CASE ReadVersion(p)
    BY <2>16, <2>1 DEF ReadVersion
  <2>17. CASE Seal(p)
    BY <2>17, <2>1 DEF Seal
  <2>18. CASE Die(p)
    BY <2>18, <2>1 DEF Die
  <2> QED
    BY <2>3, <2>4, <2>5, <2>6, <2>7, <2>8, <2>9, <2>10, <2>11, <2>12, <2>13, <2>14, <2>15, <2>16,
       <2>17, <2>18 DEF Initialize
<1> QED
  BY <1>u, <1>n

LEMMA SafeInvHolds == Spec => []SafeInv
<1>1. SafeInv /\ [Next]_vars => SafeInv'
  BY TypeStep, VersionStep, RowStep DEF SafeInv
<1> QED
  BY SafeInit, <1>1, PTL DEF Spec

(* The recorded version names migrations that were applied, and an open    *)
(* archive has them all, whichever processes opened it, and wherever they  *)
(* died.                                                                   *)
THEOREM VersionIsTrue == Spec => []VersionTrue
<1>1. SafeInv => VersionTrue
  BY DEF SafeInv
<1> QED
  BY SafeInvHolds, <1>1, PTL

(* The rows of the first version are never lost.                           *)
THEOREM RowsAreKept == Spec => []NoRowLost
<1>1. SafeInv => NoRowLost
  BY DEF SafeInv
<1> QED
  BY SafeInvHolds, <1>1, PTL

-----------------------------------------------------------------------------
(* When one execution follows the other, in parts or in whole.             *)
Active(p) == pc[p] \notin {"closed", "raised"}
Opening(p) == Active(p) /\ pc[p] # "open"

(* As long as executions do not meet, the one that migrates goes on from   *)
(* the version that is recorded, and nothing is migrated once a process    *)
(* scans the history.                                                      *)
ScanOnce ==
  overlap # "opening" =>
    /\ \A p, q \in Procs : Opening(p) /\ Opening(q) => p = q
    /\ \A p \in Procs : pc[p] = "migrate" => from[p] = version
    /\ \A p \in Procs : pc[p] = "open" => version = Versions
    /\ history = "scanned" => version = Versions
    /\ rescans = 0

(* As long as none is beside a process that stores messages, the trigger   *)
(* is there whenever one is stored, and the upgrade of the first version,  *)
(* which empties the index, is past.                                       *)
Triggered ==
  {"copy", "drop 1", "drop 2", "columns", "alter", "index", "version", "migrate", "open"}

IndexKept ==
  overlap = None =>
    /\ \A p, q \in Procs : Active(p) /\ Active(q) => p = q
    /\ rows = indexed
    /\ rows # {} => plain[2].layout = "v2"
    /\ \A p \in Procs : pc[p] = "clear" => plain[2].layout = "v1"
    /\ \A p \in Procs : pc[p] \in {"rename 1", "rename 2"} => rows = {}
    /\ \A p \in Procs : pc[p] \in Triggered => trigger

(* The first execution, alone and alive: what it has before it in each     *)
(* place, so that none of its statements fails.                            *)
OldTables == [t \in 1 .. 2 |-> Table("v1", TRUE)]
NoTables == [t \in 1 .. 2 |-> Absent]
Aside == \A t \in 1 .. 2 : aside[t] # Absent /\ aside[t].full

Start == (plain = OldTables /\ aside = NoTables /\ ~account) \/ (Full /\ plain[2].layout # "v1")

Stage(p) ==
  /\ pc[p] # "raised"
  /\ pc[p] \in {"clear", "rename 1"} => plain = OldTables /\ aside = NoTables /\ ~account
  /\ pc[p] = "rename 2" =>
       /\ plain = [OldTables EXCEPT ![1] = Absent]
       /\ aside = [NoTables EXCEPT ![1] = Table("v1", TRUE)] /\ ~account
  /\ pc[p] = "recreate" => Aside /\ ~account
  /\ pc[p] = "copy" => Aside /\ ~account /\ \A t \in 1 .. 2 : plain[t] # Absent
  /\ pc[p] = "drop 1" => Full /\ Aside
  /\ pc[p] = "drop 2" => Full /\ aside[2] # Absent
  /\ pc[p] \in {"create", "columns", "alter", "index", "trigger", "version", "migrate", "open"} => Full
  /\ pc[p] = "alter" => ~column
  /\ pc[p] = "trigger" => ~trigger

UpgradeKept ==
  overlap = None /\ died = 0 /\ origin # "fresh" =>
    /\ (\A p \in Procs : pc[p] = "closed") => Start
    /\ \A p \in Procs : pc[p] # "closed" => Stage(p) /\ \A q \in Procs \ {p} : pc[q] = "closed"

CauseInv == OpenTypeOK /\ ScanOnce /\ IndexKept /\ UpgradeKept

LEMMA CauseInit == Init => CauseInv
<1> SUFFICES ASSUME Init PROVE CauseInv
  OBVIOUS
<1>1. OpenTypeOK
  BY SafeInit DEF SafeInv
<1>2. ScanOnce
  BY DEF Init, Fresh, First, Baseline, ScanOnce, Opening, Active, None
<1>3. IndexKept
  BY DEF Init, IndexKept, Active, Triggered
<1>4. UpgradeKept
  <2>1. origin # "fresh" => Start
    BY OneOrTwo DEF Init, Fresh, First, Baseline, Start, OldTables, NoTables, Full, Table
  <2> QED
    BY <2>1 DEF Init, UpgradeKept
<1> QED
  BY <1>1, <1>2, <1>3, <1>4 DEF CauseInv

LEMMA ScanStep == OpenTypeOK /\ ScanOnce /\ [Next]_vars => ScanOnce'
<1> USE OpenAssumption
<1> SUFFICES ASSUME OpenTypeOK, ScanOnce, [Next]_vars, overlap' # "opening" PROVE ScanOnce'
  BY DEF ScanOnce
<1> USE DEF ScanOnce, Opening, Active
<1>u. CASE UNCHANGED vars
  BY <1>u DEF vars, disk, ghosts
<1>n. CASE Next
  <2> PICK p \in Procs : Initialize(p) \/ Die(p) \/ ScanHistory(p) \/ \E m \in Messages : StoreMessage(p, m)
    BY <1>n DEF Next
  <2>t. /\ pc \in [Procs -> Places] /\ from \in [Procs -> 0 .. Versions] /\ version \in 0 .. Versions
    BY DEF OpenTypeOK
  <2>1. ASSUME UNCHANGED <<version, from, history, rescans, overlap>>, Opening(p),
               NEW l \in Places \ {"open", "migrate"}, pc' = [pc EXCEPT ![p] = l]
        PROVE  ScanOnce'
    BY <2>1, <2>t
  <2>2. CASE ReadVersion(p)
    BY <2>2, <2>t DEF ReadVersion, Goto, disk, ghosts
  <2>3. CASE Migrate(p)
    <3>1. overlap # "opening" /\ pc[p] = "migrate" /\ from[p] = version /\ from[p] < Versions
      BY <2>3 DEF Migrate
    <3>2. /\ version < Versions /\ history # "scanned"
          /\ \A q \in Procs : pc[q] # "open" /\ (pc[q] = "migrate" => q = p)
      BY <3>1, <2>t
    <3>3. /\ version' = from[p] + 1 /\ from' = [from EXCEPT ![p] = from[p] + 1]
          /\ pc' = pc /\ history' \in {history, "rescan"} /\ rescans' = rescans
      BY <2>3, <3>2 DEF Migrate
    <3> QED
      BY <3>1, <3>2, <3>3, <2>t
  <2>4. CASE Seal(p)
    BY <2>4, <2>t DEF Seal, Goto, ghosts
  <2>5. CASE ScanHistory(p)
    BY <2>5 DEF ScanHistory, ghosts
  <2>6. ASSUME NEW m \in Messages, StoreMessage(p, m) PROVE ScanOnce'
    BY <2>6 DEF StoreMessage, ghosts
  <2>7. CASE Decide(p)
    <3>1. /\ overlap # "opening" /\ \A q \in Procs : ~Opening(q)
          /\ UNCHANGED <<version, from, history, rescans>>
          /\ \E l \in {"clear", "create"} : pc' = [pc EXCEPT ![p] = l]
      <4>1. overlap # "opening" /\ ~\E q \in Procs : pc[q] \notin {"closed", "raised", "open"}
        BY <2>7 DEF Decide, None
      <4>2. \A q \in Procs : ~Opening(q)
        BY <4>1
      <4> QED
        BY <2>7, <4>1, <4>2 DEF Decide, Goto, disk
    <3> QED
      BY <3>1, <2>t
  <2>17. CASE Die(p)
    BY <2>17, <2>t DEF Die, Goto, Raise, disk, ghosts
  <2> USE DEF Goto, Raise, disk, ghosts, Places
  <2>8. CASE ClearIndex(p)
    BY <2>8, <2>1 DEF ClearIndex
  <2>9. CASE CreateTables(p)
    BY <2>9, <2>1 DEF CreateTables
  <2>10. CASE CopyRows(p)
    BY <2>10, <2>1 DEF CopyRows
  <2>11. ASSUME NEW t \in 1 .. 2, Rename(p, t) PROVE ScanOnce'
    BY <2>11, <2>1 DEF Rename
  <2>12. ASSUME NEW t \in 1 .. 2, Drop(p, t) PROVE ScanOnce'
    BY <2>12, <2>1 DEF Drop
  <2>13. CASE LookForColumn(p)
    BY <2>13, <2>1 DEF LookForColumn
  <2>14. CASE AddColumn(p)
    BY <2>14, <2>1 DEF AddColumn
  <2>15. CASE DropTrigger(p)
    BY <2>15, <2>1 DEF DropTrigger
  <2>16. CASE CreateTrigger(p)
    BY <2>16, <2>1 DEF CreateTrigger
  <2> QED
    BY <2>2, <2>3, <2>4, <2>5, <2>6, <2>7, <2>8, <2>9, <2>10, <2>11, <2>12, <2>13, <2>14, <2>15,
       <2>16, <2>17 DEF Initialize
<1> QED
  BY <1>u, <1>n

LEMMA IndexStep == OpenTypeOK /\ IndexKept /\ [Next]_vars => IndexKept'
<1> SUFFICES ASSUME OpenTypeOK, IndexKept, [Next]_vars, overlap' = None PROVE IndexKept'
  BY DEF IndexKept
<1> USE DEF IndexKept, Active, Triggered
<1>u. CASE UNCHANGED vars
  BY <1>u DEF vars, disk, ghosts
<1>n. CASE Next
  <2> PICK p \in Procs : Initialize(p) \/ Die(p) \/ ScanHistory(p) \/ \E m \in Messages : StoreMessage(p, m)
    BY <1>n DEF Next
  <2>t. pc \in [Procs -> Places] /\ trigger \in BOOLEAN /\ plain \in [1 .. 2 -> Layouts]
    BY DEF OpenTypeOK
  <2>1. ASSUME UNCHANGED <<rows, indexed, plain, overlap>>, Active(p), NEW l \in Places \ {"clear", "rename 1", "rename 2"},
               pc' = [pc EXCEPT ![p] = l], l \in Triggered => trigger'
        PROVE  IndexKept'
    BY <2>1, <2>t
  <2>2. ASSUME UNCHANGED <<rows, indexed, plain, trigger, pc, overlap>>
        PROVE  IndexKept'
    BY <2>2
  <2>3. CASE Decide(p)
    <3>1. /\ overlap = None /\ UNCHANGED <<rows, indexed, plain>> /\ pc[p] = "closed"
          /\ pc' = [pc EXCEPT ![p] = IF plain[2].layout = "v1" THEN "clear" ELSE "create"]
      BY <2>3 DEF Decide, Goto, disk, None
    <3>2. \A q \in Procs : ~Active(q)
      <4>1. \A q \in Procs : pc[q] \in {"closed", "raised", "open"}
        BY <2>3 DEF Decide, None
      <4>2. \A q \in Procs : pc[q] # "open"
        BY <2>3, <3>1, <4>1 DEF Decide, None
      <4> QED
        BY <4>1, <4>2
    <3> QED
      BY <3>1, <3>2, <2>t
  <2>4. CASE ClearIndex(p)
    BY <2>4, <2>t DEF ClearIndex, Goto, ghosts
  <2>5. ASSUME NEW t \in 1 .. 2, Rename(p, t) PROVE IndexKept'
    <3>1. /\ pc[p] \in {"rename 1", "rename 2"} /\ UNCHANGED <<rows, indexed, trigger, overlap>>
          /\ \E l \in {"raised", "rename 2", "recreate"} : pc' = [pc EXCEPT ![p] = l]
      BY <2>5 DEF Rename, Goto, Raise, ghosts
    <3> QED
      BY <3>1, <2>t
  <2>6. CASE CreateTables(p)
    <3>1. /\ pc[p] \in {"create", "recreate"} /\ UNCHANGED <<rows, indexed, overlap>> /\ trigger'
          /\ \E l \in {"columns", "copy"} : pc' = [pc EXCEPT ![p] = l]
      BY <2>6 DEF CreateTables, Goto, ghosts
    <3>2. plain[2].layout = "v2" => plain'[2].layout = "v2"
      BY <2>6, OneOrTwo DEF CreateTables, Created, Table
    <3> QED
      BY <3>1, <3>2, <2>t
  <2>7. CASE CopyRows(p)
    <3>1. /\ pc[p] = "copy" /\ UNCHANGED <<rows, indexed, trigger, overlap>>
          /\ \E l \in {"raised", "drop 1"} : pc' = [pc EXCEPT ![p] = l]
      BY <2>7 DEF CopyRows, Goto, Raise, ghosts
    <3>2. plain'[2].layout = plain[2].layout
      <4>1. plain'[2] = plain[2] \/ plain'[2] = [plain[2] EXCEPT !.full = @ \/ aside[2].full]
        BY <2>7, OneOrTwo DEF CopyRows
      <4>2. plain[2] \in Layouts
        BY <2>t, OneOrTwo
      <4> QED
        BY <4>1, <4>2 DEF Layouts
    <3> QED
      BY <3>1, <3>2, <2>t
  <2>8. ASSUME NEW t \in 1 .. 2, Drop(p, t) PROVE IndexKept'
    BY <2>8, <2>t, <2>1 DEF Drop, Goto, Raise, ghosts, Places
  <2>9. CASE LookForColumn(p)
    BY <2>9, <2>1 DEF LookForColumn, Goto, disk, ghosts, Places
  <2>10. CASE AddColumn(p)
    BY <2>10, <2>1 DEF AddColumn, Goto, Raise, ghosts, Places
  <2>11. CASE DropTrigger(p)
    BY <2>11, <2>1 DEF DropTrigger, Goto, ghosts, Places
  <2>12. CASE CreateTrigger(p)
    BY <2>12, <2>1 DEF CreateTrigger, Goto, Raise, ghosts, Places
  <2>13. CASE ReadVersion(p)
    BY <2>13, <2>1 DEF ReadVersion, Goto, disk, ghosts, Places
  <2>14. CASE Migrate(p)
    BY <2>14, <2>2 DEF Migrate
  <2>15. CASE Seal(p)
    BY <2>15, <2>1 DEF Seal, Goto, ghosts, Places
  <2>16. CASE Die(p)
    BY <2>16, <2>1 DEF Die, Goto, Raise, disk, ghosts, Places
  <2>17. CASE ScanHistory(p)
    BY <2>17, <2>2 DEF ScanHistory, ghosts
  <2>18. ASSUME NEW m \in Messages, StoreMessage(p, m) PROVE IndexKept'
    <3>1. pc[p] = "open" /\ trigger /\ plain[2].layout = "v2"
      BY <2>18 DEF StoreMessage, ghosts
    <3>2. /\ rows' = rows \cup {m} /\ indexed' = indexed \cup {m}
          /\ UNCHANGED <<plain, trigger, pc, overlap>>
      BY <2>18, <3>1 DEF StoreMessage, ghosts
    <3> QED
      BY <3>1, <3>2, <2>t
  <2> QED
    BY <2>3, <2>4, <2>5, <2>6, <2>7, <2>8, <2>9, <2>10, <2>11, <2>12, <2>13, <2>14, <2>15, <2>16,
       <2>17, <2>18 DEF Initialize
<1> QED
  BY <1>u, <1>n

LEMMA UpgradeStep == OpenTypeOK /\ UpgradeKept /\ [Next]_vars => UpgradeKept'
<1> SUFFICES ASSUME OpenTypeOK, UpgradeKept, [Next]_vars, overlap' = None, died' = 0, origin' # "fresh"
             PROVE  UpgradeKept'
  BY DEF UpgradeKept
<1>u. CASE UNCHANGED vars
  BY <1>u DEF vars, disk, ghosts, UpgradeKept, Start, Stage, Full, Aside
<1>n. CASE Next
  <2> PICK p \in Procs : Initialize(p) \/ Die(p) \/ ScanHistory(p) \/ \E m \in Messages : StoreMessage(p, m)
    BY <1>n DEF Next
  <2>t. /\ pc \in [Procs -> Places] /\ trigger \in BOOLEAN /\ column \in BOOLEAN /\ account \in BOOLEAN
        /\ plain \in [1 .. 2 -> Layouts] /\ aside \in [1 .. 2 -> Layouts] /\ died \in Nat
    BY DEF OpenTypeOK
  <2>a. ASSUME pc[p] # "closed", UNCHANGED <<overlap, died, origin>>
        PROVE  Stage(p) /\ \A q \in Procs \ {p} : pc[q] = "closed"
    BY <2>a DEF UpgradeKept
  <2>b. ASSUME pc[p] # "closed", UNCHANGED <<overlap, died, origin>>,
               NEW l \in Places \ {"closed"}, pc' = [pc EXCEPT ![p] = l], Stage(p)'
        PROVE  UpgradeKept'
    BY <2>a, <2>b, <2>t DEF UpgradeKept
  <2>1. CASE Decide(p)
    <3>1. /\ overlap = None /\ died = 0 /\ origin # "fresh" /\ pc[p] = "closed"
          /\ UNCHANGED <<plain, aside, account, column, trigger>>
          /\ pc' = [pc EXCEPT ![p] = IF plain[2].layout = "v1" THEN "clear" ELSE "create"]
      BY <2>1 DEF Decide, Goto, disk, ghosts, None
    <3>2. \A q \in Procs : pc[q] = "closed"
      <4>1. \A q \in Procs : pc[q] \in {"closed", "raised", "open"}
        BY <2>1 DEF Decide, None
      <4>2. \A q \in Procs : pc[q] # "open"
        BY <2>1, <3>1, <4>1 DEF Decide, None
      <4>3. \A q \in Procs : pc[q] # "raised"
        BY <3>1 DEF UpgradeKept, Stage
      <4> QED
        BY <4>1, <4>2, <4>3
    <3>3. Start
      BY <3>1, <3>2 DEF UpgradeKept
    <3>4. CASE plain[2].layout = "v1"
      <4>1. plain = OldTables /\ aside = NoTables /\ ~account
        BY <3>3, <3>4 DEF Start
      <4> QED
        BY <3>1, <3>2, <3>4, <4>1, <2>t DEF UpgradeKept, Stage
    <3>5. CASE plain[2].layout # "v1"
      <4>1. Full
        BY <3>3, <3>5, OneOrTwo DEF Start, OldTables, Table
      <4> QED
        BY <3>1, <3>2, <3>5, <4>1, <2>t DEF UpgradeKept, Stage, Full
    <3> QED
      BY <3>4, <3>5
  <2>2. CASE ClearIndex(p)
    <3>1. /\ pc[p] = "clear" /\ pc' = [pc EXCEPT ![p] = "rename 1"]
          /\ UNCHANGED <<plain, aside, account, overlap, died, origin>>
      BY <2>2 DEF ClearIndex, Goto, ghosts
    <3> QED
      BY <3>1, <2>a, <2>b, <2>t DEF Stage, Places
  <2>3. ASSUME NEW t \in 1 .. 2, Rename(p, t) PROVE UpgradeKept'
    <3>1. pc[p] \in {"rename 1", "rename 2"} /\ UNCHANGED <<account, overlap, died, origin>>
      BY <2>3 DEF Rename, ghosts
    <3>2. Stage(p)
      BY <3>1, <2>a
    <3>3. CASE t = 1
      <4>1. pc[p] = "rename 1" /\ plain = OldTables /\ aside = NoTables /\ ~account
        BY <2>3, <3>2, <3>3 DEF Rename, Stage
      <4>2. plain[1] = Table("v1", TRUE) /\ aside[1] = Absent /\ Table("v1", TRUE) # Absent
        BY <4>1, OneOrTwo DEF OldTables, NoTables, Table, Absent
      <4>3. /\ aside' = [NoTables EXCEPT ![1] = Table("v1", TRUE)]
            /\ plain' = [OldTables EXCEPT ![1] = Absent] /\ pc' = [pc EXCEPT ![p] = "rename 2"]
        BY <2>3, <3>3, <4>1, <4>2 DEF Rename, Goto
      <4> QED
        BY <3>1, <4>1, <4>3, <2>b, <2>t DEF Stage, Places
    <3>4. CASE t = 2
      <4>1. /\ pc[p] = "rename 2" /\ plain = [OldTables EXCEPT ![1] = Absent]
            /\ aside = [NoTables EXCEPT ![1] = Table("v1", TRUE)] /\ ~account
        BY <2>3, <3>2, <3>4, OneOrTwo DEF Rename, Stage
      <4>2. /\ plain[2] = Table("v1", TRUE) /\ aside[2] = Absent /\ Table("v1", TRUE) # Absent
            /\ aside[1] = Table("v1", TRUE) /\ Table("v1", TRUE).full
        BY <4>1, OneOrTwo DEF OldTables, NoTables, Table, Absent
      <4>3. aside' = [aside EXCEPT ![2] = Table("v1", TRUE)] /\ pc' = [pc EXCEPT ![p] = "recreate"]
        BY <2>3, <3>4, <4>1, <4>2, OneOrTwo DEF Rename, Goto
      <4>4. Aside'
        BY <4>2, <4>3, <2>t, OneOrTwo DEF Aside
      <4> QED
        BY <3>1, <4>1, <4>3, <4>4, <2>b, <2>t DEF Stage, Places
    <3> QED
      BY <3>3, <3>4, OneOrTwo
  <2>4. CASE CreateTables(p)
    <3>1. /\ pc[p] \in {"create", "recreate"} /\ UNCHANGED <<aside, account, overlap, died, origin>>
          /\ pc' = [pc EXCEPT ![p] = IF pc[p] = "create" THEN "columns" ELSE "copy"]
          /\ plain' = Created
      BY <2>4 DEF CreateTables, Goto, ghosts
    <3>2. Stage(p)
      BY <3>1, <2>a
    <3>3. \A t \in 1 .. 2 : plain'[t] # Absent /\ (plain[t].full => plain'[t].full)
      <4>1. Table("v2", FALSE) # Absent /\ ~Absent.full
        BY DEF Table, Absent, None
      <4> QED
        BY <3>1, <4>1 DEF Created
    <3>4. CASE pc[p] = "create"
      <4>1. Full'
        BY <3>2, <3>3, <3>4 DEF Stage, Full
      <4> QED
        BY <3>1, <3>4, <4>1, <2>b, <2>t DEF Stage, Places
    <3>5. CASE pc[p] = "recreate"
      <4>1. Aside' /\ ~account'
        BY <3>1, <3>2, <3>5 DEF Stage, Aside
      <4> QED
        BY <3>1, <3>3, <3>5, <4>1, <2>b, <2>t DEF Stage, Places
    <3> QED
      BY <3>1, <3>4, <3>5
  <2>5. CASE CopyRows(p)
    <3>1. pc[p] = "copy" /\ UNCHANGED <<aside, overlap, died, origin>>
      BY <2>5 DEF CopyRows, ghosts
    <3>2. Aside /\ ~account /\ \A t \in 1 .. 2 : plain[t] # Absent
      BY <3>1, <2>a DEF Stage
    <3>3. /\ pc' = [pc EXCEPT ![p] = "drop 1"]
          /\ plain' = [t \in 1 .. 2 |-> [plain[t] EXCEPT !.full = @ \/ aside[t].full]]
      BY <2>5, <3>2 DEF CopyRows, Aside, Goto
    <3>4. Full' /\ Aside'
      BY <3>1, <3>2, <3>3, <2>t DEF Full, Aside, Layouts
    <3> QED
      BY <3>1, <3>3, <3>4, <2>b, <2>t DEF Stage, Places
  <2>6. ASSUME NEW t \in 1 .. 2, Drop(p, t) PROVE UpgradeKept'
    <3>1. pc[p] \in {"drop 1", "drop 2"} /\ UNCHANGED <<plain, account, overlap, died, origin>>
      BY <2>6 DEF Drop, ghosts
    <3>2. Stage(p) /\ Full /\ Full'
      BY <3>1, <2>a DEF Stage, Full
    <3>3. CASE t = 1
      <4>1. pc[p] = "drop 1" /\ Aside
        BY <2>6, <3>2, <3>3 DEF Drop, Stage
      <4>2. pc' = [pc EXCEPT ![p] = "drop 2"] /\ aside' = [aside EXCEPT ![1] = Absent]
        BY <2>6, <3>3, <4>1 DEF Drop, Goto, Aside
      <4>3. aside'[2] # Absent
        BY <4>1, <4>2, <2>t, OneOrTwo, Zenon DEF Aside
      <4> QED
        BY <3>1, <3>2, <4>2, <4>3, <2>b, <2>t DEF Stage, Places
    <3>4. CASE t = 2
      <4>1. pc[p] = "drop 2" /\ aside[2] # Absent
        BY <2>6, <3>2, <3>4, OneOrTwo DEF Drop, Stage
      <4>2. pc' = [pc EXCEPT ![p] = "columns"]
        BY <2>6, <3>4, <4>1, OneOrTwo DEF Drop, Goto
      <4> QED
        BY <3>1, <3>2, <4>2, <2>b, <2>t DEF Stage, Places
    <3> QED
      BY <3>3, <3>4, OneOrTwo
  <2> DEFINE Late == {"create", "columns", "alter", "index", "trigger", "version", "migrate", "open"}
  <2>c. ASSUME pc[p] \in Late, UNCHANGED <<plain, aside, account, overlap, died, origin>>,
               NEW l \in Late, pc' = [pc EXCEPT ![p] = l], l = "alter" => ~column', l = "trigger" => ~trigger'
        PROVE  UpgradeKept'
    <3>1. Full'
      BY <2>c, <2>a DEF Stage, Full
    <3>2. Stage(p)'
      BY <2>c, <3>1, <2>t DEF Stage
    <3> QED
      BY <2>c, <3>2, <2>b DEF Places
  <2>7. CASE LookForColumn(p)
    BY <2>7, <2>c, <2>t DEF LookForColumn, Goto, disk, ghosts
  <2>8. CASE AddColumn(p)
    <3>1. pc[p] = "alter" /\ UNCHANGED <<plain, aside, account, overlap, died, origin>>
      BY <2>8 DEF AddColumn, ghosts
    <3>2. ~column
      BY <3>1, <2>a DEF Stage
    <3> QED
      BY <2>8, <3>1, <3>2, <2>c DEF AddColumn, Goto
  <2>9. CASE DropTrigger(p)
    BY <2>9, <2>c DEF DropTrigger, Goto, ghosts
  <2>10. CASE CreateTrigger(p)
    <3>1. pc[p] = "trigger" /\ UNCHANGED <<plain, aside, account, overlap, died, origin>>
      BY <2>10 DEF CreateTrigger, ghosts
    <3>2. ~trigger /\ plain[2] # Absent
      BY <3>1, <2>a, OneOrTwo DEF Stage, Full, Absent
    <3> QED
      BY <2>10, <3>1, <3>2, <2>c DEF CreateTrigger, Goto
  <2>11. CASE ReadVersion(p)
    BY <2>11, <2>c DEF ReadVersion, Goto, disk, ghosts
  <2>12. CASE Migrate(p)
    BY <2>12, <2>c, <2>t DEF Migrate
  <2>13. CASE Seal(p)
    BY <2>13, <2>c DEF Seal, Goto, ghosts
  <2>14. CASE Die(p)
    BY <2>14, <2>t DEF Die
  <2>15. CASE ScanHistory(p)
    BY <2>15, <2>c, <2>t DEF ScanHistory, ghosts
  <2>16. ASSUME NEW m \in Messages, StoreMessage(p, m) PROVE UpgradeKept'
    BY <2>16, <2>c, <2>t DEF StoreMessage, ghosts
  <2> QED
    BY <2>1, <2>2, <2>3, <2>4, <2>5, <2>6, <2>7, <2>8, <2>9, <2>10, <2>11, <2>12, <2>13, <2>14,
       <2>15, <2>16 DEF Initialize
<1> QED
  BY <1>u, <1>n

(* Where rows of the first version are missing, a history is scanned again *)
(* or the search index lacks a message, a process died in the middle or    *)
(* two executions met.                                                     *)
THEOREM TroubleIsCaused == Spec => []TroubleHasCause
<1>1. CauseInv /\ [Next]_vars => CauseInv'
  BY TypeStep, ScanStep, IndexStep, UpgradeStep DEF CauseInv
<1>2. CauseInv => TroubleHasCause
  <2> SUFFICES ASSUME CauseInv PROVE TroubleHasCause
    OBVIOUS
  <2>1. Open /\ origin # "fresh" /\ ~Full => died > 0 \/ overlap # None
    <3> SUFFICES ASSUME origin # "fresh", ~(died > 0), overlap = None, NEW p \in Procs, pc[p] = "open"
                 PROVE  Full
      BY DEF Open
    <3>1. died = 0
      BY DEF CauseInv, OpenTypeOK
    <3>2. Stage(p)
      BY <3>1 DEF CauseInv, UpgradeKept
    <3> QED
      BY <3>2 DEF Stage
  <2>2. rescans > 0 => overlap = "opening"
    BY DEF CauseInv, ScanOnce
  <2>3. rows # indexed => overlap # None
    BY DEF CauseInv, IndexKept
  <2> QED
    BY <2>1, <2>2, <2>3 DEF TroubleHasCause
<1> QED
  BY CauseInit, <1>1, <1>2, PTL DEF Spec
=============================================================================
