---------------------- MODULE ArchiveConnectionsProofs ----------------------
(***************************************************************************)
(* A client that follows the feed loses no event and mirrors the archive,  *)
(* and a topic strays from its archived chat only for a cause, for any     *)
(* number of threads, messages, topics, events and faults.                 *)
(***************************************************************************)
EXTENDS ArchiveConnections, TLAPS

-----------------------------------------------------------------------------
Jobs ==
  {Idle}
    \cup [at : {"row", "event", "commit"}, op : {"message"}, x : Seq(Messages)]
    \cup [at : {"row", "commit"}, op : {"note", "chat", "archived", "kept", "delete"}, x : Topics \cup {Nothing}]
    \cup [at : {"look", "row", "commit"}, op : {"topic"}, x : [topic : Topics, archived : BOOLEAN]]

ConnectionsTypeOK ==
  /\ disk \in Contents
  /\ open \in [Threads -> Contents \cup {Nothing}]
  /\ job \in [Threads -> Jobs]
  /\ found \subseteq Topics
  /\ client = [cursor |-> client.cursor, rows |-> client.rows, page |-> client.page]
  /\ client.cursor \in Nat /\ client.rows \in [Messages -> Nat]
  /\ client.page = Nothing \/ \E S \in SUBSET Messages : client.page \in PagesOf(S)
  /\ faults \in Nat
  /\ torn \subseteq Messages

(* A write is in its transaction, which no other thread can have; only the *)
(* loop writes messages, and it has one left until it commits.             *)
InTransaction ==
  \A c \in Threads :
    /\ job[c].at \in {"event", "commit"} => open[c] # Nothing
    /\ job[c] # Idle /\ job[c].op = "message" => c = Loop /\ (job[c].at # "commit" => job[c].x # <<>>)

(* An event never names a version its row has not reached.                 *)
Sound(d) == \A i \in 1 .. Len(d.events) : d.events[i].version <= d.rows[d.events[i].message]

(* The newest version of a message is in the events.                       *)
Told(d, m) == d.rows[m] = 0 \/ \E i \in 1 .. Len(d.events) : d.events[i] = [message |-> m, version |-> d.rows[m]]

(* What a transaction has made of the contents goes on from them.          *)
GoesOn(d, e) ==
  /\ Len(d.events) <= Len(e.events)
  /\ \A i \in 1 .. Len(d.events) : e.events[i] = d.events[i]
  /\ \A m \in Messages : d.rows[m] <= e.rows[m]

Pending(c) == IF job[c].at = "event" THEN {Head(job[c].x)} ELSE {}

Caused(d) ==
  d.chat = "archived" => \A t \in Topics : d.topics[t] = "kept" => t \in d.restored \cup d.raced

DiskSound == Sound(disk) /\ Caused(disk) /\ \A m \in Messages \ torn : Told(disk, m)

OpenSound ==
  \A c \in Threads : open[c] # Nothing =>
    /\ Sound(open[c]) /\ GoesOn(disk, open[c]) /\ Caused(open[c])
    /\ \A m \in Messages \ (torn \cup Pending(c)) : Told(open[c], m)

(* The client is behind the archive, and its page is between the two.      *)
ClientBehind ==
  /\ client.cursor <= Len(disk.events)
  /\ \A m \in Messages : client.rows[m] <= disk.rows[m]
  /\ NothingSkipped

PageSound ==
  client.page # Nothing =>
    /\ client.page.next <= Len(disk.events)
    /\ \A m \in DOMAIN client.page.rows :
         client.rows[m] <= client.page.rows[m] /\ client.page.rows[m] <= disk.rows[m]
    /\ \A i \in 1 .. Len(disk.events) : client.cursor < i /\ i <= client.page.next =>
         /\ disk.events[i].message \in DOMAIN client.page.rows
         /\ disk.events[i].version <= client.page.rows[disk.events[i].message]

IInv ==
  /\ ConnectionsTypeOK /\ InTransaction /\ OneWriter /\ DiskSound /\ OpenSound
  /\ ClientBehind /\ PageSound

-----------------------------------------------------------------------------
(* What each statement makes of the contents.                              *)
Events == [message : Messages, version : Nat]

LEMMA ContentsFields ==
  ASSUME NEW d \in Contents
  PROVE  /\ d.rows \in [Messages -> Nat] /\ d.events \in Seq(Events) /\ Len(d.events) \in Nat
         /\ d.chat \in Status /\ d.topics \in [Topics -> Status]
         /\ d.restored \subseteq Topics /\ d.raced \subseteq Topics
         /\ \A i \in 1 .. Len(d.events) : d.events[i] \in Events
<1>1. /\ d.rows \in [Messages -> Nat] /\ d.events \in Seq(Events)
      /\ d.chat \in Status /\ d.topics \in [Topics -> Status]
      /\ d.restored \subseteq Topics /\ d.raced \subseteq Topics
  BY DEF Contents, Events
<1>2. \A s \in Seq(Events) : Len(s) \in Nat /\ \A i \in 1 .. Len(s) : s[i] \in Events
  OBVIOUS
<1> QED
  BY <1>1, <1>2

LEMMA ChangedContents ==
  ASSUME NEW d \in Contents, NEW m \in Messages, Sound(d), Caused(d)
  PROVE  /\ Changed(d, m) \in Contents /\ Sound(Changed(d, m)) /\ Caused(Changed(d, m))
         /\ GoesOn(d, Changed(d, m))
         /\ \A k \in Messages \ {m} : Told(d, k) => Told(Changed(d, m), k)
<1> DEFINE e == Changed(d, m)
<1>1. e = [d EXCEPT !.rows = [d.rows EXCEPT ![m] = @ + 1]]
  BY DEF Changed
<1>2. e \in Contents
  <2>1. [d.rows EXCEPT ![m] = @ + 1] \in [Messages -> Nat]
    BY ContentsFields
  <2> QED
    BY <1>1, <2>1 DEF Contents
<1>3. /\ e.events = d.events /\ e.chat = d.chat /\ e.topics = d.topics
      /\ e.restored = d.restored /\ e.raced = d.raced
      /\ e.rows = [d.rows EXCEPT ![m] = @ + 1]
  BY <1>1 DEF Contents
<1> HIDE DEF e
<1>4. \A k \in Messages : d.rows[k] <= e.rows[k] /\ (k # m => e.rows[k] = d.rows[k])
  BY <1>3, ContentsFields
<1>5. Sound(e)
  <2> SUFFICES ASSUME NEW i \in 1 .. Len(d.events) PROVE d.events[i].version <= e.rows[d.events[i].message]
    BY <1>3 DEF Sound
  <2>1. d.events[i].version <= d.rows[d.events[i].message]
    BY DEF Sound
  <2>2. d.events[i].version \in Nat /\ d.events[i].message \in Messages
    BY ContentsFields DEF Events
  <2> QED
    BY <1>2, <1>4, <2>1, <2>2, ContentsFields
<1>6. Caused(e) /\ GoesOn(d, e)
  BY <1>3, <1>4, ContentsFields DEF Caused, GoesOn
<1>7. \A k \in Messages \ {m} : Told(d, k) => Told(e, k)
  BY <1>3, <1>4 DEF Told
<1> QED
  BY <1>2, <1>5, <1>6, <1>7 DEF e

LEMMA LoggedContents ==
  ASSUME NEW d \in Contents, NEW m \in Messages, Sound(d), Caused(d)
  PROVE  /\ Logged(d, m) \in Contents /\ Sound(Logged(d, m)) /\ Caused(Logged(d, m))
         /\ GoesOn(d, Logged(d, m)) /\ Told(Logged(d, m), m)
         /\ \A k \in Messages : Told(d, k) => Told(Logged(d, m), k)
<1> DEFINE e == Logged(d, m)
           v == [message |-> m, version |-> d.rows[m]]
           n == Len(d.events)
<1>1. e = [d EXCEPT !.events = Append(d.events, v)]
  BY DEF Logged
<1>2. v \in Events /\ n \in Nat
  BY ContentsFields DEF Events
<1>3. Append(d.events, v) \in Seq(Events)
  BY <1>2, ContentsFields
<1>4. e \in Contents
  BY <1>1, <1>3, ContentsFields DEF Contents, Events
<1>5. /\ e.events = Append(d.events, v) /\ e.chat = d.chat /\ e.topics = d.topics
      /\ e.restored = d.restored /\ e.raced = d.raced /\ e.rows = d.rows
  BY <1>1 DEF Contents
<1>6. Len(e.events) = n + 1 /\ e.events[n + 1] = v /\ \A i \in 1 .. n : e.events[i] = d.events[i]
  BY <1>2, <1>5, ContentsFields
<1>v. v.message = m /\ v.version = d.rows[m]
  OBVIOUS
<1> HIDE DEF e, v, n
<1>7. Sound(e)
  <2> SUFFICES ASSUME NEW i \in 1 .. Len(e.events) PROVE e.events[i].version <= d.rows[e.events[i].message]
    BY <1>5 DEF Sound
  <2>1. CASE i = n + 1
    BY <2>1, <1>6, <1>v, ContentsFields
  <2>2. CASE i # n + 1
    <3>1. i \in 1 .. n
      BY <2>2, <1>2, <1>6
    <3> QED
      BY <3>1, <1>6 DEF Sound, n
  <2> QED
    BY <2>1, <2>2
<1>8. Caused(e)
  BY <1>5 DEF Caused
<1>9. GoesOn(d, e)
  <2>1. \A k \in Messages : d.rows[k] <= e.rows[k]
    BY <1>5, ContentsFields
  <2> QED
    BY <1>2, <1>6, <2>1 DEF GoesOn, n
<1>10. Told(e, m)
  <2>1. n + 1 \in 1 .. Len(e.events)
    BY <1>2, <1>6
  <2> QED
    BY <2>1, <1>5, <1>6 DEF Told, v
<1>11. ASSUME NEW k \in Messages, Told(d, k) PROVE Told(e, k)
  <2>1. CASE d.rows[k] = 0
    BY <2>1, <1>5 DEF Told
  <2>2. CASE d.rows[k] # 0
    <3> PICK i \in 1 .. n : d.events[i] = [message |-> k, version |-> d.rows[k]]
      BY <1>11, <2>2 DEF Told, n
    <3>1. i \in 1 .. Len(e.events)
      BY <1>2, <1>6
    <3> QED
      BY <3>1, <1>5, <1>6 DEF Told
  <2> QED
    BY <2>1, <2>2
<1> QED
  BY <1>4, <1>7, <1>8, <1>9, <1>10, <1>11 DEF e

(* Origins are written without a word to the feed. *)
Same(d, e) == e \in Contents /\ Caused(e) /\ e.rows = d.rows /\ e.events = d.events

LEMMA ChatContents ==
  ASSUME NEW d \in Contents, Caused(d)
  PROVE  Same(d, [d EXCEPT !.chat = IF @ = "absent" THEN "kept" ELSE @])
<1> DEFINE e == [d EXCEPT !.chat = IF @ = "absent" THEN "kept" ELSE @]
<1>1. e \in Contents
  BY DEF Contents, Status
<1>2. /\ e.events = d.events /\ e.topics = d.topics /\ e.restored = d.restored /\ e.raced = d.raced
      /\ e.rows = d.rows /\ e.chat = IF d.chat = "absent" THEN "kept" ELSE d.chat
  BY DEF Contents
<1> QED
  BY <1>1, <1>2 DEF Same, Caused

LEMMA StoredContents ==
  ASSUME NEW d \in Contents, Caused(d), NEW x \in [topic : Topics, archived : BOOLEAN]
  PROVE  Same(d, Stored(d, x))
<1> DEFINE t == x.topic
           e == [d EXCEPT !.topics[t] = IF x.archived THEN "archived" ELSE "kept",
                          !.restored = @ \ {t},
                          !.raced = IF d.chat = "archived" /\ ~x.archived THEN @ \cup {t} ELSE @ \ {t}]
<1>1. CASE d.topics[t] # "absent"
  BY <1>1 DEF Stored, Same
<1>2. CASE d.topics[t] = "absent"
  <2>1. Stored(d, x) = e /\ t \in Topics
    BY <1>2 DEF Stored
  <2>2. e.topics = [d.topics EXCEPT ![t] = IF x.archived THEN "archived" ELSE "kept"]
    BY DEF Contents
  <2>3. /\ e.events = d.events /\ e.rows = d.rows /\ e.chat = d.chat
        /\ e.restored = d.restored \ {t}
        /\ e.raced = IF d.chat = "archived" /\ ~x.archived THEN d.raced \cup {t} ELSE d.raced \ {t}
    BY DEF Contents
  <2>4. e.topics \in [Topics -> Status]
    BY <2>1, <2>2, ContentsFields DEF Status
  <2>5. e \in Contents
    BY <2>1, <2>2, <2>4, ContentsFields DEF Contents
  <2>6. Caused(e)
    BY <2>1, <2>2, <2>3, ContentsFields DEF Caused
  <2> QED
    BY <2>1, <2>3, <2>5, <2>6 DEF Same
<1> QED
  BY <1>1, <1>2

LEMMA ManagedContents ==
  ASSUME NEW d \in Contents, Caused(d), NEW op \in {"archived", "kept", "delete"},
         NEW t \in Topics \cup {Nothing}
  PROVE  Same(d, Managed(d, op, t))
<1> DEFINE whole == t = Nothing
           touched == IF whole THEN IF op = "delete" THEN {} ELSE Topics ELSE {t}
           e == Managed(d, op, t)
<1>1. e = [d EXCEPT !.chat = IF whole THEN Set(@, op) ELSE @,
                    !.topics = [u \in Topics |-> IF u \in touched THEN Set(@[u], op) ELSE @[u]],
                    !.restored = IF op = "kept" /\ ~whole /\ d.chat = "archived" THEN @ \cup touched ELSE @ \ touched,
                    !.raced = @ \ touched]
  BY DEF Managed
<1>2. touched \subseteq Topics
  OBVIOUS
<1>3. /\ e.events = d.events /\ e.rows = d.rows
      /\ e.chat = IF whole THEN Set(d.chat, op) ELSE d.chat
      /\ e.topics = [u \in Topics |-> IF u \in touched THEN Set(d.topics[u], op) ELSE d.topics[u]]
      /\ e.restored = IF op = "kept" /\ ~whole /\ d.chat = "archived" THEN d.restored \cup touched
                      ELSE d.restored \ touched
      /\ e.raced = d.raced \ touched
  BY <1>1 DEF Contents
<1>4. \A o \in Status : Set(o, op) \in Status
  BY DEF Set, Status
<1>5. e \in Contents
  <2>1. e.topics \in [Topics -> Status] /\ e.chat \in Status
    BY <1>3, <1>4, ContentsFields
  <2>2. e.restored \subseteq Topics /\ e.raced \subseteq Topics
    BY <1>2, <1>3, ContentsFields
  <2> HIDE DEF touched, whole
  <2> QED
    BY <1>1, <1>3, <2>1, <2>2, ContentsFields DEF Contents
<1>6. Caused(e)
  <2> SUFFICES ASSUME e.chat = "archived", NEW u \in Topics, e.topics[u] = "kept"
               PROVE  u \in e.restored \cup e.raced
    BY DEF Caused
  <2>1. CASE whole
    <3>1. op = "archived" /\ touched = Topics
      BY <2>1, <1>3 DEF Set
    <3>2. e.topics[u] = Set(d.topics[u], op)
      BY <3>1, <1>3
    <3> QED
      BY <3>1, <3>2 DEF Set
  <2>2. CASE ~whole
    <3>1. d.chat = "archived" /\ touched = {t}
      BY <2>2, <1>3
    <3>2. CASE u = t
      <4>1. Set(d.topics[u], op) = "kept"
        BY <3>1, <3>2, <1>3
      <4>2. op = "kept"
        BY <4>1 DEF Set
      <4> QED
        BY <2>2, <3>1, <3>2, <4>2, <1>3
    <3>3. CASE u # t
      <4>1. d.topics[u] = "kept"
        BY <3>1, <3>3, <1>3
      <4>2. u \in d.restored \cup d.raced
        BY <3>1, <4>1 DEF Caused
      <4> QED
        BY <3>1, <3>3, <4>2, <1>3
    <3> QED
      BY <3>2, <3>3
  <2> QED
    BY <2>1, <2>2
<1> HIDE DEF e
<1> QED
  BY <1>3, <1>5, <1>6 DEF Same, e

-----------------------------------------------------------------------------
StoreInv == ConnectionsTypeOK /\ InTransaction /\ OneWriter /\ DiskSound /\ OpenSound
ClientInv == ClientBehind /\ PageSound

LEMMA GoesOnSame == \A d \in Contents : GoesOn(d, d)
BY ContentsFields DEF GoesOn

LEMMA GoesOnFurther ==
  ASSUME NEW d \in Contents, NEW e \in Contents, NEW f \in Contents, GoesOn(d, e), GoesOn(e, f)
  PROVE  GoesOn(d, f)
<1>1. Len(d.events) \in Nat /\ Len(e.events) \in Nat /\ Len(f.events) \in Nat
  BY ContentsFields
<1>2. \A m \in Messages : d.rows[m] \in Nat /\ e.rows[m] \in Nat /\ f.rows[m] \in Nat
  BY ContentsFields
<1>3. Len(d.events) <= Len(f.events) /\ \A m \in Messages : d.rows[m] <= f.rows[m]
  BY <1>1, <1>2 DEF GoesOn
<1>4. \A i \in 1 .. Len(d.events) : i \in 1 .. Len(e.events)
  BY <1>1 DEF GoesOn
<1>5. \A i \in 1 .. Len(d.events) : f.events[i] = d.events[i]
  BY <1>4 DEF GoesOn
<1> QED
  BY <1>3, <1>5 DEF GoesOn

LEMMA JobShape ==
  ASSUME NEW j \in Jobs
  PROVE  \/ j = Idle /\ j.at = "idle"
         \/ /\ j \in [at : {"row", "event", "commit"}, op : {"message"}, x : Seq(Messages)]
            /\ j.at \in {"row", "event", "commit"} /\ j.op = "message" /\ j.x \in Seq(Messages)
         \/ /\ j \in [at : {"row", "commit"}, op : {"note", "chat", "archived", "kept", "delete"}, x : Topics \cup {Nothing}]
            /\ j.at \in {"row", "commit"} /\ j.x \in Topics \cup {Nothing}
            /\ j.op \in {"note", "chat", "archived", "kept", "delete"}
         \/ /\ j \in [at : {"look", "row", "commit"}, op : {"topic"}, x : [topic : Topics, archived : BOOLEAN]]
            /\ j.at \in {"look", "row", "commit"} /\ j.op = "topic"
            /\ j.x \in [topic : Topics, archived : BOOLEAN]
BY DEF Jobs, Idle

(* What the next statement of a thread finds. *)
LEMMA SeenContents ==
  ASSUME StoreInv, NEW c \in Threads
  PROVE  /\ Seen(c) \in Contents /\ Sound(Seen(c)) /\ Caused(Seen(c)) /\ GoesOn(disk, Seen(c))
         /\ \A m \in Messages \ (torn \cup Pending(c)) : Told(Seen(c), m)
<1>1. CASE open[c] = Nothing
  BY <1>1, GoesOnSame DEF StoreInv, ConnectionsTypeOK, DiskSound, Seen
<1>2. CASE open[c] # Nothing
  BY <1>2 DEF StoreInv, ConnectionsTypeOK, OpenSound, Seen
<1> QED
  BY <1>1, <1>2

(* A step that changes at most the job of a thread, between transactions.  *)
LEMMA JobStep ==
  ASSUME StoreInv, NEW c \in Threads, NEW j \in Jobs, job' = [job EXCEPT ![c] = j],
         UNCHANGED <<disk, open, torn, faults, client>>, found' \subseteq Topics,
         job[c].at \notin {"event", "commit"}, j.at \notin {"event", "commit"},
         j # Idle /\ j.op = "message" => c = Loop /\ j.x # <<>>
  PROVE  StoreInv'
<1> USE DEF StoreInv
<1>1. ConnectionsTypeOK'
  BY DEF ConnectionsTypeOK
<1>2. \A d \in Threads : job'[d] = IF d = c THEN j ELSE job[d]
  BY DEF ConnectionsTypeOK
<1>3. InTransaction'
  BY <1>2 DEF InTransaction
<1>4. \A d \in Threads : Pending(d)' = Pending(d)
  BY <1>2 DEF Pending
<1>5. OneWriter' /\ DiskSound'
  BY DEF OneWriter, DiskSound
<1>6. OpenSound'
  BY <1>4 DEF OpenSound
<1> QED
  BY <1>1, <1>3, <1>5, <1>6

(* A step that ends the write of a thread without its commit. *)
LEMMA GiveUpStep ==
  ASSUME StoreInv, NEW c \in Threads, job[c] # Idle, GiveUp(c), faults' \in Nat
  PROVE  StoreInv'
<1> USE DEF StoreInv
<1>1. /\ job' = [job EXCEPT ![c] = Idle] /\ disk' = disk /\ client' = client
      /\ open' = IF c = Loop THEN open ELSE [open EXCEPT ![c] = Nothing]
      /\ found' \in {found, {}} /\ torn' = torn \cup Pending(c)
  BY DEF GiveUp, Closed, Pending
<1>2. job \in [Threads -> Jobs] /\ open \in [Threads -> Contents \cup {Nothing}]
  BY DEF ConnectionsTypeOK
<1>3. Idle \in Jobs /\ Idle.at = "idle"
  BY DEF Jobs, Idle
<1>4. Pending(c) \subseteq Messages
  <2> SUFFICES ASSUME job[c].at = "event" PROVE Head(job[c].x) \in Messages
    BY DEF Pending
  <2>1. job[c].x \in Seq(Messages) /\ job[c].op = "message"
    BY <1>2, <1>3, JobShape
  <2>2. job[c].x # <<>>
    BY <2>1 DEF InTransaction
  <2> QED
    BY <2>1, <2>2
<1>5. open' \in [Threads -> Contents \cup {Nothing}] /\ \A d \in Threads : open'[d] \in {open[d], Nothing}
  BY <1>1, <1>2
<1>6. ConnectionsTypeOK'
  BY <1>1, <1>2, <1>3, <1>4, <1>5 DEF ConnectionsTypeOK
<1>7. \A d \in Threads : d # c => job'[d] = job[d] /\ open'[d] = open[d]
  BY <1>1, <1>2
<1>8. job'[c] = Idle
  BY <1>1, <1>2
<1>9. InTransaction'
  BY <1>3, <1>7, <1>8 DEF InTransaction
<1>10. OneWriter'
  BY <1>5 DEF OneWriter
<1>11. DiskSound'
  BY <1>1 DEF DiskSound
<1>12. OpenSound'
  <2> SUFFICES ASSUME NEW d \in Threads, open'[d] # Nothing
               PROVE  /\ Sound(open'[d]) /\ GoesOn(disk', open'[d]) /\ Caused(open'[d])
                      /\ \A m \in Messages \ (torn' \cup Pending(d)') : Told(open'[d], m)
    BY DEF OpenSound
  <2>1. open'[d] = open[d]
    BY <1>5
  <2>2. torn \cup Pending(d) \subseteq torn' \cup Pending(d)'
    <3>1. CASE d = c
      BY <3>1, <1>1
    <3>2. CASE d # c
      BY <3>2, <1>1, <1>7 DEF Pending
    <3> QED
      BY <3>1, <3>2
  <2> QED
    BY <2>1, <2>2, <1>1 DEF OpenSound
<1> QED
  BY <1>6, <1>9, <1>10, <1>11, <1>12

(* A statement of a transaction, the first of which has the lock. *)
LEMMA StatementStep ==
  ASSUME StoreInv, NEW c \in Threads, NEW j \in Jobs, job[c] # Idle, job' = [job EXCEPT ![c] = j],
         j.at # "look", j # Idle, Free(c) \/ open[c] # Nothing,
         j.op = "message" => c = Loop /\ (j.at # "commit" => j.x # <<>>),
         NEW e \in Contents, open' = [open EXCEPT ![c] = e],
         Sound(e), Caused(e), GoesOn(Seen(c), e),
         \A m \in Messages \ (torn \cup Pending(c)') : Told(e, m),
         UNCHANGED <<disk, found, client, faults, torn>>
  PROVE  StoreInv'
<1> USE DEF StoreInv
<1>1. job \in [Threads -> Jobs] /\ open \in [Threads -> Contents \cup {Nothing}] /\ disk \in Contents
  BY DEF ConnectionsTypeOK
<1>2. e # Nothing /\ open'[c] = e /\ \A d \in Threads : d # c => job'[d] = job[d] /\ open'[d] = open[d]
  BY <1>1, NothingAssumption
<1>3. job'[c] = j
  BY <1>1
<1>4. ConnectionsTypeOK'
  BY <1>1 DEF ConnectionsTypeOK
<1>5. InTransaction'
  BY <1>2, <1>3 DEF InTransaction
<1>6. OneWriter'
  BY <1>2 DEF OneWriter, Free
<1>7. DiskSound'
  BY DEF DiskSound
<1>8. OpenSound'
  <2> SUFFICES ASSUME NEW d \in Threads, open'[d] # Nothing
               PROVE  /\ Sound(open'[d]) /\ GoesOn(disk', open'[d]) /\ Caused(open'[d])
                      /\ \A m \in Messages \ (torn' \cup Pending(d)') : Told(open'[d], m)
    BY DEF OpenSound
  <2>1. CASE d = c
    <3>1. GoesOn(disk, e)
      BY <1>1, SeenContents, GoesOnFurther
    <3> QED
      BY <2>1, <3>1, <1>2
  <2>2. CASE d # c
    <3>1. open'[d] = open[d] /\ Pending(d)' = Pending(d)
      BY <2>2, <1>2 DEF Pending
    <3> QED
      BY <3>1 DEF OpenSound
  <2> QED
    BY <2>1, <2>2
<1> QED
  BY <1>4, <1>5, <1>6, <1>7, <1>8

LEMMA StartStep ==
  ASSUME StoreInv, NEW c \in Threads, NEW op, NEW x, NEW at, Start(c, op, x, at),
         [at |-> at, op |-> op, x |-> x] \in Jobs, at \in {"row", "look"},
         op = "message" => c = Loop /\ x # <<>>, found' \subseteq Topics
  PROVE  StoreInv'
<1>1. job[c].at = "idle"
  BY DEF Start, Idle
<1> QED
  BY <1>1, JobStep DEF Start

LEMMA LookStep ==
  ASSUME StoreInv, NEW c \in Threads, Look(c)
  PROVE  StoreInv'
<1> DEFINE b == Seen(c).chat = "archived"
           j == [job[c] EXCEPT !.at = "row", !.x.archived = b]
<1>1. job \in [Threads -> Jobs] /\ found \subseteq Topics
  BY DEF StoreInv, ConnectionsTypeOK
<1>2. job[c].at = "look" /\ job' = [job EXCEPT ![c] = j] /\ UNCHANGED <<disk, open, found, client, faults, torn>>
  BY DEF Look
<1>3. job[c] \in [at : {"look", "row", "commit"}, op : {"topic"}, x : [topic : Topics, archived : BOOLEAN]]
  BY <1>1, <1>2, JobShape
<1>4. b \in BOOLEAN
  OBVIOUS
<1> HIDE DEF b
<1>5. j \in Jobs /\ j.at = "row" /\ j.op = "topic"
  BY <1>3, <1>4 DEF Jobs
<1> HIDE DEF j
<1> QED
  BY <1>1, <1>2, <1>5, JobStep

LEMMA RowStep ==
  ASSUME StoreInv, NEW c \in Threads, Row(c)
  PROVE  StoreInv'
<1>1. job \in [Threads -> Jobs] /\ open \in [Threads -> Contents \cup {Nothing}]
  BY DEF StoreInv, ConnectionsTypeOK
<1>2. job[c].at = "row" /\ Free(c) /\ UNCHANGED <<disk, found, client, faults, torn>>
  BY DEF Row
<1>3. job[c] # Idle /\ Pending(c) = {}
  BY <1>2 DEF Idle, Pending
<1>4. /\ Seen(c) \in Contents /\ Sound(Seen(c)) /\ Caused(Seen(c))
      /\ \A m \in Messages \ torn : Told(Seen(c), m)
  BY <1>3, SeenContents
<1>5. CASE job[c].op = "message"
  <2> DEFINE m == Head(job[c].x)
             e == Changed(Seen(c), m)
             j == [job[c] EXCEPT !.at = "event"]
  <2>1. open' = [open EXCEPT ![c] = e] /\ job' = [job EXCEPT ![c] = j]
    BY <1>5 DEF Row, Goto
  <2>2. /\ job[c] \in [at : {"row", "event", "commit"}, op : {"message"}, x : Seq(Messages)]
        /\ job[c].x \in Seq(Messages)
    BY <1>1, <1>2, <1>5, JobShape
  <2>3. job[c].x # <<>> /\ c = Loop
    BY <1>2, <1>3, <1>5 DEF StoreInv, InTransaction
  <2>4. m \in Messages
    BY <2>2, <2>3
  <2>5. j \in Jobs /\ j.at = "event" /\ j.op = "message" /\ j.x = job[c].x
    BY <2>2 DEF Jobs
  <2>6. j # Idle
    BY <2>5 DEF Idle
  <2>7. Pending(c)' = {m}
    BY <1>1, <2>1, <2>5 DEF Pending
  <2> HIDE DEF m, j
  <2>8. /\ e \in Contents /\ Sound(e) /\ Caused(e) /\ GoesOn(Seen(c), e)
        /\ \A k \in Messages \ {m} : Told(Seen(c), k) => Told(e, k)
    BY <1>4, <2>4, ChangedContents
  <2>9. \A k \in Messages \ (torn \cup Pending(c)') : Told(e, k)
    BY <1>4, <2>7, <2>8
  <2> HIDE DEF e
  <2> QED
    BY <1>2, <1>3, <2>1, <2>3, <2>5, <2>6, <2>8, <2>9, StatementStep
<1>6. CASE job[c].op # "message"
  <2> DEFINE o == job[c].op
             x == job[c].x
             j == [job[c] EXCEPT !.at = "commit"]
             e == CASE o = "note" -> Seen(c)
                    [] o = "chat" -> [Seen(c) EXCEPT !.chat = IF @ = "absent" THEN "kept" ELSE @]
                    [] o = "topic" -> Stored(Seen(c), x)
                    [] OTHER -> Managed(Seen(c), o, x)
  <2>1. open' = [open EXCEPT ![c] = e] /\ job' = [job EXCEPT ![c] = j]
    BY <1>6 DEF Row, Goto
  <2>2. \/ /\ job[c] \in [at : {"row", "commit"}, op : {"note", "chat", "archived", "kept", "delete"}, x : Topics \cup {Nothing}]
           /\ o \in {"note", "chat", "archived", "kept", "delete"} /\ x \in Topics \cup {Nothing}
        \/ /\ job[c] \in [at : {"look", "row", "commit"}, op : {"topic"}, x : [topic : Topics, archived : BOOLEAN]]
           /\ o = "topic" /\ x \in [topic : Topics, archived : BOOLEAN]
    BY <1>1, <1>3, <1>6, JobShape
  <2>3. j \in Jobs /\ j.at = "commit" /\ j.op = o
    BY <2>2 DEF Jobs
  <2>4. j # Idle
    BY <2>3 DEF Idle
  <2>5. Pending(c)' = {}
    BY <1>1, <2>1, <2>3 DEF Pending
  <2>6. Same(Seen(c), e)
    <3>1. CASE o = "note"
      BY <3>1, <1>4 DEF Same
    <3>2. CASE o = "chat"
      BY <3>2, <1>4, ChatContents
    <3>3. CASE o = "topic"
      BY <3>3, <2>2, <1>4, StoredContents
    <3>4. CASE o \in {"archived", "kept", "delete"}
      BY <3>4, <2>2, <1>4, ManagedContents
    <3> QED
      BY <2>2, <3>1, <3>2, <3>3, <3>4
  <2> HIDE DEF e, j
  <2>7. /\ e \in Contents /\ Sound(e) /\ Caused(e) /\ GoesOn(Seen(c), e)
        /\ \A k \in Messages \ torn : Told(e, k)
    <3>1. e \in Contents /\ Caused(e) /\ e.rows = Seen(c).rows /\ e.events = Seen(c).events
      BY <2>6 DEF Same
    <3>2. GoesOn(Seen(c), e)
      BY <3>1, <1>4, GoesOnSame DEF GoesOn
    <3> QED
      BY <3>1, <3>2, <1>4 DEF Sound, Told
  <2> QED
    BY <1>2, <1>3, <1>6, <2>1, <2>3, <2>4, <2>5, <2>7, StatementStep
<1> QED
  BY <1>5, <1>6

LEMMA EventStep ==
  ASSUME StoreInv, NEW c \in Threads, Event(c)
  PROVE  StoreInv'
<1> DEFINE m == Head(job[c].x)
           e == Logged(open[c], m)
           l == IF Tail(job[c].x) = <<>> THEN "commit" ELSE "row"
           j == [job[c] EXCEPT !.x = Tail(job[c].x), !.at = l]
<1>1. job \in [Threads -> Jobs] /\ open \in [Threads -> Contents \cup {Nothing}]
  BY DEF StoreInv, ConnectionsTypeOK
<1>2. /\ job[c].at = "event" /\ open' = [open EXCEPT ![c] = e] /\ job' = [job EXCEPT ![c] = j]
      /\ UNCHANGED <<disk, found, client, faults, torn>>
  BY DEF Event
<1>3. job[c] # Idle /\ open[c] # Nothing /\ Pending(c) = {m}
  BY <1>2 DEF Idle, Pending, StoreInv, InTransaction
<1>4. /\ job[c] \in [at : {"row", "event", "commit"}, op : {"message"}, x : Seq(Messages)]
      /\ job[c].x \in Seq(Messages) /\ job[c].op = "message"
  BY <1>1, <1>2, <1>3, JobShape
<1>5. job[c].x # <<>> /\ c = Loop
  BY <1>2, <1>3, <1>4 DEF StoreInv, InTransaction
<1>6. m \in Messages /\ Tail(job[c].x) \in Seq(Messages)
  BY <1>4, <1>5
<1>7. Seen(c) = open[c]
  BY <1>3 DEF Seen
<1>8. /\ Seen(c) \in Contents /\ Sound(Seen(c)) /\ Caused(Seen(c))
      /\ \A k \in Messages \ (torn \cup {m}) : Told(Seen(c), k)
  BY <1>3, SeenContents
<1>9. j \in Jobs /\ j.op = "message" /\ j.at = l /\ j.x = Tail(job[c].x)
  BY <1>4, <1>6 DEF Jobs
<1>10. l \in {"row", "commit"} /\ (l = "row" => Tail(job[c].x) # <<>>)
  OBVIOUS
<1>11. Pending(c)' = {}
  BY <1>1, <1>2, <1>9, <1>10 DEF Pending
<1>12. j # Idle
  BY <1>9, <1>10 DEF Idle
<1>13. /\ e \in Contents /\ Sound(e) /\ Caused(e) /\ GoesOn(Seen(c), e) /\ Told(e, m)
       /\ \A k \in Messages : Told(Seen(c), k) => Told(e, k)
  BY <1>6, <1>7, <1>8, LoggedContents
<1> HIDE DEF e, j, l, m
<1>14. \A k \in Messages \ (torn \cup Pending(c)') : Told(e, k)
  BY <1>8, <1>11, <1>13
<1> QED
  BY <1>2, <1>3, <1>5, <1>9, <1>10, <1>12, <1>13, <1>14, StatementStep

LEMMA CommitStep ==
  ASSUME StoreInv, NEW c \in Threads, Commit(c)
  PROVE  StoreInv' /\ GoesOn(disk, disk') /\ disk' \in Contents
<1> USE DEF StoreInv
<1>1. job \in [Threads -> Jobs] /\ open \in [Threads -> Contents \cup {Nothing}] /\ disk \in Contents
  BY DEF ConnectionsTypeOK
<1>2. /\ job[c].at = "commit" /\ disk' = open[c] /\ open' = [open EXCEPT ![c] = Nothing]
      /\ job' = [job EXCEPT ![c] = Idle] /\ found' \in {found, Topics} /\ UNCHANGED <<client, faults, torn>>
  BY DEF Commit, Closed
<1>3. open[c] # Nothing /\ Pending(c) = {}
  BY <1>2 DEF InTransaction, Pending
<1>4. Idle \in Jobs /\ Idle.at = "idle"
  BY DEF Jobs, Idle
<1>5. \A d \in Threads : open'[d] = Nothing
  BY <1>1, <1>2, <1>3 DEF OneWriter
<1>6. ConnectionsTypeOK'
  BY <1>1, <1>2, <1>3, <1>4 DEF ConnectionsTypeOK
<1>7. InTransaction'
  <2> SUFFICES ASSUME NEW d \in Threads
               PROVE  /\ job'[d].at \in {"event", "commit"} => open'[d] # Nothing
                      /\ job'[d] # Idle /\ job'[d].op = "message"
                           => d = Loop /\ (job'[d].at # "commit" => job'[d].x # <<>>)
    BY DEF InTransaction
  <2>1. CASE d = c
    BY <2>1, <1>1, <1>2, <1>4
  <2>2. CASE d # c
    <3>1. job'[d] = job[d] /\ open[d] = Nothing
      BY <2>2, <1>1, <1>2, <1>3 DEF OneWriter
    <3> QED
      BY <3>1 DEF InTransaction
  <2> QED
    BY <2>1, <2>2
<1>8. OneWriter' /\ OpenSound'
  BY <1>5 DEF OneWriter, OpenSound
<1>9. DiskSound' /\ GoesOn(disk, disk')
  BY <1>2, <1>3 DEF OpenSound, DiskSound
<1> QED
  BY <1>6, <1>7, <1>8, <1>9, <1>1, <1>2, <1>3

LEMMA CrashStep == StoreInv /\ Crash => StoreInv'
<1> SUFFICES ASSUME StoreInv, Crash PROVE StoreInv'
  OBVIOUS
<1> USE DEF StoreInv, Crash
<1>1. Idle \in Jobs /\ Idle.at = "idle"
  BY DEF Jobs, Idle
<1>2. ConnectionsTypeOK'
  BY <1>1 DEF ConnectionsTypeOK
<1>3. InTransaction' /\ OneWriter' /\ OpenSound' /\ DiskSound'
  BY <1>1 DEF InTransaction, OneWriter, OpenSound, DiskSound
<1> QED
  BY <1>2, <1>3

-----------------------------------------------------------------------------
(* The client.                                                             *)
LEMMA EventFields ==
  ASSUME NEW d \in Contents, NEW i \in 1 .. Len(d.events)
  PROVE  d.events[i].message \in Messages /\ d.events[i].version \in Nat
<1>1. d.events[i] \in Events
  BY ContentsFields
<1> QED
  BY <1>1 DEF Events

LEMMA AfterEvents ==
  ASSUME disk \in Contents, NEW k \in Nat, k <= Len(disk.events)
  PROVE  /\ Len(After(k)) \in Nat /\ k + Len(After(k)) <= Len(disk.events)
         /\ DOMAIN After(k) = 1 .. Len(After(k))
         /\ \A i \in 1 .. Len(After(k)) : After(k)[i] = disk.events[k + i]
<1> DEFINE n == Len(disk.events)
           later == SubSeq(disk.events, k + 1, n)
<1>1. n \in Nat /\ disk.events \in Seq(Events)
  BY ContentsFields
<1>2. /\ later \in Seq(Events) /\ Len(later) = n - k
      /\ \A i \in 1 .. n - k : later[i] = disk.events[k + i]
  BY <1>1
<1>3. CASE Len(later) <= PageSize
  <2>1. After(k) = later
    BY <1>3 DEF After
  <2> QED
    BY <2>1, <1>1, <1>2
<1>4. CASE ~(Len(later) <= PageSize)
  <2>1. After(k) = SubSeq(later, 1, PageSize)
    BY <1>4 DEF After
  <2>2. PageSize \in Nat /\ PageSize < n - k
    BY <1>1, <1>2, <1>4, ConnectionsAssumption
  <2>3. /\ After(k) \in Seq(Events) /\ Len(After(k)) = PageSize
        /\ \A i \in 1 .. PageSize : After(k)[i] = later[i]
    BY <2>1, <2>2, <1>1, <1>2
  <2>4. \A i \in 1 .. PageSize : After(k)[i] = disk.events[k + i]
    BY <2>2, <2>3, <1>1, <1>2
  <2> QED
    BY <2>2, <2>3, <2>4, <1>1
<1> QED
  BY <1>3, <1>4

(* Whatever goes on from what the client knows keeps it true. *)
LEMMA ClientKept ==
  ASSUME disk \in Contents, disk' \in Contents, GoesOn(disk, disk'), client' = client,
         client.cursor \in Nat, client.rows \in [Messages -> Nat],
         client.page = Nothing \/ \E S \in SUBSET Messages : client.page \in PagesOf(S), ClientInv
  PROVE  ClientInv'
<1> USE DEF ClientInv
<1>1. Len(disk.events) \in Nat /\ Len(disk'.events) \in Nat
  BY ContentsFields
<1>2. \A m \in Messages : disk.rows[m] \in Nat /\ disk'.rows[m] \in Nat /\ disk.rows[m] <= disk'.rows[m]
  BY ContentsFields DEF GoesOn
<1>3. \A i \in 1 .. Len(disk.events) : disk'.events[i] = disk.events[i]
  BY DEF GoesOn
<1>4. Len(disk.events) <= Len(disk'.events)
  BY DEF GoesOn
<1>5. ClientBehind'
  <2>1. client.cursor <= Len(disk'.events)
    BY <1>1, <1>4 DEF ClientBehind
  <2>2. \A m \in Messages : client.rows[m] <= disk'.rows[m]
    BY <1>2 DEF ClientBehind
  <2>3. \A i \in 1 .. client.cursor : i \in 1 .. Len(disk.events)
    BY <1>1 DEF ClientBehind
  <2>4. NothingSkipped'
    BY <2>3, <1>3 DEF ClientBehind, NothingSkipped
  <2> QED
    BY <2>1, <2>2, <2>4 DEF ClientBehind
<1>6. ASSUME client.page # Nothing PROVE PageSound'
  <2> PICK S \in SUBSET Messages : client.page \in PagesOf(S)
    BY <1>6
  <2>1. client.page.next \in Nat /\ client.page.rows \in [S -> Nat] /\ DOMAIN client.page.rows = S
    BY DEF PagesOf
  <2>2. client.page.next <= Len(disk.events)
    BY <1>6 DEF PageSound
  <2>3. \A m \in S : client.rows[m] <= client.page.rows[m] /\ client.page.rows[m] <= disk'.rows[m]
    <3> SUFFICES ASSUME NEW m \in S
                 PROVE  client.rows[m] <= client.page.rows[m] /\ client.page.rows[m] <= disk'.rows[m]
      OBVIOUS
    <3>1. client.rows[m] <= client.page.rows[m] /\ client.page.rows[m] <= disk.rows[m]
      BY <1>6, <2>1 DEF PageSound
    <3>2. client.page.rows[m] \in Nat
      BY <2>1
    <3> QED
      BY <3>1, <3>2, <1>2
  <2>4. \A i \in 1 .. Len(disk'.events) : i <= client.page.next => i \in 1 .. Len(disk.events)
    BY <1>1, <2>1, <2>2
  <2>5. client.page.next <= Len(disk'.events)
    BY <1>1, <1>4, <2>1, <2>2
  <2>6. \A i \in 1 .. Len(disk'.events) : client.cursor < i /\ i <= client.page.next =>
          /\ disk'.events[i].message \in DOMAIN client.page.rows
          /\ disk'.events[i].version <= client.page.rows[disk'.events[i].message]
    BY <1>3, <1>6, <2>4 DEF PageSound
  <2> QED
    BY <2>1, <2>3, <2>5, <2>6 DEF PageSound
<1> QED
  BY <1>5, <1>6 DEF PageSound

LEMMA FetchStep ==
  ASSUME IInv, Fetch
  PROVE  IInv'
<1> USE DEF IInv
<1> DEFINE k == client.cursor
           n == Len(After(k))
           S == {e.message : e \in ToSet(After(k))}
           page == [rows |-> [m \in S |-> disk.rows[m]], next |-> k + n]
<1>1. /\ disk \in Contents /\ k \in Nat /\ client.rows \in [Messages -> Nat]
      /\ client = [cursor |-> client.cursor, rows |-> client.rows, page |-> client.page]
  BY DEF ConnectionsTypeOK
<1>2. k <= Len(disk.events)
  BY DEF ClientBehind
<1>3. /\ n \in Nat /\ k + n <= Len(disk.events) /\ DOMAIN After(k) = 1 .. n
      /\ \A i \in 1 .. n : After(k)[i] = disk.events[k + i]
  BY <1>1, <1>2, AfterEvents
<1>4. \A i \in 1 .. n : k + i \in 1 .. Len(disk.events)
  BY <1>1, <1>3, ContentsFields
<1>5. S = {disk.events[k + i].message : i \in 1 .. n}
  BY <1>3 DEF ToSet
<1>6. S \subseteq Messages
  BY <1>1, <1>4, <1>5, EventFields
<1>7. page \in PagesOf(S) /\ page.next = k + n /\ page.rows = [m \in S |-> disk.rows[m]] /\ DOMAIN page.rows = S
  BY <1>1, <1>3, <1>6, ContentsFields DEF PagesOf
<1>8. /\ client' = [client EXCEPT !.page = page] /\ UNCHANGED <<disk, open, job, found, faults, torn>>
  BY DEF Fetch, Page, Answered
<1> HIDE DEF page, S, n
<1>9. client'.cursor = k /\ client'.rows = client.rows /\ client'.page = page
      /\ client' = [cursor |-> k, rows |-> client.rows, page |-> page]
  BY <1>1, <1>8
<1>10. ConnectionsTypeOK'
  BY <1>1, <1>6, <1>7, <1>8, <1>9 DEF ConnectionsTypeOK
<1>11. InTransaction' /\ OneWriter' /\ DiskSound' /\ OpenSound'
  BY <1>8 DEF InTransaction, OneWriter, DiskSound, OpenSound, Pending
<1>12. ClientBehind'
  BY <1>8, <1>9 DEF ClientBehind, NothingSkipped
<1>13. PageSound'
  <2>1. page.next <= Len(disk.events)
    BY <1>3, <1>7
  <2>2. \A m \in S : client.rows[m] <= page.rows[m] /\ page.rows[m] <= disk.rows[m]
    BY <1>1, <1>6, <1>7, ContentsFields DEF ClientBehind
  <2>3. ASSUME NEW i \in 1 .. Len(disk.events), k < i, i <= page.next
        PROVE  disk.events[i].message \in S /\ disk.events[i].version <= page.rows[disk.events[i].message]
    <3>1. i - k \in 1 .. n /\ k + (i - k) = i
      BY <2>3, <1>1, <1>3, <1>7, ContentsFields
    <3>2. disk.events[i].message \in S
      BY <3>1, <1>5
    <3>3. disk.events[i].version <= disk.rows[disk.events[i].message]
      BY DEF DiskSound, Sound
    <3> QED
      BY <3>2, <3>3, <1>7
  <2> QED
    BY <2>1, <2>2, <2>3, <1>7, <1>8, <1>9 DEF PageSound
<1> QED
  BY <1>10, <1>11, <1>12, <1>13

LEMMA ApplyStep ==
  ASSUME IInv, Apply
  PROVE  IInv'
<1> USE DEF IInv
<1> DEFINE page == client.page
           rows == Updated(client.rows, page.rows)
<1>1. /\ disk \in Contents /\ client.cursor \in Nat /\ client.rows \in [Messages -> Nat]
      /\ client = [cursor |-> client.cursor, rows |-> client.rows, page |-> client.page]
      /\ page = Nothing \/ \E S \in SUBSET Messages : page \in PagesOf(S)
  BY DEF ConnectionsTypeOK
<1>2. page # Nothing /\ UNCHANGED <<disk, open, job, found, faults, torn>>
  BY DEF Apply
<1> PICK S \in SUBSET Messages : page \in PagesOf(S)
  BY <1>1, <1>2
<1>3. page.next \in Nat /\ page.rows \in [S -> Nat] /\ DOMAIN page.rows = S
  BY DEF PagesOf
<1> PICK saved \in BOOLEAN :
      client' = [client EXCEPT !.rows = rows, !.page = Nothing,
                               !.cursor = IF saved THEN page.next ELSE @]
  BY DEF Apply
<1>4. /\ client' = [cursor |-> IF saved THEN page.next ELSE client.cursor, rows |-> rows, page |-> Nothing]
      /\ client'.cursor = IF saved THEN page.next ELSE client.cursor
      /\ client'.rows = rows /\ client'.page = Nothing
  BY <1>1
<1>5. rows = [m \in Messages |-> IF m \in S THEN page.rows[m] ELSE client.rows[m]]
  BY <1>3 DEF Updated
<1> HIDE DEF rows
<1>6. \A m \in Messages : rows[m] \in Nat /\ client.rows[m] <= rows[m] /\ rows[m] <= disk.rows[m]
  <2> SUFFICES ASSUME NEW m \in Messages
               PROVE  rows[m] \in Nat /\ client.rows[m] <= rows[m] /\ rows[m] <= disk.rows[m]
    OBVIOUS
  <2>1. CASE m \in S
    BY <2>1, <1>2, <1>3, <1>5 DEF PageSound
  <2>2. CASE m \notin S
    BY <2>2, <1>1, <1>5 DEF ClientBehind
  <2> QED
    BY <2>1, <2>2
<1>7. rows \in [Messages -> Nat]
  BY <1>5, <1>6
<1>8. ConnectionsTypeOK'
  BY <1>1, <1>2, <1>3, <1>4, <1>7 DEF ConnectionsTypeOK
<1>9. InTransaction' /\ OneWriter' /\ DiskSound' /\ OpenSound'
  BY <1>2 DEF InTransaction, OneWriter, DiskSound, OpenSound, Pending
<1>10. client'.cursor <= Len(disk.events)
  BY <1>2, <1>4 DEF ClientBehind, PageSound
<1>11. NothingSkipped'
  <2> SUFFICES ASSUME NEW i \in 1 .. client'.cursor
               PROVE  rows[disk.events[i].message] >= disk.events[i].version
    BY <1>2, <1>4 DEF NothingSkipped
  <2>1. i \in 1 .. Len(disk.events)
    BY <1>1, <1>3, <1>4, <1>10, ContentsFields
  <2>2. disk.events[i].message \in Messages /\ disk.events[i].version \in Nat
    BY <2>1, <1>1, EventFields
  <2>3. CASE i <= client.cursor
    <3>1. client.rows[disk.events[i].message] >= disk.events[i].version
      BY <2>3, <1>1 DEF ClientBehind, NothingSkipped
    <3> QED
      BY <3>1, <2>2, <1>1, <1>6
  <2>4. CASE ~(i <= client.cursor)
    <3>1. client.cursor < i /\ i <= page.next
      BY <2>4, <1>1, <1>3, <1>4
    <3>2. disk.events[i].message \in S /\ disk.events[i].version <= page.rows[disk.events[i].message]
      BY <3>1, <2>1, <1>2, <1>3 DEF PageSound
    <3> QED
      BY <3>2, <2>2, <1>3, <1>5
  <2> QED
    BY <2>3, <2>4
<1>12. ClientBehind' /\ PageSound'
  BY <1>2, <1>4, <1>6, <1>10, <1>11 DEF ClientBehind, PageSound
<1> QED
  BY <1>8, <1>9, <1>12

-----------------------------------------------------------------------------
LEMMA InvInit == Init => IInv
<1> SUFFICES ASSUME Init PROVE IInv
  OBVIOUS
<1> USE DEF Init
<1>1. /\ disk = [rows |-> [m \in Messages |-> 0], events |-> <<>>, chat |-> "absent",
                 topics |-> [t \in Topics |-> "absent"], restored |-> {}, raced |-> {}]
      /\ disk.events = <<>> /\ disk.rows = [m \in Messages |-> 0] /\ disk.chat = "absent"
  OBVIOUS
<1>2. disk \in Contents
  BY <1>1 DEF Contents, Status
<1>3. client.cursor = 0 /\ client.rows = [m \in Messages |-> 0] /\ client.page = Nothing
  OBVIOUS
<1>4. ConnectionsTypeOK
  BY <1>2, <1>3 DEF ConnectionsTypeOK, Jobs
<1>5. InTransaction /\ OneWriter /\ OpenSound
  BY DEF InTransaction, OneWriter, OpenSound, Idle
<1>6. DiskSound
  BY <1>1 DEF DiskSound, Sound, Caused, Told
<1>7. ClientBehind /\ PageSound
  BY <1>1, <1>3 DEF ClientBehind, NothingSkipped, PageSound
<1> QED
  BY <1>4, <1>5, <1>6, <1>7 DEF IInv

LEMMA InvNext == IInv /\ [Next]_vars => IInv'
<1> SUFFICES ASSUME IInv, [Next]_vars PROVE IInv'
  OBVIOUS
<1>t. StoreInv /\ ClientInv
  BY DEF IInv, StoreInv, ClientInv
<1>f. found \subseteq Topics /\ faults \in Nat /\ disk \in Contents
  BY DEF IInv, ConnectionsTypeOK
<1>c. ASSUME StoreInv', disk' \in Contents, GoesOn(disk, disk'), client' = client PROVE IInv'
  <2>1. ClientInv'
    BY <1>c, <1>t, <1>f, ClientKept DEF StoreInv, ConnectionsTypeOK
  <2> QED
    BY <2>1, <1>c DEF IInv, StoreInv, ClientInv
<1>s. ASSUME StoreInv', disk' = disk, client' = client PROVE IInv'
  BY <1>s, <1>c, <1>f, GoesOnSame
<1>u. CASE UNCHANGED vars
  BY <1>u DEF vars, IInv, ConnectionsTypeOK, InTransaction, OneWriter, DiskSound, OpenSound, Pending,
     ClientBehind, NothingSkipped, PageSound
<1>1. ASSUME NEW n \in 1 .. 2, NEW ms \in [1 .. n -> Messages], Change(ms) PROVE IInv'
  <2>1. ms \in Seq(Messages) /\ ms # <<>>
    OBVIOUS
  <2>2. [at |-> "row", op |-> "message", x |-> ms] \in Jobs
    BY <2>1 DEF Jobs
  <2>3. Loop \in Threads
    BY DEF Threads
  <2> QED
    BY <1>1, <1>t, <1>f, <1>s, <2>1, <2>2, <2>3, StartStep DEF Change, Start
<1>2. CASE Note \/ DiscoverChat
  <2>1. \A o \in {"note", "chat"} : [at |-> "row", op |-> o, x |-> Nothing] \in Jobs
    BY DEF Jobs
  <2>2. Loop \in Threads
    BY DEF Threads
  <2>3. CASE Note
    <3>1. Start(Loop, "note", Nothing, "row") /\ found' \subseteq Topics
      BY <2>3, <1>f DEF Note
    <3>2. StoreInv'
      BY <3>1, <2>1, <2>2, <1>t, StartStep
    <3> QED
      BY <3>1, <3>2, <1>s DEF Start
  <2>4. CASE DiscoverChat
    <3>1. Start(Loop, "chat", Nothing, "row") /\ found' \subseteq Topics
      BY <2>4, <1>f DEF DiscoverChat
    <3>2. StoreInv'
      BY <3>1, <2>1, <2>2, <1>t, StartStep
    <3> QED
      BY <3>1, <3>2, <1>s DEF Start
  <2> QED
    BY <1>2, <2>3, <2>4
<1>3. ASSUME NEW t \in Topics, DiscoverTopic(t) PROVE IInv'
  <2>1. [at |-> "look", op |-> "topic", x |-> [topic |-> t, archived |-> FALSE]] \in Jobs
    BY DEF Jobs
  <2>2. Loop \in Threads
    BY DEF Threads
  <2>3. Start(Loop, "topic", [topic |-> t, archived |-> FALSE], "look") /\ found' \subseteq Topics
    BY <1>3, <1>f DEF DiscoverTopic
  <2>4. StoreInv'
    BY <2>1, <2>2, <2>3, <1>t, StartStep
  <2> QED
    BY <2>3, <2>4, <1>s DEF Start
<1>4. ASSUME NEW c \in Requests, NEW op \in {"archived", "kept", "delete"}, NEW t \in Topics \cup {Nothing},
             Ask(c, op, t)
      PROVE  IInv'
  <2>1. [at |-> "row", op |-> op, x |-> t] \in Jobs /\ c \in Threads
    BY DEF Jobs, Threads
  <2> QED
    BY <1>4, <2>1, <1>t, <1>f, <1>s, StartStep DEF Ask, Start
<1>5. ASSUME NEW c \in Threads, Write(c) PROVE IInv'
  <2>1. CASE Look(c)
    BY <2>1, <1>t, <1>s, LookStep DEF Look
  <2>2. CASE Row(c)
    BY <2>2, <1>t, <1>s, RowStep DEF Row
  <2>3. CASE Event(c)
    BY <2>3, <1>t, <1>s, EventStep DEF Event
  <2>4. CASE Commit(c)
    BY <2>4, <1>t, <1>c, CommitStep DEF Commit
  <2>5. CASE Fail(c) \/ LockedOut(c)
    <3>1. GiveUp(c) /\ job[c] # Idle /\ faults' \in Nat
      BY <2>5, <1>f DEF Fail, LockedOut, Idle
    <3> QED
      BY <3>1, <1>t, <1>s, GiveUpStep DEF GiveUp
  <2> QED
    BY <1>5, <2>1, <2>2, <2>3, <2>4, <2>5 DEF Write
<1>6. CASE Crash
  BY <1>6, <1>t, <1>s, CrashStep DEF Crash
<1>7. CASE Fetch
  BY <1>7, FetchStep
<1>8. CASE Apply
  BY <1>8, ApplyStep
<1>9. CASE \E ms \in UNION {[1 .. n -> Messages] : n \in 1 .. 2} : IsInjective(ms) /\ CanChange(ms) /\ Change(ms)
  <2> PICK ms \in UNION {[1 .. n -> Messages] : n \in 1 .. 2} : Change(ms)
    BY <1>9
  <2> PICK n \in 1 .. 2 : ms \in [1 .. n -> Messages]
    OBVIOUS
  <2> QED
    BY <1>1
<1> QED
  BY <1>u, <1>2, <1>3, <1>4, <1>5, <1>6, <1>7, <1>8, <1>9 DEF Next

LEMMA InvHolds == Spec => []IInv
BY InvInit, InvNext, PTL DEF Spec

(* No event up to the saved cursor is lost on the client, whatever the     *)
(* threads, failed statements and crashes on both sides did.               *)
THEOREM FeedSkipsNothing == Spec => []NothingSkipped
<1>1. IInv => NothingSkipped
  BY DEF IInv, ClientBehind
<1> QED
  BY InvHolds, <1>1, PTL

(* A client that is through has the rows of the archive, except those the  *)
(* event of which could not be written.                                    *)
THEOREM FeedMirrors == Spec => []MirrorExact
<1>1. IInv => MirrorExact
  <2> SUFFICES ASSUME IInv, client.cursor = Len(disk.events), NEW m \in Messages \ torn
               PROVE  client.rows[m] = disk.rows[m]
    BY DEF MirrorExact
  <2>1. client.rows[m] \in Nat /\ disk.rows[m] \in Nat /\ client.rows[m] <= disk.rows[m]
    BY ContentsFields DEF IInv, ConnectionsTypeOK, ClientBehind
  <2>2. CASE disk.rows[m] = 0
    BY <2>1, <2>2
  <2>3. CASE disk.rows[m] # 0
    <3>1. Told(disk, m)
      BY DEF IInv, DiskSound
    <3> PICK i \in 1 .. Len(disk.events) : disk.events[i] = [message |-> m, version |-> disk.rows[m]]
      BY <3>1, <2>3 DEF Told
    <3>2. client.rows[m] >= disk.rows[m]
      BY DEF IInv, ClientBehind, NothingSkipped
    <3> QED
      BY <2>1, <3>2
  <2> QED
    BY <2>2, <2>3
<1> QED
  BY InvHolds, <1>1, PTL

(* A topic of an archived chat is active only if it was restored by        *)
(* itself, or stored while its chat was being archived.                    *)
THEOREM StraysAreCaused == Spec => []StrayHasCause
<1>1. IInv => StrayHasCause
  BY DEF IInv, DiskSound, Caused, StrayHasCause, Stray
<1> QED
  BY InvHolds, <1>1, PTL
=============================================================================
