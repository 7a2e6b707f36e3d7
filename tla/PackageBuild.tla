---------------------------- MODULE PackageBuild ----------------------------
(***************************************************************************)
(* build_daily_package.  One execution selects the origins of the package, *)
(* groups them by their tags, reads the messages of each in pages while    *)
(* the ingestion goes on storing messages of the same day, and at last     *)
(* gives every message to one point origin.                                *)
(*                                                                         *)
(* An origin is a pair of a chat and a topic; topic 0 is the whole chat,   *)
(* whose messages are those of its topics too.  A message is a number, its *)
(* place in the order of list_messages_for_origin_window.  All of them lie *)
(* in the window of the package, and no row ever leaves the archive.       *)
(***************************************************************************)
EXTENDS Naturals, Sequences, FiniteSets, SequencesExt

CONSTANTS
  Listing,      \* the origins in the order of list_origins
  Policies,     \* what a row says of an origin: enabled, tags, important
  Scopes,       \* the origins, tags and explicit tag groups a run may ask for
  MsgChat,      \* chat of each message
  MsgTopic,     \* its topic, or 0
  PageSize,     \* PACKAGE_MESSAGE_PAGE_SIZE
  MaxLate       \* bound: messages that are stored after the beginning

Origins == ToSet(Listing)
Messages == DOMAIN MsgChat

ASSUME PackageAssumption ==
  /\ PageSize \in Nat \ {0} /\ MaxLate \in Nat
  /\ DOMAIN MsgTopic = Messages /\ Messages \subseteq Nat /\ IsFiniteSet(Messages)
  /\ Listing \in Seq(Origins) /\ IsInjective(Listing)
  /\ \A wanted \in Scopes :
       /\ wanted.groups \in Seq(ToSet(wanted.groups))
       /\ \A tags \in ToSet(wanted.groups) : tags # {} /\ IsFiniteSet(tags)

VARIABLES
  policy,   \* the policy and the importance of each origin
  scope,    \* what the run was asked for
  archive,  \* the stored messages
  stage,    \* where the execution is
  items,    \* selected_origins
  probing,  \* selected origins _origin_has_messages has not looked for yet
  units,    \* groups, important origins and unmatched origins, in order
  rows,     \* what the paging of the current origin has read
  packaged, \* packaged_origins
  points,   \* point_packages
  run,      \* the row of the run
  canceled, \* has somebody asked for the job to be canceled?
  known,    \* archive when the origins were selected
  grown     \* origins that got a message while they were paged

vars == <<policy, scope, archive, stage, items, probing, units, rows,
          packaged, points, run, canceled, known, grown>>

asked == <<policy, scope>>
built == <<items, probing, units, rows, packaged, points>>

-----------------------------------------------------------------------------
(* The elements of S in their order, below[x] being those before x.  (The  *)
(* sorting and selecting operators of the libraries are recursive or use a *)
(* sequence nothing is known of; these can be proved about.)               *)
Ordered(S, below) == [k \in 1 .. Cardinality(S) |-> CHOOSE x \in S : Cardinality(below[x]) = k - 1]

Ascending(S) == Ordered(S, [x \in S |-> {y \in S : y < x}])

(* The elements of s at the places in I. *)
Filtered(s, I) == LET at == Ascending(I) IN [k \in DOMAIN at |-> s[at[k]]]

Chat(o) == o[1]
Topic(o) == o[2]
IsTopic(o) == Topic(o) # 0
Parent(o) == <<Chat(o), 0>>

Holds(o, m) == MsgChat[m] = Chat(o) /\ (IsTopic(o) => MsgTopic[m] = Topic(o))

(* list_messages_for_origin_window without a limit. *)
Rows(o) == Ascending({m \in archive : Holds(o, m)})

(* Mutation: a page begins with the last message of the one before. *)
OverlappingPage(o, offset) ==
  LET r == Rows(o)
  IN  SubSeq(r, IF offset = 0 THEN 1 ELSE offset,
             IF offset + PageSize < Len(r) THEN offset + PageSize ELSE Len(r))

Page(o, offset) ==
  LET r == Rows(o) IN SubSeq(r, offset + 1, IF offset + PageSize < Len(r) THEN offset + PageSize ELSE Len(r))

ParentTags(o) == IF Parent(o) \in Origins THEN policy[Parent(o)].tags ELSE <<>>

OwnGrouping(o) ==
  policy[o].important
  \/ (policy[o].tags # <<>> /\ ToSet(policy[o].tags) # ToSet(ParentTags(o)))

FollowsParent(o) == IsTopic(o) /\ ~OwnGrouping(o)

(* Mutation: a topic is always grouped by its own tags. *)
LocalItem(o) == [origin |-> o, tags |-> policy[o].tags, important |-> policy[o].important]

Item(o) ==
  [origin |-> o,
   tags |-> IF FollowsParent(o) THEN ParentTags(o) ELSE policy[o].tags,
   important |-> policy[o].important
                 \/ (FollowsParent(o) /\ Parent(o) \in Origins /\ policy[Parent(o)].important)]

Selectable(o) == policy[o].enabled /\ o \in scope.origins /\ scope.tags \subseteq ToSet(Item(o).tags)

Selection ==
  LET chosen == Filtered(Listing, {i \in DOMAIN Listing : Selectable(Listing[i])})
  IN  [i \in DOMAIN chosen |-> Item(chosen[i])]

-----------------------------------------------------------------------------
Important == Filtered(items, {i \in DOMAIN items : items[i].important})
Normal == Filtered(items, {i \in DOMAIN items : ~items[i].important})

(* Mutation: the groups in the order of the scope. *)
Unranked == scope.groups

(* sorted_groups: the larger groups first, then in the order of the scope. *)
Ranked ==
  LET G == DOMAIN scope.groups
      size(g) == Cardinality(scope.groups[g])
      order == Ordered(G, [g \in G |-> {h \in G : size(h) > size(g) \/ (size(h) = size(g) /\ h < g)}])
  IN  [k \in DOMAIN order |-> scope.groups[order[k]]]

Matches(x) == {k \in DOMAIN Ranked : Ranked[k] \subseteq ToSet(x.tags)}

(* The group that takes an origin: the first one whose tags it all has. *)
Taker(x) == IF Matches(x) = {} THEN 0 ELSE CHOOSE k \in Matches(x) : \A l \in Matches(x) : k <= l

Unit(kind, tags, members) == [kind |-> kind, tags |-> tags, members |-> members]

TakenBy(k) == Filtered(Normal, {i \in DOMAIN Normal : Taker(Normal[i]) = k})

TagGroups == [k \in DOMAIN Ranked |-> Unit("group", Ranked[k], TakenBy(k))]

(* Origins with the same sequence of tags, in the order of their first one. *)
Firsts == Filtered(Normal, {i \in DOMAIN Normal : \A j \in 1 .. i - 1 : Normal[j].tags # Normal[i].tags})

EffectiveTagGroups ==
  [k \in DOMAIN Firsts |->
     Unit("group", ToSet(Firsts[k].tags),
          Filtered(Normal, {i \in DOMAIN Normal : Normal[i].tags = Firsts[k].tags}))]

Single(kind, xs) == [i \in DOMAIN xs |-> Unit(kind, ToSet(xs[i].tags), <<xs[i]>>)]

Units ==
  IF scope.groups = <<>> THEN EffectiveTagGroups \o Single("important", Important)
  ELSE TagGroups \o Single("important", Important) \o Single("unmatched", TakenBy(0))

-----------------------------------------------------------------------------
(* Places in the readings of the selected origins, in their order. *)
Places == UNION {{<<i, p>> : p \in DOMAIN packaged[items[i].origin]} : i \in DOMAIN items}

At(place) == packaged[items[place[1]].origin][place[2]]

Earlier(a, b) == a[1] < b[1] \/ (a[1] = b[1] /\ a[2] < b[2])

(* Mutation: also the messages of topics that were not selected. *)
InAnyTopic(m) == MsgTopic[m] # 0

InTopic(m) ==
  \E i \in DOMAIN items : IsTopic(items[i].origin) /\ m \in ToSet(packaged[items[i].origin])

Offered(place) == IsTopic(items[place[1]].origin) \/ ~InTopic(At(place))

(* Mutation: nothing remembers the messages that have an owner. *)
KeptAgain(place) == Offered(place)

(* A parent leaves a message to the topic that holds it; apart from that   *)
(* the first origin that offers a message keeps it.                        *)
Kept(place) ==
  /\ Offered(place)
  /\ ~ \E other \in Places : Earlier(other, place) /\ Offered(other) /\ At(other) = At(place)

KeptOf(i) ==
  [origin |-> items[i].origin,
   messages |-> LET reading == packaged[items[i].origin]
                IN  Filtered(reading, {p \in DOMAIN reading : Kept(<<i, p>>)})]

CanonicalPoints ==
  Filtered([i \in DOMAIN items |-> KeptOf(i)], {i \in DOMAIN items : KeptOf(i).messages # <<>>})

-----------------------------------------------------------------------------
Init ==
  /\ policy \in [Origins -> Policies]
  /\ scope \in Scopes
  /\ archive \in {first \in SUBSET Messages : Cardinality(Messages \ first) <= MaxLate}
  /\ stage = "begin"
  /\ items = <<>> /\ probing = <<>> /\ units = <<>> /\ rows = <<>>
  /\ packaged = <<>> /\ points = <<>>
  /\ run = [status |-> "absent", current |-> 0, total |-> 0]
  /\ canceled = FALSE
  /\ known = {} /\ grown = {}

Working == stage \notin {"begin", "done"}

Current == units[run.current + 1]

(* The next origin of the unit that is not packaged yet. *)
Due == SelectInSeq(Current.members, LAMBDA x : x.origin \notin DOMAIN packaged)
Reading == Current.members[Due].origin

End(status) == stage' = "done" /\ run' = [run EXCEPT !.status = status]

(* The first progress update stands outside the try block: a cancel seen   *)
(* there leaves no row.                                                    *)
Begin ==
  /\ stage = "begin"
  /\ IF canceled THEN stage' = "done" /\ UNCHANGED run
     ELSE stage' = "selecting" /\ run' = [run EXCEPT !.status = "running"]
  /\ UNCHANGED <<asked, archive, built, canceled, known, grown>>

SelectOrigins ==
  /\ stage = "selecting"
  /\ stage' = "probing"
  /\ probing' = Selection
  /\ known' = archive
  /\ UNCHANGED <<asked, archive, items, units, rows, packaged, points, run, canceled, grown>>

Probe ==
  /\ stage = "probing" /\ probing # <<>>
  /\ items' = IF Page(Head(probing).origin, 0) = <<>> THEN items ELSE Append(items, Head(probing))
  /\ probing' = Tail(probing)
  /\ UNCHANGED <<asked, archive, stage, units, rows, packaged, points, run, canceled, known, grown>>

Group ==
  /\ stage = "probing" /\ probing = <<>> /\ ~canceled
  /\ stage' = "opening"
  /\ units' = Units
  /\ run' = [run EXCEPT !.total = Len(units')]
  /\ UNCHANGED <<asked, archive, items, probing, rows, packaged, points, canceled, known, grown>>

OpenUnit ==
  /\ stage = "opening" /\ run.current < run.total /\ ~canceled
  /\ stage' = "packing"
  /\ UNCHANGED <<asked, archive, built, run, canceled, known, grown>>

ReadPage ==
  /\ stage = "packing" /\ Due # 0
  /\ LET page == Page(Reading, Len(rows)) IN
       IF Len(page) < PageSize
       THEN /\ packaged' = [o \in DOMAIN packaged \cup {Reading} |->
                              IF o = Reading THEN rows \o page ELSE packaged[o]]
            /\ rows' = <<>>
       ELSE rows' = rows \o page /\ UNCHANGED packaged
  /\ UNCHANGED <<asked, archive, stage, items, probing, units, points, run, canceled, known, grown>>

(* The files of the unit are written, then the progress; the cancel check  *)
(* of the progress update comes before its write.                          *)
CloseUnit ==
  /\ stage = "packing" /\ Due = 0 /\ ~canceled
  /\ stage' = "opening"
  /\ run' = [run EXCEPT !.current = @ + 1]
  /\ UNCHANGED <<asked, archive, built, canceled, known, grown>>

Finish ==
  /\ stage = "opening" /\ run.current = run.total
  /\ points' = CanonicalPoints
  /\ End("completed")
  /\ UNCHANGED <<asked, archive, items, probing, units, rows, packaged, canceled, known, grown>>

(* Where the execution looks for a cancel request. *)
AtCheck ==
  \/ stage = "probing" /\ probing = <<>>
  \/ stage = "opening" /\ run.current < run.total
  \/ stage = "packing" /\ Due = 0

StopBuild ==
  /\ AtCheck /\ canceled
  /\ End("canceled")
  /\ UNCHANGED <<asked, archive, built, canceled, known, grown>>

(* A statement or a file fails.  Outside the try block, or when the row    *)
(* cannot be written either, it stays as it is.                            *)
Fail ==
  /\ stage # "done"
  /\ stage' = "done"
  /\ \/ Working /\ run' = [run EXCEPT !.status = "failed"]
     \/ UNCHANGED run
  /\ UNCHANGED <<asked, archive, built, canceled, known, grown>>

(* Live updates and history passes store messages meanwhile. *)
Ingest(m) ==
  /\ m \notin archive
  /\ archive' = archive \cup {m}
  /\ grown' = IF stage = "packing" /\ rows # <<>> /\ Holds(Reading, m)
              THEN grown \cup {Reading} ELSE grown
  /\ UNCHANGED <<asked, stage, built, run, canceled, known>>

RequestCancel ==
  /\ stage # "done" /\ ~canceled
  /\ canceled' = TRUE
  /\ UNCHANGED <<asked, archive, stage, built, run, known, grown>>

Build ==
  Begin \/ SelectOrigins \/ Probe \/ Group \/ OpenUnit \/ ReadPage \/ CloseUnit \/ Finish \/ StopBuild

Next == Build \/ Fail \/ RequestCancel \/ \E m \in Messages : Ingest(m)

Spec == Init /\ [][Next]_vars

-----------------------------------------------------------------------------
Completed == run.status = "completed"

(* The messages of the points, by point and place. *)
Extracted == UNION {{<<k, p>> : p \in DOMAIN points[k].messages} : k \in DOMAIN points}

Message(x) == points[x[1]].messages[x[2]]

(* What a row with these tags is grouped by: a topic has a grouping of its *)
(* own only when it is important or has tags its parent has not.           *)
Follows(o) ==
  /\ IsTopic(o) /\ ~policy[o].important
  /\ \/ policy[o].tags = <<>>
     \/ Parent(o) \in Origins /\ ToSet(policy[o].tags) = ToSet(policy[Parent(o)].tags)

AllExtracted ==
  \A o \in scope.origins \cap Origins : \A m \in known :
    (/\ policy[o].enabled /\ Holds(o, m)
     /\ scope.tags \subseteq ToSet(policy[IF Follows(o) /\ Parent(o) \in Origins THEN Parent(o) ELSE o].tags))
    => \E x \in Extracted : Message(x) = m

OneOwner ==
  /\ \A x, y \in Extracted : Message(x) = Message(y) => x = y
  /\ \A i \in DOMAIN items : \A m \in ToSet(packaged[items[i].origin]) :
       IsTopic(items[i].origin) =>
         \E x \in Extracted : IsTopic(points[x[1]].origin) /\ Message(x) = m

(* Every message that was archived when the origins were selected, of an   *)
(* enabled origin the scope asks for, reaches the extraction of points,    *)
(* and no message reaches it twice: one that both a topic and its parent   *)
(* have read is the topic's, whatever is stored while they are read page   *)
(* by page and moves the pages.                                            *)
ExtractedOnce == Completed => AllExtracted /\ OneOwner

MostSpecific ==
  \A i \in DOMAIN items :
    LET tags == ToSet(items[i].tags)
        holding == {u \in DOMAIN units : Contains(units[u].members, items[i])}
    IN  /\ Cardinality(holding) = 1
        /\ \A u \in holding :
             units[u].kind = "group" =>
               /\ units[u].tags \subseteq tags
               /\ \A g \in DOMAIN scope.groups :
                    scope.groups[g] \subseteq tags => Cardinality(scope.groups[g]) <= Cardinality(units[u].tags)

TopicWithParent ==
  \A i, j \in DOMAIN items :
    LET topic == items[i]
        parent == items[j]
    IN  Follows(topic.origin) /\ parent.origin = Parent(topic.origin) =>
          \A u, v \in DOMAIN units :
            Contains(units[u].members, topic) /\ Contains(units[v].members, parent) =>
              units[u].kind = units[v].kind /\ (units[u].kind = "group" => u = v)

(* A selected origin is in one unit of the package.  The group it is in is *)
(* one of whose tags it has all, and none of the groups it could be in has *)
(* more; and a topic without a grouping of its own is where its parent is, *)
(* in the same group, or beside it as an important or unmatched origin.    *)
RightGroup == units # <<>> => MostSpecific /\ TopicWithParent

(* The reading of an origin, whose length is what the package counts, has  *)
(* a message twice only if the archive of that origin grew meanwhile.      *)
RepeatNeedsGrowth ==
  \A o \in DOMAIN packaged : IsInjective(packaged[o]) \/ o \in grown
=============================================================================
