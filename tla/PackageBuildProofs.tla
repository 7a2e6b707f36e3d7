------------------------- MODULE PackageBuildProofs -------------------------
(***************************************************************************)
(* What a package holds, for every listing of origins, every policy, every *)
(* archive and every message stored beside the paging: messages are        *)
(* extracted once, origins are in the right group, and only an origin that *)
(* grew is read twice in part.                                             *)
(***************************************************************************)
EXTENDS PackageBuild, NaturalsInduction, WellFoundedInduction,
        SequenceTheorems, FunctionTheorems, FiniteSetTheorems, TLAPS

-----------------------------------------------------------------------------
(* Sequences by rank. *)
LEMMA LeastOf ==
  ASSUME NEW S \in SUBSET Nat, S # {}
  PROVE  \E x \in S : \A y \in S : x <= y
<1>1. PICK x \in S : \A y \in S : ~ (<<y, x>> \in OpToRel(<, Nat))
  BY NatLessThanWellFounded, WFMin
<1>2. \A y \in S : ~ (y < x)
  BY <1>1 DEF OpToRel
<1>3. \A y \in S : x <= y
  BY <1>2
<1> QED BY <1>3

(* below[x] is what precedes x in a strict total order of S. *)
Chain(S, below) ==
  /\ below \in [S -> SUBSET S]
  /\ \A x \in S : x \notin below[x]
  /\ \A x, y \in S : x \in below[y] => below[x] \subseteq below[y]
  /\ \A x, y \in S : x = y \/ x \in below[y] \/ y \in below[x]

LEMMA OrderedIs ==
  ASSUME NEW S, IsFiniteSet(S), NEW below, Chain(S, below)
  PROVE  LET s == Ordered(S, below)
         IN  /\ s \in Seq(S) /\ Len(s) = Cardinality(S) /\ Len(s) \in Nat
             /\ DOMAIN s = 1 .. Len(s)
             /\ IsInjective(s) /\ ToSet(s) = S
             /\ \A i \in DOMAIN s : Cardinality(below[s[i]]) = i - 1
             /\ \A i, j \in DOMAIN s : i < j => s[i] \in below[s[j]]
<1> DEFINE N == Cardinality(S)
           rank == [x \in S |-> Cardinality(below[x]) + 1]
           s == Ordered(S, below)
<1>1. N \in Nat
  BY FS_CardinalityType
<1>2. ASSUME NEW x \in S PROVE IsFiniteSet(below[x]) /\ Cardinality(below[x]) \in 0 .. N - 1
  <2>1. below[x] \in SUBSET S /\ below[x] # S
    BY DEF Chain
  <2>2. IsFiniteSet(below[x]) /\ Cardinality(below[x]) <= N /\ Cardinality(below[x]) # N
    BY <2>1, FS_Subset
  <2>3. Cardinality(below[x]) \in Nat
    BY <2>2, FS_CardinalityType
  <2> QED BY <1>1, <2>2, <2>3
<1>3. ASSUME NEW x \in S, NEW y \in S, x \in below[y]
      PROVE  Cardinality(below[x]) < Cardinality(below[y])
  <2>1. below[x] \in SUBSET below[y] /\ below[x] # below[y]
    BY <1>3 DEF Chain
  <2>2. /\ Cardinality(below[x]) <= Cardinality(below[y])
        /\ Cardinality(below[x]) # Cardinality(below[y])
    BY <1>2, <2>1, FS_Subset
  <2> QED BY <1>1, <1>2, <2>2
<1>4. rank \in [S -> 1 .. N]
  BY <1>1, <1>2
<1>5. ASSUME NEW x \in S, NEW y \in S, rank[x] = rank[y] PROVE x = y
  <2>1. Cardinality(below[x]) = Cardinality(below[y])
    BY <1>1, <1>2, <1>5
  <2> QED BY <1>1, <1>2, <1>3, <2>1 DEF Chain
<1>6. rank \in Surjection(S, 1 .. N)
  <2>1. rank \in Injection(S, 1 .. N)
    BY <1>4, <1>5 DEF Injection, IsInjective
  <2>2. IsFiniteSet(1 .. N) /\ Cardinality(1 .. N) = N
    BY <1>1, FS_Interval
  <2> HIDE DEF rank
  <2> QED BY <2>1, <2>2, FS_Injection
<1>7. \A k \in 1 .. N : \E x \in S : rank[x] = k
  BY <1>6 DEF Surjection
<1>8. s = [k \in 1 .. N |-> CHOOSE x \in S : Cardinality(below[x]) = k - 1]
  BY DEF Ordered
<1>9. ASSUME NEW k \in 1 .. N PROVE s[k] \in S /\ Cardinality(below[s[k]]) = k - 1
  <2>1. PICK x \in S : rank[x] = k
    BY <1>7
  <2>2. Cardinality(below[x]) = k - 1
    BY <1>1, <1>2, <2>1
  <2>3. s[k] = CHOOSE y \in S : Cardinality(below[y]) = k - 1
    BY <1>8
  <2> HIDE DEF s, rank, N
  <2> QED BY <2>2, <2>3
<1> HIDE DEF s
<1>10. s \in Seq(S) /\ Len(s) = N /\ DOMAIN s = 1 .. N
  BY <1>1, <1>8, <1>9
<1>11. IsInjective(s)
  <2> SUFFICES ASSUME NEW i \in 1 .. N, NEW j \in 1 .. N, s[i] = s[j] PROVE i = j
    BY <1>10 DEF IsInjective
  <2>1. i - 1 = j - 1
    BY <1>9
  <2> QED BY <1>1, <2>1
<1>12. ToSet(s) = S
  <2>1. ASSUME NEW x \in S PROVE x \in ToSet(s)
    <3>1. rank[x] \in 1 .. N
      BY <1>4
    <3>2. Cardinality(below[s[rank[x]]]) = rank[x] - 1 /\ s[rank[x]] \in S
      BY <1>9, <3>1
    <3>3. rank[s[rank[x]]] = rank[x]
      BY <1>1, <3>1, <3>2
    <3>4. s[rank[x]] = x
      BY <1>5, <3>2, <3>3
    <3> QED BY <1>10, <3>1, <3>4 DEF ToSet
  <2> QED BY <1>9, <1>10, <2>1 DEF ToSet
<1>13. ASSUME NEW i \in 1 .. N, NEW j \in 1 .. N, i < j PROVE s[i] \in below[s[j]]
  <2>1. s[i] \in S /\ s[j] \in S /\ Cardinality(below[s[i]]) = i - 1 /\ Cardinality(below[s[j]]) = j - 1
    BY <1>9
  <2>2. s[i] # s[j]
    BY <1>1, <1>13, <2>1
  <2>3. s[j] \notin below[s[i]]
    BY <1>1, <1>3, <1>13, <2>1
  <2> QED BY <2>1, <2>2, <2>3 DEF Chain
<1> QED BY <1>1, <1>9, <1>10, <1>11, <1>12, <1>13 DEF s

LEMMA AscendingIs ==
  ASSUME NEW S \in SUBSET Nat, IsFiniteSet(S)
  PROVE  LET s == Ascending(S)
         IN  /\ s \in Seq(S) /\ Len(s) = Cardinality(S) /\ Len(s) \in Nat
             /\ DOMAIN s = 1 .. Len(s)
             /\ IsInjective(s) /\ ToSet(s) = S
             /\ \A i \in DOMAIN s : Cardinality({y \in S : y < s[i]}) = i - 1
             /\ \A i, j \in DOMAIN s : i < j => s[i] < s[j]
<1> DEFINE below == [x \in S |-> {y \in S : y < x}]
           s == Ascending(S)
<1>2. s = Ordered(S, below)
  BY DEF Ascending
<1>3. /\ below \in [S -> SUBSET S]
      /\ \A x \in S : below[x] = {y \in S : y < x}
  OBVIOUS
<1> HIDE DEF below, s
<1>1. Chain(S, below)
  <2>1. \A x, y \in S : y \in below[x] <=> y < x
    BY <1>3
  <2>2. ASSUME NEW x \in S, NEW y \in S, x \in below[y] PROVE below[x] \subseteq below[y]
    <3> SUFFICES ASSUME NEW z \in below[x] PROVE z \in below[y]
      OBVIOUS
    <3>1. z \in S
      BY <1>3
    <3>2. z < x /\ x < y
      BY <2>1, <2>2, <3>1
    <3>3. x \in Nat /\ y \in Nat /\ z \in Nat
      BY <3>1
    <3>4. z < y
      BY <3>2, <3>3
    <3> QED BY <2>1, <3>1, <3>4
  <2>3. \A x, y \in S : x = y \/ x < y \/ y < x
    OBVIOUS
  <2> QED BY <1>3, <2>1, <2>2, <2>3 DEF Chain
<1>4. /\ s \in Seq(S) /\ Len(s) = Cardinality(S) /\ Len(s) \in Nat
      /\ DOMAIN s = 1 .. Len(s)
      /\ IsInjective(s) /\ ToSet(s) = S
      /\ \A i \in DOMAIN s : Cardinality(below[s[i]]) = i - 1
      /\ \A i, j \in DOMAIN s : i < j => s[i] \in below[s[j]]
  BY <1>1, <1>2, OrderedIs
<1>5. \A i \in DOMAIN s : s[i] \in S
  BY <1>4 DEF ToSet
<1>6. \A i \in DOMAIN s : Cardinality({y \in S : y < s[i]}) = i - 1
  BY <1>3, <1>4, <1>5
<1>7. \A i, j \in DOMAIN s : i < j => s[i] < s[j]
  BY <1>3, <1>4, <1>5
<1> QED BY <1>4, <1>6, <1>7 DEF s

(* What is filtered comes from increasing places. *)
LEMMA FilteredAt ==
  ASSUME NEW V, NEW s \in Seq(V), NEW I \in SUBSET DOMAIN s
  PROVE  LET f == Filtered(s, I)
             at == Ascending(I)
         IN  /\ f \in Seq(V) /\ Len(f) \in Nat /\ DOMAIN f = 1 .. Len(f)
             /\ at \in [DOMAIN f -> I]
             /\ \A k \in DOMAIN f : f[k] = s[at[k]]
             /\ \A i \in I : \E k \in DOMAIN f : at[k] = i
             /\ \A k, l \in DOMAIN f : k < l => at[k] < at[l]
             /\ \A k, l \in DOMAIN f : at[k] = at[l] => k = l
<1> DEFINE at == Ascending(I)
           f == Filtered(s, I)
<1>1. DOMAIN s = 1 .. Len(s) /\ Len(s) \in Nat /\ \A i \in DOMAIN s : s[i] \in V
  OBVIOUS
<1>2. I \in SUBSET Nat /\ IsFiniteSet(I)
  <2>1. IsFiniteSet(1 .. Len(s))
    BY <1>1, FS_Interval
  <2>2. I \in SUBSET (1 .. Len(s))
    BY <1>1
  <2> QED BY <1>1, <2>1, <2>2, FS_Subset
<1>3. /\ at \in Seq(I) /\ Len(at) \in Nat /\ DOMAIN at = 1 .. Len(at)
      /\ IsInjective(at) /\ ToSet(at) = I
      /\ \A k, l \in DOMAIN at : k < l => at[k] < at[l]
  BY <1>2, AscendingIs
<1>4. f = [k \in DOMAIN at |-> s[at[k]]]
  BY DEF Filtered
<1> HIDE DEF at, f
<1>5. at \in [DOMAIN at -> I]
  BY <1>3
<1>6. DOMAIN f = DOMAIN at /\ \A k \in DOMAIN f : at[k] \in I /\ f[k] = s[at[k]] /\ f[k] \in V
  BY <1>1, <1>4, <1>5
<1>7. f \in Seq(V) /\ Len(f) = Len(at) /\ Len(f) \in Nat /\ DOMAIN f = 1 .. Len(f)
  BY <1>3, <1>4, <1>6
<1>8. \A i \in I : \E k \in DOMAIN f : at[k] = i
  BY <1>3, <1>6 DEF ToSet
<1>9. \A k, l \in DOMAIN f : at[k] = at[l] => k = l
  BY <1>3, <1>6 DEF IsInjective
<1> QED BY <1>3, <1>5, <1>6, <1>7, <1>8, <1>9 DEF f, at

LEMMA FilteredIs ==
  ASSUME NEW V, NEW s \in Seq(V), NEW I \in SUBSET DOMAIN s
  PROVE  LET f == Filtered(s, I)
         IN  /\ f \in Seq(V) /\ Len(f) \in Nat /\ DOMAIN f = 1 .. Len(f)
             /\ \E at \in [DOMAIN f -> I] :
                  /\ \A k \in DOMAIN f : f[k] = s[at[k]]
                  /\ \A i \in I : \E k \in DOMAIN f : at[k] = i
                  /\ \A k, l \in DOMAIN f : k < l => at[k] < at[l]
                  /\ \A k, l \in DOMAIN f : at[k] = at[l] => k = l
<1> DEFINE f == Filtered(s, I)
           at == Ascending(I)
<1>1. /\ f \in Seq(V) /\ Len(f) \in Nat /\ DOMAIN f = 1 .. Len(f)
      /\ at \in [DOMAIN f -> I]
      /\ \A k \in DOMAIN f : f[k] = s[at[k]]
      /\ \A i \in I : \E k \in DOMAIN f : at[k] = i
      /\ \A k, l \in DOMAIN f : k < l => at[k] < at[l]
      /\ \A k, l \in DOMAIN f : at[k] = at[l] => k = l
  BY FilteredAt
<1> HIDE DEF f, at
<1> QED BY <1>1 DEF f

(* The elements that are filtered, and each of them as often as before. *)
LEMMA FilteredSet ==
  ASSUME NEW V, NEW s \in Seq(V), NEW I \in SUBSET DOMAIN s
  PROVE  LET f == Filtered(s, I)
         IN  /\ f \in Seq(V) /\ Len(f) \in Nat /\ DOMAIN f = 1 .. Len(f)
             /\ \A k \in DOMAIN f : \E i \in I : f[k] = s[i]
             /\ \A i \in I : \E k \in DOMAIN f : f[k] = s[i]
             /\ ToSet(f) = {s[i] : i \in I}
             /\ IsInjective(s) => IsInjective(f)
<1> DEFINE f == Filtered(s, I)
<1>1. f \in Seq(V) /\ Len(f) \in Nat /\ DOMAIN f = 1 .. Len(f)
  BY FilteredIs
<1>2. PICK at \in [DOMAIN f -> I] :
        /\ \A k \in DOMAIN f : f[k] = s[at[k]]
        /\ \A i \in I : \E k \in DOMAIN f : at[k] = i
        /\ \A k, l \in DOMAIN f : at[k] = at[l] => k = l
  BY FilteredIs
<1> HIDE DEF f
<1>3. \A k \in DOMAIN f : \E i \in I : f[k] = s[i]
  BY <1>2
<1>4. \A i \in I : \E k \in DOMAIN f : f[k] = s[i]
  BY <1>2
<1>5. ToSet(f) = {s[i] : i \in I}
  BY <1>3, <1>4 DEF ToSet
<1>6. IsInjective(s) => IsInjective(f)
  BY <1>2 DEF IsInjective
<1> QED BY <1>1, <1>3, <1>4, <1>5, <1>6 DEF f

-----------------------------------------------------------------------------
(* The selection. *)
ItemSet == {Item(o) : o \in Origins}

Apart(s) == \A i, j \in DOMAIN s : s[i].origin = s[j].origin => i = j

LEMMA ItemFacts == \A o : Item(o).origin = o
BY DEF Item

LEMMA SelectionIs ==
  /\ Selection \in Seq(ItemSet) /\ Apart(Selection)
  /\ \A o \in Origins : Selectable(o) => \E i \in DOMAIN Selection : Selection[i] = Item(o)
<1> DEFINE I == {i \in DOMAIN Listing : Selectable(Listing[i])}
           f == Filtered(Listing, I)
<1>1. Listing \in Seq(Origins) /\ I \in SUBSET DOMAIN Listing /\ IsInjective(Listing)
  BY PackageAssumption
<1>2. Selection = [i \in DOMAIN f |-> Item(f[i])]
  BY DEF Selection
<1>3. /\ f \in Seq(Origins) /\ Len(f) \in Nat /\ DOMAIN f = 1 .. Len(f)
      /\ \A i \in I : \E k \in DOMAIN f : f[k] = Listing[i]
      /\ IsInjective(f)
  <2> HIDE DEF I
  <2> QED BY <1>1, FilteredSet
<1>4. \A o \in Origins : Selectable(o) => \E i \in I : Listing[i] = o
  BY DEF Origins, ToSet
<1> HIDE DEF f, I
<1>5. \A i \in DOMAIN f : f[i] \in Origins
  BY <1>3
<1>6. DOMAIN Selection = 1 .. Len(f) /\ \A i \in 1 .. Len(f) : Selection[i] = Item(f[i])
  BY <1>2, <1>3
<1>7. Selection \in Seq(ItemSet)
  <2>1. \A i \in DOMAIN f : Item(f[i]) \in ItemSet
    BY <1>5 DEF ItemSet
  <2> QED BY <1>2, <1>3, <2>1
<1>8. Apart(Selection)
  BY <1>3, <1>6, ItemFacts DEF Apart, IsInjective
<1>9. ASSUME NEW o \in Origins, Selectable(o)
      PROVE  \E i \in DOMAIN Selection : Selection[i] = Item(o)
  <2>1. PICK k \in DOMAIN f : f[k] = o
    BY <1>3, <1>4, <1>9
  <2> QED BY <1>3, <1>6, <2>1
<1> QED BY <1>7, <1>8, <1>9

(* Pages. *)
Held(A, o) == {m \in A : Holds(o, m)}

LEMMA HeldFacts ==
  ASSUME NEW A \in SUBSET Messages, NEW o
  PROVE  /\ Held(A, o) \in SUBSET Nat /\ IsFiniteSet(Held(A, o)) /\ Cardinality(Held(A, o)) \in Nat
         /\ Held(A, o) \subseteq A
<1>1. Held(A, o) \in SUBSET Messages /\ Held(A, o) \subseteq A
  BY DEF Held
<1> QED BY <1>1, PackageAssumption, FS_Subset, FS_CardinalityType

LEMMA RowsFacts ==
  ASSUME archive \in SUBSET Messages, NEW o
  PROVE  LET H == Held(archive, o)
             R == Rows(o)
         IN  /\ R \in Seq(Messages) /\ Len(R) = Cardinality(H) /\ Len(R) \in Nat /\ DOMAIN R = 1 .. Len(R)
             /\ IsInjective(R) /\ ToSet(R) = H
             /\ \A i \in 1 .. Len(R) : Cardinality({n \in H : n < R[i]}) = i - 1
<1> DEFINE H == Held(archive, o)
           R == Rows(o)
<1>1. R = Ascending(H)
  BY DEF Rows, Held
<1>2. H \in SUBSET Nat /\ IsFiniteSet(H) /\ H \subseteq Messages
  BY HeldFacts
<1> HIDE DEF H, R
<1>3. /\ R \in Seq(H) /\ Len(R) = Cardinality(H) /\ Len(R) \in Nat /\ DOMAIN R = 1 .. Len(R)
      /\ IsInjective(R) /\ ToSet(R) = H
      /\ \A i \in DOMAIN R : Cardinality({n \in H : n < R[i]}) = i - 1
  BY <1>1, <1>2, AscendingIs
<1>4. R \in Seq(Messages)
  BY <1>2, <1>3, SeqMonotonic
<1> QED BY <1>3, <1>4 DEF H, R

LEMMA PageFacts ==
  ASSUME archive \in SUBSET Messages, NEW o, NEW k \in Nat, k <= Len(Rows(o))
  PROVE  LET R == Rows(o)
             page == Page(o, k)
         IN  /\ page \in Seq(Messages)
             /\ Len(page) = IF k + PageSize < Len(R) THEN PageSize ELSE Len(R) - k
             /\ \A i \in 1 .. Len(page) : page[i] = R[k + i]
<1> DEFINE R == Rows(o)
           last == IF k + PageSize < Len(R) THEN k + PageSize ELSE Len(R)
           page == Page(o, k)
<1>1. R \in Seq(Messages) /\ Len(R) \in Nat /\ DOMAIN R = 1 .. Len(R) /\ k <= Len(R)
  BY RowsFacts
<1>2. page = SubSeq(R, k + 1, last)
  BY DEF Page
<1>3. PageSize \in Nat /\ PageSize > 0
  BY PackageAssumption
<1> HIDE DEF R, page
<1>4. last \in Nat /\ k <= last /\ last <= Len(R) /\ k + 1 \in Int
  BY <1>1, <1>3
<1>5. last - k = IF k + PageSize < Len(R) THEN PageSize ELSE Len(R) - k
  BY <1>1, <1>3
<1> HIDE DEF last
<1>6. \A i \in k + 1 .. last : R[i] \in Messages
  BY <1>1, <1>4
<1>7. /\ page \in Seq(Messages)
      /\ Len(page) = IF k + 1 <= last THEN last - (k + 1) + 1 ELSE 0
      /\ \A i \in 1 .. last - (k + 1) + 1 : page[i] = R[k + 1 + i - 1]
  BY <1>2, <1>4, <1>6, SubSeqProperties
<1>8. Len(page) = last - k
  <2>1. CASE k + 1 <= last
    BY <1>4, <1>7, <2>1
  <2>2. CASE ~ (k + 1 <= last)
    <3>1. k = last
      BY <1>4, <2>2
    <3> QED BY <1>4, <1>7, <2>2, <3>1
  <2> QED BY <2>1, <2>2
<1>9. ASSUME NEW i \in 1 .. Len(page) PROVE page[i] = R[k + i]
  <2>1. i \in 1 .. last - (k + 1) + 1 /\ k + 1 + i - 1 = k + i
    BY <1>4, <1>8
  <2> QED BY <1>7, <2>1
<1> QED BY <1>5, <1>7, <1>8, <1>9 DEF R, page

LEMMA FirstPage ==
  ASSUME archive \in SUBSET Messages, NEW o, NEW m \in archive, Holds(o, m)
  PROVE  Page(o, 0) # <<>>
<1>1. Len(Rows(o)) \in Nat /\ m \in ToSet(Rows(o)) /\ DOMAIN Rows(o) = 1 .. Len(Rows(o))
  BY RowsFacts DEF Held
<1>2. Len(Rows(o)) > 0
  BY <1>1 DEF ToSet
<1>3. Len(Page(o, 0)) = IF 0 + PageSize < Len(Rows(o)) THEN PageSize ELSE Len(Rows(o)) - 0
  BY <1>1, PageFacts
<1>4. Len(Page(o, 0)) > 0
  BY <1>1, <1>2, <1>3, PackageAssumption
<1> QED BY <1>4

Stages == {"begin", "selecting", "probing", "opening", "packing", "done"}

Row == [status : {"absent", "running", "completed", "canceled", "failed"}, current : Nat, total : Nat]

(* Whoever is selected and has messages is an item or will be one. *)
Found ==
  stage \in {"probing", "opening", "packing"} =>
    \A o \in Origins, m \in known :
      Selectable(o) /\ Holds(o, m) =>
        \/ \E i \in DOMAIN items : items[i] = Item(o)
        \/ \E i \in DOMAIN probing : probing[i] = Item(o)

Selected ==
  /\ scope \in Scopes
  /\ archive \in SUBSET Messages /\ known \in SUBSET archive
  /\ stage \in Stages
  /\ items \in Seq(ItemSet) /\ Apart(items)
  /\ probing \in Seq(ItemSet) /\ Apart(probing)
  /\ \A i \in DOMAIN items, j \in DOMAIN probing : items[i].origin # probing[j].origin
  /\ stage \in {"begin", "selecting"} => items = <<>>
  /\ Found
  /\ run \in Row

LEMMA InitSelected == Init => Selected
<1> SUFFICES ASSUME Init PROVE Selected
  OBVIOUS
<1>1. <<>> \in Seq(ItemSet) /\ DOMAIN <<>> = {} /\ Apart(<<>>)
  BY DEF Apart
<1>2. run \in Row
  BY DEF Init, Row
<1> QED BY <1>1, <1>2 DEF Init, Selected, Found, Stages

LEMMA SameItems ==
  ASSUME UNCHANGED asked
  PROVE  ItemSet' = ItemSet /\ \A o : Item(o)' = Item(o) /\ (Selectable(o)' <=> Selectable(o))
<1>1. \A o : Item(o)' = Item(o)
  BY DEF asked, Item, FollowsParent, OwnGrouping, ParentTags
<1> QED BY <1>1 DEF asked, ItemSet, Selectable

LEMMA SelectedKept ==
  ASSUME Selected, UNCHANGED <<asked, items, probing, known>>, archive \subseteq archive',
         archive' \in SUBSET Messages, stage' \in Stages,
         stage' \in {"probing", "opening", "packing"} => stage \in {"probing", "opening", "packing"},
         stage' \in {"begin", "selecting"} => stage \in {"begin", "selecting"},
         run' \in Row
  PROVE  Selected'
BY SameItems DEF Selected, Found, Apart, asked

LEMMA RunKept ==
  ASSUME run \in Row
  PROVE  /\ \A st \in {"running", "completed", "canceled", "failed"} : [run EXCEPT !.status = st] \in Row
         /\ \A n \in Nat : [run EXCEPT !.total = n] \in Row
         /\ [run EXCEPT !.current = @ + 1] \in Row
BY DEF Row


-----------------------------------------------------------------------------
(* The units of a package. *)
LEMMA ContainsIs ==
  ASSUME NEW V, NEW s \in Seq(V), NEW x
  PROVE  Contains(s, x) <=> x \in ToSet(s)
BY DEF Contains, ToSet

(* The part of the normal origins that a condition takes. *)
LEMMA NormalFacts ==
  ASSUME items \in Seq(ItemSet), Apart(items)
  PROVE  /\ Important \in Seq(ItemSet) /\ IsInjective(Important)
         /\ Len(Important) \in Nat /\ DOMAIN Important = 1 .. Len(Important)
         /\ ToSet(Important) = {x \in ToSet(items) : x.important}
         /\ Normal \in Seq(ItemSet) /\ IsInjective(Normal)
         /\ Len(Normal) \in Nat /\ DOMAIN Normal = 1 .. Len(Normal)
         /\ ToSet(Normal) = {x \in ToSet(items) : ~x.important}
<1> DEFINE I == {i \in DOMAIN items : items[i].important}
           J == {i \in DOMAIN items : ~items[i].important}
<1>1. IsInjective(items)
  BY DEF Apart, IsInjective
<1>2. Important = Filtered(items, I) /\ Normal = Filtered(items, J)
  BY DEF Important, Normal
<1>3. I \in SUBSET DOMAIN items /\ J \in SUBSET DOMAIN items
  OBVIOUS
<1>4. /\ {items[i] : i \in I} = {x \in ToSet(items) : x.important}
      /\ {items[i] : i \in J} = {x \in ToSet(items) : ~x.important}
  BY DEF ToSet
<1> HIDE DEF I, J
<1>5. /\ Important \in Seq(ItemSet) /\ IsInjective(Important)
      /\ Len(Important) \in Nat /\ DOMAIN Important = 1 .. Len(Important)
      /\ ToSet(Important) = {items[i] : i \in I}
  BY <1>1, <1>2, <1>3, FilteredSet
<1>6. /\ Normal \in Seq(ItemSet) /\ IsInjective(Normal)
      /\ Len(Normal) \in Nat /\ DOMAIN Normal = 1 .. Len(Normal)
      /\ ToSet(Normal) = {items[i] : i \in J}
  BY <1>1, <1>2, <1>3, FilteredSet
<1> QED BY <1>4, <1>5, <1>6

LEMMA RankedFacts ==
  ASSUME scope \in Scopes
  PROVE  /\ \E n \in Nat : DOMAIN Ranked = 1 .. n
         /\ \A k \in DOMAIN Ranked : Cardinality(Ranked[k]) \in Nat
         /\ \A k, l \in DOMAIN Ranked : k <= l => Cardinality(Ranked[l]) <= Cardinality(Ranked[k])
         /\ \A g \in DOMAIN scope.groups : \E k \in DOMAIN Ranked : Ranked[k] = scope.groups[g]
<1> DEFINE G == DOMAIN scope.groups
           size(g) == Cardinality(scope.groups[g])
           below == [g \in G |-> {h \in G : size(h) > size(g) \/ (size(h) = size(g) /\ h < g)}]
           order == Ordered(G, below)
<1>1. /\ scope.groups \in Seq(ToSet(scope.groups))
      /\ \A tags \in ToSet(scope.groups) : IsFiniteSet(tags)
  BY PackageAssumption
<1>2. Len(scope.groups) \in Nat /\ G = 1 .. Len(scope.groups)
  BY <1>1
<1>3. IsFiniteSet(G) /\ \A g \in G : g \in Nat
  BY <1>2, FS_Interval
<1>4. \A g \in G : size(g) \in Nat
  BY <1>1, FS_CardinalityType DEF ToSet
<1>5. Ranked = [k \in DOMAIN order |-> scope.groups[order[k]]]
  BY DEF Ranked
<1>6. /\ below \in [G -> SUBSET G]
      /\ \A g, h \in G : h \in below[g] <=> size(h) > size(g) \/ (size(h) = size(g) /\ h < g)
  OBVIOUS
<1> HIDE DEF G, size, below, order
<1>7. Chain(G, below)
  <2>1. \A x \in G : x \notin below[x]
    BY <1>3, <1>4, <1>6
  <2>2. ASSUME NEW x \in G, NEW y \in G, x \in below[y] PROVE below[x] \subseteq below[y]
    <3> SUFFICES ASSUME NEW z \in below[x] PROVE z \in below[y]
      OBVIOUS
    <3>1. z \in G
      BY <1>6
    <3>2. /\ x \in Nat /\ y \in Nat /\ z \in Nat
          /\ size(x) \in Nat /\ size(y) \in Nat /\ size(z) \in Nat
      BY <1>3, <1>4, <3>1
    <3>3. size(z) > size(x) \/ (size(z) = size(x) /\ z < x)
      BY <1>6, <3>1
    <3>4. size(x) > size(y) \/ (size(x) = size(y) /\ x < y)
      BY <1>6, <2>2
    <3>5. size(z) > size(y) \/ (size(z) = size(y) /\ z < y)
      BY <3>2, <3>3, <3>4
    <3> QED BY <1>6, <3>1, <3>5
  <2>3. ASSUME NEW x \in G, NEW y \in G PROVE x = y \/ x \in below[y] \/ y \in below[x]
    <3>1. x \in Nat /\ y \in Nat /\ size(x) \in Nat /\ size(y) \in Nat
      BY <1>3, <1>4
    <3>2. \/ x = y
          \/ size(x) > size(y) \/ (size(x) = size(y) /\ x < y)
          \/ size(y) > size(x) \/ (size(y) = size(x) /\ y < x)
      BY <3>1
    <3> QED BY <1>6, <3>2
  <2> QED BY <1>6, <2>1, <2>2, <2>3 DEF Chain
<1>8. /\ order \in Seq(G) /\ Len(order) \in Nat /\ DOMAIN order = 1 .. Len(order) /\ ToSet(order) = G
      /\ \A i, j \in DOMAIN order : i < j => order[i] \in below[order[j]]
  BY <1>3, <1>7, OrderedIs DEF order
<1>9. \A k \in DOMAIN order : order[k] \in G
  BY <1>8
<1>10. DOMAIN Ranked = DOMAIN order /\ \A k \in DOMAIN order : Ranked[k] = scope.groups[order[k]]
  BY <1>5
<1>11. \A k \in DOMAIN order : Cardinality(Ranked[k]) = size(order[k])
  BY <1>10 DEF size
<1>12. ASSUME NEW k \in DOMAIN order, NEW l \in DOMAIN order, k <= l
       PROVE  Cardinality(Ranked[l]) <= Cardinality(Ranked[k])
  <2>1. size(order[k]) \in Nat /\ size(order[l]) \in Nat
    BY <1>4, <1>9
  <2>2. CASE k = l
    BY <1>11, <2>1, <2>2
  <2>3. CASE k < l
    <3>1. order[k] \in below[order[l]]
      BY <1>8, <2>3
    <3>2. size(order[k]) >= size(order[l])
      BY <1>6, <1>9, <2>1, <3>1
    <3> QED BY <1>11, <2>1, <3>2
  <2> QED BY <1>8, <1>12, <2>2, <2>3
<1>13. \A g \in G : \E k \in DOMAIN order : order[k] = g
  BY <1>8 DEF ToSet
<1>14. \A k \in DOMAIN Ranked : Cardinality(Ranked[k]) \in Nat
  BY <1>4, <1>9, <1>10, <1>11
<1>15. \E n \in Nat : DOMAIN Ranked = 1 .. n
  BY <1>8, <1>10
<1>16. \A k, l \in DOMAIN Ranked : k <= l => Cardinality(Ranked[l]) <= Cardinality(Ranked[k])
  BY <1>10, <1>12
<1>17. \A g \in DOMAIN scope.groups : \E k \in DOMAIN Ranked : Ranked[k] = scope.groups[g]
  BY <1>10, <1>13 DEF G
<1> QED BY <1>14, <1>15, <1>16, <1>17

LEMMA TakerFacts ==
  ASSUME scope \in Scopes, NEW x
  PROVE  /\ Taker(x) = 0 <=> Matches(x) = {}
         /\ Taker(x) # 0 => /\ Taker(x) \in DOMAIN Ranked /\ Taker(x) \in Matches(x)
                            /\ \A k \in Matches(x) : Taker(x) <= k
         /\ 0 \notin DOMAIN Ranked
<1>1. Matches(x) \in SUBSET DOMAIN Ranked
  BY DEF Matches
<1>2. PICK n \in Nat : DOMAIN Ranked = 1 .. n
  BY RankedFacts
<1>3. CASE Matches(x) = {}
  BY <1>2, <1>3 DEF Taker
<1>4. CASE Matches(x) # {}
  <2>1. PICK k \in Matches(x) : \A l \in Matches(x) : k <= l
    <3>1. Matches(x) \in SUBSET Nat
      BY <1>1, <1>2
    <3> QED BY <1>4, <3>1, LeastOf
  <2>2. Taker(x) = CHOOSE j \in Matches(x) : \A l \in Matches(x) : j <= l
    BY <1>4 DEF Taker
  <2>3. Taker(x) \in Matches(x) /\ \A l \in Matches(x) : Taker(x) <= l
    BY <2>1, <2>2
  <2>4. 0 \notin 1 .. n
    OBVIOUS
  <2> QED BY <1>1, <1>2, <1>4, <2>3, <2>4
<1> QED BY <1>3, <1>4

(* The tags of a group an origin is in: no group it could be in has more. *)
Fits(tags, x) ==
  /\ tags \subseteq ToSet(x.tags)
  /\ \A g \in DOMAIN scope.groups :
       scope.groups[g] \subseteq ToSet(x.tags) => Cardinality(scope.groups[g]) <= Cardinality(tags)

LEMMA TakerFits ==
  ASSUME scope \in Scopes, NEW x, Taker(x) # 0
  PROVE  Fits(Ranked[Taker(x)], x)
<1>1. Taker(x) \in DOMAIN Ranked /\ Taker(x) \in Matches(x) /\ \A k \in Matches(x) : Taker(x) <= k
  BY TakerFacts
<1>2. Ranked[Taker(x)] \subseteq ToSet(x.tags)
  BY <1>1 DEF Matches
<1>3. ASSUME NEW g \in DOMAIN scope.groups, scope.groups[g] \subseteq ToSet(x.tags)
      PROVE  Cardinality(scope.groups[g]) <= Cardinality(Ranked[Taker(x)])
  <2>1. PICK k \in DOMAIN Ranked : Ranked[k] = scope.groups[g]
    BY RankedFacts
  <2>2. k \in Matches(x)
    BY <1>3, <2>1 DEF Matches
  <2> QED BY <1>1, <2>1, <2>2, RankedFacts
<1> QED BY <1>2, <1>3 DEF Fits

(* A is a sequence of length n. *)
IsSeq(A, n) == n \in Nat /\ DOMAIN A = 1 .. n /\ A = [k \in 1 .. n |-> A[k]]

(* What the groups of normal origins do: each origin that is not left to   *)
(* rest is in one group, and in one whose tags fit it; origins with the    *)
(* same tags go together.                                                  *)
GroupPart(A, rest) ==
  /\ \E n \in Nat : IsSeq(A, n)
  /\ rest \subseteq ToSet(Normal)
  /\ \A k \in DOMAIN A : A[k].kind = "group" /\ A[k].members \in Seq(ItemSet)
  /\ \A k \in DOMAIN A : \A x \in ToSet(A[k].members) :
       x \in ToSet(Normal) /\ x \notin rest /\ Fits(A[k].tags, x)
  /\ \A k, l \in DOMAIN A : \A x \in ToSet(A[k].members) : x \in ToSet(A[l].members) => k = l
  /\ \A x \in ToSet(Normal) : x \notin rest => \E k \in DOMAIN A : x \in ToSet(A[k].members)
  /\ \A x, y \in ToSet(Normal) : x.tags = y.tags =>
       /\ x \in rest <=> y \in rest
       /\ \A k \in DOMAIN A : x \in ToSet(A[k].members) => y \in ToSet(A[k].members)

LEMMA TakenByFacts ==
  ASSUME items \in Seq(ItemSet), Apart(items), NEW k
  PROVE  /\ TakenBy(k) \in Seq(ItemSet) /\ IsInjective(TakenBy(k))
         /\ Len(TakenBy(k)) \in Nat /\ DOMAIN TakenBy(k) = 1 .. Len(TakenBy(k))
         /\ ToSet(TakenBy(k)) = {x \in ToSet(Normal) : Taker(x) = k}
<1> DEFINE I == {i \in DOMAIN Normal : Taker(Normal[i]) = k}
<1>1. Normal \in Seq(ItemSet) /\ IsInjective(Normal)
  BY NormalFacts
<1>2. TakenBy(k) = Filtered(Normal, I)
  BY DEF TakenBy
<1>3. I \in SUBSET DOMAIN Normal
  OBVIOUS
<1>4. {Normal[i] : i \in I} = {x \in ToSet(Normal) : Taker(x) = k}
  BY DEF ToSet
<1> HIDE DEF I
<1>5. /\ TakenBy(k) \in Seq(ItemSet) /\ IsInjective(TakenBy(k))
      /\ Len(TakenBy(k)) \in Nat /\ DOMAIN TakenBy(k) = 1 .. Len(TakenBy(k))
      /\ ToSet(TakenBy(k)) = {Normal[i] : i \in I}
  BY <1>1, <1>2, <1>3, FilteredSet
<1> QED BY <1>4, <1>5

LEMMA TagGroupsPart ==
  ASSUME items \in Seq(ItemSet), Apart(items), scope \in Scopes
  PROVE  GroupPart(TagGroups, ToSet(TakenBy(0)))
<1> DEFINE A == TagGroups
           rest == ToSet(TakenBy(0))
<1>1. PICK n \in Nat : DOMAIN Ranked = 1 .. n
  BY RankedFacts
<1>2. A = [k \in 1 .. n |-> Unit("group", Ranked[k], TakenBy(k))]
  BY <1>1 DEF TagGroups
<1>3. DOMAIN A = 1 .. n /\ A = [k \in 1 .. n |-> A[k]]
  BY <1>2
<1>4. \A k \in 1 .. n : A[k].kind = "group" /\ A[k].tags = Ranked[k] /\ A[k].members = TakenBy(k)
  BY <1>2 DEF Unit
<1>5. \A k \in 1 .. n : A[k].members \in Seq(ItemSet)
  BY <1>4, TakenByFacts
<1>6. rest = {x \in ToSet(Normal) : Taker(x) = 0}
  BY TakenByFacts
<1>7. \A k \in 1 .. n : ToSet(A[k].members) = {x \in ToSet(Normal) : Taker(x) = k}
  BY <1>4, TakenByFacts
<1>8. 0 \notin 1 .. n
  OBVIOUS
<1> HIDE DEF A, rest
<1>9. ASSUME NEW k \in 1 .. n, NEW x \in ToSet(A[k].members)
      PROVE  x \in ToSet(Normal) /\ x \notin rest /\ Fits(A[k].tags, x)
  <2>1. x \in ToSet(Normal) /\ Taker(x) = k /\ k # 0
    BY <1>7, <1>8
  <2>2. Fits(Ranked[k], x)
    BY <2>1, TakerFits
  <2> QED BY <1>4, <1>6, <2>1, <2>2
<1>10. ASSUME NEW x \in ToSet(Normal), x \notin rest PROVE \E k \in 1 .. n : x \in ToSet(A[k].members)
  <2>1. Taker(x) # 0
    BY <1>6, <1>10
  <2>2. Taker(x) \in 1 .. n
    BY <1>1, <2>1, TakerFacts
  <2> QED BY <1>7, <2>2
<1>11. \A x, y : x.tags = y.tags => Taker(x) = Taker(y)
  BY DEF Taker, Matches
<1>12. \A k, l \in 1 .. n : \A x \in ToSet(A[k].members) : x \in ToSet(A[l].members) => k = l
  BY <1>7
<1>13. \A x, y \in ToSet(Normal) : x.tags = y.tags =>
         /\ x \in rest <=> y \in rest
         /\ \A k \in 1 .. n : x \in ToSet(A[k].members) => y \in ToSet(A[k].members)
  BY <1>6, <1>7, <1>11
<1>14. rest \subseteq ToSet(Normal)
  BY <1>6
<1> QED BY <1>3, <1>4, <1>5, <1>9, <1>10, <1>12, <1>13, <1>14 DEF GroupPart, IsSeq, A, rest

LEMMA FirstsFacts ==
  ASSUME items \in Seq(ItemSet), Apart(items)
  PROVE  /\ Len(Firsts) \in Nat /\ DOMAIN Firsts = 1 .. Len(Firsts)
         /\ \A k, l \in DOMAIN Firsts : Firsts[k].tags = Firsts[l].tags => k = l
         /\ \A x \in ToSet(Normal) : \E k \in DOMAIN Firsts : Firsts[k].tags = x.tags
<1> DEFINE I == {i \in DOMAIN Normal : \A j \in 1 .. i - 1 : Normal[j].tags # Normal[i].tags}
<1>1. Normal \in Seq(ItemSet) /\ Len(Normal) \in Nat /\ DOMAIN Normal = 1 .. Len(Normal)
  BY NormalFacts
<1>2. Firsts = Filtered(Normal, I)
  BY DEF Firsts
<1>3. /\ I \in SUBSET DOMAIN Normal
      /\ \A i \in I : \A j \in 1 .. i - 1 : Normal[j].tags # Normal[i].tags
      /\ \A i \in DOMAIN Normal : (\A j \in 1 .. i - 1 : Normal[j].tags # Normal[i].tags) => i \in I
  OBVIOUS
<1> HIDE DEF I
<1>4. /\ Len(Firsts) \in Nat /\ DOMAIN Firsts = 1 .. Len(Firsts)
      /\ \E at \in [DOMAIN Firsts -> I] :
           /\ \A k \in DOMAIN Firsts : Firsts[k] = Normal[at[k]]
           /\ \A i \in I : \E k \in DOMAIN Firsts : at[k] = i
           /\ \A k, l \in DOMAIN Firsts : k < l => at[k] < at[l]
           /\ \A k, l \in DOMAIN Firsts : at[k] = at[l] => k = l
  BY <1>1, <1>2, <1>3, FilteredIs
<1>5. PICK at \in [DOMAIN Firsts -> I] :
           /\ \A k \in DOMAIN Firsts : Firsts[k] = Normal[at[k]]
           /\ \A i \in I : \E k \in DOMAIN Firsts : at[k] = i
           /\ \A k, l \in DOMAIN Firsts : at[k] = at[l] => k = l
  BY <1>4
<1>6. ASSUME NEW k \in DOMAIN Firsts, NEW l \in DOMAIN Firsts, at[k] < at[l]
      PROVE  Firsts[k].tags # Firsts[l].tags
  <2>1. at[k] \in 1 .. Len(Normal) /\ at[l] \in 1 .. Len(Normal) /\ at[l] \in I
    BY <1>1, <1>3, <1>5
  <2>2. at[k] \in 1 .. at[l] - 1
    BY <1>1, <1>6, <2>1
  <2> QED BY <1>3, <1>5, <2>1, <2>2
<1>7. ASSUME NEW k \in DOMAIN Firsts, NEW l \in DOMAIN Firsts, Firsts[k].tags = Firsts[l].tags
      PROVE  k = l
  <2>1. at[k] \in Nat /\ at[l] \in Nat
    BY <1>1, <1>3, <1>5
  <2>2. at[k] = at[l]
    BY <1>6, <1>7, <2>1
  <2> QED BY <1>5, <2>2
<1>8. ASSUME NEW x \in ToSet(Normal) PROVE \E k \in DOMAIN Firsts : Firsts[k].tags = x.tags
  <2> DEFINE J == {i \in DOMAIN Normal : Normal[i].tags = x.tags}
  <2>1. J \in SUBSET Nat /\ J # {}
    BY <1>1 DEF ToSet
  <2>2. PICK i \in J : \A j \in J : i <= j
    BY <2>1, LeastOf
  <2>3. \A j \in 1 .. i - 1 : j \in DOMAIN Normal /\ ~ (i <= j)
    BY <1>1
  <2>4. \A j \in 1 .. i - 1 : Normal[j].tags # Normal[i].tags
    BY <2>2, <2>3
  <2>5. i \in I
    BY <1>3, <2>4
  <2> QED BY <1>5, <2>5
<1> QED BY <1>4, <1>7, <1>8

LEMMA EffectivePart ==
  ASSUME items \in Seq(ItemSet), Apart(items), scope.groups = <<>>
  PROVE  GroupPart(EffectiveTagGroups, {})
<1> DEFINE A == EffectiveTagGroups
           I(k) == {i \in DOMAIN Normal : Normal[i].tags = Firsts[k].tags}
           n == Len(Firsts)
<1>1. /\ n \in Nat /\ DOMAIN Firsts = 1 .. n
      /\ \A k, l \in 1 .. n : Firsts[k].tags = Firsts[l].tags => k = l
      /\ \A x \in ToSet(Normal) : \E k \in 1 .. n : Firsts[k].tags = x.tags
  BY FirstsFacts
<1>2. A = [k \in 1 .. n |-> Unit("group", ToSet(Firsts[k].tags), Filtered(Normal, I(k)))]
  BY <1>1 DEF EffectiveTagGroups
<1>3. DOMAIN A = 1 .. n /\ A = [k \in 1 .. n |-> A[k]]
  BY <1>2
<1>4. \A k \in 1 .. n : /\ A[k].kind = "group" /\ A[k].tags = ToSet(Firsts[k].tags)
                        /\ A[k].members = Filtered(Normal, I(k))
  BY <1>2 DEF Unit
<1>5. Normal \in Seq(ItemSet)
  BY NormalFacts
<1>6. ASSUME NEW k \in 1 .. n
      PROVE  /\ A[k].members \in Seq(ItemSet)
             /\ ToSet(A[k].members) = {x \in ToSet(Normal) : x.tags = Firsts[k].tags}
  <2> DEFINE K == I(k)
  <2>1. K \in SUBSET DOMAIN Normal
    OBVIOUS
  <2>2. {Normal[i] : i \in K} = {x \in ToSet(Normal) : x.tags = Firsts[k].tags}
    BY DEF ToSet
  <2>3. A[k].members = Filtered(Normal, K)
    BY <1>4
  <2> HIDE DEF K, A
  <2>4. Filtered(Normal, K) \in Seq(ItemSet) /\ ToSet(Filtered(Normal, K)) = {Normal[i] : i \in K}
    BY <1>5, <2>1, FilteredSet
  <2> QED BY <2>2, <2>3, <2>4
<1> HIDE DEF A, I, n
<1>7. DOMAIN scope.groups = {}
  OBVIOUS
<1>8. \A k \in 1 .. n : \A x \in ToSet(A[k].members) : x \in ToSet(Normal) /\ Fits(A[k].tags, x)
  BY <1>4, <1>6, <1>7 DEF Fits
<1>9. ASSUME NEW k \in 1 .. n, NEW l \in 1 .. n,
             NEW x \in ToSet(A[k].members), x \in ToSet(A[l].members)
      PROVE  k = l
  <2>1. x.tags = Firsts[k].tags /\ x.tags = Firsts[l].tags
    BY <1>6, <1>9
  <2> QED BY <1>1, <2>1
<1>10. \A x \in ToSet(Normal) : \E k \in 1 .. n : x \in ToSet(A[k].members)
  BY <1>1, <1>6
<1>11. \A x, y \in ToSet(Normal) : x.tags = y.tags =>
         \A k \in 1 .. n : x \in ToSet(A[k].members) => y \in ToSet(A[k].members)
  BY <1>6
<1> QED BY <1>1, <1>3, <1>4, <1>6, <1>8, <1>9, <1>10, <1>11 DEF GroupPart, IsSeq, A

SinglePart(B, kind, xs) ==
  /\ IsSeq(B, Len(xs))
  /\ \A i \in 1 .. Len(xs) : /\ B[i].kind = kind /\ B[i].members \in Seq(ItemSet)
                             /\ \A x : x \in ToSet(B[i].members) <=> x = xs[i]

LEMMA SingleFacts ==
  ASSUME NEW xs \in Seq(ItemSet), NEW kind
  PROVE  SinglePart(Single(kind, xs), kind, xs)
<1> DEFINE B == Single(kind, xs)
<1>1. Len(xs) \in Nat /\ DOMAIN xs = 1 .. Len(xs) /\ \A i \in 1 .. Len(xs) : xs[i] \in ItemSet
  OBVIOUS
<1>2. B = [i \in 1 .. Len(xs) |-> Unit(kind, ToSet(xs[i].tags), <<xs[i]>>)]
  BY <1>1 DEF Single
<1>3. DOMAIN B = 1 .. Len(xs) /\ B = [i \in 1 .. Len(xs) |-> B[i]]
  BY <1>2
<1>4. \A i \in 1 .. Len(xs) : B[i].kind = kind /\ B[i].members = <<xs[i]>>
  BY <1>2 DEF Unit
<1>5. ASSUME NEW y \in ItemSet PROVE <<y>> \in Seq(ItemSet) /\ \A x : x \in ToSet(<<y>>) <=> x = y
  <2>1. DOMAIN <<y>> = {1} /\ <<y>>[1] = y
    OBVIOUS
  <2> QED BY <2>1 DEF ToSet
<1> HIDE DEF B
<1>6. ASSUME NEW i \in 1 .. Len(xs)
      PROVE  /\ B[i].members \in Seq(ItemSet)
             /\ \A x : x \in ToSet(B[i].members) <=> x = xs[i]
  <2>1. B[i].members = <<xs[i]>> /\ xs[i] \in ItemSet
    BY <1>1, <1>4
  <2> QED BY <1>5, <2>1
<1>7. SinglePart(B, kind, xs)
  BY <1>1, <1>3, <1>4, <1>6 DEF SinglePart, IsSeq
<1> QED BY <1>7 DEF B

(* The places of three sequences in their concatenation. *)
JoinOf(U, A, B, C, a, b, c) ==
  /\ Len(U) = a + b + c /\ DOMAIN U = 1 .. a + b + c
  /\ \A k \in 1 .. a : U[k] = A[k]
  /\ \A k \in 1 .. b : U[a + k] = B[k]
  /\ \A k \in 1 .. c : U[a + b + k] = C[k]

LEMMA Joined ==
  ASSUME NEW A, NEW B, NEW C, NEW a, NEW b, NEW c, IsSeq(A, a), IsSeq(B, b), IsSeq(C, c)
  PROVE  JoinOf(A \o B \o C, A, B, C, a, b, c)
<1>0. /\ a \in Nat /\ DOMAIN A = 1 .. a /\ A = [k \in 1 .. a |-> A[k]]
      /\ b \in Nat /\ DOMAIN B = 1 .. b /\ B = [k \in 1 .. b |-> B[k]]
      /\ c \in Nat /\ DOMAIN C = 1 .. c /\ C = [k \in 1 .. c |-> C[k]]
  BY DEF IsSeq
<1>n. a \in Nat /\ b \in Nat /\ c \in Nat
  BY <1>0
<1> DEFINE V == ToSet(A) \cup ToSet(B) \cup ToSet(C)
           W == A \o B
           U == W \o C
<1>1. A \in Seq(V) /\ Len(A) = a
  <2>1. \A k \in 1 .. a : A[k] \in V
    BY <1>0 DEF ToSet
  <2> HIDE DEF V
  <2>2. [k \in 1 .. a |-> A[k]] \in Seq(V) /\ Len([k \in 1 .. a |-> A[k]]) = a
    BY <1>n, <2>1
  <2> QED BY <1>0, <2>2
<1>2. B \in Seq(V) /\ Len(B) = b
  <2>1. \A k \in 1 .. b : B[k] \in V
    BY <1>0 DEF ToSet
  <2> HIDE DEF V
  <2>2. [k \in 1 .. b |-> B[k]] \in Seq(V) /\ Len([k \in 1 .. b |-> B[k]]) = b
    BY <1>n, <2>1
  <2> QED BY <1>0, <2>2
<1>3. C \in Seq(V) /\ Len(C) = c
  <2>1. \A k \in 1 .. c : C[k] \in V
    BY <1>0 DEF ToSet
  <2> HIDE DEF V
  <2>2. [k \in 1 .. c |-> C[k]] \in Seq(V) /\ Len([k \in 1 .. c |-> C[k]]) = c
    BY <1>n, <2>1
  <2> QED BY <1>0, <2>2
<1> HIDE DEF V
<1>4. /\ W \in Seq(V) /\ Len(W) = a + b
      /\ \A i \in 1 .. a + b : W[i] = IF i <= a THEN A[i] ELSE B[i - a]
  BY <1>0, <1>1, <1>2, ConcatProperties
<1> HIDE DEF W
<1>5. /\ U \in Seq(V) /\ Len(U) = (a + b) + c
      /\ \A i \in 1 .. (a + b) + c : U[i] = IF i <= a + b THEN W[i] ELSE C[i - (a + b)]
  BY <1>0, <1>3, <1>4, ConcatProperties
<1>6. U = A \o B \o C
  BY DEF W
<1> HIDE DEF U
<1>7. Len(U) = a + b + c /\ DOMAIN U = 1 .. a + b + c
  BY <1>0, <1>5
<1>8. ASSUME NEW k \in 1 .. a PROVE U[k] = A[k]
  <2>1. k \in 1 .. (a + b) + c /\ k \in 1 .. a + b /\ k <= a + b /\ k <= a
    BY <1>0
  <2>2. U[k] = W[k]
    BY <1>5, <2>1
  <2> QED BY <1>4, <2>1, <2>2
<1>9. ASSUME NEW k \in 1 .. b PROVE U[a + k] = B[k]
  <2>1. a + k \in 1 .. (a + b) + c /\ a + k \in 1 .. a + b /\ a + k <= a + b /\ ~ (a + k <= a)
        /\ (a + k) - a = k
    BY <1>0
  <2>2. U[a + k] = W[a + k]
    BY <1>5, <2>1
  <2>3. W[a + k] = B[(a + k) - a]
    BY <1>4, <2>1
  <2> QED BY <2>1, <2>2, <2>3
<1>10. ASSUME NEW k \in 1 .. c PROVE U[a + b + k] = C[k]
  <2>1. a + b + k \in 1 .. (a + b) + c /\ ~ (a + b + k <= a + b) /\ (a + b + k) - (a + b) = k
    BY <1>0
  <2>2. U[a + b + k] = C[(a + b + k) - (a + b)]
    BY <1>5, <2>1
  <2> QED BY <2>1, <2>2
<1> QED BY <1>6, <1>7, <1>8, <1>9, <1>10 DEF JoinOf

(* The units: groups, then important origins, then unmatched ones. *)
WellGrouped(U) ==
  /\ Len(U) \in Nat /\ DOMAIN U = 1 .. Len(U)
  /\ \A u \in DOMAIN U : U[u].members \in Seq(ItemSet)
  /\ \A x \in ToSet(items) : \E u \in DOMAIN U : x \in ToSet(U[u].members)
  /\ \A u, v \in DOMAIN U : \A x \in ToSet(U[u].members) : x \in ToSet(U[v].members) => u = v
  /\ \A u \in DOMAIN U : \A x \in ToSet(U[u].members) :
       x \in ToSet(items) /\ (U[u].kind = "group" => Fits(U[u].tags, x))
  /\ \A u, v \in DOMAIN U : \A x \in ToSet(U[u].members), y \in ToSet(U[v].members) :
       x.tags = y.tags /\ (x.important <=> y.important) =>
         U[u].kind = U[v].kind /\ (U[u].kind = "group" => u = v)

LEMMA UnitsJoin ==
  ASSUME items \in Seq(ItemSet), Apart(items), NEW A, NEW rs \in Seq(ItemSet), IsInjective(rs),
         GroupPart(A, ToSet(rs))
  PROVE  WellGrouped(A \o Single("important", Important) \o Single("unmatched", rs))
<1> DEFINE B == Single("important", Important)
           C == Single("unmatched", rs)
           U == A \o B \o C
           b == Len(Important)
           c == Len(rs)
           rest == ToSet(rs)
<1>1. PICK a \in Nat : IsSeq(A, a) /\ DOMAIN A = 1 .. a
  BY DEF GroupPart, IsSeq
<1>2. /\ Important \in Seq(ItemSet) /\ IsInjective(Important) /\ b \in Nat /\ DOMAIN Important = 1 .. b
      /\ ToSet(Important) = {x \in ToSet(items) : x.important}
      /\ ToSet(Normal) = {x \in ToSet(items) : ~x.important}
  BY NormalFacts
<1>3. c \in Nat /\ DOMAIN rs = 1 .. c
  OBVIOUS
<1>4. /\ IsSeq(B, b)
      /\ \A i \in 1 .. b : /\ B[i].kind = "important" /\ B[i].members \in Seq(ItemSet)
                           /\ \A x : x \in ToSet(B[i].members) <=> x = Important[i]
  <2>1. SinglePart(B, "important", Important)
    BY <1>2, SingleFacts
  <2> HIDE DEF B
  <2> QED BY <2>1 DEF SinglePart
<1>5. /\ IsSeq(C, c)
      /\ \A i \in 1 .. c : /\ C[i].kind = "unmatched" /\ C[i].members \in Seq(ItemSet)
                           /\ \A x : x \in ToSet(C[i].members) <=> x = rs[i]
  <2>1. SinglePart(C, "unmatched", rs)
    BY SingleFacts
  <2> HIDE DEF C
  <2> QED BY <2>1 DEF SinglePart
<1>6. rest \subseteq ToSet(Normal)
  BY DEF GroupPart
<1>r. \A x \in rest : \E k \in 1 .. c : rs[k] = x
  BY <1>3 DEF ToSet
<1>s. \A k \in 1 .. c : rs[k] \in rest
  BY <1>3 DEF ToSet
<1>i. \A x \in ToSet(Important) : \E k \in 1 .. b : Important[k] = x
  BY <1>2 DEF ToSet
<1>j. \A k \in 1 .. b : Important[k] \in ToSet(Important)
  BY <1>2 DEF ToSet
<1> HIDE DEF B, C, b, c, rest
<1>7. /\ Len(U) = a + b + c /\ DOMAIN U = 1 .. a + b + c
      /\ \A k \in 1 .. a : U[k] = A[k]
      /\ \A k \in 1 .. b : U[a + k] = B[k]
      /\ \A k \in 1 .. c : U[a + b + k] = C[k]
  <2>1. JoinOf(U, A, B, C, a, b, c)
    BY <1>1, <1>4, <1>5, Joined
  <2> HIDE DEF U
  <2> QED BY <2>1 DEF JoinOf
<1> HIDE DEF U
<1>8. ASSUME NEW u \in DOMAIN U
      PROVE  \/ u \in 1 .. a /\ U[u] = A[u]
             \/ \E k \in 1 .. b : u = a + k /\ U[u] = B[k]
             \/ \E k \in 1 .. c : u = a + b + k /\ U[u] = C[k]
  <2>1. u \in 1 .. a + b + c
    BY <1>7
  <2>2. CASE u <= a
    BY <1>1, <1>7, <2>1, <2>2
  <2>3. CASE u > a /\ u <= a + b
    <3>1. u - a \in 1 .. b /\ u = a + (u - a)
      BY <1>1, <1>2, <2>1, <2>3
    <3> QED BY <1>7, <3>1
  <2>4. CASE u > a + b
    <3>1. u - a - b \in 1 .. c /\ u = a + b + (u - a - b)
      BY <1>1, <1>2, <1>3, <2>1, <2>4
    <3> QED BY <1>7, <3>1
  <2> QED BY <1>1, <1>2, <2>1, <2>2, <2>3, <2>4
<1>9. ASSUME NEW u \in DOMAIN U, NEW x \in ToSet(U[u].members)
      PROVE  \/ /\ u \in 1 .. a /\ U[u].kind = "group" /\ x \in ToSet(A[u].members)
                /\ x \in ToSet(Normal) /\ x \notin rest /\ Fits(U[u].tags, x)
             \/ /\ U[u].kind = "important" /\ x \in ToSet(Important)
                /\ \E k \in 1 .. b : u = a + k /\ x = Important[k]
             \/ /\ U[u].kind = "unmatched" /\ x \in rest
                /\ \E k \in 1 .. c : u = a + b + k /\ x = rs[k]
  <2>1. CASE u \in 1 .. a /\ U[u] = A[u]
    <3>1. /\ A[u].kind = "group"
          /\ x \in ToSet(Normal) /\ x \notin rest /\ Fits(A[u].tags, x)
      BY <1>1, <1>9, <2>1 DEF GroupPart, rest
    <3> QED BY <1>9, <2>1, <3>1
  <2>2. CASE \E k \in 1 .. b : u = a + k /\ U[u] = B[k]
    BY <1>4, <1>9, <1>j, <2>2
  <2>3. CASE \E k \in 1 .. c : u = a + b + k /\ U[u] = C[k]
    BY <1>5, <1>9, <1>s, <2>3
  <2> QED BY <1>8, <2>1, <2>2, <2>3
<1>10. \A x : ~ (x \in ToSet(Normal) /\ x \in ToSet(Important))
  BY <1>2
<1>11. ASSUME NEW u \in DOMAIN U PROVE U[u].members \in Seq(ItemSet)
  <2>1. \A k \in 1 .. a : A[k].members \in Seq(ItemSet)
    BY <1>1 DEF GroupPart
  <2> QED BY <1>4, <1>5, <1>8, <2>1
<1>12. ASSUME NEW x \in ToSet(items) PROVE \E u \in DOMAIN U : x \in ToSet(U[u].members)
  <2>1. CASE x.important
    <3>1. PICK k \in 1 .. b : Important[k] = x
      BY <1>2, <1>i, <2>1
    <3>2. a + k \in DOMAIN U
      BY <1>1, <1>2, <1>3, <1>7
    <3> QED BY <1>4, <1>7, <3>1, <3>2
  <2>2. CASE x \in rest
    <3>1. PICK k \in 1 .. c : rs[k] = x
      BY <1>r, <2>2
    <3>2. a + b + k \in DOMAIN U
      BY <1>1, <1>2, <1>3, <1>7
    <3> QED BY <1>5, <1>7, <3>1, <3>2
  <2>3. CASE ~x.important /\ x \notin rest
    <3>1. x \in ToSet(Normal)
      BY <1>2, <2>3
    <3>2. PICK k \in 1 .. a : x \in ToSet(A[k].members)
      BY <1>1, <2>3, <3>1 DEF GroupPart, rest
    <3>3. k \in DOMAIN U
      BY <1>1, <1>2, <1>3, <1>7
    <3> QED BY <1>7, <3>2, <3>3
  <2> QED BY <2>1, <2>2, <2>3
<1>13. ASSUME NEW u \in DOMAIN U, NEW v \in DOMAIN U,
              NEW x \in ToSet(U[u].members), x \in ToSet(U[v].members)
       PROVE  u = v
  <2>1. CASE u \in 1 .. a /\ x \in ToSet(A[u].members) /\ x \in ToSet(Normal) /\ x \notin rest
    <3>1. v \in 1 .. a /\ x \in ToSet(A[v].members)
      BY <1>9, <1>10, <1>13, <2>1
    <3> QED BY <1>1, <2>1, <3>1 DEF GroupPart
  <2>2. CASE x \in ToSet(Important) /\ \E k \in 1 .. b : u = a + k /\ x = Important[k]
    <3>1. \E k \in 1 .. b : v = a + k /\ x = Important[k]
      BY <1>6, <1>9, <1>10, <1>13, <2>2
    <3> QED BY <1>2, <2>2, <3>1 DEF IsInjective
  <2>3. CASE x \in rest /\ \E k \in 1 .. c : u = a + b + k /\ x = rs[k]
    <3>1. \E k \in 1 .. c : v = a + b + k /\ x = rs[k]
      BY <1>6, <1>9, <1>10, <1>13, <2>3
    <3> QED BY <1>3, <2>3, <3>1 DEF IsInjective
  <2> QED BY <1>9, <2>1, <2>2, <2>3
<1>14. ASSUME NEW u \in DOMAIN U, NEW x \in ToSet(U[u].members)
       PROVE  x \in ToSet(items) /\ (U[u].kind = "group" => Fits(U[u].tags, x))
  <2>1. x \in ToSet(Normal) \/ x \in ToSet(Important)
    BY <1>6, <1>9
  <2>2. x \in ToSet(items)
    BY <1>2, <2>1
  <2>3. U[u].kind = "group" => Fits(U[u].tags, x)
    BY <1>9
  <2> QED BY <2>2, <2>3
<1>15. ASSUME NEW u \in DOMAIN U, NEW v \in DOMAIN U,
              NEW x \in ToSet(U[u].members), NEW y \in ToSet(U[v].members),
              x.tags = y.tags, x.important <=> y.important
       PROVE  U[u].kind = U[v].kind /\ (U[u].kind = "group" => u = v)
  <2>1. /\ x \in ToSet(Normal) <=> y \in ToSet(Normal)
        /\ x \in ToSet(Important) <=> y \in ToSet(Important)
    BY <1>2, <1>14, <1>15
  <2>2. x \in rest <=> y \in rest
    <3>1. CASE x \in ToSet(Normal)
      BY <1>15, <2>1, <3>1 DEF GroupPart, rest
    <3>2. CASE x \notin ToSet(Normal)
      BY <1>6, <2>1, <3>2
    <3> QED BY <3>1, <3>2
  <2>3. U[u].kind = U[v].kind
    BY <1>6, <1>9, <1>10, <2>1, <2>2
  <2>4. ASSUME U[u].kind = "group" PROVE u = v
    <3>1. /\ u \in 1 .. a /\ x \in ToSet(A[u].members) /\ x \in ToSet(Normal)
          /\ v \in 1 .. a /\ y \in ToSet(A[v].members) /\ y \in ToSet(Normal)
      BY <1>9, <2>3, <2>4
    <3>2. y \in ToSet(A[u].members)
      BY <1>1, <1>15, <3>1 DEF GroupPart
    <3> QED BY <1>1, <3>1, <3>2 DEF GroupPart
  <2> QED BY <2>3, <2>4
<1>16. Len(U) \in Nat /\ DOMAIN U = 1 .. Len(U)
  BY <1>1, <1>2, <1>3, <1>7
<1>17. WellGrouped(U)
  BY <1>11, <1>12, <1>13, <1>14, <1>15, <1>16 DEF WellGrouped
<1> QED BY <1>17 DEF U, B, C

LEMMA UnitsFacts ==
  ASSUME items \in Seq(ItemSet), Apart(items), scope \in Scopes
  PROVE  WellGrouped(Units)
<1>1. CASE scope.groups # <<>>
  <2>1. Units = TagGroups \o Single("important", Important) \o Single("unmatched", TakenBy(0))
    BY <1>1 DEF Units
  <2>2. TakenBy(0) \in Seq(ItemSet) /\ IsInjective(TakenBy(0))
    BY TakenByFacts
  <2> QED BY <2>1, <2>2, TagGroupsPart, UnitsJoin
<1>2. CASE scope.groups = <<>>
  <2> DEFINE A == EffectiveTagGroups
             B == Single("important", Important)
             C == Single("unmatched", <<>>)
  <2>1. C = <<>>
    BY DEF Single
  <2>2. <<>> \in Seq(ItemSet) /\ IsInjective(<<>>) /\ ToSet(<<>>) = {}
    BY DEF IsInjective, ToSet
  <2>3. GroupPart(A, ToSet(<<>>))
    BY <1>2, <2>2, EffectivePart
  <2>4. PICK a \in Nat : DOMAIN A = 1 .. a /\ A = [k \in 1 .. a |-> A[k]]
    BY <2>3 DEF GroupPart, IsSeq
  <2>5. Len(Important) \in Nat /\ DOMAIN B = 1 .. Len(Important) /\ B = [i \in 1 .. Len(Important) |-> B[i]]
    <3>1. SinglePart(B, "important", Important)
      BY NormalFacts, SingleFacts
    <3> HIDE DEF B
    <3> QED BY <3>1 DEF SinglePart, IsSeq
  <2>6. Units = A \o B
    BY <1>2 DEF Units
  <2> HIDE DEF A, B, C
  <2>7. WellGrouped(A \o B \o C)
    BY <2>2, <2>3, UnitsJoin DEF B, C
  <2>8. A \o B \o C = A \o B
    <3> DEFINE V == ToSet(A) \cup ToSet(B)
    <3>1. A \in Seq(V)
      <4>1. \A k \in 1 .. a : A[k] \in V
        BY <2>4 DEF ToSet
      <4> HIDE DEF V
      <4>2. [k \in 1 .. a |-> A[k]] \in Seq(V)
        BY <4>1
      <4> QED BY <2>4, <4>2
    <3>2. B \in Seq(V)
      <4>1. \A k \in 1 .. Len(Important) : B[k] \in V
        BY <2>5 DEF ToSet
      <4> HIDE DEF V
      <4>2. [k \in 1 .. Len(Important) |-> B[k]] \in Seq(V)
        BY <2>5, <4>1
      <4> QED BY <2>5, <4>2
    <3> HIDE DEF V
    <3>3. A \o B \in Seq(V)
      BY <3>1, <3>2, ConcatProperties
    <3> QED BY <2>1, <3>3, ConcatEmptySeq
  <2> QED BY <2>6, <2>7, <2>8
<1> QED BY <1>1, <1>2

-----------------------------------------------------------------------------
(* The selection stays what it is, and the units are made of it once. *)
LEMMA StepSelected ==
  ASSUME Selected, [Next]_vars
  PROVE  Selected'
<1>0. run \in Row /\ archive \in SUBSET Messages /\ stage \in Stages
  BY DEF Selected
<1>1. CASE Begin \/ OpenUnit \/ CloseUnit \/ StopBuild \/ Fail \/ Finish
  <2>1. UNCHANGED <<asked, items, probing, known, archive>>
    BY <1>1 DEF Begin, OpenUnit, CloseUnit, StopBuild, Fail, Finish, built
  <2>2. run' \in Row
    BY <1>0, <1>1, RunKept DEF Begin, OpenUnit, CloseUnit, StopBuild, Fail, Finish, End
  <2>3. /\ stage' \in Stages
        /\ stage' \in {"probing", "opening", "packing"} => stage \in {"probing", "opening", "packing"}
        /\ stage' \in {"begin", "selecting"} => stage \in {"begin", "selecting"}
    BY <1>1 DEF Begin, OpenUnit, CloseUnit, StopBuild, Fail, Finish, End, Stages
  <2> QED BY <1>0, <2>1, <2>2, <2>3, SelectedKept
<1>2. CASE Group
  <2>1. UNCHANGED <<asked, items, probing, known, archive>> /\ stage = "probing" /\ stage' = "opening"
    BY <1>2 DEF Group
  <2>2. run' = [run EXCEPT !.total = Len(Units)]
    BY <1>2 DEF Group
  <2>3. Len(Units) \in Nat
    BY UnitsFacts DEF WellGrouped, Selected
  <2>4. run' \in Row
    BY <1>0, <2>2, <2>3 DEF Row
  <2> QED BY <1>0, <2>1, <2>4, SelectedKept DEF Stages
<1>3. CASE SelectOrigins
  <2>1. /\ UNCHANGED <<asked, items, archive, run>> /\ stage' = "probing"
        /\ probing' = Selection /\ known' = archive /\ stage = "selecting"
    BY <1>3 DEF SelectOrigins
  <2>2. items = <<>> /\ DOMAIN items = {}
    BY <2>1 DEF Selected
  <2>3. Found'
    BY <2>1, SelectionIs, SameItems DEF Found, asked
  <2>4. probing' \in Seq(ItemSet') /\ items' \in Seq(ItemSet') /\ Apart(items)' /\ Apart(probing)'
    BY <2>1, SelectionIs, SameItems DEF Selected, Apart, asked
  <2> QED BY <2>1, <2>2, <2>3, <2>4 DEF Selected, Stages, asked
<1>4. CASE Probe
  <2> DEFINE h == Head(probing)
             t == Tail(probing)
  <2>1. /\ UNCHANGED <<asked, archive, stage, run, known>> /\ probing # <<>> /\ stage = "probing"
        /\ probing' = t
        /\ items' = IF Page(h.origin, 0) = <<>> THEN items ELSE Append(items, h)
    BY <1>4 DEF Probe
  <2>2. /\ probing \in Seq(ItemSet) /\ items \in Seq(ItemSet) /\ Apart(items) /\ Apart(probing)
        /\ known \in SUBSET archive /\ archive \in SUBSET Messages
        /\ \A i \in DOMAIN items, j \in DOMAIN probing : items[i].origin # probing[j].origin
    BY DEF Selected
  <2>3. /\ h = probing[1] /\ h \in ItemSet /\ t \in Seq(ItemSet) /\ Len(t) = Len(probing) - 1
        /\ Len(probing) \in Nat \ {0}
        /\ DOMAIN t = 1 .. Len(probing) - 1 /\ DOMAIN probing = 1 .. Len(probing)
        /\ \A i \in 1 .. Len(probing) - 1 : t[i] = probing[i + 1]
    BY <2>1, <2>2
  <2>4. /\ Apart(t) /\ \A i \in DOMAIN items, j \in DOMAIN t : items[i].origin # t[j].origin
        /\ \A j \in DOMAIN t : t[j].origin # h.origin
    <3>1. \A j \in DOMAIN t : j + 1 \in DOMAIN probing /\ 1 \in DOMAIN probing /\ j + 1 # 1 /\ t[j] = probing[j + 1]
      BY <2>3
    <3>2. \A i, j \in DOMAIN t : i + 1 = j + 1 => i = j
      BY <2>3
    <3> HIDE DEF h, t
    <3> QED BY <2>2, <2>3, <3>1, <3>2 DEF Apart
  <2>5. \A i \in DOMAIN probing : probing[i] = h \/ \E j \in DOMAIN t : t[j] = probing[i]
    <3>1. \A i \in 1 .. Len(probing) : i = 1 \/ (i - 1 \in 1 .. Len(probing) - 1 /\ (i - 1) + 1 = i)
      BY <2>3
    <3> HIDE DEF t
    <3> QED BY <2>3, <3>1
  <2>6. ItemSet' = ItemSet /\ UNCHANGED scope
    BY <2>1, SameItems DEF asked
  <2> HIDE DEF h, t
  <2>7. ASSUME Found' PROVE Selected'
    <3>1. CASE Page(h.origin, 0) = <<>>
      <4>1. items' = items /\ probing' = t
        BY <2>1, <3>1
      <4> QED BY <2>1, <2>2, <2>3, <2>4, <2>6, <2>7, <4>1 DEF Selected, Apart, asked
    <3>2. CASE Page(h.origin, 0) # <<>>
      <4>1. items' = Append(items, h) /\ probing' = t
        BY <2>1, <3>2
      <4>2. /\ items' \in Seq(ItemSet) /\ DOMAIN items' = 1 .. Len(items) + 1 /\ Len(items) \in Nat
            /\ DOMAIN items = 1 .. Len(items)
            /\ items'[Len(items) + 1] = h /\ \A i \in 1 .. Len(items) : items'[i] = items[i]
        BY <2>2, <2>3, <4>1
      <4>3. \A i \in DOMAIN items' : i = Len(items) + 1 \/ i \in DOMAIN items
        BY <4>2
      <4>4. \A i \in DOMAIN items : items[i].origin # h.origin
        BY <2>2, <2>3
      <4>5. Apart(items)' /\ \A i \in DOMAIN items', j \in DOMAIN t : items'[i].origin # t[j].origin
        BY <2>2, <2>4, <4>2, <4>3, <4>4 DEF Apart
      <4> QED BY <2>1, <2>2, <2>3, <2>4, <2>6, <2>7, <4>1, <4>2, <4>5 DEF Selected, Apart, asked
    <3> QED BY <3>1, <3>2
  <2>8. ASSUME NEW o \in Origins, NEW m \in known, Selectable(o), Holds(o, m)
        PROVE  \/ \E i \in DOMAIN items' : items'[i] = Item(o)
               \/ \E i \in DOMAIN t : t[i] = Item(o)
    <3>1. \/ \E i \in DOMAIN items : items[i] = Item(o)
          \/ \E i \in DOMAIN probing : probing[i] = Item(o)
      BY <2>1, <2>8 DEF Selected, Found
    <3>2. ASSUME NEW i \in DOMAIN items PROVE i \in DOMAIN items' /\ items'[i] = items[i]
      BY <2>1, <2>2, <2>3
    <3>3. ASSUME h = Item(o) PROVE Page(h.origin, 0) # <<>>
      <4>1. h.origin = o
        BY <3>3, ItemFacts
      <4> QED BY <2>2, <2>8, <4>1, FirstPage
    <3>4. ASSUME h = Item(o) PROVE \E i \in DOMAIN items' : items'[i] = Item(o)
      <4>1. items' = Append(items, h)
        BY <2>1, <3>3, <3>4
      <4>2. Len(items) + 1 \in DOMAIN items' /\ items'[Len(items) + 1] = h
        BY <2>2, <2>3, <4>1
      <4> QED BY <3>4, <4>2
    <3> QED BY <2>5, <3>1, <3>2, <3>4
  <2>9. Found'
    BY <2>1, <2>8, SameItems DEF Found, asked
  <2> QED BY <2>7, <2>9
<1>5. CASE ReadPage \/ RequestCancel \/ UNCHANGED vars
  <2>1. UNCHANGED <<asked, items, probing, known, archive, stage, run>>
    BY <1>5 DEF ReadPage, RequestCancel, vars, asked, built
  <2> QED BY <1>0, <2>1, SelectedKept
<1>6. ASSUME NEW m \in Messages, Ingest(m) PROVE Selected'
  <2>1. UNCHANGED <<asked, items, probing, known, stage, run>> /\ archive' = archive \cup {m}
    BY <1>6 DEF Ingest, built
  <2> QED BY <1>0, <2>1, SelectedKept
<1> QED BY <1>1, <1>2, <1>3, <1>4, <1>5, <1>6 DEF Next, Build

Grouped ==
  /\ units # <<>> => units = Units
  /\ stage \in {"begin", "selecting", "probing"} =>
       units = <<>> /\ run.current = 0 /\ packaged = <<>> /\ rows = <<>>
  /\ stage \in {"opening", "packing"} =>
       probing = <<>> /\ units = Units /\ run.total = Len(units) /\ run.current <= run.total
  /\ stage = "packing" => run.current < run.total

LEMMA SameUnits ==
  ASSUME UNCHANGED <<items, scope>>
  PROVE  Units' = Units
<1>1. Important' = Important /\ Normal' = Normal /\ Ranked' = Ranked
  BY DEF Important, Normal, Ranked
<1>2. \A x : Taker(x)' = Taker(x)
  BY <1>1 DEF Taker, Matches
<1>3. \A k : TakenBy(k)' = TakenBy(k)
  BY <1>1, <1>2 DEF TakenBy
<1>4. TagGroups' = TagGroups
  BY <1>1, <1>3 DEF TagGroups
<1>5. Firsts' = Firsts
  BY <1>1 DEF Firsts
<1>6. EffectiveTagGroups' = EffectiveTagGroups
  BY <1>1, <1>5 DEF EffectiveTagGroups
<1> QED BY <1>1, <1>3, <1>4, <1>6 DEF Units

LEMMA StepGrouped ==
  ASSUME Selected, Grouped, [Next]_vars
  PROVE  Grouped'
<1>0. run \in Row /\ stage \in Stages
  BY DEF Selected
<1>1. CASE Group
  <2>1. /\ UNCHANGED <<asked, items, probing, packaged, rows>> /\ probing = <<>> /\ stage = "probing"
        /\ stage' = "opening" /\ units' = Units
        /\ run' = [run EXCEPT !.total = Len(units')]
    BY <1>1 DEF Group
  <2>2. Units' = Units
    BY <2>1, SameUnits DEF asked
  <2>3. Len(Units) \in Nat
    BY UnitsFacts DEF WellGrouped, Selected
  <2>4. run.current = 0
    BY <2>1 DEF Grouped
  <2>5. run'.total = Len(units') /\ run'.current = 0
    BY <1>0, <2>1, <2>4 DEF Row
  <2> QED BY <2>1, <2>2, <2>3, <2>5 DEF Grouped
<1>2. CASE SelectOrigins \/ Probe
  <2>1. /\ UNCHANGED <<units, run, packaged, rows>> /\ stage \in {"selecting", "probing"} /\ stage' = "probing"
    BY <1>2 DEF SelectOrigins, Probe
  <2> QED BY <2>1 DEF Grouped
<1>3. CASE ~ (Group \/ SelectOrigins \/ Probe)
  <2>1. UNCHANGED <<asked, items, probing, units>>
    BY <1>3 DEF Next, Build, Begin, OpenUnit, ReadPage, CloseUnit, Finish, StopBuild, Fail, RequestCancel,
                Ingest, built, vars, asked
  <2>2. Units' = Units
    BY <2>1, SameUnits DEF asked
  <2>3. CASE Begin
    <3>1. /\ UNCHANGED <<packaged, rows>> /\ stage = "begin" /\ stage' \in {"done", "selecting"}
          /\ run'.current = run.current
      BY <1>0, <2>3 DEF Begin, built, Row
    <3> QED BY <2>1, <2>2, <3>1 DEF Grouped
  <2>4. CASE OpenUnit
    <3>1. UNCHANGED run /\ stage = "opening" /\ stage' = "packing" /\ run.current < run.total
      BY <2>4 DEF OpenUnit
    <3> QED BY <2>1, <2>2, <3>1 DEF Grouped
  <2>5. CASE CloseUnit
    <3>1. /\ stage = "packing" /\ stage' = "opening"
          /\ run'.current = run.current + 1 /\ run'.total = run.total
          /\ run.current \in Nat /\ run.total \in Nat
      BY <1>0, <2>5 DEF CloseUnit, Row
    <3>2. run'.current <= run'.total
      BY <3>1 DEF Grouped
    <3> QED BY <2>1, <2>2, <3>1, <3>2 DEF Grouped
  <2>6. CASE Finish \/ StopBuild \/ Fail
    <3>1. stage' = "done"
      BY <2>6 DEF Finish, StopBuild, Fail, End
    <3> QED BY <2>1, <2>2, <3>1 DEF Grouped
  <2>7. CASE ReadPage
    <3>1. stage = "packing" /\ UNCHANGED <<stage, run>>
      BY <2>7 DEF ReadPage
    <3> QED BY <2>1, <2>2, <3>1 DEF Grouped
  <2>8. CASE RequestCancel \/ UNCHANGED vars \/ \E m \in Messages : Ingest(m)
    <3>1. UNCHANGED <<stage, run, packaged, rows>>
      BY <2>8 DEF RequestCancel, vars, Ingest, built
    <3> QED BY <2>1, <2>2, <3>1 DEF Grouped
  <2> QED BY <1>3, <2>3, <2>4, <2>5, <2>6, <2>7, <2>8 DEF Next, Build
<1> QED BY <1>1, <1>2, <1>3

LEMMA FollowFacts ==
  ASSUME NEW o \in Origins, Follows(o), Parent(o) \in Origins
  PROVE  /\ Item(o).tags = Item(Parent(o)).tags
         /\ Item(o).important <=> Item(Parent(o)).important
<1> DEFINE p == Parent(o)
<1>1. IsTopic(o) /\ ~policy[o].important /\ ~IsTopic(p)
  BY DEF Follows, Parent, IsTopic, Topic
<1>2. ParentTags(o) = policy[p].tags
  BY DEF ParentTags
<1>3. FollowsParent(o) /\ ~FollowsParent(p)
  BY <1>1, <1>2 DEF FollowsParent, OwnGrouping, Follows
<1>4. Item(o) = [origin |-> o, tags |-> policy[p].tags,
                 important |-> policy[o].important \/ policy[p].important]
  BY <1>2, <1>3 DEF Item
<1>5. Item(p) = [origin |-> p, tags |-> policy[p].tags, important |-> policy[p].important \/ FALSE]
  BY <1>3 DEF Item
<1> QED BY <1>1, <1>4, <1>5

LEMMA RightGroupSound ==
  ASSUME Selected, Grouped
  PROVE  RightGroup
<1> SUFFICES ASSUME units # <<>> PROVE MostSpecific /\ TopicWithParent
  BY DEF RightGroup
<1>1. WellGrouped(units)
  BY UnitsFacts DEF Selected, Grouped
<1>2. \A u \in DOMAIN units : \A x : Contains(units[u].members, x) <=> x \in ToSet(units[u].members)
  BY <1>1, ContainsIs DEF WellGrouped
<1>3. \A i \in DOMAIN items : items[i] \in ToSet(items) /\ items[i] \in ItemSet
  BY DEF Selected, ToSet
<1>4. ASSUME NEW i \in DOMAIN items
      PROVE  LET tags == ToSet(items[i].tags)
                 holding == {u \in DOMAIN units : Contains(units[u].members, items[i])}
             IN  /\ Cardinality(holding) = 1
                 /\ \A u \in holding :
                      units[u].kind = "group" =>
                        /\ units[u].tags \subseteq tags
                        /\ \A g \in DOMAIN scope.groups :
                             scope.groups[g] \subseteq tags => Cardinality(scope.groups[g]) <= Cardinality(units[u].tags)
  <2> DEFINE x == items[i]
             holding == {u \in DOMAIN units : Contains(units[u].members, x)}
  <2>1. PICK u \in DOMAIN units : x \in ToSet(units[u].members)
    BY <1>1, <1>3 DEF WellGrouped
  <2>2. holding = {u}
    <3> HIDE DEF x
    <3>1. \A v, w \in DOMAIN units : \A y \in ToSet(units[v].members) : y \in ToSet(units[w].members) => v = w
      BY <1>1 DEF WellGrouped
    <3>2. u \in holding
      BY <1>2, <2>1
    <3>3. \A v \in holding : v = u
      BY <1>2, <2>1, <3>1
    <3> QED BY <3>2, <3>3
  <2>3. Cardinality(holding) = 1
    BY <2>2, FS_Singleton
  <2>4. units[u].kind = "group" => Fits(units[u].tags, x)
    BY <1>1, <2>1 DEF WellGrouped
  <2> QED BY <2>2, <2>3, <2>4 DEF Fits
<1>5. ASSUME NEW i \in DOMAIN items, NEW j \in DOMAIN items,
             Follows(items[i].origin), items[j].origin = Parent(items[i].origin),
             NEW u \in DOMAIN units, NEW v \in DOMAIN units,
             Contains(units[u].members, items[i]), Contains(units[v].members, items[j])
      PROVE  units[u].kind = units[v].kind /\ (units[u].kind = "group" => u = v)
  <2>1. PICK o \in Origins : items[i] = Item(o)
    BY <1>3 DEF ItemSet
  <2>2. PICK p \in Origins : items[j] = Item(p)
    BY <1>3 DEF ItemSet
  <2>3. Follows(o) /\ p = Parent(o)
    BY <1>5, <2>1, <2>2, ItemFacts
  <2>4. items[i].tags = items[j].tags /\ (items[i].important <=> items[j].important)
    BY <2>1, <2>2, <2>3, FollowFacts
  <2>5. items[i] \in ToSet(units[u].members) /\ items[j] \in ToSet(units[v].members)
    BY <1>2, <1>5
  <2> QED BY <1>1, <2>4, <2>5 DEF WellGrouped
<1>6. MostSpecific
  BY <1>4 DEF MostSpecific
<1>7. TopicWithParent
  BY <1>5 DEF TopicWithParent
<1> QED BY <1>6, <1>7

LEMMA InitGrouped == Init => Grouped
BY DEF Init, Grouped

(* A selected origin is in one unit, the right one, and a topic without a  *)
(* grouping of its own is where its parent is: units is what the selection *)
(* gives, and no later step of the execution changes either.               *)
THEOREM UnitsAreRight == Spec => []RightGroup
<1>1. Init => Selected /\ Grouped
  BY InitSelected, InitGrouped
<1>2. Selected /\ Grouped /\ [Next]_vars => (Selected /\ Grouped)'
  BY StepSelected, StepGrouped
<1>3. Selected /\ Grouped => RightGroup
  BY RightGroupSound
<1> QED BY <1>1, <1>2, <1>3, PTL DEF Spec

-----------------------------------------------------------------------------
(* The paging of an origin.  A is the archive, K the messages that were    *)
(* known before, G the origins that grew while they were paged.            *)
Rank(A, o, m) == Cardinality({n \in Held(A, o) : n < m})

Paging(o, s, A, K, G) ==
  /\ s \in Seq(Messages)
  /\ Len(s) <= Cardinality(Held(A, o))
  /\ o \in G \/ \A i \in 1 .. Len(s) : s[i] = Ascending(Held(A, o))[i]
  /\ \A m \in K : Holds(o, m) /\ Rank(A, o, m) < Len(s) => m \in ToSet(s)

(* A reading that is over. *)
FullReading(o, s, K, G) ==
  /\ s \in Seq(Messages)
  /\ IsInjective(s) \/ o \in G
  /\ \A m \in K : Holds(o, m) => m \in ToSet(s)

LEMMA PagingStart ==
  ASSUME NEW A \in SUBSET Messages, NEW K \in SUBSET A, NEW G, NEW o
  PROVE  Paging(o, <<>>, A, K, G)
<1>1. <<>> \in Seq(Messages) /\ Len(<<>>) = 0 /\ 1 .. 0 = {}
  OBVIOUS
<1>2. Cardinality(Held(A, o)) \in Nat /\ IsFiniteSet(Held(A, o))
  BY HeldFacts
<1>3. \A m : Rank(A, o, m) \in Nat
  BY <1>2, FS_Subset, FS_CardinalityType DEF Rank
<1> QED BY <1>1, <1>2, <1>3 DEF Paging

(* A known message does not move to the front. *)
LEMMA PagingGrows ==
  ASSUME NEW A \in SUBSET Messages, NEW K \in SUBSET A, NEW G, NEW G2, NEW o, NEW s,
         Paging(o, s, A, K, G), NEW a \in Messages, G \subseteq G2, Holds(o, a) => o \in G2
  PROVE  Paging(o, s, A \cup {a}, K, G2)
<1> DEFINE B == A \cup {a}
<1>1. B \in SUBSET Messages /\ Held(A, o) \subseteq Held(B, o)
  BY DEF Held
<1>2. ~Holds(o, a) => Held(B, o) = Held(A, o)
  BY DEF Held
<1> HIDE DEF B
<1>3. IsFiniteSet(Held(B, o)) /\ Cardinality(Held(B, o)) \in Nat /\ Cardinality(Held(A, o)) \in Nat
  BY <1>1, HeldFacts
<1>4. Cardinality(Held(A, o)) <= Cardinality(Held(B, o))
  BY <1>1, <1>3, FS_Subset
<1>5. ASSUME NEW m PROVE Rank(A, o, m) \in Nat /\ Rank(B, o, m) \in Nat /\ Rank(A, o, m) <= Rank(B, o, m)
  <2> DEFINE S == {n \in Held(A, o) : n < m}
             T == {n \in Held(B, o) : n < m}
  <2>1. S \in SUBSET T /\ T \in SUBSET Held(B, o)
    BY <1>1
  <2> HIDE DEF S, T
  <2>2. IsFiniteSet(T)
    BY <1>3, <2>1, FS_Subset
  <2>3. IsFiniteSet(S) /\ Cardinality(S) <= Cardinality(T)
    BY <2>1, <2>2, FS_Subset
  <2>4. Cardinality(S) \in Nat /\ Cardinality(T) \in Nat
    BY <2>2, <2>3, FS_CardinalityType
  <2> QED BY <2>3, <2>4 DEF S, T, Rank
<1>6. s \in Seq(Messages) /\ Len(s) \in Nat /\ Len(s) <= Cardinality(Held(A, o))
  BY DEF Paging
<1>7. Len(s) <= Cardinality(Held(B, o))
  BY <1>3, <1>4, <1>6
<1>8. o \in G2 \/ \A i \in 1 .. Len(s) : s[i] = Ascending(Held(B, o))[i]
  BY <1>2 DEF Paging
<1>9. ASSUME NEW m \in K, Holds(o, m), Rank(B, o, m) < Len(s) PROVE m \in ToSet(s)
  <2>1. Rank(A, o, m) < Len(s)
    BY <1>5, <1>6, <1>9
  <2> QED BY <1>9, <2>1 DEF Paging
<1>10. Paging(o, s, B, K, G2)
  BY <1>6, <1>7, <1>8, <1>9 DEF Paging
<1> QED BY <1>10 DEF B

LEMMA PagingOn ==
  ASSUME archive \in SUBSET Messages, known \in SUBSET archive, NEW o, NEW s,
         Paging(o, s, archive, known, grown)
  PROVE  /\ Paging(o, s \o Page(o, Len(s)), archive, known, grown)
         /\ Len(Page(o, Len(s))) < PageSize => FullReading(o, s \o Page(o, Len(s)), known, grown)
<1> DEFINE H == Held(archive, o)
           R == Rows(o)
           k == Len(s)
           page == Page(o, k)
           t == s \o page
<1>1. R = Ascending(H)
  BY DEF Rows, Held
<1>2. /\ R \in Seq(Messages) /\ Len(R) = Cardinality(H) /\ Len(R) \in Nat /\ DOMAIN R = 1 .. Len(R)
      /\ IsInjective(R) /\ ToSet(R) = H
      /\ \A i \in 1 .. Len(R) : Cardinality({n \in H : n < R[i]}) = i - 1
  BY RowsFacts
<1>3. /\ s \in Seq(Messages) /\ k \in Nat /\ k <= Len(R)
      /\ o \in grown \/ \A i \in 1 .. k : s[i] = R[i]
      /\ \A m \in known : Holds(o, m) /\ Rank(archive, o, m) < k => m \in ToSet(s)
  BY <1>1, <1>2 DEF Paging
<1>4. /\ page \in Seq(Messages) /\ Len(page) \in Nat
      /\ Len(page) = IF k + PageSize < Len(R) THEN PageSize ELSE Len(R) - k
      /\ \A i \in 1 .. Len(page) : page[i] = R[k + i]
  BY <1>3, PageFacts
<1>5. PageSize \in Nat /\ PageSize > 0
  BY PackageAssumption
<1>6. \A m \in known : Holds(o, m) => m \in H
  BY DEF Held
<1>7. \A i \in 1 .. Len(R) : Rank(archive, o, R[i]) = i - 1
  BY <1>2 DEF Rank
<1> HIDE DEF page, H, R
<1>8. /\ t \in Seq(Messages) /\ Len(t) = k + Len(page) /\ Len(t) \in Nat /\ DOMAIN t = 1 .. Len(t)
      /\ \A i \in 1 .. k + Len(page) : t[i] = IF i <= k THEN s[i] ELSE page[i - k]
  <2>1. /\ t \in Seq(Messages) /\ Len(t) = k + Len(page)
        /\ \A i \in 1 .. k + Len(page) : t[i] = IF i <= k THEN s[i] ELSE page[i - k]
    BY <1>3, <1>4, ConcatProperties
  <2> HIDE DEF t
  <2> QED BY <1>3, <1>4, <2>1
<1>d. DOMAIN s = 1 .. k
  BY <1>3
<1> HIDE DEF t, k
<1>9. Len(t) <= Len(R) /\ (Len(page) < PageSize => Len(t) = Len(R))
  BY <1>2, <1>3, <1>4, <1>5, <1>8
<1>10. \A i \in 1 .. Len(page) : k + i \in DOMAIN t /\ t[k + i] = R[k + i]
  <2> SUFFICES ASSUME NEW i \in 1 .. Len(page) PROVE k + i \in DOMAIN t /\ t[k + i] = R[k + i]
    OBVIOUS
  <2>1. k + i \in 1 .. k + Len(page) /\ ~ (k + i <= k) /\ (k + i) - k = i
    BY <1>3, <1>4
  <2>2. t[k + i] = page[(k + i) - k]
    BY <1>8, <2>1
  <2> QED BY <1>4, <1>8, <2>1, <2>2
<1>11. \A i \in 1 .. k : i \in DOMAIN t /\ t[i] = s[i]
  BY <1>3, <1>4, <1>8
<1>12. o \in grown \/ \A i \in 1 .. Len(t) : t[i] = R[i]
  <2> SUFFICES ASSUME o \notin grown, NEW i \in 1 .. Len(t) PROVE t[i] = R[i]
    OBVIOUS
  <2>1. CASE i <= k
    <3>1. i \in 1 .. k
      BY <1>3, <1>8, <2>1
    <3> QED BY <1>3, <1>11, <3>1
  <2>2. CASE ~ (i <= k)
    <3>1. i - k \in 1 .. Len(page) /\ k + (i - k) = i
      BY <1>3, <1>4, <1>8, <2>2
    <3> QED BY <1>10, <3>1
  <2> QED BY <2>1, <2>2
<1>13. ASSUME NEW m \in known, Holds(o, m), Rank(archive, o, m) < Len(t) PROVE m \in ToSet(t)
  <2>1. PICK i \in 1 .. Len(R) : R[i] = m
    BY <1>2, <1>6, <1>13 DEF ToSet
  <2>2. Rank(archive, o, m) = i - 1
    BY <1>7, <2>1
  <2>3. CASE i <= k
    <3>1. m \in ToSet(s)
      BY <1>3, <1>13, <2>2, <2>3
    <3>2. PICK j \in 1 .. k : s[j] = m
      BY <1>d, <3>1 DEF ToSet
    <3> QED BY <1>11, <3>2 DEF ToSet
  <2>4. CASE ~ (i <= k)
    <3>1. i \in Nat /\ i - 1 < Len(t)
      BY <1>13, <2>2
    <3>2. i - k \in 1 .. Len(page) /\ k + (i - k) = i
      BY <1>3, <1>4, <1>8, <2>4, <3>1
    <3>3. i \in DOMAIN t /\ t[i] = R[i]
      BY <1>10, <3>2
    <3> QED BY <2>1, <3>3 DEF ToSet
  <2> QED BY <2>3, <2>4
<1>14. Paging(o, t, archive, known, grown)
  BY <1>1, <1>2, <1>8, <1>9, <1>12, <1>13 DEF Paging, H
<1>15. ASSUME Len(page) < PageSize PROVE FullReading(o, t, known, grown)
  <2>1. Len(t) = Len(R)
    BY <1>9, <1>15
  <2>2. IsInjective(t) \/ o \in grown
    BY <1>2, <1>8, <1>12, <2>1 DEF IsInjective
  <2>3. ASSUME NEW m \in known, Holds(o, m) PROVE m \in ToSet(t)
    <3>1. PICK i \in 1 .. Len(R) : R[i] = m
      BY <1>2, <1>6, <2>3 DEF ToSet
    <3>2. Rank(archive, o, m) = i - 1 /\ i - 1 < Len(t)
      BY <1>2, <1>7, <2>1, <3>1
    <3> QED BY <1>13, <2>3, <3>2
  <2> QED BY <1>8, <2>2, <2>3 DEF FullReading
<1> QED BY <1>14, <1>15 DEF t, page, k

-----------------------------------------------------------------------------
(* The reading of the units, one origin after the other. *)
LEMMA DueFacts ==
  ASSUME NEW V, Current.members \in Seq(V)
  PROVE  /\ Due # 0 => /\ Due \in DOMAIN Current.members
                       /\ Reading \notin DOMAIN packaged
         /\ Due = 0 => \A x \in ToSet(Current.members) : x.origin \in DOMAIN packaged
<1> DEFINE s == Current.members
           I == {i \in 1 .. Len(s) : s[i].origin \notin DOMAIN packaged}
<1>1. s \in Seq(V) /\ Len(s) \in Nat /\ DOMAIN s = 1 .. Len(s) /\ I \in SUBSET Nat
  OBVIOUS
<1>2. Due = IF I # {} THEN CHOOSE i \in I : \A j \in I : i <= j ELSE 0
  BY DEF Due, SelectInSeq, Min
<1>3. CASE I = {}
  <2>1. Due = 0
    BY <1>2, <1>3
  <2>2. \A i \in DOMAIN s : s[i].origin \in DOMAIN packaged
    BY <1>1, <1>3
  <2> QED BY <2>1, <2>2 DEF ToSet
<1>4. CASE I # {}
  <2> HIDE DEF I
  <2>1. PICK i \in I : \A j \in I : i <= j
    BY <1>1, <1>4, LeastOf
  <2>2. Due \in I
    BY <1>2, <1>4, <2>1
  <2> QED BY <1>1, <2>2 DEF I, Reading
<1> QED BY <1>3, <1>4

Read ==
  /\ \A o \in DOMAIN packaged : FullReading(o, packaged[o], known, grown)
  /\ stage \in {"opening", "packing"} =>
       \A u \in 1 .. run.current : \A x \in ToSet(units[u].members) : x.origin \in DOMAIN packaged
  /\ stage = "opening" => rows = <<>>
  /\ stage = "packing" => IF Due = 0 THEN rows = <<>> ELSE Paging(Reading, rows, archive, known, grown)

LEMMA InitRead == Init => Read
<1> SUFFICES ASSUME Init PROVE Read
  OBVIOUS
<1>1. DOMAIN packaged = {}
  BY DEF Init
<1> QED BY <1>1 DEF Init, Read

LEMMA CurrentFacts ==
  ASSUME Selected, Grouped, stage = "packing"
  PROVE  Current.members \in Seq(ItemSet) /\ run.current \in Nat
<1>1. WellGrouped(units) /\ run.total = Len(units) /\ run.current < run.total /\ run \in Row
  BY UnitsFacts DEF Selected, Grouped
<1>2. run.current \in Nat /\ run.total \in Nat
  BY <1>1 DEF Row
<1>3. run.current + 1 \in DOMAIN units
  BY <1>1, <1>2 DEF WellGrouped
<1> QED BY <1>1, <1>2, <1>3 DEF WellGrouped, Current

LEMMA SameDue ==
  ASSUME UNCHANGED <<units, run, packaged>>
  PROVE  Due' = Due /\ Reading' = Reading
<1>1. Current' = Current
  BY DEF Current
<1>2. Due' = Due
  BY <1>1 DEF Due, SelectInSeq, Min
<1> QED BY <1>1, <1>2 DEF Reading

LEMMA StepRead ==
  ASSUME Selected, Grouped, Read, [Next]_vars
  PROVE  Read'
<1>0. /\ run \in Row /\ stage \in Stages /\ archive \in SUBSET Messages /\ known \in SUBSET archive
      /\ run.current \in Nat
  BY DEF Selected, Row
<1>1. CASE Begin \/ SelectOrigins \/ Probe
  <2>1. packaged' = <<>> /\ stage' \in {"selecting", "probing", "done"}
    BY <1>1 DEF Begin, SelectOrigins, Probe, Grouped, built
  <2>2. DOMAIN packaged' = {}
    BY <2>1
  <2> QED BY <2>1, <2>2 DEF Read
<1>2. CASE Group
  <2>1. /\ packaged = <<>> /\ packaged' = packaged /\ rows' = rows /\ rows = <<>>
        /\ run.current = 0 /\ stage' = "opening" /\ run' = [run EXCEPT !.total = Len(units')]
    BY <1>2 DEF Group, Grouped
  <2>2. DOMAIN packaged' = {} /\ run'.current = 0 /\ 1 .. 0 = {}
    BY <1>0, <2>1 DEF Row
  <2> QED BY <2>1, <2>2 DEF Read
<1>3. CASE Finish \/ StopBuild \/ Fail
  <2>1. UNCHANGED <<packaged, known, grown>> /\ stage' = "done"
    BY <1>3 DEF Finish, StopBuild, Fail, End, built
  <2> QED BY <2>1 DEF Read
<1>4. CASE OpenUnit
  <2>1. /\ UNCHANGED <<units, rows, packaged, run, archive, known, grown>>
        /\ stage = "opening" /\ stage' = "packing"
    BY <1>4 DEF OpenUnit, built
  <2>2. rows = <<>> /\ \A u \in 1 .. run.current : \A x \in ToSet(units[u].members) : x.origin \in DOMAIN packaged
    BY <2>1 DEF Read
  <2>3. Paging(Reading, <<>>, archive, known, grown)
    BY <1>0, PagingStart
  <2>4. Due' = Due /\ Reading' = Reading
    BY <2>1, SameDue
  <2>5. (IF Due = 0 THEN rows = <<>> ELSE Paging(Reading, rows, archive, known, grown))'
    BY <2>1, <2>2, <2>3, <2>4
  <2> QED BY <2>1, <2>2, <2>5 DEF Read
<1>5. CASE CloseUnit
  <2>1. /\ UNCHANGED <<units, rows, packaged, known, grown>>
        /\ stage = "packing" /\ stage' = "opening" /\ Due = 0
        /\ run' = [run EXCEPT !.current = @ + 1]
    BY <1>5 DEF CloseUnit, built
  <2>2. rows = <<>> /\ \A u \in 1 .. run.current : \A x \in ToSet(units[u].members) : x.origin \in DOMAIN packaged
    BY <2>1 DEF Read
  <2>3. \A x \in ToSet(units[run.current + 1].members) : x.origin \in DOMAIN packaged
    BY <2>1, CurrentFacts, DueFacts DEF Current
  <2>4. run'.current = run.current + 1
    BY <1>0, <2>1 DEF Row
  <2>5. \A u \in 1 .. run.current + 1 : u \in 1 .. run.current \/ u = run.current + 1
    BY <1>0
  <2>6. \A u \in 1 .. run.current + 1 : \A x \in ToSet(units[u].members) : x.origin \in DOMAIN packaged
    BY <2>2, <2>3, <2>5
  <2> QED BY <2>1, <2>2, <2>4, <2>6 DEF Read
<1>6. CASE ReadPage
  <2> DEFINE page == Page(Reading, Len(rows))
  <2>1. /\ UNCHANGED <<units, run, stage, archive, known, grown>> /\ stage = "packing" /\ Due # 0
        /\ IF Len(page) < PageSize
           THEN /\ packaged' = [o \in DOMAIN packaged \cup {Reading} |->
                                  IF o = Reading THEN rows \o page ELSE packaged[o]]
                /\ rows' = <<>>
           ELSE rows' = rows \o page /\ UNCHANGED packaged
    BY <1>6 DEF ReadPage
  <2>2. Paging(Reading, rows, archive, known, grown)
    BY <2>1 DEF Read
  <2>3. /\ Paging(Reading, rows \o page, archive, known, grown)
        /\ Len(page) < PageSize => FullReading(Reading, rows \o page, known, grown)
    BY <1>0, <2>2, PagingOn
  <2> HIDE DEF page
  <2>4. CASE Len(page) < PageSize
    <3>1. /\ DOMAIN packaged' = DOMAIN packaged \cup {Reading} /\ rows' = <<>>
          /\ \A o \in DOMAIN packaged' : packaged'[o] = IF o = Reading THEN rows \o page ELSE packaged[o]
      BY <2>1, <2>4
    <3>2. \A o \in DOMAIN packaged' : FullReading(o, packaged'[o], known, grown)
      BY <2>3, <2>4, <3>1 DEF Read
    <3>3. Paging(Reading', <<>>, archive, known, grown)
      BY <1>0, PagingStart
    <3>4. (IF Due = 0 THEN rows = <<>> ELSE Paging(Reading, rows, archive, known, grown))'
      BY <2>1, <3>1, <3>3
    <3>5. \A u \in 1 .. run.current : \A x \in ToSet(units[u].members) : x.origin \in DOMAIN packaged'
      BY <2>1, <3>1 DEF Read
    <3> QED BY <2>1, <3>2, <3>4, <3>5 DEF Read
  <2>5. CASE ~ (Len(page) < PageSize)
    <3>1. rows' = rows \o page /\ UNCHANGED packaged
      BY <2>1, <2>5
    <3>2. Due' = Due /\ Reading' = Reading
      BY <2>1, <3>1, SameDue
    <3>3. (IF Due = 0 THEN rows = <<>> ELSE Paging(Reading, rows, archive, known, grown))'
      BY <2>1, <2>3, <3>1, <3>2
    <3> QED BY <2>1, <3>1, <3>3 DEF Read
  <2> QED BY <2>4, <2>5
<1>7. ASSUME NEW a \in Messages, Ingest(a) PROVE Read'
  <2>1. /\ UNCHANGED <<units, rows, packaged, run, stage, known>> /\ archive' = archive \cup {a}
        /\ grown' = IF stage = "packing" /\ rows # <<>> /\ Holds(Reading, a)
                    THEN grown \cup {Reading} ELSE grown
    BY <1>7 DEF Ingest, built
  <2>2. grown \subseteq grown'
    BY <2>1
  <2>3. \A o \in DOMAIN packaged' : FullReading(o, packaged'[o], known', grown')
    BY <2>1, <2>2 DEF Read, FullReading
  <2>4. Due' = Due /\ Reading' = Reading
    BY <2>1, SameDue
  <2>5. ASSUME stage = "packing", Due # 0
        PROVE  Paging(Reading, rows, archive', known, grown')
    <3>1. PICK o : o = Reading
      OBVIOUS
    <3>2. Paging(o, rows, archive, known, grown)
      BY <2>5, <3>1 DEF Read
    <3>3. CASE rows = <<>>
      <4>1. archive' \in SUBSET Messages /\ known \in SUBSET archive'
        BY <1>0, <2>1
      <4> QED BY <3>3, <4>1, PagingStart
    <3>4. CASE rows # <<>>
      <4>1. Holds(o, a) => o \in grown'
        BY <2>1, <2>5, <3>1, <3>4
      <4>2. Paging(o, rows, archive \cup {a}, known, grown')
        BY <1>0, <2>2, <3>2, <4>1, PagingGrows
      <4> QED BY <2>1, <3>1, <4>2
    <3> QED BY <3>3, <3>4
  <2>6. stage' = "packing" => (IF Due = 0 THEN rows = <<>> ELSE Paging(Reading, rows, archive, known, grown))'
    BY <2>1, <2>4, <2>5 DEF Read
  <2> QED BY <2>1, <2>3, <2>6 DEF Read
<1>8. CASE RequestCancel \/ UNCHANGED vars
  <2>1. UNCHANGED <<units, rows, packaged, run, stage, archive, known, grown>>
    BY <1>8 DEF RequestCancel, vars, built
  <2>2. Due' = Due /\ Reading' = Reading
    BY <2>1, SameDue
  <2> QED BY <2>1, <2>2 DEF Read
<1> QED BY <1>1, <1>2, <1>3, <1>4, <1>5, <1>6, <1>7, <1>8 DEF Next, Build

(* The reading of an origin has a message twice only if the archive of the *)
(* origin grew between two of its pages: otherwise the pages are one       *)
(* listing of its messages in their order.                                 *)
THEOREM RepeatsNeedGrowth == Spec => []RepeatNeedsGrowth
<1>1. Init => Selected /\ Grouped /\ Read
  BY InitSelected, InitGrouped, InitRead
<1>2. Selected /\ Grouped /\ Read /\ [Next]_vars => (Selected /\ Grouped /\ Read)'
  BY StepSelected, StepGrouped, StepRead
<1>3. Read => RepeatNeedsGrowth
  BY DEF Read, FullReading, RepeatNeedsGrowth
<1> QED BY <1>1, <1>2, <1>3, PTL DEF Spec

-----------------------------------------------------------------------------
(* The extraction of points. *)
KeptAt(i) == {p \in DOMAIN packaged[items[i].origin] : Kept(<<i, p>>)}

Owning == {i \in DOMAIN items : KeptOf(i).messages # <<>>}

(* The place a message of the points was kept at. *)
Source(k, p) == <<Ascending(Owning)[k], Ascending(KeptAt(Ascending(Owning)[k]))[p]>>

AllSequences == \A i \in DOMAIN items : packaged[items[i].origin] \in Seq(Messages)

LEMMA PlacesAre ==
  \A i, p : <<i, p>> \in Places <=> i \in DOMAIN items /\ p \in DOMAIN packaged[items[i].origin]
BY DEF Places

LEMMA KeptOfIs ==
  ASSUME AllSequences, NEW i \in DOMAIN items
  PROVE  LET f == KeptOf(i).messages
             at == Ascending(KeptAt(i))
         IN  /\ KeptOf(i).origin = items[i].origin
             /\ DOMAIN f = 1 .. Len(f) /\ Len(f) \in Nat
             /\ at \in [DOMAIN f -> KeptAt(i)]
             /\ \A p \in DOMAIN f : f[p] = At(<<i, at[p]>>)
             /\ \A q \in KeptAt(i) : \E p \in DOMAIN f : at[p] = q
             /\ \A p, q \in DOMAIN f : at[p] = at[q] => p = q
<1> DEFINE s == packaged[items[i].origin]
           f == KeptOf(i).messages
           at == Ascending(KeptAt(i))
<1>1. s \in Seq(Messages)
  BY DEF AllSequences
<1>2. f = Filtered(s, KeptAt(i)) /\ KeptOf(i).origin = items[i].origin
  BY DEF KeptOf, KeptAt
<1>3. KeptAt(i) \in SUBSET DOMAIN s
  BY DEF KeptAt
<1>4. \A q : s[q] = At(<<i, q>>)
  BY DEF At
<1> HIDE DEF s, f, at
<1>5. /\ f \in Seq(Messages) /\ Len(f) \in Nat /\ DOMAIN f = 1 .. Len(f)
      /\ at \in [DOMAIN f -> KeptAt(i)]
      /\ \A k \in DOMAIN f : f[k] = s[at[k]]
      /\ \A q \in KeptAt(i) : \E k \in DOMAIN f : at[k] = q
      /\ \A k, l \in DOMAIN f : at[k] = at[l] => k = l
  BY <1>1, <1>2, <1>3, FilteredAt DEF at
<1> QED BY <1>2, <1>4, <1>5 DEF f, at

LEMMA CanonicalIs ==
  ASSUME items \in Seq(ItemSet)
  PROVE  LET P == CanonicalPoints
             at == Ascending(Owning)
         IN  /\ at \in [DOMAIN P -> Owning]
             /\ \A k \in DOMAIN P : P[k] = KeptOf(at[k])
             /\ \A i \in Owning : \E k \in DOMAIN P : at[k] = i
             /\ \A k, l \in DOMAIN P : at[k] = at[l] => k = l
<1> DEFINE V == {KeptOf(i) : i \in DOMAIN items}
           s == [i \in DOMAIN items |-> KeptOf(i)]
           P == CanonicalPoints
           at == Ascending(Owning)
<1>1. DOMAIN items = 1 .. Len(items) /\ Len(items) \in Nat
  OBVIOUS
<1>2. s \in Seq(V) /\ DOMAIN s = DOMAIN items
  <2>1. \A i \in DOMAIN items : KeptOf(i) \in V
    OBVIOUS
  <2> HIDE DEF V
  <2> QED BY <1>1, <2>1
<1>3. P = Filtered(s, Owning)
  BY DEF CanonicalPoints, Owning
<1>4. Owning \in SUBSET DOMAIN s
  BY <1>2 DEF Owning
<1>5. \A i \in DOMAIN s : s[i] = KeptOf(i)
  OBVIOUS
<1> HIDE DEF V, s, P, at
<1>6. /\ at \in [DOMAIN P -> Owning]
      /\ \A k \in DOMAIN P : P[k] = s[at[k]]
      /\ \A i \in Owning : \E k \in DOMAIN P : at[k] = i
      /\ \A k, l \in DOMAIN P : at[k] = at[l] => k = l
  BY <1>2, <1>3, <1>4, FilteredAt DEF at
<1> QED BY <1>4, <1>5, <1>6 DEF P, at

(* Every message of the points comes from one kept place of its own. *)
LEMMA SourceIs ==
  ASSUME items \in Seq(ItemSet), AllSequences,
         NEW k \in DOMAIN CanonicalPoints, NEW p \in DOMAIN CanonicalPoints[k].messages
  PROVE  /\ Source(k, p) \in Places /\ Kept(Source(k, p))
         /\ CanonicalPoints[k].messages[p] = At(Source(k, p))
         /\ CanonicalPoints[k].origin = items[Source(k, p)[1]].origin
<1> DEFINE i == Ascending(Owning)[k]
           q == Ascending(KeptAt(i))[p]
<1>1. i \in Owning /\ CanonicalPoints[k] = KeptOf(i)
  BY CanonicalIs
<1>2. i \in DOMAIN items
  BY <1>1 DEF Owning
<1>3. Source(k, p) = <<i, q>>
  BY DEF Source
<1> HIDE DEF i
<1>4. p \in DOMAIN KeptOf(i).messages
  BY <1>1
<1>5. q \in KeptAt(i) /\ KeptOf(i).messages[p] = At(<<i, q>>) /\ KeptOf(i).origin = items[i].origin
  BY <1>2, <1>4, KeptOfIs
<1> HIDE DEF q
<1>6. <<i, q>> \in Places /\ Kept(<<i, q>>)
  BY <1>2, <1>5, PlacesAre DEF KeptAt
<1> QED BY <1>1, <1>3, <1>5, <1>6

LEMMA SourceApart ==
  ASSUME items \in Seq(ItemSet), AllSequences,
         NEW k \in DOMAIN CanonicalPoints, NEW p \in DOMAIN CanonicalPoints[k].messages,
         NEW l \in DOMAIN CanonicalPoints, NEW r \in DOMAIN CanonicalPoints[l].messages,
         Source(k, p) = Source(l, r)
  PROVE  k = l /\ p = r
<1> DEFINE i == Ascending(Owning)[k]
           j == Ascending(Owning)[l]
<1>1. i = j /\ Ascending(KeptAt(i))[p] = Ascending(KeptAt(j))[r]
  BY DEF Source
<1>2. k = l /\ i \in Owning /\ CanonicalPoints[k] = KeptOf(i)
  BY <1>1, CanonicalIs
<1>3. i \in DOMAIN items
  BY <1>2 DEF Owning
<1> HIDE DEF i, j
<1>4. p \in DOMAIN KeptOf(i).messages /\ r \in DOMAIN KeptOf(i).messages
  BY <1>2
<1>5. p = r
  BY <1>1, <1>3, <1>4, KeptOfIs
<1> QED BY <1>2, <1>5

LEMMA SourceFor ==
  ASSUME items \in Seq(ItemSet), AllSequences, NEW i, NEW q, <<i, q>> \in Places, Kept(<<i, q>>)
  PROVE  \E k \in DOMAIN CanonicalPoints : \E p \in DOMAIN CanonicalPoints[k].messages :
           Source(k, p) = <<i, q>>
<1>1. i \in DOMAIN items /\ q \in KeptAt(i)
  BY PlacesAre DEF KeptAt
<1>2. PICK p \in DOMAIN KeptOf(i).messages : Ascending(KeptAt(i))[p] = q
  BY <1>1, KeptOfIs
<1>3. KeptOf(i).messages # <<>>
  <2>1. DOMAIN <<>> = {}
    OBVIOUS
  <2> QED BY <1>2, <2>1
<1>4. i \in Owning
  BY <1>1, <1>3 DEF Owning
<1>5. PICK k \in DOMAIN CanonicalPoints : Ascending(Owning)[k] = i
  BY <1>4, CanonicalIs
<1>6. CanonicalPoints[k] = KeptOf(i)
  BY <1>5, CanonicalIs
<1>7. p \in DOMAIN CanonicalPoints[k].messages
  BY <1>2, <1>6
<1>8. Source(k, p) = <<i, q>>
  BY <1>2, <1>5 DEF Source
<1> QED BY <1>7, <1>8

(* One of the places that offer a message keeps it. *)
LEMMA PlaceNumbers ==
  ASSUME items \in Seq(ItemSet), AllSequences, NEW a \in Places
  PROVE  /\ a = <<a[1], a[2]>> /\ a[1] \in Nat /\ a[2] \in Nat
         /\ a[1] \in DOMAIN items /\ a[2] \in DOMAIN packaged[items[a[1]].origin]
<1>1. PICK i \in DOMAIN items : \E p \in DOMAIN packaged[items[i].origin] : a = <<i, p>>
  BY DEF Places
<1>p. PICK p \in DOMAIN packaged[items[i].origin] : a = <<i, p>>
  BY <1>1
<1>2. DOMAIN items = 1 .. Len(items) /\ Len(items) \in Nat
  OBVIOUS
<1>3. packaged[items[i].origin] \in Seq(Messages)
  BY DEF AllSequences
<1>4. i \in Nat /\ p \in Nat
  BY <1>2, <1>3
<1> QED BY <1>p, <1>4

LEMMA KeptOnce ==
  ASSUME items \in Seq(ItemSet), AllSequences, NEW a \in Places, NEW b \in Places,
         Kept(a), Kept(b), At(a) = At(b)
  PROVE  a = b
<1>1. /\ a = <<a[1], a[2]>> /\ a[1] \in Nat /\ a[2] \in Nat
      /\ b = <<b[1], b[2]>> /\ b[1] \in Nat /\ b[2] \in Nat
  BY PlaceNumbers
<1>2. ~Earlier(a, b) /\ ~Earlier(b, a)
  BY DEF Kept
<1>3. a[1] = b[1] /\ a[2] = b[2]
  BY <1>1, <1>2 DEF Earlier
<1> QED BY <1>1, <1>3

LEMMA OfferedKept ==
  ASSUME items \in Seq(ItemSet), AllSequences, NEW a \in Places, Offered(a)
  PROVE  \E b \in Places : Kept(b) /\ At(b) = At(a)
<1> DEFINE S == {b \in Places : Offered(b) /\ At(b) = At(a)}
           I == {b[1] : b \in S}
<1>1. a \in S
  OBVIOUS
<1>2. \A b \in S : b \in Places /\ b = <<b[1], b[2]>> /\ b[1] \in Nat /\ b[2] \in Nat
  BY PlaceNumbers
<1>3. \A b \in S : Offered(b) /\ At(b) = At(a)
  OBVIOUS
<1>4. \A b \in Places : Offered(b) /\ At(b) = At(a) => b \in S
  OBVIOUS
<1> HIDE DEF S
<1>5. I \in SUBSET Nat /\ I # {}
  BY <1>1, <1>2
<1>6. PICK i \in I : \A j \in I : i <= j
  BY <1>5, LeastOf
<1> DEFINE Q == {b[2] : b \in {c \in S : c[1] = i}}
<1>7. Q \in SUBSET Nat /\ Q # {}
  BY <1>2, <1>6
<1>8. PICK p \in Q : \A q \in Q : p <= q
  BY <1>7, LeastOf
<1>9. PICK b \in S : b[1] = i /\ b[2] = p
  BY <1>8
<1>10. ASSUME NEW c \in S PROVE ~Earlier(c, b)
  <2>1. i \in Nat /\ p \in Nat /\ c[1] \in Nat /\ c[2] \in Nat /\ i <= c[1]
    BY <1>2, <1>5, <1>6, <1>7, <1>8, <1>10
  <2>2. c[1] = i => p <= c[2]
    BY <1>8, <1>10
  <2> QED BY <1>9, <2>1, <2>2 DEF Earlier
<1>11. Kept(b)
  BY <1>3, <1>4, <1>9, <1>10 DEF Kept
<1> QED BY <1>2, <1>3, <1>9, <1>11

LEMMA EveryPlaceKept ==
  ASSUME items \in Seq(ItemSet), AllSequences, NEW a \in Places
  PROVE  \E b \in Places :
           /\ Kept(b) /\ At(b) = At(a)
           /\ IsTopic(items[a[1]].origin) => IsTopic(items[b[1]].origin)
<1>1. \A c \in Places : IsTopic(items[c[1]].origin) => InTopic(At(c)) /\ Offered(c)
  <2> SUFFICES ASSUME NEW c \in Places, IsTopic(items[c[1]].origin) PROVE InTopic(At(c))
    BY DEF Offered
  <2>1. c[1] \in DOMAIN items /\ c[2] \in DOMAIN packaged[items[c[1]].origin]
    BY PlaceNumbers
  <2>2. At(c) \in ToSet(packaged[items[c[1]].origin])
    BY <2>1 DEF At, ToSet
  <2> QED BY <2>1, <2>2 DEF InTopic
<1>2. CASE IsTopic(items[a[1]].origin)
  <2>1. Offered(a) /\ InTopic(At(a))
    BY <1>1, <1>2
  <2>2. PICK b \in Places : Kept(b) /\ At(b) = At(a)
    BY <2>1, OfferedKept
  <2>3. Offered(b)
    BY <2>2 DEF Kept
  <2>4. IsTopic(items[b[1]].origin)
    BY <2>1, <2>2, <2>3 DEF Offered
  <2> QED BY <2>2, <2>4
<1>3. CASE ~IsTopic(items[a[1]].origin) /\ Offered(a)
  BY <1>3, OfferedKept
<1>4. CASE ~IsTopic(items[a[1]].origin) /\ ~Offered(a)
  <2>1. InTopic(At(a))
    BY <1>4 DEF Offered
  <2>2. PICK i \in DOMAIN items : IsTopic(items[i].origin) /\ At(a) \in ToSet(packaged[items[i].origin])
    BY <2>1 DEF InTopic
  <2>3. PICK p \in DOMAIN packaged[items[i].origin] : packaged[items[i].origin][p] = At(a)
    BY <2>2 DEF ToSet
  <2>4. <<i, p>> \in Places /\ At(<<i, p>>) = At(a)
    BY <2>3, PlacesAre DEF At
  <2>5. Offered(<<i, p>>)
    BY <2>2 DEF Offered
  <2>6. PICK b \in Places : Kept(b) /\ At(b) = At(<<i, p>>)
    BY <2>4, <2>5, OfferedKept
  <2> QED BY <1>4, <2>4, <2>6
<1> QED BY <1>2, <1>3, <1>4

(* What a run has that is completed. *)
Whole ==
  Completed =>
    /\ stage = "done" /\ points = CanonicalPoints
    /\ \A i \in DOMAIN items :
         FullReading(items[i].origin, packaged[items[i].origin], known, grown)
    /\ \A o \in Origins, m \in known :
         Selectable(o) /\ Holds(o, m) => \E i \in DOMAIN items : items[i] = Item(o)

LEMMA Asked ==
  ASSUME NEW o \in scope.origins \cap Origins, policy[o].enabled,
         scope.tags \subseteq ToSet(policy[IF Follows(o) /\ Parent(o) \in Origins THEN Parent(o) ELSE o].tags)
  PROVE  Selectable(o)
<1>1. CASE Follows(o) /\ Parent(o) \in Origins
  <2>1. FollowsParent(o) /\ ParentTags(o) = policy[Parent(o)].tags
    BY <1>1 DEF Follows, FollowsParent, OwnGrouping, ParentTags
  <2>2. Item(o).tags = policy[Parent(o)].tags
    BY <2>1 DEF Item
  <2> QED BY <1>1, <2>2 DEF Selectable
<1>2. CASE ~ (Follows(o) /\ Parent(o) \in Origins)
  <2>1. scope.tags \subseteq ToSet(policy[o].tags)
    BY <1>2
  <2>2. CASE ~FollowsParent(o)
    <3>1. Item(o).tags = policy[o].tags
      BY <2>2 DEF Item
    <3> QED BY <2>1, <3>1 DEF Selectable
  <2>3. CASE FollowsParent(o)
    <3>1. /\ IsTopic(o) /\ ~policy[o].important
          /\ policy[o].tags = <<>> \/ ToSet(policy[o].tags) = ToSet(ParentTags(o))
      BY <2>3 DEF FollowsParent, OwnGrouping
    <3>2. Parent(o) \notin Origins
      BY <1>2, <3>1 DEF Follows, ParentTags
    <3>3. ParentTags(o) = <<>> /\ Item(o).tags = <<>>
      BY <2>3, <3>2 DEF ParentTags, Item
    <3>4. ToSet(policy[o].tags) = ToSet(<<>>)
      BY <3>1, <3>3
    <3> QED BY <2>1, <3>3, <3>4 DEF Selectable
  <2> QED BY <2>2, <2>3
<1> QED BY <1>1, <1>2

LEMMA WholeSound ==
  ASSUME Selected, Whole
  PROVE  ExtractedOnce
<1> SUFFICES ASSUME Completed PROVE AllExtracted /\ OneOwner
  BY DEF ExtractedOnce
<1>1. /\ points = CanonicalPoints /\ items \in Seq(ItemSet)
      /\ \A i \in DOMAIN items :
           FullReading(items[i].origin, packaged[items[i].origin], known, grown)
      /\ \A o \in Origins, m \in known :
           Selectable(o) /\ Holds(o, m) => \E i \in DOMAIN items : items[i] = Item(o)
  BY DEF Whole, Selected
<1>2. AllSequences
  BY <1>1 DEF AllSequences, FullReading
<1>3. \A k, p : <<k, p>> \in Extracted <=> k \in DOMAIN points /\ p \in DOMAIN points[k].messages
  BY DEF Extracted
<1>4. \A x \in Extracted : \E k \in DOMAIN points : \E p \in DOMAIN points[k].messages :
        x = <<k, p>> /\ Message(x) = points[k].messages[p]
  BY DEF Extracted, Message
<1>5. ASSUME NEW a \in Places
      PROVE  \E x \in Extracted :
               /\ Message(x) = At(a)
               /\ IsTopic(items[a[1]].origin) => IsTopic(points[x[1]].origin)
  <2>1. PICK b \in Places : /\ Kept(b) /\ At(b) = At(a)
                            /\ IsTopic(items[a[1]].origin) => IsTopic(items[b[1]].origin)
    BY <1>1, <1>2, EveryPlaceKept
  <2>2. b = <<b[1], b[2]>>
    BY <1>1, <1>2, PlaceNumbers
  <2>3. <<b[1], b[2]>> \in Places /\ Kept(<<b[1], b[2]>>)
    BY <2>1, <2>2
  <2>k. PICK k \in DOMAIN CanonicalPoints : \E p \in DOMAIN CanonicalPoints[k].messages : Source(k, p) = b
    BY <1>1, <1>2, <2>2, <2>3, SourceFor
  <2>4. PICK p \in DOMAIN CanonicalPoints[k].messages : Source(k, p) = b
    BY <2>k
  <2>5. CanonicalPoints[k].messages[p] = At(b) /\ CanonicalPoints[k].origin = items[b[1]].origin
    BY <1>1, <1>2, <2>4, SourceIs
  <2>6. <<k, p>> \in Extracted
    BY <1>1, <1>3, <2>4
  <2>7. Message(<<k, p>>) = points[k].messages[p] /\ points[<<k, p>>[1]] = points[k]
    BY DEF Message
  <2> QED BY <1>1, <2>1, <2>5, <2>6, <2>7
<1>6. AllExtracted
  <2> SUFFICES ASSUME NEW o \in scope.origins \cap Origins, NEW m \in known,
                      policy[o].enabled, Holds(o, m),
                      scope.tags \subseteq
                        ToSet(policy[IF Follows(o) /\ Parent(o) \in Origins THEN Parent(o) ELSE o].tags)
               PROVE  \E x \in Extracted : Message(x) = m
    BY DEF AllExtracted
  <2>1. Selectable(o)
    BY Asked
  <2>2. PICK i \in DOMAIN items : items[i] = Item(o)
    BY <1>1, <2>1
  <2>3. items[i].origin = o
    BY <2>2, ItemFacts
  <2>4. m \in ToSet(packaged[items[i].origin])
    BY <1>1, <2>3 DEF FullReading
  <2>5. PICK p \in DOMAIN packaged[items[i].origin] : packaged[items[i].origin][p] = m
    BY <2>4 DEF ToSet
  <2>6. <<i, p>> \in Places /\ At(<<i, p>>) = m
    BY <2>5, PlacesAre DEF At
  <2> QED BY <1>5, <2>6
<1>7. \A x, y \in Extracted : Message(x) = Message(y) => x = y
  <2> SUFFICES ASSUME NEW x \in Extracted, NEW y \in Extracted, Message(x) = Message(y) PROVE x = y
    OBVIOUS
  <2>k. PICK k \in DOMAIN points : \E p \in DOMAIN points[k].messages :
          x = <<k, p>> /\ Message(x) = points[k].messages[p]
    BY <1>4
  <2>1. PICK p \in DOMAIN points[k].messages :
          x = <<k, p>> /\ Message(x) = points[k].messages[p]
    BY <2>k
  <2>l. PICK l \in DOMAIN points : \E r \in DOMAIN points[l].messages :
          y = <<l, r>> /\ Message(y) = points[l].messages[r]
    BY <1>4
  <2>2. PICK r \in DOMAIN points[l].messages :
          y = <<l, r>> /\ Message(y) = points[l].messages[r]
    BY <2>l
  <2>3. Source(k, p) \in Places /\ Kept(Source(k, p)) /\ Message(x) = At(Source(k, p))
    BY <1>1, <1>2, <2>1, SourceIs
  <2>4. Source(l, r) \in Places /\ Kept(Source(l, r)) /\ Message(y) = At(Source(l, r))
    BY <1>1, <1>2, <2>2, SourceIs
  <2>5. Source(k, p) = Source(l, r)
    BY <1>1, <1>2, <2>3, <2>4, KeptOnce
  <2>6. k = l /\ p = r
    BY <1>1, <1>2, <2>1, <2>2, <2>5, SourceApart
  <2> QED BY <2>1, <2>2, <2>6
<1>8. ASSUME NEW i \in DOMAIN items, NEW m \in ToSet(packaged[items[i].origin]), IsTopic(items[i].origin)
      PROVE  \E x \in Extracted : IsTopic(points[x[1]].origin) /\ Message(x) = m
  <2>1. PICK p \in DOMAIN packaged[items[i].origin] : packaged[items[i].origin][p] = m
    BY DEF ToSet
  <2>2. <<i, p>> \in Places /\ At(<<i, p>>) = m /\ <<i, p>>[1] = i
    BY <2>1, PlacesAre DEF At
  <2> QED BY <1>5, <1>8, <2>2
<1>9. OneOwner
  BY <1>7, <1>8 DEF OneOwner
<1> QED BY <1>6, <1>9

LEMMA SameCanonical ==
  ASSUME UNCHANGED <<items, packaged>>
  PROVE  CanonicalPoints' = CanonicalPoints
<1>1. Places' = Places /\ \A a : At(a)' = At(a)
  BY DEF Places, At
<1>2. \A m : InTopic(m)' <=> InTopic(m)
  BY DEF InTopic
<1>3. \A a : Offered(a)' <=> Offered(a)
  BY <1>1, <1>2 DEF Offered
<1>4. \A a : Kept(a)' <=> Kept(a)
  BY <1>1, <1>3 DEF Kept
<1>5. \A i : KeptOf(i)' = KeptOf(i)
  BY <1>4 DEF KeptOf
<1> QED BY <1>5 DEF CanonicalPoints

LEMMA StepWhole ==
  ASSUME Selected, Grouped, Read, Whole, [Next]_vars
  PROVE  Whole'
<1>0. run \in Row /\ known \in SUBSET archive
  BY DEF Selected
<1>1. CASE Finish
  <2>1. /\ UNCHANGED <<asked, items, packaged, known, grown, units>> /\ stage = "opening" /\ stage' = "done"
        /\ run.current = run.total /\ points' = CanonicalPoints
    BY <1>1 DEF Finish, End
  <2>2. WellGrouped(units) /\ run.total = Len(units) /\ probing = <<>>
    BY <2>1, UnitsFacts DEF Selected, Grouped
  <2>3. \A u \in DOMAIN units : \A x \in ToSet(units[u].members) : x.origin \in DOMAIN packaged
    BY <2>1, <2>2 DEF Read, WellGrouped
  <2>4. ASSUME NEW i \in DOMAIN items
        PROVE  FullReading(items[i].origin, packaged[items[i].origin], known, grown)
    <3>1. items[i] \in ToSet(items)
      BY DEF ToSet
    <3>2. PICK u \in DOMAIN units : items[i] \in ToSet(units[u].members)
      BY <2>2, <3>1 DEF WellGrouped
    <3> QED BY <2>3, <3>2 DEF Read
  <2>5. \A o \in Origins, m \in known :
          Selectable(o) /\ Holds(o, m) => \E i \in DOMAIN items : items[i] = Item(o)
    <3>1. DOMAIN probing = {}
      BY <2>2
    <3> QED BY <2>1, <3>1 DEF Selected, Found
  <2>6. CanonicalPoints' = CanonicalPoints
    BY <2>1, SameCanonical
  <2>7. \A o : Item(o)' = Item(o) /\ (Selectable(o)' <=> Selectable(o))
    BY <2>1, SameItems
  <2> QED BY <2>1, <2>4, <2>5, <2>6, <2>7 DEF Whole
<1>2. CASE Begin \/ SelectOrigins \/ Probe \/ Group \/ OpenUnit \/ ReadPage \/ CloseUnit \/ StopBuild \/ Fail
  <2>1. stage # "done"
    BY <1>2 DEF Begin, SelectOrigins, Probe, Group, OpenUnit, ReadPage, CloseUnit, StopBuild, Fail, AtCheck
  <2>2. run.status # "completed"
    BY <2>1 DEF Whole, Completed
  <2>3. CASE UNCHANGED run
    BY <2>2, <2>3 DEF Whole, Completed
  <2>4. CASE \E st \in {"running", "canceled", "failed"} : run' = [run EXCEPT !.status = st]
    <3>1. run'.status # "completed"
      BY <1>0, <2>4 DEF Row
    <3> QED BY <3>1 DEF Whole, Completed
  <2>5. CASE (\E n : run' = [run EXCEPT !.total = n]) \/ run' = [run EXCEPT !.current = @ + 1]
    <3>1. run'.status = run.status
      BY <1>0, <2>5 DEF Row
    <3> QED BY <2>2, <3>1 DEF Whole, Completed
  <2> QED BY <1>2, <2>3, <2>4, <2>5
      DEF Begin, SelectOrigins, Probe, Group, OpenUnit, ReadPage, CloseUnit, StopBuild, Fail, End
<1>3. CASE RequestCancel \/ UNCHANGED vars \/ \E a \in Messages : Ingest(a)
  <2>1. /\ UNCHANGED <<asked, items, packaged, known, points, run, stage>> /\ grown \subseteq grown'
    BY <1>3 DEF RequestCancel, vars, asked, built, Ingest
  <2>2. CanonicalPoints' = CanonicalPoints
    BY <2>1, SameCanonical
  <2>3. \A o : Item(o)' = Item(o) /\ (Selectable(o)' <=> Selectable(o))
    BY <2>1, SameItems
  <2>4. \A o, s : FullReading(o, s, known, grown) => FullReading(o, s, known, grown')
    BY <2>1 DEF FullReading
  <2> QED BY <2>1, <2>2, <2>3, <2>4 DEF Whole, Completed
<1> QED BY <1>1, <1>2, <1>3 DEF Next, Build

(* A completed run has given every known message of the origins it was     *)
(* asked for to one place of the points, and to a topic where a topic has  *)
(* read it: the units hold all items, each was read to its end, and of the *)
(* places that offer a message exactly the first one keeps it.             *)
THEOREM MessagesExtractedOnce == Spec => []ExtractedOnce
<1>1. Init => Selected /\ Grouped /\ Read /\ Whole
  <2>1. Init => Whole
    BY DEF Init, Whole, Completed
  <2> QED BY <2>1, InitSelected, InitGrouped, InitRead
<1>2. Selected /\ Grouped /\ Read /\ Whole /\ [Next]_vars => (Selected /\ Grouped /\ Read /\ Whole)'
  BY StepSelected, StepGrouped, StepRead, StepWhole
<1>3. Selected /\ Whole => ExtractedOnce
  BY WholeSound
<1> QED BY <1>1, <1>2, <1>3, PTL DEF Spec
=============================================================================
