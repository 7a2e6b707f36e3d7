------------------------ MODULE AccountRuntimeProofs ------------------------
(***************************************************************************)
(* The clients and the command lock of an account's runtimes, for every    *)
(* number of callers, runtimes, lost connections and failures: no client   *)
(* stays connected behind the supervisor or a stop, and operations work    *)
(* with the client one at a time.                                          *)
(***************************************************************************)
EXTENDS AccountRuntime, NaturalsInduction, WellFoundedInduction,
        SequenceTheorems, TLAPS

-----------------------------------------------------------------------------
(* Taking somebody out of a queue. *)
LEMMA LeastOf ==
  ASSUME NEW S \in SUBSET Nat, S # {}
  PROVE  Min(S) \in S /\ \A y \in S : Min(S) <= y
<1>1. PICK x \in S : \A y \in S : ~ (<<y, x>> \in OpToRel(<, Nat))
  BY NatLessThanWellFounded, WFMin
<1>2. \A y \in S : ~ (y < x)
  BY <1>1 DEF OpToRel
<1>3. \A y \in S : x <= y
  BY <1>2
<1> QED BY <1>3 DEF Min

LEMMA TakenOut ==
  ASSUME NEW S, NEW q \in Seq(S), NEW e, IsInjective(q)
  PROVE  LET p == RemoveFirst(q, e)
         IN  /\ p \in Seq(S) /\ IsInjective(p)
             /\ ToSet(p) = ToSet(q) \ {e}
             /\ e \notin ToSet(q) => p = q
             /\ Len(q) > 0 /\ q[1] # e => Len(p) > 0 /\ p[1] = q[1]
             /\ Len(q) > 0 /\ q[1] = e => <<e>> \o p = q
<1> DEFINE p == RemoveFirst(q, e)
           I == {i \in 1 .. Len(q) : q[i] = e}
<1>0. Len(q) \in Nat /\ DOMAIN q = 1 .. Len(q) /\ \A i \in 1 .. Len(q) : q[i] \in S
  OBVIOUS
<1>1. CASE I = {}
  <2>1. p = q
    BY <1>1 DEF RemoveFirst
  <2>2. e \notin ToSet(q)
    BY <1>0, <1>1 DEF ToSet
  <2>3. Len(q) > 0 => q[1] # e
    BY <1>0, <1>1
  <2> HIDE DEF p
  <2> QED BY <2>1, <2>2, <2>3 DEF p
<1>2. CASE I # {}
  <2> DEFINE k == Min(I)
  <2>1. k \in I /\ \A y \in I : k <= y
    BY <1>0, <1>2, LeastOf
  <2>2. p = SubSeq(q, 1, k - 1) \o SubSeq(q, k + 1, Len(q))
    BY <1>2 DEF RemoveFirst, RemoveAt, SelectInSeq
  <2> HIDE DEF k, p
  <2>3. k \in 1 .. Len(q) /\ q[k] = e
    BY <2>1
  <2>4. \A i \in 1 .. Len(q) : i # k => q[i] # e
    BY <1>0, <2>3 DEF IsInjective
  <2> HIDE DEF I
  <2> DEFINE s == SubSeq(q, 1, k - 1)
             t == SubSeq(q, k + 1, Len(q))
  <2>a. s \in Seq(S) /\ Len(s) = k - 1 /\ \A i \in 1 .. k - 1 : s[i] = q[i]
    <3>1. 1 \in Int /\ k - 1 \in Int /\ \A i \in 1 .. k - 1 : q[i] \in S
      BY <1>0, <2>3
    <3>2. /\ s \in Seq(S) /\ Len(s) = IF 1 <= k - 1 THEN (k - 1) - 1 + 1 ELSE 0
          /\ \A i \in 1 .. (k - 1) - 1 + 1 : s[i] = q[1 + i - 1]
      BY <3>1, SubSeqProperties
    <3> HIDE DEF s
    <3> QED BY <1>0, <2>3, <3>2
  <2>b. t \in Seq(S) /\ Len(t) = Len(q) - k /\ \A i \in 1 .. Len(q) - k : t[i] = q[k + i]
    <3>1. k + 1 \in Int /\ Len(q) \in Int /\ \A i \in k + 1 .. Len(q) : q[i] \in S
      BY <1>0, <2>3
    <3>2. /\ t \in Seq(S) /\ Len(t) = IF k + 1 <= Len(q) THEN Len(q) - (k + 1) + 1 ELSE 0
          /\ \A i \in 1 .. Len(q) - (k + 1) + 1 : t[i] = q[k + 1 + i - 1]
      BY <3>1, SubSeqProperties
    <3> HIDE DEF t
    <3>3. Len(t) = Len(q) - k
      <4>1. k \in Nat /\ Len(q) \in Nat /\ k <= Len(q)
        BY <1>0, <2>3
      <4>2. CASE k + 1 <= Len(q)
        <5>1. Len(t) = Len(q) - (k + 1) + 1
          BY <3>2, <4>2
        <5> QED BY <4>1, <5>1
      <4>3. CASE ~ (k + 1 <= Len(q))
        <5>1. Len(t) = 0
          BY <3>2, <4>3
        <5>2. Len(q) = k
          BY <4>1, <4>3
        <5> QED BY <4>1, <5>1, <5>2
      <4> QED BY <4>2, <4>3
    <3>4. ASSUME NEW i \in 1 .. Len(q) - k PROVE t[i] = q[k + i]
      <4>1. i \in 1 .. Len(q) - (k + 1) + 1 /\ k + 1 + i - 1 = k + i
        BY <1>0, <2>3
      <4> QED BY <3>2, <4>1
    <3> QED BY <3>2, <3>3, <3>4
  <2>c. p = s \o t
    BY <2>2
  <2> HIDE DEF s, t
  <2>h. /\ p \in Seq(S) /\ Len(p) = Len(s) + Len(t)
        /\ \A i \in 1 .. Len(s) + Len(t) : p[i] = IF i <= Len(s) THEN s[i] ELSE t[i - Len(s)]
    BY <2>a, <2>b, <2>c, ConcatProperties
  <2>d. p \in Seq(S) /\ Len(p) = Len(q) - 1
    BY <1>0, <2>3, <2>a, <2>b, <2>h
  <2>e. DOMAIN p = 1 .. Len(q) - 1
    BY <2>d
  <2>f. ASSUME NEW i \in 1 .. Len(q) - 1, i < k PROVE p[i] = q[i]
    <3>1. i \in 1 .. Len(s) + Len(t) /\ i <= Len(s) /\ i \in 1 .. k - 1
      BY <1>0, <2>3, <2>a, <2>b, <2>f
    <3> QED BY <2>a, <2>h, <3>1
  <2>g. ASSUME NEW i \in 1 .. Len(q) - 1, i >= k PROVE p[i] = q[i + 1]
    <3>1. p[i] = t[i - (k - 1)]
      <4>1. i \in 1 .. Len(s) + Len(t) /\ ~ (i <= Len(s)) /\ Len(s) = k - 1
        BY <1>0, <2>3, <2>a, <2>b, <2>g
      <4> QED BY <2>h, <4>1
    <3>2. i - (k - 1) \in 1 .. Len(q) - k /\ k + (i - (k - 1)) = i + 1
      BY <1>0, <2>3, <2>g
    <3> QED BY <2>b, <3>1, <3>2
  <2>5. /\ p \in Seq(S) /\ Len(p) = Len(q) - 1 /\ DOMAIN p = 1 .. Len(q) - 1
        /\ \A i \in 1 .. Len(q) - 1 : p[i] = IF i < k THEN q[i] ELSE q[i + 1]
    BY <1>0, <2>3, <2>d, <2>e, <2>f, <2>g
  <2>6. IsInjective(p)
    <3> SUFFICES ASSUME NEW i \in 1 .. Len(q) - 1, NEW j \in 1 .. Len(q) - 1, p[i] = p[j]
                 PROVE  i = j
      BY <2>5 DEF IsInjective
    <3>1. \A m, n \in 1 .. Len(q) : q[m] = q[n] => m = n
      BY <1>0 DEF IsInjective
    <3>2. CASE i < k /\ j < k
      BY <1>0, <2>3, <2>f, <3>1, <3>2
    <3>3. CASE i < k /\ j >= k
      BY <1>0, <2>3, <2>f, <2>g, <3>1, <3>3
    <3>4. CASE i >= k /\ j < k
      BY <1>0, <2>3, <2>f, <2>g, <3>1, <3>4
    <3>5. CASE i >= k /\ j >= k
      BY <1>0, <2>3, <2>g, <3>1, <3>5
    <3> QED BY <1>0, <2>3, <3>2, <3>3, <3>4, <3>5
  <2>7. ToSet(p) = ToSet(q) \ {e}
    <3>1. ASSUME NEW x \in ToSet(p) PROVE x \in ToSet(q) \ {e}
      BY <1>0, <2>3, <2>4, <2>5 DEF ToSet
    <3>2. ASSUME NEW x \in ToSet(q), x # e PROVE x \in ToSet(p)
      <4>1. PICK i \in 1 .. Len(q) : q[i] = x
        BY <1>0 DEF ToSet
      <4>2. CASE i < k
        <5>1. i \in 1 .. Len(q) - 1 /\ p[i] = x
          BY <1>0, <2>3, <2>5, <4>1, <4>2
        <5> QED BY <2>5, <5>1 DEF ToSet
      <4>3. CASE i > k
        <5>1. i - 1 \in 1 .. Len(q) - 1 /\ p[i - 1] = x
          BY <1>0, <2>3, <2>5, <4>1, <4>3
        <5> QED BY <2>5, <5>1 DEF ToSet
      <4>4. i # k
        BY <2>3, <3>2, <4>1
      <4> QED BY <2>3, <4>1, <4>2, <4>3, <4>4
    <3> QED BY <3>1, <3>2
  <2>8. ASSUME Len(q) > 0, q[1] # e PROVE Len(p) > 0 /\ p[1] = q[1]
    BY <1>0, <2>3, <2>5, <2>8
  <2>9. ASSUME Len(q) > 0, q[1] = e PROVE <<e>> \o p = q
    <3>1. k = 1
      BY <1>0, <2>4, <2>9
    <3>2. e \in S /\ <<e>> \in Seq(S) /\ Len(<<e>>) = 1 /\ <<e>>[1] = e
      BY <1>0, <2>9
    <3> DEFINE u == <<e>>
    <3>3. u \in Seq(S) /\ Len(u) = 1 /\ u[1] = e
      BY <3>2
    <3> HIDE DEF u
    <3>7. /\ u \o p \in Seq(S) /\ Len(u \o p) = 1 + Len(p)
          /\ \A i \in 1 .. 1 + Len(p) : (u \o p)[i] = IF i <= 1 THEN u[i] ELSE p[i - 1]
      BY <2>5, <3>3, ConcatProperties
    <3>4. u \o p \in Seq(S) /\ Len(u \o p) = Len(q)
      BY <1>0, <2>5, <3>7
    <3>5. ASSUME NEW i \in 1 .. Len(q) PROVE (u \o p)[i] = q[i]
      <4>1. CASE i = 1
        <5>1. 1 \in 1 .. 1 + Len(p)
          BY <1>0, <2>5
        <5>2. (u \o p)[1] = u[1]
          BY <3>7, <5>1
        <5> QED BY <2>9, <3>3, <4>1, <5>2
      <4>2. CASE i > 1
        <5>1. (u \o p)[i] = p[i - 1]
          <6>1. i \in 1 .. 1 + Len(p) /\ ~ (i <= 1)
            BY <1>0, <2>5, <4>2
          <6> QED BY <3>7, <6>1
        <5>2. i - 1 \in 1 .. Len(q) - 1 /\ ~ (i - 1 < k) /\ (i - 1) + 1 = i
          BY <1>0, <3>1, <4>2
        <5> QED BY <2>5, <5>1, <5>2
      <4>3. i = 1 \/ i > 1
        BY <1>0
      <4> QED BY <4>1, <4>2, <4>3
    <3>6. u \o p = q
      BY <3>4, <3>5, SeqEqual
    <3> QED BY <3>6 DEF u
  <2>10. e \in ToSet(q)
    BY <1>0, <2>3 DEF ToSet
  <2> QED BY <2>5, <2>6, <2>7, <2>8, <2>9, <2>10 DEF p
<1> QED BY <1>1, <1>2

-----------------------------------------------------------------------------
(* The inductive invariant.  Of the clients of a runtime only the latest    *)
(* can be connected, and it is then the one stop() would disconnect; a      *)
(* supervisor that is canceled is leaving or done and is not restarted.     *)
Sound(x) ==
  /\ x \in Runtime
  /\ x.sup = "unused" <=> Latest(x) = 0
  /\ \A n \in 1 .. Latest(x) : n < Latest(x) => x.clients[n] = "closed"
  /\ IsUp(x, Latest(x)) => x.current = Latest(x) /\ x.sup # "done"
                           /\ x.stop \notin {"supervisor", "returned"}
  /\ x.stop # "no" => x.stopping /\ x.sup # "unused"
  /\ x.stop \in {"supervisor", "returned"} => x.sup \in {"leaving", "done"}

RuntimesInv ==
  /\ rt \in [RuntimeId -> Runtime]
  /\ \A r \in RuntimeId : Sound(rt[r])
  /\ entry \in 0 .. MaxRuntimes
  /\ entry # 0 => rt[entry].sup # "unused"
  /\ session \in BOOLEAN

(* A call that is at work has the lock: it is the first in its queue. *)
AtWork(c) == calls[c] # Idle /\ calls[c].at \in {"client", "task", "resumed"}

Queued(c, r) == calls[c] # Idle /\ calls[c].at # "ready" /\ calls[c].r = r

LockInv ==
  /\ calls \in [Callers -> Call]
  /\ queue \in [RuntimeId -> Seq(Callers)]
  /\ \A r \in RuntimeId, c \in Callers : c \in ToSet(queue[r]) <=> Queued(c, r)
  /\ \A r \in RuntimeId : IsInjective(queue[r])
  /\ \A c \in Callers : AtWork(c) =>
       Len(queue[calls[c].r]) > 0 /\ queue[calls[c].r][1] = c

IInv == RuntimesInv /\ LockInv

(* Operations work with the client of a runtime one at a time, also those   *)
(* that wait for an activation: who is at work holds the command lock.      *)
OneAtWork ==
  \A c, d \in Callers :
    AtWork(c) /\ AtWork(d) /\ calls[c].r = calls[d].r => c = d

-----------------------------------------------------------------------------
(* What the helpers do to a sound runtime. *)
Kept(x, y) ==
  /\ y.clients = x.clients /\ y.sup = x.sup /\ y.current = x.current
  /\ y.stop = x.stop /\ y.stopping = x.stopping

LEMMA KeptIsSound ==
  ASSUME NEW x, Sound(x), NEW y \in Runtime, Kept(x, y)
  PROVE  Sound(y)
BY DEF Sound, Kept, Latest, IsUp

LEMMA LatestType ==
  ASSUME NEW x \in Runtime
  PROVE  /\ x.clients \in Seq(Connection) /\ Latest(x) \in Nat
         /\ DOMAIN x.clients = 1 .. Latest(x)
<1>1. x.clients \in Seq(Connection)
  BY DEF Runtime
<1> QED BY <1>1 DEF Latest

LEMMA PreparedKeeps ==
  ASSUME NEW x \in Runtime, NEW n \in Nat
  PROVE  Prepared(x, n) \in Runtime /\ Kept(x, Prepared(x, n))
BY DEF Prepared, Runtime, Kept

LEMMA ScheduledKeeps ==
  ASSUME NEW x \in Runtime, NEW n \in Nat
  PROVE  Scheduled(x, n) \in Runtime /\ Kept(x, Scheduled(x, n))
<1>1. CASE x.task # "none"
  BY <1>1 DEF Scheduled, Kept
<1>2. CASE x.task = "none"
  <2> DEFINE y == Prepared(x, n)
  <2>1. y \in Runtime /\ Kept(x, y)
    BY PreparedKeeps
  <2> DEFINE z == [y EXCEPT !.retry = 0, !.active = FALSE, !.task = "running", !.on = n]
  <2>2. Scheduled(x, n) = z
    BY <1>2 DEF Scheduled
  <2> HIDE DEF y
  <2>3. z \in Runtime
    BY <2>1 DEF Runtime
  <2>4. Kept(y, z)
    BY <2>1 DEF Kept, Runtime
  <2> HIDE DEF z
  <2> QED BY <2>1, <2>2, <2>3, <2>4 DEF Kept
<1> QED BY <1>1, <1>2

LEMMA ScheduledKnownKeeps ==
  ASSUME NEW x \in Runtime, NEW n \in Nat
  PROVE  ScheduledKnown(x, n) \in Runtime /\ Kept(x, ScheduledKnown(x, n))
<1> DEFINE y == [x EXCEPT !.known = n]
<1>1. y \in Runtime /\ Kept(x, y)
  BY DEF Runtime, Kept
<1>2. ScheduledKnown(x, n) = Scheduled(y, n)
  BY DEF ScheduledKnown
<1> HIDE DEF y
<1>3. Scheduled(y, n) \in Runtime /\ Kept(y, Scheduled(y, n))
  BY <1>1, ScheduledKeeps
<1> QED BY <1>1, <1>2, <1>3 DEF Kept

LEMMA IngestionStoppedKeeps ==
  ASSUME NEW x \in Runtime
  PROVE  IngestionStopped(x) \in Runtime /\ Kept(x, IngestionStopped(x))
BY DEF IngestionStopped, Runtime, Kept

LEMMA LeftIsSound ==
  ASSUME NEW x, Sound(x), x.sup \notin {"unused", "done"}
  PROVE  Sound(Left(x)) /\ Left(x).sup = "leaving" /\ Left(x).stop = x.stop
<1> DEFINE y == IngestionStopped(x)
<1>1. x \in Runtime
  BY DEF Sound
<1>2. y \in Runtime /\ Kept(x, y)
  BY <1>1, IngestionStoppedKeeps
<1>3. Sound(y) /\ y.sup \notin {"unused", "done"} /\ y.stop = x.stop
  BY <1>2, KeptIsSound DEF Kept
<1>4. Left(x) = [y EXCEPT !.ready = FALSE, !.sup = "leaving"]
  BY DEF Left
<1> HIDE DEF y
<1> DEFINE z == Left(x)
<1>5. /\ z \in Runtime /\ z.clients = y.clients /\ z.sup = "leaving" /\ z.current = y.current
      /\ z.stop = y.stop /\ z.stopping = y.stopping
  BY <1>2, <1>4 DEF Runtime
<1> HIDE DEF z
<1>6. Sound(z)
  BY <1>3, <1>5 DEF Sound, Latest, IsUp
<1> QED BY <1>3, <1>5, <1>6 DEF z

LEMMA DialledIsSound ==
  ASSUME NEW x \in Runtime, x.stop = "no",
         \A n \in 1 .. Latest(x) : x.clients[n] = "closed"
  PROVE  Sound(Dialled(x)) /\ Dialled(x).sup = "connecting"
<1> DEFINE y == [x EXCEPT !.clients = Append(@, "new"), !.sup = "connecting"]
           z == Prepared(y, Latest(x) + 1)
<1>0. Latest(x) \in Nat /\ x.clients \in Seq(Connection) /\ "new" \in Connection
  BY LatestType DEF Connection
<1>1. Append(x.clients, "new") \in Seq(Connection)
  BY <1>0
<1>2. y \in Runtime /\ y.clients = Append(x.clients, "new")
      /\ y.sup = "connecting" /\ y.stop = "no"
  BY <1>1 DEF Runtime
<1> HIDE DEF y
<1>3. z \in Runtime /\ Kept(y, z)
  BY <1>0, <1>2, PreparedKeeps
<1>4. Dialled(x) = z
  BY DEF Dialled, y
<1> HIDE DEF z
<1>5. z.clients = Append(x.clients, "new") /\ z.sup = "connecting" /\ z.stop = "no"
  BY <1>2, <1>3 DEF Kept
<1>6. Latest(z) = Latest(x) + 1
  BY <1>0, <1>5 DEF Latest
<1>7. \A n \in 1 .. Latest(z) : z.clients[n] = IF n < Latest(z) THEN "closed" ELSE "new"
  BY <1>0, <1>5, <1>6 DEF Latest
<1>8. Sound(z)
  BY <1>0, <1>3, <1>5, <1>6, <1>7 DEF Sound, IsUp
<1> QED BY <1>4, <1>5, <1>8

-----------------------------------------------------------------------------
(* The steps, and what they do to the runtimes. *)
LEMMA OneRuntimeChanges ==
  ASSUME RuntimesInv, NEW r \in RuntimeId, NEW y, Sound(y), y.sup # "unused",
         rt' = [rt EXCEPT ![r] = y], entry' = entry, session' \in BOOLEAN
  PROVE  RuntimesInv'
<1>1. y \in Runtime
  BY DEF Sound
<1>2. rt' \in [RuntimeId -> Runtime] /\ \A q \in RuntimeId : rt'[q] = IF q = r THEN y ELSE rt[q]
  BY <1>1 DEF RuntimesInv
<1>3. \A q \in RuntimeId : Sound(rt'[q])
  BY <1>2 DEF RuntimesInv
<1>4. entry' # 0 => rt'[entry'].sup # "unused"
  BY <1>2 DEF RuntimesInv, RuntimeId
<1> QED BY <1>2, <1>3, <1>4 DEF RuntimesInv

LEMMA OneRuntimeKept ==
  ASSUME RuntimesInv, NEW r \in RuntimeId, NEW y \in Runtime, Kept(rt[r], y),
         rt' = [rt EXCEPT ![r] = y], entry' = entry, session' \in BOOLEAN
  PROVE  RuntimesInv'
<1>1. Sound(y) /\ y.sup = rt[r].sup
  BY KeptIsSound DEF RuntimesInv, Kept
<1>2. CASE y.sup # "unused"
  BY <1>1, <1>2, OneRuntimeChanges
<1>3. CASE y.sup = "unused"
  <2>1. rt' \in [RuntimeId -> Runtime] /\ \A q \in RuntimeId : rt'[q] = IF q = r THEN y ELSE rt[q]
    BY DEF RuntimesInv
  <2>2. \A q \in RuntimeId : Sound(rt'[q])
    BY <1>1, <2>1 DEF RuntimesInv
  <2>3. entry' # 0 => rt'[entry'].sup # "unused"
    BY <1>1, <2>1 DEF RuntimesInv, RuntimeId
  <2> QED BY <2>1, <2>2, <2>3 DEF RuntimesInv
<1> QED BY <1>2, <1>3

(* The facts about a runtime that has a client. *)
LEMMA SoundFacts ==
  ASSUME RuntimesInv, NEW r \in RuntimeId
  PROVE  /\ rt[r] \in Runtime /\ Sound(rt[r])
         /\ rt[r].clients \in Seq(Connection)
         /\ Latest(rt[r]) \in Nat /\ Latest(rt[r]) = Len(rt[r].clients)
         /\ DOMAIN rt[r].clients = 1 .. Latest(rt[r])
         /\ rt[r].sup # "unused" => Latest(rt[r]) \in 1 .. Latest(rt[r])
<1>1. rt[r] \in Runtime /\ Sound(rt[r])
  BY DEF RuntimesInv
<1> QED BY <1>1, LatestType DEF Sound, Latest

(* The client at the end of a sound runtime, replaced. *)
LEMMA ClientReplaced ==
  ASSUME NEW x, Sound(x), x.sup # "unused", NEW k \in Connection,
         NEW y \in Runtime, y.clients = [x.clients EXCEPT ![Latest(x)] = k]
  PROVE  /\ Latest(y) = Latest(x) /\ Latest(y) > 0 /\ y.clients[Latest(y)] = k
         /\ DOMAIN y.clients = 1 .. Latest(y)
         /\ \A n \in 1 .. Latest(y) : n < Latest(y) => y.clients[n] = "closed"
<1>1. x \in Runtime /\ Latest(x) > 0
  <2>1. x \in Runtime
    BY DEF Sound
  <2> QED BY <2>1, LatestType DEF Sound
<1>2. /\ x.clients \in Seq(Connection) /\ Latest(x) \in Nat
      /\ DOMAIN x.clients = 1 .. Latest(x)
  BY <1>1, LatestType
<1>3. /\ y.clients \in Seq(Connection) /\ Latest(y) \in Nat
      /\ DOMAIN y.clients = 1 .. Latest(y)
  BY LatestType
<1>4. DOMAIN y.clients = DOMAIN x.clients
  BY <1>2
<1>5. Latest(y) = Latest(x)
  BY <1>2, <1>3, <1>4
<1>6. \A n \in 1 .. Latest(x) : n < Latest(x) => x.clients[n] = "closed"
  BY DEF Sound
<1> QED BY <1>1, <1>2, <1>3, <1>5, <1>6

LEMMA RegisteredKeeps ==
  ASSUME RuntimesInv, NEW r \in RuntimeId, Registered(r), UNCHANGED session
  PROVE  RuntimesInv'
<1>1. CASE UNCHANGED <<entry, rt>>
  BY <1>1 DEF RuntimesInv, RuntimeId
<1>2. CASE rt[r] = Unused /\ entry' = r /\ rt' = [rt EXCEPT ![r] = Dialled(@)]
  <2> DEFINE y == Dialled(rt[r])
  <2>1. rt[r].stop = "no" /\ Latest(rt[r]) = 0
    BY <1>2 DEF Unused, Latest
  <2>2. Sound(y) /\ y.sup = "connecting"
    BY <2>1, DialledIsSound, SoundFacts
  <2>3. rt' = [rt EXCEPT ![r] = y]
    BY <1>2
  <2>6. y \in Runtime
    BY <2>2 DEF Sound
  <2> HIDE DEF y
  <2>4. rt' \in [RuntimeId -> Runtime] /\ \A q \in RuntimeId : rt'[q] = IF q = r THEN y ELSE rt[q]
    BY <2>3, <2>6 DEF RuntimesInv
  <2>5. \A q \in RuntimeId : Sound(rt'[q])
    BY <2>2, <2>4 DEF RuntimesInv
  <2>7. entry' \in 0 .. MaxRuntimes /\ rt'[entry'].sup # "unused"
    BY <1>2, <2>2, <2>4, RuntimeAssumption DEF RuntimeId
  <2> QED BY <2>4, <2>5, <2>7 DEF RuntimesInv
<1> QED BY <1>1, <1>2 DEF Registered

LEMMA UnregisterKeeps ==
  ASSUME RuntimesInv, Unregister
  PROVE  RuntimesInv'
<1> DEFINE x == IngestionStopped(rt[entry])
           y == [x EXCEPT !.stopping = TRUE, !.stop = "ingestion"]
<1>1. entry \in RuntimeId /\ rt[entry].sup # "unused"
  BY DEF RuntimesInv, RuntimeId, Unregister
<1>2. x \in Runtime /\ Kept(rt[entry], x)
  BY <1>1, SoundFacts, IngestionStoppedKeeps
<1>3. Sound(x) /\ x.sup # "unused"
  BY <1>1, <1>2, KeptIsSound, SoundFacts DEF Kept
<1>4. rt' = [rt EXCEPT ![entry] = y]
  BY DEF Unregister
<1> HIDE DEF x
<1>5. /\ y \in Runtime /\ y.clients = x.clients /\ y.sup = x.sup /\ y.current = x.current
      /\ y.stopping = TRUE /\ y.stop = "ingestion"
  BY <1>2 DEF Runtime
<1> HIDE DEF y
<1>6. Sound(y) /\ y.sup # "unused"
  BY <1>3, <1>5 DEF Sound, Latest, IsUp
<1>7. rt' \in [RuntimeId -> Runtime] /\ \A q \in RuntimeId : rt'[q] = IF q = entry THEN y ELSE rt[q]
  BY <1>1, <1>4, <1>5 DEF RuntimesInv
<1>8. \A q \in RuntimeId : Sound(rt'[q])
  BY <1>6, <1>7 DEF RuntimesInv
<1> QED BY <1>7, <1>8, RuntimeAssumption DEF RuntimesInv, Unregister

LEMMA LoseKeeps ==
  ASSUME RuntimesInv, NEW r \in RuntimeId, Lose(r)
  PROVE  RuntimesInv'
<1>1. PICK n \in DOMAIN rt[r].clients : IsUp(rt[r], n) /\ rt' = [rt EXCEPT ![r].clients[n] = "lost"]
  BY DEF Lose
<1> DEFINE x == rt[r]
           y == [x EXCEPT !.clients = [x.clients EXCEPT ![n] = "lost"]]
<1>2. /\ x \in Runtime /\ Sound(x) /\ x.clients \in Seq(Connection)
      /\ Latest(x) \in Nat /\ DOMAIN x.clients = 1 .. Latest(x)
  BY SoundFacts
<1>3. rt' = [rt EXCEPT ![r] = y]
  BY <1>1
<1> HIDE DEF x
<1>4. x.clients[n] = "up" /\ n \in 1 .. Latest(x) /\ "lost" \in Connection
  BY <1>1, <1>2 DEF IsUp, Connection, x
<1>5. n = Latest(x)
  BY <1>2, <1>4 DEF Sound
<1>6. x.sup # "unused"
  BY <1>2, <1>4 DEF Sound
<1>7. [x.clients EXCEPT ![n] = "lost"] \in Seq(Connection)
  BY <1>2, <1>4, ExceptSeq
<1>8. /\ y \in Runtime /\ y.clients = [x.clients EXCEPT ![Latest(x)] = "lost"]
      /\ y.sup = x.sup /\ y.stop = x.stop /\ y.stopping = x.stopping
  BY <1>2, <1>5, <1>7 DEF Runtime
<1> HIDE DEF y
<1>9. /\ Latest(y) = Latest(x) /\ Latest(y) > 0 /\ y.clients[Latest(y)] = "lost"
      /\ \A m \in 1 .. Latest(y) : m < Latest(y) => y.clients[m] = "closed"
  BY <1>2, <1>4, <1>6, <1>8, ClientReplaced
<1>10. Sound(y) /\ y.sup # "unused"
  BY <1>2, <1>6, <1>8, <1>9 DEF Sound, IsUp
<1>11. entry' = entry /\ session' \in BOOLEAN
  BY DEF Lose, RuntimesInv
<1> QED BY <1>3, <1>10, <1>11, OneRuntimeChanges

LEMMA ConnectKeeps ==
  ASSUME RuntimesInv, NEW r \in RuntimeId, Connect(r)
  PROVE  RuntimesInv'
<1> DEFINE x == rt[r]
           y == [x EXCEPT !.clients = [x.clients EXCEPT ![Latest(x)] = "up"], !.sup = "checking",
                          !.current = Latest(x), !.ready = TRUE]
<1>1. x.sup = "connecting"
  BY DEF Connect
<1>2. /\ x \in Runtime /\ Sound(x) /\ x.clients \in Seq(Connection)
      /\ Latest(x) \in 1 .. Latest(x) /\ Latest(x) \in Nat /\ Latest(x) = Len(x.clients)
  BY <1>1, SoundFacts
<1>3. rt' = [rt EXCEPT ![r] = y]
  BY DEF Connect
<1> HIDE DEF x
<1>4. [x.clients EXCEPT ![Latest(x)] = "up"] \in Seq(Connection)
  BY <1>2, ExceptSeq DEF Connection
<1>5. /\ y \in Runtime /\ y.clients = [x.clients EXCEPT ![Latest(x)] = "up"]
      /\ y.sup = "checking" /\ y.current = Latest(x)
      /\ y.stop = x.stop /\ y.stopping = x.stopping
  BY <1>2, <1>4 DEF Runtime
<1> HIDE DEF y
<1>6. /\ Latest(y) = Latest(x) /\ Latest(y) > 0
      /\ \A m \in 1 .. Latest(y) : m < Latest(y) => y.clients[m] = "closed"
  <2>1. x.sup # "unused" /\ "up" \in Connection
    BY <1>1 DEF Connection, x
  <2> QED BY <1>2, <1>5, <2>1, ClientReplaced
<1>7. Sound(y) /\ y.sup # "unused"
  BY <1>1, <1>2, <1>5, <1>6 DEF Sound, IsUp
<1>8. entry' = entry /\ session' \in BOOLEAN
  BY DEF Connect, RuntimesInv
<1> QED BY <1>3, <1>7, <1>8, OneRuntimeChanges

(* A supervisor that is not stopped by stop() moves on. *)
LEMMA Moves ==
  ASSUME NEW x, Sound(x), NEW s \in {"live", "waiting"},
         x.sup \in {"connecting", "checking", "live"}
  PROVE  Sound([x EXCEPT !.sup = s]) /\ [x EXCEPT !.sup = s].sup = s
<1> DEFINE y == [x EXCEPT !.sup = s]
<1>1. x \in Runtime
  BY DEF Sound
<1>2. y \in Runtime /\ y.clients = x.clients /\ y.sup = s /\ y.current = x.current
      /\ y.stop = x.stop /\ y.stopping = x.stopping
  BY <1>1 DEF Runtime
<1> HIDE DEF y
<1>3. Sound(y)
  BY <1>2 DEF Sound, Latest, IsUp
<1> QED BY <1>2, <1>3 DEF y

LEMMA WaitingKeeps ==
  ASSUME RuntimesInv, NEW r \in RuntimeId, ConnectFails(r) \/ CheckFails(r) \/ NoticeLoss(r)
  PROVE  RuntimesInv'
<1> DEFINE y == [rt[r] EXCEPT !.sup = "waiting"]
<1>1. /\ rt[r].sup \in {"connecting", "checking", "live"}
      /\ rt' = [rt EXCEPT ![r] = y] /\ entry' = entry /\ session' = session
  BY DEF ConnectFails, CheckFails, NoticeLoss
<1>2. Sound(y) /\ y.sup = "waiting"
  BY <1>1, SoundFacts, Moves
<1> HIDE DEF y
<1>3. session' \in BOOLEAN
  BY <1>1 DEF RuntimesInv
<1> QED BY <1>1, <1>2, <1>3, OneRuntimeChanges

LEMMA CheckKeeps ==
  ASSUME RuntimesInv, NEW r \in RuntimeId, Check(r)
  PROVE  RuntimesInv'
<1> DEFINE x == rt[r]
           z == ScheduledKnown(x, Latest(x))
           y == IF ~IsUp(x, Latest(x)) THEN [x EXCEPT !.sup = "waiting"]
                ELSE IF session THEN [z EXCEPT !.sup = "live"]
                ELSE [x EXCEPT !.sup = "live"]
<1>1. /\ x.sup = "checking" /\ rt' = [rt EXCEPT ![r] = y]
      /\ entry' = entry /\ session' \in BOOLEAN
  BY DEF Check, RuntimesInv
<1>2. x \in Runtime /\ Sound(x) /\ Latest(x) \in Nat
  BY SoundFacts
<1>3. z \in Runtime /\ Kept(x, z)
  BY <1>2, ScheduledKnownKeeps
<1>4. Sound(z) /\ z.sup = "checking"
  BY <1>1, <1>2, <1>3, KeptIsSound DEF Kept
<1> HIDE DEF x, z
<1>5. Sound([x EXCEPT !.sup = "waiting"]) /\ [x EXCEPT !.sup = "waiting"].sup = "waiting"
  BY <1>1, <1>2, Moves
<1>6. Sound([x EXCEPT !.sup = "live"]) /\ [x EXCEPT !.sup = "live"].sup = "live"
  BY <1>1, <1>2, Moves
<1>7. Sound([z EXCEPT !.sup = "live"]) /\ [z EXCEPT !.sup = "live"].sup = "live"
  BY <1>4, Moves
<1>8. Sound(y) /\ y.sup # "unused"
  BY <1>5, <1>6, <1>7
<1> HIDE DEF y
<1> QED BY <1>1, <1>8, OneRuntimeChanges

LEMMA LeaveKeeps ==
  ASSUME RuntimesInv, NEW r \in RuntimeId, Leave(r)
  PROVE  RuntimesInv'
<1> DEFINE y == Left(rt[r])
<1>1. rt[r].sup \in {"waiting", "live"} /\ rt' = [rt EXCEPT ![r] = y]
      /\ entry' = entry /\ session' \in BOOLEAN
  BY DEF Leave, RuntimesInv
<1>2. Sound(y) /\ y.sup = "leaving"
  BY <1>1, SoundFacts, LeftIsSound
<1> HIDE DEF y
<1> QED BY <1>1, <1>2, OneRuntimeChanges

LEMMA RedialKeeps ==
  ASSUME RuntimesInv, NEW r \in RuntimeId, Redial(r)
  PROVE  RuntimesInv'
<1> DEFINE w == rt[r]
           x == [w EXCEPT !.clients = [w.clients EXCEPT ![Latest(w)] = "closed"], !.current = 0]
           z == [x EXCEPT !.sup = "done"]
           y == IF x.stopping THEN z ELSE Dialled(x)
<1>1. w.sup = "leaving" /\ entry' = entry /\ session' \in BOOLEAN
  BY DEF Redial, RuntimesInv
<1>2. /\ w \in Runtime /\ Sound(w) /\ w.clients \in Seq(Connection)
      /\ Latest(w) \in 1 .. Latest(w) /\ Latest(w) \in Nat /\ Latest(w) = Len(w.clients)
  BY <1>1, SoundFacts
<1>3. rt' = [rt EXCEPT ![r] = y]
  BY DEF Redial
<1> HIDE DEF w
<1>4. [w.clients EXCEPT ![Latest(w)] = "closed"] \in Seq(Connection)
  BY <1>2, ExceptSeq DEF Connection
<1>5. /\ x \in Runtime /\ x.clients = [w.clients EXCEPT ![Latest(w)] = "closed"]
      /\ x.sup = "leaving" /\ x.stop = w.stop /\ x.stopping = w.stopping
  BY <1>1, <1>2, <1>4 DEF Runtime
<1> HIDE DEF x
<1>6. /\ Latest(x) = Latest(w) /\ Latest(x) > 0
      /\ \A m \in 1 .. Latest(x) : x.clients[m] = "closed"
  <2>1. /\ Latest(x) = Latest(w) /\ Latest(x) > 0 /\ x.clients[Latest(x)] = "closed"
        /\ \A m \in 1 .. Latest(x) : m < Latest(x) => x.clients[m] = "closed"
    <3>1. w.sup # "unused" /\ "closed" \in Connection
      BY <1>1 DEF Connection
    <3> QED BY <1>2, <1>5, <3>1, ClientReplaced
  <2> QED BY <1>2, <2>1
<1>7. ASSUME x.stopping PROVE Sound(z) /\ z.sup = "done"
  <2>1. /\ z \in Runtime /\ z.clients = x.clients /\ z.sup = "done"
        /\ z.stop = x.stop /\ z.stopping = x.stopping
    BY <1>5 DEF Runtime
  <2> HIDE DEF z
  <2> QED BY <1>2, <1>5, <1>6, <1>7, <2>1 DEF Sound, Latest, IsUp
<1>8. ASSUME ~x.stopping PROVE Sound(Dialled(x)) /\ Dialled(x).sup = "connecting"
  <2>1. x.stop \in {"no", "ingestion", "client", "supervisor", "returned"}
    BY <1>5 DEF Runtime
  <2>2. x.stop = "no"
    BY <1>2, <1>5, <1>8 DEF Sound
  <2> QED BY <1>5, <1>6, <2>2, DialledIsSound
<1>9. Sound(y) /\ y.sup # "unused"
  BY <1>7, <1>8
<1> HIDE DEF y
<1> QED BY <1>1, <1>3, <1>9, OneRuntimeChanges

LEMMA ActivateKeeps ==
  ASSUME RuntimesInv, NEW r \in RuntimeId, Activate(r)
  PROVE  RuntimesInv'
<1> DEFINE x == rt[r]
           y == [x EXCEPT !.task = "ok", !.ended = "ok", !.known = x.on]
           z == [x EXCEPT !.task = "failed", !.ended = "failed"]
<1>1. /\ rt' = [rt EXCEPT ![r] = y] \/ rt' = [rt EXCEPT ![r] = z]
      /\ entry' = entry /\ session' \in BOOLEAN
  BY DEF Activate, RuntimesInv
<1>2. x \in Runtime
  BY SoundFacts
<1> HIDE DEF x
<1>3. y \in Runtime /\ Kept(x, y)
  BY <1>2 DEF Runtime, Kept
<1>4. z \in Runtime /\ Kept(x, z)
  BY <1>2 DEF Runtime, Kept
<1> HIDE DEF y, z
<1> USE DEF x
<1>5. CASE rt' = [rt EXCEPT ![r] = y]
  BY <1>1, <1>3, <1>5, OneRuntimeKept
<1>6. CASE rt' = [rt EXCEPT ![r] = z]
  BY <1>1, <1>4, <1>6, OneRuntimeKept
<1> QED BY <1>1, <1>5, <1>6

LEMMA IngestDoneKeeps ==
  ASSUME RuntimesInv, NEW r \in RuntimeId, IngestDone(r)
  PROVE  RuntimesInv'
<1> DEFINE w == rt[r]
           x == [w EXCEPT !.ended = "none"]
           a == [x EXCEPT !.active = TRUE]
           f == [x EXCEPT !.active = FALSE,
                          !.task = IF @ = "failed" THEN "none" ELSE @,
                          !.on = IF x.task = "failed" THEN 0 ELSE @,
                          !.retry = IF x.current # 0 THEN x.current ELSE @]
           y == CASE x.stopping -> x
                  [] ~x.stopping /\ w.ended = "ok" -> a
                  [] OTHER -> f
<1>1. rt' = [rt EXCEPT ![r] = y] /\ entry' = entry /\ session' \in BOOLEAN
  BY DEF IngestDone, RuntimesInv
<1>2. w \in Runtime
  BY SoundFacts
<1> HIDE DEF w
<1>3. x \in Runtime /\ Kept(w, x)
  BY <1>2 DEF Runtime, Kept
<1> HIDE DEF x
<1>4. a \in Runtime /\ Kept(x, a)
  BY <1>3 DEF Runtime, Kept
<1>5. f \in Runtime /\ Kept(x, f)
  <2>1. f.clients = x.clients /\ f.sup = x.sup /\ f.current = x.current
        /\ f.stop = x.stop /\ f.stopping = x.stopping
    BY <1>3 DEF Runtime
  <2>2. f \in Runtime
    BY <1>3 DEF Runtime
  <2> QED BY <2>1, <2>2 DEF Kept
<1> HIDE DEF a, f
<1>6. y \in Runtime /\ Kept(w, y)
  <2>1. y = x \/ y = a \/ y = f
    OBVIOUS
  <2> HIDE DEF y
  <2> QED BY <1>3, <1>4, <1>5, <2>1 DEF Kept
<1> HIDE DEF y
<1> QED BY <1>1, <1>6, OneRuntimeKept DEF w

LEMMA RetryActivationKeeps ==
  ASSUME RuntimesInv, NEW r \in RuntimeId, RetryActivation(r)
  PROVE  RuntimesInv'
<1> DEFINE w == rt[r]
           x == [w EXCEPT !.retry = 0]
           z == Scheduled(x, w.retry)
           y == IF x.stopping \/ x.current # w.retry THEN x ELSE z
<1>1. rt' = [rt EXCEPT ![r] = y] /\ entry' = entry /\ session' \in BOOLEAN
  BY DEF RetryActivation, RuntimesInv
<1>2. w \in Runtime
  BY SoundFacts
<1> HIDE DEF w
<1>3. x \in Runtime /\ Kept(w, x) /\ w.retry \in Nat
  BY <1>2 DEF Runtime, Kept
<1> HIDE DEF x
<1>4. z \in Runtime /\ Kept(x, z)
  BY <1>3, ScheduledKeeps
<1> HIDE DEF z
<1>5. y \in Runtime /\ Kept(w, y)
  BY <1>3, <1>4 DEF Kept
<1> HIDE DEF y
<1> QED BY <1>1, <1>5, OneRuntimeKept DEF w

LEMMA StopClientKeeps ==
  ASSUME RuntimesInv, NEW r \in RuntimeId, StopClient(r)
  PROVE  RuntimesInv'
<1> DEFINE x == rt[r]
           y == [x EXCEPT !.stop = "client"]
<1>1. /\ x.stop = "ingestion" /\ rt' = [rt EXCEPT ![r] = y]
      /\ entry' = entry /\ session' \in BOOLEAN
  BY DEF StopClient, RuntimesInv
<1>2. x \in Runtime /\ Sound(x)
  BY SoundFacts
<1>3. x.current # 0
  BY DEF StopClient
<1> HIDE DEF x
<1>4. /\ y \in Runtime /\ y.clients = x.clients /\ y.sup = x.sup /\ y.current = x.current
      /\ y.stopping = x.stopping /\ y.stop = "client"
  BY <1>2 DEF Runtime
<1> HIDE DEF y
<1>5. Sound(y)
  BY <1>1, <1>2, <1>4 DEF Sound, Latest, IsUp
<1>6. y.sup # "unused"
  BY <1>1, <1>2, <1>4 DEF Sound
<1> QED BY <1>1, <1>5, <1>6, OneRuntimeChanges

LEMMA StopSupervisorKeeps ==
  ASSUME RuntimesInv, NEW r \in RuntimeId, StopSupervisor(r)
  PROVE  RuntimesInv'
<1> DEFINE w == rt[r]
           v == [w EXCEPT !.clients = [w.clients EXCEPT ![Latest(w)] = "closed"]]
           x == IF w.stop = "client" THEN v ELSE w
           z == Canceled(x)
           y == [z EXCEPT !.stop = "supervisor"]
<1>1. /\ w.stop = "client" \/ (w.stop = "ingestion" /\ w.current = 0)
      /\ rt' = [rt EXCEPT ![r] = y] /\ entry' = entry /\ session' \in BOOLEAN
  BY DEF StopSupervisor, RuntimesInv
<1>2. w \in Runtime /\ Sound(w)
  BY SoundFacts
<1>3. w.sup # "unused" /\ w.stopping /\ w.stop # "no"
  BY <1>1, <1>2 DEF Sound
<1>4. w.clients \in Seq(Connection) /\ Latest(w) \in Nat /\ Latest(w) = Len(w.clients)
      /\ Latest(w) \in 1 .. Latest(w)
  BY <1>3, SoundFacts
<1> HIDE DEF w
<1>5. /\ x \in Runtime /\ Sound(x) /\ x.sup # "unused" /\ x.stopping
      /\ ~IsUp(x, Latest(x))
  <2>1. CASE w.stop = "client"
    <3>1. [w.clients EXCEPT ![Latest(w)] = "closed"] \in Seq(Connection) /\ "closed" \in Connection
      BY <1>4, ExceptSeq DEF Connection
    <3>2. /\ v \in Runtime /\ v.clients = [w.clients EXCEPT ![Latest(w)] = "closed"]
          /\ v.sup = w.sup /\ v.stop = w.stop /\ v.stopping = w.stopping
      BY <1>2, <3>1 DEF Runtime
    <3> HIDE DEF v
    <3>3. /\ Latest(v) = Latest(w) /\ Latest(v) > 0 /\ v.clients[Latest(v)] = "closed"
          /\ \A m \in 1 .. Latest(v) : m < Latest(v) => v.clients[m] = "closed"
      BY <1>2, <1>3, <3>1, <3>2, ClientReplaced
    <3>4. ~IsUp(v, Latest(v))
      BY <3>3 DEF IsUp
    <3>5. Sound(v)
      BY <1>2, <1>3, <3>2, <3>3, <3>4 DEF Sound
    <3> QED BY <1>3, <2>1, <3>2, <3>4, <3>5
  <2>2. CASE w.stop # "client"
    <3>1. ~IsUp(w, Latest(w))
      BY <1>1, <1>2, <1>4, <2>2 DEF Sound
    <3> QED BY <1>2, <1>3, <2>2, <3>1
  <2> QED BY <2>1, <2>2
<1> HIDE DEF x
<1>6. /\ z \in Runtime /\ z.clients = x.clients /\ z.sup \in {"leaving", "done"} /\ z.stopping
  <2>1. CASE x.sup = "done"
    BY <1>5, <2>1 DEF Canceled
  <2>2. CASE x.sup = "leaving"
    <3>1. z = [x EXCEPT !.sup = "done"]
      BY <2>2 DEF Canceled
    <3> HIDE DEF z
    <3> QED BY <1>5, <3>1 DEF Runtime
  <2>3. CASE x.sup \notin {"leaving", "done"}
    <3>1. z = Left(x)
      BY <2>3 DEF Canceled
    <3>2. IngestionStopped(x) \in Runtime /\ Kept(x, IngestionStopped(x))
      BY <1>5, IngestionStoppedKeeps
    <3> DEFINE i == IngestionStopped(x)
    <3>3. z = [i EXCEPT !.ready = FALSE, !.sup = "leaving"]
      BY <3>1 DEF Left
    <3> HIDE DEF i, z
    <3>4. i \in Runtime /\ i.clients = x.clients /\ i.stopping
      BY <1>5, <3>2 DEF Kept, i
    <3> QED BY <3>3, <3>4 DEF Runtime
  <2> QED BY <2>1, <2>2, <2>3
<1> HIDE DEF z
<1>7. /\ y \in Runtime /\ y.clients = x.clients /\ y.sup = z.sup
      /\ y.stopping /\ y.stop = "supervisor"
  BY <1>6 DEF Runtime
<1> HIDE DEF y
<1>8. Sound(y) /\ y.sup # "unused"
  BY <1>5, <1>6, <1>7 DEF Sound, Latest, IsUp
<1> QED BY <1>1, <1>8, OneRuntimeChanges

LEMMA StopReturnsKeeps ==
  ASSUME RuntimesInv, NEW r \in RuntimeId, StopReturns(r)
  PROVE  RuntimesInv'
<1> DEFINE x == rt[r]
           y == [x EXCEPT !.stop = "returned", !.current = 0, !.ready = FALSE]
<1>1. /\ x.stop = "supervisor" /\ x.sup = "done" /\ rt' = [rt EXCEPT ![r] = y]
      /\ entry' = entry /\ session' \in BOOLEAN
  BY DEF StopReturns, RuntimesInv
<1>2. x \in Runtime /\ Sound(x)
  BY SoundFacts
<1> HIDE DEF x
<1>3. /\ y \in Runtime /\ y.clients = x.clients /\ y.sup = "done" /\ y.stop = "returned"
      /\ y.stopping = x.stopping
  BY <1>1, <1>2 DEF Runtime
<1> HIDE DEF y
<1>4. Sound(y) /\ y.sup # "unused"
  BY <1>1, <1>2, <1>3 DEF Sound, Latest, IsUp
<1> QED BY <1>1, <1>4, OneRuntimeChanges

LEMMA OnAuthorizedKeeps ==
  ASSUME RuntimesInv, NEW r \in RuntimeId, NEW n \in Nat,
         rt' = [rt EXCEPT ![r] = ScheduledKnown(@, n)], entry' = entry, session' \in BOOLEAN
  PROVE  RuntimesInv'
<1> DEFINE y == ScheduledKnown(rt[r], n)
<1>1. y \in Runtime /\ Kept(rt[r], y)
  BY SoundFacts, ScheduledKnownKeeps
<1>2. rt' = [rt EXCEPT ![r] = y]
  OBVIOUS
<1> HIDE DEF y
<1> QED BY <1>1, <1>2, OneRuntimeKept

(* A call that is not idle is about one of the runtimes. *)
LEMMA CallFacts ==
  ASSUME calls \in [Callers -> Call], NEW c \in Callers, calls[c] # Idle
  PROVE  /\ calls[c].r \in RuntimeId /\ calls[c].n \in Nat /\ calls[c].op \in Operations
         /\ calls[c].at \in {"ready", "lock", "client", "task", "resumed"}
BY DEF Call

LEMMA NotIdle ==
  ASSUME NEW c, calls[c].at # "idle"
  PROVE  calls[c] # Idle
BY DEF Idle

LEMMA BeganKeeps ==
  ASSUME RuntimesInv, LockInv, NEW c \in Callers, calls[c] # Idle, Began(c),
         entry' = entry, session' \in BOOLEAN
  PROVE  RuntimesInv'
<1> DEFINE r == calls[c].r
           x == rt[r]
<1>1. r \in RuntimeId
  BY CallFacts DEF LockInv
<1>2. x.current \in Nat
  <2>1. x \in Runtime
    BY <1>1, SoundFacts
  <2> QED BY <2>1 DEF Runtime
<1>3. CASE UNCHANGED rt
  BY <1>3 DEF RuntimesInv
<1>4. CASE OnAuthorized(c, x.current)
  <2>1. rt' = [rt EXCEPT ![r] = ScheduledKnown(@, x.current)]
    BY <1>4 DEF OnAuthorized
  <2> QED BY <1>1, <1>2, <2>1, OnAuthorizedKeeps
<1> QED BY <1>3, <1>4 DEF Began

LEMMA AnsweredKeeps ==
  ASSUME RuntimesInv, LockInv, NEW c \in Callers, Answered(c)
  PROVE  RuntimesInv'
<1>1. calls[c] # Idle
  BY NotIdle DEF Answered
<1>2. calls[c].r \in RuntimeId /\ calls[c].n \in Nat
  BY <1>1, CallFacts DEF LockInv
<1>3. entry' = entry
  BY DEF Answered
<1>4. CASE OnAuthorized(c, calls[c].n) /\ session' = TRUE
  <2>1. rt' = [rt EXCEPT ![calls[c].r] = ScheduledKnown(@, calls[c].n)]
    BY <1>4 DEF OnAuthorized
  <2> QED BY <1>2, <1>3, <1>4, <2>1, OnAuthorizedKeeps
<1>5. CASE UNCHANGED <<rt, session>>
  BY <1>3, <1>5 DEF RuntimesInv
<1> QED BY <1>4, <1>5 DEF Answered

LEMMA RuntimesStep ==
  ASSUME RuntimesInv, LockInv, [Next]_vars
  PROVE  RuntimesInv'
<1>1. CASE Register
  BY <1>1, RegisteredKeeps DEF Register
<1>2. CASE Unregister
  BY <1>2, UnregisterKeeps
<1>3. ASSUME NEW r \in RuntimeId,
             \/ Supervise(r) \/ Lose(r) \/ ConnectFails(r) \/ CheckFails(r)
             \/ Activate(r) \/ IngestDone(r) \/ RetryActivation(r)
             \/ Stop(r)
      PROVE  RuntimesInv'
  BY <1>3, ConnectKeeps, CheckKeeps, WaitingKeeps, LeaveKeeps, RedialKeeps, LoseKeeps,
     ActivateKeeps, IngestDoneKeeps, RetryActivationKeeps, StopClientKeeps,
     StopSupervisorKeeps, StopReturnsKeeps DEF Supervise, Stop
<1>4. ASSUME NEW c \in Callers, Ask(c)
      PROVE  RuntimesInv'
  BY <1>4, RegisteredKeeps DEF Ask
<1>5. ASSUME NEW c \in Callers, Enter(c) \/ Acquire(c)
      PROVE  RuntimesInv'
  <2>1. calls[c] # Idle /\ entry' = entry /\ session' \in BOOLEAN
    BY <1>5, NotIdle DEF Enter, Acquire, RuntimesInv
  <2>2. CASE Began(c)
    BY <2>1, <2>2, BeganKeeps
  <2>3. CASE UNCHANGED rt
    BY <2>1, <2>3 DEF RuntimesInv
  <2> QED BY <1>5, <2>2, <2>3 DEF Enter, Acquire
<1>6. ASSUME NEW c \in Callers, Answered(c)
      PROVE  RuntimesInv'
  BY <1>6, AnsweredKeeps
<1>7. ASSUME NEW c \in Callers, Refreshed(c) \/ GiveUp(c)
      PROVE  RuntimesInv'
  <2>1. entry' = entry /\ rt' = rt /\ session' \in BOOLEAN
    BY <1>7 DEF Refreshed, GiveUp, RuntimesInv
  <2> QED BY <2>1 DEF RuntimesInv
<1>8. CASE UNCHANGED vars
  BY <1>8 DEF vars, RuntimesInv
<1> QED BY <1>1, <1>2, <1>3, <1>4, <1>5, <1>6, <1>7, <1>8 DEF Next, Serve

-----------------------------------------------------------------------------
(* The steps, and what they do to the command lock. *)
LEMMA LockFacts ==
  ASSUME LockInv, NEW r \in RuntimeId
  PROVE  /\ queue[r] \in Seq(Callers) /\ IsInjective(queue[r])
         /\ Len(queue[r]) \in Nat /\ DOMAIN queue[r] = 1 .. Len(queue[r])
         /\ \A i \in 1 .. Len(queue[r]) : queue[r][i] \in ToSet(queue[r])
         /\ queue[r] # <<>> <=> Len(queue[r]) > 0
<1>1. queue[r] \in Seq(Callers) /\ IsInjective(queue[r])
  BY DEF LockInv
<1> DEFINE q == queue[r]
<1>2. q \in Seq(Callers)
  BY <1>1
<1> HIDE DEF q
<1>3. Len(q) \in Nat /\ DOMAIN q = 1 .. Len(q) /\ (q # <<>> <=> Len(q) > 0)
  BY <1>2, EmptySeq
<1>4. \A i \in 1 .. Len(q) : q[i] \in ToSet(q)
  BY <1>3 DEF ToSet
<1> QED BY <1>1, <1>3, <1>4 DEF q

(* One call and the queue of its runtime change: what has to be shown. *)
Change(c, r, k, p) ==
  /\ calls' = [calls EXCEPT ![c] = k] /\ queue' = [queue EXCEPT ![r] = p]
  /\ k \in Call /\ p \in Seq(Callers) /\ IsInjective(p)
  /\ calls[c] # Idle => calls[c].r = r
  /\ k # Idle => k.r = r
  /\ \A d \in Callers : d # c => (d \in ToSet(p) <=> d \in ToSet(queue[r]))
  /\ c \in ToSet(p) <=> k # Idle /\ k.at # "ready"
  /\ \A d \in Callers : d # c /\ AtWork(d) /\ calls[d].r = r => Len(p) > 0 /\ p[1] = d
  /\ k # Idle /\ k.at \in {"client", "task", "resumed"} => Len(p) > 0 /\ p[1] = c

LEMMA OneCallChanges ==
  ASSUME LockInv, NEW c \in Callers, NEW r \in RuntimeId, NEW k, NEW p, Change(c, r, k, p)
  PROVE  LockInv'
<1>1. /\ calls' \in [Callers -> Call] /\ queue' \in [RuntimeId -> Seq(Callers)]
      /\ \A d \in Callers : calls'[d] = IF d = c THEN k ELSE calls[d]
      /\ \A q \in RuntimeId : queue'[q] = IF q = r THEN p ELSE queue[q]
  BY DEF LockInv, Change
<1>2. ASSUME NEW q \in RuntimeId, NEW d \in Callers
      PROVE  d \in ToSet(queue'[q]) <=> Queued(d, q)'
  <2>1. d \in ToSet(queue[q]) <=> Queued(d, q)
    BY DEF LockInv
  <2>2. CASE d = c
    BY <1>1, <2>1, <2>2 DEF Queued, Change
  <2>3. CASE d # c
    BY <1>1, <2>1, <2>3 DEF Queued, Change
  <2> QED BY <2>2, <2>3
<1>3. \A q \in RuntimeId : IsInjective(queue'[q])
  BY <1>1 DEF LockInv, Change
<1>4. ASSUME NEW d \in Callers, AtWork(d)'
      PROVE  Len(queue'[calls'[d].r]) > 0 /\ queue'[calls'[d].r][1] = d
  <2>1. CASE d = c
    BY <1>1, <1>4, <2>1 DEF AtWork, Change
  <2>2. CASE d # c
    <3>1. AtWork(d) /\ calls'[d] = calls[d]
      BY <1>1, <1>4, <2>2 DEF AtWork
    <3>2. calls[d].r \in RuntimeId
      BY <3>1, CallFacts DEF AtWork, LockInv
    <3>3. Len(queue[calls[d].r]) > 0 /\ queue[calls[d].r][1] = d
      BY <3>1 DEF LockInv
    <3> QED BY <1>1, <2>2, <3>1, <3>2, <3>3 DEF Change
  <2> QED BY <2>1, <2>2
<1>5. /\ \A q \in RuntimeId, d \in Callers : d \in ToSet(queue'[q]) <=> Queued(d, q)'
      /\ \A d \in Callers : AtWork(d)' => Len(queue'[calls'[d].r]) > 0 /\ queue'[calls'[d].r][1] = d
  BY <1>2, <1>4
<1> QED BY <1>1, <1>3, <1>5 DEF LockInv

LEMMA ReleasedKeeps ==
  ASSUME LockInv, NEW c \in Callers, calls[c] # Idle, Released(c)
  PROVE  LockInv'
<1> DEFINE r == calls[c].r
           p == RemoveFirst(queue[r], c)
<1>1. r \in RuntimeId
  BY CallFacts DEF LockInv
<1>2. queue[r] \in Seq(Callers) /\ IsInjective(queue[r])
  BY <1>1, LockFacts
<1>3. /\ p \in Seq(Callers) /\ IsInjective(p)
      /\ ToSet(p) = ToSet(queue[r]) \ {c}
      /\ Len(queue[r]) > 0 /\ queue[r][1] # c => Len(p) > 0 /\ p[1] = queue[r][1]
  BY <1>2, TakenOut
<1>4. calls' = [calls EXCEPT ![c] = Idle] /\ queue' = [queue EXCEPT ![r] = p]
  BY DEF Released
<1> HIDE DEF p
<1>5. Idle \in Call
  BY DEF Call
<1>6. \A d \in Callers : d # c /\ AtWork(d) /\ calls[d].r = r => Len(p) > 0 /\ p[1] = d
  BY <1>3 DEF LockInv
<1>7. Change(c, r, Idle, p)
  BY <1>3, <1>4, <1>5, <1>6 DEF Change
<1> QED BY <1>1, <1>7, OneCallChanges

LEMMA HoldingKeeps ==
  ASSUME LockInv, NEW c \in Callers, calls[c] # Idle,
         NEW n \in Nat, NEW at \in {"client", "task", "resumed"},
         queue[calls[c].r] # <<>> => queue[calls[c].r][1] = c,
         Holding(c, n, at)
  PROVE  LockInv'
<1> DEFINE r == calls[c].r
           q == queue[r]
           p == <<c>> \o RemoveFirst(q, c)
           k == [calls[c] EXCEPT !.at = at, !.n = n]
<1>1. r \in RuntimeId
  BY CallFacts DEF LockInv
<1>2. /\ q \in Seq(Callers) /\ IsInjective(q) /\ Len(q) \in Nat /\ DOMAIN q = 1 .. Len(q)
      /\ q # <<>> <=> Len(q) > 0
      /\ \A i \in 1 .. Len(q) : q[i] \in ToSet(q)
  BY <1>1, LockFacts
<1>3. calls' = [calls EXCEPT ![c] = k] /\ queue' = [queue EXCEPT ![r] = p]
  BY DEF Holding
<1>4. k \in Call /\ k # Idle /\ k.at = at /\ k.r = r
  <2>1. calls[c] \in [at : {"ready", "lock", "client", "task", "resumed"},
                      op : Operations, r : RuntimeId, n : Nat]
    BY DEF Call, LockInv
  <2> QED BY <2>1 DEF Call, Idle
<1>5. CASE q = <<>>
  <2>1. ToSet(q) = {}
    BY <1>2, <1>5 DEF ToSet
  <2>2. RemoveFirst(q, c) = q
    BY <1>2, <2>1, TakenOut
  <2>3. <<c>> \in Seq(Callers)
    OBVIOUS
  <2>4. p = <<c>>
    BY <1>5, <2>2, <2>3, ConcatEmptySeq
  <2> HIDE DEF p, k
  <2>5. p \in Seq(Callers) /\ Len(p) = 1 /\ p[1] = c /\ DOMAIN p = 1 .. 1
    BY <2>4
  <2>6. IsInjective(p) /\ ToSet(p) = {c}
    BY <2>5 DEF IsInjective, ToSet
  <2>7. \A d \in Callers : ~ (AtWork(d) /\ calls[d].r = r)
    BY <1>2, <1>5 DEF LockInv
  <2> HIDE DEF q
  <2>8. \A d \in Callers : d # c => (d \in ToSet(p) <=> d \in ToSet(queue[r]))
    BY <2>1, <2>6 DEF q
  <2>9. Change(c, r, k, p)
    BY <1>3, <1>4, <2>5, <2>6, <2>7, <2>8 DEF Change
  <2> QED BY <1>1, <2>9, OneCallChanges
<1>6. CASE q # <<>>
  <2>1. q[1] = c /\ Len(q) > 0 /\ c \in ToSet(q)
    BY <1>2, <1>6
  <2>2. p = q
    BY <1>2, <2>1, TakenOut
  <2> HIDE DEF p, k
  <2>3. \A d \in Callers : d # c => ~ (AtWork(d) /\ calls[d].r = r)
    BY <2>1 DEF LockInv
  <2>4. Change(c, r, k, p)
    BY <1>2, <1>3, <1>4, <2>1, <2>2, <2>3 DEF Change
  <2> QED BY <1>1, <2>4, OneCallChanges
<1> QED BY <1>5, <1>6

LEMMA WaitersKeep ==
  ASSUME LockInv, NEW r, WaitersResume(r), UNCHANGED queue
  PROVE  LockInv'
<1>1. ASSUME NEW c \in Callers
      PROVE  /\ calls'[c] \in Call
             /\ calls'[c] # Idle <=> calls[c] # Idle
             /\ calls[c] # Idle => /\ calls'[c].r = calls[c].r
                                   /\ calls'[c].at = "ready" <=> calls[c].at = "ready"
             /\ AtWork(c)' => AtWork(c)
  <2>1. calls[c] \in Call
    BY DEF LockInv
  <2>2. CASE calls[c].at = "task" /\ calls[c].r = r
    <3>1. calls[c] # Idle
      BY <2>2, NotIdle
    <3>2. calls'[c] = [calls[c] EXCEPT !.at = "resumed"]
      BY <2>2 DEF WaitersResume
    <3> QED BY <2>1, <2>2, <3>1, <3>2 DEF Call, Idle, AtWork
  <2>3. CASE ~ (calls[c].at = "task" /\ calls[c].r = r)
    <3>1. calls'[c] = calls[c]
      BY <2>3 DEF WaitersResume
    <3> QED BY <2>1, <3>1 DEF AtWork
  <2> QED BY <2>2, <2>3
<1>2. calls' \in [Callers -> Call]
  <2>1. calls' = [c \in Callers |-> calls'[c]]
    BY DEF WaitersResume
  <2> QED BY <1>1, <2>1
<1>3. \A q \in RuntimeId, c \in Callers : Queued(c, q)' <=> Queued(c, q)
  BY <1>1 DEF Queued
<1>4. \A c \in Callers : AtWork(c)' => Len(queue'[calls'[c].r]) > 0 /\ queue'[calls'[c].r][1] = c
  BY <1>1 DEF AtWork, LockInv
<1> QED BY <1>2, <1>3, <1>4 DEF LockInv

LEMMA AskLocks ==
  ASSUME LockInv, NEW c \in Callers, Ask(c)
  PROVE  LockInv'
<1>1. PICK r \in RuntimeId, op \in Operations :
        calls' = [calls EXCEPT ![c] = [at |-> "ready", op |-> op, r |-> r, n |-> 0]]
  BY DEF Ask
<1> DEFINE k == [at |-> "ready", op |-> op, r |-> r, n |-> 0]
           p == queue[r]
<1>2. k \in Call /\ k # Idle /\ k.r = r /\ k.at = "ready"
  BY DEF Call, Idle
<1>3. calls[c] = Idle /\ queue' = queue
  BY DEF Ask
<1>4. queue' = [queue EXCEPT ![r] = p]
  BY <1>3 DEF LockInv
<1>5. p \in Seq(Callers) /\ IsInjective(p)
  BY LockFacts
<1>6. c \notin ToSet(p)
  BY <1>3 DEF LockInv, Queued
<1>7. \A d \in Callers : AtWork(d) /\ calls[d].r = r => Len(p) > 0 /\ p[1] = d
  BY DEF LockInv
<1> HIDE DEF k
<1>8. calls' = [calls EXCEPT ![c] = k]
  BY <1>1 DEF k
<1>9. Change(c, r, k, p)
  BY <1>2, <1>3, <1>4, <1>5, <1>6, <1>7, <1>8 DEF Change
<1> QED BY <1>9, OneCallChanges

LEMMA WaitLocks ==
  ASSUME LockInv, NEW c \in Callers, calls[c] # Idle, calls[c].at = "ready",
         queue[calls[c].r] # <<>>,
         calls' = [calls EXCEPT ![c].at = "lock"],
         queue' = [queue EXCEPT ![calls[c].r] = Append(@, c)]
  PROVE  LockInv'
<1> DEFINE r == calls[c].r
           q == queue[r]
           p == Append(q, c)
           k == [calls[c] EXCEPT !.at = "lock"]
<1>1. r \in RuntimeId
  BY CallFacts DEF LockInv
<1>2. k \in Call /\ k # Idle /\ k.at = "lock" /\ k.r = r
  <2>1. calls[c] \in [at : {"ready", "lock", "client", "task", "resumed"},
                      op : Operations, r : RuntimeId, n : Nat]
    BY DEF Call, LockInv
  <2> QED BY <2>1 DEF Call, Idle
<1>3. /\ q \in Seq(Callers) /\ IsInjective(q) /\ Len(q) \in Nat /\ Len(q) > 0 /\ DOMAIN q = 1 .. Len(q)
      /\ \A i \in 1 .. Len(q) : q[i] \in ToSet(q)
  BY <1>1, LockFacts
<1>4. c \notin ToSet(q)
  BY <1>1 DEF LockInv, Queued
<1>5. \A d \in Callers : AtWork(d) /\ calls[d].r = r => Len(q) > 0 /\ q[1] = d
  BY DEF LockInv
<1>6. calls' = [calls EXCEPT ![c] = k] /\ queue' = [queue EXCEPT ![r] = p]
  OBVIOUS
<1> HIDE DEF q, k
<1>7. /\ p \in Seq(Callers) /\ Len(p) = Len(q) + 1 /\ DOMAIN p = 1 .. Len(q) + 1
      /\ \A i \in 1 .. Len(q) : p[i] = q[i]
      /\ p[Len(q) + 1] = c
  BY <1>3
<1> HIDE DEF p
<1>8. ToSet(p) = ToSet(q) \cup {c}
  <2>1. ToSet(p) = {p[i] : i \in 1 .. Len(q) + 1} /\ ToSet(q) = {q[i] : i \in 1 .. Len(q)}
    BY <1>3, <1>7 DEF ToSet
  <2>2. \A i \in 1 .. Len(q) + 1 : i \in 1 .. Len(q) \/ i = Len(q) + 1
    BY <1>3
  <2>3. 1 .. Len(q) \subseteq 1 .. Len(q) + 1 /\ Len(q) + 1 \in 1 .. Len(q) + 1
    BY <1>3
  <2> QED BY <1>7, <2>1, <2>2, <2>3
<1>9. IsInjective(p)
  <2>1. ASSUME NEW i \in 1 .. Len(q), NEW j \in 1 .. Len(q), p[i] = p[j] PROVE i = j
    BY <1>3, <1>7, <2>1 DEF IsInjective
  <2>2. ASSUME NEW i \in 1 .. Len(q) PROVE p[i] # p[Len(q) + 1]
    BY <1>3, <1>4, <1>7
  <2> QED BY <1>3, <1>7, <2>1, <2>2 DEF IsInjective
<1>10. p[1] = q[1] /\ Len(p) > 0
  BY <1>3, <1>7
<1>11. Change(c, r, k, p)
  BY <1>2, <1>5, <1>6, <1>7, <1>8, <1>9, <1>10 DEF Change, q
<1> QED BY <1>1, <1>11, OneCallChanges

LEMMA OnAuthorizedLocks ==
  ASSUME LockInv, NEW c \in Callers, calls[c] # Idle, NEW n \in Nat,
         queue[calls[c].r] # <<>> => queue[calls[c].r][1] = c,
         OnAuthorized(c, n)
  PROVE  LockInv'
<1>1. CASE Released(c)
  BY <1>1, ReleasedKeeps
<1>2. CASE \E at \in {"task", "resumed"} : Holding(c, n, at)
  BY <1>2, HoldingKeeps
<1>3. (\E at \in {"task", "resumed"} : Holding(c, n, at)) \/ Released(c)
  <2> DEFINE x == ScheduledKnown(rt[calls[c].r], n)
  <2>1. IF calls[c].op = "refresh_capture"
        THEN Holding(c, n, IF x.task = "running" THEN "task" ELSE "resumed")
        ELSE Released(c)
    BY DEF OnAuthorized
  <2> HIDE DEF x
  <2>2. CASE calls[c].op = "refresh_capture" /\ x.task = "running"
    BY <2>1, <2>2
  <2>3. CASE calls[c].op = "refresh_capture" /\ x.task # "running"
    BY <2>1, <2>3
  <2>4. CASE calls[c].op # "refresh_capture"
    BY <2>1, <2>4
  <2> QED BY <2>2, <2>3, <2>4
<1> QED BY <1>1, <1>2, <1>3

LEMMA BeganLocks ==
  ASSUME RuntimesInv, LockInv, NEW c \in Callers, calls[c] # Idle, Began(c),
         queue[calls[c].r] # <<>> => queue[calls[c].r][1] = c
  PROVE  LockInv'
<1> DEFINE x == rt[calls[c].r]
<1>1. x.current \in Nat
  <2>1. calls[c].r \in RuntimeId
    BY CallFacts DEF LockInv
  <2>2. x \in Runtime
    BY <2>1, SoundFacts
  <2> QED BY <2>2 DEF Runtime
<1>2. Released(c) \/ OnAuthorized(c, x.current) \/ Holding(c, x.current, "client")
  BY DEF Began
<1> HIDE DEF x
<1> QED BY <1>1, <1>2, ReleasedKeeps, OnAuthorizedLocks, HoldingKeeps

LEMMA LockStep ==
  ASSUME RuntimesInv, LockInv, [Next]_vars
  PROVE  LockInv'
<1>1. CASE UNCHANGED <<calls, queue>>
  BY <1>1 DEF LockInv, Queued, AtWork
<1>2. CASE Unregister
  BY <1>2, WaitersKeep DEF Unregister
<1>3. ASSUME NEW r \in RuntimeId, Leave(r) \/ Activate(r) \/ StopSupervisor(r)
      PROVE  LockInv'
  <2>1. queue' = queue /\ (WaitersResume(r) \/ UNCHANGED calls)
    BY <1>3 DEF Leave, Activate, StopSupervisor
  <2> QED BY <1>1, <2>1, WaitersKeep
<1>4. ASSUME NEW c \in Callers, Ask(c)
      PROVE  LockInv'
  BY <1>4, AskLocks
<1>5. ASSUME NEW c \in Callers, Enter(c)
      PROVE  LockInv'
  <2>1. calls[c] # Idle /\ calls[c].at = "ready"
    BY <1>5, NotIdle DEF Enter
  <2>2. CASE queue[calls[c].r] = <<>>
    BY <1>5, <2>1, <2>2, BeganLocks DEF Enter
  <2>3. CASE queue[calls[c].r] # <<>>
    BY <1>5, <2>1, <2>3, WaitLocks DEF Enter
  <2> QED BY <2>2, <2>3
<1>6. ASSUME NEW c \in Callers, Acquire(c)
      PROVE  LockInv'
  <2>1. calls[c] # Idle /\ calls[c].at = "lock" /\ Head(queue[calls[c].r]) = c /\ Began(c)
    BY <1>6, NotIdle DEF Acquire
  <2>2. queue[calls[c].r] # <<>> => queue[calls[c].r][1] = c
    <3>1. queue[calls[c].r] \in Seq(Callers)
      BY <2>1, CallFacts DEF LockInv
    <3> QED BY <2>1, <3>1
  <2> QED BY <2>1, <2>2, BeganLocks
<1>7. ASSUME NEW c \in Callers, Answered(c)
      PROVE  LockInv'
  <2>1. calls[c] # Idle /\ calls[c].at = "client"
    BY <1>7, NotIdle DEF Answered
  <2>2. queue[calls[c].r][1] = c /\ calls[c].n \in Nat
    BY <2>1, CallFacts DEF LockInv, AtWork
  <2>3. Released(c) \/ OnAuthorized(c, calls[c].n)
    BY <1>7 DEF Answered
  <2> QED BY <2>1, <2>2, <2>3, ReleasedKeeps, OnAuthorizedLocks
<1>8. ASSUME NEW c \in Callers, Refreshed(c) \/ GiveUp(c)
      PROVE  LockInv'
  <2>1. calls[c] # Idle /\ Released(c)
    BY <1>8, NotIdle DEF Refreshed, GiveUp
  <2> QED BY <2>1, ReleasedKeeps
<1>9. CASE Register
  BY <1>1, <1>9 DEF Register
<1>10. ASSUME NEW r \in RuntimeId,
              \/ Connect(r) \/ Check(r) \/ NoticeLoss(r) \/ Redial(r) \/ Lose(r)
              \/ ConnectFails(r) \/ CheckFails(r) \/ IngestDone(r) \/ RetryActivation(r)
              \/ StopClient(r) \/ StopReturns(r)
       PROVE  LockInv'
  <2>1. UNCHANGED <<calls, queue>>
    BY <1>10 DEF Connect, Check, NoticeLoss, Redial, Lose, ConnectFails, CheckFails,
                 IngestDone, RetryActivation, StopClient, StopReturns
  <2> QED BY <1>1, <2>1
<1>11. CASE UNCHANGED vars
  BY <1>1, <1>11 DEF vars
<1> QED BY <1>2, <1>3, <1>4, <1>5, <1>6, <1>7, <1>8, <1>9, <1>10, <1>11
        DEF Next, Supervise, Stop, Serve

-----------------------------------------------------------------------------
LEMMA InitInv ==
  ASSUME Init
  PROVE  IInv
<1>1. Unused \in Runtime /\ Latest(Unused) = 0 /\ Unused.clients = <<>>
  BY DEF Unused, Runtime, Latest
<1>2. Sound(Unused)
  BY <1>1 DEF Sound, IsUp, Unused
<1>3. RuntimesInv
  BY <1>1, <1>2, RuntimeAssumption DEF Init, RuntimesInv
<1>4. \A c \in Callers : calls[c] = Idle
  BY DEF Init
<1>5. \A r \in RuntimeId : queue[r] = <<>>
  BY DEF Init
<1>6. IsInjective(<<>>) /\ ToSet(<<>>) = {}
  BY DEF IsInjective, ToSet
<1>7. calls \in [Callers -> Call] /\ queue \in [RuntimeId -> Seq(Callers)]
  BY DEF Init, Call
<1>8. LockInv
  BY <1>4, <1>5, <1>6, <1>7 DEF LockInv, Queued, AtWork
<1> QED BY <1>3, <1>8 DEF IInv

LEMMA Invariance == Spec => []IInv
<1>1. IInv /\ [Next]_vars => IInv'
  BY RuntimesStep, LockStep DEF IInv
<1> QED BY InitInv, <1>1, PTL DEF Spec

(* Runtimes and calls keep their types, and the queue of a command lock is *)
(* that of the calls that hold it or wait for it.                          *)
THEOREM TypeCorrect == Spec => []RuntimeTypeOK
<1>1. IInv => RuntimeTypeOK
  BY DEF IInv, RuntimesInv, LockInv, RuntimeTypeOK, Queued
<1> QED BY Invariance, <1>1, PTL

(* A client the runtime has left behind is not connected any more, nor is   *)
(* any when stop() has returned, wherever stop() canceled the supervisor.   *)
THEOREM ClientsDoNotLeak == Spec => []NoClientLeaks
<1>1. ASSUME IInv PROVE NoClientLeaks
  <2> SUFFICES ASSUME NEW r \in RuntimeId, NEW n \in DOMAIN rt[r].clients, IsUp(rt[r], n)
               PROVE  n = Latest(rt[r]) /\ rt[r].stop # "returned"
    BY DEF NoClientLeaks
  <2>1. /\ Sound(rt[r]) /\ Latest(rt[r]) \in Nat /\ n \in 1 .. Latest(rt[r])
    BY <1>1, SoundFacts DEF IInv
  <2>2. n = Latest(rt[r])
    BY <2>1 DEF Sound, IsUp
  <2> QED BY <2>1, <2>2 DEF Sound
<1> QED BY Invariance, <1>1, PTL

(* Operations work with the client of a runtime one at a time, those that  *)
(* wait for an activation with the lock in their hands included.           *)
THEOREM OneAtATime == Spec => []OneAtWork
<1>1. IInv => OneAtWork
  BY DEF IInv, LockInv, OneAtWork
<1> QED BY Invariance, <1>1, PTL
=============================================================================
