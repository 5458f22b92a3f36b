-------------------------- MODULE Navigation_proofs --------------------------
(* Proofs about Navigation and the Observations it asks.                     *)
EXTENDS Navigation, SequenceTheorems, WellFoundedInduction, TLAPS

----------------------------------------------------------------------------
\* Sequences

\* A set of naturals that is not empty has a least element.
LEMMA Least ==
    ASSUME NEW S \in SUBSET Nat, S # {}
    PROVE  \E x \in S : \A y \in S : x <= y
<1>1. PICK x \in S : \A y \in S : ~ (<<y, x>> \in OpToRel(<, Nat))
  BY WFMin, NatLessThanWellFounded
<1>2. \A y \in S : ~ (y < x)
  BY <1>1 DEF OpToRel
<1>3. QED BY <1>2

\* What is left of a sequence once expired entries are dropped from its front: a suffix that
\* begins with a fresh entry and has all of them.
LEMMA FromFirstFresh ==
    ASSUME NEW T, NEW s \in Seq(T), NEW fresh \in SUBSET DOMAIN s
    PROVE  LET t == Obs!FromFirst(s, fresh) IN
           /\ t \in Seq(T)
           /\ \E k \in 0..Len(s) :
                /\ Len(t) = Len(s) - k
                /\ \A i \in 1..Len(t) : t[i] = s[i + k]
                /\ \A i \in fresh : i > k
                /\ t # <<>> => 1 + k \in fresh
<1> DEFINE t == Obs!FromFirst(s, fresh)
           first == IF fresh = {} THEN Len(s) + 1
                    ELSE CHOOSE i \in fresh : \A j \in fresh : i <= j
<1>1. t = SubSeq(s, first, Len(s))
  BY DEF Obs!FromFirst
<1>2. CASE fresh = {}
  <2>1. t = SubSeq(s, Len(s) + 1, Len(s))
    BY <1>1, <1>2
  <2>2. t \in Seq(T) /\ Len(t) = 0
    BY <2>1
  <2>3. QED BY <1>2, <2>2, Len(s) \in 0..Len(s)
<1>3. CASE fresh # {}
  <2>1. \E i \in fresh : \A j \in fresh : i <= j
    BY <1>3, Least
  <2>2. first \in fresh /\ \A j \in fresh : first <= j
    BY <1>3, <2>1
  <2> HIDE DEF first
  <2>a. DOMAIN s = 1..Len(s) /\ fresh \in SUBSET DOMAIN s
    OBVIOUS
  <2>3. first \in 1..Len(s)
    BY <2>2, <2>a
  <2>4. t \in Seq(T) /\ Len(t) = Len(s) - first + 1
    BY <1>1, <2>3
  <2>5. \A i \in 1..Len(t) : t[i] = s[i + first - 1]
    BY <1>1, <2>3, <2>4
  <2>6. /\ first - 1 \in 0..Len(s) /\ Len(t) = Len(s) - (first - 1)
        /\ \A i \in 1..Len(t) : t[i] = s[i + (first - 1)]
        /\ \A i \in fresh : i > first - 1
        /\ t # <<>> => 1 + (first - 1) \in fresh
    BY <2>2, <2>3, <2>4, <2>5
  <2>7. QED BY <2>4, <2>6
<1>4. QED BY <1>2, <1>3

LEMMA NewestSuffix ==
    ASSUME NEW T, NEW s \in Seq(T), NEW n \in Nat \ {0}
    PROVE  LET t == Obs!Newest(s, n) IN
           /\ t \in Seq(T) /\ Len(t) <= n
           /\ \E k \in 0..Len(s) :
                /\ Len(t) = Len(s) - k
                /\ \A i \in 1..Len(t) : t[i] = s[i + k]
<1> DEFINE t == Obs!Newest(s, n)
           k == IF Len(s) > n THEN Len(s) - n ELSE 0
<1>1. t = SubSeq(s, k + 1, Len(s)) /\ k \in 0..Len(s) /\ Len(s) - k <= n
  BY DEF Obs!Newest
<1> HIDE DEF k
<1>2. t \in Seq(T) /\ Len(t) = Len(s) - k /\ \A i \in 1..Len(t) : t[i] = s[i + k]
  BY <1>1
<1>3. QED BY <1>1, <1>2

----------------------------------------------------------------------------
\* The store: what it knows of the vehicle's way, and which snapshots it serves

Samples == [age : 0..AgeCap, held : 0..AgeCap, place : 0..Path]
Flying == [age : 0..OdomDelay, place : 0..Path]
Records == [made : 0..Obs!MadeCap, read : BOOLEAN]

StoreTypes ==
    /\ place \in 0..Path /\ sampled \in BOOLEAN
    /\ transit \in Seq(Flying) /\ odom \in Seq(Samples)
    /\ snaps \in Seq(Records) /\ Len(snaps) <= Limit

\* No sample was received before it was taken.
HeldBelowAge(h) == \A i \in DOMAIN h : h[i].held <= h[i].age

\* When and where, of every sample in a history or on its way to it.
ReadingsOf(h, t) ==
    {<<h[i].age, h[i].place>> : i \in DOMAIN h} \cup {<<t[i].age, t[i].place>> : i \in DOMAIN t}
Readings == ReadingsOf(odom, transit)

\* Whatever comes after a snapshot nobody has read was created no earlier, but for a stall.
Ordered(s) ==
    \A i, j \in DOMAIN s : i < j /\ ~s[j].read => s[j].made <= s[i].made + MaxStall

\* Samples on their way are in the order they were taken.
InOrder(t) == \A i, j \in DOMAIN t : i < j => t[i].age >= t[j].age

SInv == StoreTypes /\ HeldBelowAge(odom) /\ Ordered(snaps) /\ InOrder(transit)

MakingTypes == making \in [Requests -> ((0..MaxStall) \X (0..Path)) \cup {NoSnapshot}]

\* No time passes, and no reading within the history is lost.
Keeps ==
    /\ SInv' /\ place' = place /\ sampled' = sampled
    /\ Readings' \subseteq Readings
    /\ \A x \in Readings : x[1] <= History => x \in Readings'

\* The reading x one quantum later.
Later(x) == <<Obs!AtMost(AgeCap, x[1] + 1), x[2]>>

LEMMA StoreConstants ==
    /\ History \in Nat /\ Ttl \in Nat /\ MaxPoseDt \in Nat /\ OdomDelay \in Nat
    /\ MaxStall \in Nat /\ Path \in Nat /\ AgeCap \in Nat /\ AgeCap > History + OdomDelay
    /\ Limit \in Nat \ {0} /\ NoSnapshot \notin Nat \X Nat
BY NavigationAssumption DEF Obs!ObservationsAssumption

\* A trimmed history has the recent samples of the history, and no others.
LEMMA TrimmedHistory ==
    ASSUME NEW h \in Seq(Samples), NEW lag \in Nat
    PROVE  LET g == Obs!TrimmedOdom(h, lag) IN
           /\ g \in Seq(Samples)
           /\ \A i \in DOMAIN g : \E j \in DOMAIN h : g[i] = h[j]
           /\ \A j \in DOMAIN h : h[j].held <= History => \E i \in DOMAIN g : g[i] = h[j]
<1> DEFINE fresh == {i \in DOMAIN h : h[i].held - lag <= History}
           g == Obs!TrimmedOdom(h, lag)
<1>1. fresh \in SUBSET DOMAIN h /\ g = Obs!FromFirst(h, fresh)
  BY DEF Obs!TrimmedOdom
<1>2. ASSUME NEW j \in DOMAIN h, h[j].held <= History PROVE j \in fresh
  <2>1. h[j] \in Samples
    OBVIOUS
  <2>2. QED BY <1>2, <2>1, StoreConstants DEF Samples
<1> HIDE DEF fresh, g
<1>3. g \in Seq(Samples) /\ \E k \in 0..Len(h) :
        /\ Len(g) = Len(h) - k
        /\ \A i \in 1..Len(g) : g[i] = h[i + k]
        /\ \A i \in fresh : i > k
  BY <1>1, FromFirstFresh
<1>4. PICK k \in 0..Len(h) :
        /\ Len(g) = Len(h) - k
        /\ \A i \in 1..Len(g) : g[i] = h[i + k]
        /\ \A i \in fresh : i > k
  BY <1>3
<1>a. /\ DOMAIN g = 1..Len(g) /\ Len(g) \in Nat /\ Len(g) = Len(h) - k
      /\ DOMAIN h = 1..Len(h) /\ Len(h) \in Nat
  <2>1. g \in Seq(Samples) /\ Len(g) = Len(h) - k
    BY <1>3, <1>4, Zenon
  <2>2. QED BY <2>1
<1>5. \A i \in DOMAIN g : \E j \in DOMAIN h : g[i] = h[j]
  <2> TAKE i \in DOMAIN g
  <2>1. i + k \in DOMAIN h /\ g[i] = h[i + k]
    BY <1>4, <1>a
  <2>2. QED BY <2>1
<1>6. ASSUME NEW j \in DOMAIN h, h[j].held <= History
      PROVE  \E i \in DOMAIN g : g[i] = h[j]
  <2>1. j > k
    BY <1>2, <1>4, <1>6
  <2>2. j - k \in 1..Len(g) /\ (j - k) + k = j
    BY <1>a, <2>1
  <2>3. j - k \in DOMAIN g /\ g[j - k] = h[j]
    BY <1>4, <1>a, <2>2
  <2>4. QED BY <2>3
<1>7. QED BY <1>3, <1>5, <1>6 DEF g

\* So trimming forgets no reading within the history.
LEMMA TrimmedReadings ==
    ASSUME NEW h \in Seq(Samples), NEW lag \in Nat, HeldBelowAge(h), NEW t
    PROVE  LET g == Obs!TrimmedOdom(h, lag) IN
           /\ g \in Seq(Samples) /\ HeldBelowAge(g)
           /\ ReadingsOf(g, t) \subseteq ReadingsOf(h, t)
           /\ \A x \in ReadingsOf(h, t) : x[1] <= History => x \in ReadingsOf(g, t)
<1> DEFINE g == Obs!TrimmedOdom(h, lag)
<1>1. /\ g \in Seq(Samples)
      /\ \A i \in DOMAIN g : \E j \in DOMAIN h : g[i] = h[j]
      /\ \A j \in DOMAIN h : h[j].held <= History => \E i \in DOMAIN g : g[i] = h[j]
  BY TrimmedHistory
<1> HIDE DEF g
<1>2. HeldBelowAge(g)
  BY <1>1 DEF HeldBelowAge
<1>3. ReadingsOf(g, t) \subseteq ReadingsOf(h, t)
  BY <1>1 DEF ReadingsOf
<1>4. ASSUME NEW j \in DOMAIN h, h[j].age <= History
      PROVE  \E i \in DOMAIN g : g[i] = h[j]
  <2>1. h[j] \in Samples /\ h[j].held <= h[j].age
    BY DEF HeldBelowAge
  <2>2. h[j].held <= History
    BY <2>1, <1>4, StoreConstants DEF Samples
  <2>3. QED BY <2>2, <1>1
<1>5. ASSUME NEW x \in ReadingsOf(h, t), x[1] <= History PROVE x \in ReadingsOf(g, t)
  <2>1. CASE \E i \in DOMAIN t : x = <<t[i].age, t[i].place>>
    BY <2>1 DEF ReadingsOf
  <2>2. CASE \E j \in DOMAIN h : x = <<h[j].age, h[j].place>>
    <3>1. PICK j \in DOMAIN h : x = <<h[j].age, h[j].place>>
      BY <2>2
    <3>2. h[j].age <= History
      BY <3>1, <1>5
    <3>3. PICK i \in DOMAIN g : g[i] = h[j]
      BY <1>4, <3>2
    <3>4. QED BY <3>1, <3>3 DEF ReadingsOf
  <2>3. QED BY <2>1, <2>2 DEF ReadingsOf
<1>6. QED BY <1>1, <1>2, <1>3, <1>5 DEF g

\* Trimmed snapshots stay in order, no more than the limit, and those nobody has read are
\* not older than their TTL and two stalls.
LEMMA TrimmedSnapshots ==
    ASSUME NEW s \in Seq(Records), Ordered(s), NEW lag \in 0..MaxStall
    PROVE  LET t == Obs!Trimmed(s, lag) IN
           /\ t \in Seq(Records) /\ Len(t) <= Limit /\ Ordered(t)
           /\ \A i \in DOMAIN t : t[i].read \/ t[i].made <= Ttl + 2 * MaxStall
<1> DEFINE fresh == {i \in DOMAIN s : s[i].made - lag <= Ttl}
           u == Obs!FromFirst(s, fresh)
           t == Obs!Newest(u, Limit)
<1>a. Ttl \in Nat /\ MaxStall \in Nat /\ Limit \in Nat \ {0} /\ Obs!MadeCap \in Nat
  BY StoreConstants DEF Obs!MadeCap
<1>1. Obs!Trimmed(s, lag) = t
  BY DEF Obs!Trimmed
<1>c. ASSUME NEW z \in Seq(Records), NEW i \in DOMAIN z PROVE z[i].made \in Nat
  <2>1. z[i] \in Records
    OBVIOUS
  <2>2. QED BY <2>1, <1>a DEF Records
<1>2. fresh \in SUBSET DOMAIN s /\ \A i \in fresh : s[i].made <= Ttl + MaxStall
  BY <1>a, <1>c
<1> HIDE DEF fresh
<1>3. u \in Seq(Records) /\ \E k \in 0..Len(s) :
        /\ Len(u) = Len(s) - k
        /\ \A i \in 1..Len(u) : u[i] = s[i + k]
        /\ u # <<>> => 1 + k \in fresh
  BY <1>2, FromFirstFresh
<1> HIDE DEF u
<1>4. t \in Seq(Records) /\ Len(t) <= Limit /\ \E k \in 0..Len(u) :
        /\ Len(t) = Len(u) - k
        /\ \A i \in 1..Len(t) : t[i] = u[i + k]
  <2>1. u \in Seq(Records) /\ Limit \in Nat \ {0}
    BY <1>3, <1>a, Zenon
  <2>2. QED BY <2>1, NewestSuffix
<1> HIDE DEF t
<1>5. PICK k \in 0..Len(s) :
        /\ Len(u) = Len(s) - k
        /\ \A i \in 1..Len(u) : u[i] = s[i + k]
        /\ u # <<>> => 1 + k \in fresh
  BY <1>3
<1>6. PICK m \in 0..Len(u) :
        /\ Len(t) = Len(u) - m
        /\ \A i \in 1..Len(t) : t[i] = u[i + m]
  BY <1>4
<1>b. DOMAIN t = 1..Len(t) /\ Len(t) \in Nat /\ DOMAIN u = 1..Len(u) /\ Len(u) \in Nat
      /\ DOMAIN s = 1..Len(s) /\ Len(s) \in Nat
  BY <1>3, <1>4
<1>7. \A i \in DOMAIN t : i + m \in DOMAIN u /\ i + m + k \in DOMAIN s /\ t[i] = s[i + m + k]
  <2> TAKE i \in DOMAIN t
  <2>1. i \in 1..Len(t) /\ i + m \in 1..Len(u)
    BY <1>b, <1>6
  <2>2. u[i + m] = s[(i + m) + k] /\ t[i] = u[i + m]
    BY <2>1, <1>5, <1>6
  <2>3. (i + m) + k = i + m + k /\ i + m + k \in 1..Len(s)
    BY <2>1, <1>b, <1>5
  <2>4. QED BY <2>1, <2>2, <2>3, <1>b
<1>8. Ordered(t)
  <2> SUFFICES ASSUME NEW i \in DOMAIN t, NEW j \in DOMAIN t, i < j, ~t[j].read
               PROVE  t[j].made <= t[i].made + MaxStall
    BY DEF Ordered
  <2>1. /\ i + m + k \in DOMAIN s /\ t[i] = s[i + m + k]
        /\ j + m + k \in DOMAIN s /\ t[j] = s[j + m + k]
    BY <1>7
  <2>2. i + m + k < j + m + k
    <3>1. i \in Int /\ j \in Int /\ m \in Int /\ k \in Int
      BY <1>b
    <3>2. QED BY <3>1
  <2>3. QED BY <2>1, <2>2 DEF Ordered
<1>9. ASSUME NEW i \in DOMAIN t, ~t[i].read PROVE t[i].made <= Ttl + 2 * MaxStall
  <2>1. i + m + k \in DOMAIN s /\ t[i] = s[i + m + k] /\ i \in 1..Len(t) /\ i + m \in DOMAIN u
    BY <1>b, <1>7
  <2>a. u # <<>>
    BY <2>1, <1>b
  <2>2. u # <<>> /\ 1 + k \in fresh /\ 1 + k \in DOMAIN s
    BY <2>a, <1>2, <1>5
  <2>3. s[1 + k].made <= Ttl + MaxStall
    BY <2>2, <1>2
  <2>4. CASE i + m = 1
    <3>1. t[i].made <= Ttl + MaxStall
      BY <2>1, <2>3, <2>4
    <3>2. t[i].made \in Nat
      <4>1. t \in Seq(Records)
        BY <1>4, Zenon
      <4>2. QED BY <4>1, <1>c, Zenon
    <3>3. QED BY <3>1, <3>2, <1>a
  <2>5. CASE i + m > 1
    <3>1. 1 + k < i + m + k
      <4>1. i \in Int /\ m \in Int /\ k \in Int
        BY <2>1, <1>b
      <4>2. QED BY <4>1, <2>5
    <3>2. t[i].made <= s[1 + k].made + MaxStall
      BY <1>9, <2>1, <2>2, <3>1 DEF Ordered
    <3>3. t[i].made \in Nat /\ s[1 + k].made \in Nat
      <4>1. t \in Seq(Records)
        BY <1>4, Zenon
      <4>2. QED BY <4>1, <2>2, <1>c, Zenon
    <3>4. QED
      <4>1. Ttl + MaxStall + MaxStall = Ttl + 2 * MaxStall
        BY <1>a
      <4>2. QED BY <2>3, <3>2, <3>3, <4>1, <1>a
  <2>6. i + m = 1 \/ i + m > 1
    <3>1. i \in 1..Len(t) /\ m \in Nat
      BY <2>1, <1>b
    <3>2. QED BY <3>1, <1>b
  <2>7. QED BY <2>4, <2>5, <2>6
<1>10. QED BY <1>1, <1>4, <1>8, <1>9

\* Taking one out keeps the others, in order.
LEMMA WithoutKeeps ==
    ASSUME NEW s \in Seq(Records), Ordered(s), NEW i \in 1..Len(s)
    PROVE  LET t == Obs!Without(s, i) IN
           t \in Seq(Records) /\ Len(t) = Len(s) - 1 /\ Ordered(t)
<1> DEFINE t == Obs!Without(s, i)
           from(n) == IF n < i THEN n ELSE n + 1
           front == SubSeq(s, 1, i - 1)
           back == SubSeq(s, i + 1, Len(s))
<1>a. t = front \o back
  BY DEF Obs!Without
<1>b. /\ front \in Seq(Records) /\ Len(front) = i - 1
      /\ \A n \in 1..(i - 1) : front[n] = s[n]
  OBVIOUS
<1>c. back \in Seq(Records) /\ Len(back) = Len(s) - i
  OBVIOUS
<1>d. \A n \in 1..(Len(s) - i) : back[n] = s[i + n]
  OBVIOUS
<1> HIDE DEF front, back, t
<1>1. t \in Seq(Records) /\ Len(t) = Len(s) - 1
  BY <1>a, <1>b, <1>c, ConcatProperties
<1>e. /\ \A n \in 1..(i - 1) : t[n] = front[n]
      /\ \A n \in i..(Len(s) - 1) : t[n] = back[n - (i - 1)]
  BY <1>a, <1>b, <1>c, ConcatProperties
<1>2. \A n \in 1..Len(t) : from(n) \in DOMAIN s /\ t[n] = s[from(n)]
  <2> TAKE n \in 1..Len(t)
  <2>1. CASE n < i
    BY <2>1, <1>b, <1>e, <1>1
  <2>2. CASE ~(n < i)
    <3>1. n - (i - 1) \in 1..(Len(s) - i) /\ t[n] = back[n - (i - 1)]
      BY <2>2, <1>e, <1>1
    <3>2. t[n] = s[i + (n - (i - 1))] /\ i + (n - (i - 1)) = n + 1 /\ n + 1 \in 1..Len(s)
      BY <2>2, <3>1, <1>d, <1>1
    <3>3. QED BY <2>2, <3>2
  <2>3. QED BY <2>1, <2>2
<1>3. Ordered(t)
  <2> SUFFICES ASSUME NEW a \in DOMAIN t, NEW b \in DOMAIN t, a < b, ~t[b].read
               PROVE  t[b].made <= t[a].made + MaxStall
    BY DEF Ordered
  <2>1. a \in 1..Len(t) /\ b \in 1..Len(t)
    BY <1>1
  <2>2. from(a) < from(b) /\ from(a) \in DOMAIN s /\ from(b) \in DOMAIN s
        /\ t[a] = s[from(a)] /\ t[b] = s[from(b)]
    BY <1>1, <1>2, <2>1
  <2> HIDE DEF from
  <2>3. QED BY <2>2 DEF Ordered
<1>4. QED BY <1>1, <1>3 DEF t

\* A snapshot may be appended if it is read or has just been created.
LEMMA AppendOrdered ==
    ASSUME NEW s \in Seq(Records), Ordered(s), NEW new \in Records,
           new.read \/ new.made <= MaxStall
    PROVE  Append(s, new) \in Seq(Records) /\ Ordered(Append(s, new))
<1> DEFINE t == Append(s, new)
<1>1. /\ t \in Seq(Records) /\ Len(t) = Len(s) + 1
      /\ \A i \in 1..Len(s) : t[i] = s[i] /\ i \in DOMAIN s
      /\ t[Len(s) + 1] = new
  OBVIOUS
<1> HIDE DEF t
<1>2. Ordered(t)
  <2> SUFFICES ASSUME NEW i \in DOMAIN t, NEW j \in DOMAIN t, i < j, ~t[j].read
               PROVE  t[j].made <= t[i].made + MaxStall
    BY DEF Ordered
  <2>1. i \in 1..Len(s) /\ t[i] = s[i] /\ i \in DOMAIN s
    BY <1>1
  <2>2. CASE j = Len(s) + 1
    <3>1. new.made <= MaxStall /\ s[i] \in Records
      BY <1>1, <2>1, <2>2
    <3>2. QED BY <1>1, <2>1, <2>2, <3>1, StoreConstants DEF Records, Obs!MadeCap
  <2>3. CASE j # Len(s) + 1
    <3>1. j \in DOMAIN s /\ t[j] = s[j]
      BY <1>1, <2>3
    <3>2. QED BY <2>1, <3>1 DEF Ordered
  <2>4. QED BY <2>2, <2>3
<1>3. QED BY <1>1, <1>2 DEF t

LEMMA JudgeKeeps ==
    ASSUME SInv, NEW r \in Requests, NEW age, Obs!Judge(r, age) PROVE Keeps
<1>1. UNCHANGED <<place, sampled, transit, odom, snaps>>
  BY DEF Obs!Judge
<1>2. SInv'
  BY <1>1 DEF SInv, StoreTypes, HeldBelowAge, Ordered, InOrder
<1>3. Readings' = Readings
  BY <1>1 DEF Readings, ReadingsOf
<1>4. QED BY <1>1, <1>2, <1>3 DEF Keeps

\* What an operation that trims the store does, whatever it appends.
LEMMA TrimsKeep ==
    ASSUME SInv, NEW lag \in 0..MaxStall,
           UNCHANGED <<place, sampled, transit>>, odom' = Obs!TrimmedOdom(odom, lag),
           snaps' \in Seq(Records), Len(snaps') <= Limit, Ordered(snaps')
    PROVE  Keeps
<1>1. lag \in Nat /\ odom \in Seq(Samples) /\ HeldBelowAge(odom)
  BY StoreConstants DEF SInv, StoreTypes
<1>2. /\ odom' \in Seq(Samples) /\ HeldBelowAge(odom')
      /\ ReadingsOf(odom', transit) \subseteq ReadingsOf(odom, transit)
      /\ \A x \in ReadingsOf(odom, transit) : x[1] <= History => x \in ReadingsOf(odom', transit)
  BY <1>1, TrimmedReadings
<1>3. Readings = ReadingsOf(odom, transit) /\ Readings' = ReadingsOf(odom', transit)
  BY DEF Readings, ReadingsOf
<1>4. StoreTypes'
  BY <1>2 DEF SInv, StoreTypes
<1>5. HeldBelowAge(odom)' /\ Ordered(snaps)' /\ InOrder(transit)'
  BY <1>2 DEF SInv, HeldBelowAge, Ordered, InOrder
<1>6. SInv'
  BY <1>4, <1>5 DEF SInv
<1>7. QED BY <1>2, <1>3, <1>6 DEF Keeps

LEMMA StoreKeeps ==
    ASSUME SInv, MakingTypes, NEW r \in Requests, Obs!Store(r) PROVE Keeps
<1> DEFINE lag == making[r][1]
           new == [made |-> lag, read |-> FALSE]
           kept == Obs!Trimmed(snaps, lag)
<1>1. lag \in 0..MaxStall
  BY DEF MakingTypes, Obs!Store
<1>2. /\ odom' = Obs!TrimmedOdom(odom, lag)
      /\ snaps' = Obs!Trimmed(Append(kept, new), lag)
      /\ UNCHANGED <<place, sampled, transit>>
  BY DEF Obs!Store
<1>3. snaps \in Seq(Records) /\ Ordered(snaps)
  BY DEF SInv, StoreTypes
<1>4. new \in Records /\ new.made <= MaxStall
  BY <1>1, StoreConstants DEF Records, Obs!MadeCap
<1> HIDE DEF new, lag
<1>5. kept \in Seq(Records) /\ Ordered(kept)
  BY <1>1, <1>3, TrimmedSnapshots
<1> HIDE DEF kept
<1>6. Append(kept, new) \in Seq(Records) /\ Ordered(Append(kept, new))
  BY <1>4, <1>5, AppendOrdered
<1>7. snaps' \in Seq(Records) /\ Len(snaps') <= Limit /\ Ordered(snaps')
  BY <1>1, <1>2, <1>6, TrimmedSnapshots
<1>8. QED BY <1>1, <1>2, <1>7, TrimsKeep

LEMMA GetKeeps ==
    ASSUME SInv, NEW i \in 0..Limit, NEW lag \in 0..MaxStall, Obs!Get(i, lag) PROVE Keeps
<1> DEFINE kept == Obs!Trimmed(snaps, lag)
           rest == Obs!Without(kept, i)
           got == [kept[i] EXCEPT !.read = TRUE]
<1>1. /\ i \in 0..Len(kept)
      /\ odom' = Obs!TrimmedOdom(odom, lag)
      /\ snaps' = IF i = 0 THEN kept ELSE Append(rest, got)
      /\ UNCHANGED <<place, sampled, transit>>
  BY DEF Obs!Get
<1>2. snaps \in Seq(Records) /\ Ordered(snaps)
  BY DEF SInv, StoreTypes
<1>3. kept \in Seq(Records) /\ Ordered(kept) /\ Len(kept) <= Limit
  BY <1>2, TrimmedSnapshots
<1> HIDE DEF kept
<1>4. CASE i = 0
  BY <1>1, <1>3, <1>4, TrimsKeep
<1>5. CASE i # 0
  <2>1. i \in 1..Len(kept)
    BY <1>1, <1>3, <1>5
  <2>2. rest \in Seq(Records) /\ Len(rest) = Len(kept) - 1 /\ Ordered(rest)
    BY <2>1, <1>3, WithoutKeeps
  <2>3. kept[i] \in Records
    BY <2>1, <1>3
  <2>4. got \in Records /\ got.read
    BY <2>3 DEF Records
  <2> HIDE DEF rest, got
  <2>5. Append(rest, got) \in Seq(Records) /\ Ordered(Append(rest, got))
    BY <2>2, <2>4, AppendOrdered
  <2>6. Len(Append(rest, got)) = Len(kept)
    BY <2>1, <2>2, <2>4
  <2>7. snaps' = Append(rest, got)
    BY <1>1, <1>5
  <2>8. QED BY <1>1, <1>3, <2>5, <2>6, <2>7, TrimsKeep
<1>6. QED BY <1>4, <1>5

LEMMA TrimKeeps ==
    ASSUME SInv, Obs!Trim PROVE Keeps
<1>1. 0 \in 0..MaxStall /\ snaps \in Seq(Records) /\ Ordered(snaps)
  BY StoreConstants DEF SInv, StoreTypes
<1>2. /\ Obs!Trimmed(snaps, 0) \in Seq(Records) /\ Ordered(Obs!Trimmed(snaps, 0))
      /\ Len(Obs!Trimmed(snaps, 0)) <= Limit
  BY <1>1, TrimmedSnapshots
<1>3. QED BY <1>1, <1>2, TrimsKeep DEF Obs!Trim

\* A sample that arrives is read where it was before.
LEMMA IngestKeeps ==
    ASSUME SInv, Obs!Ingest PROVE Keeps
<1> DEFINE head == Head(transit)
           new == [age |-> head.age, held |-> 0, place |-> head.place]
           h == Append(odom, new)
           t == Tail(transit)
<1>1. /\ transit # <<>> /\ transit' = t /\ UNCHANGED <<place, sampled>>
      /\ odom' = Obs!TrimmedOdom(h, 0) /\ snaps' = Obs!Trimmed(snaps, 0)
  BY DEF Obs!Ingest
<1>2. /\ transit \in Seq(Flying) /\ odom \in Seq(Samples) /\ snaps \in Seq(Records)
      /\ HeldBelowAge(odom) /\ Ordered(snaps) /\ InOrder(transit) /\ 0 \in 0..MaxStall
      /\ place \in 0..Path /\ sampled \in BOOLEAN
  BY StoreConstants DEF SInv, StoreTypes
<1>3. /\ head = transit[1] /\ head \in Flying /\ t \in Seq(Flying) /\ Len(t) = Len(transit) - 1
      /\ \A i \in 1..Len(t) : t[i] = transit[i + 1]
  BY <1>1, <1>2
<1>4. new \in Samples /\ new.held <= new.age
  BY <1>3, StoreConstants DEF Flying, Samples
<1>5. /\ h \in Seq(Samples) /\ Len(h) = Len(odom) + 1 /\ h[Len(odom) + 1] = new
      /\ \A i \in 1..Len(odom) : h[i] = odom[i]
  BY <1>2, <1>4
<1>6. new.age = head.age /\ new.place = head.place
  OBVIOUS
<1> HIDE DEF h, new, head, t
<1>a. /\ DOMAIN h = 1..(Len(odom) + 1) /\ DOMAIN odom = 1..Len(odom) /\ Len(odom) \in Nat
      /\ DOMAIN t = 1..Len(t) /\ DOMAIN transit = 1..Len(transit) /\ Len(transit) \in Nat
  BY <1>2, <1>3, <1>5
<1>7. HeldBelowAge(h)
  <2> SUFFICES ASSUME NEW i \in DOMAIN h PROVE h[i].held <= h[i].age
    BY DEF HeldBelowAge
  <2>1. CASE i \in 1..Len(odom)
    BY <1>2, <1>5, <1>a, <2>1 DEF HeldBelowAge
  <2>2. CASE i = Len(odom) + 1
    BY <1>4, <1>5, <2>2
  <2>3. QED BY <1>a, <2>1, <2>2
<1>8. ReadingsOf(h, t) = Readings
  <2>1. ASSUME NEW x \in ReadingsOf(h, t) PROVE x \in Readings
    <3>1. CASE \E i \in DOMAIN h : x = <<h[i].age, h[i].place>>
      <4>1. PICK i \in DOMAIN h : x = <<h[i].age, h[i].place>>
        BY <3>1
      <4>2. CASE i \in 1..Len(odom)
        <5>1. i \in DOMAIN odom /\ x = <<odom[i].age, odom[i].place>>
          BY <1>2, <1>5, <4>1, <4>2
        <5>2. QED BY <5>1 DEF Readings, ReadingsOf
      <4>3. CASE i = Len(odom) + 1
        <5>1. 1 \in DOMAIN transit /\ x = <<transit[1].age, transit[1].place>>
          BY <1>1, <1>2, <1>3, <1>5, <1>6, <4>1, <4>3
        <5>2. QED BY <5>1 DEF Readings, ReadingsOf
      <4>4. QED BY <1>2, <1>5, <4>2, <4>3
    <3>2. CASE \E i \in DOMAIN t : x = <<t[i].age, t[i].place>>
      <4>1. PICK i \in DOMAIN t : x = <<t[i].age, t[i].place>>
        BY <3>2
      <4>2. i + 1 \in DOMAIN transit /\ t[i] = transit[i + 1]
        BY <1>3, <1>a
      <4>3. QED BY <4>1, <4>2 DEF Readings, ReadingsOf
    <3>3. QED BY <3>1, <3>2 DEF ReadingsOf
  <2>2. ASSUME NEW x \in Readings PROVE x \in ReadingsOf(h, t)
    <3>1. CASE \E i \in DOMAIN odom : x = <<odom[i].age, odom[i].place>>
      <4>1. PICK i \in DOMAIN odom : x = <<odom[i].age, odom[i].place>>
        BY <3>1
      <4>2. i \in DOMAIN h /\ h[i] = odom[i]
        BY <1>5, <1>a
      <4>3. QED BY <4>1, <4>2 DEF ReadingsOf
    <3>2. CASE \E i \in DOMAIN transit : x = <<transit[i].age, transit[i].place>>
      <4>1. PICK i \in DOMAIN transit : x = <<transit[i].age, transit[i].place>>
        BY <3>2
      <4>2. CASE i = 1
        <5>1. Len(odom) + 1 \in DOMAIN h
          BY <1>2, <1>5
        <5>2. x = <<h[Len(odom) + 1].age, h[Len(odom) + 1].place>>
          BY <1>3, <1>5, <1>6, <4>1, <4>2
        <5>3. QED BY <5>1, <5>2 DEF ReadingsOf
      <4>3. CASE i # 1
        <5>1. i - 1 \in DOMAIN t /\ t[i - 1] = transit[i]
          BY <1>2, <1>3, <4>3
        <5>2. QED BY <4>1, <5>1 DEF ReadingsOf
      <4>4. QED BY <4>2, <4>3
    <3>3. QED BY <3>1, <3>2 DEF Readings, ReadingsOf
  <2>3. QED BY <2>1, <2>2
<1>9. /\ odom' \in Seq(Samples) /\ HeldBelowAge(odom')
      /\ ReadingsOf(odom', t) \subseteq ReadingsOf(h, t)
      /\ \A x \in ReadingsOf(h, t) : x[1] <= History => x \in ReadingsOf(odom', t)
  BY <1>1, <1>5, <1>7, TrimmedReadings
<1>10. snaps' \in Seq(Records) /\ Ordered(snaps') /\ Len(snaps') <= Limit
  BY <1>1, <1>2, TrimmedSnapshots
<1>11. InOrder(t)
  <2> SUFFICES ASSUME NEW i \in DOMAIN t, NEW j \in DOMAIN t, i < j PROVE t[i].age >= t[j].age
    BY DEF InOrder
  <2>1. /\ i + 1 \in DOMAIN transit /\ j + 1 \in DOMAIN transit /\ i + 1 < j + 1
        /\ t[i] = transit[i + 1] /\ t[j] = transit[j + 1]
    BY <1>3, <1>a
  <2>2. QED BY <1>2, <2>1 DEF InOrder
<1>12. Readings' = ReadingsOf(odom', t)
  BY <1>1 DEF Readings
<1>13. SInv'
  BY <1>1, <1>2, <1>3, <1>9, <1>10, <1>11
     DEF SInv, StoreTypes, HeldBelowAge, Ordered, InOrder
<1>14. QED BY <1>1, <1>8, <1>9, <1>12, <1>13 DEF Keeps

\* A quantum ages every reading, adds one of now if a sample was taken, and loses none.
LEMMA TickAges ==
    ASSUME SInv, MakingTypes, Obs!Tick
    PROVE  /\ SInv' /\ MakingTypes' /\ place' \in {place, place + 1}
           /\ Readings' \subseteq {Later(x) : x \in Readings} \cup {<<0, place'>>}
           /\ \A x \in Readings : Later(x) \in Readings'
           /\ sampled' => <<0, place'>> \in Readings'
<1> DEFINE aged == [i \in DOMAIN transit |-> [transit[i] EXCEPT !.age = transit[i].age + 1]]
           last == IF sampled' THEN <<[age |-> 0, place |-> place']>> ELSE <<>>
<1>1. /\ transit # <<>> => Head(transit).age < OdomDelay
      /\ \A r \in Requests : making[r] # NoSnapshot => making[r][1] < MaxStall
      /\ place' \in {place, place + 1} /\ place' \in 0..Path /\ sampled' \in BOOLEAN
      /\ transit' = aged \o last
      /\ odom' = [i \in DOMAIN odom |->
                    [age |-> Obs!AtMost(AgeCap, odom[i].age + 1),
                     held |-> Obs!AtMost(AgeCap, odom[i].held + 1), place |-> odom[i].place]]
      /\ snaps' = [i \in DOMAIN snaps |->
                    [snaps[i] EXCEPT !.made = Obs!AtMost(Obs!MadeCap, snaps[i].made + 1)]]
      /\ making' = [r \in Requests |->
                    IF making[r] = NoSnapshot THEN NoSnapshot
                    ELSE <<making[r][1] + 1, making[r][2]>>]
  BY DEF Obs!Tick
<1>2. /\ transit \in Seq(Flying) /\ odom \in Seq(Samples) /\ snaps \in Seq(Records)
      /\ Len(snaps) <= Limit /\ HeldBelowAge(odom) /\ Ordered(snaps) /\ InOrder(transit)
  BY DEF SInv, StoreTypes
<1>3. \A i \in DOMAIN transit :
        transit[i].age \in 0..OdomDelay /\ transit[i].age < OdomDelay
          /\ transit[i].place \in 0..Path
  <2> TAKE i \in DOMAIN transit
  <2>1. transit[i] \in Flying /\ transit[1] \in Flying /\ 1 \in DOMAIN transit
        /\ transit # <<>> /\ Head(transit) = transit[1]
    BY <1>2
  <2>2. /\ transit[1].age \in 0..OdomDelay /\ transit[i].age \in 0..OdomDelay
        /\ transit[i].place \in 0..Path
    BY <2>1 DEF Flying
  <2>3. i = 1 \/ 1 < i
    BY <1>2
  <2>4. transit[1].age >= transit[i].age
    BY <1>2, <2>1, <2>2, <2>3, StoreConstants DEF InOrder
  <2>5. transit[1].age < OdomDelay
    BY <1>1, <2>1
  <2>6. QED BY <2>2, <2>4, <2>5, StoreConstants
<1>4. /\ aged \in Seq(Flying) /\ Len(aged) = Len(transit)
      /\ \A i \in DOMAIN transit : aged[i].age = transit[i].age + 1
                                   /\ aged[i].place = transit[i].place
  <2>1. \A i \in DOMAIN transit :
          aged[i] = [age |-> transit[i].age + 1, place |-> transit[i].place]
    <3> TAKE i \in DOMAIN transit
    <3>1. transit[i] \in Flying
      BY <1>2
    <3>2. QED BY <3>1 DEF Flying
  <2>2. \A i \in DOMAIN transit : aged[i] \in Flying
    <3> TAKE i \in DOMAIN transit
    <3>1. transit[i].age + 1 \in 0..OdomDelay /\ transit[i].place \in 0..Path
      BY <1>3, StoreConstants
    <3>2. QED BY <2>1, <3>1 DEF Flying
  <2>3. DOMAIN transit = 1..Len(transit) /\ Len(transit) \in Nat /\ DOMAIN aged = DOMAIN transit
    BY <1>2
  <2>a. aged = [i \in 1..Len(transit) |-> aged[i]]
    BY <2>3
  <2>4. \A i \in DOMAIN transit :
          aged[i].age = transit[i].age + 1 /\ aged[i].place = transit[i].place
    BY <2>1
  <2> HIDE DEF aged
  <2>5. aged \in Seq(Flying) /\ Len(aged) = Len(transit)
    BY <2>2, <2>3, <2>a
  <2>6. QED BY <2>4, <2>5
<1>5. last \in Seq(Flying) /\ Len(last) = IF sampled' THEN 1 ELSE 0
  <2>1. [age |-> 0, place |-> place'] \in Flying
    BY <1>1, StoreConstants DEF Flying
  <2>2. QED BY <2>1
<1>6. sampled' => last[1].age = 0 /\ last[1].place = place'
  OBVIOUS
<1> HIDE DEF aged, last
<1>7. /\ transit' \in Seq(Flying) /\ Len(transit') = Len(aged) + Len(last)
      /\ \A i \in 1..(Len(aged) + Len(last)) :
           transit'[i] = IF i <= Len(aged) THEN aged[i] ELSE last[i - Len(aged)]
  <2>1. transit' = aged \o last /\ aged \in Seq(Flying) /\ last \in Seq(Flying)
    BY <1>1, <1>4, <1>5
  <2>2. /\ aged \o last \in Seq(Flying) /\ Len(aged \o last) = Len(aged) + Len(last)
        /\ \A i \in 1..(Len(aged) + Len(last)) :
             (aged \o last)[i] = IF i <= Len(aged) THEN aged[i] ELSE last[i - Len(aged)]
    BY <2>1, ConcatProperties, Zenon
  <2>3. QED BY <2>1, <2>2, Zenon
<1>8. /\ DOMAIN transit = 1..Len(transit) /\ Len(transit) \in Nat
      /\ DOMAIN transit' = 1..Len(transit') /\ DOMAIN odom = 1..Len(odom) /\ Len(odom) \in Nat
      /\ DOMAIN snaps = 1..Len(snaps) /\ Len(snaps) \in Nat
  BY <1>2, <1>7
<1>9. \A i \in DOMAIN transit :
        i \in DOMAIN transit' /\ transit'[i].age = transit[i].age + 1
          /\ transit'[i].place = transit[i].place
  BY <1>4, <1>5, <1>7, <1>8
<1>10. \A i \in DOMAIN transit' :
         i \in DOMAIN transit
           \/ /\ sampled' /\ i = Len(transit) + 1
              /\ transit'[i].age = 0 /\ transit'[i].place = place'
  BY <1>4, <1>5, <1>6, <1>7, <1>8
<1>11. sampled' => Len(transit) + 1 \in DOMAIN transit'
  BY <1>4, <1>5, <1>7, <1>8
<1>12. InOrder(transit')
  <2> SUFFICES ASSUME NEW i \in DOMAIN transit', NEW j \in DOMAIN transit', i < j
               PROVE  transit'[i].age >= transit'[j].age
    BY DEF InOrder
  <2>1. i \in DOMAIN transit
    BY <1>4, <1>5, <1>7, <1>8, <1>10
  <2>2. CASE j \in DOMAIN transit
    BY <1>2, <1>3, <1>9, <2>1, <2>2 DEF InOrder
  <2>3. CASE j \notin DOMAIN transit
    BY <1>3, <1>9, <1>10, <2>1, <2>3
  <2>4. QED BY <2>2, <2>3
<1>13. ASSUME NEW i \in DOMAIN odom
       PROVE  /\ odom[i].age \in 0..AgeCap /\ odom[i].held \in 0..AgeCap
              /\ odom[i].place \in 0..Path /\ odom[i].held <= odom[i].age
              /\ odom'[i] = [age |-> Obs!AtMost(AgeCap, odom[i].age + 1),
                             held |-> Obs!AtMost(AgeCap, odom[i].held + 1),
                             place |-> odom[i].place]
  <2>1. odom[i] \in Samples
    BY <1>2
  <2>2. QED BY <1>1, <1>2, <2>1 DEF Samples, HeldBelowAge
<1>14. DOMAIN odom' = DOMAIN odom /\ odom' \in Seq(Samples) /\ HeldBelowAge(odom')
  <2>1. DOMAIN odom' = DOMAIN odom
    BY <1>1
  <2>2. \A i \in DOMAIN odom : odom'[i] \in Samples /\ odom'[i].held <= odom'[i].age
    <3> TAKE i \in DOMAIN odom
    <3> DEFINE age == Obs!AtMost(AgeCap, odom[i].age + 1)
               held == Obs!AtMost(AgeCap, odom[i].held + 1)
    <3>a. /\ odom[i].age \in 0..AgeCap /\ odom[i].held \in 0..AgeCap
          /\ odom[i].place \in 0..Path /\ odom[i].held <= odom[i].age
          /\ odom'[i] = [age |-> age, held |-> held, place |-> odom[i].place]
      BY <1>13, Zenon
    <3>1. age \in 0..AgeCap /\ held \in 0..AgeCap /\ held <= age
      BY <3>a, StoreConstants DEF Obs!AtMost
    <3> HIDE DEF age, held
    <3>2. QED BY <3>a, <3>1 DEF Samples
  <2>3. odom' \in Seq(Samples)
    BY <1>1, <1>8, <2>1, <2>2
  <2>4. QED BY <2>1, <2>2, <2>3 DEF HeldBelowAge
<1>15. ASSUME NEW i \in DOMAIN snaps
       PROVE  /\ snaps[i].made \in 0..Obs!MadeCap /\ snaps[i].read \in BOOLEAN
              /\ snaps'[i] = [made |-> Obs!AtMost(Obs!MadeCap, snaps[i].made + 1),
                              read |-> snaps[i].read]
  <2>1. snaps[i] \in Records
    BY <1>2
  <2>2. QED BY <1>1, <2>1 DEF Records
<1>16. Obs!MadeCap \in Nat
  BY StoreConstants DEF Obs!MadeCap
<1>17. DOMAIN snaps' = DOMAIN snaps /\ snaps' \in Seq(Records) /\ Len(snaps') <= Limit
  <2>1. DOMAIN snaps' = DOMAIN snaps
    BY <1>1
  <2>2. \A i \in DOMAIN snaps : snaps'[i] \in Records
    <3> TAKE i \in DOMAIN snaps
    <3> DEFINE made == Obs!AtMost(Obs!MadeCap, snaps[i].made + 1)
    <3>a. /\ snaps[i].made \in 0..Obs!MadeCap /\ snaps[i].read \in BOOLEAN
          /\ snaps'[i] = [made |-> made, read |-> snaps[i].read]
      BY <1>15, Zenon
    <3>1. made \in 0..Obs!MadeCap
      BY <3>a, <1>16 DEF Obs!AtMost
    <3> HIDE DEF made
    <3>2. QED BY <3>a, <3>1 DEF Records
  <2>3. snaps' \in Seq(Records) /\ Len(snaps') = Len(snaps)
    BY <1>1, <1>8, <2>1, <2>2
  <2>4. QED BY <1>2, <2>1, <2>3
<1>18. Ordered(snaps')
  <2> SUFFICES ASSUME NEW i \in DOMAIN snaps, NEW j \in DOMAIN snaps, i < j, ~snaps'[j].read
               PROVE  snaps'[j].made <= snaps'[i].made + MaxStall
    BY <1>17 DEF Ordered
  <2>a. /\ snaps'[i].made = Obs!AtMost(Obs!MadeCap, snaps[i].made + 1)
        /\ snaps'[j].made = Obs!AtMost(Obs!MadeCap, snaps[j].made + 1)
        /\ snaps'[j].read = snaps[j].read
        /\ snaps[i].made \in 0..Obs!MadeCap /\ snaps[j].made \in 0..Obs!MadeCap
    <3>1. \A n \in DOMAIN snaps :
            /\ snaps[n].made \in 0..Obs!MadeCap
            /\ snaps'[n] = [made |-> Obs!AtMost(Obs!MadeCap, snaps[n].made + 1),
                            read |-> snaps[n].read]
      BY <1>15, Zenon
    <3> DEFINE made(n) == Obs!AtMost(Obs!MadeCap, snaps[n].made + 1)
    <3>2. /\ snaps'[i] = [made |-> made(i), read |-> snaps[i].read]
          /\ snaps'[j] = [made |-> made(j), read |-> snaps[j].read]
      BY <3>1, Zenon
    <3> HIDE DEF made
    <3>3. /\ snaps'[i].made = made(i) /\ snaps'[j].made = made(j)
          /\ snaps'[j].read = snaps[j].read
      BY <3>2
    <3>4. QED BY <3>1, <3>3, Zenon DEF made
  <2>1. ~snaps[j].read
    BY <2>a
  <2>2. snaps[j].made <= snaps[i].made + MaxStall
    BY <1>2, <2>1 DEF Ordered
  <2>3. QED BY <1>16, <2>a, <2>2, StoreConstants DEF Obs!AtMost
<1>19. SInv'
  BY <1>1, <1>7, <1>12, <1>14, <1>17, <1>18
     DEF SInv, StoreTypes, HeldBelowAge, Ordered, InOrder
<1>20. MakingTypes'
  <2>1. \A r \in Requests : making[r] # NoSnapshot =>
          making[r] \in (0..MaxStall) \X (0..Path) /\ making[r][1] < MaxStall
    BY <1>1 DEF MakingTypes
  <2>2. \A r \in Requests : making[r] # NoSnapshot =>
          <<making[r][1] + 1, making[r][2]>> \in (0..MaxStall) \X (0..Path)
    BY <2>1, StoreConstants
  <2>3. QED BY <1>1, <2>2 DEF MakingTypes
<1>21. ASSUME NEW x \in Readings'
       PROVE  x \in {Later(y) : y \in Readings} \cup {<<0, place'>>}
  <2>1. CASE \E i \in DOMAIN odom : x = <<odom'[i].age, odom'[i].place>>
    <3>1. PICK i \in DOMAIN odom : x = <<odom'[i].age, odom'[i].place>>
      BY <2>1
    <3>2. <<odom[i].age, odom[i].place>> \in Readings
      BY DEF Readings, ReadingsOf
    <3> DEFINE age == Obs!AtMost(AgeCap, odom[i].age + 1)
               held == Obs!AtMost(AgeCap, odom[i].held + 1)
    <3>a. odom'[i] = [age |-> age, held |-> held, place |-> odom[i].place]
      BY <1>13, Zenon
    <3>3. odom'[i].age = age /\ odom'[i].place = odom[i].place
      BY <3>a
    <3>4. x = Later(<<odom[i].age, odom[i].place>>)
      BY <3>1, <3>3 DEF Later
    <3>5. QED BY <3>2, <3>4
  <2>2. CASE \E i \in DOMAIN transit' : x = <<transit'[i].age, transit'[i].place>>
    <3>1. PICK i \in DOMAIN transit' : x = <<transit'[i].age, transit'[i].place>>
      BY <2>2
    <3>2. CASE i \in DOMAIN transit
      <4>1. <<transit[i].age, transit[i].place>> \in Readings
        BY <3>2 DEF Readings, ReadingsOf
      <4>2. x = Later(<<transit[i].age, transit[i].place>>)
        BY <1>3, <1>9, <3>1, <3>2, StoreConstants DEF Later, Obs!AtMost
      <4>3. QED BY <4>1, <4>2
    <3>3. CASE i \notin DOMAIN transit
      BY <1>10, <3>1, <3>3
    <3>4. QED BY <3>2, <3>3
  <2>3. QED BY <1>14, <2>1, <2>2 DEF Readings, ReadingsOf
<1>22. ASSUME NEW x \in Readings PROVE Later(x) \in Readings'
  <2>1. CASE \E i \in DOMAIN odom : x = <<odom[i].age, odom[i].place>>
    <3>1. PICK i \in DOMAIN odom : x = <<odom[i].age, odom[i].place>>
      BY <2>1
    <3>2. Later(x) = <<odom'[i].age, odom'[i].place>> /\ i \in DOMAIN odom'
      BY <1>13, <1>14, <3>1 DEF Later
    <3>3. QED BY <3>2 DEF Readings, ReadingsOf
  <2>2. CASE \E i \in DOMAIN transit : x = <<transit[i].age, transit[i].place>>
    <3>1. PICK i \in DOMAIN transit : x = <<transit[i].age, transit[i].place>>
      BY <2>2
    <3>2. Later(x) = <<transit'[i].age, transit'[i].place>> /\ i \in DOMAIN transit'
      BY <1>3, <1>9, <3>1, StoreConstants DEF Later, Obs!AtMost
    <3>3. QED BY <3>2 DEF Readings, ReadingsOf
  <2>3. QED BY <2>1, <2>2 DEF Readings, ReadingsOf
<1>23. ASSUME sampled' PROVE <<0, place'>> \in Readings'
  <2>1. /\ Len(transit) + 1 \in DOMAIN transit' /\ Len(transit) + 1 \notin DOMAIN transit
    BY <1>8, <1>11, <1>23
  <2>2. transit'[Len(transit) + 1].age = 0 /\ transit'[Len(transit) + 1].place = place'
    BY <1>10, <2>1
  <2>3. QED BY <2>1, <2>2 DEF Readings, ReadingsOf
<1>24. QED BY <1>1, <1>19, <1>20, <1>21, <1>22, <1>23

----------------------------------------------------------------------------
\* The vehicle's way, and the position at an age

Points == (0..AgeCap) \X (0..Path)

\* Points of one way: the later, the further, and one place in a quantum at most.
OnOneWay(S) ==
    \A x, y \in S : x[1] >= y[1] /\ y[1] < AgeCap =>
        x[2] <= y[2] /\ (x[1] < AgeCap => y[2] - x[2] <= x[1] - y[1])

\* A quantum later, they still are, and so is where the vehicle got to.
LEMMA WayGoesOn ==
    ASSUME NEW S \in SUBSET Points, OnOneWay(S), NEW p, <<0, p>> \in S,
           NEW q \in {p, p + 1},
           NEW T \in SUBSET ({Later(x) : x \in S} \cup {<<0, q>>})
    PROVE  OnOneWay(T)
<1>a. AgeCap \in Nat /\ AgeCap > 0 /\ Path \in Nat
  BY StoreConstants
<1>b. \A x \in S : x[1] \in 0..AgeCap /\ x[2] \in 0..Path
  BY DEF Points
<1>c. p \in 0..Path
  BY <1>b
<1> SUFFICES ASSUME NEW x \in T, NEW y \in T, x[1] >= y[1], y[1] < AgeCap
             PROVE  x[2] <= y[2] /\ (x[1] < AgeCap => y[2] - x[2] <= x[1] - y[1])
  BY DEF OnOneWay
<1>1. CASE y = <<0, q>>
  <2>1. CASE x = <<0, q>>
    BY <1>1, <2>1, <1>c
  <2>2. CASE \E u \in S : x = Later(u)
    <3>1. PICK u \in S : x = Later(u)
      BY <2>2
    <3>2. x[1] = Obs!AtMost(AgeCap, u[1] + 1) /\ x[2] = u[2]
      BY <3>1 DEF Later
    <3>3. u[1] >= 0 /\ u[1] \in 0..AgeCap /\ u[2] \in 0..Path
      BY <1>b
    <3>4. u[2] <= p /\ (u[1] < AgeCap => p - u[2] <= u[1])
      BY <3>3, <1>a, <1>c DEF OnOneWay
    <3>5. QED BY <1>1, <1>a, <1>c, <3>2, <3>3, <3>4 DEF Obs!AtMost
  <2>3. QED BY <2>1, <2>2
<1>2. CASE \E v \in S : y = Later(v)
  <2>1. PICK v \in S : y = Later(v)
    BY <1>2
  <2>2. y[1] = Obs!AtMost(AgeCap, v[1] + 1) /\ y[2] = v[2]
        /\ v[1] \in 0..AgeCap /\ v[2] \in 0..Path
    BY <1>b, <2>1 DEF Later
  <2>3. y[1] = v[1] + 1 /\ v[1] < AgeCap
    BY <2>2, <1>a DEF Obs!AtMost
  <2>4. CASE x = <<0, q>>
    BY <2>2, <2>3, <2>4
  <2>5. CASE \E u \in S : x = Later(u)
    <3>1. PICK u \in S : x = Later(u)
      BY <2>5
    <3>2. x[1] = Obs!AtMost(AgeCap, u[1] + 1) /\ x[2] = u[2]
          /\ u[1] \in 0..AgeCap /\ u[2] \in 0..Path
      BY <1>b, <3>1 DEF Later
    <3>3. u[1] >= v[1]
      BY <2>2, <2>3, <3>2, <1>a DEF Obs!AtMost
    <3>4. u[2] <= v[2] /\ (u[1] < AgeCap => v[2] - u[2] <= u[1] - v[1])
      BY <2>3, <3>3 DEF OnOneWay
    <3>5. QED BY <2>2, <2>3, <3>2, <3>4, <1>a DEF Obs!AtMost
  <2>6. QED BY <2>4, <2>5
<1>3. QED BY <1>1, <1>2

LEMMA Between ==
    ASSUME NEW d \in Nat, NEW D \in Nat, NEW x \in 0..D, D > 0
    PROVE  (x * d) \div D \in 0..d
<1>1. x * d \in Nat /\ x * d <= D * d
  OBVIOUS
<1> DEFINE q == (x * d) \div D
<1>2. q \in Int /\ D * q <= x * d /\ x * d < D * (q + 1)
  BY <1>1
<1> HIDE DEF q
<1>3. q >= 0
  BY <1>1, <1>2
<1>4. q <= d
  BY <1>1, <1>2
<1>5. QED BY <1>2, <1>3, <1>4 DEF q

\* The samples next to an age, if there are any on that side.
LEMMA NextTo ==
    ASSUME odom \in Seq(Samples), NEW age \in Nat
    PROVE  /\ Obs!Before(age) # {} =>
                /\ Obs!LastBefore(age) \in Obs!Before(age)
                /\ \A j \in Obs!Before(age) : odom[Obs!LastBefore(age)].age <= odom[j].age
           /\ Obs!After(age) # {} =>
                /\ Obs!FirstAfter(age) \in Obs!After(age)
                /\ \A j \in Obs!After(age) : odom[Obs!FirstAfter(age)].age >= odom[j].age
<1>1. \A i \in DOMAIN odom : odom[i].age \in Nat
  <2> TAKE i \in DOMAIN odom
  <2>1. odom[i] \in Samples
    OBVIOUS
  <2>2. QED BY <2>1, StoreConstants DEF Samples
<1>2. ASSUME Obs!Before(age) # {}
      PROVE  \E i \in Obs!Before(age) : \A j \in Obs!Before(age) : odom[i].age <= odom[j].age
  <2> DEFINE S == {odom[i].age : i \in Obs!Before(age)}
  <2>1. S \in SUBSET Nat /\ S # {}
    BY <1>1, <1>2 DEF Obs!Before
  <2>2. PICK n \in S : \A m \in S : n <= m
    BY <2>1, Least
  <2>3. QED BY <2>2
<1>3. ASSUME Obs!After(age) # {}
      PROVE  \E i \in Obs!After(age) : \A j \in Obs!After(age) : odom[i].age >= odom[j].age
  <2> DEFINE S == {age - odom[i].age : i \in Obs!After(age)}
  <2>1. S \in SUBSET Nat /\ S # {}
    BY <1>1, <1>3 DEF Obs!After
  <2>2. PICK n \in S : \A m \in S : n <= m
    BY <2>1, Least
  <2>3. PICK i \in Obs!After(age) : n = age - odom[i].age
    BY <2>2
  <2>4. \A j \in Obs!After(age) : age - odom[i].age <= age - odom[j].age
    BY <2>2, <2>3
  <2>5. \A j \in Obs!After(age) : odom[i].age >= odom[j].age
    BY <2>4, <1>1 DEF Obs!After
  <2>6. QED BY <2>5
<1>4. QED BY <1>2, <1>3, Zenon DEF Obs!LastBefore, Obs!FirstAfter

\* The interpolated position is off by no more than the vehicle flies in maxPoseDtSec.
LEMMA Estimate ==
    ASSUME SInv, NEW age \in Nat, NEW p \in 0..Path, age + MaxPoseDt < AgeCap,
           NEW S \in SUBSET Points, OnOneWay(S), Readings \subseteq S, <<age, p>> \in S,
           Obs!Bracketed(age)
    PROVE  Obs!PlaceAt(age) \in 0..Path /\ Distance(Obs!PlaceAt(age), p) <= MaxPoseDt
<1> DEFINE b == odom[Obs!LastBefore(age)]
           a == odom[Obs!FirstAfter(age)]
<1>a. /\ odom \in Seq(Samples) /\ MaxPoseDt \in Nat /\ AgeCap \in Nat /\ Path \in Nat
  BY StoreConstants DEF SInv, StoreTypes
<1>1. /\ Obs!Before(age) # {} /\ b.age - age <= MaxPoseDt
      /\ Obs!After(age) # {} /\ age - a.age <= MaxPoseDt
  BY DEF Obs!Bracketed
<1>2. Obs!LastBefore(age) \in Obs!Before(age) /\ Obs!FirstAfter(age) \in Obs!After(age)
  BY <1>1, <1>a, NextTo, Zenon
<1>3. /\ Obs!LastBefore(age) \in DOMAIN odom /\ b.age >= age
      /\ Obs!FirstAfter(age) \in DOMAIN odom /\ a.age <= age
  BY <1>2, Zenon DEF Obs!Before, Obs!After
<1>4. b \in Samples /\ a \in Samples
  BY <1>3, <1>a
<1>5. <<b.age, b.place>> \in S /\ <<a.age, a.place>> \in S
  BY <1>3, Zenon DEF Readings, ReadingsOf
<1>6. Obs!PlaceAt(age) =
        IF b.age = a.age THEN b.place
        ELSE b.place + ((b.age - age) * (a.place - b.place)) \div (b.age - a.age)
  BY Zenon DEF Obs!PlaceAt
<1> HIDE DEF a, b
<1>7. b.age \in 0..AgeCap /\ b.place \in 0..Path /\ a.age \in 0..AgeCap /\ a.place \in 0..Path
  BY <1>4 DEF Samples
<1>d. /\ b.age - age <= MaxPoseDt /\ age - a.age <= MaxPoseDt
      /\ b.age >= age /\ a.age <= age
  BY <1>1, <1>3, Zenon
<1>8. b.age < AgeCap /\ a.age < AgeCap /\ age < AgeCap
  BY <1>7, <1>a, <1>d
<1>9. b.place <= p /\ p - b.place <= b.age - age
  <2>1. \A x, y \in S : x[1] >= y[1] /\ y[1] < AgeCap =>
          x[2] <= y[2] /\ (x[1] < AgeCap => y[2] - x[2] <= x[1] - y[1])
    BY DEF OnOneWay
  <2>2. QED BY <1>5, <1>8, <1>d, <2>1
<1>10. p <= a.place /\ a.place - p <= age - a.age
  <2>1. \A x, y \in S : x[1] >= y[1] /\ y[1] < AgeCap =>
          x[2] <= y[2] /\ (x[1] < AgeCap => y[2] - x[2] <= x[1] - y[1])
    BY DEF OnOneWay
  <2>2. QED BY <1>5, <1>8, <1>d, <2>1
<1>11. Obs!PlaceAt(age) \in b.place..a.place
  <2>1. CASE b.age = a.age
    BY <2>1, <1>6, <1>7, <1>9, <1>10
  <2>2. CASE b.age # a.age
    <3> DEFINE d == a.place - b.place
               D == b.age - a.age
               x == b.age - age
    <3>1. d \in Nat /\ D \in Nat /\ D > 0 /\ x \in 0..D
      BY <2>2, <1>3, <1>7, <1>9, <1>10
    <3>2. (x * d) \div D \in 0..d
      BY <3>1, Between
    <3>3. Obs!PlaceAt(age) = b.place + (x * d) \div D
      BY <2>2, <1>6
    <3>4. d = a.place - b.place
      OBVIOUS
    <3> HIDE DEF d, D, x
    <3>5. QED BY <3>1, <3>2, <3>3, <3>4, <1>7
  <2>3. QED BY <2>1, <2>2
<1> DEFINE z == Obs!PlaceAt(age)
<1>b. z \in b.place..a.place
  BY <1>11
<1> HIDE DEF z
<1>12. z \in 0..Path /\ z <= a.place /\ z >= b.place
  BY <1>b, <1>7, <1>a
<1>c. p - b.place <= MaxPoseDt /\ a.place - p <= MaxPoseDt
  <2>2. p - b.place <= b.age - age /\ a.place - p <= age - a.age
    BY <1>9, <1>10, Zenon
  <2>3. /\ b.age \in Int /\ a.age \in Int /\ b.place \in Int /\ a.place \in Int
        /\ p \in Int /\ MaxPoseDt \in Int
    BY <1>7, <1>a
  <2>4. QED BY <1>d, <2>2, <2>3
<1>13. Distance(z, p) <= MaxPoseDt
  <2>1. /\ z \in Int /\ p \in Int /\ b.place \in Int /\ a.place \in Int /\ MaxPoseDt \in Int
        /\ b.place <= p /\ p <= a.place /\ z <= a.place /\ z >= b.place
    BY <1>7, <1>9, <1>10, <1>12, <1>a
  <2>2. z - p <= MaxPoseDt /\ p - z <= MaxPoseDt
    BY <2>1, <1>c
  <2>3. QED BY <2>2 DEF Distance
<1>14. QED BY <1>12, <1>13 DEF z

\* A sample of that very age is bracket enough.
LEMMA ExactBracket ==
    ASSUME SInv, NEW age \in Nat, NEW i \in DOMAIN odom, odom[i].age = age
    PROVE  Obs!Bracketed(age)
<1> DEFINE b == odom[Obs!LastBefore(age)].age
           a == odom[Obs!FirstAfter(age)].age
<1>1. odom \in Seq(Samples) /\ MaxPoseDt \in Nat
  BY StoreConstants DEF SInv, StoreTypes
<1>2. i \in Obs!Before(age) /\ i \in Obs!After(age)
  BY DEF Obs!Before, Obs!After
<1>3. /\ Obs!LastBefore(age) \in Obs!Before(age) /\ b <= odom[i].age
      /\ Obs!FirstAfter(age) \in Obs!After(age) /\ a >= odom[i].age
  BY <1>1, <1>2, NextTo, Zenon
<1>4. /\ Obs!LastBefore(age) \in DOMAIN odom /\ b >= age
      /\ Obs!FirstAfter(age) \in DOMAIN odom /\ a <= age
  BY <1>3, Zenon DEF Obs!Before, Obs!After
<1>5. odom[Obs!LastBefore(age)] \in Samples /\ odom[Obs!FirstAfter(age)] \in Samples
  BY <1>1, <1>4
<1>6. b \in Nat /\ a \in Nat
  BY <1>5, StoreConstants DEF Samples
<1>7. b - age <= MaxPoseDt /\ age - a <= MaxPoseDt
  <2> HIDE DEF a, b
  <2>1. QED BY <1>1, <1>3, <1>4, <1>6
<1>8. QED BY <1>2, <1>7 DEF Obs!Bracketed

----------------------------------------------------------------------------
\* The inductive invariant

\* What n attempts but the first may take, each with its stall and its pause.
Spent(n) == n * (1 + MaxStall)

Aimed == {"shown", "goal", "wait", "publish"}
Publishing == {"goal", "wait", "publish"}
Shots == [age : Nat, place : 0..Path, sampled : BOOLEAN]
Doings ==
    [step : AtRest \cup Pending \cup Publishing, kind : {"none"} \cup Pictured,
     timer : 0..(LookTimeout + PlannerWait + MaxStall + 1), tries : 0..(Attempts - 1),
     shot : Shots \cup {Nothing}, goal : Goals \cup {Nothing}]

\* How old a request's picture may be, and how young.
ShotAged(q) ==
    /\ q.step = "look" => q.tries = 0 /\ q.shot.age = q.timer
    /\ q.step = "attempt" => /\ q.shot.age <= LookTimeout + Spent(q.tries) + q.timer
                             /\ q.shot.age >= q.tries
    /\ q.step = "pause" =>
         /\ q.tries >= 1
         /\ q.shot.age <= LookTimeout + Spent(q.tries - 1) + MaxStall + q.timer
         /\ q.shot.age >= q.tries - 1 + q.timer
    /\ q.step = "making" =>
         q.shot.age <= LookTimeout + Spent(Attempts - 1) + MaxStall + q.timer

\* How far off its goal may be.
GoalOff(q) ==
    /\ q.goal.from = "picture" => q.goal.off <= MaxPoseDt
    /\ q.goal.from = "odometry" =>
         /\ q.step # "shown"
         /\ q.step = "goal" => q.goal.off <= OdomMaxAge + q.timer
         /\ q.step = "wait" => q.goal.off <= OdomMaxAge + MaxStall + q.timer
         /\ q.step = "publish" =>
              q.goal.off <= OdomMaxAge + MaxStall + PlannerWait - 1 + q.timer

Doing(q) ==
    /\ q \in Doings
    /\ q.step \notin AtRest => q.timer <= Patience(q.step)
    /\ q.step \in Pending <=> q.shot # Nothing
    /\ q.step \in Aimed <=> q.goal # Nothing
    /\ q.step \in Pending => q.kind \in Pictured /\ ShotAged(q)
    /\ q.step \in Aimed => GoalOff(q)
    /\ q.step \in Publishing \/ (q.step \in Pending /\ q.kind = "plan") => mode = "flight"

\* The point of the way a picture was taken at.
Spot(shot) == <<shot.age, shot.place>>

\* What the store knows, or still will, of a request's picture.
Anchored(r) ==
    /\ request[r].step = "making" <=> making[r] # NoSnapshot
    /\ making[r] # NoSnapshot => Distance(making[r][2], request[r].shot.place) <= MaxPoseDt
    /\ request[r].shot # Nothing =>
         (request[r].shot.sampled /\ request[r].shot.age <= History
            => Spot(request[r].shot) \in Readings)

Marks ==
    Readings \cup {<<0, place>>}
      \cup {Spot(request[r].shot) : r \in {s \in Requests : request[s].shot # Nothing}}

NInv ==
    /\ SInv /\ MakingTypes
    /\ mode \in Modes /\ localAge \in 0..LocalCap \cup {Nothing}
    /\ request \in [Requests -> Doings]
    /\ \A r \in Requests : Doing(request[r]) /\ Anchored(r)
    /\ sampled => <<0, place>> \in Readings
    /\ OnOneWay(Marks)

LEMMA ControlConstants ==
    /\ LookTimeout \in Nat /\ OdomMaxAge \in Nat /\ PlannerWait \in Nat /\ PlannerWait > 0
    /\ Attempts \in Nat /\ OdomDelay < Attempts - 1 /\ AgeCap > PictureBound + MaxPoseDt
    /\ Nothing \notin Goals /\ Nothing \notin Shots
BY NavigationAssumption DEF Goals, Shots

LEMMA SpentFacts ==
    /\ \A n \in Nat : Spent(n) \in Nat /\ Spent(n + 1) = Spent(n) + 1 + MaxStall
    /\ \A n, m \in Nat : n <= m => Spent(n) <= Spent(m)
    /\ Spent(0) = 0
    /\ PictureBound = LookTimeout + Spent(Attempts - 1) + 2 * MaxStall
<1>a. MaxStall \in Nat /\ LookTimeout \in Nat /\ Attempts \in Nat
  BY StoreConstants, ControlConstants
<1>1. \A n \in Nat : Spent(n) \in Nat /\ Spent(n + 1) = Spent(n) + 1 + MaxStall
  BY <1>a DEF Spent
<1>2. ASSUME NEW n \in Nat, NEW m \in Nat, n <= m PROVE Spent(n) <= Spent(m)
  <2>1. Spent(m) - Spent(n) = (m - n) * (1 + MaxStall)
    BY <1>a DEF Spent
  <2>2. (m - n) * (1 + MaxStall) >= 0
    BY <1>2, <1>a
  <2>3. QED BY <1>1, <2>1, <2>2
<1>3. Spent(0) = 0
  BY <1>a DEF Spent
<1>4. PictureBound = LookTimeout + Spent(Attempts - 1) + 2 * MaxStall
  BY <1>a DEF Spent, PictureBound
<1>5. QED BY <1>1, <1>2, <1>3, <1>4

\* A picture that is worked on is not older than the bound.
LEMMA PictureYoung ==
    ASSUME NEW q, Doing(q), q.step \in Pending
    PROVE  q.shot \in Shots /\ q.shot.age \in 0..PictureBound
<1>a. /\ q \in Doings /\ q.timer <= Patience(q.step) /\ ShotAged(q) /\ q.shot # Nothing
  BY DEF Doing, Pending, AtRest
<1>b. MaxStall \in Nat /\ LookTimeout \in Nat /\ Attempts \in Nat /\ Attempts - 1 \in Nat
  BY StoreConstants, ControlConstants
<1>c. /\ q.shot \in Shots /\ q.shot.age \in Nat /\ q.timer \in Nat /\ q.tries \in 0..(Attempts - 1)
  <2>1. q.shot \in Shots
    BY <1>a DEF Doings
  <2>2. q.timer \in 0..(LookTimeout + PlannerWait + MaxStall + 1)
    BY <1>a DEF Doings
  <2>3. q.timer \in Nat
    BY <2>2, <1>b, ControlConstants
  <2>4. QED BY <1>a, <2>1, <2>3 DEF Doings, Shots
<1>d. /\ Spent(Attempts - 1) \in Nat
      /\ PictureBound = LookTimeout + Spent(Attempts - 1) + 2 * MaxStall
  BY SpentFacts, <1>b
<1>1. CASE q.step = "look"
  BY <1>1, <1>a, <1>b, <1>c, <1>d DEF ShotAged, Patience
<1>2. CASE q.step = "attempt"
  <2>1. Spent(q.tries) <= Spent(Attempts - 1) /\ Spent(q.tries) \in Nat
    <3>1. q.tries \in Nat /\ q.tries <= Attempts - 1
      BY <1>b, <1>c
    <3>2. QED BY <3>1, <1>b, SpentFacts
  <2>2. q.timer <= MaxStall
    BY <1>2, <1>a DEF Patience
  <2>3. q.shot.age <= LookTimeout + Spent(q.tries) + q.timer
    BY <1>2, <1>a DEF ShotAged
  <2>4. QED BY <1>b, <1>c, <1>d, <2>1, <2>2, <2>3
<1>3. CASE q.step = "pause"
  <2>1. q.tries >= 1 /\ q.shot.age <= LookTimeout + Spent(q.tries - 1) + MaxStall + q.timer
    BY <1>3, <1>a DEF ShotAged
  <2>2. /\ q.tries - 1 \in Nat /\ Spent(q.tries - 1) \in Nat /\ q.tries \in Nat
        /\ Spent(q.tries - 1) + 1 + MaxStall = Spent(q.tries)
    BY <1>b, <1>c, <2>1, SpentFacts
  <2>3. Spent(q.tries) <= Spent(Attempts - 1)
    <3>1. q.tries <= Attempts - 1
      BY <1>b, <1>c
    <3>2. QED BY <2>2, <3>1, <1>b, SpentFacts
  <2>4. q.timer <= 1
    BY <1>3, <1>a DEF Patience
  <2>5. QED BY <1>b, <1>c, <1>d, <2>1, <2>2, <2>3, <2>4
<1>4. CASE q.step = "making"
  <2>1. q.timer <= MaxStall
    BY <1>4, <1>a DEF Patience
  <2>2. q.shot.age <= LookTimeout + Spent(Attempts - 1) + MaxStall + q.timer
    BY <1>4, <1>a DEF ShotAged
  <2>3. QED BY <1>b, <1>c, <1>d, <2>1, <2>2
<1>5. QED BY <1>1, <1>2, <1>3, <1>4 DEF Pending

\* All marks are points.
LEMMA MarksArePoints ==
    ASSUME NInv PROVE Marks \in SUBSET Points
<1>1. ASSUME NEW x \in Readings PROVE x \in Points
  <2>1. CASE \E i \in DOMAIN odom : x = <<odom[i].age, odom[i].place>>
    <3>1. PICK i \in DOMAIN odom : x = <<odom[i].age, odom[i].place>>
      BY <2>1
    <3>2. odom[i] \in Samples
      BY DEF NInv, SInv, StoreTypes
    <3>3. QED BY <3>1, <3>2 DEF Samples, Points
  <2>2. CASE \E i \in DOMAIN transit : x = <<transit[i].age, transit[i].place>>
    <3>1. PICK i \in DOMAIN transit : x = <<transit[i].age, transit[i].place>>
      BY <2>2
    <3>2. transit[i] \in Flying
      BY DEF NInv, SInv, StoreTypes
    <3>3. QED BY <3>1, <3>2, StoreConstants DEF Flying, Points
  <2>3. QED BY <2>1, <2>2 DEF Readings, ReadingsOf
<1>2. <<0, place>> \in Points
  BY StoreConstants DEF NInv, SInv, StoreTypes, Points
<1>3. ASSUME NEW r \in Requests, request[r].shot # Nothing PROVE Spot(request[r].shot) \in Points
  <2>1. Doing(request[r]) /\ request[r].step \in Pending
    BY <1>3 DEF NInv, Doing
  <2>2. request[r].shot \in Shots /\ request[r].shot.age \in 0..PictureBound
    BY <2>1, PictureYoung
  <2>3. request[r].shot.age \in 0..AgeCap
    BY <2>2, ControlConstants, StoreConstants, SpentFacts
  <2>4. QED BY <2>2, <2>3 DEF Spot, Shots, Points
<1>4. QED BY <1>1, <1>2, <1>3 DEF Marks

\* A step that takes no time, of at most one request, which goes on to q.
LEMMA Onward ==
    ASSUME NInv, Keeps, MakingTypes', UNCHANGED <<mode, localAge>>,
           NEW r \in Requests, NEW q, request' = [request EXCEPT ![r] = q], Doing(q),
           q.shot \in {Nothing, request[r].shot,
                       [age |-> 0, place |-> place, sampled |-> sampled]},
           \A s \in Requests : s # r => making'[s] = making[s],
           q.step = "making" <=> making'[r] # NoSnapshot,
           making'[r] # NoSnapshot => Distance(making'[r][2], q.shot.place) <= MaxPoseDt
    PROVE  NInv'
<1>1. /\ request \in [Requests -> Doings] /\ q \in Doings
      /\ request' \in [Requests -> Doings] /\ request'[r] = q
      /\ \A s \in Requests : s # r => request'[s] = request[s]
  BY DEF NInv, Doing
<1>2. \A s \in Requests : Doing(request[s])'
  <2> TAKE s \in Requests
  <2>1. Doing(request[s]) /\ mode' = mode
    BY DEF NInv
  <2>2. CASE s = r
    BY <1>1, <2>1, <2>2 DEF Doing, ShotAged, GoalOff
  <2>3. CASE s # r
    BY <1>1, <2>1, <2>3 DEF Doing, ShotAged, GoalOff
  <2>4. QED BY <2>2, <2>3
<1>3. /\ \A x \in Readings : x[1] <= History => x \in Readings'
      /\ Readings' \subseteq Readings /\ place' = place /\ sampled' = sampled
  BY DEF Keeps
<1>4. sampled => <<0, place>> \in Readings /\ <<0, place>> \in Readings'
  BY <1>3, StoreConstants DEF NInv
<1>5. ASSUME NEW s \in Requests, request'[s].shot # Nothing
      PROVE  /\ Spot(request'[s].shot) \in Marks
             /\ request'[s].shot.sampled /\ request'[s].shot.age <= History
                  => Spot(request'[s].shot) \in Readings'
  <2>1. CASE request'[s].shot = request[s].shot
    <3>1. request[s].shot # Nothing /\ Anchored(s)
      BY <1>5, <2>1 DEF NInv
    <3>2. Spot(request[s].shot)[1] = request[s].shot.age
      BY DEF Spot
    <3>3. Spot(request[s].shot) \in Marks
      BY <3>1 DEF Marks
    <3>4. QED BY <1>3, <2>1, <3>1, <3>2, <3>3 DEF Anchored
  <2>2. CASE request'[s].shot = [age |-> 0, place |-> place, sampled |-> sampled]
    <3>1. /\ Spot(request'[s].shot) = <<0, place>> /\ request'[s].shot.sampled = sampled
      BY <2>2 DEF Spot
    <3>2. <<0, place>> \in Marks
      BY DEF Marks
    <3>3. QED BY <1>4, <3>1, <3>2
  <2>3. QED BY <1>1, <1>5, <2>1, <2>2
<1>6. \A s \in Requests : Anchored(s)'
  <2> TAKE s \in Requests
  <2>1. Anchored(s)
    BY DEF NInv
  <2>2. /\ request'[s].step = "making" <=> making'[s] # NoSnapshot
        /\ making'[s] # NoSnapshot =>
             Distance(making'[s][2], request'[s].shot.place) <= MaxPoseDt
    BY <1>1, <2>1 DEF Anchored
  <2>3. QED BY <1>5, <2>2 DEF Anchored, Spot
<1>7. OnOneWay(Marks)'
  <2>1. Marks' \subseteq Marks
    <3>1. ASSUME NEW x \in Marks' PROVE x \in Marks
      <4>1. CASE x \in Readings'
        BY <1>3, <4>1 DEF Marks
      <4>2. CASE x = <<0, place'>>
        BY <1>3, <4>2 DEF Marks
      <4>3. CASE \E s \in Requests : request'[s].shot # Nothing /\ x = Spot(request'[s].shot)
        BY <1>5, <4>3
      <4>4. QED BY <4>1, <4>2, <4>3 DEF Marks, Spot
    <3>2. QED BY <3>1
  <2>2. QED BY <2>1 DEF NInv, OnOneWay
<1>8. mode' \in Modes /\ localAge' \in 0..LocalCap \cup {Nothing}
  BY DEF NInv
<1>9. SInv'
  BY DEF Keeps
<1>10. QED BY <1>1, <1>2, <1>3, <1>4, <1>6, <1>7, <1>8, <1>9 DEF NInv

----------------------------------------------------------------------------
\* Each step of a request

LEMMA StoreAtRest ==
    ASSUME NInv, UNCHANGED store
    PROVE  Keeps /\ MakingTypes' /\ \A s \in Requests : making'[s] = making[s]
<1>1. UNCHANGED <<place, sampled, transit, odom, snaps, making>>
  BY DEF store
<1>2. SInv'
  BY <1>1 DEF NInv, SInv, StoreTypes, HeldBelowAge, Ordered, InOrder
<1>3. Readings' = Readings
  BY <1>1 DEF Readings, ReadingsOf
<1>4. QED BY <1>1, <1>2, <1>3 DEF Keeps, NInv, MakingTypes

LEMMA PatienceTypes ==
    /\ \A step : Patience(step) \in Nat
    /\ Patience("look") = LookTimeout /\ Patience("wait") = PlannerWait
    /\ Patience("pause") = 1 /\ Patience("attempt") = MaxStall /\ Patience("making") = MaxStall
    /\ Patience("goal") = MaxStall /\ Patience("publish") = MaxStall
BY StoreConstants, ControlConstants DEF Patience

Moved(q, step) == [q EXCEPT !.step = step, !.timer = 0]

\* Timers and counts start at zero.
LEMMA Zeros ==
    /\ 0 \in 0..(LookTimeout + PlannerWait + MaxStall + 1) /\ 0 \in 0..(Attempts - 1)
BY StoreConstants, ControlConstants

LEMMA MovedFields ==
    ASSUME NEW q \in Doings, NEW step \in AtRest \cup Pending \cup Publishing
    PROVE  LET m == Moved(q, step) IN
           /\ m \in Doings /\ m.step = step /\ m.timer = 0 /\ m.kind = q.kind
           /\ m.tries = q.tries /\ m.shot = q.shot /\ m.goal = q.goal
<1> DEFINE p == [q EXCEPT !.step = step]
<1>1. p \in Doings
  BY DEF Doings
<1>2. [p EXCEPT !.timer = 0] \in Doings
  <2> HIDE DEF p
  <2>1. QED BY <1>1, Zeros DEF Doings
<1>3. Moved(q, step) = [p EXCEPT !.timer = 0]
  BY DEF Moved, Doings
<1>4. LET m == Moved(q, step) IN
        /\ m.step = step /\ m.timer = 0 /\ m.kind = q.kind
        /\ m.tries = q.tries /\ m.shot = q.shot /\ m.goal = q.goal
  BY DEF Moved, Doings
<1>5. QED BY <1>2, <1>3, <1>4

LEMMA GoesMoves ==
    ASSUME NInv, NEW r \in Requests, NEW step
    PROVE  Goes(r, step) = [request EXCEPT ![r] = Moved(request[r], step)]
BY DEF NInv, Goes, Moved, Doings

LEMMA IdleDoes ==
    /\ Doing(Idle) /\ Idle.shot = Nothing /\ Idle.step = "idle" /\ Idle.step # "making"
<1>1. Idle \in Doings
  BY StoreConstants, ControlConstants DEF Idle, Doings, AtRest
<1>2. QED BY <1>1 DEF Idle, Doing, AtRest, Pending, Aimed, Publishing

\* The fields of a record of that type.
LEMMA DoingTypes ==
    ASSUME NEW q \in Doings
    PROVE  /\ q.timer \in Nat /\ q.tries \in 0..(Attempts - 1) /\ q.tries \in Nat
           /\ q.shot # Nothing => q.shot \in Shots /\ q.shot.age \in Nat
           /\ q.goal # Nothing => q.goal \in Goals /\ q.goal.off \in Nat
           /\ q.kind \in {"none"} \cup Pictured
<1>1. /\ q.timer \in 0..(LookTimeout + PlannerWait + MaxStall + 1)
      /\ q.tries \in 0..(Attempts - 1)
      /\ q.shot \in Shots \cup {Nothing} /\ q.goal \in Goals \cup {Nothing}
      /\ q.kind \in {"none"} \cup Pictured
  BY DEF Doings
<1>2. q.timer \in Nat /\ q.tries \in Nat
  BY <1>1, StoreConstants, ControlConstants
<1>3. q.shot # Nothing => q.shot \in Shots /\ q.shot.age \in Nat
  BY <1>1 DEF Shots
<1>4. q.goal # Nothing => q.goal \in Goals /\ q.goal.off \in Nat
  BY <1>1 DEF Goals
<1>5. QED BY <1>1, <1>2, <1>3, <1>4

LEMMA LookStep ==
    ASSUME NInv, NEW r \in Requests, NEW kind \in Pictured, Look(r, kind) PROVE NInv'
<1> DEFINE shot == [age |-> 0, place |-> place, sampled |-> sampled]
           q == [Idle EXCEPT !.step = "look", !.kind = kind, !.shot = shot]
<1>1. /\ request[r].step = "idle" /\ request' = [request EXCEPT ![r] = q]
      /\ kind = "plan" => mode = "flight"
      /\ UNCHANGED store /\ UNCHANGED <<mode, localAge>>
  BY DEF Look, MayPublish
<1>2. shot \in Shots /\ shot.age = 0
  BY DEF NInv, SInv, StoreTypes, Shots
<1>a. \A step : Patience(step) \in Nat
  BY PatienceTypes
<1> HIDE DEF shot
<1>3. /\ q \in Doings /\ q.step = "look" /\ q.timer = 0 /\ q.kind = kind /\ q.tries = 0
      /\ q.shot = shot /\ q.goal = Nothing
  <2> DEFINE a == [Idle EXCEPT !.step = "look"]
             b == [a EXCEPT !.kind = kind]
             c == [b EXCEPT !.shot = shot]
  <2>1. q = c
    BY DEF Idle
  <2>2. /\ q.step = "look" /\ q.timer = 0 /\ q.kind = kind /\ q.tries = 0
        /\ q.shot = shot /\ q.goal = Nothing
    BY DEF Idle
  <2>3. Idle \in Doings
    BY IdleDoes DEF Doing
  <2>4. a \in Doings
    BY <2>3 DEF Doings, Pending
  <2> HIDE DEF a
  <2>5. b \in Doings
    BY <2>4 DEF Doings
  <2> HIDE DEF b
  <2>6. c \in Doings
    BY <1>2, <2>5 DEF Doings
  <2> HIDE DEF c, q
  <2>7. QED BY <2>1, <2>2, <2>6
<1> HIDE DEF q
<1>4. Doing(q)
  <2>1. shot # Nothing
    BY <1>2, ControlConstants
  <2>2. q.timer <= Patience(q.step)
    BY <1>3, <1>a
  <2>3. ShotAged(q)
    BY <1>2, <1>3 DEF ShotAged
  <2>4. QED BY <1>1, <1>3, <2>1, <2>2, <2>3 DEF Doing, AtRest, Pending, Aimed, Publishing
<1>5. Keeps /\ MakingTypes' /\ \A s \in Requests : making'[s] = making[s]
  BY <1>1, StoreAtRest
<1>6. making'[r] = NoSnapshot
  BY <1>1, <1>5 DEF NInv, Anchored
<1>7. q.step # "making"
  BY <1>3
<1>8. QED BY <1>1, <1>3, <1>4, <1>5, <1>6, <1>7, Onward DEF shot

\* A request that ends.
LEMMA EndStep ==
    ASSUME NInv, NEW r \in Requests, Ends(r), request[r].step # "making",
           UNCHANGED store, UNCHANGED <<mode, localAge>>
    PROVE  NInv'
<1>1. Keeps /\ MakingTypes' /\ \A s \in Requests : making'[s] = making[s]
  BY StoreAtRest
<1>2. making'[r] = NoSnapshot
  BY <1>1 DEF NInv, Anchored
<1>3. request' = [request EXCEPT ![r] = Idle]
  BY DEF Ends
<1>4. QED BY <1>1, <1>2, <1>3, IdleDoes, Onward

\* A request that moves on, neither to storing a snapshot nor from it.
LEMMA MoveStep ==
    ASSUME NInv, NEW r \in Requests, request[r].step # "making",
           NEW q, request' = [request EXCEPT ![r] = q], Doing(q), q.step # "making",
           q.shot \in {Nothing, request[r].shot},
           UNCHANGED store, UNCHANGED <<mode, localAge>>
    PROVE  NInv'
<1>1. Keeps /\ MakingTypes' /\ \A s \in Requests : making'[s] = making[s]
  BY StoreAtRest
<1>2. making'[r] = NoSnapshot
  BY <1>1 DEF NInv, Anchored
<1>3. QED BY <1>1, <1>2, Onward

LEMMA HoldStep ==
    ASSUME NInv, NEW r \in Requests, Hold(r) PROVE NInv'
<1> DEFINE goal == [from |-> "odometry", off |-> localAge]
           q == [Idle EXCEPT !.step = "goal", !.goal = goal]
<1>1. /\ request[r].step = "idle" /\ request' = [request EXCEPT ![r] = q]
      /\ mode = "flight" /\ localAge # Nothing /\ localAge <= OdomMaxAge
      /\ UNCHANGED store /\ UNCHANGED <<mode, localAge>>
  BY DEF Hold, MayPublish, OdomUsable
<1>2. localAge \in Nat
  BY <1>1, ControlConstants DEF NInv, LocalCap
<1>3. goal \in Goals /\ goal.from = "odometry" /\ goal.off = localAge
  BY <1>2 DEF Goals
<1> HIDE DEF goal
<1>4. /\ q \in Doings /\ q.step = "goal" /\ q.timer = 0 /\ q.shot = Nothing /\ q.goal = goal
  <2> DEFINE a == [Idle EXCEPT !.step = "goal"]
             b == [a EXCEPT !.goal = goal]
  <2>1. q = b
    BY DEF Idle
  <2>2. q.step = "goal" /\ q.timer = 0 /\ q.shot = Nothing /\ q.goal = goal
    BY DEF Idle
  <2>3. Idle \in Doings
    BY IdleDoes DEF Doing
  <2>4. a \in Doings
    BY <2>3 DEF Doings, Publishing
  <2> HIDE DEF a
  <2>5. b \in Doings
    BY <1>3, <2>4 DEF Doings
  <2> HIDE DEF b, q
  <2>6. QED BY <2>1, <2>2, <2>5
<1> HIDE DEF q
<1>5. Doing(q)
  <2>1. goal # Nothing
    BY <1>3, ControlConstants
  <2>2. q.timer <= Patience(q.step)
    BY <1>4, PatienceTypes
  <2>3. GoalOff(q)
    BY <1>1, <1>2, <1>3, <1>4, ControlConstants DEF GoalOff
  <2>4. QED BY <1>1, <1>4, <2>1, <2>2, <2>3 DEF Doing, AtRest, Pending, Aimed, Publishing
<1>6. q.step # "making" /\ request[r].step # "making"
  BY <1>1, <1>4
<1>7. QED BY <1>1, <1>4, <1>5, <1>6, MoveStep

LEMMA GoesStep ==
    ASSUME NInv, NEW r \in Requests, request[r].step # "making",
           NEW step \in AtRest \cup Pending \cup Publishing, step # "making",
           request' = Goes(r, step), Doing(Moved(request[r], step)),
           UNCHANGED store, UNCHANGED <<mode, localAge>>
    PROVE  NInv'
<1> DEFINE q == Moved(request[r], step)
<1>1. request[r] \in Doings
  BY DEF NInv
<1>2. q.step = step /\ q.shot = request[r].shot
  BY <1>1, MovedFields
<1>3. request' = [request EXCEPT ![r] = q]
  BY GoesMoves
<1> HIDE DEF q
<1>4. Doing(q)
  BY DEF q
<1>5. QED BY <1>2, <1>3, <1>4, MoveStep

\* A goal on its way to be published, in its next step.
LEMMA GoalMoves ==
    ASSUME NInv, NEW r \in Requests, NEW step \in Publishing,
           request[r].step \in Aimed, mode = "flight", request' = Goes(r, step),
           GoalOff(Moved(request[r], step)),
           UNCHANGED store, UNCHANGED <<mode, localAge>>
    PROVE  NInv'
<1> DEFINE q == request[r]
           m == Moved(q, step)
<1>1. Doing(q)
  BY DEF NInv
<1>2. q \in Doings /\ q.goal # Nothing /\ q.shot = Nothing /\ q.step # "making"
  BY <1>1 DEF Doing, Aimed, Pending
<1>3. step \in AtRest \cup Pending \cup Publishing /\ step # "making"
  BY DEF Publishing
<1>4. m \in Doings /\ m.step = step /\ m.timer = 0 /\ m.shot = q.shot /\ m.goal = q.goal
  BY <1>2, <1>3, MovedFields
<1>5. Doing(m)
  <2> HIDE DEF m
  <2>1. m.timer <= Patience(m.step)
    BY <1>4, PatienceTypes
  <2>2. GoalOff(m)
    BY DEF m
  <2>3. QED BY <1>2, <1>4, <2>1, <2>2 DEF Doing, Publishing, Pending, Aimed
<1>6. QED BY <1>2, <1>3, <1>5, GoesStep

LEMMA PublishPreviewStep ==
    ASSUME NInv, NEW r \in Requests, PublishPreview(r) PROVE NInv'
<1> DEFINE q == request[r]
           m == Moved(q, "goal")
<1>1. /\ q.step = "shown" /\ mode = "flight" /\ request' = Goes(r, "goal")
      /\ UNCHANGED store /\ UNCHANGED <<mode, localAge>>
  BY DEF PublishPreview, MayPublish
<1>2. Doing(q)
  BY DEF NInv
<1>3. q \in Doings /\ GoalOff(q) /\ q.step \in Aimed /\ q.goal # Nothing
  BY <1>1, <1>2 DEF Doing, Aimed
<1>4. m.step = "goal" /\ m.goal = q.goal
  BY <1>3, MovedFields DEF Publishing
<1>5. q.goal.from = "picture" /\ q.goal.off <= MaxPoseDt
  <2>1. q.goal \in Goals
    BY <1>3, DoingTypes
  <2>2. q.goal.from \in {"picture", "odometry"}
    BY <2>1 DEF Goals
  <2>3. QED BY <1>1, <1>3, <2>2 DEF GoalOff
<1>6. GoalOff(m)
  <2> HIDE DEF m
  <2>1. QED BY <1>4, <1>5 DEF GoalOff
<1>7. "goal" \in Publishing
  BY DEF Publishing
<1>8. QED BY <1>1, <1>3, <1>6, <1>7, GoalMoves

LEMMA HavePublisherStep ==
    ASSUME NInv, NEW r \in Requests, HavePublisher(r) PROVE NInv'
<1> DEFINE q == request[r]
           m == Moved(q, "wait")
<1>1. /\ q.step = "goal" /\ request' = Goes(r, "wait")
      /\ UNCHANGED store /\ UNCHANGED <<mode, localAge>>
  BY DEF HavePublisher
<1>2. Doing(q)
  BY DEF NInv
<1>3. /\ q \in Doings /\ GoalOff(q) /\ q.step \in Aimed /\ q.goal # Nothing /\ mode = "flight"
      /\ q.timer <= MaxStall
  BY <1>1, <1>2, PatienceTypes DEF Doing, Aimed, Publishing, AtRest
<1>4. m.step = "wait" /\ m.goal = q.goal /\ m.timer = 0
  BY <1>3, MovedFields DEF Publishing
<1>5. q.timer \in Nat /\ q.goal.off \in Nat
  BY <1>3, DoingTypes
<1>6. GoalOff(m)
  <2> HIDE DEF m
  <2>1. QED BY <1>1, <1>3, <1>4, <1>5, StoreConstants, ControlConstants DEF GoalOff
<1>7. "wait" \in Publishing
  BY DEF Publishing
<1>8. QED BY <1>1, <1>3, <1>6, <1>7, GoalMoves

LEMMA LinkedStep ==
    ASSUME NInv, NEW r \in Requests, Linked(r) PROVE NInv'
<1> DEFINE q == request[r]
           m == Moved(q, "publish")
<1>1. /\ q.step = "wait" /\ q.timer < PlannerWait /\ request' = Goes(r, "publish")
      /\ UNCHANGED store /\ UNCHANGED <<mode, localAge>>
  BY DEF Linked
<1>2. Doing(q)
  BY DEF NInv
<1>3. q \in Doings /\ GoalOff(q) /\ q.step \in Aimed /\ q.goal # Nothing /\ mode = "flight"
  BY <1>1, <1>2 DEF Doing, Aimed, Publishing
<1>4. m.step = "publish" /\ m.goal = q.goal /\ m.timer = 0
  BY <1>3, MovedFields DEF Publishing
<1>5. q.timer \in Nat /\ q.goal.off \in Nat
  BY <1>3, DoingTypes
<1>6. GoalOff(m)
  <2> HIDE DEF m
  <2>1. QED BY <1>1, <1>3, <1>4, <1>5, StoreConstants, ControlConstants DEF GoalOff
<1>7. "publish" \in Publishing
  BY DEF Publishing
<1>8. QED BY <1>1, <1>3, <1>6, <1>7, GoalMoves

\* A picture that is still worked on, in its next step.
LEMMA PictureMoves ==
    ASSUME NInv, NEW r \in Requests, NEW step \in Pending, step # "making",
           request[r].step \in Pending \ {"making"}, request' = Goes(r, step),
           ShotAged(Moved(request[r], step)),
           UNCHANGED store, UNCHANGED <<mode, localAge>>
    PROVE  NInv'
<1> DEFINE q == request[r]
           m == Moved(q, step)
<1>1. Doing(q)
  BY DEF NInv
<1>2. /\ q \in Doings /\ q.goal = Nothing /\ q.shot # Nothing /\ q.step # "making"
      /\ q.kind \in Pictured /\ (q.kind = "plan" => mode = "flight")
  BY <1>1 DEF Doing, Aimed, Pending
<1>3. step \in AtRest \cup Pending \cup Publishing
  OBVIOUS
<1>4. /\ m \in Doings /\ m.step = step /\ m.timer = 0 /\ m.kind = q.kind
      /\ m.shot = q.shot /\ m.goal = q.goal
  BY <1>2, <1>3, MovedFields
<1>5. Doing(m)
  <2> HIDE DEF m
  <2>1. m.timer <= Patience(m.step)
    BY <1>4, PatienceTypes
  <2>2. ShotAged(m)
    BY DEF m
  <2>3. QED BY <1>2, <1>4, <2>1, <2>2 DEF Doing, Publishing, Pending, Aimed
<1>6. QED BY <1>2, <1>3, <1>5, GoesStep

LEMMA SeenStep ==
    ASSUME NInv, NEW r \in Requests, Seen(r) PROVE NInv'
<1> DEFINE q == request[r]
           m == Moved(q, "attempt")
<1>1. /\ q.step = "look" /\ request' = Goes(r, "attempt")
      /\ UNCHANGED store /\ UNCHANGED <<mode, localAge>>
  BY DEF Seen
<1>2. Doing(q)
  BY DEF NInv
<1>3. /\ q \in Doings /\ q.step \in Pending /\ q.timer <= LookTimeout
      /\ q.tries = 0 /\ q.shot.age = q.timer
  BY <1>1, <1>2, PatienceTypes DEF Doing, Pending, AtRest, ShotAged
<1>4. m.step = "attempt" /\ m.tries = 0 /\ m.timer = 0 /\ m.shot = q.shot
  BY <1>3, MovedFields DEF Pending
<1>5. q.timer \in Nat
  BY <1>3, DoingTypes
<1>6. ShotAged(m)
  <2> HIDE DEF m
  <2>1. Spent(0) = 0
    BY SpentFacts
  <2>2. QED BY <1>3, <1>4, <1>5, <2>1, ControlConstants DEF ShotAged
<1>7. "attempt" \in Pending /\ q.step # "making"
  BY <1>1 DEF Pending
<1>8. QED BY <1>1, <1>3, <1>6, <1>7, PictureMoves

LEMMA ResumeStep ==
    ASSUME NInv, NEW r \in Requests, Resume(r) PROVE NInv'
<1> DEFINE q == request[r]
           m == Moved(q, "attempt")
<1>1. /\ q.step = "pause" /\ q.timer = 1 /\ request' = Goes(r, "attempt")
      /\ UNCHANGED store /\ UNCHANGED <<mode, localAge>>
  BY DEF Resume
<1>2. Doing(q)
  BY DEF NInv
<1>3. /\ q \in Doings /\ q.step \in Pending /\ q.shot # Nothing
      /\ q.tries >= 1 /\ q.shot.age <= LookTimeout + Spent(q.tries - 1) + MaxStall + 1
      /\ q.shot.age >= q.tries - 1 + 1
  BY <1>1, <1>2 DEF Doing, Pending, AtRest, ShotAged
<1>4. m.step = "attempt" /\ m.tries = q.tries /\ m.timer = 0 /\ m.shot = q.shot
  BY <1>3, MovedFields DEF Pending
<1>5. q.tries \in Nat /\ q.shot.age \in Nat
  BY <1>3, DoingTypes
<1>6. Spent(q.tries) = Spent(q.tries - 1) + 1 + MaxStall /\ Spent(q.tries - 1) \in Nat
  <2>1. q.tries - 1 \in Nat /\ (q.tries - 1) + 1 = q.tries
    BY <1>3, <1>5
  <2>2. QED BY <2>1, SpentFacts
<1>7. ShotAged(m)
  <2> HIDE DEF m
  <2>1. QED BY <1>3, <1>4, <1>5, <1>6, StoreConstants, ControlConstants DEF ShotAged
<1>8. "attempt" \in Pending /\ q.step # "making"
  BY <1>1 DEF Pending
<1>9. QED BY <1>1, <1>3, <1>7, <1>8, PictureMoves

LEMMA RetryStep ==
    ASSUME NInv, NEW r \in Requests, Retry(r) PROVE NInv'
<1> DEFINE q == request[r]
           p == Moved(q, "pause")
           m == [p EXCEPT !.tries = p.tries + 1]
<1>1. /\ q.step = "attempt" /\ q.tries < Attempts - 1
      /\ request' = [Goes(r, "pause") EXCEPT ![r].tries = Goes(r, "pause")[r].tries + 1]
      /\ UNCHANGED store /\ UNCHANGED <<mode, localAge>>
  BY DEF Retry
<1>2. Doing(q)
  BY DEF NInv
<1>3. /\ q \in Doings /\ q.step \in Pending /\ q.shot # Nothing /\ q.goal = Nothing
      /\ q.kind \in Pictured /\ (q.kind = "plan" => mode = "flight") /\ q.timer <= MaxStall
      /\ q.shot.age <= LookTimeout + Spent(q.tries) + q.timer /\ q.shot.age >= q.tries
  BY <1>1, <1>2, PatienceTypes DEF Doing, Pending, AtRest, Aimed, ShotAged
<1>4. /\ p \in Doings /\ p.step = "pause" /\ p.timer = 0 /\ p.kind = q.kind
      /\ p.tries = q.tries /\ p.shot = q.shot /\ p.goal = q.goal
  BY <1>3, MovedFields DEF Pending
<1>5. q.tries \in 0..(Attempts - 1) /\ q.tries \in Nat /\ q.timer \in Nat
      /\ q.shot.age \in Nat
  BY <1>3, DoingTypes
<1>6. request' = [request EXCEPT ![r] = m]
  <2>1. Goes(r, "pause") = [request EXCEPT ![r] = p] /\ request \in [Requests -> Doings]
    BY GoesMoves DEF NInv
  <2> HIDE DEF p
  <2>2. Goes(r, "pause")[r] = p
    BY <2>1
  <2>3. QED BY <1>1, <2>1, <2>2
<1> HIDE DEF p
<1>7. /\ m \in Doings /\ m.step = "pause" /\ m.timer = 0 /\ m.kind = q.kind
      /\ m.tries = q.tries + 1 /\ m.shot = q.shot /\ m.goal = Nothing
  <2>1. p.tries + 1 \in 0..(Attempts - 1)
    BY <1>1, <1>4, <1>5, ControlConstants
  <2>2. m \in Doings
    BY <1>4, <2>1 DEF Doings
  <2>3. QED BY <1>3, <1>4, <2>2 DEF Doings
<1> HIDE DEF m
<1>8. Doing(m)
  <2>1. m.timer <= Patience(m.step)
    BY <1>7, PatienceTypes
  <2>a. Spent(q.tries) \in Nat
    BY <1>5, SpentFacts, Zenon
  <2>2. q.tries \in Nat /\ (q.tries + 1) - 1 = q.tries /\ Spent(q.tries) \in Nat
    BY <1>5, <2>a
  <2>3. ShotAged(m)
    BY <1>3, <1>5, <1>7, <2>2, StoreConstants, ControlConstants DEF ShotAged
  <2>4. QED BY <1>3, <1>7, <2>1, <2>3 DEF Doing, Publishing, Pending, Aimed
<1>9. q.step # "making" /\ m.step # "making"
  BY <1>1, <1>7
<1>10. QED BY <1>1, <1>6, <1>7, <1>8, <1>9, MoveStep

LEMMA AttemptStep ==
    ASSUME NInv, NEW r \in Requests, Attempt(r) PROVE NInv'
<1> DEFINE q == request[r]
           m == Moved(q, "making")
           age == q.shot.age
<1>1. /\ q.step = "attempt" /\ request' = Goes(r, "making") /\ Obs!Judge(r, age)
      /\ UNCHANGED <<mode, localAge>>
  BY DEF Attempt
<1>2. /\ Obs!Bracketed(age) /\ making' = [making EXCEPT ![r] = <<0, Obs!PlaceAt(age)>>]
      /\ making[r] = NoSnapshot
  BY <1>1 DEF Obs!Judge
<1>3. Doing(q) /\ SInv /\ MakingTypes /\ OnOneWay(Marks)
  BY DEF NInv
<1>4. /\ q \in Doings /\ q.step \in Pending /\ q.shot # Nothing /\ q.goal = Nothing
      /\ q.kind \in Pictured /\ (q.kind = "plan" => mode = "flight") /\ q.timer <= MaxStall
      /\ q.shot.age <= LookTimeout + Spent(q.tries) + q.timer
  BY <1>1, <1>3, PatienceTypes DEF Doing, Pending, AtRest, Aimed, ShotAged
<1>5. q.shot \in Shots /\ age \in 0..PictureBound
  BY <1>3, <1>4, PictureYoung
<1>6. age \in Nat /\ q.shot.place \in 0..Path /\ age + MaxPoseDt < AgeCap
  <2>1. age \in Nat /\ q.shot.place \in 0..Path
    BY <1>5 DEF Shots
  <2>2. age <= PictureBound /\ PictureBound \in Nat
    <3>1. Attempts - 1 \in Nat
      BY ControlConstants, StoreConstants
    <3>a. Spent(Attempts - 1) \in Nat
          /\ PictureBound = LookTimeout + Spent(Attempts - 1) + 2 * MaxStall
      BY <3>1, SpentFacts, Zenon
    <3>2. PictureBound \in Nat
      BY <3>a, StoreConstants, ControlConstants
    <3>3. QED BY <1>5, <3>2
  <2>3. QED BY <2>1, <2>2, StoreConstants, ControlConstants
<1>7. Obs!PlaceAt(age) \in 0..Path /\ Distance(Obs!PlaceAt(age), q.shot.place) <= MaxPoseDt
  <2>1. Marks \in SUBSET Points /\ Readings \subseteq Marks /\ Spot(q.shot) \in Marks
    BY <1>4, MarksArePoints DEF Marks
  <2>2. <<age, q.shot.place>> \in Marks
    BY <2>1 DEF Spot
  <2>3. QED BY <1>2, <1>3, <1>6, <2>1, <2>2, Estimate
<1>8. /\ m \in Doings /\ m.step = "making" /\ m.timer = 0 /\ m.kind = q.kind
      /\ m.tries = q.tries /\ m.shot = q.shot /\ m.goal = q.goal
  BY <1>4, MovedFields DEF Pending
<1>9. request' = [request EXCEPT ![r] = m]
  BY <1>1, GoesMoves
<1> HIDE DEF m
<1>10. Doing(m)
  <2>1. m.timer <= Patience(m.step)
    BY <1>8, PatienceTypes
  <2>2. ShotAged(m)
    <3>1. q.tries \in 0..(Attempts - 1) /\ q.tries \in Nat /\ q.timer \in Nat
      BY <1>4, DoingTypes
    <3>2. Attempts - 1 \in Nat /\ q.tries <= Attempts - 1
      BY <3>1, StoreConstants, ControlConstants
    <3>3. Spent(q.tries) <= Spent(Attempts - 1)
          /\ Spent(q.tries) \in Nat /\ Spent(Attempts - 1) \in Nat
      BY <3>1, <3>2, SpentFacts
    <3>4. m.shot.age <= LookTimeout + Spent(Attempts - 1) + MaxStall + m.timer
      BY <1>4, <1>6, <1>8, <3>1, <3>3, StoreConstants, ControlConstants
    <3>5. QED BY <1>8, <3>4 DEF ShotAged
  <2>3. QED BY <1>4, <1>8, <2>1, <2>2 DEF Doing, Publishing, Pending, Aimed
<1>11. Keeps
  BY <1>1, <1>3, JudgeKeeps
<1>12. 0 \in 0..MaxStall /\ <<0, Obs!PlaceAt(age)>> \in (0..MaxStall) \X (0..Path)
  BY <1>7, StoreConstants
<1>13. <<0, Obs!PlaceAt(age)>> # NoSnapshot
  <2>1. <<0, Obs!PlaceAt(age)>> \in Nat \X Nat
    BY <1>7, StoreConstants
  <2>2. QED BY <2>1, StoreConstants
<1> DEFINE new == <<0, Obs!PlaceAt(age)>>
<1>14. new[2] = Obs!PlaceAt(age)
  OBVIOUS
<1> HIDE DEF new
<1>15. /\ MakingTypes' /\ making'[r] = new
       /\ \A s \in Requests : s # r => making'[s] = making[s]
  BY <1>2, <1>3, <1>12 DEF MakingTypes, new
<1>16. m.step = "making" <=> making'[r] # NoSnapshot
  BY <1>8, <1>13, <1>15 DEF new
<1>17. Distance(making'[r][2], m.shot.place) <= MaxPoseDt
  BY <1>7, <1>8, <1>14, <1>15
<1>18. QED BY <1>1, <1>8, <1>9, <1>10, <1>11, <1>15, <1>16, <1>17, Onward

\* What has been stored is no longer being stored.
LEMMA Stored ==
    ASSUME NInv, NEW r \in Requests, Obs!Store(r)
    PROVE  /\ Keeps /\ MakingTypes' /\ making'[r] = NoSnapshot
           /\ \A s \in Requests : s # r => making'[s] = making[s]
<1>1. making' = [making EXCEPT ![r] = NoSnapshot] /\ MakingTypes /\ SInv
  BY DEF Obs!Store, NInv
<1>2. Keeps
  BY <1>1, StoreKeeps
<1>3. QED BY <1>1, <1>2 DEF MakingTypes

LEMMA AnswerLostStep ==
    ASSUME NInv, NEW r \in Requests, AnswerLost(r) PROVE NInv'
<1>1. Obs!Store(r) /\ request' = [request EXCEPT ![r] = Idle] /\ UNCHANGED <<mode, localAge>>
  BY DEF AnswerLost, Ends
<1>2. QED BY <1>1, Stored, IdleDoes, Onward

LEMMA AnchorStep ==
    ASSUME NInv, NEW r \in Requests, Anchor(r) PROVE NInv'
<1> DEFINE q == request[r]
           step == IF q.kind = "plan" THEN "goal" ELSE "shown"
           goal == GoalOf(r)
           a == [Idle EXCEPT !.step = step]
           m == [a EXCEPT !.goal = goal]
<1>1. /\ q.step = "making" /\ Obs!Store(r) /\ UNCHANGED <<mode, localAge>>
      /\ request' = [request EXCEPT ![r] = [Idle EXCEPT !.step = step, !.goal = goal]]
  BY DEF Anchor
<1>2. Doing(q) /\ Anchored(r) /\ MakingTypes
  BY DEF NInv
<1>3. /\ q.kind \in Pictured /\ (q.kind = "plan" => mode = "flight")
      /\ q \in Doings /\ q.shot # Nothing
  BY <1>1, <1>2 DEF Doing, Pending
<1>4. making[r] # NoSnapshot /\ Distance(making[r][2], q.shot.place) <= MaxPoseDt
  BY <1>1, <1>2 DEF Anchored
<1>5. making[r][2] \in Nat /\ q.shot.place \in Nat
  <2>1. making[r] \in (0..MaxStall) \X (0..Path)
    BY <1>2, <1>4 DEF MakingTypes
  <2>2. q.shot \in Shots
    BY <1>3, DoingTypes
  <2>3. QED BY <2>1, <2>2, StoreConstants DEF Shots
<1>6. goal = [from |-> "picture", off |-> Distance(making[r][2], q.shot.place)]
  BY DEF GoalOf
<1>7. Distance(making[r][2], q.shot.place) \in Nat
  BY <1>5 DEF Distance
<1>8. goal \in Goals /\ goal.from = "picture" /\ goal.off <= MaxPoseDt
  BY <1>4, <1>6, <1>7 DEF Goals
<1>9. step \in {"goal", "shown"} /\ (step = "goal" => mode = "flight")
  BY <1>3
<1> HIDE DEF step, goal
<1>10. [Idle EXCEPT !.step = step, !.goal = goal] = m
  BY DEF Idle
<1>11. Idle \in Doings
  BY IdleDoes DEF Doing
<1>12. a \in Doings
  BY <1>9, <1>11 DEF Doings, AtRest, Publishing
<1>13. m.step = step /\ m.timer = 0 /\ m.shot = Nothing /\ m.goal = goal
  BY DEF Idle
<1> HIDE DEF a
<1>14. m \in Doings
  BY <1>8, <1>12 DEF Doings
<1> HIDE DEF m
<1>15. Doing(m)
  <2>1. goal # Nothing
    BY <1>8, ControlConstants
  <2>2. m.timer <= Patience(m.step)
    BY <1>13, PatienceTypes
  <2>3. GoalOff(m)
    BY <1>8, <1>13 DEF GoalOff
  <2>4. QED BY <1>9, <1>13, <1>14, <2>1, <2>2, <2>3
            DEF Doing, AtRest, Pending, Aimed, Publishing
<1>16. m.step # "making"
  BY <1>9, <1>13
<1>17. /\ Keeps /\ MakingTypes' /\ making'[r] = NoSnapshot
       /\ \A s \in Requests : s # r => making'[s] = making[s]
  BY <1>1, Stored
<1>18. QED BY <1>1, <1>10, <1>13, <1>15, <1>16, <1>17, Onward

LEMMA FailStep ==
    ASSUME NInv, NEW r \in Requests, Fail(r) PROVE NInv'
<1>1. request[r].step # "making" /\ Ends(r) /\ UNCHANGED store /\ UNCHANGED <<mode, localAge>>
  BY DEF Fail
<1>2. QED BY <1>1, EndStep

\* A step in which no request moves and no time passes.
LEMMA Besides ==
    ASSUME NInv, Keeps, MakingTypes', UNCHANGED making, UNCHANGED <<mode, request>>,
           localAge' \in 0..LocalCap \cup {Nothing}
    PROVE  NInv'
<1>1. /\ \A x \in Readings : x[1] <= History => x \in Readings'
      /\ Readings' \subseteq Readings /\ place' = place /\ sampled' = sampled /\ SInv'
  BY DEF Keeps
<1>2. \A s \in Requests : Doing(request[s])'
  <2> TAKE s \in Requests
  <2>1. Doing(request[s])
    BY DEF NInv
  <2>2. QED BY <2>1 DEF Doing, ShotAged, GoalOff
<1>3. \A s \in Requests : Anchored(s)'
  <2> TAKE s \in Requests
  <2>1. Anchored(s)
    BY DEF NInv
  <2>2. Spot(request[s].shot)[1] = request[s].shot.age
    BY DEF Spot
  <2>3. request[s].shot # Nothing /\ request[s].shot.sampled /\ request[s].shot.age <= History
          => Spot(request[s].shot) \in Readings'
    BY <1>1, <2>1, <2>2 DEF Anchored
  <2>4. QED BY <2>1, <2>3 DEF Anchored, Spot
<1>4. sampled' => <<0, place'>> \in Readings'
  BY <1>1, StoreConstants DEF NInv
<1>5. OnOneWay(Marks)'
  <2>1. Marks' \subseteq Marks
    BY <1>1 DEF Marks, Spot
  <2>2. QED BY <2>1 DEF NInv, OnOneWay
<1>6. QED BY <1>1, <1>2, <1>3, <1>4, <1>5 DEF NInv

LEMMA IngestStep == NInv /\ Ingest => NInv'
<1> SUFFICES ASSUME NInv, Ingest PROVE NInv'
  OBVIOUS
<1>1. Obs!Ingest /\ UNCHANGED <<mode, localAge, request>>
  BY DEF Ingest, control
<1>2. UNCHANGED making
  BY <1>1 DEF Obs!Ingest
<1>3. SInv /\ MakingTypes /\ localAge \in 0..LocalCap \cup {Nothing}
  BY DEF NInv
<1>4. Keeps
  BY <1>1, <1>3, IngestKeeps
<1>5. MakingTypes'
  BY <1>2, <1>3 DEF MakingTypes
<1>6. QED BY <1>1, <1>2, <1>3, <1>4, <1>5, Besides

LEMMA TrimStep == NInv /\ Trim => NInv'
<1> SUFFICES ASSUME NInv, Trim PROVE NInv'
  OBVIOUS
<1>1. /\ Obs!Trim \/ \E i \in 0..Limit, lag \in 0..MaxStall : Obs!Get(i, lag)
      /\ UNCHANGED <<mode, localAge, request>>
  BY DEF Trim, control
<1>2. UNCHANGED making
  BY <1>1 DEF Obs!Trim, Obs!Get
<1>3. SInv /\ MakingTypes /\ localAge \in 0..LocalCap \cup {Nothing}
  BY DEF NInv
<1>4. Keeps
  BY <1>1, <1>3, TrimKeeps, GetKeeps
<1>5. MakingTypes'
  BY <1>2, <1>3 DEF MakingTypes
<1>6. QED BY <1>1, <1>2, <1>3, <1>4, <1>5, Besides

LEMMA LocalOdomStep == NInv /\ LocalOdom => NInv'
<1> SUFFICES ASSUME NInv, LocalOdom PROVE NInv'
  OBVIOUS
<1>1. UNCHANGED store /\ UNCHANGED <<mode, request>> /\ localAge' = 0
  BY DEF LocalOdom
<1>2. Keeps /\ MakingTypes' /\ UNCHANGED making
  BY <1>1, StoreAtRest DEF store
<1>3. localAge' \in 0..LocalCap \cup {Nothing}
  BY <1>1, ControlConstants DEF LocalCap
<1>4. QED BY <1>1, <1>2, <1>3, Besides

\* What a quantum does to a request.
LEMMA AgedDoes ==
    ASSUME NEW q, Doing(q), q.step \notin AtRest => q.timer < Patience(q.step)
    PROVE  /\ Doing(Aged(q)) /\ Aged(q).step = q.step
           /\ (Aged(q).shot = Nothing) <=> (q.shot = Nothing)
           /\ q.shot # Nothing =>
                /\ Aged(q).shot.age = q.shot.age + 1 /\ Aged(q).shot.place = q.shot.place
                /\ Aged(q).shot.sampled = q.shot.sampled
<1> DEFINE m == Aged(q)
           shot == OlderShot(q.shot)
           goal == OlderGoal(q.goal)
<1>1. q \in Doings
  BY DEF Doing
<1>2. CASE q.step \in AtRest
  <2>1. m = q
    BY <1>2 DEF Aged
  <2>2. q.shot = Nothing
    BY <1>2 DEF Doing, AtRest, Pending
  <2>3. QED BY <2>1, <2>2
<1>3. CASE q.step \notin AtRest
  <2>1. q.timer < Patience(q.step) /\ q.timer \in Nat /\ Patience(q.step) \in Nat
    BY <1>1, <1>3, DoingTypes, PatienceTypes
  <2>2. /\ shot \in Shots \cup {Nothing}
        /\ (shot = Nothing) <=> (q.shot = Nothing)
        /\ q.shot # Nothing => /\ shot.age = q.shot.age + 1 /\ shot.place = q.shot.place
                               /\ shot.sampled = q.shot.sampled
    <3>1. q.shot \in Shots \cup {Nothing}
      BY <1>1 DEF Doings
    <3>2. q.shot # Nothing => [q.shot EXCEPT !.age = q.shot.age + 1] \in Shots
      BY <3>1 DEF Shots
    <3>3. QED BY <3>1, <3>2, ControlConstants DEF Shots, OlderShot
  <2>3. /\ goal \in Goals \cup {Nothing}
        /\ (goal = Nothing) <=> (q.goal = Nothing)
        /\ q.goal # Nothing =>
             /\ goal.from = q.goal.from
             /\ goal.off = IF q.goal.from = "odometry" THEN q.goal.off + 1 ELSE q.goal.off
    <3>1. q.goal \in Goals \cup {Nothing}
      BY <1>1 DEF Doings
    <3>2. q.goal # Nothing => [q.goal EXCEPT !.off = q.goal.off + 1] \in Goals
      BY <3>1 DEF Goals
    <3>3. QED BY <3>1, <3>2, ControlConstants DEF Goals, OlderGoal
  <2>a. m = [q EXCEPT !.timer = q.timer + 1, !.goal = goal, !.shot = shot]
    BY <1>3, Zenon DEF Aged
  <2> HIDE DEF m, shot, goal
  <2>b. goal \in Goals \cup {Nothing} /\ shot \in Shots \cup {Nothing}
    BY <2>2, <2>3
  <2>4. /\ m.step = q.step /\ m.kind = q.kind /\ m.timer = q.timer + 1 /\ m.tries = q.tries
        /\ m.shot = shot /\ m.goal = goal
    BY <1>1, <2>a DEF Doings
  <2>5. m \in Doings
    <3> DEFINE a == [q EXCEPT !.timer = q.timer + 1]
               b == [a EXCEPT !.goal = goal]
               c == [b EXCEPT !.shot = shot]
    <3>1. m = c
      BY <1>1, <2>a DEF Doings
    <3>2. Patience(q.step) <= LookTimeout + PlannerWait + MaxStall + 1
      BY StoreConstants, ControlConstants DEF Patience
    <3>3. q.timer + 1 \in 0..(LookTimeout + PlannerWait + MaxStall + 1)
      BY <2>1, <3>2, StoreConstants, ControlConstants
    <3>4. a \in Doings
      BY <1>1, <3>3 DEF Doings
    <3> HIDE DEF a
    <3>5. b \in Doings
      BY <2>b, <3>4 DEF Doings
    <3> HIDE DEF b
    <3>6. c \in Doings
      BY <2>b, <3>5 DEF Doings
    <3> HIDE DEF c
    <3>7. QED BY <3>1, <3>6
  <2>6. m.timer <= Patience(m.step)
    BY <2>1, <2>4
  <2>7. q.step \in Pending => ShotAged(m)
    <3> SUFFICES ASSUME q.step \in Pending PROVE ShotAged(m)
      OBVIOUS
    <3>1. ShotAged(q) /\ q.shot # Nothing
      BY DEF Doing
    <3>2. m.shot.age = q.shot.age + 1 /\ q.shot.age \in Nat /\ q.tries \in Nat
      BY <1>1, <2>2, <2>4, <3>1, DoingTypes
    <3>3. Spent(q.tries) \in Nat /\ (q.tries >= 1 => Spent(q.tries - 1) \in Nat)
          /\ Spent(Attempts - 1) \in Nat
      <4>1. \A n \in Nat : Spent(n) \in Nat
        BY SpentFacts, Zenon
      <4>2. Attempts - 1 \in Nat
        BY StoreConstants, ControlConstants
      <4>3. QED BY <3>2, <4>1, <4>2
    <3>4. QED BY <2>1, <2>4, <3>1, <3>2, <3>3, StoreConstants, ControlConstants DEF ShotAged
  <2>8. q.step \in Aimed => GoalOff(m)
    <3> SUFFICES ASSUME q.step \in Aimed PROVE GoalOff(m)
      OBVIOUS
    <3>1. GoalOff(q) /\ q.goal # Nothing
      BY DEF Doing
    <3>2. /\ m.goal.from = q.goal.from /\ q.goal.off \in Nat
          /\ m.goal.off = IF q.goal.from = "odometry" THEN q.goal.off + 1 ELSE q.goal.off
      BY <1>1, <2>3, <2>4, <3>1, DoingTypes
    <3>3. QED BY <2>1, <2>4, <3>1, <3>2, StoreConstants, ControlConstants DEF GoalOff
  <2>9. Doing(m)
    BY <2>2, <2>3, <2>4, <2>5, <2>6, <2>7, <2>8 DEF Doing
  <2>10. QED BY <2>2, <2>4, <2>9 DEF m
<1>4. QED BY <1>2, <1>3

LEMMA TickStep == NInv /\ Tick => NInv'
<1> SUFFICES ASSUME NInv, Tick PROVE NInv'
  OBVIOUS
<1>1. /\ Obs!Tick /\ UNCHANGED mode
      /\ \A r \in Requests :
           request[r].step \notin AtRest => request[r].timer < Patience(request[r].step)
      /\ request' = [r \in Requests |-> Aged(request[r])]
      /\ localAge' = IF localAge = Nothing THEN Nothing ELSE Obs!AtMost(LocalCap, localAge + 1)
  BY DEF Tick
<1>2. SInv /\ MakingTypes /\ OnOneWay(Marks) /\ mode \in Modes
  BY DEF NInv
<1>3. /\ SInv' /\ MakingTypes' /\ place' \in {place, place + 1}
      /\ Readings' \subseteq {Later(x) : x \in Readings} \cup {<<0, place'>>}
      /\ \A x \in Readings : Later(x) \in Readings'
      /\ sampled' => <<0, place'>> \in Readings'
  BY <1>1, <1>2, TickAges
<1>4. \A r \in Requests : making'[r] = IF making[r] = NoSnapshot THEN NoSnapshot
                                       ELSE <<making[r][1] + 1, making[r][2]>>
  BY <1>1 DEF Obs!Tick
<1>5. ASSUME NEW r \in Requests
      PROVE  /\ Doing(request[r]) /\ request'[r] = Aged(request[r]) /\ Doing(request'[r])
             /\ request'[r].step = request[r].step
             /\ (request'[r].shot = Nothing) <=> (request[r].shot = Nothing)
             /\ request[r].shot # Nothing =>
                  /\ request'[r].shot.age = request[r].shot.age + 1
                  /\ request'[r].shot.place = request[r].shot.place
                  /\ request'[r].shot.sampled = request[r].shot.sampled
  <2>1. Doing(request[r])
    BY DEF NInv
  <2>2. request'[r] = Aged(request[r])
    BY <1>1
  <2>3. request[r].step \notin AtRest => request[r].timer < Patience(request[r].step)
    BY <1>1
  <2>4. QED BY <2>1, <2>2, <2>3, AgedDoes
<1>6. request' \in [Requests -> Doings]
  <2>1. \A r \in Requests : Aged(request[r]) \in Doings
    BY <1>5 DEF Doing
  <2>2. QED BY <1>1, <2>1
<1>7. \A r \in Requests : Doing(request[r])'
  <2> TAKE r \in Requests
  <2>1. Doing(request'[r])
    BY <1>5
  <2>2. QED BY <1>1, <2>1 DEF Doing, ShotAged, GoalOff
<1>8. localAge' \in 0..LocalCap \cup {Nothing}
  <2>1. localAge \in 0..LocalCap \cup {Nothing}
    BY DEF NInv
  <2>2. QED BY <1>1, <2>1, ControlConstants DEF LocalCap, Obs!AtMost
\* The picture's point ages as the readings do.
<1>9. ASSUME NEW r \in Requests, request'[r].shot # Nothing
      PROVE  /\ request[r].shot # Nothing /\ request[r].shot.age \in Nat
             /\ Spot(request'[r].shot) = Later(Spot(request[r].shot))
             /\ request'[r].shot.age = request[r].shot.age + 1
             /\ request'[r].shot.sampled = request[r].shot.sampled
             /\ request'[r].shot.place = request[r].shot.place
  <2> DEFINE q == request[r]
             m == request'[r]
  <2>1. /\ q.shot # Nothing /\ Doing(q) /\ Doing(m) /\ m.shot # Nothing
        /\ m.shot.age = q.shot.age + 1 /\ m.shot.place = q.shot.place
        /\ m.shot.sampled = q.shot.sampled
    BY <1>5, <1>9
  <2> HIDE DEF q, m
  <2>2. q.step \in Pending /\ m.step \in Pending
    BY <2>1 DEF Doing
  <2>3. /\ q.shot \in Shots /\ q.shot.age \in 0..PictureBound
        /\ m.shot \in Shots /\ m.shot.age \in 0..PictureBound
    BY <2>1, <2>2, PictureYoung
  <2>4. q.shot.age \in Nat /\ m.shot.age <= PictureBound /\ m.shot.age \in Nat
    BY <2>3 DEF Shots
  <2>5. q.shot.age + 1 <= AgeCap
    <3>1. PictureBound \in Int \/ PictureBound < m.shot.age \/ PictureBound >= m.shot.age
      BY <2>4
    <3>2. AgeCap > PictureBound + MaxPoseDt /\ AgeCap \in Nat /\ MaxPoseDt \in Nat
      BY StoreConstants, ControlConstants
    <3>3. PictureBound \in Int
      <4>1. Attempts \in Nat /\ MaxStall \in Nat /\ LookTimeout \in Nat
        BY StoreConstants, ControlConstants
      <4>2. (Attempts + 1) * MaxStall \in Nat
        BY <4>1
      <4>3. QED BY <4>1, <4>2 DEF PictureBound
    <3>4. QED BY <2>1, <2>4, <3>2, <3>3
  <2>6. Later(Spot(q.shot)) = <<q.shot.age + 1, q.shot.place>>
    BY <2>4, <2>5, StoreConstants DEF Later, Spot, Obs!AtMost
  <2>7. Spot(m.shot) = <<q.shot.age + 1, q.shot.place>>
    BY <2>1 DEF Spot
  <2>8. QED BY <2>1, <2>4, <2>6, <2>7 DEF q, m
<1>10. \A r \in Requests : Anchored(r)'
  <2> TAKE r \in Requests
  <2>1. Anchored(r)
    BY DEF NInv
  <2>2. request'[r].step = "making" <=> making'[r] # NoSnapshot
    <3>1. making[r] # NoSnapshot => making[r] \in (0..MaxStall) \X (0..Path)
      BY <1>2 DEF MakingTypes
    <3>2. making[r] # NoSnapshot => <<making[r][1] + 1, making[r][2]>> \in Nat \X Nat
      BY <3>1, StoreConstants
    <3>3. making[r] # NoSnapshot => <<making[r][1] + 1, making[r][2]>> # NoSnapshot
      BY <3>2, StoreConstants
    <3>4. making'[r] # NoSnapshot <=> making[r] # NoSnapshot
      BY <1>4, <3>3
    <3>5. QED BY <1>5, <2>1, <3>4 DEF Anchored
  <2>3. ASSUME making'[r] # NoSnapshot
        PROVE  Distance(making'[r][2], request'[r].shot.place) <= MaxPoseDt
    <3>1. making[r] # NoSnapshot /\ making'[r][2] = making[r][2]
      <4>1. making[r] # NoSnapshot
        BY <1>4, <2>3
      <4>2. making'[r] = <<making[r][1] + 1, making[r][2]>>
        BY <1>4, <4>1
      <4>3. QED BY <4>1, <4>2
    <3>2. request[r].step = "making" /\ request[r].shot # Nothing
      BY <1>5, <2>1, <3>1 DEF Anchored, Doing, Pending
    <3>3. request'[r].shot.place = request[r].shot.place
      BY <1>5, <3>2
    <3>4. QED BY <2>1, <3>1, <3>3 DEF Anchored
  <2>4. ASSUME request'[r].shot # Nothing, request'[r].shot.sampled,
               request'[r].shot.age <= History
        PROVE  Spot(request'[r].shot) \in Readings'
    <3>1. /\ request[r].shot # Nothing /\ request[r].shot.sampled
          /\ request[r].shot.age \in Nat /\ request[r].shot.age + 1 <= History
          /\ Spot(request'[r].shot) = Later(Spot(request[r].shot))
      BY <1>9, <2>4
    <3>2. Spot(request[r].shot) \in Readings
      BY <2>1, <3>1, StoreConstants DEF Anchored
    <3>3. QED BY <1>3, <3>1, <3>2
  <2>5. QED BY <2>2, <2>3, <2>4 DEF Anchored, Spot
<1>11. OnOneWay(Marks)'
  <2>1. ASSUME NEW x \in Marks'
        PROVE  x \in {Later(y) : y \in Marks} \cup {<<0, place'>>}
    <3>1. CASE x \in Readings'
      BY <1>3, <3>1 DEF Marks
    <3>2. CASE x = <<0, place'>>
      BY <3>2
    <3>3. CASE \E r \in Requests : request'[r].shot # Nothing /\ x = Spot(request'[r].shot)
      <4>1. PICK r \in Requests : request'[r].shot # Nothing /\ x = Spot(request'[r].shot)
        BY <3>3
      <4>2. request[r].shot # Nothing /\ x = Later(Spot(request[r].shot))
        BY <1>9, <4>1
      <4>3. Spot(request[r].shot) \in Marks
        BY <4>2 DEF Marks
      <4>4. QED BY <4>2, <4>3
    <3>4. QED BY <3>1, <3>2, <3>3 DEF Marks, Spot
  <2>2. Marks' \in SUBSET ({Later(y) : y \in Marks} \cup {<<0, place'>>})
    BY <2>1
  <2>3. Marks \in SUBSET Points /\ <<0, place>> \in Marks
    BY MarksArePoints DEF Marks
  <2>4. OnOneWay(Marks')
    BY <1>2, <1>3, <2>2, <2>3, WayGoesOn
  <2>5. QED BY <2>4 DEF OnOneWay
<1>12. QED BY <1>1, <1>2, <1>3, <1>6, <1>7, <1>8, <1>10, <1>11 DEF NInv

----------------------------------------------------------------------------
\* Invariance

LEMMA InitInv == Init => NInv
<1> SUFFICES ASSUME Init PROVE NInv
  OBVIOUS
<1>1. /\ place = 0 /\ sampled = FALSE /\ transit = <<>> /\ odom = <<>> /\ snaps = <<>>
      /\ making = [r \in Requests |-> NoSnapshot]
      /\ mode \in Modes /\ localAge = Nothing /\ request = [r \in Requests |-> Idle]
  BY DEF Init, Obs!Init
<1>2. SInv
  <2>1. StoreTypes
    <3>1. 0 \in 0..Path /\ FALSE \in BOOLEAN /\ 0 <= Limit
      BY StoreConstants
    <3>2. <<>> \in Seq(Flying) /\ <<>> \in Seq(Samples) /\ <<>> \in Seq(Records)
          /\ Len(<<>>) = 0
      OBVIOUS
    <3>3. QED BY <1>1, <3>1, <3>2 DEF StoreTypes
  <2>2. DOMAIN odom = {} /\ DOMAIN snaps = {} /\ DOMAIN transit = {}
    BY <1>1
  <2>3. QED BY <2>1, <2>2 DEF SInv, HeldBelowAge, Ordered, InOrder
<1>3. MakingTypes
  BY <1>1 DEF MakingTypes
<1>4. \A r \in Requests : request[r] = Idle /\ making[r] = NoSnapshot
  BY <1>1
<1>5. request \in [Requests -> Doings] /\ \A r \in Requests : Doing(request[r])
  BY <1>1, <1>4, IdleDoes DEF Doing
<1>6. \A r \in Requests : Anchored(r)
  BY <1>4, IdleDoes DEF Anchored
<1>7. Readings = {} /\ \A r \in Requests : request[r].shot = Nothing
  BY <1>1, <1>4, IdleDoes DEF Readings, ReadingsOf
<1>8. OnOneWay(Marks)
  <2>1. \A x \in Marks : x = <<0, 0>>
    BY <1>1, <1>7 DEF Marks
  <2>2. QED BY <2>1, StoreConstants DEF OnOneWay
<1>9. QED BY <1>1, <1>2, <1>3, <1>5, <1>6, <1>8 DEF NInv

LEMMA NextInv == NInv /\ [Next]_vars => NInv'
<1> SUFFICES ASSUME NInv, [Next]_vars PROVE NInv'
  OBVIOUS
<1>1. ASSUME NEW r \in Requests, Begin(r) PROVE NInv'
  <2>1. ASSUME NEW kind \in Pictured, Look(r, kind) PROVE NInv'
    BY <2>1, LookStep
  <2>2. CASE PublishPreview(r)
    BY <2>2, PublishPreviewStep
  <2>3. CASE Forget(r)
    <3>1. request[r].step # "making" /\ Ends(r) /\ UNCHANGED store
          /\ UNCHANGED <<mode, localAge>>
      BY <2>3 DEF Forget
    <3>2. QED BY <3>1, EndStep
  <2>4. CASE Hold(r)
    BY <2>4, HoldStep
  <2>5. QED BY <1>1, <2>1, <2>2, <2>3, <2>4 DEF Begin
<1>2. ASSUME NEW r \in Requests, Proceed(r) PROVE NInv'
  <2>1. CASE Publish(r)
    <3>1. request[r].step # "making" /\ Ends(r) /\ UNCHANGED store
          /\ UNCHANGED <<mode, localAge>>
      BY <2>1 DEF Publish
    <3>2. QED BY <3>1, EndStep
  <2>2. QED BY <1>2, <2>1, SeenStep, AttemptStep, RetryStep, ResumeStep, AnchorStep,
                AnswerLostStep, HavePublisherStep, LinkedStep, FailStep DEF Proceed
<1>3. CASE UNCHANGED vars
  <2>1. UNCHANGED store /\ UNCHANGED <<mode, localAge, request>>
    BY <1>3 DEF vars, store
  <2>2. Keeps /\ MakingTypes' /\ UNCHANGED making
    BY <2>1, StoreAtRest DEF store
  <2>3. localAge' \in 0..LocalCap \cup {Nothing}
    BY <2>1 DEF NInv
  <2>4. QED BY <2>1, <2>2, <2>3, Besides
<1>4. QED BY <1>1, <1>2, <1>3, IngestStep, TrimStep, LocalOdomStep, TickStep DEF Next

THEOREM Invariance == Spec => []NInv
<1>1. QED BY InitInv, NextInv, PTL DEF Spec

LEMMA TypesHold == NInv => TypeOK
<1> SUFFICES ASSUME NInv PROVE TypeOK
  OBVIOUS
<1>1. Obs!TypeOK
  <2>1. SInv /\ MakingTypes
    BY DEF NInv
  <2>2. QED BY <2>1 DEF SInv, StoreTypes, MakingTypes, Samples, Flying, Records, Obs!TypeOK
<1>2. \A r \in Requests : request[r] \in
        [step : {"idle", "look", "attempt", "pause", "making", "shown", "goal", "wait",
                 "publish"},
         kind : {"none"} \cup Pictured,
         timer : 0..(LookTimeout + PlannerWait + MaxStall + 1), tries : 0..(Attempts - 1),
         shot : [age : Nat, place : 0..Path, sampled : BOOLEAN] \cup {Nothing},
         goal : Goals \cup {Nothing}]
  BY DEF NInv, Doings, Shots, AtRest, Pending, Publishing
<1>3. QED BY <1>1, <1>2 DEF NInv, TypeOK

\* The types of the store and of the requests (NavigationController, PointCloudStore).
THEOREM TypeCorrect == Spec => []TypeOK
  BY Invariance, TypesHold, PTL

LEMMA UnreadIsFresh == NInv => UnreadServedFresh
<1> SUFFICES ASSUME NInv PROVE UnreadServedFresh
  OBVIOUS
<1>1. snaps \in Seq(Records) /\ Ordered(snaps)
  BY DEF NInv, SInv, StoreTypes
<1>2. \A lag \in 0..MaxStall : \A i \in DOMAIN Obs!Trimmed(snaps, lag) :
        \/ Obs!Trimmed(snaps, lag)[i].read
        \/ Obs!Trimmed(snaps, lag)[i].made <= Ttl + 2 * MaxStall
  BY <1>1, TrimmedSnapshots
<1>3. QED BY <1>2 DEF UnreadServedFresh, Obs!UnreadServedFresh

\* Whatever the order of concurrent create_observation_snapshot and get_observation_snapshot,
\* a snapshot nobody has read is not served long after its TTL.
THEOREM UnreadFresh == Spec => []UnreadServedFresh
  BY Invariance, UnreadIsFresh, PTL

LEMMA AnchorHolds == NInv => GoalAnchored
<1> SUFFICES ASSUME NInv PROVE GoalAnchored
  OBVIOUS
<1> SUFFICES ASSUME NEW r \in Requests
             PROVE  /\ request[r].goal # Nothing /\ request[r].goal.from = "picture"
                         => request[r].goal.off <= MaxPoseDt
                    /\ request[r].step = "publish" => mode = "flight"
  BY DEF GoalAnchored
<1>1. Doing(request[r])
  BY DEF NInv
<1>2. QED BY <1>1 DEF Doing, GoalOff, Publishing

\* A goal made from a picture is where its target is, but for maxPoseDtSec of flight, and
\* only flight mode publishes one (plan_to_pixel, plan_to_instruction, publish_goal_world).
THEOREM GoalsAreAnchored == Spec => []GoalAnchored
  BY Invariance, AnchorHolds, PTL

LEMMA HoldStaysRecent == NInv => HoldRecent
<1> SUFFICES ASSUME NInv PROVE HoldRecent
  OBVIOUS
<1> SUFFICES ASSUME NEW r \in Requests, request[r].step = "publish",
                    request[r].goal.from = "odometry"
             PROVE  request[r].goal.off <= HoldBound
  BY DEF HoldRecent
<1> DEFINE q == request[r]
<1>1. Doing(q)
  BY DEF NInv
<1>2. /\ q \in Doings /\ q.goal # Nothing /\ q.timer <= MaxStall
      /\ q.goal.off <= OdomMaxAge + MaxStall + PlannerWait - 1 + q.timer
  BY <1>1, PatienceTypes DEF Doing, GoalOff, Aimed, AtRest
<1>3. q.timer \in Nat /\ q.goal.off \in Nat
  BY <1>2, DoingTypes
<1> HIDE DEF q
<1>4. q.goal.off <= HoldBound
  BY <1>2, <1>3, StoreConstants, ControlConstants DEF HoldBound
<1>5. QED BY <1>4 DEF q

\* hold_position publishes where the vehicle recently was.
THEOREM HoldIsRecent == Spec => []HoldRecent
  BY Invariance, HoldStaysRecent, PTL

LEMMA PictureStaysInTime == NInv => PictureInTime
<1> SUFFICES ASSUME NInv PROVE PictureInTime
  OBVIOUS
<1> SUFFICES ASSUME NEW r \in Requests, request[r].step \in Pending
             PROVE  request[r].shot.age <= PictureBound
  BY DEF PictureInTime
<1>1. request[r].shot.age \in 0..PictureBound
  BY PictureYoung DEF NInv
<1>2. QED BY <1>1

\* The loops of attempts end in time (_create_ready_observation_snapshot's deadline by count).
THEOREM PicturesAreInTime == Spec => []PictureInTime
  BY Invariance, PictureStaysInTime, PTL

LEMMA LastAttemptHits == NInv => LastAttemptFinds
<1> SUFFICES ASSUME NInv PROVE LastAttemptFinds
  OBVIOUS
<1> SUFFICES ASSUME NEW r \in Requests, request[r].step = "attempt",
                    request[r].tries = Attempts - 1, request[r].shot.sampled,
                    request[r].shot.age <= History
             PROVE  Obs!Bracketed(request[r].shot.age)
  BY DEF LastAttemptFinds
<1> DEFINE q == request[r]
<1>1. Doing(q) /\ Anchored(r) /\ SInv
  BY DEF NInv
<1>2. q \in Doings /\ q.shot # Nothing /\ q.shot.age >= q.tries
  BY <1>1 DEF Doing, Pending, ShotAged
<1>3. q.shot.age \in Nat
  BY <1>2, DoingTypes
<1>4. Spot(q.shot) \in Readings
  BY <1>1, <1>2 DEF Anchored
<1>5. q.shot.age > OdomDelay
  BY <1>2, <1>3, StoreConstants, ControlConstants
<1>6. \A i \in DOMAIN transit : transit[i].age <= OdomDelay
  <2> TAKE i \in DOMAIN transit
  <2>1. transit[i] \in Flying
    BY <1>1 DEF SInv, StoreTypes
  <2>2. QED BY <2>1, StoreConstants DEF Flying
<1>7. PICK x \in Readings : x[1] = q.shot.age
  BY <1>4 DEF Spot
<1>8. CASE \E i \in DOMAIN transit : x = <<transit[i].age, transit[i].place>>
  BY <1>3, <1>5, <1>6, <1>7, <1>8, StoreConstants
<1>9. CASE \E i \in DOMAIN odom : x = <<odom[i].age, odom[i].place>>
  <2>1. PICK i \in DOMAIN odom : odom[i].age = q.shot.age
    BY <1>7, <1>9
  <2>2. QED BY <1>1, <1>3, <2>1, ExactBracket
<1>10. QED BY <1>8, <1>9 DEF Readings, ReadingsOf

\* The attempts outlast the odometry's delay: the last finds the position of a picture within
\* the history.
THEOREM LastAttemptSucceeds == Spec => []LastAttemptFinds
  BY Invariance, LastAttemptHits, PTL

\* The requests use the store as any client of it may: each step of theirs is a step of the
\* store's own specification, or none.
THEOREM NavigationImplementsObservations == Spec => Obs!Spec
<1>1. Init => Obs!Init
  BY DEF Init
<1>2. NInv /\ [Next]_vars => [Obs!Next]_(Obs!vars)
  <2> SUFFICES ASSUME NInv, [Next]_vars PROVE [Obs!Next]_(Obs!vars)
    OBVIOUS
  <2>1. ASSUME UNCHANGED store PROVE UNCHANGED Obs!vars
    BY <2>1 DEF store, Obs!vars
  <2>2. ASSUME NEW r \in Requests, Begin(r) PROVE UNCHANGED store
    BY <2>2 DEF Begin, Look, PublishPreview, Forget, Hold
  <2>3. ASSUME NEW r \in Requests, Proceed(r) PROVE Obs!Next \/ UNCHANGED store
    <3>1. CASE Attempt(r)
      <4>1. Obs!Judge(r, request[r].shot.age)
        BY <3>1 DEF Attempt
      <4>2. Doing(request[r]) /\ request[r].step \in Pending
        BY <3>1 DEF NInv, Attempt, Pending
      <4>3. request[r].shot.age \in 0..PictureBound
        BY <4>2, PictureYoung
      <4>4. PictureBound \in Nat
        <5>1. Attempts \in Nat /\ MaxStall \in Nat /\ LookTimeout \in Nat
              /\ Attempts - 1 \in Nat
          BY StoreConstants, ControlConstants
        <5>2. (Attempts + 1) * MaxStall \in Nat
          BY <5>1
        <5>3. QED BY <5>1, <5>2 DEF PictureBound
      <4>5. request[r].shot.age \in 0..AgeCap
        BY <4>3, <4>4, StoreConstants, ControlConstants
      <4>6. QED BY <4>1, <4>5 DEF Obs!Next
    <3>2. CASE Anchor(r) \/ AnswerLost(r)
      BY <3>2 DEF Anchor, AnswerLost, Obs!Next
    <3>3. QED BY <2>3, <3>1, <3>2
              DEF Proceed, Seen, Retry, Resume, HavePublisher, Linked, Publish, Fail
  <2>4. CASE Ingest \/ Trim
    BY <2>4 DEF Ingest, Trim, Obs!Next
  <2>5. CASE LocalOdom
    BY <2>1, <2>5 DEF LocalOdom
  <2>6. CASE Tick
    BY <2>6 DEF Tick, Obs!Next
  <2>7. CASE UNCHANGED vars
    BY <2>7 DEF vars, Obs!vars
  <2>8. QED BY <2>1, <2>2, <2>3, <2>4, <2>5, <2>6, <2>7 DEF Next
<1>3. QED BY <1>1, <1>2, Invariance, PTL DEF Spec, Obs!Spec

=============================================================================
