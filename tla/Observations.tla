---------------------------- MODULE Observations ----------------------------
(***************************************************************************)
(* The observation part of PointCloudStore, docker/pointcloud-gateway/     *)
(* app.py: the odometry of the last historySec, the position the vehicle   *)
(* had when a picture was taken, and the snapshots that keep it, an        *)
(* OrderedDict in order of last use with a TTL and a limit.  Configured as *)
(* shipped: a pose counts only between two samples (requireBracketedPose). *)
(* Time is in quanta; every age is relative to now and saturates at a cap. *)
(* Positions are on a line: the rotation goes the way of the translation.  *)
(***************************************************************************)
EXTENDS Integers, Sequences

CONSTANTS
    Requests,    \* the requests that may create a snapshot
    History,     \* historySec
    Ttl,         \* snapshotTtlSec
    Limit,       \* snapshotCacheLimit
    MaxPoseDt,   \* maxPoseDtSec
    OdomDelay,   \* the longest way of a sample from the sensor to the store
    MaxStall,    \* the longest pause of a handler between two of its steps
    Path,        \* the vehicle may fly from 0 to Path, one place in a quantum at most
    AgeCap,      \* beyond it, the age of a sample tells nothing more
    NoSnapshot   \* what is being stored for a request when nothing is

ObservationsAssumption ==
    /\ {History, Ttl, MaxPoseDt, OdomDelay, MaxStall, Path} \subseteq Nat
    /\ Limit \in Nat \ {0}
    /\ AgeCap \in Nat /\ AgeCap > History + OdomDelay
    /\ NoSnapshot \notin Nat \X Nat

VARIABLES
    place,    \* external: where the vehicle is
    sampled,  \* external: the sensor took a sample in this quantum
    transit,  \* external: samples on their way, the oldest first
    odom,     \* odom_history
    snaps,    \* observation_snapshots, the least recently used first
    making    \* each request's snapshot once judged, until it is stored

vars == <<place, sampled, transit, odom, snaps, making>>

MadeCap == Ttl + 2 * MaxStall + 1   \* beyond it, a snapshot is expired for everyone

AtMost(cap, n) == IF n < cap THEN n ELSE cap

\* while deque and expired(deque[0]): popleft().  Entries behind the first fresh one stay,
\* expired or not.
FromFirst(s, fresh) ==
    SubSeq(s, IF fresh = {} THEN Len(s) + 1 ELSE CHOOSE i \in fresh : \A j \in fresh : i <= j,
           Len(s))

Newest(s, n) == SubSeq(s, IF Len(s) > n THEN Len(s) - n + 1 ELSE 1, Len(s))

\* _trim_observation_history_locked by a thread that read the clock lag quanta ago.
TrimmedOdom(h, lag) == FromFirst(h, {i \in DOMAIN h : h[i].held - lag <= History})

\* Mutant: snapshots expire, but do not make room for one another.
TrimmedByAge(s, lag) == FromFirst(s, {i \in DOMAIN s : s[i].made - lag <= Ttl})

\* Mutant: snapshots make room for one another, but never expire.
TrimmedByLimit(s, lag) == Newest(s, Limit)

Trimmed(s, lag) ==
    Newest(FromFirst(s, {i \in DOMAIN s : s[i].made - lag <= Ttl}), Limit)

Init ==
    /\ place = 0
    /\ sampled = FALSE
    /\ transit = <<>> /\ odom = <<>> /\ snaps = <<>>
    /\ making = [r \in Requests |-> NoSnapshot]

----------------------------------------------------------------------------
\* The position at an age

Before(age) == {i \in DOMAIN odom : odom[i].age >= age}
After(age) == {i \in DOMAIN odom : odom[i].age <= age}

\* The samples next to it, on either side.
LastBefore(age) == CHOOSE i \in Before(age) : \A j \in Before(age) : odom[i].age <= odom[j].age
FirstAfter(age) == CHOOSE i \in After(age) : \A j \in After(age) : odom[i].age >= odom[j].age

Bracketed(age) ==
    /\ Before(age) # {} /\ odom[LastBefore(age)].age - age <= MaxPoseDt
    /\ After(age) # {} /\ age - odom[FirstAfter(age)].age <= MaxPoseDt

\* The interpolated position.
PlaceAt(age) ==
    LET before == odom[LastBefore(age)]
        after == odom[FirstAfter(age)]
    IN  IF before.age = after.age THEN before.place
        ELSE before.place + ((before.age - age) * (after.place - before.place))
                                \div (before.age - after.age)

----------------------------------------------------------------------------
\* Snapshots

\* The first half of create_observation_snapshot: the position is found, the clock read.
Judge(r, age) ==
    /\ making[r] = NoSnapshot
    /\ Bracketed(age)
    /\ making' = [making EXCEPT ![r] = <<0, PlaceAt(age)>>]
    /\ UNCHANGED <<place, sampled, transit, odom, snaps>>

\* The second half, under the lock.
Store(r) ==
    /\ making[r] # NoSnapshot
    /\ LET lag == making[r][1]
           new == [made |-> lag, read |-> FALSE]
       IN  /\ odom' = TrimmedOdom(odom, lag)
           /\ snaps' = Trimmed(Append(Trimmed(snaps, lag), new), lag)
    /\ making' = [making EXCEPT ![r] = NoSnapshot]
    /\ UNCHANGED <<place, sampled, transit>>

Without(s, i) == SubSeq(s, 1, i - 1) \o SubSeq(s, i + 1, Len(s))

\* get_observation_snapshot of what is at i once the store is trimmed; 0: of none.
Get(i, lag) ==
    LET kept == Trimmed(snaps, lag)
    IN  /\ i \in 0..Len(kept)
        /\ odom' = TrimmedOdom(odom, lag)
        /\ snaps' = IF i = 0 THEN kept
                    ELSE Append(Without(kept, i), [kept[i] EXCEPT !.read = TRUE])
        /\ UNCHANGED <<place, sampled, transit, making>>

----------------------------------------------------------------------------
\* Odometry and time

\* ingest_odom.
Ingest ==
    /\ transit # <<>>
    /\ LET new == [age |-> Head(transit).age, held |-> 0, place |-> Head(transit).place]
       IN  odom' = TrimmedOdom(Append(odom, new), 0)
    /\ transit' = Tail(transit)
    /\ snaps' = Trimmed(snaps, 0)
    /\ UNCHANGED <<place, sampled, making>>

\* _record_pointcloud_frame and snapshot_state, which trim too.
Trim ==
    /\ odom' = TrimmedOdom(odom, 0)
    /\ snaps' = Trimmed(snaps, 0)
    /\ UNCHANGED <<place, sampled, transit, making>>

\* A sample carries the time of its scan; some scans give none.
Tick ==
    /\ transit # <<>> => Head(transit).age < OdomDelay
    /\ \A r \in Requests : making[r] # NoSnapshot => making[r][1] < MaxStall
    /\ place' \in {place, place + 1} \cap (0..Path)
    /\ sampled' \in BOOLEAN
    /\ transit' = [i \in DOMAIN transit |-> [transit[i] EXCEPT !.age = @ + 1]]
                    \o IF sampled' THEN <<[age |-> 0, place |-> place']>> ELSE <<>>
    /\ odom' = [i \in DOMAIN odom |->
                    [age |-> AtMost(AgeCap, odom[i].age + 1),
                     held |-> AtMost(AgeCap, odom[i].held + 1), place |-> odom[i].place]]
    /\ snaps' = [i \in DOMAIN snaps |-> [snaps[i] EXCEPT !.made = AtMost(MadeCap, @ + 1)]]
    /\ making' = [r \in Requests |->
                    IF making[r] = NoSnapshot THEN NoSnapshot
                    ELSE <<making[r][1] + 1, making[r][2]>>]

Next ==
    \/ \E r \in Requests : Store(r) \/ \E age \in 0..AgeCap : Judge(r, age)
    \/ \E i \in 0..Limit, lag \in 0..MaxStall : Get(i, lag)
    \/ Ingest \/ Trim \/ Tick

Spec == Init /\ [][Next]_vars

----------------------------------------------------------------------------
\* Properties

\* Type invariant; the limit holds after every operation.
TypeOK ==
    /\ place \in 0..Path /\ sampled \in BOOLEAN
    /\ transit \in Seq([age : 0..OdomDelay, place : 0..Path])
    /\ odom \in Seq([age : 0..AgeCap, held : 0..AgeCap, place : 0..Path])
    /\ snaps \in Seq([made : 0..MadeCap, read : BOOLEAN]) /\ Len(snaps) <= Limit
    /\ making \in [Requests -> ((0..MaxStall) \X (0..Path)) \cup {NoSnapshot}]

\* A snapshot nobody has read is never served after its TTL but for two stalls, its
\* creator's and its reader's, in whatever order concurrent requests stored theirs and
\* whatever was read in between.  One that has been read may be: it moves behind younger
\* ones, where the trim does not look.
UnreadServedFresh ==
    \A lag \in 0..MaxStall :
        LET kept == Trimmed(snaps, lag)
        IN  \A i \in DOMAIN kept : kept[i].read \/ kept[i].made <= Ttl + 2 * MaxStall
=============================================================================
