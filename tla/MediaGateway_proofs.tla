------------------------ MODULE MediaGateway_proofs ------------------------
(***************************************************************************)
(* Proofs about MediaGateway: it implements MediaPipeline and              *)
(* MediaSessions, and the invariants of both, for any candidates, ids,     *)
(* handlers, limits and stalls.  The pipeline's invariant relates the      *)
(* poller's counter to the history of checks; the sessions' one says why a *)
(* session asked for in time is young: it was renewed not long after its   *)
(* client asked, or somebody is about to renew it.                         *)
(***************************************************************************)
EXTENDS MediaGateway, WellFoundedInduction, TLAPS

\* Ready when the counter may be compared: between polls, and once a check was unhealthy.
Counted ==
    /\ step \in {"boot", "rest", "start"} => offline <= bad
    /\ step \in {"glance", "probe"} /\ ~Pipeline!Healthy => offline + 1 <= bad

PInv ==
    /\ Pipeline!TypeOK
    /\ process = "down" => serves = NoDevice
    /\ step = "boot" => process = "down"
    /\ step = "probe" /\ ~running => process = "down"
    /\ Counted

\* A session on the list is not one that was asked for in time; while the list is closed,
\* every other one still had time when the thread looked at the clock.
Aging(i) ==
    /\ i \in stale => ~sessions[i].kept
    /\ i \notin stale /\ cleaner = "close" => sessions[i].age <= Timeout + elapsed

Kept(i) ==
    sessions[i].kept
        => \/ sessions[i].age <= sessions[i].idle + MaxStall
           \/ \E h \in Handlers :
                 doing[h] = i /\ sessions[i].age <= Sessions!Keep + MaxStall + since[h]

SInv ==
    /\ Sessions!TypeOK
    /\ cleaner # "close" => stale = {}
    /\ \A i \in Ids : Sessions!Open(i) => Aging(i) /\ Kept(i)

----------------------------------------------------------------------------
\* The refinements

LEMMA InitMaps == Init => Pipeline!Init /\ Sessions!Init
  BY DEF Init

\* Every step of the gateway is one of the pipeline, or of the sessions, or of neither.
LEMMA StepMaps ==
  [Next]_vars => [Pipeline!Next]_(Pipeline!vars) /\ [Sessions!Next]_(Sessions!vars)
<1>1. ASSUME UNCHANGED vars
      PROVE  UNCHANGED Pipeline!vars /\ UNCHANGED Sessions!vars
  BY <1>1 DEF vars, Pipeline!vars, Sessions!vars, Sessions!requests, Sessions!cleanUp
<1>2. UNCHANGED pipeline => UNCHANGED Pipeline!vars
  BY DEF pipeline, Pipeline!vars
<1>3. UNCHANGED manager => UNCHANGED Sessions!vars
  BY DEF manager, Sessions!vars, Sessions!requests, Sessions!cleanUp
<1>4. ASSUME NEW h \in Handlers, Ask(h) \/ Create(h) \/ Read(h)
      PROVE  Sessions!Next /\ UNCHANGED pipeline
  BY <1>4 DEF Ask, Create, Read, Sessions!Next
<1>5. ASSUME NEW i \in Ids, Client(i)
      PROVE  Sessions!Next /\ UNCHANGED pipeline
  BY <1>5 DEF Client, Sessions!Next
<1>6. CleanUp \/ Tick => Sessions!Next /\ UNCHANGED pipeline
  BY DEF CleanUp, Tick, Sessions!Next
<1>7. Poll \/ World => Pipeline!Next /\ UNCHANGED manager
  BY DEF Poll, World, Pipeline!Next
<1>. QED  BY <1>1, <1>2, <1>3, <1>4, <1>5, <1>6, <1>7 DEF Next

\* Every behaviour of the gateway is one of the pipeline: sessions only read it.
THEOREM GatewayImplementsPipeline == Spec => Pipeline!Spec
<1>1. Init => Pipeline!Init
  BY InitMaps
<1>2. [Next]_vars => [Pipeline!Next]_(Pipeline!vars)
  BY StepMaps
<1>. QED  BY <1>1, <1>2, PTL DEF Spec, Pipeline!Spec

\* Every behaviour of the gateway is one of the session manager, which may be refused at any time.
THEOREM GatewayImplementsSessions == Spec => Sessions!Spec
<1>1. Init => Sessions!Init
  BY InitMaps
<1>2. [Next]_vars => [Sessions!Next]_(Sessions!vars)
  BY StepMaps
<1>. QED  BY <1>1, <1>2, PTL DEF Spec, Sessions!Spec

----------------------------------------------------------------------------
\* The pipeline

LEMMA PConstants ==
  /\ NoDevice \notin Pipeline!Devices /\ Candidates \in Seq(Pipeline!Devices)
  /\ Candidates # <<>>
  /\ OfflinePolls \in Nat \ {0} /\ BackoffPolls \in Nat \ {0}
  BY GatewayAssumption DEF Pipeline!PipelineAssumption

\* A set of naturals that is not empty has a least element.
LEMMA Least ==
    ASSUME NEW S \in SUBSET Nat, S # {}
    PROVE  \E x \in S : \A y \in S : x <= y
<1>1. PICK x \in S : \A y \in S : ~ (<<y, x>> \in OpToRel(<, Nat))
  BY WFMin, NatLessThanWellFounded
<1>2. \A y \in S : ~ (y < x)
  BY <1>1 DEF OpToRel
<1>. QED  BY <1>2

\* The probes find a candidate or nothing.
LEMMA FoundType == Pipeline!Found \in Pipeline!Devices \cup {NoDevice}
<1>. DEFINE able == {i \in DOMAIN Candidates : camera[Candidates[i]] = "ready"}
            first == CHOOSE i \in able : \A j \in able : i <= j
<1>1. CASE able = {}
  BY <1>1 DEF Pipeline!Found
<1>2. CASE able # {}
  <2>1. able \subseteq Nat
    BY PConstants
  <2>2. \E i \in able : \A j \in able : i <= j
    BY <1>2, <2>1, Least
  <2>3. first \in able
    BY <2>2
  <2>4. Candidates[first] \in Pipeline!Devices
    BY <2>3 DEF Pipeline!Devices
  <2>. QED  BY <1>2, <2>4 DEF Pipeline!Found
<1>. QED  BY <1>1, <1>2

LEMMA NowType ==
  ASSUME Pipeline!TypeOK
  PROVE  Pipeline!Now \in Pipeline!Devices \cup {NoDevice}
<1>1. Pipeline!Preferred \in Pipeline!Devices
  <2>1. 1 \in DOMAIN Candidates
    BY PConstants
  <2>. QED  BY <2>1 DEF Pipeline!Preferred, Pipeline!Devices
<1>2. Pipeline!Held \in Pipeline!Devices \cup {NoDevice}
  BY <1>1 DEF Pipeline!Held, Pipeline!TypeOK
<1>. QED  BY <1>2, FoundType DEF Pipeline!Now

LEMMA PInitial == Pipeline!Init => PInv
<1>. SUFFICES ASSUME Pipeline!Init PROVE PInv
  OBVIOUS
<1>1. Pipeline!TypeOK
  <2>1. 0 \in 0..(OfflinePolls - 1) /\ 0 \in 0..BackoffPolls /\ 0 \in 0..OfflinePolls
    BY PConstants
  <2>. QED  BY <2>1 DEF Pipeline!Init, Pipeline!TypeOK
<1>2. Counted
  BY DEF Pipeline!Init, Counted
<1>. QED  BY <1>1, <1>2 DEF Pipeline!Init, PInv

\* What the actions that end a poll have in common.
LEMMA SettleTypes ==
  ASSUME Pipeline!TypeOK, Pipeline!Settle, offline' \in 0..(OfflinePolls - 1)
  PROVE  Pipeline!TypeOK'
  BY NowType DEF Pipeline!Settle, Pipeline!TypeOK

LEMMA PStep == PInv /\ [Pipeline!Next]_(Pipeline!vars) => PInv'
<1>. SUFFICES ASSUME PInv, [Pipeline!Next]_(Pipeline!vars)
              PROVE  PInv'
  OBVIOUS
<1>. USE PConstants
<1>1. CASE Pipeline!Boot
  <2>1. Pipeline!TypeOK'
    BY <1>1, FoundType DEF Pipeline!Boot, Pipeline!TypeOK, PInv
  <2>2. Counted'
    BY <1>1 DEF Pipeline!Boot, Counted, PInv
  <2>. QED  BY <1>1, <2>1, <2>2 DEF Pipeline!Boot, PInv
<1>2. CASE Pipeline!Check
  <2>1. online' \in BOOLEAN /\ ready' \in BOOLEAN
    BY <1>2 DEF Pipeline!Check
  <2>2. bad' \in 0..OfflinePolls /\ (~(ready' /\ (online' \/ OnDemand)) => offline + 1 <= bad')
    <3>1. /\ offline \in 0..(OfflinePolls - 1) /\ bad \in 0..OfflinePolls
          /\ offline <= bad
      BY <1>2 DEF PInv, Pipeline!TypeOK, Counted, Pipeline!Check
    <3>2. bad' = IF ready' /\ (online' \/ OnDemand) THEN 0
                 ELSE IF bad + 1 < OfflinePolls THEN bad + 1 ELSE OfflinePolls
      BY <1>2, <3>1 DEF Pipeline!Check, Pipeline!AtMost
    <3>. QED  BY <3>1, <3>2
  <2>3. cooling' \in 0..BackoffPolls
    BY <1>2 DEF Pipeline!Check, PInv, Pipeline!TypeOK
  <2>4. /\ step = "rest" /\ step' = "glance"
        /\ UNCHANGED <<camera, process, serves, selected, running, offline>>
    BY <1>2 DEF Pipeline!Check
  <2>5. Pipeline!TypeOK'
    BY <2>1, <2>2, <2>3, <2>4 DEF PInv, Pipeline!TypeOK
  <2>6. Counted'
    BY <2>2, <2>4 DEF Counted, Pipeline!Healthy
  <2>. QED  BY <2>4, <2>5, <2>6 DEF PInv
<1>3. CASE Pipeline!Glance
  <2>1. Pipeline!TypeOK'
    BY <1>3 DEF Pipeline!Glance, Pipeline!TypeOK, PInv
  <2>2. Counted'
    BY <1>3 DEF Pipeline!Glance, Counted, PInv, Pipeline!TypeOK, Pipeline!Healthy
  <2>. QED  BY <1>3, <2>1, <2>2 DEF Pipeline!Glance, PInv
<1>4. CASE Pipeline!Leave \/ Pipeline!HoldOff
  <2>1. offline' = 0 /\ Pipeline!Settle
    BY <1>4 DEF Pipeline!Leave, Pipeline!HoldOff
  <2>2. Pipeline!TypeOK'
    BY <2>1, SettleTypes DEF PInv
  <2>3. Counted'
    BY <2>1, <2>2 DEF Counted, Pipeline!Settle, Pipeline!TypeOK
  <2>. QED  BY <2>1, <2>2, <2>3 DEF Pipeline!Settle, PInv
<1>5. CASE Pipeline!Count
  <2>1. /\ Pipeline!Settle /\ ~Pipeline!Healthy
        /\ offline + 1 < OfflinePolls /\ offline' = offline + 1
    BY <1>5 DEF Pipeline!Count
  <2>2. Pipeline!TypeOK'
    BY <2>1, SettleTypes DEF PInv, Pipeline!TypeOK
  <2>3. Counted'
    BY <2>1 DEF Counted, Pipeline!Settle, PInv
  <2>. QED  BY <2>1, <2>2, <2>3 DEF Pipeline!Settle, PInv
<1>6. CASE Pipeline!Restart
  <2>1. Pipeline!TypeOK'
    <3>1. /\ 0 \in 0..(OfflinePolls - 1) /\ 0 \in 0..OfflinePolls
          /\ BackoffPolls \in 0..BackoffPolls
      OBVIOUS
    <3>2. Pipeline!TypeOK /\ Pipeline!Now \in Pipeline!Devices \cup {NoDevice}
      BY NowType DEF PInv
    <3>3. step' \in {"start", "rest"}
      BY <1>6 DEF Pipeline!Restart
    <3>. QED  BY <1>6, <3>1, <3>2, <3>3 DEF Pipeline!Restart, Pipeline!TypeOK
  <2>2. Counted'
    BY <1>6 DEF Pipeline!Restart, Counted
  <2>. QED  BY <1>6, <2>1, <2>2 DEF Pipeline!Restart, PInv
<1>7. CASE Pipeline!Start \/ Pipeline!StartFails
  <2>1. Pipeline!TypeOK'
    BY <1>7 DEF Pipeline!Start, Pipeline!StartFails, Pipeline!TypeOK, PInv
  <2>2. Counted'
    BY <1>7 DEF Pipeline!Start, Pipeline!StartFails, Counted, PInv
  <2>. QED  BY <1>7, <2>1, <2>2 DEF Pipeline!Start, Pipeline!StartFails, PInv
<1>8. CASE Pipeline!Die
  <2>1. Pipeline!TypeOK'
    BY <1>8 DEF Pipeline!Die, Pipeline!TypeOK, PInv
  <2>2. Counted'
    BY <1>8 DEF Pipeline!Die, Counted
  <2>. QED  BY <1>8, <2>1, <2>2 DEF Pipeline!Die, PInv
<1>9. CASE Pipeline!CameraChanges
  <2>1. camera' \in Pipeline!Cameras
    <3>1. PICK d \in Pipeline!Devices :
               \E look \in Pipeline!Looks(d) : camera' = [camera EXCEPT ![d] = look]
      BY <1>9 DEF Pipeline!CameraChanges
    <3>2. PICK look \in Pipeline!Looks(d) : camera' = [camera EXCEPT ![d] = look]
      BY <3>1
    <3>3. look \in {"absent", "ready", "busy"}
      BY <3>2 DEF Pipeline!Looks
    <3>. QED  BY <3>2, <3>3 DEF PInv, Pipeline!TypeOK, Pipeline!Cameras
  <2>2. /\ UNCHANGED <<process, serves, selected, ready, online, step, running>>
        /\ UNCHANGED <<offline, cooling, bad>>
    BY <1>9 DEF Pipeline!CameraChanges
  <2>3. Pipeline!TypeOK'
    BY <2>1, <2>2 DEF PInv, Pipeline!TypeOK
  <2>. QED  BY <2>2, <2>3 DEF PInv, Counted, Pipeline!Healthy
<1>10. CASE Pipeline!MediaMtx
  <2>1. Pipeline!TypeOK'
    BY <1>10 DEF Pipeline!MediaMtx, Pipeline!TypeOK, PInv
  <2>. QED  BY <1>10, <2>1 DEF Pipeline!MediaMtx, PInv, Counted, Pipeline!Healthy
<1>11. CASE UNCHANGED Pipeline!vars
  <2>1. Pipeline!TypeOK'
    BY <1>11 DEF Pipeline!vars, Pipeline!TypeOK, PInv
  <2>. QED  BY <1>11, <2>1 DEF Pipeline!vars, PInv, Counted, Pipeline!Healthy
<1>. QED
  BY <1>1, <1>2, <1>3, <1>4, <1>5, <1>6, <1>7, <1>8, <1>9, <1>10, <1>11
  DEF Pipeline!Next, Pipeline!Poll, Pipeline!World

LEMMA PInvariance == Spec => []PInv
  BY GatewayImplementsPipeline, PInitial, PStep, PTL DEF Pipeline!Spec

\* A restart that stops a mediamtx that runs has a row of unhealthy checks behind it, or
\* another device.
LEMMA StopHasReason ==
  PInv /\ [Pipeline!Next]_(Pipeline!vars)
    => [process # "down" /\ cooling = 0 /\ cooling' > 0
          => bad = OfflinePolls \/ selected \notin {NoDevice, selected'}]_(Pipeline!vars)
<1>. SUFFICES ASSUME PInv, Pipeline!Next, process # "down", cooling = 0, cooling' > 0
              PROVE  bad = OfflinePolls \/ selected \notin {NoDevice, selected'}
  OBVIOUS
<1>. USE PConstants
<1>1. Pipeline!Restart
  <2>1. cooling' # cooling /\ cooling' # 0
    OBVIOUS
  <2>2. ~ Pipeline!Check
    BY <2>1 DEF Pipeline!Check
  <2>. QED
    BY <2>1, <2>2
    DEF Pipeline!Next, Pipeline!Poll, Pipeline!World, Pipeline!Boot, Pipeline!Glance,
        Pipeline!Leave, Pipeline!Count, Pipeline!HoldOff, Pipeline!Settle, Pipeline!Start,
        Pipeline!StartFails, Pipeline!Die, Pipeline!CameraChanges, Pipeline!MediaMtx
<1>2. running
  BY <1>1 DEF PInv, Pipeline!Restart, Pipeline!TypeOK
<1>3. CASE Pipeline!Changed
  BY <1>1, <1>3 DEF Pipeline!Changed, Pipeline!Restart
<1>4. CASE ~Pipeline!Healthy /\ offline + 1 >= OfflinePolls
  BY <1>1, <1>4 DEF Pipeline!Restart, PInv, Counted, Pipeline!TypeOK
<1>. QED  BY <1>1, <1>2, <1>3, <1>4 DEF Pipeline!Restart, Pipeline!Reason

\* Another device is selected than served only after none, or within the back-off.
LEMMA SelectionIsFollowed ==
  PInv /\ [Pipeline!Next]_(Pipeline!vars)
    => [Pipeline!Elsewhere' => Pipeline!Elsewhere \/ selected = NoDevice \/ cooling > 0]_(Pipeline!vars)
<1>. SUFFICES ASSUME PInv, Pipeline!Next, Pipeline!Elsewhere', ~Pipeline!Elsewhere,
                     selected # NoDevice, ~(cooling > 0)
              PROVE  FALSE
  OBVIOUS
<1>. USE DEF Pipeline!Elsewhere
<1>1. CASE Pipeline!Boot
  BY <1>1 DEF Pipeline!Boot, PInv
<1>2. CASE Pipeline!Leave \/ Pipeline!Count
  BY <1>2 DEF Pipeline!Leave, Pipeline!Count, Pipeline!Settle, Pipeline!Changed
<1>3. CASE Pipeline!HoldOff
  BY <1>3 DEF Pipeline!HoldOff
<1>4. CASE Pipeline!Restart \/ Pipeline!Start \/ Pipeline!StartFails
  BY <1>4 DEF Pipeline!Restart, Pipeline!Start, Pipeline!StartFails
<1>5. CASE Pipeline!Check \/ Pipeline!Glance \/ Pipeline!Die \/ Pipeline!CameraChanges
  BY <1>5 DEF Pipeline!Check, Pipeline!Glance, Pipeline!Die, Pipeline!CameraChanges
<1>6. CASE Pipeline!MediaMtx
  BY <1>6 DEF Pipeline!MediaMtx
<1>. QED
  BY <1>1, <1>2, <1>3, <1>4, <1>5, <1>6 DEF Pipeline!Next, Pipeline!Poll, Pipeline!World

\* No mediamtx that runs is stopped but for a row of unhealthy checks or for another device.
THEOREM HealthyPublishersAreKept == Spec => HealthyIsKept
  BY PInvariance, GatewayImplementsPipeline, StopHasReason, PTL
  DEF Pipeline!Spec, HealthyIsKept, Pipeline!HealthyIsKept

\* The running mediamtx serves another device than the selected one only in two ways.
THEOREM SelectionFollowed == Spec => FollowsSelection
  BY PInvariance, GatewayImplementsPipeline, SelectionIsFollowed, PTL
  DEF Pipeline!Spec, FollowsSelection, Pipeline!FollowsSelection

\* With a camera that works, each of the poller's steps finds mediamtx answering or brings its
\* start nearer.
LEMMA PollNearer ==
  ASSUME PInv, Pipeline!Poll, Pipeline!Found # NoDevice,
         ~(ready' /\ process' = "up")
  PROVE  Pipeline!NearerStart
<1>. USE PConstants
<1>1. /\ ready \in BOOLEAN /\ cooling \in 0..BackoffPolls /\ offline \in 0..(OfflinePolls - 1)
  BY DEF PInv, Pipeline!TypeOK
<1>2. CASE Pipeline!Boot \/ Pipeline!Restart
  <2>1. Pipeline!Now # NoDevice
    BY DEF Pipeline!Now
  <2>. QED  BY <1>2, <2>1 DEF Pipeline!Boot, Pipeline!Restart, Pipeline!NearerStart
<1>3. CASE Pipeline!Start
  BY <1>3 DEF Pipeline!Start
<1>4. CASE Pipeline!Check
  <2>1. /\ step = "rest" /\ step' = "glance" /\ ready' = (process = "up")
        /\ cooling' \in (IF cooling = 0 THEN {0} ELSE {0, cooling - 1})
        /\ UNCHANGED <<process, offline>>
    BY <1>4 DEF Pipeline!Check
  <2>2. ready' = FALSE
    <3>1. process # "up"
      BY <2>1
    <3>. QED  BY <2>1, <3>1
  <2>3. CASE ready
    BY <2>2, <2>3 DEF Pipeline!NearerStart
  <2>4. CASE ~ready /\ cooling > 0
    <3>1. cooling' < cooling
      BY <1>1, <2>1, <2>4
    <3>2. ready' = ready
      <4>1. ready = FALSE
        BY <1>1, <2>4
      <4>. QED  BY <2>2, <4>1
    <3>. QED  BY <3>1, <3>2 DEF Pipeline!NearerStart
  <2>5. CASE ~ready /\ cooling = 0
    <3>1. cooling' = cooling /\ ready' = ready
      <4>1. ready = FALSE
        BY <1>1, <2>5
      <4>2. cooling' = 0 /\ cooling = 0
        BY <2>1, <2>5
      <4>. QED  BY <2>2, <4>1, <4>2
    <3>2. Pipeline!Uncounted' = Pipeline!Uncounted
      BY <2>1, <3>1 DEF Pipeline!Uncounted
    <3>3. Pipeline!StepsLeft = 3 /\ Pipeline!StepsLeft' = 2
      BY <2>1, <2>5 DEF Pipeline!StepsLeft
    <3>. QED  BY <3>1, <3>2, <3>3 DEF Pipeline!NearerStart
  <2>. QED  BY <1>1, <2>3, <2>4, <2>5
<1>5. CASE Pipeline!Glance
  <2>1. /\ step = "glance" /\ UNCHANGED <<ready, cooling>>
        /\ \/ step' = "probe" /\ offline' = offline
           \/ step' = "rest" /\ offline' = 0 /\ ready
    BY <1>5 DEF Pipeline!Glance, Pipeline!Healthy
  <2>2. Pipeline!Uncounted' = Pipeline!Uncounted
    BY <2>1 DEF Pipeline!Uncounted
  <2>3. Pipeline!StepsLeft = 2 /\ Pipeline!StepsLeft' \in {0, 1}
    BY <2>1 DEF Pipeline!StepsLeft
  <2>. QED  BY <2>1, <2>2, <2>3 DEF Pipeline!NearerStart
<1>6. CASE Pipeline!Leave \/ Pipeline!Count \/ Pipeline!HoldOff
  <2>1. Pipeline!Now # NoDevice
    BY DEF Pipeline!Now
  <2>2. /\ step = "probe" /\ step' = "rest" /\ UNCHANGED <<ready, cooling>>
        /\ \/ offline' = 0 /\ (ready \/ cooling > 0)
           \/ offline' = offline + 1
    BY <1>6, <2>1 DEF Pipeline!Settle, Pipeline!Leave, Pipeline!Count, Pipeline!HoldOff,
       Pipeline!Healthy
  <2>3. CASE ready \/ cooling > 0
    <3>1. Pipeline!Uncounted = 0 /\ Pipeline!Uncounted' = 0
      BY <2>2, <2>3 DEF Pipeline!Uncounted
    <3>2. Pipeline!StepsLeft = 1 /\ Pipeline!StepsLeft' = 0
      BY <2>2, <2>3 DEF Pipeline!StepsLeft
    <3>. QED  BY <2>2, <3>1, <3>2 DEF Pipeline!NearerStart
  <2>4. CASE ~(ready \/ cooling > 0)
    <3>1. /\ Pipeline!Uncounted = OfflinePolls - offline
          /\ Pipeline!Uncounted' = OfflinePolls - (offline + 1)
      BY <2>2, <2>4 DEF Pipeline!Uncounted
    <3>2. Pipeline!Uncounted' < Pipeline!Uncounted
      BY <1>1, <3>1
    <3>. QED  BY <2>2, <3>2 DEF Pipeline!NearerStart
  <2>. QED  BY <2>3, <2>4
<1>. QED  BY <1>2, <1>3, <1>4, <1>5, <1>6 DEF Pipeline!Poll

\* Left alone with a camera that works, the poller gets to a mediamtx that answers: the part of
\* PublisherReturns that needs no fairness.
THEOREM PollsAlwaysAdvance == Spec => Pipeline!PollsAdvance
<1>1. PInv => [Pipeline!Poll /\ Pipeline!Found # NoDevice
                => (ready /\ process = "up")' \/ Pipeline!NearerStart]_(Pipeline!vars)
  BY PollNearer
<1>. QED  BY <1>1, PInvariance, PTL DEF Pipeline!PollsAdvance

----------------------------------------------------------------------------
\* The sessions

LEMMA SConstants ==
  /\ Timeout \in Nat /\ MaxStall \in Nat /\ MaxRound \in Nat /\ Sessions!Keep \in Nat
  /\ Sweep \in 0..MaxRound
  /\ Sessions!Keep + 2 * MaxStall = Timeout /\ MaxStall <= Timeout
  /\ NoSession \notin Sessions!Session
  /\ Free # New /\ Free \notin Ids /\ New \notin Ids
  BY GatewayAssumption DEF Sessions!SessionsAssumption, Sessions!Session, Sessions!Keep

LEMMA SInitial == Sessions!Init => SInv
<1>. SUFFICES ASSUME Sessions!Init PROVE SInv
  OBVIOUS
<1>1. Sessions!TypeOK
  BY SConstants DEF Sessions!Init, Sessions!TypeOK
<1>. QED  BY <1>1 DEF Sessions!Init, SInv, Sessions!Open

\* What is open is a session.
LEMMA OpenIsSession ==
  ASSUME Sessions!TypeOK, NEW i \in Ids, Sessions!Open(i)
  PROVE  /\ sessions[i] \in Sessions!Session
         /\ sessions[i].age \in Nat /\ sessions[i].kept \in BOOLEAN
         /\ sessions[i].idle \in 0..Sessions!Keep
<1>1. sessions[i] \in Sessions!Session
  BY DEF Sessions!TypeOK, Sessions!Open
<1>. QED  BY <1>1 DEF Sessions!Session

\* Between requests and rounds nothing but what a step names changes.
LEMMA SStep == SInv /\ [Sessions!Next]_(Sessions!vars) => SInv'
<1>. SUFFICES ASSUME SInv, [Sessions!Next]_(Sessions!vars)
              PROVE  SInv'
  OBVIOUS
<1>. USE SConstants
<1>. USE DEF Sessions!cleanUp, Sessions!requests
<1>0. Sessions!TypeOK /\ elapsed \in Nat
  BY DEF SInv, Sessions!TypeOK
<1>1. ASSUME NEW h \in Handlers, Sessions!Ask(h) \/ Sessions!Refuse(h)
      PROVE  SInv'
  <2>1. /\ UNCHANGED <<sessions, cleaner, stale, elapsed>>
        /\ doing[h] \notin Ids
        /\ doing' = [doing EXCEPT ![h] = IF doing[h] = Free THEN New ELSE Free]
        /\ since' = [since EXCEPT ![h] = 0]
    BY <1>1 DEF Sessions!Ask, Sessions!Refuse, Sessions!Turns
  <2>2. Sessions!TypeOK'
    BY <1>0, <2>1 DEF Sessions!TypeOK
  <2>3. \A i \in Ids, g \in Handlers : doing[g] = i => doing'[g] = i /\ since'[g] = since[g]
    BY <1>0, <2>1 DEF Sessions!TypeOK
  <2>. QED  BY <2>1, <2>2, <2>3 DEF SInv, Sessions!Open, Aging, Kept
<1>2. ASSUME NEW h \in Handlers, NEW i \in Ids, Sessions!Create(h, i)
      PROVE  SInv'
  <2>0. PICK a \in 0..MaxStall :
             sessions' = [sessions EXCEPT ![i] = [age |-> a, idle |-> 0, kept |-> TRUE]]
    BY <1>2 DEF Sessions!Create
  <2>. DEFINE new == [age |-> a, idle |-> 0, kept |-> TRUE]
  <2>1. /\ sessions' = [sessions EXCEPT ![i] = new]
        /\ UNCHANGED <<cleaner, stale, elapsed>> /\ i \notin stale
        /\ doing[h] = New
        /\ doing' = [doing EXCEPT ![h] = Free] /\ since' = [since EXCEPT ![h] = 0]
    BY <1>2, <2>0 DEF Sessions!Create, Sessions!Turns, Sessions!Unused
  <2>2. new \in Sessions!Session /\ new.age = a /\ new.idle = 0
    BY DEF Sessions!Session
  <2>3. Sessions!TypeOK'
    <3>. HIDE DEF new
    <3>. QED  BY <1>0, <2>1, <2>2 DEF Sessions!TypeOK
  <2>4. \A g \in Handlers : doing[g] \in Ids => doing'[g] = doing[g] /\ since'[g] = since[g]
    BY <1>0, <2>1 DEF Sessions!TypeOK
  <2>5. sessions'[i] = new /\ \A j \in Ids \ {i} : sessions'[j] = sessions[j]
    BY <1>0, <2>1 DEF Sessions!TypeOK
  <2>6. Aging(i)' /\ Kept(i)'
    <3>. HIDE DEF new
    <3>. QED  BY <1>0, <2>1, <2>2, <2>5 DEF Aging, Kept
  <2>7. ASSUME NEW j \in Ids \ {i}, Sessions!Open(j)'
        PROVE  Aging(j)' /\ Kept(j)'
    BY <2>1, <2>4, <2>5, <2>7 DEF SInv, Sessions!Open, Aging, Kept
  <2>. QED  BY <2>1, <2>3, <2>6, <2>7 DEF SInv
<1>3. ASSUME NEW h \in Handlers, NEW i \in Ids, Sessions!Find(h, i)
      PROVE  SInv'
  <2>1. /\ Sessions!Open(i) /\ doing[h] = Free
        /\ sessions' = [sessions EXCEPT ![i].idle = 0]
        /\ UNCHANGED <<cleaner, stale, elapsed>>
        /\ doing' = [doing EXCEPT ![h] = i] /\ since' = [since EXCEPT ![h] = 0]
    BY <1>3 DEF Sessions!Find, Sessions!Turns
  <2>2. /\ sessions'[i] = [sessions[i] EXCEPT !.idle = 0]
        /\ \A j \in Ids \ {i} : sessions'[j] = sessions[j]
    BY <1>0, <2>1 DEF Sessions!TypeOK
  <2>3. /\ sessions'[i] \in Sessions!Session
        /\ sessions'[i].age = sessions[i].age /\ sessions'[i].kept = sessions[i].kept
        /\ sessions'[i].idle = 0
    BY <1>0, <2>1, <2>2, OpenIsSession DEF Sessions!Session
  <2>4. Sessions!TypeOK'
    <3>1. sessions' \in [Ids -> Sessions!Session \cup {NoSession}]
      BY <1>0, <2>1, <2>2, <2>3 DEF Sessions!TypeOK
    <3>. QED  BY <1>0, <2>1, <3>1 DEF Sessions!TypeOK
  <2>5. /\ doing'[h] = i /\ since'[h] = 0
        /\ \A g \in Handlers : doing[g] \in Ids => doing'[g] = doing[g] /\ since'[g] = since[g]
    BY <1>0, <2>1 DEF Sessions!TypeOK
  <2>6. Aging(i)'
    BY <2>1, <2>3 DEF SInv, Aging
  <2>7. Kept(i)'
    <3>0. SUFFICES ASSUME sessions[i].kept
                   PROVE  \E g \in Handlers : /\ doing'[g] = i
                                              /\ sessions'[i].age <= Sessions!Keep + MaxStall + since'[g]
      BY <2>3 DEF Kept
    <3>1. /\ sessions[i].age \in Nat /\ sessions[i].idle \in 0..Sessions!Keep
      BY <1>0, <2>1, OpenIsSession
    <3>2. CASE sessions[i].age <= sessions[i].idle + MaxStall
      <4>1. sessions'[i].age <= Sessions!Keep + MaxStall + since'[h]
        BY <2>3, <2>5, <3>1, <3>2
      <4>. QED  BY <2>5, <4>1
    <3>3. CASE \E g \in Handlers : doing[g] = i /\ sessions[i].age <= Sessions!Keep + MaxStall + since[g]
      BY <2>3, <2>5, <3>3
    <3>. QED  BY <2>1, <3>0, <3>2, <3>3 DEF SInv, Kept
  <2>8. ASSUME NEW j \in Ids \ {i}, Sessions!Open(j)'
        PROVE  Aging(j)' /\ Kept(j)'
    BY <2>1, <2>2, <2>5, <2>8 DEF SInv, Sessions!Open, Aging, Kept
  <2>. QED  BY <2>1, <2>4, <2>6, <2>7, <2>8 DEF SInv
<1>4. ASSUME NEW h \in Handlers, Sessions!Touch(h)
      PROVE  SInv'
  <2>0. PICK i \in Ids, a \in 0..since[h] :
             /\ i = doing[h]
             /\ sessions' = IF Sessions!Open(i) THEN [sessions EXCEPT ![i].age = a] ELSE sessions
    BY <1>4 DEF Sessions!Touch
  <2>1. /\ UNCHANGED <<cleaner, stale, elapsed>>
        /\ doing' = [doing EXCEPT ![h] = Free] /\ since' = [since EXCEPT ![h] = 0]
        /\ a \in Nat /\ a <= MaxStall
    BY <1>0, <1>4 DEF Sessions!Touch, Sessions!Turns, Sessions!TypeOK
  <2>2. \A j \in Ids \ {i} : sessions'[j] = sessions[j]
    BY <1>0, <2>0 DEF Sessions!TypeOK
  <2>3. ASSUME Sessions!Open(i)
        PROVE  /\ sessions'[i] \in Sessions!Session
               /\ sessions'[i].age = a /\ sessions'[i].kept = sessions[i].kept
               /\ sessions'[i].idle \in Nat
    <3>1. sessions'[i] = [sessions[i] EXCEPT !.age = a]
      BY <1>0, <2>0, <2>3 DEF Sessions!TypeOK
    <3>. QED  BY <1>0, <2>1, <2>3, <3>1, OpenIsSession DEF Sessions!Session
  <2>4. Sessions!TypeOK'
    <3>1. sessions' \in [Ids -> Sessions!Session \cup {NoSession}]
      BY <1>0, <2>0, <2>3 DEF Sessions!TypeOK
    <3>. QED  BY <1>0, <2>1, <3>1 DEF Sessions!TypeOK
  <2>5. \A g \in Handlers \ {h} : doing'[g] = doing[g] /\ since'[g] = since[g]
    BY <1>0, <2>1 DEF Sessions!TypeOK
  <2>6. ASSUME Sessions!Open(i)'
        PROVE  Aging(i)' /\ Kept(i)'
    <3>1. Sessions!Open(i)
      BY <2>0, <2>6 DEF Sessions!Open
    <3>2. Aging(i)'
      BY <1>0, <2>1, <2>3, <3>1 DEF SInv, Aging
    <3>3. Kept(i)'
      BY <2>1, <2>3, <3>1 DEF Kept
    <3>. QED  BY <3>2, <3>3
  <2>7. ASSUME NEW j \in Ids \ {i}, Sessions!Open(j)'
        PROVE  Aging(j)' /\ Kept(j)'
    BY <2>0, <2>1, <2>2, <2>5, <2>7 DEF SInv, Sessions!Open, Aging, Kept
  <2>. QED  BY <2>1, <2>4, <2>6, <2>7 DEF SInv, Sessions!Open
<1>5. ASSUME NEW i \in Ids, Sessions!Delete(i) \/ Sessions!Close(i)
      PROVE  SInv'
  <2>1. /\ sessions' = [sessions EXCEPT ![i] = NoSession]
        /\ UNCHANGED <<doing, since>>
        /\ \/ UNCHANGED <<cleaner, stale, elapsed>>
           \/ /\ stale' = stale \ {i} /\ cleaner = "close"
              /\ \/ cleaner' = "close" /\ UNCHANGED elapsed
                 \/ cleaner' = "sleep" /\ stale' = {} /\ elapsed' = 0
    BY <1>5 DEF Sessions!Delete, Sessions!Close, Sessions!GoesOn, SInv
  <2>2. sessions'[i] = NoSession /\ \A j \in Ids \ {i} : sessions'[j] = sessions[j]
    BY <1>0, <2>1 DEF Sessions!TypeOK
  <2>3. Sessions!TypeOK'
    BY <1>0, <2>1 DEF Sessions!TypeOK
  <2>4. ASSUME NEW j \in Ids, Sessions!Open(j)'
        PROVE  Aging(j)' /\ Kept(j)'
    <3>1. j # i
      BY <2>2, <2>4 DEF Sessions!Open
    <3>2. /\ (j \in stale') = (j \in stale)
          /\ cleaner' = "close" => cleaner = "close" /\ UNCHANGED elapsed
      BY <2>1, <3>1
    <3>. QED  BY <2>1, <2>2, <2>4, <3>1, <3>2 DEF SInv, Sessions!Open, Aging, Kept
  <2>. QED  BY <2>1, <2>3, <2>4 DEF SInv
<1>6. CASE Sessions!Look
  <2>1. /\ cleaner' = "list" /\ elapsed' = 0 /\ stale = {}
        /\ UNCHANGED <<sessions, doing, since, stale>>
    BY <1>6 DEF Sessions!Look, SInv
  <2>2. Sessions!TypeOK'
    BY <1>0, <2>1 DEF Sessions!TypeOK
  <2>. QED  BY <2>1, <2>2 DEF SInv, Sessions!Open, Aging, Kept
<1>7. CASE Sessions!Collect
  <2>1. /\ stale' = {i \in Ids : Sessions!Open(i) /\ sessions[i].age - elapsed > Timeout}
        /\ \/ cleaner' = "close" /\ UNCHANGED elapsed
           \/ cleaner' = "sleep" /\ stale' = {} /\ elapsed' = 0
        /\ UNCHANGED <<sessions, doing, since>>
    BY <1>7 DEF Sessions!Collect, Sessions!GoesOn, Sessions!Over
  <2>2. Sessions!TypeOK'
    BY <1>0, <2>1 DEF Sessions!TypeOK
  <2>4. ASSUME NEW i \in Ids, Sessions!Open(i)
        PROVE  Aging(i)' /\ Kept(i)'
    <3>1. /\ sessions[i].age \in Nat /\ sessions[i].idle \in 0..Sessions!Keep
          /\ \A h \in Handlers : since[h] \in 0..MaxStall
      BY <1>0, <2>4, OpenIsSession DEF Sessions!TypeOK
    <3>2. Kept(i)
      BY <2>4 DEF SInv
    <3>3. sessions[i].age - elapsed > Timeout => ~sessions[i].kept
      <4>1. ASSUME sessions[i].kept
            PROVE  sessions[i].age <= Sessions!Keep + 2 * MaxStall
        BY <3>1, <3>2, <4>1 DEF Kept
      <4>. QED  BY <1>0, <3>1, <4>1
    <3>4. Aging(i)'
      BY <1>0, <2>1, <2>4, <3>1, <3>3 DEF Aging
    <3>. QED  BY <2>1, <3>2, <3>4 DEF Kept
  <2>. QED  BY <2>1, <2>2, <2>4 DEF SInv, Sessions!Open
<1>8. CASE Sessions!Tick
  <2>1. /\ UNCHANGED <<doing, cleaner, stale>> /\ elapsed' = elapsed + 1 /\ elapsed < MaxRound
        /\ since' = [h \in Handlers |-> IF doing[h] \in Ids THEN since[h] + 1 ELSE 0]
        /\ \A h \in Handlers : doing[h] \in Ids => since[h] < MaxStall
    BY <1>8 DEF Sessions!Tick
  <2>2. \A h \in Handlers : since[h] \in 0..MaxStall
    BY <1>0 DEF Sessions!TypeOK
  <2>3. ASSUME NEW i \in Ids, Sessions!Open(i)
        PROVE  /\ sessions'[i] \in Sessions!Session
               /\ sessions'[i].age = sessions[i].age + 1
               /\ sessions'[i].kept => sessions[i].kept /\ sessions'[i].idle = sessions[i].idle + 1
    <3>. DEFINE kept == sessions[i].kept /\ sessions[i].idle < Sessions!Keep
                idle == IF kept THEN sessions[i].idle + 1 ELSE 0
    <3>1. sessions'[i] = [age |-> sessions[i].age + 1, idle |-> idle, kept |-> kept]
      BY <1>8, <2>3 DEF Sessions!Tick, Sessions!Older
    <3>2. idle \in 0..Sessions!Keep /\ kept \in BOOLEAN /\ sessions[i].age + 1 \in Nat
      BY <1>0, <2>3, OpenIsSession
    <3>3. sessions'[i] \in Sessions!Session
      <4>. HIDE DEF kept, idle
      <4>. QED  BY <3>1, <3>2 DEF Sessions!Session
    <3>4. sessions'[i].age = sessions[i].age + 1 /\ sessions'[i].idle = idle
      BY <3>1
    <3>5. sessions'[i].kept = kept
      BY <3>1
    <3>. QED  BY <3>3, <3>4, <3>5
  <2>4. \A i \in Ids : ~Sessions!Open(i) => sessions'[i] = NoSession
    BY <1>8 DEF Sessions!Tick
  <2>5. Sessions!TypeOK'
    <3>1. sessions' \in [Ids -> Sessions!Session \cup {NoSession}]
      <4>1. sessions' = [i \in Ids |-> sessions'[i]]
        BY <1>8 DEF Sessions!Tick
      <4>. QED  BY <2>3, <2>4, <4>1
    <3>2. since' \in [Handlers -> 0..MaxStall]
      BY <2>1, <2>2
    <3>3. elapsed' \in 0..MaxRound
      BY <1>0, <2>1
    <3>. QED  BY <1>0, <2>1, <3>1, <3>2, <3>3 DEF Sessions!TypeOK
  <2>6. ASSUME NEW i \in Ids, Sessions!Open(i)'
        PROVE  Aging(i)' /\ Kept(i)'
    <3>1. Sessions!Open(i)
      BY <2>4, <2>6 DEF Sessions!Open
    <3>2. /\ sessions[i].age \in Nat /\ sessions[i].idle \in 0..Sessions!Keep
      BY <1>0, <3>1, OpenIsSession
    <3>3. Aging(i) /\ Kept(i)
      BY <3>1 DEF SInv
    <3>4. Aging(i)'
      BY <1>0, <2>1, <2>3, <3>1, <3>2, <3>3 DEF Aging
    <3>5. ASSUME sessions'[i].kept
          PROVE  \/ sessions'[i].age <= sessions'[i].idle + MaxStall
                 \/ \E h \in Handlers : /\ doing'[h] = i
                                        /\ sessions'[i].age <= Sessions!Keep + MaxStall + since'[h]
      <4>0. sessions[i].kept /\ sessions'[i].idle = sessions[i].idle + 1
        BY <2>3, <3>1, <3>5
      <4>1. CASE sessions[i].age <= sessions[i].idle + MaxStall
        BY <2>3, <3>1, <3>2, <4>0, <4>1
      <4>2. CASE \E h \in Handlers : doing[h] = i /\ sessions[i].age <= Sessions!Keep + MaxStall + since[h]
        <5>1. PICK h \in Handlers : doing[h] = i /\ sessions[i].age <= Sessions!Keep + MaxStall + since[h]
          BY <4>2
        <5>2. since'[h] = since[h] + 1 /\ since[h] \in Nat
          BY <2>1, <2>2, <5>1
        <5>3. doing'[h] = i /\ sessions'[i].age <= Sessions!Keep + MaxStall + since'[h]
          BY <2>1, <2>3, <3>1, <3>2, <5>1, <5>2
        <5>. QED  BY <5>3
      <4>. QED  BY <3>3, <4>0, <4>1, <4>2 DEF Kept
    <3>. QED  BY <3>4, <3>5 DEF Kept
  <2>. QED  BY <2>1, <2>5, <2>6 DEF SInv
<1>9. CASE UNCHANGED Sessions!vars
  <2>1. Sessions!TypeOK'
    BY <1>0, <1>9 DEF Sessions!vars, Sessions!TypeOK
  <2>. QED  BY <1>9, <2>1 DEF Sessions!vars, SInv, Sessions!Open, Aging, Kept
<1>. QED
  BY <1>1, <1>2, <1>3, <1>4, <1>5, <1>6, <1>7, <1>8, <1>9 DEF Sessions!Next

LEMMA SInvariance == Spec => []SInv
  BY GatewayImplementsSessions, SInitial, SStep, PTL DEF Sessions!Spec

\* A client that has asked for its session at least every Keep has not lost it to the
\* clean-up, however many requests renew it late and however long a round takes.
THEOREM SessionsAreLive == Spec => []SessionsLive
<1>1. SInv => SessionsLive
  BY DEF SInv, Aging, SessionsLive, Sessions!SessionsLive
<1>. QED  BY <1>1, SInvariance, PTL

\* A round of the clean-up thread ends every session whose time was over when it looked at
\* the clock, for any stalls of requests and any length of the listing and the closing.
THEOREM OldSessionsAreEnded == Spec => OldSessionsEnd
<1>1. ASSUME SInv, [Sessions!Next]_(Sessions!vars), cleaner # "sleep", cleaner' = "sleep",
             NEW i \in Ids, sessions'[i] # NoSession
      PROVE  sessions'[i].age <= Timeout + elapsed
  <2>0. Sessions!TypeOK /\ elapsed \in Nat
    BY <1>1 DEF SInv, Sessions!TypeOK
  <2>1. CASE Sessions!Collect
    <3>1. /\ UNCHANGED sessions
          /\ {j \in Ids : Sessions!Open(j) /\ sessions[j].age - elapsed > Timeout} = {}
      BY <1>1, <2>1 DEF Sessions!Collect, Sessions!GoesOn, Sessions!Over
    <3>2. Sessions!Open(i)
      BY <1>1, <3>1 DEF Sessions!Open
    <3>3. ~(sessions[i].age - elapsed > Timeout)
      BY <3>1, <3>2
    <3>. QED  BY <2>0, <3>1, <3>2, <3>3, OpenIsSession, SConstants
  <2>2. CASE \E j \in Ids : Sessions!Close(j)
    <3>1. PICK j \in Ids : Sessions!Close(j)
      BY <2>2
    <3>2. /\ sessions' = [sessions EXCEPT ![j] = NoSession] /\ j \in stale /\ stale \ {j} = {}
      BY <1>1, <3>1 DEF Sessions!Close, Sessions!GoesOn
    <3>3. i # j /\ sessions'[i] = sessions[i]
      BY <1>1, <2>0, <3>2 DEF Sessions!TypeOK
    <3>4. Sessions!Open(i) /\ i \notin stale /\ cleaner = "close"
      BY <1>1, <3>2, <3>3 DEF SInv, Sessions!Open
    <3>. QED  BY <1>1, <3>3, <3>4 DEF SInv, Aging
  <2>3. CASE ~ Sessions!Collect /\ ~ \E j \in Ids : Sessions!Close(j)
    <3>1. cleaner' = cleaner \/ cleaner' = "list"
      BY <1>1, <2>3 DEF Sessions!Next, Sessions!vars, Sessions!cleanUp, Sessions!Ask,
            Sessions!Refuse, Sessions!Touch, Sessions!Create, Sessions!Find, Sessions!Delete,
            Sessions!Look, Sessions!Tick
    <3>. QED  BY <1>1, <3>1
  <2>. QED  BY <2>1, <2>2, <2>3
<1>2. SInv /\ [Sessions!Next]_(Sessions!vars)
         => [cleaner # "sleep" /\ cleaner' = "sleep"
               => \A i \in Ids : sessions'[i] # NoSession
                                  => sessions'[i].age <= Timeout + elapsed]_(Sessions!vars)
  BY <1>1
<1>. QED
  BY <1>2, GatewayImplementsSessions, SInvariance, PTL
     DEF Sessions!Spec, OldSessionsEnd, Sessions!OldSessionsEnd

\* Every state of pipeline and sessions is well typed; the counter stays below its limit.
THEOREM TypeCorrect == Spec => []TypeOK
<1>1. PInv /\ SInv => TypeOK
  BY DEF PInv, SInv, TypeOK
<1>. QED  BY <1>1, PInvariance, SInvariance, PTL
=============================================================================
