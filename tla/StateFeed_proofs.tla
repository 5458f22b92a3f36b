-------------------------- MODULE StateFeed_proofs --------------------------
(* Proofs about StateFeed, and so about OffboardReadiness and EventStream as it *)
(* composes them.                                                            *)
EXTENDS StateFeed, TLAPS

Proved == INSTANCE OffboardReadiness_proofs WITH Threads <- Clients \cup {Broadcaster}

----------------------------------------------------------------------------
\* The composition implements its readiness component: every step is one of its steps, or
\* leaves its variables alone.  The component's theorems carry over.

THEOREM FeedImplementsReadiness == Spec => Readiness!Spec
<1>1. Init => Readiness!Init
  BY DEF Init
<1>2. [Next]_vars => [Readiness!Next]_(Readiness!vars)
  <2> USE DEF readiness, Readiness!vars
  <2> SUFFICES ASSUME Next \/ UNCHANGED vars PROVE [Readiness!Next]_(Readiness!vars)
    BY DEF vars
  <2>1. CASE TakeState
    BY <2>1 DEF TakeState, Readiness!Next
  <2>2. CASE FinishState
    BY <2>2 DEF FinishState, Readiness!Next
  <2>3. CASE Broadcast \/ NothingNew
    BY <2>3 DEF Broadcast, NothingNew
  <2>4. ASSUME NEW c \in Clients, Subscribe(c) \/ Client(c) \/ Disconnect(c)
        PROVE  [Readiness!Next]_(Readiness!vars)
    BY <2>4 DEF Subscribe, Client, Request, Answer, Deliver, Disconnect, Readiness!Next
  <2>5. CASE \E p \in Publishers : PublishOther(p) \/ Advance(p)
    BY <2>5 DEF PublishOther, Advance
  <2>6. CASE World
    BY <2>6 DEF World, Readiness!Next
  <2>7. CASE UNCHANGED vars
    BY <2>7 DEF vars
  <2>8. QED BY <2>1, <2>2, <2>3, <2>4, <2>5, <2>6, <2>7 DEF Next
<1>3. QED BY <1>1, <1>2, PTL DEF Spec, Readiness!Spec

\* The component under both names is the same.
LEMMA SameReadiness == Readiness!Spec => Proved!Spec
<1>1. Readiness!Init => Proved!Init
  BY DEF Readiness!Init, Proved!Init, Readiness!Resting, Proved!Resting,
     Readiness!NoTime, Proved!NoTime, Readiness!Candidate, Proved!Candidate,
     Readiness!GoodCap, Proved!GoodCap, Readiness!StaleBound, Proved!StaleBound
<1>2. [Readiness!Next]_(Readiness!vars) => [Proved!Next]_(Proved!vars)
  BY DEF Readiness!Next, Proved!Next, Readiness!vars, Proved!vars, Readiness!Begin,
     Proved!Begin, Readiness!Commit, Proved!Commit, Readiness!Telemetry,
     Proved!Telemetry, Readiness!Tick, Proved!Tick, Readiness!Resting, Proved!Resting,
     Readiness!NoTime, Proved!NoTime, Readiness!Candidate, Proved!Candidate,
     Readiness!GoodCap, Proved!GoodCap, Readiness!StaleBound, Proved!StaleBound,
     Readiness!InvalidCap, Proved!InvalidCap, Readiness!InvalidAfter,
     Proved!InvalidAfter, Readiness!InvalidFrom, Proved!InvalidFrom, Readiness!Answer,
     Proved!Answer, Readiness!Ready, Proved!Ready, Readiness!AtMost, Proved!AtMost
<1>3. QED BY <1>1, <1>2, PTL DEF Readiness!Spec, Proved!Spec

LEMMA AssumptionHolds == Proved!ReadinessAssumption
BY FeedAssumption DEF Readiness!ReadinessAssumption, Proved!ReadinessAssumption,
   Readiness!AllReports, Proved!AllReports

\* However many clients ask, "ready" is never told longer than StaleBound after the
\* telemetry stopped to deserve it.
THEOREM FeedReadyRecent == Spec => []ReadyIsRecent
<1>1. Proved!Spec => []Proved!ReadyIsRecent
  BY AssumptionHolds, Proved!ReadyRecent
<1>2. Proved!ReadyIsRecent => ReadyIsRecent
  BY DEF ReadyIsRecent, Readiness!ReadyIsRecent, Proved!ReadyIsRecent, Readiness!Ready,
     Proved!Ready, Readiness!Answer, Proved!Answer, Readiness!InvalidFrom,
     Proved!InvalidFrom, Readiness!NoTime, Proved!NoTime, Readiness!StaleBound,
     Proved!StaleBound
<1>3. QED BY <1>1, <1>2, SameReadiness, FeedImplementsReadiness, PTL

----------------------------------------------------------------------------
\* Types

StageRecord == [event : BOOLEAN \cup {NoValue}, to : SUBSET Clients,
                at : Clients \cup {Nobody}, freed : BOOLEAN]

LEMMA StageChange ==
    ASSUME stage \in [Publishers -> StageRecord], NEW p \in Publishers, NEW r \in StageRecord
    PROVE  [stage EXCEPT ![p] = r] \in [Publishers -> StageRecord]
OBVIOUS

LEMMA ServedType ==
    ASSUME Stream!StreamTypeOK, NEW p \in Publishers, NEW c \in Clients, Stream!Served(p, c)
    PROVE  stage' \in [Publishers -> StageRecord]
BY DEF Stream!StreamTypeOK, Stream!Served, Stream!NextClient, Stream!NotPublishing, StageRecord

\* Queues stay sequences of events within their capacity.
QueuesOK(q) == q \in [Clients -> Seq(BOOLEAN \cup {NoValue})]
               /\ \A c \in Clients : Len(q[c]) <= Capacity

LEMMA QueueChanges ==
    ASSUME QueuesOK(queue), NEW c \in Clients, NEW e \in BOOLEAN \cup {NoValue}
    PROVE  /\ QueuesOK([queue EXCEPT ![c] = <<>>])
           /\ queue[c] # <<>> => QueuesOK([queue EXCEPT ![c] = Tail(@)])
           /\ Len(queue[c]) < Capacity => QueuesOK([queue EXCEPT ![c] = Append(@, e)])
<1> USE FeedAssumption DEF Stream!StreamAssumption
<1>1. /\ queue[c] \in Seq(BOOLEAN \cup {NoValue}) /\ Len(queue[c]) \in Nat
      /\ Len(queue[c]) <= Capacity
  BY DEF QueuesOK
<1>2. ASSUME NEW s \in Seq(BOOLEAN \cup {NoValue}), Len(s) <= Capacity
      PROVE  QueuesOK([queue EXCEPT ![c] = s])
  BY <1>2 DEF QueuesOK
<1>3. <<>> \in Seq(BOOLEAN \cup {NoValue}) /\ Len(<<>>) <= Capacity
  OBVIOUS
<1>4. queue[c] # <<>> => Tail(queue[c]) \in Seq(BOOLEAN \cup {NoValue})
                         /\ Len(Tail(queue[c])) <= Capacity
  BY <1>1
<1>5. Append(queue[c], e) \in Seq(BOOLEAN \cup {NoValue})
      /\ Len(Append(queue[c], e)) = Len(queue[c]) + 1
  BY <1>1
<1>6. QueuesOK([queue EXCEPT ![c] = <<>>])
  BY <1>2, <1>3
<1>7. queue[c] # <<>> => QueuesOK([queue EXCEPT ![c] = Tail(queue[c])])
  BY <1>2, <1>4
<1>8. Len(queue[c]) < Capacity => QueuesOK([queue EXCEPT ![c] = Append(queue[c], e)])
  BY <1>2, <1>5, <1>1
<1>9. QED BY <1>6, <1>7, <1>8

LEMMA StreamTypes ==
    ASSUME Stream!StreamTypeOK, [Stream!Next]_(Stream!vars) PROVE Stream!StreamTypeOK'
<1> USE FeedAssumption DEF Stream!StreamTypeOK, Stream!StreamAssumption
<1>1. ASSUME NEW c \in Clients, Stream!Subscribe(c) PROVE Stream!StreamTypeOK'
  BY <1>1 DEF Stream!Subscribe
<1>2. ASSUME NEW c \in Clients, Stream!Deliver(c) PROVE Stream!StreamTypeOK'
  <2>1. QueuesOK(queue')
    BY <1>2, QueueChanges DEF Stream!Deliver, QueuesOK
  <2>2. Head(queue[c]) \in BOOLEAN \cup {NoValue}
    BY <1>2 DEF Stream!Deliver
  <2>3. QED BY <1>2, <2>1, <2>2 DEF Stream!Deliver, Stream!Told, QueuesOK
<1>3. ASSUME NEW c \in Clients, Stream!Disconnect(c) PROVE Stream!StreamTypeOK'
  <2>1. stage' \in [Publishers -> StageRecord]
    <3>1. stage \in [Publishers -> StageRecord]
      BY DEF StageRecord
    <3>2. Stream!NotPublishing \in StageRecord
      BY DEF Stream!NotPublishing, StageRecord
    <3>3. ASSUME NEW p \in Publishers
          PROVE  /\ Stream!NextClient(p, c) \in StageRecord
                 /\ [stage[p] EXCEPT !.to = @ \ {c}] \in StageRecord
      <4>1. stage[p] \in StageRecord
        BY <3>1
      <4>2. QED BY <3>2, <4>1 DEF Stream!NextClient, StageRecord
    <3>4. QED BY <1>3, <3>2, <3>3 DEF Stream!Disconnect
  <2>2. QueuesOK(queue')
    BY <1>3, QueueChanges DEF Stream!Disconnect, QueuesOK
  <2>3. QED BY <1>3, <2>1, <2>2 DEF Stream!Disconnect, QueuesOK, StageRecord
<1>4. ASSUME NEW c \in Clients, NEW v \in BOOLEAN, Stream!SendSnapshot(c, v)
      PROVE  Stream!StreamTypeOK'
  BY <1>4 DEF Stream!SendSnapshot
<1>5. ASSUME NEW p \in Publishers, NEW e \in BOOLEAN \cup {NoValue}, Stream!Publish(p, e)
      PROVE  Stream!StreamTypeOK'
  BY <1>5 DEF Stream!Publish, Stream!Interested
<1>6. ASSUME NEW p \in Publishers, NEW c \in Clients, Stream!Put(p, c)
      PROVE  Stream!StreamTypeOK'
  <2>1. CASE Stream!HasRoom(c)
    <3>1. stage[p].event \in BOOLEAN \cup {NoValue}
      OBVIOUS
    <3>4. queue' = [queue EXCEPT ![c] = Append(@, stage[p].event)] /\ Len(queue[c]) < Capacity
      BY <1>6, <2>1 DEF Stream!Put, Stream!PutNowait, Stream!HasRoom
    <3>5. QueuesOK(queue)
      BY DEF QueuesOK
    <3>2. QueuesOK(queue')
      BY <3>1, <3>4, <3>5, QueueChanges
    <3>3. QED
      BY <1>6, <2>1, <3>2, ServedType DEF StageRecord, Stream!Put, Stream!PutNowait, QueuesOK
  <2>2. CASE ~Stream!HasRoom(c)
    <3>1. /\ UNCHANGED <<queue, conn, every, known>>
          /\ stage' = [stage EXCEPT ![p] = Stream!InHand(p, c)]
      BY <1>6, <2>2 DEF Stream!Put, Stream!PutNowait
    <3>2. Stream!InHand(p, c) \in StageRecord /\ stage \in [Publishers -> StageRecord]
      BY DEF StageRecord, Stream!InHand
    <3>3. stage' \in [Publishers -> StageRecord]
      BY <3>1, <3>2, StageChange
    <3>4. QED BY <3>1, <3>3 DEF StageRecord
  <2>3. QED BY <2>1, <2>2
<1>7. ASSUME NEW p \in Publishers, NEW c \in Clients, Stream!DropOldest(p, c)
      PROVE  Stream!StreamTypeOK'
  <2>1. QueuesOK(queue')
    BY <1>7, QueueChanges DEF Stream!DropOldest, QueuesOK
  <2>2. stage' \in [Publishers -> StageRecord]
    <3>1. [stage[p] EXCEPT !.freed = TRUE] \in StageRecord
      BY DEF StageRecord
    <3>2. stage' = [stage EXCEPT ![p] = [stage[p] EXCEPT !.freed = TRUE]]
      BY <1>7 DEF Stream!DropOldest
    <3>3. stage \in [Publishers -> StageRecord]
      BY DEF StageRecord
    <3>4. QED BY <3>1, <3>2, <3>3, StageChange
  <2>3. UNCHANGED <<conn, every, known>>
    BY <1>7 DEF Stream!DropOldest
  <2>4. QED BY <2>1, <2>2, <2>3 DEF QueuesOK, StageRecord
<1>8. ASSUME NEW p \in Publishers, NEW c \in Clients, Stream!Retry(p, c)
      PROVE  Stream!StreamTypeOK'
  <2>1. CASE Stream!HasRoom(c)
    <3>1. stage[p].event \in BOOLEAN \cup {NoValue}
      OBVIOUS
    <3>4. queue' = [queue EXCEPT ![c] = Append(@, stage[p].event)] /\ Len(queue[c]) < Capacity
      BY <1>8, <2>1 DEF Stream!Retry, Stream!HasRoom
    <3>5. QueuesOK(queue)
      BY DEF QueuesOK
    <3>2. QueuesOK(queue')
      BY <3>1, <3>4, <3>5, QueueChanges
    <3>3. QED
      BY <1>8, <3>2, ServedType DEF StageRecord, Stream!Retry, QueuesOK
  <2>2. CASE ~Stream!HasRoom(c)
    BY <1>8, <2>2, ServedType DEF StageRecord, Stream!Retry
  <2>3. QED BY <2>1, <2>2
<1>9. CASE UNCHANGED Stream!vars
  BY <1>9 DEF Stream!vars
<1>10. QED
  BY <1>1, <1>2, <1>3, <1>4, <1>5, <1>6, <1>7, <1>8, <1>9 DEF Stream!Next, Stream!Advance

\* A step of the composition is a step of the stream, or leaves it alone.
LEMMA StreamStep ==
    ASSUME pending \in BOOLEAN \cup {NoValue}, [Next]_vars
    PROVE  [Stream!Next]_(Stream!vars)
<1> USE DEF stream, Stream!vars
<1>1. CASE TakeState \/ FinishState \/ NothingNew \/ World \/ UNCHANGED vars
  BY <1>1 DEF TakeState, FinishState, NothingNew, World, vars
<1>2. CASE Broadcast
  BY <1>2 DEF Broadcast, Stream!Next
<1>3. ASSUME NEW c \in Clients, Subscribe(c) \/ Client(c) \/ Disconnect(c)
      PROVE  [Stream!Next]_(Stream!vars)
  <2>1. CASE Answer(c) /\ conn[c] = "subscribed"
    <3>1. Readiness!Ready(c) \in BOOLEAN
      BY DEF Readiness!Ready
    <3>2. QED BY <2>1, <3>1 DEF Answer, Stream!Next
  <2>2. QED
    BY <1>3, <2>1 DEF Subscribe, Client, Request, Answer, Deliver, Disconnect, Stream!Next
<1>4. CASE \E p \in Publishers : PublishOther(p) \/ Advance(p)
  BY <1>4 DEF PublishOther, Advance, Stream!Next
<1>5. QED BY <1>1, <1>2, <1>3, <1>4 DEF Next

FeedTypeOK == pending \in BOOLEAN \cup {NoValue} /\ sent \in BOOLEAN \cup {NoValue}

LEMMA FeedStep == ASSUME FeedTypeOK, [Next]_vars PROVE FeedTypeOK'
BY DEF FeedTypeOK, Next, vars, feed, TakeState, FinishState, Broadcast, NothingNew, Subscribe,
   Client, Request, Answer, Deliver, Disconnect, PublishOther, Advance, World, Readiness!Ready

\* Types are kept: the components' and the broadcaster's own.
THEOREM FeedTypes == Spec => []TypeOK
<1>1. Init => Stream!StreamTypeOK /\ FeedTypeOK
  BY FeedAssumption DEF Init, Stream!Init, Stream!StreamTypeOK, Stream!NotPublishing, FeedTypeOK,
     Stream!StreamAssumption
<1>2. Stream!StreamTypeOK /\ FeedTypeOK /\ [Next]_vars => (Stream!StreamTypeOK /\ FeedTypeOK)'
  <2> SUFFICES ASSUME Stream!StreamTypeOK, FeedTypeOK, [Next]_vars
               PROVE  (Stream!StreamTypeOK /\ FeedTypeOK)'
    OBVIOUS
  <2>1. Stream!StreamTypeOK'
    BY StreamStep, StreamTypes DEF FeedTypeOK
  <2>2. FeedTypeOK'
    BY FeedStep
  <2>3. QED BY <2>1, <2>2
<1>3. Proved!Spec => []Proved!TypeOK
  BY AssumptionHolds, Proved!TypeCorrect
<1>4. Proved!TypeOK => Readiness!TypeOK
  BY DEF Proved!TypeOK, Readiness!TypeOK, Proved!InvalidCap, Readiness!InvalidCap,
     Proved!NoTime, Readiness!NoTime, Proved!GoodCap, Readiness!GoodCap,
     Proved!StaleBound, Readiness!StaleBound
<1>5. QED
  BY <1>1, <1>2, <1>3, <1>4, SameReadiness, FeedImplementsReadiness, PTL
     DEF Spec, TypeOK, FeedTypeOK

\* The composition implements its stream component too.
THEOREM FeedImplementsStream == Spec => Stream!Spec
<1>1. Init => Stream!Init
  BY DEF Init
<1>2. TypeOK /\ [Next]_vars => [Stream!Next]_(Stream!vars)
  BY StreamStep DEF TypeOK
<1>3. QED BY <1>1, <1>2, FeedTypes, PTL DEF Spec, Stream!Spec

----------------------------------------------------------------------------
\* The newest state is queued.  A client that asked for states only is served by the
\* broadcaster alone, what the broadcaster serves is what it sent last, and the room it
\* made in a full queue stays free for it.

Serving(p, c) == c \in stage[p].to \/ c = stage[p].at

OffIdle == \A c \in Clients : conn[c] = "off" =>
             queue[c] = <<>> /\ \A p \in Publishers : ~Serving(p, c)
OthersOther == \A p \in Publishers \ {Broadcaster} : stage[p].event = NoValue
StateByBroadcaster ==
    \A p \in Publishers \ {Broadcaster}, c \in Clients : ~every[c] => ~Serving(p, c)
ServesNewest == \A c \in Clients : Serving(Broadcaster, c) => stage[Broadcaster].event = sent
RoomKept ==
    \A c \in Clients : StateOnly(c) /\ c = stage[Broadcaster].at /\ stage[Broadcaster].freed
                         => Len(queue[c]) < Capacity

NInv == /\ Stream!StreamTypeOK /\ FeedTypeOK
        /\ OffIdle /\ OthersOther /\ StateByBroadcaster /\ ServesNewest /\ RoomKept
        /\ NewestQueued

\* The parts but the types, which StreamTypes keeps.
NParts == /\ OffIdle /\ OthersOther /\ StateByBroadcaster /\ ServesNewest /\ RoomKept
          /\ NewestQueued

LEMMA NewestClient ==
    ASSUME NInv, NEW c \in Clients, UNCHANGED sent,
           \/ Stream!Subscribe(c) \/ Stream!Deliver(c) \/ Stream!Disconnect(c)
           \/ \E v \in BOOLEAN : Stream!SendSnapshot(c, v)
    PROVE  NParts'
<1> USE FeedAssumption
    DEF NInv, NParts, Stream!StreamTypeOK, Stream!StreamAssumption, OffIdle, OthersOther,
        StateByBroadcaster, ServesNewest, RoomKept, NewestQueued, Serving, StateOnly, Underway,
        Newest
<1>1. CASE Stream!Subscribe(c)
  <2>1. /\ conn[c] = "off" /\ conn' = [conn EXCEPT ![c] = "subscribed"]
        /\ UNCHANGED <<queue, stage, sent>> /\ queue[c] = <<>>
        /\ \A q \in Publishers : ~Serving(q, c)
    BY <1>1 DEF Stream!Subscribe
  <2>2. \A d \in Clients : d # c => every'[d] = every[d] /\ conn'[d] = conn[d]
    BY <1>1 DEF Stream!Subscribe
  <2>3. QED BY <2>1, <2>2
<1>2. CASE Stream!Deliver(c)
  BY <1>2, SMTT(30) DEF Stream!Deliver
<1>3. CASE Stream!Disconnect(c)
  BY <1>3, SMTT(30) DEF Stream!Disconnect, Stream!NextClient, Stream!NotPublishing
<1>4. CASE \E v \in BOOLEAN : Stream!SendSnapshot(c, v)
  BY <1>4 DEF Stream!SendSnapshot
<1>5. QED BY <1>1, <1>2, <1>3, <1>4

LEMMA NewestPublisher ==
    ASSUME NInv, NEW p \in Publishers, NEW c \in Clients, UNCHANGED sent,
           Stream!Put(p, c) \/ Stream!DropOldest(p, c) \/ Stream!Retry(p, c)
    PROVE  NParts'
<1> USE FeedAssumption
    DEF NInv, NParts, Stream!StreamTypeOK, Stream!StreamAssumption, OffIdle, OthersOther,
        StateByBroadcaster, ServesNewest, RoomKept, NewestQueued, Serving, StateOnly, Underway,
        Newest, Stream!NextClient, Stream!NotPublishing, Stream!HasRoom
<1>1. CASE Stream!Put(p, c)
  <2>1. CASE Len(queue[c]) < Capacity
    <3>1. /\ queue' = [queue EXCEPT ![c] = Append(@, stage[p].event)]
          /\ stage' = [stage EXCEPT ![p] = Stream!NextClient(p, c)]
          /\ UNCHANGED <<conn, every, sent>> /\ stage[p].at = Nobody /\ c \in stage[p].to
      BY <1>1, <2>1 DEF Stream!Put, Stream!PutNowait, Stream!Served
    <3>2. QED BY <3>1
  <2>2. CASE ~(Len(queue[c]) < Capacity)
    <3>1. /\ stage' = [stage EXCEPT ![p] = Stream!InHand(p, c)]
          /\ UNCHANGED <<conn, every, queue, sent>> /\ stage[p].at = Nobody /\ c \in stage[p].to
      BY <1>1, <2>2 DEF Stream!Put, Stream!PutNowait
    <3>2. QED BY <3>1 DEF Stream!InHand
  <2>3. QED BY <2>1, <2>2
<1>2. CASE Stream!DropOldest(p, c)
  BY <1>2 DEF Stream!DropOldest
<1>3. CASE Stream!Retry(p, c)
  BY <1>3 DEF Stream!Retry, Stream!Served
<1>4. QED BY <1>1, <1>2, <1>3

\* A step of the composition keeps the parts; the broadcaster publishes what it sends.
LEMMA NewestInductive == ASSUME NInv, [Next]_vars PROVE NInv'
<1>1. Stream!StreamTypeOK'
  BY StreamStep, StreamTypes DEF NInv, FeedTypeOK
<1>2. FeedTypeOK'
  BY FeedStep DEF NInv
<1> USE DEF stream
<1>3. CASE TakeState \/ FinishState \/ NothingNew \/ World \/ UNCHANGED vars
  BY <1>1, <1>2, <1>3 DEF TakeState, FinishState, NothingNew, World, vars, feed, NInv, OffIdle,
     OthersOther, StateByBroadcaster, ServesNewest, RoomKept, NewestQueued, Serving, StateOnly,
     Underway, Newest
<1>4. CASE Broadcast
  <2> USE FeedAssumption
      DEF NInv, Stream!StreamTypeOK, FeedTypeOK, Stream!StreamAssumption, OffIdle, OthersOther,
          StateByBroadcaster, ServesNewest, RoomKept, NewestQueued, Serving, StateOnly,
          Underway, Newest
  <2>1. pending \in BOOLEAN /\ sent' = pending /\ Stream!Publish(Broadcaster, pending)
    BY <1>4 DEF Broadcast
  <2>2. UNCHANGED <<conn, every, queue>> /\ stage[Broadcaster] = Stream!NotPublishing
    BY <2>1 DEF Stream!Publish, Stream!Idle
  <2>3. \A c \in Clients : pending \in Stream!Topics(c)
    BY <2>1 DEF Stream!Topics
  <2>4. \A c \in Clients : c \in Stream!Interested(pending) <=> conn[c] # "off"
    BY <2>3 DEF Stream!Interested
  <2>5. CASE Stream!Interested(pending) = {}
    <3>1. stage' = stage
      BY <2>1, <2>5 DEF Stream!Publish
    <3>2. QED BY <1>1, <1>2, <2>2, <2>4, <2>5, <3>1 DEF Stream!NotPublishing
  <2>6. CASE Stream!Interested(pending) # {}
    <3>1. stage' = [stage EXCEPT ![Broadcaster] =
                      [event |-> pending, to |-> Stream!Interested(pending),
                       at |-> Nobody, freed |-> FALSE]]
      BY <2>1, <2>6 DEF Stream!Publish
    <3>2. QED BY <1>1, <1>2, <2>1, <2>2, <2>4, <3>1
  <2>7. QED BY <2>5, <2>6
<1>5. ASSUME NEW c \in Clients, Subscribe(c) \/ Client(c) \/ Disconnect(c) PROVE NInv'
  <2>1. UNCHANGED sent
    BY <1>5 DEF Subscribe, Client, Request, Answer, Deliver, Disconnect, feed
  <2>2. CASE UNCHANGED stream
    BY <1>1, <1>2, <2>1, <2>2 DEF NInv, OffIdle, OthersOther, StateByBroadcaster, ServesNewest,
       RoomKept, NewestQueued, Serving, StateOnly, Underway, Newest
  <2>3. CASE ~UNCHANGED stream
    <3>1. Readiness!Ready(c) \in BOOLEAN
      BY DEF Readiness!Ready
    <3>2. \/ Stream!Subscribe(c) \/ Stream!Deliver(c) \/ Stream!Disconnect(c)
          \/ \E v \in BOOLEAN : Stream!SendSnapshot(c, v)
      BY <1>5, <2>3, <3>1 DEF Subscribe, Client, Request, Answer, Deliver, Disconnect
    <3>3. QED BY <1>1, <1>2, <2>1, <3>2, NewestClient DEF NInv, NParts
  <2>4. QED BY <2>2, <2>3
<1>6. ASSUME NEW p \in Publishers, PublishOther(p) PROVE NInv'
  <2> USE FeedAssumption
      DEF NInv, Stream!StreamTypeOK, FeedTypeOK, Stream!StreamAssumption, OffIdle, OthersOther,
          StateByBroadcaster, ServesNewest, RoomKept, NewestQueued, Serving, StateOnly,
          Underway, Newest
  <2>1. p # Broadcaster /\ UNCHANGED <<conn, every, queue, sent>> /\ Stream!Publish(p, NoValue)
    BY <1>6 DEF PublishOther, Stream!Publish, feed
  <2>2. \A c \in Clients : c \in Stream!Interested(NoValue) => every[c] /\ conn[c] # "off"
    BY DEF Stream!Topics, Stream!Interested
  <2>3. CASE Stream!Interested(NoValue) = {}
    <3>1. stage' = stage
      BY <2>1, <2>3 DEF Stream!Publish
    <3>2. QED BY <1>1, <1>2, <2>1, <3>1
  <2>4. CASE Stream!Interested(NoValue) # {}
    <3>1. stage' = [stage EXCEPT ![p] =
                      [event |-> NoValue, to |-> Stream!Interested(NoValue),
                       at |-> Nobody, freed |-> FALSE]]
      BY <2>1, <2>4 DEF Stream!Publish
    <3>2. QED BY <1>1, <1>2, <2>1, <2>2, <3>1
  <2>5. QED BY <2>3, <2>4
<1>7. ASSUME NEW p \in Publishers, Advance(p) PROVE NInv'
  <2>1. UNCHANGED sent
    BY <1>7 DEF Advance, feed
  <2>2. PICK c \in Clients : Stream!Put(p, c) \/ Stream!DropOldest(p, c) \/ Stream!Retry(p, c)
    BY <1>7 DEF Advance, Stream!Advance
  <2>3. QED BY <1>1, <1>2, <2>1, <2>2, NewestPublisher DEF NInv, NParts
<1>8. QED BY <1>3, <1>4, <1>5, <1>6, <1>7 DEF Next

\* An overflowing queue never loses the newest state of a client that asked for states.
THEOREM NewestStateQueued == Spec => []NewestQueued
<1>1. Init => NInv
  BY FeedAssumption DEF Init, NInv, Stream!Init, Stream!NotPublishing, Stream!StreamTypeOK,
     Stream!StreamAssumption, FeedTypeOK, OffIdle, OthersOther, StateByBroadcaster,
     ServesNewest, RoomKept, NewestQueued, Serving, StateOnly, Underway, Newest
<1>2. NInv => NewestQueued
  BY DEF NInv
<1>3. QED BY <1>1, <1>2, NewestInductive, PTL DEF Spec

----------------------------------------------------------------------------
\* Publications come to an end.

\* A publisher is idle, or has a client in hand or to serve.
HasWork == \A p \in Publishers : Stream!Idle(p) \/ stage[p].at # Nobody \/ stage[p].to # {}

LEMMA WorkStep ==
    ASSUME Stream!StreamTypeOK, HasWork, [Stream!Next]_(Stream!vars)
    PROVE  HasWork'
<1> USE FeedAssumption
    DEF Stream!StreamTypeOK, Stream!StreamAssumption, HasWork, Stream!Idle, Stream!NextClient,
        Stream!NotPublishing
<1>1. ASSUME NEW c \in Clients, Stream!Subscribe(c) \/ Stream!Deliver(c)
                                \/ \E v \in BOOLEAN : Stream!SendSnapshot(c, v)
      PROVE  HasWork'
  BY <1>1 DEF Stream!Subscribe, Stream!Deliver, Stream!SendSnapshot
<1>2. ASSUME NEW c \in Clients, Stream!Disconnect(c)
      PROVE  HasWork'
  <2>1. \A p \in Publishers :
          stage'[p] = IF stage[p].at = c THEN Stream!NextClient(p, c)
                      ELSE IF stage[p].at = Nobody /\ stage[p].to \subseteq {c} THEN Stream!NotPublishing
                      ELSE [stage[p] EXCEPT !.to = @ \ {c}]
    BY <1>2 DEF Stream!Disconnect
  <2>2. ASSUME NEW p \in Publishers
        PROVE  stage'[p] = Stream!NotPublishing \/ stage'[p].at # Nobody \/ stage'[p].to # {}
    <3>1. CASE stage[p].at = c
      <4>1. stage'[p] = Stream!NextClient(p, c)
        BY <2>1, <3>1
      <4>2. ~(stage[p].to \subseteq {c}) => stage[p].to \ {c} # {}
        OBVIOUS
      <4>3. ~(stage[p].to \subseteq {c}) => stage'[p].to = stage[p].to \ {c}
        BY <4>1
      <4>4. QED BY <4>1, <4>2, <4>3
    <3>2. CASE stage[p].at = Nobody /\ stage[p].to \subseteq {c}
      <4>1. stage[p].at # c
        BY <3>2
      <4>2. QED BY <2>1, <3>2, <4>1
    <3>3. CASE stage[p].at # c /\ ~(stage[p].at = Nobody /\ stage[p].to \subseteq {c})
      <4>1. stage'[p] = [stage[p] EXCEPT !.to = stage[p].to \ {c}]
        BY <2>1, <3>3
      <4>2. stage'[p].at = stage[p].at /\ stage'[p].to = stage[p].to \ {c}
        BY <4>1
      <4>3. QED BY <3>3, <4>2
    <3>4. QED BY <3>1, <3>2, <3>3
  <2>3. QED BY <2>2
<1>3. ASSUME NEW p \in Publishers, NEW e, Stream!Publish(p, e)
      PROVE  HasWork'
  BY <1>3 DEF Stream!Publish
<1>4. ASSUME NEW p \in Publishers, NEW c \in Clients,
             Stream!Put(p, c) \/ Stream!DropOldest(p, c) \/ Stream!Retry(p, c)
      PROVE  HasWork'
  <2>1. \A q \in Publishers : q # p => stage'[q] = stage[q]
    BY <1>4 DEF Stream!Put, Stream!PutNowait, Stream!DropOldest, Stream!Retry, Stream!Served
  <2>2. \/ stage'[p] = Stream!NextClient(p, c) \/ stage'[p] = Stream!InHand(p, c)
        \/ stage[p].at = c /\ stage'[p] = [stage[p] EXCEPT !.freed = TRUE]
    BY <1>4 DEF Stream!Put, Stream!PutNowait, Stream!DropOldest, Stream!Retry, Stream!Served
  <2>3. stage'[p] = Stream!NotPublishing \/ stage'[p].at # Nobody \/ stage'[p].to # {}
    <3>1. CASE stage'[p] = Stream!NextClient(p, c)
      <4>1. ~(stage[p].to \subseteq {c}) => stage'[p].to = stage[p].to \ {c}
        BY <3>1 DEF Stream!NextClient
      <4>2. ~(stage[p].to \subseteq {c}) => stage[p].to \ {c} # {}
        OBVIOUS
      <4>3. QED BY <3>1, <4>1, <4>2 DEF Stream!NextClient
    <3>2. CASE stage'[p] = Stream!InHand(p, c)
      BY <3>2, FeedAssumption DEF Stream!InHand, Stream!StreamAssumption
    <3>3. CASE stage[p].at = c /\ stage'[p] = [stage[p] EXCEPT !.freed = TRUE]
      <4>1. stage'[p].at = c
        BY <3>3
      <4>2. QED BY <4>1, FeedAssumption DEF Stream!StreamAssumption
    <3>4. QED BY <2>2, <3>1, <3>2, <3>3
  <2>4. QED BY <2>1, <2>3
<1>5. CASE UNCHANGED Stream!vars
  BY <1>5 DEF Stream!vars
<1>6. Broadcaster \in Publishers
  OBVIOUS
<1>7. QED BY <1>1, <1>2, <1>3, <1>4, <1>5, <1>6 DEF Stream!Next, Stream!Advance

\* A step of its own brings a publication nearer to its end.
LEMMA AdvanceNearer ==
    ASSUME Stream!StreamTypeOK, NEW p \in Publishers, Stream!Advance(p)
    PROVE  Stream!Nearer(p)
<1> USE FeedAssumption
    DEF Stream!StreamTypeOK, Stream!StreamAssumption, Stream!Nearer, Stream!Tries,
        Stream!NextClient, Stream!NotPublishing
<1>1. PICK c \in Clients : Stream!Put(p, c) \/ Stream!DropOldest(p, c) \/ Stream!Retry(p, c)
  BY DEF Stream!Advance
<1>2. CASE Stream!Put(p, c)
  <2>1. c \in stage[p].to /\ (stage'[p] = Stream!NextClient(p, c) \/ stage'[p] = Stream!InHand(p, c))
    BY <1>2 DEF Stream!Put, Stream!PutNowait, Stream!Served
  <2>2. stage'[p].to \subseteq stage[p].to \ {c}
    BY <2>1 DEF Stream!InHand
  <2>3. QED BY <2>1, <2>2
<1>3. CASE Stream!DropOldest(p, c)
  BY <1>3 DEF Stream!DropOldest
<1>4. CASE Stream!Retry(p, c)
  <2>1. stage[p].at = c /\ stage[p].freed /\ stage'[p] = Stream!NextClient(p, c)
    BY <1>4 DEF Stream!Retry, Stream!Served
  <2>2. stage'[p].at = Nobody /\ stage'[p].to \subseteq stage[p].to
    BY <2>1
  <2>3. QED BY <2>1, <2>2
<1>5. QED BY <1>1, <1>2, <1>3, <1>4

\* So does the departure of a client it has not served yet; another's step leaves it alone.
LEMMA OthersNearer ==
    ASSUME Stream!StreamTypeOK, HasWork, NEW p \in Publishers, ~Stream!Idle(p), ~Stream!Advance(p),
           [Stream!Next]_(Stream!vars), stage'[p] # stage[p]
    PROVE  Stream!Nearer(p)
<1> USE DEF Stream!StreamTypeOK
<1>1. ASSUME NEW c \in Clients, Stream!Subscribe(c) \/ Stream!Deliver(c)
                                \/ \E v \in BOOLEAN : Stream!SendSnapshot(c, v)
      PROVE  FALSE
  BY <1>1 DEF Stream!Subscribe, Stream!Deliver, Stream!SendSnapshot
<1>2. ASSUME NEW c \in Clients, Stream!Disconnect(c)
      PROVE  Stream!Nearer(p)
  <2> USE FeedAssumption
      DEF Stream!StreamAssumption, Stream!Nearer, Stream!Tries, Stream!NextClient,
          Stream!NotPublishing
  <2>1. stage'[p] = IF stage[p].at = c THEN Stream!NextClient(p, c)
                    ELSE IF stage[p].at = Nobody /\ stage[p].to \subseteq {c} THEN Stream!NotPublishing
                    ELSE [stage[p] EXCEPT !.to = @ \ {c}]
    BY <1>2 DEF Stream!Disconnect
  <2>2. CASE stage[p].at = c
    BY <2>1, <2>2
  <2>3. CASE stage[p].at = Nobody /\ stage[p].to \subseteq {c}
    <3>1. c # Nobody /\ stage'[p] = Stream!NotPublishing
      BY <2>1, <2>3
    <3>2. stage[p].to # {}
      BY <2>3 DEF HasWork
    <3>3. QED BY <3>1, <3>2
  <2>4. CASE stage[p].at # c /\ ~(stage[p].at = Nobody /\ stage[p].to \subseteq {c})
    <3>1. stage'[p] = [stage[p] EXCEPT !.to = stage[p].to \ {c}]
      BY <2>1, <2>4
    <3>2. stage'[p].to = stage[p].to \ {c}
      BY <3>1
    <3>3. stage[p].to \ {c} # stage[p].to
      BY <3>1
    <3>4. QED BY <3>2, <3>3
  <2>5. QED BY <2>2, <2>3, <2>4
<1>3. ASSUME NEW q \in Publishers, NEW e, Stream!Publish(q, e)
      PROVE  FALSE
  BY <1>3 DEF Stream!Publish, Stream!Idle
<1>4. ASSUME NEW q \in Publishers, Stream!Advance(q)
      PROVE  FALSE
  <2>1. q # p
    BY <1>4
  <2>2. QED
    BY <1>4, <2>1 DEF Stream!Advance, Stream!Put, Stream!PutNowait, Stream!DropOldest,
       Stream!Retry, Stream!Served
<1>5. CASE UNCHANGED Stream!vars
  BY <1>5 DEF Stream!vars
<1>6. Broadcaster \in Publishers
  BY FeedAssumption DEF Stream!StreamAssumption
<1>7. QED BY <1>1, <1>2, <1>3, <1>4, <1>5, <1>6 DEF Stream!Next

\* Whatever clients come, go, or do not read, every publication keeps coming nearer to its
\* end: the safety half of "a publisher is never held up".
THEOREM PublishersServeOnwards == Spec => Stream!ServesOnwards
<1>1. Stream!StreamTypeOK /\ HasWork /\ [Stream!Next]_(Stream!vars)
        => [\A p \in Publishers : ~Stream!Idle(p) =>
               /\ Stream!Advance(p) => Stream!Nearer(p)
               /\ stage'[p] # stage[p] => Stream!Nearer(p)]_(Stream!vars)
  <2> SUFFICES ASSUME Stream!StreamTypeOK, HasWork, [Stream!Next]_(Stream!vars),
                      NEW p \in Publishers, ~Stream!Idle(p)
               PROVE  /\ Stream!Advance(p) => Stream!Nearer(p)
                      /\ stage'[p] # stage[p] => Stream!Nearer(p)
    OBVIOUS
  <2>1. Stream!Advance(p) => Stream!Nearer(p)
    BY AdvanceNearer
  <2>2. ~Stream!Advance(p) /\ stage'[p] # stage[p] => Stream!Nearer(p)
    BY OthersNearer
  <2>3. QED BY <2>1, <2>2
<1>2. TypeOK => Stream!StreamTypeOK
  BY DEF TypeOK
<1>3. Stream!Init => HasWork
  BY DEF Stream!Init, HasWork, Stream!Idle
<1>4. Stream!StreamTypeOK /\ HasWork /\ [Stream!Next]_(Stream!vars) => HasWork'
  BY WorkStep
<1>5. QED
  BY <1>1, <1>2, <1>3, <1>4, FeedTypes, FeedImplementsStream, PTL
     DEF Stream!Spec, Stream!ServesOnwards
=============================================================================
