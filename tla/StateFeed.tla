----------------------------- MODULE StateFeed -----------------------------
(***************************************************************************)
(* Offboard readiness and the event stream of docker/control-gateway/      *)
(* app.py, composed where the code composes them: the SnapshotBroadcaster  *)
(* evaluates readiness and publishes the state when it changed; a client's *)
(* thread evaluates it for its snapshot, or, while no stream is open, for  *)
(* another request (takeoff, /v1/state).  A state is its offboardReady;    *)
(* everything else in it may change at any time.                           *)
(***************************************************************************)
EXTENDS Integers, Sequences

CONSTANTS Clients, Broadcaster, Publishers, NoValue, Nobody,
          Hold, MaxStall, Period, Reports, Capacity

\* readiness, see OffboardReadiness
VARIABLES report, latched, invalidAge, eval, due, goodAge
\* stream, see EventStream
VARIABLES conn, every, queue, stage, known
VARIABLES
    pending,   \* the state the broadcaster has taken and not dealt with yet
    sent       \* last_state_serialized

readiness == <<report, latched, invalidAge, eval, due, goodAge>>
stream == <<conn, every, queue, stage, known>>
feed == <<pending, sent>>
vars == <<readiness, stream, feed>>

Readiness == INSTANCE OffboardReadiness WITH Threads <- Clients \cup {Broadcaster}
Stream == INSTANCE EventStream WITH StatePublisher <- Broadcaster, Values <- BOOLEAN

ASSUME FeedAssumption ==
    /\ Readiness!ReadinessAssumption
    /\ Stream!StreamAssumption
    /\ Broadcaster \notin Clients

Init ==
    /\ Readiness!Init /\ Stream!Init
    /\ pending = NoValue /\ sent = NoValue

----------------------------------------------------------------------------
\* The broadcaster: evaluate, compare, publish.

\* Mutant: the broadcaster's loop ends with the first state.
TakeStateOnce ==
    /\ pending = NoValue /\ sent = NoValue /\ Stream!Idle(Broadcaster)
    /\ Readiness!Begin(Broadcaster)
    /\ UNCHANGED <<stream, feed>>

TakeState ==
    /\ pending = NoValue /\ Stream!Idle(Broadcaster)
    /\ Readiness!Begin(Broadcaster)
    /\ UNCHANGED <<stream, feed>>

FinishState ==
    /\ Readiness!Commit(Broadcaster)
    /\ pending' = Readiness!Ready(Broadcaster)
    /\ UNCHANGED <<stream, sent>>

Broadcast ==
    /\ pending # NoValue
    /\ Stream!Publish(Broadcaster, pending)
    /\ pending' = NoValue /\ sent' = pending
    /\ UNCHANGED readiness

NothingNew ==
    /\ pending # NoValue /\ pending = sent
    /\ pending' = NoValue
    /\ UNCHANGED <<readiness, stream, sent>>

----------------------------------------------------------------------------
\* A client's thread, the other publishers, and the rest

Subscribe(c) ==
    /\ ~eval[c].judging
    /\ Stream!Subscribe(c)
    /\ UNCHANGED <<readiness, feed>>

Request(c) ==
    /\ conn[c] \in {"off", "subscribed"}
    /\ Readiness!Begin(c)
    /\ UNCHANGED <<stream, feed>>

Answer(c) ==
    /\ Readiness!Commit(c)
    /\ IF conn[c] = "subscribed" THEN Stream!SendSnapshot(c, Readiness!Ready(c))
       ELSE UNCHANGED stream
    /\ UNCHANGED feed

Deliver(c) == Stream!Deliver(c) /\ UNCHANGED <<readiness, feed>>

Disconnect(c) ==
    /\ ~eval[c].judging
    /\ Stream!Disconnect(c)
    /\ UNCHANGED <<readiness, feed>>

\* append_log, add_alarm and their like, on any thread but the broadcaster's.
PublishOther(p) ==
    /\ p # Broadcaster
    /\ Stream!Publish(p, NoValue)
    /\ UNCHANGED <<readiness, feed>>

Advance(p) == Stream!Advance(p) /\ UNCHANGED <<readiness, feed>>

World == (Readiness!Telemetry \/ Readiness!Tick) /\ UNCHANGED <<stream, feed>>

Client(c) == Request(c) \/ Answer(c) \/ Deliver(c)

Next ==
    \/ TakeState \/ FinishState \/ Broadcast \/ NothingNew
    \/ \E c \in Clients : Subscribe(c) \/ Client(c) \/ Disconnect(c)
    \/ \E p \in Publishers : PublishOther(p) \/ Advance(p)
    \/ World

Spec == Init /\ [][Next]_vars

\* Time passes and the threads run on; a client that is connected reads.  The state is
\* found changed again and again: gatewayUptimeSec is a part of it.  Without that a client
\* whose snapshot saw a change that was undone before the next evaluation is never told.
Fairness ==
    /\ WF_vars(Readiness!Tick /\ UNCHANGED <<stream, feed>>)
    /\ WF_vars(TakeState) /\ WF_vars(FinishState)
    /\ WF_vars(Broadcast \/ NothingNew) /\ SF_vars(Broadcast)
    /\ \A c \in Clients : WF_vars(Answer(c)) /\ WF_vars(Deliver(c))
    /\ \A p \in Publishers : WF_vars(Advance(p))

FairSpec == Spec /\ Fairness

----------------------------------------------------------------------------
\* Properties

\* Type invariant.
TypeOK ==
    /\ Readiness!TypeOK /\ Stream!StreamTypeOK
    /\ pending \in BOOLEAN \cup {NoValue} /\ sent \in BOOLEAN \cup {NoValue}

\* offboard_readiness: "ready", to whomever it is told, is never older than its hold, one
\* period of the broadcaster and three stalls.
ReadyIsRecent == Readiness!ReadyIsRecent

StateOnly(c) == conn[c] # "off" /\ ~every[c]
Newest(c) == queue[c][Len(queue[c])]
Underway(c) == c \in stage[Broadcaster].to \/ c = stage[Broadcaster].at

\* A queue that overflows loses old states, never the newest: once the broadcaster is done
\* with a client that asked for states only, what the client reads last is what was sent.
NewestQueued ==
    \A c \in Clients :
        StateOnly(c) /\ queue[c] # <<>> /\ ~Underway(c) => Newest(c) = sent

\* A client connected for states learns of the end of readiness, and of its beginning,
\* wherever its snapshot fell between the broadcaster's evaluations.
Learns(c, ready) == <>[](known[c] = ready)
Unready == ~Readiness!Candidate(report, TRUE)
Deserved == Readiness!Candidate(report, FALSE)

ClientLearns ==
    \A c \in Clients :
        /\ <>[](Unready /\ conn[c] = "streaming" /\ ~every[c]) => Learns(c, FALSE)
        /\ <>[](Deserved /\ conn[c] = "streaming" /\ ~every[c]) => Learns(c, TRUE)
=============================================================================
