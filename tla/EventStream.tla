---------------------------- MODULE EventStream ----------------------------
(***************************************************************************)
(* EventBroker and _serve_sse of docker/control-gateway/app.py: a bounded  *)
(* queue per connected client.  A publisher copies the list of subscribers *)
(* under the broker's lock and then, without it, puts its event into each  *)
(* queue; a full queue loses its oldest event for it.  Each call on a      *)
(* queue is atomic, the calls of two publishers interleave.  A client is a *)
(* connection served by a thread: it subscribes, sends a snapshot, and     *)
(* then what arrives in the queue.  Heartbeats change nothing; event ids   *)
(* and topics other than "state" and "*" are left out.                     *)
(***************************************************************************)
EXTENDS Integers, Sequences

CONSTANTS
    Clients,         \* connections that may be open at once
    Publishers,      \* threads that publish: broadcaster, ROS callbacks, requests
    StatePublisher,  \* the SnapshotBroadcaster, the one that publishes "state"
    Values,          \* what a snapshot or a state event tells
    NoValue,         \* the client has been told nothing; or: no state event
    Nobody,          \* no client
    Capacity         \* maxsize of a queue

StreamAssumption ==
    /\ StatePublisher \in Publishers
    /\ NoValue \notin Values /\ Nobody \notin Clients
    /\ Capacity \in Nat \ {0}

VARIABLES
    conn,    \* "off", "subscribed" (snapshot not sent yet) or "streaming"
    every,   \* the client asked for all topics, not for "state" only
    queue,   \* Subscriber.queue; "state" events are values, others NoValue
    stage,   \* each publisher's place in publish()
    known    \* what the client was told last

vars == <<conn, every, queue, stage, known>>

Topics(c) == IF every[c] THEN Values \cup {NoValue} ELSE Values

\* to: subscribers in the copied list still to be served; at: the one in hand, whose queue was full.
NotPublishing == [event |-> NoValue, to |-> {}, at |-> Nobody, freed |-> FALSE]

Init ==
    /\ conn = [c \in Clients |-> "off"]
    /\ every = [c \in Clients |-> FALSE]
    /\ queue = [c \in Clients |-> <<>>]
    /\ stage = [p \in Publishers |-> NotPublishing]
    /\ known = [c \in Clients |-> NoValue]

----------------------------------------------------------------------------
\* The client's thread

Subscribe(c) ==
    /\ conn[c] = "off"
    /\ conn' = [conn EXCEPT ![c] = "subscribed"]
    /\ every' \in {[every EXCEPT ![c] = b] : b \in BOOLEAN}
    /\ UNCHANGED <<queue, stage, known>>

\* The snapshot is taken, and told, after the client subscribed.
SendSnapshot(c, value) ==
    /\ conn[c] = "subscribed"
    /\ conn' = [conn EXCEPT ![c] = "streaming"]
    /\ known' = [known EXCEPT ![c] = value]
    /\ UNCHANGED <<every, queue, stage>>

Told(c, event) == IF event = NoValue THEN known[c] ELSE event

Deliver(c) ==
    /\ conn[c] = "streaming" /\ queue[c] # <<>>
    /\ queue' = [queue EXCEPT ![c] = Tail(@)]
    /\ known' = [known EXCEPT ![c] = Told(c, Head(queue[c]))]
    /\ UNCHANGED <<conn, every, stage>>

\* A publisher is done with a client; the event is done with after the last one.
NextClient(p, c) ==
    IF stage[p].to \subseteq {c} THEN NotPublishing
    ELSE [event |-> stage[p].event, to |-> stage[p].to \ {c}, at |-> Nobody, freed |-> FALSE]

\* A write fails: the queue is unsubscribed.  A publisher that has copied the list still
\* fills it, for nobody.
Disconnect(c) ==
    /\ conn[c] # "off"
    /\ conn' = [conn EXCEPT ![c] = "off"]
    /\ queue' = [queue EXCEPT ![c] = <<>>]
    /\ known' = [known EXCEPT ![c] = NoValue]
    /\ stage' = [p \in Publishers |->
                   IF stage[p].at = c THEN NextClient(p, c)
                   ELSE IF stage[p].at = Nobody /\ stage[p].to \subseteq {c} THEN NotPublishing
                   ELSE [stage[p] EXCEPT !.to = @ \ {c}]]
    /\ UNCHANGED every

----------------------------------------------------------------------------
\* A publisher

Idle(p) == stage[p] = NotPublishing

Interested(event) == {c \in Clients : conn[c] # "off" /\ event \in Topics(c)}

\* The section under the broker's lock, and the filter on topics.
Publish(p, event) ==
    /\ Idle(p)
    /\ stage' = IF Interested(event) = {} THEN stage
                ELSE [stage EXCEPT ![p] = [event |-> event, to |-> Interested(event),
                                           at |-> Nobody, freed |-> FALSE]]
    /\ UNCHANGED <<conn, every, queue, known>>

Served(p, c) == stage' = [stage EXCEPT ![p] = NextClient(p, c)]

InHand(p, c) ==
    [event |-> stage[p].event, to |-> stage[p].to \ {c}, at |-> c, freed |-> FALSE]
\* Mutant: one event too many.
RoomOffByOne(c) == Len(queue[c]) <= Capacity

HasRoom(c) == Len(queue[c]) < Capacity

PutNowait(p, c) ==
    /\ IF HasRoom(c)
       THEN /\ queue' = [queue EXCEPT ![c] = Append(@, stage[p].event)]
            /\ Served(p, c)
       ELSE /\ stage' = [stage EXCEPT ![p] = InHand(p, c)]
            /\ UNCHANGED queue
    /\ UNCHANGED <<conn, every, known>>

Put(p, c) ==
    /\ stage[p].at = Nobody /\ c \in stage[p].to
    /\ PutNowait(p, c)

\* Mutant: the newest event is given up at once.
GiveUpNewest(p, c) ==
    /\ stage[p].at = c /\ ~stage[p].freed
    /\ Served(p, c)
    /\ UNCHANGED <<conn, every, queue, known>>

\* queue.Full: the oldest event goes, if the client has not emptied the queue meanwhile.
DropOldest(p, c) ==
    /\ stage[p].at = c /\ ~stage[p].freed
    /\ queue' = [queue EXCEPT ![c] = IF @ = <<>> THEN @ ELSE Tail(@)]
    /\ stage' = [stage EXCEPT ![p].freed = TRUE]
    /\ UNCHANGED <<conn, every, known>>

\* The second attempt; if another publisher took the room, the newest event is lost.
Retry(p, c) ==
    /\ stage[p].at = c /\ stage[p].freed
    /\ IF HasRoom(c) THEN queue' = [queue EXCEPT ![c] = Append(@, stage[p].event)]
       ELSE UNCHANGED queue
    /\ Served(p, c)
    /\ UNCHANGED <<conn, every, known>>

Advance(p) == \E c \in Clients : Put(p, c) \/ DropOldest(p, c) \/ Retry(p, c)

\* The broadcaster alone publishes "state"; anybody publishes logs, alarms, health.
Next ==
    \/ \E c \in Clients : \/ Subscribe(c) \/ Deliver(c) \/ Disconnect(c)
                          \/ \E v \in Values : SendSnapshot(c, v)
    \/ \E v \in Values : Publish(StatePublisher, v)
    \/ \E p \in Publishers : Publish(p, NoValue) \/ Advance(p)

Spec == Init /\ [][Next]_vars

----------------------------------------------------------------------------
\* Properties

\* Type invariant.
StreamTypeOK ==
    /\ conn \in [Clients -> {"off", "subscribed", "streaming"}]
    /\ every \in [Clients -> BOOLEAN]
    /\ queue \in [Clients -> Seq(Values \cup {NoValue})]
    /\ \A c \in Clients : Len(queue[c]) <= Capacity
    /\ stage \in [Publishers -> [event : Values \cup {NoValue}, to : SUBSET Clients,
                                 at : Clients \cup {Nobody}, freed : BOOLEAN]]
    /\ known \in [Clients -> Values \cup {NoValue}]

\* What remains of a publication: clients to serve, then the tries left with the one in hand.
Tries(p) == IF stage[p].at = Nobody THEN 0 ELSE IF stage[p].freed THEN 1 ELSE 2

Nearer(p) ==
    /\ stage'[p].to \subseteq stage[p].to
    /\ stage'[p].to = stage[p].to => Tries(p)' < Tries(p)

\* No client holds a publisher up: each of its steps brings a publication nearer to its end,
\* full queues, slow readers and competing publishers or not, and nothing that the others
\* do, subscribing meanwhile included, takes it further from it.
ServesOnwards ==
    [][\A p \in Publishers : ~Idle(p) =>
          /\ Advance(p) => Nearer(p)
          /\ stage'[p] # stage[p] => Nearer(p)]_vars
=============================================================================
