--------------------------- MODULE ManualControl ---------------------------
(***************************************************************************)
(* The manual-control lease of docker/control-gateway/app.py, class        *)
(* ManualControlController.  A pilot's app acquires a lease, feeds stick   *)
(* input and heartbeats under it and releases it; HTTP requests run on     *)
(* threads of their own while one publisher thread (run) forwards the last *)
(* sample to /mavros/manual_control/send, goes neutral when the pilot is   *)
(* silent, and expires the lease.                                          *)
(*                                                                         *)
(* A request is cut exactly where it takes and drops self.lock: input is   *)
(* _ensure_owner, the read of neutral_only, then the write; heartbeat and  *)
(* release are _ensure_owner, then the write.  Requests that are refused   *)
(* change nothing and are left out.                                        *)
(*                                                                         *)
(* last_failsafe_reason, warned_stale_input and last_publish_at are only   *)
(* logged and reported, and are left out.                                  *)
(*                                                                         *)
(* Time is counted in quanta: leaseLeft is lease_expires_at minus the      *)
(* current time, inputAge the current time minus last_input_at.  A request *)
(* captures time.time() before it enters the lock, so it carries the age   *)
(* of its stamp.                                                           *)
(***************************************************************************)
EXTENDS Integers

CONSTANTS
    Clients,       \* paired clients that hold an operator token
    Handlers,      \* HTTP request threads that can be in flight at once
    LeaseIds,      \* what secrets.token_urlsafe can return
    NoClient,      \* owner_client_id is None
    NoLease,       \* lease_id is None
    TTL,           \* leaseTtlSec, in quanta
    InputTimeout,  \* inputTimeoutSec, in quanta
    MaxStall,      \* bound: quanta a request can pause between two lock sections
    Configs        \* the configurations the gateway may be started with

ConfigType == [enabled : BOOLEAN, mode : {"dev", "flight"}, requiresFlightMode : BOOLEAN,
               allowNeutralInDev : BOOLEAN, holdOnArmedLeaseTimeout : BOOLEAN]

ASSUME ConstantsOK ==
    /\ NoClient \notin Clients
    /\ NoLease \notin LeaseIds
    /\ Configs \subseteq ConfigType

\* The deployed 3 s / 0.35 s leave several publisher periods between the two timeouts.
ASSUME TimingOK ==
    /\ TTL \in Nat /\ InputTimeout \in Nat /\ MaxStall \in Nat
    /\ MaxStall <= InputTimeout
    /\ InputTimeout + MaxStall + 1 < TTL

VARIABLES
    config,        \* manualControl and operationMode of config.json, fixed at start
    lease, owner, neutralOnly,        \* lease_id, owner_client_id, neutral_only
    leaseLeft, inputAge,              \* lease_expires_at, last_input_at (see above)
    sample,                           \* sample
    holdSentFor,                      \* hold_sent_for_lease
    req,           \* the HTTP threads: where each is, and what it carries
    loop,          \* the publisher thread: between iterations, publishing or holding
    due,           \* the publisher thread has slept and has yet to run in this quantum
    publisherUp,   \* self.publisher is not None
    grantee,       \* ghost: the client the last lease was issued to
    lastOut        \* ghost: outcome of the last publish on /mavros/manual_control/send

core == <<lease, owner, neutralOnly, leaseLeft, inputAge, sample, holdSentFor>>
vars == <<config, core, req, loop, due, publisherUp, grantee, lastOut>>

Sticks == {"neutral", "deflected"}
Never == TTL + MaxStall          \* an age past which nothing changes any more
Idle == [pc |-> "idle", client |-> NoClient, stick |-> "neutral", age |-> 0]

\* _ensure_allowed_mode: outside flight mode a lease may still be neutral-only.
ModeAllowed == config.requiresFlightMode /\ config.mode # "flight" => config.allowNeutralInDev
NeutralOnlyMode == config.requiresFlightMode /\ config.mode # "flight"

\* Mutant: the lease's expiry is not compared with the clock.
ActiveAtForever(a) == lease # NoLease

\* A lease is active for a reader whose time.time() is a quanta old.
ActiveAt(a) == lease # NoLease /\ leaseLeft + a > 0
Active == ActiveAt(0)

Min2(a, b) == IF a < b THEN a ELSE b

Init ==
    /\ config \in Configs
    /\ lease = NoLease /\ owner = NoClient /\ neutralOnly = FALSE
    /\ leaseLeft = -MaxStall /\ inputAge = Never
    /\ sample = "neutral" /\ holdSentFor = NoLease
    /\ req = [h \in Handlers |-> Idle]
    /\ loop = [pc |-> "idle", stick |-> "neutral"]
    /\ due = TRUE /\ publisherUp = FALSE
    /\ grantee = NoClient
    /\ lastOut = "none"

----------------------------------------------------------------------------
\* acquire

\* The checks before the lock, and now = time.time().
BeginAcquire(h, c) ==
    /\ config.enabled /\ ModeAllowed
    /\ req[h].pc = "idle"
    /\ req' = [req EXCEPT ![h] = [Idle EXCEPT !.pc = "acquire", !.client = c]]
    /\ UNCHANGED <<config, core, loop, due, publisherUp, grantee, lastOut>>

\* Mutant: an owner past the input timeout counts as gone.
BusyByInput(h) == lease # NoLease /\ inputAge <= InputTimeout /\ owner # req[h].client

\* Another client's lease, still active at this request's time stamp.
Busy(h) == ActiveAt(req[h].age) /\ owner # req[h].client

AcquireBusy(h) ==
    /\ req[h].pc = "acquire" /\ Busy(h)
    /\ req' = [req EXCEPT ![h] = Idle]
    /\ UNCHANGED <<config, core, loop, due, publisherUp, grantee, lastOut>>

\* A new token differs from every one the controller remembers; requests past
\* _ensure_owner remember none, so a forgotten token may serve again.
Acquire(h) ==
    /\ req[h].pc = "acquire" /\ ~Busy(h)
    /\ lease' \in LeaseIds \ {lease, holdSentFor}
    /\ owner' = req[h].client /\ grantee' = req[h].client
    /\ leaseLeft' = TTL - req[h].age
    /\ inputAge' = req[h].age
    /\ sample' = "neutral"
    /\ neutralOnly' = NeutralOnlyMode
    /\ holdSentFor' = NoLease
    /\ req' = [req EXCEPT ![h] = Idle]
    /\ UNCHANGED <<config, loop, due, publisherUp, lastOut>>

----------------------------------------------------------------------------
\* input, heartbeat, release

\* _ensure_owner, a lock section of its own: the request names the current lease.
EnsureOwner(c) == Active /\ owner = c

BeginOwned(h, c, kind, s) ==
    /\ config.enabled
    /\ req[h].pc = "idle"
    /\ EnsureOwner(c)
    /\ req' = [req EXCEPT ![h] = [pc |-> kind, client |-> c, stick |-> s, age |-> 0]]
    /\ UNCHANGED <<config, core, loop, due, publisherUp, grantee, lastOut>>

BeginInput(h, c, s) == BeginOwned(h, c, "input", s)
BeginHeartbeat(h, c) == BeginOwned(h, c, "heartbeat", "neutral")
BeginRelease(h, c) == BeginOwned(h, c, "release", "neutral")

\* The second section of input: neutral_only is read, the sample refused or kept.
InputGate(h) ==
    /\ req[h].pc = "input"
    /\ req' = [req EXCEPT ![h] =
                 IF neutralOnly /\ req[h].stick = "deflected" THEN Idle
                 ELSE [pc |-> "write", client |-> @.client, stick |-> @.stick, age |-> 0]]
    /\ UNCHANGED <<config, core, loop, due, publisherUp, grantee, lastOut>>

\* Mutant: a renewal adds the ttl to the old expiry.
StampExtends(a) == leaseLeft' = leaseLeft + TTL /\ inputAge' = a

\* Mutant: a renewal forgets last_input_at.
StampLeaseOnly(a) == leaseLeft' = TTL - a /\ UNCHANGED inputAge

\* Both renewals stamp the two times from one time.time() taken since the last section.
Stamp(a) == leaseLeft' = TTL - a /\ inputAge' = a

InputWrite(h) ==
    /\ req[h].pc = "write"
    /\ sample' = req[h].stick
    /\ \E a \in 0..req[h].age : Stamp(a)
    /\ req' = [req EXCEPT ![h] = Idle]
    /\ UNCHANGED <<config, lease, owner, neutralOnly, holdSentFor, loop, due, publisherUp,
                   grantee, lastOut>>

Heartbeat(h) ==
    /\ req[h].pc = "heartbeat"
    /\ \E a \in 0..req[h].age : Stamp(a)
    /\ req' = [req EXCEPT ![h] = Idle]
    /\ UNCHANGED <<config, lease, owner, neutralOnly, sample, holdSentFor, loop, due,
                   publisherUp, grantee, lastOut>>

\* Mutant: the owner outlives its lease.
ClearLeaseKeepsOwner ==
    /\ lease' = NoLease /\ UNCHANGED owner /\ neutralOnly' = FALSE
    /\ leaseLeft' = -MaxStall /\ inputAge' = Never
    /\ sample' = "neutral"

\* What release and a lease timeout both do to the lease.
ClearLease ==
    /\ lease' = NoLease /\ owner' = NoClient /\ neutralOnly' = FALSE
    /\ leaseLeft' = -MaxStall /\ inputAge' = Never
    /\ sample' = "neutral"

Release(h) ==
    /\ req[h].pc = "release"
    /\ ClearLease
    /\ holdSentFor' = NoLease
    /\ req' = [req EXCEPT ![h] = Idle]
    /\ UNCHANGED <<config, loop, due, publisherUp, grantee, lastOut>>

----------------------------------------------------------------------------
\* run, the publisher thread

\* Disabled, or no publisher yet: the iteration ends before the lease is looked at.
LoopSkip ==
    /\ loop.pc = "idle" /\ due
    /\ config.enabled => ~publisherUp
    /\ due' = FALSE
    /\ UNCHANGED <<config, lease, owner, neutralOnly, leaseLeft, inputAge, sample,
                   holdSentFor, req, loop, publisherUp, grantee, lastOut>>

InitPublisher ==
    /\ loop.pc = "idle" /\ due /\ config.enabled /\ ~publisherUp
    /\ publisherUp' = TRUE
    /\ UNCHANGED <<config, core, req, loop, due, grantee, lastOut>>

\* Mutant: the lease's ttl is used where the input timeout is meant.
InputTimedOutAtTTL == inputAge > TTL

\* input_age > inputTimeoutSec
InputTimedOut == inputAge > InputTimeout

\* The lock section of an iteration under an active lease.
LoopActive ==
    /\ loop.pc = "idle" /\ due /\ config.enabled /\ publisherUp
    /\ Active
    /\ sample' = IF InputTimedOut THEN "neutral" ELSE sample
    /\ loop' = [pc |-> "publish", stick |-> sample']
    /\ due' = FALSE
    /\ UNCHANGED <<config, lease, owner, neutralOnly, leaseLeft, inputAge, holdSentFor, req,
                   publisherUp, grantee, lastOut>>

HoldWanted(armed) ==
    armed /\ config.holdOnArmedLeaseTimeout /\ holdSentFor # lease

\* The lock section of an iteration that finds the lease expired; armed is whatever the
\* ROS collector last wrote to latest_flight.
LoopExpire ==
    /\ loop.pc = "idle" /\ due /\ config.enabled /\ publisherUp
    /\ lease # NoLease /\ ~Active
    /\ ClearLease
    /\ \E armed \in BOOLEAN :
          /\ holdSentFor' = IF HoldWanted(armed) THEN lease ELSE holdSentFor
          /\ loop' = [loop EXCEPT !.pc = IF HoldWanted(armed) THEN "hold" ELSE "idle"]
    /\ due' = FALSE
    /\ UNCHANGED <<config, req, publisherUp, grantee, lastOut>>

LoopNoLease ==
    /\ loop.pc = "idle" /\ due /\ config.enabled /\ publisherUp
    /\ lease = NoLease
    /\ due' = FALSE
    /\ UNCHANGED <<config, core, req, loop, publisherUp, grantee, lastOut>>

\* publisher.publish, outside the lock; an exception is logged and reported.
LoopPublish ==
    /\ loop.pc = "publish"
    /\ lastOut' \in {loop.stick, "failed"}
    /\ loop' = [pc |-> "idle", stick |-> "neutral"]
    /\ UNCHANGED <<config, lease, owner, neutralOnly, leaseLeft, inputAge, sample,
                   holdSentFor, req, due, publisherUp, grantee>>

\* _best_effort_hold: set_mode to the failsafe mode; any outcome is only logged.
LoopHold ==
    /\ loop.pc = "hold"
    /\ loop' = [loop EXCEPT !.pc = "idle"]
    /\ UNCHANGED <<config, core, req, due, publisherUp, grantee, lastOut>>

----------------------------------------------------------------------------
\* Time

\* A quantum is the publisher thread's sleep: it runs once in each quantum, unless
\* _best_effort_hold blocks it.  No request pauses longer than MaxStall.
Tick ==
    /\ \A h \in Handlers : req[h].pc # "idle" => req[h].age < MaxStall
    /\ loop.pc # "publish"
    /\ due => loop.pc = "hold"
    /\ due' = TRUE
    /\ leaseLeft' = IF leaseLeft > -MaxStall THEN leaseLeft - 1 ELSE leaseLeft
    /\ inputAge' = Min2(inputAge + 1, Never)
    /\ req' = [h \in Handlers |->
                 IF req[h].pc = "idle" THEN req[h] ELSE [req[h] EXCEPT !.age = @ + 1]]
    /\ UNCHANGED <<config, lease, owner, neutralOnly, sample, holdSentFor,
                   loop, publisherUp, grantee, lastOut>>

Begin(h) ==
    \E c \in Clients :
       \/ BeginAcquire(h, c) \/ BeginHeartbeat(h, c) \/ BeginRelease(h, c)
       \/ \E s \in Sticks : BeginInput(h, c, s)

Renew(h) == InputWrite(h) \/ Heartbeat(h)
Finish(h) == AcquireBusy(h) \/ Acquire(h) \/ InputGate(h) \/ Renew(h) \/ Release(h)
Loop == LoopSkip \/ LoopActive \/ LoopExpire \/ LoopNoLease \/ LoopPublish \/ LoopHold

Next ==
    \/ \E h \in Handlers : Begin(h) \/ Finish(h)
    \/ Loop \/ InitPublisher \/ Tick

Spec == Init /\ [][Next]_vars

\* Threads that hold or want the lock run on, the publisher thread's loop never ends
\* and time passes.  Nothing makes a client act, or ROS come up.
Fairness ==
    /\ WF_vars(Tick) /\ WF_vars(Loop)
    /\ \A h \in Handlers : WF_vars(Finish(h))

FairSpec == Spec /\ Fairness

----------------------------------------------------------------------------
\* Properties

ReqType == [pc : {"idle", "acquire", "input", "write", "heartbeat", "release"},
            client : Clients \cup {NoClient}, stick : Sticks, age : 0..MaxStall]

\* Type invariant of the controller's fields and of the threads.
TypeOK ==
    /\ config \in Configs
    /\ lease \in LeaseIds \cup {NoLease}
    /\ owner \in Clients \cup {NoClient}
    /\ neutralOnly \in BOOLEAN
    /\ leaseLeft \in (-MaxStall)..TTL
    /\ inputAge \in 0..Never
    /\ sample \in Sticks
    /\ holdSentFor \in LeaseIds \cup {NoLease}
    /\ req \in [Handlers -> ReqType]
    /\ loop \in [pc : {"idle", "publish", "hold"}, stick : Sticks]
    /\ due \in BOOLEAN /\ publisherUp \in BOOLEAN
    /\ grantee \in Clients \cup {NoClient}
    /\ lastOut \in Sticks \cup {"none", "failed"}

\* A lease and its owner appear and disappear together whatever late request writes last:
\* the owner is the client the lease was issued to, under the mode the gateway runs in.
LeaseConsistent ==
    /\ (lease = NoLease) <=> (owner = NoClient)
    /\ lease # NoLease => owner = grantee /\ neutralOnly = NeutralOnlyMode
    /\ neutralOnly => NeutralOnlyMode

\* The clocks agree: every path that writes one of lease_expires_at and last_input_at writes
\* the other from the same stamp.
ClocksAgree == lease # NoLease => leaseLeft = TTL - inputAge

\* A silent pilot loses the lease in time: once the publisher thread has run in a quantum,
\* whoever still holds a lease was in contact within the ttl.  So no stamp of a request in
\* flight, however old, makes a lease outlive the contact it is owed to.
LeaseRunsOut ==
    lease # NoLease /\ publisherUp /\ ~due => inputAge < TTL

\* The controller is one exclusive lease: whatever its threads do between their lock
\* sections, nobody takes over a lease before it has run out, and nothing but a request
\* makes one last longer.
Exclusive ==
    INSTANCE Lease WITH Nobody <- NoClient, Term <- TTL, holder <- owner,
                        left <- IF owner # NoClient /\ leaseLeft > 0 THEN leaseLeft ELSE 0

ImplementsLease == Exclusive!Spec

\* Dead man's switch: once the publisher thread has run in a quantum, a deflected stick on
\* /mavros/manual_control/send means contact within the input timeout.
DeadmanNeutral ==
    lastOut = "deflected" /\ Active /\ publisherUp /\ loop.pc = "idle" /\ ~due
       => inputAge <= InputTimeout

\* A lease that times out, and the hold that may follow, find the vehicle already on a
\* neutral stick: the input timeout always takes effect before the lease timeout.
NeutralBeforeTimeout ==
    [][lease # NoLease /\ lease' = NoLease /\ req' = req => lastOut # "deflected"]_vars

\* A silent owner cannot keep a lease: unless it is renewed or acquired anew for ever, or
\* the publisher never comes up, the lease is freed again and again.
LeaseFreed ==
    \/ []<>(lease = NoLease)
    \/ []<><<\E h \in Handlers : Renew(h) \/ Acquire(h)>>_vars
    \/ <>[](~publisherUp)

\* _ensure_owner answers "manual control lease is not active for this client": only the
\* owner of an active lease renews it, steers under it or ends it.
OnlyOwnerWrites ==
    [][\A h \in Handlers : Renew(h) \/ Release(h) => Active /\ owner = req[h].client]_vars

\* "dev mode only accepts neutral manual-control input": outside flight mode nothing but
\* a neutral stick is ever published.
DevOnlyNeutral == NeutralOnlyMode => lastOut # "deflected"
=============================================================================
