# TYI E100 firmware: TLA+ models, checks and proofs

This directory holds TLA+ models of the program in `src/`, TLC configurations that
model-check them on small instances, and TLAPS proofs of the properties that matter most.
Every definition is translated from the code; `PROJECT.json` maps each one to the lines it
stands for, lists the runs, the mutants that show each property can fail, the findings, the
hazards and the theorems.

## 1. Inventory

The firmware flies a quadrotor from a companion computer. A Livox MID360 lidar feeds
FAST-LIO2; an IMU filter and `fastlio_to_mavros` turn its odometry into a vision pose for
MAVROS and PX4. Around that pipeline stand three HTTP/WebSocket gateways for the mobile app,
an optional vision service and an optional EGO planner. The first-party logic is in the
gateways, and the first of them, `docker/control-gateway/app.py`, is the only process that
commands the vehicle.

### control-gateway (`docker/control-gateway/app.py`)

A threaded HTTP server: each request runs on a thread of its own, beside daemon threads (ROS
callbacks, manual-control publisher, pollers, broadcaster, watchdog). Two kinds of lock:
`StateStore.lock` and one per controller.

| component | state | operations | interacts with |
|---|---|---|---|
| `StateStore`: pairing and sessions | nonces, access and refresh tokens, paired clients, the state file | challenge, complete, refresh, logout, list, revoke, validate, load, save, prune | every authorised route; the file survives restarts |
| `ManualControlController` | lease id, owner, expiry, last input, sample, neutral-only flag | acquire, input, heartbeat, release, publisher loop, failsafe hold | routes; `/mavros/manual_control/send`; `/mavros/set_mode`; `latest_flight` |
| `FlightCommandController` | a lock; each request's remembered pose | takeoff, land, hold | telemetry in the store; setpoint topic; mode and arming services |
| offboard readiness | latch, `invalid_since`, sample windows | `offboard_readiness`, called by every snapshot | ROS callbacks; takeoff's gate; broadcaster |
| `EventBroker`, SSE, `SnapshotBroadcaster` | subscribers' queues, event ids, last serialised state | subscribe, publish, serve | store, pollers, alarms, logs |
| `NavigationController` | publisher, last goal | ground/pixel query and plan, publish-goal, hold-position, project-goal | vision service, pointcloud-gateway snapshots, planner goal topic |
| ROS collector, watchdog, pollers, discovery, health | last-write-wins fields and their ages | callbacks, polls, exit on stale telemetry | store |

What is hard: requests check under a lock and act under it again later; a refresh is two
sections with a crash or a revocation possible in between; renewals and timeouts carry time
stamps taken before the lock; a flight command holds its lock for seconds of streaming and
external calls that can be refused, fail, or take effect with their answer lost.

What makes them correct: a token that is accepted belongs to a paired client and was never
invalidated; a client has one session; crashes resurrect nothing, and lose the session only of a
client between two sections of a request or hardly short of stale. One pilot at a time; a
silent pilot's stick goes neutral, then the lease goes. Setpoint streams never mix; the vehicle
is handed over or disarmed at the end of every command; locks come free. Readiness
is not reported longer than its hold. Events arrive in order and the last state arrives.

### pointcloud-gateway (`docker/pointcloud-gateway/app.py`)

An asyncio server with worker threads. State: a voxel cache and its tiles with per-tile and
removed sequences, the latest pose, planner path and live frames, a bounded history of
odometry and clouds, observation snapshots with TTL and limit, and per WebSocket a cursor of
what the viewer knows. Operations: ingest (keyframe, live, odometry, planner), map merge and
prune, snapshot create and get, cursor synchronisation and flushing. Hard: the cursor is
updated across `await`s while the map changes; keyframes have priority over live clouds; LRU
order and age order of snapshots differ. Correct: a viewer's set of tiles converges to the
store's visible set; sequences only grow; a snapshot nobody has read
is not served beyond its TTL; streams do not spin or starve.

### media-gateway (`docker/media-gateway/app.py`)

State: selected camera and profile, mediamtx process and health, restart counters and
back-off, WHEP sessions. Operations: probe, start, stop, reconcile, create, touch, close,
clean up. Hard: the poller and handlers race on sessions; restarts combine three counters and
a back-off. Correct: a publisher that died is restarted, a healthy one is not; live sessions
survive clean-up.

### The rest

RealSense depth and VLM services, the time base, `fastlio_to_mavros`, the odometry EKF and the
planner bridge are mostly numeric; shell scripts supervise containers. EGO planner, MAVROS,
MAVLink, FAST-LIO and the Livox SDK and driver are third-party code kept in the tree.
`PROJECT.json` lists each with the reason it is not modelled.

## 2. Plan

The order was that of what commands the vehicle, then of what the app believes about it.

1. `ManualControl` (done): lease, dead man's switch, publisher loop.
2. `PairingAuth` (done): sessions, pruning, state file, restarts.
3. `FlightCommands` (done): takeoff, landing, hold against an external vehicle.
4. `OffboardReadiness`, `EventStream` and their composition `StateFeed` (done).
5. `TileMap` (the map and its ingest worker) and `MapStream` over it (done).
6. `Observations` and `Navigation` over it (done, without the geometry).
7. `MediaPipeline`, `MediaSessions` and their composition `MediaGateway` (done).

Left: the latest-value streams of the pointcloud-gateway (pose, planner path, live cloud) and its
watchdog; the composition of `ManualControl`'s failsafe and of readiness with `FlightCommands`;
the caches of the vision services; the delayed-measurement buffer of the odometry EKF.

Each module takes its sizes as CONSTANTS with named assumptions, has one action per lock section,
call or await, uses no RECURSIVE operator, and gets its proofs in `<Module>_proofs.tla`.

How modules compose. A small module holds one component and its specification; a larger one
declares the variables of several, INSTANCEs them and conjoins their actions where the code calls
from one into the other:

| composed module | instantiates | where the code joins them |
|---|---|---|
| `StateFeed` | `OffboardReadiness`, `EventStream` | a snapshot evaluates readiness and is then published or told |
| `MapStream` | `TileMap` | a viewer's cursor compares its sequences with the map's |
| `Navigation` | `Observations` | a request creates the snapshot that anchors its goal |
| `MediaGateway` | `MediaPipeline`, `MediaSessions` | a session needs a selected device, a ready mediamtx and a profile |

That the composition is one, is proved: every behaviour of the composed module is one of each
instance's own specification (`FeedImplementsReadiness`, `FeedImplementsStream`,
`StreamImplementsMap`, `NavigationImplementsObservations`, `GatewayImplementsPipeline`,
`GatewayImplementsSessions`), so what is proved of a component alone holds in the composition.

Abstract specifications. What two components promise, without threads, stamps, files or crashes,
is a small module of its own that the component is shown to implement, by TLC as a property of
its run and by TLAPS for all constants:

| abstract module | promises | implemented by | refinement mapping |
|---|---|---|---|
| `Lease` | one holder at a time; nobody else before the lease has run out; only a renewal makes it longer | `ManualControl` (`ImplementsLease`) | holder is `owner`; time left is `leaseLeft`, nothing below 0 |
| `Credentials` | a token is handed out once, to a client that holds none; what lapsed is never accepted again | `PairingAuth` (`ImplementsCredentials`), once for refresh and once for access tokens | fresh tokens are `Unissued`; live credentials are the accepted tokens with their holders |

## 3. Modules

### ManualControl

`ManualControlController`, cut where it takes and drops `self.lock`. `lease`, `owner`,
`neutralOnly`, `sample`, `holdSentFor` are its fields; `leaseLeft` and `inputAge` are
`lease_expires_at` and `last_input_at` relative to the clock; `req` holds each HTTP thread's
place, captured sample and the age of its time stamp; `loop`, `due` and `publisherUp` are the
publisher thread. `input` is three sections (`BeginInput`, `InputGate`, `InputWrite`), heartbeat
and release two, acquire one after its stamp. `LoopActive`, `LoopExpire`, `LoopNoLease` and
`LoopSkip` are the branches of an iteration, `LoopPublish` and `LoopHold` what it does outside
the lock. `grantee` and `lastOut` are ghosts.

Abstractions: a stick is neutral or deflected; a quantum of time is the publisher's period, in
which the thread runs once unless `_best_effort_hold` blocks it; `MaxStall` bounds how long a
request may pause between two sections; refused requests, log entries and
`last_failsafe_reason`, `warned_stale_input`, `last_publish_at` are left out; the armed flag at
expiry is arbitrary; lease ids may be used again once nobody holds them. The wall clock is taken
not to jump. Under `Lease`, acquire is a grant, an input or a heartbeat that gets to its write a
renewal, release and timeout ends; a write for a lease that is gone is a stutter, and the race of
`manual_owner_race` shows as a renewal or an end that a former holder asked for, which the abstract
lease does not tell from the holder's own. The shipped configuration
disables manual control; the model starts in the default configuration with it enabled, in dev and flight mode, in the strict dev mode, and disabled.

### PairingAuth

`StateStore`'s authentication, cut where it drops `StateStore.lock`. `access` and `refresh` are
the two token tables, `holder` and `born` the client and time of issue of each token, `disk` the
file, which is replaced by a rename inside the section that saves it. Completing a pairing is
`ConsumeNonce`, `Register`, `Issue`; a refresh is `Rotate`, `Issue`; a maintainer's request is
`Authorize`, then `ListClients` or `RevokeClient`. `Pruned` is `_prune_auth_state_locked`, a set
because ties in `lastSeenAt` are broken by dictionary order. `Restart` loads and prunes the
file; `RestartUnreadable` is a file that cannot be parsed. Ghosts: `gone`, `revoked`, `ended`.

Abstractions: the proof of a pairing may or may not be valid; roles and names are left out;
each client id has one challenge, as `create_nonce` draws a fresh id each time; an access and a
refresh token are issued together and share a name; a section's stamp is the time of the section.

### FlightCommands

`FlightCommandController`. A request checks mode and telemetry (`AcceptTakeoff`, `AcceptLand`,
`AcceptHold`), remembers the pose, and waits for the lock (`TakeLock`); under it come `Engage`
(OFFBOARD), `Arm`, `Ramp`, and `Loiter`, `Disarm` or `AutoLand`. `Call` lets each MAVROS call
succeed, be refused, or fail with or without its effect; `StreamBreaks` is an exception while
streaming. External: the vehicle (`fcu`, `Fly`), everyone else who may change its mode or
arming (`OthersAct`); `Telemetry` is the collector's callbacks, arbitrarily late. `fault` is a
ghost for what went wrong since the lock was taken.

Abstractions: heights in ramp steps above the ground, lateral position fixed, times and speeds
left out; the checks of a request read the telemetry of one moment; connection, pose freshness
and readiness may be as required at any time.

### OffboardReadiness, EventStream, StateFeed

`OffboardReadiness` is `StateStore.offboard_readiness`: `Begin` copies telemetry and latch under
the lock and judges without it, `Commit` updates the latch in a second section. `report` grades
the telemetry against the enter, exit and relaxed limits, `invalidAge` is
`offboard_ready_invalid_since` as an age. `EventStream` is `EventBroker` and `_serve_sse`:
`stage` is each publisher's place in `publish`, whose calls on the queues (`Put`, `DropOldest`,
`Retry`) are atomic one by one. `StateFeed` adds the `SnapshotBroadcaster` (`pending`, `sent`) and
lets a client's thread evaluate readiness for its snapshot or another request.

Abstractions: a state is its `offboardReady`, the rest of it may change at any time; events are a
state or not a state; heartbeats, event ids and the health topic are left out.

### TileMap, MapStream

`TileMap` is the map of `PointCloudStore` and `MapIngestWorker`: `Merge` is
`_merge_points_into_map_locked` with its pruning, its changes and the history of removals; `slots`
and `working` are the worker's hand-over. `IntervalPassed` is looked at by `ingest_live` and again
by `_process_live`, in a step of its own (`JudgeLive`): the points are extracted after it, without
the lock and perhaps for long, and `MergeDense` stores the time the cloud was judged by
(`judged`). An extraction may raise (`Fail`). `MapStream` is one WebSocket: `Sync` is `sync_cursor_visibility`, the other
actions the turns of `flush_map_stream`, cut at its awaits (`pc`).

Abstractions: points and voxels are what a merge does to a tile, fill or empty it; tiles lie on
one axis; the visible set is taken from one pose per synchronisation; queues of removals and of
snapshot tiles are sets, a tile queued twice for removal counts once; a tile's packets are
counted.

### Observations, Navigation

`Observations` is the part of `PointCloudStore` that remembers odometry and makes snapshots: the
history of `historySec`, the bracketed and interpolated pose, the `OrderedDict` with TTL and
limit. `Judge` and `Store` are the halves of `create_observation_snapshot`; each operation trims
by a clock that may have been read before the lock. `Navigation` is the control-gateway's
`NavigationController` over it: `Look` takes the picture, `Attempt`, `Retry` and `Resume` are
`_create_instruction_observation_snapshot`'s 40 attempts and `_create_pixel_observation_snapshot`'s,
`Anchor` makes the goal, `HavePublisher`, `Linked` and `Publish` bring it to the planner;
`Hold` is `hold_position`.

Abstractions: positions are on a line and the vehicle flies one place in a quantum at most, in
one direction; camera geometry, depth values, floor clamps and the parsing of instructions are
left out, the depth query and the grounding are external and take up to `LookTimeout`; a cloud may
be too far from the picture at any time; every age saturates at a cap beyond which no comparison
tells it apart.

### MediaPipeline, MediaSessions, MediaGateway

`MediaPipeline` is `MediaMtxController` and its poller: a poll is `Check` (`refresh_health`),
`Glance` (what `reconcile_camera` reads first), and the one of `Leave`, `Count`, `HoldOff`,
`Restart` its probes lead to; `Start` and `StartFails` are `start`. mediamtx and the cameras
are external (`MediaMtx`, `CameraChanges`); a probe that outlives its limit ends the poller's
thread (`Die`), since nothing catches `TimeoutExpired`. `bad` is a ghost. `MediaSessions` is
`SessionManager`: `Find` under the lock, `Touch` after it; the clean-up thread looks at the clock
(`Look`), waits for the lock and lists (`Collect`), closes one by one (`Close`), and only then
sleeps: `elapsed` is the time since its look, or since it went to sleep, so the wait for the lock
and every close may take time of their own. `idle` and `kept` are ghosts that follow how often the
client has asked. `MediaGateway` joins them at `Ask` (what `do_POST` and `create_session` check) and `Create`
(the profile there is when the request gets to it).

Abstractions: the back-off of 8 s counts in polls, 5 s apart at least; the probes of one poll are
atomic; profiles are there exactly when a device is selected; `_missing_polls`, which decides a
log line only, is left out; `OnDemand` says which of its two ways mediamtx runs a publisher in. A
session's times are ages; a handler may pause up to `MaxStall` between reading a clock and what it
does with it. With the MJPEG source, as shipped, there is one candidate, never busy.

### Lease, Credentials

The abstract specifications of section 2. They model no code and are not in the map. `Renew` may
bring back a lease that has run out but was not yet ended, since the code's late writes do.

## 4. Runs

| run | shows | size |
|---|---|---|
| `manual_control` | the controller is an exclusive `Lease`; dead man's switch; liveness; all configurations | 2 pilots, 2 threads, 2 lease ids, ttl 4, input timeout 1, stall 1: 495,248 states |
| `manual_owner_race` | violated: only the owner writes | same |
| `manual_dev_neutral` | violated: dev mode publishes only neutral sticks | same |
| `pairing_auth` | the store issues `Credentials`; pruning, ends of sessions, what a crash may cost | 2 clients, 3 token pairs, 2 threads, limit 1, 5 quanta, symmetric: 1,189,424 states |
| `pairing_revoke_race` | violated: a revoked client stays revoked | same, refresh tokens of 3 and 4 quanta, without symmetry |
| `pairing_limit` | violated: the client limit | as `pairing_revoke_race` |
| `flight_commands` | streams, landings, hand-over, how commands end, lock | 2 threads, heights 0..2: 166,676 states |
| `flight_takeoff_race` | violated: takeoff only from the ground | same |
| `state_feed` | how old "ready" can be, what a full queue loses, that a client learns the truth | 1 client, 1 broadcaster, 1 other publisher, hold 2, period 1, stall 1, queue 2: 156,443 states |
| `map_stream` | sequences and cursors, convergence of the viewer, spinning | 2 tiles, 2 poses, 3 merges, 1 move, history 1, bursts 2 and 1, 2 packets a tile: 336,621 states |
| `navigation` | anchored goals, enough and bounded attempts, hold, snapshots | 1 request, 2 attempts, history 2, look 2, TTL 0, 2 snapshots, path 2: 1,486,393 states |
| `media_gateway` | which restarts happen, what is served, that the stream returns, which sessions the clean-up spares and ends | 2 cameras (1 can be held), 2 offline polls, back-off 2, always on, 1 session, 1 handler, timeout 3, sleep 1, stall 1, round 1: 614,958 states |

Why the bounds are enough. Races here need two parties: two requests, or a request and the
publisher thread; a third thread adds only a second bystander. The lease's times keep the order
of the shipped 3 s and 0.35 s, with room for a stalled request between them. A client limit of
one makes two clients an overflow, three token pairs allow a refresh of each client or two of
one, and lifetimes of 1 quantum for nonces and access tokens, 2 for clients without use and 4 for
refresh tokens let each run out within 5 while the others live or not. Three heights give ramps
with a middle, targets at, below and above the disarm height, and out-of-range requests. A queue
of two overflows to two publishers. Two tiles with a visible limit of one and a retention limit
of two give a tile that is retained and hidden, and a removal history of one forgets; three
merges fill, empty and refill a tile, and one move changes what is visible. Two attempts are the
last and one before it; a TTL of nothing expires a snapshot while its creator or reader stalls,
and two places in the store let a read one shield another. Two cameras, one of which can be held
by mediamtx itself, are a change of device; two offline polls are one that waits and one that
acts. A timeout of 3 is a client's interval of 1 and two stalls; a round and a sleep of one
quantum each let sessions age before the listing, between it and a close, and asleep. The
on-demand publisher is covered by the proofs; the run passes with it too. The other shapes (more
clients, requests, tiles, cameras) are covered by the proofs, which have no bounds.

Findings (each is a violation run, with the quoted line in `PROJECT.json`): the check-then-act
races of `input`/`heartbeat`/`release` and of the neutral-only gate; the revocation undone by a
refresh in flight; the client limit that does not bound clients in use; the queued takeoff.

Fairness. `manual_control` assumes time passes, the publisher's loop goes on, and a request that
has begun finishes: threads are preemptively scheduled and no section waits for anything but the
lock. `flight_commands` assumes only that the thread under the lock runs on, that is, streams
end (they are bounded by the monotonic clock) and MAVROS calls return. `state_feed` assumes that
time passes, the threads run on and a connected client reads, and, strongly, that the state is
found changed again and again: `gatewayUptimeSec` is a part of it. `map_stream` assumes that the
connection's coroutine runs on; `media_gateway`, that the poller's thread does, as long as it
lives. `navigation` assumes nothing. No run assumes that the vehicle, ROS, mediamtx or a camera
does anything; the liveness properties say under which circumstances they hold.

Properties no run checks. `ClocksAgree` is what `LeaseRunsOut` rests on; `SessionsSaved` what
`SessionsKept` rests on; `OneSession` and
`NoTokenResurrection` say of one state what `ImplementsCredentials` says of whole behaviours.
`PrunedToLimit`, `FlushAdvances`, `ServesOnwards` and `PollsAdvance` explain a finding or a liveness
property that a run checks; `ViewerNeverGoesBack` and `WithinLimits` need more tiles and merges to
fail than the run has. All are proved, for all constants.

### What the modelling showed

Behaviours of the code that no doc or test contradicts, so that they are no findings, and that
the properties are stated around:

- A removal queued while packets of the same tile are still going out overtakes them: the viewer
  shows a tile the cursor no longer knows, until the tile changes again (`ShownIsAccounted`,
  `ViewerConverges` except for overtaken tiles).
- An updated tile that the viewer retains but the visible set leaves out has no point budget:
  nothing is built, the cursor does not move, and `flush_map_stream` finds it again at once. The
  connection is not read until the visible set changes. `SpinsOnHiddenOnly` shows that this is the only
  way a stream keeps from its client.
- A tile emptied and refilled in one merge is filtered from the updated ones, listed as removed,
  and has points but no sequence; viewers are sent it with its next update.
- A snapshot that has been read moves behind younger ones, where the TTL trim does not look; it
  may be served long after its TTL, which `UnreadServedFresh` says of unread ones only.
- Grounding may take 20 s and the odometry history is 10 s: of an answer later than that every one
  of the 40 attempts is futile (`LastAttemptFinds` has the history as its premise).
- A camera found after polls without any, or within the back-off of a restart, is recorded in
  `selected_device` without a restart. In on-demand mode mediamtx then serves another device than
  the one reported until something else restarts it (`FollowsSelection` states these two ways as
  the only ones).
- A camera held by mediamtx itself with a fallback that is ready makes one unhealthy check flip the
  selection and restart at once, without the count (`HealthyIsKept`).
- Without a change between two evaluations a client whose snapshot saw a readiness that was undone
  is not told; only the uptime in the state makes it converge (`ClientLearns`).
- `lastSeenAt` is not saved when a token is validated: a restart takes a client for stale up to the
  life of an access token too early. A crash between the two sections of a refresh costs the
  session: the old token is gone from the file and the new one was never handed out, and the app
  has to pair again. `SessionsKept` names both (`CrashMayLose`) and shows that there is no third.
- Dense clouds are judged by a time read before their points are extracted without the lock, and
  that time is stored: merges can be closer than `denseToMapMinIntervalSec` by what an extraction
  takes (app.py 711, 722, 738), so no property claims the interval.
- A session can outlive its timeout by as long as the clean-up takes to come round: the lock, every
  close before it and the sleep after them. `OldSessionsEnd` says only that a round ends what was
  over when it began.
- The client limit bounds what a prune leaves only up to the clients that hold a token
  (`PrunedToLimit` is what holds; `PairedLimit`, the documented limit, does not).
- The removal sequences a cursor has taken note of (`known_removed_sequences`, app.py 1568) are not
  dropped while the connection lasts; `WithinLimits` is about the tiles a cursor knows.
- Voxels of dense clouds (0.055 m) and of keyframes (0.045 m) are keyed on grids of their own in
  one cache; this is below the grain of `TileMap`.

## 5. Proofs

TLAPS proves, for all values of the constants within the modules' assumptions:

- `ManualControl_proofs`: `TypeOK`, `LeaseConsistent`, `ClocksAgree`, `LeaseRunsOut`,
  `DeadmanNeutral`, `NeutralBeforeTimeout`, `ImplementsLease`. The assumption is `TimingOK`: the
  input timeout is at least the longest stall, and with the stall and one period stays below the
  lease's ttl. The inductive invariant adds what a request's captured stamp says about
  the lease it may still write to, and what the publisher thread last published for a given age
  of the input: without these a late write, or a publish between two quanta, could break the
  dead man's switch. The refinement follows from its part about leases, one step per action.
- `PairingAuth_proofs`: `TypeOK`, `TokensOfPaired`, `OneSession`, `NoTokenResurrection`,
  `SessionsSaved`, `SessionsKept`, `SessionEndIsFinal`, `ImplementsCredentials`, `PrunedToLimit`. The
  inductive invariant adds: what requests in flight carry, that a nonce not yet consumed, a registering thread
  and a held token exclude each other, and that tokens gone from memory are gone from the file or
  will be pruned from it. The refinement needs one part more, `FileOK`: a restart may accept only
  what was accepted before it, so whatever the file accepts and memory does not is already gone.
  `SessionsKept` needs `UseSavedOK`: every use the file does not know of was made with an access token handed out after
  the file was last told.
- `FlightCommands_proofs`: `TypeOK`, `LeftInOffboardByFaultOnly`, `SetpointSteady`,
  `LandingNeverClimbs`, `WindsDown`, and that a command is `MaxHeight + 4` of its steps long at most
  (`CommandsAreShort`). The inductive invariant ties each thread's place to the lock
  (`LockOK`), and a landing's setpoint to its target (`LandOK`).
- `OffboardReadiness_proofs`, `StateFeed_proofs`: `ReadyIsRecent`, for the component and, by
  refinement, for the composition; `TypeOK`; `NewestQueued`; `ServesOnwards`. The latch's invariant
  follows how old the telemetry can be that each thread in its judgement, a running hold and the
  broadcaster's next evaluation still stand for. The queue's invariant says where the newest state is
  while a publisher works through its list, and that the room it made may be taken by another.
- `MapStream_proofs`: `TypeOK`, `SequencesAgree`, `CursorHonest`,
  `ShownIsAccounted`, `ViewerNeverGoesBack`, `FlushAdvances`, `WithinLimits`. The invariant adds that
  nothing is queued while a build is awaited, and that queued packets are known to the cursor or
  overtaken.
- `Navigation_proofs`: `TypeOK`, `GoalAnchored`, `HoldRecent`, `LastAttemptFinds`, `PictureInTime`,
  `UnreadServedFresh`. The invariant orders the histories of odometry, readings in transit and
  unread snapshots, says that the vehicle's places lie on its one way (so that an interpolated
  position is off by no more than was flown between two samples), and what a request in each step
  knows of its picture.
- `MediaGateway_proofs`: `TypeOK`, `HealthyIsKept`, `FollowsSelection`, `SessionsLive`,
  `OldSessionsEnd`, `PollsAdvance`. The pipeline's invariant relates the offline counter to the unhealthy checks in a
  row; the sessions' bounds the age of a session by its client's last request or a renewal under way
  (`Kept`), and that of every session a closing round spares by the time since its look at the
  clock (`Aging`). That a client asks at least every `Keep`, a timeout less two stalls, is a premise
  of `SessionsLive` and not an assumption: a client that waits longer once is promised nothing.

Each proof is the same argument: the invariant holds initially, every action keeps it (one step
per action), and it implies the property; action properties follow from the invariant and the
step. TLC checked the strengthened invariants before they were proved.

Only model-checked: the liveness properties (liveness under fairness and ENABLED are out of the
prover's reach). Of each, the part that is safety is proved: that the steps which fairness
guarantees make a rank smaller, or that time does, and that nobody else makes it larger. What stays
with TLC is that those steps are enabled and therefore taken.

| liveness, checked by TLC | what it rests on, proved |
|---|---|
| `LeaseFreed` | `LeaseRunsOut`: once the publisher thread has run in a quantum, whoever holds a lease was in contact within the ttl |
| `LockComesFree` | `WindsDown`, `CommandsAreShort`: each step of the command under the lock lowers `Remaining`, which is bounded, and others do not change it |
| `ClientLearns` | `ServesOnwards`: each step of a publisher brings its publication nearer to its end; `NewestQueued`: the newest state is not lost on the way |
| `ViewerConverges`, `SpinsOnHiddenOnly` | `FlushAdvances`: each turn of a flush uses up its burst or its tiles, but for the build of a tile the visible set leaves out |
| `PublisherReturns` | `PollsAdvance`: with a camera that works, each step of the poller finds mediamtx answering or brings it nearer to starting it |

For `FlushAdvances` and `PollsAdvance` the rank is lexicographic and only the one thread's steps
are looked at: a change of the map, or of mediamtx or a camera, may begin the work anew, and the
liveness properties have those circumstances as their premises.

Not modelled: the components listed as such in `PROJECT.json`, each with its reason. The
pointcloud-gateway's pose, planner and live streams and its watchdog overwrite one value and its
time; health, pollers, discovery and HTTP routing report or dispatch; the vision services, the
time base, the pose bridge, the EKF, the planner bridge and the calibration tools are numeric;
shell scripts supervise containers; the rest of the tree (EGO planner, MAVLink, MAVROS, FAST-LIO,
Livox SDK) is third-party code. Of the modelled components formatting, logging, HTTP parsing and
the geometry of `NavigationController` are left out.
