----------------------------- MODULE Navigation -----------------------------
(***************************************************************************)
(* NavigationController of docker/control-gateway/app.py over the          *)
(* observation store of docker/pointcloud-gateway/app.py: requests to fly  *)
(* to something seen in a picture (ground-and-plan, pixel-and-plan), to    *)
(* preview such a goal, to publish a previewed one and to hold position.   *)
(* A picture's goal is relative to where the vehicle was when it was       *)
(* taken; the store knows that only once odometry from both sides of the   *)
(* picture has arrived, so the request asks again until it does.           *)
(***************************************************************************)
EXTENDS Integers, Sequences

CONSTANTS
    Requests, History, Ttl, Limit, MaxPoseDt, OdomDelay, MaxStall, Path, AgeCap, NoSnapshot,
    Modes,        \* values of TYI_OPERATION_MODE
    Attempts,     \* how often a snapshot is asked for
    LookTimeout,  \* the longest wait for the depth query or the grounding
    PlannerWait,  \* plannerReadyTimeoutSec
    OdomMaxAge,   \* odomMaxAgeSec
    Nothing       \* no goal, no picture, no odometry

VARIABLES place, sampled, transit, odom, snaps, making   \* of Observations

VARIABLES
    mode,      \* operationMode.mode, fixed by the environment of the container
    localAge,  \* the age of latest_local_odom, or Nothing
    request    \* what each client's request is doing, or the goal its preview showed

store == <<place, sampled, transit, odom, snaps, making>>
control == <<mode, localAge, request>>
vars == <<place, sampled, transit, odom, snaps, making, mode, localAge, request>>

Obs == INSTANCE Observations

\* The longest way of a picture until its position is known or given up.
PictureBound == LookTimeout + Attempts - 1 + (Attempts + 1) * MaxStall

\* As shipped: 40 attempts, 0.05 s apart, outlast the odometry's delay.
ASSUME NavigationAssumption ==
    /\ Obs!ObservationsAssumption
    /\ LookTimeout \in Nat /\ OdomMaxAge \in Nat /\ PlannerWait \in Nat \ {0}
    /\ Attempts \in Nat /\ OdomDelay < Attempts - 1
    /\ AgeCap > PictureBound + MaxPoseDt
    /\ Nothing \notin Nat /\ Nothing \notin [from : {"picture", "odometry"}, off : Nat]
    /\ Nothing \notin [age : Nat, place : 0..Path, sampled : BOOLEAN]

Pictured == {"plan", "preview"}
Idle == [step |-> "idle", kind |-> "none", timer |-> 0, tries |-> 0,
         shot |-> Nothing, goal |-> Nothing]

AtRest == {"idle", "shown"}   \* the client's turn

LocalCap == OdomMaxAge + 1
HoldBound == OdomMaxAge + PlannerWait + 2 * MaxStall - 1

\* A goal from a picture is off by as many places as the vehicle's position was mistaken;
\* one from odometry by as many quanta as the position is old.
Goals == [from : {"picture", "odometry"}, off : Nat]

\* How long a request stays in a step.
Patience(step) ==
    CASE step = "look" -> LookTimeout
      [] step = "wait" -> PlannerWait
      [] step = "pause" -> 1
      [] OTHER -> MaxStall

Init ==
    /\ Obs!Init
    /\ mode \in Modes
    /\ localAge = Nothing
    /\ request = [r \in Requests |-> Idle]

\* r goes on to a step.
Goes(r, step) == [request EXCEPT ![r].step = step, ![r].timer = 0]
Ends(r) == request' = [request EXCEPT ![r] = Idle]

----------------------------------------------------------------------------
\* The beginning of a request

\* _ensure_planner_goal_publish_allowed.
MayPublish == mode = "flight"

\* plan_to_pixel, plan_to_instruction and their previews: the picture is taken and looked at.
Look(r, kind) ==
    /\ request[r].step = "idle"
    /\ kind = "plan" => MayPublish
    /\ request' = [request EXCEPT ![r] =
                     [Idle EXCEPT !.step = "look", !.kind = kind,
                                  !.shot = [age |-> 0, place |-> place, sampled |-> sampled]]]
    /\ UNCHANGED <<store, mode, localAge>>

\* publish_goal_world: the client sends back the goal it was shown.
PublishPreview(r) ==
    /\ request[r].step = "shown" /\ MayPublish
    /\ request' = Goes(r, "goal")
    /\ UNCHANGED <<store, mode, localAge>>

\* Or it gives that goal up.
Forget(r) ==
    /\ request[r].step = "shown"
    /\ Ends(r)
    /\ UNCHANGED <<store, mode, localAge>>

\* Mutant: any odometry will do, however old.
OdomEver == localAge # Nothing

\* _current_local_odom.
OdomUsable == localAge # Nothing /\ localAge <= OdomMaxAge

\* hold_position.
Hold(r) ==
    /\ request[r].step = "idle" /\ MayPublish
    /\ OdomUsable
    /\ request' = [request EXCEPT ![r] = [Idle EXCEPT !.step = "goal",
                                        !.goal = [from |-> "odometry", off |-> localAge]]]
    /\ UNCHANGED <<store, mode, localAge>>

----------------------------------------------------------------------------
\* The position of the picture

\* The depth or the grounding comes, and is accepted.
Seen(r) ==
    /\ request[r].step = "look"
    /\ request' = Goes(r, "attempt")
    /\ UNCHANGED <<store, mode, localAge>>

\* POST /v1/observation-snapshots finds the position, and a cloud close enough.
Attempt(r) ==
    /\ request[r].step = "attempt"
    /\ Obs!Judge(r, request[r].shot.age)
    /\ request' = Goes(r, "making")
    /\ UNCHANGED <<mode, localAge>>

\* Mutant: the next attempt follows at once.
RetryAtOnce(r) ==
    /\ request[r].step = "attempt" /\ request[r].tries < Attempts - 1
    /\ request' = [request EXCEPT ![r].tries = @ + 1]
    /\ UNCHANGED <<store, mode, localAge>>

\* Mutant: attempts are not counted.
RetryForEver(r) ==
    /\ request[r].step = "attempt"
    /\ odom # <<>>
    /\ request' = Goes(r, "pause")
    /\ UNCHANGED <<store, mode, localAge>>

\* POSE_NOT_BRACKETED, or POINTCLOUD_TOO_FAR when the position was found: sleep, ask again.
Retry(r) ==
    /\ request[r].step = "attempt" /\ request[r].tries < Attempts - 1
    /\ odom # <<>>
    /\ request' = [Goes(r, "pause") EXCEPT ![r].tries = @ + 1]
    /\ UNCHANGED <<store, mode, localAge>>

Resume(r) ==
    /\ request[r].step = "pause" /\ request[r].timer = 1
    /\ request' = Goes(r, "attempt")
    /\ UNCHANGED <<store, mode, localAge>>

\* Mutant: the position of now, not of the picture.
GoalNow(r) == [from |-> "picture", off |-> place - request[r].shot.place]

Distance(a, b) == IF a < b THEN b - a ELSE a - b

\* _build_goal_from_relative_vector with the snapshot's pose.
GoalOf(r) == [from |-> "picture", off |-> Distance(making[r][2], request[r].shot.place)]

\* The snapshot is stored; its answer makes the goal, which a preview shows and a plan publishes.
Anchor(r) ==
    /\ request[r].step = "making"
    /\ Obs!Store(r)
    /\ request' = [request EXCEPT ![r] =
                     [Idle EXCEPT !.step = IF request[r].kind = "plan" THEN "goal" ELSE "shown",
                                  !.goal = GoalOf(r)]]
    /\ UNCHANGED <<mode, localAge>>

\* The snapshot is stored but its answer is lost.
AnswerLost(r) ==
    /\ request[r].step = "making"
    /\ Obs!Store(r)
    /\ Ends(r)
    /\ UNCHANGED <<mode, localAge>>

----------------------------------------------------------------------------
\* Publication

\* _ensure_goal_publisher.
HavePublisher(r) ==
    /\ request[r].step = "goal"
    /\ request' = Goes(r, "wait")
    /\ UNCHANGED <<store, mode, localAge>>

\* _wait_for_planner finds the planner connected.
Linked(r) ==
    /\ request[r].step = "wait" /\ request[r].timer < PlannerWait
    /\ request' = Goes(r, "publish")
    /\ UNCHANGED <<store, mode, localAge>>

\* _publish_goal.
Publish(r) ==
    /\ request[r].step = "publish"
    /\ Ends(r)
    /\ UNCHANGED <<store, mode, localAge>>

\* An error ends the request: of the depth query, the grounding or their timeout; of the
\* snapshot that cannot be had; of ROS; PLANNER_UNAVAILABLE.
Fail(r) ==
    /\ \/ request[r].step \in {"look", "attempt", "goal"}
       \/ request[r].step = "wait" /\ request[r].timer = PlannerWait
    /\ Ends(r)
    /\ UNCHANGED <<store, mode, localAge>>

Proceed(r) ==
    \/ Seen(r) \/ Attempt(r) \/ Retry(r) \/ Resume(r) \/ Anchor(r) \/ AnswerLost(r)
    \/ HavePublisher(r) \/ Linked(r) \/ Publish(r) \/ Fail(r)

Begin(r) ==
    \/ \E kind \in Pictured : Look(r, kind)
    \/ PublishPreview(r) \/ Forget(r) \/ Hold(r)

----------------------------------------------------------------------------
\* The rest

\* The store's other callers: the odometry callback, and those that read and trim.
Ingest == Obs!Ingest /\ UNCHANGED control

Trim ==
    /\ Obs!Trim \/ \E i \in 0..Limit, lag \in 0..MaxStall : Obs!Get(i, lag)
    /\ UNCHANGED control

\* StateStore.update_local_odom.
LocalOdom ==
    /\ localAge' = 0
    /\ UNCHANGED <<store, mode, request>>

OlderGoal(g) == IF g # Nothing /\ g.from = "odometry" THEN [g EXCEPT !.off = @ + 1] ELSE g
OlderShot(s) == IF s = Nothing THEN s ELSE [s EXCEPT !.age = @ + 1]

Aged(q) ==
    IF q.step \in AtRest THEN q
    ELSE [q EXCEPT !.timer = @ + 1, !.goal = OlderGoal(@), !.shot = OlderShot(@)]

Tick ==
    /\ Obs!Tick
    /\ \A r \in Requests :
         request[r].step \notin AtRest => request[r].timer < Patience(request[r].step)
    /\ request' = [r \in Requests |-> Aged(request[r])]
    /\ localAge' = IF localAge = Nothing THEN Nothing ELSE Obs!AtMost(LocalCap, localAge + 1)
    /\ UNCHANGED mode

Next ==
    \/ \E r \in Requests : Begin(r) \/ Proceed(r)
    \/ Ingest \/ Trim \/ LocalOdom \/ Tick

Spec == Init /\ [][Next]_vars

----------------------------------------------------------------------------
\* Properties

\* Type invariant.
TypeOK ==
    /\ Obs!TypeOK
    /\ mode \in Modes
    /\ localAge \in 0..LocalCap \cup {Nothing}
    /\ request \in [Requests ->
         [step : {"idle", "look", "attempt", "pause", "making", "shown", "goal", "wait",
                  "publish"},
          kind : {"none"} \cup Pictured,
          timer : 0..(LookTimeout + PlannerWait + MaxStall + 1), tries : 0..(Attempts - 1),
          shot : [age : Nat, place : 0..Path, sampled : BOOLEAN] \cup {Nothing},
          goal : Goals \cup {Nothing}]]

\* get_observation_snapshot: no snapshot is served to its first reader long after its TTL.
UnreadServedFresh == Obs!UnreadServedFresh

Pending == {"look", "attempt", "pause", "making"}

\* However far the vehicle flies while its picture is looked at, its position is waited for
\* and its goal is previewed, the goal is where the target is, but for what a vehicle can fly
\* in maxPoseDtSec; and outside flight mode none is published.
GoalAnchored ==
    \A r \in Requests :
        /\ request[r].goal # Nothing /\ request[r].goal.from = "picture"
             => request[r].goal.off <= MaxPoseDt
        /\ request[r].step = "publish" => mode = "flight"

\* hold_position checks odometry before it waits for the planner: what it publishes is where
\* the vehicle was no more than odomMaxAgeSec, the wait and two stalls before.
HoldRecent ==
    \A r \in Requests :
        request[r].step = "publish" /\ request[r].goal.from = "odometry"
            => request[r].goal.off <= HoldBound

\* The attempts are enough: if odometry was flowing when the picture was taken, and the
\* picture is not older than the history, the last attempt finds its position.
LastAttemptFinds ==
    \A r \in Requests :
        LET q == request[r]
        IN  q.step = "attempt" /\ q.tries = Attempts - 1 /\ q.shot.sampled
              /\ q.shot.age <= History
            => Obs!Bracketed(q.shot.age)

\* The attempts are bounded: no picture is worked on for longer, whatever the services, the
\* odometry and the clouds do.
PictureInTime ==
    \A r \in Requests :
        request[r].step \in Pending => request[r].shot.age <= PictureBound
=============================================================================
