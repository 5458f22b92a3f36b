--------------------------- MODULE FlightCommands ---------------------------
(***************************************************************************)
(* Takeoff, landing and hold of docker/control-gateway/app.py, class       *)
(* FlightCommandController.  Every command is an HTTP request on a thread  *)
(* of its own: it checks the operation mode and the vehicle's telemetry,   *)
(* remembers the local pose, waits for the controller's lock, and under it *)
(* streams position setpoints and calls MAVROS to change mode and to arm.  *)
(*                                                                         *)
(* Heights are in units of a ramp step.  The lateral position is kept from *)
(* the remembered pose throughout, so a setpoint is a height.  Times and   *)
(* speeds only stretch a stream, and are left out, as are refused requests;*)
(* the checks of a request read the telemetry of one moment.               *)
(* The vehicle (PX4 behind MAVROS) and the ROS collector's view of it are  *)
(* external: any call may be refused, or fail with or without its effect.  *)
(***************************************************************************)
EXTENDS Integers

CONSTANTS
    Handlers,          \* HTTP request threads that can be in flight at once
    NoHandler,         \* the lock is free
    MaxHeight,         \* bound: the highest the vehicle and a payload's target go
    MinAltitude, MaxAltitude,   \* minTakeoffAltitudeM, maxTakeoffAltitudeM
    DisarmHeight,      \* landingDisarmAltitudeM
    FlightAllowed      \* _ensure_flight_command_allowed: flight mode, or not required

ASSUME ConstantsOK ==
    /\ NoHandler \notin Handlers
    /\ MaxHeight \in Nat /\ MinAltitude \in Nat /\ MaxAltitude \in Nat /\ DisarmHeight \in Nat
    /\ MinAltitude <= MaxAltitude /\ MaxAltitude <= MaxHeight
    /\ FlightAllowed \in BOOLEAN

VARIABLES
    lock,      \* self.lock
    cmd,       \* the command threads
    setpoint,  \* the last setpoint the command under the lock published, or NoStream
    fcu,       \* external: the vehicle
    seen,      \* store: latest_flight and the local pose, as old as they may be
    fault      \* ghost: since the lock was last taken a call was refused or failed, a
               \* stream broke, or someone else changed the vehicle's mode or arming

vars == <<lock, cmd, setpoint, fcu, seen, fault>>

NoStream == -1
Heights == 0..MaxHeight
Payloads == -1..(MaxHeight + 1)    \* heights a request may ask for
Idle == [pc |-> "idle", kind |-> "hold", start |-> 0, target |-> 0]
Modes == {"MANUAL", "OFFBOARD", "AUTO.LOITER", "AUTO.LAND"}

\* Mutant: the upper limit is forgotten.
ClampLowOnly(v, low, high) == IF v < low THEN low ELSE v

\* _clamp_float
Clamp(v, low, high) == IF v < low THEN low ELSE IF v > high THEN high ELSE v

Init ==
    /\ lock = NoHandler
    /\ cmd = [h \in Handlers |-> Idle]
    /\ setpoint = NoStream
    /\ fcu = [mode |-> "MANUAL", armed |-> FALSE, z |-> 0]
    /\ seen = [armed |-> FALSE, landed |-> "UNDEFINED", z |-> 0]
    /\ fault = FALSE

----------------------------------------------------------------------------
\* The checks before the lock.  Connection, offboardReady and the pose's freshness may be
\* as required at any time.

Accept(h, kind, start, target) ==
    /\ FlightAllowed
    /\ cmd[h].pc = "idle"
    /\ cmd' = [cmd EXCEPT ![h] = [pc |-> "ready", kind |-> kind, start |-> start,
                                  target |-> target]]
    /\ UNCHANGED <<lock, setpoint, fcu, seen, fault>>

AcceptTakeoff(h) ==
    /\ seen.landed = "ON_GROUND"
    /\ \E altitude \in Payloads :
          Accept(h, "takeoff", seen.z, Clamp(altitude, MinAltitude, MaxAltitude))

\* Mutant: the landing target is not capped by the start.
LandTargetUncapped(target, start) == Clamp(target, 0, MaxHeight)

\* min(max(targetAltitudeMeters, 0), start_z_m)
LandTarget(target, start) == Clamp(target, 0, start)

AcceptLand(h) ==
    /\ seen.landed # "ON_GROUND"
    /\ \E target \in Payloads : Accept(h, "land", seen.z, LandTarget(target, seen.z))

\* On the ground or disarmed, hold answers at once and does nothing.
AcceptHold(h) ==
    /\ seen.landed # "ON_GROUND" /\ seen.armed
    /\ Accept(h, "hold", 0, 0)

----------------------------------------------------------------------------
\* Under the lock

\* Mutant: the lock is not waited for.
LockIgnored == TRUE

LockFree == lock = NoHandler

\* The stream begins with the remembered height, the vehicle's or not.
TakeLock(h) ==
    /\ cmd[h].pc = "ready" /\ LockFree
    /\ lock' = h
    /\ cmd' = [cmd EXCEPT ![h].pc = IF cmd[h].kind = "hold" THEN "loiter" ELSE "warmup"]
    /\ setpoint' = IF cmd[h].kind = "hold" THEN setpoint ELSE cmd[h].start
    /\ fault' = FALSE
    /\ UNCHANGED <<fcu, seen>>

\* A MAVROS call that would leave the vehicle at done: answered with success or without,
\* or broken off (no service, lost reply) after or before it took effect.
Call(done, reply) ==
    /\ fcu' \in (IF reply = "ok" THEN {done} ELSE IF reply = "refused" THEN {fcu}
                 ELSE {fcu, done})
    /\ fault' = (fault \/ reply # "ok")

SetMode(mode, reply) == Call([fcu EXCEPT !.mode = mode], reply)
Arming(value, reply) == Call([fcu EXCEPT !.armed = value], reply)
Replies == {"ok", "refused", "error"}

\* Mutant: a stream that breaks leaves with the lock held.
FinishKeepsLock(h) ==
    /\ cmd' = [cmd EXCEPT ![h] = Idle]
    /\ lock' = IF cmd[h].pc = "ramp" THEN lock ELSE NoHandler
    /\ setpoint' = NoStream

\* The command returns or raises: the stream ends and the lock is dropped.
Finish(h) ==
    /\ cmd' = [cmd EXCEPT ![h] = Idle]
    /\ lock' = NoHandler
    /\ setpoint' = NoStream

Continue(h, pc) ==
    /\ cmd' = [cmd EXCEPT ![h].pc = pc]
    /\ UNCHANGED <<lock, setpoint>>

\* OFFBOARD is asked for after the warmup stream; a landing that is refused it falls back
\* to AUTO.LAND.
Engage(h) ==
    /\ cmd[h].pc = "warmup"
    /\ \E reply \in Replies :
          /\ SetMode("OFFBOARD", reply)
          /\ \/ reply = "ok" /\ Continue(h, IF cmd[h].kind = "takeoff" THEN "arm" ELSE "ramp")
             \/ reply = "refused" /\ cmd[h].kind = "land" /\ Continue(h, "autoland")
             \/ reply = "refused" /\ cmd[h].kind = "takeoff" /\ Finish(h)
             \/ reply = "error" /\ Finish(h)
    /\ UNCHANGED seen

AutoLand(h) ==
    /\ cmd[h].pc = "autoland"
    /\ \E reply \in Replies : SetMode("AUTO.LAND", reply)
    /\ Finish(h)
    /\ UNCHANGED seen

\* A takeoff that fails to arm gives up where it is; nothing was armed as far as it knows.
Arm(h) ==
    /\ cmd[h].pc = "arm"
    /\ \E reply \in Replies :
          /\ Arming(TRUE, reply)
          /\ IF reply = "ok" THEN Continue(h, "ramp") ELSE Finish(h)
    /\ UNCHANGED seen

\* Mutant: the ramp only climbs.
TowardUp(z, target) == IF z # target THEN z + 1 ELSE z

Toward(z, target) == IF z < target THEN z + 1 ELSE IF z > target THEN z - 1 ELSE z

\* A landing to the ground disarms; every other ramp hands over to AUTO.LOITER.
AfterRamp(h) ==
    IF cmd[h].kind = "land" /\ cmd[h].target <= DisarmHeight THEN "disarm" ELSE "loiter"

\* _stream_vertical_ramp and the hold that settles it: by the clock, not by the vehicle.
Ramp(h) ==
    /\ cmd[h].pc = "ramp"
    /\ \/ /\ setpoint # cmd[h].target
          /\ setpoint' = Toward(setpoint, cmd[h].target)
          /\ UNCHANGED <<lock, cmd>>
       \/ /\ setpoint = cmd[h].target
          /\ Continue(h, AfterRamp(h))
    /\ UNCHANGED <<fcu, seen, fault>>

\* Publishing or sleeping raises.  Only a takeoff that has armed goes on to ask for
\* AUTO.LOITER; a landing, and the warmup, raise at once.
StreamBreaks(h) ==
    /\ cmd[h].pc \in {"warmup", "ramp"}
    /\ IF cmd[h].kind = "takeoff" /\ cmd[h].pc = "ramp"
       THEN Continue(h, "loiter") ELSE Finish(h)
    /\ fault' = TRUE
    /\ UNCHANGED <<fcu, seen>>

\* Mutant: only the hold command asks for AUTO.LOITER.
LoiterWithoutHandover(h) ==
    /\ cmd[h].pc = "loiter"
    /\ IF cmd[h].kind = "hold" THEN \E reply \in Replies : SetMode("AUTO.LOITER", reply)
       ELSE UNCHANGED <<fcu, fault>>
    /\ Finish(h)
    /\ UNCHANGED seen

\* set_mode AUTO.LOITER: the hand-over, a failed takeoff's cleanup, and the hold command.
\* Whatever the answer is, it is the command's last call.
Loiter(h) ==
    /\ cmd[h].pc = "loiter"
    /\ \E reply \in Replies : SetMode("AUTO.LOITER", reply)
    /\ Finish(h)
    /\ UNCHANGED seen

Disarm(h) ==
    /\ cmd[h].pc = "disarm"
    /\ \E reply \in Replies : Arming(FALSE, reply)
    /\ Finish(h)
    /\ UNCHANGED seen

----------------------------------------------------------------------------
\* The vehicle and what is seen of it

\* It flies to the streamed setpoint in OFFBOARD, sinks in AUTO.LAND or disarmed, and
\* stays otherwise.
Fly ==
    /\ fcu' = [fcu EXCEPT !.z =
                 IF ~fcu.armed \/ fcu.mode = "AUTO.LAND" THEN Toward(fcu.z, 0)
                 ELSE IF fcu.mode = "OFFBOARD" /\ setpoint # NoStream
                      THEN Toward(fcu.z, setpoint) ELSE fcu.z]
    /\ UNCHANGED <<lock, cmd, setpoint, seen, fault>>

\* The pilot, a PX4 failsafe, or another controller of the gateway (the manual-control
\* failsafe does not take this lock).
OthersAct ==
    /\ \E m \in Modes, a \in BOOLEAN : fcu' = [fcu EXCEPT !.mode = m, !.armed = a]
    /\ fault' = TRUE
    /\ UNCHANGED <<lock, cmd, setpoint, seen>>

\* The ROS collector's callbacks.
Telemetry ==
    /\ seen' = [armed |-> fcu.armed, z |-> fcu.z,
                landed |-> IF fcu.z = 0 THEN "ON_GROUND" ELSE "IN_AIR"]
    /\ UNCHANGED <<lock, cmd, setpoint, fcu, fault>>

Run(h) == Engage(h) \/ AutoLand(h) \/ Arm(h) \/ Ramp(h) \/ StreamBreaks(h) \/ Loiter(h)
          \/ Disarm(h)

Next ==
    \/ \E h \in Handlers : \/ AcceptTakeoff(h) \/ AcceptLand(h) \/ AcceptHold(h)
                           \/ TakeLock(h) \/ Run(h)
    \/ Fly \/ OthersAct \/ Telemetry

Spec == Init /\ [][Next]_vars

\* A thread that holds the lock runs on: its streams are bounded by the clock, and MAVROS
\* calls are taken to return.  Nothing else has to happen.
FairSpec == Spec /\ \A h \in Handlers : WF_vars(Run(h))

----------------------------------------------------------------------------
\* Properties

\* Type invariant.
TypeOK ==
    /\ lock \in Handlers \cup {NoHandler}
    /\ cmd \in [Handlers -> [pc : {"idle", "ready", "warmup", "arm", "ramp", "loiter",
                                   "autoland", "disarm"},
                             kind : {"takeoff", "land", "hold"},
                             start : Heights, target : Heights]]
    /\ setpoint \in Heights \cup {NoStream}
    /\ fcu \in [mode : Modes, armed : BOOLEAN, z : Heights]
    /\ seen \in [armed : BOOLEAN, landed : {"UNDEFINED", "ON_GROUND", "IN_AIR"}, z : Heights]
    /\ fault \in BOOLEAN

\* However commands overlap, two streams never mix: while setpoints are published they
\* move by a ramp step at most.
SetpointSteady ==
    [][setpoint # NoStream /\ setpoint' # NoStream
         => setpoint' - setpoint \in {-1, 0, 1}]_vars

\* A landing never commands a climb from where its stream began.
LandingNeverClimbs ==
    [][lock # NoHandler /\ cmd[lock].kind = "land" /\ setpoint # NoStream
         => setpoint' <= setpoint]_vars

\* An armed vehicle is left in OFFBOARD with nobody streaming only if a call or a stream
\* of the last command failed, or someone else put it there: every command that goes
\* through hands over or disarms.
LeftInOffboardByFaultOnly ==
    lock = NoHandler /\ fcu.mode = "OFFBOARD" /\ fcu.armed => fault

\* Success or exception, every command gives the lock back: a hold waits for the command
\* before it, never for ever.
LockComesFree == []<>(lock = NoHandler)

\* How many steps of its own a command is from giving the lock back, at most.
Remaining(h) ==
    LET gap == IF setpoint < cmd[h].target THEN cmd[h].target - setpoint
               ELSE setpoint - cmd[h].target
    IN  CASE cmd[h].pc = "warmup" -> MaxHeight + 4
          [] cmd[h].pc = "arm" -> MaxHeight + 3
          [] cmd[h].pc = "ramp" -> gap + 2
          [] cmd[h].pc \in {"loiter", "autoland", "disarm"} -> 1
          [] OTHER -> 0

\* What LockComesFree rests on: whatever is answered, refused or broken off, each step of the
\* command under the lock brings it nearer to its end, and nothing that others do, to the
\* vehicle or to the telemetry, takes it further from it.
WindsDown ==
    [][\A h \in Handlers : lock = h /\ lock' = h =>
          IF Run(h) THEN Remaining(h)' < Remaining(h) ELSE Remaining(h)' = Remaining(h)]_vars

\* "takeoff requires landedState=ON_GROUND": no takeoff begins its stream with a vehicle
\* that the gateway sees airborne.
TakeoffOnGround ==
    [][\A h \in Handlers : TakeLock(h) /\ cmd[h].kind = "takeoff" => seen.landed = "ON_GROUND"]_vars
=============================================================================
