----------------------- MODULE FlightCommands_proofs -----------------------
(***************************************************************************)
(* Proofs about FlightCommands, for any threads, heights and limits: types,*)
(* the exclusion of setpoint streams, and how a command leaves the vehicle.*)
(***************************************************************************)
EXTENDS FlightCommands, TLAPS

\* A thread past TakeLock and before Finish is the one that holds the lock, and only it
\* has published a setpoint.
LockOK ==
    /\ \A h \in Handlers : cmd[h].pc \notin {"idle", "ready"} <=> lock = h
    /\ lock = NoHandler => setpoint = NoStream
    /\ \A h \in Handlers : cmd[h].pc \in {"warmup", "arm", "ramp"} => setpoint # NoStream

\* A landing ends below its start, and has not gone below its end.
LandOK ==
    /\ \A h \in Handlers : cmd[h].kind = "land" => cmd[h].target <= cmd[h].start
    /\ \A h \in Handlers : lock = h /\ cmd[h].kind = "land" => cmd[h].target <= setpoint

IInv == TypeOK /\ LockOK /\ LandOK /\ LeftInOffboardByFaultOnly

----------------------------------------------------------------------------
\* Helpers

\* A clamped value stays within limits that are in order.
LEMMA ClampFacts ==
    ASSUME NEW v \in Int, NEW low \in Int, NEW high \in Int, low <= high
    PROVE  Clamp(v, low, high) \in low..high
BY DEF Clamp

\* A ramp step is a step, stays between the two heights, and reaches no further than the target.
LEMMA TowardFacts ==
    ASSUME NEW z \in Heights, NEW target \in Heights
    PROVE  /\ Toward(z, target) \in Heights /\ Toward(z, target) - z \in {-1, 0, 1}
           /\ target <= z => target <= Toward(z, target) /\ Toward(z, target) <= z
BY ConstantsOK DEF ConstantsOK, Toward, Heights

\* A call only changes what it is for: the mode,
LEMMA SetModeType ==
    ASSUME NEW mode \in Modes, NEW reply \in Replies, TypeOK, SetMode(mode, reply)
    PROVE  fcu' \in [mode : Modes, armed : BOOLEAN, z : Heights] /\ fault' \in BOOLEAN
<1>1. [fcu EXCEPT !.mode = mode] \in [mode : Modes, armed : BOOLEAN, z : Heights]
    BY DEF TypeOK
<1>2. fcu \in [mode : Modes, armed : BOOLEAN, z : Heights] /\ fault \in BOOLEAN
    BY DEF TypeOK
<1> QED
    BY <1>1, <1>2 DEF SetMode, Call

\* or the arming.
LEMMA ArmingType ==
    ASSUME NEW value \in BOOLEAN, NEW reply \in Replies, TypeOK, Arming(value, reply)
    PROVE  fcu' \in [mode : Modes, armed : BOOLEAN, z : Heights] /\ fault' \in BOOLEAN
<1>1. [fcu EXCEPT !.armed = value] \in [mode : Modes, armed : BOOLEAN, z : Heights]
    BY DEF TypeOK
<1>2. fcu \in [mode : Modes, armed : BOOLEAN, z : Heights] /\ fault \in BOOLEAN
    BY DEF TypeOK
<1> QED
    BY <1>1, <1>2 DEF Arming, Call

\* A thread that goes on keeps the lock, its command and the stream.
LEMMA ContinueFacts ==
    ASSUME NEW h \in Handlers, NEW pc \in {"arm", "ramp", "loiter", "autoland", "disarm"},
           IInv, lock = h, Continue(h, pc), pc \in {"arm", "ramp"} => setpoint # NoStream
    PROVE  /\ LockOK' /\ LandOK' /\ lock' = h /\ setpoint' = setpoint
           /\ cmd' \in [Handlers -> [pc : {"idle", "ready", "warmup", "arm", "ramp", "loiter",
                                           "autoland", "disarm"},
                                     kind : {"takeoff", "land", "hold"},
                                     start : Heights, target : Heights]]
<1>1. lock' = h /\ setpoint' = setpoint /\ cmd' = [cmd EXCEPT ![h].pc = pc]
    BY DEF Continue
<1>2. /\ \A g \in Handlers \ {h} : cmd'[g] = cmd[g]
      /\ cmd'[h].pc = pc /\ cmd'[h].kind = cmd[h].kind
      /\ cmd'[h].start = cmd[h].start /\ cmd'[h].target = cmd[h].target
    BY <1>1 DEF IInv, TypeOK
<1>3. LockOK'
    BY <1>1, <1>2 DEF IInv, LockOK
<1>4. LandOK'
    BY <1>1, <1>2 DEF IInv, LandOK
<1>5. cmd' \in [Handlers -> [pc : {"idle", "ready", "warmup", "arm", "ramp", "loiter",
                                   "autoland", "disarm"},
                             kind : {"takeoff", "land", "hold"},
                             start : Heights, target : Heights]]
    BY <1>1 DEF IInv, TypeOK
<1> QED
    BY <1>1, <1>3, <1>4, <1>5

\* A thread that finishes leaves no lock, no command and no stream.
LEMMA FinishFacts ==
    ASSUME NEW h \in Handlers, IInv, lock = h, Finish(h)
    PROVE  /\ LockOK' /\ LandOK' /\ lock' = NoHandler /\ setpoint' = NoStream
           /\ cmd' \in [Handlers -> [pc : {"idle", "ready", "warmup", "arm", "ramp", "loiter",
                                           "autoland", "disarm"},
                                     kind : {"takeoff", "land", "hold"},
                                     start : Heights, target : Heights]]
<1>1. lock' = NoHandler /\ setpoint' = NoStream /\ cmd' = [cmd EXCEPT ![h] = Idle]
    BY DEF Finish
<1>2. Idle \in [pc : {"idle", "ready", "warmup", "arm", "ramp", "loiter", "autoland", "disarm"},
                kind : {"takeoff", "land", "hold"}, start : Heights, target : Heights]
    BY ConstantsOK DEF ConstantsOK, Idle, Heights
<1>3. \A g \in Handlers : cmd'[g] = IF g = h THEN Idle ELSE cmd[g]
    BY <1>1 DEF IInv, TypeOK
<1>4. /\ Idle.pc = "idle" /\ Idle.kind = "hold"
      /\ \A g \in Handlers : lock' # g
    BY <1>1, ConstantsOK DEF ConstantsOK, Idle
<1>5. LockOK'
    BY <1>1, <1>3, <1>4 DEF IInv, LockOK
<1>6. LandOK'
    BY <1>3, <1>4 DEF IInv, LandOK
<1>7. cmd' \in [Handlers -> [pc : {"idle", "ready", "warmup", "arm", "ramp", "loiter",
                                   "autoland", "disarm"},
                             kind : {"takeoff", "land", "hold"},
                             start : Heights, target : Heights]]
    BY <1>1, <1>2 DEF IInv, TypeOK
<1> QED
    BY <1>1, <1>5, <1>6, <1>7

----------------------------------------------------------------------------
\* The steps

\* A step that ends or goes on with the command under the lock keeps the invariant, if the
\* vehicle stays well typed and is not left armed in OFFBOARD without a fault.
LEMMA CommandStep ==
    ASSUME NEW h \in Handlers, IInv, cmd[h].pc \notin {"idle", "ready"}, UNCHANGED seen,
           fcu' \in [mode : Modes, armed : BOOLEAN, z : Heights], fault' \in BOOLEAN,
           \/ /\ Finish(h)
              /\ fault' \/ fcu'.mode # "OFFBOARD" \/ ~fcu'.armed
           \/ /\ \E pc \in {"arm", "ramp", "loiter", "autoland", "disarm"} :
                    Continue(h, pc) /\ (pc \in {"arm", "ramp"} => setpoint # NoStream)
    PROVE  IInv'
<1>1. lock = h
    BY DEF IInv, LockOK
<1>2. CASE Finish(h) /\ (fault' \/ fcu'.mode # "OFFBOARD" \/ ~fcu'.armed)
    <2>1. LockOK' /\ LandOK' /\ lock' = NoHandler /\ setpoint' = NoStream
        BY <1>1, <1>2, FinishFacts
    <2>2. TypeOK'
        BY <1>1, <1>2, FinishFacts DEF TypeOK, IInv
    <2> QED
        BY <1>2, <2>1, <2>2 DEF IInv, LeftInOffboardByFaultOnly
<1>3. ASSUME NEW pc \in {"arm", "ramp", "loiter", "autoland", "disarm"},
             Continue(h, pc), pc \in {"arm", "ramp"} => setpoint # NoStream
      PROVE  IInv'
    <2>1. LockOK' /\ LandOK' /\ lock' = h /\ setpoint' = setpoint
        BY <1>1, <1>3, ContinueFacts
    <2>2. TypeOK'
        BY <1>1, <1>3, ContinueFacts DEF TypeOK, IInv
    <2>3. h # NoHandler
        BY ConstantsOK DEF ConstantsOK
    <2> QED
        BY <2>1, <2>2, <2>3 DEF IInv, LeftInOffboardByFaultOnly
<1> QED
    BY <1>2, <1>3

\* A request that passes its checks waits with a start and a target in range.
LEMMA AcceptStep ==
    ASSUME NEW h \in Handlers, NEW kind \in {"takeoff", "land", "hold"},
           NEW start \in Heights, NEW target \in Heights, IInv,
           kind = "land" => target <= start, Accept(h, kind, start, target)
    PROVE  IInv'
<1>1. /\ cmd[h].pc = "idle" /\ UNCHANGED <<lock, setpoint, fcu, seen, fault>>
      /\ cmd' = [cmd EXCEPT ![h] = [pc |-> "ready", kind |-> kind, start |-> start,
                                    target |-> target]]
    BY DEF Accept
<1>2. \A g \in Handlers : cmd'[g] = IF g = h THEN [pc |-> "ready", kind |-> kind,
                                                   start |-> start, target |-> target]
                                    ELSE cmd[g]
    BY <1>1 DEF IInv, TypeOK
<1>3. /\ cmd'[h].pc = "ready" /\ cmd'[h].kind = kind
      /\ cmd'[h].start = start /\ cmd'[h].target = target
    BY <1>2
<1>4. LockOK'
    BY <1>1, <1>2, <1>3 DEF IInv, LockOK
<1>5. LandOK'
    BY <1>1, <1>2, <1>3 DEF IInv, LandOK, LockOK
<1>6. TypeOK'
    BY <1>1 DEF IInv, TypeOK
<1> QED
    BY <1>1, <1>4, <1>5, <1>6 DEF IInv, LeftInOffboardByFaultOnly

\* Every step keeps the invariant.
LEMMA Step == IInv /\ [Next]_vars => IInv'
<1> SUFFICES ASSUME IInv, [Next]_vars PROVE IInv'
    OBVIOUS
<1>1. ASSUME NEW h \in Handlers, AcceptTakeoff(h) PROVE IInv'
    <2>1. PICK a \in Payloads :
             Accept(h, "takeoff", seen.z, Clamp(a, MinAltitude, MaxAltitude))
        BY <1>1 DEF AcceptTakeoff
    <2>2. Clamp(a, MinAltitude, MaxAltitude) \in Heights
        <3>1. /\ a \in Int /\ MinAltitude \in Int /\ MaxAltitude \in Int
              /\ MinAltitude <= MaxAltitude
            BY ConstantsOK DEF ConstantsOK, Payloads
        <3>2. Clamp(a, MinAltitude, MaxAltitude) \in MinAltitude..MaxAltitude
            BY <3>1, ClampFacts
        <3> QED
            BY <3>2, ConstantsOK DEF ConstantsOK, Heights
    <2> QED
        BY <2>1, <2>2, AcceptStep DEF IInv, TypeOK
<1>2. ASSUME NEW h \in Handlers, AcceptLand(h) PROVE IInv'
    <2>1. PICK a \in Payloads : Accept(h, "land", seen.z, LandTarget(a, seen.z))
        BY <1>2 DEF AcceptLand
    <2>2. seen.z \in Heights
        BY DEF IInv, TypeOK
    <2>3. LandTarget(a, seen.z) \in 0..seen.z
        <3>1. a \in Int /\ seen.z \in Int /\ 0 <= seen.z
            BY <2>2, ConstantsOK DEF ConstantsOK, Payloads, Heights
        <3>2. Clamp(a, 0, seen.z) \in 0..seen.z
            BY <3>1 DEF Clamp
        <3> QED
            BY <3>2 DEF LandTarget
    <2>4. LandTarget(a, seen.z) \in Heights /\ LandTarget(a, seen.z) <= seen.z
        BY <2>2, <2>3, ConstantsOK DEF ConstantsOK, Heights
    <2> QED
        BY <2>1, <2>2, <2>4, AcceptStep
<1>3. ASSUME NEW h \in Handlers, AcceptHold(h) PROVE IInv'
    BY <1>3, ConstantsOK, AcceptStep DEF ConstantsOK, AcceptHold, Heights
<1>4. ASSUME NEW h \in Handlers, TakeLock(h) PROVE IInv'
    <2>1. /\ cmd[h].pc = "ready" /\ lock = NoHandler /\ lock' = h /\ setpoint = NoStream
          /\ UNCHANGED <<fcu, seen>> /\ fault' = FALSE
          /\ \A g \in Handlers : cmd[g].pc \in {"idle", "ready"}
        BY <1>4, ConstantsOK DEF ConstantsOK, TakeLock, LockFree, IInv, LockOK
    <2>2. cmd[h].start \in Heights /\ cmd[h].start # NoStream
        BY ConstantsOK DEF ConstantsOK, IInv, TypeOK, Heights, NoStream
    <2>3. /\ \A g \in Handlers \ {h} : cmd'[g] = cmd[g]
          /\ cmd'[h].pc = IF cmd[h].kind = "hold" THEN "loiter" ELSE "warmup"
          /\ cmd'[h].kind = cmd[h].kind
          /\ cmd'[h].start = cmd[h].start /\ cmd'[h].target = cmd[h].target
        BY <1>4 DEF TakeLock, IInv, TypeOK
    <2>4. setpoint' = IF cmd[h].kind = "hold" THEN NoStream ELSE cmd[h].start
        BY <1>4, <2>1 DEF TakeLock
    <2>5. LockOK'
        BY <2>1, <2>2, <2>3, <2>4, ConstantsOK DEF ConstantsOK, LockOK
    <2>6. LandOK'
        BY <2>1, <2>3, <2>4 DEF IInv, LandOK
    <2>7. TypeOK'
        <3>1. cmd' \in [Handlers -> [pc : {"idle", "ready", "warmup", "arm", "ramp", "loiter",
                                           "autoland", "disarm"},
                                     kind : {"takeoff", "land", "hold"},
                                     start : Heights, target : Heights]]
            BY <1>4 DEF TakeLock, IInv, TypeOK
        <3> QED
            BY <2>1, <2>2, <2>4, <3>1 DEF IInv, TypeOK
    <2>8. LeftInOffboardByFaultOnly'
        BY <2>1, ConstantsOK DEF ConstantsOK, LeftInOffboardByFaultOnly
    <2> QED
        BY <2>5, <2>6, <2>7, <2>8 DEF IInv
<1>5. ASSUME NEW h \in Handlers, Engage(h) PROVE IInv'
    <2>1. PICK reply \in Replies :
             /\ SetMode("OFFBOARD", reply)
             /\ \/ reply = "ok" /\ Continue(h, IF cmd[h].kind = "takeoff" THEN "arm" ELSE "ramp")
                \/ reply = "refused" /\ cmd[h].kind = "land" /\ Continue(h, "autoland")
                \/ reply # "ok" /\ Finish(h)
        BY <1>5 DEF Engage
    <2>2. /\ fcu' \in [mode : Modes, armed : BOOLEAN, z : Heights] /\ fault' \in BOOLEAN
          /\ reply # "ok" => fault'
        BY <2>1, SetModeType DEF SetMode, Call, Modes, IInv
    <2>3. cmd[h].pc = "warmup" /\ setpoint # NoStream /\ UNCHANGED seen
        BY <1>5 DEF Engage, IInv, LockOK
    <2> QED
        BY <2>1, <2>2, <2>3, CommandStep
<1>6. ASSUME NEW h \in Handlers, AutoLand(h) PROVE IInv'
    <2>1. PICK reply \in Replies : SetMode("AUTO.LAND", reply)
        BY <1>6 DEF AutoLand
    <2>2. fcu' \in [mode : Modes, armed : BOOLEAN, z : Heights] /\ fault' \in BOOLEAN
        BY <2>1, SetModeType DEF Modes, IInv
    <2>3. fault' \/ fcu'.mode = "AUTO.LAND"
        BY <2>1 DEF SetMode, Call, IInv, TypeOK
    <2> QED
        BY <1>6, <2>2, <2>3, CommandStep DEF AutoLand
<1>7. ASSUME NEW h \in Handlers, Arm(h) PROVE IInv'
    <2>1. PICK reply \in Replies :
             Arming(TRUE, reply) /\ (IF reply = "ok" THEN Continue(h, "ramp") ELSE Finish(h))
        BY <1>7 DEF Arm
    <2>2. /\ fcu' \in [mode : Modes, armed : BOOLEAN, z : Heights] /\ fault' \in BOOLEAN
          /\ reply # "ok" => fault'
        BY <2>1, ArmingType DEF Arming, Call, IInv
    <2>3. cmd[h].pc = "arm" /\ setpoint # NoStream /\ UNCHANGED seen
        BY <1>7 DEF Arm, IInv, LockOK
    <2> QED
        BY <2>1, <2>2, <2>3, CommandStep
<1>8. ASSUME NEW h \in Handlers, Ramp(h) PROVE IInv'
    <2>1. /\ cmd[h].pc = "ramp" /\ lock = h /\ setpoint # NoStream /\ setpoint \in Heights
          /\ cmd[h].target \in Heights /\ UNCHANGED <<fcu, seen, fault>>
        BY <1>8 DEF Ramp, IInv, LockOK, TypeOK
    <2>2. CASE setpoint' = Toward(setpoint, cmd[h].target) /\ UNCHANGED <<lock, cmd>>
        <3>1. /\ setpoint' \in Heights
              /\ cmd[h].target <= setpoint => cmd[h].target <= setpoint'
            BY <2>1, <2>2, TowardFacts
        <3>2. setpoint' # NoStream
            BY <3>1, ConstantsOK DEF ConstantsOK, Heights, NoStream
        <3>3. LockOK'
            BY <2>1, <2>2, <3>2, ConstantsOK DEF ConstantsOK, IInv, LockOK
        <3>4. LandOK'
            BY <2>1, <2>2, <3>1 DEF IInv, LandOK
        <3> QED
            BY <2>1, <2>2, <3>1, <3>3, <3>4 DEF IInv, TypeOK, LeftInOffboardByFaultOnly
    <2>3. CASE Continue(h, AfterRamp(h))
        BY <2>1, <2>3, CommandStep DEF AfterRamp, IInv, TypeOK
    <2> QED
        BY <1>8, <2>2, <2>3 DEF Ramp
<1>9. ASSUME NEW h \in Handlers, StreamBreaks(h) PROVE IInv'
    <2>1. /\ cmd[h].pc \in {"warmup", "ramp"} /\ UNCHANGED <<fcu, seen>> /\ fault' = TRUE
          /\ Continue(h, "loiter") \/ Finish(h)
        BY <1>9 DEF StreamBreaks
    <2> QED
        BY <2>1, CommandStep DEF IInv, TypeOK
<1>10. ASSUME NEW h \in Handlers, Loiter(h) PROVE IInv'
    <2>1. PICK reply \in Replies : SetMode("AUTO.LOITER", reply)
        BY <1>10 DEF Loiter
    <2>2. fcu' \in [mode : Modes, armed : BOOLEAN, z : Heights] /\ fault' \in BOOLEAN
        BY <2>1, SetModeType DEF Modes, IInv
    <2>3. fault' \/ fcu'.mode = "AUTO.LOITER"
        BY <2>1 DEF SetMode, Call, IInv, TypeOK
    <2> QED
        BY <1>10, <2>2, <2>3, CommandStep DEF Loiter
<1>11. ASSUME NEW h \in Handlers, Disarm(h) PROVE IInv'
    <2>1. PICK reply \in Replies : Arming(FALSE, reply)
        BY <1>11 DEF Disarm
    <2>2. fcu' \in [mode : Modes, armed : BOOLEAN, z : Heights] /\ fault' \in BOOLEAN
        BY <2>1, ArmingType DEF IInv
    <2>3. fault' \/ ~fcu'.armed
        BY <2>1 DEF Arming, Call, IInv, TypeOK
    <2> QED
        BY <1>11, <2>2, <2>3, CommandStep DEF Disarm
<1>12. CASE Fly
    <2>1. PICK z \in Heights : fcu' = [fcu EXCEPT !.z = z]
        <3>1. /\ fcu.z \in Heights /\ 0 \in Heights
              /\ setpoint # NoStream => setpoint \in Heights
            BY ConstantsOK DEF ConstantsOK, IInv, TypeOK, Heights
        <3>2. Toward(fcu.z, 0) \in Heights /\ (setpoint # NoStream => Toward(fcu.z, setpoint) \in Heights)
            BY <3>1, TowardFacts
        <3> QED
            BY <1>12, <3>1, <3>2 DEF Fly
    <2>2. /\ fcu' \in [mode : Modes, armed : BOOLEAN, z : Heights]
          /\ fcu'.mode = fcu.mode /\ fcu'.armed = fcu.armed
        BY <2>1 DEF IInv, TypeOK
    <2> QED
        BY <1>12, <2>2 DEF Fly, IInv, TypeOK, LockOK, LandOK, LeftInOffboardByFaultOnly
<1>13. CASE OthersAct
    <2>1. PICK m \in Modes, a \in BOOLEAN : fcu' = [fcu EXCEPT !.mode = m, !.armed = a]
        BY <1>13 DEF OthersAct
    <2>2. fcu' \in [mode : Modes, armed : BOOLEAN, z : Heights]
        BY <2>1 DEF IInv, TypeOK
    <2> QED
        BY <1>13, <2>2 DEF OthersAct, IInv, TypeOK, LockOK, LandOK, LeftInOffboardByFaultOnly
<1>14. CASE Telemetry
    BY <1>14 DEF Telemetry, IInv, TypeOK, LockOK, LandOK, LeftInOffboardByFaultOnly
<1>15. CASE UNCHANGED vars
    BY <1>15 DEF vars, IInv, TypeOK, LockOK, LandOK, LeftInOffboardByFaultOnly
<1> QED
    BY <1>1, <1>2, <1>3, <1>4, <1>5, <1>6, <1>7, <1>8, <1>9, <1>10, <1>11, <1>12, <1>13,
       <1>14, <1>15 DEF Next, Run

\* Nothing runs and nothing flies at the start.
LEMMA Start == Init => IInv
<1> SUFFICES ASSUME Init PROVE IInv
    OBVIOUS
<1>1. 0 \in Heights
    BY ConstantsOK DEF ConstantsOK, Heights
<1>2. TypeOK
    BY <1>1 DEF Init, TypeOK, Idle, Modes
<1>3. LockOK /\ LandOK
    BY ConstantsOK DEF ConstantsOK, Init, Idle, LockOK, LandOK
<1> QED
    BY <1>2, <1>3 DEF IInv, Init, LeftInOffboardByFaultOnly

\* The inductive invariant holds in every reachable state.
THEOREM Invariance == Spec => []IInv
BY Start, Step, PTL DEF Spec

\* Every state is well typed, whatever the threads, heights and limits.
THEOREM TypeCorrect == Spec => []TypeOK
<1>1. IInv => TypeOK
    BY DEF IInv
<1> QED
    BY <1>1, Invariance, PTL

\* No command leaves an armed vehicle in OFFBOARD with nobody streaming unless something
\* failed or someone else put it there.
THEOREM HandsOver == Spec => []LeftInOffboardByFaultOnly
<1>1. IInv => LeftInOffboardByFaultOnly
    BY DEF IInv
<1> QED
    BY <1>1, Invariance, PTL

\* What a step can do to the setpoint: begin a stream, end it, or take a ramp step.
LEMMA SetpointSteps ==
    ASSUME IInv, [Next]_vars, setpoint # NoStream, setpoint' # setpoint
    PROVE  setpoint' = NoStream \/ \E h \in Handlers : Ramp(h) /\ setpoint' # NoStream
<1>1. ASSUME NEW h \in Handlers,
             AcceptTakeoff(h) \/ AcceptLand(h) \/ AcceptHold(h) PROVE FALSE
    BY <1>1 DEF AcceptTakeoff, AcceptLand, AcceptHold, Accept
<1>2. ASSUME NEW h \in Handlers, TakeLock(h) PROVE FALSE
    BY <1>2 DEF TakeLock, LockFree, IInv, LockOK
<1>3. ASSUME NEW h \in Handlers, Run(h), ~Ramp(h) PROVE setpoint' = NoStream
    BY <1>3 DEF Run, Engage, AutoLand, Arm, StreamBreaks, Loiter, Disarm, Finish, Continue
<1>4. CASE Fly \/ OthersAct \/ Telemetry \/ UNCHANGED vars
    BY <1>4 DEF Fly, OthersAct, Telemetry, vars
<1> QED
    BY <1>1, <1>2, <1>3, <1>4 DEF Next

\* However commands overlap, the setpoints of a stream never jump.
THEOREM StreamsAreSteady == Spec => SetpointSteady
<1>1. ASSUME IInv, [Next]_vars, setpoint # NoStream, setpoint' # NoStream
      PROVE  setpoint' - setpoint \in {-1, 0, 1}
    <2>1. CASE setpoint' = setpoint
        BY <1>1, <2>1, ConstantsOK DEF ConstantsOK, IInv, TypeOK, Heights
    <2>2. CASE setpoint' # setpoint
        <3>1. PICK h \in Handlers : Ramp(h)
            BY <1>1, <2>2, SetpointSteps
        <3>2. /\ setpoint \in Heights /\ cmd[h].target \in Heights
              /\ setpoint' = Toward(setpoint, cmd[h].target)
            BY <1>1, <2>2, <3>1 DEF Ramp, Continue, IInv, TypeOK
        <3> QED
            BY <3>2, TowardFacts
    <2> QED
        BY <2>1, <2>2
<1>2. IInv /\ [Next]_vars
        => [setpoint # NoStream /\ setpoint' # NoStream => setpoint' - setpoint \in {-1, 0, 1}]_vars
    BY <1>1
<1> QED
    BY <1>2, Invariance, PTL DEF Spec, SetpointSteady

\* A landing never commands a climb.
THEOREM LandingsDescend == Spec => LandingNeverClimbs
<1>1. ASSUME IInv, [Next]_vars, lock # NoHandler, cmd[lock].kind = "land", setpoint # NoStream
      PROVE  setpoint' <= setpoint
    <2>1. setpoint \in Heights /\ setpoint \in Int /\ NoStream <= setpoint
        BY <1>1, ConstantsOK DEF ConstantsOK, IInv, TypeOK, Heights, NoStream
    <2>2. CASE setpoint' = setpoint \/ setpoint' = NoStream
        BY <2>1, <2>2
    <2>3. CASE setpoint' # setpoint /\ setpoint' # NoStream
        <3>1. PICK h \in Handlers : Ramp(h)
            BY <1>1, <2>3, SetpointSteps
        <3>2. lock = h
            BY <1>1, <3>1 DEF Ramp, IInv, LockOK
        <3>3. /\ cmd[h].target \in Heights /\ cmd[h].target <= setpoint
              /\ setpoint' = Toward(setpoint, cmd[h].target)
            BY <1>1, <2>3, <3>1, <3>2 DEF Ramp, Continue, IInv, TypeOK, LandOK
        <3> QED
            BY <2>1, <3>3, TowardFacts
    <2> QED
        BY <2>2, <2>3
<1>2. IInv /\ [Next]_vars
        => [lock # NoHandler /\ cmd[lock].kind = "land" /\ setpoint # NoStream
              => setpoint' <= setpoint]_vars
    BY <1>1
<1> QED
    BY <1>2, Invariance, PTL DEF Spec, LandingNeverClimbs

----------------------------------------------------------------------------
\* How a command winds down

\* A command under the lock has a bounded number of its own steps left, and one at least.
LEMMA RemainingFacts ==
    ASSUME IInv, NEW h \in Handlers
    PROVE  /\ cmd[h].pc = "warmup" => Remaining(h) = MaxHeight + 4
           /\ cmd[h].pc = "arm" => Remaining(h) = MaxHeight + 3
           /\ cmd[h].pc = "ramp" => Remaining(h) \in 2..(MaxHeight + 2)
           /\ cmd[h].pc \in {"loiter", "autoland", "disarm"} => Remaining(h) = 1
<1>1. cmd[h].pc = "ramp" => setpoint \in Heights
    BY DEF IInv, TypeOK, LockOK
<1>2. cmd[h].target \in Heights
    BY DEF IInv, TypeOK
<1> DEFINE gap == IF setpoint < cmd[h].target THEN cmd[h].target - setpoint
                  ELSE setpoint - cmd[h].target
<1>3. cmd[h].pc = "ramp" => gap \in 0..MaxHeight
    BY <1>1, <1>2, ConstantsOK DEF ConstantsOK, Heights
<1>4. cmd[h].pc = "ramp" => Remaining(h) = gap + 2
    BY DEF Remaining
<1>5. gap \in 0..MaxHeight => gap + 2 \in 2..(MaxHeight + 2)
    BY ConstantsOK DEF ConstantsOK
<1> HIDE DEF gap
<1>6. cmd[h].pc = "ramp" => Remaining(h) \in 2..(MaxHeight + 2)
    BY <1>3, <1>4, <1>5
<1>7. /\ cmd[h].pc = "warmup" => Remaining(h) = MaxHeight + 4
      /\ cmd[h].pc = "arm" => Remaining(h) = MaxHeight + 3
      /\ cmd[h].pc \in {"loiter", "autoland", "disarm"} => Remaining(h) = 1
    BY DEF Remaining
<1> QED
    BY <1>6, <1>7

\* The same of every thread, before and after a step.
Stages ==
    \A h \in Handlers :
       /\ cmd[h].pc = "warmup" => Remaining(h) = MaxHeight + 4
       /\ cmd[h].pc = "arm" => Remaining(h) = MaxHeight + 3
       /\ cmd[h].pc = "ramp" => Remaining(h) \in 2..(MaxHeight + 2)
       /\ cmd[h].pc \in {"loiter", "autoland", "disarm"} => Remaining(h) = 1

LEMMA StagesHold == IInv => Stages
BY RemainingFacts, Zenon DEF Stages

LEMMA StagesHoldNext == IInv' => Stages'
BY StagesHold, PTL

\* A ramp step brings the setpoint nearer to the target.
LEMMA RampNearer ==
    ASSUME IInv, NEW h \in Handlers, cmd[h].pc = "ramp", UNCHANGED cmd,
           setpoint # cmd[h].target, setpoint' = Toward(setpoint, cmd[h].target)
    PROVE  Remaining(h)' < Remaining(h)
<1>1. setpoint \in Int /\ cmd[h].target \in Int
    BY ConstantsOK DEF ConstantsOK, IInv, TypeOK, Heights, NoStream
<1>2. CASE setpoint < cmd[h].target
    <2>1. setpoint' = setpoint + 1
        BY <1>2 DEF Toward
    <2>2. /\ Remaining(h) = (cmd[h].target - setpoint) + 2
          /\ Remaining(h)' = IF setpoint + 1 < cmd[h].target
                             THEN (cmd[h].target - (setpoint + 1)) + 2
                             ELSE ((setpoint + 1) - cmd[h].target) + 2
        BY <1>2, <2>1 DEF Remaining
    <2> QED
        BY <1>1, <1>2, <2>2
<1>3. CASE setpoint > cmd[h].target
    <2>1. setpoint' = setpoint - 1 /\ ~(setpoint < cmd[h].target)
        BY <1>1, <1>3 DEF Toward
    <2>2. /\ Remaining(h) = (setpoint - cmd[h].target) + 2
          /\ Remaining(h)' = IF setpoint - 1 < cmd[h].target
                             THEN (cmd[h].target - (setpoint - 1)) + 2
                             ELSE ((setpoint - 1) - cmd[h].target) + 2
        BY <2>1 DEF Remaining
    <2> QED
        BY <1>1, <1>3, <2>2
<1> QED
    BY <1>1, <1>2, <1>3

\* A step of the command under the lock that does not give it back goes on to a later stage,
\* or takes a ramp step.
LEMMA RunStages ==
    ASSUME IInv, NEW h \in Handlers, Run(h), lock = h, lock' = h
    PROVE  \/ /\ cmd[h].pc = "warmup" /\ cmd'[h].pc \in {"arm", "ramp", "loiter", "autoland"}
           \/ /\ cmd[h].pc = "arm" /\ cmd'[h].pc = "ramp"
           \/ /\ cmd[h].pc = "ramp" /\ cmd'[h].pc \in {"loiter", "disarm"}
           \/ /\ cmd[h].pc = "ramp" /\ UNCHANGED cmd /\ setpoint # cmd[h].target
              /\ setpoint' = Toward(setpoint, cmd[h].target)
<1>0. lock' # NoHandler /\ ~Finish(h)
    BY ConstantsOK DEF ConstantsOK, Finish
<1>1. ASSUME NEW pc, Continue(h, pc) PROVE cmd'[h].pc = pc
    BY <1>1 DEF Continue, IInv, TypeOK
<1>2. CASE Engage(h)
    <2>1. /\ cmd[h].pc = "warmup"
          /\ \/ Continue(h, IF cmd[h].kind = "takeoff" THEN "arm" ELSE "ramp")
             \/ Continue(h, "autoland")
        BY <1>0, <1>2, Zenon DEF Engage
    <2> QED
        BY <1>1, <2>1
<1>3. CASE Arm(h)
    <2>1. cmd[h].pc = "arm" /\ Continue(h, "ramp")
        BY <1>0, <1>3, Zenon DEF Arm
    <2> QED
        BY <1>1, <2>1
<1>4. CASE Ramp(h)
    BY <1>1, <1>4 DEF Ramp, AfterRamp
<1>5. CASE StreamBreaks(h)
    <2>1. cmd[h].pc \in {"warmup", "ramp"} /\ Continue(h, "loiter")
        BY <1>0, <1>5, Zenon DEF StreamBreaks
    <2> QED
        BY <1>1, <2>1
<1>6. CASE AutoLand(h) \/ Loiter(h) \/ Disarm(h)
    BY <1>0, <1>6, Zenon DEF AutoLand, Loiter, Disarm
<1> QED
    BY <1>2, <1>3, <1>4, <1>5, <1>6 DEF Run

\* A step of another thread, the vehicle or the collector leaves the command under the lock,
\* and its stream, where they are.
LEMMA OthersLeaveCommand ==
    ASSUME IInv, [Next]_vars, NEW h \in Handlers, lock = h, ~Run(h)
    PROVE  cmd'[h] = cmd[h] /\ setpoint' = setpoint
<1>1. cmd[h].pc \notin {"idle", "ready"}
    BY DEF IInv, LockOK
<1>2. ASSUME NEW g \in Handlers, AcceptTakeoff(g) \/ AcceptLand(g) \/ AcceptHold(g)
      PROVE  cmd'[h] = cmd[h] /\ setpoint' = setpoint
    <2>1. PICK r : cmd[g].pc = "idle" /\ cmd' = [cmd EXCEPT ![g] = r] /\ UNCHANGED setpoint
        BY <1>2 DEF AcceptTakeoff, AcceptLand, AcceptHold, Accept
    <2> QED
        BY <1>1, <2>1 DEF IInv, TypeOK
<1>3. ASSUME NEW g \in Handlers, TakeLock(g) PROVE FALSE
    BY <1>3, ConstantsOK DEF ConstantsOK, TakeLock, LockFree
<1>4. ASSUME NEW g \in Handlers, Run(g) PROVE FALSE
    <2>1. cmd[g].pc \notin {"idle", "ready"}
        BY <1>4 DEF Run, Engage, AutoLand, Arm, Ramp, StreamBreaks, Loiter, Disarm
    <2>2. lock = g
        BY <2>1 DEF IInv, LockOK
    <2> QED
        BY <1>4, <2>2
<1>5. CASE Fly \/ OthersAct \/ Telemetry \/ UNCHANGED vars
    BY <1>5 DEF Fly, OthersAct, Telemetry, vars
<1> QED
    BY <1>2, <1>3, <1>4, <1>5 DEF Next

\* Every step of the command under the lock, and only they, bring it nearer to giving the
\* lock back; with the next theorem a command takes MaxHeight + 4 steps at most.
THEOREM CommandsWindDown == Spec => WindsDown
<1> DEFINE Down == \A h \in Handlers : lock = h /\ lock' = h =>
               IF Run(h) THEN Remaining(h)' < Remaining(h) ELSE Remaining(h)' = Remaining(h)
<1>1. ASSUME IInv, IInv', [Next]_vars, NEW h \in Handlers, lock = h, lock' = h, Run(h)
      PROVE  Remaining(h)' < Remaining(h)
    <2>1. /\ (cmd[h].pc)' = "arm" => Remaining(h)' = MaxHeight + 3
          /\ (cmd[h].pc)' = "ramp" => Remaining(h)' \in 2..(MaxHeight + 2)
          /\ (cmd[h].pc)' \in {"loiter", "autoland", "disarm"} => Remaining(h)' = 1
        BY <1>1, StagesHoldNext, Zenon DEF Stages
    <2>2. /\ cmd[h].pc = "warmup" => Remaining(h) = MaxHeight + 4
          /\ cmd[h].pc = "arm" => Remaining(h) = MaxHeight + 3
          /\ cmd[h].pc = "ramp" => Remaining(h) \in 2..(MaxHeight + 2)
        BY <1>1, RemainingFacts
    <2>3. CASE UNCHANGED cmd /\ cmd[h].pc = "ramp"
        BY <1>1, <2>3, RampNearer, RunStages
    <2> QED
        BY <1>1, <2>1, <2>2, <2>3, RunStages, ConstantsOK DEF ConstantsOK
<1>2. ASSUME IInv, [Next]_vars, NEW h \in Handlers, lock = h, ~Run(h)
      PROVE  Remaining(h)' = Remaining(h)
    BY <1>2, OthersLeaveCommand DEF Remaining
<1>3. IInv /\ IInv' /\ [Next]_vars => [Down]_vars
    BY <1>1, <1>2
<1> QED
    BY <1>3, Invariance, PTL DEF Spec, WindsDown

\* A command under the lock is never more than MaxHeight + 4 of its steps from its end, and
\* never at it: it gives the lock back with its last step.
THEOREM CommandsAreShort ==
    Spec => [](\A h \in Handlers : lock = h => Remaining(h) \in 1..(MaxHeight + 4))
<1>1. ASSUME IInv, NEW h \in Handlers, lock = h PROVE Remaining(h) \in 1..(MaxHeight + 4)
    <2>1. cmd[h].pc \in {"warmup", "arm", "ramp", "loiter", "autoland", "disarm"}
        BY <1>1 DEF IInv, TypeOK, LockOK
    <2>2. /\ cmd[h].pc = "warmup" => Remaining(h) = MaxHeight + 4
          /\ cmd[h].pc = "arm" => Remaining(h) = MaxHeight + 3
          /\ cmd[h].pc = "ramp" => Remaining(h) \in 2..(MaxHeight + 2)
          /\ cmd[h].pc \in {"loiter", "autoland", "disarm"} => Remaining(h) = 1
        BY <1>1, RemainingFacts
    <2> QED
        BY <2>1, <2>2, ConstantsOK DEF ConstantsOK
<1>2. IInv => \A h \in Handlers : lock = h => Remaining(h) \in 1..(MaxHeight + 4)
    BY <1>1
<1> QED
    BY <1>2, Invariance, PTL
=============================================================================
