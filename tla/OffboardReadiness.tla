------------------------- MODULE OffboardReadiness -------------------------
(***************************************************************************)
(* StateStore.offboard_readiness of docker/control-gateway/app.py: may the *)
(* vehicle take off in OFFBOARD?  A thread (the SnapshotBroadcaster, an    *)
(* HTTP request such as takeoff, a discovery answer) copies telemetry and  *)
(* latch under the store's lock, judges without it, and takes it again to  *)
(* update the latch and answer.  A latch that is no longer deserved is     *)
(* held for notReadyHoldSec.  Time is in quanta; ages are relative to now, *)
(* an evaluation's stamp is the age it has reached.                        *)
(***************************************************************************)
EXTENDS Integers

CONSTANTS
    Threads,      \* threads that evaluate readiness
    Broadcaster,  \* the one that does it for ever, stateHz times a second
    Hold,         \* notReadyHoldSec
    MaxStall,     \* the longest pause of a thread between its two lock sections
    Period,       \* the longest time between two evaluations of the broadcaster
    Reports       \* what the telemetry may look like, see AllReports

\* A report grades the telemetry against the limits of offboardReadyTuning: the local
\* samples' span and the ground speed, and the worse of the vision samples' span and the
\* gap between the two poses.  up: ROS, FCU connection and landedState = ON_GROUND; stale,
\* non-finite or too few samples are "beyond".
AllReports == [up : BOOLEAN,
               local : {"strong", "enter", "exit", "beyond"},
               vision : {"enter", "exit", "relaxed", "beyond"}]

ReadinessAssumption ==
    /\ Broadcaster \in Threads
    /\ Hold \in Nat /\ MaxStall \in Nat /\ Period \in Nat \ {0}
    /\ Reports \subseteq AllReports

VARIABLES
    report,      \* external: latest_flight and the samples, as the ROS callbacks leave them
    latched,     \* offboard_ready_latched
    invalidAge,  \* offboard_ready_invalid_since, as an age, or NoTime
    eval,        \* each thread between its two sections
    due,         \* quanta since the broadcaster's last evaluation began
    goodAge      \* ghost: quanta since the telemetry last met the exit limits

vars == <<report, latched, invalidAge, eval, due, goodAge>>

NoTime == -1
Resting == [judging |-> FALSE, candidate |-> FALSE, age |-> 0]

\* The longest a ready answer may outlast the telemetry that deserves it.
StaleBound == Hold + Period + 3 * MaxStall - 1
InvalidCap == Hold + MaxStall   \* beyond it, an age tells nothing more
GoodCap == StaleBound + 2

AtMost(cap, n) == IF n < cap THEN n ELSE cap

\* candidate_ready: the exit limits count while latched, and a strongly stable local pose
\* relaxes the limits on vision.
Candidate(r, wasLatched) ==
    /\ r.up
    /\ r.local \in {"strong", "enter"} \cup (IF wasLatched THEN {"exit"} ELSE {})
    /\ r.vision \in {"enter"} \cup (IF wasLatched THEN {"exit"} ELSE {})
                    \cup (IF r.local = "strong" THEN {"exit", "relaxed"} ELSE {})

Init ==
    /\ report \in Reports
    /\ latched = FALSE
    /\ invalidAge = NoTime
    /\ eval = [t \in Threads |-> Resting]
    /\ due = 0
    /\ goodAge = IF Candidate(report, TRUE) THEN 0 ELSE GoodCap

\* The first section, and the judgement that follows.
Begin(t) ==
    /\ ~eval[t].judging
    /\ eval' = [eval EXCEPT ![t] = [judging |-> TRUE, age |-> 0,
                                    candidate |-> Candidate(report, latched)]]
    /\ due' = IF t = Broadcaster THEN 0 ELSE due
    /\ UNCHANGED <<report, latched, invalidAge, goodAge>>

\* invalid_since as the second section finds or sets it.
InvalidFrom(t) == IF invalidAge = NoTime THEN eval[t].age ELSE invalidAge

\* What the second section answers if it runs now.
Answer(t) ==
    IF eval[t].candidate THEN "READY"
    ELSE IF latched /\ InvalidFrom(t) - eval[t].age < Hold THEN "READY_HOLD"
    ELSE "NOT_READY"

Ready(t) == Answer(t) # "NOT_READY"

\* Mutant: every evaluation that is not ready restarts the hold.
InvalidRestarted(t) ==
    IF eval[t].candidate \/ ~latched THEN NoTime ELSE eval[t].age

\* A hold that runs out drops the latch and leaves invalid_since to the next evaluation.
InvalidAfter(t) ==
    IF eval[t].candidate \/ ~latched THEN NoTime ELSE InvalidFrom(t)

\* The second section.
Commit(t) ==
    /\ eval[t].judging
    /\ latched' = (eval[t].candidate \/ (latched /\ Ready(t)))
    /\ invalidAge' = InvalidAfter(t)
    /\ eval' = [eval EXCEPT ![t] = Resting]
    /\ UNCHANGED <<report, due, goodAge>>

\* ROS callbacks, and their absence.
Telemetry ==
    /\ report' \in Reports
    /\ goodAge' = IF Candidate(report', TRUE) THEN 0 ELSE goodAge
    /\ UNCHANGED <<latched, invalidAge, eval, due>>

\* No thread stalls longer than MaxStall, nor the broadcaster sleeps longer than Period.
Tick ==
    /\ due < Period
    /\ \A t \in Threads : eval[t].age < MaxStall
    /\ due' = due + 1
    /\ eval' = [t \in Threads |-> IF eval[t].judging THEN [eval[t] EXCEPT !.age = @ + 1]
                                  ELSE eval[t]]
    /\ invalidAge' = IF invalidAge = NoTime THEN NoTime ELSE AtMost(InvalidCap, invalidAge + 1)
    /\ goodAge' = IF Candidate(report, TRUE) THEN 0 ELSE AtMost(GoodCap, goodAge + 1)
    /\ UNCHANGED <<report, latched>>

Next ==
    \/ \E t \in Threads : Begin(t) \/ Commit(t)
    \/ Telemetry \/ Tick

Spec == Init /\ [][Next]_vars

----------------------------------------------------------------------------
\* Properties

\* Type invariant.
TypeOK ==
    /\ report \in Reports
    /\ latched \in BOOLEAN
    /\ invalidAge \in 0..InvalidCap \cup {NoTime}
    /\ eval \in [Threads -> [judging : BOOLEAN, candidate : BOOLEAN, age : 0..MaxStall]]
    /\ due \in 0..Period
    /\ goodAge \in 0..GoodCap

\* Whoever asks, and however the threads' sections interleave, "ready" outlasts the
\* telemetry that deserves it by the hold, one period and three stalls at most: the FCU
\* link may be gone, or the vehicle in the air, no longer than that.
ReadyIsRecent ==
    \A t \in Threads : eval[t].judging /\ Ready(t) => goodAge <= StaleBound
=============================================================================
