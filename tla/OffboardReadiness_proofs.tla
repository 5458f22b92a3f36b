---------------------- MODULE OffboardReadiness_proofs ----------------------
(* Proofs about OffboardReadiness. *)
EXTENDS OffboardReadiness, TLAPS

\* How old the telemetry that deserved readiness can be, by what is known of the hold: a
\* candidate in flight was deserved when its evaluation began; while nobody has started the
\* hold, the broadcaster has finished no evaluation without candidate since; once it was
\* started, its age bounds the other.
DeservedNow == Candidate(report, TRUE) => goodAge = 0
CandidatesRecent == \A t \in Threads : eval[t].candidate => goodAge <= eval[t].age
NotStartedRecent ==
    latched /\ invalidAge = NoTime
    => goodAge <= MaxStall + due + (IF eval[Broadcaster].judging THEN Period ELSE 0)
StartedRecent ==
    latched /\ invalidAge # NoTime /\ invalidAge < InvalidCap
    => goodAge <= invalidAge + Period + 2 * MaxStall

\* While the broadcaster is judging, its period counts from the evaluation's stamp.
BroadcasterStamp == eval[Broadcaster].judging => due = eval[Broadcaster].age
RestingClean == \A t \in Threads : ~eval[t].judging => eval[t] = Resting

IInv == /\ ReadinessAssumption
        /\ TypeOK /\ DeservedNow /\ CandidatesRecent /\ NotStartedRecent
        /\ StartedRecent /\ BroadcasterStamp /\ RestingClean

LEMMA CandidateType == ASSUME NEW r, NEW b PROVE Candidate(r, b) \in BOOLEAN
BY Zenon DEF Candidate

\* The exit limits are the wider ones.
LEMMA CandidateWidens == ASSUME NEW r, NEW b, Candidate(r, b) PROVE Candidate(r, TRUE)
BY Zenon DEF Candidate

LEMMA InitInv == ASSUME ReadinessAssumption, Init PROVE IInv
<1> USE DEF ReadinessAssumption
<1>1. /\ report \in Reports /\ latched = FALSE /\ invalidAge = NoTime
      /\ eval = [t \in Threads |-> Resting] /\ due = 0 /\ goodAge \in {0, GoodCap}
  BY Zenon DEF Init
<1>2. TypeOK
  <2>1. eval \in [Threads -> [judging : BOOLEAN, candidate : BOOLEAN, age : 0..MaxStall]]
    BY <1>1 DEF Resting
  <2>2. goodAge \in 0..GoodCap /\ due \in 0..Period
    BY <1>1 DEF GoodCap, StaleBound
  <2>3. QED
    BY <1>1, <2>1, <2>2 DEF TypeOK
<1>3. DeservedNow
  BY Zenon DEF Init, DeservedNow
<1>4. CandidatesRecent /\ NotStartedRecent /\ StartedRecent /\ BroadcasterStamp /\ RestingClean
  BY <1>1 DEF CandidatesRecent, NotStartedRecent, StartedRecent,
     BroadcasterStamp, RestingClean, Resting
<1>5. QED
  BY <1>2, <1>3, <1>4 DEF IInv

\* Beginning an evaluation: its candidate, if any, is of this moment.
LEMMA BeginInv == ASSUME IInv, NEW t \in Threads, Begin(t) PROVE IInv'
<1> USE DEF IInv, ReadinessAssumption
<1>1. TypeOK'
  BY CandidateType DEF Begin, TypeOK
<1>2. eval'[t] = [judging |-> TRUE, age |-> 0, candidate |-> Candidate(report, latched)]
  BY DEF Begin, TypeOK
<1>3. \A u \in Threads : u # t => eval'[u] = eval[u]
  BY DEF Begin, TypeOK
<1>4. Candidate(report, latched) => goodAge = 0
  BY Zenon, CandidateWidens DEF DeservedNow
<1>5. DeservedNow'
  BY Zenon DEF Begin, DeservedNow
<1>9. RestingClean' /\ CandidatesRecent'
  <2>1. /\ eval'[t].judging /\ eval'[t].age = 0
        /\ eval'[t].candidate = Candidate(report, latched)
    BY <1>2
  <2>4. eval'[t].candidate => goodAge = 0
    BY Zenon, <2>1, <1>4
  <2>2. goodAge' = goodAge
    BY Zenon DEF Begin
  <2>3. QED
    BY <2>1, <2>2, <2>4, <1>3 DEF CandidatesRecent, RestingClean
<1>6. NotStartedRecent' /\ BroadcasterStamp'
  <2>1. CASE t = Broadcaster
    BY <1>2, <2>1 DEF Begin, NotStartedRecent, BroadcasterStamp, TypeOK
  <2>2. CASE t # Broadcaster
    BY <1>3, <2>2 DEF Begin, NotStartedRecent, BroadcasterStamp
  <2>3. QED BY <2>1, <2>2
<1>7. StartedRecent'
  BY DEF Begin, StartedRecent
<1>8. QED BY <1>1, <1>5, <1>6, <1>7, <1>9

\* Ending one: a candidate clears the hold at an age of a stall at most; the broadcaster's
\* evaluation without candidate, if no other, starts it.
LEMMA CommitInv == ASSUME IInv, NEW t \in Threads, Commit(t) PROVE IInv'
<1> USE DEF IInv, ReadinessAssumption
<1>1. eval[t] \in [judging : BOOLEAN, candidate : BOOLEAN, age : 0..MaxStall]
  BY DEF TypeOK
<1>2. InvalidFrom(t) \in 0..InvalidCap
  BY <1>1 DEF TypeOK, InvalidFrom, InvalidCap
<1>3. TypeOK'
  BY <1>1, <1>2 DEF Commit, TypeOK, InvalidAfter, Resting
<1>4. eval'[t] = Resting /\ \A u \in Threads : u # t => eval'[u] = eval[u]
  BY DEF Commit, TypeOK
<1>9. DeservedNow'
  BY Zenon DEF Commit, DeservedNow
<1>5. CandidatesRecent' /\ RestingClean' /\ BroadcasterStamp'
  BY <1>4 DEF Commit, CandidatesRecent, RestingClean, BroadcasterStamp, Resting
<1>6. NotStartedRecent'
  <2>1. SUFFICES ASSUME latched', invalidAge' = NoTime
                 PROVE  goodAge <= MaxStall + due
                            + (IF eval'[Broadcaster].judging THEN Period ELSE 0)
    BY DEF NotStartedRecent, Commit
  <2>2. eval[t].candidate
    BY <1>1, <1>2, <2>1 DEF Commit, InvalidAfter, NoTime
  <2>3. goodAge <= MaxStall
    BY <1>1, <2>2 DEF CandidatesRecent, TypeOK
  <2>4. QED
    BY <2>3 DEF TypeOK
<1>7. StartedRecent'
  <2>1. SUFFICES ASSUME latched', invalidAge' # NoTime, invalidAge' < InvalidCap
                 PROVE  goodAge <= invalidAge' + Period + 2 * MaxStall
    BY DEF StartedRecent, Commit
  <2>2. latched /\ ~eval[t].candidate /\ invalidAge' = InvalidFrom(t)
    BY <2>1 DEF Commit, InvalidAfter, Ready, Answer
  <2>3. CASE invalidAge # NoTime
    BY <2>1, <2>2, <2>3 DEF StartedRecent, InvalidFrom
  <2>4. CASE invalidAge = NoTime
    <3>1. goodAge <= MaxStall + due + (IF eval[Broadcaster].judging THEN Period ELSE 0)
      BY <2>2, <2>4 DEF NotStartedRecent
    <3>2. eval[Broadcaster].judging => due <= MaxStall
      BY DEF BroadcasterStamp, TypeOK
    <3>3. due \in 0..Period /\ goodAge \in Nat
      BY DEF TypeOK
    <3>4. goodAge <= 2 * MaxStall + Period
      BY <3>1, <3>2, <3>3
    <3>5. QED
      BY <2>2, <2>4, <3>4, <1>1, <3>3 DEF InvalidFrom
  <2>5. QED BY <2>3, <2>4
<1>8. QED BY <1>3, <1>5, <1>6, <1>7, <1>9

LEMMA TelemetryInv == ASSUME IInv, Telemetry PROVE IInv'
<1> USE DEF IInv, ReadinessAssumption
<1>1. /\ report' \in Reports /\ goodAge' \in {0, goodAge}
      /\ UNCHANGED <<latched, invalidAge, eval, due>>
  BY Zenon DEF Telemetry
<1>2. TypeOK'
  BY <1>1 DEF TypeOK, GoodCap, StaleBound
<1>3. DeservedNow'
  BY Zenon DEF Telemetry, DeservedNow
<1>4. goodAge' <= goodAge /\ goodAge' \in Nat /\ goodAge \in Nat
  BY <1>1 DEF TypeOK
<1>5. CandidatesRecent' /\ RestingClean' /\ BroadcasterStamp'
  BY <1>1, <1>4 DEF CandidatesRecent, RestingClean, BroadcasterStamp, TypeOK
<1>6. NotStartedRecent' /\ StartedRecent'
  BY <1>1, <1>4 DEF NotStartedRecent, StartedRecent, TypeOK, NoTime
<1>7. QED BY <1>2, <1>3, <1>5, <1>6

\* A quantum ages both sides of every bound.
LEMMA TickInv == ASSUME IInv, Tick PROVE IInv'
<1> USE DEF IInv, ReadinessAssumption
<1>12. /\ due < Period /\ \A t \in Threads : eval[t].age < MaxStall
       /\ due' = due + 1 /\ latched' = latched /\ report' = report
       /\ eval' = [t \in Threads |-> IF eval[t].judging THEN [eval[t] EXCEPT !.age = @ + 1]
                                     ELSE eval[t]]
       /\ invalidAge' = IF invalidAge = NoTime THEN NoTime
                        ELSE AtMost(InvalidCap, invalidAge + 1)
       /\ goodAge' \in {0, AtMost(GoodCap, goodAge + 1)}
  BY Zenon DEF Tick
<1>1. \A t \in Threads :
        /\ eval'[t].judging = eval[t].judging
        /\ eval'[t].candidate = eval[t].candidate
        /\ eval[t].judging => eval'[t].age = eval[t].age + 1
        /\ ~eval[t].judging => eval'[t] = eval[t]
  BY <1>12 DEF TypeOK
<1>2. eval' \in [Threads -> [judging : BOOLEAN, candidate : BOOLEAN, age : 0..MaxStall]]
  BY <1>12 DEF TypeOK
<1>3. goodAge' <= goodAge + 1 /\ goodAge' \in 0..GoodCap
  BY <1>12 DEF TypeOK, AtMost, GoodCap, StaleBound
<1>4. invalidAge' \in 0..InvalidCap \cup {NoTime}
  BY <1>12 DEF TypeOK, AtMost, InvalidCap, NoTime
<1>5. TypeOK'
  BY <1>2, <1>3, <1>4, <1>12 DEF TypeOK
<1>6. DeservedNow'
  BY Zenon DEF Tick, DeservedNow
<1>7. RestingClean' /\ BroadcasterStamp'
  BY <1>1, <1>12 DEF RestingClean, BroadcasterStamp
<1>8. CandidatesRecent'
  BY <1>1, <1>2, <1>3, <1>5 DEF CandidatesRecent, RestingClean, Resting, TypeOK
<1>9. NotStartedRecent'
  <2>1. invalidAge' = NoTime => invalidAge = NoTime
    BY <1>12 DEF TypeOK, AtMost, InvalidCap, NoTime
  <2>2. QED
    BY <2>1, <1>1, <1>3, <1>12 DEF NotStartedRecent, TypeOK
<1>10. StartedRecent'
  <2>1. SUFFICES ASSUME latched', invalidAge' # NoTime, invalidAge' < InvalidCap
                 PROVE  goodAge' <= invalidAge' + Period + 2 * MaxStall
    BY DEF StartedRecent
  <2>2. latched /\ invalidAge # NoTime /\ invalidAge' = invalidAge + 1
    BY <2>1, <1>12 DEF TypeOK, AtMost, InvalidCap, NoTime
  <2>3. QED
    BY <2>1, <2>2, <1>3 DEF StartedRecent, TypeOK, InvalidCap, NoTime
<1>11. QED BY <1>5, <1>6, <1>7, <1>8, <1>9, <1>10

THEOREM Inductive == ASSUME ReadinessAssumption PROVE Spec => []IInv
<1>1. IInv /\ [Next]_vars => IInv'
  <2> SUFFICES ASSUME IInv, [Next]_vars PROVE IInv' OBVIOUS
  <2>1. CASE \E t \in Threads : Begin(t) \/ Commit(t)
    BY <2>1, BeginInv, CommitInv
  <2>2. CASE Telemetry
    BY <2>2, TelemetryInv
  <2>3. CASE Tick
    BY <2>3, TickInv
  <2>4. CASE UNCHANGED vars
    BY <2>4 DEF vars, IInv, ReadinessAssumption, TypeOK, DeservedNow, CandidatesRecent, NotStartedRecent,
       StartedRecent, BroadcasterStamp, RestingClean
  <2>5. QED BY <2>1, <2>2, <2>3, <2>4 DEF Next
<1>2. Init => IInv
  BY InitInv
<1>3. QED BY <1>1, <1>2, PTL DEF Spec

\* Types are kept.
THEOREM TypeCorrect == ASSUME ReadinessAssumption PROVE Spec => []TypeOK
BY Inductive, PTL DEF IInv

\* Any answer "ready", by any thread, at any stamp, is within StaleBound of telemetry that
\* met the exit limits.
THEOREM ReadyRecent == ASSUME ReadinessAssumption PROVE Spec => []ReadyIsRecent
<1>1. IInv => ReadyIsRecent
  <2> SUFFICES ASSUME IInv, NEW t \in Threads, eval[t].judging, Ready(t)
               PROVE  goodAge <= StaleBound
    BY DEF ReadyIsRecent
  <2> USE DEF IInv, ReadinessAssumption
  <2>1. eval[t].age \in 0..MaxStall /\ goodAge \in Nat /\ due \in 0..Period
    BY DEF TypeOK
  <2>2. CASE eval[t].candidate
    BY <2>1, <2>2 DEF CandidatesRecent, StaleBound
  <2>3. CASE ~eval[t].candidate
    <3>1. latched /\ InvalidFrom(t) - eval[t].age < Hold
      BY <2>3 DEF Ready, Answer
    <3>2. CASE invalidAge = NoTime
      <4>1. goodAge <= MaxStall + due + (IF eval[Broadcaster].judging THEN Period ELSE 0)
        BY <3>1, <3>2 DEF NotStartedRecent
      <4>2. eval[Broadcaster].judging => due <= MaxStall
        BY DEF BroadcasterStamp, TypeOK
      <4>3. Hold > 0
        BY <3>1, <3>2, <2>1 DEF InvalidFrom
      <4>4. QED BY <4>1, <4>2, <4>3, <2>1 DEF StaleBound
    <3>3. CASE invalidAge # NoTime
      <4>1. invalidAge \in Nat /\ invalidAge < Hold + MaxStall
        BY <3>1, <3>3, <2>1 DEF InvalidFrom, TypeOK
      <4>2. goodAge <= invalidAge + Period + 2 * MaxStall
        BY <3>1, <3>3, <4>1 DEF StartedRecent, InvalidCap
      <4>3. QED BY <4>1, <4>2, <2>1 DEF StaleBound
    <3>4. QED BY <3>2, <3>3
  <2>4. QED BY <2>2, <2>3
<1>2. QED BY Inductive, <1>1, PTL
=============================================================================
