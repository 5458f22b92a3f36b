------------------------ MODULE ManualControl_proofs ------------------------
(***************************************************************************)
(* Proofs about ManualControl: type correctness, the consistency of lease, *)
(* owner and clocks, the exclusion between pilots and the two neutral-stick*)
(* properties of the publisher thread, for any clients, threads, lease     *)
(* ids, configurations and timeouts that satisfy ConstantsOK and TimingOK. *)
(***************************************************************************)
EXTENDS ManualControl, TLAPS

\* A request past idle carries its client.
RequestsOK == \A h \in Handlers : req[h].pc # "idle" => req[h].client \in Clients

\* What the publisher thread has published, or is about to publish or hold for, in terms
\* of the last contact.  publisherUp and config.enabled guard every publication.
OutputOK ==
    /\ publisherUp => config.enabled
    /\ lastOut = "deflected" => publisherUp
    /\ loop.pc # "idle" => publisherUp
    /\ loop.pc = "publish" /\ loop.stick = "deflected"
          => inputAge <= InputTimeout \/ lease = NoLease
    /\ loop.pc = "hold" => lastOut # "deflected"
    /\ lastOut = "deflected" /\ lease # NoLease => inputAge <= InputTimeout + 1
    /\ lastOut = "deflected" /\ lease # NoLease /\ loop.pc = "idle" /\ ~due
          => inputAge <= InputTimeout

\* After the publisher thread's turn a lease that is left has not run out.
TurnOK == publisherUp /\ ~due /\ lease # NoLease => leaseLeft > 0

\* The inductive invariant.
IInv == TypeOK /\ RequestsOK /\ LeaseConsistent /\ ClocksAgree /\ OutputOK /\ TurnOK

----------------------------------------------------------------------------
\* Types

LEMMA IdleType == Idle \in ReqType /\ Idle.pc = "idle"
BY TimingOK DEF TimingOK, Idle, ReqType, Sticks

\* The record of an input that passed the neutral-only gate.
LEMMA GatedType ==
    ASSUME NEW q \in ReqType
    PROVE  [pc |-> "write", client |-> q.client, stick |-> q.stick, age |-> 0] \in ReqType
BY TimingOK DEF TimingOK, ReqType

LEMMA ClearedTypes ==
    ASSUME ClearLease
    PROVE  /\ lease' = NoLease /\ owner' = NoClient /\ neutralOnly' \in BOOLEAN
           /\ leaseLeft' \in (-MaxStall)..TTL /\ inputAge' \in 0..Never /\ sample' \in Sticks
<1>1. neutralOnly' \in BOOLEAN
    BY DEF ClearLease
<1>2. leaseLeft' \in (-MaxStall)..TTL /\ inputAge' \in 0..Never
    BY TimingOK DEF TimingOK, ClearLease, Never
<1> QED
    BY <1>1, <1>2 DEF ClearLease, Sticks

\* One thread's record is replaced by one of its type.
LEMMA RequestUpdate ==
    ASSUME TypeOK, RequestsOK, NEW h \in Handlers, NEW r \in ReqType,
           r.pc = "idle" \/ r.client \in Clients,
           req' = [req EXCEPT ![h] = r]
    PROVE  req' \in [Handlers -> ReqType] /\ RequestsOK'
BY DEF TypeOK, RequestsOK

\* A quantum ages the requests in flight, none beyond MaxStall.
LEMMA RequestAging ==
    ASSUME TypeOK, RequestsOK, Tick
    PROVE  req' \in [Handlers -> ReqType] /\ RequestsOK'
<1>1. ASSUME NEW h \in Handlers
      PROVE  req'[h] \in ReqType /\ (req'[h].pc # "idle" => req'[h].client \in Clients)
    BY TimingOK DEF TimingOK, TypeOK, RequestsOK, Tick, ReqType
<1> QED
    BY <1>1 DEF Tick, RequestsOK

LEMMA InitTypes == Init => TypeOK /\ RequestsOK
<1> SUFFICES ASSUME Init PROVE TypeOK /\ RequestsOK
    OBVIOUS
<1>1. req \in [Handlers -> ReqType] /\ RequestsOK
    BY IdleType DEF Init, RequestsOK
<1>2. leaseLeft \in (-MaxStall)..TTL /\ inputAge \in 0..Never
    BY TimingOK DEF TimingOK, Init, Never
<1> QED
    BY <1>1, <1>2 DEF Init, TypeOK, Sticks

\* Every step keeps the types.
LEMMA NextTypes ==
    ASSUME TypeOK, RequestsOK, [Next]_vars
    PROVE  TypeOK' /\ RequestsOK'
<1> USE TimingOK DEF TimingOK, TypeOK, Sticks, Never, core
<1>1. ASSUME NEW h \in Handlers, NEW c \in Clients, BeginAcquire(h, c)
      PROVE  TypeOK' /\ RequestsOK'
    <2>1. [Idle EXCEPT !.pc = "acquire", !.client = c] \in ReqType
        BY IdleType DEF ReqType, Idle
    <2>2. req' \in [Handlers -> ReqType] /\ RequestsOK'
        BY <1>1, <2>1, IdleType, RequestUpdate DEF BeginAcquire, Idle
    <2> QED
        BY <1>1, <2>2 DEF BeginAcquire
<1>2. ASSUME NEW h \in Handlers, NEW c \in Clients, NEW s \in Sticks,
             NEW k \in {"input", "heartbeat", "release"}, BeginOwned(h, c, k, s)
      PROVE  TypeOK' /\ RequestsOK'
    <2>1. [pc |-> k, client |-> c, stick |-> s, age |-> 0] \in ReqType
        BY IdleType DEF ReqType, Idle
    <2>2. req' \in [Handlers -> ReqType] /\ RequestsOK'
        BY <1>2, <2>1, IdleType, RequestUpdate DEF BeginOwned
    <2> QED
        BY <1>2, <2>2 DEF BeginOwned
<1>3. ASSUME NEW h \in Handlers, AcquireBusy(h)
      PROVE  TypeOK' /\ RequestsOK'
    <2>1. Idle \in ReqType
        BY IdleType
    <2>2. req' \in [Handlers -> ReqType] /\ RequestsOK'
        BY <1>3, <2>1, IdleType, RequestUpdate DEF AcquireBusy
    <2> QED
        BY <1>3, <2>2 DEF AcquireBusy
<1>4. ASSUME NEW h \in Handlers, Acquire(h)
      PROVE  TypeOK' /\ RequestsOK'
    <2>1. Idle \in ReqType
        BY IdleType
    <2>2. req' \in [Handlers -> ReqType] /\ RequestsOK'
        BY <1>4, <2>1, IdleType, RequestUpdate DEF Acquire
    <2>3. req[h].age \in 0..MaxStall /\ req[h].client \in Clients
        BY <1>4 DEF Acquire, ReqType, RequestsOK
    <2> QED
        BY <1>4, <2>2, <2>3 DEF Acquire, NeutralOnlyMode
<1>5. ASSUME NEW h \in Handlers, InputGate(h)
      PROVE  TypeOK' /\ RequestsOK'
    <2> DEFINE r == IF neutralOnly /\ req[h].stick = "deflected" THEN Idle
                    ELSE [pc |-> "write", client |-> req[h].client,
                          stick |-> req[h].stick, age |-> 0]
    <2>1. r \in ReqType /\ (r.pc = "idle" \/ r.client \in Clients)
        BY <1>5, IdleType, GatedType DEF InputGate, RequestsOK
    <2>2. req' = [req EXCEPT ![h] = r]
        BY <1>5 DEF InputGate
    <2>3. req' \in [Handlers -> ReqType] /\ RequestsOK'
        BY <2>1, <2>2, RequestUpdate
    <2> QED
        BY <1>5, <2>3 DEF InputGate
<1>6. ASSUME NEW h \in Handlers, InputWrite(h)
      PROVE  TypeOK' /\ RequestsOK'
    <2>1. Idle \in ReqType
        BY IdleType
    <2>2. req' \in [Handlers -> ReqType] /\ RequestsOK'
        BY <1>6, <2>1, IdleType, RequestUpdate DEF InputWrite
    <2>3. req[h].age \in 0..MaxStall /\ req[h].stick \in Sticks
        BY <1>6 DEF ReqType
    <2> QED
        BY <1>6, <2>2, <2>3 DEF InputWrite, Stamp
<1>7. ASSUME NEW h \in Handlers, Heartbeat(h)
      PROVE  TypeOK' /\ RequestsOK'
    <2>1. Idle \in ReqType
        BY IdleType
    <2>2. req' \in [Handlers -> ReqType] /\ RequestsOK'
        BY <1>7, <2>1, IdleType, RequestUpdate DEF Heartbeat
    <2>3. req[h].age \in 0..MaxStall /\ req[h].stick \in Sticks
        BY <1>7 DEF ReqType
    <2> QED
        BY <1>7, <2>2, <2>3 DEF Heartbeat, Stamp
<1>8. ASSUME NEW h \in Handlers, Release(h)
      PROVE  TypeOK' /\ RequestsOK'
    <2>1. Idle \in ReqType
        BY IdleType
    <2>2. req' \in [Handlers -> ReqType] /\ RequestsOK'
        BY <1>8, <2>1, IdleType, RequestUpdate DEF Release
    <2> QED
        BY <1>8, <2>2, ClearedTypes DEF Release
<1>9. ASSUME LoopSkip
      PROVE  TypeOK' /\ RequestsOK'
    <2>1. /\ config' = config /\ lease' = lease /\ owner' = owner /\ neutralOnly' = neutralOnly
          /\ leaseLeft' = leaseLeft /\ inputAge' = inputAge /\ sample' = sample
          /\ holdSentFor' = holdSentFor /\ loop' = loop /\ publisherUp' = publisherUp
          /\ grantee' = grantee /\ lastOut' = lastOut
        BY <1>9 DEF LoopSkip
    <2>2. due' \in BOOLEAN /\ RequestsOK' /\ req' \in [Handlers -> ReqType]
        BY <1>9 DEF LoopSkip, RequestsOK
    <2> QED
        BY <2>1, <2>2
<1>10. ASSUME InitPublisher
      PROVE  TypeOK' /\ RequestsOK'
    BY <1>10 DEF InitPublisher, RequestsOK
<1>11. ASSUME LoopActive
      PROVE  TypeOK' /\ RequestsOK'
    BY <1>11 DEF LoopActive, RequestsOK
<1>12. ASSUME LoopExpire
      PROVE  TypeOK' /\ RequestsOK'
    BY <1>12, ClearedTypes DEF LoopExpire, RequestsOK
<1>13. ASSUME LoopNoLease
      PROVE  TypeOK' /\ RequestsOK'
    BY <1>13 DEF LoopNoLease, RequestsOK
<1>14. ASSUME LoopPublish
      PROVE  TypeOK' /\ RequestsOK'
    BY <1>14 DEF LoopPublish, RequestsOK
<1>15. ASSUME LoopHold
      PROVE  TypeOK' /\ RequestsOK'
    BY <1>15 DEF LoopHold, RequestsOK
<1>16. ASSUME Tick
      PROVE  TypeOK' /\ RequestsOK'
    BY <1>16, RequestAging DEF Tick, Min2
<1>17. ASSUME UNCHANGED vars
      PROVE  TypeOK' /\ RequestsOK'
    BY <1>17 DEF vars, RequestsOK
<1> QED
    BY <1>1, <1>2, <1>3, <1>4, <1>5, <1>6, <1>7, <1>8, <1>9, <1>10, <1>11, <1>12, <1>13, <1>14, <1>15, <1>16, <1>17
    DEF Next, Begin, Finish, Renew, Loop, BeginInput, BeginHeartbeat, BeginRelease, Sticks

----------------------------------------------------------------------------
\* The lease, its owner and its clocks

LEMMA InitLease == Init => LeaseConsistent /\ ClocksAgree
BY DEF Init, LeaseConsistent, ClocksAgree

\* Late writes never separate a lease from its owner: only Acquire and ClearLease write either.
LEMMA NextLease ==
    ASSUME TypeOK, RequestsOK, LeaseConsistent, [Next]_vars
    PROVE  LeaseConsistent'
<1> USE ConstantsOK DEF ConstantsOK, TypeOK, LeaseConsistent, NeutralOnlyMode, core
<1>1. ASSUME NEW h \in Handlers, NEW c \in Clients, BeginAcquire(h, c)
      PROVE  LeaseConsistent'
    BY <1>1 DEF BeginAcquire
<1>2. ASSUME NEW h \in Handlers, NEW c \in Clients, NEW s \in Sticks,
             NEW k \in {"input", "heartbeat", "release"}, BeginOwned(h, c, k, s)
      PROVE  LeaseConsistent'
    BY <1>2 DEF BeginOwned
<1>3. ASSUME NEW h \in Handlers, AcquireBusy(h)
      PROVE  LeaseConsistent'
    BY <1>3 DEF AcquireBusy
<1>4. ASSUME NEW h \in Handlers, Acquire(h)
      PROVE  LeaseConsistent'
    <2>1. req[h].client \in Clients
        BY <1>4 DEF Acquire, RequestsOK
    <2> QED
        BY <1>4, <2>1 DEF Acquire
<1>5. ASSUME NEW h \in Handlers, InputGate(h)
      PROVE  LeaseConsistent'
    BY <1>5 DEF InputGate
<1>6. ASSUME NEW h \in Handlers, InputWrite(h)
      PROVE  LeaseConsistent'
    BY <1>6 DEF InputWrite, Stamp
<1>7. ASSUME NEW h \in Handlers, Heartbeat(h)
      PROVE  LeaseConsistent'
    BY <1>7 DEF Heartbeat, Stamp
<1>8. ASSUME NEW h \in Handlers, Release(h)
      PROVE  LeaseConsistent'
    BY <1>8 DEF Release, ClearLease
<1>9. ASSUME LoopSkip
      PROVE  LeaseConsistent'
    BY <1>9 DEF LoopSkip
<1>10. ASSUME InitPublisher
      PROVE  LeaseConsistent'
    BY <1>10 DEF InitPublisher
<1>11. ASSUME LoopActive
      PROVE  LeaseConsistent'
    BY <1>11 DEF LoopActive
<1>12. ASSUME LoopExpire
      PROVE  LeaseConsistent'
    BY <1>12 DEF LoopExpire, ClearLease
<1>13. ASSUME LoopNoLease
      PROVE  LeaseConsistent'
    BY <1>13 DEF LoopNoLease
<1>14. ASSUME LoopPublish
      PROVE  LeaseConsistent'
    BY <1>14 DEF LoopPublish
<1>15. ASSUME LoopHold
      PROVE  LeaseConsistent'
    BY <1>15 DEF LoopHold
<1>16. ASSUME Tick
      PROVE  LeaseConsistent'
    BY <1>16 DEF Tick, Min2
<1>17. ASSUME UNCHANGED vars
      PROVE  LeaseConsistent'
    BY <1>17 DEF vars
<1> QED
    BY <1>1, <1>2, <1>3, <1>4, <1>5, <1>6, <1>7, <1>8, <1>9, <1>10, <1>11, <1>12, <1>13, <1>14, <1>15, <1>16, <1>17
    DEF Next, Begin, Finish, Renew, Loop, BeginInput, BeginHeartbeat, BeginRelease, Sticks

\* Every writer of the expiry writes the contact time from the same stamp.
LEMMA NextClocks ==
    ASSUME TypeOK, ClocksAgree, [Next]_vars
    PROVE  ClocksAgree'
<1> USE TimingOK DEF TimingOK, TypeOK, ClocksAgree, Never, core
<1>1. ASSUME NEW h \in Handlers, NEW c \in Clients, BeginAcquire(h, c)
      PROVE  ClocksAgree'
    BY <1>1 DEF BeginAcquire
<1>2. ASSUME NEW h \in Handlers, NEW c \in Clients, NEW s \in Sticks,
             NEW k \in {"input", "heartbeat", "release"}, BeginOwned(h, c, k, s)
      PROVE  ClocksAgree'
    BY <1>2 DEF BeginOwned
<1>3. ASSUME NEW h \in Handlers, AcquireBusy(h)
      PROVE  ClocksAgree'
    BY <1>3 DEF AcquireBusy
<1>4. ASSUME NEW h \in Handlers, Acquire(h)
      PROVE  ClocksAgree'
    <2>1. req[h].age \in 0..MaxStall
        BY <1>4 DEF ReqType
    <2> QED
        BY <1>4, <2>1 DEF Acquire
<1>5. ASSUME NEW h \in Handlers, InputGate(h)
      PROVE  ClocksAgree'
    BY <1>5 DEF InputGate
<1>6. ASSUME NEW h \in Handlers, InputWrite(h)
      PROVE  ClocksAgree'
    <2>1. req[h].age \in 0..MaxStall
        BY <1>6 DEF ReqType
    <2> QED
        BY <1>6, <2>1 DEF InputWrite, Stamp
<1>7. ASSUME NEW h \in Handlers, Heartbeat(h)
      PROVE  ClocksAgree'
    <2>1. req[h].age \in 0..MaxStall
        BY <1>7 DEF ReqType
    <2> QED
        BY <1>7, <2>1 DEF Heartbeat, Stamp
<1>8. ASSUME NEW h \in Handlers, Release(h)
      PROVE  ClocksAgree'
    BY <1>8 DEF Release, ClearLease
<1>9. ASSUME LoopSkip
      PROVE  ClocksAgree'
    BY <1>9 DEF LoopSkip
<1>10. ASSUME InitPublisher
      PROVE  ClocksAgree'
    BY <1>10 DEF InitPublisher
<1>11. ASSUME LoopActive
      PROVE  ClocksAgree'
    BY <1>11 DEF LoopActive
<1>12. ASSUME LoopExpire
      PROVE  ClocksAgree'
    BY <1>12 DEF LoopExpire, ClearLease
<1>13. ASSUME LoopNoLease
      PROVE  ClocksAgree'
    BY <1>13 DEF LoopNoLease
<1>14. ASSUME LoopPublish
      PROVE  ClocksAgree'
    BY <1>14 DEF LoopPublish
<1>15. ASSUME LoopHold
      PROVE  ClocksAgree'
    BY <1>15 DEF LoopHold
<1>16. ASSUME Tick
      PROVE  ClocksAgree'
    BY <1>16 DEF Tick, Min2
<1>17. ASSUME UNCHANGED vars
      PROVE  ClocksAgree'
    BY <1>17 DEF vars
<1> QED
    BY <1>1, <1>2, <1>3, <1>4, <1>5, <1>6, <1>7, <1>8, <1>9, <1>10, <1>11, <1>12, <1>13, <1>14, <1>15, <1>16, <1>17
    DEF Next, Begin, Finish, Renew, Loop, BeginInput, BeginHeartbeat, BeginRelease, Sticks

----------------------------------------------------------------------------
\* The published stick

LEMMA InitOutput == Init => OutputOK
BY DEF Init, OutputOK

\* The contact time bounds what is published, across every late write.
LEMMA NextOutput ==
    ASSUME TypeOK, ClocksAgree, OutputOK, [Next]_vars
    PROVE  OutputOK'
<1> USE TimingOK DEF TimingOK, TypeOK, ClocksAgree, OutputOK, Never, core
<1>1. ASSUME NEW h \in Handlers, NEW c \in Clients, BeginAcquire(h, c)
      PROVE  OutputOK'
    BY <1>1 DEF BeginAcquire
<1>2. ASSUME NEW h \in Handlers, NEW c \in Clients, NEW s \in Sticks,
             NEW k \in {"input", "heartbeat", "release"}, BeginOwned(h, c, k, s)
      PROVE  OutputOK'
    BY <1>2 DEF BeginOwned
<1>3. ASSUME NEW h \in Handlers, AcquireBusy(h)
      PROVE  OutputOK'
    BY <1>3 DEF AcquireBusy
<1>4. ASSUME NEW h \in Handlers, Acquire(h)
      PROVE  OutputOK'
    <2>1. req[h].age \in 0..MaxStall
        BY <1>4 DEF ReqType
    <2> QED
        BY <1>4, <2>1 DEF Acquire
<1>5. ASSUME NEW h \in Handlers, InputGate(h)
      PROVE  OutputOK'
    BY <1>5 DEF InputGate
<1>6. ASSUME NEW h \in Handlers, InputWrite(h)
      PROVE  OutputOK'
    <2>1. req[h].age \in 0..MaxStall
        BY <1>6 DEF ReqType
    <2> QED
        BY <1>6, <2>1 DEF InputWrite, Stamp
<1>7. ASSUME NEW h \in Handlers, Heartbeat(h)
      PROVE  OutputOK'
    <2>1. req[h].age \in 0..MaxStall
        BY <1>7 DEF ReqType
    <2> QED
        BY <1>7, <2>1 DEF Heartbeat, Stamp
<1>8. ASSUME NEW h \in Handlers, Release(h)
      PROVE  OutputOK'
    BY <1>8 DEF Release, ClearLease
<1>9. ASSUME LoopSkip
      PROVE  OutputOK'
    BY <1>9 DEF LoopSkip
<1>10. ASSUME InitPublisher
      PROVE  OutputOK'
    BY <1>10 DEF InitPublisher
<1>11. ASSUME LoopActive
      PROVE  OutputOK'
    BY <1>11 DEF LoopActive, Active, ActiveAt, InputTimedOut
<1>12. ASSUME LoopExpire
      PROVE  OutputOK'
    BY <1>12 DEF LoopExpire, ClearLease, Active, ActiveAt
<1>13. ASSUME LoopNoLease
      PROVE  OutputOK'
    BY <1>13 DEF LoopNoLease
<1>14. ASSUME LoopPublish
      PROVE  OutputOK'
    BY <1>14 DEF LoopPublish
<1>15. ASSUME LoopHold
      PROVE  OutputOK'
    BY <1>15 DEF LoopHold
<1>16. ASSUME Tick
      PROVE  OutputOK'
    BY <1>16 DEF Tick, Min2
<1>17. ASSUME UNCHANGED vars
      PROVE  OutputOK'
    BY <1>17 DEF vars
<1> QED
    BY <1>1, <1>2, <1>3, <1>4, <1>5, <1>6, <1>7, <1>8, <1>9, <1>10, <1>11, <1>12, <1>13, <1>14, <1>15, <1>16, <1>17
    DEF Next, Begin, Finish, Renew, Loop, BeginInput, BeginHeartbeat, BeginRelease, Sticks

\* The publisher thread's turn ends with no lease, an active one, or a hold.
LEMMA NextTurn ==
    ASSUME TypeOK, OutputOK, TurnOK, [Next]_vars
    PROVE  TurnOK'
<1> USE TimingOK DEF TimingOK, TypeOK, OutputOK, TurnOK, core
<1>1. ASSUME NEW h \in Handlers, NEW c \in Clients, BeginAcquire(h, c)
      PROVE  TurnOK'
    BY <1>1 DEF BeginAcquire
<1>2. ASSUME NEW h \in Handlers, NEW c \in Clients, NEW s \in Sticks,
             NEW k \in {"input", "heartbeat", "release"}, BeginOwned(h, c, k, s)
      PROVE  TurnOK'
    BY <1>2 DEF BeginOwned
<1>3. ASSUME NEW h \in Handlers, AcquireBusy(h) \/ InputGate(h)
      PROVE  TurnOK'
    BY <1>3 DEF AcquireBusy, InputGate
<1>4. ASSUME NEW h \in Handlers, Acquire(h) \/ InputWrite(h) \/ Heartbeat(h)
      PROVE  TurnOK'
    <2>1. req[h].age \in 0..MaxStall
        BY <1>4 DEF ReqType
    <2>2. leaseLeft' > 0
        BY <1>4, <2>1 DEF Acquire, InputWrite, Heartbeat, Stamp
    <2> QED
        BY <2>2
<1>5. ASSUME NEW h \in Handlers, Release(h)
      PROVE  TurnOK'
    BY <1>5 DEF Release, ClearLease
<1>6. CASE LoopSkip \/ InitPublisher
    BY <1>6 DEF LoopSkip, InitPublisher
<1>7. CASE LoopActive
    BY <1>7 DEF LoopActive, Active, ActiveAt
<1>8. CASE LoopExpire
    BY <1>8 DEF LoopExpire, ClearLease
<1>9. CASE LoopNoLease
    BY <1>9 DEF LoopNoLease
<1>10. CASE LoopPublish
    BY <1>10 DEF LoopPublish
<1>11. CASE LoopHold
    BY <1>11 DEF LoopHold
<1>12. CASE Tick
    BY <1>12 DEF Tick
<1>13. CASE UNCHANGED vars
    BY <1>13 DEF vars
<1> QED
    BY <1>1, <1>2, <1>3, <1>4, <1>5, <1>6, <1>7, <1>8, <1>9, <1>10, <1>11, <1>12, <1>13
    DEF Next, Begin, Finish, Renew, Loop, BeginInput, BeginHeartbeat, BeginRelease, Sticks

----------------------------------------------------------------------------
\* Theorems

LEMMA InitIInv == Init => IInv
<1>1. Init => TurnOK
    BY DEF Init, TurnOK
<1> QED
    BY <1>1, InitTypes, InitLease, InitOutput DEF IInv

LEMMA NextIInv == IInv /\ [Next]_vars => IInv'
BY NextTypes, NextLease, NextClocks, NextOutput, NextTurn DEF IInv

\* The inductive invariant holds in every reachable state.
THEOREM Invariance == Spec => []IInv
BY InitIInv, NextIInv, PTL DEF Spec

\* Every field of the controller and of its threads keeps its type.
THEOREM TypeCorrect == Spec => []TypeOK
<1>1. IInv => TypeOK
    BY DEF IInv
<1> QED
    BY <1>1, Invariance, PTL

\* Lease, owner and mode agree whatever late request wrote last.
THEOREM LeaseIsConsistent == Spec => []LeaseConsistent
<1>1. IInv => LeaseConsistent
    BY DEF IInv
<1> QED
    BY <1>1, Invariance, PTL

\* The lease's expiry and the last contact always come from one stamp.
THEOREM ClocksAlwaysAgree == Spec => []ClocksAgree
<1>1. IInv => ClocksAgree
    BY DEF IInv
<1> QED
    BY <1>1, Invariance, PTL

\* The dead man's switch works for every timing that satisfies TimingOK.
THEOREM DeadmanWorks == Spec => []DeadmanNeutral
<1>1. IInv => DeadmanNeutral
    BY DEF IInv, OutputOK, DeadmanNeutral, Active, ActiveAt
<1> QED
    BY <1>1, Invariance, PTL

\* A silent pilot loses the lease within the ttl, at the publisher thread's next turn.
THEOREM LeaseAlwaysRunsOut == Spec => []LeaseRunsOut
<1>1. IInv => LeaseRunsOut
    BY TimingOK DEF TimingOK, IInv, TypeOK, ClocksAgree, TurnOK, LeaseRunsOut, Never
<1> QED
    BY <1>1, Invariance, PTL

----------------------------------------------------------------------------
\* Action properties

\* Only acquire, release and the lease timeout write the lease or its owner.
LEMMA LeaseWriters ==
    ASSUME [Next]_vars
    PROVE  \/ lease' = lease /\ owner' = owner
           \/ \E h \in Handlers : Acquire(h) \/ Release(h)
           \/ LoopExpire
BY DEF Next, Begin, Finish, Renew, Loop, BeginInput, BeginHeartbeat, BeginRelease, BeginAcquire,
       BeginOwned, AcquireBusy, InputGate, InputWrite, Heartbeat, LoopSkip, InitPublisher,
       LoopActive, LoopNoLease, LoopPublish, LoopHold, Tick, core, vars

\* The input timeout has always neutralised the stick before a lease times out.
THEOREM NeutralBeforeTimeoutHolds == Spec => NeutralBeforeTimeout
<1> DEFINE Neutral == lease # NoLease /\ lease' = NoLease /\ req' = req
                        => lastOut # "deflected"
<1>1. ASSUME IInv, [Next]_vars PROVE Neutral
    <2>1. ASSUME NEW h \in Handlers, Acquire(h) PROVE Neutral
        BY <2>1, ConstantsOK DEF ConstantsOK, Acquire
    <2>2. ASSUME NEW h \in Handlers, Release(h) PROVE Neutral
        BY <1>1, <2>2, IdleType DEF Release, IInv, TypeOK
    <2>3. ASSUME LoopExpire PROVE Neutral
        BY <1>1, <2>3, TimingOK DEF TimingOK, LoopExpire, Active, ActiveAt, IInv, TypeOK,
                                    ClocksAgree, OutputOK, Never
    <2> QED
        BY <1>1, <2>1, <2>2, <2>3, LeaseWriters
<1>2. IInv /\ [Next]_vars => [Neutral]_vars
    BY <1>1
<1> QED
    BY <1>2, Invariance, PTL DEF Spec, NeutralBeforeTimeout

----------------------------------------------------------------------------
\* The refinement: the controller is an exclusive lease.

\* The time left of the lease, as Exclusive sees it.
Left == IF owner # NoClient /\ leaseLeft > 0 THEN leaseLeft ELSE 0

\* Steps that leave the lease and its clock alone are no steps of the abstract lease.
LEMMA LeaseUntouched ==
    ASSUME UNCHANGED <<owner, leaseLeft>>
    PROVE  UNCHANGED Exclusive!vars
BY DEF Exclusive!vars

\* A request that stamps the clocks is a grant, a renewal, or too late for both.
LEMMA StampIsRenewal ==
    ASSUME IInv, NEW m \in 0..MaxStall, NEW a \in 0..m, Stamp(a), UNCHANGED owner
    PROVE  [Exclusive!Next]_(Exclusive!vars)
<1>1. leaseLeft' \in 1..TTL
    BY TimingOK DEF TimingOK, Stamp
<1>2. CASE owner = NoClient
    BY <1>1, <1>2 DEF Exclusive!vars
<1>3. CASE owner # NoClient
    <2>1. Left' \in 1..TTL
        BY <1>1, <1>3 DEF Left
    <2>2. Exclusive!Renew
        BY <1>3, <2>1 DEF Exclusive!Renew, Left
    <2> QED
        BY <2>2 DEF Exclusive!Next
<1> QED
    BY <1>2, <1>3

\* An acquire that is not refused takes a lease that is free, run out, or its client's own:
\* an older stamp only makes the lease of another look longer.
LEMMA AcquireIsGrant ==
    ASSUME IInv, NEW h \in Handlers, Acquire(h)
    PROVE  Exclusive!Next
<1>1. req[h].age \in 0..MaxStall /\ leaseLeft \in Int /\ req[h].client \in Clients
    BY TimingOK DEF TimingOK, IInv, TypeOK, ReqType, RequestsOK, Acquire
<1>2. leaseLeft' \in 1..TTL /\ owner' = req[h].client /\ owner' # NoClient
    BY <1>1, TimingOK, ConstantsOK DEF TimingOK, ConstantsOK, Acquire
<1>3. Left' \in 1..TTL
    BY <1>2 DEF Left
<1>4. ~(owner # NoClient /\ Left > 0) \/ owner = req[h].client
    BY <1>1, TimingOK, ConstantsOK DEF TimingOK, ConstantsOK, Left, Acquire, Busy, ActiveAt,
                                       IInv, LeaseConsistent
<1>5. Exclusive!Grant(req[h].client)
    BY <1>2, <1>3, <1>4 DEF Exclusive!Grant, Exclusive!Active, Left
<1> QED
    BY <1>1, <1>5 DEF Exclusive!Next

\* What release and the lease timeout do ends the lease, if there is one.
LEMMA ClearIsEnd ==
    ASSUME ClearLease
    PROVE  [Exclusive!Next]_(Exclusive!vars)
<1>1. owner' = NoClient
    BY DEF ClearLease
<1>2. CASE owner = NoClient
    BY <1>1, <1>2 DEF Exclusive!vars
<1>3. CASE owner # NoClient
    BY <1>1, <1>3 DEF Exclusive!Next, Exclusive!End
<1> QED
    BY <1>2, <1>3

\* A quantum passes for the abstract lease until nothing is left of it.
LEMMA TickIsPass ==
    ASSUME IInv, Tick
    PROVE  [Exclusive!Next]_(Exclusive!vars)
<1>1. /\ owner' = owner /\ leaseLeft \in (-MaxStall)..TTL
      /\ leaseLeft' = IF leaseLeft > -MaxStall THEN leaseLeft - 1 ELSE leaseLeft
    BY DEF Tick, IInv, TypeOK
<1>2. CASE owner # NoClient /\ leaseLeft > 0
    <2>1. Left > 0 /\ Left' = Left - 1
        BY <1>1, <1>2, TimingOK DEF TimingOK, Left
    <2> QED
        BY <1>1, <2>1 DEF Exclusive!Next, Exclusive!Pass, Left
<1>3. CASE ~(owner # NoClient /\ leaseLeft > 0)
    <2>1. Left' = Left
        BY <1>1, <1>3, TimingOK DEF TimingOK, Left
    <2> QED
        BY <1>1, <2>1 DEF Exclusive!vars, Left
<1> QED
    BY <1>2, <1>3

\* Every step of the controller is a step of the abstract lease, or none of it.
LEMMA LeaseSteps == IInv /\ [Next]_vars => [Exclusive!Next]_(Exclusive!vars)
<1> SUFFICES ASSUME IInv, [Next]_vars PROVE [Exclusive!Next]_(Exclusive!vars)
    OBVIOUS
<1>1. ASSUME NEW h \in Handlers, Acquire(h) PROVE [Exclusive!Next]_(Exclusive!vars)
    BY <1>1, AcquireIsGrant
<1>2. ASSUME NEW h \in Handlers, Renew(h) PROVE [Exclusive!Next]_(Exclusive!vars)
    <2>1. req[h].age \in 0..MaxStall
        BY DEF IInv, TypeOK, ReqType
    <2>2. \E a \in 0..req[h].age : Stamp(a) /\ UNCHANGED owner
        BY <1>2, Zenon DEF Renew, InputWrite, Heartbeat
    <2> QED
        BY <2>1, <2>2, StampIsRenewal
<1>3. ASSUME NEW h \in Handlers, Release(h) PROVE [Exclusive!Next]_(Exclusive!vars)
    BY <1>3, ClearIsEnd, Zenon DEF Release
<1>4. CASE LoopExpire
    BY <1>4, ClearIsEnd, Zenon DEF LoopExpire
<1>5. CASE Tick
    BY <1>5, TickIsPass
<1>6. ASSUME NEW h \in Handlers, Begin(h) \/ AcquireBusy(h) \/ InputGate(h)
      PROVE  UNCHANGED <<owner, leaseLeft>>
    BY <1>6 DEF Begin, BeginAcquire, BeginInput, BeginHeartbeat, BeginRelease, BeginOwned,
                AcquireBusy, InputGate, core
<1>7. CASE LoopSkip \/ LoopActive \/ LoopNoLease \/ LoopPublish \/ LoopHold \/ InitPublisher
    <2>1. UNCHANGED <<owner, leaseLeft>>
        BY <1>7 DEF LoopSkip, LoopActive, LoopNoLease, LoopPublish, LoopHold, InitPublisher, core
    <2> QED
        BY <2>1, LeaseUntouched
<1>8. CASE UNCHANGED vars
    <2>1. UNCHANGED <<owner, leaseLeft>>
        BY <1>8 DEF vars, core
    <2> QED
        BY <2>1, LeaseUntouched
<1>9. ASSUME NEW h \in Handlers, Begin(h) \/ AcquireBusy(h) \/ InputGate(h)
      PROVE  [Exclusive!Next]_(Exclusive!vars)
    BY <1>6, <1>9, LeaseUntouched
<1> QED
    BY <1>1, <1>2, <1>3, <1>4, <1>5, <1>7, <1>8, <1>9 DEF Next, Finish, Loop

\* The controller implements the abstract exclusive lease: nobody takes over a lease that has
\* not run out, and time runs it out unless its holder renews it.
THEOREM ControllerImplementsLease == Spec => ImplementsLease
<1>1. Init => Exclusive!Init
    BY DEF Init, Exclusive!Init
<1> QED
    BY <1>1, LeaseSteps, Invariance, PTL DEF Spec, Exclusive!Spec, ImplementsLease
=============================================================================
