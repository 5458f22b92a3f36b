---------------------------- MODULE MediaGateway ----------------------------
(***************************************************************************)
(* docker/media-gateway/app.py: the pipeline and the sessions, composed    *)
(* where the code composes them: a session is asked for while a device is  *)
(* selected and mediamtx is ready, and made with the profile there is when *)
(* the request gets to it, while the poller goes on selecting, stopping    *)
(* and starting.                                                           *)
(***************************************************************************)
EXTENDS Integers, Sequences

CONSTANTS Candidates, Holdable, OnDemand, OfflinePolls, BackoffPolls, NoDevice,
          Ids, Handlers, Timeout, Sweep, MaxStall, MaxRound, NoSession, Free, New

\* pipeline, see MediaPipeline
VARIABLES camera, process, serves, selected, ready, online, step, running, offline,
          cooling, bad
\* sessions, see MediaSessions
VARIABLES sessions, doing, since, cleaner, stale, elapsed

pipeline == <<camera, process, serves, selected, ready, online, step, running,
              offline, cooling, bad>>
manager == <<sessions, doing, since, cleaner, stale, elapsed>>
vars == <<camera, process, serves, selected, ready, online, step, running, offline,
          cooling, bad, sessions, doing, since, cleaner, stale, elapsed>>

Pipeline == INSTANCE MediaPipeline
Sessions == INSTANCE MediaSessions

ASSUME GatewayAssumption == Pipeline!PipelineAssumption /\ Sessions!SessionsAssumption

Init == Pipeline!Init /\ Sessions!Init

\* do_POST and create_session read the selection and the health without the lock ...
Ask(h) ==
    /\ selected # NoDevice /\ ready
    /\ Sessions!Ask(h)
    /\ UNCHANGED pipeline

\* ... and get_profile may find the profile gone.
Create(h) ==
    /\ \/ selected # NoDevice /\ \E i \in Ids : Sessions!Create(h, i)
       \/ selected = NoDevice /\ Sessions!Refuse(h)
    /\ UNCHANGED pipeline

Read(h) ==
    /\ Sessions!Touch(h) \/ \E i \in Ids : Sessions!Find(h, i)
    /\ UNCHANGED pipeline

Client(i) ==
    /\ Sessions!Delete(i)
    /\ UNCHANGED pipeline

CleanUp ==
    /\ Sessions!Look \/ Sessions!Collect \/ \E i \in Ids : Sessions!Close(i)
    /\ UNCHANGED pipeline

Tick == Sessions!Tick /\ UNCHANGED pipeline

Poll == Pipeline!Poll /\ UNCHANGED manager

World ==
    /\ Pipeline!World \/ Pipeline!StartFails \/ Pipeline!Die
    /\ UNCHANGED manager

Next ==
    \/ \E h \in Handlers : Ask(h) \/ Create(h) \/ Read(h)
    \/ \E i \in Ids : Client(i)
    \/ CleanUp \/ Tick \/ Poll \/ World

Spec == Init /\ [][Next]_vars

\* The poller's thread runs on.
FairSpec == Spec /\ WF_vars(Poll)

----------------------------------------------------------------------------
\* Properties

\* Type invariant.
TypeOK == Pipeline!TypeOK /\ Sessions!TypeOK

\* reconcile_camera: no mediamtx that runs is stopped but for a row of unhealthy checks or for
\* another device.
HealthyIsKept == Pipeline!HealthyIsKept

\* reconcile_camera: mediamtx comes to serve another device than the selected one only when
\* that was found after none, or within the back-off.
FollowsSelection == Pipeline!FollowsSelection

\* MediaPoller: left alone with a camera that works, mediamtx answers again and again.
PublisherReturns == Pipeline!PublisherReturns

\* get_session_snapshot and _cleanup_loop: a client that asks often enough for its session
\* does not lose it to the clean-up.
SessionsLive == Sessions!SessionsLive

\* _cleanup_loop: one round ends every session whose time was over when the round began.
OldSessionsEnd == Sessions!OldSessionsEnd
=============================================================================
