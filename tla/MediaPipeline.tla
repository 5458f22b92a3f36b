--------------------------- MODULE MediaPipeline ---------------------------
(***************************************************************************)
(* MediaMtxController and its poller, docker/media-gateway/app.py: every   *)
(* few seconds mediamtx is checked, the camera candidates are probed when  *)
(* it is not healthy, and mediamtx is restarted for the camera found, but  *)
(* not soon after the last restart.  mediamtx and the cameras are external *)
(* and do what they like between any two steps.  A camera is busy when a   *)
(* program holds it, mediamtx's own publisher included.  With the MJPEG    *)
(* source, as shipped, there is one candidate, its URL, never busy.        *)
(* _missing_polls decides a log line only and is left out; the profiles    *)
(* are there exactly when a device is selected.                            *)
(***************************************************************************)
EXTENDS Integers, Sequences

CONSTANTS
    Candidates,    \* [preferredDevice, *fallbackDevices], or the MJPEG URL
    Holdable,      \* the candidates that a program can hold: v4l2 devices
    OnDemand,      \* publisherMode is not "always"
    OfflinePolls,  \* offlineRecoverPolls
    BackoffPolls,  \* after so many polls, 5 s apart at least, the back-off of 8 s has passed
    NoDevice       \* no device

Devices == {Candidates[i] : i \in DOMAIN Candidates}

PipelineAssumption ==
    /\ Candidates # <<>> /\ Candidates \in Seq(Devices)
    /\ NoDevice \notin Devices /\ Holdable \subseteq Devices
    /\ OnDemand \in BOOLEAN
    /\ OfflinePolls \in Nat \ {0} /\ BackoffPolls \in Nat \ {0}

VARIABLES
    camera,    \* external: what a probe of each device finds
    process,   \* mediamtx: "down", "hung" (its API does not answer) or "up"
    serves,    \* the device in the configuration of the mediamtx that runs
    selected,  \* selected_device
    ready,     \* mediamtx_ready
    online,    \* a path is ready and online in path_statuses
    step,      \* where the poller is; before its start, where main is
    running,   \* publisher_running, read before the probes; FALSE when they are over
    offline,   \* _offline_polls
    cooling,   \* in how many polls the back-off of the last restart has passed; 0: it has
    bad        \* history: the unhealthy checks in a row since mediamtx was last stopped

vars == <<camera, process, serves, selected, ready, online, step, running, offline,
          cooling, bad>>

Looks(d) == {"absent", "ready"} \cup IF d \in Holdable THEN {"busy"} ELSE {}
Cameras == {c \in [Devices -> {"absent", "ready", "busy"}] : \A d \in Devices : c[d] \in Looks(d)}

AtMost(cap, n) == IF n < cap THEN n ELSE cap

Init ==
    /\ camera \in Cameras
    /\ process = "down" /\ serves = NoDevice
    /\ selected = NoDevice /\ ready = FALSE /\ online = FALSE
    /\ step = "boot" /\ running = FALSE
    /\ offline = 0 /\ cooling = 0 /\ bad = 0

----------------------------------------------------------------------------
\* The probes

\* probe_camera_candidates: the first candidate that can be captured from.
Found ==
    LET able == {i \in DOMAIN Candidates : camera[Candidates[i]] = "ready"}
    IN  IF able = {} THEN NoDevice
        ELSE Candidates[CHOOSE i \in able : \A j \in able : i <= j]

Preferred == Candidates[1]

\* The busy device that is taken to be held by mediamtx: the selected one, or without one the
\* preferred.
Held ==
    LET device == IF selected # NoDevice THEN selected ELSE Preferred
    IN  IF camera[device] = "busy" THEN device ELSE NoDevice

\* selected_device after the probes.
Now == IF Found # NoDevice THEN Found ELSE IF running THEN Held ELSE NoDevice

----------------------------------------------------------------------------
\* The poller

\* startup_probe and main.
Boot ==
    /\ step = "boot"
    /\ selected' = Found
    /\ step' = IF Found # NoDevice THEN "start" ELSE "rest"
    /\ UNCHANGED <<camera, process, serves, ready, online, running, offline,
                   cooling, bad>>

Healthy == ready /\ (online \/ OnDemand)

\* The next poll, and refresh_health.  On demand nobody asks whether a path is online.
Check ==
    /\ step = "rest"
    /\ ready' = (process = "up")
    /\ online' \in IF ready' /\ ~OnDemand /\ camera[serves] # "absent" THEN BOOLEAN ELSE {FALSE}
    /\ bad' = IF ready' /\ (online' \/ OnDemand) THEN 0 ELSE AtMost(OfflinePolls, bad + 1)
    /\ cooling' \in IF cooling = 0 THEN {0} ELSE {0, cooling - 1}
    /\ step' = "glance"
    /\ UNCHANGED <<camera, process, serves, selected, running, offline>>

\* Mutant: a healthy check does not clear the counter.
GlanceOnly ==
    /\ step = "glance"
    /\ LET fine == selected # NoDevice /\ process # "down" /\ Healthy
       IN  /\ step' = IF fine THEN "rest" ELSE "probe"
           /\ running' = (process # "down" /\ ~fine)
    /\ UNCHANGED <<camera, process, serves, selected, ready, online, offline, cooling, bad>>

\* The beginning of reconcile_camera: of a healthy publisher the camera is not probed.
Glance ==
    /\ step = "glance"
    /\ LET fine == selected # NoDevice /\ process # "down" /\ Healthy
       IN  /\ step' = IF fine THEN "rest" ELSE "probe"
           /\ running' = (process # "down" /\ ~fine)
           /\ offline' = IF fine THEN 0 ELSE offline
    /\ UNCHANGED <<camera, process, serves, selected, ready, online, cooling, bad>>

\* Mutant: another device is no reason to restart.
NeverChanged == FALSE

Changed == selected # NoDevice /\ Now \notin {NoDevice, selected}

\* What the probes say goes to selected_device, and the poll ends.
Settle ==
    /\ step = "probe"
    /\ selected' = Now
    /\ step' = "rest" /\ running' = FALSE
    /\ UNCHANGED <<camera, process, serves, ready, online, cooling, bad>>

\* The camera is missing, mediamtx is kept; or there is nothing to do.
Leave ==
    /\ Settle
    /\ running /\ ~Changed
    /\ Now = NoDevice \/ Healthy
    /\ offline' = 0

\* Mutant: the poll is not counted.
CountNothing ==
    /\ Settle
    /\ running /\ ~Changed /\ Now # NoDevice /\ ~Healthy
    /\ offline + 1 < OfflinePolls
    /\ UNCHANGED offline

\* Mutant: it is counted however often.
CountOn ==
    /\ Settle
    /\ running /\ ~Changed /\ Now # NoDevice /\ ~Healthy
    /\ offline' = offline + 1

\* mediamtx does not answer, or its stream is offline: wait for one more poll.
Count ==
    /\ Settle
    /\ running /\ ~Changed /\ Now # NoDevice /\ ~Healthy
    /\ offline + 1 < OfflinePolls
    /\ offline' = offline + 1

Reason ==
    \/ ~running
    \/ Changed
    \/ Now # NoDevice /\ ~Healthy /\ offline + 1 >= OfflinePolls

\* There is a reason to restart, but the last restart was less than 8 s ago.
HoldOff ==
    /\ Settle
    /\ Reason /\ cooling > 0
    /\ offline' = 0

\* stop(), and start() follows when there is a device.
Restart ==
    /\ step = "probe"
    /\ Reason /\ cooling = 0
    /\ cooling' = BackoffPolls
    /\ selected' = Now
    /\ process' = "down" /\ serves' = NoDevice /\ ready' = FALSE
    /\ offline' = 0 /\ bad' = 0
    /\ step' = (IF Now # NoDevice THEN "start" ELSE "rest") /\ running' = FALSE
    /\ UNCHANGED <<camera, online>>

\* start(): the API of the new mediamtx answers in time.
Start ==
    /\ step = "start"
    /\ process' = "up" /\ serves' = selected /\ ready' = TRUE
    /\ step' = "rest"
    /\ UNCHANGED <<camera, selected, online, running, offline, cooling, bad>>

\* start() raises: mediamtx is not there, has exited, or does not answer within 15 s.
StartFails ==
    /\ step = "start"
    /\ \/ process' = "hung" /\ serves' = selected
       \/ UNCHANGED <<process, serves>>
    /\ step' = "rest"
    /\ UNCHANGED <<camera, selected, ready, online, running, offline, cooling, bad>>

\* A v4l2 probe that outlives the limit of subprocess.run raises, and nobody catches it: the
\* poller's thread ends.
Die ==
    /\ step = "probe"
    /\ step' = "dead" /\ running' = FALSE
    /\ UNCHANGED <<camera, process, serves, selected, ready, online, offline, cooling, bad>>

Poll == Boot \/ Check \/ Glance \/ Leave \/ Count \/ HoldOff \/ Restart \/ Start

----------------------------------------------------------------------------
\* The rest

\* A camera is plugged in or out, taken or given back.
CameraChanges ==
    /\ \E d \in Devices : \E look \in Looks(d) \ {camera[d]} : camera' = [camera EXCEPT ![d] = look]
    /\ UNCHANGED <<process, serves, selected, ready, online, step, running, offline,
                   cooling, bad>>

\* mediamtx exits, hangs, or answers again.
MediaMtx ==
    /\ process # "down"
    /\ process' \in {"down", "hung", "up"} \ {process}
    /\ serves' = IF process' = "down" THEN NoDevice ELSE serves
    /\ UNCHANGED <<camera, selected, ready, online, step, running, offline, cooling, bad>>

World == CameraChanges \/ MediaMtx

Next == Poll \/ StartFails \/ Die \/ World

Spec == Init /\ [][Next]_vars

\* The poller's thread runs on.
Fairness == WF_vars(Poll)

----------------------------------------------------------------------------
\* Properties

\* Type invariant.
TypeOK ==
    /\ camera \in Cameras
    /\ process \in {"down", "hung", "up"} /\ serves \in Devices \cup {NoDevice}
    /\ selected \in Devices \cup {NoDevice} /\ ready \in BOOLEAN /\ online \in BOOLEAN
    /\ step \in {"boot", "rest", "glance", "probe", "start", "dead"} /\ running \in BOOLEAN
    /\ offline \in 0..(OfflinePolls - 1) /\ cooling \in 0..BackoffPolls /\ bad \in 0..OfflinePolls

\* reconcile_camera stops a mediamtx that runs only when as many checks in a row as configured
\* found it unhealthy, or when another device was selected, whatever happened to mediamtx and
\* the cameras between checks and probes.
HealthyIsKept ==
    [][process # "down" /\ cooling = 0 /\ cooling' > 0
         => bad = OfflinePolls \/ selected \notin {NoDevice, selected'}]_vars

\* mediamtx comes to serve another device than the selected one in two ways only: the new one
\* was found after polls without any, or within the back-off of the last restart.
Elsewhere == serves # NoDevice /\ selected \notin {NoDevice, serves}

FollowsSelection == [][Elsewhere' => Elsewhere \/ selected = NoDevice \/ cooling > 0]_vars

\* Whatever mediamtx and the cameras did: once they are left alone, with a camera that works,
\* mediamtx answers again and again, unless a probe has ended the poller.
PublisherReturns ==
    /\ <>[][~(StartFails \/ World)]_vars
    /\ <>[](\E d \in Devices : camera[d] = "ready")
    /\ [](step # "dead")
    => []<>(ready /\ process = "up")

\* How near the poller is to starting mediamtx: a check that was not answered comes first, then
\* the back-off, then the polls still to be counted, then the steps of this poll.
Uncounted == IF ready \/ cooling > 0 THEN 0 ELSE OfflinePolls - offline

StepsLeft ==
    CASE step = "glance" -> 2
      [] step = "probe" -> 1
      [] OTHER -> IF ready \/ cooling > 0 THEN 0 ELSE 3

NearerStart ==
    \/ step' = "start"
    \/ ready /\ ~ready'
    \/ /\ ready' = ready
       /\ \/ cooling' < cooling
          \/ /\ cooling' = cooling
             /\ Uncounted' < Uncounted \/ (Uncounted' = Uncounted /\ StepsLeft' < StepsLeft)

\* What PublisherReturns rests on: with a camera that works, every step of the poller finds
\* mediamtx answering, or brings it nearer to starting it.  Neither the counter that the
\* back-off clears nor the back-off itself can keep it waiting for ever.
PollsAdvance ==
    [][Poll /\ Found # NoDevice => (ready /\ process = "up")' \/ NearerStart]_vars
=============================================================================
