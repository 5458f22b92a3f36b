--------------------------- MODULE MediaSessions ---------------------------
(***************************************************************************)
(* SessionManager of docker/media-gateway/app.py: WHEP sessions by id.  A  *)
(* request runs on a handler of its own; it finds a session under the lock *)
(* and renews it after it.  The clean-up thread looks at the clock, lists  *)
(* under the lock the sessions whose time was over then, closes them one   *)
(* by one after it and sleeps 10 s.  Every thread may stall before any of  *)
(* its steps, for the lock or for the processor.  Time is in quanta.       *)
(***************************************************************************)
EXTENDS Integers

CONSTANTS
    Ids,       \* session ids
    Handlers,  \* requests that may be handled at once
    Timeout,   \* sessionTimeoutSec
    Sweep,     \* the sleep of the clean-up thread
    MaxStall,  \* the longest stall of a request before a step
    MaxRound,  \* bound: the longest look, listing and closing, and the longest sleep, explored
    NoSession, \* no session has that id
    Free, New  \* a handler with nothing to do; with a session to make

\* A client whose requests are never further apart keeps its session (see SessionsLive).
Keep == Timeout - 2 * MaxStall

SessionsAssumption ==
    /\ {MaxStall, MaxRound, Timeout, Keep} \subseteq Nat /\ Sweep \in 0..MaxRound
    /\ NoSession \notin [age : Nat, idle : 0..Keep, kept : BOOLEAN]
    /\ Free # New /\ {Free, New} \cap Ids = {}

VARIABLES
    sessions,  \* id -> time since created_at; ghosts: time since the client last asked for it,
               \* up to Keep, and whether it never waited longer
    doing,     \* what each handler does: nothing, make a session, renew the one it found
    since,     \* for how long it has been about to renew one
    cleaner,   \* what the clean-up thread does next: "list", "close", or wake from its sleep
    stale,     \* what it has still to close
    elapsed    \* time since it looked at the clock, or went to sleep

requests == <<doing, since>>
cleanUp == <<cleaner, stale, elapsed>>
vars == <<sessions, requests, cleanUp>>

Init ==
    /\ sessions = [i \in Ids |-> NoSession]
    /\ doing = [h \in Handlers |-> Free]
    /\ since = [h \in Handlers |-> 0]
    /\ cleaner = "sleep" /\ stale = {}
    /\ elapsed = Sweep

Open(i) == sessions[i] # NoSession
Unused(i) == ~Open(i) /\ i \notin stale /\ \A h \in Handlers : doing[h] # i

----------------------------------------------------------------------------
\* Requests

Turns(h, what) ==
    /\ doing' = [doing EXCEPT ![h] = what]
    /\ since' = [since EXCEPT ![h] = 0]

\* POST: the checks of do_POST and create_session.
Ask(h) ==
    /\ doing[h] = Free
    /\ Turns(h, New)
    /\ UNCHANGED <<sessions, cleanUp>>

\* get_profile and add_session; the id is a new one, created_at was taken before the lock.
Create(h, i) ==
    /\ doing[h] = New /\ Unused(i)
    /\ \E age \in 0..MaxStall :
          sessions' = [sessions EXCEPT ![i] = [age |-> age, idle |-> 0, kept |-> TRUE]]
    /\ Turns(h, Free)
    /\ UNCHANGED cleanUp

\* get_profile has no profile.
Refuse(h) ==
    /\ doing[h] = New
    /\ Turns(h, Free)
    /\ UNCHANGED <<sessions, cleanUp>>

\* GET, get_session_snapshot: the session is found.
Find(h, i) ==
    /\ doing[h] = Free /\ Open(i)
    /\ sessions' = [sessions EXCEPT ![i].idle = 0]
    /\ Turns(h, i)
    /\ UNCHANGED cleanUp

\* Mutant: its time is not renewed.
TouchNothing(h) ==
    /\ doing[h] \in Ids
    /\ Turns(h, Free)
    /\ UNCHANGED <<sessions, cleanUp>>

\* Its time is renewed, to a time read since it was found; to no avail if it has been closed.
Touch(h) ==
    LET i == doing[h] IN
    /\ i \in Ids
    /\ \E age \in 0..since[h] :
          sessions' = IF Open(i) THEN [sessions EXCEPT ![i].age = age] ELSE sessions
    /\ Turns(h, Free)
    /\ UNCHANGED cleanUp

\* DELETE.
Delete(i) ==
    /\ Open(i)
    /\ sessions' = [sessions EXCEPT ![i] = NoSession]
    /\ UNCHANGED <<requests, cleanUp>>

----------------------------------------------------------------------------
\* The clean-up thread, and time

\* The thread starts, or has slept: cutoff is taken from the clock.
Look ==
    /\ cleaner = "sleep" /\ elapsed >= Sweep
    /\ cleaner' = "list"
    /\ elapsed' = 0
    /\ UNCHANGED <<sessions, requests, stale>>

\* Mutant: a session is given more than its time.
OverLater(i) == sessions[i].age - elapsed > Timeout + 1

\* created_at < cutoff
Over(i) == sessions[i].age - elapsed > Timeout

\* It has still to close what is in left, and sleeps only then.
GoesOn(left) ==
    /\ stale' = left
    /\ cleaner' = IF left = {} THEN "sleep" ELSE "close"
    /\ elapsed' = IF left = {} THEN 0 ELSE elapsed

Collect ==
    /\ cleaner = "list"
    /\ GoesOn({i \in Ids : Open(i) /\ Over(i)})
    /\ UNCHANGED <<sessions, requests>>

Close(i) ==
    /\ i \in stale
    /\ sessions' = [sessions EXCEPT ![i] = NoSession]
    /\ GoesOn(stale \ {i})
    /\ UNCHANGED requests

Older(s) ==
    LET kept == s.kept /\ s.idle < Keep
    IN  [age |-> s.age + 1, idle |-> IF kept THEN s.idle + 1 ELSE 0, kept |-> kept]

Tick ==
    /\ \A h \in Handlers : doing[h] \in Ids => since[h] < MaxStall
    /\ elapsed < MaxRound
    /\ sessions' = [i \in Ids |-> IF Open(i) THEN Older(sessions[i]) ELSE NoSession]
    /\ since' = [h \in Handlers |-> IF doing[h] \in Ids THEN since[h] + 1 ELSE 0]
    /\ elapsed' = elapsed + 1
    /\ UNCHANGED <<doing, cleaner, stale>>

Next ==
    \/ \E h \in Handlers : Ask(h) \/ Refuse(h) \/ Touch(h)
    \/ \E h \in Handlers, i \in Ids : Create(h, i) \/ Find(h, i)
    \/ \E i \in Ids : Delete(i) \/ Close(i)
    \/ Look \/ Collect \/ Tick

Spec == Init /\ [][Next]_vars

----------------------------------------------------------------------------
\* Properties

Session == [age : Nat, idle : 0..Keep, kept : BOOLEAN]

\* Type invariant.
TypeOK ==
    /\ sessions \in [Ids -> Session \cup {NoSession}]
    /\ doing \in [Handlers -> Ids \cup {Free, New}]
    /\ since \in [Handlers -> 0..MaxStall]
    /\ cleaner \in {"list", "close", "sleep"} /\ stale \subseteq Ids
    /\ elapsed \in 0..MaxRound

\* A client that has asked for its session at least every Keep, a timeout less two stalls,
\* has not lost it to the clean-up: its session is on no list, however finding, renewing and
\* a second request's late renewal interleave with the clock, the listing and the closing.
SessionsLive == \A i \in Ids : Open(i) /\ i \in stale => ~sessions[i].kept

\* When the clean-up thread goes to sleep, no session is left whose time was over when it
\* looked at the clock, however long the lock and the closing took.
OldSessionsEnd ==
    [][cleaner # "sleep" /\ cleaner' = "sleep"
          => \A i \in Ids : sessions'[i] # NoSession => sessions'[i].age <= Timeout + elapsed]_vars
=============================================================================
