---------------------------- MODULE Credentials ----------------------------
(***************************************************************************)
(* What an issuer of credentials promises, whatever it forgets, and however*)
(* often it is restarted: a token is handed out once in all time, to one   *)
(* client; a client is handed a token only when it holds none; and a token *)
(* that lapsed is never accepted again.                                    *)
(***************************************************************************)

CONSTANTS Clients, Tokens

VARIABLES
    fresh,    \* tokens nobody was handed yet
    live      \* the accepted credentials: <<client, token>>

vars == <<fresh, live>>

Init == fresh = Tokens /\ live = {}

\* Credentials lapse: expired, revoked, rotated, or forgotten.
Lapse ==
    /\ live' \in SUBSET live
    /\ UNCHANGED fresh

HoldsNone(c) == \A t \in Tokens : <<c, t>> \notin live

HandOut(c, t) ==
    /\ t \in fresh
    /\ HoldsNone(c)
    /\ fresh' = fresh \ {t}
    /\ \E kept \in SUBSET live : live' = kept \cup {<<c, t>>}

Next == Lapse \/ \E c \in Clients, t \in Tokens : HandOut(c, t)

Spec == Init /\ [][Next]_vars
=============================================================================
