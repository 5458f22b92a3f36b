------------------------------- MODULE Lease -------------------------------
(***************************************************************************)
(* What a controller with one lease promises, whatever threads work on it: *)
(* one client at a time, nobody else before the lease has run out, and a   *)
(* lease that runs out as time passes unless it is renewed.  A lease that  *)
(* has run out still has its holder until somebody notices: a renewal on   *)
(* its way may then bring it back, and another client may take it.         *)
(***************************************************************************)
EXTENDS Integers

CONSTANTS Clients, Nobody, Term

VARIABLES
    holder,    \* the client that holds the lease, or Nobody
    left       \* time until the lease runs out

vars == <<holder, left>>

Init == holder = Nobody /\ left = 0

Active == holder # Nobody /\ left > 0

Grant(c) ==
    /\ ~Active \/ holder = c
    /\ holder' = c /\ left' \in 1..Term

Renew ==
    /\ holder # Nobody
    /\ left' \in 1..Term
    /\ UNCHANGED holder

End ==
    /\ holder # Nobody
    /\ holder' = Nobody /\ left' = 0

Pass ==
    /\ left > 0 /\ left' = left - 1
    /\ UNCHANGED holder

Next == (\E c \in Clients : Grant(c)) \/ Renew \/ End \/ Pass

Spec == Init /\ [][Next]_vars
=============================================================================
