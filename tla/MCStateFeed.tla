---------------------------- MODULE MCStateFeed ----------------------------
(* StateFeed for TLC: a broadcaster, one client, one more publisher; the   *)
(* telemetry deserves readiness by a strong local pose, only while it is   *)
(* latched, or not at all.                                                 *)
EXTENDS StateFeed

Grade(isUp, l, v) == [up |-> isUp, local |-> l, vision |-> v]
MCReports == {Grade(TRUE, "strong", "relaxed"), Grade(TRUE, "exit", "exit"),
              Grade(TRUE, "enter", "relaxed")}
=============================================================================
