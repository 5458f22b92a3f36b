-------------------------- MODULE MCFlightCommands --------------------------
(* FlightCommands for TLC: two commands over three heights. *)
EXTENDS FlightCommands
=============================================================================
