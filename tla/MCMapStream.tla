---------------------------- MODULE MCMapStream ----------------------------
(* MapStream for TLC: two tiles; from one pose a viewer sees the one it is *)
(* in, from the other the nearest it can get.  Bounds: MaxSequence merges, *)
(* MaxMoves pose changes.                                                  *)
EXTENDS MapStream
=============================================================================
