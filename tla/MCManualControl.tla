-------------------------- MODULE MCManualControl --------------------------
(* Model values and bounds of ManualControl for TLC. *)
EXTENDS ManualControl

\* The shipped defaults in both operation modes with manualControl.enabled set, the
\* strict dev mode that refuses every lease, and manual control switched off.
MCConfigs ==
    LET Default == [enabled |-> TRUE, mode |-> "dev", requiresFlightMode |-> TRUE,
                    allowNeutralInDev |-> TRUE, holdOnArmedLeaseTimeout |-> TRUE]
    IN  { Default, [Default EXCEPT !.mode = "flight"],
          [Default EXCEPT !.allowNeutralInDev = FALSE], [Default EXCEPT !.enabled = FALSE] }
=============================================================================
