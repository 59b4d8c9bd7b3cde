--------------------------- MODULE MCValueFilter ---------------------------
(* ValueFilter with small limits: readings below, on, inside and beyond    *)
(* both limits, a MaxDiff that separates three clusters of readings.       *)
EXTENDS ValueFilter

MCReadings == -1 .. 10
=============================================================================
