--------------------------- MODULE MCTelemetryLog ----------------------------
(* Instances of TelemetryLog for TLC.                                      *)
EXTENDS TelemetryLog

CONSTANTS a, b, c, x, y   \* records

\* Three requests end.
Made == <<a, b, c>>

\* A file left with a line that does not parse in the middle of a batch.
LeftFile == <<x, Bad, y, Blank>>
=============================================================================
