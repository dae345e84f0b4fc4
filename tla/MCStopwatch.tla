---------------------------- MODULE MCStopwatch -----------------------------
(* The instances of MCScaleToZero, with the two stopwatches.                 *)
EXTENDS Stopwatch, MCScaleToZero
=============================================================================
