--------------------------- MODULE MCCalibration ---------------------------
(* Calibration with a probe that reads five values, so that some pairs are    *)
(* too close and some are not, whichever of the two is written.               *)
EXTENDS Calibration

MCReadings == 0..4
=============================================================================
