------------------------- MODULE MCCalibrationSweep -------------------------
(***************************************************************************)
(* Two sweeps and two updates at a time, for TLC.                          *)
(***************************************************************************)
EXTENDS CalibrationSweep

CONSTANTS h1, h2, u1, u2
=============================================================================
