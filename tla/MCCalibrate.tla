---------------------------- MODULE MCCalibrate ----------------------------
(***************************************************************************)
(* Values for the constants of Calibrate: a group of three scenarios with  *)
(* different start values, elapsed times below, at and above --min-ms.     *)
(***************************************************************************)
EXTENDS Calibrate

MCAll == KnownKinds
MCStarts == <<10000, 1, 400000000>>
MCIterations == {0, 1, 2147483647}
MCTimes == {0, 200, 201}
MCErrs == {-12, 1}
=============================================================================
