---------------------------- MODULE MCSpeedTest ----------------------------
(* The table for the run speed_test: three tests, the largest first, as in the code. *)
EXTENDS SpeedTest

MCTable == <<3, 2, 1>>
=============================================================================
