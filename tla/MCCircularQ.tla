---------------------------- MODULE MCCircularQ ----------------------------
(* Values of the constants of CircularQ for TLC.                           *)
EXTENDS CircularQ

MCCapacities == {0, 1, 2}
=============================================================================
