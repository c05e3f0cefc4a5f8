--------------------------- MODULE MCRotatingFile ---------------------------
(* Values of the constants of RotatingFile for TLC: short messages, and one  *)
(* that is longer than a file may be.                                      *)
EXTENDS RotatingFile

MCLengths  == {1, 2, 4}
MCOnOpen   == BOOLEAN
=============================================================================
