--------------------------- MODULE MCLogMakerDlg ---------------------------
(* Values of the constants of LogMakerDlg for TLC.                         *)
EXTENDS LogMakerDlg

MCCounts  == {-1, 0, 1}
=============================================================================
