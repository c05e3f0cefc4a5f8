---------------------------- MODULE MCSpdLogger ----------------------------
(* Values of the constants of SpdLogger for TLC.  Level 0 is trace and info, *)
(* 1 is an error that is flushed, 2 is off.                                *)
EXTENDS SpdLogger, TLC

MCSinkLevel  == <<0, 1>>
MCCallLevels == {0, 1}
MCAll        == {"ok", "std", "unknown"}
MCSymmetry   == Permutations(Threads)
=============================================================================
