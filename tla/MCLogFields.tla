---------------------------- MODULE MCLogFields ----------------------------
(* Values of the constants of LogFields for TLC.  The limit of a field is  *)
(* scaled down to 2; -1 can be pasted, ES_NUMBER filters typing only.      *)
EXTENDS LogFields

MCNumbers == {-1, 0, 2, 3}
MCChoices == {"Info", "Critical", "Off"}
=============================================================================
