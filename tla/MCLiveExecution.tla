--------------------------- MODULE MCLiveExecution ---------------------------
(* Small instances of LiveExecution for TLC. *)
EXTENDS LiveExecution

CONSTANTS e1, s1, s2, v1, c1
=============================================================================
