--------------------------- MODULE MCCopyExecution ---------------------------
(* Small instances of CopyExecution for TLC. *)
EXTENDS CopyExecution

CONSTANTS k1, w1, w2
=============================================================================
