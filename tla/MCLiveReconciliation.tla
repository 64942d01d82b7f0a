------------------------ MODULE MCLiveReconciliation ------------------------
(* Small instances of LiveReconciliation for TLC. *)
EXTENDS LiveReconciliation

CONSTANTS e1, s1, r1

=============================================================================
