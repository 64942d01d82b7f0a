-------------------------- MODULE MCLiveCopyQueue --------------------------
(* Small instances of LiveCopyQueue for TLC. *)
EXTENDS LiveCopyQueue

CONSTANTS e1, d1, d2, r1

=============================================================================
