--------------------------- MODULE MCLiveAccount ---------------------------
(* A small instance of LiveAccount for TLC. *)
EXTENDS LiveAccount

CONSTANTS demo, production, call1, call2, worker, command
=============================================================================
