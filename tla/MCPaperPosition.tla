-------------------------- MODULE MCPaperPosition --------------------------
(* Small instances of PaperPosition for TLC. *)
EXTENDS PaperPosition

CONSTANTS w1, p1, p2
=============================================================================
