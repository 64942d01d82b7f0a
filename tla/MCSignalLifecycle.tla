------------------------- MODULE MCSignalLifecycle -------------------------
(* Small instances of SignalLifecycle for TLC. *)
EXTENDS SignalLifecycle

CONSTANTS i1, i2, long1, long2, short, tracker, tracker2, user, recorder, recorder2
=============================================================================
