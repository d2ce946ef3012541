--------------------------- MODULE MCRetrySchedule ---------------------------
(* A scaled-down instance of RetrySchedule for TLC. *)
EXTENDS RetrySchedule, TLC
=============================================================================
