----------------------------- MODULE MCThrottle -----------------------------
(* A scaled-down instance of Throttle for TLC. *)
EXTENDS Throttle, TLC
=============================================================================
