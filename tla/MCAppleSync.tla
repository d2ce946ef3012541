---------------------------- MODULE MCAppleSync -----------------------------
(* Small instances of AppleSync for TLC. *)
EXTENDS AppleSync, TLC

\* Two source users whose userNames may be equal; their other values are fixed,
\* because the run only compares them with those of the directory.
CONSTANTS e1, e2, m1, o1
TwoUsers ==
  {<<[ext |-> e1, user |-> a, mail |-> m1, other |-> o1],
     [ext |-> e2, user |-> b, mail |-> m1, other |-> o1]>> : a, b \in Names}
=============================================================================
