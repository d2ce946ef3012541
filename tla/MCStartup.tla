------------------------------ MODULE MCStartup -----------------------------
(* A small instance of Startup for TLC. *)
EXTENDS Startup, TLC

CONSTANTS h1, h2

\* No allow-list, or one that leaves out a host.
OpenOrTight == {{}, {h1}}

SymmetryKeys == Permutations(KeyIds)
=============================================================================
