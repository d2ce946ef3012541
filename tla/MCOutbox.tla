------------------------------ MODULE MCOutbox ------------------------------
(* Small instances of Outbox for TLC. *)
EXTENDS Outbox, TLC

\* Destinations whose events_requested is empty: every event is wanted.
WantsAll == [d \in Dests |-> {}]

\* One destination wants everything, the others only one event.
WantsSome ==
  LET all  == CHOOSE d \in Dests : TRUE
      only == CHOOSE e \in Events : TRUE
  IN [d \in Dests |-> IF d = all THEN {} ELSE {only}]

\* Ids and requests are interchangeable in the safety properties, and so are
\* keys; destinations are not when they filter differently.
SymmetryRaces == Permutations(Items) \cup Permutations(StreamIds)
SymmetryKeys  == SymmetryRaces \cup Permutations(Keys)
=============================================================================
