------------------------------ MODULE Delivery ------------------------------
(***************************************************************************)
(* What the outbox promises to whoever posts webhooks: at-least-once       *)
(* delivery of every accepted SET, unless the operator explicitly gives it *)
(* up.  A SET is held from the moment it is accepted; the receiver may get *)
(* it any number of times while it is held and never afterwards; it leaves *)
(* the queue finished (the receiver has it), dropped (its stream was       *)
(* reconfigured after it was accepted) or discarded by the operator.       *)
(***************************************************************************)
CONSTANT Items

VARIABLES phase,    \* where each SET stands
          got,      \* SETs the receiver has taken at least once
          revoked   \* SETs accepted before the latest reconfiguration

vars == <<phase, got, revoked>>

Held == {i \in Items : phase[i] = "held"}

Move(S, p) == phase' = [i \in Items |-> IF i \in S THEN p ELSE phase[i]]

Init ==
  /\ phase = [i \in Items |-> "free"]
  /\ got = {} /\ revoked = {}

Accept(i) == phase[i] = "free" /\ Move({i}, "held") /\ UNCHANGED <<got, revoked>>

Receive(i) == i \in Held /\ got' = got \cup {i} /\ UNCHANGED <<phase, revoked>>

Finish(i) == i \in Held \cap got /\ Move({i}, "finished") /\ UNCHANGED <<got, revoked>>

\* A reconfiguration revokes every held SET and may drop some at once.
Reconfigure(S) ==
  /\ S \subseteq Held
  /\ revoked' = revoked \cup Held
  /\ Move(S, "dropped")
  /\ UNCHANGED got

Drop(i) == i \in Held \cap revoked /\ Move({i}, "dropped") /\ UNCHANGED <<got, revoked>>

Discard(S) == S \subseteq Held /\ Move(S, "discarded") /\ UNCHANGED <<got, revoked>>

Next ==
  \/ \E i \in Items : Accept(i) \/ Receive(i) \/ Finish(i) \/ Drop(i)
  \/ \E S \in SUBSET Items : Reconfigure(S) \/ Discard(S)

Spec == Init /\ [][Next]_vars
=============================================================================
