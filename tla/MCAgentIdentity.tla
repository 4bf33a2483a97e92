------------------------- MODULE MCAgentIdentity -------------------------
(* Instances of AgentIdentity for TLC. *)
EXTENDS AgentIdentity, TLC

Symmetry ==
  Permutations(Identity) \cup Permutations(Host) \cup Permutations(Intent)
    \cup Permutations(Username) \cup Permutations(Key) \cup Permutations(Handler)

\* A state constraint: while a handler is about to insert an intent, no other
\* handler is in flight.  An intent has its effect when it is approved, and an
\* approval overlaps with everything; registrations, revocations and the erasure
\* are no handlers and still come in between.
IntentsAlone ==
  \A p, q \in Handler :
    p # q /\ proc[p].op \in {"intent", "more"} => proc[q] = Idle
=============================================================================
