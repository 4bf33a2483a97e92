--------------------------- MODULE MCAgentAccess ---------------------------
(* Instances of AgentAccess for TLC. *)
EXTENDS AgentAccess, TLC

\* Identifiers are interchangeable; scopes are not, where one is automatic.
Symmetry == Permutations(Request) \cup Permutations(Lease) \cup Permutations(Handler)

\* Controllers and the Agent racing over grants, nothing being taken down. Each
\* handler starts where Free(p), its own first guard, lets it.
GrantNext ==
  \/ Tick
  \/ \E p \in Handler :
       \/ Free(p) /\ (Ask(p) \/ Decide(p) \/ Grant(p) \/ Issue(p) \/ Revoke(p))
       \/ Continue(p)

GrantSpec == Init /\ [][GrantNext]_vars

\* Handlers about to open permissions meet each other in GrantSpec; where
\* everything else goes on as well, there is one of them at a time.
Opening(p) == proc[p].pc \in {"approve", "grant", "grantWrite", "grantReread"}
OpeningAlone == \E p \in Handler : ~Opening(p)
=============================================================================
