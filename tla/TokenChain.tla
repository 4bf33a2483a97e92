----------------------------- MODULE TokenChain -----------------------------
(***************************************************************************)
(* What one-time refresh tokens promise.  A family is a chain: it has one  *)
(* redeemable token at a time, its head.  Redeeming the head replaces it   *)
(* by a token never seen before, and a family that has ended has no head   *)
(* ever again.  Several families may end together, when what they all      *)
(* rest on is taken away.                                                  *)
(***************************************************************************)
CONSTANTS
  Token,  \* refresh tokens; a family is named by its first token
  None    \* no token

VARIABLES
  phase,  \* of each family: "unborn", "alive" or "ended"
  head,   \* the redeemable token of each family that is alive
  used    \* tokens that have been issued

vars == <<phase, head, used>>

Init ==
  /\ phase = [f \in Token |-> "unborn"]
  /\ head = [f \in Token |-> None]
  /\ used = {}

Begin(f) ==
  /\ phase[f] = "unborn" /\ f \notin used
  /\ phase' = [phase EXCEPT ![f] = "alive"]
  /\ head' = [head EXCEPT ![f] = f]
  /\ used' = used \cup {f}

Redeem(f, t) ==
  /\ phase[f] = "alive" /\ t \notin used
  /\ head' = [head EXCEPT ![f] = t]
  /\ used' = used \cup {t}
  /\ UNCHANGED phase

Alive == {f \in Token : phase[f] = "alive"}

End(F) ==
  /\ F \subseteq Alive
  /\ phase' = [f \in Token |-> IF f \in F THEN "ended" ELSE phase[f]]
  /\ head' = [f \in Token |-> IF f \in F THEN None ELSE head[f]]
  /\ UNCHANGED used

Next ==
  \/ \E f \in Token : Begin(f)
  \/ \E f \in Token, t \in Token : Redeem(f, t)
  \/ \E F \in SUBSET Alive : End(F)

Spec == Init /\ [][Next]_vars
=============================================================================
