------------------------- MODULE MCRefreshRotation -------------------------
(* Instances of RefreshRotation for TLC. *)
EXTENDS RefreshRotation, TLC

Symmetry == Permutations(Token) \cup Permutations(Handler)
=============================================================================
