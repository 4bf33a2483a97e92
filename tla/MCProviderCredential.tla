----------------------- MODULE MCProviderCredential -----------------------
(* Instances of ProviderCredential for TLC. *)
EXTENDS ProviderCredential, TLC

Symmetry == Permutations(Token) \cup Permutations(Handler)
=============================================================================
