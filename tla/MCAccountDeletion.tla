-------------------------- MODULE MCAccountDeletion --------------------------
(* An instance of AccountDeletion for TLC. *)
EXTENDS AccountDeletion, TLC

\* All the objects are one account's.
OneOwner == [o \in Object |-> CHOOSE u \in User : TRUE]
=============================================================================
