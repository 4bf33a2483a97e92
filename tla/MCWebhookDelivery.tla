-------------------------- MODULE MCWebhookDelivery --------------------------
(* An instance of WebhookDelivery for TLC. *)
EXTENDS WebhookDelivery, TLC

Symmetry == Permutations(Request) \cup Permutations(RetryKey) \cup Permutations(Sender)
=============================================================================
