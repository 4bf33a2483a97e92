--------------------------- MODULE WebhookDelivery ---------------------------
(***************************************************************************)
(* Webhook events: stored as a request for an endpoint, posted to it, and  *)
(* posted again on demand.                                                 *)
(*                                                                         *)
(* Publishing stores one request per subscribed endpoint and attempts it   *)
(* at once; nothing attempts it later unless an administrator asks for     *)
(* another attempt, under an idempotency key of the caller's.  The module  *)
(* follows one endpoint.  Each step is one statement or one outbound call, *)
(* so that senders, administrators and the end of the endpoint interleave  *)
(* between them.                                                           *)
(***************************************************************************)
EXTENDS Naturals

CONSTANTS
  Request,  \* ids of stored requests (a bound on their number)
  RetryKey, \* idempotency keys of attempts asked for
  Sender,   \* invocations that publish or retry
  NoRequest

ASSUME KeyAssumption == "initial" \notin RetryKey
ASSUME RequestAssumption == NoRequest \notin Request

VARIABLES
  endpoint, \* webhook_endpoint: "none", "enabled", "disabled" or "deleted"
  secret,   \* its signing secret: "legacy" (not sealed), "sealed", "rotated"
  request,  \* webhook_delivery_request
  attempt,  \* webhook_delivery_attempt, by request and idempotency key
  posted,   \* how often an attempt was sent to the endpoint, up to twice
  delivery  \* the senders in flight and what they have read

vars == <<endpoint, secret, request, attempt, posted, delivery>>
rows == <<request, attempt>>

-----------------------------------------------------------------------------
(* Records *)

Key == {"initial"} \cup RetryKey

Result == {"pending", "delivered", "failed"}

Sending == {"create", "find", "reserve", "mark", "sign", "post", "saveAttempt", "saveRequest"}

Delivery ==
  [pc: {"idle"} \cup Sending, req: Request \cup {NoRequest}, key: Key,
   secret: {"legacy", "sealed", "rotated"}, outcome: Result]

NoDelivery ==
  [pc |-> "idle", req |-> NoRequest, key |-> "initial", secret |-> "sealed",
   outcome |-> "pending"]

TypeOK ==
  /\ endpoint \in {"none", "enabled", "disabled", "deleted"}
  /\ secret \in {"legacy", "sealed", "rotated"}
  /\ request \in [Request -> Result \cup {"none"}]
  /\ attempt \in [Request -> [Key -> Result \cup {"none"}]]
  /\ posted \in [Request -> [Key -> 0..2]]
  /\ delivery \in [Sender -> Delivery]

-----------------------------------------------------------------------------
(* Helpers *)

SenderAt(s, pc) == delivery[s].pc = pc
Deliver(s, d) == delivery' = [delivery EXCEPT ![s] = d]
SenderTo(s, pc) == delivery' = [delivery EXCEPT ![s].pc = pc]

\* The sender has returned or thrown, or its invocation is evicted.
EndDelivery(s) == Deliver(s, NoDelivery)

\* The sender goes to pc when what it is about still exists, and throws
\* otherwise.
OrThrow(s, exists, pc) == IF exists THEN SenderTo(s, pc) ELSE EndDelivery(s)

Stored(q) == request[q] # "none"

\* An id is not used again.
Unused(q) == /\ ~Stored(q)
             /\ \A k \in Key : posted[q][k] = 0
             /\ \A s \in Sender : delivery[s].req # q

NoAttempts == [k \in Key |-> "none"]

\* The attempts of the requests in Q go with them.
RemoveRequests(Q) ==
  /\ request' = [q \in Request |-> IF q \in Q THEN "none" ELSE request[q]]
  /\ attempt' = [q \in Request |-> IF q \in Q THEN NoAttempts ELSE attempt[q]]

-----------------------------------------------------------------------------
(* Publishing: publishWebhookEvent *)

ListSubscribedEndpoints(s) ==
  /\ SenderAt(s, "idle") /\ endpoint = "enabled"
  /\ Deliver(s, [NoDelivery EXCEPT !.pc = "create"])
  /\ UNCHANGED <<endpoint, secret, rows, posted>>

\* The row refers to its endpoint, which may be gone.
CreateRequest(s) ==
  /\ SenderAt(s, "create")
  /\ \/ /\ endpoint # "deleted"
        /\ \E q \in Request :
             /\ Unused(q)
             /\ request' = [request EXCEPT ![q] = "pending"]
             /\ delivery' = [delivery EXCEPT ![s].pc = "find", ![s].req = q]
     \/ endpoint = "deleted" /\ EndDelivery(s) /\ UNCHANGED request
  /\ UNCHANGED <<endpoint, secret, attempt, posted>>

\* An administrator asks for another attempt: createWebhookDeliveryAttempt.
\* A key that is known is answered with its attempt.
CreateAttempt(s, q, k) ==
  /\ SenderAt(s, "idle")
  /\ Stored(q) /\ attempt[q][k] = "none" /\ request[q] # "delivered"
  /\ Deliver(s, [NoDelivery EXCEPT !.pc = "find", !.req = q, !.key = k])
  /\ UNCHANGED <<endpoint, secret, rows, posted>>

-----------------------------------------------------------------------------
(* One attempt: deliverWebhookRequestWithAttempt *)

\* The request is read together with its endpoint, the endpoint again after.
FindRequest(s) ==
  /\ SenderAt(s, "find")
  /\ \/ /\ Stored(delivery[s].req)
        /\ delivery' = [delivery EXCEPT ![s].pc = "reserve", ![s].secret = secret]
     \/ ~Stored(delivery[s].req) /\ EndDelivery(s)
  /\ UNCHANGED <<endpoint, secret, rows, posted>>

\* Mutant: the unique index on the key is missing.
ReserveAttemptAgain(s) ==
  LET q == delivery[s].req
      k == delivery[s].key
  IN /\ SenderAt(s, "reserve")
     /\ \/ /\ Stored(q)
           /\ attempt' = [attempt EXCEPT ![q][k] = "pending"]
           /\ SenderTo(s, "mark")
        \/ ~Stored(q) /\ EndDelivery(s) /\ UNCHANGED attempt
     /\ UNCHANGED <<endpoint, secret, request, posted>>

\* One insert, which an attempt under the same key turns into nothing.
ReserveAttempt(s) ==
  LET q == delivery[s].req
      k == delivery[s].key
  IN /\ SenderAt(s, "reserve")
     /\ \/ /\ Stored(q) /\ attempt[q][k] = "none"
           /\ attempt' = [attempt EXCEPT ![q][k] = "pending"]
           /\ SenderTo(s, "mark")
        \/ /\ attempt[q][k] # "none" \/ ~Stored(q)
           /\ EndDelivery(s)
           /\ UNCHANGED attempt
     /\ UNCHANGED <<endpoint, secret, request, posted>>

\* Mutant: the row is written whether or not it is still there.
PutRequest(q, status) == request' = [request EXCEPT ![q] = status]

\* The status of a stored request is written; a removed one stays away.
UpdateRequest(q, status) ==
  request' = [request EXCEPT ![q] = IF Stored(q) THEN status ELSE "none"]

MarkPending(s) ==
  /\ SenderAt(s, "mark")
  /\ UpdateRequest(delivery[s].req, "pending")
  /\ OrThrow(s, Stored(delivery[s].req), "sign")
  /\ UNCHANGED <<endpoint, secret, attempt, posted>>

\* A secret from before sealing is sealed and stored first, as it was read.
ReadSigningSecret(s) ==
  /\ SenderAt(s, "sign")
  /\ \/ delivery[s].secret # "legacy" /\ SenderTo(s, "post") /\ UNCHANGED secret
     \/ /\ delivery[s].secret = "legacy" /\ endpoint # "deleted"
        /\ secret' = "sealed"
        /\ SenderTo(s, "post")
     \/ /\ delivery[s].secret = "legacy" /\ endpoint = "deleted"
        /\ delivery' = [delivery EXCEPT ![s].pc = "saveAttempt", ![s].outcome = "failed"]
        /\ UNCHANGED secret
  /\ UNCHANGED <<endpoint, rows, posted>>

\* Mutant: a call that throws leaves no outcome.
PostForgettingOutcome(s) ==
  LET q == delivery[s].req
      k == delivery[s].key
  IN /\ SenderAt(s, "post")
     /\ \E outcome \in {"delivered", "none"} :
          delivery' = [delivery EXCEPT ![s].pc = "saveAttempt", ![s].outcome = outcome]
     /\ posted' = [posted EXCEPT ![q][k] = IF @ < 2 THEN @ + 1 ELSE 2]
     /\ UNCHANGED <<endpoint, secret, rows>>

\* A call that throws counts as failed, whether or not it arrived.
PostEvent(s) ==
  LET q == delivery[s].req
      k == delivery[s].key
  IN /\ SenderAt(s, "post")
     /\ \E outcome \in {"delivered", "failed"} :
          delivery' = [delivery EXCEPT ![s].pc = "saveAttempt", ![s].outcome = outcome]
     /\ posted' = [posted EXCEPT ![q][k] = IF @ < 2 THEN @ + 1 ELSE 2]
     /\ UNCHANGED <<endpoint, secret, rows>>

\* Mutant: the request is told first, the attempt afterwards or never.
RequestFirst(s) ==
  /\ SenderAt(s, "saveAttempt")
  /\ UpdateRequest(delivery[s].req, delivery[s].outcome)
  /\ OrThrow(s, Stored(delivery[s].req), "saveRequest")
  /\ UNCHANGED <<endpoint, secret, attempt, posted>>

UpdateAttempt(s) ==
  LET q == delivery[s].req
      k == delivery[s].key
  IN /\ SenderAt(s, "saveAttempt")
     /\ attempt' = [attempt EXCEPT ![q][k] =
                      IF @ = "none" THEN "none" ELSE delivery[s].outcome]
     /\ OrThrow(s, attempt[q][k] # "none", "saveRequest")
     /\ UNCHANGED <<endpoint, secret, request, posted>>

SaveRequest(s) ==
  /\ SenderAt(s, "saveRequest")
  /\ UpdateRequest(delivery[s].req, delivery[s].outcome)
  /\ EndDelivery(s)
  /\ UNCHANGED <<endpoint, secret, attempt, posted>>

Send(s) ==
  \/ CreateRequest(s) \/ FindRequest(s) \/ ReserveAttempt(s) \/ MarkPending(s)
  \/ ReadSigningSecret(s) \/ PostEvent(s) \/ UpdateAttempt(s) \/ SaveRequest(s)

-----------------------------------------------------------------------------
(* Administrators *)

\* A new endpoint has a sealed secret from the start.
CreateEndpoint ==
  /\ endpoint = "none"
  /\ endpoint' \in {"enabled", "disabled"} /\ secret' = "sealed"
  /\ UNCHANGED <<rows, posted, delivery>>

Registered == endpoint \in {"enabled", "disabled"}

UpdateEndpoint ==
  /\ Registered
  /\ endpoint' = IF endpoint = "enabled" THEN "disabled" ELSE "enabled"
  /\ UNCHANGED <<secret, rows, posted, delivery>>

RotateSecret ==
  /\ Registered
  /\ secret' = "rotated"
  /\ UNCHANGED <<endpoint, rows, posted, delivery>>

DeleteEndpoint ==
  /\ Registered
  /\ endpoint' = "deleted"
  /\ RemoveRequests(Request)
  /\ UNCHANGED <<secret, posted, delivery>>

\* An account is erased: erase removes the requests with its data.
EraseRequests ==
  /\ \E Q \in SUBSET {q \in Request : Stored(q)} : Q # {} /\ RemoveRequests(Q)
  /\ UNCHANGED <<endpoint, secret, posted, delivery>>

SenderDies(s) ==
  /\ ~SenderAt(s, "idle")
  /\ EndDelivery(s)
  /\ UNCHANGED <<endpoint, secret, rows, posted>>

-----------------------------------------------------------------------------
Init ==
  /\ \/ endpoint \in {"enabled", "disabled"} /\ secret \in {"legacy", "sealed"}
     \/ endpoint = "none" /\ secret = "sealed"
  /\ request = [q \in Request |-> "none"]
  /\ attempt = [q \in Request |-> NoAttempts]
  /\ posted = [q \in Request |-> [k \in Key |-> 0]]
  /\ delivery = [s \in Sender |-> NoDelivery]

Next ==
  \/ CreateEndpoint \/ UpdateEndpoint \/ RotateSecret \/ DeleteEndpoint \/ EraseRequests
  \/ \E s \in Sender :
       \/ ListSubscribedEndpoints(s) \/ Send(s) \/ SenderDies(s)
       \/ \E q \in Request, k \in RetryKey : CreateAttempt(s, q, k)

Spec == Init /\ [][Next]_vars

-----------------------------------------------------------------------------
(* Properties *)

\* An attempt is sent at most once, however many callers repeat its key at
\* the same time ("retrying a webhook attempt never sends the webhook twice",
\* reserveAttempt).
OnePostPerAttempt == \A q \in Request, k \in Key : posted[q][k] <= 1

\* A request that says delivered has an attempt that says so, also while a
\* slower attempt of the same request is still under way (updateDelivery).
DeliveredByAnAttempt ==
  \A q \in Request :
    request[q] = "delivered" => \E k \in Key : attempt[q][k] = "delivered"

\* What an erased account or a removed endpoint took with it does not come
\* back through a delivery that was under way (updateRequest).
RemovedStaysRemoved ==
  [][\A q \in Request : ~Stored(q) /\ request'[q] # "none" => Unused(q)]_vars
=============================================================================
