----------------------- MODULE WebhookDelivery_proofs -----------------------
(***************************************************************************)
(* Proofs about WebhookDelivery, for any number of senders, requests and   *)
(* idempotency keys: an attempt is sent at most once, a request that says  *)
(* delivered has an attempt that says so, and what was removed stays away. *)
(***************************************************************************)
EXTENDS WebhookDelivery, TLAPS

-----------------------------------------------------------------------------
(* The inductive invariant *)

\* Where a sender has reserved the attempt it is working on.
Holding == {"mark", "sign", "post", "saveAttempt", "saveRequest"}

\* A sender past the insert has a request.
SendersOK ==
  \A s \in Sender : delivery[s].pc \in Sending \ {"create"} => delivery[s].req \in Request

\* What an attempt says while its sender is at work, if it is still there.
Says(d) == IF d.pc = "saveRequest" THEN d.outcome ELSE "pending"

\* A reserved attempt is as its sender left it, and not sent before "post".
ReservedOK ==
  \A s \in Sender :
    delivery[s].pc \in Holding =>
      /\ delivery[s].pc \in {"mark", "sign", "post"} =>
           posted[delivery[s].req][delivery[s].key] = 0
      /\ Stored(delivery[s].req) =>
           attempt[delivery[s].req][delivery[s].key] = Says(delivery[s])

\* Two senders never hold the same attempt.
ExclusiveOK ==
  \A s, t \in Sender :
    /\ delivery[s].pc \in Holding /\ delivery[t].pc \in Holding
    /\ delivery[s].req = delivery[t].req /\ delivery[s].key = delivery[t].key
    => s = t

\* An attempt that could still be reserved was never sent.
UnsentOK ==
  \A q \in Request, k \in Key : Stored(q) /\ attempt[q][k] = "none" => posted[q][k] = 0

Inductive ==
  /\ TypeOK /\ SendersOK /\ ReservedOK /\ ExclusiveOK /\ UnsentOK
  /\ OnePostPerAttempt /\ DeliveredByAnAttempt

-----------------------------------------------------------------------------
(* What a step has to show *)

LEMMA InitInductive == Init => Inductive
<1> SUFFICES ASSUME Init PROVE Inductive
  OBVIOUS
<1>1. NoDelivery \in Delivery /\ NoDelivery.pc = "idle"
  BY DEF NoDelivery, Delivery, Key, Result
<1>2. \A s \in Sender : delivery[s].pc = "idle"
  BY <1>1 DEF Init
<1>3. TypeOK
  BY <1>1 DEF Init, TypeOK, NoAttempts, Result
<1>4. SendersOK /\ ReservedOK /\ ExclusiveOK
  BY <1>2 DEF SendersOK, ReservedOK, ExclusiveOK, Holding, Sending
<1>5. UnsentOK /\ OnePostPerAttempt /\ DeliveredByAnAttempt
  BY DEF Init, UnsentOK, OnePostPerAttempt, DeliveredByAnAttempt, Stored
<1> QED BY <1>3, <1>4, <1>5 DEF Inductive

\* The sender goes on with the record d; the others stay where they are.
LEMMA DeliverFields ==
  ASSUME TypeOK, NEW s \in Sender, NEW d \in Delivery, Deliver(s, d)
  PROVE  /\ delivery' \in [Sender -> Delivery]
         /\ delivery'[s] = d
         /\ \A t \in Sender : t # s => delivery'[t] = delivery[t]
BY DEF TypeOK, Deliver

LEMMA NoDeliveryFields ==
  /\ NoDelivery \in Delivery
  /\ NoDelivery.pc = "idle"
  /\ NoDelivery.pc \notin Holding /\ NoDelivery.pc \notin Sending
BY DEF NoDelivery, Delivery, Key, Result, Holding, Sending

\* A sender that holds no attempt after a step in which no row changed.
LEMMA QuietStep ==
  ASSUME Inductive, NEW s \in Sender, NEW d \in Delivery, Deliver(s, d),
         UNCHANGED <<rows, posted>>, endpoint' \in {"none", "enabled", "disabled", "deleted"},
         secret' \in {"legacy", "sealed", "rotated"},
         d.pc \notin Holding, d.pc \in Sending \ {"create"} => d.req \in Request
  PROVE  Inductive'
<1>1. /\ delivery' \in [Sender -> Delivery]
      /\ delivery'[s] = d
      /\ \A t \in Sender : t # s => delivery'[t] = delivery[t]
  BY DeliverFields DEF Inductive
<1>2. UNCHANGED <<request, attempt, posted>>
  BY DEF rows
<1>3. TypeOK'
  BY <1>1, <1>2 DEF Inductive, TypeOK
<1>4. SendersOK'
  BY <1>1 DEF Inductive, SendersOK
<1>5. \A t \in Sender : delivery'[t].pc \in Holding => t # s /\ delivery'[t] = delivery[t]
  BY <1>1
<1>6. ReservedOK'
  BY <1>2, <1>5 DEF Inductive, ReservedOK, Says, Stored
<1>7. ExclusiveOK'
  BY <1>5 DEF Inductive, ExclusiveOK
<1>8. UnsentOK' /\ OnePostPerAttempt' /\ DeliveredByAnAttempt'
  BY <1>2 DEF Inductive, UnsentOK, OnePostPerAttempt, DeliveredByAnAttempt, Stored
<1> QED BY <1>3, <1>4, <1>6, <1>7, <1>8 DEF Inductive

LEMMA EndStep ==
  ASSUME Inductive, NEW s \in Sender, EndDelivery(s),
         UNCHANGED <<endpoint, secret, rows, posted>>
  PROVE  Inductive'
<1>1. Deliver(s, NoDelivery)
  BY DEF EndDelivery
<1> QED BY <1>1, NoDeliveryFields, QuietStep DEF Inductive, TypeOK

\* The holder of an attempt writes to the attempt, to its request, or sends,
\* and stays the holder or leaves.
LEMMA HoldingStep ==
  ASSUME Inductive, NEW s \in Sender, NEW d \in Delivery, Deliver(s, d),
         delivery[s].pc \in Holding,
         d.pc \in Holding => d.req = delivery[s].req /\ d.key = delivery[s].key,
         d.pc \in Holding \/ d.pc = "idle",
         TypeOK',
         \A q \in Request : request'[q] # "none" <=> request[q] # "none",
         \A q \in Request, k \in Key :
           <<q, k>> # <<delivery[s].req, delivery[s].key>> =>
             attempt'[q][k] = attempt[q][k] /\ posted'[q][k] = posted[q][k],
         d.pc \in {"mark", "sign", "post"} => posted'[d.req][d.key] = 0,
         d.pc \in Holding /\ Stored(d.req) => attempt'[d.req][d.key] = Says(d),
         Stored(delivery[s].req) => attempt'[delivery[s].req][delivery[s].key] # "none",
         posted'[delivery[s].req][delivery[s].key] <= 1,
         DeliveredByAnAttempt'
  PROVE  Inductive'
<1>1. /\ delivery'[s] = d
      /\ \A t \in Sender : t # s => delivery'[t] = delivery[t]
  BY DeliverFields DEF Inductive
<1>2. delivery[s].req \in Request /\ delivery[s].key \in Key
  BY DEF Inductive, SendersOK, TypeOK, Delivery, Holding, Sending
<1>3. SendersOK'
  BY <1>1, <1>2 DEF Inductive, SendersOK, Sending, Holding
<1>4. \A t \in Sender : t # s /\ delivery[t].pc \in Holding =>
        /\ delivery[t].req \in Request /\ delivery[t].key \in Key
        /\ <<delivery[t].req, delivery[t].key>> # <<delivery[s].req, delivery[s].key>>
  BY DEF Inductive, SendersOK, TypeOK, Delivery, Holding, Sending, ExclusiveOK
<1>5. ASSUME NEW t \in Sender, delivery'[t].pc \in Holding
      PROVE  /\ delivery'[t].pc \in {"mark", "sign", "post"} =>
                  posted'[delivery'[t].req][delivery'[t].key] = 0
             /\ request'[delivery'[t].req] # "none" =>
                  attempt'[delivery'[t].req][delivery'[t].key] = Says(delivery'[t])
  <2>1. CASE t = s
    BY <1>1, <1>2, <1>5, <2>1 DEF Stored
  <2>2. CASE t # s
    <3>1. delivery'[t] = delivery[t] /\ delivery[t].pc \in Holding
      BY <1>1, <1>5, <2>2
    <3>2. /\ attempt'[delivery[t].req][delivery[t].key] = attempt[delivery[t].req][delivery[t].key]
          /\ posted'[delivery[t].req][delivery[t].key] = posted[delivery[t].req][delivery[t].key]
          /\ request'[delivery[t].req] # "none" <=> Stored(delivery[t].req)
      BY <1>4, <2>2, <3>1 DEF Stored
    <3>3. /\ delivery[t].pc \in {"mark", "sign", "post"} =>
               posted[delivery[t].req][delivery[t].key] = 0
          /\ Stored(delivery[t].req) =>
               attempt[delivery[t].req][delivery[t].key] = Says(delivery[t])
      BY <3>1 DEF Inductive, ReservedOK
    <3> QED BY <3>1, <3>2, <3>3 DEF Stored
  <2> QED BY <2>1, <2>2
<1>6. ReservedOK'
  BY <1>5 DEF ReservedOK, Says, Stored
<1>7. ExclusiveOK'
  BY <1>1, <1>4 DEF Inductive, ExclusiveOK
<1>8. ASSUME NEW q \in Request, NEW k \in Key
      PROVE  /\ request'[q] # "none" /\ attempt'[q][k] = "none" => posted'[q][k] = 0
             /\ posted'[q][k] <= 1
  <2>1. CASE <<q, k>> = <<delivery[s].req, delivery[s].key>>
    BY <2>1 DEF Stored
  <2>2. CASE <<q, k>> # <<delivery[s].req, delivery[s].key>>
    BY <2>2 DEF Inductive, UnsentOK, OnePostPerAttempt, Stored
  <2> QED BY <2>1, <2>2
<1>9. UnsentOK' /\ OnePostPerAttempt'
  BY <1>8 DEF UnsentOK, OnePostPerAttempt, Stored
<1> QED BY <1>3, <1>6, <1>7, <1>9 DEF Inductive

-----------------------------------------------------------------------------
(* Publishing, and the attempt up to its reservation *)

LEMMA ListSubscribedEndpointsStep ==
  ASSUME Inductive, NEW s \in Sender, ListSubscribedEndpoints(s)
  PROVE  Inductive'
<1> DEFINE d == [NoDelivery EXCEPT !.pc = "create"]
<1>1. d \in Delivery /\ d.pc = "create"
  BY NoDeliveryFields DEF Delivery, Sending
<1>2. Deliver(s, d) /\ UNCHANGED <<endpoint, secret, rows, posted>>
  BY DEF ListSubscribedEndpoints
<1> QED BY <1>1, <1>2, QuietStep DEF Inductive, TypeOK, Holding

LEMMA CreateAttemptStep ==
  ASSUME Inductive, NEW s \in Sender, NEW q \in Request, NEW k \in RetryKey,
         CreateAttempt(s, q, k)
  PROVE  Inductive'
<1> DEFINE d == [NoDelivery EXCEPT !.pc = "find", !.req = q, !.key = k]
<1>1. d \in Delivery /\ d.pc = "find" /\ d.req = q
  BY NoDeliveryFields DEF Delivery, Sending, Key
<1>2. Deliver(s, d) /\ UNCHANGED <<endpoint, secret, rows, posted>>
  BY DEF CreateAttempt
<1> QED BY <1>1, <1>2, QuietStep DEF Inductive, TypeOK, Holding

LEMMA FindRequestStep ==
  ASSUME Inductive, NEW s \in Sender, FindRequest(s)
  PROVE  Inductive'
<1>1. CASE EndDelivery(s)
  BY <1>1, EndStep DEF FindRequest
<1>2. CASE delivery' = [delivery EXCEPT ![s].pc = "reserve", ![s].secret = secret]
  <2> DEFINE d == [delivery[s] EXCEPT !.pc = "reserve", !.secret = secret]
  <2>1. delivery[s].pc = "find" /\ delivery[s].req \in Request
    BY DEF FindRequest, SenderAt, Inductive, SendersOK, Sending
  <2>2. d \in Delivery /\ d.pc = "reserve" /\ d.req = delivery[s].req
    BY DEF Inductive, TypeOK, Delivery, Sending
  <2>3. Deliver(s, d) /\ UNCHANGED <<endpoint, secret, rows, posted>>
    BY <1>2 DEF FindRequest, Deliver, Inductive, TypeOK
  <2> QED BY <2>1, <2>2, <2>3, QuietStep DEF Inductive, TypeOK, Holding
<1> QED BY <1>1, <1>2 DEF FindRequest

\* The request is new to everybody: no sender, attempt or message has its id.
LEMMA CreateRequestStep ==
  ASSUME Inductive, NEW s \in Sender, CreateRequest(s)
  PROVE  Inductive'
<1>1. CASE EndDelivery(s) /\ UNCHANGED request
  BY <1>1, EndStep DEF CreateRequest, rows
<1>2. ASSUME NEW q \in Request, Unused(q), request' = [request EXCEPT ![q] = "pending"],
             delivery' = [delivery EXCEPT ![s].pc = "find", ![s].req = q],
             UNCHANGED <<endpoint, secret, attempt, posted>>
      PROVE  Inductive'
  <2> DEFINE d == [delivery[s] EXCEPT !.pc = "find", !.req = q]
  <2>1. d \in Delivery /\ d.pc = "find" /\ d.req = q
    BY DEF Inductive, TypeOK, Delivery, Sending
  <2>2. Deliver(s, d)
    BY <1>2 DEF Deliver, Inductive, TypeOK
  <2>3. /\ delivery' \in [Sender -> Delivery]
        /\ delivery'[s] = d
        /\ \A t \in Sender : t # s => delivery'[t] = delivery[t]
    BY <2>1, <2>2, DeliverFields DEF Inductive
  <2>4. /\ request'[q] = "pending"
        /\ \A r \in Request : r # q => request'[r] = request[r]
    BY <1>2 DEF Inductive, TypeOK
  <2>5. TypeOK'
    BY <1>2, <2>3 DEF Inductive, TypeOK, Result
  <2>6. SendersOK'
    BY <2>1, <2>3 DEF Inductive, SendersOK
  <2>7. \A t \in Sender : delivery'[t].pc \in Holding =>
          /\ t # s /\ delivery'[t] = delivery[t]
          /\ delivery[t].req \in Request /\ delivery[t].req # q
    BY <1>2, <2>1, <2>3 DEF Inductive, SendersOK, Holding, Sending, Unused
  <2>8. ReservedOK'
    <3>1. ASSUME NEW t \in Sender, delivery'[t].pc \in Holding
          PROVE  /\ delivery'[t].pc \in {"mark", "sign", "post"} =>
                      posted'[delivery'[t].req][delivery'[t].key] = 0
                 /\ request'[delivery'[t].req] # "none" =>
                      attempt'[delivery'[t].req][delivery'[t].key] = Says(delivery'[t])
      <4>1. /\ delivery'[t] = delivery[t] /\ delivery[t].pc \in Holding
            /\ request'[delivery[t].req] = request[delivery[t].req]
        BY <2>4, <2>7, <3>1
      <4>2. /\ delivery[t].pc \in {"mark", "sign", "post"} =>
                 posted[delivery[t].req][delivery[t].key] = 0
            /\ Stored(delivery[t].req) =>
                 attempt[delivery[t].req][delivery[t].key] = Says(delivery[t])
        BY <4>1 DEF Inductive, ReservedOK
      <4> QED BY <1>2, <4>1, <4>2 DEF Stored
    <3> QED BY <3>1 DEF ReservedOK, Says, Stored
  <2>9. ExclusiveOK'
    BY <2>7 DEF Inductive, ExclusiveOK
  <2>10. UnsentOK' /\ OnePostPerAttempt'
    BY <1>2, <2>4 DEF Inductive, UnsentOK, OnePostPerAttempt, Unused, Stored
  <2>11. DeliveredByAnAttempt'
    BY <1>2, <2>4 DEF Inductive, DeliveredByAnAttempt
  <2> QED BY <2>5, <2>6, <2>8, <2>9, <2>10, <2>11 DEF Inductive
<1> QED BY <1>1, <1>2 DEF CreateRequest

LEMMA GotoFields ==
  ASSUME Inductive, NEW s \in Sender, NEW pc \in Sending, SenderTo(s, pc)
  PROVE  /\ [delivery[s] EXCEPT !.pc = pc] \in Delivery
         /\ Deliver(s, [delivery[s] EXCEPT !.pc = pc])
         /\ [delivery[s] EXCEPT !.pc = pc].pc = pc
         /\ [delivery[s] EXCEPT !.pc = pc].req = delivery[s].req
         /\ [delivery[s] EXCEPT !.pc = pc].key = delivery[s].key
         /\ [delivery[s] EXCEPT !.pc = pc].outcome = delivery[s].outcome
BY DEF Inductive, TypeOK, Delivery, SenderTo, Deliver

\* The insert goes through for one sender: nobody held the attempt, and it was
\* never sent.
LEMMA ReserveAttemptStep ==
  ASSUME Inductive, NEW s \in Sender, ReserveAttempt(s)
  PROVE  Inductive'
<1> DEFINE q == delivery[s].req
           k == delivery[s].key
           d == [delivery[s] EXCEPT !.pc = "mark"]
<1>1. CASE EndDelivery(s) /\ UNCHANGED attempt
  BY <1>1, EndStep DEF ReserveAttempt, rows
<1>2. CASE /\ Stored(q) /\ attempt[q][k] = "none"
           /\ attempt' = [attempt EXCEPT ![q][k] = "pending"]
           /\ SenderTo(s, "mark")
  <2>1. q \in Request /\ k \in Key
    BY DEF ReserveAttempt, SenderAt, Inductive, SendersOK, Sending, TypeOK, Delivery
  <2>2. d \in Delivery /\ Deliver(s, d) /\ d.pc = "mark" /\ d.req = q /\ d.key = k
    BY <1>2, GotoFields DEF Sending
  <2>3. /\ delivery' \in [Sender -> Delivery]
        /\ delivery'[s] = d
        /\ \A t \in Sender : t # s => delivery'[t] = delivery[t]
    BY <2>2, DeliverFields DEF Inductive
  <2>4. UNCHANGED <<endpoint, secret, request, posted>>
    BY DEF ReserveAttempt
  <2>5. /\ attempt' \in [Request -> [Key -> Result \cup {"none"}]]
        /\ attempt'[q][k] = "pending"
        /\ \A r \in Request, c \in Key : <<r, c>> # <<q, k>> => attempt'[r][c] = attempt[r][c]
    BY <1>2, <2>1 DEF Inductive, TypeOK, Result
  <2>6. TypeOK'
    BY <2>3, <2>4, <2>5 DEF Inductive, TypeOK
  <2>7. SendersOK'
    BY <2>1, <2>2, <2>3 DEF Inductive, SendersOK
  <2>8. posted[q][k] = 0
    BY <1>2, <2>1 DEF Inductive, UnsentOK
  <2>9. \A t \in Sender : t # s /\ delivery[t].pc \in Holding =>
          /\ delivery[t].req \in Request /\ delivery[t].key \in Key
          /\ <<delivery[t].req, delivery[t].key>> # <<q, k>>
    <3> SUFFICES ASSUME NEW t \in Sender, delivery[t].pc \in Holding
                 PROVE  /\ delivery[t].req \in Request /\ delivery[t].key \in Key
                        /\ <<delivery[t].req, delivery[t].key>> # <<q, k>>
      OBVIOUS
    <3>1. delivery[t].req \in Request /\ delivery[t] \in Delivery
      BY DEF Inductive, SendersOK, Holding, Sending, TypeOK
    <3>2. Says(delivery[t]) # "none"
      BY <3>1 DEF Says, Delivery, Result
    <3> QED BY <1>2, <3>1, <3>2 DEF Inductive, ReservedOK, Delivery
  <2>10. ASSUME NEW t \in Sender, delivery'[t].pc \in Holding
         PROVE  /\ delivery'[t].pc \in {"mark", "sign", "post"} =>
                     posted'[delivery'[t].req][delivery'[t].key] = 0
                /\ request'[delivery'[t].req] # "none" =>
                     attempt'[delivery'[t].req][delivery'[t].key] = Says(delivery'[t])
    <3>1. CASE t = s
      BY <2>2, <2>3, <2>4, <2>5, <2>8, <3>1 DEF Says
    <3>2. CASE t # s
      BY <2>3, <2>4, <2>5, <2>9, <2>10, <3>2 DEF Inductive, ReservedOK, Stored
    <3> QED BY <3>1, <3>2
  <2>11. ReservedOK'
    BY <2>10 DEF ReservedOK, Says, Stored
  <2>12. ExclusiveOK'
    <3> SUFFICES ASSUME NEW t \in Sender, NEW u \in Sender,
                        delivery'[t].pc \in Holding, delivery'[u].pc \in Holding,
                        delivery'[t].req = delivery'[u].req, delivery'[t].key = delivery'[u].key
                 PROVE  t = u
      BY DEF ExclusiveOK
    <3> HIDE DEF d
    <3>1. CASE t = s
      BY <2>2, <2>3, <2>9, <3>1
    <3>2. CASE u = s
      BY <2>2, <2>3, <2>9, <3>2
    <3>3. CASE t # s /\ u # s
      BY <2>3, <3>3 DEF Inductive, ExclusiveOK
    <3> QED BY <3>1, <3>2, <3>3
  <2>13. UnsentOK' /\ OnePostPerAttempt'
    <3> SUFFICES ASSUME NEW r \in Request, NEW c \in Key
                 PROVE  /\ request'[r] # "none" /\ attempt'[r][c] = "none" => posted'[r][c] = 0
                        /\ posted'[r][c] <= 1
      BY DEF UnsentOK, OnePostPerAttempt, Stored
    <3> QED BY <2>4, <2>5 DEF Inductive, UnsentOK, OnePostPerAttempt, Stored
  <2>14. DeliveredByAnAttempt'
    BY <1>2, <2>4, <2>5 DEF Inductive, DeliveredByAnAttempt
  <2> QED BY <2>6, <2>7, <2>11, <2>12, <2>13, <2>14 DEF Inductive
<1> QED BY <1>1, <1>2 DEF ReserveAttempt

-----------------------------------------------------------------------------
(* The attempt from its reservation on *)

\* Each action of the holder has these facts.
LEMMA HolderFields ==
  ASSUME Inductive, NEW s \in Sender, delivery[s].pc \in Holding
  PROVE  /\ delivery[s] \in Delivery
         /\ delivery[s].req \in Request /\ delivery[s].key \in Key
         /\ Stored(delivery[s].req) =>
              attempt[delivery[s].req][delivery[s].key] = Says(delivery[s])
         /\ delivery[s].pc \in {"mark", "sign", "post"} =>
              posted[delivery[s].req][delivery[s].key] = 0
         /\ Says(delivery[s]) \in Result
         /\ posted[delivery[s].req][delivery[s].key] <= 1
<1>1. delivery[s] \in Delivery /\ delivery[s].req \in Request
  BY DEF Inductive, TypeOK, SendersOK, Holding, Sending
<1>2. delivery[s].key \in Key /\ delivery[s].outcome \in Result
  BY <1>1 DEF Delivery
<1>3. Says(delivery[s]) \in Result
  BY <1>2 DEF Says, Result
<1> QED BY <1>1, <1>2, <1>3 DEF Inductive, ReservedOK, OnePostPerAttempt

\* The holder goes on or leaves without touching a row.
LEMMA HolderMoves ==
  ASSUME Inductive, NEW s \in Sender, NEW d \in Delivery, Deliver(s, d),
         delivery[s].pc \in {"mark", "sign", "post"}, d.pc \in {"mark", "sign", "post", "saveAttempt"},
         d.req = delivery[s].req, d.key = delivery[s].key,
         UNCHANGED <<rows, posted>>, endpoint' = endpoint, secret' \in {"legacy", "sealed", "rotated"}
  PROVE  Inductive'
<1>1. UNCHANGED <<request, attempt, posted>>
  BY DEF rows
<1>2. delivery[s].pc \in Holding /\ d.pc \in Holding
  BY DEF Holding
<1>3. Says(d) = "pending" /\ Says(delivery[s]) = "pending"
  BY DEF Says
<1>4. TypeOK'
  BY <1>1, DeliverFields DEF Inductive, TypeOK
<1>5. DeliveredByAnAttempt'
  BY <1>1 DEF Inductive, DeliveredByAnAttempt
<1> QED BY <1>1, <1>2, <1>3, <1>4, <1>5, HolderFields, HoldingStep

\* What UpdateRequest writes: the rows that exist stay, and no others come.
LEMMA UpdateRequestFields ==
  ASSUME Inductive, NEW q \in Request, NEW status \in Result, UpdateRequest(q, status)
  PROVE  /\ request' \in [Request -> Result \cup {"none"}]
         /\ \A r \in Request : request'[r] # "none" <=> request[r] # "none"
         /\ Stored(q) => request'[q] = status
         /\ \A r \in Request : r # q => request'[r] = request[r]
BY DEF Inductive, TypeOK, UpdateRequest, Stored, Result

LEMMA MarkPendingStep ==
  ASSUME Inductive, NEW s \in Sender, MarkPending(s)
  PROVE  Inductive'
<1> DEFINE q == delivery[s].req
<1>1. delivery[s].pc = "mark" /\ delivery[s].pc \in Holding
  BY DEF MarkPending, SenderAt, Holding
<1>2. UpdateRequest(q, "pending") /\ UNCHANGED <<endpoint, secret, attempt, posted>>
  BY DEF MarkPending
<1>3. /\ request' \in [Request -> Result \cup {"none"}]
      /\ \A r \in Request : request'[r] # "none" <=> request[r] # "none"
      /\ Stored(q) => request'[q] = "pending"
      /\ \A r \in Request : r # q => request'[r] = request[r]
  BY <1>1, <1>2, HolderFields, UpdateRequestFields DEF Result
<1>4. DeliveredByAnAttempt'
  BY <1>2, <1>3 DEF Inductive, DeliveredByAnAttempt, Stored
<1>5. ASSUME NEW d \in Delivery, Deliver(s, d),
             \/ d.pc = "idle"
             \/ d.pc = "sign" /\ d.req = q /\ d.key = delivery[s].key
      PROVE  Inductive'
  <2>1. TypeOK'
    BY <1>2, <1>3, <1>5, DeliverFields DEF Inductive, TypeOK
  <2>2. Says(delivery[s]) = "pending" /\ (d.pc = "sign" => Says(d) = "pending")
    BY <1>1 DEF Says
  <2>3. d.pc \in Holding => d.pc = "sign"
    BY <1>5 DEF Holding
  <2>4. d.pc \in Holding \/ d.pc = "idle"
    BY <1>5 DEF Holding
  <2> QED BY <1>1, <1>2, <1>3, <1>4, <1>5, <2>1, <2>2, <2>3, <2>4, HolderFields, HoldingStep
<1>6. CASE Stored(q)
  <2>1. SenderTo(s, "sign") /\ "sign" \in Sending
    BY <1>6 DEF MarkPending, OrThrow, Sending
  <2> DEFINE d == [delivery[s] EXCEPT !.pc = "sign"]
  <2>2. d \in Delivery /\ Deliver(s, d) /\ d.pc = "sign" /\ d.req = q /\ d.key = delivery[s].key
    BY <2>1, GotoFields
  <2> HIDE DEF d
  <2> QED BY <1>5, <2>2
<1>7. CASE ~Stored(q)
  <2>1. Deliver(s, NoDelivery)
    BY <1>7 DEF MarkPending, OrThrow, EndDelivery
  <2>2. NoDelivery \in Delivery /\ NoDelivery.pc = "idle"
    BY NoDeliveryFields
  <2> QED BY <1>5, <2>1, <2>2
<1> QED BY <1>6, <1>7

LEMMA ReadSigningSecretStep ==
  ASSUME Inductive, NEW s \in Sender, ReadSigningSecret(s)
  PROVE  Inductive'
<1>1. delivery[s].pc = "sign" /\ UNCHANGED <<endpoint, rows, posted>>
  BY DEF ReadSigningSecret, SenderAt
<1>2. secret' \in {"legacy", "sealed", "rotated"}
  BY DEF ReadSigningSecret, Inductive, TypeOK
<1>3. CASE SenderTo(s, "post")
  BY <1>1, <1>2, <1>3, GotoFields, HolderMoves DEF Sending
<1>4. CASE delivery' = [delivery EXCEPT ![s].pc = "saveAttempt", ![s].outcome = "failed"]
  <2> DEFINE d == [delivery[s] EXCEPT !.pc = "saveAttempt", !.outcome = "failed"]
  <2>1. /\ d \in Delivery /\ d.pc = "saveAttempt"
        /\ d.req = delivery[s].req /\ d.key = delivery[s].key
    BY DEF Inductive, TypeOK, Delivery, Sending, Result
  <2>2. Deliver(s, d)
    BY <1>4 DEF Deliver, Inductive, TypeOK
  <2> QED BY <1>1, <1>2, <2>1, <2>2, HolderMoves
<1> QED BY <1>3, <1>4 DEF ReadSigningSecret

\* The holder sends what nobody has sent.
LEMMA PostEventStep ==
  ASSUME Inductive, NEW s \in Sender, PostEvent(s)
  PROVE  Inductive'
<1> DEFINE q == delivery[s].req
           k == delivery[s].key
<1>1. delivery[s].pc = "post" /\ delivery[s].pc \in Holding
  BY DEF PostEvent, SenderAt, Holding
<1>2. UNCHANGED <<endpoint, secret, request, attempt>>
  BY DEF PostEvent, rows
<1>3. PICK outcome \in {"delivered", "failed"} :
        delivery' = [delivery EXCEPT ![s].pc = "saveAttempt", ![s].outcome = outcome]
  BY DEF PostEvent
<1> DEFINE d == [delivery[s] EXCEPT !.pc = "saveAttempt", !.outcome = outcome]
<1>4. d \in Delivery /\ d.pc = "saveAttempt" /\ d.req = q /\ d.key = k
  BY DEF Inductive, TypeOK, Delivery, Sending, Result
<1>5. Deliver(s, d)
  BY <1>3 DEF Deliver, Inductive, TypeOK
<1>6. q \in Request /\ k \in Key /\ posted[q][k] = 0
  BY <1>1, HolderFields
<1>7. /\ posted' \in [Request -> [Key -> 0..2]]
      /\ posted'[q][k] = 1
      /\ \A r \in Request, c \in Key : <<r, c>> # <<q, k>> => posted'[r][c] = posted[r][c]
  BY <1>6 DEF PostEvent, Inductive, TypeOK
<1>8. TypeOK'
  BY <1>2, <1>4, <1>5, <1>7, DeliverFields DEF Inductive, TypeOK
<1>9. Says(d) = "pending" /\ Says(delivery[s]) = "pending" /\ d.pc \in Holding
  BY <1>1, <1>4 DEF Says, Holding
<1>10. DeliveredByAnAttempt'
  BY <1>2 DEF Inductive, DeliveredByAnAttempt
<1> HIDE DEF d
<1> QED BY <1>1, <1>2, <1>4, <1>5, <1>7, <1>8, <1>9, <1>10, HolderFields, HoldingStep

\* The attempt is told its outcome; another that says delivered still does.
LEMMA UpdateAttemptStep ==
  ASSUME Inductive, NEW s \in Sender, UpdateAttempt(s)
  PROVE  Inductive'
<1> DEFINE q == delivery[s].req
           k == delivery[s].key
<1>1. delivery[s].pc = "saveAttempt" /\ delivery[s].pc \in Holding
  BY DEF UpdateAttempt, SenderAt, Holding
<1>2. UNCHANGED <<endpoint, secret, request, posted>>
  BY DEF UpdateAttempt
<1>3. /\ q \in Request /\ k \in Key /\ delivery[s].outcome \in Result
      /\ posted[q][k] <= 1
      /\ Stored(q) => attempt[q][k] = "pending"
  BY <1>1, HolderFields DEF Says, Delivery
<1>4. /\ attempt' \in [Request -> [Key -> Result \cup {"none"}]]
      /\ attempt[q][k] # "none" => attempt'[q][k] = delivery[s].outcome
      /\ attempt[q][k] = "none" => attempt'[q][k] = "none"
      /\ \A r \in Request, c \in Key : <<r, c>> # <<q, k>> => attempt'[r][c] = attempt[r][c]
  BY <1>3 DEF UpdateAttempt, Inductive, TypeOK
<1>5. DeliveredByAnAttempt'
  <2> SUFFICES ASSUME NEW r \in Request, request'[r] = "delivered"
               PROVE  \E c \in Key : attempt'[r][c] = "delivered"
    BY DEF DeliveredByAnAttempt
  <2>1. PICK c \in Key : attempt[r][c] = "delivered"
    BY <1>2 DEF Inductive, DeliveredByAnAttempt
  <2>2. Stored(r)
    BY <1>2 DEF Stored
  <2>3. <<r, c>> # <<q, k>>
    BY <1>3, <2>1, <2>2
  <2> QED BY <1>4, <2>1, <2>3
<1>6. ASSUME NEW d \in Delivery, Deliver(s, d),
             \/ d.pc = "idle"
             \/ /\ d.pc = "saveRequest" /\ d.req = q /\ d.key = k
                /\ d.outcome = delivery[s].outcome
      PROVE  Inductive'
  <2>1. TypeOK'
    BY <1>2, <1>4, <1>6, DeliverFields DEF Inductive, TypeOK
  <2>2. d.pc = "saveRequest" => Says(d) = delivery[s].outcome
    BY <1>6 DEF Says
  <2>3. /\ d.pc \in Holding => d.pc = "saveRequest"
        /\ d.pc \in Holding \/ d.pc = "idle"
    BY <1>6 DEF Holding
  <2>4. Stored(q) => attempt'[q][k] = delivery[s].outcome /\ attempt'[q][k] # "none"
    BY <1>3, <1>4 DEF Result
  <2>5. \A r \in Request : request'[r] # "none" <=> request[r] # "none"
    BY <1>2
  <2> QED BY <1>1, <1>2, <1>3, <1>4, <1>5, <1>6, <2>1, <2>2, <2>3, <2>4, <2>5, HoldingStep
<1>7. CASE attempt[q][k] # "none"
  BY <1>6, <1>7, GotoFields DEF UpdateAttempt, OrThrow, Sending
<1>8. CASE attempt[q][k] = "none"
  BY <1>6, <1>8, NoDeliveryFields DEF UpdateAttempt, OrThrow, EndDelivery
<1> QED BY <1>7, <1>8

\* A request says delivered after its attempt does.
LEMMA SaveRequestStep ==
  ASSUME Inductive, NEW s \in Sender, SaveRequest(s)
  PROVE  Inductive'
<1> DEFINE q == delivery[s].req
           k == delivery[s].key
<1>1. delivery[s].pc = "saveRequest" /\ delivery[s].pc \in Holding
  BY DEF SaveRequest, SenderAt, Holding
<1>2. UpdateRequest(q, delivery[s].outcome) /\ UNCHANGED <<endpoint, secret, attempt, posted>>
  BY DEF SaveRequest
<1>3. /\ q \in Request /\ k \in Key /\ delivery[s].outcome \in Result
      /\ posted[q][k] <= 1
      /\ Stored(q) => attempt[q][k] = delivery[s].outcome
  BY <1>1, HolderFields DEF Says, Delivery
<1>4. /\ request' \in [Request -> Result \cup {"none"}]
      /\ \A r \in Request : request'[r] # "none" <=> request[r] # "none"
      /\ Stored(q) => request'[q] = delivery[s].outcome
      /\ \A r \in Request : r # q => request'[r] = request[r]
  BY <1>2, <1>3, UpdateRequestFields
<1>5. DeliveredByAnAttempt'
  <2> SUFFICES ASSUME NEW r \in Request, request'[r] = "delivered"
               PROVE  \E c \in Key : attempt'[r][c] = "delivered"
    BY DEF DeliveredByAnAttempt
  <2>1. CASE r = q
    BY <1>2, <1>3, <1>4, <2>1 DEF Stored
  <2>2. CASE r # q
    BY <1>2, <1>4, <2>2 DEF Inductive, DeliveredByAnAttempt
  <2> QED BY <2>1, <2>2
<1>6. Deliver(s, NoDelivery)
  BY DEF SaveRequest, EndDelivery
<1>7. TypeOK'
  BY <1>2, <1>4, <1>6, DeliverFields, NoDeliveryFields DEF Inductive, TypeOK
<1>8. Stored(q) => attempt[q][k] # "none"
  BY <1>3 DEF Result
<1> QED BY <1>1, <1>2, <1>3, <1>4, <1>5, <1>6, <1>7, <1>8, NoDeliveryFields, HoldingStep

-----------------------------------------------------------------------------
(* Administrators and the end of requests *)

LEMMA SettingStep ==
  ASSUME Inductive, UNCHANGED <<rows, posted, delivery>>,
         endpoint' \in {"none", "enabled", "disabled", "deleted"},
         secret' \in {"legacy", "sealed", "rotated"}
  PROVE  Inductive'
<1>1. UNCHANGED <<request, attempt, posted, delivery>>
  BY DEF rows
<1> QED BY <1>1 DEF Inductive, TypeOK, SendersOK, ReservedOK, ExclusiveOK, UnsentOK,
                    OnePostPerAttempt, DeliveredByAnAttempt, Stored, Says

LEMMA RemoveStep ==
  ASSUME Inductive, NEW Q \in SUBSET Request, RemoveRequests(Q), UNCHANGED <<posted, delivery>>,
         endpoint' \in {"none", "enabled", "disabled", "deleted"}, secret' = secret
  PROVE  Inductive'
<1>1. /\ request' \in [Request -> Result \cup {"none"}]
      /\ \A q \in Request : request'[q] # "none" =>
           q \notin Q /\ request'[q] = request[q] /\ attempt'[q] = attempt[q]
  BY DEF RemoveRequests, Inductive, TypeOK
<1>2. attempt' \in [Request -> [Key -> Result \cup {"none"}]]
  BY DEF RemoveRequests, Inductive, TypeOK, NoAttempts
<1>3. TypeOK'
  BY <1>1, <1>2 DEF Inductive, TypeOK
<1>4. SendersOK' /\ ExclusiveOK' /\ OnePostPerAttempt'
  BY DEF Inductive, SendersOK, ExclusiveOK, OnePostPerAttempt
<1>5. ReservedOK'
  <2> SUFFICES ASSUME NEW s \in Sender, delivery[s].pc \in Holding
               PROVE  /\ delivery[s].pc \in {"mark", "sign", "post"} =>
                           posted[delivery[s].req][delivery[s].key] = 0
                      /\ request'[delivery[s].req] # "none" =>
                           attempt'[delivery[s].req][delivery[s].key] = Says(delivery[s])
    BY DEF ReservedOK, Stored, Says
  <2> QED BY <1>1, HolderFields DEF Stored
<1>6. UnsentOK' /\ DeliveredByAnAttempt'
  BY <1>1 DEF Inductive, UnsentOK, DeliveredByAnAttempt, Stored
<1> QED BY <1>3, <1>4, <1>5, <1>6 DEF Inductive

LEMMA NextInductive == Inductive /\ [Next]_vars => Inductive'
<1> SUFFICES ASSUME Inductive, [Next]_vars PROVE Inductive'
  OBVIOUS
<1>1. CASE CreateEndpoint
  BY <1>1, SettingStep DEF CreateEndpoint
<1>2. CASE UpdateEndpoint
  BY <1>2, SettingStep DEF UpdateEndpoint, Inductive, TypeOK
<1>3. CASE RotateSecret
  BY <1>3, SettingStep DEF RotateSecret, Inductive, TypeOK
<1>4. CASE DeleteEndpoint
  BY <1>4, RemoveStep DEF DeleteEndpoint
<1>5. CASE EraseRequests
  BY <1>5, RemoveStep DEF EraseRequests, Inductive, TypeOK
<1>6. ASSUME NEW s \in Sender, ListSubscribedEndpoints(s) PROVE Inductive'
  BY <1>6, ListSubscribedEndpointsStep
<1>7. ASSUME NEW s \in Sender, Send(s) PROVE Inductive'
  BY <1>7, CreateRequestStep, FindRequestStep, ReserveAttemptStep, MarkPendingStep,
     ReadSigningSecretStep, PostEventStep, UpdateAttemptStep, SaveRequestStep DEF Send
<1>8. ASSUME NEW s \in Sender, SenderDies(s) PROVE Inductive'
  BY <1>8, EndStep DEF SenderDies
<1>9. ASSUME NEW s \in Sender, NEW q \in Request, NEW k \in RetryKey, CreateAttempt(s, q, k)
      PROVE  Inductive'
  BY <1>9, CreateAttemptStep
<1>10. CASE UNCHANGED vars
  BY <1>10, SettingStep DEF vars, rows, Inductive, TypeOK
<1> QED BY <1>1, <1>2, <1>3, <1>4, <1>5, <1>6, <1>7, <1>8, <1>9, <1>10 DEF Next

-----------------------------------------------------------------------------
(* Theorems *)

\* The invariant holds in every reachable state, for any number of senders.
THEOREM DeliveryInvariant == Spec => []Inductive
BY InitInductive, NextInductive, PTL DEF Spec

\* Senders, requests and attempts have their types (deliverWebhookRequestWithAttempt).
THEOREM TypeCorrect == Spec => []TypeOK
<1>1. Inductive => TypeOK
  BY DEF Inductive
<1> QED BY <1>1, DeliveryInvariant, PTL

\* No attempt is sent twice, however many callers share its idempotency key and
\* whenever its request is removed (reserveAttempt's unique index).
THEOREM SentAtMostOnce == Spec => []OnePostPerAttempt
<1>1. Inductive => OnePostPerAttempt
  BY DEF Inductive
<1> QED BY <1>1, DeliveryInvariant, PTL

\* A request that says delivered has an attempt that says so, although the two
\* are written by statements of their own (updateAttempt, updateRequest).
THEOREM DeliveredIsRecorded == Spec => []DeliveredByAnAttempt
<1>1. Inductive => DeliveredByAnAttempt
  BY DEF Inductive
<1> QED BY <1>1, DeliveryInvariant, PTL

\* Of the steps, only the creation of a request stores one that was not stored.
LEMMA OnlyCreationStores ==
  ASSUME Inductive, [Next]_vars, NEW q \in Request, ~Stored(q), request'[q] # "none"
  PROVE  Unused(q)
<1>1. ASSUME NEW s \in Sender, delivery[s].pc \in Holding, NEW status \in Result,
             UpdateRequest(delivery[s].req, status)
      PROVE  FALSE
  BY <1>1, HolderFields, UpdateRequestFields DEF Stored
<1>2. ASSUME NEW s \in Sender, CreateRequest(s) PROVE Unused(q)
  BY <1>2 DEF CreateRequest, Stored, Inductive, TypeOK
<1>3. ASSUME NEW s \in Sender, MarkPending(s) PROVE FALSE
  BY <1>1, <1>3 DEF MarkPending, SenderAt, Holding, Result
<1>4. ASSUME NEW s \in Sender, SaveRequest(s) PROVE FALSE
  BY <1>1, <1>4 DEF SaveRequest, SenderAt, Holding, Inductive, TypeOK, Delivery
<1>5. ASSUME NEW Q \in SUBSET Request, RemoveRequests(Q) PROVE FALSE
  BY <1>5 DEF RemoveRequests, Stored
<1>6. CASE UNCHANGED request
  BY <1>6 DEF Stored
<1>7. CASE \E s \in Sender : Send(s)
  BY <1>2, <1>3, <1>4, <1>6, <1>7
     DEF Send, FindRequest, ReserveAttempt, ReadSigningSecret, PostEvent, UpdateAttempt, rows
<1>8. CASE DeleteEndpoint \/ EraseRequests
  BY <1>5, <1>8 DEF DeleteEndpoint, EraseRequests
<1>9. CASE \/ CreateEndpoint \/ UpdateEndpoint \/ RotateSecret
           \/ \E s \in Sender :
                \/ ListSubscribedEndpoints(s) \/ SenderDies(s)
                \/ \E r \in Request, k \in RetryKey : CreateAttempt(s, r, k)
  BY <1>6, <1>9 DEF CreateEndpoint, UpdateEndpoint, RotateSecret, ListSubscribedEndpoints,
                    SenderDies, CreateAttempt, rows
<1> QED BY <1>6, <1>7, <1>8, <1>9 DEF Next, vars

\* A request that is not there comes into being only as a new one: nothing that
\* was removed comes back through a delivery under way (updateRequest).
THEOREM RemovedIsGone == Spec => RemovedStaysRemoved
<1>1. Inductive /\ [Next]_vars =>
        [\A q \in Request : ~Stored(q) /\ request'[q] # "none" => Unused(q)]_vars
  BY OnlyCreationStores
<1> QED BY <1>1, DeliveryInvariant, PTL DEF Spec, RemovedStaysRemoved
=============================================================================
