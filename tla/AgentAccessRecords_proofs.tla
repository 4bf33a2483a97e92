---------------------- MODULE AgentAccessRecords_proofs ----------------------
(***************************************************************************)
(* Further theorems about AgentAccess: what the requests, permissions and  *)
(* leases tell of one another, whatever handlers overlap.                  *)
(*                                                                         *)
(* They rest on Inductive (AgentAccess_proofs), on how one step may change *)
(* a request, a lease or a resource (NextRequest, NextLease, NextTarget),  *)
(* and on what the handlers that issue or revoke tokens hold (Carries).    *)
(***************************************************************************)
EXTENDS AgentAccess_proofs

-----------------------------------------------------------------------------
(* The inductive invariant *)

\* The revocation endpoint of lease l has been called, if it has one that still
\* can be and an owner.
Reached(l, reqs, targets, owner, leases) ==
  LET r == reqs[leases[l].req].res
  IN r \in External /\ targets[r] # "deleted" /\ owner # "erased" => leases[l].posted

\* What a handler that issues or revokes tokens has established, and nobody can
\* take from it: an issue has found a permission on the target of its request;
\* the leases of a revocation exist, and those it is done with were reached.
Carries(w, reqs, targets, owner, leases) ==
  /\ w.pc = "issue" =>
       /\ reqs[w.req].state # "none"
       /\ w.res = reqs[w.req].res
       /\ Found(w) # {}
  /\ w.pc = "listHost" => w.listed = {}
  /\ w.pc \in {"post", "persist", "end"} =>
       \A l \in w.todo \cup w.listed : leases[l].state # "none"
  /\ w.pc = "post" => \A l \in w.listed \ w.todo : Reached(l, reqs, targets, owner, leases)
  /\ w.pc \in {"persist", "end"} => \A l \in w.listed : Reached(l, reqs, targets, owner, leases)

HandlersCarry == \A p \in Handler : Carries(proc[p], request, resource, agent, lease)

\* An identifier that no lease has taken yet names no permission.
NoneIsEmpty == \A l \in Lease : lease[l].state = "none" => lease[l].perms = {}

Records ==
  /\ HandlersCarry /\ NoneIsEmpty
  /\ AuditTellsDecision /\ ConsumedWasUsed /\ RevokedAtTarget

-----------------------------------------------------------------------------
(* What one step may change *)

\* The steps of handler p that write rows.
Writes(p) ==
  \/ InsertAccessRequest(p) \/ CommitDenial(p) \/ CommitApproval(p)
  \/ WritePermission(p) \/ IssueTokenLease(p)
  \/ PostRevocation(p) \/ PersistRevocation(p) \/ EndEntitlement(p)
  \/ EndWithdrawn(p)

\* Every other step but the deletion of a resource, the reset of a connector and
\* the erasure of the account leaves the rows alone.
LEMMA StepKinds ==
  ASSUME [Next]_vars
  PROVE  \/ UNCHANGED access
         \/ EraseAccount
         \/ \E r \in Resource : DeleteResource(r) \/ ResetConnector(r)
         \/ \E p \in Handler : Writes(p)
<1>1. CASE Environment
  BY <1>1 DEF Environment, Tick, Connect, EnrollHost, SetAgentActive,
              RevokeProviderCredential, SetResourceEnabled
<1>2. ASSUME NEW p \in Handler,
             \/ Ask(p) \/ Decide(p) \/ Grant(p) \/ Issue(p) \/ Revoke(p)
             \/ Remove(p) \/ Abandon(p)
      PROVE  UNCHANGED access
  BY <1>2 DEF Ask, Decide, Grant, Issue, Revoke, Remove, Abandon,
     CreateAgentAccessRequest, DenyAgentAccessRequest, ApproveAgentAccessRequest,
     CreateAgentPermission, IssueTargetAccessToken, RevokeAgentPermission, RemoveAgent,
     RevokeAgentIdentityHost, RevokeResourceConnection, Reconnect, WithdrawScopes
<1>3. ASSUME NEW p \in Handler, Continue(p)
      PROVE  UNCHANGED access \/ Writes(p)
  <2>1. CASE \/ DecideAgain(p) \/ FindEquivalent(p) \/ RereadEquivalent(p)
             \/ RefuseApproval(p) \/ RefuseGrant(p)
    BY <2>1 DEF DecideAgain, FindEquivalent, RereadEquivalent, RefuseApproval,
                RefuseGrant
  <2>2. CASE ListHostLeases(p) \/ PostProvider(p) \/ EndConnection(p)
    BY <2>2 DEF ListHostLeases, PostProvider, EndConnection
  <2>3. ListPermissions(p) => UNCHANGED access
    BY DEF ListPermissions
  <2>4. NextPermission(p) => UNCHANGED access
    BY DEF NextPermission
  <2> QED BY <1>3, <2>1, <2>2, <2>3, <2>4 DEF Continue, Writes
<1>4. CASE UNCHANGED vars
  BY <1>4 DEF vars, access
<1> QED BY <1>1, <1>2, <1>3, <1>4 DEF Next

\* How one step may change a request.
Advances(old, new) ==
  \/ new = old
  \/ /\ old.state = "none" /\ new.state \in {"pending", "approved"}
     /\ new.allowed = 0 /\ new.denied = 0
  \/ /\ old.state = "pending" /\ new.state = "denied" /\ new.res = old.res
     /\ new.allowed = old.allowed /\ new.denied \in {old.denied, old.denied + 1}
  \/ /\ old.state \in {"pending", "approved"} /\ new.state = "approved"
     /\ new.res = old.res /\ new.denied = old.denied
  \/ /\ old.state = "approved" /\ new.state = "consumed"
     /\ new.res = old.res /\ new.denied = old.denied
  \/ /\ new.state = old.state \/ (old.state # "none" /\ new.state = "revoked")
     /\ new.res = old.res /\ new.allowed = old.allowed /\ new.denied = old.denied

LEMMA NextRequest ==
  ASSUME Inductive, [Next]_vars, NEW q \in Request
  PROVE  Advances(request[q], request'[q])
<1>1. request \in [Request -> AccessRequest] /\ request[q] \in AccessRequest
  BY DEF Inductive, TypeOK
<1>2. CASE request' = request
  BY <1>2 DEF Advances
<1>3. ASSUME NEW r \in Resource, DeleteResource(r)
      PROVE  Advances(request[q], request'[q])
  <2>1. \/ request'[q] = request[q]
        \/ request'[q] = [request[q] EXCEPT !.state = "denied"] /\ request[q].state = "pending"
    BY <1>3 DEF DeleteResource
  <2> QED BY <1>1, <2>1 DEF Advances, AccessRequest
<1>10. ASSUME NEW r \in Resource, ResetConnector(r)
       PROVE  Advances(request[q], request'[q])
  <2>1. request'[q] = request[q] \/ request'[q] = [request[q] EXCEPT !.linked = FALSE]
    BY <1>10 DEF ResetConnector
  <2> QED BY <1>1, <2>1 DEF Advances, AccessRequest
<1>11. CASE EraseAccount
  <2>1. \/ request'[q] = request[q]
        \/ request'[q] = [request[q] EXCEPT !.state = "revoked"] /\ request[q].state # "none"
    BY <1>11 DEF EraseAccount
  <2> QED BY <1>1, <2>1 DEF Advances, AccessRequest
<1>4. ASSUME NEW p \in Handler, InsertAccessRequest(p)
      PROVE  Advances(request[q], request'[q])
  <2> DEFINE w == proc[p]
             approved == w.pc = "insertApproved"
             new == [NoAccessRequest EXCEPT
                       !.state = IF approved THEN "approved" ELSE "pending",
                       !.res = w.res, !.linked = w.linked, !.scopes = w.scopes,
                       !.exp = Earlier(w.at + RequestTTL, Never)]
  <2>1. \/ request' = request
        \/ request' = [request EXCEPT ![w.req] = new] /\ request[w.req].state = "none"
    BY <1>4 DEF InsertAccessRequest
  <2>2. new.state \in {"pending", "approved"} /\ new.allowed = 0 /\ new.denied = 0
    BY DEF NoAccessRequest
  <2> HIDE DEF new
  <2>3. request'[q] = request[q] \/ (request'[q] = new /\ request[q].state = "none")
    BY <1>1, <2>1
  <2> QED BY <2>2, <2>3 DEF Advances
<1>5. ASSUME NEW p \in Handler, CommitDenial(p)
      PROVE  Advances(request[q], request'[q])
  <2> DEFINE x == proc[p].req
  <2>1. \/ request' = request
        \/ /\ request' = [request EXCEPT ![x].state = "denied", ![x].denied = @ + 1]
           /\ request[x].state = "pending"
    BY <1>5 DEF CommitDenial
  <2>2. \/ request'[q] = request[q]
        \/ /\ request'[q] = [request[q] EXCEPT !.state = "denied", !.denied = @ + 1]
           /\ request[q].state = "pending"
    BY <1>1, <2>1
  <2> QED BY <1>1, <2>2 DEF Advances, AccessRequest
<1>6. ASSUME NEW p \in Handler, CommitApproval(p)
      PROVE  Advances(request[q], request'[q])
  <2> DEFINE w == proc[p]
             x == w.req
             decided == Decidable(w)
             linked == request[x].linked \/ (decided /\ request[x].res \in External)
             told == decided \/ request[x].state = "approved"
  <2>1. request' = [request EXCEPT
          ![x].state = IF decided THEN "approved" ELSE @,
          ![x].linked = linked,
          ![x].allowed = IF told THEN @ + 1 ELSE @]
    BY <1>6 DEF CommitApproval
  <2>2. decided => request[x].state = "pending"
    BY DEF Decidable
  <2> HIDE DEF linked, decided
  <2>4. CASE q # x
    BY <1>1, <2>1, <2>4 DEF Advances
  <2>5. CASE q = x
    <3>1. request'[q] = [request[q] EXCEPT
            !.state = IF decided THEN "approved" ELSE @,
            !.linked = linked,
            !.allowed = IF told THEN @ + 1 ELSE @]
      BY <1>1, <2>1, <2>5
    <3>2. /\ request'[q].state = IF decided THEN "approved" ELSE request[q].state
          /\ request'[q].res = request[q].res /\ request'[q].denied = request[q].denied
          /\ ~told => request'[q].allowed = request[q].allowed
      BY <1>1, <3>1 DEF AccessRequest
    <3> QED BY <2>2, <2>5, <3>2 DEF Advances
  <2> QED BY <2>4, <2>5
<1>7. ASSUME NEW p \in Handler, IssueTokenLease(p)
      PROVE  Advances(request[q], request'[q])
  <2>1. \/ request' = request
        \/ request' = [request EXCEPT
             ![proc[p].req].state = IF @ = "approved" THEN "consumed" ELSE @]
    BY <1>7 DEF IssueTokenLease, access
  <2>2. \/ request'[q] = request[q]
        \/ request'[q] = [request[q] EXCEPT
                            !.state = IF @ = "approved" THEN "consumed" ELSE @]
    BY <1>1, <2>1
  <2>3. \/ request'[q] = request[q]
        \/ /\ request'[q] = [request[q] EXCEPT !.state = "consumed"]
           /\ request[q].state = "approved"
    BY <1>1, <2>2 DEF AccessRequest
  <2> QED BY <1>1, <2>3 DEF Advances, AccessRequest
<1>8. ASSUME NEW p \in Handler,
             \/ WritePermission(p) \/ PostRevocation(p)
             \/ PersistRevocation(p) \/ EndEntitlement(p) \/ EndWithdrawn(p)
      PROVE  request' = request
  BY <1>8 DEF WritePermission, PostRevocation, PersistRevocation, EndEntitlement,
              EndWithdrawn
<1>9. UNCHANGED access => request' = request
  BY DEF access
<1> QED BY <1>2, <1>3, <1>4, <1>5, <1>6, <1>7, <1>8, <1>9, <1>10, <1>11, StepKinds
     DEF Writes

\* A lease that has been recorded keeps its request and its permissions, stays
\* recorded, and what was posted stays posted.
Endures(old, new) ==
  /\ new.state # "none" /\ new.req = old.req /\ new.perms = old.perms
  /\ old.posted => new.posted

\* What an issue of handler w writes into an identifier.
Issued(w, new) ==
  /\ new.state = "live" /\ new.req = w.req /\ ~new.posted
  /\ new.perms = {IdOf(w.res, s, w.seen[s]) : s \in Found(w)}

\* A lease identifier is as it was, endures, or is taken by an issue whose guard
\* held.
LEMMA NextLease ==
  ASSUME Inductive, HandlersCarry, [Next]_vars, NEW l \in Lease
  PROVE  \/ lease'[l] = lease[l]
         \/ lease[l].state # "none" /\ Endures(lease[l], lease'[l])
         \/ /\ lease[l].state = "none"
            /\ \E p \in Handler, t \in Instant :
                 /\ IssueTokenLease(p) /\ MayInsertLease(proc[p], t)
                 /\ Issued(proc[p], lease'[l])
<1>1. lease \in [Lease -> TokenLease] /\ lease[l] \in TokenLease
  BY DEF Inductive, TypeOK
<1>2. ASSUME NEW L, MarkRevoked(L)
      PROVE  \/ lease'[l] = lease[l]
             \/ lease[l].state # "none" /\ Endures(lease[l], lease'[l])
  <2>1. \/ lease'[l] = lease[l]
        \/ lease'[l] = [lease[l] EXCEPT !.state = "revoked"] /\ lease[l].state = "live"
    BY <1>2 DEF MarkRevoked
  <2> QED BY <1>1, <2>1 DEF Endures, TokenLease
<1>3. ASSUME NEW p \in Handler, PostRevocation(p)
      PROVE  \/ lease'[l] = lease[l]
             \/ lease[l].state # "none" /\ Endures(lease[l], lease'[l])
  <2>1. \/ lease' = lease
        \/ \E m \in proc[p].todo : lease' = [lease EXCEPT ![m].posted = TRUE]
    BY <1>3 DEF PostRevocation
  <2>2. \/ lease'[l] = lease[l]
        \/ l \in proc[p].todo /\ lease'[l] = [lease[l] EXCEPT !.posted = TRUE]
    BY <1>1, <2>1
  <2>3. l \in proc[p].todo => lease[l].state # "none"
    BY <1>3 DEF PostRevocation, HandlersCarry, Carries
  <2> QED BY <1>1, <2>2, <2>3 DEF Endures, TokenLease
<1>4. ASSUME NEW p \in Handler, IssueTokenLease(p)
      PROVE  \/ lease'[l] = lease[l]
             \/ /\ lease[l].state = "none"
                /\ \E t \in Instant :
                     MayInsertLease(proc[p], t) /\ Issued(proc[p], lease'[l])
  <2> DEFINE w == proc[p]
             New(e) == [state |-> "live", req |-> w.req, host |-> w.host, exp |-> e,
                        perms |-> {IdOf(w.res, s, w.seen[s]) : s \in Found(w)},
                        posted |-> FALSE]
  <2>1. \/ lease' = lease
        \/ \E t, e \in Instant, m \in Lease :
             /\ MayInsertLease(w, t) /\ lease[m].state = "none"
             /\ lease' = [lease EXCEPT ![m] = New(e)]
    BY <1>4 DEF IssueTokenLease, access
  <2>2. \A e : Issued(w, New(e))
    BY DEF Issued
  <2> HIDE DEF New
  <2>3. \/ lease'[l] = lease[l]
        \/ \E t, e \in Instant :
             MayInsertLease(w, t) /\ lease[l].state = "none" /\ lease'[l] = New(e)
    BY <1>1, <2>1
  <2> QED BY <2>2, <2>3
<1>5. ASSUME NEW p \in Handler,
             \/ InsertAccessRequest(p) \/ CommitDenial(p) \/ CommitApproval(p)
             \/ WritePermission(p) \/ EndWithdrawn(p)
      PROVE  lease' = lease
  BY <1>5 DEF InsertAccessRequest, CommitDenial, CommitApproval, WritePermission,
              EndWithdrawn
<1>6. UNCHANGED access => lease' = lease
  BY DEF access
<1>7. ASSUME NEW r \in Resource, DeleteResource(r)
      PROVE  MarkRevoked(LeasesOfResource(r))
  BY <1>7 DEF DeleteResource
<1>9. \A r \in Resource : ResetConnector(r) => lease' = lease
  BY DEF ResetConnector
<1>10. EraseAccount => MarkRevoked(Lease)
  BY DEF EraseAccount
<1>8. ASSUME NEW p \in Handler, PersistRevocation(p) \/ EndEntitlement(p)
      PROVE  MarkRevoked(proc[p].listed)
  BY <1>8 DEF PersistRevocation, EndEntitlement
<1> QED BY <1>2, <1>3, <1>4, <1>5, <1>6, <1>7, <1>8, <1>9, <1>10, StepKinds DEF Writes

\* A deleted resource stays deleted.
LEMMA NextTarget ==
  ASSUME Inductive, [Next]_vars, NEW r \in Resource
  PROVE  resource[r] = "deleted" => resource'[r] = "deleted"
<1>1. resource \in [Resource -> {"enabled", "disabled", "deleted"}]
  BY DEF Inductive, TypeOK
<1>2. CASE resource' = resource
  BY <1>2
<1>3. ASSUME NEW x \in Resource, SetResourceEnabled(x) \/ DeleteResource(x)
      PROVE  resource[r] = "deleted" => resource'[r] = "deleted"
  BY <1>1, <1>3 DEF SetResourceEnabled, DeleteResource
<1>4. CASE Environment
  BY <1>3, <1>4 DEF Environment, Tick, Connect, EnrollHost, SetAgentActive,
                    RevokeProviderCredential, ResetConnector, EraseAccount
<1>5. ASSUME NEW p \in Handler,
             \/ Ask(p) \/ Decide(p) \/ Grant(p) \/ Issue(p) \/ Revoke(p)
             \/ Remove(p) \/ Abandon(p)
      PROVE  resource' = resource
  BY <1>5 DEF Ask, Decide, Grant, Issue, Revoke, Remove, Abandon, setting,
     CreateAgentAccessRequest, DenyAgentAccessRequest, ApproveAgentAccessRequest,
     CreateAgentPermission, IssueTargetAccessToken, RevokeAgentPermission, RemoveAgent,
     RevokeAgentIdentityHost, RevokeResourceConnection, Reconnect, WithdrawScopes
<1>6. ASSUME NEW p \in Handler, Continue(p)
      PROVE  resource' = resource
  <2>1. CASE \/ InsertAccessRequest(p) \/ DecideAgain(p) \/ CommitDenial(p)
             \/ FindEquivalent(p) \/ RereadEquivalent(p)
             \/ RefuseApproval(p) \/ RefuseGrant(p)
    BY <2>1 DEF InsertAccessRequest, DecideAgain, CommitDenial, FindEquivalent,
       RereadEquivalent, RefuseApproval, RefuseGrant, setting
  <2>2. CASE ListHostLeases(p) \/ PostProvider(p) \/ EndConnection(p)
    BY <2>2 DEF ListHostLeases, PostProvider, EndConnection, setting
  <2>3. CASE CommitApproval(p)
    BY <2>3 DEF CommitApproval, setting
  <2>4. CASE WritePermission(p)
    BY <2>4 DEF WritePermission, setting
  <2>5. CASE IssueTokenLease(p)
    BY <2>5 DEF IssueTokenLease, setting
  <2>6. CASE ListPermissions(p)
    BY <2>6 DEF ListPermissions, setting
  <2>7. CASE NextPermission(p)
    BY <2>7 DEF NextPermission, setting
  <2>8. CASE \/ PostRevocation(p) \/ PersistRevocation(p) \/ EndEntitlement(p)
             \/ EndWithdrawn(p)
    BY <2>8 DEF PostRevocation, PersistRevocation, EndEntitlement, EndWithdrawn, setting
  <2> QED BY <1>6, <2>1, <2>2, <2>3, <2>4, <2>5, <2>6, <2>7, <2>8 DEF Continue
<1>7. CASE UNCHANGED vars
  BY <1>7 DEF vars
<1> QED BY <1>2, <1>4, <1>5, <1>6, <1>7 DEF Next

\* An erased account stays erased.
LEMMA NextOwner ==
  ASSUME Inductive, [Next]_vars, agent = "erased"
  PROVE  agent' = "erased"
<1>1. CASE Environment
  BY <1>1 DEF Environment, Tick, Connect, EnrollHost, SetAgentActive,
              RevokeProviderCredential, ResetConnector, SetResourceEnabled,
              DeleteResource, EraseAccount
<1>2. ASSUME NEW p \in Handler, Remove(p)
      PROVE  agent' = "erased"
  BY <1>2 DEF Remove, RemoveAgent, Deleted, RevokeAgentIdentityHost, setting,
              RevokeResourceConnection, Reconnect, WithdrawScopes
<1>3. ASSUME NEW p \in Handler,
             Ask(p) \/ Decide(p) \/ Grant(p) \/ Issue(p) \/ Revoke(p) \/ Abandon(p)
      PROVE  agent' = agent
  BY <1>3 DEF Ask, Decide, Grant, Issue, Revoke, Abandon, setting,
     CreateAgentAccessRequest, DenyAgentAccessRequest, ApproveAgentAccessRequest,
     CreateAgentPermission, IssueTargetAccessToken, RevokeAgentPermission
<1>4. CASE UNCHANGED vars
  BY <1>4 DEF vars
<1> QED BY <1>1, <1>2, <1>3, <1>4, ContinueKeepsAgent DEF Next

-----------------------------------------------------------------------------
(* Handlers *)

\* A recorded lease answers a request that exists.
LEMMA LeaseAnswersRequest ==
  ASSUME Inductive, NEW l \in Lease, lease[l].state # "none"
  PROVE  lease[l].req \in Request /\ request[lease[l].req].state # "none"
<1>1. lease[l].state \in {"live", "revoked"}
  BY DEF Inductive, TypeOK, TokenLease
<1>2. request[lease[l].req].state \in {"consumed", "revoked"}
  BY <1>1 DEF Inductive, LeaseOfDecidedRequest
<1> QED BY <1>2 DEF Inductive, LeasesOK

\* What a handler carries survives any step.
LEMMA CarriesKept ==
  ASSUME Inductive, HandlersCarry, [Next]_vars, NEW w, Shape(w),
         Carries(w, request, resource, agent, lease)
  PROVE  Carries(w, request', resource', agent', lease')
<1>1. w \in Work /\ w.todo \cup w.listed \subseteq Lease
  <2>1. w \in Work
    BY DEF Shape
  <2> QED BY <2>1 DEF Work
<1>2. ASSUME NEW q \in Request, request[q].state # "none"
      PROVE  request'[q].state # "none" /\ request'[q].res = request[q].res
  BY <1>2, NextRequest DEF Advances
<1>3. ASSUME NEW l \in Lease, lease[l].state # "none"
      PROVE  /\ lease'[l].state # "none"
             /\ Reached(l, request, resource, agent, lease) =>
                  Reached(l, request', resource', agent', lease')
  <2>1. lease'[l].state # "none" /\ lease'[l].req = lease[l].req
        /\ (lease[l].posted => lease'[l].posted)
    BY <1>3, NextLease DEF Endures
  <2>2. lease[l].req \in Request /\ request[lease[l].req].state # "none"
    BY <1>3, LeaseAnswersRequest
  <2>3. request[lease[l].req].res \in Resource
    BY <2>2 DEF Inductive, RequestsOK
  <2>4. request'[lease[l].req].res = request[lease[l].req].res
    BY <1>2, <2>2
  <2>5. resource[request[lease[l].req].res] = "deleted" =>
          resource'[request[lease[l].req].res] = "deleted"
    BY <2>3, NextTarget
  <2>6. agent = "erased" => agent' = "erased"
    BY NextOwner
  <2> QED BY <2>1, <2>4, <2>5, <2>6 DEF Reached
<1>4. w.pc = "issue" => request'[w.req].state # "none" /\ w.res = request'[w.req].res
  <2>1. w.pc = "issue" =>
          w.req \in Request /\ request[w.req].state # "none" /\ w.res = request[w.req].res
    BY DEF Shape, Carries
  <2> QED BY <1>2, <2>1
<1>5. w.pc = "issue" => Found(w) # {}
  BY DEF Carries
<1>6. w.pc \in {"post", "persist", "end"} =>
        \A l \in w.todo \cup w.listed : lease'[l].state # "none"
  BY <1>1, <1>3 DEF Carries
<1>7. w.pc = "post" => \A l \in w.listed \ w.todo : Reached(l, request', resource', agent', lease')
  BY <1>1, <1>3 DEF Carries
<1>8. w.pc \in {"persist", "end"} =>
        \A l \in w.listed : Reached(l, request', resource', agent', lease')
  BY <1>1, <1>3 DEF Carries
<1> QED BY <1>4, <1>5, <1>6, <1>7, <1>8 DEF Carries

\* Where a handler neither issues nor revokes.
Quiet(w) == w.pc \notin {"issue", "listHost", "post", "persist", "end"}

LEMMA QuietCarries ==
  ASSUME NEW w, Quiet(w), NEW reqs, NEW targets, NEW owner, NEW leases
  PROVE  Carries(w, reqs, targets, owner, leases)
BY DEF Quiet, Carries

LEMMA IdleQuiet == Quiet(Idle)
BY DEF Quiet, Idle

\* A step by which handler p comes to hold w.
LEMMA GotoCarries ==
  ASSUME Inductive, HandlersCarry, [Next]_vars, NEW p \in Handler, NEW w, Goto(p, w),
         Carries(w, request', resource', agent', lease')
  PROVE  HandlersCarry'
<1>1. proc \in [Handler -> Work]
  BY DEF Inductive, TypeOK
<1>2. ASSUME NEW x \in Handler
      PROVE  Carries(proc'[x], request', resource', agent', lease')
  <2>1. CASE x = p
    BY <1>1, <2>1 DEF Goto
  <2>2. CASE x # p
    <3>1. proc'[x] = proc[x]
      BY <1>1, <2>2 DEF Goto
    <3>2. Shape(proc[x]) /\ Carries(proc[x], request, resource, agent, lease)
      BY DEF Inductive, HandlersOK, HandlersCarry
    <3> QED BY <3>1, <3>2, CarriesKept
  <2> QED BY <2>1, <2>2
<1> QED BY <1>2 DEF HandlersCarry

\* A step that gives handler p a quiet record.
Becomes(p, w) == Goto(p, w) /\ Quiet(w)

LEMMA BecomesQuiet ==
  ASSUME Inductive, NEW p \in Handler, NEW w, Becomes(p, w)
  PROVE  Goto(p, proc'[p]) /\ Quiet(proc'[p])
<1>1. proc'[p] = w
  BY DEF Becomes, Goto, Inductive, TypeOK
<1> QED BY <1>1 DEF Becomes

\* The steps after which handler p neither issues nor revokes.
LEMMA QuietSteps ==
  ASSUME Inductive, NEW p \in Handler,
         \/ Ask(p) \/ Decide(p) \/ Grant(p) \/ Abandon(p)
         \/ \E status \in {"inactive", "deleted"} : RemoveAgent(p, status)
         \/ \E r \in Resource : \/ RevokeResourceConnection(p, r) \/ Reconnect(p, r)
                                \/ WithdrawScopes(p, r)
         \/ InsertAccessRequest(p) \/ DecideAgain(p) \/ CommitDenial(p)
         \/ CommitApproval(p) \/ FindEquivalent(p) \/ WritePermission(p)
         \/ RereadEquivalent(p) \/ IssueTokenLease(p) \/ PostProvider(p)
         \/ ListPermissions(p) \/ EndEntitlement(p) \/ EndConnection(p)
         \/ RefuseApproval(p) \/ RefuseGrant(p) \/ EndWithdrawn(p)
  PROVE  Goto(p, proc'[p]) /\ Quiet(proc'[p])
<1>1. proc[p] \in Work
  BY DEF Inductive, TypeOK
<1>2. Done(p) => Becomes(p, Idle)
  BY IdleQuiet DEF Done, Becomes
<1>3. CASE Ask(p)
  <2>1. PICK r \in Resource, S \in SUBSET Scope, b \in Host :
          CreateAgentAccessRequest(p, b, r, S)
    BY <1>3 DEF Ask
  <2> DEFINE linked == connection[r] # "none"
             Asking(q, pc) == [Idle EXCEPT !.pc = pc, !.req = q, !.res = r,
                                 !.linked = linked, !.scopes = S, !.at = now]
             Deciding(q) == [Idle EXCEPT !.pc = "decide", !.req = q,
                                         !.mode = "persistent", !.retry = TRUE]
  <2>2. PICK q \in Request, pc \in {"insertApproved", "insertPending"} :
          Goto(p, Asking(q, pc)) \/ Goto(p, Deciding(q))
    BY <2>1 DEF CreateAgentAccessRequest
  <2>3. Quiet(Asking(q, pc)) /\ Quiet(Deciding(q))
    BY DEF Quiet, Idle
  <2> HIDE DEF Asking, Deciding
  <2> QED BY <2>2, <2>3, BecomesQuiet DEF Becomes
<1>4. CASE Decide(p)
  <2>1. PICK q \in Request, m \in Mode, e \in Instant :
          DenyAgentAccessRequest(p, q) \/ ApproveAgentAccessRequest(p, q, m, e)
    BY <1>4, Times DEF Decide, Mode
  <2> DEFINE deny == [Idle EXCEPT !.pc = "deny", !.req = q]
             approve == ReadApproval(q, m, e, TRUE)
  <2>2. Goto(p, deny) \/ Goto(p, approve)
    BY <2>1 DEF DenyAgentAccessRequest, ApproveAgentAccessRequest
  <2>3. Quiet(deny) /\ Quiet(approve)
    BY DEF Quiet, Idle, ReadApproval
  <2> HIDE DEF deny, approve
  <2> QED BY <2>2, <2>3, BecomesQuiet DEF Becomes
<1>5. CASE Grant(p)
  <2>1. PICK r \in Resource, S \in SUBSET Scope, m \in Mode, e \in Instant :
          CreateAgentPermission(p, r, S, m, e)
    BY <1>5 DEF Grant
  <2> DEFINE w == [Idle EXCEPT !.pc = "grant", !.res = r, !.scopes = S,
                               !.mode = m, !.exp = e, !.at = now]
  <2>2. Goto(p, w) /\ Quiet(w)
    BY <2>1 DEF CreateAgentPermission, Quiet, Idle
  <2> QED BY <2>2, BecomesQuiet DEF Becomes
<1>6. CASE \E status \in {"inactive", "deleted"} : RemoveAgent(p, status)
  <2> DEFINE w == [Idle EXCEPT !.pc = "listAgent", !.op = "agent"]
  <2>1. Goto(p, w) /\ Quiet(w)
    BY <1>6 DEF RemoveAgent, Quiet, Idle
  <2> QED BY <2>1, BecomesQuiet DEF Becomes
<1>7. CASE \E r \in Resource : RevokeResourceConnection(p, r) \/ Reconnect(p, r)
  <2>1. PICK r \in Resource : RevokeResourceConnection(p, r) \/ Reconnect(p, r)
    BY <1>7
  <2> DEFINE end(pc) == [Idle EXCEPT !.op = "connection", !.res = r, !.pc = pc]
             narrow == [Idle EXCEPT !.pc = "listConnection", !.op = "narrow",
                                    !.res = r, !.at = now]
  <2>2. PICK pc \in {"postProvider", "listConnection"} : Goto(p, end(pc)) \/ Goto(p, narrow)
    BY <2>1 DEF RevokeResourceConnection, Reconnect, WithdrawScopes
  <2>3. Quiet(end(pc)) /\ Quiet(narrow)
    BY DEF Quiet, Idle
  <2> HIDE DEF end, narrow
  <2> QED BY <2>2, <2>3, BecomesQuiet DEF Becomes
<1>8. CASE InsertAccessRequest(p)
  <2> DEFINE w == [Idle EXCEPT !.pc = "decide", !.req = proc[p].req,
                               !.mode = "persistent", !.retry = TRUE]
  <2>1. Done(p) \/ Goto(p, w)
    BY <1>8 DEF InsertAccessRequest
  <2>2. Quiet(w)
    BY DEF Quiet, Idle
  <2> HIDE DEF w
  <2> QED BY <1>2, <2>1, <2>2, BecomesQuiet DEF Becomes
<1>9. CASE DecideAgain(p)
  <2> DEFINE w == ReadApproval(proc[p].req, proc[p].mode, proc[p].exp, proc[p].retry)
  <2>1. Done(p) \/ Goto(p, w)
    BY <1>9 DEF DecideAgain
  <2>2. Quiet(w)
    BY DEF Quiet, Idle, ReadApproval
  <2> HIDE DEF w
  <2> QED BY <1>2, <2>1, <2>2, BecomesQuiet DEF Becomes
<1>10. CASE CommitApproval(p)
  <2>1. Done(p) \/ Goto(p, Retry(proc[p]))
    BY <1>10 DEF CommitApproval
  <2>2. Quiet(Retry(proc[p]))
    BY DEF Quiet, Idle, Retry
  <2> QED BY <1>2, <2>1, <2>2, BecomesQuiet DEF Becomes
<1>11. CASE \/ CommitDenial(p) \/ IssueTokenLease(p) \/ EndConnection(p) \/ Abandon(p)
            \/ RefuseApproval(p) \/ RefuseGrant(p) \/ EndWithdrawn(p)
  <2>1. Done(p)
    BY <1>11 DEF CommitDenial, IssueTokenLease, EndConnection, Abandon,
                 RefuseApproval, RefuseGrant, EndWithdrawn
  <2> QED BY <1>2, <2>1, BecomesQuiet
<1>12. CASE FindEquivalent(p)
  <2> DEFINE w == proc[p]
             Seen(s, seen) == [w EXCEPT !.pc = "grantWrite", !.seen[s] = seen,
                                        !.current = IdOf(w.res, s, seen)]
  <2>1. PICK s, seen : Done(p) \/ Goto(p, Seen(s, seen))
    BY <1>12 DEF FindEquivalent
  <2>2. Quiet(Seen(s, seen))
    BY <1>1 DEF Quiet, Work
  <2> HIDE DEF Seen
  <2> QED BY <1>2, <2>1, <2>2, BecomesQuiet DEF Becomes
<1>13. CASE WritePermission(p)
  <2> DEFINE w == proc[p]
             s == w.current.scope
             reread == [w EXCEPT !.pc = "grantReread"]
             next == [w EXCEPT !.pc = "grant", !.scopes = @ \ {s}, !.current = None,
                               !.seen[s] = NoEntitlement]
  <2>1. Done(p) \/ Goto(p, reread) \/ Goto(p, next)
    BY <1>13 DEF WritePermission
  <2>2. Quiet(reread) /\ Quiet(next)
    BY <1>1 DEF Quiet, Work
  <2> HIDE DEF reread, next
  <2> QED BY <1>2, <2>1, <2>2, BecomesQuiet DEF Becomes
<1>14. CASE RereadEquivalent(p)
  <2> DEFINE s == proc[p].current.scope
             w == [proc[p] EXCEPT !.pc = "grantWrite", !.seen[s] = ent[proc[p].res][s]]
  <2>1. Done(p) \/ Goto(p, w)
    BY <1>14 DEF RereadEquivalent
  <2>2. Quiet(w)
    BY <1>1 DEF Quiet, Work
  <2> HIDE DEF w
  <2> QED BY <1>2, <2>1, <2>2, BecomesQuiet DEF Becomes
<1>15. CASE PostProvider(p)
  <2> DEFINE w == [proc[p] EXCEPT !.pc = "listConnection"]
  <2>1. Done(p) \/ Goto(p, w)
    BY <1>15 DEF PostProvider
  <2>2. Quiet(w)
    BY <1>1 DEF Quiet, Work
  <2> HIDE DEF w
  <2> QED BY <1>2, <2>1, <2>2, BecomesQuiet DEF Becomes
<1>16. CASE ListPermissions(p)
  <2> DEFINE Listing(queue) == [proc[p] EXCEPT !.pc = "next", !.at = now, !.queue = queue]
             Narrowing(queue) == [proc[p] EXCEPT !.pc = "next", !.queue = queue]
  <2>1. PICK queue : Goto(p, Listing(queue)) \/ Goto(p, Narrowing(queue))
    BY <1>16 DEF ListPermissions
  <2>2. Quiet(Listing(queue)) /\ Quiet(Narrowing(queue))
    BY <1>1 DEF Quiet, Work
  <2> HIDE DEF Listing, Narrowing
  <2> QED BY <2>1, <2>2, BecomesQuiet DEF Becomes
<1>17. CASE EndEntitlement(p)
  <2> DEFINE w == [proc[p] EXCEPT !.pc = "next", !.current = None, !.listed = {}]
  <2>1. Done(p) \/ Goto(p, w)
    BY <1>17 DEF EndEntitlement
  <2>2. Quiet(w)
    BY <1>1 DEF Quiet, Work
  <2> HIDE DEF w
  <2> QED BY <1>2, <2>1, <2>2, BecomesQuiet DEF Becomes
<1>18. CASE \E r \in Resource : WithdrawScopes(p, r)
  <2>0. PICK r \in Resource : WithdrawScopes(p, r)
    BY <1>18
  <2>1. PICK queue :
          Goto(p, [Idle EXCEPT !.pc = "withdraw", !.res = r, !.queue = queue])
    BY <2>0 DEF WithdrawScopes
  <2> DEFINE w == [Idle EXCEPT !.pc = "withdraw", !.res = r, !.queue = queue]
  <2>2. Quiet(w)
    BY DEF Quiet, Idle
  <2> HIDE DEF w
  <2> QED BY <2>1, <2>2, BecomesQuiet DEF Becomes, w
<1> QED BY <1>3, <1>4, <1>5, <1>6, <1>7, <1>8, <1>9, <1>10, <1>11, <1>12, <1>13,
           <1>14, <1>15, <1>16, <1>17, <1>18

\* An issue starts with what it has just read.
LEMMA IssueCarries ==
  ASSUME Inductive, HandlersCarry, [Next]_vars, NEW p \in Handler, Issue(p)
  PROVE  HandlersCarry'
<1>1. PICK q \in Request, b \in Host : IssueTargetAccessToken(p, q, b)
  BY DEF Issue
<1> DEFINE r == request[q].res
           w == [Idle EXCEPT !.pc = "issue", !.req = q, !.res = r, !.host = b,
                             !.at = now, !.seen = LiveRows(r, now)]
<1>2. /\ Goto(p, w) /\ Found(w) # {} /\ request[q].state # "none"
      /\ request' = request /\ resource' = resource /\ lease' = lease
  BY <1>1 DEF IssueTargetAccessToken, setting, access
<1>3. w.pc = "issue" /\ w.req = q /\ w.res = r
  BY DEF Idle
<1> HIDE DEF w
<1>4. Carries(w, request', resource', agent', lease')
  BY <1>2, <1>3 DEF Carries
<1> QED BY <1>2, <1>4, GotoCarries

\* The leases on a permission have been recorded.
LEMMA LeasesOnRecorded ==
  ASSUME NEW k, NEW t, NEW l \in LeasesOn(k, t)
  PROVE  lease[l].state # "none"
BY DEF LeasesOn

LEMMA RevokeCarries ==
  ASSUME Inductive, HandlersCarry, [Next]_vars, NEW p \in Handler, Revoke(p)
  PROVE  HandlersCarry'
<1>1. PICK r \in Resource, s \in Scope : RevokeAgentPermission(p, r, s)
  BY DEF Revoke
<1> DEFINE k == IdOf(r, s, ent[r][s])
           leases == LeasesOn(k, now)
           w == [Idle EXCEPT !.pc = "post", !.op = "permission", !.current = k,
                             !.at = now, !.todo = leases, !.listed = leases]
<1>2. Goto(p, w) /\ request' = request /\ resource' = resource /\ lease' = lease
  BY <1>1 DEF RevokeAgentPermission, setting, access
<1>3. w.pc = "post" /\ w.todo = leases /\ w.listed = leases
  BY DEF Idle
<1>4. \A l \in leases : lease[l].state # "none"
  BY LeasesOnRecorded
<1> HIDE DEF w, leases
<1>5. Carries(w, request', resource', agent', lease')
  BY <1>2, <1>3, <1>4 DEF Carries
<1> QED BY <1>2, <1>5, GotoCarries

LEMMA RevokeHostCarries ==
  ASSUME Inductive, HandlersCarry, [Next]_vars, NEW p \in Handler,
         NEW b \in Host, RevokeAgentIdentityHost(p, b)
  PROVE  HandlersCarry'
<1> DEFINE w == [Idle EXCEPT !.pc = "listHost", !.op = "host", !.host = b]
<1>1. Goto(p, w)
  BY DEF RevokeAgentIdentityHost
<1>2. w.pc = "listHost" /\ w.listed = {}
  BY DEF Idle
<1> HIDE DEF w
<1>3. Carries(w, request', resource', agent', lease')
  BY <1>2 DEF Carries
<1> QED BY <1>1, <1>3, GotoCarries

LEMMA ListHostLeasesCarries ==
  ASSUME Inductive, HandlersCarry, [Next]_vars, NEW p \in Handler, ListHostLeases(p)
  PROVE  HandlersCarry'
<1> DEFINE leases == LeasesOfHost(proc[p].host, now)
           w == [proc[p] EXCEPT !.pc = "post", !.at = now, !.todo = leases]
<1>1. proc[p] \in Work /\ Carries(proc[p], request, resource, agent, lease)
  BY DEF Inductive, TypeOK, HandlersCarry
<1>2. /\ Goto(p, w) /\ proc[p].pc = "listHost"
      /\ request' = request /\ resource' = resource /\ lease' = lease
  BY DEF ListHostLeases, setting, access
<1>3. proc[p].listed = {}
  BY <1>1, <1>2 DEF Carries
<1>4. w.pc = "post" /\ w.todo = leases /\ w.listed = {}
  BY <1>1, <1>3 DEF Work
<1>5. \A l \in leases : lease[l].state # "none"
  BY DEF LeasesOfHost
<1> HIDE DEF w, leases
<1>6. Carries(w, request', resource', agent', lease')
  BY <1>2, <1>4, <1>5 DEF Carries
<1> QED BY <1>2, <1>6, GotoCarries

LEMMA NextPermissionCarries ==
  ASSUME Inductive, HandlersCarry, [Next]_vars, NEW p \in Handler, NextPermission(p)
  PROVE  HandlersCarry'
<1>1. proc[p] \in Work
  BY DEF Inductive, TypeOK
<1>2. request' = request /\ resource' = resource /\ lease' = lease
  BY DEF NextPermission, setting, access
<1> DEFINE t == IF proc[p].op \in {"agent", "narrow"} THEN proc[p].at ELSE now
           end == [proc[p] EXCEPT !.pc = "endConnection"]
           Post(k) == [proc[p] EXCEPT !.pc = "post", !.queue = @ \ {k},
                         !.current = k, !.at = t, !.todo = LeasesOn(k, t),
                         !.listed = IF proc[p].op = "agent" THEN {} ELSE LeasesOn(k, t)]
<1>3. PICK k : Done(p) \/ Goto(p, end) \/ Goto(p, Post(k))
  BY DEF NextPermission
<1>4. Quiet(end)
  BY <1>1 DEF Quiet, Work
<1>5. /\ Post(k).pc = "post" /\ Post(k).todo = LeasesOn(k, t)
      /\ Post(k).listed \subseteq LeasesOn(k, t)
  BY <1>1 DEF Work
<1>6. \A l \in LeasesOn(k, t) : lease[l].state # "none"
  BY LeasesOnRecorded
<1> HIDE DEF Post, end, t
<1>7. Carries(Post(k), request', resource', agent', lease')
  BY <1>2, <1>5, <1>6 DEF Carries
<1>8. Carries(end, request', resource', agent', lease') /\ Carries(Idle, request', resource', agent', lease')
  BY <1>4, QuietCarries, IdleQuiet
<1> QED BY <1>3, <1>7, <1>8, GotoCarries DEF Done

LEMMA PostRevocationCarries ==
  ASSUME Inductive, HandlersCarry, [Next]_vars, NEW p \in Handler, PostRevocation(p)
  PROVE  HandlersCarry'
<1> DEFINE w == proc[p]
           end == [w EXCEPT !.pc = "end"]
           Single(l) == [w EXCEPT !.pc = "persist", !.todo = @ \ {l}, !.listed = {l}]
           Rest(l) == [w EXCEPT !.todo = @ \ {l}]
<1>1. w \in Work /\ Shape(w) /\ Carries(w, request, resource, agent, lease) /\ w.pc = "post"
  BY DEF Inductive, TypeOK, HandlersOK, HandlersCarry, PostRevocation
<1>2. Carries(w, request', resource', agent', lease')
  BY <1>1, CarriesKept
<1>3. /\ \A l \in w.todo \cup w.listed : lease'[l].state # "none"
      /\ \A l \in w.listed \ w.todo : Reached(l, request', resource', agent', lease')
  BY <1>1, <1>2 DEF Carries
<1>4. request' = request /\ resource' = resource
  BY DEF PostRevocation, setting
<1>5. CASE Done(p)
  BY <1>5, IdleQuiet, QuietCarries, GotoCarries DEF Done
<1>6. CASE w.todo = {} /\ Goto(p, end)
  <2>1. end.pc = "end" /\ end.todo = {} /\ end.listed = w.listed
    BY <1>1, <1>6 DEF Work
  <2> HIDE DEF end
  <2>2. Carries(end, request', resource', agent', lease')
    BY <1>3, <1>6, <2>1 DEF Carries
  <2> QED BY <1>6, <2>2, GotoCarries
<1>7. ASSUME NEW l \in w.todo, Goto(p, Single(l)) \/ Goto(p, Rest(l)),
             lease' = IF request[lease[l].req].res \in External
                      THEN [lease EXCEPT ![l].posted = TRUE] ELSE lease
      PROVE  HandlersCarry'
  <2>1. l \in Lease /\ lease \in [Lease -> TokenLease] /\ lease[l] \in TokenLease
    BY <1>1, <1>7 DEF Work, Inductive, TypeOK
  <2>2. /\ lease'[l].req = lease[l].req
        /\ request[lease[l].req].res \in External => lease'[l].posted
    BY <1>7, <2>1 DEF TokenLease
  <2>3. Reached(l, request', resource', agent', lease')
    BY <1>4, <2>2 DEF Reached
  <2>4. /\ Single(l).pc = "persist" /\ Single(l).listed = {l}
        /\ Single(l).todo = w.todo \ {l}
    BY <1>1 DEF Work
  <2>5. Rest(l).pc = "post" /\ Rest(l).listed = w.listed /\ Rest(l).todo = w.todo \ {l}
    BY <1>1 DEF Work
  <2> HIDE DEF Single, Rest
  <2>6. Carries(Single(l), request', resource', agent', lease')
    BY <1>3, <2>3, <2>4 DEF Carries
  <2>7. Carries(Rest(l), request', resource', agent', lease')
    BY <1>3, <2>3, <2>5 DEF Carries
  <2> QED BY <1>7, <2>6, <2>7, GotoCarries
<1>8. \/ Done(p)
      \/ w.todo = {} /\ Goto(p, end)
      \/ \E l \in w.todo :
           /\ Goto(p, Single(l)) \/ Goto(p, Rest(l))
           /\ lease' = IF request[lease[l].req].res \in External
                       THEN [lease EXCEPT ![l].posted = TRUE] ELSE lease
  BY DEF PostRevocation
<1> QED BY <1>5, <1>6, <1>7, <1>8

LEMMA PersistRevocationCarries ==
  ASSUME Inductive, HandlersCarry, [Next]_vars, NEW p \in Handler, PersistRevocation(p)
  PROVE  HandlersCarry'
<1> DEFINE w == proc[p]
           post == [w EXCEPT !.pc = "post", !.listed = {}]
<1>1. w \in Work /\ Shape(w) /\ Carries(w, request, resource, agent, lease)
      /\ w.pc = "persist" /\ Goto(p, post)
  BY DEF Inductive, TypeOK, HandlersOK, HandlersCarry, PersistRevocation
<1>2. \A l \in w.todo : lease'[l].state # "none"
  BY <1>1, CarriesKept DEF Carries
<1>3. post.pc = "post" /\ post.listed = {} /\ post.todo = w.todo
  BY <1>1 DEF Work
<1> HIDE DEF post
<1>4. Carries(post, request', resource', agent', lease')
  BY <1>2, <1>3 DEF Carries
<1> QED BY <1>1, <1>4, GotoCarries

LEMMA NextHandlersCarry ==
  ASSUME Inductive, HandlersCarry, [Next]_vars
  PROVE  HandlersCarry'
<1>1. CASE UNCHANGED proc
  <2>1. ASSUME NEW p \in Handler
        PROVE  Carries(proc[p], request', resource', agent', lease')
    BY CarriesKept DEF Inductive, HandlersOK, HandlersCarry
  <2> QED BY <1>1, <2>1 DEF HandlersCarry
<1>2. CASE Environment
  <2>1. UNCHANGED proc
    BY <1>2 DEF Environment, Tick, Connect, EnrollHost, SetAgentActive,
                RevokeProviderCredential, SetResourceEnabled, DeleteResource,
                ResetConnector, EraseAccount
  <2> QED BY <1>1, <2>1
<1>3. ASSUME NEW p \in Handler, Goto(p, proc'[p]) /\ Quiet(proc'[p])
      PROVE  HandlersCarry'
  <2>1. PICK w : w = proc'[p]
    OBVIOUS
  <2>2. Goto(p, w) /\ Quiet(w)
    BY <1>3, <2>1 DEF Goto
  <2> QED BY <2>2, QuietCarries, GotoCarries
<1>4. ASSUME NEW p \in Handler,
             \/ Ask(p) \/ Decide(p) \/ Grant(p) \/ Issue(p) \/ Revoke(p)
             \/ Remove(p) \/ Abandon(p)
      PROVE  HandlersCarry'
  <2>1. CASE Ask(p) \/ Decide(p) \/ Grant(p) \/ Abandon(p)
    BY <1>3, <2>1, QuietSteps
  <2>2. CASE Issue(p) \/ Revoke(p)
    BY <2>2, IssueCarries, RevokeCarries
  <2>3. CASE Remove(p)
    <3>1. CASE \E b \in Host : RevokeAgentIdentityHost(p, b)
      BY <3>1, RevokeHostCarries
    <3>2. CASE \/ \E status \in {"inactive", "deleted"} : RemoveAgent(p, status)
               \/ \E r \in Resource : \/ RevokeResourceConnection(p, r) \/ Reconnect(p, r)
                                      \/ WithdrawScopes(p, r)
      BY <1>3, <3>2, QuietSteps
    <3> QED BY <2>3, <3>1, <3>2 DEF Remove
  <2> QED BY <1>4, <2>1, <2>2, <2>3
<1>5. ASSUME NEW p \in Handler, Continue(p)
      PROVE  HandlersCarry'
  <2>1. CASE \/ InsertAccessRequest(p) \/ DecideAgain(p) \/ CommitDenial(p)
             \/ CommitApproval(p) \/ FindEquivalent(p) \/ WritePermission(p)
             \/ RereadEquivalent(p) \/ IssueTokenLease(p) \/ PostProvider(p)
             \/ ListPermissions(p) \/ EndEntitlement(p) \/ EndConnection(p)
             \/ RefuseApproval(p) \/ RefuseGrant(p) \/ EndWithdrawn(p)
    BY <1>3, <2>1, QuietSteps
  <2>2. CASE \/ ListHostLeases(p) \/ NextPermission(p)
             \/ PostRevocation(p) \/ PersistRevocation(p)
    BY <2>2, ListHostLeasesCarries, NextPermissionCarries, PostRevocationCarries,
       PersistRevocationCarries
  <2> QED BY <1>5, <2>1, <2>2 DEF Continue
<1>6. UNCHANGED vars => UNCHANGED proc
  BY DEF vars
<1> QED BY <1>1, <1>2, <1>4, <1>5, <1>6 DEF Next

-----------------------------------------------------------------------------
(* The records *)

LEMMA NextNoneIsEmpty ==
  ASSUME Inductive, Records, [Next]_vars
  PROVE  NoneIsEmpty'
<1>1. ASSUME NEW l \in Lease, lease'[l].state = "none"
      PROVE  lease'[l] = lease[l]
  BY <1>1, NextLease DEF Records, Endures, Issued
<1> QED BY <1>1 DEF Records, NoneIsEmpty

LEMMA NextAudit ==
  ASSUME Inductive, AuditTellsDecision, [Next]_vars
  PROVE  AuditTellsDecision'
<1> DEFINE Told(row) ==
      CASE row.state \in {"none", "pending"} -> row.allowed = 0 /\ row.denied = 0
        [] row.state = "denied" -> row.allowed = 0 /\ row.denied <= 1
        [] row.state = "revoked" ->
             row.denied = 0 \/ (row.denied = 1 /\ row.allowed = 0)
        [] OTHER -> row.denied = 0
<1>1. ASSUME NEW q \in Request
      PROVE  Told(request'[q])
  <2>1. Told(request[q]) /\ Advances(request[q], request'[q])
    BY NextRequest DEF AuditTellsDecision
  <2>2. request[q].denied \in Nat
    BY DEF Inductive, TypeOK, AccessRequest
  <2>3. CASE request'[q] = request[q]
    BY <2>1, <2>3
  <2>4. CASE request'[q].state = "denied" /\ request[q].state = "pending"
    BY <2>1, <2>2, <2>4 DEF Advances
  <2>5. CASE request'[q].state \in {"approved", "consumed"}
             /\ request[q].state \in {"pending", "approved"}
    BY <2>1, <2>2, <2>5 DEF Advances
  <2>6. CASE request[q].state = "none"
    BY <2>1, <2>6 DEF Advances
  <2>7. CASE request'[q].state = request[q].state
             /\ request'[q].allowed = request[q].allowed
             /\ request'[q].denied = request[q].denied
    BY <2>1, <2>7
  <2>8. CASE request[q].state # "none" /\ request'[q].state = "revoked"
             /\ request'[q].allowed = request[q].allowed
             /\ request'[q].denied = request[q].denied
    BY <2>1, <2>2, <2>8
  <2> QED BY <2>1, <2>3, <2>4, <2>5, <2>6, <2>7, <2>8 DEF Advances
<1> QED BY <1>1 DEF AuditTellsDecision

\* A lease becomes revoked when its resource is deleted or the account erased, or
\* by a handler that has listed it and is done with it.
LEMMA NextRevoked ==
  ASSUME Inductive, [Next]_vars, NEW l \in Lease,
         lease[l].state # "revoked", lease'[l].state = "revoked"
  PROVE  \/ EraseAccount
         \/ \E r \in Resource : DeleteResource(r) /\ l \in LeasesOfResource(r)
         \/ \E p \in Handler : proc[p].pc \in {"persist", "end"} /\ l \in proc[p].listed
<1>1. lease \in [Lease -> TokenLease]
  BY DEF Inductive, TypeOK
<1>2. ASSUME NEW L, MarkRevoked(L)
      PROVE  l \in L
  BY <1>2 DEF MarkRevoked
<1>3. ASSUME NEW p \in Handler, PostRevocation(p)
      PROVE  FALSE
  <2>1. lease' = lease \/ \E m : lease' = [lease EXCEPT ![m].posted = TRUE]
    BY <1>3 DEF PostRevocation
  <2>2. lease'[l] = lease[l] \/ lease'[l] = [lease[l] EXCEPT !.posted = TRUE]
    BY <1>1, <2>1
  <2>3. lease'[l].state = lease[l].state
    BY <1>1, <2>2 DEF TokenLease
  <2> QED BY <2>3
<1>4. ASSUME NEW p \in Handler, IssueTokenLease(p)
      PROVE  FALSE
  <2> DEFINE w == proc[p]
             New(e) == [state |-> "live", req |-> w.req, host |-> w.host, exp |-> e,
                        perms |-> {IdOf(w.res, s, w.seen[s]) : s \in Found(w)},
                        posted |-> FALSE]
  <2>1. lease' = lease \/ \E m, e : lease' = [lease EXCEPT ![m] = New(e)]
    BY <1>4, ZenonT(60) DEF IssueTokenLease, access
  <2>2. \A e : New(e).state = "live"
    OBVIOUS
  <2> HIDE DEF New
  <2> QED BY <1>1, <2>1, <2>2
<1>5. ASSUME NEW p \in Handler,
             \/ InsertAccessRequest(p) \/ CommitDenial(p) \/ CommitApproval(p)
             \/ WritePermission(p) \/ EndWithdrawn(p)
      PROVE  FALSE
  BY <1>5 DEF InsertAccessRequest, CommitDenial, CommitApproval, WritePermission,
              EndWithdrawn
<1>6. ~UNCHANGED access
  BY DEF access
<1>7. ASSUME NEW r \in Resource, DeleteResource(r)
      PROVE  l \in LeasesOfResource(r)
  <2>1. MarkRevoked(LeasesOfResource(r))
    BY <1>7 DEF DeleteResource
  <2> QED BY <1>2, <2>1
<1>8. ASSUME NEW p \in Handler, PersistRevocation(p) \/ EndEntitlement(p)
      PROVE  proc[p].pc \in {"persist", "end"} /\ l \in proc[p].listed
  <2>1. proc[p].pc \in {"persist", "end"} /\ MarkRevoked(proc[p].listed)
    BY <1>8 DEF PersistRevocation, EndEntitlement
  <2> QED BY <1>2, <2>1
<1>9. \A r \in Resource : ~ResetConnector(r)
  BY DEF ResetConnector
<1> QED BY <1>3, <1>4, <1>5, <1>6, <1>7, <1>8, <1>9, StepKinds DEF Writes

LEMMA NextRevokedAtTarget ==
  ASSUME Inductive, Records, [Next]_vars
  PROVE  RevokedAtTarget'
<1>1. ASSUME NEW l \in Lease, lease'[l].state = "revoked"
      PROVE  Reached(l, request', resource', agent', lease')
  <2>1. lease[l].state # "none" /\ lease'[l].req = lease[l].req
        /\ (lease[l].posted => lease'[l].posted)
    BY <1>1, NextLease DEF Records, Endures, Issued, NoneIsEmpty
  <2>2. lease[l].req \in Request /\ request[lease[l].req].state # "none"
    BY <2>1, LeaseAnswersRequest
  <2> DEFINE r == request[lease[l].req].res
  <2>3. r \in Resource
    BY <2>2 DEF Inductive, RequestsOK
  <2>4. request'[lease'[l].req].res = r
    BY <2>1, <2>2, NextRequest DEF Advances
  <2>5. resource[r] = "deleted" => resource'[r] = "deleted"
    BY <2>3, NextTarget
  <2>6. Reached(l, request, resource, agent, lease) => Reached(l, request', resource', agent', lease')
    BY <2>1, <2>4, <2>5, NextOwner DEF Reached
  <2>7. CASE lease[l].state = "revoked"
    BY <2>6, <2>7 DEF Records, RevokedAtTarget, Reached
  <2>8. CASE lease[l].state # "revoked"
    <3>1. ASSUME NEW x \in Resource, DeleteResource(x), l \in LeasesOfResource(x)
          PROVE  Reached(l, request', resource', agent', lease')
      <4>1. x = r
        BY <3>1 DEF LeasesOfResource
      <4>2. resource'[r] = "deleted"
        BY <3>1, <4>1 DEF DeleteResource, Inductive, TypeOK
      <4> QED BY <2>4, <4>2 DEF Reached
    <3>2. ASSUME NEW p \in Handler, proc[p].pc \in {"persist", "end"}, l \in proc[p].listed
          PROVE  Reached(l, request', resource', agent', lease')
      BY <2>6, <3>2 DEF Records, HandlersCarry, Carries
    <3>3. EraseAccount => agent' = "erased"
      BY DEF EraseAccount
    <3> QED BY <1>1, <2>8, <3>1, <3>2, <3>3, NextRevoked DEF Reached
  <2> QED BY <2>7, <2>8
<1> QED BY <1>1 DEF RevokedAtTarget, Reached

\* A row ends as consumed only in the batch of an issue that puts it in a lease.
LEMMA NextConsumed ==
  ASSUME Inductive, [Next]_vars, NEW r \in Resource, NEW s \in Scope,
         ent'[r][s].state = "consumed"
  PROVE  \/ ent[r][s].state = "consumed" /\ ent'[r][s].gen = ent[r][s].gen
         \/ \E l \in Lease : IdOf(r, s, ent'[r][s]) \in lease'[l].perms
<1> DEFINE Kept == ent[r][s].state = "consumed" /\ ent'[r][s].gen = ent[r][s].gen
           Used == \E l \in Lease : IdOf(r, s, ent'[r][s]) \in lease'[l].perms
<1>1. ent \in [Resource -> [Scope -> Entitlement]] /\ ent[r][s] \in Entitlement
  BY DEF Inductive, TypeOK
<1>0. \A m, e, q :
         /\ OpenRow(ent[r][s], m, e, q).state = "open"
         /\ Strengthened(ent[r][s], m, e).state = ent[r][s].state
         /\ Strengthened(ent[r][s], m, e).gen = ent[r][s].gen
         /\ [ent[r][s] EXCEPT !.state = "revoked"].state = "revoked"
  BY <1>1 DEF OpenRow, Strengthened, Entitlement
<1>2. CASE ent'[r][s] = ent[r][s]
  BY <1>2
<1>3. ASSUME NEW x \in Resource, DeleteResource(x)
      PROVE  Kept
  <2>1. ent'[r][s] \in {ent[r][s], [ent[r][s] EXCEPT !.state = "revoked"]}
    BY <1>1, <1>3 DEF DeleteResource, Ended
  <2> QED BY <1>0, <2>1
<1>10. CASE EraseAccount
  <2>1. ent'[r][s] \in {ent[r][s], [ent[r][s] EXCEPT !.state = "revoked"]}
    BY <1>10 DEF EraseAccount, Ended
  <2> QED BY <1>0, <2>1
<1>11. ASSUME NEW x \in Resource, ResetConnector(x)
       PROVE  Kept
  <2>1. ent'[r][s] \in {ent[r][s], [ent[r][s] EXCEPT !.state = "detached"]}
    BY <1>1, <1>11 DEF ResetConnector
  <2>2. [ent[r][s] EXCEPT !.state = "detached"].state = "detached"
    BY <1>1 DEF Entitlement
  <2> QED BY <2>1, <2>2
<1>12. ASSUME NEW p \in Handler, EndWithdrawn(p)
       PROVE  Kept
  <2>1. ent'[r][s] \in {ent[r][s], [ent[r][s] EXCEPT !.state = "revoked"]}
    BY <1>1, <1>12 DEF EndWithdrawn
  <2> QED BY <1>0, <2>1
<1>4. ASSUME NEW p \in Handler, CommitApproval(p)
      PROVE  Kept
  <2> DEFINE w == proc[p]
             x == request[w.req].res
             rows == [t \in Scope |->
                        CASE t \in Insertable(w) -> OpenRow(ent[x][t], w.mode, w.exp, w.req)
                          [] t \in Extendable(w) -> Strengthened(ent[x][t], w.mode, w.exp)
                          [] OTHER -> ent[x][t]]
  <2>1. ent' = [ent EXCEPT ![x] = rows]
    BY <1>4 DEF CommitApproval
  <2>2. x = r => \/ rows[s] = OpenRow(ent[r][s], w.mode, w.exp, w.req)
                 \/ rows[s] = Strengthened(ent[r][s], w.mode, w.exp)
                 \/ rows[s] = ent[r][s]
    OBVIOUS
  <2> HIDE DEF rows
  <2>3. \/ ent'[r][s] = OpenRow(ent[r][s], w.mode, w.exp, w.req)
        \/ ent'[r][s] = Strengthened(ent[r][s], w.mode, w.exp)
        \/ ent'[r][s] = ent[r][s]
    BY <1>1, <2>1, <2>2
  <2> QED BY <1>0, <2>3
<1>5. ASSUME NEW p \in Handler, WritePermission(p)
      PROVE  Kept
  <2> DEFINE w == proc[p]
             x == w.current.scope
             row == ent[w.res][x]
  <2>1. \/ ent' = ent
        \/ ent' = [ent EXCEPT ![w.res][x] = OpenRow(row, w.mode, w.exp, None)]
        \/ ent' = [ent EXCEPT ![w.res][x] = Strengthened(row, w.mode, w.exp)]
    BY <1>5 DEF WritePermission
  <2>2. \/ ent'[r][s] = OpenRow(ent[r][s], w.mode, w.exp, None)
        \/ ent'[r][s] = Strengthened(ent[r][s], w.mode, w.exp)
        \/ ent'[r][s] = ent[r][s]
    BY <1>1, <2>1
  <2> QED BY <1>0, <2>2
<1>6. ASSUME NEW p \in Handler, EndEntitlement(p)
      PROVE  Kept
  <2> DEFINE k == proc[p].current
             ended == [ent[k.res][k.scope] EXCEPT !.state = "revoked"]
  <2>1. ent' = ent \/ ent' = [ent EXCEPT ![k.res][k.scope] = ended]
    BY <1>6 DEF EndEntitlement
  <2>2. k.res = r /\ k.scope = s => ended.state = "revoked"
    BY <1>0
  <2> HIDE DEF ended
  <2>3. ent'[r][s] = ent[r][s] \/ (k.res = r /\ k.scope = s /\ ent'[r][s] = ended)
    BY <1>1, <2>1
  <2> QED BY <2>2, <2>3
<1>7. ASSUME NEW p \in Handler, IssueTokenLease(p)
      PROVE  Kept \/ Used
  <2> DEFINE w == proc[p]
             x == w.res
             spent == {t \in Found(w) : w.seen[t].mode = "once"}
             rows == [t \in Scope |->
                        IF t \in spent THEN [ent[x][t] EXCEPT !.state = "consumed"]
                        ELSE ent[x][t]]
             perms == {IdOf(x, t, w.seen[t]) : t \in Found(w)}
  <2>1. CASE UNCHANGED access
    BY <1>2, <2>1 DEF access
  <2>2. ASSUME NEW u, MayInsertLease(w, u), ent' = [ent EXCEPT ![x] = rows],
               NEW l \in Lease, lease'[l].perms = perms
        PROVE  Kept \/ Used
    <3>1. CASE x = r /\ s \in spent
      <4>1. ent'[r][s] = [ent[r][s] EXCEPT !.state = "consumed"] /\ s \in Found(w)
        BY <1>1, <2>2, <3>1
      <4>2. ent'[r][s].gen = ent[r][s].gen
        BY <1>1, <4>1 DEF Entitlement
      <4>3. ent[r][s].gen = w.seen[s].gen
        BY <2>2, <3>1, <4>1 DEF MayInsertLease, StillOpen, IdOf
      <4>4. IdOf(r, s, ent'[r][s]) = IdOf(x, s, w.seen[s])
        BY <3>1, <4>2, <4>3 DEF IdOf
      <4> QED BY <2>2, <4>1, <4>4
    <3>2. CASE ~(x = r /\ s \in spent)
      BY <1>1, <1>2, <2>2, <3>2
    <3> QED BY <3>1, <3>2
  <2> DEFINE New(e) == [state |-> "live", req |-> w.req, host |-> w.host, exp |-> e,
                        perms |-> perms, posted |-> FALSE]
  <2>3. \/ UNCHANGED access
        \/ \E u, e \in Instant, l \in Lease :
             /\ MayInsertLease(w, u) /\ ent' = [ent EXCEPT ![x] = rows]
             /\ lease' = [lease EXCEPT ![l] = New(e)]
    BY <1>7 DEF IssueTokenLease
  <2>4. \A e : New(e).perms = perms
    OBVIOUS
  <2> HIDE DEF New, perms, rows
  <2>5. \/ UNCHANGED access
        \/ \E u \in Instant, l \in Lease :
             /\ MayInsertLease(w, u) /\ ent' = [ent EXCEPT ![x] = rows]
             /\ lease'[l].perms = perms
    BY <2>3, <2>4 DEF Inductive, TypeOK
  <2> QED BY <2>1, <2>2, <2>5
<1>8. ASSUME NEW p \in Handler,
             \/ InsertAccessRequest(p) \/ CommitDenial(p)
             \/ PostRevocation(p) \/ PersistRevocation(p)
      PROVE  ent' = ent
  BY <1>8 DEF InsertAccessRequest, CommitDenial, PostRevocation, PersistRevocation
<1>9. UNCHANGED access => ent' = ent
  BY DEF access
<1> QED BY <1>2, <1>3, <1>4, <1>5, <1>6, <1>7, <1>8, <1>9, <1>10, <1>11, <1>12, StepKinds
     DEF Writes

LEMMA NextConsumedWasUsed ==
  ASSUME Inductive, Records, [Next]_vars
  PROVE  ConsumedWasUsed'
<1>1. ASSUME NEW r \in Resource, NEW s \in Scope, ent'[r][s].state = "consumed"
      PROVE  \E l \in Lease : IdOf(r, s, ent'[r][s]) \in lease'[l].perms
  <2>1. CASE ent[r][s].state = "consumed" /\ ent'[r][s].gen = ent[r][s].gen
    <3>1. PICK l \in Lease : IdOf(r, s, ent[r][s]) \in lease[l].perms
      BY <2>1 DEF Records, ConsumedWasUsed
    <3>2. lease[l].state # "none"
      BY <3>1 DEF Records, NoneIsEmpty
    <3>3. lease'[l].perms = lease[l].perms
      BY <3>2, NextLease DEF Records, Endures
    <3> QED BY <2>1, <3>1, <3>3 DEF IdOf
  <2> QED BY <1>1, <2>1, NextConsumed
<1> QED BY <1>1 DEF ConsumedWasUsed

LEMMA InitRecords == Init => Records
<1> SUFFICES ASSUME Init PROVE Records
  OBVIOUS
<1>1. HandlersCarry
  BY IdleQuiet, QuietCarries DEF Init, HandlersCarry
<1>2. NoneIsEmpty /\ RevokedAtTarget
  BY DEF Init, NoneIsEmpty, RevokedAtTarget, NoLease
<1>3. AuditTellsDecision
  BY DEF Init, AuditTellsDecision, NoAccessRequest
<1>4. ConsumedWasUsed
  BY DEF Init, ConsumedWasUsed, NoEntitlement
<1> QED BY <1>1, <1>2, <1>3, <1>4 DEF Records

LEMMA NextRecords == Inductive /\ Records /\ [Next]_vars => Records'
<1> SUFFICES ASSUME Inductive, Records, [Next]_vars PROVE Records'
  OBVIOUS
<1>1. HandlersCarry /\ AuditTellsDecision
  BY DEF Records
<1> QED BY <1>1, NextHandlersCarry, NextNoneIsEmpty, NextAudit, NextRevokedAtTarget,
     NextConsumedWasUsed DEF Records

\* In every reachable state the requests, permissions, leases and handlers bear
\* each other out.
THEOREM RecordsInvariant == Spec => []Records
BY InductiveInvariant, InitRecords, NextRecords, PTL DEF Spec

\* A permission that ended as consumed is named by a lease, whatever was
\* approved, granted or revoked while the token was obtained
\* (issueTokenLeaseWithAudit).
THEOREM ConsumedWasUsedHolds == Spec => []ConsumedWasUsed
<1>1. Records => ConsumedWasUsed
  BY DEF Records
<1> QED BY <1>1, RecordsInvariant, PTL

\* The audit rows and the status of a request never contradict each other
\* (decideAccessRequestWithAudit, approveAccessRequestWithEntitlements).
THEOREM AuditTellsDecisionHolds == Spec => []AuditTellsDecision
<1>1. Records => AuditTellsDecision
  BY DEF Records
<1> QED BY <1>1, RecordsInvariant, PTL

\* While its target is registered and its account not erased, no handler records
\* the lease of an external token as revoked before the target's revocation
\* endpoint has been called for it (revokeTokenLeaseAtTarget before
\* revokeTokenLease and endEntitlementWithAudit).  The erasure is what leaves
\* that call to the cleanup.
THEOREM RevokedAtTargetHolds == Spec => []RevokedAtTarget
<1>1. Records => RevokedAtTarget
  BY DEF Records
<1> QED BY <1>1, RecordsInvariant, PTL

-----------------------------------------------------------------------------
(* Approvals and leases rest on open permissions *)

\* Only an approval takes a request from pending to approved, and then leaves an
\* open row for each of its scopes.
LEMMA NextBacked ==
  ASSUME Inductive, [Next]_vars, NEW q \in Request,
         request[q].state = "pending", request'[q].state = "approved",
         NEW s \in request[q].scopes
  PROVE  ent'[request[q].res][s].state = "open"
<1>1. /\ request \in [Request -> AccessRequest]
      /\ ent \in [Resource -> [Scope -> Entitlement]]
  BY DEF Inductive, TypeOK
<1>2. request[q].res \in Resource /\ s \in Scope
  BY <1>1 DEF Inductive, RequestsOK, AccessRequest
<1>3. ASSUME NEW r \in Resource, DeleteResource(r)
      PROVE  FALSE
  <2>1. request'[q].state \in {"pending", "denied"}
    BY <1>1, <1>3 DEF DeleteResource, AccessRequest
  <2> QED BY <2>1
<1>10. ASSUME NEW r \in Resource, ResetConnector(r)
       PROVE  FALSE
  <2>1. request'[q] = request[q] \/ request'[q] = [request[q] EXCEPT !.linked = FALSE]
    BY <1>10 DEF ResetConnector
  <2> QED BY <1>1, <2>1 DEF AccessRequest
<1>11. CASE EraseAccount
  <2>1. request'[q] = [request[q] EXCEPT !.state = "revoked"]
    BY <1>11 DEF EraseAccount
  <2> QED BY <1>1, <2>1 DEF AccessRequest
<1>4. ASSUME NEW p \in Handler, InsertAccessRequest(p)
      PROVE  FALSE
  <2>1. request' = request
        \/ \E new : request' = [request EXCEPT ![proc[p].req] = new]
                    /\ request[proc[p].req].state = "none"
    BY <1>4 DEF InsertAccessRequest
  <2> QED BY <1>1, <2>1
<1>5. ASSUME NEW p \in Handler, CommitDenial(p)
      PROVE  FALSE
  <2> DEFINE x == proc[p].req
  <2>1. request' = request
        \/ request' = [request EXCEPT ![x].state = "denied", ![x].denied = @ + 1]
    BY <1>5 DEF CommitDenial
  <2>2. request'[q] = request[q]
        \/ request'[q] = [request[q] EXCEPT !.state = "denied", !.denied = @ + 1]
    BY <1>1, <2>1
  <2> QED BY <1>1, <2>2 DEF AccessRequest
<1>6. ASSUME NEW p \in Handler, IssueTokenLease(p)
      PROVE  FALSE
  <2>1. \/ request' = request
        \/ request' = [request EXCEPT
             ![proc[p].req].state = IF @ = "approved" THEN "consumed" ELSE @]
    BY <1>6 DEF IssueTokenLease, access
  <2>2. \/ request'[q] = request[q]
        \/ request'[q] = [request[q] EXCEPT
                            !.state = IF @ = "approved" THEN "consumed" ELSE @]
    BY <1>1, <2>1
  <2>3. request'[q].state = "pending"
    BY <1>1, <2>2 DEF AccessRequest
  <2> QED BY <2>3
<1>7. ASSUME NEW p \in Handler, CommitApproval(p)
      PROVE  ent'[request[q].res][s].state = "open"
  <2> DEFINE w == proc[p]
             x == w.req
             r == request[x].res
             decided == Decidable(w)
             linked == request[x].linked \/ (decided /\ r \in External)
             told == decided \/ request[x].state = "approved"
             Row(t) == CASE t \in Insertable(w) -> OpenRow(ent[r][t], w.mode, w.exp, x)
                         [] t \in Extendable(w) -> Strengthened(ent[r][t], w.mode, w.exp)
                         [] OTHER -> ent[r][t]
  <2>1. /\ request' = [request EXCEPT
             ![x].state = IF decided THEN "approved" ELSE @,
             ![x].linked = linked,
             ![x].allowed = IF told THEN @ + 1 ELSE @]
        /\ ent' = [ent EXCEPT ![r] = [t \in Scope |-> Row(t)]]
    BY <1>7 DEF CommitApproval
  <2>2. q = x
    <3> HIDE DEF linked, told, decided, Row
    <3> QED BY <1>1, <2>1
  <2>3. decided
    <3>1. ASSUME ~decided
          PROVE  request'[q].state = request[q].state
      <4> HIDE DEF linked, told, decided, Row
      <4>1. request'[q] = [request[q] EXCEPT
              !.state = IF decided THEN "approved" ELSE @,
              !.linked = linked,
              !.allowed = IF told THEN @ + 1 ELSE @]
        BY <1>1, <2>1, <2>2
      <4> QED BY <1>1, <3>1, <4>1 DEF AccessRequest
    <3> QED BY <3>1
  <2>4. s \in Insertable(w) \/ ent[r][s].state = "open"
    BY <2>2, <2>3 DEF Decidable, StillOpen, IdOf
  <2>5. ent[r][s] \in Entitlement
    BY <1>1, <1>2, <2>2
  <2>6. Row(s).state = "open"
    <3>1. OpenRow(ent[r][s], w.mode, w.exp, x).state = "open"
      BY DEF OpenRow
    <3>2. Strengthened(ent[r][s], w.mode, w.exp).state = ent[r][s].state
      BY <2>5 DEF Strengthened, Entitlement
    <3>3. s \in Insertable(w) => s \notin Extendable(w)
      BY DEF Extendable, Insertable, Attempted
    <3>4. CASE s \in Insertable(w) /\ s \notin Extendable(w)
      <4>1. Row(s) = OpenRow(ent[r][s], w.mode, w.exp, x)
        BY <3>4
      <4> HIDE DEF Row
      <4> QED BY <3>1, <4>1
    <3>5. CASE ent[r][s].state = "open"
      <4>1. \/ Row(s) = OpenRow(ent[r][s], w.mode, w.exp, x)
            \/ Row(s) = Strengthened(ent[r][s], w.mode, w.exp)
            \/ Row(s) = ent[r][s]
        OBVIOUS
      <4> HIDE DEF Row
      <4> QED BY <3>1, <3>2, <3>5, <4>1
    <3> QED BY <2>4, <3>3, <3>4, <3>5
  <2> HIDE DEF Row
  <2>7. ent'[r][s] = Row(s)
    BY <1>1, <1>2, <2>1, <2>2
  <2> QED BY <2>2, <2>6, <2>7
<1>8. ASSUME NEW p \in Handler,
             \/ WritePermission(p) \/ PostRevocation(p)
             \/ PersistRevocation(p) \/ EndEntitlement(p) \/ EndWithdrawn(p)
      PROVE  request' = request
  BY <1>8 DEF WritePermission, PostRevocation, PersistRevocation, EndEntitlement,
              EndWithdrawn
<1>9. UNCHANGED access => request' = request
  BY DEF access
<1> QED BY <1>3, <1>4, <1>5, <1>6, <1>7, <1>8, <1>9, <1>10, <1>11, StepKinds DEF Writes

\* No race of approvals, grants and revocations approves a request with one of
\* its scopes missing (updateAccessRequestDecision).
THEOREM ApprovalIsBackedHolds == Spec => ApprovalIsBacked
<1>1. Inductive /\ [Next]_vars =>
        [\A q \in Request :
           request[q].state = "pending" /\ request'[q].state = "approved" =>
             \A s \in request[q].scopes : ent'[request[q].res][s].state = "open"]_vars
  BY NextBacked
<1> QED BY <1>1, InductiveInvariant, PTL DEF Spec, ApprovalIsBacked

\* A new lease is written by an issue whose guard held on the rows it names.
LEMMA NextRests ==
  ASSUME Inductive, Records, [Next]_vars, NEW l \in Lease,
         lease[l].state = "none", lease'[l].state = "live"
  PROVE  /\ lease'[l].perms # {}
         /\ \A k \in lease'[l].perms :
              k.res = request[lease'[l].req].res /\ StillOpen(k) /\ Usable(k.res)
<1>1. PICK p \in Handler, t \in Instant :
        IssueTokenLease(p) /\ MayInsertLease(proc[p], t) /\ Issued(proc[p], lease'[l])
  BY NextLease DEF Records
<1> DEFINE w == proc[p]
<1>2. w.pc = "issue"
  BY <1>1 DEF IssueTokenLease
<1>3. w.res = request[w.req].res /\ Found(w) # {}
  BY <1>2 DEF Records, HandlersCarry, Carries
<1>4. lease'[l].req = w.req /\ lease'[l].perms = {IdOf(w.res, s, w.seen[s]) : s \in Found(w)}
  BY <1>1 DEF Issued
<1>5. ASSUME NEW s \in Found(w)
      PROVE  /\ IdOf(w.res, s, w.seen[s]).res = w.res
             /\ StillOpen(IdOf(w.res, s, w.seen[s]))
             /\ Usable(w.res)
  BY <1>1, <1>5 DEF MayInsertLease, IdOf
<1> QED BY <1>3, <1>4, <1>5

\* However long the target took to give the token, the lease is recorded only
\* while the target is usable and the permissions it rests on are open
\* (insertTokenLease).
THEOREM LeaseRestsOnAuthorityHolds == Spec => LeaseRestsOnAuthority
<1>1. Inductive /\ Records /\ [Next]_vars =>
        [\A l \in Lease :
           lease[l].state = "none" /\ lease'[l].state = "live" =>
             /\ lease'[l].perms # {}
             /\ \A k \in lease'[l].perms :
                  k.res = request[lease'[l].req].res /\ StillOpen(k) /\ Usable(k.res)]_vars
  BY NextRests
<1> QED BY <1>1, InductiveInvariant, RecordsInvariant, PTL DEF Spec, LeaseRestsOnAuthority
=============================================================================
