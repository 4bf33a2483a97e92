---------------------------- MODULE AgentAccess ----------------------------
(***************************************************************************)
(* How an Agent obtains, uses and loses authority over Resource Servers.   *)
(*                                                                         *)
(* An Agent asks for scopes (an access request), a controller approves or  *)
(* denies it, an approval opens one permission (resource scope             *)
(* entitlement) per scope, and a token request turns all the permissions   *)
(* that are live in the context into one token lease.  Controllers also    *)
(* grant permissions directly, revoke them, disconnect external accounts,  *)
(* revoke hosts, recover or delete the Agent and erase their account.      *)
(*                                                                         *)
(* A Worker invocation reads the database, awaits, and writes one batch.   *)
(* The batch is atomic but re-checks only what its WHERE clauses name, and *)
(* a statement of the batch that matches no row does not undo the others.  *)
(* Every handler is therefore a process of several steps; what it read is  *)
(* kept in proc[p] and may be stale when it writes.                        *)
(*                                                                         *)
(* The module follows ONE Agent identity, with one authorization context   *)
(* per resource: the queries, indexes and guards of the code are all by    *)
(* Agent and by context, and the controller owns at most one account       *)
(* connection per external resource.                                       *)
(***************************************************************************)
EXTENDS Integers, FiniteSets

CONSTANTS
  Resource,    \* Resource Servers
  External,    \* those with an authorization server of their own
  Scope,       \* scopes a resource may define
  Automatic,   \* scopes a native resource grants without asking a controller
  Host,        \* host bindings of the Agent
  Request,     \* identifiers of access requests (a bound on their number)
  Lease,       \* identifiers of token leases (a bound on their number)
  Handler,     \* invocations that run at the same time
  None,        \* SQL null
  MaxTime,     \* bound on the clock
  MaxRows,     \* bound on the rows there have been when a handler starts
  RequestTTL,  \* life of a pending request
  LeaseTTL     \* longest life of a token

ASSUME ExternalAssumption == External \subseteq Resource
ASSUME AutomaticAssumption == Automatic \subseteq Scope
ASSUME NoneAssumption == None \notin Request \cup Resource \cup Host
ASSUME TimeAssumption ==
  MaxTime \in Nat /\ MaxRows \in Nat /\ RequestTTL \in Nat \ {0} /\ LeaseTTL \in Nat \ {0}

VARIABLES
  now,         \* the clock
  resource,    \* api_resource: "enabled", "disabled" or "deleted"
  connection,  \* provider_resource_authorization: "none", "active", "revoked"
  agent,       \* agent_identity: "active", "inactive", "deleted", or "erased"
               \* with the account of its owner
  host,        \* agent_identity_binding: "none", "active" or "revoked"
  request,     \* agent_access_request, with the audit rows of its decisions
  ent,         \* resource_scope_entitlement: the latest row of each scope
  lease,       \* external_token_lease
  proc         \* the handlers in flight and what they have read

access == <<request, ent, lease>>
setting == <<now, resource, connection, agent, host>>
vars == <<now, resource, connection, agent, host, request, ent, lease, proc>>

-----------------------------------------------------------------------------
(* Rows and snapshots *)

Never == MaxTime + 1        \* a null expires_at: after the last instant
Instant == 0 .. Never
Earlier(t, u) == IF t <= u THEN t ELSE u

Mode == {"once", "until", "persistent"}

\* A permission is named by the row that holds it: the partial unique index
\* allows one open row per scope, so rows of a scope are numbered.
PermissionId == [res: Resource, scope: Scope, gen: Nat]

\* linked: the request names an account connection.
AccessRequest ==
  [state: {"none", "pending", "denied", "approved", "consumed", "revoked"},
   res: Resource \cup {None}, linked: BOOLEAN, scopes: SUBSET Scope,
   exp: Instant, allowed: Nat, denied: Nat]

NoAccessRequest ==
  [state |-> "none", res |-> None, linked |-> FALSE, scopes |-> {}, exp |-> 0,
   allowed |-> 0, denied |-> 0]

\* A detached permission has not ended, but has lost its account connection, and
\* with it the context in which it can be found and used.
Entitlement ==
  [gen: Nat, state: {"none", "open", "detached", "revoked", "consumed"},
   mode: Mode, exp: Instant, src: Request \cup {None}]

NoEntitlement ==
  [gen |-> 0, state |-> "none", mode |-> "once", exp |-> Never, src |-> None]

TokenLease ==
  [state: {"none", "live", "revoked"}, perms: SUBSET PermissionId,
   req: Request \cup {None}, host: Host \cup {None}, exp: Instant,
   posted: BOOLEAN]

NoLease ==
  [state |-> "none", perms |-> {}, req |-> None, host |-> None,
   exp |-> 0, posted |-> FALSE]

\* What a handler in flight remembers; a field it does not use is as in Idle.
Work ==
  [pc: {"idle", "insertPending", "insertApproved", "deny", "approve",
        "decide", "grant", "grantWrite", "grantReread", "issue",
        "listAgent", "listHost", "postProvider", "listConnection",
        "next", "post", "persist", "end", "endConnection", "withdraw"},
   op: {"none", "permission", "agent", "host", "connection", "narrow"},
   req: Request \cup {None}, res: Resource \cup {None},
   linked: BOOLEAN, scopes: SUBSET Scope, host: Host \cup {None},
   mode: Mode, exp: Instant, at: Instant, retry: BOOLEAN,
   seen: [Scope -> Entitlement],
   queue: SUBSET PermissionId, current: PermissionId \cup {None},
   todo: SUBSET Lease, listed: SUBSET Lease]

Idle ==
  [pc |-> "idle", op |-> "none", req |-> None, res |-> None,
   linked |-> FALSE, scopes |-> {}, host |-> None, mode |-> "once",
   exp |-> Never, at |-> 0, retry |-> FALSE,
   seen |-> [s \in Scope |-> NoEntitlement], queue |-> {}, current |-> None,
   todo |-> {}, listed |-> {}]

TypeOK ==
  /\ now \in 0 .. MaxTime
  /\ resource \in [Resource -> {"enabled", "disabled", "deleted"}]
  /\ connection \in [Resource -> {"none", "active", "revoked"}]
  /\ agent \in {"active", "inactive", "deleted", "erased"}
  /\ host \in [Host -> {"none", "active", "revoked"}]
  /\ request \in [Request -> AccessRequest]
  /\ ent \in [Resource -> [Scope -> Entitlement]]
  /\ lease \in [Lease -> TokenLease]
  /\ proc \in [Handler -> Work]

-----------------------------------------------------------------------------
(* Queries *)

\* agent_identity.deleted_at, which the triggers of the schema look at: they
\* refuse, with the batch it is part of, any insert or update that leaves a
\* permission or a token lease of such an Agent open, or a request pending.
Deleted == agent \in {"deleted", "erased"}

NotEnded(row) == row.state \in {"open", "detached"}

\* listActiveEntitlements: in the context, not ended and not expired at t.
Live(row, t) == row.state = "open" /\ row.exp > t

LiveRows(r, t) ==
  [s \in Scope |-> IF Live(ent[r][s], t) THEN ent[r][s] ELSE NoEntitlement]

Found(w) == {s \in Scope : w.seen[s].state = "open"}

IdOf(r, s, row) == [res |-> r, scope |-> s, gen |-> row.gen]

\* The row a permission identifier names has not ended (ended_at is null) ...
Standing(k) == ent[k.res][k.scope].gen = k.gen /\ NotEnded(ent[k.res][k.scope])

\* ... and is still in its context.
StillOpen(k) ==
  ent[k.res][k.scope].gen = k.gen /\ ent[k.res][k.scope].state = "open"

LeasesOn(k, t) ==
  {l \in Lease : lease[l].state = "live" /\ lease[l].exp > t /\ k \in lease[l].perms}

LeasesOfHost(b, t) ==
  {l \in Lease : lease[l].state = "live" /\ lease[l].exp > t /\ lease[l].host = b}

LeasesOfResource(r) ==
  {l \in Lease : lease[l].state = "live" /\ request[lease[l].req].res = r}

Pending(q) == request[q].state = "pending" /\ request[q].exp > now

Connected(r) == r \in External => connection[r] = "active"
Usable(r) == resource[r] = "enabled" /\ Connected(r)

\* A request for an external resource still names its connection.
Attached(q) == request[q].res \in External => request[q].linked

\* Whoever controls the connection of a request, or else the Agent itself,
\* controls the request (requireControlledRequestTarget).
Controlled(q) == request[q].linked \/ ~Deleted

\* automaticNativeControllerUserId
AutoApproved(r, S) == r \notin External /\ S \subseteq Automatic

\* Every active binding of the Agent revoked.
RevokedHosts ==
  [b \in Host |-> IF host[b] = "active" THEN "revoked" ELSE host[b]]

\* Bounds: a handler that will use an identifier starts only if one is spare.
Spare(q) == request[q].state = "none" /\ \A p \in Handler : proc[p].req # q
SpareLease ==
  Cardinality({l \in Lease : lease[l].state = "none"})
    > Cardinality({p \in Handler : proc[p].pc = "issue"})
SpareRows ==
  Cardinality({k \in Resource \X Scope \X (1 .. MaxRows) :
                 k[3] <= ent[k[1]][k[2]].gen}) < MaxRows

Free(p) == proc[p].pc = "idle"
Goto(p, w) == proc' = [proc EXCEPT ![p] = w]
Done(p) == Goto(p, Idle)

-----------------------------------------------------------------------------
(* Access requests *)

\* createAgentAccessRequest, up to its first write.  The principal was active
\* when the call was authenticated.  Permissions that already cover the scopes
\* make the request approved at birth; a pending twin is returned as it is.
CreateAgentAccessRequest(p, b, r, S) ==
  /\ Free(p) /\ agent = "active" /\ host[b] = "active"
  /\ resource[r] = "enabled" /\ S # {}
  /\ LET covered == /\ Connected(r)
                    /\ \A s \in S : Live(ent[r][s], now)
         linked == connection[r] # "none"
         twins == {q \in Request : /\ Pending(q)
                                   /\ request[q].res = r
                                   /\ request[q].linked = linked
                                   /\ request[q].scopes = S}
     IN \/ /\ covered \/ twins = {}
           /\ \E q \in Request :
                /\ Spare(q)
                /\ Goto(p, [Idle EXCEPT
                     !.pc = IF covered THEN "insertApproved" ELSE "insertPending",
                     !.req = q, !.res = r, !.linked = linked, !.scopes = S, !.at = now])
        \/ /\ ~covered /\ AutoApproved(r, S)
           /\ \E q \in twins :
                Goto(p, [Idle EXCEPT !.pc = "decide", !.req = q,
                                     !.mode = "persistent", !.retry = TRUE])
  /\ UNCHANGED <<setting, access>>

\* createAccessRequestWithAudit inserts where the resource is active, a pending
\* request only for an Agent that is not deleted; a request for automatic scopes
\* goes straight on to its decision.
InsertAccessRequest(p) ==
  LET w == proc[p]
      approved == w.pc = "insertApproved"
      inserted == resource[w.res] = "enabled" /\ (approved \/ ~Deleted)
  IN /\ w.pc \in {"insertPending", "insertApproved"}
     /\ \/ /\ inserted
           /\ request[w.req].state = "none"      \* the identifier is fresh
           /\ request' = [request EXCEPT ![w.req] =
                [NoAccessRequest EXCEPT
                   !.state = IF approved THEN "approved" ELSE "pending",
                   !.res = w.res, !.linked = w.linked, !.scopes = w.scopes,
                   !.exp = Earlier(w.at + RequestTTL, Never)]]
           /\ IF ~approved /\ AutoApproved(w.res, w.scopes)
              THEN Goto(p, [Idle EXCEPT !.pc = "decide", !.req = w.req,
                                        !.mode = "persistent", !.retry = TRUE])
              ELSE Done(p)
        \/ /\ ~inserted
           /\ Done(p)
           /\ UNCHANGED request
     /\ UNCHANGED <<setting, ent, lease>>

-----------------------------------------------------------------------------
(* The controller's decision *)

\* What decideAgentAccessRequest checks before it approves.
MayApprove(q, mode, exp) ==
  /\ Pending(q)
  /\ Usable(request[q].res)
  /\ agent = "active"
  /\ mode = "until" => exp > now

ReadApproval(q, mode, exp, retry) ==
  [Idle EXCEPT !.pc = "approve", !.req = q, !.mode = mode, !.exp = exp,
               !.at = now, !.retry = retry,
               !.seen = LiveRows(request[q].res, now)]

ApproveAgentAccessRequest(p, q, mode, exp) ==
  /\ Free(p)
  /\ MayApprove(q, mode, exp)
  /\ Goto(p, ReadApproval(q, mode, exp, TRUE))
  /\ UNCHANGED <<setting, access>>

\* A decision the code makes by itself: the automatic approval of a request, or
\* the one retry after entitlements changed.
DecideAgain(p) ==
  LET w == proc[p]
  IN /\ w.pc = "decide"
     /\ IF MayApprove(w.req, w.mode, w.exp)
        THEN Goto(p, ReadApproval(w.req, w.mode, w.exp, w.retry))
        ELSE Done(p)
     /\ UNCHANGED <<setting, access>>

DenyAgentAccessRequest(p, q) ==
  /\ Free(p)
  /\ Pending(q) /\ Controlled(q)
  /\ Goto(p, [Idle EXCEPT !.pc = "deny", !.req = q])
  /\ UNCHANGED <<setting, access>>

\* Mutant: the update of a denial is not confined to pending requests.
CommitDenialOverwriting(p) ==
  LET q == proc[p].req
  IN /\ proc[p].pc = "deny"
     /\ request' = [request EXCEPT ![q].state = "denied"]
     /\ Done(p)
     /\ UNCHANGED <<setting, ent, lease>>

\* Mutant: the audit row of a denial is written without looking at the request.
CommitDenialAuditing(p) ==
  LET q == proc[p].req
  IN /\ proc[p].pc = "deny"
     /\ request' = [request EXCEPT
          ![q].state = IF @ = "pending" THEN "denied" ELSE @, ![q].denied = @ + 1]
     /\ Done(p)
     /\ UNCHANGED <<setting, ent, lease>>

\* decideAccessRequestWithAudit: audit row and update, both where pending.
CommitDenial(p) ==
  LET q == proc[p].req
  IN /\ proc[p].pc = "deny"
     /\ request' = IF request[q].state # "pending" THEN request
                   ELSE [request EXCEPT ![q].state = "denied", ![q].denied = @ + 1]
     /\ Done(p)
     /\ UNCHANGED <<setting, ent, lease>>

\* Mutant: any other lifetime replaces the one the row has.
StrengthensAnything(row, mode, exp) == row.mode # mode \/ row.exp # exp

\* shouldPersist, shouldExtend and strongerLifetime: a lifetime only grows.
\* A once permission has no expires_at, so any limited lifetime replaces it.
Strengthens(row, mode, exp) ==
  /\ row.mode # "persistent"
  /\ \/ mode = "persistent"
     \/ mode = "until" /\ (row.mode = "once" \/ row.exp < exp)

Strengthened(row, mode, exp) == [row EXCEPT !.mode = mode, !.exp = exp]

OpenRow(old, mode, exp, src) ==
  [gen |-> old.gen + 1, state |-> "open", mode |-> mode, exp |-> exp, src |-> src]

\* The scopes the approval batch tries to insert a row for: the request must be
\* pending, the resource and the connection active (insertEntitlement).
Attempted(w) ==
  {s \in request[w.req].scopes \ Found(w) :
     request[w.req].state = "pending" /\ Usable(request[w.req].res)}

\* Those it manages to insert: no open row, expired or not, may hold the scope
\* (onConflictDoNothing).
Insertable(w) ==
  {s \in Attempted(w) : ent[request[w.req].res][s].state # "open"}

\* The open rows it strengthens, by identifier and where not ended.
Extendable(w) ==
  LET r == request[w.req].res
  IN {s \in request[w.req].scopes \cap Found(w) :
        /\ Strengthens(w.seen[s], w.mode, w.exp)
        /\ Standing(IdOf(r, s, w.seen[s]))}

\* Mutant: rows that were found are not looked at again.
DecidableOnRead(w) ==
  LET r == request[w.req].res
  IN /\ request[w.req].state = "pending"
     /\ resource[r] = "enabled"
     /\ \A s \in request[w.req].scopes : s \in Insertable(w) \/ s \in Found(w)

\* Mutant: the decision is written whatever the status has become.
DecidableTwice(w) ==
  LET r == request[w.req].res
  IN /\ resource[r] = "enabled"
     /\ \A s \in request[w.req].scopes :
          \/ s \in Insertable(w)
          \/ s \in Found(w) /\ StillOpen(IdOf(r, s, w.seen[s]))

\* updateAccessRequestDecision: pending, resource active, and an open row under
\* the identifier the decision names for every requested scope.
Decidable(w) ==
  LET r == request[w.req].res
  IN /\ request[w.req].state = "pending"
     /\ resource[r] = "enabled"
     /\ \A s \in request[w.req].scopes :
          \/ s \in Insertable(w)
          \/ s \in Found(w) /\ StillOpen(IdOf(r, s, w.seen[s]))

\* The one retry after entitlements_changed.
Retry(w) ==
  [Idle EXCEPT !.pc = "decide", !.req = w.req, !.mode = w.mode, !.exp = w.exp]

\* The triggers refuse the batch of an approval that writes an open permission.
ApprovalRefused(w) == Deleted /\ Attempted(w) \cup Extendable(w) # {}

RefuseApproval(p) ==
  /\ proc[p].pc = "approve" /\ ApprovalRefused(proc[p])
  /\ Done(p)
  /\ UNCHANGED <<setting, access>>

\* approveAccessRequestWithEntitlements: one batch of independent statements.
\* Its audit row is written where the request is approved by then, whoever
\* approved it.  Missing inserts are entitlements_changed: retried once.
CommitApproval(p) ==
  LET w == proc[p]
      q == w.req
      r == request[q].res
      new == request[q].scopes \ Found(w)
      decided == Decidable(w)
  IN /\ w.pc = "approve" /\ ~ApprovalRefused(w)
     /\ ent' = [ent EXCEPT ![r] = [s \in Scope |->
          CASE s \in Insertable(w) -> OpenRow(ent[r][s], w.mode, w.exp, q)
            [] s \in Extendable(w) -> Strengthened(ent[r][s], w.mode, w.exp)
            [] OTHER -> ent[r][s]]]
     /\ request' = [request EXCEPT
          ![q].state = IF decided THEN "approved" ELSE @,
          ![q].linked = @ \/ (decided /\ r \in External),
          ![q].allowed = IF decided \/ request[q].state = "approved"
                         THEN @ + 1 ELSE @]
     /\ IF Insertable(w) # new /\ w.retry
        THEN Goto(p, Retry(w)) ELSE Done(p)
     /\ UNCHANGED <<setting, lease>>

-----------------------------------------------------------------------------
(* Direct permissions *)

\* createAgentPermission, once every check has passed.
CreateAgentPermission(p, r, S, mode, exp) ==
  /\ Free(p)
  /\ S # {} /\ agent = "active" /\ Usable(r)
  /\ mode = "persistent" \/ (mode = "until" /\ exp > now)
  /\ Goto(p, [Idle EXCEPT !.pc = "grant", !.res = r, !.scopes = S,
                          !.mode = mode, !.exp = exp, !.at = now])
  /\ UNCHANGED <<setting, access>>

\* createScopeEntitlement for the next scope: find the equivalent open row.
FindEquivalent(p) ==
  LET w == proc[p]
  IN /\ w.pc = "grant"
     /\ \/ w.scopes = {} /\ Done(p)
        \/ \E s \in w.scopes :
             LET row == ent[w.res][s]
                 seen == IF row.state = "open" THEN row ELSE NoEntitlement
             IN Goto(p, [w EXCEPT !.pc = "grantWrite", !.seen[s] = seen,
                                  !.current = IdOf(w.res, s, seen)])
     /\ UNCHANGED <<setting, access>>

\* What createScopeEntitlement does with the row it found: the row has expired,
\* or its lifetime grows, which is not confined to rows that have not ended.
Expired(w, seen) == seen.state = "open" /\ seen.exp <= w.at
Extends(w, row, seen) ==
  /\ seen.state = "open" /\ ~Expired(w, seen)
  /\ Strengthens(seen, w.mode, w.exp) /\ row.gen = seen.gen

\* Mutant: the schema has no trigger on the permissions of a deleted Agent.
GrantNeverRefused(w, row, seen) == FALSE

\* The triggers refuse a write that leaves a permission open.
GrantRefused(w, row, seen) ==
  /\ Deleted
  /\ \/ seen.state = "none" \/ Expired(w, seen)
     \/ Extends(w, row, seen) /\ NotEnded(row)

RefuseGrant(p) ==
  LET w == proc[p]
      s == w.current.scope
  IN /\ w.pc = "grantWrite" /\ GrantRefused(w, ent[w.res][s], w.seen[s])
     /\ Done(p)
     /\ UNCHANGED <<setting, access>>

\* ... then insert, replace an expired row, or strengthen the row found.
WritePermission(p) ==
  LET w == proc[p]
      s == w.current.scope
      row == ent[w.res][s]
      seen == w.seen[s]
      expired == Expired(w, seen)
      opened == OpenRow(row, w.mode, w.exp, None)
      next == [w EXCEPT !.pc = "grant", !.scopes = @ \ {s}, !.current = None,
                        !.seen[s] = NoEntitlement]
      Put(new) == ent' = [ent EXCEPT ![w.res][s] = new]
  IN /\ w.pc = "grantWrite" /\ ~GrantRefused(w, row, seen)
     /\ \/ /\ seen.state = "none" /\ row.state # "open"
           /\ Put(opened) /\ Goto(p, next)
        \/ /\ seen.state = "none" /\ row.state = "open"
           /\ Goto(p, [w EXCEPT !.pc = "grantReread"]) /\ UNCHANGED ent
        \/ /\ expired /\ (row.gen = seen.gen \/ row.state # "open")
           /\ Put(opened) /\ Goto(p, next)
        \/ /\ expired /\ row.gen # seen.gen /\ row.state = "open"
           /\ Done(p) /\ UNCHANGED ent      \* the unique index fails the batch
        \/ /\ seen.state = "open" /\ ~expired
           /\ IF Extends(w, row, seen)
              THEN Put(Strengthened(row, w.mode, w.exp))
              ELSE UNCHANGED ent
           /\ Goto(p, next)
     /\ UNCHANGED <<setting, request, lease>>

\* After a lost insert the code looks the winner up; it fails if that row has
\* already ended.
RereadEquivalent(p) ==
  LET w == proc[p]
      row == ent[w.res][w.current.scope]
  IN /\ w.pc = "grantReread"
     /\ IF row.state = "open"
        THEN Goto(p, [w EXCEPT !.pc = "grantWrite", !.seen[w.current.scope] = row])
        ELSE Done(p)
     /\ UNCHANGED <<setting, access>>

-----------------------------------------------------------------------------
(* Tokens *)

\* issueTargetAccessToken reads every live permission of the request's context.
IssueTargetAccessToken(p, q, b) ==
  LET r == request[q].res
      w == [Idle EXCEPT !.pc = "issue", !.req = q, !.res = r, !.host = b,
                        !.at = now, !.seen = LiveRows(r, now)]
  IN /\ Free(p) /\ agent = "active" /\ host[b] = "active"
     /\ request[q].state \in {"approved", "consumed"}
     /\ Usable(r) /\ Attached(q)
     /\ Found(w) # {}
     /\ Goto(p, w)
     /\ UNCHANGED <<setting, access>>

\* The token may start at t and expire at e.  earliestEntitlementExpiry caps it;
\* the target of an external resource chooses any life within the cap (a longer
\* one is refused).  A native token takes its instant after the reads, an
\* external one when the call began.
Lasts(w, t, e) ==
  /\ w.at <= t /\ t <= now
  /\ \A s \in Found(w) : e <= w.seen[s].exp
  /\ IF w.res \in External
     THEN t = w.at /\ t < e /\ e <= t + LeaseTTL
     ELSE \/ e = Earlier(t + LeaseTTL, Never)
          \/ /\ e <= t + LeaseTTL
             /\ \E s \in Found(w) : e = w.seen[s].exp

\* Mutant: the permissions are not looked at again when the lease is written.
MayInsertLeaseOnRead(w, t) ==
  /\ request[w.req].state \in {"approved", "consumed"}
  /\ Usable(w.res) /\ Attached(w.req) /\ ~Deleted

\* Mutant: the target is not looked at again when the lease is written.
MayInsertLeaseAnywhere(w, t) ==
  /\ request[w.req].state \in {"approved", "consumed"}
  /\ Attached(w.req) /\ ~Deleted
  /\ \A s \in Found(w) :
       StillOpen(IdOf(w.res, s, w.seen[s])) /\ ent[w.res][s].exp > t

\* The guard of insertTokenLease, and the trigger on it.
MayInsertLease(w, t) ==
  /\ request[w.req].state \in {"approved", "consumed"}
  /\ Usable(w.res) /\ Attached(w.req) /\ ~Deleted
  /\ \A s \in Found(w) :
       StillOpen(IdOf(w.res, s, w.seen[s])) /\ ent[w.res][s].exp > t

\* issueTokenLeaseWithAudit: the lease, the request's status and the end of the
\* permissions that were read as once.
IssueTokenLease(p) ==
  LET w == proc[p]
      q == w.req
      spent == {s \in Found(w) : w.seen[s].mode = "once"}
  IN /\ w.pc = "issue"
     /\ \E t, e \in Instant :
          \/ /\ Lasts(w, t, e) /\ MayInsertLease(w, t)
             /\ \E l \in Lease :
                  /\ lease[l].state = "none"
                  /\ lease' = [lease EXCEPT ![l] =
                       [state |-> "live", req |-> q, host |-> w.host, exp |-> e,
                        perms |-> {IdOf(w.res, s, w.seen[s]) : s \in Found(w)},
                        posted |-> FALSE]]
             /\ request' = [request EXCEPT
                  ![q].state = IF @ = "approved" THEN "consumed" ELSE @]
             /\ ent' = [ent EXCEPT ![w.res] = [s \in Scope |->
                  IF s \in spent THEN [ent[w.res][s] EXCEPT !.state = "consumed"]
                  ELSE ent[w.res][s]]]
          \/ Lasts(w, t, e) /\ ~MayInsertLease(w, t) /\ UNCHANGED access
     /\ Done(p)
     /\ UNCHANGED setting

-----------------------------------------------------------------------------
(* Revocation *)

\* revokeAgentPermission needs the access request the permission came from, and
\* control over it.
Revocable(k) ==
  /\ Standing(k)
  /\ ent[k.res][k.scope].src # None
  /\ Controlled(ent[k.res][k.scope].src)

\* Mutant: the calls to the target are not awaited.
RevokeAgentPermissionUnposted(p, r, s) ==
  LET k == IdOf(r, s, ent[r][s])
  IN /\ Free(p)
     /\ Revocable(k)
     /\ Goto(p, [Idle EXCEPT !.pc = "end", !.op = "permission", !.current = k,
                             !.at = now, !.listed = LeasesOn(k, now)])
     /\ UNCHANGED <<setting, access>>

RevokeAgentPermission(p, r, s) ==
  LET k == IdOf(r, s, ent[r][s])
      leases == LeasesOn(k, now)
  IN /\ Free(p)
     /\ Revocable(k)
     /\ Goto(p, [Idle EXCEPT !.pc = "post", !.op = "permission", !.current = k,
                             !.at = now, !.todo = leases, !.listed = leases])
     /\ UNCHANGED <<setting, access>>

\* Mutant: the identity enters a state of its own on recovery.
RemoveAgentRecovering(p, status) ==
  /\ Free(p) /\ ~Deleted
  /\ agent' = IF status = "inactive" THEN "recovering" ELSE status
  /\ host' = RevokedHosts
  /\ Goto(p, [Idle EXCEPT !.pc = "listAgent", !.op = "agent"])
  /\ UNCHANGED <<now, resource, connection, access>>

\* recoverAgentIdentity and deleteAgentIdentity: the identity and its bindings
\* first, then revokeAgentResourceAccess.
RemoveAgent(p, status) ==
  /\ Free(p)
  /\ \/ status = "inactive" /\ agent = "active"
     \/ status = "deleted" /\ ~Deleted
  /\ agent' = status
  /\ host' = RevokedHosts
  /\ Goto(p, [Idle EXCEPT !.pc = "listAgent", !.op = "agent"])
  /\ UNCHANGED <<now, resource, connection, access>>

\* revokeAgentIdentityHost: revokeBinding, whose update names the identity and
\* not the host, takes every binding of the Agent; then the leases of this one.
RevokeAgentIdentityHost(p, b) ==
  /\ Free(p) /\ ~Deleted /\ host[b] = "active"
  /\ host' = RevokedHosts
  /\ Goto(p, [Idle EXCEPT !.pc = "listHost", !.op = "host", !.host = b])
  /\ UNCHANGED <<now, resource, connection, agent, access>>

ListHostLeases(p) ==
  LET w == proc[p]
  IN /\ w.pc = "listHost"
     /\ Goto(p, [w EXCEPT !.pc = "post", !.at = now,
                          !.todo = LeasesOfHost(w.host, now)])
     /\ UNCHANGED <<setting, access>>

\* revokeResourceConnection: the provider's tokens, then every live permission
\* of the connection, then the connection itself.
RevokeResourceConnection(p, r) ==
  /\ Free(p) /\ agent # "erased"
  /\ r \in External /\ connection[r] # "none" /\ resource[r] # "deleted"
  /\ Goto(p, [Idle EXCEPT !.op = "connection", !.res = r,
        !.pc = IF connection[r] = "active" THEN "postProvider" ELSE "listConnection"])
  /\ UNCHANGED <<setting, access>>

\* completeResourceConnectionIntent of an account that was: the final upsert, and
\* revokeUncoveredEntitlements after it, which ends what the Provider no longer
\* grants.
Reconnect(p, r) ==
  /\ Free(p) /\ agent # "erased"
  /\ r \in External /\ connection[r] # "none" /\ resource[r] = "enabled"
  /\ connection' = [connection EXCEPT ![r] = "active"]
  /\ Goto(p, [Idle EXCEPT !.pc = "listConnection", !.op = "narrow", !.res = r, !.at = now])
  /\ UNCHANGED <<now, resource, agent, host, access>>

PostProvider(p) ==
  /\ proc[p].pc = "postProvider"
  /\ IF resource[proc[p].res] = "deleted" THEN Done(p)
     ELSE Goto(p, [proc[p] EXCEPT !.pc = "listConnection"])
  /\ UNCHANGED <<setting, access>>

\* The live permissions of the Agent, detached or not, or those of a connection.
Listed(w, t) ==
  IF w.pc = "listAgent"
  THEN {k \in {IdOf(r, s, ent[r][s]) : r \in Resource, s \in Scope} :
          NotEnded(ent[k.res][k.scope]) /\ ent[k.res][k.scope].exp > t}
  ELSE {k \in {IdOf(w.res, s, ent[w.res][s]) : s \in Scope} :
          Live(ent[k.res][k.scope], t)}

\* The permissions a loop will go through, listed once.  A narrowing takes those
\* that the new authorization does not cover.
ListPermissions(p) ==
  LET w == proc[p]
  IN /\ w.pc \in {"listAgent", "listConnection"}
     /\ \/ /\ w.op # "narrow"
           /\ Goto(p, [w EXCEPT !.pc = "next", !.at = now, !.queue = Listed(w, now)])
        \/ /\ w.op = "narrow"
           /\ \E uncovered \in SUBSET Listed(w, w.at) :
                Goto(p, [w EXCEPT !.pc = "next", !.queue = uncovered])
     /\ UNCHANGED <<setting, access>>

\* The next permission of the loop.  For a connection it is a call of
\* revokeAgentPermission, which throws when the permission is not revocable.
NextPermission(p) ==
  LET w == proc[p]
      t == IF w.op \in {"agent", "narrow"} THEN w.at ELSE now
  IN /\ w.pc = "next"
     /\ \/ /\ w.queue = {}
           /\ IF w.op \in {"agent", "narrow"} THEN Done(p)
              ELSE Goto(p, [w EXCEPT !.pc = "endConnection"])
        \/ \E k \in w.queue :
             IF w.op = "connection" /\ ~Revocable(k) THEN Done(p)
             ELSE Goto(p, [w EXCEPT !.pc = "post", !.queue = @ \ {k},
                             !.current = k, !.at = t, !.todo = LeasesOn(k, t),
                             !.listed = IF w.op = "agent" THEN {}
                                        ELSE LeasesOn(k, t)])
     /\ UNCHANGED <<setting, access>>

\* revokeTokenLeaseAtTarget finds the resource of a lease, and the connection
\* whose client the token was issued to.
Reachable(l) ==
  resource[request[lease[l].req].res] # "deleted" /\ Attached(lease[l].req)

\* One lease at a time goes to the target's revocation endpoint (a native
\* resource has none); a lease that is not reachable makes it throw.
PostRevocation(p) ==
  LET w == proc[p]
  IN /\ w.pc = "post"
     /\ \/ /\ w.todo = {}
           /\ IF w.op = "host" THEN Done(p) ELSE Goto(p, [w EXCEPT !.pc = "end"])
           /\ UNCHANGED lease
        \/ /\ \E l \in w.todo : ~Reachable(l)
           /\ Done(p)
           /\ UNCHANGED lease
        \/ \E l \in w.todo :
             /\ Reachable(l)
             /\ lease' = IF request[lease[l].req].res \in External
                         THEN [lease EXCEPT ![l].posted = TRUE] ELSE lease
             /\ Goto(p, IF w.op \in {"agent", "host"}
                        THEN [w EXCEPT !.pc = "persist", !.todo = @ \ {l},
                                       !.listed = {l}]
                        ELSE [w EXCEPT !.todo = @ \ {l}])
     /\ UNCHANGED <<setting, request, ent>>

MarkRevoked(L) ==
  lease' = [l \in Lease |-> IF l \in L /\ lease[l].state = "live"
                            THEN [lease[l] EXCEPT !.state = "revoked"]
                            ELSE lease[l]]

\* revokeTokenLease, after the call to the target.
PersistRevocation(p) ==
  LET w == proc[p]
  IN /\ w.pc = "persist"
     /\ MarkRevoked(w.listed)
     /\ Goto(p, [w EXCEPT !.pc = "post", !.listed = {}])
     /\ UNCHANGED <<setting, request, ent>>

\* Mutant: the reason written is "consumed".
EndEntitlementConsumed(p) ==
  LET w == proc[p]
      k == w.current
  IN /\ w.pc = "end"
     /\ ent' = IF Standing(k) THEN [ent EXCEPT ![k.res][k.scope].state = "consumed"]
               ELSE ent
     /\ MarkRevoked(w.listed)
     /\ Done(p)
     /\ UNCHANGED <<setting, request>>

\* endEntitlementWithAudit, with the leases listed before the calls, or
\* endEntitlement.
EndEntitlement(p) ==
  LET w == proc[p]
      k == w.current
  IN /\ w.pc = "end"
     /\ ent' = IF Standing(k) THEN [ent EXCEPT ![k.res][k.scope].state = "revoked"]
               ELSE ent
     /\ MarkRevoked(w.listed)
     /\ IF w.op = "permission" THEN Done(p)
        ELSE Goto(p, [w EXCEPT !.pc = "next", !.current = None, !.listed = {}])
     /\ UNCHANGED <<setting, request>>

EndConnection(p) ==
  LET r == proc[p].res
  IN /\ proc[p].pc = "endConnection"
     /\ connection' = IF connection[r] = "active"
                      THEN [connection EXCEPT ![r] = "revoked"] ELSE connection
     /\ Done(p)
     /\ UNCHANGED <<now, resource, agent, host, access>>

-----------------------------------------------------------------------------
(* The surroundings *)

\* completeResourceConnectionIntent of an account that was never connected.
Connect(r) ==
  /\ r \in External /\ agent # "erased"
  /\ connection[r] = "none" /\ resource[r] = "enabled"
  /\ connection' = [connection EXCEPT ![r] = "active"]
  /\ UNCHANGED <<now, resource, agent, host, access, proc>>

\* revokeProviderCredential, when the Provider refuses to refresh the credential of
\* the connection (invalid_grant): permissions and leases stay as they are.
RevokeProviderCredential(r) ==
  /\ connection[r] = "active"
  /\ connection' = [connection EXCEPT ![r] = "revoked"]
  /\ UNCHANGED <<now, resource, agent, host, access, proc>>

\* approveIntent of a further installation, also of an inactive Agent.
EnrollHost(b) ==
  /\ host[b] = "none" /\ ~Deleted
  /\ host' = [host EXCEPT ![b] = "active"]
  /\ UNCHANGED <<now, resource, connection, agent, access, proc>>

\* deactivateAgentIdentity, which leaves hosts and access alone, and
\* activateAgentIdentity, which asks for a host.
SetAgentActive ==
  /\ \/ agent = "active" /\ agent' = "inactive"
     \/ agent = "inactive" /\ (\E b \in Host : host[b] = "active") /\ agent' = "active"
  /\ UNCHANGED <<now, resource, connection, host, access, proc>>

\* updateResource, of the field enabled.
SetResourceEnabled(r) ==
  /\ resource[r] # "deleted"
  /\ resource' = [resource EXCEPT
                    ![r] = IF @ = "enabled" THEN "disabled" ELSE "enabled"]
  /\ UNCHANGED <<now, connection, agent, host, access, proc>>

\* The end of a permission that has not ended.
Ended(row) == IF NotEnded(row) THEN [row EXCEPT !.state = "revoked"] ELSE row

\* Mutant: every request of the resource is denied, decided or not.
DeleteResourceDenying(r) ==
  /\ resource[r] # "deleted"
  /\ resource' = [resource EXCEPT ![r] = "deleted"]
  /\ request' = [q \in Request |->
       IF request[q].res = r THEN [request[q] EXCEPT !.state = "denied"] ELSE request[q]]
  /\ MarkRevoked(LeasesOfResource(r))
  /\ UNCHANGED <<now, connection, agent, host, ent, proc>>

\* deleteResource: one batch that also closes what hangs from the resource.  Its
\* leases are marked without a call to the target.
DeleteResource(r) ==
  /\ resource[r] # "deleted"
  /\ resource' = [resource EXCEPT ![r] = "deleted"]
  /\ connection' = [connection EXCEPT ![r] = IF @ = "active" THEN "revoked" ELSE @]
  /\ request' = [q \in Request |->
       IF request[q].res = r /\ request[q].state = "pending"
       THEN [request[q] EXCEPT !.state = "denied"] ELSE request[q]]
  /\ ent' = [ent EXCEPT ![r] = [s \in Scope |-> Ended(ent[r][s])]]
  /\ MarkRevoked(LeasesOfResource(r))
  /\ UNCHANGED <<now, agent, host, proc>>

\* updateResource to a private visibility, and replaceResourceDiscovery, read the
\* permissions of the resource that have not ended and choose those that may no
\* longer stand: the Agent's owner is not a member, or the scope is not assigned.
WithdrawScopes(p, r) ==
  /\ Free(p) /\ resource[r] # "deleted"
  /\ \E S \in SUBSET {s \in Scope : NotEnded(ent[r][s])} :
       /\ S # {}
       /\ Goto(p, [Idle EXCEPT !.pc = "withdraw", !.res = r,
                               !.queue = {IdOf(r, s, ent[r][s]) : s \in S}])
  /\ UNCHANGED <<setting, access>>

\* ... and end them by identifier, whatever has become of them since, leaving the
\* tokens issued on them alone.
EndWithdrawn(p) ==
  LET w == proc[p]
  IN /\ w.pc = "withdraw"
     /\ ent' = [ent EXCEPT ![w.res] = [s \in Scope |->
          IF IdOf(w.res, s, ent[w.res][s]) \in w.queue
          THEN [ent[w.res][s] EXCEPT !.state = "revoked"] ELSE ent[w.res][s]]]
     /\ Done(p)
     /\ UNCHANGED <<setting, request, lease>>

\* revokeResourceAuthorizationsByConnector, when the connector of a resource gets
\* another OAuth client: requests and permissions lose their connection, which is
\* revoked.  (The list of active connections may be stale.)  The triggers refuse
\* it where it would leave a row of a deleted Agent open or pending.
ResetConnector(r) ==
  /\ connection[r] # "none"
  /\ Deleted =>
       /\ \A s \in Scope : ent[r][s].state # "open"
       /\ \A q \in Request :
            request[q].res = r /\ request[q].linked => request[q].state # "pending"
  /\ connection' = [connection EXCEPT ![r] = "revoked"]
  /\ request' = [q \in Request |->
       IF request[q].res = r THEN [request[q] EXCEPT !.linked = FALSE] ELSE request[q]]
  /\ ent' = [ent EXCEPT ![r] = [s \in Scope |->
       IF ent[r][s].state = "open" THEN [ent[r][s] EXCEPT !.state = "detached"]
       ELSE ent[r][s]]]
  /\ UNCHANGED <<now, resource, agent, host, lease, proc>>

\* erase, of the account that owns the Agent and the connections, in one batch:
\* every request becomes revoked, whatever its status, what has not ended is
\* ended, and the leases are marked without a call to their targets (the posts
\* come later, with the cleanup).  Of what the rows say only this is followed.
EraseAccount ==
  /\ agent # "erased"
  /\ agent' = "erased"
  /\ host' = RevokedHosts
  /\ connection' = [r \in Resource |->
       IF connection[r] = "active" THEN "revoked" ELSE connection[r]]
  /\ request' = [q \in Request |->
       IF request[q].state # "none" THEN [request[q] EXCEPT !.state = "revoked"]
       ELSE request[q]]
  /\ ent' = [r \in Resource |-> [s \in Scope |-> Ended(ent[r][s])]]
  /\ MarkRevoked(Lease)
  /\ UNCHANGED <<now, resource, proc>>

Tick ==
  /\ now < MaxTime
  /\ now' = now + 1
  /\ UNCHANGED <<resource, connection, agent, host, access, proc>>

\* An invocation that throws at an await, because a call to a provider or to
\* the database failed, or that the runtime evicts: nothing else is written.
Abandon(p) ==
  /\ ~Free(p)
  /\ Done(p)
  /\ UNCHANGED <<setting, access>>

-----------------------------------------------------------------------------
\* Some of the hosts are enrolled, or none since others were revoked.
Init ==
  /\ now = 0
  /\ resource = [r \in Resource |-> "enabled"]
  /\ connection = [r \in Resource |-> "none"]
  /\ agent = "active"
  /\ host \in [Host -> {"none", "active"}]
  /\ request = [q \in Request |-> NoAccessRequest]
  /\ ent = [r \in Resource |-> [s \in Scope |-> NoEntitlement]]
  /\ lease = [l \in Lease |-> NoLease]
  /\ proc = [p \in Handler |-> Idle]

\* The lifetimes a controller can choose: only "until" has an expires_at.
Lifetime(m, e) == IF m = "until" THEN e < Never ELSE e = Never

Ask(p) ==
  \E b \in Host, r \in Resource, S \in SUBSET Scope :
    (AutoApproved(r, S) => SpareRows) /\ CreateAgentAccessRequest(p, b, r, S)
Decide(p) ==
  \E q \in Request :
    \/ DenyAgentAccessRequest(p, q)
    \/ \E m \in Mode, e \in Instant :
         SpareRows /\ Lifetime(m, e) /\ ApproveAgentAccessRequest(p, q, m, e)
Grant(p) ==
  SpareRows /\ \E r \in Resource, S \in SUBSET Scope, m \in Mode, e \in Instant :
    Lifetime(m, e) /\ CreateAgentPermission(p, r, S, m, e)
Issue(p) ==
  SpareLease /\ \E q \in Request, b \in Host : IssueTargetAccessToken(p, q, b)
Revoke(p) == \E r \in Resource, s \in Scope : RevokeAgentPermission(p, r, s)
Remove(p) ==
  \/ \E status \in {"inactive", "deleted"} : RemoveAgent(p, status)
  \/ \E b \in Host : RevokeAgentIdentityHost(p, b)
  \/ \E r \in Resource : \/ RevokeResourceConnection(p, r) \/ Reconnect(p, r)
                         \/ WithdrawScopes(p, r)

\* The steps of a handler that has started.
Continue(p) ==
  \/ InsertAccessRequest(p) \/ DecideAgain(p) \/ CommitDenial(p)
  \/ CommitApproval(p) \/ RefuseApproval(p)
  \/ FindEquivalent(p) \/ WritePermission(p) \/ RefuseGrant(p)
  \/ RereadEquivalent(p)
  \/ IssueTokenLease(p)
  \/ ListHostLeases(p) \/ PostProvider(p) \/ ListPermissions(p)
  \/ NextPermission(p) \/ PostRevocation(p) \/ PersistRevocation(p)
  \/ EndEntitlement(p) \/ EndConnection(p) \/ EndWithdrawn(p)

Environment ==
  \/ Tick
  \/ EraseAccount
  \/ SetAgentActive
  \/ \E b \in Host : EnrollHost(b)
  \/ \E r \in Resource : \/ Connect(r) \/ ResetConnector(r)
                         \/ RevokeProviderCredential(r)
                         \/ SetResourceEnabled(r) \/ DeleteResource(r)

Next ==
  \/ Environment
  \/ \E p \in Handler : \/ Ask(p) \/ Decide(p) \/ Grant(p) \/ Issue(p)
                        \/ Revoke(p) \/ Remove(p)
                        \/ Continue(p) \/ Abandon(p)

Spec == Init /\ [][Next]_vars

-----------------------------------------------------------------------------
(* Properties *)

\* A once permission is used once: no token lease carries the identifier of an
\* open one, and at most one lease that of one that has ended
\* (issueTokenLeaseWithAudit ends it in the batch that inserts the lease,
\* whatever was approved, granted or issued since it was read).
OnceUsedOnce ==
  \A r \in Resource, s \in Scope, l \in Lease :
    ent[r][s].mode = "once" /\ IdOf(r, s, ent[r][s]) \in lease[l].perms =>
      /\ ent[r][s].state # "open"
      /\ \A m \in Lease : IdOf(r, s, ent[r][s]) \in lease[m].perms => m = l

\* A permission ends as consumed only by giving a token: the end of the once
\* permissions and the insertion of the lease stand or fall together.
ConsumedWasUsed ==
  \A r \in Resource, s \in Scope :
    ent[r][s].state = "consumed" =>
      \E l \in Lease : IdOf(r, s, ent[r][s]) \in lease[l].perms

\* Every token lease answers a request a controller (or the automatic policy)
\* approved; a denied request never issues one, however long the target took.
LeaseOfDecidedRequest ==
  \A l \in Lease :
    LET status == request[lease[l].req].state
    IN /\ lease[l].state = "live" => status = "consumed"
       /\ lease[l].state = "revoked" => status \in {"consumed", "revoked"}

\* The audit rows tell the decision: a pending request has none, a denied one
\* at most one and it says denied, an approved one has no denial beside it.
AuditTellsDecision ==
  \A q \in Request :
    CASE request[q].state \in {"none", "pending"} ->
           request[q].allowed = 0 /\ request[q].denied = 0
      [] request[q].state = "denied" ->
           request[q].allowed = 0 /\ request[q].denied <= 1
      [] request[q].state = "revoked" ->
           request[q].denied = 0 \/ (request[q].denied = 1 /\ request[q].allowed = 0)
      [] OTHER -> request[q].denied = 0

\* As long as the target is registered, the lease of an external token is
\* recorded as revoked only after its revocation endpoint has been called.
RevokedAtTarget ==
  \A l \in Lease :
    LET r == request[lease[l].req].res
    IN /\ lease[l].state = "revoked" /\ r \in External
       /\ resource[r] # "deleted" /\ agent # "erased"
       => lease[l].posted

\* A decision is final: two controllers, or a controller and a resource being
\* deleted, cannot undo one another.  Only the erasure of the account takes
\* decided requests any further, and what it has revoked stays revoked.
DecisionIsFinal ==
  [][\A q \in Request :
       LET status == request[q].state
           next == request'[q].state
       IN next # status =>
            /\ status \in {"none", "pending", "approved", "denied", "consumed"}
            /\ status \in {"denied", "consumed"} => next = "revoked"
            /\ status = "approved" => next \in {"consumed", "revoked"}
            /\ next = "revoked" => agent # "erased" /\ agent' = "erased"]_vars

\* Once the account is erased nothing of the Agent is left to use, now or later:
\* the handlers in flight then, which checked and read before, open no permission,
\* write no lease and leave no request for a controller who is gone.
ErasedHasNoAccess ==
  agent = "erased" =>
    /\ \A r \in Resource, s \in Scope : ~NotEnded(ent[r][s])
    /\ \A l \in Lease : lease[l].state # "live"
    /\ \A q \in Request : request[q].state # "pending"

\* A request becomes approved by a decision only in a state where every scope of
\* it has an open permission, although the batch that approves it may lose any
\* of its inserts and updates.
ApprovalIsBacked ==
  [][\A q \in Request :
       request[q].state = "pending" /\ request'[q].state = "approved" =>
         \A s \in request[q].scopes : ent'[request[q].res][s].state = "open"]_vars

\* A disabled, deleted or disconnected target gets no new lease, and a new lease
\* rests on permissions of the requested target that nobody had ended since the
\* handler read them, some awaits earlier.
LeaseRestsOnAuthority ==
  [][\A l \in Lease :
       lease[l].state = "none" /\ lease'[l].state = "live" =>
         /\ lease'[l].perms # {}
         /\ \A k \in lease'[l].perms :
              k.res = request[lease'[l].req].res /\ StillOpen(k) /\ Usable(k.res)]_vars

-----------------------------------------------------------------------------
(* What the documents say and the code does not do *)

\* "Agent permissions changed while access was being approved": an approval that
\* gives up after its retry was really overtaken, that is, the request, its
\* target or the live permissions are no longer what the handler read.
ConflictIsReal ==
  [][\A p \in Handler :
       LET w == proc[p]
           r == request[w.req].res
       IN CommitApproval(p) /\ ~w.retry /\ request'[w.req].state = "pending" =>
            ~Usable(r) \/ LiveRows(r, w.at) # w.seen]_vars

\* Disconnecting an account ends the Agent's permissions on it: the loop stops
\* early only at a permission that somebody else has ended meanwhile.
DisconnectionEndsPermissions ==
  [][\A p \in Handler :
       NextPermission(p) /\ proc[p].op = "connection" /\ proc'[p] = Idle =>
         \E k \in proc[p].queue : ~Standing(k)]_vars

\* When a permission has been revoked, no token lease issued on it is live.
RevocationReachesLeases ==
  [][\A p \in Handler, l \in Lease :
       /\ EndEntitlement(p)
       /\ lease'[l].state = "live" /\ lease'[l].exp > now
       => proc[p].current \notin lease'[l].perms]_vars
=============================================================================
