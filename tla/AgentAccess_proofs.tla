------------------------- MODULE AgentAccess_proofs -------------------------
(***************************************************************************)
(* Theorems about AgentAccess, for any resources, scopes, hosts, requests, *)
(* leases, handlers and bounds.                                            *)
(*                                                                         *)
(* The invariants of AgentAccess are not inductive by themselves: a handler *)
(* acts on what it read, so they rest on what a handler in flight may hold *)
(* (Shape, Knows) and on how rows may change under it (RowsOnlyGrow,       *)
(* RequestsOnlyAdvance).                                                   *)
(***************************************************************************)
EXTENDS AgentAccess, TLAPS

-----------------------------------------------------------------------------
(* The inductive invariant *)

\* What the fields of a handler are, at each point of its code.
Shape(w) ==
  /\ w \in Work
  /\ w.pc \in {"insertPending", "insertApproved", "deny", "approve", "decide", "issue"}
       => w.req \in Request
  /\ w.pc \in {"insertPending", "insertApproved", "grant", "grantWrite",
               "grantReread", "issue", "postProvider", "listConnection", "withdraw"}
       => w.res \in Resource
  /\ w.pc \in {"grantWrite", "grantReread", "end"} => w.current \in PermissionId
  /\ w.pc \in {"post", "persist"} /\ w.op # "host" => w.current \in PermissionId
  /\ w.pc = "listHost" => w.op = "host"

\* What a handler may still rely on of what it read: its request exists, and a
\* permission it is about to use has not turned into a once permission since.
Knows(w, reqs, rows) ==
  /\ w.pc \in {"deny", "approve", "decide"} => reqs[w.req].state # "none"
  /\ w.pc = "issue" =>
       \A s \in Scope :
         w.seen[s].state = "open" =>
           /\ w.seen[s].gen <= rows[w.res][s].gen
           /\ w.seen[s].gen = rows[w.res][s].gen /\ rows[w.res][s].mode = "once"
                => w.seen[s].mode = "once"

HandlersOK == \A p \in Handler : Shape(proc[p]) /\ Knows(proc[p], request, ent)

RequestsOK == \A q \in Request : request[q].state # "none" => request[q].res \in Resource

\* A lease names its request, and rows that exist.
LeasesOK ==
  \A l \in Lease :
    /\ lease[l].state # "none" => lease[l].req \in Request
    /\ \A k \in lease[l].perms : k.gen <= ent[k.res][k.scope].gen

Inductive ==
  /\ TypeOK /\ HandlersOK /\ RequestsOK /\ LeasesOK
  /\ OnceUsedOnce /\ LeaseOfDecidedRequest

\* How a step may change the rows under the handlers: a scope gets a new row or
\* keeps the one it has, which neither turns into a once permission nor reopens.
RowsOnlyGrow ==
  \A r \in Resource, s \in Scope :
    /\ ent[r][s].gen <= ent'[r][s].gen
    /\ ent[r][s].gen = ent'[r][s].gen /\ ent'[r][s].mode = "once" => ent[r][s].mode = "once"
    /\ ent[r][s].gen = ent'[r][s].gen /\ ent'[r][s].state = "open" => ent[r][s].state = "open"

\* Requests are not forgotten, a consumed one stays so or is revoked, and one is
\* revoked only together with every lease.
RequestsOnlyAdvance ==
  \A q \in Request :
    /\ request[q].state # "none" => request'[q].state # "none"
    /\ request[q].state = "consumed" => request'[q].state \in {"consumed", "revoked"}
    /\ request[q].state = "revoked" => request'[q].state = "revoked"
    /\ request[q].state # "revoked" /\ request'[q].state = "revoked" =>
         \A l \in Lease : lease'[l].state # "live"

-----------------------------------------------------------------------------
(* Handlers *)

\* What a handler knows survives any step that lets rows grow and requests
\* advance.
LEMMA KnowsPreserved ==
  ASSUME NEW w, Shape(w), Knows(w, request, ent), TypeOK,
         RowsOnlyGrow, RequestsOnlyAdvance,
         ent' \in [Resource -> [Scope -> Entitlement]]
  PROVE  Knows(w, request', ent')
<1>1. w.pc \in {"deny", "approve", "decide"} => request'[w.req].state # "none"
  BY DEF Shape, Knows, RequestsOnlyAdvance
<1>2. ASSUME w.pc = "issue", NEW s \in Scope, w.seen[s].state = "open"
      PROVE  /\ w.seen[s].gen <= ent'[w.res][s].gen
             /\ w.seen[s].gen = ent'[w.res][s].gen /\ ent'[w.res][s].mode = "once"
                  => w.seen[s].mode = "once"
  <2>1. w.res \in Resource /\ w.seen[s] \in Entitlement
    BY <1>2 DEF Shape, Work
  <2>2. /\ w.seen[s].gen \in Nat
        /\ ent[w.res][s].gen \in Nat
        /\ ent'[w.res][s].gen \in Nat
    BY <2>1 DEF TypeOK, Entitlement
  <2>3. /\ w.seen[s].gen <= ent[w.res][s].gen
        /\ w.seen[s].gen = ent[w.res][s].gen /\ ent[w.res][s].mode = "once"
             => w.seen[s].mode = "once"
    BY <1>2 DEF Knows
  <2>4. /\ ent[w.res][s].gen <= ent'[w.res][s].gen
        /\ ent[w.res][s].gen = ent'[w.res][s].gen /\ ent'[w.res][s].mode = "once"
             => ent[w.res][s].mode = "once"
    BY <2>1 DEF RowsOnlyGrow
  <2> QED BY <2>2, <2>3, <2>4
<1> QED BY <1>1, <1>2 DEF Knows

\* A step that leaves the handler p with a good record w, and lets rows grow and
\* requests advance, leaves all the handlers good.
LEMMA HandlersPreserved ==
  ASSUME Inductive, NEW p \in Handler, NEW w, proc' = [proc EXCEPT ![p] = w],
         Shape(w), Knows(w, request', ent'), RowsOnlyGrow, RequestsOnlyAdvance,
         ent' \in [Resource -> [Scope -> Entitlement]]
  PROVE  HandlersOK' /\ proc' \in [Handler -> Work]
<1>1. proc \in [Handler -> Work]
  BY DEF Inductive, TypeOK
<1>2. proc' \in [Handler -> Work]
  BY <1>1 DEF Shape
<1>3. ASSUME NEW x \in Handler
      PROVE  Shape(proc'[x]) /\ Knows(proc'[x], request', ent')
  <2>1. CASE x = p
    BY <1>1, <2>1
  <2>2. CASE x # p
    <3>1. proc'[x] = proc[x]
      BY <1>1, <2>2
    <3>2. Shape(proc[x]) /\ Knows(proc[x], request, ent) /\ TypeOK
      BY DEF Inductive, HandlersOK
    <3>3. Knows(proc[x], request', ent')
      BY <3>2, KnowsPreserved
    <3> QED BY <3>1, <3>2, <3>3
  <2> QED BY <2>1, <2>2
<1> QED BY <1>2, <1>3 DEF HandlersOK

SettingOK ==
  /\ now \in 0 .. MaxTime
  /\ resource \in [Resource -> {"enabled", "disabled", "deleted"}]
  /\ connection \in [Resource -> {"none", "active", "revoked"}]
  /\ agent \in {"active", "inactive", "deleted", "erased"}
  /\ host \in [Host -> {"none", "active", "revoked"}]

\* The facts about times that every step uses.
LEMMA Times ==
  /\ MaxTime \in Nat /\ Never \in Nat /\ Never \in Instant
  /\ Instant \subseteq Nat /\ Instant \subseteq Int
  /\ 0 .. MaxTime \subseteq Instant
BY TimeAssumption DEF Never, Instant

LEMMA NoEntitlementType == NoEntitlement \in Entitlement
BY Times DEF NoEntitlement, Entitlement, Mode

LEMMA IdleShape ==
  /\ Shape(Idle) /\ Idle \in Work
  /\ \A reqs, rows : Knows(Idle, reqs, rows)
<1>1. Idle \in Work
  BY Times, NoEntitlementType DEF Idle, Work, Mode
<1> QED BY <1>1 DEF Shape, Knows, Idle

\* A step that writes no row: only the handler and the setting may change.
LEMMA ReadingStep ==
  ASSUME Inductive, UNCHANGED access, SettingOK', NEW p \in Handler, NEW w,
         Goto(p, w), Shape(w), Knows(w, request, ent)
  PROVE  Inductive'
<1>1. request' = request /\ ent' = ent /\ lease' = lease
  BY DEF access
<1>2. RowsOnlyGrow
  BY <1>1 DEF RowsOnlyGrow, Inductive, TypeOK, Entitlement
<1>3. RequestsOnlyAdvance
  BY <1>1 DEF RequestsOnlyAdvance
<1>4. HandlersOK' /\ proc' \in [Handler -> Work]
  BY <1>1, <1>2, <1>3, HandlersPreserved DEF Goto, Inductive, TypeOK
<1>5. TypeOK'
  BY <1>1, <1>4 DEF Inductive, TypeOK, SettingOK
<1>6. RequestsOK' /\ LeasesOK' /\ OnceUsedOnce' /\ LeaseOfDecidedRequest'
  BY <1>1 DEF Inductive, RequestsOK, LeasesOK, OnceUsedOnce, LeaseOfDecidedRequest, IdOf
<1> QED BY <1>4, <1>5, <1>6 DEF Inductive

\* A step of the surroundings that writes no row.
LEMMA SettingStep ==
  ASSUME Inductive, UNCHANGED access, SettingOK', UNCHANGED proc
  PROVE  Inductive'
BY DEF Inductive, TypeOK, SettingOK, access, HandlersOK, RequestsOK, LeasesOK,
       OnceUsedOnce, LeaseOfDecidedRequest, IdOf

LEMMA SettingKept ==
  ASSUME Inductive, UNCHANGED setting
  PROVE  SettingOK'
BY DEF Inductive, TypeOK, SettingOK, setting

\* The rows live at t, or none, are entitlements.
LEMMA LiveRowsType ==
  ASSUME TypeOK, NEW r \in Resource, NEW t
  PROVE  LiveRows(r, t) \in [Scope -> Entitlement]
BY NoEntitlementType DEF TypeOK, LiveRows

-----------------------------------------------------------------------------
(* Steps that only read *)

LEMMA DoneStep ==
  ASSUME Inductive, UNCHANGED access, SettingOK', NEW p \in Handler, Done(p)
  PROVE  Inductive'
BY ReadingStep, IdleShape DEF Done

LEMMA CreateAgentAccessRequestStep ==
  ASSUME Inductive, NEW p \in Handler, NEW b \in Host, NEW r \in Resource,
         NEW S \in SUBSET Scope, CreateAgentAccessRequest(p, b, r, S)
  PROVE  Inductive'
<1> DEFINE linked == connection[r] # "none"
<1>1. SettingOK' /\ UNCHANGED access
  BY SettingKept DEF CreateAgentAccessRequest
<1>2. now \in Instant
  BY Times DEF Inductive, TypeOK
<1>3. CASE \E q \in Request, pc \in {"insertApproved", "insertPending"} :
             Goto(p, [Idle EXCEPT !.pc = pc, !.req = q, !.res = r, !.linked = linked, !.scopes = S,
                                  !.at = now])
  <2>1. PICK q \in Request, pc \in {"insertApproved", "insertPending"} :
             Goto(p, [Idle EXCEPT !.pc = pc, !.req = q, !.res = r, !.linked = linked, !.scopes = S,
                                  !.at = now])
    BY <1>3
  <2> DEFINE w == [Idle EXCEPT !.pc = pc, !.req = q, !.res = r, !.linked = linked, !.scopes = S,
                               !.at = now]
  <2>2. Shape(w) /\ Knows(w, request, ent)
    <3>1. w \in Work /\ w.pc = pc /\ w.req = q /\ w.res = r
      BY <1>2, IdleShape, ZenonT(120) DEF Work, Idle
    <3> HIDE DEF w
    <3> QED BY <3>1 DEF Shape, Knows
  <2> QED BY <1>1, <2>1, <2>2, ReadingStep
<1>4. CASE \E q \in Request :
             /\ Pending(q)
             /\ Goto(p, [Idle EXCEPT !.pc = "decide", !.req = q,
                                     !.mode = "persistent", !.retry = TRUE])
  <2>1. PICK q \in Request :
             /\ Pending(q)
             /\ Goto(p, [Idle EXCEPT !.pc = "decide", !.req = q,
                                     !.mode = "persistent", !.retry = TRUE])
    BY <1>4
  <2> DEFINE w == [Idle EXCEPT !.pc = "decide", !.req = q,
                               !.mode = "persistent", !.retry = TRUE]
  <2>2. w.pc = "decide" /\ w.req = q
    BY DEF Idle
  <2>3. w \in Work
    BY IdleShape, ZenonT(60) DEF Work, Idle, Mode
  <2> HIDE DEF w
  <2>4. Shape(w) /\ Knows(w, request, ent)
    BY <2>1, <2>2, <2>3 DEF Shape, Knows, Pending
  <2> QED BY <1>1, <2>1, <2>4, ReadingStep DEF w
<1>5. \/ \E q \in Request, pc \in {"insertApproved", "insertPending"} :
             Goto(p, [Idle EXCEPT !.pc = pc, !.req = q, !.res = r, !.linked = linked, !.scopes = S,
                                  !.at = now])
      \/ \E q \in Request :
             /\ Pending(q)
             /\ Goto(p, [Idle EXCEPT !.pc = "decide", !.req = q,
                                     !.mode = "persistent", !.retry = TRUE])
  BY DEF CreateAgentAccessRequest
<1> QED BY <1>3, <1>4, <1>5

LEMMA ReadApprovalShape ==
  ASSUME Inductive, NEW q \in Request, Pending(q), NEW mode \in Mode,
         NEW exp \in Instant, NEW retry \in BOOLEAN
  PROVE  Shape(ReadApproval(q, mode, exp, retry))
         /\ Knows(ReadApproval(q, mode, exp, retry), request, ent)
<1>1. now \in Instant /\ request[q].state # "none"
  BY Times DEF Inductive, TypeOK, Pending
<1>2. request[q].res \in Resource
  BY <1>1 DEF Inductive, RequestsOK
<1>3. LiveRows(request[q].res, now) \in [Scope -> Entitlement]
  BY <1>2, LiveRowsType DEF Inductive
<1> DEFINE w == ReadApproval(q, mode, exp, retry)
<1>4. w \in Work
  BY <1>1, <1>3, IdleShape DEF ReadApproval, Work
<1>5. w.pc = "approve" /\ w.req = q
  BY DEF ReadApproval, Idle
<1> HIDE DEF w
<1>6. Shape(w) /\ Knows(w, request, ent)
  BY <1>1, <1>4, <1>5 DEF Shape, Knows
<1> QED BY <1>6 DEF w

LEMMA ApproveAgentAccessRequestStep ==
  ASSUME Inductive, NEW p \in Handler, NEW q \in Request, NEW m \in Mode,
         NEW e \in Instant, ApproveAgentAccessRequest(p, q, m, e)
  PROVE  Inductive'
BY SettingKept, ReadApprovalShape, ReadingStep DEF ApproveAgentAccessRequest, MayApprove

LEMMA DecideAgainStep ==
  ASSUME Inductive, NEW p \in Handler, DecideAgain(p)
  PROVE  Inductive'
<1> DEFINE w == proc[p]
<1>1. SettingOK' /\ UNCHANGED access
  BY SettingKept DEF DecideAgain
<1>2. w.req \in Request /\ w.mode \in Mode /\ w.exp \in Instant /\ w.retry \in BOOLEAN
  BY DEF DecideAgain, Inductive, HandlersOK, Shape, Work
<1>3. CASE MayApprove(w.req, w.mode, w.exp)
  <2>1. Goto(p, ReadApproval(w.req, w.mode, w.exp, w.retry)) /\ Pending(w.req)
    BY <1>3 DEF DecideAgain, MayApprove
  <2> QED BY <1>1, <1>2, <2>1, ReadApprovalShape, ReadingStep
<1>4. CASE ~MayApprove(w.req, w.mode, w.exp)
  BY <1>1, <1>4, DoneStep DEF DecideAgain
<1> QED BY <1>3, <1>4

LEMMA DenyAgentAccessRequestStep ==
  ASSUME Inductive, NEW p \in Handler, NEW q \in Request, DenyAgentAccessRequest(p, q)
  PROVE  Inductive'
<1> DEFINE w == [Idle EXCEPT !.pc = "deny", !.req = q]
<1>1. request[q].state # "none" /\ Goto(p, w) /\ SettingOK' /\ UNCHANGED access
  BY SettingKept DEF DenyAgentAccessRequest, Pending
<1>2. w \in Work
  BY IdleShape DEF Work
<1>3. w.pc = "deny" /\ w.req = q
  BY DEF Idle
<1> HIDE DEF w
<1>4. Shape(w) /\ Knows(w, request, ent)
  BY <1>1, <1>2, <1>3 DEF Shape, Knows
<1> QED BY <1>1, <1>4, ReadingStep

LEMMA CreateAgentPermissionStep ==
  ASSUME Inductive, NEW p \in Handler, NEW r \in Resource, NEW S \in SUBSET Scope,
         NEW m \in Mode, NEW e \in Instant, CreateAgentPermission(p, r, S, m, e)
  PROVE  Inductive'
<1> DEFINE w == [Idle EXCEPT !.pc = "grant", !.res = r, !.scopes = S,
                             !.mode = m, !.exp = e, !.at = now]
<1>1. now \in Instant
  BY Times DEF Inductive, TypeOK
<1>2. w \in Work /\ w.pc = "grant" /\ w.res = r
  BY <1>1, IdleShape, ZenonT(60) DEF Work, Idle
<1>3. Goto(p, w)
  BY DEF CreateAgentPermission
<1> HIDE DEF w
<1>4. Shape(w) /\ Knows(w, request, ent)
  BY <1>2 DEF Shape, Knows
<1> QED BY <1>3, <1>4, SettingKept, ReadingStep DEF CreateAgentPermission

\* A permission identifier made from a row is one.
LEMMA IdType ==
  ASSUME NEW r \in Resource, NEW s \in Scope, NEW row \in Entitlement
  PROVE  IdOf(r, s, row) \in PermissionId
BY DEF IdOf, PermissionId, Entitlement

LEMMA FindEquivalentStep ==
  ASSUME Inductive, NEW p \in Handler, FindEquivalent(p)
  PROVE  Inductive'
<1> DEFINE w == proc[p]
<1>1. SettingOK' /\ UNCHANGED access /\ w.pc = "grant"
  BY SettingKept DEF FindEquivalent
<1>2. w \in Work /\ w.res \in Resource
  BY <1>1 DEF Inductive, HandlersOK, Shape
<1>3. CASE Done(p)
  BY <1>1, <1>3, DoneStep
<1>4. ASSUME NEW s \in w.scopes, NEW seen \in {ent[w.res][s], NoEntitlement},
             Goto(p, [w EXCEPT !.pc = "grantWrite", !.seen[s] = seen,
                               !.current = IdOf(w.res, s, seen)])
      PROVE  Inductive'
  <2> DEFINE v == [w EXCEPT !.pc = "grantWrite", !.seen[s] = seen,
                            !.current = IdOf(w.res, s, seen)]
  <2>1. s \in Scope /\ seen \in Entitlement
    BY <1>2, NoEntitlementType DEF Work, Inductive, TypeOK
  <2>2. IdOf(w.res, s, seen) \in PermissionId
    BY <1>2, <2>1, IdType
  <2>3. v \in Work
    BY <1>2, <2>1, <2>2 DEF Work
  <2>4. v.pc = "grantWrite" /\ v.res = w.res /\ v.current = IdOf(w.res, s, seen)
    BY <1>2 DEF Work
  <2> HIDE DEF v
  <2>5. Shape(v) /\ Knows(v, request, ent)
    BY <1>2, <2>2, <2>3, <2>4 DEF Shape, Knows
  <2> QED BY <1>1, <1>4, <2>5, ReadingStep DEF v
<1> QED BY <1>1, <1>3, <1>4 DEF FindEquivalent

LEMMA RereadEquivalentStep ==
  ASSUME Inductive, NEW p \in Handler, RereadEquivalent(p)
  PROVE  Inductive'
<1> DEFINE w == proc[p]
           s == w.current.scope
           v == [w EXCEPT !.pc = "grantWrite", !.seen[s] = ent[w.res][s]]
<1>1. SettingOK' /\ UNCHANGED access /\ w.pc = "grantReread"
  BY SettingKept DEF RereadEquivalent
<1>2. w \in Work /\ w.res \in Resource /\ w.current \in PermissionId
  BY <1>1 DEF Inductive, HandlersOK, Shape
<1>3. CASE Done(p)
  BY <1>1, <1>3, DoneStep
<1>4. CASE Goto(p, v)
  <2>1. s \in Scope /\ ent[w.res][s] \in Entitlement
    BY <1>2 DEF PermissionId, Inductive, TypeOK
  <2>2. v \in Work
    BY <1>2, <2>1 DEF Work
  <2>3. v.pc = "grantWrite" /\ v.res = w.res /\ v.current = w.current
    BY <1>2 DEF Work
  <2> HIDE DEF v
  <2>4. Shape(v) /\ Knows(v, request, ent)
    BY <1>2, <2>2, <2>3 DEF Shape, Knows
  <2> QED BY <1>1, <1>4, <2>4, ReadingStep
<1> QED BY <1>3, <1>4 DEF RereadEquivalent

LEMMA IssueTargetAccessTokenStep ==
  ASSUME Inductive, NEW p \in Handler, NEW q \in Request, NEW b \in Host,
         IssueTargetAccessToken(p, q, b)
  PROVE  Inductive'
<1> DEFINE r == request[q].res
           w == [Idle EXCEPT !.pc = "issue", !.req = q, !.res = r, !.host = b,
                             !.at = now, !.seen = LiveRows(r, now)]
<1>1. /\ SettingOK' /\ UNCHANGED access /\ Goto(p, w)
      /\ request[q].state \in {"approved", "consumed"}
  BY SettingKept DEF IssueTargetAccessToken
<1>2. r \in Resource /\ now \in Instant
  BY <1>1, Times DEF Inductive, RequestsOK, TypeOK
<1>3. LiveRows(r, now) \in [Scope -> Entitlement]
  BY <1>2, LiveRowsType DEF Inductive
<1>4. w \in Work
  BY <1>2, <1>3, IdleShape DEF Work
<1>5. /\ w.pc = "issue" /\ w.req = q /\ w.res = r
      /\ w.seen = LiveRows(r, now)
  BY DEF Idle
<1>6. ASSUME NEW s \in Scope, LiveRows(r, now)[s].state = "open"
      PROVE  LiveRows(r, now)[s] = ent[r][s]
  BY <1>6 DEF LiveRows, NoEntitlement
<1>7. \A s \in Scope : ent[r][s].gen \in Nat
  BY <1>2 DEF Inductive, TypeOK, Entitlement
<1> HIDE DEF w, r
<1>8. Shape(w)
  BY <1>2, <1>4, <1>5 DEF Shape
<1>9. Knows(w, request, ent)
  BY <1>5, <1>6, <1>7 DEF Knows
<1> QED BY <1>1, <1>8, <1>9, ReadingStep

\* Leases listed for a permission or a host are leases.
LEMMA ListedLeases ==
  /\ \A k, t : LeasesOn(k, t) \subseteq Lease
  /\ \A b, t : LeasesOfHost(b, t) \subseteq Lease
BY DEF LeasesOn, LeasesOfHost

LEMMA RevokeAgentPermissionStep ==
  ASSUME Inductive, NEW p \in Handler, NEW r \in Resource, NEW s \in Scope,
         RevokeAgentPermission(p, r, s)
  PROVE  Inductive'
<1> DEFINE k == IdOf(r, s, ent[r][s])
           leases == LeasesOn(k, now)
           w == [Idle EXCEPT !.pc = "post", !.op = "permission", !.current = k,
                             !.at = now, !.todo = leases, !.listed = leases]
<1>1. SettingOK' /\ UNCHANGED access /\ Goto(p, w)
  BY SettingKept DEF RevokeAgentPermission
<1>2. k \in PermissionId /\ now \in Instant
  BY IdType, Times DEF Inductive, TypeOK
<1>3. w \in Work /\ w.pc = "post" /\ w.current = k
  BY <1>2, ListedLeases, IdleShape, ZenonT(60) DEF Work, Idle
<1> HIDE DEF w, k
<1>4. Shape(w) /\ Knows(w, request, ent)
  BY <1>2, <1>3 DEF Shape, Knows
<1> QED BY <1>1, <1>4, ReadingStep

LEMMA RemoveAgentStep ==
  ASSUME Inductive, NEW p \in Handler, NEW status \in {"inactive", "deleted"},
         RemoveAgent(p, status)
  PROVE  Inductive'
<1> DEFINE w == [Idle EXCEPT !.pc = "listAgent", !.op = "agent"]
<1>1. SettingOK' /\ UNCHANGED access /\ Goto(p, w)
  BY DEF RemoveAgent, RevokedHosts, SettingOK, Inductive, TypeOK
<1>2. w \in Work /\ w.pc = "listAgent"
  BY IdleShape DEF Work, Idle
<1> HIDE DEF w
<1>3. Shape(w) /\ Knows(w, request, ent)
  BY <1>2 DEF Shape, Knows
<1> QED BY <1>1, <1>3, ReadingStep

LEMMA RevokeAgentIdentityHostStep ==
  ASSUME Inductive, NEW p \in Handler, NEW b \in Host, RevokeAgentIdentityHost(p, b)
  PROVE  Inductive'
<1> DEFINE w == [Idle EXCEPT !.pc = "listHost", !.op = "host", !.host = b]
<1>1. SettingOK' /\ UNCHANGED access /\ Goto(p, w)
  BY DEF RevokeAgentIdentityHost, RevokedHosts, SettingOK, Inductive, TypeOK
<1>2. w \in Work /\ w.pc = "listHost" /\ w.op = "host"
  BY IdleShape DEF Work, Idle
<1> HIDE DEF w
<1>3. Shape(w) /\ Knows(w, request, ent)
  BY <1>2 DEF Shape, Knows
<1> QED BY <1>1, <1>3, ReadingStep

LEMMA ListHostLeasesStep ==
  ASSUME Inductive, NEW p \in Handler, ListHostLeases(p)
  PROVE  Inductive'
<1> DEFINE w == proc[p]
           v == [w EXCEPT !.pc = "post", !.at = now, !.todo = LeasesOfHost(w.host, now)]
<1>1. SettingOK' /\ UNCHANGED access /\ Goto(p, v)
  BY SettingKept DEF ListHostLeases
<1>2. w \in Work /\ w.op = "host" /\ now \in Instant
  BY Times DEF ListHostLeases, Inductive, TypeOK, HandlersOK, Shape
<1>3. v \in Work /\ v.pc = "post" /\ v.op = "host"
  BY <1>2, ListedLeases DEF Work
<1> HIDE DEF v
<1>4. Shape(v) /\ Knows(v, request, ent)
  BY <1>3 DEF Shape, Knows
<1> QED BY <1>1, <1>4, ReadingStep

LEMMA RevokeResourceConnectionStep ==
  ASSUME Inductive, NEW p \in Handler, NEW r \in Resource,
         RevokeResourceConnection(p, r)
  PROVE  Inductive'
<1>1. PICK pc \in {"postProvider", "listConnection"} :
        Goto(p, [Idle EXCEPT !.op = "connection", !.res = r, !.pc = pc])
  BY DEF RevokeResourceConnection
<1> DEFINE w == [Idle EXCEPT !.op = "connection", !.res = r, !.pc = pc]
<1>2. w \in Work /\ w.pc = pc /\ w.res = r
  BY IdleShape, ZenonT(60) DEF Work, Idle
<1> HIDE DEF w
<1>3. Shape(w) /\ Knows(w, request, ent)
  BY <1>2 DEF Shape, Knows
<1> QED BY <1>1, <1>3, SettingKept, ReadingStep DEF RevokeResourceConnection, w

LEMMA ReconnectStep ==
  ASSUME Inductive, NEW p \in Handler, NEW r \in Resource, Reconnect(p, r)
  PROVE  Inductive'
<1> DEFINE w == [Idle EXCEPT !.pc = "listConnection", !.op = "narrow", !.res = r,
                             !.at = now]
<1>1. SettingOK' /\ UNCHANGED access /\ Goto(p, w)
  BY DEF Reconnect, SettingOK, Inductive, TypeOK
<1>2. now \in Instant
  BY Times DEF Inductive, TypeOK
<1>3. w \in Work /\ w.pc = "listConnection" /\ w.res = r
  BY <1>2, IdleShape, ZenonT(60) DEF Work, Idle
<1> HIDE DEF w
<1>4. Shape(w) /\ Knows(w, request, ent)
  BY <1>3 DEF Shape, Knows
<1> QED BY <1>1, <1>4, ReadingStep

LEMMA WithdrawScopesStep ==
  ASSUME Inductive, NEW p \in Handler, NEW r \in Resource, WithdrawScopes(p, r)
  PROVE  Inductive'
<1>1. PICK S \in SUBSET Scope :
        Goto(p, [Idle EXCEPT !.pc = "withdraw", !.res = r,
                             !.queue = {IdOf(r, s, ent[r][s]) : s \in S}])
  BY DEF WithdrawScopes
<1> DEFINE queue == {IdOf(r, s, ent[r][s]) : s \in S}
           w == [Idle EXCEPT !.pc = "withdraw", !.res = r, !.queue = queue]
<1>2. queue \subseteq PermissionId
  BY IdType DEF Inductive, TypeOK
<1>3. Goto(p, w)
  BY <1>1
<1> HIDE DEF queue
<1>4. w \in Work /\ w.pc = "withdraw" /\ w.res = r
  BY <1>2, IdleShape DEF Work, Idle
<1> HIDE DEF w
<1>5. Shape(w) /\ Knows(w, request, ent)
  BY <1>4 DEF Shape, Knows
<1> QED BY <1>3, <1>5, SettingKept, ReadingStep DEF WithdrawScopes

LEMMA PostProviderStep ==
  ASSUME Inductive, NEW p \in Handler, PostProvider(p)
  PROVE  Inductive'
<1> DEFINE w == proc[p]
           v == [w EXCEPT !.pc = "listConnection"]
<1>1. SettingOK' /\ UNCHANGED access /\ (Done(p) \/ Goto(p, v))
  BY SettingKept DEF PostProvider
<1>2. w \in Work /\ w.res \in Resource
  BY DEF PostProvider, Inductive, HandlersOK, Shape
<1>3. v \in Work /\ v.pc = "listConnection" /\ v.res = w.res
  BY <1>2 DEF Work
<1> HIDE DEF v
<1>4. Shape(v) /\ Knows(v, request, ent)
  BY <1>2, <1>3 DEF Shape, Knows
<1> QED BY <1>1, <1>4, ReadingStep, DoneStep

LEMMA ListPermissionsStep ==
  ASSUME Inductive, NEW p \in Handler, ListPermissions(p)
  PROVE  Inductive'
<1> DEFINE w == proc[p]
           v(t, queue) == [w EXCEPT !.pc = "next", !.at = t, !.queue = queue]
           u(queue) == [w EXCEPT !.pc = "next", !.queue = queue]
<1>1. SettingOK' /\ UNCHANGED access
  BY SettingKept DEF ListPermissions
<1>2. w.pc = "listConnection" => w.res \in Resource
  BY DEF Inductive, HandlersOK, Shape
<1>3. w \in Work /\ now \in Instant /\ w.pc \in {"listAgent", "listConnection"}
  BY Times DEF ListPermissions, Inductive, TypeOK
<1>4. ASSUME NEW t PROVE Listed(w, t) \subseteq PermissionId
  <2>1. \A r \in Resource, s \in Scope : IdOf(r, s, ent[r][s]) \in PermissionId
    BY IdType DEF Inductive, TypeOK
  <2> QED BY <1>2, <1>3, <2>1 DEF Listed
<1>5. CASE Goto(p, v(now, Listed(w, now)))
  <2> DEFINE queue == Listed(w, now)
             x == [w EXCEPT !.pc = "next", !.at = now, !.queue = queue]
  <2>1. queue \subseteq PermissionId
    BY <1>4
  <2> HIDE DEF queue
  <2>2. x \in Work /\ x.pc = "next"
    BY <1>3, <2>1 DEF Work
  <2>3. Goto(p, x)
    BY <1>5 DEF queue
  <2> HIDE DEF x
  <2>4. Shape(x) /\ Knows(x, request, ent)
    BY <2>2 DEF Shape, Knows
  <2> QED BY <1>1, <2>3, <2>4, ReadingStep
<1>6. ASSUME NEW queue \in SUBSET Listed(w, w.at), Goto(p, u(queue))
      PROVE  Inductive'
  <2> DEFINE x == [w EXCEPT !.pc = "next", !.queue = queue]
  <2>1. queue \subseteq PermissionId
    BY <1>4
  <2>2. x \in Work /\ x.pc = "next"
    BY <1>3, <2>1 DEF Work
  <2>3. Goto(p, x)
    BY <1>6
  <2> HIDE DEF x
  <2>4. Shape(x) /\ Knows(x, request, ent)
    BY <2>2 DEF Shape, Knows
  <2> QED BY <1>1, <2>3, <2>4, ReadingStep
<1> QED BY <1>5, <1>6 DEF ListPermissions

LEMMA NextPermissionStep ==
  ASSUME Inductive, NEW p \in Handler, NextPermission(p)
  PROVE  Inductive'
<1> DEFINE w == proc[p]
           t == IF w.op \in {"agent", "narrow"} THEN w.at ELSE now
           u == [w EXCEPT !.pc = "endConnection"]
           v(k) == [w EXCEPT !.pc = "post", !.queue = @ \ {k}, !.current = k,
                             !.at = t, !.todo = LeasesOn(k, t),
                             !.listed = IF w.op = "agent" THEN {} ELSE LeasesOn(k, t)]
<1>1. SettingOK' /\ UNCHANGED access
  BY SettingKept DEF NextPermission
<1>2. w \in Work /\ t \in Instant
  BY Times DEF Inductive, TypeOK, Work
<1>3. CASE Done(p)
  BY <1>1, <1>3, DoneStep
<1>4. CASE Goto(p, u)
  <2>1. u \in Work /\ u.pc = "endConnection"
    BY <1>2 DEF Work
  <2> HIDE DEF u
  <2>2. Shape(u) /\ Knows(u, request, ent)
    BY <2>1 DEF Shape, Knows
  <2> QED BY <1>1, <1>4, <2>2, ReadingStep
<1>5. ASSUME NEW k \in w.queue, Goto(p, v(k))
      PROVE  Inductive'
  <2>1. k \in PermissionId
    BY <1>2 DEF Work
  <2> DEFINE todo == LeasesOn(k, t)
             listed == IF w.op = "agent" THEN {} ELSE LeasesOn(k, t)
             x == [w EXCEPT !.pc = "post", !.queue = @ \ {k}, !.current = k,
                            !.at = t, !.todo = todo, !.listed = listed]
  <2>2. todo \subseteq Lease /\ listed \subseteq Lease /\ v(k) = x
    BY ListedLeases
  <2> HIDE DEF todo, listed, t
  <2>3. x \in Work /\ x.pc = "post" /\ x.current = k
    BY <1>2, <2>1, <2>2 DEF Work
  <2>4. Shape(v(k)) /\ Knows(v(k), request, ent)
    <3> HIDE DEF x
    <3>1. Shape(x) /\ Knows(x, request, ent)
      BY <2>1, <2>3 DEF Shape, Knows
    <3> QED BY <2>2, <3>1
  <2> QED BY <1>1, <1>5, <2>4, ReadingStep
<1> QED BY <1>3, <1>4, <1>5 DEF NextPermission

LEMMA EndConnectionStep ==
  ASSUME Inductive, NEW p \in Handler, EndConnection(p)
  PROVE  Inductive'
<1>1. SettingOK' /\ UNCHANGED access
  BY DEF EndConnection, Inductive, TypeOK, SettingOK
<1> QED BY <1>1, DoneStep DEF EndConnection

LEMMA AbandonStep ==
  ASSUME Inductive, NEW p \in Handler,
         Abandon(p) \/ RefuseApproval(p) \/ RefuseGrant(p)
  PROVE  Inductive'
BY SettingKept, DoneStep DEF Abandon, RefuseApproval, RefuseGrant

LEMMA SurroundingsStep ==
  ASSUME Inductive,
         \/ Tick \/ SetAgentActive \/ \E b \in Host : EnrollHost(b)
         \/ \E r \in Resource :
              Connect(r) \/ RevokeProviderCredential(r) \/ SetResourceEnabled(r)
  PROVE  Inductive'
<1>1. CASE Tick
  <2>1. now' \in 0 .. MaxTime
    BY <1>1, Times DEF Tick, Inductive, TypeOK
  <2>2. SettingOK' /\ UNCHANGED access /\ UNCHANGED proc
    BY <1>1, <2>1 DEF Tick, Inductive, TypeOK, SettingOK
  <2> QED BY <2>2, SettingStep
<1>2. ASSUME NEW r \in Resource, Connect(r)
      PROVE  Inductive'
  <2>1. SettingOK' /\ UNCHANGED access /\ UNCHANGED proc
    BY <1>2 DEF Connect, Inductive, TypeOK, SettingOK
  <2> QED BY <2>1, SettingStep
<1>3. ASSUME NEW r \in Resource, SetResourceEnabled(r)
      PROVE  Inductive'
  <2>1. SettingOK' /\ UNCHANGED access /\ UNCHANGED proc
    BY <1>3 DEF SetResourceEnabled, Inductive, TypeOK, SettingOK
  <2> QED BY <2>1, SettingStep
<1>4. ASSUME NEW r \in Resource, RevokeProviderCredential(r)
      PROVE  Inductive'
  <2>1. SettingOK' /\ UNCHANGED access /\ UNCHANGED proc
    BY <1>4 DEF RevokeProviderCredential, Inductive, TypeOK, SettingOK
  <2> QED BY <2>1, SettingStep
<1>5. ASSUME NEW b \in Host, EnrollHost(b)
      PROVE  Inductive'
  <2>1. SettingOK' /\ UNCHANGED access /\ UNCHANGED proc
    BY <1>5 DEF EnrollHost, Inductive, TypeOK, SettingOK
  <2> QED BY <2>1, SettingStep
<1>6. CASE SetAgentActive
  <2>1. SettingOK' /\ UNCHANGED access /\ UNCHANGED proc
    BY <1>6 DEF SetAgentActive, Inductive, TypeOK, SettingOK
  <2> QED BY <2>1, SettingStep
<1> QED BY <1>1, <1>2, <1>3, <1>4, <1>5, <1>6

-----------------------------------------------------------------------------
(* Steps that write *)

\* No lease is issued, and none changes what it carries.
LeasesKept ==
  \A l \in Lease :
    /\ lease'[l].perms = lease[l].perms /\ lease'[l].req = lease[l].req
    /\ lease'[l].state # "none" => lease[l].state # "none"
    /\ lease'[l].state = "live" => lease[l].state = "live"

LEMMA LeasesStandFast ==
  ASSUME Inductive, RowsOnlyGrow, RequestsOnlyAdvance, LeasesKept,
         ent' \in [Resource -> [Scope -> Entitlement]]
  PROVE  LeasesOK' /\ OnceUsedOnce' /\ LeaseOfDecidedRequest'
<1>1. \A r \in Resource, s \in Scope :
         ent[r][s].gen \in Nat /\ ent'[r][s].gen \in Nat
  BY DEF Inductive, TypeOK, Entitlement
<1>2. \A l \in Lease : \A k \in lease[l].perms :
         k.res \in Resource /\ k.scope \in Scope /\ k.gen \in Nat
  BY DEF Inductive, TypeOK, TokenLease, PermissionId
<1>3. LeasesOK'
  <2>1. ASSUME NEW l \in Lease, NEW k \in lease'[l].perms
        PROVE  k.gen <= ent'[k.res][k.scope].gen
    <3>1. k \in lease[l].perms /\ k.res \in Resource /\ k.scope \in Scope /\ k.gen \in Nat
      BY <2>1, <1>2 DEF LeasesKept
    <3>2. k.gen <= ent[k.res][k.scope].gen
      BY <3>1 DEF Inductive, LeasesOK
    <3>3. ent[k.res][k.scope].gen <= ent'[k.res][k.scope].gen
      BY <3>1 DEF RowsOnlyGrow
    <3> QED BY <3>1, <3>2, <3>3, <1>1
  <2>2. \A l \in Lease : lease'[l].state # "none" => lease'[l].req \in Request
    BY DEF LeasesKept, Inductive, LeasesOK
  <2> QED BY <2>1, <2>2 DEF LeasesOK
<1>4. OnceUsedOnce'
  <2> SUFFICES ASSUME NEW r \in Resource, NEW s \in Scope, NEW l \in Lease,
                      ent'[r][s].mode = "once",
                      IdOf(r, s, ent'[r][s]) \in lease'[l].perms
               PROVE  /\ ent'[r][s].state # "open"
                      /\ \A m \in Lease :
                           IdOf(r, s, ent'[r][s]) \in lease'[m].perms => m = l
    BY DEF OnceUsedOnce, IdOf
  <2> DEFINE k == IdOf(r, s, ent'[r][s])
  <2>1. k \in lease[l].perms /\ k.res = r /\ k.scope = s /\ k.gen = ent'[r][s].gen
    BY DEF LeasesKept, IdOf
  <2>2. ent'[r][s].gen <= ent[r][s].gen
    BY <2>1 DEF Inductive, LeasesOK
  <2>3. ent[r][s].gen <= ent'[r][s].gen
    BY DEF RowsOnlyGrow
  <2>4. ent[r][s].gen = ent'[r][s].gen
    <3>1. ent[r][s].gen \in Nat /\ ent'[r][s].gen \in Nat
      BY <1>1
    <3>2. ASSUME NEW i \in Nat, NEW j \in Nat, i <= j, j <= i PROVE i = j
      BY <3>2
    <3> QED BY <2>2, <2>3, <3>1, <3>2
  <2>5. k = IdOf(r, s, ent[r][s])
    BY <2>4 DEF IdOf
  <2>6. ent[r][s].mode = "once"
    BY <2>4 DEF RowsOnlyGrow
  <2>7. ent[r][s].state # "open" /\ \A m \in Lease : k \in lease[m].perms => m = l
    BY <2>1, <2>5, <2>6 DEF Inductive, OnceUsedOnce
  <2>8. ent'[r][s].state # "open"
    BY <2>4, <2>7 DEF RowsOnlyGrow
  <2> QED BY <2>7, <2>8 DEF LeasesKept
<1>5. LeaseOfDecidedRequest'
  <2> SUFFICES ASSUME NEW l \in Lease
               PROVE  /\ lease'[l].state = "live" =>
                           request'[lease'[l].req].state = "consumed"
                      /\ lease'[l].state = "revoked" =>
                           request'[lease'[l].req].state \in {"consumed", "revoked"}
    BY DEF LeaseOfDecidedRequest
  <2>1. /\ lease'[l].req = lease[l].req
        /\ lease'[l].state = "live" => lease[l].state = "live"
        /\ lease'[l].state = "revoked" => lease[l].state # "none"
    BY DEF LeasesKept
  <2>2. lease[l].state \in {"none", "live", "revoked"}
    BY DEF Inductive, TypeOK, TokenLease
  <2>3. CASE lease'[l].state = "live"
    <3>1. lease[l].req \in Request /\ request[lease[l].req].state = "consumed"
      BY <2>1, <2>3 DEF Inductive, LeasesOK, LeaseOfDecidedRequest
    <3> QED BY <2>1, <2>3, <3>1 DEF RequestsOnlyAdvance
  <2>4. CASE lease'[l].state = "revoked"
    <3>1. /\ lease[l].req \in Request
          /\ request[lease[l].req].state \in {"consumed", "revoked"}
      BY <2>1, <2>2, <2>4 DEF Inductive, LeasesOK, LeaseOfDecidedRequest
    <3> QED BY <2>1, <2>4, <3>1 DEF RequestsOnlyAdvance
  <2> QED BY <2>3, <2>4
<1> QED BY <1>3, <1>4, <1>5

\* A step of a handler that writes rows and issues no lease.
LEMMA WritingStep ==
  ASSUME Inductive, UNCHANGED setting, NEW p \in Handler, NEW w,
         Goto(p, w), Shape(w), Knows(w, request', ent'),
         request' \in [Request -> AccessRequest], RequestsOK', RequestsOnlyAdvance,
         ent' \in [Resource -> [Scope -> Entitlement]], RowsOnlyGrow,
         lease' \in [Lease -> TokenLease], LeasesKept
  PROVE  Inductive'
<1>1. HandlersOK' /\ proc' \in [Handler -> Work]
  BY HandlersPreserved DEF Goto
<1>2. LeasesOK' /\ OnceUsedOnce' /\ LeaseOfDecidedRequest'
  BY LeasesStandFast
<1>3. TypeOK'
  BY <1>1, SettingKept DEF TypeOK, SettingOK
<1> QED BY <1>1, <1>2, <1>3 DEF Inductive

\* What a step that leaves requests, permissions or leases alone preserves.
LEMMA RequestsKept ==
  ASSUME Inductive, request' = request
  PROVE  request' \in [Request -> AccessRequest] /\ RequestsOK' /\ RequestsOnlyAdvance
BY DEF Inductive, TypeOK, RequestsOK, RequestsOnlyAdvance

LEMMA RowsKept ==
  ASSUME Inductive, ent' = ent
  PROVE  ent' \in [Resource -> [Scope -> Entitlement]] /\ RowsOnlyGrow
BY DEF Inductive, TypeOK, RowsOnlyGrow, Entitlement

LEMMA LeasesUntouched ==
  ASSUME Inductive, lease' = lease
  PROVE  lease' \in [Lease -> TokenLease] /\ LeasesKept
BY DEF Inductive, TypeOK, LeasesKept

LEMMA DecideShape ==
  ASSUME NEW q \in Request
  PROVE  LET u == [Idle EXCEPT !.pc = "decide", !.req = q,
                               !.mode = "persistent", !.retry = TRUE]
         IN Shape(u) /\ u.pc = "decide" /\ u.req = q
BY IdleShape, ZenonT(120) DEF Shape, Work, Idle, Mode

LEMMA InsertAccessRequestStep ==
  ASSUME Inductive, NEW p \in Handler, InsertAccessRequest(p)
  PROVE  Inductive'
<1> DEFINE w == proc[p]
<1>1. /\ UNCHANGED setting /\ ent' = ent /\ lease' = lease
      /\ w \in Work /\ w.req \in Request /\ w.res \in Resource
  BY DEF InsertAccessRequest, Inductive, HandlersOK, Shape
<1>2. CASE UNCHANGED request /\ Done(p)
  BY <1>1, <1>2, SettingKept, DoneStep DEF access
<1>3. ASSUME NEW state \in {"approved", "pending"},
             request[w.req].state = "none",
             request' = [request EXCEPT ![w.req] =
               [NoAccessRequest EXCEPT
                  !.state = state, !.res = w.res, !.linked = w.linked, !.scopes = w.scopes,
                  !.exp = Earlier(w.at + RequestTTL, Never)]],
             NEW v \in {Idle, [Idle EXCEPT !.pc = "decide", !.req = w.req,
                                 !.mode = "persistent", !.retry = TRUE]},
             Goto(p, v)
      PROVE  Inductive'
  <2>1. w.at \in Nat /\ RequestTTL \in Nat
    BY <1>1, Times, TimeAssumption DEF Work
  <2>2. Earlier(w.at + RequestTTL, Never) \in Instant
    BY <2>1, Times DEF Earlier, Instant
  <2> DEFINE new == [NoAccessRequest EXCEPT
                       !.state = state, !.res = w.res, !.linked = w.linked, !.scopes = w.scopes,
                       !.exp = Earlier(w.at + RequestTTL, Never)]
  <2>3. new \in AccessRequest /\ new.state = state /\ new.res = w.res
    BY <1>1, <2>2 DEF NoAccessRequest, AccessRequest, Work
  <2> HIDE DEF new
  <2>4. /\ request' \in [Request -> AccessRequest]
        /\ request'[w.req] = new
        /\ \A q \in Request : q # w.req => request'[q] = request[q]
    BY <1>1, <1>3, <2>3 DEF Inductive, TypeOK, new
  <2>5. RequestsOK' /\ RequestsOnlyAdvance
    BY <1>1, <1>3, <2>3, <2>4 DEF Inductive, RequestsOK, RequestsOnlyAdvance
  <2>6. /\ Shape(v)
        /\ v = Idle \/ (v.pc = "decide" /\ v.req = w.req)
    BY <1>1, <1>3, DecideShape, IdleShape, ZenonT(120)
  <2>7. Knows(v, request', ent')
    <3>1. CASE v = Idle
      BY <3>1, IdleShape
    <3>2. CASE v # Idle
      <4>1. v.pc = "decide" /\ v.req = w.req
        BY <2>6, <3>2
      <4>2. new.state # "none"
        BY <1>3, <2>3
      <4> QED BY <2>4, <4>1, <4>2 DEF Knows
    <3> QED BY <3>1, <3>2
  <2> QED BY <1>1, <1>3, <2>4, <2>5, <2>6, <2>7, RowsKept, LeasesUntouched, WritingStep
<1>4. \/ UNCHANGED request /\ Done(p)
      \/ \E state \in {"approved", "pending"},
            v \in {Idle, [Idle EXCEPT !.pc = "decide", !.req = w.req,
                            !.mode = "persistent", !.retry = TRUE]} :
           /\ request[w.req].state = "none"
           /\ request' = [request EXCEPT ![w.req] =
                [NoAccessRequest EXCEPT
                   !.state = state, !.res = w.res, !.linked = w.linked, !.scopes = w.scopes,
                   !.exp = Earlier(w.at + RequestTTL, Never)]]
           /\ Goto(p, v)
  BY DEF InsertAccessRequest, Done
<1> QED BY <1>2, <1>3, <1>4

\* What a denial and an approval write are access requests.
Decided(old, state, linked, allowed, denied) ==
  [old EXCEPT !.state = state, !.linked = linked, !.allowed = allowed, !.denied = denied]

Status == {"none", "pending", "denied", "approved", "consumed", "revoked"}

LEMMA DecidedType ==
  ASSUME NEW old \in AccessRequest, NEW state \in Status,
         NEW linked \in BOOLEAN, NEW allowed \in Nat, NEW denied \in Nat
  PROVE  /\ Decided(old, state, linked, allowed, denied) \in AccessRequest
         /\ Decided(old, state, linked, allowed, denied).state = state
BY DEF AccessRequest, Decided, Status

\* The fields of a request, and what incrementing its counts gives.
LEMMA RequestFields ==
  ASSUME NEW old \in AccessRequest
  PROVE  /\ old.state \in Status /\ "denied" \in Status /\ "approved" \in Status
         /\ "consumed" \in Status /\ old.linked \in BOOLEAN
         /\ old.allowed \in Nat /\ old.denied \in Nat
         /\ old.allowed + 1 \in Nat /\ old.denied + 1 \in Nat
<1>1. old.state \in Status /\ old.linked \in BOOLEAN /\ old.allowed \in Nat /\ old.denied \in Nat
  BY DEF AccessRequest, Status
<1> QED BY <1>1 DEF Status

\* A denial adds its audit row.
Denied(old) == [old EXCEPT !.state = "denied", !.denied = @ + 1]

LEMMA DeniedType ==
  ASSUME NEW old \in AccessRequest
  PROVE  Denied(old) \in AccessRequest /\ Denied(old).state = "denied"
<1>1. "denied" \in Status /\ old.linked \in BOOLEAN /\ old.allowed \in Nat /\ old.denied + 1 \in Nat
  BY RequestFields
<1>2. Denied(old) = Decided(old, "denied", old.linked, old.allowed, old.denied + 1)
  BY DEF AccessRequest, Denied, Decided
<1>3. \A allowed, denied \in Nat : Decided(old, "denied", old.linked, allowed, denied) \in AccessRequest
                                   /\ Decided(old, "denied", old.linked, allowed, denied).state = "denied"
  BY <1>1, DecidedType
<1> QED BY <1>1, <1>2, <1>3

\* A step that decides the request q, or leaves it as it is.
LEMMA DecisionWritten ==
  ASSUME Inductive, NEW q \in Request, NEW new \in AccessRequest,
         request' = [request EXCEPT ![q] = new], new.res = request[q].res,
         request[q].state # "none" => new.state # "none",
         request[q].state = "consumed" => new.state = "consumed",
         request[q].state = "revoked" <=> new.state = "revoked",
         new.state # "none" => request[q].state # "none"
  PROVE  /\ request' \in [Request -> AccessRequest]
         /\ RequestsOK' /\ RequestsOnlyAdvance
<1>1. request \in [Request -> AccessRequest]
  BY DEF Inductive, TypeOK
<1>2. /\ request'[q] = new
      /\ \A x \in Request : x # q => request'[x] = request[x]
  BY <1>1
<1>3. RequestsOnlyAdvance
  BY <1>2 DEF RequestsOnlyAdvance
<1>4. RequestsOK'
  BY <1>2 DEF RequestsOK, Inductive
<1> QED BY <1>1, <1>3, <1>4

LEMMA CommitDenialStep ==
  ASSUME Inductive, NEW p \in Handler, CommitDenial(p)
  PROVE  Inductive'
<1> DEFINE q == proc[p].req
<1>1. /\ UNCHANGED setting /\ ent' = ent /\ lease' = lease
      /\ Goto(p, Idle) /\ q \in Request
  BY DEF CommitDenial, Done, Inductive, HandlersOK, Shape
<1>2. /\ request' \in [Request -> AccessRequest]
      /\ RequestsOK' /\ RequestsOnlyAdvance
  <2>1. CASE request[q].state # "pending"
    <3>1. request' = request
      BY <2>1 DEF CommitDenial
    <3> QED BY <3>1, RequestsKept
  <2>2. CASE request[q].state = "pending"
    <3> DEFINE new == Denied(request[q])
    <3>1. request[q] \in AccessRequest
      BY <1>1 DEF Inductive, TypeOK
    <3>2. new \in AccessRequest /\ new.state = "denied"
      BY <3>1, DeniedType
    <3>3. new.res = request[q].res
      BY <3>1 DEF AccessRequest, Denied
    <3>5. request' = [request EXCEPT ![q] = new]
      BY <2>2 DEF CommitDenial, Denied
    <3> HIDE DEF new
    <3> QED BY <1>1, <2>2, <3>2, <3>3, <3>5, DecisionWritten
  <2> QED BY <2>1, <2>2
<1> QED BY <1>1, <1>2, IdleShape, RowsKept, LeasesUntouched, WritingStep

LEMMA StrengthenedType ==
  ASSUME NEW row \in Entitlement, NEW mode \in Mode, NEW exp \in Instant
  PROVE  /\ Strengthened(row, mode, exp) \in Entitlement
         /\ Strengthened(row, mode, exp).gen = row.gen
         /\ Strengthened(row, mode, exp).state = row.state
         /\ Strengthened(row, mode, exp).mode = mode
BY DEF Strengthened, Entitlement

LEMMA OpenRowType ==
  ASSUME NEW row \in Entitlement, NEW mode \in Mode, NEW exp \in Instant,
         NEW src \in Request \cup {None}
  PROVE  /\ OpenRow(row, mode, exp, src) \in Entitlement
         /\ OpenRow(row, mode, exp, src).gen = row.gen + 1
         /\ row.gen \in Nat
BY DEF OpenRow, Entitlement

\* How one row may change.
Grows(old, new) ==
  /\ old.gen <= new.gen
  /\ old.gen = new.gen /\ new.mode = "once" => old.mode = "once"
  /\ old.gen = new.gen /\ new.state = "open" => old.state = "open"

LEMMA GrowthOfARow ==
  ASSUME NEW old \in Entitlement
  PROVE  /\ Grows(old, old)
         /\ \A mode \in Mode, exp \in Instant, src \in Request \cup {None} :
              Grows(old, OpenRow(old, mode, exp, src))
         /\ \A mode \in Mode \ {"once"}, exp \in Instant :
              Grows(old, Strengthened(old, mode, exp))
         /\ \A state \in {"revoked", "consumed", "detached"} :
              /\ Grows(old, [old EXCEPT !.state = state])
              /\ [old EXCEPT !.state = state] \in Entitlement
<1>1. old.gen \in Nat
  BY DEF Entitlement
<1>2. Grows(old, old)
  BY <1>1 DEF Grows
<1>3. ASSUME NEW mode \in Mode, NEW exp \in Instant, NEW src \in Request \cup {None}
      PROVE  Grows(old, OpenRow(old, mode, exp, src))
  <2>1. OpenRow(old, mode, exp, src).gen = old.gen + 1
    BY OpenRowType
  <2>2. old.gen <= old.gen + 1 /\ old.gen # old.gen + 1
    BY <1>1
  <2> QED BY <2>1, <2>2 DEF Grows
<1>4. ASSUME NEW mode \in Mode \ {"once"}, NEW exp \in Instant
      PROVE  Grows(old, Strengthened(old, mode, exp))
  <2>1. /\ Strengthened(old, mode, exp).gen = old.gen
        /\ Strengthened(old, mode, exp).state = old.state
        /\ Strengthened(old, mode, exp).mode # "once"
    BY StrengthenedType
  <2>2. old.gen <= old.gen
    BY <1>1
  <2> QED BY <2>1, <2>2 DEF Grows
<1>5. ASSUME NEW state \in {"revoked", "consumed", "detached"}
      PROVE  /\ Grows(old, [old EXCEPT !.state = state])
             /\ [old EXCEPT !.state = state] \in Entitlement
  <2>1. /\ [old EXCEPT !.state = state].gen = old.gen
        /\ [old EXCEPT !.state = state].mode = old.mode
        /\ [old EXCEPT !.state = state].state # "open"
        /\ [old EXCEPT !.state = state] \in Entitlement
    BY DEF Entitlement
  <2>2. old.gen <= old.gen
    BY <1>1
  <2> QED BY <2>1, <2>2 DEF Grows
<1> QED BY <1>2, <1>3, <1>4, <1>5

\* A step that writes the rows of one resource.
LEMMA RowsWritten ==
  ASSUME Inductive, NEW r \in Resource, NEW rows \in [Scope -> Entitlement],
         ent' = [ent EXCEPT ![r] = rows], \A s \in Scope : Grows(ent[r][s], rows[s])
  PROVE  ent' \in [Resource -> [Scope -> Entitlement]] /\ RowsOnlyGrow
<1>1. ent \in [Resource -> [Scope -> Entitlement]]
  BY DEF Inductive, TypeOK
<1>2. /\ ent'[r] = rows
      /\ \A x \in Resource : x # r => ent'[x] = ent[x]
  BY <1>1
<1>3. ASSUME NEW x \in Resource, NEW s \in Scope
      PROVE  Grows(ent[x][s], ent'[x][s])
  BY <1>1, <1>2, GrowthOfARow
<1>4. RowsOnlyGrow
  BY <1>3 DEF RowsOnlyGrow, Grows
<1> QED BY <1>1, <1>4

\* A step that writes one row.
LEMMA RowWritten ==
  ASSUME Inductive, NEW r \in Resource, NEW s \in Scope, NEW new \in Entitlement,
         ent' = [ent EXCEPT ![r][s] = new], Grows(ent[r][s], new)
  PROVE  ent' \in [Resource -> [Scope -> Entitlement]] /\ RowsOnlyGrow
<1> DEFINE rows == [ent[r] EXCEPT ![s] = new]
<1>1. ent \in [Resource -> [Scope -> Entitlement]]
  BY DEF Inductive, TypeOK
<1>2. ent' = [ent EXCEPT ![r] = rows] /\ rows \in [Scope -> Entitlement]
  BY <1>1
<1>3. \A x \in Scope : Grows(ent[r][x], rows[x])
  BY <1>1, GrowthOfARow
<1> HIDE DEF rows
<1> QED BY <1>2, <1>3, RowsWritten

LEMMA CommitApprovalStep ==
  ASSUME Inductive, NEW p \in Handler, CommitApproval(p)
  PROVE  Inductive'
<1> DEFINE w == proc[p]
           q == w.req
           r == request[q].res
           decided == Decidable(w)
<1>1. /\ UNCHANGED setting /\ lease' = lease
      /\ w \in Work /\ q \in Request /\ request[q].state # "none"
  BY DEF CommitApproval, Inductive, HandlersOK, Shape, Knows
<1>2. r \in Resource /\ request[q] \in AccessRequest
  BY <1>1 DEF Inductive, RequestsOK, TypeOK
<1>3. ent' \in [Resource -> [Scope -> Entitlement]] /\ RowsOnlyGrow
  <2> DEFINE rows == [s \in Scope |->
               CASE s \in Insertable(w) -> OpenRow(ent[r][s], w.mode, w.exp, q)
                 [] s \in Extendable(w) -> Strengthened(ent[r][s], w.mode, w.exp)
                 [] OTHER -> ent[r][s]]
  <2>1. w.mode \in Mode /\ w.exp \in Instant
    BY <1>1 DEF Work
  <2>2. ASSUME NEW s \in Scope
        PROVE  rows[s] \in Entitlement /\ Grows(ent[r][s], rows[s])
    <3>1. ent[r][s] \in Entitlement
      BY <1>2 DEF Inductive, TypeOK
    <3>0. s \in Insertable(w) => s \notin Extendable(w)
      BY DEF Insertable, Attempted, Extendable
    <3>2. CASE s \in Insertable(w)
      <4>1. rows[s] = OpenRow(ent[r][s], w.mode, w.exp, q)
        BY <3>0, <3>2
      <4> DEFINE new == OpenRow(ent[r][s], w.mode, w.exp, q)
      <4>2. new \in Entitlement /\ Grows(ent[r][s], new)
        BY <1>1, <2>1, <3>1, OpenRowType, GrowthOfARow
      <4> HIDE DEF rows, new
      <4> QED BY <4>1, <4>2 DEF new
    <3>3. CASE s \notin Insertable(w) /\ s \in Extendable(w)
      <4>1. rows[s] = Strengthened(ent[r][s], w.mode, w.exp)
        BY <3>3
      <4>2. w.mode # "once"
        BY <3>3 DEF Extendable, Strengthens
      <4> DEFINE new == Strengthened(ent[r][s], w.mode, w.exp)
      <4>3. new \in Entitlement /\ Grows(ent[r][s], new)
        BY <2>1, <3>1, <4>2, StrengthenedType, GrowthOfARow
      <4> HIDE DEF rows, new
      <4> QED BY <4>1, <4>3 DEF new
    <3>4. CASE s \notin Insertable(w) /\ s \notin Extendable(w)
      <4>1. rows[s] = ent[r][s]
        BY <3>4
      <4> QED BY <3>1, <4>1, GrowthOfARow
    <3> QED BY <3>2, <3>3, <3>4
  <2>3. ent' = [ent EXCEPT ![r] = rows]
    BY DEF CommitApproval
  <2>4. rows \in [Scope -> Entitlement] /\ \A s \in Scope : Grows(ent[r][s], rows[s])
    BY <2>2
  <2> HIDE DEF rows
  <2> QED BY <1>2, <2>3, <2>4, RowsWritten
<1>4. /\ request' \in [Request -> AccessRequest]
      /\ RequestsOK' /\ RequestsOnlyAdvance
  <2>1. PICK state \in {"approved", request[q].state},
             linked \in BOOLEAN,
             allowed \in {request[q].allowed, request[q].allowed + 1} :
          /\ request' = [request EXCEPT ![q] =
               [request[q] EXCEPT !.state = state, !.linked = linked, !.allowed = allowed]]
          /\ state = request[q].state
             \/ (request[q].state = "pending" /\ state = "approved")
    <3> DEFINE state == IF decided THEN "approved" ELSE request[q].state
               linked == request[q].linked \/ (decided /\ r \in External)
               allowed == IF decided \/ request[q].state = "approved"
                          THEN request[q].allowed + 1 ELSE request[q].allowed
    <3>1. request' = [request EXCEPT ![q] =
                        [request[q] EXCEPT !.state = state, !.linked = linked, !.allowed = allowed]]
      BY DEF CommitApproval
    <3>2. decided => request[q].state = "pending"
      BY DEF Decidable
    <3>3. /\ state \in {"approved", request[q].state} /\ linked \in BOOLEAN
          /\ allowed \in {request[q].allowed, request[q].allowed + 1}
          /\ state = request[q].state
             \/ (request[q].state = "pending" /\ state = "approved")
      BY <3>2
    <3> HIDE DEF state, linked, allowed
    <3> QED BY <3>1, <3>3
  <2> DEFINE new == Decided(request[q], state, linked, allowed, request[q].denied)
  <2>2. new \in AccessRequest /\ new.res = request[q].res /\ new.state = state
    <3>1. state \in Status /\ allowed \in Nat /\ request[q].denied \in Nat
      BY <1>2, <2>1, RequestFields
    <3>2. new \in AccessRequest /\ new.state = state
      BY <1>2, <3>1, DecidedType
    <3>3. new.res = request[q].res
      BY <1>2 DEF AccessRequest, Decided
    <3> QED BY <3>2, <3>3
  <2>3. [request[q] EXCEPT !.state = state, !.linked = linked, !.allowed = allowed] = new
    BY <1>2 DEF AccessRequest, Decided
  <2>4. request' = [request EXCEPT ![q] = new]
    BY <2>1, <2>3
  <2> HIDE DEF new
  <2> QED BY <1>1, <2>1, <2>2, <2>4, DecisionWritten
<1>5. Goto(p, Idle) \/ Goto(p, Retry(w))
  BY DEF CommitApproval, Done
<1>6. Shape(Retry(w)) /\ Knows(Retry(w), request', ent')
  <2>1. Retry(w) \in Work /\ Retry(w).pc = "decide" /\ Retry(w).req = q
    BY <1>1, IdleShape, ZenonT(120) DEF Retry, Work, Idle
  <2>2. request'[q].state # "none"
    BY <1>1, <1>4 DEF RequestsOnlyAdvance
  <2> QED BY <1>1, <2>1, <2>2 DEF Shape, Knows
<1> QED BY <1>1, <1>3, <1>4, <1>5, <1>6, IdleShape, LeasesUntouched, WritingStep

LEMMA WritePermissionStep ==
  ASSUME Inductive, NEW p \in Handler, WritePermission(p)
  PROVE  Inductive'
<1> DEFINE w == proc[p]
           s == w.current.scope
           row == ent[w.res][s]
           opened == OpenRow(row, w.mode, w.exp, None)
           longer == Strengthened(row, w.mode, w.exp)
           next == [w EXCEPT !.pc = "grant", !.scopes = @ \ {s}, !.current = None,
                             !.seen[s] = NoEntitlement]
           reread == [w EXCEPT !.pc = "grantReread"]
<1>1. /\ UNCHANGED setting /\ request' = request /\ lease' = lease
      /\ w \in Work /\ w.res \in Resource /\ w.current \in PermissionId
  BY DEF WritePermission, Inductive, HandlersOK, Shape
<1>2. /\ s \in Scope /\ row \in Entitlement
      /\ w.mode \in Mode /\ w.exp \in Instant
  BY <1>1 DEF PermissionId, Work, Inductive, TypeOK
<1>3. ent' \in [Resource -> [Scope -> Entitlement]] /\ RowsOnlyGrow
  <2>1. CASE ent' = [ent EXCEPT ![w.res][s] = opened]
    <3>1. opened \in Entitlement /\ Grows(row, opened)
      BY <1>2, OpenRowType, GrowthOfARow
    <3> HIDE DEF opened
    <3> QED BY <1>1, <1>2, <2>1, <3>1, RowWritten
  <2>2. CASE ent' = [ent EXCEPT ![w.res][s] = longer] /\ w.mode # "once"
    <3>1. longer \in Entitlement /\ Grows(row, longer)
      BY <1>2, <2>2, StrengthenedType, GrowthOfARow
    <3> HIDE DEF longer
    <3> QED BY <1>1, <1>2, <2>2, <3>1, RowWritten
  <2>3. CASE ent' = ent
    BY <2>3, RowsKept
  <2> QED BY <2>1, <2>2, <2>3 DEF WritePermission, Extends, Strengthens
<1>4. Goto(p, next) \/ Goto(p, reread) \/ Goto(p, Idle)
  BY DEF WritePermission, Done
<1>5. Shape(next) /\ Knows(next, request', ent')
  <2>1. next \in Work /\ next.pc = "grant" /\ next.res = w.res
    BY <1>1, <1>2, NoEntitlementType DEF Work
  <2> HIDE DEF next
  <2> QED BY <1>1, <2>1 DEF Shape, Knows
<1>6. Shape(reread) /\ Knows(reread, request', ent')
  <2>1. reread \in Work /\ reread.pc = "grantReread" /\ reread.res = w.res
        /\ reread.current = w.current
    BY <1>1 DEF Work
  <2> HIDE DEF reread
  <2> QED BY <1>1, <2>1 DEF Shape, Knows
<1>7. PICK v : Goto(p, v) /\ Shape(v) /\ Knows(v, request', ent')
  BY <1>4, <1>5, <1>6, IdleShape
<1> QED BY <1>1, <1>3, <1>7, RequestsKept, LeasesUntouched, WritingStep

\* Marking leases as revoked issues none and changes what none carries.
LEMMA MarkRevokedKept ==
  ASSUME Inductive, NEW L, MarkRevoked(L)
  PROVE  lease' \in [Lease -> TokenLease] /\ LeasesKept
<1>1. lease \in [Lease -> TokenLease]
  BY DEF Inductive, TypeOK
<1>2. ASSUME NEW l \in Lease
      PROVE  /\ lease'[l] \in TokenLease
             /\ lease'[l].perms = lease[l].perms /\ lease'[l].req = lease[l].req
             /\ lease'[l].state # "none" => lease[l].state # "none"
             /\ lease'[l].state = "live" => lease[l].state = "live"
  <2>1. lease'[l] = lease[l]
        \/ (lease[l].state = "live" /\ lease'[l] = [lease[l] EXCEPT !.state = "revoked"])
    BY DEF MarkRevoked
  <2> QED BY <1>1, <2>1 DEF TokenLease
<1>3. lease' = [l \in Lease |-> lease'[l]]
  BY DEF MarkRevoked
<1> QED BY <1>2, <1>3 DEF LeasesKept

LEMMA PersistRevocationStep ==
  ASSUME Inductive, NEW p \in Handler, PersistRevocation(p)
  PROVE  Inductive'
<1> DEFINE w == proc[p]
           v == [w EXCEPT !.pc = "post", !.listed = {}]
<1>1. /\ UNCHANGED setting /\ request' = request /\ ent' = ent
      /\ MarkRevoked(w.listed) /\ Goto(p, v)
      /\ w \in Work /\ (w.op # "host" => w.current \in PermissionId)
  BY DEF PersistRevocation, Inductive, HandlersOK, Shape
<1>2. v \in Work /\ v.pc = "post" /\ v.op = w.op /\ v.current = w.current
  BY <1>1, ZenonT(60) DEF Work
<1> HIDE DEF v
<1>3. Shape(v) /\ Knows(v, request', ent')
  BY <1>1, <1>2 DEF Shape, Knows
<1> QED BY <1>1, <1>3, RequestsKept, RowsKept, MarkRevokedKept, WritingStep

LEMMA EndEntitlementStep ==
  ASSUME Inductive, NEW p \in Handler, EndEntitlement(p)
  PROVE  Inductive'
<1> DEFINE w == proc[p]
           k == w.current
           row == ent[k.res][k.scope]
           ended == [row EXCEPT !.state = "revoked"]
           v == [w EXCEPT !.pc = "next", !.current = None, !.listed = {}]
<1>1. /\ UNCHANGED setting /\ request' = request
      /\ MarkRevoked(w.listed) /\ (Goto(p, Idle) \/ Goto(p, v))
      /\ w \in Work /\ k \in PermissionId
  BY DEF EndEntitlement, Done, Inductive, HandlersOK, Shape
<1>2. k.res \in Resource /\ k.scope \in Scope /\ row \in Entitlement
  BY <1>1 DEF PermissionId, Inductive, TypeOK
<1>3. ent' \in [Resource -> [Scope -> Entitlement]] /\ RowsOnlyGrow
  <2>1. ended \in Entitlement /\ Grows(row, ended)
    BY <1>2, GrowthOfARow
  <2>2. ent' = ent \/ ent' = [ent EXCEPT ![k.res][k.scope] = ended]
    BY DEF EndEntitlement
  <2> HIDE DEF ended
  <2> QED BY <1>2, <2>1, <2>2, RowsKept, RowWritten
<1>4. Shape(v) /\ Knows(v, request', ent')
  <2>1. v \in Work /\ v.pc = "next"
    BY <1>1 DEF Work
  <2> HIDE DEF v
  <2> QED BY <2>1 DEF Shape, Knows
<1> HIDE DEF v
<1> QED BY <1>1, <1>3, <1>4, IdleShape, RequestsKept, MarkRevokedKept, WritingStep

LEMMA PostRevocationStep ==
  ASSUME Inductive, NEW p \in Handler, PostRevocation(p)
  PROVE  Inductive'
<1> DEFINE w == proc[p]
           end == [w EXCEPT !.pc = "end"]
           persist(l) == [w EXCEPT !.pc = "persist", !.todo = @ \ {l}, !.listed = {l}]
           again(l) == [w EXCEPT !.todo = @ \ {l}]
<1>1. /\ UNCHANGED setting /\ request' = request /\ ent' = ent /\ w.pc = "post"
      /\ w \in Work /\ (w.op # "host" => w.current \in PermissionId)
  BY DEF PostRevocation, Inductive, HandlersOK, Shape
<1>2. CASE lease' = lease /\ Done(p)
  BY <1>1, <1>2, IdleShape, RequestsKept, RowsKept, LeasesUntouched, WritingStep DEF Done
<1>3. CASE lease' = lease /\ w.op # "host" /\ Goto(p, end)
  <2>1. end \in Work /\ end.pc = "end" /\ end.current = w.current
    BY <1>1 DEF Work
  <2> HIDE DEF end
  <2>2. Shape(end) /\ Knows(end, request', ent')
    BY <1>1, <1>3, <2>1 DEF Shape, Knows
  <2> QED BY <1>1, <1>3, <2>2, RequestsKept, RowsKept, LeasesUntouched, WritingStep
<1>4. ASSUME NEW l \in w.todo, NEW v \in {persist(l), again(l)}, Goto(p, v),
             lease' = lease \/ lease' = [lease EXCEPT ![l].posted = TRUE]
      PROVE  Inductive'
  <2>1. l \in Lease
    BY <1>1 DEF Work
  <2>2. persist(l) \in Work /\ persist(l).pc = "persist" /\ persist(l).op = w.op
        /\ persist(l).current = w.current
    BY <1>1, <2>1, ZenonT(60) DEF Work
  <2>3. again(l) \in Work /\ again(l).pc = "post" /\ again(l).op = w.op
        /\ again(l).current = w.current
    BY <1>1, <2>1 DEF Work
  <2>4. /\ v \in Work /\ v.op = w.op /\ v.current = w.current
        /\ v.pc = "persist" \/ v.pc = "post"
    BY <1>4, <2>2, <2>3
  <2>5. Shape(v) /\ Knows(v, request', ent')
    BY <1>1, <2>4 DEF Shape, Knows
  <2>6. lease' \in [Lease -> TokenLease] /\ LeasesKept
    <3>1. CASE lease' = lease
      BY <3>1, LeasesUntouched
    <3>2. CASE lease' = [lease EXCEPT ![l].posted = TRUE]
      <4>1. lease \in [Lease -> TokenLease] /\ lease[l] \in TokenLease
        BY <2>1 DEF Inductive, TypeOK
      <4>2. [lease[l] EXCEPT !.posted = TRUE] \in TokenLease
        BY <4>1 DEF TokenLease
      <4>3. /\ [lease[l] EXCEPT !.posted = TRUE].perms = lease[l].perms
            /\ [lease[l] EXCEPT !.posted = TRUE].req = lease[l].req
            /\ [lease[l] EXCEPT !.posted = TRUE].state = lease[l].state
        BY <2>1, <4>1 DEF TokenLease
      <4>4. lease' = [lease EXCEPT ![l] = [lease[l] EXCEPT !.posted = TRUE]]
        BY <3>2
      <4> QED BY <2>1, <4>1, <4>2, <4>3, <4>4 DEF LeasesKept
    <3> QED BY <1>4, <3>1, <3>2
  <2> QED BY <1>1, <1>4, <2>5, <2>6, RequestsKept, RowsKept, WritingStep
<1>5. \/ lease' = lease /\ Done(p)
      \/ lease' = lease /\ w.op # "host" /\ Goto(p, end)
      \/ \E l \in w.todo : \E v \in {persist(l), again(l)} :
           Goto(p, v) /\ (lease' = lease \/ lease' = [lease EXCEPT ![l].posted = TRUE])
  BY DEF PostRevocation
<1> QED BY <1>2, <1>3, <1>4, <1>5

LEMMA EndWithdrawnStep ==
  ASSUME Inductive, NEW p \in Handler, EndWithdrawn(p)
  PROVE  Inductive'
<1> DEFINE w == proc[p]
           r == w.res
           rows == [s \in Scope |->
             IF IdOf(r, s, ent[r][s]) \in w.queue
             THEN [ent[r][s] EXCEPT !.state = "revoked"] ELSE ent[r][s]]
<1>1. /\ UNCHANGED setting /\ request' = request /\ lease' = lease
      /\ Goto(p, Idle) /\ r \in Resource /\ ent' = [ent EXCEPT ![r] = rows]
  BY DEF EndWithdrawn, Done, Inductive, HandlersOK, Shape
<1>2. ASSUME NEW s \in Scope
      PROVE  rows[s] \in Entitlement /\ Grows(ent[r][s], rows[s])
  <2>1. ent[r][s] \in Entitlement
    BY <1>1 DEF Inductive, TypeOK
  <2> QED BY <2>1, GrowthOfARow
<1>3. rows \in [Scope -> Entitlement] /\ \A s \in Scope : Grows(ent[r][s], rows[s])
  BY <1>2
<1>4. ent' \in [Resource -> [Scope -> Entitlement]] /\ RowsOnlyGrow
  <2> HIDE DEF rows
  <2> QED BY <1>1, <1>3, RowsWritten
<1> QED BY <1>1, <1>4, IdleShape, RequestsKept, LeasesUntouched, WritingStep

\* A step of the surroundings that writes rows.
LEMMA OuterStep ==
  ASSUME Inductive, SettingOK', UNCHANGED proc,
         request' \in [Request -> AccessRequest], RequestsOK', RequestsOnlyAdvance,
         ent' \in [Resource -> [Scope -> Entitlement]], RowsOnlyGrow,
         lease' \in [Lease -> TokenLease], LeasesKept
  PROVE  Inductive'
<1>1. HandlersOK'
  <2> SUFFICES ASSUME NEW p \in Handler
               PROVE  Shape(proc[p]) /\ Knows(proc[p], request', ent')
    BY DEF HandlersOK
  <2>1. Shape(proc[p]) /\ Knows(proc[p], request, ent) /\ TypeOK
    BY DEF Inductive, HandlersOK
  <2> QED BY <2>1, KnowsPreserved
<1>2. LeasesOK' /\ OnceUsedOnce' /\ LeaseOfDecidedRequest'
  BY LeasesStandFast
<1>3. TypeOK'
  BY DEF TypeOK, SettingOK, Inductive
<1> QED BY <1>1, <1>2, <1>3 DEF Inductive

LEMMA ResetConnectorStep ==
  ASSUME Inductive, NEW r \in Resource, ResetConnector(r)
  PROVE  Inductive'
<1>1. proc' = proc /\ lease' = lease /\ SettingOK'
  BY DEF ResetConnector, Inductive, TypeOK, SettingOK
<1>2. ASSUME NEW q \in Request
      PROVE  /\ request'[q] \in AccessRequest
             /\ request'[q].res = request[q].res
             /\ request'[q].state = request[q].state
  <2>1. request[q] \in AccessRequest
    BY DEF Inductive, TypeOK
  <2>2. request'[q] = request[q] \/ request'[q] = [request[q] EXCEPT !.linked = FALSE]
    BY DEF ResetConnector
  <2> QED BY <2>1, <2>2 DEF AccessRequest
<1>3. request' = [q \in Request |-> request'[q]]
  BY DEF ResetConnector
<1>4. request' \in [Request -> AccessRequest] /\ RequestsOK' /\ RequestsOnlyAdvance
  BY <1>2, <1>3 DEF Inductive, RequestsOK, RequestsOnlyAdvance
<1>5. ent' \in [Resource -> [Scope -> Entitlement]] /\ RowsOnlyGrow
  <2> DEFINE rows == [s \in Scope |->
               IF ent[r][s].state = "open" THEN [ent[r][s] EXCEPT !.state = "detached"]
               ELSE ent[r][s]]
  <2>1. ASSUME NEW s \in Scope
        PROVE  rows[s] \in Entitlement /\ Grows(ent[r][s], rows[s])
    <3>1. ent[r][s] \in Entitlement
      BY DEF Inductive, TypeOK
    <3> QED BY <3>1, GrowthOfARow
  <2>2. rows \in [Scope -> Entitlement] /\ \A s \in Scope : Grows(ent[r][s], rows[s])
    BY <2>1
  <2>3. ent' = [ent EXCEPT ![r] = rows]
    BY DEF ResetConnector
  <2> HIDE DEF rows
  <2> QED BY <2>2, <2>3, RowsWritten
<1> QED BY <1>1, <1>4, <1>5, LeasesUntouched, OuterStep

LEMMA EraseAccountStep ==
  ASSUME Inductive, EraseAccount
  PROVE  Inductive'
<1>1. proc' = proc /\ SettingOK' /\ MarkRevoked(Lease)
  BY DEF EraseAccount, RevokedHosts, Inductive, TypeOK, SettingOK
<1>2. ASSUME NEW q \in Request
      PROVE  /\ request'[q] \in AccessRequest
             /\ request'[q].res = request[q].res
             /\ request[q].state = "none" => request'[q].state = "none"
             /\ request[q].state # "none" => request'[q].state = "revoked"
  <2>1. request[q] \in AccessRequest
    BY DEF Inductive, TypeOK
  <2>2. request'[q] = IF request[q].state # "none"
                      THEN [request[q] EXCEPT !.state = "revoked"] ELSE request[q]
    BY DEF EraseAccount
  <2> QED BY <2>1, <2>2 DEF AccessRequest
<1>3. request' = [q \in Request |-> request'[q]]
  BY DEF EraseAccount
<1>4. lease' \in [Lease -> TokenLease] /\ LeasesKept
  BY <1>1, MarkRevokedKept
<1>5. \A l \in Lease : lease'[l].state # "live"
  <2>1. lease \in [Lease -> TokenLease]
    BY DEF Inductive, TypeOK
  <2> QED BY <1>1, <2>1 DEF MarkRevoked, TokenLease
<1>6. request' \in [Request -> AccessRequest] /\ RequestsOK' /\ RequestsOnlyAdvance
  BY <1>2, <1>3, <1>5 DEF Inductive, RequestsOK, RequestsOnlyAdvance
<1>7. ent' \in [Resource -> [Scope -> Entitlement]] /\ RowsOnlyGrow
  <2>1. ASSUME NEW r \in Resource, NEW s \in Scope
        PROVE  Ended(ent[r][s]) \in Entitlement /\ Grows(ent[r][s], Ended(ent[r][s]))
    <3>1. ent[r][s] \in Entitlement
      BY DEF Inductive, TypeOK
    <3> QED BY <3>1, GrowthOfARow DEF Ended
  <2>2. ent' = [r \in Resource |-> [s \in Scope |-> Ended(ent[r][s])]]
    BY DEF EraseAccount
  <2>3. ASSUME NEW r \in Resource, NEW s \in Scope
        PROVE  ent'[r][s] = Ended(ent[r][s])
    BY <2>2
  <2> QED BY <2>1, <2>2, <2>3 DEF RowsOnlyGrow, Grows
<1> QED BY <1>1, <1>4, <1>6, <1>7, OuterStep

LEMMA DeleteResourceStep ==
  ASSUME Inductive, NEW r \in Resource, DeleteResource(r)
  PROVE  Inductive'
<1>1. /\ proc' = proc /\ SettingOK'
      /\ MarkRevoked(LeasesOfResource(r))
  BY DEF DeleteResource, Inductive, TypeOK, SettingOK
<1>2. \A q \in Request : request[q] \in AccessRequest
  BY DEF Inductive, TypeOK
<1>3. /\ request' \in [Request -> AccessRequest]
      /\ \A q \in Request :
           /\ request'[q].res = request[q].res
           /\ request'[q].state = request[q].state
              \/ (request[q].state = "pending" /\ request'[q].state = "denied")
  <2>1. ASSUME NEW q \in Request
        PROVE  /\ request'[q] \in AccessRequest
               /\ request'[q].res = request[q].res
               /\ request'[q].state = request[q].state
                  \/ (request[q].state = "pending" /\ request'[q].state = "denied")
    <3>1. request'[q] = request[q]
          \/ (request[q].state = "pending"
                /\ request'[q] = [request[q] EXCEPT !.state = "denied"])
      BY DEF DeleteResource
    <3> QED BY <1>2, <3>1 DEF AccessRequest
  <2>2. request' = [q \in Request |-> request'[q]]
    BY DEF DeleteResource
  <2> QED BY <2>1, <2>2
<1>4. RequestsOK' /\ RequestsOnlyAdvance
  BY <1>3 DEF Inductive, RequestsOK, RequestsOnlyAdvance
<1>5. ent' \in [Resource -> [Scope -> Entitlement]] /\ RowsOnlyGrow
  <2> DEFINE rows == [s \in Scope |-> Ended(ent[r][s])]
  <2>1. ASSUME NEW s \in Scope
        PROVE  rows[s] \in Entitlement /\ Grows(ent[r][s], rows[s])
    <3>1. ent[r][s] \in Entitlement
      BY DEF Inductive, TypeOK
    <3> QED BY <3>1, GrowthOfARow DEF Ended
  <2>2. rows \in [Scope -> Entitlement] /\ \A s \in Scope : Grows(ent[r][s], rows[s])
    BY <2>1
  <2>3. ent' = [ent EXCEPT ![r] = rows]
    BY DEF DeleteResource
  <2> HIDE DEF rows
  <2> QED BY <2>2, <2>3, RowsWritten
<1>6. lease' \in [Lease -> TokenLease] /\ LeasesKept
  BY <1>1, MarkRevokedKept
<1> QED BY <1>1, <1>3, <1>4, <1>5, <1>6, OuterStep

-----------------------------------------------------------------------------
(* Issuing a lease *)

\* A request that answers a token request is approved or consumed, and becomes
\* consumed.
LEMMA ConsumedRequest ==
  ASSUME Inductive, NEW q \in Request, request[q].state \in {"approved", "consumed"},
         request' = [request EXCEPT
                       ![q].state = IF @ = "approved" THEN "consumed" ELSE @]
  PROVE  /\ request' \in [Request -> AccessRequest]
         /\ RequestsOK' /\ RequestsOnlyAdvance
         /\ request'[q].state = "consumed"
<1> DEFINE new == [request[q] EXCEPT !.state = "consumed"]
<1>1. request[q] \in AccessRequest /\ request \in [Request -> AccessRequest]
  BY DEF Inductive, TypeOK
<1>2. new \in AccessRequest /\ new.res = request[q].res /\ new.state = "consumed"
  BY <1>1 DEF AccessRequest
<1>3. request' = [request EXCEPT ![q] = new]
  BY <1>1 DEF AccessRequest
<1> HIDE DEF new
<1>4. /\ request' \in [Request -> AccessRequest]
      /\ RequestsOK' /\ RequestsOnlyAdvance
  BY <1>2, <1>3, DecisionWritten
<1> QED BY <1>1, <1>2, <1>3, <1>4

\* What the batch finds when it inserts the lease: every permission it read is
\* still the open row, and a once permission was read as one.
LEMMA ReadIsCurrent ==
  ASSUME Inductive, NEW p \in Handler, proc[p].pc = "issue", NEW t \in Instant,
         MayInsertLease(proc[p], t), NEW s \in Found(proc[p])
  PROVE  LET w == proc[p]
             row == ent[w.res][s]
         IN /\ s \in Scope /\ w.res \in Resource
            /\ row.state = "open" /\ row.gen = w.seen[s].gen
            /\ row.mode = "once" => w.seen[s].mode = "once"
<1> DEFINE w == proc[p]
<1>1. Shape(w) /\ Knows(w, request, ent) /\ w.seen[s].state = "open" /\ s \in Scope
  BY DEF Inductive, HandlersOK, Found
<1>2. w.res \in Resource
  BY <1>1 DEF Shape
<1>3. StillOpen(IdOf(w.res, s, w.seen[s]))
  BY DEF MayInsertLease
<1>4. ent[w.res][s].state = "open" /\ ent[w.res][s].gen = w.seen[s].gen
  BY <1>3 DEF StillOpen, IdOf
<1>5. ent[w.res][s].mode = "once" => w.seen[s].mode = "once"
  BY <1>1, <1>4 DEF Knows
<1> QED BY <1>1, <1>2, <1>4, <1>5

LEMMA IssueTokenLeaseStep ==
  ASSUME Inductive, NEW p \in Handler, IssueTokenLease(p)
  PROVE  Inductive'
<1> DEFINE w == proc[p]
           q == w.req
           r == w.res
           spent == {s \in Found(w) : w.seen[s].mode = "once"}
           perms == {IdOf(r, s, w.seen[s]) : s \in Found(w)}
           rows == [s \in Scope |->
                      IF s \in spent THEN [ent[r][s] EXCEPT !.state = "consumed"]
                      ELSE ent[r][s]]
           New(e) == [state |-> "live", req |-> q, host |-> w.host, exp |-> e,
                      perms |-> perms, posted |-> FALSE]
<1>1. /\ w.pc = "issue" /\ UNCHANGED setting /\ Done(p)
      /\ w \in Work /\ q \in Request /\ r \in Resource
  BY DEF IssueTokenLease, Inductive, HandlersOK, Shape
<1>2. CASE UNCHANGED access
  BY <1>1, <1>2, SettingKept, DoneStep
<1>3. ASSUME NEW t \in Instant, NEW e \in Instant, NEW l \in Lease,
             MayInsertLease(w, t), lease[l].state = "none",
             lease' = [lease EXCEPT ![l] = New(e)],
             request' = [request EXCEPT
                           ![q].state = IF @ = "approved" THEN "consumed" ELSE @],
             ent' = [ent EXCEPT ![r] = rows]
      PROVE  Inductive'
  <2>1. /\ request' \in [Request -> AccessRequest]
        /\ RequestsOK' /\ RequestsOnlyAdvance
        /\ request'[q].state = "consumed"
    <3>1. request[q].state \in {"approved", "consumed"}
      BY <1>3 DEF MayInsertLease
    <3> QED BY <1>1, <1>3, <3>1, ConsumedRequest
  <2>2. ent \in [Resource -> [Scope -> Entitlement]] /\ lease \in [Lease -> TokenLease]
    BY DEF Inductive, TypeOK
  <2>3. /\ rows \in [Scope -> Entitlement]
        /\ \A s \in Scope : Grows(ent[r][s], rows[s])
    <3>1. ASSUME NEW s \in Scope
          PROVE  rows[s] \in Entitlement /\ Grows(ent[r][s], rows[s])
      <4>1. ent[r][s] \in Entitlement
        BY <1>1, <2>2
      <4> QED BY <4>1, GrowthOfARow
    <3> QED BY <3>1
  <2>4. ent' \in [Resource -> [Scope -> Entitlement]] /\ RowsOnlyGrow
    <3> HIDE DEF rows
    <3> QED BY <1>1, <1>3, <2>3, RowsWritten
  <2>5. \A s \in Found(w) :
          /\ s \in Scope
          /\ ent[r][s].state = "open" /\ ent[r][s].gen = w.seen[s].gen
          /\ ent[r][s].mode = "once" => s \in spent
    BY <1>1, <1>3, ReadIsCurrent
  \* What the identifiers the lease carries stand for.
  <2>6. ASSUME NEW k \in perms
        PROVE  /\ k.res = r /\ k.scope \in Found(w) /\ k \in PermissionId
               /\ k.gen = ent[r][k.scope].gen
    <3>1. PICK s \in Found(w) : k = IdOf(r, s, w.seen[s])
      OBVIOUS
    <3>2. s \in Scope /\ w.seen[s] \in Entitlement
      BY <1>1, <2>5 DEF Work
    <3> QED BY <1>1, <2>5, <3>1, <3>2, IdType DEF IdOf
  <2>7. New(e) \in TokenLease
    <3>1. perms \subseteq PermissionId
      BY <2>6
    <3>2. w.host \in Host \cup {None}
      BY <1>1 DEF Work
    <3> HIDE DEF perms
    <3> QED BY <1>1, <3>1, <3>2 DEF TokenLease
  <2>8. /\ lease' \in [Lease -> TokenLease]
        /\ lease'[l] = New(e)
        /\ \A m \in Lease : m # l => lease'[m] = lease[m]
    <3> DEFINE new == New(e)
    <3>1. new \in TokenLease /\ lease' = [lease EXCEPT ![l] = new]
      BY <1>3, <2>7
    <3> HIDE DEF new
    <3>2. /\ lease' \in [Lease -> TokenLease] /\ lease'[l] = new
          /\ \A m \in Lease : m # l => lease'[m] = lease[m]
      BY <2>2, <3>1
    <3> QED BY <3>2 DEF new
  <2>9. lease'[l].perms = perms /\ lease'[l].req = q
    BY <2>8
  <2>10. LeasesOK'
    <3>1. \A m \in Lease : lease'[m].state # "none" => lease'[m].req \in Request
      BY <1>1, <2>8, <2>9 DEF Inductive, LeasesOK
    <3>2. ASSUME NEW m \in Lease, NEW k \in lease'[m].perms
          PROVE  k.gen <= ent'[k.res][k.scope].gen
      <4>1. k.res \in Resource /\ k.scope \in Scope /\ k.gen \in Nat
            /\ k.gen <= ent[k.res][k.scope].gen
        <5>1. CASE m = l
          <6>1. k \in perms
            BY <2>9, <3>2, <5>1
          <6>2. k.res = r /\ k.scope \in Scope /\ k.gen = ent[r][k.scope].gen
            BY <2>5, <2>6, <6>1
          <6>3. ent[r][k.scope].gen \in Nat
            BY <1>1, <2>2, <6>2 DEF Entitlement
          <6>4. k.gen <= ent[r][k.scope].gen
            BY <6>2, <6>3
          <6> QED BY <1>1, <6>2, <6>3, <6>4
        <5>2. CASE m # l
          <6>1. k \in lease[m].perms
            BY <2>8, <3>2, <5>2
          <6>2. k \in PermissionId
            BY <2>2, <6>1 DEF TokenLease
          <6>3. k.gen <= ent[k.res][k.scope].gen
            BY <6>1 DEF Inductive, LeasesOK
          <6> QED BY <6>2, <6>3 DEF PermissionId
        <5> QED BY <5>1, <5>2
      <4>2. ent[k.res][k.scope].gen <= ent'[k.res][k.scope].gen
        BY <2>4, <4>1 DEF RowsOnlyGrow
      <4>3. ent[k.res][k.scope].gen \in Nat /\ ent'[k.res][k.scope].gen \in Nat
        BY <2>2, <2>4, <4>1 DEF Entitlement
      <4> QED BY <4>1, <4>2, <4>3
    <3> QED BY <3>1, <3>2 DEF LeasesOK
  <2>11. LeaseOfDecidedRequest'
    <3> SUFFICES ASSUME NEW m \in Lease
                 PROVE  /\ lease'[m].state = "live" =>
                             request'[lease'[m].req].state = "consumed"
                        /\ lease'[m].state = "revoked" =>
                             request'[lease'[m].req].state \in {"consumed", "revoked"}
      BY DEF LeaseOfDecidedRequest
    <3>1. CASE m = l
      BY <2>1, <2>9, <3>1
    <3>2. CASE m # l
      <4>1. lease'[m] = lease[m]
        BY <2>8, <3>2
      <4>2. lease[m].state \in {"live", "revoked"} => lease[m].req \in Request
        BY DEF Inductive, LeasesOK
      <4>3. /\ lease[m].state = "live" => request[lease[m].req].state = "consumed"
            /\ lease[m].state = "revoked" =>
                 request[lease[m].req].state \in {"consumed", "revoked"}
        BY DEF Inductive, LeaseOfDecidedRequest
      <4>4. lease'[l].state = "live"
        BY <2>8
      <4> QED BY <2>1, <4>1, <4>2, <4>3, <4>4 DEF RequestsOnlyAdvance
    <3> QED BY <3>1, <3>2
  <2>12. OnceUsedOnce'
    <3> SUFFICES ASSUME NEW x \in Resource, NEW s \in Scope, NEW n \in Lease,
                        ent'[x][s].mode = "once",
                        IdOf(x, s, ent'[x][s]) \in lease'[n].perms
                 PROVE  /\ ent'[x][s].state # "open"
                        /\ \A m \in Lease :
                             IdOf(x, s, ent'[x][s]) \in lease'[m].perms => m = n
      BY DEF OnceUsedOnce, IdOf
    <3> DEFINE k == IdOf(x, s, ent'[x][s])
    \* The batch leaves the identity and the mode of every row as they are.
    <3>1. /\ ent'[x][s].gen = ent[x][s].gen /\ ent'[x][s].mode = ent[x][s].mode
          /\ ent'[x][s].state = ent[x][s].state \/ ent'[x][s].state = "consumed"
      <4>1. CASE x # r
        <5>1. ent'[x] = ent[x]
          BY <1>1, <1>3, <2>2, <4>1
        <5> QED BY <5>1
      <4>2. CASE x = r
        <5>1. ent'[x][s] = rows[s]
          <6> HIDE DEF rows
          <6> QED BY <1>1, <1>3, <2>2, <4>2
        <5>2. ent[x][s] \in Entitlement
          BY <2>2
        <5>3. rows[s] = ent[x][s] \/ rows[s] = [ent[x][s] EXCEPT !.state = "consumed"]
          BY <4>2
        <5> QED BY <5>1, <5>2, <5>3 DEF Entitlement
      <4> QED BY <4>1, <4>2
    <3>2. k = IdOf(x, s, ent[x][s]) /\ ent[x][s].mode = "once"
      BY <3>1 DEF IdOf
    <3>3. k.res = x /\ k.scope = s
      BY DEF IdOf
    <3>4. \A m \in Lease : k \in lease[m].perms =>
             ent[x][s].state # "open" /\ \A i \in Lease : k \in lease[i].perms => i = m
      BY <3>2 DEF Inductive, OnceUsedOnce
    <3>5. CASE k \in perms
      <4>1. x = r /\ s \in Found(w) /\ ent[x][s].state = "open" /\ s \in spent
        BY <2>5, <2>6, <3>2, <3>3, <3>5
      <4>2. ent'[x][s].state = "consumed"
        <5>1. ent'[x][s] = rows[s]
          <6> HIDE DEF rows
          <6> QED BY <1>1, <1>3, <2>2, <4>1
        <5>2. ent[x][s] \in Entitlement
          BY <2>2
        <5>3. rows[s] = [ent[x][s] EXCEPT !.state = "consumed"]
          BY <4>1
        <5> QED BY <5>1, <5>2, <5>3 DEF Entitlement
      <4>3. \A m \in Lease : k \in lease'[m].perms => m = l
        BY <2>8, <3>4, <4>1
      <4> QED BY <4>2, <4>3
    <3>6. CASE k \notin perms
      <4>1. \A m \in Lease : k \in lease'[m].perms => m # l /\ k \in lease[m].perms
        BY <2>8, <2>9, <3>6
      <4>2. /\ ent[x][s].state # "open"
            /\ \A m \in Lease : k \in lease[m].perms => m = n
        BY <3>4, <4>1
      <4>3. ent'[x][s].state # "open"
        BY <3>1, <4>2
      <4> QED BY <4>1, <4>2, <4>3
    <3> QED BY <3>5, <3>6
  <2>13. HandlersOK' /\ proc' \in [Handler -> Work]
    <3>1. Shape(Idle) /\ Knows(Idle, request', ent') /\ proc' = [proc EXCEPT ![p] = Idle]
      BY <1>1, IdleShape DEF Done, Goto
    <3> QED BY <2>1, <2>4, <3>1, HandlersPreserved
  <2>14. TypeOK'
    BY <1>1, <2>1, <2>4, <2>8, <2>13, SettingKept DEF TypeOK, SettingOK
  <2> QED BY <2>1, <2>10, <2>11, <2>12, <2>13, <2>14 DEF Inductive
<1>4. \/ UNCHANGED access
      \/ \E t, e \in Instant, l \in Lease :
           /\ MayInsertLease(w, t) /\ lease[l].state = "none"
           /\ lease' = [lease EXCEPT ![l] = New(e)]
           /\ request' = [request EXCEPT
                            ![q].state = IF @ = "approved" THEN "consumed" ELSE @]
           /\ ent' = [ent EXCEPT ![r] = rows]
  BY DEF IssueTokenLease
<1> QED BY <1>2, <1>3, <1>4

-----------------------------------------------------------------------------
(* The invariant *)

LEMMA InitInductive == Init => Inductive
<1> SUFFICES ASSUME Init PROVE Inductive
  OBVIOUS
<1>1. NoAccessRequest \in AccessRequest /\ NoLease \in TokenLease
  BY Times DEF NoAccessRequest, AccessRequest, NoLease, TokenLease
<1>2. TypeOK
  <2>1. now \in 0 .. MaxTime
    BY Times DEF Init
  <2> QED BY <1>1, <2>1, NoEntitlementType, IdleShape DEF Init, TypeOK
<1>3. HandlersOK
  BY IdleShape DEF Init, HandlersOK
<1>4. RequestsOK /\ LeasesOK /\ OnceUsedOnce /\ LeaseOfDecidedRequest
  BY DEF Init, RequestsOK, LeasesOK, OnceUsedOnce, LeaseOfDecidedRequest,
         NoAccessRequest, NoLease
<1> QED BY <1>2, <1>3, <1>4 DEF Inductive

LEMMA ContinueStep ==
  ASSUME Inductive, NEW p \in Handler, Continue(p)
  PROVE  Inductive'
<1>1. CASE InsertAccessRequest(p) \/ DecideAgain(p) \/ CommitDenial(p) \/ CommitApproval(p)
  BY <1>1, InsertAccessRequestStep, DecideAgainStep, CommitDenialStep, CommitApprovalStep
<1>2. CASE FindEquivalent(p) \/ WritePermission(p) \/ RereadEquivalent(p)
  BY <1>2, FindEquivalentStep, WritePermissionStep, RereadEquivalentStep
<1>3. CASE IssueTokenLease(p)
  BY <1>3, IssueTokenLeaseStep
<1>4. CASE ListHostLeases(p) \/ PostProvider(p) \/ ListPermissions(p) \/ NextPermission(p)
  BY <1>4, ListHostLeasesStep, PostProviderStep, ListPermissionsStep, NextPermissionStep
<1>5. CASE PostRevocation(p) \/ PersistRevocation(p)
  BY <1>5, PostRevocationStep, PersistRevocationStep
<1>6. CASE EndEntitlement(p) \/ EndConnection(p) \/ EndWithdrawn(p)
  BY <1>6, EndEntitlementStep, EndConnectionStep, EndWithdrawnStep
<1>7. CASE RefuseApproval(p) \/ RefuseGrant(p)
  BY <1>7, AbandonStep
<1> QED BY <1>1, <1>2, <1>3, <1>4, <1>5, <1>6, <1>7 DEF Continue

LEMMA BeginStep ==
  ASSUME Inductive, NEW p \in Handler,
         Ask(p) \/ Decide(p) \/ Grant(p) \/ Issue(p) \/ Revoke(p) \/ Remove(p)
  PROVE  Inductive'
<1>1. CASE Ask(p)
  BY <1>1, CreateAgentAccessRequestStep DEF Ask
<1>2. CASE Decide(p)
  BY <1>2, DenyAgentAccessRequestStep, ApproveAgentAccessRequestStep DEF Decide
<1>3. CASE Grant(p)
  BY <1>3, CreateAgentPermissionStep DEF Grant
<1>4. CASE Issue(p)
  BY <1>4, IssueTargetAccessTokenStep DEF Issue
<1>5. CASE Revoke(p)
  BY <1>5, RevokeAgentPermissionStep DEF Revoke
<1>6. CASE Remove(p)
  BY <1>6, RemoveAgentStep, RevokeAgentIdentityHostStep, RevokeResourceConnectionStep,
     ReconnectStep, WithdrawScopesStep DEF Remove
<1> QED BY <1>1, <1>2, <1>3, <1>4, <1>5, <1>6

LEMMA NextInductive == Inductive /\ [Next]_vars => Inductive'
<1> SUFFICES ASSUME Inductive, [Next]_vars PROVE Inductive'
  OBVIOUS
<1>1. CASE Environment
  BY <1>1, SurroundingsStep, DeleteResourceStep, ResetConnectorStep, EraseAccountStep
     DEF Environment
<1>2. ASSUME NEW p \in Handler,
             Ask(p) \/ Decide(p) \/ Grant(p) \/ Issue(p) \/ Revoke(p) \/ Remove(p)
      PROVE  Inductive'
  BY <1>2, BeginStep
<1>3. ASSUME NEW p \in Handler, Continue(p) \/ Abandon(p)
      PROVE  Inductive'
  BY <1>3, ContinueStep, AbandonStep
<1>4. CASE UNCHANGED vars
  <2>1. UNCHANGED access /\ UNCHANGED setting /\ UNCHANGED proc
    BY <1>4 DEF vars, access, setting
  <2> QED BY <2>1, SettingKept, SettingStep
<1> QED BY <1>1, <1>2, <1>3, <1>4 DEF Next

\* Every reachable state satisfies the inductive invariant.
THEOREM InductiveInvariant == Spec => []Inductive
BY InitInductive, NextInductive, PTL DEF Spec

\* The rows and the memory of every handler stay of their types (the tables'
\* columns and the records the handlers in usecases/external-resources.ts hold).
THEOREM TypeCorrect == Spec => []TypeOK
<1>1. Inductive => TypeOK
  BY DEF Inductive
<1> QED BY <1>1, InductiveInvariant, PTL

\* For any number of concurrent invocations, a once permission gives at most one
\* token lease: issueTokenLeaseWithAudit re-checks the rows it read, and no
\* update turns a row into a once permission.
THEOREM OnceUsedOnceHolds == Spec => []OnceUsedOnce
<1>1. Inductive => OnceUsedOnce
  BY DEF Inductive
<1> QED BY <1>1, InductiveInvariant, PTL

\* No lease outlives the decision it rests on: the request of a live one is
\* consumed, and that of a revoked one is consumed still or was revoked with the
\* account (issueTokenLeaseWithAudit, decideAccessRequestWithAudit, erase).
THEOREM LeaseOfDecidedRequestHolds == Spec => []LeaseOfDecidedRequest
<1>1. Inductive => LeaseOfDecidedRequest
  BY DEF Inductive
<1> QED BY <1>1, InductiveInvariant, PTL

-----------------------------------------------------------------------------
(* Decisions are final *)

\* What a step other than the erasure may do to the decision of one request.
Final(old, new) ==
  new # old =>
    /\ old \in {"none", "pending", "approved"} /\ new # "revoked"
    /\ old = "approved" => new = "consumed"

LEMMA ContinueFinal ==
  ASSUME Inductive, NEW p \in Handler, Continue(p), NEW q \in Request
  PROVE  Final(request[q].state, request'[q].state)
<1> DEFINE w == proc[p]
<1>1. request \in [Request -> AccessRequest]
  BY DEF Inductive, TypeOK
<1>2. CASE request' = request
  BY <1>2 DEF Final
<1>3. CASE InsertAccessRequest(p)
  <2>1. PICK new : \/ request' = request
                   \/ /\ request' = [request EXCEPT ![w.req] = new]
                      /\ request[w.req].state = "none" /\ new.state # "revoked"
    <3> DEFINE new == [NoAccessRequest EXCEPT
                 !.state = IF w.pc = "insertApproved" THEN "approved" ELSE "pending",
                 !.res = w.res, !.linked = w.linked, !.scopes = w.scopes,
                 !.exp = Earlier(w.at + RequestTTL, Never)]
    <3>1. new.state # "revoked"
      BY DEF NoAccessRequest
    <3>2. \/ request' = request
          \/ request' = [request EXCEPT ![w.req] = new] /\ request[w.req].state = "none"
      BY <1>3 DEF InsertAccessRequest
    <3> HIDE DEF new
    <3> QED BY <3>1, <3>2
  <2>2. \/ request'[q] = request[q]
        \/ request[q].state = "none" /\ request'[q].state # "revoked"
    BY <1>1, <2>1
  <2> QED BY <2>2 DEF Final
<1>4. CASE CommitDenial(p)
  <2>1. \/ request' = request
        \/ request' = [request EXCEPT ![w.req] = Denied(request[w.req])]
           /\ request[w.req].state = "pending"
    BY <1>4 DEF CommitDenial, Denied
  <2>2. Denied(request[q]).state = "denied"
    BY <1>1, DeniedType
  <2>3. \/ request'[q] = request[q]
        \/ request[q].state = "pending" /\ request'[q].state = "denied"
    BY <1>1, <2>1, <2>2
  <2> QED BY <2>3 DEF Final
<1>5. CASE CommitApproval(p)
  <2>1. CASE request[w.req].state = "pending"
    <3> DEFINE x == w.req
               state == IF Decidable(w) THEN "approved" ELSE request[x].state
               linked == request[x].linked \/ (Decidable(w) /\ request[x].res \in External)
               allowed == IF Decidable(w) \/ request[x].state = "approved"
                          THEN request[x].allowed + 1 ELSE request[x].allowed
    <3>1. request' = [request EXCEPT ![x] =
            [request[x] EXCEPT !.state = state, !.linked = linked, !.allowed = allowed]]
      BY <1>5 DEF CommitApproval
    <3>2. state \in {"approved", request[x].state}
      OBVIOUS
    <3> HIDE DEF x, state, linked, allowed
    <3>3. q # x => request'[q] = request[q]
      BY <1>1, <3>1
    <3>4. q = x => request'[q].state \in {"approved", request[q].state}
      BY <1>1, <3>1, <3>2 DEF AccessRequest
    <3> QED BY <2>1, <3>3, <3>4 DEF Final, x
  <2>2. CASE request[w.req].state # "pending"
    <3>1. ~Decidable(w)
      BY <2>2 DEF Decidable
    <3> DEFINE x == w.req
               told == request[x].state = "approved"
    <3>2. request' = [request EXCEPT
            ![x].state = IF Decidable(w) THEN "approved" ELSE @,
            ![x].linked = @ \/ (Decidable(w) /\ request[x].res \in External),
            ![x].allowed = IF Decidable(w) \/ told THEN @ + 1 ELSE @]
      BY <1>5 DEF CommitApproval
    <3> HIDE DEF x
    <3>3. q # x => request'[q] = request[q]
      BY <1>1, <3>2
    <3>4. q = x => request'[q].state = request[q].state
      BY <1>1, <3>1, <3>2 DEF AccessRequest
    <3> QED BY <3>3, <3>4 DEF Final
  <2> QED BY <2>1, <2>2
<1>6. CASE IssueTokenLease(p)
  <2>1. \/ request' = request
        \/ request' = [request EXCEPT
             ![w.req].state = IF @ = "approved" THEN "consumed" ELSE @]
    BY <1>6 DEF IssueTokenLease, access
  <2>2. request'[q].state = request[q].state
        \/ (request[q].state = "approved" /\ request'[q].state = "consumed")
    BY <1>1, <2>1 DEF AccessRequest
  <2> QED BY <2>2 DEF Final
<1>7. \/ request' = request
      \/ InsertAccessRequest(p) \/ CommitDenial(p) \/ CommitApproval(p) \/ IssueTokenLease(p)
  <2>1. CASE \/ DecideAgain(p) \/ FindEquivalent(p) \/ WritePermission(p)
             \/ RereadEquivalent(p) \/ RefuseApproval(p) \/ RefuseGrant(p)
    BY <2>1 DEF DecideAgain, FindEquivalent, WritePermission, RereadEquivalent,
                RefuseApproval, RefuseGrant, access
  <2>2. CASE ListHostLeases(p) \/ PostProvider(p) \/ ListPermissions(p) \/ NextPermission(p)
    <3>1. (ListHostLeases(p) \/ PostProvider(p)) => UNCHANGED access
      BY DEF ListHostLeases, PostProvider
    <3>2. ListPermissions(p) => UNCHANGED access
      BY DEF ListPermissions
    <3>3. NextPermission(p) => UNCHANGED access
      BY DEF NextPermission
    <3> QED BY <2>2, <3>1, <3>2, <3>3 DEF access
  <2>3. CASE \/ PostRevocation(p) \/ PersistRevocation(p) \/ EndEntitlement(p)
             \/ EndConnection(p) \/ EndWithdrawn(p)
    BY <2>3 DEF PostRevocation, PersistRevocation, EndEntitlement, EndConnection,
                EndWithdrawn, access
  <2> QED BY <2>1, <2>2, <2>3 DEF Continue
<1> QED BY <1>2, <1>3, <1>4, <1>5, <1>6, <1>7

LEMMA NextFinal ==
  ASSUME Inductive, [Next]_vars, ~EraseAccount, NEW q \in Request
  PROVE  Final(request[q].state, request'[q].state)
<1>1. CASE request'[q].state = request[q].state
  BY <1>1 DEF Final
<1>2. ASSUME NEW r \in Resource, DeleteResource(r)
      PROVE  Final(request[q].state, request'[q].state)
  <2>1. request[q] \in AccessRequest
    BY DEF Inductive, TypeOK
  <2>2. \/ request'[q] = request[q]
        \/ /\ request[q].state = "pending"
           /\ request'[q] = [request[q] EXCEPT !.state = "denied"]
    BY <1>2 DEF DeleteResource
  <2> QED BY <2>1, <2>2 DEF Final, AccessRequest
<1>3. ASSUME NEW r \in Resource, ResetConnector(r)
      PROVE  request'[q].state = request[q].state
  <2>1. request[q] \in AccessRequest
    BY DEF Inductive, TypeOK
  <2>2. request'[q] = request[q] \/ request'[q] = [request[q] EXCEPT !.linked = FALSE]
    BY <1>3 DEF ResetConnector
  <2> QED BY <2>1, <2>2 DEF AccessRequest
<1>4. CASE Environment
  <2>1. \/ request' = request
        \/ \E r \in Resource : DeleteResource(r) \/ ResetConnector(r)
    BY <1>4 DEF Environment, Tick, Connect, EnrollHost, SetAgentActive,
                RevokeProviderCredential, SetResourceEnabled, access
  <2> QED BY <1>1, <1>2, <1>3, <2>1
<1>5. ASSUME NEW p \in Handler,
             \/ Ask(p) \/ Decide(p) \/ Grant(p) \/ Issue(p) \/ Revoke(p)
             \/ Remove(p) \/ Abandon(p)
      PROVE  request' = request
  BY <1>5 DEF Ask, Decide, Grant, Issue, Revoke, Remove, Abandon, access,
     CreateAgentAccessRequest, DenyAgentAccessRequest, ApproveAgentAccessRequest,
     CreateAgentPermission, IssueTargetAccessToken, RevokeAgentPermission, RemoveAgent,
     RevokeAgentIdentityHost, RevokeResourceConnection, Reconnect, WithdrawScopes
<1>6. ASSUME NEW p \in Handler, Continue(p)
      PROVE  Final(request[q].state, request'[q].state)
  BY <1>6, ContinueFinal
<1>7. CASE UNCHANGED vars
  BY <1>1, <1>7 DEF vars
<1> QED BY <1>1, <1>4, <1>5, <1>6, <1>7 DEF Next

\* No interleaving of decisions, retries, deletions of resources and token
\* requests takes a decision back: every write of a status names the status it
\* replaces (decideAccessRequestWithAudit, updateAccessRequestDecision,
\* deleteResource, issueTokenLeaseWithAudit).  The erasure alone, which names
\* none, revokes what was decided.
THEOREM DecisionIsFinalHolds == Spec => DecisionIsFinal
<1> DEFINE Step(q) ==
      LET status == request[q].state
          next == request'[q].state
      IN next # status =>
           /\ status \in {"none", "pending", "approved", "denied", "consumed"}
           /\ status \in {"denied", "consumed"} => next = "revoked"
           /\ status = "approved" => next \in {"consumed", "revoked"}
           /\ next = "revoked" => agent # "erased" /\ agent' = "erased"
<1>1. ASSUME Inductive, [Next]_vars, ~EraseAccount, NEW q \in Request
      PROVE  Step(q)
  BY <1>1, NextFinal DEF Final
<1>2. ASSUME Inductive, EraseAccount, NEW q \in Request
      PROVE  Step(q)
  <2>1. request[q] \in AccessRequest
    BY <1>2 DEF Inductive, TypeOK
  <2>2. request'[q] = IF request[q].state # "none"
                      THEN [request[q] EXCEPT !.state = "revoked"] ELSE request[q]
    BY <1>2 DEF EraseAccount
  <2>3. /\ agent # "erased" /\ agent' = "erased"
        /\ request'[q].state = IF request[q].state # "none" THEN "revoked"
                               ELSE request[q].state
    BY <1>2, <2>1, <2>2 DEF EraseAccount, AccessRequest
  <2> QED BY <2>1, <2>3 DEF AccessRequest
<1>3. Inductive /\ [Next]_vars => [\A q \in Request : Step(q)]_vars
  BY <1>1, <1>2
<1> QED BY <1>3, InductiveInvariant, PTL DEF Spec, DecisionIsFinal

-----------------------------------------------------------------------------
(* Nothing is left of an erased account *)

\* A step opens no permission, issues no lease and leaves no request pending.
NothingComes ==
  /\ \A r \in Resource, s \in Scope : NotEnded(ent'[r][s]) => NotEnded(ent[r][s])
  /\ \A l \in Lease : lease'[l].state = "live" => lease[l].state = "live"
  /\ \A q \in Request : request'[q].state = "pending" => request[q].state = "pending"

\* The end of a permission does not open it, nor does a longer lifetime.
LEMMA NotReopened ==
  ASSUME NEW row \in Entitlement, NEW new,
         \/ new = row \/ new = Ended(row)
         \/ \E state \in {"revoked", "consumed"} : new = [row EXCEPT !.state = state]
         \/ \E mode, exp : new = Strengthened(row, mode, exp)
  PROVE  NotEnded(new) => NotEnded(row)
<1>1. CASE new = row
  BY <1>1
<1>2. CASE new = Ended(row)
  BY <1>2 DEF Entitlement, NotEnded, Ended
<1>3. ASSUME NEW state \in {"revoked", "consumed"}, new = [row EXCEPT !.state = state]
      PROVE  ~NotEnded(new)
  BY <1>3 DEF Entitlement, NotEnded
<1>4. ASSUME NEW mode, NEW exp, new = Strengthened(row, mode, exp)
      PROVE  NotEnded(new) => NotEnded(row)
  BY <1>4 DEF Entitlement, NotEnded, Strengthened
<1> QED BY <1>1, <1>2, <1>3, <1>4

LEMMA MarkRevokedIssuesNone ==
  ASSUME Inductive, NEW L, MarkRevoked(L), NEW l \in Lease, lease'[l].state = "live"
  PROVE  lease[l].state = "live"
<1>1. lease'[l] = lease[l]
      \/ (lease[l].state = "live" /\ lease'[l] = [lease[l] EXCEPT !.state = "revoked"])
  BY DEF MarkRevoked
<1> QED BY <1>1

\* A handler that was granting a permission: the trigger refuses every new row,
\* and a longer lifetime reopens none.
LEMMA ErasedWritePermission ==
  ASSUME Inductive, ErasedHasNoAccess, agent = "erased",
         NEW p \in Handler, WritePermission(p)
  PROVE  NothingComes
<1> DEFINE w == proc[p]
           s == w.current.scope
           row == ent[w.res][s]
           longer == Strengthened(row, w.mode, w.exp)
<1>1. /\ request' = request /\ lease' = lease
      /\ w.res \in Resource /\ w.current \in PermissionId
      /\ ent \in [Resource -> [Scope -> Entitlement]]
  BY DEF WritePermission, Inductive, TypeOK, HandlersOK, Shape
<1>2. s \in Scope /\ row \in Entitlement
  BY <1>1 DEF PermissionId
<1>3. w.seen[s].state # "none" /\ ~Expired(w, w.seen[s])
  BY DEF WritePermission, GrantRefused, Deleted
<1>4. ent' = ent \/ ent' = [ent EXCEPT ![w.res][s] = longer]
  BY <1>3 DEF WritePermission
<1>5. ASSUME NEW x \in Resource, NEW y \in Scope
      PROVE  NotEnded(ent'[x][y]) => NotEnded(ent[x][y])
  <2>1. ent'[x][y] = ent[x][y] \/ (x = w.res /\ y = s /\ ent'[x][y] = longer)
    BY <1>1, <1>2, <1>4
  <2> QED BY <1>2, <2>1, NotReopened
<1> QED BY <1>1, <1>5 DEF NothingComes

\* A handler that was approving: its request is no longer pending.
LEMMA ErasedCommitApproval ==
  ASSUME Inductive, ErasedHasNoAccess, agent = "erased",
         NEW p \in Handler, CommitApproval(p)
  PROVE  NothingComes
<1> DEFINE w == proc[p]
           q == w.req
           r == request[q].res
<1>1. /\ lease' = lease /\ q \in Request
      /\ request \in [Request -> AccessRequest]
      /\ ent \in [Resource -> [Scope -> Entitlement]]
      /\ r \in Resource /\ request[q].state # "pending"
  <2>1. lease' = lease /\ q \in Request /\ request[q].state # "none"
    BY DEF CommitApproval, Inductive, HandlersOK, Shape, Knows
  <2> QED BY <2>1 DEF ErasedHasNoAccess, Inductive, TypeOK, RequestsOK
<1>2. Insertable(w) = {} /\ ~Decidable(w)
  BY <1>1 DEF Insertable, Attempted, Decidable
<1>3. ASSUME NEW x \in Resource, NEW s \in Scope
      PROVE  NotEnded(ent'[x][s]) => NotEnded(ent[x][s])
  <2> DEFINE rows == [y \in Scope |->
               CASE y \in Insertable(w) -> OpenRow(ent[r][y], w.mode, w.exp, q)
                 [] y \in Extendable(w) -> Strengthened(ent[r][y], w.mode, w.exp)
                 [] OTHER -> ent[r][y]]
  <2>1. ent' = [ent EXCEPT ![r] = rows]
    BY DEF CommitApproval
  <2>2. rows[s] = ent[r][s] \/ rows[s] = Strengthened(ent[r][s], w.mode, w.exp)
    BY <1>2
  <2> HIDE DEF rows
  <2>3. ent'[x][s] = ent[x][s] \/ (x = r /\ ent'[x][s] = rows[s])
    BY <1>1, <2>1
  <2> QED BY <1>1, <2>2, <2>3, NotReopened
<1>4. ASSUME NEW x \in Request
      PROVE  request'[x].state = request[x].state
  <2> DEFINE told == request[q].state = "approved"
             y == q
  <2>1. request' = [request EXCEPT
          ![y].state = IF Decidable(w) THEN "approved" ELSE @,
          ![y].linked = @ \/ (Decidable(w) /\ request[y].res \in External),
          ![y].allowed = IF Decidable(w) \/ told THEN @ + 1 ELSE @]
    BY DEF CommitApproval
  <2> HIDE DEF y
  <2>2. x # y => request'[x] = request[x]
    BY <1>1, <2>1
  <2>3. x = y => request'[x].state = request[x].state
    BY <1>1, <1>2, <2>1 DEF AccessRequest
  <2> QED BY <2>2, <2>3
<1> QED BY <1>1, <1>3, <1>4 DEF NothingComes

\* The triggers on requests and leases, for handlers that were asking or issuing.
LEMMA ErasedInsert ==
  ASSUME Inductive, ErasedHasNoAccess, agent = "erased", NEW p \in Handler,
         InsertAccessRequest(p) \/ IssueTokenLease(p) \/ CommitDenial(p)
  PROVE  NothingComes
<1> DEFINE w == proc[p]
<1>1. request \in [Request -> AccessRequest]
  BY DEF Inductive, TypeOK
<1>2. CASE InsertAccessRequest(p)
  <2>1. PICK new : \/ request' = request
                   \/ /\ request' = [request EXCEPT ![w.req] = new]
                      /\ new.state = "approved"
    <3> DEFINE new == [NoAccessRequest EXCEPT
                 !.state = IF w.pc = "insertApproved" THEN "approved" ELSE "pending",
                 !.res = w.res, !.linked = w.linked, !.scopes = w.scopes,
                 !.exp = Earlier(w.at + RequestTTL, Never)]
    <3>1. w.pc = "insertApproved" => new.state = "approved"
      BY DEF NoAccessRequest
    <3>2. \/ request' = request
          \/ request' = [request EXCEPT ![w.req] = new] /\ w.pc = "insertApproved"
      BY <1>2 DEF InsertAccessRequest, Deleted
    <3> HIDE DEF new
    <3> QED BY <3>1, <3>2
  <2>2. \A q \in Request : request'[q].state = "pending" => request[q].state = "pending"
    BY <1>1, <2>1
  <2>3. ent' = ent /\ lease' = lease
    BY <1>2 DEF InsertAccessRequest
  <2> QED BY <2>2, <2>3 DEF NothingComes
<1>3. CASE IssueTokenLease(p)
  <2>1. UNCHANGED access
    BY <1>3 DEF IssueTokenLease, MayInsertLease, Deleted
  <2> QED BY <2>1 DEF NothingComes, access
<1>4. CASE CommitDenial(p)
  <2>1. w.req \in Request
    BY <1>4 DEF CommitDenial, Inductive, HandlersOK, Shape
  <2>2. request' = request /\ ent' = ent /\ lease' = lease
    BY <1>4, <2>1 DEF CommitDenial, ErasedHasNoAccess
  <2> QED BY <2>2 DEF NothingComes
<1> QED BY <1>2, <1>3, <1>4

\* A handler that was revoking.
LEMMA ErasedRevocation ==
  ASSUME Inductive, NEW p \in Handler,
         \/ PostRevocation(p) \/ PersistRevocation(p) \/ EndEntitlement(p)
         \/ EndWithdrawn(p)
  PROVE  NothingComes
<1> DEFINE w == proc[p]
<1>1. /\ ent \in [Resource -> [Scope -> Entitlement]]
      /\ lease \in [Lease -> TokenLease]
  BY DEF Inductive, TypeOK
<1>2. CASE PostRevocation(p)
  <2>1. lease' = lease \/ \E l \in w.todo : lease' = [lease EXCEPT ![l].posted = TRUE]
    BY <1>2 DEF PostRevocation
  <2>2. \A l \in Lease : lease'[l].state = "live" => lease[l].state = "live"
    BY <1>1, <2>1 DEF TokenLease
  <2> QED BY <1>2, <2>2 DEF PostRevocation, NothingComes
<1>3. CASE PersistRevocation(p)
  BY <1>3, MarkRevokedIssuesNone DEF PersistRevocation, NothingComes
<1>4. CASE EndEntitlement(p)
  <2> DEFINE k == w.current
             ended == [ent[k.res][k.scope] EXCEPT !.state = "revoked"]
  <2>1. /\ request' = request /\ MarkRevoked(w.listed)
        /\ k.res \in Resource /\ k.scope \in Scope
    BY <1>4 DEF EndEntitlement, Inductive, HandlersOK, Shape, PermissionId
  <2>2. ent' = ent \/ ent' = [ent EXCEPT ![k.res][k.scope] = ended]
    BY <1>4 DEF EndEntitlement
  <2>3. ~NotEnded(ended)
    BY <1>1, <2>1 DEF NotEnded, Entitlement
  <2> HIDE DEF ended
  <2>4. \A r \in Resource, s \in Scope : NotEnded(ent'[r][s]) => NotEnded(ent[r][s])
    BY <1>1, <2>1, <2>2, <2>3
  <2> QED BY <2>1, <2>4, MarkRevokedIssuesNone DEF NothingComes
<1>5. CASE EndWithdrawn(p)
  <2> DEFINE rows == [s \in Scope |->
               IF IdOf(w.res, s, ent[w.res][s]) \in w.queue
               THEN [ent[w.res][s] EXCEPT !.state = "revoked"] ELSE ent[w.res][s]]
  <2>1. request' = request /\ lease' = lease /\ ent' = [ent EXCEPT ![w.res] = rows]
        /\ w.res \in Resource
    BY <1>5 DEF EndWithdrawn, Inductive, HandlersOK, Shape
  <2>2. \A s \in Scope : NotEnded(rows[s]) => NotEnded(ent[w.res][s])
    BY <1>1, <2>1, NotReopened
  <2> HIDE DEF rows
  <2>3. \A r \in Resource, s \in Scope : NotEnded(ent'[r][s]) => NotEnded(ent[r][s])
    BY <1>1, <2>1, <2>2
  <2> QED BY <2>1, <2>3 DEF NothingComes
<1> QED BY <1>2, <1>3, <1>4, <1>5

\* Resources and connectors, whatever becomes of them.
LEMMA ErasedSurroundings ==
  ASSUME Inductive, NEW r \in Resource, DeleteResource(r) \/ ResetConnector(r)
  PROVE  NothingComes
<1>1. /\ ent \in [Resource -> [Scope -> Entitlement]]
      /\ request \in [Request -> AccessRequest]
  BY DEF Inductive, TypeOK
<1>2. CASE DeleteResource(r)
  <2>1. \A x \in Resource, s \in Scope :
          ent'[x][s] = ent[x][s] \/ ent'[x][s] = Ended(ent[x][s])
    BY <1>1, <1>2 DEF DeleteResource
  <2>2. \A x \in Resource, s \in Scope : NotEnded(ent'[x][s]) => NotEnded(ent[x][s])
    BY <1>1, <2>1, NotReopened
  <2>3. ASSUME NEW q \in Request
        PROVE  request'[q].state = "pending" => request[q].state = "pending"
    BY <1>1, <1>2 DEF DeleteResource, AccessRequest
  <2> QED BY <1>2, <2>2, <2>3, MarkRevokedIssuesNone DEF DeleteResource, NothingComes
<1>3. CASE ResetConnector(r)
  <2>1. ASSUME NEW x \in Resource, NEW s \in Scope
        PROVE  NotEnded(ent'[x][s]) => NotEnded(ent[x][s])
    BY <1>1, <1>3 DEF ResetConnector, NotEnded, Entitlement
  <2>2. ASSUME NEW q \in Request
        PROVE  request'[q].state = "pending" => request[q].state = "pending"
    BY <1>1, <1>3 DEF ResetConnector, AccessRequest
  <2> QED BY <1>3, <2>1, <2>2 DEF ResetConnector, NothingComes
<1> QED BY <1>2, <1>3

LEMMA ErasedAfterErasure ==
  ASSUME Inductive, EraseAccount
  PROVE  ErasedHasNoAccess'
<1>1. /\ ent \in [Resource -> [Scope -> Entitlement]]
      /\ request \in [Request -> AccessRequest]
      /\ lease \in [Lease -> TokenLease]
  BY DEF Inductive, TypeOK
<1>2. ASSUME NEW r \in Resource, NEW s \in Scope
      PROVE  ~NotEnded(ent'[r][s])
  <2>1. ent'[r][s] = Ended(ent[r][s])
    BY DEF EraseAccount
  <2> QED BY <1>1, <2>1 DEF Ended, NotEnded, Entitlement
<1>3. ASSUME NEW l \in Lease
      PROVE  lease'[l].state # "live"
  BY <1>1 DEF EraseAccount, MarkRevoked, TokenLease
<1>4. ASSUME NEW q \in Request
      PROVE  request'[q].state # "pending"
  BY <1>1 DEF EraseAccount, AccessRequest
<1> QED BY <1>2, <1>3, <1>4 DEF ErasedHasNoAccess, NotEnded

\* The steps of a handler that write requests, permissions or leases.
LEMMA ContinueWrites ==
  ASSUME NEW p \in Handler, Continue(p)
  PROVE  \/ UNCHANGED access
         \/ WritePermission(p) \/ CommitApproval(p)
         \/ InsertAccessRequest(p) \/ IssueTokenLease(p) \/ CommitDenial(p)
         \/ PostRevocation(p) \/ PersistRevocation(p) \/ EndEntitlement(p)
         \/ EndWithdrawn(p)
<1>1. CASE \/ DecideAgain(p) \/ FindEquivalent(p) \/ RereadEquivalent(p)
           \/ RefuseApproval(p) \/ RefuseGrant(p)
  BY <1>1 DEF DecideAgain, FindEquivalent, RereadEquivalent, RefuseApproval, RefuseGrant
<1>2. CASE ListHostLeases(p) \/ PostProvider(p) \/ EndConnection(p)
  BY <1>2 DEF ListHostLeases, PostProvider, EndConnection
<1>3. CASE ListPermissions(p)
  BY <1>3 DEF ListPermissions
<1>4. CASE NextPermission(p)
  BY <1>4 DEF NextPermission
<1> QED BY <1>1, <1>2, <1>3, <1>4 DEF Continue

\* None of them touches the Agent's row.
LEMMA ContinueKeepsAgent ==
  ASSUME NEW p \in Handler, Continue(p)
  PROVE  agent' = agent
<1>1. CASE \/ DecideAgain(p) \/ FindEquivalent(p) \/ RereadEquivalent(p)
           \/ RefuseApproval(p) \/ RefuseGrant(p)
  BY <1>1 DEF DecideAgain, FindEquivalent, RereadEquivalent, RefuseApproval, RefuseGrant,
              setting
<1>2. CASE ListHostLeases(p) \/ PostProvider(p) \/ EndConnection(p)
  BY <1>2 DEF ListHostLeases, PostProvider, EndConnection, setting
<1>3. CASE ListPermissions(p)
  BY <1>3 DEF ListPermissions, setting
<1>4. CASE NextPermission(p)
  BY <1>4 DEF NextPermission, setting
<1>5. CASE WritePermission(p) \/ CommitApproval(p)
  BY <1>5 DEF WritePermission, CommitApproval, setting
<1>6. CASE InsertAccessRequest(p) \/ IssueTokenLease(p) \/ CommitDenial(p)
  BY <1>6 DEF InsertAccessRequest, IssueTokenLease, CommitDenial, setting
<1>7. CASE \/ PostRevocation(p) \/ PersistRevocation(p) \/ EndEntitlement(p)
           \/ EndWithdrawn(p)
  BY <1>7 DEF PostRevocation, PersistRevocation, EndEntitlement, EndWithdrawn, setting
<1> QED BY <1>1, <1>2, <1>3, <1>4, <1>5, <1>6, <1>7 DEF Continue

LEMMA ErasedStep == Inductive /\ ErasedHasNoAccess /\ [Next]_vars => ErasedHasNoAccess'
<1> SUFFICES ASSUME Inductive, ErasedHasNoAccess, [Next]_vars, ~EraseAccount,
                    agent' = "erased"
             PROVE  ErasedHasNoAccess'
  BY ErasedAfterErasure DEF ErasedHasNoAccess
\* Only the erasure makes the account erased.
<1>1. agent = "erased"
  <2>1. CASE Environment
    BY <2>1 DEF Environment, Tick, Connect, EnrollHost, SetAgentActive,
                RevokeProviderCredential, ResetConnector, SetResourceEnabled,
                DeleteResource
  <2>2. ASSUME NEW p \in Handler, Remove(p)
        PROVE  agent = "erased"
    BY <2>2 DEF Remove, RemoveAgent, RevokeAgentIdentityHost, RevokeResourceConnection,
                Reconnect, WithdrawScopes, setting
  <2>3. ASSUME NEW p \in Handler,
               Ask(p) \/ Decide(p) \/ Grant(p) \/ Issue(p) \/ Revoke(p) \/ Abandon(p)
        PROVE  agent = "erased"
    BY <2>3 DEF Ask, Decide, Grant, Issue, Revoke, Abandon, setting,
       CreateAgentAccessRequest, DenyAgentAccessRequest, ApproveAgentAccessRequest,
       CreateAgentPermission, IssueTargetAccessToken, RevokeAgentPermission
  <2>4. ASSUME NEW p \in Handler, Continue(p)
        PROVE  agent = "erased"
    BY <2>4, ContinueKeepsAgent
  <2>5. CASE UNCHANGED vars
    BY <2>5 DEF vars
  <2> QED BY <2>1, <2>2, <2>3, <2>4, <2>5 DEF Next
<1>2. NothingComes
  <2>1. CASE UNCHANGED access
    BY <2>1 DEF NothingComes, access
  <2>2. CASE Environment
    <3>1. UNCHANGED access \/ \E r \in Resource : DeleteResource(r) \/ ResetConnector(r)
      BY <2>2 DEF Environment, Tick, Connect, EnrollHost, SetAgentActive,
                  RevokeProviderCredential, SetResourceEnabled
    <3> QED BY <2>1, <3>1, ErasedSurroundings
  <2>3. ASSUME NEW p \in Handler,
               \/ Ask(p) \/ Decide(p) \/ Grant(p) \/ Issue(p) \/ Revoke(p)
               \/ Remove(p) \/ Abandon(p)
        PROVE  UNCHANGED access
    BY <2>3 DEF Ask, Decide, Grant, Issue, Revoke, Remove, Abandon,
       CreateAgentAccessRequest, DenyAgentAccessRequest, ApproveAgentAccessRequest,
       CreateAgentPermission, IssueTargetAccessToken, RevokeAgentPermission, RemoveAgent,
       RevokeAgentIdentityHost, RevokeResourceConnection, Reconnect, WithdrawScopes
  <2>4. ASSUME NEW p \in Handler, Continue(p)
        PROVE  NothingComes
    <3>1. \/ UNCHANGED access
          \/ WritePermission(p) \/ CommitApproval(p)
          \/ InsertAccessRequest(p) \/ IssueTokenLease(p) \/ CommitDenial(p)
          \/ PostRevocation(p) \/ PersistRevocation(p) \/ EndEntitlement(p)
          \/ EndWithdrawn(p)
      BY <2>4, ContinueWrites
    <3> QED BY <1>1, <2>1, <3>1, ErasedWritePermission, ErasedCommitApproval, ErasedInsert,
               ErasedRevocation
  <2>5. CASE UNCHANGED vars
    BY <2>1, <2>5 DEF vars, access
  <2> QED BY <2>1, <2>2, <2>3, <2>4, <2>5 DEF Next
<1> QED BY <1>1, <1>2 DEF ErasedHasNoAccess, NothingComes, NotEnded

\* Whatever was in flight when the account was erased, no permission, lease or
\* pending request of its Agent is left or comes back: the erase batch ends what
\* there is, and the triggers account_deleted_* refuse what would be written later.
THEOREM ErasedHasNoAccessHolds == Spec => []ErasedHasNoAccess
<1>1. Init => ErasedHasNoAccess
  BY DEF Init, ErasedHasNoAccess
<1> QED BY <1>1, ErasedStep, InductiveInvariant, PTL DEF Spec
=============================================================================
