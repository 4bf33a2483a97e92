--------------------------- MODULE AgentIdentity ---------------------------
(***************************************************************************)
(* Stable Agent identities and the hosts they run on.                      *)
(*                                                                         *)
(* A protocol agent is the registration of one host's key.  A person       *)
(* enrolls it: directly (a login), through an intent that is approved      *)
(* later, or from an application that creates host, registration and       *)
(* identity together.  Enrollment binds the host to an identity, new or    *)
(* existing.  Identities are deactivated, recovered (every host revoked),  *)
(* activated and deleted; hosts are revoked; the account may be erased.    *)
(*                                                                         *)
(* Every handler reads, checks and then writes one batch, which the        *)
(* unique indexes and the triggers of the schema can abort as a whole.     *)
(* Between any two of these steps other handlers run.                      *)
(*                                                                         *)
(* The module follows one person.  A host stands for the protocol agent    *)
(* registered on it; what ending an Agent's access means is AgentAccess.   *)
(***************************************************************************)
CONSTANTS
  Identity,  \* identifiers of Agent identities (a bound on their number)
  Host,      \* protocol agents
  Intent,    \* identifiers of enrollment intents (a bound on their number)
  Username,
  Key,       \* Idempotency-Keys
  Handler,   \* invocations that run at the same time
  None       \* SQL null

ASSUME NoneAssumption == None \notin Identity \cup Username \cup Key \cup Intent \cup Host

VARIABLES
  erased,    \* user.deleted_at of the person
  agent,     \* agent: one registration per host
  identity,  \* agent_identity
  binding,   \* agent_identity_binding, a set of rows
  intent,    \* agent_enrollment_intent
  creation,  \* agent_application_creation, by Idempotency-Key
  proc       \* the handlers in flight and what they have read

vars == <<erased, agent, identity, binding, intent, creation, proc>>
rows == <<erased, agent, identity, binding, intent, creation>>

-----------------------------------------------------------------------------
(* Records *)

\* key, first: the Idempotency-Key that an earlier release made the identifiers
\* from, and the host of the binding so identified.
IdentityRow ==
  [status: {"none", "active", "inactive"}, deleted: BOOLEAN, name: Username \cup {None},
   key: Key \cup {None}, first: Host \cup {None}]

NoIdentity ==
  [status |-> "none", deleted |-> FALSE, name |-> None, key |-> None, first |-> None]

NewIdentity(u) == [NoIdentity EXCEPT !.status = "active", !.name = u]

Binding == [host: Host, of: Identity, status: {"active", "revoked"}]

\* of: the identity a further host is enrolled for; name: of the identity to be.
\* The deadline is left out: an intent past it can no longer be approved, which is
\* what happens to an intent that nobody approves in time.
EnrollmentIntent ==
  [status: {"none", "pending", "approved"}, host: Host \cup {None},
   of: Identity \cup {None}, name: Username \cup {None}, key: Key \cup {None}]

NoIntent ==
  [status |-> "none", host |-> None, of |-> None, name |-> None, key |-> None]

\* host and name stand for the fingerprint of the request.
Creation ==
  [of: Identity \cup {None}, host: Host \cup {None}, name: Username \cup {None}]

NoCreation == [of |-> None, host |-> None, name |-> None]

Work ==
  [pc: {"idle", "enroll", "target", "install", "name", "write", "migrate", "reserve",
        "raced", "answer", "unbind", "end", "activate"},
   op: {"none", "login", "intent", "more", "approve", "create", "claim", "migrate",
        "recover", "deactivate", "delete"},
   host: Host \cup {None}, of: Identity \cup {None}, name: Username \cup {None},
   key: Key \cup {None}, intent: Intent \cup {None}, hosts: SUBSET Host]

Idle ==
  [pc |-> "idle", op |-> "none", host |-> None, of |-> None, name |-> None,
   key |-> None, intent |-> None, hosts |-> {}]

TypeOK ==
  /\ erased \in BOOLEAN
  /\ agent \in [Host -> {"none", "active", "revoked"}]
  /\ identity \in [Identity -> IdentityRow]
  /\ binding \subseteq Binding
  /\ intent \in [Intent -> EnrollmentIntent]
  /\ creation \in [Key -> Creation]
  /\ proc \in [Handler -> Work]
  /\ \A n \in Intent : intent[n].status # "none" =>
       intent[n].host \in Host /\ (intent[n].of \in Identity \/ intent[n].name \in Username)

-----------------------------------------------------------------------------
(* Helpers *)

Goto(p, w) == proc' = [proc EXCEPT ![p] = w]
Done(p) == Goto(p, Idle)

Live(i) == identity[i].status # "none" /\ ~identity[i].deleted
Rows(h) == {b \in binding : b.host = h}

\* The Agent a host authenticates as.
AgentOf(h) ==
  {i \in Identity : /\ identity[i].status = "active" /\ Live(i)
                    /\ \E b \in Rows(h) : b.of = i /\ b.status = "active"}

ActiveHosts(i) == {b.host : b \in {c \in binding : c.of = i /\ c.status = "active"}}

\* Revoking the bindings of B.
Unbound(B) == (binding \ B) \cup {[b EXCEPT !.status = "revoked"] : b \in B}

BindingsOf(i) == {b \in binding : b.of = i}

RevokedAgents(H) == [h \in Host |-> IF h \in H THEN "revoked" ELSE agent[h]]

-----------------------------------------------------------------------------
(* What the schema lets a batch insert *)

\* Mutant: the name is looked for among live identities only.
NameFreeAmongLive(u) == \A i \in Identity : Live(i) => identity[i].name # u

\* The unique index on username, which deleted rows keep occupying.
NameFree(u) == \A i \in Identity : identity[i].status # "none" => identity[i].name # u

\* Mutant: the trigger on the owner is missing.
InsertableAnytime(u) == NameFree(u)

\* A new identity: the index, and the trigger on an erased owner.
Insertable(u) == ~erased /\ NameFree(u)

\* Mutant: the unique index is missing.
BindableAgain(h, i) == ~identity[i].deleted

\* Mutant: the trigger is missing.
BindableAnytime(h, i) == Rows(h) = {}

\* A binding: the unique index on the host, and the trigger on the identity.
Bindable(h, i) == Rows(h) = {} /\ ~identity[i].deleted

Bound(h, i) == binding \cup {[host |-> h, of |-> i, status |-> "active"]}

\* A new identity of the given name, bound to the host.
Enrolled(i, h, u) ==
  /\ identity[i].status = "none" /\ Insertable(u) /\ Bindable(h, i)
  /\ identity' = [identity EXCEPT ![i] = NewIdentity(u)]
  /\ binding' = Bound(h, i)

\* Some constraint aborts the insert.
Refused(h, u) ==
  \A i \in Identity : identity[i].status = "none" => ~(Insertable(u) /\ Bindable(h, i))

-----------------------------------------------------------------------------
(* Requests *)

\* Registration by the Agent protocol's plugin, on a host or as its removal.
RegisterAgent(h) ==
  /\ agent[h] = "none" /\ ~erased
  /\ agent' = [agent EXCEPT ![h] = "active"]
  /\ UNCHANGED <<erased, identity, binding, intent, creation, proc>>

\* The intent a host has under an Idempotency-Key, whose replay changes nothing.
Reserved(h, k) ==
  \E n \in Intent : intent[n].status # "none" /\ intent[n].host = h /\ intent[n].key = k

\* createAgentLoginIdentity and createAgentEnrollmentIntent of a bound host
\* claim a name for an identity without one; of an unbound host they enroll.
RequestIdentity(p, op, h, u, k) ==
  /\ proc[p] = Idle
  /\ IF op = "intent" THEN k # None /\ ~Reserved(h, k) ELSE k = None
  /\ LET w == [Idle EXCEPT !.host = h, !.name = u, !.key = k]
         bound == AgentOf(h)
     IN \/ /\ bound = {}
           /\ Goto(p, [w EXCEPT !.pc = "enroll", !.op = op])
        \/ \E i \in bound :
             \/ /\ identity[i].name = None
                /\ Goto(p, [w EXCEPT !.pc = "name", !.op = "claim", !.of = i])
             \/ /\ identity[i].name = u /\ op = "intent"
                /\ Goto(p, [w EXCEPT !.pc = "migrate", !.op = "migrate"])
  /\ UNCHANGED rows

\* createAdditionalAgentEnrollmentIntent.
RequestInstallation(p, h, i, k) ==
  /\ proc[p] = Idle /\ Live(i) /\ ~Reserved(h, k)
  /\ Goto(p, [Idle EXCEPT !.pc = "enroll", !.op = "more", !.host = h, !.of = i,
                          !.key = k])
  /\ UNCHANGED rows

\* approveAgentEnrollment, by the person the intent belongs to.
RequestApproval(p, n) ==
  LET r == intent[n]
  IN /\ proc[p] = Idle /\ r.status = "pending"
     /\ Goto(p, [Idle EXCEPT !.pc = "enroll", !.op = "approve", !.host = r.host,
                             !.of = r.of, !.name = r.name, !.intent = n])
     /\ UNCHANGED rows

\* What a request with this key is told of the reservation it finds: the Agent
\* of the first request, unless the two differ or the Agent is gone.
Replay(p, w) ==
  LET c == creation[w.key]
  IN IF c.host = w.host /\ c.name = w.name /\ Live(c.of)
       THEN Goto(p, [w EXCEPT !.pc = "answer", !.of = c.of])
       ELSE Done(p)

\* The Agent that an earlier release created for the key, whose identifiers say so.
LegacyAgent(k) == {i \in Identity : Live(i) /\ identity[i].key = k}

\* requireMatchingLegacyApplicationAgent.
Matches(i, h, u) ==
  /\ identity[i].status = "active" /\ identity[i].name = u /\ identity[i].first = h
  /\ h \in ActiveHosts(i) /\ agent[h] = "active"

\* createAgentWithInstallation.
RequestAgent(p, h, u, k) ==
  LET w == [Idle EXCEPT !.op = "create", !.host = h, !.name = u, !.key = k]
  IN /\ proc[p] = Idle
     /\ \/ creation[k].of # None /\ Replay(p, w)
        \/ /\ creation[k].of = None /\ LegacyAgent(k) = {}
           /\ Goto(p, [w EXCEPT !.pc = "install"])
        \/ /\ creation[k].of = None
           /\ \E i \in LegacyAgent(k) :
                Matches(i, h, u) /\ Goto(p, [w EXCEPT !.pc = "reserve", !.of = i])
     /\ UNCHANGED rows

-----------------------------------------------------------------------------
(* Checks *)

\* assertProtocolAgentCanEnroll.
CheckHost(p) ==
  LET w == proc[p]
      next == CASE w.op \in {"login", "intent"} -> "name"
                [] w.op = "more" -> "write"
                [] OTHER -> IF w.of = None THEN "write" ELSE "target"
  IN /\ w.pc = "enroll"
     /\ IF agent[w.host] = "active" /\ Rows(w.host) = {}
          THEN Goto(p, [w EXCEPT !.pc = next])
          ELSE Done(p)
     /\ UNCHANGED rows

\* requireIdentity, of an approval for an existing identity.
CheckTarget(p) ==
  LET w == proc[p]
  IN /\ w.pc = "target"
     /\ IF Live(w.of) THEN Goto(p, [w EXCEPT !.pc = "write"]) ELSE Done(p)
     /\ UNCHANGED rows

\* requireAvailableAgentInstallation.
CheckInstallation(p) ==
  LET w == proc[p]
  IN /\ w.pc = "install"
     /\ IF agent[w.host] = "none" THEN Goto(p, [w EXCEPT !.pc = "name"]) ELSE Done(p)
     /\ UNCHANGED rows

\* requireAvailableAgentUsername asks the identities that are not deleted.
CheckName(p) ==
  LET w == proc[p]
  IN /\ w.pc = "name"
     /\ IF \A i \in Identity : Live(i) => identity[i].name # w.name
          THEN Goto(p, [w EXCEPT !.pc = "write"])
          ELSE Done(p)
     /\ UNCHANGED rows

\* findLatestApprovedIdentityIntent: the intent of a bound host is answered with
\* the one that was approved, if there is one.
CheckApproved(p) ==
  LET w == proc[p]
  IN /\ w.pc = "migrate"
     /\ IF \E n \in Intent : /\ intent[n].status = "approved" /\ intent[n].of = None
                             /\ intent[n].host = w.host
          THEN Done(p)
          ELSE Goto(p, [w EXCEPT !.pc = "write"])
     /\ UNCHANGED rows

-----------------------------------------------------------------------------
(* Writes *)

\* createIdentity.
CreateIdentity(p) ==
  LET w == proc[p]
  IN /\ w.pc = "write" /\ w.op = "login" /\ Done(p)
     /\ \/ \E i \in Identity : Enrolled(i, w.host, w.name)
        \/ Refused(w.host, w.name) /\ UNCHANGED <<identity, binding>>
     /\ UNCHANGED <<erased, agent, intent, creation>>

\* Mutant: a further host's intent forgets the Agent it is for.
RowNowhere(w) ==
  [NoIntent EXCEPT !.status = "pending", !.host = w.host, !.name = w.name, !.key = w.key]

\* The row of a new intent.  That of an Agent whose host is bound already is
\* approved at once.
IntentRow(w) ==
  [status |-> IF w.op = "migrate" THEN "approved" ELSE "pending", host |-> w.host,
   of |-> w.of, name |-> w.name, key |-> w.key]

\* createIntentIdempotently: a second intent of a host and key is not inserted.
InsertIntent(p) ==
  LET w == proc[p]
  IN /\ w.pc = "write" /\ w.op \in {"intent", "more", "migrate"} /\ Done(p)
     /\ IF Reserved(w.host, w.key)
          THEN UNCHANGED intent
          ELSE \E n \in Intent : /\ intent[n].status = "none"
                                /\ intent' = [intent EXCEPT ![n] = IntentRow(w)]
     /\ UNCHANGED <<erased, agent, identity, binding, creation>>

\* The update of the intent, if it is still pending.
Approved(n) ==
  [intent EXCEPT ![n].status = IF @ = "pending" THEN "approved" ELSE @]

\* Mutant: a binding that exists already is skipped and the batch goes on.
ApproveIntentAnyway(p) ==
  LET w == proc[p]
  IN /\ w.pc = "write" /\ w.op = "approve" /\ Done(p)
     /\ w.of = None /\ Insertable(w.name)
     /\ \E i \in Identity :
          /\ identity[i].status = "none"
          /\ identity' = [identity EXCEPT ![i] = NewIdentity(w.name)]
          /\ binding' = IF Bindable(w.host, i) THEN Bound(w.host, i) ELSE binding
     /\ intent' = Approved(w.intent)
     /\ UNCHANGED <<erased, agent, creation>>

\* approveIntent: identity, binding and intent in one batch.
ApproveIntent(p) ==
  LET w == proc[p]
  IN /\ w.pc = "write" /\ w.op = "approve" /\ Done(p)
     /\ \/ /\ w.of = None
           /\ \E i \in Identity : Enrolled(i, w.host, w.name)
           /\ intent' = Approved(w.intent)
        \/ /\ w.of # None /\ Bindable(w.host, w.of)
           /\ binding' = Bound(w.host, w.of) /\ intent' = Approved(w.intent)
           /\ UNCHANGED identity
        \/ /\ IF w.of = None THEN Refused(w.host, w.name) ELSE ~Bindable(w.host, w.of)
           /\ UNCHANGED <<identity, binding, intent>>
     /\ UNCHANGED <<erased, agent, creation>>

\* Mutant: the key is not unique, and the last reservation is the one found.
MayInstallAgain(w) == agent[w.host] = "none"

\* The primary key of the registration and the unique index of the reservation.
MayInstall(w) == agent[w.host] = "none" /\ creation[w.key].of = None

\* createAgentWithInstallation of the repository: host, registration, identity,
\* binding and reservation in one batch, unless the key is reserved already.
InstallAgent(p) ==
  LET w == proc[p]
  IN /\ w.pc = "write" /\ w.op = "create"
     /\ \/ \E i \in Identity :
             /\ MayInstall(w) /\ Enrolled(i, w.host, w.name)
             /\ agent' = [agent EXCEPT ![w.host] = "active"]
             /\ creation' = [creation EXCEPT ![w.key] =
                               [of |-> i, host |-> w.host, name |-> w.name]]
             /\ Goto(p, [w EXCEPT !.pc = "answer", !.of = i])
        \/ /\ ~MayInstall(w) \/ Refused(w.host, w.name)
           /\ Goto(p, [w EXCEPT !.pc = "raced"])
           /\ UNCHANGED <<agent, identity, binding, creation>>
     /\ UNCHANGED <<erased, intent>>

\* reserveApplicationCreation, for an Agent of an earlier release.
ReserveCreation(p) ==
  LET w == proc[p]
  IN /\ w.pc = "reserve" /\ Goto(p, [w EXCEPT !.pc = "raced", !.of = None])
     /\ creation' = [creation EXCEPT ![w.key] =
          IF @.of = None THEN [of |-> w.of, host |-> w.host, name |-> w.name] ELSE @]
     /\ UNCHANGED <<erased, agent, identity, binding, intent>>

\* After that, or after a failed batch, the key is looked up again: it may
\* turn out to be reserved by another request.
ReplayRaced(p) ==
  LET w == proc[p]
  IN /\ w.pc = "raced"
     /\ IF creation[w.key].of # None THEN Replay(p, w) ELSE Done(p)
     /\ UNCHANGED rows

Answer(p) ==
  /\ proc[p].pc = "answer" /\ Done(p)
  /\ UNCHANGED rows

\* The guard of claimIdentityProfile's update, its index and its trigger.
MayClaim(w) == Live(w.of) /\ identity[w.of].name = None /\ Insertable(w.name)

ClaimIdentityProfile(p) ==
  LET w == proc[p]
  IN /\ w.pc = "write" /\ w.op = "claim"
     /\ \/ /\ MayClaim(w)
           /\ identity' = [identity EXCEPT ![w.of].name = w.name]
           /\ IF w.key = None
                THEN Done(p)
                ELSE Goto(p, [w EXCEPT !.pc = "migrate", !.op = "migrate", !.of = None])
        \/ ~MayClaim(w) /\ Done(p) /\ UNCHANGED identity
     /\ UNCHANGED <<erased, agent, binding, intent, creation>>

-----------------------------------------------------------------------------
(* Hosts and Agents that end *)

\* revokeAgentIdentityHost: the Agent is looked up, then the active binding.
RevokeHost(p, h, i) ==
  /\ proc[p] = Idle /\ Live(i) /\ h \in ActiveHosts(i)
  /\ Goto(p, [Idle EXCEPT !.pc = "unbind", !.host = h, !.of = i])
  /\ UNCHANGED rows

\* revokeProtocolAgents: the statement on the bindings names the Agent alone,
\* the one on the registrations names the host.
RevokeBinding(p) ==
  LET w == proc[p]
  IN /\ w.pc = "unbind" /\ Done(p)
     /\ IF erased
          THEN UNCHANGED <<agent, binding>>
          ELSE /\ binding' = Unbound(BindingsOf(w.of))
               /\ agent' = RevokedAgents({w.host})
     /\ UNCHANGED <<erased, identity, intent, creation>>

\* The lookups of recoverAgentIdentity, deactivateAgentIdentity and
\* deleteAgentIdentity, and of deactivateIdentity and deleteIdentity, which list
\* the hosts whose registrations they will revoke.
RequestEnd(p, i, op) ==
  /\ proc[p] = Idle /\ Live(i)
  /\ op = "delete" \/ identity[i].status = "active"
  /\ Goto(p, [Idle EXCEPT !.pc = "end", !.op = op, !.of = i,
                          !.hosts = IF op = "deactivate" THEN {} ELSE ActiveHosts(i)])
  /\ UNCHANGED rows

\* deactivateIdentity, with or without the bindings, and deleteIdentity.
EndIdentity(p) ==
  LET w == proc[p]
  IN /\ w.pc = "end" /\ Done(p)
     /\ IF erased
          THEN UNCHANGED <<agent, identity, binding>>
          ELSE /\ identity' = [identity EXCEPT ![w.of].status = "inactive",
                                 ![w.of].deleted = @ \/ w.op = "delete"]
               /\ binding' = IF w.op = "deactivate" THEN binding
                                                    ELSE Unbound(BindingsOf(w.of))
               /\ agent' = RevokedAgents(w.hosts)
     /\ UNCHANGED <<erased, intent, creation>>

\* activateAgentIdentity and the lookup of activateIdentity.
RequestActivation(p, i) ==
  /\ proc[p] = Idle /\ Live(i) /\ identity[i].status = "inactive" /\ ActiveHosts(i) # {}
  /\ Goto(p, [Idle EXCEPT !.pc = "activate", !.of = i])
  /\ UNCHANGED rows

MayActivate(i) == identity[i].status = "inactive" /\ ~identity[i].deleted /\ ~erased

ActivateIdentity(p) ==
  LET w == proc[p]
  IN /\ w.pc = "activate" /\ Done(p)
     /\ identity' = [identity EXCEPT ![w.of].status =
                       IF MayActivate(w.of) THEN "active" ELSE @]
     /\ UNCHANGED <<erased, agent, binding, intent, creation>>

\* A registration is revoked by itself, as the Agent protocol or a manager does.
RevokeAgent(h) ==
  /\ agent[h] = "active" /\ ~erased
  /\ agent' = RevokedAgents({h})
  /\ UNCHANGED <<erased, identity, binding, intent, creation, proc>>

\* The account is erased, in one batch.
EraseAccount ==
  /\ ~erased /\ erased' = TRUE
  /\ intent' = [n \in Intent |-> NoIntent]
  /\ creation' = [k \in Key |-> NoCreation]
  /\ binding' = Unbound(binding)
  /\ agent' = RevokedAgents({h \in Host : agent[h] # "none"})
  /\ identity' = [i \in Identity |->
       IF identity[i].status = "none" THEN identity[i]
       ELSE [identity[i] EXCEPT !.status = "inactive", !.deleted = TRUE]]
  /\ UNCHANGED proc

\* Any await may throw, or the invocation end.
Abandon(p) ==
  /\ proc[p] # Idle /\ Done(p)
  /\ UNCHANGED rows

-----------------------------------------------------------------------------
\* An Agent of an earlier release on a host of its own, or none: it is from
\* before usernames, or an application created it.
Init ==
  /\ erased = FALSE
  /\ \E old \in SUBSET (Identity \X Host), u \in Username \cup {None},
        k \in Key \cup {None} :
       /\ \A a, b \in old : a = b
       /\ u = None <=> k = None
       /\ binding = {[host |-> o[2], of |-> o[1], status |-> "active"] : o \in old}
       /\ agent = [h \in Host |-> IF \E o \in old : o[2] = h THEN "active" ELSE "none"]
       /\ identity = [i \in Identity |->
            IF \E o \in old : o[1] = i
              THEN [NewIdentity(u) EXCEPT !.key = k,
                      !.first = IF k = None THEN None
                                ELSE CHOOSE h \in Host : <<i, h>> \in old]
              ELSE NoIdentity]
  /\ intent = [n \in Intent |-> NoIntent]
  /\ creation = [k \in Key |-> NoCreation]
  /\ proc = [p \in Handler |-> Idle]

Request(p) ==
  \/ \E h \in Host, u \in Username, k \in Key \cup {None}, op \in {"login", "intent"} :
       RequestIdentity(p, op, h, u, k)
  \/ \E h \in Host, i \in Identity, k \in Key : RequestInstallation(p, h, i, k)
  \/ \E n \in Intent : RequestApproval(p, n)
  \/ \E h \in Host, u \in Username, k \in Key : RequestAgent(p, h, u, k)
  \/ \E h \in Host, i \in Identity : RevokeHost(p, h, i)
  \/ \E i \in Identity, op \in {"recover", "deactivate", "delete"} : RequestEnd(p, i, op)
  \/ \E i \in Identity : RequestActivation(p, i)

Continue(p) ==
  \/ CheckHost(p) \/ CheckTarget(p) \/ CheckInstallation(p) \/ CheckName(p)
  \/ CheckApproved(p) \/ CreateIdentity(p) \/ InsertIntent(p) \/ ApproveIntent(p)
  \/ InstallAgent(p) \/ ReserveCreation(p) \/ ReplayRaced(p) \/ Answer(p) \/ ClaimIdentityProfile(p)
  \/ RevokeBinding(p) \/ EndIdentity(p) \/ ActivateIdentity(p)

Next ==
  \/ \E p \in Handler : Request(p) \/ Continue(p) \/ Abandon(p)
  \/ \E h \in Host : RegisterAgent(h) \/ RevokeAgent(h)
  \/ EraseAccount

Spec == Init /\ [][Next]_vars

-----------------------------------------------------------------------------
(* Properties *)

\* A host belongs to one Agent for good: whatever enrollments overlap, it is
\* never bound to another, and once revoked it never comes back
\* (approveIntent, createIdentity and createAgentWithInstallation against
\* revokeBinding, deactivateIdentity and deleteIdentity).
HostKeepsItsAgent ==
  [][\A b \in binding :
       /\ \A c \in binding' : c.host = b.host => c.of = b.of
       /\ \E c \in binding' : c.host = b.host
       /\ b.status = "revoked" => \A c \in binding' : c.host = b.host => c.status = "revoked"
    ]_vars

\* A deleted Agent is never active again and no host is bound to it, whatever
\* approval or activation was under way (deleteIdentity, the account's erasure).
DeletedStaysGone ==
  \A i \in Identity : identity[i].deleted =>
    identity[i].status = "inactive" /\ ActiveHosts(i) = {}

\* Nothing that an erased person's handlers still write gives them an Agent, a
\* registration or a new reservation (erase against every handler in flight).
\* The row that a replay of an earlier release's creation writes has no trigger,
\* and names a deleted Agent.
ErasedOwnsNothing ==
  erased =>
    /\ \A i \in Identity : ~Live(i)
    /\ \A h \in Host : agent[h] # "active"
    /\ \A k \in Key : creation[k].of # None => identity[creation[k].of].key = k

\* A username, once given, names that Agent for good: no handler takes it away,
\* and none gives it to another, not even after the Agent is deleted
\* (claimIdentityProfile and the enrollments, which look for live Agents only).
UsernameIsForGood ==
  [][\A i, j \in Identity :
       identity[i].name # None =>
         (identity'[j].name = identity[i].name <=> j = i)]_vars

\* An enrollment is whole: an approved intent has bound its host, to the Agent
\* it named if it named one, no Agent exists that never had a host, and a
\* reservation has its Agent on the host it asked for.
EnrollmentIsWhole ==
  /\ \A n \in Intent : intent[n].status = "approved" =>
       \E b \in binding : b.host = intent[n].host /\ intent[n].of \in {None, b.of}
  /\ \A i \in Identity : identity[i].status # "none" => BindingsOf(i) # {}
  /\ \A k \in Key : creation[k].of # None =>
       \E b \in binding : b.of = creation[k].of /\ b.host = creation[k].host

\* Two requests to create an Agent under one Idempotency-Key are told of the same
\* Agent, however their batches raced (createAgentWithInstallation).
ReplaysAgree ==
  \A p, q \in Handler :
    /\ proc[p].pc = "answer" /\ proc[q].pc = "answer" /\ proc[p].key = proc[q].key
    => proc[p].of = proc[q].of

\* Revoking one host leaves the other hosts of the Agent as they were
\* (agent-identity.feature: "the other host and the Agent identity remain
\* active").
RevocationSparesOtherHosts ==
  [][\A p \in Handler : proc[p].pc = "unbind" /\ proc'[p] = Idle =>
       \A b \in binding : b.host # proc[p].host => b \in binding']_vars
=============================================================================
