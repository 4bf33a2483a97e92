------------------------- MODULE ProviderCredential -------------------------
(***************************************************************************)
(* The credential Realmroot keeps for an account connected at a Provider.  *)
(*                                                                         *)
(* A consent (the OAuth callback) stores a refresh token.  Handlers that   *)
(* need an access token refresh it: they read the row, claim it for a few  *)
(* seconds, call the Provider and write the answer back, guarded by the    *)
(* version they read and by their claim.  The owner may consent again or   *)
(* disconnect, an administrator may replace the Connector or delete the    *)
(* Resource Server, the account may be erased, the Provider may withdraw a *)
(* token, and any await may throw, between any two of these steps.         *)
(*                                                                         *)
(* The module follows one owner, one Connector and one Resource Server:    *)
(* one row of provider_connection, provider_resource_authorization and     *)
(* provider_credential each.  Permissions and leases are AgentAccess's.    *)
(* Timers count down, so that no bound on the clock is needed.             *)
(***************************************************************************)
EXTENDS Naturals

CONSTANTS
  Token,      \* refresh tokens of the Provider (a bound on their number)
  Handler,    \* invocations that run at the same time; also their claim ids
  ClaimTTL,   \* how long a refresh claim lasts (15 seconds)
  MaxVersion, \* bound on credential_version
  None        \* SQL null

ASSUME ClaimAssumption == ClaimTTL \in Nat /\ ClaimTTL > 0
ASSUME VersionAssumption == MaxVersion \in Nat
ASSUME NoneAssumption == None \notin Token \cup Handler

VARIABLES
  resource,      \* the Resource Server: "enabled" or "deleted"
  erased,        \* the owner's tombstone (user.deleted_at)
  connection,    \* provider_connection.status
  authorization, \* provider_resource_authorization.status
  credential,    \* provider_credential
  provider,      \* what the Provider makes of each refresh token
  work           \* the handlers in flight and what they have read

vars == <<resource, erased, connection, authorization, credential, provider, work>>
setting == <<resource, erased>>
rows == <<connection, authorization, credential>>

-----------------------------------------------------------------------------
(* Records *)

Status == {"none", "active", "revoked"}

\* fresh: the stored access token outlives the next 30 seconds.  left: what
\* remains of the claim; at 0 it is a claim in the row that binds nobody.
Credential ==
  [status: Status, version: 0..MaxVersion, token: Token \cup {None},
   fresh: BOOLEAN, claim: Handler \cup {None}, left: 0..ClaimTTL]

NoCredential ==
  [status |-> "none", version |-> 0, token |-> None, fresh |-> FALSE,
   claim |-> None, left |-> 0]

\* from: what made the Provider issue the token.
ProviderToken ==
  [state: {"unissued", "live", "dead"}, from: {"consent", "refresh"}]

Refreshing == {"claim", "post", "complete", "release", "revoke", "revokeAuthorization"}
Connecting == {"upsert", "find", "create", "check", "store"}
Disconnecting == {"load", "postRevocation", "endAuthorization", "endBatch", "endConnection"}

\* tok: the token presented; new: the token to store; left: what remains of
\* the handler's own claim; whole: the Provider Connection is to go as well.
Work ==
  [pc: {"idle", "connector"} \cup Refreshing \cup Connecting \cup Disconnecting,
   version: 0..MaxVersion, tok: Token \cup {None}, new: Token \cup {None},
   left: 0..ClaimTTL, whole: BOOLEAN]

Idle ==
  [pc |-> "idle", version |-> 0, tok |-> None, new |-> None, left |-> 0,
   whole |-> FALSE]

TypeOK ==
  /\ resource \in {"enabled", "deleted"}
  /\ erased \in BOOLEAN
  /\ connection \in Status
  /\ authorization \in Status
  /\ credential \in Credential
  /\ provider \in [Token -> ProviderToken]
  /\ work \in [Handler -> Work]

-----------------------------------------------------------------------------
(* Helpers *)

At(p, pc) == work[p].pc = pc
Goto(p, pc) == work' = [work EXCEPT ![p].pc = pc]
Finish(p) == work' = [work EXCEPT ![p] = Idle]

\* Mutant: the row may have been revoked since.
MineThoughRevoked(p) ==
  /\ credential.version = work[p].version
  /\ credential.claim = p

\* The row still is what the handler claimed.
Mine(p) ==
  /\ credential.status = "active"
  /\ credential.version = work[p].version
  /\ credential.claim = p

Unclaimed(c) == [c EXCEPT !.claim = None, !.left = 0]

\* The Provider hands out a new refresh token.
Issue(t, from) == [provider EXCEPT ![t] = [state |-> "live", from |-> from]]

-----------------------------------------------------------------------------
(* Refreshing: refreshConnectionToken *)

\* The row is read with its connection; a token that is still fresh is used
\* as it is.
ReadCredential(p) ==
  /\ At(p, "idle")
  /\ authorization = "active" /\ resource = "enabled"
  /\ credential.status = "active" /\ ~credential.fresh
  /\ credential.version < MaxVersion
  /\ work' = [work EXCEPT ![p] = [Idle EXCEPT
       !.pc = "claim", !.version = credential.version, !.tok = credential.token]]
  /\ UNCHANGED <<setting, rows, provider>>

\* Mutant: a claim is not looked at.
ClaimableAnyway(p) ==
  /\ credential.status = "active"
  /\ credential.version = work[p].version

Claimable(p) ==
  /\ credential.status = "active"
  /\ credential.version = work[p].version
  /\ credential.claim = None \/ credential.left = 0

ClaimProviderCredentialRefresh(p) ==
  /\ At(p, "claim")
  /\ \/ /\ Claimable(p)
        /\ credential' = [credential EXCEPT !.claim = p, !.left = ClaimTTL]
        /\ work' = [work EXCEPT ![p].pc = "post", ![p].left = ClaimTTL]
     \/ ~Claimable(p) /\ Finish(p) /\ UNCHANGED credential
  /\ UNCHANGED <<setting, connection, authorization, provider>>

\* The Provider takes a live token and rotates it, or does not rotate.
PostRefresh(p) ==
  /\ At(p, "post") /\ provider[work[p].tok].state = "live"
  /\ \/ \E t \in Token :
          /\ provider[t].state = "unissued"
          /\ provider' = [Issue(t, "refresh") EXCEPT ![work[p].tok].state = "dead"]
          /\ work' = [work EXCEPT ![p].pc = "complete", ![p].new = t]
     \/ /\ work' = [work EXCEPT ![p].pc = "complete", ![p].new = work[p].tok]
        /\ UNCHANGED provider
  /\ UNCHANGED <<setting, rows>>

\* A token the Provider no longer knows is answered invalid_grant.
PostRefused(p) ==
  /\ At(p, "post") /\ provider[work[p].tok].state = "dead"
  /\ Goto(p, "revoke")
  /\ UNCHANGED <<setting, rows, provider>>

\* The call fails, or its answer is lost or refused after the Provider has
\* rotated the token.
PostFails(p) ==
  /\ At(p, "post")
  /\ Goto(p, "release")
  /\ \/ UNCHANGED provider
     \/ /\ provider[work[p].tok].state = "live"
        /\ \E t \in Token :
             /\ provider[t].state = "unissued"
             /\ provider' = [Issue(t, "refresh") EXCEPT ![work[p].tok].state = "dead"]
  /\ UNCHANGED <<setting, rows>>

\* Mutant: the version is counted from the row, and once too often.
CompleteTwiceCounted(p) ==
  /\ At(p, "complete")
  /\ \/ /\ Mine(p)
        /\ credential' = [Unclaimed(credential) EXCEPT
             !.version = work[p].version + 2, !.token = work[p].new, !.fresh = TRUE]
        /\ Finish(p)
     \/ ~Mine(p) /\ Goto(p, "release") /\ UNCHANGED credential
  /\ UNCHANGED <<setting, connection, authorization, provider>>

CompleteProviderCredentialRefresh(p) ==
  /\ At(p, "complete")
  /\ \/ /\ Mine(p)
        /\ credential' = [Unclaimed(credential) EXCEPT
             !.version = work[p].version + 1, !.token = work[p].new, !.fresh = TRUE]
        /\ Finish(p)
     \/ ~Mine(p) /\ Goto(p, "release") /\ UNCHANGED credential
  /\ UNCHANGED <<setting, connection, authorization, provider>>

ReleaseProviderCredentialRefresh(p) ==
  /\ At(p, "release")
  /\ credential' = IF Mine(p) THEN Unclaimed(credential) ELSE credential
  /\ Finish(p)
  /\ UNCHANGED <<setting, connection, authorization, provider>>

\* Whoever is told invalid_grant revokes the row, whatever has become of it.
RevokeProviderCredential(p) ==
  /\ At(p, "revoke")
  /\ \/ /\ credential.status = "active"
        /\ credential' = [Unclaimed(credential) EXCEPT !.status = "revoked"]
        /\ Goto(p, "revokeAuthorization")
     \/ credential.status # "active" /\ Finish(p) /\ UNCHANGED credential
  /\ UNCHANGED <<setting, connection, authorization, provider>>

\* Mutant: what the first statement left is taken for granted.
RevokeAuthorizationAnyway(p) ==
  /\ At(p, "revokeAuthorization")
  /\ authorization' = "revoked"
  /\ Finish(p)
  /\ UNCHANGED <<setting, connection, credential, provider>>

\* A statement of its own, unless a credential has become active since.
RevokeEmptyAuthorization(p) ==
  /\ At(p, "revokeAuthorization")
  /\ authorization' = IF credential.status # "active" THEN "revoked" ELSE authorization
  /\ Finish(p)
  /\ UNCHANGED <<setting, connection, credential, provider>>

-----------------------------------------------------------------------------
(* Connecting: completeResourceConnectionIntent *)

\* The callback consumes its intent and exchanges the code.
ExchangeCode(p, t) ==
  /\ At(p, "idle") /\ ~erased /\ resource = "enabled"
  /\ provider[t].state = "unissued"
  /\ provider' = Issue(t, "consent")
  /\ work' = [work EXCEPT ![p] = [Idle EXCEPT !.pc = "upsert", !.new = t]]
  /\ UNCHANGED <<setting, rows>>

\* Triggers refuse what would give life to an erased account's rows.
UpsertProviderConnection(p) ==
  /\ At(p, "upsert")
  /\ \/ ~erased /\ connection' = "active" /\ Goto(p, "find")
     \/ erased /\ Finish(p) /\ UNCHANGED connection
  /\ UNCHANGED <<setting, authorization, credential, provider>>

\* The next version is computed from the row as it is read here.
FindConnectionByProviderResource(p) ==
  /\ At(p, "find")
  /\ \/ authorization = "none" /\ Goto(p, "create")
     \/ /\ authorization # "none" /\ credential.version < MaxVersion
        /\ work' = [work EXCEPT ![p].pc = "check", ![p].version = credential.version]
  /\ UNCHANGED <<setting, rows, provider>>

\* Mutant: a claim in the row outlives the tokens it was taken for.
StoredUnderClaim(p) ==
  [credential EXCEPT !.status = "active", !.version = work[p].version + 1,
                     !.token = work[p].new, !.fresh = TRUE]

Stored(p) ==
  [NoCredential EXCEPT !.status = "active", !.version = work[p].version + 1,
                       !.token = work[p].new, !.fresh = TRUE]

\* Another callback may have created the row, or the resource be gone: the
\* batch then fails as a whole.
MayCreate == authorization = "none" /\ resource = "enabled" /\ ~erased

CreateResourceAuthorization(p) ==
  /\ At(p, "create") /\ MaxVersion > 0
  /\ \/ MayCreate /\ authorization' = "active" /\ credential' = Stored(p)
     \/ ~MayCreate /\ UNCHANGED <<authorization, credential>>
  /\ Finish(p)
  /\ UNCHANGED <<setting, connection, provider>>

CheckAuthorization(p) ==
  /\ At(p, "check")
  /\ IF resource = "enabled" THEN Goto(p, "store") ELSE Finish(p)
  /\ UNCHANGED <<setting, rows, provider>>

\* Mutant: no trigger looks at the owner's tombstone.
UpsertForAnybody(p) ==
  /\ At(p, "store")
  /\ authorization' = "active" /\ credential' = Stored(p)
  /\ Finish(p)
  /\ UNCHANGED <<setting, connection, provider>>

UpsertProviderCredential(p) ==
  /\ At(p, "store")
  /\ \/ ~erased /\ authorization' = "active" /\ credential' = Stored(p)
     \/ erased /\ UNCHANGED <<authorization, credential>>
  /\ Finish(p)
  /\ UNCHANGED <<setting, connection, provider>>

-----------------------------------------------------------------------------
(* Taking away: revokeResourceConnection, disconnectProviderConnection *)

\* The owner disconnects the account, whose active authorization goes first,
\* or only the Resource Server's authorization.
Disconnect(p) ==
  /\ At(p, "idle") /\ connection # "none" /\ ~erased
  /\ \/ /\ authorization = "active"
        /\ \E whole \in BOOLEAN :
             work' = [work EXCEPT ![p] = [Idle EXCEPT !.pc = "load", !.whole = whole]]
     \/ /\ authorization # "active"
        /\ work' = [work EXCEPT ![p] = [Idle EXCEPT !.pc = "endConnection"]]
  /\ UNCHANGED <<setting, rows, provider>>

LoadConnection(p) ==
  /\ At(p, "load")
  /\ \/ /\ credential.status = "active"
        /\ work' = [work EXCEPT ![p].pc = "postRevocation", ![p].tok = credential.token]
     \/ credential.status # "active" /\ Goto(p, "endAuthorization")
  /\ UNCHANGED <<setting, rows, provider>>

\* The Provider accepts the revocation of a token it no longer knows.
PostRevocation(p) ==
  /\ At(p, "postRevocation") /\ resource = "enabled"
  /\ provider' = [provider EXCEPT ![work[p].tok].state = "dead"]
  /\ Goto(p, "endAuthorization")
  /\ UNCHANGED <<setting, rows>>

FindActiveAuthorization(p) ==
  /\ At(p, "endAuthorization")
  /\ IF authorization = "active" THEN Goto(p, "endBatch") ELSE Finish(p)
  /\ UNCHANGED <<setting, rows, provider>>

\* The batch asks for nothing; a claim stays in the revoked row.
RevokeConnection(p) ==
  /\ At(p, "endBatch")
  /\ authorization' = "revoked"
  /\ credential' = [credential EXCEPT !.status = "revoked"]
  /\ IF work[p].whole THEN Goto(p, "endConnection") ELSE Finish(p)
  /\ UNCHANGED <<setting, connection, provider>>

RevokeProviderConnection(p) ==
  /\ At(p, "endConnection")
  /\ connection' = IF erased THEN connection ELSE "revoked"
  /\ Finish(p)
  /\ UNCHANGED <<setting, authorization, credential, provider>>

-----------------------------------------------------------------------------
(* What others do to the rows *)

\* updateConnector replaces the Connector's client; the authorizations it
\* lists as active are revoked by the batch that follows.
ListResourceAuthorizations(p) ==
  /\ At(p, "idle") /\ authorization = "active"
  /\ work' = [work EXCEPT ![p] = [Idle EXCEPT !.pc = "connector"]]
  /\ UNCHANGED <<setting, rows, provider>>

RevokeResourceAuthorizationsByConnector(p) ==
  /\ At(p, "connector")
  /\ credential' = [Unclaimed(credential) EXCEPT !.status = "revoked"]
  /\ authorization' = "revoked"
  /\ Finish(p)
  /\ UNCHANGED <<setting, connection, provider>>

\* The credential of a deleted Resource Server stays as it is.
DeleteResource ==
  /\ resource = "enabled"
  /\ resource' = "deleted"
  /\ authorization' = IF authorization = "active" THEN "revoked" ELSE authorization
  /\ UNCHANGED <<erased, connection, credential, provider, work>>

RevokedIfAny(status) == IF status = "none" THEN "none" ELSE "revoked"

\* One batch; the tokens are kept for the cleanup that revokes them upstream.
EraseAccount ==
  /\ ~erased
  /\ erased' = TRUE
  /\ connection' = RevokedIfAny(connection)
  /\ authorization' = RevokedIfAny(authorization)
  /\ credential' = [Unclaimed(credential) EXCEPT !.status = RevokedIfAny(credential.status)]
  /\ UNCHANGED <<resource, provider, work>>

-----------------------------------------------------------------------------
(* Environment *)

\* The Provider withdraws a token on its own account.
Withdraw(t) ==
  /\ provider[t].state = "live"
  /\ provider' = [provider EXCEPT ![t].state = "dead"]
  /\ UNCHANGED <<setting, rows, work>>

\* The stored access token comes within 30 seconds of its end.
ExpireAccessToken ==
  /\ credential.fresh
  /\ credential' = [credential EXCEPT !.fresh = FALSE]
  /\ UNCHANGED <<setting, connection, authorization, provider, work>>

Less(n) == IF n = 0 THEN 0 ELSE n - 1

Tick ==
  /\ credential.left > 0 \/ \E p \in Handler : work[p].left > 0
  /\ credential' = [credential EXCEPT !.left = Less(@)]
  /\ work' = [p \in Handler |-> [work[p] EXCEPT !.left = Less(@)]]
  /\ UNCHANGED <<setting, connection, authorization, provider>>

\* An await throws, or the invocation is evicted.
Abandon(p) ==
  /\ ~At(p, "idle")
  /\ Finish(p)
  /\ UNCHANGED <<setting, rows, provider>>

-----------------------------------------------------------------------------
Init ==
  /\ resource = "enabled"
  /\ erased = FALSE
  /\ connection = "none"
  /\ authorization = "none"
  /\ credential = NoCredential
  /\ provider = [t \in Token |-> [state |-> "unissued", from |-> "consent"]]
  /\ work = [p \in Handler |-> Idle]

Refresh(p) ==
  \/ ReadCredential(p) \/ ClaimProviderCredentialRefresh(p)
  \/ PostRefresh(p) \/ PostRefused(p) \/ PostFails(p)
  \/ CompleteProviderCredentialRefresh(p) \/ ReleaseProviderCredentialRefresh(p)
  \/ RevokeProviderCredential(p) \/ RevokeEmptyAuthorization(p)

Connect(p) ==
  \/ \E t \in Token : ExchangeCode(p, t)
  \/ UpsertProviderConnection(p) \/ FindConnectionByProviderResource(p)
  \/ CreateResourceAuthorization(p)
  \/ CheckAuthorization(p) \/ UpsertProviderCredential(p)

TakeAway(p) ==
  \/ Disconnect(p) \/ LoadConnection(p) \/ PostRevocation(p)
  \/ FindActiveAuthorization(p) \/ RevokeConnection(p) \/ RevokeProviderConnection(p)
  \/ ListResourceAuthorizations(p) \/ RevokeResourceAuthorizationsByConnector(p)

Next ==
  \/ Tick \/ ExpireAccessToken \/ DeleteResource \/ EraseAccount
  \/ \E t \in Token : Withdraw(t)
  \/ \E p \in Handler : Refresh(p) \/ Connect(p) \/ TakeAway(p) \/ Abandon(p)

Spec == Init /\ [][Next]_vars

-----------------------------------------------------------------------------
(* Properties *)

\* The owner has consented more than once.
Reconsented ==
  \E t, u \in Token :
    /\ t # u
    /\ provider[t].state # "unissued" /\ provider[t].from = "consent"
    /\ provider[u].state # "unissued" /\ provider[u].from = "consent"

\* Two handlers present the same refresh token to the Provider only if the
\* claim of one has run out: a rotating Provider would end the credential of
\* the second (claimProviderCredentialRefresh).  A second consent is excepted:
\* its callback counts the version from the row it read, and may store the
\* version a refresh has reached since, under which both tokens are claimed.
OneRefreshPerClaim ==
  \A p, q \in Handler :
    /\ p # q /\ At(p, "post") /\ At(q, "post") /\ work[p].tok = work[q].tok
    => work[p].left = 0 \/ work[q].left = 0 \/ Reconsented

\* While the Resource Server exists an active credential belongs to an active
\* authorization, although revokeProviderCredential ends the two in separate
\* statements and a consent may come in between.
CredentialIsBacked ==
  credential.status = "active" /\ resource = "enabled" => authorization = "active"

\* Nothing an erased account owned comes back to life, whatever callback or
\* refresh was under way (the triggers of the account deletion migration).
ErasedStaysRevoked ==
  erased => "active" \notin {connection, authorization, credential.status}

\* While a claim stands the tokens it was taken for stand still: what replaces
\* them also ends the claim (upsertProviderCredential), so that a holder which
\* lost its claim to a newer consent no longer finds it in the row.
ClaimCoversTokens ==
  [][credential.claim # None /\ credential'.claim = credential.claim
     => credential'.token = credential.token /\ credential'.version = credential.version]_vars

\* A revoked credential keeps its tokens, which the cleanup of an erased
\* account still has to revoke upstream, until a new consent replaces them: a
\* refresh that was under way does not, although revokeConnection leaves its
\* version and its claim in the row (completeProviderCredentialRefresh).
RevokedUntilConsent ==
  [][/\ credential.status = "revoked"
     /\ credential'.status # "revoked" \/ credential'.token # credential.token
     => /\ credential'.status = "active"
        /\ credential'.token # credential.token
        /\ provider[credential'.token].from = "consent"]_vars
=============================================================================
