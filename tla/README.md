# Realmroot in TLA+

Realmroot is an identity provider for people, applications and Agents, written
as one Cloudflare Worker over one D1 (SQLite) database. This directory keeps
TLA+ models of the parts of it where the order of steps matters, the TLC runs
that check them on small instances, and the TLAPS proofs of what holds for every
instance. Paths below are relative to `src/`, the repository.

## How the system executes

Three facts about the runtime decide the shape of every model.

* A request is one Worker invocation. It reads, awaits, calls other services
  and writes; any other invocation may run at each await. Nothing is locked.
* `db.batch([...])` is atomic: its statements run in order and without others in
  between. It is not conditional: a statement whose WHERE matches no row does
  nothing, and the later ones run all the same. Only an error (a failing
  constraint without `onConflictDoNothing`) rolls the batch back.
* An await may throw and an invocation may be evicted. What was written stays
  written and what follows never happens.

So a handler is a process with a program counter (`proc[p].pc`), a step for each
stretch between awaits that matters, and a record of what it has read. `Abandon`
ends it at any of its steps.

## Inventory

| Component | State | Operations | What is hard | What makes it correct |
|---|---|---|---|---|
| Agent access (`server/usecases/external-resources.ts`, its repository) | access requests, permissions (resource scope entitlements), token leases, audit rows | ask, approve, deny, grant directly, issue a token, revoke a permission | stale reads, batches that succeed in part, calls to the target between list and write | a decision is final; an approval has all its permissions; a once permission is used once; a token rests on live authority; revocation reaches the tokens |
| Resource Servers (`server/usecases/authorization.ts`, its repository) | resource, enabled, deleted | enable, disable, delete, direct grant | deletion races with everything above | nothing new on a closed resource |
| Account connections and provider credentials (`external-resources.ts`) | connection, credential, refresh claim, version | connect, reconnect, refresh under a claim, revoke | a claim that expires under its holder; reconnection against revocation | one refresh at a time is stored; a revoked credential stays revoked |
| Agent identity (`agent-identities.ts`) | identity, host bindings, enrolments | enrol, approve, deactivate, activate, recover, delete, revoke a host | checks before an await; loops over providers that may fail | a recovered or deleted Agent has no host and no authority |
| Token exchange (`token-exchange.ts`) | refresh tokens in families, access tokens | exchange, refresh, introspect, revoke | replay against rotation; family revocation in a call of its own | one live token per family; a replay ends the family |
| Webhooks (`webhooks.ts`) | endpoint, delivery request, attempts | publish, retry by idempotency key, rotate the secret | overlapping attempts, crash before the outcome | an attempt is sent once; a delivery stays delivered |
| Account deletion (`account-deletion.ts`) | tombstone, cleanup job with claim | erase, claim, retry, finish | crash or slow worker against the claim's expiry | erased once, cleaned up in the end, event published at least once |
| DPoP (`dpop.ts`, `agent-tokens.ts`) | used proof identifiers | consume | expiry of the identifier against the acceptance window | a proof is accepted once |
| Applications, connectors, users, onboarding, settings, assets | single rows | create, update, delete | last writer wins, ETags | mostly data; not modelled |
| Worker entry (`worker.ts`, `initialization-deadline.ts`) | per-isolate caches | load with deadline | late answers after a deadline | a late answer is never cached |
| Sign-in, sessions, consent (`auth.ts`) | in Better Auth | - | a library's state machines | not modelled |
| Routes, middleware, front end | none | parsing, status codes | - | not modelled |

How they interact: every component shares the one database and calls the others'
use cases directly. Recovery and deletion of an Agent, revocation of a host and
disconnection of an account write their own row first or last and call into
Agent access in between; deletion of a Resource Server closes the rows of all of
them in one batch; token issue reads the Agent, the host, the resource, the
connection and the permissions, and re-checks only some of them when it writes.

Each hazard that was found is in `PROJECT.json` at its line, with the properties
that cover it or the reason why none does.

## Modules

| Modules | What they are |
|---|---|
| `AgentAccess`, `AgentAccess_proofs`, `AgentAccessRecords_proofs` | the core: requests, permissions, token leases, and everything that takes them away |
| `AgentIdentity`, `AgentIdentity_proofs` | the life of an Agent and its hosts; its endings are the `RemoveAgent` and `RevokeAgentIdentityHost` of `AgentAccess` |
| `RefreshRotation`, `TokenChain`, `RefreshRotation_proofs` | token exchange, and the abstract chain of one-time tokens it implements |
| `ProviderCredential`, `ProviderCredential_proofs` | one stored credential under refresh, consent and revocation; its `authorization` is the `connection` of `AgentAccess` |
| `AccountDeletion`, `AccountDeletion_proofs` | erasure and the cleanup queue; takes up the tokens that `ProviderCredential` leaves in the rows |
| `WebhookDelivery`, `WebhookDelivery_proofs` | publication and attempts; how `user.deleted` reaches an endpoint |
| `MC...` | the instance of each module for TLC: symmetry sets and values of constants |

The modules share no variables. Where two of them meet (an Agent's end, an erasure,
a deleted Resource Server, a replaced Connector) each has the part of that handler
that acts on its own rows. `erase` is one batch in the code, and an action of five
modules: `AgentAccess`, `AgentIdentity`, `ProviderCredential`, `AccountDeletion`
(`EraseAccount`) and `WebhookDelivery` (`EraseRequests`). This is sound because each
promise below is about the rows of one module.

Every safety and action property that a passing run checks is also proved, for
every value of the constants. What is left:

* an abstract specification of each component beside `TokenChain` (a webhook attempt
  as a message sent once, a cleanup job as work done before it is announced), with
  the refinement proved;
* the intents of account connections, and DPoP's replay window.

## The module AgentAccess

One Agent identity, one authorization context and at most one account connection
per resource. This loses nothing the code tells apart: every query, index and
guard of the code is keyed by the Agent and the context.

| Variable | In the code |
|---|---|
| `resource` | `api_resource.enabled`, `deleted_at` |
| `connection` | `provider_resource_authorization.status` |
| `agent`, `host` | `agent_identity.status`, `deleted_at`; `agent_identity_binding.status` |
| `request` | `agent_access_request`, with counts of the audit rows of its decisions |
| `ent` | `resource_scope_entitlement`: the latest row of each scope |
| `lease` | `external_token_lease`; `posted` records the call to the target |
| `proc` | the locals of the invocations in flight |
| `now` | `Date.now()` |

The partial unique index over rows with `ended_at` null allows one open row per
scope, so `ent` keeps the latest row and its generation, and a row is named by
`[res, scope, gen]`. That identifier is what leases and stale handlers hold, and
`Standing` is the code's "this id, and not ended". A permission that a replaced
Connector has deprived of its account connection is `detached`: it has not ended, but
no query by context finds it, and the index leaves its place to a new row.
`StillOpen` excludes it, as the guards by connection do.

| Code | Actions |
|---|---|
| `createAgentAccessRequest` | `CreateAgentAccessRequest`, `InsertAccessRequest`, then `DecideAgain` when the scopes are automatic |
| `decideAgentAccessRequest`, approve | `ApproveAgentAccessRequest` reads, `CommitApproval` is the batch, `DecideAgain` its one retry |
| ... deny | `DenyAgentAccessRequest`, `CommitDenial` |
| `createAgentPermission`, `createScopeEntitlement` | `CreateAgentPermission`, and for each scope `FindEquivalent`, `WritePermission`, `RereadEquivalent` |
| `issueTargetAccessToken`, `issueNativeAccessToken` | `IssueTargetAccessToken` reads, `IssueTokenLease` is the batch |
| `revokeAgentPermission` | `RevokeAgentPermission`, `PostRevocation` for each lease, `EndEntitlement` |
| `recoverAgentIdentity`, `deleteAgentIdentity` | `RemoveAgent`, `ListPermissions`, and for each permission `NextPermission`, `PostRevocation`/`PersistRevocation`, `EndEntitlement` |
| `revokeAgentIdentityHost` | `RevokeAgentIdentityHost`, `ListHostLeases`, `PostRevocation`/`PersistRevocation` |
| `revokeResourceConnection` | `RevokeResourceConnection`, `PostProvider`, `ListPermissions`, the loop, `EndConnection` |
| `completeResourceConnectionIntent` | `Connect`; of an account connected before `Reconnect`, and `ListPermissions` with the loop for what the Provider no longer grants |
| `updateResource`, `deleteResource` | `SetResourceEnabled`, `DeleteResource` |
| `updateResource` to a private visibility, `replaceResourceDiscovery` | `WithdrawScopes` reads and chooses, `EndWithdrawn` ends by identifier, the leases left alone |
| `revokeResourceAuthorizationsByConnector` | `ResetConnector` |
| `revokeProviderCredential`, on `invalid_grant` | `RevokeProviderCredential` |
| `approveIntent`, `deactivateAgentIdentity`, `activateAgentIdentity` | `EnrollHost`, `SetAgentActive` |
| `erase` | `EraseAccount` |
| the triggers on rows of a deleted Agent | `RefuseApproval`, `RefuseGrant`, and guards of `InsertAccessRequest`, `MayInsertLease`, `ResetConnector` |
| any thrown await | `Abandon` |

`CommitApproval` deserves a look: `Insertable`, `Extendable` and `Decidable` are
the guards of the three kinds of statement in the batch. Each is evaluated on the
state the batch finds, not on what the handler read, and none undoes another.

`deleteResource` ends what hangs on a resource in one batch: its pending requests
are denied, its permissions and its leases marked revoked. The target is not
called, which is why `RevokedAtTarget` speaks of registered targets only.

`erase` goes further. Every request of the account becomes `revoked`, whatever was
decided; every permission that has not ended is ended; every lease is marked revoked
without a call to its target, which is left to the cleanup (`AccountDeletion`). So
`DecisionIsFinal` lets the erasure, and nothing else, take decided requests further;
`LeaseOfDecidedRequest` asks of a live lease that its request is consumed, and of a
revoked one that its request is consumed or was revoked by the erasure; and
`RevokedAtTarget` ends with the account. What the erasure does promise is
`ErasedHasNoAccess`: whatever handlers were in flight, no permission that has not
ended, no live lease and no pending request is there afterwards. It rests on the
triggers, one pair for each table, which abort a batch that would leave such a row of
a deleted Agent behind. Its mutant drops the one on permissions. A request born
approved has no trigger, and may appear after the erasure; it opens nothing.

Abstractions: scopes, requests, leases and hosts are model values; authorization
details are one context and its hash is not rewritten; the reads of a handler
up to its next await that matters are one snapshot; audit rows are counted, not
described; a token is its lease.

### Bounds

`MaxTime` bounds the clock, `Never` is a null `expires_at`. `MaxRows` bounds the
rows there may have been, over all scopes, when a handler that may add one starts
(`SpareRows`). `Request` and `Lease` are finite sets of identifiers, and a handler
that will use one starts only when one is spare (`Spare`, `SpareLease`), so that no
handler blocks on the bound halfway. With two handlers every pair of operations can
overlap at every await; two rows are enough for a permission to end and be opened
again under a handler that holds the first, and for an approval to find one of its
two scopes permitted and the other not; one tick is enough for a permission, a
request and a lease to expire under a handler that read them. `AgentGrants` has two
leases, for two issues that read one permission; `AgentTeardown` has one scope,
one row, one lease and no expiry, and a state constraint, `OpeningAlone`: of handlers
that are about to write permissions there is one at a time, because two of them meet
in `AgentGrants`. Both have one request, whose permission competes with direct
grants; two requests compete in `AgentExpiredConflict`. Three overlapping
operations, or two requests with all the rest, are beyond the runs, not beyond the
proofs, which have no constraint either.

### Runs

`MCAgentAccess` instantiates the module. `GrantSpec` leaves out teardown; the runs
on `Spec` have everything. Deadlock is not checked: when the identifiers, the rows
and the clock are used up, the bounded system rightly stops.

| Run | Question | Outcome |
|---|---|---|
| `AgentGrants` | Do requests, decisions, direct grants, tokens and revocations of a native resource race safely, with an automatic scope, two scopes and expiry? | `OnceUsedOnce`, `ConsumedWasUsed`, `AuditTellsDecision`, `ApprovalIsBacked`, `DecisionIsFinal` hold (1.1 million states) |
| `AgentTeardown` | The same on an external resource, with everything the tables above name that takes authority away, the erasure included, and every thrown await | `TypeOK`, `LeaseOfDecidedRequest`, `ErasedHasNoAccess`, `RevokedAtTarget`, `DecisionIsFinal`, `LeaseRestsOnAuthority` hold (0.57 million states) |
| `AgentExpiredConflict` | Is "permissions changed while access was being approved" true when it is said? | No: an expired row occupies the index |
| `AgentDisconnect` | Does a disconnection end the permissions? | No: it stops at a direct permission |
| `AgentRevokeRace` | Are the leases of a revoked permission dead? | No: one issued during the calls survives |

The last three are disagreements between the code and what its documents, or its
own messages, say; the `findings` of `PROJECT.json` quote both sides.

## The modules RefreshRotation and TokenChain

A confidential client exchanges a workload's assertion for an access token and,
with `offline_access`, a one-time refresh token. `RefreshRotation` follows one
client, since every lookup filters by client, and the controllers who change
the credentials and Resource Servers its tokens rest on.

| Variable | In the code |
|---|---|
| `resource` | `api_resource`: `enabled`, `deleted_at`, and its visibility to the Application's Organization |
| `credential` | `federated_credential`: `enabled`, `audience_resource_id` |
| `row` | `token_exchange_refresh_token`; `sent` records that the client was given the token, `expired` that `expires_at` has passed |
| `access` | `token_exchange_access_token`; `by` records the request that minted it |
| `proc` | the locals of the invocations in flight |

| Code | Actions |
|---|---|
| `exchangeToken` | `Exchange` resolves the credential, `RequireEligibleAudience`, `StoreAccessToken`, `StoreRefreshToken` |
| `storeRefreshToken` | the insert in `StoreRefreshToken`, then `CheckFamily` and `SelfRevoke` |
| `refreshToken` | `Present` or `PresentConsumed` read the row, `FindCredential`, `CheckAudience`, `ResolveScopes`, `RotateRefreshToken`, `Respond` |
| `rotateRefreshToken` | `RotateRefreshToken`: `RotationGuard` is `parentIsActive`, `RotateRows` and the insert of the access token are the batch |
| `revokeRefreshTokenFamily` | `RevokeRefreshTokenFamily`, a call of its own on all three paths that reach it |
| `updateFederatedCredential`, `deleteFederatedCredential` | `UpdateFederatedCredential` and `CommitCredential` (an audience), `SetCredentialEnabled`, `DeleteFederatedCredential` with its cascade |
| `updateResource`, `deleteResource` | `UpdateResource`, `DeleteResource` |
| any thrown await | `Abandon` |

A single identifier names the access token and the refresh token of one grant,
and a family is named by its first refresh token (the code draws a separate
random identifier for each of the three). Scopes, claims, client
authentication, assertions and signing are left out: they only decide whether a
request goes on, and `Abandon` stops it at any step. For the same reason a
disabled Application needs no action. The change of a Resource Server's URL acts on a refresh
as the change of a credential's audience does. `Expire` is an action for tokens
that could still be redeemed: nobody asks whether a spent token has expired.

`TokenChain` says what all this promises. Each family has a phase (unborn, alive,
ended) and, while it is alive, a head. `Begin` starts a family, `Redeem` replaces
its head by a token never seen before, `End` ends families for good, several at
once because the deletion of a credential or a Resource Server does so.
`ImplementsChain` maps `RefreshRotation` to it: the head of a family is its
redeemable row, and a family with rows but no redeemable one has ended.

### Bounds and runs

`MCRefreshRotation` instantiates the module. Two handlers are two overlapping
requests of any kind; three tokens are two rotations of one family, or a family
that rotates beside another; one credential and one Resource Server suffice,
since a family has one of each. A handler takes an unused identifier when it
starts, so none blocks on the bound. `Token` and `Handler` are symmetric.

| Run | Question | Outcome |
|---|---|---|
| `RefreshRotation` | Do overlapping refreshes, replays and revocations leave the rows consistent, with every change of credentials and Resource Servers and every thrown await? Is it the chain of one-time tokens it is meant to be? Does reuse end the family? | `TypeOK`, `OneLiveToken`, `RevokedTogether`, `RotationIsWhole`, `ReuseEndsFamily`, `ImplementsChain` hold (65 thousand states) |

Deadlock is not checked: when the identifiers are used up and all is deleted, the
bounded system stops.

`ReuseEndsFamily` speaks of the moment at which a client is refused (`pc` is
`"refused"`, between the revocation and the end of the handler), not of every moment
after a replay: detection and revocation are two calls, and an invocation evicted
between them leaves the family alive until the next replay.

## The module ProviderCredential

One owner, one Connector and one Resource Server, hence one row of each table. A
handler that needs an access token for the target claims the credential for 15
seconds, calls the Provider and writes back what it got, if the row still has the
version and the claim it knows.

| Variable | In the code |
|---|---|
| `connection` | `provider_connection.status` |
| `authorization` | `provider_resource_authorization.status` |
| `credential` | `provider_credential`: status, `credential_version`, refresh token, and the claim with what is left of it |
| `provider` | what the Provider makes of each refresh token it issued (external) |
| `resource`, `erased` | `api_resource.deleted_at`, `user.deleted_at` |
| `work` | the locals of the invocations in flight |

| Code | Actions |
|---|---|
| `refreshConnectionToken` | `ReadCredential`, `ClaimProviderCredentialRefresh`, then `PostRefresh`, `PostRefused` or `PostFails`, then `CompleteProviderCredentialRefresh` or `ReleaseProviderCredentialRefresh` |
| ... on `invalid_grant` | `RevokeProviderCredential`, `RevokeEmptyAuthorization`, two statements |
| `completeResourceConnectionIntent` | `ExchangeCode`, `UpsertProviderConnection`, `FindConnectionByProviderResource`, then `CreateResourceAuthorization`, or `CheckAuthorization` and `UpsertProviderCredential` |
| `disconnectProviderConnection`, `revokeResourceConnection` | `Disconnect`, `LoadConnection`, `PostRevocation`, `FindActiveAuthorization`, `RevokeConnection`, `RevokeProviderConnection` |
| `updateConnector` | `ListResourceAuthorizations`, `RevokeResourceAuthorizationsByConnector` |
| `deleteResource`, `erase` | `DeleteResource`, `EraseAccount` |
| any thrown await | `Abandon` |

The Provider may rotate a refresh token or not, answer `invalid_grant` for one it no
longer knows, withdraw one, or rotate one and have its answer lost. `Tick` lets
claims run out under their holders: the timers count down, so time needs no bound.

`OneRefreshPerClaim` excepts owners who consented more than once, and must. The
callback computes the next version from the row it has read. A refresh that
completes between this read and the callback's write stores that very version. Two
handlers may have read the refreshed row; one of them claims it and calls the
Provider; the callback stores the version again with other tokens and no claim; the
other then claims the row under the version it knows, and presents the token that
the first is presenting. `PROJECT.json` lists this as a hazard.

Bounds: two handlers overlap in every pair of operations; three tokens are a
consent and two rotations, or two consents and a rotation; `MaxVersion` 3 is the
number of times tokens can be stored from them. The three handlers of the story
above are beyond the run, not beyond the proof.

| Run | Question | Outcome |
|---|---|---|
| `ProviderCredential` | Does each claim cover one refresh, does a consent survive a slow refresh, and does what was revoked stay revoked? | `TypeOK`, `OneRefreshPerClaim`, `CredentialIsBacked`, `ErasedStaysRevoked`, `ClaimCoversTokens`, `RevokedUntilConsent` hold (0.97 million states) |

## The module AgentIdentity

A host stands for the protocol agent registered on it; a person enrolls it for an
Agent, new or existing. Every handler reads, checks and writes one batch, and the
unique indexes and triggers of the schema can abort the batch: `Insertable` and
`Bindable` are those constraints, evaluated on the state the batch finds.

| Variable | In the code |
|---|---|
| `agent` | `agent.status`, the registration of a host's key |
| `identity` | `agent_identity`: status, `deleted_at`, username |
| `binding` | `agent_identity_binding`, a set of rows |
| `intent` | `agent_enrollment_intent` |
| `creation` | `agent_application_creation`, by Idempotency-Key |
| `erased` | `user.deleted_at` of the person |
| `proc` | the locals of the invocations in flight |

| Code | Actions |
|---|---|
| `createAgentLoginIdentity` | `RequestIdentity`, `CheckHost`, `CheckName`, `CreateIdentity`; of a bound host `CheckName`, `ClaimIdentityProfile` |
| `createAgentEnrollmentIntent` | the same checks, then `InsertIntent`; of a bound host `CheckApproved`, `InsertIntent` |
| `createAdditionalAgentEnrollmentIntent` | `RequestInstallation`, `CheckHost`, `InsertIntent` |
| `approveAgentEnrollment` | `RequestApproval`, `CheckHost`, `CheckTarget`, `ApproveIntent` |
| `createAgentWithInstallation` | `RequestAgent`, `CheckInstallation`, `CheckName`, `InstallAgent`, `ReplayRaced`, `Answer`; `ReserveCreation` for an Agent of an earlier release |
| `revokeAgentIdentityHost` | `RevokeHost`, `RevokeBinding` |
| `recoverAgentIdentity`, `deactivateAgentIdentity`, `deleteAgentIdentity` | `RequestEnd`, `EndIdentity` |
| `activateAgentIdentity` | `RequestActivation`, `ActivateIdentity` |
| the Agent protocol's own endpoints | `RegisterAgent`, `RevokeAgent` |
| `erase`, a thrown await | `EraseAccount`, `Abandon` |

A name or a host that a check found free may be taken when the batch runs; then the
batch is refused as a whole. An approval may follow the deletion of the Agent it is
for; then the trigger refuses it. What the run shows is that the constraints leave
no gap between them, and its mutants drop one each. One table has no trigger on
erased owners: a replay that adopts an Agent of an earlier release may write its
reservation after the erasure. The row gives nothing, and `ErasedOwnsNothing` says so.

Bounds: two Agents, two hosts and two names let each handler meet another's choice
of each; one intent suffices for an approval against everything else; one
Idempotency-Key makes every two creations repeat each other. `HostRevocation` has
two intents, since a second host takes an intent of its own. A state constraint of
`MCAgentIdentity`, `IntentsAlone`, keeps a handler that is about to insert an intent
from overlapping with other handlers: an intent takes effect when it is approved,
and approvals overlap with everything. The proofs have no such constraint.

| Run | Question | Outcome |
|---|---|---|
| `AgentIdentity` | Whatever overlaps, do host, Agent and name keep to each other, and does what ended stay ended? | `TypeOK`, `DeletedStaysGone`, `ErasedOwnsNothing`, `EnrollmentIsWhole`, `ReplaysAgree`, `HostKeepsItsAgent`, `UsernameIsForGood` hold (0.7 million states) |
| `HostRevocation` | Does the revocation of a host leave the others alone? | No: the statement on the bindings names the Agent, not the host |

## The module AccountDeletion

| Variable | In the code |
|---|---|
| `erased` | `user.deleted_at` |
| `object`, `upload` | the bucket, and the uploads of avatars with their `asset` row |
| `job` | `account_deletion_cleanup`: `asset_keys`, `next_attempt_at`, `claim_id`, `claim_until` |
| `token`, `upstream` | the ciphertext left in a credential or lease, and what it stands for at the target or Provider |
| `resource` | the Resource Server behind these tokens |
| `announced` | `user.deleted` has been stored for delivery |
| `work` | the scheduled invocations |

| Code | Actions |
|---|---|
| `erase` | `EraseAccount` |
| `uploadAsset`, `enqueueAssetCleanup` | `PutObject`, `CreateAsset`, `TakeBackObject`, `EnqueueAssetCleanup` |
| `claim` | `ClaimJob` |
| `processAccountDeletionCleanup` | `DeleteObject`, `TakeUpToken`, `RevokeUpstream`, `RevokeUpstreamNowhere`, `ClearToken`, `PublishDeleted` |
| `finish`, `retry` | `FinishJob`, `RetryJob` |
| calls, statements and invocations that fail | the disjuncts of `Fault` |
| `deleteResource`, the clock | `DeleteResource`, `ComeDue`, `Lapse`, `ExpireLease` |

A cleanup goes on after an operation that failed and is put off at the end
(`failed`). Its claim may run out while it is at work (`LapseWhileBusy`), whereupon
another invocation takes the job over and both work on it. An upload that the
erasure overtook joins the job, also while it is worked on: `EnqueueAssetCleanup`
takes the claim away, so that `FinishJob` of the worker, which has not seen the
object, does nothing.

### Fairness

The only fairness of the project is `Fairness` of this module, for `CleanupEnds`:

* weak fairness of `Continue(w)` and `Upload(o)`: the runtime schedules an invocation
  until its promise settles;
* strong fairness of `ClaimJob` for each account: cron starts an invocation every
  five minutes, and it takes the jobs in the order in which they come due, at most
  ten of them, so that a job which keeps coming due is taken in the end. It is strong
  because a job which is being worked on cannot be claimed in between;
* weak fairness of `ComeDue`, `LapseOfTheDead` and `ExpireLease`: a clock.

`CleanupEnds` and `CleanupResumes` have the premise `<>[][~Fault]_vars`, that from some
moment on nothing fails any more and no invocation outlives its claim: without it a
cleanup may be put off for ever, and rightly so.

### Bounds and runs

One account with one avatar, one lease and one connection, and two invocations:
each kind of thing to clean up occurs, and an invocation that outlived its claim
meets its successor at every step. Two accounts share nothing but the invocations.

| Run | Question | Outcome |
|---|---|---|
| `AccountDeletion` | Is nothing forgotten, is nothing said too early, and does the cleanup end? | `TypeOK`, `NoOrphanedObject`, `DeletedAfterCleanup`, `ClearedWasRevoked`, `JobLeavesWhenDone`, `CleanupEnds` hold (0.25 million states) |
| `CleanupStuck` | Does the next invocation resume every cleanup? | No: the tokens of a deleted Resource Server can never be revoked |

`CleanupEnds` excepts what `CleanupStuck` shows (`Stranded`).

`DeletedAfterCleanup` says what `user.deleted` waits for: every token cleared and every
avatar saved at the erasure deleted. It does not say that no object is left. An upload
which joins the job later may still be stored when a worker that has outlived its claim
publishes the event; the object is not lost (`NoOrphanedObject`), and the job stays until
it is gone and the event has been stored (`JobLeavesWhenDone`).

A lease whose request has lost its connection (`ResetConnector` of `AgentAccess`)
cannot be revoked at its target either. It runs out as one of a deleted Resource Server
does, and is cleared then; the module knows only the latter cause.

## The module WebhookDelivery

| Variable | In the code |
|---|---|
| `endpoint`, `secret` | `webhook_endpoint`: its state, and whether its secret has been sealed |
| `request` | `webhook_delivery_request.status` |
| `attempt` | `webhook_delivery_attempt.status`, by request and idempotency key |
| `posted` | how often an attempt went out |
| `delivery` | the locals of the invocations in flight |

| Code | Actions |
|---|---|
| `publishWebhookEvent` | `ListSubscribedEndpoints`, `CreateRequest`, then an attempt |
| `createWebhookDeliveryAttempt` | `CreateAttempt`, then an attempt |
| `deliverWebhookRequestWithAttempt` | `FindRequest`, `ReserveAttempt`, `MarkPending`, `ReadSigningSecret`, `PostEvent`, `UpdateAttempt`, `SaveRequest` |
| `createWebhookEndpoint`, `updateWebhookEndpoint`, `rotateWebhookSecret`, `deleteWebhookEndpoint` | `CreateEndpoint`, `UpdateEndpoint`, `RotateSecret`, `DeleteEndpoint` |
| `erase`, an eviction | `EraseRequests`, `SenderDies` |

The status of a request is written by whichever attempt writes last, so a delivered
request may become failed; no property claims the contrary. Two senders, two
requests and one key besides the initial one let attempts of one request overlap
under the same key and under different ones, beside another request.

| Run | Question | Outcome |
|---|---|---|
| `WebhookDelivery` | Is an attempt sent once, is a delivered request's attempt delivered, and does what was removed stay away? | `TypeOK`, `OnePostPerAttempt`, `DeliveredByAnAttempt`, `RemovedStaysRemoved` hold (0.75 million states) |

## What is proved

The theorems below hold for every value of the constants, from the modules' ASSUMEs alone.

### AgentAccess_proofs

* `InductiveInvariant`: `Spec => []Inductive`;
* `TypeCorrect`: `Spec => []TypeOK`;
* `OnceUsedOnceHolds`: a once permission gives one lease at most;
* `LeaseOfDecidedRequestHolds`: a lease answers a consumed, hence approved, request,
  or one that the erasure has revoked since, and then it is revoked too;
* `ErasedHasNoAccessHolds`: nothing of an erased account's Agent is left to use;
* `DecisionIsFinalHolds`: the action property that decisions are final but for the
  erasure.

`OnceUsedOnce` is not inductive. Between its read and its batch an issue holds a
row that others may end, replace or change the mode of; whether its batch can
break the property depends on what the row may have become. `Inductive` adds
what was missing:

* `HandlersOK`: the shape of each handler's record at its program counter, and
  `Knows`, what a stale reading still says: a row that an issue has read has a
  generation no greater than the present one, and where it is the present row and
  that row is once, it was read as once (so the batch will end it); the request
  of a pending decision exists;
* `RequestsOK`, `LeasesOK`: a request that exists names a resource, a lease that
  exists names a request, and no lease names a row of a generation to come (so a
  new row is in no lease).

`Knows` survives any step that only makes rows advance (`RowsOnlyGrow`) and
requests advance (`RequestsOnlyAdvance`); `KnowsPreserved` says so once. Each
action then has one lemma, which shows those two relations, the shape of the
record it writes and the conjuncts it touches, and `InductiveInvariant` puts the
lemmas together. The erasure is the one step that takes a consumed request further;
it revokes the leases with it, which is what `RequestsOnlyAdvance` asks.

`ErasedHasNoAccess` is inductive beside `Inductive`. At the erasure everything ends
(`ErasedAfterErasure`). Afterwards each handler in flight has a lemma of its own which
shows that its write is refused or brings nothing back (`NothingComes`): a request
that is no longer pending gets no permission, a trigger aborts the batch, or an
update by identifier leaves an ended row ended.

### AgentAccessRecords_proofs

A second module on the same specification, about what its records tell of one another:

* `RecordsInvariant`: `Spec => []Records`, on top of `InductiveInvariant`;
* `ConsumedWasUsedHolds`, `AuditTellsDecisionHolds`, `RevokedAtTargetHolds`: three
  invariants of the runs;
* `ApprovalIsBackedHolds`, `LeaseRestsOnAuthorityHolds`: their two action properties.

The argument has two halves. `NextRequest`, `NextLease`, `NextTarget` and `NextOwner` say
once, for all actions, how a request, a lease, a Resource Server and the account may
change: a request moves on along its states, with its target, until it is revoked; a
lease that was recorded keeps its request and permissions and stays posted; a deleted
target stays deleted, an erased account erased. `Carries`
says what a handler that issues or revokes tokens has established: an issue has a
permission and the target of its request; the leases that a revocation has listed
exist, and those that are no longer in its `todo` were posted, or have no endpoint
that could still be called, or their account is erased. `CarriesKept` derives from the first half that no step of
another handler takes this away. `RevokedAtTarget` rests on it, because the lists
are made before the calls and used after them; `ConsumedWasUsed` needs `NoneIsEmpty`
and that a lease keeps its permissions; `AuditTellsDecision` follows from
`NextRequest` alone. `ApprovalIsBacked` is about one batch: where its last statement
finds every scope, the earlier ones have left an open row for each.

### RefreshRotation_proofs

* `RotationInvariant`: `Spec => []Inductive`;
* `RotationTypeCorrect`, `OneLiveTokenHolds`, `RevokedTogetherHolds`,
  `RotationIsWholeHolds`, `ReuseEndsFamilyHolds`: the five invariants of the run;
* `ChainImplemented`: `Spec => ImplementsChain`, the refinement.

`OneLiveToken` and `RevokedTogether` need each other: a rotation adds a live
token to a family, and adds the only one because its parent was the only one,
and into a family without a revoked row because a revoked row would have left
the parent unredeemable. Around them `Inductive` keeps

* `HandlersOK`: handlers share no new identifier, the identifier a handler will
  insert is still unused, and one that is about to revoke its own token does so
  in a family that has a revoked one already (otherwise `SelfRevoke` could leave
  a live token beside a revoked one);
* `RowsOK`: a row's family and parent were issued, and the parent is of the family;
* `FamiliesOK`: the rows of a family have one credential and are removed
  together, which is why neither the cascade nor `deleteResource` can take half of one;
* `AccessOK`: the access token of a refresh rests on its refresh token's credential,
  so that the cascade takes both.

Most steps only mark rows (`Marks`), and one lemma serves them all. The refinement
needs three facts about a step: the insert of a first token is `Begin`
(`ChainBegins`), a rotation is `Redeem` (`ChainRedeems`), and a step that issues
nothing and makes nothing redeemable (`Shrinks`) is `End` of the families whose
live token it takes, possibly none (`ChainEnds`).

### ProviderCredential_proofs

* `CredentialInvariant`: `Spec => []Inductive`;
* `CredentialTypeCorrect`, `OneRefreshPerClaimHolds`, `CredentialIsBackedHolds`,
  `ErasedStaysRevokedHolds`: the four invariants of the run;
* `ClaimCoversTokensHolds`, `RevokedUntilConsentHolds`: its two action properties.

The claim is a number of seconds and the version a counter that a callback may set
back; what excludes two refreshes under one claim is their combination.
`Inductive` adds

* `HandlersOK`: the shape of a handler's record at each step;
* `RowsOK`: an authorization and its credential are created together;
* `TokensOK`: every token in use was issued, and the token of a consent is with its
  callback alone until it is stored, so that no refresh presents it early;
* `ConsentsOK`: a row comes from a consent, and a callback beside it from another;
* `ClaimsOK`: as long as the owner consented once, a handler whose claim has not run
  out knows the version of the row, and is its claimant while the row is active.

`CredentialIsBacked` and `ErasedStaysRevoked` are inductive beside these.

### WebhookDelivery_proofs

* `DeliveryInvariant`: `Spec => []Inductive`; `TypeCorrect`, `SentAtMostOnce` and
  `DeliveredIsRecorded`: the three invariants of the run;
* `RemovedIsGone`: its action property.

`OnePostPerAttempt` needs that whoever is about to post has an attempt that was never
sent (`ReservedOK`), that nobody else holds it (`ExclusiveOK`), and that what can
still be reserved was never sent (`UnsentOK`). The last one speaks of stored requests
only: after a removal the identifier is not used again (`Unused`).
`DeliveredByAnAttempt` needs that the attempt a sender is to report is as the sender
left it, which holds because no other sender holds it.

### AgentIdentity_proofs

* `IdentityInvariant`: `Spec => []Inductive`; `TypeCorrect`, `DeletedIsGone`,
  `ErasedStaysEmpty`, `EnrollmentsAreWhole`, `AnswersAgree`: the invariants of the run;
* `HostsKeepTheirAgent`, `UsernamesAreForGood`: its two action properties.

What the handlers checked may be false when they write, so the proof rests on little
of it: `Knows` says that an Agent a handler names exists, that the intent it approves
is as it was read unless the account is erased, and that an answer names the Agent
reserved under its key. The rest comes from the constraints that the batch evaluates,
as invariants of the rows: a host has one binding (`BindingsOK`), a name one Agent
(`IdentitiesOK`), an intent an existing Agent (`IntentsOK`). `Evolves` says how rows
may change: Agents keep their names, hosts their bindings, and reservations last
until the erasure. One lemma shows that it preserves `Knows`, and the two action
properties are parts of it.

### AccountDeletion_proofs

* `DeletionInvariant`: `Spec => []Inductive`; `TypeCorrect`, `NoObjectIsForgotten`,
  `DeletionFollowsCleanup`, `ClearingFollowsRevocation`: the invariants of the run;
* `JobsLeaveWhenDone`: its action property.

The difficulty is the invocation that has outlived its claim. It works on, may
announce, and must not remove a job that has gained objects in between. `Holds` says
for what a worker answers (`Concerns`): for the avatars of the account, whoever holds
the job by now, because an erased account gets no further avatar; and for all that
the job names, only as long as the claim is still its own. `FinishJob` checks the
claim, so that the second is what `JobLeavesWhenDone` needs, with the fact that a worker
reaches `FinishJob` only through the publication (`FinishingAnnounced`); publication checks
nothing, so that the first is what `DeletedAfterCleanup` needs. `JobsOK` (a job names
settled objects of its account) and `UploadsOK` connect them with the uploads.

## What is only model-checked

`CleanupEnds` and, in the other direction, the five disagreements. `CleanupEnds` is
liveness under fairness, which the prover does not reason about; a disagreement is a
counterexample and needs no proof. Every other property of every passing run is a
theorem. The proofs have no bound on handlers, rows or identifiers; they say nothing
about the abstractions, which the sections above name.

## What is not modelled

Of the modelled components:

* Agent access: the contents of authorization details; who may see a Resource Server and
  which scopes it defines, so that `WithdrawScopes` chooses among the permissions freely;
  a `detached` permission once a new row has taken its place, which only an Agent's
  end, a withdrawal, the Resource Server's deletion or the erasure still reaches; the
  unique index on contexts without a connection, which may abort a `ResetConnector`
  as a whole; a host enrolled twice, which the schema excludes; and of an erased row
  anything but its status;
* account connections: intents before the callback, which are consumed once by a
  guarded update, and Resource Servers that share a Provider Connection;
* token exchange: the exchanges of Agent identity tokens and of delegated user
  tokens, which issue no refresh token, and introspection, which only reads.

Of the other components: DPoP's use of a proof is a single batch with a primary key;
Applications, Connectors, users, settings and onboarding write single rows; sign-in,
sessions and consent are Better Auth's; discovery documents, routes and the front
end are input and output. Most of the repository's lines are of this last kind.
Cryptography, token formats, validation of inputs, paging and logging are left
out: no property is about them.
