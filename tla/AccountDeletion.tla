--------------------------- MODULE AccountDeletion ---------------------------
(***************************************************************************)
(* The end of an account, and the cleanup that follows it.                 *)
(*                                                                         *)
(* One batch erases the account and leaves a job: the stored objects to    *)
(* delete, and the encrypted tokens whose grants are still to be revoked   *)
(* upstream.  A scheduled invocation claims a job for a while, works       *)
(* through all of it, publishes user.deleted and removes the job, or puts  *)
(* it off when anything failed.  Claims run out, invocations die and       *)
(* overlap, uploads of avatars race with the erasure, Resource Servers     *)
(* are deleted, and every call may fail.                                   *)
(*                                                                         *)
(* How user.deleted reaches an endpoint is WebhookDelivery's, what revokes *)
(* the rows themselves ProviderCredential's and AgentAccess's.  Time is    *)
(* left abstract: a job may come due, a claim or a token run out, at any   *)
(* moment.                                                                 *)
(***************************************************************************)
EXTENDS Naturals

CONSTANTS
  User,    \* accounts
  Object,  \* avatar objects (a bound on the uploads)
  Owner,   \* the account that uploads an object
  Worker,  \* scheduled invocations; also their claim ids
  None

ASSUME OwnerAssumption == Owner \in [Object -> User]
ASSUME NoneAssumption == None \notin User \cup Worker \cup {"lease", "connection"}

VARIABLES
  erased,   \* user.deleted_at
  object,   \* what the bucket holds: "none", "stored" or "gone"
  upload,   \* the upload of each object, to its end
  job,      \* account_deletion_cleanup, by account
  token,    \* encrypted tokens in the rows: "none", "held", "cleared"
  upstream, \* what they stand for: "live", "revoked" or "expired"
  resource, \* the Resource Server behind an account's tokens
  announced, \* user.deleted has been stored for delivery
  work      \* the scheduled invocations

rows == <<erased, object, upload, job, token, upstream, resource, announced>>
vars == <<rows, work>>

-----------------------------------------------------------------------------
(* Records *)

Kind == {"lease", "connection"}

\* queued: the row exists.  due: next_attempt_at has come.  claim, lapsed:
\* claim_id, and whether claim_until has passed.
Job ==
  [queued: BOOLEAN, objects: SUBSET Object, due: BOOLEAN,
   claim: Worker \cup {None}, lapsed: BOOLEAN]

NoJob ==
  [queued |-> FALSE, objects |-> {}, due |-> FALSE, claim |-> None, lapsed |-> FALSE]

\* left: the objects still to take up; kind: the token at hand.  failed:
\* something has failed.
Work ==
  [pc: {"idle", "objects", "revoke", "clear", "decide", "finish", "retry"} \cup Kind,
   user: User \cup {None}, left: SUBSET Object, kind: Kind \cup {None},
   failed: BOOLEAN]

Resting ==
  [pc |-> "idle", user |-> None, left |-> {}, kind |-> None, failed |-> FALSE]

UploadState == {"idle", "put", "saved", "refused", "undeleted", "over", "died"}

TypeOK ==
  /\ erased \in [User -> BOOLEAN]
  /\ object \in [Object -> {"none", "stored", "gone"}]
  /\ upload \in [Object -> UploadState]
  /\ job \in [User -> Job]
  /\ token \in [User -> [Kind -> {"none", "held", "cleared"}]]
  /\ upstream \in [User -> [Kind -> {"live", "revoked", "expired"}]]
  /\ resource \in [User -> {"enabled", "deleted"}]
  /\ announced \in [User -> BOOLEAN]
  /\ work \in [Worker -> Work]

-----------------------------------------------------------------------------
(* Helpers *)

At(w, pc) == work[w].pc = pc
Goto(w, pc) == work' = [work EXCEPT ![w].pc = pc]
Rest(w) == work' = [work EXCEPT ![w] = Resting]

\* The job still is the worker's.
Claimed(w) == job[work[w].user].claim = w

\* Mutant: a claim never runs out.
DueUnclaimed(u) == job[u].queued /\ job[u].due /\ job[u].claim = None

Due(u) == /\ job[u].queued /\ job[u].due
          /\ job[u].claim = None \/ job[u].lapsed

\* Mutant: a failure is noted and forgotten.
AfterAnyway(k, failed) == IF k = "lease" THEN "connection" ELSE "decide"

\* What follows the objects, and what follows a kind of token: at the end, a
\* cleanup in which something failed is incomplete and put off.
AfterObjects(left) == IF left = {} THEN "lease" ELSE "objects"
After(k, failed) ==
  IF k = "lease" THEN "connection" ELSE IF failed THEN "retry" ELSE "decide"

\* The token at hand is done with, or its revocation failed: attempt.
Proceed(w) == Goto(w, After(work[w].kind, work[w].failed))
ProceedFailing(w) ==
  work' = [work EXCEPT ![w].pc = After(work[w].kind, TRUE), ![w].failed = TRUE]

Uploading == {"put", "refused", "undeleted"}

Avatars(u) == {o \in Object : Owner[o] = u /\ upload[o] = "saved"}

-----------------------------------------------------------------------------
(* Erasure: erase *)

\* Mutant: the objects are listed after their rows are gone.
QueuedWithoutObjects(u) ==
  [NoJob EXCEPT !.queued = TRUE, !.due = TRUE]

QueuedJob(u) ==
  [NoJob EXCEPT !.queued = TRUE, !.objects = Avatars(u), !.due = TRUE]

\* One batch, the tombstone last.
EraseAccount(u) ==
  /\ ~erased[u]
  /\ erased' = [erased EXCEPT ![u] = TRUE]
  /\ job' = [job EXCEPT ![u] = QueuedJob(u)]
  /\ UNCHANGED <<object, upload, token, upstream, resource, announced, work>>

-----------------------------------------------------------------------------
(* Uploading: uploadAsset *)

PutObject(o) ==
  /\ upload[o] = "idle" /\ ~erased[Owner[o]]
  /\ object' = [object EXCEPT ![o] = "stored"]
  /\ upload' = [upload EXCEPT ![o] = "put"]
  /\ UNCHANGED <<erased, job, token, upstream, resource, work, announced>>

\* A trigger refuses the row of an erased account.
CreateAsset(o) ==
  /\ upload[o] = "put"
  /\ upload' = [upload EXCEPT ![o] = IF erased[Owner[o]] THEN "refused" ELSE "saved"]
  /\ UNCHANGED <<erased, object, job, token, upstream, resource, work, announced>>

\* The object is taken back at once, if the bucket can be reached.
TakeBackObject(o) ==
  /\ upload[o] = "refused"
  /\ \/ /\ object' = [object EXCEPT ![o] = "gone"]
        /\ upload' = [upload EXCEPT ![o] = "over"]
     \/ /\ upload' = [upload EXCEPT ![o] = "undeleted"]
        /\ UNCHANGED object
  /\ UNCHANGED <<erased, job, token, upstream, resource, work, announced>>

\* Mutant: the account's id is stored in place of the object's key.
EnqueuedOwner(u, o) ==
  [job[u] EXCEPT !.queued = TRUE, !.objects = @ \cup {u}, !.due = TRUE,
                 !.claim = None, !.lapsed = FALSE]

Enqueued(u, o) ==
  [job[u] EXCEPT !.queued = TRUE, !.objects = @ \cup {o}, !.due = TRUE,
                 !.claim = None, !.lapsed = FALSE]

\* The object joins the account's job, or a new one.
EnqueueAssetCleanup(o) ==
  /\ upload[o] = "undeleted"
  /\ job' = [job EXCEPT ![Owner[o]] = Enqueued(Owner[o], o)]
  /\ upload' = [upload EXCEPT ![o] = "over"]
  /\ UNCHANGED <<erased, object, token, upstream, resource, work, announced>>

\* The invocation of an upload is evicted.
UploadDies(o) ==
  /\ upload[o] \in Uploading
  /\ upload' = [upload EXCEPT ![o] = "died"]
  /\ UNCHANGED <<erased, object, job, token, upstream, resource, work, announced>>

-----------------------------------------------------------------------------
(* Cleaning up: processAccountDeletionCleanup *)

ClaimJob(w, u) ==
  /\ At(w, "idle") /\ Due(u)
  /\ job' = [job EXCEPT ![u].claim = w, ![u].lapsed = FALSE]
  /\ work' = [work EXCEPT ![w] = [Resting EXCEPT
       !.pc = AfterObjects(job[u].objects), !.user = u, !.left = job[u].objects]]
  /\ UNCHANGED <<erased, object, upload, token, upstream, resource, announced>>

DeleteObject(w) ==
  /\ At(w, "objects")
  /\ \E o \in work[w].left :
       /\ object' = [object EXCEPT ![o] = "gone"]
       /\ work' = [work EXCEPT ![w].left = @ \ {o},
                                ![w].pc = AfterObjects(work[w].left \ {o})]
  /\ UNCHANGED <<erased, upload, job, token, upstream, resource, announced>>

DeleteObjectFails(w) ==
  /\ At(w, "objects")
  /\ \E o \in work[w].left :
       work' = [work EXCEPT ![w].left = @ \ {o}, ![w].failed = TRUE,
                             ![w].pc = AfterObjects(work[w].left \ {o})]
  /\ UNCHANGED <<erased, object, upload, job, token, upstream, resource, announced>>

\* pendingLeases, pendingConnections: a row that still holds a token is taken
\* up, a lease before a connection.
TakeUpToken(w, k) ==
  /\ At(w, k)
  /\ IF token[work[w].user][k] = "held"
     THEN work' = [work EXCEPT ![w].pc = "revoke", ![w].kind = k]
     ELSE Goto(w, After(k, work[w].failed))
  /\ UNCHANGED rows

\* A lease that has run out needs no call; any other token is revoked by the
\* Resource Server's authorization, which must still be registered.
NeedsNoCall(w) ==
  work[w].kind = "lease" /\ upstream[work[w].user]["lease"] = "expired"

Reachable(w) == NeedsNoCall(w) \/ resource[work[w].user] = "enabled"

Revoked(w) ==
  [upstream EXCEPT ![work[w].user][work[w].kind] =
     IF NeedsNoCall(w) THEN "expired" ELSE "revoked"]

RevokeUpstream(w) ==
  /\ At(w, "revoke") /\ Reachable(w)
  /\ upstream' = Revoked(w)
  /\ Goto(w, "clear")
  /\ UNCHANGED <<erased, object, upload, job, token, resource, announced>>

\* "Resource Server was not found."
RevokeUpstreamNowhere(w) ==
  /\ At(w, "revoke") /\ ~Reachable(w)
  /\ ProceedFailing(w)
  /\ UNCHANGED rows

\* The call or a statement throws, perhaps after the call has arrived.
RevokeUpstreamFails(w) ==
  /\ \/ At(w, "revoke") /\ Reachable(w)
     \/ At(w, "clear")
  /\ ProceedFailing(w)
  /\ upstream' \in {upstream, Revoked(w)}
  /\ UNCHANGED <<erased, object, upload, job, token, resource, announced>>

\* Mutant: the token is cleared although the call has failed.
ClearTokenAnyway(w) ==
  /\ work[w].pc \in {"revoke", "clear"}
  /\ token' = [token EXCEPT ![work[w].user][work[w].kind] = "cleared"]
  /\ Proceed(w)
  /\ UNCHANGED <<erased, object, upload, job, upstream, resource, announced>>

ClearToken(w) ==
  /\ At(w, "clear")
  /\ token' = [token EXCEPT ![work[w].user][work[w].kind] = "cleared"]
  /\ Proceed(w)
  /\ UNCHANGED <<erased, object, upload, job, upstream, resource, announced>>

\* Nothing has failed: user.deleted is published under the account's id.
PublishDeleted(w) ==
  /\ At(w, "decide")
  /\ announced' = [announced EXCEPT ![work[w].user] = TRUE]
  /\ Goto(w, "finish")
  /\ UNCHANGED <<erased, object, upload, job, token, upstream, resource>>

\* Publishing may throw before the event is stored or after.
PublishThrows(w) ==
  /\ At(w, "decide")
  /\ \E stored \in BOOLEAN :
       announced' = [announced EXCEPT ![work[w].user] = @ \/ stored]
  /\ Goto(w, "retry")
  /\ UNCHANGED <<erased, object, upload, job, token, upstream, resource>>

\* Mutant: the job goes whoever has claimed it since.
FinishAnyJob(w) ==
  /\ At(w, "finish")
  /\ job' = [job EXCEPT ![work[w].user] = NoJob]
  /\ Rest(w)
  /\ UNCHANGED <<erased, object, upload, token, upstream, resource, announced>>

FinishJob(w) ==
  /\ At(w, "finish")
  /\ job' = [job EXCEPT ![work[w].user] = IF Claimed(w) THEN NoJob ELSE @]
  /\ Rest(w)
  /\ UNCHANGED <<erased, object, upload, token, upstream, resource, announced>>

\* The job is put off, for a minute at first and an hour at most.
RetryJob(w) ==
  /\ At(w, "retry")
  /\ job' = [job EXCEPT ![work[w].user] =
               IF Claimed(w)
               THEN [@ EXCEPT !.due = FALSE, !.claim = None, !.lapsed = FALSE]
               ELSE @]
  /\ Rest(w)
  /\ UNCHANGED <<erased, object, upload, token, upstream, resource, announced>>

\* A statement of the invocation throws and the job is put off.
WorkerThrows(w) ==
  /\ work[w].pc \in {"lease", "connection", "finish"}
  /\ Goto(w, "retry")
  /\ UNCHANGED rows

\* The invocation is evicted; its claim stays in the row.  At its very end
\* there must be a claim to lose.
WorkerDies(w) ==
  /\ ~At(w, "idle")
  /\ work[w].pc \in {"finish", "retry"} => Claimed(w)
  /\ Rest(w)
  /\ UNCHANGED rows

-----------------------------------------------------------------------------
(* Time, and what others do *)

ComeDue(u) ==
  /\ job[u].queued /\ ~job[u].due
  /\ job' = [job EXCEPT ![u].due = TRUE]
  /\ UNCHANGED <<erased, object, upload, token, upstream, resource, work, announced>>

\* The holder of the claim is still at work on the job.
Busy(u) == job[u].claim # None /\ work[job[u].claim].user = u

Lapse(u) ==
  /\ job[u].claim # None /\ ~job[u].lapsed
  /\ job' = [job EXCEPT ![u].lapsed = TRUE]
  /\ UNCHANGED <<erased, object, upload, token, upstream, resource, work, announced>>

LapseWhileBusy(u) == Busy(u) /\ Lapse(u)
LapseOfTheDead(u) == ~Busy(u) /\ Lapse(u)

ExpireLease(u) ==
  /\ upstream[u]["lease"] # "expired"
  /\ upstream' = [upstream EXCEPT ![u]["lease"] = "expired"]
  /\ UNCHANGED <<erased, object, upload, job, token, resource, work, announced>>

\* The tokens in the rows stay, and so does what they stand for at the
\* Provider.
DeleteResource(u) ==
  /\ resource[u] = "enabled"
  /\ resource' = [resource EXCEPT ![u] = "deleted"]
  /\ UNCHANGED <<erased, object, upload, job, token, upstream, work, announced>>

-----------------------------------------------------------------------------
Init ==
  /\ erased = [u \in User |-> FALSE]
  /\ object = [o \in Object |-> "none"]
  /\ upload = [o \in Object |-> "idle"]
  /\ job = [u \in User |-> NoJob]
  /\ token = [u \in User |-> [k \in Kind |-> "held"]]
  /\ upstream = [u \in User |-> [k \in Kind |-> "live"]]
  /\ resource = [u \in User |-> "enabled"]
  /\ announced = [u \in User |-> FALSE]
  /\ work = [w \in Worker |-> Resting]

Upload(o) ==
  CreateAsset(o) \/ TakeBackObject(o) \/ EnqueueAssetCleanup(o)

\* What goes wrong: calls that fail, invocations that throw, die, or take
\* longer than their claim.
Fault ==
  \/ \E o \in Object : UploadDies(o)
  \/ \E u \in User : LapseWhileBusy(u)
  \/ \E w \in Worker : \/ DeleteObjectFails(w) \/ RevokeUpstreamFails(w)
                       \/ PublishThrows(w) \/ WorkerThrows(w) \/ WorkerDies(w)

Continue(w) ==
  \/ DeleteObject(w)
  \/ \E k \in Kind : TakeUpToken(w, k)
  \/ RevokeUpstream(w) \/ RevokeUpstreamNowhere(w) \/ ClearToken(w)
  \/ PublishDeleted(w) \/ FinishJob(w) \/ RetryJob(w)

Next ==
  \/ Fault
  \/ \E u \in User : \/ EraseAccount(u) \/ ComeDue(u) \/ LapseOfTheDead(u)
                     \/ ExpireLease(u) \/ DeleteResource(u)
  \/ \E o \in Object : PutObject(o) \/ Upload(o)
  \/ \E w \in Worker : Continue(w) \/ \E u \in User : ClaimJob(w, u)

\* Cron starts an invocation every five minutes, jobs are taken in the order
\* in which they come due, and the runtime keeps an invocation going.
Fairness ==
  /\ \A w \in Worker : WF_vars(Continue(w))
  /\ \A o \in Object : WF_vars(Upload(o))
  /\ \A u \in User :
       /\ SF_vars(\E w \in Worker : ClaimJob(w, u))
       /\ WF_vars(ComeDue(u))
       /\ WF_vars(LapseOfTheDead(u))
       /\ WF_vars(ExpireLease(u))

Spec == Init /\ [][Next]_vars /\ Fairness

-----------------------------------------------------------------------------
(* Properties *)

\* No object of an erased account is forgotten: the job names it, or its
\* upload is still to settle it, unless that upload was evicted.  An upload
\* may be refused while the job it joins is being finished
\* (enqueueAssetCleanup, finish).
NoOrphanedObject ==
  \A o \in Object :
    object[o] = "stored" /\ erased[Owner[o]] =>
      \/ job[Owner[o]].queued /\ o \in job[Owner[o]].objects
      \/ upload[o] \in Uploading \cup {"died"}

\* user.deleted is stored only after every token has been cleared and every avatar
\* saved at the erasure deleted ("After cleanup, the worker publishes
\* user.deleted"), even by an invocation whose claim has run out.  It does not
\* wait for an object that joined the job later (enqueueAssetCleanup): such a
\* worker has never seen it.
DeletedAfterCleanup ==
  \A u \in User :
    announced[u] =>
      /\ \A k \in Kind : token[u][k] # "held"
      /\ \A o \in Avatars(u) : object[o] = "gone"

\* Ciphertext goes only after what it stands for has ended
\* (revokeDeletedAccountConnection, clearConnection).
ClearedWasRevoked ==
  \A u \in User, k \in Kind : token[u][k] = "cleared" => upstream[u][k] # "live"

\* A job is removed only when nothing it names is left, whatever it gained
\* while it was worked on, and only after its user.deleted has been stored.
JobLeavesWhenDone ==
  [][\A u \in User :
       job[u].queued /\ ~job'[u].queued =>
         /\ announced[u]
         /\ \A o \in job[u].objects : object[o] = "gone"
         /\ \A k \in Kind : token[u][k] # "held"]_vars

\* The tokens of a deleted Resource Server can no longer be revoked.
Stranded(u) == resource[u] = "deleted" /\ token[u]["connection"] = "held"

\* Once nothing fails any more, the cleanup of every erased account comes to
\* its end: no claim of a dead invocation, and no put-off job, is left behind.
CleanupEnds ==
  (<>[][~Fault]_vars) =>
    \A u \in User : [](erased[u] => <>(~job[u].queued \/ Stranded(u)))

\* "Fix the failing provider/storage/configuration cause; the next scheduled
\* invocation resumes cleanup": every cleanup ends once nothing fails.
CleanupResumes ==
  (<>[][~Fault]_vars) => \A u \in User : [](erased[u] => <>(~job[u].queued))
=============================================================================
