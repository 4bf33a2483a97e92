----------------------- MODULE AccountDeletion_proofs -----------------------
(***************************************************************************)
(* Proofs about AccountDeletion, for any number of accounts, uploads and   *)
(* scheduled invocations: no object of an erased account is forgotten, no  *)
(* deletion is announced while a token or a saved avatar is left, no job   *)
(* is removed before all it names is done and announced, and no ciphertext *)
(* goes before what it stands for has ended.                               *)
(***************************************************************************)
EXTENDS AccountDeletion, TLAPS

-----------------------------------------------------------------------------
(* The inductive invariant *)

\* Uploads that have come to an end with an object to their name.
Settled == {"saved", "over"}

\* Exactly an upload that has not begun stored nothing; a row is refused only after the
\* account is erased.
UploadsOK ==
  \A o \in Object :
    /\ upload[o] = "idle" <=> object[o] = "none"
    /\ upload[o] \in {"refused", "undeleted", "over"} => erased[Owner[o]]

\* A job is of an erased account and names settled objects of that account.
JobsOK ==
  \A u \in User :
    /\ job[u].queued \/ announced[u] => erased[u]
    /\ \A o \in job[u].objects : Owner[o] = u /\ upload[o] \in Settled

\* The worker is past the leases of its account, or past all tokens.
PastLeases(r) ==
  \/ r.pc \in {"connection", "decide", "finish"}
  \/ r.pc \in {"revoke", "clear"} /\ r.kind = "connection"
PastTokens(r) == r.pc \in {"decide", "finish"}

\* Objects the worker w answers for: the avatars, whoever holds the job by now,
\* and all that the job names while it is w's.
Concerns(w, r, o, up, jb) ==
  \/ Owner[o] = r.user /\ up[o] = "saved"
  \/ jb[r.user].claim = w /\ o \in jb[r.user].objects

\* What the record r of a worker w at work says of the rows, and of itself.
Holds(w, r, gone, ob, up, jb, tk, us) ==
  r.pc # "idle" =>
    /\ r.user \in User /\ gone[r.user]
    /\ r.pc \in {"revoke", "clear"} => r.kind \in Kind
    /\ r.pc # "objects" => r.left = {}
    /\ PastTokens(r) => ~r.failed /\ tk[r.user]["connection"] # "held"
    /\ \A o \in r.left : up[o] \in Settled
    /\ ~r.failed =>
         /\ \A o \in Object : Concerns(w, r, o, up, jb) => o \in r.left \/ ob[o] = "gone"
         /\ PastLeases(r) => tk[r.user]["lease"] # "held"
    /\ r.pc = "clear" => us[r.user][r.kind] # "live"

WorkersOK ==
  \A w \in Worker : Holds(w, work[w], erased, object, upload, job, token, upstream)

Inductive ==
  /\ TypeOK /\ UploadsOK /\ JobsOK /\ WorkersOK
  /\ NoOrphanedObject /\ DeletedAfterCleanup /\ ClearedWasRevoked

-----------------------------------------------------------------------------
(* How rows may change under the workers *)

\* What is erased, settled, deleted, cleared or revoked stays so, and an erased
\* account gets no further avatar.
Evolves ==
  /\ \A u \in User : erased[u] => erased'[u]
  /\ \A o \in Object :
       /\ upload[o] \in Settled => upload'[o] = upload[o]
       /\ erased[Owner[o]] /\ upload'[o] = "saved" => upload[o] = "saved"
       /\ upload[o] \in Settled /\ object[o] = "gone" => object'[o] = "gone"
  /\ \A u \in User, k \in Kind :
       /\ token[u][k] # "held" => token'[u][k] # "held"
       /\ upstream[u][k] # "live" => upstream'[u][k] # "live"

\* No job becomes the worker's, and none of its jobs names more than before.
GainsNoJob(w) ==
  \A u \in User : job'[u].claim = w =>
    job[u].claim = w /\ job'[u].objects \subseteq job[u].objects

\* A job is removed only when all is done.
LeavesWhenDone ==
  \A u \in User :
    job[u].queued /\ ~job'[u].queued =>
      /\ \A o \in job[u].objects : object[o] = "gone"
      /\ \A k \in Kind : token[u][k] # "held"

\* What Inductive says of the rows alone.
RowsOK ==
  /\ erased \in [User -> BOOLEAN]
  /\ object \in [Object -> {"none", "stored", "gone"}]
  /\ upload \in [Object -> UploadState]
  /\ job \in [User -> Job]
  /\ token \in [User -> [Kind -> {"none", "held", "cleared"}]]
  /\ upstream \in [User -> [Kind -> {"live", "revoked", "expired"}]]
  /\ resource \in [User -> {"enabled", "deleted"}]
  /\ announced \in [User -> BOOLEAN]
  /\ UploadsOK /\ JobsOK
  /\ NoOrphanedObject /\ DeletedAfterCleanup /\ ClearedWasRevoked

LEMMA RowsOfInductive == Inductive => RowsOK
BY DEF Inductive, RowsOK, TypeOK

LEMMA HoldsPreserved ==
  ASSUME RowsOK, Evolves, NEW w \in Worker, NEW r \in Work, GainsNoJob(w),
         Holds(w, r, erased, object, upload, job, token, upstream)
  PROVE  Holds(w, r, erased', object', upload', job', token', upstream')
<1> SUFFICES ASSUME r.pc # "idle"
             PROVE  Holds(w, r, erased', object', upload', job', token', upstream')
  BY DEF Holds
<1>1. r.user \in User /\ erased[r.user] /\ (r.pc \in {"revoke", "clear"} => r.kind \in Kind)
  BY DEF Holds
<1>2. erased'[r.user]
  BY <1>1 DEF Evolves
<1>3. PastTokens(r) => ~r.failed /\ token'[r.user]["connection"] # "held"
  BY <1>1 DEF Holds, Evolves, Kind
<1>4. \A o \in r.left : o \in Object /\ upload[o] \in Settled
  BY DEF Holds, Work
<1>5. \A o \in r.left : upload'[o] \in Settled
  BY <1>4 DEF Evolves
<1>6. ASSUME ~r.failed, NEW o \in Object, Concerns(w, r, o, upload', job')
      PROVE  o \in r.left \/ object'[o] = "gone"
  <2>1. Concerns(w, r, o, upload, job)
    BY <1>1, <1>6 DEF Concerns, Evolves, GainsNoJob
  <2>2. upload[o] \in Settled
    BY <1>1, <2>1 DEF Concerns, RowsOK, JobsOK, Settled
  <2>3. o \in r.left \/ object[o] = "gone"
    BY <1>6, <2>1 DEF Holds
  <2> QED BY <2>2, <2>3 DEF Evolves
<1>7. ~r.failed /\ PastLeases(r) => token'[r.user]["lease"] # "held"
  BY <1>1 DEF Holds, Evolves, Kind
<1>8. r.pc = "clear" => upstream'[r.user][r.kind] # "live"
  BY <1>1 DEF Holds, Evolves
<1>9. r.pc # "objects" => r.left = {}
  BY DEF Holds
<1> QED BY <1>1, <1>2, <1>3, <1>5, <1>6, <1>7, <1>8, <1>9 DEF Holds

LEMMA WorkerFacts ==
  ASSUME Inductive, NEW w \in Worker
  PROVE  /\ work[w] \in Work /\ RowsOK
         /\ Holds(w, work[w], erased, object, upload, job, token, upstream)
BY RowsOfInductive DEF Inductive, TypeOK, WorkersOK

\* The worker w goes on with the record r, while the rows evolve.
LEMMA WorkStep ==
  ASSUME Inductive, Evolves, RowsOK', NEW w \in Worker, NEW r \in Work,
         work' = [work EXCEPT ![w] = r],
         Holds(w, r, erased', object', upload', job', token', upstream'),
         \A v \in Worker : v # w => GainsNoJob(v)
  PROVE  Inductive'
<1>1. /\ work' \in [Worker -> Work] /\ work'[w] = r
      /\ \A v \in Worker : v # w => work'[v] = work[v]
  BY DEF Inductive, TypeOK
<1>2. ASSUME NEW v \in Worker, v # w
      PROVE  Holds(v, work[v], erased', object', upload', job', token', upstream')
  BY <1>2, WorkerFacts, HoldsPreserved
<1>3. WorkersOK'
  BY <1>1, <1>2 DEF WorkersOK
<1>4. TypeOK'
  BY <1>1 DEF RowsOK, TypeOK
<1> QED BY <1>3, <1>4 DEF RowsOK, Inductive

LEMMA RowsStep ==
  ASSUME Inductive, Evolves, RowsOK', work' = work, \A v \in Worker : GainsNoJob(v)
  PROVE  Inductive'
<1>1. ASSUME NEW v \in Worker
      PROVE  Holds(v, work[v], erased', object', upload', job', token', upstream')
  BY <1>1, WorkerFacts, HoldsPreserved
<1>2. WorkersOK'
  BY <1>1 DEF WorkersOK
<1>3. TypeOK'
  BY DEF RowsOK, TypeOK, Inductive
<1> QED BY <1>2, <1>3 DEF RowsOK, Inductive

LEMMA RowsKept ==
  ASSUME RowsOK, UNCHANGED rows
  PROVE  /\ Evolves /\ RowsOK' /\ LeavesWhenDone
         /\ \A v \in Worker : GainsNoJob(v)
<1>1. UNCHANGED <<erased, object, upload, job, token, upstream, resource, announced>>
  BY DEF rows
<1>2. Evolves
  BY <1>1 DEF Evolves
<1>3. RowsOK'
  BY <1>1 DEF RowsOK, UploadsOK, JobsOK, NoOrphanedObject, DeletedAfterCleanup,
              ClearedWasRevoked, Avatars
<1>4. LeavesWhenDone /\ \A v \in Worker : GainsNoJob(v)
  BY <1>1 DEF LeavesWhenDone, GainsNoJob
<1> QED BY <1>2, <1>3, <1>4

LEMMA QuietStep ==
  ASSUME Inductive, UNCHANGED rows, NEW w \in Worker, NEW r \in Work,
         work' = [work EXCEPT ![w] = r],
         Holds(w, r, erased, object, upload, job, token, upstream)
  PROVE  Inductive' /\ LeavesWhenDone
<1>1. RowsOK
  BY RowsOfInductive
<1>2. Evolves /\ RowsOK' /\ LeavesWhenDone /\ \A v \in Worker : GainsNoJob(v)
  BY <1>1, RowsKept
<1>3. UNCHANGED <<erased, object, upload, job, token, upstream>>
  BY DEF rows
<1> QED BY <1>2, <1>3, WorkStep

LEMMA RestingFields ==
  /\ Resting \in Work /\ Resting.pc = "idle"
  /\ \A w : Holds(w, Resting, erased, object, upload, job, token, upstream)
  /\ \A w : Holds(w, Resting, erased', object', upload', job', token', upstream')
BY DEF Resting, Work, Holds

LEMMA GotoIs ==
  ASSUME Inductive, NEW w \in Worker, NEW pc, Goto(w, pc)
  PROVE  work' = [work EXCEPT ![w] = [work[w] EXCEPT !.pc = pc, !.failed = work[w].failed]]
<1> DEFINE r == work[w]
<1>1. r \in Work
  BY WorkerFacts
<1>2. [r EXCEPT !.pc = pc] = [r EXCEPT !.pc = pc, !.failed = r.failed]
  BY <1>1 DEF Work
<1> QED BY <1>2 DEF Goto

-----------------------------------------------------------------------------
(* Workers that write nothing but their own record *)

LEMMA RestStep ==
  ASSUME Inductive, UNCHANGED rows, NEW w \in Worker, Rest(w)
  PROVE  Inductive' /\ LeavesWhenDone
BY RestingFields, QuietStep DEF Rest

\* A worker goes on to pc and has not passed more than it had, or has failed.
LEMMA OnwardHolds ==
  ASSUME NEW w, NEW r \in Work, NEW v \in Work, NEW gone, NEW ob, NEW up, NEW jb, NEW tk, NEW us,
         Holds(w, r, gone, ob, up, jb, tk, us), r.pc \notin {"idle", "objects"},
         v.user = r.user, v.left = r.left, v.kind = r.kind, r.failed => v.failed,
         v.pc \in {"connection", "decide", "finish", "retry", "clear"},
         v.pc = "clear" => r.kind \in Kind /\ us[r.user][r.kind] # "live",
         PastTokens(v) => ~v.failed /\ tk[r.user]["connection"] # "held",
         ~v.failed /\ PastLeases(v) => tk[r.user]["lease"] # "held"
  PROVE  Holds(w, v, gone, ob, up, jb, tk, us)
<1>1. /\ r.user \in User /\ gone[r.user] /\ r.left = {}
      /\ ~r.failed => \A o \in Object : Concerns(w, r, o, up, jb) => ob[o] = "gone"
  BY DEF Holds
<1>2. v.left = {}
  BY <1>1
<1>3. v.pc \in {"revoke", "clear"} => v.kind \in Kind
  OBVIOUS
<1>4. ~v.failed => \A o \in Object : Concerns(w, v, o, up, jb) => o \in v.left \/ ob[o] = "gone"
  BY <1>1 DEF Concerns
<1> QED BY <1>1, <1>2, <1>3, <1>4 DEF Holds

LEMMA ProceedFailingIs ==
  ASSUME Inductive, NEW w \in Worker, ProceedFailing(w)
  PROVE  LET pc == After(work[w].kind, TRUE)
         IN /\ work' = [work EXCEPT ![w] = [work[w] EXCEPT !.pc = pc, !.failed = TRUE]]
            /\ pc \in {"connection", "retry"}
<1>1. work \in [Worker -> Work]
  BY DEF Inductive, TypeOK
<1> DEFINE pc == After(work[w].kind, TRUE)
<1>2. pc \in {"connection", "retry"}
  BY DEF After
<1> HIDE DEF pc
<1>3. work' = [work EXCEPT ![w].pc = pc, ![w].failed = TRUE]
  BY DEF ProceedFailing, pc
<1>4. work' = [work EXCEPT ![w] = [work[w] EXCEPT !.pc = pc, !.failed = TRUE]]
  BY <1>1, <1>3
<1> QED BY <1>2, <1>4 DEF pc

LEMMA WorkerThrowsStep ==
  ASSUME Inductive, NEW w \in Worker, WorkerThrows(w)
  PROVE  Inductive' /\ LeavesWhenDone
<1> DEFINE r == work[w]
           v == [r EXCEPT !.pc = "retry", !.failed = r.failed]
<1>1. /\ r \in Work /\ Holds(w, r, erased, object, upload, job, token, upstream)
      /\ r.failed \in BOOLEAN
  BY WorkerFacts DEF Work
<1>2. /\ UNCHANGED rows /\ r.pc \in {"lease", "connection", "finish"}
      /\ work' = [work EXCEPT ![w] = v]
  BY GotoIs DEF WorkerThrows
<1>3. /\ v \in Work /\ v.pc = "retry" /\ v.failed = r.failed /\ v.user = r.user
      /\ v.left = r.left /\ v.kind = r.kind
  BY <1>1 DEF Work, Kind
<1> HIDE DEF v
<1>4. ~PastTokens(v) /\ ~PastLeases(v)
  BY <1>3 DEF PastTokens, PastLeases
<1>5. Holds(w, v, erased, object, upload, job, token, upstream)
  BY <1>1, <1>2, <1>3, <1>4, OnwardHolds
<1> QED BY <1>2, <1>3, <1>5, QuietStep

LEMMA DeleteObjectFailsStep ==
  ASSUME Inductive, NEW w \in Worker, DeleteObjectFails(w)
  PROVE  Inductive' /\ LeavesWhenDone
<1> DEFINE r == work[w]
<1>1. r \in Work /\ Holds(w, r, erased, object, upload, job, token, upstream)
  BY WorkerFacts
<1>2. UNCHANGED rows /\ r.pc = "objects"
  BY DEF DeleteObjectFails, At, rows
<1>3. PICK o \in r.left :
        work' = [work EXCEPT ![w].left = @ \ {o}, ![w].failed = TRUE,
                              ![w].pc = AfterObjects(r.left \ {o})]
  BY DEF DeleteObjectFails
<1> DEFINE pc == AfterObjects(r.left \ {o})
           v == [r EXCEPT !.left = r.left \ {o}, !.failed = TRUE, !.pc = pc]
<1>4. work' = [work EXCEPT ![w] = v]
  BY <1>3 DEF Inductive, TypeOK, Work
<1>5. pc \in {"lease", "objects"} /\ (pc = "lease" => r.left \ {o} = {})
  BY DEF AfterObjects
<1> HIDE DEF pc
<1>6. /\ v \in Work /\ v.pc = pc /\ v.failed /\ v.user = r.user /\ v.left = r.left \ {o}
  BY <1>1, <1>5 DEF Work, Kind
<1> HIDE DEF v
<1>7. Holds(w, v, erased, object, upload, job, token, upstream)
  BY <1>1, <1>2, <1>5, <1>6 DEF Holds, PastTokens
<1> QED BY <1>2, <1>4, <1>6, <1>7, QuietStep

LEMMA TakeUpTokenStep ==
  ASSUME Inductive, NEW w \in Worker, NEW k \in Kind, TakeUpToken(w, k)
  PROVE  Inductive' /\ LeavesWhenDone
<1> DEFINE r == work[w]
<1>1. r \in Work /\ Holds(w, r, erased, object, upload, job, token, upstream)
  BY WorkerFacts
<1>2. UNCHANGED rows /\ r.pc = k /\ k \in {"lease", "connection"}
  BY DEF TakeUpToken, At, rows, Kind
<1>3. ASSUME work' = [work EXCEPT ![w].pc = "revoke", ![w].kind = k]
      PROVE  Inductive' /\ LeavesWhenDone
  <2> DEFINE v == [r EXCEPT !.pc = "revoke", !.kind = k]
  <2>1. work' = [work EXCEPT ![w] = v]
    BY <1>3 DEF Inductive, TypeOK, Work
  <2>2. /\ v \in Work /\ v.pc = "revoke" /\ v.kind = k /\ v.failed = r.failed
        /\ v.user = r.user /\ v.left = r.left
    BY <1>1 DEF Work
  <2> HIDE DEF v
  <2>3. ~PastTokens(v) /\ (PastLeases(v) => PastLeases(r))
    BY <1>2, <2>2 DEF PastTokens, PastLeases
  <2>4. Holds(w, v, erased, object, upload, job, token, upstream)
    BY <1>1, <1>2, <2>2, <2>3 DEF Holds, Concerns
  <2> QED BY <1>2, <2>1, <2>2, <2>4, QuietStep
<1>4. ASSUME token[r.user][k] # "held", Goto(w, After(k, r.failed))
      PROVE  Inductive' /\ LeavesWhenDone
  <2> DEFINE pc == After(k, r.failed)
             v == [r EXCEPT !.pc = pc, !.failed = r.failed]
  <2>1. /\ pc \in {"connection", "decide", "retry"}
        /\ pc = "connection" => k = "lease"
        /\ pc = "decide" => k = "connection" /\ ~r.failed
    BY <1>2 DEF After
  <2>2. work' = [work EXCEPT ![w] = v]
    BY <1>4, GotoIs
  <2> HIDE DEF pc
  <2>3. r.failed \in BOOLEAN
    BY <1>1 DEF Work
  <2>4. /\ v \in Work /\ v.pc = pc /\ v.failed = r.failed /\ v.user = r.user
        /\ v.left = r.left /\ v.kind = r.kind
    BY <1>1, <2>1, <2>3 DEF Work, Kind
  <2> HIDE DEF v
  <2>5. PastTokens(v) => ~v.failed /\ token[r.user]["connection"] # "held"
    BY <1>4, <2>1, <2>4 DEF PastTokens
  <2>6. ~v.failed /\ PastLeases(v) => token[r.user]["lease"] # "held"
    BY <1>1, <1>2, <1>4, <2>1, <2>4 DEF PastLeases, Holds
  <2>7. Holds(w, v, erased, object, upload, job, token, upstream)
    BY <1>1, <1>2, <2>1, <2>4, <2>5, <2>6, OnwardHolds
  <2> QED BY <1>2, <2>2, <2>4, <2>7, QuietStep
<1> QED BY <1>3, <1>4 DEF TakeUpToken

LEMMA RevokeUpstreamNowhereStep ==
  ASSUME Inductive, NEW w \in Worker, RevokeUpstreamNowhere(w)
  PROVE  Inductive' /\ LeavesWhenDone
<1> DEFINE r == work[w]
<1>1. r \in Work /\ Holds(w, r, erased, object, upload, job, token, upstream)
  BY WorkerFacts
<1>2. UNCHANGED rows /\ r.pc = "revoke" /\ ProceedFailing(w)
  BY DEF RevokeUpstreamNowhere, At
<1> DEFINE pc == After(r.kind, TRUE)
           v == [r EXCEPT !.pc = pc, !.failed = TRUE]
<1>3. work' = [work EXCEPT ![w] = v] /\ pc \in {"connection", "retry"}
  BY <1>2, ProceedFailingIs
<1> HIDE DEF pc
<1>4. /\ v \in Work /\ v.pc = pc /\ v.failed = TRUE /\ v.user = r.user
      /\ v.left = r.left /\ v.kind = r.kind
  BY <1>1, <1>3 DEF Work, Kind
<1> HIDE DEF v
<1>5. ~PastTokens(v)
  BY <1>3, <1>4 DEF PastTokens
<1>6. Holds(w, v, erased, object, upload, job, token, upstream)
  BY <1>1, <1>2, <1>3, <1>4, <1>5, OnwardHolds
<1> QED BY <1>2, <1>3, <1>4, <1>6, QuietStep

-----------------------------------------------------------------------------
(* Workers that write rows *)

LEMMA JobsKept ==
  ASSUME job' = job
  PROVE  LeavesWhenDone /\ \A v \in Worker : GainsNoJob(v)
BY DEF LeavesWhenDone, GainsNoJob

\* Only the jobs change, and none that is kept forgets a stored object.
LEMMA JobRows ==
  ASSUME RowsOK, UNCHANGED <<erased, object, upload, token, upstream, resource, announced>>,
         job' \in [User -> Job],
         \A u \in User :
           /\ job'[u].queued => job[u].queued
           /\ job'[u].objects \subseteq job[u].objects
           /\ job[u].queued => \A o \in job[u].objects :
                object[o] = "stored" => job'[u].queued /\ o \in job'[u].objects
  PROVE  Evolves /\ RowsOK'
<1>1. Evolves
  BY DEF Evolves
<1>2. JobsOK'
  BY DEF RowsOK, JobsOK
<1>3. NoOrphanedObject'
  BY OwnerAssumption DEF RowsOK, NoOrphanedObject
<1>4. UploadsOK' /\ DeletedAfterCleanup' /\ ClearedWasRevoked'
  BY DEF RowsOK, UploadsOK, DeletedAfterCleanup, ClearedWasRevoked, Avatars
<1> QED BY <1>1, <1>2, <1>3, <1>4 DEF RowsOK

\* Only what tokens stand for changes, and nothing comes back to life.
LEMMA UpstreamRows ==
  ASSUME RowsOK, UNCHANGED <<erased, object, upload, job, token, resource, announced>>,
         upstream' \in [User -> [Kind -> {"live", "revoked", "expired"}]],
         \A u \in User, k \in Kind : upstream[u][k] # "live" => upstream'[u][k] # "live"
  PROVE  Evolves /\ RowsOK'
<1>1. Evolves
  BY DEF Evolves
<1>2. ClearedWasRevoked'
  BY DEF RowsOK, ClearedWasRevoked
<1>3. UploadsOK' /\ JobsOK' /\ NoOrphanedObject' /\ DeletedAfterCleanup'
  BY DEF RowsOK, UploadsOK, JobsOK, NoOrphanedObject, DeletedAfterCleanup, Avatars
<1> QED BY <1>1, <1>2, <1>3 DEF RowsOK

LEMMA ClaimJobStep ==
  ASSUME Inductive, NEW w \in Worker, NEW u \in User, ClaimJob(w, u)
  PROVE  Inductive' /\ LeavesWhenDone
<1> DEFINE pc == AfterObjects(job[u].objects)
           r == [Resting EXCEPT !.pc = pc, !.user = u, !.left = job[u].objects]
           j == [job[u] EXCEPT !.claim = w, !.lapsed = FALSE]
<1>1. /\ RowsOK /\ job[u].queued /\ work' = [work EXCEPT ![w] = r]
      /\ UNCHANGED <<erased, object, upload, token, upstream, resource, announced>>
  BY WorkerFacts DEF ClaimJob, Due
<1>2. pc \in {"lease", "objects"} /\ (pc = "lease" => job[u].objects = {})
  BY DEF AfterObjects
<1> HIDE DEF pc
<1>3. job[u] \in Job /\ job \in [User -> Job]
  BY <1>1 DEF RowsOK
<1>4. /\ r \in Work /\ r.pc = pc /\ r.user = u /\ r.left = job[u].objects /\ ~r.failed
  BY <1>2, <1>3 DEF Resting, Work, Kind, Job
<1>5. /\ j \in Job /\ j.claim = w /\ j.objects = job[u].objects /\ j.queued = job[u].queued
      /\ job' = [job EXCEPT ![u] = j]
  BY <1>3 DEF Job, ClaimJob
<1> HIDE DEF r, j
<1>6. /\ job' \in [User -> Job] /\ job'[u] = j
      /\ \A v \in User : v # u => job'[v] = job[v]
  BY <1>3, <1>5
<1>7. Evolves /\ RowsOK'
  BY <1>1, <1>5, <1>6, JobRows
<1>8. LeavesWhenDone
  BY <1>5, <1>6 DEF LeavesWhenDone
<1>9. ASSUME NEW v \in Worker, v # w PROVE GainsNoJob(v)
  BY <1>5, <1>6, <1>9 DEF GainsNoJob
<1>10. erased[u] /\ \A o \in job[u].objects : upload[o] \in Settled
  BY <1>1 DEF RowsOK, JobsOK
<1>11. ASSUME NEW o \in Object, Concerns(w, r, o, upload, job')
       PROVE  o \in job[u].objects \/ object[o] = "gone"
  <2>1. CASE o \in job'[u].objects
    BY <1>5, <1>6, <2>1
  <2>2. CASE Owner[o] = u /\ upload[o] = "saved"
    <3>1. object[o] # "stored" \/ o \in job[u].objects
      BY <1>1, <1>10, <2>2 DEF RowsOK, NoOrphanedObject, Uploading
    <3>2. object[o] # "none"
      BY <1>1, <2>2 DEF RowsOK, UploadsOK
    <3> QED BY <1>1, <3>1, <3>2 DEF RowsOK
  <2> QED BY <1>4, <1>11, <2>1, <2>2 DEF Concerns
<1>12. Holds(w, r, erased, object, upload, job', token, upstream)
  BY <1>2, <1>4, <1>10, <1>11 DEF Holds, PastTokens, PastLeases
<1> QED BY <1>1, <1>4, <1>7, <1>8, <1>9, <1>12, WorkStep

LEMMA DeleteObjectStep ==
  ASSUME Inductive, NEW w \in Worker, DeleteObject(w)
  PROVE  Inductive' /\ LeavesWhenDone
<1> DEFINE r == work[w]
<1>1. /\ r \in Work /\ Holds(w, r, erased, object, upload, job, token, upstream) /\ RowsOK
  BY WorkerFacts
<1>2. /\ r.pc = "objects"
      /\ UNCHANGED <<erased, upload, job, token, upstream, resource, announced>>
  BY DEF DeleteObject, At
<1>3. PICK o \in r.left :
        /\ object' = [object EXCEPT ![o] = "gone"]
        /\ work' = [work EXCEPT ![w].left = @ \ {o}, ![w].pc = AfterObjects(r.left \ {o})]
  BY DEF DeleteObject
<1> DEFINE pc == AfterObjects(r.left \ {o})
           v == [r EXCEPT !.left = r.left \ {o}, !.pc = pc]
<1>4. work' = [work EXCEPT ![w] = v]
  BY <1>3 DEF Inductive, TypeOK, Work
<1>5. pc \in {"lease", "objects"} /\ (pc = "lease" => r.left \ {o} = {})
  BY DEF AfterObjects
<1> HIDE DEF pc
<1>6. /\ v \in Work /\ v.pc = pc /\ v.failed = r.failed /\ v.user = r.user
      /\ v.left = r.left \ {o}
  BY <1>1, <1>5 DEF Work, Kind
<1> HIDE DEF v
<1>7. o \in Object /\ upload[o] \in Settled
  BY <1>1, <1>2 DEF Work, Holds
<1>8. /\ object' \in [Object -> {"none", "stored", "gone"}] /\ object'[o] = "gone"
      /\ \A x \in Object : x # o => object'[x] = object[x]
  BY <1>1, <1>3, <1>7 DEF RowsOK
<1>9. Evolves
  BY <1>2, <1>8 DEF Evolves
<1>10. RowsOK'
  <2>1. UploadsOK'
    BY <1>1, <1>2, <1>7, <1>8 DEF RowsOK, UploadsOK, Settled
  <2>2. NoOrphanedObject'
    BY <1>1, <1>2, <1>8 DEF RowsOK, NoOrphanedObject
  <2>3. DeletedAfterCleanup'
    BY <1>1, <1>2, <1>8 DEF RowsOK, DeletedAfterCleanup, Avatars
  <2>4. JobsOK' /\ ClearedWasRevoked'
    BY <1>1, <1>2 DEF RowsOK, JobsOK, ClearedWasRevoked
  <2> QED BY <1>1, <1>2, <1>8, <2>1, <2>2, <2>3, <2>4 DEF RowsOK
<1>11. Holds(w, v, erased', object', upload', job', token', upstream')
  <2>1. ASSUME ~r.failed, NEW x \in Object, Concerns(w, v, x, upload, job)
        PROVE  x \in v.left \/ object'[x] = "gone"
    BY <1>1, <1>2, <1>6, <1>8, <2>1 DEF Holds, Concerns
  <2> QED BY <1>1, <1>2, <1>5, <1>6, <2>1 DEF Holds, PastTokens, PastLeases
<1> QED BY <1>2, <1>4, <1>6, <1>9, <1>10, <1>11, JobsKept, WorkStep

LEMMA RevokedIsDead ==
  ASSUME RowsOK, NEW w \in Worker, work[w].user \in User, work[w].kind \in Kind,
         upstream' \in {upstream, Revoked(w)}
  PROVE  /\ upstream' \in [User -> [Kind -> {"live", "revoked", "expired"}]]
         /\ \A u \in User, k \in Kind : upstream[u][k] # "live" => upstream'[u][k] # "live"
         /\ upstream' = Revoked(w) => upstream'[work[w].user][work[w].kind] # "live"
<1> DEFINE e == IF NeedsNoCall(w) THEN "expired" ELSE "revoked"
<1>1. Revoked(w) = [upstream EXCEPT ![work[w].user][work[w].kind] = e]
  BY DEF Revoked
<1>2. e \in {"revoked", "expired"}
  OBVIOUS
<1> HIDE DEF e
<1>3. upstream \in [User -> [Kind -> {"live", "revoked", "expired"}]]
  BY DEF RowsOK
<1> QED BY <1>1, <1>2, <1>3

LEMMA RevokeUpstreamStep ==
  ASSUME Inductive, NEW w \in Worker, RevokeUpstream(w)
  PROVE  Inductive' /\ LeavesWhenDone
<1> DEFINE r == work[w]
           v == [r EXCEPT !.pc = "clear", !.failed = r.failed]
<1>1. /\ r \in Work /\ Holds(w, r, erased, object, upload, job, token, upstream) /\ RowsOK
      /\ r.failed \in BOOLEAN
  BY WorkerFacts DEF Work
<1>2. /\ r.pc = "revoke" /\ upstream' = Revoked(w) /\ Goto(w, "clear")
      /\ UNCHANGED <<erased, object, upload, job, token, resource, announced>>
  BY DEF RevokeUpstream, At
<1>3. r.user \in User /\ r.kind \in Kind
  BY <1>1, <1>2 DEF Holds
<1>4. /\ upstream' \in [User -> [Kind -> {"live", "revoked", "expired"}]]
      /\ \A u \in User, k \in Kind : upstream[u][k] # "live" => upstream'[u][k] # "live"
      /\ upstream'[r.user][r.kind] # "live"
  BY <1>1, <1>2, <1>3, RevokedIsDead
<1>5. Evolves /\ RowsOK'
  BY <1>1, <1>2, <1>4, UpstreamRows
<1>6. work' = [work EXCEPT ![w] = v]
  BY <1>2, GotoIs
<1>7. /\ v \in Work /\ v.pc = "clear" /\ v.failed = r.failed /\ v.user = r.user
      /\ v.left = r.left /\ v.kind = r.kind
  BY <1>1 DEF Work, Kind
<1> HIDE DEF v
<1>8. GainsNoJob(w)
  BY <1>2, JobsKept
<1>9. Holds(w, r, erased', object', upload', job', token', upstream')
  BY <1>1, <1>5, <1>8, HoldsPreserved
<1>10. ~PastTokens(v) /\ (PastLeases(v) => PastLeases(r))
  BY <1>2, <1>7 DEF PastTokens, PastLeases
<1>11. ~v.failed /\ PastLeases(v) => token'[r.user]["lease"] # "held"
  BY <1>2, <1>7, <1>9, <1>10 DEF Holds
<1>12. Holds(w, v, erased', object', upload', job', token', upstream')
  BY <1>1, <1>2, <1>3, <1>4, <1>7, <1>9, <1>10, <1>11, OnwardHolds
<1> QED BY <1>2, <1>5, <1>6, <1>7, <1>12, JobsKept, WorkStep

LEMMA RevokeUpstreamFailsStep ==
  ASSUME Inductive, NEW w \in Worker, RevokeUpstreamFails(w)
  PROVE  Inductive' /\ LeavesWhenDone
<1> DEFINE r == work[w]
           pc == After(r.kind, TRUE)
           v == [r EXCEPT !.pc = pc, !.failed = TRUE]
<1>1. /\ r \in Work /\ Holds(w, r, erased, object, upload, job, token, upstream) /\ RowsOK
  BY WorkerFacts
<1>2. /\ r.pc \in {"revoke", "clear"} /\ upstream' \in {upstream, Revoked(w)}
      /\ ProceedFailing(w)
      /\ UNCHANGED <<erased, object, upload, job, token, resource, announced>>
  BY DEF RevokeUpstreamFails, At
<1>3. r.user \in User /\ r.kind \in Kind
  BY <1>1, <1>2 DEF Holds
<1>4. /\ upstream' \in [User -> [Kind -> {"live", "revoked", "expired"}]]
      /\ \A u \in User, k \in Kind : upstream[u][k] # "live" => upstream'[u][k] # "live"
  BY <1>1, <1>2, <1>3, RevokedIsDead
<1>5. Evolves /\ RowsOK'
  BY <1>1, <1>2, <1>4, UpstreamRows
<1>6. work' = [work EXCEPT ![w] = v] /\ pc \in {"connection", "retry"}
  BY <1>2, ProceedFailingIs
<1> HIDE DEF pc
<1>7. /\ v \in Work /\ v.pc = pc /\ v.failed = TRUE /\ v.user = r.user
      /\ v.left = r.left /\ v.kind = r.kind
  BY <1>1, <1>6 DEF Work, Kind
<1> HIDE DEF v
<1>8. GainsNoJob(w)
  BY <1>2, JobsKept
<1>9. Holds(w, r, erased', object', upload', job', token', upstream')
  BY <1>1, <1>5, <1>8, HoldsPreserved
<1>10. ~PastTokens(v)
  BY <1>6, <1>7 DEF PastTokens
<1>11. Holds(w, v, erased', object', upload', job', token', upstream')
  BY <1>1, <1>2, <1>3, <1>6, <1>7, <1>9, <1>10, OnwardHolds
<1> QED BY <1>2, <1>5, <1>6, <1>7, <1>11, JobsKept, WorkStep

LEMMA ClearTokenStep ==
  ASSUME Inductive, NEW w \in Worker, ClearToken(w)
  PROVE  Inductive' /\ LeavesWhenDone
<1> DEFINE r == work[w]
           k == r.kind
           pc == After(r.kind, r.failed)
           v == [r EXCEPT !.pc = pc, !.failed = r.failed]
<1>1. /\ r \in Work /\ Holds(w, r, erased, object, upload, job, token, upstream) /\ RowsOK
      /\ r.failed \in BOOLEAN
  BY WorkerFacts DEF Work
<1>2. /\ r.pc = "clear" /\ Goto(w, pc)
      /\ token' = [token EXCEPT ![r.user][r.kind] = "cleared"]
      /\ UNCHANGED <<erased, object, upload, job, upstream, resource, announced>>
  BY DEF ClearToken, At, Proceed
<1>3. r.user \in User /\ k \in Kind /\ k \in {"lease", "connection"} /\ upstream[r.user][k] # "live"
  BY <1>1, <1>2 DEF Holds, Kind
<1>4. /\ token' \in [User -> [Kind -> {"none", "held", "cleared"}]]
      /\ token'[r.user][k] = "cleared"
      /\ \A u \in User, j \in Kind : token'[u][j] = token[u][j] \/ (u = r.user /\ j = k)
  BY <1>1, <1>2, <1>3 DEF RowsOK
<1>5. \A u \in User, j \in Kind : token[u][j] # "held" => token'[u][j] # "held"
  BY <1>4
<1>6. Evolves
  BY <1>2, <1>5 DEF Evolves
<1>7. RowsOK'
  <2>1. ClearedWasRevoked'
    BY <1>1, <1>2, <1>3, <1>4 DEF RowsOK, ClearedWasRevoked
  <2>2. DeletedAfterCleanup'
    BY <1>1, <1>2, <1>5 DEF RowsOK, DeletedAfterCleanup, Avatars
  <2>3. UploadsOK' /\ JobsOK' /\ NoOrphanedObject'
    BY <1>1, <1>2 DEF RowsOK, UploadsOK, JobsOK, NoOrphanedObject
  <2> QED BY <1>1, <1>2, <1>4, <2>1, <2>2, <2>3 DEF RowsOK
<1>8. /\ pc \in {"connection", "decide", "retry"}
      /\ pc = "connection" => k = "lease"
      /\ pc = "decide" => k = "connection" /\ ~r.failed
  BY <1>3 DEF After
<1>9. work' = [work EXCEPT ![w] = v]
  BY <1>2, GotoIs
<1> HIDE DEF pc
<1>10. /\ v \in Work /\ v.pc = pc /\ v.failed = r.failed /\ v.user = r.user
       /\ v.left = r.left /\ v.kind = r.kind
  BY <1>1, <1>8 DEF Work, Kind
<1> HIDE DEF v
<1>11. GainsNoJob(w)
  BY <1>2, JobsKept
<1>12. Holds(w, r, erased', object', upload', job', token', upstream')
  BY <1>1, <1>6, <1>11, HoldsPreserved
<1>13. PastTokens(v) => ~v.failed /\ token'[r.user]["connection"] # "held"
  BY <1>4, <1>8, <1>10 DEF PastTokens
<1>14. ~v.failed /\ PastLeases(v) => token'[r.user]["lease"] # "held"
  <2>1. CASE k = "lease"
    BY <1>4, <2>1
  <2>2. CASE k = "connection"
    BY <1>2, <1>10, <1>12, <2>2 DEF Holds, PastLeases
  <2> QED BY <1>3, <2>1, <2>2
<1>15. Holds(w, v, erased', object', upload', job', token', upstream')
  BY <1>1, <1>2, <1>8, <1>10, <1>12, <1>13, <1>14, OnwardHolds
<1> QED BY <1>2, <1>6, <1>7, <1>9, <1>10, <1>15, JobsKept, WorkStep

\* A worker that found nothing failed has cleaned up.
LEMMA CleanedUp ==
  ASSUME Inductive, NEW w \in Worker, work[w].pc \in {"decide", "finish"}
  PROVE  LET u == work[w].user
         IN /\ u \in User /\ erased[u]
            /\ \A k \in Kind : token[u][k] # "held"
            /\ \A o \in Avatars(u) : object[o] = "gone"
            /\ job[u].claim = w => \A o \in job[u].objects : object[o] = "gone"
<1> DEFINE r == work[w]
<1>1. /\ r \in Work /\ Holds(w, r, erased, object, upload, job, token, upstream) /\ RowsOK
  BY WorkerFacts
<1>2. /\ r.user \in User /\ erased[r.user] /\ r.left = {} /\ ~r.failed
      /\ token[r.user]["connection"] # "held" /\ token[r.user]["lease"] # "held"
  BY <1>1 DEF Holds, PastTokens, PastLeases
<1>3. \A o \in Object : Concerns(w, r, o, upload, job) => object[o] = "gone"
  BY <1>1, <1>2 DEF Holds
<1>4. job[r.user].objects \subseteq Object
  BY <1>1, <1>2 DEF RowsOK, Job
<1> QED BY <1>2, <1>3, <1>4 DEF Kind, Avatars, Concerns

LEMMA PublishStep ==
  ASSUME Inductive, NEW w \in Worker, PublishDeleted(w) \/ PublishThrows(w)
  PROVE  Inductive' /\ LeavesWhenDone
<1> DEFINE r == work[w]
           u == r.user
<1>1. /\ r \in Work /\ Holds(w, r, erased, object, upload, job, token, upstream) /\ RowsOK
      /\ r.failed \in BOOLEAN
  BY WorkerFacts DEF Work
<1>2. /\ r.pc = "decide"
      /\ UNCHANGED <<erased, object, upload, job, token, upstream, resource>>
      /\ \E stored \in BOOLEAN : announced' = [announced EXCEPT ![u] = announced[u] \/ stored]
      /\ Goto(w, "finish") \/ Goto(w, "retry")
  <2>1. CASE PublishDeleted(w)
    <3>1. announced' = [announced EXCEPT ![u] = announced[u] \/ TRUE]
      BY <2>1 DEF PublishDeleted
    <3> QED BY <2>1, <3>1 DEF PublishDeleted, At
  <2>2. CASE PublishThrows(w)
    BY <2>2 DEF PublishThrows, At
  <2> QED BY <2>1, <2>2
<1>3. /\ u \in User /\ erased[u]
      /\ \A k \in Kind : token[u][k] # "held"
      /\ \A o \in Avatars(u) : object[o] = "gone"
  BY <1>2, CleanedUp
<1>4. /\ announced' \in [User -> BOOLEAN]
      /\ \A x \in User : x # u => announced'[x] = announced[x]
  BY <1>1, <1>2, <1>3 DEF RowsOK
<1>5. Evolves
  BY <1>2 DEF Evolves
<1>6. RowsOK'
  <2>1. DeletedAfterCleanup'
    BY <1>1, <1>2, <1>3, <1>4 DEF RowsOK, DeletedAfterCleanup, Avatars
  <2>2. JobsOK'
    BY <1>1, <1>2, <1>3, <1>4 DEF RowsOK, JobsOK
  <2>3. UploadsOK' /\ NoOrphanedObject' /\ ClearedWasRevoked'
    BY <1>1, <1>2 DEF RowsOK, UploadsOK, NoOrphanedObject, ClearedWasRevoked
  <2> QED BY <1>1, <1>2, <1>4, <2>1, <2>2, <2>3 DEF RowsOK
<1>7. ASSUME NEW pc \in {"finish", "retry"}, Goto(w, pc)
      PROVE  Inductive'
  <2> DEFINE v == [r EXCEPT !.pc = pc, !.failed = r.failed]
  <2>1. work' = [work EXCEPT ![w] = v]
    BY <1>7, GotoIs
  <2>2. /\ v \in Work /\ v.pc = pc /\ v.failed = r.failed /\ v.user = r.user
        /\ v.left = r.left /\ v.kind = r.kind
    BY <1>1 DEF Work, Kind
  <2> HIDE DEF v
  <2>3. /\ ~r.failed /\ token[r.user]["connection"] # "held" /\ token[r.user]["lease"] # "held"
    BY <1>1, <1>2 DEF Holds, PastTokens, PastLeases
  <2>4. Holds(w, v, erased, object, upload, job, token, upstream)
    BY <1>1, <1>2, <2>2, <2>3, OnwardHolds
  <2>5. Holds(w, v, erased', object', upload', job', token', upstream')
    BY <1>2, <2>4
  <2> QED BY <1>2, <1>5, <1>6, <2>1, <2>2, <2>5, JobsKept, WorkStep
<1> QED BY <1>2, <1>7, JobsKept

LEMMA FinishJobStep ==
  ASSUME Inductive, NEW w \in Worker, FinishJob(w)
  PROVE  Inductive' /\ LeavesWhenDone
<1> DEFINE u == work[w].user
<1>1. /\ RowsOK /\ work[w].pc = "finish" /\ Rest(w)
      /\ UNCHANGED <<erased, object, upload, token, upstream, resource, announced>>
      /\ job' = [job EXCEPT ![u] = IF job[u].claim = w THEN NoJob ELSE @]
  BY WorkerFacts DEF FinishJob, At, Claimed
<1>2. CASE job[u].claim # w
  <2>1. UNCHANGED rows
    BY <1>1, <1>2 DEF RowsOK, rows
  <2> QED BY <1>1, <2>1, RestStep
<1>3. CASE job[u].claim = w
  <2>1. /\ u \in User /\ \A k \in Kind : token[u][k] # "held"
        /\ \A o \in job[u].objects : object[o] = "gone"
    BY <1>1, <1>3, CleanedUp
  <2>2. NoJob \in Job /\ NoJob.claim = None /\ NoJob.objects = {} /\ ~NoJob.queued
    BY DEF NoJob, Job
  <2>3. /\ job' \in [User -> Job] /\ job'[u] = NoJob
        /\ \A x \in User : x # u => job'[x] = job[x]
    BY <1>1, <1>3, <2>1, <2>2 DEF RowsOK
  <2>4. Evolves /\ RowsOK'
    BY <1>1, <2>1, <2>2, <2>3, JobRows
  <2>5. LeavesWhenDone
    BY <2>1, <2>3 DEF LeavesWhenDone
  <2>6. \A v \in Worker : GainsNoJob(v)
    BY <2>2, <2>3, NoneAssumption DEF GainsNoJob
  <2> QED BY <1>1, <2>4, <2>5, <2>6, RestingFields, WorkStep DEF Rest
<1> QED BY <1>2, <1>3

LEMMA RetryJobStep ==
  ASSUME Inductive, NEW w \in Worker, RetryJob(w)
  PROVE  Inductive' /\ LeavesWhenDone
<1> DEFINE u == work[w].user
           j == [job[u] EXCEPT !.due = FALSE, !.claim = None, !.lapsed = FALSE]
<1>1. /\ RowsOK /\ work[w].pc = "retry" /\ Rest(w)
      /\ UNCHANGED <<erased, object, upload, token, upstream, resource, announced>>
      /\ job' = [job EXCEPT ![u] = IF job[u].claim = w THEN j ELSE @]
  BY WorkerFacts DEF RetryJob, At, Claimed
<1>2. CASE job[u].claim # w
  <2>1. UNCHANGED rows
    BY <1>1, <1>2 DEF RowsOK, rows
  <2> QED BY <1>1, <2>1, RestStep
<1>3. CASE job[u].claim = w
  <2>1. u \in User
    <3>1. Holds(w, work[w], erased, object, upload, job, token, upstream)
      BY WorkerFacts
    <3> QED BY <1>1, <3>1 DEF Holds
  <2>2. /\ j \in Job /\ j.claim = None /\ j.objects = job[u].objects
        /\ j.queued = job[u].queued
    <3>1. job[u] \in Job
      BY <1>1, <2>1 DEF RowsOK
    <3> QED BY <3>1 DEF Job
  <2> HIDE DEF j
  <2>3. /\ job' \in [User -> Job] /\ job'[u] = j
        /\ \A x \in User : x # u => job'[x] = job[x]
    BY <1>1, <1>3, <2>1, <2>2 DEF RowsOK
  <2>4. Evolves /\ RowsOK'
    BY <1>1, <2>2, <2>3, JobRows
  <2>5. LeavesWhenDone
    BY <2>2, <2>3 DEF LeavesWhenDone
  <2>6. \A v \in Worker : GainsNoJob(v)
    BY <2>2, <2>3, NoneAssumption DEF GainsNoJob
  <2> QED BY <1>1, <2>4, <2>5, <2>6, RestingFields, WorkStep DEF Rest
<1> QED BY <1>2, <1>3

-----------------------------------------------------------------------------
(* Steps of others *)

LEMMA JobTimeStep ==
  ASSUME Inductive, NEW u \in User, ComeDue(u) \/ Lapse(u)
  PROVE  Inductive' /\ LeavesWhenDone
<1>1. /\ RowsOK /\ work' = work
      /\ UNCHANGED <<erased, object, upload, token, upstream, resource, announced>>
  BY RowsOfInductive DEF ComeDue, Lapse
<1>2. /\ job' \in [User -> Job]
      /\ \A v \in User :
           /\ job'[v].queued = job[v].queued /\ job'[v].objects = job[v].objects
           /\ job'[v].claim = job[v].claim
  <2>1. job \in [User -> Job] /\ job[u] \in Job
    BY <1>1 DEF RowsOK
  <2>2. CASE ComeDue(u)
    <3> DEFINE j == [job[u] EXCEPT !.due = TRUE]
    <3>1. /\ j \in Job /\ j.queued = job[u].queued /\ j.objects = job[u].objects
          /\ j.claim = job[u].claim
      BY <2>1 DEF Job
    <3>2. job' = [job EXCEPT ![u] = j]
      BY <2>2 DEF ComeDue
    <3> HIDE DEF j
    <3> QED BY <2>1, <3>1, <3>2
  <2>3. CASE Lapse(u)
    <3> DEFINE j == [job[u] EXCEPT !.lapsed = TRUE]
    <3>1. /\ j \in Job /\ j.queued = job[u].queued /\ j.objects = job[u].objects
          /\ j.claim = job[u].claim
      BY <2>1 DEF Job
    <3>2. job' = [job EXCEPT ![u] = j]
      BY <2>3 DEF Lapse
    <3> HIDE DEF j
    <3> QED BY <2>1, <3>1, <3>2
  <2> QED BY <2>2, <2>3
<1>3. Evolves /\ RowsOK'
  BY <1>1, <1>2, JobRows
<1>4. LeavesWhenDone /\ \A v \in Worker : GainsNoJob(v)
  BY <1>2 DEF LeavesWhenDone, GainsNoJob
<1> QED BY <1>1, <1>3, <1>4, RowsStep

LEMMA ExpireLeaseStep ==
  ASSUME Inductive, NEW u \in User, ExpireLease(u)
  PROVE  Inductive' /\ LeavesWhenDone
<1>1. /\ RowsOK /\ work' = work
      /\ UNCHANGED <<erased, object, upload, job, token, resource, announced>>
  BY RowsOfInductive DEF ExpireLease
<1>2. /\ upstream' \in [User -> [Kind -> {"live", "revoked", "expired"}]]
      /\ \A v \in User, k \in Kind : upstream[v][k] # "live" => upstream'[v][k] # "live"
  BY <1>1 DEF ExpireLease, RowsOK, Kind
<1>3. Evolves /\ RowsOK'
  BY <1>1, <1>2, UpstreamRows
<1> QED BY <1>1, <1>3, JobsKept, RowsStep

LEMMA DeleteResourceStep ==
  ASSUME Inductive, NEW u \in User, DeleteResource(u)
  PROVE  Inductive' /\ LeavesWhenDone
<1>1. /\ RowsOK /\ work' = work
      /\ UNCHANGED <<erased, object, upload, job, token, upstream, announced>>
  BY RowsOfInductive DEF DeleteResource
<1>2. resource' \in [User -> {"enabled", "deleted"}]
  BY <1>1 DEF DeleteResource, RowsOK
<1>3. Evolves
  BY <1>1 DEF Evolves
<1>4. RowsOK'
  BY <1>1, <1>2 DEF RowsOK, UploadsOK, JobsOK, NoOrphanedObject, DeletedAfterCleanup,
                    ClearedWasRevoked, Avatars
<1> QED BY <1>1, <1>3, <1>4, JobsKept, RowsStep

LEMMA EraseAccountStep ==
  ASSUME Inductive, NEW u \in User, EraseAccount(u)
  PROVE  Inductive' /\ LeavesWhenDone
<1> DEFINE j == QueuedJob(u)
<1>1. /\ RowsOK /\ work' = work /\ ~erased[u]
      /\ erased' = [erased EXCEPT ![u] = TRUE] /\ job' = [job EXCEPT ![u] = j]
      /\ UNCHANGED <<object, upload, token, upstream, resource, announced>>
  BY RowsOfInductive DEF EraseAccount
<1>2. /\ j \in Job /\ j.queued /\ j.objects = Avatars(u) /\ j.claim = None
  BY DEF QueuedJob, NoJob, Job, Avatars
<1> HIDE DEF j
<1>3. /\ erased' \in [User -> BOOLEAN] /\ erased'[u]
      /\ \A v \in User : v # u => erased'[v] = erased[v]
      /\ job' \in [User -> Job] /\ job'[u] = j
      /\ \A v \in User : v # u => job'[v] = job[v]
  BY <1>1, <1>2 DEF RowsOK
<1>4. Evolves
  BY <1>1, <1>3 DEF Evolves
<1>5. UploadsOK'
  BY <1>1, <1>3, OwnerAssumption DEF RowsOK, UploadsOK
<1>6. JobsOK'
  <2>1. \A o \in j.objects : Owner[o] = u /\ upload[o] \in Settled
    BY <1>2 DEF Avatars, Settled
  <2> QED BY <1>1, <1>3, <2>1 DEF RowsOK, JobsOK
<1>7. NoOrphanedObject'
  <2> SUFFICES ASSUME NEW o \in Object, object[o] = "stored", erased'[Owner[o]]
               PROVE  \/ job'[Owner[o]].queued /\ o \in job'[Owner[o]].objects
                      \/ upload[o] \in Uploading \cup {"died"}
    BY <1>1 DEF NoOrphanedObject
  <2>1. CASE Owner[o] = u
    <3>1. upload[o] \in UploadState /\ upload[o] \notin {"idle", "over"}
      BY <1>1, <2>1 DEF RowsOK, UploadsOK
    <3>2. upload[o] = "saved" => o \in j.objects
      BY <1>2, <2>1 DEF Avatars
    <3> QED BY <1>2, <1>3, <2>1, <3>1, <3>2 DEF UploadState, Uploading
  <2>2. CASE Owner[o] # u
    BY <1>1, <1>3, <2>2, OwnerAssumption DEF RowsOK, NoOrphanedObject
  <2> QED BY <2>1, <2>2
<1>8. DeletedAfterCleanup' /\ ClearedWasRevoked'
  BY <1>1 DEF RowsOK, DeletedAfterCleanup, ClearedWasRevoked, Avatars
<1>9. RowsOK'
  BY <1>1, <1>3, <1>5, <1>6, <1>7, <1>8 DEF RowsOK
<1>10. LeavesWhenDone
  BY <1>2, <1>3 DEF LeavesWhenDone
<1>11. \A v \in Worker : GainsNoJob(v)
  BY <1>2, <1>3, NoneAssumption DEF GainsNoJob
<1> QED BY <1>1, <1>4, <1>9, <1>10, <1>11, RowsStep

\* An upload goes on; an avatar is saved only for an account that exists.
LEMMA UploadRows ==
  ASSUME RowsOK, NEW o \in Object, NEW state \in UploadState,
         upload[o] \notin Settled, state # "idle",
         UNCHANGED <<erased, token, upstream, resource, announced>>,
         upload' = [upload EXCEPT ![o] = state],
         job' \in [User -> Job],
         \A u \in User :
           /\ u # Owner[o] => job'[u] = job[u]
           /\ job'[u].queued => job[u].queued \/ erased[u]
           /\ job[u].queued => job'[u].queued
           /\ job[u].objects \subseteq job'[u].objects
           /\ \A x \in job'[u].objects : x \in job[u].objects \/ (state = "over" /\ x = o),
         object' \in [Object -> {"none", "stored", "gone"}], object'[o] # "none",
         \A x \in Object : x # o => object'[x] = object[x],
         state = "saved" => ~erased[Owner[o]],
         state \in {"refused", "undeleted", "over"} => erased[Owner[o]],
         state = "over" /\ object'[o] = "stored" =>
           job'[Owner[o]].queued /\ o \in job'[Owner[o]].objects
  PROVE  Evolves /\ RowsOK' /\ LeavesWhenDone
<1>1. /\ upload' \in [Object -> UploadState] /\ upload'[o] = state
      /\ \A x \in Object : x # o => upload'[x] = upload[x]
  BY DEF RowsOK
<1>2. Owner[o] \in User
  BY OwnerAssumption
<1>3. Evolves
  BY <1>1 DEF Evolves, Settled
<1>4. UploadsOK'
  BY <1>1 DEF RowsOK, UploadsOK
<1>5. JobsOK'
  <2> SUFFICES ASSUME NEW u \in User
               PROVE  /\ job'[u].queued \/ announced[u] => erased[u]
                      /\ \A x \in job'[u].objects : Owner[x] = u /\ upload'[x] \in Settled
    BY DEF JobsOK
  <2>1. job'[u].queued \/ announced[u] => erased[u]
    BY DEF RowsOK, JobsOK
  <2>2. ASSUME NEW x \in job'[u].objects PROVE Owner[x] = u /\ upload'[x] \in Settled
    <3>1. CASE x \in job[u].objects
      <4>1. x \in Object /\ Owner[x] = u /\ upload[x] \in Settled
        BY <3>1 DEF RowsOK, JobsOK, Job
      <4> QED BY <1>1, <4>1
    <3>2. CASE x \notin job[u].objects
      <4>1. state = "over" /\ x = o /\ u = Owner[o]
        BY <2>2, <3>2
      <4> QED BY <1>1, <4>1 DEF Settled
    <3> QED BY <3>1, <3>2
  <2> QED BY <2>1, <2>2
<1>6. NoOrphanedObject'
  <2> SUFFICES ASSUME NEW x \in Object, object'[x] = "stored", erased[Owner[x]]
               PROVE  \/ job'[Owner[x]].queued /\ x \in job'[Owner[x]].objects
                      \/ upload'[x] \in Uploading \cup {"died"}
    BY DEF NoOrphanedObject
  <2>1. CASE x = o
    BY <1>1, <2>1 DEF UploadState, Uploading
  <2>2. CASE x # o
    <3>1. Owner[x] \in User
      BY OwnerAssumption
    <3>2. \/ job[Owner[x]].queued /\ x \in job[Owner[x]].objects
          \/ upload[x] \in Uploading \cup {"died"}
      BY <2>2 DEF RowsOK, NoOrphanedObject
    <3> QED BY <1>1, <2>2, <3>1, <3>2
  <2> QED BY <2>1, <2>2
<1>7. DeletedAfterCleanup'
  <2> SUFFICES ASSUME NEW u \in User, announced[u]
               PROVE  /\ \A k \in Kind : token[u][k] # "held"
                      /\ \A x \in Object : Owner[x] = u /\ upload'[x] = "saved" =>
                           object'[x] = "gone"
    BY DEF DeletedAfterCleanup, Avatars
  <2>1. /\ erased[u] /\ \A k \in Kind : token[u][k] # "held"
        /\ \A x \in Object : Owner[x] = u /\ upload[x] = "saved" => object[x] = "gone"
    BY DEF RowsOK, DeletedAfterCleanup, JobsOK, Avatars
  <2> QED BY <1>1, <2>1
<1>8. ClearedWasRevoked'
  BY DEF RowsOK, ClearedWasRevoked
<1>9. RowsOK'
  BY <1>1, <1>4, <1>5, <1>6, <1>7, <1>8 DEF RowsOK
<1>10. LeavesWhenDone
  BY DEF LeavesWhenDone
<1> QED BY <1>3, <1>9, <1>10

LEMMA UploadStep ==
  ASSUME Inductive, NEW o \in Object,
         \/ PutObject(o) \/ CreateAsset(o) \/ TakeBackObject(o) \/ UploadDies(o)
  PROVE  Inductive' /\ LeavesWhenDone
<1>1. /\ RowsOK /\ work' = work
      /\ UNCHANGED <<erased, job, token, upstream, resource, announced>>
  BY RowsOfInductive DEF PutObject, CreateAsset, TakeBackObject, UploadDies
<1>2. /\ job' \in [User -> Job] /\ object \in [Object -> {"none", "stored", "gone"}]
      /\ upload[o] = "idle" <=> object[o] = "none"
      /\ upload[o] \in {"refused", "undeleted", "over"} => erased[Owner[o]]
  BY <1>1 DEF RowsOK, UploadsOK
<1>3. CASE PutObject(o)
  <2>1. /\ upload[o] \notin Settled /\ upload' = [upload EXCEPT ![o] = "put"]
        /\ object' = [object EXCEPT ![o] = "stored"]
    BY <1>3 DEF PutObject, Settled
  <2>2. Evolves /\ RowsOK' /\ LeavesWhenDone
    BY <1>1, <1>2, <2>1, UploadRows DEF UploadState
  <2> QED BY <1>1, <2>2, JobsKept, RowsStep
<1>4. CASE CreateAsset(o)
  <2> DEFINE state == IF erased[Owner[o]] THEN "refused" ELSE "saved"
  <2>1. /\ upload[o] = "put" /\ upload' = [upload EXCEPT ![o] = state] /\ object' = object
    BY <1>4 DEF CreateAsset
  <2>2. /\ state \in UploadState /\ state \in {"refused", "saved"}
        /\ state = "saved" => ~erased[Owner[o]]
        /\ state = "refused" => erased[Owner[o]]
    BY DEF UploadState
  <2> HIDE DEF state
  <2>3. Evolves /\ RowsOK' /\ LeavesWhenDone
    BY <1>1, <1>2, <2>1, <2>2, UploadRows DEF Settled
  <2> QED BY <1>1, <2>3, JobsKept, RowsStep
<1>5. ASSUME upload[o] = "refused", upload' = [upload EXCEPT ![o] = "over"],
             object' = [object EXCEPT ![o] = "gone"]
      PROVE  Inductive' /\ LeavesWhenDone
  <2>1. Evolves /\ RowsOK' /\ LeavesWhenDone
    BY <1>1, <1>2, <1>5, UploadRows DEF Settled, UploadState
  <2> QED BY <1>1, <2>1, JobsKept, RowsStep
<1>6. ASSUME upload[o] = "refused", upload' = [upload EXCEPT ![o] = "undeleted"],
             object' = object
      PROVE  Inductive' /\ LeavesWhenDone
  <2>1. Evolves /\ RowsOK' /\ LeavesWhenDone
    BY <1>1, <1>2, <1>6, UploadRows DEF Settled, UploadState
  <2> QED BY <1>1, <2>1, JobsKept, RowsStep
<1>7. CASE UploadDies(o)
  <2>1. /\ upload[o] \notin Settled /\ upload[o] # "idle" /\ object' = object
        /\ upload' = [upload EXCEPT ![o] = "died"]
    BY <1>7 DEF UploadDies, Uploading, Settled
  <2>2. Evolves /\ RowsOK' /\ LeavesWhenDone
    BY <1>1, <1>2, <2>1, UploadRows DEF UploadState
  <2> QED BY <1>1, <2>2, JobsKept, RowsStep
<1> QED BY <1>3, <1>4, <1>5, <1>6, <1>7 DEF TakeBackObject

LEMMA EnqueueAssetCleanupStep ==
  ASSUME Inductive, NEW o \in Object, EnqueueAssetCleanup(o)
  PROVE  Inductive' /\ LeavesWhenDone
<1> DEFINE u == Owner[o]
           j == Enqueued(u, o)
<1>1. /\ RowsOK /\ work' = work /\ upload[o] = "undeleted" /\ u \in User
      /\ upload' = [upload EXCEPT ![o] = "over"] /\ job' = [job EXCEPT ![u] = j]
      /\ UNCHANGED <<erased, object, token, upstream, resource, announced>>
  BY RowsOfInductive, OwnerAssumption DEF EnqueueAssetCleanup
<1>2. job \in [User -> Job] /\ job[u] \in Job
  BY <1>1 DEF RowsOK
<1>3. /\ j \in Job /\ j.queued /\ j.objects = job[u].objects \cup {o} /\ j.claim = None
  BY <1>2 DEF Enqueued, Job
<1>4. /\ erased[u] /\ object[o] # "none" /\ object \in [Object -> {"none", "stored", "gone"}]
  BY <1>1 DEF RowsOK, UploadsOK
<1> HIDE DEF j
<1>5. /\ job' \in [User -> Job] /\ job'[u] = j
      /\ \A v \in User : v # u => job'[v] = job[v]
  BY <1>1, <1>2, <1>3
<1>6. Evolves /\ RowsOK' /\ LeavesWhenDone
  <2>1. \A v \in User :
          /\ v # u => job'[v] = job[v]
          /\ job'[v].queued => job[v].queued \/ erased[v]
          /\ job[v].queued => job'[v].queued
          /\ job[v].objects \subseteq job'[v].objects
          /\ \A x \in job'[v].objects : x \in job[v].objects \/ x = o
    BY <1>3, <1>4, <1>5
  <2>2. job'[u].queued /\ o \in job'[u].objects
    BY <1>3, <1>5
  <2>3. upload[o] \notin Settled /\ "over" \in UploadState
    BY <1>1 DEF Settled, UploadState
  <2> QED BY <1>1, <1>4, <1>5, <2>1, <2>2, <2>3, UploadRows
<1>7. \A v \in Worker : GainsNoJob(v)
  BY <1>3, <1>5, NoneAssumption DEF GainsNoJob
<1> QED BY <1>1, <1>6, <1>7, RowsStep

-----------------------------------------------------------------------------
(* Every step *)

LEMMA InductiveInit == Init => Inductive
<1> SUFFICES ASSUME Init PROVE Inductive
  OBVIOUS
<1>1. NoJob \in Job /\ ~NoJob.queued /\ NoJob.objects = {}
  BY DEF NoJob, Job
<1>2. TypeOK
  BY <1>1, RestingFields DEF Init, TypeOK, UploadState
<1>3. UploadsOK /\ JobsOK
  BY <1>1 DEF Init, UploadsOK, JobsOK
<1>4. WorkersOK
  BY RestingFields DEF Init, WorkersOK
<1>5. NoOrphanedObject /\ DeletedAfterCleanup /\ ClearedWasRevoked
  BY OwnerAssumption DEF Init, NoOrphanedObject, DeletedAfterCleanup, ClearedWasRevoked
<1> QED BY <1>2, <1>3, <1>4, <1>5 DEF Inductive

LEMMA InductiveStep ==
  ASSUME Inductive, [Next]_vars
  PROVE  Inductive' /\ LeavesWhenDone
<1>1. CASE UNCHANGED vars
  <2>1. UNCHANGED rows /\ work' = work
    BY <1>1 DEF vars
  <2> QED BY <2>1, RowsOfInductive, RowsKept, RowsStep
<1>2. CASE Fault
  <2>1. ASSUME NEW o \in Object, UploadDies(o) PROVE Inductive' /\ LeavesWhenDone
    BY <2>1, UploadStep
  <2>2. ASSUME NEW u \in User, LapseWhileBusy(u) PROVE Inductive' /\ LeavesWhenDone
    BY <2>2, JobTimeStep DEF LapseWhileBusy
  <2>3. ASSUME NEW w \in Worker, WorkerDies(w) PROVE Inductive' /\ LeavesWhenDone
    BY <2>3, RestStep DEF WorkerDies
  <2>4. ASSUME NEW w \in Worker,
               \/ DeleteObjectFails(w) \/ RevokeUpstreamFails(w)
               \/ PublishThrows(w) \/ WorkerThrows(w)
        PROVE  Inductive' /\ LeavesWhenDone
    BY <2>4, DeleteObjectFailsStep, RevokeUpstreamFailsStep, PublishStep, WorkerThrowsStep
  <2> QED BY <1>2, <2>1, <2>2, <2>3, <2>4 DEF Fault
<1>3. ASSUME NEW u \in User,
             \/ EraseAccount(u) \/ ComeDue(u) \/ LapseOfTheDead(u)
             \/ ExpireLease(u) \/ DeleteResource(u)
      PROVE  Inductive' /\ LeavesWhenDone
  BY <1>3, EraseAccountStep, JobTimeStep, ExpireLeaseStep, DeleteResourceStep
     DEF LapseOfTheDead
<1>4. ASSUME NEW o \in Object, PutObject(o) \/ Upload(o)
      PROVE  Inductive' /\ LeavesWhenDone
  BY <1>4, UploadStep, EnqueueAssetCleanupStep DEF Upload
<1>5. ASSUME NEW w \in Worker, Continue(w)
      PROVE  Inductive' /\ LeavesWhenDone
  BY <1>5, DeleteObjectStep, TakeUpTokenStep, RevokeUpstreamStep, RevokeUpstreamNowhereStep,
     ClearTokenStep, PublishStep, FinishJobStep, RetryJobStep
     DEF Continue
<1>6. ASSUME NEW w \in Worker, NEW u \in User, ClaimJob(w, u)
      PROVE  Inductive' /\ LeavesWhenDone
  BY <1>6, ClaimJobStep
<1> QED BY <1>1, <1>2, <1>3, <1>4, <1>5, <1>6 DEF Next

\* The inductive invariant holds in every reachable state, however many uploads
\* and invocations overlap, fail or die.
THEOREM DeletionInvariant == Spec => []Inductive
<1>1. Inductive /\ [Next]_vars => Inductive'
  BY InductiveStep
<1> QED BY <1>1, InductiveInit, PTL DEF Spec

-----------------------------------------------------------------------------
(* What finish relies on *)

\* A worker that is about to remove a job has stored its event.
FinishingAnnounced == \A w \in Worker : work[w].pc = "finish" => announced[work[w].user]

\* How a step may change the invocation w.
MayFinish(w) ==
  \/ work'[w] = work[w]
  \/ work'[w].pc # "finish"
  \/ PublishDeleted(w)

LEMMA OnlyPublishingLeadsToFinish ==
  ASSUME Inductive, [Next]_vars, NEW w \in Worker
  PROVE  MayFinish(w)
<1>1. work \in [Worker -> Work]
  BY DEF Inductive, TypeOK
<1>2. CASE work' = work
  BY <1>2 DEF MayFinish
<1>3. ASSUME NEW v \in Worker, Goto(v, "retry") \/ Goto(v, "clear")
      PROVE  MayFinish(w)
  BY <1>1, <1>3 DEF Goto, MayFinish, Work
<1>4. ASSUME NEW v \in Worker, Rest(v)
      PROVE  MayFinish(w)
  BY <1>1, <1>4 DEF Rest, Resting, MayFinish
<1>5. ASSUME NEW v \in Worker, DeleteObject(v) \/ DeleteObjectFails(v)
      PROVE  MayFinish(w)
  <2>1. PICK o \in work[v].left, failed \in {work[v].failed, TRUE} :
          work' = [work EXCEPT ![v].left = @ \ {o}, ![v].failed = failed,
                               ![v].pc = AfterObjects(work[v].left \ {o})]
    <3>1. CASE DeleteObjectFails(v)
      BY <3>1 DEF DeleteObjectFails
    <3>2. CASE DeleteObject(v)
      <4>1. PICK o \in work[v].left :
              work' = [work EXCEPT ![v].left = @ \ {o},
                                   ![v].pc = AfterObjects(work[v].left \ {o})]
        BY <3>2 DEF DeleteObject
      <4>2. work' = [work EXCEPT ![v].left = @ \ {o}, ![v].failed = work[v].failed,
                                 ![v].pc = AfterObjects(work[v].left \ {o})]
        BY <1>1, <4>1 DEF Work
      <4> QED BY <4>2
    <3> QED BY <1>5, <3>1, <3>2
  <2>2. AfterObjects(work[v].left \ {o}) # "finish"
    BY DEF AfterObjects
  <2>3. w = v => work'[w].pc = AfterObjects(work[v].left \ {o})
    BY <1>1, <2>1 DEF Work
  <2>4. w # v => work'[w] = work[w]
    BY <1>1, <2>1
  <2> QED BY <2>2, <2>3, <2>4 DEF MayFinish
<1>6. ASSUME NEW v \in Worker, NEW pc, pc # "finish",
             \/ Goto(v, pc)
             \/ work' = [work EXCEPT ![v].pc = pc, ![v].failed = TRUE]
             \/ \E k : work' = [work EXCEPT ![v].pc = pc, ![v].kind = k]
      PROVE  MayFinish(w)
  <2>1. w # v => work'[w] = work[w]
    BY <1>1, <1>6 DEF Goto
  <2>2. w = v => work'[w].pc = pc
    BY <1>1, <1>6 DEF Goto, Work
  <2> QED BY <1>6, <2>1, <2>2 DEF MayFinish
<1>7. \A k, failed : After(k, failed) # "finish"
  BY DEF After
<1>8. ASSUME NEW v \in Worker, Proceed(v) \/ ProceedFailing(v)
      PROVE  MayFinish(w)
  BY <1>6, <1>7, <1>8 DEF Proceed, ProceedFailing
<1>9. ASSUME NEW v \in Worker, NEW k \in Kind, TakeUpToken(v, k)
      PROVE  MayFinish(w)
  BY <1>6, <1>7, <1>9 DEF TakeUpToken
<1>10. ASSUME NEW v \in Worker, PublishDeleted(v)
       PROVE  MayFinish(w)
  BY <1>1, <1>10 DEF PublishDeleted, Goto, MayFinish
<1>11. ASSUME NEW v \in Worker, NEW u \in User, ClaimJob(v, u)
       PROVE  MayFinish(w)
  <2> DEFINE r == [Resting EXCEPT !.pc = AfterObjects(job[u].objects), !.user = u,
                                  !.left = job[u].objects]
  <2>1. work' = [work EXCEPT ![v] = r]
    BY <1>11 DEF ClaimJob
  <2>2. r.pc # "finish"
    BY DEF Resting, AfterObjects
  <2> HIDE DEF r
  <2> QED BY <1>1, <2>1, <2>2 DEF MayFinish
<1>12. ASSUME NEW v \in Worker, Continue(v)
       PROVE  MayFinish(w)
  <2>1. CASE DeleteObject(v)
    BY <1>5, <2>1
  <2>2. CASE \E k \in Kind : TakeUpToken(v, k)
    BY <1>9, <2>2
  <2>3. CASE RevokeUpstream(v) \/ RevokeUpstreamNowhere(v) \/ ClearToken(v)
    BY <1>3, <1>8, <2>3 DEF RevokeUpstream, RevokeUpstreamNowhere, ClearToken
  <2>4. CASE PublishDeleted(v)
    BY <1>10, <2>4
  <2>5. CASE FinishJob(v) \/ RetryJob(v)
    BY <1>4, <2>5 DEF FinishJob, RetryJob
  <2> QED BY <1>12, <2>1, <2>2, <2>3, <2>4, <2>5 DEF Continue
<1>13. CASE Fault
  <2>1. ASSUME NEW v \in Worker,
               \/ DeleteObjectFails(v) \/ RevokeUpstreamFails(v)
               \/ PublishThrows(v) \/ WorkerThrows(v) \/ WorkerDies(v)
        PROVE  MayFinish(w)
    BY <1>3, <1>4, <1>5, <1>8, <2>1
       DEF RevokeUpstreamFails, PublishThrows, WorkerThrows, WorkerDies
  <2>2. CASE \/ \E o \in Object : UploadDies(o)
             \/ \E u \in User : LapseWhileBusy(u)
    BY <1>2, <2>2 DEF UploadDies, LapseWhileBusy, Lapse
  <2> QED BY <1>13, <2>1, <2>2 DEF Fault
<1>14. CASE \/ \E u \in User : \/ EraseAccount(u) \/ ComeDue(u) \/ LapseOfTheDead(u)
                              \/ ExpireLease(u) \/ DeleteResource(u)
            \/ \E o \in Object : PutObject(o) \/ Upload(o)
  BY <1>2, <1>14 DEF EraseAccount, ComeDue, LapseOfTheDead, Lapse, ExpireLease,
     DeleteResource, PutObject, Upload, CreateAsset, TakeBackObject, EnqueueAssetCleanup
<1>15. CASE UNCHANGED vars
  BY <1>2, <1>15 DEF vars
<1> QED BY <1>11, <1>12, <1>13, <1>14, <1>15 DEF Next

\* An event that has been stored is not taken back.
LEMMA AnnouncedStays ==
  ASSUME Inductive, [Next]_vars, NEW u \in User, announced[u]
  PROVE  announced'[u]
<1>1. announced \in [User -> BOOLEAN]
  BY DEF Inductive, TypeOK
<1>2. ASSUME NEW w \in Worker, PublishDeleted(w) \/ PublishThrows(w)
      PROVE  announced'[u]
  BY <1>1, <1>2 DEF PublishDeleted, PublishThrows
<1>3. CASE Fault
  BY <1>2, <1>3 DEF Fault, UploadDies, LapseWhileBusy, Lapse, DeleteObjectFails,
     RevokeUpstreamFails, WorkerThrows, WorkerDies, rows
<1>4. ASSUME NEW w \in Worker, Continue(w)
      PROVE  announced'[u]
  BY <1>2, <1>4 DEF Continue, DeleteObject, TakeUpToken, RevokeUpstream,
     RevokeUpstreamNowhere, ClearToken, FinishJob, RetryJob, rows
<1>5. ASSUME NEW w \in Worker, NEW v \in User, ClaimJob(w, v)
      PROVE  announced'[u]
  BY <1>5 DEF ClaimJob
<1>6. CASE \/ \E v \in User : \/ EraseAccount(v) \/ ComeDue(v) \/ LapseOfTheDead(v)
                             \/ ExpireLease(v) \/ DeleteResource(v)
           \/ \E o \in Object : PutObject(o) \/ Upload(o)
  BY <1>6 DEF EraseAccount, ComeDue, LapseOfTheDead, Lapse, ExpireLease,
     DeleteResource, PutObject, Upload, CreateAsset, TakeBackObject, EnqueueAssetCleanup
<1>7. CASE UNCHANGED vars
  BY <1>7 DEF vars, rows
<1> QED BY <1>3, <1>4, <1>5, <1>6, <1>7 DEF Next

LEMMA FinishingAnnouncedStep ==
  ASSUME Inductive, FinishingAnnounced, [Next]_vars
  PROVE  FinishingAnnounced'
<1> SUFFICES ASSUME NEW w \in Worker, work'[w].pc = "finish"
             PROVE  announced'[work'[w].user]
  BY DEF FinishingAnnounced
<1>1. /\ work \in [Worker -> Work] /\ announced \in [User -> BOOLEAN]
      /\ work[w].pc # "idle" => work[w].user \in User
  BY DEF Inductive, TypeOK, WorkersOK, Holds
<1>2. CASE work'[w] = work[w]
  BY <1>1, <1>2, AnnouncedStays DEF FinishingAnnounced
<1>3. CASE PublishDeleted(w)
  <2>1. /\ work[w].pc = "decide" /\ announced' = [announced EXCEPT ![work[w].user] = TRUE]
        /\ work' = [work EXCEPT ![w].pc = "finish"]
    BY <1>3 DEF PublishDeleted, At, Goto
  <2>2. work'[w].user = work[w].user
    BY <1>1, <2>1 DEF Work
  <2> QED BY <1>1, <2>1, <2>2
<1> QED BY <1>2, <1>3, OnlyPublishingLeadsToFinish DEF MayFinish

\* Only finish removes a job.
LEMMA OnlyFinishRemoves ==
  ASSUME Inductive, [Next]_vars, NEW u \in User, job[u].queued, ~job'[u].queued
  PROVE  \E w \in Worker : work[w].pc = "finish" /\ work[w].user = u
<1>1. job \in [User -> Job] /\ job[u] \in Job
  BY DEF Inductive, TypeOK
<1>2. job' # job
  OBVIOUS
<1>3. ASSUME NEW x \in User, NEW j, j.queued, job' = [job EXCEPT ![x] = j]
      PROVE  FALSE
  BY <1>1, <1>3
<1>4. \A x \in User : job[x] \in Job
  BY <1>1
<1>5. ASSUME NEW x \in User, EraseAccount(x)
      PROVE  FALSE
  BY <1>3, <1>5 DEF EraseAccount, QueuedJob, NoJob
<1>6. ASSUME NEW x \in User, ComeDue(x) \/ Lapse(x)
      PROVE  FALSE
  <2>1. job'[u] \in {job[u], [job[u] EXCEPT !.due = TRUE], [job[u] EXCEPT !.lapsed = TRUE]}
    BY <1>1, <1>6 DEF ComeDue, Lapse
  <2> QED BY <1>1, <2>1 DEF Job
<1>7. ASSUME NEW o \in Object, EnqueueAssetCleanup(o)
      PROVE  FALSE
  <2>1. Enqueued(Owner[o], o).queued
    BY <1>4, OwnerAssumption DEF Enqueued, Job
  <2>2. Owner[o] \in User /\ job' = [job EXCEPT ![Owner[o]] = Enqueued(Owner[o], o)]
    BY <1>7, OwnerAssumption DEF EnqueueAssetCleanup
  <2> QED BY <1>3, <2>1, <2>2
<1>8. ASSUME NEW w \in Worker, NEW x \in User, ClaimJob(w, x)
      PROVE  FALSE
  <2>1. job'[u] \in {job[u], [job[u] EXCEPT !.claim = w, !.lapsed = FALSE]}
    BY <1>1, <1>8 DEF ClaimJob
  <2> QED BY <1>1, <2>1 DEF Job
<1>9. ASSUME NEW w \in Worker, RetryJob(w)
      PROVE  FALSE
  <2>1. \/ job'[u] = job[u]
        \/ job'[u] = [job[u] EXCEPT !.due = FALSE, !.claim = None, !.lapsed = FALSE]
    BY <1>1, <1>9 DEF RetryJob
  <2> QED BY <1>1, <2>1 DEF Job
<1>10. ASSUME NEW w \in Worker, FinishJob(w)
       PROVE  work[w].pc = "finish" /\ work[w].user = u
  BY <1>1, <1>10 DEF FinishJob, At
<1>11. ASSUME NEW w \in Worker, Continue(w)
       PROVE  work[w].pc = "finish" /\ work[w].user = u
  BY <1>2, <1>9, <1>10, <1>11 DEF Continue, DeleteObject, TakeUpToken, RevokeUpstream,
     RevokeUpstreamNowhere, ClearToken, PublishDeleted, rows
<1>12. ~Fault
  BY <1>2, <1>6 DEF Fault, UploadDies, LapseWhileBusy, DeleteObjectFails,
     RevokeUpstreamFails, PublishThrows, WorkerThrows, WorkerDies, rows
<1>13. \A x \in User : ~(\/ EraseAccount(x) \/ ComeDue(x) \/ LapseOfTheDead(x)
                         \/ ExpireLease(x) \/ DeleteResource(x))
  BY <1>2, <1>5, <1>6 DEF LapseOfTheDead, ExpireLease, DeleteResource
<1>14. \A o \in Object : ~(PutObject(o) \/ Upload(o))
  BY <1>2, <1>7 DEF PutObject, Upload, CreateAsset, TakeBackObject
<1>15. ~UNCHANGED vars
  BY <1>2 DEF vars, rows
<1> QED BY <1>8, <1>11, <1>12, <1>13, <1>14, <1>15 DEF Next

-----------------------------------------------------------------------------
(* Theorems *)

\* Every row and every invocation has its type (the schema and
\* processAccountDeletionCleanup).
THEOREM TypeCorrect == Spec => []TypeOK
<1>1. Inductive => TypeOK
  BY DEF Inductive
<1> QED BY <1>1, DeletionInvariant, PTL

\* Every object of an erased account is named by its job or still its upload's to
\* settle, however the erasure, the upload and the end of the job overlap
\* (enqueueAssetCleanup, finish).
THEOREM NoObjectIsForgotten == Spec => []NoOrphanedObject
<1>1. Inductive => NoOrphanedObject
  BY DEF Inductive
<1> QED BY <1>1, DeletionInvariant, PTL

\* user.deleted follows the clearing of every token and the deletion of every
\* avatar saved at the erasure, even when the invocation that publishes it has
\* lost its claim (processAccountDeletionCleanup).
THEOREM DeletionFollowsCleanup == Spec => []DeletedAfterCleanup
<1>1. Inductive => DeletedAfterCleanup
  BY DEF Inductive
<1> QED BY <1>1, DeletionInvariant, PTL

\* A token is cleared only after it was revoked or ran out
\* (revokeDeletedAccountConnection, clearConnection).
THEOREM ClearingFollowsRevocation == Spec => []ClearedWasRevoked
<1>1. Inductive => ClearedWasRevoked
  BY DEF Inductive
<1> QED BY <1>1, DeletionInvariant, PTL

\* No job is removed before all that it names by then is done and its
\* user.deleted stored (finish against enqueueAssetCleanup and a second claim).
THEOREM JobsLeaveWhenDone == Spec => JobLeavesWhenDone
<1>1. Init => FinishingAnnounced
  BY DEF Init, FinishingAnnounced, Resting
<1>2. Inductive /\ FinishingAnnounced /\ [Next]_vars => FinishingAnnounced'
  BY FinishingAnnouncedStep
<1>3. ASSUME Inductive, FinishingAnnounced, [Next]_vars
      PROVE  [\A u \in User :
                job[u].queued /\ ~job'[u].queued =>
                  /\ announced[u]
                  /\ \A o \in job[u].objects : object[o] = "gone"
                  /\ \A k \in Kind : token[u][k] # "held"]_vars
  <2>1. ASSUME NEW u \in User, job[u].queued, ~job'[u].queued
        PROVE  announced[u]
    BY <1>3, <2>1, OnlyFinishRemoves DEF FinishingAnnounced
  <2> QED BY <1>3, <2>1, InductiveStep DEF LeavesWhenDone
<1> QED BY <1>1, <1>2, <1>3, DeletionInvariant, PTL DEF Spec, JobLeavesWhenDone
=============================================================================
