-------------------------- MODULE RefreshRotation --------------------------
(***************************************************************************)
(* Token exchange and its one-time refresh tokens.                         *)
(*                                                                         *)
(* A confidential client exchanges a workload's assertion, trusted through *)
(* a federated credential, for an access token and, with offline_access, a *)
(* refresh token.  Each refresh replaces the refresh token: one batch      *)
(* inserts the child, consumes the parent and inserts the access token.  A *)
(* consumed token that comes back, or a rotation that loses a race, ends   *)
(* the whole family, by a statement of its own.                            *)
(*                                                                         *)
(* Meanwhile controllers enable, disable, repoint and delete credentials   *)
(* and Resource Servers, a client repeats a request whose answer it lost,  *)
(* and any await may throw.                                                *)
(*                                                                         *)
(* The module follows one client: every lookup filters by client.  An id   *)
(* of Token names the pair of rows one grant inserts, the access token     *)
(* (access) and the refresh token (row); a family is named by its first    *)
(* refresh token.  Scopes are left out.                                    *)
(***************************************************************************)
EXTENDS FiniteSets

CONSTANTS
  Resource,    \* Resource Servers, the audiences
  Credential,  \* federated credentials of the client's application
  Token,       \* identifiers of grants (a bound on their number)
  Handler,     \* invocations that run at the same time
  None         \* SQL null

ASSUME NoneAssumption == None \notin Token \cup Resource \cup Credential

VARIABLES
  resource,    \* api_resource: "visible" to the client's Organization,
               \* "hidden" from it, "disabled" or "deleted"
  credential,  \* federated_credential
  row,         \* token_exchange_refresh_token
  access,      \* token_exchange_access_token
  proc         \* the handlers in flight and what they have read

vars == <<resource, credential, row, access, proc>>
tokens == <<row, access>>
setting == <<resource, credential>>

-----------------------------------------------------------------------------
(* Records *)

FederatedCredential == [exists: BOOLEAN, enabled: BOOLEAN, aud: Resource]

\* "removed" is a row the cascade of a credential's deletion has taken away.
RefreshToken ==
  [state: {"none", "stored", "removed"}, fam: Token \cup {None},
   parent: Token \cup {None}, cred: Credential \cup {None},
   aud: Resource \cup {None}, consumed: BOOLEAN, revoked: BOOLEAN,
   expired: BOOLEAN, sent: BOOLEAN]

NoRefreshToken ==
  [state |-> "none", fam |-> None, parent |-> None, cred |-> None, aud |-> None,
   consumed |-> FALSE, revoked |-> FALSE, expired |-> FALSE, sent |-> FALSE]

\* by: the request that minted the token.
AccessToken ==
  [state: {"none", "live", "revoked", "removed"}, by: {"exchange", "refresh"},
   cred: Credential \cup {None}]

NoAccessToken == [state |-> "none", by |-> "exchange", cred |-> None]

Work ==
  [pc: {"idle", "eligible", "storeAccess", "storeRefresh", "checkFamily",
        "selfRevoke", "findCredential", "audience", "scopes", "rotate",
        "respond", "revokeFamily", "refused", "updateCredential"},
   tok: Token \cup {None}, new: Token \cup {None},
   cred: Credential \cup {None}, aud: Resource \cup {None}, offline: BOOLEAN]

Idle ==
  [pc |-> "idle", tok |-> None, new |-> None, cred |-> None, aud |-> None,
   offline |-> FALSE]

TypeOK ==
  /\ resource \in [Resource -> {"visible", "hidden", "disabled", "deleted"}]
  /\ credential \in [Credential -> FederatedCredential]
  /\ row \in [Token -> RefreshToken]
  /\ \A t \in Token : row[t].state = "stored" =>
       row[t].fam \in Token /\ row[t].cred \in Credential /\ row[t].aud \in Resource
  /\ access \in [Token -> AccessToken]
  /\ proc \in [Handler -> Work]

-----------------------------------------------------------------------------
(* Helpers *)

Goto(p, w) == proc' = [proc EXCEPT ![p] = w]
Done(p) == Goto(p, Idle)

\* The family of t has been dealt with; what is left is to answer invalid_grant.
Refused(p, t) == Goto(p, [Idle EXCEPT !.pc = "refused", !.tok = t])

\* A token that a refresh can redeem, as far as the rows tell.
Redeemable(t) == row[t].state = "stored" /\ ~row[t].consumed /\ ~row[t].revoked

Family(f) == {t \in Token : row[t].state = "stored" /\ row[t].fam = f}
LiveIn(f) == {t \in Family(f) : Redeemable(t)}

\* A new identifier: no other handler has generated it.
Fresh(t) ==
  /\ row[t].state = "none" /\ access[t].state = "none"
  /\ \A p \in Handler : proc[p].new # t

\* Both lookups join the credential with an enabled Resource Server.
Resolves(c) ==
  /\ credential[c].exists /\ credential[c].enabled
  /\ resource[credential[c].aud] \in {"visible", "hidden"}

-----------------------------------------------------------------------------
(* Exchange *)

\* The credential that matches the assertion.
Exchange(p, c, t, offline) ==
  /\ proc[p] = Idle /\ Resolves(c) /\ Fresh(t)
  /\ Goto(p, [Idle EXCEPT !.pc = "eligible", !.new = t, !.cred = c,
                          !.aud = credential[c].aud, !.offline = offline])
  /\ UNCHANGED <<setting, tokens>>

\* The audience must be visible to the Organization; then scopes are resolved,
\* the assertion is verified against fetched keys and the token signed.
RequireEligibleAudience(p) ==
  LET w == proc[p]
  IN /\ w.pc = "eligible"
     /\ \/ resource[w.aud] = "visible" /\ Goto(p, [w EXCEPT !.pc = "storeAccess"])
        \/ resource[w.aud] # "visible" /\ Done(p)
     /\ UNCHANGED <<setting, tokens>>

\* Both inserts have a foreign key to the credential, and throw without it.
StoreAccessToken(p) ==
  LET w == proc[p]
  IN /\ w.pc = "storeAccess"
     /\ IF credential[w.cred].exists
          THEN /\ access' = [access EXCEPT ![w.new] =
                    [state |-> "live", by |-> "exchange", cred |-> w.cred]]
               /\ IF w.offline THEN Goto(p, [w EXCEPT !.pc = "storeRefresh"])
                               ELSE Done(p)
          ELSE UNCHANGED access /\ Done(p)
     /\ UNCHANGED <<setting, row>>

StoreRefreshToken(p) ==
  LET w == proc[p]
  IN /\ w.pc = "storeRefresh"
     /\ IF credential[w.cred].exists
          THEN /\ row' = [row EXCEPT ![w.new] =
                    [NoRefreshToken EXCEPT !.state = "stored", !.fam = w.new,
                                           !.cred = w.cred, !.aud = w.aud]]
               /\ Goto(p, [w EXCEPT !.pc = "checkFamily"])
          ELSE UNCHANGED row /\ Done(p)
     /\ UNCHANGED <<setting, access>>

\* The family of the row just inserted may have been revoked meanwhile.
CheckFamily(p) ==
  LET w == proc[p]
      revoked == \E t \in Family(w.new) : row[t].revoked
  IN /\ w.pc = "checkFamily"
     /\ \/ revoked /\ Goto(p, [w EXCEPT !.pc = "selfRevoke"]) /\ UNCHANGED row
        \/ /\ ~revoked /\ Done(p)
           /\ row' = [row EXCEPT ![w.new].sent = TRUE]
     /\ UNCHANGED <<setting, access>>

SelfRevoke(p) ==
  LET w == proc[p]
  IN /\ w.pc = "selfRevoke"
     /\ row' = [row EXCEPT ![w.new].revoked = @ \/ row[w.new].state = "stored"]
     /\ Done(p)
     /\ UNCHANGED <<setting, access>>

-----------------------------------------------------------------------------
(* Refresh *)

\* The client presents a token it was sent.  A consumed token is a replay even
\* when it is revoked or expired too.
PresentConsumed(p, t) ==
  /\ proc[p] = Idle /\ row[t].state = "stored" /\ row[t].sent /\ row[t].consumed
  /\ Goto(p, [Idle EXCEPT !.pc = "revokeFamily", !.tok = t])
  /\ UNCHANGED <<setting, tokens>>

Present(p, t, new) ==
  /\ proc[p] = Idle /\ row[t].sent /\ Redeemable(t) /\ ~row[t].expired /\ Fresh(new)
  /\ Goto(p, [Idle EXCEPT !.pc = "findCredential", !.tok = t, !.new = new])
  /\ UNCHANGED <<setting, tokens>>

FindCredential(p) ==
  LET w == proc[p]
      c == row[w.tok].cred
  IN /\ w.pc = "findCredential"
     /\ \/ /\ Resolves(c)
           /\ Goto(p, [w EXCEPT !.pc = "audience", !.aud = credential[c].aud])
        \/ ~Resolves(c) /\ Done(p)
     /\ UNCHANGED <<setting, tokens>>

\* A credential that points elsewhere, or at an audience that is no longer
\* visible, ends the family.
CheckAudience(p) ==
  LET w == proc[p]
      eligible == w.aud = row[w.tok].aud /\ resource[w.aud] = "visible"
  IN /\ w.pc = "audience"
     /\ Goto(p, [w EXCEPT !.pc = IF eligible THEN "scopes" ELSE "revokeFamily"])
     /\ UNCHANGED <<setting, tokens>>

\* Scopes are resolved on the audience as it is now, and the token is signed.
ResolveScopes(p) ==
  LET w == proc[p]
  IN /\ w.pc = "scopes"
     /\ \/ resource[row[w.tok].aud] = "visible" /\ Goto(p, [w EXCEPT !.pc = "rotate"])
        \/ resource[row[w.tok].aud] # "visible" /\ Done(p)
     /\ UNCHANGED <<setting, tokens>>

\* Guards that miss a column, or trust what was read.
RotationGuardUnconsumed(w) == row[w.tok].state = "stored" /\ ~row[w.tok].consumed
RotationGuardUnrevoked(w) == row[w.tok].state = "stored" /\ ~row[w.tok].revoked
RotationGuardOnRead(w) == row[w.tok].state = "stored"

\* One batch of three statements; the first two have the same guard on the
\* parent, which is read before either writes, and the third follows the child.
RotationGuard(w) == Redeemable(w.tok)

\* A child that is not told its family.
ChildAlone(w) ==
  [NoRefreshToken EXCEPT !.state = "stored", !.parent = w.tok,
                         !.cred = row[w.tok].cred, !.aud = row[w.tok].aud]

Child(w) ==
  [row[w.tok] EXCEPT !.parent = w.tok, !.consumed = FALSE, !.revoked = FALSE,
                     !.expired = FALSE, !.sent = FALSE]

\* The two statements the other way round: the parent is no longer active when
\* the child's SELECT looks for it.
RotateRowsSwapped(w) == row' = [row EXCEPT ![w.tok].consumed = TRUE]

\* Insert the child, then consume the parent.
RotateRows(w) ==
  row' = [row EXCEPT ![w.new] = Child(w), ![w.tok].consumed = TRUE]

\* A lost race that is only refused.
RotateRefreshTokenForgiving(p) ==
  LET w == proc[p]
  IN /\ w.pc = "rotate"
     /\ \/ /\ RotationGuard(w)
           /\ RotateRows(w)
           /\ Goto(p, [w EXCEPT !.pc = "respond"])
        \/ ~RotationGuard(w) /\ Refused(p, w.tok) /\ UNCHANGED row
     /\ UNCHANGED <<setting, access>>

RotateRefreshToken(p) ==
  LET w == proc[p]
  IN /\ w.pc = "rotate"
     /\ \/ /\ RotationGuard(w)
           /\ RotateRows(w)
           /\ access' = [access EXCEPT ![w.new] =
                [state |-> "live", by |-> "refresh", cred |-> row[w.tok].cred]]
           /\ Goto(p, [w EXCEPT !.pc = "respond"])
        \/ /\ ~RotationGuard(w)
           /\ Goto(p, [w EXCEPT !.pc = "revokeFamily"])
           /\ UNCHANGED tokens
     /\ UNCHANGED setting

\* The client gets its new refresh token.
Respond(p) ==
  LET w == proc[p]
  IN /\ w.pc = "respond"
     /\ row' = [row EXCEPT ![w.new].sent = TRUE]
     /\ Done(p)
     /\ UNCHANGED <<setting, access>>

RevokedRows(T) ==
  [t \in Token |-> IF t \in T THEN [row[t] EXCEPT !.revoked = TRUE] ELSE row[t]]

RevokeRefreshTokenFamily(p) ==
  LET w == proc[p]
  IN /\ w.pc = "revokeFamily"
     /\ row' = RevokedRows(Family(row[w.tok].fam))
     /\ Refused(p, w.tok)
     /\ UNCHANGED <<setting, access>>

Refuse(p) ==
  /\ proc[p].pc = "refused" /\ Done(p)
  /\ UNCHANGED <<setting, tokens>>

\* Any await may throw, or the invocation end: whoever called repeats or not.
Abandon(p) ==
  /\ proc[p] # Idle /\ Done(p)
  /\ UNCHANGED <<setting, tokens>>

-----------------------------------------------------------------------------
(* Controllers *)

\* A patch that names an audience checks it before it writes.
UpdateFederatedCredential(p, c, r) ==
  /\ proc[p] = Idle /\ credential[c].exists /\ resource[r] = "visible"
  /\ Goto(p, [Idle EXCEPT !.pc = "updateCredential", !.cred = c, !.aud = r])
  /\ UNCHANGED <<setting, tokens>>

CommitCredential(p) ==
  LET w == proc[p]
  IN /\ w.pc = "updateCredential"
     /\ credential' = [credential EXCEPT ![w.cred].aud =
                         IF credential[w.cred].exists THEN w.aud ELSE @]
     /\ Done(p)
     /\ UNCHANGED <<resource, tokens>>

\* A patch of enabled alone checks nothing but that the credential exists.
SetCredentialEnabled(c) ==
  /\ credential[c].exists
  /\ credential' = [credential EXCEPT ![c].enabled = ~@]
  /\ UNCHANGED <<resource, tokens, proc>>

\* A hard delete, whose cascade takes the tokens along.
DeleteFederatedCredential(c) ==
  /\ credential[c].exists
  /\ credential' = [credential EXCEPT ![c].exists = FALSE, ![c].enabled = FALSE]
  /\ row' = [t \in Token |->
       IF row[t].state = "stored" /\ row[t].cred = c
         THEN [row[t] EXCEPT !.state = "removed"] ELSE row[t]]
  /\ access' = [t \in Token |->
       IF access[t].cred = c THEN [access[t] EXCEPT !.state = "removed"] ELSE access[t]]
  /\ UNCHANGED <<resource, proc>>

UpdateResource(r, s) ==
  /\ resource[r] # "deleted" /\ s \in {"visible", "hidden", "disabled"} \ {resource[r]}
  /\ resource' = [resource EXCEPT ![r] = s]
  /\ UNCHANGED <<credential, tokens, proc>>

\* One batch: the credentials of the resource are disabled, their tokens revoked.
DeleteResource(r) ==
  LET C == {c \in Credential : credential[c].exists /\ credential[c].aud = r}
  IN /\ resource[r] # "deleted"
     /\ resource' = [resource EXCEPT ![r] = "deleted"]
     /\ credential' = [c \in Credential |->
          IF c \in C THEN [credential[c] EXCEPT !.enabled = FALSE] ELSE credential[c]]
     /\ row' = RevokedRows({t \in Token : row[t].state = "stored" /\ row[t].cred \in C})
     /\ access' = [t \in Token |->
          IF access[t].state = "live" /\ access[t].cred \in C
            THEN [access[t] EXCEPT !.state = "revoked"] ELSE access[t]]
     /\ UNCHANGED proc

\* The clock passes expires_at, which nobody asks of a token already spent.
Expire(t) ==
  /\ Redeemable(t) /\ ~row[t].expired
  /\ row' = [row EXCEPT ![t].expired = TRUE]
  /\ UNCHANGED <<setting, access, proc>>

-----------------------------------------------------------------------------
Init ==
  /\ resource = [r \in Resource |-> "visible"]
  /\ credential \in [Credential -> [exists: {TRUE}, enabled: {TRUE}, aud: Resource]]
  /\ row = [t \in Token |-> NoRefreshToken]
  /\ access = [t \in Token |-> NoAccessToken]
  /\ proc = [p \in Handler |-> Idle]

\* A client starts an exchange or a refresh.
Start(p) ==
  \/ \E c \in Credential, t \in Token, offline \in BOOLEAN : Exchange(p, c, t, offline)
  \/ \E t \in Token : PresentConsumed(p, t) \/ \E new \in Token : Present(p, t, new)

\* The steps of a handler that has started.
Continue(p) ==
  \/ RequireEligibleAudience(p) \/ StoreAccessToken(p) \/ StoreRefreshToken(p)
  \/ CheckFamily(p) \/ SelfRevoke(p)
  \/ FindCredential(p) \/ CheckAudience(p) \/ ResolveScopes(p)
  \/ RotateRefreshToken(p) \/ Respond(p) \/ RevokeRefreshTokenFamily(p)
  \/ Refuse(p) \/ CommitCredential(p)

Control ==
  \/ \E c \in Credential : SetCredentialEnabled(c) \/ DeleteFederatedCredential(c)
  \/ \E p \in Handler, c \in Credential, r \in Resource :
       UpdateFederatedCredential(p, c, r)
  \/ \E r \in Resource :
       DeleteResource(r) \/ \E s \in {"visible", "hidden", "disabled"} : UpdateResource(r, s)

Next ==
  \/ Control
  \/ \E t \in Token : Expire(t)
  \/ \E p \in Handler : Start(p) \/ Continue(p) \/ Abandon(p)

Spec == Init /\ [][Next]_vars

-----------------------------------------------------------------------------
(* Properties *)

\* However refreshes of one family overlap, at most one of its tokens can be
\* redeemed (rotateRefreshToken consumes the parent in the batch that inserts
\* the child).
OneLiveToken ==
  \A f \in Token : \A t, u \in LiveIn(f) : t = u

\* Once a token of a family has been revoked nothing in the family can be
\* redeemed, whatever rotation was under way (revokeRefreshTokenFamily and
\* deleteResource against rotateRefreshToken).
RevokedTogether ==
  \A t, u \in Token :
    /\ row[t].state = "stored" /\ row[u].state = "stored" /\ row[t].fam = row[u].fam
    /\ row[t].revoked
    => ~Redeemable(u)

ConsumedIsReplaced ==
  \A t \in Token :
    row[t].state = "stored" =>
      (row[t].consumed <=> \E u \in Token : row[u].state = "stored" /\ row[u].parent = t)

OneSuccessor ==
  \A t, u \in Token :
    row[t].state = "stored" /\ row[u].state = "stored" /\ row[t].parent = row[u].parent
      /\ row[t].parent # None => t = u

MintedTogether ==
  \A t \in Token :
    access[t].state \in {"live", "revoked"} /\ access[t].by = "refresh" <=>
      row[t].state = "stored" /\ row[t].parent # None

\* A rotation is whole: a token is consumed just when one token replaces it,
\* and a refresh has minted an access token just when its refresh token exists
\* (the three statements of rotateRefreshToken's batch).
RotationIsWhole == ConsumedIsReplaced /\ OneSuccessor /\ MintedTogether

\* The chain the rows stand for.
Issued(f) == {t \in Token : row[t].state # "none" /\ row[t].fam = f}

Phase(f) ==
  IF Issued(f) = {} THEN "unborn" ELSE IF LiveIn(f) = {} THEN "ended" ELSE "alive"
Head(f) == IF LiveIn(f) = {} THEN None ELSE CHOOSE t \in LiveIn(f) : TRUE

Chain == INSTANCE TokenChain WITH
  phase <- [f \in Token |-> Phase(f)],
  head <- [f \in Token |-> Head(f)],
  used <- {t \in Token : row[t].state # "none"}

\* The tables implement a chain of one-time tokens for each family: a token is
\* redeemed once, by its only successor, and what has ended stays ended.
ImplementsChain == Chain!Spec

\* By the time a client is refused because its token was spent, or because the
\* token's audience is no longer eligible, nothing in the family can be redeemed,
\* and no rotation under way brings it back (refreshToken; auth-provider.md:
\* "Reuse revokes the token family").
ReuseEndsFamily ==
  \A p \in Handler : proc[p].pc = "refused" => LiveIn(row[proc[p].tok].fam) = {}
=============================================================================
