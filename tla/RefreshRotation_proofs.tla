----------------------- MODULE RefreshRotation_proofs -----------------------
(***************************************************************************)
(* Proofs about RefreshRotation: its invariants, and that the tables       *)
(* implement the chain of one-time tokens (TokenChain).                    *)
(***************************************************************************)
EXTENDS RefreshRotation, TLAPS

-----------------------------------------------------------------------------
(* The inductive invariant *)

\* Handlers before the rotation of their token, and before the insert of a
\* first token.
Rotating == {"findCredential", "audience", "scopes", "rotate"}
Exchanging == {"eligible", "storeAccess", "storeRefresh"}
Checking == {"checkFamily", "selfRevoke"}

\* What the record of a handler holds at each program counter.
Shape(w) ==
  /\ w.pc \in Rotating \cup Exchanging \cup Checking \cup {"respond"} => w.new \in Token
  /\ w.pc \in Rotating \cup {"respond", "revokeFamily", "refused"} => w.tok \in Token
  /\ w.pc \in Exchanging \cup {"updateCredential"} =>
       w.cred \in Credential /\ w.aud \in Resource

\* What a handler may rely on of the rows: the token presented was issued, the
\* one to come was not, and a handler revokes its own token only in a family
\* that has a revoked one.  What a refusal rests on stays true.
Knows(w, rows) ==
  /\ w.pc \in Rotating \cup {"respond", "revokeFamily", "refused"} =>
       rows[w.tok].state # "none"
  /\ w.pc = "refused" /\ rows[w.tok].state = "stored" => rows[w.tok].revoked
  /\ w.pc \in Rotating \cup Exchanging => rows[w.new].state = "none"
  /\ w.pc \in Checking \cup {"respond"} => rows[w.new].state # "none"
  /\ w.pc \in Checking => rows[w.new].fam = w.new
  /\ w.pc = "selfRevoke" /\ rows[w.new].state = "stored" =>
       \E u \in Token : /\ rows[u].state = "stored" /\ rows[u].fam = w.new
                        /\ rows[u].revoked

HandlersOK ==
  /\ \A p \in Handler : Shape(proc[p]) /\ Knows(proc[p], row)
  /\ \A p, q \in Handler : proc[p].new = proc[q].new => p = q \/ proc[p].new = None

\* A row names its family, whose rows have one credential and live and go
\* together, and a parent of the same family.
RowsOK ==
  \A t \in Token :
    /\ row[t].state # "none" =>
         /\ row[t].fam \in Token /\ row[row[t].fam].state # "none"
         /\ row[t].cred \in Credential /\ row[t].aud \in Resource
    /\ row[t].state = "none" => row[t].fam = None /\ row[t].parent = None
    /\ row[t].parent # None =>
         /\ row[row[t].parent].state # "none"
         /\ row[row[t].parent].fam = row[t].fam

FamiliesOK ==
  \A t, u \in Token :
    row[t].state # "none" /\ row[u].state # "none" /\ row[t].fam = row[u].fam =>
      row[t].cred = row[u].cred /\ row[t].state = row[u].state

\* The access token of a refresh rests on the credential of its refresh token.
AccessOK ==
  \A t \in Token :
    /\ access[t].by = "refresh" /\ access[t].state # "none" =>
         row[t].state # "none" /\ access[t].cred = row[t].cred
    /\ access[t].state = "none" => access[t].cred = None

Inductive ==
  /\ TypeOK /\ HandlersOK /\ RowsOK /\ FamiliesOK /\ AccessOK
  /\ OneLiveToken /\ RevokedTogether /\ RotationIsWhole

-----------------------------------------------------------------------------
(* How the rows evolve under the handlers *)

\* A step issues at most the token n, forgets none, never takes a revocation
\* back, and removes a family whole.
Evolves(n) ==
  \A t \in Token :
    /\ row[t].state # "none" => row'[t].state # "none" /\ row'[t].fam = row[t].fam
    /\ row[t].state = "none" /\ t # n => row'[t].state = "none"
    /\ row[t].state # "stored" /\ t # n => row'[t].state # "stored"
    /\ row[t].state = "removed" => row'[t].state # "stored"
    /\ row[t].state = "stored" /\ row[t].revoked => row'[t].revoked
    /\ \A u \in Token :
         /\ row[t].state = "stored" /\ row[u].state = "stored" /\ row[t].fam = row[u].fam
         /\ row'[t].state = "stored"
         => row'[u].state = "stored"

LEMMA KnowsKept ==
  ASSUME Inductive, NEW n, Evolves(n), NEW w, Shape(w), Knows(w, row),
         n \in Token => w.new # n
  PROVE  Knows(w, row')
<1>1. w.pc \in Rotating \cup {"respond", "revokeFamily", "refused"} =>
        w.tok \in Token /\ row'[w.tok].state # "none"
  BY DEF Shape, Knows, Evolves
<1>2. w.pc \in Rotating \cup Exchanging => row'[w.new].state = "none"
  BY DEF Shape, Knows, Evolves
<1>3. w.pc \in Checking \cup {"respond"} =>
        row'[w.new].state # "none" /\ row'[w.new].fam = row[w.new].fam
  BY DEF Shape, Knows, Evolves
<1>4. ASSUME w.pc = "selfRevoke", row'[w.new].state = "stored"
      PROVE  \E u \in Token : /\ row'[u].state = "stored" /\ row'[u].fam = w.new
                              /\ row'[u].revoked
  <2>1. w.new \in Token /\ row[w.new].fam = w.new
    BY <1>4 DEF Shape, Knows, Checking
  <2>2. row[w.new].state = "stored"
    BY <1>4, <2>1 DEF Evolves
  <2>3. PICK u \in Token : row[u].state = "stored" /\ row[u].fam = w.new /\ row[u].revoked
    BY <1>4, <2>2 DEF Knows
  <2>4. row'[u].state = "stored" /\ row'[u].fam = w.new /\ row'[u].revoked
    BY <1>4, <2>1, <2>2, <2>3 DEF Evolves
  <2> QED BY <2>4
<1>5. w.pc \in Checking => row'[w.new].fam = w.new
  BY <1>3 DEF Knows
<1>6. ASSUME w.pc = "refused", row'[w.tok].state = "stored"
      PROVE  row'[w.tok].revoked
  <2>1. w.tok \in Token /\ row[w.tok].state # "none"
    BY <1>6 DEF Shape, Knows
  <2>2. row[w.tok].state \in {"none", "stored", "removed"}
    BY <2>1 DEF Inductive, TypeOK, RefreshToken
  <2>3. row[w.tok].state = "stored"
    BY <1>6, <2>1, <2>2 DEF Evolves
  <2> QED BY <1>6, <2>1, <2>3 DEF Knows, Evolves
<1> QED BY <1>1, <1>2, <1>3, <1>4, <1>5, <1>6 DEF Knows

\* The handler p goes on with w while at most the token n is issued.
LEMMA HandlersStep ==
  ASSUME Inductive, NEW n, Evolves(n), NEW p \in Handler, NEW w \in Work, Goto(p, w),
         Shape(w), Knows(w, row'),
         \A q \in Handler \ {p} : w.new = None \/ proc[q].new # w.new,
         \A q \in Handler \ {p} : n \in Token => proc[q].new # n
  PROVE  HandlersOK' /\ proc' \in [Handler -> Work]
<1>1. proc \in [Handler -> Work]
  BY DEF Inductive, TypeOK
<1>2. proc' \in [Handler -> Work] /\ proc'[p] = w
      /\ \A q \in Handler \ {p} : proc'[q] = proc[q]
  BY <1>1 DEF Goto
<1>3. ASSUME NEW q \in Handler PROVE Shape(proc'[q]) /\ Knows(proc'[q], row')
  <2>1. CASE q = p
    BY <1>2, <2>1
  <2>2. CASE q # p
    <3>1. Shape(proc[q]) /\ Knows(proc[q], row) /\ (n \in Token => proc[q].new # n)
      BY <2>2 DEF Inductive, HandlersOK
    <3> QED BY <1>2, <2>2, <3>1, KnowsKept
  <2> QED BY <2>1, <2>2
<1>4. \A q, u \in Handler : proc'[q].new = proc'[u].new => q = u \/ proc'[q].new = None
  BY <1>2 DEF Inductive, HandlersOK
<1> QED BY <1>2, <1>3, <1>4 DEF HandlersOK

LEMMA HandlersStay ==
  ASSUME Inductive, Evolves(None), proc' = proc
  PROVE  HandlersOK' /\ proc' \in [Handler -> Work]
<1>1. \A p \in Handler : Knows(proc[p], row')
  BY KnowsKept, NoneAssumption DEF Inductive, HandlersOK
<1> QED BY <1>1 DEF Inductive, HandlersOK, TypeOK

LEMMA IdleShape == Idle \in Work /\ Shape(Idle) /\ \A rows : Knows(Idle, rows)
BY DEF Idle, Work, Shape, Knows, Rotating, Exchanging, Checking

\* A step that only reads.
LEMMA ReadingStep ==
  ASSUME Inductive, UNCHANGED <<setting, tokens>>,
         NEW p \in Handler, NEW w \in Work, Goto(p, w), Shape(w), Knows(w, row),
         \A q \in Handler \ {p} : w.new = None \/ proc[q].new # w.new
  PROVE  Inductive'
<1>1. row' = row /\ access' = access /\ resource' = resource /\ credential' = credential
  BY DEF setting, tokens
<1>2. Evolves(None)
  BY <1>1 DEF Evolves
<1>3. HandlersOK' /\ proc' \in [Handler -> Work]
  BY <1>1, <1>2, HandlersStep, NoneAssumption
<1>4. TypeOK'
  BY <1>1, <1>3 DEF Inductive, TypeOK
<1>5. RowsOK' /\ FamiliesOK' /\ AccessOK'
  BY <1>1 DEF Inductive, RowsOK, FamiliesOK, AccessOK
<1>6. OneLiveToken' /\ RevokedTogether' /\ RotationIsWhole'
  BY <1>1 DEF Inductive, OneLiveToken, RevokedTogether, RotationIsWhole, LiveIn,
     Family, Redeemable, ConsumedIsReplaced, OneSuccessor, MintedTogether
<1> QED BY <1>3, <1>4, <1>5, <1>6 DEF Inductive

\* A handler that ends, or goes on with the same tokens, shares its new token
\* with none.
LEMMA SameNew ==
  ASSUME Inductive, NEW p \in Handler, NEW w, w.new \in {None, proc[p].new}
  PROVE  \A q \in Handler \ {p} : w.new = None \/ proc[q].new # w.new
BY DEF Inductive, HandlersOK

LEMMA DoneStep ==
  ASSUME Inductive, UNCHANGED <<setting, tokens>>, NEW p \in Handler, Done(p)
  PROVE  Inductive'
<1>1. Idle.new = None
  BY DEF Idle
<1> QED BY <1>1, IdleShape, ReadingStep DEF Done

\* An issued token names its family, its credential and its audience.
LEMMA IssuedFields ==
  ASSUME Inductive, NEW t \in Token, row[t].state # "none"
  PROVE  row[t].fam \in Token /\ row[t].cred \in Credential /\ row[t].aud \in Resource
BY DEF Inductive, TypeOK, RowsOK

-----------------------------------------------------------------------------
(* Steps that only read *)

\* A handler goes on with what it has at a later program counter.
LEMMA OnwardStep ==
  ASSUME Inductive, UNCHANGED <<setting, tokens>>, NEW p \in Handler,
         NEW a \in Resource \cup {None},
         NEW c \in {"storeAccess", "audience", "scopes", "rotate", "revokeFamily", "selfRevoke"},
         LET w == [proc[p] EXCEPT !.pc = c, !.aud = a]
         IN Goto(p, w) /\ Shape(w) /\ Knows(w, row)
  PROVE  Inductive'
<1> DEFINE w == [proc[p] EXCEPT !.pc = c, !.aud = a]
<1>1. proc[p] \in Work
  BY DEF Inductive, TypeOK
<1>2. w \in Work /\ w.new = proc[p].new
  BY <1>1 DEF Work
<1> HIDE DEF w
<1>3. \A q \in Handler \ {p} : w.new = None \/ proc[q].new # w.new
  BY <1>2, SameNew
<1> QED BY <1>2, <1>3, ReadingStep DEF w

\* The record a handler goes on with keeps its tokens.
LEMMA OnwardFields ==
  ASSUME Inductive, NEW p \in Handler, NEW a, NEW c
  PROVE  LET w == proc[p]
             v == [w EXCEPT !.pc = c, !.aud = a]
         IN /\ w \in Work /\ Shape(w) /\ Knows(w, row)
            /\ v.pc = c /\ v.aud = a /\ v.tok = w.tok /\ v.new = w.new /\ v.cred = w.cred
            /\ [w EXCEPT !.pc = c] = [w EXCEPT !.pc = c, !.aud = w.aud]
BY DEF Inductive, TypeOK, HandlersOK, Work

LEMMA ExchangeStep ==
  ASSUME Inductive, NEW p \in Handler, NEW c \in Credential, NEW t \in Token,
         NEW offline \in BOOLEAN, Exchange(p, c, t, offline)
  PROVE  Inductive'
<1> DEFINE w == [Idle EXCEPT !.pc = "eligible", !.new = t, !.cred = c,
                             !.aud = credential[c].aud, !.offline = offline]
<1>1. Goto(p, w) /\ UNCHANGED <<setting, tokens>> /\ Fresh(t)
  BY DEF Exchange
<1>2. credential[c].aud \in Resource
  BY DEF Inductive, TypeOK, FederatedCredential
<1>3. /\ w \in Work /\ w.pc = "eligible" /\ w.new = t /\ w.cred = c
      /\ w.aud \in Resource
  BY <1>2 DEF Idle, Work
<1> HIDE DEF w
<1>4. Shape(w) /\ Knows(w, row)
  BY <1>1, <1>3 DEF Shape, Knows, Rotating, Exchanging, Checking, Fresh
<1>5. \A q \in Handler \ {p} : proc[q].new # w.new
  BY <1>1, <1>3 DEF Fresh
<1> QED BY <1>1, <1>3, <1>4, <1>5, ReadingStep

LEMMA PresentStep ==
  ASSUME Inductive, NEW p \in Handler, NEW t \in Token, NEW new \in Token,
         Present(p, t, new)
  PROVE  Inductive'
<1> DEFINE w == [Idle EXCEPT !.pc = "findCredential", !.tok = t, !.new = new]
<1>1. Goto(p, w) /\ UNCHANGED <<setting, tokens>> /\ Fresh(new) /\ row[t].state # "none"
  BY DEF Present, Redeemable
<1>2. w \in Work /\ w.pc = "findCredential" /\ w.tok = t /\ w.new = new
  BY DEF Idle, Work
<1> HIDE DEF w
<1>3. Shape(w) /\ Knows(w, row)
  BY <1>1, <1>2 DEF Shape, Knows, Rotating, Exchanging, Checking, Fresh
<1>4. \A q \in Handler \ {p} : proc[q].new # w.new
  BY <1>1, <1>2 DEF Fresh
<1> QED BY <1>1, <1>2, <1>3, <1>4, ReadingStep

LEMMA PresentConsumedStep ==
  ASSUME Inductive, NEW p \in Handler, NEW t \in Token, PresentConsumed(p, t)
  PROVE  Inductive'
<1> DEFINE w == [Idle EXCEPT !.pc = "revokeFamily", !.tok = t]
<1>1. Goto(p, w) /\ UNCHANGED <<setting, tokens>> /\ row[t].state # "none"
  BY DEF PresentConsumed
<1>2. w \in Work /\ w.pc = "revokeFamily" /\ w.tok = t /\ w.new = None
  BY DEF Idle, Work
<1> HIDE DEF w
<1>3. Shape(w) /\ Knows(w, row)
  BY <1>1, <1>2 DEF Shape, Knows, Rotating, Exchanging, Checking
<1> QED BY <1>1, <1>2, <1>3, ReadingStep

LEMMA UpdateFederatedCredentialStep ==
  ASSUME Inductive, NEW p \in Handler, NEW c \in Credential, NEW r \in Resource,
         UpdateFederatedCredential(p, c, r)
  PROVE  Inductive'
<1> DEFINE w == [Idle EXCEPT !.pc = "updateCredential", !.cred = c, !.aud = r]
<1>1. Goto(p, w) /\ UNCHANGED <<setting, tokens>>
  BY DEF UpdateFederatedCredential
<1>2. w \in Work /\ w.pc = "updateCredential" /\ w.cred = c /\ w.aud = r /\ w.new = None
  BY DEF Idle, Work
<1> HIDE DEF w
<1>3. Shape(w) /\ Knows(w, row)
  BY <1>2 DEF Shape, Knows, Rotating, Exchanging, Checking
<1> QED BY <1>1, <1>2, <1>3, ReadingStep

\* The record that goes on at c, and what it must know there.
LEMMA OnwardKnows ==
  ASSUME Inductive, NEW p \in Handler, NEW a \in Resource \cup {None}, NEW c,
         LET w == proc[p]
         IN \/ c = "storeAccess" /\ w.pc = "eligible" /\ a = w.aud
            \/ c \in {"audience", "scopes", "rotate", "revokeFamily"} /\ w.pc \in Rotating
  PROVE  LET v == [proc[p] EXCEPT !.pc = c, !.aud = a] IN Shape(v) /\ Knows(v, row)
<1> DEFINE w == proc[p]
           v == [w EXCEPT !.pc = c, !.aud = a]
<1>1. /\ w \in Work /\ Shape(w) /\ Knows(w, row)
      /\ v.pc = c /\ v.aud = a /\ v.tok = w.tok /\ v.new = w.new /\ v.cred = w.cred
  BY DEF Inductive, TypeOK, HandlersOK, Work
<1> HIDE DEF v
<1>2. CASE c = "storeAccess" /\ w.pc = "eligible" /\ a = w.aud
  BY <1>1, <1>2 DEF Shape, Knows, Rotating, Exchanging, Checking
<1>3. CASE c \in {"audience", "scopes", "rotate", "revokeFamily"} /\ w.pc \in Rotating
  BY <1>1, <1>3 DEF Shape, Knows, Rotating, Exchanging, Checking
<1> QED BY <1>2, <1>3 DEF v

LEMMA RequireEligibleAudienceStep ==
  ASSUME Inductive, NEW p \in Handler, RequireEligibleAudience(p)
  PROVE  Inductive'
<1> DEFINE w == proc[p]
           v == [w EXCEPT !.pc = "storeAccess"]
<1>1. UNCHANGED <<setting, tokens>> /\ w.pc = "eligible" /\ (Goto(p, v) \/ Done(p))
  BY DEF RequireEligibleAudience
<1>2. w.aud \in Resource \cup {None} /\ v = [w EXCEPT !.pc = "storeAccess", !.aud = w.aud]
  BY OnwardFields DEF Work
<1>3. Shape(v) /\ Knows(v, row)
  BY <1>1, <1>2, OnwardKnows
<1> QED BY <1>1, <1>2, <1>3, OnwardStep, DoneStep

LEMMA FindCredentialStep ==
  ASSUME Inductive, NEW p \in Handler, FindCredential(p)
  PROVE  Inductive'
<1> DEFINE w == proc[p]
           c == row[w.tok].cred
           v == [w EXCEPT !.pc = "audience", !.aud = credential[c].aud]
<1>1. /\ UNCHANGED <<setting, tokens>> /\ w.pc \in Rotating
      /\ (Resolves(c) /\ Goto(p, v)) \/ Done(p)
  BY DEF FindCredential, Rotating
<1>2. CASE Goto(p, v)
  <2>1. w.tok \in Token /\ row[w.tok].state # "none"
    BY <1>1, OnwardFields DEF Shape, Knows
  <2>2. credential[c].aud \in Resource
    BY <1>1, <2>1, IssuedFields DEF Inductive, TypeOK, FederatedCredential
  <2>3. Shape(v) /\ Knows(v, row)
    BY <1>1, <2>2, OnwardKnows
  <2> QED BY <1>1, <1>2, <2>2, <2>3, OnwardStep
<1> QED BY <1>1, <1>2, DoneStep

LEMMA CheckAudienceStep ==
  ASSUME Inductive, NEW p \in Handler, CheckAudience(p)
  PROVE  Inductive'
<1> DEFINE w == proc[p]
           v(c) == [w EXCEPT !.pc = c]
<1>1. PICK c \in {"scopes", "revokeFamily"} : Goto(p, v(c))
  BY DEF CheckAudience
<1>2. UNCHANGED <<setting, tokens>> /\ w.pc \in Rotating
  BY DEF CheckAudience, Rotating
<1>3. w.aud \in Resource \cup {None} /\ v(c) = [w EXCEPT !.pc = c, !.aud = w.aud]
  BY OnwardFields DEF Work
<1>4. Shape(v(c)) /\ Knows(v(c), row)
  BY <1>2, <1>3, OnwardKnows
<1> QED BY <1>1, <1>2, <1>3, <1>4, OnwardStep

LEMMA ResolveScopesStep ==
  ASSUME Inductive, NEW p \in Handler, ResolveScopes(p)
  PROVE  Inductive'
<1> DEFINE w == proc[p]
           v == [w EXCEPT !.pc = "rotate"]
<1>1. UNCHANGED <<setting, tokens>> /\ w.pc \in Rotating /\ (Goto(p, v) \/ Done(p))
  BY DEF ResolveScopes, Rotating
<1>2. w.aud \in Resource \cup {None} /\ v = [w EXCEPT !.pc = "rotate", !.aud = w.aud]
  BY OnwardFields DEF Work
<1>3. Shape(v) /\ Knows(v, row)
  BY <1>1, <1>2, OnwardKnows
<1> QED BY <1>1, <1>2, <1>3, OnwardStep, DoneStep

LEMMA AbandonStep ==
  ASSUME Inductive, NEW p \in Handler, Abandon(p)
  PROVE  Inductive'
BY DoneStep DEF Abandon

-----------------------------------------------------------------------------
(* Steps that mark rows *)

\* A step that marks rows as sent, expired or revoked, and nothing else.
Marks ==
  \A t \in Token :
    /\ row'[t].state = row[t].state /\ row'[t].fam = row[t].fam
    /\ row'[t].parent = row[t].parent /\ row'[t].cred = row[t].cred
    /\ row'[t].aud = row[t].aud /\ row'[t].consumed = row[t].consumed
    /\ row[t].revoked => row'[t].revoked

\* The same of access tokens.
AccessMarks ==
  \A t \in Token :
    /\ access'[t].by = access[t].by /\ access'[t].cred = access[t].cred
    /\ access'[t].state = access[t].state
       \/ (access[t].state = "live" /\ access'[t].state = "revoked")

LEMMA MarksEvolve ==
  ASSUME Inductive, Marks
  PROVE  Evolves(None)
BY DEF Marks, Evolves

\* Marking never makes a token redeemable.
LEMMA MarksLive ==
  ASSUME Inductive, Marks
  PROVE  /\ \A t \in Token : Redeemable(t)' => Redeemable(t)
         /\ \A f \in Token : LiveIn(f)' \subseteq LiveIn(f)
<1>1. \A t \in Token : Redeemable(t)' => Redeemable(t)
  BY DEF Marks, Redeemable
<1> QED BY <1>1 DEF Marks, LiveIn, Family

LEMMA MarkStep ==
  ASSUME Inductive, row' \in [Token -> RefreshToken], Marks, RevokedTogether',
         access' \in [Token -> AccessToken], AccessMarks,
         resource' \in [Resource -> {"visible", "hidden", "disabled", "deleted"}],
         credential' \in [Credential -> FederatedCredential],
         HandlersOK', proc' \in [Handler -> Work]
  PROVE  Inductive'
<1>1. TypeOK'
  BY DEF Inductive, TypeOK, Marks
<1>2. RowsOK'
  <2>1. \A t \in Token : row[t].parent # None => row[t].parent \in Token
    BY DEF Inductive, TypeOK, RefreshToken
  <2> QED BY <2>1 DEF Inductive, RowsOK, Marks
<1>3. FamiliesOK'
  BY DEF Inductive, FamiliesOK, Marks
<1>4. AccessOK'
  BY DEF Inductive, AccessOK, Marks, AccessMarks
<1>5. OneLiveToken'
  BY MarksLive DEF Inductive, OneLiveToken
<1>6. RotationIsWhole'
  <2>1. ConsumedIsReplaced'
    BY DEF Inductive, RotationIsWhole, ConsumedIsReplaced, Marks
  <2>2. OneSuccessor'
    BY DEF Inductive, RotationIsWhole, OneSuccessor, Marks
  <2>3. MintedTogether'
    BY DEF Inductive, RotationIsWhole, MintedTogether, Marks, AccessMarks
  <2> QED BY <2>1, <2>2, <2>3 DEF RotationIsWhole
<1> QED BY <1>1, <1>2, <1>3, <1>4, <1>5, <1>6 DEF Inductive

\* A handler that ends while rows are marked.
LEMMA DoneMarks ==
  ASSUME Inductive, Marks, NEW p \in Handler, Done(p)
  PROVE  HandlersOK' /\ proc' \in [Handler -> Work]
<1>1. Idle.new = None
  BY DEF Idle
<1> QED BY <1>1, MarksEvolve, IdleShape, HandlersStep, NoneAssumption DEF Done

LEMMA SettingKept ==
  ASSUME Inductive, UNCHANGED setting
  PROVE  /\ resource' \in [Resource -> {"visible", "hidden", "disabled", "deleted"}]
         /\ credential' \in [Credential -> FederatedCredential]
BY DEF Inductive, TypeOK, setting

LEMMA AccessKept ==
  ASSUME Inductive, access' = access
  PROVE  access' \in [Token -> AccessToken] /\ AccessMarks
BY DEF Inductive, TypeOK, AccessMarks

\* One row is marked as sent or expired.
LEMMA OneMark ==
  ASSUME Inductive, NEW t \in Token, NEW b \in RefreshToken,
         b \in {[row[t] EXCEPT !.sent = TRUE], [row[t] EXCEPT !.expired = TRUE]},
         row' = [row EXCEPT ![t] = b]
  PROVE  row' \in [Token -> RefreshToken] /\ Marks /\ RevokedTogether'
<1>1. row \in [Token -> RefreshToken] /\ row[t] \in RefreshToken
  BY DEF Inductive, TypeOK
<1>2. /\ b.state = row[t].state /\ b.fam = row[t].fam /\ b.parent = row[t].parent
      /\ b.cred = row[t].cred /\ b.aud = row[t].aud /\ b.consumed = row[t].consumed
      /\ b.revoked = row[t].revoked
  BY <1>1 DEF RefreshToken
<1>3. \A u \in Token :
        /\ row'[u].state = row[u].state /\ row'[u].fam = row[u].fam
        /\ row'[u].parent = row[u].parent /\ row'[u].cred = row[u].cred
        /\ row'[u].aud = row[u].aud /\ row'[u].consumed = row[u].consumed
        /\ row'[u].revoked = row[u].revoked
  BY <1>1, <1>2
<1>4. RevokedTogether'
  BY <1>3 DEF Inductive, RevokedTogether, Redeemable
<1> QED BY <1>1, <1>3, <1>4 DEF Marks

\* The client is sent its token and the handler ends.
LEMMA SentStep ==
  ASSUME Inductive, NEW p \in Handler, NEW t \in Token, Done(p),
         UNCHANGED <<setting, access>>, row' = [row EXCEPT ![t].sent = TRUE]
  PROVE  Inductive' /\ Marks
<1>1. [row[t] EXCEPT !.sent = TRUE] \in RefreshToken
  <2>1. row[t] \in RefreshToken
    BY DEF Inductive, TypeOK
  <2> QED BY <2>1 DEF RefreshToken
<1>2. row' \in [Token -> RefreshToken] /\ Marks /\ RevokedTogether'
  BY <1>1, OneMark
<1> QED BY <1>2, DoneMarks, SettingKept, AccessKept, MarkStep

\* Tokens of T are revoked, and T holds each family it touches.
LEMMA RowsRevoked ==
  ASSUME Inductive, NEW T, row' = RevokedRows(T),
         \A t, u \in Token :
           /\ t \in T /\ row[t].state = "stored" /\ row[u].state = "stored"
           /\ row[u].fam = row[t].fam
           => u \in T \/ ~Redeemable(u)
  PROVE  row' \in [Token -> RefreshToken] /\ Marks /\ RevokedTogether'
<1>1. row \in [Token -> RefreshToken]
  BY DEF Inductive, TypeOK
<1>2. ASSUME NEW t \in Token
      PROVE  /\ row'[t] \in RefreshToken
             /\ row'[t].state = row[t].state /\ row'[t].fam = row[t].fam
             /\ row'[t].parent = row[t].parent /\ row'[t].cred = row[t].cred
             /\ row'[t].aud = row[t].aud /\ row'[t].consumed = row[t].consumed
             /\ row'[t].revoked <=> (row[t].revoked \/ t \in T)
  <2>1. row[t] \in RefreshToken
    BY <1>1
  <2>2. CASE t \in T
    <3>1. row'[t] = [row[t] EXCEPT !.revoked = TRUE]
      BY <2>2 DEF RevokedRows
    <3> QED BY <2>1, <2>2, <3>1 DEF RefreshToken
  <2>3. CASE t \notin T
    <3>1. row'[t] = row[t]
      BY <2>3 DEF RevokedRows
    <3> QED BY <2>1, <2>3, <3>1 DEF RefreshToken
  <2> QED BY <2>2, <2>3
<1>3. row' \in [Token -> RefreshToken]
  <2>1. row' = [t \in Token |-> row'[t]]
    BY DEF RevokedRows
  <2> QED BY <1>2, <2>1
<1>4. Marks
  BY <1>2 DEF Marks
<1>5. RevokedTogether'
  <2> SUFFICES ASSUME NEW t \in Token, NEW u \in Token,
                      row'[t].state = "stored", row'[u].state = "stored",
                      row'[t].fam = row'[u].fam, row'[t].revoked
               PROVE  ~Redeemable(u)'
    BY DEF RevokedTogether
  <2>1. row[t].state = "stored" /\ row[u].state = "stored" /\ row[t].fam = row[u].fam
        /\ (row[t].revoked \/ t \in T)
    BY <1>2
  <2>2. u \in T \/ ~Redeemable(u)
    BY <2>1 DEF Inductive, RevokedTogether
  <2> QED BY <1>2, <2>2 DEF Redeemable
<1> QED BY <1>3, <1>4, <1>5

LEMMA CheckFamilyStep ==
  ASSUME Inductive, NEW p \in Handler, CheckFamily(p)
  PROVE  Inductive' /\ Marks
<1> DEFINE w == proc[p]
           v == [w EXCEPT !.pc = "selfRevoke"]
           revoked == \E t \in Family(w.new) : row[t].revoked
<1>1. w.pc = "checkFamily" /\ UNCHANGED <<setting, access>>
      /\ \/ revoked /\ Goto(p, v) /\ row' = row
         \/ Done(p) /\ row' = [row EXCEPT ![w.new].sent = TRUE]
  BY DEF CheckFamily
<1>2. CASE revoked /\ Goto(p, v) /\ row' = row
  <2>1. w.aud \in Resource \cup {None} /\ v = [w EXCEPT !.pc = "selfRevoke", !.aud = w.aud]
    BY OnwardFields DEF Work
  <2>2. Shape(v) /\ Knows(v, row)
    <3>1. /\ Shape(w) /\ Knows(w, row)
          /\ v.pc = "selfRevoke" /\ v.new = w.new /\ v.tok = w.tok
      BY DEF Inductive, TypeOK, HandlersOK, Work
    <3> HIDE DEF v
    <3> QED BY <1>1, <1>2, <3>1 DEF Shape, Knows, Rotating, Exchanging, Checking, Family
  <2>3. UNCHANGED <<setting, tokens>>
    BY <1>1, <1>2 DEF tokens
  <2> HIDE DEF revoked
  <2>4. Goto(p, [w EXCEPT !.pc = "selfRevoke", !.aud = w.aud])
    BY <1>2, <2>1
  <2>5. Marks
    BY <1>2 DEF Marks
  <2> QED BY <2>1, <2>2, <2>3, <2>4, <2>5, OnwardStep
<1>3. CASE Done(p) /\ row' = [row EXCEPT ![w.new].sent = TRUE]
  <2>1. w.new \in Token
    BY <1>1, OnwardFields DEF Shape, Checking
  <2> QED BY <1>1, <1>3, <2>1, SentStep
<1> QED BY <1>1, <1>2, <1>3

LEMMA RespondStep ==
  ASSUME Inductive, NEW p \in Handler, Respond(p)
  PROVE  Inductive' /\ Marks
<1>1. proc[p].new \in Token
  BY OnwardFields DEF Respond, Shape
<1> QED BY <1>1, SentStep DEF Respond

LEMMA SelfRevokeStep ==
  ASSUME Inductive, NEW p \in Handler, SelfRevoke(p)
  PROVE  Inductive' /\ Marks
<1> DEFINE w == proc[p]
           T == {t \in {w.new} : row[t].state = "stored"}
<1>1. /\ w.pc = "selfRevoke" /\ Done(p) /\ UNCHANGED <<setting, access>>
      /\ row' = [row EXCEPT ![w.new].revoked = @ \/ row[w.new].state = "stored"]
  BY DEF SelfRevoke
<1>2. w.new \in Token /\ Knows(w, row)
  BY <1>1, OnwardFields DEF Shape, Checking
<1>3. row' = RevokedRows(T)
  <2>1. row \in [Token -> RefreshToken]
    BY DEF Inductive, TypeOK
  <2>2. row[w.new] \in RefreshToken
    BY <1>2, <2>1
  <2>3. CASE row[w.new].state = "stored"
    <3>1. (row[w.new].revoked \/ row[w.new].state = "stored") = TRUE
      BY <2>3
    <3>2. row' = [row EXCEPT ![w.new] = [row[w.new] EXCEPT !.revoked = TRUE]]
      BY <1>1, <3>1
    <3>3. T = {w.new}
      BY <2>3
    <3> QED BY <1>2, <2>1, <3>2, <3>3 DEF RevokedRows
  <2>4. CASE row[w.new].state # "stored"
    <3>1. (row[w.new].revoked \/ row[w.new].state = "stored") = row[w.new].revoked
      BY <2>2, <2>4 DEF RefreshToken
    <3>2. [row[w.new] EXCEPT !.revoked = row[w.new].revoked] = row[w.new]
      BY <2>2 DEF RefreshToken
    <3>3. row' = row
      BY <1>1, <1>2, <2>1, <3>1, <3>2
    <3>4. T = {}
      BY <2>4
    <3> QED BY <2>1, <3>3, <3>4 DEF RevokedRows
  <2> QED BY <2>3, <2>4
<1>4. \A t, u \in Token :
        /\ t \in T /\ row[t].state = "stored" /\ row[u].state = "stored"
        /\ row[u].fam = row[t].fam
        => ~Redeemable(u)
  BY <1>1, <1>2 DEF Knows, Checking, Inductive, RevokedTogether
<1> HIDE DEF T
<1>5. row' \in [Token -> RefreshToken] /\ Marks /\ RevokedTogether'
  BY <1>3, <1>4, RowsRevoked
<1> QED BY <1>1, <1>5, DoneMarks, SettingKept, AccessKept, MarkStep

LEMMA RevokeRefreshTokenFamilyStep ==
  ASSUME Inductive, NEW p \in Handler, RevokeRefreshTokenFamily(p)
  PROVE  Inductive' /\ Marks
<1> DEFINE k == proc[p].tok
           T == Family(row[k].fam)
           w == [Idle EXCEPT !.pc = "refused", !.tok = k]
<1>1. /\ Goto(p, w) /\ UNCHANGED <<setting, access>> /\ row' = RevokedRows(T)
      /\ proc[p].pc = "revokeFamily"
  BY DEF RevokeRefreshTokenFamily, Refused
<1>2. k \in Token /\ row[k].state # "none" /\ row \in [Token -> RefreshToken]
  BY <1>1 DEF Inductive, TypeOK, HandlersOK, Shape, Knows
<1>3. \A t, u \in Token :
        /\ t \in T /\ row[t].state = "stored" /\ row[u].state = "stored"
        /\ row[u].fam = row[t].fam
        => u \in T
  BY DEF Family
<1>4. row[k].state = "stored" => k \in T
  BY <1>2 DEF Family
<1> HIDE DEF T
<1>5. row' \in [Token -> RefreshToken] /\ Marks /\ RevokedTogether'
  BY <1>1, <1>3, RowsRevoked
<1>6. row'[k].state = "stored" => row'[k].revoked
  <2>1. SUFFICES ASSUME row'[k].state = "stored" PROVE row'[k].revoked
    OBVIOUS
  <2>2. row[k].state = "stored"
    BY <1>2, <1>5, <2>1 DEF Marks
  <2>3. row'[k] = [row[k] EXCEPT !.revoked = TRUE]
    BY <1>1, <1>2, <1>4, <2>2 DEF RevokedRows
  <2> QED BY <1>2, <2>3 DEF RefreshToken
<1>7. row'[k].state # "none"
  BY <1>2, <1>5 DEF Marks
<1>8. w \in Work /\ w.pc = "refused" /\ w.tok = k /\ w.new = None
  BY <1>2 DEF Idle, Work
<1> HIDE DEF w, k
<1>9. Shape(w) /\ Knows(w, row')
  BY <1>2, <1>6, <1>7, <1>8 DEF Shape, Knows, Rotating, Exchanging, Checking
<1>10. HandlersOK' /\ proc' \in [Handler -> Work]
  BY <1>1, <1>5, <1>8, <1>9, MarksEvolve, HandlersStep, NoneAssumption
<1> QED BY <1>1, <1>5, <1>10, SettingKept, AccessKept, MarkStep

LEMMA RefuseStep ==
  ASSUME Inductive, NEW p \in Handler, Refuse(p)
  PROVE  Inductive'
BY DoneStep DEF Refuse

LEMMA ExpireStep ==
  ASSUME Inductive, NEW t \in Token, Expire(t)
  PROVE  Inductive' /\ Marks
<1> DEFINE b == [row[t] EXCEPT !.expired = TRUE]
<1>1. /\ row' = [row EXCEPT ![t] = b]
      /\ UNCHANGED setting /\ access' = access /\ proc' = proc
  BY DEF Expire
<1>2. b \in RefreshToken
  <2>1. row[t] \in RefreshToken
    BY DEF Inductive, TypeOK
  <2> QED BY <2>1 DEF RefreshToken
<1>3. row' \in [Token -> RefreshToken] /\ Marks /\ RevokedTogether'
  BY <1>1, <1>2, OneMark
<1>4. HandlersOK' /\ proc' \in [Handler -> Work]
  BY <1>1, <1>3, MarksEvolve, HandlersStay
<1> QED BY <1>1, <1>3, <1>4, SettingKept, AccessKept, MarkStep

LEMMA DeleteResourceStep ==
  ASSUME Inductive, NEW r \in Resource, DeleteResource(r)
  PROVE  Inductive' /\ Marks
<1> DEFINE C == {c \in Credential : credential[c].exists /\ credential[c].aud = r}
           T == {t \in Token : row[t].state = "stored" /\ row[t].cred \in C}
<1>1. /\ row' = RevokedRows(T) /\ proc' = proc
      /\ resource' = [resource EXCEPT ![r] = "deleted"]
      /\ credential' = [c \in Credential |->
           IF c \in C THEN [credential[c] EXCEPT !.enabled = FALSE] ELSE credential[c]]
      /\ access' = [t \in Token |->
           IF access[t].state = "live" /\ access[t].cred \in C
             THEN [access[t] EXCEPT !.state = "revoked"] ELSE access[t]]
  BY DEF DeleteResource
<1> HIDE DEF C
<1>2. \A t, u \in Token :
        /\ t \in T /\ row[t].state = "stored" /\ row[u].state = "stored"
        /\ row[u].fam = row[t].fam
        => u \in T
  BY DEF Inductive, FamiliesOK
<1> HIDE DEF T
<1>3. row' \in [Token -> RefreshToken] /\ Marks /\ RevokedTogether'
  BY <1>1, <1>2, RowsRevoked
<1>4. credential' \in [Credential -> FederatedCredential]
  BY <1>1 DEF Inductive, TypeOK, FederatedCredential
<1>5. access' \in [Token -> AccessToken] /\ AccessMarks
  <2>1. ASSUME NEW t \in Token
        PROVE  /\ access'[t] \in AccessToken
               /\ access'[t].by = access[t].by /\ access'[t].cred = access[t].cred
               /\ access'[t].state = access[t].state
                  \/ (access[t].state = "live" /\ access'[t].state = "revoked")
    BY <1>1 DEF Inductive, TypeOK, AccessToken
  <2> QED BY <1>1, <2>1 DEF AccessMarks
<1>6. resource' \in [Resource -> {"visible", "hidden", "disabled", "deleted"}]
  BY <1>1 DEF Inductive, TypeOK
<1>7. HandlersOK' /\ proc' \in [Handler -> Work]
  BY <1>1, <1>3, MarksEvolve, HandlersStay
<1> QED BY <1>3, <1>4, <1>5, <1>6, <1>7, MarkStep

-----------------------------------------------------------------------------
(* Steps of controllers that leave the tokens alone *)

LEMMA TokensKept ==
  ASSUME Inductive, UNCHANGED tokens
  PROVE  /\ row' \in [Token -> RefreshToken] /\ Marks /\ RevokedTogether'
         /\ access' \in [Token -> AccessToken] /\ AccessMarks
BY DEF Inductive, TypeOK, tokens, Marks, AccessMarks, RevokedTogether, Redeemable

LEMMA CommitCredentialStep ==
  ASSUME Inductive, NEW p \in Handler, CommitCredential(p)
  PROVE  Inductive'
<1> DEFINE w == proc[p]
           a == IF credential[w.cred].exists THEN w.aud ELSE credential[w.cred].aud
<1>1. /\ w.pc = "updateCredential" /\ Done(p) /\ UNCHANGED tokens /\ resource' = resource
      /\ credential' = [credential EXCEPT ![w.cred].aud = a]
  BY DEF CommitCredential
<1>2. w.cred \in Credential /\ w.aud \in Resource
  BY <1>1, OnwardFields DEF Shape
<1>3. a \in Resource
  BY <1>2 DEF Inductive, TypeOK, FederatedCredential
<1> HIDE DEF a
<1>4. credential' \in [Credential -> FederatedCredential]
  BY <1>1, <1>2, <1>3 DEF Inductive, TypeOK, FederatedCredential
<1>5. resource' \in [Resource -> {"visible", "hidden", "disabled", "deleted"}]
  BY <1>1 DEF Inductive, TypeOK
<1> QED BY <1>1, <1>4, <1>5, TokensKept, DoneMarks, MarkStep

LEMMA ControlStep ==
  ASSUME Inductive,
         \/ \E c \in Credential : SetCredentialEnabled(c)
         \/ \E r \in Resource, s \in {"visible", "hidden", "disabled"} : UpdateResource(r, s)
  PROVE  Inductive'
<1>1. UNCHANGED tokens /\ proc' = proc
  BY DEF SetCredentialEnabled, UpdateResource
<1>2. HandlersOK' /\ proc' \in [Handler -> Work]
  BY <1>1, TokensKept, MarksEvolve, HandlersStay
<1>3. /\ resource' \in [Resource -> {"visible", "hidden", "disabled", "deleted"}]
      /\ credential' \in [Credential -> FederatedCredential]
  <2>1. /\ resource \in [Resource -> {"visible", "hidden", "disabled", "deleted"}]
        /\ credential \in [Credential -> FederatedCredential]
    BY DEF Inductive, TypeOK
  <2>2. CASE \E c \in Credential : SetCredentialEnabled(c)
    <3>1. PICK c \in Credential : SetCredentialEnabled(c)
      BY <2>2
    <3>2. credential' = [credential EXCEPT ![c] = [credential[c] EXCEPT !.enabled = ~@]]
          /\ resource' = resource
      BY <3>1 DEF SetCredentialEnabled
    <3>3. [credential[c] EXCEPT !.enabled = ~@] \in FederatedCredential
      <4>1. credential[c] \in FederatedCredential
        BY <2>1
      <4> QED BY <4>1 DEF FederatedCredential
    <3> QED BY <2>1, <3>2, <3>3
  <2>3. CASE \E r \in Resource, s \in {"visible", "hidden", "disabled"} : UpdateResource(r, s)
    BY <2>1, <2>3 DEF UpdateResource
  <2> QED BY <2>2, <2>3
<1> QED BY <1>1, <1>2, <1>3, TokensKept, MarkStep

-----------------------------------------------------------------------------
(* Steps that add or remove rows *)

\* No token rests on one that has not been issued.
LEMMA NothingRestsOn ==
  ASSUME Inductive, NEW n \in Token, row[n].state = "none"
  PROVE  \A t \in Token : row[t].fam # n /\ row[t].parent # n
BY NoneAssumption DEF Inductive, RowsOK

LEMMA StoreAccessTokenStep ==
  ASSUME Inductive, NEW p \in Handler, StoreAccessToken(p)
  PROVE  Inductive'
<1> DEFINE w == proc[p]
           v == [w EXCEPT !.pc = "storeRefresh"]
           a == [state |-> "live", by |-> "exchange", cred |-> w.cred]
<1>1. /\ w.pc = "storeAccess" /\ UNCHANGED <<setting, row>>
      /\ \/ access' = [access EXCEPT ![w.new] = a] /\ (Goto(p, v) \/ Done(p))
         \/ access' = access /\ Done(p)
  BY DEF StoreAccessToken
<1>2. /\ w \in Work /\ Shape(w) /\ Knows(w, row)
      /\ v.pc = "storeRefresh" /\ v.new = w.new /\ v.tok = w.tok /\ v.cred = w.cred
      /\ v.aud = w.aud /\ v \in Work
  BY DEF Inductive, TypeOK, HandlersOK, Work
<1>3. /\ w.new \in Token /\ w.cred \in Credential /\ row[w.new].state = "none"
  BY <1>1, <1>2 DEF Shape, Knows, Exchanging
<1>4. Evolves(None)
  BY <1>1 DEF Evolves
<1>5. HandlersOK' /\ proc' \in [Handler -> Work]
  <2>1. CASE Goto(p, v)
    <3> HIDE DEF v
    <3>1. Shape(v) /\ Knows(v, row')
      BY <1>1, <1>2 DEF Shape, Knows, Rotating, Exchanging, Checking
    <3>2. \A q \in Handler \ {p} : v.new = None \/ proc[q].new # v.new
      BY <1>2, SameNew
    <3> QED BY <1>2, <1>4, <2>1, <3>1, <3>2, HandlersStep, NoneAssumption
  <2>2. CASE Done(p)
    <3>1. Idle.new = None
      BY DEF Idle
    <3> QED BY <1>4, <2>2, <3>1, IdleShape, HandlersStep, NoneAssumption DEF Done
  <2> QED BY <1>1, <2>1, <2>2
<1> HIDE DEF v
<1>6. /\ access' \in [Token -> AccessToken]
      /\ \A t \in Token : access'[t] = access[t] \/ (t = w.new /\ access'[t] = a)
  <2>1. access \in [Token -> AccessToken] /\ a \in AccessToken
    BY <1>3 DEF Inductive, TypeOK, AccessToken
  <2> QED BY <1>1, <1>3, <2>1
<1>7. a.by = "exchange" /\ a.state = "live"
  OBVIOUS
<1> HIDE DEF a
<1>8. TypeOK'
  BY <1>1, <1>5, <1>6 DEF Inductive, TypeOK, setting
<1>9. RowsOK' /\ FamiliesOK' /\ OneLiveToken' /\ RevokedTogether'
  BY <1>1 DEF Inductive, RowsOK, FamiliesOK, OneLiveToken, RevokedTogether, LiveIn,
     Family, Redeemable
<1>10. AccessOK'
  BY <1>1, <1>6, <1>7 DEF Inductive, AccessOK
<1>11. RotationIsWhole'
  <2>1. ConsumedIsReplaced' /\ OneSuccessor'
    BY <1>1 DEF Inductive, RotationIsWhole, ConsumedIsReplaced, OneSuccessor
  <2>2. MintedTogether'
    BY <1>1, <1>3, <1>6, <1>7 DEF Inductive, RotationIsWhole, MintedTogether
  <2> QED BY <2>1, <2>2 DEF RotationIsWhole
<1> QED BY <1>5, <1>8, <1>9, <1>10, <1>11 DEF Inductive

LEMMA StoreRefreshTokenStep ==
  ASSUME Inductive, NEW p \in Handler, StoreRefreshToken(p)
  PROVE  Inductive'
<1> DEFINE w == proc[p]
           n == w.new
           v == [w EXCEPT !.pc = "checkFamily"]
           b == [NoRefreshToken EXCEPT !.state = "stored", !.fam = n,
                                       !.cred = w.cred, !.aud = w.aud]
<1>1. /\ w.pc = "storeRefresh" /\ UNCHANGED <<setting, access>>
      /\ \/ row' = [row EXCEPT ![n] = b] /\ Goto(p, v)
         \/ row' = row /\ Done(p)
  BY DEF StoreRefreshToken
<1>2. CASE row' = row /\ Done(p)
  BY <1>1, <1>2, DoneStep DEF tokens
<1>3. CASE row' = [row EXCEPT ![n] = b] /\ Goto(p, v)
  <2>1. /\ w \in Work /\ Shape(w) /\ Knows(w, row)
        /\ v.pc = "checkFamily" /\ v.new = n /\ v \in Work
    BY DEF Inductive, TypeOK, HandlersOK, Work
  <2>2. /\ n \in Token /\ w.cred \in Credential /\ w.aud \in Resource
        /\ row[n].state = "none"
    BY <1>1, <2>1 DEF Shape, Knows, Exchanging
  <2>3. /\ b \in RefreshToken /\ b.state = "stored" /\ b.fam = n /\ b.parent = None
        /\ b.cred = w.cred /\ b.aud = w.aud /\ ~b.consumed /\ ~b.revoked
    BY <2>2 DEF RefreshToken, NoRefreshToken
  <2>4. row \in [Token -> RefreshToken]
    BY DEF Inductive, TypeOK
  <2> HIDE DEF b, v, n
  <2>5. /\ row' \in [Token -> RefreshToken] /\ row'[n] = b
        /\ \A t \in Token \ {n} : row'[t] = row[t]
    BY <1>3, <2>2, <2>3, <2>4
  <2>6. \A t \in Token : row[t].fam # n /\ row[t].parent # n
    BY <2>2, NothingRestsOn
  <2>7. Evolves(n)
    BY <2>2, <2>5, <2>6 DEF Evolves
  <2>8. HandlersOK' /\ proc' \in [Handler -> Work]
    <3>1. Shape(v) /\ Knows(v, row')
      BY <2>1, <2>2, <2>3, <2>5 DEF Shape, Knows, Rotating, Exchanging, Checking
    <3>2. \A q \in Handler \ {p} : proc[q].new # n
      BY <2>2, NoneAssumption DEF Inductive, HandlersOK, n
    <3> QED BY <1>3, <2>1, <2>7, <3>1, <3>2, HandlersStep
  <2>9. TypeOK'
    BY <1>1, <2>2, <2>3, <2>5, <2>8, SettingKept DEF Inductive, TypeOK
  <2>10. RowsOK'
    <3>1. \A t \in Token : row[t].parent # None => row[t].parent \in Token
      BY <2>4 DEF RefreshToken
    <3> QED BY <2>2, <2>3, <2>5, <2>6, <3>1 DEF Inductive, RowsOK
  <2>11. FamiliesOK'
    BY <2>2, <2>3, <2>5, <2>6 DEF Inductive, FamiliesOK
  <2>12. AccessOK'
    <3>1. ~(access[n].by = "refresh" /\ access[n].state # "none")
      BY <2>2 DEF Inductive, AccessOK
    <3> QED BY <1>1, <2>2, <2>5, <3>1 DEF Inductive, AccessOK
  <2>13. OneLiveToken'
    BY <2>3, <2>5, <2>6 DEF Inductive, OneLiveToken, LiveIn, Family, Redeemable
  <2>14. RevokedTogether'
    BY <2>3, <2>5, <2>6 DEF Inductive, RevokedTogether, Redeemable
  <2>15. RotationIsWhole'
    <3>1. ConsumedIsReplaced'
      <4>1. \A t \in Token : row'[t].parent # n /\ row'[n].parent # t
        BY <2>2, <2>3, <2>5, <2>6, NoneAssumption
      <4>2. ASSUME NEW t \in Token, row'[t].state = "stored"
            PROVE  row'[t].consumed <=>
                     \E u \in Token : row'[u].state = "stored" /\ row'[u].parent = t
        <5>1. CASE t = n
          BY <2>3, <2>5, <4>1, <5>1
        <5>2. CASE t # n
          <6>1. \A u \in Token :
                  row'[u].state = "stored" /\ row'[u].parent = t <=>
                    row[u].state = "stored" /\ row[u].parent = t
            BY <2>2, <2>5, <4>1
          <6> QED BY <2>5, <4>2, <5>2, <6>1 DEF Inductive, RotationIsWhole, ConsumedIsReplaced
        <5> QED BY <5>1, <5>2
      <4> QED BY <4>2 DEF ConsumedIsReplaced
    <3>2. OneSuccessor'
      BY <2>3, <2>5 DEF Inductive, RotationIsWhole, OneSuccessor
    <3>3. MintedTogether'
      BY <1>1, <2>2, <2>3, <2>5 DEF Inductive, RotationIsWhole, MintedTogether
    <3> QED BY <3>1, <3>2, <3>3 DEF RotationIsWhole
  <2> QED BY <2>8, <2>9, <2>10, <2>11, <2>12, <2>13, <2>14, <2>15 DEF Inductive
<1> QED BY <1>1, <1>2, <1>3

\* What the rotation of handler p writes.
Rotates(n, o) ==
  /\ row' \in [Token -> RefreshToken]
  /\ n \in Token /\ o \in Token /\ n # o
  /\ row[n].state = "none" /\ Redeemable(o)
  /\ \A t \in Token \ {n, o} : row'[t] = row[t]
  /\ row'[o].state = "stored" /\ row'[o].consumed /\ ~row'[o].revoked
  /\ row'[o].fam = row[o].fam /\ row'[o].parent = row[o].parent
  /\ row'[o].cred = row[o].cred /\ row'[o].aud = row[o].aud
  /\ row'[n].state = "stored" /\ ~row'[n].consumed /\ ~row'[n].revoked
  /\ row'[n].fam = row[o].fam /\ row'[n].parent = o
  /\ row'[n].cred = row[o].cred /\ row'[n].aud = row[o].aud

LEMMA RotationWritten ==
  ASSUME Inductive, NEW w \in Work, w.new \in Token, w.tok \in Token,
         row[w.new].state = "none", RotationGuard(w), RotateRows(w)
  PROVE  Rotates(w.new, w.tok)
<1> DEFINE n == w.new
           o == w.tok
           b == [row[o] EXCEPT !.consumed = TRUE]
           c == Child(w)
<1>1. row \in [Token -> RefreshToken] /\ row[o] \in RefreshToken
  BY DEF Inductive, TypeOK
<1>2. Redeemable(o) /\ n # o
  BY DEF RotationGuard, Redeemable
<1>3. row[o].state = "stored" /\ ~row[o].revoked
  BY <1>2 DEF Redeemable
<1>4. /\ b \in RefreshToken /\ b.state = "stored" /\ b.consumed /\ ~b.revoked
      /\ b.fam = row[o].fam /\ b.parent = row[o].parent
      /\ b.cred = row[o].cred /\ b.aud = row[o].aud
  BY <1>1, <1>3 DEF RefreshToken
<1>5. /\ c \in RefreshToken /\ c.state = "stored" /\ ~c.consumed /\ ~c.revoked
      /\ c.fam = row[o].fam /\ c.parent = o
      /\ c.cred = row[o].cred /\ c.aud = row[o].aud
  BY <1>1, <1>3 DEF RefreshToken, Child
<1>6. row' = [[row EXCEPT ![n] = c] EXCEPT ![o].consumed = TRUE]
  BY DEF RotateRows
<1>7. row' = [[row EXCEPT ![n] = c] EXCEPT ![o] = b]
  BY <1>1, <1>2, <1>6
<1> HIDE DEF b, c
<1>8. /\ row' \in [Token -> RefreshToken] /\ row'[o] = b /\ row'[n] = c
      /\ \A t \in Token \ {n, o} : row'[t] = row[t]
  BY <1>1, <1>2, <1>4, <1>5, <1>7
<1> QED BY <1>2, <1>4, <1>5, <1>8 DEF Rotates

\* A redeemable token is the only one of its family, which has no revoked one.
LEMMA RedeemableAlone ==
  ASSUME Inductive, NEW o \in Token, Redeemable(o)
  PROVE  /\ LiveIn(row[o].fam) = {o}
         /\ \A t \in Token : row[t].state = "stored" /\ row[t].fam = row[o].fam => ~row[t].revoked
<1>1. row[o].fam \in Token /\ row[o].state = "stored"
  BY DEF Redeemable, Inductive, TypeOK
<1>2. o \in LiveIn(row[o].fam)
  BY <1>1 DEF LiveIn, Family
<1>3. \A t \in LiveIn(row[o].fam) : t = o
  BY <1>1, <1>2 DEF Inductive, OneLiveToken
<1>4. \A t \in Token : row[t].state = "stored" /\ row[t].fam = row[o].fam => ~row[t].revoked
  BY <1>1 DEF Inductive, RevokedTogether
<1> QED BY <1>2, <1>3, <1>4

LEMMA RotatesEvolve ==
  ASSUME Inductive, NEW n, NEW o, Rotates(n, o)
  PROVE  Evolves(n)
<1>1. row[o].state = "stored" /\ ~row[o].revoked
  BY DEF Rotates, Redeemable
<1> QED BY <1>1 DEF Rotates, Evolves

LEMMA RotatesRows ==
  ASSUME Inductive, NEW n, NEW o, Rotates(n, o)
  PROVE  RowsOK' /\ FamiliesOK'
<1>1. /\ row[o].state = "stored" /\ row[o].fam \in Token /\ row[row[o].fam].state # "none"
      /\ row[o].cred \in Credential /\ row[o].aud \in Resource
  BY DEF Rotates, Redeemable, Inductive, RowsOK
<1>2. \A t \in Token : row[t].parent # None => row[t].parent \in Token
  BY DEF Inductive, TypeOK, RefreshToken
<1>3. \A t \in Token : row[t].state # "none" => row'[t].state # "none" /\ row'[t].fam = row[t].fam
  BY <1>1 DEF Rotates
<1>4. RowsOK'
  <2>1. ASSUME NEW t \in Token
        PROVE  /\ row'[t].state # "none" =>
                    /\ row'[t].fam \in Token /\ row'[row'[t].fam].state # "none"
                    /\ row'[t].cred \in Credential /\ row'[t].aud \in Resource
               /\ row'[t].state = "none" => row'[t].fam = None /\ row'[t].parent = None
               /\ row'[t].parent # None =>
                    /\ row'[row'[t].parent].state # "none"
                    /\ row'[row'[t].parent].fam = row'[t].fam
    <3>1. CASE t = n
      BY <1>1, <1>3, <3>1 DEF Rotates
    <3>2. CASE t # n
      <4>1. /\ row'[t].state = row[t].state /\ row'[t].fam = row[t].fam
            /\ row'[t].parent = row[t].parent
            /\ row'[t].cred = row[t].cred /\ row'[t].aud = row[t].aud
        BY <1>1, <3>2 DEF Rotates
      <4> QED BY <1>2, <1>3, <4>1 DEF Inductive, RowsOK
    <3> QED BY <3>1, <3>2
  <2> QED BY <2>1 DEF RowsOK
<1>5. FamiliesOK'
  BY <1>1 DEF Rotates, Inductive, FamiliesOK
<1> QED BY <1>4, <1>5

LEMMA RotatesLive ==
  ASSUME Inductive, NEW n, NEW o, Rotates(n, o)
  PROVE  \A f \in Token : LiveIn(f)' = IF f = row[o].fam THEN {n} ELSE LiveIn(f)
<1>1. /\ LiveIn(row[o].fam) = {o} /\ row[o].state = "stored" /\ o \in Token /\ n \in Token
  BY RedeemableAlone DEF Rotates, Redeemable
<1>2. Redeemable(n)' /\ ~Redeemable(o)'
  BY DEF Rotates, Redeemable
<1>3. \A t \in Token \ {n, o} : Redeemable(t)' <=> Redeemable(t)
  BY DEF Rotates, Redeemable
<1>4. \A t \in Token \ {n, o} : row'[t].state = row[t].state /\ row'[t].fam = row[t].fam
  BY DEF Rotates
<1>5. row'[n].fam = row[o].fam /\ row'[o].fam = row[o].fam /\ row'[n].state = "stored"
      /\ row[n].state = "none"
  BY DEF Rotates
<1>6. \A t \in Token : row[t].state = "stored" /\ row[t].fam = row[o].fam /\ Redeemable(t) => t = o
  BY <1>1 DEF LiveIn, Family
<1>7. ASSUME NEW t \in Token, NEW f
      PROVE  t \in LiveIn(f)' <=> IF f = row[o].fam THEN t = n ELSE t \in LiveIn(f)
  BY <1>1, <1>2, <1>3, <1>4, <1>5, <1>6 DEF LiveIn, Family
<1>8. ASSUME NEW f \in Token
      PROVE  LiveIn(f)' = IF f = row[o].fam THEN {n} ELSE LiveIn(f)
  <2>1. LiveIn(f) \subseteq Token /\ LiveIn(f)' \subseteq Token
    BY DEF LiveIn, Family
  <2> QED BY <1>1, <1>7, <2>1
<1> QED BY <1>8

LEMMA RotatesWhole ==
  ASSUME Inductive, NEW n, NEW o, Rotates(n, o),
         access' = [access EXCEPT ![n] =
           [state |-> "live", by |-> "refresh", cred |-> row[o].cred]]
  PROVE  AccessOK' /\ RotationIsWhole'
<1> DEFINE a == [state |-> "live", by |-> "refresh", cred |-> row[o].cred]
<1>1. n \in Token /\ o \in Token /\ n # o /\ row[n].state = "none" /\ row[o].state = "stored"
      /\ ~row[o].consumed
  BY DEF Rotates, Redeemable
<1>2. \A t \in Token : row[t].fam # n /\ row[t].parent # n
  BY <1>1, NothingRestsOn
<1>3. access'[n] = a /\ \A t \in Token \ {n} : access'[t] = access[t]
  BY <1>1 DEF Inductive, TypeOK
<1>4. AccessOK'
  BY <1>1, <1>3 DEF Inductive, AccessOK, Rotates
<1>5. \A t \in Token \ {n} :
        row'[t].state = row[t].state /\ row'[t].parent = row[t].parent
  BY <1>1 DEF Rotates
<1>6. row'[n].state = "stored" /\ row'[n].parent = o /\ ~row'[n].consumed /\ row'[o].consumed
  BY DEF Rotates
<1>7. \A u \in Token : row[u].state = "stored" => row[u].parent # o
  BY <1>1 DEF Inductive, RotationIsWhole, ConsumedIsReplaced
<1>8. ConsumedIsReplaced'
  <2>1. ASSUME NEW t \in Token, row'[t].state = "stored"
        PROVE  row'[t].consumed <=>
                 \E u \in Token : row'[u].state = "stored" /\ row'[u].parent = t
    <3>1. CASE t = n
      BY <1>1, <1>2, <1>5, <1>6, <3>1
    <3>2. CASE t = o
      BY <1>1, <1>6, <3>2
    <3>3. CASE t \notin {n, o}
      <4>1. \A u \in Token :
              row'[u].state = "stored" /\ row'[u].parent = t <=>
                row[u].state = "stored" /\ row[u].parent = t
        BY <1>1, <1>5, <1>6, <3>3
      <4>2. row'[t] = row[t]
        BY <3>3 DEF Rotates
      <4> QED BY <2>1, <4>1, <4>2 DEF Inductive, RotationIsWhole, ConsumedIsReplaced
    <3> QED BY <3>1, <3>2, <3>3
  <2> QED BY <2>1 DEF ConsumedIsReplaced
<1>9. OneSuccessor'
  BY <1>5, <1>6, <1>7 DEF Inductive, RotationIsWhole, OneSuccessor
<1>10. MintedTogether'
  <2>1. o # None
    BY <1>1, NoneAssumption
  <2> QED BY <1>3, <1>5, <1>6, <2>1 DEF Inductive, RotationIsWhole, MintedTogether
<1> QED BY <1>4, <1>8, <1>9, <1>10 DEF RotationIsWhole

LEMMA RotateRefreshTokenStep ==
  ASSUME Inductive, NEW p \in Handler, RotateRefreshToken(p)
  PROVE  Inductive'
<1> DEFINE w == proc[p]
           n == w.new
           o == w.tok
           v == [w EXCEPT !.pc = "respond"]
           u == [w EXCEPT !.pc = "revokeFamily"]
           a == [state |-> "live", by |-> "refresh", cred |-> row[o].cred]
<1>1. /\ w.pc = "rotate" /\ UNCHANGED setting
      /\ \/ /\ RotationGuard(w) /\ RotateRows(w) /\ Goto(p, v)
            /\ access' = [access EXCEPT ![n] = a]
         \/ UNCHANGED tokens /\ Goto(p, u)
  BY DEF RotateRefreshToken
<1>2. /\ w \in Work /\ Shape(w) /\ Knows(w, row)
      /\ v.pc = "respond" /\ v.new = n /\ v.tok = o /\ v \in Work
  BY DEF Inductive, TypeOK, HandlersOK, Work
<1>3. /\ n \in Token /\ o \in Token /\ row[n].state = "none" /\ row[o].state # "none"
  BY <1>1, <1>2 DEF Shape, Knows, Rotating
<1>4. CASE UNCHANGED tokens /\ Goto(p, u)
  <2>1. w.aud \in Resource \cup {None} /\ u = [w EXCEPT !.pc = "revokeFamily", !.aud = w.aud]
    BY OnwardFields DEF Work
  <2>2. Shape(u) /\ Knows(u, row)
    BY <1>1, <2>1, OnwardKnows DEF Rotating
  <2> QED BY <1>1, <1>4, <2>1, <2>2, OnwardStep
<1>5. CASE /\ RotationGuard(w) /\ RotateRows(w) /\ Goto(p, v)
           /\ access' = [access EXCEPT ![n] = a]
  <2> HIDE DEF v, n, o
  <2>1. Rotates(n, o)
    BY <1>2, <1>3, <1>5, RotationWritten DEF n, o
  <2>2. Evolves(n)
    BY <2>1, RotatesEvolve
  <2>3. HandlersOK' /\ proc' \in [Handler -> Work]
    <3>1. Shape(v) /\ Knows(v, row')
      <4>1. row'[n].state # "none" /\ row'[o].state # "none"
        BY <2>1 DEF Rotates
      <4> QED BY <1>2, <1>3, <4>1 DEF Shape, Knows, Rotating, Exchanging, Checking
    <3>2. \A q \in Handler \ {p} : proc[q].new # n
      BY <1>3, NoneAssumption DEF Inductive, HandlersOK, n
    <3> QED BY <1>2, <1>5, <2>2, <3>1, <3>2, HandlersStep
  <2>4. RowsOK' /\ FamiliesOK'
    BY <2>1, RotatesRows
  <2>5. AccessOK' /\ RotationIsWhole'
    BY <1>5, <2>1, RotatesWhole
  <2>6. OneLiveToken'
    BY <2>1, RotatesLive DEF Inductive, OneLiveToken
  <2>7. RevokedTogether'
    <3>1. /\ row[o].state = "stored" /\ row[o].fam \in Token
          /\ \A t \in Token :
               row[t].state = "stored" /\ row[t].fam = row[o].fam => ~row[t].revoked
      BY <2>1, RedeemableAlone DEF Rotates, Redeemable, Inductive, TypeOK
    <3> SUFFICES ASSUME NEW t \in Token, NEW s \in Token,
                        row'[t].state = "stored", row'[s].state = "stored",
                        row'[t].fam = row'[s].fam, row'[t].revoked
                 PROVE  ~Redeemable(s)'
      BY DEF RevokedTogether
    <3>2. t \notin {n, o} /\ row'[t] = row[t]
      BY <2>1 DEF Rotates
    <3>3. row[t].fam # row[o].fam
      BY <3>1, <3>2
    <3>4. s \notin {n, o} /\ row'[s] = row[s]
      BY <2>1, <3>2, <3>3 DEF Rotates
    <3>5. ~Redeemable(s)
      BY <3>2, <3>4 DEF Inductive, RevokedTogether
    <3> QED BY <3>4, <3>5 DEF Redeemable
  <2>8. TypeOK'
    <3>1. access' \in [Token -> AccessToken]
      <4>1. a \in AccessToken
        BY <1>3 DEF Inductive, RowsOK, AccessToken
      <4> QED BY <1>5, <4>1 DEF Inductive, TypeOK
    <3>2. row' \in [Token -> RefreshToken]
      BY <2>1 DEF Rotates
    <3>3. \A t \in Token : row'[t].state = "stored" =>
            row'[t].fam \in Token /\ row'[t].cred \in Credential /\ row'[t].aud \in Resource
      BY <2>4 DEF RowsOK
    <3> QED BY <1>1, <2>3, <3>1, <3>2, <3>3, SettingKept DEF TypeOK
  <2> QED BY <2>3, <2>4, <2>5, <2>6, <2>7, <2>8 DEF Inductive
<1> QED BY <1>1, <1>4, <1>5

LEMMA DeleteFederatedCredentialStep ==
  ASSUME Inductive, NEW c \in Credential, DeleteFederatedCredential(c)
  PROVE  Inductive'
<1>1. \A t \in Token : row[t] \in RefreshToken /\ access[t] \in AccessToken
  BY DEF Inductive, TypeOK
<1>2. ASSUME NEW t \in Token
      PROVE  /\ row'[t] \in RefreshToken
             /\ row'[t].state = IF row[t].state = "stored" /\ row[t].cred = c
                                  THEN "removed" ELSE row[t].state
             /\ row'[t].fam = row[t].fam /\ row'[t].parent = row[t].parent
             /\ row'[t].cred = row[t].cred /\ row'[t].aud = row[t].aud
             /\ row'[t].consumed = row[t].consumed /\ row'[t].revoked = row[t].revoked
  <2>1. CASE row[t].state = "stored" /\ row[t].cred = c
    <3>1. row'[t] = [row[t] EXCEPT !.state = "removed"]
      BY <2>1 DEF DeleteFederatedCredential
    <3> QED BY <1>1, <2>1, <3>1 DEF RefreshToken
  <2>2. CASE ~(row[t].state = "stored" /\ row[t].cred = c)
    <3>1. row'[t] = row[t]
      BY <2>2 DEF DeleteFederatedCredential
    <3> QED BY <1>1, <2>2, <3>1
  <2> QED BY <2>1, <2>2
<1>3. ASSUME NEW t \in Token
      PROVE  /\ access'[t] \in AccessToken
             /\ access'[t].state = IF access[t].cred = c THEN "removed" ELSE access[t].state
             /\ access'[t].by = access[t].by /\ access'[t].cred = access[t].cred
  <2>1. CASE access[t].cred = c
    <3>1. access'[t] = [access[t] EXCEPT !.state = "removed"]
      BY <2>1 DEF DeleteFederatedCredential
    <3> QED BY <1>1, <2>1, <3>1 DEF AccessToken
  <2>2. CASE access[t].cred # c
    <3>1. access'[t] = access[t]
      BY <2>2 DEF DeleteFederatedCredential
    <3> QED BY <1>1, <2>2, <3>1
  <2> QED BY <2>1, <2>2
<1>4. /\ row' = [t \in Token |-> row'[t]] /\ access' = [t \in Token |-> access'[t]]
      /\ proc' = proc /\ resource' = resource
      /\ credential' = [credential EXCEPT ![c].exists = FALSE, ![c].enabled = FALSE]
  BY DEF DeleteFederatedCredential
<1>5. Evolves(None)
  BY <1>2 DEF Evolves, Inductive, FamiliesOK
<1>6. HandlersOK' /\ proc' \in [Handler -> Work]
  BY <1>4, <1>5, HandlersStay
<1>7. TypeOK'
  <2>1. row' \in [Token -> RefreshToken] /\ access' \in [Token -> AccessToken]
    BY <1>2, <1>3, <1>4
  <2>2. credential' \in [Credential -> FederatedCredential]
    BY <1>4 DEF Inductive, TypeOK, FederatedCredential
  <2>3. \A t \in Token : row'[t].state = "stored" =>
          row'[t].fam \in Token /\ row'[t].cred \in Credential /\ row'[t].aud \in Resource
    BY <1>2 DEF Inductive, TypeOK
  <2> QED BY <1>4, <1>6, <2>1, <2>2, <2>3 DEF Inductive, TypeOK
<1>8. RowsOK'
  <2>1. \A t \in Token : row[t].parent # None => row[t].parent \in Token
    BY <1>1 DEF RefreshToken
  <2> QED BY <1>2, <2>1 DEF Inductive, RowsOK
<1>9. FamiliesOK'
  BY <1>2 DEF Inductive, FamiliesOK
<1>10. AccessOK'
  <2>1. \A t \in Token : access[t].state = "none" => access[t].cred # c
    BY NoneAssumption DEF Inductive, AccessOK
  <2> QED BY <1>2, <1>3, <2>1 DEF Inductive, AccessOK
<1>11. OneLiveToken' /\ RevokedTogether'
  BY <1>2 DEF Inductive, OneLiveToken, RevokedTogether, LiveIn, Family, Redeemable
<1>12. RotationIsWhole'
  <2>1. ConsumedIsReplaced'
    <3>1. ASSUME NEW t \in Token, NEW u \in Token, row[u].parent = t
          PROVE  row'[u].state = "stored" <=> row[u].state = "stored" /\ row'[t].state = "stored"
      <4>1. row[u].fam = row[t].fam /\ row[t].state # "none" /\ row[u].state # "none"
        BY <3>1, NoneAssumption DEF Inductive, RowsOK
      <4>2. row[u].cred = row[t].cred /\ row[u].state = row[t].state
        BY <4>1 DEF Inductive, FamiliesOK
      <4> QED BY <1>2, <4>2
    <3>2. ASSUME NEW t \in Token, row'[t].state = "stored"
          PROVE  row'[t].consumed <=>
                   \E u \in Token : row'[u].state = "stored" /\ row'[u].parent = t
      <4>1. row[t].state = "stored" /\ row'[t].consumed = row[t].consumed
        BY <1>2, <3>2
      <4>2. \A u \in Token :
              row'[u].state = "stored" /\ row'[u].parent = t <=>
                row[u].state = "stored" /\ row[u].parent = t
        BY <1>2, <3>1, <3>2
      <4> QED BY <4>1, <4>2 DEF Inductive, RotationIsWhole, ConsumedIsReplaced
    <3> QED BY <3>2 DEF ConsumedIsReplaced
  <2>2. OneSuccessor'
    BY <1>2 DEF Inductive, RotationIsWhole, OneSuccessor
  <2>3. MintedTogether'
    <3>1. ASSUME NEW t \in Token
          PROVE  access'[t].state \in {"live", "revoked"} /\ access'[t].by = "refresh" <=>
                   row'[t].state = "stored" /\ row'[t].parent # None
      <4>1. access[t].state \in {"live", "revoked"} /\ access[t].by = "refresh" <=>
              row[t].state = "stored" /\ row[t].parent # None
        BY DEF Inductive, RotationIsWhole, MintedTogether
      <4>2. access[t].state \in {"live", "revoked"} /\ access[t].by = "refresh" =>
              access[t].cred = row[t].cred
        BY DEF Inductive, AccessOK
      <4> QED BY <1>2, <1>3, <4>1, <4>2
    <3> QED BY <3>1 DEF MintedTogether
  <2> QED BY <2>1, <2>2, <2>3 DEF RotationIsWhole
<1> QED BY <1>6, <1>7, <1>8, <1>9, <1>10, <1>11, <1>12 DEF Inductive

-----------------------------------------------------------------------------
(* The invariants *)

LEMMA InitInductive == Init => Inductive
<1> SUFFICES ASSUME Init PROVE Inductive
  OBVIOUS
<1>1. \A t \in Token :
        row[t] = NoRefreshToken /\ row[t].state = "none" /\ row[t].parent = None
        /\ row[t].fam = None
  BY DEF Init, NoRefreshToken
<1>2. \A t \in Token : access[t] = NoAccessToken /\ access[t].by = "exchange"
                       /\ access[t].state = "none" /\ access[t].cred = None
  BY DEF Init, NoAccessToken
<1>3. TypeOK
  <2>1. NoRefreshToken \in RefreshToken /\ NoAccessToken \in AccessToken /\ Idle \in Work
    BY DEF NoRefreshToken, RefreshToken, NoAccessToken, AccessToken, Idle, Work
  <2>2. credential \in [Credential -> FederatedCredential]
    BY DEF Init, FederatedCredential
  <2> QED BY <1>1, <2>1, <2>2 DEF Init, TypeOK
<1>4. HandlersOK
  BY IdleShape DEF Init, HandlersOK, Idle
<1>5. RowsOK /\ FamiliesOK /\ AccessOK
  BY <1>1, <1>2 DEF RowsOK, FamiliesOK, AccessOK
<1>6. OneLiveToken /\ RevokedTogether /\ RotationIsWhole
  BY <1>1, <1>2 DEF OneLiveToken, RevokedTogether, RotationIsWhole, LiveIn, Family,
     ConsumedIsReplaced, OneSuccessor, MintedTogether
<1> QED BY <1>3, <1>4, <1>5, <1>6 DEF Inductive

LEMMA ContinueStep ==
  ASSUME Inductive, NEW p \in Handler, Continue(p)
  PROVE  Inductive'
BY RequireEligibleAudienceStep, StoreAccessTokenStep, StoreRefreshTokenStep,
   CheckFamilyStep, SelfRevokeStep, FindCredentialStep, CheckAudienceStep,
   ResolveScopesStep, RotateRefreshTokenStep, RespondStep,
   RevokeRefreshTokenFamilyStep, RefuseStep, CommitCredentialStep DEF Continue

LEMMA NextInductive == Inductive /\ [Next]_vars => Inductive'
<1> SUFFICES ASSUME Inductive, [Next]_vars PROVE Inductive'
  OBVIOUS
<1>1. CASE UNCHANGED vars
  <2>1. UNCHANGED tokens /\ UNCHANGED setting /\ proc' = proc
    BY <1>1 DEF vars, tokens, setting
  <2>2. HandlersOK' /\ proc' \in [Handler -> Work]
    BY <2>1, TokensKept, MarksEvolve, HandlersStay
  <2> QED BY <2>1, <2>2, TokensKept, SettingKept, MarkStep
<1>2. CASE Control
  BY <1>2, ControlStep, DeleteFederatedCredentialStep, UpdateFederatedCredentialStep,
     DeleteResourceStep DEF Control
<1>3. CASE \E t \in Token : Expire(t)
  BY <1>3, ExpireStep
<1>4. ASSUME NEW p \in Handler, Start(p) PROVE Inductive'
  BY <1>4, ExchangeStep, PresentStep, PresentConsumedStep DEF Start
<1> QED BY <1>1, <1>2, <1>3, <1>4, ContinueStep, AbandonStep DEF Next

\* The conjunction that carries the other theorems of this module: what the
\* rows, the access tokens and the handlers in flight know of each other.
THEOREM RotationInvariant == Spec => []Inductive
<1> QED BY InitInductive, NextInductive, PTL DEF Spec

\* Every variable keeps its type, and every stored row the columns the schema
\* declares NOT NULL.
THEOREM RotationTypeCorrect == Spec => []TypeOK
<1>1. Inductive => TypeOK
  BY DEF Inductive
<1> QED BY <1>1, RotationInvariant, PTL

\* Concurrent refreshes of one family leave one redeemable token at most.
THEOREM OneLiveTokenHolds == Spec => []OneLiveToken
<1>1. Inductive => OneLiveToken
  BY DEF Inductive
<1> QED BY <1>1, RotationInvariant, PTL

\* A rotation that was under way when its family was revoked adds nothing that
\* can be redeemed.
THEOREM RevokedTogetherHolds == Spec => []RevokedTogether
<1>1. Inductive => RevokedTogether
  BY DEF Inductive
<1> QED BY <1>1, RotationInvariant, PTL

\* The three statements of a rotation take effect together or not at all.
THEOREM RotationIsWholeHolds == Spec => []RotationIsWhole
<1>1. Inductive => RotationIsWhole
  BY DEF Inductive
<1> QED BY <1>1, RotationInvariant, PTL

\* Whoever is refused for a spent token, or a lost race, leaves a family that
\* is dead and stays dead.
THEOREM ReuseEndsFamilyHolds == Spec => []ReuseEndsFamily
<1>1. ASSUME Inductive PROVE ReuseEndsFamily
  <2> SUFFICES ASSUME NEW p \in Handler, proc[p].pc = "refused",
                      NEW t \in Token, row[t].state = "stored",
                      row[t].fam = row[proc[p].tok].fam
               PROVE  ~Redeemable(t)
    BY DEF ReuseEndsFamily, LiveIn, Family
  <2> DEFINE k == proc[p].tok
  <2>1. /\ k \in Token /\ row[k].state # "none"
        /\ row[k].state = "stored" => row[k].revoked
    BY <1>1 DEF Inductive, HandlersOK, Shape, Knows
  <2>2. row[k].state = "stored"
    BY <1>1, <2>1 DEF Inductive, FamiliesOK
  <2> QED BY <1>1, <2>1, <2>2 DEF Inductive, RevokedTogether
<1> QED BY <1>1, RotationInvariant, PTL

-----------------------------------------------------------------------------
(* The tables implement the chain *)

LEMMA HeadOf ==
  ASSUME NEW f, NEW t, LiveIn(f) = {t}
  PROVE  Head(f) = t
BY DEF Head

LEMMA HeadOfPrimed ==
  ASSUME NEW f \in Token, NEW t, LiveIn(f)' = {t}
  PROVE  Head(f)' = t
BY DEF Head

\* A family that neither starts nor ends is the same to TokenChain.
LEMMA SamePhase ==
  ASSUME NEW f \in Token, LiveIn(f)' = LiveIn(f), Issued(f)' = {} <=> Issued(f) = {}
  PROVE  Phase(f)' = Phase(f) /\ Head(f)' = Head(f)
BY DEF Phase, Head

\* A family's live tokens have been issued.
LEMMA LiveIssued ==
  ASSUME NEW f
  PROVE  LiveIn(f) \subseteq Issued(f)
BY DEF LiveIn, Family, Issued

\* The first token of a family is stored.
LEMMA ChainBegins ==
  ASSUME Inductive, NEW n \in Token, row[n].state = "none",
         row'[n].state = "stored", row'[n].fam = n, Redeemable(n)',
         \A t \in Token \ {n} : row'[t] = row[t]
  PROVE  Chain!Begin(n)
<1>1. \A t \in Token : row[t].fam # n
  BY NothingRestsOn
<1>2. Issued(n) = {} /\ LiveIn(n) = {}
  BY <1>1, LiveIssued DEF Issued
<1>3. \A f \in Token : LiveIn(f)' = IF f = n THEN {n} ELSE LiveIn(f)
  BY <1>1 DEF LiveIn, Family, Redeemable
<1>4. n \in Issued(n)'
  BY DEF Issued
<1>5. \A f \in Token \ {n} : Issued(f)' = Issued(f)
  BY DEF Issued
<1>6. Phase(n) = "unborn" /\ Phase(n)' = "alive" /\ Head(n)' = n
  BY <1>2, <1>3, <1>4, HeadOfPrimed DEF Phase
<1>7. \A f \in Token \ {n} : Phase(f)' = Phase(f) /\ Head(f)' = Head(f)
  BY <1>3, <1>5, SamePhase
<1>8. {t \in Token : row'[t].state # "none"} = {t \in Token : row[t].state # "none"} \cup {n}
  OBVIOUS
<1> QED BY <1>6, <1>7, <1>8 DEF Chain!Begin

\* A rotation replaces the head of its family.
LEMMA ChainRedeems ==
  ASSUME Inductive, NEW n, NEW o, Rotates(n, o)
  PROVE  Chain!Redeem(row[o].fam, n) /\ row[o].fam \in Token /\ n \in Token
<1>0. /\ n \in Token /\ o \in Token /\ row[n].state = "none"
      /\ row[o].state = "stored" /\ row[o].fam \in Token /\ LiveIn(row[o].fam) = {o}
  BY RedeemableAlone, IssuedFields DEF Rotates, Redeemable
<1> PICK g \in Token : g = row[o].fam
  BY <1>0
<1>1. /\ n \in Token /\ o \in Token /\ row[n].state = "none"
      /\ row[o].state = "stored" /\ LiveIn(g) = {o}
  BY <1>0
<1>2. \A f \in Token : LiveIn(f)' = IF f = g THEN {n} ELSE LiveIn(f)
  BY RotatesLive
<1>3. o \in Issued(g) /\ o \in Issued(g)'
  BY <1>1 DEF Rotates, Issued
<1>4. \A f \in Token \ {g} : Issued(f)' = Issued(f)
  BY <1>1 DEF Rotates, Issued
<1>5. Phase(g) = "alive" /\ Phase(g)' = "alive" /\ Head(g)' = n
  BY <1>1, <1>2, <1>3, HeadOfPrimed DEF Phase
<1>6. \A f \in Token \ {g} : Phase(f)' = Phase(f) /\ Head(f)' = Head(f)
  BY <1>2, <1>4, SamePhase
<1>7. {t \in Token : row'[t].state # "none"} = {t \in Token : row[t].state # "none"} \cup {n}
  BY <1>1 DEF Rotates
<1> QED BY <1>1, <1>5, <1>6, <1>7 DEF Chain!Redeem

\* A step that issues no token and makes none redeemable.
Shrinks ==
  \A t \in Token :
    /\ row'[t].fam = row[t].fam
    /\ row'[t].state = "none" <=> row[t].state = "none"
    /\ Redeemable(t)' => Redeemable(t)

\* It ends the families whose token it takes.
LEMMA ChainEnds ==
  ASSUME Inductive, Shrinks
  PROVE  \E F \in SUBSET Chain!Alive : Chain!End(F)
<1> DEFINE F == {f \in Token : LiveIn(f) # {} /\ LiveIn(f)' = {}}
<1>1. \A f \in Token : Issued(f)' = Issued(f) /\ LiveIn(f)' \subseteq LiveIn(f)
  BY DEF Shrinks, Issued, LiveIn, Family, Redeemable
<1>2. ASSUME NEW f \in Token, f \notin F PROVE LiveIn(f)' = LiveIn(f)
  <2>1. CASE LiveIn(f) = {}
    BY <1>1, <2>1
  <2>2. CASE LiveIn(f)' # {}
    BY <1>1, <2>2 DEF Inductive, OneLiveToken
  <2> QED BY <1>2, <2>1, <2>2
<1>3. \A f \in Token \ F : Phase(f)' = Phase(f) /\ Head(f)' = Head(f)
  BY <1>1, <1>2, SamePhase
<1>4. ASSUME NEW f \in F
      PROVE  Phase(f) = "alive" /\ Phase(f)' = "ended" /\ Head(f)' = None
  <2>1. Issued(f) # {} /\ Issued(f)' # {}
    BY <1>1, LiveIssued
  <2> QED BY <2>1 DEF Phase, Head
<1>5. {t \in Token : row'[t].state # "none"} = {t \in Token : row[t].state # "none"}
  BY DEF Shrinks
<1> HIDE DEF F
<1>6. F \subseteq Token
  BY DEF F
<1>7. F \subseteq Chain!Alive
  BY <1>4, <1>6 DEF Chain!Alive
<1> QED BY <1>3, <1>4, <1>5, <1>6, <1>7 DEF Chain!End

LEMMA MarksShrink ==
  ASSUME Inductive, Marks
  PROVE  Shrinks
BY MarksLive DEF Marks, Shrinks

LEMMA ReadsShrink ==
  ASSUME row' = row
  PROVE  Shrinks
BY DEF Shrinks, Redeemable

LEMMA RemovalShrinks ==
  ASSUME Inductive, NEW c \in Credential, DeleteFederatedCredential(c)
  PROVE  Shrinks
<1>1. ASSUME NEW t \in Token
      PROVE  row'[t] = row[t]
             \/ (row[t].state = "stored" /\ row'[t] = [row[t] EXCEPT !.state = "removed"])
  <2>1. row'[t] = IF row[t].state = "stored" /\ row[t].cred = c
                    THEN [row[t] EXCEPT !.state = "removed"] ELSE row[t]
    BY DEF DeleteFederatedCredential
  <2> QED BY <2>1
<1>2. \A t \in Token : row[t] \in RefreshToken
  BY DEF Inductive, TypeOK
<1>3. ASSUME NEW t \in Token
      PROVE  /\ row'[t].fam = row[t].fam
             /\ row'[t].state = "none" <=> row[t].state = "none"
             /\ row'[t].state = "stored" => row'[t] = row[t]
  <2>1. CASE row'[t] = row[t]
    BY <2>1
  <2>2. CASE row[t].state = "stored" /\ row'[t] = [row[t] EXCEPT !.state = "removed"]
    <3>1. row'[t].state = "removed" /\ row'[t].fam = row[t].fam
      BY <1>2, <2>2 DEF RefreshToken
    <3> QED BY <2>2, <3>1
  <2> QED BY <1>1, <2>1, <2>2
<1>4. \A t \in Token : Redeemable(t)' => Redeemable(t)
  BY <1>3 DEF Redeemable
<1> QED BY <1>3, <1>4 DEF Shrinks

LEMMA StoreShows ==
  ASSUME Inductive, NEW p \in Handler, StoreRefreshToken(p)
  PROVE  Shrinks \/ \E f \in Token : Chain!Begin(f)
<1> DEFINE w == proc[p]
           b(n) == [NoRefreshToken EXCEPT !.state = "stored", !.fam = n,
                                          !.cred = w.cred, !.aud = w.aud]
<1>1. /\ w.pc = "storeRefresh"
      /\ row' = [row EXCEPT ![w.new] = b(w.new)] \/ row' = row
  BY DEF StoreRefreshToken
<1>2. w.new \in Token /\ row[w.new].state = "none"
  BY <1>1, OnwardFields DEF Shape, Knows, Exchanging
<1>3. PICK n \in Token : n = w.new
  BY <1>2
<1>4. b(n).state = "stored" /\ b(n).fam = n /\ ~b(n).consumed /\ ~b(n).revoked
  BY DEF NoRefreshToken
<1>5. row' = [row EXCEPT ![n] = b(n)] \/ row' = row
  BY <1>1, <1>3
<1> HIDE DEF b
<1>6. CASE row' = [row EXCEPT ![n] = b(n)]
  <2>1. row'[n] = b(n) /\ \A t \in Token \ {n} : row'[t] = row[t]
    BY <1>6 DEF Inductive, TypeOK
  <2>2. Redeemable(n)'
    BY <1>4, <2>1 DEF Redeemable
  <2> QED BY <1>2, <1>3, <1>4, <2>1, <2>2, ChainBegins
<1> QED BY <1>5, <1>6, ReadsShrink

LEMMA RotationShows ==
  ASSUME Inductive, NEW p \in Handler, RotateRefreshToken(p)
  PROVE  Shrinks \/ \E f \in Token, t \in Token : Chain!Redeem(f, t)
<1> DEFINE w == proc[p]
<1>1. /\ w.pc = "rotate"
      /\ (RotationGuard(w) /\ RotateRows(w)) \/ row' = row
  BY DEF RotateRefreshToken, tokens
<1>2. w \in Work /\ w.new \in Token /\ w.tok \in Token /\ row[w.new].state = "none"
  BY <1>1, OnwardFields DEF Shape, Knows, Rotating
<1>3. CASE RotationGuard(w) /\ RotateRows(w)
  BY <1>2, <1>3, RotationWritten, ChainRedeems
<1> QED BY <1>1, <1>3, ReadsShrink

LEMMA StepShows ==
  ASSUME Inductive, [Next]_vars
  PROVE  Chain!Next
<1> SUFFICES ASSUME ~Shrinks PROVE Chain!Next
  BY ChainEnds DEF Chain!Next
<1>1. ~Marks /\ row' # row
  BY MarksShrink, ReadsShrink
<1>2. ~UNCHANGED vars
  BY <1>1 DEF vars
<1>3. ~Control
  <2>1. \A c \in Credential : ~SetCredentialEnabled(c) /\ ~DeleteFederatedCredential(c)
    BY <1>1, RemovalShrinks DEF SetCredentialEnabled, tokens
  <2>2. \A p \in Handler, c \in Credential, r \in Resource :
          ~UpdateFederatedCredential(p, c, r)
    BY <1>1 DEF UpdateFederatedCredential, tokens
  <2>3. \A r \in Resource : ~DeleteResource(r) /\ \A s : ~UpdateResource(r, s)
    BY <1>1, DeleteResourceStep DEF UpdateResource, tokens
  <2> QED BY <2>1, <2>2, <2>3 DEF Control
<1>4. \A t \in Token : ~Expire(t)
  BY <1>1, ExpireStep
<1>5. ASSUME NEW p \in Handler PROVE ~Start(p) /\ ~Abandon(p)
  BY <1>1 DEF Start, Exchange, PresentConsumed, Present, Abandon, tokens
<1>6. PICK p \in Handler : Continue(p)
  BY <1>2, <1>3, <1>4, <1>5 DEF Next
<1>7. ~CheckFamily(p) /\ ~SelfRevoke(p) /\ ~Respond(p) /\ ~RevokeRefreshTokenFamily(p)
  BY <1>1, CheckFamilyStep, SelfRevokeStep, RespondStep, RevokeRefreshTokenFamilyStep
<1>8. /\ ~RequireEligibleAudience(p) /\ ~StoreAccessToken(p) /\ ~FindCredential(p)
      /\ ~CheckAudience(p) /\ ~ResolveScopes(p) /\ ~Refuse(p) /\ ~CommitCredential(p)
  BY <1>1 DEF RequireEligibleAudience, StoreAccessToken, FindCredential, CheckAudience,
     ResolveScopes, Refuse, CommitCredential, tokens
<1>9. StoreRefreshToken(p) \/ RotateRefreshToken(p)
  BY <1>6, <1>7, <1>8 DEF Continue
<1> QED BY <1>9, StoreShows, RotationShows DEF Chain!Next

LEMMA InitShows == Init => Chain!Init
<1> SUFFICES ASSUME Init PROVE Chain!Init
  OBVIOUS
<1>1. \A t \in Token : row[t].state = "none"
  BY DEF Init, NoRefreshToken
<1>2. \A f \in Token : Issued(f) = {} /\ LiveIn(f) = {}
  BY <1>1 DEF Issued, LiveIn, Family
<1>3. \A f \in Token : Phase(f) = "unborn" /\ Head(f) = None
  BY <1>2 DEF Phase, Head
<1> QED BY <1>1, <1>3 DEF Chain!Init

\* The tables, under every handler and every controller, implement a chain of
\* one-time tokens for each family.
THEOREM ChainImplemented == Spec => ImplementsChain
<1>1. Init => Chain!Init
  BY InitShows
<1>2. Inductive /\ [Next]_vars => [Chain!Next]_Chain!vars
  BY StepShows
<1> QED BY <1>1, <1>2, RotationInvariant, PTL DEF Spec, ImplementsChain, Chain!Spec
=============================================================================
