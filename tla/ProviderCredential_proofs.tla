---------------------- MODULE ProviderCredential_proofs ----------------------
(***************************************************************************)
(* Proofs about ProviderCredential, for any number of handlers and tokens: *)
(* its invariants, one refresh at a time under a claim as long as the      *)
(* owner consented once, and what a step may do to a claimed or a revoked  *)
(* credential.                                                             *)
(***************************************************************************)
EXTENDS ProviderCredential, TLAPS

-----------------------------------------------------------------------------
(* The inductive invariant *)

\* With m for the Provider's tokens, so that a step can be spoken of.
Issued(m, t) == m[t].state # "unissued"
Consented(m, t) == Issued(m, t) /\ m[t].from = "consent"

\* What the record of a handler holds at each program counter.
Shape(w) ==
  /\ w.pc \in {"claim", "post", "complete", "release", "postRevocation"} => w.tok \in Token
  /\ w.pc \in Connecting \cup {"complete"} => w.new \in Token
  /\ w.pc \in {"claim", "post", "complete", "release", "check", "store"} =>
       w.version < MaxVersion
  /\ w.pc \in {"upsert", "find", "create"} => w.version = 0

\* Where a handler has seen the authorization's row, which is never removed.
Rowed == Refreshing \cup {"check", "store", "load", "postRevocation",
                          "endAuthorization", "endBatch", "connector"}

HandlersOK ==
  \A p \in Handler :
    /\ Shape(work[p])
    /\ work[p].pc \in Rowed => authorization # "none"

\* An authorization and its credential are created together.
RowsOK ==
  /\ authorization = "none" <=> credential.status = "none"
  /\ credential.status # "none" => credential.token \in Token

\* Every token in use was issued.  The token of a consent is with its callback
\* only, until it is stored.
TokensOK ==
  /\ credential.token # None => Issued(provider, credential.token)
  /\ \A p \in Handler :
       /\ work[p].tok # None => Issued(provider, work[p].tok)
       /\ work[p].new # None => Issued(provider, work[p].new)
       /\ work[p].pc \in Connecting =>
            /\ Consented(provider, work[p].new)
            /\ work[p].new # credential.token
            /\ \A q \in Handler :
                 /\ work[q].tok # work[p].new
                 /\ q # p => work[q].new # work[p].new

\* A row comes from a consent, and a callback under way beside it from another.
ConsentsOK ==
  authorization # "none" =>
    /\ \E t \in Token : Consented(provider, t)
    /\ \A p \in Handler : work[p].pc \in Connecting => Reconsented

Claiming(p) == work[p].pc = "post" /\ work[p].left > 0

\* As long as the owner consented once, versions only grow, and a claim that
\* has not run out is the claim of the row while the row is active.
ClaimsOK ==
  ~Reconsented =>
    /\ \A p \in Handler :
         Claiming(p) =>
           /\ work[p].version = credential.version
           /\ credential.status = "active" =>
                credential.claim = p /\ credential.left = work[p].left
    /\ \A p, q \in Handler : Claiming(p) /\ Claiming(q) => p = q

Inductive ==
  /\ TypeOK /\ HandlersOK /\ RowsOK /\ TokensOK /\ ConsentsOK /\ ClaimsOK
  /\ CredentialIsBacked /\ ErasedStaysRevoked

-----------------------------------------------------------------------------
(* What a step has to show of each part *)

\* The handler p goes on with the record w.
Moves(p, w) == work' = [work EXCEPT ![p] = w]

\* Tokens stay issued, and issued for the same reason.
Evolves ==
  \A t \in Token :
    provider[t].state # "unissued" =>
      provider'[t].state # "unissued" /\ provider'[t].from = provider[t].from

LEMMA MoveFields ==
  ASSUME TypeOK, NEW p \in Handler, NEW w \in Work, Moves(p, w)
  PROVE  /\ work' \in [Handler -> Work]
         /\ work'[p] = w
         /\ \A q \in Handler : q # p => work'[q] = work[q]
BY DEF TypeOK, Moves

LEMMA ConsentsStay ==
  ASSUME Evolves
  PROVE  /\ Reconsented => Reconsented'
         /\ \A t \in Token : Issued(provider, t) => Issued(provider', t)
         /\ \A t \in Token : Consented(provider, t) => Consented(provider', t)
BY DEF Evolves, Reconsented, Issued, Consented

LEMMA HandlersStep ==
  ASSUME Inductive, NEW p \in Handler, NEW w \in Work, Moves(p, w), Shape(w),
         w.pc \in Rowed => authorization' # "none",
         authorization # "none" => authorization' # "none"
  PROVE  HandlersOK'
<1>1. work'[p] = w /\ \A q \in Handler : q # p => work'[q] = work[q]
  BY MoveFields DEF Inductive
<1> QED BY <1>1 DEF Inductive, HandlersOK

\* No token of a callback under way is taken by the handler that moves or by
\* the row.
LEMMA TokensStep ==
  ASSUME Inductive, NEW p \in Handler, NEW w \in Work, Moves(p, w), Evolves,
         credential'.token # None => credential'.token \in Token /\ Issued(provider', credential'.token),
         w.tok # None => Issued(provider', w.tok), w.new # None => Issued(provider', w.new),
         \A q \in Handler : q # p /\ work[q].pc \in Connecting =>
           work[q].new \notin {w.tok, w.new, credential'.token},
         w.pc \in Connecting =>
           /\ Consented(provider', w.new) /\ w.new \notin {w.tok, credential'.token}
           /\ \A q \in Handler : q # p => w.new \notin {work[q].tok, work[q].new}
  PROVE  TokensOK'
<1>1. work'[p] = w /\ \A q \in Handler : q # p => work'[q] = work[q]
  BY MoveFields DEF Inductive
<1>2. \A q \in Handler :
        work[q] \in Work /\ work[q].tok \in Token \cup {None} /\ work[q].new \in Token \cup {None}
  BY DEF Inductive, TypeOK, Work
<1>3. ASSUME NEW q \in Handler
      PROVE  /\ work'[q].tok # None => Issued(provider', work'[q].tok)
             /\ work'[q].new # None => Issued(provider', work'[q].new)
  <2>1. CASE q = p
    BY <1>1, <2>1
  <2>2. CASE q # p
    BY <1>1, <1>2, <2>2, ConsentsStay DEF Inductive, TokensOK
  <2> QED BY <2>1, <2>2
<1>4. ASSUME NEW q \in Handler, work'[q].pc \in Connecting
      PROVE  Consented(provider', work'[q].new) /\ work'[q].new # credential'.token
  <2>1. CASE q = p
    BY <1>1, <1>4, <2>1
  <2>2. CASE q # p
    <3>1. work'[q] = work[q] /\ work[q].pc \in Connecting
      BY <1>1, <1>4, <2>2
    <3>2. work[q].new \in Token
      BY <3>1 DEF Inductive, HandlersOK, Shape
    <3> QED BY <2>2, <3>1, <3>2, ConsentsStay DEF Inductive, TokensOK
  <2> QED BY <2>1, <2>2
<1>5. ASSUME NEW q \in Handler, work'[q].pc \in Connecting, NEW r \in Handler
      PROVE  work'[r].tok # work'[q].new /\ (r # q => work'[r].new # work'[q].new)
  <2>1. CASE q = p /\ r = p
    BY <1>1, <1>5, <2>1
  <2>2. CASE q = p /\ r # p
    BY <1>1, <1>5, <2>2
  <2>3. CASE q # p
    <3>1. work'[q] = work[q] /\ work[q].pc \in Connecting
      BY <1>1, <1>5, <2>3
    <3>2. CASE r = p
      BY <1>1, <2>3, <3>1, <3>2
    <3>3. CASE r # p
      BY <1>1, <3>1, <3>3 DEF Inductive, TokensOK
    <3> QED BY <3>2, <3>3
  <2> QED BY <2>1, <2>2, <2>3
<1>6. credential'.token # None => Issued(provider', credential'.token)
  OBVIOUS
<1> QED BY <1>3, <1>4, <1>5, <1>6 DEF TokensOK, Issued, Consented

LEMMA ConsentsStep ==
  ASSUME Inductive, NEW p \in Handler, NEW w \in Work, Moves(p, w), Evolves,
         authorization = "none" /\ authorization' # "none" =>
           work[p].pc \in Connecting /\ w.pc \notin Connecting,
         w.pc \in Connecting => work[p].pc \in Connecting \/ authorization' = "none" \/ Reconsented'
  PROVE  ConsentsOK'
<1>1. work'[p] = w /\ \A q \in Handler : q # p => work'[q] = work[q]
  BY MoveFields DEF Inductive
<1> SUFFICES ASSUME authorization' # "none"
             PROVE  /\ \E t \in Token : Consented(provider', t)
                    /\ \A q \in Handler : work'[q].pc \in Connecting => Reconsented'
  BY DEF ConsentsOK, Consented, Issued
<1>2. CASE authorization # "none"
  <2>1. \E t \in Token : Consented(provider', t)
    BY <1>2, ConsentsStay DEF Inductive, ConsentsOK
  <2>2. ASSUME NEW q \in Handler, work'[q].pc \in Connecting PROVE Reconsented'
    BY <1>1, <1>2, <2>2, ConsentsStay DEF Inductive, ConsentsOK
  <2> QED BY <2>1, <2>2
<1>3. CASE authorization = "none"
  <2>1. work[p].pc \in Connecting /\ w.pc \notin Connecting
    BY <1>3
  <2>2. work[p].new \in Token /\ Consented(provider, work[p].new)
    BY <2>1 DEF Inductive, HandlersOK, Shape, TokensOK
  <2>3. ASSUME NEW q \in Handler, work'[q].pc \in Connecting PROVE Reconsented'
    <3>1. q # p /\ work[q].pc \in Connecting
      BY <1>1, <2>1, <2>3
    <3>2. work[q].new \in Token /\ Consented(provider, work[q].new) /\ work[q].new # work[p].new
      BY <2>1, <3>1 DEF Inductive, HandlersOK, Shape, TokensOK
    <3>3. Reconsented
      BY <2>2, <3>2 DEF Reconsented, Consented, Issued
    <3> QED BY <3>3, ConsentsStay
  <2> QED BY <2>2, <2>3, ConsentsStay
<1> QED BY <1>2, <1>3

\* A handler that does not begin to post moves, and the row changes under no
\* claim but its own.
LEMMA ClaimsStep ==
  ASSUME Inductive, NEW p \in Handler, NEW w \in Work, Moves(p, w), Evolves,
         w.pc # "post" \/ w.left = 0,
         ~Reconsented => \/ credential' = credential
                         \/ /\ credential'.version = credential.version
                            /\ credential'.status # "active"
                         \/ \A q \in Handler : q # p => ~Claiming(q)
  PROVE  ClaimsOK'
<1>1. work'[p] = w /\ \A q \in Handler : q # p => work'[q] = work[q]
  BY MoveFields DEF Inductive
<1> SUFFICES ASSUME ~Reconsented' PROVE ClaimsOK'
  BY DEF ClaimsOK
<1>2. ~Reconsented
  BY ConsentsStay
<1>3. w.left \in Nat
  BY ClaimAssumption DEF Work
<1>4. \A q \in Handler : Claiming(q)' => q # p /\ Claiming(q) /\ work'[q] = work[q]
  BY <1>1, <1>3 DEF Claiming
<1>5. ASSUME NEW q \in Handler, Claiming(q)'
      PROVE  /\ work'[q].version = credential'.version
             /\ credential'.status = "active" =>
                  credential'.claim = q /\ credential'.left = work'[q].left
  BY <1>2, <1>4, <1>5 DEF Inductive, ClaimsOK
<1>6. \A q, r \in Handler : Claiming(q)' /\ Claiming(r)' => q = r
  BY <1>2, <1>4 DEF Inductive, ClaimsOK
<1> QED BY <1>5, <1>6 DEF ClaimsOK, Claiming

-----------------------------------------------------------------------------
(* Steps of a handler that leave the Provider's tokens alone *)

\* The handler takes a token along from its own record or from the row, and
\* the row one from the handler's record.
LEMMA WriteStep ==
  ASSUME Inductive, NEW p \in Handler, NEW w \in Work, Moves(p, w),
         UNCHANGED <<setting, provider>>,
         connection' \in Status, authorization' \in Status, credential' \in Credential,
         RowsOK', CredentialIsBacked', ErasedStaysRevoked',
         Shape(w), w.pc # "post",
         w.pc \in Rowed => authorization' # "none",
         authorization # "none" => authorization' # "none",
         authorization = "none" /\ authorization' # "none" =>
           work[p].pc \in Connecting /\ w.pc \notin Connecting,
         w.tok \in {None, work[p].tok, credential.token},
         w.new \in {None, work[p].new, work[p].tok},
         credential'.token \in {credential.token, work[p].new},
         w.pc \in Connecting =>
           /\ work[p].pc \in Connecting /\ w.tok = work[p].tok /\ w.new = work[p].new
           /\ credential'.token = credential.token,
         ~Reconsented => \/ credential' = credential
                         \/ /\ credential'.version = credential.version
                            /\ credential'.status # "active"
                         \/ \A q \in Handler : q # p => ~Claiming(q)
  PROVE  Inductive'
<1>1. TypeOK'
  BY MoveFields DEF Inductive, TypeOK, setting
<1>2. HandlersOK'
  BY HandlersStep
<1>3. Evolves
  BY DEF Evolves
<1>4. /\ w.tok # None => Issued(provider', w.tok)
      /\ w.new # None => Issued(provider', w.new)
      /\ credential'.token # None => credential'.token \in Token /\ Issued(provider', credential'.token)
  <2>1. credential'.token \in Token \cup {None}
    BY DEF Credential
  <2> QED BY <2>1 DEF Inductive, TokensOK, Issued
<1>5. \A q \in Handler : q # p /\ work[q].pc \in Connecting =>
        work[q].new \notin {w.tok, w.new, credential'.token}
  <2> SUFFICES ASSUME NEW q \in Handler, q # p, work[q].pc \in Connecting
               PROVE  work[q].new \notin {w.tok, w.new, credential'.token}
    OBVIOUS
  <2>1. work[q].new \in Token
    BY DEF Inductive, HandlersOK, Shape
  <2>2. work[q].new \notin {None, credential.token, work[p].tok, work[p].new}
    BY <2>1, NoneAssumption DEF Inductive, TokensOK
  <2> QED BY <2>2
<1>6. w.pc \in Connecting =>
        /\ Consented(provider', w.new) /\ w.new \notin {w.tok, credential'.token}
        /\ \A q \in Handler : q # p => w.new \notin {work[q].tok, work[q].new}
  BY DEF Inductive, TokensOK, Consented, Issued
<1>7. TokensOK'
  BY <1>3, <1>4, <1>5, <1>6, TokensStep
<1>8. ConsentsOK'
  BY <1>3, ConsentsStep
<1>9. ClaimsOK'
  BY <1>3, ClaimsStep
<1> QED BY <1>1, <1>2, <1>7, <1>8, <1>9 DEF Inductive

\* The handler only reads, or gives up.
LEMMA QuietStep ==
  ASSUME Inductive, NEW p \in Handler, NEW w \in Work, Moves(p, w),
         UNCHANGED <<setting, rows, provider>>,
         Shape(w), w.pc # "post", w.pc \in Rowed => authorization # "none",
         w.tok \in {None, work[p].tok, credential.token},
         w.new \in {None, work[p].new, work[p].tok},
         w.pc \in Connecting =>
           work[p].pc \in Connecting /\ w.tok = work[p].tok /\ w.new = work[p].new
  PROVE  Inductive'
<1>1. /\ connection' \in Status /\ authorization' \in Status /\ credential' \in Credential
      /\ RowsOK' /\ CredentialIsBacked' /\ ErasedStaysRevoked'
  BY DEF Inductive, TypeOK, RowsOK, CredentialIsBacked, ErasedStaysRevoked, rows, setting
<1>2. UNCHANGED <<setting, provider>> /\ credential' = credential /\ authorization' = authorization
  BY DEF rows
<1> QED BY <1>1, <1>2, WriteStep

LEMMA IdleFields ==
  Idle \in Work /\ Shape(Idle) /\ Idle.pc = "idle" /\ Idle.tok = None /\ Idle.new = None
BY VersionAssumption, ClaimAssumption
   DEF Idle, Work, Shape, Connecting, Refreshing, Disconnecting

LEMMA FinishStep ==
  ASSUME Inductive, NEW p \in Handler, Finish(p), UNCHANGED <<setting, rows, provider>>
  PROVE  Inductive'
<1>1. Moves(p, Idle)
  BY DEF Finish, Moves
<1>2. Idle.pc \notin Rowed \cup Connecting
  BY IdleFields DEF Rowed, Refreshing, Connecting
<1> QED BY <1>1, <1>2, IdleFields, QuietStep

\* The handler goes on with what it has.
LEMMA GotoFields ==
  ASSUME Inductive, NEW p \in Handler, NEW pc, [work[p] EXCEPT !.pc = pc] \in Work
  PROVE  /\ Goto(p, pc) => Moves(p, [work[p] EXCEPT !.pc = pc])
         /\ [work[p] EXCEPT !.pc = pc].pc = pc
         /\ [work[p] EXCEPT !.pc = pc].tok = work[p].tok
         /\ [work[p] EXCEPT !.pc = pc].new = work[p].new
         /\ [work[p] EXCEPT !.pc = pc].version = work[p].version
BY DEF Inductive, TypeOK, Work, Goto, Moves

LEMMA GotoStep ==
  ASSUME Inductive, NEW p \in Handler, NEW pc, [work[p] EXCEPT !.pc = pc] \in Work,
         Goto(p, pc), UNCHANGED <<setting, rows, provider>>,
         Shape([work[p] EXCEPT !.pc = pc]), pc # "post",
         pc \in Rowed => authorization # "none",
         pc \in Connecting => work[p].pc \in Connecting
  PROVE  Inductive'
<1> DEFINE w == [work[p] EXCEPT !.pc = pc]
<1>1. Moves(p, w) /\ w.pc = pc /\ w.tok = work[p].tok /\ w.new = work[p].new
  BY GotoFields
<1> QED BY <1>1, QuietStep

-----------------------------------------------------------------------------
(* The steps that only read *)

LEMMA ReadCredentialStep ==
  ASSUME Inductive, NEW p \in Handler, ReadCredential(p)
  PROVE  Inductive'
<1> DEFINE w == [Idle EXCEPT !.pc = "claim", !.version = credential.version,
                             !.tok = credential.token]
<1>1. Moves(p, w) /\ UNCHANGED <<setting, rows, provider>> /\ authorization # "none"
  BY DEF ReadCredential, Moves
<1>2. w \in Work /\ w.pc = "claim" /\ w.tok = credential.token /\ w.new = None
      /\ w.version = credential.version
  BY IdleFields DEF Inductive, TypeOK, Credential, Work, Idle, Refreshing
<1>3. credential.token \in Token /\ credential.version < MaxVersion
  BY DEF ReadCredential, Inductive, RowsOK
<1>4. Shape(w)
  BY <1>2, <1>3 DEF Shape, Connecting
<1>5. w.pc \notin Connecting
  BY <1>2 DEF Connecting
<1> QED BY <1>1, <1>2, <1>4, <1>5, QuietStep

LEMMA DisconnectStep ==
  ASSUME Inductive, NEW p \in Handler, Disconnect(p)
  PROVE  Inductive'
<1>1. ASSUME NEW w \in Work, Moves(p, w), w.pc \in {"load", "endConnection"},
             w.pc = "load" => authorization # "none",
             w.tok = None, w.new = None, UNCHANGED <<setting, rows, provider>>
      PROVE  Inductive'
  <2>1. Shape(w) /\ w.pc # "post" /\ (w.pc \in Rowed => authorization # "none")
        /\ w.pc \notin Connecting
    BY <1>1 DEF Shape, Connecting, Rowed, Refreshing
  <2> QED BY <1>1, <2>1, QuietStep
<1>2. CASE authorization = "active"
  <2>1. PICK whole \in BOOLEAN : Moves(p, [Idle EXCEPT !.pc = "load", !.whole = whole])
    BY <1>2 DEF Disconnect, Moves
  <2> DEFINE w == [Idle EXCEPT !.pc = "load", !.whole = whole]
  <2>2. w \in Work /\ w.pc = "load" /\ w.tok = None /\ w.new = None
    BY IdleFields DEF Work, Idle, Disconnecting
  <2> QED BY <1>1, <1>2, <2>1, <2>2 DEF Disconnect
<1>3. CASE authorization # "active"
  <2> DEFINE w == [Idle EXCEPT !.pc = "endConnection"]
  <2>1. Moves(p, w)
    BY <1>3 DEF Disconnect, Moves
  <2>2. w \in Work /\ w.pc = "endConnection" /\ w.tok = None /\ w.new = None
    BY IdleFields DEF Work, Idle, Disconnecting
  <2> QED BY <1>1, <2>1, <2>2 DEF Disconnect
<1> QED BY <1>2, <1>3

LEMMA LoadConnectionStep ==
  ASSUME Inductive, NEW p \in Handler, LoadConnection(p)
  PROVE  Inductive'
<1>1. work[p] \in Work /\ work[p].pc = "load" /\ authorization # "none"
      /\ UNCHANGED <<setting, rows, provider>>
  BY DEF LoadConnection, At, Inductive, TypeOK, HandlersOK, Rowed
<1>2. CASE credential.status = "active"
  <2> DEFINE w == [work[p] EXCEPT !.pc = "postRevocation", !.tok = credential.token]
  <2>1. Moves(p, w)
    BY <1>2 DEF LoadConnection, Moves, Inductive, TypeOK
  <2>2. w \in Work /\ w.pc = "postRevocation" /\ w.tok = credential.token
        /\ w.new = work[p].new
    BY <1>1 DEF Inductive, TypeOK, Credential, Work, Disconnecting
  <2>3. Shape(w) /\ w.pc \notin Connecting
    BY <1>2, <2>2 DEF Shape, Connecting, Inductive, RowsOK
  <2> QED BY <1>1, <2>1, <2>2, <2>3, QuietStep
<1>3. CASE credential.status # "active"
  <2>1. Goto(p, "endAuthorization")
    BY <1>3 DEF LoadConnection
  <2> DEFINE w == [work[p] EXCEPT !.pc = "endAuthorization"]
  <2>2. w \in Work /\ w.pc = "endAuthorization"
    BY <1>1 DEF Work, Disconnecting
  <2>3. Shape(w)
    BY <2>2 DEF Shape, Connecting
  <2> QED BY <1>1, <2>1, <2>2, <2>3, GotoStep DEF Connecting
<1> QED BY <1>2, <1>3

LEMMA FindActiveAuthorizationStep ==
  ASSUME Inductive, NEW p \in Handler, FindActiveAuthorization(p)
  PROVE  Inductive'
<1>1. work[p] \in Work /\ UNCHANGED <<setting, rows, provider>>
      /\ ((Goto(p, "endBatch") /\ authorization # "none") \/ Finish(p))
  BY DEF FindActiveAuthorization, Inductive, TypeOK
<1>2. CASE Goto(p, "endBatch") /\ authorization # "none"
  <2> DEFINE w == [work[p] EXCEPT !.pc = "endBatch"]
  <2>1. w \in Work /\ w.pc = "endBatch"
    BY <1>1 DEF Work, Disconnecting
  <2>2. Shape(w)
    BY <2>1 DEF Shape, Connecting
  <2> QED BY <1>1, <1>2, <2>1, <2>2, GotoStep DEF Connecting
<1> QED BY <1>1, <1>2, FinishStep

LEMMA ListResourceAuthorizationsStep ==
  ASSUME Inductive, NEW p \in Handler, ListResourceAuthorizations(p)
  PROVE  Inductive'
<1> DEFINE w == [Idle EXCEPT !.pc = "connector"]
<1>1. Moves(p, w) /\ UNCHANGED <<setting, rows, provider>> /\ authorization # "none"
  BY DEF ListResourceAuthorizations, Moves
<1>2. w \in Work /\ w.pc = "connector" /\ w.tok = None /\ w.new = None
  BY IdleFields DEF Work, Idle
<1>3. Shape(w) /\ w.pc \notin Connecting
  BY <1>2 DEF Shape, Connecting
<1> QED BY <1>1, <1>2, <1>3, QuietStep

LEMMA FindConnectionStep ==
  ASSUME Inductive, NEW p \in Handler, FindConnectionByProviderResource(p)
  PROVE  Inductive'
<1>1. work[p] \in Work /\ work[p].pc = "find" /\ work[p].new \in Token
      /\ work[p].version = 0 /\ UNCHANGED <<setting, rows, provider>>
  BY DEF FindConnectionByProviderResource, At, Inductive, TypeOK, HandlersOK, Shape, Connecting
<1>2. CASE Goto(p, "create")
  <2> DEFINE w == [work[p] EXCEPT !.pc = "create"]
  <2>1. w \in Work /\ w.pc = "create" /\ w.new = work[p].new /\ w.version = 0
    BY <1>1 DEF Work, Connecting
  <2>2. Shape(w)
    BY <1>1, <2>1 DEF Shape
  <2> QED BY <1>1, <1>2, <2>1, <2>2, GotoStep DEF Connecting, Rowed, Refreshing
<1>3. CASE /\ authorization # "none" /\ credential.version < MaxVersion
           /\ work' = [work EXCEPT ![p].pc = "check", ![p].version = credential.version]
  <2> DEFINE w == [work[p] EXCEPT !.pc = "check", !.version = credential.version]
  <2>1. Moves(p, w)
    BY <1>3 DEF Moves, Inductive, TypeOK
  <2>2. w \in Work /\ w.pc = "check" /\ w.tok = work[p].tok /\ w.new = work[p].new
        /\ w.version = credential.version
    BY <1>1 DEF Inductive, TypeOK, Credential, Work, Connecting
  <2>3. Shape(w)
    BY <1>1, <1>3, <2>2 DEF Shape
  <2>4. work[p].pc \in Connecting
    BY <1>1 DEF Connecting
  <2> QED BY <1>1, <1>3, <2>1, <2>2, <2>3, <2>4, QuietStep
<1> QED BY <1>2, <1>3 DEF FindConnectionByProviderResource

LEMMA CheckAuthorizationStep ==
  ASSUME Inductive, NEW p \in Handler, CheckAuthorization(p)
  PROVE  Inductive'
<1>1. work[p] \in Work /\ work[p].pc = "check" /\ work[p].new \in Token
      /\ work[p].version < MaxVersion /\ authorization # "none"
      /\ UNCHANGED <<setting, rows, provider>> /\ (Goto(p, "store") \/ Finish(p))
  BY DEF CheckAuthorization, At, Inductive, TypeOK, HandlersOK, Shape, Connecting, Rowed
<1>2. CASE Goto(p, "store")
  <2> DEFINE w == [work[p] EXCEPT !.pc = "store"]
  <2>1. w \in Work /\ w.pc = "store" /\ w.new = work[p].new /\ w.version = work[p].version
    BY <1>1 DEF Work, Connecting
  <2>2. Shape(w)
    BY <1>1, <2>1 DEF Shape
  <2> QED BY <1>1, <1>2, <2>1, <2>2, GotoStep DEF Connecting
<1> QED BY <1>1, <1>2, FinishStep

-----------------------------------------------------------------------------
(* The steps that write the rows *)

\* The claim a handler completes or releases under is nobody else's.
LEMMA OnlyMine ==
  ASSUME Inductive, NEW p \in Handler, Mine(p), ~Reconsented
  PROVE  \A q \in Handler : q # p => ~Claiming(q)
BY DEF Inductive, ClaimsOK, Mine

LEMMA UnclaimedFields ==
  ASSUME Inductive
  PROVE  /\ Unclaimed(credential) \in Credential
         /\ Unclaimed(credential).token = credential.token
         /\ Unclaimed(credential).status = credential.status
         /\ Unclaimed(credential).version = credential.version
<1>1. 0 \in 0..ClaimTTL
  BY ClaimAssumption
<1> QED BY <1>1 DEF Inductive, TypeOK, Credential, Unclaimed

LEMMA ClaimStep ==
  ASSUME Inductive, NEW p \in Handler, ClaimProviderCredentialRefresh(p)
  PROVE  Inductive'
<1> SUFFICES ASSUME Claimable(p),
                    credential' = [credential EXCEPT !.claim = p, !.left = ClaimTTL],
                    work' = [work EXCEPT ![p].pc = "post", ![p].left = ClaimTTL]
             PROVE  Inductive'
  BY FinishStep DEF ClaimProviderCredentialRefresh, rows
<1>1. work[p] \in Work /\ work[p].pc = "claim" /\ work[p].tok \in Token
      /\ work[p].version < MaxVersion /\ authorization # "none"
      /\ UNCHANGED <<setting, connection, authorization, provider>>
  BY DEF ClaimProviderCredentialRefresh, At, Inductive, TypeOK, HandlersOK, Shape, Rowed, Refreshing
<1> DEFINE w == [work[p] EXCEPT !.pc = "post", !.left = ClaimTTL]
<1>2. Moves(p, w) /\ w.pc = "post" /\ w.left = ClaimTTL /\ w.tok = work[p].tok
      /\ w.new = work[p].new /\ w.version = work[p].version /\ w \in Work
  <2>1. ClaimTTL \in 0..ClaimTTL
    BY ClaimAssumption
  <2> QED BY <1>1, <2>1 DEF Moves, Inductive, TypeOK, Work, Refreshing
<1>3. /\ credential' \in Credential /\ credential'.claim = p /\ credential'.left = ClaimTTL
      /\ credential'.status = credential.status /\ credential'.token = credential.token
      /\ credential'.version = credential.version
  <2>1. ClaimTTL \in 0..ClaimTTL
    BY ClaimAssumption
  <2> QED BY <2>1 DEF Inductive, TypeOK, Credential
<1> HIDE DEF w
<1>4. work' \in [Handler -> Work] /\ work'[p] = w
      /\ \A q \in Handler : q # p => work'[q] = work[q]
  BY <1>2, MoveFields DEF Inductive
<1>5. TypeOK'
  BY <1>1, <1>3, <1>4 DEF Inductive, TypeOK, setting
<1>6. HandlersOK'
  <2>1. Shape(w)
    BY <1>1, <1>2 DEF Shape, Connecting
  <2> QED BY <1>1, <1>2, <2>1, HandlersStep
<1>7. RowsOK' /\ CredentialIsBacked' /\ ErasedStaysRevoked'
  BY <1>1, <1>3 DEF Inductive, RowsOK, CredentialIsBacked, ErasedStaysRevoked, setting
<1>8. TokensOK'
  <2>1. Evolves
    BY <1>1 DEF Evolves
  <2>2. /\ w.tok # None => Issued(provider', w.tok)
        /\ w.new # None => Issued(provider', w.new)
        /\ credential'.token # None =>
             credential'.token \in Token /\ Issued(provider', credential'.token)
    BY <1>1, <1>2, <1>3 DEF Inductive, TypeOK, Credential, TokensOK
  <2>3. \A q \in Handler : q # p /\ work[q].pc \in Connecting =>
          work[q].new \notin {w.tok, w.new, credential'.token}
    BY <1>2, <1>3 DEF Inductive, TokensOK
  <2>4. w.pc \notin Connecting
    BY <1>2 DEF Connecting
  <2> QED BY <1>2, <2>1, <2>2, <2>3, <2>4, TokensStep
<1>9. ConsentsOK'
  <2>1. Evolves /\ w.pc \notin Connecting
    BY <1>1, <1>2 DEF Evolves, Connecting
  <2> QED BY <1>1, <1>2, <2>1, ConsentsStep
<1>10. ClaimsOK'
  <2> SUFFICES ASSUME ~Reconsented' PROVE ClaimsOK'
    BY DEF ClaimsOK
  <2>1. ~Reconsented
    BY <1>1 DEF Reconsented
  <2>2. \A q \in Handler : ~Claiming(q)
    <3> SUFFICES ASSUME NEW q \in Handler, Claiming(q) PROVE FALSE
      OBVIOUS
    <3>1. credential.claim = q /\ credential.left = work[q].left /\ work[q].left > 0
      BY <2>1 DEF Claiming, Claimable, Inductive, ClaimsOK
    <3>2. work[q].left \in Nat
      BY ClaimAssumption DEF Inductive, TypeOK, Work
    <3> QED BY <3>1, <3>2, NoneAssumption DEF Claimable
  <2>3. \A q \in Handler : Claiming(q)' => q = p
    BY <1>4, <2>2 DEF Claiming
  <2>4. /\ work'[p].version = credential'.version
        /\ credential'.claim = p /\ credential'.left = work'[p].left
    BY <1>2, <1>3, <1>4 DEF Claimable
  <2> QED BY <2>3, <2>4 DEF ClaimsOK, Claiming
<1> QED BY <1>5, <1>6, <1>7, <1>8, <1>9, <1>10 DEF Inductive

\* A handler ends with the row active as before.
LEMMA CompleteStep ==
  ASSUME Inductive, NEW p \in Handler, CompleteProviderCredentialRefresh(p)
  PROVE  Inductive'
<1>1. work[p] \in Work /\ work[p].pc = "complete" /\ work[p].tok \in Token
      /\ work[p].new \in Token /\ work[p].version \in Nat /\ work[p].version < MaxVersion
      /\ UNCHANGED <<setting, connection, authorization, provider>>
  BY DEF CompleteProviderCredentialRefresh, At, Inductive, TypeOK, HandlersOK, Shape,
     Connecting, Work
<1>2. CASE /\ Mine(p)
           /\ credential' = [Unclaimed(credential) EXCEPT
                !.version = work[p].version + 1, !.token = work[p].new, !.fresh = TRUE]
           /\ Finish(p)
  <2>1. work[p].version + 1 \in 0..MaxVersion /\ 0 \in 0..ClaimTTL
    BY <1>1, VersionAssumption, ClaimAssumption
  <2>2. /\ credential' \in Credential /\ credential'.token = work[p].new
        /\ credential'.status = credential.status
    BY <1>1, <1>2, <2>1 DEF Inductive, TypeOK, Credential, Unclaimed
  <2>3. RowsOK' /\ CredentialIsBacked' /\ ErasedStaysRevoked'
    BY <1>1, <2>2 DEF Inductive, RowsOK, CredentialIsBacked, ErasedStaysRevoked, setting
  <2>4. Moves(p, Idle) /\ Idle.pc \notin Rowed \cup Connecting
    BY <1>2, IdleFields DEF Finish, Moves, Rowed, Refreshing, Connecting
  <2>5. connection' \in Status /\ authorization' \in Status
    BY <1>1 DEF Inductive, TypeOK
  <2>6. ~Reconsented => \A q \in Handler : q # p => ~Claiming(q)
    BY <1>2, OnlyMine
  <2> QED BY <1>1, <2>2, <2>3, <2>4, <2>5, <2>6, IdleFields, WriteStep
<1>3. CASE ~Mine(p) /\ Goto(p, "release") /\ UNCHANGED credential
  <2> DEFINE w == [work[p] EXCEPT !.pc = "release"]
  <2>1. w \in Work /\ w.pc = "release" /\ w.tok = work[p].tok /\ w.version = work[p].version
    BY <1>1 DEF Work, Refreshing
  <2>2. Shape(w)
    BY <1>1, <2>1 DEF Shape, Connecting
  <2>3. authorization # "none"
    BY <1>1 DEF Inductive, HandlersOK, Rowed, Refreshing
  <2> QED BY <1>1, <1>3, <2>1, <2>2, <2>3, GotoStep DEF Connecting, rows
<1> QED BY <1>2, <1>3 DEF CompleteProviderCredentialRefresh

LEMMA ReleaseStep ==
  ASSUME Inductive, NEW p \in Handler, ReleaseProviderCredentialRefresh(p)
  PROVE  Inductive'
<1>1. Finish(p) /\ UNCHANGED <<setting, connection, authorization, provider>>
  BY DEF ReleaseProviderCredentialRefresh
<1>2. CASE Mine(p)
  <2>1. /\ credential' \in Credential /\ credential'.token = credential.token
        /\ credential'.status = credential.status
    BY <1>2, UnclaimedFields DEF ReleaseProviderCredentialRefresh
  <2>2. RowsOK' /\ CredentialIsBacked' /\ ErasedStaysRevoked'
    BY <1>1, <2>1 DEF Inductive, RowsOK, CredentialIsBacked, ErasedStaysRevoked, setting
  <2>3. Moves(p, Idle) /\ Idle.pc \notin Rowed \cup Connecting
    BY <1>1, IdleFields DEF Finish, Moves, Rowed, Refreshing, Connecting
  <2>4. connection' \in Status /\ authorization' \in Status
    BY <1>1 DEF Inductive, TypeOK
  <2>5. ~Reconsented => \A q \in Handler : q # p => ~Claiming(q)
    BY <1>2, OnlyMine
  <2> QED BY <1>1, <2>1, <2>2, <2>3, <2>4, <2>5, IdleFields, WriteStep
<1>3. CASE ~Mine(p)
  BY <1>1, <1>3, FinishStep DEF ReleaseProviderCredentialRefresh, rows
<1> QED BY <1>2, <1>3

LEMMA RevokeProviderCredentialStep ==
  ASSUME Inductive, NEW p \in Handler, RevokeProviderCredential(p)
  PROVE  Inductive'
<1>1. work[p] \in Work /\ work[p].pc = "revoke" /\ authorization # "none"
      /\ UNCHANGED <<setting, connection, authorization, provider>>
  BY DEF RevokeProviderCredential, At, Inductive, TypeOK, HandlersOK, Rowed, Refreshing
<1>2. CASE /\ credential.status = "active"
           /\ credential' = [Unclaimed(credential) EXCEPT !.status = "revoked"]
           /\ Goto(p, "revokeAuthorization")
  <2>1. /\ credential' \in Credential /\ credential'.token = credential.token
        /\ credential'.status = "revoked" /\ credential'.version = credential.version
    BY <1>2, UnclaimedFields DEF Credential, Status
  <2>2. RowsOK' /\ CredentialIsBacked' /\ ErasedStaysRevoked'
    BY <1>1, <1>2, <2>1 DEF Inductive, RowsOK, CredentialIsBacked, ErasedStaysRevoked, setting
  <2> DEFINE w == [work[p] EXCEPT !.pc = "revokeAuthorization"]
  <2>3. w \in Work /\ w.pc = "revokeAuthorization" /\ w.tok = work[p].tok
        /\ w.new = work[p].new
    BY <1>1 DEF Work, Refreshing
  <2>4. Moves(p, w)
    BY <1>2, <2>3, GotoFields
  <2>5. Shape(w) /\ w.pc \notin Connecting
    BY <2>3 DEF Shape, Connecting
  <2>6. connection' \in Status /\ authorization' \in Status
    BY <1>1 DEF Inductive, TypeOK
  <2> HIDE DEF w
  <2> QED BY <1>1, <2>1, <2>2, <2>3, <2>4, <2>5, <2>6, WriteStep
<1> QED BY <1>1, <1>2, FinishStep DEF RevokeProviderCredential, rows

\* A step that leaves the credential alone and revokes what is there.
LEMMA RevokeEmptyAuthorizationStep ==
  ASSUME Inductive, NEW p \in Handler, RevokeEmptyAuthorization(p)
  PROVE  Inductive'
<1>1. Finish(p) /\ UNCHANGED <<setting, connection, credential, provider>>
      /\ authorization # "none" /\ authorization' \in {authorization, "revoked"}
      /\ (authorization' # authorization => credential.status # "active")
  BY DEF RevokeEmptyAuthorization, At, Inductive, HandlersOK, Rowed, Refreshing
<1>2. connection' \in Status /\ authorization' \in Status /\ credential' \in Credential
  BY <1>1 DEF Inductive, TypeOK, Status
<1>3. RowsOK' /\ CredentialIsBacked' /\ ErasedStaysRevoked'
  BY <1>1 DEF Inductive, RowsOK, CredentialIsBacked, ErasedStaysRevoked, setting
<1>4. Moves(p, Idle) /\ Idle.pc \notin Rowed \cup Connecting
  BY <1>1, IdleFields DEF Finish, Moves, Rowed, Refreshing, Connecting
<1> QED BY <1>1, <1>2, <1>3, <1>4, IdleFields, WriteStep

LEMMA UpsertConnectionStep ==
  ASSUME Inductive, NEW p \in Handler, UpsertProviderConnection(p)
  PROVE  Inductive'
<1>1. work[p] \in Work /\ work[p].pc = "upsert" /\ work[p].new \in Token
      /\ work[p].version = 0 /\ UNCHANGED <<setting, authorization, credential, provider>>
  BY DEF UpsertProviderConnection, At, Inductive, TypeOK, HandlersOK, Shape, Connecting
<1>2. CASE ~erased /\ connection' = "active" /\ Goto(p, "find")
  <2> DEFINE w == [work[p] EXCEPT !.pc = "find"]
  <2>1. w \in Work /\ w.pc = "find" /\ w.tok = work[p].tok /\ w.new = work[p].new
        /\ w.version = 0
    BY <1>1 DEF Work, Connecting
  <2>2. Moves(p, w)
    BY <1>2, <2>1, GotoFields
  <2>3. Shape(w) /\ work[p].pc \in Connecting /\ w.pc \notin Rowed
    BY <1>1, <2>1 DEF Shape, Connecting, Rowed, Refreshing
  <2>4. connection' \in Status /\ authorization' \in Status /\ credential' \in Credential
    BY <1>1, <1>2 DEF Inductive, TypeOK, Status
  <2>5. RowsOK' /\ CredentialIsBacked' /\ ErasedStaysRevoked'
    BY <1>1, <1>2 DEF Inductive, RowsOK, CredentialIsBacked, ErasedStaysRevoked, setting
  <2> HIDE DEF w
  <2> QED BY <1>1, <2>1, <2>2, <2>3, <2>4, <2>5, WriteStep
<1> QED BY <1>1, <1>2, FinishStep DEF UpsertProviderConnection, rows

\* What a callback stores; a second callback means a second consent.
LEMMA StoredFields ==
  ASSUME Inductive, NEW p \in Handler, work[p].pc \in Connecting,
         work[p].version < MaxVersion
  PROVE  /\ Stored(p) \in Credential /\ Stored(p).status = "active"
         /\ Stored(p).token = work[p].new
         /\ work[p].new \in Token
<1>1. work[p] \in Work /\ work[p].new \in Token
  BY DEF Inductive, TypeOK, HandlersOK, Shape
<1>2. work[p].version + 1 \in 0..MaxVersion /\ 0 \in 0..ClaimTTL
  BY <1>1, VersionAssumption, ClaimAssumption DEF Work
<1> QED BY <1>1, <1>2 DEF Stored, NoCredential, Credential, Status

LEMMA CreateStep ==
  ASSUME Inductive, NEW p \in Handler, CreateResourceAuthorization(p)
  PROVE  Inductive'
<1>1. Finish(p) /\ UNCHANGED <<setting, connection, provider>>
      /\ work[p].pc = "create" /\ work[p].pc \in Connecting
  BY DEF CreateResourceAuthorization, At, Connecting
<1>2. CASE MayCreate /\ authorization' = "active" /\ credential' = Stored(p)
  <2>1. work[p].version < MaxVersion
    BY <1>1, VersionAssumption
       DEF CreateResourceAuthorization, Inductive, HandlersOK, Shape
  <2>2. /\ Stored(p) \in Credential /\ Stored(p).status = "active"
        /\ Stored(p).token = work[p].new /\ work[p].new \in Token
    BY <1>1, <2>1, StoredFields
  <2>3. connection' \in Status /\ authorization' \in Status /\ credential' \in Credential
    BY <1>1, <1>2, <2>2 DEF Inductive, TypeOK, Status
  <2>4. RowsOK' /\ CredentialIsBacked' /\ ErasedStaysRevoked'
    BY <1>1, <1>2, <2>2 DEF RowsOK, CredentialIsBacked, ErasedStaysRevoked, MayCreate, setting
  <2>5. Moves(p, Idle) /\ Idle.pc \notin Rowed \cup Connecting
    BY <1>1, IdleFields DEF Finish, Moves, Rowed, Refreshing, Connecting
  <2>6. \A q \in Handler : ~Claiming(q)
    BY <1>2 DEF MayCreate, Inductive, HandlersOK, Claiming, Rowed, Refreshing
  <2> QED BY <1>1, <1>2, <2>2, <2>3, <2>4, <2>5, <2>6, IdleFields, WriteStep
<1> QED BY <1>1, <1>2, FinishStep DEF CreateResourceAuthorization, rows

LEMMA UpsertCredentialStep ==
  ASSUME Inductive, NEW p \in Handler, UpsertProviderCredential(p)
  PROVE  Inductive'
<1>1. Finish(p) /\ UNCHANGED <<setting, connection, provider>>
      /\ work[p].pc = "store" /\ work[p].pc \in Connecting /\ authorization # "none"
  BY DEF UpsertProviderCredential, At, Connecting, Inductive, HandlersOK, Rowed
<1>2. CASE ~erased /\ authorization' = "active" /\ credential' = Stored(p)
  <2>1. work[p].version < MaxVersion
    BY <1>1 DEF Inductive, HandlersOK, Shape
  <2>2. /\ Stored(p) \in Credential /\ Stored(p).status = "active"
        /\ Stored(p).token = work[p].new /\ work[p].new \in Token
    BY <1>1, <2>1, StoredFields
  <2>3. connection' \in Status /\ authorization' \in Status /\ credential' \in Credential
    BY <1>1, <1>2, <2>2 DEF Inductive, TypeOK, Status
  <2>4. RowsOK' /\ CredentialIsBacked' /\ ErasedStaysRevoked'
    BY <1>1, <1>2, <2>2 DEF RowsOK, CredentialIsBacked, ErasedStaysRevoked, setting
  <2>5. Moves(p, Idle) /\ Idle.pc \notin Rowed \cup Connecting
    BY <1>1, IdleFields DEF Finish, Moves, Rowed, Refreshing, Connecting
  <2>6. Reconsented
    BY <1>1 DEF Inductive, ConsentsOK
  <2> QED BY <1>1, <1>2, <2>2, <2>3, <2>4, <2>5, <2>6, IdleFields, WriteStep
<1> QED BY <1>1, <1>2, FinishStep DEF UpsertProviderCredential, rows

LEMMA RevokeConnectionStep ==
  ASSUME Inductive, NEW p \in Handler, RevokeConnection(p)
  PROVE  Inductive'
<1>1. work[p] \in Work /\ work[p].pc = "endBatch" /\ authorization # "none"
      /\ UNCHANGED <<setting, connection, provider>> /\ authorization' = "revoked"
      /\ credential' = [credential EXCEPT !.status = "revoked"]
      /\ (Goto(p, "endConnection") \/ Finish(p))
  BY DEF RevokeConnection, At, Inductive, TypeOK, HandlersOK, Rowed
<1>2. /\ credential' \in Credential /\ credential'.token = credential.token
      /\ credential'.status = "revoked" /\ credential'.version = credential.version
  BY <1>1 DEF Inductive, TypeOK, Credential, Status
<1>3. RowsOK' /\ CredentialIsBacked' /\ ErasedStaysRevoked'
  BY <1>1, <1>2 DEF Inductive, RowsOK, CredentialIsBacked, ErasedStaysRevoked, setting
<1>4. connection' \in Status /\ authorization' \in Status
  BY <1>1 DEF Inductive, TypeOK, Status
<1>5. CASE Goto(p, "endConnection")
  <2> DEFINE w == [work[p] EXCEPT !.pc = "endConnection"]
  <2>1. w \in Work /\ w.pc = "endConnection" /\ w.tok = work[p].tok /\ w.new = work[p].new
    BY <1>1 DEF Work, Disconnecting
  <2>2. Moves(p, w)
    BY <1>5, <2>1, GotoFields
  <2>3. Shape(w) /\ w.pc \notin Connecting
    BY <2>1 DEF Shape, Connecting
  <2> HIDE DEF w
  <2> QED BY <1>1, <1>2, <1>3, <1>4, <2>1, <2>2, <2>3, WriteStep
<1>6. CASE Finish(p)
  <2>1. Moves(p, Idle) /\ Idle.pc \notin Rowed \cup Connecting
    BY <1>6, IdleFields DEF Finish, Moves, Rowed, Refreshing, Connecting
  <2> QED BY <1>1, <1>2, <1>3, <1>4, <2>1, IdleFields, WriteStep
<1> QED BY <1>1, <1>5, <1>6

LEMMA RevokeProviderConnectionStep ==
  ASSUME Inductive, NEW p \in Handler, RevokeProviderConnection(p)
  PROVE  Inductive'
<1>1. Finish(p) /\ UNCHANGED <<setting, authorization, credential, provider>>
      /\ connection' \in {connection, "revoked"}
  BY DEF RevokeProviderConnection
<1>2. connection' \in Status /\ authorization' \in Status /\ credential' \in Credential
  BY <1>1 DEF Inductive, TypeOK, Status
<1>3. RowsOK' /\ CredentialIsBacked' /\ ErasedStaysRevoked'
  BY <1>1 DEF Inductive, RowsOK, CredentialIsBacked, ErasedStaysRevoked, setting
<1>4. Moves(p, Idle) /\ Idle.pc \notin Rowed \cup Connecting
  BY <1>1, IdleFields DEF Finish, Moves, Rowed, Refreshing, Connecting
<1> QED BY <1>1, <1>2, <1>3, <1>4, IdleFields, WriteStep

LEMMA RevokeByConnectorStep ==
  ASSUME Inductive, NEW p \in Handler, RevokeResourceAuthorizationsByConnector(p)
  PROVE  Inductive'
<1>1. Finish(p) /\ UNCHANGED <<setting, connection, provider>> /\ authorization # "none"
      /\ authorization' = "revoked"
      /\ credential' = [Unclaimed(credential) EXCEPT !.status = "revoked"]
  BY DEF RevokeResourceAuthorizationsByConnector, At, Inductive, HandlersOK, Rowed
<1>2. /\ credential' \in Credential /\ credential'.token = credential.token
      /\ credential'.status = "revoked" /\ credential'.version = credential.version
  BY <1>1, UnclaimedFields DEF Credential, Status
<1>3. RowsOK' /\ CredentialIsBacked' /\ ErasedStaysRevoked'
  BY <1>1, <1>2 DEF Inductive, RowsOK, CredentialIsBacked, ErasedStaysRevoked, setting
<1>4. connection' \in Status /\ authorization' \in Status
  BY <1>1 DEF Inductive, TypeOK, Status
<1>5. Moves(p, Idle) /\ Idle.pc \notin Rowed \cup Connecting
  BY <1>1, IdleFields DEF Finish, Moves, Rowed, Refreshing, Connecting
<1> QED BY <1>1, <1>2, <1>3, <1>4, <1>5, IdleFields, WriteStep

-----------------------------------------------------------------------------
(* The steps in which the Provider answers *)

\* A token the handler receives is new to everyone.
LEMMA ProviderStep ==
  ASSUME Inductive, NEW p \in Handler, NEW w \in Work, Moves(p, w),
         UNCHANGED <<setting, rows>>, provider' \in [Token -> ProviderToken], Evolves,
         Shape(w), w.pc # "post", w.pc \in Rowed => authorization # "none",
         w.tok \in {None, work[p].tok},
         \/ w.pc \notin Connecting /\ w.new \in {None, work[p].new}
         \/ w.new \in Token /\ ~Issued(provider, w.new) /\ Issued(provider', w.new),
         w.pc \in Connecting =>
           /\ Consented(provider', w.new) /\ w.tok = None
           /\ authorization # "none" => Reconsented'
  PROVE  Inductive'
<1>1. TypeOK'
  BY MoveFields DEF Inductive, TypeOK, setting, rows
<1>2. HandlersOK'
  BY HandlersStep DEF rows
<1>3. RowsOK' /\ CredentialIsBacked' /\ ErasedStaysRevoked'
  BY DEF Inductive, RowsOK, CredentialIsBacked, ErasedStaysRevoked, setting, rows
<1>4. \A t \in Token : Issued(provider, t) => Issued(provider', t)
  BY ConsentsStay
<1>5. /\ credential'.token # None =>
           credential'.token \in Token /\ Issued(provider', credential'.token)
      /\ w.tok # None => Issued(provider', w.tok)
      /\ w.new # None => Issued(provider', w.new)
  <2>1. credential'.token = credential.token /\ credential.token \in Token \cup {None}
        /\ work[p].tok \in Token \cup {None} /\ work[p].new \in Token \cup {None}
    BY DEF rows, Inductive, TypeOK, Credential, Work
  <2> QED BY <1>4, <2>1 DEF Inductive, TokensOK
<1>6. \A q \in Handler : q # p /\ work[q].pc \in Connecting =>
        work[q].new \notin {w.tok, w.new, credential'.token}
  <2> SUFFICES ASSUME NEW q \in Handler, q # p, work[q].pc \in Connecting
               PROVE  work[q].new \notin {w.tok, w.new, credential'.token}
    OBVIOUS
  <2>1. work[q].new \in Token /\ Issued(provider, work[q].new)
    BY DEF Inductive, HandlersOK, Shape, TokensOK, Consented
  <2>2. work[q].new \notin {None, credential.token, work[p].tok, work[p].new}
    BY <2>1, NoneAssumption DEF Inductive, TokensOK
  <2> QED BY <2>1, <2>2 DEF rows
<1>7. ASSUME w.pc \in Connecting
      PROVE  /\ Consented(provider', w.new) /\ w.new \notin {w.tok, credential'.token}
             /\ \A q \in Handler : q # p => w.new \notin {work[q].tok, work[q].new}
  <2>1. w.new \in Token /\ ~Issued(provider, w.new) /\ w.tok = None
    BY <1>7
  <2>2. w.new # credential'.token
    BY <2>1, NoneAssumption DEF rows, Inductive, TokensOK
  <2>3. \A q \in Handler : w.new \notin {work[q].tok, work[q].new}
    BY <2>1, NoneAssumption DEF Inductive, TokensOK
  <2> QED BY <1>7, <2>1, <2>2, <2>3, NoneAssumption
<1>8. TokensOK'
  BY <1>5, <1>6, <1>7, TokensStep
<1>9. ConsentsOK'
  BY ConsentsStep DEF rows
<1>10. ClaimsOK'
  BY ClaimsStep DEF rows
<1> QED BY <1>1, <1>2, <1>3, <1>8, <1>9, <1>10 DEF Inductive

LEMMA IssueFields ==
  ASSUME Inductive, NEW t \in Token, ~Issued(provider, t),
         NEW from \in {"consent", "refresh"}
  PROVE  /\ Issue(t, from) \in [Token -> ProviderToken]
         /\ Issue(t, from)[t] = [state |-> "live", from |-> from]
         /\ \A u \in Token : u # t => Issue(t, from)[u] = provider[u]
BY DEF Inductive, TypeOK, ProviderToken, Issue

\* The Provider rotates the token u into t.
LEMMA RotationFields ==
  ASSUME Inductive, NEW t \in Token, NEW u \in Token, ~Issued(provider, t),
         Issued(provider, u),
         provider' = [Issue(t, "refresh") EXCEPT ![u].state = "dead"]
  PROVE  provider' \in [Token -> ProviderToken] /\ Evolves /\ Issued(provider', t)
<1> DEFINE m == Issue(t, "refresh")
<1>1. /\ m \in [Token -> ProviderToken] /\ m[t] = [state |-> "live", from |-> "refresh"]
      /\ \A v \in Token : v # t => m[v] = provider[v]
  BY IssueFields
<1>2. provider' = [m EXCEPT ![u].state = "dead"] /\ u # t
  BY DEF Issued
<1> HIDE DEF m
<1>3. provider' \in [Token -> ProviderToken]
  <2>1. m[u] \in ProviderToken
    BY <1>1
  <2>2. [m[u] EXCEPT !.state = "dead"] \in ProviderToken
    BY <2>1 DEF ProviderToken
  <2> QED BY <1>1, <1>2, <2>2
<1>4. /\ provider'[t] = m[t] /\ provider'[u].state = "dead"
      /\ provider'[u].from = m[u].from
      /\ \A v \in Token : v # u => provider'[v] = m[v]
  BY <1>1, <1>2 DEF ProviderToken
<1> QED BY <1>1, <1>2, <1>3, <1>4 DEF Evolves, Issued

LEMMA WithdrawnFields ==
  ASSUME Inductive, NEW u \in Token, Issued(provider, u),
         provider' = [provider EXCEPT ![u].state = "dead"]
  PROVE  provider' \in [Token -> ProviderToken] /\ Evolves
BY DEF Inductive, TypeOK, ProviderToken, Evolves

LEMMA PostRefreshStep ==
  ASSUME Inductive, NEW p \in Handler, PostRefresh(p)
  PROVE  Inductive'
<1>1. work[p] \in Work /\ work[p].tok \in Token /\ work[p].version < MaxVersion
      /\ authorization # "none" /\ provider[work[p].tok].state = "live"
      /\ UNCHANGED <<setting, rows>>
  BY DEF PostRefresh, At, Inductive, TypeOK, HandlersOK, Shape, Rowed, Refreshing
<1>2. ASSUME NEW t \in Token
      PROVE  LET w == [work[p] EXCEPT !.pc = "complete", !.new = t]
             IN  /\ w \in Work /\ Shape(w) /\ w.pc = "complete" /\ w.pc \notin Connecting
                 /\ w.tok = work[p].tok /\ w.new = t
  <2> DEFINE w == [work[p] EXCEPT !.pc = "complete", !.new = t]
  <2>1. w \in Work /\ w.pc = "complete" /\ w.tok = work[p].tok /\ w.new = t
        /\ w.version = work[p].version
    BY <1>1 DEF Work, Refreshing
  <2> HIDE DEF w
  <2>2. Shape(w) /\ w.pc \notin Connecting
    BY <1>1, <2>1 DEF Shape, Connecting
  <2> QED BY <2>1, <2>2 DEF w
<1>3. ASSUME NEW t \in Token, provider[t].state = "unissued",
             provider' = [Issue(t, "refresh") EXCEPT ![work[p].tok].state = "dead"],
             work' = [work EXCEPT ![p].pc = "complete", ![p].new = t]
      PROVE  Inductive'
  <2> DEFINE w == [work[p] EXCEPT !.pc = "complete", !.new = t]
  <2>1. Moves(p, w)
    BY <1>3 DEF Moves, Inductive, TypeOK
  <2>2. /\ w \in Work /\ Shape(w) /\ w.pc = "complete" /\ w.pc \notin Connecting
        /\ w.tok = work[p].tok /\ w.new = t
    BY <1>2
  <2> HIDE DEF w
  <2>3. ~Issued(provider, t) /\ Issued(provider, work[p].tok)
    BY <1>1, <1>3 DEF Issued
  <2>4. provider' \in [Token -> ProviderToken] /\ Evolves /\ Issued(provider', t)
    BY <1>1, <1>3, <2>3, RotationFields
  <2> QED BY <1>1, <2>1, <2>2, <2>3, <2>4, ProviderStep
<1>4. ASSUME work' = [work EXCEPT ![p].pc = "complete", ![p].new = work[p].tok],
             UNCHANGED provider
      PROVE  Inductive'
  <2> DEFINE w == [work[p] EXCEPT !.pc = "complete", !.new = work[p].tok]
  <2>1. Moves(p, w)
    BY <1>4 DEF Moves, Inductive, TypeOK
  <2>2. /\ w \in Work /\ Shape(w) /\ w.pc = "complete" /\ w.pc \notin Connecting
        /\ w.tok = work[p].tok /\ w.new = work[p].tok
    BY <1>1, <1>2
  <2> HIDE DEF w
  <2> QED BY <1>1, <1>4, <2>1, <2>2, QuietStep
<1> QED BY <1>3, <1>4 DEF PostRefresh

LEMMA PostFailsStep ==
  ASSUME Inductive, NEW p \in Handler, PostFails(p)
  PROVE  Inductive'
<1> DEFINE w == [work[p] EXCEPT !.pc = "release"]
<1>1. work[p] \in Work /\ work[p].tok \in Token /\ work[p].version < MaxVersion
      /\ authorization # "none" /\ Goto(p, "release") /\ UNCHANGED <<setting, rows>>
  BY DEF PostFails, At, Inductive, TypeOK, HandlersOK, Shape, Rowed, Refreshing
<1>2. /\ w \in Work /\ w.pc = "release" /\ w.tok = work[p].tok /\ w.new = work[p].new
      /\ w.version = work[p].version
  BY <1>1 DEF Work, Refreshing
<1>3. Moves(p, w)
  BY <1>1, <1>2, GotoFields
<1> HIDE DEF w
<1>4. Shape(w) /\ w.pc \notin Connecting
  BY <1>1, <1>2 DEF Shape, Connecting
<1>5. CASE UNCHANGED provider
  BY <1>1, <1>2, <1>3, <1>4, <1>5, QuietStep
<1>6. ASSUME NEW t \in Token, provider[t].state = "unissued",
             provider[work[p].tok].state = "live",
             provider' = [Issue(t, "refresh") EXCEPT ![work[p].tok].state = "dead"]
      PROVE  Inductive'
  <2>1. ~Issued(provider, t) /\ Issued(provider, work[p].tok)
    BY <1>6 DEF Issued
  <2>2. provider' \in [Token -> ProviderToken] /\ Evolves
    BY <1>1, <1>6, <2>1, RotationFields
  <2> QED BY <1>1, <1>2, <1>3, <1>4, <2>2, ProviderStep
<1> QED BY <1>5, <1>6 DEF PostFails

LEMMA PostRefusedStep ==
  ASSUME Inductive, NEW p \in Handler, PostRefused(p)
  PROVE  Inductive'
<1> DEFINE w == [work[p] EXCEPT !.pc = "revoke"]
<1>1. work[p] \in Work /\ authorization # "none" /\ Goto(p, "revoke")
      /\ UNCHANGED <<setting, rows, provider>>
  BY DEF PostRefused, At, Inductive, TypeOK, HandlersOK, Rowed, Refreshing
<1>2. w \in Work /\ w.pc = "revoke"
  BY <1>1 DEF Work, Refreshing
<1>3. Shape(w)
  BY <1>2 DEF Shape, Connecting
<1> QED BY <1>1, <1>2, <1>3, GotoStep DEF Connecting

LEMMA ExchangeCodeStep ==
  ASSUME Inductive, NEW p \in Handler, NEW t \in Token, ExchangeCode(p, t)
  PROVE  Inductive'
<1> DEFINE w == [Idle EXCEPT !.pc = "upsert", !.new = t]
<1>1. Moves(p, w) /\ provider' = Issue(t, "consent") /\ UNCHANGED <<setting, rows>>
      /\ ~Issued(provider, t)
  BY DEF ExchangeCode, Moves, Issued
<1>2. w \in Work /\ w.pc = "upsert" /\ w.tok = None /\ w.new = t /\ w.version = 0
  BY IdleFields DEF Work, Idle, Connecting
<1> HIDE DEF w
<1>3. Shape(w) /\ w.pc \notin Rowed
  BY <1>2 DEF Shape, Connecting, Rowed, Refreshing
<1>4. /\ provider' \in [Token -> ProviderToken]
      /\ provider'[t] = [state |-> "live", from |-> "consent"]
      /\ \A u \in Token : u # t => provider'[u] = provider[u]
  BY <1>1, IssueFields
<1>5. Evolves /\ Consented(provider', t) /\ Issued(provider', t)
  BY <1>1, <1>4 DEF Evolves, Consented, Issued
<1>6. ASSUME authorization # "none" PROVE Reconsented'
  <2>1. PICK u \in Token : Consented(provider, u)
    BY <1>6 DEF Inductive, ConsentsOK
  <2>2. u # t /\ Consented(provider', u)
    BY <1>1, <1>5, <2>1, ConsentsStay DEF Consented
  <2> QED BY <1>5, <2>2 DEF Reconsented, Consented, Issued
<1> QED BY <1>1, <1>2, <1>3, <1>4, <1>5, <1>6, ProviderStep

\* The token posted for revocation was issued.
LEMMA PostRevocationStep ==
  ASSUME Inductive, NEW p \in Handler, PostRevocation(p)
  PROVE  Inductive'
<1> DEFINE w == [work[p] EXCEPT !.pc = "endAuthorization"]
<1>1. work[p] \in Work /\ work[p].tok \in Token /\ authorization # "none"
      /\ Goto(p, "endAuthorization") /\ UNCHANGED <<setting, rows>>
      /\ provider' = [provider EXCEPT ![work[p].tok].state = "dead"]
  BY DEF PostRevocation, At, Inductive, TypeOK, HandlersOK, Shape, Rowed
<1>2. w \in Work /\ w.pc = "endAuthorization" /\ w.tok = work[p].tok /\ w.new = work[p].new
  BY <1>1 DEF Work, Disconnecting
<1>3. Moves(p, w)
  BY <1>1, <1>2, GotoFields
<1> HIDE DEF w
<1>4. Shape(w) /\ w.pc \notin Connecting
  BY <1>2 DEF Shape, Connecting
<1>5. Issued(provider, work[p].tok)
  BY <1>1, NoneAssumption DEF Inductive, TokensOK
<1>6. provider' \in [Token -> ProviderToken] /\ Evolves
  BY <1>1, <1>5, WithdrawnFields
<1> QED BY <1>1, <1>2, <1>3, <1>4, <1>6, ProviderStep

-----------------------------------------------------------------------------
(* The surroundings *)

\* Nothing but time passes for the handlers, and rows only end.
LEMMA SurroundingStep ==
  ASSUME Inductive, Evolves, TypeOK',
         \A p \in Handler :
           /\ [work'[p] EXCEPT !.left = 0] = [work[p] EXCEPT !.left = 0]
           /\ work'[p].left > 0 => work[p].left > 0,
         RowsOK', CredentialIsBacked', ErasedStaysRevoked',
         authorization' = "none" <=> authorization = "none",
         credential'.token = credential.token,
         credential'.version = credential.version,
         credential'.status = "active" =>
           /\ credential.status = "active" /\ credential'.claim = credential.claim
           /\ \A p \in Handler : work'[p].left > 0 /\ credential.left = work[p].left =>
                credential'.left = work'[p].left
  PROVE  Inductive'
<1>1. \A p \in Handler :
        /\ work'[p].pc = work[p].pc /\ work'[p].tok = work[p].tok
        /\ work'[p].new = work[p].new /\ work'[p].version = work[p].version
  <2> SUFFICES ASSUME NEW p \in Handler
               PROVE  /\ work'[p].pc = work[p].pc /\ work'[p].tok = work[p].tok
                      /\ work'[p].new = work[p].new /\ work'[p].version = work[p].version
    OBVIOUS
  <2>1. work[p] \in Work /\ work'[p] \in Work
    BY DEF Inductive, TypeOK
  <2> DEFINE v == [work[p] EXCEPT !.left = 0]
             w == [work'[p] EXCEPT !.left = 0]
  <2>2. v.pc = work[p].pc /\ v.tok = work[p].tok /\ v.new = work[p].new
        /\ v.version = work[p].version
    BY <2>1 DEF Work
  <2>3. w.pc = work'[p].pc /\ w.tok = work'[p].tok /\ w.new = work'[p].new
        /\ w.version = work'[p].version
    BY <2>1 DEF Work
  <2>4. v = w
    OBVIOUS
  <2> QED BY <2>2, <2>3, <2>4
<1>2. HandlersOK'
  BY <1>1 DEF Inductive, HandlersOK, Shape
<1>3. \A p \in Handler : work[p].tok \in Token \cup {None} /\ work[p].new \in Token \cup {None}
  BY DEF Inductive, TypeOK, Work
<1>4. /\ credential'.token # None => Issued(provider', credential'.token)
      /\ \A p \in Handler :
           /\ work'[p].tok # None => Issued(provider', work'[p].tok)
           /\ work'[p].new # None => Issued(provider', work'[p].new)
  <2>1. credential.token \in Token \cup {None}
    BY DEF Inductive, TypeOK, Credential
  <2> QED BY <1>1, <1>3, <2>1, ConsentsStay DEF Inductive, TokensOK
<1>5. \A p \in Handler : work'[p].pc \in Connecting =>
        /\ Consented(provider', work'[p].new)
        /\ work'[p].new # credential'.token
        /\ \A q \in Handler : /\ work'[q].tok # work'[p].new
                              /\ q # p => work'[q].new # work'[p].new
  <2> SUFFICES ASSUME NEW p \in Handler, work'[p].pc \in Connecting
               PROVE  /\ Consented(provider', work'[p].new)
                      /\ work'[p].new # credential'.token
                      /\ \A q \in Handler : /\ work'[q].tok # work'[p].new
                                            /\ q # p => work'[q].new # work'[p].new
    OBVIOUS
  <2>1. work[p].pc \in Connecting /\ work[p].new \in Token
    BY <1>1 DEF Inductive, HandlersOK, Shape
  <2>2. Consented(provider', work'[p].new)
    BY <1>1, <2>1, ConsentsStay DEF Inductive, TokensOK
  <2>3. work'[p].new # credential'.token
    BY <1>1, <2>1 DEF Inductive, TokensOK
  <2>4. \A q \in Handler : /\ work'[q].tok # work'[p].new
                           /\ q # p => work'[q].new # work'[p].new
    BY <1>1, <2>1 DEF Inductive, TokensOK
  <2> QED BY <2>2, <2>3, <2>4
<1>6. TokensOK'
  BY <1>4, <1>5 DEF TokensOK, Issued, Consented
<1>7. ConsentsOK'
  <2>1. ASSUME authorization' # "none" PROVE \E t \in Token : Consented(provider', t)
    BY <2>1, ConsentsStay DEF Inductive, ConsentsOK
  <2>2. ASSUME authorization' # "none", NEW p \in Handler, work'[p].pc \in Connecting
        PROVE  Reconsented'
    BY <1>1, <2>2, ConsentsStay DEF Inductive, ConsentsOK
  <2> QED BY <2>1, <2>2 DEF ConsentsOK, Consented, Issued
<1>8. ClaimsOK'
  <2> SUFFICES ASSUME ~Reconsented' PROVE ClaimsOK'
    BY DEF ClaimsOK
  <2>1. ~Reconsented
    BY ConsentsStay
  <2>2. \A p \in Handler : Claiming(p)' => Claiming(p)
    BY <1>1 DEF Claiming
  <2>3. ASSUME NEW p \in Handler, Claiming(p)'
        PROVE  /\ work'[p].version = credential'.version
               /\ credential'.status = "active" =>
                    credential'.claim = p /\ credential'.left = work'[p].left
    <3>1. Claiming(p) /\ work'[p].left > 0
      BY <2>2, <2>3 DEF Claiming
    <3>2. /\ work[p].version = credential.version
          /\ credential.status = "active" =>
               credential.claim = p /\ credential.left = work[p].left
      BY <2>1, <3>1 DEF Inductive, ClaimsOK
    <3> QED BY <1>1, <3>1, <3>2
  <2>4. \A p, q \in Handler : Claiming(p)' /\ Claiming(q)' => p = q
    BY <2>1, <2>2 DEF Inductive, ClaimsOK
  <2> QED BY <2>3, <2>4 DEF ClaimsOK, Claiming
<1> QED BY <1>2, <1>6, <1>7, <1>8 DEF Inductive

LEMMA TickStep ==
  ASSUME Inductive, Tick
  PROVE  Inductive'
<1>1. credential \in Credential /\ work \in [Handler -> Work]
      /\ UNCHANGED <<setting, connection, authorization, provider>>
  BY DEF Inductive, TypeOK, Tick
<1>2. \A n \in 0..ClaimTTL : Less(n) \in 0..ClaimTTL /\ (Less(n) > 0 => n > 0)
  BY ClaimAssumption DEF Less
<1>3. /\ credential' = [credential EXCEPT !.left = Less(credential.left)]
      /\ work' = [p \in Handler |-> [work[p] EXCEPT !.left = Less(work[p].left)]]
  BY DEF Tick
<1>4. /\ credential' \in Credential /\ credential'.left = Less(credential.left)
      /\ credential'.status = credential.status /\ credential'.token = credential.token
      /\ credential'.version = credential.version /\ credential'.claim = credential.claim
  BY <1>1, <1>2, <1>3 DEF Credential
<1>5. \A p \in Handler :
        /\ work'[p] \in Work /\ work'[p].left = Less(work[p].left)
        /\ work[p].left \in 0..ClaimTTL
        /\ [work'[p] EXCEPT !.left = 0] = [work[p] EXCEPT !.left = 0]
  <2> SUFFICES ASSUME NEW p \in Handler
               PROVE  /\ work'[p] \in Work /\ work'[p].left = Less(work[p].left)
                      /\ work[p].left \in 0..ClaimTTL
                      /\ [work'[p] EXCEPT !.left = 0] = [work[p] EXCEPT !.left = 0]
    OBVIOUS
  <2>1. work[p] \in Work /\ work[p].left \in 0..ClaimTTL
    BY <1>1 DEF Work
  <2>2. work'[p] = [work[p] EXCEPT !.left = Less(work[p].left)]
    BY <1>3
  <2>3. work'[p] \in Work /\ work'[p].left = Less(work[p].left)
    BY <1>2, <2>1, <2>2 DEF Work
  <2>4. [work'[p] EXCEPT !.left = 0] = [work[p] EXCEPT !.left = 0]
    BY <2>1, <2>2 DEF Work
  <2> QED BY <2>1, <2>3, <2>4
<1>6. TypeOK'
  <2>1. work' \in [Handler -> Work]
    BY <1>3, <1>5
  <2> QED BY <1>1, <1>4, <2>1 DEF Inductive, TypeOK, setting
<1>7. RowsOK' /\ CredentialIsBacked' /\ ErasedStaysRevoked'
  BY <1>1, <1>4 DEF Inductive, RowsOK, CredentialIsBacked, ErasedStaysRevoked, setting
<1>8. Evolves
  BY <1>1 DEF Evolves
<1>9. \A p \in Handler : work'[p].left > 0 => work[p].left > 0
  BY <1>2, <1>5
<1>10. \A p \in Handler : credential.left = work[p].left => credential'.left = work'[p].left
  BY <1>4, <1>5
<1> QED BY <1>1, <1>4, <1>5, <1>6, <1>7, <1>8, <1>9, <1>10, SurroundingStep

LEMMA ExpireAccessTokenStep ==
  ASSUME Inductive, ExpireAccessToken
  PROVE  Inductive'
<1>1. UNCHANGED <<setting, connection, authorization, provider, work>>
      /\ credential' = [credential EXCEPT !.fresh = FALSE]
  BY DEF ExpireAccessToken
<1>2. /\ credential' \in Credential /\ credential'.left = credential.left
      /\ credential'.status = credential.status /\ credential'.token = credential.token
      /\ credential'.version = credential.version /\ credential'.claim = credential.claim
  BY <1>1 DEF Inductive, TypeOK, Credential
<1>3. TypeOK' /\ RowsOK' /\ CredentialIsBacked' /\ ErasedStaysRevoked' /\ Evolves
  BY <1>1, <1>2 DEF Inductive, TypeOK, RowsOK, CredentialIsBacked, ErasedStaysRevoked,
     setting, Evolves
<1> QED BY <1>1, <1>2, <1>3, SurroundingStep

LEMMA WithdrawStep ==
  ASSUME Inductive, NEW t \in Token, Withdraw(t)
  PROVE  Inductive'
<1>1. UNCHANGED <<setting, rows, work>> /\ Issued(provider, t)
      /\ provider' = [provider EXCEPT ![t].state = "dead"]
  BY DEF Withdraw, Issued
<1>2. provider' \in [Token -> ProviderToken] /\ Evolves
  BY <1>1, WithdrawnFields
<1>3. TypeOK' /\ RowsOK' /\ CredentialIsBacked' /\ ErasedStaysRevoked'
  BY <1>1, <1>2 DEF Inductive, TypeOK, RowsOK, CredentialIsBacked, ErasedStaysRevoked,
     setting, rows
<1> QED BY <1>1, <1>2, <1>3, SurroundingStep DEF rows

LEMMA DeleteResourceStep ==
  ASSUME Inductive, DeleteResource
  PROVE  Inductive'
<1>1. UNCHANGED <<erased, connection, credential, provider, work>>
      /\ resource' = "deleted" /\ authorization' \in {authorization, "revoked"}
      /\ (authorization' # authorization => authorization = "active")
  BY DEF DeleteResource
<1>2. TypeOK' /\ RowsOK' /\ CredentialIsBacked' /\ ErasedStaysRevoked' /\ Evolves
  BY <1>1 DEF Inductive, TypeOK, Status, RowsOK, CredentialIsBacked, ErasedStaysRevoked,
     Evolves
<1> QED BY <1>1, <1>2, SurroundingStep

LEMMA EraseAccountStep ==
  ASSUME Inductive, EraseAccount
  PROVE  Inductive'
<1>1. UNCHANGED <<resource, provider, work>> /\ erased' = TRUE
      /\ connection' = RevokedIfAny(connection)
      /\ authorization' = RevokedIfAny(authorization)
      /\ credential' = [Unclaimed(credential) EXCEPT !.status = RevokedIfAny(credential.status)]
  BY DEF EraseAccount
<1>2. \A st \in Status : RevokedIfAny(st) \in {"none", "revoked"}
                         /\ (RevokedIfAny(st) = "none" <=> st = "none")
  BY DEF RevokedIfAny
<1>3. credential.status \in Status /\ authorization \in Status /\ connection \in Status
  BY DEF Inductive, TypeOK, Credential
<1>4. /\ credential' \in Credential /\ credential'.token = credential.token
      /\ credential'.status = RevokedIfAny(credential.status)
      /\ credential'.version = credential.version
  BY <1>1, <1>2, <1>3, UnclaimedFields DEF Credential, Status
<1>5. TypeOK'
  BY <1>1, <1>2, <1>3, <1>4 DEF Inductive, TypeOK, Status
<1>6. RowsOK' /\ CredentialIsBacked' /\ ErasedStaysRevoked' /\ Evolves
  BY <1>1, <1>2, <1>3, <1>4 DEF Inductive, RowsOK, CredentialIsBacked, ErasedStaysRevoked,
     Evolves
<1>7. credential'.status # "active" /\ (authorization' = "none" <=> authorization = "none")
  BY <1>1, <1>2, <1>3, <1>4
<1> QED BY <1>1, <1>4, <1>5, <1>6, <1>7, SurroundingStep

-----------------------------------------------------------------------------
(* What a step may do to the credential *)

\* The tokens stay, the holder of the claim replaces them and ends it, or a
\* consent does.
TokensStay ==
  /\ credential'.token = credential.token
  /\ credential'.version = credential.version
  /\ credential.status = "revoked" => credential'.status = "revoked"

LEMMA CredentialWrites ==
  ASSUME Inductive, [Next]_vars
  PROVE  \/ TokensStay
         \/ credential.status = "active" /\ credential'.claim = None
         \/ \E p \in Handler : work[p].pc \in Connecting /\ credential' = Stored(p)
<1>1. credential \in Credential
  BY DEF Inductive, TypeOK
<1>2. UNCHANGED credential => TokensStay
  BY DEF TokensStay
<1>3. CASE Tick \/ ExpireAccessToken
  <2>1. \E n, b : credential' = [credential EXCEPT !.left = n]
                  \/ credential' = [credential EXCEPT !.fresh = b]
    BY <1>3 DEF Tick, ExpireAccessToken
  <2> QED BY <1>1, <2>1 DEF Credential, TokensStay
<1>4. CASE EraseAccount
  <2>1. /\ credential'.token = credential.token /\ credential'.version = credential.version
        /\ credential'.status = RevokedIfAny(credential.status)
    BY <1>4, UnclaimedFields DEF EraseAccount, Credential
  <2> QED BY <2>1 DEF TokensStay, RevokedIfAny
<1>5. ASSUME NEW p \in Handler, ClaimProviderCredentialRefresh(p) PROVE TokensStay
  BY <1>1, <1>5 DEF ClaimProviderCredentialRefresh, TokensStay, Credential
<1>6. ASSUME NEW p \in Handler, CompleteProviderCredentialRefresh(p)
      PROVE  TokensStay \/ (credential.status = "active" /\ credential'.claim = None)
  <2>1. CASE UNCHANGED credential
    BY <1>2, <2>1
  <2>2. CASE credential.status = "active" /\ ~UNCHANGED credential
    BY <1>1, <1>6, <2>2 DEF CompleteProviderCredentialRefresh, Unclaimed, Credential
  <2> QED BY <1>6, <2>1, <2>2 DEF CompleteProviderCredentialRefresh, Mine
<1>7. ASSUME NEW p \in Handler, ReleaseProviderCredentialRefresh(p) PROVE TokensStay
  BY <1>1, <1>7, UnclaimedFields DEF ReleaseProviderCredentialRefresh, TokensStay
<1>8. ASSUME NEW p \in Handler,
             \/ RevokeProviderCredential(p)
             \/ RevokeResourceAuthorizationsByConnector(p)
             \/ RevokeConnection(p)
      PROVE  TokensStay
  <2>1. \/ UNCHANGED credential
        \/ credential' = [Unclaimed(credential) EXCEPT !.status = "revoked"]
        \/ credential' = [credential EXCEPT !.status = "revoked"]
    BY <1>8 DEF RevokeProviderCredential, RevokeResourceAuthorizationsByConnector,
       RevokeConnection
  <2> QED BY <1>1, <2>1, UnclaimedFields DEF Credential, TokensStay
<1>9. ASSUME NEW p \in Handler,
             CreateResourceAuthorization(p) \/ UpsertProviderCredential(p),
             ~UNCHANGED credential
      PROVE  work[p].pc \in Connecting /\ credential' = Stored(p)
  BY <1>9 DEF CreateResourceAuthorization, UpsertProviderCredential, At, Connecting
<1>10. CASE DeleteResource \/ \E t \in Token : Withdraw(t)
  BY <1>2, <1>10 DEF DeleteResource, Withdraw, rows
<1>11. ASSUME NEW p \in Handler,
              \/ ReadCredential(p) \/ PostRefresh(p) \/ PostRefused(p) \/ PostFails(p)
              \/ RevokeEmptyAuthorization(p) \/ Abandon(p)
              \/ \E t \in Token : ExchangeCode(p, t)
              \/ UpsertProviderConnection(p) \/ FindConnectionByProviderResource(p)
              \/ CheckAuthorization(p)
              \/ Disconnect(p) \/ LoadConnection(p) \/ PostRevocation(p)
              \/ FindActiveAuthorization(p) \/ RevokeProviderConnection(p)
              \/ ListResourceAuthorizations(p)
       PROVE  UNCHANGED credential
  BY <1>11 DEF ReadCredential, PostRefresh, PostRefused, PostFails, RevokeEmptyAuthorization,
     Abandon, ExchangeCode, UpsertProviderConnection, FindConnectionByProviderResource,
     CheckAuthorization, Disconnect, LoadConnection, PostRevocation,
     FindActiveAuthorization, RevokeProviderConnection, ListResourceAuthorizations, rows
<1>12. CASE UNCHANGED vars
  BY <1>2, <1>12 DEF vars
<1>13. ASSUME NEW p \in Handler, Refresh(p) \/ Connect(p) \/ TakeAway(p) \/ Abandon(p)
       PROVE  \/ TokensStay
              \/ credential.status = "active" /\ credential'.claim = None
              \/ work[p].pc \in Connecting /\ credential' = Stored(p)
  <2>1. CASE Refresh(p) \/ Abandon(p)
    BY <1>2, <1>5, <1>6, <1>7, <1>8, <1>11, <2>1 DEF Refresh
  <2>2. CASE Connect(p)
    BY <1>2, <1>9, <1>11, <2>2 DEF Connect
  <2>3. CASE TakeAway(p)
    BY <1>2, <1>8, <1>11, <2>3 DEF TakeAway
  <2> QED BY <1>13, <2>1, <2>2, <2>3
<1> QED BY <1>3, <1>4, <1>10, <1>12, <1>13 DEF Next

-----------------------------------------------------------------------------
(* Theorems *)

LEMMA InitInductive == Init => Inductive
<1> SUFFICES ASSUME Init PROVE Inductive
  OBVIOUS
<1>1. /\ credential = NoCredential /\ NoCredential \in Credential
      /\ credential.status = "none" /\ credential.token = None
  BY VersionAssumption, ClaimAssumption DEF Init, NoCredential, Credential, Status
<1>2. \A p \in Handler : work[p] = Idle
  BY DEF Init
<1>3. TypeOK
  BY <1>1, IdleFields DEF Init, TypeOK, Status, ProviderToken
<1>4. HandlersOK
  BY <1>2, IdleFields DEF HandlersOK, Rowed, Refreshing
<1>5. RowsOK /\ ConsentsOK /\ CredentialIsBacked /\ ErasedStaysRevoked
  BY <1>1 DEF Init, RowsOK, ConsentsOK, CredentialIsBacked, ErasedStaysRevoked
<1>6. TokensOK
  BY <1>1, <1>2, IdleFields DEF TokensOK, Connecting
<1>7. ClaimsOK
  BY <1>2, IdleFields DEF ClaimsOK, Claiming
<1> QED BY <1>3, <1>4, <1>5, <1>6, <1>7 DEF Inductive

LEMMA NextInductive ==
  ASSUME Inductive, [Next]_vars
  PROVE  Inductive'
<1>1. CASE Tick \/ ExpireAccessToken \/ DeleteResource \/ EraseAccount
  BY <1>1, TickStep, ExpireAccessTokenStep, DeleteResourceStep, EraseAccountStep
<1>2. ASSUME NEW t \in Token, Withdraw(t) PROVE Inductive'
  BY <1>2, WithdrawStep
<1>3. ASSUME NEW p \in Handler, Refresh(p) PROVE Inductive'
  BY <1>3, ReadCredentialStep, ClaimStep, PostRefreshStep, PostRefusedStep, PostFailsStep,
     CompleteStep, ReleaseStep, RevokeProviderCredentialStep, RevokeEmptyAuthorizationStep
     DEF Refresh
<1>4. ASSUME NEW p \in Handler, Connect(p) PROVE Inductive'
  BY <1>4, ExchangeCodeStep, UpsertConnectionStep, FindConnectionStep, CreateStep,
     CheckAuthorizationStep, UpsertCredentialStep DEF Connect
<1>5. ASSUME NEW p \in Handler, TakeAway(p) PROVE Inductive'
  BY <1>5, DisconnectStep, LoadConnectionStep, PostRevocationStep,
     FindActiveAuthorizationStep, RevokeConnectionStep, RevokeProviderConnectionStep,
     ListResourceAuthorizationsStep, RevokeByConnectorStep DEF TakeAway
<1>6. ASSUME NEW p \in Handler, Abandon(p) PROVE Inductive'
  BY <1>6, FinishStep DEF Abandon
<1>7. CASE UNCHANGED vars
  BY <1>7 DEF vars, Inductive, TypeOK, HandlersOK, RowsOK, TokensOK, ConsentsOK, ClaimsOK,
     CredentialIsBacked, ErasedStaysRevoked, Reconsented, Claiming, Issued, Consented
<1> QED BY <1>1, <1>2, <1>3, <1>4, <1>5, <1>6, <1>7 DEF Next

\* What every handler in flight may rely on, the link between the rows, the
\* whereabouts of each consent's token and the uniqueness of a running claim.
THEOREM CredentialInvariant == Spec => []Inductive
<1> QED BY InitInductive, NextInductive, PTL DEF Spec

\* Every row and every handler's record keeps its type.
THEOREM CredentialTypeCorrect == Spec => []TypeOK
<1>1. Inductive => TypeOK
  BY DEF Inductive
<1> QED BY <1>1, CredentialInvariant, PTL

\* As long as the owner consented once, no refresh token is presented under two
\* running claims, however many refreshes overlap.
THEOREM OneRefreshPerClaimHolds == Spec => []OneRefreshPerClaim
<1>1. ASSUME Inductive PROVE OneRefreshPerClaim
  <2> SUFFICES ASSUME NEW p \in Handler, NEW q \in Handler, p # q, At(p, "post"),
                      At(q, "post"), work[p].left # 0, work[q].left # 0
               PROVE  Reconsented
    BY DEF OneRefreshPerClaim
  <2>1. work[p].left \in Nat /\ work[q].left \in Nat
    BY <1>1, ClaimAssumption DEF Inductive, TypeOK, Work
  <2>2. Claiming(p) /\ Claiming(q)
    BY <2>1 DEF Claiming, At
  <2> QED BY <1>1, <2>2 DEF Inductive, ClaimsOK
<1> QED BY <1>1, CredentialInvariant, PTL

\* While the Resource Server exists, an active credential has its active
\* authorization.
THEOREM CredentialIsBackedHolds == Spec => []CredentialIsBacked
<1>1. Inductive => CredentialIsBacked
  BY DEF Inductive
<1> QED BY <1>1, CredentialInvariant, PTL

\* An erased account owns nothing active, whatever was under way.
THEOREM ErasedStaysRevokedHolds == Spec => []ErasedStaysRevoked
<1>1. Inductive => ErasedStaysRevoked
  BY DEF Inductive
<1> QED BY <1>1, CredentialInvariant, PTL

\* While a claim stands the tokens it was taken for stand, and what replaces them
\* ends it (upsertProviderCredential).
THEOREM ClaimCoversTokensHolds == Spec => ClaimCoversTokens
<1> DEFINE Covered ==
      credential.claim # None /\ credential'.claim = credential.claim
      => credential'.token = credential.token /\ credential'.version = credential.version
<1>1. ASSUME Inductive, [Next]_vars PROVE Covered
  <2>1. \A p \in Handler : Stored(p).claim = None
    BY DEF Stored, NoCredential
  <2> QED BY <1>1, <2>1, CredentialWrites DEF TokensStay
<1>2. Inductive /\ [Next]_vars => [Covered]_vars
  BY <1>1
<1> QED BY <1>2, CredentialInvariant, PTL DEF Spec, ClaimCoversTokens

\* A revoked credential keeps its tokens until a consent replaces them.
THEOREM RevokedUntilConsentHolds == Spec => RevokedUntilConsent
<1> DEFINE Kept ==
      /\ credential.status = "revoked"
      /\ credential'.status # "revoked" \/ credential'.token # credential.token
      => /\ credential'.status = "active"
         /\ credential'.token # credential.token
         /\ provider[credential'.token].from = "consent"
<1>1. ASSUME Inductive, [Next]_vars PROVE Kept
  <2> SUFFICES ASSUME credential.status = "revoked",
                      credential'.status # "revoked" \/ credential'.token # credential.token
               PROVE  /\ credential'.status = "active"
                      /\ credential'.token # credential.token
                      /\ provider[credential'.token].from = "consent"
    OBVIOUS
  <2>1. ~TokensStay
    BY DEF TokensStay
  <2>2. PICK p \in Handler : work[p].pc \in Connecting /\ credential' = Stored(p)
    BY <1>1, <2>1, CredentialWrites
  <2>3. Stored(p).status = "active" /\ Stored(p).token = work[p].new
    BY DEF Stored, NoCredential
  <2>4. work[p].new # credential.token /\ Consented(provider, work[p].new)
    BY <1>1, <2>2 DEF Inductive, TokensOK
  <2> QED BY <2>2, <2>3, <2>4 DEF Consented
<1>2. Inductive /\ [Next]_vars => [Kept]_vars
  BY <1>1
<1> QED BY <1>2, CredentialInvariant, PTL DEF Spec, RevokedUntilConsent
=============================================================================
