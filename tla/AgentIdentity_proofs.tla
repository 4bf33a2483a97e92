------------------------ MODULE AgentIdentity_proofs ------------------------
(***************************************************************************)
(* Proofs about AgentIdentity, for any number of Agents, hosts, intents,   *)
(* keys and handlers: hosts and names keep their Agent, what was deleted   *)
(* or erased stays so, enrollments are whole and replays agree.            *)
(***************************************************************************)
EXTENDS AgentIdentity, TLAPS

-----------------------------------------------------------------------------
(* The inductive invariant *)

Enrolling == {"login", "intent", "more", "approve", "create", "claim", "migrate"}
Ending == {"recover", "deactivate", "delete"}

\* The operations that run through a program counter, and what a handler's
\* record holds for each of them.
Shape(w) ==
  /\ w.pc = "enroll" => w.op \in {"login", "intent", "more", "approve"}
  /\ w.pc = "target" => w.op = "approve" /\ w.of \in Identity
  /\ w.pc = "name" => w.op \in {"login", "intent", "create", "claim"}
  /\ w.pc = "migrate" => w.op = "migrate"
  /\ w.pc \in {"install", "reserve", "raced", "answer"} => w.op = "create"
  /\ w.pc = "write" => w.op \in Enrolling
  /\ w.pc = "end" => w.op \in Ending
  /\ w.pc \in {"reserve", "answer", "unbind", "end", "activate"} => w.of \in Identity
  /\ w.pc = "unbind" => w.host \in Host
  /\ w.op \in Enrolling => w.host \in Host
  /\ w.op \in {"login", "intent", "create", "claim", "migrate"} => w.name \in Username
  /\ w.op \in {"intent", "more", "create", "migrate"} => w.key \in Key
  /\ w.op \in {"more", "claim"} => w.of \in Identity
  /\ w.op \in {"login", "intent", "migrate"} => w.of = None
  /\ w.op = "approve" => w.intent \in Intent /\ (w.of \in Identity \/ w.name \in Username)

\* What a handler knows about the rows, whatever ran since it read them.
Knows(w, gone, ids, bound, its, cs) ==
  /\ w.of # None => ids[w.of].status # "none"
  /\ w.op \in {"claim", "migrate"} => \E b \in bound : b.host = w.host
  /\ w.op = "approve" /\ ~gone =>
       /\ its[w.intent].status # "none" /\ its[w.intent].host = w.host
       /\ its[w.intent].of = w.of
  /\ w.pc = "reserve" =>
       /\ ids[w.of].key = w.key
       /\ \E b \in bound : b.of = w.of /\ b.host = w.host
  /\ w.pc = "answer" /\ ~gone => cs[w.key].of = w.of

HandlersOK ==
  \A p \in Handler :
    Shape(proc[p]) /\ Knows(proc[p], erased, identity, binding, intent, creation)

\* A host has one row, of an Agent that exists.
BindingsOK ==
  /\ \A b, c \in binding : b.host = c.host => b = c
  /\ \A b \in binding : identity[b.of].status # "none"

\* An unused row is blank, and a name is one Agent's.
IdentitiesOK ==
  /\ \A i \in Identity :
       identity[i].status = "none" => identity[i].name = None /\ ~identity[i].deleted
  /\ \A i, j \in Identity :
       identity[i].name # None /\ identity[j].name = identity[i].name => i = j

\* An intent for an Agent is for one that exists.
IntentsOK ==
  \A n \in Intent :
    intent[n].status # "none" /\ intent[n].of # None => identity[intent[n].of].status # "none"

Inductive ==
  /\ TypeOK /\ HandlersOK /\ BindingsOK /\ IdentitiesOK /\ IntentsOK
  /\ DeletedStaysGone /\ ErasedOwnsNothing /\ EnrollmentIsWhole /\ ReplaysAgree

-----------------------------------------------------------------------------
(* How rows may change under the handlers *)

\* An Agent stays, with its name, once it has one.
IdentitiesEvolve ==
  \A i \in Identity :
    /\ identity[i].status # "none" =>
         identity'[i].status # "none" /\ identity'[i].key = identity[i].key
    /\ identity[i].name # None => identity'[i].name = identity[i].name

\* A host keeps its row, its Agent and, once it is revoked, that.
BindingsEvolve ==
  \A b \in binding :
    /\ \A c \in binding' : c.host = b.host => c.of = b.of
    /\ \E c \in binding' : c.host = b.host /\ c.of = b.of
    /\ b.status = "revoked" => \A c \in binding' : c.host = b.host => c.status = "revoked"

\* Until the account is erased, intents and reservations stay.
RecordsEvolve ==
  ~erased' =>
    /\ ~erased
    /\ \A n \in Intent : intent[n].status # "none" =>
         /\ intent'[n].status # "none" /\ intent'[n].host = intent[n].host
         /\ intent'[n].of = intent[n].of
    /\ \A k \in Key : creation[k].of # None => creation'[k] = creation[k]

Evolves == IdentitiesEvolve /\ BindingsEvolve /\ RecordsEvolve

LEMMA KnowsPreserved ==
  ASSUME TypeOK, Evolves, NEW w \in Work, Shape(w),
         Knows(w, erased, identity, binding, intent, creation)
  PROVE  Knows(w, erased', identity', binding', intent', creation')
<1>1. w.of # None => w.of \in Identity
  BY DEF Work
<1>2. w.of # None => identity'[w.of].status # "none"
  BY <1>1 DEF Evolves, IdentitiesEvolve, Knows
<1>3. w.op \in {"claim", "migrate"} => \E b \in binding' : b.host = w.host
  BY DEF Evolves, BindingsEvolve, Knows
<1>4. w.op = "approve" /\ ~erased' =>
        /\ intent'[w.intent].status # "none" /\ intent'[w.intent].host = w.host
        /\ intent'[w.intent].of = w.of
  BY DEF Evolves, RecordsEvolve, Knows, Shape
<1>5. w.pc = "reserve" =>
        /\ identity'[w.of].key = w.key
        /\ \E b \in binding' : b.of = w.of /\ b.host = w.host
  <2> SUFFICES ASSUME w.pc = "reserve"
               PROVE  /\ identity'[w.of].key = w.key
                      /\ \E b \in binding' : b.of = w.of /\ b.host = w.host
    OBVIOUS
  <2>1. w.of \in Identity /\ w.of # None
    BY NoneAssumption DEF Shape
  <2> QED BY <2>1 DEF Evolves, IdentitiesEvolve, BindingsEvolve, Knows
<1>6. w.pc = "answer" /\ ~erased' => creation'[w.key].of = w.of
  <2> SUFFICES ASSUME w.pc = "answer", ~erased' PROVE creation'[w.key].of = w.of
    OBVIOUS
  <2>1. w.of \in Identity /\ w.of # None /\ w.key \in Key
    BY NoneAssumption DEF Shape
  <2> QED BY <2>1 DEF Evolves, RecordsEvolve, Knows
<1> QED BY <1>2, <1>3, <1>4, <1>5, <1>6 DEF Knows

\* The handler p goes on with the record w, while the rows evolve.
LEMMA HandlersStep ==
  ASSUME Inductive, Evolves, NEW p \in Handler, NEW w \in Work, Goto(p, w), Shape(w),
         Knows(w, erased', identity', binding', intent', creation'),
         w.pc = "answer" => ~erased'
  PROVE  /\ proc' \in [Handler -> Work]
         /\ HandlersOK' /\ ReplaysAgree'
<1>1. /\ proc' \in [Handler -> Work]
      /\ proc'[p] = w
      /\ \A q \in Handler : q # p => proc'[q] = proc[q]
  BY DEF Goto, Inductive, TypeOK
<1>2. ASSUME NEW q \in Handler
      PROVE  Shape(proc'[q]) /\ Knows(proc'[q], erased', identity', binding', intent', creation')
  <2>1. CASE q = p
    BY <1>1, <2>1
  <2>2. CASE q # p
    <3>1. /\ proc[q] \in Work /\ Shape(proc[q])
          /\ Knows(proc[q], erased, identity, binding, intent, creation)
      BY DEF Inductive, TypeOK, HandlersOK
    <3>2. Knows(proc[q], erased', identity', binding', intent', creation')
      BY <3>1, KnowsPreserved DEF Inductive
    <3> QED BY <1>1, <2>2, <3>1, <3>2
  <2> QED BY <2>1, <2>2
<1>3. HandlersOK'
  BY <1>2 DEF HandlersOK
<1>4. ReplaysAgree'
  <2> SUFFICES ASSUME NEW q \in Handler, NEW r \in Handler,
                      proc'[q].pc = "answer", proc'[r].pc = "answer",
                      proc'[q].key = proc'[r].key
               PROVE  proc'[q].of = proc'[r].of
    BY DEF ReplaysAgree
  <2>1. CASE ~erased'
    BY <1>2, <2>1 DEF Knows
  <2>2. CASE erased'
    <3>1. q # p /\ r # p
      BY <1>1, <2>2
    <3> QED BY <1>1, <3>1 DEF Inductive, ReplaysAgree
  <2> QED BY <2>1, <2>2
<1> QED BY <1>1, <1>3, <1>4

LEMMA HandlersKept ==
  ASSUME Inductive, Evolves, proc' = proc
  PROVE  /\ proc' \in [Handler -> Work]
         /\ HandlersOK' /\ ReplaysAgree'
<1>1. ASSUME NEW q \in Handler
      PROVE  Knows(proc[q], erased', identity', binding', intent', creation')
  <2>1. /\ proc[q] \in Work /\ Shape(proc[q])
        /\ Knows(proc[q], erased, identity, binding, intent, creation)
    BY DEF Inductive, TypeOK, HandlersOK
  <2> QED BY <2>1, KnowsPreserved DEF Inductive
<1>2. HandlersOK'
  BY <1>1 DEF HandlersOK, Inductive
<1> QED BY <1>2 DEF Inductive, TypeOK, ReplaysAgree

LEMMA RowsKept ==
  ASSUME Inductive, UNCHANGED rows
  PROVE  Evolves
BY DEF Inductive, rows, Evolves, IdentitiesEvolve, BindingsEvolve, RecordsEvolve, BindingsOK

\* The handler only reads, or gives up.
LEMMA QuietStep ==
  ASSUME Inductive, UNCHANGED rows, NEW p \in Handler, NEW w \in Work, Goto(p, w), Shape(w),
         Knows(w, erased, identity, binding, intent, creation),
         w.pc = "answer" => ~erased
  PROVE  Inductive' /\ Evolves
<1>1. UNCHANGED <<erased, agent, identity, binding, intent, creation>>
  BY DEF rows
<1>2. Evolves
  BY RowsKept
<1>3. proc' \in [Handler -> Work] /\ HandlersOK' /\ ReplaysAgree'
  BY <1>1, <1>2, HandlersStep
<1>4. TypeOK'
  BY <1>1, <1>3 DEF Inductive, TypeOK
<1>5. BindingsOK' /\ IdentitiesOK' /\ IntentsOK'
  BY <1>1 DEF Inductive, BindingsOK, IdentitiesOK, IntentsOK
<1>6. DeletedStaysGone' /\ ErasedOwnsNothing' /\ EnrollmentIsWhole'
  BY <1>1 DEF Inductive, DeletedStaysGone, ErasedOwnsNothing, EnrollmentIsWhole,
              ActiveHosts, Live, BindingsOf
<1> QED BY <1>2, <1>3, <1>4, <1>5, <1>6 DEF Inductive

LEMMA IdleFields ==
  /\ Idle \in Work /\ Idle.pc = "idle" /\ Idle.op = "none" /\ Idle.of = None
  /\ Shape(Idle) /\ Knows(Idle, erased, identity, binding, intent, creation)
  /\ Knows(Idle, erased', identity', binding', intent', creation')
BY DEF Idle, Work, Shape, Knows, Enrolling, Ending

LEMMA DoneStep ==
  ASSUME Inductive, UNCHANGED rows, NEW p \in Handler, Done(p)
  PROVE  Inductive' /\ Evolves
BY IdleFields, QuietStep DEF Done

-----------------------------------------------------------------------------
(* Handlers that read *)

LEMMA RequestIdentityStep ==
  ASSUME Inductive, NEW p \in Handler, NEW op \in {"login", "intent"}, NEW h \in Host,
         NEW u \in Username, NEW k \in Key \cup {None}, RequestIdentity(p, op, h, u, k)
  PROVE  Inductive' /\ Evolves
<1> DEFINE w == [Idle EXCEPT !.host = h, !.name = u, !.key = k]
<1>1. UNCHANGED rows /\ (op = "intent" => k \in Key)
  BY DEF RequestIdentity
<1>2. CASE Goto(p, [w EXCEPT !.pc = "enroll", !.op = op])
  <2> DEFINE v == [w EXCEPT !.pc = "enroll", !.op = op]
  <2>1. v \in Work /\ v.pc = "enroll" /\ v.of = None /\ v.op = op
    BY DEF Idle, Work
  <2>2. Shape(v)
    BY <1>1 DEF Idle, Shape, Enrolling
  <2>3. Knows(v, erased, identity, binding, intent, creation)
    BY <2>1 DEF Knows
  <2> QED BY <1>1, <1>2, <2>1, <2>2, <2>3, QuietStep
<1>3. ASSUME NEW i \in AgentOf(h), Goto(p, [w EXCEPT !.pc = "name", !.op = "claim", !.of = i])
      PROVE  Inductive' /\ Evolves
  <2> DEFINE v == [w EXCEPT !.pc = "name", !.op = "claim", !.of = i]
  <2>1. /\ i \in Identity /\ identity[i].status # "none"
        /\ \E b \in binding : b.host = h
    BY <1>3 DEF AgentOf, Live, Rows
  <2>2. v \in Work /\ v.pc = "name" /\ v.of = i /\ v.op = "claim" /\ v.host = h
    BY <2>1 DEF Idle, Work
  <2>3. Shape(v)
    BY <2>1 DEF Idle, Shape, Enrolling
  <2>4. Knows(v, erased, identity, binding, intent, creation)
    BY <2>1, <2>2 DEF Knows
  <2> QED BY <1>1, <1>3, <2>2, <2>3, <2>4, QuietStep
<1>4. ASSUME NEW i \in AgentOf(h), op = "intent",
             Goto(p, [w EXCEPT !.pc = "migrate", !.op = "migrate"])
      PROVE  Inductive' /\ Evolves
  <2> DEFINE v == [w EXCEPT !.pc = "migrate", !.op = "migrate"]
  <2>1. \E b \in binding : b.host = h
    BY <1>4 DEF AgentOf, Rows
  <2>2. v \in Work /\ v.pc = "migrate" /\ v.of = None /\ v.op = "migrate" /\ v.host = h
    BY DEF Idle, Work
  <2>3. Shape(v)
    BY <1>1, <1>4 DEF Idle, Shape, Enrolling
  <2>4. Knows(v, erased, identity, binding, intent, creation)
    BY <2>1, <2>2 DEF Knows
  <2> QED BY <1>1, <1>4, <2>2, <2>3, <2>4, QuietStep
<1> QED BY <1>2, <1>3, <1>4 DEF RequestIdentity

LEMMA RequestInstallationStep ==
  ASSUME Inductive, NEW p \in Handler, NEW h \in Host, NEW i \in Identity, NEW k \in Key,
         RequestInstallation(p, h, i, k)
  PROVE  Inductive' /\ Evolves
<1> DEFINE v == [Idle EXCEPT !.pc = "enroll", !.op = "more", !.host = h, !.of = i, !.key = k]
<1>1. v \in Work /\ v.pc = "enroll" /\ v.of = i /\ v.op = "more"
  BY DEF Idle, Work
<1>2. Shape(v)
  BY DEF Idle, Shape, Enrolling
<1>3. Knows(v, erased, identity, binding, intent, creation)
  BY <1>1 DEF Knows, RequestInstallation, Live
<1> QED BY <1>1, <1>2, <1>3, QuietStep DEF RequestInstallation

LEMMA RequestApprovalStep ==
  ASSUME Inductive, NEW p \in Handler, NEW n \in Intent, RequestApproval(p, n)
  PROVE  Inductive' /\ Evolves
<1> DEFINE r == intent[n]
           v == [Idle EXCEPT !.pc = "enroll", !.op = "approve", !.host = r.host,
                             !.of = r.of, !.name = r.name, !.intent = n]
<1>1. /\ r.status = "pending" /\ r \in EnrollmentIntent
      /\ r.host \in Host /\ (r.of \in Identity \/ r.name \in Username)
      /\ r.of # None => identity[r.of].status # "none"
  BY DEF RequestApproval, Inductive, TypeOK, IntentsOK
<1>2. /\ v \in Work /\ v.pc = "enroll" /\ v.of = r.of /\ v.op = "approve"
      /\ v.host = r.host /\ v.intent = n
  BY <1>1 DEF Idle, Work, EnrollmentIntent
<1>3. Shape(v)
  BY <1>1 DEF Idle, Shape, Enrolling
<1>4. Knows(v, erased, identity, binding, intent, creation)
  BY <1>1, <1>2 DEF Knows
<1> QED BY <1>2, <1>3, <1>4, QuietStep DEF RequestApproval

LEMMA ReplayStep ==
  ASSUME Inductive, UNCHANGED rows, NEW p \in Handler, NEW w \in Work, w.op = "create",
         w.host \in Host, w.name \in Username, w.key \in Key,
         creation[w.key].of # None, Replay(p, w)
  PROVE  Inductive' /\ Evolves
<1> DEFINE c == creation[w.key]
           v == [w EXCEPT !.pc = "answer", !.of = c.of]
<1>1. c.of \in Identity
  BY DEF Inductive, TypeOK, Creation
<1>2. CASE Live(c.of) /\ Goto(p, v)
  <2>1. /\ v \in Work /\ v.pc = "answer" /\ v.of = c.of /\ v.op = "create"
        /\ v.key = w.key /\ v.host = w.host /\ v.name = w.name
    BY <1>1 DEF Work
  <2>2. Shape(v)
    BY <1>1, <2>1 DEF Shape, Enrolling
  <2>3. Knows(v, erased, identity, binding, intent, creation)
    BY <1>2, <2>1 DEF Knows, Live
  <2>4. ~erased
    BY <1>1, <1>2 DEF Inductive, ErasedOwnsNothing
  <2> QED BY <1>2, <2>1, <2>2, <2>3, <2>4, QuietStep
<1>3. CASE Done(p)
  BY <1>3, DoneStep
<1> QED BY <1>2, <1>3 DEF Replay

LEMMA RequestAgentStep ==
  ASSUME Inductive, NEW p \in Handler, NEW h \in Host, NEW u \in Username, NEW k \in Key,
         RequestAgent(p, h, u, k)
  PROVE  Inductive' /\ Evolves
<1> DEFINE w == [Idle EXCEPT !.op = "create", !.host = h, !.name = u, !.key = k]
<1>1. /\ w \in Work /\ w.op = "create" /\ w.host = h /\ w.name = u /\ w.key = k
      /\ w.of = None
  BY DEF Idle, Work
<1>2. CASE creation[k].of # None /\ Replay(p, w)
  BY <1>1, <1>2, ReplayStep DEF RequestAgent
<1>3. CASE Goto(p, [w EXCEPT !.pc = "install"])
  <2> DEFINE v == [w EXCEPT !.pc = "install"]
  <2>1. v \in Work /\ v.pc = "install" /\ v.of = None /\ v.op = "create"
    BY DEF Idle, Work
  <2>2. Shape(v)
    BY DEF Idle, Shape, Enrolling
  <2>3. Knows(v, erased, identity, binding, intent, creation)
    BY <2>1 DEF Knows
  <2> QED BY <1>3, <2>1, <2>2, <2>3, QuietStep DEF RequestAgent
<1>4. ASSUME NEW i \in LegacyAgent(k), Matches(i, h, u),
             Goto(p, [w EXCEPT !.pc = "reserve", !.of = i])
      PROVE  Inductive' /\ Evolves
  <2> DEFINE v == [w EXCEPT !.pc = "reserve", !.of = i]
  <2>1. /\ i \in Identity /\ identity[i].status # "none" /\ identity[i].key = k
        /\ \E b \in binding : b.of = i /\ b.host = h
    BY <1>4 DEF LegacyAgent, Live, Matches, ActiveHosts
  <2>2. /\ v \in Work /\ v.pc = "reserve" /\ v.of = i /\ v.op = "create" /\ v.host = h
        /\ v.key = k
    BY <2>1 DEF Idle, Work
  <2>3. Shape(v)
    BY <2>1 DEF Idle, Shape, Enrolling
  <2>4. Knows(v, erased, identity, binding, intent, creation)
    BY <2>1, <2>2 DEF Knows
  <2> QED BY <1>4, <2>2, <2>3, <2>4, QuietStep DEF RequestAgent
<1> QED BY <1>2, <1>3, <1>4 DEF RequestAgent

LEMMA RevokeHostStep ==
  ASSUME Inductive, NEW p \in Handler, NEW h \in Host, NEW i \in Identity,
         RevokeHost(p, h, i)
  PROVE  Inductive' /\ Evolves
<1> DEFINE v == [Idle EXCEPT !.pc = "unbind", !.host = h, !.of = i]
<1>1. v \in Work /\ v.pc = "unbind" /\ v.of = i /\ v.op = "none"
  BY DEF Idle, Work
<1>2. Shape(v)
  BY DEF Idle, Shape, Enrolling
<1>3. Knows(v, erased, identity, binding, intent, creation)
  BY <1>1 DEF Knows, RevokeHost, Live
<1> QED BY <1>1, <1>2, <1>3, QuietStep DEF RevokeHost

LEMMA RequestEndStep ==
  ASSUME Inductive, NEW p \in Handler, NEW i \in Identity, NEW op \in Ending,
         RequestEnd(p, i, op)
  PROVE  Inductive' /\ Evolves
<1> DEFINE hs == IF op = "deactivate" THEN {} ELSE ActiveHosts(i)
           v == [Idle EXCEPT !.pc = "end", !.op = op, !.of = i, !.hosts = hs]
<1>1. hs \subseteq Host
  BY DEF ActiveHosts, Inductive, TypeOK, Binding
<1>2. v \in Work /\ v.pc = "end" /\ v.of = i /\ v.op = op
  BY <1>1 DEF Idle, Work, Ending
<1>3. Shape(v)
  BY DEF Idle, Shape, Enrolling, Ending
<1>4. Knows(v, erased, identity, binding, intent, creation)
  BY <1>2 DEF Knows, RequestEnd, Live, Ending
<1> QED BY <1>2, <1>3, <1>4, QuietStep DEF RequestEnd

LEMMA RequestActivationStep ==
  ASSUME Inductive, NEW p \in Handler, NEW i \in Identity, RequestActivation(p, i)
  PROVE  Inductive' /\ Evolves
<1> DEFINE v == [Idle EXCEPT !.pc = "activate", !.of = i]
<1>1. v \in Work /\ v.pc = "activate" /\ v.of = i /\ v.op = "none"
  BY DEF Idle, Work
<1>2. Shape(v)
  BY DEF Idle, Shape, Enrolling
<1>3. Knows(v, erased, identity, binding, intent, creation)
  BY <1>1 DEF Knows, RequestActivation, Live
<1> QED BY <1>1, <1>2, <1>3, QuietStep DEF RequestActivation

\* A check lets the handler go on with the same request.
LEMMA OnwardStep ==
  ASSUME Inductive, UNCHANGED rows, NEW p \in Handler,
         NEW next \in {"target", "name", "write"}, Goto(p, [proc[p] EXCEPT !.pc = next]),
         next = "target" => proc[p].op = "approve" /\ proc[p].of \in Identity,
         next = "name" => proc[p].op \in {"login", "intent", "create", "claim"},
         next = "write" => proc[p].op \in Enrolling
  PROVE  Inductive' /\ Evolves
<1> DEFINE w == proc[p]
           v == [w EXCEPT !.pc = next]
<1>1. w \in Work /\ Shape(w) /\ Knows(w, erased, identity, binding, intent, creation)
  BY DEF Inductive, TypeOK, HandlersOK
<1>2. /\ v \in Work /\ v.pc = next /\ v.op = w.op /\ v.host = w.host /\ v.of = w.of
      /\ v.name = w.name /\ v.key = w.key /\ v.intent = w.intent
  BY <1>1 DEF Work
<1> HIDE DEF w, v
<1>3. Shape(v)
  BY <1>1, <1>2 DEF Shape, w
<1>4. Knows(v, erased, identity, binding, intent, creation)
  BY <1>1, <1>2 DEF Knows
<1> QED BY <1>2, <1>3, <1>4, QuietStep DEF w, v

LEMMA CheckStep ==
  ASSUME Inductive, NEW p \in Handler,
         \/ CheckHost(p) \/ CheckTarget(p) \/ CheckInstallation(p) \/ CheckName(p)
         \/ CheckApproved(p)
  PROVE  Inductive' /\ Evolves
<1> DEFINE w == proc[p]
<1>1. w \in Work /\ Shape(w)
  BY DEF Inductive, TypeOK, HandlersOK
<1>2. CASE CheckHost(p)
  <2> DEFINE next == CASE w.op \in {"login", "intent"} -> "name"
                       [] w.op = "more" -> "write"
                       [] OTHER -> IF w.of = None THEN "write" ELSE "target"
  <2>1. w.op \in {"login", "intent", "more", "approve"} /\ UNCHANGED rows
    BY <1>1, <1>2 DEF CheckHost, Shape
  <2>2. /\ next \in {"target", "name", "write"}
        /\ next = "target" => w.op = "approve" /\ w.of \in Identity
        /\ next = "name" => w.op \in {"login", "intent", "create", "claim"}
        /\ next = "write" => w.op \in Enrolling
    BY <1>1, <2>1 DEF Enrolling, Work
  <2>3. Goto(p, [w EXCEPT !.pc = next]) \/ Done(p)
    BY <1>2 DEF CheckHost
  <2> HIDE DEF next
  <2> QED BY <2>1, <2>2, <2>3, OnwardStep, DoneStep
<1>3. CASE CheckTarget(p)
  <2>1. w.op \in Enrolling /\ UNCHANGED rows
    BY <1>1, <1>3 DEF CheckTarget, Shape, Enrolling
  <2> QED BY <1>3, <2>1, OnwardStep, DoneStep DEF CheckTarget
<1>4. CASE CheckInstallation(p)
  <2>1. w.op = "create" /\ UNCHANGED rows
    BY <1>1, <1>4 DEF CheckInstallation, Shape
  <2> QED BY <1>4, <2>1, OnwardStep, DoneStep DEF CheckInstallation
<1>5. CASE CheckName(p)
  <2>1. w.op \in Enrolling /\ UNCHANGED rows
    BY <1>1, <1>5 DEF CheckName, Shape, Enrolling
  <2> QED BY <1>5, <2>1, OnwardStep, DoneStep DEF CheckName
<1>6. CASE CheckApproved(p)
  <2>1. w.op \in Enrolling /\ UNCHANGED rows
    BY <1>1, <1>6 DEF CheckApproved, Shape, Enrolling
  <2> QED BY <1>6, <2>1, OnwardStep, DoneStep DEF CheckApproved
<1> QED BY <1>2, <1>3, <1>4, <1>5, <1>6

LEMMA ReplayRacedStep ==
  ASSUME Inductive, NEW p \in Handler, ReplayRaced(p)
  PROVE  Inductive' /\ Evolves
<1> DEFINE w == proc[p]
<1>1. /\ w \in Work /\ w.op = "create" /\ w.host \in Host /\ w.name \in Username
      /\ w.key \in Key /\ UNCHANGED rows
  BY DEF Inductive, TypeOK, HandlersOK, ReplayRaced, Shape, Enrolling
<1>2. CASE creation[w.key].of # None /\ Replay(p, w)
  BY <1>1, <1>2, ReplayStep
<1>3. CASE Done(p)
  BY <1>1, <1>3, DoneStep
<1> QED BY <1>2, <1>3 DEF ReplayRaced

-----------------------------------------------------------------------------
(* Handlers that write *)

RowTypes ==
  /\ erased \in BOOLEAN
  /\ agent \in [Host -> {"none", "active", "revoked"}]
  /\ identity \in [Identity -> IdentityRow]
  /\ binding \subseteq Binding
  /\ intent \in [Intent -> EnrollmentIntent]
  /\ creation \in [Key -> Creation]
  /\ \A n \in Intent : intent[n].status # "none" =>
       intent[n].host \in Host /\ (intent[n].of \in Identity \/ intent[n].name \in Username)

\* What Inductive says of the rows alone.
RowsOK ==
  /\ RowTypes /\ BindingsOK /\ IdentitiesOK /\ IntentsOK
  /\ DeletedStaysGone /\ ErasedOwnsNothing /\ EnrollmentIsWhole

LEMMA RowsOfInductive == Inductive => RowsOK
BY DEF Inductive, RowsOK, RowTypes, TypeOK

LEMMA WriteStep ==
  ASSUME Inductive, Evolves, RowsOK', NEW p \in Handler, NEW w \in Work, Goto(p, w),
         Shape(w), Knows(w, erased', identity', binding', intent', creation'),
         w.pc = "answer" => ~erased'
  PROVE  Inductive'
<1>1. proc' \in [Handler -> Work] /\ HandlersOK' /\ ReplaysAgree'
  BY HandlersStep
<1>2. TypeOK'
  BY <1>1 DEF RowsOK, RowTypes, TypeOK
<1> QED BY <1>1, <1>2 DEF RowsOK, Inductive

LEMMA WriteDone ==
  ASSUME Inductive, Evolves, RowsOK', NEW p \in Handler, Done(p)
  PROVE  Inductive'
<1>1. Idle.pc # "answer"
  BY IdleFields
<1> QED BY <1>1, IdleFields, WriteStep DEF Done

LEMMA WriteKept ==
  ASSUME Inductive, Evolves, RowsOK', proc' = proc
  PROVE  Inductive'
<1>1. proc' \in [Handler -> Work] /\ HandlersOK' /\ ReplaysAgree'
  BY HandlersKept
<1>2. TypeOK'
  BY <1>1 DEF RowsOK, RowTypes, TypeOK
<1> QED BY <1>1, <1>2 DEF RowsOK, Inductive

\* A binding is inserted.
LEMMA BoundRows ==
  ASSUME RowsOK, NEW h \in Host, NEW i \in Identity, Rows(h) = {}, binding' = Bound(h, i)
  PROVE  /\ binding' \subseteq Binding /\ binding \subseteq binding'
         /\ BindingsEvolve
         /\ \A b, c \in binding' : b.host = c.host => b = c
         /\ \E b \in binding' : b.host = h /\ b.of = i
         /\ \A b \in binding' : b \in binding \/ b.of = i
<1> DEFINE new == [host |-> h, of |-> i, status |-> "active"]
<1>1. binding' = binding \cup {new} /\ new \in Binding /\ new.host = h /\ new.of = i
  BY DEF Bound, Binding
<1>2. \A b \in binding : b.host # h
  BY DEF Rows
<1> HIDE DEF new
<1>3. \A b, c \in binding' : b.host = c.host => b = c
  BY <1>1, <1>2 DEF RowsOK, BindingsOK
<1>4. BindingsEvolve
  BY <1>1, <1>2, <1>3 DEF BindingsEvolve, RowsOK, BindingsOK
<1>5. binding' \subseteq Binding
  BY <1>1 DEF RowsOK, RowTypes
<1> QED BY <1>1, <1>3, <1>4, <1>5

\* Bindings are revoked.
LEMMA UnboundRows ==
  ASSUME RowsOK, NEW B \in SUBSET binding, binding' = Unbound(B)
  PROVE  /\ binding' \subseteq Binding
         /\ BindingsEvolve
         /\ \A b, c \in binding' : b.host = c.host => b = c
         /\ \A c \in binding' : \E b \in binding : b.host = c.host /\ b.of = c.of
         /\ \A c \in binding' : c.status = "active" => c \in binding \ B
<1> DEFINE gone(b) == [b EXCEPT !.status = "revoked"]
<1>1. binding' = (binding \ B) \cup {gone(b) : b \in B}
  BY DEF Unbound
<1>2. \A b \in binding :
        /\ gone(b) \in Binding /\ gone(b).host = b.host /\ gone(b).of = b.of
        /\ gone(b).status = "revoked"
  BY DEF RowsOK, RowTypes, Binding
<1> HIDE DEF gone
<1>3. binding' \subseteq Binding
  BY <1>1, <1>2 DEF RowsOK, RowTypes
<1>4. \A c \in binding' :
        \/ c \in binding \ B
        \/ \E b \in B : c = gone(b) /\ b.host = c.host /\ b.of = c.of /\ c.status = "revoked"
  BY <1>1, <1>2
<1>5. \A b, c \in binding' : b.host = c.host => b = c
  <2> SUFFICES ASSUME NEW b \in binding', NEW c \in binding', b.host = c.host PROVE b = c
    OBVIOUS
  <2>1. \A d, e \in binding : d.host = e.host => d = e
    BY DEF RowsOK, BindingsOK
  <2> QED BY <1>4, <2>1
<1>6. \A b \in binding : \E c \in binding' :
        /\ c.host = b.host /\ c.of = b.of /\ (b.status = "revoked" => c.status = "revoked")
  <2> SUFFICES ASSUME NEW b \in binding
               PROVE  \E c \in binding' :
                        /\ c.host = b.host /\ c.of = b.of
                        /\ b.status = "revoked" => c.status = "revoked"
    OBVIOUS
  <2>1. CASE b \in B
    <3>1. gone(b) \in binding'
      BY <1>1, <2>1
    <3> QED BY <1>2, <3>1
  <2>2. CASE b \notin B
    <3>1. b \in binding'
      BY <1>1, <2>2
    <3> QED BY <3>1
  <2> QED BY <2>1, <2>2
<1>7. BindingsEvolve
  BY <1>5, <1>6 DEF BindingsEvolve
<1>8. \A c \in binding' : \E b \in binding : b.host = c.host /\ b.of = c.of
  BY <1>4
<1>9. \A c \in binding' : c.status = "active" => c \in binding \ B
  BY <1>4
<1> QED BY <1>3, <1>5, <1>7, <1>8, <1>9

\* An Agent is inserted with its binding.
LEMMA EnrolledRows ==
  ASSUME RowsOK, NEW i \in Identity, NEW h \in Host, NEW u \in Username, Enrolled(i, h, u)
  PROVE  /\ ~erased
         /\ identity' \in [Identity -> IdentityRow] /\ binding' \subseteq Binding
         /\ IdentitiesEvolve /\ BindingsEvolve
         /\ BindingsOK' /\ IdentitiesOK' /\ DeletedStaysGone'
         /\ \A j \in Identity : identity[j].status # "none" \/ j = i \/ identity'[j] = identity[j]
         /\ identity'[i].status # "none"
         /\ \E b \in binding' : b.host = h /\ b.of = i
<1>1. /\ identity[i].status = "none" /\ ~erased /\ NameFree(u) /\ Rows(h) = {}
      /\ ~identity[i].deleted
      /\ identity' = [identity EXCEPT ![i] = NewIdentity(u)] /\ binding' = Bound(h, i)
  BY DEF Enrolled, Insertable, Bindable
<1>2. /\ NewIdentity(u) \in IdentityRow /\ NewIdentity(u).status = "active"
      /\ NewIdentity(u).name = u /\ ~NewIdentity(u).deleted
  BY DEF NewIdentity, NoIdentity, IdentityRow
<1>3. /\ identity' \in [Identity -> IdentityRow] /\ identity'[i] = NewIdentity(u)
      /\ \A j \in Identity : j # i => identity'[j] = identity[j]
  BY <1>1, <1>2 DEF RowsOK, RowTypes
<1>4. identity[i].name = None
  BY <1>1 DEF RowsOK, IdentitiesOK
<1>5. IdentitiesEvolve
  BY <1>1, <1>3, <1>4 DEF IdentitiesEvolve
<1>6. /\ binding' \subseteq Binding /\ binding \subseteq binding' /\ BindingsEvolve
      /\ \A b, c \in binding' : b.host = c.host => b = c
      /\ \E b \in binding' : b.host = h /\ b.of = i
      /\ \A b \in binding' : b \in binding \/ b.of = i
  BY <1>1, BoundRows
<1>7. BindingsOK'
  <2>1. \A b \in binding' : identity'[b.of].status # "none"
    <3> SUFFICES ASSUME NEW b \in binding' PROVE identity'[b.of].status # "none"
      OBVIOUS
    <3>1. CASE b.of = i
      BY <1>2, <1>3, <3>1
    <3>2. CASE b \in binding /\ b.of # i
      BY <1>3, <3>2 DEF RowsOK, RowTypes, BindingsOK, Binding
    <3> QED BY <1>6, <3>1, <3>2
  <2> QED BY <1>6, <2>1 DEF BindingsOK
<1>8. IdentitiesOK'
  <2>1. \A j \in Identity : identity'[j].status = "none" =>
          identity'[j].name = None /\ ~identity'[j].deleted
    BY <1>2, <1>3 DEF RowsOK, IdentitiesOK
  <2>2. \A j \in Identity : identity[j].name # u
    BY <1>1, NoneAssumption DEF NameFree, RowsOK, IdentitiesOK
  <2>3. \A j, k \in Identity :
          identity'[j].name # None /\ identity'[k].name = identity'[j].name => j = k
    BY <1>2, <1>3, <2>2 DEF RowsOK, IdentitiesOK
  <2> QED BY <2>1, <2>3 DEF IdentitiesOK
<1>9. DeletedStaysGone'
  <2> SUFFICES ASSUME NEW j \in Identity, identity'[j].deleted
               PROVE  /\ identity'[j].status = "inactive"
                      /\ \A b \in binding' : ~(b.of = j /\ b.status = "active")
    BY DEF DeletedStaysGone, ActiveHosts
  <2>1. j # i /\ identity[j].deleted
    BY <1>2, <1>3
  <2>2. identity[j].status = "inactive" /\ \A b \in binding : ~(b.of = j /\ b.status = "active")
    BY <2>1 DEF RowsOK, DeletedStaysGone, ActiveHosts
  <2> QED BY <1>3, <1>6, <2>1, <2>2
<1> QED BY <1>1, <1>2, <1>3, <1>5, <1>6, <1>7, <1>8, <1>9

\* Rows evolve: what was whole is, so the new parts of an enrollment decide.
LEMMA WholeKept ==
  ASSUME RowsOK, BindingsEvolve,
         \A n \in Intent : intent'[n].status = "approved" =>
           \/ /\ intent[n].status = "approved" /\ intent'[n].host = intent[n].host
              /\ intent'[n].of = intent[n].of
           \/ \E b \in binding' : b.host = intent'[n].host /\ intent'[n].of \in {None, b.of},
         \A i \in Identity : identity'[i].status # "none" =>
           identity[i].status # "none" \/ \E b \in binding' : b.of = i,
         \A k \in Key : creation'[k].of # None =>
           \/ creation'[k] = creation[k]
           \/ \E b \in binding' : b.of = creation'[k].of /\ b.host = creation'[k].host
  PROVE  EnrollmentIsWhole'
<1>1. \A b \in binding : \E c \in binding' : c.host = b.host /\ c.of = b.of
  BY DEF BindingsEvolve
<1>2. \A n \in Intent : intent'[n].status = "approved" =>
        \E b \in binding' : b.host = intent'[n].host /\ intent'[n].of \in {None, b.of}
  BY <1>1 DEF RowsOK, EnrollmentIsWhole
<1>3. \A i \in Identity : identity[i].status # "none" => \E b \in binding : b.of = i
  BY DEF RowsOK, EnrollmentIsWhole, BindingsOf
<1>4. \A i \in Identity : identity'[i].status # "none" => \E b \in binding' : b.of = i
  BY <1>1, <1>3
<1>5. \A k \in Key : creation'[k].of # None =>
        \E b \in binding' : b.of = creation'[k].of /\ b.host = creation'[k].host
  BY <1>1 DEF RowsOK, EnrollmentIsWhole
<1> QED BY <1>2, <1>4, <1>5 DEF EnrollmentIsWhole, BindingsOf

LEMMA HandlerFacts ==
  ASSUME Inductive, NEW p \in Handler
  PROVE  /\ proc[p] \in Work /\ Shape(proc[p])
         /\ Knows(proc[p], erased, identity, binding, intent, creation)
         /\ RowsOK
BY RowsOfInductive DEF Inductive, TypeOK, HandlersOK

LEMMA CreateIdentityStep ==
  ASSUME Inductive, NEW p \in Handler, CreateIdentity(p)
  PROVE  Inductive' /\ Evolves
<1> DEFINE w == proc[p]
<1>1. /\ w \in Work /\ Shape(w) /\ RowsOK /\ w.op = "login" /\ Done(p)
      /\ UNCHANGED <<erased, agent, intent, creation>>
  BY HandlerFacts DEF CreateIdentity
<1>2. w.host \in Host /\ w.name \in Username
  BY <1>1 DEF Shape, Enrolling
<1>3. ASSUME NEW i \in Identity, Enrolled(i, w.host, w.name)
      PROVE  Inductive' /\ Evolves
  <2>1. /\ ~erased /\ IdentitiesEvolve /\ BindingsEvolve
        /\ identity' \in [Identity -> IdentityRow] /\ binding' \subseteq Binding
        /\ BindingsOK' /\ IdentitiesOK' /\ DeletedStaysGone'
        /\ \A j \in Identity : identity[j].status # "none" \/ j = i \/ identity'[j] = identity[j]
        /\ \E b \in binding' : b.host = w.host /\ b.of = i
    BY <1>1, <1>2, <1>3, EnrolledRows
  <2>2. Evolves
    BY <1>1, <2>1 DEF Evolves, RecordsEvolve
  <2>3. RowTypes'
    BY <1>1, <2>1 DEF RowsOK, RowTypes
  <2>4. IntentsOK'
    BY <1>1, <2>1 DEF RowsOK, RowTypes, EnrollmentIntent, IntentsOK, IdentitiesEvolve
  <2>5. EnrollmentIsWhole'
    BY <1>1, <2>1, WholeKept
  <2>6. RowsOK'
    BY <1>1, <2>1, <2>3, <2>4, <2>5 DEF RowsOK, ErasedOwnsNothing
  <2> QED BY <1>1, <2>2, <2>6, WriteDone
<1>4. CASE UNCHANGED <<identity, binding>>
  BY <1>1, <1>4, DoneStep DEF rows
<1> QED BY <1>3, <1>4 DEF CreateIdentity

LEMMA InsertIntentStep ==
  ASSUME Inductive, NEW p \in Handler, InsertIntent(p)
  PROVE  Inductive' /\ Evolves
<1> DEFINE w == proc[p]
           r == IntentRow(w)
<1>1. /\ w \in Work /\ Shape(w) /\ RowsOK /\ Done(p)
      /\ Knows(w, erased, identity, binding, intent, creation)
      /\ w.op \in {"intent", "more", "migrate"}
      /\ UNCHANGED <<erased, agent, identity, binding, creation>>
  BY HandlerFacts DEF InsertIntent
<1>2. CASE UNCHANGED intent
  BY <1>1, <1>2, DoneStep DEF rows
<1>3. ASSUME NEW n \in Intent, intent[n].status = "none", intent' = [intent EXCEPT ![n] = r]
      PROVE  Inductive' /\ Evolves
  <2>1. /\ w.host \in Host /\ w.key \in Key /\ (w.of \in Identity \/ w.name \in Username)
        /\ w.op # "more" => w.of = None
    BY <1>1 DEF Shape, Enrolling
  <2>2. /\ r \in EnrollmentIntent /\ r.host = w.host /\ r.of = w.of /\ r.name = w.name
        /\ r.status = "approved" => w.op = "migrate"
    BY <1>1, <2>1 DEF IntentRow, EnrollmentIntent, Work
  <2> HIDE DEF r
  <2>3. /\ intent' \in [Intent -> EnrollmentIntent] /\ intent'[n] = r
        /\ \A m \in Intent : m # n => intent'[m] = intent[m]
    BY <1>1, <1>3, <2>2 DEF RowsOK, RowTypes
  <2>4. Evolves
    <3>1. IdentitiesEvolve /\ BindingsEvolve
      BY <1>1 DEF IdentitiesEvolve, BindingsEvolve, RowsOK, BindingsOK
    <3>2. RecordsEvolve
      BY <1>1, <1>3, <2>3 DEF RecordsEvolve
    <3> QED BY <3>1, <3>2 DEF Evolves
  <2>5. RowTypes'
    BY <1>1, <2>1, <2>2, <2>3 DEF RowsOK, RowTypes
  <2>6. IntentsOK'
    BY <1>1, <2>2, <2>3 DEF RowsOK, IntentsOK, Knows
  <2>7. EnrollmentIsWhole'
    <3>1. ASSUME NEW m \in Intent, intent'[m].status = "approved"
          PROVE  \/ /\ intent[m].status = "approved" /\ intent'[m].host = intent[m].host
                    /\ intent'[m].of = intent[m].of
                 \/ \E b \in binding' :
                      b.host = intent'[m].host /\ intent'[m].of \in {None, b.of}
      <4>1. CASE m = n
        BY <1>1, <2>1, <2>2, <2>3, <3>1, <4>1 DEF Knows
      <4>2. CASE m # n
        BY <2>3, <3>1, <4>2
      <4> QED BY <4>1, <4>2
    <3> QED BY <1>1, <2>4, <3>1, WholeKept DEF Evolves
  <2>8. RowsOK'
    BY <1>1, <2>5, <2>6, <2>7
       DEF RowsOK, BindingsOK, IdentitiesOK, DeletedStaysGone, ErasedOwnsNothing, ActiveHosts,
           Live
  <2> QED BY <1>1, <2>4, <2>8, WriteDone
<1> QED BY <1>2, <1>3 DEF InsertIntent

LEMMA ApprovedRows ==
  ASSUME RowsOK, NEW n \in Intent, intent' = Approved(n)
  PROVE  /\ intent' \in [Intent -> EnrollmentIntent]
         /\ \A m \in Intent :
              /\ intent'[m].host = intent[m].host /\ intent'[m].of = intent[m].of
              /\ intent'[m].name = intent[m].name
              /\ intent'[m].status = "none" <=> intent[m].status = "none"
              /\ m # n => intent'[m] = intent[m]
<1>1. intent \in [Intent -> EnrollmentIntent]
  BY DEF RowsOK, RowTypes
<1>2. \A m \in Intent : m # n => intent'[m] = intent[m]
  BY <1>1 DEF Approved
<1>3. /\ intent'[n] \in EnrollmentIntent
      /\ intent'[n].host = intent[n].host /\ intent'[n].of = intent[n].of
      /\ intent'[n].name = intent[n].name
      /\ intent'[n].status = "none" <=> intent[n].status = "none"
  BY <1>1 DEF Approved, EnrollmentIntent
<1>4. intent' \in [Intent -> EnrollmentIntent]
  BY <1>1, <1>3 DEF Approved
<1> QED BY <1>2, <1>3, <1>4

LEMMA ApproveIntentStep ==
  ASSUME Inductive, NEW p \in Handler, ApproveIntent(p)
  PROVE  Inductive' /\ Evolves
<1> DEFINE w == proc[p]
           n == w.intent
<1>1. /\ w \in Work /\ Shape(w) /\ RowsOK /\ w.op = "approve" /\ Done(p)
      /\ Knows(w, erased, identity, binding, intent, creation)
      /\ UNCHANGED <<erased, agent, creation>>
  BY HandlerFacts DEF ApproveIntent
<1>2. /\ w.host \in Host /\ n \in Intent
      /\ w.of \in Identity \/ (w.of = None /\ w.name \in Username)
  BY <1>1 DEF Shape, Enrolling, Work
<1>3. ASSUME ~erased, intent' = Approved(n), IdentitiesEvolve, BindingsEvolve,
             identity' \in [Identity -> IdentityRow], binding' \subseteq Binding,
             BindingsOK', IdentitiesOK', DeletedStaysGone',
             \A j \in Identity : identity'[j].status # "none" =>
               identity[j].status # "none" \/ \E b \in binding' : b.of = j,
             \E b \in binding' : b.host = w.host /\ w.of \in {None, b.of}
      PROVE  Inductive' /\ Evolves
  <2>1. /\ intent' \in [Intent -> EnrollmentIntent]
        /\ \A m \in Intent :
             /\ intent'[m].host = intent[m].host /\ intent'[m].of = intent[m].of
             /\ intent'[m].name = intent[m].name
             /\ intent'[m].status = "none" <=> intent[m].status = "none"
             /\ m # n => intent'[m] = intent[m]
    BY <1>1, <1>2, <1>3, ApprovedRows
  <2>2. Evolves
    BY <1>1, <1>3, <2>1 DEF Evolves, RecordsEvolve
  <2>3. RowTypes'
    BY <1>1, <1>3, <2>1 DEF RowsOK, RowTypes
  <2>4. IntentsOK'
    <3> SUFFICES ASSUME NEW m \in Intent, intent'[m].status # "none", intent'[m].of # None
                 PROVE  identity'[intent'[m].of].status # "none"
      BY DEF IntentsOK
    <3>1. intent'[m].of \in Identity
      BY <2>1 DEF EnrollmentIntent
    <3>2. identity[intent[m].of].status # "none"
      BY <1>1, <2>1 DEF RowsOK, IntentsOK
    <3> QED BY <1>3, <2>1, <3>1, <3>2 DEF IdentitiesEvolve
  <2>5. ASSUME NEW m \in Intent, intent'[m].status = "approved"
        PROVE  \/ /\ intent[m].status = "approved" /\ intent'[m].host = intent[m].host
                  /\ intent'[m].of = intent[m].of
               \/ \E b \in binding' :
                    b.host = intent'[m].host /\ intent'[m].of \in {None, b.of}
    <3>1. CASE m = n
      BY <1>1, <1>3, <2>1, <3>1 DEF Knows
    <3>2. CASE m # n
      BY <2>1, <2>5, <3>2
    <3> QED BY <3>1, <3>2
  <2>6. EnrollmentIsWhole'
    BY <1>1, <1>3, <2>5, WholeKept
  <2>7. RowsOK'
    BY <1>1, <1>3, <2>3, <2>4, <2>6 DEF RowsOK, ErasedOwnsNothing
  <2> QED BY <1>1, <2>2, <2>7, WriteDone
<1>4. ASSUME w.of = None, NEW i \in Identity, Enrolled(i, w.host, w.name), intent' = Approved(n)
      PROVE  Inductive' /\ Evolves
  <2>1. w.name \in Username
    BY <1>2, <1>4, NoneAssumption
  <2>2. /\ ~erased /\ IdentitiesEvolve /\ BindingsEvolve
        /\ identity' \in [Identity -> IdentityRow] /\ binding' \subseteq Binding
        /\ BindingsOK' /\ IdentitiesOK' /\ DeletedStaysGone'
        /\ \A j \in Identity : identity[j].status # "none" \/ j = i \/ identity'[j] = identity[j]
        /\ \E b \in binding' : b.host = w.host /\ b.of = i
    BY <1>1, <1>2, <1>4, <2>1, EnrolledRows
  <2> QED BY <1>3, <1>4, <2>2
<1>5. ASSUME w.of # None, Bindable(w.host, w.of), binding' = Bound(w.host, w.of),
             intent' = Approved(n), UNCHANGED identity
      PROVE  Inductive' /\ Evolves
  <2>1. w.of \in Identity /\ identity[w.of].status # "none" /\ ~identity[w.of].deleted
    BY <1>1, <1>2, <1>5 DEF Knows, Bindable
  <2>2. ~erased
    BY <1>1, <2>1 DEF RowsOK, ErasedOwnsNothing, Live
  <2>3. /\ binding' \subseteq Binding /\ BindingsEvolve
        /\ \A b, c \in binding' : b.host = c.host => b = c
        /\ \E b \in binding' : b.host = w.host /\ b.of = w.of
        /\ \A b \in binding' : b \in binding \/ b.of = w.of
    BY <1>1, <1>2, <1>5, <2>1, BoundRows DEF Bindable
  <2>4. BindingsOK' /\ IdentitiesOK' /\ IdentitiesEvolve
    BY <1>1, <1>5, <2>1, <2>3 DEF RowsOK, BindingsOK, IdentitiesOK, IdentitiesEvolve
  <2>5. DeletedStaysGone'
    <3> SUFFICES ASSUME NEW j \in Identity, identity[j].deleted
                 PROVE  /\ identity[j].status = "inactive"
                        /\ \A b \in binding' : ~(b.of = j /\ b.status = "active")
      BY <1>5 DEF DeletedStaysGone, ActiveHosts
    <3>1. identity[j].status = "inactive" /\ \A b \in binding : ~(b.of = j /\ b.status = "active")
      BY <1>1 DEF RowsOK, DeletedStaysGone, ActiveHosts
    <3> QED BY <2>1, <2>3, <3>1
  <2>6. identity' \in [Identity -> IdentityRow]
    BY <1>1, <1>5 DEF RowsOK, RowTypes
  <2> QED BY <1>3, <1>5, <2>2, <2>3, <2>4, <2>5, <2>6
<1>6. CASE UNCHANGED <<identity, binding, intent>>
  BY <1>1, <1>6, DoneStep DEF rows
<1> QED BY <1>4, <1>5, <1>6 DEF ApproveIntent

LEMMA InstallAgentStep ==
  ASSUME Inductive, NEW p \in Handler, InstallAgent(p)
  PROVE  Inductive' /\ Evolves
<1> DEFINE w == proc[p]
<1>1. /\ w \in Work /\ Shape(w) /\ RowsOK /\ w.op = "create"
      /\ Knows(w, erased, identity, binding, intent, creation)
      /\ UNCHANGED <<erased, intent>>
  BY HandlerFacts DEF InstallAgent
<1>2. w.host \in Host /\ w.name \in Username /\ w.key \in Key
  BY <1>1 DEF Shape, Enrolling
<1>3. ASSUME NEW i \in Identity, MayInstall(w), Enrolled(i, w.host, w.name),
             agent' = [agent EXCEPT ![w.host] = "active"],
             creation' = [creation EXCEPT ![w.key] =
                            [of |-> i, host |-> w.host, name |-> w.name]],
             Goto(p, [w EXCEPT !.pc = "answer", !.of = i])
      PROVE  Inductive' /\ Evolves
  <2> DEFINE v == [w EXCEPT !.pc = "answer", !.of = i]
             c == [of |-> i, host |-> w.host, name |-> w.name]
  <2>1. /\ ~erased /\ IdentitiesEvolve /\ BindingsEvolve
        /\ identity' \in [Identity -> IdentityRow] /\ binding' \subseteq Binding
        /\ BindingsOK' /\ IdentitiesOK' /\ DeletedStaysGone'
        /\ \A j \in Identity : identity[j].status # "none" \/ j = i \/ identity'[j] = identity[j]
        /\ identity'[i].status # "none"
        /\ \E b \in binding' : b.host = w.host /\ b.of = i
    BY <1>1, <1>2, <1>3, EnrolledRows
  <2>2. /\ creation' \in [Key -> Creation] /\ creation'[w.key] = c
        /\ \A k \in Key : k # w.key => creation'[k] = creation[k]
    BY <1>1, <1>2, <1>3 DEF RowsOK, RowTypes, Creation
  <2>3. creation[w.key].of = None
    BY <1>3 DEF MayInstall
  <2>4. Evolves
    BY <1>1, <2>1, <2>2, <2>3 DEF Evolves, RecordsEvolve
  <2>5. agent' \in [Host -> {"none", "active", "revoked"}]
    BY <1>1, <1>3 DEF RowsOK, RowTypes
  <2>6. RowTypes'
    BY <1>1, <2>1, <2>2, <2>5 DEF RowsOK, RowTypes
  <2>7. IntentsOK'
    BY <1>1, <2>1 DEF RowsOK, RowTypes, EnrollmentIntent, IntentsOK, IdentitiesEvolve
  <2>8. EnrollmentIsWhole'
    <3>1. \A k \in Key : creation'[k].of # None =>
            \/ creation'[k] = creation[k]
            \/ \E b \in binding' : b.of = creation'[k].of /\ b.host = creation'[k].host
      BY <2>1, <2>2
    <3> QED BY <1>1, <2>1, <3>1, WholeKept
  <2>9. RowsOK'
    BY <1>1, <2>1, <2>6, <2>7, <2>8 DEF RowsOK, ErasedOwnsNothing
  <2>10. /\ v \in Work /\ v.pc = "answer" /\ v.of = i /\ v.op = "create" /\ v.key = w.key
         /\ v.host = w.host /\ v.name = w.name
    BY <1>1 DEF Work
  <2> HIDE DEF v
  <2>11. Shape(v)
    BY <1>2, <2>10 DEF Shape, Enrolling
  <2>12. Knows(v, erased', identity', binding', intent', creation')
    BY <2>1, <2>2, <2>10 DEF Knows
  <2>13. Goto(p, v)
    BY <1>3 DEF v
  <2> QED BY <1>1, <2>1, <2>4, <2>9, <2>10, <2>11, <2>12, <2>13, WriteStep
<1>4. ASSUME UNCHANGED <<agent, identity, binding, creation>>,
             Goto(p, [w EXCEPT !.pc = "raced"])
      PROVE  Inductive' /\ Evolves
  <2> DEFINE v == [w EXCEPT !.pc = "raced"]
  <2>1. /\ v \in Work /\ v.pc = "raced" /\ v.of = w.of /\ v.op = "create" /\ v.key = w.key
        /\ v.host = w.host /\ v.name = w.name
    BY <1>1 DEF Work
  <2> HIDE DEF v
  <2>2. Shape(v)
    BY <1>2, <2>1 DEF Shape, Enrolling
  <2>3. Knows(v, erased, identity, binding, intent, creation)
    BY <1>1, <2>1 DEF Knows
  <2>4. Goto(p, v)
    BY <1>4 DEF v
  <2> QED BY <1>1, <1>4, <2>1, <2>2, <2>3, <2>4, QuietStep DEF rows
<1> QED BY <1>3, <1>4 DEF InstallAgent

LEMMA ReserveCreationStep ==
  ASSUME Inductive, NEW p \in Handler, ReserveCreation(p)
  PROVE  Inductive' /\ Evolves
<1> DEFINE w == proc[p]
           v == [w EXCEPT !.pc = "raced", !.of = None]
           c == [of |-> w.of, host |-> w.host, name |-> w.name]
<1>1. /\ w \in Work /\ Shape(w) /\ RowsOK /\ w.pc = "reserve" /\ w.op = "create"
      /\ Knows(w, erased, identity, binding, intent, creation)
      /\ UNCHANGED <<erased, agent, identity, binding, intent>>
      /\ Goto(p, v)
  BY HandlerFacts DEF ReserveCreation, Shape
<1>2. w.host \in Host /\ w.name \in Username /\ w.key \in Key /\ w.of \in Identity
  BY <1>1 DEF Shape, Enrolling
<1>3. identity[w.of].key = w.key /\ \E b \in binding : b.of = w.of /\ b.host = w.host
  BY <1>1 DEF Knows
<1>4. /\ creation' \in [Key -> Creation]
      /\ \A k \in Key :
           \/ creation'[k] = creation[k]
           \/ k = w.key /\ creation'[k] = c /\ creation[k].of = None
  <2>1. c \in Creation /\ creation \in [Key -> Creation]
    BY <1>1, <1>2 DEF RowsOK, RowTypes, Creation
  <2> HIDE DEF c
  <2>2. creation' = [creation EXCEPT ![w.key] = IF @.of = None THEN c ELSE @]
    BY DEF ReserveCreation, c
  <2>3. \A k \in Key : k # w.key => creation'[k] = creation[k]
    BY <2>1, <2>2
  <2>4. creation'[w.key] = IF creation[w.key].of = None THEN c ELSE creation[w.key]
    BY <1>2, <2>1, <2>2
  <2>5. creation' \in [Key -> Creation]
    BY <2>1, <2>2
  <2> QED BY <2>3, <2>4, <2>5
<1>5. c.of = w.of /\ c.host = w.host
  OBVIOUS
<1> HIDE DEF c
<1>6. Evolves
  <2>1. IdentitiesEvolve /\ BindingsEvolve
    BY <1>1 DEF IdentitiesEvolve, BindingsEvolve, RowsOK, BindingsOK
  <2>2. RecordsEvolve
    BY <1>1, <1>4 DEF RecordsEvolve
  <2> QED BY <2>1, <2>2 DEF Evolves
<1>7. RowTypes' /\ IntentsOK'
  BY <1>1, <1>4 DEF RowsOK, RowTypes, IntentsOK
<1>8. EnrollmentIsWhole'
  BY <1>1, <1>3, <1>4, <1>5, <1>6, WholeKept DEF Evolves
<1>9. ErasedOwnsNothing'
  BY <1>1, <1>3, <1>4, <1>5 DEF RowsOK, ErasedOwnsNothing, Live
<1>10. RowsOK'
  BY <1>1, <1>7, <1>8, <1>9 DEF RowsOK, BindingsOK, IdentitiesOK, DeletedStaysGone, ActiveHosts
<1>11. /\ v \in Work /\ v.pc = "raced" /\ v.of = None /\ v.op = "create" /\ v.key = w.key
       /\ v.host = w.host /\ v.name = w.name
  BY <1>1 DEF Work
<1> HIDE DEF v
<1>12. Shape(v)
  BY <1>2, <1>11 DEF Shape, Enrolling
<1>13. Knows(v, erased', identity', binding', intent', creation')
  BY <1>11 DEF Knows
<1> QED BY <1>1, <1>6, <1>10, <1>11, <1>12, <1>13, WriteStep

LEMMA ClaimIdentityProfileStep ==
  ASSUME Inductive, NEW p \in Handler, ClaimIdentityProfile(p)
  PROVE  Inductive' /\ Evolves
<1> DEFINE w == proc[p]
<1>1. /\ w \in Work /\ Shape(w) /\ RowsOK /\ w.op = "claim"
      /\ Knows(w, erased, identity, binding, intent, creation)
      /\ UNCHANGED <<erased, agent, binding, intent, creation>>
  BY HandlerFacts DEF ClaimIdentityProfile
<1>2. /\ w.host \in Host /\ w.name \in Username /\ w.of \in Identity
      /\ \E b \in binding : b.host = w.host
  BY <1>1 DEF Shape, Enrolling, Knows
<1>3. CASE UNCHANGED identity /\ Done(p)
  BY <1>1, <1>3, DoneStep DEF rows
<1>4. ASSUME MayClaim(w), identity' = [identity EXCEPT ![w.of].name = w.name],
             \/ Done(p)
             \/ /\ w.key # None
                /\ Goto(p, [w EXCEPT !.pc = "migrate", !.op = "migrate", !.of = None])
      PROVE  Inductive' /\ Evolves
  <2>1. /\ identity' \in [Identity -> IdentityRow]
        /\ \A j \in Identity :
             /\ identity'[j].status = identity[j].status
             /\ identity'[j].deleted = identity[j].deleted
             /\ identity'[j].key = identity[j].key
             /\ j # w.of => identity'[j].name = identity[j].name
        /\ identity'[w.of].name = w.name
    BY <1>1, <1>2, <1>4 DEF RowsOK, RowTypes, IdentityRow
  <2>2. /\ ~erased /\ identity[w.of].status # "none" /\ identity[w.of].name = None
        /\ \A j \in Identity : identity[j].name # w.name
    BY <1>1, <1>2, <1>4, NoneAssumption
       DEF MayClaim, Live, Insertable, NameFree, RowsOK, IdentitiesOK
  <2>3. IdentitiesEvolve
    BY <1>2, <2>1, <2>2 DEF IdentitiesEvolve
  <2>4. Evolves
    BY <1>1, <2>3 DEF Evolves, BindingsEvolve, RecordsEvolve, RowsOK, BindingsOK
  <2>5. IdentitiesOK'
    <3>1. \A j \in Identity : identity'[j].status = "none" =>
            identity'[j].name = None /\ ~identity'[j].deleted
      BY <1>1, <2>1, <2>2 DEF RowsOK, IdentitiesOK
    <3>2. \A j, k \in Identity :
            identity'[j].name # None /\ identity'[k].name = identity'[j].name => j = k
      BY <1>1, <2>1, <2>2 DEF RowsOK, IdentitiesOK
    <3> QED BY <3>1, <3>2 DEF IdentitiesOK
  <2>6. BindingsOK'
    BY <1>1, <2>1 DEF RowsOK, RowTypes, BindingsOK, Binding
  <2>7. IntentsOK'
    BY <1>1, <2>1 DEF RowsOK, RowTypes, IntentsOK, EnrollmentIntent
  <2>8. DeletedStaysGone' /\ ErasedOwnsNothing'
    BY <1>1, <2>1, <2>2 DEF RowsOK, DeletedStaysGone, ActiveHosts, ErasedOwnsNothing
  <2>9. EnrollmentIsWhole'
    BY <1>1, <2>1, <2>4, WholeKept DEF Evolves
  <2>10. RowTypes'
    BY <1>1, <2>1 DEF RowsOK, RowTypes
  <2>11. RowsOK'
    BY <2>5, <2>6, <2>7, <2>8, <2>9, <2>10 DEF RowsOK
  <2>12. CASE Done(p)
    BY <2>4, <2>11, <2>12, WriteDone
  <2>13. ASSUME w.key # None,
                Goto(p, [w EXCEPT !.pc = "migrate", !.op = "migrate", !.of = None])
         PROVE  Inductive'
    <3> DEFINE v == [w EXCEPT !.pc = "migrate", !.op = "migrate", !.of = None]
    <3>1. /\ v \in Work /\ v.pc = "migrate" /\ v.of = None /\ v.op = "migrate" /\ v.key = w.key
          /\ v.host = w.host /\ v.name = w.name /\ w.key \in Key
      BY <1>1, <2>13 DEF Work
    <3> HIDE DEF v
    <3>2. Shape(v)
      BY <1>2, <3>1 DEF Shape, Enrolling
    <3>3. Knows(v, erased', identity', binding', intent', creation')
      BY <1>1, <1>2, <3>1 DEF Knows
    <3>4. Goto(p, v)
      BY <2>13 DEF v
    <3> QED BY <2>4, <2>11, <3>1, <3>2, <3>3, <3>4, WriteStep
  <2> QED BY <1>4, <2>4, <2>12, <2>13
<1> QED BY <1>3, <1>4 DEF ClaimIdentityProfile

\* Agents are ended or activated and bindings revoked: no name, no key and no
\* record changes, and no Agent is made.
LEMMA AgedRows ==
  ASSUME RowsOK, UNCHANGED <<erased, intent, creation>>, ~erased, NEW B \in SUBSET binding,
         binding' = Unbound(B) \/ binding' = binding,
         agent' \in [Host -> {"none", "active", "revoked"}],
         identity' \in [Identity -> IdentityRow],
         \A i \in Identity :
           /\ identity'[i].name = identity[i].name /\ identity'[i].key = identity[i].key
           /\ identity'[i].status = "none" <=> identity[i].status = "none"
           /\ identity[i].status = "none" => identity'[i] = identity[i],
         \A i \in Identity : identity'[i].deleted =>
           /\ identity'[i].status = "inactive"
           /\ identity[i].deleted \/ (binding' = Unbound(B) /\ BindingsOf(i) \subseteq B)
  PROVE  Evolves /\ RowsOK'
<1>1. /\ binding' \subseteq Binding /\ BindingsEvolve
      /\ \A b, c \in binding' : b.host = c.host => b = c
      /\ \A c \in binding' : \E b \in binding : b.host = c.host /\ b.of = c.of
      /\ \A c \in binding' : c.status = "active" => c \in binding
      /\ binding' = Unbound(B) => \A c \in binding' : c.status = "active" => c \notin B
  <2>1. CASE binding' = Unbound(B)
    BY <2>1, UnboundRows
  <2>2. CASE binding' = binding /\ binding' # Unbound(B)
    BY <2>2 DEF RowsOK, RowTypes, BindingsOK, BindingsEvolve
  <2> QED BY <2>1, <2>2
<1>2. Evolves
  BY <1>1 DEF Evolves, IdentitiesEvolve, RecordsEvolve
<1>3. RowTypes'
  BY <1>1 DEF RowsOK, RowTypes
<1>4. BindingsOK'
  <2>1. \A c \in binding' : identity[c.of].status # "none" /\ c.of \in Identity
    BY <1>1 DEF RowsOK, RowTypes, BindingsOK, Binding
  <2> QED BY <1>1, <2>1 DEF BindingsOK
<1>5. IdentitiesOK'
  BY DEF RowsOK, IdentitiesOK
<1>6. IntentsOK'
  BY DEF RowsOK, RowTypes, IntentsOK, EnrollmentIntent
<1>7. DeletedStaysGone'
  <2> SUFFICES ASSUME NEW i \in Identity, identity'[i].deleted
               PROVE  /\ identity'[i].status = "inactive"
                      /\ \A b \in binding' : ~(b.of = i /\ b.status = "active")
    BY DEF DeletedStaysGone, ActiveHosts
  <2>1. CASE identity[i].deleted
    <3>1. \A b \in binding : ~(b.of = i /\ b.status = "active")
      BY <2>1 DEF RowsOK, DeletedStaysGone, ActiveHosts
    <3> QED BY <1>1, <3>1
  <2>2. CASE binding' = Unbound(B) /\ BindingsOf(i) \subseteq B
    <3>1. \A b \in binding : b.of = i => b \in B
      BY <2>2 DEF BindingsOf
    <3> QED BY <1>1, <2>2, <3>1
  <2> QED BY <2>1, <2>2
<1>8. EnrollmentIsWhole'
  BY <1>1, WholeKept
<1> QED BY <1>2, <1>3, <1>4, <1>5, <1>6, <1>7, <1>8 DEF RowsOK, ErasedOwnsNothing

LEMMA RevokedAgentsType ==
  ASSUME RowTypes, NEW H
  PROVE  RevokedAgents(H) \in [Host -> {"none", "active", "revoked"}]
BY DEF RowTypes, RevokedAgents

LEMMA RevokeBindingStep ==
  ASSUME Inductive, NEW p \in Handler, RevokeBinding(p)
  PROVE  Inductive' /\ Evolves
<1> DEFINE w == proc[p]
<1>1. RowsOK /\ Done(p) /\ UNCHANGED <<erased, identity, intent, creation>>
  BY HandlerFacts DEF RevokeBinding
<1>2. CASE erased
  BY <1>1, <1>2, DoneStep DEF RevokeBinding, rows
<1>3. CASE ~erased
  <2> DEFINE B == BindingsOf(w.of)
  <2>1. binding' = Unbound(B) /\ B \subseteq binding
    BY <1>3 DEF RevokeBinding, BindingsOf
  <2>2. agent' \in [Host -> {"none", "active", "revoked"}]
    BY <1>1, <1>3, RevokedAgentsType DEF RevokeBinding, RowsOK
  <2> HIDE DEF B
  <2>3. \A i \in Identity : identity[i].deleted => identity[i].status = "inactive"
    BY <1>1 DEF RowsOK, DeletedStaysGone
  <2>4. identity' \in [Identity -> IdentityRow]
    BY <1>1 DEF RowsOK, RowTypes
  <2>5. Evolves /\ RowsOK'
    BY <1>1, <1>3, <2>1, <2>2, <2>3, <2>4, AgedRows
  <2> QED BY <1>1, <2>5, WriteDone
<1> QED BY <1>2, <1>3

LEMMA EndIdentityStep ==
  ASSUME Inductive, NEW p \in Handler, EndIdentity(p)
  PROVE  Inductive' /\ Evolves
<1> DEFINE w == proc[p]
<1>1. /\ w \in Work /\ Shape(w) /\ RowsOK /\ w.pc = "end" /\ Done(p)
      /\ Knows(w, erased, identity, binding, intent, creation)
      /\ UNCHANGED <<erased, intent, creation>>
  BY HandlerFacts DEF EndIdentity
<1>2. w.of \in Identity /\ identity[w.of].status # "none"
  BY <1>1, NoneAssumption DEF Shape, Knows
<1>3. CASE erased
  BY <1>1, <1>3, DoneStep DEF EndIdentity, rows
<1>4. CASE ~erased
  <2> DEFINE B == BindingsOf(w.of)
             kept == w.op = "deactivate"
  <2>1. /\ binding' = (IF kept THEN binding ELSE Unbound(B))
        /\ identity' = [identity EXCEPT ![w.of].status = "inactive",
                                        ![w.of].deleted = @ \/ w.op = "delete"]
        /\ agent' = RevokedAgents(w.hosts)
    BY <1>4 DEF EndIdentity
  <2>2. agent' \in [Host -> {"none", "active", "revoked"}]
    BY <1>1, <2>1, RevokedAgentsType DEF RowsOK
  <2>3. /\ identity' \in [Identity -> IdentityRow]
        /\ \A i \in Identity : i # w.of => identity'[i] = identity[i]
        /\ identity'[w.of].name = identity[w.of].name
        /\ identity'[w.of].key = identity[w.of].key
        /\ identity'[w.of].status = "inactive"
        /\ identity'[w.of].deleted <=> identity[w.of].deleted \/ w.op = "delete"
    BY <1>1, <1>2, <2>1 DEF RowsOK, RowTypes, IdentityRow
  <2>4. w.op = "delete" => ~kept
    OBVIOUS
  <2>5. B \subseteq binding
    BY DEF BindingsOf
  <2>6. \A i \in Identity : identity[i].deleted => identity[i].status = "inactive"
    BY <1>1 DEF RowsOK, DeletedStaysGone
  <2>7. \A i \in Identity : identity'[i].deleted =>
          /\ identity'[i].status = "inactive"
          /\ identity[i].deleted \/ (binding' = Unbound(B) /\ BindingsOf(i) \subseteq B)
    BY <2>1, <2>3, <2>4, <2>6
  <2>8. \A i \in Identity :
          /\ identity'[i].name = identity[i].name /\ identity'[i].key = identity[i].key
          /\ identity'[i].status = "none" <=> identity[i].status = "none"
          /\ identity[i].status = "none" => identity'[i] = identity[i]
    BY <1>2, <2>3
  <2>9. binding' = Unbound(B) \/ binding' = binding
    BY <2>1
  <2> HIDE DEF B, kept
  <2>10. Evolves /\ RowsOK'
    BY <1>1, <1>4, <2>2, <2>3, <2>5, <2>7, <2>8, <2>9, AgedRows
  <2> QED BY <1>1, <2>10, WriteDone
<1> QED BY <1>3, <1>4

LEMMA ActivateIdentityStep ==
  ASSUME Inductive, NEW p \in Handler, ActivateIdentity(p)
  PROVE  Inductive' /\ Evolves
<1> DEFINE w == proc[p]
<1>1. /\ w \in Work /\ Shape(w) /\ RowsOK /\ w.pc = "activate" /\ Done(p)
      /\ UNCHANGED <<erased, agent, binding, intent, creation>>
      /\ identity' = [identity EXCEPT ![w.of].status = IF MayActivate(w.of) THEN "active" ELSE @]
  BY HandlerFacts DEF ActivateIdentity
<1>2. w.of \in Identity
  BY <1>1 DEF Shape
<1>3. CASE ~MayActivate(w.of)
  <2>1. identity' = identity
    BY <1>1, <1>2, <1>3 DEF RowsOK, RowTypes, IdentityRow
  <2> QED BY <1>1, <2>1, DoneStep DEF rows
<1>4. CASE MayActivate(w.of)
  <2>1. /\ ~erased /\ identity[w.of].status = "inactive" /\ ~identity[w.of].deleted
    BY <1>4 DEF MayActivate
  <2>2. /\ identity' \in [Identity -> IdentityRow]
        /\ \A i \in Identity : i # w.of => identity'[i] = identity[i]
        /\ identity'[w.of].name = identity[w.of].name
        /\ identity'[w.of].key = identity[w.of].key
        /\ identity'[w.of].status = "active"
        /\ ~identity'[w.of].deleted
    BY <1>1, <1>2, <1>4, <2>1 DEF RowsOK, RowTypes, IdentityRow
  <2>3. \A i \in Identity : identity'[i].deleted =>
          identity'[i].status = "inactive" /\ identity[i].deleted
    BY <1>1, <2>2 DEF RowsOK, DeletedStaysGone
  <2>4. \A i \in Identity :
          /\ identity'[i].name = identity[i].name /\ identity'[i].key = identity[i].key
          /\ identity'[i].status = "none" <=> identity[i].status = "none"
          /\ identity[i].status = "none" => identity'[i] = identity[i]
    BY <2>1, <2>2
  <2>5. agent' \in [Host -> {"none", "active", "revoked"}]
    BY <1>1 DEF RowsOK, RowTypes
  <2>6. Evolves /\ RowsOK'
    BY <1>1, <2>1, <2>2, <2>3, <2>4, <2>5, AgedRows
  <2> QED BY <1>1, <2>6, WriteDone
<1> QED BY <1>3, <1>4

LEMMA AgentStep ==
  ASSUME Inductive, NEW h \in Host, RegisterAgent(h) \/ RevokeAgent(h)
  PROVE  Inductive' /\ Evolves
<1>1. RowsOK /\ ~erased /\ UNCHANGED <<erased, identity, binding, intent, creation, proc>>
  BY RowsOfInductive DEF RegisterAgent, RevokeAgent
<1>2. agent' \in [Host -> {"none", "active", "revoked"}]
  BY <1>1, RevokedAgentsType DEF RegisterAgent, RevokeAgent, RowsOK, RowTypes
<1>3. \A i \in Identity : identity[i].deleted => identity[i].status = "inactive"
  BY <1>1 DEF RowsOK, DeletedStaysGone
<1>4. identity' \in [Identity -> IdentityRow]
  BY <1>1 DEF RowsOK, RowTypes
<1>5. Evolves /\ RowsOK'
  BY <1>1, <1>2, <1>3, <1>4, AgedRows
<1> QED BY <1>1, <1>5, WriteKept

LEMMA EraseAccountStep ==
  ASSUME Inductive, EraseAccount
  PROVE  Inductive' /\ Evolves
<1>1. /\ RowsOK /\ ~erased /\ erased' = TRUE /\ proc' = proc
      /\ intent' = [n \in Intent |-> NoIntent]
      /\ creation' = [k \in Key |-> NoCreation]
      /\ binding' = Unbound(binding)
      /\ agent' = RevokedAgents({h \in Host : agent[h] # "none"})
      /\ identity' = [i \in Identity |->
           IF identity[i].status = "none" THEN identity[i]
           ELSE [identity[i] EXCEPT !.status = "inactive", !.deleted = TRUE]]
  BY RowsOfInductive DEF EraseAccount
<1>2. /\ binding' \subseteq Binding /\ BindingsEvolve
      /\ \A b, c \in binding' : b.host = c.host => b = c
      /\ \A c \in binding' : \E b \in binding : b.host = c.host /\ b.of = c.of
      /\ \A c \in binding' : c.status # "active"
  BY <1>1, UnboundRows
<1>3. \A i \in Identity :
        /\ identity'[i] \in IdentityRow
        /\ identity'[i].name = identity[i].name /\ identity'[i].key = identity[i].key
        /\ identity[i].status = "none" => identity'[i] = identity[i]
        /\ identity[i].status # "none" =>
             identity'[i].status = "inactive" /\ identity'[i].deleted
  BY <1>1 DEF RowsOK, RowTypes, IdentityRow
<1>4. identity' \in [Identity -> IdentityRow]
  BY <1>1, <1>3
<1>5. Evolves
  BY <1>1, <1>2, <1>3 DEF Evolves, IdentitiesEvolve, RecordsEvolve
<1>6. /\ intent' \in [Intent -> EnrollmentIntent]
      /\ \A n \in Intent : intent'[n].status = "none"
  BY <1>1 DEF NoIntent, EnrollmentIntent
<1>7. /\ creation' \in [Key -> Creation]
      /\ \A k \in Key : creation'[k].of = None
  BY <1>1 DEF NoCreation, Creation
<1>8. /\ agent' \in [Host -> {"none", "active", "revoked"}]
      /\ \A h \in Host : agent'[h] # "active"
  BY <1>1 DEF RowsOK, RowTypes, RevokedAgents
<1>9. RowTypes'
  BY <1>1, <1>2, <1>4, <1>6, <1>7, <1>8 DEF RowTypes
<1>10. BindingsOK'
  <2>1. \A c \in binding' : identity[c.of].status # "none" /\ c.of \in Identity
    <3>1. \A d \in binding : identity[d.of].status # "none" /\ d.of \in Identity
      BY <1>1 DEF RowsOK, RowTypes, BindingsOK, Binding
    <3> QED BY <1>2, <3>1
  <2> QED BY <1>2, <1>3, <2>1 DEF BindingsOK
<1>11. IdentitiesOK'
  <2>1. IdentitiesOK
    BY <1>1 DEF RowsOK
  <2>2. \A i \in Identity : identity'[i].status = "none" =>
          identity'[i].name = None /\ ~identity'[i].deleted
    BY <1>3, <2>1 DEF IdentitiesOK
  <2>3. \A i, j \in Identity :
          identity'[i].name # None /\ identity'[j].name = identity'[i].name => i = j
    BY <1>3, <2>1 DEF IdentitiesOK
  <2> QED BY <2>2, <2>3 DEF IdentitiesOK
<1>12. IntentsOK'
  BY <1>6 DEF IntentsOK
<1>13. DeletedStaysGone'
  <2>1. \A i \in Identity : identity'[i].deleted => identity'[i].status = "inactive"
    BY <1>1, <1>3 DEF RowsOK, IdentitiesOK
  <2> QED BY <1>2, <2>1 DEF DeletedStaysGone, ActiveHosts
<1>14. ErasedOwnsNothing'
  BY <1>3, <1>7, <1>8 DEF ErasedOwnsNothing, Live
<1>15. EnrollmentIsWhole'
  BY <1>1, <1>2, <1>3, <1>6, <1>7, WholeKept
<1>16. RowsOK'
  BY <1>9, <1>10, <1>11, <1>12, <1>13, <1>14, <1>15 DEF RowsOK
<1> QED BY <1>1, <1>5, <1>16, WriteKept

-----------------------------------------------------------------------------
(* Every step *)

LEMMA InductiveInit == Init => Inductive
<1> SUFFICES ASSUME Init PROVE Inductive
  OBVIOUS
<1>1. PICK old \in SUBSET (Identity \X Host), u \in Username \cup {None},
           k \in Key \cup {None} :
        /\ \A a, b \in old : a = b
        /\ u = None <=> k = None
        /\ binding = {[host |-> o[2], of |-> o[1], status |-> "active"] : o \in old}
        /\ agent = [h \in Host |-> IF \E o \in old : o[2] = h THEN "active" ELSE "none"]
        /\ identity = [i \in Identity |->
             IF \E o \in old : o[1] = i
               THEN [NewIdentity(u) EXCEPT !.key = k,
                       !.first = IF k = None THEN None
                                 ELSE CHOOSE h \in Host : <<i, h>> \in old]
               ELSE NoIdentity]
  BY DEF Init
<1>2. /\ erased = FALSE /\ proc = [p \in Handler |-> Idle]
      /\ intent = [n \in Intent |-> NoIntent]
      /\ creation = [c \in Key |-> NoCreation]
  BY DEF Init
<1>3. /\ binding \subseteq Binding
      /\ \A b, c \in binding : b = c
      /\ \A b \in binding : \E o \in old : o[1] = b.of
      /\ \A o \in old : \E b \in binding : b.of = o[1]
  <2> DEFINE row(o) == [host |-> o[2], of |-> o[1], status |-> "active"]
  <2>1. binding = {row(o) : o \in old}
    BY <1>1
  <2>2. \A o \in old : row(o) \in Binding /\ row(o).of = o[1]
    BY DEF Binding
  <2>3. \A a, b \in old : a = b
    BY <1>1
  <2> HIDE DEF row
  <2> QED BY <2>1, <2>2, <2>3
<1>4. ASSUME NEW i \in Identity
      PROVE  /\ identity[i] \in IdentityRow /\ ~identity[i].deleted
             /\ (\E o \in old : o[1] = i) <=> identity[i].status # "none"
             /\ identity[i].status = "none" => identity[i].name = None
  <2>1. CASE \E o \in old : o[1] = i
    <3> DEFINE f == IF k = None THEN None ELSE CHOOSE h \in Host : <<i, h>> \in old
    <3>1. \E h \in Host : <<i, h>> \in old
      BY <2>1
    <3>2. f \in Host \cup {None}
      BY <3>1
    <3>3. identity[i] = [NewIdentity(u) EXCEPT !.key = k, !.first = f]
      BY <1>1, <2>1
    <3> HIDE DEF f
    <3> QED BY <2>1, <3>2, <3>3 DEF NewIdentity, NoIdentity, IdentityRow
  <2>2. CASE ~\E o \in old : o[1] = i
    <3>1. identity[i] = NoIdentity
      BY <1>1, <2>2
    <3> QED BY <2>2, <3>1 DEF NoIdentity, IdentityRow
  <2> QED BY <2>1, <2>2
<1>5. TypeOK
  <2>1. identity \in [Identity -> IdentityRow]
    BY <1>1, <1>4
  <2>2. agent \in [Host -> {"none", "active", "revoked"}]
    BY <1>1
  <2>3. intent \in [Intent -> EnrollmentIntent] /\ creation \in [Key -> Creation]
    BY <1>2 DEF NoIntent, EnrollmentIntent, NoCreation, Creation
  <2>4. proc \in [Handler -> Work]
    BY <1>2, IdleFields
  <2>5. \A n \in Intent : intent[n].status = "none"
    BY <1>2 DEF NoIntent
  <2> QED BY <1>2, <1>3, <2>1, <2>2, <2>3, <2>4, <2>5 DEF TypeOK
<1>6. HandlersOK /\ ReplaysAgree
  BY <1>2, IdleFields DEF HandlersOK, ReplaysAgree
<1>7. BindingsOK
  BY <1>3, <1>4 DEF BindingsOK, Binding
<1>8. IdentitiesOK
  <2>1. \A a, b \in old : a = b
    BY <1>1
  <2>2. \A i, j \in Identity : identity[i].status # "none" /\ identity[j].status # "none" => i = j
    BY <1>4, <2>1
  <2>3. \A i \in Identity :
          /\ ~identity[i].deleted
          /\ identity[i].status = "none" => identity[i].name = None
    BY <1>4
  <2> QED BY <2>2, <2>3 DEF IdentitiesOK
<1>9. IntentsOK
  BY <1>2 DEF IntentsOK, NoIntent
<1>10. DeletedStaysGone /\ ErasedOwnsNothing
  BY <1>2, <1>4 DEF DeletedStaysGone, ErasedOwnsNothing
<1>11. EnrollmentIsWhole
  BY <1>2, <1>3, <1>4 DEF EnrollmentIsWhole, NoIntent, NoCreation, BindingsOf
<1> QED BY <1>5, <1>6, <1>7, <1>8, <1>9, <1>10, <1>11 DEF Inductive

LEMMA InductiveStep ==
  ASSUME Inductive, [Next]_vars
  PROVE  Inductive' /\ Evolves
<1>1. CASE UNCHANGED vars
  <2>1. UNCHANGED rows /\ proc' = proc
    BY <1>1 DEF vars, rows
  <2>2. UNCHANGED <<erased, agent, identity, binding, intent, creation>>
    BY <2>1 DEF rows
  <2>3. Evolves
    BY <2>1, RowsKept
  <2>4. RowsOK'
    BY <2>2, RowsOfInductive
       DEF RowsOK, RowTypes, BindingsOK, IdentitiesOK, IntentsOK, DeletedStaysGone,
           ErasedOwnsNothing, EnrollmentIsWhole, ActiveHosts, Live, BindingsOf
  <2> QED BY <2>1, <2>3, <2>4, WriteKept
<1>2. ASSUME NEW p \in Handler, Request(p)
      PROVE  Inductive' /\ Evolves
  BY <1>2, RequestIdentityStep, RequestInstallationStep, RequestApprovalStep,
     RequestAgentStep, RevokeHostStep, RequestEndStep, RequestActivationStep
     DEF Request, Ending
<1>3. ASSUME NEW p \in Handler, Continue(p)
      PROVE  Inductive' /\ Evolves
  BY <1>3, CheckStep, CreateIdentityStep, InsertIntentStep, ApproveIntentStep,
     InstallAgentStep, ReserveCreationStep, ReplayRacedStep, ClaimIdentityProfileStep,
     RevokeBindingStep, EndIdentityStep, ActivateIdentityStep, DoneStep
     DEF Continue, Answer
<1>4. ASSUME NEW p \in Handler, Abandon(p)
      PROVE  Inductive' /\ Evolves
  BY <1>4, DoneStep DEF Abandon
<1>5. ASSUME NEW h \in Host, RegisterAgent(h) \/ RevokeAgent(h)
      PROVE  Inductive' /\ Evolves
  BY <1>5, AgentStep
<1>6. CASE EraseAccount
  BY <1>6, EraseAccountStep
<1> QED BY <1>1, <1>2, <1>3, <1>4, <1>5, <1>6 DEF Next

\* The inductive invariant holds in every reachable state: of any number of
\* requests, approvals, claims, revocations and deletions that overlap.
THEOREM IdentityInvariant == Spec => []Inductive
<1>1. Inductive /\ [Next]_vars => Inductive'
  BY InductiveStep
<1> QED BY <1>1, InductiveInit, PTL DEF Spec

-----------------------------------------------------------------------------
(* Theorems *)

\* Every row and handler has its type (the schema and the handlers of
\* agent-identities.ts).
THEOREM TypeCorrect == Spec => []TypeOK
<1>1. Inductive => TypeOK
  BY DEF Inductive
<1> QED BY <1>1, IdentityInvariant, PTL

\* Whatever approval, installation or activation was under way, the identity of
\* a deleted Agent is never active and no active binding names it
\* (deleteIdentity).
THEOREM DeletedIsGone == Spec => []DeletedStaysGone
<1>1. Inductive => DeletedStaysGone
  BY DEF Inductive
<1> QED BY <1>1, IdentityInvariant, PTL

\* No handler that was in flight when an account was erased leaves it a live
\* Agent, an active registration or a new reservation (the triggers on the
\* owner).
THEOREM ErasedStaysEmpty == Spec => []ErasedOwnsNothing
<1>1. Inductive => ErasedOwnsNothing
  BY DEF Inductive
<1> QED BY <1>1, IdentityInvariant, PTL

\* However batches race, an approved intent has bound its host, an Agent has had
\* a host and a reservation names an Agent on its host (approveIntent and
\* createAgentWithInstallation).
THEOREM EnrollmentsAreWhole == Spec => []EnrollmentIsWhole
<1>1. Inductive => EnrollmentIsWhole
  BY DEF Inductive
<1> QED BY <1>1, IdentityInvariant, PTL

\* Requests with one Idempotency-Key are answered with one Agent
\* (createAgentWithInstallation).
THEOREM AnswersAgree == Spec => []ReplaysAgree
<1>1. Inductive => ReplaysAgree
  BY DEF Inductive
<1> QED BY <1>1, IdentityInvariant, PTL

\* A host that was bound stays bound to that Agent, and revoked once it is (the
\* unique index on the host, approveIntent, revokeBinding and deleteIdentity).
THEOREM HostsKeepTheirAgent == Spec => HostKeepsItsAgent
<1>1. ASSUME Inductive, [Next]_vars
      PROVE  [\A b \in binding :
                /\ \A c \in binding' : c.host = b.host => c.of = b.of
                /\ \E c \in binding' : c.host = b.host
                /\ b.status = "revoked" =>
                     \A c \in binding' : c.host = b.host => c.status = "revoked"]_vars
  BY <1>1, InductiveStep DEF Evolves, BindingsEvolve
<1> QED BY <1>1, IdentityInvariant, PTL DEF Spec, HostKeepsItsAgent

\* A username is never taken from an Agent or given to another, deleted or not
\* (the unique index on username and claimIdentityProfile).
THEOREM UsernamesAreForGood == Spec => UsernameIsForGood
<1>1. ASSUME Inductive, [Next]_vars
      PROVE  [\A i, j \in Identity :
                identity[i].name # None =>
                  (identity'[j].name = identity[i].name <=> j = i)]_vars
  <2>1. IdentitiesEvolve /\ IdentitiesOK'
    BY <1>1, InductiveStep DEF Evolves, Inductive
  <2> QED BY <2>1 DEF IdentitiesEvolve, IdentitiesOK
<1> QED BY <1>1, IdentityInvariant, PTL DEF Spec, UsernameIsForGood
=============================================================================
