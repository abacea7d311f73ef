----------------------------- MODULE PeopleProofs -----------------------------
(***************************************************************************)
(* What is remembered of the trader's people is in order, what a button    *)
(* erased stays erased, and what the trader said decides: for any names,   *)
(* number of turns, plans cut short and writers running beside each other. *)
(***************************************************************************)
EXTENDS People, FiniteSetTheorems, SequenceTheorems, TLAPS

-----------------------------------------------------------------------------
(* Types. *)

Fact == Names \X Kinds \X {"stated", "inferred"} \X Contents

OfPerson == {"forget facts", "forget aliases", "forget roles", "remove party", "delete inferred role",
             "open role", "end role", "drop bank names"}
OfLink == {"add alias", "close alias", "unlink", "drop bank name"}

Statement ==
  ({"close fact"} \X Names \X Kinds) \cup ({"add fact"} \X Fact)
    \cup (OfLink \X Names \X Names) \cup (OfPerson \X Names)

Note == {<<>>} \cup (Names \X Names)
Turn == [open : BOOLEAN, message : SUBSET Names, known : SUBSET (Names \X Names),
         refused : SUBSET Names, unresolved : SUBSET Names, touched : SUBSET Names, note : Note]
SyncJob == [kind : {"sync"}, names : {{n} : n \in Names}]
CurateJob == [kind : {"curate"}, names : SUBSET Names, note : Note, heard : SUBSET Names]

TalkIsTyped ==
  /\ turn \in Turn /\ asked \subseteq Names /\ history \subseteq Names
  /\ queue \in Seq(SyncJob \cup CurateJob)
  /\ plans \in [Writers -> Seq(Statement)]
  /\ quiet \in BOOLEAN
  /\ erased \subseteq Names \X Names

\* The worker has statements to run only while a curation is at the head of the queue.
WorkIsOnAJob ==
  plans["worker"] # <<>> \/ work # "start" => queue # <<>> /\ Job.kind = "curate"

-----------------------------------------------------------------------------
(* What a writer may have planned, as plan: it is its own until it is done. *)

\* A name about to be linked is nobody's yet, or crossed; a plan links it once.
Free(a) == a \in crossed \/ \A l \in memory.links : l[1] # a
LinksAreNew(plan) ==
  \A i \in DOMAIN plan : plan[i][1] = "add alias" =>
    /\ plan[i][2] # plan[i][3] /\ Free(plan[i][2])
    /\ \A j \in DOMAIN plan : plan[j][1] = "add alias" /\ plan[j][2] = plan[i][2] => i = j

\* Only the worker writes facts and roles, and closes the old one before the new.
FactsAreReplaced(w, plan) ==
  \A i \in DOMAIN plan : plan[i][1] = "add fact" =>
    /\ w = "worker"
    /\ IF i = 1 THEN InForce(memory, plan[i][2][1], plan[i][2][2]) = {}
       ELSE plan[i - 1] = <<"close fact", plan[i][2][1], plan[i][2][2]>>

RolesAreReplaced(w, plan) ==
  \A i \in DOMAIN plan : plan[i][1] \in {"open role", "end role"} =>
    /\ w = "worker"
    /\ IF i = 1 THEN <<plan[i][2], "inferred">> \notin memory.roles
       ELSE plan[i - 1] = <<"delete inferred role", plan[i][2]>>

\* Of the facts, the worker closes at its notes only what the ledger had suggested.
GuessesGiveWay(plan) ==
  work = "notes" => \A i \in DOMAIN plan :
    /\ plan[i][1] \in {"close fact", "add fact"}
    /\ plan[i][1] = "close fact" =>
         i = 1 /\ \A f \in InForce(memory, plan[i][2], plan[i][3]) : f[3] = "inferred"

FactsGone(p) == \A f \in memory.facts : f[1] # p
AliasesGone(p) == \A l \in memory.links : l[2] # p
RolesGone(p) == <<p, "stated">> \notin memory.roles

\* A button's plan erases the bank names last, and what comes before is done by then.
BankNamesGoLast(plan) ==
  \A i \in DOMAIN plan :
    /\ plan[i][1] # "add alias"
    /\ plan[i][1] = "drop bank names" =>
         /\ IF i <= 1 THEN quiet => RolesGone(plan[i][2]) ELSE plan[i - 1] = <<"forget roles", plan[i][2]>>
         /\ IF i <= 2 THEN quiet => AliasesGone(plan[i][2]) ELSE plan[i - 2] = <<"forget aliases", plan[i][2]>>
         /\ IF i <= 3 THEN quiet => FactsGone(plan[i][2]) ELSE plan[i - 3] = <<"forget facts", plan[i][2]>>
    /\ plan[i][1] = "drop bank name" =>
         IF i <= 1 THEN /\ plan[i][2] # plan[i][3]
                        /\ quiet => <<plan[i][2], plan[i][3]>> \notin memory.links
         ELSE plan[i - 1] = <<"unlink", plan[i][2], plan[i][3]>>

\* A rebuild brings nothing back that a button has erased.
NothingComesBack(plan) ==
  \A i \in DOMAIN plan : plan[i][1] = "add alias" /\ <<plan[i][2], plan[i][3]>> \notin erased

PlanIsGood(w, plan) ==
  /\ LinksAreNew(plan) /\ FactsAreReplaced(w, plan) /\ RolesAreReplaced(w, plan)
  /\ w = "worker" => GuessesGiveWay(plan)
  /\ w = "button" => BankNamesGoLast(plan)
  /\ w = "script" => NothingComesBack(plan)

-----------------------------------------------------------------------------
(* The inductive invariant. *)

PlansAreGood == \A w \in Writers : PlanIsGood(w, plans[w])

\* Nobody stands for himself, and whoever has the name that stands for somebody is crossed.
NamesAreKept ==
  /\ \A l \in memory.links : l[1] # l[2]
  /\ Doubled(memory) \subseteq crossed

\* As long as it is quiet, and since something was erased, nobody who knows more is at work.
QuietIsQuiet ==
  /\ quiet => plans["script"] = <<>>
  /\ quiet \/ erased # {} => ~turn.open /\ queue = <<>>

\* What was erased is away, and whoever was forgotten is forgotten.
ErasedIsGone ==
  /\ \A l \in erased : l \notin memory.links /\ memory.bank[l[1]] # l[2]
  /\ \A p \in Names : <<p, p>> \in erased => FactsGone(p) /\ RolesGone(p)

\* Whoever was refused still could be somebody else.
RefusedCouldBe == \A n \in turn.refused : CouldBe(n) # {}

IInv ==
  /\ TypeOK /\ TalkIsTyped /\ WorkIsOnAJob /\ QuietIsQuiet
  /\ PlansAreGood /\ NamesAreKept /\ OneOfEach
  /\ ErasedIsGone /\ RefusedCouldBe

-----------------------------------------------------------------------------
(* What the statements do to the memory. *)

\* Whom a memory has facts of, or stands names for, it knows.
Sound(m) ==
  /\ m \in Memory
  /\ \A l \in m.links \cup m.former : l[2] \in m.nodes
  /\ \A f \in m.facts \cup m.closed : f[1] \in m.nodes

\* What every statement leaves as it was, or takes away; a new link, fact or role is what it says.
Effect(m, s, r) ==
  /\ Sound(r)
  /\ r.nodes \subseteq m.nodes
  /\ \A b \in Names : r.bank[b] \in {m.bank[b], NoName}
  /\ \A l \in r.links \ m.links : s[1] = "add alias" /\ l = <<s[2], s[3]>>
  /\ \A f \in r.facts \ m.facts : s[1] = "add fact" /\ f = s[2]
  /\ \A f \in r.roles \ m.roles : \/ s[1] = "open role" /\ f = <<s[2], "stated">>
                                  \/ s[1] = "end role" /\ f = <<s[2], "ended">>

\* What is done when a statement has run.
Done(s, r) ==
  /\ s[1] = "close fact" => \A f \in r.facts : ~(f[1] = s[2] /\ f[2] = s[3])
  /\ s[1] = "delete inferred role" => <<s[2], "inferred">> \notin r.roles
  /\ s[1] = "forget facts" => \A f \in r.facts : f[1] # s[2]
  /\ s[1] = "forget aliases" => \A l \in r.links : l[2] # s[2]
  /\ s[1] = "forget roles" => <<s[2], "stated">> \notin r.roles
  /\ s[1] = "unlink" => <<s[2], s[3]>> \notin r.links
  /\ s[1] = "drop bank name" => r.bank[s[2]] # s[3]
  /\ s[1] = "drop bank names" => \A b \in Names : r.bank[b] # s[2]

\* What a statement takes away of facts.
Takes(m, s, r) ==
  \A f \in m.facts \ r.facts : (s[1] = "close fact" /\ f[1] = s[2] /\ f[2] = s[3]) \/ s[1] = "forget facts"

\* A member of a product is its parts.
LEMMA PairIs ==
  ASSUME NEW A, NEW B
  PROVE  /\ \A s \in A \X B : s = <<s[1], s[2]>> /\ s[1] \in A /\ s[2] \in B
         /\ \A a \in A, b \in B : <<a, b>> \in A \X B
  OBVIOUS

\* The parts of a pair.
LEMMA PartsAre ==
  ASSUME NEW a, NEW b
  PROVE  <<a, b>>[1] = a /\ <<a, b>>[2] = b
  OBVIOUS

\* What a statement can be.
LEMMA StatementIs ==
  ASSUME NEW s \in Statement
  PROVE  \/ \E p \in Names, k \in Kinds : s = <<"close fact", p, k>>
         \/ \E f \in Fact : s = <<"add fact", f>>
         \/ \E a, p \in Names, what \in OfLink : s = <<what, a, p>>
         \/ \E p \in Names, what \in OfPerson : s = <<what, p>>
<1>1. CASE s \in {"close fact"} \X Names \X Kinds
  <2> DEFINE A == {"close fact"}
  <2>0. s \in A \X Names \X Kinds
    BY <1>1
  <2> HIDE DEF A
  <2>2. s = <<s[1], s[2], s[3]>> /\ s[1] \in A /\ s[2] \in Names /\ s[3] \in Kinds
    BY <2>0
  <2>1. s = <<s[1], s[2], s[3]>> /\ s[1] = "close fact" /\ s[2] \in Names /\ s[3] \in Kinds
    BY <2>2, Zenon DEF A
  <2> QED BY <2>1, Zenon
<1>2. CASE s \in {"add fact"} \X Fact
  <2> DEFINE A == {"add fact"}
  <2>0. s \in A \X Fact
    BY <1>2
  <2> HIDE DEF A
  <2>2. s = <<s[1], s[2]>> /\ s[1] \in A /\ s[2] \in Fact
    BY <2>0
  <2>1. s = <<s[1], s[2]>> /\ s[1] = "add fact" /\ s[2] \in Fact
    BY <2>2, Zenon DEF A
  <2> QED BY <2>1, Zenon
<1>3. CASE s \in OfLink \X Names \X Names
  <2>1. s = <<s[1], s[2], s[3]>> /\ s[1] \in OfLink /\ s[2] \in Names /\ s[3] \in Names
    BY <1>3
  <2> QED BY <2>1, Zenon
<1>4. CASE s \in OfPerson \X Names
  <2>1. s = <<s[1], s[2]>> /\ s[1] \in OfPerson /\ s[2] \in Names
    BY <1>4
  <2> QED BY <2>1, Zenon
<1> QED BY <1>1, <1>2, <1>3, <1>4 DEF Statement

\* The fields of a memory.
LEMMA FieldsAre ==
  ASSUME NEW m \in Memory
  PROVE  /\ m.nodes \in SUBSET Names /\ m.links \in SUBSET (Names \X Names) /\ m.former \in SUBSET (Names \X Names)
         /\ m.facts \in SUBSET Fact /\ m.closed \in SUBSET (Names \X Kinds)
         /\ m.roles \in SUBSET (Names \X {"inferred", "stated", "ended"})
         /\ m.bank \in [Names -> Names \cup {NoName}]
BY DEF Memory, Fact

\* Closing the facts of a kind takes just these away.
LEMMA CloseFactIs ==
  ASSUME NEW m, Sound(m), NEW p \in Names, NEW k \in Kinds, NEW s, s = <<"close fact", p, k>>
  PROVE  Effect(m, s, CloseFact(m, p, k)) /\ Done(s, CloseFact(m, p, k)) /\ Takes(m, s, CloseFact(m, p, k))
<1> DEFINE r == CloseFact(m, p, k)
<1> HIDE DEF r
<1>1. /\ r \in Memory /\ r.nodes = m.nodes /\ r.links = m.links /\ r.former = m.former /\ r.roles = m.roles
      /\ r.bank = m.bank /\ r.facts = {f \in m.facts : ~(f[1] = p /\ f[2] = k)}
      /\ \A f \in r.closed : f[1] \in m.nodes
  <2>1. m \in Memory /\ \A f \in m.facts \cup m.closed : f[1] \in m.nodes
    BY DEF Sound
  <2>2. r = [m EXCEPT !.facts = m.facts \ InForce(m, p, k),
                      !.closed = IF InForce(m, p, k) = {} THEN m.closed ELSE m.closed \cup {<<p, k>>}]
    BY DEF r, CloseFact
  <2>3. \A f \in InForce(m, p, k) : f \in m.facts /\ f[1] = p
    BY DEF InForce
  <2>4. m.facts \ InForce(m, p, k) = {f \in m.facts : ~(f[1] = p /\ f[2] = k)}
    BY DEF InForce
  <2>5. PICK x : x = m.facts \ InForce(m, p, k)
    OBVIOUS
  <2>6. PICK y : y = IF InForce(m, p, k) = {} THEN m.closed ELSE m.closed \cup {<<p, k>>}
    OBVIOUS
  <2>7. <<p, k>> \in Names \X Kinds /\ <<p, k>>[1] = p
    BY PairIs, PartsAre
  <2>8. m.closed \in SUBSET (Names \X Kinds) /\ m.facts \in SUBSET Fact
    BY <2>1, FieldsAre
  <2>9. y \in SUBSET (Names \X Kinds) /\ \A f \in y : f[1] \in m.nodes
    BY <2>1, <2>3, <2>6, <2>7, <2>8
  <2>10. x \in SUBSET Fact
    BY <2>5, <2>8
  <2>11. r = [m EXCEPT !.facts = x, !.closed = y]
    BY <2>2, <2>5, <2>6
  <2>12. /\ r \in Memory /\ r.nodes = m.nodes /\ r.links = m.links /\ r.former = m.former /\ r.roles = m.roles
         /\ r.bank = m.bank /\ r.facts = x /\ r.closed = y
    BY <2>1, <2>9, <2>10, <2>11 DEF Memory, Fact
  <2> QED BY <2>4, <2>5, <2>9, <2>12
<1>2. Effect(m, s, r) /\ Done(s, r) /\ Takes(m, s, r)
  BY <1>1 DEF Sound, Effect, Done, Takes
<1> QED BY <1>2 DEF r

\* Adding a fact adds just this one.
LEMMA AddFactIs ==
  ASSUME NEW m, Sound(m), NEW f \in Fact, NEW s, s = <<"add fact", f>>
  PROVE  Effect(m, s, AddFact(m, f)) /\ Done(s, AddFact(m, f)) /\ Takes(m, s, AddFact(m, f))
<1> DEFINE r == AddFact(m, f)
<1> HIDE DEF r
<1>1. /\ r \in Memory /\ r.nodes = m.nodes /\ r.links = m.links /\ r.former = m.former /\ r.roles = m.roles
      /\ r.bank = m.bank /\ r.closed = m.closed
      /\ r.facts = IF f[1] \in m.nodes THEN m.facts \cup {f} ELSE m.facts
  <2>1. m \in Memory
    BY DEF Sound
  <2> QED BY <2>1 DEF r, AddFact, Memory, Fact
<1>2. Effect(m, s, r) /\ Done(s, r) /\ Takes(m, s, r)
  BY <1>1 DEF Sound, Effect, Done, Takes
<1> QED BY <1>2 DEF r

\* Adding an alias adds just this link, between known people.
LEMMA AddAliasIs ==
  ASSUME NEW m, Sound(m), NEW a \in Names, NEW p \in Names, NEW s, s = <<"add alias", a, p>>
  PROVE  Effect(m, s, AddAlias(m, a, p)) /\ Done(s, AddAlias(m, a, p)) /\ Takes(m, s, AddAlias(m, a, p))
<1> DEFINE r == AddAlias(m, a, p)
<1> HIDE DEF r
<1>1. /\ r \in Memory /\ r.nodes = m.nodes /\ r.former = m.former /\ r.roles = m.roles
      /\ r.bank = m.bank /\ r.closed = m.closed /\ r.facts = m.facts
      /\ r.links = IF p \in m.nodes THEN m.links \cup {<<a, p>>} ELSE m.links
  <2>1. m \in Memory
    BY DEF Sound
  <2>2. CASE p \in m.nodes
    <3>1. r = [m EXCEPT !.links = m.links \cup {<<a, p>>}]
      BY <2>2 DEF r, AddAlias
    <3>2. m.links \in SUBSET (Names \X Names) /\ <<a, p>> \in Names \X Names
      BY <2>1, FieldsAre, PairIs
    <3>3. m.links \cup {<<a, p>>} \in SUBSET (Names \X Names)
      BY <3>2
    <3> QED BY <2>1, <2>2, <3>1, <3>3 DEF Memory
  <2>3. CASE p \notin m.nodes
    BY <2>1, <2>3 DEF r, AddAlias
  <2> QED BY <2>2, <2>3
<1>2. \A l \in r.links : l \in m.links \/ (l = <<a, p>> /\ p \in m.nodes)
  BY <1>1
<1>3. \A l \in r.links \cup r.former : l[2] \in m.nodes
  <2>1. <<a, p>>[2] = p
    BY PartsAre
  <2> QED BY <1>1, <1>2, <2>1 DEF Sound
<1>4. Sound(r)
  BY <1>1, <1>3 DEF Sound
<1>5. Effect(m, s, r) /\ Done(s, r) /\ Takes(m, s, r)
  BY <1>1, <1>2, <1>4 DEF Effect, Done, Takes
<1> QED BY <1>5 DEF r

\* Closing or deleting a link takes just this one away.
LEMMA CloseAliasIs ==
  ASSUME NEW m, Sound(m), NEW a \in Names, NEW p \in Names, NEW what \in {"close alias", "unlink"},
         NEW s, s = <<what, a, p>>
  PROVE  Effect(m, s, CloseAlias(m, a, p)) /\ Done(s, CloseAlias(m, a, p)) /\ Takes(m, s, CloseAlias(m, a, p))
<1> DEFINE r == CloseAlias(m, a, p)
<1> HIDE DEF r
<1>1. /\ r \in Memory /\ r.nodes = m.nodes /\ r.roles = m.roles
      /\ r.bank = m.bank /\ r.closed = m.closed /\ r.facts = m.facts
      /\ r.links = m.links \ {<<a, p>>} /\ r.former = m.former \cup ({<<a, p>>} \cap m.links)
  <2>1. m \in Memory
    BY DEF Sound
  <2> QED BY <2>1 DEF r, CloseAlias, Memory
<1>2. Effect(m, s, r) /\ Done(s, r) /\ Takes(m, s, r)
  BY <1>1 DEF Sound, Effect, Done, Takes
<1> QED BY <1>2 DEF r

\* Forgetting the facts of a person leaves none of theirs.
LEMMA ForgetFactsIs ==
  ASSUME NEW m, Sound(m), NEW p \in Names, NEW s, s = <<"forget facts", p>>
  PROVE  Effect(m, s, ForgetFacts(m, p)) /\ Done(s, ForgetFacts(m, p)) /\ Takes(m, s, ForgetFacts(m, p))
<1> DEFINE r == ForgetFacts(m, p)
<1> HIDE DEF r
<1>1. /\ r \in Memory /\ r.nodes = m.nodes /\ r.roles = m.roles /\ r.links = m.links /\ r.former = m.former
      /\ r.bank = m.bank /\ r.closed = {f \in m.closed : f[1] # p} /\ r.facts = {f \in m.facts : f[1] # p}
  <2>1. m \in Memory
    BY DEF Sound
  <2> QED BY <2>1 DEF r, ForgetFacts, Memory
<1>2. Effect(m, s, r) /\ Done(s, r) /\ Takes(m, s, r)
  BY <1>1 DEF Sound, Effect, Done, Takes
<1> QED BY <1>2 DEF r

\* Forgetting the names of a person leaves no link to them.
LEMMA ForgetAliasesIs ==
  ASSUME NEW m, Sound(m), NEW p \in Names, NEW s, s = <<"forget aliases", p>>
  PROVE  Effect(m, s, ForgetAliases(m, p)) /\ Done(s, ForgetAliases(m, p)) /\ Takes(m, s, ForgetAliases(m, p))
<1> DEFINE r == ForgetAliases(m, p)
           gone == {l[1] : l \in {l \in AliasNodes(m) : l[2] = p}}
<1> HIDE DEF r, gone
<1>1. /\ r \in Memory /\ r.nodes = m.nodes /\ r.roles = m.roles /\ r.facts = m.facts /\ r.closed = m.closed
      /\ r.bank = m.bank
      /\ r.links = {l \in m.links : l[1] \notin gone} /\ r.former = {l \in m.former : l[1] \notin gone}
  <2>1. m \in Memory
    BY DEF Sound
  <2>2. r = [m EXCEPT !.links = {l \in m.links : l[1] \notin gone}, !.former = {l \in m.former : l[1] \notin gone}]
    BY DEF r, gone, ForgetAliases
  <2> QED BY <2>1, <2>2 DEF Memory
<1>2. \A l \in r.links : l[2] # p
  BY <1>1 DEF gone, AliasNodes
<1>3. Effect(m, s, r) /\ Done(s, r) /\ Takes(m, s, r)
  BY <1>1, <1>2 DEF Sound, Effect, Done, Takes
<1> QED BY <1>3 DEF r

\* Statements that write roles or bank names only.
Keeps(m, r) ==
  /\ r \in Memory /\ r.nodes = m.nodes /\ r.links = m.links /\ r.former = m.former
  /\ r.facts = m.facts /\ r.closed = m.closed

\* The statements on roles change no more than the role they are about.
LEMMA RolesAre ==
  ASSUME NEW m, Sound(m), NEW p \in Names, NEW r, NEW s,
         \/ s = <<"forget roles", p>> /\ r = ForgetRoles(m, p)
         \/ s = <<"delete inferred role", p>> /\ r = DeleteInferredRole(m, p)
         \/ s = <<"open role", p>> /\ r = OpenRole(m, p)
         \/ s = <<"end role", p>> /\ r = EndRole(m, p)
  PROVE  Effect(m, s, r) /\ Done(s, r) /\ Takes(m, s, r)
<1>1. m \in Memory
  BY DEF Sound
<1>2. \E x \in SUBSET (Names \X {"inferred", "stated", "ended"}) :
        /\ r = [m EXCEPT !.roles = x]
        /\ s[1] = "forget roles" => x = m.roles \ {<<p, "stated">>, <<p, "ended">>}
        /\ s[1] = "delete inferred role" => x = m.roles \ {<<p, "inferred">>}
        /\ s[1] = "open role" => x \subseteq m.roles \cup {<<p, "stated">>}
        /\ s[1] = "end role" => x \subseteq m.roles \cup {<<p, "ended">>}
  <2>1. m.roles \in SUBSET (Names \X {"inferred", "stated", "ended"}) /\ m = [m EXCEPT !.roles = m.roles]
    BY <1>1, FieldsAre DEF Memory
  <2>2. CASE s = <<"forget roles", p>> /\ r = ForgetRoles(m, p)
    <3> DEFINE x == m.roles \ {<<p, "stated">>, <<p, "ended">>}
    <3>1. r = [m EXCEPT !.roles = x] /\ x \in SUBSET (Names \X {"inferred", "stated", "ended"})
      BY <2>1, <2>2 DEF ForgetRoles
    <3> QED BY <2>2, <3>1
  <2>3. CASE s = <<"delete inferred role", p>> /\ r = DeleteInferredRole(m, p)
    <3> DEFINE x == m.roles \ {<<p, "inferred">>}
    <3>1. r = [m EXCEPT !.roles = x] /\ x \in SUBSET (Names \X {"inferred", "stated", "ended"})
      BY <2>1, <2>3 DEF DeleteInferredRole
    <3> QED BY <2>3, <3>1
  <2>4. CASE s = <<"open role", p>> /\ r = OpenRole(m, p)
    <3> DEFINE x == IF p \in m.nodes THEN m.roles \cup {<<p, "stated">>} ELSE m.roles
    <3>1. r = [m EXCEPT !.roles = x]
      BY <2>1, <2>4 DEF OpenRole
    <3>2. <<p, "stated">> \in Names \X {"inferred", "stated", "ended"}
      BY PairIs
    <3>3. x \in SUBSET (Names \X {"inferred", "stated", "ended"}) /\ x \subseteq m.roles \cup {<<p, "stated">>}
      BY <2>1, <3>2
    <3> HIDE DEF x
    <3> QED BY <2>4, <3>1, <3>3, PartsAre, Zenon
  <2>5. CASE s = <<"end role", p>> /\ r = EndRole(m, p)
    <3> DEFINE x == IF p \in m.nodes THEN (m.roles \ {<<p, "stated">>}) \cup {<<p, "ended">>} ELSE m.roles
    <3>1. r = [m EXCEPT !.roles = x]
      BY <2>1, <2>5 DEF EndRole
    <3>2. <<p, "ended">> \in Names \X {"inferred", "stated", "ended"}
      BY PairIs
    <3>3. x \in SUBSET (Names \X {"inferred", "stated", "ended"}) /\ x \subseteq m.roles \cup {<<p, "ended">>}
      BY <2>1, <3>2
    <3> HIDE DEF x
    <3> QED BY <2>5, <3>1, <3>3, PartsAre, Zenon
  <2> QED BY <2>2, <2>3, <2>4, <2>5
<1> PICK x \in SUBSET (Names \X {"inferred", "stated", "ended"}) :
        /\ r = [m EXCEPT !.roles = x]
        /\ s[1] = "forget roles" => x = m.roles \ {<<p, "stated">>, <<p, "ended">>}
        /\ s[1] = "delete inferred role" => x = m.roles \ {<<p, "inferred">>}
        /\ s[1] = "open role" => x \subseteq m.roles \cup {<<p, "stated">>}
        /\ s[1] = "end role" => x \subseteq m.roles \cup {<<p, "ended">>}
  BY <1>2
<1>3. Keeps(m, r) /\ r.bank = m.bank /\ r.roles = x
  BY <1>1 DEF Keeps, Memory
<1>4. /\ s[1] = "forget roles" => r.roles = m.roles \ {<<p, "stated">>, <<p, "ended">>}
      /\ s[1] = "delete inferred role" => r.roles = m.roles \ {<<p, "inferred">>}
      /\ s[1] = "open role" => r.roles \subseteq m.roles \cup {<<p, "stated">>}
      /\ s[1] = "end role" => r.roles \subseteq m.roles \cup {<<p, "ended">>}
  BY <1>3
<1>5. Sound(r) /\ r.nodes = m.nodes /\ r.links = m.links /\ r.facts = m.facts /\ r.bank = m.bank
  BY <1>3 DEF Keeps, Sound
<1>6. s[1] \in {"forget roles", "delete inferred role", "open role", "end role"} /\ s[2] = p
  <2>1. \E what \in {"forget roles", "delete inferred role", "open role", "end role"} : s = <<what, p>>
    OBVIOUS
  <2>2. PICK what \in {"forget roles", "delete inferred role", "open role", "end role"} : s = <<what, p>>
    BY <2>1
  <2>3. s[1] = what /\ s[2] = p
    BY <2>2
  <2> QED BY <2>3
<1>7. Effect(m, s, r)
  BY <1>4, <1>5, <1>6 DEF Effect
<1> QED BY <1>4, <1>5, <1>6, <1>7 DEF Done, Takes

\* The statements on bank names drop just what they are about.
LEMMA BankNamesAre ==
  ASSUME NEW m, Sound(m), NEW a \in Names, NEW p \in Names, NEW r, NEW s,
         \/ s = <<"drop bank name", a, p>> /\ r = DropBankName(m, a, p)
         \/ s = <<"drop bank names", p>> /\ r = DropBankNames(m, p)
  PROVE  Effect(m, s, r) /\ Done(s, r) /\ Takes(m, s, r)
<1>1. m \in Memory /\ m.bank \in [Names -> Names \cup {NoName}]
  BY DEF Sound, Memory
<1>2. Keeps(m, r) /\ r.roles = m.roles
  <2>1. m = [m EXCEPT !.bank = m.bank]
    BY <1>1 DEF Memory
  <2>2. \E x \in [Names -> Names \cup {NoName}] : r = [m EXCEPT !.bank = x]
    <3>1. CASE r = DropBankName(m, a, p)
      <4>1. [m.bank EXCEPT ![a] = NoName] \in [Names -> Names \cup {NoName}]
        BY <1>1
      <4>2. r = [m EXCEPT !.bank = m.bank] \/ r = [m EXCEPT !.bank = [m.bank EXCEPT ![a] = NoName]]
        BY <2>1, <3>1 DEF DropBankName
      <4> QED BY <1>1, <4>1, <4>2
    <3>2. CASE r = DropBankNames(m, p)
      <4>1. [b \in Names |-> IF m.bank[b] = p THEN NoName ELSE m.bank[b]] \in [Names -> Names \cup {NoName}]
        BY <1>1
      <4> QED BY <3>2, <4>1 DEF DropBankNames
    <3> QED BY <3>1, <3>2
  <2>3. PICK x \in [Names -> Names \cup {NoName}] : r = [m EXCEPT !.bank = x]
    BY <2>2
  <2> QED BY <1>1, <2>3 DEF Keeps, Memory
<1>3. CASE s = <<"drop bank name", a, p>> /\ r = DropBankName(m, a, p)
  <2>1. r.bank = IF m.bank[a] = p THEN [m.bank EXCEPT ![a] = NoName] ELSE m.bank
    BY <1>1, <1>3 DEF DropBankName, Memory
  <2>2. r.bank[a] # p /\ \A b \in Names : r.bank[b] \in {m.bank[b], NoName}
    BY <1>1, <2>1, NamesAssumption
  <2> QED BY <1>2, <1>3, <2>2 DEF Keeps, Sound, Effect, Done, Takes
<1>4. CASE s = <<"drop bank names", p>> /\ r = DropBankNames(m, p)
  <2>1. r.bank = [b \in Names |-> IF m.bank[b] = p THEN NoName ELSE m.bank[b]]
    BY <1>1, <1>4 DEF DropBankNames, Memory
  <2>2. \A b \in Names : r.bank[b] # p /\ r.bank[b] \in {m.bank[b], NoName}
    BY <1>1, <2>1, NamesAssumption
  <2> QED BY <1>2, <1>4, <2>2 DEF Keeps, Sound, Effect, Done, Takes
<1> QED BY <1>3, <1>4

\* Removing an empty person touches nobody who has a fact, a link or a debt.
LEMMA RemovePartyIs ==
  ASSUME NEW m, Sound(m), NEW p \in Names, NEW s, s = <<"remove party", p>>
  PROVE  Effect(m, s, RemoveEmptyParty(m, p)) /\ Done(s, RemoveEmptyParty(m, p)) /\ Takes(m, s, RemoveEmptyParty(m, p))
<1> DEFINE r == RemoveEmptyParty(m, p)
<1> HIDE DEF r
<1>1. CASE IsEmptyParty(m, p)
  <2>1. m \in Memory
    BY DEF Sound
  <2>2. r = [m EXCEPT !.nodes = m.nodes \ {p}, !.roles = m.roles \ {<<p, "inferred">>}]
    BY <1>1 DEF r, RemoveEmptyParty
  <2>3. /\ r \in Memory /\ r.nodes = m.nodes \ {p} /\ r.links = m.links /\ r.former = m.former
        /\ r.facts = m.facts /\ r.closed = m.closed /\ r.bank = m.bank /\ r.roles = m.roles \ {<<p, "inferred">>}
    BY <2>1, <2>2 DEF Memory
  <2>4. /\ \A l \in m.links \cup m.former : l[2] # p
        /\ \A f \in m.facts \cup m.closed : f[1] # p
    BY <1>1 DEF IsEmptyParty, AliasNodes
  <2>5. Effect(m, s, r) /\ Done(s, r) /\ Takes(m, s, r)
    BY <2>3, <2>4 DEF Sound, Effect, Done, Takes
  <2> QED BY <2>5 DEF r
<1>2. CASE ~IsEmptyParty(m, p)
  <2>1. r = m
    BY <1>2 DEF r, RemoveEmptyParty
  <2>2. Effect(m, s, r) /\ Done(s, r) /\ Takes(m, s, r)
    BY <2>1 DEF Sound, Effect, Done, Takes
  <2> QED BY <2>2 DEF r
<1> QED BY <1>1, <1>2

\* So does every statement.
LEMMA ResultIs ==
  ASSUME NEW m, Sound(m), NEW s \in Statement
  PROVE  Effect(m, s, Result(m, s)) /\ Done(s, Result(m, s)) /\ Takes(m, s, Result(m, s))
<1>1. ASSUME NEW p \in Names, NEW k \in Kinds, s = <<"close fact", p, k>>
      PROVE  Result(m, s) = CloseFact(m, p, k)
  BY <1>1 DEF Result
<1>2. ASSUME NEW f \in Fact, s = <<"add fact", f>>
      PROVE  Result(m, s) = AddFact(m, f)
  BY <1>2 DEF Result
<1>3. ASSUME NEW a \in Names, NEW p \in Names, NEW what \in OfLink, s = <<what, a, p>>
      PROVE  \/ what = "add alias" /\ Result(m, s) = AddAlias(m, a, p)
             \/ what \in {"close alias", "unlink"} /\ Result(m, s) = CloseAlias(m, a, p)
             \/ what = "drop bank name" /\ Result(m, s) = DropBankName(m, a, p)
  BY <1>3 DEF Result, OfLink
<1>4. ASSUME NEW p \in Names, NEW what \in OfPerson, s = <<what, p>>
      PROVE  \/ what = "forget facts" /\ Result(m, s) = ForgetFacts(m, p)
             \/ what = "forget aliases" /\ Result(m, s) = ForgetAliases(m, p)
             \/ what = "forget roles" /\ Result(m, s) = ForgetRoles(m, p)
             \/ what = "remove party" /\ Result(m, s) = RemoveEmptyParty(m, p)
             \/ what = "delete inferred role" /\ Result(m, s) = DeleteInferredRole(m, p)
             \/ what = "open role" /\ Result(m, s) = OpenRole(m, p)
             \/ what = "end role" /\ Result(m, s) = EndRole(m, p)
             \/ what = "drop bank names" /\ Result(m, s) = DropBankNames(m, p)
  BY <1>4 DEF Result, OfPerson
<1>5. ASSUME NEW p \in Names, NEW k \in Kinds, s = <<"close fact", p, k>>
      PROVE  Effect(m, s, Result(m, s)) /\ Done(s, Result(m, s)) /\ Takes(m, s, Result(m, s))
  BY <1>1, <1>5, CloseFactIs
<1>6. ASSUME NEW f \in Fact, s = <<"add fact", f>>
      PROVE  Effect(m, s, Result(m, s)) /\ Done(s, Result(m, s)) /\ Takes(m, s, Result(m, s))
  BY <1>2, <1>6, AddFactIs
<1>7. ASSUME NEW a \in Names, NEW p \in Names, NEW what \in OfLink, s = <<what, a, p>>
      PROVE  Effect(m, s, Result(m, s)) /\ Done(s, Result(m, s)) /\ Takes(m, s, Result(m, s))
  <2>1. CASE what = "add alias"
    BY <1>3, <1>7, <2>1, AddAliasIs
  <2>2. CASE what \in {"close alias", "unlink"}
    BY <1>3, <1>7, <2>2, CloseAliasIs
  <2>3. CASE what = "drop bank name"
    BY <1>3, <1>7, <2>3, BankNamesAre
  <2> QED BY <2>1, <2>2, <2>3 DEF OfLink
<1>8. ASSUME NEW p \in Names, NEW what \in OfPerson, s = <<what, p>>
      PROVE  Effect(m, s, Result(m, s)) /\ Done(s, Result(m, s)) /\ Takes(m, s, Result(m, s))
  BY <1>4, <1>8, ForgetFactsIs, ForgetAliasesIs, RolesAre, RemovePartyIs, BankNamesAre
<1> QED BY <1>5, <1>6, <1>7, <1>8, StatementIs

-----------------------------------------------------------------------------
(* Plans.                                                                  *)


\* The memory of a state of the right type is sound.
LEMMA SoundIs ==
  ASSUME TypeOK
  PROVE  Sound(memory)
BY DEF TypeOK, Sound, AliasNodes

\* A plan is a sequence of statements; what is left of it are those behind the first.
LEMMA PlanParts ==
  ASSUME NEW plan \in Seq(Statement)
  PROVE  /\ DOMAIN plan = 1 .. Len(plan) /\ Len(plan) \in Nat
         /\ \A i \in DOMAIN plan : plan[i] \in Statement
         /\ plan # <<>> => /\ 1 \in DOMAIN plan /\ Head(plan) = plan[1] /\ Head(plan) \in Statement
                           /\ Tail(plan) \in Seq(Statement)
                           /\ \A i \in DOMAIN Tail(plan) : i \in Nat /\ i >= 1 /\ i + 1 \in DOMAIN plan /\ Tail(plan)[i] = plan[i + 1]
<1>1. DOMAIN plan = 1 .. Len(plan) /\ Len(plan) \in Nat /\ \A i \in DOMAIN plan : plan[i] \in Statement
  BY LenProperties, ElementOfSeq
<1>2. ASSUME plan # <<>>
      PROVE  /\ 1 \in DOMAIN plan /\ Head(plan) = plan[1] /\ Head(plan) \in Statement
             /\ Tail(plan) \in Seq(Statement)
             /\ \A i \in DOMAIN Tail(plan) : i \in Nat /\ i >= 1 /\ i + 1 \in DOMAIN plan /\ Tail(plan)[i] = plan[i + 1]
  <2>1. /\ Head(plan) = plan[1] /\ Tail(plan) \in Seq(Statement) /\ Len(Tail(plan)) = Len(plan) - 1
        /\ \A i \in 1 .. Len(Tail(plan)) : Tail(plan)[i] = plan[i + 1]
    BY <1>2, HeadTailProperties
  <2>2. DOMAIN Tail(plan) = 1 .. Len(Tail(plan))
    BY <2>1, LenProperties
  <2>3. Len(plan) >= 1
    BY <1>1, <1>2, EmptySeq
  <2> QED BY <1>1, <2>1, <2>2, <2>3
<1> QED BY <1>1, <1>2

\* A writer with nothing to do has a good plan.
LEMMA EmptyIsGood ==
  ASSUME NEW w
  PROVE  PlanIsGood(w, <<>>) /\ PlanIsGood(w, <<>>)'
<1>1. DOMAIN <<>> = {}
  OBVIOUS
<1> QED BY <1>1 DEF PlanIsGood, LinksAreNew, FactsAreReplaced, RolesAreReplaced, GuessesGiveWay,
                    BankNamesGoLast, NothingComesBack

\* A plan stays good while others write, unless they take the ground from under it.
LEMMA PlanStays ==
  ASSUME NEW w, NEW plan, PlanIsGood(w, plan),
         crossed \subseteq crossed',
         \A l \in memory'.links \ memory.links :
           l[1] \in crossed' \/ \A i \in DOMAIN plan : ~(plan[i][1] = "add alias" /\ plan[i][2] = l[1]),
         w = "worker" => /\ memory'.facts \subseteq memory.facts
                         /\ \A f \in memory'.roles \ memory.roles : f[2] # "inferred"
                         /\ work' = work \/ work' # "notes",
         w = "button" /\ quiet' => /\ quiet /\ memory'.links \subseteq memory.links
                                   /\ memory'.facts \subseteq memory.facts /\ memory'.roles \subseteq memory.roles,
         w = "script" => erased' \subseteq erased
  PROVE  PlanIsGood(w, plan)'
<1>1. LinksAreNew(plan)'
  BY DEF PlanIsGood, LinksAreNew, Free
<1>2. FactsAreReplaced(w, plan)'
  BY DEF PlanIsGood, FactsAreReplaced, InForce
<1>3. RolesAreReplaced(w, plan)'
  <2>1. \A p : <<p, "inferred">>[2] = "inferred"
    OBVIOUS
  <2> QED BY <2>1 DEF PlanIsGood, RolesAreReplaced
<1>4. w = "worker" => GuessesGiveWay(plan)'
  BY DEF PlanIsGood, GuessesGiveWay, InForce
<1>5. w = "button" => BankNamesGoLast(plan)'
  BY DEF PlanIsGood, BankNamesGoLast, RolesGone, AliasesGone, FactsGone
<1>6. w = "script" => NothingComesBack(plan)'
  BY DEF PlanIsGood, NothingComesBack
<1> QED BY <1>1, <1>2, <1>3, <1>4, <1>5, <1>6 DEF PlanIsGood

\* The parts of a statement.
LEMMA ThreeParts ==
  ASSUME NEW a, NEW b, NEW c
  PROVE  <<a, b, c>>[1] = a /\ <<a, b, c>>[2] = b /\ <<a, b, c>>[3] = c
  OBVIOUS

\* rest is what is left of a plan when its first statement has run.
Behind(plan, rest, n) ==
  n \in Nat /\ DOMAIN plan = 1 .. n + 1 /\ DOMAIN rest = 1 .. n /\ \A i \in 1 .. n : rest[i] = plan[i + 1]

\* Where the statements of the rest were in the plan.
LEMMA BehindIs ==
  ASSUME NEW plan, NEW rest, NEW n, Behind(plan, rest, n), NEW i \in DOMAIN rest
  PROVE  /\ i \in Nat /\ i + 1 \in DOMAIN plan /\ 1 \in DOMAIN plan /\ rest[i] = plan[i + 1]
         /\ i + 1 # 1 /\ ~(i + 1 <= 1) /\ (i + 1) - 1 = i
         /\ i = 1 \/ (i # 1 /\ i > 1 /\ ~(i <= 1) /\ i - 1 \in DOMAIN rest /\ rest[i - 1] = plan[i])
<1>1. n \in Nat /\ DOMAIN plan = 1 .. n + 1 /\ DOMAIN rest = 1 .. n /\ \A j \in 1 .. n : rest[j] = plan[j + 1]
  BY DEF Behind
<1>2. /\ i \in Nat /\ i \in 1 .. n /\ i + 1 \in 1 .. n + 1 /\ 1 \in 1 .. n + 1
      /\ i + 1 # 1 /\ ~(i + 1 <= 1) /\ (i + 1) - 1 = i
      /\ i = 1 \/ (i # 1 /\ i > 1 /\ ~(i <= 1) /\ i - 1 \in 1 .. n /\ (i - 1) + 1 = i)
  <2>1. n \in Nat /\ i \in 1 .. n
    BY <1>1
  <2> QED BY <2>1
<1> QED BY <1>1, <1>2, Zenon

\* The same for the statements of a button, two and three places back.
LEMMA BehindMore ==
  ASSUME NEW plan, NEW rest, NEW n, Behind(plan, rest, n), NEW i \in DOMAIN rest
  PROVE  /\ i = 1 => i <= 2 /\ i + 1 <= 2 /\ i <= 3 /\ i + 1 <= 3
         /\ i = 2 => i <= 2 /\ ~(i + 1 <= 2) /\ (i + 1) - 2 = 1 /\ i <= 3 /\ i + 1 <= 3
         /\ i = 3 => ~(i <= 2) /\ ~(i + 1 <= 2) /\ i <= 3 /\ ~(i + 1 <= 3) /\ (i + 1) - 3 = 1
                     /\ rest[i - 2] = plan[(i + 1) - 2]
         /\ i > 3 => ~(i <= 2) /\ ~(i + 1 <= 2) /\ ~(i <= 3) /\ ~(i + 1 <= 3)
                     /\ rest[i - 2] = plan[(i + 1) - 2] /\ rest[i - 3] = plan[(i + 1) - 3]
         /\ i = 1 \/ i = 2 \/ i = 3 \/ i > 3
<1>1. n \in Nat /\ DOMAIN plan = 1 .. n + 1 /\ DOMAIN rest = 1 .. n /\ \A j \in 1 .. n : rest[j] = plan[j + 1]
  BY DEF Behind
<1>2. n \in Nat /\ i \in 1 .. n
  BY <1>1
<1>3. /\ i = 1 => i <= 2 /\ i + 1 <= 2 /\ i <= 3 /\ i + 1 <= 3
      /\ i = 2 => i <= 2 /\ ~(i + 1 <= 2) /\ (i + 1) - 2 = 1 /\ i <= 3 /\ i + 1 <= 3
      /\ i = 3 => ~(i <= 2) /\ ~(i + 1 <= 2) /\ i <= 3 /\ ~(i + 1 <= 3) /\ (i + 1) - 3 = 1
      /\ i > 3 => ~(i <= 2) /\ ~(i + 1 <= 2) /\ ~(i <= 3) /\ ~(i + 1 <= 3)
      /\ i = 1 \/ i = 2 \/ i = 3 \/ i > 3
  BY <1>2
<1>4. i > 2 => rest[i - 2] = plan[(i + 1) - 2]
  <2>1. i > 2 => i - 2 \in 1 .. n /\ (i - 2) + 1 = (i + 1) - 2
    BY <1>2
  <2> QED BY <1>1, <2>1, Zenon
<1>5. i > 3 => rest[i - 3] = plan[(i + 1) - 3]
  <2>1. i > 3 => i - 3 \in 1 .. n /\ (i - 3) + 1 = (i + 1) - 3
    BY <1>2
  <2> QED BY <1>1, <2>1, Zenon
<1>6. (i = 3 => i > 2) /\ (i > 3 => i > 2)
  BY <1>2
<1> QED BY <1>3, <1>4, <1>5, <1>6, Zenon

\* w has run s, and nothing else has happened.
Ran(w, s) ==
  /\ Effect(memory, s, memory') /\ Done(s, memory')
  /\ crossed \subseteq crossed' /\ work' = work /\ quiet' = quiet
  /\ w = "script" => erased' = erased
  /\ w = "button" /\ s[1] = "unlink" => s[2] # s[3]

\* What is done when a certain statement has run.
LEMMA DoneIs ==
  ASSUME NEW a, NEW b, NEW r
  PROVE  /\ Done(<<"close fact", a, b>>, r) => \A f \in r.facts : ~(f[1] = a /\ f[2] = b)
         /\ Done(<<"delete inferred role", a>>, r) => <<a, "inferred">> \notin r.roles
         /\ Done(<<"forget facts", a>>, r) => \A f \in r.facts : f[1] # a
         /\ Done(<<"forget aliases", a>>, r) => \A l \in r.links : l[2] # a
         /\ Done(<<"forget roles", a>>, r) => <<a, "stated">> \notin r.roles
         /\ Done(<<"unlink", a, b>>, r) => <<a, b>> \notin r.links
<1>1. ASSUME Done(<<"close fact", a, b>>, r) PROVE \A f \in r.facts : ~(f[1] = a /\ f[2] = b)
  BY <1>1, ThreeParts DEF Done
<1>2. ASSUME Done(<<"delete inferred role", a>>, r) PROVE <<a, "inferred">> \notin r.roles
  BY <1>2, PartsAre DEF Done
<1>3. ASSUME Done(<<"forget facts", a>>, r) PROVE \A f \in r.facts : f[1] # a
  BY <1>3, PartsAre DEF Done
<1>4. ASSUME Done(<<"forget aliases", a>>, r) PROVE \A l \in r.links : l[2] # a
  BY <1>4, PartsAre DEF Done
<1>5. ASSUME Done(<<"forget roles", a>>, r) PROVE <<a, "stated">> \notin r.roles
  BY <1>5, PartsAre DEF Done
<1>6. ASSUME Done(<<"unlink", a, b>>, r) PROVE <<a, b>> \notin r.links
  BY <1>6, ThreeParts DEF Done
<1> QED BY <1>1, <1>2, <1>3, <1>4, <1>5, <1>6

\* When the first statement has run, the rest still links new names.
LEMMA RestLinks ==
  ASSUME NEW w, NEW plan, NEW rest, NEW n, Behind(plan, rest, n), PlanIsGood(w, plan), Ran(w, plan[1])
  PROVE  LinksAreNew(rest)'
<1>0. \A i \in DOMAIN rest :
        /\ i \in Nat /\ i + 1 \in DOMAIN plan /\ 1 \in DOMAIN plan /\ rest[i] = plan[i + 1]
        /\ i + 1 # 1 /\ ~(i + 1 <= 1) /\ (i + 1) - 1 = i
        /\ i = 1 \/ (i # 1 /\ i > 1 /\ ~(i <= 1) /\ i - 1 \in DOMAIN rest /\ rest[i - 1] = plan[i])
  BY BehindIs
<1>9. \A x, y \in Nat : x + 1 = y + 1 => x = y
  OBVIOUS
<1>10. \A a, b, l : l = <<a, b>> => l[1] = a
  BY PartsAre
<1> SUFFICES ASSUME NEW i \in DOMAIN rest, rest[i][1] = "add alias"
             PROVE  /\ rest[i][2] # rest[i][3] /\ Free(rest[i][2])'
                    /\ \A j \in DOMAIN rest : rest[j][1] = "add alias" /\ rest[j][2] = rest[i][2] => i = j
  BY DEF LinksAreNew, Free
<1>1. i + 1 \in DOMAIN plan /\ 1 \in DOMAIN plan /\ rest[i] = plan[i + 1] /\ i + 1 # 1 /\ i \in Nat
  BY <1>0, Zenon
<1>2. /\ plan[i + 1][2] # plan[i + 1][3] /\ Free(plan[i + 1][2])
      /\ \A j \in DOMAIN plan : plan[j][1] = "add alias" /\ plan[j][2] = plan[i + 1][2] => i + 1 = j
  BY <1>1, Zenon DEF PlanIsGood, LinksAreNew
<1>3. ASSUME NEW j \in DOMAIN rest, rest[j][1] = "add alias" /\ rest[j][2] = rest[i][2] PROVE i = j
  <2>1. j + 1 \in DOMAIN plan /\ rest[j] = plan[j + 1] /\ j \in Nat
    BY <1>0, Zenon
  <2>2. i + 1 = j + 1
    BY <1>1, <1>2, <1>3, <2>1, Zenon
  <2> QED BY <1>1, <1>9, <2>1, <2>2, Zenon
<1>4. ~(plan[1][1] = "add alias" /\ plan[1][2] = rest[i][2])
  BY <1>1, <1>2, Zenon
<1>5. \A l \in memory'.links \ memory.links : l[1] # rest[i][2]
  <2>1. \A l \in memory'.links \ memory.links : plan[1][1] = "add alias" /\ l = <<plan[1][2], plan[1][3]>>
    BY Zenon DEF Ran, Effect
  <2> TAKE l \in memory'.links \ memory.links
  <2>2. plan[1][1] = "add alias" /\ l = <<plan[1][2], plan[1][3]>>
    BY <2>1, Zenon
  <2>3. l[1] = plan[1][2]
    BY <1>10, <2>2, Zenon
  <2> QED BY <1>4, <2>2, <2>3, Zenon
<1>6. Free(rest[i][2])'
  <2>1. Free(rest[i][2]) /\ crossed \subseteq crossed'
    BY <1>1, <1>2, Zenon DEF Ran
  <2> QED BY <1>5, <2>1 DEF Free
<1> QED BY <1>1, <1>2, <1>3, <1>6, Zenon

\* The rest adds a fact only behind the closing of the old ones.
LEMMA RestFacts ==
  ASSUME NEW w, NEW plan, NEW rest, NEW n, Behind(plan, rest, n), PlanIsGood(w, plan), Ran(w, plan[1])
  PROVE  FactsAreReplaced(w, rest)'
<1>0. \A i \in DOMAIN rest :
        /\ i \in Nat /\ i + 1 \in DOMAIN plan /\ 1 \in DOMAIN plan /\ rest[i] = plan[i + 1]
        /\ i + 1 # 1 /\ ~(i + 1 <= 1) /\ (i + 1) - 1 = i
        /\ i = 1 \/ (i # 1 /\ i > 1 /\ ~(i <= 1) /\ i - 1 \in DOMAIN rest /\ rest[i - 1] = plan[i])
  BY BehindIs
<1> SUFFICES ASSUME NEW i \in DOMAIN rest, rest[i][1] = "add fact"
             PROVE  /\ w = "worker"
                    /\ IF i = 1 THEN InForce(memory', rest[i][2][1], rest[i][2][2]) = {}
                       ELSE rest[i - 1] = <<"close fact", rest[i][2][1], rest[i][2][2]>>
  BY DEF FactsAreReplaced
<1>1. i + 1 \in DOMAIN plan /\ rest[i] = plan[i + 1] /\ i + 1 # 1 /\ (i + 1) - 1 = i
  BY <1>0, Zenon
<1>2. w = "worker" /\ plan[i] = <<"close fact", rest[i][2][1], rest[i][2][2]>>
  BY <1>1, Zenon DEF PlanIsGood, FactsAreReplaced
<1>3. CASE i = 1
  <2>1. plan[1] = <<"close fact", rest[i][2][1], rest[i][2][2]>>
    BY <1>2, <1>3, Zenon
  <2>2. \A f \in memory'.facts : ~(f[1] = rest[i][2][1] /\ f[2] = rest[i][2][2])
    BY <2>1, DoneIs, Zenon DEF Ran
  <2>3. InForce(memory', rest[i][2][1], rest[i][2][2]) = {}
    BY <2>2, Zenon DEF InForce
  <2> QED BY <1>2, <1>3, <2>3, Zenon
<1>4. CASE i # 1
  <2>1. rest[i - 1] = plan[i]
    BY <1>0, <1>4, Zenon
  <2> QED BY <1>2, <1>4, <2>1, Zenon
<1> QED BY <1>3, <1>4

\* The rest writes a role only behind the deletion of the inferred one.
LEMMA RestRoles ==
  ASSUME NEW w, NEW plan, NEW rest, NEW n, Behind(plan, rest, n), PlanIsGood(w, plan), Ran(w, plan[1])
  PROVE  RolesAreReplaced(w, rest)'
<1>0. \A i \in DOMAIN rest :
        /\ i \in Nat /\ i + 1 \in DOMAIN plan /\ 1 \in DOMAIN plan /\ rest[i] = plan[i + 1]
        /\ i + 1 # 1 /\ ~(i + 1 <= 1) /\ (i + 1) - 1 = i
        /\ i = 1 \/ (i # 1 /\ i > 1 /\ ~(i <= 1) /\ i - 1 \in DOMAIN rest /\ rest[i - 1] = plan[i])
  BY BehindIs
<1> SUFFICES ASSUME NEW i \in DOMAIN rest, rest[i][1] \in {"open role", "end role"}
             PROVE  /\ w = "worker"
                    /\ IF i = 1 THEN <<rest[i][2], "inferred">> \notin memory'.roles
                       ELSE rest[i - 1] = <<"delete inferred role", rest[i][2]>>
  BY DEF RolesAreReplaced
<1>1. i + 1 \in DOMAIN plan /\ rest[i] = plan[i + 1] /\ i + 1 # 1 /\ (i + 1) - 1 = i
  BY <1>0, Zenon
<1>2. w = "worker" /\ plan[i] = <<"delete inferred role", rest[i][2]>>
  BY <1>1, Zenon DEF PlanIsGood, RolesAreReplaced
<1>3. CASE i = 1
  <2>1. plan[1] = <<"delete inferred role", rest[i][2]>>
    BY <1>2, <1>3, Zenon
  <2>2. <<rest[i][2], "inferred">> \notin memory'.roles
    BY <2>1, DoneIs, Zenon DEF Ran
  <2> QED BY <1>2, <1>3, <2>2, Zenon
<1>4. CASE i # 1
  <2>1. rest[i - 1] = plan[i]
    BY <1>0, <1>4, Zenon
  <2> QED BY <1>2, <1>4, <2>1, Zenon
<1> QED BY <1>3, <1>4

\* The rest of a note closes no fact the trader stated.
LEMMA RestGuesses ==
  ASSUME NEW plan, NEW rest, NEW n, Behind(plan, rest, n), PlanIsGood("worker", plan), Ran("worker", plan[1])
  PROVE  GuessesGiveWay(rest)'
<1>0. \A i \in DOMAIN rest :
        /\ i \in Nat /\ i + 1 \in DOMAIN plan /\ 1 \in DOMAIN plan /\ rest[i] = plan[i + 1]
        /\ i + 1 # 1 /\ ~(i + 1 <= 1) /\ (i + 1) - 1 = i
        /\ i = 1 \/ (i # 1 /\ i > 1 /\ ~(i <= 1) /\ i - 1 \in DOMAIN rest /\ rest[i - 1] = plan[i])
  BY BehindIs
<1> SUFFICES ASSUME work = "notes", NEW i \in DOMAIN rest
             PROVE  rest[i][1] \in {"close fact", "add fact"} /\ rest[i][1] # "close fact"
  BY DEF GuessesGiveWay, Ran
<1>1. i + 1 \in DOMAIN plan /\ rest[i] = plan[i + 1] /\ i + 1 # 1
  BY <1>0, Zenon
<1> QED BY <1>1, Zenon DEF PlanIsGood, GuessesGiveWay

\* A button's statements only take away.
LEMMA ButtonsErase ==
  ASSUME NEW plan, PlanIsGood("button", plan), 1 \in DOMAIN plan, Ran("button", plan[1])
  PROVE  /\ memory'.links \subseteq memory.links /\ memory'.facts \subseteq memory.facts
         /\ memory'.roles \subseteq memory.roles
<1>1. plan[1][1] # "add alias" /\ plan[1][1] # "add fact" /\ plan[1][1] \notin {"open role", "end role"}
  <2>1. "button" # "worker"
    OBVIOUS
  <2> QED BY <2>1, Zenon DEF PlanIsGood, BankNamesGoLast, FactsAreReplaced, RolesAreReplaced
<1>2. Effect(memory, plan[1], memory')
  BY Zenon DEF Ran
<1> QED BY <1>1, <1>2 DEF Effect

\* The rest of a button has its bank names last.
LEMMA RestBankNames ==
  ASSUME NEW plan, NEW rest, NEW n, Behind(plan, rest, n), PlanIsGood("button", plan), Ran("button", plan[1])
  PROVE  BankNamesGoLast(rest)'
<1>0. \A i \in DOMAIN rest :
        /\ i \in Nat /\ i + 1 \in DOMAIN plan /\ 1 \in DOMAIN plan /\ rest[i] = plan[i + 1]
        /\ i + 1 # 1 /\ ~(i + 1 <= 1) /\ (i + 1) - 1 = i
        /\ i = 1 \/ (i # 1 /\ i > 1 /\ ~(i <= 1) /\ i - 1 \in DOMAIN rest /\ rest[i - 1] = plan[i])
  BY BehindIs
<1>10. 1 <= 1
  OBVIOUS
<1> SUFFICES ASSUME NEW i \in DOMAIN rest
             PROVE
  /\ rest[i][1] # "add alias"
  /\ rest[i][1] = "drop bank names" =>
       /\ IF i <= 1 THEN quiet' => RolesGone(rest[i][2])' ELSE rest[i - 1] = <<"forget roles", rest[i][2]>>
       /\ IF i <= 2 THEN quiet' => AliasesGone(rest[i][2])' ELSE rest[i - 2] = <<"forget aliases", rest[i][2]>>
       /\ IF i <= 3 THEN quiet' => FactsGone(rest[i][2])' ELSE rest[i - 3] = <<"forget facts", rest[i][2]>>
  /\ rest[i][1] = "drop bank name" =>
       IF i <= 1 THEN /\ rest[i][2] # rest[i][3]
                      /\ quiet' => <<rest[i][2], rest[i][3]>> \notin memory'.links
       ELSE rest[i - 1] = <<"unlink", rest[i][2], rest[i][3]>>
  BY DEF BankNamesGoLast, RolesGone, AliasesGone, FactsGone
<1>1. /\ i + 1 \in DOMAIN plan /\ 1 \in DOMAIN plan /\ rest[i] = plan[i + 1]
      /\ i + 1 # 1 /\ ~(i + 1 <= 1) /\ (i + 1) - 1 = i
      /\ i = 1 \/ (i # 1 /\ ~(i <= 1) /\ rest[i - 1] = plan[i])
  BY <1>0, Zenon
<1>2. BankNamesGoLast(plan) /\ Done(plan[1], memory') /\ quiet' = quiet
  BY Zenon DEF PlanIsGood, Ran
<1>3. /\ memory'.links \subseteq memory.links /\ memory'.facts \subseteq memory.facts
      /\ memory'.roles \subseteq memory.roles
  BY <1>1, ButtonsErase
<1>4. i = 1 => i <= 1
  BY <1>10, Zenon
<1>5. rest[i][1] # "add alias"
  BY <1>1, <1>2, Zenon DEF BankNamesGoLast
<1>6. ASSUME rest[i][1] = "drop bank names"
      PROVE  IF i <= 1 THEN quiet' => RolesGone(rest[i][2])' ELSE rest[i - 1] = <<"forget roles", rest[i][2]>>
  <2>1. plan[i] = <<"forget roles", rest[i][2]>>
    BY <1>1, <1>2, <1>6, Zenon DEF BankNamesGoLast
  <2>2. CASE i = 1
    <3>1. plan[1] = <<"forget roles", rest[i][2]>>
      BY <2>1, <2>2, Zenon
    <3>2. RolesGone(rest[i][2])'
      BY <1>2, <3>1, DoneIs, Zenon DEF RolesGone
    <3> QED BY <1>4, <2>2, <3>2, Zenon
  <2> QED BY <1>1, <2>1, <2>2, Zenon
<1>7. ASSUME rest[i][1] = "drop bank names"
      PROVE  IF i <= 2 THEN quiet' => AliasesGone(rest[i][2])' ELSE rest[i - 2] = <<"forget aliases", rest[i][2]>>
  <2>1. IF i + 1 <= 2 THEN quiet => AliasesGone(rest[i][2]) ELSE plan[(i + 1) - 2] = <<"forget aliases", rest[i][2]>>
    BY <1>1, <1>2, <1>7, Zenon DEF BankNamesGoLast
  <2>2. CASE i = 1
    <3>1. i <= 2 /\ i + 1 <= 2
      BY <2>2, BehindMore
    <3>2. quiet' => AliasesGone(rest[i][2])'
      BY <1>2, <1>3, <2>1, <3>1, Zenon DEF AliasesGone
    <3> QED BY <3>1, <3>2, Zenon
  <2>3. CASE i = 2
    <3>1. i <= 2 /\ ~(i + 1 <= 2) /\ (i + 1) - 2 = 1
      BY <2>3, BehindMore
    <3>2. plan[1] = <<"forget aliases", rest[i][2]>>
      BY <2>1, <3>1, Zenon
    <3>3. AliasesGone(rest[i][2])'
      BY <1>2, <3>2, DoneIs, Zenon DEF AliasesGone
    <3> QED BY <3>1, <3>3, Zenon
  <2>4. CASE i = 3 \/ i > 3
    <3>1. ~(i <= 2) /\ ~(i + 1 <= 2) /\ rest[i - 2] = plan[(i + 1) - 2]
      BY <2>4, BehindMore
    <3> QED BY <2>1, <3>1, Zenon
  <2>5. i = 1 \/ i = 2 \/ i = 3 \/ i > 3
    BY BehindMore
  <2> QED BY <2>2, <2>3, <2>4, <2>5, Zenon
<1>8. ASSUME rest[i][1] = "drop bank names"
      PROVE  IF i <= 3 THEN quiet' => FactsGone(rest[i][2])' ELSE rest[i - 3] = <<"forget facts", rest[i][2]>>
  <2>1. IF i + 1 <= 3 THEN quiet => FactsGone(rest[i][2]) ELSE plan[(i + 1) - 3] = <<"forget facts", rest[i][2]>>
    BY <1>1, <1>2, <1>8, Zenon DEF BankNamesGoLast
  <2>2. CASE i = 1 \/ i = 2
    <3>1. i <= 3 /\ i + 1 <= 3
      BY <2>2, BehindMore
    <3>2. quiet' => FactsGone(rest[i][2])'
      BY <1>2, <1>3, <2>1, <3>1, Zenon DEF FactsGone
    <3> QED BY <3>1, <3>2, Zenon
  <2>3. CASE i = 3
    <3>1. i <= 3 /\ ~(i + 1 <= 3) /\ (i + 1) - 3 = 1
      BY <2>3, BehindMore
    <3>2. plan[1] = <<"forget facts", rest[i][2]>>
      BY <2>1, <3>1, Zenon
    <3>3. FactsGone(rest[i][2])'
      BY <1>2, <3>2, DoneIs, Zenon DEF FactsGone
    <3> QED BY <3>1, <3>3, Zenon
  <2>4. CASE i > 3
    <3>1. ~(i <= 3) /\ ~(i + 1 <= 3) /\ rest[i - 3] = plan[(i + 1) - 3]
      BY <2>4, BehindMore
    <3> QED BY <2>1, <3>1, Zenon
  <2>5. i = 1 \/ i = 2 \/ i = 3 \/ i > 3
    BY BehindMore
  <2> QED BY <2>2, <2>3, <2>4, <2>5, Zenon
<1>9. ASSUME rest[i][1] = "drop bank name"
      PROVE  IF i <= 1 THEN /\ rest[i][2] # rest[i][3]
                            /\ quiet' => <<rest[i][2], rest[i][3]>> \notin memory'.links
             ELSE rest[i - 1] = <<"unlink", rest[i][2], rest[i][3]>>
  <2>1. plan[i] = <<"unlink", rest[i][2], rest[i][3]>>
    BY <1>1, <1>2, <1>9, Zenon DEF BankNamesGoLast
  <2>2. CASE i = 1
    <3>1. plan[1] = <<"unlink", rest[i][2], rest[i][3]>>
      BY <2>1, <2>2, Zenon
    <3>2. <<rest[i][2], rest[i][3]>> \notin memory'.links
      BY <1>2, <3>1, DoneIs, Zenon
    <3>3. rest[i][2] # rest[i][3]
      <4>1. Ran("button", <<"unlink", rest[i][2], rest[i][3]>>)
        BY <3>1, Zenon
      <4> QED BY <4>1, ThreeParts DEF Ran
    <3> QED BY <1>4, <2>2, <3>2, <3>3, Zenon
  <2> QED BY <1>1, <2>1, <2>2, Zenon
<1> QED BY <1>5, <1>6, <1>7, <1>8, <1>9, Zenon

\* The rest of a rebuild brings nothing back.
LEMMA RestComesBack ==
  ASSUME NEW plan, NEW rest, NEW n, Behind(plan, rest, n), PlanIsGood("script", plan), Ran("script", plan[1])
  PROVE  NothingComesBack(rest)'
<1>1. \A i \in DOMAIN rest : i + 1 \in DOMAIN plan /\ rest[i] = plan[i + 1]
  BY BehindIs
<1>2. erased' = erased /\ NothingComesBack(plan)
  BY Zenon DEF Ran, PlanIsGood
<1>3. \A i \in DOMAIN rest : rest[i][1] = "add alias" /\ <<rest[i][2], rest[i][3]>> \notin erased
  BY <1>1, <1>2, Zenon DEF NothingComesBack
<1> QED BY <1>2, <1>3, Zenon DEF NothingComesBack

\* What is left of a plan is good when its first statement has run.
LEMMA RestIsGood ==
  ASSUME NEW w, NEW plan, NEW rest, NEW n, Behind(plan, rest, n), PlanIsGood(w, plan), Ran(w, plan[1])
  PROVE  PlanIsGood(w, rest)'
<1>1. w = "worker" => GuessesGiveWay(rest)'
  BY RestGuesses, Zenon
<1>2. w = "button" => BankNamesGoLast(rest)'
  BY RestBankNames, Zenon
<1>3. w = "script" => NothingComesBack(rest)'
  BY RestComesBack, Zenon
<1> QED BY <1>1, <1>2, <1>3, RestLinks, RestFacts, RestRoles DEF PlanIsGood

\* So the rest of a good plan is good when its first statement has run.
LEMMA TailIsGood ==
  ASSUME NEW w, NEW plan \in Seq(Statement), plan # <<>>, PlanIsGood(w, plan), Ran(w, Head(plan))
  PROVE  PlanIsGood(w, Tail(plan))'
<1>1. PICK rest : rest = Tail(plan)
  OBVIOUS
<1>2. PICK n \in Nat : DOMAIN plan = 1 .. n + 1 /\ DOMAIN rest = 1 .. n
  <2>1. Len(plan) \in Nat /\ DOMAIN plan = 1 .. Len(plan) /\ Len(plan) # 0
    BY LenProperties, EmptySeq
  <2>2. DOMAIN rest = 1 .. Len(rest) /\ Len(rest) = Len(plan) - 1
    BY <1>1, HeadTailProperties, LenProperties
  <2>3. Len(plan) - 1 \in Nat /\ (Len(plan) - 1) + 1 = Len(plan)
    BY <2>1
  <2> QED BY <2>1, <2>2, <2>3
<1>3. Head(plan) = plan[1] /\ \A i \in 1 .. n : rest[i] = plan[i + 1]
  BY <1>1, <1>2, PlanParts
<1>4. Behind(plan, rest, n)
  BY <1>2, <1>3 DEF Behind
<1>5. Ran(w, plan[1])
  BY <1>3
<1>6. PlanIsGood(w, rest)'
  BY <1>4, <1>5, RestIsGood
<1> QED BY <1>1, <1>6

-----------------------------------------------------------------------------
(* A statement of a writer.                                                *)

\* What is known of the first statement of a good plan.
First(w, s) ==
  /\ s[1] = "add alias" => s[2] # s[3] /\ Free(s[2])
  /\ s[1] = "add fact" => w = "worker" /\ InForce(memory, s[2][1], s[2][2]) = {}
  /\ s[1] \in {"open role", "end role"} => w = "worker" /\ <<s[2], "inferred">> \notin memory.roles
  /\ w = "worker" /\ work = "notes" =>
       /\ s[1] \in {"close fact", "add fact"}
       /\ s[1] = "close fact" => \A f \in InForce(memory, s[2], s[3]) : f[3] = "inferred"
  /\ w = "button" =>
       /\ s[1] # "add alias"
       /\ s[1] = "drop bank names" /\ quiet => RolesGone(s[2]) /\ AliasesGone(s[2]) /\ FactsGone(s[2])
       /\ s[1] = "drop bank name" => s[2] # s[3] /\ (quiet => <<s[2], s[3]>> \notin memory.links)
  /\ w = "script" => s[1] = "add alias" /\ <<s[2], s[3]>> \notin erased

\* What the first statement of a good plan may be.
LEMMA FirstIs ==
  ASSUME NEW w, NEW plan, PlanIsGood(w, plan), 1 \in DOMAIN plan
  PROVE  First(w, plan[1])
<1>1. 1 = 1 /\ 1 <= 1 /\ 1 <= 2 /\ 1 <= 3
  OBVIOUS
<1>2. plan[1][1] = "add alias" => plan[1][2] # plan[1][3] /\ Free(plan[1][2])
  BY Zenon DEF PlanIsGood, LinksAreNew
<1>3. plan[1][1] = "add fact" => w = "worker" /\ InForce(memory, plan[1][2][1], plan[1][2][2]) = {}
  BY <1>1, Zenon DEF PlanIsGood, FactsAreReplaced
<1>4. plan[1][1] \in {"open role", "end role"} => w = "worker" /\ <<plan[1][2], "inferred">> \notin memory.roles
  BY <1>1, Zenon DEF PlanIsGood, RolesAreReplaced
<1>5. w = "worker" /\ work = "notes" =>
        /\ plan[1][1] \in {"close fact", "add fact"}
        /\ plan[1][1] = "close fact" => \A f \in InForce(memory, plan[1][2], plan[1][3]) : f[3] = "inferred"
  BY Zenon DEF PlanIsGood, GuessesGiveWay
<1>6. w = "button" =>
        /\ plan[1][1] # "add alias"
        /\ plan[1][1] = "drop bank names" /\ quiet =>
             RolesGone(plan[1][2]) /\ AliasesGone(plan[1][2]) /\ FactsGone(plan[1][2])
        /\ plan[1][1] = "drop bank name" =>
             plan[1][2] # plan[1][3] /\ (quiet => <<plan[1][2], plan[1][3]>> \notin memory.links)
  BY <1>1, Zenon DEF PlanIsGood, BankNamesGoLast
<1>7. w = "script" => plan[1][1] = "add alias" /\ <<plan[1][2], plan[1][3]>> \notin erased
  BY Zenon DEF PlanIsGood, NothingComesBack
<1> QED BY <1>2, <1>3, <1>4, <1>5, <1>6, <1>7, Zenon DEF First

\* w's first statement s has run, or had no effect.
Wrote(w, s) ==
  /\ w \in Writers /\ plans[w] # <<>> /\ First(w, s)
  /\ Effect(memory, s, memory') /\ Takes(memory, s, memory') /\ Cross(w, s)
  /\ UNCHANGED <<books, parties, queue, talk, quiet>>

\* A statement that fails leaves the memory as it was.
LEMMA NoEffectIs ==
  ASSUME TypeOK, NEW s
  PROVE  Effect(memory, s, memory) /\ Takes(memory, s, memory)
BY SoundIs DEF Effect, Takes

\* A writer with something to do has a plan of statements and its first one.
LEMMA PlanIs ==
  ASSUME IInv, NEW w \in Writers, plans[w] # <<>>
  PROVE  \E plan \in Seq(Statement), s \in Statement :
           /\ plan = plans[w] /\ plan # <<>> /\ PlanIsGood(w, plan) /\ s = Head(plan) /\ First(w, s)
<1>1. PICK plan \in Seq(Statement) : plan = plans[w]
  BY DEF IInv, TalkIsTyped
<1>2. PICK s \in Statement : s = Head(plan) /\ s = plan[1] /\ 1 \in DOMAIN plan
  BY <1>1, PlanParts
<1>3. PlanIsGood(w, plan)
  BY <1>1 DEF IInv, PlansAreGood
<1>4. First(w, s)
  BY <1>2, <1>3, FirstIs
<1> QED BY <1>1, <1>2, <1>3, <1>4

\* A writer at work is no button's that is quiet, and nothing is erased while the worker is.
LEMMA OthersAreAway ==
  ASSUME WorkIsOnAJob, QuietIsQuiet, NEW w \in Writers, plans[w] # <<>>
  PROVE  /\ quiet => w = "button"
         /\ erased # {} => w # "worker"
BY DEF WorkIsOnAJob, QuietIsQuiet, Writers

\* Who was refused depends on the turn.
LEMMA TurnStays ==
  ASSUME RefusedCouldBe, turn' = turn
  PROVE  RefusedCouldBe'
<1>1. Mentioned' = Mentioned
  BY DEF Mentioned
<1>2. ASSUME NEW n PROVE CouldBe(n)' = CouldBe(n)
  BY <1>1 DEF CouldBe
<1> QED BY <1>2 DEF RefusedCouldBe

\* Types, names and single facts and roles survive a statement, done or failed.
LEMMA WroteTypes ==
  ASSUME IInv, NamesAssumption, NEW w, NEW s, Wrote(w, s), work' \in {"start", work}
  PROVE  TypeOK' /\ NamesAreKept' /\ OneOfEach' /\ RefusedCouldBe'
<1>1. Effect(memory, s, memory') /\ First(w, s) /\ Cross(w, s)
  BY DEF Wrote
<1>2. TypeOK'
  <2>1. Sound(memory') /\ UNCHANGED <<books, parties, turn>> /\ \A b \in Names : memory'.bank[b] \in {memory.bank[b], NoName}
    BY <1>1 DEF Effect, Wrote, talk
  <2>2. {memory'.bank[b] : b \in Names} \subseteq parties \cup {NoName}
    <3>1. \A b \in Names : memory.bank[b] \in parties \cup {NoName}
      BY DEF IInv, TypeOK
    <3> QED BY <2>1, <3>1
  <2>3. /\ books' \subseteq parties' /\ parties' \subseteq Names
        /\ work' \in {"start", "notes", "propose", "end"} /\ turn'.unresolved \subseteq Names
    BY <2>1 DEF IInv, TypeOK
  <2> QED BY <2>1, <2>2, <2>3 DEF Sound, TypeOK, AliasNodes
<1>3. crossed \subseteq crossed' /\ Doubled(memory') \subseteq crossed'
  BY <1>1 DEF Cross
<1>4. NamesAreKept'
  <2>1. \A l \in memory'.links : l[1] # l[2]
    <3> TAKE l \in memory'.links
    <3>1. CASE l \in memory.links
      BY <3>1, Zenon DEF IInv, NamesAreKept
    <3>2. CASE l \notin memory.links
      <4>1. l = <<s[2], s[3]>> /\ s[2] # s[3]
        BY <1>1, <3>2, Zenon DEF Effect, First
      <4> QED BY <4>1, PartsAre, Zenon
    <3> QED BY <3>1, <3>2
  <2> QED BY <1>3, <2>1, Zenon DEF NamesAreKept
<1>5. OneOfEach'
  <2>1. ASSUME NEW l \in memory'.links, NEW k \in memory'.links, l[1] = k[1], l[1] \notin crossed' PROVE l = k
    <3>1. \A m \in memory'.links \ memory.links : m = <<s[2], s[3]>> /\ m[1] = s[2] /\ Free(s[2])
      <4> TAKE m \in memory'.links \ memory.links
      <4>1. m = <<s[2], s[3]>> /\ Free(s[2])
        BY <1>1, Zenon DEF Effect, First
      <4> QED BY <4>1, PartsAre, Zenon
    <3>2. l[1] \notin crossed
      BY <1>3, <2>1
    <3>3. CASE l \in memory.links /\ k \in memory.links
      BY <2>1, <3>2, <3>3, Zenon DEF IInv, OneOfEach
    <3>4. CASE l \notin memory.links
      <4>1. l = <<s[2], s[3]>> /\ l[1] = s[2] /\ Free(s[2])
        BY <3>1, <3>4, Zenon
      <4>2. \A m \in memory.links : m[1] # s[2]
        BY <3>2, <4>1, Zenon DEF Free
      <4>3. k \notin memory.links
        BY <2>1, <4>1, <4>2, Zenon
      <4> QED BY <3>1, <4>1, <4>3, Zenon
    <3>5. CASE k \notin memory.links
      <4>1. k = <<s[2], s[3]>> /\ k[1] = s[2] /\ Free(s[2])
        BY <3>1, <3>5, Zenon
      <4>2. \A m \in memory.links : m[1] # s[2]
        BY <2>1, <3>2, <4>1, Zenon DEF Free
      <4>3. l \notin memory.links
        BY <2>1, <4>1, <4>2, Zenon
      <4> QED BY <3>1, <4>1, <4>3, Zenon
    <3> QED BY <3>3, <3>4, <3>5
  <2>2. ASSUME NEW f \in memory'.facts, NEW g \in memory'.facts, f[1] = g[1], f[2] = g[2] PROVE f = g
    <3>1. \A h \in memory'.facts \ memory.facts : h = s[2] /\ InForce(memory, s[2][1], s[2][2]) = {}
      BY <1>1, Zenon DEF Effect, First
    <3>2. CASE f \in memory.facts /\ g \in memory.facts
      BY <2>2, <3>2, Zenon DEF IInv, OneOfEach
    <3>3. CASE f \notin memory.facts
      BY <2>2, <3>1, <3>3 DEF InForce
    <3>4. CASE g \notin memory.facts
      BY <2>2, <3>1, <3>4 DEF InForce
    <3> QED BY <3>2, <3>3, <3>4
  <2>3. ASSUME NEW p \in Names, <<p, "inferred">> \in memory'.roles
        PROVE  {<<p, "stated">>, <<p, "ended">>} \cap memory'.roles = {}
    <3>1. ASSUME NEW f \in memory'.roles \ memory.roles
          PROVE  f[1] = s[2] /\ f[2] # "inferred" /\ <<s[2], "inferred">> \notin memory.roles
      <4>1. /\ <<s[2], "inferred">> \notin memory.roles
            /\ f = <<s[2], "stated">> \/ f = <<s[2], "ended">>
        BY <1>1, Zenon DEF Effect, First
      <4> QED BY <4>1, PartsAre
    <3>2. \A x : <<p, x>>[1] = p /\ <<p, x>>[2] = x
      BY PartsAre
    <3>3. <<p, "inferred">> \in memory.roles
      BY <2>3, <3>1, <3>2, Zenon
    <3>4. <<p, "stated">> \notin memory.roles /\ <<p, "ended">> \notin memory.roles
      BY <3>3 DEF IInv, OneOfEach
    <3>5. ASSUME NEW x, <<p, x>> \in memory'.roles PROVE <<p, x>> \in memory.roles
      <4>1. CASE <<p, x>> \notin memory.roles
        <5>1. s[2] = p /\ <<s[2], "inferred">> \notin memory.roles
          BY <3>1, <3>2, <3>5, <4>1, Zenon
        <5> QED BY <3>3, <5>1, Zenon
      <4> QED BY <4>1
    <3> QED BY <3>4, <3>5
  <2> QED BY <2>1, <2>2, <2>3, Zenon DEF OneOfEach
<1>6. RefusedCouldBe'
  BY TurnStays DEF IInv, Wrote, talk
<1> QED BY <1>2, <1>4, <1>5, <1>6

\* What was erased before stays away.
LEMMA WroteErased ==
  ASSUME IInv, NamesAssumption, NEW w, NEW s, Wrote(w, s)
  PROVE  /\ \A l \in erased : l \notin memory'.links /\ memory'.bank[l[1]] # l[2]
         /\ \A p \in Names : <<p, p>> \in erased => FactsGone(p)' /\ RolesGone(p)'
<1>1. Effect(memory, s, memory') /\ First(w, s) /\ w \in Writers /\ plans[w] # <<>>
  BY DEF Wrote
<1>2. SUFFICES ASSUME erased # {}
               PROVE  /\ \A l \in erased : l \notin memory'.links /\ memory'.bank[l[1]] # l[2]
                      /\ \A p \in Names : <<p, p>> \in erased => FactsGone(p)' /\ RolesGone(p)'
  OBVIOUS
<1>3. w # "worker"
  BY <1>1, <1>2, OthersAreAway DEF IInv
<1>4. ASSUME NEW l \in erased PROVE l \notin memory'.links /\ memory'.bank[l[1]] # l[2]
  <2>1. l \notin memory.links /\ memory.bank[l[1]] # l[2] /\ l[1] \in Names /\ l[2] \in Names
    BY DEF IInv, ErasedIsGone, TalkIsTyped
  <2>2. w = "button" \/ w = "script"
    BY <1>1, <1>3 DEF Writers
  <2>3. l \notin memory'.links
    <3>1. l \in memory'.links => s[1] = "add alias" /\ l = <<s[2], s[3]>>
      BY <1>1, <2>1, Zenon DEF Effect
    <3>2. w = "button" => s[1] # "add alias"
      BY <1>1, Zenon DEF First
    <3>3. w = "script" => <<s[2], s[3]>> \notin erased
      BY <1>1, Zenon DEF First
    <3> QED BY <1>4, <2>2, <3>1, <3>2, <3>3, Zenon
  <2>4. memory'.bank[l[1]] # l[2]
    <3>1. memory'.bank[l[1]] = memory.bank[l[1]] \/ memory'.bank[l[1]] = NoName
      BY <1>1, <2>1 DEF Effect
    <3> QED BY <2>1, <3>1 DEF NamesAssumption
  <2> QED BY <2>3, <2>4
<1>5. ASSUME NEW p \in Names, <<p, p>> \in erased PROVE FactsGone(p)' /\ RolesGone(p)'
  <2>1. FactsGone(p) /\ RolesGone(p)
    BY <1>5 DEF IInv, ErasedIsGone
  <2>2. memory'.facts \subseteq memory.facts /\ memory'.roles \subseteq memory.roles
    BY <1>1, <1>3 DEF Effect, First
  <2> QED BY <2>1, <2>2 DEF FactsGone, RolesGone
<1> QED BY <1>4, <1>5

\* The queue has another length when a job is appended.
LEMMA AppendIsNew ==
  ASSUME NEW S, NEW q \in Seq(S), NEW e
  PROVE  q # Append(q, e)
<1>1. Len(q) \in Nat
  BY LenProperties
<1>2. Len(Append(q, e)) = Len(q) + 1
  OBVIOUS
<1> QED BY <1>1, <1>2

\* What the trader stated stands.
LEMMA WroteStands ==
  ASSUME IInv, NEW w, NEW s, Wrote(w, s), \A v \in Writers : v # w => plans'[v] = plans[v]
  PROVE  StatedStands /\ PeopleStayApart
<1>1. Effect(memory, s, memory') /\ First(w, s) /\ Takes(memory, s, memory')
  BY DEF Wrote
<1>2. ASSUME NEW f \in memory'.facts \ memory.facts
      PROVE  \A g \in InForce(memory, f[1], f[2]) : g[3] # "stated"
  BY <1>1, Zenon DEF Effect, First
<1>3. ASSUME work = "notes", plans'["worker"] # plans["worker"], NEW f \in memory.facts \ memory'.facts
      PROVE  f[3] # "stated"
  <2>1. w = "worker"
    BY <1>3 DEF Writers
  <2>2. /\ s[1] \in {"close fact", "add fact"}
        /\ s[1] = "close fact" => \A g \in InForce(memory, s[2], s[3]) : g[3] = "inferred"
    BY <1>1, <1>3, <2>1, Zenon DEF First
  <2>3. (s[1] = "close fact" /\ f[1] = s[2] /\ f[2] = s[3]) \/ s[1] = "forget facts"
    BY <1>1, Zenon DEF Takes
  <2>4. s[1] = "close fact" /\ f \in InForce(memory, s[2], s[3])
    BY <2>2, <2>3 DEF InForce
  <2>5. f[3] = "inferred"
    BY <2>2, <2>4, Zenon
  <2> QED BY <2>5
<1>4. StatedStands
  BY <1>2, <1>3, Zenon DEF StatedStands
<1>5. PeopleStayApart
  BY AppendIsNew DEF Wrote, PeopleStayApart, Recorded, IInv, TalkIsTyped
<1> QED BY <1>4, <1>5

\* The plans of the others stay good.
LEMMA WroteOthers ==
  ASSUME IInv, NEW w, NEW s, Wrote(w, s), work' \in {"start", work},
         erased' = erased \/ (w = "button" /\ quiet),
         NEW v \in Writers, v # w, NEW plan, plan = plans[v]
  PROVE  PlanIsGood(v, plan)'
<1>1. Effect(memory, s, memory') /\ First(w, s) /\ w \in Writers /\ plans[w] # <<>> /\ Cross(w, s) /\ quiet' = quiet
  BY DEF Wrote
<1>2. CASE plan = <<>>
  BY <1>2, EmptyIsGood
<1>3. CASE plan # <<>>
  <2>1. PlanIsGood(v, plan)
    BY DEF IInv, PlansAreGood
  <2>2. crossed \subseteq crossed'
    BY <1>1 DEF Cross
  <2>3. \A l \in memory'.links \ memory.links :
          l[1] \in crossed' \/ \A i \in DOMAIN plan : ~(plan[i][1] = "add alias" /\ plan[i][2] = l[1])
    <3> TAKE l \in memory'.links \ memory.links
    <3>1. s[1] = "add alias" /\ l = <<s[2], s[3]>>
      BY <1>1, Zenon DEF Effect
    <3>2. l[1] = s[2]
      BY <3>1, PartsAre, Zenon
    <3>3. CASE Linking(Writers \ {w}, s[2])
      BY <1>1, <3>1, <3>2, <3>3 DEF Cross
    <3>4. CASE ~Linking(Writers \ {w}, s[2])
      <4>1. v \in Writers \ {w}
        OBVIOUS
      <4> QED BY <3>2, <3>4, <4>1, Zenon DEF Linking
    <3> QED BY <3>3, <3>4
  <2>4. v = "worker" => /\ memory'.facts \subseteq memory.facts
                        /\ \A f \in memory'.roles \ memory.roles : f[2] # "inferred"
                        /\ work' = work \/ work' # "notes"
    <3> SUFFICES ASSUME v = "worker"
                 PROVE  /\ memory'.facts \subseteq memory.facts /\ memory'.roles \subseteq memory.roles
                        /\ work' = work \/ work' # "notes"
      OBVIOUS
    <3>1. w # "worker"
      OBVIOUS
    <3> QED BY <1>1, <3>1 DEF Effect, First
  <2>5. v = "button" => ~quiet'
    BY <1>1, OthersAreAway DEF IInv
  <2>6. v = "script" => erased' \subseteq erased
    BY <1>3 DEF IInv, QuietIsQuiet
  <2> QED BY <2>1, <2>2, <2>3, <2>4, <2>5, <2>6, PlanStays
<1> QED BY <1>2, <1>3

\* What a statement is counted to have erased.
LEMMA ErasedIs ==
  ASSUME NEW w, NEW s \in Statement
  PROVE  /\ Erased(w, s) \subseteq Names \X Names
         /\ \A l \in Erased(w, s) :
              /\ w = "button" /\ quiet
              /\ \/ s[1] = "drop bank names" /\ l[2] = s[2]
                 \/ s[1] = "drop bank name" /\ l = <<s[2], s[3]>>
<1>1. CASE w # "button" \/ ~quiet
  BY <1>1 DEF Erased
<1>2. CASE w = "button" /\ quiet
  <2>1. CASE s[1] = "drop bank names"
    <3>1. s[2] \in Names
      <4>1. ASSUME NEW p \in Names, NEW k \in Kinds, s = <<"close fact", p, k>> PROVE FALSE
        BY <2>1, <4>1
      <4>2. ASSUME NEW f \in Fact, s = <<"add fact", f>> PROVE FALSE
        BY <2>1, <4>2
      <4>3. ASSUME NEW a \in Names, NEW p \in Names, NEW what \in OfLink, s = <<what, a, p>> PROVE s[2] \in Names
        BY <4>3
      <4>4. ASSUME NEW p \in Names, NEW what \in OfPerson, s = <<what, p>> PROVE s[2] \in Names
        BY <4>4
      <4> QED BY <4>1, <4>2, <4>3, <4>4, StatementIs, Zenon
    <3>2. Erased(w, s) = Names \X {s[2]}
      BY <1>2, <2>1 DEF Erased
    <3>3. \A l \in Names \X {s[2]} : l \in Names \X Names /\ l[2] = s[2]
      BY <3>1
    <3> QED BY <1>2, <2>1, <3>2, <3>3, Zenon
  <2>2. CASE s[1] = "drop bank name"
    <3>1. s[2] \in Names /\ s[3] \in Names
      <4>1. ASSUME NEW p \in Names, NEW k \in Kinds, s = <<"close fact", p, k>> PROVE FALSE
        BY <2>2, <4>1
      <4>2. ASSUME NEW f \in Fact, s = <<"add fact", f>> PROVE FALSE
        BY <2>2, <4>2
      <4>3. ASSUME NEW a \in Names, NEW p \in Names, NEW what \in OfLink, s = <<what, a, p>>
            PROVE  s[2] \in Names /\ s[3] \in Names
        BY <4>3
      <4>4. ASSUME NEW p \in Names, NEW what \in OfPerson, s = <<what, p>> PROVE FALSE
        BY <2>2, <4>4 DEF OfPerson
      <4> QED BY <4>1, <4>2, <4>3, <4>4, StatementIs, Zenon
    <3>2. Erased(w, s) = {<<s[2], s[3]>>}
      BY <1>2, <2>2 DEF Erased
    <3>3. <<s[2], s[3]>> \in Names \X Names
      BY <3>1, PairIs
    <3>4. \A l \in {<<s[2], s[3]>>} : l = <<s[2], s[3]>>
      OBVIOUS
    <3> QED BY <1>2, <2>2, <3>2, <3>3, <3>4
  <2>3. CASE s[1] # "drop bank names" /\ s[1] # "drop bank name"
    BY <1>2, <2>3 DEF Erased
  <2> QED BY <2>1, <2>2, <2>3
<1> QED BY <1>1, <1>2

\* What a button's last statement erases is away when it has run.
LEMMA ErasedNow ==
  ASSUME IInv, NamesAssumption, NEW w, NEW s \in Statement, Wrote(w, s), Done(s, memory')
  PROVE  /\ \A l \in Erased(w, s) : l \notin memory'.links /\ memory'.bank[l[1]] # l[2]
         /\ \A p \in Names : <<p, p>> \in Erased(w, s) => FactsGone(p)' /\ RolesGone(p)'
<1>1. Effect(memory, s, memory') /\ First(w, s)
  BY DEF Wrote
<1>2. ASSUME NEW l \in Erased(w, s) PROVE l \notin memory'.links /\ memory'.bank[l[1]] # l[2]
  <2>0. l \in Names \X Names /\ w = "button" /\ quiet
    BY ErasedIs
  <2>1. l[1] \in Names /\ l[2] \in Names /\ w = "button" /\ quiet
    BY <2>0, PairIs
  <2>2. CASE s[1] = "drop bank names" /\ l[2] = s[2]
    <3>1. AliasesGone(s[2]) /\ memory'.bank[l[1]] # s[2]
      BY <1>1, <2>1, <2>2, Zenon DEF First, Done
    <3>2. memory'.links \subseteq memory.links
      BY <1>1, <2>2 DEF Effect
    <3> QED BY <2>2, <3>1, <3>2 DEF AliasesGone
  <2>3. CASE s[1] = "drop bank name" /\ l = <<s[2], s[3]>>
    <3>1. l \notin memory.links /\ memory'.bank[s[2]] # s[3]
      BY <1>1, <2>1, <2>3, Zenon DEF First, Done
    <3>2. memory'.links \subseteq memory.links
      BY <1>1, <2>3 DEF Effect
    <3>3. l[1] = s[2] /\ l[2] = s[3]
      BY <2>3, PartsAre, Zenon
    <3> QED BY <3>1, <3>2, <3>3
  <2> QED BY <2>2, <2>3, ErasedIs
<1>3. ASSUME NEW p \in Names, <<p, p>> \in Erased(w, s) PROVE FactsGone(p)' /\ RolesGone(p)'
  <2>1. PICK l \in Erased(w, s) : l = <<p, p>>
    BY <1>3
  <2>2. l[1] = p /\ l[2] = p /\ w = "button" /\ quiet
    BY <2>1, ErasedIs, PartsAre
  <2>3. CASE s[1] = "drop bank names" /\ l[2] = s[2]
    <3>1. FactsGone(p) /\ RolesGone(p)
      BY <1>1, <2>2, <2>3, Zenon DEF First
    <3>2. memory'.facts \subseteq memory.facts /\ memory'.roles \subseteq memory.roles
      BY <1>1, <2>3 DEF Effect
    <3> QED BY <3>1, <3>2 DEF FactsGone, RolesGone
  <2>4. CASE s[1] = "drop bank name" /\ l = <<s[2], s[3]>>
    <3>1. s[2] # s[3]
      BY <1>1, <2>2, <2>4, Zenon DEF First
    <3>2. l[1] = s[2] /\ l[2] = s[3]
      BY <2>4, PartsAre, Zenon
    <3> QED BY <2>2, <3>1, <3>2
  <2> QED BY <2>3, <2>4, ErasedIs
<1> QED BY <1>2, <1>3

\* What a step must keep, and what it must not do.
Step == IInv' /\ StatedStands /\ PeopleStayApart

\* A statement that runs keeps the invariant, and the trader has the last word.
LEMMA RunKeeps ==
  ASSUME IInv, NamesAssumption, NEW w \in Writers, Run(w)
  PROVE  Step
<1>1. plans[w] # <<>>
  BY DEF Run
<1>2. PICK plan \in Seq(Statement), s \in Statement :
        plan = plans[w] /\ plan # <<>> /\ PlanIsGood(w, plan) /\ s = Head(plan) /\ First(w, s)
  BY <1>1, PlanIs
<1>3. PICK rest : rest = IF Refused(memory, s) THEN <<>> ELSE Tail(plan)
  OBVIOUS
<1>4. /\ memory' = Result(memory, s) /\ plans' = [plans EXCEPT ![w] = rest]
      /\ erased' = erased \cup Erased(w, s) /\ Cross(w, s)
      /\ UNCHANGED <<books, parties, queue, work, talk, quiet>>
  BY <1>2, <1>3 DEF Run, Plan
<1>5. Effect(memory, s, memory') /\ Done(s, memory') /\ Takes(memory, s, memory')
  <2>1. Sound(memory)
    BY SoundIs DEF IInv
  <2>2. PICK m : m = memory
    OBVIOUS
  <2>3. Effect(m, s, Result(m, s)) /\ Done(s, Result(m, s)) /\ Takes(m, s, Result(m, s))
    BY <2>1, <2>2, ResultIs
  <2> QED BY <1>4, <2>2, <2>3
<1>6. Wrote(w, s)
  BY <1>1, <1>2, <1>4, <1>5 DEF Wrote
<1>7. work' = work /\ quiet' = quiet /\ queue' = queue /\ turn' = turn
  BY <1>4 DEF talk
<1>8. TypeOK' /\ NamesAreKept' /\ OneOfEach' /\ RefusedCouldBe'
  BY <1>6, <1>7, WroteTypes
<1>9. rest \in Seq(Statement) /\ plans \in [Writers -> Seq(Statement)]
  <2>1. Tail(plan) \in Seq(Statement)
    BY <1>2, PlanParts
  <2> QED BY <1>3, <2>1 DEF IInv, TalkIsTyped
<1>10. \A v \in Writers : plans'[v] = IF v = w THEN rest ELSE plans[v]
  BY <1>4, <1>9
<1>11. TalkIsTyped'
  <2>1. plans' \in [Writers -> Seq(Statement)]
    BY <1>4, <1>9
  <2>2. erased' \subseteq Names \X Names
    BY <1>4, ErasedIs DEF IInv, TalkIsTyped
  <2> QED BY <1>4, <2>1, <2>2 DEF IInv, TalkIsTyped, talk
<1>12. WorkIsOnAJob'
  <2>1. "worker" \in Writers
    BY DEF Writers
  <2>2. plans'["worker"] # <<>> => plans["worker"] # <<>>
    BY <1>1, <1>10, <2>1
  <2> QED BY <1>7, <2>2 DEF IInv, WorkIsOnAJob, Job
<1>13. QuietIsQuiet'
  <2>1. "script" \in Writers
    BY DEF Writers
  <2>2. quiet => plans'["script"] = <<>>
    BY <1>1, <1>10, <2>1 DEF IInv, QuietIsQuiet
  <2>3. erased' # {} => erased # {} \/ quiet
    BY <1>4, ErasedIs
  <2> QED BY <1>7, <2>2, <2>3 DEF IInv, QuietIsQuiet
<1>14. PlanIsGood(w, rest)'
  <2>1. CASE Refused(memory, s)
    BY <1>3, <2>1, EmptyIsGood
  <2>2. CASE ~Refused(memory, s)
    <3>1. s[1] = "unlink" => s[2] # s[3]
      <4>1. s[1] = "unlink" => <<s[2], s[3]>> \in memory.links
        BY <2>2 DEF Refused
      <4>2. <<s[2], s[3]>>[1] = s[2] /\ <<s[2], s[3]>>[2] = s[3]
        BY PartsAre
      <4> QED BY <4>1, <4>2, Zenon DEF IInv, NamesAreKept
    <3>2. w = "script" => erased' = erased
      BY <1>4, ErasedIs
    <3>3. crossed \subseteq crossed'
      BY <1>4 DEF Cross
    <3>4. Ran(w, Head(plan))
      BY <1>2, <1>5, <1>7, <3>1, <3>2, <3>3 DEF Ran
    <3>5. PlanIsGood(w, Tail(plan))'
      BY <1>2, <3>4, TailIsGood
    <3> QED BY <1>3, <2>2, <3>5
  <2> QED BY <2>1, <2>2
<1>15. PlansAreGood'
  <2> SUFFICES ASSUME NEW v \in Writers PROVE PlanIsGood(v, plans[v])'
    BY DEF PlansAreGood
  <2>1. CASE v = w
    <3>1. plans'[v] = rest
      BY <1>10, <2>1
    <3> QED BY <1>14, <2>1, <3>1
  <2>2. CASE v # w
    <3>1. PICK other : other = plans[v]
      OBVIOUS
    <3>2. erased' = erased \/ (w = "button" /\ quiet)
      BY <1>4, ErasedIs
    <3>3. PlanIsGood(v, other)'
      BY <1>6, <1>7, <2>2, <3>1, <3>2, WroteOthers
    <3>4. plans'[v] = other
      BY <1>10, <2>2, <3>1
    <3> QED BY <3>3, <3>4
  <2> QED BY <2>1, <2>2
<1>16. ErasedIsGone'
  <2>1. /\ \A l \in erased : l \notin memory'.links /\ memory'.bank[l[1]] # l[2]
        /\ \A p \in Names : <<p, p>> \in erased => FactsGone(p)' /\ RolesGone(p)'
    BY <1>6, WroteErased
  <2>2. /\ \A l \in Erased(w, s) : l \notin memory'.links /\ memory'.bank[l[1]] # l[2]
        /\ \A p \in Names : <<p, p>> \in Erased(w, s) => FactsGone(p)' /\ RolesGone(p)'
    BY <1>5, <1>6, ErasedNow
  <2>3. \A l \in erased' : l \in erased \/ l \in Erased(w, s)
    BY <1>4
  <2> QED BY <2>1, <2>2, <2>3 DEF ErasedIsGone
<1>17. StatedStands /\ PeopleStayApart
  BY <1>6, <1>10, WroteStands
<1> QED BY <1>8, <1>11, <1>12, <1>13, <1>15, <1>16, <1>17 DEF Step, IInv

\* So does a statement that fails, and drops the rest of its plan.
LEMMA FailKeeps ==
  ASSUME IInv, NamesAssumption, NEW w \in Writers, Fail(w)
  PROVE  Step
<1>1. plans[w] # <<>>
  BY DEF Fail
<1>2. PICK plan \in Seq(Statement), s \in Statement :
        plan = plans[w] /\ plan # <<>> /\ PlanIsGood(w, plan) /\ s = Head(plan) /\ First(w, s)
  BY <1>1, PlanIs
<1>4. /\ memory' \in {memory, Result(memory, s)} /\ plans' = [plans EXCEPT ![w] = <<>>]
      /\ work' = IF w = "worker" /\ work # "end" THEN "start" ELSE work
      /\ Cross(w, s) /\ UNCHANGED <<books, parties, queue, talk, erased, quiet>>
  BY <1>2 DEF Fail, Plan
<1>5. Effect(memory, s, memory') /\ Takes(memory, s, memory')
  <2>1. Sound(memory) /\ Effect(memory, s, memory) /\ Takes(memory, s, memory)
    BY SoundIs, NoEffectIs DEF IInv
  <2>2. PICK m : m = memory
    OBVIOUS
  <2>3. Effect(m, s, Result(m, s)) /\ Takes(m, s, Result(m, s))
    BY <2>1, <2>2, ResultIs
  <2>4. CASE memory' = memory
    BY <2>1, <2>4
  <2>5. CASE memory' = Result(memory, s)
    BY <2>2, <2>3, <2>5
  <2> QED BY <1>4, <2>4, <2>5
<1>6. Wrote(w, s)
  BY <1>1, <1>2, <1>4, <1>5 DEF Wrote
<1>7. work' \in {"start", work} /\ quiet' = quiet /\ queue' = queue /\ turn' = turn /\ erased' = erased
  BY <1>4 DEF talk
<1>8. TypeOK' /\ NamesAreKept' /\ OneOfEach' /\ RefusedCouldBe'
  BY <1>6, <1>7, WroteTypes
<1>9. plans \in [Writers -> Seq(Statement)]
  BY DEF IInv, TalkIsTyped
<1>10. \A v \in Writers : plans'[v] = IF v = w THEN <<>> ELSE plans[v]
  BY <1>4, <1>9
<1>11. TalkIsTyped'
  <2>1. plans' \in [Writers -> Seq(Statement)]
    BY <1>4, <1>9
  <2> QED BY <1>4, <2>1 DEF IInv, TalkIsTyped, talk
<1>12. WorkIsOnAJob'
  <2>1. "worker" \in Writers
    BY DEF Writers
  <2>2. plans'["worker"] # <<>> => plans["worker"] # <<>>
    BY <1>1, <1>10, <2>1
  <2>3. work' # "start" => work # "start"
    BY <1>7
  <2> QED BY <1>7, <2>2, <2>3 DEF IInv, WorkIsOnAJob, Job
<1>13. QuietIsQuiet'
  <2>1. "script" \in Writers
    BY DEF Writers
  <2>2. quiet => plans'["script"] = <<>>
    BY <1>1, <1>10, <2>1 DEF IInv, QuietIsQuiet
  <2> QED BY <1>7, <2>2 DEF IInv, QuietIsQuiet
<1>15. PlansAreGood'
  <2> SUFFICES ASSUME NEW v \in Writers PROVE PlanIsGood(v, plans[v])'
    BY DEF PlansAreGood
  <2>1. CASE v = w
    <3>1. plans'[v] = <<>>
      BY <1>10, <2>1
    <3> QED BY <3>1, EmptyIsGood
  <2>2. CASE v # w
    <3>1. PICK other : other = plans[v]
      OBVIOUS
    <3>3. PlanIsGood(v, other)'
      BY <1>6, <1>7, <2>2, <3>1, WroteOthers
    <3>4. plans'[v] = other
      BY <1>10, <2>2, <3>1
    <3> QED BY <3>3, <3>4
  <2> QED BY <2>1, <2>2
<1>16. ErasedIsGone'
  BY <1>6, <1>7, WroteErased DEF ErasedIsGone
<1>17. StatedStands /\ PeopleStayApart
  BY <1>6, <1>10, WroteStands
<1> QED BY <1>8, <1>11, <1>12, <1>13, <1>15, <1>16, <1>17 DEF Step, IInv

-----------------------------------------------------------------------------
(* Steps that leave the links, the facts and the roles as they are.        *)

MemoryRests ==
  /\ memory'.nodes = memory.nodes /\ memory'.links = memory.links
  /\ memory'.facts = memory.facts /\ memory'.roles = memory.roles
  /\ crossed' = crossed
  /\ (memory'.bank = memory.bank /\ erased' = erased) \/ erased' = {}

\* What is in order stays so while the memory rests.
LEMMA OrderStands ==
  ASSUME IInv, MemoryRests
  PROVE  NamesAreKept' /\ OneOfEach' /\ ErasedIsGone' /\ StatedStands
<1>1. NamesAreKept'
  BY DEF IInv, MemoryRests, NamesAreKept, Doubled
<1>2. OneOfEach'
  BY DEF IInv, MemoryRests, OneOfEach
<1>3. ErasedIsGone'
  <2>1. CASE erased' = {}
    BY <2>1 DEF ErasedIsGone
  <2>2. CASE memory'.bank = memory.bank /\ erased' = erased
    BY <2>2 DEF IInv, MemoryRests, ErasedIsGone, FactsGone, RolesGone
  <2> QED BY <2>1, <2>2 DEF MemoryRests
<1>4. StatedStands
  BY DEF StatedStands, MemoryRests
<1> QED BY <1>1, <1>2, <1>3, <1>4

\* The plan of a writer that plans nothing.
LEMMA PlanStands ==
  ASSUME IInv, MemoryRests, NEW w \in Writers, NEW plan, plan = plans[w],
         w = "worker" => work' = work \/ work' # "notes",
         w = "button" => (quiet' => quiet)
  PROVE  PlanIsGood(w, plan)'
<1>1. PlanIsGood(w, plan)
  BY DEF IInv, PlansAreGood
<1>2. /\ crossed \subseteq crossed' /\ memory'.links \subseteq memory.links
      /\ memory'.facts \subseteq memory.facts /\ memory'.roles \subseteq memory.roles
      /\ erased' \subseteq erased
  BY DEF MemoryRests
<1> QED BY <1>1, <1>2, PlanStays

\* Types stay while the memory and the talk rest.
LEMMA TypesRest ==
  ASSUME TypeOK, UNCHANGED <<books, parties, memory, turn>>, work' \in {"start", "notes", "propose", "end"}
  PROVE  TypeOK'
<1>1. books' = books /\ parties' = parties /\ memory' = memory /\ turn' = turn
  OBVIOUS
<1> QED BY <1>1 DEF TypeOK, AliasNodes

\* Nothing is recorded while the queue stays as it is.
LEMMA ApartIdle ==
  ASSUME TalkIsTyped, queue' = queue
  PROVE  PeopleStayApart
<1>1. \A n : queue # Append(queue, [kind |-> "sync", names |-> {n}])
  BY AppendIsNew DEF TalkIsTyped
<1> QED BY <1>1 DEF PeopleStayApart, Recorded

-----------------------------------------------------------------------------
(* The plans that are made.                                                *)

\* The positions in a plan of four.
LEMMA SmallNumbers ==
  /\ 2 # 1 /\ 2 - 1 = 1 /\ ~(2 <= 1)
  /\ ~(4 <= 1) /\ ~(4 <= 2) /\ ~(4 <= 3) /\ 4 - 1 = 3 /\ 4 - 2 = 2 /\ 4 - 3 = 1 /\ 4 # 1
OBVIOUS

\* What the handlers write are statements.
LEMMA StatementsAre ==
  /\ \A p \in Names, k \in Kinds : <<"close fact", p, k>> \in Statement
  /\ \A f \in Fact : <<"add fact", f>> \in Statement
  /\ \A a, p \in Names, what \in OfLink : <<what, a, p>> \in Statement
  /\ \A p \in Names, what \in OfPerson : <<what, p>> \in Statement
<1>1. ASSUME NEW p \in Names, NEW k \in Kinds PROVE <<"close fact", p, k>> \in {"close fact"} \X Names \X Kinds
  OBVIOUS
<1>2. ASSUME NEW f \in Fact PROVE <<"add fact", f>> \in {"add fact"} \X Fact
  OBVIOUS
<1>3. ASSUME NEW a \in Names, NEW p \in Names, NEW what \in OfLink PROVE <<what, a, p>> \in OfLink \X Names \X Names
  OBVIOUS
<1>4. ASSUME NEW p \in Names, NEW what \in OfPerson PROVE <<what, p>> \in OfPerson \X Names
  OBVIOUS
<1> QED BY <1>1, <1>2, <1>3, <1>4 DEF Statement

\* A plan of one.
LEMMA OneStatement ==
  ASSUME NEW s \in Statement
  PROVE  <<s>> \in Seq(Statement) /\ DOMAIN <<s>> = {1} /\ <<s>>[1] = s
OBVIOUS

\* A plan of two.
LEMMA TwoStatements ==
  ASSUME NEW s \in Statement, NEW t \in Statement
  PROVE  <<s, t>> \in Seq(Statement) /\ DOMAIN <<s, t>> = {1, 2} /\ <<s, t>>[1] = s /\ <<s, t>>[2] = t
OBVIOUS

\* A plan of four.
LEMMA FourStatements ==
  ASSUME NEW s \in Statement, NEW t \in Statement, NEW u \in Statement, NEW v \in Statement
  PROVE  /\ <<s, t, u, v>> \in Seq(Statement) /\ DOMAIN <<s, t, u, v>> = {1, 2, 3, 4}
         /\ <<s, t, u, v>>[1] = s /\ <<s, t, u, v>>[2] = t /\ <<s, t, u, v>>[3] = u /\ <<s, t, u, v>>[4] = v
OBVIOUS

\* What any plan has to be, whoever makes it.
Sane(w, plan) ==
  /\ plan \in Seq(Statement)
  /\ LinksAreNew(plan) /\ FactsAreReplaced(w, plan) /\ RolesAreReplaced(w, plan)

\* Statements that neither link, add nor open anything.
Takers == {"close fact", "close alias", "unlink", "drop bank name", "forget facts", "forget aliases",
           "forget roles", "remove party", "delete inferred role", "drop bank names"}

\* A plan that only takes away is sane.
LEMMA TakersAreSane ==
  ASSUME NEW w, NEW plan \in Seq(Statement), \A i \in DOMAIN plan : plan[i][1] \in Takers
  PROVE  Sane(w, plan)
BY DEF Sane, LinksAreNew, FactsAreReplaced, RolesAreReplaced, Takers

\* Linking a free name is sane.
LEMMA LinkIsSane ==
  ASSUME NEW a \in Names, NEW p \in Names, a # p, Free(a)
  PROVE  Sane("worker", <<<<"add alias", a, p>>>>)
<1>1. PICK s : s = <<"add alias", a, p>>
  OBVIOUS
<1>2. s \in Statement /\ s[1] = "add alias" /\ s[2] = a /\ s[3] = p
  <2>1. "add alias" \in OfLink
    BY DEF OfLink
  <2>2. s \in Statement
    BY <1>1, <2>1, StatementsAre
  <2> QED BY <1>1, <2>2, ThreeParts
<1>3. PICK plan : plan = <<s>>
  OBVIOUS
<1>4. plan \in Seq(Statement) /\ DOMAIN plan = {1} /\ plan[1] = s
  BY <1>2, <1>3, OneStatement
<1>5. Sane("worker", plan)
  BY <1>2, <1>4 DEF Sane, LinksAreNew, FactsAreReplaced, RolesAreReplaced
<1> QED BY <1>1, <1>3, <1>5

\* So is removing the empty person of that name first.
LEMMA RemoveAndLinkIsSane ==
  ASSUME NEW a \in Names, NEW p \in Names, a # p, Free(a)
  PROVE  Sane("worker", <<<<"remove party", a>>, <<"add alias", a, p>>>>)
<1>1. PICK s : s = <<"add alias", a, p>>
  OBVIOUS
<1>2. s \in Statement /\ s[1] = "add alias" /\ s[2] = a /\ s[3] = p
  <2>1. "add alias" \in OfLink
    BY DEF OfLink
  <2>2. s \in Statement
    BY <1>1, <2>1, StatementsAre
  <2> QED BY <1>1, <2>2, ThreeParts
<1>3. PICK t : t = <<"remove party", a>>
  OBVIOUS
<1>4. t \in Statement /\ t[1] = "remove party"
  <2>1. "remove party" \in OfPerson
    BY DEF OfPerson
  <2>2. t \in Statement
    BY <1>3, <2>1, StatementsAre
  <2> QED BY <1>3, <2>2, PartsAre
<1>5. PICK plan : plan = <<t, s>>
  OBVIOUS
<1>6. plan \in Seq(Statement) /\ DOMAIN plan = {1, 2} /\ plan[1] = t /\ plan[2] = s
  BY <1>2, <1>4, <1>5, TwoStatements
<1>7. Sane("worker", plan)
  BY <1>2, <1>4, <1>6 DEF Sane, LinksAreNew, FactsAreReplaced, RolesAreReplaced
<1> QED BY <1>1, <1>3, <1>5, <1>7

\* Setting a fact closes the old ones first.
LEMMA SetFactIsSane ==
  ASSUME NEW p \in Names, NEW k \in Kinds, NEW how \in {"stated", "inferred"}, NEW what \in Contents
  PROVE  /\ Sane("worker", SetFact(p, k, how, what))
         /\ DOMAIN SetFact(p, k, how, what) = {1, 2}
         /\ SetFact(p, k, how, what)[1] = <<"close fact", p, k>>
         /\ SetFact(p, k, how, what)[2] = <<"add fact", <<p, k, how, what>>>>
<1>1. PICK f : f = <<p, k, how, what>>
  OBVIOUS
<1>2. f \in Fact /\ f[1] = p /\ f[2] = k
  BY <1>1 DEF Fact
<1>3. PICK s : s = <<"close fact", p, k>>
  OBVIOUS
<1>4. s \in Statement /\ s[1] = "close fact"
  BY <1>3, StatementsAre, ThreeParts
<1>5. PICK t : t = <<"add fact", f>>
  OBVIOUS
<1>6. t \in Statement /\ t[1] = "add fact" /\ t[2] = f
  BY <1>2, <1>5, StatementsAre, PartsAre
<1>7. PICK plan : plan = <<s, t>>
  OBVIOUS
<1>8. plan \in Seq(Statement) /\ DOMAIN plan = {1, 2} /\ plan[1] = s /\ plan[2] = t
  BY <1>4, <1>6, <1>7, TwoStatements
<1>9. LinksAreNew(plan) /\ RolesAreReplaced("worker", plan)
  BY <1>4, <1>6, <1>8 DEF LinksAreNew, RolesAreReplaced
<1>10. FactsAreReplaced("worker", plan)
  <2>1. ASSUME NEW i \in DOMAIN plan, plan[i][1] = "add fact" PROVE i = 2 /\ i # 1 /\ i - 1 = 1 /\ plan[i] = t
    <3>1. "close fact" # "add fact" /\ (2 # 1 /\ 2 - 1 = 1)
      OBVIOUS
    <3>2. i = 2
      BY <1>4, <1>8, <2>1, <3>1, Zenon
    <3> QED BY <1>8, <3>1, <3>2, Zenon
  <2>2. plan[1] = <<"close fact", t[2][1], t[2][2]>>
    BY <1>2, <1>3, <1>6, <1>8, Zenon
  <2> QED BY <2>1, <2>2, Zenon DEF FactsAreReplaced
<1>11. plan = SetFact(p, k, how, what)
  BY <1>1, <1>3, <1>5, <1>7 DEF SetFact
<1> QED BY <1>1, <1>3, <1>5, <1>8, <1>9, <1>10, <1>11 DEF Sane

\* Setting a role deletes the inferred one first.
LEMMA SetRoleIsSane ==
  ASSUME NEW p \in Names, NEW what \in {"open role", "end role"}
  PROVE  Sane("worker", <<<<"delete inferred role", p>>, <<what, p>>>>)
<1>1. PICK s : s = <<"delete inferred role", p>>
  OBVIOUS
<1>2. PICK t : t = <<what, p>>
  OBVIOUS
<1>3. s \in Statement /\ t \in Statement /\ s[1] = "delete inferred role" /\ t[1] = what /\ t[2] = p
  <2>1. "delete inferred role" \in OfPerson /\ what \in OfPerson
    BY DEF OfPerson
  <2>2. s \in Statement /\ t \in Statement
    BY <1>1, <1>2, <2>1, StatementsAre
  <2> QED BY <1>1, <1>2, <2>2, PartsAre
<1>4. PICK plan : plan = <<s, t>>
  OBVIOUS
<1>5. plan \in Seq(Statement) /\ DOMAIN plan = {1, 2} /\ plan[1] = s /\ plan[2] = t
  BY <1>3, <1>4, TwoStatements
<1>6. LinksAreNew(plan) /\ FactsAreReplaced("worker", plan)
  BY <1>3, <1>5 DEF LinksAreNew, FactsAreReplaced
<1>7. RolesAreReplaced("worker", plan)
  <2>1. ASSUME NEW i \in DOMAIN plan, plan[i][1] \in {"open role", "end role"}
        PROVE  i = 2 /\ i # 1 /\ i - 1 = 1 /\ plan[i] = t
    <3>0. \A x : x = "delete inferred role" => x \notin {"open role", "end role"}
      OBVIOUS
    <3>2. i = 2
      <4>1. i = 1 \/ i = 2
        BY <1>5
      <4> QED BY <1>3, <1>5, <2>1, <3>0, <4>1, Zenon
    <3> QED BY <1>5, <3>2, SmallNumbers, Zenon
  <2>2. plan[1] = <<"delete inferred role", t[2]>>
    BY <1>1, <1>3, <1>5, Zenon
  <2> QED BY <2>1, <2>2, Zenon DEF RolesAreReplaced
<1> QED BY <1>1, <1>2, <1>4, <1>5, <1>6, <1>7 DEF Sane

\* The four statements that forget a person.
LEMMA ForgetIs ==
  ASSUME NEW p \in Names
  PROVE  /\ Forget(p) \in Seq(Statement) /\ DOMAIN Forget(p) = {1, 2, 3, 4}
         /\ Forget(p)[1] = <<"forget facts", p>> /\ Forget(p)[2] = <<"forget aliases", p>>
         /\ Forget(p)[3] = <<"forget roles", p>> /\ Forget(p)[4] = <<"drop bank names", p>>
         /\ \A i \in DOMAIN Forget(p) : Forget(p)[i][1] \in Takers
<1>1. PICK s : s = <<"forget facts", p>>
  OBVIOUS
<1>2. PICK t : t = <<"forget aliases", p>>
  OBVIOUS
<1>3. PICK u : u = <<"forget roles", p>>
  OBVIOUS
<1>4. PICK v : v = <<"drop bank names", p>>
  OBVIOUS
<1>5. s \in Statement /\ t \in Statement /\ u \in Statement /\ v \in Statement
  <2>1. {"forget facts", "forget aliases", "forget roles", "drop bank names"} \subseteq OfPerson
    BY DEF OfPerson
  <2> QED BY <1>1, <1>2, <1>3, <1>4, <2>1, StatementsAre
<1>6. s[1] \in Takers /\ t[1] \in Takers /\ u[1] \in Takers /\ v[1] \in Takers
  BY <1>1, <1>2, <1>3, <1>4, PartsAre DEF Takers
<1>7. PICK plan : plan = <<s, t, u, v>>
  OBVIOUS
<1>8. plan \in Seq(Statement) /\ DOMAIN plan = {1, 2, 3, 4} /\ plan[1] = s /\ plan[2] = t /\ plan[3] = u /\ plan[4] = v
  BY <1>5, <1>7, FourStatements
<1>9. \A i \in DOMAIN plan : plan[i][1] \in Takers
  BY <1>6, <1>8
<1>10. plan = Forget(p)
  BY <1>1, <1>2, <1>3, <1>4, <1>7 DEF Forget
<1> QED BY <1>1, <1>2, <1>3, <1>4, <1>8, <1>9, <1>10

\* The two statements that remove a name.
LEMMA RemoveIs ==
  ASSUME NEW a \in Names, NEW p \in Names, NEW what \in {"close alias", "unlink"},
         NEW plan, plan = <<<<what, a, p>>, <<"drop bank name", a, p>>>>
  PROVE  /\ plan \in Seq(Statement) /\ DOMAIN plan = {1, 2}
         /\ plan[1] = <<what, a, p>> /\ plan[2] = <<"drop bank name", a, p>>
         /\ \A i \in DOMAIN plan : plan[i][1] \in Takers
<1>1. PICK s : s = <<what, a, p>>
  OBVIOUS
<1>2. PICK t : t = <<"drop bank name", a, p>>
  OBVIOUS
<1>3. s \in Statement /\ t \in Statement
  <2>1. "drop bank name" \in OfLink /\ what \in OfLink
    BY DEF OfLink
  <2> QED BY <1>1, <1>2, <2>1, StatementsAre
<1>4. s[1] \in Takers /\ t[1] \in Takers
  BY <1>1, <1>2, ThreeParts DEF Takers
<1>5. plan \in Seq(Statement) /\ DOMAIN plan = {1, 2} /\ plan[1] = s /\ plan[2] = t
  BY <1>1, <1>2, <1>3, TwoStatements
<1> QED BY <1>1, <1>2, <1>4, <1>5

\* Closing a fact alone is sane.
LEMMA CloseFactIsSane ==
  ASSUME NEW p \in Names, NEW k \in Kinds
  PROVE  Sane("worker", <<<<"close fact", p, k>>>>)
<1>1. PICK s : s = <<"close fact", p, k>>
  OBVIOUS
<1>2. s \in Statement /\ s[1] \in Takers
  BY <1>1, StatementsAre, ThreeParts DEF Takers
<1>3. PICK plan : plan = <<s>>
  OBVIOUS
<1>4. plan \in Seq(Statement) /\ \A i \in DOMAIN plan : plan[i][1] \in Takers
  BY <1>2, <1>3, OneStatement
<1> QED BY <1>1, <1>3, <1>4, TakersAreSane

-----------------------------------------------------------------------------
(* The worker.                                                             *)

\* A plan the worker makes from what it has read.
LEMMA WorkerPlans ==
  ASSUME IInv, NamesAssumption, NEW plan, Sane("worker", plan), plans["worker"] = <<>>,
         queue # <<>>, Job.kind = "curate",
         plans' = [plans EXCEPT !["worker"] = plan],
         work' \in {"notes", "propose", "end"},
         work' = "notes" => \A i \in DOMAIN plan :
           /\ plan[i][1] \in {"close fact", "add fact"}
           /\ plan[i][1] = "close fact" =>
                i = 1 /\ \A f \in InForce(memory, plan[i][2], plan[i][3]) : f[3] = "inferred",
         UNCHANGED <<books, parties, memory, queue, talk, erased, quiet, crossed>>
  PROVE  Step
<1>1. MemoryRests /\ turn' = turn
  BY DEF MemoryRests, talk
<1>2. plans \in [Writers -> Seq(Statement)] /\ plan \in Seq(Statement) /\ "worker" \in Writers /\ "script" \in Writers
  BY DEF IInv, TalkIsTyped, Sane, Writers
<1>3. \A v \in Writers : plans'[v] = IF v = "worker" THEN plan ELSE plans[v]
  BY <1>2
<1>4. TypeOK'
  <2>1. UNCHANGED <<books, parties, memory, turn>> /\ work' \in {"start", "notes", "propose", "end"}
    BY <1>1
  <2> QED BY <2>1, TypesRest DEF IInv
<1>5. TalkIsTyped'
  BY <1>2 DEF IInv, TalkIsTyped, talk
<1>6. WorkIsOnAJob' /\ QuietIsQuiet'
  <2>1. plans'["script"] = plans["script"]
    BY <1>2, <1>3
  <2> QED BY <1>1, <2>1 DEF IInv, WorkIsOnAJob, QuietIsQuiet, Job
<1>7. PlanIsGood("worker", plan)'
  <2>1. LinksAreNew(plan)' /\ FactsAreReplaced("worker", plan)' /\ RolesAreReplaced("worker", plan)'
    BY DEF Sane, LinksAreNew, Free, FactsAreReplaced, RolesAreReplaced, InForce
  <2>2. GuessesGiveWay(plan)'
    BY DEF GuessesGiveWay, InForce
  <2> QED BY <2>1, <2>2 DEF PlanIsGood
<1>8. PlansAreGood'
  <2> SUFFICES ASSUME NEW v \in Writers PROVE PlanIsGood(v, plans[v])'
    BY DEF PlansAreGood
  <2>1. CASE v = "worker"
    <3>1. plans'[v] = plan
      BY <1>3, <2>1
    <3> QED BY <1>7, <2>1, <3>1
  <2>2. CASE v # "worker"
    <3>1. PICK other : other = plans[v] /\ other = plans'[v]
      BY <1>3, <2>2
    <3>2. PlanIsGood(v, other)'
      BY <1>1, <2>2, <3>1, PlanStands
    <3> QED BY <3>1, <3>2
  <2> QED BY <2>1, <2>2
<1>9. RefusedCouldBe'
  BY <1>1, TurnStays DEF IInv
<1>10. PeopleStayApart
  <2>1. queue' = queue
    OBVIOUS
  <2> QED BY <2>1, ApartIdle DEF IInv
<1> QED BY <1>1, <1>4, <1>5, <1>6, <1>8, <1>9, <1>10, OrderStands DEF Step, IInv

\* A plan of nothing is sane.
LEMMA NothingIsSane ==
  ASSUME NEW w
  PROVE  Sane(w, <<>>) /\ DOMAIN <<>> = {}
<1>1. <<>> \in Seq(Statement) /\ DOMAIN <<>> = {}
  OBVIOUS
<1> QED BY <1>1 DEF Sane, LinksAreNew, FactsAreReplaced, RolesAreReplaced

\* A stage of the curation that plans nothing leaves the plans as they are.
LEMMA WorkingIs ==
  ASSUME IInv, NEW stage, Working(stage)
  PROVE  /\ queue # <<>> /\ Job.kind = "curate" /\ plans["worker"] = <<>>
         /\ UNCHANGED <<books, parties, memory, talk, erased, quiet, crossed>>
         /\ plans = [plans EXCEPT !["worker"] = <<>>]
BY DEF Working, IInv, TalkIsTyped

\* Inferring the usual order keeps the invariant.
LEMMA InferKeeps ==
  ASSUME IInv, NamesAssumption, NEW p \in Names, NEW what \in Contents, Infer(p, what)
  PROVE  Step
<1>1. PICK plan : plan = SetFact(p, "usual_order", "inferred", what)
  OBVIOUS
<1>2. /\ plans' = [plans EXCEPT !["worker"] = plan] /\ work' = "notes" /\ queue' = queue
      /\ Working("start") /\ \A f \in InForce(memory, p, "usual_order") : f[3] = "inferred"
  BY <1>1 DEF Infer, Plan
<1>3. "usual_order" \in Kinds
  BY DEF NamesAssumption
<1>4. Step
  <2>1. /\ Sane("worker", plan) /\ DOMAIN plan = {1, 2}
        /\ plan[1] = <<"close fact", p, "usual_order">> /\ plan[2][1] = "add fact"
    <3>1. /\ Sane("worker", plan) /\ DOMAIN plan = {1, 2}
          /\ plan[1] = <<"close fact", p, "usual_order">>
          /\ plan[2] = <<"add fact", <<p, "usual_order", "inferred", what>>>>
      BY <1>1, <1>3, SetFactIsSane
    <3>2. <<"add fact", <<p, "usual_order", "inferred", what>>>>[1] = "add fact"
      BY PartsAre, Zenon
    <3> QED BY <3>1, <3>2, Zenon
  <2>2. ASSUME NEW i \in DOMAIN plan
        PROVE  /\ plan[i][1] \in {"close fact", "add fact"}
               /\ plan[i][1] = "close fact" =>
                    i = 1 /\ \A f \in InForce(memory, plan[i][2], plan[i][3]) : f[3] = "inferred"
    <3>1. CASE i = 1
      <4>1. plan[1][1] = "close fact" /\ plan[1][2] = p /\ plan[1][3] = "usual_order"
        <5>1. LET x == <<"close fact", p, "usual_order">> IN x[1] = "close fact" /\ x[2] = p /\ x[3] = "usual_order"
          BY ThreeParts, Zenon
        <5> QED BY <2>1, <5>1, Zenon
      <4> QED BY <1>2, <3>1, <4>1, Zenon
    <3>2. CASE i = 2
      BY <2>1, <3>2
    <3> QED BY <2>1, <3>1, <3>2
  <2> QED BY <1>2, <2>1, <2>2, WorkerPlans, WorkingIs
<1> QED BY <1>4

\* So does finding nothing to infer.
LEMMA InferNothingKeeps ==
  ASSUME IInv, NamesAssumption, InferNothing
  PROVE  Step
<1>1. /\ Working("start") /\ UNCHANGED <<queue, plans>> /\ work' \in {"notes", "propose", "end"}
  BY DEF InferNothing
<1>2. plans' = [plans EXCEPT !["worker"] = <<>>]
  BY <1>1, WorkingIs
<1> QED BY <1>1, <1>2, WorkerPlans, WorkingIs, NothingIsSane

\* A name that stands for somebody is one of the names, and for whom it stands too.
LEMMA ResolvedIs ==
  ASSUME IInv, NEW n
  PROVE  /\ Resolved(memory, n) \subseteq Names
         /\ Resolved(memory, n) = {} => n \notin memory.nodes /\ \A l \in memory.links : l[1] # n
         /\ Resolved(memory, n) # {} => n \in Names
         /\ \A p \in Resolved(memory, n) : p \in memory.nodes
<1>1. /\ \A l \in memory.links : l[1] \in Names /\ l[2] \in Names /\ l[2] \in memory.nodes
      /\ memory.nodes \subseteq Names
  <2>1. memory \in Memory /\ \A l \in memory.links : l[2] \in memory.nodes
    BY DEF IInv, TypeOK, AliasNodes
  <2>2. memory.links \in SUBSET (Names \X Names) /\ memory.nodes \in SUBSET Names
    BY <2>1, FieldsAre
  <2> QED BY <2>1, <2>2
<1> QED BY <1>1 DEF Resolved

\* A job is a sync of one person, or a curation with its note.
LEMMA JobIs ==
  ASSUME IInv, queue # <<>>
  PROVE  /\ Job \in SyncJob \cup CurateJob /\ Tail(queue) \in Seq(SyncJob \cup CurateJob)
         /\ Job.kind = "curate" => Job.note \in Note
         /\ Job.kind = "sync" => \E n \in Names : Job.names = {n}
<1>1. Job \in SyncJob \cup CurateJob /\ Tail(queue) \in Seq(SyncJob \cup CurateJob)
  BY HeadTailProperties DEF IInv, TalkIsTyped, Job
<1>2. Job.kind = "curate" => Job.note \in Note
  BY <1>1 DEF SyncJob, CurateJob
<1>3. Job.kind = "sync" => \E n \in Names : Job.names = {n}
  BY <1>1 DEF SyncJob, CurateJob
<1> QED BY <1>1, <1>2, <1>3

\* Writing down what the turn noted keeps the invariant.
LEMMA ApplyNoteKeeps ==
  ASSUME IInv, NamesAssumption, ApplyNote
  PROVE  Step
<1>1. Working("notes") /\ queue' = queue /\ work' = "propose"
  BY DEF ApplyNote
<1>2. CASE UNCHANGED plans
  <2>1. plans' = [plans EXCEPT !["worker"] = <<>>]
    BY <1>1, <1>2, WorkingIs
  <2> QED BY <1>1, <2>1, WorkerPlans, WorkingIs, NothingIsSane
<1>3. CASE ~UNCHANGED plans
  <2>1. PICK a, p : /\ p \in Resolved(memory, Job.note[2]) /\ Resolved(memory, a) = {} /\ a # p
                    /\ a = Job.note[1] /\ Job.note # <<>> /\ Plan("worker", <<<<"add alias", a, p>>>>)
    BY <1>3 DEF ApplyNote
  <2>2. p \in Names /\ Free(a)
    BY <2>1, ResolvedIs DEF Free
  <2>3. a \in Names
    <3>1. Job.kind = "curate" /\ queue # <<>>
      BY <1>1, WorkingIs
    <3> QED BY <2>1, <3>1, JobIs, PairIs DEF IInv, Note
  <2>4. PICK plan : plan = <<<<"add alias", a, p>>>>
    OBVIOUS
  <2>5. Sane("worker", plan) /\ plans' = [plans EXCEPT !["worker"] = plan]
    BY <2>1, <2>2, <2>3, <2>4, LinkIsSane DEF Plan
  <2> QED BY <1>1, <2>5, WorkerPlans, WorkingIs
<1> QED BY <1>2, <1>3

\* A sane proposal of the model keeps it.
LEMMA ProposingKeeps ==
  ASSUME IInv, NamesAssumption, Proposing, NEW plan, Sane("worker", plan), Plan("worker", plan)
  PROVE  Step
<1>1. Working("propose") /\ work' = "end" /\ queue' = queue /\ plans' = [plans EXCEPT !["worker"] = plan]
  BY DEF Proposing, Plan
<1> QED BY <1>1, WorkerPlans, WorkingIs

\* Adding an alias checks that the name is free.
LEMMA AddAliasKeeps ==
  ASSUME IInv, NamesAssumption, NEW n \in Names, NEW a \in Aliases, AddAliasOp(n, a)
  PROVE  Step
<1>1. PICK p \in Resolved(memory, n) :
        /\ a # p /\ ~IsAlias(memory, a)
        /\ IF a \in memory.nodes
           THEN a \notin books /\ Plan("worker", <<<<"remove party", a>>, <<"add alias", a, p>>>>)
           ELSE Plan("worker", <<<<"add alias", a, p>>>>)
  BY DEF AddAliasOp
<1>2. a \in Names /\ p \in Names /\ Proposing
  BY ResolvedIs DEF NamesAssumption, AddAliasOp
<1>3. Free(a)
  <2>1. CASE a \in memory.nodes /\ \E l \in memory.links : l[1] = a
    BY <2>1 DEF IInv, NamesAreKept, Doubled, Free
  <2>2. CASE \A l \in memory.links : l[1] # a
    BY <2>2 DEF Free
  <2> QED BY <1>1, <2>1, <2>2 DEF IsAlias
<1>4. CASE a \in memory.nodes
  BY <1>1, <1>2, <1>3, <1>4, RemoveAndLinkIsSane, ProposingKeeps
<1>5. CASE a \notin memory.nodes
  BY <1>1, <1>2, <1>3, <1>5, LinkIsSane, ProposingKeeps
<1> QED BY <1>4, <1>5

\* The other proposals: names closed, facts set or closed, people forgotten, roles set.
LEMMA ProposalsKeep ==
  ASSUME IInv, NamesAssumption, NEW n \in Names,
         \/ \E a \in Aliases : RemoveAliasOp(n, a)
         \/ \E k \in Kinds : CloseFactOp(n, k) \/ \E what \in Contents : SetFactOp(n, k, what)
         \/ ForgetOp(n) \/ \E active \in BOOLEAN : SetRoleOp(n, active)
  PROVE  Step
<1>0. Resolved(memory, n) \subseteq Names
  BY ResolvedIs
<1>1. ASSUME NEW a \in Aliases, RemoveAliasOp(n, a) PROVE Step
  <2>1. PICK p \in Names : Plan("worker", <<<<"close alias", a, p>>, <<"drop bank name", a, p>>>>)
    BY <1>0, <1>1 DEF RemoveAliasOp
  <2>2. PICK plan : plan = <<<<"close alias", a, p>>, <<"drop bank name", a, p>>>>
    OBVIOUS
  <2>3. a \in Names
    BY DEF NamesAssumption
  <2>4. Sane("worker", plan)
    <3>1. "close alias" \in {"close alias", "unlink"}
      OBVIOUS
    <3>2. plan \in Seq(Statement) /\ \A i \in DOMAIN plan : plan[i][1] \in Takers
      BY <2>2, <2>3, <3>1, RemoveIs, Zenon
    <3> QED BY <3>2, TakersAreSane
  <2> QED BY <1>1, <2>1, <2>2, <2>4, ProposingKeeps DEF RemoveAliasOp
<1>2. ASSUME NEW k \in Kinds, CloseFactOp(n, k) PROVE Step
  <2>1. PICK p \in Names : Plan("worker", <<<<"close fact", p, k>>>>)
    BY <1>0, <1>2 DEF CloseFactOp
  <2> QED BY <1>2, <2>1, CloseFactIsSane, ProposingKeeps DEF CloseFactOp
<1>3. ASSUME NEW k \in Kinds, NEW what \in Contents, SetFactOp(n, k, what) PROVE Step
  <2>1. PICK p \in Names : Plan("worker", SetFact(p, k, "stated", what))
    BY <1>0, <1>3 DEF SetFactOp
  <2> QED BY <1>3, <2>1, SetFactIsSane, ProposingKeeps DEF SetFactOp
<1>4. ASSUME ForgetOp(n) PROVE Step
  <2>1. PICK p \in Names : Plan("worker", Forget(p))
    BY <1>0, <1>4 DEF ForgetOp
  <2>2. Sane("worker", Forget(p))
    BY ForgetIs, TakersAreSane
  <2> QED BY <1>4, <2>1, <2>2, ProposingKeeps DEF ForgetOp
<1>5. ASSUME NEW active \in BOOLEAN, SetRoleOp(n, active) PROVE Step
  <2>1. PICK p \in Names, what \in {"open role", "end role"} :
          Plan("worker", <<<<"delete inferred role", p>>, <<what, p>>>>)
    BY <1>0, <1>5 DEF SetRoleOp
  <2> QED BY <1>5, <2>1, SetRoleIsSane, ProposingKeeps DEF SetRoleOp
<1> QED BY <1>1, <1>2, <1>3, <1>4, <1>5

\* A sequence is longer with one more.
LEMMA AppendIsLonger ==
  ASSUME NEW S, NEW q \in Seq(S), NEW e
  PROVE  Len(Append(q, e)) = Len(q) + 1
OBVIOUS

\* Nor while a job leaves the queue.
LEMMA ApartShorter ==
  ASSUME TalkIsTyped, queue # <<>>, queue' = Tail(queue)
  PROVE  PeopleStayApart
<1> SUFFICES ASSUME NEW n, queue' = Append(queue, [kind |-> "sync", names |-> {n}]) PROVE FALSE
  BY DEF PeopleStayApart, Recorded
<1>1. Len(queue) \in Nat /\ Len(Tail(queue)) = Len(queue) - 1
  BY HeadTailProperties, LenProperties DEF TalkIsTyped
<1>2. Len(Append(queue, [kind |-> "sync", names |-> {n}])) = Len(queue) + 1
  BY AppendIsLonger DEF TalkIsTyped
<1>3. Len(queue) - 1 = Len(queue) + 1
  BY <1>1, <1>2
<1> QED BY <1>1, <1>3

\* Finishing a job keeps the invariant.
LEMMA FinishKeeps ==
  ASSUME IInv, NamesAssumption, FinishJob
  PROVE  Step
<1>1. /\ queue # <<>> /\ UNCHANGED <<books, parties, memory, talk, erased, quiet, crossed, plans>>
      /\ plans["worker"] = <<>> /\ queue' = Tail(queue) /\ work' = "start"
  BY DEF FinishJob, Working
<1>2. MemoryRests /\ turn' = turn /\ plans' = plans /\ quiet' = quiet
  BY <1>1 DEF MemoryRests, talk
<1>3. TypeOK'
  <2>1. UNCHANGED <<books, parties, memory, turn>> /\ work' \in {"start", "notes", "propose", "end"}
    BY <1>1, <1>2
  <2> QED BY <2>1, TypesRest DEF IInv
<1>4. TalkIsTyped'
  BY <1>1, JobIs DEF IInv, TalkIsTyped, talk
<1>5. WorkIsOnAJob' /\ QuietIsQuiet'
  BY <1>1 DEF IInv, WorkIsOnAJob, QuietIsQuiet
<1>6. PlansAreGood'
  <2> SUFFICES ASSUME NEW v \in Writers PROVE PlanIsGood(v, plans[v])'
    BY DEF PlansAreGood
  <2>1. PICK other : other = plans[v] /\ other = plans'[v]
    BY <1>2
  <2>2. PlanIsGood(v, other)'
    BY <1>1, <1>2, <2>1, PlanStands
  <2> QED BY <2>1, <2>2
<1>7. RefusedCouldBe'
  BY <1>2, TurnStays DEF IInv
<1>8. PeopleStayApart
  BY <1>1, ApartShorter DEF IInv
<1> QED BY <1>2, <1>3, <1>4, <1>5, <1>6, <1>7, <1>8, OrderStands DEF Step, IInv

\* A crash between any two statements keeps it.
LEMMA CrashKeeps ==
  ASSUME IInv, NamesAssumption, Crash
  PROVE  Step
<1>1. /\ UNCHANGED <<books, parties, memory, queue, talk, erased, quiet, crossed>>
      /\ plans' = [plans EXCEPT !["worker"] = <<>>] /\ work' = "start"
  BY DEF Crash, Plan
<1>2. MemoryRests /\ turn' = turn /\ quiet' = quiet /\ queue' = queue
  BY <1>1 DEF MemoryRests, talk
<1>3. TypeOK'
  <2>1. UNCHANGED <<books, parties, memory, turn>> /\ work' \in {"start", "notes", "propose", "end"}
    BY <1>1, <1>2
  <2> QED BY <2>1, TypesRest DEF IInv
<1>4. \A v \in Writers : plans'[v] = IF v = "worker" THEN <<>> ELSE plans[v]
  BY <1>1 DEF IInv, TalkIsTyped
<1>5. TalkIsTyped'
  <2>1. plans \in [Writers -> Seq(Statement)]
    BY DEF IInv, TalkIsTyped
  <2>2. plans' \in [Writers -> Seq(Statement)]
    <3>1. <<>> \in Seq(Statement)
      OBVIOUS
    <3>2. PICK none : none = <<>>
      OBVIOUS
    <3>3. plans' = [plans EXCEPT !["worker"] = none] /\ none \in Seq(Statement)
      BY <1>1, <3>1, <3>2
    <3> QED BY <2>1, <3>3
  <2> QED BY <1>1, <2>2 DEF IInv, TalkIsTyped, talk
<1>6. WorkIsOnAJob' /\ QuietIsQuiet'
  <2>1. plans'["script"] = plans["script"] /\ plans'["worker"] = <<>>
    BY <1>4 DEF Writers
  <2> QED BY <1>1, <1>2, <2>1 DEF IInv, WorkIsOnAJob, QuietIsQuiet
<1>7. PlansAreGood'
  <2> SUFFICES ASSUME NEW v \in Writers PROVE PlanIsGood(v, plans[v])'
    BY DEF PlansAreGood
  <2>1. CASE v = "worker"
    <3>1. plans'[v] = <<>>
      BY <1>4, <2>1
    <3> QED BY <3>1, EmptyIsGood
  <2>2. CASE v # "worker"
    <3>1. PICK other : other = plans[v] /\ other = plans'[v]
      BY <1>4, <2>2
    <3>2. PlanIsGood(v, other)'
      BY <1>2, <2>2, <3>1, PlanStands
    <3> QED BY <3>1, <3>2
  <2> QED BY <2>1, <2>2
<1>8. RefusedCouldBe'
  BY <1>2, TurnStays DEF IInv
<1>9. PeopleStayApart
  BY <1>2, ApartIdle DEF IInv
<1> QED BY <1>2, <1>3, <1>5, <1>6, <1>7, <1>8, <1>9, OrderStands DEF Step, IInv

-----------------------------------------------------------------------------
(* The buttons and the rebuild.                                            *)

\* A whole plan of a button: nothing of it has run.
Erases(plan) ==
  \A i \in DOMAIN plan :
    /\ plan[i][1] # "add alias"
    /\ plan[i][1] = "drop bank names" =>
         /\ ~(i <= 1) /\ plan[i - 1] = <<"forget roles", plan[i][2]>>
         /\ ~(i <= 2) /\ plan[i - 2] = <<"forget aliases", plan[i][2]>>
         /\ ~(i <= 3) /\ plan[i - 3] = <<"forget facts", plan[i][2]>>
    /\ plan[i][1] = "drop bank name" => ~(i <= 1) /\ plan[i - 1] = <<"unlink", plan[i][2], plan[i][3]>>

\* A plan that erases has its bank names last.
LEMMA ErasesIs ==
  ASSUME NEW plan, Erases(plan)
  PROVE  BankNamesGoLast(plan)'
<1>1. \A i \in DOMAIN plan :
        /\ plan[i][1] # "add alias"
        /\ plan[i][1] = "drop bank names" =>
             /\ ~(i <= 1) /\ plan[i - 1] = <<"forget roles", plan[i][2]>>
             /\ ~(i <= 2) /\ plan[i - 2] = <<"forget aliases", plan[i][2]>>
             /\ ~(i <= 3) /\ plan[i - 3] = <<"forget facts", plan[i][2]>>
        /\ plan[i][1] = "drop bank name" => ~(i <= 1) /\ plan[i - 1] = <<"unlink", plan[i][2], plan[i][3]>>
  BY Zenon DEF Erases
<1> QED BY <1>1, Zenon DEF BankNamesGoLast

\* A button or script that plans sanely keeps the invariant.
LEMMA PressPlans ==
  ASSUME IInv, NamesAssumption, NEW w \in {"button", "script"}, Press(w),
         NEW plan, Sane(w, plan), w = "button" => Erases(plan), w = "script" => NothingComesBack(plan),
         Plan(w, plan)
  PROVE  Step
<1>1. /\ UNCHANGED <<books, parties, memory, queue, work, talk, erased, crossed>>
      /\ plans' = [plans EXCEPT ![w] = plan]
      /\ quiet' = (w = "button" /\ ~turn.open /\ queue = <<>> /\ plans["script"] = <<>>)
  BY DEF Press, Plan
<1>2. MemoryRests /\ turn' = turn /\ queue' = queue /\ work' = work
  BY <1>1 DEF MemoryRests, talk
<1>3. TypeOK'
  <2>1. UNCHANGED <<books, parties, memory, turn>> /\ work' \in {"start", "notes", "propose", "end"}
    BY <1>1, <1>2 DEF IInv, TypeOK
  <2> QED BY <2>1, TypesRest DEF IInv
<1>4. w \in Writers /\ plans \in [Writers -> Seq(Statement)] /\ plan \in Seq(Statement)
  BY DEF Writers, IInv, TalkIsTyped, Sane
<1>5. \A v \in Writers : plans'[v] = IF v = w THEN plan ELSE plans[v]
  BY <1>1, <1>4
<1>6. TalkIsTyped'
  <2>1. plans' \in [Writers -> Seq(Statement)]
    BY <1>1, <1>4
  <2>2. quiet' \in BOOLEAN
    BY <1>1
  <2> QED BY <1>1, <2>1, <2>2 DEF IInv, TalkIsTyped, talk
<1>7. WorkIsOnAJob' /\ QuietIsQuiet'
  <2>1. plans'["worker"] = plans["worker"] /\ (w = "button" => plans'["script"] = plans["script"])
    BY <1>5 DEF Writers
  <2>2. WorkIsOnAJob'
    BY <1>2, <2>1 DEF IInv, WorkIsOnAJob, Job
  <2>3. quiet' => w = "button" /\ ~turn.open /\ queue = <<>> /\ plans["script"] = <<>>
    BY <1>1
  <2>4. erased' = erased
    BY <1>1
  <2> QED BY <1>2, <2>1, <2>2, <2>3, <2>4 DEF IInv, QuietIsQuiet
<1>8. PlanIsGood(w, plan)'
  <2>1. LinksAreNew(plan)' /\ FactsAreReplaced(w, plan)' /\ RolesAreReplaced(w, plan)'
    BY <1>1 DEF Sane, LinksAreNew, Free, FactsAreReplaced, RolesAreReplaced, InForce
  <2>2. w = "button" => BankNamesGoLast(plan)'
    BY ErasesIs, Zenon
  <2>3. w = "script" => NothingComesBack(plan)'
    BY <1>1 DEF NothingComesBack
  <2> QED BY <2>1, <2>2, <2>3 DEF PlanIsGood
<1>9. PlansAreGood'
  <2> SUFFICES ASSUME NEW v \in Writers PROVE PlanIsGood(v, plans[v])'
    BY DEF PlansAreGood
  <2>1. CASE v = w
    <3>1. plans'[v] = plan
      BY <1>5, <2>1
    <3> QED BY <1>8, <2>1, <3>1
  <2>2. CASE v # w
    <3>1. PICK other : other = plans[v] /\ other = plans'[v]
      BY <1>5, <2>2
    <3>2. v = "button" => ~quiet'
      BY <1>1, <2>2
    <3>3. PlanIsGood(v, other)'
      BY <1>2, <3>1, <3>2, PlanStands
    <3> QED BY <3>1, <3>3
  <2> QED BY <2>1, <2>2
<1>10. RefusedCouldBe'
  BY <1>2, TurnStays DEF IInv
<1>11. PeopleStayApart
  BY <1>2, ApartIdle DEF IInv
<1> QED BY <1>2, <1>3, <1>6, <1>7, <1>9, <1>10, <1>11, OrderStands DEF Step, IInv

\* Removing a name by button keeps it.
LEMMA PressRemoveKeeps ==
  ASSUME IInv, NamesAssumption, NEW n \in Names, NEW a \in Aliases, PressRemove(n, a)
  PROVE  Step
<1>1. PICK p \in Names : Plan("button", <<<<"unlink", a, p>>, <<"drop bank name", a, p>>>>)
  BY ResolvedIs DEF PressRemove
<1>2. PICK plan : plan = <<<<"unlink", a, p>>, <<"drop bank name", a, p>>>>
  OBVIOUS
<1>3. a \in Names
  BY DEF NamesAssumption
<1>4. /\ plan \in Seq(Statement) /\ DOMAIN plan = {1, 2}
      /\ plan[1] = <<"unlink", a, p>> /\ plan[2] = <<"drop bank name", a, p>>
      /\ \A i \in DOMAIN plan : plan[i][1] \in Takers
  <2>1. "unlink" \in {"close alias", "unlink"}
    OBVIOUS
  <2> QED BY <1>2, <1>3, <2>1, RemoveIs, Zenon
<1>5. Sane("button", plan)
  BY <1>4, TakersAreSane
<1>6. plan[1][1] = "unlink" /\ plan[2][1] = "drop bank name" /\ plan[2][2] = a /\ plan[2][3] = p
  <2>1. /\ <<"unlink", a, p>>[1] = "unlink"
        /\ LET x == <<"drop bank name", a, p>> IN x[1] = "drop bank name" /\ x[2] = a /\ x[3] = p
    BY ThreeParts, Zenon
  <2> QED BY <1>4, <2>1, Zenon
<1>7. ~(2 <= 1) /\ 2 - 1 = 1 /\ 2 # 1
  BY SmallNumbers
<1>8. "unlink" # "drop bank names" /\ "unlink" # "drop bank name" /\ "drop bank name" # "drop bank names" /\ "unlink" # "add alias" /\ "drop bank name" # "add alias"
  OBVIOUS
<1>9. \A i \in DOMAIN plan : i = 1 \/ i = 2
  BY <1>4
<1>10. Erases(plan)
  BY <1>4, <1>6, <1>7, <1>8, <1>9, Zenon DEF Erases
<1> QED BY <1>1, <1>2, <1>5, <1>10, PressPlans DEF PressRemove

\* Forgetting a person by button keeps it.
LEMMA PressForgetKeeps ==
  ASSUME IInv, NamesAssumption, NEW n \in Names, PressForget(n)
  PROVE  Step
<1>1. PICK p \in Names : Plan("button", Forget(p))
  BY ResolvedIs DEF PressForget
<1>2. PICK plan : plan = Forget(p)
  OBVIOUS
<1>4. /\ plan \in Seq(Statement) /\ DOMAIN plan = {1, 2, 3, 4}
      /\ plan[1] = <<"forget facts", p>> /\ plan[2] = <<"forget aliases", p>>
      /\ plan[3] = <<"forget roles", p>> /\ plan[4] = <<"drop bank names", p>>
      /\ \A i \in DOMAIN plan : plan[i][1] \in Takers
  BY <1>2, ForgetIs, Zenon
<1>5. Sane("button", plan)
  BY <1>4, TakersAreSane
<1>6. /\ plan[1][1] = "forget facts" /\ plan[2][1] = "forget aliases" /\ plan[3][1] = "forget roles"
      /\ plan[4][1] = "drop bank names" /\ plan[4][2] = p
  <2>1. /\ <<"forget facts", p>>[1] = "forget facts" /\ <<"forget aliases", p>>[1] = "forget aliases"
        /\ <<"forget roles", p>>[1] = "forget roles"
        /\ LET x == <<"drop bank names", p>> IN x[1] = "drop bank names" /\ x[2] = p
    BY PartsAre, Zenon
  <2> QED BY <1>4, <2>1, Zenon
<1>7. ~(4 <= 1) /\ ~(4 <= 2) /\ ~(4 <= 3) /\ 4 - 1 = 3 /\ 4 - 2 = 2 /\ 4 - 3 = 1 /\ 4 # 1
  BY SmallNumbers
<1>8. \A x \in {"forget facts", "forget aliases", "forget roles", "drop bank names"} :
        x # "add alias" /\ x # "drop bank name" /\ (x = "drop bank names" \/ x # "drop bank names")
  OBVIOUS
<1>9. \A i \in DOMAIN plan : i = 1 \/ i = 2 \/ i = 3 \/ i = 4
  BY <1>4
<1>10. \A i \in DOMAIN plan : /\ plan[i][1] # "add alias" /\ plan[i][1] # "drop bank name"
                              /\ plan[i][1] = "drop bank names" => i = 4
  <2>1. "forget facts" # "drop bank names" /\ "forget aliases" # "drop bank names" /\ "forget roles" # "drop bank names"
    OBVIOUS
  <2> QED BY <1>6, <1>8, <1>9, <2>1
<1>11. Erases(plan)
  BY <1>4, <1>6, <1>7, <1>10, Zenon DEF Erases
<1> QED BY <1>1, <1>2, <1>5, <1>11, PressPlans DEF PressForget

\* The elements of a finite set, in a row, each once.
LEMMA RowIs ==
  ASSUME NEW S, IsFiniteSet(S)
  PROVE  /\ SetToSeq(S) \in [1 .. Cardinality(S) -> S] /\ Cardinality(S) \in Nat
         /\ \A i, j \in 1 .. Cardinality(S) : SetToSeq(S)[i] = SetToSeq(S)[j] => i = j
<1>1. PICK n \in Nat : n = Cardinality(S) /\ ExistsBijection(1 .. n, S)
  BY FS_CardinalityType
<1>2. \E f \in [1 .. n -> S] : IsInjective(f)
  <2>1. PICK f : f \in Bijection(1 .. n, S)
    BY <1>1 DEF ExistsBijection
  <2>2. f \in [1 .. n -> S] /\ IsInjective(f)
    BY <2>1 DEF Bijection, Injection
  <2> QED BY <2>2
<1>3. PICK f : f = CHOOSE g \in [1 .. n -> S] : IsInjective(g)
  OBVIOUS
<1>4. f \in [1 .. n -> S] /\ IsInjective(f)
  BY <1>2, <1>3
<1>5. f = SetToSeq(S)
  BY <1>1, <1>3 DEF SetToSeq
<1>6. \A i, j \in 1 .. n : f[i] = f[j] => i = j
  BY <1>4 DEF IsInjective
<1> QED BY <1>1, <1>4, <1>5, <1>6

\* Starting a rebuild keeps it: it links again only former names that are free.
LEMMA StartRebuildKeeps ==
  ASSUME IInv, NamesAssumption, StartRebuild
  PROVE  Step
<1> DEFINE missing == {b \in Names : memory.bank[b] \in memory.nodes /\ Resolved(memory, b) = {}}
<1>1. IsFiniteSet(missing)
  BY FS_Subset DEF NamesAssumption
<1>2. PICK n \in Nat : n = Cardinality(missing)
  BY <1>1, FS_CardinalityType
<1>3. PICK row : row = SetToSeq(missing)
  OBVIOUS
<1>4. row \in [1 .. n -> missing] /\ \A i, j \in 1 .. n : row[i] = row[j] => i = j
  BY <1>1, <1>2, <1>3, RowIs
<1>5. PICK plan : plan = [i \in 1 .. n |-> <<"add alias", row[i], memory.bank[row[i]]>>]
  OBVIOUS
<1>6. Plan("script", plan)
  BY <1>2, <1>3, <1>5 DEF StartRebuild
<1>7. DOMAIN plan = 1 .. n /\ Press("script")
  BY <1>5 DEF StartRebuild
<1>8. ASSUME NEW i \in 1 .. n
      PROVE  \E b \in Names, p \in Names :
               /\ plan[i] = <<"add alias", b, p>> /\ b = row[i] /\ p = memory.bank[b] /\ b # p /\ Free(b)
  <2>1. PICK b \in missing : b = row[i]
    BY <1>4
  <2>2. PICK p \in Names : p = memory.bank[b] /\ p \in memory.nodes
    <3>1. memory.nodes \subseteq Names
      BY DEF IInv, TypeOK, Memory
    <3> QED BY <2>1, <3>1
  <2>3. b \in Names /\ b \notin memory.nodes /\ Free(b)
    BY <2>1, ResolvedIs DEF Free
  <2> HIDE DEF missing
  <2>4. plan[i] = <<"add alias", b, p>>
    BY <1>5, <2>1, <2>2
  <2> QED BY <2>1, <2>2, <2>3, <2>4
<1> HIDE DEF missing
<1>9. ASSUME NEW i \in 1 .. n
      PROVE  /\ plan[i] \in Statement /\ plan[i][1] = "add alias" /\ plan[i][2] = row[i]
             /\ plan[i][2] # plan[i][3] /\ Free(plan[i][2]) /\ <<plan[i][2], plan[i][3]>> \notin erased
  <2>1. PICK b \in Names, p \in Names :
          plan[i] = <<"add alias", b, p>> /\ b = row[i] /\ p = memory.bank[b] /\ b # p /\ Free(b)
    BY <1>8
  <2>2. PICK s : s = plan[i]
    OBVIOUS
  <2>3. s \in Statement /\ s[1] = "add alias" /\ s[2] = b /\ s[3] = p
    <3>1. "add alias" \in OfLink
      BY DEF OfLink
    <3>2. <<"add alias", b, p>> \in Statement
      BY <3>1, StatementsAre, Zenon
    <3>3. LET x == <<"add alias", b, p>> IN x[1] = "add alias" /\ x[2] = b /\ x[3] = p
      BY ThreeParts, Zenon
    <3> QED BY <2>1, <2>2, <3>2, <3>3, Zenon
  <2>4. <<b, p>> \notin erased
    <3>1. <<b, p>>[1] = b /\ <<b, p>>[2] = p
      BY PartsAre
    <3> QED BY <2>1, <3>1, Zenon DEF IInv, ErasedIsGone
  <2> QED BY <2>1, <2>2, <2>3, <2>4, Zenon
<1>10. plan \in Seq(Statement)
  <2>1. plan \in [1 .. n -> Statement]
    BY <1>5, <1>9
  <2> QED BY <2>1, SeqDef
<1>11. Sane("script", plan)
  <2>1. LinksAreNew(plan)
    <3>1. \A i \in DOMAIN plan : plan[i][2] = row[i] /\ i \in 1 .. n
      BY <1>7, <1>9, Zenon
    <3>2. \A i, j \in DOMAIN plan : plan[j][2] = plan[i][2] => i = j
      <4> TAKE i, j \in DOMAIN plan
      <4> HAVE plan[j][2] = plan[i][2]
      <4>1. row[i] = row[j] /\ i \in 1 .. n /\ j \in 1 .. n
        BY <3>1, Zenon
      <4> QED BY <1>4, <4>1, Zenon
    <3> QED BY <1>7, <1>9, <3>2, Zenon DEF LinksAreNew
  <2>2. "add alias" # "add fact" /\ "add alias" \notin {"open role", "end role"}
    OBVIOUS
  <2>3. FactsAreReplaced("script", plan)
    BY <1>7, <1>9, <2>2, Zenon DEF FactsAreReplaced
  <2>4. RolesAreReplaced("script", plan)
    BY <1>7, <1>9, <2>2, Zenon DEF RolesAreReplaced
  <2> QED BY <1>10, <2>1, <2>3, <2>4 DEF Sane
<1>12. NothingComesBack(plan)
  BY <1>7, <1>9, Zenon DEF NothingComesBack
<1> QED BY <1>6, <1>7, <1>11, <1>12, PressPlans

-----------------------------------------------------------------------------
(* A sync.                                                                 *)

\* A fold over one name is the sync of that name.
LEMMA OneNameIs ==
  ASSUME NEW n, NEW m
  PROVE  FoldSet(LAMBDA k, mm : SyncedParty(mm, k), m, {n}) = SyncedParty(m, n)
<1> DEFINE pick(s) == CHOOSE x \in s : TRUE
           folds(g) == g = [s \in SUBSET {n} |-> IF s = {} THEN m ELSE SyncedParty(g[s \ {pick(s)}], pick(s))]
           g == [s \in SUBSET {n} |-> IF s = {} THEN m ELSE SyncedParty(m, n)]
<1>1. FoldSet(LAMBDA k, mm : SyncedParty(mm, k), m, {n}) = (CHOOSE h : folds(h))[{n}]
  BY DEF FoldSet, MapThenFoldSet
<1>2. \A s \in SUBSET {n} : s # {} => pick(s) = n /\ s \ {pick(s)} = {}
  <2> TAKE s \in SUBSET {n}
  <2> HAVE s # {}
  <2>1. s = {n}
    OBVIOUS
  <2>2. pick(s) \in s
    BY <2>1
  <2> HIDE DEF pick
  <2> QED BY <2>1, <2>2
<1>3. g[{}] = m
  OBVIOUS
<1>4. folds(g)
  <2>1. \A s \in SUBSET {n} : g[s] = IF s = {} THEN m ELSE SyncedParty(g[s \ {pick(s)}], pick(s))
    <3> TAKE s \in SUBSET {n}
    <3>1. CASE s = {}
      BY <3>1
    <3>2. CASE s # {}
      <4>1. g[s] = SyncedParty(m, n)
        BY <3>2
      <4> HIDE DEF g, pick
      <4> QED BY <1>2, <1>3, <3>2, <4>1
    <3> QED BY <3>1, <3>2
  <2>2. g = [s \in SUBSET {n} |-> g[s]]
    OBVIOUS
  <2> HIDE DEF g, pick
  <2> QED BY <2>1, <2>2
<1> DEFINE h == CHOOSE h : folds(h)
<1>5. folds(h)
  <2> HIDE DEF g, folds
  <2> QED BY <1>4
<1>6. h[{n}] = SyncedParty(m, n)
  <2> HIDE DEF h, g, pick
  <2>1. h[{}] = m
    BY <1>5
  <2>2. h[{n}] = SyncedParty(h[{n} \ {pick({n})}], pick({n}))
    BY <1>5
  <2>3. pick({n}) = n /\ {n} \ {pick({n})} = {}
    BY <1>2
  <2> QED BY <2>1, <2>2, <2>3
<1> QED BY <1>1, <1>6

\* Syncing a person adds them and at most their inferred role.
LEMMA SyncedIs ==
  ASSUME NEW m, Sound(m), NEW n \in Names, NEW r, r = SyncedParty(m, n)
  PROVE  /\ Sound(r) /\ m.nodes \subseteq r.nodes /\ r.links = m.links /\ r.facts = m.facts /\ r.bank = m.bank
         /\ \A f \in r.roles \ m.roles :
              f = <<n, "inferred">> /\ <<n, "stated">> \notin m.roles /\ <<n, "ended">> \notin m.roles
<1>1. m \in Memory
  BY DEF Sound
<1>2. PICK nodes : nodes = IF n \in books THEN m.nodes \cup {n} ELSE m.nodes
  OBVIOUS
<1>3. PICK debts : debts = IF n \in books THEN m.debts \cup {n} ELSE m.debts \ {n}
  OBVIOUS
<1>4. PICK guessed : guessed = IF {<<n, "stated">>, <<n, "ended">>} \cap m.roles # {} THEN m.roles
                               ELSE IF n \in books THEN m.roles \cup {<<n, "inferred">>}
                               ELSE m.roles \ {<<n, "inferred">>}
  OBVIOUS
<1>5. PICK roles : roles = IF n \in m.nodes \cup books THEN guessed ELSE m.roles
  OBVIOUS
<1>6. r = [m EXCEPT !.nodes = nodes, !.debts = debts, !.roles = roles]
  BY <1>2, <1>3, <1>4, <1>5 DEF SyncedParty
<1>7. nodes \in SUBSET Names /\ debts \in SUBSET Names /\ m.nodes \subseteq nodes
  BY <1>1, <1>2, <1>3 DEF Memory
<1>8. /\ roles \subseteq m.roles \cup {<<n, "inferred">>}
      /\ \A f \in roles \ m.roles :
           f = <<n, "inferred">> /\ <<n, "stated">> \notin m.roles /\ <<n, "ended">> \notin m.roles
  BY <1>4, <1>5
<1>9. roles \in SUBSET (Names \X {"inferred", "stated", "ended"})
  <2>1. m.roles \in SUBSET (Names \X {"inferred", "stated", "ended"})
    BY <1>1, FieldsAre
  <2>2. <<n, "inferred">> \in Names \X {"inferred", "stated", "ended"}
    BY PairIs
  <2> QED BY <1>8, <2>1, <2>2
<1>10. /\ r \in Memory /\ r.nodes = nodes /\ r.roles = roles /\ r.links = m.links /\ r.former = m.former
       /\ r.facts = m.facts /\ r.closed = m.closed /\ r.bank = m.bank
  BY <1>1, <1>6, <1>7, <1>9 DEF Memory
<1>11. Sound(r)
  BY <1>7, <1>10 DEF Sound
<1> QED BY <1>7, <1>8, <1>10, <1>11

\* A sync keeps the invariant.
LEMMA SyncKeeps ==
  ASSUME IInv, NamesAssumption, Sync
  PROVE  Step
<1>1. /\ queue # <<>> /\ Job.kind = "sync" /\ queue' = Tail(queue) /\ crossed' = crossed \cup Doubled(memory')
      /\ UNCHANGED <<books, parties, work, plans, talk, erased, quiet>>
  BY DEF Sync
<1>2. PICK n \in Names : Job.names = {n}
  BY <1>1, JobIs
<1>3. memory' = SyncedParty(memory, n)
  BY <1>2, OneNameIs DEF Sync
<1>4. /\ Sound(memory') /\ memory'.links = memory.links /\ memory'.facts = memory.facts
      /\ memory'.bank = memory.bank
      /\ \A f \in memory'.roles \ memory.roles :
           f = <<n, "inferred">> /\ <<n, "stated">> \notin memory.roles /\ <<n, "ended">> \notin memory.roles
  <2>1. Sound(memory)
    BY SoundIs DEF IInv
  <2>2. PICK m : m = memory
    OBVIOUS
  <2>3. PICK r : r = SyncedParty(m, n)
    OBVIOUS
  <2> QED BY <1>3, <2>1, <2>2, <2>3, SyncedIs
<1>5. erased = {} /\ ~quiet /\ plans["worker"] = <<>> /\ work = "start"
  <2>1. queue # <<>> /\ Job.kind # "curate"
    BY <1>1
  <2> QED BY <2>1 DEF IInv, QuietIsQuiet, WorkIsOnAJob
<1>6. turn' = turn /\ plans' = plans /\ erased' = {} /\ work' = work /\ quiet' = quiet
  BY <1>1, <1>5 DEF talk
<1>7. TypeOK'
  <2>1. /\ books' = books /\ parties' = parties /\ turn' = turn /\ work' = work
    BY <1>1, <1>6
  <2>2. {memory'.bank[b] : b \in Names} \subseteq parties' \cup {NoName}
    BY <1>4, <2>1 DEF IInv, TypeOK
  <2>3. /\ books' \subseteq parties' /\ parties' \subseteq Names
        /\ work' \in {"start", "notes", "propose", "end"} /\ turn'.unresolved \subseteq Names
    BY <2>1 DEF IInv, TypeOK
  <2> QED BY <1>4, <2>2, <2>3 DEF Sound, TypeOK, AliasNodes
<1>8. TalkIsTyped'
  BY <1>1, <1>6, JobIs DEF IInv, TalkIsTyped, talk
<1>9. WorkIsOnAJob' /\ QuietIsQuiet'
  BY <1>5, <1>6 DEF WorkIsOnAJob, QuietIsQuiet
<1>10. NamesAreKept'
  BY <1>1, <1>4 DEF IInv, NamesAreKept
<1>11. OneOfEach'
  <2>1. \A l, k \in memory'.links : l[1] = k[1] /\ l[1] \notin crossed' => l = k
    BY <1>1, <1>4 DEF IInv, OneOfEach
  <2>2. \A f, g \in memory'.facts : f[1] = g[1] /\ f[2] = g[2] => f = g
    BY <1>4 DEF IInv, OneOfEach
  <2>3. ASSUME NEW p \in Names, <<p, "inferred">> \in memory'.roles
        PROVE  {<<p, "stated">>, <<p, "ended">>} \cap memory'.roles = {}
    <3>1. \A x, y \in {"inferred", "stated", "ended"} : <<p, x>> = <<n, y>> => p = n /\ x = y
      OBVIOUS
    <3>2. \A x \in {"stated", "ended"} : <<p, x>> \in memory'.roles => <<p, x>> \in memory.roles
      BY <1>4, <3>1
    <3>3. <<p, "stated">> \notin memory.roles /\ <<p, "ended">> \notin memory.roles
      <4>1. CASE <<p, "inferred">> \in memory.roles
        BY <4>1 DEF IInv, OneOfEach
      <4>2. CASE <<p, "inferred">> \notin memory.roles
        <5>1. /\ <<p, "inferred">> = <<n, "inferred">>
              /\ <<n, "stated">> \notin memory.roles /\ <<n, "ended">> \notin memory.roles
          BY <1>4, <2>3, <4>2, Zenon
        <5>2. p = n
          BY <3>1, <5>1
        <5> QED BY <5>1, <5>2
      <4> QED BY <4>1, <4>2
    <3> QED BY <3>2, <3>3
  <2> QED BY <2>1, <2>2, <2>3 DEF OneOfEach
<1>12. ErasedIsGone'
  BY <1>6 DEF ErasedIsGone
<1>13. PlansAreGood'
  <2> SUFFICES ASSUME NEW v \in Writers PROVE PlanIsGood(v, plans[v])'
    BY DEF PlansAreGood
  <2>1. PICK other : other = plans[v] /\ other = plans'[v]
    BY <1>6
  <2>2. CASE v = "worker"
    <3>1. other = <<>>
      BY <1>5, <2>1, <2>2
    <3> QED BY <2>1, <3>1, EmptyIsGood
  <2>3. CASE v # "worker"
    <3>1. PlanIsGood(v, other)
      BY <2>1 DEF IInv, PlansAreGood
    <3>2. crossed \subseteq crossed' /\ memory'.links \subseteq memory.links /\ erased' \subseteq erased /\ ~quiet'
      BY <1>1, <1>4, <1>5, <1>6
    <3>3. PlanIsGood(v, other)'
      BY <2>3, <3>1, <3>2, PlanStays
    <3> QED BY <2>1, <3>3
  <2> QED BY <2>2, <2>3
<1>14. RefusedCouldBe'
  BY <1>6, TurnStays DEF IInv
<1>15. StatedStands
  <2>1. memory'.facts = memory.facts
    BY <1>4
  <2> QED BY <2>1 DEF StatedStands
<1>16. PeopleStayApart
  BY <1>1, ApartShorter DEF IInv
<1> QED BY <1>7, <1>8, <1>9, <1>10, <1>11, <1>12, <1>13, <1>14, <1>15, <1>16 DEF Step, IInv

-----------------------------------------------------------------------------
(* The turns.                                                              *)

\* What a step of a turn leaves alone, and what it hands to the worker.
Talks ==
  /\ UNCHANGED <<work, plans>>
  /\ queue' = queue \/ \E job \in SyncJob \cup CurateJob : queue' = Append(queue, job)
  /\ (quiet' = quiet /\ erased' = erased /\ turn.open) \/ (quiet' = FALSE /\ erased' = {})

\* The first job stays the first when one more comes.
LEMMA HeadStays ==
  ASSUME NEW S, NEW q \in Seq(S), q # <<>>, NEW e \in S
  PROVE  Append(q, e) # <<>> /\ Head(Append(q, e)) = Head(q)
OBVIOUS

\* Turns only add jobs behind.
LEMMA JobStays ==
  ASSUME TalkIsTyped, Talks
  PROVE  /\ queue' \in Seq(SyncJob \cup CurateJob)
         /\ queue # <<>> => queue' # <<>> /\ Head(queue') = Head(queue)
<1>1. queue \in Seq(SyncJob \cup CurateJob)
  BY DEF TalkIsTyped
<1>2. CASE queue' = queue
  BY <1>1, <1>2
<1>3. CASE \E job \in SyncJob \cup CurateJob : queue' = Append(queue, job)
  <2>1. PICK job \in SyncJob \cup CurateJob : queue' = Append(queue, job)
    BY <1>3
  <2>2. queue' \in Seq(SyncJob \cup CurateJob)
    BY <1>1, <2>1, AppendProperties
  <2> QED BY <1>1, <2>1, <2>2, HeadStays
<1> QED BY <1>2, <1>3 DEF Talks

\* Turns leave the plans good.
LEMMA TalkKeeps ==
  ASSUME IInv, NamesAssumption, MemoryRests, Talks
  PROVE  WorkIsOnAJob' /\ QuietIsQuiet' /\ PlansAreGood'
<1>1. work' = work /\ plans' = plans
  BY DEF Talks
<1>2. WorkIsOnAJob'
  BY <1>1, JobStays DEF IInv, WorkIsOnAJob, Job
<1>3. ~quiet' /\ erased' = {}
  BY DEF Talks, IInv, QuietIsQuiet, TalkIsTyped
<1>4. QuietIsQuiet'
  BY <1>3 DEF QuietIsQuiet
<1>5. PlansAreGood'
  <2> SUFFICES ASSUME NEW v \in Writers PROVE PlanIsGood(v, plans[v])'
    BY DEF PlansAreGood
  <2>1. PICK other : other = plans[v] /\ other = plans'[v]
    BY <1>1
  <2>2. PlanIsGood(v, other)'
    BY <1>1, <1>3, <2>1, PlanStands
  <2> QED BY <2>1, <2>2
<1> QED BY <1>2, <1>4, <1>5

\* The parts of a turn.
LEMMA TurnIs ==
  ASSUME NEW t \in Turn
  PROVE  /\ t.open \in BOOLEAN /\ t.message \subseteq Names /\ t.known \subseteq Names \X Names
         /\ t.refused \subseteq Names /\ t.unresolved \subseteq Names /\ t.touched \subseteq Names /\ t.note \in Note
BY DEF Turn

\* No turn has refused anybody before it began.
LEMMA ClosedIs ==
  Closed \in Turn /\ Closed.refused = {} /\ Closed.unresolved = {} /\ Closed.open = FALSE
<1>1. <<>> \in Note
  BY DEF Note
<1> QED BY <1>1 DEF Closed, Turn

\* Whom a name could be depends on what was written and what was known.
LEMMA CouldBeStays ==
  ASSUME turn'.message = turn.message, turn'.known = turn.known
  PROVE  \A n : CouldBe(n)' = CouldBe(n)
<1>1. Mentioned' = Mentioned
  BY DEF Mentioned
<1> QED BY <1>1 DEF CouldBe

\* Hearing a message keeps the invariant.
LEMMA HearKeeps ==
  ASSUME IInv, NamesAssumption, NEW message \in Messages, NEW known \in {KnownNames(memory), {}},
         Hear(message, known)
  PROVE  Step
<1>1. /\ UNCHANGED <<books, parties, memory, queue, work, plans, asked, history, crossed>>
      /\ ~turn.open /\ erased' = {} /\ quiet' = FALSE
      /\ turn' = [Closed EXCEPT !.open = TRUE, !.message = message, !.known = known]
  BY DEF Hear
<1>2. MemoryRests /\ Talks
  BY <1>1 DEF MemoryRests, Talks
<1>3. message \subseteq Names /\ known \subseteq Names \X Names
  <2>1. memory.nodes \subseteq Names /\ memory.links \subseteq Names \X Names
    BY DEF IInv, TypeOK, Memory
  <2>2. \A p \in memory.nodes : <<p, p>> \in Names \X Names
    BY <2>1, PairIs
  <2> QED BY <2>1, <2>2 DEF KnownNames, NamesAssumption
<1>4. turn' \in Turn /\ turn'.refused = {} /\ turn'.unresolved = {}
  BY <1>1, <1>3, ClosedIs DEF Turn
<1>5. TypeOK'
  <2>1. books' = books /\ parties' = parties /\ memory' = memory /\ work' = work /\ turn'.unresolved \subseteq Names
    BY <1>1, <1>4
  <2> QED BY <2>1 DEF IInv, TypeOK, AliasNodes
<1>6. TalkIsTyped'
  <2>1. /\ asked' = asked /\ history' = history /\ queue' = queue /\ plans' = plans /\ quiet' \in BOOLEAN
        /\ erased' \subseteq Names \X Names
    BY <1>1
  <2> QED BY <1>4, <2>1 DEF IInv, TalkIsTyped
<1>7. RefusedCouldBe'
  BY <1>4 DEF RefusedCouldBe
<1>8. PeopleStayApart
  BY <1>1 DEF PeopleStayApart, Recorded
<1> QED BY <1>2, <1>5, <1>6, <1>7, <1>8, OrderStands, TalkKeeps DEF Step, IInv

\* So does a turn that fails.
LEMMA FailTurnKeeps ==
  ASSUME IInv, NamesAssumption, FailTurn
  PROVE  Step
<1>1. /\ UNCHANGED <<books, parties, memory, queue, work, plans, asked, history, erased, quiet, crossed>>
      /\ turn.open /\ turn' = Closed
  BY DEF FailTurn
<1>2. MemoryRests /\ Talks
  BY <1>1 DEF MemoryRests, Talks
<1>3. TypeOK'
  <2>1. /\ books' = books /\ parties' = parties /\ memory' = memory /\ work' = work
        /\ turn'.unresolved \subseteq Names
    BY <1>1, ClosedIs
  <2> QED BY <2>1 DEF IInv, TypeOK, AliasNodes
<1>4. TalkIsTyped'
  <2>1. turn' \in Turn
    BY <1>1, ClosedIs
  <2> QED BY <1>1, <2>1 DEF IInv, TalkIsTyped
<1>5. RefusedCouldBe'
  BY <1>1, ClosedIs DEF RefusedCouldBe
<1>6. PeopleStayApart
  BY <1>1, ApartIdle DEF IInv
<1> QED BY <1>2, <1>3, <1>4, <1>5, <1>6, OrderStands, TalkKeeps DEF Step, IInv

\* So does a reply, that queues the curation.
LEMMA ReplyKeeps ==
  ASSUME IInv, NamesAssumption, NEW names \in SUBSET Names, Reply(names)
  PROVE  Step
<1>1. /\ UNCHANGED <<books, parties, memory, work, plans, erased, quiet, crossed>>
      /\ turn.open /\ turn' = Closed /\ asked' = names /\ history' = history \cup turn.message
  BY DEF Reply
<1>2. PICK job : job = [kind |-> "curate", names |-> turn.touched, note |-> turn.note, heard |-> Heard]
  OBVIOUS
<1>3. queue' = Append(queue, job)
  BY <1>2 DEF Reply
<1>4. turn \in Turn /\ history \subseteq Names /\ asked \subseteq Names
  BY DEF IInv, TalkIsTyped
<1>5. job \in CurateJob
  <2>1. Heard \subseteq Names /\ turn.touched \subseteq Names /\ turn.note \in Note
    BY <1>4, TurnIs DEF Heard
  <2> QED BY <1>2, <2>1 DEF CurateJob
<1>6. MemoryRests /\ Talks
  BY <1>1, <1>3, <1>5 DEF MemoryRests, Talks
<1>7. TypeOK'
  <2>1. /\ books' = books /\ parties' = parties /\ memory' = memory /\ work' = work
        /\ turn'.unresolved \subseteq Names
    BY <1>1, ClosedIs
  <2> QED BY <2>1 DEF IInv, TypeOK, AliasNodes
<1>8. TalkIsTyped'
  <2>1. turn' \in Turn /\ asked' \subseteq Names /\ history' \subseteq Names
    BY <1>1, <1>4, ClosedIs, TurnIs
  <2>2. queue' \in Seq(SyncJob \cup CurateJob)
    BY <1>6, JobStays DEF IInv
  <2> QED BY <1>1, <2>1, <2>2 DEF IInv, TalkIsTyped
<1>9. RefusedCouldBe'
  BY <1>1, ClosedIs DEF RefusedCouldBe
<1>10. PeopleStayApart
  BY <1>1, ClosedIs DEF PeopleStayApart, Recorded
<1> QED BY <1>6, <1>7, <1>8, <1>9, <1>10, OrderStands, TalkKeeps DEF Step, IInv

\* A commit stages the sync of one name.
LEMMA CommitIs ==
  ASSUME IInv, NEW n \in Names, Commit({n})
  PROVE  /\ parties' = parties \cup {n}
         /\ \E job \in SyncJob : queue' = Append(queue, job)
         /\ \A m : queue' = Append(queue, [kind |-> "sync", names |-> {m}]) => m = n
<1>1. PICK job : job = [kind |-> "sync", names |-> {n}]
  OBVIOUS
<1>2. queue' = Append(queue, job) /\ parties' = parties \cup {n}
  BY <1>1 DEF Commit
<1>3. job \in SyncJob
  BY <1>1 DEF SyncJob
<1>4. ASSUME NEW m, queue' = Append(queue, [kind |-> "sync", names |-> {m}]) PROVE m = n
  <2>1. PICK other : other = [kind |-> "sync", names |-> {m}]
    OBVIOUS
  <2>2. queue \in Seq(SyncJob \cup CurateJob) /\ Append(queue, job) = Append(queue, other)
    BY <1>2, <1>4, <2>1 DEF IInv, TalkIsTyped
  <2>3. job = other
    BY <2>2, AppendInjective
  <2>4. job.names = {n} /\ other.names = {m}
    BY <1>1, <2>1
  <2>5. {n} = {m}
    BY <2>3, <2>4
  <2> QED BY <2>5
<1> QED BY <1>2, <1>3, <1>4

\* So does undoing an entry.
LEMMA UndoKeeps ==
  ASSUME IInv, NamesAssumption, NEW n \in Names, Undo(n)
  PROVE  Step
<1>1. /\ UNCHANGED <<memory, work, plans, turn, asked, history, erased, quiet, crossed>>
      /\ turn.open /\ books' = books \ {n} /\ Commit({n})
  BY DEF Undo
<1>2. PICK job \in SyncJob : queue' = Append(queue, job)
  BY <1>1, CommitIs
<1>3. MemoryRests /\ Talks
  BY <1>1, <1>2 DEF MemoryRests, Talks
<1>4. TypeOK'
  <2>1. /\ parties' = parties \cup {n} /\ books' \subseteq books /\ memory' = memory /\ work' = work /\ turn' = turn
    BY <1>1, CommitIs
  <2> QED BY <2>1 DEF IInv, TypeOK, AliasNodes
<1>5. TalkIsTyped'
  <2>1. queue' \in Seq(SyncJob \cup CurateJob)
    BY <1>3, JobStays DEF IInv
  <2> QED BY <1>1, <2>1 DEF IInv, TalkIsTyped
<1>6. RefusedCouldBe'
  <2>1. turn' = turn
    BY <1>1
  <2> QED BY <2>1, TurnStays DEF IInv
<1>7. PeopleStayApart
  <2>1. n \notin books'
    BY <1>1
  <2> QED BY <1>1, <2>1, CommitIs DEF PeopleStayApart, Recorded
<1> QED BY <1>3, <1>4, <1>5, <1>6, <1>7, OrderStands, TalkKeeps DEF Step, IInv

\* So does confirming a bank name.
LEMMA ConfirmKeeps ==
  ASSUME IInv, NamesAssumption, NEW b \in Aliases, NEW p \in Names, ConfirmBankName(b, p)
  PROVE  Step
<1>1. /\ UNCHANGED <<work, plans, asked, history, erased, quiet, crossed>>
      /\ turn.open /\ books' = books \cup {p} /\ Commit({p}) /\ turn.note = <<>>
      /\ memory' = (IF b = p THEN memory ELSE [memory EXCEPT !.bank[b] = p])
      /\ turn' = [turn EXCEPT !.note = <<b, p>>]
  BY DEF ConfirmBankName
<1>2. PICK job \in SyncJob : queue' = Append(queue, job)
  BY <1>1, CommitIs
<1>3. b \in Names /\ memory \in Memory /\ turn \in Turn
  BY DEF NamesAssumption, IInv, TypeOK, TalkIsTyped
<1>4. /\ memory' \in Memory /\ memory'.nodes = memory.nodes /\ memory'.links = memory.links
      /\ memory'.former = memory.former /\ memory'.facts = memory.facts /\ memory'.closed = memory.closed
      /\ memory'.roles = memory.roles
      /\ \A k \in Names : memory'.bank[k] \in {memory.bank[k], p}
  <2>1. CASE b = p
    BY <1>1, <1>3, <2>1
  <2>2. CASE b # p
    <3>1. memory.bank \in [Names -> Names \cup {NoName}]
      BY <1>3 DEF Memory
    <3>2. PICK bank : bank = [memory.bank EXCEPT ![b] = p]
      OBVIOUS
    <3>3. bank \in [Names -> Names \cup {NoName}] /\ \A k \in Names : bank[k] \in {memory.bank[k], p}
      BY <3>1, <3>2
    <3>4. memory' = [memory EXCEPT !.bank = bank]
      BY <1>1, <2>2, <3>2
    <3> QED BY <1>3, <3>3, <3>4 DEF Memory
  <2> QED BY <2>1, <2>2
<1>5. erased = {} /\ ~quiet
  BY <1>1 DEF IInv, QuietIsQuiet
<1>6. MemoryRests /\ Talks
  BY <1>1, <1>2, <1>4, <1>5 DEF MemoryRests, Talks
<1>7. <<b, p>> \in Note /\ <<b, p>> # <<>>
  <2>1. <<b, p>> \in Names \X Names
    BY <1>3, PairIs
  <2>2. <<b, p>> # <<>>
    OBVIOUS
  <2> QED BY <2>1, <2>2 DEF Note
<1>8. turn' \in Turn /\ turn'.note # turn.note
  <2>1. PICK note \in Note : note = <<b, p>> /\ note # <<>>
    BY <1>7
  <2>2. turn' = [turn EXCEPT !.note = note]
    BY <1>1, <2>1
  <2> QED BY <1>1, <1>3, <2>1, <2>2 DEF Turn
<1>9. turn'.message = turn.message /\ turn'.known = turn.known /\ turn'.refused = turn.refused /\ turn'.unresolved = turn.unresolved
  BY <1>1, <1>3 DEF Turn
<1>10. TypeOK'
  <2>1. parties' = parties \cup {p}
    BY <1>1, CommitIs
  <2>2. {memory'.bank[k] : k \in Names} \subseteq parties' \cup {NoName}
    <3>1. \A k \in Names : memory.bank[k] \in parties \cup {NoName}
      BY DEF IInv, TypeOK
    <3> QED BY <1>4, <2>1, <3>1
  <2>3. \A l \in AliasNodes(memory') : l[2] \in memory'.nodes
    BY <1>4 DEF IInv, TypeOK, AliasNodes
  <2>4. \A f \in memory'.facts \cup memory'.closed : f[1] \in memory'.nodes
    BY <1>4 DEF IInv, TypeOK
  <2>5. /\ books' \subseteq parties' /\ parties' \subseteq Names
        /\ work' \in {"start", "notes", "propose", "end"} /\ turn'.unresolved \subseteq Names
    BY <1>1, <1>9, <2>1 DEF IInv, TypeOK
  <2> QED BY <1>4, <2>2, <2>3, <2>4, <2>5 DEF TypeOK, AliasNodes
<1>11. TalkIsTyped'
  <2>1. queue' \in Seq(SyncJob \cup CurateJob)
    BY <1>6, JobStays DEF IInv
  <2> QED BY <1>1, <1>8, <2>1 DEF IInv, TalkIsTyped
<1>12. RefusedCouldBe'
  BY <1>9, CouldBeStays DEF IInv, RefusedCouldBe
<1>13. PeopleStayApart
  BY <1>8 DEF PeopleStayApart, Recorded
<1> QED BY <1>6, <1>10, <1>11, <1>12, <1>13, OrderStands, TalkKeeps DEF Step, IInv

\* Whoever a name could be was named in the message or is known.
LEMMA CouldBeIsNamed ==
  ASSUME NEW n, turn \in Turn
  PROVE  CouldBe(n) \subseteq Names
<1>1. \A k \in turn.known : k[2] \in Names
  BY TurnIs
<1> QED BY <1>1 DEF CouldBe

\* Keeping a name as it is keeps the invariant.
LEMMA KeepKeeps ==
  ASSUME IInv, NamesAssumption, NEW n \in Names, Keep(n), turn.open,
         UNCHANGED <<memory, work, plans, asked, history, erased, quiet, crossed>>,
         n \notin turn.refused, InDoubt(n) => InText(n, asked)
  PROVE  Step
<1>1. /\ WrittenByUser(n) \/ n \in parties
      /\ books' = books \cup {n} /\ Commit({n})
      /\ turn' = [turn EXCEPT !.touched = turn.touched \cup {n}]
  BY DEF Keep
<1>2. PICK job \in SyncJob : queue' = Append(queue, job)
  BY <1>1, CommitIs
<1>3. turn \in Turn
  BY DEF IInv, TalkIsTyped
<1>4. /\ turn' \in Turn /\ turn'.message = turn.message /\ turn'.known = turn.known
      /\ turn'.refused = turn.refused /\ turn'.unresolved = turn.unresolved
  <2>1. PICK touched \in SUBSET Names : touched = turn.touched \cup {n}
    BY <1>3, TurnIs
  <2>2. turn' = [turn EXCEPT !.touched = touched]
    BY <1>1, <2>1
  <2> QED BY <1>3, <2>1, <2>2 DEF Turn
<1>5. MemoryRests /\ Talks
  BY <1>2 DEF MemoryRests, Talks
<1>6. TypeOK'
  <2>1. /\ parties' = parties \cup {n} /\ books' = books \cup {n} /\ memory' = memory /\ work' = work
        /\ turn'.unresolved = turn.unresolved
    BY <1>1, <1>4, CommitIs
  <2> QED BY <2>1 DEF IInv, TypeOK, AliasNodes
<1>7. TalkIsTyped'
  <2>1. queue' \in Seq(SyncJob \cup CurateJob)
    BY <1>5, JobStays DEF IInv
  <2> QED BY <1>4, <2>1 DEF IInv, TalkIsTyped
<1>8. RefusedCouldBe'
  BY <1>4, CouldBeStays DEF IInv, RefusedCouldBe
<1>9. PeopleStayApart
  <2>1. \A m \in Names : Recorded(m) => m = n
    BY <1>1, CommitIs DEF Recorded
  <2> QED BY <1>1, <2>1, Zenon DEF PeopleStayApart
<1> QED BY <1>5, <1>6, <1>7, <1>8, <1>9, OrderStands, TalkKeeps DEF Step, IInv

\* Refusing an ambiguous name keeps it, and the name is ambiguous.
LEMMA RefuseKeeps ==
  ASSUME IInv, NamesAssumption, NEW n \in Names, Refuse(n), turn.open, CouldBe(n) # {},
         UNCHANGED <<memory, work, plans, asked, history, erased, quiet, crossed>>
  PROVE  Step
<1>1. /\ books' = books /\ parties' = parties /\ queue' = queue
      /\ turn' = [turn EXCEPT !.refused = turn.refused \cup {n}, !.unresolved = turn.unresolved \cup CouldBe(n)]
  BY DEF Refuse
<1>2. turn \in Turn
  BY DEF IInv, TalkIsTyped
<1>3. /\ turn' \in Turn /\ turn'.message = turn.message /\ turn'.known = turn.known
      /\ turn'.refused = turn.refused \cup {n} /\ turn'.unresolved \subseteq Names
  <2>1. PICK refused \in SUBSET Names : refused = turn.refused \cup {n}
    BY <1>2, TurnIs
  <2>2. PICK unresolved \in SUBSET Names : unresolved = turn.unresolved \cup CouldBe(n)
    BY <1>2, TurnIs, CouldBeIsNamed
  <2>3. turn' = [turn EXCEPT !.refused = refused, !.unresolved = unresolved]
    BY <1>1, <2>1, <2>2
  <2> QED BY <1>2, <2>1, <2>2, <2>3 DEF Turn
<1>4. MemoryRests /\ Talks
  BY <1>1 DEF MemoryRests, Talks
<1>5. TypeOK'
  BY <1>1, <1>3 DEF IInv, TypeOK, AliasNodes
<1>6. TalkIsTyped'
  BY <1>1, <1>3 DEF IInv, TalkIsTyped
<1>7. RefusedCouldBe'
  <2>1. \A m : CouldBe(m)' = CouldBe(m)
    BY <1>3, CouldBeStays
  <2> QED BY <1>3, <2>1 DEF IInv, RefusedCouldBe
<1>8. PeopleStayApart
  BY <1>1, ApartIdle DEF IInv
<1> QED BY <1>4, <1>5, <1>6, <1>7, <1>8, OrderStands, TalkKeeps DEF Step, IInv

\* Recording a debt keeps it.
LEMMA RecordKeeps ==
  ASSUME IInv, NamesAssumption, NEW n \in Names, NEW confirmed \in BOOLEAN, Record(n, confirmed)
  PROVE  Step
<1>1. UNCHANGED <<memory, work, plans, asked, history, erased, quiet, crossed>> /\ turn.open
  BY DEF Record
<1>2. n \in turn.refused => CouldBe(n) # {}
  BY DEF IInv, RefusedCouldBe
<1>3. CASE confirmed /\ ConfirmedNew(n)
  <2>1. Keep(n) /\ InText(n, asked) /\ n \notin turn.refused
    BY <1>3 DEF Record, ConfirmedNew
  <2> QED BY <1>1, <2>1, KeepKeeps
<1>4. CASE ~(confirmed /\ ConfirmedNew(n)) /\ CouldBe(n) # {}
  <2>1. Refuse(n)
    BY <1>4 DEF Record
  <2> QED BY <1>1, <1>4, <2>1, RefuseKeeps
<1>5. CASE ~(confirmed /\ ConfirmedNew(n)) /\ CouldBe(n) = {}
  <2>1. Keep(n) /\ ~InDoubt(n)
    BY <1>5 DEF Record, InDoubt
  <2> QED BY <1>1, <1>2, <1>5, <2>1, KeepKeeps
<1> QED BY <1>3, <1>4, <1>5

-----------------------------------------------------------------------------
(* The theorems.                                                           *)

\* Two that are not in a set have nothing in common with it.
LEMMA NeitherIsIn ==
  ASSUME NEW S, NEW a, NEW b, a \notin S, b \notin S
  PROVE  {a, b} \cap S = {}
  OBVIOUS

\* The memory of a ledger never talked about satisfies the invariant.
LEMMA InitIsGood ==
  ASSUME NamesAssumption, Init
  PROVE  IInv
<1>1. Known \subseteq Names /\ Known \X {"inferred"} \subseteq Names \X {"inferred", "stated", "ended"}
  BY DEF NamesAssumption
<1>2. PICK roles : roles = Known \X {"inferred"}
  OBVIOUS
<1>3. PICK bank : bank = [b \in Names |-> NoName]
  OBVIOUS
<1>4. /\ memory = [nodes |-> Known, debts |-> Known, links |-> {}, former |-> {}, facts |-> {},
                   closed |-> {}, roles |-> roles, bank |-> bank]
      /\ bank \in [Names -> Names \cup {NoName}] /\ roles \in SUBSET (Names \X {"inferred", "stated", "ended"})
  BY <1>1, <1>2, <1>3 DEF Init
<1>5. /\ memory \in Memory /\ memory.nodes = Known /\ memory.links = {} /\ memory.former = {} /\ memory.facts = {}
      /\ memory.closed = {} /\ memory.roles = roles /\ memory.bank = bank
  BY <1>1, <1>4 DEF Memory
<1>6. /\ books = Known /\ parties = Known /\ queue = <<>> /\ work = "start" /\ plans = [w \in Writers |-> <<>>]
      /\ turn = Closed /\ asked = {} /\ history = {} /\ erased = {} /\ quiet = FALSE /\ crossed = {}
  BY DEF Init
<1>7. TypeOK
  <2>1. {memory.bank[b] : b \in Names} \subseteq {NoName}
    BY <1>3, <1>5
  <2> QED BY <1>1, <1>5, <1>6, <2>1, ClosedIs DEF TypeOK, AliasNodes
<1>8. TalkIsTyped
  <2>1. <<>> \in Seq(Statement) /\ <<>> \in Seq(SyncJob \cup CurateJob)
    OBVIOUS
  <2>2. plans \in [Writers -> Seq(Statement)]
    BY <1>6, <2>1
  <2> QED BY <1>6, <2>1, <2>2, ClosedIs DEF TalkIsTyped
<1>9. WorkIsOnAJob /\ QuietIsQuiet
  BY <1>6 DEF WorkIsOnAJob, QuietIsQuiet, Writers
<1>10. PlansAreGood
  <2> SUFFICES ASSUME NEW w \in Writers PROVE PlanIsGood(w, plans[w])
    BY DEF PlansAreGood
  <2>1. plans[w] = <<>>
    BY <1>6
  <2> QED BY <2>1, EmptyIsGood
<1>11. NamesAreKept
  BY <1>5 DEF NamesAreKept, Doubled
<1>12. OneOfEach
  <2>1. \A p : <<p, "stated">> \notin roles /\ <<p, "ended">> \notin roles
    <3>1. \A f \in roles : f[2] = "inferred"
      BY <1>2
    <3>2. "stated" # "inferred" /\ "ended" # "inferred"
      OBVIOUS
    <3> SUFFICES ASSUME NEW p PROVE <<p, "stated">> \notin roles /\ <<p, "ended">> \notin roles
      OBVIOUS
    <3>3. <<p, "stated">>[2] = "stated" /\ <<p, "ended">>[2] = "ended"
      BY PartsAre, Zenon
    <3> QED BY <3>1, <3>2, <3>3, Zenon
  <2>2. memory.links = {} /\ memory.facts = {} /\ memory.roles = roles
    BY <1>5
  <2>3. \A p \in Names : {<<p, "stated">>, <<p, "ended">>} \cap memory.roles = {}
    BY <2>1, <2>2, NeitherIsIn, Zenon
  <2> QED BY <2>2, <2>3, Zenon DEF OneOfEach
<1>13. ErasedIsGone /\ RefusedCouldBe
  BY <1>6, ClosedIs DEF ErasedIsGone, RefusedCouldBe
<1> QED BY <1>7, <1>8, <1>9, <1>10, <1>11, <1>12, <1>13 DEF IInv

\* Every step keeps the invariant, and the trader has the last word.
LEMMA NextKeeps ==
  ASSUME IInv, NamesAssumption, Next
  PROVE  Step
<1>1. CASE Talk
  BY <1>1, HearKeeps, RecordKeeps, UndoKeeps, ConfirmKeeps, ReplyKeeps, FailTurnKeeps DEF Talk
<1>2. CASE Sync
  BY <1>2, SyncKeeps
<1>3. CASE Curate
  BY <1>3, InferKeeps, InferNothingKeeps, ApplyNoteKeeps, FinishKeeps, AddAliasKeeps, ProposalsKeep DEF Curate
<1>4. CASE \E n \in Names : PressForget(n) \/ \E a \in Aliases : PressRemove(n, a)
  BY <1>4, PressForgetKeeps, PressRemoveKeeps
<1>5. CASE StartRebuild
  BY <1>5, StartRebuildKeeps
<1>6. CASE \E w \in Writers : Run(w) \/ Fail(w)
  BY <1>6, RunKeeps, FailKeeps
<1>7. CASE Crash
  BY <1>7, CrashKeeps
<1> QED BY <1>1, <1>2, <1>3, <1>4, <1>5, <1>6, <1>7 DEF Next

\* So does standing still.
LEMMA StutterKeeps ==
  ASSUME IInv, UNCHANGED vars
  PROVE  Step
<1>1. /\ books' = books /\ parties' = parties /\ memory' = memory /\ queue' = queue /\ work' = work
      /\ plans' = plans /\ turn' = turn /\ asked' = asked /\ history' = history /\ erased' = erased
      /\ quiet' = quiet /\ crossed' = crossed
  BY DEF vars
<1>2. TypeOK' /\ TalkIsTyped' /\ WorkIsOnAJob' /\ QuietIsQuiet'
  BY <1>1 DEF IInv, TypeOK, AliasNodes, TalkIsTyped, WorkIsOnAJob, QuietIsQuiet, Job
<1>3. MemoryRests
  BY <1>1 DEF MemoryRests
<1>4. PlansAreGood'
  <2> SUFFICES ASSUME NEW v \in Writers PROVE PlanIsGood(v, plans[v])'
    BY DEF PlansAreGood
  <2>1. PICK other : other = plans[v] /\ other = plans'[v]
    BY <1>1
  <2>2. PlanIsGood(v, other)'
    BY <1>1, <1>3, <2>1, PlanStands
  <2> QED BY <2>1, <2>2
<1>5. RefusedCouldBe'
  BY <1>1, TurnStays DEF IInv
<1>6. PeopleStayApart
  BY <1>1, ApartIdle DEF IInv
<1> QED BY <1>2, <1>3, <1>4, <1>5, <1>6, OrderStands DEF Step, IInv

\* Every state the turns, the jobs, the buttons and the rebuild reach satisfies the inductive
\* invariant.
THEOREM InvariantHolds == Spec => []IInv
<1>1. Init => IInv
  BY InitIsGood, NamesAssumption
<1>2. IInv /\ [Next]_vars => IInv'
  BY NextKeeps, StutterKeeps, NamesAssumption DEF Step
<1> QED BY <1>1, <1>2, PTL DEF Spec

\* The graph and the table of bank names hold names of people that exist, of the kinds they
\* are for.
THEOREM TypeCorrect == Spec => []TypeOK
<1>1. IInv => TypeOK
  BY DEF IInv
<1> QED BY <1>1, InvariantHolds, PTL

\* A name stands for one person unless two writers raced over it, a fact or a role has one
\* value, and what a button erased stays away from the graph and the bank names until the
\* next turn.
THEOREM MemoryStaysOrderly == Spec => []MemoryIsOrderly
<1>1. IInv => MemoryIsOrderly
  <2> SUFFICES ASSUME IInv PROVE MemoryIsOrderly
    OBVIOUS
  <2>1. OneOfEach /\ ErasedIsGone
    BY DEF IInv
  <2>2. ASSUME NEW p \in Names, Names \X {p} \subseteq erased
        PROVE  (\A k \in Kinds : InForce(memory, p, k) = {}) /\ <<p, "stated">> \notin memory.roles
    <3>1. <<p, p>> \in Names \X {p}
      OBVIOUS
    <3>2. FactsGone(p) /\ RolesGone(p)
      BY <2>1, <2>2, <3>1 DEF ErasedIsGone
    <3> QED BY <3>2 DEF FactsGone, RolesGone, InForce
  <2>3. \A l \in erased : l \notin memory.links /\ memory.bank[l[1]] # l[2]
    BY <2>1, Zenon DEF ErasedIsGone
  <2>4. ErasedStaysErased
    BY <2>2, <2>3, Zenon DEF ErasedStaysErased
  <2> QED BY <2>1, <2>4 DEF MemoryIsOrderly
<1> QED BY <1>1, InvariantHolds, PTL

\* No guess of the ledger's or the model's takes the place of what the trader stated.  An entry
\* for a name that could be somebody else's waits for a later turn than the one that raised
\* the question, and for a last reply that has the name in its text (a longer name will do).
THEOREM TraderHasTheLastWord == Spec => TraderDecides
<1>1. IInv /\ [Next]_vars => [StatedStands /\ PeopleStayApart]_vars
  BY NextKeeps, NamesAssumption DEF Step
<1> QED BY <1>1, InvariantHolds, PTL DEF Spec, TraderDecides
=============================================================================
