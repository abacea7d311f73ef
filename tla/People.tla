------------------------------- MODULE People -------------------------------
(***************************************************************************)
(* What is remembered about one trader's people besides debts: other       *)
(* names, facts and roles in the graph (memory/falkor.py) and bank names   *)
(* in Postgres (party_aliases).  Turns write the books and leave jobs;     *)
(* the worker runs the jobs one at a time; the dashboard's buttons and the *)
(* rebuild script write beside it.  A writer reads once, plans its         *)
(* statements and runs them one by one; each may fail, with or without     *)
(* effect.  Names are keys (lower case, trimmed).                          *)
(***************************************************************************)
EXTENDS Naturals, FiniteSets, Sequences, SequencesExt

CONSTANTS
  Names,      \* every name that occurs: a person's, another name, a bank name
  NoName,
  Known,      \* the people the books and the graph have at the start
  Aliases,    \* the names given as another name, or as the name on a bank alert
  Resembles,  \* <<n, k>>: n is a short form, or a possessive, of the name k
  Within,     \* <<n, k>>: the letters of n are part of those of k, "mama c" of "mama chidi"
  Words,      \* of each name: its words, titles left out
  Messages,   \* what the trader may write: the sets of names in it
  Kinds,      \* of facts: usual_order, do_not_remind
  Contents,   \* what a fact says: a usual order, an end date
  MaxTurns,   \* bound: turns
  MaxActs     \* bound: calls of tools, buttons, rebuilds and mishaps together

ASSUME NamesAssumption ==
  /\ NoName \notin Names /\ (Known \cup Aliases) \subseteq Names /\ IsFiniteSet(Names)
  /\ Resembles \subseteq Names \X Names
  /\ Messages \subseteq SUBSET Names
  /\ "usual_order" \in Kinds /\ Kinds \subseteq {"usual_order", "do_not_remind"}
  /\ {MaxTurns, MaxActs} \subseteq Nat

ASSUME TextAssumption == Within \subseteq Names \X Names /\ DOMAIN Words = Names

VARIABLES
  books,    \* names with a live entry
  parties,  \* rows of the table parties: they are never deleted
  memory,   \* the graph, and party_aliases as its field bank
  queue,    \* the trader's jobs, oldest first
  work,     \* where the worker is in the curate job at the head
  plans,    \* the statements each writer has still to run
  turn,     \* the turn in progress
  asked,    \* names in the assistant's last reply
  history,  \* names in the trader's earlier messages
  erased,   \* what buttons have erased since the last turn
  quiet,    \* nothing that knew more has been at work since the button was pressed
  crossed,  \* names two writers were about to link, or that were a person's own as well
  count     \* what has been spent of each bound

vars == <<books, parties, memory, queue, work, plans, turn, asked, history, erased, quiet, crossed, count>>
talk == <<turn, asked, history>>

Writers == {"worker", "button", "script"}

-----------------------------------------------------------------------------
(* The graph and its statements.  m.links are the REFERS_TO edges in force *)
(* and m.former the closed ones, as <<alias, party>>.                      *)

Memory ==
  [nodes : SUBSET Names, debts : SUBSET Names,
   links : SUBSET (Names \X Names), former : SUBSET (Names \X Names),
   facts : SUBSET (Names \X Kinds \X {"stated", "inferred"} \X Contents),
   closed : SUBSET (Names \X Kinds),
   roles : SUBSET (Names \X {"inferred", "stated", "ended"}),
   bank : [Names -> Names \cup {NoName}]]

AliasNodes(m) == m.links \cup m.former
Doubled(m) == {n \in m.nodes : \E l \in m.links : l[1] = n}

\* sync_parties: the ledger's party, its debts and the role it suggests, unless the trader
\* has ever stated one.
SyncedParty(m, n) ==
  LET guessed == IF {<<n, "stated">>, <<n, "ended">>} \cap m.roles # {} THEN m.roles
                 ELSE IF n \in books THEN m.roles \cup {<<n, "inferred">>}
                 ELSE m.roles \ {<<n, "inferred">>}
  IN  [m EXCEPT !.nodes = IF n \in books THEN @ \cup {n} ELSE @,
                !.debts = IF n \in books THEN @ \cup {n} ELSE @ \ {n},
                !.roles = IF n \in m.nodes \cup books THEN guessed ELSE @]

InForce(m, p, k) == {f \in m.facts : f[1] = p /\ f[2] = k}
CloseFact(m, p, k) ==
  [m EXCEPT !.facts = @ \ InForce(m, p, k),
            !.closed = IF InForce(m, p, k) = {} THEN @ ELSE @ \cup {<<p, k>>}]
AddFact(m, f) == IF f[1] \in m.nodes THEN [m EXCEPT !.facts = @ \cup {f}] ELSE m

AddAlias(m, a, p) == IF p \in m.nodes THEN [m EXCEPT !.links = @ \cup {<<a, p>>}] ELSE m
CloseAlias(m, a, p) ==
  [m EXCEPT !.links = @ \ {<<a, p>>}, !.former = @ \cup ({<<a, p>>} \cap m.links)]

\* The FORGET statements.  Deleting an alias takes its edges to other people with it.
ForgetFacts(m, p) ==
  [m EXCEPT !.facts = {f \in @ : f[1] # p}, !.closed = {f \in @ : f[1] # p}]
ForgetAliases(m, p) ==
  LET gone == {l[1] : l \in {l \in AliasNodes(m) : l[2] = p}}
  IN  [m EXCEPT !.links = {l \in @ : l[1] \notin gone}, !.former = {l \in @ : l[1] \notin gone}]
ForgetRoles(m, p) == [m EXCEPT !.roles = @ \ {<<p, "stated">>, <<p, "ended">>}]

\* Mutant of IsEmptyParty: facts are not looked at.
IsBareParty(m, p) ==
  /\ p \in m.nodes \ m.debts
  /\ \A l \in AliasNodes(m) : l[2] # p
  /\ {<<p, "stated">>, <<p, "ended">>} \cap m.roles = {}

IsEmptyParty(m, p) ==
  /\ p \in m.nodes \ m.debts
  /\ \A f \in m.facts : f[1] # p
  /\ \A f \in m.closed : f[1] # p
  /\ \A l \in AliasNodes(m) : l[2] # p
  /\ {<<p, "stated">>, <<p, "ended">>} \cap m.roles = {}
RemoveEmptyParty(m, p) ==
  IF IsEmptyParty(m, p)
  THEN [m EXCEPT !.nodes = @ \ {p}, !.roles = @ \ {<<p, "inferred">>}] ELSE m

\* set_stated_role: a role that ends leaves a closed edge, stated before or not.
DeleteInferredRole(m, p) == [m EXCEPT !.roles = @ \ {<<p, "inferred">>}]
OpenRole(m, p) == IF p \in m.nodes THEN [m EXCEPT !.roles = @ \cup {<<p, "stated">>}] ELSE m
EndRole(m, p) ==
  IF p \in m.nodes THEN [m EXCEPT !.roles = (@ \ {<<p, "stated">>}) \cup {<<p, "ended">>}] ELSE m

\* The bank names, in Postgres.
DropBankName(m, a, p) == IF m.bank[a] = p THEN [m EXCEPT !.bank[a] = NoName] ELSE m
DropBankNames(m, p) == [m EXCEPT !.bank = [a \in Names |-> IF @[a] = p THEN NoName ELSE @[a]]]

Result(m, s) ==
  CASE s[1] = "close fact" -> CloseFact(m, s[2], s[3])
    [] s[1] = "add fact" -> AddFact(m, s[2])
    [] s[1] = "add alias" -> AddAlias(m, s[2], s[3])
    [] s[1] \in {"close alias", "unlink"} -> CloseAlias(m, s[2], s[3])
    [] s[1] = "forget facts" -> ForgetFacts(m, s[2])
    [] s[1] = "forget aliases" -> ForgetAliases(m, s[2])
    [] s[1] = "forget roles" -> ForgetRoles(m, s[2])
    [] s[1] = "remove party" -> RemoveEmptyParty(m, s[2])
    [] s[1] = "delete inferred role" -> DeleteInferredRole(m, s[2])
    [] s[1] = "open role" -> OpenRole(m, s[2])
    [] s[1] = "end role" -> EndRole(m, s[2])
    [] s[1] = "drop bank name" -> DropBankName(m, s[2], s[3])
    [] s[1] = "drop bank names" -> DropBankNames(m, s[2])

\* These answer how many they found, and a writer goes on only if there was one.
Refused(m, s) ==
  \/ s[1] = "remove party" /\ ~IsEmptyParty(m, s[2])
  \/ s[1] = "unlink" /\ <<s[2], s[3]>> \notin m.links

-----------------------------------------------------------------------------
(* Plans. *)

\* resolve_party, _resolve: the person a name stands for; a person's own name comes first.
Resolved(m, n) == IF n \in m.nodes THEN {n} ELSE {l[2] : l \in {l \in m.links : l[1] = n}}

\* Mutant of IsAlias: only the names of the people themselves are looked up.
IsOwnName(m, n) == n \in m.nodes /\ \E l \in m.links : l[1] = n

IsAlias(m, n) == n \notin m.nodes /\ \E l \in m.links : l[1] = n

SetFact(p, k, how, what) == <<<<"close fact", p, k>>, <<"add fact", <<p, k, how, what>>>>>>
Forget(p) ==
  <<<<"forget facts", p>>, <<"forget aliases", p>>, <<"forget roles", p>>,
    <<"drop bank names", p>>>>

Plan(w, steps) == plans' = [plans EXCEPT ![w] = steps]
Spend(what) ==
  /\ count[what] > 0
  /\ count' = [count EXCEPT ![what] = @ - 1]

-----------------------------------------------------------------------------
(* Turns.  turn.known is what recall read: names with whom they stand for. *)

Closed == [open |-> FALSE, message |-> {}, known |-> {}, refused |-> {}, unresolved |-> {},
           touched |-> {}, note |-> <<>>]

KnownNames(m) == {<<p, p>> : p \in m.nodes} \cup m.links

\* recall() reads nothing when the graph is down.
Hear(message, known) ==
  /\ ~turn.open /\ count.turns > 0
  /\ count' = [count EXCEPT !.turns = @ - 1, !.acts = IF known = {} THEN @ - 1 ELSE @]
  /\ known = {} => count.acts > 0
  /\ turn' = [Closed EXCEPT !.open = TRUE, !.message = message, !.known = known]
  /\ erased' = {} /\ quiet' = FALSE
  /\ UNCHANGED <<books, parties, memory, queue, work, plans, asked, history, crossed>>

Heard == history \cup asked \cup turn.message

\* A name is looked for in a text as a piece of it, wherever it begins or ends.
InText(n, names) == \E k \in names : n = k \/ <<n, k>> \in Within

\* written_by_user: every word of the name, in whatever place.
WrittenByUser(n) == Words[n] \subseteq UNION {Words[k] : k \in Heard}

\* match_names: of two entries with one key the alias is kept.
Mentioned ==
  {k[2] : k \in {k \in turn.known :
                   /\ k[1] \in turn.message
                   /\ k[1] = k[2] => \A l \in turn.known : l[1] = k[1] => l = k}}

\* could_be: the people a name nobody has yet strongly resembles.
CouldBe(n) ==
  IF n \notin turn.message \/ \E k \in turn.known : k[1] = n THEN {}
  ELSE {k[2] : k \in {k \in turn.known : <<n, k[1]>> \in Resembles}} \ Mentioned

\* Mutant of ConfirmedNew: whatever the last reply asked about.
ConfirmedBefore(n) == InText(n, asked)

ConfirmedNew(n) == InText(n, asked) /\ n \notin turn.refused

\* An entry's commit stages the sync of its people.
Commit(people) ==
  /\ parties' = parties \cup people
  /\ queue' = Append(queue, [kind |-> "sync", names |-> people])

\* extract_transactions_tool, for one entry; the model says whether the name was confirmed.
Refuse(n) ==
  /\ turn' = [turn EXCEPT !.refused = @ \cup {n}, !.unresolved = @ \cup CouldBe(n)]
  /\ UNCHANGED <<books, parties, queue>>
Keep(n) ==
  /\ WrittenByUser(n) \/ n \in parties
  /\ books' = books \cup {n}
  /\ Commit({n})
  /\ turn' = [turn EXCEPT !.touched = @ \cup {n}]
Record(n, confirmed) ==
  /\ turn.open /\ Spend("acts")
  /\ IF confirmed /\ ConfirmedNew(n) THEN Keep(n)
     ELSE IF CouldBe(n) # {} THEN Refuse(n)
     ELSE n \notin turn.unresolved /\ Keep(n)
  /\ UNCHANGED <<memory, work, plans, asked, history, erased, quiet, crossed>>

Undo(n) ==
  /\ turn.open /\ Spend("acts")
  /\ n \in books /\ books' = books \ {n}
  /\ Commit({n})
  /\ UNCHANGED <<memory, work, plans, turn, asked, history, erased, quiet, crossed>>

\* resolve_alert: the bank name is this person's from now on, in Postgres at once and in the
\* graph by a note to the curator.
ConfirmBankName(b, p) ==
  /\ turn.open /\ Spend("acts") /\ turn.note = <<>>
  /\ books' = books \cup {p}
  /\ Commit({p})
  /\ memory' = IF b = p THEN memory ELSE [memory EXCEPT !.bank[b] = p]
  /\ turn' = [turn EXCEPT !.note = <<b, p>>]
  /\ UNCHANGED <<work, plans, asked, history, erased, quiet, crossed>>

\* The reply and its curate job are saved together.  It names everyone the turn was about,
\* or nobody.
Reply(names) ==
  /\ turn.open
  /\ names \in {{}, turn.message \cup turn.touched \cup turn.refused \cup turn.unresolved}
  /\ queue' = Append(queue, [kind |-> "curate", names |-> turn.touched, note |-> turn.note,
                             heard |-> Heard])
  /\ asked' = names /\ history' = history \cup turn.message /\ turn' = Closed
  /\ UNCHANGED <<books, parties, memory, work, plans, erased, quiet, crossed, count>>

FailTurn ==
  /\ turn.open /\ Spend("acts")
  /\ turn' = Closed
  /\ UNCHANGED <<books, parties, memory, queue, work, plans, asked, history, erased, quiet, crossed>>

Talk ==
  \/ \E message \in Messages, known \in {KnownNames(memory), {}} : Hear(message, known)
  \/ \E n \in Names, confirmed \in BOOLEAN : Record(n, confirmed)
  \/ \E n \in Names : Undo(n) \/ \E b \in Aliases : ConfirmBankName(b, n)
  \/ \E names \in SUBSET Names : Reply(names)
  \/ FailTurn

-----------------------------------------------------------------------------
(* The worker: syncs, and the curator's stages.  work is the stage that    *)
(* comes when the statements planned by the last one are done.             *)

Job == Head(queue)
Working(stage) ==
  /\ queue # <<>> /\ Job.kind = "curate" /\ plans["worker"] = <<>> /\ work = stage
  /\ UNCHANGED <<books, parties, memory, talk, erased, quiet, crossed, count>>

\* GraphMemory has the steps of a sync, and its failures.
Sync ==
  /\ queue # <<>> /\ Job.kind = "sync"
  /\ memory' = FoldSet(LAMBDA n, m : SyncedParty(m, n), memory, Job.names)
  /\ queue' = Tail(queue)
  /\ crossed' = crossed \cup Doubled(memory')
  /\ UNCHANGED <<books, parties, work, plans, talk, erased, quiet, count>>

\* _infer_usual_orders: the last sales were alike.
Infer(p, what) ==
  /\ Working("start")
  /\ p \in Job.names \cap books
  /\ \A f \in InForce(memory, p, "usual_order") : f[3] = "inferred" /\ f[4] # what
  /\ Plan("worker", SetFact(p, "usual_order", "inferred", what))
  /\ work' = "notes" /\ UNCHANGED queue
InferNothing ==
  /\ Working("start")
  /\ work' = IF Job.note = <<>> THEN "propose" ELSE "notes"
  /\ UNCHANGED <<queue, plans>>

\* _apply_notes: a name the graph already has is left alone.
ApplyNote ==
  /\ Working("notes")
  /\ LET note == Job.note
         target == Resolved(memory, note[2])
     IN  IF note # <<>> /\ target # {} /\ Resolved(memory, note[1]) = {} /\ note[1] \notin target
         THEN \E p \in target : Plan("worker", <<<<"add alias", note[1], p>>>>)
         ELSE UNCHANGED plans
  /\ work' = "propose" /\ UNCHANGED queue

\* One operation the model proposes about a person it names.
Proposing == Working("propose") /\ work' = "end" /\ UNCHANGED queue

AddAliasOp(n, a) ==
  /\ Proposing
  /\ InText(a, Job.heard)
  /\ \E p \in Resolved(memory, n) :
       /\ a # p /\ ~IsAlias(memory, a)
       /\ IF a \in memory.nodes
          THEN a \notin books /\ Plan("worker", <<<<"remove party", a>>, <<"add alias", a, p>>>>)
          ELSE Plan("worker", <<<<"add alias", a, p>>>>)

RemoveAliasOp(n, a) ==
  /\ Proposing
  /\ \E p \in Resolved(memory, n) :
       Plan("worker", <<<<"close alias", a, p>>, <<"drop bank name", a, p>>>>)

SetFactOp(n, k, what) ==
  /\ Proposing
  /\ \E p \in Resolved(memory, n) :
       /\ \A f \in InForce(memory, p, k) : f[3] = "inferred" \/ f[4] # what
       /\ Plan("worker", SetFact(p, k, "stated", what))

CloseFactOp(n, k) ==
  /\ Proposing
  /\ \E p \in Resolved(memory, n) : Plan("worker", <<<<"close fact", p, k>>>>)

SetRoleOp(n, active) ==
  /\ Proposing
  /\ \E p \in Resolved(memory, n) :
       Plan("worker", <<<<"delete inferred role", p>>,
                        <<IF active THEN "open role" ELSE "end role", p>>>>)

ForgetOp(n) ==
  /\ Proposing
  /\ \E p \in Resolved(memory, n) : Plan("worker", Forget(p))

FinishJob ==
  /\ Working("propose") \/ Working("end")
  /\ queue' = Tail(queue) /\ work' = "start" /\ UNCHANGED plans

Curate ==
  \/ \E p \in Names, what \in Contents : Infer(p, what)
  \/ InferNothing \/ ApplyNote \/ FinishJob
  \/ \E n \in Names, a \in Aliases : AddAliasOp(n, a) \/ RemoveAliasOp(n, a)
  \/ \E n \in Names, k \in Kinds : CloseFactOp(n, k) \/ \E what \in Contents : SetFactOp(n, k, what)
  \/ \E n \in Names : ForgetOp(n) \/ \E active \in BOOLEAN : SetRoleOp(n, active)

-----------------------------------------------------------------------------
(* The dashboard's buttons, and the rebuild's mirror_bank_names. *)

Press(w) ==
  /\ plans[w] = <<>> /\ Spend("acts")
  /\ quiet' = (w = "button" /\ ~turn.open /\ queue = <<>> /\ plans["script"] = <<>>)
  /\ UNCHANGED <<books, parties, memory, queue, work, talk, erased, crossed>>

\* "Not the same person": the bank name goes only if the graph had the link.
PressRemove(n, a) ==
  /\ Press("button")
  /\ \E p \in Resolved(memory, n) :
       Plan("button", <<<<"unlink", a, p>>, <<"drop bank name", a, p>>>>)

PressForget(n) ==
  /\ Press("button")
  /\ \E p \in Resolved(memory, n) : Plan("button", Forget(p))

\* Confirmed bank names the graph has for nobody, of people it knows.
StartRebuild ==
  /\ Press("script")
  /\ LET missing == {b \in Names : /\ memory.bank[b] \in memory.nodes
                                   /\ Resolved(memory, b) = {}}
     IN  missing # {} /\ Plan("script", [i \in 1 .. Cardinality(missing) |->
                                LET b == SetToSeq(missing)[i] IN <<"add alias", b, memory.bank[b]>>])

-----------------------------------------------------------------------------
(* Statements run one by one. *)

\* What a button has done when its last statement has run.
Erased(w, s) ==
  IF w # "button" \/ ~quiet THEN {}
  ELSE CASE s[1] = "drop bank names" -> Names \X {s[2]}
         [] s[1] = "drop bank name" -> {<<s[2], s[3]>>}
         [] OTHER -> {}

Linking(ws, a) ==
  \E w \in ws : \E i \in DOMAIN plans[w] : plans[w][i][1] = "add alias" /\ plans[w][i][2] = a

\* What w's statement does to crossed, if it takes effect.
Cross(w, s) ==
  crossed' = crossed \cup Doubled(memory')
               \cup IF s[1] = "add alias" /\ Linking(Writers \ {w}, s[2]) THEN {s[2]} ELSE {}

Run(w) ==
  /\ plans[w] # <<>>
  /\ LET s == Head(plans[w])
     IN  /\ memory' = Result(memory, s)
         /\ Plan(w, IF Refused(memory, s) THEN <<>> ELSE Tail(plans[w]))
         /\ erased' = erased \cup Erased(w, s)
         /\ Cross(w, s)
  /\ UNCHANGED <<books, parties, queue, work, talk, quiet, count>>

\* A statement fails, or its answer is lost; the rest is not run.  What the ledger and the
\* notes called for is tried again with the job, what the model proposed is not.
Fail(w) ==
  /\ plans[w] # <<>> /\ Spend("acts")
  /\ memory' \in {memory, Result(memory, Head(plans[w]))}
  /\ Cross(w, Head(plans[w]))
  /\ Plan(w, <<>>)
  /\ work' = IF w = "worker" /\ work # "end" THEN "start" ELSE work
  /\ UNCHANGED <<books, parties, queue, talk, erased, quiet>>

\* The process dies; the job is run again.
Crash ==
  /\ work # "start" /\ Spend("acts")
  /\ Plan("worker", <<>>) /\ work' = "start"
  /\ UNCHANGED <<books, parties, memory, queue, talk, erased, quiet, crossed>>

-----------------------------------------------------------------------------
Init ==
  /\ books = Known /\ parties = Known
  /\ memory = [nodes |-> Known, debts |-> Known, links |-> {}, former |-> {}, facts |-> {},
               closed |-> {}, roles |-> Known \X {"inferred"}, bank |-> [b \in Names |-> NoName]]
  /\ queue = <<>> /\ work = "start" /\ plans = [w \in Writers |-> <<>>]
  /\ turn = Closed /\ asked = {} /\ history = {}
  /\ erased = {} /\ quiet = FALSE /\ crossed = {}
  /\ count = [turns |-> MaxTurns, acts |-> MaxActs]

Next ==
  \/ Talk
  \/ Sync \/ Curate
  \/ \E n \in Names : PressForget(n) \/ \E a \in Aliases : PressRemove(n, a)
  \/ StartRebuild
  \/ \E w \in Writers : Run(w) \/ Fail(w)
  \/ Crash

Spec == Init /\ [][Next]_vars

-----------------------------------------------------------------------------
(* Properties. *)

\* A name stands only for people the graph has.
TypeOK ==
  /\ books \subseteq parties /\ parties \subseteq Names
  /\ memory \in Memory
  /\ \A l \in AliasNodes(memory) : l[2] \in memory.nodes
  /\ \A f \in memory.facts \cup memory.closed : f[1] \in memory.nodes
  /\ {memory.bank[b] : b \in Names} \subseteq parties \cup {NoName}
  /\ work \in {"start", "notes", "propose", "end"}
  /\ turn.unresolved \subseteq Names

\* A name stands for one person, a person has one fact of a kind in force, and no guessed
\* role beside a stated one.
OneOfEach ==
  /\ \A l, k \in memory.links : l[1] = k[1] /\ l[1] \notin crossed => l = k
  /\ \A f, g \in memory.facts : f[1] = g[1] /\ f[2] = g[2] => f = g
  /\ \A p \in Names : <<p, "inferred">> \in memory.roles =>
                        {<<p, "stated">>, <<p, "ended">>} \cap memory.roles = {}

\* What a button has erased stays away, in the graph and in the table that alerts are
\* matched with, whatever is pressed, synced or rebuilt after it, until the next turn.
ErasedStaysErased ==
  /\ \A l \in erased : l \notin memory.links /\ memory.bank[l[1]] # l[2]
  /\ \A p \in Names : Names \X {p} \subseteq erased =>
       /\ \A k \in Kinds : InForce(memory, p, k) = {}
       /\ <<p, "stated">> \notin memory.roles

MemoryIsOrderly == OneOfEach /\ ErasedStaysErased

\* What the ledger suggests never takes the place of what the trader stated.
StatedStands ==
  /\ \A f \in memory'.facts \ memory.facts :
       f[3] = "inferred" => \A g \in InForce(memory, f[1], f[2]) : g[3] # "stated"
  /\ work = "notes" /\ plans'["worker"] # plans["worker"] =>
       \A f \in memory.facts \ memory'.facts : f[3] # "stated"

\* extract_transactions_tool has kept an entry for n.
Recorded(n) ==
  /\ turn.open /\ turn'.open /\ n \in books' /\ turn'.note = turn.note
  /\ queue' = Append(queue, [kind |-> "sync", names |-> {n}])

\* n could be somebody else, or is one of the people a name of this turn could be.
InDoubt(n) == CouldBe(n) # {} \/ n \in turn.unresolved

\* An entry is recorded for a name with a word the trader never wrote only if the books have
\* it; for a name in doubt only if the text of the last reply has it, which it also has if
\* the reply asked about nobody and only named a longer name; and never in the turn in which
\* the question came up, whoever else is refused, kept or undone before.
PeopleStayApart ==
  \A n \in Names :
    Recorded(n) => /\ WrittenByUser(n) \/ n \in parties
                   /\ InDoubt(n) => InText(n, asked)
                   /\ n \notin turn.refused

\* What the trader stated or has yet to answer decides, not a guess of the ledger or a model.
TraderDecides == [][StatedStands /\ PeopleStayApart]_vars
=============================================================================
