-------------------------- MODULE GraphMemoryProofs --------------------------
(***************************************************************************)
(* The graph follows the ledger, and its promises the dates the trader     *)
(* gives, whatever the order of changes, syncs, rebuilds, curations and    *)
(* sweeps; for any number of people, debts, days, jobs and failures.       *)
(***************************************************************************)
EXTENDS GraphMemory, FiniteSetTheorems, SequenceTheorems, WellFoundedInduction, TLAPS

-----------------------------------------------------------------------------
(* The inductive invariant: the queue and the worker's hand.               *)

W == sync["worker"]
R == sync["rebuild"]

\* The worker's job is there while it works on it, and is of the kind it works on.
HandHoldsAJob ==
  /\ hand = NoJob <=> W = Idle
  /\ W # Idle => hand \in DOMAIN jobs /\ ~jobs[hand].failed /\ W.at \in {"upsert", "stale", "done", "curate", "replace"}
  /\ W.at \in {"upsert", "stale", "done"} => W.keys = jobs[hand].keys /\ jobs[hand].kind = "ledger_changed"
  /\ W.at \in {"curate", "replace"} =>
       /\ jobs[hand].kind = "curate"
       /\ \A k \in DOMAIN curating.left : \E l \in DOMAIN jobs[hand].touched : curating.left[k] = jobs[hand].touched[l]
  /\ W.at = "replace" => curating.left # <<>>
  /\ R # Idle => R.at \in {"upsert", "stale", "prune"}

\* Jobs are as they were queued; the oldest comes first as long as none was given up.
JobsAreOrderly ==
  /\ Len(jobs) <= MaxJobs
  /\ \A i \in DOMAIN jobs : jobs[i].on <= today /\ (jobs[i].kind = "curate" => jobs[i].keys = {})
  /\ "job" \notin lost => hand \in {0, 1} /\ \A i \in DOMAIN jobs : ~jobs[i].failed

\* What a sync read were entries of its parties.
RowsWereRead ==
  \A s \in Syncers :
    /\ \A d \in Debts : sync[s].rows[d] # NoEntry => Live(sync[s].rows[d]) /\ sync[s].rows[d].party \in sync[s].keys
    /\ sync[s].left \subseteq sync[s].keys

\* Entries and nodes have their person.
PeopleAreNamed ==
  /\ \A d \in Debts : entries[d].state = "none" => entries[d] = NoEntry
  /\ \A d \in Debts : Live(entries[d]) => entries[d].party \in Parties
  /\ \A d \in Debts : entries[d].repaid => entries[d].state = "complete" /\ entries[d].paid # NoDay
  /\ \A d \in Debts : nodes[d].party = NoParty => nodes[d] = NoNode

-----------------------------------------------------------------------------
(* The graph and the ledger.                                               *)

Wanted(d) == IF IsDebt(entries[d]) THEN Mirrored(entries[d]) ELSE NoNode

\* Parties some queued sync will read afresh.
Queued == UNION {jobs[i].keys : i \in DOMAIN jobs \ {hand}}

\* What the ledger says now to one who reads these parties.
Fresh(keys, d) == IF Live(entries[d]) /\ entries[d].party \in keys THEN entries[d] ELSE NoEntry

\* A row the worker read and the ledger has changed since is read again, for its person
\* then and its person now.
OldRowsAreQueued ==
  W.at = "upsert" =>
    \A d \in Debts : W.rows[d] # Fresh(W.keys, d) =>
      /\ Live(entries[d]) => entries[d].party \in Queued
      /\ W.rows[d] # NoEntry => W.rows[d].party \in Queued

\* The rebuild's rows are the ledger's.
RebuildIsFresh ==
  R # Idle => \A d \in Debts : R.rows[d] = IF Live(entries[d]) THEN entries[d] ELSE NoEntry

\* A node is what the ledger wants, or its person is about to be synced.
NodesAreRight ==
  \A d \in Debts :
    \/ nodes[d] = Wanted(d)
    \/ nodes[d].party \in Queued \cup {NoParty}
    \/ W.at = "upsert" /\ nodes[d].party \in W.keys
         /\ (IsDebt(W.rows[d]) => W.rows[d].party \in W.left)

\* A debt is in the graph as the ledger has it, or its person is about to be synced.
DebtsAreThere ==
  \A d \in Debts : IsDebt(entries[d]) =>
    \/ nodes[d] = Mirrored(entries[d])
    \/ entries[d].party \in Queued
    \/ W.at = "upsert" /\ W.rows[d] = entries[d] /\ entries[d].party \in W.left

GraphCatchesUp ==
  "overtaken" \notin lost => OldRowsAreQueued /\ RebuildIsFresh /\ NodesAreRight /\ DebtsAreThere

-----------------------------------------------------------------------------
(* Promises and the dates the trader gave.                                 *)

\* A curation that replaces a promise has read every open one of its debt.
OnePromiseEach ==
  /\ Len(promises) <= MaxPromises
  /\ \A i, j \in DOMAIN promises : promises[i].status = "open" /\ promises[j].status = "open"
                                     /\ promises[i].debt = promises[j].debt => i = j
  /\ W.at = "replace" => Open(First.debt) \subseteq curating.old

\* d is owed, or will be when a repayment of it is undone, and has a due date.
Committed(d) ==
  entries[d].state = "complete" /\ entries[d].due # NoDay /\ (entries[d].paid = NoDay \/ entries[d].repaid)

\* d has a node that no sync is about to remove.
Safe(d) ==
  /\ nodes[d].party = entries[d].party
  /\ W.at = "upsert" =>
       /\ entries[d].party \in W.keys => IsDebt(W.rows[d])
       /\ IsDebt(W.rows[d]) => W.rows[d].party = entries[d].party

\* The job at k will make d safe.
Fixes(k, d) ==
  /\ entries[d].party \in jobs[k].keys
  /\ k = hand => /\ W.at = "upsert" /\ IsDebt(W.rows[d]) /\ W.rows[d].party = entries[d].party
                 /\ entries[d].party \in W.left

SafeBefore(n, d) == Safe(d) \/ \E k \in DOMAIN jobs : k < n /\ Fixes(k, d)

Has(s, d, due) == \E k \in DOMAIN s : s[k].debt = d /\ s[k].due = due
Mentions(s, d) == \E k \in DOMAIN s : s[k].debt = d

\* What the curation at c has still to do.
Left(c) == IF c = hand THEN curating.left ELSE jobs[c].touched

\* The date has its promise.
Promised(d, due) == \E i \in DOMAIN promises : promises[i].debt = d /\ promises[i].due = due /\ promises[i].status # "gone"

\* A curation on the way writes it.
ToPromise(d, due) ==
  \E c \in DOMAIN jobs : jobs[c].kind = "curate" /\ Has(Left(c), d, due) /\ SafeBefore(c, d)

\* A date given has its promise, or a curation on the way, or a turn that will queue one.
DatesAreKeptInMind ==
  "job" \notin lost /\ "overtaken" \notin lost /\ "turn" \notin lost /\ "forgotten" \notin lost =>
    \A d \in Debts : Committed(d) =>
      /\ Mentions(touched, d) => SafeBefore(Len(jobs) + 1, d)
      /\ ~Mentions(touched, d) /\ stated[d] # NoDay =>
           (Safe(d) /\ Promised(d, stated[d])) \/ ToPromise(d, stated[d])

\* Only a debt of a known amount and with a due date is ever stated.
DatesAreOfDebts ==
  \A d \in Debts : stated[d] # NoDay \/ Mentions(touched, d) =>
    entries[d].state = "deleted" \/ (entries[d].state = "complete" /\ entries[d].due # NoDay)

-----------------------------------------------------------------------------
(* Outcomes.                                                               *)

\* Whoever holds the day a debt was cleared has it from the ledger.
ClearedDaysAreReal ==
  /\ \A d \in Debts : nodes[d].paid # NoDay => nodes[d].paid \in cleared[d]
  /\ \A d \in Debts : Live(entries[d]) /\ entries[d].paid # NoDay => entries[d].paid \in cleared[d]
  /\ \A s \in Syncers, d \in Debts : sync[s].rows[d].paid # NoDay => sync[s].rows[d].paid \in cleared[d]

\* Outcomes, and verdicts not written yet, are earned.
OutcomesAreRight ==
  /\ \A i \in DOMAIN promises : Earned(promises[i])
  /\ \A v \in verdicts : v.id \in DOMAIN promises /\ Earned([promises[v.id] EXCEPT !.status = v.status])

IInv ==
  /\ TypeOK
  /\ HandHoldsAJob /\ JobsAreOrderly /\ RowsWereRead /\ PeopleAreNamed
  /\ GraphCatchesUp
  /\ OnePromiseEach /\ DatesAreOfDebts /\ DatesAreKeptInMind
  /\ ClearedDaysAreReal /\ OutcomesAreRight

-----------------------------------------------------------------------------
(* Facts about the values.                                                 *)

\* An entry that is none is no debt, and a debt is live.
LEMMA EntriesAre ==
  /\ NoEntry \in Entry /\ Gone \in Entry /\ ~Live(NoEntry) /\ ~Live(Gone)
  /\ NoEntry.paid = NoDay /\ NoEntry.party = NoParty /\ NoEntry.due = NoDay /\ NoEntry.state = "none"
  /\ Gone.state = "deleted" /\ ~Gone.repaid /\ ~NoEntry.repaid
  /\ \A e : IsDebt(e) => Live(e) /\ e # NoEntry
<1>1. /\ NoEntry \in Entry /\ NoEntry.paid = NoDay /\ NoEntry.party = NoParty /\ NoEntry.due = NoDay
      /\ NoEntry.state = "none" /\ ~NoEntry.repaid
  BY DEF NoEntry, Entry, NoDay
<1>2. Gone \in Entry /\ Gone.state = "deleted" /\ ~Gone.repaid
  <2>1. PICK e \in Entry : e = NoEntry
    BY <1>1
  <2>2. Gone = [e EXCEPT !.state = "deleted"]
    BY <2>1 DEF Gone
  <2> QED BY <1>1, <2>1, <2>2 DEF Entry
<1> QED BY <1>1, <1>2 DEF Live, IsDebt

\* What the graph mirrors of an entry.
LEMMA MirrorsAre ==
  /\ NoNode \in Node /\ NoNode.party = NoParty /\ NoNode.paid = NoDay
  /\ \A e \in Entry : Mirrored(e) \in Node /\ Mirrored(e).party = e.party /\ Mirrored(e).paid = e.paid
  BY DEF NoNode, Node, Mirrored, Entry

LEMMA IdleIs ==
  /\ Idle \in Sync /\ Idle.at = "idle" /\ Idle.keys = {} /\ Idle.left = {}
  /\ \A d \in Debts : Idle.rows[d] = NoEntry
  BY EntriesAre DEF Idle, Sync

LEMMA CuratingIs == NotCurating \in Curating /\ NotCurating.left = <<>> /\ NotCurating.old = {}
<1>1. <<>> \in Seq(Stated)
  BY EmptySeq
<1> QED BY <1>1 DEF NotCurating, Curating

\* A sync that goes on has its new place; the other is where it was.
LEMMA SyncGoes ==
  ASSUME sync \in [Syncers -> Sync], NEW s \in Syncers, NEW X, sync' = [sync EXCEPT ![s] = X]
  PROVE  /\ sync'[s] = X
         /\ \A r \in Syncers : r # s => sync'[r] = sync[r]
         /\ s = "worker" => W' = X /\ R' = R
         /\ s = "rebuild" => R' = X /\ W' = W
         /\ X \in Sync => sync' \in [Syncers -> Sync]
  BY DEF Syncers, W, R

At(x, at) == [x EXCEPT !.at = at]

LEMMA AtIs ==
  ASSUME NEW x \in Sync, NEW at \in {"idle", "upsert", "stale", "kept", "prune", "done", "curate", "replace"}
  PROVE  /\ At(x, at) \in Sync /\ At(x, at).at = at /\ At(x, at).keys = x.keys
         /\ At(x, at).rows = x.rows /\ At(x, at).left = x.left
  BY DEF At, Sync

\* Each sync is a record of its own.
LEMMA SyncsAre ==
  ASSUME sync \in [Syncers -> Sync]
  PROVE  /\ W \in Sync /\ R \in Sync /\ sync["worker"] = W /\ sync["rebuild"] = R
         /\ Syncers = {"worker", "rebuild"} /\ "worker" # "rebuild"
  BY DEF Syncers, W, R

\* A sync goes to its next place.
LEMMA PlaceIs ==
  ASSUME sync \in [Syncers -> Sync], NEW s \in Syncers,
         NEW at \in {"idle", "upsert", "stale", "kept", "prune", "done", "curate", "replace"},
         sync' = [sync EXCEPT ![s] = At(sync[s], at)]
  PROVE  /\ s = "worker" => W'.at = at /\ W'.rows = W.rows /\ W'.keys = W.keys /\ W'.left = W.left /\ R' = R
         /\ s = "rebuild" => R'.at = at /\ R'.rows = R.rows /\ R'.keys = R.keys /\ R'.left = R.left /\ W' = W
<1>1. PICK x \in Sync : x = sync[s]
  OBVIOUS
<1>2. PICK X : X = At(x, at)
  OBVIOUS
<1>3. X.at = at /\ X.rows = x.rows /\ X.keys = x.keys /\ X.left = x.left
  BY <1>2, AtIs
<1>4. (s = "worker" => W' = X /\ R' = R) /\ (s = "rebuild" => R' = X /\ W' = W)
  BY <1>1, <1>2, SyncGoes
<1> QED BY <1>1, <1>3, <1>4 DEF W, R

\* What a sync reads.
LEMMA SnapshotIs ==
  ASSUME TypeOK, NEW keys \in SUBSET Parties
  PROVE  /\ Snapshot(keys) \in Sync /\ Snapshot(keys).at = "upsert" /\ Snapshot(keys).keys = keys
         /\ \A d \in Debts : Snapshot(keys).rows[d] = Fresh(keys, d)
         /\ Snapshot(keys).left \subseteq keys
         /\ \A d \in Debts : Fresh(keys, d) # NoEntry =>
              Fresh(keys, d) = entries[d] /\ Live(entries[d]) /\ entries[d].party \in keys
              /\ entries[d].party \in Snapshot(keys).left
<1>1. PICK rows : rows = [d \in Debts |-> Fresh(keys, d)]
  OBVIOUS
<1>2. Snapshot(keys) = [at |-> "upsert", keys |-> keys, rows |-> rows, left |-> KeysOf(rows)]
  BY <1>1 DEF Snapshot, Fresh
<1>3. rows \in [Debts -> Entry] /\ \A d \in Debts : rows[d] = Fresh(keys, d)
  BY <1>1, EntriesAre DEF TypeOK, Fresh
<1>4. \A d \in Debts : Fresh(keys, d) = NoEntry \/ (Live(entries[d]) /\ entries[d].party \in keys /\ Fresh(keys, d) = entries[d])
  BY DEF Fresh
<1>5. \A p : p \in KeysOf(rows) <=> \E d \in Debts : Live(rows[d]) /\ rows[d].party = p
  BY DEF KeysOf
<1>6. KeysOf(rows) \subseteq keys
  BY <1>3, <1>4, <1>5, EntriesAre
<1>7. Snapshot(keys) \in Sync
  BY <1>2, <1>3, <1>6 DEF Sync
<1> QED BY <1>2, <1>3, <1>4, <1>5, <1>6, <1>7

\* A set of numbers that is not empty has a least one.
LEMMA LeastNumber ==
  ASSUME NEW S \in SUBSET Nat, S # {}
  PROVE  \E m \in S : \A k \in S : m <= k
<1>1. \E x \in S : \A y \in S : ~(<<y, x>> \in OpToRel(<, Nat))
  BY NatLessThanWellFounded, WFMin
<1>2. PICK x \in S : \A y \in S : ~(<<y, x>> \in OpToRel(<, Nat))
  BY <1>1
<1>3. \A y \in S : ~(y < x)
  BY <1>2 DEF OpToRel
<1>4. \A y \in S : x <= y
  BY <1>3
<1> QED BY <1>4

\* The worker's next job is the first that was not given up.
NextJob == CHOOSE i \in Pending : \A j \in Pending : i <= j

LEMMA NextJobIs ==
  ASSUME TypeOK, Pending # {}
  PROVE  NextJob \in DOMAIN jobs /\ ~jobs[NextJob].failed /\ \A j \in DOMAIN jobs : ~jobs[j].failed => NextJob <= j
<1>1. DOMAIN jobs = 1 .. Len(jobs) /\ Len(jobs) \in Nat
  BY DEF TypeOK
<1>2. Pending \in SUBSET Nat
  BY <1>1 DEF Pending
<1>3. \E i \in Pending : \A j \in Pending : i <= j
  BY <1>2, LeastNumber
<1>4. NextJob \in Pending /\ \A j \in Pending : NextJob <= j
  BY <1>3 DEF NextJob
<1> QED BY <1>1, <1>4 DEF Pending

\* The last thing said of a debt.
LEMMA LastSaid ==
  ASSUME NEW S, NEW s \in Seq(S), NEW said \in SUBSET (1 .. Len(s)), said # {}
  PROVE  (CHOOSE i \in said : \A j \in said : j <= i) \in said
<1>1. Len(s) \in Nat
  OBVIOUS
<1> DEFINE back == {n \in 0 .. Len(s) : Len(s) - n \in said}
<1>2. back \in SUBSET Nat /\ back # {}
  <2>1. PICK i \in said : TRUE
    OBVIOUS
  <2>2. Len(s) - i \in 0 .. Len(s) /\ Len(s) - (Len(s) - i) = i
    BY <1>1, <2>1
  <2>3. Len(s) - i \in back
    BY <2>1, <2>2
  <2>4. back \in SUBSET Nat
    BY <1>1
  <2> HIDE DEF back
  <2> QED BY <2>3, <2>4
<1>3. PICK m \in back : \A k \in back : m <= k
  BY <1>2, LeastNumber
<1>4. Len(s) - m \in said
  OBVIOUS
<1>5. \A j \in said : j <= Len(s) - m
  <2> SUFFICES ASSUME NEW j \in said PROVE j <= Len(s) - m
    OBVIOUS
  <2>1. j \in 1 .. Len(s)
    OBVIOUS
  <2>2. Len(s) - j \in 0 .. Len(s) /\ Len(s) - (Len(s) - j) = j
    BY <1>1, <2>1
  <2>3. Len(s) - j \in back
    BY <2>2
  <2>4. m <= Len(s) - j /\ m \in Nat
    BY <1>2, <1>3, <2>3
  <2> QED BY <1>1, <2>1, <2>4
<1> QED BY <1>4, <1>5

-----------------------------------------------------------------------------
(* What any change of the ledger does.                                     *)

\* d becomes e, and a sync of everyone it was or is with is queued.
Changes(d, e, keys) ==
  /\ Change(d, e, keys)
  /\ entries[d].state # "deleted" /\ e.state # "none"
  /\ Live(e) => e.party \in keys
  /\ Live(entries[d]) => entries[d].party \in keys
  /\ e.repaid => e.state = "complete" /\ e.paid # NoDay
  /\ touched' \in {touched, Touch(d, e)}
  /\ entries[d].state = "complete" /\ entries[d].due # NoDay =>
       e.state = "deleted" \/ (e.state = "complete" /\ e.due # NoDay)
  /\ e.state = "complete" /\ e.due # NoDay /\ (e.paid = NoDay \/ e.repaid) =>
       \/ e.party = entries[d].party /\ Committed(d)
       \/ touched' = Touch(d, e) /\ Outstanding(e)
       \/ entries[d].state # "complete" \/ entries[d].due = NoDay

\* Its row is one.
LEMMA EntryIs ==
  ASSUME TypeOK, NEW d \in Debts
  PROVE  /\ entries[d] \in Entry
         /\ \A e \in Entry : /\ e.state \in {"none", "needs_amount", "complete", "deleted"}
                             /\ e.party \in Parties \cup {NoParty}
                             /\ e.date \in Days \cup {NoDay} /\ e.due \in Days \cup {NoDay} /\ e.paid \in Days \cup {NoDay}
                             /\ e.repaid \in BOOLEAN
  BY DEF TypeOK, Entry

LEMMA RecordChanges ==
  ASSUME TypeOK, NEW d \in Debts, NEW p \in Parties, NEW due \in Days \cup {NoDay},
         NEW state \in {"needs_amount", "complete"}, Record(d, p, due, state)
  PROVE  \E e \in Entry, keys \in SUBSET Parties : Changes(d, e, keys)
<1>1. PICK n \in Entry : n = NoEntry
  BY EntriesAre
<1>2. PICK e : e = [n EXCEPT !.state = state, !.party = p, !.date = today, !.due = due]
  OBVIOUS
<1>3. entries[d].state = "none" /\ today \in Days /\ Change(d, e, {p}) /\ touched' = Touch(d, e)
  BY <1>1, <1>2 DEF Record
<1>4. /\ e \in Entry /\ e.state = state /\ e.party = p /\ e.due = due /\ e.paid = NoDay /\ ~e.repaid
  BY <1>1, <1>2, <1>3, EntriesAre DEF Entry
<1>5. Changes(d, e, {p})
  BY <1>3, <1>4 DEF Changes, Live, Outstanding
<1> QED BY <1>4, <1>5

LEMMA RepayChanges ==
  ASSUME TypeOK, PeopleAreNamed, NEW d \in Debts, NEW day \in Days, Repay(d, day)
  PROVE  \E e \in Entry, keys \in SUBSET Parties : Changes(d, e, keys)
<1>1. PICK o \in Entry : o = entries[d]
  BY EntryIs
<1>2. PICK e : e = [o EXCEPT !.paid = day, !.repaid = TRUE]
  OBVIOUS
<1>3. Outstanding(o) /\ Change(d, e, {o.party}) /\ touched' = touched
  BY <1>1, <1>2 DEF Repay
<1>4. e \in Entry /\ e.state = o.state /\ e.party = o.party /\ e.due = o.due /\ e.paid = day /\ e.repaid /\ day # NoDay
  <2>1. day # NoDay
    BY DEF Days, NoDay
  <2> QED BY <1>2, <2>1 DEF Entry
<1>5. o.party \in Parties
  BY <1>1, <1>3 DEF PeopleAreNamed, Outstanding, Live
<1>6. Changes(d, e, {o.party})
  BY <1>1, <1>3, <1>4 DEF Changes, Live, Outstanding, Committed
<1> QED BY <1>4, <1>5, <1>6

LEMMA UndoRepaymentChanges ==
  ASSUME TypeOK, PeopleAreNamed, NEW d \in Debts, UndoRepayment(d)
  PROVE  \E e \in Entry, keys \in SUBSET Parties : Changes(d, e, keys)
<1>1. PICK o \in Entry : o = entries[d]
  BY EntryIs
<1>2. PICK e : e = [o EXCEPT !.paid = NoDay, !.repaid = FALSE]
  OBVIOUS
<1>3. Live(o) /\ o.repaid /\ Change(d, e, {o.party}) /\ touched' = touched
  BY <1>1, <1>2 DEF UndoRepayment
<1>4. e \in Entry /\ e.state = o.state /\ e.party = o.party /\ e.due = o.due /\ e.paid = NoDay /\ ~e.repaid
  BY <1>1, <1>2 DEF Entry
<1>5. o.party \in Parties /\ o.state = "complete"
  BY <1>1, <1>3 DEF PeopleAreNamed
<1>6. Changes(d, e, {o.party})
  BY <1>1, <1>3, <1>4, <1>5 DEF Changes, Live, Outstanding, Committed
<1> QED BY <1>4, <1>5, <1>6

LEMMA UndoChanges ==
  ASSUME TypeOK, PeopleAreNamed, NEW d \in Debts, Undo(d)
  PROVE  \E e \in Entry, keys \in SUBSET Parties : Changes(d, e, keys)
<1>1. Live(entries[d]) /\ Change(d, Gone, {entries[d].party}) /\ touched' = touched
  BY DEF Undo
<1>2. entries[d].party \in Parties
  BY <1>1 DEF PeopleAreNamed
<1>3. Changes(d, Gone, {entries[d].party})
  BY <1>1, EntriesAre DEF Changes, Live
<1> QED BY <1>2, <1>3, EntriesAre

\* A corrected entry that has become neither deleted nor unknown.
LEMMA CorrectedChanges ==
  ASSUME TypeOK, PeopleAreNamed, NEW d \in Debts, NEW e \in Entry, Corrected(d, e), e.party \in Parties,
         Live(e), entries[d].state = "complete" => e.state = "complete",
         entries[d].due # NoDay => e.due # NoDay,
         e.repaid => e.state = "complete" /\ e.paid # NoDay,
         e.state = "complete" /\ e.repaid => entries[d].repaid /\ e.party = entries[d].party /\ entries[d].state = "complete"
  PROVE  \E ee \in Entry, keys \in SUBSET Parties : Changes(d, ee, keys)
<1>1. /\ Live(entries[d]) /\ Change(d, e, {entries[d].party, e.party}) /\ touched' = Touch(d, e)
  BY DEF Corrected
<1>2. entries[d].party \in Parties
  BY <1>1 DEF PeopleAreNamed
<1>3. Changes(d, e, {entries[d].party, e.party})
  BY <1>1 DEF Changes, Live, Outstanding, Committed
<1> QED BY <1>2, <1>3

LEMMA CorrectChanges ==
  ASSUME TypeOK, PeopleAreNamed, NEW d \in Debts, Correct(d)
  PROVE  \E e \in Entry, keys \in SUBSET Parties : Changes(d, e, keys)
<1>1. PICK o \in Entry : o = entries[d]
  BY EntryIs
<1>2. o.state \in {"needs_amount", "complete"} /\ o.party \in Parties /\ (o.repaid => o.state = "complete" /\ o.paid # NoDay)
  BY <1>1 DEF Correct, Corrected, Live, PeopleAreNamed
<1>3. CASE \E p \in Parties \ {o.party} : Corrected(d, [o EXCEPT !.party = p, !.paid = IF o.repaid THEN NoDay ELSE @, !.repaid = FALSE])
  <2>1. PICK p \in Parties : Corrected(d, [o EXCEPT !.party = p, !.paid = IF o.repaid THEN NoDay ELSE @, !.repaid = FALSE])
    BY <1>3
  <2>2. PICK e : e = [o EXCEPT !.party = p, !.paid = IF o.repaid THEN NoDay ELSE @, !.repaid = FALSE]
    OBVIOUS
  <2>3. e \in Entry /\ e.state = o.state /\ e.party = p /\ e.due = o.due /\ ~e.repaid
    BY <2>2 DEF Entry
  <2>4. Corrected(d, e)
    BY <2>1, <2>2
  <2>5. Live(e) /\ (entries[d].state = "complete" => e.state = "complete") /\ (entries[d].due # NoDay => e.due # NoDay)
    BY <1>1, <1>2, <2>3 DEF Live
  <2> QED BY <2>3, <2>4, <2>5, CorrectedChanges
<1>4. CASE \E due \in Days : Corrected(d, [o EXCEPT !.due = due])
  <2>1. PICK due \in Days : Corrected(d, [o EXCEPT !.due = due])
    BY <1>4
  <2>2. PICK e : e = [o EXCEPT !.due = due]
    OBVIOUS
  <2>3. e \in Entry /\ e.state = o.state /\ e.party = o.party /\ e.due = due /\ e.repaid = o.repaid /\ e.paid = o.paid
    BY <2>2 DEF Entry
  <2>4. Corrected(d, e) /\ due # NoDay
    BY <2>1, <2>2 DEF Days, NoDay
  <2>5. Live(e) /\ (entries[d].state = "complete" => e.state = "complete") /\ (entries[d].due # NoDay => e.due # NoDay)
    BY <1>1, <1>2, <2>3, <2>4 DEF Live
  <2>6. (e.repaid => e.state = "complete" /\ e.paid # NoDay)
        /\ (e.state = "complete" /\ e.repaid => entries[d].repaid /\ e.party = entries[d].party /\ entries[d].state = "complete")
    BY <1>1, <1>2, <2>3
  <2> QED BY <1>2, <2>3, <2>4, <2>5, <2>6, CorrectedChanges
<1>5. CASE o.state = "needs_amount" /\ Corrected(d, [o EXCEPT !.state = "complete"])
  <2>2. PICK e : e = [o EXCEPT !.state = "complete"]
    OBVIOUS
  <2>3. e \in Entry /\ e.state = "complete" /\ e.party = o.party /\ e.due = o.due /\ ~e.repaid
    BY <1>2, <1>5, <2>2 DEF Entry
  <2>4. Corrected(d, e)
    BY <1>5, <2>2
  <2>5. Live(e) /\ (entries[d].due # NoDay => e.due # NoDay)
    BY <1>1, <2>3 DEF Live
  <2> QED BY <1>2, <2>3, <2>4, <2>5, CorrectedChanges
<1>6. CASE Outstanding(o) /\ Corrected(d, [o EXCEPT !.paid = o.date])
  <2>2. PICK e : e = [o EXCEPT !.paid = o.date]
    OBVIOUS
  <2>3. e \in Entry /\ e.state = "complete" /\ e.party = o.party /\ e.due = o.due /\ ~e.repaid
    BY <1>2, <1>6, <2>2 DEF Entry, Outstanding
  <2>4. Corrected(d, e)
    BY <1>6, <2>2
  <2>5. Live(e) /\ (entries[d].due # NoDay => e.due # NoDay)
    BY <1>1, <2>3 DEF Live
  <2> QED BY <1>2, <2>3, <2>4, <2>5, CorrectedChanges
<1> QED BY <1>1, <1>3, <1>4, <1>5, <1>6 DEF Correct

LEMMA ClarifyChanges ==
  ASSUME TypeOK, PeopleAreNamed, NEW d \in Debts, Clarify(d)
  PROVE  \E e \in Entry, keys \in SUBSET Parties : Changes(d, e, keys)
<1>1. PICK o \in Entry : o = entries[d]
  BY EntryIs
<1>2. PICK e : e = [o EXCEPT !.state = "complete"]
  OBVIOUS
<1>3. o.state = "needs_amount" /\ Change(d, e, {o.party}) /\ touched' = touched
  BY <1>1, <1>2 DEF Clarify
<1>4. o.party \in Parties /\ ~o.repaid
  BY <1>1, <1>3, EntryIs DEF PeopleAreNamed, Live
<1>5. e \in Entry /\ e.state = "complete" /\ e.party = o.party /\ e.due = o.due /\ ~e.repaid
  BY <1>2, <1>4 DEF Entry
<1>6. Changes(d, e, {o.party})
  BY <1>1, <1>3, <1>4, <1>5 DEF Changes, Live
<1> QED BY <1>4, <1>5, <1>6

\* So does every step of the ledger.
LEMMA LedgerChanges ==
  ASSUME TypeOK, PeopleAreNamed, LedgerStep
  PROVE  \E d \in Debts, e \in Entry, keys \in SUBSET Parties : Changes(d, e, keys)
<1>1. PICK d \in Debts :
        \/ \E p \in Parties, due \in Days \cup {NoDay}, state \in {"needs_amount", "complete"} : Record(d, p, due, state)
        \/ \E day \in Days : Repay(d, day)
        \/ UndoRepayment(d) \/ Undo(d) \/ Correct(d) \/ Clarify(d)
  BY DEF LedgerStep
<1> QED BY <1>1, RecordChanges, RepayChanges, UndoRepaymentChanges, UndoChanges, CorrectChanges, ClarifyChanges

-----------------------------------------------------------------------------
(* Types.                                                                  *)

\* The state is typed, the queue and the promises within their bounds.
Typed == TypeOK /\ HandHoldsAJob /\ JobsAreOrderly /\ RowsWereRead /\ PeopleAreNamed /\ Len(promises) <= MaxPromises

LEMMA JobIs ==
  ASSUME TypeOK, NEW i \in DOMAIN jobs
  PROVE  /\ i \in 1 .. Len(jobs) /\ i \in Nat /\ i # NoJob
         /\ jobs[i] \in Job /\ jobs[i].kind \in {"ledger_changed", "curate"} /\ jobs[i].keys \subseteq Parties
         /\ jobs[i].on \in Nat /\ jobs[i].touched \in Seq(Stated) /\ jobs[i].tries \in Nat
         /\ jobs[i].failed \in BOOLEAN
<1>1. i \in 1 .. Len(jobs) /\ jobs[i] \in Job
  BY DEF TypeOK
<1> QED BY <1>1 DEF Job, NoJob

LEMMA PromiseIs ==
  ASSUME TypeOK, NEW i \in DOMAIN promises
  PROVE  /\ i \in 1 .. Len(promises) /\ i \in Nat /\ promises[i] \in Promise
         /\ promises[i].debt \in Debts /\ promises[i].due \in Days /\ promises[i].by \in Parties
         /\ promises[i].status \in {"open", "kept", "broken", "replaced", "gone"}
<1>1. i \in 1 .. Len(promises) /\ promises[i] \in Promise
  BY DEF TypeOK
<1> QED BY <1>1 DEF Promise

\* A queued job of a commit, or of a finished turn.
NewJob(kind, keys, said) ==
  [kind |-> kind, keys |-> keys, on |-> today, touched |-> said, tries |-> 0, failed |-> FALSE]

LEMMA NewJobIs ==
  ASSUME TypeOK, NEW kind \in {"ledger_changed", "curate"}, NEW keys \in SUBSET Parties, NEW said \in Seq(Stated)
  PROVE  LET j == NewJob(kind, keys, said)
         IN  j \in Job /\ j.kind = kind /\ j.keys = keys /\ j.on = today /\ j.touched = said /\ ~j.failed
<1>1. today \in Nat
  BY BoundsAreNatural DEF TypeOK
<1> QED BY <1>1 DEF NewJob, Job

\* A job joins the end of the queue.
Joins(j) == j \in Job /\ Len(jobs) < MaxJobs /\ jobs' = Append(jobs, j)

LEMMA JoinIs ==
  ASSUME TypeOK, NEW j, Joins(j)
  PROVE  /\ jobs' \in Seq(Job) /\ Len(jobs') = Len(jobs) + 1 /\ Len(jobs') <= MaxJobs
         /\ DOMAIN jobs' = 1 .. Len(jobs) + 1 /\ DOMAIN jobs = 1 .. Len(jobs) /\ Len(jobs) \in Nat
         /\ DOMAIN jobs \subseteq DOMAIN jobs'
         /\ \A i \in DOMAIN jobs : jobs'[i] = jobs[i]
         /\ jobs'[Len(jobs) + 1] = j
<1>1. jobs \in Seq(Job) /\ Len(jobs) \in Nat /\ DOMAIN jobs = 1 .. Len(jobs)
  BY DEF TypeOK
<1>2. /\ jobs' \in Seq(Job) /\ Len(jobs') = Len(jobs) + 1 /\ \A i \in 1 .. Len(jobs) : jobs'[i] = jobs[i]
      /\ jobs'[Len(jobs) + 1] = j
  BY <1>1, AppendProperties DEF Joins
<1> QED BY <1>1, <1>2, BoundsAreNatural DEF Joins

LEMMA ChangeJoins ==
  ASSUME TypeOK, NEW d \in Debts, NEW e \in Entry, NEW keys \in SUBSET Parties, Changes(d, e, keys)
  PROVE  Joins(NewJob("ledger_changed", keys, <<>>)) /\ NewJob("ledger_changed", keys, <<>>).keys = keys
<1>1. <<>> \in Seq(Stated)
  BY EmptySeq
<1>2. jobs' = Append(jobs, NewJob("ledger_changed", keys, <<>>)) /\ Len(jobs) < MaxJobs
  BY DEF Changes, Change, Announced, NewJob
<1> QED BY <1>1, <1>2, NewJobIs DEF Joins

\* What is touched is a debt with its due date.
LEMMA TouchIs ==
  ASSUME TypeOK, NEW d \in Debts, NEW e \in Entry
  PROVE  /\ Touch(d, e) \in Seq(Stated)
         /\ \A c \in Debts : Mentions(touched, c) => Mentions(Touch(d, e), c)
         /\ \A c \in Debts : Mentions(Touch(d, e), c) => Mentions(touched, c) \/ (c = d /\ Outstanding(e) /\ e.due # NoDay)
         /\ Outstanding(e) /\ e.due # NoDay => Mentions(Touch(d, e), d)
<1>1. CASE Outstanding(e) /\ e.due # NoDay
  <2>1. PICK x : x = [debt |-> d, due |-> e.due]
    OBVIOUS
  <2>2. x \in Stated /\ x.debt = d
    BY <1>1, <2>1, EntryIs DEF Stated
  <2>3. Touch(d, e) = Append(touched, x) /\ touched \in Seq(Stated) /\ DOMAIN touched = 1 .. Len(touched) /\ Len(touched) \in Nat
    BY <1>1, <2>1 DEF Touch, TypeOK
  <2>4. PICK t \in Seq(Stated) : t = Touch(d, e)
    BY <2>2, <2>3, AppendProperties
  <2>5. /\ Len(t) = Len(touched) + 1 /\ DOMAIN t = 1 .. Len(t)
        /\ \A i \in 1 .. Len(touched) : t[i] = touched[i]
        /\ t[Len(touched) + 1] = x
    BY <2>2, <2>3, <2>4, AppendProperties
  <2>6. DOMAIN t = 1 .. Len(touched) + 1
    BY <2>5
  <2>7. ASSUME NEW c, Mentions(touched, c) PROVE Mentions(t, c)
    BY <2>3, <2>5, <2>6, <2>7 DEF Mentions
  <2>8. ASSUME NEW c, Mentions(t, c) PROVE Mentions(touched, c) \/ c = d
    <3>1. PICK k \in DOMAIN t : t[k].debt = c
      BY <2>8 DEF Mentions
    <3>2. k \in 1 .. Len(touched) \/ k = Len(touched) + 1
      BY <2>3, <2>6
    <3>3. k \in 1 .. Len(touched) => Mentions(touched, c)
      BY <2>3, <2>5, <3>1 DEF Mentions
    <3>4. k = Len(touched) + 1 => c = d
      BY <2>2, <2>5, <3>1
    <3> QED BY <3>2, <3>3, <3>4
  <2>9. Mentions(t, d)
    BY <2>2, <2>3, <2>5, <2>6 DEF Mentions
  <2> QED BY <1>1, <2>4, <2>7, <2>8, <2>9
<1>2. CASE ~(Outstanding(e) /\ e.due # NoDay)
  BY <1>2 DEF Touch, TypeOK
<1> QED BY <1>1, <1>2

\* A change of the ledger keeps the types.
LEMMA ChangesType ==
  ASSUME TypeOK, NEW d \in Debts, NEW e \in Entry, NEW keys \in SUBSET Parties, Changes(d, e, keys)
  PROVE  TypeOK'
<1>1. Change(d, e, keys) /\ touched' \in {touched, Touch(d, e)}
  BY DEF Changes
<1>2. jobs' \in Seq(Job)
  BY ChangeJoins, JoinIs
<1>3. touched' \in Seq(Stated)
  BY <1>1, TouchIs DEF TypeOK
<1>4. entries' \in [Debts -> Entry]
  BY <1>1 DEF Change, TypeOK
<1>5. cleared' \in [Debts -> SUBSET Days]
  <2>1. e.paid \in Days \cup {NoDay}
    BY EntryIs
  <2>2. \A x \in SUBSET Days : (IF Live(e) /\ e.paid # NoDay THEN x \cup {e.paid} ELSE x) \in SUBSET Days
    BY <2>1
  <2> QED BY <1>1, <2>2 DEF Change, TypeOK
<1>6. lost' \subseteq {"overtaken", "turn", "job", "forgotten"} /\ changes' \in Nat
  BY <1>1 DEF Change, TypeOK
<1>7. UNCHANGED <<today, stated, nodes, promises, sync, curating, hand, verdicts, mishaps>>
  BY <1>1 DEF Change, graph, busy
<1> QED BY <1>2, <1>3, <1>4, <1>5, <1>6, <1>7 DEF TypeOK

\* So does the end of a turn.
LEMMA EndTurnIs ==
  ASSUME TypeOK, EndTurn
  PROVE  /\ Joins(NewJob("curate", {}, touched))
         /\ NewJob("curate", {}, touched).touched = touched /\ NewJob("curate", {}, touched).kind = "curate"
         /\ NewJob("curate", {}, touched).keys = {}
         /\ \A d \in Debts : /\ ~Mentions(touched, d) => stated'[d] = stated[d]
                             /\ Mentions(touched, d) => Has(touched, d, stated'[d]) /\ stated'[d] \in Days
         /\ stated' \in [Debts -> Days \cup {NoDay}] /\ touched' = <<>>
         /\ UNCHANGED <<today, entries, cleared, graph, busy, verdicts, lost, bounds>>
<1>1. touched \in Seq(Stated) /\ DOMAIN touched = 1 .. Len(touched)
  BY DEF TypeOK
<1> DEFINE Said(d) == {i \in 1 .. Len(touched) : touched[i].debt = d}
           Last(d) == CHOOSE i \in Said(d) : \A j \in Said(d) : j <= i
<1>2. jobs' = Append(jobs, NewJob("curate", {}, touched)) /\ Len(jobs) < MaxJobs
  BY DEF EndTurn, NewJob
<1>3. stated' = [d \in Debts |-> IF Said(d) = {} THEN stated[d] ELSE touched[Last(d)].due]
  BY DEF EndTurn
<1>4. \A d \in Debts : Mentions(touched, d) <=> Said(d) # {}
  BY <1>1 DEF Mentions
<1>5. ASSUME NEW d \in Debts, Said(d) # {} PROVE Has(touched, d, touched[Last(d)].due) /\ touched[Last(d)].due \in Days
  <2>1. Last(d) \in Said(d)
    BY <1>1, <1>5, LastSaid
  <2> HIDE DEF Last
  <2>2. Last(d) \in 1 .. Len(touched) /\ touched[Last(d)].debt = d
    BY <2>1
  <2>3. touched[Last(d)] \in Stated
    BY <1>1, <2>2
  <2> QED BY <1>1, <2>2, <2>3 DEF Has, Stated
<1> HIDE DEF Said, Last
<1>6. \A d \in Debts : stated[d] \in Days \cup {NoDay}
  BY DEF TypeOK
<1>7. stated' \in [Debts -> Days \cup {NoDay}]
  BY <1>3, <1>5, <1>6
<1>8. \A d \in Debts : (~Mentions(touched, d) => stated'[d] = stated[d])
                       /\ (Mentions(touched, d) => Has(touched, d, stated'[d]) /\ stated'[d] \in Days)
  BY <1>3, <1>4, <1>5
<1>9. Joins(NewJob("curate", {}, touched))
      /\ NewJob("curate", {}, touched).touched = touched /\ NewJob("curate", {}, touched).kind = "curate"
      /\ NewJob("curate", {}, touched).keys = {}
  BY <1>1, <1>2, NewJobIs DEF Joins
<1>10. touched' = <<>> /\ UNCHANGED <<today, entries, cleared, graph, busy, verdicts, lost, bounds>>
  BY DEF EndTurn
<1> QED BY <1>7, <1>8, <1>9, <1>10

LEMMA TurnsType ==
  ASSUME TypeOK, TurnStep
  PROVE  TypeOK'
<1>1. <<>> \in Seq(Stated)
  BY EmptySeq
<1>2. CASE EndTurn
  <2>1. jobs' \in Seq(Job)
    BY <1>2, EndTurnIs, JoinIs
  <2>2. /\ stated' \in [Debts -> Days \cup {NoDay}] /\ touched' = <<>>
        /\ UNCHANGED <<today, entries, cleared, nodes, promises, sync, curating, hand, verdicts, lost, changes, mishaps>>
    BY <1>2, EndTurnIs DEF graph, busy, bounds
  <2> QED BY <1>1, <2>1, <2>2 DEF TypeOK
<1>3. CASE FailTurn
  <2>1. mishaps' \in Nat /\ lost' \subseteq {"overtaken", "turn", "job", "forgotten"} /\ touched' = <<>>
        /\ UNCHANGED <<today, entries, stated, cleared, jobs, nodes, promises, sync, curating, hand, verdicts, changes>>
    BY <1>3 DEF FailTurn, Mishap, TypeOK, graph, busy
  <2> QED BY <1>1, <2>1 DEF TypeOK
<1>4. CASE NextDay
  <2>1. today' \in 1 .. LastDay + 1
        /\ UNCHANGED <<entries, touched, stated, cleared, jobs, nodes, promises, sync, curating, hand, verdicts, lost, changes, mishaps>>
    BY <1>4, BoundsAreNatural DEF NextDay, TypeOK, graph, busy, bounds
  <2> QED BY <2>1 DEF TypeOK
<1> QED BY <1>2, <1>3, <1>4 DEF TurnStep

-----------------------------------------------------------------------------
(* What the steps of syncs, curations and sweeps do.                       *)

LEMMA SeqOf ==
  ASSUME NEW S, NEW n \in Nat, NEW f \in [1 .. n -> S]
  PROVE  f \in Seq(S) /\ Len(f) = n /\ DOMAIN f = 1 .. n
<1>1. f \in Seq(S)
  BY SeqDef
<1>2. DOMAIN f = 1 .. n /\ DOMAIN f = 1 .. Len(f) /\ Len(f) \in Nat
  BY <1>1, LenProperties
<1> QED BY <1>1, <1>2

\* The promises are who they were, whatever became of them.
Alike ==
  /\ promises' \in Seq(Promise) /\ Len(promises') = Len(promises) /\ DOMAIN promises' = DOMAIN promises
  /\ \A i \in DOMAIN promises : promises'[i].debt = promises[i].debt /\ promises'[i].due = promises[i].due
                                 /\ promises'[i].by = promises[i].by

\* One by one they get a status.
LEMMA Restatus ==
  ASSUME TypeOK, NEW f, DOMAIN f = 1 .. Len(promises),
         \A i \in 1 .. Len(promises) : \E st \in {"open", "kept", "broken", "replaced", "gone"} :
            f[i] = [promises[i] EXCEPT !.status = st],
         promises' = [i \in 1 .. Len(promises) |-> f[i]]
  PROVE  Alike /\ \A i \in DOMAIN promises : promises'[i] = f[i]
<1>1. Len(promises) \in Nat /\ DOMAIN promises = 1 .. Len(promises)
  BY DEF TypeOK
<1>2. \A i \in 1 .. Len(promises) : f[i] \in Promise /\ f[i].debt = promises[i].debt /\ f[i].due = promises[i].due
                                    /\ f[i].by = promises[i].by
  <2> SUFFICES ASSUME NEW i \in 1 .. Len(promises)
               PROVE  f[i] \in Promise /\ f[i].debt = promises[i].debt /\ f[i].due = promises[i].due /\ f[i].by = promises[i].by
    OBVIOUS
  <2>1. PICK st \in {"open", "kept", "broken", "replaced", "gone"} : f[i] = [promises[i] EXCEPT !.status = st]
    OBVIOUS
  <2>2. PICK p \in Promise : p = promises[i]
    BY DEF TypeOK
  <2>3. f[i] = [p EXCEPT !.status = st]
    BY <2>1, <2>2
  <2> QED BY <2>2, <2>3 DEF Promise
<1>3. promises' \in [1 .. Len(promises) -> Promise]
  BY <1>2
<1>4. promises' \in Seq(Promise) /\ Len(promises') = Len(promises) /\ DOMAIN promises' = 1 .. Len(promises)
  BY <1>1, <1>3, SeqOf
<1> QED BY <1>1, <1>2, <1>4 DEF Alike

LEMMA WithStatus ==
  ASSUME TypeOK, NEW i \in DOMAIN promises
  PROVE  /\ promises[i] = [promises[i] EXCEPT !.status = promises[i].status]
         /\ \A st \in {"open", "kept", "broken", "replaced", "gone"} :
              LET p == [promises[i] EXCEPT !.status = st]
              IN  p \in Promise /\ p.status = st /\ p.debt = promises[i].debt /\ p.due = promises[i].due
<1>1. PICK p \in Promise : p = promises[i]
  BY PromiseIs
<1> QED BY <1>1 DEF Promise

\* A delete takes the nodes and their promises.
LEMMA DeleteIs ==
  ASSUME TypeOK, NEW doomed, Delete(doomed)
  PROVE  /\ Alike
         /\ \A i \in DOMAIN promises :
              promises'[i].status = IF promises[i].debt \in doomed THEN "gone" ELSE promises[i].status
         /\ nodes' \in [Debts -> Node]
         /\ \A d \in Debts : nodes'[d] = IF d \in doomed THEN NoNode ELSE nodes[d]
<1>1. PICK f : f = [i \in 1 .. Len(promises) |->
                      IF promises[i].debt \in doomed THEN [promises[i] EXCEPT !.status = "gone"] ELSE promises[i]]
  OBVIOUS
<1>2. promises' = [i \in 1 .. Len(promises) |-> f[i]] /\ DOMAIN f = 1 .. Len(promises)
  BY <1>1 DEF Delete
<1>3. DOMAIN promises = 1 .. Len(promises)
  BY DEF TypeOK
<1>4. \A i \in 1 .. Len(promises) : \E st \in {"open", "kept", "broken", "replaced", "gone"} :
            f[i] = [promises[i] EXCEPT !.status = st]
  BY <1>1, <1>3, WithStatus, PromiseIs
<1>5. Alike /\ \A i \in DOMAIN promises : promises'[i] = f[i]
  BY <1>2, <1>4, Restatus
<1>6. \A i \in DOMAIN promises : f[i].status = IF promises[i].debt \in doomed THEN "gone" ELSE promises[i].status
  BY <1>1, <1>3, WithStatus
<1>7. nodes' = [d \in Debts |-> IF d \in doomed THEN NoNode ELSE nodes[d]]
  BY DEF Delete
<1>8. nodes' \in [Debts -> Node]
  BY <1>7, MirrorsAre DEF TypeOK
<1> QED BY <1>5, <1>6, <1>7, <1>8

\* A status is written, unless the promise is gone.
LEMMA SetStatusIs ==
  ASSUME TypeOK, NEW i \in DOMAIN promises, NEW st \in {"kept", "broken", "replaced"}, SetStatus(i, st)
  PROVE  /\ Alike
         /\ \A j \in DOMAIN promises : j # i => promises'[j] = promises[j]
         /\ promises'[i].status = IF promises[i].status = "gone" THEN "gone" ELSE st
<1>1. PICK p \in Promise : p = promises[i]
  BY PromiseIs
<1>2. PICK q : q = [p EXCEPT !.status = IF p.status = "gone" THEN p.status ELSE st]
  OBVIOUS
<1>3. promises' = [promises EXCEPT ![i] = q]
  BY <1>1, <1>2 DEF SetStatus
<1>4. q \in Promise /\ q.debt = p.debt /\ q.due = p.due /\ q.by = p.by /\ q.status = IF p.status = "gone" THEN "gone" ELSE st
  BY <1>2 DEF Promise
<1>5. promises \in Seq(Promise) /\ DOMAIN promises = 1 .. Len(promises)
  BY DEF TypeOK
<1>6. /\ promises' \in Seq(Promise) /\ Len(promises') = Len(promises)
      /\ \A j \in 1 .. Len(promises) : promises'[j] = IF j = i THEN q ELSE promises[j]
  BY <1>3, <1>4, <1>5, ExceptSeq
<1>7. DOMAIN promises' = DOMAIN promises
  BY <1>5, <1>6
<1> QED BY <1>1, <1>4, <1>5, <1>6, <1>7 DEF Alike

\* Open promises whose debt was cleared in time are kept, the others are what they were.
LEMMA MarkKeptIs ==
  ASSUME TypeOK, NEW s \in Syncers, MarkKept(s)
  PROVE  /\ Alike
         /\ \A i \in DOMAIN promises :
              \/ promises'[i] = promises[i]
              \/ /\ promises[i].status = "open" /\ promises'[i].status = "kept"
                 /\ nodes[promises[i].debt].paid # NoDay /\ nodes[promises[i].debt].paid <= promises[i].due
         /\ sync' = [sync EXCEPT ![s] = At(sync[s], IF s = "worker" THEN "done" ELSE "prune")]
         /\ sync[s].at = "stale"
         /\ UNCHANGED <<ledger, jobs, nodes, curating, hand, verdicts, lost, bounds>>
<1>1. PICK f : f = [i \in 1 .. Len(promises) |->
                      LET n == nodes[promises[i].debt]
                      IN  IF /\ promises[i].status = "open"
                             /\ n.party \in sync[s].keys /\ n.paid # NoDay /\ promises[i].due >= n.paid
                          THEN [promises[i] EXCEPT !.status = "kept"] ELSE promises[i]]
  OBVIOUS
<1>2. promises' = [i \in 1 .. Len(promises) |-> f[i]] /\ DOMAIN f = 1 .. Len(promises)
  BY <1>1 DEF MarkKept
<1>3. DOMAIN promises = 1 .. Len(promises)
  BY DEF TypeOK
<1>4. \A i \in DOMAIN promises :
        \/ f[i] = promises[i]
        \/ /\ promises[i].status = "open" /\ f[i] = [promises[i] EXCEPT !.status = "kept"]
           /\ nodes[promises[i].debt].paid # NoDay /\ promises[i].due >= nodes[promises[i].debt].paid
  BY <1>1, <1>3
<1>5. \A i \in 1 .. Len(promises) : \E st \in {"open", "kept", "broken", "replaced", "gone"} :
            f[i] = [promises[i] EXCEPT !.status = st]
  <2> SUFFICES ASSUME NEW i \in DOMAIN promises
               PROVE  \E st \in {"open", "kept", "broken", "replaced", "gone"} : f[i] = [promises[i] EXCEPT !.status = st]
    BY <1>3
  <2>1. f[i] = promises[i] \/ f[i] = [promises[i] EXCEPT !.status = "kept"]
    BY <1>4
  <2>2. promises[i] = [promises[i] EXCEPT !.status = promises[i].status] /\ promises[i].status \in {"open", "kept", "broken", "replaced", "gone"}
    BY WithStatus, PromiseIs
  <2> QED BY <2>1, <2>2
<1>6. Alike /\ \A i \in DOMAIN promises : promises'[i] = f[i]
  BY <1>2, <1>5, Restatus
<1>7. \A i \in DOMAIN promises : promises[i].debt \in Debts /\ promises[i].due \in Nat /\ nodes[promises[i].debt].paid \in Nat
  <2>1. \A d \in Debts : nodes[d].paid \in Nat
    BY BoundsAreNatural DEF TypeOK, Node, Days, NoDay
  <2> QED BY <2>1, PromiseIs, BoundsAreNatural DEF Days
<1>8. \A i \in DOMAIN promises :
              \/ promises'[i] = promises[i]
              \/ /\ promises[i].status = "open" /\ promises'[i].status = "kept"
                 /\ nodes[promises[i].debt].paid # NoDay /\ nodes[promises[i].debt].paid <= promises[i].due
  <2> SUFFICES ASSUME NEW i \in DOMAIN promises
               PROVE  \/ promises'[i] = promises[i]
                      \/ /\ promises[i].status = "open" /\ promises'[i].status = "kept"
                         /\ nodes[promises[i].debt].paid # NoDay /\ nodes[promises[i].debt].paid <= promises[i].due
    OBVIOUS
  <2>1. PICK p \in Promise : p = [promises[i] EXCEPT !.status = "kept"] /\ p.status = "kept"
    BY WithStatus
  <2> QED BY <1>4, <1>6, <1>7, <2>1
<1>9. /\ sync' = [sync EXCEPT ![s] = At(sync[s], IF s = "worker" THEN "done" ELSE "prune")]
      /\ sync[s].at = "stale"
      /\ UNCHANGED <<ledger, jobs, nodes, curating, hand, verdicts, lost, bounds>>
  BY DEF MarkKept, Goto, At
<1> QED BY <1>6, <1>8, <1>9

\* Forgetting takes the promises a person made.
LEMMA ForgetIs ==
  ASSUME TypeOK, NEW who, Forget(who)
  PROVE  Alike /\ \A i \in DOMAIN promises : promises'[i] = promises[i] \/ promises'[i].status = "gone"
<1>1. PICK f : f = [i \in 1 .. Len(promises) |->
                      IF promises[i].by = who THEN [promises[i] EXCEPT !.status = "gone"] ELSE promises[i]]
  OBVIOUS
<1>2. promises' = [i \in 1 .. Len(promises) |-> f[i]] /\ DOMAIN f = 1 .. Len(promises)
  BY <1>1 DEF Forget
<1>3. DOMAIN promises = 1 .. Len(promises)
  BY DEF TypeOK
<1>4. \A i \in DOMAIN promises : f[i] = promises[i] \/ f[i] = [promises[i] EXCEPT !.status = "gone"]
  BY <1>1, <1>3
<1>5. \A i \in 1 .. Len(promises) : \E st \in {"open", "kept", "broken", "replaced", "gone"} :
            f[i] = [promises[i] EXCEPT !.status = st]
  <2> SUFFICES ASSUME NEW i \in DOMAIN promises
               PROVE  \E st \in {"open", "kept", "broken", "replaced", "gone"} : f[i] = [promises[i] EXCEPT !.status = st]
    BY <1>3
  <2>1. f[i] = promises[i] \/ f[i] = [promises[i] EXCEPT !.status = "gone"]
    BY <1>4
  <2>2. promises[i] = [promises[i] EXCEPT !.status = promises[i].status] /\ promises[i].status \in {"open", "kept", "broken", "replaced", "gone"}
    BY WithStatus, PromiseIs
  <2> QED BY <2>1, <2>2
<1>6. Alike /\ \A i \in DOMAIN promises : promises'[i] = f[i]
  BY <1>2, <1>5, Restatus
<1>7. \A i \in DOMAIN promises : promises'[i] = promises[i] \/ promises'[i].status = "gone"
  <2> SUFFICES ASSUME NEW i \in DOMAIN promises PROVE promises'[i] = promises[i] \/ promises'[i].status = "gone"
    OBVIOUS
  <2>1. PICK p \in Promise : p = [promises[i] EXCEPT !.status = "gone"] /\ p.status = "gone"
    BY WithStatus
  <2> QED BY <1>4, <1>6, <2>1
<1> QED BY <1>6, <1>7

\* The worker takes a job.
LEMMA TakeIs ==
  ASSUME TypeOK, Take
  PROVE  /\ hand = NoJob /\ hand' \in DOMAIN jobs /\ ~jobs[hand'].failed
         /\ \A j \in DOMAIN jobs : ~jobs[j].failed => hand' <= j
         /\ \/ /\ jobs[hand'].kind = "ledger_changed" /\ curating' = curating
               /\ sync' = [sync EXCEPT !["worker"] = Snapshot(jobs[hand'].keys)]
            \/ /\ jobs[hand'].kind = "curate" /\ curating' = [left |-> jobs[hand'].touched, old |-> {}]
               /\ sync' = [sync EXCEPT !["worker"] = At(sync["worker"], "curate")]
         /\ UNCHANGED <<ledger, jobs, graph, verdicts, lost, bounds>>
<1>1. hand = NoJob /\ Pending # {} /\ hand' = NextJob /\ UNCHANGED <<ledger, jobs, graph, verdicts, lost, bounds>>
  BY DEF Take, NextJob
<1>2. \/ jobs[hand'].kind = "ledger_changed" /\ sync' = [sync EXCEPT !["worker"] = Snapshot(jobs[hand'].keys)] /\ curating' = curating
      \/ /\ jobs[hand'].kind # "ledger_changed"
         /\ sync' = [sync EXCEPT !["worker"].at = "curate"] /\ curating' = [left |-> jobs[hand'].touched, old |-> {}]
  BY DEF Take, NextJob
<1>3. hand' \in DOMAIN jobs /\ ~jobs[hand'].failed /\ \A j \in DOMAIN jobs : ~jobs[j].failed => hand' <= j
  BY <1>1, NextJobIs
<1>4. jobs[hand'].kind \in {"ledger_changed", "curate"}
  BY <1>3, JobIs
<1> QED BY <1>1, <1>2, <1>3, <1>4 DEF At

\* Jobs are what they were, but for their tries.
SameJobs ==
  /\ jobs' \in Seq(Job) /\ Len(jobs') = Len(jobs) /\ DOMAIN jobs' = DOMAIN jobs
  /\ \A k \in DOMAIN jobs : jobs'[k].kind = jobs[k].kind /\ jobs'[k].keys = jobs[k].keys
                             /\ jobs'[k].on = jobs[k].on /\ jobs'[k].touched = jobs[k].touched

Retried(i, n, b) ==
  i \in DOMAIN jobs /\ n \in Nat /\ b \in BOOLEAN /\ jobs' = [jobs EXCEPT ![i] = [jobs[i] EXCEPT !.tries = n, !.failed = b]]

LEMMA RetryIs ==
  ASSUME TypeOK, NEW i, NEW n, NEW b, Retried(i, n, b)
  PROVE  SameJobs /\ jobs'[i].failed = b /\ \A k \in DOMAIN jobs : k # i => jobs'[k] = jobs[k]
<1>0. PICK j : j = [jobs[i] EXCEPT !.tries = n, !.failed = b]
  OBVIOUS
<1>1. PICK o \in Job : o = jobs[i]
  BY JobIs DEF Retried
<1>2. j = [o EXCEPT !.tries = n, !.failed = b]
  BY <1>0, <1>1
<1>3. j \in Job /\ j.kind = o.kind /\ j.keys = o.keys /\ j.on = o.on /\ j.touched = o.touched /\ j.failed = b
  BY <1>2 DEF Job, Retried
<1>4. jobs \in Seq(Job) /\ DOMAIN jobs = 1 .. Len(jobs) /\ i \in 1 .. Len(jobs) /\ jobs' = [jobs EXCEPT ![i] = j]
  BY <1>0 DEF TypeOK, Retried
<1>5. /\ jobs' \in Seq(Job) /\ Len(jobs') = Len(jobs)
      /\ \A k \in 1 .. Len(jobs) : jobs'[k] = IF k = i THEN j ELSE jobs[k]
  BY <1>3, <1>4, ExceptSeq
<1>6. DOMAIN jobs' = DOMAIN jobs
  BY <1>4, <1>5
<1> QED BY <1>1, <1>3, <1>4, <1>5, <1>6 DEF SameJobs

\* The worker's job ends early.
LEMMA StopIs ==
  ASSUME Typed, StopSync("worker")
  PROVE  /\ W.at # "idle" /\ hand \in DOMAIN jobs /\ hand' = NoJob /\ curating' = NotCurating
         /\ sync' = [sync EXCEPT !["worker"] = Idle]
         /\ SameJobs
         /\ \A k \in DOMAIN jobs : jobs'[k].failed = jobs[k].failed \/ "job" \in lost'
         /\ lost \subseteq lost' /\ lost' \subseteq lost \cup {"job"}
         /\ mishaps' = mishaps + 1 /\ UNCHANGED <<ledger, graph, verdicts, changes>>
<1>1. /\ sync["worker"].at # "idle" /\ mishaps' = mishaps + 1 /\ sync' = [sync EXCEPT !["worker"] = Idle]
      /\ hand' = NoJob /\ curating' = NotCurating /\ UNCHANGED <<ledger, graph, verdicts, changes>>
      /\ lost' = IF jobs'[hand].failed THEN lost \cup {"job"} ELSE lost
      /\ \/ jobs' = jobs
         \/ jobs' = [jobs EXCEPT ![hand].tries = @ + 1, ![hand].failed = jobs[hand].tries + 1 >= MaxAttempts]
  BY DEF StopSync, Mishap
<1>2. W # Idle /\ hand \in DOMAIN jobs
  BY <1>1, IdleIs DEF Typed, HandHoldsAJob, W
<1>3. CASE jobs' = jobs
  <2>1. SameJobs
    BY <1>3 DEF SameJobs, Typed, TypeOK
  <2> QED BY <1>1, <1>2, <1>3, <2>1 DEF W
<1>4. CASE jobs' = [jobs EXCEPT ![hand].tries = @ + 1, ![hand].failed = jobs[hand].tries + 1 >= MaxAttempts]
  <2>1. PICK j \in Job : j = jobs[hand] /\ j.tries \in Nat
    BY <1>2, JobIs DEF Typed
  <2>2. PICK b : b = (j.tries + 1 >= MaxAttempts)
    OBVIOUS
  <2>3. b \in BOOLEAN
    BY <2>2
  <2>4. Retried(hand, j.tries + 1, b)
    <3>1. PICK x : x = [j EXCEPT !.tries = j.tries + 1, !.failed = b]
      OBVIOUS
    <3>2. jobs' = [jobs EXCEPT ![hand] = x]
      BY <1>2, <1>4, <2>1, <2>2, <3>1
    <3>3. x = [jobs[hand] EXCEPT !.tries = j.tries + 1, !.failed = b]
      BY <2>1, <3>1
    <3>4. j.tries + 1 \in Nat
      BY <2>1
    <3> QED BY <1>2, <2>3, <3>2, <3>3, <3>4 DEF Retried
  <2>5. TypeOK
    BY DEF Typed
  <2>6. SameJobs /\ jobs'[hand].failed = b /\ \A k \in DOMAIN jobs : k # hand => jobs'[k] = jobs[k]
    BY <2>4, <2>5, RetryIs
  <2>7. ~jobs[hand].failed
    BY <1>2 DEF Typed, HandHoldsAJob
  <2>8. \A k \in DOMAIN jobs : jobs'[k].failed = jobs[k].failed \/ "job" \in lost'
    <3>1. jobs[hand].failed \in BOOLEAN
      BY <1>2, <2>5, JobIs
    <3>2. jobs'[hand].failed => "job" \in lost'
      BY <1>1
    <3>3. jobs'[hand].failed = jobs[hand].failed \/ jobs'[hand].failed
      BY <2>3, <2>6, <2>7, <3>1
    <3> QED BY <2>6, <3>2, <3>3
  <2> QED BY <1>1, <1>2, <2>6, <2>8 DEF W
<1> QED BY <1>1, <1>3, <1>4

\* A job given up is queued again.
LEMMA RequeueIs ==
  ASSUME TypeOK, NEW i, Requeue(i)
  PROVE  /\ i \in DOMAIN jobs /\ jobs[i].failed /\ SameJobs
         /\ \A k \in DOMAIN jobs : jobs'[k].failed => jobs[k].failed
         /\ UNCHANGED <<ledger, graph, busy, verdicts, lost, bounds>>
<1>1. /\ i \in DOMAIN jobs /\ jobs[i].failed /\ UNCHANGED <<ledger, graph, busy, verdicts, lost, bounds>>
      /\ jobs' = [jobs EXCEPT ![i].failed = FALSE, ![i].tries = 0]
  BY DEF Requeue, TypeOK
<1>2. PICK j \in Job : j = jobs[i]
  BY <1>1, JobIs
<1>4. Retried(i, 0, FALSE)
  <2>1. [j EXCEPT !.failed = FALSE, !.tries = 0] = [j EXCEPT !.tries = 0, !.failed = FALSE]
    BY <1>2 DEF Job
  <2>2. jobs' = [jobs EXCEPT ![i] = [j EXCEPT !.failed = FALSE, !.tries = 0]]
    BY <1>1, <1>2
  <2>3. 0 \in Nat /\ FALSE \in BOOLEAN
    OBVIOUS
  <2> QED BY <1>1, <1>2, <2>1, <2>2, <2>3 DEF Retried
<1>5. SameJobs /\ jobs'[i].failed = FALSE /\ \A k \in DOMAIN jobs : k # i => jobs'[k] = jobs[k]
  BY <1>4, RetryIs
<1> QED BY <1>1, <1>5

\* A finished job leaves the queue, and those behind it move up.
LEMMA FinishIs ==
  ASSUME Typed, Finish
  PROVE  /\ hand \in DOMAIN jobs /\ hand' = NoJob /\ curating' = NotCurating
         /\ W.at = "done" \/ (W.at = "curate" /\ curating.left = <<>>)
         /\ sync' = [sync EXCEPT !["worker"] = Idle]
         /\ jobs' \in Seq(Job) /\ Len(jobs') = Len(jobs) - 1 /\ DOMAIN jobs' = 1 .. Len(jobs) - 1
         /\ \A k \in DOMAIN jobs' : jobs'[k] = IF k < hand THEN jobs[k] ELSE jobs[k + 1]
         /\ UNCHANGED <<ledger, graph, verdicts, lost, bounds>>
<1>1. /\ W.at = "done" \/ (W.at = "curate" /\ curating.left = <<>>)
      /\ hand' = NoJob /\ curating' = NotCurating /\ sync' = [sync EXCEPT !["worker"] = Idle]
      /\ jobs' = SubSeq(jobs, 1, hand - 1) \o SubSeq(jobs, hand + 1, Len(jobs))
      /\ UNCHANGED <<ledger, graph, verdicts, lost, bounds>>
  BY DEF Finish, W
<1>2. W # Idle /\ hand \in DOMAIN jobs
  BY <1>1, IdleIs DEF Typed, HandHoldsAJob
<1>3. jobs \in Seq(Job) /\ Len(jobs) \in Nat /\ DOMAIN jobs = 1 .. Len(jobs) /\ hand \in 1 .. Len(jobs)
      /\ \A k \in 1 .. Len(jobs) : jobs[k] \in Job
  BY <1>2 DEF Typed, TypeOK
<1>4. PICK a : a = SubSeq(jobs, 1, hand - 1)
  OBVIOUS
<1>5. PICK b : b = SubSeq(jobs, hand + 1, Len(jobs))
  OBVIOUS
<1>6. a \in Seq(Job) /\ Len(a) = hand - 1 /\ \A k \in 1 .. hand - 1 : a[k] = jobs[k]
  <2>1. 1 \in Int /\ hand - 1 \in Int /\ \A k \in 1 .. hand - 1 : jobs[k] \in Job
    BY <1>3
  <2>2. /\ SubSeq(jobs, 1, hand - 1) \in Seq(Job)
        /\ Len(SubSeq(jobs, 1, hand - 1)) = IF 1 <= hand - 1 THEN (hand - 1) - 1 + 1 ELSE 0
        /\ \A i \in 1 .. (hand - 1) - 1 + 1 : SubSeq(jobs, 1, hand - 1)[i] = jobs[1 + i - 1]
    BY <2>1, SubSeqProperties
  <2>3. (IF 1 <= hand - 1 THEN (hand - 1) - 1 + 1 ELSE 0) = hand - 1 /\ (hand - 1) - 1 + 1 = hand - 1
    BY <1>3
  <2>4. \A i \in 1 .. hand - 1 : 1 + i - 1 = i
    BY <1>3
  <2> QED BY <1>4, <2>2, <2>3, <2>4
<1>7. b \in Seq(Job) /\ Len(b) = Len(jobs) - hand /\ \A k \in 1 .. Len(jobs) - hand : b[k] = jobs[hand + k]
  <2>1. hand + 1 \in Int /\ Len(jobs) \in Int /\ \A k \in hand + 1 .. Len(jobs) : jobs[k] \in Job
    BY <1>3
  <2>2. /\ SubSeq(jobs, hand + 1, Len(jobs)) \in Seq(Job)
        /\ Len(SubSeq(jobs, hand + 1, Len(jobs))) = IF hand + 1 <= Len(jobs) THEN Len(jobs) - (hand + 1) + 1 ELSE 0
        /\ \A i \in 1 .. Len(jobs) - (hand + 1) + 1 : SubSeq(jobs, hand + 1, Len(jobs))[i] = jobs[hand + 1 + i - 1]
    BY <2>1, SubSeqProperties
  <2>3. (IF hand + 1 <= Len(jobs) THEN Len(jobs) - (hand + 1) + 1 ELSE 0) = Len(jobs) - hand
        /\ Len(jobs) - (hand + 1) + 1 = Len(jobs) - hand
    <3>1. PICK n \in Nat : n = Len(jobs)
      BY <1>3
    <3>2. PICK h \in 1 .. n : h = hand
      BY <1>3, <3>1
    <3>3. (IF h + 1 <= n THEN n - (h + 1) + 1 ELSE 0) = n - h /\ n - (h + 1) + 1 = n - h
      OBVIOUS
    <3> QED BY <3>1, <3>2, <3>3
  <2>4. \A i \in 1 .. Len(jobs) - hand : hand + 1 + i - 1 = hand + i
    BY <1>3
  <2> QED BY <1>5, <2>2, <2>3, <2>4
<1>8. jobs' = a \o b
  BY <1>1, <1>4, <1>5
<1>9. /\ jobs' \in Seq(Job) /\ Len(jobs') = Len(a) + Len(b)
      /\ \A i \in 1 .. Len(a) + Len(b) : jobs'[i] = IF i <= Len(a) THEN a[i] ELSE b[i - Len(a)]
  BY <1>6, <1>7, <1>8, ConcatProperties
<1>10. Len(jobs') = Len(jobs) - 1 /\ DOMAIN jobs' = 1 .. Len(jobs) - 1
  BY <1>3, <1>6, <1>7, <1>9
<1>11. \A k \in 1 .. Len(jobs) - 1 : jobs'[k] = IF k < hand THEN jobs[k] ELSE jobs[k + 1]
  <2> SUFFICES ASSUME NEW k \in 1 .. Len(jobs) - 1 PROVE jobs'[k] = IF k < hand THEN jobs[k] ELSE jobs[k + 1]
    OBVIOUS
  <2>1. CASE k < hand
    <3>1. k \in 1 .. hand - 1 /\ k <= Len(a) /\ k \in 1 .. Len(a) + Len(b)
      BY <1>3, <1>6, <1>7, <2>1
    <3> QED BY <1>6, <1>9, <2>1, <3>1
  <2>2. CASE ~(k < hand)
    <3>1. k - (hand - 1) \in 1 .. Len(jobs) - hand /\ hand + (k - (hand - 1)) = k + 1 /\ k \in 1 .. Len(a) + Len(b) /\ ~(k <= Len(a))
      BY <1>3, <1>6, <1>7, <2>2
    <3> QED BY <1>6, <1>7, <1>9, <2>2, <3>1
  <2> QED BY <2>1, <2>2
<1> QED BY <1>1, <1>2, <1>9, <1>10, <1>11

\* The entry a curation is at, and those after it.
LEMMA FirstIs ==
  ASSUME TypeOK, curating.left # <<>>
  PROVE  /\ First \in Stated /\ First.debt \in Debts /\ First.due \in Days /\ First = curating.left[1]
         /\ 1 \in DOMAIN curating.left
         /\ Tail(curating.left) \in Seq(Stated)
         /\ \A k \in DOMAIN Tail(curating.left) : k + 1 \in DOMAIN curating.left /\ Tail(curating.left)[k] = curating.left[k + 1]
         /\ \A k \in DOMAIN curating.left : k # 1 => k - 1 \in DOMAIN Tail(curating.left) /\ Tail(curating.left)[k - 1] = curating.left[k]
<1>1. PICK s \in Seq(Stated) : s = curating.left
  BY DEF TypeOK, Curating
<1>2. s # <<>> /\ Len(s) \in Nat /\ Len(s) # 0 /\ DOMAIN s = 1 .. Len(s)
  BY <1>1, EmptySeq
<1>3. PICK t \in Seq(Stated) : t = Tail(s) /\ Len(t) = Len(s) - 1 /\ \A i \in 1 .. Len(t) : t[i] = s[i + 1]
  BY <1>1, HeadTailProperties
<1>4. DOMAIN t = 1 .. Len(s) - 1
  BY <1>2, <1>3
<1>5. 1 \in DOMAIN s /\ Head(s) = s[1] /\ s[1] \in Stated
  BY <1>2
<1>6. s[1].debt \in Debts /\ s[1].due \in Days
  BY <1>5 DEF Stated
<1>7. \A k \in DOMAIN t : k + 1 \in DOMAIN s /\ t[k] = s[k + 1]
  BY <1>2, <1>3, <1>4
<1>8. \A k \in DOMAIN s : k # 1 => k - 1 \in DOMAIN t /\ t[k - 1] = s[k]
  <2> SUFFICES ASSUME NEW k \in DOMAIN s, k # 1 PROVE k - 1 \in DOMAIN t /\ t[k - 1] = s[k]
    OBVIOUS
  <2>1. k - 1 \in 1 .. Len(s) - 1 /\ (k - 1) + 1 = k
    BY <1>2
  <2> QED BY <1>4, <1>7, <2>1
<1> QED BY <1>1, <1>3, <1>5, <1>6, <1>7, <1>8 DEF First

\* A curation goes on to the next entry.
Onward(at) ==
  /\ W.at = at /\ curating.left # <<>>
  /\ curating'.left = Tail(curating.left) /\ curating'.old = curating.old

LEMMA OnwardIs ==
  ASSUME TypeOK, curating.left # <<>>, curating' = [curating EXCEPT !.left = Tail(@)]
  PROVE  curating' \in Curating /\ curating'.left = Tail(curating.left) /\ curating'.old = curating.old
<1>1. PICK t \in Seq(Stated) : t = Tail(curating.left)
  BY FirstIs
<1>2. curating' = [curating EXCEPT !.left = t] /\ curating \in Curating
  BY <1>1 DEF TypeOK
<1> QED BY <1>1, <1>2 DEF Curating

LEMMA CurateSkipIs ==
  ASSUME TypeOK, CurateSkip
  PROVE  /\ Onward("curate") /\ curating' \in Curating
         /\ nodes[First.debt] = NoNode \/ \E i \in Open(First.debt) : promises[i].due = First.due
         /\ UNCHANGED <<ledger, jobs, graph, sync, hand, verdicts, lost, bounds>>
  BY OnwardIs DEF CurateSkip, Onward, W

LEMMA CurateReadIs ==
  ASSUME TypeOK, Len(promises) <= MaxPromises, CurateRead
  PROVE  /\ W.at = "curate" /\ curating.left # <<>>
         /\ curating' \in Curating /\ curating'.left = curating.left /\ curating'.old = Open(First.debt)
         /\ sync' = [sync EXCEPT !["worker"] = At(sync["worker"], "replace")]
         /\ UNCHANGED <<ledger, jobs, graph, hand, verdicts, lost, bounds>>
<1>1. /\ sync["worker"].at = "curate" /\ curating.left # <<>>
      /\ curating' = [curating EXCEPT !.old = Open(First.debt)]
      /\ sync' = [sync EXCEPT !["worker"].at = "replace"]
      /\ UNCHANGED <<ledger, jobs, graph, hand, verdicts, lost, bounds>>
  BY DEF CurateRead, Goto
<1>2. PICK o : o = Open(First.debt)
  OBVIOUS
<1>3. o \subseteq Ids
  <2>1. Len(promises) \in Nat
    BY DEF TypeOK
  <2> QED BY <1>2, <2>1, BoundsAreNatural DEF Open, Ids
<1>4. curating' \in Curating /\ curating'.left = curating.left /\ curating'.old = o
  <2>1. curating' = [curating EXCEPT !.old = o] /\ curating \in Curating
    BY <1>1, <1>2 DEF TypeOK
  <2> QED BY <1>3, <2>1 DEF Curating
<1> QED BY <1>1, <1>2, <1>4 DEF At, W

LEMMA CloseOldIs ==
  ASSUME TypeOK, NEW i, CloseOld(i)
  PROVE  /\ W.at = "replace" /\ i \in curating.old
         /\ SetStatus(i, IF promises[i].due < jobs[hand].on THEN "broken" ELSE "replaced")
         /\ curating' \in Curating /\ curating'.left = curating.left /\ curating'.old = curating.old \ {i}
         /\ UNCHANGED <<ledger, jobs, nodes, sync, hand, verdicts, lost, bounds>>
<1>1. /\ W.at = "replace" /\ i \in curating.old
      /\ SetStatus(i, IF promises[i].due < jobs[hand].on THEN "broken" ELSE "replaced")
      /\ curating' = [curating EXCEPT !.old = @ \ {i}]
      /\ UNCHANGED <<ledger, jobs, nodes, sync, hand, verdicts, lost, bounds>>
  BY DEF CloseOld, W
<1>2. PICK c \in Curating : c = curating
  BY DEF TypeOK
<1>3. c.old \subseteq Ids /\ c.left \in Seq(Stated)
  BY DEF Curating
<1>4. PICK o : o = c.old \ {i}
  OBVIOUS
<1>5. curating' = [c EXCEPT !.old = o] /\ o \subseteq Ids
  BY <1>1, <1>2, <1>3, <1>4
<1> QED BY <1>1, <1>2, <1>4, <1>5 DEF Curating

\* A new promise, or none when its debt is not in the graph.
LEMMA AddPromiseIs ==
  ASSUME Typed, AddPromise
  PROVE  /\ Onward("replace") /\ curating.old = {} /\ curating' \in Curating
         /\ sync' = [sync EXCEPT !["worker"] = At(sync["worker"], "curate")]
         /\ UNCHANGED <<ledger, jobs, nodes, hand, verdicts, lost, bounds>>
         /\ promises' \in Seq(Promise) /\ Len(promises') <= MaxPromises /\ DOMAIN promises \subseteq DOMAIN promises'
         /\ \A i \in DOMAIN promises : promises'[i] = promises[i]
         /\ \/ promises' = promises /\ nodes[First.debt] = NoNode
            \/ /\ DOMAIN promises' = DOMAIN promises \cup {Len(promises) + 1}
               /\ promises'[Len(promises) + 1].debt = First.debt /\ promises'[Len(promises) + 1].due = First.due
               /\ promises'[Len(promises) + 1].status = "open"
<1>1. TypeOK /\ PeopleAreNamed /\ Len(promises) <= MaxPromises
  BY DEF Typed
<1>2. /\ W.at = "replace" /\ curating.old = {} /\ Len(promises) < MaxPromises
      /\ promises' = IF nodes[First.debt] = NoNode THEN promises
                     ELSE Append(promises, [debt |-> First.debt, due |-> First.due,
                                            by |-> nodes[First.debt].party, status |-> "open"])
      /\ curating' = [curating EXCEPT !.left = Tail(@)]
      /\ sync' = [sync EXCEPT !["worker"].at = "curate"]
      /\ UNCHANGED <<ledger, jobs, nodes, hand, verdicts, lost, bounds>>
  BY DEF AddPromise, Goto, W
<1>3. curating.left # <<>>
  BY <1>2 DEF Typed, HandHoldsAJob
<1>4. Onward("replace") /\ curating' \in Curating
  BY <1>1, <1>2, <1>3, OnwardIs DEF Onward
<1>5. promises \in Seq(Promise) /\ Len(promises) \in Nat /\ DOMAIN promises = 1 .. Len(promises)
  BY <1>1 DEF TypeOK
<1>6. CASE nodes[First.debt] = NoNode
  BY <1>1, <1>2, <1>4, <1>5, <1>6 DEF At
<1>7. CASE nodes[First.debt] # NoNode
  <2>1. First.debt \in Debts /\ First.due \in Days
    BY <1>1, <1>3, FirstIs
  <2>2. nodes[First.debt].party \in Parties
    BY <1>1, <1>7, <2>1 DEF TypeOK, Node, PeopleAreNamed
  <2>3. PICK x : x = [debt |-> First.debt, due |-> First.due, by |-> nodes[First.debt].party, status |-> "open"]
    OBVIOUS
  <2>4. x \in Promise /\ x.debt = First.debt /\ x.due = First.due /\ x.status = "open"
    BY <2>1, <2>2, <2>3 DEF Promise
  <2>5. promises' = Append(promises, x)
    BY <1>2, <1>7, <2>3
  <2>6. /\ promises' \in Seq(Promise) /\ Len(promises') = Len(promises) + 1
        /\ \A i \in 1 .. Len(promises) : promises'[i] = promises[i]
        /\ promises'[Len(promises) + 1] = x
    BY <1>5, <2>4, <2>5, AppendProperties
  <2>7. Len(promises') <= MaxPromises /\ DOMAIN promises' = DOMAIN promises \cup {Len(promises) + 1}
    BY <1>2, <1>5, <2>6, BoundsAreNatural
  <2> QED BY <1>2, <1>4, <1>5, <2>4, <2>6, <2>7 DEF At
<1> QED BY <1>6, <1>7

\* A verdict is for the promise, and for the better only if its debt was cleared in time.
LEMMA VerdictIs ==
  ASSUME TypeOK, NEW i \in DOMAIN promises
  PROVE  /\ Verdict(i).id = i /\ Verdict(i).status \in {"kept", "broken"}
         /\ Verdict(i).status = "kept" => nodes[promises[i].debt].paid # NoDay /\ nodes[promises[i].debt].paid <= promises[i].due
  BY DEF Verdict

LEMMA StartSweepIs ==
  ASSUME TypeOK, Len(promises) <= MaxPromises, StartSweep
  PROVE  /\ verdicts' \subseteq [id : Ids, status : {"kept", "broken"}]
         /\ \A v \in verdicts' : /\ v.id \in DOMAIN promises /\ promises[v.id].status = "open" /\ promises[v.id].due < today
                                  /\ v.status \in {"kept", "broken"} /\ v = Verdict(v.id)
         /\ mishaps' = mishaps + 1
         /\ UNCHANGED <<ledger, jobs, graph, busy, lost, changes>>
<1>1. DOMAIN promises = 1 .. Len(promises) /\ Len(promises) \in Nat /\ DOMAIN promises \subseteq Ids
  BY BoundsAreNatural DEF TypeOK, Ids
<1>2. PICK o : o = {i \in 1 .. Len(promises) : promises[i].status = "open" /\ promises[i].due < today}
  OBVIOUS
<1>3. verdicts' = {Verdict(i) : i \in o} /\ mishaps' = mishaps + 1 /\ UNCHANGED <<ledger, jobs, graph, busy, lost, changes>>
  BY <1>2 DEF StartSweep, Mishap
<1>4. \A i \in o : i \in DOMAIN promises /\ promises[i].status = "open" /\ promises[i].due < today
  BY <1>1, <1>2
<1>5. \A i \in o : Verdict(i).id = i /\ Verdict(i).status \in {"kept", "broken"}
  BY <1>4, VerdictIs
<1>6. \A i \in o : Verdict(i) \in [id : Ids, status : {"kept", "broken"}]
  BY <1>1, <1>4 DEF Verdict
<1> QED BY <1>3, <1>4, <1>5, <1>6

\* A status written changes no number of promises.
LEMMA Lengths ==
  ASSUME TypeOK, NEW i, NEW st, SetStatus(i, st)
  PROVE  Len(promises') = Len(promises) /\ DOMAIN promises' = DOMAIN promises /\ Len(promises) \in Nat
<1>1. promises \in Seq(Promise) /\ Len(promises) \in Nat /\ DOMAIN promises = 1 .. Len(promises)
  BY DEF TypeOK
<1>2. CASE i \notin DOMAIN promises
  BY <1>1, <1>2 DEF SetStatus
<1>3. CASE i \in DOMAIN promises
  <2>1. PICK x : promises' = [promises EXCEPT ![i] = x]
    BY DEF SetStatus
  <2>2. promises \in Seq({promises[j] : j \in DOMAIN promises} \cup {x})
    BY <1>1, SeqDef
  <2>3. Len(promises') = Len(promises)
    BY <1>1, <1>3, <2>1, <2>2, ExceptSeq
  <2>4. DOMAIN promises' = DOMAIN promises
    BY <2>1
  <2> QED BY <1>1, <2>3, <2>4
<1> QED BY <1>2, <1>3

-----------------------------------------------------------------------------
(* Every step keeps the types.                                             *)

\* A step of a sync that leaves the queue and the ledger alone.
LEMMA SyncTypes ==
  ASSUME TypeOK, sync' \in [Syncers -> Sync], nodes' \in [Debts -> Node], promises' \in Seq(Promise),
         mishaps' \in Nat, UNCHANGED <<ledger, jobs, curating, hand, verdicts, lost, changes>>
  PROVE  TypeOK'
  BY DEF TypeOK, ledger

LEMMA UpsertIs ==
  ASSUME TypeOK, NEW s \in Syncers, NEW p \in Parties, Upsert(s, p)
  PROVE  /\ sync[s].at = "upsert" /\ p \in sync[s].left
         /\ \A d \in Debts : nodes'[d] = IF IsDebt(sync[s].rows[d]) /\ sync[s].rows[d].party = p
                                         THEN Mirrored(sync[s].rows[d]) ELSE nodes[d]
         /\ nodes' \in [Debts -> Node]
         /\ \E X \in Sync : /\ sync' = [sync EXCEPT ![s] = X] /\ X.at = "upsert" /\ X.left = sync[s].left \ {p}
                            /\ X.keys = sync[s].keys /\ X.rows = sync[s].rows
         /\ UNCHANGED <<ledger, jobs, promises, curating, hand, verdicts, lost, bounds>>
<1>1. PICK x \in Sync : x = sync[s]
  BY DEF TypeOK
<1>2. x.left \subseteq Parties /\ x.rows \in [Debts -> Entry]
  BY DEF Sync
<1>3. PICK l : l = x.left \ {p}
  OBVIOUS
<1>4. /\ x.at = "upsert" /\ p \in x.left /\ sync' = [sync EXCEPT ![s] = [x EXCEPT !.left = l]]
      /\ nodes' = [d \in Debts |-> IF IsDebt(x.rows[d]) /\ x.rows[d].party = p THEN Mirrored(x.rows[d]) ELSE nodes[d]]
      /\ UNCHANGED <<ledger, jobs, promises, curating, hand, verdicts, lost, bounds>>
  BY <1>1, <1>3 DEF Upsert
<1>5. PICK X : X = [x EXCEPT !.left = l]
  OBVIOUS
<1>6. X \in Sync /\ X.at = x.at /\ X.left = l /\ X.keys = x.keys /\ X.rows = x.rows
  BY <1>2, <1>3, <1>5 DEF Sync
<1>7. nodes' \in [Debts -> Node]
  BY <1>2, <1>4, MirrorsAre DEF TypeOK
<1> QED BY <1>1, <1>3, <1>4, <1>5, <1>6, <1>7

\* The clean-ups of a sync.
LEMMA RemoveStaleIs ==
  ASSUME TypeOK, NEW s \in Syncers, RemoveStale(s)
  PROVE  /\ sync[s].at = "upsert" /\ sync[s].left = {}
         /\ Delete({d \in Debts : nodes[d].party \in sync[s].keys} \ Alive(s))
         /\ sync' = [sync EXCEPT ![s] = At(sync[s], "stale")]
         /\ UNCHANGED <<ledger, jobs, curating, hand, verdicts, lost, bounds>>
  BY DEF RemoveStale, Goto, At

LEMMA SyncStepType ==
  ASSUME Typed, SyncStep
  PROVE  TypeOK'
<1>0. TypeOK /\ sync \in [Syncers -> Sync] /\ mishaps \in Nat /\ nodes \in [Debts -> Node] /\ promises \in Seq(Promise)
      /\ "worker" \in Syncers /\ "rebuild" \in Syncers
  BY DEF Typed, TypeOK, Syncers
<1>1. CASE Take
  <2>1. hand' \in DOMAIN jobs /\ jobs' = jobs /\ jobs[hand'].keys \subseteq Parties /\ jobs[hand'].touched \in Seq(Stated)
    BY <1>0, <1>1, TakeIs, JobIs
  <2>2. hand' \in 0 .. MaxJobs
    BY <1>0, <2>1, JobIs, BoundsAreNatural DEF Typed, JobsAreOrderly, TypeOK
  <2>3. Snapshot(jobs[hand'].keys) \in Sync /\ At(sync["worker"], "curate") \in Sync
    BY <1>0, <2>1, SnapshotIs, AtIs
  <2>4. sync' \in [Syncers -> Sync]
    BY <1>0, <1>1, <2>3, TakeIs, SyncGoes
  <2>5. curating' \in Curating
    BY <1>0, <1>1, <2>1, TakeIs DEF Curating, TypeOK
  <2>6. UNCHANGED <<today, entries, touched, stated, cleared, jobs, nodes, promises, verdicts, lost, changes, mishaps>>
    BY <1>0, <1>1, TakeIs DEF ledger, graph, bounds
  <2> QED BY <1>0, <2>2, <2>4, <2>5, <2>6 DEF TypeOK
<1>2. CASE Finish
  <2>1. sync' \in [Syncers -> Sync]
    BY <1>0, <1>2, FinishIs, IdleIs, SyncGoes
  <2>2. hand' \in 0 .. MaxJobs /\ curating' \in Curating /\ jobs' \in Seq(Job)
    BY <1>2, FinishIs, CuratingIs, BoundsAreNatural DEF NoJob
  <2>3. UNCHANGED <<today, entries, touched, stated, cleared, nodes, promises, verdicts, lost, changes, mishaps>>
    BY <1>2, FinishIs DEF ledger, graph, bounds
  <2> QED BY <1>0, <2>1, <2>2, <2>3 DEF TypeOK
<1>3. CASE StartRebuild
  <2>1. KeysOf(entries) \subseteq Parties
    BY DEF KeysOf, Typed, PeopleAreNamed
  <2>2. Snapshot(KeysOf(entries)) \in Sync
    BY <1>0, <2>1, SnapshotIs
  <2>3. sync' = [sync EXCEPT !["rebuild"] = Snapshot(KeysOf(entries))] /\ mishaps' = mishaps + 1
        /\ UNCHANGED <<ledger, jobs, graph, curating, hand, verdicts, lost, changes>>
    BY <1>3 DEF StartRebuild, Mishap
  <2>4. sync' \in [Syncers -> Sync]
    BY <1>0, <2>2, <2>3, SyncGoes
  <2> QED BY <1>0, <2>3, <2>4, SyncTypes DEF graph
<1>4. CASE Prune
  <2>1. Delete(Debts \ Alive("rebuild")) /\ sync' = [sync EXCEPT !["rebuild"] = Idle]
        /\ UNCHANGED <<ledger, jobs, curating, hand, verdicts, lost, bounds>>
    BY <1>4 DEF Prune
  <2>2. nodes' \in [Debts -> Node] /\ promises' \in Seq(Promise)
    BY <1>0, <2>1, DeleteIs DEF Alike
  <2>3. sync' \in [Syncers -> Sync]
    BY <1>0, <2>1, IdleIs, SyncGoes
  <2> QED BY <1>0, <2>1, <2>2, <2>3, SyncTypes DEF bounds
<1>5. ASSUME NEW s \in Syncers, RemoveStale(s) PROVE TypeOK'
  <2>1. nodes' \in [Debts -> Node] /\ promises' \in Seq(Promise)
    BY <1>0, <1>5, RemoveStaleIs, DeleteIs DEF Alike
  <2>2. At(sync[s], "stale") \in Sync
    BY <1>0, AtIs
  <2>3. sync' \in [Syncers -> Sync]
    BY <1>0, <1>5, <2>2, RemoveStaleIs, SyncGoes
  <2> QED BY <1>0, <1>5, <2>1, <2>3, RemoveStaleIs, SyncTypes DEF bounds
<1>6. ASSUME NEW s \in Syncers, MarkKept(s) PROVE TypeOK'
  <2>1. promises' \in Seq(Promise) /\ nodes' = nodes
    BY <1>0, <1>6, MarkKeptIs DEF Alike
  <2>2. At(sync[s], IF s = "worker" THEN "done" ELSE "prune") \in Sync
    BY <1>0, AtIs
  <2>3. sync' \in [Syncers -> Sync]
    BY <1>0, <1>6, <2>2, MarkKeptIs, SyncGoes
  <2> QED BY <1>0, <1>6, <2>1, <2>3, MarkKeptIs, SyncTypes DEF bounds
<1>7. CASE StopSync("worker")
  <2>1. sync' \in [Syncers -> Sync]
    BY <1>0, <1>7, StopIs, IdleIs, SyncGoes
  <2>2. hand' \in 0 .. MaxJobs /\ curating' \in Curating /\ jobs' \in Seq(Job)
        /\ lost' \subseteq {"overtaken", "turn", "job", "forgotten"} /\ mishaps' \in Nat
    <3>1. hand' = NoJob /\ curating' = NotCurating /\ SameJobs /\ lost' \subseteq lost \cup {"job"} /\ mishaps' = mishaps + 1
      BY <1>7, StopIs
    <3>2. lost \subseteq {"overtaken", "turn", "job", "forgotten"}
      BY <1>0 DEF TypeOK
    <3> QED BY <1>0, <3>1, <3>2, CuratingIs, BoundsAreNatural DEF NoJob, SameJobs
  <2>3. UNCHANGED <<today, entries, touched, stated, cleared, nodes, promises, verdicts, changes>>
    BY <1>7, StopIs DEF ledger, graph
  <2> QED BY <1>0, <2>1, <2>2, <2>3 DEF TypeOK
<1>8. CASE StopSync("rebuild")
  <2>1. sync' = [sync EXCEPT !["rebuild"] = Idle] /\ UNCHANGED <<ledger, graph, verdicts, changes, hand, curating, jobs, lost, mishaps>>
    BY <1>8 DEF StopSync
  <2>2. sync' \in [Syncers -> Sync]
    BY <1>0, <2>1, IdleIs, SyncGoes
  <2> QED BY <1>0, <2>1, <2>2, SyncTypes DEF graph
<1>9. ASSUME NEW s \in Syncers, NEW p \in Parties, Upsert(s, p) PROVE TypeOK'
  <2>1. nodes' \in [Debts -> Node] /\ promises' = promises /\ sync' \in [Syncers -> Sync]
    BY <1>0, <1>9, UpsertIs, SyncGoes
  <2> QED BY <1>0, <1>9, <2>1, UpsertIs, SyncTypes DEF bounds
<1>10. ASSUME NEW i, Requeue(i) PROVE TypeOK'
  <2>1. jobs' \in Seq(Job)
    BY <1>0, <1>10, RequeueIs DEF SameJobs
  <2>2. UNCHANGED <<today, entries, touched, stated, cleared, nodes, promises, sync, curating, hand, verdicts, lost, changes, mishaps>>
    BY <1>0, <1>10, RequeueIs DEF ledger, graph, busy, bounds
  <2> QED BY <1>0, <2>1, <2>2 DEF TypeOK
<1> QED BY <1>1, <1>2, <1>3, <1>4, <1>5, <1>6, <1>7, <1>8, <1>9, <1>10 DEF SyncStep, Syncers

LEMMA CurateStepType ==
  ASSUME Typed, CurateStep
  PROVE  TypeOK'
<1>0. TypeOK /\ sync \in [Syncers -> Sync] /\ Len(promises) <= MaxPromises /\ promises \in Seq(Promise)
      /\ "worker" \in Syncers /\ curating \in Curating
  BY DEF Typed, TypeOK, Syncers
<1> USE DEF ledger, graph, bounds
<1>1. CASE CurateSkip
  BY <1>0, <1>1, CurateSkipIs DEF TypeOK
<1>2. CASE CurateRead
  <2>1. sync' \in [Syncers -> Sync]
    BY <1>0, <1>2, CurateReadIs, AtIs, SyncGoes
  <2> QED BY <1>0, <1>2, <2>1, CurateReadIs DEF TypeOK
<1>3. CASE AddPromise
  <2>1. sync' \in [Syncers -> Sync]
    BY <1>0, <1>3, AddPromiseIs, AtIs, SyncGoes
  <2> QED BY <1>0, <1>3, <2>1, AddPromiseIs DEF TypeOK
<1>4. ASSUME NEW i \in Ids, CloseOld(i) PROVE TypeOK'
  <2>1. curating' \in Curating /\ UNCHANGED <<ledger, jobs, nodes, sync, hand, verdicts, lost, bounds>>
    BY <1>0, <1>4, CloseOldIs
  <2>2. promises' \in Seq(Promise)
    <3>1. PICK st \in {"kept", "broken", "replaced"} : SetStatus(i, st)
      BY <1>0, <1>4, CloseOldIs
    <3>2. CASE i \in DOMAIN promises
      BY <1>0, <3>1, <3>2, SetStatusIs DEF Alike
    <3>3. CASE i \notin DOMAIN promises
      <4>1. promises' = promises
        BY <1>0, <3>1, <3>3 DEF SetStatus
      <4> QED BY <1>0, <4>1
    <3> QED BY <3>2, <3>3
  <2> QED BY <1>0, <2>1, <2>2 DEF TypeOK
<1> QED BY <1>1, <1>2, <1>3, <1>4 DEF CurateStep

LEMMA SettleIs ==
  ASSUME TypeOK, NEW v, Settle(v)
  PROVE  /\ v \in verdicts /\ SetStatus(v.id, v.status) /\ v.status \in {"kept", "broken"} /\ verdicts' = verdicts \ {v}
         /\ UNCHANGED <<ledger, jobs, nodes, busy, lost, bounds>>
<1>1. v \in [id : Ids, status : {"kept", "broken"}]
  BY DEF Settle, TypeOK
<1> QED BY <1>1 DEF Settle

LEMMA SweepStepType ==
  ASSUME Typed, SweepStep
  PROVE  TypeOK'
<1>0. TypeOK /\ Len(promises) <= MaxPromises /\ promises \in Seq(Promise) /\ mishaps \in Nat
      /\ verdicts \subseteq [id : Ids, status : {"kept", "broken"}]
  BY DEF Typed, TypeOK
<1> USE DEF ledger, graph, busy, bounds
<1>1. CASE StartSweep
  <2>1. /\ verdicts' \subseteq [id : Ids, status : {"kept", "broken"}] /\ mishaps' = mishaps + 1
        /\ UNCHANGED <<ledger, jobs, graph, busy, lost, changes>>
    BY <1>0, <1>1, StartSweepIs
  <2> QED BY <1>0, <2>1 DEF TypeOK
<1>2. CASE StopSweep
  BY <1>0, <1>2 DEF StopSweep, TypeOK
<1>3. ASSUME NEW v, Settle(v) PROVE TypeOK'
  <2>1. PICK st \in {"kept", "broken", "replaced"} : SetStatus(v.id, st)
    BY <1>0, <1>3, SettleIs
  <2>2. promises' \in Seq(Promise)
    <3>2. CASE v.id \in DOMAIN promises
      BY <1>0, <2>1, <3>2, SetStatusIs DEF Alike
    <3>3. CASE v.id \notin DOMAIN promises
      <4>1. promises' = promises
        BY <1>0, <2>1, <3>3 DEF SetStatus
      <4> QED BY <1>0, <4>1
    <3> QED BY <3>2, <3>3
  <2>3. verdicts' = verdicts \ {v} /\ UNCHANGED <<ledger, jobs, nodes, busy, lost, bounds>>
    BY <1>0, <1>3, SettleIs
  <2>4. verdicts' \subseteq [id : Ids, status : {"kept", "broken"}]
    BY <1>0, <2>3
  <2> QED BY <1>0, <2>2, <2>3, <2>4 DEF TypeOK
<1>4. ASSUME NEW p, Forget(p) PROVE TypeOK'
  <2>1. promises' \in Seq(Promise)
    BY <1>0, <1>4, ForgetIs DEF Alike
  <2>2. lost' = lost \cup {"forgotten"} /\ mishaps' = mishaps + 1 /\ UNCHANGED <<ledger, jobs, nodes, busy, verdicts, changes>>
    BY <1>4 DEF Forget, Mishap
  <2> QED BY <1>0, <2>1, <2>2 DEF TypeOK
<1> QED BY <1>1, <1>2, <1>3, <1>4 DEF SweepStep

LEMMA TypesKept ==
  ASSUME Typed, [Next]_vars
  PROVE  TypeOK'
<1>0. TypeOK /\ PeopleAreNamed
  BY DEF Typed
<1>1. CASE LedgerStep
  BY <1>0, <1>1, LedgerChanges, ChangesType
<1>2. CASE UNCHANGED vars
  BY <1>0, <1>2 DEF TypeOK, vars, ledger, graph, busy, bounds
<1> QED BY <1>0, <1>1, <1>2, TurnsType, SyncStepType, CurateStepType, SweepStepType DEF Next

-----------------------------------------------------------------------------
(* The queue and the hand.                                                 *)

\* Nothing that the hand's facts speak of has changed.
LEMMA HandStays ==
  ASSUME TypeOK, HandHoldsAJob, R' = R \/ R' = Idle \/ R'.at \in {"upsert", "stale", "prune"},
         W' = W \/ (W # Idle /\ W' # Idle /\ W.at \in {"upsert", "stale", "done"} /\ W'.at \in {"upsert", "stale", "done"} /\ W'.keys = W.keys),
         hand' = hand, curating' = curating,
         DOMAIN jobs \subseteq DOMAIN jobs',
         \A k \in DOMAIN jobs : jobs'[k].kind = jobs[k].kind /\ jobs'[k].keys = jobs[k].keys /\ jobs'[k].touched = jobs[k].touched
                                /\ (jobs'[k].failed => jobs[k].failed)
  PROVE  HandHoldsAJob'
<1>1. CASE W' = W /\ W # Idle
  <2>1. hand \in DOMAIN jobs /\ ~jobs[hand].failed /\ hand # NoJob
    BY <1>1 DEF HandHoldsAJob
  <2>2. hand \in DOMAIN jobs' /\ ~jobs'[hand].failed /\ jobs'[hand].keys = jobs[hand].keys /\ jobs'[hand].kind = jobs[hand].kind
        /\ jobs'[hand].touched = jobs[hand].touched
    BY <2>1
  <2> QED BY <1>1, <2>1, <2>2 DEF HandHoldsAJob
<1>3. CASE W' = W /\ W = Idle
  BY <1>3, IdleIs DEF HandHoldsAJob
<1>2. CASE W' # W
  <2>1. /\ W # Idle /\ W' # Idle /\ W.at \in {"upsert", "stale", "done"} /\ W'.at \in {"upsert", "stale", "done"}
        /\ W'.keys = W.keys
    BY <1>2
  <2>2. hand # NoJob /\ hand \in DOMAIN jobs /\ ~jobs[hand].failed /\ W.keys = jobs[hand].keys
    BY <2>1 DEF HandHoldsAJob
  <2> QED BY <2>1, <2>2 DEF HandHoldsAJob
<1> QED BY <1>1, <1>2, <1>3

LEMMA JoinIsNew ==
  ASSUME TypeOK, JobsAreOrderly, NEW j, Joins(j), j.on = today, j.kind = "curate" => j.keys = {}, ~j.failed,
         hand' = hand, today' = today, "job" \notin lost' => "job" \notin lost
  PROVE  JobsAreOrderly'
<1>1. today \in Nat
  BY BoundsAreNatural DEF TypeOK
<1>2. /\ Len(jobs') <= MaxJobs /\ DOMAIN jobs' = DOMAIN jobs \cup {Len(jobs) + 1}
      /\ \A i \in DOMAIN jobs : jobs'[i] = jobs[i]
      /\ jobs'[Len(jobs) + 1] = j
  <2>1. /\ Len(jobs') <= MaxJobs /\ DOMAIN jobs' = 1 .. Len(jobs) + 1 /\ DOMAIN jobs = 1 .. Len(jobs) /\ Len(jobs) \in Nat
        /\ \A i \in DOMAIN jobs : jobs'[i] = jobs[i]
        /\ jobs'[Len(jobs) + 1] = j
    BY JoinIs
  <2>2. 1 .. Len(jobs) + 1 = 1 .. Len(jobs) \cup {Len(jobs) + 1}
    BY <2>1
  <2> QED BY <2>1, <2>2
<1> QED BY <1>1, <1>2 DEF JobsAreOrderly

LEMMA JobsStay ==
  ASSUME TypeOK, JobsAreOrderly, SameJobs, hand' = hand \/ hand' = NoJob, today' = today \/ today' = today + 1,
         "job" \notin lost' => "job" \notin lost,
         \A k \in DOMAIN jobs : jobs'[k].failed = jobs[k].failed \/ "job" \in lost' \/ ~jobs'[k].failed
  PROVE  JobsAreOrderly'
<1>1. today \in Nat /\ \A i \in DOMAIN jobs : jobs[i].on \in Nat /\ jobs[i].on <= today
  BY JobIs, BoundsAreNatural DEF TypeOK, JobsAreOrderly
<1>2. \A i \in DOMAIN jobs : jobs[i].on <= today'
  BY <1>1
<1> QED BY <1>2 DEF JobsAreOrderly, SameJobs, NoJob

\* Rows stay as they were read.
LEMMA RowsStay ==
  ASSUME RowsWereRead, \A s \in Syncers : sync'[s].rows = sync[s].rows /\ sync'[s].keys = sync[s].keys /\ sync'[s].left \subseteq sync[s].left
  PROVE  RowsWereRead'
  BY DEF RowsWereRead

LEMMA NewRows ==
  ASSUME TypeOK, RowsWereRead, NEW s \in Syncers, sync' = [sync EXCEPT ![s] = Idle] \/ \E keys \in SUBSET Parties : sync' = [sync EXCEPT ![s] = Snapshot(keys)]
  PROVE  RowsWereRead'
<1>1. sync \in [Syncers -> Sync]
  BY DEF TypeOK
<1>2. PICK X : sync' = [sync EXCEPT ![s] = X] /\ (X = Idle \/ \E keys \in SUBSET Parties : X = Snapshot(keys))
  OBVIOUS
<1>3. sync'[s] = X /\ \A r \in Syncers : r # s => sync'[r] = sync[r]
  BY <1>1, <1>2, SyncGoes
<1>4. X.left \subseteq X.keys /\ \A d \in Debts : X.rows[d] # NoEntry => Live(X.rows[d]) /\ X.rows[d].party \in X.keys
  <2>1. CASE X = Idle
    BY <2>1, IdleIs
  <2>2. CASE \E keys \in SUBSET Parties : X = Snapshot(keys)
    <3>1. PICK keys \in SUBSET Parties : X = Snapshot(keys)
      BY <2>2
    <3> QED BY <3>1, SnapshotIs
  <2> QED BY <1>2, <2>1, <2>2
<1> QED BY <1>3, <1>4 DEF RowsWereRead

\* Nodes keep their person's name: they are none, or mirror entries that have one.
LEMMA NodesNamed ==
  ASSUME PeopleAreNamed, entries' = entries,
         \A d \in Debts : nodes'[d] = nodes[d] \/ nodes'[d] = NoNode \/ nodes'[d].party # NoParty
  PROVE  PeopleAreNamed'
  BY DEF PeopleAreNamed

Basics == HandHoldsAJob /\ JobsAreOrderly /\ RowsWereRead /\ PeopleAreNamed /\ Len(promises) <= MaxPromises

LEMMA LedgerKeepsBasics ==
  ASSUME Typed, NEW d \in Debts, NEW e \in Entry, NEW keys \in SUBSET Parties, Changes(d, e, keys)
  PROVE  Basics'
<1>0. TypeOK /\ HandHoldsAJob /\ JobsAreOrderly /\ RowsWereRead /\ PeopleAreNamed /\ Len(promises) <= MaxPromises
  BY DEF Typed
<1>1. /\ entries' = [entries EXCEPT ![d] = e] /\ UNCHANGED <<today, nodes, promises, sync, curating, hand>>
      /\ e.state # "none" /\ (Live(e) => e.party \in keys) /\ (e.repaid => e.state = "complete" /\ e.paid # NoDay)
      /\ "job" \notin lost' => "job" \notin lost
  BY DEF Changes, Change, graph, busy
<1>2. PICK j : j = NewJob("ledger_changed", keys, <<>>)
  OBVIOUS
<1>3. Joins(j) /\ j.on = today /\ j.kind = "ledger_changed" /\ ~j.failed
  BY <1>0, <1>2, ChangeJoins DEF NewJob
<1>4. JobsAreOrderly'
  BY <1>0, <1>1, <1>3, JoinIsNew
<1>5. HandHoldsAJob'
  <2>1. DOMAIN jobs \subseteq DOMAIN jobs' /\ \A k \in DOMAIN jobs : jobs'[k] = jobs[k]
    BY <1>0, <1>3, JoinIs
  <2> QED BY <1>0, <1>1, <2>1, HandStays DEF W, R
<1>6. RowsWereRead'
  BY <1>0, <1>1 DEF RowsWereRead
<1>7. PeopleAreNamed'
  <2>1. \A c \in Debts : entries'[c] = IF c = d THEN e ELSE entries[c]
    BY <1>0, <1>1 DEF TypeOK
  <2> QED BY <1>0, <1>1, <2>1 DEF PeopleAreNamed
<1> QED BY <1>0, <1>1, <1>4, <1>5, <1>6, <1>7 DEF Basics

LEMMA TurnKeepsBasics ==
  ASSUME Typed, TurnStep \/ UNCHANGED vars
  PROVE  Basics'
<1>0. TypeOK /\ HandHoldsAJob /\ JobsAreOrderly /\ RowsWereRead /\ PeopleAreNamed /\ Len(promises) <= MaxPromises
  BY DEF Typed
<1>1. CASE EndTurn
  <2>1. PICK j : j = NewJob("curate", {}, touched)
    OBVIOUS
  <2>2. /\ Joins(j) /\ j.on = today /\ j.keys = {} /\ ~j.failed
        /\ UNCHANGED <<today, entries, nodes, promises, sync, curating, hand, lost>>
    BY <1>0, <1>1, <2>1, EndTurnIs DEF NewJob, graph, busy
  <2>3. JobsAreOrderly'
    BY <1>0, <2>2, JoinIsNew
  <2>4. HandHoldsAJob'
    <3>1. DOMAIN jobs \subseteq DOMAIN jobs' /\ \A k \in DOMAIN jobs : jobs'[k] = jobs[k]
      BY <1>0, <2>2, JoinIs
    <3> QED BY <1>0, <2>2, <3>1, HandStays DEF W, R
  <2> QED BY <1>0, <2>2, <2>3, <2>4 DEF Basics, RowsWereRead, PeopleAreNamed
<1>2. CASE FailTurn \/ NextDay \/ UNCHANGED vars
  <2>1. /\ UNCHANGED <<entries, jobs, nodes, promises, sync, curating, hand>> /\ (today' = today \/ today' = today + 1)
        /\ "job" \notin lost' => "job" \notin lost
    BY <1>2 DEF FailTurn, NextDay, vars, ledger, graph, busy
  <2>2. SameJobs
    BY <1>0, <2>1 DEF SameJobs, TypeOK
  <2>3. JobsAreOrderly'
    BY <1>0, <2>1, <2>2, JobsStay
  <2>4. HandHoldsAJob'
    BY <1>0, <2>1, HandStays DEF W, R
  <2> QED BY <1>0, <2>1, <2>3, <2>4 DEF Basics, RowsWereRead, PeopleAreNamed
<1> QED BY <1>1, <1>2 DEF TurnStep

\* A sync takes its next statement.
LEMMA SyncKeepsBasics ==
  ASSUME Typed, NEW s \in Syncers, NEW X \in Sync, sync' = [sync EXCEPT ![s] = X],
         X.rows = sync[s].rows, X.keys = sync[s].keys, X.left \subseteq sync[s].left,
         s = "worker" => sync[s].at \in {"upsert", "stale"} /\ X.at \in {"upsert", "stale", "done"},
         s = "rebuild" => X.at \in {"upsert", "stale", "prune"},
         UNCHANGED <<ledger, jobs, curating, hand, lost>>,
         \A d \in Debts : nodes'[d] = nodes[d] \/ nodes'[d] = NoNode \/ nodes'[d].party # NoParty,
         Len(promises') = Len(promises)
  PROVE  Basics'
<1>0. TypeOK /\ HandHoldsAJob /\ JobsAreOrderly /\ RowsWereRead /\ PeopleAreNamed /\ Len(promises) <= MaxPromises
      /\ sync \in [Syncers -> Sync]
  BY DEF Typed, TypeOK
<1>1. sync'[s] = X /\ (\A r \in Syncers : r # s => sync'[r] = sync[r])
      /\ (s = "worker" => W' = X /\ R' = R /\ W = sync[s]) /\ (s = "rebuild" => R' = X /\ W' = W)
  BY <1>0, SyncGoes DEF W
<1>2. HandHoldsAJob'
  <2>1. s = "worker" => W # Idle /\ W' # Idle
    BY <1>1, IdleIs
  <2>2. W' = W \/ (W # Idle /\ W' # Idle /\ W.at \in {"upsert", "stale", "done"} /\ W'.at \in {"upsert", "stale", "done"} /\ W'.keys = W.keys)
    BY <1>1, <2>1 DEF Syncers
  <2>3. R' = R \/ R' = Idle \/ R'.at \in {"upsert", "stale", "prune"}
    BY <1>1 DEF Syncers
  <2> QED BY <1>0, <2>2, <2>3, HandStays
<1>3. RowsWereRead'
  <2>1. \A r \in Syncers : sync'[r].rows = sync[r].rows /\ sync'[r].keys = sync[r].keys /\ sync'[r].left \subseteq sync[r].left
    BY <1>1
  <2> QED BY <1>0, <2>1, RowsStay
<1>4. JobsAreOrderly' /\ Len(promises') <= MaxPromises
  BY <1>0 DEF JobsAreOrderly, ledger
<1>5. PeopleAreNamed'
  BY <1>0, NodesNamed DEF ledger
<1> QED BY <1>2, <1>3, <1>4, <1>5 DEF Basics

LEMMA TakeKeepsBasics ==
  ASSUME Typed, Take
  PROVE  Basics'
<1>0. TypeOK /\ HandHoldsAJob /\ JobsAreOrderly /\ RowsWereRead /\ PeopleAreNamed /\ Len(promises) <= MaxPromises
      /\ sync \in [Syncers -> Sync] /\ "worker" \in Syncers
  BY DEF Typed, TypeOK, Syncers
<1>1. /\ hand = NoJob /\ hand' \in DOMAIN jobs /\ ~jobs[hand'].failed
      /\ \A j \in DOMAIN jobs : ~jobs[j].failed => hand' <= j
      /\ UNCHANGED <<ledger, jobs, graph, verdicts, lost, bounds>>
  BY <1>0, TakeIs
<1>2. hand' # NoJob /\ W = Idle
  BY <1>0, <1>1, JobIs DEF HandHoldsAJob
<1>3. JobsAreOrderly'
  <2>1. "job" \notin lost => hand' = 1
    <3>1. jobs \in Seq(Job) /\ DOMAIN jobs = 1 .. Len(jobs) /\ Len(jobs) \in Nat /\ hand' \in 1 .. Len(jobs)
      BY <1>0, <1>1 DEF TypeOK
    <3>2. 1 \in DOMAIN jobs
      BY <3>1
    <3>3. "job" \notin lost => hand' <= 1
      BY <1>0, <1>1, <3>2 DEF JobsAreOrderly
    <3> QED BY <3>1, <3>3
  <2> QED BY <1>0, <1>1, <2>1 DEF JobsAreOrderly, ledger
<1>4. PeopleAreNamed' /\ Len(promises') <= MaxPromises
  BY <1>0, <1>1 DEF PeopleAreNamed, ledger, graph
<1>5. CASE jobs[hand'].kind = "ledger_changed" /\ sync' = [sync EXCEPT !["worker"] = Snapshot(jobs[hand'].keys)]
  <2>1. jobs[hand'].keys \in SUBSET Parties
    BY <1>0, <1>1, JobIs
  <2>2. RowsWereRead'
    BY <1>0, <1>5, <2>1, NewRows
  <2>3. W' = Snapshot(jobs[hand'].keys) /\ R' = R
    BY <1>0, <1>5, SyncGoes
  <2>4. W'.at = "upsert" /\ W'.keys = jobs'[hand'].keys /\ W' # Idle
    BY <1>0, <1>1, <2>1, <2>3, SnapshotIs, IdleIs
  <2>5. HandHoldsAJob'
    BY <1>0, <1>1, <1>2, <1>5, <2>3, <2>4 DEF HandHoldsAJob
  <2> QED BY <1>3, <1>4, <2>2, <2>5 DEF Basics
<1>6. CASE /\ jobs[hand'].kind = "curate" /\ curating' = [left |-> jobs[hand'].touched, old |-> {}]
           /\ sync' = [sync EXCEPT !["worker"] = At(sync["worker"], "curate")]
  <2>1. W' = At(Idle, "curate") /\ R' = R /\ sync'["worker"] = W' /\ \A r \in Syncers : r # "worker" => sync'[r] = sync[r]
    BY <1>0, <1>2, <1>6, SyncGoes DEF W
  <2>2. W'.at = "curate" /\ W' # Idle /\ W'.rows = Idle.rows /\ W'.keys = {} /\ W'.left = {}
    BY <2>1, IdleIs, AtIs
  <2>3. HandHoldsAJob'
    <3>1. curating'.left = jobs[hand'].touched
      BY <1>6
    <3> QED BY <1>0, <1>1, <1>2, <1>6, <2>1, <2>2, <3>1 DEF HandHoldsAJob
  <2>4. RowsWereRead'
    BY <1>0, <2>1, <2>2, IdleIs DEF RowsWereRead
  <2> QED BY <1>3, <1>4, <2>3, <2>4 DEF Basics
<1> QED BY <1>0, <1>5, <1>6, TakeIs

LEMMA FinishKeepsBasics ==
  ASSUME Typed, Finish
  PROVE  Basics'
<1>0. TypeOK /\ HandHoldsAJob /\ JobsAreOrderly /\ RowsWereRead /\ PeopleAreNamed /\ Len(promises) <= MaxPromises
      /\ sync \in [Syncers -> Sync] /\ "worker" \in Syncers
  BY DEF Typed, TypeOK, Syncers
<1>1. /\ hand \in DOMAIN jobs /\ hand' = NoJob /\ sync' = [sync EXCEPT !["worker"] = Idle]
      /\ Len(jobs') = Len(jobs) - 1 /\ DOMAIN jobs' = 1 .. Len(jobs) - 1
      /\ \A k \in DOMAIN jobs' : jobs'[k] = IF k < hand THEN jobs[k] ELSE jobs[k + 1]
      /\ UNCHANGED <<ledger, graph, verdicts, lost, bounds>>
  BY FinishIs
<1>2. W' = Idle /\ R' = R
  BY <1>0, <1>1, SyncGoes
<1>3. HandHoldsAJob'
  BY <1>0, <1>1, <1>2, IdleIs DEF HandHoldsAJob
<1>4. RowsWereRead'
  BY <1>0, <1>1, NewRows
<1>5. JobsAreOrderly'
  <2>1. Len(jobs) \in Nat /\ DOMAIN jobs = 1 .. Len(jobs)
    BY <1>0 DEF TypeOK
  <2>2. \A k \in DOMAIN jobs' : \E l \in DOMAIN jobs : jobs'[k] = jobs[l]
    <3> SUFFICES ASSUME NEW k \in DOMAIN jobs' PROVE \E l \in DOMAIN jobs : jobs'[k] = jobs[l]
      OBVIOUS
    <3>1. k \in DOMAIN jobs /\ k + 1 \in DOMAIN jobs
      BY <1>1, <2>1
    <3> QED BY <1>1, <3>1
  <2>3. Len(jobs') <= MaxJobs
    BY <1>0, <1>1, <2>1, BoundsAreNatural DEF JobsAreOrderly
  <2> QED BY <1>0, <1>1, <2>2, <2>3 DEF JobsAreOrderly, ledger, NoJob
<1>6. PeopleAreNamed' /\ Len(promises') <= MaxPromises
  BY <1>0, <1>1 DEF PeopleAreNamed, ledger, graph
<1> QED BY <1>3, <1>4, <1>5, <1>6 DEF Basics

LEMMA StopKeepsBasics ==
  ASSUME Typed, StopSync("worker")
  PROVE  Basics'
<1>0. TypeOK /\ HandHoldsAJob /\ JobsAreOrderly /\ RowsWereRead /\ PeopleAreNamed /\ Len(promises) <= MaxPromises
      /\ sync \in [Syncers -> Sync] /\ "worker" \in Syncers
  BY DEF Typed, TypeOK, Syncers
<1>1. /\ hand' = NoJob /\ sync' = [sync EXCEPT !["worker"] = Idle] /\ SameJobs
      /\ \A k \in DOMAIN jobs : jobs'[k].failed = jobs[k].failed \/ "job" \in lost'
      /\ lost \subseteq lost' /\ UNCHANGED <<ledger, graph, verdicts, changes>>
  BY StopIs
<1>2. W' = Idle /\ R' = R
  BY <1>0, <1>1, SyncGoes
<1>3. HandHoldsAJob'
  BY <1>0, <1>1, <1>2, IdleIs DEF HandHoldsAJob
<1>4. RowsWereRead'
  BY <1>0, <1>1, NewRows
<1>5. JobsAreOrderly'
  BY <1>0, <1>1, JobsStay DEF ledger
<1>6. PeopleAreNamed' /\ Len(promises') <= MaxPromises
  BY <1>0, <1>1 DEF PeopleAreNamed, ledger, graph
<1> QED BY <1>3, <1>4, <1>5, <1>6 DEF Basics

LEMMA SyncStepKeepsBasics ==
  ASSUME Typed, SyncStep
  PROVE  Basics'
<1>0. TypeOK /\ HandHoldsAJob /\ JobsAreOrderly /\ RowsWereRead /\ PeopleAreNamed /\ Len(promises) <= MaxPromises
      /\ sync \in [Syncers -> Sync] /\ "worker" \in Syncers /\ "rebuild" \in Syncers /\ (\A s \in Syncers : sync[s] \in Sync)
  BY DEF Typed, TypeOK, Syncers
<1>1. ASSUME sync' = [sync EXCEPT !["rebuild"] = Idle] \/ sync' = [sync EXCEPT !["rebuild"] = Snapshot(KeysOf(entries))],
             UNCHANGED <<ledger, jobs, curating, hand, lost>>,
             \A d \in Debts : nodes'[d] = nodes[d] \/ nodes'[d] = NoNode \/ nodes'[d].party # NoParty,
             Len(promises') = Len(promises)
      PROVE  Basics'
  <2>1. KeysOf(entries) \in SUBSET Parties
    BY <1>0 DEF KeysOf, PeopleAreNamed
  <2>2. RowsWereRead'
    BY <1>0, <1>1, <2>1, NewRows
  <2>3. W' = W /\ (R' = Idle \/ R' = Snapshot(KeysOf(entries)))
    BY <1>0, <1>1, SyncGoes
  <2>4. R' = Idle \/ R'.at \in {"upsert", "stale", "prune"}
    BY <1>0, <2>1, <2>3, SnapshotIs
  <2>5. HandHoldsAJob'
    BY <1>0, <1>1, <2>3, <2>4, HandStays
  <2>6. JobsAreOrderly' /\ Len(promises') <= MaxPromises
    BY <1>0, <1>1 DEF JobsAreOrderly, ledger
  <2>7. PeopleAreNamed'
    BY <1>0, <1>1, NodesNamed DEF ledger
  <2> QED BY <2>2, <2>5, <2>6, <2>7 DEF Basics
<1>2. CASE StartRebuild
  BY <1>1, <1>2 DEF StartRebuild, graph
<1>3. CASE Prune
  <2>1. Delete(Debts \ Alive("rebuild")) /\ sync' = [sync EXCEPT !["rebuild"] = Idle] /\ UNCHANGED <<ledger, jobs, curating, hand, lost>>
    BY <1>3 DEF Prune
  <2>2. Len(promises') = Len(promises) /\ \A d \in Debts : nodes'[d] = nodes[d] \/ nodes'[d] = NoNode
    BY <1>0, <2>1, DeleteIs DEF Alike
  <2> QED BY <1>1, <2>1, <2>2
<1>4. CASE StopSync("rebuild")
  BY <1>1, <1>4 DEF StopSync, graph
<1>5. ASSUME NEW s \in Syncers, RemoveStale(s) PROVE Basics'
  <2>1. /\ sync[s].at = "upsert" /\ sync' = [sync EXCEPT ![s] = At(sync[s], "stale")] /\ UNCHANGED <<ledger, jobs, curating, hand, lost>>
        /\ Delete({d \in Debts : nodes[d].party \in sync[s].keys} \ Alive(s))
    BY <1>0, <1>5, RemoveStaleIs
  <2>2. Len(promises') = Len(promises) /\ \A d \in Debts : nodes'[d] = nodes[d] \/ nodes'[d] = NoNode
    BY <1>0, <2>1, DeleteIs DEF Alike
  <2>3. PICK X \in Sync : X = At(sync[s], "stale") /\ X.at = "stale" /\ X.rows = sync[s].rows /\ X.keys = sync[s].keys /\ X.left = sync[s].left
    BY <1>0, AtIs
  <2> QED BY <2>1, <2>2, <2>3, SyncKeepsBasics
<1>6. ASSUME NEW s \in Syncers, MarkKept(s) PROVE Basics'
  <2>1. /\ sync[s].at = "stale" /\ sync' = [sync EXCEPT ![s] = At(sync[s], IF s = "worker" THEN "done" ELSE "prune")]
        /\ UNCHANGED <<ledger, jobs, nodes, curating, hand, lost>> /\ Len(promises') = Len(promises)
    BY <1>0, <1>6, MarkKeptIs DEF Alike
  <2>2. PICK at \in {"done", "prune"} : at = IF s = "worker" THEN "done" ELSE "prune"
    OBVIOUS
  <2>3. PICK X \in Sync : X = At(sync[s], at) /\ X.at = at /\ X.rows = sync[s].rows /\ X.keys = sync[s].keys /\ X.left = sync[s].left
    BY <1>0, AtIs
  <2>4. sync' = [sync EXCEPT ![s] = X] /\ (s = "worker" => X.at = "done") /\ (s = "rebuild" => X.at = "prune")
    BY <2>1, <2>2, <2>3
  <2> QED BY <2>1, <2>3, <2>4, SyncKeepsBasics
<1>7. ASSUME NEW s \in Syncers, NEW p \in Parties, Upsert(s, p) PROVE Basics'
  <2>1. PICK X \in Sync : /\ sync' = [sync EXCEPT ![s] = X] /\ X.at = "upsert" /\ X.left = sync[s].left \ {p}
                          /\ X.keys = sync[s].keys /\ X.rows = sync[s].rows
    BY <1>0, <1>7, UpsertIs
  <2>2. /\ sync[s].at = "upsert" /\ UNCHANGED <<ledger, jobs, curating, hand, lost, promises>>
    BY <1>0, <1>7, UpsertIs
  <2>3. \A d \in Debts : nodes'[d] = nodes[d] \/ nodes'[d] = NoNode \/ nodes'[d].party # NoParty
    <3>1. \A d \in Debts : sync[s].rows[d] \in Entry
      BY <1>0 DEF Sync
    <3>2. \A d \in Debts : sync[s].rows[d].party = p => Mirrored(sync[s].rows[d]).party # NoParty
      BY <3>1, MirrorsAre, NobodyIsNoParty
    <3> QED BY <1>0, <1>7, <3>2, UpsertIs
  <2> QED BY <2>1, <2>2, <2>3, SyncKeepsBasics
<1>8. ASSUME NEW i, Requeue(i) PROVE Basics'
  <2>1. /\ SameJobs /\ UNCHANGED <<ledger, graph, busy, verdicts, lost, bounds>>
        /\ \A k \in DOMAIN jobs : jobs'[k].failed => jobs[k].failed
    BY <1>0, <1>8, RequeueIs
  <2>2. UNCHANGED <<today, entries, nodes, promises, sync, curating, hand>>
    BY <2>1 DEF ledger, graph, busy
  <2>3. JobsAreOrderly'
    <3>1. \A k \in DOMAIN jobs : jobs'[k].failed = jobs[k].failed \/ ~jobs'[k].failed
      <4> SUFFICES ASSUME NEW k \in DOMAIN jobs, jobs'[k].failed PROVE jobs'[k].failed = jobs[k].failed
        OBVIOUS
      <4>1. jobs[k].failed = TRUE
        BY <1>0, <2>1, JobIs
      <4>2. jobs'[k] \in Job
        BY <2>1 DEF SameJobs
      <4>3. jobs'[k].failed = TRUE
        BY <4>2 DEF Job
      <4> QED BY <4>1, <4>3
    <3> QED BY <1>0, <2>1, <2>2, <3>1, JobsStay
  <2>4. HandHoldsAJob'
    BY <1>0, <2>1, <2>2, HandStays DEF SameJobs, W, R
  <2> QED BY <1>0, <2>2, <2>3, <2>4 DEF Basics, RowsWereRead, PeopleAreNamed
<1> QED BY <1>2, <1>3, <1>4, <1>5, <1>6, <1>7, <1>8, TakeKeepsBasics, FinishKeepsBasics, StopKeepsBasics DEF SyncStep, Syncers

\* A curation takes its next statement.
LEMMA CurateStepKeepsBasics ==
  ASSUME Typed, CurateStep
  PROVE  Basics'
<1>0. TypeOK /\ HandHoldsAJob /\ JobsAreOrderly /\ RowsWereRead /\ PeopleAreNamed /\ Len(promises) <= MaxPromises
      /\ sync \in [Syncers -> Sync] /\ "worker" \in Syncers
  BY DEF Typed, TypeOK, Syncers
<1>1. ASSUME W.at \in {"curate", "replace"},
             W' = W \/ \E at \in {"curate", "replace"} : sync' = [sync EXCEPT !["worker"] = At(sync["worker"], at)],
             W' = W => sync' = sync,
             curating'.left = curating.left \/ (curating.left # <<>> /\ curating'.left = Tail(curating.left)),
             W'.at = "replace" => curating.left # <<>> /\ curating'.left = curating.left,
             UNCHANGED <<ledger, jobs, nodes, hand, lost>>, Len(promises') <= MaxPromises
      PROVE  Basics'
  <2>1. /\ W # Idle /\ hand # NoJob /\ hand \in DOMAIN jobs /\ ~jobs[hand].failed /\ jobs[hand].kind = "curate"
        /\ \A k \in DOMAIN curating.left : \E l \in DOMAIN jobs[hand].touched : curating.left[k] = jobs[hand].touched[l]
    BY <1>0, <1>1, IdleIs DEF HandHoldsAJob
  <2>2. W'.at \in {"curate", "replace"} /\ R' = R /\ \A s \in Syncers : sync'[s].rows = sync[s].rows /\ sync'[s].keys = sync[s].keys
                                                                          /\ sync'[s].left = sync[s].left
    <3>1. CASE W' = W
      BY <1>1, <3>1 DEF R
    <3>2. CASE \E at \in {"curate", "replace"} : sync' = [sync EXCEPT !["worker"] = At(sync["worker"], at)]
      <4>1. PICK at \in {"curate", "replace"} : sync' = [sync EXCEPT !["worker"] = At(sync["worker"], at)]
        BY <3>2
      <4>2. sync["worker"] \in Sync
        BY <1>0
      <4>3. PICK X \in Sync : X = At(sync["worker"], at) /\ X.at = at /\ X.rows = sync["worker"].rows
                              /\ X.keys = sync["worker"].keys /\ X.left = sync["worker"].left
        BY <4>2, AtIs
      <4>4. W' = X /\ R' = R /\ sync'["worker"] = X /\ \A r \in Syncers : r # "worker" => sync'[r] = sync[r]
        BY <1>0, <4>1, <4>3, SyncGoes
      <4> QED BY <4>3, <4>4
    <3> QED BY <1>1, <3>1, <3>2
  <2>3. \A k \in DOMAIN curating'.left : \E l \in DOMAIN jobs[hand].touched : curating'.left[k] = jobs[hand].touched[l]
    <3>1. CASE curating'.left = curating.left
      BY <2>1, <3>1
    <3>2. CASE curating.left # <<>> /\ curating'.left = Tail(curating.left)
      BY <1>0, <2>1, <3>2, FirstIs
    <3> QED BY <1>1, <3>1, <3>2
  <2>4. HandHoldsAJob'
    <3>1. W' # Idle
      BY <2>2, IdleIs
    <3> QED BY <1>0, <1>1, <2>1, <2>2, <2>3, <3>1 DEF HandHoldsAJob
  <2>5. RowsWereRead'
    BY <1>0, <2>2, RowsStay
  <2> QED BY <1>0, <1>1, <2>4, <2>5 DEF Basics, JobsAreOrderly, PeopleAreNamed, ledger
<1>2. CASE CurateSkip
  <2>1. Onward("curate") /\ UNCHANGED <<ledger, jobs, graph, sync, hand, verdicts, lost, bounds>>
    BY <1>0, <1>2, CurateSkipIs
  <2> QED BY <1>0, <1>1, <2>1 DEF Onward, graph, W
<1>3. CASE CurateRead
  <2>1. /\ W.at = "curate" /\ curating.left # <<>> /\ curating'.left = curating.left
        /\ sync' = [sync EXCEPT !["worker"] = At(sync["worker"], "replace")]
        /\ UNCHANGED <<ledger, jobs, graph, hand, verdicts, lost, bounds>>
    BY <1>0, <1>3, CurateReadIs
  <2>2. W' # W
    <3>1. W'.at = "replace"
      BY <1>0, <2>1, PlaceIs
    <3> QED BY <2>1, <3>1
  <2> QED BY <1>0, <1>1, <2>1, <2>2 DEF graph
<1>4. CASE AddPromise
  <2>1. /\ Onward("replace") /\ sync' = [sync EXCEPT !["worker"] = At(sync["worker"], "curate")]
        /\ UNCHANGED <<ledger, jobs, nodes, hand, verdicts, lost, bounds>> /\ Len(promises') <= MaxPromises
    BY <1>4, AddPromiseIs
  <2>2. W' # W /\ W'.at # "replace"
    <3>1. W'.at = "curate"
      BY <1>0, <2>1, PlaceIs
    <3> QED BY <2>1, <3>1 DEF Onward
  <2> QED BY <1>0, <1>1, <2>1, <2>2 DEF Onward
<1>5. ASSUME NEW i \in Ids, CloseOld(i) PROVE Basics'
  <2>1. /\ W.at = "replace" /\ curating'.left = curating.left /\ UNCHANGED <<ledger, jobs, nodes, sync, hand, verdicts, lost, bounds>>
        /\ SetStatus(i, IF promises[i].due < jobs[hand].on THEN "broken" ELSE "replaced")
    BY <1>0, <1>5, CloseOldIs
  <2>2. W' = W /\ curating.left # <<>>
    BY <1>0, <2>1 DEF HandHoldsAJob, W
  <2>3. Len(promises') <= MaxPromises
    BY <1>0, <2>1, Lengths
  <2> QED BY <1>0, <1>1, <2>1, <2>2, <2>3
<1> QED BY <1>2, <1>3, <1>4, <1>5 DEF CurateStep

LEMMA SweepStepKeepsBasics ==
  ASSUME Typed, SweepStep
  PROVE  Basics'
<1>0. TypeOK /\ HandHoldsAJob /\ JobsAreOrderly /\ RowsWereRead /\ PeopleAreNamed /\ Len(promises) <= MaxPromises
  BY DEF Typed
<1>1. /\ UNCHANGED <<today, entries, jobs, nodes, sync, curating, hand>> /\ Len(promises') = Len(promises)
      /\ "job" \notin lost' => "job" \notin lost
  <2>1. CASE StartSweep \/ StopSweep
    BY <2>1 DEF StartSweep, StopSweep, ledger, graph, busy
  <2>2. ASSUME NEW v, Settle(v)
        PROVE  UNCHANGED <<ledger, jobs, nodes, busy, lost, bounds>> /\ Len(promises') = Len(promises)
    BY <1>0, <2>2, SettleIs, Lengths
  <2>3. ASSUME NEW p, Forget(p)
        PROVE  /\ UNCHANGED <<ledger, jobs, nodes, busy>> /\ Len(promises') = Len(promises) /\ lost \subseteq lost'
    BY <1>0, <2>3, ForgetIs DEF Alike, Forget
  <2> QED BY <2>1, <2>2, <2>3 DEF SweepStep, ledger, busy
<1>2. JobsAreOrderly'
  BY <1>0, <1>1 DEF JobsAreOrderly
<1>3. HandHoldsAJob'
  BY <1>0, <1>1, HandStays DEF W, R
<1> QED BY <1>0, <1>1, <1>2, <1>3 DEF Basics, RowsWereRead, PeopleAreNamed

LEMMA TypedKept ==
  ASSUME Typed, [Next]_vars
  PROVE  Typed'
<1>1. TypeOK' /\ TypeOK /\ PeopleAreNamed
  BY TypesKept DEF Typed
<1>2. Basics'
  <2>1. CASE LedgerStep
    BY <1>1, <2>1, LedgerChanges, LedgerKeepsBasics
  <2> QED BY <2>1, TurnKeepsBasics, SyncStepKeepsBasics, CurateStepKeepsBasics, SweepStepKeepsBasics DEF Next
<1> QED BY <1>1, <1>2 DEF Basics, Typed

-----------------------------------------------------------------------------
(* The graph follows the ledger: what is queued.                           *)

LEMMA QueuedIs ==
  /\ \A p : p \in Queued <=> \E i \in DOMAIN jobs : i # hand /\ p \in jobs[i].keys
  /\ \A p : p \in Queued' <=> \E i \in DOMAIN jobs' : i # hand' /\ p \in jobs'[i].keys
  BY DEF Queued

LEMMA JoinQueues ==
  ASSUME Typed, NEW j, Joins(j), hand' = hand
  PROVE  Queued \subseteq Queued' /\ j.keys \subseteq Queued'
<1>1. /\ DOMAIN jobs' = 1 .. Len(jobs) + 1 /\ DOMAIN jobs = 1 .. Len(jobs) /\ Len(jobs) \in Nat
      /\ DOMAIN jobs \subseteq DOMAIN jobs'
      /\ \A i \in DOMAIN jobs : jobs'[i] = jobs[i]
      /\ jobs'[Len(jobs) + 1] = j
  BY JoinIs DEF Typed
<1>2. Len(jobs) + 1 \in DOMAIN jobs' /\ hand # Len(jobs) + 1
  BY <1>1 DEF Typed, HandHoldsAJob, NoJob
<1>3. Queued \subseteq Queued'
  BY <1>1, QueuedIs
<1>4. j.keys \subseteq Queued'
  BY <1>1, <1>2, QueuedIs
<1> QED BY <1>3, <1>4

LEMMA StopQueues ==
  ASSUME Typed, SameJobs, hand' = hand \/ hand' = NoJob
  PROVE  /\ Queued \subseteq Queued'
         /\ hand' = NoJob /\ hand \in DOMAIN jobs => jobs[hand].keys \subseteq Queued'
<1>1. \A i \in DOMAIN jobs : i # NoJob /\ i \in DOMAIN jobs' /\ jobs'[i].keys = jobs[i].keys
  BY JobIs DEF Typed, SameJobs
<1> QED BY <1>1, QueuedIs

LEMMA FinishQueues ==
  ASSUME Typed, Finish
  PROVE  Queued \subseteq Queued'
<1>1. /\ hand \in DOMAIN jobs /\ hand' = NoJob /\ DOMAIN jobs' = 1 .. Len(jobs) - 1
      /\ \A k \in DOMAIN jobs' : jobs'[k] = IF k < hand THEN jobs[k] ELSE jobs[k + 1]
      /\ DOMAIN jobs = 1 .. Len(jobs) /\ Len(jobs) \in Nat
  BY FinishIs DEF Typed, TypeOK
<1>2. \A i \in DOMAIN jobs : i # hand => \E k \in DOMAIN jobs' : k # NoJob /\ jobs'[k] = jobs[i]
  <2> SUFFICES ASSUME NEW i \in DOMAIN jobs, i # hand PROVE \E k \in DOMAIN jobs' : k # NoJob /\ jobs'[k] = jobs[i]
    OBVIOUS
  <2>1. CASE i < hand
    <3>1. i \in DOMAIN jobs' /\ i # NoJob
      BY <1>1, <2>1 DEF NoJob
    <3> QED BY <1>1, <2>1, <3>1
  <2>2. CASE i > hand
    <3>1. i - 1 \in DOMAIN jobs' /\ i - 1 # NoJob /\ ~(i - 1 < hand) /\ (i - 1) + 1 = i
      BY <1>1, <2>2 DEF NoJob
    <3> QED BY <1>1, <3>1
  <2> QED BY <1>1, <2>1, <2>2
<1> QED BY <1>1, <1>2, QueuedIs

LEMMA TakeQueues ==
  ASSUME Typed, Take
  PROVE  Queued \subseteq Queued' \cup jobs[hand'].keys
  BY QueuedIs, TakeIs DEF Typed

LEMMA FreshIs ==
  ASSUME NEW keys, NEW d
  PROVE  /\ Fresh(keys, d) # NoEntry => Live(entries[d]) /\ entries[d].party \in keys /\ Fresh(keys, d) = entries[d]
         /\ Live(entries[d]) /\ entries[d].party \in keys => Fresh(keys, d) = entries[d]
  BY DEF Fresh

-----------------------------------------------------------------------------
(* The graph follows the ledger: the steps.                                *)

FollowsLedger == OldRowsAreQueued /\ RebuildIsFresh /\ NodesAreRight /\ DebtsAreThere

\* Steps that change neither the ledger, nor nodes, nor what a sync in progress will write.
LEMMA QuietKeepsGraph ==
  ASSUME GraphCatchesUp, "overtaken" \notin lost' => "overtaken" \notin lost,
         entries' = entries, nodes' = nodes, W' = W \/ (W.at # "upsert" /\ W'.at # "upsert"),
         R' = R \/ R' = Idle \/ (R # Idle /\ R'.rows = R.rows), Queued \subseteq Queued'
  PROVE  GraphCatchesUp'
<1> SUFFICES ASSUME "overtaken" \notin lost' PROVE FollowsLedger'
  BY DEF GraphCatchesUp, FollowsLedger
<1>1. OldRowsAreQueued /\ RebuildIsFresh /\ NodesAreRight /\ DebtsAreThere
  BY DEF GraphCatchesUp
<1>2. \A keys, d : Fresh(keys, d)' = Fresh(keys, d)
  BY DEF Fresh
<1>3. OldRowsAreQueued'
  BY <1>1, <1>2 DEF OldRowsAreQueued
<1>4. RebuildIsFresh'
  BY <1>1 DEF RebuildIsFresh
<1>5. \A d : Wanted(d)' = Wanted(d)
  BY DEF Wanted
<1>6. NodesAreRight'
  BY <1>1, <1>5 DEF NodesAreRight
<1>7. DebtsAreThere'
  BY <1>1 DEF DebtsAreThere
<1> QED BY <1>3, <1>4, <1>6, <1>7 DEF FollowsLedger

LEMMA LedgerKeepsGraph ==
  ASSUME Typed, GraphCatchesUp, NEW d \in Debts, NEW e \in Entry, NEW keys \in SUBSET Parties, Changes(d, e, keys)
  PROVE  GraphCatchesUp'
<1> SUFFICES ASSUME "overtaken" \notin lost' PROVE FollowsLedger'
  BY DEF GraphCatchesUp, FollowsLedger
<1>1. /\ entries' = [entries EXCEPT ![d] = e] /\ UNCHANGED <<today, nodes, promises, sync, curating, hand>>
      /\ e.state # "none" /\ (Live(e) => e.party \in keys) /\ (Live(entries[d]) => entries[d].party \in keys)
      /\ "overtaken" \notin lost /\ R = Idle
  BY DEF Changes, Change, graph, busy, R
<1>2. OldRowsAreQueued /\ NodesAreRight /\ DebtsAreThere /\ TypeOK /\ RowsWereRead /\ W' = W /\ R' = R
  BY <1>1 DEF GraphCatchesUp, Typed, W, R
<1>3. Queued \subseteq Queued' /\ keys \subseteq Queued'
  <2>1. PICK j : j = NewJob("ledger_changed", keys, <<>>)
    OBVIOUS
  <2>2. Joins(j) /\ j.keys = keys
    BY <1>2, <2>1, ChangeJoins
  <2> QED BY <1>1, <2>2, JoinQueues
<1>4. \A c \in Debts : entries'[c] = IF c = d THEN e ELSE entries[c]
  BY <1>1, <1>2 DEF TypeOK
<1>5. \A c \in Debts : IsDebt(entries[c]) => Live(entries[c])
  BY EntriesAre
<1>6. IsDebt(e) => Live(e)
  BY EntriesAre
<1>7. OldRowsAreQueued'
  <2> SUFFICES ASSUME W.at = "upsert", NEW c \in Debts, W.rows[c] # Fresh(W.keys, c)'
               PROVE  /\ Live(entries'[c]) => entries'[c].party \in Queued'
                      /\ W.rows[c] # NoEntry => W.rows[c].party \in Queued'
    BY <1>2 DEF OldRowsAreQueued
  <2>1. CASE c # d
    <3>1. entries'[c] = entries[c]
      BY <1>4, <2>1
    <3>2. W.rows[c] # Fresh(W.keys, c)
      BY <1>1, <1>2, <3>1 DEF Fresh
    <3> QED BY <1>2, <1>3, <3>1, <3>2 DEF OldRowsAreQueued
  <2>2. CASE c = d
    <3>1. Live(entries'[c]) => entries'[c].party \in Queued'
      BY <1>1, <1>3, <1>4, <2>2
    <3>2. CASE W.rows[d] # Fresh(W.keys, d)
      BY <1>2, <1>3, <2>2, <3>1, <3>2 DEF OldRowsAreQueued
    <3>3. CASE W.rows[d] = Fresh(W.keys, d)
      BY <1>1, <1>3, <2>2, <3>1, <3>3, FreshIs
    <3> QED BY <2>2, <3>2, <3>3
  <2> QED BY <2>1, <2>2
<1>8. RebuildIsFresh'
  BY <1>1, <1>2 DEF RebuildIsFresh
<1>9. NodesAreRight'
  <2> SUFFICES ASSUME NEW c \in Debts
               PROVE  \/ nodes[c] = Wanted(c)'
                      \/ nodes[c].party \in Queued' \cup {NoParty}
                      \/ W.at = "upsert" /\ nodes[c].party \in W.keys /\ (IsDebt(W.rows[c]) => W.rows[c].party \in W.left)
    BY <1>1, <1>2 DEF NodesAreRight
  <2>1. CASE c # d
    <3>1. Wanted(c)' = Wanted(c)
      BY <1>4, <2>1 DEF Wanted
    <3> QED BY <1>2, <1>3, <3>1 DEF NodesAreRight
  <2>2. CASE c = d
    <3>1. nodes[c] = Wanted(c) => nodes[c].party = NoParty \/ nodes[c].party \in keys
      <4>1. entries[c] \in Entry
        BY <1>2, EntryIs
      <4> QED BY <1>1, <1>5, <2>2, <4>1, MirrorsAre DEF Wanted
    <3> QED BY <1>2, <1>3, <3>1 DEF NodesAreRight
  <2> QED BY <2>1, <2>2
<1>10. DebtsAreThere'
  <2> SUFFICES ASSUME NEW c \in Debts, IsDebt(entries'[c])
               PROVE  \/ nodes[c] = Mirrored(entries'[c])
                      \/ entries'[c].party \in Queued'
                      \/ W.at = "upsert" /\ W.rows[c] = entries'[c] /\ entries'[c].party \in W.left
    BY <1>1, <1>2 DEF DebtsAreThere
  <2>1. CASE c # d
    BY <1>2, <1>3, <1>4, <2>1 DEF DebtsAreThere
  <2>2. CASE c = d
    BY <1>1, <1>3, <1>4, <1>6, <2>2
  <2> QED BY <2>1, <2>2
<1> QED BY <1>7, <1>8, <1>9, <1>10 DEF FollowsLedger

LEMMA TakeKeepsGraph ==
  ASSUME Typed, GraphCatchesUp, Take
  PROVE  GraphCatchesUp'
<1>0. TypeOK /\ sync \in [Syncers -> Sync] /\ "worker" \in Syncers /\ HandHoldsAJob /\ JobsAreOrderly
  BY DEF Typed, TypeOK, Syncers
<1>1. hand = NoJob /\ hand' \in DOMAIN jobs /\ UNCHANGED <<ledger, jobs, graph, verdicts, lost, bounds>> /\ W = Idle /\ W.at = "idle"
  BY <1>0, TakeIs, IdleIs DEF HandHoldsAJob
<1>2. Queued \subseteq Queued' \cup jobs[hand'].keys
  BY TakeQueues
<1>3. CASE jobs[hand'].kind = "ledger_changed" /\ sync' = [sync EXCEPT !["worker"] = Snapshot(jobs[hand'].keys)]
  <2> SUFFICES ASSUME "overtaken" \notin lost' PROVE FollowsLedger'
    BY DEF GraphCatchesUp, FollowsLedger
  <2>1. PICK keys \in SUBSET Parties : keys = jobs[hand'].keys
    BY <1>0, <1>1, JobIs
  <2>2. W' = Snapshot(keys) /\ R' = R /\ entries' = entries /\ nodes' = nodes /\ lost' = lost
    BY <1>0, <1>1, <1>3, <2>1, SyncGoes DEF ledger, graph
  <2>3. RebuildIsFresh /\ NodesAreRight /\ DebtsAreThere
    BY <2>2 DEF GraphCatchesUp
  <2>4. /\ W'.at = "upsert" /\ W'.keys = keys
        /\ \A d \in Debts : W'.rows[d] = Fresh(keys, d)
        /\ \A d \in Debts : Live(entries[d]) /\ entries[d].party \in keys => W'.rows[d] = entries[d]
        /\ \A d \in Debts : W'.rows[d] # NoEntry => W'.rows[d].party \in W'.left
    <3>1. \A d \in Debts : Live(entries[d]) /\ entries[d].party \in keys => Fresh(keys, d) = entries[d]
      BY FreshIs
    <3>2. \A d \in Debts : Fresh(keys, d) # NoEntry => Fresh(keys, d) = entries[d] /\ entries[d].party \in Snapshot(keys).left
      BY <1>0, SnapshotIs
    <3> QED BY <1>0, <2>2, <3>1, <3>2, SnapshotIs
  <2>5. OldRowsAreQueued'
    <3>1. \A d : Fresh(keys, d)' = Fresh(keys, d)
      BY <2>2 DEF Fresh
    <3> QED BY <2>4, <3>1 DEF OldRowsAreQueued
  <2>6. RebuildIsFresh'
    BY <2>2, <2>3 DEF RebuildIsFresh
  <2>7. NodesAreRight'
    <3>1. \A d : Wanted(d)' = Wanted(d)
      BY <2>2 DEF Wanted
    <3>2. \A d \in Debts : IsDebt(W'.rows[d]) => W'.rows[d].party \in W'.left
      BY <2>4, EntriesAre
    <3>3. \A d \in Debts : nodes[d] = Wanted(d) \/ nodes[d].party \in Queued \cup {NoParty}
      BY <1>1, <2>3 DEF NodesAreRight
    <3> QED BY <1>2, <2>1, <2>2, <2>4, <3>1, <3>2, <3>3 DEF NodesAreRight
  <2>8. DebtsAreThere'
    <3> SUFFICES ASSUME NEW d \in Debts, IsDebt(entries[d])
                 PROVE  \/ nodes[d] = Mirrored(entries[d]) \/ entries[d].party \in Queued'
                        \/ W'.at = "upsert" /\ W'.rows[d] = entries[d] /\ entries[d].party \in W'.left
      BY <2>2 DEF DebtsAreThere
    <3>1. nodes[d] = Mirrored(entries[d]) \/ entries[d].party \in Queued
      BY <1>1, <2>3 DEF DebtsAreThere
    <3>2. CASE entries[d].party \in keys
      <4>1. W'.rows[d] = entries[d] /\ entries[d] # NoEntry
        BY <2>4, <3>2, EntriesAre
      <4> QED BY <2>4, <4>1
    <3> QED BY <1>2, <2>1, <3>1, <3>2
  <2> QED BY <2>5, <2>6, <2>7, <2>8 DEF FollowsLedger
<1>4. CASE jobs[hand'].kind = "curate" /\ sync' = [sync EXCEPT !["worker"] = At(sync["worker"], "curate")]
  <2>1. W'.at = "curate" /\ R' = R
    BY <1>0, <1>4, PlaceIs
  <2>2. jobs[hand'].keys = {}
    BY <1>0, <1>1, <1>4 DEF JobsAreOrderly
  <2> QED BY <1>1, <1>2, <2>1, <2>2, QuietKeepsGraph DEF ledger, graph
<1> QED BY <1>0, <1>3, <1>4, TakeIs

LEMMA StartRebuildKeepsGraph ==
  ASSUME Typed, GraphCatchesUp, StartRebuild
  PROVE  GraphCatchesUp'
<1> SUFFICES ASSUME "overtaken" \notin lost' PROVE FollowsLedger'
  BY DEF GraphCatchesUp, FollowsLedger
<1>0. TypeOK /\ sync \in [Syncers -> Sync] /\ "rebuild" \in Syncers /\ PeopleAreNamed
  BY DEF Typed, TypeOK, Syncers
<1>1. /\ sync' = [sync EXCEPT !["rebuild"] = Snapshot(KeysOf(entries))]
      /\ UNCHANGED <<entries, jobs, nodes, curating, hand, lost>>
  BY DEF StartRebuild, ledger, graph
<1>2. KeysOf(entries) \in SUBSET Parties /\ \A d \in Debts : Live(entries[d]) => entries[d].party \in KeysOf(entries)
  BY <1>0 DEF KeysOf, PeopleAreNamed
<1>3. R' = Snapshot(KeysOf(entries)) /\ W' = W /\ Queued' = Queued
  <2>1. Queued' = Queued
    BY <1>1 DEF Queued
  <2> QED BY <1>0, <1>1, <2>1, SyncGoes
<1>4. OldRowsAreQueued /\ NodesAreRight /\ DebtsAreThere
  BY <1>1 DEF GraphCatchesUp
<1>5. RebuildIsFresh'
  <2>1. \A d \in Debts : R'.rows[d] = Fresh(KeysOf(entries), d)
    BY <1>0, <1>2, <1>3, SnapshotIs
  <2> QED BY <1>1, <1>2, <2>1 DEF RebuildIsFresh, Fresh
<1>6. OldRowsAreQueued'
  <2>1. \A keys, d : Fresh(keys, d)' = Fresh(keys, d)
    BY <1>1 DEF Fresh
  <2> QED BY <1>1, <1>3, <1>4, <2>1 DEF OldRowsAreQueued
<1>7. NodesAreRight'
  <2>1. \A d : Wanted(d)' = Wanted(d)
    BY <1>1 DEF Wanted
  <2> QED BY <1>1, <1>3, <1>4, <2>1 DEF NodesAreRight
<1>8. DebtsAreThere'
  BY <1>1, <1>3, <1>4 DEF DebtsAreThere
<1> QED BY <1>5, <1>6, <1>7, <1>8 DEF FollowsLedger

LEMMA SameQueue ==
  ASSUME jobs' = jobs, hand' = hand
  PROVE  Queued' = Queued
  BY DEF Queued

LEMMA UpsertKeepsGraph ==
  ASSUME Typed, GraphCatchesUp, NEW s \in Syncers, NEW p \in Parties, Upsert(s, p)
  PROVE  GraphCatchesUp'
<1> SUFFICES ASSUME "overtaken" \notin lost' PROVE FollowsLedger'
  BY DEF GraphCatchesUp, FollowsLedger
<1>0. TypeOK /\ sync \in [Syncers -> Sync] /\ RowsWereRead
  BY DEF Typed, TypeOK
<1> PICK X \in Sync : /\ sync' = [sync EXCEPT ![s] = X] /\ X.at = "upsert" /\ X.left = sync[s].left \ {p}
                      /\ X.keys = sync[s].keys /\ X.rows = sync[s].rows
  BY <1>0, UpsertIs
<1>1. /\ sync[s].at = "upsert"
      /\ \A d \in Debts : nodes'[d] = IF IsDebt(sync[s].rows[d]) /\ sync[s].rows[d].party = p
                                      THEN Mirrored(sync[s].rows[d]) ELSE nodes[d]
      /\ entries' = entries /\ jobs' = jobs /\ hand' = hand /\ lost' = lost
  BY <1>0, UpsertIs DEF ledger
<1>2. Queued' = Queued /\ OldRowsAreQueued /\ RebuildIsFresh /\ NodesAreRight /\ DebtsAreThere
  BY <1>1, SameQueue DEF GraphCatchesUp
<1>3. (\A keys, d : Fresh(keys, d)' = Fresh(keys, d)) /\ (\A d : Wanted(d)' = Wanted(d))
  BY <1>1 DEF Fresh, Wanted
<1>4. \A d \in Debts : sync[s].rows[d] \in Entry
  BY <1>0 DEF Sync
<1>5. \A d \in Debts : Mirrored(sync[s].rows[d]).party = sync[s].rows[d].party
  BY <1>4, MirrorsAre
<1>6. CASE s = "worker"
  <2>1. W' = X /\ R' = R /\ W = sync[s]
    BY <1>0, <1>6, SyncGoes DEF W
  <2>2. OldRowsAreQueued' /\ RebuildIsFresh'
    BY <1>1, <1>2, <1>3, <2>1 DEF OldRowsAreQueued, RebuildIsFresh
  <2>3. \A d \in Debts : IsDebt(W.rows[d]) =>
          \/ W.rows[d] = entries[d]
          \/ W.rows[d].party \in Queued /\ (Live(entries[d]) => entries[d].party \in Queued)
    <3> SUFFICES ASSUME NEW d \in Debts, IsDebt(W.rows[d])
                 PROVE  \/ W.rows[d] = entries[d]
                        \/ W.rows[d].party \in Queued /\ (Live(entries[d]) => entries[d].party \in Queued)
      OBVIOUS
    <3>1. W.rows[d] # NoEntry
      BY EntriesAre
    <3>2. W.rows[d] = Fresh(W.keys, d) => W.rows[d] = entries[d]
      BY <3>1, FreshIs
    <3> QED BY <1>1, <1>2, <2>1, <3>1, <3>2 DEF OldRowsAreQueued
  <2>4. NodesAreRight'
    <3> SUFFICES ASSUME NEW d \in Debts
                 PROVE  \/ nodes'[d] = Wanted(d)
                        \/ nodes'[d].party \in Queued \cup {NoParty}
                        \/ W'.at = "upsert" /\ nodes'[d].party \in W'.keys /\ (IsDebt(W'.rows[d]) => W'.rows[d].party \in W'.left)
      BY <1>2, <1>3 DEF NodesAreRight
    <3>1. CASE IsDebt(W.rows[d]) /\ W.rows[d].party = p
      <4>1. nodes'[d] = Mirrored(W.rows[d]) /\ nodes'[d].party = W.rows[d].party
        BY <1>1, <1>5, <2>1, <3>1
      <4>2. W.rows[d] = entries[d] => nodes'[d] = Wanted(d)
        BY <3>1, <4>1 DEF Wanted
      <4> QED BY <2>3, <3>1, <4>1, <4>2
    <3>2. CASE ~(IsDebt(W.rows[d]) /\ W.rows[d].party = p)
      <4>1. nodes'[d] = nodes[d]
        BY <1>1, <2>1, <3>2
      <4> QED BY <1>2, <2>1, <3>2, <4>1 DEF NodesAreRight
    <3> QED BY <3>1, <3>2
  <2>5. DebtsAreThere'
    <3> SUFFICES ASSUME NEW d \in Debts, IsDebt(entries[d])
                 PROVE  \/ nodes'[d] = Mirrored(entries[d])
                        \/ entries[d].party \in Queued
                        \/ W'.at = "upsert" /\ W'.rows[d] = entries[d] /\ entries[d].party \in W'.left
      BY <1>1, <1>2 DEF DebtsAreThere
    <3>1. CASE IsDebt(W.rows[d]) /\ W.rows[d].party = p
      <4>1. nodes'[d] = Mirrored(W.rows[d]) /\ Live(entries[d])
        BY <1>1, <2>1, <3>1, EntriesAre
      <4> QED BY <2>3, <3>1, <4>1
    <3>2. CASE ~(IsDebt(W.rows[d]) /\ W.rows[d].party = p)
      <4>1. nodes'[d] = nodes[d]
        BY <1>1, <2>1, <3>2
      <4> QED BY <1>2, <2>1, <3>2, <4>1 DEF DebtsAreThere
    <3> QED BY <3>1, <3>2
  <2> QED BY <2>2, <2>4, <2>5 DEF FollowsLedger
<1>7. CASE s = "rebuild"
  <2>1. R' = X /\ W' = W /\ R = sync[s] /\ R # Idle /\ R' # Idle
    BY <1>0, <1>1, <1>7, SyncGoes, IdleIs DEF R
  <2>2. OldRowsAreQueued' /\ RebuildIsFresh'
    BY <1>1, <1>2, <1>3, <2>1 DEF OldRowsAreQueued, RebuildIsFresh
  <2>3. \A d \in Debts : IsDebt(R.rows[d]) => R.rows[d] = entries[d]
    BY <1>2, <2>1, EntriesAre DEF RebuildIsFresh
  <2>4. \A d \in Debts : nodes'[d] = nodes[d] \/ (IsDebt(entries[d]) /\ nodes'[d] = Mirrored(entries[d]))
    BY <1>1, <2>1, <2>3
  <2>5. NodesAreRight'
    <3>1. \A d \in Debts : nodes'[d] = nodes[d] \/ nodes'[d] = Wanted(d)
      BY <2>4 DEF Wanted
    <3> QED BY <1>2, <1>3, <2>1, <3>1 DEF NodesAreRight
  <2>6. DebtsAreThere'
    <3>1. \A d \in Debts : nodes'[d] = nodes[d] \/ nodes'[d] = Mirrored(entries[d])
      BY <2>4
    <3> QED BY <1>1, <1>2, <2>1, <3>1 DEF DebtsAreThere
  <2> QED BY <2>2, <2>5, <2>6 DEF FollowsLedger
<1> QED BY <1>6, <1>7 DEF Syncers

LEMMA CleanUpKeepsGraph ==
  ASSUME Typed, GraphCatchesUp, RemoveStale("worker")
  PROVE  GraphCatchesUp'
<1> SUFFICES ASSUME "overtaken" \notin lost' PROVE FollowsLedger'
  BY DEF GraphCatchesUp, FollowsLedger
<1>0. TypeOK /\ sync \in [Syncers -> Sync] /\ "worker" \in Syncers
  BY DEF Typed, TypeOK, Syncers
<1>1. /\ W.at = "upsert" /\ W.left = {} /\ W'.at = "stale" /\ R' = R
      /\ entries' = entries /\ jobs' = jobs /\ hand' = hand /\ lost' = lost
  BY <1>0, RemoveStaleIs, PlaceIs DEF W, ledger
<1>2. Queued' = Queued /\ OldRowsAreQueued /\ RebuildIsFresh /\ NodesAreRight /\ DebtsAreThere
  BY <1>1, SameQueue DEF GraphCatchesUp
<1>3. \A d \in Debts : nodes'[d] = IF nodes[d].party \in W.keys /\ ~IsDebt(W.rows[d]) THEN NoNode ELSE nodes[d]
  <2>1. PICK doomed : doomed = {d \in Debts : nodes[d].party \in W.keys} \ Alive("worker")
    OBVIOUS
  <2>2. Delete(doomed)
    BY <1>0, <2>1, RemoveStaleIs DEF W
  <2>3. \A d \in Debts : d \in doomed <=> nodes[d].party \in W.keys /\ ~IsDebt(W.rows[d])
    BY <2>1 DEF Alive, W
  <2> QED BY <1>0, <2>2, <2>3, DeleteIs
<1>4. OldRowsAreQueued' /\ RebuildIsFresh'
  BY <1>1, <1>2 DEF OldRowsAreQueued, RebuildIsFresh
<1>5. NodesAreRight'
  <2> SUFFICES ASSUME NEW d \in Debts PROVE nodes'[d] = Wanted(d) \/ nodes'[d].party \in Queued \cup {NoParty}
    <3>1. \A d : Wanted(d)' = Wanted(d)
      BY <1>1 DEF Wanted
    <3> QED BY <1>2, <3>1 DEF NodesAreRight
  <2>1. CASE nodes[d].party \in W.keys /\ ~IsDebt(W.rows[d])
    BY <1>3, <2>1, MirrorsAre
  <2>2. CASE ~(nodes[d].party \in W.keys /\ ~IsDebt(W.rows[d]))
    BY <1>1, <1>2, <1>3, <2>2 DEF NodesAreRight
  <2> QED BY <2>1, <2>2
<1>6. DebtsAreThere'
  <2> SUFFICES ASSUME NEW d \in Debts, IsDebt(entries[d]) PROVE nodes'[d] = Mirrored(entries[d]) \/ entries[d].party \in Queued
    BY <1>1, <1>2 DEF DebtsAreThere
  <2>1. nodes[d] = Mirrored(entries[d]) \/ entries[d].party \in Queued
    BY <1>1, <1>2 DEF DebtsAreThere
  <2>2. CASE nodes[d] = Mirrored(entries[d]) /\ nodes[d].party \in W.keys /\ ~IsDebt(W.rows[d])
    <3>1. entries[d].party \in W.keys /\ Live(entries[d])
      BY <1>0, <2>2, EntryIs, MirrorsAre, EntriesAre
    <3>2. Fresh(W.keys, d) = entries[d]
      BY <3>1, FreshIs
    <3>3. W.rows[d] # Fresh(W.keys, d)
      BY <2>2, <3>2
    <3> QED BY <1>1, <1>2, <3>1, <3>3 DEF OldRowsAreQueued
  <2> QED BY <1>3, <2>1, <2>2
<1> QED BY <1>4, <1>5, <1>6 DEF FollowsLedger

\* What a rebuild removes the ledger does not want.
LEMMA RebuildDeletes ==
  ASSUME Typed, GraphCatchesUp, R # Idle, NEW doomed, Delete(doomed), \A d \in doomed : ~IsDebt(R.rows[d]), doomed \subseteq Debts,
         W' = W, R' = Idle \/ R'.rows = R.rows, UNCHANGED <<entries, jobs, hand, lost>>
  PROVE  GraphCatchesUp'
<1> SUFFICES ASSUME "overtaken" \notin lost' PROVE FollowsLedger'
  BY DEF GraphCatchesUp, FollowsLedger
<1>1. Queued' = Queued /\ OldRowsAreQueued /\ RebuildIsFresh /\ NodesAreRight /\ DebtsAreThere /\ TypeOK
  BY SameQueue DEF GraphCatchesUp, Typed
<1>2. \A d \in doomed : ~IsDebt(entries[d])
  BY <1>1, EntriesAre DEF RebuildIsFresh
<1>3. \A d \in Debts : nodes'[d] = nodes[d] \/ (~IsDebt(entries[d]) /\ nodes'[d] = NoNode)
  BY <1>1, <1>2, DeleteIs
<1>4. \A d \in Debts : nodes'[d] = nodes[d] \/ nodes'[d] = Wanted(d)
  BY <1>3 DEF Wanted
<1>5. (\A keys, d : Fresh(keys, d)' = Fresh(keys, d)) /\ (\A d : Wanted(d)' = Wanted(d))
  BY DEF Fresh, Wanted
<1>6. OldRowsAreQueued'
  BY <1>1, <1>5 DEF OldRowsAreQueued
<1>7. RebuildIsFresh'
  BY <1>1 DEF RebuildIsFresh
<1>8. NodesAreRight'
  BY <1>1, <1>4, <1>5 DEF NodesAreRight
<1>9. DebtsAreThere'
  BY <1>1, <1>3 DEF DebtsAreThere
<1> QED BY <1>6, <1>7, <1>8, <1>9 DEF FollowsLedger

LEMMA StopKeepsGraph ==
  ASSUME Typed, GraphCatchesUp, StopSync("worker")
  PROVE  GraphCatchesUp'
<1> SUFFICES ASSUME "overtaken" \notin lost' PROVE FollowsLedger'
  BY DEF GraphCatchesUp, FollowsLedger
<1>0. TypeOK /\ sync \in [Syncers -> Sync] /\ "worker" \in Syncers /\ HandHoldsAJob /\ RowsWereRead
  BY DEF Typed, TypeOK, Syncers
<1>1. /\ W'.at = "idle" /\ R' = R /\ entries' = entries /\ nodes' = nodes /\ SameJobs
      /\ hand' = NoJob /\ hand \in DOMAIN jobs /\ "overtaken" \notin lost
  BY <1>0, StopIs, SyncGoes, IdleIs DEF ledger, graph
<1>2. Queued \subseteq Queued' /\ jobs[hand].keys \subseteq Queued'
  BY <1>1, StopQueues
<1>3. W.at = "upsert" => W.keys \subseteq Queued' /\ W.left \subseteq Queued'
  BY <1>0, <1>2 DEF HandHoldsAJob, RowsWereRead, W
<1>4. OldRowsAreQueued /\ RebuildIsFresh /\ NodesAreRight /\ DebtsAreThere
  BY <1>1 DEF GraphCatchesUp
<1>5. OldRowsAreQueued' /\ RebuildIsFresh'
  BY <1>1, <1>4 DEF OldRowsAreQueued, RebuildIsFresh
<1>6. NodesAreRight'
  <2>1. \A d : Wanted(d)' = Wanted(d)
    BY <1>1 DEF Wanted
  <2> QED BY <1>1, <1>2, <1>3, <1>4, <2>1 DEF NodesAreRight
<1>7. DebtsAreThere'
  BY <1>1, <1>2, <1>3, <1>4 DEF DebtsAreThere
<1> QED BY <1>5, <1>6, <1>7 DEF FollowsLedger

LEMMA GraphKept ==
  ASSUME Typed, GraphCatchesUp, [Next]_vars
  PROVE  GraphCatchesUp'
<1>0. TypeOK /\ PeopleAreNamed /\ HandHoldsAJob /\ JobsAreOrderly /\ sync \in [Syncers -> Sync] /\ Len(promises) <= MaxPromises
      /\ "worker" \in Syncers /\ "rebuild" \in Syncers
  BY DEF Typed, TypeOK, Syncers
<1>1. CASE LedgerStep
  BY <1>0, <1>1, LedgerChanges, LedgerKeepsGraph
<1>2. CASE EndTurn
  <2>1. PICK j : j = NewJob("curate", {}, touched)
    OBVIOUS
  <2>2. Joins(j) /\ UNCHANGED <<entries, nodes, sync, hand, lost>>
    BY <1>0, <1>2, <2>1, EndTurnIs DEF graph, busy
  <2>3. Queued \subseteq Queued'
    BY <2>2, JoinQueues
  <2> QED BY <2>2, <2>3, QuietKeepsGraph DEF W, R
<1>3. ASSUME jobs' = jobs, UNCHANGED <<entries, nodes, sync, hand>>, lost \subseteq lost' PROVE GraphCatchesUp'
  <2>1. Queued' = Queued
    BY <1>3, SameQueue
  <2> QED BY <1>3, <2>1, QuietKeepsGraph DEF W, R
<1>4. CASE FailTurn \/ NextDay \/ UNCHANGED vars
  BY <1>3, <1>4 DEF FailTurn, NextDay, vars, ledger, graph, busy
<1>5. CASE SweepStep
  <2>1. ASSUME NEW v, Settle(v) PROVE UNCHANGED <<ledger, jobs, nodes, busy, lost, bounds>>
    BY <1>0, <2>1, SettleIs
  <2>2. ASSUME NEW p, Forget(p) PROVE UNCHANGED <<ledger, jobs, nodes, busy>> /\ lost \subseteq lost'
    BY <2>2 DEF Forget
  <2>3. UNCHANGED <<ledger, jobs, nodes, busy>> /\ lost \subseteq lost'
    BY <1>5, <2>1, <2>2 DEF SweepStep, StartSweep, StopSweep, graph
  <2> QED BY <1>3, <2>3 DEF ledger, busy
<1>6. CASE CurateStep
  <2>1. jobs' = jobs /\ UNCHANGED <<entries, nodes, hand, lost>> /\ R' = R /\ W.at \in {"curate", "replace"} /\ W'.at # "upsert"
    <3>1. CASE CurateSkip
      BY <1>0, <3>1, CurateSkipIs DEF Onward, ledger, graph, W, R
    <3>2. CASE CurateRead
      BY <1>0, <3>2, CurateReadIs, PlaceIs DEF ledger, graph
    <3>3. CASE AddPromise
      <4>1. /\ Onward("replace") /\ sync' = [sync EXCEPT !["worker"] = At(sync["worker"], "curate")]
            /\ UNCHANGED <<ledger, jobs, nodes, hand, verdicts, lost, bounds>>
        BY <3>3, AddPromiseIs
      <4>2. W'.at = "curate" /\ R' = R
        BY <1>0, <4>1, PlaceIs
      <4> QED BY <4>1, <4>2 DEF Onward, ledger
    <3>4. ASSUME NEW i \in Ids, CloseOld(i)
          PROVE  jobs' = jobs /\ UNCHANGED <<entries, nodes, hand, lost>> /\ R' = R /\ W.at \in {"curate", "replace"} /\ W'.at # "upsert"
      <4>1. W.at = "replace" /\ UNCHANGED <<ledger, jobs, nodes, sync, hand, verdicts, lost, bounds>>
        BY <1>0, <3>4, CloseOldIs
      <4> QED BY <4>1 DEF ledger, W, R
    <3> QED BY <1>6, <3>1, <3>2, <3>3, <3>4 DEF CurateStep
  <2>2. Queued' = Queued
    BY <2>1, SameQueue
  <2> QED BY <2>1, <2>2, QuietKeepsGraph
<1>7. CASE Finish
  <2>1. /\ W.at \in {"done", "curate"} /\ sync' = [sync EXCEPT !["worker"] = Idle] /\ UNCHANGED <<entries, nodes, lost>>
    BY <1>7, FinishIs DEF Typed, ledger, graph
  <2>2. W' = Idle /\ R' = R
    BY <1>0, <2>1, SyncGoes
  <2> QED BY <1>7, <2>1, <2>2, FinishQueues, QuietKeepsGraph, IdleIs
<1>8. CASE Prune
  <2>1. /\ R.at = "prune" /\ Delete(Debts \ Alive("rebuild")) /\ sync' = [sync EXCEPT !["rebuild"] = Idle]
        /\ UNCHANGED <<entries, jobs, hand, lost>>
    BY <1>8 DEF Prune, ledger, R
  <2>2. R # Idle /\ W' = W /\ R' = Idle
    BY <1>0, <2>1, SyncGoes, IdleIs
  <2>3. \A d \in Debts \ Alive("rebuild") : ~IsDebt(R.rows[d])
    BY DEF Alive, R
  <2> QED BY <2>1, <2>2, <2>3, RebuildDeletes
<1>9. CASE RemoveStale("rebuild")
  <2>1. PICK doomed : doomed = {d \in Debts : nodes[d].party \in R.keys} \ Alive("rebuild")
    OBVIOUS
  <2>2. /\ R.at = "upsert" /\ Delete(doomed) /\ sync' = [sync EXCEPT !["rebuild"] = At(sync["rebuild"], "stale")]
        /\ UNCHANGED <<entries, jobs, hand, lost>>
    BY <1>0, <1>9, <2>1, RemoveStaleIs DEF ledger, R
  <2>3. R # Idle /\ W' = W /\ R'.rows = R.rows
    BY <1>0, <2>2, PlaceIs, IdleIs
  <2>4. doomed \subseteq Debts /\ \A d \in doomed : ~IsDebt(R.rows[d])
    BY <2>1 DEF Alive, R
  <2> QED BY <2>2, <2>3, <2>4, RebuildDeletes
<1>10. CASE RemoveStale("worker")
  BY <1>10, CleanUpKeepsGraph
<1>11. ASSUME NEW s \in Syncers, MarkKept(s) PROVE GraphCatchesUp'
  <2>1. /\ sync[s].at = "stale" /\ sync' = [sync EXCEPT ![s] = At(sync[s], IF s = "worker" THEN "done" ELSE "prune")]
        /\ jobs' = jobs /\ UNCHANGED <<entries, nodes, hand, lost>>
    BY <1>0, <1>11, MarkKeptIs DEF ledger
  <2>2. Queued' = Queued
    BY <2>1, SameQueue
  <2>3. CASE s = "worker"
    <3>1. W.at = "stale" /\ W'.at = "done" /\ R' = R
      BY <1>0, <2>1, <2>3, PlaceIs DEF W
    <3> QED BY <2>1, <2>2, <3>1, QuietKeepsGraph
  <2>4. CASE s = "rebuild"
    <3>1. R.at = "stale" /\ R'.rows = R.rows /\ W' = W
      BY <1>0, <2>1, <2>4, PlaceIs DEF R
    <3>2. R # Idle
      BY <3>1, IdleIs
    <3> QED BY <2>1, <2>2, <3>1, <3>2, QuietKeepsGraph
  <2> QED BY <2>3, <2>4 DEF Syncers
<1>12. CASE StopSync("rebuild")
  <2>1. sync' = [sync EXCEPT !["rebuild"] = Idle] /\ jobs' = jobs /\ UNCHANGED <<entries, nodes, hand, lost>>
    BY <1>12 DEF StopSync, ledger, graph
  <2>2. W' = W /\ R' = Idle /\ Queued' = Queued
    BY <1>0, <2>1, SyncGoes, SameQueue
  <2> QED BY <2>1, <2>2, QuietKeepsGraph
<1>13. ASSUME NEW i, Requeue(i) PROVE GraphCatchesUp'
  <2>1. SameJobs /\ UNCHANGED <<entries, nodes, sync, hand, lost>>
    BY <1>0, <1>13, RequeueIs DEF ledger, graph, busy
  <2>2. Queued \subseteq Queued'
    BY <2>1, StopQueues
  <2> QED BY <2>1, <2>2, QuietKeepsGraph DEF W, R
<1>14. CASE SyncStep
  BY <1>7, <1>8, <1>9, <1>10, <1>11, <1>12, <1>13, <1>14, TakeKeepsGraph, StartRebuildKeepsGraph, UpsertKeepsGraph, StopKeepsGraph
     DEF SyncStep, Syncers
<1> QED BY <1>1, <1>2, <1>4, <1>5, <1>6, <1>14 DEF Next, TurnStep

-----------------------------------------------------------------------------
(* What any step does to promises, nodes and rows.                         *)

\* A promise keeps its status, is deleted, or gets the outcome its debt, a verdict or a
\* curation that read it open has for it.
PromiseGoes(i) ==
  \/ promises'[i].status \in {promises[i].status, "gone"}
  \/ /\ promises[i].status = "open" /\ promises'[i].status = "kept"
     /\ nodes[promises[i].debt].paid # NoDay /\ nodes[promises[i].debt].paid <= promises[i].due
  \/ \E v \in verdicts : v.id = i /\ promises'[i].status = v.status
  \/ /\ W.at = "replace" /\ i \in curating.old
     /\ promises'[i].status = "replaced" \/ (promises'[i].status = "broken" /\ promises[i].due < jobs[hand].on)

PromisesGo == Alike /\ \A i \in DOMAIN promises : PromiseGoes(i)

RowGoes(s, d) ==
  \/ sync'[s].rows[d] \in {sync[s].rows[d], NoEntry}
  \/ sync'[s].rows[d] = entries[d] /\ Live(entries[d])

NodeGoes(d) == nodes'[d] \in {nodes[d], NoNode} \/ \E s \in Syncers : nodes'[d] = Mirrored(sync[s].rows[d])

\* A replacement has just read the open promises, or goes on closing those it read.
ReplaceGoes ==
  W'.at = "replace" =>
    \/ CurateRead
    \/ /\ W.at = "replace" /\ curating'.left = curating.left
       /\ \A i \in curating.old : i \in curating'.old \/ i \notin DOMAIN promises \/ promises'[i].status # "open"

Goes ==
  /\ AddPromise \/ PromisesGo
  /\ \A s \in Syncers, d \in Debts : RowGoes(s, d)
  /\ \A d \in Debts : NodeGoes(d)
  /\ ReplaceGoes

LEMMA StillAlike ==
  ASSUME TypeOK, promises' = promises
  PROVE  PromisesGo
  BY DEF TypeOK, Alike, PromisesGo, PromiseGoes

\* A status written to a promise, if there is one of that id.
LEMMA SetStatusAny ==
  ASSUME TypeOK, NEW i, NEW st \in {"kept", "broken", "replaced"}, SetStatus(i, st)
  PROVE  /\ Alike
         /\ \A j \in DOMAIN promises : j # i => promises'[j] = promises[j]
         /\ i \in DOMAIN promises => promises'[i].status = IF promises[i].status = "gone" THEN "gone" ELSE st
<1>1. CASE i \in DOMAIN promises
  BY <1>1, SetStatusIs
<1>2. CASE i \notin DOMAIN promises
  <2>1. promises' = promises
    BY <1>2 DEF SetStatus, TypeOK
  <2> QED BY <1>2, <2>1, StillAlike DEF PromisesGo
<1> QED BY <1>1, <1>2

LEMMA StillGoes ==
  ASSUME TypeOK, UNCHANGED <<promises, nodes, sync, curating>>
  PROVE  Goes
<1>1. PromisesGo
  BY StillAlike
<1>2. (\A s \in Syncers, d \in Debts : RowGoes(s, d)) /\ (\A d \in Debts : NodeGoes(d))
  BY DEF RowGoes, NodeGoes
<1>3. ReplaceGoes
  BY DEF ReplaceGoes, W
<1> QED BY <1>1, <1>2, <1>3 DEF Goes

LEMMA TurnGoes ==
  ASSUME Typed, LedgerStep \/ TurnStep \/ UNCHANGED vars
  PROVE  Goes
<1>0. TypeOK /\ PeopleAreNamed
  BY DEF Typed
<1>1. CASE LedgerStep
  <2>1. PICK d \in Debts, e \in Entry, keys \in SUBSET Parties : Changes(d, e, keys)
    BY <1>0, <1>1, LedgerChanges
  <2>2. UNCHANGED <<promises, nodes, sync, curating>>
    BY <2>1 DEF Changes, Change, graph, busy
  <2> QED BY <1>0, <2>2, StillGoes
<1>2. CASE TurnStep \/ UNCHANGED vars
  <2>1. UNCHANGED <<promises, nodes, sync, curating>>
    BY <1>2 DEF TurnStep, EndTurn, FailTurn, NextDay, vars, graph, busy
  <2> QED BY <1>0, <2>1, StillGoes
<1> QED BY <1>1, <1>2

\* One sync moves on, to X.
SyncMoves(s, X) == sync' = [sync EXCEPT ![s] = X]

LEMMA MovedRows ==
  ASSUME TypeOK, NEW s \in Syncers, NEW X, SyncMoves(s, X),
         \A d \in Debts : X.rows[d] \in {sync[s].rows[d], NoEntry} \/ (X.rows[d] = entries[d] /\ Live(entries[d]))
  PROVE  \A r \in Syncers, d \in Debts : RowGoes(r, d)
<1>1. sync'[s] = X /\ \A r \in Syncers : r # s => sync'[r] = sync[r]
  BY SyncGoes DEF SyncMoves, TypeOK
<1> QED BY <1>1 DEF RowGoes

LEMMA SnapshotRows ==
  ASSUME TypeOK, NEW keys \in SUBSET Parties, NEW d \in Debts
  PROVE  Snapshot(keys).rows[d] = NoEntry \/ (Snapshot(keys).rows[d] = entries[d] /\ Live(entries[d]))
<1>1. Snapshot(keys).rows[d] = Fresh(keys, d)
  BY SnapshotIs
<1> QED BY <1>1, FreshIs

LEMMA DeleteGoes ==
  ASSUME TypeOK, NEW doomed, Delete(doomed)
  PROVE  PromisesGo /\ \A d \in Debts : NodeGoes(d)
<1>1. PromisesGo
  BY DeleteIs DEF PromisesGo, PromiseGoes
<1>2. \A d \in Debts : NodeGoes(d)
  BY DeleteIs DEF NodeGoes
<1> QED BY <1>1, <1>2

LEMMA SyncStepGoes ==
  ASSUME Typed, SyncStep
  PROVE  Goes
<1>0. TypeOK /\ sync \in [Syncers -> Sync] /\ (\A s \in Syncers : sync[s] \in Sync) /\ "worker" \in Syncers /\ "rebuild" \in Syncers
      /\ PeopleAreNamed
  BY DEF Typed, TypeOK, Syncers
<1>1. CASE Take
  <2>1. hand' \in DOMAIN jobs /\ UNCHANGED <<promises, nodes>>
    BY <1>0, <1>1, TakeIs DEF graph
  <2>2. CASE jobs[hand'].kind = "ledger_changed" /\ sync' = [sync EXCEPT !["worker"] = Snapshot(jobs[hand'].keys)]
    <3>1. PICK keys \in SUBSET Parties : keys = jobs[hand'].keys
      BY <1>0, <2>1, JobIs
    <3>2. SyncMoves("worker", Snapshot(keys))
      BY <2>2, <3>1 DEF SyncMoves
    <3>3. \A s \in Syncers, d \in Debts : RowGoes(s, d)
      BY <1>0, <3>2, SnapshotRows, MovedRows
    <3>4. W'.at # "replace"
      <4>1. W' = Snapshot(keys)
        BY <1>0, <3>2, SyncGoes DEF SyncMoves
      <4> QED BY <1>0, <4>1, SnapshotIs
    <3> QED BY <1>0, <2>1, <3>3, <3>4, StillAlike DEF Goes, NodeGoes, ReplaceGoes
  <2>3. CASE sync' = [sync EXCEPT !["worker"] = At(sync["worker"], "curate")]
    <3>1. SyncMoves("worker", At(sync["worker"], "curate")) /\ At(sync["worker"], "curate").rows = sync["worker"].rows
      BY <1>0, <2>3, AtIs DEF SyncMoves
    <3>2. \A s \in Syncers, d \in Debts : RowGoes(s, d)
      BY <1>0, <3>1, MovedRows
    <3>3. W'.at # "replace"
      BY <1>0, <2>3, PlaceIs
    <3> QED BY <1>0, <2>1, <3>2, <3>3, StillAlike DEF Goes, NodeGoes, ReplaceGoes
  <2> QED BY <1>0, <1>1, <2>2, <2>3, TakeIs
<1>2. ASSUME NEW s \in Syncers, SyncMoves(s, Idle), PromisesGo, \A d \in Debts : NodeGoes(d),
             s = "rebuild" => curating' = curating
      PROVE  Goes
  <2>1. \A r \in Syncers, d \in Debts : RowGoes(r, d)
    BY <1>0, <1>2, IdleIs, MovedRows
  <2>2. ReplaceGoes
    <3>1. (s = "worker" => W' = Idle) /\ (s = "rebuild" => W' = W)
      BY <1>0, <1>2, SyncGoes DEF SyncMoves
    <3>2. CASE s = "worker"
      BY <3>1, <3>2, IdleIs DEF ReplaceGoes
    <3>3. CASE s = "rebuild"
      BY <1>2, <3>1, <3>3 DEF ReplaceGoes
    <3> QED BY <3>2, <3>3 DEF Syncers
  <2> QED BY <1>2, <2>1, <2>2 DEF Goes
<1>3. CASE Finish
  <2>1. SyncMoves("worker", Idle) /\ UNCHANGED <<promises, nodes>>
    BY <1>3, FinishIs DEF SyncMoves, graph
  <2> QED BY <1>0, <1>2, <2>1, StillAlike DEF NodeGoes
<1>4. CASE StopSync("worker")
  <2>1. SyncMoves("worker", Idle) /\ UNCHANGED <<promises, nodes>>
    BY <1>4, StopIs DEF SyncMoves, graph
  <2> QED BY <1>0, <1>2, <2>1, StillAlike DEF NodeGoes
<1>5. CASE StopSync("rebuild")
  <2>1. SyncMoves("rebuild", Idle) /\ UNCHANGED <<promises, nodes, curating>>
    BY <1>5 DEF SyncMoves, graph, StopSync
  <2> QED BY <1>0, <1>2, <2>1, StillAlike DEF NodeGoes
<1>6. CASE Prune
  <2>1. SyncMoves("rebuild", Idle) /\ curating' = curating /\ Delete(Debts \ Alive("rebuild"))
    BY <1>6 DEF SyncMoves, Prune
  <2> QED BY <1>0, <1>2, <2>1, DeleteGoes
<1>7. CASE StartRebuild
  <2>1. KeysOf(entries) \in SUBSET Parties
    BY <1>0 DEF KeysOf, PeopleAreNamed
  <2>2. SyncMoves("rebuild", Snapshot(KeysOf(entries))) /\ UNCHANGED <<promises, nodes, curating>>
    BY <1>7 DEF StartRebuild, SyncMoves, graph
  <2>3. \A s \in Syncers, d \in Debts : RowGoes(s, d)
    <3>1. PICK keys \in SUBSET Parties : keys = KeysOf(entries)
      BY <2>1
    <3>2. SyncMoves("rebuild", Snapshot(keys))
      BY <2>2, <3>1
    <3> QED BY <1>0, <3>2, SnapshotRows, MovedRows
  <2>4. W' = W
    BY <1>0, <2>2, SyncGoes DEF SyncMoves
  <2> QED BY <1>0, <2>2, <2>3, <2>4, StillAlike DEF Goes, NodeGoes, ReplaceGoes
<1>8. ASSUME NEW s \in Syncers, NEW at \in {"stale", "done", "prune"}, SyncMoves(s, At(sync[s], at)), PromisesGo,
             \A d \in Debts : NodeGoes(d), curating' = curating
      PROVE  Goes
  <2>1. At(sync[s], at).rows = sync[s].rows
    BY <1>0, AtIs
  <2>2. \A r \in Syncers, d \in Debts : RowGoes(r, d)
    BY <1>0, <1>8, <2>1, MovedRows
  <2>3. (s = "worker" => W'.at # "replace") /\ (s = "rebuild" => W' = W)
    BY <1>0, <1>8, PlaceIs DEF SyncMoves
  <2>4. ReplaceGoes
    BY <1>8, <2>3 DEF Syncers, ReplaceGoes
  <2> QED BY <1>8, <2>2, <2>4 DEF Goes
<1>9. ASSUME NEW s \in Syncers, RemoveStale(s) PROVE Goes
  <2>1. SyncMoves(s, At(sync[s], "stale")) /\ curating' = curating /\ Delete({d \in Debts : nodes[d].party \in sync[s].keys} \ Alive(s))
    BY <1>0, <1>9, RemoveStaleIs DEF SyncMoves
  <2> QED BY <1>0, <1>8, <2>1, DeleteGoes
<1>10. ASSUME NEW s \in Syncers, MarkKept(s) PROVE Goes
  <2>1. PICK at \in {"stale", "done", "prune"} : at = IF s = "worker" THEN "done" ELSE "prune"
    OBVIOUS
  <2>2. SyncMoves(s, At(sync[s], at)) /\ UNCHANGED <<curating, nodes>>
    BY <1>0, <1>10, <2>1, MarkKeptIs DEF SyncMoves
  <2>3. PromisesGo
    BY <1>0, <1>10, MarkKeptIs DEF PromisesGo, PromiseGoes
  <2> QED BY <1>0, <1>8, <2>2, <2>3 DEF NodeGoes
<1>11. ASSUME NEW s \in Syncers, NEW p \in Parties, Upsert(s, p) PROVE Goes
  <2>1. PICK X \in Sync : SyncMoves(s, X) /\ X.rows = sync[s].rows /\ X.at = "upsert"
    BY <1>0, <1>11, UpsertIs DEF SyncMoves
  <2>2. \A r \in Syncers, d \in Debts : RowGoes(r, d)
    BY <1>0, <2>1, MovedRows
  <2>3. \A d \in Debts : NodeGoes(d)
    BY <1>0, <1>11, UpsertIs DEF NodeGoes
  <2>4. ReplaceGoes
    <3>1. (s = "worker" => W' = X) /\ (s = "rebuild" => W' = W)
      BY <1>0, <2>1, SyncGoes DEF SyncMoves
    <3>2. curating' = curating /\ promises' = promises
      BY <1>0, <1>11, UpsertIs
    <3> QED BY <2>1, <3>1, <3>2 DEF Syncers, ReplaceGoes
  <2> QED BY <1>0, <1>11, <2>2, <2>3, <2>4, UpsertIs, StillAlike DEF Goes
<1>12. ASSUME NEW i, Requeue(i) PROVE Goes
  BY <1>0, <1>12, RequeueIs, StillGoes DEF graph, busy
<1> QED BY <1>1, <1>3, <1>4, <1>5, <1>6, <1>7, <1>9, <1>10, <1>11, <1>12 DEF SyncStep, Syncers

LEMMA CurateStepGoes ==
  ASSUME Typed, CurateStep
  PROVE  Goes
<1>0. TypeOK /\ sync \in [Syncers -> Sync] /\ (\A s \in Syncers : sync[s] \in Sync) /\ "worker" \in Syncers
      /\ Len(promises) <= MaxPromises
  BY DEF Typed, TypeOK, Syncers
<1>1. CASE CurateSkip
  <2>1. W.at = "curate" /\ UNCHANGED <<promises, nodes, sync>>
    BY <1>0, <1>1, CurateSkipIs DEF Onward, graph
  <2>2. W'.at = "curate"
    BY <2>1 DEF W
  <2> QED BY <1>0, <2>1, <2>2, StillAlike DEF Goes, RowGoes, NodeGoes, ReplaceGoes
<1>2. ASSUME NEW at \in {"curate", "replace"}, SyncMoves("worker", At(sync["worker"], at))
      PROVE  \A s \in Syncers, d \in Debts : RowGoes(s, d)
  <2>1. At(sync["worker"], at).rows = sync["worker"].rows
    BY <1>0, AtIs
  <2> QED BY <1>0, <1>2, <2>1, MovedRows
<1>3. CASE CurateRead
  <2>1. SyncMoves("worker", At(sync["worker"], "replace")) /\ UNCHANGED <<promises, nodes>>
    BY <1>0, <1>3, CurateReadIs DEF SyncMoves, graph
  <2> QED BY <1>0, <1>2, <1>3, <2>1, StillAlike DEF Goes, NodeGoes, ReplaceGoes
<1>4. CASE AddPromise
  <2>1. SyncMoves("worker", At(sync["worker"], "curate")) /\ UNCHANGED nodes
    BY <1>4, AddPromiseIs DEF SyncMoves
  <2>2. W'.at = "curate"
    BY <1>0, <2>1, PlaceIs DEF SyncMoves
  <2> QED BY <1>2, <1>4, <2>1, <2>2 DEF Goes, NodeGoes, ReplaceGoes
<1>5. ASSUME NEW i \in Ids, CloseOld(i) PROVE Goes
  <2>1. /\ W.at = "replace" /\ i \in curating.old
        /\ SetStatus(i, IF promises[i].due < jobs[hand].on THEN "broken" ELSE "replaced")
        /\ curating'.left = curating.left /\ curating'.old = curating.old \ {i}
        /\ UNCHANGED <<nodes, sync>>
    BY <1>0, <1>5, CloseOldIs
  <2>2. PICK st \in {"kept", "broken", "replaced"} : st = IF promises[i].due < jobs[hand].on THEN "broken" ELSE "replaced"
    OBVIOUS
  <2>3. /\ Alike
        /\ \A j \in DOMAIN promises : j # i => promises'[j] = promises[j]
        /\ i \in DOMAIN promises => promises'[i].status = IF promises[i].status = "gone" THEN "gone" ELSE st
    BY <1>0, <2>1, <2>2, SetStatusAny
  <2>4. PromisesGo
    <3> SUFFICES ASSUME NEW j \in DOMAIN promises PROVE PromiseGoes(j)
      BY <2>3 DEF PromisesGo
    <3>1. CASE j # i
      BY <2>3, <3>1 DEF PromiseGoes
    <3>2. CASE j = i
      BY <2>1, <2>2, <2>3, <3>2 DEF PromiseGoes
    <3> QED BY <3>1, <3>2
  <2>5. ReplaceGoes
    BY <2>1, <2>2, <2>3 DEF ReplaceGoes
  <2> QED BY <2>1, <2>4, <2>5 DEF Goes, RowGoes, NodeGoes
<1> QED BY <1>1, <1>3, <1>4, <1>5 DEF CurateStep

LEMMA SweepStepGoes ==
  ASSUME Typed, SweepStep
  PROVE  Goes
<1>0. TypeOK
  BY DEF Typed
<1>1. CASE StartSweep \/ StopSweep
  BY <1>0, <1>1, StillGoes DEF StartSweep, StopSweep, graph, busy
<1>2. ASSUME PromisesGo, UNCHANGED <<nodes, sync, curating>>,
             \A i \in DOMAIN promises : promises'[i].status = "open" => promises[i].status = "open"
      PROVE  Goes
  BY <1>2 DEF Goes, RowGoes, NodeGoes, ReplaceGoes, W
<1>3. ASSUME NEW v, Settle(v) PROVE Goes
  <2>1. /\ v \in verdicts /\ SetStatus(v.id, v.status) /\ v.status \in {"kept", "broken"} /\ UNCHANGED <<nodes, sync, curating>>
    BY <1>0, <1>3, SettleIs DEF busy
  <2>2. PICK st \in {"kept", "broken", "replaced"} : st = v.status
    BY <2>1
  <2>3. /\ Alike
        /\ \A j \in DOMAIN promises : j # v.id => promises'[j] = promises[j]
        /\ v.id \in DOMAIN promises => promises'[v.id].status = IF promises[v.id].status = "gone" THEN "gone" ELSE st
    BY <1>0, <2>1, <2>2, SetStatusAny
  <2>4. PromisesGo
    <3> SUFFICES ASSUME NEW j \in DOMAIN promises PROVE PromiseGoes(j)
      BY <2>3 DEF PromisesGo
    <3>1. CASE j # v.id
      BY <2>3, <3>1 DEF PromiseGoes
    <3>2. CASE j = v.id
      BY <2>1, <2>2, <2>3, <3>2 DEF PromiseGoes
    <3> QED BY <3>1, <3>2
  <2> QED BY <1>2, <2>1, <2>2, <2>3, <2>4
<1>4. ASSUME NEW p, Forget(p) PROVE Goes
  <2>1. Alike /\ \A i \in DOMAIN promises : promises'[i] = promises[i] \/ promises'[i].status = "gone"
    BY <1>0, <1>4, ForgetIs
  <2>2. PromisesGo /\ UNCHANGED <<nodes, sync, curating>>
    BY <1>4, <2>1 DEF PromisesGo, PromiseGoes, Forget, busy
  <2> QED BY <1>2, <2>1, <2>2
<1> QED BY <1>1, <1>3, <1>4 DEF SweepStep

LEMMA StepGoes ==
  ASSUME Typed, [Next]_vars
  PROVE  Goes
  BY TurnGoes, SyncStepGoes, CurateStepGoes, SweepStepGoes DEF Next

-----------------------------------------------------------------------------
(* Promises and outcomes.                                                  *)

LEMMA VerdictsAre ==
  ASSUME TypeOK, NEW v \in verdicts
  PROVE  v.id \in Ids /\ v.status \in {"kept", "broken"}
  BY DEF TypeOK

LEMMA OpenWas ==
  ASSUME TypeOK, PromisesGo, NEW i \in DOMAIN promises', promises'[i].status = "open"
  PROVE  i \in DOMAIN promises /\ promises[i].status = "open" /\ promises'[i].debt = promises[i].debt
  BY VerdictsAre DEF PromisesGo, PromiseGoes, Alike

LEMMA OpenIs ==
  ASSUME TypeOK, NEW d
  PROVE  /\ \A i : i \in Open(d) <=> i \in DOMAIN promises /\ promises[i].debt = d /\ promises[i].status = "open"
         /\ Open(d) \subseteq DOMAIN promises
  BY DEF TypeOK, Open

\* The promises in force stay one for each debt.
LEMMA OnePromiseKept ==
  ASSUME Typed, OnePromiseEach, [Next]_vars
  PROVE  OnePromiseEach'
<1>0. TypeOK /\ TypeOK' /\ Len(promises') <= MaxPromises /\ Goes /\ Len(promises) <= MaxPromises
  BY TypedKept, StepGoes DEF Typed
<1>1. \A i, j \in DOMAIN promises : promises[i].status = "open" /\ promises[j].status = "open"
                                     /\ promises[i].debt = promises[j].debt => i = j
  BY DEF OnePromiseEach
<1>2. CASE PromisesGo
  <2>1. \A i, j \in DOMAIN promises' : promises'[i].status = "open" /\ promises'[j].status = "open"
                                        /\ promises'[i].debt = promises'[j].debt => i = j
    <3> SUFFICES ASSUME NEW i \in DOMAIN promises', NEW j \in DOMAIN promises', promises'[i].status = "open",
                        promises'[j].status = "open", promises'[i].debt = promises'[j].debt
                 PROVE  i = j
      OBVIOUS
    <3>1. i \in DOMAIN promises /\ promises[i].status = "open" /\ promises'[i].debt = promises[i].debt
      BY <1>0, <1>2, OpenWas
    <3>2. j \in DOMAIN promises /\ promises[j].status = "open" /\ promises'[j].debt = promises[j].debt
      BY <1>0, <1>2, OpenWas
    <3> QED BY <1>1, <3>1, <3>2
  <2>2. ASSUME W'.at = "replace" PROVE Open(First.debt)' \subseteq curating'.old
    <3>1. CASE CurateRead
      <4>1. curating'.left = curating.left /\ curating'.old = Open(First.debt) /\ promises' = promises
        BY <1>0, <3>1, CurateReadIs DEF graph
      <4> QED BY <4>1 DEF Open, First
    <3>2. CASE /\ W.at = "replace" /\ curating'.left = curating.left
               /\ \A i \in curating.old : i \in curating'.old \/ i \notin DOMAIN promises \/ promises'[i].status # "open"
      <4>1. First' = First /\ Open(First.debt) \subseteq curating.old
        BY <3>2 DEF First, OnePromiseEach
      <4> SUFFICES ASSUME NEW i \in Open(First.debt)' PROVE i \in curating'.old
        OBVIOUS
      <4>2. i \in DOMAIN promises' /\ promises'[i].debt = First.debt /\ promises'[i].status = "open"
        <5>1. DOMAIN promises' = 1 .. Len(promises')
          BY <1>0 DEF TypeOK
        <5> QED BY <4>1, <5>1 DEF Open
      <4>3. i \in DOMAIN promises /\ promises[i].status = "open" /\ promises[i].debt = First.debt
        BY <1>0, <1>2, <4>2, OpenWas
      <4>4. i \in Open(First.debt)
        BY <1>0, <4>3, OpenIs
      <4> QED BY <3>2, <4>1, <4>2, <4>3, <4>4
    <3> QED BY <1>0, <2>2, <3>1, <3>2 DEF Goes, ReplaceGoes
  <2> QED BY <1>0, <2>1, <2>2 DEF OnePromiseEach
<1>3. CASE AddPromise
  <2>1. /\ W.at = "replace" /\ curating.old = {} /\ sync' = [sync EXCEPT !["worker"] = At(sync["worker"], "curate")]
        /\ \A i \in DOMAIN promises : promises'[i] = promises[i]
        /\ \/ promises' = promises
           \/ /\ DOMAIN promises' = DOMAIN promises \cup {Len(promises) + 1}
              /\ promises'[Len(promises) + 1].debt = First.debt
    BY <1>3, AddPromiseIs DEF Onward
  <2>2. W'.at = "curate"
    BY <1>0, <2>1, PlaceIs DEF TypeOK, Syncers
  <2>3. \A i \in DOMAIN promises : ~(promises[i].status = "open" /\ promises[i].debt = First.debt)
    BY <1>0, <2>1, OpenIs DEF OnePromiseEach
  <2>4. \A i, j \in DOMAIN promises' : promises'[i].status = "open" /\ promises'[j].status = "open"
                                        /\ promises'[i].debt = promises'[j].debt => i = j
    BY <1>1, <2>1, <2>3
  <2> QED BY <1>0, <2>2, <2>4 DEF OnePromiseEach
<1> QED BY <1>0, <1>2, <1>3 DEF Goes

\* Entries and the days they were cleared on change together; days only pass.
LEMMA LedgerGoes ==
  ASSUME Typed, [Next]_vars
  PROVE  /\ \A d \in Debts : /\ cleared[d] \subseteq cleared'[d]
                             /\ entries'[d] = entries[d] \/ (Live(entries'[d]) /\ entries'[d].paid # NoDay => entries'[d].paid \in cleared'[d])
         /\ today' = today \/ today' = today + 1
<1>0. TypeOK /\ PeopleAreNamed /\ Len(promises) <= MaxPromises
  BY DEF Typed
<1>1. CASE LedgerStep
  <2>1. PICK d \in Debts, e \in Entry, keys \in SUBSET Parties : Changes(d, e, keys)
    BY <1>0, <1>1, LedgerChanges
  <2>2. /\ entries' = [entries EXCEPT ![d] = e] /\ today' = today
        /\ cleared' = [cleared EXCEPT ![d] = IF Live(e) /\ e.paid # NoDay THEN @ \cup {e.paid} ELSE @]
    BY <2>1 DEF Changes, Change
  <2>3. \A c \in Debts : /\ entries'[c] = IF c = d THEN e ELSE entries[c]
                         /\ cleared'[c] = IF c = d /\ Live(e) /\ e.paid # NoDay THEN cleared[c] \cup {e.paid} ELSE cleared[c]
    BY <1>0, <2>2 DEF TypeOK
  <2> QED BY <2>2, <2>3
<1>2. CASE TurnStep \/ UNCHANGED vars
  BY <1>0, <1>2, EndTurnIs DEF TurnStep, FailTurn, NextDay, vars, ledger
<1>3. CASE SyncStep
  <2>1. UNCHANGED ledger
    <3>1. CASE Take \/ Finish \/ StartRebuild \/ Prune
      BY <1>0, <3>1, TakeIs, FinishIs DEF StartRebuild, Prune
    <3>2. ASSUME NEW s \in Syncers, NEW p \in Parties, RemoveStale(s) \/ MarkKept(s) \/ StopSync(s) \/ Upsert(s, p)
          PROVE  UNCHANGED ledger
      BY <3>2 DEF RemoveStale, MarkKept, StopSync, Upsert
    <3>3. ASSUME NEW s \in Syncers, RemoveStale(s) \/ MarkKept(s) \/ StopSync(s)
          PROVE  UNCHANGED ledger
      BY <3>3 DEF RemoveStale, MarkKept, StopSync
    <3>4. ASSUME NEW i, Requeue(i) PROVE UNCHANGED ledger
      BY <3>4 DEF Requeue
    <3> QED BY <1>3, <3>1, <3>2, <3>3, <3>4 DEF SyncStep
  <2> QED BY <2>1 DEF ledger
<1>4. CASE CurateStep \/ SweepStep
  <2>1. UNCHANGED ledger
    BY <1>4 DEF CurateStep, CurateSkip, CurateRead, AddPromise, CloseOld, SweepStep, StartSweep, StopSweep, Settle, Forget
  <2> QED BY <2>1 DEF ledger
<1> QED BY <1>1, <1>2, <1>3, <1>4 DEF Next

LEMMA ClearedDaysKept ==
  ASSUME Typed, ClearedDaysAreReal, [Next]_vars
  PROVE  ClearedDaysAreReal'
<1>0. TypeOK /\ Goes /\ \A s \in Syncers : sync[s] \in Sync
  BY StepGoes DEF Typed, TypeOK
<1>1. \A d \in Debts : /\ cleared[d] \subseteq cleared'[d]
                       /\ entries'[d] = entries[d] \/ (Live(entries'[d]) /\ entries'[d].paid # NoDay => entries'[d].paid \in cleared'[d])
  BY LedgerGoes
<1>2. /\ \A d \in Debts : nodes[d].paid # NoDay => nodes[d].paid \in cleared[d]
      /\ \A d \in Debts : Live(entries[d]) /\ entries[d].paid # NoDay => entries[d].paid \in cleared[d]
      /\ \A s \in Syncers, d \in Debts : sync[s].rows[d].paid # NoDay => sync[s].rows[d].paid \in cleared[d]
  BY DEF ClearedDaysAreReal
<1>3. \A d \in Debts : nodes'[d].paid # NoDay => nodes'[d].paid \in cleared'[d]
  <2> SUFFICES ASSUME NEW d \in Debts, nodes'[d].paid # NoDay PROVE nodes'[d].paid \in cleared[d]
    BY <1>1
  <2>1. CASE nodes'[d] \in {nodes[d], NoNode}
    BY <1>2, <2>1, MirrorsAre
  <2>2. ASSUME NEW s \in Syncers, nodes'[d] = Mirrored(sync[s].rows[d]) PROVE nodes'[d].paid \in cleared[d]
    <3>1. Mirrored(sync[s].rows[d]).paid = sync[s].rows[d].paid
      BY <1>0, MirrorsAre DEF Sync
    <3> QED BY <1>2, <2>2, <3>1
  <2> QED BY <1>0, <2>1, <2>2 DEF Goes, NodeGoes
<1>4. \A d \in Debts : Live(entries'[d]) /\ entries'[d].paid # NoDay => entries'[d].paid \in cleared'[d]
  <2> SUFFICES ASSUME NEW d \in Debts, Live(entries'[d]), entries'[d].paid # NoDay PROVE entries'[d].paid \in cleared'[d]
    OBVIOUS
  <2>1. CASE entries'[d] = entries[d]
    BY <1>1, <1>2, <2>1
  <2> QED BY <1>1, <2>1
<1>5. \A s \in Syncers, d \in Debts : sync'[s].rows[d].paid # NoDay => sync'[s].rows[d].paid \in cleared'[d]
  BY <1>0, <1>1, <1>2, EntriesAre DEF Goes, RowGoes
<1> QED BY <1>3, <1>4, <1>5 DEF ClearedDaysAreReal

\* What a promise has earned stays earned: a day it was cleared on, a day that has passed.
LEMMA EarnedStays ==
  ASSUME Typed, [Next]_vars, NEW d \in Debts, NEW due \in Days
  PROVE  /\ (\E day \in cleared[d] : day <= due) => \E day \in cleared'[d] : day <= due
         /\ due < today => due < today'
<1>1. cleared[d] \subseteq cleared'[d] /\ (today' = today \/ today' = today + 1)
  BY LedgerGoes
<1>2. today \in Nat /\ due \in Nat
  BY BoundsAreNatural DEF Typed, TypeOK, Days
<1> QED BY <1>1, <1>2

\* A verdict gives an outcome that is earned.
Fair(v) == /\ v.status = "kept" => \E day \in cleared[promises[v.id].debt] : day <= promises[v.id].due
           /\ v.status = "broken" => promises[v.id].due < today

LEMMA FairIs ==
  ASSUME TypeOK, NEW v \in verdicts, v.id \in DOMAIN promises
  PROVE  Earned([promises[v.id] EXCEPT !.status = v.status]) <=> Fair(v)
<1>1. PICK p : p = [promises[v.id] EXCEPT !.status = v.status]
  OBVIOUS
<1>2. p.status = v.status /\ p.debt = promises[v.id].debt /\ p.due = promises[v.id].due
  BY <1>1, VerdictsAre, WithStatus
<1> QED BY <1>1, <1>2 DEF Earned, Fair

\* A step of the sweep leaves fewer verdicts, but for the one that starts it.
LEMMA VerdictsGo ==
  ASSUME Typed, [Next]_vars
  PROVE  verdicts' \subseteq verdicts \/ StartSweep
<1>0. TypeOK /\ PeopleAreNamed /\ Len(promises) <= MaxPromises
  BY DEF Typed
<1>1. CASE LedgerStep
  BY <1>0, <1>1, LedgerChanges DEF Changes, Change
<1>2. CASE TurnStep \/ UNCHANGED vars
  BY <1>2 DEF TurnStep, EndTurn, FailTurn, NextDay, vars
<1>3. CASE SyncStep
  <2>1. CASE Take \/ Finish \/ StartRebuild \/ Prune
    BY <1>0, <2>1, TakeIs, FinishIs DEF StartRebuild, Prune
  <2>2. ASSUME NEW s \in Syncers, RemoveStale(s) \/ MarkKept(s) \/ StopSync(s)
        PROVE  UNCHANGED verdicts
    BY <2>2 DEF RemoveStale, MarkKept, StopSync
  <2>3. ASSUME NEW s \in Syncers, NEW p \in Parties, Upsert(s, p) PROVE UNCHANGED verdicts
    BY <2>3 DEF Upsert
  <2>4. ASSUME NEW i, Requeue(i) PROVE UNCHANGED verdicts
    BY <2>4 DEF Requeue
  <2> QED BY <1>3, <2>1, <2>2, <2>3, <2>4 DEF SyncStep
<1>4. CASE CurateStep
  BY <1>4 DEF CurateStep, CurateSkip, CurateRead, AddPromise, CloseOld
<1>5. CASE SweepStep
  BY <1>5 DEF SweepStep, StopSweep, Settle, Forget
<1> QED BY <1>1, <1>2, <1>3, <1>4, <1>5 DEF Next

\* The promises before a step are the same promises after it.
LEMMA SamePromises ==
  ASSUME Typed, [Next]_vars
  PROVE  /\ DOMAIN promises \subseteq DOMAIN promises'
         /\ \A i \in DOMAIN promises : promises'[i].debt = promises[i].debt /\ promises'[i].due = promises[i].due
<1>1. CASE PromisesGo
  BY <1>1 DEF PromisesGo, Alike
<1>2. CASE AddPromise
  BY <1>2, AddPromiseIs
<1> QED BY <1>1, <1>2, StepGoes DEF Goes

LEMMA OutcomesKept ==
  ASSUME Typed, ClearedDaysAreReal, OutcomesAreRight, [Next]_vars
  PROVE  OutcomesAreRight'
<1>0. TypeOK /\ TypeOK' /\ Goes /\ JobsAreOrderly /\ HandHoldsAJob /\ Len(promises) <= MaxPromises
  BY TypedKept, StepGoes DEF Typed
<1>1. \A i \in DOMAIN promises : promises[i].debt \in Debts /\ promises[i].due \in Days /\ Earned(promises[i])
  BY <1>0, PromiseIs DEF OutcomesAreRight
<1>2. \A d \in Debts, due \in Days : /\ (\E day \in cleared[d] : day <= due) => \E day \in cleared'[d] : day <= due
                                     /\ due < today => due < today'
  BY EarnedStays
<1>3. \A v \in verdicts : v.id \in DOMAIN promises /\ Fair(v)
  BY <1>0, FairIs DEF OutcomesAreRight
<1>4. \A d \in Debts : nodes[d].paid # NoDay => nodes[d].paid \in cleared[d]
  BY DEF ClearedDaysAreReal
<1>5. ASSUME NEW i \in DOMAIN promises, promises'[i].debt = promises[i].debt, promises'[i].due = promises[i].due,
             promises'[i].status = promises[i].status
      PROVE  Earned(promises[i])'
  BY <1>1, <1>2, <1>5 DEF Earned
<1>6. \A i \in DOMAIN promises' : Earned(promises[i])'
  <2>1. CASE PromisesGo
    <3> SUFFICES ASSUME NEW i \in DOMAIN promises PROVE Earned(promises[i])'
      BY <2>1 DEF PromisesGo, Alike
    <3>1. promises'[i].debt = promises[i].debt /\ promises'[i].due = promises[i].due /\ PromiseGoes(i)
      BY <2>1 DEF PromisesGo, Alike
    <3>2. PICK d \in Debts, due \in Days : d = promises[i].debt /\ due = promises[i].due
      BY <1>1
    <3>3. CASE promises'[i].status = promises[i].status
      BY <1>5, <3>1, <3>3
    <3>4. CASE promises'[i].status = "gone"
      BY <3>4 DEF Earned
    <3>5. CASE /\ promises'[i].status = "kept" /\ nodes[d].paid # NoDay /\ nodes[d].paid <= due
      <4>1. \E day \in cleared[d] : day <= due
        BY <1>4, <3>5
      <4>2. \E day \in cleared'[d] : day <= due
        BY <1>2, <4>1
      <4> QED BY <3>1, <3>2, <3>5, <4>2 DEF Earned
    <3>6. ASSUME NEW v \in verdicts, v.id = i, promises'[i].status = v.status PROVE Earned(promises[i])'
      <4>1. (v.status = "kept" => \E day \in cleared[d] : day <= due) /\ (v.status = "broken" => due < today)
        BY <1>3, <3>2, <3>6 DEF Fair
      <4>2. (v.status = "kept" => \E day \in cleared'[d] : day <= due) /\ (v.status = "broken" => due < today')
        BY <1>2, <4>1
      <4> QED BY <3>1, <3>2, <3>6, <4>2 DEF Earned
    <3>7. CASE /\ W.at = "replace"
               /\ promises'[i].status = "replaced" \/ (promises'[i].status = "broken" /\ due < jobs[hand].on)
      <4>1. CASE promises'[i].status = "replaced"
        BY <4>1 DEF Earned
      <4>2. CASE promises'[i].status = "broken" /\ due < jobs[hand].on
        <5>1. W # Idle /\ hand \in DOMAIN jobs
          BY <1>0, <3>7, IdleIs DEF HandHoldsAJob
        <5>2. jobs[hand].on <= today /\ jobs[hand].on \in Nat
          BY <1>0, <5>1, JobIs DEF JobsAreOrderly
        <5>3. due \in Nat /\ today \in Nat
          BY <1>0, BoundsAreNatural DEF TypeOK, Days
        <5>4. due < today
          BY <4>2, <5>2, <5>3
        <5>5. due < today'
          BY <1>2, <5>4
        <5> QED BY <3>1, <3>2, <4>2, <5>5 DEF Earned
      <4> QED BY <3>7, <4>1, <4>2
    <3> QED BY <3>1, <3>2, <3>3, <3>4, <3>5, <3>6, <3>7 DEF PromiseGoes
  <2>2. CASE AddPromise
    <3>1. /\ \A i \in DOMAIN promises : promises'[i] = promises[i]
          /\ \/ promises' = promises
             \/ /\ DOMAIN promises' = DOMAIN promises \cup {Len(promises) + 1}
                /\ promises'[Len(promises) + 1].status = "open"
      BY <2>2, AddPromiseIs
    <3>2. \A i \in DOMAIN promises : Earned(promises[i])'
      BY <1>5, <3>1
    <3>3. \A i \in DOMAIN promises' : i \in DOMAIN promises \/ promises'[i].status = "open"
      BY <3>1
    <3> QED BY <3>2, <3>3 DEF Earned
  <2> QED BY <1>0, <2>1, <2>2 DEF Goes
<1>7. \A v \in verdicts' : v.id \in DOMAIN promises' /\ Fair(v)'
  <2>0. /\ DOMAIN promises \subseteq DOMAIN promises'
        /\ \A i \in DOMAIN promises : promises'[i].debt = promises[i].debt /\ promises'[i].due = promises[i].due
    BY SamePromises
  <2>1. ASSUME NEW v, v.id \in DOMAIN promises, Fair(v) PROVE v.id \in DOMAIN promises' /\ Fair(v)'
    <3>1. PICK d \in Debts, due \in Days : d = promises[v.id].debt /\ due = promises[v.id].due
      BY <1>1, <2>1
    <3>2. d = promises'[v.id].debt /\ due = promises'[v.id].due
      BY <2>0, <2>1, <3>1
    <3> QED BY <1>2, <2>0, <2>1, <3>1, <3>2 DEF Fair
  <2>2. CASE verdicts' \subseteq verdicts
    BY <1>3, <2>1, <2>2
  <2>3. CASE StartSweep
    <3> SUFFICES ASSUME NEW v \in verdicts' PROVE v.id \in DOMAIN promises /\ Fair(v)
      BY <2>1
    <3>1. v.id \in DOMAIN promises /\ promises[v.id].due < today /\ v = Verdict(v.id)
      BY <1>0, <2>3, StartSweepIs
    <3>2. v.status = "kept" => nodes[promises[v.id].debt].paid # NoDay /\ nodes[promises[v.id].debt].paid <= promises[v.id].due
      BY <1>0, <3>1, VerdictIs
    <3> QED BY <1>1, <1>4, <3>1, <3>2 DEF Fair
  <2> QED BY <2>2, <2>3, VerdictsGo
<1>8. \A v \in verdicts' : v.id \in DOMAIN promises' /\ Earned([promises[v.id] EXCEPT !.status = v.status])'
  <2> SUFFICES ASSUME NEW v \in verdicts' PROVE v.id \in DOMAIN promises' /\ Earned([promises[v.id] EXCEPT !.status = v.status])'
    OBVIOUS
  <2>1. PICK i : i = v.id /\ i \in DOMAIN promises' /\ Fair(v)'
    BY <1>7
  <2>2. PICK p \in Promise : p = promises'[i]
    BY <1>0, <2>1 DEF TypeOK
  <2>3. PICK q : q = [p EXCEPT !.status = v.status]
    OBVIOUS
  <2>4. q.status = v.status /\ q.debt = p.debt /\ q.due = p.due
    BY <2>3 DEF Promise
  <2> QED BY <2>1, <2>2, <2>3, <2>4 DEF Earned, Fair
<1> QED BY <1>6, <1>8 DEF OutcomesAreRight

-----------------------------------------------------------------------------
(* The dates the trader gave.                                              *)

LEMMA LedgerRests ==
  ASSUME Typed, SyncStep \/ CurateStep \/ SweepStep
  PROVE  UNCHANGED ledger
<1>0. TypeOK
  BY DEF Typed
<1>1. CASE SyncStep
  <2>1. CASE Take \/ Finish \/ StartRebuild \/ Prune
    BY <1>0, <2>1, TakeIs, FinishIs DEF StartRebuild, Prune
  <2>2. ASSUME NEW s \in Syncers, NEW p \in Parties, Upsert(s, p)
        PROVE  UNCHANGED ledger
    BY <2>2 DEF Upsert
  <2>3. ASSUME NEW s \in Syncers, RemoveStale(s) \/ MarkKept(s) \/ StopSync(s)
        PROVE  UNCHANGED ledger
    BY <2>3 DEF RemoveStale, MarkKept, StopSync
  <2>4. ASSUME NEW i, Requeue(i) PROVE UNCHANGED ledger
    BY <2>4 DEF Requeue
  <2> QED BY <1>1, <2>1, <2>2, <2>3, <2>4 DEF SyncStep
<1>2. CASE CurateStep \/ SweepStep
  BY <1>2 DEF CurateStep, CurateSkip, CurateRead, AddPromise, CloseOld, SweepStep, StartSweep, StopSweep, Settle, Forget
<1> QED BY <1>1, <1>2

\* What a change leaves touched.
LEMMA ChangeTouches ==
  ASSUME TypeOK, NEW d \in Debts, NEW e \in Entry, NEW keys \in SUBSET Parties, Changes(d, e, keys)
  PROVE  /\ \A c \in Debts : Mentions(touched, c) => Mentions(touched', c)
         /\ \A c \in Debts : Mentions(touched', c) => Mentions(touched, c) \/ (c = d /\ Outstanding(e) /\ e.due # NoDay)
<1>1. touched' = touched \/ touched' = Touch(d, e)
  BY DEF Changes
<1> QED BY <1>1, TouchIs

LEMMA DatesOfDebtsKept ==
  ASSUME Typed, DatesAreOfDebts, [Next]_vars
  PROVE  DatesAreOfDebts'
<1>0. TypeOK /\ PeopleAreNamed
  BY DEF Typed
<1>1. CASE LedgerStep
  <2>1. PICK d \in Debts, e \in Entry, keys \in SUBSET Parties : Changes(d, e, keys)
    BY <1>0, <1>1, LedgerChanges
  <2>2. /\ entries' = [entries EXCEPT ![d] = e] /\ stated' = stated
        /\ entries[d].state # "deleted"
        /\ entries[d].state = "complete" /\ entries[d].due # NoDay =>
             e.state = "deleted" \/ (e.state = "complete" /\ e.due # NoDay)
    BY <2>1 DEF Changes, Change
  <2>3. \A c \in Debts : entries'[c] = IF c = d THEN e ELSE entries[c]
    BY <1>0, <2>2 DEF TypeOK
  <2>4. \A c \in Debts : Mentions(touched', c) => Mentions(touched, c) \/ (c = d /\ Outstanding(e) /\ e.due # NoDay)
    BY <1>0, <2>1, ChangeTouches
  <2> SUFFICES ASSUME NEW c \in Debts, stated[c] # NoDay \/ Mentions(touched', c)
               PROVE  entries'[c].state = "deleted" \/ (entries'[c].state = "complete" /\ entries'[c].due # NoDay)
    BY <2>2 DEF DatesAreOfDebts, Mentions
  <2>5. CASE stated[c] # NoDay \/ Mentions(touched, c)
    <3>1. entries[c].state = "deleted" \/ (entries[c].state = "complete" /\ entries[c].due # NoDay)
      BY <2>5 DEF DatesAreOfDebts
    <3> QED BY <2>2, <2>3, <3>1
  <2>6. CASE c = d /\ Outstanding(e) /\ e.due # NoDay
    BY <2>3, <2>6 DEF Outstanding
  <2> QED BY <2>4, <2>5, <2>6
<1>2. CASE EndTurn
  <2>1. /\ \A d \in Debts : ~Mentions(touched, d) => stated'[d] = stated[d]
        /\ touched' = <<>> /\ entries' = entries
    BY <1>0, <1>2, EndTurnIs
  <2> QED BY <2>1 DEF DatesAreOfDebts, Mentions
<1>3. CASE FailTurn
  BY <1>3 DEF FailTurn, DatesAreOfDebts, Mentions
<1>4. CASE NextDay \/ UNCHANGED vars
  BY <1>4 DEF NextDay, vars, ledger, DatesAreOfDebts, Mentions
<1>5. CASE SyncStep \/ CurateStep \/ SweepStep
  BY <1>5, LedgerRests DEF ledger, DatesAreOfDebts, Mentions
<1> QED BY <1>1, <1>2, <1>3, <1>4, <1>5 DEF Next, TurnStep

\* What is kept in mind of d's date.
Minded(d) ==
  Committed(d) =>
    /\ Mentions(touched, d) => SafeBefore(Len(jobs) + 1, d)
    /\ ~Mentions(touched, d) /\ stated[d] # NoDay => (Safe(d) /\ Promised(d, stated[d])) \/ ToPromise(d, stated[d])

LEMMA MindIs ==
  ASSUME TypeOK
  PROVE  DatesAreKeptInMind <=> (lost = {} => \A d \in Debts : Minded(d))
<1>1. lost = {} <=> "job" \notin lost /\ "overtaken" \notin lost /\ "turn" \notin lost /\ "forgotten" \notin lost
  BY DEF TypeOK
<1> QED BY <1>1 DEF DatesAreKeptInMind, Minded

\* A step that takes nothing from d's mind: jobs keep their places, what is safe stays
\* so, and a curation that leaves the date out has its promise.
CarriesJobs(d) ==
  /\ Safe(d) => Safe(d)'
  /\ \A k \in DOMAIN jobs : Fixes(k, d) => Safe(d)' \/ Fixes(k, d)'

CarriesDate(d) ==
  /\ \A c \in DOMAIN jobs : jobs[c].kind = "curate" /\ Has(Left(c), d, stated[d]) /\ SafeBefore(c, d) =>
       (jobs'[c].kind = "curate" /\ Has(Left(c), d, stated[d])') \/ (Safe(d) /\ Promised(d, stated[d]))'
  /\ Safe(d) /\ Promised(d, stated[d]) => Promised(d, stated[d])'

Carries(d) ==
  /\ stated'[d] = stated[d]
  /\ Len(jobs') \in Nat /\ Len(jobs) <= Len(jobs') /\ DOMAIN jobs \subseteq DOMAIN jobs'
  /\ Committed(d)' => Committed(d) /\ CarriesJobs(d) /\ CarriesDate(d)

\* The first half of a mind: who is safe before n stays so.
LEMMA SafeStays ==
  ASSUME NEW d, NEW n, CarriesJobs(d), DOMAIN jobs \subseteq DOMAIN jobs', SafeBefore(n, d)
  PROVE  SafeBefore(n, d)'
  BY DEF SafeBefore, CarriesJobs

LEMMA SafeSooner ==
  ASSUME TypeOK, NEW d, NEW n \in Nat, NEW m \in Nat, n <= m, SafeBefore(n, d)
  PROVE  SafeBefore(m, d)
<1>1. \A k \in DOMAIN jobs : k \in Nat
  BY DEF TypeOK
<1> QED BY <1>1 DEF SafeBefore

LEMMA DateStays ==
  ASSUME Typed, NEW d \in Debts, Carries(d), Committed(d)',
         (Safe(d) /\ Promised(d, stated[d])) \/ ToPromise(d, stated[d])
  PROVE  ((Safe(d) /\ Promised(d, stated[d])) \/ ToPromise(d, stated[d]))'
<1>1. stated'[d] = stated[d] /\ DOMAIN jobs \subseteq DOMAIN jobs' /\ CarriesJobs(d) /\ CarriesDate(d)
  BY DEF Carries
<1>2. CASE Safe(d) /\ Promised(d, stated[d])
  <2>1. Safe(d)' /\ Promised(d, stated[d])'
    BY <1>1, <1>2 DEF CarriesJobs, CarriesDate
  <2> QED BY <2>1
<1>3. CASE ToPromise(d, stated[d])
  <2>1. PICK c \in DOMAIN jobs : jobs[c].kind = "curate" /\ Has(Left(c), d, stated[d]) /\ SafeBefore(c, d)
    BY <1>3 DEF ToPromise
  <2>2. SafeBefore(c, d)'
    BY <1>1, <2>1, SafeStays
  <2>3. (jobs'[c].kind = "curate" /\ Has(Left(c), d, stated[d])') \/ (Safe(d) /\ Promised(d, stated[d]))'
    BY <1>1, <2>1 DEF CarriesDate
  <2>4. c \in DOMAIN jobs'
    BY <1>1
  <2> QED BY <2>2, <2>3, <2>4 DEF ToPromise
<1> QED BY <1>2, <1>3

LEMMA MindStays ==
  ASSUME Typed, TypeOK', NEW d \in Debts, Minded(d), Carries(d), Mentions(touched', d) <=> Mentions(touched, d)
  PROVE  Minded(d)'
<1> SUFFICES ASSUME Committed(d)'
             PROVE  /\ Mentions(touched', d) => SafeBefore(Len(jobs) + 1, d)'
                    /\ ~Mentions(touched', d) /\ stated'[d] # NoDay =>
                         ((Safe(d) /\ Promised(d, stated[d])) \/ ToPromise(d, stated[d]))'
  BY DEF Minded, Mentions
<1>1. Committed(d) /\ CarriesJobs(d) /\ stated'[d] = stated[d] /\ DOMAIN jobs \subseteq DOMAIN jobs'
  BY DEF Carries
<1>2. ASSUME Mentions(touched, d) PROVE SafeBefore(Len(jobs) + 1, d)'
  <2>1. PICK n \in Nat : n = Len(jobs) + 1
    BY DEF Typed, TypeOK
  <2>2. SafeBefore(n, d)
    BY <1>1, <1>2, <2>1 DEF Minded
  <2>3. SafeBefore(n, d)'
    BY <1>1, <2>2, SafeStays
  <2>4. PICK m \in Nat : m = Len(jobs') + 1 /\ n <= m
    BY <2>1 DEF Carries, Typed, TypeOK
  <2>5. \A k \in DOMAIN jobs' : k \in Nat
    BY DEF TypeOK
  <2>6. SafeBefore(m, d)'
    BY <2>3, <2>4, <2>5 DEF SafeBefore
  <2> QED BY <2>4, <2>6
<1>3. ASSUME ~Mentions(touched, d), stated[d] # NoDay
      PROVE  ((Safe(d) /\ Promised(d, stated[d])) \/ ToPromise(d, stated[d]))'
  <2>1. (Safe(d) /\ Promised(d, stated[d])) \/ ToPromise(d, stated[d])
    BY <1>1, <1>3 DEF Minded
  <2> QED BY <2>1, DateStays
<1> QED BY <1>1, <1>2, <1>3

-----------------------------------------------------------------------------
(* What is kept in mind, step by step.                                     *)

\* What d's safety rests on is as it was: its entry, its node, what the worker will write.
Untouched(d) ==
  /\ entries'[d].party = entries[d].party /\ nodes'[d].party = nodes[d].party
  /\ W' = W \/ (W.at # "upsert" /\ W'.at # "upsert")

LEMMA UntouchedCarries ==
  ASSUME NEW d, Untouched(d), hand' = hand, DOMAIN jobs \subseteq DOMAIN jobs',
         \A k \in DOMAIN jobs : jobs'[k].keys = jobs[k].keys
  PROVE  CarriesJobs(d)
<1>1. Safe(d) => Safe(d)'
  BY DEF Untouched, Safe
<1>2. \A k \in DOMAIN jobs : Fixes(k, d) => Fixes(k, d)'
  BY DEF Untouched, Fixes
<1> QED BY <1>1, <1>2 DEF CarriesJobs

\* Curations are as they were, and no promise is deleted.
LEMMA DateCarries ==
  ASSUME NEW d, stated'[d] = stated[d], hand' = hand, curating'.left = curating.left,
         \A k \in DOMAIN jobs : jobs'[k].kind = jobs[k].kind /\ jobs'[k].touched = jobs[k].touched,
         Safe(d) => \A i \in DOMAIN promises : /\ i \in DOMAIN promises'
                                               /\ promises'[i].debt = promises[i].debt /\ promises'[i].due = promises[i].due
                                               /\ promises[i].debt = d /\ promises'[i].status = "gone" => promises[i].status = "gone"
  PROVE  CarriesDate(d)
<1>1. \A c \in DOMAIN jobs : Left(c)' = Left(c)
  BY DEF Left
<1>2. \A c \in DOMAIN jobs : Has(Left(c), d, stated[d]) => Has(Left(c), d, stated[d])'
  BY <1>1 DEF Has
<1>3. Safe(d) /\ Promised(d, stated[d]) => Promised(d, stated[d])'
  BY DEF Promised
<1> QED BY <1>2, <1>3 DEF CarriesDate

Sames(d) ==
  /\ entries'[d] = entries[d] /\ stated'[d] = stated[d] /\ Len(jobs') = Len(jobs) /\ jobs' \in Seq(Job)
  /\ DOMAIN jobs' = DOMAIN jobs

LEMMA SamesCarry ==
  ASSUME NEW d, Sames(d), Committed(d) => CarriesJobs(d) /\ CarriesDate(d)
  PROVE  Carries(d)
<1>1. Len(jobs') \in Nat
  BY DEF Sames
<1> QED BY <1>1 DEF Sames, Carries, Committed

\* A step that leaves the ledger, the queue and the nodes alone and deletes no promise.
LEMMA QuietKeepsMind ==
  ASSUME Typed, TypeOK', NEW d \in Debts, Minded(d), UNCHANGED <<entries, touched, stated, jobs, hand, nodes>>,
         W' = W \/ (W.at # "upsert" /\ W'.at # "upsert"), curating'.left = curating.left,
         Alike, \A i \in DOMAIN promises : promises'[i].status = "gone" => promises[i].status = "gone"
  PROVE  Minded(d)'
<1>1. CarriesJobs(d)
  BY UntouchedCarries DEF Untouched
<1>2. CarriesDate(d)
  BY DateCarries DEF Alike
<1>3. Sames(d)
  BY DEF Typed, TypeOK, Sames
<1> QED BY <1>1, <1>2, <1>3, SamesCarry, MindStays

\* A commitment is a debt of a person.
LEMMA CommittedIs ==
  ASSUME TypeOK, PeopleAreNamed, NEW d \in Debts, Committed(d)
  PROVE  Live(entries[d]) /\ IsDebt(entries[d]) /\ entries[d].party \in Parties /\ entries[d].party # NoParty /\ entries[d] # NoEntry
<1>1. Live(entries[d]) /\ IsDebt(entries[d])
  BY DEF Committed, Live, IsDebt, Outstanding
<1>2. entries[d].party \in Parties
  BY <1>1 DEF PeopleAreNamed
<1> QED BY <1>1, <1>2, NobodyIsNoParty, EntriesAre

LEMMA LedgerKeepsMind ==
  ASSUME Typed, TypeOK', DatesAreOfDebts, NEW d \in Debts, NEW e \in Entry, NEW keys \in SUBSET Parties, Changes(d, e, keys),
         NEW c \in Debts, Minded(c)
  PROVE  Minded(c)'
<1>0. TypeOK
  BY DEF Typed
<1>1. /\ entries' = [entries EXCEPT ![d] = e] /\ UNCHANGED <<stated, nodes, promises, sync, curating, hand>>
      /\ Live(e) => e.party \in keys
      /\ entries[d].state # "deleted"
      /\ e.state = "complete" /\ e.due # NoDay /\ (e.paid = NoDay \/ e.repaid) =>
           \/ e.party = entries[d].party /\ Committed(d)
           \/ touched' = Touch(d, e) /\ Outstanding(e)
           \/ entries[d].state # "complete" \/ entries[d].due = NoDay
  BY DEF Changes, Change, graph, busy
<1>2. PICK j : j = NewJob("ledger_changed", keys, <<>>)
  OBVIOUS
<1>3. Joins(j) /\ j.keys = keys
  BY <1>0, <1>2, ChangeJoins
<1>4. /\ Len(jobs') = Len(jobs) + 1 /\ DOMAIN jobs' = 1 .. Len(jobs) + 1 /\ DOMAIN jobs = 1 .. Len(jobs) /\ Len(jobs) \in Nat
      /\ DOMAIN jobs \subseteq DOMAIN jobs' /\ (\A i \in DOMAIN jobs : jobs'[i] = jobs[i]) /\ jobs'[Len(jobs) + 1] = j
  BY <1>0, <1>3, JoinIs
<1>5. \A x \in Debts : entries'[x] = IF x = d THEN e ELSE entries[x]
  BY <1>0, <1>1 DEF TypeOK
<1>6. ASSUME entries'[c].party = entries[c].party, Committed(c)' => Committed(c)
      PROVE  Carries(c)
  <2>1. CarriesJobs(c)
    BY <1>1, <1>4, <1>6, UntouchedCarries DEF Untouched, W
  <2>2. CarriesDate(c)
    BY <1>1, <1>4, DateCarries
  <2> QED BY <1>1, <1>4, <1>6, <2>1, <2>2 DEF Carries
<1>7. CASE c # d
  <2>1. entries'[c] = entries[c]
    BY <1>5, <1>7
  <2>2. Mentions(touched', c) <=> Mentions(touched, c)
    BY <1>0, <1>7, ChangeTouches
  <2>3. Carries(c)
    BY <1>6, <2>1 DEF Committed
  <2> QED BY <2>2, <2>3, MindStays
<1>8. CASE c = d
  <2> SUFFICES ASSUME Committed(d)'
               PROVE  /\ SafeBefore(Len(jobs) + 1, d)'
                      /\ ~Mentions(touched', d) /\ stated'[d] # NoDay =>
                           ((Safe(d) /\ Promised(d, stated[d])) \/ ToPromise(d, stated[d]))'
    BY <1>8 DEF Minded, Mentions
  <2>1. entries'[d] = e /\ e.state = "complete" /\ e.due # NoDay /\ (e.paid = NoDay \/ e.repaid)
    BY <1>5 DEF Committed
  <2>2. SafeBefore(Len(jobs) + 1, d)'
    <3>1. PICK n \in Nat : n = Len(jobs) + 1 /\ n \in DOMAIN jobs' /\ n # hand' /\ jobs'[n] = j
      BY <1>1, <1>4 DEF Typed, HandHoldsAJob, NoJob
    <3>2. e.party \in keys
      BY <1>1, <2>1 DEF Live
    <3>3. Fixes(n, d)'
      BY <1>3, <2>1, <3>1, <3>2 DEF Fixes
    <3>4. n < Len(jobs') + 1
      BY <1>4, <3>1
    <3> QED BY <3>1, <3>3, <3>4 DEF SafeBefore
  <2>3. ASSUME ~Mentions(touched', d), stated'[d] # NoDay
        PROVE  ((Safe(d) /\ Promised(d, stated[d])) \/ ToPromise(d, stated[d]))'
    <3>1. ~Mentions(touched, d) /\ stated[d] # NoDay
      BY <1>0, <1>1, <2>3, ChangeTouches
    <3>2. entries[d].state = "complete" /\ entries[d].due # NoDay
      BY <1>1, <3>1 DEF DatesAreOfDebts
    <3>3. ~(touched' = Touch(d, e) /\ Outstanding(e))
      BY <1>0, <2>1, <2>3, TouchIs
    <3>4. e.party = entries[d].party /\ Committed(d)
      BY <1>1, <2>1, <3>2, <3>3
    <3>5. (Safe(d) /\ Promised(d, stated[d])) \/ ToPromise(d, stated[d])
      BY <1>8, <3>1, <3>4 DEF Minded
    <3>6. Carries(d)
      BY <1>6, <1>8, <2>1, <3>4
    <3> QED BY <3>5, <3>6, DateStays
  <2> QED BY <2>2, <2>3
<1> QED BY <1>7, <1>8

LEMMA EndTurnKeepsMind ==
  ASSUME Typed, TypeOK', EndTurn, NEW d \in Debts, Minded(d)
  PROVE  Minded(d)'
<1>0. TypeOK
  BY DEF Typed
<1>1. PICK j : j = NewJob("curate", {}, touched)
  OBVIOUS
<1>2. /\ Joins(j) /\ j.kind = "curate" /\ j.touched = touched /\ touched' = <<>>
      /\ ~Mentions(touched, d) => stated'[d] = stated[d]
      /\ Mentions(touched, d) => Has(touched, d, stated'[d])
      /\ UNCHANGED <<entries, nodes, promises, sync, curating, hand>>
  BY <1>0, <1>1, EndTurnIs DEF graph, busy
<1>4. /\ Len(jobs') = Len(jobs) + 1 /\ DOMAIN jobs' = 1 .. Len(jobs) + 1 /\ DOMAIN jobs = 1 .. Len(jobs) /\ Len(jobs) \in Nat
      /\ DOMAIN jobs \subseteq DOMAIN jobs' /\ (\A i \in DOMAIN jobs : jobs'[i] = jobs[i]) /\ jobs'[Len(jobs) + 1] = j
  BY <1>0, <1>2, JoinIs
<1>5. ~Mentions(touched', d)
  BY <1>2 DEF Mentions
<1>6. CarriesJobs(d)
  BY <1>2, <1>4, UntouchedCarries DEF Untouched, W
<1> SUFFICES ASSUME Committed(d)', stated'[d] # NoDay
             PROVE  ((Safe(d) /\ Promised(d, stated[d])) \/ ToPromise(d, stated[d]))'
  BY <1>5 DEF Minded, Mentions
<1>7. Committed(d)
  BY <1>2 DEF Committed
<1>8. CASE Mentions(touched, d)
  <2>1. PICK n \in Nat : n = Len(jobs) + 1 /\ n \in DOMAIN jobs' /\ n # hand' /\ jobs'[n] = j
    BY <1>2, <1>4 DEF Typed, HandHoldsAJob, NoJob
  <2>2. SafeBefore(n, d)
    BY <1>7, <1>8, <2>1 DEF Minded
  <2>3. SafeBefore(n, d)'
    BY <1>4, <1>6, <2>2, SafeStays
  <2>4. Left(n)' = touched
    BY <1>2, <2>1 DEF Left
  <2>5. Has(Left(n), d, stated[d])'
    BY <1>2, <1>8, <2>4 DEF Has
  <2> QED BY <1>2, <2>1, <2>3, <2>5 DEF ToPromise
<1>9. CASE ~Mentions(touched, d)
  <2>1. CarriesDate(d)
    BY <1>2, <1>4, <1>9, DateCarries
  <2>2. Carries(d)
    BY <1>2, <1>4, <1>6, <1>7, <1>9, <2>1 DEF Carries
  <2>3. (Safe(d) /\ Promised(d, stated[d])) \/ ToPromise(d, stated[d])
    BY <1>2, <1>7, <1>9 DEF Minded
  <2> QED BY <2>2, <2>3, DateStays
<1> QED BY <1>8, <1>9

LEMMA TakeKeepsMind ==
  ASSUME Typed, TypeOK', Take, NEW d \in Debts, Minded(d)
  PROVE  Minded(d)'
<1>0. TypeOK /\ PeopleAreNamed /\ sync \in [Syncers -> Sync] /\ "worker" \in Syncers
  BY DEF Typed, TypeOK, Syncers
<1>1. /\ hand = NoJob /\ hand' \in DOMAIN jobs
      /\ UNCHANGED <<entries, touched, stated, jobs, nodes, promises>> /\ W = Idle
  BY <1>0, TakeIs DEF Typed, HandHoldsAJob, ledger, graph
<1>2. \A k \in DOMAIN jobs : k # hand /\ k # NoJob
  BY <1>0, <1>1, JobIs
<1>3. Sames(d) /\ (Mentions(touched', d) <=> Mentions(touched, d))
  BY <1>0, <1>1 DEF TypeOK, Sames, Mentions
<1>4. W.at # "upsert"
  BY <1>1, IdleIs
<1>5. ASSUME Committed(d) PROVE CarriesJobs(d) /\ CarriesDate(d)
  <2>0. Live(entries[d]) /\ IsDebt(entries[d]) /\ entries[d] # NoEntry
    BY <1>0, <1>5, CommittedIs
  <2>1. CASE jobs[hand'].kind = "ledger_changed" /\ sync' = [sync EXCEPT !["worker"] = Snapshot(jobs[hand'].keys)]
    <3>1. PICK keys \in SUBSET Parties : keys = jobs[hand'].keys
      BY <1>0, <1>1, JobIs
    <3>2. W' = Snapshot(keys)
      BY <1>0, <2>1, <3>1, SyncGoes
    <3>3. /\ W'.keys = keys /\ W'.at = "upsert" /\ W'.rows[d] = Fresh(keys, d)
          /\ Fresh(keys, d) # NoEntry => Fresh(keys, d) = entries[d] /\ entries[d].party \in keys /\ entries[d].party \in W'.left
      BY <1>0, <3>2, SnapshotIs
    <3>4. entries[d].party \in keys => W'.rows[d] = entries[d] /\ entries[d].party \in W'.left
      BY <2>0, <3>3, FreshIs
    <3>5. IsDebt(W'.rows[d]) => W'.rows[d] = entries[d]
      BY <3>3, EntriesAre
    <3>6. Safe(d) => Safe(d)'
      BY <1>1, <2>0, <3>3, <3>4, <3>5 DEF Safe
    <3>7. \A k \in DOMAIN jobs : Fixes(k, d) => Fixes(k, d)'
      BY <1>1, <2>0, <3>1, <3>3, <3>4 DEF Fixes
    <3>8. \A c \in DOMAIN jobs : jobs[c].kind = "curate" => Left(c)' = Left(c)
      BY <1>1, <1>2, <2>1 DEF Left
    <3>9. CarriesDate(d)
      BY <1>1, <3>8 DEF CarriesDate, Has, Promised
    <3> QED BY <3>6, <3>7, <3>9 DEF CarriesJobs
  <2>2. CASE /\ jobs[hand'].kind = "curate" /\ curating' = [left |-> jobs[hand'].touched, old |-> {}]
             /\ sync' = [sync EXCEPT !["worker"] = At(sync["worker"], "curate")]
    <3>1. W'.at = "curate"
      BY <1>0, <2>2, PlaceIs
    <3>2. jobs[hand'].keys = {}
      BY <1>1, <2>2 DEF Typed, JobsAreOrderly
    <3>3. Safe(d) => Safe(d)'
      BY <1>1, <3>1 DEF Safe
    <3>4. \A k \in DOMAIN jobs : Fixes(k, d) => Fixes(k, d)'
      BY <1>1, <3>2 DEF Fixes
    <3>5. curating'.left = jobs[hand'].touched
      BY <2>2
    <3>6. \A c \in DOMAIN jobs : Left(c)' = Left(c)
      BY <1>1, <1>2, <3>5 DEF Left
    <3>7. CarriesDate(d)
      BY <1>1, <3>6 DEF CarriesDate, Has, Promised
    <3> QED BY <3>3, <3>4, <3>7 DEF CarriesJobs
  <2> QED BY <1>0, <2>1, <2>2, TakeIs
<1> QED BY <1>3, <1>5, SamesCarry, MindStays

\* A sync writes a party; what a rebuild writes is what the ledger has.
LEMMA UpsertKeepsMind ==
  ASSUME Typed, TypeOK', GraphCatchesUp, lost = {}, NEW s \in Syncers, NEW p \in Parties, Upsert(s, p), NEW d \in Debts, Minded(d)
  PROVE  Minded(d)'
<1>0. TypeOK /\ PeopleAreNamed /\ sync \in [Syncers -> Sync] /\ RowsWereRead
  BY DEF Typed, TypeOK
<1> PICK X \in Sync : /\ sync' = [sync EXCEPT ![s] = X] /\ X.at = "upsert" /\ X.left = sync[s].left \ {p}
                      /\ X.keys = sync[s].keys /\ X.rows = sync[s].rows
  BY <1>0, UpsertIs
<1>1. /\ sync[s].at = "upsert"
      /\ nodes'[d] = IF IsDebt(sync[s].rows[d]) /\ sync[s].rows[d].party = p THEN Mirrored(sync[s].rows[d]) ELSE nodes[d]
      /\ UNCHANGED <<entries, touched, stated, jobs, hand, promises, curating>>
  BY <1>0, UpsertIs DEF ledger
<1>2. Mirrored(sync[s].rows[d]).party = sync[s].rows[d].party
  BY <1>0, MirrorsAre DEF Sync
<1>3. Sames(d) /\ (Mentions(touched', d) <=> Mentions(touched, d))
  BY <1>0, <1>1 DEF TypeOK, Sames, Mentions
<1>4. CarriesDate(d)
  BY <1>1, DateCarries
<1>5. CASE s = "worker"
  <2>1. W' = X /\ W = sync[s]
    BY <1>0, <1>5, SyncGoes DEF W
  <2>2. Safe(d) => Safe(d)'
    BY <1>1, <1>2, <2>1 DEF Safe
  <2>3. \A k \in DOMAIN jobs : Fixes(k, d) => Safe(d)' \/ Fixes(k, d)'
    <3> SUFFICES ASSUME NEW k \in DOMAIN jobs, Fixes(k, d) PROVE Safe(d)' \/ Fixes(k, d)'
      OBVIOUS
    <3>1. CASE k # hand
      BY <1>1, <3>1 DEF Fixes
    <3>2. CASE k = hand
      <4>1. IsDebt(W.rows[d]) /\ W.rows[d].party = entries[d].party /\ entries[d].party \in W.left /\ entries[d].party \in jobs[k].keys
        BY <3>2 DEF Fixes
      <4>2. CASE entries[d].party = p
        <5>1. nodes'[d].party = entries[d].party
          BY <1>1, <1>2, <2>1, <4>1, <4>2
        <5> QED BY <1>1, <2>1, <4>1, <5>1 DEF Safe
      <4>3. CASE entries[d].party # p
        BY <1>1, <2>1, <3>2, <4>1, <4>3 DEF Fixes
      <4> QED BY <4>2, <4>3
    <3> QED BY <3>1, <3>2
  <2> QED BY <1>3, <1>4, <2>2, <2>3, SamesCarry, MindStays DEF CarriesJobs
<1>6. CASE s = "rebuild"
  <2>1. W' = W /\ R = sync[s] /\ R # Idle
    BY <1>0, <1>1, <1>6, SyncGoes, IdleIs DEF R
  <2>2. IsDebt(R.rows[d]) => R.rows[d] = entries[d]
    BY <2>1, EntriesAre DEF GraphCatchesUp, RebuildIsFresh
  <2>3. nodes[d].party = entries[d].party => nodes'[d].party = entries[d].party
    BY <1>1, <1>2, <2>1, <2>2
  <2>4. Safe(d) => Safe(d)'
    BY <1>1, <2>1, <2>3 DEF Safe
  <2>5. \A k \in DOMAIN jobs : Fixes(k, d) => Fixes(k, d)'
    BY <1>1, <2>1 DEF Fixes
  <2> QED BY <1>3, <1>4, <2>4, <2>5, SamesCarry, MindStays DEF CarriesJobs
<1> QED BY <1>5, <1>6 DEF Syncers

\* The worker's clean-up: what is safe is in what it read.
LEMMA CleanUpKeepsMind ==
  ASSUME Typed, TypeOK', RemoveStale("worker"), NEW d \in Debts, Minded(d)
  PROVE  Minded(d)'
<1>0. TypeOK /\ PeopleAreNamed /\ sync \in [Syncers -> Sync] /\ "worker" \in Syncers
  BY DEF Typed, TypeOK, Syncers
<1>1. PICK doomed : doomed = {c \in Debts : nodes[c].party \in W.keys} \ Alive("worker")
  OBVIOUS
<1>2. /\ W.at = "upsert" /\ W.left = {} /\ Delete(doomed) /\ sync' = [sync EXCEPT !["worker"] = At(sync["worker"], "stale")]
      /\ UNCHANGED <<entries, touched, stated, jobs, hand, curating>>
  BY <1>0, <1>1, RemoveStaleIs DEF ledger, W
<1>3. W'.at = "stale"
  BY <1>0, <1>2, PlaceIs
<1>4. /\ Alike
      /\ \A i \in DOMAIN promises : promises'[i].status = IF promises[i].debt \in doomed THEN "gone" ELSE promises[i].status
      /\ nodes'[d] = IF d \in doomed THEN NoNode ELSE nodes[d]
  BY <1>0, <1>2, DeleteIs
<1>5. Safe(d) => d \notin doomed
  BY <1>1, <1>2 DEF Safe, Alive, W
<1>6. CarriesJobs(d)
  <2>1. Safe(d) => Safe(d)'
    BY <1>2, <1>3, <1>4, <1>5 DEF Safe
  <2>2. \A k \in DOMAIN jobs : Fixes(k, d) => Fixes(k, d)'
    BY <1>2 DEF Fixes
  <2> QED BY <2>1, <2>2 DEF CarriesJobs
<1>7. CarriesDate(d)
  BY <1>2, <1>4, <1>5, DateCarries DEF Alike
<1>8. Sames(d) /\ (Mentions(touched', d) <=> Mentions(touched, d))
  BY <1>0, <1>2 DEF TypeOK, Sames, Mentions
<1> QED BY <1>6, <1>7, <1>8, SamesCarry, MindStays

\* A rebuild removes no debt the trader committed to.
LEMMA RebuildKeepsMind ==
  ASSUME Typed, TypeOK', GraphCatchesUp, lost = {}, R # Idle, NEW doomed, Delete(doomed), \A d \in doomed : ~IsDebt(R.rows[d]),
         doomed \subseteq Debts, W' = W, UNCHANGED <<entries, touched, stated, jobs, hand, curating>>, NEW d \in Debts, Minded(d)
  PROVE  Minded(d)'
<1>0. TypeOK /\ PeopleAreNamed
  BY DEF Typed
<1>1. R.rows[d] = IF Live(entries[d]) THEN entries[d] ELSE NoEntry
  BY DEF GraphCatchesUp, RebuildIsFresh
<1>2. Sames(d) /\ (Mentions(touched', d) <=> Mentions(touched, d))
  BY <1>0 DEF TypeOK, Sames, Mentions
<1>3. ASSUME Committed(d) PROVE CarriesJobs(d) /\ CarriesDate(d)
  <2>1. d \notin doomed
    BY <1>0, <1>1, <1>3, CommittedIs
  <2>2. /\ Alike /\ nodes'[d] = nodes[d]
        /\ \A i \in DOMAIN promises : promises[i].debt = d => promises'[i].status = promises[i].status
    BY <1>0, <2>1, DeleteIs
  <2>3. CarriesJobs(d)
    BY <2>2, UntouchedCarries DEF Untouched
  <2>4. CarriesDate(d)
    BY <2>2, DateCarries DEF Alike
  <2> QED BY <2>3, <2>4
<1> QED BY <1>2, <1>3, SamesCarry, MindStays

\* The worker's job ends early and stays in its place: it will do again what it had to do.
LEMMA StopKeepsMind ==
  ASSUME Typed, TypeOK', StopSync("worker"), NEW d \in Debts, Minded(d)
  PROVE  Minded(d)'
<1>0. TypeOK /\ sync \in [Syncers -> Sync] /\ "worker" \in Syncers /\ HandHoldsAJob
  BY DEF Typed, TypeOK, Syncers
<1>1. /\ W.at # "idle" /\ hand \in DOMAIN jobs /\ hand' = NoJob /\ sync' = [sync EXCEPT !["worker"] = Idle] /\ SameJobs
      /\ UNCHANGED <<entries, touched, stated, nodes, promises>>
  BY StopIs DEF ledger, graph
<1>2. W' = Idle /\ W'.at = "idle"
  BY <1>0, <1>1, SyncGoes, IdleIs
<1>3. \A k \in DOMAIN jobs : k # hand' /\ jobs'[k].keys = jobs[k].keys /\ jobs'[k].kind = jobs[k].kind /\ jobs'[k].touched = jobs[k].touched
  BY <1>0, <1>1, JobIs DEF SameJobs
<1>4. CarriesJobs(d)
  <2>1. Safe(d) => Safe(d)'
    BY <1>1, <1>2 DEF Safe
  <2>2. \A k \in DOMAIN jobs : Fixes(k, d) => Fixes(k, d)'
    BY <1>1, <1>3 DEF Fixes
  <2> QED BY <2>1, <2>2 DEF CarriesJobs
<1>5. \A c \in DOMAIN jobs : jobs[c].kind = "curate" /\ Has(Left(c), d, stated[d]) => Has(Left(c), d, stated[d])'
  <2> SUFFICES ASSUME NEW c \in DOMAIN jobs, jobs[c].kind = "curate", Has(Left(c), d, stated[d]) PROVE Has(Left(c), d, stated[d])'
    OBVIOUS
  <2>1. Left(c)' = jobs[c].touched
    BY <1>3 DEF Left
  <2>2. CASE c # hand
    BY <1>1, <2>1, <2>2 DEF Left, Has
  <2>3. CASE c = hand
    <3>1. W.at \in {"curate", "replace"}
      <4>1. W # Idle
        BY <1>1, IdleIs
      <4> QED BY <1>0, <2>3, <4>1 DEF HandHoldsAJob
    <3>2. \A k \in DOMAIN curating.left : \E l \in DOMAIN jobs[hand].touched : curating.left[k] = jobs[hand].touched[l]
      BY <1>0, <3>1 DEF HandHoldsAJob
    <3>3. Has(jobs[c].touched, d, stated[d])
      BY <2>3, <3>2 DEF Left, Has
    <3> QED BY <1>1, <2>1, <3>3 DEF Has
  <2> QED BY <2>2, <2>3
<1>6. CarriesDate(d)
  BY <1>1, <1>3, <1>5 DEF CarriesDate, Promised
<1>7. Sames(d) /\ (Mentions(touched', d) <=> Mentions(touched, d))
  BY <1>1 DEF SameJobs, Sames, Mentions
<1> QED BY <1>4, <1>6, <1>7, SamesCarry, MindStays

\* The worker's job is done and leaves the queue: it was the first, and had nothing left to do.
LEMMA FinishKeepsMind ==
  ASSUME Typed, TypeOK', Finish, lost = {}, NEW d \in Debts, Minded(d)
  PROVE  Minded(d)'
<1>0. TypeOK /\ sync \in [Syncers -> Sync] /\ "worker" \in Syncers /\ HandHoldsAJob /\ JobsAreOrderly
  BY DEF Typed, TypeOK, Syncers
<1>1. /\ hand \in DOMAIN jobs /\ hand' = NoJob
      /\ W.at = "done" \/ (W.at = "curate" /\ curating.left = <<>>)
      /\ sync' = [sync EXCEPT !["worker"] = Idle]
      /\ Len(jobs') = Len(jobs) - 1 /\ DOMAIN jobs' = 1 .. Len(jobs) - 1
      /\ \A k \in DOMAIN jobs' : jobs'[k] = IF k < hand THEN jobs[k] ELSE jobs[k + 1]
      /\ UNCHANGED <<entries, touched, stated, nodes, promises>>
      /\ DOMAIN jobs = 1 .. Len(jobs) /\ Len(jobs) \in Nat
  BY <1>0, FinishIs DEF ledger, graph, TypeOK
<1>2. W' = Idle /\ W'.at = "idle"
  BY <1>0, <1>1, SyncGoes, IdleIs
<1>3. hand = 1
  BY <1>0, <1>1, JobIs DEF JobsAreOrderly, NoJob
<1>4. \A k \in DOMAIN jobs : k # hand => k - 1 \in DOMAIN jobs' /\ jobs'[k - 1] = jobs[k] /\ k - 1 # hand'
  <2> SUFFICES ASSUME NEW k \in DOMAIN jobs, k # hand PROVE k - 1 \in DOMAIN jobs' /\ jobs'[k - 1] = jobs[k] /\ k - 1 # hand'
    OBVIOUS
  <2>1. k - 1 \in DOMAIN jobs' /\ ~(k - 1 < 1) /\ (k - 1) + 1 = k /\ k - 1 # hand'
    BY <1>1, <1>3 DEF NoJob
  <2> QED BY <1>1, <1>3, <2>1
<1>5. Safe(d) => Safe(d)'
  BY <1>1, <1>2 DEF Safe
<1>6. ~Fixes(hand, d)
  BY <1>1 DEF Fixes
<1>7. \A k \in DOMAIN jobs : Fixes(k, d) => k # hand /\ k - 1 \in DOMAIN jobs' /\ (\A l : l = k - 1 => Fixes(l, d)')
  BY <1>1, <1>4, <1>6 DEF Fixes
<1>8. \A n \in Nat, m \in Nat : n = m + 1 /\ SafeBefore(n, d) => SafeBefore(m, d)'
  <2> SUFFICES ASSUME NEW n \in Nat, NEW m \in Nat, n = m + 1, SafeBefore(n, d) PROVE SafeBefore(m, d)'
    OBVIOUS
  <2>1. CASE Safe(d)
    BY <1>5, <2>1 DEF SafeBefore
  <2>2. ASSUME NEW k \in DOMAIN jobs, k < n, Fixes(k, d) PROVE SafeBefore(m, d)'
    <3>1. PICK l : l = k - 1 /\ l \in DOMAIN jobs' /\ Fixes(l, d)'
      BY <1>7, <2>2
    <3>2. l < m
      BY <1>1, <2>2, <3>1
    <3> QED BY <3>1, <3>2 DEF SafeBefore
  <2> QED BY <2>1, <2>2 DEF SafeBefore
<1> SUFFICES ASSUME Committed(d)'
             PROVE  /\ Mentions(touched', d) => SafeBefore(Len(jobs) + 1, d)'
                    /\ ~Mentions(touched', d) /\ stated'[d] # NoDay =>
                         ((Safe(d) /\ Promised(d, stated[d])) \/ ToPromise(d, stated[d]))'
  BY DEF Minded, Mentions
<1>9. Committed(d) /\ stated' = stated /\ touched' = touched
  BY <1>1 DEF Committed
<1>10. ASSUME Mentions(touched, d) PROVE SafeBefore(Len(jobs) + 1, d)'
  <2>1. PICK n \in Nat : n = Len(jobs) + 1 /\ SafeBefore(n, d)
    BY <1>1, <1>9, <1>10 DEF Minded
  <2>2. PICK m \in Nat : m = Len(jobs') + 1 /\ n = m + 1
    BY <1>1, <2>1
  <2>3. SafeBefore(m, d)'
    BY <1>8, <2>1, <2>2
  <2> QED BY <2>2, <2>3
<1>11. ASSUME ~Mentions(touched, d), stated[d] # NoDay
       PROVE  ((Safe(d) /\ Promised(d, stated[d])) \/ ToPromise(d, stated[d]))'
  <2>1. CASE Safe(d) /\ Promised(d, stated[d])
    BY <1>1, <1>5, <2>1 DEF Promised
  <2>2. CASE ToPromise(d, stated[d])
    <3>1. PICK c \in DOMAIN jobs : jobs[c].kind = "curate" /\ Has(Left(c), d, stated[d]) /\ SafeBefore(c, d)
      BY <2>2 DEF ToPromise
    <3>2. c # hand
      <4>1. CASE W.at = "done"
        BY <1>0, <3>1, <4>1 DEF HandHoldsAJob
      <4>2. CASE curating.left = <<>>
        BY <3>1, <4>2 DEF Left, Has
      <4> QED BY <1>1, <4>1, <4>2
    <3>3. PICK l \in Nat : l = c - 1 /\ l \in DOMAIN jobs' /\ jobs'[l] = jobs[c] /\ l # hand' /\ c \in Nat /\ c = l + 1
      <4>1. c - 1 \in Nat /\ c \in Nat /\ c = (c - 1) + 1
        BY <1>1
      <4> QED BY <1>4, <3>2, <4>1
    <3>4. SafeBefore(l, d)'
      BY <1>8, <3>1, <3>3
    <3>5. Left(l)' = Left(c)
      BY <3>2, <3>3 DEF Left
    <3>6. Has(Left(l), d, stated[d])'
      BY <1>9, <3>1, <3>5 DEF Has
    <3> QED BY <3>1, <3>3, <3>4, <3>6 DEF ToPromise
  <2> QED BY <1>9, <1>11, <2>1, <2>2 DEF Minded
<1> QED BY <1>9, <1>10, <1>11

\* A curation goes on: the entry it leaves has its promise, or is of another debt or day.
LEMMA OnwardKeepsMind ==
  ASSUME Typed, TypeOK', lost = {}, NEW at \in {"curate", "replace"}, Onward(at), W'.at \in {"curate", "replace"},
         UNCHANGED <<entries, touched, stated, jobs, hand, nodes>>,
         DOMAIN promises \subseteq DOMAIN promises', \A i \in DOMAIN promises : promises'[i] = promises[i],
         \A debt, due : nodes[First.debt] # NoNode /\ debt = First.debt /\ due = First.due => Promised(debt, due)',
         NEW d \in Debts, Minded(d)
  PROVE  Minded(d)'
<1>0. TypeOK /\ PeopleAreNamed /\ HandHoldsAJob /\ JobsAreOrderly
  BY DEF Typed
<1>1. W.at = at /\ curating.left # <<>> /\ curating'.left = Tail(curating.left) /\ W.at # "upsert" /\ W'.at # "upsert"
  BY DEF Onward
<1>2. CarriesJobs(d)
  BY <1>1, UntouchedCarries DEF Untouched
<1>3. Sames(d) /\ (Mentions(touched', d) <=> Mentions(touched, d))
  BY <1>0 DEF TypeOK, Sames, Mentions
<1>4. hand = 1
  <2>1. W # Idle
    BY <1>1, IdleIs
  <2> QED BY <1>0, <2>1 DEF HandHoldsAJob, JobsAreOrderly, NoJob
<1>5. ASSUME Committed(d) PROVE CarriesDate(d)
  <2>1. Safe(d) /\ Promised(d, stated[d]) => Promised(d, stated[d])'
    BY DEF Promised
  <2>2. ASSUME NEW c \in DOMAIN jobs, jobs[c].kind = "curate", Has(Left(c), d, stated[d]), SafeBefore(c, d)
        PROVE  (jobs'[c].kind = "curate" /\ Has(Left(c), d, stated[d])') \/ (Safe(d) /\ Promised(d, stated[d]))'
    <3>1. CASE c # hand
      <4>1. Left(c)' = Left(c)
        BY <3>1 DEF Left
      <4> QED BY <2>2, <4>1 DEF Has
    <3>2. CASE c = hand
      <4>1. PICK k \in DOMAIN curating.left : curating.left[k].debt = d /\ curating.left[k].due = stated[d]
        BY <2>2, <3>2 DEF Left, Has
      <4>2. CASE k # 1
        <5>1. k - 1 \in DOMAIN curating'.left /\ curating'.left[k - 1] = curating.left[k]
          BY <1>0, <1>1, <4>2, FirstIs
        <5>2. Left(c)' = curating'.left
          BY <3>2 DEF Left
        <5>3. Has(Left(c), d, stated[d])'
          BY <4>1, <5>1, <5>2 DEF Has
        <5> QED BY <2>2, <5>3
      <4>3. CASE k = 1
        <5>1. First.debt = d /\ First.due = stated[d]
          BY <1>0, <1>1, <4>1, <4>3, FirstIs
        <5>2. Safe(d)
          <6>1. \A j \in DOMAIN jobs : ~(j < 1)
            BY <1>0 DEF TypeOK
          <6> QED BY <1>4, <2>2, <3>2, <6>1 DEF SafeBefore
        <5>3. nodes[d] # NoNode
          BY <1>0, <1>5, <5>2, CommittedIs, MirrorsAre DEF Safe
        <5>4. Promised(d, stated[d])'
          BY <5>1, <5>3 DEF Promised
        <5>5. Safe(d)'
          BY <1>2, <5>2 DEF CarriesJobs
        <5> QED BY <5>4, <5>5
      <4> QED BY <4>2, <4>3
    <3> QED BY <3>1, <3>2
  <2> QED BY <2>1, <2>2 DEF CarriesDate
<1> QED BY <1>2, <1>3, <1>5, SamesCarry, MindStays

LEMMA LostOnlyGrows ==
  ASSUME Typed, [Next]_vars
  PROVE  lost \subseteq lost'
<1>0. TypeOK /\ PeopleAreNamed
  BY DEF Typed
<1>1. CASE LedgerStep
  BY <1>0, <1>1, LedgerChanges DEF Changes, Change
<1>2. CASE TurnStep \/ UNCHANGED vars
  BY <1>2 DEF TurnStep, EndTurn, FailTurn, NextDay, vars
<1>3. CASE SyncStep
  <2>1. CASE Take \/ Finish \/ StartRebuild \/ Prune
    BY <1>0, <2>1, TakeIs, FinishIs DEF StartRebuild, Prune
  <2>2. ASSUME NEW s \in Syncers, RemoveStale(s) \/ MarkKept(s)
        PROVE  lost \subseteq lost'
    BY <2>2 DEF RemoveStale, MarkKept
  <2>3. ASSUME NEW s \in Syncers, NEW p \in Parties, Upsert(s, p) PROVE lost \subseteq lost'
    BY <2>3 DEF Upsert
  <2>4. ASSUME NEW i, Requeue(i) PROVE lost \subseteq lost'
    BY <2>4 DEF Requeue
  <2>5. ASSUME NEW s \in Syncers, StopSync(s) PROVE lost \subseteq lost'
    BY <2>5, StopIs DEF StopSync, Syncers
  <2> QED BY <1>3, <2>1, <2>2, <2>3, <2>4, <2>5 DEF SyncStep
<1>4. CASE CurateStep
  BY <1>4 DEF CurateStep, CurateSkip, CurateRead, AddPromise, CloseOld
<1>5. CASE SweepStep
  BY <1>5 DEF SweepStep, StartSweep, StopSweep, Settle, Forget
<1> QED BY <1>1, <1>2, <1>3, <1>4, <1>5 DEF Next

LEMMA SyncStepKeepsMind ==
  ASSUME Typed, TypeOK', GraphCatchesUp, lost = {}, lost' = {}, SyncStep, NEW d \in Debts, Minded(d)
  PROVE  Minded(d)'
<1>0. TypeOK /\ PeopleAreNamed /\ JobsAreOrderly /\ sync \in [Syncers -> Sync] /\ "worker" \in Syncers /\ "rebuild" \in Syncers
  BY DEF Typed, TypeOK, Syncers
<1>1. CASE StartRebuild
  <2>1. sync' = [sync EXCEPT !["rebuild"] = Snapshot(KeysOf(entries))]
        /\ UNCHANGED <<entries, touched, stated, jobs, hand, nodes, promises, curating>>
    BY <1>1 DEF StartRebuild, ledger, graph
  <2>2. W' = W
    BY <1>0, <2>1, SyncGoes
  <2>3. Alike /\ \A i \in DOMAIN promises : promises'[i].status = "gone" => promises[i].status = "gone"
    BY <1>0, <2>1, StillAlike DEF PromisesGo
  <2> QED BY <2>1, <2>2, <2>3, QuietKeepsMind
<1>2. CASE StopSync("rebuild")
  <2>1. sync' = [sync EXCEPT !["rebuild"] = Idle] /\ UNCHANGED <<entries, touched, stated, jobs, hand, nodes, promises, curating>>
    BY <1>2 DEF StopSync, ledger, graph
  <2>2. W' = W
    BY <1>0, <2>1, SyncGoes
  <2>3. Alike /\ \A i \in DOMAIN promises : promises'[i].status = "gone" => promises[i].status = "gone"
    BY <1>0, <2>1, StillAlike DEF PromisesGo
  <2> QED BY <2>1, <2>2, <2>3, QuietKeepsMind
<1>3. ASSUME NEW s \in Syncers, MarkKept(s) PROVE Minded(d)'
  <2>1. /\ Alike /\ sync' = [sync EXCEPT ![s] = At(sync[s], IF s = "worker" THEN "done" ELSE "prune")] /\ sync[s].at = "stale"
        /\ UNCHANGED <<entries, touched, stated, jobs, hand, nodes, curating>>
        /\ \A i \in DOMAIN promises : promises'[i].status = "gone" => promises[i].status = "gone"
    BY <1>0, <1>3, MarkKeptIs DEF ledger
  <2>2. W' = W \/ (W.at # "upsert" /\ W'.at # "upsert")
    <3>1. CASE s = "worker"
      <4>1. W.at = "stale" /\ W'.at = "done"
        BY <1>0, <2>1, <3>1, PlaceIs DEF W
      <4> QED BY <4>1
    <3>2. CASE s = "rebuild"
      <4>1. W' = W
        BY <1>0, <2>1, <3>2, SyncGoes
      <4> QED BY <4>1
    <3> QED BY <3>1, <3>2 DEF Syncers
  <2> QED BY <2>1, <2>2, QuietKeepsMind
<1>4. CASE Prune
  <2>1. /\ R.at = "prune" /\ Delete(Debts \ Alive("rebuild")) /\ sync' = [sync EXCEPT !["rebuild"] = Idle]
        /\ UNCHANGED <<entries, touched, stated, jobs, hand, curating>>
    BY <1>4 DEF Prune, ledger, R
  <2>2. R # Idle /\ W' = W
    BY <1>0, <2>1, SyncGoes, IdleIs
  <2>3. \A c \in Debts \ Alive("rebuild") : ~IsDebt(R.rows[c])
    BY DEF Alive, R
  <2> QED BY <2>1, <2>2, <2>3, RebuildKeepsMind
<1>5. CASE RemoveStale("rebuild")
  <2>1. PICK doomed : doomed = {c \in Debts : nodes[c].party \in R.keys} \ Alive("rebuild")
    OBVIOUS
  <2>2. /\ R.at = "upsert" /\ Delete(doomed) /\ sync' = [sync EXCEPT !["rebuild"] = At(sync["rebuild"], "stale")]
        /\ UNCHANGED <<entries, touched, stated, jobs, hand, curating>>
    BY <1>0, <1>5, <2>1, RemoveStaleIs DEF ledger, R
  <2>3. R # Idle /\ W' = W
    BY <1>0, <2>2, SyncGoes, IdleIs
  <2>4. doomed \subseteq Debts /\ \A c \in doomed : ~IsDebt(R.rows[c])
    BY <2>1 DEF Alive, R
  <2> QED BY <2>2, <2>3, <2>4, RebuildKeepsMind
<1>6. ASSUME NEW i, Requeue(i) PROVE FALSE
  BY <1>0, <1>6, RequeueIs DEF JobsAreOrderly
<1> QED BY <1>1, <1>2, <1>3, <1>4, <1>5, <1>6, TakeKeepsMind, FinishKeepsMind, UpsertKeepsMind, CleanUpKeepsMind, StopKeepsMind
        DEF SyncStep, Syncers

LEMMA CurateStepKeepsMind ==
  ASSUME Typed, TypeOK', lost = {}, CurateStep, NEW d \in Debts, Minded(d)
  PROVE  Minded(d)'
<1>0. TypeOK /\ sync \in [Syncers -> Sync] /\ "worker" \in Syncers /\ Len(promises) <= MaxPromises
  BY DEF Typed, TypeOK, Syncers
<1>1. CASE CurateSkip
  <2>1. /\ Onward("curate")
        /\ nodes[First.debt] = NoNode \/ \E i \in Open(First.debt) : promises[i].due = First.due
        /\ UNCHANGED <<entries, touched, stated, jobs, hand, nodes, promises, sync>>
    BY <1>0, <1>1, CurateSkipIs DEF ledger, graph
  <2>2. \A debt, due : nodes[First.debt] # NoNode /\ debt = First.debt /\ due = First.due => Promised(debt, due)'
    BY <1>0, <2>1, OpenIs DEF Promised
  <2>3. W'.at \in {"curate", "replace"}
    BY <2>1 DEF Onward, W
  <2> QED BY <2>1, <2>2, <2>3, OnwardKeepsMind
<1>2. CASE AddPromise
  <2>1. /\ Onward("replace") /\ sync' = [sync EXCEPT !["worker"] = At(sync["worker"], "curate")]
        /\ UNCHANGED <<entries, touched, stated, jobs, hand, nodes>>
        /\ DOMAIN promises \subseteq DOMAIN promises' /\ \A i \in DOMAIN promises : promises'[i] = promises[i]
        /\ \/ promises' = promises /\ nodes[First.debt] = NoNode
           \/ /\ DOMAIN promises' = DOMAIN promises \cup {Len(promises) + 1}
              /\ promises'[Len(promises) + 1].debt = First.debt /\ promises'[Len(promises) + 1].due = First.due
              /\ promises'[Len(promises) + 1].status = "open"
    BY <1>2, AddPromiseIs DEF ledger
  <2>2. \A debt, due : nodes[First.debt] # NoNode /\ debt = First.debt /\ due = First.due => Promised(debt, due)'
    BY <2>1 DEF Promised
  <2>3. W'.at \in {"curate", "replace"}
    BY <1>0, <2>1, PlaceIs
  <2> QED BY <2>1, <2>2, <2>3, OnwardKeepsMind
<1>3. CASE CurateRead
  <2>1. /\ W.at = "curate" /\ curating'.left = curating.left /\ sync' = [sync EXCEPT !["worker"] = At(sync["worker"], "replace")]
        /\ UNCHANGED <<entries, touched, stated, jobs, hand, nodes, promises>>
    BY <1>0, <1>3, CurateReadIs DEF ledger, graph
  <2>2. W'.at = "replace"
    BY <1>0, <2>1, PlaceIs
  <2>3. Alike /\ \A i \in DOMAIN promises : promises'[i].status = "gone" => promises[i].status = "gone"
    BY <1>0, <2>1, StillAlike DEF PromisesGo
  <2> QED BY <2>1, <2>2, <2>3, QuietKeepsMind
<1>4. ASSUME NEW i \in Ids, CloseOld(i) PROVE Minded(d)'
  <2>1. /\ SetStatus(i, IF promises[i].due < jobs[hand].on THEN "broken" ELSE "replaced")
        /\ curating'.left = curating.left /\ UNCHANGED <<entries, touched, stated, jobs, hand, nodes, sync>>
    BY <1>0, <1>4, CloseOldIs DEF ledger
  <2>2. PICK st \in {"kept", "broken", "replaced"} : st = IF promises[i].due < jobs[hand].on THEN "broken" ELSE "replaced"
    OBVIOUS
  <2>3. /\ Alike
        /\ \A j \in DOMAIN promises : j # i => promises'[j] = promises[j]
        /\ i \in DOMAIN promises => promises'[i].status = IF promises[i].status = "gone" THEN "gone" ELSE st
    BY <1>0, <2>1, <2>2, SetStatusAny
  <2>4. \A j \in DOMAIN promises : promises'[j].status = "gone" => promises[j].status = "gone"
    BY <2>3
  <2>5. W' = W
    BY <2>1 DEF W
  <2> QED BY <2>1, <2>3, <2>4, <2>5, QuietKeepsMind
<1> QED BY <1>1, <1>2, <1>3, <1>4 DEF CurateStep

LEMMA SweepStepKeepsMind ==
  ASSUME Typed, TypeOK', lost' = {}, SweepStep, NEW d \in Debts, Minded(d)
  PROVE  Minded(d)'
<1>0. TypeOK
  BY DEF Typed
<1>1. CASE StartSweep \/ StopSweep
  <2>1. UNCHANGED <<entries, touched, stated, jobs, hand, nodes, promises, sync, curating>>
    BY <1>1 DEF StartSweep, StopSweep, ledger, graph, busy
  <2>2. Alike /\ W' = W /\ \A i \in DOMAIN promises : promises'[i].status = "gone" => promises[i].status = "gone"
    BY <1>0, <2>1, StillAlike DEF PromisesGo, W
  <2> QED BY <2>1, <2>2, QuietKeepsMind
<1>2. ASSUME NEW v, Settle(v) PROVE Minded(d)'
  <2>1. SetStatus(v.id, v.status) /\ v.status \in {"kept", "broken"}
        /\ UNCHANGED <<entries, touched, stated, jobs, hand, nodes, sync, curating>>
    BY <1>0, <1>2, SettleIs DEF ledger, busy
  <2>2. PICK st \in {"kept", "broken", "replaced"} : st = v.status
    BY <2>1
  <2>3. /\ Alike
        /\ \A j \in DOMAIN promises : j # v.id => promises'[j] = promises[j]
        /\ v.id \in DOMAIN promises => promises'[v.id].status = IF promises[v.id].status = "gone" THEN "gone" ELSE st
    BY <1>0, <2>1, <2>2, SetStatusAny
  <2>4. \A j \in DOMAIN promises : promises'[j].status = "gone" => promises[j].status = "gone"
    BY <2>3
  <2>5. W' = W
    BY <2>1 DEF W
  <2> QED BY <2>1, <2>3, <2>4, <2>5, QuietKeepsMind
<1>3. ASSUME NEW p, Forget(p) PROVE FALSE
  BY <1>3 DEF Forget
<1> QED BY <1>1, <1>2, <1>3 DEF SweepStep

\* What is kept in mind stays in mind.
LEMMA MindKept ==
  ASSUME Typed, GraphCatchesUp, DatesAreOfDebts, DatesAreKeptInMind, [Next]_vars
  PROVE  DatesAreKeptInMind'
<1>0. TypeOK /\ TypeOK' /\ PeopleAreNamed /\ lost \subseteq lost'
  BY TypedKept, LostOnlyGrows DEF Typed
<1> SUFFICES ASSUME "job" \notin lost', "overtaken" \notin lost', "turn" \notin lost', "forgotten" \notin lost', NEW d \in Debts
             PROVE  Minded(d)'
  BY DEF DatesAreKeptInMind, Minded
<1>6. lost' = {}
  BY <1>0 DEF TypeOK
<1>1. lost = {} /\ Minded(d)
  BY <1>0, <1>6, MindIs
<1>2. CASE LedgerStep
  BY <1>0, <1>1, <1>2, LedgerChanges, LedgerKeepsMind
<1>3. CASE EndTurn
  BY <1>0, <1>1, <1>3, EndTurnKeepsMind
<1>4. CASE FailTurn
  BY <1>4, <1>6 DEF FailTurn
<1>5. CASE NextDay \/ UNCHANGED vars
  <2>1. UNCHANGED <<entries, touched, stated, jobs, hand, nodes, promises, sync, curating>>
    BY <1>5 DEF NextDay, vars, ledger, graph, busy
  <2>2. Alike /\ W' = W /\ \A i \in DOMAIN promises : promises'[i].status = "gone" => promises[i].status = "gone"
    BY <1>0, <2>1, StillAlike DEF PromisesGo, W
  <2> QED BY <1>0, <1>1, <2>1, <2>2, QuietKeepsMind
<1> QED BY <1>0, <1>1, <1>2, <1>3, <1>4, <1>5, <1>6, SyncStepKeepsMind, CurateStepKeepsMind, SweepStepKeepsMind DEF Next, TurnStep

-----------------------------------------------------------------------------
(* The theorems.                                                           *)

LEMMA InitHolds ==
  ASSUME Init
  PROVE  IInv
<1>1. /\ today = 1 /\ entries = [d \in Debts |-> NoEntry] /\ touched = <<>> /\ jobs = <<>>
      /\ nodes = [d \in Debts |-> NoNode] /\ promises = <<>>
      /\ sync = [s \in Syncers |-> Idle] /\ curating = NotCurating /\ hand = NoJob /\ verdicts = {}
      /\ stated = [d \in Debts |-> NoDay] /\ cleared = [d \in Debts |-> {}] /\ lost = {}
      /\ changes = 0 /\ mishaps = 0
  BY DEF Init
<1>2. W = Idle /\ R = Idle /\ W.at = "idle" /\ \A s \in Syncers : sync[s] = Idle
  BY <1>1, IdleIs DEF W, R, Syncers
<1>3. DOMAIN jobs = {} /\ DOMAIN promises = {} /\ DOMAIN touched = {} /\ Len(promises) = 0 /\ Len(jobs) = 0
  BY <1>1
<1>4. TypeOK
  <2>1. today \in 1 .. LastDay + 1 /\ hand \in 0 .. MaxJobs /\ changes \in Nat /\ mishaps \in Nat
    BY <1>1, BoundsAreNatural DEF NoJob
  <2>2. touched \in Seq(Stated) /\ jobs \in Seq(Job) /\ promises \in Seq(Promise)
    BY <1>1, EmptySeq
  <2>3. entries \in [Debts -> Entry] /\ nodes \in [Debts -> Node] /\ sync \in [Syncers -> Sync] /\ curating \in Curating
    BY <1>1, EntriesAre, MirrorsAre, IdleIs, CuratingIs
  <2>4. stated \in [Debts -> Days \cup {NoDay}] /\ cleared \in [Debts -> SUBSET Days]
    BY <1>1
  <2> QED BY <1>1, <2>1, <2>2, <2>3, <2>4 DEF TypeOK
<1>5. \A d \in Debts : entries[d] = NoEntry /\ nodes[d] = NoNode /\ stated[d] = NoDay /\ ~Mentions(touched, d)
  BY <1>1, <1>3 DEF Mentions
<1>6. HandHoldsAJob
  BY <1>1, <1>2, IdleIs DEF HandHoldsAJob
<1>7. JobsAreOrderly
  BY <1>1, <1>3, BoundsAreNatural DEF JobsAreOrderly, NoJob
<1>8. RowsWereRead
  BY <1>2, IdleIs DEF RowsWereRead
<1>9. PeopleAreNamed
  BY <1>5, EntriesAre, MirrorsAre DEF PeopleAreNamed
<1>10. GraphCatchesUp
  BY <1>2, <1>5, EntriesAre DEF GraphCatchesUp, OldRowsAreQueued, RebuildIsFresh, NodesAreRight, DebtsAreThere, Wanted
<1>11. OnePromiseEach
  BY <1>2, <1>3, BoundsAreNatural DEF OnePromiseEach
<1>12. DatesAreOfDebts
  BY <1>5 DEF DatesAreOfDebts
<1>13. DatesAreKeptInMind
  BY <1>5 DEF DatesAreKeptInMind
<1>14. ClearedDaysAreReal
  BY <1>2, <1>5, EntriesAre, MirrorsAre, IdleIs DEF ClearedDaysAreReal
<1>15. OutcomesAreRight
  BY <1>1, <1>3 DEF OutcomesAreRight
<1> QED BY <1>4, <1>6, <1>7, <1>8, <1>9, <1>10, <1>11, <1>12, <1>13, <1>14, <1>15 DEF IInv

LEMMA IInvIsTyped ==
  ASSUME IInv
  PROVE  Typed
  BY DEF IInv, Typed, OnePromiseEach

LEMMA NextKeepsInvariant ==
  ASSUME IInv, [Next]_vars
  PROVE  IInv'
<1>1. Typed
  BY IInvIsTyped
<1>2. GraphCatchesUp /\ OnePromiseEach /\ DatesAreOfDebts /\ DatesAreKeptInMind /\ ClearedDaysAreReal /\ OutcomesAreRight
  BY DEF IInv
<1>3. TypeOK' /\ HandHoldsAJob' /\ JobsAreOrderly' /\ RowsWereRead' /\ PeopleAreNamed'
  BY <1>1, TypedKept DEF Typed
<1>4. GraphCatchesUp' /\ OnePromiseEach'
  BY <1>1, <1>2, GraphKept, OnePromiseKept
<1>5. DatesAreOfDebts' /\ DatesAreKeptInMind'
  BY <1>1, <1>2, DatesOfDebtsKept, MindKept
<1>6. ClearedDaysAreReal' /\ OutcomesAreRight'
  BY <1>1, <1>2, ClearedDaysKept, OutcomesKept
<1> QED BY <1>3, <1>4, <1>5, <1>6 DEF IInv

\* However changes, turns, syncs, rebuilds, curations and sweeps take turns: the worker's job is
\* in the queue, the oldest first; a row, a node or a date that is out of step with the ledger is
\* about to be put right; promises are one for each debt, and outcomes earned.
THEOREM InvariantHolds == Spec => []IInv
<1>1. Init => IInv
  BY InitHolds
<1>2. IInv /\ [Next]_vars => IInv'
  BY NextKeepsInvariant
<1> QED BY <1>1, <1>2, PTL DEF Spec

\* The graph, the queue and the syncs in progress keep the shapes FalkorDB, jobs and
\* memory/sync.py give them.
THEOREM TypeCorrect == Spec => []TypeOK
<1>1. IInv => TypeOK
  BY DEF IInv
<1> QED BY <1>1, InvariantHolds, PTL

LEMMA SettledFollows ==
  ASSUME IInv
  PROVE  GraphFollowsLedger
<1> SUFFICES ASSUME Settled, "overtaken" \notin lost, NEW d \in Debts PROVE nodes[d] = Wanted(d)
  BY DEF GraphFollowsLedger, Wanted
<1>1. NodesAreRight /\ DebtsAreThere /\ PeopleAreNamed
  BY DEF IInv, GraphCatchesUp
<1>2. W.at # "upsert" /\ Queued = {}
  <2>1. DOMAIN jobs = {} /\ W = Idle
    BY DEF Settled, W, Syncers
  <2> QED BY <2>1, IdleIs DEF Queued
<1>3. CASE IsDebt(entries[d])
  BY <1>1, <1>2, <1>3 DEF DebtsAreThere, Wanted
<1>4. CASE ~IsDebt(entries[d])
  <2>1. nodes[d] = Wanted(d) \/ nodes[d].party = NoParty
    BY <1>1, <1>2 DEF NodesAreRight
  <2> QED BY <1>1, <1>4, <2>1 DEF PeopleAreNamed, Wanted
<1> QED BY <1>3, <1>4

\* Once nothing is queued or running the graph has exactly the ledger's debts, each under its
\* person and open or cleared on the ledger's day, in whatever order changes, syncs of the worker
\* (memory/sync.py), their failures and retries and a rebuild came about.
THEOREM GraphCatchesUpWithLedger == Spec => []GraphFollowsLedger
<1>1. IInv => GraphFollowsLedger
  BY SettledFollows
<1> QED BY <1>1, InvariantHolds, PTL

LEMMA DatesFollow ==
  ASSUME IInv
  PROVE  PromisesFollowDates
<1>0. TypeOK /\ PeopleAreNamed /\ OnePromiseEach /\ DatesAreOfDebts /\ DatesAreKeptInMind
  BY DEF IInv
<1>1. OneOpenPromise
  <2> SUFFICES ASSUME NEW d \in Debts PROVE Cardinality(Open(d)) <= 1
    BY DEF OneOpenPromise
  <2>1. \A i, j \in Open(d) : i = j
    BY <1>0, OpenIs DEF OnePromiseEach
  <2>2. CASE Open(d) = {}
    BY <2>2, FS_EmptySet
  <2>3. CASE Open(d) # {}
    <3>1. PICK i : Open(d) = {i}
      BY <2>1, <2>3
    <3>2. PICK S : S = Open(d)
      OBVIOUS
    <3>3. S = {i}
      BY <3>1, <3>2
    <3>4. Cardinality(S) = 1
      BY <3>3, FS_Singleton, Zenon
    <3>5. Cardinality(S) <= 1
      BY <3>4, SMT
    <3> QED BY <3>2, <3>5, Zenon
  <2> QED BY <2>2, <2>3
<1>2. StatedDatesArePromises
  <2> SUFFICES ASSUME Settled, lost = {}, NEW d \in Debts, Outstanding(entries[d]), stated[d] # NoDay
               PROVE  \E i \in 1 .. Len(promises) : promises[i].debt = d /\ promises[i].due = stated[d] /\ promises[i].status # "gone"
    BY DEF StatedDatesArePromises
  <2>1. entries[d].state = "complete" /\ entries[d].paid = NoDay
    BY DEF Outstanding
  <2>2. Committed(d)
    BY <1>0, <2>1 DEF DatesAreOfDebts, Committed
  <2>3. ~Mentions(touched, d) /\ ~ToPromise(d, stated[d])
    BY DEF Settled, Mentions, ToPromise
  <2>4. Promised(d, stated[d])
    BY <1>0, <2>2, <2>3, MindIs DEF Minded
  <2>5. DOMAIN promises = 1 .. Len(promises)
    BY <1>0 DEF TypeOK
  <2> QED BY <2>4, <2>5 DEF Promised
<1> QED BY <1>1, <1>2 DEF PromisesFollowDates

\* A debt has at most one promise in force, and once nothing is queued or running every date the
\* trader gave in a turn for what is still owed has its promise: no interleaving of more time
\* asked, syncs that delete and recreate the debt, and curations run twice
\* (_promises_from_due_dates) forgets one.
THEOREM DatesAreRemembered == Spec => []PromisesFollowDates
<1>1. IInv => PromisesFollowDates
  BY DatesFollow
<1> QED BY <1>1, InvariantHolds, PTL

\* What a step gives a promise it has earned: it is kept only if its debt was at some time cleared
\* by the promised day, broken only after that day, and changed once it was judged or replaced only
\* by a sweep or a curation that had read it (MARK_KEPT, SET_PROMISE_STATUS).
THEOREM OutcomesHaveReasons == Spec => OutcomesAreEarned
<1> DEFINE Judged ==
      \A i \in DOMAIN promises :
          promises[i].status \in {"kept", "broken", "replaced"} /\ promises'[i].status # promises[i].status
            => promises'[i].status = "gone" \/ i \in {v.id : v \in verdicts} \cup curating.old
<1>1. ASSUME IInv, [Next]_vars PROVE Judged
  <2>1. Typed
    BY <1>1, IInvIsTyped
  <2>2. CASE PromisesGo
    BY <2>2 DEF PromisesGo, PromiseGoes
  <2>3. CASE AddPromise
    BY <2>1, <2>3, AddPromiseIs
  <2> QED BY <1>1, <2>1, <2>2, <2>3, StepGoes DEF Goes
<1>2. ASSUME IInv' PROVE \A i \in DOMAIN promises' : Earned(promises[i])'
  BY <1>2 DEF IInv, OutcomesAreRight
<1>3. IInv /\ IInv' /\ [Next]_vars =>
        [/\ \A i \in DOMAIN promises' : Earned(promises[i])'
         /\ \A i \in DOMAIN promises :
              promises[i].status \in {"kept", "broken", "replaced"} /\ promises'[i].status # promises[i].status
                => promises'[i].status = "gone" \/ i \in {v.id : v \in verdicts} \cup curating.old]_vars
  BY <1>1, <1>2
<1> QED BY <1>3, InvariantHolds, PTL DEF Spec, OutcomesAreEarned
=============================================================================
