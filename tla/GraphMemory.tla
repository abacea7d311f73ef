---------------------------- MODULE GraphMemory ----------------------------
(***************************************************************************)
(* One trader's graph (memory/falkor.py) following the ledger: the queued  *)
(* syncs and curations the trader's worker runs one at a time, a rebuild   *)
(* and a sweep that run beside it (memory/sync.py, memory/curator.py,      *)
(* memory/collector.py).  One action per statement sent to the graph or    *)
(* read of the ledger.  Debts are Postgres ids, parties are party keys;    *)
(* the ledger is seen through what party_snapshots and describe tell       *)
(* apart, its own rules being the module Ledger's.                         *)
(***************************************************************************)
EXTENDS Naturals, Sequences, FiniteSets

CONSTANTS
  Parties, NoParty,
  Debts,         \* ids of sales and loans given
  LastDay,       \* bound: days entries are dated and due
  MaxPromises,   \* bound: promises ever written
  MaxJobs,       \* bound: jobs queued at a time
  MaxAttempts,   \* JOB_MAX_ATTEMPTS
  MaxChanges,    \* bound: ledger operations
  MaxMishaps     \* bound: failed turns, failures and crashes of the worker, rebuilds, sweeps, people forgotten

ASSUME NobodyIsNoParty == NoParty \notin Parties
ASSUME BoundsAreNatural ==
  /\ LastDay \in Nat /\ MaxPromises \in Nat /\ MaxJobs \in Nat /\ MaxAttempts \in Nat \ {0}
  /\ MaxChanges \in Nat /\ MaxMishaps \in Nat

Days == 1 .. LastDay
NoDay == 0
Ids == 1 .. MaxPromises
NoJob == 0
Syncers == {"worker", "rebuild"}

VARIABLES
  today,      \* business_today()
  entries,    \* the ledger's rows for Debts
  touched,    \* entries the current turn recorded or corrected, as described then
  jobs,       \* the trader's jobs, oldest first; a finished one leaves the table
  hand,       \* the worker's job, as its place in jobs
  nodes,      \* the graph's Debt nodes and their WITH edge
  promises,   \* the graph's Promise nodes
  sync,       \* a sync in progress: where it is, what it read of the ledger
  curating,   \* a curation in progress: entries left, open promises read for the first
  verdicts,   \* what a sweep read and has not written yet
  stated,     \* history: the due date the trader last gave each debt in a finished turn
  cleared,    \* history: days each debt was ever cleared on
  lost,       \* history: a change overtook a rebuild, a turn failed, a job was given up, someone was forgotten
  changes, mishaps    \* history: uses of the bounds

ledger == <<today, entries, touched, stated, cleared>>
graph == <<nodes, promises>>
busy == <<sync, curating, hand>>
bounds == <<changes, mishaps>>
vars == <<ledger, jobs, graph, busy, verdicts, lost, bounds>>

\* paid: the settled_on of DebtSnapshot, NoDay while something is outstanding;
\* repaid: a repayment was applied to it.
Entry == [state : {"none", "needs_amount", "complete", "deleted"}, party : Parties \cup {NoParty},
          date : Days \cup {NoDay}, due : Days \cup {NoDay}, paid : Days \cup {NoDay}, repaid : BOOLEAN]
NoEntry == [state |-> "none", party |-> NoParty, date |-> NoDay, due |-> NoDay, paid |-> NoDay,
            repaid |-> FALSE]
Gone == [NoEntry EXCEPT !.state = "deleted"]

Stated == [debt : Debts, due : Days]
Job == [kind : {"ledger_changed", "curate"}, keys : SUBSET Parties, on : Nat, touched : Seq(Stated),
        tries : Nat, failed : BOOLEAN]

Node == [party : Parties \cup {NoParty}, paid : Days \cup {NoDay}]
NoNode == [party |-> NoParty, paid |-> NoDay]

Promise == [debt : Debts, due : Days, by : Parties,
            status : {"open", "kept", "broken", "replaced", "gone"}]

Sync == [at : {"idle", "upsert", "stale", "kept", "prune", "done", "curate", "replace"},
         keys : SUBSET Parties, rows : [Debts -> Entry], left : SUBSET Parties]
Idle == [at |-> "idle", keys |-> {}, rows |-> [d \in Debts |-> NoEntry], left |-> {}]
Curating == [left : Seq(Stated), old : SUBSET Ids]
NotCurating == [left |-> <<>>, old |-> {}]

TypeOK ==
  /\ today \in 1 .. LastDay + 1
  /\ entries \in [Debts -> Entry]
  /\ touched \in Seq(Stated)
  /\ jobs \in Seq(Job)
  /\ hand \in 0 .. MaxJobs
  /\ nodes \in [Debts -> Node]
  /\ promises \in Seq(Promise)
  /\ sync \in [Syncers -> Sync]
  /\ curating \in Curating
  /\ verdicts \subseteq [id : Ids, status : {"kept", "broken"}]
  /\ stated \in [Debts -> Days \cup {NoDay}]
  /\ cleared \in [Debts -> SUBSET Days]
  /\ lost \subseteq {"overtaken", "turn", "job", "forgotten"}
  /\ changes \in Nat /\ mishaps \in Nat

-----------------------------------------------------------------------------
(* What the ledger says. *)

Live(e) == e.state \in {"needs_amount", "complete"}
Outstanding(e) == e.state = "complete" /\ e.paid = NoDay

\* _is_debt
IsDebt(e) == e.state = "complete" /\ (Outstanding(e) \/ e.repaid \/ e.due # NoDay)

Mirrored(e) == [party |-> e.party, paid |-> e.paid]

\* The keys a commit names, in one job of its transaction.
Announced(keys) ==
  Append(jobs, [kind |-> "ledger_changed", keys |-> keys, on |-> today, touched |-> <<>>,
                tries |-> 0, failed |-> FALSE])

\* What a finished description leaves for _promises_from_due_dates to find.
Touch(d, e) ==
  IF Outstanding(e) /\ e.due # NoDay THEN Append(touched, [debt |-> d, due |-> e.due]) ELSE touched

-----------------------------------------------------------------------------
(* The trader's turns change the ledger; each change queues a sync in its  *)
(* own transaction.                                                        *)

\* A change that overtakes a rebuild leaves the rebuild with an old snapshot.
Change(d, e, keys) ==
  /\ changes < MaxChanges
  /\ Len(jobs) < MaxJobs
  /\ entries' = [entries EXCEPT ![d] = e]
  /\ cleared' = [cleared EXCEPT ![d] = IF Live(e) /\ e.paid # NoDay THEN @ \cup {e.paid} ELSE @]
  /\ jobs' = Announced(keys)
  /\ lost' = IF sync["rebuild"] = Idle THEN lost ELSE lost \cup {"overtaken"}
  /\ changes' = changes + 1
  /\ UNCHANGED <<today, stated, graph, busy, verdicts, mishaps>>

\* A sale on credit or a loan given, sometimes before the amount is known.
Record(d, p, due, state) ==
  LET e == [NoEntry EXCEPT !.state = state, !.party = p, !.date = today, !.due = due]
  IN  /\ entries[d].state = "none" /\ today \in Days
      /\ Change(d, e, {p})
      /\ touched' = Touch(d, e)

\* The repayment that clears it, dated when the trader says it was paid.
Repay(d, day) ==
  /\ Outstanding(entries[d])
  /\ day \in entries[d].date .. today
  /\ Change(d, [entries[d] EXCEPT !.paid = day, !.repaid = TRUE], {entries[d].party})
  /\ UNCHANGED touched

UndoRepayment(d) ==
  /\ Live(entries[d]) /\ entries[d].repaid
  /\ Change(d, [entries[d] EXCEPT !.paid = NoDay, !.repaid = FALSE], {entries[d].party})
  /\ UNCHANGED touched

Undo(d) ==
  /\ Live(entries[d])
  /\ Change(d, Gone, {entries[d].party})
  /\ UNCHANGED touched

\* A correction; money that was settling the debt stays with the person who paid it.
Corrected(d, e) ==
  /\ Live(entries[d])
  /\ Change(d, e, {entries[d].party, e.party})
  /\ touched' = Touch(d, e)

Correct(d) ==
  \/ \E p \in Parties \ {entries[d].party} : Corrected(d, [entries[d] EXCEPT !.party = p, !.paid = IF entries[d].repaid THEN NoDay ELSE @,
                                                       !.repaid = FALSE])
  \/ \E due \in Days : Corrected(d, [entries[d] EXCEPT !.due = due])
  \/ entries[d].state = "needs_amount" /\ Corrected(d, [entries[d] EXCEPT !.state = "complete"])
  \/ Outstanding(entries[d]) /\ Corrected(d, [entries[d] EXCEPT !.paid = entries[d].date])

\* POST /api/v1/clarify: an amount given outside any turn.
Clarify(d) ==
  /\ entries[d].state = "needs_amount"
  /\ Change(d, [entries[d] EXCEPT !.state = "complete"], {entries[d].party})
  /\ UNCHANGED touched

\* The reply is saved with the turn's curation.
EndTurn ==
  /\ touched # <<>> /\ Len(jobs) < MaxJobs
  /\ jobs' = Append(jobs, [kind |-> "curate", keys |-> {}, on |-> today, touched |-> touched,
                           tries |-> 0, failed |-> FALSE])
  /\ stated' = [d \in Debts |->
                  LET said == {i \in 1 .. Len(touched) : touched[i].debt = d}
                  IN  IF said = {} THEN stated[d] ELSE touched[CHOOSE i \in said : \A j \in said : j <= i].due]
  /\ touched' = <<>>
  /\ UNCHANGED <<today, entries, cleared, graph, busy, verdicts, lost, bounds>>

Mishap ==
  /\ mishaps < MaxMishaps
  /\ mishaps' = mishaps + 1

\* The models fail after a tool changed the ledger: the change stays, the turn does not.
FailTurn ==
  /\ touched # <<>> /\ Mishap
  /\ touched' = <<>> /\ lost' = lost \cup {"turn"}
  /\ UNCHANGED <<today, entries, stated, cleared, jobs, graph, busy, verdicts, changes>>

NextDay ==
  /\ today <= LastDay
  /\ today' = today + 1
  /\ UNCHANGED <<entries, touched, stated, cleared, jobs, graph, busy, verdicts, lost, bounds>>

-----------------------------------------------------------------------------
(* The graph's statements. *)

Here(i) == i \in 1 .. Len(promises)
Open(d) == {i \in 1 .. Len(promises) : promises[i].debt = d /\ promises[i].status = "open"}

\* DETACH DELETE of debts and of the promises FOR them
Delete(doomed) ==
  /\ nodes' = [d \in Debts |-> IF d \in doomed THEN NoNode ELSE nodes[d]]
  /\ promises' = [i \in 1 .. Len(promises) |->
                    IF promises[i].debt \in doomed THEN [promises[i] EXCEPT !.status = "gone"] ELSE promises[i]]

\* SET_PROMISE_STATUS: by id, whatever its status is by now.
SetStatus(i, status) ==
  promises' = [promises EXCEPT ![i].status = IF @ = "gone" THEN @ ELSE status]

-----------------------------------------------------------------------------
(* A sync, from a queued job or as a rebuild: read the ledger, mirror each *)
(* party, then clean up.                                                   *)

KeysOf(rows) == {rows[d].party : d \in {x \in Debts : Live(rows[x])}}

\* party_snapshots(keys): a key with no entries left is only cleaned up.
Snapshot(keys) ==
  LET rows == [d \in Debts |-> IF Live(entries[d]) /\ entries[d].party \in keys THEN entries[d] ELSE NoEntry]
  IN  [at |-> "upsert", keys |-> keys, rows |-> rows, left |-> KeysOf(rows)]

Pending == {i \in 1 .. Len(jobs) : ~jobs[i].failed}

\* The worker takes the trader's oldest job (JobQueue) and runs its handler.
Take ==
  /\ hand = NoJob /\ Pending # {}
  /\ LET i == CHOOSE i \in Pending : \A j \in Pending : i <= j
     IN  /\ hand' = i
         /\ IF jobs[i].kind = "ledger_changed"
            THEN /\ sync' = [sync EXCEPT !["worker"] = Snapshot(jobs[i].keys)]
                 /\ UNCHANGED curating
            ELSE /\ sync' = [sync EXCEPT !["worker"].at = "curate"]
                 /\ curating' = [left |-> jobs[i].touched, old |-> {}]
  /\ UNCHANGED <<ledger, jobs, graph, verdicts, lost, bounds>>

\* scripts/rebuild_graph.py: every party the ledger has.
StartRebuild ==
  /\ sync["rebuild"] = Idle /\ Mishap
  /\ sync' = [sync EXCEPT !["rebuild"] = Snapshot(KeysOf(entries))]
  /\ UNCHANGED <<ledger, jobs, graph, curating, hand, verdicts, lost, changes>>

Goto(s, at) == sync' = [sync EXCEPT ![s].at = at]

\* UPSERT_PARTY and UPSERT_DEBTS of one party; a debt linked to another is relinked.
Upsert(s, p) ==
  /\ sync[s].at = "upsert" /\ p \in sync[s].left
  /\ nodes' = [d \in Debts |-> IF IsDebt(sync[s].rows[d]) /\ sync[s].rows[d].party = p
                               THEN Mirrored(sync[s].rows[d]) ELSE nodes[d]]
  /\ sync' = [sync EXCEPT ![s].left = @ \ {p}]
  /\ UNCHANGED <<ledger, jobs, promises, curating, hand, verdicts, lost, bounds>>

Alive(s) == {d \in Debts : IsDebt(sync[s].rows[d])}

\* Mutant: a sync of parties with no debts left returns before the cleanup.
RemoveStaleUnlessEmpty(s) ==
  /\ sync[s].at = "upsert" /\ sync[s].left = {}
  /\ Delete(IF Alive(s) = {} THEN {} ELSE {d \in Debts : nodes[d].party \in sync[s].keys} \ Alive(s))
  /\ Goto(s, "stale")
  /\ UNCHANGED <<ledger, jobs, curating, hand, verdicts, lost, bounds>>

\* REMOVE_STALE_DEBTS: linked to these parties, and the ledger has them no longer.
RemoveStale(s) ==
  /\ sync[s].at = "upsert" /\ sync[s].left = {}
  /\ Delete({d \in Debts : nodes[d].party \in sync[s].keys} \ Alive(s))
  /\ Goto(s, "stale")
  /\ UNCHANGED <<ledger, jobs, curating, hand, verdicts, lost, bounds>>

\* Mutants: a payment of any day keeps the promise; a promise that was judged is kept after all.
MarkKeptHowever(s, Fits(_)) ==
  /\ sync[s].at = "stale"
  /\ promises' = [i \in 1 .. Len(promises) |->
                    LET n == nodes[promises[i].debt]
                    IN  IF n.party \in sync[s].keys /\ n.paid # NoDay /\ Fits(promises[i])
                        THEN [promises[i] EXCEPT !.status = "kept"] ELSE promises[i]]
  /\ Goto(s, IF s = "worker" THEN "done" ELSE "prune")
  /\ UNCHANGED <<ledger, jobs, nodes, curating, hand, verdicts, lost, bounds>>

MarkKeptWhenPaid(s) == MarkKeptHowever(s, LAMBDA pr : pr.status = "open")

MarkKeptOverBroken(s) ==
  MarkKeptHowever(s, LAMBDA pr : pr.status \in {"open", "broken"} /\ pr.due >= nodes[pr.debt].paid)

\* MARK_KEPT: open promises whose debt was cleared by the due date.
MarkKept(s) ==
  /\ sync[s].at = "stale"
  /\ promises' = [i \in 1 .. Len(promises) |->
                    LET n == nodes[promises[i].debt]
                    IN  IF /\ promises[i].status = "open"
                           /\ n.party \in sync[s].keys /\ n.paid # NoDay /\ promises[i].due >= n.paid
                        THEN [promises[i] EXCEPT !.status = "kept"] ELSE promises[i]]
  /\ Goto(s, IF s = "worker" THEN "done" ELSE "prune")
  /\ UNCHANGED <<ledger, jobs, nodes, curating, hand, verdicts, lost, bounds>>

\* PRUNE_DEBTS: every debt the rebuild did not read in the ledger.
Prune ==
  /\ sync["rebuild"].at = "prune"
  /\ Delete(Debts \ Alive("rebuild"))
  /\ sync' = [sync EXCEPT !["rebuild"] = Idle]
  /\ UNCHANGED <<ledger, jobs, curating, hand, verdicts, lost, bounds>>

\* Its row is deleted.
Finish ==
  /\ \/ sync["worker"].at = "done"
     \/ sync["worker"].at = "curate" /\ curating.left = <<>>
  /\ jobs' = SubSeq(jobs, 1, hand - 1) \o SubSeq(jobs, hand + 1, Len(jobs))
  /\ hand' = NoJob
  /\ sync' = [sync EXCEPT !["worker"] = Idle]
  /\ curating' = NotCurating
  /\ UNCHANGED <<ledger, graph, verdicts, lost, bounds>>

\* A statement failed, before or after it took effect: GraphMemoryError, or RetryLater
\* from a curation.  The job is counted, and given up after MaxAttempts; when the process
\* dies instead it stays as it was.  A rebuild just ends.
StopSync(s) ==
  /\ sync[s].at # "idle"
  /\ IF s = "worker" THEN Mishap ELSE UNCHANGED mishaps
  /\ sync' = [sync EXCEPT ![s] = Idle]
  /\ IF s = "worker"
     THEN /\ hand' = NoJob /\ curating' = NotCurating
          /\ \/ jobs' = jobs
             \/ jobs' = [jobs EXCEPT ![hand].tries = @ + 1, ![hand].failed = jobs[hand].tries + 1 >= MaxAttempts]
          /\ lost' = IF jobs'[hand].failed THEN lost \cup {"job"} ELSE lost
     ELSE UNCHANGED <<hand, curating, jobs, lost>>
  /\ UNCHANGED <<ledger, graph, verdicts, changes>>

\* scripts/jobs.py retry: the job is its old self again, in its old place.
Requeue(i) ==
  /\ i \in 1 .. Len(jobs) /\ jobs[i].failed
  /\ jobs' = [jobs EXCEPT ![i].failed = FALSE, ![i].tries = 0]
  /\ UNCHANGED <<ledger, graph, busy, verdicts, lost, bounds>>

-----------------------------------------------------------------------------
(* _promises_from_due_dates, for the entries a turn touched. *)

First == Head(curating.left)

\* Mutant: a debt that has any open promise is skipped.
CurateSkipPromised ==
  /\ sync["worker"].at = "curate" /\ curating.left # <<>>
  /\ nodes[First.debt] = NoNode \/ Open(First.debt) # {}
  /\ curating' = [curating EXCEPT !.left = Tail(@)]
  /\ UNCHANGED <<ledger, jobs, graph, sync, hand, verdicts, lost, bounds>>

\* Nothing to do: the debt is not in the graph, or the same promise is restated.
CurateSkip ==
  /\ sync["worker"].at = "curate" /\ curating.left # <<>>
  /\ \/ nodes[First.debt] = NoNode
     \/ \E i \in Open(First.debt) : promises[i].due = First.due
  /\ curating' = [curating EXCEPT !.left = Tail(@)]
  /\ UNCHANGED <<ledger, jobs, graph, sync, hand, verdicts, lost, bounds>>

CurateRead ==
  /\ sync["worker"].at = "curate" /\ curating.left # <<>>
  /\ nodes[First.debt] # NoNode
  /\ \A i \in Open(First.debt) : promises[i].due # First.due
  /\ curating' = [curating EXCEPT !.old = Open(First.debt)]
  /\ Goto("worker", "replace")
  /\ UNCHANGED <<ledger, jobs, graph, hand, verdicts, lost, bounds>>

\* Mutant: the old promise is left open.
CloseOldUnwritten(i) ==
  /\ sync["worker"].at = "replace" /\ i \in curating.old
  /\ curating' = [curating EXCEPT !.old = @ \ {i}]
  /\ UNCHANGED <<ledger, jobs, graph, sync, hand, verdicts, lost, bounds>>

\* More time, asked after the day passed or before it.
CloseOld(i) ==
  /\ sync["worker"].at = "replace" /\ i \in curating.old
  /\ SetStatus(i, IF promises[i].due < jobs[hand].on THEN "broken" ELSE "replaced")
  /\ curating' = [curating EXCEPT !.old = @ \ {i}]
  /\ UNCHANGED <<ledger, jobs, nodes, sync, hand, verdicts, lost, bounds>>

\* Mutant: written without looking for the debt.
AddPromiseUnlinked ==
  /\ sync["worker"].at = "replace" /\ curating.old = {}
  /\ Len(promises) < MaxPromises
  /\ promises' = Append(promises, [debt |-> First.debt, due |-> First.due,
                                   by |-> nodes[First.debt].party, status |-> "open"])
  /\ curating' = [curating EXCEPT !.left = Tail(@)]
  /\ Goto("worker", "curate")
  /\ UNCHANGED <<ledger, jobs, nodes, hand, verdicts, lost, bounds>>

\* ADD_PROMISE: FOR the debt and MADE_BY whoever it is linked to; nothing without the debt.
AddPromise ==
  /\ sync["worker"].at = "replace" /\ curating.old = {}
  /\ Len(promises) < MaxPromises
  /\ promises' = IF nodes[First.debt] = NoNode THEN promises
                 ELSE Append(promises, [debt |-> First.debt, due |-> First.due,
                                        by |-> nodes[First.debt].party, status |-> "open"])
  /\ curating' = [curating EXCEPT !.left = Tail(@)]
  /\ Goto("worker", "curate")
  /\ UNCHANGED <<ledger, jobs, nodes, hand, verdicts, lost, bounds>>

-----------------------------------------------------------------------------
(* The Collector's sweep: what OVERDUE_PROMISES returns is judged at once  *)
(* and written one promise at a time.                                      *)

Verdict(i) ==
  LET n == nodes[promises[i].debt]
  IN  [id |-> i, status |-> IF n.paid # NoDay /\ n.paid <= promises[i].due THEN "kept" ELSE "broken"]

StartSweep ==
  /\ verdicts = {} /\ Mishap
  /\ LET overdue == {i \in 1 .. Len(promises) : promises[i].status = "open" /\ promises[i].due < today}
     IN  overdue # {} /\ verdicts' = {Verdict(i) : i \in overdue}
  /\ UNCHANGED <<ledger, jobs, graph, busy, lost, changes>>

Settle(v) ==
  /\ v \in verdicts
  /\ SetStatus(v.id, v.status)
  /\ verdicts' = verdicts \ {v}
  /\ UNCHANGED <<ledger, jobs, nodes, busy, lost, bounds>>

\* A failing statement ends a sweep.
StopSweep ==
  /\ verdicts # {}
  /\ verdicts' = {}
  /\ UNCHANGED <<ledger, jobs, graph, busy, lost, bounds>>

\* forget_party, by the curator or a button of the app: its promises go.
Forget(p) ==
  /\ \E i \in 1 .. Len(promises) : promises[i].by = p /\ promises[i].status # "gone"
  /\ Mishap
  /\ promises' = [i \in 1 .. Len(promises) |->
                    IF promises[i].by = p THEN [promises[i] EXCEPT !.status = "gone"] ELSE promises[i]]
  /\ lost' = lost \cup {"forgotten"}
  /\ UNCHANGED <<ledger, jobs, nodes, busy, verdicts, changes>>

-----------------------------------------------------------------------------
Init ==
  /\ today = 1
  /\ entries = [d \in Debts |-> NoEntry] /\ touched = <<>> /\ jobs = <<>>
  /\ nodes = [d \in Debts |-> NoNode] /\ promises = <<>>
  /\ sync = [s \in Syncers |-> Idle] /\ curating = NotCurating /\ hand = NoJob
  /\ verdicts = {}
  /\ stated = [d \in Debts |-> NoDay] /\ cleared = [d \in Debts |-> {}] /\ lost = {}
  /\ changes = 0 /\ mishaps = 0

LedgerStep ==
  \E d \in Debts :
    \/ \E p \in Parties, due \in Days \cup {NoDay}, state \in {"needs_amount", "complete"} :
         Record(d, p, due, state)
    \/ \E day \in Days : Repay(d, day)
    \/ UndoRepayment(d) \/ Undo(d) \/ Correct(d) \/ Clarify(d)

TurnStep == EndTurn \/ FailTurn \/ NextDay

SyncStep ==
  \/ Take \/ Finish \/ StartRebuild \/ Prune
  \/ \E s \in Syncers :
       RemoveStale(s) \/ MarkKept(s) \/ StopSync(s) \/ \E p \in Parties : Upsert(s, p)
  \/ \E i \in 1 .. MaxJobs : Requeue(i)

CurateStep == CurateSkip \/ CurateRead \/ AddPromise \/ \E i \in Ids : CloseOld(i)

SweepStep ==
  \/ StartSweep \/ StopSweep \/ \E v \in verdicts : Settle(v)
  \/ \E p \in Parties : Forget(p)

Next == LedgerStep \/ TurnStep \/ SyncStep \/ CurateStep \/ SweepStep

Spec == Init /\ [][Next]_vars

-----------------------------------------------------------------------------
(* Properties. *)

\* Every change was mirrored, and nothing is running.
Settled ==
  /\ jobs = <<>> /\ touched = <<>> /\ verdicts = {}
  /\ \A s \in Syncers : sync[s] = Idle

\* Whatever the order of changes, corrections that move a debt, undone entries, failed
\* syncs and their retries, once the queue is empty the graph has exactly the ledger's
\* debts, each under its person and open or cleared on the ledger's day; unless a rebuild
\* was overtaken by a change.
GraphFollowsLedger ==
  Settled /\ "overtaken" \notin lost =>
    \A d \in Debts : nodes[d] = IF IsDebt(entries[d]) THEN Mirrored(entries[d]) ELSE NoNode

\* A debt has one promise in force: more time closes the old one, and a curation that is
\* retried after a write that did or did not happen does not write a second.
OneOpenPromise == \A d \in Debts : Cardinality(Open(d)) <= 1

\* "A due date on an entry is a promise": once all is settled, what is owed has a promise
\* for the date the trader last gave it in a turn, whatever has become of that promise.  An
\* entry whose amount came by POST /api/v1/clarify is in no turn, and gets none.
StatedDatesArePromises ==
  Settled /\ lost = {} =>
    \A d \in Debts : Outstanding(entries[d]) /\ stated[d] # NoDay =>
      \E i \in 1 .. Len(promises) : promises[i].debt = d /\ promises[i].due = stated[d] /\ promises[i].status # "gone"

\* What is remembered of promises is what the trader said of dates.
PromisesFollowDates == OneOpenPromise /\ StatedDatesArePromises

\* A promise is kept only if its debt was at some time cleared by the promised day, and
\* broken only after that day.
Earned(promise) ==
  /\ promise.status = "kept" => \E day \in cleared[promise.debt] : day <= promise.due
  /\ promise.status = "broken" => promise.due < today

\* Every outcome a step gives is earned, and changes later only under a writer that had read
\* the promise while it was open.
OutcomesAreEarned ==
  [][/\ \A i \in DOMAIN promises' : Earned(promises[i])'
     /\ \A i \in DOMAIN promises :
          promises[i].status \in {"kept", "broken", "replaced"} /\ promises'[i].status # promises[i].status
            => promises'[i].status = "gone" \/ i \in {v.id : v \in verdicts} \cup curating.old]_vars
=============================================================================
