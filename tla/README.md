# Book-Keeper: a verification project

TLA+ models of Book-Keeper, an assistant that keeps the books of small traders
over WhatsApp and the web, with model checking (TLC) and machine-checked proofs
(TLAPS). Paths below are relative to the repository's root.

## 1. The system

A trader writes a message. A language-model agent calls tools that record, delete
or correct ledger entries in Postgres. Each change stages a job in the same
transaction; worker loops run the jobs and bring a graph store (FalkorDB) in line
with the ledger and add what the conversation taught. Reminders, bank alerts and
statements read the ledger and the graph.

| Component | State | Operations | Correct when |
|---|---|---|---|
| Ledger rules (`src/tools/ledger.py`) | entries, allocations of repayments to debts | record a message, delete an entry or the last message, correct, clarify | balances and allocations agree, no money appears or vanishes, oldest debts are paid first, undo restores |
| Ledger events (`src/tools/ledger_events.py`) | outbox hook, running handlers | stage, committed, publish, drain | the event of a committed change names every party it touched and is neither lost nor sent for a rollback |
| Job queue (`src/jobs/queue.py`) and workers (`src/jobs/worker.py`) | the jobs table, advisory locks, an event and loops per process | stage, look for due users, run, finish, fail, retry by hand, stop, restart | one runner per trader, oldest job first, at least once, retries bounded, everything settles |
| Turn lock and turns (`src/tools/turn_lock.py`, `src/tools/assistant.py`, `src/main.py`) | local and advisory locks, conversation turns, idempotency records | respond, clarify | a trader's turns do not interleave; a resent request is not recorded twice |
| Graph sync, curator, collector (`src/memory/`) | parties, debts, promises, facts, aliases in the graph | sync, rebuild, curate, sweep, forget | the graph follows the ledger; a promise is kept or broken as the ledger says |
| Reminders (`src/tools/debt_collection.py`) | drafts, sent reminders, opt-outs | draft, confirm, opt out | nothing is sent twice, unseen, over the limits or after STOP |
| What is known of people (`src/memory/falkor.py`, `curator.py`, `recall.py`, `src/tools/clean_version.py`, `src/endpoints/dashboard.py`) | names, facts and roles in the graph, confirmed bank names | recall, the guard on new names, curate, remove a name, forget | a name stands for one person; what the trader said beats a guess; what was erased stays away |
| Bank alerts (`src/tools/alerts.py`) | alerts, confirmed bank names | review, resolve | one alert gives at most one live entry |
| WhatsApp channel, sign-up, sessions (`src/channels/`, `src/tools/phone_auth.py`, `src/authentication/auth.py`) | taken message ids, onboarding conversations, challenges, sessions | webhook, process, onboard, approve, poll | messages are taken once and in order; a challenge is collected once |
| Statements and reports (`src/tools/statements.py`, ...) | share links | build, share, revoke | the closing balance is the ledger's |
| Model router (`src/tools/router.py`) | a circuit breaker | handle a message | it opens after consecutive failures only, and probes when it is half open |

How they interact: turns call the ledger under the turn lock (`/api/v1/clarify`
calls it without); the ledger stages jobs through the event hook; the curator stages
its job with the reply; workers call graph sync and curator; the collector reads
graph and ledger. Hard behaviours: transactions that overlap, transactions that
commit out of order, waits for locks and connections, crashes between two steps of a job, locks that live as long as
a connection, events shared by loops, retries of half-done work, and decisions taken
from a copy of the ledger that lags behind. The full list, each at its line, is
"hazards" in `PROJECT.json`.

## 2. Modules

| Module | What it is |
|---|---|
| `Ledger` | `tools/ledger.py`: one trader's rows and allocations, one transaction at a time, stepped |
| `Undo` | `Ledger` with a history variable: the books from before the last message, which undo should give back |
| `MCLedger` | its small instances, with a bound on deletions and corrections |
| `Sums` | lemmas on sums over finite sets |
| `LedgerProofs` | the inductive invariant of `Ledger`, and where its money goes: amounts, oldest debts, stated payments, events; what is read out of it (`Reports`); what `Undo` gives back |
| `Outbox` | abstract: what the queue promises, without workers, locks or processes |
| `JobQueue` | `jobs/queue.py` and `jobs/worker.py`: table, loops, locks, wake-up, faults |
| `MCJobQueue`, `MCJobWake` | its small instances; a history of what each loop could be woken for |
| `JobQueueProofs` | the inductive invariant of `JobQueue`, what follows from it, the refinement of `Outbox`, and the wake-up |
| `Turns`, `MCTurns` | deliveries of messages becoming turns: locks, connection pool, time-outs, breaker, idempotency |
| `TurnsProofs` | its inductive invariant and safety properties |
| `GraphMemory`, `MCGraphMemory` | debts and promises in the graph under sync, rebuild, curation and sweep |
| `GraphMemoryProofs` | its inductive invariant and all its properties |
| `People`, `MCPeople` | names, facts, roles and bank names, and the guard on new names |
| `PeopleProofs` | its inductive invariant and all its properties |
| `Books` | what alerts and reminders share: the ledger as they see it, and the tool under way |
| `Alerts`, `Reminders` | `tools/alerts.py` and `tools/debt_collection.py`, both over `Books` |
| `Desk`, `MCDesk` | the two composed with the trader's own bookkeeping and a clarify beside the turn |
| `DeskProofs` | the books add up, and the properties of `Desk` |
| `SignUp` | onboarding, phone challenges and browser sessions |
| `SignUpProofs` | its inductive invariants and safety properties |
| `Reports` | statements, chat reports and dashboard pages as functions of the rows of `Ledger` |

### Ledger

`rows` and `alloc` are the tables `business_transactions` and
`repayment_allocations` as the open transaction sees them, `db` is the committed
copy. An operation begins with `RecordMessage`, `DeleteOne`, `DeleteLastMessage` or
`CorrectOne`, each the code up to its first repayment effect; `TakeBack` is
`_reverse_repayment`, `Apply` and `PayOldest` are `_apply_repayment` and one turn of
its loop, `Edit` is the change of the row with `_settle`, and `Commit` or `Rollback`
ends it. The remaining variables are the local variables of the operation in
progress. `touched` is what `_change` puts into the event. `resolve_clarification`
is `CorrectOne` with an amount.

Amounts are small natural numbers and `Unknown` for SQL NULL; `Money` has no negative
values. `batch_id` is the number of the batch's first row, which orders batches as
`created_at` does. Rows of before batches existed, the text fields and the texts of
replies are left out; a correction that changes nothing in the model (`NoChange`)
stands for one of a text field. One operation at a time is what the assistant gives:
a turn holds the trader's turn lock and runs its tools one by one. The clarify
request does not take that lock; two overlapping transactions are not in this module.

### JobQueue and Outbox

One action per query, or per stretch between two awaits. `Stage`, `Commit` and
`Abort` are a transaction of an app process (`Apps`); a process outside `Apps` is
`scripts/jobs.py run --forever`. Jobs get ids in the order they are staged and
transactions commit in any order. `Announce` is the call of `wake()` after the commit.
A loop goes `top` (clear the event), `look` (`due_users`), `scan` (`_try_lock` on one
user after the other), then either `asleep` or `next`, `handle`, `finish`, `unlock`.
`DatabaseError`, `Crash`, `Stop`, `Cancel` and `Restart` are what can end or interrupt
it. `due` is "run_after has passed": a failed job is not due until `Elapse`, which
stands for every length of back-off. A failing handler is a choice (`Fail`), so is the
loss of a lock connection (`LoseConnection`, only in `LossySpec`). A row that left the
table is kept as `done` or `gone`, so that properties can speak of it.

`Outbox` has one runner per trader that takes the oldest due job, returns, finishes
or fails, and may drop its job at any time. `Promise` in `JobQueue` maps the loops to
it: the job in hand of whichever loop has the trader is the runner's job, and a loop at
`finish` is a handler that returned. `KeepsPromise` says every behaviour of the loops
is one of `Outbox`.

### Turns

A request is one delivery of a message to one process and goes through the steps `at`:
the web's `Post` looks up the idempotency record, WhatsApp's `Deliver` commits the message
id (a redelivery is dropped) and `BeginInbound` waits for the sender's lock of its process.
Then `LocalTimeout` / `Connect` / `TakeAdvisory` are `user_turn_lock`, `CallModel` to
`FailRun` are `run_team` and the breaker of `tools/router.py`, `Save` is the exchange
committed by `respond`, and `Store` and `Send` are the answer. Each wait has its time-out action, and
every way out goes through `Left` and `Release`, which give back locks and connections.
`MaxTwists` bounds what goes wrong (a crash, a failing or slipping model, a handoff). What
the tools do is one bit: the message was recorded by this request (`writers`). The connection that holds an
advisory lock is not lost; `job_lock_lost` shows what that would mean.

Met while modelling: a run repeated after an unbacked claim repeats a tool that has already
committed; if the model fails after a tool committed, the trader is told to send the message
again; after the breaker is half open all calls pass until one reports, although
the comment in `is_open` speaks of the next call as a probe; a request that gets no
connection before it has found its user gets no answer at all.

### GraphMemory

One action per statement sent to the graph (`Upsert`, `RemoveStale`, `MarkKept`, `Prune`,
`AddPromise`, ...) or read of the ledger (`Snapshot`, `CurateRead`). `Record`, `Repay`,
`Undo`, `Correct` and `Clarify` change the ledger and queue the job; `EndTurn` queues the
curation. A trader's jobs run one at a time in order (that is what `Outbox` promises),
`StartRebuild` and `StartSweep` run beside them. `StopSync`, `FailTurn` and the failures
inside the curation end work half way, `Requeue` is a retry by hand. `lost` remembers why
the graph cannot be right: a job given up, or a rebuild overtaken by a change.

Met while modelling: a rebuild that read the ledger before a change and writes after it
restores an undone debt, or prunes a new one with its promise (`scripts/rebuild_graph.py`
says it is safe at any time); the verdict of a sweep can overwrite an outcome kept
meanwhile, as `SET_PROMISE_STATUS` does not look at the status; a payment dated before the
due date but recorded after the sweep leaves the promise broken, and undoing a repayment leaves
it kept; after a correction of the person a promise stays the old person's; an amount given
through `/clarify` makes no promise. The properties leave these cases out by name.

### People

`memory` is the graph (people, debts in outline, links between names and people in force and
closed, facts, roles) with the table `party_aliases` as its field `bank`. Statements are functions on it
(`CloseFact`, `AddAlias`, `ForgetAliases`, ...). A writer (the worker, a dashboard button, the
rebuild) reads once, plans its statements, and `Run` runs them one by one; `Fail` ends a plan after
a statement that did or did not take effect, `Crash` lets the job run again. A turn is `Hear`
(recall, or nothing if the graph is down), tools (`Record` with the guard of
`extract_transactions_tool`, `Undo`, `ConfirmBankName`) and `Reply`, which queues the curation.
The curation infers usual orders (`Infer`), applies the note of a confirmed bank name
(`ApplyNote`) and runs one operation that the model proposes (`AddAliasOp` to `ForgetOp`).
`PressRemove` and `PressForget` are the two buttons, `StartRebuild` is `mirror_bank_names`.
A text is the set of names in it. Where the code looks for a name as a piece of a text (the last reply in
the guard, the conversation in `add_alias`), the model does so too: `Within` has the names that are pieces
of others, and `InText` counts those. `WrittenByUser` goes by words (`Words`, titles left out).
What is not a name in a text is left out, although a short name may be a piece of that as well.

Left out: more than one proposed operation per job; the words a message must contain
(`_FORGET_WORDS` and the like: the model may propose at any time); the end date of "do not
remind"; the sources of a memory; the rest of the rebuild, and syncs statement by statement
(`GraphMemory` has them); `correct_transaction`, which has no guard on names.

Met while modelling, and left out of the properties by name (`crossed`, `quiet`):
* An entry recorded under another name of somebody makes that name a person as well. `_resolve`
  then finds the person first and no longer sees the link, so `add_alias` may link the name to
  somebody else beside the first link ("already another person's alias" is not reached). In
  recall the link wins, in `_resolve` the person.
* The rebuild's `mirror_bank_names` and a curation that link one name at the same time can link
  it to two people (`scripts/rebuild_graph.py`: safe at any time).
* Forgetting somebody while a curation is queued or half done: the curation brings memory back.
* Forgetting somebody deletes a name they once had even if it is another person's now, as the closed
  edge still leads to it.
* If the dashboard's removal of a name stops after the graph was changed, the bank name stays, and
  the button answers 404 from then on.
* An operation the model proposed is not retried: a failure between closing a fact and adding its
  successor loses the fact.
* `confirmed_new_names` goes past the question: a person the reply had named may be confirmed as new
  although the trader has not answered. So may one the reply did not name at all: `k in asked`
  (`tools/clean_version.py:136`) looks for the name as a piece of the reply's text, and "mama c" is a piece of
  "mama chidi". After "Recorded for Mama Chidi" the agent may confirm "Mama C" as new by itself, and one
  person's debts are split over two names. The docstring of `build_tools` (lines 107-108) promises otherwise: "a
  name only counts as confirmed new if that message asked about it (the model can't wave its own guess
  through)". With `n \in asked` in the place of `InText(n, asked)`, `PeopleStayApart` fails in the run
  `people`. What holds, and what it says, is that the reply's text has the name, in itself or in a longer one,
  and that the turn which raised the question never answers it. `correct_transaction_tool`, `resolve_bank_alert_tool`
  and `save_contact_tool` take any name, although the docstring of `build_tools` says that an
  invented name cannot become a new person. The guard sees only people the graph has, so not those whose
  sync is still queued, and nobody if recall failed.

### Books, Alerts, Reminders and Desk

`Books` has entries (debts, repayments, other money), a customer's one open debt, and `tool`, the
tool call under way, since several tools commit more than once. `Alerts`: `ReviewClear` and `ReviewAsk`
are `review_alert`, `ResolveAs`, `ResolveAlready` and `ResolveIgnore` are `resolve_alert`, `Link` is the second
commit of `_record` and `Tear` the failure before it. `Reminders`: `DraftReminder`, `Confirm`, `Deliver`
(the call to WhatsApp), `MarkSent` / `MarkFailed`, `Lose` (a time-out or crash after
WhatsApp took the message) and the debtor's `Stop`. `Desk` composes both with what the trader types
and with `Clarify`, which comes without the turn lock at any moment. Alerts of money out, the do-not-remind
fact (which lets reminders through if the graph is down) and other traders' reminders to the same
number are not in these modules.

Met while modelling: a confirmed bank name is used only while its customer owes something; after
that `matching_debtors` goes on to compare names and can put the money on somebody else's
account without a question, although its docstring calls a confirmed name "a single, certain
match". A failure between the two commits of `_record` (`torn`) leaves a pending alert whose money
is in the books. A reminder whose answer was lost (`adrift`) can be confirmed again within the cooldown,
and a STOP to it is not heard. A draft of a turn that failed can be confirmed although it was
never shown. `already_recorded` can link two alerts to one entry.

### SignUp

A message is read (`Begin`) and commits later (`Welcome`, `BusinessName`, `CreateAccount`,
`CompleteLogin`, `CompleteLink`, ...), under the sender's lock of its process only; the model has
two processes. `StartLogin`, `StartLink`, `Poll` and `Collect` are the website's side of a challenge,
`Abandon` and `Expire` are time passing. `mixed` are numbers whose messages two processes
had at once (`Documentation.MD` says the lock is per process), `raced` are challenges polled or approved twice at
the same time.

Met while modelling: a number that was reminded of a debt can never sign up; two processes welcoming
one number end in an uncaught `IntegrityError`; two polls at once, or an approval after the
collection, collect a challenge twice; an approved challenge does not expire; a crash between
the account's commit and the replay loses the first sale.

Met while proving: `CreateAccount` deletes the sign-up's row without checking that it was still
there (`onboarding.py`:108). Normally the second task to finish a sign-up then fails on the number,
which the first one's account has. If that account was linked to another phone meanwhile, nothing stops the
second task: it opens another account and records the first sale again. The runs are too short to
reach this; `FirstSaleOnce` therefore speaks of accounts that keep their number.

### Reports

Pure functions of `rows` and `alloc`: `Statement` is `build_statement`, `OpenReport`, `ExpenseReport` and
`PnL` are the chat's reports, `Overview`, `DebtsView` and `PeopleView` the pages. They are evaluated on every committed
ledger that the wide run of `Ledger` reaches. A statement's line is an entry and its part (what it charges, what was
paid on the spot); the lines are ordered by date, entry and part, and a line's balance is what it and the lines before it come to.
What is brought forward is the balance of the last line before the period, or before the lines the short text shows, as the
code reads it off its running balance. `DatesAreFinite` gives a report without a start or an end its first and last
day. `build_statement` reads rows and
allocations by two queries; under READ COMMITTED a commit can fall between them (a shared link is read
outside the turn lock), and `ReadingsAgree` speaks only of reads of one moment.

## 3. Runs

| Run | Instance | Shows |
|---|---|---|
| `ledger_deep` | one person's credit sales (2 on day 1, 1 on day 2) and repayments of 1 or 2; four rows, messages of up to two entries, two deletions or corrections | `NoMoneyInvented`, `NoIdleMoney`, `OldestDebtFirst`, `UndoRestores` |
| `ledger_wide` | two people, all types, directions and ways to state a payment, unnamed parties and unknown amounts; three rows, one deletion or correction | `TypeOK`, `Balanced`, `AllocationsMatch`, `CommittedAllocationsLive`, `StatedPaymentsKept`, `EventNamesEveryChange`, `OperationEnds`; `ReadingsAgree` of every statement, report and page |
| `job_queue` | an app and a worker process with one loop each, two traders, two jobs, two attempts, one fault, one retry by hand | `TypeOK`, `OneWorkerPerUser`, `RetriesAreBounded`, `NoSleepOverWork`, `KeepsPromise`; with fairness `JobsSettle` |
| `job_lock_lost` | two loops, one trader, one job, one lost lock connection | violates `OneWorkerPerUser` |
| `job_window` | one loop, `limit` 1, four traders | violates `LookFindsDueUser` |
| `job_wake` | two loops of one process, two traders | violates `CommitWakesLoop` |
| `turns` | a web message and two WhatsApp messages of one trader, two processes with two connections each, three deliveries, two twists | `TypeOK`, `HistoryIsSerial`, `RedeliveryRecordsOnce`, `NothingLeaks`, `OpensOnOutage`; with fairness `RequestsEnd` |
| `turn_resend` | a web message delivered twice | violates `ResendRecordsOnce` |
| `graph_memory` | one debt, two people, two days, three ledger changes, two jobs waiting, one mishap | `TypeOK`, `GraphFollowsLedger`, `PromisesFollowDates`, `OutcomesAreEarned` |
| `people` | two customers and a name that sounds like one of them, two turns, two tool calls, buttons, rebuilds or mishaps | `TypeOK`, `MemoryIsOrderly`, `TraderDecides` |
| `desk` | two customers, two alerts, one number, three entries, two drafts, five calls, one mishap | `TypeOK`, `MoneyOnce`, `AmountIsOwed`, `DebtorsAreSpared` |
| `sign_up` | one number, two processes, one browser, four messages, one account of the website, one challenge, one mishap | `TypeOK`, `NumberHasOneAccount`, `AnswersInOrder`, `FirstSaleOnce`, `CollectedOnce` |

Bounds. Four rows are two debts and two repayments (or three and one), the least in
which money moves from one debt to another while a second repayment is there; two
edits let a deletion meet what a correction left. The wide instance spends its states on
kinds of rows instead of length. The deep run has only one direction: `Settles` treats
both alike and the wide run has both. For the queue, two loops in two processes are the
least that compete for a lock and miss each other's events, two jobs the least that have
an order (of one trader) or interfere (of two); two attempts have a retry and a give-up.
One fault at a time is enough for every single crash, stop or error at every place. The
window run commits one change at a time and uses symmetry of the traders, which is sound
for an action property that does not name them.

Three deliveries are the least in which a turn, a waiter of its process and a waiter of another
process meet, and more than the connections of one process; two twists are a failure during the
recovery from another. A trader's turns never overlap, so runs that report after the breaker opened do not
occur in `turns`: for any number of traders `OpensOnOutage` is proved. In `graph_memory` one debt suffices because the statements treat debts one by one
(the two people are alike, so symmetry is used); three changes are a record, a change and a change of
that. `people` has three names, as many as a short form, its person and somebody else need, and two
turns: one whose reply asks, or names only the person with the longer name, and one that answers. Its acts are bounded together: two of them are a name
learned and erased, a person recorded and undone, or a refusal and a second try. In `desk` two days
and a cooldown of two have a reminder within and after the cooldown; a second alert with the same money exercises
the duplicate check. `sign_up` has four messages: a greeting, two answers and one too many or a
code. `CHECK_DEADLOCK FALSE` stands where everything bounded may have been spent (a full book, all
deliveries answered, no turns left) and the trader has nothing more to do.

Fairness. The ledger's `OperationEnds` assumes only that an operation in progress keeps
running (`WF` of `Work`, the body of one coroutine). `JobsSettle` assumes that loops
run, handlers return or raise (they have time-outs), time passes for back-offs, a
transaction commits or aborts, `wake()` is called after the commit, and a stopped
or dead process is started again (by its supervisor). `RequestsEnd` assumes that an
event loop with something to run runs something (`WF` of the union of `Proceed`): every wait
in a request ends by a time-out in the code. Faults and retries by hand have no
fairness and are bounded, as a queue cannot settle under unending crashes: an attempt
that crashes is not counted by the code, so only a bound on crashes ends its retries.

### What the violations say

* `job_lock_lost`. The header of `jobs/worker.py` says no two workers run one user's
  jobs. A loop learns of a broken lock connection only when it unlocks; until then
  another loop may take the trader. The handlers must then tolerate running side by side.
* `job_window`. `due_users` promises the users whose oldest job is due. It reads a window
  of `limit * 3` users by job id and drops those that back off afterwards; enough traders
  backing off hide the others until one of their back-offs ends.
* `job_wake`. The comment on `self._wake.clear()` holds for a single loop. The loops of a
  process share the event: one loop's clear can erase what was set while another looked,
  and if the first goes on to a different trader, the second sleeps over a due job until
  its poll interval ends. `NoSleepOverWork` is what does hold: not all loops sleep over
  work they were woken for.
* `turn_resend`. The documentation promises that a resent message does not record a sale twice. The
  idempotency record is looked up before the turn lock is taken and stored after the answer: a
  resend that arrives in between waits for the lock and records the message again.

## 4. Proofs

Each proof module follows one pattern: an inductive invariant, a lemma for each action or group
of actions, a lemma that every step keeps the invariant, and theorems that follow by temporal logic. They
hold for all values of the constants that satisfy the ASSUMEs of the modules
(disjointness of the null values, natural bounds, typed inputs, finitely many dates, loops that belong to
processes).

| Module | Theorems about the runs' properties |
|---|---|
| `LedgerProofs` | `TypeOK`, `Balanced`, `AllocationsMatch`, `CommittedAllocationsLive`, `NoMoneyInvented`, `NoIdleMoney`, `OldestDebtFirst`, `StatedPaymentsKept`, `EventNamesEveryChange`, `ReadingsAgree`, `UndoRestores` |
| `JobQueueProofs` | `TypeOK`, `OneWorkerPerUser`, `RetriesAreBounded`, `NoSleepOverWork`, `KeepsPromise` |
| `TurnsProofs` | `TypeOK`, `HistoryIsSerial`, `RedeliveryRecordsOnce`, `NothingLeaks`, `OpensOnOutage` |
| `SignUpProofs` | `TypeOK`, `NumberHasOneAccount`, `AnswersInOrder`, `FirstSaleOnce`, `CollectedOnce` |
| `DeskProofs` | `TypeOK`, `MoneyOnce`, `AmountIsOwed`, `DebtorsAreSpared` |
| `GraphMemoryProofs` | `TypeOK`, `GraphFollowsLedger`, `PromisesFollowDates`, `OutcomesAreEarned` |
| `PeopleProofs` | `TypeOK`, `MemoryIsOrderly`, `TraderDecides` |

**Sums.** The balances are sums over rows (`SumFunctionOnSet` of the community modules, a fold).
An induction theorem cannot be used, as it takes an operator. `Sums` goes another way: a sum is
the value of a table of partial sums; that two tables agree, and that one exists, is shown by taking a
least subset for which it fails (`MinimalSubset`, from the library's finite sets). What
follows are the laws the proofs need: adding a member, changing one term, monotony, zeros, a part that has
the whole sum, what placing amounts in order on a debt comes to (`PlacedInOrder`), a sum grouped by a key
(`SumAlong`), and two sums exchanged (`SumsExchange`).

**Ledger.** `Balanced` is not inductive by itself: taking a repayment back
needs to know that every debt it settles is complete, is paid and owed to its full amount
and matches it (`AllocationsMatch`), and that in turn needs to know which repayments an
operation still has to take back before it edits a row. `IInv` adds this bookkeeping, and
that the committed copy has the same properties, which a rollback needs. `MInv` adds that what a repayment
settles, with what is in hand of it, is within its amount, that an entry's own payment is what it was before
the operation, and that whoever's entry changed is named. For `NoIdleMoney` and `OldestDebtFirst`, `GInv` says of every
repayment already placed, and every debt up to a date, that the repayment has no money left for later
debts while such a debt is open (`PlacedGreedily`); the repayment being placed satisfies it up to the debt in turn.

`ReadingsAgree` is about the committed copy only, but needs one more part of the invariant, `StatedPaid`: what was
paid on a debt less the repayments placed on it is never negative. Without it `build_statement`, which cuts
this difference off at zero, would show less paid than the ledger has. Then the closing balance is a sum over entries
(`EachEntryAdds`): each adds what it has outstanding, less what was paid beyond its amount, plus what was placed on it. Repayments placed
are summed by debt in one reading and by repayment in the other; `SumsExchange` over the allocation table
makes them one, and `AllocationsMatch` says they are of the same person and side. That statements continue one another
needs that lines are totally ordered (`LinesAreOrdered`), so that the balance of the last line before a cut is the sum of all
before it. The other views agree since their row sets are the same between the first and the last date.

`UndoRestores` compares two whole ledgers two operations apart, and is proved of `HistorySpec` in `Undo`, which adds the
ledger from before the last message to `Spec` (the runs bound it further). While a message is recorded, `UInv` says that its rows are the
newest batch (`BatchesIn`: a batch has the number of its first row) and that all other entries keep all but their
balance, and all other repayments their allocations (`OthersKept`). So what is remembered, `OneMessageMore`, says that nothing
from elsewhere settles the message's entries, and a deletion of such rows moves no other repayment. Once its own
repayments are taken back the allocations are what they were; since what was paid apart from them is kept (`PaidApartKept` of
`MInv`) and outstanding is derived from paid (`Balanced`), so is every balance.

**Queue.** `OneWorkerPerUser` follows once every loop with a user in hand is known to hold that
user's lock; `RetriesAreBounded` needs that the row of a job in hand still has the attempts
that were read with it, which needs that nobody else changes that row: again the lock. The
theorems are about `Spec`, in which a lock lives as long as its loop; `job_lock_lost` shows
that they fail without this. `QueueKeepsPromise` is the refinement, action by action:
`finish` of a loop is the runner's return, the delete or the update after it is `Outbox`'s, and waking, scanning, locking
and most faults are stutters. That needs the invariant: the loop that runs a
trader is unique, so `Promise` maps to one runner. `NobodySleepsOverWork` has `WakeInv`: as long as no
fault happened, new work at the head of a trader's queue has a loop that will look again before it sleeps, and a
lock that hides it belongs to a loop that will. It assumes two things of the constants: every app
process has a loop (`main.py`:59 starts `JOB_WORKERS` of them), and there are at most
`3 * Limit` traders, the window of `due_users`; with more, `job_window` shows what happens.

**Turns.** `TurnsInv` says where a request at each step is: in its process's queue, at its head,
holding the advisory lock, with a connection. `HistoryIsSerial` is then that the holder's copy of the history is
current; `RedeliveryRecordsOnce` that a delivered id is in the inbox, and who recorded a message is a
delivery of it.

**Sign-up.** `TInv` types what a task has read. One account per number needs only that an account is inserted or moved
if the number is free (the unique column). `FirstSaleOnce` and the names of an account need where every number's sign-up
row, its account and the tasks in hand stand to each other (`RowsOK`, `AccountsOK`, `RepliesOK`, `SalesOK` in `SInv`), and
`AnswersInOrder`, for a number that stays with one process, that its messages are handled one by one in the
order of arrival (`OInv`).

**Desk.** `BooksInv`: nobody has two open debts, and what is placed of the repayments never exceeds the debt. To keep
it, undoing or clarifying a debt has to place its repayments again, in order, on what is left
(`PlacedAgainFits`). `MoneyInv` adds that an alert without an entry points to none. `DebtorsInv` is that
what was delivered is marked sent, is about to be, or never will be (`adrift`), and that a reminder under way
was checked against all that were sent.

**Graph.** What holds when all is quiet must be carried through every moment when it is not. For
`GraphFollowsLedger`, `GraphCatchesUp` says where the repair of each difference is: a row the worker
read and the ledger has changed since is queued for its person then and now (`OldRowsAreQueued`), and a
node or a debt out of date has its person in a queued sync or in what the running one has left
(`NodesAreRight`, `DebtsAreThere`). A correction of the person is why both persons are named: the sync of the
old one removes the node, that of the new one writes it again. For `PromisesFollowDates` order matters: a
removed node takes its promises along. So a date in mind is promised and its node `Safe` from the running
sync, or a curation that will write it stands in the queue behind a sync that makes the node safe (`Fixes`,
`SafeBefore`). That needs jobs to run one at a time, oldest first (`JobsAreOrderly`), and that a curation
closes every open promise it replaces (`OnePromiseEach`). `OutcomesAreEarned` needs that every copy of the day of
clearing, in a node or in the rows of a sync, was at some time in the ledger (`ClearedDaysAreReal`), and
that verdicts not written yet are earned. The exceptions (`lost`) stand where the runs have them, in front of
the parts they concern, and not in front of the whole.

**People.** Two or three writers run plans they made from what they read earlier, so the invariant
speaks of plans: of what is left of each plan at any moment, `PlansAreGood` says what must be true of the
memory for the rest to be safe. A link to come is of a name still free, or `crossed`; a fact or role to come stands
behind the statement that closes the old one, or that one has run (`FactsAreReplaced`, `RolesAreReplaced`: only the
worker writes these, so nobody comes in between); a note closes only what the ledger suggested; a button's plan has
done what stands before the statement that erases for good (`BankNamesGoLast`), and a rebuild brings back nothing
erased. `Result` of a statement is bounded once, by `Effect` (what it may add or take) and `Done` (what is
true when it ran); the proof for `Run` and `Fail` uses only these, for the rest of the writer's own plan (`RestIsGood`)
and for the plans of the others (`WroteOthers`). `ErasedIsGone` needs `QuietIsQuiet`: since something was erased no
turn is open and no job is queued, which is what the exception `quiet` of the run states. Trying larger constants
while looking for the invariant corrected the model in three places: a name a turn may not resolve need not
have a node any more (`TypeOK`), the history `crossed` is also updated if a statement took effect and its
plan ended with an error (`Cross`), and the constants must have the kind "usual_order", which `Infer` writes.

Only model-checked: all liveness (`OperationEnds`, `JobsSettle`, `RequestsEnd`), which is
out of the prover's reach. Every invariant and every action property of a passing run is proved.

## 5. Plan

In this order.

| Module | What | Builds on |
|---|---|---|
| `LedgerConcurrent` | a chat turn and a clarify request in two transactions, with row locks and stale copies | operators of `Ledger` |

Also planned: the in-process delivery of `LedgerEventBus`, the shutdown order of the app's
lifespan, share links of statements.

## 6. Not modelled

What a language model answers, prompts, transcription and screenshots; wording, formatting
and layout of replies, reports and pages; HTTP, cookies and rate limits; migrations, seed
data, evaluations, observability; share links of statements; reminders and sources in the graph, and
its explanations; in-process delivery and curation (`JOB_QUEUE=memory`); negative amounts and rounding of money to kobo. The
SQLite variants of the locks (one process, one worker) are special cases and not separate
models.
