------------------------------- MODULE Ledger -------------------------------
(***************************************************************************)
(* One trader's bookkeeping rows and the three operations on them          *)
(* (tools/ledger.py): record the entries of a message, delete an entry or  *)
(* the last message's entries, correct an entry.  Each runs in one         *)
(* database transaction: rows and alloc are what the open transaction      *)
(* sees, db is what is committed.  One operation runs at a time, which is  *)
(* what the per-trader turn lock gives the assistant's tools.              *)
(***************************************************************************)
EXTENDS Integers, FiniteSets, Functions

CONSTANTS
  Parties,      \* the people the trader deals with (parties.id)
  NoParty,      \* a party that was not named
  Dates,        \* business dates, as integers
  MaxRows,      \* bound: rows ever recorded
  MaxBatch,     \* bound: entries in one message
  Entries,      \* what the extraction may hand to persist_transactions
  Corrections   \* what a correction may change; an unset field stays

\* SQL NULL in a money column: an amount that was not stated.
Unknown == -1
Money == Nat \cup {Unknown}

Types == {"sale", "expense", "loan_taken", "loan_given", "debt_repayment"}
Directions == {"in", "out"}
SettleableByDirection == [in  |-> {"sale", "loan_given"},
                          out |-> {"expense", "loan_taken"}]

TransactionInput ==
  [type : Types, direction : Directions, party : Parties \cup {NoParty},
   amount : Money, paid : Money, date : Dates]
Correction ==
  [amount : Money, paid : Money, party : Parties \cup {NoParty},
   date : Dates \cup {Unknown}]

ASSUME NoPartyIsNobody == NoParty \notin Parties
ASSUME DatesAreNumbers == Dates \subseteq Nat /\ Dates # {}
ASSUME BoundsAreNatural == MaxRows \in Nat /\ MaxBatch \in Nat
ASSUME InputsAreTyped == Entries \subseteq TransactionInput /\ Corrections \subseteq Correction

Ids == 1 .. MaxRows
NoRow == 0
Ops == {"idle", "record", "delete", "correct"}

VARIABLES
  rows,       \* business_transactions, as the open transaction sees them
  alloc,      \* repayment_allocations: alloc[r][d] of repayment r settles debt d
  db,         \* the committed rows and allocations
  op,         \* the operation in progress, "idle" when there is none
  targets,    \* the rows it is about
  undo,       \* repayments whose allocations it must still take back
  change,     \* the correction it must still write (a set of at most one)
  todo,       \* repayments it must still apply
  paying,     \* the repayment being applied, or NoRow
  remaining,  \* how much of it is not allocated yet
  touched     \* parties its LedgerChanged event names

vars == <<rows, alloc, db, op, targets, undo, change, todo, paying, remaining, touched>>

Row == [type : Types, direction : Directions, party : Parties \cup {NoParty},
        amount : Money, paid : Int, out : Money, date : Dates,
        batch : Nat, state : {"absent", "live", "deleted"}]

TypeOK ==
  /\ rows \in [Ids -> Row]
  /\ alloc \in [Ids -> [Ids -> Nat]]
  /\ db \in [rows : [Ids -> Row], alloc : [Ids -> [Ids -> Nat]]]
  /\ op \in Ops
  /\ targets \subseteq Ids
  /\ undo \subseteq Ids
  /\ change \subseteq Corrections
  /\ todo \subseteq Ids
  /\ paying \in Ids \cup {NoRow}
  /\ remaining \in Nat
  /\ touched \subseteq Parties

-----------------------------------------------------------------------------
(* Rows. *)

IsRepayment(row) == row.type = "debt_repayment"
IsComplete(row) == row.amount # Unknown          \* status = "complete"
Live(t, i) == t[i].state = "live"
Used(t) == {i \in Ids : t[i].state # "absent"}

PositivePart(x) == IF x > 0 THEN x ELSE 0
Lesser(x, y) == IF x < y THEN x ELSE y
NamedParty(p) == {p} \ {NoParty}

\* What was paid if no payment was mentioned: all of a sale or purchase, none of a loan.
PaidByDefault(row) == IF row.type \in {"sale", "expense"} THEN row.amount ELSE 0

SettledPaid(row) ==
  IF ~IsComplete(row) THEN row.paid
  ELSE IF IsRepayment(row) THEN Unknown
  ELSE IF row.paid = Unknown THEN PaidByDefault(row) ELSE row.paid

SettledOut(row) ==
  IF IsComplete(row) /\ ~IsRepayment(row)
  THEN PositivePart(row.amount - SettledPaid(row)) ELSE Unknown

Settle(row) == [row EXCEPT !.paid = SettledPaid(row), !.out = SettledOut(row)]

\* A debt that money of repayment r may settle.
Settles(repayment, debt) ==
  /\ IsRepayment(repayment)
  /\ debt.type \in SettleableByDirection[repayment.direction]
  /\ repayment.party # NoParty
  /\ debt.party = repayment.party

OpenDebts(t, r) ==
  {d \in Ids : Live(t, d) /\ IsComplete(t[d]) /\ Settles(t[r], t[d]) /\ t[d].out > 0}

\* Faulty variant: the order of recording, not of dates.
OlderById(t, d, e) == d < e

\* ORDER BY date, id
Older(t, d, e) == t[d].date < t[e].date \/ (t[d].date = t[e].date /\ d < e)

\* Faulty variant: only the newest row.
LatestRow(t) == {i \in Ids : Live(t, i) /\ \A j \in Ids : Live(t, j) => j <= i}

\* _latest_batch: the live rows with the newest live row's batch_id.
LatestBatch(t) ==
  {i \in Ids : /\ Live(t, i)
               /\ \A j \in Ids : Live(t, j) => t[j].batch <= t[i].batch}

-----------------------------------------------------------------------------
(* Repayments. *)

PayInto(row, money) == [row EXCEPT !.paid = @ + money, !.out = @ - money]

\* Faulty variant: amount_paid keeps what the allocation had added.
ReverseOutstandingOnly(r) ==
  /\ rows' = [d \in Ids |-> [rows[d] EXCEPT !.out = IF @ = Unknown THEN @ ELSE @ + alloc[r][d]]]
  /\ alloc' = [alloc EXCEPT ![r] = [d \in Ids |-> 0]]

\* Faulty variant: the debts go back to what they were, the allocation rows stay.
ReverseKeepingRows(r) ==
  /\ rows' = [d \in Ids |->
                IF alloc[r][d] = 0 THEN rows[d]
                ELSE PayInto(rows[d], 0 - alloc[r][d])]
  /\ UNCHANGED alloc

\* _reverse_repayment: what repayment r settled is owed again.
Reverse(r) ==
  /\ rows' = [d \in Ids |->
                IF alloc[r][d] = 0 THEN rows[d]
                ELSE PayInto(rows[d], 0 - alloc[r][d])]
  /\ alloc' = [alloc EXCEPT ![r] = [d \in Ids |-> 0]]

AppliedTo(d) == {r \in Ids : alloc[r][d] > 0}

\* The loop of _apply_repayment: the oldest open debt takes what it can.
PayOldest ==
  /\ paying # NoRow /\ remaining > 0
  /\ \E d \in OpenDebts(rows, paying) :
       /\ \A e \in OpenDebts(rows, paying) \ {d} : Older(rows, d, e)
       /\ LET applied == Lesser(remaining, rows[d].out)
          IN  /\ rows' = [rows EXCEPT ![d] = PayInto(@, applied)]
              /\ alloc' = [alloc EXCEPT ![paying][d] = @ + applied]
              /\ remaining' = remaining - applied
  /\ UNCHANGED <<db, op, targets, undo, change, todo, paying, touched>>

\* Faulty variant: the loop waits for the money to run out.
PaidInFull ==
  /\ paying # NoRow /\ remaining = 0
  /\ paying' = NoRow
  /\ UNCHANGED <<rows, alloc, db, op, targets, undo, change, todo, remaining, touched>>

\* It ends with the money or with the debts; the rest stays unallocated.
Paid ==
  /\ paying # NoRow
  /\ remaining = 0 \/ OpenDebts(rows, paying) = {}
  /\ paying' = NoRow
  /\ remaining' = 0
  /\ UNCHANGED <<rows, alloc, db, op, targets, undo, change, todo, touched>>

\* The entry of the operation's rows that repayment r was settling.
FirstTarget(r) == CHOOSE d \in {t \in targets : alloc[r][t] > 0} :
                    \A e \in targets : alloc[r][e] > 0 => d <= e

\* persist applies in row order, delete in the order it met the debts, and
\* correct in the order of a SELECT DISTINCT, which is any.
Due(r) ==
  /\ r \in todo
  /\ op = "record" => \A s \in todo : r <= s
  /\ op = "delete" => \A s \in todo : FirstTarget(r) <= FirstTarget(s)

ReadyToApply == op # "idle" /\ undo = {} /\ change = {} /\ paying = NoRow

\* The next repayment is applied; a deletion first takes back what it settled.
Apply(r) ==
  /\ ReadyToApply
  /\ Due(r)
  /\ IF op = "delete" THEN Reverse(r) ELSE UNCHANGED <<rows, alloc>>
  /\ todo' = todo \ {r}
  /\ paying' = r
  /\ remaining' = rows[r].amount
  /\ UNCHANGED <<db, op, targets, undo, change, touched>>

\* Deleting a repayment, or correcting one, or a debt it settles.
TakeBack(r) ==
  /\ r \in undo
  /\ Reverse(r)
  /\ undo' = undo \ {r}
  /\ UNCHANGED <<db, op, targets, change, todo, paying, remaining, touched>>

-----------------------------------------------------------------------------
(* The operations. *)

\* zero_means_unknown: a stated 0 is an amount not stated.
Stated(amount) == IF amount = 0 THEN Unknown ELSE amount

NewRow(e, b) ==
  Settle([type |-> e.type, direction |-> e.direction, party |-> e.party,
          amount |-> Stated(e.amount), paid |-> e.paid, out |-> Unknown,
          date |-> e.date, batch |-> b, state |-> "live"])

PartiesOf(t, S) == UNION {NamedParty(t[i].party) : i \in S}

\* Faulty variant: repayments with no amount yet are applied too.
RecordApplyingAll(first, n, batch) ==
  LET new == first + 1 .. first + n
      t == [i \in Ids |-> IF i \in new THEN NewRow(batch[i - first], first + 1)
                                       ELSE rows[i]]
  IN  /\ rows' = t
      /\ op' = "record"
      /\ targets' = new
      /\ todo' = {i \in new : IsRepayment(t[i])}
      /\ touched' = PartiesOf(t, new)
      /\ UNCHANGED <<alloc, db, undo, change, paying, remaining>>

\* persist_transactions
Record(first, n, batch) ==
  LET new == first + 1 .. first + n
      t == [i \in Ids |-> IF i \in new THEN NewRow(batch[i - first], first + 1)
                                       ELSE rows[i]]
  IN  /\ rows' = t
      /\ op' = "record"
      /\ targets' = new
      /\ todo' = {i \in new : IsRepayment(t[i]) /\ IsComplete(t[i])}
      /\ touched' = PartiesOf(t, new)
      /\ UNCHANGED <<alloc, db, undo, change, paying, remaining>>

\* Faulty variant: what settled a deleted debt is left where it was.
DeleteWithoutMoving(S) ==
  /\ op = "idle"
  /\ S # {}
  /\ rows' = [i \in Ids |-> IF i \in S THEN [rows[i] EXCEPT !.state = "deleted"]
                                       ELSE rows[i]]
  /\ op' = "delete"
  /\ targets' = S
  /\ undo' = {i \in S : IsRepayment(rows[i])}
  /\ touched' = PartiesOf(rows, S)
  /\ UNCHANGED <<alloc, db, change, todo, paying, remaining>>

\* Faulty variant: it is taken back, but not applied to the other debts.
DeleteWithoutReapplying(S) ==
  /\ op = "idle"
  /\ S # {}
  /\ rows' = [i \in Ids |-> IF i \in S THEN [rows[i] EXCEPT !.state = "deleted"]
                                       ELSE rows[i]]
  /\ op' = "delete"
  /\ targets' = S
  /\ undo' = {i \in S : IsRepayment(rows[i])} \cup UNION {AppliedTo(d) : d \in S}
  /\ touched' = PartiesOf(rows, S)
  /\ UNCHANGED <<alloc, db, change, todo, paying, remaining>>

\* delete_transactions, of one owned row or of the last message's rows
Delete(S) ==
  LET reps == {i \in S : IsRepayment(rows[i])}
  IN  /\ op = "idle"
      /\ S # {}
      /\ rows' = [i \in Ids |-> IF i \in S THEN [rows[i] EXCEPT !.state = "deleted"]
                                           ELSE rows[i]]
      /\ op' = "delete"
      /\ targets' = S
      /\ undo' = reps
      /\ todo' = (UNION {AppliedTo(d) : d \in S}) \ S
      /\ touched' = PartiesOf(rows, S)
      /\ UNCHANGED <<alloc, db, change, paying, remaining>>

\* Faulty variant: repayments stay on the row while it is edited.
CorrectInPlace(i, c) ==
  /\ Live(rows, i)
  /\ op' = "correct"
  /\ targets' = {i}
  /\ change' = {c}
  /\ touched' = PartiesOf(rows, {i})
  /\ UNCHANGED <<rows, alloc, db, undo, todo, paying, remaining>>

\* correct_transaction: first every repayment effect comes off the row
Correct(i, c) ==
  /\ Live(rows, i)
  /\ op' = "correct"
  /\ targets' = {i}
  /\ undo' = IF IsRepayment(rows[i]) THEN {i} ELSE AppliedTo(i)
  /\ todo' = IF IsRepayment(rows[i]) THEN {} ELSE AppliedTo(i)
  /\ change' = {c}
  /\ touched' = PartiesOf(rows, {i})
  /\ UNCHANGED <<rows, alloc, db, paying, remaining>>

Given(v, old) == IF v = Unknown THEN old ELSE v

\* Faulty variant: balances are not derived again after the edit.
CorrectedUnsettled(row, c) ==
  [row EXCEPT !.amount = Given(c.amount, @), !.paid = Given(c.paid, @),
              !.party = IF c.party = NoParty THEN @ ELSE c.party,
              !.date = Given(c.date, @)]

Corrected(row, c) ==
  LET wasPaidInFull == IsComplete(row) /\ row.paid = row.amount
      amount == Given(c.amount, row.amount)
      paid == IF c.paid # Unknown THEN c.paid
              ELSE IF c.amount # Unknown /\ wasPaidInFull THEN amount ELSE row.paid
  IN  Settle([row EXCEPT !.amount = amount, !.paid = paid,
                         !.party = IF c.party = NoParty THEN @ ELSE c.party,
                         !.date = Given(c.date, @)])

\* Faulty variant: the event names only the party the row had before.
EditNamingOldParty ==
  /\ op = "correct" /\ undo = {}
  /\ \E c \in change, i \in targets :
       LET row == Corrected(rows[i], c)
       IN  /\ rows' = [rows EXCEPT ![i] = row]
           /\ todo' = IF IsRepayment(row) /\ IsComplete(row) THEN {i} ELSE todo
  /\ change' = {}
  /\ UNCHANGED <<alloc, db, op, targets, undo, paying, remaining, touched>>

\* ... then the row is edited and settled afresh
Edit ==
  /\ op = "correct" /\ undo = {}
  /\ \E c \in change, i \in targets :
       LET row == Corrected(rows[i], c)
       IN  /\ rows' = [rows EXCEPT ![i] = row]
           /\ todo' = IF IsRepayment(row) /\ IsComplete(row) THEN {i} ELSE todo
           /\ touched' = touched \cup NamedParty(row.party)
  /\ change' = {}
  /\ UNCHANGED <<alloc, db, op, targets, undo, paying, remaining>>

Closed ==
  /\ op' = "idle" /\ targets' = {} /\ undo' = {} /\ change' = {} /\ todo' = {}
  /\ paying' = NoRow /\ remaining' = 0 /\ touched' = {}

Commit ==
  /\ ReadyToApply /\ todo = {}
  /\ db' = [rows |-> rows, alloc |-> alloc]
  /\ UNCHANGED <<rows, alloc>>
  /\ Closed

\* except Exception: await db.rollback(); a crash comes to the same.
Rollback ==
  /\ op # "idle"
  /\ rows' = db.rows
  /\ alloc' = db.alloc
  /\ UNCHANGED db
  /\ Closed
-----------------------------------------------------------------------------

BlankRow == [type |-> "sale", direction |-> "in", party |-> NoParty, amount |-> Unknown,
             paid |-> Unknown, out |-> Unknown, date |-> CHOOSE d \in Dates : TRUE,
             batch |-> 0, state |-> "absent"]

Init ==
  /\ rows = [i \in Ids |-> BlankRow]
  /\ alloc = [r \in Ids |-> [d \in Ids |-> 0]]
  /\ db = [rows |-> rows, alloc |-> alloc]
  /\ op = "idle" /\ targets = {} /\ undo = {} /\ change = {} /\ todo = {}
  /\ paying = NoRow /\ remaining = 0 /\ touched = {}

RecordMessage ==
  \E first \in {k \in 0 .. MaxRows : op = "idle" /\ Used(rows) = 1 .. k}, n \in 1 .. MaxBatch :
    /\ first + n <= MaxRows
    /\ \E batch \in [1 .. n -> Entries] : Record(first, n, batch)
DeleteOne == \E i \in Ids : Live(rows, i) /\ Delete({i})
DeleteLastMessage == Delete(LatestBatch(rows))
CorrectOne == op = "idle" /\ \E i \in Ids, c \in Corrections : Correct(i, c)

Work == PayOldest \/ Paid \/ Edit \/ Commit
          \/ \E r \in Ids : TakeBack(r) \/ Apply(r)

Next == RecordMessage \/ DeleteOne \/ DeleteLastMessage \/ CorrectOne \/ Work \/ Rollback

Spec == Init /\ [][Next]_vars
FairSpec == Spec /\ WF_vars(Work)
-----------------------------------------------------------------------------
(* Properties. *)

\* Entry i as the trader stated it: what was paid apart from any repayment.
PaidApart(ledger, i) ==
  ledger.rows[i].paid - SumFunction([r \in Ids |-> ledger.alloc[r][i]])

\* The outstanding of every complete debt is its amount less what was paid, and
\* never below zero, at every step of every operation and on deleted rows too:
\* taking a repayment back and applying it elsewhere loses and invents nothing.
BalancedIn(t) ==
  \A i \in Ids : i \in Used(t) /\ IsComplete(t[i]) /\ ~IsRepayment(t[i]) =>
                  t[i].out = PositivePart(t[i].amount - t[i].paid)
Balanced == BalancedIn(rows)

\* Money only ever settles a debt of the repayment's own party, on the side its
\* direction settles, and that debt is not paid beyond its amount.  A correction
\* that moves an entry to another person must have taken all of it off before.
MatchingIn(t, a) ==
  \A r, d \in Ids : a[r][d] > 0 => /\ Settles(t[r], t[d])
                                   /\ IsComplete(t[r]) /\ IsComplete(t[d])
                                   /\ t[d].paid + t[d].out = t[d].amount
AllocationsMatch == MatchingIn(rows, alloc)

\* Once committed, no allocation starts from or points at a deleted entry: what
\* settled a deleted debt has moved on, what a deleted repayment settled is open.
CommittedAllocationsLive ==
  \A r, d \in Ids : db.alloc[r][d] > 0 => Live(db.rows, r) /\ Live(db.rows, d)

\* A committed repayment never settles more than its own amount, however often
\* deletions and corrections have taken it back and applied it again.
NoMoneyInvented ==
  op = "idle" => \A r \in Ids : SumFunction(alloc[r]) <= PositivePart(rows[r].amount)

Committing == op # "idle" /\ op' = "idle" /\ db' # db

\* What the trader said was paid at the time survives every operation but a
\* correction of that very entry: only repayments move between the rows.
StatedPaymentsKept ==
  [][Committing => \A i \in Used(db.rows) :
       ~(op = "correct" /\ i \in targets) /\ IsComplete(db.rows[i]) =>
         PaidApart(db', i) = PaidApart(db, i)]_vars

\* The committed event names every party one of whose entries changed, both of
\* them when an entry moved: the graph sync refreshes nobody else.
EventNamesEveryChange ==
  [][Committing => \A i \in Ids : db'.rows[i] # db.rows[i] =>
       NamedParty(db'.rows[i].party) \cup
         (IF i \in Used(db.rows) THEN NamedParty(db.rows[i].party) ELSE {})
       \subseteq touched]_vars

\* The repayments an operation placed: new ones, and those it moved.
Placed(before, after) ==
  {r \in Ids : /\ Live(after.rows, r) /\ IsRepayment(after.rows[r])
               /\ IsComplete(after.rows[r])
               /\ r \notin Used(before.rows) \/ after.alloc[r] # before.alloc[r]}

\* A repayment an operation placed is fully used or leaves its party no open debt
\* it could settle, also when several repayments were taken back together.
NoIdleMoney ==
  [][Committing => \A r \in Placed(db, db') :
       \/ SumFunction(db'.alloc[r]) = db'.rows[r].amount
       \/ OpenDebts(db'.rows, r) = {}]_vars

\* "Settle the party's oldest open debts first": when a placed repayment holds
\* money on one debt, no older debt of that party is still open at the commit.
OldestDebtFirst ==
  [][Committing => \A r \in Placed(db, db') :
       \A d \in OpenDebts(db'.rows, r), e \in Ids :
         db'.alloc[r][e] > 0 => db'.rows[e].date <= db'.rows[d].date]_vars

\* Every operation ends: the settling loop runs out of money or of open debts,
\* so the transaction always reaches its commit (or a rollback).
OperationEnds == []<>(op = "idle")
=============================================================================
