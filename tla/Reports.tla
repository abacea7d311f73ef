------------------------------ MODULE Reports ------------------------------
(***************************************************************************)
(* What is read out of the ledger: a person's statement of account         *)
(* (tools/statements.py), the chat's reports (recievables, expenses,       *)
(* generate_PnL) and the web app's views (endpoints/dashboard.py).  Each   *)
(* is a function of the committed rows and allocations, read at one        *)
(* moment.  A period is a first and a last date.                           *)
(***************************************************************************)
EXTENDS Ledger, FiniteSetsExt

\* A calendar has a first and a last day.
ASSUME DatesAreFinite == IsFiniteSet(Dates)

\* Without a start date, or an end date, a report has no bound on that side.
FirstDate == Min(Dates)
LastDate == Max(Dates)

Receivable == {"sale", "loan_given"}
Payable == {"expense", "loan_taken"}

-----------------------------------------------------------------------------
(* The chat's reports. *)

Counted(t, types, from, to) ==
  {i \in Ids : /\ Live(t, i) /\ IsComplete(t[i]) /\ t[i].type \in types
               /\ from <= t[i].date /\ t[i].date <= to}

AmountOf(t, S) == SumFunctionOnSet([i \in Ids |-> t[i].amount], S)
OutstandingOf(t, S) == SumFunctionOnSet([i \in Ids |-> t[i].out], S)

OpenBalances(t, types, from, to) == {i \in Counted(t, types, from, to) : t[i].out > 0}

ByParty(t, S) ==
  [p \in {t[i].party : i \in S} |-> OutstandingOf(t, {i \in S : t[i].party = p})]

OpenReport(t, types, from, to) ==
  LET open == OpenBalances(t, types, from, to)
  IN  [total |-> OutstandingOf(t, open), people |-> ByParty(t, open)]

PnL(t, from, to) ==
  LET sales == Counted(t, {"sale"}, from, to)
      spent == Counted(t, {"expense"}, from, to)
  IN  [profit |-> AmountOf(t, sales) - AmountOf(t, spent),
       unpaid |-> OutstandingOf(t, sales), owing |-> OutstandingOf(t, spent)]

ExpenseReport(t, from, to) == AmountOf(t, Counted(t, {"expense"}, from, to))

-----------------------------------------------------------------------------
(* The web app's views. *)

\* overview(): the balances are of today, whatever the period.
TotalOf(t, type, from, to) == AmountOf(t, Counted(t, {type}, from, to))
UnpaidSales(t, from, to) == OutstandingOf(t, Counted(t, {"sale"}, from, to))
OpenNow(t, types) ==
  {i \in Ids : Live(t, i) /\ IsComplete(t[i]) /\ t[i].out > 0 /\ t[i].type \in types}

Overview(t, from, to) ==
  LET sales == TotalOf(t, "sale", from, to)
      spent == TotalOf(t, "expense", from, to)
  IN  [profit |-> sales - spent, spent |-> spent, unpaid |-> UnpaidSales(t, from, to),
       owedToYou |-> ByParty(t, OpenNow(t, Receivable)),
       youOwe |-> ByParty(t, OpenNow(t, Payable))]

\* debts(): per person, the open entries with what was paid and what is left.
DebtsView(t, types) ==
  LET open == OpenNow(t, types)
      of(p) == {i \in open : t[i].party = p}
  IN  [p \in {t[i].party : i \in open} |->
         [balance |-> OutstandingOf(t, of(p)),
          paid |-> SumFunctionOnSet([i \in Ids |-> t[i].amount - t[i].out], of(p))]]

\* people(): everyone with an entry, whether or not anything is open.
PeopleView(t) ==
  LET of(p) == {i \in Ids : Live(t, i) /\ t[i].party = p}
      owed(p, types) == {i \in of(p) : IsComplete(t[i]) /\ t[i].out # 0 /\ t[i].type \in types}
  IN  [p \in {q \in Parties : of(q) # {}} |->
         [entries |-> Cardinality(of(p)),
          owesYou |-> OutstandingOf(t, owed(p, Receivable)),
          youOwe |-> OutstandingOf(t, owed(p, Payable))]]

\* Collector._open_debts: whom to chase for how much, and since when.
Debtors(t) ==
  LET open == {i \in OpenNow(t, Receivable) : t[i].party # NoParty}
      of(p) == {i \in open : t[i].party = p}
  IN  [p \in {t[i].party : i \in open} |->
         [owed |-> OutstandingOf(t, of(p)), since |-> Min({t[i].date : i \in of(p)})]]

-----------------------------------------------------------------------------
(* The statement of one person up to a date. *)

Dealings(t, p, to) == {i \in Ids : Live(t, i) /\ t[i].party = p /\ t[i].date <= to}

\* Mutant of Allocated: only the repayments the statement shows.
AllocatedWithin(t, a, i, to) ==
  SumFunction([r \in Ids |-> IF t[r].date <= to THEN a[r][i] ELSE 0])

\* What later repayments contributed to amount_paid, whenever they were made.
Allocated(t, a, i, to) == SumFunction([r \in Ids |-> a[r][i]])

Upfront(t, a, i, to) ==
  IF IsRepayment(t[i]) THEN 0 ELSE PositivePart(t[i].paid - Allocated(t, a, i, to))

\* A line is an entry and its part: 1 what it charges, 2 what was paid on the spot.
Lines(t, a, p, to) ==
  {l \in Ids \X {1, 2} : /\ l[1] \in Dealings(t, p, to) /\ IsComplete(t[l[1]])
                         /\ (l[2] = 1 \/ Upfront(t, a, l[1], to) > 0)}

\* _entry_lines: positive is more that the person owes.
EntryLines(t, a, to) ==
  LET lent(row) == row.type \in Receivable \/ (IsRepayment(row) /\ row.direction = "out")
      size(l) == IF l[2] = 1 THEN t[l[1]].amount ELSE Upfront(t, a, l[1], to)
  IN  [l \in Ids \X {1, 2} |-> IF lent(t[l[1]]) <=> l[2] = 1 THEN size(l) ELSE 0 - size(l)]

\* The lines are in the order of their entries.
Before(t, l, m) == Older(t, l[1], m[1]) \/ (l[1] = m[1] /\ l[2] < m[2])
LastLine(t, lines) == CHOOSE l \in lines : \A m \in lines \ {l} : Before(t, m, l)

Balance(t, a, lines, to) == SumFunctionOnSet(EntryLines(t, a, to), lines)

\* build_statement: a line's balance is what it and the lines before it come to, and the
\* balance of the last one before the period is brought forward.
Statement(t, a, p, from, to) ==
  LET all == Lines(t, a, p, to)
      earlier == {l \in all : t[l[1]].date < from}
      after(l) == Balance(t, a, {m \in all : m = l \/ Before(t, m, l)}, to)
  IN  [opening |-> IF earlier = {} THEN 0 ELSE after(LastLine(t, earlier)),
       lines |-> [l \in all \ earlier |-> [amount |-> EntryLines(t, a, to)[l], balance |-> after(l)]],
       closing |-> Balance(t, a, all, to),
       pending |-> Cardinality({i \in Dealings(t, p, to) : ~IsComplete(t[i])})]

\* as_text: only so many of the last lines are shown, what came before is brought forward.
Visible(t, st, shown) ==
  {l \in DOMAIN st.lines : Cardinality({m \in DOMAIN st.lines : Before(t, l, m)}) < shown}

BroughtForward(t, st, shown) ==
  LET hidden == DOMAIN st.lines \ Visible(t, st, shown)
  IN  IF hidden = {} THEN st.opening ELSE st.lines[LastLine(t, hidden)].balance

-----------------------------------------------------------------------------
(* Properties. *)

\* What the person gave beyond what they owe: repayments no debt could take, and more
\* than the price paid on the spot.  Positive is what the trader holds of theirs.
Advance(t, a, p) ==
  LET mine(types) == {i \in Ids : /\ Live(t, i) /\ IsComplete(t[i]) /\ t[i].party = p
                                   /\ t[i].type \in types}
      repaid(direction) == {i \in mine({"debt_repayment"}) : t[i].direction = direction}
      unplaced == [r \in Ids |-> t[r].amount - SumFunction(a[r])]
      over == [i \in Ids |-> PositivePart(t[i].paid - t[i].amount)]
  IN  SumFunctionOnSet(unplaced, repaid("in")) - SumFunctionOnSet(unplaced, repaid("out"))
        + SumFunctionOnSet(over, mine(Receivable)) - SumFunctionOnSet(over, mine(Payable))

\* The closing balance of a statement, built line by line from what was charged, paid at
\* the time and repaid later, is what the ledger's outstandings say the person owes less
\* what the trader owes them, but for money given in advance.
StatementMatchesLedger(t, a) ==
  LET people == PeopleView(t)
  IN  \A p \in DOMAIN people :
        Statement(t, a, p, FirstDate, LastDate).closing =
          people[p].owesYou - people[p].youOwe - Advance(t, a, p)

\* A statement that ends on one day and a statement that starts on the next tell one
\* story: what the first closes with, the second brings forward.  So does the short text.
StatementsContinue(t, a) ==
  \A p \in {t[i].party : i \in Used(t)} \ {NoParty}, day \in Dates :
    LET next == Statement(t, a, p, day + 1, LastDate)
        amounts == [l \in DOMAIN next.lines |-> next.lines[l].amount]
    IN  /\ next.opening = Statement(t, a, p, FirstDate, day).closing
        /\ \A shown \in 1 .. MaxRows :
             next.closing = BroughtForward(t, next, shown)
                              + SumFunctionOnSet(amounts, Visible(t, next, shown))

\* The chat's reports, the web app's pages and the list of whom to chase give the same totals
\* for the same books.
ViewsAgree(t) ==
  LET receivables == OpenReport(t, Receivable, FirstDate, LastDate)
      payables == OpenReport(t, Payable, FirstDate, LastDate)
      debts(types) == LET view == DebtsView(t, types) IN [p \in DOMAIN view |-> view[p].balance]
      people == PeopleView(t)
      debtors == Debtors(t)
  IN  /\ receivables.people = debts(Receivable) /\ payables.people = debts(Payable)
      /\ \A p \in DOMAIN people :
           people[p].owesYou = IF p \in DOMAIN receivables.people THEN receivables.people[p] ELSE 0
      /\ DOMAIN debtors = DOMAIN receivables.people \ {NoParty}
      /\ \A p \in DOMAIN debtors :
           debtors[p].owed = people[p].owesYou
      /\ \A from, to \in Dates :
           LET view == Overview(t, from, to)
               pnl == PnL(t, from, to)
           IN  /\ view.profit = pnl.profit /\ view.unpaid = pnl.unpaid
               /\ view.spent = ExpenseReport(t, from, to)
               /\ view.owedToYou = receivables.people /\ view.youOwe = payables.people

\* "The running balance must always agree with the ledger" (test/test_statements.py), and
\* every page and report with every other, after any recording, undo or correction, as far
\* as each is read at one moment.
ReadingsAgree ==
  op = "idle" => /\ StatementMatchesLedger(db.rows, db.alloc)
                 /\ StatementsContinue(db.rows, db.alloc)
                 /\ ViewsAgree(db.rows)
=============================================================================
