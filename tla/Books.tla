------------------------------- MODULE Books -------------------------------
(***************************************************************************)
(* What one trader's alerts and reminders share: the ledger as they see it *)
(* (tools/ledger.py, whose own rules are the module Ledger's) and the tool *)
(* that the trader's turn has under way.                                   *)
(* Bound: a customer has at most one debt at a time.                       *)
(***************************************************************************)
EXTENDS Naturals, Sequences, FiniteSets, Functions

CONSTANTS
  Parties, NoParty,
  Texts, NoText,   \* bank alerts that can be forwarded, told apart by their fingerprints
  Amounts,
  MaxRows,         \* bound: entries ever recorded
  MaxDrafts,       \* bound: reminders ever drafted
  MaxCalls,        \* bound: tool calls, corrections and replies that change something
  MaxMishaps       \* bound: turns that fail or die half-way

ASSUME NobodyAndNothing == NoParty \notin Parties /\ NoText \notin Texts
ASSUME AmountsArePositive == Amounts \subseteq Nat \ {0}
ASSUME BoundsAreNatural ==
  MaxRows \in Nat \ {0} /\ MaxDrafts \in Nat /\ MaxCalls \in Nat /\ MaxMishaps \in Nat

VARIABLES rows, tool, calls, mishaps

\* placed: what of a repayment its allocations put on the debt; from: the alert it came from.
Row == [kind : {"debt", "money", "repay"}, party : Parties \cup {NoParty}, amount : Amounts,
        placed : Nat, from : Texts \cup {NoText}, live : BOOLEAN]

Tool == [at : {"idle", "link", "send", "sent"}, text : Texts \cup {NoText}, row : 0 .. MaxRows,
         draft : 0 .. MaxDrafts]
Idle == [at |-> "idle", text |-> NoText, row |-> 0, draft |-> 0]

BooksTypeOK ==
  /\ rows \in Seq(Row) /\ Len(rows) <= MaxRows
  /\ tool \in Tool
  /\ calls \in 0 .. MaxCalls /\ mishaps \in 0 .. MaxMishaps

\* A step of the trader's, of the clarify route's or of a debtor's.
Call == calls < MaxCalls /\ calls' = calls + 1 /\ UNCHANGED mishaps

Debts(p) == {i \in DOMAIN rows : rows[i].live /\ rows[i].kind = "debt" /\ rows[i].party = p}
Repayments(p) == {i \in DOMAIN rows : rows[i].live /\ rows[i].kind = "repay" /\ rows[i].party = p}

\* What entries are for, and what of them is placed.
Sum(S) == SumFunctionOnSet([i \in DOMAIN rows |-> rows[i].amount], S)
Placed(S) == SumFunctionOnSet([i \in DOMAIN rows |-> rows[i].placed], S)

\* The outstanding of the party's open debts.
Owed(p) == Sum(Debts(p)) - Placed(Repayments(p))

Lesser(a, b) == IF a <= b THEN a ELSE b

\* Mutant of Recorded: a repayment larger than the debt is placed whole.
RecordedWhole(kind, p, amount, t) ==
  Append(rows, [kind |-> kind, party |-> p, amount |-> amount, from |-> t, live |-> TRUE,
                placed |-> IF kind = "repay" THEN amount ELSE 0])

\* persist_transactions of one entry: the rows its commit leaves.
Recorded(kind, p, amount, t) ==
  Append(rows, [kind |-> kind, party |-> p, amount |-> amount, from |-> t, live |-> TRUE,
                placed |-> IF kind = "repay" THEN Lesser(amount, Owed(p)) ELSE 0])

\* The rows once the repayments on p's debt are taken back and placed, oldest first, on what it
\* is now.
PlacedAgain(p, debt) ==
  LET S == {i \in Repayments(p) : rows[i].placed > 0}
      taken(i) == Lesser(debt, Sum({j \in S : j < i}))
  IN  [i \in DOMAIN rows |->
         IF i \in S THEN [rows[i] EXCEPT !.placed = Lesser(rows[i].amount, debt - taken(i))] ELSE rows[i]]

-----------------------------------------------------------------------------

\* An entry the trader types in; a sale paid at once names nobody here.
Type(kind, p, amount) ==
  /\ tool = Idle /\ Len(rows) < MaxRows
  /\ kind = "money" <=> p = NoParty
  /\ kind = "debt" => Debts(p) = {}
  /\ Call
  /\ rows' = Recorded(kind, p, amount, NoText)
  /\ UNCHANGED tool

\* delete_transactions of one entry.
Undo(i) ==
  LET r == rows[i]
  IN  /\ tool = Idle /\ r.live
      /\ Call
      /\ rows' = [(IF r.kind = "debt" THEN PlacedAgain(r.party, 0) ELSE rows)
                    EXCEPT ![i].live = FALSE, ![i].placed = 0]
      /\ UNCHANGED tool

\* POST /clarify sets the amount of an entry, whatever the trader's turn is doing.
Clarify(i, amount) ==
  LET r == rows[i]
      others == Placed(Repayments(r.party) \ {i})
      debt == Sum(Debts(r.party))
  IN  /\ r.live /\ r.amount # amount
      /\ Call
      /\ rows' = [(IF r.kind = "debt" THEN PlacedAgain(r.party, amount) ELSE rows)
                    EXCEPT ![i].amount = amount,
                           ![i].placed = IF r.kind = "repay" THEN Lesser(amount, debt - others) ELSE 0]
      /\ UNCHANGED tool
=============================================================================
