------------------------------ MODULE MCLedger ------------------------------
(***************************************************************************)
(* Ledger on small books, with its history for undo.                       *)
(***************************************************************************)
EXTENDS Reports, Undo

CONSTANTS p, q, nobody

MCParties == {p, q}
MCDates == {1, 2}

Debt(type, direction, party, amounts, paids, dates) ==
  [type : {type}, direction : {direction}, party : {party},
   amount : amounts, paid : paids, date : dates]
Repayment(direction, party, amounts) ==
  Debt("debt_repayment", direction, party, amounts, {Unknown}, {2})

\* One person's credit sales and repayments, and one entry of each other kind.
WideEntries ==
  Debt("sale", "in", p, {2}, {0}, {1})
    \cup Debt("sale", "in", p, {2}, {Unknown, 1}, {1})
    \cup Debt("sale", "in", q, {1}, {0}, {1})
    \cup Debt("expense", "out", p, {1}, {0}, {1})
    \cup Debt("loan_given", "out", p, {2}, {Unknown}, {2})
    \cup Repayment("in", p, {2, 0}) \cup Repayment("in", q, {1})
    \cup Repayment("out", p, {1})
    \cup Repayment("in", nobody, {1})

\* The entries of one person's running account, for longer books.
DeepEntries ==
  Debt("sale", "in", p, {2}, {0}, {1}) \cup Debt("sale", "in", p, {1}, {0}, {2})
    \cup Repayment("in", p, {1, 2})

\* A correction of the item, the note or another text sets none of these.
NoChange == [amount |-> Unknown, paid |-> Unknown, party |-> nobody, date |-> Unknown]
DeepCorrections ==
  {[NoChange EXCEPT !.amount = 1], [NoChange EXCEPT !.amount = 2],
   [NoChange EXCEPT !.date = 1]}

WideCorrections ==
  {[NoChange EXCEPT !.amount = a] : a \in {0, 2}}
    \cup {[NoChange EXCEPT !.paid = 1], [NoChange EXCEPT !.party = q],
          [NoChange EXCEPT !.date = 1], NoChange}

CONSTANT MaxEdits  \* bound: deletions and corrections begun

VARIABLE edits  \* deletions and corrections begun so far

MCVars == <<historyVars, edits>>
MCInit == HistoryInit /\ edits = 0
MCNext ==
  /\ HistoryNext
  /\ edits' = IF op = "idle" /\ op' \in {"delete", "correct"} THEN edits + 1 ELSE edits
  /\ edits' <= MaxEdits
MCSpec == MCInit /\ [][MCNext]_MCVars /\ WF_MCVars(Work /\ MCNext)
=============================================================================
