-------------------------------- MODULE Desk --------------------------------
(***************************************************************************)
(* One trader's alerts and reminders over the same books: a repayment that *)
(* an alert records between a draft and its confirmation, an entry undone  *)
(* after its alert was answered, a clarification while a reminder is being *)
(* sent.  The turn lock lets one tool run at a time; /clarify, the removal *)
(* of bank names and the debtors' replies keep no lock.                    *)
(***************************************************************************)
EXTENDS Alerts, Reminders

books == <<rows, tool, calls, mishaps>>
alertVars == <<alerts, aliases, torn>>
reminderVars == <<day, contacts, drafts, drafted, optedOut, inbox, stopped, adrift, shifted>>
vars == <<books, alertVars, reminderVars>>

\* Nothing is owed less than nothing: no repayment is placed twice or beyond its debt.
TypeOK ==
  /\ BooksTypeOK /\ AlertsTypeOK /\ RemindersTypeOK
  /\ \A p \in Parties : Owed(p) \in Nat

\* Some customers owe something already.
OldDebt(p, amount) ==
  [kind |-> "debt", party |-> p, amount |-> amount, placed |-> 0, from |-> NoText, live |-> TRUE]

Init ==
  /\ \E p \in Parties, a \in Amounts : rows = <<OldDebt(p, a)>>
  /\ tool = Idle /\ calls = 0 /\ mishaps = 0
  /\ AlertsInit /\ RemindersInit

\* The trader's own bookkeeping.
Keep ==
  /\ \/ \E kind \in {"debt", "money", "repay"}, p \in Parties \cup {NoParty}, a \in Amounts :
          Type(kind, p, a)
     \/ \E i \in DOMAIN rows : Undo(i)
  /\ UNCHANGED <<alertVars, reminderVars>>

ClarifyOutside ==
  /\ \E i \in DOMAIN rows, a \in Amounts : Clarify(i, a)
  /\ shifted' = (shifted \/ tool.at = "send")
  /\ UNCHANGED <<alertVars, day, contacts, drafts, drafted, optedOut, inbox, stopped, adrift>>

Review == \E t \in Texts : ReviewAsk(t) \/ \E p \in Parties : ReviewClear(t, p)

Resolve ==
  \E t \in Texts :
    \/ ResolveIgnore(t)
    \/ \E i \in DOMAIN rows : ResolveAlready(t, i)
    \/ \E kind \in {"money", "repay"}, p \in Parties \cup {NoParty} : ResolveAs(t, kind, p)

AnswerAlerts ==
  /\ Review \/ Resolve \/ Link \/ Tear \/ \E b \in Banks : ForgetName(b)
  /\ UNCHANGED reminderVars

Remind == RemindersNext /\ UNCHANGED alertVars

Next == Keep \/ ClarifyOutside \/ AnswerAlerts \/ Remind

Spec == Init /\ [][Next]_vars

-----------------------------------------------------------------------------
(* Properties. *)

Live(t) == {i \in DOMAIN rows : rows[i].live /\ rows[i].from = t}

\* However often an alert is forwarded, answered and undone, its money is in the books once,
\* and the alert points to that entry, so that undoing it frees the alert; unless a turn died
\* between the entry's commit and the alert's.
MoneyOnce ==
  \A t \in Texts \ torn :
    /\ \A i, j \in Live(t) : i = j
    /\ \A i \in Live(t) : alerts[t].row = i \/ (tool.at = "link" /\ tool.text = t /\ tool.row = i)

\* A reminder asks for what the books say is owed at that moment, after whatever was recorded,
\* undone or answered since it was drafted; only a clarification made during the sending
\* escapes it.
AmountIsOwed ==
  [][Len(inbox') > Len(inbox) /\ ~shifted =>
       inbox'[Len(inbox')].amount = Owed(drafts[tool.draft].party)]_vars

\* A debtor is not written to again within the cooldown, whatever the trader drafts and
\* confirms, unless a delivered reminder was never marked sent.
NotTwiceSoon ==
  LET new == Len(inbox')
  IN  new > Len(inbox) /\ inbox'[new].phone \notin adrift =>
        \A i \in DOMAIN inbox : inbox[i].phone = inbox'[new].phone => inbox'[new].on - inbox[i].on >= Cooldown

\* Once a STOP is heard nothing is sent to that number, except what was on its way; and a STOP
\* is heard unless the reminder it answers was not yet, or never, marked sent.
StopIsHeard ==
  /\ tool'.at = "send" /\ tool.at # "send" => drafts[tool'.draft].phone \notin optedOut
  /\ \A n \in stopped' \ stopped :
       n \notin optedOut' => n \in adrift \/ (tool.at = "sent" /\ drafts[tool.draft].phone = n)

DebtorsAreSpared == [][NotTwiceSoon /\ StopIsHeard]_vars
=============================================================================
