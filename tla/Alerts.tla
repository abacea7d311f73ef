------------------------------- MODULE Alerts -------------------------------
(***************************************************************************)
(* Bank alerts the trader forwards (tools/alerts.py): reviewed, recorded   *)
(* at once when it is clear whose debt they pay, otherwise kept until the  *)
(* trader says what they were.  An entry and its alert's "recorded" are    *)
(* two commits.  Money in only: money out is its mirror image.             *)
(***************************************************************************)
EXTENDS Books

CONSTANTS
  Banks,        \* names accounts have at the bank
  Bank,         \* the counterparty of each alert
  Amount,       \* its amount
  Receipts,     \* the alerts that are a sender's "transfer successful"
  NamesMatch    \* names_match: the pairs of a party and a bank name

ASSUME AlertsAreGiven ==
  /\ Bank \in [Texts -> Banks] /\ Amount \in [Texts -> Amounts]
  /\ Receipts \subseteq Texts /\ NamesMatch \subseteq Parties \X Banks

VARIABLES
  alerts,    \* bank_alerts, by fingerprint
  aliases,   \* party_aliases: whom the trader said a bank name is
  torn       \* history: alerts whose entry was committed and whose status was not

Alert == [status : {"none", "pending", "recorded", "already_recorded", "ignored"},
          row : 0 .. MaxRows]
NoAlert == [status |-> "none", row |-> 0]

AlertsTypeOK ==
  /\ alerts \in [Texts -> Alert]
  /\ aliases \in [Banks -> Parties \cup {NoParty}]
  /\ torn \subseteq Texts

AlertsInit ==
  alerts = [t \in Texts |-> NoAlert] /\ aliases = [b \in Banks |-> NoParty] /\ torn = {}

-----------------------------------------------------------------------------
(* What an alert could be. *)

\* Mutant of Fresh: the entry need not have been undone.
FreshWhenAnswered(t) == alerts[t].status # "pending"

\* Never seen, or the entry it led to was undone.
Fresh(t) ==
  \/ alerts[t].status = "none"
  \/ alerts[t].status # "pending" /\ alerts[t].row # 0 /\ ~rows[alerts[t].row].live

\* possible_duplicate: entries the trader may already have typed in for this money.
Linked(t) == {alerts[s].row : s \in Texts \ {t}}
SameMoney(t) ==
  {i \in DOMAIN rows : /\ rows[i].live /\ rows[i].amount = Amount[t] /\ i \notin Linked(t)
                       /\ rows[i].party = NoParty \/ <<rows[i].party, Bank[t]>> \in NamesMatch}

\* matching_debtors
Debtors(t) ==
  LET open == {p \in Parties : Owed(p) > 0}
      known == aliases[Bank[t]]
  IN  IF known \in open THEN {known} ELSE {p \in open : <<p, Bank[t]>> \in NamesMatch}

\* Clearly p's repayment: recorded without a question.
Clear(t, p) ==
  /\ t \notin Receipts
  /\ SameMoney(t) = {}
  /\ Debtors(t) = {p} /\ Amount[t] <= Owed(p)

-----------------------------------------------------------------------------

\* _record: the entry's commit, which leaves the alert pending, then the alert's.
Record(t, kind, p) ==
  /\ Len(rows) < MaxRows
  /\ rows' = Recorded(kind, p, Amount[t], t)
  /\ alerts' = [alerts EXCEPT ![t] = [status |-> "pending", row |-> 0]]
  /\ tool' = [Idle EXCEPT !.at = "link", !.text = t, !.row = Len(rows) + 1]

\* Mutant of Link: the status is written, the entry's id is not.
LinkUnnumbered ==
  /\ tool.at = "link"
  /\ alerts' = [alerts EXCEPT ![tool.text].status = "recorded"]
  /\ tool' = Idle
  /\ UNCHANGED <<rows, calls, mishaps, aliases, torn>>

Link ==
  /\ tool.at = "link"
  /\ alerts' = [alerts EXCEPT ![tool.text] = [status |-> "recorded", row |-> tool.row]]
  /\ tool' = Idle
  /\ UNCHANGED <<rows, calls, mishaps, aliases, torn>>

\* review_alert.  An alert seen before and not fresh changes nothing.
ReviewClear(t, p) ==
  /\ tool = Idle /\ Fresh(t) /\ Clear(t, p)
  /\ Call
  /\ Record(t, "repay", p)
  /\ UNCHANGED <<aliases, torn>>

ReviewAsk(t) ==
  /\ tool = Idle /\ Fresh(t) /\ \A p \in Parties : ~Clear(t, p)
  /\ Call
  /\ alerts' = [alerts EXCEPT ![t] = [status |-> "pending", row |-> 0]]
  /\ UNCHANGED <<rows, tool, aliases, torn>>

\* resolve_alert, by what the trader says it was.
Waiting(t) == tool = Idle /\ alerts[t].status = "pending" /\ Call

ResolveIgnore(t) ==
  /\ Waiting(t)
  /\ alerts' = [alerts EXCEPT ![t].status = "ignored"]
  /\ UNCHANGED <<rows, tool, aliases, torn>>

ResolveAlready(t, i) ==
  /\ Waiting(t) /\ rows[i].live
  /\ alerts' = [alerts EXCEPT ![t] = [status |-> "already_recorded", row |-> i]]
  /\ UNCHANGED <<rows, tool, aliases, torn>>

\* A sale, or a repayment of somebody's debt; save_alias joins the entry's commit.
ResolveAs(t, kind, p) ==
  /\ Waiting(t)
  /\ kind = "repay" => p # NoParty
  /\ Record(t, kind, p)
  /\ aliases' = IF p = NoParty THEN aliases ELSE [aliases EXCEPT ![Bank[t]] = p]
  /\ UNCHANGED torn

\* forget, _forget_bank_name and remove_alias delete rows outside the trader's turn.
ForgetName(b) ==
  /\ aliases[b] # NoParty
  /\ Call
  /\ aliases' = [aliases EXCEPT ![b] = NoParty]
  /\ UNCHANGED <<rows, tool, alerts, torn>>

\* The turn fails or dies between the two commits.
Tear ==
  /\ tool.at = "link" /\ mishaps < MaxMishaps
  /\ torn' = torn \cup {tool.text}
  /\ tool' = Idle /\ mishaps' = mishaps + 1
  /\ UNCHANGED <<rows, calls, alerts, aliases>>
=============================================================================
