----------------------------- MODULE Reminders -----------------------------
(***************************************************************************)
(* One trader's payment reminders (tools/debt_collection.py): drafted from *)
(* the books, confirmed in a later request, sent by WhatsApp and marked    *)
(* sent afterwards; and the debtors' STOP (channels/whatsapp.py).          *)
(* A day is the unit of time: DRAFT_TTL is less, the daily limit is one,   *)
(* the cooldown several.                                                   *)
(***************************************************************************)
EXTENDS Books

CONSTANTS
  Phones, NoPhone,
  Cooldown,     \* REMINDER_COOLDOWN_DAYS
  DailyLimit,   \* REMINDER_DAILY_LIMIT
  LastDay,      \* bound: days
  Contacts      \* the numbers saved before

ASSUME NotANumber == NoPhone \notin Phones
ASSUME ContactsAreNumbers == Contacts \in [Parties -> Phones \cup {NoPhone}]
ASSUME LimitsAreNatural == Cooldown \in Nat /\ DailyLimit \in Nat /\ LastDay \in Nat

VARIABLES
  day,
  contacts,   \* the number saved for each party
  drafts,     \* reminders, by id
  drafted,    \* drafts made in the current request
  optedOut,   \* reminder_opt_outs
  inbox,      \* what WhatsApp delivered, in order
  stopped,    \* history: numbers that replied STOP to a reminder
  adrift,     \* history: numbers with a delivered reminder that was never marked sent
  shifted     \* history: the books changed while the reminder under way was being sent

Draft == [party : Parties, phone : Phones, amount : Nat, on : 0 .. LastDay,
          status : {"draft", "sent", "failed"}]
Message == [phone : Phones, amount : Nat, on : 0 .. LastDay]

RemindersTypeOK ==
  /\ day \in 0 .. LastDay
  /\ contacts \in [Parties -> Phones \cup {NoPhone}]
  /\ drafts \in Seq(Draft) /\ Len(drafts) <= MaxDrafts
  /\ drafted \subseteq 1 .. MaxDrafts
  /\ optedOut \subseteq Phones
  /\ inbox \in Seq(Message)
  /\ stopped \subseteq Phones /\ adrift \subseteq Phones
  /\ shifted \in BOOLEAN

RemindersInit ==
  /\ day = 0 /\ contacts = Contacts
  /\ drafts = <<>> /\ drafted = {} /\ optedOut = {}
  /\ inbox = <<>> /\ stopped = {} /\ adrift = {} /\ shifted = FALSE

history == <<inbox, stopped, adrift, shifted>>

-----------------------------------------------------------------------------

\* on is the day it was drafted, and once it is sent the day it was sent.
Sent == {i \in DOMAIN drafts : drafts[i].status = "sent"}

\* _check_limits
WithinLimits(phone) ==
  /\ phone \notin optedOut
  /\ \A i \in Sent : drafts[i].phone = phone => day - drafts[i].on >= Cooldown
  /\ Cardinality({i \in Sent : day - drafts[i].on <= 1}) < DailyLimit

SaveContact(p, phone) ==
  /\ tool = Idle /\ contacts[p] # phone
  /\ Call
  /\ contacts' = [contacts EXCEPT ![p] = phone]
  /\ UNCHANGED <<rows, tool, day, drafts, drafted, optedOut, history>>

DraftReminder(p) ==
  /\ tool = Idle /\ Len(drafts) < MaxDrafts
  /\ Owed(p) > 0 /\ contacts[p] # NoPhone /\ WithinLimits(contacts[p])
  /\ Call
  /\ drafts' = Append(drafts, [party |-> p, phone |-> contacts[p], amount |-> Owed(p), on |-> day,
                               status |-> "draft"])
  /\ drafted' = drafted \cup {Len(drafts) + 1}
  /\ UNCHANGED <<rows, tool, day, contacts, optedOut, history>>

\* The request ends, one way or another: what it drafted may be confirmed in the next.
NextRequest ==
  /\ tool = Idle /\ drafted # {}
  /\ drafted' = {}
  /\ UNCHANGED <<rows, tool, calls, mishaps, day, contacts, drafts, optedOut, history>>

\* Mutant of Confirm: the limits were checked when it was drafted.
ConfirmUnchecked(i) ==
  /\ tool = Idle /\ drafts[i].status = "draft"
  /\ drafts[i].on = day /\ i \notin drafted
  /\ Owed(drafts[i].party) = drafts[i].amount
  /\ Call
  /\ tool' = [Idle EXCEPT !.at = "send", !.draft = i]
  /\ shifted' = FALSE
  /\ UNCHANGED <<rows, day, contacts, drafts, drafted, optedOut, inbox, stopped, adrift>>

\* Mutant of StillOwed: only a settled debt stops a reminder.
StillInDebt(i) == Owed(drafts[i].party) > 0

\* confirm_reminder up to send_template.
StillOwed(i) == Owed(drafts[i].party) = drafts[i].amount

Confirm(i) ==
  /\ tool = Idle /\ drafts[i].status = "draft"
  /\ drafts[i].on = day /\ i \notin drafted
  /\ WithinLimits(drafts[i].phone)
  /\ StillOwed(i)
  /\ Call
  /\ tool' = [Idle EXCEPT !.at = "send", !.draft = i]
  /\ shifted' = FALSE
  /\ UNCHANGED <<rows, day, contacts, drafts, drafted, optedOut, inbox, stopped, adrift>>

\* WhatsApp takes the message.
Deliver ==
  /\ tool.at = "send"
  /\ LET d == drafts[tool.draft]
     IN  inbox' = Append(inbox, [phone |-> d.phone, amount |-> d.amount, on |-> day])
  /\ tool' = [tool EXCEPT !.at = "sent"]
  /\ UNCHANGED <<rows, calls, mishaps, day, contacts, drafts, drafted, optedOut, stopped, adrift, shifted>>

Marked(status) ==
  /\ drafts' = [drafts EXCEPT ![tool.draft].status = status]
  /\ tool' = Idle
  /\ UNCHANGED <<rows, calls, mishaps, day, contacts, drafted, optedOut, history>>

MarkSent == tool.at = "sent" /\ Marked("sent")

\* WhatsAppSendError
MarkFailed == tool.at = "send" /\ Marked("failed")

\* Any other error, a timeout say, or the process dies: the draft stays a draft.
Lose ==
  /\ tool.at \in {"send", "sent"} /\ mishaps < MaxMishaps
  /\ adrift' = IF tool.at = "sent" THEN adrift \cup {drafts[tool.draft].phone} ELSE adrift
  /\ tool' = Idle /\ mishaps' = mishaps + 1
  /\ drafted' = {}
  /\ UNCHANGED <<rows, calls, day, contacts, drafts, optedOut, inbox, stopped, shifted>>

\* A debtor replies STOP: heard if latest_reminder_to finds what it answers.
Stop(phone) ==
  /\ \E k \in DOMAIN inbox : inbox[k].phone = phone
  /\ phone \notin optedOut
  /\ Call
  /\ optedOut' = IF \E i \in Sent : drafts[i].phone = phone THEN optedOut \cup {phone} ELSE optedOut
  /\ stopped' = stopped \cup {phone}
  /\ UNCHANGED <<rows, tool, day, contacts, drafts, drafted, inbox, adrift, shifted>>

NextDay ==
  /\ tool = Idle /\ drafted = {} /\ day < LastDay
  /\ day' = day + 1
  /\ UNCHANGED <<rows, tool, calls, mishaps, contacts, drafts, drafted, optedOut, history>>

RemindersNext ==
  \/ \E p \in Parties : DraftReminder(p) \/ \E n \in Phones : SaveContact(p, n)
  \/ \E i \in DOMAIN drafts : Confirm(i)
  \/ NextRequest \/ Deliver \/ MarkSent \/ MarkFailed \/ Lose \/ NextDay
  \/ \E n \in Phones : Stop(n)
=============================================================================
