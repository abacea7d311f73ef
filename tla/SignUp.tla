------------------------------- MODULE SignUp -------------------------------
(***************************************************************************)
(* A WhatsApp number finding its account: sign-up by two questions         *)
(* (channels/onboarding.py), codes shown on the website and sent from the  *)
(* phone (tools/phone_auth.py), and browser sessions                       *)
(* (authentication/auth.py).  A message is handled by a background task of *)
(* the process that took it: it reads, and later commits.                  *)
(***************************************************************************)
EXTENDS Naturals, Sequences, FiniteSets

CONSTANTS
  Numbers, NoNumber,
  Procs,
  Browsers,
  MaxMessages,     \* bound: messages ever received
  MaxAccounts,     \* bound: accounts, the first one made on the website
  MaxChallenges,   \* bound: challenges ever started
  MaxMishaps       \* bound: crashes, sign-ups abandoned, reminders, expiries

ASSUME NotANumber == NoNumber \notin Numbers
ASSUME BoundsAreNatural ==
  /\ MaxMessages \in Nat /\ MaxAccounts \in Nat \ {0} /\ MaxChallenges \in Nat
  /\ MaxMishaps \in Nat

VARIABLES
  msgs,         \* messages, in order of arrival, and how far their tasks are
  accounts,     \* the user table
  signups,      \* onboarding_sessions, by number
  challenges,   \* phone_challenges
  sessions,     \* the account each browser is logged in to, or none
  polling,      \* the approved challenge each browser's poll has read
  reminded,     \* numbers that were sent a payment reminder
  recorded,     \* history: how often each message was answered in a turn
  collected,    \* history: how often each challenge started a session
  mixed,        \* history: numbers with messages in hand at two processes at once
  raced,        \* history: challenges polled by two at once, or approved by two messages
  mishaps

vars == <<msgs, accounts, signups, challenges, sessions, polling, reminded, recorded, collected,
          mixed, raced, mishaps>>

Ids == 0 .. MaxMessages
Owners == 0 .. MaxAccounts
NoOwner == 0

\* biz and name are the messages that answered the two questions, first the one that was
\* kept to be recorded, 0 for none.
Account == [number : Numbers \cup {NoNumber}, born : Ids, biz : Ids, name : Ids, first : Ids]
WebAccount == [number |-> NoNumber, born |-> 0, biz |-> 0, name |-> 0, first |-> 0]

\* A row is known by the message that made it.
SignUp == [step : {"none", "business_name", "name"}, born : Ids, biz : Ids, first : Ids,
           old : BOOLEAN]
NoSignUp == [step |-> "none", born |-> 0, biz |-> 0, first |-> 0, old |-> FALSE]

Challenge == [purpose : {"login", "link"}, number : Numbers, user : Owners, open : BOOLEAN,
              status : {"pending", "approved", "consumed", "rejected"}]

\* What a message says; it is read when its task begins.
Kinds == {"sale", "text", "unusable", "cancel", "logout", "code"}
Message == [from : Numbers, proc : Procs, kind : Kinds, code : 0 .. MaxChallenges,
            at : {"queued", "code", "signup", "answer", "done", "lost"},
            owner : Owners, row : SignUp, replay : Ids]
Unread(n, p, at) == [from |-> n, proc |-> p, kind |-> "text", code |-> 0, at |-> at,
                     owner |-> NoOwner, row |-> NoSignUp, replay |-> 0]

TypeOK ==
  /\ msgs \in Seq(Message) /\ Len(msgs) <= MaxMessages
  /\ accounts \in Seq(Account) /\ Len(accounts) <= MaxAccounts
  /\ signups \in [Numbers -> SignUp]
  /\ challenges \in Seq(Challenge) /\ Len(challenges) <= MaxChallenges
  /\ sessions \in [Browsers -> Owners]
  /\ polling \in [Browsers -> 0 .. MaxChallenges]
  /\ reminded \subseteq Numbers /\ mixed \subseteq Numbers
  /\ recorded \in [1 .. MaxMessages -> Nat]
  /\ collected \in [1 .. MaxChallenges -> Nat]
  /\ raced \subseteq 1 .. MaxChallenges
  /\ mishaps \in 0 .. MaxMishaps
  /\ \A i \in 1 .. Len(msgs) : msgs[i].at = "signup" => msgs[i].owner = NoOwner
  /\ \A c \in DOMAIN challenges : challenges[c].purpose = "link" => challenges[c].user # NoOwner

-----------------------------------------------------------------------------

\* The account with this number.
Owner(n) ==
  IF \E a \in DOMAIN accounts : accounts[a].number = n
    THEN CHOOSE a \in DOMAIN accounts : accounts[a].number = n ELSE NoOwner

\* Mutant of Taken: users.phone is not unique.
TakenNever(n, a) == FALSE

\* What makes the commit of a second account with the number fail.
Taken(n, a) == \E b \in DOMAIN accounts : b # a /\ accounts[b].number = n

Over(i) == msgs[i].at \in {"done", "lost"}

\* Mutant of First: no lock per sender.
FirstUnlocked(i) == TRUE

\* The sender's lock of this process comes to message i.
First(i) ==
  \A j \in 1 .. i - 1 :
    msgs[j].from = msgs[i].from /\ msgs[j].proc = msgs[i].proc => Over(j)

To(i, at) == msgs' = [msgs EXCEPT ![i] = Unread(@.from, @.proc, at)]
Mishap == mishaps < MaxMishaps /\ mishaps' = mishaps + 1

\* A code only fits the number and the purpose it was asked for, once and in time.
Fits(c, n) ==
  /\ challenges[c].number = n
  /\ challenges[c].status = "pending" /\ challenges[c].open

-----------------------------------------------------------------------------
(* Inbound messages. *)

Receive(n, p) ==
  /\ Len(msgs) < MaxMessages
  /\ msgs' = Append(msgs, Unread(n, p, "queued"))
  /\ UNCHANGED <<accounts, signups, challenges, sessions, polling, reminded, recorded, collected,
                 mixed, raced, mishaps>>

\* _process_inbound up to what it first writes: what the message says, whom it is from, and
\* what is known of them.
Begin(i, kind, c) ==
  LET m == msgs[i]
      n == m.from
      o == Owner(n)
      Read(at, replay) ==
        msgs' = [msgs EXCEPT ![i] = [from |-> n, proc |-> m.proc, kind |-> kind, code |-> c, at |-> at,
                                     owner |-> o, row |-> signups[n], replay |-> replay]]
  IN  /\ m.at = "queued" /\ First(i)
      /\ kind = "code" <=> c # 0
      /\ mixed' = IF \E j \in DOMAIN msgs : msgs[j].from = n /\ msgs[j].proc # m.proc /\ ~Over(j)
                    THEN mixed \cup {n} ELSE mixed
      /\ \/ /\ kind = "code"
            /\ IF Fits(c, n) THEN Read("code", 0) ELSE To(i, "done")
            /\ UNCHANGED sessions
         \/ /\ kind # "code" /\ o = NoOwner
            /\ IF n \in reminded THEN To(i, "done") ELSE Read("signup", 0)
            /\ UNCHANGED sessions
         \/ /\ kind = "logout" /\ o # NoOwner
            /\ sessions' = [b \in Browsers |-> IF sessions[b] = o THEN NoOwner ELSE sessions[b]]
            /\ To(i, "done")
         \/ /\ kind \notin {"code", "logout"} /\ o # NoOwner
            /\ IF kind = "unusable" THEN To(i, "done") ELSE Read("answer", i)
            /\ UNCHANGED sessions
      /\ UNCHANGED <<accounts, signups, challenges, polling, reminded, recorded, collected, raced,
                     mishaps>>

\* respond, for the message itself or for the first message of a sign-up.
Answer(i) ==
  /\ msgs[i].at = "answer"
  /\ recorded' = [recorded EXCEPT ![msgs[i].replay] = @ + 1]
  /\ To(i, "done")
  /\ UNCHANGED <<accounts, signups, challenges, sessions, polling, reminded, collected, mixed, raced,
                 mishaps>>

-----------------------------------------------------------------------------
(* onboarding.handle, from what it read to its commit.  A row that is gone *)
(* or an insert that another process made first ends the task by an        *)
(* exception nobody catches.                                               *)

Strange(row) == row.step = "none" \/ row.old

Welcome(i) ==
  LET m == msgs[i]
      n == m.from
  IN  /\ m.at = "signup" /\ Strange(m.row)
      /\ signups' = IF signups[n].step # "none" /\ signups[n].born # m.row.born THEN signups
                    ELSE [signups EXCEPT ![n] =
                            [step |-> "business_name", born |-> i, biz |-> 0, old |-> FALSE,
                             first |-> IF m.kind = "sale" THEN i ELSE 0]]
      /\ To(i, "done")
      /\ UNCHANGED <<accounts, challenges, sessions, polling, reminded, recorded, collected, mixed,
                     raced, mishaps>>

Reading(i) == msgs[i].at = "signup" /\ ~Strange(msgs[i].row)
SameRow(i) == signups[msgs[i].from].born = msgs[i].row.born

Reprompt(i) ==
  /\ Reading(i) /\ msgs[i].kind = "unusable"
  /\ To(i, "done")
  /\ UNCHANGED <<accounts, signups, challenges, sessions, polling, reminded, recorded, collected,
                 mixed, raced, mishaps>>

CancelSignUp(i) ==
  /\ Reading(i) /\ msgs[i].kind = "cancel"
  /\ signups' = IF SameRow(i) THEN [signups EXCEPT ![msgs[i].from] = NoSignUp] ELSE signups
  /\ To(i, "done")
  /\ UNCHANGED <<accounts, challenges, sessions, polling, reminded, recorded, collected, mixed, raced,
                 mishaps>>

Answers(i) == Reading(i) /\ msgs[i].kind \in {"sale", "text", "logout"}

BusinessName(i) ==
  LET n == msgs[i].from
  IN  /\ Answers(i) /\ msgs[i].row.step = "business_name"
      /\ signups' = IF SameRow(i)
                      THEN [signups EXCEPT ![n].step = "name", ![n].biz = i, ![n].old = FALSE]
                      ELSE signups
      /\ To(i, "done")
      /\ UNCHANGED <<accounts, challenges, sessions, polling, reminded, recorded, collected, mixed,
                     raced, mishaps>>

\* Mutant of CreateAccount: the first message is read from the row after it was deleted.
CreateAccountUnreplayed(i) ==
  LET m == msgs[i]
      n == m.from
  IN  /\ Answers(i) /\ m.row.step = "name" /\ ~Taken(n, NoOwner)
      /\ Len(accounts) < MaxAccounts
      /\ accounts' = Append(accounts, [number |-> n, born |-> m.row.born, biz |-> m.row.biz,
                                       name |-> i, first |-> m.row.first])
      /\ signups' = IF SameRow(i) THEN [signups EXCEPT ![n] = NoSignUp] ELSE signups
      /\ To(i, "done")
      /\ UNCHANGED <<challenges, sessions, polling, reminded, recorded, collected, mixed, raced,
                     mishaps>>

\* The account and the end of the sign-up are one commit; then the first message is replayed.
CreateAccount(i) ==
  LET m == msgs[i]
      n == m.from
  IN  /\ Answers(i) /\ m.row.step = "name" /\ ~Taken(n, NoOwner)
      /\ Len(accounts) < MaxAccounts
      /\ accounts' = Append(accounts, [number |-> n, born |-> m.row.born, biz |-> m.row.biz,
                                       name |-> i, first |-> m.row.first])
      /\ signups' = IF SameRow(i) THEN [signups EXCEPT ![n] = NoSignUp] ELSE signups
      /\ IF m.row.first = 0 THEN To(i, "done")
         ELSE msgs' = [msgs EXCEPT ![i] = [Unread(n, m.proc, "answer") EXCEPT
                                            !.owner = Len(accounts) + 1, !.replay = m.row.first]]
      /\ UNCHANGED <<challenges, sessions, polling, reminded, recorded, collected, mixed, raced,
                     mishaps>>

AlreadyRegistered(i) ==
  /\ Answers(i) /\ msgs[i].row.step = "name" /\ Taken(msgs[i].from, NoOwner)
  /\ To(i, "done")
  /\ UNCHANGED <<accounts, signups, challenges, sessions, polling, reminded, recorded, collected,
                 mixed, raced, mishaps>>

-----------------------------------------------------------------------------
(* Codes. *)

\* start_challenge; a link is asked for by a browser that is logged in.
StartLogin(n) ==
  /\ Len(challenges) < MaxChallenges
  /\ challenges' = Append(challenges, [purpose |-> "login", number |-> n, user |-> NoOwner,
                                       open |-> TRUE, status |-> "pending"])
  /\ UNCHANGED <<msgs, accounts, signups, sessions, polling, reminded, recorded, collected, mixed,
                 raced, mishaps>>

\* Mutant of StartLink: a link is started for whoever asks.
StartLinkUnasked(b, n) ==
  /\ Len(challenges) < MaxChallenges
  /\ challenges' = Append(challenges, [purpose |-> "link", number |-> n, user |-> sessions[b],
                                       open |-> TRUE, status |-> "pending"])
  /\ UNCHANGED <<msgs, accounts, signups, sessions, polling, reminded, recorded, collected, mixed,
                 raced, mishaps>>

StartLink(b, n) ==
  /\ Len(challenges) < MaxChallenges
  /\ sessions[b] # NoOwner /\ accounts[sessions[b]].number # n
  /\ challenges' = Append(challenges, [purpose |-> "link", number |-> n, user |-> sessions[b],
                                       open |-> TRUE, status |-> "pending"])
  /\ UNCHANGED <<msgs, accounts, signups, sessions, polling, reminded, recorded, collected, mixed,
                 raced, mishaps>>

\* A second message that read the challenge as pending writes over what came of it since.
Settled(i, status, user) ==
  LET c == msgs[i].code
  IN  /\ challenges' = [challenges EXCEPT ![c].status = status, ![c].user = user]
      /\ raced' = IF challenges[c].status = "pending" THEN raced ELSE raced \cup {c}

CompleteLogin(i) ==
  LET m == msgs[i]
  IN  /\ m.at = "code" /\ challenges[m.code].purpose = "login"
      /\ IF m.owner = NoOwner THEN Settled(i, "rejected", NoOwner) ELSE Settled(i, "approved", m.owner)
      /\ To(i, "done")
      /\ UNCHANGED <<accounts, signups, sessions, polling, reminded, recorded, collected, mixed,
                     mishaps>>

\* A number another account claimed in the meantime: the commit fails, the code stays pending.
CompleteLink(i) ==
  LET m == msgs[i]
      u == challenges[m.code].user
  IN  /\ m.at = "code" /\ challenges[m.code].purpose = "link"
      /\ \/ m.owner \notin {NoOwner, u} /\ Settled(i, "rejected", u) /\ UNCHANGED accounts
         \/ /\ m.owner \in {NoOwner, u} /\ ~Taken(m.from, u)
            /\ Settled(i, "approved", u)
            /\ accounts' = [accounts EXCEPT ![u].number = m.from]
         \/ m.owner \in {NoOwner, u} /\ Taken(m.from, u) /\ UNCHANGED <<accounts, challenges, raced>>
      /\ To(i, "done")
      /\ UNCHANGED <<signups, sessions, polling, reminded, recorded, collected, mixed, mishaps>>

Expire(c) ==
  /\ challenges[c].open /\ challenges[c].status = "pending" /\ Mishap
  /\ challenges' = [challenges EXCEPT ![c].open = FALSE]
  /\ UNCHANGED <<msgs, accounts, signups, sessions, polling, reminded, recorded, collected, mixed,
                 raced>>

-----------------------------------------------------------------------------
(* The website: a page polls its challenge, and an approved one is         *)
(* collected.                                                              *)

Poll(b, c) ==
  /\ polling[b] = 0 /\ challenges[c].status = "approved"
  /\ polling' = [polling EXCEPT ![b] = c]
  /\ raced' = IF \E d \in Browsers : polling[d] = c THEN raced \cup {c} ELSE raced
  /\ UNCHANGED <<msgs, accounts, signups, challenges, sessions, reminded, recorded, collected, mixed,
                 mishaps>>

\* Mutant of Collect: an approved challenge stays approved.
CollectKept(b) ==
  LET c == polling[b]
      login == challenges[c].purpose = "login"
  IN  /\ c # 0
      /\ sessions' = IF login THEN [sessions EXCEPT ![b] = challenges[c].user] ELSE sessions
      /\ collected' = [collected EXCEPT ![c] = @ + 1]
      /\ polling' = [polling EXCEPT ![b] = 0]
      /\ UNCHANGED <<msgs, accounts, signups, challenges, reminded, recorded, mixed, raced, mishaps>>

Collect(b) ==
  LET c == polling[b]
      login == challenges[c].purpose = "login"
  IN  /\ c # 0
      /\ challenges' = [challenges EXCEPT ![c].status = "consumed"]
      /\ sessions' = IF login THEN [sessions EXCEPT ![b] = challenges[c].user] ELSE sessions
      /\ collected' = [collected EXCEPT ![c] = @ + 1]
      /\ polling' = [polling EXCEPT ![b] = 0]
      /\ UNCHANGED <<msgs, accounts, signups, reminded, recorded, mixed, raced, mishaps>>

\* POST /logout, or a session that has run out.
EndSession(b) ==
  /\ sessions[b] # NoOwner
  /\ sessions' = [sessions EXCEPT ![b] = NoOwner]
  /\ UNCHANGED <<msgs, accounts, signups, challenges, polling, reminded, recorded, collected, mixed,
                 raced, mishaps>>

-----------------------------------------------------------------------------
(* What else happens. *)

\* A day passes over an unfinished sign-up.
Abandon(n) ==
  /\ signups[n].step # "none" /\ ~signups[n].old /\ Mishap
  /\ \A i \in DOMAIN msgs : msgs[i].from = n => Over(i)
  /\ signups' = [signups EXCEPT ![n].old = TRUE]
  /\ UNCHANGED <<msgs, accounts, challenges, sessions, polling, reminded, recorded, collected, mixed,
                 raced>>

\* Somebody's trader reminds this number of a debt: its replies are a debtor's from now on.
Remind(n) ==
  /\ n \notin reminded /\ Mishap
  /\ reminded' = reminded \cup {n}
  /\ UNCHANGED <<msgs, accounts, signups, challenges, sessions, polling, recorded, collected, mixed,
                 raced>>

\* The messages a process had taken die with it.
Crash(p) ==
  /\ Mishap
  /\ \E i \in DOMAIN msgs : msgs[i].proc = p /\ ~Over(i)
  /\ msgs' = [i \in DOMAIN msgs |-> IF msgs[i].proc = p /\ ~Over(i)
                                      THEN Unread(msgs[i].from, p, "lost") ELSE msgs[i]]
  /\ UNCHANGED <<accounts, signups, challenges, sessions, polling, reminded, recorded, collected,
                 mixed, raced>>

\* One account was made on the website and its browsers are logged in.
Init ==
  /\ msgs = <<>> /\ accounts = <<WebAccount>>
  /\ signups = [n \in Numbers |-> NoSignUp] /\ challenges = <<>>
  /\ \E B \in SUBSET Browsers : sessions = [b \in Browsers |-> IF b \in B THEN 1 ELSE NoOwner]
  /\ polling = [b \in Browsers |-> 0] /\ reminded = {}
  /\ recorded = [i \in 1 .. MaxMessages |-> 0] /\ collected = [c \in 1 .. MaxChallenges |-> 0]
  /\ mixed = {} /\ raced = {} /\ mishaps = 0

Task(i) ==
  \/ \E kind \in Kinds, c \in {0} \cup DOMAIN challenges : Begin(i, kind, c)
  \/ Answer(i)
  \/ Welcome(i) \/ Reprompt(i) \/ CancelSignUp(i) \/ BusinessName(i)
  \/ CreateAccount(i) \/ AlreadyRegistered(i)
  \/ CompleteLogin(i) \/ CompleteLink(i)

Next ==
  \/ \E n \in Numbers, p \in Procs : Receive(n, p)
  \/ \E i \in DOMAIN msgs : Task(i)
  \/ \E n \in Numbers : StartLogin(n) \/ Abandon(n) \/ Remind(n)
  \/ \E b \in Browsers, n \in Numbers : StartLink(b, n)
  \/ \E b \in Browsers, c \in DOMAIN challenges : Poll(b, c)
  \/ \E b \in Browsers : Collect(b) \/ EndSession(b)
  \/ \E c \in DOMAIN challenges : Expire(c)
  \/ \E p \in Procs : Crash(p)

Spec == Init /\ [][Next]_vars

-----------------------------------------------------------------------------
(* Properties. *)

\* A number is never two accounts', whatever signs up, links and moves at the same time.
NumberHasOneAccount ==
  \A a, b \in DOMAIN accounts :
    accounts[a].number = accounts[b].number /\ accounts[a].number # NoNumber => a = b

\* A burst ("hi", "Ada Provisions", "Ada") does not race through sign-up: the business is named
\* by an earlier message than the trader, and neither by the greeting, while one process has
\* the number's messages.
AnswersInOrder ==
  \A a \in DOMAIN accounts :
    LET r == accounts[a]
    IN  r.name # 0 /\ msgs[r.name].from \notin mixed => r.born < r.biz /\ r.biz < r.name

\* A sale that was somebody's first message is recorded once their account exists, and a message
\* is never recorded twice, also when two processes finish the same sign-up, as long as the
\* account it opened keeps its number: once that is moved to another phone, a task that still
\* has the finished sign-up in hand opens a second account with it.
FirstSaleOnce ==
  /\ \A i \in DOMAIN msgs :
       (\A a \in DOMAIN accounts : accounts[a].first = i => accounts[a].number = msgs[i].from) =>
         recorded[i] <= 1
  /\ \A a \in DOMAIN accounts :
       LET r == accounts[a]
       IN  r.first # 0 => recorded[r.first] >= 1 \/ msgs[r.name].at \in {"answer", "lost"}

\* "An approved challenge can be collected once" (tools/phone_auth.py, poll), unless two polls
\* read it, or two messages approved it, at the same time.
CollectedOnce == \A c \in DOMAIN challenges : c \notin raced => collected[c] <= 1
=============================================================================
