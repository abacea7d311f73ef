---------------------------- MODULE SignUpProofs ----------------------------
(***************************************************************************)
(* A number has one account, a code one session, a first sale one record,  *)
(* and a burst of answers keeps its order, for any number of phones,       *)
(* processes, browsers, messages, accounts and codes.                      *)
(***************************************************************************)
EXTENDS SignUp, SequenceTheorems, TLAPS

Places == {"queued", "code", "signup", "answer", "done", "lost"}

-----------------------------------------------------------------------------
(* Messages and how a step changes them. *)

\* A message nobody has read is a message.
LEMMA UnreadIs ==
  ASSUME NEW n \in Numbers, NEW p \in Procs, NEW at \in Places
  PROVE  LET m == Unread(n, p, at)
         IN  /\ m \in Message /\ m.from = n /\ m.proc = p /\ m.at = at /\ m.code = 0
             /\ m.owner = NoOwner /\ m.row = NoSignUp /\ m.replay = 0
<1>1. NoSignUp \in SignUp /\ 0 \in Ids /\ NoOwner \in Owners /\ 0 \in 0 .. MaxChallenges
  BY BoundsAreNatural DEF SignUp, NoSignUp, Ids, Owners, NoOwner
<1> QED BY <1>1 DEF Unread, Message, Places, Kinds

\* One message goes on; the others are where they were.
MsgMove(i, m) ==
  /\ i \in DOMAIN msgs /\ m \in Message
  /\ m.from = msgs[i].from /\ m.proc = msgs[i].proc
  /\ msgs' = [msgs EXCEPT ![i] = m]

\* Messages are numbered.
LEMMA MessagesAre ==
  ASSUME msgs \in Seq(Message), Len(msgs) <= MaxMessages
  PROVE  /\ DOMAIN msgs = 1 .. Len(msgs) /\ Len(msgs) \in Nat /\ DOMAIN msgs \subseteq Ids
         /\ DOMAIN msgs \subseteq 1 .. MaxMessages
         /\ \A i \in DOMAIN msgs : msgs[i] \in Message
  BY BoundsAreNatural DEF Ids

\* What a message that goes on changes.
LEMMA MoveChanges ==
  ASSUME msgs \in Seq(Message), NEW i, NEW m, MsgMove(i, m)
  PROVE  /\ msgs' \in Seq(Message) /\ Len(msgs') = Len(msgs) /\ DOMAIN msgs' = DOMAIN msgs
         /\ msgs'[i] = m
         /\ \A j \in DOMAIN msgs : j # i => msgs'[j] = msgs[j]
<1>1. i \in 1 .. Len(msgs) /\ m \in Message /\ msgs' = [msgs EXCEPT ![i] = m]
  BY DEF MsgMove
<1> QED BY <1>1, ExceptSeq

\* The end of a task.
LEMMA ToMoves ==
  ASSUME msgs \in Seq(Message), NEW i \in DOMAIN msgs, NEW at \in Places, To(i, at)
  PROVE  MsgMove(i, Unread(msgs[i].from, msgs[i].proc, at))
<1>1. msgs[i] \in Message
  OBVIOUS
<1>2. msgs[i].from \in Numbers /\ msgs[i].proc \in Procs
  BY <1>1 DEF Message
<1> QED BY <1>2, UnreadIs DEF To, MsgMove

\* What a task has read.
Begun(i, kind, c, at, replay) ==
  [from |-> msgs[i].from, proc |-> msgs[i].proc, kind |-> kind, code |-> c, at |-> at,
   owner |-> Owner(msgs[i].from), row |-> signups[msgs[i].from], replay |-> replay]

\* Accounts are numbered, and an owner is one of them or nobody.
LEMMA OwnerIs ==
  ASSUME accounts \in Seq(Account), Len(accounts) <= MaxAccounts, NEW n
  PROVE  /\ Owner(n) \in Owners
         /\ Owner(n) # NoOwner => Owner(n) \in DOMAIN accounts
         /\ NoOwner \notin DOMAIN accounts
  BY BoundsAreNatural DEF Owner, Owners, NoOwner

\* A task begins: it ends at once, or has read what it needs and goes on.
LEMMA BeginMoves ==
  ASSUME TypeOK, NEW i \in DOMAIN msgs, NEW kind \in Kinds, NEW c \in {0} \cup DOMAIN challenges,
         Begin(i, kind, c)
  PROVE  \/ MsgMove(i, Unread(msgs[i].from, msgs[i].proc, "done"))
         \/ \E at \in {"code", "signup", "answer"}, replay \in {0, i} :
              /\ MsgMove(i, Begun(i, kind, c, at, replay))
              /\ at = "code" <=> kind = "code"
              /\ at = "code" => Fits(c, msgs[i].from) /\ c # 0
              /\ at = "signup" => Owner(msgs[i].from) = NoOwner
              /\ at = "answer" <=> replay = i
<1> PICK m \in Message : m = msgs[i]
  BY DEF TypeOK
<1> PICK n \in Numbers : n = m.from
  BY DEF Message
<1> DEFINE Read(at, replay) == msgs' = [msgs EXCEPT ![i] = Begun(i, kind, c, at, replay)]
<1>1. /\ i \in Ids /\ 0 \in Ids /\ signups[n] \in SignUp /\ Owner(n) \in Owners
      /\ c \in 0 .. MaxChallenges /\ i # 0
  <2>1. signups[n] \in SignUp /\ Owner(n) \in Owners
    BY OwnerIs DEF TypeOK
  <2>2. i \in Ids /\ 0 \in Ids /\ i # 0
    BY MessagesAre, BoundsAreNatural DEF TypeOK, Ids
  <2>3. c \in 0 .. MaxChallenges
    BY BoundsAreNatural DEF TypeOK
  <2> QED BY <2>1, <2>2, <2>3
<1>2. ASSUME NEW at \in {"code", "signup", "answer"}, NEW replay \in {0, i}, Read(at, replay)
      PROVE  MsgMove(i, Begun(i, kind, c, at, replay))
  <2>1. Begun(i, kind, c, at, replay) \in Message
    BY <1>1 DEF Begun, Message
  <2>2. Begun(i, kind, c, at, replay).from = m.from /\ Begun(i, kind, c, at, replay).proc = m.proc
    BY DEF Begun
  <2> QED BY <1>2, <2>1, <2>2 DEF MsgMove
<1>3. \/ To(i, "done")
      \/ kind = "code" /\ Fits(c, n) /\ c # 0 /\ Read("code", 0)
      \/ kind # "code" /\ Owner(n) = NoOwner /\ Read("signup", 0)
      \/ kind # "code" /\ Read("answer", i)
  BY DEF Begin, Begun
<1>4. "done" \in Places /\ msgs \in Seq(Message)
  BY DEF Places, TypeOK
<1> HIDE DEF Read
<1> QED BY <1>1, <1>2, <1>3, <1>4, ToMoves

\* The last answer of a sign-up goes on to record its first message, if it has one to record.
Replaying(i) == [Unread(msgs[i].from, msgs[i].proc, "answer") EXCEPT
                   !.owner = Len(accounts) + 1, !.replay = msgs[i].row.first]

\* That is a message.
LEMMA ReplayingIs ==
  ASSUME TypeOK, NEW i \in DOMAIN msgs, Len(accounts) < MaxAccounts
  PROVE  LET m == Replaying(i)
         IN  /\ m \in Message /\ m.from = msgs[i].from /\ m.proc = msgs[i].proc /\ m.at = "answer"
             /\ m.row = NoSignUp /\ m.replay = msgs[i].row.first /\ m.code = 0
<1> PICK m \in Message : m = msgs[i]
  BY DEF TypeOK
<1>1. /\ m.from \in Numbers /\ m.proc \in Procs /\ m.row.first \in Ids
      /\ Len(accounts) + 1 \in Owners
  <2>1. m.from \in Numbers /\ m.proc \in Procs /\ m.row \in SignUp
    BY DEF Message
  <2>2. m.row.first \in Ids
    BY <2>1 DEF SignUp
  <2>3. Len(accounts) \in Nat
    BY DEF TypeOK
  <2> QED BY <2>1, <2>2, <2>3, BoundsAreNatural DEF Owners
<1>2. PICK u : u = Unread(m.from, m.proc, "answer")
  OBVIOUS
<1>3. /\ u \in Message /\ u.from = m.from /\ u.proc = m.proc /\ u.at = "answer" /\ u.row = NoSignUp /\ u.code = 0
  BY <1>1, <1>2, UnreadIs DEF Places
<1>4. Replaying(i) = [u EXCEPT !.owner = Len(accounts) + 1, !.replay = m.row.first]
  BY <1>2 DEF Replaying
<1> QED BY <1>1, <1>3, <1>4 DEF Message

\* A task that had begun ends, or goes on to record a first message.
Finishing(i) ==
  \/ Answer(i) \/ Welcome(i) \/ Reprompt(i) \/ CancelSignUp(i) \/ BusinessName(i)
  \/ CreateAccount(i) \/ AlreadyRegistered(i) \/ CompleteLogin(i) \/ CompleteLink(i)

\* How it moves its message.
LEMMA FinishingMoves ==
  ASSUME TypeOK, NEW i \in DOMAIN msgs, Finishing(i)
  PROVE  /\ \/ MsgMove(i, Unread(msgs[i].from, msgs[i].proc, "done"))
            \/ CreateAccount(i) /\ msgs[i].row.first # 0 /\ MsgMove(i, Replaying(i))
         /\ msgs[i].at \in {"code", "signup", "answer"}
<1>1. msgs[i].at \in {"code", "signup", "answer"}
  BY DEF Finishing, Answer, Welcome, Reprompt, CancelSignUp, BusinessName, CreateAccount,
         AlreadyRegistered, CompleteLogin, CompleteLink, Reading, Answers
<1>2. \/ To(i, "done")
      \/ CreateAccount(i) /\ msgs[i].row.first # 0 /\ msgs' = [msgs EXCEPT ![i] = Replaying(i)]
  <2>1. CASE CreateAccount(i)
    BY <2>1 DEF CreateAccount, Replaying
  <2>2. CASE ~CreateAccount(i)
    BY <2>2 DEF Finishing, Answer, Welcome, Reprompt, CancelSignUp, BusinessName,
           AlreadyRegistered, CompleteLogin, CompleteLink
  <2> QED BY <2>1, <2>2
<1>3. To(i, "done") => MsgMove(i, Unread(msgs[i].from, msgs[i].proc, "done"))
  BY ToMoves DEF Places, TypeOK
<1>4. CreateAccount(i) /\ msgs' = [msgs EXCEPT ![i] = Replaying(i)] => MsgMove(i, Replaying(i))
  BY ReplayingIs DEF CreateAccount, MsgMove
<1> QED BY <1>1, <1>2, <1>3, <1>4

\* A message arrives.
LEMMA ReceiveAppends ==
  ASSUME TypeOK, NEW n \in Numbers, NEW p \in Procs, Receive(n, p)
  PROVE  LET k == Len(msgs) + 1
         IN  /\ msgs' \in Seq(Message) /\ Len(msgs') = k /\ k <= MaxMessages /\ k \in Nat
             /\ DOMAIN msgs' = DOMAIN msgs \cup {k} /\ k \notin DOMAIN msgs
             /\ msgs'[k] = Unread(n, p, "queued")
             /\ \A i \in DOMAIN msgs : msgs'[i] = msgs[i]
<1>1. Unread(n, p, "queued") \in Message
  BY UnreadIs DEF Places
<1> PICK u \in Message : u = Unread(n, p, "queued")
  BY <1>1
<1>2. msgs' = Append(msgs, u) /\ Len(msgs) < MaxMessages /\ msgs \in Seq(Message)
  BY DEF Receive, TypeOK
<1> QED BY <1>2, BoundsAreNatural

\* A process dies with the messages it had taken.
LEMMA CrashLoses ==
  ASSUME TypeOK, NEW p \in Procs, Crash(p)
  PROVE  /\ msgs' \in Seq(Message) /\ Len(msgs') = Len(msgs) /\ DOMAIN msgs' = DOMAIN msgs
         /\ \A i \in DOMAIN msgs :
              \/ msgs'[i] = msgs[i]
              \/ ~Over(i) /\ msgs'[i] = Unread(msgs[i].from, msgs[i].proc, "lost")
         /\ UNCHANGED <<accounts, signups, challenges, sessions, polling, reminded, recorded,
                        collected, mixed, raced>>
<1>1. \A i \in DOMAIN msgs : msgs[i] \in Message /\ Unread(msgs[i].from, msgs[i].proc, "lost") \in Message
  <2> SUFFICES ASSUME NEW i \in DOMAIN msgs PROVE msgs[i] \in Message /\ Unread(msgs[i].from, msgs[i].proc, "lost") \in Message
    OBVIOUS
  <2>1. msgs[i] \in Message
    BY DEF TypeOK
  <2>2. msgs[i].from \in Numbers /\ msgs[i].proc \in Procs
    BY <2>1 DEF Message
  <2> QED BY <2>1, <2>2, UnreadIs DEF Places
<1>2. /\ DOMAIN msgs' = DOMAIN msgs
      /\ \A i \in DOMAIN msgs : msgs'[i] = IF msgs[i].proc = p /\ ~Over(i)
                                          THEN Unread(msgs[i].from, p, "lost") ELSE msgs[i]
  BY DEF Crash
<1>3. \A i \in DOMAIN msgs :
        \/ msgs'[i] = msgs[i]
        \/ ~Over(i) /\ msgs'[i] = Unread(msgs[i].from, msgs[i].proc, "lost")
  BY <1>2
<1>4. \A i \in DOMAIN msgs : msgs'[i] \in Message
  BY <1>1, <1>3
<1>5. DOMAIN msgs = 1 .. Len(msgs) /\ Len(msgs) \in Nat
  BY DEF TypeOK
<1>6. msgs' = [i \in 1 .. Len(msgs) |-> msgs'[i]]
  BY <1>5 DEF Crash
<1>7. msgs' \in Seq(Message) /\ Len(msgs') = Len(msgs)
  <2>1. msgs' \in [1 .. Len(msgs) -> Message]
    BY <1>4, <1>5, <1>6
  <2> QED BY <1>5, <2>1, SeqDef, LenProperties
<1> QED BY <1>2, <1>3, <1>7 DEF Crash

\* The rest of a step: no message moves.
Elsewhere ==
  \/ \E n \in Numbers : StartLogin(n) \/ Abandon(n) \/ Remind(n)
  \/ \E b \in Browsers, n \in Numbers : StartLink(b, n)
  \/ \E b \in Browsers, c \in DOMAIN challenges : Poll(b, c)
  \/ \E b \in Browsers : Collect(b) \/ EndSession(b)
  \/ \E c \in DOMAIN challenges : Expire(c)

\* What it leaves alone.
LEMMA ElsewhereKeeps ==
  ASSUME Elsewhere
  PROVE  UNCHANGED <<msgs, accounts, recorded, mixed>>
  BY DEF Elsewhere, StartLogin, Abandon, Remind, StartLink, Poll, Collect, EndSession, Expire

\* The kinds of steps there are.
LEMMA StepKinds ==
  ASSUME [Next]_vars
  PROVE  \/ UNCHANGED vars
         \/ \E n \in Numbers, p \in Procs : Receive(n, p)
         \/ \E i \in DOMAIN msgs : \E kind \in Kinds, c \in {0} \cup DOMAIN challenges : Begin(i, kind, c)
         \/ \E i \in DOMAIN msgs : Finishing(i)
         \/ Elsewhere
         \/ \E p \in Procs : Crash(p)
  BY DEF Next, Task, Finishing, Elsewhere

-----------------------------------------------------------------------------
(* Types. *)

\* A task that has read a code has read one that exists.
CodesOK == \A i \in DOMAIN msgs : msgs[i].at = "code" => msgs[i].code \in DOMAIN challenges

\* A page that polls an approved code polls one that exists.
PollsOK == \A b \in Browsers : polling[b] # 0 => polling[b] \in DOMAIN challenges

\* The rows of a sign-up.
LEMMA SignUpRows ==
  ASSUME NEW row \in SignUp, NEW i \in Ids, NEW j \in {0, i}
  PROVE  /\ [step |-> "business_name", born |-> i, biz |-> 0, old |-> FALSE, first |-> j] \in SignUp
         /\ NoSignUp \in SignUp
         /\ [row EXCEPT !.old = TRUE] \in SignUp
         /\ row.born \in Ids /\ row.biz \in Ids /\ row.first \in Ids
<1>1. 0 \in Ids
  BY BoundsAreNatural DEF Ids
<1> QED BY <1>1 DEF SignUp, NoSignUp

\* The row with the name of the business.
Named(row, i) == [row EXCEPT !.step = "name", !.biz = i, !.old = FALSE]

\* What BusinessName writes.
LEMMA NamedIs ==
  ASSUME NEW row \in SignUp, NEW i \in Ids
  PROVE  /\ Named(row, i) \in SignUp /\ Named(row, i).step = "name" /\ Named(row, i).biz = i
         /\ Named(row, i).born = row.born /\ Named(row, i).first = row.first
  BY DEF SignUp, Named

\* A step on signups of one number.
LEMMA SignUpsMove ==
  ASSUME TypeOK, NEW i \in DOMAIN msgs, Finishing(i)
  PROVE  LET n == msgs[i].from
         IN  /\ n \in Numbers
             /\ \/ UNCHANGED signups
                \/ CancelSignUp(i) /\ signups' = [signups EXCEPT ![n] = NoSignUp]
                \/ CreateAccount(i) /\ signups' = [signups EXCEPT ![n] = NoSignUp]
                \/ /\ BusinessName(i) /\ SameRow(i)
                   /\ signups' = [signups EXCEPT ![n] = Named(signups[n], i)]
                \/ /\ Welcome(i)
                   /\ \E j \in {0, i} :
                        signups' = [signups EXCEPT ![n] = [step |-> "business_name", born |-> i, biz |-> 0,
                                                           old |-> FALSE, first |-> j]]
<1> PICK m \in Message : m = msgs[i]
  BY DEF TypeOK
<1> PICK n \in Numbers : n = m.from
  BY DEF Message
<1>1. i \in Ids /\ signups \in [Numbers -> SignUp]
  BY MessagesAre DEF TypeOK
<1>2. CASE BusinessName(i)
  <2>1. \/ UNCHANGED signups
        \/ SameRow(i) /\ signups' = [signups EXCEPT ![msgs[i].from].step = "name",
                                       ![msgs[i].from].biz = i, ![msgs[i].from].old = FALSE]
    BY <1>2 DEF BusinessName
  <2>2. ASSUME signups' = [signups EXCEPT ![n].step = "name", ![n].biz = i, ![n].old = FALSE]
        PROVE  signups' = [signups EXCEPT ![n] = Named(signups[n], i)]
    <3> PICK s1 : s1 = [signups EXCEPT ![n].step = "name"]
      OBVIOUS
    <3> PICK s2 : s2 = [s1 EXCEPT ![n].biz = i]
      OBVIOUS
    <3>1. signups' = [s2 EXCEPT ![n].old = FALSE]
      BY <2>2
    <3> PICK row \in SignUp : row = signups[n]
      BY <1>1
    <3>2. signups' = [signups EXCEPT ![n] = [row EXCEPT !.step = "name", !.biz = i, !.old = FALSE]]
      BY <1>1, <3>1
    <3> QED BY <1>1, <3>2 DEF Named
  <2> QED BY <1>2, <2>1, <2>2
<1>3. CASE Welcome(i)
  BY <1>3 DEF Welcome
<1>4. CASE CancelSignUp(i) \/ CreateAccount(i)
  BY <1>4 DEF CancelSignUp, CreateAccount
<1>5. CASE Answer(i) \/ Reprompt(i) \/ AlreadyRegistered(i) \/ CompleteLogin(i) \/ CompleteLink(i)
  BY <1>5 DEF Answer, Reprompt, AlreadyRegistered, CompleteLogin, CompleteLink
<1> QED BY <1>2, <1>3, <1>4, <1>5 DEF Finishing

\* What opens an account.
NewAccount(i) == [number |-> msgs[i].from, born |-> msgs[i].row.born, biz |-> msgs[i].row.biz,
                  name |-> i, first |-> msgs[i].row.first]

\* A step on accounts: one is opened, or gets another number.
LEMMA AccountsMove ==
  ASSUME TypeOK, NEW i \in DOMAIN msgs, Finishing(i)
  PROVE  LET n == msgs[i].from
         IN  \/ UNCHANGED accounts
             \/ /\ CreateAccount(i) /\ accounts' = Append(accounts, NewAccount(i))
                /\ NewAccount(i) \in Account /\ Len(accounts) < MaxAccounts /\ ~Taken(n, NoOwner)
             \/ /\ CompleteLink(i)
                /\ \E u : ~Taken(n, u) /\ n \in Numbers /\ accounts' = [accounts EXCEPT ![u].number = n]
<1> PICK m \in Message : m = msgs[i]
  BY DEF TypeOK
<1>1. m.from \in Numbers /\ i \in Ids /\ m.row \in SignUp
  BY MessagesAre DEF TypeOK, Message
<1>2. NewAccount(i) \in Account
  BY <1>1 DEF SignUp, NewAccount, Account
<1>3. CASE CreateAccount(i)
  BY <1>2, <1>3 DEF CreateAccount, NewAccount
<1>4. CASE CompleteLink(i)
  BY <1>1, <1>4 DEF CompleteLink
<1>5. CASE ~CreateAccount(i) /\ ~CompleteLink(i)
  BY <1>5 DEF Finishing, Answer, Welcome, Reprompt, CancelSignUp, BusinessName, AlreadyRegistered, CompleteLogin
<1> QED BY <1>3, <1>4, <1>5

\* What such a step makes of the table.
LEMMA RenumberedIs ==
  ASSUME accounts \in Seq(Account), NEW u, NEW n \in Numbers, accounts' = [accounts EXCEPT ![u].number = n]
  PROVE  /\ accounts' \in Seq(Account) /\ Len(accounts') = Len(accounts)
         /\ DOMAIN accounts' = DOMAIN accounts
         /\ u \in DOMAIN accounts => accounts'[u].number = n
         /\ \A a \in DOMAIN accounts :
              /\ a # u => accounts'[a] = accounts[a]
              /\ accounts'[a].born = accounts[a].born /\ accounts'[a].biz = accounts[a].biz
              /\ accounts'[a].name = accounts[a].name /\ accounts'[a].first = accounts[a].first
<1>1. CASE u \in DOMAIN accounts
  <2> PICK old \in Account : old = accounts[u]
    BY <1>1
  <2> PICK new : new = [old EXCEPT !.number = n]
    OBVIOUS
  <2>1. /\ new \in Account /\ new.number = n /\ new.born = old.born /\ new.biz = old.biz
        /\ new.name = old.name /\ new.first = old.first
    BY DEF Account
  <2>2. accounts' = [accounts EXCEPT ![u] = new] /\ u \in 1 .. Len(accounts)
    BY <1>1
  <2> QED BY <2>1, <2>2, ExceptSeq
<1>2. CASE u \notin DOMAIN accounts
  <2>1. accounts' = accounts
    BY <1>2
  <2> QED BY <1>2, <2>1
<1> QED BY <1>1, <1>2

\* A code that is settled keeps its number and purpose.
LEMMA SettledIs ==
  ASSUME challenges \in Seq(Challenge), NEW i, NEW c \in DOMAIN challenges, c = msgs[i].code,
         NEW s \in {"approved", "rejected"}, NEW u \in Owners, Settled(i, s, u)
  PROVE  /\ challenges' \in Seq(Challenge) /\ Len(challenges') = Len(challenges)
         /\ DOMAIN challenges' = DOMAIN challenges
         /\ challenges'[c].status = s /\ challenges'[c].user = u
         /\ challenges'[c].purpose = challenges[c].purpose
         /\ \A d \in DOMAIN challenges : d # c => challenges'[d] = challenges[d]
         /\ raced' = IF challenges[c].status = "pending" THEN raced ELSE raced \cup {c}
<1> PICK cs : cs = [challenges EXCEPT ![c].status = s]
  OBVIOUS
<1>1. challenges' = [cs EXCEPT ![c].user = u]
  BY DEF Settled
<1> PICK old \in Challenge : old = challenges[c]
  OBVIOUS
<1> PICK mid : mid = [old EXCEPT !.status = s]
  OBVIOUS
<1>2. mid \in Challenge /\ mid.status = s /\ mid.purpose = old.purpose
  BY DEF Challenge
<1> PICK new : new = [mid EXCEPT !.user = u]
  OBVIOUS
<1>3. new \in Challenge /\ new.status = s /\ new.user = u /\ new.purpose = old.purpose
  BY <1>2 DEF Challenge
<1>4. challenges' = [challenges EXCEPT ![c] = new]
  BY <1>1
<1>5. c \in 1 .. Len(challenges)
  OBVIOUS
<1>6. /\ challenges' \in Seq(Challenge) /\ Len(challenges') = Len(challenges)
      /\ \A d \in 1 .. Len(challenges) : challenges'[d] = IF d = c THEN new ELSE challenges[d]
  BY <1>3, <1>4, <1>5, ExceptSeq
<1>7. DOMAIN challenges = 1 .. Len(challenges) /\ DOMAIN challenges' = 1 .. Len(challenges')
  BY <1>6
<1>8. raced' = IF challenges[c].status = "pending" THEN raced ELSE raced \cup {c}
  BY DEF Settled
<1> QED BY <1>3, <1>5, <1>6, <1>7, <1>8

\* A step of a task on the codes: one that fitted is settled.
LEMMA CodesMove ==
  ASSUME TypeOK, CodesOK, NEW i \in DOMAIN msgs, Finishing(i)
  PROVE  \/ UNCHANGED <<challenges, raced>>
         \/ \E s \in {"approved", "rejected"}, u \in Owners :
              /\ msgs[i].code \in DOMAIN challenges /\ Settled(i, s, u)
              /\ challenges[msgs[i].code].purpose = "link" => u # NoOwner
<1>1. CASE ~CompleteLogin(i) /\ ~CompleteLink(i)
  BY <1>1 DEF Finishing, Answer, Welcome, Reprompt, CancelSignUp, BusinessName, CreateAccount,
              AlreadyRegistered
<1>2. ASSUME msgs[i].at = "code"
      PROVE  /\ msgs[i].code \in DOMAIN challenges /\ challenges[msgs[i].code] \in Challenge
             /\ msgs[i].owner \in Owners /\ challenges[msgs[i].code].user \in Owners
             /\ challenges[msgs[i].code].purpose = "link" => challenges[msgs[i].code].user # NoOwner
  <2>1. msgs[i].code \in DOMAIN challenges
    BY <1>2 DEF CodesOK
  <2>2. msgs[i] \in Message /\ challenges[msgs[i].code] \in Challenge
    BY <2>1 DEF TypeOK
  <2>3. msgs[i].owner \in Owners /\ challenges[msgs[i].code].user \in Owners
    BY <2>2 DEF Message, Challenge
  <2> QED BY <2>1, <2>2, <2>3 DEF TypeOK
<1>3. NoOwner \in Owners
  BY BoundsAreNatural DEF Owners, NoOwner
<1>4. CASE CompleteLogin(i)
  BY <1>2, <1>3, <1>4 DEF CompleteLogin
<1>5. CASE CompleteLink(i)
  BY <1>2, <1>3, <1>5 DEF CompleteLink
<1> QED BY <1>1, <1>4, <1>5

\* The parts of the type invariant a step has to keep, and the codes.
MessagesTyped ==
  /\ msgs \in Seq(Message) /\ Len(msgs) <= MaxMessages
  /\ \A i \in DOMAIN msgs : msgs[i].at = "signup" => msgs[i].owner = NoOwner
AccountsTyped == accounts \in Seq(Account) /\ Len(accounts) <= MaxAccounts
CodesTyped ==
  /\ challenges \in Seq(Challenge) /\ Len(challenges) <= MaxChallenges
  /\ \A c \in DOMAIN challenges : challenges[c].purpose = "link" => challenges[c].user # NoOwner
  /\ raced \subseteq 1 .. MaxChallenges /\ collected \in [1 .. MaxChallenges -> Nat]
BrowsersTyped ==
  /\ sessions \in [Browsers -> Owners]
  /\ polling \in [Browsers -> 0 .. MaxChallenges]
RestTyped ==
  /\ signups \in [Numbers -> SignUp]
  /\ reminded \subseteq Numbers /\ mixed \subseteq Numbers
  /\ recorded \in [1 .. MaxMessages -> Nat]
  /\ mishaps \in 0 .. MaxMishaps

\* They make it up.
LEMMA TypesAre == TypeOK <=> MessagesTyped /\ AccountsTyped /\ CodesTyped /\ BrowsersTyped /\ RestTyped
<1>1. msgs \in Seq(Message) => DOMAIN msgs = 1 .. Len(msgs)
  OBVIOUS
<1> QED BY <1>1 DEF TypeOK, MessagesTyped, AccountsTyped, CodesTyped, BrowsersTyped, RestTyped

\* At the start there are no messages, one account and no codes.
LEMMA InitTyped == Init => TypeOK /\ CodesOK
<1> SUFFICES ASSUME Init PROVE TypeOK /\ CodesOK
  OBVIOUS
<1>1. MessagesTyped /\ CodesOK
  BY BoundsAreNatural DEF Init, MessagesTyped, CodesOK
<1>2. AccountsTyped
  <2>1. WebAccount \in Account
    BY BoundsAreNatural DEF WebAccount, Account, Ids
  <2> QED BY <2>1, BoundsAreNatural DEF Init, AccountsTyped
<1>3. CodesTyped
  BY BoundsAreNatural DEF Init, CodesTyped
<1>4. BrowsersTyped
  <2>1. PICK B \in SUBSET Browsers : sessions = [b \in Browsers |-> IF b \in B THEN 1 ELSE NoOwner]
    BY DEF Init
  <2> QED BY <2>1, BoundsAreNatural DEF Init, BrowsersTyped, Owners, NoOwner
<1>5. RestTyped
  <2>1. NoSignUp \in SignUp
    BY BoundsAreNatural DEF NoSignUp, SignUp, Ids
  <2> QED BY <2>1, BoundsAreNatural DEF Init, RestTyped
<1> QED BY <1>1, <1>2, <1>3, <1>4, <1>5, TypesAre

\* The messages after a step.
LEMMA MessagesStayTyped ==
  ASSUME TypeOK, CodesOK, [Next]_vars, DOMAIN challenges \subseteq DOMAIN challenges'
  PROVE  MessagesTyped' /\ CodesOK'
<1>1. MessagesTyped
  BY TypesAre
<1>2. CASE UNCHANGED msgs
  BY <1>1, <1>2 DEF MessagesTyped, CodesOK
<1>3. ASSUME NEW i, NEW m, MsgMove(i, m), m.at = "signup" => m.owner = NoOwner,
             m.at = "code" => m.code \in DOMAIN challenges
      PROVE  MessagesTyped' /\ CodesOK'
  <2>1. /\ msgs' \in Seq(Message) /\ Len(msgs') = Len(msgs) /\ DOMAIN msgs' = DOMAIN msgs
        /\ msgs'[i] = m
        /\ \A j \in DOMAIN msgs : j # i => msgs'[j] = msgs[j]
    BY <1>1, <1>3, MoveChanges DEF MessagesTyped
  <2> QED BY <1>1, <1>3, <2>1 DEF MessagesTyped, CodesOK
<1>4. ASSUME NEW i \in DOMAIN msgs, NEW at \in Places
      PROVE  LET m == Unread(msgs[i].from, msgs[i].proc, at)
             IN  m.at = at /\ m.owner = NoOwner /\ m.from = msgs[i].from /\ m.proc = msgs[i].proc
  BY DEF Unread
<1>5. ASSUME NEW i \in DOMAIN msgs, NEW kind \in Kinds, NEW c \in {0} \cup DOMAIN challenges, Begin(i, kind, c)
      PROVE  MessagesTyped' /\ CodesOK'
  <2>1. CASE MsgMove(i, Unread(msgs[i].from, msgs[i].proc, "done"))
    BY <1>3, <1>4, <2>1 DEF Places
  <2>2. ASSUME NEW at \in {"code", "signup", "answer"}, NEW replay \in {0, i},
               MsgMove(i, Begun(i, kind, c, at, replay)), at = "code" => c # 0,
               at = "signup" => Owner(msgs[i].from) = NoOwner
        PROVE  MessagesTyped' /\ CodesOK'
    <3>1. /\ Begun(i, kind, c, at, replay).at = at /\ Begun(i, kind, c, at, replay).code = c
          /\ Begun(i, kind, c, at, replay).owner = Owner(msgs[i].from)
      BY DEF Begun
    <3>2. at = "code" => c \in DOMAIN challenges
      BY <2>2
    <3> HIDE DEF Begun
    <3> QED BY <1>3, <2>2, <3>1, <3>2
  <2>3. \/ MsgMove(i, Unread(msgs[i].from, msgs[i].proc, "done"))
        \/ \E at \in {"code", "signup", "answer"}, replay \in {0, i} :
             /\ MsgMove(i, Begun(i, kind, c, at, replay))
             /\ at = "code" <=> kind = "code"
             /\ at = "code" => Fits(c, msgs[i].from) /\ c # 0
             /\ at = "signup" => Owner(msgs[i].from) = NoOwner
             /\ at = "answer" <=> replay = i
    BY <1>5, BeginMoves
  <2> QED BY <2>1, <2>2, <2>3
<1>6. ASSUME NEW i \in DOMAIN msgs, Finishing(i) PROVE MessagesTyped' /\ CodesOK'
  <2>1. CASE MsgMove(i, Unread(msgs[i].from, msgs[i].proc, "done"))
    BY <1>3, <1>4, <2>1 DEF Places
  <2>2. CASE CreateAccount(i) /\ MsgMove(i, Replaying(i))
    <3>1. Replaying(i).at = "answer"
      BY <2>2, ReplayingIs DEF CreateAccount
    <3> QED BY <1>3, <2>2, <3>1
  <2> QED BY <1>6, <2>1, <2>2, FinishingMoves
<1>7. ASSUME NEW n \in Numbers, NEW q \in Procs, Receive(n, q) PROVE MessagesTyped' /\ CodesOK'
  <2>1. Unread(n, q, "queued").at = "queued"
    BY DEF Unread
  <2> QED BY <1>1, <1>7, <2>1, ReceiveAppends DEF MessagesTyped, CodesOK
<1>8. ASSUME NEW q \in Procs, Crash(q) PROVE MessagesTyped' /\ CodesOK'
  <2>1. \A i \in DOMAIN msgs : Unread(msgs[i].from, msgs[i].proc, "lost").at = "lost"
    BY DEF Unread
  <2> QED BY <1>1, <1>8, <2>1, CrashLoses DEF MessagesTyped, CodesOK
<1> QED BY <1>2, <1>5, <1>6, <1>7, <1>8, StepKinds, ElsewhereKeeps DEF vars

\* The accounts after a step: none goes, and one that gets a number another has not.
LEMMA AccountsStayTyped ==
  ASSUME TypeOK, [Next]_vars
  PROVE  AccountsTyped' /\ DOMAIN accounts \subseteq DOMAIN accounts'
<1>1. AccountsTyped
  BY TypesAre
<1>2. CASE UNCHANGED accounts
  BY <1>1, <1>2 DEF AccountsTyped
<1>3. ASSUME NEW i \in DOMAIN msgs, Finishing(i) PROVE AccountsTyped' /\ DOMAIN accounts \subseteq DOMAIN accounts'
  <2>1. CASE accounts' = Append(accounts, NewAccount(i)) /\ NewAccount(i) \in Account /\ Len(accounts) < MaxAccounts
    <3> PICK r \in Account : r = NewAccount(i)
      BY <2>1
    <3>1. accounts' = Append(accounts, r)
      BY <2>1
    <3> QED BY <1>1, <2>1, <3>1, BoundsAreNatural DEF AccountsTyped
  <2>2. CASE \E u : msgs[i].from \in Numbers /\ accounts' = [accounts EXCEPT ![u].number = msgs[i].from]
    BY <1>1, <2>2, RenumberedIs DEF AccountsTyped
  <2> QED BY <1>2, <1>3, <2>1, <2>2, AccountsMove
<1>4. ASSUME NEW i \in DOMAIN msgs, NEW kind \in Kinds, NEW c \in {0} \cup DOMAIN challenges, Begin(i, kind, c)
      PROVE  UNCHANGED accounts
  BY <1>4 DEF Begin
<1>5. ASSUME NEW n \in Numbers, NEW q \in Procs, Receive(n, q) PROVE UNCHANGED accounts
  BY <1>5 DEF Receive
<1>6. ASSUME NEW q \in Procs, Crash(q) PROVE UNCHANGED accounts
  BY <1>6 DEF Crash
<1> QED BY <1>2, <1>3, <1>4, <1>5, <1>6, StepKinds, ElsewhereKeeps DEF vars

\* A code changes its status to s, or nothing but its being open.
CodeMove(c, s) ==
  /\ challenges' \in Seq(Challenge) /\ Len(challenges') = Len(challenges)
  /\ DOMAIN challenges' = DOMAIN challenges
  /\ \A d \in DOMAIN challenges :
       /\ challenges'[d].purpose = challenges[d].purpose /\ challenges'[d].user = challenges[d].user
       /\ challenges'[d].status = IF d = c THEN s ELSE challenges[d].status

\* A code that expires, or is collected.
LEMMA CodeChanges ==
  ASSUME TypeOK, NEW c \in DOMAIN challenges
  PROVE  /\ challenges' = [challenges EXCEPT ![c].open = FALSE] => CodeMove(c, challenges[c].status)
         /\ challenges' = [challenges EXCEPT ![c].status = "consumed"] => CodeMove(c, "consumed")
<1> PICK old \in Challenge : old = challenges[c]
  BY DEF TypeOK
<1>1. c \in 1 .. Len(challenges) /\ challenges \in Seq(Challenge)
  BY DEF TypeOK
<1>2. ASSUME NEW s, NEW new \in Challenge, new.purpose = old.purpose, new.user = old.user, new.status = s,
             challenges' = [challenges EXCEPT ![c] = new]
      PROVE  CodeMove(c, s)
  <2>1. /\ challenges' \in Seq(Challenge) /\ Len(challenges') = Len(challenges)
        /\ \A d \in 1 .. Len(challenges) : challenges'[d] = IF d = c THEN new ELSE challenges[d]
    BY <1>1, <1>2, ExceptSeq
  <2>2. DOMAIN challenges = 1 .. Len(challenges) /\ DOMAIN challenges' = 1 .. Len(challenges')
    BY <1>1, <2>1
  <2> QED BY <1>2, <2>1, <2>2 DEF CodeMove
<1>3. ASSUME challenges' = [challenges EXCEPT ![c].open = FALSE] PROVE CodeMove(c, challenges[c].status)
  <2> PICK new : new = [old EXCEPT !.open = FALSE]
    OBVIOUS
  <2>1. new \in Challenge /\ new.purpose = old.purpose /\ new.user = old.user /\ new.status = old.status
    BY DEF Challenge
  <2>2. challenges' = [challenges EXCEPT ![c] = new]
    BY <1>3
  <2> QED BY <1>2, <2>1, <2>2
<1>4. ASSUME challenges' = [challenges EXCEPT ![c].status = "consumed"] PROVE CodeMove(c, "consumed")
  <2> PICK new : new = [old EXCEPT !.status = "consumed"]
    OBVIOUS
  <2>1. new \in Challenge /\ new.purpose = old.purpose /\ new.user = old.user /\ new.status = "consumed"
    BY DEF Challenge
  <2>2. challenges' = [challenges EXCEPT ![c] = new]
    BY <1>4
  <2> QED BY <1>2, <2>1, <2>2
<1> QED BY <1>3, <1>4

\* Code k is there, for purpose and user u.
CodeStarted(k, purpose, u) ==
  /\ challenges' \in Seq(Challenge) /\ Len(challenges') = k /\ k \in 1 .. MaxChallenges
  /\ DOMAIN challenges' = DOMAIN challenges \cup {k} /\ k \notin DOMAIN challenges
  /\ challenges'[k].purpose = purpose /\ challenges'[k].user = u
  /\ challenges'[k].status = "pending"
  /\ \A c \in DOMAIN challenges : challenges'[c] = challenges[c]

\* A code that is started.
LEMMA CodeStarts ==
  ASSUME TypeOK, NEW n \in Numbers, NEW u \in Owners, NEW purpose \in {"login", "link"},
         Len(challenges) < MaxChallenges,
         challenges' = Append(challenges, [purpose |-> purpose, number |-> n, user |-> u,
                                           open |-> TRUE, status |-> "pending"])
  PROVE  CodeStarted(Len(challenges) + 1, purpose, u)
<1> PICK new : new = [purpose |-> purpose, number |-> n, user |-> u, open |-> TRUE, status |-> "pending"]
  OBVIOUS
<1>1. new \in Challenge /\ new.purpose = purpose /\ new.user = u /\ new.status = "pending"
  BY DEF Challenge
<1>2. challenges' = Append(challenges, new) /\ challenges \in Seq(Challenge)
  BY DEF TypeOK
<1>3. Len(challenges) \in Nat /\ DOMAIN challenges = 1 .. Len(challenges)
  BY <1>2
<1>4. /\ challenges' \in Seq(Challenge) /\ Len(challenges') = Len(challenges) + 1
      /\ \A c \in 1 .. Len(challenges) : challenges'[c] = challenges[c]
      /\ challenges'[Len(challenges) + 1] = new
  BY <1>1, <1>2
<1>5. DOMAIN challenges' = 1 .. Len(challenges) + 1
  BY <1>4
<1> QED BY <1>1, <1>3, <1>4, <1>5, BoundsAreNatural DEF CodeStarted

\* The codes after a step: none goes.
LEMMA CodesStayTyped ==
  ASSUME TypeOK, CodesOK, [Next]_vars
  PROVE  CodesTyped' /\ DOMAIN challenges \subseteq DOMAIN challenges'
<1>1. CodesTyped /\ BrowsersTyped
  BY TypesAre
<1>2. CASE UNCHANGED <<challenges, raced, collected>>
  BY <1>1, <1>2 DEF CodesTyped
<1>3. ASSUME NEW i \in DOMAIN msgs, Finishing(i) PROVE CodesTyped' /\ DOMAIN challenges \subseteq DOMAIN challenges'
  <2>1. UNCHANGED collected
    BY <1>3 DEF Finishing, Answer, Welcome, Reprompt, CancelSignUp, BusinessName, CreateAccount,
                AlreadyRegistered, CompleteLogin, CompleteLink
  <2>2. ASSUME NEW s \in {"approved", "rejected"}, NEW u \in Owners,
               msgs[i].code \in DOMAIN challenges, Settled(i, s, u),
               challenges[msgs[i].code].purpose = "link" => u # NoOwner
        PROVE  CodesTyped' /\ DOMAIN challenges \subseteq DOMAIN challenges'
    <3> PICK c \in DOMAIN challenges : c = msgs[i].code
      BY <2>2
    <3>1. c \in 1 .. MaxChallenges
      BY <1>1, BoundsAreNatural DEF CodesTyped
    <3>2. /\ challenges' \in Seq(Challenge) /\ Len(challenges') = Len(challenges)
          /\ DOMAIN challenges' = DOMAIN challenges
          /\ challenges'[c].user = u /\ challenges'[c].purpose = challenges[c].purpose
          /\ \A d \in DOMAIN challenges : d # c => challenges'[d] = challenges[d]
          /\ raced' = IF challenges[c].status = "pending" THEN raced ELSE raced \cup {c}
      BY <1>1, <2>2, SettledIs DEF CodesTyped
    <3>3. \A d \in DOMAIN challenges' : challenges'[d].purpose = "link" => challenges'[d].user # NoOwner
      BY <1>1, <2>2, <3>2 DEF CodesTyped
    <3> QED BY <1>1, <2>1, <3>1, <3>2, <3>3 DEF CodesTyped
  <2> QED BY <1>2, <1>3, <2>1, <2>2, CodesMove
<1>4. ASSUME Elsewhere PROVE CodesTyped' /\ DOMAIN challenges \subseteq DOMAIN challenges'
  <2> DEFINE k == Len(challenges) + 1
  <2>0. ASSUME NEW purpose, NEW u, CodeStarted(k, purpose, u), purpose = "link" => u # NoOwner,
               UNCHANGED <<raced, collected>>
        PROVE  CodesTyped' /\ DOMAIN challenges \subseteq DOMAIN challenges'
    BY <1>1, <2>0, BoundsAreNatural DEF CodesTyped, CodeStarted
  <2>1. ASSUME NEW n \in Numbers, StartLogin(n) PROVE CodesTyped' /\ DOMAIN challenges \subseteq DOMAIN challenges'
    <3>1. NoOwner \in Owners /\ UNCHANGED <<raced, collected>>
      BY <2>1, BoundsAreNatural DEF StartLogin, Owners, NoOwner
    <3>2. /\ Len(challenges) < MaxChallenges
          /\ challenges' = Append(challenges, [purpose |-> "login", number |-> n, user |-> NoOwner,
                                               open |-> TRUE, status |-> "pending"])
      BY <2>1 DEF StartLogin
    <3>3. CodeStarted(k, "login", NoOwner)
      BY <3>1, <3>2, CodeStarts
    <3> HIDE DEF k
    <3> QED BY <2>0, <3>1, <3>3
  <2>2. ASSUME NEW b \in Browsers, NEW n \in Numbers, StartLink(b, n)
        PROVE  CodesTyped' /\ DOMAIN challenges \subseteq DOMAIN challenges'
    <3>1. sessions[b] \in Owners /\ sessions[b] # NoOwner /\ UNCHANGED <<raced, collected>>
      BY <1>1, <2>2 DEF StartLink, BrowsersTyped
    <3>2. /\ Len(challenges) < MaxChallenges
          /\ challenges' = Append(challenges, [purpose |-> "link", number |-> n, user |-> sessions[b],
                                               open |-> TRUE, status |-> "pending"])
      BY <2>2 DEF StartLink
    <3>3. CodeStarted(k, "link", sessions[b])
      BY <3>1, <3>2, CodeStarts
    <3> HIDE DEF k
    <3> QED BY <2>0, <3>1, <3>3
  <2>3. ASSUME NEW b \in Browsers, NEW c \in DOMAIN challenges, Poll(b, c)
        PROVE  CodesTyped' /\ DOMAIN challenges \subseteq DOMAIN challenges'
    BY <1>1, <2>3, BoundsAreNatural DEF Poll, CodesTyped
  <2>4. ASSUME NEW b \in Browsers, Collect(b)
        PROVE  CodesTyped' /\ DOMAIN challenges \subseteq DOMAIN challenges'
    <3> PICK c \in 0 .. MaxChallenges : c = polling[b]
      BY <1>1 DEF BrowsersTyped
    <3>1. /\ challenges' = [challenges EXCEPT ![c].status = "consumed"]
          /\ collected' = [collected EXCEPT ![c] = collected[c] + 1] /\ UNCHANGED raced
      BY <2>4 DEF Collect
    <3>2. collected' \in [1 .. MaxChallenges -> Nat]
      <4>1. c \in 1 .. MaxChallenges
        BY <2>4, BoundsAreNatural DEF Collect
      <4>2. collected[c] + 1 \in Nat /\ collected \in [1 .. MaxChallenges -> Nat]
        BY <1>1, <4>1 DEF CodesTyped
      <4> QED BY <3>1, <4>2
    <3>3. CASE c \in DOMAIN challenges
      <4>1. CodeMove(c, "consumed")
        BY <3>1, <3>3, CodeChanges
      <4> QED BY <1>1, <3>1, <3>2, <4>1 DEF CodesTyped, CodeMove
    <3>4. CASE c \notin DOMAIN challenges
      <4>1. challenges' = challenges
        BY <1>1, <3>1, <3>4 DEF CodesTyped
      <4> QED BY <1>1, <3>1, <3>2, <4>1 DEF CodesTyped
    <3> QED BY <3>3, <3>4
  <2>5. ASSUME NEW c \in DOMAIN challenges, Expire(c)
        PROVE  CodesTyped' /\ DOMAIN challenges \subseteq DOMAIN challenges'
    <3>1. challenges' = [challenges EXCEPT ![c].open = FALSE] /\ UNCHANGED <<raced, collected>>
      BY <2>5 DEF Expire
    <3> QED BY <1>1, <3>1, CodeChanges DEF CodesTyped, CodeMove
  <2>6. CASE \/ \E n \in Numbers : Abandon(n) \/ Remind(n)
             \/ \E b \in Browsers : EndSession(b)
    BY <1>2, <2>6 DEF Abandon, Remind, EndSession
  <2> QED BY <1>4, <2>1, <2>2, <2>3, <2>4, <2>5, <2>6 DEF Elsewhere
<1>5. ASSUME NEW i \in DOMAIN msgs, NEW kind \in Kinds, NEW c \in {0} \cup DOMAIN challenges, Begin(i, kind, c)
      PROVE  UNCHANGED <<challenges, raced, collected>>
  BY <1>5 DEF Begin
<1>6. ASSUME NEW n \in Numbers, NEW q \in Procs, Receive(n, q) PROVE UNCHANGED <<challenges, raced, collected>>
  BY <1>6 DEF Receive
<1>7. ASSUME NEW q \in Procs, Crash(q) PROVE UNCHANGED <<challenges, raced, collected>>
  BY <1>7 DEF Crash
<1> QED BY <1>2, <1>3, <1>4, <1>5, <1>6, <1>7, StepKinds DEF vars

\* Sessions and pages after a step.
LEMMA BrowsersStayTyped ==
  ASSUME TypeOK, CodesOK, PollsOK, [Next]_vars
  PROVE  BrowsersTyped'
<1>1. BrowsersTyped /\ CodesTyped
  BY TypesAre
<1>2. NoOwner \in Owners /\ 0 \in 0 .. MaxChallenges /\ DOMAIN challenges \subseteq 0 .. MaxChallenges
  BY <1>1, BoundsAreNatural DEF Owners, NoOwner, CodesTyped
<1>3. CASE UNCHANGED <<sessions, polling>>
  BY <1>1, <1>3 DEF BrowsersTyped
<1>4. ASSUME NEW i \in DOMAIN msgs, Finishing(i) PROVE UNCHANGED <<sessions, polling>>
  BY <1>4 DEF Finishing, Answer, Welcome, Reprompt, CancelSignUp, BusinessName, CreateAccount,
              AlreadyRegistered, CompleteLogin, CompleteLink
<1>5. ASSUME NEW i \in DOMAIN msgs, NEW kind \in Kinds, NEW c \in {0} \cup DOMAIN challenges, Begin(i, kind, c)
      PROVE  BrowsersTyped'
  <2>1. /\ UNCHANGED polling
        /\ \/ UNCHANGED sessions
           \/ \E o : sessions' = [b \in Browsers |-> IF sessions[b] = o THEN NoOwner ELSE sessions[b]]
    BY <1>5 DEF Begin
  <2> QED BY <1>1, <1>2, <2>1 DEF BrowsersTyped
<1>6. ASSUME Elsewhere PROVE BrowsersTyped'
  <2>1. CASE \E b \in Browsers, c \in DOMAIN challenges : Poll(b, c)
    BY <1>1, <1>2, <2>1 DEF BrowsersTyped, Poll
  <2>2. ASSUME NEW b \in Browsers, Collect(b) PROVE BrowsersTyped'
    <3> PICK c \in 0 .. MaxChallenges : c = polling[b]
      BY <1>1 DEF BrowsersTyped
    <3>1. polling' = [polling EXCEPT ![b] = 0] /\ c # 0
      BY <2>2 DEF Collect
    <3>2. c \in DOMAIN challenges
      BY <3>1 DEF PollsOK
    <3>3. challenges[c].user \in Owners
      <4>1. challenges[c] \in Challenge
        BY <1>1, <3>2 DEF CodesTyped
      <4> QED BY <4>1 DEF Challenge
    <3>4. sessions' \in {sessions, [sessions EXCEPT ![b] = challenges[c].user]}
      BY <2>2 DEF Collect
    <3> QED BY <1>1, <1>2, <3>1, <3>3, <3>4 DEF BrowsersTyped
  <2>3. CASE \E b \in Browsers : EndSession(b)
    BY <1>1, <1>2, <2>3 DEF BrowsersTyped, EndSession
  <2>4. CASE \/ \E n \in Numbers : StartLogin(n) \/ Abandon(n) \/ Remind(n)
             \/ \E b \in Browsers, n \in Numbers : StartLink(b, n)
             \/ \E c \in DOMAIN challenges : Expire(c)
    BY <1>3, <2>4 DEF StartLogin, Abandon, Remind, StartLink, Expire
  <2> QED BY <1>6, <2>1, <2>2, <2>3, <2>4 DEF Elsewhere
<1>7. ASSUME NEW n \in Numbers, NEW q \in Procs, Receive(n, q) PROVE UNCHANGED <<sessions, polling>>
  BY <1>7 DEF Receive
<1>8. ASSUME NEW q \in Procs, Crash(q) PROVE UNCHANGED <<sessions, polling>>
  BY <1>8 DEF Crash
<1> QED BY <1>3, <1>4, <1>5, <1>6, <1>7, <1>8, StepKinds DEF vars

\* The sign-ups, the numbers and the counts after a step.
LEMMA RestStaysTyped ==
  ASSUME TypeOK, [Next]_vars
  PROVE  RestTyped'
<1>1. RestTyped
  BY TypesAre
<1>2. CASE UNCHANGED <<signups, reminded, mixed, recorded, mishaps>>
  BY <1>1, <1>2 DEF RestTyped
<1>3. ASSUME NEW i \in DOMAIN msgs, Finishing(i) PROVE RestTyped'
  <2>1. i \in Ids /\ msgs[i].from \in Numbers
    <3>1. msgs[i] \in Message
      BY DEF TypeOK
    <3> QED BY <3>1, MessagesAre DEF Message, TypeOK
  <2> PICK n \in Numbers : n = msgs[i].from
    BY <2>1
  <2> PICK row \in SignUp : row = signups[n]
    BY <1>1 DEF RestTyped
  <2>2. signups' \in [Numbers -> SignUp]
    <3>1. NoSignUp \in SignUp /\ Named(row, i) \in SignUp
          /\ \A j \in {0, i} : [step |-> "business_name", born |-> i, biz |-> 0, old |-> FALSE, first |-> j] \in SignUp
      BY <2>1, NamedIs, SignUpRows
    <3>2. \/ UNCHANGED signups
          \/ \E new \in SignUp : signups' = [signups EXCEPT ![n] = new]
      BY <1>3, <3>1, SignUpsMove
    <3> QED BY <1>1, <3>2 DEF RestTyped
  <2>3. UNCHANGED <<reminded, mixed, mishaps>>
    BY <1>3 DEF Finishing, Answer, Welcome, Reprompt, CancelSignUp, BusinessName, CreateAccount,
                AlreadyRegistered, CompleteLogin, CompleteLink
  <2>4. UNCHANGED recorded \/ \E k : recorded' = [recorded EXCEPT ![k] = @ + 1]
    BY <1>3 DEF Finishing, Answer, Welcome, Reprompt, CancelSignUp, BusinessName, CreateAccount,
                AlreadyRegistered, CompleteLogin, CompleteLink
  <2>5. recorded' \in [1 .. MaxMessages -> Nat]
    BY <1>1, <2>4 DEF RestTyped
  <2> QED BY <1>1, <2>2, <2>3, <2>5 DEF RestTyped
<1>4. ASSUME NEW i \in DOMAIN msgs, NEW kind \in Kinds, NEW c \in {0} \cup DOMAIN challenges, Begin(i, kind, c)
      PROVE  RestTyped'
  <2>1. msgs[i].from \in Numbers
    <3>1. msgs[i] \in Message
      BY DEF TypeOK
    <3> QED BY <3>1 DEF Message
  <2>2. UNCHANGED <<signups, reminded, recorded, mishaps>> /\ mixed' \in {mixed, mixed \cup {msgs[i].from}}
    BY <1>4 DEF Begin
  <2> QED BY <1>1, <2>1, <2>2 DEF RestTyped
<1>5. Mishap => mishaps' \in 0 .. MaxMishaps
  BY <1>1, BoundsAreNatural DEF Mishap, RestTyped
<1>6. ASSUME Elsewhere PROVE RestTyped'
  <2>1. ASSUME NEW n \in Numbers, Abandon(n) PROVE RestTyped'
    <3> PICK row \in SignUp : row = signups[n]
      BY <1>1 DEF RestTyped
    <3>1. [row EXCEPT !.old = TRUE] \in SignUp
      BY DEF SignUp
    <3>2. /\ signups' = [signups EXCEPT ![n] = [row EXCEPT !.old = TRUE]]
          /\ UNCHANGED <<reminded, mixed, recorded>> /\ mishaps' \in 0 .. MaxMishaps
      BY <1>5, <2>1 DEF Abandon
    <3> QED BY <1>1, <3>1, <3>2 DEF RestTyped
  <2>2. CASE \E n \in Numbers : Remind(n)
    BY <1>1, <1>5, <2>2 DEF RestTyped, Remind
  <2>3. CASE \E c \in DOMAIN challenges : Expire(c)
    BY <1>1, <1>5, <2>3 DEF RestTyped, Expire
  <2>4. CASE \/ \E n \in Numbers : StartLogin(n)
             \/ \E b \in Browsers, n \in Numbers : StartLink(b, n)
             \/ \E b \in Browsers, c \in DOMAIN challenges : Poll(b, c)
             \/ \E b \in Browsers : Collect(b) \/ EndSession(b)
    BY <1>2, <2>4 DEF StartLogin, StartLink, Poll, Collect, EndSession
  <2> QED BY <1>6, <2>1, <2>2, <2>3, <2>4 DEF Elsewhere
<1>7. ASSUME NEW n \in Numbers, NEW q \in Procs, Receive(n, q) PROVE RestTyped'
  BY <1>2, <1>7 DEF Receive
<1>8. ASSUME NEW q \in Procs, Crash(q) PROVE RestTyped'
  BY <1>1, <1>5, <1>8 DEF Crash, RestTyped
<1> QED BY <1>2, <1>3, <1>4, <1>6, <1>7, <1>8, StepKinds DEF vars

\* The pages after a step.
LEMMA PollsStayOK ==
  ASSUME TypeOK, CodesOK, PollsOK, [Next]_vars
  PROVE  PollsOK'
<1>1. DOMAIN challenges \subseteq DOMAIN challenges'
  BY CodesStayTyped
<1>2. polling \in [Browsers -> 0 .. MaxChallenges]
  BY DEF TypeOK
<1>3. \/ UNCHANGED polling
      \/ \E b \in Browsers, c \in DOMAIN challenges : polling' = [polling EXCEPT ![b] = c]
      \/ \E b \in Browsers : polling' = [polling EXCEPT ![b] = 0]
  <2>1. CASE \E i \in DOMAIN msgs : Finishing(i)
    BY <2>1 DEF Finishing, Answer, Welcome, Reprompt, CancelSignUp, BusinessName, CreateAccount,
                AlreadyRegistered, CompleteLogin, CompleteLink
  <2>2. CASE Elsewhere
    BY <2>2 DEF Elsewhere, StartLogin, Abandon, Remind, StartLink, Poll, Collect, EndSession, Expire
  <2>3. CASE \E i \in DOMAIN msgs : \E kind \in Kinds, c \in {0} \cup DOMAIN challenges : Begin(i, kind, c)
    BY <2>3 DEF Begin
  <2>4. CASE \/ \E n \in Numbers, q \in Procs : Receive(n, q)
             \/ \E q \in Procs : Crash(q)
    BY <2>4 DEF Receive, Crash
  <2> QED BY <2>1, <2>2, <2>3, <2>4, StepKinds DEF vars
<1> QED BY <1>1, <1>2, <1>3 DEF PollsOK

TInv == TypeOK /\ CodesOK /\ PollsOK

\* Every step, and every stutter, keeps the types.
LEMMA StepKeepsTypes ==
  ASSUME TInv, [Next]_vars
  PROVE  TInv'
<1>1. TypeOK /\ CodesOK /\ PollsOK
  BY DEF TInv
<1>2. CodesTyped' /\ DOMAIN challenges \subseteq DOMAIN challenges'
  BY <1>1, CodesStayTyped
<1>3. MessagesTyped' /\ CodesOK'
  BY <1>1, <1>2, MessagesStayTyped
<1>4. AccountsTyped' /\ BrowsersTyped' /\ RestTyped'
  BY <1>1, AccountsStayTyped, BrowsersStayTyped, RestStaysTyped
<1>5. PollsOK'
  BY <1>1, PollsStayOK
<1>6. TypeOK'
  BY <1>2, <1>3, <1>4, TypesAre, PTL
<1> QED BY <1>3, <1>5, <1>6 DEF TInv

\* The types hold, and a task or a page that has a code in hand has one that exists.
THEOREM TypesHold == Spec => []TInv
<1>1. Init => TInv
  BY InitTyped DEF Init, TInv, PollsOK
<1>2. TInv /\ [Next]_vars => TInv'
  BY StepKeepsTypes
<1> QED BY <1>1, <1>2, PTL DEF Spec

\* The variables of the sign-up model keep their types.
THEOREM TypeCorrect == Spec => []TypeOK
<1>1. TInv => TypeOK
  BY DEF TInv
<1> QED BY <1>1, TypesHold, PTL

-----------------------------------------------------------------------------
(* One account for a number.  The unique column decides: whoever commits   *)
(* second fails, whatever they had read.                                   *)

\* A step that opens an account, or moves one to a number, finds nobody else with it.
LEMMA StepKeepsNumbers ==
  ASSUME TInv, NumberHasOneAccount, [Next]_vars
  PROVE  NumberHasOneAccount'
<1>1. TypeOK /\ accounts \in Seq(Account)
  BY DEF TInv, TypeOK
<1>2. CASE UNCHANGED accounts
  BY <1>2 DEF NumberHasOneAccount
<1>3. ASSUME NEW i \in DOMAIN msgs, Finishing(i) PROVE NumberHasOneAccount'
  <2> PICK n : n = msgs[i].from
    OBVIOUS
  <2>1. CASE /\ accounts' = Append(accounts, NewAccount(i)) /\ NewAccount(i) \in Account
             /\ ~Taken(n, NoOwner)
    <3> PICK r \in Account : r = NewAccount(i) /\ r.number = n
      BY <2>1 DEF NewAccount
    <3> PICK k : k = Len(accounts) + 1
      OBVIOUS
    <3>1. /\ DOMAIN accounts' = DOMAIN accounts \cup {k} /\ accounts'[k] = r
          /\ \A a \in DOMAIN accounts : accounts'[a] = accounts[a]
      <4>1. accounts' = Append(accounts, r)
        BY <2>1
      <4> QED BY <1>1, <4>1
    <3>2. \A a \in DOMAIN accounts : accounts[a].number # n
      BY <1>1, <2>1 DEF Taken, NoOwner
    <3> QED BY <3>1, <3>2 DEF NumberHasOneAccount
  <2>2. ASSUME NEW u, ~Taken(n, u), n \in Numbers, accounts' = [accounts EXCEPT ![u].number = n]
        PROVE  NumberHasOneAccount'
    <3>1. /\ DOMAIN accounts' = DOMAIN accounts
          /\ u \in DOMAIN accounts => accounts'[u].number = n
          /\ \A a \in DOMAIN accounts : a # u => accounts'[a] = accounts[a]
      BY <1>1, <2>2, RenumberedIs
    <3>2. \A a \in DOMAIN accounts : a # u => accounts[a].number # n
      BY <2>2 DEF Taken
    <3> QED BY <3>1, <3>2 DEF NumberHasOneAccount
  <2> QED BY <1>1, <1>2, <1>3, <2>1, <2>2, AccountsMove
<1>4. ASSUME NEW i \in DOMAIN msgs, NEW kind \in Kinds, NEW c \in {0} \cup DOMAIN challenges, Begin(i, kind, c)
      PROVE  UNCHANGED accounts
  BY <1>4 DEF Begin
<1>5. ASSUME NEW n \in Numbers, NEW q \in Procs, Receive(n, q) PROVE UNCHANGED accounts
  BY <1>5 DEF Receive
<1>6. ASSUME NEW q \in Procs, Crash(q) PROVE UNCHANGED accounts
  BY <1>6 DEF Crash
<1> QED BY <1>2, <1>3, <1>4, <1>5, <1>6, StepKinds, ElsewhereKeeps DEF vars

\* A number is never two accounts', whatever signs up, links and moves at the same time.
THEOREM OneAccountPerNumber == Spec => []NumberHasOneAccount
<1>1. Init => NumberHasOneAccount
  BY DEF Init, NumberHasOneAccount
<1>2. TInv /\ NumberHasOneAccount /\ [Next]_vars => NumberHasOneAccount'
  BY StepKeepsNumbers
<1> QED BY <1>1, <1>2, TypesHold, PTL DEF Spec

-----------------------------------------------------------------------------
(* Codes.                                                                  *)

(***************************************************************************)
(* A code nobody raced for has started a session when it is consumed, and  *)
(* only then; before, one page at most has it in hand, and it is approved. *)
(***************************************************************************)
ChallengeOK(c) ==
  /\ collected[c] = IF c \in DOMAIN challenges /\ challenges[c].status = "consumed" THEN 1 ELSE 0
  /\ \A b \in Browsers : polling[b] = c => c \in DOMAIN challenges /\ challenges[c].status = "approved"
  /\ \A b, d \in Browsers : polling[b] = c /\ polling[d] = c => b = d
ChallengesOK == \A c \in 1 .. MaxChallenges : c \notin raced => ChallengeOK(c)

\* Every step, and every stutter, keeps it.
LEMMA StepKeepsCodes ==
  ASSUME TInv, ChallengesOK, [Next]_vars
  PROVE  ChallengesOK'
<1>1. TypeOK /\ CodesOK /\ PollsOK /\ challenges \in Seq(Challenge) /\ polling \in [Browsers -> 0 .. MaxChallenges]
      /\ collected \in [1 .. MaxChallenges -> Nat]
  BY DEF TInv, TypeOK
<1>2. DOMAIN challenges \subseteq 1 .. MaxChallenges
  BY BoundsAreNatural DEF TInv, TypeOK
<1>3. CASE UNCHANGED <<challenges, polling, collected, raced>>
  BY <1>3 DEF ChallengesOK, ChallengeOK
<1>4. ASSUME NEW i \in DOMAIN msgs, Finishing(i) PROVE ChallengesOK'
  <2>1. UNCHANGED <<polling, collected>>
    BY <1>4 DEF Finishing, Answer, Welcome, Reprompt, CancelSignUp, BusinessName, CreateAccount,
                AlreadyRegistered, CompleteLogin, CompleteLink
  <2>2. ASSUME NEW s \in {"approved", "rejected"}, NEW u \in Owners,
               msgs[i].code \in DOMAIN challenges, Settled(i, s, u)
        PROVE  ChallengesOK'
    <3> PICK k \in DOMAIN challenges : k = msgs[i].code
      BY <2>2
    <3>1. /\ DOMAIN challenges' = DOMAIN challenges /\ challenges'[k].status = s
          /\ \A d \in DOMAIN challenges : d # k => challenges'[d] = challenges[d]
          /\ raced' = IF challenges[k].status = "pending" THEN raced ELSE raced \cup {k}
      BY <1>1, <2>2, SettledIs
    <3> SUFFICES ASSUME NEW c \in 1 .. MaxChallenges, c \notin raced' PROVE ChallengeOK(c)'
      BY DEF ChallengesOK
    <3>2. c \notin raced /\ ChallengeOK(c)
      BY <3>1 DEF ChallengesOK
    <3>3. CASE c = k
      BY <2>1, <3>1, <3>2, <3>3 DEF ChallengeOK
    <3>4. CASE c # k
      BY <2>1, <3>1, <3>2, <3>4 DEF ChallengeOK
    <3> QED BY <3>3, <3>4
  <2> QED BY <1>1, <1>3, <1>4, <2>1, <2>2, CodesMove
<1>5. ASSUME NEW k, NEW purpose, NEW u, CodeStarted(k, purpose, u), UNCHANGED <<polling, collected, raced>>
      PROVE  ChallengesOK'
  <2>1. /\ DOMAIN challenges' = DOMAIN challenges \cup {k} /\ k \notin DOMAIN challenges
        /\ challenges'[k].status = "pending"
        /\ \A c \in DOMAIN challenges : challenges'[c] = challenges[c]
    BY <1>5 DEF CodeStarted
  <2> QED BY <1>5, <2>1 DEF ChallengesOK, ChallengeOK
<1>6. ASSUME NEW n \in Numbers, StartLogin(n) PROVE ChallengesOK'
  <2>1. NoOwner \in Owners
    BY BoundsAreNatural DEF Owners, NoOwner
  <2>2. /\ Len(challenges) < MaxChallenges /\ UNCHANGED <<polling, collected, raced>>
        /\ challenges' = Append(challenges, [purpose |-> "login", number |-> n, user |-> NoOwner,
                                             open |-> TRUE, status |-> "pending"])
    BY <1>6 DEF StartLogin
  <2> QED BY <1>1, <1>5, <2>1, <2>2, CodeStarts
<1>7. ASSUME NEW b \in Browsers, NEW n \in Numbers, StartLink(b, n) PROVE ChallengesOK'
  <2>1. sessions[b] \in Owners
    BY <1>1 DEF TypeOK
  <2>2. /\ Len(challenges) < MaxChallenges /\ UNCHANGED <<polling, collected, raced>>
        /\ challenges' = Append(challenges, [purpose |-> "link", number |-> n, user |-> sessions[b],
                                             open |-> TRUE, status |-> "pending"])
    BY <1>7 DEF StartLink
  <2> QED BY <1>1, <1>5, <2>1, <2>2, CodeStarts
<1>8. ASSUME NEW b \in Browsers, NEW k \in DOMAIN challenges, Poll(b, k) PROVE ChallengesOK'
  <2>1. /\ challenges[k].status = "approved" /\ polling' = [polling EXCEPT ![b] = k] /\ polling[b] = 0
        /\ raced' = IF \E d \in Browsers : polling[d] = k THEN raced \cup {k} ELSE raced
        /\ UNCHANGED <<challenges, collected>>
    BY <1>8 DEF Poll
  <2> SUFFICES ASSUME NEW c \in 1 .. MaxChallenges, c \notin raced' PROVE ChallengeOK(c)'
    BY DEF ChallengesOK
  <2>2. c \notin raced /\ ChallengeOK(c)
    BY <2>1 DEF ChallengesOK
  <2>3. CASE c = k
    BY <1>1, <2>1, <2>2, <2>3 DEF ChallengeOK
  <2>4. CASE c # k
    BY <1>1, <2>1, <2>2, <2>4 DEF ChallengeOK
  <2> QED BY <2>3, <2>4
<1>9. ASSUME NEW b \in Browsers, Collect(b) PROVE ChallengesOK'
  <2> PICK k \in DOMAIN challenges : k = polling[b]
    BY <1>1, <1>9 DEF Collect, PollsOK
  <2>1. /\ challenges' = [challenges EXCEPT ![k].status = "consumed"]
        /\ collected' = [collected EXCEPT ![k] = collected[k] + 1]
        /\ polling' = [polling EXCEPT ![b] = 0] /\ UNCHANGED raced
    BY <1>9 DEF Collect
  <2>2. CodeMove(k, "consumed")
    BY <1>1, <2>1, CodeChanges
  <2> SUFFICES ASSUME NEW c \in 1 .. MaxChallenges, c \notin raced' PROVE ChallengeOK(c)'
    BY DEF ChallengesOK
  <2>3. ChallengeOK(c)
    BY <2>1 DEF ChallengesOK
  <2>4. \A d \in Browsers : polling'[d] = IF d = b THEN 0 ELSE polling[d]
    BY <1>1, <2>1
  <2>5. CASE c = k
    <3>1. collected[k] = 0 /\ \A d \in Browsers : polling'[d] # k
      BY <1>2, <2>3, <2>4, <2>5 DEF ChallengeOK
    <3>2. collected'[k] = 1
      BY <1>1, <1>2, <2>1, <3>1
    <3> QED BY <2>2, <2>5, <3>1, <3>2 DEF ChallengeOK, CodeMove
  <2>6. CASE c # k
    <3>1. collected'[c] = collected[c]
      BY <1>1, <2>1, <2>6
    <3>2. (c \in DOMAIN challenges' <=> c \in DOMAIN challenges)
          /\ (c \in DOMAIN challenges => challenges'[c].status = challenges[c].status)
      BY <2>2, <2>6 DEF CodeMove
    <3> QED BY <2>3, <2>4, <3>1, <3>2 DEF ChallengeOK
  <2> QED BY <2>5, <2>6
<1>10. ASSUME NEW k \in DOMAIN challenges, Expire(k) PROVE ChallengesOK'
  <2>1. challenges' = [challenges EXCEPT ![k].open = FALSE] /\ UNCHANGED <<polling, collected, raced>>
    BY <1>10 DEF Expire
  <2>2. CodeMove(k, challenges[k].status)
    BY <1>1, <2>1, CodeChanges
  <2> QED BY <2>1, <2>2 DEF ChallengesOK, ChallengeOK, CodeMove
<1>11. CASE \/ \E n \in Numbers : Abandon(n) \/ Remind(n)
            \/ \E b \in Browsers : EndSession(b)
  BY <1>3, <1>11 DEF Abandon, Remind, EndSession
<1>12. CASE \/ \E i \in DOMAIN msgs : \E kind \in Kinds, c \in {0} \cup DOMAIN challenges : Begin(i, kind, c)
            \/ \E n \in Numbers, q \in Procs : Receive(n, q)
            \/ \E q \in Procs : Crash(q)
  BY <1>3, <1>12 DEF Begin, Receive, Crash
<1> QED BY <1>3, <1>4, <1>6, <1>7, <1>8, <1>9, <1>10, <1>11, <1>12, StepKinds DEF vars, Elsewhere

\* An approved code is collected once, unless two pages had read it, or two messages approved
\* it, at the same time.
THEOREM CodesCollectedOnce == Spec => []CollectedOnce
<1>1. Init => ChallengesOK
  <2> SUFFICES ASSUME Init PROVE ChallengesOK
    OBVIOUS
  <2>1. DOMAIN challenges = {} /\ \A c \in 1 .. MaxChallenges : collected[c] = 0 /\ \A b \in Browsers : polling[b] # c
    BY BoundsAreNatural DEF Init
  <2> QED BY <2>1 DEF ChallengesOK, ChallengeOK
<1>2. TInv /\ ChallengesOK /\ [Next]_vars => ChallengesOK'
  BY StepKeepsCodes
<1>3. TInv /\ ChallengesOK => CollectedOnce
  <2> SUFFICES ASSUME TInv, ChallengesOK, NEW c \in DOMAIN challenges, c \notin raced PROVE collected[c] <= 1
    BY DEF CollectedOnce
  <2>1. c \in 1 .. MaxChallenges
    BY BoundsAreNatural DEF TInv, TypeOK
  <2> QED BY <2>1 DEF ChallengesOK, ChallengeOK
<1> QED BY <1>1, <1>2, <1>3, TypesHold, PTL DEF Spec

-----------------------------------------------------------------------------
(* What a step does to messages, sign-ups, accounts and records.           *)

\* Message i ends, in time or with its process.
Ends(i) == ~Over(i) /\ msgs'[i].at \in {"done", "lost"} /\ msgs'[i].row = NoSignUp

\* It begins, with what it reads.
Begins(i) ==
  /\ msgs[i].at = "queued" /\ msgs'[i].at \in {"code", "signup", "answer"}
  /\ msgs'[i].row = signups[msgs[i].from]
  /\ msgs'[i].at = "answer" => msgs'[i].replay = i

\* It has opened an account, and goes on with the sale that began it.
Replays(i) ==
  /\ CreateAccount(i) /\ msgs[i].row.first # 0
  /\ msgs'[i].at = "answer" /\ msgs'[i].row = NoSignUp /\ msgs'[i].replay = msgs[i].row.first

\* One message at most goes on; a new one is queued.
MessagesStep ==
  /\ \A i \in DOMAIN msgs :
       /\ i \in DOMAIN msgs'
       /\ msgs'[i].from = msgs[i].from
       /\ msgs'[i] = msgs[i] \/ Ends(i) \/ Begins(i) \/ Replays(i)
       /\ msgs[i].at = "queued" /\ msgs'[i].at \notin {"queued", "lost"} =>
            \E kind \in Kinds, c \in {0} \cup DOMAIN challenges : Begin(i, kind, c)
  /\ \A i \in DOMAIN msgs' \ DOMAIN msgs : /\ i = Len(msgs) + 1
                                           /\ msgs'[i].at = "queued" /\ msgs'[i].row = NoSignUp

\* That is what a step does to messages.
LEMMA MessagesStepOn ==
  ASSUME TInv, [Next]_vars
  PROVE  MessagesStep
<1>1. TypeOK /\ msgs \in Seq(Message)
  BY DEF TInv, TypeOK
<1>2. CASE UNCHANGED msgs
  BY <1>2 DEF MessagesStep
<1>3. ASSUME NEW i \in DOMAIN msgs, NEW at \in Places
      PROVE  LET m == Unread(msgs[i].from, msgs[i].proc, at)
             IN  m.at = at /\ m.row = NoSignUp /\ m.from = msgs[i].from
  BY DEF Unread
<1>4. ASSUME NEW i \in DOMAIN msgs, NEW m, MsgMove(i, m),
             (msgs'[i] = m /\ msgs'[i].from = msgs[i].from) => Ends(i) \/ Begins(i) \/ Replays(i),
             msgs[i].at = "queued" => \E kind \in Kinds, c \in {0} \cup DOMAIN challenges : Begin(i, kind, c)
      PROVE  MessagesStep
  <2>1. DOMAIN msgs' = DOMAIN msgs /\ msgs'[i] = m /\ m.from = msgs[i].from
        /\ \A j \in DOMAIN msgs : j # i => msgs'[j] = msgs[j]
    BY <1>1, <1>4, MoveChanges DEF MsgMove
  <2> QED BY <1>4, <2>1 DEF MessagesStep
<1>5. ASSUME NEW i \in DOMAIN msgs, NEW kind \in Kinds, NEW c \in {0} \cup DOMAIN challenges, Begin(i, kind, c)
      PROVE  MessagesStep
  <2>1. msgs[i].at = "queued"
    BY <1>5 DEF Begin
  <2>2. CASE MsgMove(i, Unread(msgs[i].from, msgs[i].proc, "done"))
    <3>1. msgs'[i] = Unread(msgs[i].from, msgs[i].proc, "done") => Ends(i)
      BY <1>3, <2>1 DEF Ends, Over, Places
    <3> QED BY <1>4, <1>5, <2>2, <3>1
  <2>3. ASSUME NEW at \in {"code", "signup", "answer"}, NEW replay \in {0, i},
               MsgMove(i, Begun(i, kind, c, at, replay)), at = "answer" <=> replay = i
        PROVE  MessagesStep
    <3>1. msgs'[i] = Begun(i, kind, c, at, replay) => Begins(i)
      BY <2>1, <2>3 DEF Begins, Begun
    <3> QED BY <1>4, <1>5, <2>3, <3>1
  <2>4. \/ MsgMove(i, Unread(msgs[i].from, msgs[i].proc, "done"))
        \/ \E at \in {"code", "signup", "answer"}, replay \in {0, i} :
             /\ MsgMove(i, Begun(i, kind, c, at, replay))
             /\ at = "code" <=> kind = "code"
             /\ at = "code" => Fits(c, msgs[i].from) /\ c # 0
             /\ at = "signup" => Owner(msgs[i].from) = NoOwner
             /\ at = "answer" <=> replay = i
    BY <1>1, <1>5, BeginMoves
  <2> QED BY <2>2, <2>3, <2>4
<1>6. ASSUME NEW i \in DOMAIN msgs, Finishing(i) PROVE MessagesStep
  <2>1. msgs[i].at \in {"code", "signup", "answer"}
    BY <1>1, <1>6, FinishingMoves
  <2>2. CASE MsgMove(i, Unread(msgs[i].from, msgs[i].proc, "done"))
    <3>1. msgs'[i] = Unread(msgs[i].from, msgs[i].proc, "done") => Ends(i)
      BY <1>3, <2>1 DEF Ends, Over, Places
    <3> QED BY <1>4, <2>1, <2>2, <3>1
  <2>3. CASE CreateAccount(i) /\ msgs[i].row.first # 0 /\ MsgMove(i, Replaying(i))
    <3>1. Len(accounts) < MaxAccounts
      BY <2>3 DEF CreateAccount
    <3>2. msgs'[i] = Replaying(i) => Replays(i)
      BY <1>1, <2>3, <3>1, ReplayingIs DEF Replays
    <3> QED BY <1>4, <2>1, <2>3, <3>2
  <2> QED BY <1>1, <1>6, <2>2, <2>3, FinishingMoves
<1>7. ASSUME NEW n \in Numbers, NEW q \in Procs, Receive(n, q) PROVE MessagesStep
  <2>1. Unread(n, q, "queued").at = "queued" /\ Unread(n, q, "queued").row = NoSignUp
    BY DEF Unread
  <2> QED BY <1>1, <1>7, <2>1, ReceiveAppends DEF MessagesStep
<1>8. ASSUME NEW q \in Procs, Crash(q) PROVE MessagesStep
  <2>1. DOMAIN msgs' = DOMAIN msgs
        /\ \A i \in DOMAIN msgs :
              \/ msgs'[i] = msgs[i]
              \/ ~Over(i) /\ msgs'[i] = Unread(msgs[i].from, msgs[i].proc, "lost")
    BY <1>1, <1>8, CrashLoses
  <2>2. ASSUME NEW i \in DOMAIN msgs, ~Over(i), msgs'[i] = Unread(msgs[i].from, msgs[i].proc, "lost")
        PROVE  Ends(i) /\ msgs'[i].from = msgs[i].from /\ msgs'[i].at = "lost"
    BY <1>3, <2>2 DEF Ends, Places
  <2> QED BY <2>1, <2>2 DEF MessagesStep
<1> QED BY <1>2, <1>5, <1>6, <1>7, <1>8, StepKinds, ElsewhereKeeps DEF vars

\* What is handled stays so.
LEMMA HandledStays ==
  ASSUME MessagesStep, NEW i \in DOMAIN msgs
  PROVE  /\ i \in DOMAIN msgs' /\ msgs'[i].from = msgs[i].from
         /\ Over(i) => msgs'[i] = msgs[i]
         /\ msgs[i].at = "answer" => msgs'[i] = msgs[i] \/ msgs'[i].at \in {"done", "lost"}
  BY DEF MessagesStep, Ends, Begins, Replays, Over, CreateAccount, Answers, Reading

\* Accounts stay, and a step opens one at most.
AccountsStep ==
  /\ \A a \in DOMAIN accounts :
       /\ a \in DOMAIN accounts'
       /\ accounts'[a].born = accounts[a].born /\ accounts'[a].biz = accounts[a].biz
       /\ accounts'[a].name = accounts[a].name /\ accounts'[a].first = accounts[a].first
  /\ \A a \in DOMAIN accounts' \ DOMAIN accounts :
       /\ a = Len(accounts) + 1
       /\ \E i \in DOMAIN msgs : CreateAccount(i) /\ accounts'[a] = NewAccount(i)

\* That is what a step does to accounts.
LEMMA AccountsStepOn ==
  ASSUME TInv, [Next]_vars
  PROVE  AccountsStep
<1>1. TypeOK /\ accounts \in Seq(Account)
  BY DEF TInv, TypeOK
<1>2. CASE UNCHANGED accounts
  BY <1>2 DEF AccountsStep
<1>3. ASSUME NEW i \in DOMAIN msgs, Finishing(i) PROVE AccountsStep
  <2>1. CASE CreateAccount(i) /\ accounts' = Append(accounts, NewAccount(i)) /\ NewAccount(i) \in Account
    <3> PICK r \in Account : r = NewAccount(i)
      BY <2>1
    <3> PICK k : k = Len(accounts) + 1
      OBVIOUS
    <3>1. /\ DOMAIN accounts' = DOMAIN accounts \cup {k} /\ accounts'[k] = r
          /\ \A a \in DOMAIN accounts : accounts'[a] = accounts[a]
      <4>1. accounts' = Append(accounts, r)
        BY <2>1
      <4> QED BY <1>1, <4>1
    <3> QED BY <2>1, <3>1 DEF AccountsStep
  <2>2. CASE \E u : msgs[i].from \in Numbers /\ accounts' = [accounts EXCEPT ![u].number = msgs[i].from]
    BY <1>1, <2>2, RenumberedIs DEF AccountsStep
  <2> QED BY <1>1, <1>2, <1>3, <2>1, <2>2, AccountsMove
<1>4. ASSUME NEW i \in DOMAIN msgs, NEW kind \in Kinds, NEW c \in {0} \cup DOMAIN challenges, Begin(i, kind, c)
      PROVE  UNCHANGED accounts
  BY <1>4 DEF Begin
<1>5. ASSUME NEW n \in Numbers, NEW q \in Procs, Receive(n, q) PROVE UNCHANGED accounts
  BY <1>5 DEF Receive
<1>6. ASSUME NEW q \in Procs, Crash(q) PROVE UNCHANGED accounts
  BY <1>6 DEF Crash
<1> QED BY <1>2, <1>3, <1>4, <1>5, <1>6, StepKinds, ElsewhereKeeps DEF vars

\* The row of a number stays, goes, ages, or is written by a message of that number.
SignUpStep(n) ==
  LET old == signups[n]
      new == signups'[n]
  IN  \/ new = old
      \/ new = NoSignUp
      \/ /\ old.step # "none" /\ new.step = old.step
         /\ new.born = old.born /\ new.biz = old.biz /\ new.first = old.first
      \/ \E i \in DOMAIN msgs :
           /\ msgs[i].from = n /\ BusinessName(i) /\ SameRow(i)
           /\ new.step = "name" /\ new.biz = i /\ new.born = old.born /\ new.first = old.first
      \/ \E i \in DOMAIN msgs :
           /\ msgs[i].from = n /\ Welcome(i)
           /\ new.step = "business_name" /\ new.born = i /\ new.first \in {0, i}

\* That is what a step does to sign-ups.
LEMMA SignUpsStepOn ==
  ASSUME TInv, [Next]_vars, NEW n \in Numbers
  PROVE  SignUpStep(n)
<1>1. TypeOK /\ signups \in [Numbers -> SignUp]
  BY DEF TInv, TypeOK
<1>2. CASE UNCHANGED signups
  BY <1>2 DEF SignUpStep
<1>3. ASSUME NEW i \in DOMAIN msgs, Finishing(i) PROVE SignUpStep(n)
  <2> PICK k \in Numbers : k = msgs[i].from
    BY <1>1, <1>3, SignUpsMove
  <2>1. CASE n # k
    <3>1. UNCHANGED signups \/ \E new : signups' = [signups EXCEPT ![k] = new]
      BY <1>1, <1>3, SignUpsMove
    <3>2. signups'[n] = signups[n]
      BY <1>1, <2>1, <3>1
    <3> QED BY <3>2 DEF SignUpStep
  <2>2. CASE n = k
    <3>1. CASE signups' = [signups EXCEPT ![k] = NoSignUp]
      BY <1>1, <2>2, <3>1 DEF SignUpStep
    <3>2. CASE BusinessName(i) /\ SameRow(i) /\ signups' = [signups EXCEPT ![k] = Named(signups[k], i)]
      <4>1. i \in Ids
        BY <1>1, MessagesAre DEF TypeOK
      <4> PICK row \in SignUp : row = signups[k]
        BY <1>1
      <4>2. signups'[n] = Named(row, i)
        BY <1>1, <2>2, <3>2
      <4> QED BY <2>2, <3>2, <4>1, <4>2, NamedIs DEF SignUpStep
    <3>3. CASE Welcome(i) /\ \E j \in {0, i} :
                 signups' = [signups EXCEPT ![k] = [step |-> "business_name", born |-> i, biz |-> 0,
                                                    old |-> FALSE, first |-> j]]
      <4>1. PICK j \in {0, i} :
                 signups' = [signups EXCEPT ![k] = [step |-> "business_name", born |-> i, biz |-> 0,
                                                    old |-> FALSE, first |-> j]]
        BY <3>3
      <4>2. signups'[n] = [step |-> "business_name", born |-> i, biz |-> 0, old |-> FALSE, first |-> j]
        BY <1>1, <2>2, <4>1
      <4> QED BY <2>2, <3>3, <4>2 DEF SignUpStep
    <3> QED BY <1>1, <1>2, <1>3, <3>1, <3>2, <3>3, SignUpsMove
  <2> QED BY <2>1, <2>2
<1>4. ASSUME Elsewhere PROVE SignUpStep(n)
  <2>1. ASSUME NEW k \in Numbers, Abandon(k) PROVE SignUpStep(n)
    <3> PICK row \in SignUp : row = signups[k]
      BY <1>1
    <3> PICK new : new = [row EXCEPT !.old = TRUE]
      OBVIOUS
    <3>1. new.step = row.step /\ new.born = row.born /\ new.biz = row.biz /\ new.first = row.first
      BY DEF SignUp
    <3>2. signups' = [signups EXCEPT ![k] = new] /\ row.step # "none"
      BY <2>1 DEF Abandon
    <3> QED BY <1>1, <3>1, <3>2 DEF SignUpStep
  <2>2. CASE \/ \E k \in Numbers : StartLogin(k) \/ Remind(k)
             \/ \E b \in Browsers, k \in Numbers : StartLink(b, k)
             \/ \E b \in Browsers, c \in DOMAIN challenges : Poll(b, c)
             \/ \E b \in Browsers : Collect(b) \/ EndSession(b)
             \/ \E c \in DOMAIN challenges : Expire(c)
    BY <1>2, <2>2 DEF StartLogin, Remind, StartLink, Poll, Collect, EndSession, Expire
  <2> QED BY <1>4, <2>1, <2>2 DEF Elsewhere
<1>5. ASSUME NEW i \in DOMAIN msgs, NEW kind \in Kinds, NEW c \in {0} \cup DOMAIN challenges, Begin(i, kind, c)
      PROVE  UNCHANGED signups
  BY <1>5 DEF Begin
<1>6. ASSUME NEW k \in Numbers, NEW q \in Procs, Receive(k, q) PROVE UNCHANGED signups
  BY <1>6 DEF Receive
<1>7. ASSUME NEW q \in Procs, Crash(q) PROVE UNCHANGED signups
  BY <1>7 DEF Crash
<1> QED BY <1>2, <1>3, <1>4, <1>5, <1>6, <1>7, StepKinds DEF vars

\* Only an answer records.
LEMMA RecordsStep ==
  ASSUME [Next]_vars
  PROVE  UNCHANGED recorded \/ \E i \in DOMAIN msgs : Answer(i)
<1>1. ASSUME NEW i \in DOMAIN msgs, Finishing(i) PROVE UNCHANGED recorded \/ Answer(i)
  BY <1>1 DEF Finishing, Welcome, Reprompt, CancelSignUp, BusinessName, CreateAccount,
              AlreadyRegistered, CompleteLogin, CompleteLink
<1>2. ASSUME NEW i \in DOMAIN msgs, NEW kind \in Kinds, NEW c \in {0} \cup DOMAIN challenges, Begin(i, kind, c)
      PROVE  UNCHANGED recorded
  BY <1>2 DEF Begin
<1>3. ASSUME NEW k \in Numbers, NEW q \in Procs, Receive(k, q) PROVE UNCHANGED recorded
  BY <1>3 DEF Receive
<1>4. ASSUME NEW q \in Procs, Crash(q) PROVE UNCHANGED recorded
  BY <1>4 DEF Crash
<1> QED BY <1>1, <1>2, <1>3, <1>4, StepKinds, ElsewhereKeeps DEF vars

-----------------------------------------------------------------------------
(* A sign-up and the account it opens name messages that were handled.     *)

\* A message of n that was handled to its end.
Handled(n, k) == k \in DOMAIN msgs /\ msgs[k].from = n /\ msgs[k].at = "done"

\* What a sign-up says of messages, they were handled; the first sale is the one that began it.
RowOK(n, row) ==
  /\ row.step = "none" => row = NoSignUp
  /\ row.step # "none" => Handled(n, row.born) /\ row.first \in {0, row.born}
  /\ row.step = "name" => Handled(n, row.biz)

RowsOK ==
  /\ \A n \in Numbers : RowOK(n, signups[n])
  /\ \A i \in DOMAIN msgs : RowOK(msgs[i].from, msgs[i].row)

\* An account was opened by the message that gave the trader's name, or on the website.
Opener(i) == i \in DOMAIN msgs /\ msgs[i].at \in {"answer", "done", "lost"}
AccountOK(a) ==
  /\ accounts[a].name = 0 => accounts[a].first = 0
  /\ accounts[a].name # 0 => Opener(accounts[a].name)
  /\ accounts[a].first # 0 => \E n \in Numbers : Handled(n, accounts[a].first)
AccountsOK == \A a \in DOMAIN accounts : AccountOK(a)

\* Handled is for ever.
LEMMA RowStays ==
  ASSUME MessagesStep, NEW n, NEW row
  PROVE  /\ \A k : Handled(n, k) => Handled(n, k)'
         /\ RowOK(n, row) => RowOK(n, row)'
<1>1. \A k : Handled(n, k) => Handled(n, k)'
  BY HandledStays DEF Handled, Over
<1> QED BY <1>1 DEF RowOK

\* A task that ends has handled its message.
LEMMA ToHandles ==
  ASSUME TypeOK, NEW i \in DOMAIN msgs, To(i, "done")
  PROVE  /\ msgs'[i].at = "done" /\ msgs'[i].from = msgs[i].from /\ msgs'[i].row = NoSignUp
         /\ Handled(msgs[i].from, i)'
<1> PICK n : n = msgs[i].from
  OBVIOUS
<1>1. MsgMove(i, Unread(n, msgs[i].proc, "done")) /\ msgs \in Seq(Message)
  BY ToMoves DEF Places, TypeOK
<1>2. DOMAIN msgs' = DOMAIN msgs /\ msgs'[i] = Unread(n, msgs[i].proc, "done")
  BY <1>1, MoveChanges
<1>3. msgs'[i].at = "done" /\ msgs'[i].from = n /\ msgs'[i].row = NoSignUp
  BY <1>2 DEF Unread
<1> QED BY <1>2, <1>3 DEF Handled

\* The message that opens an account has been read, and goes on to record what it kept.
LEMMA OpeningMoves ==
  ASSUME TypeOK, NEW i \in DOMAIN msgs, CreateAccount(i)
  PROVE  /\ i \in DOMAIN msgs' /\ msgs[i].at = "signup" /\ msgs[i].row.step = "name"
         /\ msgs'[i].row = NoSignUp /\ msgs'[i].from = msgs[i].from
         /\ msgs[i].row.first = 0 => msgs'[i].at = "done"
         /\ msgs[i].row.first # 0 => msgs'[i].at = "answer" /\ msgs'[i].replay = msgs[i].row.first
<1>1. /\ msgs[i].at = "signup" /\ msgs[i].row.step = "name" /\ Len(accounts) < MaxAccounts
      /\ msgs[i].row.first = 0 => To(i, "done")
      /\ msgs[i].row.first # 0 => msgs' = [msgs EXCEPT ![i] = Replaying(i)]
  BY DEF CreateAccount, Answers, Reading, Replaying
<1>2. CASE msgs[i].row.first = 0
  BY <1>1, <1>2, ToHandles DEF Handled
<1>3. CASE msgs[i].row.first # 0
  <2> PICK m \in Message : m = Replaying(i) /\ m.from = msgs[i].from /\ m.at = "answer"
                           /\ m.row = NoSignUp /\ m.replay = msgs[i].row.first
    BY <1>1, ReplayingIs
  <2>1. MsgMove(i, m) /\ msgs \in Seq(Message)
    <3>1. msgs[i].proc = m.proc
      BY <1>1, ReplayingIs
    <3> QED BY <1>1, <1>3, <3>1 DEF MsgMove, TypeOK
  <2> QED BY <1>1, <1>3, <2>1, MoveChanges
<1> QED BY <1>2, <1>3

\* A row that a task has in hand and that is still there is the same row.
LEMMA SameRowIs ==
  ASSUME TInv, RowsOK, NEW i \in DOMAIN msgs, SameRow(i), msgs[i].row.step # "none"
  PROVE  LET n == msgs[i].from
         IN  /\ n \in Numbers /\ signups[n].step # "none" /\ signups[n].born = msgs[i].row.born
             /\ Handled(n, signups[n].born) /\ signups[n].first \in {0, signups[n].born}
<1>1. msgs[i] \in Message /\ 0 \notin DOMAIN msgs
  BY DEF TInv, TypeOK
<1> PICK n \in Numbers : n = msgs[i].from
  BY <1>1 DEF Message
<1>2. Handled(n, msgs[i].row.born)
  BY DEF RowsOK, RowOK
<1>3. signups[n].born # 0 /\ signups[n].born = msgs[i].row.born
  BY <1>1, <1>2 DEF Handled, SameRow
<1> QED BY <1>3 DEF RowsOK, RowOK, NoSignUp

\* Rows keep naming handled messages.
LEMMA StepKeepsRows ==
  ASSUME TInv, RowsOK, [Next]_vars
  PROVE  RowsOK'
<1>1. MessagesStep /\ TypeOK
  BY MessagesStepOn DEF TInv
<1>2. ASSUME NEW n, RowOK(n, signups[n]), NEW row, row = signups[n] PROVE RowOK(n, row)'
  BY <1>1, <1>2, RowStays
<1>3. ASSUME NEW n, NEW row, row = NoSignUp PROVE RowOK(n, row)'
  BY <1>3 DEF RowOK, NoSignUp
<1>4. ASSUME NEW n \in Numbers PROVE RowOK(n, signups[n])'
  <2> PICK old : old = signups[n]
    OBVIOUS
  <2> PICK new : new = signups'[n]
    OBVIOUS
  <2>1. RowOK(n, old) /\ RowOK(n, old)'
    BY <1>2 DEF RowsOK
  <2> SUFFICES RowOK(n, new)'
    OBVIOUS
  <2>2. CASE new = old \/ new = NoSignUp
    BY <1>3, <2>1, <2>2
  <2>3. CASE /\ old.step # "none" /\ new.step = old.step
             /\ new.born = old.born /\ new.biz = old.biz /\ new.first = old.first
    BY <2>1, <2>3 DEF RowOK
  <2>4. ASSUME NEW i \in DOMAIN msgs, msgs[i].from = n, BusinessName(i), SameRow(i),
               new.step = "name", new.biz = i, new.born = old.born, new.first = old.first
        PROVE  RowOK(n, new)'
    <3>1. msgs[i].row.step = "business_name" /\ To(i, "done")
      BY <2>4 DEF BusinessName
    <3>2. Handled(n, i)'
      BY <1>1, <2>4, <3>1, ToHandles
    <3>3. old.step # "none"
      BY <2>4, <3>1, SameRowIs
    <3> QED BY <2>1, <2>4, <3>2, <3>3 DEF RowOK
  <2>5. ASSUME NEW i \in DOMAIN msgs, msgs[i].from = n, Welcome(i),
               new.step = "business_name", new.born = i, new.first \in {0, i}
        PROVE  RowOK(n, new)'
    <3>1. To(i, "done")
      BY <2>5 DEF Welcome
    <3>2. Handled(n, i)'
      BY <1>1, <2>5, <3>1, ToHandles
    <3> QED BY <2>5, <3>2 DEF RowOK
  <2> QED BY <2>2, <2>3, <2>4, <2>5, SignUpsStepOn DEF SignUpStep
<1>5. ASSUME NEW i \in DOMAIN msgs' PROVE RowOK(msgs[i].from, msgs[i].row)'
  <2> PICK n : n = msgs'[i].from
    OBVIOUS
  <2> PICK row : row = msgs'[i].row
    OBVIOUS
  <2> SUFFICES RowOK(n, row)'
    OBVIOUS
  <2>1. CASE row = NoSignUp
    BY <1>3, <2>1
  <2>2. CASE i \in DOMAIN msgs /\ row # NoSignUp
    <3>1. /\ msgs[i].from = n
          /\ row = msgs[i].row \/ (row = signups[n] /\ n \in Numbers)
      <4>1. msgs[i] \in Message
        BY <1>1, <2>2 DEF TypeOK
      <4> QED BY <1>1, <2>2, <4>1 DEF MessagesStep, Ends, Begins, Replays, Message
    <3>2. RowOK(n, row)
      BY <2>2, <3>1 DEF RowsOK
    <3> QED BY <1>1, <3>2, RowStays
  <2> QED BY <1>1, <2>1, <2>2 DEF MessagesStep
<1> QED BY <1>4, <1>5 DEF RowsOK

\* Accounts keep naming them.
LEMMA StepKeepsAccounts ==
  ASSUME TInv, RowsOK, AccountsOK, [Next]_vars
  PROVE  AccountsOK'
<1>1. MessagesStep /\ AccountsStep /\ TypeOK
  BY MessagesStepOn, AccountsStepOn DEF TInv
<1> SUFFICES ASSUME NEW a \in DOMAIN accounts' PROVE AccountOK(a)'
  BY DEF AccountsOK
<1>2. \A n, k : Handled(n, k) => Handled(n, k)'
  BY <1>1, RowStays
<1>3. CASE a \in DOMAIN accounts
  <2>1. AccountOK(a) /\ accounts'[a].name = accounts[a].name /\ accounts'[a].first = accounts[a].first
    BY <1>1, <1>3 DEF AccountsOK, AccountsStep
  <2>2. \A i : Opener(i) => Opener(i)'
    BY <1>1, HandledStays DEF Opener, Over
  <2> QED BY <1>2, <2>1, <2>2 DEF AccountOK
<1>4. CASE a \notin DOMAIN accounts
  <2> PICK i \in DOMAIN msgs : CreateAccount(i) /\ accounts'[a] = NewAccount(i)
    BY <1>1, <1>4 DEF AccountsStep
  <2>1. accounts'[a].name = i /\ accounts'[a].first = msgs[i].row.first
    BY DEF NewAccount
  <2>2. Opener(i)' /\ i # 0
    <3>1. i # 0
      BY <1>1 DEF TypeOK
    <3> QED BY <1>1, <3>1, OpeningMoves DEF Opener
  <2>3. msgs[i].row.step = "name" /\ msgs[i].from \in Numbers
    <3>1. msgs[i] \in Message
      BY <1>1 DEF TypeOK
    <3> QED BY <1>1, <3>1, OpeningMoves DEF Message
  <2>4. msgs[i].row.first # 0 => Handled(msgs[i].from, msgs[i].row.first)
    BY <2>3 DEF RowsOK, RowOK
  <2> PICK n \in Numbers : n = msgs[i].from
    BY <2>3
  <2> PICK k : k = msgs[i].row.first
    OBVIOUS
  <2>5. k # 0 => Handled(n, k)'
    BY <1>2, <2>4
  <2> QED BY <2>1, <2>2, <2>5 DEF AccountOK
<1> QED BY <1>3, <1>4

-----------------------------------------------------------------------------
(* First sales.  A sale that is kept has not been recorded; the account a  *)
(* sign-up opens is recorded for by the message that opened it, and that   *)
(* message goes on to do it.                                               *)

\* The accounts that were opened with sale k, and who else has it in hand.
Opened(k) == {a \in DOMAIN accounts : accounts[a].first = k}
Kept(k) ==
  \/ \E n \in Numbers : signups[n].first = k
  \/ \E i \in DOMAIN msgs : msgs[i].row.first = k

\* A message in a turn records itself, or the sale of the account it opened.
RepliesOK ==
  /\ \A i \in DOMAIN msgs : msgs[i].at = "answer" /\ msgs[i].replay # i =>
       msgs[i].replay # 0 /\ \E a \in Opened(msgs[i].replay) : accounts[a].name = i
  /\ \A a \in DOMAIN accounts :
       accounts[a].first # 0 /\ msgs[accounts[a].name].at = "answer" =>
         msgs[accounts[a].name].replay = accounts[a].first

\* What was recorded of message k: nothing before it is handled or while it is kept, and once
\* as long as one account at most was opened with it.
RecordedOK(k) ==
  /\ k \notin DOMAIN msgs => recorded[k] = 0
  /\ k \in DOMAIN msgs /\ msgs[k].at # "done" => recorded[k] = 0
  /\ Opened(k) = {} => recorded[k] <= 1
  /\ Opened(k) = {} /\ Kept(k) => recorded[k] = 0
  /\ \A a \in Opened(k) :
       Opened(k) = {a} => recorded[k] <= 1 /\ (msgs[accounts[a].name].at # "done" => recorded[k] = 0)
RecordsOK == \A k \in 1 .. MaxMessages : RecordedOK(k)

\* The sale an account was opened with is recorded, or its opener still has to, or is lost.
SalesOK ==
  \A a \in DOMAIN accounts :
    LET r == accounts[a]
    IN  r.first # 0 => recorded[r.first] >= 1 \/ msgs[r.name].at \in {"answer", "lost"}

\* The account that a sign-up opens.
LEMMA OpeningOpens ==
  ASSUME TInv, NEW i \in DOMAIN msgs, CreateAccount(i)
  PROVE  \E a : /\ a \notin DOMAIN accounts /\ DOMAIN accounts' = DOMAIN accounts \cup {a}
                /\ accounts'[a] = NewAccount(i)
<1>1. accounts' = Append(accounts, NewAccount(i)) /\ accounts \in Seq(Account)
  BY DEF CreateAccount, NewAccount, TInv, TypeOK
<1> PICK r : r = NewAccount(i)
  OBVIOUS
<1>2. NewAccount(i) \in Account
  <2>1. msgs[i] \in Message /\ i \in Ids
    BY MessagesAre DEF TInv, TypeOK
  <2>2. msgs[i].from \in Numbers /\ msgs[i].row \in SignUp
    BY <2>1 DEF Message
  <2> QED BY <2>1, <2>2 DEF SignUp, NewAccount, Account
<1> PICK k : k = Len(accounts) + 1
  OBVIOUS
<1>3. accounts' = Append(accounts, r) /\ r \in Account
  BY <1>1, <1>2
<1>4. DOMAIN accounts' = DOMAIN accounts \cup {k} /\ accounts'[k] = r /\ k \notin DOMAIN accounts
  BY <1>1, <1>3
<1> QED BY <1>4

\* A turn ends by being answered, or with its process.
LEMMA AnsweringEnds ==
  ASSUME TInv, [Next]_vars, NEW i \in DOMAIN msgs, msgs[i].at = "answer", msgs'[i].at = "done"
  PROVE  Answer(i)
<1>1. TypeOK /\ msgs \in Seq(Message)
  BY DEF TInv, TypeOK
<1>2. ASSUME NEW j, NEW m, MsgMove(j, m) PROVE i = j
  BY <1>1, <1>2, MoveChanges
<1>3. ASSUME NEW j \in DOMAIN msgs, NEW kind \in Kinds, NEW c \in {0} \cup DOMAIN challenges, Begin(j, kind, c)
      PROVE  FALSE
  BY <1>1, <1>2, <1>3, BeginMoves DEF Begin
<1>4. ASSUME NEW j \in DOMAIN msgs, Finishing(j) PROVE Answer(i)
  <2>1. i = j
    BY <1>1, <1>2, <1>4, FinishingMoves
  <2> QED BY <1>4, <2>1 DEF Finishing, Welcome, Reprompt, CancelSignUp, BusinessName, CreateAccount,
              AlreadyRegistered, CompleteLogin, CompleteLink, Answers, Reading
<1>5. ASSUME NEW n \in Numbers, NEW q \in Procs, Receive(n, q) PROVE FALSE
  BY <1>1, <1>5, ReceiveAppends
<1>6. ASSUME NEW q \in Procs, Crash(q) PROVE FALSE
  <2>1. msgs'[i] = msgs[i] \/ msgs'[i] = Unread(msgs[i].from, msgs[i].proc, "lost")
    BY <1>1, <1>6, CrashLoses
  <2> QED BY <2>1 DEF Unread
<1> QED BY <1>3, <1>4, <1>5, <1>6, StepKinds, ElsewhereKeeps DEF vars

\* What an answer records.
LEMMA AnswerRecords ==
  ASSUME TInv, RepliesOK, NEW i \in DOMAIN msgs, Answer(i)
  PROVE  LET j == msgs[i].replay
         IN  /\ j \in 1 .. MaxMessages /\ msgs[i].at = "answer" /\ msgs'[i].at = "done"
             /\ recorded'[j] = recorded[j] + 1 /\ recorded[j] \in Nat
             /\ \A k \in 1 .. MaxMessages : k # j => recorded'[k] = recorded[k]
             /\ UNCHANGED <<signups, accounts>>
<1>1. TypeOK /\ msgs[i] \in Message /\ recorded \in [1 .. MaxMessages -> Nat] /\ i # 0
  BY DEF TInv, TypeOK
<1> PICK j : j = msgs[i].replay
  OBVIOUS
<1>2. j \in 1 .. MaxMessages
  <2>1. j \in Ids /\ j # 0
    BY <1>1 DEF RepliesOK, Message, Answer
  <2> QED BY <2>1, BoundsAreNatural DEF Ids
<1>3. recorded' = [recorded EXCEPT ![j] = recorded[j] + 1] /\ To(i, "done") /\ msgs[i].at = "answer"
  BY DEF Answer
<1>4. msgs'[i].at = "done"
  BY <1>1, <1>3, ToHandles
<1> QED BY <1>1, <1>2, <1>3, <1>4 DEF Answer

\* Turns keep to what they record.
LEMMA StepKeepsReplies ==
  ASSUME TInv, AccountsOK, RepliesOK, [Next]_vars
  PROVE  RepliesOK'
<1>1. MessagesStep /\ AccountsStep /\ TypeOK
  BY MessagesStepOn, AccountsStepOn DEF TInv
<1>2. ASSUME NEW i \in DOMAIN msgs', msgs'[i].at = "answer", msgs'[i].replay # i
      PROVE  msgs'[i].replay # 0 /\ \E a \in Opened(msgs[i].replay)' : accounts'[a].name = i
  <2>1. i \in DOMAIN msgs /\ (msgs'[i] = msgs[i] \/ Replays(i))
    BY <1>1, <1>2 DEF MessagesStep, Ends, Begins
  <2>2. CASE msgs'[i] = msgs[i]
    <3> PICK k : k = msgs[i].replay
      OBVIOUS
    <3>1. k # 0 /\ \E a \in Opened(k) : accounts[a].name = i
      BY <1>2, <2>1, <2>2 DEF RepliesOK
    <3>2. \E a \in Opened(k)' : accounts'[a].name = i
      BY <1>1, <3>1 DEF Opened, AccountsStep
    <3> QED BY <2>2, <3>1, <3>2
  <2>3. CASE Replays(i)
    <3> PICK k : k = msgs'[i].replay
      OBVIOUS
    <3>1. CreateAccount(i) /\ k = msgs[i].row.first /\ k # 0
      BY <2>3 DEF Replays
    <3>2. PICK a \in DOMAIN accounts' : accounts'[a] = NewAccount(i)
      BY <2>1, <3>1, OpeningOpens
    <3>3. a \in Opened(k)' /\ accounts'[a].name = i
      BY <3>1, <3>2 DEF NewAccount, Opened
    <3> QED BY <3>1, <3>3
  <2> QED BY <2>1, <2>2, <2>3
<1>3. ASSUME NEW a \in DOMAIN accounts', accounts'[a].first # 0, msgs'[accounts'[a].name].at = "answer"
      PROVE  msgs'[accounts'[a].name].replay = accounts'[a].first
  <2>1. CASE a \in DOMAIN accounts
    <3> PICK i : i = accounts[a].name
      OBVIOUS
    <3>1. accounts'[a].name = i /\ accounts'[a].first = accounts[a].first
      BY <1>1, <2>1 DEF AccountsStep
    <3>2. i \in DOMAIN msgs /\ msgs[i].at \in {"answer", "done", "lost"}
      BY <1>3, <2>1, <3>1 DEF AccountsOK, AccountOK, Opener
    <3>3. msgs'[i] = msgs[i]
      BY <1>1, <1>3, <3>1, <3>2, HandledStays DEF Over
    <3> QED BY <1>3, <2>1, <3>1, <3>3 DEF RepliesOK
  <2>2. CASE a \notin DOMAIN accounts
    <3> PICK i \in DOMAIN msgs : CreateAccount(i) /\ accounts'[a] = NewAccount(i)
      BY <1>1, <2>2 DEF AccountsStep
    <3>1. accounts'[a].name = i /\ accounts'[a].first = msgs[i].row.first
      BY DEF NewAccount
    <3> QED BY <1>1, <1>3, <3>1, OpeningMoves
  <2> QED BY <2>1, <2>2
<1> QED BY <1>2, <1>3 DEF RepliesOK

\* Who has a sale in hand had it before, or brings it.
LEMMA KeptWas ==
  ASSUME TInv, [Next]_vars, NEW k \in 1 .. MaxMessages, Kept(k)'
  PROVE  Kept(k) \/ (k \in DOMAIN msgs /\ msgs[k].at = "signup")
<1>1. MessagesStep /\ TypeOK /\ k # 0
  BY MessagesStepOn DEF TInv
<1>2. ASSUME NEW n \in Numbers, signups'[n].first = k
      PROVE  Kept(k) \/ (k \in DOMAIN msgs /\ msgs[k].at = "signup")
  <2> PICK old : old = signups[n]
    OBVIOUS
  <2> PICK new : new = signups'[n] /\ new.first = k
    BY <1>2
  <2>1. new # NoSignUp
    BY <1>1 DEF NoSignUp
  <2>2. CASE new.first = old.first
    BY <2>2 DEF Kept
  <2>3. CASE \E i \in DOMAIN msgs : Welcome(i) /\ new.first \in {0, i}
    BY <1>1, <2>3 DEF Welcome
  <2> QED BY <2>1, <2>2, <2>3, SignUpsStepOn DEF SignUpStep
<1>3. ASSUME NEW i \in DOMAIN msgs', msgs'[i].row.first = k PROVE Kept(k)
  <2>1. msgs'[i].row # NoSignUp
    BY <1>1, <1>3 DEF NoSignUp
  <2>2. i \in DOMAIN msgs /\ (msgs'[i] = msgs[i] \/ Begins(i))
    BY <1>1, <2>1 DEF MessagesStep, Ends, Replays
  <2>3. msgs[i].from \in Numbers
    <3>1. msgs[i] \in Message
      BY <1>1, <2>2 DEF TypeOK
    <3> QED BY <3>1 DEF Message
  <2> QED BY <1>3, <2>2, <2>3 DEF Begins, Kept
<1> QED BY <1>2, <1>3 DEF Kept

\* A message that a step does not record.
LEMMA UnrecordedStays ==
  ASSUME TInv, AccountsOK, RecordsOK, [Next]_vars, NEW k \in 1 .. MaxMessages, recorded'[k] = recorded[k]
  PROVE  RecordedOK(k)'
<1>1. MessagesStep /\ AccountsStep /\ TypeOK /\ RecordedOK(k) /\ k # 0
  BY MessagesStepOn, AccountsStepOn DEF TInv, RecordsOK
<1>2. k \notin DOMAIN msgs' => recorded'[k] = 0
  BY <1>1 DEF MessagesStep, RecordedOK
<1>3. k \in DOMAIN msgs' /\ msgs'[k].at # "done" => recorded'[k] = 0
  BY <1>1, HandledStays DEF RecordedOK, Over
<1>4. Opened(k) \subseteq Opened(k)' /\ \A a \in Opened(k)' : a \in DOMAIN accounts => a \in Opened(k)
  BY <1>1 DEF Opened, AccountsStep
<1>5. Opened(k)' = {} => recorded'[k] <= 1
  BY <1>1, <1>4 DEF RecordedOK
<1>6. Opened(k)' = {} /\ Kept(k)' => recorded'[k] = 0
  BY <1>1, <1>4, KeptWas DEF RecordedOK
<1>7. ASSUME NEW a \in Opened(k)', Opened(k)' = {a}
      PROVE  recorded'[k] <= 1 /\ (msgs'[accounts'[a].name].at # "done" => recorded'[k] = 0)
  <2>1. CASE a \in DOMAIN accounts
    <3>1. a \in Opened(k) /\ Opened(k) = {a}
      BY <1>4, <1>7, <2>1
    <3> PICK i : i = accounts[a].name
      OBVIOUS
    <3>2. accounts'[a].name = i /\ accounts[a].first = k
      BY <1>1, <2>1, <3>1 DEF AccountsStep, Opened
    <3>3. i \in DOMAIN msgs
      BY <1>1, <2>1, <3>2 DEF AccountsOK, AccountOK, Opener
    <3>4. msgs'[i].at # "done" => msgs[i].at # "done"
      BY <1>1, <3>3, HandledStays DEF Over
    <3> QED BY <1>1, <3>1, <3>2, <3>4 DEF RecordedOK
  <2>2. CASE a \notin DOMAIN accounts
    <3>1. Opened(k) = {}
      BY <1>4, <1>7, <2>2 DEF Opened
    <3>2. PICK i \in DOMAIN msgs : CreateAccount(i) /\ accounts'[a] = NewAccount(i)
      BY <1>1, <1>7, <2>2 DEF AccountsStep, Opened
    <3>3. msgs[i].row.first = k
      BY <1>7, <3>2 DEF NewAccount, Opened
    <3>4. recorded[k] = 0
      BY <1>1, <3>1, <3>3 DEF RecordedOK, Kept
    <3> QED BY <3>4
  <2> QED BY <2>1, <2>2
<1> QED BY <1>2, <1>3, <1>5, <1>6, <1>7 DEF RecordedOK

\* The message that a step records.
LEMMA RecordedStays ==
  ASSUME TInv, RowsOK, AccountsOK, RepliesOK, RecordsOK, [Next]_vars,
         NEW i \in DOMAIN msgs, Answer(i), NEW j, j = msgs[i].replay
  PROVE  RecordedOK(j)'
<1>1. MessagesStep /\ TypeOK /\ RecordedOK(j) /\ j \in 1 .. MaxMessages
      /\ msgs[i].at = "answer" /\ msgs'[i].at = "done" /\ recorded'[j] = recorded[j] + 1
      /\ UNCHANGED <<signups, accounts>>
  BY MessagesStepOn, AnswerRecords DEF TInv, RecordsOK
<1>2. Opened(j)' = Opened(j)
  BY <1>1 DEF Opened
<1>3. CASE j = i
  <2>1. recorded'[j] = 1 /\ j \in DOMAIN msgs' /\ msgs'[j].at = "done" /\ j # 0
    BY <1>1, <1>3 DEF RecordedOK, MessagesStep
  <2>2. \A n : ~Handled(n, j)
    BY <1>1, <1>3 DEF Handled
  <2>3. ~Kept(j)
    BY <2>1, <2>2 DEF Kept, RowsOK, RowOK, NoSignUp
  <2>4. Opened(j) = {}
    BY <2>1, <2>2 DEF Opened, AccountsOK, AccountOK
  <2>5. ~Kept(j)'
    BY <1>1, <1>3, <2>3, KeptWas
  <2> QED BY <1>2, <2>1, <2>4, <2>5 DEF RecordedOK
<1>4. CASE j # i
  <2>1. PICK a \in Opened(j) : accounts[a].name = i
    BY <1>1, <1>4 DEF RepliesOK
  <2>2. PICK n \in Numbers : Handled(n, j)
    BY <1>1, <2>1 DEF Opened, AccountsOK, AccountOK
  <2>3. Handled(n, j)'
    BY <1>1, <2>2, RowStays
  <2>4. ASSUME NEW b \in Opened(j)', Opened(j)' = {b}
        PROVE  recorded'[j] <= 1 /\ msgs'[accounts'[b].name].at = "done"
    <3>1. b = a /\ Opened(j) = {a}
      BY <1>2, <2>1, <2>4
    <3>2. recorded[j] = 0
      BY <1>1, <2>1, <3>1 DEF RecordedOK
    <3> QED BY <1>1, <2>1, <3>1, <3>2
  <2> QED BY <1>2, <2>1, <2>3, <2>4 DEF RecordedOK, Handled
<1> QED BY <1>3, <1>4

\* What was recorded stays in order.
LEMMA StepKeepsRecords ==
  ASSUME TInv, RowsOK, AccountsOK, RepliesOK, RecordsOK, [Next]_vars
  PROVE  RecordsOK'
<1> SUFFICES ASSUME NEW k \in 1 .. MaxMessages PROVE RecordedOK(k)'
  BY DEF RecordsOK
<1>1. CASE recorded'[k] = recorded[k]
  BY <1>1, UnrecordedStays
<1>2. CASE recorded'[k] # recorded[k]
  <2> PICK i \in DOMAIN msgs : Answer(i)
    BY <1>2, RecordsStep
  <2>1. k = msgs[i].replay
    BY <1>2, AnswerRecords
  <2> QED BY <2>1, RecordedStays
<1> QED BY <1>1, <1>2

\* The sale of an account is not forgotten.
LEMMA StepKeepsSales ==
  ASSUME TInv, AccountsOK, RepliesOK, SalesOK, [Next]_vars
  PROVE  SalesOK'
<1>1. MessagesStep /\ AccountsStep /\ TypeOK
  BY MessagesStepOn, AccountsStepOn DEF TInv
<1> SUFFICES ASSUME NEW a \in DOMAIN accounts', accounts'[a].first # 0
             PROVE  recorded'[accounts'[a].first] >= 1 \/ msgs'[accounts'[a].name].at \in {"answer", "lost"}
  BY DEF SalesOK
<1>2. CASE a \in DOMAIN accounts
  <2> PICK i : i = accounts[a].name
    OBVIOUS
  <2> PICK k : k = accounts[a].first
    OBVIOUS
  <2>1. accounts'[a].name = i /\ accounts'[a].first = k /\ k # 0
    BY <1>1, <1>2 DEF AccountsStep
  <2>2. i \in DOMAIN msgs /\ msgs[i].at \in {"answer", "done", "lost"}
    BY <1>2, <2>1 DEF AccountsOK, AccountOK, Opener
  <2>3. k \in 1 .. MaxMessages
    <3>1. k \in DOMAIN msgs
      BY <1>2, <2>1 DEF AccountsOK, AccountOK, Handled
    <3> QED BY <1>1, <3>1, MessagesAre DEF TypeOK
  <2>4. CASE recorded[k] >= 1
    <3>1. recorded'[k] = recorded[k] \/ recorded'[k] = recorded[k] + 1
      BY <2>3, RecordsStep, AnswerRecords
    <3>2. recorded[k] \in Nat
      BY <1>1, <2>3 DEF TypeOK
    <3> QED BY <2>1, <2>4, <3>1, <3>2
  <2>5. CASE msgs[i].at = "answer" /\ msgs'[i].at = "done"
    <3>1. Answer(i) /\ msgs[i].replay = k
      BY <1>2, <2>1, <2>2, <2>5, AnsweringEnds DEF RepliesOK
    <3> QED BY <2>1, <2>2, <3>1, AnswerRecords
  <2>6. CASE msgs[i].at \in {"answer", "lost"} /\ msgs'[i].at # "done"
    BY <1>1, <2>1, <2>2, <2>6, HandledStays DEF Over
  <2>7. recorded[k] >= 1 \/ msgs[i].at \in {"answer", "lost"}
    BY <1>2, <2>1 DEF SalesOK
  <2> QED BY <1>1, <2>2, <2>4, <2>5, <2>6, <2>7, HandledStays DEF Over
<1>3. CASE a \notin DOMAIN accounts
  <2>1. PICK i \in DOMAIN msgs : CreateAccount(i) /\ accounts'[a] = NewAccount(i)
    BY <1>1, <1>3 DEF AccountsStep
  <2>2. accounts'[a].name = i /\ accounts'[a].first = msgs[i].row.first
    BY <2>1 DEF NewAccount
  <2> QED BY <1>1, <2>1, <2>2, OpeningMoves
<1> QED BY <1>2, <1>3

\* The inductive invariant of first sales.
SInv == TInv /\ NumberHasOneAccount /\ RowsOK /\ AccountsOK /\ RepliesOK /\ RecordsOK /\ SalesOK

\* Nobody has written yet.
LEMMA InitHasSales == Init => RowsOK /\ AccountsOK /\ RepliesOK /\ RecordsOK /\ SalesOK
<1> SUFFICES ASSUME Init PROVE RowsOK /\ AccountsOK /\ RepliesOK /\ RecordsOK /\ SalesOK
  OBVIOUS
<1>1. DOMAIN msgs = {} /\ DOMAIN accounts = {1} /\ accounts[1].name = 0 /\ accounts[1].first = 0
  BY DEF Init, WebAccount
<1>2. \A n \in Numbers : signups[n] = NoSignUp
  BY DEF Init
<1>3. RowsOK /\ AccountsOK /\ RepliesOK /\ SalesOK
  BY <1>1, <1>2 DEF RowsOK, RowOK, AccountsOK, AccountOK, RepliesOK, SalesOK, NoSignUp
<1>4. \A k \in 1 .. MaxMessages : recorded[k] = 0
  BY DEF Init
<1>5. \A k \in 1 .. MaxMessages : Opened(k) = {}
  BY <1>1 DEF Opened
<1> QED BY <1>1, <1>3, <1>4, <1>5 DEF RecordsOK, RecordedOK

\* The invariant says that a sale is recorded once.
LEMMA SalesAreOnce ==
  ASSUME SInv
  PROVE  FirstSaleOnce
<1> SUFFICES ASSUME NEW i \in DOMAIN msgs,
                    \A a \in DOMAIN accounts : accounts[a].first = i => accounts[a].number = msgs[i].from
             PROVE  recorded[i] <= 1
  BY DEF FirstSaleOnce, SInv, SalesOK
<1>1. msgs[i].from # NoNumber /\ i \in 1 .. MaxMessages
  <2>1. msgs[i] \in Message /\ msgs \in Seq(Message) /\ Len(msgs) <= MaxMessages
    BY DEF SInv, TInv, TypeOK
  <2> QED BY <2>1, NotANumber, BoundsAreNatural DEF Message
<1>2. RecordedOK(i)
  BY <1>1 DEF SInv, RecordsOK
<1>3. \A a, b \in Opened(i) : a = b
  BY <1>1 DEF SInv, NumberHasOneAccount, Opened
<1>4. Opened(i) = {} \/ \E a \in Opened(i) : Opened(i) = {a}
  BY <1>3
<1> QED BY <1>2, <1>4 DEF RecordedOK

\* A sale that was somebody's first message is recorded once their account exists, and a message
\* is never recorded twice as long as the account it opened keeps its number.
THEOREM FirstSalesRecordedOnce == Spec => []FirstSaleOnce
<1>1. Init => SInv
  <2>1. Init => TInv
    BY InitTyped DEF Init, TInv, PollsOK
  <2>2. Init => NumberHasOneAccount
    BY DEF Init, NumberHasOneAccount
  <2> QED BY <2>1, <2>2, InitHasSales DEF SInv
<1>2. SInv /\ [Next]_vars => SInv'
  BY StepKeepsTypes, StepKeepsNumbers, StepKeepsRows, StepKeepsAccounts, StepKeepsReplies,
     StepKeepsRecords, StepKeepsSales DEF SInv
<1>3. SInv => FirstSaleOnce
  BY SalesAreOnce
<1> QED BY <1>1, <1>2, <1>3, PTL DEF Spec

-----------------------------------------------------------------------------
(* The order of a burst.  While one process has a number's messages, its   *)
(* lock lets one begin when those before it are over, so that a row names  *)
(* messages earlier than the one that has read it.                         *)

\* The messages of a number at one process are handled one after the other.
SerialOK ==
  \A i, j \in DOMAIN msgs :
    /\ i < j /\ msgs[i].from = msgs[j].from /\ msgs[i].from \notin mixed
    /\ msgs[j].at \notin {"queued", "lost"}
    => Over(i)

\* A row names the business by a later message than its greeting.
InOrder(n, row) == row.step = "name" /\ n \notin mixed => row.born < row.biz

\* A task has read a row that earlier messages wrote.
InHandOK(i) ==
  LET m == msgs[i]
  IN  m.from \notin mixed =>
        (m.row.step # "none" => m.row.born < i) /\ (m.row.step = "name" => m.row.biz < i)

OrderOK ==
  /\ SerialOK
  /\ \A n \in Numbers : InOrder(n, signups[n])
  /\ \A i \in DOMAIN msgs : InOrder(msgs[i].from, msgs[i].row) /\ InHandOK(i)

\* Only a task that begins adds to the numbers at two processes, and then its own.
LEMMA MixedStep ==
  ASSUME [Next]_vars
  PROVE  mixed \subseteq mixed'
<1>1. ASSUME NEW i \in DOMAIN msgs, Finishing(i) PROVE UNCHANGED mixed
  BY <1>1 DEF Finishing, Answer, Welcome, Reprompt, CancelSignUp, BusinessName, CreateAccount,
              AlreadyRegistered, CompleteLogin, CompleteLink
<1>2. ASSUME NEW i \in DOMAIN msgs, NEW kind \in Kinds, NEW c \in {0} \cup DOMAIN challenges, Begin(i, kind, c)
      PROVE  mixed \subseteq mixed'
  BY <1>2 DEF Begin
<1>3. ASSUME NEW k \in Numbers, NEW q \in Procs, Receive(k, q) PROVE UNCHANGED mixed
  BY <1>3 DEF Receive
<1>4. ASSUME NEW q \in Procs, Crash(q) PROVE UNCHANGED mixed
  BY <1>4 DEF Crash
<1> QED BY <1>1, <1>2, <1>3, <1>4, StepKinds, ElsewhereKeeps DEF vars

\* A message begins when the earlier ones of its number are over.
LEMMA StepKeepsSerial ==
  ASSUME TInv, SerialOK, [Next]_vars
  PROVE  SerialOK'
<1>1. MessagesStep /\ TypeOK /\ mixed \subseteq mixed'
  BY MessagesStepOn, MixedStep DEF TInv
<1> SUFFICES ASSUME NEW i \in DOMAIN msgs', NEW j \in DOMAIN msgs', i < j,
                    msgs'[i].from = msgs'[j].from, msgs'[i].from \notin mixed',
                    msgs'[j].at \notin {"queued", "lost"}
             PROVE  Over(i)'
  BY DEF SerialOK
<1>2. i \in DOMAIN msgs /\ j \in DOMAIN msgs
  <2>1. j \in DOMAIN msgs
    BY <1>1 DEF MessagesStep
  <2>2. DOMAIN msgs = 1 .. Len(msgs) /\ Len(msgs) \in Nat
    BY <1>1 DEF TypeOK
  <2> QED BY <1>1, <2>1, <2>2 DEF MessagesStep
<1> PICK n : n = msgs[i].from
  OBVIOUS
<1>3. msgs[j].from = n /\ n \notin mixed' /\ n \notin mixed
  BY <1>1, <1>2 DEF MessagesStep
<1>4. Over(i) => Over(i)'
  BY <1>1, <1>2, HandledStays DEF Over
<1>5. CASE msgs[j].at \notin {"queued", "lost"}
  BY <1>2, <1>3, <1>4, <1>5 DEF SerialOK
<1>6. CASE msgs[j].at = "queued"
  <2> PICK kind \in Kinds, c \in {0} \cup DOMAIN challenges : Begin(j, kind, c)
    BY <1>1, <1>2, <1>6 DEF MessagesStep
  <2>1. CASE msgs[i].proc = msgs[j].proc
    <3>1. First(j)
      BY DEF Begin
    <3>2. i \in 1 .. j - 1
      BY <1>1, <1>2 DEF TypeOK
    <3> QED BY <1>3, <1>4, <2>1, <3>1, <3>2 DEF First
  <2>2. CASE msgs[i].proc # msgs[j].proc
    <3>1. mixed' = IF \E k \in DOMAIN msgs : msgs[k].from = n /\ msgs[k].proc # msgs[j].proc /\ ~Over(k)
                     THEN mixed \cup {n} ELSE mixed
      BY <1>3 DEF Begin
    <3> QED BY <1>2, <1>3, <1>4, <2>2, <3>1
  <2> QED BY <2>1, <2>2
<1>7. CASE msgs[j].at = "lost"
  BY <1>1, <1>2, <1>7, HandledStays DEF Over
<1> QED BY <1>5, <1>6, <1>7

\* Rows keep their order.
LEMMA StepKeepsOrder ==
  ASSUME TInv, RowsOK, OrderOK, [Next]_vars
  PROVE  OrderOK'
<1>1. MessagesStep /\ TypeOK /\ mixed \subseteq mixed' /\ DOMAIN msgs = 1 .. Len(msgs) /\ Len(msgs) \in Nat
  BY MessagesStepOn, MixedStep DEF TInv, TypeOK
<1>2. SerialOK'
  BY StepKeepsSerial DEF OrderOK
<1>3. ASSUME NEW n \in Numbers PROVE InOrder(n, signups[n])'
  <2> PICK old : old = signups[n]
    OBVIOUS
  <2> PICK new : new = signups'[n]
    OBVIOUS
  <2>1. InOrder(n, old)
    BY DEF OrderOK
  <2> SUFFICES InOrder(n, new)'
    OBVIOUS
  <2>2. CASE new = old \/ (new.step = old.step /\ new.born = old.born /\ new.biz = old.biz)
    BY <1>1, <2>1, <2>2 DEF InOrder
  <2>3. CASE new = NoSignUp
    BY <2>3 DEF InOrder, NoSignUp
  <2>4. ASSUME NEW i \in DOMAIN msgs, msgs[i].from = n, BusinessName(i), SameRow(i),
               new.biz = i, new.born = old.born
        PROVE  InOrder(n, new)'
    <3>1. msgs[i].row.step = "business_name" /\ old.born = msgs[i].row.born
      BY <2>4 DEF BusinessName, SameRow
    <3>2. n \notin mixed => msgs[i].row.born < i
      BY <2>4, <3>1 DEF OrderOK, InHandOK
    <3> QED BY <1>1, <2>4, <3>1, <3>2 DEF InOrder
  <2>5. CASE new.step = "business_name"
    BY <2>5 DEF InOrder
  <2> QED BY <2>2, <2>3, <2>4, <2>5, SignUpsStepOn DEF SignUpStep
<1>4. ASSUME NEW i \in DOMAIN msgs' PROVE (InOrder(msgs[i].from, msgs[i].row) /\ InHandOK(i))'
  <2>1. CASE msgs'[i].row = NoSignUp
    BY <2>1 DEF InOrder, InHandOK, NoSignUp
  <2>2. CASE i \in DOMAIN msgs /\ msgs'[i] = msgs[i]
    <3>1. InOrder(msgs[i].from, msgs[i].row) /\ InHandOK(i)
      BY <2>2 DEF OrderOK
    <3> QED BY <1>1, <2>2, <3>1 DEF InOrder, InHandOK
  <2>3. CASE i \in DOMAIN msgs /\ Begins(i)
    <3> PICK n : n = msgs[i].from
      OBVIOUS
    <3> PICK row : row = signups[n]
      OBVIOUS
    <3>1. msgs'[i].from = n /\ msgs'[i].row = row /\ n \in Numbers /\ msgs[i].at = "queued"
      <4>1. msgs[i] \in Message
        BY <1>1, <2>3 DEF TypeOK
      <4> QED BY <1>1, <2>3, <4>1 DEF MessagesStep, Begins, Message
    <3>2. InOrder(n, row) /\ RowOK(n, row)
      BY <3>1 DEF OrderOK, RowsOK
    <3>3. ASSUME NEW k, Handled(n, k), n \notin mixed PROVE k < i
      <4>1. k \in DOMAIN msgs /\ msgs[k].from = n /\ msgs[k].at = "done" /\ ~Over(i) /\ k # i
        BY <3>1, <3>3 DEF Handled, Over
      <4>2. ~(i < k)
        BY <2>3, <3>3, <4>1 DEF OrderOK, SerialOK
      <4> QED BY <1>1, <2>3, <4>1, <4>2
    <3>4. n \notin mixed => (row.step # "none" => row.born < i) /\ (row.step = "name" => row.biz < i)
      BY <3>2, <3>3 DEF RowOK
    <3> QED BY <1>1, <3>1, <3>2, <3>4 DEF InOrder, InHandOK
  <2> QED BY <1>1, <2>1, <2>2, <2>3 DEF MessagesStep, Ends, Replays
<1> QED BY <1>2, <1>3, <1>4 DEF OrderOK

\* Accounts are opened from rows that are in order.
LEMMA StepKeepsAnswers ==
  ASSUME TInv, AccountsOK, OrderOK, AnswersInOrder, [Next]_vars
  PROVE  AnswersInOrder'
<1>1. MessagesStep /\ AccountsStep /\ mixed \subseteq mixed'
  BY MessagesStepOn, AccountsStepOn, MixedStep
<1> SUFFICES ASSUME NEW a \in DOMAIN accounts', accounts'[a].name # 0, msgs'[accounts'[a].name].from \notin mixed'
             PROVE  accounts'[a].born < accounts'[a].biz /\ accounts'[a].biz < accounts'[a].name
  BY DEF AnswersInOrder
<1>2. CASE a \in DOMAIN accounts
  <2>1. /\ accounts'[a].born = accounts[a].born /\ accounts'[a].biz = accounts[a].biz
        /\ accounts'[a].name = accounts[a].name
    BY <1>1, <1>2 DEF AccountsStep
  <2>2. accounts[a].name \in DOMAIN msgs
    BY <1>2, <2>1 DEF AccountsOK, AccountOK, Opener
  <2>3. msgs[accounts[a].name].from \notin mixed
    BY <1>1, <2>1, <2>2 DEF MessagesStep
  <2> QED BY <1>2, <2>1, <2>3 DEF AnswersInOrder
<1>3. CASE a \notin DOMAIN accounts
  <2>1. PICK i \in DOMAIN msgs : CreateAccount(i) /\ accounts'[a] = NewAccount(i)
    BY <1>1, <1>3 DEF AccountsStep
  <2>2. accounts'[a].name = i /\ accounts'[a].born = msgs[i].row.born /\ accounts'[a].biz = msgs[i].row.biz
    BY <2>1 DEF NewAccount
  <2>3. msgs[i].row.step = "name" /\ msgs[i].from \notin mixed
    BY <1>1, <2>1, <2>2 DEF CreateAccount, MessagesStep
  <2> QED BY <2>2, <2>3 DEF OrderOK, InOrder, InHandOK
<1> QED BY <1>2, <1>3

\* A burst ("hi", "Ada Provisions", "Ada") does not race through sign-up: the business is named
\* by an earlier message than the trader, and neither by the greeting, while one process has the
\* number's messages.
THEOREM AnswersKeepOrder == Spec => []AnswersInOrder
<1> DEFINE OInv == TInv /\ RowsOK /\ AccountsOK /\ OrderOK /\ AnswersInOrder
<1>1. Init => OInv
  <2>1. Init => TInv
    BY InitTyped DEF Init, TInv, PollsOK
  <2>2. Init => SerialOK /\ \A i \in DOMAIN msgs : FALSE
    BY DEF Init, SerialOK
  <2>3. Init => \A n \in Numbers : InOrder(n, signups[n])
    BY DEF Init, InOrder, NoSignUp
  <2>4. Init => AnswersInOrder
    BY DEF Init, AnswersInOrder, WebAccount
  <2> QED BY <2>1, <2>2, <2>3, <2>4, InitHasSales DEF OrderOK
<1>2. OInv /\ [Next]_vars => OInv'
  BY StepKeepsTypes, StepKeepsRows, StepKeepsAccounts, StepKeepsOrder, StepKeepsAnswers
<1>3. OInv => AnswersInOrder
  OBVIOUS
<1> QED BY <1>1, <1>2, <1>3, PTL DEF Spec
=============================================================================
