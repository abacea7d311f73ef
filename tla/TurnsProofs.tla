---------------------------- MODULE TurnsProofs ----------------------------
(***************************************************************************)
(* Turns exclude each other and leave nothing behind, a redelivered        *)
(* WhatsApp message is recorded once and the breaker opens on outages      *)
(* only: for any traders, processes, messages, pool size and bounds.       *)
(***************************************************************************)
EXTENDS Turns, TLAPS, FiniteSetTheorems

Members(s) == {s[i] : i \in 1 .. Len(s)}
Distinct(s) == \A i, j \in 1 .. Len(s) : s[i] = s[j] => i = j

\* Where a request is in the queue of its user's turn, and where it has the lock's connection.
Queueing == {"turn", "advisory", "call", "called", "save"}
Locked == {"advisory", "call", "called", "save"}
Turning == {"call", "called", "save"}

(***************************************************************************)
(* The inductive invariant, in three parts.                                *)
(***************************************************************************)
Delivered(m) == {r \in 1 .. Len(req) : req[r].msg = m}

\* A WhatsApp message that was delivered is in the inbox, and was delivered once; who
\* recorded a message is a delivery of it.
DeliveriesOK ==
  /\ \A r \in 1 .. Len(req) : ~ OnWeb(r) => req[r].msg \in inbox
  /\ \A r, s \in 1 .. Len(req) : ~ OnWeb(r) /\ req[r].msg = req[s].msg => r = s
  /\ \A m \in Messages : writers[m] \subseteq Delivered(m)

\* The breaker counts no more failures than there were in a row.
BreakerOK ==
  \A p \in Procs :
    /\ breaker[p].failures <= streak[p]
    /\ breaker[p].opened # "no" => streak[p] >= FailMax

\* The queue of p and u holds requests of that process and that trader, each once.
QueueOK(s, p, u) ==
  /\ Distinct(s)
  /\ \A r \in Members(s) : r \in 1 .. Len(req) /\ Proc(r) = p /\ User(r) = u

QueuesOK ==
  \A p \in Procs, u \in Users :
    /\ QueueOK(turnQ[p][u], p, u)
    /\ \A r \in Members(turnQ[p][u]) : req[r].at \in Queueing
    /\ QueueOK(senderQ[p][u], p, u)
    /\ \A r \in Members(senderQ[p][u]) : req[r].at # "done" /\ ~ OnWeb(r)

\* The lock's connection is held exactly from its opening to the end of the turn, by the head of
\* the queue; the advisory lock exactly from then on that the history was read.
LocksOK ==
  /\ \A r \in 1 .. Len(req) :
       /\ req[r].lock <=> req[r].at \in Locked
       /\ req[r].lock => Holds(turnQ, r)
       /\ req[r].at \in Turning => advisory[User(r)] = r /\ req[r].seen = saved[User(r)]
  /\ \A u \in Users : advisory[u] # NoReq =>
       advisory[u] \in 1 .. Len(req) /\ req[advisory[u]].at \in Turning /\ User(advisory[u]) = u

TurnsInv ==
  /\ TypeOK /\ Len(req) <= MaxRequests
  /\ DeliveriesOK /\ BreakerOK /\ QueuesOK /\ LocksOK

-----------------------------------------------------------------------------
(* Queues. *)

\* Without takes one member out and keeps the order of the others.
LEMMA WithoutMember ==
  ASSUME NEW S, NEW s \in Seq(S), NEW r
  PROVE  /\ Without(s, r) \in Seq(S)
         /\ Distinct(s) => /\ Distinct(Without(s, r))
                           /\ Members(Without(s, r)) = Members(s) \ {r}
         /\ s # <<>> /\ Head(s) # r => Without(s, r) # <<>> /\ Head(Without(s, r)) = Head(s)
<1>1. CASE ~ \E j \in 1 .. Len(s) : s[j] = r
  <2>1. Without(s, r) = s
    BY <1>1 DEF Without
  <2>2. Members(s) \ {r} = Members(s)
    BY <1>1 DEF Members
  <2> QED  BY <2>1, <2>2
<1>2. CASE \E j \in 1 .. Len(s) : s[j] = r
  <2> DEFINE i == CHOOSE i \in 1 .. Len(s) : s[i] = r
             t == [j \in 1 .. Len(s) - 1 |-> IF j < i THEN s[j] ELSE s[j + 1]]
  <2>1. i \in 1 .. Len(s) /\ s[i] = r
    BY <1>2
  <2>2. Without(s, r) = t
    BY <1>2 DEF Without
  <2> HIDE DEF i
  <2>3. Len(s) \in Nat /\ \A j \in 1 .. Len(s) : s[j] \in S
    OBVIOUS
  <2>4. \A j \in 1 .. Len(s) - 1 : t[j] = IF j < i THEN s[j] ELSE s[j + 1]
    OBVIOUS
  <2>5. t \in Seq(S) /\ Len(t) = Len(s) - 1
    <3>1. t \in [1 .. Len(s) - 1 -> S]
      BY <2>1, <2>3
    <3>2. Len(s) - 1 \in Nat
      BY <2>1, <2>3
    <3> HIDE DEF t
    <3> QED  BY <3>1, <3>2
  <2> HIDE DEF t
  <2>6. ASSUME Distinct(s)
        PROVE  Distinct(t) /\ Members(t) = Members(s) \ {r}
    <3>1. Distinct(t)
      <4> SUFFICES ASSUME NEW j \in 1 .. Len(t), NEW k \in 1 .. Len(t), t[j] = t[k]
                   PROVE  j = k
        BY DEF Distinct
      <4> QED  BY <2>1, <2>3, <2>4, <2>5, <2>6 DEF Distinct
    <3>2. ASSUME NEW x \in Members(t)
          PROVE  x \in Members(s) \ {r}
      <4>1. PICK j \in 1 .. Len(t) : x = t[j]
        BY DEF Members
      <4>2. PICK k \in 1 .. Len(s) : k # i /\ x = s[k]
        <5>1. CASE j < i
          BY <5>1, <4>1, <2>1, <2>3, <2>4, <2>5
        <5>2. CASE ~ (j < i)
          BY <5>2, <4>1, <2>1, <2>3, <2>4, <2>5
        <5> QED  BY <5>1, <5>2
      <4> QED  BY <4>2, <2>1, <2>6 DEF Distinct, Members
    <3>3. ASSUME NEW x \in Members(s) \ {r}
          PROVE  x \in Members(t)
      <4>1. PICK k \in 1 .. Len(s) : x = s[k]
        BY DEF Members
      <4>2. CASE k < i
        <5>1. k \in 1 .. Len(t) /\ t[k] = x
          BY <4>1, <4>2, <2>1, <2>3, <2>4, <2>5
        <5> QED  BY <5>1 DEF Members
      <4>3. CASE k > i
        <5>1. k - 1 \in 1 .. Len(t) /\ t[k - 1] = s[(k - 1) + 1]
          BY <4>1, <4>3, <2>1, <2>3, <2>4, <2>5
        <5>2. t[k - 1] = x
          BY <5>1, <4>1
        <5> QED  BY <5>1, <5>2 DEF Members
      <4>4. k # i
        BY <4>1, <2>1
      <4> QED  BY <4>2, <4>3, <4>4, <2>1
    <3> QED  BY <3>1, <3>2, <3>3
  <2>7. ASSUME s # <<>>, Head(s) # r
        PROVE  t # <<>> /\ Head(t) = Head(s)
    <3>1. i # 1
      BY <2>1, <2>7
    <3>2. t[1] = s[1] /\ Len(t) # 0
      BY <3>1, <2>1, <2>3, <2>4, <2>5
    <3> QED  BY <3>2, <2>5, <2>7
  <2> QED  BY <2>2, <2>5, <2>6, <2>7
<1> QED  BY <1>1, <1>2

\* Append puts one member in, behind the others.
LEMMA AppendMember ==
  ASSUME NEW S, NEW s \in Seq(S), NEW r \in S
  PROVE  /\ Append(s, r) \in Seq(S)
         /\ Members(Append(s, r)) = Members(s) \cup {r}
         /\ Distinct(s) /\ r \notin Members(s) => Distinct(Append(s, r))
         /\ s # <<>> => Append(s, r) # <<>> /\ Head(Append(s, r)) = Head(s)
<1> DEFINE t == Append(s, r)
<1>1. t \in Seq(S) /\ Len(t) = Len(s) + 1 /\ Len(s) \in Nat /\ t[Len(s) + 1] = r
      /\ \A j \in 1 .. Len(s) : t[j] = s[j]
  OBVIOUS
<1> HIDE DEF t
<1>2. Members(t) = Members(s) \cup {r}
  <2>1. ASSUME NEW x \in Members(t)
        PROVE  x \in Members(s) \cup {r}
    <3>1. PICK j \in 1 .. Len(t) : x = t[j]
      BY DEF Members
    <3>2. j \in 1 .. Len(s) \/ j = Len(s) + 1
      BY <1>1
    <3> QED  BY <3>1, <3>2, <1>1 DEF Members
  <2>2. ASSUME NEW x \in Members(s)
        PROVE  x \in Members(t)
    <3>1. PICK j \in 1 .. Len(s) : x = s[j]
      BY DEF Members
    <3>2. j \in 1 .. Len(t) /\ t[j] = x
      BY <3>1, <1>1
    <3> QED  BY <3>2 DEF Members
  <2>3. r \in Members(t)
    <3>1. Len(s) + 1 \in 1 .. Len(t)
      BY <1>1
    <3> QED  BY <3>1, <1>1 DEF Members
  <2> QED  BY <2>1, <2>2, <2>3
<1>3. ASSUME Distinct(s), r \notin Members(s)
      PROVE  Distinct(t)
  <2> SUFFICES ASSUME NEW j \in 1 .. Len(t), NEW k \in 1 .. Len(t), t[j] = t[k]
               PROVE  j = k
    BY DEF Distinct
  <2>1. \A i \in 1 .. Len(s) : s[i] # r
    BY <1>3 DEF Members
  <2>2. j \in 1 .. Len(s) \/ j = Len(s) + 1
    BY <1>1
  <2>3. k \in 1 .. Len(s) \/ k = Len(s) + 1
    BY <1>1
  <2> QED  BY <2>1, <2>2, <2>3, <1>1, <1>3 DEF Distinct
<1>4. s # <<>> => t # <<>> /\ Head(t) = Head(s)
  BY <1>1
<1> QED  BY <1>1, <1>2, <1>3, <1>4 DEF t

-----------------------------------------------------------------------------
(* Steps of a request, by what they do to it and to the locks. *)

\* r becomes x, which is the same delivery.
Moved(r, x) ==
  /\ r \in 1 .. Len(req) /\ x \in Request
  /\ x.msg = req[r].msg /\ x.proc = req[r].proc
  /\ req' = [req EXCEPT ![r] = x]

\* It leaves its turn, or gives up waiting for it.
Leaves(r, x) ==
  /\ req[r].at \in Queueing /\ x.at \in {"send", "store", "done"} /\ ~ x.lock
  /\ x.at = "done" => OnWeb(r)
  /\ turnQ' = Left(turnQ, r)
  /\ advisory' = [advisory EXCEPT ![User(r)] = IF @ = r THEN NoReq ELSE @]
  /\ senderQ' = senderQ
  /\ \/ saved' = saved
     \/ req[r].at = "save" /\ saved' = [saved EXCEPT ![User(r)] = @ + 1]

\* It is over.
Ends(r, x) ==
  /\ req[r].at \in {"sender", "store", "send"} /\ x.at = "done" /\ ~ x.lock
  /\ senderQ' = Left(senderQ, r)
  /\ UNCHANGED <<turnQ, advisory, saved>>

\* It waits for its turn.
Enters(r, x) ==
  /\ req[r].at = "sender" /\ x.at = "turn" /\ x.lock = req[r].lock
  /\ turnQ' = Queued(turnQ, Proc(r), User(r), r)
  /\ UNCHANGED <<senderQ, advisory, saved>>

\* It opens the lock's connection.
Connects(r, x) ==
  /\ req[r].at = "turn" /\ x.at = "advisory" /\ x.lock /\ Holds(turnQ, r)
  /\ UNCHANGED <<locks, saved>>

\* It has the lock and reads the history.
Begins(r, x) ==
  /\ req[r].at = "advisory" /\ x.at = "call" /\ x.lock = req[r].lock
  /\ advisory[User(r)] = NoReq /\ x.seen = saved[User(r)]
  /\ advisory' = [advisory EXCEPT ![User(r)] = r]
  /\ UNCHANGED <<senderQ, turnQ, saved>>

\* It goes on with its turn.
Works(r, x) ==
  /\ req[r].at \in Turning /\ x.at \in Turning /\ x.seen = req[r].seen
  /\ x.lock \/ x.lock = req[r].lock
  /\ UNCHANGED <<locks, saved>>

Moves(r, x) ==
  Leaves(r, x) \/ Ends(r, x) \/ Enters(r, x) \/ Connects(r, x) \/ Begins(r, x) \/ Works(r, x)

\* A delivery arrives, and waits for its turn or its sender's lock, or is answered at once.
Arrives(x) ==
  LET r == Len(req) + 1
      q == IF Channel[x.msg] = "web" THEN turnQ ELSE senderQ
  IN  /\ r <= MaxRequests /\ x \in Request /\ req' = Append(req, x) /\ ~ x.lock
      /\ UNCHANGED <<advisory, saved>>
      /\ \/ /\ x.at = "done" /\ Channel[x.msg] = "web" /\ UNCHANGED <<turnQ, senderQ>>
         \/ /\ x.at = "turn" /\ Channel[x.msg] = "web" /\ UNCHANGED senderQ
            /\ turnQ' = Queued(turnQ, x.proc, Sender[x.msg], r)
         \/ /\ x.at = "sender" /\ Channel[x.msg] = "whatsapp" /\ UNCHANGED turnQ
            /\ senderQ' = Queued(senderQ, x.proc, Sender[x.msg], r)

Typed == TypeOK /\ Len(req) <= MaxRequests

\* A delivery has a message, a trader and a process.
LEMMA RequestFacts ==
  ASSUME Typed, NEW r \in 1 .. Len(req)
  PROVE  /\ req[r] \in Request /\ r \in Ids
         /\ req[r].msg \in Messages /\ Proc(r) \in Procs /\ User(r) \in Users
         /\ Channel[req[r].msg] \in {"web", "whatsapp"}
<1>1. req[r] \in Request
  BY DEF Typed, TypeOK
<1>2. r \in Ids
  BY BoundsAreNatural DEF Typed, TypeOK, Ids
<1> QED  BY <1>1, <1>2, MessagesHaveSenders, MessagesHaveChannels DEF Request, Proc, User

\* Finished is the same delivery, over.
LEMMA FinishedTyped ==
  ASSUME NEW x \in Request
  PROVE  /\ Finished(x) \in Request /\ Finished(x).at = "done" /\ ~ Finished(x).lock
         /\ Finished(x).msg = x.msg /\ Finished(x).proc = x.proc
<1>1. x.msg \in Messages /\ x.proc \in Procs /\ "done" \in Steps /\ FALSE \in BOOLEAN
  BY DEF Request, Steps
<1>2. LET y == New(x.msg, x.proc, "done", FALSE) IN
        y \in Request /\ y.at = "done" /\ ~ y.lock /\ y.msg = x.msg /\ y.proc = x.proc
  BY <1>1, BoundsAreNatural DEF New, Request
<1> QED  BY <1>2 DEF Finished

\* A failed turn is left, whatever step it was at.
LEMMA FailedLeaves ==
  ASSUME Typed, NEW r \in 1 .. Len(req), req[r].at \in Queueing, Failed(r),
         UNCHANGED <<senderQ, saved>>
  PROVE  \E x : Moved(r, x) /\ Leaves(r, x)
<1>1. req[r] \in Request /\ req[r].msg \in Messages /\ Proc(r) \in Procs /\ req[r].conn \in BOOLEAN
      /\ "send" \in Steps
  BY RequestFacts DEF Request, Steps
<1> DEFINE x == IF OnWeb(r) THEN Finished(req[r]) ELSE New(req[r].msg, Proc(r), "send", req[r].conn)
<1>2. x \in Request /\ x.at \in {"send", "done"} /\ ~ x.lock /\ x.msg = req[r].msg /\ x.proc = req[r].proc
      /\ (x.at = "done" => OnWeb(r))
  <2>1. CASE OnWeb(r)
    BY <2>1, <1>1, FinishedTyped
  <2>2. CASE ~ OnWeb(r)
    <3>1. LET y == New(req[r].msg, Proc(r), "send", req[r].conn) IN
            y \in Request /\ y.at = "send" /\ ~ y.lock /\ y.msg = req[r].msg /\ y.proc = Proc(r)
      BY <1>1, BoundsAreNatural DEF New, Request
    <3> QED  BY <2>2, <3>1 DEF Proc
  <2> QED  BY <2>1, <2>2
<1>3. Release(r, x)
  BY DEF Failed
<1> HIDE DEF x
<1> QED  BY <1>2, <1>3 DEF Release, Moved, Leaves

\* Every step a request takes is one of the moves.
LEMMA ProceedMoves ==
  ASSUME Typed, NEW r \in Ids, Proceed(r)
  PROVE  \E x : Moved(r, x) /\ Moves(r, x)
<1> USE DEF Moved, Moves
<1>0. r \in 1 .. Len(req)
  BY DEF Proceed, At, BeginInbound, InboundTimeout, LocalTimeout, Connect, ConnectTimeout, TakeAdvisory,
     AdvisoryTimeout, CallModel, UseTool, Answer, HandOff, Nudge, Slip, FailRun, Save, SaveTimeout, Store,
     Send
<1>a. /\ req[r] \in Request /\ req[r].msg \in Messages /\ Proc(r) \in Procs /\ User(r) \in Users
      /\ req[r].conn \in BOOLEAN /\ Channel[req[r].msg] \in {"web", "whatsapp"}
  BY <1>0, RequestFacts DEF Request
<1>b. /\ req[r].seen \in Nat /\ req[r].hops \in 0 .. MaxHandoffs /\ req[r].proc = Proc(r)
      /\ Steps = {"sender", "turn", "advisory", "call", "called", "save", "store", "send", "done"}
  BY <1>a DEF Request, Proc, Steps
<1>c. ASSUME Failed(r), req[r].at \in Queueing, UNCHANGED <<senderQ, saved>>
      PROVE  \E x : Moved(r, x) /\ Moves(r, x)
  BY <1>c, <1>0, FailedLeaves
<1>d. ASSUME Done(r), req[r].at \in {"sender", "store", "send"}, UNCHANGED <<turnQ, advisory, saved>>
      PROVE  \E x : Moved(r, x) /\ Moves(r, x)
  BY <1>d, <1>0, <1>a, FinishedTyped DEF Done, Ends
<1>1. CASE BeginInbound(r)
  <2> DEFINE x == [req[r] EXCEPT !.at = "turn", !.conn = TRUE]
  <2>1. x \in Request /\ x.msg = req[r].msg /\ x.proc = req[r].proc /\ x.at = "turn" /\ x.lock = req[r].lock
    BY <1>a, <1>b DEF Request
  <2>2. req' = [req EXCEPT ![r] = x]
    BY <1>1 DEF BeginInbound
  <2> HIDE DEF x
  <2> QED  BY <2>1, <2>2, <1>0, <1>1 DEF BeginInbound, Enters, At, tables
<1>2. CASE InboundTimeout(r)
  BY <1>2, <1>d DEF InboundTimeout, At, tables
<1>3. CASE LocalTimeout(r) \/ ConnectTimeout(r) \/ AdvisoryTimeout(r) \/ SaveTimeout(r)
  BY <1>3, <1>c DEF LocalTimeout, ConnectTimeout, AdvisoryTimeout, SaveTimeout, GiveUp, At, tables, Queueing
<1>4. CASE Connect(r)
  <2> DEFINE x == [req[r] EXCEPT !.at = "advisory", !.lock = TRUE]
  <2>1. x \in Request /\ x.msg = req[r].msg /\ x.proc = req[r].proc /\ x.at = "advisory" /\ x.lock
    BY <1>a, <1>b DEF Request
  <2>2. req' = [req EXCEPT ![r] = x]
    BY <1>4 DEF Connect
  <2> HIDE DEF x
  <2> QED  BY <2>1, <2>2, <1>0, <1>4 DEF Connect, Connects, At, tables, locks
<1>5. CASE TakeAdvisory(r)
  <2> DEFINE x == [req[r] EXCEPT !.at = "call", !.seen = saved[User(r)]]
  <2>1. saved[User(r)] \in Nat
    BY <1>a DEF Typed, TypeOK
  <2>2. x \in Request /\ x.msg = req[r].msg /\ x.proc = req[r].proc /\ x.at = "call" /\ x.lock = req[r].lock
        /\ x.seen = saved[User(r)]
    BY <1>a, <1>b, <2>1 DEF Request
  <2>3. req' = [req EXCEPT ![r] = x]
    BY <1>5 DEF TakeAdvisory
  <2> HIDE DEF x
  <2> QED  BY <2>2, <2>3, <1>0, <1>5 DEF TakeAdvisory, Begins, At, tables
<1>6. ASSUME NEW x, x \in Request, x.msg = req[r].msg, x.proc = req[r].proc, x.at \in Turning,
             req[r].at \in Turning, x.seen = req[r].seen, x.lock \/ x.lock = req[r].lock,
             req' = [req EXCEPT ![r] = x], UNCHANGED <<locks, saved>>
      PROVE  \E y : Moved(r, y) /\ Moves(r, y)
  BY <1>6, <1>0 DEF Works
<1>7. CASE CallModel(r)
  <2>1. CASE breaker[Proc(r)].opened = "yes"
    BY <2>1, <1>7, <1>c DEF CallModel, At, tables, Queueing
  <2>2. CASE breaker[Proc(r)].opened # "yes"
    <3> DEFINE x == [req[r] EXCEPT !.at = "called"]
    <3>1. x \in Request /\ x.msg = req[r].msg /\ x.proc = req[r].proc /\ x.at = "called"
          /\ x.lock = req[r].lock /\ x.seen = req[r].seen
      BY <1>a, <1>b DEF Request
    <3>2. req' = [req EXCEPT ![r] = x] /\ UNCHANGED <<locks, saved>> /\ req[r].at \in Turning
      BY <2>2, <1>7 DEF CallModel, Goto, At, tables, locks, Turning
    <3> HIDE DEF x
    <3> QED  BY <3>1, <3>2, <1>6 DEF Turning
  <2> QED  BY <2>1, <2>2
<1>8. CASE UseTool(r)
  <2> DEFINE x == [req[r] EXCEPT !.wrote = TRUE, !.conn = FALSE]
  <2>1. x \in Request /\ x.msg = req[r].msg /\ x.proc = req[r].proc /\ x.at = req[r].at
        /\ x.lock = req[r].lock /\ x.seen = req[r].seen
    BY <1>a, <1>b DEF Request
  <2>2. req' = [req EXCEPT ![r] = x] /\ UNCHANGED <<locks, saved>> /\ req[r].at \in Turning
    BY <1>8 DEF UseTool, At, Turning
  <2> HIDE DEF x
  <2> QED  BY <2>1, <2>2, <1>6
<1>9. CASE Answer(r)
  <2> DEFINE y == New(req[r].msg, req[r].proc, "save", req[r].conn)
             x == [y EXCEPT !.lock = TRUE, !.seen = req[r].seen]
  <2>1. y \in Request /\ y.msg = req[r].msg /\ y.proc = req[r].proc /\ y.at = "save"
    BY <1>a, <1>b, BoundsAreNatural DEF Request, New
  <2>2. req' = [req EXCEPT ![r] = x] /\ UNCHANGED <<locks, saved>> /\ req[r].at \in Turning
    BY <1>9 DEF Answer, At, Turning, tables
  <2> HIDE DEF y
  <2>3. x \in Request /\ x.msg = req[r].msg /\ x.proc = req[r].proc /\ x.at = "save" /\ x.lock
        /\ x.seen = req[r].seen
    BY <2>1, <1>b DEF Request
  <2> HIDE DEF x
  <2> QED  BY <2>2, <2>3, <1>6 DEF Turning
<1>10. CASE HandOff(r)
  <2> DEFINE x == [req[r] EXCEPT !.at = "call", !.hops = @ + 1, !.nudged = FALSE, !.slipped = FALSE,
                                 !.wrote = FALSE]
  <2>1. req[r].hops + 1 \in 0 .. MaxHandoffs
    BY <1>10, <1>b, BoundsAreNatural DEF HandOff
  <2>2. x \in Request /\ x.msg = req[r].msg /\ x.proc = req[r].proc /\ x.at = "call"
        /\ x.lock = req[r].lock /\ x.seen = req[r].seen
    BY <1>a, <1>b, <2>1 DEF Request
  <2>3. req' = [req EXCEPT ![r] = x] /\ UNCHANGED <<locks, saved>> /\ req[r].at \in Turning
    BY <1>10 DEF HandOff, At, Turning, tables
  <2> HIDE DEF x
  <2> QED  BY <2>2, <2>3, <1>6 DEF Turning
<1>11. CASE Nudge(r)
  <2> DEFINE x == [req[r] EXCEPT !.at = "call", !.nudged = TRUE, !.slipped = FALSE]
  <2>1. x \in Request /\ x.msg = req[r].msg /\ x.proc = req[r].proc /\ x.at = "call"
        /\ x.lock = req[r].lock /\ x.seen = req[r].seen
    BY <1>a, <1>b DEF Request
  <2>2. req' = [req EXCEPT ![r] = x] /\ UNCHANGED <<locks, saved>> /\ req[r].at \in Turning
    BY <1>11 DEF Nudge, At, Turning, tables
  <2> HIDE DEF x
  <2> QED  BY <2>1, <2>2, <1>6 DEF Turning
<1>12. CASE Slip(r)
  <2>1. CASE req[r].slipped
    BY <2>1, <1>12, <1>c DEF Slip, At, tables, Queueing
  <2>2. CASE ~ req[r].slipped
    <3> DEFINE x == [req[r] EXCEPT !.slipped = TRUE]
    <3>1. x \in Request /\ x.msg = req[r].msg /\ x.proc = req[r].proc /\ x.at = req[r].at
          /\ x.lock = req[r].lock /\ x.seen = req[r].seen
      BY <1>a, <1>b DEF Request
    <3>2. req' = [req EXCEPT ![r] = x] /\ UNCHANGED <<locks, saved>> /\ req[r].at \in Turning
      BY <2>2, <1>12 DEF Slip, At, tables, locks, Turning
    <3> HIDE DEF x
    <3> QED  BY <3>1, <3>2, <1>6
  <2> QED  BY <2>1, <2>2
<1>13. CASE FailRun(r)
  BY <1>13, <1>c DEF FailRun, At, tables, Queueing
<1>14. CASE Save(r)
  <2> DEFINE x == New(req[r].msg, Proc(r), IF OnWeb(r) THEN "store" ELSE "send", FALSE)
  <2>1. (IF OnWeb(r) THEN "store" ELSE "send") \in Steps \cap {"send", "store"} /\ FALSE \in BOOLEAN
    BY DEF Steps
  <2>2. x \in Request /\ x.msg = req[r].msg /\ x.proc = Proc(r) /\ x.at \in {"send", "store"} /\ ~ x.lock
    BY <1>a, <2>1, BoundsAreNatural DEF New, Request
  <2>3. Release(r, x) /\ senderQ' = senderQ /\ saved' = [saved EXCEPT ![User(r)] = @ + 1] /\ req[r].at = "save"
    BY <1>14 DEF Save, At
  <2> HIDE DEF x
  <2> QED  BY <2>2, <2>3, <1>0, <1>b DEF Release, Leaves, Queueing
<1>15. CASE Store(r) \/ Send(r)
  BY <1>15, <1>d DEF Store, Send, At, tables
<1> QED
  BY <1>1, <1>2, <1>3, <1>4, <1>5, <1>7, <1>8, <1>9, <1>10, <1>11, <1>12, <1>13, <1>14, <1>15 DEF Proceed

\* A delivery arrives, answered or waiting.
LEMMA ArrivalArrives ==
  ASSUME Typed, NEW m \in Messages, NEW p \in Procs, Post(m, p) \/ Deliver(m, p)
  PROVE  \E x : x.msg = m /\ Arrives(x)
<1>1. Len(req) \in Nat /\ (Len(req) < MaxRequests => Len(req) + 1 <= MaxRequests)
  BY BoundsAreNatural DEF Typed, TypeOK
<1>2. \A at \in Steps, c \in BOOLEAN :
        LET x == New(m, p, at, c) IN
          x \in Request /\ x.at = at /\ ~ x.lock /\ x.msg = m /\ x.proc = p
  BY BoundsAreNatural DEF New, Request
<1>3. "done" \in Steps /\ "turn" \in Steps /\ "sender" \in Steps
  BY DEF Steps
<1>4. CASE Post(m, p)
  <2>1. CASE m \in stored
    <3> DEFINE x == New(m, p, "done", FALSE)
    <3>1. x \in Request /\ x.at = "done" /\ ~ x.lock /\ x.msg = m /\ x.proc = p
      BY <1>2, <1>3
    <3>2. /\ req' = Append(req, x) /\ UNCHANGED <<turnQ, senderQ, advisory, saved>> /\ Channel[m] = "web"
          /\ Len(req) < MaxRequests
      BY <1>4, <2>1 DEF Post, tables
    <3> HIDE DEF x
    <3> QED  BY <1>1, <3>1, <3>2 DEF Arrives
  <2>2. CASE m \notin stored
    <3> DEFINE x == New(m, p, "turn", TRUE)
    <3>1. x \in Request /\ x.at = "turn" /\ ~ x.lock /\ x.msg = m /\ x.proc = p
      BY <1>2, <1>3
    <3>2. /\ req' = Append(req, x) /\ UNCHANGED <<senderQ, advisory, saved>> /\ Channel[m] = "web"
          /\ Len(req) < MaxRequests /\ turnQ' = Queued(turnQ, p, Sender[m], Len(req) + 1)
      BY <1>4, <2>2 DEF Post, tables
    <3> HIDE DEF x
    <3> QED  BY <1>1, <3>1, <3>2 DEF Arrives
  <2> QED  BY <2>1, <2>2
<1>5. CASE Deliver(m, p)
  <2> DEFINE x == New(m, p, "sender", FALSE)
  <2>1. x \in Request /\ x.at = "sender" /\ ~ x.lock /\ x.msg = m /\ x.proc = p
    BY <1>2, <1>3
  <2>2. /\ req' = Append(req, x) /\ UNCHANGED <<turnQ, advisory, saved>> /\ Channel[m] = "whatsapp"
        /\ Len(req) < MaxRequests /\ senderQ' = Queued(senderQ, p, Sender[m], Len(req) + 1)
    BY <1>5 DEF Deliver
  <2> HIDE DEF x
  <2> QED  BY <1>1, <2>1, <2>2 DEF Arrives
<1> QED  BY <1>4, <1>5

-----------------------------------------------------------------------------
(* Types. *)

Queues == [Procs -> [Users -> Seq(Ids)]]

\* The parts of TypeOK that the moves of a request touch, and the others.
LockTypes ==
  /\ req \in Seq(Request) /\ Len(req) <= MaxRequests
  /\ senderQ \in Queues /\ turnQ \in Queues
  /\ advisory \in [Users -> Ids \cup {NoReq}]
  /\ saved \in [Users -> Nat]

ModelTypes == breaker \in [Procs -> Breaker] /\ streak \in [Procs -> Nat]

TableTypes ==
  /\ inbox \subseteq Messages /\ stored \subseteq Messages
  /\ writers \in [Messages -> SUBSET Ids]
  /\ twists \in 0 .. MaxTwists

\* Together they are TypeOK.
LEMMA TypesTogether == Typed <=> LockTypes /\ ModelTypes /\ TableTypes
  BY DEF Typed, TypeOK, LockTypes, ModelTypes, TableTypes, Queues

\* A queue that a request leaves or joins is a queue; what else changes in it.
LEMMA LeftQueue ==
  ASSUME NEW q \in Queues, NEW r, Proc(r) \in Procs, User(r) \in Users
  PROVE  /\ Left(q, r) \in Queues
         /\ \A p \in Procs, u \in Users :
              Left(q, r)[p][u] = IF p = Proc(r) /\ u = User(r) THEN Without(q[p][u], r) ELSE q[p][u]
<1>1. Without(q[Proc(r)][User(r)], r) \in Seq(Ids)
  BY WithoutMember DEF Queues
<1> QED  BY <1>1 DEF Left, Queues

\* The same of a request that joins.
LEMMA QueuedQueue ==
  ASSUME NEW q \in Queues, NEW r \in Ids, NEW p \in Procs, NEW u \in Users
  PROVE  /\ Queued(q, p, u, r) \in Queues
         /\ \A o \in Procs, v \in Users :
              Queued(q, p, u, r)[o][v] = IF o = p /\ v = u THEN Append(q[o][v], r) ELSE q[o][v]
<1>1. Append(q[p][u], r) \in Seq(Ids)
  BY AppendMember DEF Queues
<1> QED  BY <1>1 DEF Queued, Queues

\* Changing one delivery leaves the others as they are.
LEMMA MovedRequests ==
  ASSUME Typed, NEW r, NEW x, Moved(r, x)
  PROVE  /\ req' \in Seq(Request) /\ Len(req') = Len(req) /\ r \in 1 .. Len(req)
         /\ \A s \in 1 .. Len(req) : req'[s] = IF s = r THEN x ELSE req[s]
         /\ \A s \in 1 .. Len(req) : /\ req'[s].msg = req[s].msg /\ Proc(s)' = Proc(s)
                                      /\ User(s)' = User(s) /\ OnWeb(s)' = OnWeb(s)
<1>1. req' \in Seq(Request) /\ Len(req') = Len(req) /\ r \in 1 .. Len(req)
      /\ \A s \in 1 .. Len(req) : req'[s] = IF s = r THEN x ELSE req[s]
  BY DEF Moved, Typed, TypeOK
<1>2. \A s \in 1 .. Len(req) : req'[s].msg = req[s].msg /\ req'[s].proc = req[s].proc
  BY <1>1 DEF Moved
<1> QED  BY <1>1, <1>2 DEF Proc, User, OnWeb

\* A new delivery comes behind the others.
LEMMA ArrivedRequests ==
  ASSUME Typed, NEW x, Arrives(x)
  PROVE  /\ req' \in Seq(Request) /\ Len(req') = Len(req) + 1 /\ Len(req) \in Nat
         /\ Len(req') <= MaxRequests /\ Len(req) + 1 \in Ids /\ req'[Len(req) + 1] = x
         /\ x.msg \in Messages /\ x.proc \in Procs /\ Sender[x.msg] \in Users
         /\ \A s \in 1 .. Len(req) : req'[s] = req[s]
<1>1. x \in Request /\ req' = Append(req, x) /\ Len(req) + 1 <= MaxRequests /\ req \in Seq(Request)
  BY DEF Arrives, Typed, TypeOK
<1>2. x.msg \in Messages /\ x.proc \in Procs
  BY <1>1 DEF Request
<1>3. Sender[x.msg] \in Users
  BY <1>2, MessagesHaveSenders
<1> QED  BY <1>1, <1>2, <1>3, BoundsAreNatural DEF Ids

\* A move keeps the types.
LEMMA MovesTyped ==
  ASSUME Typed, NEW r, NEW x, Moved(r, x), Moves(r, x)
  PROVE  LockTypes'
<1>1. r \in 1 .. Len(req) /\ req' \in Seq(Request) /\ Len(req') = Len(req)
  BY MovedRequests
<1>2. Proc(r) \in Procs /\ User(r) \in Users /\ r \in Ids
  BY <1>1, RequestFacts
<1>3. senderQ \in Queues /\ turnQ \in Queues /\ advisory \in [Users -> Ids \cup {NoReq}]
      /\ saved \in [Users -> Nat] /\ Len(req) <= MaxRequests
  BY TypesTogether DEF LockTypes
<1>4. Left(senderQ, r) \in Queues /\ Left(turnQ, r) \in Queues
  BY <1>2, <1>3, LeftQueue
<1>5. Queued(turnQ, Proc(r), User(r), r) \in Queues
  BY <1>2, <1>3, QueuedQueue
<1>6. senderQ' \in Queues /\ turnQ' \in Queues
  BY <1>3, <1>4, <1>5 DEF Moves, Leaves, Ends, Enters, Connects, Begins, Works, locks
<1>7. advisory' \in [Users -> Ids \cup {NoReq}]
  BY <1>2, <1>3 DEF Moves, Leaves, Ends, Enters, Connects, Begins, Works, locks
<1>8. saved' \in [Users -> Nat]
  BY <1>2, <1>3 DEF Moves, Leaves, Ends, Enters, Connects, Begins, Works
<1> QED  BY <1>1, <1>3, <1>6, <1>7, <1>8 DEF LockTypes

\* So does an arrival.
LEMMA ArrivesTyped ==
  ASSUME Typed, NEW x, Arrives(x)
  PROVE  LockTypes'
<1>1. senderQ \in Queues /\ turnQ \in Queues /\ advisory \in [Users -> Ids \cup {NoReq}]
      /\ saved \in [Users -> Nat]
  BY TypesTogether DEF LockTypes
<1>2. req' \in Seq(Request) /\ Len(req') <= MaxRequests /\ Len(req) + 1 \in Ids
      /\ x.msg \in Messages /\ x.proc \in Procs /\ Sender[x.msg] \in Users
  BY ArrivedRequests
<1>3. Queued(turnQ, x.proc, Sender[x.msg], Len(req) + 1) \in Queues
      /\ Queued(senderQ, x.proc, Sender[x.msg], Len(req) + 1) \in Queues
  BY <1>1, <1>2, QueuedQueue
<1>4. senderQ' \in Queues /\ turnQ' \in Queues /\ advisory' = advisory /\ saved' = saved
  BY <1>1, <1>3 DEF Arrives
<1> QED  BY <1>1, <1>2, <1>4 DEF LockTypes

\* A process that dies ends its requests, and changes no other.
LEMMA CrashRequests ==
  ASSUME Typed, NEW p \in Procs, Crash(p)
  PROVE  /\ req' \in Seq(Request) /\ Len(req') = Len(req)
         /\ \A s \in 1 .. Len(req) :
              /\ req'[s] = IF Proc(s) = p THEN Finished(req[s]) ELSE req[s]
              /\ req'[s].msg = req[s].msg /\ Proc(s)' = Proc(s) /\ User(s)' = User(s) /\ OnWeb(s)' = OnWeb(s)
<1>1. req' = [s \in 1 .. Len(req) |-> IF Proc(s) = p THEN Finished(req[s]) ELSE req[s]]
  BY DEF Crash, Proc
<1>2. \A s \in 1 .. Len(req) : /\ req[s] \in Request /\ Finished(req[s]) \in Request
                               /\ Finished(req[s]).msg = req[s].msg /\ Finished(req[s]).proc = req[s].proc
  BY RequestFacts, FinishedTyped
<1>3. Len(req) \in Nat
  BY DEF Typed, TypeOK
<1>4. req' \in [1 .. Len(req) -> Request]
  BY <1>1, <1>2
<1>5. req' \in Seq(Request) /\ Len(req') = Len(req)
  BY <1>3, <1>4
<1>6. \A s \in 1 .. Len(req) : req'[s] = IF Proc(s) = p THEN Finished(req[s]) ELSE req[s]
  BY <1>1
<1>7. \A s \in 1 .. Len(req) : req'[s].msg = req[s].msg /\ req'[s].proc = req[s].proc
  BY <1>2, <1>6
<1> QED  BY <1>5, <1>6, <1>7 DEF Proc, User, OnWeb

\* A process that dies keeps the types.
LEMMA CrashTyped ==
  ASSUME Typed, NEW p \in Procs, Crash(p)
  PROVE  LockTypes'
<1>1. senderQ \in Queues /\ turnQ \in Queues /\ advisory \in [Users -> Ids \cup {NoReq}]
      /\ saved \in [Users -> Nat] /\ Len(req) <= MaxRequests
  BY TypesTogether DEF LockTypes
<1>2. [u \in Users |-> <<>>] \in [Users -> Seq(Ids)]
  OBVIOUS
<1>3. senderQ' \in Queues /\ turnQ' \in Queues
  BY <1>1, <1>2 DEF Crash, Queues
<1>4. advisory' \in [Users -> Ids \cup {NoReq}] /\ saved' = saved
  BY <1>1 DEF Crash, tables
<1> QED  BY <1>1, <1>3, <1>4, CrashRequests DEF LockTypes

Kept == UNCHANGED <<req, locks, saved>>

\* Every step of the system is an arrival, a move of a request, a crash, or one of the
\* breaker's own.
LEMMA EveryStep ==
  ASSUME Typed, [Next]_vars
  PROVE  \/ \E x : Arrives(x)
         \/ \E r, x : Moved(r, x) /\ Moves(r, x)
         \/ \E p \in Procs : Crash(p)
         \/ Kept
<1>1. CASE UNCHANGED vars
  BY <1>1 DEF vars, Kept, locks
<1>2. CASE \E p \in Procs : CoolDown(p)
  BY <1>2 DEF CoolDown, Kept, tables
<1> QED  BY <1>1, <1>2, ArrivalArrives, ProceedMoves DEF Next

\* The breaker keeps its type and counts only what failed in a row.
LEMMA BreakerKept ==
  ASSUME Typed, BreakerOK, [Next]_vars
  PROVE  ModelTypes' /\ BreakerOK'
<1> USE DEF ModelTypes, BreakerOK, Breaker
<1>0. breaker \in [Procs -> Breaker] /\ streak \in [Procs -> Nat] /\ FailMax \in Nat \ {0}
  BY BoundsAreNatural DEF Typed, TypeOK
<1>a. CASE UNCHANGED model
  BY <1>a, <1>0 DEF model
<1>b. ASSUME NEW p \in Procs, Success(p)
      PROVE  ModelTypes' /\ BreakerOK'
  BY <1>b, <1>0 DEF Success, Closed
<1>c. ASSUME NEW p \in Procs, Failure(p)
      PROVE  ModelTypes' /\ BreakerOK'
  <2> DEFINE b == [failures |-> breaker[p].failures + 1,
                   opened |-> IF breaker[p].failures + 1 >= FailMax THEN "yes" ELSE breaker[p].opened]
  <2>1. b \in Breaker /\ b.failures <= streak[p] + 1 /\ (b.opened # "no" => streak[p] + 1 >= FailMax)
    BY <1>0
  <2>2. breaker' = [breaker EXCEPT ![p] = b] /\ streak' = [streak EXCEPT ![p] = @ + 1]
    BY <1>c DEF Failure
  <2> HIDE DEF b
  <2> QED  BY <2>1, <2>2, <1>0
<1>d. ASSUME NEW p \in Procs, NEW b \in Breaker, b.failures <= streak[p], b.opened # "no" => streak[p] >= FailMax,
             breaker' = [breaker EXCEPT ![p] = b], streak' = streak
      PROVE  ModelTypes' /\ BreakerOK'
  BY <1>d, <1>0
<1>1. CASE UNCHANGED vars
  BY <1>1, <1>a DEF vars, model
<1>2. ASSUME NEW m \in Messages, NEW p \in Procs, Post(m, p) \/ Deliver(m, p)
      PROVE  ModelTypes' /\ BreakerOK'
  BY <1>2, <1>a DEF Post, Deliver
<1>3. ASSUME NEW p \in Procs, CoolDown(p)
      PROVE  ModelTypes' /\ BreakerOK'
  <2> DEFINE b == [breaker[p] EXCEPT !.opened = "cooled"]
  <2>1. b \in Breaker /\ b.failures = breaker[p].failures /\ breaker[p].opened # "no"
    BY <1>3, <1>0 DEF CoolDown
  <2>2. breaker' = [breaker EXCEPT ![p] = b] /\ streak' = streak
    BY <1>3 DEF CoolDown
  <2> HIDE DEF b
  <2> QED  BY <2>1, <2>2, <1>d
<1>4. ASSUME NEW p \in Procs, Crash(p)
      PROVE  ModelTypes' /\ BreakerOK'
  BY <1>4, <1>0 DEF Crash, Closed
<1>5. ASSUME NEW r \in Ids, Proceed(r)
      PROVE  ModelTypes' /\ BreakerOK'
  <2>0. r \in 1 .. Len(req)
    BY <1>5 DEF Proceed, At, BeginInbound, InboundTimeout, LocalTimeout, Connect, ConnectTimeout, TakeAdvisory,
       AdvisoryTimeout, CallModel, UseTool, Answer, HandOff, Nudge, Slip, FailRun, Save, SaveTimeout, Store,
       Send
  <2>1. Proc(r) \in Procs
    BY <2>0, RequestFacts
  <2>2. CASE CallModel(r)
    <3>1. CASE breaker[Proc(r)].opened = "cooled"
      <4> DEFINE b == [failures |-> FailMax - 1, opened |-> "no"]
      <4>1. b \in Breaker /\ b.failures <= streak[Proc(r)] /\ b.opened = "no"
        BY <1>0, <2>1, <3>1
      <4>2. breaker' = [breaker EXCEPT ![Proc(r)] = b] /\ streak' = streak
        BY <2>2, <2>1, <3>1, <1>0 DEF CallModel
      <4> HIDE DEF b
      <4> QED  BY <4>1, <4>2, <2>1, <1>d
    <3>2. CASE breaker[Proc(r)].opened # "cooled"
      <4>1. breaker' = breaker /\ streak' = streak
        BY <2>2, <2>1, <3>2, <1>0 DEF CallModel
      <4> QED  BY <4>1, <1>a DEF model
    <3> QED  BY <3>1, <3>2
  <2>3. CASE Answer(r) \/ HandOff(r) \/ Nudge(r)
    BY <2>3, <2>1, <1>b DEF Answer, HandOff, Nudge
  <2>4. CASE FailRun(r)
    BY <2>4, <2>1, <1>c DEF FailRun
  <2>5. CASE ~ (CallModel(r) \/ Answer(r) \/ HandOff(r) \/ Nudge(r) \/ FailRun(r))
    <3>1. UNCHANGED model
      BY <2>5, <1>5 DEF Proceed, BeginInbound, InboundTimeout, LocalTimeout, Connect, ConnectTimeout,
         TakeAdvisory, AdvisoryTimeout, GiveUp, UseTool, Slip, Save, SaveTimeout, Store, Send
    <3> QED  BY <3>1, <1>a
  <2> QED  BY <2>2, <2>3, <2>4, <2>5
<1> QED  BY <1>1, <1>2, <1>3, <1>4, <1>5 DEF Next

-----------------------------------------------------------------------------
(* Queues hold whom they should. *)

\* What leaving and joining do to the queues of TurnsInv.
LEMMA QueueMembers ==
  ASSUME Typed, QueuesOK, NEW r \in 1 .. Len(req), NEW p \in Procs, NEW u \in Users,
         NEW q \in {turnQ, senderQ}
  PROVE  /\ Left(q, r)[p][u] \in Seq(Ids) /\ Distinct(Left(q, r)[p][u])
         /\ Members(Left(q, r)[p][u]) = Members(q[p][u]) \ {r}
         /\ q[p][u] # <<>> /\ Head(q[p][u]) # r =>
              Left(q, r)[p][u] # <<>> /\ Head(Left(q, r)[p][u]) = Head(q[p][u])
<1>1. Proc(r) \in Procs /\ User(r) \in Users
  BY RequestFacts
<1>2. q \in Queues /\ q[p][u] \in Seq(Ids)
  BY TypesTogether DEF LockTypes, Queues
<1>3. Left(q, r)[p][u] = IF p = Proc(r) /\ u = User(r) THEN Without(q[p][u], r) ELSE q[p][u]
  BY <1>1, <1>2, LeftQueue
<1>4. QueueOK(q[p][u], p, u)
  BY DEF QueuesOK
<1>5. ~ (p = Proc(r) /\ u = User(r)) => r \notin Members(q[p][u])
  BY <1>4 DEF QueueOK
<1>6. Distinct(q[p][u])
  BY <1>4 DEF QueueOK
<1>7. CASE p = Proc(r) /\ u = User(r)
  BY <1>2, <1>3, <1>6, <1>7, WithoutMember
<1>8. CASE ~ (p = Proc(r) /\ u = User(r))
  BY <1>2, <1>3, <1>5, <1>6, <1>8
<1> QED  BY <1>7, <1>8

\* A move keeps the queues in order.
LEMMA MovesKeepQueues ==
  ASSUME Typed, QueuesOK, NEW r, NEW x, Moved(r, x), Moves(r, x)
  PROVE  QueuesOK'
<1>0. /\ r \in 1 .. Len(req) /\ Len(req') = Len(req)
      /\ \A s \in 1 .. Len(req) : req'[s] = IF s = r THEN x ELSE req[s]
      /\ \A s \in 1 .. Len(req) : Proc(s)' = Proc(s) /\ User(s)' = User(s) /\ OnWeb(s)' = OnWeb(s)
  BY MovedRequests
<1>a. Proc(r) \in Procs /\ User(r) \in Users /\ r \in Ids
  BY <1>0, RequestFacts
<1>b. turnQ \in Queues /\ senderQ \in Queues
  BY TypesTogether DEF LockTypes
<1> SUFFICES ASSUME NEW p \in Procs, NEW u \in Users
             PROVE  /\ QueueOK(turnQ[p][u], p, u)'
                    /\ \A s \in Members(turnQ[p][u]') : req'[s].at \in Queueing
                    /\ QueueOK(senderQ[p][u], p, u)'
                    /\ \A s \in Members(senderQ[p][u]') : req'[s].at # "done" /\ ~ OnWeb(s)'
  BY DEF QueuesOK, Members
<1> DEFINE T == Members(turnQ[p][u])
           S == Members(senderQ[p][u])
<1>1. /\ Distinct(turnQ[p][u]) /\ Distinct(senderQ[p][u])
      /\ \A s \in T : s \in 1 .. Len(req) /\ Proc(s) = p /\ User(s) = u /\ req[s].at \in Queueing
      /\ \A s \in S : s \in 1 .. Len(req) /\ Proc(s) = p /\ User(s) = u /\ req[s].at # "done" /\ ~ OnWeb(s)
  BY DEF QueuesOK, QueueOK
<1>2. ASSUME Distinct(turnQ'[p][u]), Distinct(senderQ'[p][u]),
             \A s \in Members(turnQ'[p][u]) : s \in T \/ (s = r /\ Proc(r) = p /\ User(r) = u),
             r \in Members(turnQ'[p][u]) => x.at \in Queueing,
             \A s \in Members(senderQ'[p][u]) : s \in S /\ (s = r => x.at # "done" \/ OnWeb(r))
      PROVE  /\ QueueOK(turnQ[p][u], p, u)'
             /\ \A s \in Members(turnQ[p][u]') : req'[s].at \in Queueing
             /\ QueueOK(senderQ[p][u], p, u)'
             /\ \A s \in Members(senderQ[p][u]') : req'[s].at # "done" /\ ~ OnWeb(s)'
  <2>1. \A s \in Members(turnQ'[p][u]) : s \in 1 .. Len(req) /\ Proc(s) = p /\ User(s) = u
                                        /\ req'[s].at \in Queueing
    BY <1>0, <1>1, <1>2
  <2>2. \A s \in Members(senderQ'[p][u]) : s \in 1 .. Len(req) /\ Proc(s) = p /\ User(s) = u
                                          /\ req'[s].at # "done" /\ ~ OnWeb(s)
    BY <1>0, <1>1, <1>2
  <2> QED  BY <2>1, <2>2, <1>0, <1>2 DEF QueueOK, Members, Distinct
<1> HIDE DEF T, S
<1>3. CASE Leaves(r, x)
  <2>1. turnQ' = Left(turnQ, r) /\ senderQ' = senderQ /\ (x.at = "done" => OnWeb(r))
    BY <1>3 DEF Leaves
  <2>2. Distinct(turnQ'[p][u]) /\ Members(turnQ'[p][u]) = T \ {r}
    BY <2>1, <1>0, QueueMembers DEF T
  <2> QED  BY <2>1, <2>2, <1>1, <1>2 DEF S
<1>4. CASE Ends(r, x)
  <2>1. senderQ' = Left(senderQ, r) /\ turnQ' = turnQ /\ req[r].at \notin Queueing
    BY <1>4 DEF Ends, Queueing
  <2>2. Distinct(senderQ'[p][u]) /\ Members(senderQ'[p][u]) = S \ {r}
    BY <2>1, <1>0, QueueMembers DEF S
  <2> QED  BY <2>1, <2>2, <1>1, <1>2 DEF T
<1>5. CASE Enters(r, x)
  <2>1. turnQ' = Queued(turnQ, Proc(r), User(r), r) /\ senderQ' = senderQ /\ req[r].at = "sender" /\ x.at = "turn"
    BY <1>5 DEF Enters
  <2>2. r \notin T
    BY <2>1, <1>1 DEF Queueing
  <2>3. turnQ[p][u] \in Seq(Ids)
    BY <1>b DEF Queues
  <2>4. turnQ'[p][u] = IF p = Proc(r) /\ u = User(r) THEN Append(turnQ[p][u], r) ELSE turnQ[p][u]
    BY <2>1, <1>a, <1>b, QueuedQueue
  <2>5. Members(Append(turnQ[p][u], r)) = T \cup {r} /\ Distinct(Append(turnQ[p][u], r))
    BY <2>2, <2>3, <1>a, <1>1, AppendMember DEF T
  <2>6. Distinct(turnQ'[p][u]) /\ \A s \in Members(turnQ'[p][u]) : s \in T \/ (s = r /\ Proc(r) = p /\ User(r) = u)
    BY <2>4, <2>5, <1>1 DEF T
  <2> QED  BY <2>1, <2>6, <1>1, <1>2 DEF S, Queueing
<1>6. CASE Connects(r, x) \/ Begins(r, x) \/ Works(r, x)
  <2>1. turnQ' = turnQ /\ senderQ' = senderQ /\ x.at \in Queueing /\ x.at # "done"
    BY <1>6 DEF Connects, Begins, Works, locks, Turning, Queueing
  <2> QED  BY <2>1, <1>1, <1>2 DEF T, S
<1> QED  BY <1>3, <1>4, <1>5, <1>6 DEF Moves

\* An arrival keeps the queues in order.
LEMMA ArrivesKeepsQueues ==
  ASSUME Typed, QueuesOK, NEW x, Arrives(x)
  PROVE  QueuesOK'
<1>n. PICK n : n = Len(req) + 1
  OBVIOUS
<1>0. /\ Len(req') = n /\ Len(req) \in Nat /\ n \in Ids /\ req'[n] = x
      /\ x.msg \in Messages /\ x.proc \in Procs /\ Sender[x.msg] \in Users
      /\ \A s \in 1 .. Len(req) : req'[s] = req[s]
  BY <1>n, ArrivedRequests
<1>a. \A s \in 1 .. Len(req) : Proc(s)' = Proc(s) /\ User(s)' = User(s) /\ OnWeb(s)' = OnWeb(s)
  BY <1>0 DEF Proc, User, OnWeb
<1>b. Proc(n)' = x.proc /\ User(n)' = Sender[x.msg] /\ OnWeb(n)' = (Channel[x.msg] = "web")
  BY <1>0 DEF Proc, User, OnWeb
<1>c. turnQ \in Queues /\ senderQ \in Queues
  BY TypesTogether DEF LockTypes
<1> SUFFICES ASSUME NEW p \in Procs, NEW u \in Users
             PROVE  /\ QueueOK(turnQ[p][u], p, u)'
                    /\ \A s \in Members(turnQ[p][u]') : req'[s].at \in Queueing
                    /\ QueueOK(senderQ[p][u], p, u)'
                    /\ \A s \in Members(senderQ[p][u]') : req'[s].at # "done" /\ ~ OnWeb(s)'
  BY DEF QueuesOK, Members
<1> DEFINE T == Members(turnQ[p][u])
           S == Members(senderQ[p][u])
           Mine == p = x.proc /\ u = Sender[x.msg]
<1>1. /\ Distinct(turnQ[p][u]) /\ Distinct(senderQ[p][u])
      /\ \A s \in T : s \in 1 .. Len(req) /\ Proc(s) = p /\ User(s) = u /\ req[s].at \in Queueing
      /\ \A s \in S : s \in 1 .. Len(req) /\ Proc(s) = p /\ User(s) = u /\ req[s].at # "done" /\ ~ OnWeb(s)
  BY DEF QueuesOK, QueueOK
<1>2. n \notin T /\ n \notin S /\ n \in 1 .. Len(req') /\ \A s \in 1 .. Len(req) : s \in 1 .. Len(req')
  BY <1>n, <1>0, <1>1
<1>3. ASSUME Distinct(turnQ'[p][u]), Distinct(senderQ'[p][u]),
             \A s \in Members(turnQ'[p][u]) : s \in T \/ (s = n /\ Mine /\ x.at = "turn"),
             \A s \in Members(senderQ'[p][u]) : s \in S \/ (s = n /\ Mine /\ x.at = "sender" /\ Channel[x.msg] # "web")
      PROVE  /\ QueueOK(turnQ[p][u], p, u)'
             /\ \A s \in Members(turnQ[p][u]') : req'[s].at \in Queueing
             /\ QueueOK(senderQ[p][u], p, u)'
             /\ \A s \in Members(senderQ[p][u]') : req'[s].at # "done" /\ ~ OnWeb(s)'
  <2> HIDE DEF T, S
  <2>1. \A s \in Members(turnQ'[p][u]) : s \in 1 .. Len(req') /\ Proc(s)' = p /\ User(s)' = u
                                        /\ req'[s].at \in Queueing
    BY <1>0, <1>a, <1>b, <1>1, <1>2, <1>3 DEF Queueing
  <2>2. \A s \in Members(senderQ'[p][u]) : s \in 1 .. Len(req') /\ Proc(s)' = p /\ User(s)' = u
                                          /\ req'[s].at # "done" /\ ~ OnWeb(s)'
    BY <1>0, <1>a, <1>b, <1>1, <1>2, <1>3
  <2> QED  BY <2>1, <2>2, <1>3 DEF QueueOK, Members, Distinct
<1>4. /\ Members(Append(turnQ[p][u], n)) = T \cup {n} /\ Distinct(Append(turnQ[p][u], n))
      /\ Members(Append(senderQ[p][u], n)) = S \cup {n} /\ Distinct(Append(senderQ[p][u], n))
  <2>1. turnQ[p][u] \in Seq(Ids) /\ senderQ[p][u] \in Seq(Ids)
    BY <1>c DEF Queues
  <2> QED  BY <2>1, <1>0, <1>1, <1>2, AppendMember
<1>5. \A q \in Queues : Queued(q, x.proc, Sender[x.msg], n)[p][u] = IF Mine THEN Append(q[p][u], n) ELSE q[p][u]
  BY <1>0, QueuedQueue
<1> HIDE DEF T, S
<1>6. CASE UNCHANGED <<turnQ, senderQ>>
  BY <1>6, <1>1, <1>3 DEF T, S
<1>7. CASE x.at = "turn" /\ UNCHANGED senderQ /\ turnQ' = Queued(turnQ, x.proc, Sender[x.msg], n)
  <2>1. turnQ'[p][u] = IF Mine THEN Append(turnQ[p][u], n) ELSE turnQ[p][u]
    BY <1>7, <1>5, <1>c
  <2>2. Distinct(turnQ'[p][u]) /\ \A s \in Members(turnQ'[p][u]) : s \in T \/ (s = n /\ Mine)
    BY <2>1, <1>1, <1>4 DEF T
  <2> QED  BY <2>2, <1>1, <1>3, <1>7 DEF S
<1>8. CASE x.at = "sender" /\ Channel[x.msg] = "whatsapp" /\ UNCHANGED turnQ
           /\ senderQ' = Queued(senderQ, x.proc, Sender[x.msg], n)
  <2>1. senderQ'[p][u] = IF Mine THEN Append(senderQ[p][u], n) ELSE senderQ[p][u]
    BY <1>8, <1>5, <1>c
  <2>2. Distinct(senderQ'[p][u]) /\ \A s \in Members(senderQ'[p][u]) : s \in S \/ (s = n /\ Mine)
    BY <2>1, <1>1, <1>4 DEF S
  <2> QED  BY <2>2, <1>1, <1>3, <1>8 DEF T
<1> QED  BY <1>n, <1>6, <1>7, <1>8 DEF Arrives

\* A process that dies empties its queues and leaves the others alone.
LEMMA CrashKeepsQueues ==
  ASSUME Typed, QueuesOK, NEW d \in Procs, Crash(d)
  PROVE  QueuesOK'
<1>0. /\ Len(req') = Len(req)
      /\ \A s \in 1 .. Len(req) : req'[s] = IF Proc(s) = d THEN Finished(req[s]) ELSE req[s]
      /\ \A s \in 1 .. Len(req) : Proc(s)' = Proc(s) /\ User(s)' = User(s) /\ OnWeb(s)' = OnWeb(s)
  BY CrashRequests
<1>a. turnQ \in Queues /\ senderQ \in Queues
  BY TypesTogether DEF LockTypes
<1> SUFFICES ASSUME NEW p \in Procs, NEW u \in Users
             PROVE  /\ QueueOK(turnQ[p][u], p, u)'
                    /\ \A s \in Members(turnQ[p][u]') : req'[s].at \in Queueing
                    /\ QueueOK(senderQ[p][u], p, u)'
                    /\ \A s \in Members(senderQ[p][u]') : req'[s].at # "done" /\ ~ OnWeb(s)'
  BY DEF QueuesOK, Members
<1>1. turnQ'[p][u] = (IF p = d THEN <<>> ELSE turnQ[p][u]) /\ senderQ'[p][u] = (IF p = d THEN <<>> ELSE senderQ[p][u])
  BY <1>a DEF Crash, Queues
<1>2. CASE p = d
  BY <1>1, <1>2 DEF QueueOK, Members, Distinct
<1>3. CASE p # d
  <2>1. \A s \in Members(turnQ[p][u]) : s \in 1 .. Len(req) /\ Proc(s) = p /\ User(s) = u /\ req[s].at \in Queueing
    BY DEF QueuesOK, QueueOK
  <2>2. \A s \in Members(senderQ[p][u]) : s \in 1 .. Len(req) /\ Proc(s) = p /\ User(s) = u
                                          /\ req[s].at # "done" /\ ~ OnWeb(s)
    BY DEF QueuesOK, QueueOK
  <2>3. Distinct(turnQ[p][u]) /\ Distinct(senderQ[p][u])
    BY DEF QueuesOK, QueueOK
  <2>4. turnQ'[p][u] = turnQ[p][u] /\ senderQ'[p][u] = senderQ[p][u]
    BY <1>1, <1>3
  <2>5. \A s \in Members(turnQ'[p][u]) : s \in 1 .. Len(req') /\ Proc(s)' = p /\ User(s)' = u /\ req'[s].at \in Queueing
    BY <2>1, <2>4, <1>0, <1>3
  <2>6. \A s \in Members(senderQ'[p][u]) : s \in 1 .. Len(req') /\ Proc(s)' = p /\ User(s)' = u
                                          /\ req'[s].at # "done" /\ ~ OnWeb(s)'
    BY <2>2, <2>4, <1>0, <1>3
  <2> QED  BY <2>3, <2>4, <2>5, <2>6 DEF QueueOK, Members, Distinct
<1> QED  BY <1>2, <1>3

-----------------------------------------------------------------------------
(* One turn at a time. *)

\* A request that moves leaves alone the locks of the others.
LEMMA MovesKeepLocks ==
  ASSUME Typed, QueuesOK, LocksOK, NEW r, NEW x, Moved(r, x), Moves(r, x)
  PROVE  LocksOK'
<1>0. /\ r \in 1 .. Len(req) /\ Len(req') = Len(req)
      /\ \A s \in 1 .. Len(req) : req'[s] = IF s = r THEN x ELSE req[s]
      /\ \A s \in 1 .. Len(req) : Proc(s)' = Proc(s) /\ User(s)' = User(s)
  BY MovedRequests
<1>a. \A s \in 1 .. Len(req) : Proc(s) \in Procs /\ User(s) \in Users /\ s \in Ids /\ s # NoReq
  BY RequestFacts DEF Ids, NoReq
<1>b. /\ turnQ \in Queues /\ advisory \in [Users -> Ids \cup {NoReq}] /\ saved \in [Users -> Nat]
  BY TypesTogether DEF LockTypes
<1>c. \A s \in 1 .. Len(req) :
        /\ req[s].lock <=> req[s].at \in Locked
        /\ req[s].lock => Holds(turnQ, s)
        /\ req[s].at \in Turning => advisory[User(s)] = s /\ req[s].seen = saved[User(s)]
  BY DEF LocksOK
<1>d. \A u \in Users : advisory[u] # NoReq =>
        advisory[u] \in 1 .. Len(req) /\ req[advisory[u]].at \in Turning /\ User(advisory[u]) = u
  BY DEF LocksOK
<1>1. ASSUME NEW s \in 1 .. Len(req), s # r, Holds(turnQ, s)
      PROVE  Holds(turnQ, s)'
  <2> DEFINE q == turnQ[Proc(s)][User(s)]
  <2>1. q # <<>> /\ Head(q) = s
    BY <1>1 DEF Holds
  <2>2. Left(turnQ, r)[Proc(s)][User(s)] # <<>> /\ Head(Left(turnQ, r)[Proc(s)][User(s)]) = s
    BY <2>1, <1>0, <1>1, <1>a, QueueMembers
  <2>3. q \in Seq(Ids)
    BY <1>a, <1>b DEF Queues
  <2>4. Append(q, r) # <<>> /\ Head(Append(q, r)) = s
    <3> HIDE DEF q
    <3> QED  BY <2>1, <2>3, <1>0, <1>a, AppendMember
  <2>5. LET t == Queued(turnQ, Proc(r), User(r), r)[Proc(s)][User(s)] IN t # <<>> /\ Head(t) = s
    <3>1. Queued(turnQ, Proc(r), User(r), r)[Proc(s)][User(s)]
            = IF Proc(s) = Proc(r) /\ User(s) = User(r) THEN Append(q, r) ELSE q
      BY <1>0, <1>a, <1>b, QueuedQueue
    <3> QED  BY <3>1, <2>1, <2>4
  <2>6. turnQ' = turnQ \/ turnQ' = Left(turnQ, r) \/ turnQ' = Queued(turnQ, Proc(r), User(r), r)
    BY DEF Moves, Leaves, Ends, Enters, Connects, Begins, Works, locks
  <2>7. turnQ'[Proc(s)][User(s)] # <<>> /\ Head(turnQ'[Proc(s)][User(s)]) = s
    BY <2>1, <2>2, <2>5, <2>6
  <2>8. Proc(s)' = Proc(s) /\ User(s)' = User(s)
    BY <1>0
  <2> QED  BY <2>7, <2>8 DEF Holds
<1>2. ASSUME NEW s \in 1 .. Len(req), s # r
      PROVE  /\ req'[s].lock <=> req'[s].at \in Locked
             /\ req'[s].lock => Holds(turnQ, s)'
             /\ req'[s].at \in Turning => advisory'[User(s)] = s /\ req'[s].seen = saved'[User(s)]
  <2>1. req'[s] = req[s]
    BY <1>0, <1>2
  <2>2. ASSUME req[s].at \in Turning
        PROVE  advisory'[User(s)] = s /\ saved'[User(s)] = saved[User(s)]
    <3>1. advisory[User(s)] = s /\ User(s) \in Users /\ User(r) \in Users /\ s # NoReq
      BY <2>2, <1>0, <1>a, <1>c
    <3>2. req[r].at \in Turning => User(r) # User(s)
      BY <3>1, <1>0, <1>2, <1>c
    <3>3. advisory'[User(s)] = s
      BY <3>1, <1>2, <1>b DEF Moves, Leaves, Ends, Enters, Connects, Begins, Works, locks
    <3>4. saved'[User(s)] = saved[User(s)]
      BY <3>1, <3>2, <1>b DEF Moves, Leaves, Ends, Enters, Connects, Begins, Works, Turning
    <3> QED  BY <3>3, <3>4
  <2> QED  BY <2>1, <2>2, <1>1, <1>2, <1>c
<1>3. /\ req'[r].lock <=> req'[r].at \in Locked
      /\ req'[r].lock => Holds(turnQ, r)'
      /\ req'[r].at \in Turning => advisory'[User(r)] = r /\ req'[r].seen = saved'[User(r)]
  <2>1. req'[r] = x /\ User(r) \in Users /\ Proc(r)' = Proc(r) /\ User(r)' = User(r)
    BY <1>0, <1>a
  <2>2. /\ req[r].lock <=> req[r].at \in Locked
        /\ req[r].lock => Holds(turnQ, r)
        /\ req[r].at \in Turning => advisory[User(r)] = r /\ req[r].seen = saved[User(r)]
    BY <1>0, <1>c
  <2>3. turnQ' = turnQ /\ Holds(turnQ, r) => Holds(turnQ, r)'
    BY <2>1 DEF Holds
  <2>4. CASE Leaves(r, x) \/ Ends(r, x)
    BY <2>1, <2>4 DEF Leaves, Ends, Locked, Turning
  <2>5. CASE Enters(r, x)
    BY <2>1, <2>2, <2>5 DEF Enters, Locked, Turning
  <2>6. CASE Connects(r, x)
    BY <2>1, <2>3, <2>6 DEF Connects, Locked, Turning, locks
  <2>7. CASE Begins(r, x)
    BY <2>1, <2>2, <2>3, <2>7, <1>b DEF Begins, Locked, Turning
  <2>8. CASE Works(r, x)
    BY <2>1, <2>2, <2>3, <2>8 DEF Works, Locked, Turning, locks
  <2> QED  BY <2>4, <2>5, <2>6, <2>7, <2>8 DEF Moves
<1>4. ASSUME NEW u \in Users, advisory'[u] # NoReq
      PROVE  advisory'[u] \in 1 .. Len(req) /\ req'[advisory'[u]].at \in Turning /\ User(advisory'[u]) = u
  <2>1. CASE advisory'[u] = r
    <3>1. CASE Leaves(r, x)
      <4>1. User(r) = u
        <5>1. advisory[u] = r
          BY <3>1, <2>1, <1>0, <1>a, <1>b, <1>4 DEF Leaves
        <5> QED  BY <5>1, <1>0, <1>a, <1>d
      <4>2. advisory'[u] # r
        BY <4>1, <3>1, <1>0, <1>a, <1>b, <1>4 DEF Leaves
      <4> QED  BY <4>2, <2>1
    <3>2. CASE Begins(r, x)
      <4>1. User(r) = u
        <5>1. u # User(r) => advisory[u] = r
          BY <3>2, <2>1, <1>0, <1>a, <1>b DEF Begins
        <5> QED  BY <5>1, <1>0, <1>a, <1>d
      <4> QED  BY <4>1, <3>2, <2>1, <1>0 DEF Begins, Turning
    <3>3. CASE Ends(r, x) \/ Enters(r, x) \/ Connects(r, x) \/ Works(r, x)
      <4>1. advisory[u] = r
        BY <3>3, <2>1 DEF Ends, Enters, Connects, Works, locks
      <4>2. req[r].at \in Turning /\ User(r) = u
        BY <4>1, <1>0, <1>a, <1>d
      <4>3. x.at \in Turning
        BY <4>2, <3>3 DEF Ends, Enters, Connects, Works, Turning
      <4> QED  BY <4>2, <4>3, <2>1, <1>0
    <3> QED  BY <3>1, <3>2, <3>3 DEF Moves
  <2>2. CASE advisory'[u] # r
    <3>1. advisory'[u] = advisory[u]
      BY <2>2, <1>0, <1>a, <1>b, <1>4 DEF Moves, Leaves, Ends, Enters, Connects, Begins, Works, locks
    <3>2. advisory[u] \in 1 .. Len(req) /\ req[advisory[u]].at \in Turning /\ User(advisory[u]) = u
      BY <3>1, <1>4, <1>d
    <3> QED  BY <3>1, <3>2, <2>2, <1>0
  <2> QED  BY <2>1, <2>2
<1>5. \A s \in 1 .. Len(req') :
        /\ req'[s].lock <=> req'[s].at \in Locked
        /\ req'[s].lock => Holds(turnQ, s)'
        /\ req'[s].at \in Turning => advisory'[User(s)] = s /\ req'[s].seen = saved'[User(s)]
  BY <1>0, <1>2, <1>3
<1>6. \A s \in 1 .. Len(req') :
        /\ req'[s].lock <=> req'[s].at \in Locked
        /\ req'[s].lock => Holds(turnQ, s)'
        /\ req'[s].at \in Turning => advisory'[User(s)'] = s /\ req'[s].seen = saved'[User(s)']
  BY <1>0, <1>5
<1>7. ASSUME NEW u \in Users, advisory'[u] # NoReq
      PROVE  advisory'[u] \in 1 .. Len(req') /\ req'[advisory'[u]].at \in Turning /\ User(advisory[u])' = u
  <2>1. PICK a : a = advisory'[u]
    OBVIOUS
  <2>2. a \in 1 .. Len(req) /\ req'[a].at \in Turning /\ User(a) = u
    BY <2>1, <1>4, <1>7
  <2>3. User(a)' = u /\ a \in 1 .. Len(req')
    BY <2>2, <1>0
  <2> QED  BY <2>1, <2>2, <2>3 DEF User
<1> QED  BY <1>6, <1>7 DEF LocksOK

\* An arrival waits behind those who are there.
LEMMA ArrivesKeepsLocks ==
  ASSUME Typed, QueuesOK, LocksOK, NEW x, Arrives(x)
  PROVE  LocksOK'
<1>n. PICK n : n = Len(req) + 1
  OBVIOUS
<1>0. /\ Len(req') = n /\ Len(req) \in Nat /\ n \in Ids /\ req'[n] = x
      /\ x.msg \in Messages /\ x.proc \in Procs /\ Sender[x.msg] \in Users
      /\ \A s \in 1 .. Len(req) : req'[s] = req[s]
  BY <1>n, ArrivedRequests
<1>a. \A s \in 1 .. Len(req) : Proc(s)' = Proc(s) /\ User(s)' = User(s) /\ Proc(s) \in Procs /\ User(s) \in Users
  BY <1>0, RequestFacts DEF Proc, User
<1>b. turnQ \in Queues /\ advisory' = advisory /\ saved' = saved
  BY TypesTogether DEF LockTypes, Arrives
<1>1. ASSUME NEW s \in 1 .. Len(req), Holds(turnQ, s)
      PROVE  Holds(turnQ, s)'
  <2> DEFINE q == turnQ[Proc(s)][User(s)]
  <2>1. q # <<>> /\ Head(q) = s /\ q \in Seq(Ids)
    BY <1>1, <1>a, <1>b DEF Holds, Queues
  <2>2. Append(q, n) # <<>> /\ Head(Append(q, n)) = s
    <3> HIDE DEF q
    <3> QED  BY <2>1, <1>0, AppendMember
  <2>3. Queued(turnQ, x.proc, Sender[x.msg], n)[Proc(s)][User(s)]
          = IF Proc(s) = x.proc /\ User(s) = Sender[x.msg] THEN Append(q, n) ELSE q
    BY <1>0, <1>a, <1>b, QueuedQueue
  <2>4. turnQ' = turnQ \/ turnQ' = Queued(turnQ, x.proc, Sender[x.msg], n)
    BY <1>n DEF Arrives
  <2>5. turnQ'[Proc(s)][User(s)] # <<>> /\ Head(turnQ'[Proc(s)][User(s)]) = s
    BY <2>1, <2>2, <2>3, <2>4
  <2> QED  BY <2>5, <1>a DEF Holds
<1>2. ~ x.lock /\ x.at \in {"done", "turn", "sender"}
  BY DEF Arrives
<1>3. \A s \in 1 .. Len(req) :
        /\ req[s].lock <=> req[s].at \in Locked
        /\ req[s].lock => Holds(turnQ, s)
        /\ req[s].at \in Turning => advisory[User(s)] = s /\ req[s].seen = saved[User(s)]
  BY DEF LocksOK
<1>4. \A u \in Users : advisory[u] # NoReq =>
        advisory[u] \in 1 .. Len(req) /\ req[advisory[u]].at \in Turning /\ User(advisory[u]) = u
  BY DEF LocksOK
<1>5. ASSUME NEW s \in 1 .. n
      PROVE  /\ req'[s].lock <=> req'[s].at \in Locked
             /\ req'[s].lock => Holds(turnQ, s)'
             /\ req'[s].at \in Turning => advisory'[User(s)'] = s /\ req'[s].seen = saved'[User(s)']
  <2>1. CASE s = n
    BY <2>1, <1>0, <1>2 DEF Locked, Turning
  <2>2. CASE s # n
    <3>1. s \in 1 .. Len(req)
      BY <2>2, <1>n, <1>0
    <3> QED  BY <3>1, <1>0, <1>a, <1>b, <1>1, <1>3
  <2> QED  BY <2>1, <2>2
<1>6. ASSUME NEW u \in Users, advisory'[u] # NoReq
      PROVE  advisory'[u] \in 1 .. n /\ req'[advisory'[u]].at \in Turning /\ User(advisory[u])' = u
  <2>1. PICK a : a = advisory[u]
    OBVIOUS
  <2>2. a \in 1 .. Len(req) /\ req[a].at \in Turning /\ User(a) = u
    BY <2>1, <1>b, <1>4, <1>6
  <2>3. a \in 1 .. n /\ req'[a].at \in Turning /\ User(a)' = u
    BY <2>2, <1>n, <1>0, <1>a
  <2> QED  BY <2>1, <2>3, <1>b DEF User
<1> QED  BY <1>0, <1>5, <1>6 DEF LocksOK

\* A process that dies gives back its locks, and no others.
LEMMA CrashKeepsLocks ==
  ASSUME Typed, QueuesOK, LocksOK, NEW d \in Procs, Crash(d)
  PROVE  LocksOK'
<1>0. /\ Len(req') = Len(req)
      /\ \A s \in 1 .. Len(req) : req'[s] = IF Proc(s) = d THEN Finished(req[s]) ELSE req[s]
      /\ \A s \in 1 .. Len(req) : Proc(s)' = Proc(s) /\ User(s)' = User(s)
  BY CrashRequests
<1>a. \A s \in 1 .. Len(req) : Proc(s) \in Procs /\ User(s) \in Users /\ s # NoReq
                               /\ Finished(req[s]).at = "done" /\ ~ Finished(req[s]).lock
  BY RequestFacts, FinishedTyped DEF Ids, NoReq
<1>b. turnQ \in Queues
  BY TypesTogether DEF LockTypes
<1>c. /\ advisory' = [u \in Users |-> IF advisory[u] # NoReq /\ Proc(advisory[u]) = d THEN NoReq ELSE advisory[u]]
      /\ turnQ' = [turnQ EXCEPT ![d] = [u \in Users |-> <<>>]] /\ saved' = saved
  BY DEF Crash, tables
<1>1. \A s \in 1 .. Len(req) :
        /\ req[s].lock <=> req[s].at \in Locked
        /\ req[s].lock => Holds(turnQ, s)
        /\ req[s].at \in Turning => advisory[User(s)] = s /\ req[s].seen = saved[User(s)]
  BY DEF LocksOK
<1>2. \A u \in Users : advisory[u] # NoReq =>
        advisory[u] \in 1 .. Len(req) /\ req[advisory[u]].at \in Turning /\ User(advisory[u]) = u
  BY DEF LocksOK
<1>3. ASSUME NEW s \in 1 .. Len(req)
      PROVE  /\ req'[s].lock <=> req'[s].at \in Locked
             /\ req'[s].lock => Holds(turnQ, s)'
             /\ req'[s].at \in Turning => advisory'[User(s)'] = s /\ req'[s].seen = saved'[User(s)']
  <2>1. CASE Proc(s) = d
    BY <2>1, <1>0, <1>a DEF Locked, Turning
  <2>2. CASE Proc(s) # d
    <3>1. req'[s] = req[s] /\ Proc(s)' = Proc(s) /\ User(s)' = User(s) /\ Proc(s) \in Procs /\ User(s) \in Users
      BY <2>2, <1>0, <1>a
    <3>2. turnQ'[Proc(s)] = turnQ[Proc(s)]
      BY <2>2, <3>1, <1>b, <1>c DEF Queues
    <3>3. Holds(turnQ, s) => Holds(turnQ, s)'
      BY <3>1, <3>2 DEF Holds
    <3>4. advisory[User(s)] = s => advisory'[User(s)] = s
      BY <2>2, <3>1, <1>c
    <3> QED  BY <3>1, <3>3, <3>4, <1>1, <1>c
  <2> QED  BY <2>1, <2>2
<1>4. ASSUME NEW u \in Users, advisory'[u] # NoReq
      PROVE  advisory'[u] \in 1 .. Len(req) /\ req'[advisory'[u]].at \in Turning /\ User(advisory[u])' = u
  <2>1. PICK a : a = advisory[u]
    OBVIOUS
  <2>2. advisory'[u] = a /\ a # NoReq /\ Proc(a) # d
    BY <2>1, <1>4, <1>c
  <2>3. a \in 1 .. Len(req) /\ req[a].at \in Turning /\ User(a) = u
    BY <2>1, <2>2, <1>2
  <2>4. req'[a].at \in Turning /\ User(a)' = u
    BY <2>2, <2>3, <1>0
  <2> QED  BY <2>2, <2>3, <2>4 DEF User
<1> QED  BY <1>0, <1>3, <1>4 DEF LocksOK

\* Every step keeps the types of the locks, the order of the queues, and the locks.
LEMMA LocksKept ==
  ASSUME Typed, QueuesOK, LocksOK, [Next]_vars
  PROVE  LockTypes' /\ QueuesOK' /\ LocksOK'
<1>1. ASSUME NEW x, Arrives(x)
      PROVE  LockTypes' /\ QueuesOK' /\ LocksOK'
  BY <1>1, ArrivesTyped, ArrivesKeepsQueues, ArrivesKeepsLocks
<1>2. ASSUME NEW r, NEW x, Moved(r, x), Moves(r, x)
      PROVE  LockTypes' /\ QueuesOK' /\ LocksOK'
  BY <1>2, MovesTyped, MovesKeepQueues, MovesKeepLocks
<1>3. ASSUME NEW p \in Procs, Crash(p)
      PROVE  LockTypes' /\ QueuesOK' /\ LocksOK'
  BY <1>3, CrashTyped, CrashKeepsQueues, CrashKeepsLocks
<1>4. CASE Kept
  <2>1. LockTypes'
    BY <1>4, TypesTogether DEF Kept, locks, LockTypes
  <2>2. QueuesOK'
    BY <1>4 DEF Kept, locks, QueuesOK, QueueOK, Distinct, Members, Proc, User, OnWeb
  <2>3. LocksOK'
    BY <1>4 DEF Kept, locks, LocksOK, Holds, Proc, User
  <2> QED  BY <2>1, <2>2, <2>3
<1> QED  BY <1>1, <1>2, <1>3, <1>4, EveryStep

-----------------------------------------------------------------------------
(* Deliveries and the tables. *)

\* Messages are delivered and recorded as DeliveriesOK says when nothing but req changes,
\* and no delivery becomes another.
LEMMA SameDeliveries ==
  ASSUME Typed, DeliveriesOK, Len(req') = Len(req),
         \A s \in 1 .. Len(req) : req'[s].msg = req[s].msg,
         inbox' = inbox,
         \/ writers' = writers
         \/ \E r \in 1 .. Len(req) : writers' = [writers EXCEPT ![req[r].msg] = @ \cup {r}]
  PROVE  DeliveriesOK'
<1>1. \A s \in 1 .. Len(req) : OnWeb(s)' = OnWeb(s)
  BY DEF OnWeb
<1>2. \A m \in Messages : Delivered(m)' = Delivered(m)
  BY DEF Delivered
<1>3. \A m \in Messages : writers'[m] \subseteq Delivered(m)
  <2>1. writers \in [Messages -> SUBSET Ids]
    BY DEF Typed, TypeOK
  <2>2. \A r \in 1 .. Len(req) : r \in Delivered(req[r].msg)
    BY DEF Delivered
  <2> QED  BY <2>1, <2>2 DEF DeliveriesOK
<1>4. \A r \in 1 .. Len(req') : ~ OnWeb(r)' => req'[r].msg \in inbox'
  BY <1>1 DEF DeliveriesOK
<1>5. \A r, s \in 1 .. Len(req') : ~ OnWeb(r)' /\ req'[r].msg = req'[s].msg => r = s
  BY <1>1 DEF DeliveriesOK
<1> QED  BY <1>2, <1>3, <1>4, <1>5 DEF DeliveriesOK

\* A request's own steps: it records its message, or nothing.
LEMMA ProceedTables ==
  ASSUME Typed, NEW r \in Ids, Proceed(r)
  PROVE  /\ TableTypes' /\ inbox' = inbox
         /\ \/ writers' = writers
            \/ \E s \in 1 .. Len(req) : writers' = [writers EXCEPT ![req[s].msg] = @ \cup {s}]
<1>0. r \in 1 .. Len(req)
  BY DEF Proceed, At, BeginInbound, InboundTimeout, LocalTimeout, Connect, ConnectTimeout, TakeAdvisory,
     AdvisoryTimeout, CallModel, UseTool, Answer, HandOff, Nudge, Slip, FailRun, Save, SaveTimeout, Store,
     Send
<1>1. req[r].msg \in Messages /\ r \in Ids
  BY <1>0, RequestFacts
<1>2. inbox \subseteq Messages /\ stored \subseteq Messages /\ writers \in [Messages -> SUBSET Ids]
      /\ twists \in 0 .. MaxTwists
  BY DEF Typed, TypeOK
<1>3. CASE UNCHANGED <<tables, twists>>
  BY <1>3, <1>2 DEF tables, TableTypes
<1>4. CASE UNCHANGED tables /\ Twist
  BY <1>4, <1>2, BoundsAreNatural DEF tables, Twist, TableTypes
<1>5. CASE UseTool(r)
  <2>1. writers' = [writers EXCEPT ![req[r].msg] = @ \cup {r}] /\ UNCHANGED <<inbox, stored, twists>>
    BY <1>5 DEF UseTool
  <2> QED  BY <2>1, <1>0, <1>1, <1>2 DEF TableTypes
<1>6. CASE Save(r)
  BY <1>6, <1>2 DEF Save, TableTypes
<1>7. CASE Store(r)
  BY <1>7, <1>1, <1>2 DEF Store, TableTypes
<1>8. CASE HandOff(r) \/ Nudge(r) \/ Slip(r) \/ FailRun(r)
  <2>1. Twist /\ UNCHANGED <<inbox, stored, writers>>
    BY <1>8 DEF HandOff, Nudge, Slip, FailRun, tables
  <2> QED  BY <2>1, <1>2, BoundsAreNatural DEF Twist, TableTypes
<1>9. CASE ~ (UseTool(r) \/ Save(r) \/ Store(r) \/ HandOff(r) \/ Nudge(r) \/ Slip(r) \/ FailRun(r))
  <2>1. UNCHANGED <<inbox, stored, writers, twists>>
    BY <1>9 DEF Proceed, BeginInbound, InboundTimeout, LocalTimeout, Connect, ConnectTimeout,
       TakeAdvisory, AdvisoryTimeout, GiveUp, CallModel, Answer, SaveTimeout, Send, tables
  <2> QED  BY <2>1, <1>2 DEF TableTypes
<1> QED  BY <1>5, <1>6, <1>7, <1>8, <1>9 DEF Save

\* A redelivery is dropped, so a WhatsApp message has one delivery.
LEMMA DeliveriesKept ==
  ASSUME Typed, DeliveriesOK, [Next]_vars
  PROVE  TableTypes' /\ DeliveriesOK'
<1>a. inbox \subseteq Messages /\ stored \subseteq Messages /\ writers \in [Messages -> SUBSET Ids]
      /\ twists \in 0 .. MaxTwists
  BY DEF Typed, TypeOK
<1>1. CASE UNCHANGED vars
  BY <1>1, <1>a, SameDeliveries DEF vars, TableTypes
<1>2. ASSUME NEW m \in Messages, NEW p \in Procs, Post(m, p) \/ Deliver(m, p)
      PROVE  TableTypes' /\ DeliveriesOK'
  <2>1. PICK x : x.msg = m /\ Arrives(x)
    BY <1>2, ArrivalArrives
  <2>n. PICK n : n = Len(req) + 1
    OBVIOUS
  <2>2. /\ Len(req') = n /\ Len(req) \in Nat /\ req'[n] = x
        /\ \A s \in 1 .. Len(req) : req'[s] = req[s]
    BY <2>1, <2>n, ArrivedRequests
  <2>3. /\ writers' = writers /\ stored' = stored /\ twists' = twists
        /\ \/ Channel[m] = "web" /\ inbox' = inbox
           \/ Channel[m] # "web" /\ m \notin inbox /\ inbox' = inbox \cup {m}
    BY <1>2 DEF Post, Deliver, tables
  <2>4. TableTypes'
    BY <2>3, <1>a DEF TableTypes
  <2>5. \A s \in 1 .. Len(req) : OnWeb(s)' = OnWeb(s)
    BY <2>2 DEF OnWeb
  <2>6. OnWeb(n)' = (Channel[m] = "web")
    BY <2>1, <2>2 DEF OnWeb
  <2>7. \A s \in 1 .. n : s = n \/ s \in 1 .. Len(req)
    BY <2>n, <2>2
  <2>8. \A s \in 1 .. n : ~ OnWeb(s)' => req'[s].msg \in inbox'
    BY <2>1, <2>2, <2>3, <2>5, <2>6, <2>7 DEF DeliveriesOK
  <2>9. ASSUME NEW s \in 1 .. Len(req), req[s].msg = m, Channel[m] # "web"
        PROVE  FALSE
    <3>1. ~ OnWeb(s)
      BY <2>9 DEF OnWeb
    <3> QED  BY <3>1, <2>3, <2>9 DEF DeliveriesOK
  <2>10. ASSUME NEW s \in 1 .. n, NEW t \in 1 .. n, ~ OnWeb(s)', req'[s].msg = req'[t].msg
         PROVE  s = t
    <3>1. Channel[req'[s].msg] # "web"
      BY <2>10 DEF OnWeb
    <3>2. CASE s = n
      BY <3>1, <3>2, <2>1, <2>2, <2>7, <2>9, <2>10
    <3>3. CASE t = n
      BY <3>1, <3>3, <2>1, <2>2, <2>7, <2>9, <2>10
    <3>4. CASE s # n /\ t # n
      <4>1. s \in 1 .. Len(req) /\ t \in 1 .. Len(req)
        BY <3>4, <2>7
      <4> QED  BY <4>1, <2>2, <2>5, <2>10 DEF DeliveriesOK
    <3> QED  BY <3>2, <3>3, <3>4
  <2>11. \A k \in Messages : Delivered(k) \subseteq Delivered(k)'
    <3>1. \A s \in 1 .. Len(req) : s \in 1 .. Len(req')
      BY <2>n, <2>2
    <3> QED  BY <3>1, <2>2 DEF Delivered
  <2> QED  BY <2>2, <2>3, <2>4, <2>8, <2>10, <2>11 DEF DeliveriesOK
<1>3. ASSUME NEW p \in Procs, CoolDown(p)
      PROVE  TableTypes' /\ DeliveriesOK'
  BY <1>3, <1>a, SameDeliveries DEF CoolDown, tables, TableTypes
<1>4. ASSUME NEW p \in Procs, Crash(p)
      PROVE  TableTypes' /\ DeliveriesOK'
  <2>1. UNCHANGED <<inbox, stored, writers>> /\ Twist
    BY <1>4 DEF Crash, tables
  <2>2. Len(req') = Len(req) /\ \A s \in 1 .. Len(req) : req'[s].msg = req[s].msg
    BY <1>4, CrashRequests
  <2>3. DeliveriesOK'
    BY <2>1, <2>2, SameDeliveries
  <2> QED  BY <2>1, <2>3, <1>a, BoundsAreNatural DEF Twist, TableTypes
<1>5. ASSUME NEW r \in Ids, Proceed(r)
      PROVE  TableTypes' /\ DeliveriesOK'
  <2>1. PICK s, x : Moved(s, x)
    BY <1>5, ProceedMoves
  <2>2. Len(req') = Len(req) /\ \A t \in 1 .. Len(req) : req'[t].msg = req[t].msg
    BY <2>1, MovedRequests
  <2>3. /\ TableTypes' /\ inbox' = inbox
        /\ \/ writers' = writers
           \/ \E t \in 1 .. Len(req) : writers' = [writers EXCEPT ![req[t].msg] = @ \cup {t}]
    BY <1>5, ProceedTables
  <2> QED  BY <2>2, <2>3, SameDeliveries
<1> QED  BY <1>1, <1>2, <1>3, <1>4, <1>5 DEF Next

-----------------------------------------------------------------------------
(* The theorems. *)

\* The inductive invariant: queues, locks, deliveries and breakers agree in every state, for any
\* traders, processes, messages, pool size and bounds.
THEOREM InvariantHolds == Spec => []TurnsInv
<1>1. Init => TurnsInv
  <2> SUFFICES ASSUME Init PROVE TurnsInv
    OBVIOUS
  <2>0. req = <<>> /\ Len(req) = 0
    BY DEF Init
  <2>1. Typed
    <3>1. LockTypes
      BY <2>0, BoundsAreNatural DEF Init, LockTypes, Queues
    <3>2. ModelTypes
      BY DEF Init, ModelTypes, Closed, Breaker
    <3>3. TableTypes
      BY BoundsAreNatural DEF Init, TableTypes
    <3> QED  BY <3>1, <3>2, <3>3, TypesTogether
  <2>2. DeliveriesOK
    BY <2>0 DEF Init, DeliveriesOK
  <2>3. BreakerOK
    BY DEF Init, BreakerOK, Closed
  <2>4. QueuesOK
    BY DEF Init, QueuesOK, QueueOK, Distinct, Members
  <2>5. LocksOK
    BY <2>0 DEF Init, LocksOK
  <2> QED  BY <2>1, <2>2, <2>3, <2>4, <2>5 DEF TurnsInv, Typed
<1>2. TurnsInv /\ [Next]_vars => TurnsInv'
  <2> SUFFICES ASSUME TurnsInv, [Next]_vars PROVE TurnsInv'
    OBVIOUS
  <2>1. Typed /\ DeliveriesOK /\ BreakerOK /\ QueuesOK /\ LocksOK
    BY DEF TurnsInv, Typed
  <2>2. LockTypes' /\ QueuesOK' /\ LocksOK'
    BY <2>1, LocksKept
  <2>3. ModelTypes' /\ BreakerOK'
    BY <2>1, BreakerKept
  <2>4. TableTypes' /\ DeliveriesOK'
    BY <2>1, DeliveriesKept
  <2>5. TypeOK' /\ (Len(req) <= MaxRequests)'
    BY <2>2, <2>3, <2>4 DEF TypeOK, LockTypes, ModelTypes, TableTypes, Queues
  <2> QED  BY <2>2, <2>3, <2>4, <2>5 DEF TurnsInv
<1> QED  BY <1>1, <1>2, PTL DEF Spec

\* Every variable keeps its type; in particular a message is never handed off more than
\* MAX_HANDOFFS times.
THEOREM TypeCorrect == Spec => []TypeOK
<1>1. TurnsInv => TypeOK
  BY DEF TurnsInv
<1> QED  BY <1>1, InvariantHolds, PTL

\* Between reading a trader's history and saving the exchange (respond, under user_turn_lock)
\* nobody else saves one for the same trader, in any process and over any channel.
THEOREM TurnsAreSerial == Spec => []HistoryIsSerial
<1>1. TurnsInv => HistoryIsSerial
  BY DEF TurnsInv, LocksOK, HistoryIsSerial, Turning
<1> QED  BY <1>1, InvariantHolds, PTL

\* A WhatsApp message is recorded by one delivery at most (receive_webhook's insert into
\* whatsapp_inbound_messages), however often it is delivered and whichever process dies.
THEOREM RedeliveriesRecordOnce == Spec => []RedeliveryRecordsOnce
<1>1. TurnsInv => RedeliveryRecordsOnce
  <2> SUFFICES ASSUME TurnsInv, NEW m \in Messages, Channel[m] = "whatsapp"
               PROVE  Cardinality(writers[m]) <= 1
    BY DEF RedeliveryRecordsOnce
  <2>1. writers[m] \subseteq Delivered(m)
    BY DEF TurnsInv, DeliveriesOK
  <2>2. \A r, s \in writers[m] : r = s
    BY <2>1 DEF TurnsInv, DeliveriesOK, Delivered, OnWeb
  <2>3. CASE writers[m] = {}
    BY <2>3, FS_EmptySet
  <2>4. CASE writers[m] # {}
    <3>1. PICK r : r \in writers[m]
      BY <2>4
    <3>2. writers[m] = {r}
      BY <2>2, <3>1
    <3>3. Cardinality({r}) = 1
      BY FS_Singleton
    <3> QED  BY <3>2, <3>3
  <2> QED  BY <2>3, <2>4
<1> QED  BY <1>1, InvariantHolds, PTL

\* No request ends with a lock or the lock's connection: whoever has them is in its turn, at the
\* head of its process's queue (user_turn_lock's finally blocks, on every way out).
THEOREM LocksAreGivenBack == Spec => []NothingLeaks
<1>1. TurnsInv => NothingLeaks
  <2> SUFFICES ASSUME TurnsInv PROVE NothingLeaks
    OBVIOUS
  <2>1. ASSUME NEW u \in Users, advisory[u] # NoReq
        PROVE  LET r == advisory[u] IN InTurn(r) /\ User(r) = u /\ Holds(turnQ, r)
    <3>1. /\ advisory[u] \in 1 .. Len(req) /\ req[advisory[u]].at \in Turning /\ User(advisory[u]) = u
      BY <2>1 DEF TurnsInv, LocksOK
    <3>2. req[advisory[u]].at \in Locked
      BY <3>1 DEF Turning, Locked
    <3>3. Holds(turnQ, advisory[u])
      BY <3>1, <3>2 DEF TurnsInv, LocksOK
    <3> QED  BY <3>1, <3>3 DEF InTurn, Turning
  <2>2. ASSUME NEW p \in Procs, NEW u \in Users
        PROVE  /\ \A i \in 1 .. Len(turnQ[p][u]) :
                    InTurn(turnQ[p][u][i]) \/ req[turnQ[p][u][i]].at \in {"turn", "advisory"}
               /\ \A i \in 1 .. Len(senderQ[p][u]) : req[senderQ[p][u][i]].at # "done"
    <3>1. /\ \A r \in Members(turnQ[p][u]) : req[r].at \in Queueing
          /\ \A r \in Members(senderQ[p][u]) : req[r].at # "done"
      BY DEF TurnsInv, QueuesOK
    <3> QED  BY <3>1 DEF Members, Queueing, InTurn
  <2>3. \A r \in 1 .. Len(req) : req[r].lock => Holds(turnQ, r)
    BY DEF TurnsInv, LocksOK
  <2> QED  BY <2>1, <2>2, <2>3 DEF NothingLeaks
<1> QED  BY <1>1, InvariantHolds, PTL

\* CircuitBreaker refuses calls only after fail_max runs in a row have failed.
THEOREM BreakerOpensOnOutage == Spec => []OpensOnOutage
<1>1. TurnsInv => OpensOnOutage
  BY DEF TurnsInv, BreakerOK, OpensOnOutage
<1> QED  BY <1>1, InvariantHolds, PTL
=============================================================================
