------------------------------- MODULE Turns -------------------------------
(***************************************************************************)
(* The traders' messages becoming turns: the web's POST /api/v1/message    *)
(* with its idempotency record (main.py, utils.py), WhatsApp's webhook     *)
(* with its redeliveries and per-sender lock (channels/whatsapp.py), the   *)
(* turn lock across processes (tools/turn_lock.py), the connection pool    *)
(* all of them share (db.py), the agents' runs and the circuit breaker     *)
(* (agents/team.py, tools/router.py), and the exchange saved at the end    *)
(* (tools/assistant.py).                                                   *)
(*                                                                         *)
(* A request is one delivery of a message to one process.  Of a message's  *)
(* content only whether a tool recorded it matters.  The connection that   *)
(* holds an advisory lock is not lost while its process lives.             *)
(***************************************************************************)
EXTENDS Naturals, Sequences, FiniteSets

CONSTANTS
  Users, Procs,
  Messages,      \* an Idempotency-Key or a wamid each, numbered as they first arrive
  Sender,        \* whose message it is
  Channel,       \* "web" or "whatsapp"
  PoolSize,      \* DB_POOL_SIZE + DB_MAX_OVERFLOW
  FailMax,       \* CircuitBreaker.fail_max
  MaxHandoffs,   \* MAX_HANDOFFS
  MaxRequests,   \* bound: deliveries
  MaxTwists      \* bound: handoffs, unbacked claims, slips and failures of the model, crashes

ASSUME MessagesAreNumbered == Messages \subseteq Nat
ASSUME MessagesHaveSenders == Sender \in [Messages -> Users]
ASSUME MessagesHaveChannels == Channel \in [Messages -> {"web", "whatsapp"}]
ASSUME BoundsAreNatural ==
  /\ PoolSize \in Nat \ {0} /\ FailMax \in Nat \ {0}
  /\ MaxHandoffs \in Nat /\ MaxRequests \in Nat /\ MaxTwists \in Nat

NoReq == 0
Ids == 1 .. MaxRequests

VARIABLES
  req,        \* the deliveries, in order of arrival
  senderQ,    \* _sender_locks: per process, the head holds the sender's lock
  turnQ,      \* _local_locks: per process, the head holds the user's lock
  advisory,   \* pg_advisory_lock: who holds the user's
  breaker,    \* llm_breaker of each process
  inbox,      \* whatsapp_inbound_messages
  stored,     \* idempotency_records
  saved,      \* conversation_turns: exchanges of each user
  writers,    \* history: the deliveries that recorded each message in the ledger
  streak,     \* history: runs that failed in a row, per process
  twists      \* history: use of the bound

vars == <<req, senderQ, turnQ, advisory, breaker, inbox, stored, saved, writers, streak, twists>>
locks == <<senderQ, turnQ, advisory>>
tables == <<inbox, stored, saved, writers>>
model == <<breaker, streak>>

Steps == {"sender", "turn", "advisory", "call", "called", "save", "store", "send", "done"}

\* conn: its session holds a connection; lock: the turn lock's own connection; seen: exchanges
\* in the history it read; wrote: an entry recorded by the agent now running.
Request == [at : Steps, msg : Messages, proc : Procs, conn : BOOLEAN, lock : BOOLEAN, seen : Nat,
            hops : 0 .. MaxHandoffs, nudged : BOOLEAN, slipped : BOOLEAN, wrote : BOOLEAN]

Breaker == [failures : Nat, opened : {"no", "yes", "cooled"}]
Closed == [failures |-> 0, opened |-> "no"]

TypeOK ==
  /\ req \in Seq(Request)
  /\ senderQ \in [Procs -> [Users -> Seq(Ids)]]
  /\ turnQ \in [Procs -> [Users -> Seq(Ids)]]
  /\ advisory \in [Users -> Ids \cup {NoReq}]
  /\ breaker \in [Procs -> Breaker]
  /\ inbox \subseteq Messages /\ stored \subseteq Messages
  /\ saved \in [Users -> Nat]
  /\ writers \in [Messages -> SUBSET Ids]
  /\ streak \in [Procs -> Nat]
  /\ twists \in 0 .. MaxTwists

-----------------------------------------------------------------------------
User(r) == Sender[req[r].msg]
Proc(r) == req[r].proc
OnWeb(r) == Channel[req[r].msg] = "web"

At(r, step) == r \in 1 .. Len(req) /\ req[r].at = step
InTurn(r) == req[r].at \in {"call", "called", "save"}

New(m, p, at, conn) ==
  [at |-> at, msg |-> m, proc |-> p, conn |-> conn, lock |-> FALSE, seen |-> 0, hops |-> 0,
   nudged |-> FALSE, slipped |-> FALSE, wrote |-> FALSE]

Finished(x) == New(x.msg, x.proc, "done", FALSE)

InUse(p) ==
  LET here == {r \in 1 .. Len(req) : req[r].proc = p}
  IN  Cardinality({r \in here : req[r].conn}) + Cardinality({r \in here : req[r].lock})

\* A connection is to be had, or the session still has one.
Free(p) == InUse(p) < PoolSize
HasConn(r) == req[r].conn \/ Free(Proc(r))

Holds(q, r) == q[Proc(r)][User(r)] # <<>> /\ Head(q[Proc(r)][User(r)]) = r
Queued(q, p, u, r) == [q EXCEPT ![p][u] = Append(@, r)]

\* The queue s without r, wherever r waits in it.
Without(s, r) ==
  LET i == CHOOSE i \in 1 .. Len(s) : s[i] = r
  IN  IF \E j \in 1 .. Len(s) : s[j] = r
      THEN [j \in 1 .. Len(s) - 1 |-> IF j < i THEN s[j] ELSE s[j + 1]]
      ELSE s

Left(q, r) == [q EXCEPT ![Proc(r)][User(r)] = Without(@, r)]

Twist ==
  /\ twists < MaxTwists
  /\ twists' = twists + 1

-----------------------------------------------------------------------------
(* Deliveries. *)

InOrder(m) ==
  \A k \in Messages :
    k < m /\ Sender[k] = Sender[m] /\ Channel[k] = Channel[m] => \E r \in 1 .. Len(req) : req[r].msg = k

\* post_message up to the turn lock: the session's connection, the user, the stored answer.
Post(m, p) ==
  /\ Channel[m] = "web" /\ InOrder(m) /\ Len(req) < MaxRequests /\ Free(p)
  /\ IF m \in stored
     THEN /\ req' = Append(req, New(m, p, "done", FALSE))
          /\ UNCHANGED turnQ
     ELSE /\ req' = Append(req, New(m, p, "turn", TRUE))
          /\ turnQ' = Queued(turnQ, p, Sender[m], Len(req) + 1)
  /\ UNCHANGED <<senderQ, advisory, model, tables, twists>>

\* Mutant: the wamid is kept, and not looked at.
DeliverUnchecked(m, p) ==
  /\ Channel[m] = "whatsapp" /\ InOrder(m) /\ Len(req) < MaxRequests /\ Free(p)
  /\ inbox' = inbox \cup {m}
  /\ req' = Append(req, New(m, p, "sender", FALSE))
  /\ senderQ' = Queued(senderQ, p, Sender[m], Len(req) + 1)
  /\ UNCHANGED <<turnQ, advisory, model, stored, saved, writers, twists>>

\* receive_webhook: a wamid that is already stored is a redelivery, and dropped.
Deliver(m, p) ==
  /\ Channel[m] = "whatsapp" /\ InOrder(m) /\ Len(req) < MaxRequests /\ Free(p)
  /\ m \notin inbox
  /\ inbox' = inbox \cup {m}
  /\ req' = Append(req, New(m, p, "sender", FALSE))
  /\ senderQ' = Queued(senderQ, p, Sender[m], Len(req) + 1)
  /\ UNCHANGED <<turnQ, advisory, model, stored, saved, writers, twists>>

\* Mutant: the sender's lock is kept.
DoneLocked(r) ==
  /\ req' = [req EXCEPT ![r] = Finished(@)]
  /\ UNCHANGED senderQ

\* The request is over: answered, or failed.
Done(r) ==
  /\ req' = [req EXCEPT ![r] = Finished(@)]
  /\ senderQ' = Left(senderQ, r)

\* process_inbound has the sender's lock and looks the trader up.
BeginInbound(r) ==
  /\ At(r, "sender") /\ Holds(senderQ, r)
  /\ Free(Proc(r))
  /\ req' = [req EXCEPT ![r].at = "turn", ![r].conn = TRUE]
  /\ turnQ' = Queued(turnQ, Proc(r), User(r), r)
  /\ UNCHANGED <<senderQ, advisory, model, tables, twists>>

\* pool_timeout there: nobody catches it, and the trader gets no reply.
InboundTimeout(r) ==
  /\ At(r, "sender") /\ Holds(senderQ, r)
  /\ ~ Free(Proc(r))
  /\ Done(r)
  /\ UNCHANGED <<turnQ, advisory, model, tables, twists>>

-----------------------------------------------------------------------------
(* The turn lock. *)

\* Out of user_turn_lock: unlock, close the lock's connection, release the process's lock.
Release(r, x) ==
  /\ advisory' = [advisory EXCEPT ![User(r)] = IF @ = r THEN NoReq ELSE @]
  /\ turnQ' = Left(turnQ, r)
  /\ req' = [req EXCEPT ![r] = x]

\* Mutant: an exception leaves the lock's connection open.
FailedConnected(r) ==
  Release(r, IF OnWeb(r) THEN Finished(req[r]) ELSE [New(req[r].msg, Proc(r), "send", req[r].conn)
                                                     EXCEPT !.lock = req[r].lock])

\* respond raises; the channel still tells the trader.
Failed(r) ==
  Release(r, IF OnWeb(r) THEN Finished(req[r]) ELSE New(req[r].msg, Proc(r), "send", req[r].conn))

GiveUp(r) ==
  /\ Failed(r)
  /\ UNCHANGED <<senderQ, model, tables, twists>>

\* TURN_LOCK_TIMEOUT in the process
LocalTimeout(r) ==
  /\ At(r, "turn") /\ ~ Holds(turnQ, r)
  /\ GiveUp(r)

\* A second connection, for the lock
Connect(r) ==
  /\ At(r, "turn") /\ Holds(turnQ, r)
  /\ Free(Proc(r))
  /\ req' = [req EXCEPT ![r].at = "advisory", ![r].lock = TRUE]
  /\ UNCHANGED <<locks, model, tables, twists>>

\* pool_timeout: 30 s
ConnectTimeout(r) ==
  /\ At(r, "turn") /\ Holds(turnQ, r)
  /\ ~ Free(Proc(r))
  /\ GiveUp(r)

\* The lock, and then the trader's history.
TakeAdvisory(r) ==
  /\ At(r, "advisory") /\ advisory[User(r)] = NoReq
  /\ advisory' = [advisory EXCEPT ![User(r)] = r]
  /\ req' = [req EXCEPT ![r].at = "call", ![r].seen = saved[User(r)]]
  /\ UNCHANGED <<senderQ, turnQ, model, tables, twists>>

\* lock_timeout in Postgres
AdvisoryTimeout(r) ==
  /\ At(r, "advisory") /\ advisory[User(r)] # NoReq
  /\ GiveUp(r)

-----------------------------------------------------------------------------
(* The turn. *)

Goto(r, at) == req' = [req EXCEPT ![r].at = at]

\* handle_message: is_open lets calls through once it has cooled, one failure from opening.
CallModel(r) ==
  /\ At(r, "call")
  /\ LET p == Proc(r) IN
       IF breaker[p].opened = "yes"
       THEN /\ Failed(r) /\ UNCHANGED breaker
       ELSE /\ Goto(r, "called") /\ UNCHANGED <<turnQ, advisory>>
            /\ breaker' = [breaker EXCEPT ![p] =
                             IF @.opened = "cooled" THEN [failures |-> FailMax - 1, opened |-> "no"] ELSE @]
  /\ UNCHANGED <<senderQ, streak, tables, twists>>

\* Mutant: a lock of the transaction goes with the first commit.
UseToolUnlocking(r) ==
  /\ At(r, "called") /\ ~ req[r].wrote /\ HasConn(r)
  /\ writers' = [writers EXCEPT ![req[r].msg] = @ \cup {r}]
  /\ req' = [req EXCEPT ![r].wrote = TRUE, ![r].conn = FALSE]
  /\ advisory' = [advisory EXCEPT ![User(r)] = NoReq]
  /\ UNCHANGED <<senderQ, turnQ, model, inbox, stored, saved, twists>>

\* A tool of the run changes the ledger: committed, and the session's connection goes back.
UseTool(r) ==
  /\ At(r, "called") /\ ~ req[r].wrote /\ HasConn(r)
  /\ writers' = [writers EXCEPT ![req[r].msg] = @ \cup {r}]
  /\ req' = [req EXCEPT ![r].wrote = TRUE, ![r].conn = FALSE]
  /\ UNCHANGED <<locks, model, inbox, stored, saved, twists>>

\* Mutant: failures add up across successes.
SuccessKeepingCount(p) ==
  /\ breaker' = [breaker EXCEPT ![p].opened = "no"]
  /\ streak' = [streak EXCEPT ![p] = 0]

Success(p) ==
  /\ breaker' = [breaker EXCEPT ![p] = Closed]
  /\ streak' = [streak EXCEPT ![p] = 0]

Failure(p) ==
  /\ breaker' = [breaker EXCEPT ![p] = [failures |-> @.failures + 1,
                                        opened |-> IF @.failures + 1 >= FailMax THEN "yes" ELSE @.opened]]
  /\ streak' = [streak EXCEPT ![p] = @ + 1]

\* The run's last reply is the answer.
Answer(r) ==
  /\ At(r, "called")
  /\ Success(Proc(r))
  /\ req' = [req EXCEPT ![r] = [New(@.msg, @.proc, "save", @.conn) EXCEPT !.lock = TRUE, !.seen = req[r].seen]]
  /\ UNCHANGED <<locks, tables, twists>>

\* Mutant: agents pass a message on as often as they like.
HandOffUnlimited(r) ==
  /\ At(r, "called") /\ Twist
  /\ Success(Proc(r))
  /\ req' = [req EXCEPT ![r].at = "call", ![r].hops = @ + 1, ![r].nudged = FALSE, ![r].slipped = FALSE,
                        ![r].wrote = FALSE]
  /\ UNCHANGED <<locks, tables>>

\* It handed the message to another agent; one more than MAX_HANDOFFS is refused.
HandOff(r) ==
  /\ At(r, "called") /\ req[r].hops < MaxHandoffs /\ Twist
  /\ Success(Proc(r))
  /\ req' = [req EXCEPT ![r].at = "call", ![r].hops = @ + 1, ![r].nudged = FALSE, ![r].slipped = FALSE,
                        ![r].wrote = FALSE]
  /\ UNCHANGED <<locks, tables>>

\* The reply claims a record nobody wrote: one more run, told so.
Nudge(r) ==
  /\ At(r, "called") /\ ~ req[r].wrote /\ ~ req[r].nudged /\ Twist
  /\ Success(Proc(r))
  /\ req' = [req EXCEPT ![r].at = "call", ![r].nudged = TRUE, ![r].slipped = FALSE]
  /\ UNCHANGED <<locks, tables>>

\* tool_use_failed: the run starts again, once; not a failure of the provider.
Slip(r) ==
  /\ At(r, "called") /\ Twist
  /\ IF req[r].slipped THEN Failed(r)
     ELSE req' = [req EXCEPT ![r].slipped = TRUE] /\ UNCHANGED <<turnQ, advisory>>
  /\ UNCHANGED <<senderQ, model, tables>>

\* An error or LLM_TURN_TIMEOUT, also after a tool has changed the ledger.
FailRun(r) ==
  /\ At(r, "called") /\ Twist
  /\ Failure(Proc(r)) /\ Failed(r)
  /\ UNCHANGED <<senderQ, tables>>

\* reset_timeout has passed.
CoolDown(p) ==
  /\ breaker[p].opened = "yes"
  /\ breaker' = [breaker EXCEPT ![p].opened = "cooled"]
  /\ UNCHANGED <<req, locks, tables, streak, twists>>

\* The exchange and the turn's curation, in one commit; then the turn is over.
Save(r) ==
  /\ At(r, "save") /\ HasConn(r)
  /\ saved' = [saved EXCEPT ![User(r)] = @ + 1]
  /\ Release(r, New(req[r].msg, Proc(r), IF OnWeb(r) THEN "store" ELSE "send", FALSE))
  /\ UNCHANGED <<senderQ, model, inbox, stored, writers, twists>>

SaveTimeout(r) ==
  /\ At(r, "save") /\ ~ HasConn(r)
  /\ GiveUp(r)

\* store_response: a second record of the key fails, and the client gets a 503.
Store(r) ==
  /\ At(r, "store")
  /\ stored' = IF HasConn(r) THEN stored \cup {req[r].msg} ELSE stored
  /\ Done(r)
  /\ UNCHANGED <<turnQ, advisory, model, inbox, saved, writers, twists>>

Send(r) ==
  /\ At(r, "send")
  /\ Done(r)
  /\ UNCHANGED <<turnQ, advisory, model, tables, twists>>

\* The process dies with its requests; Postgres releases its locks.
Crash(p) ==
  /\ Twist
  /\ \E r \in 1 .. Len(req) : req[r].proc = p /\ req[r].at # "done"
  /\ req' = [r \in 1 .. Len(req) |-> IF req[r].proc = p THEN Finished(req[r]) ELSE req[r]]
  /\ senderQ' = [senderQ EXCEPT ![p] = [u \in Users |-> <<>>]]
  /\ turnQ' = [turnQ EXCEPT ![p] = [u \in Users |-> <<>>]]
  /\ advisory' = [u \in Users |-> IF advisory[u] # NoReq /\ Proc(advisory[u]) = p THEN NoReq ELSE advisory[u]]
  /\ breaker' = [breaker EXCEPT ![p] = Closed]
  /\ streak' = [streak EXCEPT ![p] = 0]
  /\ UNCHANGED tables

-----------------------------------------------------------------------------
Init ==
  /\ req = <<>>
  /\ senderQ = [p \in Procs |-> [u \in Users |-> <<>>]]
  /\ turnQ = [p \in Procs |-> [u \in Users |-> <<>>]]
  /\ advisory = [u \in Users |-> NoReq]
  /\ breaker = [p \in Procs |-> Closed]
  /\ inbox = {} /\ stored = {}
  /\ saved = [u \in Users |-> 0]
  /\ writers = [m \in Messages |-> {}]
  /\ streak = [p \in Procs |-> 0]
  /\ twists = 0

\* What a request does by itself; each wait in it ends by a timeout.
Proceed(r) ==
  \/ BeginInbound(r) \/ InboundTimeout(r)
  \/ LocalTimeout(r) \/ Connect(r) \/ ConnectTimeout(r) \/ TakeAdvisory(r) \/ AdvisoryTimeout(r)
  \/ CallModel(r) \/ UseTool(r) \/ Answer(r) \/ HandOff(r) \/ Nudge(r)
  \/ Slip(r) \/ FailRun(r)
  \/ Save(r) \/ SaveTimeout(r) \/ Store(r) \/ Send(r)

Next ==
  \/ \E m \in Messages, p \in Procs : Post(m, p) \/ Deliver(m, p)
  \/ \E r \in Ids : Proceed(r)
  \/ \E p \in Procs : CoolDown(p) \/ Crash(p)

\* The event loops keep running what can run; the waits end by their timeouts.
Fairness == WF_vars(\E r \in Ids : Proceed(r))

Spec == Init /\ [][Next]_vars
FairSpec == Spec /\ Fairness

-----------------------------------------------------------------------------
(* Properties. *)

\* From reading the history to saving the exchange, nobody else saves one for the same
\* trader: not another process, not another channel, whatever was committed in between.
HistoryIsSerial ==
  \A r \in 1 .. Len(req) :
    req[r].at \in {"call", "called", "save"} => req[r].seen = saved[User(r)]

\* A WhatsApp message is recorded by one delivery at most, however often Meta sends it and
\* whichever process dies.
RedeliveryRecordsOnce ==
  \A m \in Messages : Channel[m] = "whatsapp" => Cardinality(writers[m]) <= 1

\* Whatever way a request ends, no lock and no connection stays behind: a turn's holder is in
\* its turn, and is at the head of its process's queue.
NothingLeaks ==
  /\ \A u \in Users : advisory[u] # NoReq =>
       LET r == advisory[u] IN InTurn(r) /\ User(r) = u /\ Holds(turnQ, r)
  /\ \A p \in Procs, u \in Users :
       /\ \A i \in 1 .. Len(turnQ[p][u]) :
            InTurn(turnQ[p][u][i]) \/ req[turnQ[p][u][i]].at \in {"turn", "advisory"}
       /\ \A i \in 1 .. Len(senderQ[p][u]) : req[senderQ[p][u][i]].at # "done"
  /\ \A r \in 1 .. Len(req) : req[r].lock => Holds(turnQ, r)

\* The breaker refuses calls only after FailMax runs in a row have failed, although runs that
\* began before it opened still report.
OpensOnOutage ==
  \A p \in Procs : breaker[p].opened # "no" => streak[p] >= FailMax

\* Every delivery comes to its end, even when requests hold all connections and wait for
\* one more: deliveries being bounded, all of them end.
RequestsEnd == []<>(\A r \in 1 .. Len(req) : req[r].at = "done")

\* "a flaky connection resending a message doesn't record a sale twice" (Documentation.MD,
\* Idempotency).
ResendRecordsOnce ==
  \A m \in Messages : Channel[m] = "web" => Cardinality(writers[m]) <= 1
=============================================================================
