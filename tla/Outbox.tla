------------------------------- MODULE Outbox -------------------------------
(***************************************************************************)
(* What the job queue promises (jobs/queue.py, header): a job exists       *)
(* exactly when the change that staged it was committed; each user's jobs  *)
(* run one at a time, oldest first; a failed one is retried, holding the   *)
(* user's later jobs behind it, until it is given up; a job is deleted     *)
(* only after its handler returned.  There are no workers, no locks and no *)
(* processes here: each user has one runner, which may drop its job.       *)
(***************************************************************************)
EXTENDS Naturals

CONSTANTS
  Users,        \* traders
  NoUser,
  Jobs,         \* job ids, handed out in increasing order
  MaxAttempts   \* JOB_MAX_ATTEMPTS

VARIABLES
  jobs,      \* the jobs table, and what became of the rows that left it
  running,   \* running[u]: the job u's runner has in hand, if any
  returned   \* users whose running job's handler has returned

outboxVars == <<jobs, running, returned>>

Statuses == {"free", "staged", "gone", "pending", "failed", "done"}
Job == [status : Statuses, user : Users \cup {NoUser}, attempts : Nat, due : BOOLEAN]

OutboxTypeOK ==
  /\ jobs \in [Jobs -> Job]
  /\ running \in [Users -> SUBSET Jobs]
  /\ returned \subseteq Users

\* What a query with status = "pending" sees: rows of open transactions are not there.
Pending(t, u) == {j \in Jobs : t[j].status = "pending" /\ t[j].user = u}
Oldest(t, u) == {j \in Pending(t, u) : \A k \in Pending(t, u) : j <= k}

\* The row of a job that failed for the n-th time.
AfterFailure(job, n, permanent) ==
  IF permanent \/ n >= MaxAttempts
  THEN [job EXCEPT !.attempts = n, !.status = "failed"]
  ELSE [job EXCEPT !.attempts = n, !.due = FALSE]

Requeued(job) == [job EXCEPT !.status = "pending", !.attempts = 0, !.due = TRUE]

SetStatus(S, status) ==
  [j \in Jobs |-> IF j \in S THEN [jobs[j] EXCEPT !.status = status] ELSE jobs[j]]

Stage(j, u) ==
  /\ jobs[j].status = "free"
  /\ jobs' = [jobs EXCEPT ![j] = [status |-> "staged", user |-> u, attempts |-> 0, due |-> TRUE]]
  /\ UNCHANGED <<running, returned>>

Commit(j) ==
  /\ jobs[j].status = "staged"
  /\ jobs' = SetStatus({j}, "pending")
  /\ UNCHANGED <<running, returned>>

\* Runners die with the job in hand, open transactions roll back.
Crash(S, U) ==
  /\ \A j \in S : jobs[j].status = "staged"
  /\ jobs' = SetStatus(S, "gone")
  /\ running' = [u \in Users |-> IF u \in U THEN {} ELSE running[u]]
  /\ returned' = returned \ U

Start(u) ==
  /\ running[u] = {}
  /\ \E j \in Oldest(jobs, u) : jobs[j].due /\ running' = [running EXCEPT ![u] = {j}]
  /\ UNCHANGED <<jobs, returned>>

Return(u) ==
  /\ running[u] # {} /\ u \notin returned
  /\ returned' = returned \cup {u}
  /\ UNCHANGED <<jobs, running>>

Finish(u) ==
  /\ u \in returned
  /\ jobs' = [j \in Jobs |->
                IF j \in running[u] THEN [jobs[j] EXCEPT !.status = "done", !.attempts = 0, !.due = TRUE]
                ELSE jobs[j]]
  /\ running' = [running EXCEPT ![u] = {}]
  /\ returned' = returned \ {u}

Fail(u, permanent) ==
  /\ running[u] # {} /\ u \notin returned
  /\ jobs' = [j \in Jobs |->
                IF j \in running[u] THEN AfterFailure(jobs[j], jobs[j].attempts + 1, permanent)
                ELSE jobs[j]]
  /\ running' = [running EXCEPT ![u] = {}]
  /\ UNCHANGED returned

Elapse(j) ==
  /\ jobs[j].status = "pending" /\ ~jobs[j].due
  /\ jobs' = [jobs EXCEPT ![j].due = TRUE]
  /\ UNCHANGED <<running, returned>>

Requeue(S) ==
  /\ S # {} /\ \A j \in S : jobs[j].status = "failed"
  /\ jobs' = [j \in Jobs |-> IF j \in S THEN Requeued(jobs[j]) ELSE jobs[j]]
  /\ UNCHANGED <<running, returned>>

OutboxInit ==
  /\ jobs = [j \in Jobs |->
               [status |-> "free", user |-> NoUser, attempts |-> 0, due |-> TRUE]]
  /\ running = [u \in Users |-> {}]
  /\ returned = {}

OutboxNext ==
  \/ \E j \in Jobs, u \in Users : Stage(j, u)
  \/ \E j \in Jobs : Commit(j) \/ Elapse(j)
  \/ \E S \in SUBSET Jobs : Requeue(S)
  \/ \E S \in SUBSET Jobs, U \in SUBSET Users : Crash(S, U)
  \/ \E u \in Users : Start(u) \/ Return(u) \/ Finish(u) \/ \E b \in BOOLEAN : Fail(u, b)

OutboxSpec == OutboxInit /\ [][OutboxNext]_outboxVars
=============================================================================
