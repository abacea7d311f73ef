------------------------------ MODULE JobQueue ------------------------------
(***************************************************************************)
(* The job table used as a transactional outbox (jobs/queue.py) and the    *)
(* worker loops that run it (jobs/worker.py), in several processes.  One   *)
(* action per database query or per stretch of code between two awaits.    *)
(* Jobs are numbered by the table's id; a job's fields are those of the    *)
(* row, "due" stands for run_after being past, and rows that left the      *)
(* table are kept as "done" or "gone".                                     *)
(***************************************************************************)
EXTENDS Naturals, FiniteSets

CONSTANTS
  Users,         \* traders
  Procs,         \* processes that run worker loops
  Apps,          \* those that serve traders too; the others run scripts/jobs.py
  Workers,       \* their worker loops
  ProcOf,        \* ProcOf[w]: the process of loop w
  NoUser, NoWorker, NoJob,
  MaxJobs,       \* bound: jobs ever staged
  MaxAttempts,   \* JOB_MAX_ATTEMPTS
  Limit,         \* due_users(limit)
  MaxFaults,     \* bound: crashes, stops, database errors and lost connections
  MaxRequeues    \* bound: uses of scripts/jobs.py retry

ASSUME LoopsBelongToProcesses == ProcOf \in [Workers -> Procs]
ASSUME AppsRunLoops == Apps \subseteq Procs
ASSUME NobodyIsNobody == NoUser \notin Users /\ NoWorker \notin Workers
ASSUME BoundsAreNatural ==
  /\ MaxJobs \in Nat /\ MaxFaults \in Nat /\ MaxRequeues \in Nat
  /\ MaxAttempts \in Nat \ {0} /\ Limit \in Nat \ {0}
  /\ NoJob = 0

Jobs == 1 .. MaxJobs

VARIABLES
  jobs,       \* the jobs table
  open,       \* open[p]: jobs staged in p's open transactions
  announce,   \* announce[p]: jobs p committed and has not woken its loops for
  wake,       \* wake[p]: the asyncio.Event of p's loops
  up,         \* processes: running, told to stop, or down
  locks,      \* locks[u]: the loop whose connection holds u's advisory lock
  pc,         \* where each loop is
  found,      \* the oldest jobs of the due users it has left to try
  user,       \* the user whose jobs it runs
  job,        \* the job it has in hand
  tries,      \* that job's attempts, as read with it
  fresh,      \* history: jobs announced and never picked up
  faults,     \* history: crashes, stops, errors so far
  requeues    \* history: uses of retry so far

process == <<open, announce, wake, up>>
loop == <<pc, found, user, job, tries>>
vars == <<jobs, process, locks, loop, fresh, faults, requeues>>

Job == [status : {"free", "staged", "gone", "pending", "failed", "done"},
        user : Users \cup {NoUser}, attempts : Nat, due : BOOLEAN]

\* off: no such task; top .. asleep: the loop's cycle while nobody's jobs are in
\* hand; next .. unlock: inside _run_user; broken: backing off before reconnecting.
Places == {"off", "top", "look", "scan", "asleep", "next", "handle", "finish", "unlock", "broken"}

TypeOK ==
  /\ jobs \in [Jobs -> Job]
  /\ open \in [Procs -> SUBSET Jobs]
  /\ announce \in [Procs -> SUBSET Jobs]
  /\ wake \in [Procs -> BOOLEAN]
  /\ up \in [Procs -> {"up", "stopping", "down"}]
  /\ locks \in [Users -> Workers \cup {NoWorker}]
  /\ pc \in [Workers -> Places]
  /\ found \in [Workers -> SUBSET Jobs]
  /\ user \in [Workers -> Users \cup {NoUser}]
  /\ job \in [Workers -> Jobs \cup {NoJob}]
  /\ tries \in [Workers -> Nat]
  /\ fresh \subseteq Jobs
  /\ faults \in Nat
  /\ requeues \in Nat

-----------------------------------------------------------------------------
(* The table. *)

Pending == {j \in Jobs : jobs[j].status = "pending"}

\* SELECT min(id) ... GROUP BY user_id: the oldest pending job of each user.
Heads == {j \in Pending : \A k \in Pending : jobs[k].user = jobs[j].user => j <= k}

FirstOf(n, S) == {j \in S : Cardinality({k \in S : k < j}) < n}

\* due_users: the first limit * 3 heads by id, those whose job is due, cut to limit.
DueHeads ==
  LET looked == FirstOf(3 * Limit, Heads)
  IN  FirstOf(Limit, {j \in looked : jobs[j].due})

\* A row that left the table.
Left(row, status) == [row EXCEPT !.status = status, !.attempts = 0, !.due = TRUE]

\* stage: the row takes the next id and belongs to an open transaction of p.
Stage(p, u) ==
  /\ p \in Apps /\ up[p] = "up"
  /\ \E j \in Jobs :
       /\ jobs[j].status = "free"
       /\ \A k \in Jobs : jobs[k].status = "free" => j <= k
       /\ jobs' = [jobs EXCEPT ![j] = [status |-> "staged", user |-> u, attempts |-> 0, due |-> TRUE]]
       /\ open' = [open EXCEPT ![p] = @ \cup {j}]
  /\ UNCHANGED <<announce, wake, up, locks, loop, fresh, faults, requeues>>

\* The transaction that staged it commits, in whatever order the ids were taken.
Commit(p, j) ==
  /\ j \in open[p]
  /\ open' = [open EXCEPT ![p] = @ \ {j}]
  /\ jobs' = [jobs EXCEPT ![j].status = "pending"]
  /\ announce' = [announce EXCEPT ![p] = @ \cup {j}]
  /\ UNCHANGED <<wake, up, locks, loop, fresh, faults, requeues>>

Abort(p, j) ==
  /\ j \in open[p]
  /\ open' = [open EXCEPT ![p] = @ \ {j}]
  /\ jobs' = [jobs EXCEPT ![j].status = "gone"]
  /\ UNCHANGED <<announce, wake, up, locks, loop, fresh, faults, requeues>>

\* committed(): the event is set, and whoever waits on it runs again.
Announce(p) ==
  /\ announce[p] # {}
  /\ wake' = [wake EXCEPT ![p] = TRUE]
  /\ pc' = [w \in Workers |-> IF ProcOf[w] = p /\ pc[w] = "asleep" THEN "top" ELSE pc[w]]
  /\ fresh' = fresh \cup {j \in announce[p] : j \in Pending /\ jobs[j].attempts = 0
                                              /\ \A w \in Workers : job[w] # j}
  /\ announce' = [announce EXCEPT ![p] = {}]
  /\ UNCHANGED <<jobs, open, up, locks, found, user, job, tries, faults, requeues>>

\* run_after passes.
Elapse(j) ==
  /\ j \in Pending /\ ~jobs[j].due
  /\ jobs' = [jobs EXCEPT ![j].due = TRUE]
  /\ UNCHANGED <<process, locks, loop, fresh, faults, requeues>>

\* retry_failed, of all failed jobs or of some
RetryFailed(S) ==
  /\ requeues < MaxRequeues
  /\ S # {} /\ \A j \in S : jobs[j].status = "failed"
  /\ jobs' = [j \in Jobs |->
                IF j \in S THEN [jobs[j] EXCEPT !.status = "pending", !.attempts = 0, !.due = TRUE]
                ELSE jobs[j]]
  /\ requeues' = requeues + 1
  /\ UNCHANGED <<process, locks, loop, fresh, faults>>

-----------------------------------------------------------------------------
(* The loop of a worker. *)

Goto(w, place) == pc' = [pc EXCEPT ![w] = place]
Stopping(w) == up[ProcOf[w]] # "up"

\* The event is cleared before the queue is looked at.
Clear(w) ==
  /\ pc[w] = "top"
  /\ IF Stopping(w) THEN Goto(w, "off") /\ UNCHANGED wake
                    ELSE Goto(w, "look") /\ wake' = [wake EXCEPT ![ProcOf[w]] = FALSE]
  /\ UNCHANGED <<jobs, open, announce, up, locks, found, user, job, tries, fresh, faults, requeues>>

Look(w) ==
  /\ pc[w] = "look"
  /\ found' = [found EXCEPT ![w] = DueHeads]
  /\ Goto(w, "scan")
  /\ UNCHANGED <<jobs, process, locks, user, job, tries, fresh, faults, requeues>>

\* Faulty variant: the answer of pg_try_advisory_lock is not looked at.
TakeAnyUser(w) ==
  /\ pc[w] = "scan"
  /\ \E j \in FirstOf(1, found[w]) :
       /\ locks' = [locks EXCEPT ![jobs[j].user] = w]
       /\ user' = [user EXCEPT ![w] = jobs[j].user]
  /\ found' = [found EXCEPT ![w] = {}]
  /\ Goto(w, "next")
  /\ UNCHANGED <<jobs, process, job, tries, fresh, faults, requeues>>

\* Faulty variant: the job's id is taken for its user's.
TakeJobForUser(w) ==
  /\ pc[w] = "scan"
  /\ \E j \in FirstOf(1, found[w]) : user' = [user EXCEPT ![w] = j]
  /\ found' = [found EXCEPT ![w] = {}]
  /\ Goto(w, "next")
  /\ UNCHANGED <<jobs, process, locks, job, tries, fresh, faults, requeues>>

\* _try_lock: the first due user nobody has, or on to the next one
TryLock(w) ==
  /\ pc[w] = "scan"
  /\ \E j \in FirstOf(1, found[w]) :
       IF locks[jobs[j].user] = NoWorker
       THEN /\ locks' = [locks EXCEPT ![jobs[j].user] = w]
            /\ user' = [user EXCEPT ![w] = jobs[j].user]
            /\ found' = [found EXCEPT ![w] = {}]
            /\ Goto(w, "next")
       ELSE /\ found' = [found EXCEPT ![w] = @ \ {j}]
            /\ UNCHANGED <<locks, user, pc>>
  /\ UNCHANGED <<jobs, process, job, tries, fresh, faults, requeues>>

\* Faulty variant: it waits for the next wake-up, whatever was set meanwhile.
SleepAnyway(w) ==
  /\ pc[w] = "scan" /\ found[w] = {}
  /\ Goto(w, "asleep")
  /\ UNCHANGED <<jobs, process, locks, found, user, job, tries, fresh, faults, requeues>>

\* _pass found nothing to do: wait for the event, unless it was set meanwhile.
Sleep(w) ==
  /\ pc[w] = "scan" /\ found[w] = {}
  /\ Goto(w, IF wake[ProcOf[w]] THEN "top" ELSE "asleep")
  /\ UNCHANGED <<jobs, process, locks, found, user, job, tries, fresh, faults, requeues>>

\* The poll interval ends.
Poll(w) ==
  /\ pc[w] = "asleep"
  /\ Goto(w, "top")
  /\ UNCHANGED <<jobs, process, locks, found, user, job, tries, fresh, faults, requeues>>

\* Faulty variant: any due job of the user, not only the oldest.
NextDueJob(w) ==
  /\ pc[w] = "next"
  /\ \/ \E j \in Pending :
          /\ jobs[j].user = user[w] /\ jobs[j].due
          /\ job' = [job EXCEPT ![w] = j]
          /\ tries' = [tries EXCEPT ![w] = jobs[j].attempts]
          /\ fresh' = fresh \ {j}
          /\ Goto(w, "handle")
     \/ /\ ~\E j \in Pending : jobs[j].user = user[w] /\ jobs[j].due
        /\ Goto(w, "unlock")
        /\ UNCHANGED <<job, tries, fresh>>
  /\ UNCHANGED <<jobs, process, locks, found, user, faults, requeues>>

\* next_job: the user's oldest pending job, if it is due
NextJob(w) ==
  /\ pc[w] = "next"
  /\ LET due == {j \in Heads : jobs[j].user = user[w] /\ jobs[j].due /\ ~Stopping(w)}
     IN  \/ \E j \in due :
              /\ job' = [job EXCEPT ![w] = j]
              /\ tries' = [tries EXCEPT ![w] = jobs[j].attempts]
              /\ fresh' = fresh \ {j}
              /\ Goto(w, "handle")
         \/ /\ due = {}
            /\ Goto(w, "unlock")
            /\ UNCHANGED <<job, tries, fresh>>
  /\ UNCHANGED <<jobs, process, locks, found, user, faults, requeues>>

\* The handler returns.
Handled(w) ==
  /\ pc[w] = "handle"
  /\ Goto(w, "finish")
  /\ UNCHANGED <<jobs, process, locks, found, user, job, tries, fresh, faults, requeues>>

\* finish: the row is deleted
Finish(w) ==
  /\ pc[w] = "finish"
  /\ jobs' = [jobs EXCEPT ![job[w]] = Left(@, "done")]
  /\ job' = [job EXCEPT ![w] = NoJob]
  /\ tries' = [tries EXCEPT ![w] = 0]
  /\ Goto(w, "next")
  /\ UNCHANGED <<process, locks, found, user, fresh, faults, requeues>>

\* Faulty variant: one attempt too many.
AfterOneMoreFailure(row, attempts, permanent) ==
  IF permanent \/ attempts > MaxAttempts
  THEN [row EXCEPT !.attempts = attempts, !.status = "failed"]
  ELSE [row EXCEPT !.attempts = attempts, !.due = FALSE]

\* Faulty variant: a retry is not counted.
AfterUncountedFailure(row, attempts, permanent) ==
  IF permanent \/ attempts >= MaxAttempts
  THEN [row EXCEPT !.attempts = attempts, !.status = "failed"]
  ELSE [row EXCEPT !.due = FALSE]

AfterFailure(row, attempts, permanent) ==
  IF permanent \/ attempts >= MaxAttempts
  THEN [row EXCEPT !.attempts = attempts, !.status = "failed"]
  ELSE [row EXCEPT !.attempts = attempts, !.due = FALSE]

\* The handler raises, and fail() writes what that makes of the job, if the row is
\* still there.  A Permanent error, such as an unknown kind, is not retried.
Fail(w, permanent) ==
  /\ pc[w] = "handle"
  /\ jobs' = IF jobs[job[w]].status = "done" THEN jobs
             ELSE [jobs EXCEPT ![job[w]] = AfterFailure(@, tries[w] + 1, permanent)]
  /\ job' = [job EXCEPT ![w] = NoJob]
  /\ tries' = [tries EXCEPT ![w] = 0]
  /\ Goto(w, "unlock")
  /\ UNCHANGED <<process, locks, found, user, fresh, faults, requeues>>

Released(W) == [u \in Users |-> IF locks[u] \in W THEN NoWorker ELSE locks[u]]

\* Loops W stop what they are doing; their locks are released, jobs in hand stay.
Drop(W, place) ==
  /\ pc' = [w \in Workers |-> IF w \in W THEN place ELSE pc[w]]
  /\ locks' = Released(W)
  /\ found' = [w \in Workers |-> IF w \in W THEN {} ELSE found[w]]
  /\ user' = [w \in Workers |-> IF w \in W THEN NoUser ELSE user[w]]
  /\ job' = [w \in Workers |-> IF w \in W THEN NoJob ELSE job[w]]
  /\ tries' = [w \in Workers |-> IF w \in W THEN 0 ELSE tries[w]]

\* _unlock, and another pass.  On a connection that was lost it raises instead.
Unlock(w) ==
  /\ pc[w] = "unlock"
  /\ Drop({w}, IF locks[user[w]] = w THEN "top" ELSE "broken")
  /\ UNCHANGED <<jobs, process, fresh, faults, requeues>>

\* After the back-off the loop opens another connection, or ends.
Reconnect(w) ==
  /\ pc[w] = "broken"
  /\ Goto(w, IF Stopping(w) THEN "off" ELSE "top")
  /\ UNCHANGED <<jobs, process, locks, found, user, job, tries, fresh, faults, requeues>>

-----------------------------------------------------------------------------
(* What goes wrong, and the life of a process. *)

LoopsOf(p) == {w \in Workers : ProcOf[w] = p}
Fault == faults < MaxFaults /\ faults' = faults + 1

\* A query of the loop fails: the lock is released on the way out of _pass.
DatabaseError(w) ==
  /\ Fault
  /\ pc[w] \in {"look", "scan", "next", "handle", "finish", "unlock"}
  /\ Drop({w}, "broken")
  /\ UNCHANGED <<jobs, process, fresh, requeues>>

\* The process dies: Postgres releases its locks and rolls its transactions back.
Crash(p) ==
  /\ Fault
  /\ up[p] # "down"
  /\ Drop(LoopsOf(p), "off")
  /\ jobs' = [j \in Jobs |-> IF j \in open[p] THEN [jobs[j] EXCEPT !.status = "gone"] ELSE jobs[j]]
  /\ open' = [open EXCEPT ![p] = {}]
  /\ announce' = [announce EXCEPT ![p] = {}]
  /\ wake' = [wake EXCEPT ![p] = FALSE]
  /\ up' = [up EXCEPT ![p] = "down"]
  /\ UNCHANGED <<fresh, requeues>>

\* stop(): the loops finish the jobs in hand
Stop(p) ==
  /\ Fault
  /\ up[p] = "up"
  /\ up' = [up EXCEPT ![p] = "stopping"]
  /\ wake' = [wake EXCEPT ![p] = TRUE]
  /\ pc' = [w \in Workers |-> IF ProcOf[w] = p /\ pc[w] = "asleep" THEN "top" ELSE pc[w]]
  /\ UNCHANGED <<jobs, open, announce, locks, found, user, job, tries, fresh, requeues>>

\* ... and are cancelled when that takes too long.
Cancel(w) ==
  /\ up[ProcOf[w]] = "stopping" /\ pc[w] # "off"
  /\ Drop({w}, "off")
  /\ UNCHANGED <<jobs, process, fresh, faults, requeues>>

\* The process is started again once it is gone.
Restart(p) ==
  /\ up[p] # "up"
  /\ \A w \in LoopsOf(p) : pc[w] = "off"
  /\ open[p] = {} /\ announce[p] = {}
  /\ up' = [up EXCEPT ![p] = "up"]
  /\ wake' = [wake EXCEPT ![p] = FALSE]
  /\ pc' = [w \in Workers |-> IF ProcOf[w] = p THEN "top" ELSE pc[w]]
  /\ UNCHANGED <<jobs, open, announce, locks, found, user, job, tries, fresh, faults, requeues>>

\* The lock connection is lost while the loop is busy: Postgres releases the lock,
\* the loop does not know before it unlocks.
LoseConnection(w) ==
  /\ Fault
  /\ pc[w] \in {"next", "handle", "finish", "unlock"}
  /\ locks' = Released({w})
  /\ UNCHANGED <<jobs, process, loop, fresh, requeues>>
-----------------------------------------------------------------------------

Init ==
  /\ jobs = [j \in Jobs |->
               [status |-> "free", user |-> NoUser, attempts |-> 0, due |-> TRUE]]
  /\ open = [p \in Procs |-> {}]
  /\ announce = [p \in Procs |-> {}]
  /\ wake = [p \in Procs |-> FALSE]
  /\ up = [p \in Procs |-> "up"]
  /\ locks = [u \in Users |-> NoWorker]
  /\ pc = [w \in Workers |-> "top"]
  /\ found = [w \in Workers |-> {}]
  /\ user = [w \in Workers |-> NoUser]
  /\ job = [w \in Workers |-> NoJob]
  /\ tries = [w \in Workers |-> 0]
  /\ fresh = {} /\ faults = 0 /\ requeues = 0

Handle(w) == Handled(w) \/ \E permanent \in BOOLEAN : Fail(w, permanent)

Step(w) ==
  \/ Clear(w) \/ Look(w) \/ TryLock(w) \/ Sleep(w) \/ Poll(w)
  \/ NextJob(w) \/ Handle(w) \/ Finish(w) \/ Unlock(w) \/ Reconnect(w)

Next ==
  \/ \E p \in Procs : Announce(p) \/ Crash(p) \/ Stop(p) \/ Restart(p)
  \/ \E p \in Procs, u \in Users : Stage(p, u)
  \/ \E p \in Procs, j \in Jobs : Commit(p, j) \/ Abort(p, j)
  \/ \E j \in Jobs : Elapse(j)
  \/ \E S \in SUBSET Jobs : RetryFailed(S)
  \/ \E w \in Workers : Step(w) \/ DatabaseError(w) \/ Cancel(w)

Spec == Init /\ [][Next]_vars

\* The loops run, their handlers return or raise, back-offs end, open transactions
\* end one way or the other, and a stopped or dead process is started again.
Fairness ==
  /\ \A w \in Workers : WF_vars(Step(w))
  /\ WF_vars(\E j \in Jobs : Elapse(j))
  /\ WF_vars(\E p \in Procs, j \in Jobs : Commit(p, j) \/ Abort(p, j))
  /\ WF_vars(\E p \in Procs : Announce(p) \/ Restart(p))
FairSpec == Spec /\ Fairness

\* The same with lock connections that may be lost.
LossySpec == Init /\ [][Next \/ \E w \in Workers : LoseConnection(w)]_vars
-----------------------------------------------------------------------------
(* Properties. *)

\* The jobs of one user are never in the hands of two loops, in any processes.
OneWorkerPerUser ==
  \A v, w \in Workers : v # w /\ user[v] # NoUser => user[v] # user[w]

\* The jobs of u that are in hand.
Running(u) == {j \in Jobs : \E w \in Workers : user[w] = u /\ job[w] = j}

\* The workers, their locks and their crashes come to one runner per user that
\* takes the user's jobs oldest first, holds the later ones behind a failed one,
\* and deletes a job only after its handler returned.
Promise == INSTANCE Outbox WITH
  running <- [u \in Users |-> Running(u)],
  returned <- {u \in Users : \E w \in Workers : user[w] = u /\ pc[w] = "finish"}
KeepsPromise == Promise!OutboxSpec

\* A job that is still to be retried has attempts left, whatever order failures,
\* crashes and retries come in.
RetriesAreBounded == \A j \in Pending : jobs[j].attempts < MaxAttempts

\* Until something breaks, the loops never all sleep over work they were woken for:
\* a job committed while some of them look, or while one is about to release its
\* user's lock, is still seen by one of them before the poll interval ends.
NoSleepOverWork ==
  faults = 0 /\ (\A w \in Workers : pc[w] = "asleep") =>
    Heads \cap fresh = {}

\* Every committed job is handled or given up, through crashes, restarts and
\* retries, and whatever the other users' jobs do.  Jobs, faults and retries by hand being
\* bounded, that is: there is no end to the times at which none is pending.
JobsSettle ==
  []<>(\A j \in Jobs : jobs[j].status # "pending")
=============================================================================
