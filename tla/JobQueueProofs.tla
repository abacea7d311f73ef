--------------------------- MODULE JobQueueProofs ---------------------------
(***************************************************************************)
(* The job queue runs each trader's jobs one at a time, keeps what Outbox  *)
(* promises and does not sleep over new work, for any number of traders,   *)
(* processes, loops and jobs, and any number of crashes, stops, database   *)
(* errors and retries, as long as a lock lives as long as the loop that    *)
(* took it (Spec).                                                         *)
(***************************************************************************)
EXTENDS JobQueue, FiniteSetTheorems, WellFoundedInduction, TLAPS

(***************************************************************************)
(* The inductive invariant.  A loop that runs a user's jobs holds that     *)
(* user's lock, and the job it has in hand is pending, that user's, and    *)
(* has the attempts that were read with it.  A row that may still be run   *)
(* has attempts left.                                                      *)
(***************************************************************************)
Busy == {"next", "handle", "finish", "unlock"}

InHand(w) ==
  /\ jobs[job[w]].status = "pending"
  /\ jobs[job[w]].user = user[w]
  /\ jobs[job[w]].attempts = tries[w]

LoopOK(w) ==
  /\ user[w] # NoUser <=> pc[w] \in Busy
  /\ user[w] # NoUser => locks[user[w]] = w
  /\ job[w] # NoJob <=> pc[w] \in {"handle", "finish"}
  /\ job[w] # NoJob => InHand(w)
  /\ \A j \in found[w] : jobs[j].status # "free"

RowOK(row) ==
  /\ row.status # "free" => row.user \in Users
  /\ row.status \in {"staged", "pending"} => row.attempts < MaxAttempts

OpenOK ==
  /\ \A p \in Procs : \A j \in open[p] : jobs[j].status = "staged"
  /\ \A p, q \in Procs : p # q => open[p] \cap open[q] = {}

QInv ==
  /\ TypeOK
  /\ \A w \in Workers : LoopOK(w)
  /\ \A j \in Jobs : RowOK(jobs[j])
  /\ OpenOK

-----------------------------------------------------------------------------
(* Rows. *)

\* Ids of jobs are positive numbers; NoJob is none of them.
LEMMA NoJobIsNoId == NoJob \notin Jobs /\ Jobs \subseteq Nat
  BY BoundsAreNatural DEF Jobs

\* Changing the status, the attempts and the delay of a row leaves its user alone.
WithState(row, status, attempts, due) ==
  [row EXCEPT !.status = status, !.attempts = attempts, !.due = due]

Statuses == {"free", "staged", "gone", "pending", "failed", "done"}

\* A row with another status, count and delay is a row of the same trader.
LEMMA RowWithState ==
  ASSUME NEW row \in Job, NEW s \in Statuses, NEW n \in Nat, NEW d \in BOOLEAN
  PROVE  /\ WithState(row, s, n, d) \in Job
         /\ WithState(row, s, n, d).status = s
         /\ WithState(row, s, n, d).attempts = n
         /\ WithState(row, s, n, d).due = d
         /\ WithState(row, s, n, d).user = row.user
  BY DEF WithState, Job, Statuses

\* A change of status is such a change, and so is what the fields of a row are.
LEMMA RowUpdates ==
  ASSUME NEW row \in Job
  PROVE  /\ \A s \in Statuses : [row EXCEPT !.status = s] = WithState(row, s, row.attempts, row.due)
         /\ row.status \in Statuses /\ row.attempts \in Nat /\ row.due \in BOOLEAN
         /\ row.user \in Users \cup {NoUser}
  BY DEF WithState, Job, Statuses

\* A job whose handler returned leaves the table.
LEMMA RowDone ==
  ASSUME NEW row \in Job
  PROVE  /\ Left(row, "done") \in Job /\ Left(row, "done").status = "done"
         /\ Left(row, "done").user = row.user
  BY DEF Left, Job

\* A job that failed keeps its user, and is put back only with attempts left.
LEMMA RowFailed ==
  ASSUME NEW row \in Job, NEW n \in Nat, NEW permanent \in BOOLEAN, row.status = "pending"
  PROVE  LET new == AfterFailure(row, n, permanent)
         IN  /\ new \in Job /\ new.user = row.user /\ new.attempts = n
             /\ new.status \in {"pending", "failed"}
             /\ new.status = "pending" => n < MaxAttempts
<1> DEFINE new == AfterFailure(row, n, permanent)
<1>1. CASE permanent \/ n >= MaxAttempts
  <2>1. new = [row EXCEPT !.attempts = n, !.status = "failed"]
    BY <1>1 DEF AfterFailure
  <2>2. new \in Job /\ new.user = row.user /\ new.attempts = n /\ new.status = "failed"
    BY <2>1 DEF Job
  <2>3. QED BY <2>2
<1>2. CASE ~(permanent \/ n >= MaxAttempts)
  <2>1. new = [row EXCEPT !.attempts = n, !.due = FALSE] /\ n < MaxAttempts
    BY <1>2, BoundsAreNatural DEF AfterFailure
  <2>2. new \in Job /\ new.user = row.user /\ new.attempts = n /\ new.status = "pending"
    BY <2>1 DEF Job
  <2>3. QED BY <2>1, <2>2
<1>3. QED BY <1>1, <1>2

\* A failed job put back in the queue starts over, for the same user.
Requeued(row) == [row EXCEPT !.status = "pending", !.attempts = 0, !.due = TRUE]

\* A requeued row is pending, with a fresh count, for the same trader.
LEMMA RowRequeued ==
  ASSUME NEW row \in Job
  PROVE  /\ Requeued(row) \in Job /\ Requeued(row).status = "pending"
         /\ Requeued(row).attempts = 0 /\ Requeued(row).user = row.user
  BY DEF Requeued, Job

\* A job whose back-off ended differs in nothing else.
Undelayed(row) == [row EXCEPT !.due = TRUE]

\* The end of a back-off keeps the status, the count and the trader.
LEMMA RowUndelayed ==
  ASSUME NEW row \in Job
  PROVE  /\ Undelayed(row) \in Job /\ Undelayed(row).status = row.status
         /\ Undelayed(row).attempts = row.attempts /\ Undelayed(row).user = row.user
  BY DEF Undelayed, Job

-----------------------------------------------------------------------------
(* The invariant. *)

\* Two loops never hold the same user.
LEMMA OneHolder ==
  ASSUME QInv, NEW v \in Workers, NEW w \in Workers, user[v] # NoUser, user[v] = user[w]
  PROVE  v = w
  BY DEF QInv, LoopOK

\* The empty queue satisfies the invariant.
LEMMA InitSound == Init => QInv
<1> SUFFICES ASSUME Init PROVE QInv
  OBVIOUS
<1> DEFINE free == [status |-> "free", user |-> NoUser, attempts |-> 0, due |-> TRUE]
<1>1. free \in Job /\ free.status = "free"
  BY DEF Job
<1>2. jobs = [j \in Jobs |-> free]
  BY DEF Init
<1> HIDE DEF free
<1>3. jobs \in [Jobs -> Job] /\ \A j \in Jobs : jobs[j].status = "free"
  BY <1>1, <1>2
<1>4. TypeOK
  BY <1>3 DEF Init, TypeOK, Places
<1>5. QED
  BY <1>3, <1>4 DEF Init, QInv, LoopOK, RowOK, OpenOK, Busy

\* Staging writes a row that nobody can see or hold yet.
LEMMA StageKeepsInv ==
  ASSUME QInv, NEW p \in Procs, NEW u \in Users, Stage(p, u)
  PROVE  QInv'
<1>1. PICK j \in Jobs :
        /\ jobs[j].status = "free"
        /\ jobs' = [jobs EXCEPT ![j] = [status |-> "staged", user |-> u, attempts |-> 0, due |-> TRUE]]
        /\ open' = [open EXCEPT ![p] = @ \cup {j}]
  BY DEF Stage
<1> DEFINE new == [status |-> "staged", user |-> u, attempts |-> 0, due |-> TRUE]
<1>2. new \in Job /\ new.status = "staged" /\ new.user \in Users /\ new.attempts = 0
  BY DEF Job
<1>3. jobs' = [jobs EXCEPT ![j] = new]
  BY <1>1
<1> HIDE DEF new
<1>4. UNCHANGED <<announce, wake, up, locks, pc, found, user, job, tries, fresh, faults, requeues>>
  BY DEF Stage, loop
<1>5. /\ jobs' \in [Jobs -> Job] /\ jobs'[j] = new
      /\ \A k \in Jobs : k # j => jobs'[k] = jobs[k]
      /\ \A k \in Jobs : jobs[k].status # "free" => k # j
  BY <1>1, <1>2, <1>3 DEF QInv, TypeOK
<1>6. /\ open' \in [Procs -> SUBSET Jobs]
      /\ \A q \in Procs : open'[q] = IF q = p THEN open[q] \cup {j} ELSE open[q]
  BY <1>1 DEF QInv, TypeOK
<1>7. TypeOK'
  BY <1>4, <1>5, <1>6 DEF QInv, TypeOK
<1>8. \A w \in Workers : LoopOK(w)'
  <2> SUFFICES ASSUME NEW w \in Workers PROVE LoopOK(w)'
    OBVIOUS
  <2>1. LoopOK(w) /\ job[w] \in Jobs \cup {NoJob} /\ found[w] \subseteq Jobs
    BY DEF QInv, TypeOK
  <2>2. job[w] # NoJob => jobs'[job[w]] = jobs[job[w]]
    BY <1>5, <2>1 DEF LoopOK, InHand
  <2>3. \A k \in found[w] : jobs'[k].status # "free"
    BY <1>2, <1>5, <2>1 DEF LoopOK
  <2>4. QED BY <1>4, <2>1, <2>2, <2>3 DEF LoopOK, InHand
<1>9. \A k \in Jobs : RowOK(jobs'[k])
  BY <1>2, <1>5, BoundsAreNatural DEF QInv, RowOK
<1>10. OpenOK'
  <2>1. \A q \in Procs : j \notin open[q]
    BY <1>1 DEF QInv, OpenOK
  <2>2. \A q \in Procs : \A k \in open'[q] : jobs'[k].status = "staged"
    BY <1>2, <1>5, <1>6 DEF QInv, OpenOK, TypeOK
  <2>3. \A q, r \in Procs : q # r => open'[q] \cap open'[r] = {}
    BY <1>6, <2>1 DEF QInv, OpenOK
  <2>4. QED BY <2>2, <2>3 DEF OpenOK
<1>11. QED BY <1>7, <1>8, <1>9, <1>10 DEF QInv

(***************************************************************************)
(* A change of rows that nobody has in hand: open transactions that end,   *)
(* and failed jobs put back in the queue.                                  *)
(***************************************************************************)
RowsMove(S) ==
  /\ jobs' \in [Jobs -> Job]
  /\ S \in SUBSET Jobs
  /\ \A j \in Jobs \ S : jobs'[j] = jobs[j]
  /\ \A j \in S : /\ jobs[j].status \notin {"free", "pending"} /\ jobs'[j].status # "free"
                  /\ jobs'[j].user = jobs[j].user
                  /\ jobs'[j].status \in {"staged", "pending"} => jobs'[j].attempts < MaxAttempts

\* Rows no loop has in hand may move without disturbing any loop.
LEMMA RowsMoveKeepsLoops ==
  ASSUME QInv, NEW S, RowsMove(S), UNCHANGED loop, UNCHANGED locks
  PROVE  (\A w \in Workers : LoopOK(w)') /\ (\A j \in Jobs : RowOK(jobs'[j]))
<1>1. \A w \in Workers : LoopOK(w)'
  <2> SUFFICES ASSUME NEW w \in Workers PROVE LoopOK(w)'
    OBVIOUS
  <2>1. LoopOK(w) /\ job[w] \in Jobs \cup {NoJob} /\ found[w] \subseteq Jobs
    BY DEF QInv, TypeOK
  <2>2. job[w] # NoJob => jobs'[job[w]] = jobs[job[w]]
    BY <2>1 DEF LoopOK, InHand, RowsMove
  <2>3. \A k \in found[w] : jobs'[k].status # "free"
    BY <2>1 DEF LoopOK, RowsMove
  <2>4. QED BY <2>1, <2>2, <2>3 DEF LoopOK, InHand, loop
<1>2. \A j \in Jobs : RowOK(jobs'[j])
  BY DEF QInv, RowOK, RowsMove
<1>3. QED BY <1>1, <1>2

\* A transaction that ends, with its jobs queued or gone.
LEMMA TransactionEnds ==
  ASSUME QInv, NEW p \in Procs, NEW j \in open[p], NEW s \in {"pending", "gone"},
         jobs' = [jobs EXCEPT ![j].status = s], open' = [open EXCEPT ![p] = @ \ {j}]
  PROVE  RowsMove({j}) /\ OpenOK' /\ open' \in [Procs -> SUBSET Jobs]
<1>1. /\ j \in Jobs /\ jobs \in [Jobs -> Job] /\ jobs[j] \in Job /\ jobs[j].status = "staged"
      /\ open \in [Procs -> SUBSET Jobs]
  BY DEF QInv, OpenOK, TypeOK
<1>2. s \in Statuses /\ jobs[j].attempts \in Nat /\ jobs[j].due \in BOOLEAN
  BY <1>1, RowUpdates DEF Statuses
<1>3. jobs' = [jobs EXCEPT ![j] = WithState(jobs[j], s, jobs[j].attempts, jobs[j].due)]
  BY <1>1, <1>2, RowUpdates
<1>4. /\ jobs' \in [Jobs -> Job] /\ jobs'[j].status = s /\ jobs'[j].user = jobs[j].user
      /\ jobs'[j].attempts = jobs[j].attempts
      /\ \A k \in Jobs : k # j => jobs'[k] = jobs[k]
  BY <1>1, <1>2, <1>3, RowWithState
<1>5. RowsMove({j})
  BY <1>1, <1>4 DEF RowsMove, QInv, RowOK
<1>6. /\ open' \in [Procs -> SUBSET Jobs]
      /\ \A q \in Procs : open'[q] = IF q = p THEN open[q] \ {j} ELSE open[q]
  BY <1>1
<1>7. \A q \in Procs : \A k \in open'[q] : jobs'[k].status = "staged"
  BY <1>1, <1>4, <1>6 DEF QInv, OpenOK
<1>8. \A q, r \in Procs : q # r => open'[q] \cap open'[r] = {}
  BY <1>6 DEF QInv, OpenOK
<1>9. QED BY <1>5, <1>6, <1>7, <1>8 DEF OpenOK

\* A commit makes a staged job pending; no loop had it in hand.
LEMMA CommitKeepsInv ==
  ASSUME QInv, NEW p \in Procs, NEW j \in Jobs, Commit(p, j)
  PROVE  QInv'
<1>1. /\ RowsMove({j}) /\ OpenOK' /\ open' \in [Procs -> SUBSET Jobs]
  BY TransactionEnds DEF Commit
<1>2. (\A w \in Workers : LoopOK(w)') /\ (\A k \in Jobs : RowOK(jobs'[k]))
  BY <1>1, RowsMoveKeepsLoops DEF Commit
<1>3. TypeOK'
  BY <1>1 DEF QInv, TypeOK, Commit, loop, RowsMove
<1>4. QED BY <1>1, <1>2, <1>3 DEF QInv

\* A rollback removes a staged job; no loop had it in hand.
LEMMA AbortKeepsInv ==
  ASSUME QInv, NEW p \in Procs, NEW j \in Jobs, Abort(p, j)
  PROVE  QInv'
<1>1. /\ RowsMove({j}) /\ OpenOK' /\ open' \in [Procs -> SUBSET Jobs]
  BY TransactionEnds DEF Abort
<1>2. (\A w \in Workers : LoopOK(w)') /\ (\A k \in Jobs : RowOK(jobs'[k]))
  BY <1>1, RowsMoveKeepsLoops DEF Abort
<1>3. TypeOK'
  BY <1>1 DEF QInv, TypeOK, Abort, loop, RowsMove
<1>4. QED BY <1>1, <1>2, <1>3 DEF QInv

\* Retrying by hand touches failed jobs only, which no loop has in hand.
LEMMA RetryFailedKeepsInv ==
  ASSUME QInv, NEW S \in SUBSET Jobs, RetryFailed(S)
  PROVE  QInv'
<1>1. \A j \in S : jobs[j].status = "failed"
  BY DEF RetryFailed
<1>2. jobs \in [Jobs -> Job]
  BY DEF QInv, TypeOK
<1>3. jobs' = [j \in Jobs |-> IF j \in S THEN Requeued(jobs[j]) ELSE jobs[j]]
  BY DEF RetryFailed, Requeued
<1>4. \A j \in S : /\ Requeued(jobs[j]) \in Job /\ Requeued(jobs[j]).status = "pending"
                   /\ Requeued(jobs[j]).attempts = 0 /\ Requeued(jobs[j]).user = jobs[j].user
  BY <1>2, RowRequeued
<1>5. /\ jobs' \in [Jobs -> Job]
      /\ \A j \in Jobs : jobs'[j] = IF j \in S THEN Requeued(jobs[j]) ELSE jobs[j]
  BY <1>2, <1>3, <1>4
<1>6. RowsMove(S)
  <2>1. \A j \in S : /\ jobs[j].status \notin {"free", "pending"} /\ jobs'[j].status # "free"
                     /\ jobs'[j].user = jobs[j].user
                     /\ jobs'[j].attempts < MaxAttempts
    BY <1>1, <1>4, <1>5, BoundsAreNatural
  <2>2. QED BY <1>5, <2>1 DEF RowsMove
<1>7. UNCHANGED <<process, locks, loop, fresh, faults>> /\ requeues' = requeues + 1
  BY DEF RetryFailed
<1>8. (\A w \in Workers : LoopOK(w)') /\ (\A k \in Jobs : RowOK(jobs'[k]))
  BY <1>6, <1>7, RowsMoveKeepsLoops
<1>9. TypeOK'
  BY <1>5, <1>7 DEF QInv, TypeOK, loop, process
<1>10. OpenOK'
  BY <1>1, <1>5, <1>7 DEF QInv, OpenOK, process, TypeOK
<1>11. QED BY <1>8, <1>9, <1>10 DEF QInv

\* A back-off that ends changes nothing the invariant speaks of.
LEMMA ElapseKeepsInv ==
  ASSUME QInv, NEW j \in Jobs, Elapse(j)
  PROVE  QInv'
<1>1. /\ jobs \in [Jobs -> Job] /\ jobs[j] \in Job
      /\ jobs' = [jobs EXCEPT ![j] = Undelayed(jobs[j])]
  BY DEF QInv, TypeOK, Elapse, Undelayed
<1>2. UNCHANGED <<process, locks, loop, fresh, faults, requeues>>
  BY DEF Elapse
<1>3. /\ jobs' \in [Jobs -> Job]
      /\ \A k \in Jobs : /\ jobs'[k].status = jobs[k].status /\ jobs'[k].user = jobs[k].user
                        /\ jobs'[k].attempts = jobs[k].attempts
  BY <1>1, RowUndelayed
<1>4. TypeOK'
  BY <1>2, <1>3 DEF QInv, TypeOK, loop, process
<1>5. ASSUME NEW w \in Workers PROVE LoopOK(w)'
  <2>1. LoopOK(w) /\ job[w] \in Jobs \cup {NoJob} /\ found[w] \subseteq Jobs
    BY DEF QInv, TypeOK
  <2>2. QED BY <1>2, <1>3, <2>1 DEF LoopOK, InHand, loop
<1>6. \A k \in Jobs : RowOK(jobs'[k])
  BY <1>3 DEF QInv, RowOK
<1>7. OpenOK'
  BY <1>2, <1>3 DEF QInv, OpenOK, process, TypeOK
<1>8. QED BY <1>4, <1>5, <1>6, <1>7 DEF QInv

(***************************************************************************)
(* Steps that only move loops which run nobody's jobs.                     *)
(***************************************************************************)
LEMMA IdleMoveKeepsInv ==
  ASSUME QInv, TypeOK', UNCHANGED <<jobs, open, locks, found, user, job, tries>>,
         \A w \in Workers : pc'[w] = pc[w] \/ (pc[w] \notin Busy /\ pc'[w] \notin Busy)
  PROVE  QInv'
<1>1. ASSUME NEW w \in Workers PROVE LoopOK(w)'
  BY DEF QInv, LoopOK, InHand, Busy
<1>2. QED BY <1>1 DEF QInv, RowOK, OpenOK

\* Setting the wake-up event moves sleeping loops only.
LEMMA AnnounceKeepsInv ==
  ASSUME QInv, NEW p \in Procs, Announce(p)
  PROVE  QInv'
<1>1. TypeOK'
  BY DEF QInv, TypeOK, Announce, Places, Pending
<1>2. QED BY <1>1, IdleMoveKeepsInv DEF Announce, Busy

\* Clearing the wake-up event moves no loop that has a trader.
LEMMA ClearKeepsInv ==
  ASSUME QInv, NEW w \in Workers, Clear(w)
  PROVE  QInv'
<1>1. TypeOK'
  BY DEF QInv, TypeOK, Clear, Goto, Places
<1>2. \A v \in Workers : pc'[v] = pc[v] \/ (pc[v] \notin Busy /\ pc'[v] \notin Busy)
  BY DEF QInv, TypeOK, Clear, Goto, Busy
<1>3. QED BY <1>1, <1>2, IdleMoveKeepsInv DEF Clear

\* Loops that sleep, poll or reconnect have no trader before or after.
LEMMA SleepKeepsInv ==
  ASSUME QInv, NEW w \in Workers, Sleep(w) \/ Poll(w) \/ Reconnect(w)
  PROVE  QInv'
<1>1. TypeOK'
  BY DEF QInv, TypeOK, Sleep, Poll, Reconnect, Goto, Places, process
<1>2. \A v \in Workers : pc'[v] = pc[v] \/ (pc[v] \notin Busy /\ pc'[v] \notin Busy)
  BY DEF QInv, TypeOK, Sleep, Poll, Reconnect, Goto, Busy
<1>3. QED BY <1>1, <1>2, IdleMoveKeepsInv DEF Sleep, Poll, Reconnect, process

\* Stopping or starting a process moves no loop that has a trader.
LEMMA StopKeepsInv ==
  ASSUME QInv, NEW p \in Procs, Stop(p) \/ Restart(p)
  PROVE  QInv'
<1>1. TypeOK'
  <2>1. pc' \in [Workers -> Places]
    BY DEF QInv, TypeOK, Stop, Restart, Places
  <2>2. up' \in [Procs -> {"up", "stopping", "down"}] /\ wake' \in [Procs -> BOOLEAN]
    BY DEF QInv, TypeOK, Stop, Restart
  <2>3. faults' \in Nat /\ UNCHANGED <<jobs, open, announce, locks, found, user, job, tries, fresh, requeues>>
    BY DEF QInv, TypeOK, Stop, Restart, Fault
  <2>4. QED BY <2>1, <2>2, <2>3 DEF QInv, TypeOK
<1>2. \A v \in Workers : pc'[v] = pc[v] \/ (pc[v] \notin Busy /\ pc'[v] \notin Busy)
  BY DEF QInv, TypeOK, Stop, Restart, LoopsOf, Busy
<1>3. QED BY <1>1, <1>2, IdleMoveKeepsInv DEF Stop, Restart

\* What a lookup finds are rows of the table.
LEMMA LookKeepsInv ==
  ASSUME QInv, NEW w \in Workers, Look(w)
  PROVE  QInv'
<1>1. /\ DueHeads \subseteq Jobs /\ \A j \in DueHeads : jobs[j].status # "free"
  BY DEF DueHeads, FirstOf, Heads, Pending
<1>2. /\ pc[w] = "look" /\ pc' = [pc EXCEPT ![w] = "scan"]
      /\ found' = [found EXCEPT ![w] = DueHeads]
      /\ UNCHANGED <<jobs, process, locks, user, job, tries, fresh, faults, requeues>>
  BY DEF Look, Goto
<1>3. TypeOK'
  BY <1>1, <1>2 DEF QInv, TypeOK, Places, process
<1>4. ASSUME NEW v \in Workers PROVE LoopOK(v)'
  <2>1. LoopOK(v) /\ (v # w => pc'[v] = pc[v] /\ found'[v] = found[v])
    BY <1>2 DEF QInv, TypeOK
  <2>2. pc'[w] = "scan" /\ found'[w] = DueHeads
    BY <1>2 DEF QInv, TypeOK
  <2>3. QED BY <1>1, <1>2, <2>1, <2>2 DEF LoopOK, InHand, Busy
<1>5. OpenOK'
  BY <1>2 DEF QInv, OpenOK, process
<1>6. QED BY <1>2, <1>3, <1>4, <1>5 DEF QInv, RowOK

\* The lock goes to a loop only when nobody has it.
LEMMA TryLockKeepsInv ==
  ASSUME QInv, NEW w \in Workers, TryLock(w)
  PROVE  QInv'
<1>1. PICK j \in FirstOf(1, found[w]) :
        IF locks[jobs[j].user] = NoWorker
        THEN /\ locks' = [locks EXCEPT ![jobs[j].user] = w]
             /\ user' = [user EXCEPT ![w] = jobs[j].user]
             /\ found' = [found EXCEPT ![w] = {}]
             /\ Goto(w, "next")
        ELSE /\ found' = [found EXCEPT ![w] = @ \ {j}]
             /\ UNCHANGED <<locks, user, pc>>
  BY DEF TryLock
<1>2. /\ pc[w] = "scan" /\ UNCHANGED <<jobs, process, job, tries, fresh, faults, requeues>>
      /\ TypeOK /\ LoopOK(w)
  BY DEF TryLock, QInv
<1> DEFINE u == jobs[j].user
<1>3. j \in found[w] /\ j \in Jobs /\ u \in Users /\ u # NoUser
  BY <1>2, NobodyIsNobody DEF FirstOf, QInv, LoopOK, RowOK, TypeOK
<1>4. user[w] = NoUser /\ job[w] = NoJob
  BY <1>2 DEF LoopOK, Busy
<1>5. OpenOK' /\ \A k \in Jobs : RowOK(jobs'[k])
  BY <1>2 DEF QInv, OpenOK, process
<1>6. CASE locks[u] = NoWorker
  <2>1. /\ locks' = [locks EXCEPT ![u] = w] /\ user' = [user EXCEPT ![w] = u]
        /\ found' = [found EXCEPT ![w] = {}] /\ pc' = [pc EXCEPT ![w] = "next"]
    BY <1>1, <1>6 DEF Goto
  <2> HIDE DEF u
  <2>2. TypeOK'
    BY <1>2, <1>3, <2>1 DEF TypeOK, Places, process
  <2>3. ASSUME NEW v \in Workers, v # w PROVE LoopOK(v)'
    <3>1. LoopOK(v) /\ user[v] \in Users \cup {NoUser}
      BY DEF QInv, TypeOK
    <3>2. user[v] # NoUser => user[v] # u
      BY <1>6, <3>1, NobodyIsNobody DEF LoopOK
    <3>3. user'[v] = user[v] /\ found'[v] = found[v] /\ pc'[v] = pc[v]
      BY <1>2, <2>1, <2>3 DEF TypeOK
    <3>4. user[v] # NoUser => locks'[user[v]] = locks[user[v]]
      BY <1>2, <2>1, <3>1, <3>2 DEF TypeOK
    <3>5. QED BY <1>2, <3>1, <3>3, <3>4 DEF LoopOK, InHand
  <2>4. LoopOK(w)'
    <3>1. user'[w] = u /\ found'[w] = {} /\ pc'[w] = "next" /\ locks'[u] = w
      BY <1>2, <1>3, <2>1 DEF TypeOK
    <3>2. QED BY <1>2, <1>3, <1>4, <3>1 DEF LoopOK, Busy
  <2>5. QED BY <1>5, <2>2, <2>3, <2>4 DEF QInv
<1>7. CASE locks[u] # NoWorker
  <2>1. found' = [found EXCEPT ![w] = @ \ {j}] /\ UNCHANGED <<locks, user, pc>>
    BY <1>1, <1>7
  <2>2. TypeOK'
    BY <1>2, <2>1 DEF TypeOK, process
  <2>3. ASSUME NEW v \in Workers PROVE LoopOK(v)'
    <3>1. LoopOK(v) /\ found'[v] \subseteq found[v]
      BY <1>2, <2>1 DEF QInv, TypeOK
    <3>2. QED BY <1>2, <2>1, <3>1 DEF LoopOK, InHand
  <2>4. QED BY <1>5, <2>2, <2>3 DEF QInv
<1>8. QED BY <1>6, <1>7

-----------------------------------------------------------------------------
(* A loop with a user's jobs in hand. *)

\* The job a loop takes is pending, its user's, and read as it is.
LEMMA NextJobKeepsInv ==
  ASSUME QInv, NEW w \in Workers, NextJob(w)
  PROVE  QInv'
<1>1. /\ pc[w] = "next" /\ TypeOK /\ LoopOK(w)
      /\ UNCHANGED <<jobs, process, locks, found, user, faults, requeues>>
  BY DEF QInv, NextJob
<1>2. OpenOK' /\ \A j \in Jobs : RowOK(jobs'[j])
  BY <1>1 DEF QInv, OpenOK, process
<1>3. CASE \E j \in Heads : /\ jobs[j].user = user[w]
                            /\ job' = [job EXCEPT ![w] = j]
                            /\ tries' = [tries EXCEPT ![w] = jobs[j].attempts]
                            /\ fresh' = fresh \ {j}
                            /\ pc' = [pc EXCEPT ![w] = "handle"]
  <2>1. PICK j \in Heads : /\ jobs[j].user = user[w]
                           /\ job' = [job EXCEPT ![w] = j]
                           /\ tries' = [tries EXCEPT ![w] = jobs[j].attempts]
                           /\ fresh' = fresh \ {j}
                           /\ pc' = [pc EXCEPT ![w] = "handle"]
    BY <1>3
  <2>2. j \in Jobs /\ jobs[j].status = "pending" /\ j # NoJob
    BY NoJobIsNoId DEF Heads, Pending
  <2>3. jobs[j] \in Job /\ jobs[j].attempts \in Nat
    BY <1>1, <2>2, RowUpdates DEF TypeOK
  <2>4. TypeOK'
    BY <1>1, <2>1, <2>2, <2>3 DEF TypeOK, Places, process
  <2>5. ASSUME NEW v \in Workers, v # w PROVE LoopOK(v)'
    <3>1. LoopOK(v) /\ pc'[v] = pc[v] /\ job'[v] = job[v] /\ tries'[v] = tries[v]
      BY <1>1, <2>1, <2>5 DEF QInv, TypeOK
    <3>2. QED BY <1>1, <3>1 DEF LoopOK, InHand
  <2>6. LoopOK(w)'
    <3>1. pc'[w] = "handle" /\ job'[w] = j /\ tries'[w] = jobs[j].attempts
      BY <1>1, <2>1 DEF TypeOK
    <3>2. QED BY <1>1, <2>1, <2>2, <3>1 DEF LoopOK, InHand, Busy
  <2>7. QED BY <1>2, <2>4, <2>5, <2>6 DEF QInv
<1>4. CASE pc' = [pc EXCEPT ![w] = "unlock"] /\ UNCHANGED <<job, tries, fresh>>
  <2>1. TypeOK'
    BY <1>1, <1>4 DEF TypeOK, Places, process
  <2>2. ASSUME NEW v \in Workers PROVE LoopOK(v)'
    <3>1. LoopOK(v) /\ (v # w => pc'[v] = pc[v]) /\ pc'[w] = "unlock"
      BY <1>1, <1>4 DEF QInv, TypeOK
    <3>2. QED BY <1>1, <1>4, <3>1 DEF LoopOK, InHand, Busy
  <2>3. QED BY <1>2, <2>1, <2>2 DEF QInv
<1>5. QED BY <1>3, <1>4 DEF NextJob, Goto

\* A handler's return changes nothing but the place of its loop.
LEMMA HandledKeepsInv ==
  ASSUME QInv, NEW w \in Workers, Handled(w)
  PROVE  QInv'
<1>1. /\ pc[w] = "handle" /\ pc' = [pc EXCEPT ![w] = "finish"] /\ TypeOK
      /\ UNCHANGED <<jobs, process, locks, found, user, job, tries, fresh, faults, requeues>>
  BY DEF QInv, Handled, Goto
<1>2. TypeOK'
  BY <1>1 DEF TypeOK, Places, process
<1>3. ASSUME NEW v \in Workers PROVE LoopOK(v)'
  <2>1. LoopOK(v) /\ (v # w => pc'[v] = pc[v]) /\ pc'[w] = "finish"
    BY <1>1 DEF QInv, TypeOK
  <2>2. QED BY <1>1, <2>1 DEF LoopOK, InHand, Busy
<1>4. OpenOK' /\ \A j \in Jobs : RowOK(jobs'[j])
  BY <1>1 DEF QInv, OpenOK, process
<1>5. QED BY <1>2, <1>3, <1>4 DEF QInv

(***************************************************************************)
(* A loop that lets go of its job, leaving another row in its place: no    *)
(* other loop has that job in hand.                                        *)
(***************************************************************************)
LEMMA LetGoKeepsInv ==
  ASSUME QInv, NEW w \in Workers, NEW place \in {"next", "unlock"}, NEW row \in Job,
         job[w] # NoJob, RowOK(row), row.status \notin {"free", "staged"},
         jobs' = [jobs EXCEPT ![job[w]] = row],
         job' = [job EXCEPT ![w] = NoJob], tries' = [tries EXCEPT ![w] = 0],
         pc' = [pc EXCEPT ![w] = place],
         UNCHANGED <<process, locks, found, user, fresh, faults, requeues>>
  PROVE  QInv'
<1> DEFINE j == job[w]
<1>1. TypeOK /\ LoopOK(w) /\ j \in Jobs /\ jobs[j].status = "pending"
  BY DEF QInv, TypeOK, LoopOK, InHand
<1>2. /\ jobs' \in [Jobs -> Job] /\ jobs'[j] = row
      /\ \A k \in Jobs : k # j => jobs'[k] = jobs[k]
  BY <1>1 DEF TypeOK
<1>3. TypeOK'
  BY <1>1, <1>2 DEF TypeOK, Places, process
<1>4. ASSUME NEW v \in Workers, v # w PROVE LoopOK(v)'
  <2>1. LoopOK(v) /\ job[v] \in Jobs \cup {NoJob} /\ found[v] \subseteq Jobs
    BY DEF QInv, TypeOK
  <2>2. pc'[v] = pc[v] /\ job'[v] = job[v] /\ tries'[v] = tries[v]
    BY <1>1, <1>4 DEF TypeOK
  <2>3. job[v] # NoJob => job[v] # j
    <3>1. user[w] # NoUser
      BY <1>1 DEF LoopOK, Busy
    <3>2. job[v] = j => user[v] = user[w]
      BY <1>1, <2>1 DEF LoopOK, InHand
    <3>3. QED BY <1>4, <3>1, <3>2, OneHolder
  <2>4. job[v] # NoJob => jobs'[job[v]] = jobs[job[v]]
    BY <1>2, <2>1, <2>3
  <2>5. \A k \in found[v] : jobs'[k].status # "free"
    BY <1>2, <2>1 DEF LoopOK
  <2>6. QED BY <2>1, <2>2, <2>4, <2>5 DEF LoopOK, InHand
<1>5. LoopOK(w)'
  <2>1. pc'[w] = place /\ job'[w] = NoJob
    BY <1>1 DEF TypeOK
  <2>2. \A k \in found[w] : jobs'[k].status # "free"
    BY <1>1, <1>2 DEF LoopOK, TypeOK
  <2>3. pc[w] \in Busy
    BY <1>1 DEF LoopOK, Busy
  <2>4. QED BY <1>1, <2>1, <2>2, <2>3 DEF LoopOK, Busy
<1>6. \A k \in Jobs : RowOK(jobs'[k])
  BY <1>2 DEF QInv
<1>7. OpenOK'
  <2>1. \A p \in Procs : j \notin open[p]
    BY <1>1 DEF QInv, OpenOK
  <2>2. QED BY <1>1, <1>2, <2>1 DEF QInv, OpenOK, process, TypeOK
<1>8. QED BY <1>3, <1>4, <1>5, <1>6, <1>7 DEF QInv

\* Deleting a handled job writes only the row its loop has in hand.
LEMMA FinishKeepsInv ==
  ASSUME QInv, NEW w \in Workers, Finish(w)
  PROVE  QInv'
<1>1. job[w] # NoJob /\ job[w] \in Jobs /\ jobs[job[w]] \in Job
  BY DEF QInv, TypeOK, LoopOK, Finish
<1> DEFINE row == Left(jobs[job[w]], "done")
<1>3. row \in Job /\ row.status = "done" /\ row.user = jobs[job[w]].user
  BY <1>1, RowDone
<1>4. RowOK(row)
  BY <1>1, <1>3 DEF QInv, LoopOK, InHand, RowOK
<1>5. jobs' = [jobs EXCEPT ![job[w]] = row]
  BY DEF Finish
<1> HIDE DEF row
<1>6. QED BY <1>1, <1>3, <1>4, <1>5, LetGoKeepsInv DEF Finish, Goto

\* A job is put back only while it has attempts left.
LEMMA FailKeepsInv ==
  ASSUME QInv, NEW w \in Workers, NEW permanent \in BOOLEAN, Fail(w, permanent)
  PROVE  QInv'
<1>1. /\ job[w] # NoJob /\ job[w] \in Jobs /\ jobs[job[w]] \in Job /\ InHand(w)
      /\ tries[w] \in Nat /\ RowOK(jobs[job[w]])
  BY DEF QInv, TypeOK, LoopOK, Fail
<1> DEFINE old == jobs[job[w]]
          n == tries[w] + 1
          row == AfterFailure(old, n, permanent)
<1>2. n \in Nat /\ old \in Job /\ old.status = "pending"
  BY <1>1 DEF InHand
<1>3. /\ row \in Job /\ row.user = old.user /\ row.attempts = n
      /\ row.status \in {"pending", "failed"} /\ (row.status = "pending" => n < MaxAttempts)
  BY <1>2, RowFailed
<1>4. row.status \notin {"free", "staged"} /\ RowOK(row)
  BY <1>1, <1>2, <1>3 DEF RowOK
<1>5. jobs' = [jobs EXCEPT ![job[w]] = row]
  BY <1>1 DEF Fail, InHand
<1> HIDE DEF row
<1>6. QED BY <1>1, <1>3, <1>4, <1>5, LetGoKeepsInv DEF Fail, Goto

-----------------------------------------------------------------------------
(* Loops that stop what they are doing. *)

\* Loops that drop what they do release their locks, and no others.
LEMMA DropKeepsLoops ==
  ASSUME QInv, NEW W \in SUBSET Workers, NEW place \in Places \ Busy, Drop(W, place),
         jobs' \in [Jobs -> Job], NEW S \in SUBSET Jobs,
         \A j \in Jobs \ S : jobs'[j] = jobs[j],
         \A j \in S : jobs[j].status \notin {"free", "pending"} /\ jobs'[j].status # "free"
  PROVE  /\ \A w \in Workers : LoopOK(w)'
         /\ locks' \in [Users -> Workers \cup {NoWorker}] /\ pc' \in [Workers -> Places]
         /\ found' \in [Workers -> SUBSET Jobs] /\ user' \in [Workers -> Users \cup {NoUser}]
         /\ job' \in [Workers -> Jobs \cup {NoJob}] /\ tries' \in [Workers -> Nat]
<1>1. TypeOK
  BY DEF QInv
<1>2. ASSUME NEW w \in Workers PROVE LoopOK(w)'
  <2>1. LoopOK(w) /\ job[w] \in Jobs \cup {NoJob} /\ found[w] \subseteq Jobs
                  /\ user[w] \in Users \cup {NoUser}
    BY DEF QInv, TypeOK
  <2>2. CASE w \in W
    <3>1. pc'[w] = place /\ user'[w] = NoUser /\ job'[w] = NoJob /\ found'[w] = {}
      BY <2>2 DEF Drop
    <3>2. QED BY <3>1 DEF LoopOK, Busy
  <2>3. CASE w \notin W
    <3>1. /\ pc'[w] = pc[w] /\ user'[w] = user[w] /\ job'[w] = job[w]
          /\ found'[w] = found[w] /\ tries'[w] = tries[w]
      BY <2>3 DEF Drop
    <3>2. user[w] # NoUser => locks'[user[w]] = w
      BY <2>1, <2>3 DEF Drop, Released, LoopOK
    <3>3. job[w] # NoJob => jobs'[job[w]] = jobs[job[w]]
      BY <2>1 DEF LoopOK, InHand
    <3>4. \A k \in found[w] : jobs'[k].status # "free"
      BY <2>1 DEF LoopOK
    <3>5. QED BY <2>1, <3>1, <3>2, <3>3, <3>4 DEF LoopOK, InHand
  <2>4. QED BY <2>2, <2>3
<1>3. /\ locks' \in [Users -> Workers \cup {NoWorker}] /\ pc' \in [Workers -> Places]
      /\ found' \in [Workers -> SUBSET Jobs] /\ user' \in [Workers -> Users \cup {NoUser}]
      /\ job' \in [Workers -> Jobs \cup {NoJob}] /\ tries' \in [Workers -> Nat]
  BY <1>1 DEF TypeOK, Drop, Released
<1>4. QED BY <1>2, <1>3

\* One loop that ends its pass, fails or is cancelled; the table stays as it is.
LEMMA DropKeepsInv ==
  ASSUME QInv, NEW w \in Workers, NEW place \in Places \ Busy, Drop({w}, place),
         UNCHANGED <<jobs, process, fresh, requeues>>, faults' \in Nat
  PROVE  QInv'
<1>1. {w} \in SUBSET Workers /\ jobs' \in [Jobs -> Job] /\ {} \in SUBSET Jobs
  BY DEF QInv, TypeOK
<1>2. /\ \A v \in Workers : LoopOK(v)'
      /\ locks' \in [Users -> Workers \cup {NoWorker}] /\ pc' \in [Workers -> Places]
      /\ found' \in [Workers -> SUBSET Jobs] /\ user' \in [Workers -> Users \cup {NoUser}]
      /\ job' \in [Workers -> Jobs \cup {NoJob}] /\ tries' \in [Workers -> Nat]
  <2>1. \A j \in Jobs \ {} : jobs'[j] = jobs[j]
    OBVIOUS
  <2>2. QED BY <1>1, <2>1, DropKeepsLoops
<1>3. TypeOK'
  BY <1>2 DEF QInv, TypeOK, process
<1>4. OpenOK' /\ \A j \in Jobs : RowOK(jobs'[j])
  BY DEF QInv, OpenOK, process
<1>5. QED BY <1>2, <1>3, <1>4 DEF QInv

\* A loop that unlocks, fails or is cancelled lets go of trader and lock.
LEMMA UnlockKeepsInv ==
  ASSUME QInv, NEW w \in Workers, Unlock(w) \/ DatabaseError(w) \/ Cancel(w)
  PROVE  QInv'
<1>1. "top" \in Places \ Busy /\ "broken" \in Places \ Busy /\ "off" \in Places \ Busy
  BY DEF Places, Busy
<1>2. UNCHANGED <<jobs, process, fresh, requeues>> /\ faults' \in Nat
  BY DEF QInv, TypeOK, Unlock, DatabaseError, Cancel, Fault
<1>3. \/ Drop({w}, "top") \/ Drop({w}, "broken") \/ Drop({w}, "off")
  BY DEF Unlock, DatabaseError, Cancel
<1>4. QED BY <1>1, <1>2, <1>3, DropKeepsInv

\* A process that dies takes its open transactions with it.
LEMMA CrashKeepsInv ==
  ASSUME QInv, NEW p \in Procs, Crash(p)
  PROVE  QInv'
<1>1. /\ TypeOK /\ open[p] \in SUBSET Jobs /\ jobs \in [Jobs -> Job]
      /\ \A j \in open[p] : jobs[j].status = "staged"
  BY DEF QInv, TypeOK, OpenOK
<1>2. ASSUME NEW j \in open[p]
      PROVE  LET row == [jobs[j] EXCEPT !.status = "gone"]
             IN  row \in Job /\ row.status = "gone" /\ row.user = jobs[j].user
  <2>1. /\ jobs[j] \in Job /\ "gone" \in Statuses /\ jobs[j].attempts \in Nat
        /\ jobs[j].due \in BOOLEAN
    BY <1>1, RowUpdates DEF Statuses
  <2>2. [jobs[j] EXCEPT !.status = "gone"] = WithState(jobs[j], "gone", jobs[j].attempts, jobs[j].due)
    BY <2>1, RowUpdates
  <2>3. QED BY <2>1, <2>2, RowWithState
<1> DEFINE Gone(j) == [jobs[j] EXCEPT !.status = "gone"]
<1>3. \A j \in open[p] : Gone(j) \in Job /\ Gone(j).status = "gone" /\ Gone(j).user = jobs[j].user
  BY <1>2
<1>4. jobs' = [j \in Jobs |-> IF j \in open[p] THEN Gone(j) ELSE jobs[j]]
  BY DEF Crash
<1> HIDE DEF Gone
<1>5. /\ jobs' \in [Jobs -> Job]
      /\ \A j \in Jobs \ open[p] : jobs'[j] = jobs[j]
      /\ \A j \in open[p] : jobs'[j].status = "gone" /\ jobs'[j].user = jobs[j].user
  BY <1>1, <1>3, <1>4
<1>6. /\ \A w \in Workers : LoopOK(w)'
      /\ locks' \in [Users -> Workers \cup {NoWorker}] /\ pc' \in [Workers -> Places]
      /\ found' \in [Workers -> SUBSET Jobs] /\ user' \in [Workers -> Users \cup {NoUser}]
      /\ job' \in [Workers -> Jobs \cup {NoJob}] /\ tries' \in [Workers -> Nat]
  <2>1. "off" \in Places \ Busy /\ LoopsOf(p) \in SUBSET Workers
    BY DEF Places, Busy, LoopsOf
  <2>2. Drop(LoopsOf(p), "off")
    BY DEF Crash
  <2>3. \A j \in open[p] : jobs[j].status \notin {"free", "pending"} /\ jobs'[j].status # "free"
    BY <1>1, <1>5
  <2>4. QED BY <1>1, <1>5, <2>1, <2>2, <2>3, DropKeepsLoops
<1>7. TypeOK'
  <2>1. /\ open' \in [Procs -> SUBSET Jobs] /\ announce' \in [Procs -> SUBSET Jobs]
        /\ wake' \in [Procs -> BOOLEAN] /\ up' \in [Procs -> {"up", "stopping", "down"}]
        /\ fresh' \subseteq Jobs /\ faults' \in Nat /\ requeues' \in Nat
    BY <1>1 DEF TypeOK, Crash, Fault
  <2>2. QED BY <1>5, <1>6, <2>1 DEF TypeOK
<1>8. \A j \in Jobs : RowOK(jobs'[j])
  BY <1>1, <1>5 DEF QInv, RowOK
<1>9. OpenOK'
  <2>1. \A q \in Procs : open'[q] = IF q = p THEN {} ELSE open[q]
    BY <1>1 DEF Crash, TypeOK
  <2>2. \A q \in Procs : q # p => open[q] \cap open[p] = {} /\ open[q] \subseteq Jobs
    BY <1>1 DEF QInv, OpenOK, TypeOK
  <2>3. \A q \in Procs : \A j \in open'[q] : jobs'[j].status = "staged"
    BY <1>5, <2>1, <2>2 DEF QInv, OpenOK
  <2>4. \A q, r \in Procs : q # r => open'[q] \cap open'[r] = {}
    BY <2>1 DEF QInv, OpenOK
  <2>5. QED BY <2>3, <2>4 DEF OpenOK
<1>10. QED BY <1>6, <1>7, <1>8, <1>9 DEF QInv

-----------------------------------------------------------------------------
(* The theorems. *)

\* Every step, and every stutter, keeps the invariant.
LEMMA StepKeepsInv ==
  ASSUME QInv, [Next]_vars
  PROVE  QInv'
<1>1. CASE UNCHANGED vars
  <2>1. TypeOK' /\ OpenOK' /\ \A j \in Jobs : RowOK(jobs'[j])
    BY <1>1 DEF QInv, TypeOK, OpenOK, vars, process, loop
  <2>2. ASSUME NEW w \in Workers PROVE LoopOK(w)'
    BY <1>1 DEF QInv, LoopOK, InHand, vars, process, loop
  <2>3. QED BY <2>1, <2>2 DEF QInv
<1>2. ASSUME NEW p \in Procs, Announce(p) \/ Crash(p) \/ Stop(p) \/ Restart(p) PROVE QInv'
  BY <1>2, AnnounceKeepsInv, CrashKeepsInv, StopKeepsInv
<1>3. ASSUME NEW p \in Procs, NEW u \in Users, Stage(p, u) PROVE QInv'
  BY <1>3, StageKeepsInv
<1>4. ASSUME NEW p \in Procs, NEW j \in Jobs, Commit(p, j) \/ Abort(p, j) PROVE QInv'
  BY <1>4, CommitKeepsInv, AbortKeepsInv
<1>5. ASSUME NEW j \in Jobs, Elapse(j) PROVE QInv'
  BY <1>5, ElapseKeepsInv
<1>6. ASSUME NEW S \in SUBSET Jobs, RetryFailed(S) PROVE QInv'
  BY <1>6, RetryFailedKeepsInv
<1>7. ASSUME NEW w \in Workers, Step(w) \/ DatabaseError(w) \/ Cancel(w) PROVE QInv'
  <2>1. CASE Clear(w) \/ Look(w) \/ TryLock(w) \/ Sleep(w) \/ Poll(w) \/ Reconnect(w)
    BY <2>1, ClearKeepsInv, LookKeepsInv, TryLockKeepsInv, SleepKeepsInv
  <2>2. CASE NextJob(w) \/ Handled(w) \/ Finish(w)
    BY <2>2, NextJobKeepsInv, HandledKeepsInv, FinishKeepsInv
  <2>3. CASE \E permanent \in BOOLEAN : Fail(w, permanent)
    BY <2>3, FailKeepsInv
  <2>4. CASE Unlock(w) \/ DatabaseError(w) \/ Cancel(w)
    BY <2>4, UnlockKeepsInv
  <2>5. QED BY <1>7, <2>1, <2>2, <2>3, <2>4 DEF Step, Handle
<1>8. QED BY <1>1, <1>2, <1>3, <1>4, <1>5, <1>6, <1>7 DEF Next

\* The loops, their locks, the jobs in their hands and the rows of the table agree
\* in every state (jobs/worker.py _pass, _run_user).
THEOREM InvariantHolds == Spec => []QInv
<1>1. Init => QInv
  BY InitSound
<1>2. QInv /\ [Next]_vars => QInv'
  BY StepKeepsInv
<1>3. QED BY <1>1, <1>2, PTL DEF Spec

\* Every variable of the queue keeps its type.
THEOREM TypeCorrect == Spec => []TypeOK
<1>1. QInv => TypeOK
  BY DEF QInv
<1>2. QED BY <1>1, InvariantHolds, PTL

\* No two loops, in any processes, run the jobs of one user at the same time
\* (jobs/worker.py, header), as long as no lock connection is lost.
THEOREM UsersHaveOneWorker == Spec => []OneWorkerPerUser
<1>1. QInv => OneWorkerPerUser
  BY OneHolder DEF OneWorkerPerUser
<1>2. QED BY <1>1, InvariantHolds, PTL

\* A job that is still to be run has attempts left (jobs/queue.py fail).
THEOREM RetriesBounded == Spec => []RetriesAreBounded
<1>1. QInv => RetriesAreBounded
  BY DEF QInv, RowOK, RetriesAreBounded, Pending
<1>2. QED BY <1>1, InvariantHolds, PTL

-----------------------------------------------------------------------------
(***************************************************************************)
(* The refinement.  A trader's runner in Outbox is the loop that has the   *)
(* trader, if there is one: by the invariant there is at most one, and the *)
(* row it has in hand has the attempts that were read with it.             *)
(***************************************************************************)
Runners == [u \in Users |-> Running(u)]
Returned == {u \in Users : \E w \in Workers : user[w] = u /\ pc[w] = "finish"}

\* The runner of a trader is the loop that has the trader.
LEMMA RunnerIsLoop ==
  ASSUME QInv, NEW w \in Workers, user[w] # NoUser
  PROVE  /\ user[w] \in Users
         /\ Runners[user[w]] = IF job[w] = NoJob THEN {} ELSE {job[w]}
         /\ user[w] \in Returned <=> pc[w] = "finish"
<1>1. user[w] \in Users /\ job[w] \in Jobs \cup {NoJob}
  BY DEF QInv, TypeOK
<1>2. \A v \in Workers : user[v] = user[w] => v = w
  BY OneHolder
<1>3. Running(user[w]) = IF job[w] = NoJob THEN {} ELSE {job[w]}
  BY <1>1, <1>2, NoJobIsNoId DEF Running
<1> QED  BY <1>1, <1>2, <1>3 DEF Runners, Returned

\* A loop without a job in hand is no runner's job.
LEMMA RunnersSame ==
  ASSUME \A w \in Workers :
           \/ user'[w] = user[w] /\ job'[w] = job[w] /\ (pc'[w] = "finish" <=> pc[w] = "finish")
           \/ job[w] = NoJob /\ job'[w] = NoJob /\ pc[w] # "finish" /\ pc'[w] # "finish"
  PROVE  Runners' = Runners /\ Returned' = Returned
<1>1. ASSUME NEW u \in Users
      PROVE  Running(u)' = Running(u)
  BY NoJobIsNoId DEF Running
<1>2. Returned' = Returned
  BY DEF Returned
<1> QED  BY <1>1, <1>2 DEF Runners

\* One loop takes a job, sees its handler return, or lets go of it.
LEMMA RunnerMoves ==
  ASSUME QInv, QInv', NEW w \in Workers, NEW u, user[w] = u, u # NoUser, user'[w] = u,
         \A v \in Workers \ {w} : user'[v] = user[v] /\ job'[v] = job[v] /\ pc'[v] = pc[v]
  PROVE  /\ Runners' = [Runners EXCEPT ![u] = IF job'[w] = NoJob THEN {} ELSE {job'[w]}]
         /\ Returned' = IF pc'[w] = "finish" THEN Returned \cup {u} ELSE Returned \ {u}
<1>1. u \in Users /\ job'[w] \in Jobs \cup {NoJob}
  BY DEF QInv, TypeOK
<1>2. \A v \in Workers : user[v] = u => v = w
  BY OneHolder
<1>3. \A v \in Workers : user'[v] = user[v]
  OBVIOUS
<1>4. Running(u)' = IF job'[w] = NoJob THEN {} ELSE {job'[w]}
  <2>1. \A j \in Jobs : (\E v \in Workers : user'[v] = u /\ job'[v] = j) <=> job'[w] = j
    BY <1>2, <1>3
  <2>2. Running(u)' = {j \in Jobs : \E v \in Workers : user'[v] = u /\ job'[v] = j}
    BY DEF Running
  <2> QED  BY <2>1, <2>2, <1>1, NoJobIsNoId
<1>5. ASSUME NEW o \in Users, o # u
      PROVE  Running(o)' = Running(o)
  BY <1>3, <1>5 DEF Running
<1>6. Runners' = [Runners EXCEPT ![u] = IF job'[w] = NoJob THEN {} ELSE {job'[w]}]
  BY <1>1, <1>4, <1>5 DEF Runners
<1>7. \A o \in Users : o \in Returned' <=> IF o = u THEN pc'[w] = "finish" ELSE o \in Returned
  BY <1>2, <1>3 DEF Returned
<1> QED  BY <1>1, <1>6, <1>7 DEF Returned

\* Loops that stop leave their traders without a runner, and no others.
LEMMA RunnersDrop ==
  ASSUME QInv, NEW W \in SUBSET Workers, NEW place, place # "finish", Drop(W, place)
  PROVE  LET U == {u \in Users : \E w \in W : user[w] = u}
         IN  /\ Runners' = [u \in Users |-> IF u \in U THEN {} ELSE Runners[u]]
             /\ Returned' = Returned \ U
<1> DEFINE U == {u \in Users : \E w \in W : user[w] = u}
<1>1. \A w \in Workers : IF w \in W THEN user'[w] = NoUser /\ job'[w] = NoJob /\ pc'[w] = place
                         ELSE user'[w] = user[w] /\ job'[w] = job[w] /\ pc'[w] = pc[w]
  BY DEF Drop
<1>2. ASSUME NEW v \in Workers, NEW w \in Workers, user[v] \in Users, user[v] = user[w]
      PROVE  v = w
  BY <1>2, NobodyIsNobody, OneHolder
<1>3. ASSUME NEW u \in Users
      PROVE  Running(u)' = (IF u \in U THEN {} ELSE Running(u))
             /\ (u \in Returned' <=> u \in Returned /\ u \notin U)
  <2>1. u # NoUser
    BY NobodyIsNobody
  <2>2. CASE u \in U
    <3>1. \A w \in Workers : user'[w] # u
      BY <2>1, <2>2, <1>1, <1>2
    <3> QED  BY <2>2, <3>1 DEF Running, Returned
  <2>3. CASE u \notin U
    <3>1. \A w \in Workers : user'[w] = u <=> user[w] = u
      BY <2>1, <2>3, <1>1
    <3>2. \A w \in Workers : user[w] = u => job'[w] = job[w] /\ pc'[w] = pc[w]
      BY <2>3, <1>1
    <3> QED  BY <2>3, <3>1, <3>2 DEF Running, Returned
  <2> QED  BY <2>2, <2>3
<1>4. Runners' = [u \in Users |-> IF u \in U THEN {} ELSE Runners[u]]
  BY <1>3 DEF Runners
<1>5. Returned' = Returned \ U
  BY <1>3 DEF Returned
<1> QED  BY <1>4, <1>5

\* The abstract step.
Promised == [Promise!OutboxNext]_(Promise!outboxVars)

\* A step that changes no row and no runner is none in Outbox.
LEMMA StutterPromised ==
  ASSUME jobs' = jobs, Runners' = Runners, Returned' = Returned
  PROVE  Promised
  BY DEF Promised, Promise!outboxVars, Runners, Returned

\* Loops that stop are a crash of their traders' runners; the rows in S go with it.
LEMMA CrashPromised ==
  ASSUME QInv, NEW W \in SUBSET Workers, NEW place, place # "finish", Drop(W, place),
         NEW S \in SUBSET Jobs, \A j \in S : jobs[j].status = "staged",
         jobs' = [j \in Jobs |-> IF j \in S THEN [jobs[j] EXCEPT !.status = "gone"] ELSE jobs[j]]
  PROVE  Promised
<1>0. PICK U : U = {u \in Users : \E w \in W : user[w] = u}
  OBVIOUS
<1>1. /\ Runners' = [u \in Users |-> IF u \in U THEN {} ELSE Runners[u]]
      /\ Returned' = Returned \ U
  BY <1>0, RunnersDrop
<1>2. U \in SUBSET Users
  BY <1>0
<1>3. Promise!Crash(S, U)
  BY <1>1 DEF Promise!Crash, Promise!SetStatus, Runners, Returned
<1> QED  BY <1>2, <1>3 DEF Promised, Promise!OutboxNext

\* A table that does not change is one of which no row is gone.
LEMMA SameTable ==
  ASSUME QInv, jobs' = jobs
  PROVE  jobs' = [j \in Jobs |-> IF j \in {} THEN [jobs[j] EXCEPT !.status = "gone"] ELSE jobs[j]]
  BY DEF QInv, TypeOK

\* Staging, committing and rolling back.
LEMMA TransactionsPromised ==
  ASSUME QInv, NEW p \in Procs,
         \/ \E u \in Users : Stage(p, u)
         \/ \E j \in Jobs : Commit(p, j) \/ Abort(p, j)
  PROVE  Promised
<1>0. jobs \in [Jobs -> Job] /\ \A j \in open[p] : j \in Jobs /\ jobs[j].status = "staged"
  BY DEF QInv, TypeOK, OpenOK
<1>1. Runners' = Runners /\ Returned' = Returned
  <2>1. UNCHANGED loop
    BY DEF Stage, Commit, Abort
  <2> QED  BY <2>1, RunnersSame DEF loop
<1>2. ASSUME NEW u \in Users, Stage(p, u)
      PROVE  Promised
  <2>1. PICK j \in Jobs :
          /\ jobs[j].status = "free"
          /\ jobs' = [jobs EXCEPT ![j] = [status |-> "staged", user |-> u, attempts |-> 0, due |-> TRUE]]
    BY <1>2 DEF Stage
  <2>2. Promise!Stage(j, u)
    BY <2>1, <1>1 DEF Promise!Stage, Runners, Returned
  <2> QED  BY <2>2 DEF Promised, Promise!OutboxNext
<1>3. ASSUME NEW j \in Jobs, Commit(p, j)
      PROVE  Promised
  <2>1. j \in open[p] /\ jobs' = [jobs EXCEPT ![j].status = "pending"]
    BY <1>3 DEF Commit
  <2>2. jobs' = [k \in Jobs |-> IF k \in {j} THEN [jobs[k] EXCEPT !.status = "pending"] ELSE jobs[k]]
    BY <2>1, <1>0
  <2>3. Promise!Commit(j)
    BY <2>1, <2>2, <1>0, <1>1 DEF Promise!Commit, Promise!SetStatus, Runners, Returned
  <2> QED  BY <2>3 DEF Promised, Promise!OutboxNext
<1>4. ASSUME NEW j \in Jobs, Abort(p, j)
      PROVE  Promised
  <2>1. j \in open[p] /\ jobs' = [jobs EXCEPT ![j].status = "gone"]
    BY <1>4 DEF Abort
  <2>2. jobs' = [k \in Jobs |-> IF k \in {j} THEN [jobs[k] EXCEPT !.status = "gone"] ELSE jobs[k]]
    BY <2>1, <1>0
  <2>3. Runners' = [u \in Users |-> IF u \in {} THEN {} ELSE Runners[u]] /\ Returned' = Returned \ {}
    BY <1>1 DEF Runners
  <2>4. Promise!Crash({j}, {})
    BY <2>1, <2>2, <2>3, <1>0 DEF Promise!Crash, Promise!SetStatus, Runners, Returned
  <2>5. {j} \in SUBSET Jobs /\ {} \in SUBSET Users
    OBVIOUS
  <2> QED  BY <2>4, <2>5 DEF Promised, Promise!OutboxNext
<1> QED  BY <1>2, <1>3, <1>4

\* A back-off ends, or a failed job is put back.
LEMMA RetriesPromised ==
  ASSUME QInv, (\E j \in Jobs : Elapse(j)) \/ (\E S \in SUBSET Jobs : RetryFailed(S))
  PROVE  Promised
<1>1. Runners' = Runners /\ Returned' = Returned
  <2>1. UNCHANGED loop
    BY DEF Elapse, RetryFailed
  <2> QED  BY <2>1, RunnersSame DEF loop
<1>2. ASSUME NEW j \in Jobs, Elapse(j)
      PROVE  Promised
  <2>1. Promise!Elapse(j)
    BY <1>1, <1>2 DEF Elapse, Pending, Promise!Elapse, Runners, Returned
  <2> QED  BY <2>1 DEF Promised, Promise!OutboxNext
<1>3. ASSUME NEW S \in SUBSET Jobs, RetryFailed(S)
      PROVE  Promised
  <2>1. Promise!Requeue(S)
    BY <1>1, <1>3 DEF RetryFailed, Promise!Requeue, Promise!Requeued, Runners, Returned
  <2> QED  BY <2>1 DEF Promised, Promise!OutboxNext
<1> QED  BY <1>2, <1>3

\* A loop with a trader does what the trader's runner may do.
LEMMA RunPromised ==
  ASSUME QInv, QInv', NEW w \in Workers, NextJob(w) \/ Handle(w) \/ Finish(w)
  PROVE  Promised
<1>u. PICK u : u = user[w]
  OBVIOUS
<1>0. /\ jobs \in [Jobs -> Job] /\ job \in [Workers -> Jobs \cup {NoJob}] /\ pc \in [Workers -> Places]
      /\ tries \in [Workers -> Nat]
  BY DEF QInv, TypeOK
<1>1. /\ user' = user /\ pc[w] \in {"next", "handle", "finish"}
      /\ u # NoUser /\ u \in Users /\ (job[w] # NoJob <=> pc[w] \in {"handle", "finish"})
      /\ (job[w] # NoJob => InHand(w) /\ job[w] \in Jobs)
  <2>1. user' = user /\ pc[w] \in {"next", "handle", "finish"}
    BY DEF NextJob, Handle, Handled, Fail, Finish
  <2>2. LoopOK(w)
    BY DEF QInv
  <2> QED  BY <1>u, <1>0, <2>1, <2>2, RunnerIsLoop DEF LoopOK, Busy
<1>2. /\ Runners[u] = IF job[w] = NoJob THEN {} ELSE {job[w]}
      /\ u \in Returned <=> pc[w] = "finish"
  BY <1>u, <1>1, RunnerIsLoop
<1>3. \A v \in Workers \ {w} : user'[v] = user[v] /\ job'[v] = job[v] /\ pc'[v] = pc[v]
  BY <1>0, <1>1 DEF NextJob, Handle, Handled, Fail, Finish, Goto
<1>4. /\ Runners' = [Runners EXCEPT ![u] = IF job'[w] = NoJob THEN {} ELSE {job'[w]}]
      /\ Returned' = IF pc'[w] = "finish" THEN Returned \cup {u} ELSE Returned \ {u}
  <2>1. user[w] = u /\ u # NoUser /\ user'[w] = u
    BY <1>u, <1>1
  <2> QED  BY <2>1, <1>3, RunnerMoves
<1>5. CASE NextJob(w)
  <2>1. /\ pc[w] = "next" /\ jobs' = jobs
        /\ \/ \E j \in Heads : /\ jobs[j].user = u /\ jobs[j].due
                               /\ job' = [job EXCEPT ![w] = j] /\ pc' = [pc EXCEPT ![w] = "handle"]
           \/ job' = job /\ pc' = [pc EXCEPT ![w] = "unlock"]
    BY <1>u, <1>5 DEF NextJob, Goto
  <2>2. Runners[u] = {} /\ u \notin Returned
    BY <2>1, <1>1, <1>2
  <2>3. CASE job' = job /\ pc' = [pc EXCEPT ![w] = "unlock"]
    <3>1. job'[w] = NoJob /\ pc'[w] = "unlock"
      BY <2>1, <2>3, <1>0, <1>1
    <3>2. Runners' = Runners /\ Returned' = Returned
      BY <3>1, <2>2, <1>4 DEF Runners
    <3> QED  BY <3>2, <2>1, StutterPromised
  <2>4. ASSUME NEW j \in Heads, jobs[j].user = u, jobs[j].due,
               job' = [job EXCEPT ![w] = j], pc' = [pc EXCEPT ![w] = "handle"]
        PROVE  Promised
    <3>1. j \in Jobs /\ j # NoJob /\ job'[w] = j /\ pc'[w] = "handle"
      BY <2>4, <1>0, NoJobIsNoId DEF Heads, Pending
    <3>2. Runners' = [Runners EXCEPT ![u] = {j}] /\ Returned' = Returned
      BY <3>1, <2>2, <1>4
    <3>3. j \in Promise!Oldest(jobs, u)
      BY <2>4 DEF Heads, Pending, Promise!Oldest, Promise!Pending
    <3>4. Promise!Start(u)
      BY <2>1, <2>2, <2>4, <3>2, <3>3 DEF Promise!Start, Runners, Returned
    <3> QED  BY <3>4, <1>1 DEF Promised, Promise!OutboxNext
  <2> QED  BY <2>1, <2>3, <2>4
<1>6. CASE Handled(w)
  <2>1. pc[w] = "handle" /\ pc'[w] = "finish" /\ job' = job /\ jobs' = jobs
    BY <1>6, <1>0 DEF Handled, Goto
  <2>2. Runners[u] = {job[w]} /\ u \notin Returned /\ Runners' = Runners /\ Returned' = Returned \cup {u}
    BY <2>1, <1>1, <1>2, <1>4 DEF Runners
  <2>3. Promise!Return(u)
    BY <2>1, <2>2 DEF Promise!Return, Runners, Returned
  <2> QED  BY <2>3, <1>1 DEF Promised, Promise!OutboxNext
<1>7. CASE Finish(w)
  <2>1. /\ pc[w] = "finish" /\ pc'[w] = "next" /\ job'[w] = NoJob
        /\ jobs' = [jobs EXCEPT ![job[w]] = Left(@, "done")]
    BY <1>7, <1>0 DEF Finish, Goto
  <2>2. Runners[u] = {job[w]} /\ u \in Returned /\ Runners' = [Runners EXCEPT ![u] = {}]
        /\ Returned' = Returned \ {u}
    BY <2>1, <1>1, <1>2, <1>4
  <2>3. jobs' = [j \in Jobs |->
                   IF j \in Runners[u] THEN [jobs[j] EXCEPT !.status = "done", !.attempts = 0, !.due = TRUE]
                   ELSE jobs[j]]
    BY <2>1, <2>2, <1>0, <1>1 DEF Left
  <2>4. Promise!Finish(u)
    BY <2>2, <2>3 DEF Promise!Finish, Runners, Returned
  <2> QED  BY <2>4, <1>1 DEF Promised, Promise!OutboxNext
<1>8. ASSUME NEW permanent \in BOOLEAN, Fail(w, permanent)
      PROVE  Promised
  <2>1. /\ pc[w] = "handle" /\ pc'[w] = "unlock" /\ job'[w] = NoJob
    BY <1>8, <1>0 DEF Fail, Goto
  <2>2. Runners[u] = {job[w]} /\ u \notin Returned /\ Runners' = [Runners EXCEPT ![u] = {}]
        /\ Returned' = Returned
    BY <2>1, <1>1, <1>2, <1>4
  <2>3. jobs' = [jobs EXCEPT ![job[w]] = AfterFailure(@, jobs[job[w]].attempts + 1, permanent)]
    BY <2>1, <1>1, <1>8 DEF Fail, InHand
  <2>4. \A row, n : Promise!AfterFailure(row, n, permanent) = AfterFailure(row, n, permanent)
    BY DEF Promise!AfterFailure, AfterFailure
  <2>5. jobs' = [j \in Jobs |->
                   IF j \in Runners[u] THEN Promise!AfterFailure(jobs[j], jobs[j].attempts + 1, permanent)
                   ELSE jobs[j]]
    BY <2>1, <2>2, <2>3, <2>4, <1>0, <1>1
  <2>6. Promise!Fail(u, permanent)
    BY <2>2, <2>5 DEF Promise!Fail, Runners, Returned
  <2> QED  BY <2>6, <1>1 DEF Promised, Promise!OutboxNext
<1> QED  BY <1>5, <1>6, <1>7, <1>8 DEF Handle

\* The other steps of a loop and of a process show nothing of themselves.
LEMMA IdlePromised ==
  ASSUME QInv, QInv', NEW w \in Workers,
         Clear(w) \/ Look(w) \/ TryLock(w) \/ Sleep(w) \/ Poll(w) \/ Unlock(w) \/ Reconnect(w)
  PROVE  Promised
<1>0. /\ pc \in [Workers -> Places] /\ user \in [Workers -> Users \cup {NoUser}]
      /\ LoopOK(w) /\ LoopOK(w)'
  BY DEF QInv, TypeOK
<1>1. CASE Unlock(w)
  <2>1. /\ jobs' = jobs /\ pc[w] = "unlock" /\ job[w] = NoJob
        /\ \A v \in Workers : v # w => pc'[v] = pc[v] /\ user'[v] = user[v] /\ job'[v] = job[v]
        /\ job'[w] = NoJob /\ pc'[w] \in {"top", "broken"}
    BY <1>0, <1>1 DEF Unlock, Drop, process, LoopOK
  <2>2. Runners' = Runners /\ Returned' = Returned
    BY <2>1, RunnersSame
  <2> QED  BY <2>1, <2>2, StutterPromised
<1>2. CASE Clear(w) \/ Look(w) \/ TryLock(w) \/ Sleep(w) \/ Poll(w) \/ Reconnect(w)
  <2>1. /\ jobs' = jobs /\ job' = job /\ pc[w] \in {"top", "look", "scan", "asleep", "broken"}
        /\ \A v \in Workers : v # w => pc'[v] = pc[v] /\ user'[v] = user[v]
        /\ pc'[w] \in {"off", "look", "scan", "next", "top", "asleep"}
    BY <1>0, <1>2 DEF Clear, Look, TryLock, Sleep, Poll, Reconnect, Goto, process
  <2>2. job[w] = NoJob
    BY <2>1, <1>0 DEF LoopOK
  <2>3. Runners' = Runners /\ Returned' = Returned
    BY <2>1, <2>2, RunnersSame
  <2> QED  BY <2>1, <2>3, StutterPromised
<1> QED  BY <1>1, <1>2

\* A process that wakes its loops, stops or starts shows nothing of itself either.
LEMMA ProcessPromised ==
  ASSUME QInv, NEW p \in Procs, Announce(p) \/ Stop(p) \/ Restart(p)
  PROVE  Promised
<1>0. \A w \in Workers : LoopOK(w)
  BY DEF QInv
<1>1. /\ jobs' = jobs /\ user' = user /\ job' = job
      /\ \A w \in Workers : pc'[w] = pc[w] \/ (pc[w] \in {"asleep", "off"} /\ pc'[w] = "top")
  BY DEF Announce, Stop, Restart, LoopsOf
<1>2. Runners' = Runners /\ Returned' = Returned
  BY <1>1, RunnersSame
<1> QED  BY <1>1, <1>2, StutterPromised

\* Every step of the queue is a step of Outbox, or none.
LEMMA StepPromised ==
  ASSUME QInv, QInv', [Next]_vars
  PROVE  Promised
<1>1. CASE UNCHANGED vars
  <2>1. jobs' = jobs /\ user' = user /\ job' = job /\ pc' = pc
    BY <1>1 DEF vars, loop
  <2>2. Runners' = Runners /\ Returned' = Returned
    BY <2>1, RunnersSame
  <2> QED  BY <2>1, <2>2, StutterPromised
<1>2. ASSUME NEW p \in Procs, Announce(p) \/ Stop(p) \/ Restart(p) PROVE Promised
  BY <1>2, ProcessPromised
<1>3. ASSUME NEW p \in Procs, Crash(p) PROVE Promised
  <2>1. open[p] \in SUBSET Jobs /\ (\A j \in open[p] : jobs[j].status = "staged") /\ LoopsOf(p) \in SUBSET Workers
    BY DEF QInv, TypeOK, OpenOK, LoopsOf
  <2>2. Drop(LoopsOf(p), "off")
        /\ jobs' = [j \in Jobs |-> IF j \in open[p] THEN [jobs[j] EXCEPT !.status = "gone"] ELSE jobs[j]]
    BY <1>3 DEF Crash
  <2>3. "off" # "finish"
    OBVIOUS
  <2> QED  BY <2>1, <2>2, <2>3, CrashPromised
<1>4. ASSUME NEW p \in Procs, (\E u \in Users : Stage(p, u)) \/ (\E j \in Jobs : Commit(p, j) \/ Abort(p, j))
      PROVE  Promised
  BY <1>4, TransactionsPromised
<1>5. ASSUME (\E j \in Jobs : Elapse(j)) \/ (\E S \in SUBSET Jobs : RetryFailed(S)) PROVE Promised
  BY <1>5, RetriesPromised
<1>6. ASSUME NEW w \in Workers, Step(w) PROVE Promised
  BY <1>6, RunPromised, IdlePromised DEF Step
<1>7. ASSUME NEW w \in Workers, DatabaseError(w) \/ Cancel(w) PROVE Promised
  <2>1. PICK place : place # "finish" /\ Drop({w}, place) /\ jobs' = jobs
    BY <1>7 DEF DatabaseError, Cancel
  <2>2. {w} \in SUBSET Workers /\ {} \in SUBSET Jobs /\ \A j \in {} : jobs[j].status = "staged"
    OBVIOUS
  <2>3. jobs' = [j \in Jobs |-> IF j \in {} THEN [jobs[j] EXCEPT !.status = "gone"] ELSE jobs[j]]
    BY <2>1, SameTable
  <2> QED  BY <2>1, <2>2, <2>3, CrashPromised
<1> QED  BY <1>1, <1>2, <1>3, <1>4, <1>5, <1>6, <1>7 DEF Next

\* The workers, their locks, their crashes and their restarts implement the outbox of
\* jobs/queue.py's header: one runner per trader, oldest job first, later jobs behind a failed
\* one, and a job gone only after its handler returned.
THEOREM QueueKeepsPromise == Spec => KeepsPromise
<1>1. Init => Promise!OutboxInit
  <2> SUFFICES ASSUME Init PROVE Promise!OutboxInit
    OBVIOUS
  <2>1. \A u \in Users : Running(u) = {}
    BY NoJobIsNoId DEF Init, Running
  <2>2. Returned = {}
    BY DEF Init, Returned
  <2> QED  BY <2>1, <2>2 DEF Init, Promise!OutboxInit, Returned
<1>2. QInv /\ QInv' /\ [Next]_vars => [Promise!OutboxNext]_(Promise!outboxVars)
  BY StepPromised DEF Promised
<1> QED  BY <1>1, <1>2, InvariantHolds, PTL DEF Spec, KeepsPromise, Promise!OutboxSpec

-----------------------------------------------------------------------------
(* No loop sleeps over work. *)

\* What the theorem needs of the constants: every process that serves traders runs a loop,
\* and there are no more traders than due_users looks at.
AppsHaveLoops == \A p \in Apps : \E w \in Workers : ProcOf[w] = p
HeadsFitWindow == IsFiniteSet(Users) /\ Cardinality(Users) <= 3 * Limit

(***************************************************************************)
(* The rest of the inductive invariant.  A loop is alert when it will look *)
(* at the queue again before it sleeps, or runs jobs and will look after.  *)
(* As long as nothing broke, a new job at the head of its trader's queue   *)
(* has an alert loop; a lock that keeps others from that trader belongs to *)
(* a loop that is one.                                                     *)
(***************************************************************************)
Alert(w) ==
  \/ pc[w] \in {"top", "look"} \cup Busy
  \/ pc[w] = "scan" /\ (found[w] # {} \/ wake[ProcOf[w]])

FreshOK == \A j \in fresh : /\ jobs[j].status = "pending" /\ jobs[j].attempts = 0
                            /\ \A w \in Workers : job[w] # j
DueOK == \A j \in Jobs : jobs[j].status \in {"staged", "pending"} /\ jobs[j].attempts = 0 => jobs[j].due
AppsOnly == \A p \in Procs : open[p] \cup announce[p] # {} => p \in Apps
HeldForUser == \A u \in Users : locks[u] # NoWorker => user[locks[u]] = u
NothingBroke == (\A p \in Procs : up[p] = "up") /\ (\A w \in Workers : pc[w] \notin {"off", "broken"})
NewWorkIsSeen == Heads \cap fresh # {} => \E w \in Workers : Alert(w)

WakeInv ==
  /\ FreshOK /\ DueOK /\ AppsOnly /\ HeldForUser
  /\ faults = 0 => NothingBroke /\ NewWorkIsSeen

\* The empty queue satisfies it.
LEMMA InitWakes == Init => WakeInv
<1> SUFFICES ASSUME Init PROVE WakeInv
  OBVIOUS
<1> DEFINE free == [status |-> "free", user |-> NoUser, attempts |-> 0, due |-> TRUE]
<1>1. free.status = "free" /\ jobs = [j \in Jobs |-> free]
  BY DEF Init
<1> HIDE DEF free
<1>2. \A j \in Jobs : jobs[j].status = "free"
  BY <1>1
<1>3. FreshOK /\ DueOK /\ AppsOnly /\ HeldForUser
  BY <1>2 DEF Init, FreshOK, DueOK, AppsOnly, HeldForUser
<1>4. NothingBroke /\ NewWorkIsSeen
  BY DEF Init, NothingBroke, NewWorkIsSeen
<1> QED BY <1>3, <1>4 DEF WakeInv

\* New jobs stay new where their rows stay and nobody takes one up.
LEMMA FreshStays ==
  ASSUME FreshOK, fresh' \subseteq fresh,
         \A j \in fresh' : jobs'[j].status = jobs[j].status /\ jobs'[j].attempts = jobs[j].attempts,
         \A w \in Workers : job'[w] = job[w] \/ job'[w] \notin fresh'
  PROVE  FreshOK'
  BY DEF FreshOK

\* A job that was pending heads its trader's queue only if it did before, where no job leaves.
LEMMA HeadsWere ==
  ASSUME \A j \in Pending : jobs'[j].status = "pending" /\ jobs'[j].user = jobs[j].user
  PROVE  \A j \in Pending : j \in Heads' => j \in Heads
  BY DEF Heads, Pending

\* Rows that change under loops that stand still: open transactions, retries by hand and
\* back-offs that end.
RowsOnly ==
  /\ UNCHANGED <<wake, up, locks, loop, fresh, faults>>
  /\ \A j \in Pending : /\ jobs'[j].status = "pending" /\ jobs'[j].user = jobs[j].user
                        /\ jobs'[j].attempts = jobs[j].attempts
  /\ DueOK' /\ AppsOnly'

\* Such a change leaves the loops as alert as they were, and no new job appears.
LEMMA RowsOnlyWakes ==
  ASSUME QInv, WakeInv, RowsOnly
  PROVE  WakeInv'
<1>1. FreshOK /\ fresh \subseteq Pending
  BY DEF WakeInv, FreshOK, Pending, QInv, TypeOK
<1>2. FreshOK'
  BY <1>1, FreshStays DEF RowsOnly, loop, Pending
<1>3. HeldForUser'
  BY DEF WakeInv, HeldForUser, RowsOnly, loop
<1>4. ASSUME faults' = 0 PROVE NothingBroke' /\ NewWorkIsSeen'
  <2>1. NothingBroke /\ NewWorkIsSeen
    BY <1>4 DEF WakeInv, RowsOnly
  <2>2. Heads' \cap fresh' \subseteq Heads \cap fresh
    BY <1>1, HeadsWere DEF RowsOnly
  <2>3. \A w \in Workers : Alert(w) => Alert(w)'
    BY DEF Alert, RowsOnly, loop
  <2> QED BY <2>1, <2>2, <2>3 DEF NothingBroke, NewWorkIsSeen, RowsOnly, loop
<1> QED BY <1>2, <1>3, <1>4 DEF WakeInv, RowsOnly

\* Staging, and the end of a transaction.
LEMMA TransactionsWake ==
  ASSUME QInv, WakeInv, NEW p \in Procs,
         (\E u \in Users : Stage(p, u)) \/ (\E j \in Jobs : Commit(p, j) \/ Abort(p, j))
  PROVE  WakeInv'
<1>1. jobs \in [Jobs -> Job] /\ open \in [Procs -> SUBSET Jobs] /\ announce \in [Procs -> SUBSET Jobs]
  BY DEF QInv, TypeOK
<1>2. CASE \E u \in Users : Stage(p, u)
  <2>1. PICK u \in Users : Stage(p, u)
    BY <1>2
  <2> DEFINE new == [status |-> "staged", user |-> u, attempts |-> 0, due |-> TRUE]
  <2>2. PICK j \in Jobs : /\ jobs[j].status = "free" /\ jobs' = [jobs EXCEPT ![j] = new]
                          /\ open' = [open EXCEPT ![p] = @ \cup {j}]
    BY <2>1 DEF Stage
  <2>3. new.status = "staged" /\ new.due /\ new.attempts = 0
    OBVIOUS
  <2> HIDE DEF new
  <2>4. jobs'[j] = new /\ \A k \in Jobs : k # j => jobs'[k] = jobs[k]
    BY <1>1, <2>2
  <2>5. DueOK'
    BY <2>3, <2>4 DEF WakeInv, DueOK
  <2>6. AppsOnly'
    BY <1>1, <2>1, <2>2 DEF WakeInv, AppsOnly, Stage
  <2>7. RowsOnly
    BY <2>1, <2>2, <2>4, <2>5, <2>6 DEF RowsOnly, Stage, Pending
  <2> QED BY <2>7, RowsOnlyWakes
<1>3. CASE \E j \in Jobs : Commit(p, j) \/ Abort(p, j)
  <2>1. PICK j \in Jobs : Commit(p, j) \/ Abort(p, j)
    BY <1>3
  <2>2. PICK s \in {"pending", "gone"} : jobs' = [jobs EXCEPT ![j].status = s]
    BY <2>1 DEF Commit, Abort
  <2>3. jobs[j].status = "staged" /\ jobs[j] \in Job /\ j \in open[p]
    BY <1>1, <2>1 DEF QInv, OpenOK, Commit, Abort
  <2>4. /\ \A k \in Jobs : k # j => jobs'[k] = jobs[k]
        /\ jobs'[j].status = s /\ jobs'[j].attempts = jobs[j].attempts /\ jobs'[j].due = jobs[j].due
    BY <1>1, <2>2, <2>3 DEF Job
  <2>5. DueOK'
    BY <2>3, <2>4 DEF WakeInv, DueOK
  <2>6. p \in Apps
    BY <2>3 DEF WakeInv, AppsOnly
  <2>7. AppsOnly'
    BY <1>1, <2>1, <2>6 DEF WakeInv, AppsOnly, Commit, Abort
  <2>8. RowsOnly
    BY <2>1, <2>3, <2>4, <2>5, <2>7 DEF RowsOnly, Commit, Abort, Pending
  <2> QED BY <2>8, RowsOnlyWakes
<1> QED BY <1>2, <1>3

\* A back-off that ends, and failed jobs put back by hand.
LEMMA RetriesWake ==
  ASSUME QInv, WakeInv, (\E j \in Jobs : Elapse(j)) \/ (\E S \in SUBSET Jobs : RetryFailed(S))
  PROVE  WakeInv'
<1>1. jobs \in [Jobs -> Job]
  BY DEF QInv, TypeOK
<1>2. CASE \E j \in Jobs : Elapse(j)
  <2>1. PICK j \in Jobs : Elapse(j)
    BY <1>2
  <2>2. jobs' = [jobs EXCEPT ![j] = Undelayed(jobs[j])]
    BY <1>1, <2>1 DEF Elapse, Undelayed
  <2>3. Undelayed(jobs[j]).due
    BY <1>1 DEF Undelayed, Job
  <2>4. \A k \in Jobs : /\ jobs'[k].status = jobs[k].status /\ jobs'[k].user = jobs[k].user
                        /\ jobs'[k].attempts = jobs[k].attempts /\ (jobs[k].due => jobs'[k].due)
    BY <1>1, <2>2, <2>3, RowUndelayed
  <2>5. DueOK'
    BY <2>4 DEF WakeInv, DueOK
  <2>6. RowsOnly
    BY <2>1, <2>4, <2>5 DEF RowsOnly, Elapse, Pending, process, WakeInv, AppsOnly
  <2> QED BY <2>6, RowsOnlyWakes
<1>3. CASE \E S \in SUBSET Jobs : RetryFailed(S)
  <2>1. PICK S \in SUBSET Jobs : RetryFailed(S)
    BY <1>3
  <2>2. jobs' = [j \in Jobs |-> IF j \in S THEN Requeued(jobs[j]) ELSE jobs[j]]
    BY <2>1 DEF RetryFailed, Requeued
  <2>3. \A j \in S : jobs[j].status = "failed" /\ Requeued(jobs[j]).due
    BY <1>1, <2>1 DEF RetryFailed, Requeued, Job
  <2>4. /\ \A j \in Jobs \ S : jobs'[j] = jobs[j]
        /\ \A j \in S : jobs'[j].due /\ jobs[j].status = "failed"
    BY <2>2, <2>3
  <2>5. DueOK'
    BY <2>4 DEF WakeInv, DueOK
  <2>6. RowsOnly
    BY <2>1, <2>4, <2>5 DEF RowsOnly, RetryFailed, Pending, process, WakeInv, AppsOnly
  <2> QED BY <2>6, RowsOnlyWakes
<1> QED BY <1>2, <1>3

\* A commit that is announced wakes the loops of its process, which has some.
LEMMA AnnounceWakes ==
  ASSUME QInv, WakeInv, AppsHaveLoops, NEW p \in Procs, Announce(p)
  PROVE  WakeInv'
<1>1. /\ pc \in [Workers -> Places] /\ wake \in [Procs -> BOOLEAN] /\ announce \in [Procs -> SUBSET Jobs]
      /\ ProcOf \in [Workers -> Procs]
  BY LoopsBelongToProcesses DEF QInv, TypeOK
<1>2. FreshOK'
  BY DEF WakeInv, FreshOK, Announce, Pending
<1>3. DueOK' /\ AppsOnly' /\ HeldForUser'
  BY <1>1 DEF WakeInv, DueOK, AppsOnly, HeldForUser, Announce
<1>4. ASSUME faults' = 0 PROVE NothingBroke' /\ NewWorkIsSeen'
  <2>1. NothingBroke
    BY <1>4 DEF WakeInv, Announce
  <2>2. PICK w \in Workers : ProcOf[w] = p
    BY DEF AppsHaveLoops, WakeInv, AppsOnly, Announce
  <2>3. wake'[p] = TRUE /\ pc'[w] = IF pc[w] = "asleep" THEN "top" ELSE pc[w]
    BY <1>1, <2>2 DEF Announce
  <2>4. Alert(w)'
    BY <1>1, <2>1, <2>2, <2>3 DEF Alert, NothingBroke, Places, Busy
  <2>5. NothingBroke'
    BY <1>1, <2>1 DEF NothingBroke, Announce
  <2> QED BY <2>4, <2>5 DEF NewWorkIsSeen
<1> QED BY <1>2, <1>3, <1>4 DEF WakeInv

-----------------------------------------------------------------------------
(* A lookup finds a new job that heads its trader's queue, or an older one. *)

\* A set of numbers that is not empty has a least one.
LEMMA LeastNumber ==
  ASSUME NEW S \in SUBSET Nat, S # {}
  PROVE  \E m \in S : \A k \in S : ~(k < m)
<1>1. \E x \in S : \A y \in S : ~(<<y, x>> \in OpToRel(<, Nat))
  BY NatLessThanWellFounded, WFMin
<1> QED BY <1>1 DEF OpToRel

\* Each trader has one head, so the window of due_users holds them all.
LEMMA WindowHoldsHeads ==
  ASSUME QInv, HeadsFitWindow
  PROVE  FirstOf(3 * Limit, Heads) = Heads
<1>1. Heads \subseteq Jobs /\ Jobs \subseteq Nat
  BY NoJobIsNoId DEF Heads, Pending
<1>2. \A j \in Heads : jobs[j].user \in Users
  BY DEF Heads, Pending, QInv, RowOK
<1>3. \A j, k \in Heads : jobs[j].user = jobs[k].user => j = k
  <2> SUFFICES ASSUME NEW j \in Heads, NEW k \in Heads, jobs[j].user = jobs[k].user PROVE j = k
    OBVIOUS
  <2>1. j \in Nat /\ k \in Nat /\ j <= k /\ k <= j
    BY <1>1 DEF Heads
  <2> QED BY <2>1
<1> DEFINE f == [j \in Heads |-> jobs[j].user]
<1>4. f \in Injection(Heads, Users)
  BY <1>2, <1>3 DEF Injection, IsInjective
<1>5. IsFiniteSet(Heads) /\ Cardinality(Heads) <= Cardinality(Users)
  BY <1>4, FS_Injection DEF HeadsFitWindow
<1>6. ASSUME NEW j \in Heads PROVE Cardinality({k \in Heads : k < j}) < 3 * Limit
  <2> DEFINE B == {k \in Heads : k < j}
  <2>1. B \in SUBSET Heads /\ j \notin B
    BY <1>1
  <2>2. IsFiniteSet(B) /\ Cardinality(B) <= Cardinality(Heads) /\ Cardinality(B) # Cardinality(Heads)
    BY <1>5, <2>1, FS_Subset
  <2>3. Cardinality(B) \in Nat /\ Cardinality(Heads) \in Nat /\ Cardinality(Users) \in Nat
    BY <1>5, <2>2, FS_CardinalityType DEF HeadsFitWindow
  <2> HIDE DEF B
  <2>4. Cardinality(B) < 3 * Limit
    BY <1>5, <2>2, <2>3, BoundsAreNatural DEF HeadsFitWindow
  <2> QED BY <2>4 DEF B
<1> QED BY <1>6 DEF FirstOf

\* A due head is enough for the lookup to find something.
LEMMA DueHeadIsFound ==
  ASSUME QInv, HeadsFitWindow, NEW j \in Heads, jobs[j].due
  PROVE  DueHeads # {}
<1> PICK D : D = {k \in Heads : jobs[k].due}
  OBVIOUS
<1>1. DueHeads = FirstOf(Limit, D)
  BY WindowHoldsHeads DEF DueHeads
<1>2. D \in SUBSET Nat /\ D # {}
  BY NoJobIsNoId DEF Heads, Pending
<1>3. PICK m \in D : \A k \in D : ~(k < m)
  BY <1>2, LeastNumber
<1>4. {k \in D : k < m} = {}
  BY <1>3
<1>5. Cardinality({k \in D : k < m}) < Limit
  <2>1. Cardinality({k \in D : k < m}) = 0
    BY <1>4, FS_EmptySet
  <2> QED BY <2>1, BoundsAreNatural
<1> QED BY <1>1, <1>3, <1>5 DEF FirstOf

-----------------------------------------------------------------------------
(* The steps of a loop. *)

\* Steps of loop w that leave the queue alone: it stays alert, or was not.
LEMMA LoopMoveWakes ==
  ASSUME QInv, WakeInv, NEW w \in Workers,
         UNCHANGED <<jobs, open, announce, up, fresh, faults>>, HeldForUser',
         \A v \in Workers : job'[v] \in {job[v], NoJob},
         \A v \in Workers \ {w} : pc'[v] = pc[v] /\ found'[v] = found[v],
         \/ UNCHANGED wake
         \/ Alert(w)',
         faults = 0 => pc'[w] \notin {"off", "broken"},
         faults = 0 => \/ Alert(w)'
                       \/ ~Alert(w)
                       \/ \E v \in Workers \ {w} : pc[v] \in Busy
                       \/ Heads \cap fresh = {}
  PROVE  WakeInv'
<1>1. FreshOK'
  <2>1. FreshOK /\ NoJob \notin fresh
    BY NoJobIsNoId DEF WakeInv, QInv, TypeOK
  <2> QED BY <2>1, FreshStays
<1>2. DueOK' /\ AppsOnly'
  BY DEF WakeInv, DueOK, AppsOnly
<1>3. ASSUME faults' = 0 PROVE NothingBroke' /\ NewWorkIsSeen'
  <2>1. NothingBroke /\ NewWorkIsSeen
    BY <1>3 DEF WakeInv
  <2>2. NothingBroke'
    BY <1>3, <2>1 DEF NothingBroke
  <2>3. Heads' = Heads
    BY DEF Heads, Pending
  <2>4. ASSUME Heads \cap fresh # {} PROVE \E v \in Workers : Alert(v)'
    <3>1. CASE Alert(w)'
      BY <3>1
    <3>2. CASE \E v \in Workers \ {w} : pc[v] \in Busy
      BY <3>2 DEF Alert
    <3>3. CASE ~Alert(w) /\ UNCHANGED wake
      <4>1. PICK v \in Workers : Alert(v)
        BY <2>1, <2>4 DEF NewWorkIsSeen
      <4>2. v # w
        BY <3>3, <4>1
      <4>3. Alert(v)'
        BY <3>3, <4>1, <4>2 DEF Alert
      <4> QED BY <4>3
    <3> QED BY <1>3, <2>4, <3>1, <3>2, <3>3
  <2>5. NewWorkIsSeen'
    BY <2>3, <2>4 DEF NewWorkIsSeen
  <2> QED BY <2>2, <2>5
<1> QED BY <1>1, <1>2, <1>3 DEF WakeInv

\* Looking for work, and going to sleep or waking up.
LEMMA LookingWakes ==
  ASSUME QInv, WakeInv, HeadsFitWindow, NEW w \in Workers,
         Clear(w) \/ Look(w) \/ Sleep(w) \/ Poll(w) \/ Reconnect(w)
  PROVE  WakeInv'
<1>1. /\ pc \in [Workers -> Places] /\ found \in [Workers -> SUBSET Jobs] /\ ProcOf[w] \in Procs
      /\ wake \in [Procs -> BOOLEAN]
  BY LoopsBelongToProcesses DEF QInv, TypeOK
<1>2. /\ UNCHANGED <<jobs, open, announce, up, locks, user, job, fresh, faults>>
      /\ \A v \in Workers \ {w} : pc'[v] = pc[v] /\ found'[v] = found[v]
  BY <1>1 DEF Clear, Look, Sleep, Poll, Reconnect, Goto, process
<1>3. HeldForUser'
  BY <1>2 DEF WakeInv, HeldForUser
<1>4. faults = 0 => NothingBroke
  BY DEF WakeInv
<1>5. CASE Clear(w)
  <2>1. faults = 0 => pc'[w] = "look"
    BY <1>1, <1>4, <1>5 DEF Clear, Goto, NothingBroke, Stopping
  <2>2. pc'[w] = "look" \/ UNCHANGED wake
    BY <1>1, <1>5 DEF Clear, Goto
  <2> QED BY <1>2, <1>3, <2>1, <2>2, LoopMoveWakes DEF Alert
<1>6. CASE Look(w)
  <2>1. pc'[w] = "scan" /\ found'[w] = DueHeads /\ UNCHANGED wake
    BY <1>1, <1>6 DEF Look, Goto, process
  <2>2. Heads \cap fresh # {} => DueHeads # {}
    <3>1. \A j \in Heads \cap fresh : jobs[j].due
      BY DEF WakeInv, FreshOK, DueOK, QInv, TypeOK
    <3> QED BY <3>1, DueHeadIsFound
  <2>3. Heads \cap fresh # {} => Alert(w)'
    BY <2>1, <2>2 DEF Alert
  <2> QED BY <1>2, <1>3, <2>1, <2>3, LoopMoveWakes
<1>7. CASE Sleep(w)
  <2>1. /\ pc[w] = "scan" /\ found[w] = {} /\ UNCHANGED wake
        /\ pc'[w] = IF wake[ProcOf[w]] THEN "top" ELSE "asleep"
    BY <1>1, <1>7 DEF Sleep, Goto, process
  <2>2. Alert(w)' \/ ~Alert(w)
    BY <2>1 DEF Alert, Busy
  <2> QED BY <1>2, <1>3, <2>1, <2>2, LoopMoveWakes
<1>8. CASE Poll(w)
  <2>1. pc'[w] = "top" /\ UNCHANGED wake
    BY <1>1, <1>8 DEF Poll, Goto, process
  <2> QED BY <1>2, <1>3, <2>1, LoopMoveWakes DEF Alert
<1>9. CASE Reconnect(w)
  <2>1. faults # 0 /\ UNCHANGED wake
    BY <1>4, <1>9 DEF Reconnect, NothingBroke, process
  <2> QED BY <1>2, <1>3, <2>1, LoopMoveWakes
<1> QED BY <1>5, <1>6, <1>7, <1>8, <1>9

\* A loop that is refused a lock leaves the trader to a loop that will look again.
LEMMA TryLockWakes ==
  ASSUME QInv, WakeInv, NEW w \in Workers, TryLock(w)
  PROVE  WakeInv'
<1>1. /\ pc \in [Workers -> Places] /\ found \in [Workers -> SUBSET Jobs] /\ locks \in [Users -> Workers \cup {NoWorker}]
      /\ user \in [Workers -> Users \cup {NoUser}] /\ LoopOK(w) /\ pc[w] = "scan"
  BY DEF QInv, TypeOK, TryLock
<1>2. PICK j \in FirstOf(1, found[w]) :
        IF locks[jobs[j].user] = NoWorker
        THEN /\ locks' = [locks EXCEPT ![jobs[j].user] = w]
             /\ user' = [user EXCEPT ![w] = jobs[j].user]
             /\ found' = [found EXCEPT ![w] = {}]
             /\ Goto(w, "next")
        ELSE /\ found' = [found EXCEPT ![w] = @ \ {j}]
             /\ UNCHANGED <<locks, user, pc>>
  BY DEF TryLock
<1>3. j \in found[w] /\ jobs[j].user \in Users
  BY <1>1, <1>2 DEF FirstOf, QInv, LoopOK, RowOK
<1> PICK u \in Users : u = jobs[j].user
  BY <1>3
<1>4. UNCHANGED <<jobs, process, job, tries, fresh, faults, requeues>>
  BY DEF TryLock
<1>5. CASE locks[u] = NoWorker
  <2>1. /\ locks' = [locks EXCEPT ![u] = w] /\ user' = [user EXCEPT ![w] = u]
        /\ found' = [found EXCEPT ![w] = {}] /\ pc' = [pc EXCEPT ![w] = "next"]
    BY <1>2, <1>5 DEF Goto
  <2>2. user[w] = NoUser
    BY <1>1 DEF LoopOK, Busy
  <2>3. HeldForUser'
    <3> SUFFICES ASSUME NEW t \in Users, locks'[t] # NoWorker PROVE user'[locks'[t]] = t
      BY DEF HeldForUser
    <3>1. CASE t = u
      BY <1>1, <2>1, <3>1
    <3>2. CASE t # u
      <4>1. locks'[t] = locks[t] /\ locks[t] \in Workers /\ user[locks[t]] = t
        BY <1>1, <2>1, <3>2 DEF WakeInv, HeldForUser
      <4>2. locks[t] # w
        BY <2>2, <4>1, NobodyIsNobody
      <4> QED BY <1>1, <2>1, <4>1, <4>2
    <3> QED BY <3>1, <3>2
  <2>4. pc'[w] = "next" /\ \A v \in Workers \ {w} : pc'[v] = pc[v] /\ found'[v] = found[v]
    BY <1>1, <2>1
  <2> QED BY <1>4, <2>3, <2>4, LoopMoveWakes DEF Alert, Busy, process
<1>6. CASE locks[u] # NoWorker
  <2>1. found' = [found EXCEPT ![w] = @ \ {j}] /\ UNCHANGED <<locks, user, pc>>
    BY <1>2, <1>6
  <2>2. PICK v \in Workers : v = locks[u]
    BY <1>1, <1>6
  <2>3. user[v] = u /\ u # NoUser
    BY <1>6, <2>2, NobodyIsNobody DEF WakeInv, HeldForUser
  <2>4. pc[v] \in Busy /\ v # w
    BY <1>1, <2>3 DEF QInv, LoopOK, Busy
  <2>5. /\ HeldForUser' /\ pc'[w] = "scan"
        /\ \A x \in Workers \ {w} : pc'[x] = pc[x] /\ found'[x] = found[x]
    BY <1>1, <2>1 DEF WakeInv, HeldForUser
  <2> QED BY <1>4, <2>4, <2>5, LoopMoveWakes DEF process
<1> QED BY <1>5, <1>6

\* A loop that runs a trader's jobs looks at the queue again afterwards, so it is alert; all
\* such a step has to keep is what the invariant says of rows and of locks.
LEMMA BusyMoveWakes ==
  ASSUME QInv, WakeInv, NEW w \in Workers, pc'[w] \in {"top"} \cup Busy,
         UNCHANGED <<open, announce, up, faults>>, FreshOK', DueOK', HeldForUser',
         \A v \in Workers \ {w} : pc'[v] = pc[v]
  PROVE  WakeInv'
<1>1. AppsOnly'
  BY DEF WakeInv, AppsOnly
<1>2. Alert(w)'
  BY DEF Alert
<1>3. ASSUME faults' = 0 PROVE NothingBroke' /\ NewWorkIsSeen'
  BY <1>2, <1>3 DEF WakeInv, NothingBroke, NewWorkIsSeen, Busy
<1> QED BY <1>1, <1>3 DEF WakeInv

\* The job a loop takes up is new no more; at the end it lets the trader go.
LEMMA NextJobWakes ==
  ASSUME QInv, WakeInv, NEW w \in Workers, NextJob(w) \/ Handled(w)
  PROVE  WakeInv'
<1>1. /\ pc \in [Workers -> Places] /\ job \in [Workers -> Jobs \cup {NoJob}]
      /\ UNCHANGED <<jobs, open, announce, up, faults, locks, user>>
  BY DEF QInv, TypeOK, NextJob, Handled, process
<1>2. DueOK' /\ HeldForUser' /\ FreshOK
  BY <1>1 DEF WakeInv, DueOK, HeldForUser
<1>3. pc'[w] \in Busy /\ \A v \in Workers \ {w} : pc'[v] = pc[v]
  BY <1>1 DEF NextJob, Handled, Goto, Busy
<1>4. \/ UNCHANGED <<job, fresh>>
      \/ \E j \in Jobs : job' = [job EXCEPT ![w] = j] /\ fresh' = fresh \ {j}
  BY DEF NextJob, Handled, Heads, Pending
<1>5. FreshOK'
  BY <1>1, <1>2, <1>4, FreshStays
<1> QED BY <1>1, <1>2, <1>3, <1>5, BusyMoveWakes

\* A job whose handler returned or raised was not new, and is not again.
LEMMA JobEndsWakes ==
  ASSUME QInv, WakeInv, NEW w \in Workers, Finish(w) \/ \E permanent \in BOOLEAN : Fail(w, permanent)
  PROVE  WakeInv'
<1>1. /\ pc \in [Workers -> Places] /\ job \in [Workers -> Jobs \cup {NoJob}] /\ jobs \in [Jobs -> Job]
      /\ UNCHANGED <<open, announce, up, faults, fresh, locks, user>>
      /\ job' = [job EXCEPT ![w] = NoJob] /\ NoJob \notin fresh /\ fresh \subseteq Jobs
  BY NoJobIsNoId DEF QInv, TypeOK, Finish, Fail, process
<1>2. /\ job[w] # NoJob /\ job[w] \in Jobs /\ jobs[job[w]] \in Job /\ jobs[job[w]].status = "pending"
      /\ tries[w] \in Nat /\ job[w] \notin fresh
  BY <1>1 DEF QInv, TypeOK, LoopOK, InHand, Finish, Fail, WakeInv, FreshOK
<1>3. pc'[w] \in Busy /\ \A v \in Workers \ {w} : pc'[v] = pc[v]
  BY <1>1 DEF Finish, Fail, Goto, Busy
<1> PICK old \in Job : old = jobs[job[w]]
  BY <1>2
<1>4. PICK row \in Job : /\ jobs' = [jobs EXCEPT ![job[w]] = row]
                         /\ row.status \in {"staged", "pending"} => row.attempts # 0
  <2>1. CASE Finish(w)
    <3>1. jobs' = [jobs EXCEPT ![job[w]] = Left(old, "done")]
      BY <2>1 DEF Finish
    <3> QED BY <1>2, <3>1, RowDone
  <2>2. ASSUME NEW permanent \in BOOLEAN, Fail(w, permanent)
        PROVE  \E row \in Job : /\ jobs' = [jobs EXCEPT ![job[w]] = row]
                                /\ row.status \in {"staged", "pending"} => row.attempts # 0
    <3> PICK n \in Nat : n = tries[w] + 1 /\ n # 0
      BY <1>2
    <3>1. jobs' = [jobs EXCEPT ![job[w]] = AfterFailure(old, n, permanent)]
      BY <1>2, <2>2 DEF Fail
    <3>2. old.status = "pending"
      BY <1>2
    <3>3. AfterFailure(old, n, permanent) \in Job /\ AfterFailure(old, n, permanent).attempts = n
      BY <3>2, RowFailed
    <3> QED BY <3>1, <3>3
  <2> QED BY <2>1, <2>2
<1>5. jobs'[job[w]] = row /\ \A j \in Jobs : j # job[w] => jobs'[j] = jobs[j]
  BY <1>1, <1>2, <1>4
<1>6. DueOK'
  BY <1>4, <1>5 DEF WakeInv, DueOK
<1>7. FreshOK'
  <2>1. \A j \in fresh' : jobs'[j].status = jobs[j].status /\ jobs'[j].attempts = jobs[j].attempts
    BY <1>1, <1>2, <1>5
  <2>2. \A v \in Workers : job'[v] = job[v] \/ job'[v] \notin fresh'
    BY <1>1
  <2> QED BY <1>1, <2>1, <2>2, FreshStays DEF WakeInv
<1>8. HeldForUser'
  BY <1>1 DEF WakeInv, HeldForUser
<1> QED BY <1>1, <1>3, <1>6, <1>7, <1>8, BusyMoveWakes

\* Loops that drop what they do take no new job, and give back the locks of their traders.
LEMMA DropHolds ==
  ASSUME QInv, WakeInv, NEW W \in SUBSET Workers, NEW place, Drop(W, place)
  PROVE  /\ HeldForUser'
         /\ \A w \in Workers : job'[w] \in {job[w], NoJob}
<1>1. \A w \in Workers : job'[w] \in {job[w], NoJob} /\ (w \notin W => user'[w] = user[w])
  BY DEF Drop
<1>2. \A u \in Users : locks'[u] # NoWorker => locks'[u] = locks[u] /\ locks[u] \notin W /\ locks[u] \in Workers
  BY DEF Drop, Released, QInv, TypeOK
<1> QED BY <1>1, <1>2 DEF WakeInv, HeldForUser

\* A loop that unlocks goes back to the top: its lock was its own.
LEMMA UnlockWakes ==
  ASSUME QInv, WakeInv, NEW w \in Workers, Unlock(w)
  PROVE  WakeInv'
<1>1. /\ locks[user[w]] = w /\ pc \in [Workers -> Places] /\ NoJob \notin fresh
  BY NoJobIsNoId DEF QInv, TypeOK, LoopOK, Unlock, Busy
<1>2. Drop({w}, "top") /\ UNCHANGED <<jobs, process, fresh, faults, requeues>>
  BY <1>1 DEF Unlock
<1>3. HeldForUser' /\ \A v \in Workers : job'[v] \in {job[v], NoJob}
  BY <1>2, DropHolds
<1>4. FreshOK' /\ DueOK'
  BY <1>1, <1>2, <1>3, FreshStays DEF WakeInv, DueOK
<1>5. pc'[w] = "top" /\ \A v \in Workers \ {w} : pc'[v] = pc[v]
  BY <1>1, <1>2 DEF Drop
<1> QED BY <1>2, <1>3, <1>4, <1>5, BusyMoveWakes DEF process

\* Once something broke there is less to keep.
LEMMA BrokenWakes ==
  ASSUME QInv, WakeInv,
         \/ \E w \in Workers : DatabaseError(w) \/ Cancel(w)
         \/ \E p \in Procs : Crash(p) \/ Stop(p) \/ Restart(p)
  PROVE  WakeInv'
<1>1. /\ NoJob \notin fresh /\ open \in [Procs -> SUBSET Jobs] /\ announce \in [Procs -> SUBSET Jobs]
      /\ jobs \in [Jobs -> Job] /\ up \in [Procs -> {"up", "stopping", "down"}] /\ faults \in Nat
      /\ (\A w \in Workers : ProcOf[w] \in Procs) /\ fresh' = fresh /\ fresh \subseteq Jobs
  BY NoJobIsNoId, LoopsBelongToProcesses
     DEF QInv, TypeOK, DatabaseError, Cancel, Crash, Stop, Restart
<1>2. faults' # 0
  <2>1. (\E w \in Workers : DatabaseError(w)) \/ (\E p \in Procs : Crash(p) \/ Stop(p))
        => faults' # 0
    <3>1. Fault => faults' # 0
      BY <1>1 DEF Fault
    <3> QED BY <3>1 DEF DatabaseError, Crash, Stop
  <2>2. (\E w \in Workers : Cancel(w)) \/ (\E p \in Procs : Restart(p)) => faults' # 0
    BY <1>1 DEF Cancel, Restart, WakeInv, NothingBroke
  <2> QED BY <2>1, <2>2
<1>3. HeldForUser' /\ \A v \in Workers : job'[v] \in {job[v], NoJob}
  <2>1. ASSUME NEW w \in Workers, DatabaseError(w) \/ Cancel(w)
        PROVE  HeldForUser' /\ \A v \in Workers : job'[v] \in {job[v], NoJob}
    <3>1. {w} \in SUBSET Workers /\ \E place : Drop({w}, place)
      BY <2>1 DEF DatabaseError, Cancel
    <3> QED BY <3>1, DropHolds
  <2>2. ASSUME NEW p \in Procs, Crash(p)
        PROVE  HeldForUser' /\ \A v \in Workers : job'[v] \in {job[v], NoJob}
    <3>1. LoopsOf(p) \in SUBSET Workers /\ Drop(LoopsOf(p), "off")
      BY <2>2 DEF Crash, LoopsOf
    <3> QED BY <3>1, DropHolds
  <2>3. CASE \E p \in Procs : Stop(p) \/ Restart(p)
    BY <2>3 DEF Stop, Restart, WakeInv, HeldForUser
  <2> QED BY <2>1, <2>2, <2>3
<1>4. CASE ~\E p \in Procs : Crash(p)
  <2>1. UNCHANGED <<jobs, open, announce>>
    BY <1>4 DEF DatabaseError, Cancel, Stop, Restart, process
  <2>2. FreshOK' /\ DueOK' /\ AppsOnly'
    BY <1>1, <1>3, <2>1, FreshStays DEF WakeInv, DueOK, AppsOnly
  <2> QED BY <1>2, <1>3, <2>2 DEF WakeInv
<1>5. ASSUME NEW p \in Procs, Crash(p) PROVE WakeInv'
  <2>1. jobs' = [j \in Jobs |-> IF j \in open[p] THEN [jobs[j] EXCEPT !.status = "gone"] ELSE jobs[j]]
        /\ open' = [open EXCEPT ![p] = {}] /\ announce' = [announce EXCEPT ![p] = {}]
    BY <1>5 DEF Crash
  <2>2. \A j \in open[p] : jobs[j] \in Job /\ jobs[j].status = "staged"
    BY <1>1 DEF QInv, OpenOK
  <2>3. /\ \A j \in Jobs \ open[p] : jobs'[j] = jobs[j]
        /\ \A j \in open[p] : jobs'[j].status = "gone"
    BY <1>1, <2>1, <2>2 DEF Job
  <2>4. \A j \in fresh : j \notin open[p]
    BY <2>2 DEF WakeInv, FreshOK
  <2>5. FreshOK'
    BY <1>1, <1>3, <2>3, <2>4, FreshStays DEF WakeInv
  <2>6. DueOK' /\ AppsOnly'
    BY <1>1, <2>1, <2>3 DEF WakeInv, DueOK, AppsOnly
  <2> QED BY <1>2, <1>3, <2>5, <2>6 DEF WakeInv
<1> QED BY <1>4, <1>5

\* Every step, and every stutter, keeps it.
LEMMA StepWakes ==
  ASSUME QInv, WakeInv, AppsHaveLoops, HeadsFitWindow, [Next]_vars
  PROVE  WakeInv'
<1>1. CASE UNCHANGED vars
  <2>1. UNCHANGED <<wake, up, locks, loop, fresh, faults, jobs, open, announce>>
    BY <1>1 DEF vars, process
  <2>2. RowsOnly
    BY <2>1 DEF RowsOnly, Pending, WakeInv, DueOK, AppsOnly
  <2> QED BY <2>2, RowsOnlyWakes
<1>2. ASSUME NEW p \in Procs, Announce(p) PROVE WakeInv'
  BY <1>2, AnnounceWakes
<1>3. ASSUME NEW p \in Procs, (\E u \in Users : Stage(p, u)) \/ (\E j \in Jobs : Commit(p, j) \/ Abort(p, j))
      PROVE  WakeInv'
  BY <1>3, TransactionsWake
<1>4. ASSUME (\E j \in Jobs : Elapse(j)) \/ (\E S \in SUBSET Jobs : RetryFailed(S)) PROVE WakeInv'
  BY <1>4, RetriesWake
<1>5. ASSUME NEW w \in Workers, Step(w) PROVE WakeInv'
  BY <1>5, LookingWakes, TryLockWakes, NextJobWakes, JobEndsWakes, UnlockWakes DEF Step, Handle
<1>6. ASSUME NEW w \in Workers, DatabaseError(w) \/ Cancel(w) PROVE WakeInv'
  BY <1>6, BrokenWakes
<1>7. ASSUME NEW p \in Procs, Crash(p) \/ Stop(p) \/ Restart(p) PROVE WakeInv'
  BY <1>7, BrokenWakes
<1> QED BY <1>1, <1>2, <1>3, <1>4, <1>5, <1>6, <1>7 DEF Next

\* Until something breaks, the loops never all sleep over a new job that heads its trader's
\* queue: not when it is committed while they look, nor when it is refused because a loop is
\* about to let its trader go.  It takes a loop in each process that serves traders, and
\* no more traders than due_users looks at; beyond that the run job_window shows it fail.
THEOREM NobodySleepsOverWork ==
  ASSUME AppsHaveLoops, HeadsFitWindow
  PROVE  Spec => []NoSleepOverWork
<1>1. Init => WakeInv
  BY InitWakes
<1>2. QInv /\ WakeInv /\ [Next]_vars => WakeInv'
  BY StepWakes
<1>3. QInv /\ WakeInv => NoSleepOverWork
  BY DEF WakeInv, NewWorkIsSeen, Alert, Busy, NoSleepOverWork
<1> QED BY <1>1, <1>2, <1>3, InvariantHolds, PTL DEF Spec
=============================================================================
