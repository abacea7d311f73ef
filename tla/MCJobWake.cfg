\* Two loops of one process, two traders; nothing fails.
CONSTANTS
  w1 = w1
  w2 = w2
  p1 = p1
  p2 = p2
  NoUser = NoUser
  NoWorker = NoWorker
  NoJob = 0
  Limit = 1
  Users = {u1, u2}
  Procs = {p1}
  Apps = {p1}
  Workers = {w1, w2}
  ProcOf <- OneProcess
  MaxJobs = 2
  MaxAttempts = 2
  MaxFaults = 0
  MaxRequeues = 0
SPECIFICATION WakeSpec
INVARIANTS
  CommitWakesLoop
