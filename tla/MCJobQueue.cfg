\* An app and a worker process with a loop each, two traders, two jobs, two attempts,
\* one crash, stop or database error, one retry, under fairness.
CONSTANTS
  w1 = w1
  w2 = w2
  p1 = p1
  p2 = p2
  NoUser = NoUser
  NoWorker = NoWorker
  NoJob = 0
  Limit = 1
  Users = {u1, u2}
  Procs = {p1, p2}
  Apps = {p1}
  Workers = {w1, w2}
  ProcOf <- TwoProcesses
  MaxJobs = 2
  MaxAttempts = 2
  MaxFaults = 1
  MaxRequeues = 1
SPECIFICATION FairSpec
INVARIANTS
  TypeOK
  OneWorkerPerUser
  RetriesAreBounded
  NoSleepOverWork
PROPERTIES
  KeepsPromise
  JobsSettle
