\* Two loops and one trader; a lock connection may be lost.
CONSTANTS
  w1 = w1
  w2 = w2
  p1 = p1
  p2 = p2
  NoUser = NoUser
  NoWorker = NoWorker
  NoJob = 0
  Limit = 1
  Users = {u1}
  Procs = {p1, p2}
  Apps = {p1}
  Workers = {w1, w2}
  ProcOf <- TwoProcesses
  MaxJobs = 1
  MaxAttempts = 2
  MaxFaults = 1
  MaxRequeues = 0
SPECIFICATION LossySpec
INVARIANTS
  OneWorkerPerUser
