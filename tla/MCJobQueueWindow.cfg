\* One loop and four traders: a lookup reads the first three of their oldest jobs.
CONSTANTS
  w1 = w1
  w2 = w2
  p1 = p1
  p2 = p2
  NoUser = NoUser
  NoWorker = NoWorker
  NoJob = 0
  Limit = 1
  Users = {u1, u2, u3, u4}
  Procs = {p1}
  Apps = {p1}
  Workers = {w1}
  ProcOf <- OneLoop
  MaxJobs = 4
  MaxAttempts = 2
  MaxFaults = 0
  MaxRequeues = 0
SPECIFICATION Spec
PROPERTIES
  LookFindsDueUser
SYMMETRY TradersAreAlike
CONSTRAINT OneChangeAtATime
