\* The same messages, two deliveries, no twists.
CONSTANTS
  ada = ada
  Users <- MCUsers
  Messages <- MCMessages
  Sender <- MCSender
  Channel <- MCChannel
  Procs = {p1, p2}
  PoolSize = 2
  FailMax = 2
  MaxHandoffs = 1
  MaxRequests = 2
  MaxTwists = 0
SPECIFICATION Spec
INVARIANTS
  ResendRecordsOnce
CHECK_DEADLOCK FALSE
