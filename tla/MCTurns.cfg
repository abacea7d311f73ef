\* A trader's three messages, two processes with two connections each, three deliveries, two
\* twists: the pool is exhausted by requests that wait for the lock.
CONSTANTS
  ada = ada
  Users <- MCUsers
  Messages <- MCMessages
  Sender <- MCSender
  Channel <- MCChannel
  Procs = {p1, p2}
  PoolSize = 2
  FailMax = 2
  MaxHandoffs = 1
  MaxRequests = 3
  MaxTwists = 2
SPECIFICATION FairSpec
INVARIANTS
  TypeOK
  HistoryIsSerial
  RedeliveryRecordsOnce
  NothingLeaks
  OpensOnOutage
PROPERTIES
  RequestsEnd
CHECK_DEADLOCK FALSE
