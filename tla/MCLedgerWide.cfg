\* Two people, every kind of entry: three rows, one deletion or correction.
CONSTANTS
  p = p
  q = q
  nobody = nobody
  Parties <- MCParties
  NoParty = nobody
  Dates <- MCDates
  MaxRows = 3
  MaxBatch = 2
  MaxEdits = 1
  Entries <- WideEntries
  Corrections <- WideCorrections
SPECIFICATION MCSpec
INVARIANTS
  TypeOK
  Balanced
  AllocationsMatch
  CommittedAllocationsLive
  ReadingsAgree
PROPERTIES
  StatedPaymentsKept
  EventNamesEveryChange
  OperationEnds
\* A full book with no edits left has nothing more to do.
CHECK_DEADLOCK FALSE
