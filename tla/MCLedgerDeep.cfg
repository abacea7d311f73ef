\* One person's account: four rows, two deletions or corrections.
CONSTANTS
  p = p
  q = q
  nobody = nobody
  Parties <- MCParties
  NoParty = nobody
  Dates <- MCDates
  MaxRows = 4
  MaxBatch = 2
  MaxEdits = 2
  Entries <- DeepEntries
  Corrections <- DeepCorrections
SPECIFICATION MCSpec
INVARIANTS
  NoMoneyInvented
PROPERTIES
  NoIdleMoney
  OldestDebtFirst
  UndoRestores
\* A full book with no edits left has nothing more to do.
CHECK_DEADLOCK FALSE
