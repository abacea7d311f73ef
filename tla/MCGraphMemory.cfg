\* A debt, two people, two days, three ledger changes; one failure, crash, rebuild, sweep or forgetting.
CONSTANTS
  NoParty = NoParty
  Parties = {p1, p2}
  Debts = {d1}
  LastDay = 2
  MaxPromises = 3
  MaxJobs = 2
  MaxAttempts = 1
  MaxChanges = 3
  MaxMishaps = 1
SPECIFICATION Spec
INVARIANTS
  TypeOK
  GraphFollowsLedger
  PromisesFollowDates
PROPERTIES
  OutcomesAreEarned
SYMMETRY PeopleAreAlike
CHECK_DEADLOCK FALSE
