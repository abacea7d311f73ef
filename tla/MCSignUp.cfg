\* One number, two processes, one account of the website.
CONSTANTS
  NoNumber = NoNumber
  Numbers = {n1}
  Procs = {p1, p2}
  Browsers = {b1}
  MaxMessages = 4
  MaxAccounts = 2
  MaxChallenges = 1
  MaxMishaps = 1
SPECIFICATION Spec
INVARIANTS
  TypeOK
  NumberHasOneAccount
  AnswersInOrder
  FirstSaleOnce
  CollectedOnce
CHECK_DEADLOCK FALSE
