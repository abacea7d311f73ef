\* Two customers, one number, two alerts.
CONSTANTS
  chidi = chidi
  mama = mama
  okafor = okafor
  cokafor = cokafor
  t1 = t1
  t2 = t2
  n1 = n1
  Contacts <- MCContacts
  NoParty = NoParty
  NoText = NoText
  NoPhone = NoPhone
  Parties = {chidi, mama}
  Texts = {t1, t2}
  Receipts = {}
  Banks = {okafor, cokafor}
  Bank <- MCBank
  Amount <- MCAmount
  NamesMatch <- MCNames
  Amounts = {1, 2}
  Phones = {n1}
  Cooldown = 2
  DailyLimit = 1
  LastDay = 2
  MaxRows = 3
  MaxDrafts = 2
  MaxCalls = 5
  MaxMishaps = 1
SPECIFICATION Spec
INVARIANTS
  TypeOK
  MoneyOnce
PROPERTIES
  AmountIsOwed
  DebtorsAreSpared
CHECK_DEADLOCK FALSE
