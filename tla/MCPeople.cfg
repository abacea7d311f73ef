\* Two turns; two tool calls, buttons, rebuilds or mishaps between them.
CONSTANTS
  mama_chidi = mama_chidi
  mama_c = mama_c
  emeka = emeka
  usual = usual
  Names <- MCNames
  NoName = nobody
  Known <- MCKnown
  Aliases <- MCAliases
  Resembles <- MCResembles
  Within <- MCWithin
  Words <- MCWords
  Messages <- MCMessages
  Kinds <- MCKinds
  Contents <- MCContents
  MaxTurns = 2
  MaxActs = 2
SPECIFICATION Spec
INVARIANTS
  TypeOK
  MemoryIsOrderly
PROPERTIES
  TraderDecides
\* A trader with no turns left has nothing more to say.
CHECK_DEADLOCK FALSE
