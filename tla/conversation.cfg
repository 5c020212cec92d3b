SPECIFICATION Spec
CONSTANTS
  u1 = u1
  u2 = u2
  t1 = t1
  t2 = t2
  t3 = t3
  NoUser = NoUser
  Users <- OneUser
  Turns <- ThreeTurns
  MaxHistory = 3
  Window = 2
  EvictFactor = 1
  MaxExits = 1
SYMMETRY Symmetry
INVARIANTS
  TypeOK
  ExchangesWhole
  LimitsExactly
PROPERTY TurnsSpacedOut
