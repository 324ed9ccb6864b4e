SPECIFICATION FairSpec
CONSTANTS
  a = a
  b = b
  Pools <- PoolsMC
  Unset = Unset
  Names <- NamesMC
  Any = Any
  Failures = TRUE
  Steady = {3}
CHECK_DEADLOCK FALSE
INVARIANTS
  TypeOK
  ForksAfterServer
  HeldOnPath
PROPERTIES
  SteadyListened
  ComesToRest
