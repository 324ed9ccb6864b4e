SPECIFICATION FairSpec
CONSTANTS
  Client = {c1, c2}
  TextOnly = {c1}
  Block = 2
  MaxSend = 4
  Failures = TRUE
  Listener = Listener
  Loops <- BothLoops
CHECK_DEADLOCK FALSE
INVARIANTS
  TypeOK
  Aligned
  TextStays
PROPERTIES
  LifeKept
  BlocksRead
