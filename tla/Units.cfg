SPECIFICATION UnitsSpec
CONSTANTS
  Arr = {x, y}
  Val <- ValMC
  Block = {b1, b2, b3}
  Sizes = {1}
  MaxLen = 3
  Null = Null
  Junk = Junk
  BlockSize = 4
  LoSize = 8
  MaxMessage = 18
  Stale = Stale
  MaxKey = 26
  MaxBuckets = 4
  Range31 = 5
  Client = {c1, c2}
  Requests <- RequestsMC
  PageSize = 2
  Daemon = Daemon
  Listener = Listener
  Page = Page
  MaxFd = 4
  LevelArgs <- LevelArgsMC
CHECK_DEADLOCK FALSE
INVARIANTS
  UnitsTypeOK
  OneOwner
  EachInOrder
  NothingLost
  OneShot
  KeyHashed
  JumpConsistent
  Private
  OneAnswer
  OwnMessages
  LogOpenOnce
  LogInv
PROPERTIES
  StackSpec
  Released
  OthersStay
