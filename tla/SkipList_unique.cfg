SPECIFICATION FairSpec
CONSTANTS
  Node = {n1, n2, n3}
  Key <- KeysUpTo3
  Val = {p, q}
  MaxHeight = 3
  Requests <- RequestsWild
  TailKeys <- TailZero
  TailNexts <- TailNull
  Repeats = FALSE
  Removals = TRUE
  Head = Head
  Tail = Tail
  Null = Null
  Wild = Wild
  Unset = Unset
INVARIANTS
  Inv
  MemorySafe
  SuccessorExact
PROPERTIES
  StoreSpec
  CallsReturn
