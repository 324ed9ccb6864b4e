SPECIFICATION FairSpec
CONSTANTS
  Node = {n1, n2, n3}
  Key <- KeysUpTo3
  Val = {p, q}
  MaxHeight = 2
  Requests <- RequestsWild
  TailKeys <- TailZero
  TailNexts <- TailNull
  Repeats = TRUE
  Removals = FALSE
  Head = Head
  Tail = Tail
  Null = Null
  Wild = Wild
  Unset = Unset
INVARIANTS
  MemorySafe
PROPERTIES
  StoreSpec
  CallsReturn
