SPECIFICATION Spec
CONSTANTS
  Node = {n1, n2}
  Key <- KeysUpTo3
  Val = {p}
  MaxHeight = 2
  Requests <- RequestsWild
  TailKeys <- TailZero
  TailNexts <- TailNull
  Repeats = TRUE
  Removals = TRUE
  Head = Head
  Tail = Tail
  Null = Null
  Wild = Wild
  Unset = Unset
INVARIANT MemorySafe
