SPECIFICATION Spec
CONSTANTS
  Calls <- ListenCalls
  Num <- NumMC
  Rank <- RankMC
  MaxSlotsLeft <- LeftZero
  Failures = FALSE
  Raw = Raw
CHECK_DEADLOCK FALSE
INVARIANT ListenDistinct
