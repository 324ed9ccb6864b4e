SPECIFICATION Spec
CONSTANTS
  Calls <- OtherCalls
  Num <- NumMC
  Rank <- RankMC
  MaxSlotsLeft <- LeftZero
  Failures = FALSE
  Raw = Raw
CHECK_DEADLOCK FALSE
INVARIANT PoolsNamed
