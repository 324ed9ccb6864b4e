SPECIFICATION Spec
CONSTANTS
  Calls <- RootCalls
  Num <- NumMC
  Rank <- RankMC
  MaxSlotsLeft <- LeftZero
  Failures = FALSE
  Raw = Raw
CHECK_DEADLOCK FALSE
INVARIANT OnlyOpeners
