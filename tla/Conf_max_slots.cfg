SPECIFICATION Spec
CONSTANTS
  Calls <- SlotsCalls
  Num <- NumMC
  Rank <- RankMC
  MaxSlotsLeft <- LeftZero
  Failures = FALSE
  Raw = Raw
CHECK_DEADLOCK FALSE
INVARIANT DuplicateGiven
