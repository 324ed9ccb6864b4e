SPECIFICATION FairSpec
CONSTANTS
  Calls <- ConfCalls
  Num <- NumMC
  Rank <- RankMC
  MaxSlotsLeft <- LeftZero
  Failures = TRUE
  Raw = Raw
CHECK_DEADLOCK FALSE
INVARIANTS
  TypeOK
  Faithful
  ArgAligned
  Justified
  Sound
  Defined
PROPERTIES
  Terminates
