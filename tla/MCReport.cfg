\* The report is the last thing the program does: it may stop then.
CONSTANTS
  MaxValue = 7
  Differences <- SomeDifferences
  Pools <- SomePools
CHECK_DEADLOCK FALSE
SPECIFICATION CountFairSpec
INVARIANTS
  TypeOK
  Partition
  LevelsRespected
  EndsAfterLastLevel
  NeverThrown
  EqualShares
  LinesExact
  EveryLevelReported
PROPERTIES
  Terminates
