\* A level before the start of the count.
CONSTANTS
  MaxValue = 7
  Differences <- SomeDifferences
  Pools <- SomePools
CHECK_DEADLOCK FALSE
SPECIFICATION CountSpec
INVARIANTS
  AllLevelsReported
