\* One damaged write: what is left of a line is not ignored.
CONSTANTS
  Base = 10
  MaxValue = 999999999
  Decimal = Decimal
  OutOfRange = OutOfRange
  Nothing = Nothing
  Leading <- SomeLeading
  Differences <- TwinsToo
  Required <- TwoRanges
  Stops <- SomeStops
  Truth <- TrueCounts
  CpuTime <- SomeTime
  MaxFaults = 1
CHECK_DEADLOCK FALSE
SPECIFICATION Spec
INVARIANTS
  IncorrectLinesIgnored
