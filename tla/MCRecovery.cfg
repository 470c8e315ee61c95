\* Two faults, each a damaged write or a kill.  A start-up may be aborted for good.
CONSTANTS
  Base = 10
  MaxValue = 999999999
  Decimal = Decimal
  OutOfRange = OutOfRange
  Nothing = Nothing
  Leading <- SomeLeading
  Differences <- TwinsToo
  Required <- TwoRanges
  Stops <- SomeStops
  Truth <- TrueCounts
  CpuTime <- SomeTime
  MaxFaults = 2
CHECK_DEADLOCK FALSE
SPECIFICATION Spec
INVARIANTS
  TypeOK
  OnlyLastCountDamaged
  ReadsWhatItWrote
  ThrowsOnlyGlued
  OneLinePerRange
PROPERTIES
  KnownUnlessDamaged
