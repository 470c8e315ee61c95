\* A journalled range is done, and one whose file is at the end is left: both may stop.
CONSTANTS
  Horizon = 80
  MaxValue = 63
  Starts <- SomeStarts
  Ends <- SomeEnds
  DifferenceSets <- SomeDifferenceSets
  MaxStops = 2
CHECK_DEADLOCK FALSE
SPECIFICATION Spec
INVARIANTS
  TypeOK
  HistoryComplete
  SeenPairsCounted
  WholeRunExact
