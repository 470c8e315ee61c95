\* One stop: what the checkpoint file then says.
CONSTANTS
  Horizon = 80
  MaxValue = 63
  Starts <- SomeStarts
  Ends <- SomeEnds
  DifferenceSets <- SomeDifferenceSets
  MaxStops = 1
CHECK_DEADLOCK FALSE
SPECIFICATION Spec
INVARIANTS
  KeptCountsExact
