\* One checkpoint that cannot be written.
CONSTANTS
  t1 = t1
  t2 = t2
  Threads <- TwoThreads
  Plans <- OnePlan
  Limit = 8
  SegmentSize = 2
  CheckpointModes <- EverySave
  Unjournalled <- NoPlan
  Faults <- OnlyWorkfile
  MaxFaults = 1
SPECIFICATION Spec
PROPERTIES
  CalculationsSurviveSaveFailure
