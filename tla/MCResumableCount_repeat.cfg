\* Every fault, with a journal and without: what a repeated command comes to.
CONSTANTS
  t1 = t1
  t2 = t2
  Threads <- TwoThreads
  Plans <- OnePlanEach
  Unjournalled <- OnlyC
  Limit = 8
  SegmentSize = 2
  CheckpointModes <- BothModes
  Faults <- AllFaults
  MaxFaults = 3
SPECIFICATION FairSpec
PROPERTIES
  DoneUnlessStranded
  InterruptStops
