\* One kill: the report may never come.
CONSTANTS
  t1 = t1
  t2 = t2
  Threads <- TwoThreads
  Plans <- OnePlan
  Limit = 8
  SegmentSize = 2
  CheckpointModes <- EverySave
  Unjournalled <- NoPlan
  Faults <- OnlyCrash
  MaxFaults = 1
SPECIFICATION FairSpec
PROPERTIES
  EventuallyReported
