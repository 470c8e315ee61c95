\* Two interruptions: what a resumed task did is not saved.
CONSTANTS
  t1 = t1
  t2 = t2
  Threads <- TwoThreads
  Plans <- OnePlan
  Limit = 8
  SegmentSize = 2
  CheckpointModes <- EverySave
  Unjournalled <- NoPlan
  Faults <- OnlySigint
  MaxFaults = 2
SPECIFICATION Spec
INVARIANTS
  ResumedWorkIsCheckpointed
