\* Every fault, two report level lists sharing a journal.
CONSTANTS
  t1 = t1
  t2 = t2
  Threads <- TwoThreads
  Plans <- TwoPlans
  Limit = 8
  SegmentSize = 2
  CheckpointModes <- BothModes
  Unjournalled <- NoPlan
  Faults <- AllFaults
  MaxFaults = 3
SPECIFICATION Spec
INVARIANTS
  TypeOK
  AllCountsExact
  OneRecordPerRange
  OneThreadPerTask
  NothingRecalculated
  ReportExact
  IInv
PROPERTIES
  WorkOutlivesFile
  CheckpointsAdvance
  ImplementsLedger
  OnlyFaultsStrand
