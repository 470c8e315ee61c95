\* A worker may stop, and is not resumed when its range is finished.
CONSTANTS
  Horizon = 80
  BitsPerWord = 4
  MaxValue = 63
  Parameters <- SomeParameters
  DetectedCaches <- SomeCaches
  DefaultCache = 12
  FixedTiles <- CompiledTiles
  MaxTile = 4
  Starts <- SomeStarts
  Ends <- SomeEnds
  DifferenceSets <- SomeDifferenceSets
CHECK_DEADLOCK FALSE
SPECIFICATION Spec
INVARIANTS
  TypeOK
  CountsExact
  AccessInBounds
  NoWrapAround
  SegmentsHoldPrimes
  ClearsExactly
  DefaultsWork
PROPERTIES
  Progress
