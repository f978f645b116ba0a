SPECIFICATION MCSpec

CONSTANTS
  SimulatedBlocks <- AllBlocks
  Patterns <- AnyPattern
  RetireWidth = 3
  MinIterations = {1, 4, 26}
  MinCycles = {0, 30}
  MoreCycles = 100
  MaxFeeds = 5
  MaxRounds = 24

INVARIANTS
  WindowSound
  ReportAgreesWithBottlenecks
  LimitsExact
  RateIsPredecodeLimit
  DependenciesExact

PROPERTY Ends

CHECK_DEADLOCK FALSE
