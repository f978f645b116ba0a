SPECIFICATION Spec

CONSTANTS
  NumUops = 5
  AllPorts <- MCPorts
  InstrStrs = {"any"}
  Programs <- MCPrograms
  IssueWidth = 2
  SchedulerIssueWidth = 2
  RetireWidth = 2
  RBWidth = 3
  RSWidth = 4
  IssueDispatchDelay = 1
  Slow256BitMemAcc = FALSE
  IDQWidth = 3
  DSBWidth = 2
  DeliverWidth = 2
  MaxStalls = 1
  MinIterations = 1
  MinCycles = 3
  SafetyCap = 40

INVARIANTS
  RetireInOrder
  SerializingDrains
  ROBWithinCapacity
  RelevantRoundsComplete

PROPERTIES
  ImplementsCore
