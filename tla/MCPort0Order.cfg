SPECIFICATION Spec

CONSTANTS
  NumUops = 5
  AllPorts <- MCPorts
  InstrStrs = {"any", "throttled"}
  Programs <- MCPrograms
  IssueWidth = 2
  SchedulerIssueWidth = 2
  RetireWidth = 2
  RBWidth = 5
  RSWidth = 6
  IssueDispatchDelay = 1
  Slow256BitMemAcc = TRUE
  IDQWidth = 3
  DSBWidth = 2
  DeliverWidth = 2
  MaxStalls = 0
  MinIterations = 2
  MinCycles = 3
  SafetyCap = 40

PROPERTIES
  Port0OldestFirst
