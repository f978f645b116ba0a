SPECIFICATION MCSpec

CONSTANTS
  Setups <- MCSetups
  GPRs <- MCGPRs
  SIMDs <- MCSIMDs
  Others <- MCOthers
  NoSlots = NoSlots
  Unlimited = Unlimited
  Cores <- MCCores

INVARIANTS
  ProducersExact
  StoresForwarded
  SlotsExact
  BacklogBounded
  TurnsKept

CHECK_DEADLOCK FALSE
