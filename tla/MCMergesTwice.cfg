SPECIFICATION MCSpec

CONSTANTS
  Setups <- MergedSetups
  GPRs <- MCGPRs
  SIMDs <- MCSIMDs
  Others <- MCOthers
  NoSlots = NoSlots
  Unlimited = Unlimited
  Cores <- MCCores

PROPERTY MergesNotReinjected

CHECK_DEADLOCK FALSE
