SPECIFICATION MCSpec

CONSTANTS
  Setups <- SplitSetups
  GPRs <- MCGPRs
  SIMDs <- MCSIMDs
  Others <- MCOthers
  NoSlots = NoSlots
  Unlimited = Unlimited
  Cores <- MCCores

INVARIANT PseudoOperandsPersist

CHECK_DEADLOCK FALSE
