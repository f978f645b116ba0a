SPECIFICATION Spec

CONSTANTS
  Setups <- MCSetups
  MaxRSPOffset = 20

INVARIANTS
  TypeOK
  QueuesWithinWidth
  StackSynced

PROPERTIES
  DeliversInOrder
  EntersDsbAtRoundStart
  RoundsKeepComing
