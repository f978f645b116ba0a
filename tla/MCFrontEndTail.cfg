SPECIFICATION Spec

CONSTANTS
  Setups <- TailSetups
  MaxRSPOffset = 20

INVARIANT
  InProgramOrder
