SPECIFICATION Spec

CONSTANTS
  Explored = {"operands"}
  MaxInstrs = 3
  NDecoders = 4
  MovzxHigh8AliasCanBeEliminated = FALSE
  Pop5CRequiresComplexDecoder = TRUE
  Pop5CEndsDecodeGroup = FALSE
  MaxOperands = 3
  MaxUops = 6
  MaxSlots = 5
  MaxWidth = 5
  Unknown = Unknown
  JE = JE
  JZ = JZ
  LEA = LEA
  MEM = MEM
  AGEN = AGEN
  RM = RM
  ADD = ADD
  B_D8 = B_D8
  OPS = OPS
  NoForm = NoForm
  REP = REP
  S1 = S1
  S2 = S2

INVARIANT ResolvesThroughOrder

CHECK_DEADLOCK FALSE
