SPECIFICATION ObjectSpec

CONSTANTS
  Regs <- TwoRegs
  Others <- OneOther
  Pc = "pc"
  Funcs <- SmallFuncs
  MaxBlocks = 4
  Types <- AllTypes
  Site = 268439456
  Syms <- NearLimits
  Opcodes <- SomeBits
  StubAddr = 268500000
  PltCount = 26

INVARIANTS
  HandsOver
  LoadsAgree
  HelpersSeeState
  RelocReaches
  RelocKeepsOpcode
  RefusesOnlyUnreachable

\* A function ends.
CHECK_DEADLOCK FALSE
