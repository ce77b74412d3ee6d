SPECIFICATION PcodeSpec
CONSTANTS
  ByteBits = 3
  ShiftMask = 3
  FlagBit <- MCFlagBit
  Bottom = 24
  VmRegs = {"vR0"}
  Regs = {"EAX", "eflags"}
  Imms = {2, 1500}
  Targets = {0, 77}
  Contexts <- MCContexts
  Exits <- MCExits
  Memories <- MCMemories
  Tops = {10}
  MaxSteps = 2
INVARIANTS PcodeTypeOK
PROPERTIES ImplementsMachine
CHECK_DEADLOCK FALSE
