SPECIFICATION Spec
CHECK_DEADLOCK FALSE
CONSTANTS
  ByteBits = 2
  ByteSize = 4
  NReg = 4
  Fields <- MCFields
  Imm8 <- MCImm8
  Imm16 <- MCImm16
  Seeds <- MCSeeds
  Given <- MCGiven
  MaxInsts = 1
INVARIANTS RegsTypeOK
PROPERTIES WideExact PreciseFaults UserRegistersOnly BigEndianMemory
