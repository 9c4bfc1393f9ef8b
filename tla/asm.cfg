SPECIFICATION Build
CHECK_DEADLOCK FALSE
CONSTANTS
  ByteBits = 5
  ByteSize = 32
  MaxArgs = 8
  NReg = 64
  MaxBytes = 48
  Mnemonics <- MCMnemonics
  BaseAddress <- MCBase
  Programs <- MCPrograms
  Options <- MCOptions
  Physical <- MCPhysical
  RegFiles <- MCRegFiles
INVARIANTS
  AsmTypeOK
  ItemsInPlace
  ExpansionMeans
  LabelsName
  LoadedAsBuilt
PROPERTIES
  PassesAgree
