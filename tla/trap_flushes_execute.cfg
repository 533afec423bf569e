CONSTANTS
  WordSize <- MCWordSize
  NumRegs <- MCNumRegs
  Decode <- MCDecode
  Alu <- MCAlu
  LoadExt <- MCLoadExt
  StoreMerge <- MCStoreMerge
  StartAddr = 0
  Mtvec0 <- MCMtvec0
  Bubble <- MCBubble
  InitRegs <- ZeroRegs
  Images <- ShortImages

SPECIFICATION Spec

PROPERTY TrapFlushesExecute
