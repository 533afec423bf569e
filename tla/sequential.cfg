CONSTANTS
  WordSize <- MCWordSize
  NumRegs <- MCNumRegs
  Decode <- MCDecode
  Alu <- MCAlu
  LoadExt <- MCLoadExt
  StoreMerge <- MCStoreMerge
  StartAddr = 0
  Mtvec0 <- MCMtvec0
  Bubble <- MCBubble
  InitRegs <- ZeroRegs
  Images <- SequentialImages

SPECIFICATION SafeSpec

INVARIANT OperandsOK
INVARIANT FetchOK
INVARIANT LiveOK
INVARIANT ChainOK
PROPERTY Sequential
