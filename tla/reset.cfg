CONSTANTS
  WordSize <- MCWordSize
  NumRegs <- MCNumRegs
  Decode <- MCDecode
  Alu <- MCAlu
  LoadExt <- MCLoadExt
  StoreMerge <- MCStoreMerge
  StartAddr = 0
  Mtvec0 <- MCMtvec0
  Bubble <- MCBubble
  InitRegs <- ZeroRegs
  Images <- AllImages
  Budget = 2
  Interrupted <- ResetImages

SPECIFICATION ResetFairSpec

INVARIANT TypeOK
INVARIANT MemBypassReady
INVARIANT JumpBubble
INVARIANT ResetDrains
PROPERTY OnlyStartActs
PROPERTY Progress
