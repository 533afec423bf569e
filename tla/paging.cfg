CONSTANTS
  MaxTestPages = 3
  FreeLists <- MCFreeLists
  Data = {0, 1}
  Codes = {1, 5}

SPECIFICATION Spec

\* The program ends.
CHECK_DEADLOCK FALSE

INVARIANT TypeOK
INVARIANT TlbHonest
INVARIANT DirtyTracked
INVARIANT FramesConserved
PROPERTY RunsOnFlatMemory
PROPERTY Served
