CONSTANTS
  Words = 2
  ByteSize = 2
  Datas <- MCDatas
  Contents <- MCContents
  MaxRequests = 2

SPECIFICATION Spec

\* MaxRequests ends the run.
CHECK_DEADLOCK FALSE

PROPERTY ServesBytes
