\* The image begins at an offset that imgtool accepts and that is not a multiple
\* of the cipher block.
SPECIFICATION Spec
CONSTANTS
  AesBlock = 4
  MoveBlock = 8
  WriteBlock = 2
  SectorSize = 16
  ByteRange = 2
  CtrBytes = 3
  Starts = {10}
  Sizes <- MCSizes
  Erased = Erased
INVARIANTS
  NoWrongByte
CHECK_DEADLOCK FALSE
