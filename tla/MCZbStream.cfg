\* Sectors of 16 bytes, chunks of 8, cipher blocks of 4, flash written in
\* pairs; images that begin in the first or in the second sector, at the
\* start of a chunk or not; a counter of three digits, so that it carries.
SPECIFICATION FairSpec
CONSTANTS
  AesBlock = 4
  MoveBlock = 8
  WriteBlock = 2
  SectorSize = 16
  ByteRange = 2
  CtrBytes = 3
  Starts = {8, 12, 20}
  Sizes <- MCSizes
  Erased = Erased
INVARIANTS
  TypeOK
  NoWrongByte
  NothingMissing
PROPERTIES
  MoveEnds
CHECK_DEADLOCK FALSE
