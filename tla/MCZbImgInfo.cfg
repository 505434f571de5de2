\* Pieces of 4 cells, write blocks of 4: images begin at every offset in a block.
\* The largest TLV area of the images just fits the buffer for it.
SPECIFICATION FairSpec
CONSTANTS
  HashBuffer = 4
  TlvMax = 20
  WriteBlock = 4
  SectorSize = 8
  SlotStart <- MCSlotStart
  SlotSize <- MCSlotSize
  RootKeys <- MCRootKeys
  Images <- MCImages
  Prms <- MCPrms
  NoPrm = NoPrm
INVARIANTS
  TypeOK
  OnlyWhole
  RefusesOlder
  InfoOfImage
  CrcCoversImage
  
PROPERTIES
  InfoEnds
CHECK_DEADLOCK FALSE
