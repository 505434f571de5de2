\* Every pair of images, slots of four sectors that the longest image fills,
\* two power failures wherever the loop can resume, room in swpstat.
SPECIFICATION FairSpec
CONSTANTS
  a = a
  b = b
  c = c
  d = d
  r = r
  Image <- MCImage
  NoImage = NoImage
  Erased = Erased
  Garbage = Garbage
  Sectors <- MCSectors
  Encrypted <- MCEncrypted
  LoadAt <- MCLoadAt
  SlotSectors <- MCSlotSectors
  Version <- MCVersion
  NoCmd = NoCmd
  NotLoaded = NotLoaded
  NoCrc = NoCrc
  StatEntries = 16
  Cmd3Range = 8
  MaxFails = 2
  FailAnywhere = FALSE
INVARIANTS
  TypeOK
  SwapInv
  NoImageLost
  ExchangeDone
  PrmDescribesSlots
  LogSuffices
PROPERTIES
  SwapEnds
  AlwaysForward
  SwapIsAtomic
CHECK_DEADLOCK FALSE
