\* One power failure, anywhere: also while sectors are exchanged.
SPECIFICATION Spec
CONSTANTS
  a = a
  b = b
  c = c
  d = d
  r = r
  Image <- MCImage
  NoImage = NoImage
  Erased = Erased
  Garbage = Garbage
  Sectors <- MCSectors
  Encrypted <- MCEncrypted
  LoadAt <- MCLoadAt
  SlotSectors <- MCSlotSectors
  Version <- MCVersion
  NoCmd = NoCmd
  NotLoaded = NotLoaded
  NoCrc = NoCrc
  StatEntries = 16
  Cmd3Range = 8
  MaxFails = 1
  FailAnywhere = TRUE
INVARIANT
  NoImageLost
CHECK_DEADLOCK FALSE
