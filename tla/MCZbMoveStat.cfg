\* No failure; the swap status area holds three entries for each of the four
\* sectors of a slot and one to start with, as design.md counts them.
SPECIFICATION FairSpec
CONSTANTS
  a = a
  b = b
  c = c
  d = d
  r = r
  Image <- MCImage
  NoImage = NoImage
  Erased = Erased
  Garbage = Garbage
  Sectors <- MCSectors
  Encrypted <- MCEncrypted
  LoadAt <- MCLoadAt
  SlotSectors <- MCSlotSectors
  Version <- MCVersion
  NoCmd = NoCmd
  NotLoaded = NotLoaded
  NoCrc = NoCrc
  StatEntries = 13
  Cmd3Range = 8
  MaxFails = 0
  FailAnywhere = FALSE
PROPERTY
  SwapEnds
CHECK_DEADLOCK FALSE
