\* Two images for slot 0 and two power failures: the second one may hit the
\* recovery from the first; it may also come between area 1 and area 0.
SPECIFICATION AreasSpec
CONSTANTS
  a = a
  b = b
  c = c
  r = r
  x = x
  RamEncrypted = FALSE
  Image = {a, b}
  NoImage = NoImage
  LoadAt <- MCLoadAt
  Encrypted <- MCEncrypted
  Genuine <- MCGenuine
  Fitting = {a, b}
  Version <- MCVersion
  NoCmd = NoCmd
  NoPrm = NoPrm
  TornPrm = TornPrm
  NoCrc = NoCrc
  NoTrial = NoTrial
  Idle = Idle
  StatEntries = 7
  EndEntries = 4
  MaxFails = 2
  Careless = {}
  AreaCnt = 3
  Present <- MCPresent
INVARIANTS
  AreasTypeOK
  BootsWhole
  NeverHalts
  PrmOfSlot0
PROPERTIES
  TrialEnds
  AreasSettled
