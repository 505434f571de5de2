\* The image that runs from RAM is encrypted.
SPECIFICATION Spec
CONSTANTS
  a = a
  b = b
  c = c
  r = r
  x = x
  RamEncrypted = TRUE
  Image = {a, r}
  NoImage = NoImage
  LoadAt <- MCLoadAt
  Encrypted <- MCEncrypted
  Genuine <- MCGenuine
  Fitting = {a, r}
  Version <- MCVersion
  NoCmd = NoCmd
  NoPrm = NoPrm
  TornPrm = TornPrm
  NoCrc = NoCrc
  NoTrial = NoTrial
  Idle = Idle
  StatEntries = 5
  EndEntries = 3
  MaxFails = 0
  Careless = {}
INVARIANTS
  BootsWhole
