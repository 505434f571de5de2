\* A careful application, every kind of image, one power failure anywhere, in the
\* exchange of the sectors as well.
SPECIFICATION FairSpec
CONSTANTS
  a = a
  b = b
  c = c
  r = r
  x = x
  RamEncrypted = FALSE
  Image = {a, b, c, r, x}
  NoImage = NoImage
  LoadAt <- MCLoadAt
  Encrypted <- MCEncrypted
  Genuine <- MCGenuine
  Fitting = {a, b, c, r, x}
  Version <- MCVersion
  NoCmd = NoCmd
  NoPrm = NoPrm
  TornPrm = TornPrm
  NoCrc = NoCrc
  NoTrial = NoTrial
  Idle = Idle
  StatEntries = 6
  EndEntries = 3
  MaxFails = 1
  Careless = {}
INVARIANTS
  TypeOK
  BootsWhole
  NeverHalts
  PrmOfSlot0
PROPERTIES
  TrialEnds
  NeverOlder
  LogsRespected
  ComesUp
