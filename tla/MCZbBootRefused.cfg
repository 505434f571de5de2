\* The application asks for a permanent swap while the image in slot 0 is on trial.
SPECIFICATION Spec
CONSTANTS
  a = a
  b = b
  c = c
  r = r
  x = x
  RamEncrypted = FALSE
  Image = {a, b}
  NoImage = NoImage
  LoadAt <- MCLoadAt
  Encrypted <- MCEncrypted
  Genuine <- MCGenuine
  Fitting = {a, b}
  Version <- MCVersion
  NoCmd = NoCmd
  NoPrm = NoPrm
  TornPrm = TornPrm
  NoCrc = NoCrc
  NoTrial = NoTrial
  Idle = Idle
  StatEntries = 5
  EndEntries = 3
  MaxFails = 0
  Careless = {"request_in_trial"}
PROPERTIES
  TrialEnds
