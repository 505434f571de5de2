\* Four entries on two pages, two commands: every mixture of written, torn
\* and half erased entries.
SPECIFICATION Spec
CONSTANTS
  Cmd = {c1, c2}
  NoCmd = NoCmd
  Empty = Empty
  BadCrc = BadCrc
  Capacity = 4
  PageEntries = 2
INVARIANTS
  TypeOK
  FilledFromFront
  ReadsLast
  LogInv
PROPERTIES
  ProgramOnce
  RegSpec
