SPECIFICATION FairSpec
CONSTANTS
  MaxEntries = 3
  Space = 64
  Elf <- MCElf
  Vectors <- MCVectors
  Target <- MCTarget
  None = None
  Debug = TRUE
  Depth = 2
  MaxLen = 3
  Fatal = {22}
INVARIANTS
  TypeOK
  LookupCorrect
  NoReentrancy
  FlagTracksCall
  FilledInOrder
  FillIsWhole
PROPERTIES
  PoolNewReturns
  FillReturns
CHECK_DEADLOCK FALSE
