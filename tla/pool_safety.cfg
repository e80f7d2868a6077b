SPECIFICATION FairSpec
CONSTANTS
  Thread = {t1, t2, t3}
  Affinity <- MCAffinity
  StateSize = 2
  PageSizes = {5}
  MaxRented = 1
  MaxForgets = 1
  Errno = {1}
  Debug = TRUE
INVARIANTS
  TypeOK
  NoSharing
  Conservation
  RentedIsMapped
  GrowsWithDemand
  DropUnmapsUnlessLeaked
PROPERTIES
  DropFindsAll
  GetReturns
CHECK_DEADLOCK FALSE
