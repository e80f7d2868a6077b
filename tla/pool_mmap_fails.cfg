SPECIFICATION Spec
CONSTANTS
  Thread = {t1, t2, t3}
  Affinity <- MCAffinity
  StateSize = 2
  PageSizes = {5}
  MaxRented = 1
  MaxForgets = 0
  Errno = {1, 12}
  Debug = FALSE
INVARIANT RentedIsMapped
CHECK_DEADLOCK FALSE
