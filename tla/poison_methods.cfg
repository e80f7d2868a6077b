SPECIFICATION PSpec
CONSTANTS
  Thread = {t1, t2}
  Null = Null
  Std = TRUE
  Request = {"run", "poison", "unpoison"}
SYMMETRY Symmetry
INVARIANT FlagUpInUser
PROPERTY ImplementsMonitor
