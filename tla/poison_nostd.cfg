SPECIFICATION PSpec
CONSTANTS
  Thread = {t1, t2, t3}
  Null = Null
  Std = FALSE
  Request = {"run", "unpoison"}
SYMMETRY Symmetry
INVARIANT DisabledIsPoisoned
PROPERTY ImplementsMonitor
