SPECIFICATION Spec
CONSTANTS
  Thread = {t1, t2, t3}
  Null = Null
  Std = FALSE
SYMMETRY Symmetry
INVARIANTS
  IInv
  NoDangling
  ClosureOnce
  OutcomeIsOwn
  NoRunAfterPoison
PROPERTIES
  PoisonIsPermanent
  ImplementsSerialTasks
