SPECIFICATION Spec
CONSTANTS
  Thread = {t1, t2, t3}
  Null = Null
  Std = TRUE
SYMMETRY Symmetry
INVARIANTS
  MutualExclusion
  InArrivalOrder
  NoLostWakeup
  QuiescentIsFree
PROPERTIES
  MessageStands
  ImplementsSerialTasks
