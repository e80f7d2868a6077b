SPECIFICATION Spec
CONSTANTS
  Thread = {t1, t2, t3}
  Null = Null
  Std = FALSE
PROPERTY NewCallsStayOut
