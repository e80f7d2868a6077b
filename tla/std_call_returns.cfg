SPECIFICATION FairSpec
CONSTANTS
  Thread = {t1, t2, t3}
  Null = Null
  Std = TRUE
PROPERTY CallReturns
