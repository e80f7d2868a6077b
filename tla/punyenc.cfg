SPECIFICATION Spec
CONSTANTS
  Alphabet = {45, 97, 128, 129, 252, 1114111}
  MaxLength = 6
  Inputs <- Strings
INVARIANTS
  NoUnderflow
  DeltaFits
  PrefixDecodes
  IInv
CHECK_DEADLOCK FALSE
