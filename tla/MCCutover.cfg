SPECIFICATION Spec
CONSTANTS
  N = 3
  Keys = {k1, k2}
  KeyOf <- MCKeyOf
  k1 = k1
  k2 = k2
INVARIANTS
  CutoverIsClean
PROPERTIES
  NothingInvented
CHECK_DEADLOCK FALSE
