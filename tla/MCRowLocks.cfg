SPECIFICATION Spec
CONSTANTS
  a1 = a1  a2 = a2  a3 = a3  k1 = k1  k2 = k2
  Action = {a1, a2, a3}
  Client = {c1, c2, c3}
  Offered = {"confirm"}
  Key = {k1, k2}
  KeyOf <- MCKeyOf
  Nobody = Nobody
SYMMETRY Symmetry
CHECK_DEADLOCK FALSE
INVARIANT OnlyCrossedConfirmations
PROPERTY HandlersAreAtomic
