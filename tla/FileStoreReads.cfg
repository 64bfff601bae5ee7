SPECIFICATION Spec
CONSTANTS
  Calls = {c1, c2, c3}
  c1 = c1
  c2 = c2
  c3 = c3
  MaxWrites = 3
  MaxTime = 2
  MaxCrashes = 1
  TTLs = {0, 1}
  None = None
INVARIANTS TypeOK ReadIsRegular DurablePairFits
PROPERTIES StoreIsRegister
SYMMETRY CallSymmetry
CHECK_DEADLOCK FALSE
