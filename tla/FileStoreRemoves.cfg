SPECIFICATION Spec
CONSTANTS
  Calls = {c1, c2}
  c1 = c1
  c2 = c2
  MaxWrites = 2
  MaxTime = 2
  MaxCrashes = 0
  TTLs = {1}
  None = None
PROPERTIES OnlyExpiredIsRemoved
CHECK_DEADLOCK FALSE
