SPECIFICATION DepartSpec
CONSTANTS
  MaxTs = 3
  MaxClock = 4
  None = None
INVARIANTS
  MarkedDoorsRefuse
CHECK_DEADLOCK FALSE
