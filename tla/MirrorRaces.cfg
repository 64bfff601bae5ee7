SPECIFICATION Spec
CONSTANTS
  Keys = {1}
  Kind <- BackupOnly
  Slots = {1, 2}
  Ranks = {1, 2}
  Legacy = {1}
  MaxClock = 2
  MaxReqs = 2
  MaxOps = 1
  MaxFails = 1
  MaxDeaths = 1
  KvLags = TRUE
  Ties = TRUE
  None = None
INVARIANTS
  TypeOK
  QuietCycleSettles
PROPERTIES
  NothingDroppedUnasked
  StaleListingRollsNothingBack
