SPECIFICATION BlockedSpec
CONSTANTS
  Keys = {1, 2}
  Kind <- BackupThenPlain
  Slots = {1, 2}
  Ranks = {1, 2}
  Legacy = {}
  MaxClock = 2
  MaxReqs = 3
  MaxOps = 1
  MaxFails = 1
  MaxDeaths = 1
  KvLags = TRUE
  Ties = FALSE
  None = None
INVARIANTS
  Authentic
  QuietCycleLevels
PROPERTIES
  Converges
