SPECIFICATION Spec
CONSTANTS
  Keys = {1}
  Kind <- BackupOnly
  Slots = {1, 2}
  Ranks = {1, 2}
  Legacy = {}
  MaxClock = 2
  MaxReqs = 2
  MaxOps = 1
  MaxFails = 1
  MaxDeaths = 0
  KvLags = FALSE
  Ties = FALSE
  None = None
PROPERTIES
  PullKeepsGuards
