SPECIFICATION FairSpec
CONSTANTS
  Keys = {1, 2}
  Kind <- PlainOnly
  Slots = {1}
  Ranks = {1, 2}
  Legacy = {1}
  MaxClock = 2
  MaxReqs = 2
  MaxOps = 2
  MaxFails = 0
  MaxDeaths = 1
  KvLags = FALSE
  Ties = FALSE
  None = None
PROPERTIES
  RestNextCycle
