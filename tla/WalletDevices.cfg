SPECIFICATION RestartSpec
CONSTANTS
  Devices = {phone, tablet}
  Nonces = {1, 2}
  Slots = {1, 2}
  MaxVersion <- Saves
  MaxLives <- PhoneMayRestart
  MaxFaults = 1
  CacheLags = TRUE
  None = None
  phone = phone
  tablet = tablet
INVARIANTS TypeOK OkWasWritten ConflictIsReal
PROPERTIES EveryoneHears
CHECK_DEADLOCK FALSE
