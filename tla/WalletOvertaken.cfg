SPECIFICATION Spec
CONSTANTS
  Devices = {phone}
  Nonces = {1, 2}
  Slots = {1, 2}
  MaxVersion <- Saves
  MaxLives <- NoRestart
  MaxFaults = 1
  CacheLags = FALSE
  None = None
  phone = phone
  tablet = tablet
PROPERTIES NewestStays
CHECK_DEADLOCK FALSE
