SPECIFICATION RegistrySpec
CONSTANTS
  Handlers = {h1}
  SigWindow = 1
  RegistryTime = 2
  RegistryFaults = 1
  Absent = Absent
PROPERTIES
  DepartureIsFinal
CHECK_DEADLOCK FALSE
