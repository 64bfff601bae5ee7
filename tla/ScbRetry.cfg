SPECIFICATION ScbSpec
CONSTANTS
  Copies = {a, b}
  Stamps = {1, 2, 3}
  Pushes = {p1}
  Restores = {}
  MaxKills = 1
  NoCopy = NoCopy
PROPERTIES RetryKeepsGeneration
CHECK_DEADLOCK FALSE
