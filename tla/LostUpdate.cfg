SPECIFICATION Spec
CONSTANTS
  one = one  two = two  ann = ann  bob = bob  noText = noText  noFile = noFile  nobody = nobody

  Actors <- MCActors
  ProcessOf <- OwnProcess
  Values <- MCValues
  Limit = 1
  MaxCommands = 3
  MaxCuts = 1
  NoText <- noText  NoFile <- noFile  Nobody <- nobody
INVARIANT
  RestoresTheValue
CHECK_DEADLOCK FALSE
