CONSTANTS
  Restarts = {r1}
  Activation = activation
  MaxClients = 4
  MaxSettings = 2
  MaxCrashes = 2
SPECIFICATION Spec
PROPERTY RestartRecreates
CHECK_DEADLOCK FALSE
