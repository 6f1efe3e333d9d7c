CONSTANTS
  Restarts = {r1, r2}
  Activation = activation
  MaxClients = 3
  MaxSettings = 0
  MaxCrashes = 0
SPECIFICATION Spec
INVARIANT SingletonClient
CHECK_DEADLOCK FALSE
