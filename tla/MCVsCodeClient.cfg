CONSTANTS
  Restarts = {r1}
  Activation = activation
  MaxClients = 4
  MaxSettings = 2
  MaxCrashes = 2
SPECIFICATION FairSpec
INVARIANTS SingletonClient ClientIsNewest StatusTellsClient RestartAppliesSettings
PROPERTIES RestartsEnd
CHECK_DEADLOCK FALSE
