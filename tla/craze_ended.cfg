CONSTANTS
  MaxIds = 1
  MaxStarts = 1
  MaxSources = 2
  MaxEdits = 1
  MaxSeeds = 2
  MaxSeededIds = 1
  MaxSeededEdits = 0
  Homes = {h1}
  NoHome = NoHome
SPECIFICATION Spec
INVARIANT UnlistedHasEnded
CHECK_DEADLOCK FALSE
