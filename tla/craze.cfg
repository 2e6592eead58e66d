CONSTANTS
  MaxIds = 2
  MaxStarts = 2
  MaxSources = 2
  MaxEdits = 1
  MaxSeeds = 2
  MaxSeededIds = 1
  MaxSeededEdits = 0
  Homes = {h1}
  NoHome = NoHome
SPECIFICATION FairSpec
INVARIANT OneSessionPerForm
INVARIANT ShownRosterIsWhole
INVARIANT SaidEndedHasEnded
PROPERTY CutCallsEnd
PROPERTY ImplementsCreateContract
CHECK_DEADLOCK FALSE
