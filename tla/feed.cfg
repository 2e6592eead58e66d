CONSTANTS
  MaxStarts = 3
  MaxInstalls = 1
  MaxDials = 2
  MaxAsked = 3
SPECIFICATION FairSpec
INVARIANT NothingIsOrphaned
INVARIANT SerialRunHasItsTunnel
INVARIANT LanesKnowTheSource
INVARIANT ReachableIsWatched
PROPERTY ImplementsSourceContract
PROPERTY RestartIsNotDropped
PROPERTY ClaimReachesTheWatcher
CHECK_DEADLOCK FALSE
