CONSTANTS
  Kinds = {"craze", "machine"}
  MaxStamps = 3
  MaxSources = 2
  MaxEvents = 3
SPECIFICATION FairSpec
INVARIANT NoOrphanLane
INVARIANT NoLeaseLeak
INVARIANT RidesTheLiveSource
INVARIANT SaidIsThisSession
INVARIANT CrazeLaneIsNeverStranded
PROPERTY SourceIsFollowed
PROPERTY ClosedLaneLetsGo
PROPERTY ImplementsLaneContract
CHECK_DEADLOCK FALSE
