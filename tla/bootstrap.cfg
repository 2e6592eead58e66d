CONSTANTS
  Drives = {d1, d2}
  NoDrive = NoDrive
  MaxSteps = 7
  MaxPos = 5
  MaxChunks = 3
  MaxCancels = 3
SPECIFICATION FairSpec
INVARIANT MachineIsKept
PROPERTY NoteIsSpentOnAnOutcome
INVARIANT ChunksAreConsecutive
PROPERTY ImplementsDriveContract
PROPERTY ClosedLetsGo
CHECK_DEADLOCK FALSE
