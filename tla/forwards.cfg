CONSTANTS
  Acquires = {a1, a2, a3}
  Ports = {p1, p2}
  NoSlot = NoSlot
  MaxCloseAll = 2
SPECIFICATION FairSpec
INVARIANT ValidLeasesShareAForward
PROPERTY TornDownIsClosed
PROPERTY ImplementsForwardContract
CHECK_DEADLOCK FALSE
