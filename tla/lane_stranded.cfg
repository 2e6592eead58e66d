CONSTANTS
  Kinds = {"machine"}
  MaxStamps = 2
  MaxSources = 0
  MaxEvents = 2
SPECIFICATION Spec
INVARIANT LaneIsNeverStranded
CHECK_DEADLOCK FALSE
