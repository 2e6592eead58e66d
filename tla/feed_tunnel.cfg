CONSTANTS
  MaxStarts = 2
  MaxInstalls = 1
  MaxDials = 0
  MaxAsked = 3
SPECIFICATION Spec
INVARIANT RunningHasItsTunnel
CHECK_DEADLOCK FALSE
