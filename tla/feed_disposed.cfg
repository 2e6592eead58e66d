CONSTANTS
  MaxStarts = 1
  MaxInstalls = 0
  MaxDials = 1
  MaxAsked = 2
SPECIFICATION Spec
INVARIANT DisposedFeedIsEmpty
CHECK_DEADLOCK FALSE
