CONSTANTS
  Requests = {r1, r2}
  Sinks = {s1, s2}
  NoSink = NoSink
  MaxPending = 1
  MaxShutdowns = 1
  CounterModulus = 65536
SPECIFICATION Spec
SYMMETRY RequestSymmetry
INVARIANT NoStrandedMint
INVARIANT CounterAccounts
INVARIANT TakenAnswerIsReturned
PROPERTY ImplementsContract
CHECK_DEADLOCK FALSE
