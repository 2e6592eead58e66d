CONSTANTS
  Requests = {r1}
  Sinks = {s1, s2}
  NoSink = NoSink
  MaxPending = 1
  MaxShutdowns = 2
  CounterModulus = 65536
SPECIFICATION FairSpec
PROPERTY GoneSinkResolves
PROPERTY LostStreamEnds
CHECK_DEADLOCK FALSE
