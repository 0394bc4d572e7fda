SPECIFICATION FairSpec
CONSTANTS
  c1 = c1
  c2 = c2
  s1 = s1
  s2 = s2
  Callers = {c1, c2}
  Streams = {s1}
  Lingering = {s1}
  Passive = {}
  MaxCalls = 1
  PipeSize = 2
  Waker = Waker
  NoStream = NoStream
PROPERTY SyncReturns
CHECK_DEADLOCK FALSE
