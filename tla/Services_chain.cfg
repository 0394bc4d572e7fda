SPECIFICATION AllSpec
CONSTANTS
  c1 = c1
  c2 = c2
  s1 = s1
  s2 = s2
  Callers = {c1, c2}
  Streams = {s1, s2}
  Lingering = {s1}
  Passive = {s2}
  MaxCalls = 1
  PipeSize = 2
  Waker = Waker
  NoStream = NoStream
  Transfers = {"t1", "t2", "t3"}
  TransferStreams = {"s"}
  StreamOf <- MCStreamOf
  Registered = {"t1", "t2"}
  Mortal = {"t1"}
  Window = 3
  Chunk = 2
  MaxSize = 5
  Source = "M"
  Holders = {"P", "K1", "K2"}
  Over <- MCOver
  PoolSize = 2
  Targets = {"K1", "K2", "P"}
  Readers = {"r1", "r2"}
  ReaderAt <- MCReaderAt
  Chains = {"ca", "cb"}
  Pipelined = {"ca"}
  ChainCalls <- MCChainCalls
  Receivers = {"v1", "v2"}
  MaxPosts = 2
  TimeLimits = {TRUE, FALSE}
INVARIANT AnyFailureStops
CHECK_DEADLOCK FALSE
