SPECIFICATION AllSpec
CONSTANTS
  t1 = t1
  t2 = t2
  t3 = t3
  k1 = k1
  k2 = k2
  x1 = x1
  x2 = x2
  x3 = x3
  None = None
  Clients = {t1, t2}
  Keys = {k1, k2}
  Contexts = {x1, x2}
  MaxInterpreters = 1
  Unreliable = {x1, x2}
  Resets = TRUE
  c1 = c1
  c2 = c2
  Callers = {c1, c2}
  Streams = {"s1"}
  Lingering = {"s1"}
  Passive = {}
  MaxCalls = 2
  PipeSize = 2
  Waker = Waker
  NoStream = NoStream
SYMMETRY Symmetry
INVARIANTS ContextSafe Armed DeferredSafe
CHECK_DEADLOCK FALSE
