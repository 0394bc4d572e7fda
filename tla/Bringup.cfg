SPECIFICATION AllFairSpec
CONSTANTS
  t1 = t1
  t2 = t2
  p1 = p1
  p2 = p2
  Threads = {t1, t2}
  Pairs = {p1, p2}
  Timed = {t1, t2}
  MaxPuts = 3
  Attempts = {"a", "b"}
  Detached = {"b"}
  HasStderr = {"a"}
  Stubborn = {"a"}
  TermAt = 1
  KillAt = 2
  MaxTries = 3
  Methods = {"sudo", "su", "doas", "ssh"}
  MaxAsks = 3
  SourceSize = 3
  PipeSize = 2
  MaxMessages = 2
  Loggers = {"service", "broker"}
  MaxRecords = 2
  MaxLines = 1
  Streams = {"s1", "s2", "s3"}
  Fds = {5, 6}
  MaxEvents = 2
INVARIANTS LoginSafe  StartupSafe LogsSafe PollingSafe SleepersExact
PROPERTIES BringupSafe BringupLive
CHECK_DEADLOCK FALSE
