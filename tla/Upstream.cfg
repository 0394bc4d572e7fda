SPECIFICATION AllFairSpec
CONSTANTS
  m1 = m1
  a1 = a1
  a2 = a2
  a3 = a3
  b1 = b1
  t1 = t1
  t2 = t2
  t3 = t3
  A = A
  B = B
  Master = Master
  None = None
  Children = {A, B}
  IdThreads = {m1, a1, a2, a3, b1}
  Home <- MCIdHome
  Threads = {t1, t2, t3}
  Timed = {}
  Pairs = {"p1", "p2", "p3"}
  MaxPuts = 2
  BlockSize = 2
  MaxCalls = 1
  ImportRoot = "M"
  Contexts = {"P", "K"}
  Above <- MCAbove
  Importers = {"tp", "tk"}
  HomeOf <- MCHome
  Modules = {"pk", "sub", "use", "bad", "blk", "gone"}
  Related <- MCRelated
  Top <- MCTop
  Preloads <- MCPreloads
  Local <- MCLocal
  Blacklist = {"blk"}
  Missing = {"gone"}
  Broken = {"bad"}
  Names <- MCNames
  Disk <- MCDisk
  StdLib <- MCStdLib
  Programs <- MCPrograms
  Residents <- MCResidents
  SearchPath <- MCSearchPath
  Files <- MCFiles
  UtilImports <- MCUtilImports
  ScanRequests <- MCScanRequests
INVARIANTS Apart SearchSafe ImportsSafe Cookies NoAssertFails
PROPERTIES ImplementsFresh UpstreamLive ImplementsQueue LatchLive
CHECK_DEADLOCK FALSE
