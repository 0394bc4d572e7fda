SPECIFICATION AllFairSpec
CONSTANTS
  c1 = c1
  c2 = c2
  p1 = p1
  M = M
  A = A
  B = B
  A1 = A1
  x = x
  y = y
  Callers = {c1, c2}
  Peers = {p1}
  PeerOf <- MCPeerOf
  Impatient = {c2}
  Nodes = {M, A, B, A1}
  Root = M
  Up <- MCUp
  Calls = {x, y}
  From <- MCFrom
  To <- MCTo
  NoWay = NoWay
  HeaderLen = 2
  JoinBelow = 3
  Bodies = {0, 1, 3}
  MaxBody = 2
  PipeSize = 3
  ReadSize = 2
  MaxMessages = 3
  Watchers = {"b1", "b2", "b3"}
  Threads = {"t1", "t2"}
  MaxForks = 2
PROPERTY RespondentsHeard
CHECK_DEADLOCK FALSE
