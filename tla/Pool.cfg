SPECIFICATION FairSpec
CONSTANTS
  m1 = m1
  m2 = m2
  m3 = m3
  s1 = s1
  s2 = s2
  w1 = w1
  w2 = w2
  None = None
  Msgs = {m1, m2, m3}
  MaxSent = 2
  Services = {s1, s2}
  Target <- MCTarget
  Quiet = {m2}
  Serialized = {s1}
  Workers = {w1, w2}
INVARIANTS PoolSafe
PROPERTIES PoolLive
CHECK_DEADLOCK FALSE
