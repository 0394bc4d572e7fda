SPECIFICATION AllFairSpec
CONSTANTS
  t1 = t1
  t2 = t2
  t3 = t3
  k1 = k1
  x1 = x1
  x2 = x2
  None = None
  Clients = {t1, t2, t3}
  Keys = {k1}
  Contexts = {x1, x2}
  MaxInterpreters = 2
  Unreliable = {}
  Resets = FALSE
  MuxCount = 2
  Workers = {"w1", "w2", "w3"}
  HomeOf <- MCHomeOf
  MaxKills = 2
  Cpus = 3
  Wrap = 4
  Forked = {"f1", "f2", "f3"}
  MaxDeaths = 1
  MaxTasks = 3
  MaxFailures = 1
  EnvKeys = {"k", "l"}
  MaxEdits = 3
  Hosts = {"a", "b", "c"}
  Muxes = {"m1", "m2"}
  MuxOf <- MCMuxOf
  Vias <- MCVias
  MaxGets = 3
  MaxMishaps = 2
INVARIANTS TasksSafe PluginSafe MultiplexerSafe AffinitySafe
PROPERTIES EnvFilesSafe AnsibleLive
CHECK_DEADLOCK FALSE
