SPECIFICATION Spec
CONSTANTS
  r1 = r1
  r2 = r2
  r3 = r3
  c1 = c1
  c2 = c2
  t1 = t1
  t2 = t2
  h1 = h1
  h2 = h2
  k1 = k1
  gpu = gpu
  cpu = cpu
  Keys = {k1}
  Devices = {gpu}
  DefaultDevice = gpu
  Configs = {c1, c2}
  Heuristic = c2
  NoData = NoData
  Empty = Empty
  AllFailed = AllFailed
  Raised = Raised
  Results = {r1, r2}
  Data <- MCData
  Tasks = {t1, t2}
  Threads = {h1, h2}
  ThreadOf <- OneThreadPerTask
  a1 = a1
  a2 = a2
  Addrs = {a1, a2}
  NoAddr = NoAddr
  NoToken = NoToken
  NoContext = NoContext
  NoReply = NoReply
  OptionsUsed <- SomeOptions
  Disk <- MCDisk
  Shared = FALSE
  Recycle = TRUE
  MaxDepth = 2
  MaxTraces = 2
INVARIANT CallsFollowScope
