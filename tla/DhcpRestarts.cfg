SPECIFICATION Spec
CONSTANTS
  Clients = {c1, c2}
  LastAddr = 1
  Ends = {0, 1}
  Duration = 1
  MaxTime = 3
  Handlers = {h1}
  MayRestart = TRUE
INVARIANT PoolAgrees
INVARIANT NothingResurrected
