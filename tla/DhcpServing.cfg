SPECIFICATION Spec
CONSTANTS
  Clients = {c1, c2}
  LastAddr = 2
  Ends = {1, 2}
  Duration = 1
  MaxTime = 3
  Handlers = {h1, h2}
  MayRestart = FALSE
SYMMETRY Symmetry
INVARIANT TypeOK
INVARIANT NoSharedAddress
INVARIANT PromisesHeld
