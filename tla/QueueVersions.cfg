SPECIFICATION Spec
CONSTANTS
  Macs = {m1}
  Configs = {c1, c2}
  MaxIso = 1
  MaxHost = 1
  MaxProfile = 1
  MaxVersion = 2
  MaxInstall = 1
  MaxOverride = 0
  MaxUnmarked = 1
  Procs = {p1, p2}
SYMMETRY Symmetry
INVARIANT TypeOK
INVARIANT ServedIsStarted
INVARIANT PinsExist
INVARIANT VersionsContiguous
PROPERTY ImplementsPlan
