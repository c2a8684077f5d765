SPECIFICATION Spec
CONSTANTS
  Macs = {m1}
  Configs = {c1}
  MaxIso = 1
  MaxHost = 1
  MaxProfile = 1
  MaxVersion = 1
  MaxInstall = 2
  MaxOverride = 0
  MaxUnmarked = 0
  Procs = {p1, p2}
SYMMETRY Symmetry
INVARIANT AtMostOneActive
