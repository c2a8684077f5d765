SPECIFICATION Spec
CONSTANTS
  Macs = {m1}
  Configs = {c1}
  MaxIso = 1
  MaxHost = 1
  MaxProfile = 1
  MaxVersion = 1
  MaxInstall = 1
  MaxOverride = 1
  MaxUnmarked = 0
  Procs = {p1}
PROPERTY PlanFixed
