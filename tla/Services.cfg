SPECIFICATION Spec
CONSTANTS
  InitialBackoff = 1
  MaxBackoff = 3
  MaxRapid = 3
INVARIANT PortsReleased
INVARIANT WaitsDouble
PROPERTY RunsAgain
PROPERTY StopsClean
PROPERTY StopCompletes
