SPECIFICATION MCSpec
CONSTANTS
  Size = 3
  DefaultLimit = 2
  LargestLimit = 3
  Entry <- MCEntry
  Zero <- MCZero
  Clients = {c1, c2}
  Burst = 2
  Refill = 2
  MaxTime = 6
  Self = self
  Others = {router, rogue}
  Window = 2
  MaxMinutes = 5
  Width = 3
  Installed = {"undionly.kpxe", "ipxe.efi"}
  Candidates <- MCCandidates
  Values <- MCValues
INVARIANT LoginsLimited
INVARIANT StatusIsCurrent
INVARIANT SchemaHolds
PROPERTY ImplementsRecent
PROPERTY ScanAnswers
PROPERTY MachinesBoot
