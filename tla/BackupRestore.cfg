SPECIFICATION Spec
CONSTANTS
  Procs = {p1, p2}
  Latest = 2
  MaxFiles = 4
  MaxCommits = 1
  MaxFaults = 2
INVARIANT PendingUsable
INVARIANT RestoredOnce
INVARIANT NoForeignLog
INVARIANT NewestCommitKept
INVARIANT MigratedOnce
PROPERTY AcceptedIsRestored
