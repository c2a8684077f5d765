SPECIFICATION HSpec
CONSTANTS
  Procs = {p1, p2}
  Passwords = {w1, w2}
  OtherRoles = {"viewer"}
  OtherKeys = {"network.mode"}
  MaxUsers = 2
  MaxSessions = 2
SYMMETRY Symmetry
INVARIANT TypeOK
INVARIANT AdminExists
INVARIANT SessionsValid
