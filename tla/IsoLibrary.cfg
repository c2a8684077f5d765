SPECIFICATION Spec
CONSTANTS
  Procs = {p1, p2}
  Names = {n1, n2}
  Images = {i1, i2}
  MaxRows = 2
SYMMETRY Symmetry
INVARIANT FilesWhole
INVARIANT SumsMatch
INVARIANT RowsHaveFiles
INVARIANT FilesListed
