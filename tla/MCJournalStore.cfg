CONSTANTS
  w1 = w1  w2 = w2  p1 = p1  g1 = g1  n1 = n1  n2 = n2
  Group = {g1}
  Name = {n1, n2}
  NoName = NoName
  Writer = {w1, w2}
  Work <- MCWork
  Reader = {p1}
  MaxRecords = 3
  PageLimit = 1
  ScanCap = 2
  MaxRenames = 1
SPECIFICATION Spec
INVARIANTS TypeOK PagingExact UnmatchedWindow
CONSTRAINT OneKind
SYMMETRY Sym
CHECK_DEADLOCK FALSE
