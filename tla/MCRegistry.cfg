CONSTANTS
  c1 = c1  c2 = c2  n1 = n1  n2 = n2  m1 = m1  m2 = m2  p1 = p1  p2 = p2
  Proc = {c1, c2}
  Ops <- MCOps
  NoSweeper = NoSweeper
  Name = {n1, n2}
  NoName = NoName
  Methods = {m1}
  Path = {p1, p2}
  NoMethods = NoMethods
  NoPath = NoPath
  Clash <- MCClash
  Ttls = {1}
  TightTtl = TRUE
  MaxGroups = 1
  MaxRoutes = 3
  MaxFaults = 0
  MaxCalls = 3
  Kinds = {}
  SeedName <- MCSeedName
  SeedRoute <- MCSeedRoute
SPECIFICATION Spec
INVARIANTS TypeOK NumbersNeverReissued NoLostRoute
PROPERTIES ImplementsDirectory
SYMMETRY Callers
CHECK_DEADLOCK FALSE
