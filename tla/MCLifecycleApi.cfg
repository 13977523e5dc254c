CONSTANTS
  c1 = c1  s1 = s1  s2 = s2  n1 = n1  n2 = n2  m1 = m1  m2 = m2  p1 = p1  p2 = p2
  Proc = {c1, s1}
  Ops <- MCApiOps
  Sweeper = {s1}
  NoSweeper = NoSweeper
  Name = {n1, n2}
  NoName = NoName
  Methods = {m1}
  Path = {p1, p2}
  NoMethods = NoMethods
  NoPath = NoPath
  Clash <- MCClash
  Ttls = {0, 1}
  TightTtl = FALSE
  MaxGroups = 2
  MaxRoutes = 2
  MaxFaults = 0
  MaxCalls = 2
  Kinds = {}
  SeedName <- MCSeedName
  SeedRoute <- MCSeedRoute
SPECIFICATION LSpec
INVARIANTS NoDanglingIndex ConflictFree NameTracks TtlAsConfigured SweepSparesLive
CHECK_DEADLOCK FALSE
