CONSTANTS
  c1 = c1  s1 = s1  s2 = s2  n1 = n1  n2 = n2  m1 = m1  m2 = m2  p1 = p1  p2 = p2
  Proc = {c1, s1, s2}
  Ops <- MCOps
  Sweeper = {s1, s2}
  NoSweeper = NoSweeper
  Name = {n1}
  NoName = NoName
  Methods = {m1}
  Path = {p1, p2}
  NoMethods = NoMethods
  NoPath = NoPath
  Clash <- MCClash
  Ttls = {1}
  TightTtl = TRUE
  MaxGroups = 1
  MaxRoutes = 1
  MaxFaults = 1
  MaxCalls = 1
  Kinds = {"kv", "gkv", "journal"}
  SeedName <- MCSeedName
  SeedRoute <- MCSeedRoute
SPECIFICATION LFairSpec
INVARIANTS NothingLeftUnlessFault
PROPERTIES SweepConverges SweepsGoOn
CHECK_DEADLOCK FALSE
