CONSTANTS
  h1 = h1  h2 = h2  w1 = w1  w2 = w2  w3 = w3  r1 = r1  r2 = r2  g1 = g1
  Replica = {h1, h2}
  Worker = {w1, w2}
  Route = {r1}
  Group = {g1}
  HostOf <- MCHostOf
  GroupOf <- MCGroupOf
  Seeded = {}
  MaxEvents = 2
  MaxFaults = 1
SPECIFICATION FairSpec
INVARIANTS TablesFreshUnlessLate
PROPERTIES Readiness
CHECK_DEADLOCK FALSE
