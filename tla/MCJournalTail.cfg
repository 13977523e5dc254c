CONSTANTS
  h1 = h1  h2 = h2  t1 = t1  g1 = g1
  Traffic = {g1}
  Replica = {h1, h2}
  Consumer = {t1}
  At <- MCAt
  Filter <- MCFilter
  AnyGroup = AnyGroup
  Tool <- MCTool
  Need = 2
  Capacity = 2
  EventId = {1, 2, 3, 4}
  Event <- MCEvent
  MaxFaults = 1
SPECIFICATION FairSpec
INVARIANTS TailAccounted
PROPERTIES DemandServed
CHECK_DEADLOCK FALSE
