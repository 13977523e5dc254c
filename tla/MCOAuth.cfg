SPECIFICATION Spec
CONSTANTS
  t1 = t1  t2 = t2  u1 = u1  u2 = u2  cl = cl  other = other
  uri = uri  port = port  v1 = v1  v2 = v2  lo = lo  no = no
  Thread <- MCThread
  User <- MCUser
  Client <- MCClient
  Uri <- MCUri
  Verifier <- MCVerifier
  Registers <- MCRegisters
  Loopback <- MCLoopback
  NotLoopback = no
  MaxNonces = 1
  MaxCodes = 1
  MaxRefresh = 2
  MaxFaults = 1
SYMMETRY Symmetry
INVARIANTS Consented OnePairUnlessRaced CutOff
CHECK_DEADLOCK FALSE
