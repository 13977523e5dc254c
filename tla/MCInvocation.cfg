SPECIFICATION FairSpec
CONSTANTS
  r1 = r1  kv = kv  gkv = gkv
  pub = pub  meta = meta  mapped = mapped  ci = ci  bad = bad
  Req <- MCReq
  Key <- MCKey
  Addr <- MCAddr
  Normal <- MCNormal
  Special <- MCSpecial
  Allow <- MCAllow
  Deny <- MCDeny
  Cap = 2
  MaxCallbacks = 2
  MaxChunks = 4
  MaxCrashes = 1
INVARIANTS TypeOK JournalFirst StreamAccounted OnlyVetted DryCleaned
PROPERTIES HandlersEnd
CHECK_DEADLOCK FALSE
