CONSTANTS
  Thread <- MCThread
  Email <- MCEmail
  Login <- MCLogin
  MailOf <- MCMailOf
  Local <- MCLocal
  AdminLogin = {}
  Linked <- MCLinked
  Seed <- MCSeed
  Plans <- MCPlans
  MaxCalls <- MCMaxCalls
  TokenName <- MCTokenName
  MaxUsers = 4
  MaxCookies = 4
  MaxTokens = 4
  Group = {1, 2}
  Name <- MCName
  Estate <- MCEstate
  None = None
  p = p
  q = q
  e1 = e1
  e2 = e2
  e3 = e3
  local = local
  oidc = oidc
  github = github
  t1 = t1
  t2 = t2
  x = x
  y = y
SPECIFICATION Spec
INVARIANTS
  Withdrawn
  OneAccountPerEmailUnlessFreed
  LastAdmin
  OwnersOnlyUnlessRebound
  OwnersExist
CHECK_DEADLOCK FALSE
