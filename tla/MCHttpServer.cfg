SPECIFICATION FairSpec
CONSTANTS
  r1 = r1  r2 = r2  c1 = c1
  Requests = {r1, r2}
  Clients = {c1}
  Configs <- MCConfigs
  MaxRequests = 2
  Window = 2
  Asks <- MCAsks
INVARIANTS LimiterInv OnlyOvertakenServes
PROPERTIES LockoutEnds
CHECK_DEADLOCK FALSE
