SPECIFICATION FairSpec
CONSTANTS
  c1 = c1  c2 = c2
  Calls = {c1, c2}
  MaxRelays = 3
  MaxRetries = 2
INVARIANTS TypeOK ClientInv LoadBalanced DirectIsLastResort GivesUpLate
PROPERTIES EveryGetReturns
CHECK_DEADLOCK FALSE
