SPECIFICATION Spec
CONSTANTS
  r1 = r1  r2 = r2
  injuries = injuries  unstick = unstick  nhl = nhl
  nfl = nfl  nba = nba  soccer = soccer
  Runs = {r1, r2}
  Jobs = {injuries, unstick, nhl}
  Kind <- MCKind
  Units = {nfl, nba}
  UnitsOf <- MCUnitsOf
  Limit = 2
  PoolSize = 3
  OnceJobs <- MCOnceJobs
SYMMETRY MCSymmetry
INVARIANTS IngestsFitPool
CHECK_DEADLOCK FALSE
