SPECIFICATION FairSpec
CONSTANTS
  r1 = r1  r2 = r2
  injuries = injuries  unstick = unstick  nhl = nhl
  nfl = nfl  nba = nba  soccer = soccer
  Runs = {r1, r2}
  Jobs = {injuries, unstick, nhl}
  Kind <- MCKind
  Units = {nfl, nba}
  UnitsOf <- MCUnitsOf
  Limit = 1
  PoolSize = 3
  OnceJobs <- MCOnceJobs
INVARIANTS TypeOK NoUnitLost SummaryAddsUp DrainedIsQuiet
PROPERTIES ShutdownCompletes EveryRunReturns
CHECK_DEADLOCK FALSE
