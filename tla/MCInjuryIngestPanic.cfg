SPECIFICATION Spec
CONSTANTS
  t1 = t1  t2 = t2  t3 = t3
  w1 = w1  w2 = w2  a1 = a1
  worker = worker  api = api
  nfl = nfl  cfb = cfb  nba = nba
  football = football  basketball = basketball
  hurt = hurt  healed = healed  blank = blank
  Tasks = {t1, t3}
  Procs = {worker, api}
  TaskProc <- MCTaskProc
  Conns = {w1, w2, a1}
  ConnProc <- MCConnProc
  Keys <- MCKeys
  NoConn = NoConn
  Sports = {football}
  Leagues = {nfl}
  SportOf <- MCSportOf
  Items = {hurt}
  Nameless = {}
  MaxVersion = 1
  Report <- MCSmallReport
  Panics = TRUE
INVARIANTS NoOrphanedLock
