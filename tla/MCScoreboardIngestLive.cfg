SPECIFICATION FairSpec
CONSTANTS
  t1 = t1  t2 = t2  t3 = t3
  w1 = w1  w2 = w2  a1 = a1
  worker = worker  api = api
  nfl = nfl  nba = nba
  football = football  basketball = basketball
  sun = sun  mon = mon  tue = tue
  arena = arena  dome = dome
  g1 = g1  g2 = g2  h1 = h1  h2 = h2
  x1 = x1  x2 = x2  y1 = y1
  Tasks = {t1, t3}
  Procs = {worker, api}
  TaskProc <- MCTaskProc
  Conns = {w1, a1}
  ConnProc <- MCConnProc
  Keys <- MCKeys
  NoConn = NoConn
  Sports = {football, basketball}
  Leagues = {nfl, nba}
  Boards = {sun, mon, tue}
  Venues = {arena, dome}
  Events = {g1, g2, h1, h2}
  Teams = {x1, x2, y1}
  SportOf <- MCSportOf
  LeagueOf <- MCLeagueOf
  NoId = NoId
  Absent = Absent
  MaxVersion = 0
  Scoreboard <- MCCrossingScoreboard
  Panics = FALSE
INVARIANTS CirclesAreVenues
PROPERTIES EveryCallReturns
