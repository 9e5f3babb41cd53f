SPECIFICATION FairSpec
CONSTANTS
  t1 = t1  t2 = t2  w1 = w1  o1 = o1
  worker = worker  once = once
  nfl = nfl  nba = nba  football = football  basketball = basketball
  moves = moves  nflNews = nflNews  nbaNews = nbaNews  nhlTeams = nhlTeams
  nhlStandings = nhlStandings  rosterA = rosterA  rosterB = rosterB
  deal = deal  n1 = n1  n2 = n2
  teamA = teamA  teamB = teamB  standA = standA  standB = standB  player = player
  Tasks = {t1, t2}
  Procs = {worker, once}
  TaskProc <- MCTaskProc
  Conns = {w1, o1}
  ConnProc <- MCConnProc
  Keys <- MCKeys
  NoConn = NoConn
  Calls = {moves, nflNews, nbaNews, nhlTeams, nhlStandings, rosterA, rosterB}
  Makes <- MCMakes
  Kind <- MCKind
  Sports = {football, basketball}
  Leagues = {nfl, nba}
  SportOf <- MCSportOf
  LeagueOf <- MCLeagueOf
  Rows = {deal, n1, n2, teamA, teamB, standA, standB, player}
  Stored = {n1, n2, standA, standB, player}
  NhlTeams = {teamA, teamB}
  Place <- MCPlace
  Standing <- MCStanding
  Roster <- MCRoster
  MaxVersion = 1
  Feed <- MCFeed
  Rejected = Rejected
  Loose = Loose
  Concurrency = 1
  Panics = {nhlStandings}
INVARIANTS UpsertInv
PROPERTIES SyncMirrorsFeed EveryCallReturns
