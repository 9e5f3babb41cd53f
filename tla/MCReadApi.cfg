SPECIFICATION FairSpec
CONSTANTS
  t1 = t1  t2 = t2  p1 = p1
  Ids = {1, 2, 3, 4}
  Teams = {t1, t2}
  Players = {p1}
  NoRow = NoRow
  NoTeam = NoTeam
  Column <- MCColumn
  Tables <- MCTables
  Queries <- MCQueries
  PageSize = 3
  MaxInt = 7
  MaxShared = 2
  MaxWrites = 1
INVARIANTS TypeOK HydrationFits WalkShowsEachOnce ListedIsFound
PROPERTIES EveryWalkEnds
CHECK_DEADLOCK FALSE
