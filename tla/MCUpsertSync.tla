---------------------------- MODULE MCUpsertSync -----------------------------
(* UpsertSync with a task in the worker and one in a --once run beside it. *)
EXTENDS UpsertSync

CONSTANTS t1, t2, w1, o1, worker, once, nfl, nba, football, basketball,
          moves, nflNews, nbaNews, nhlTeams, nhlStandings, rosterA, rosterB,
          deal, n1, n2, teamA, teamB, standA, standB, player

MCTaskProc == [t \in Tasks |-> IF t = t2 THEN once ELSE worker]
MCConnProc == [c \in Conns |-> IF c = w1 THEN worker ELSE once]
MCSportOf == [l \in Leagues |-> IF l = nba THEN basketball ELSE football]
MCLeagueOf == [c \in Calls |-> IF c = nbaNews THEN nba ELSE nfl]
MCKind ==
  [c \in Calls |-> CASE c = moves -> "transactions"
                     [] c \in {nflNews, nbaNews} -> "news"
                     [] c = nhlTeams -> "nhl_teams"
                     [] c = nhlStandings -> "nhl_standings"
                     [] OTHER -> "nhl_roster"]
MCMakes ==
  [p \in Procs |-> IF p = worker THEN {nflNews, nhlTeams, rosterA, rosterB, moves}
                                  ELSE {nbaNews, nhlTeams, nhlStandings, moves}]
MCKeys == Sports \cup Leagues \cup Rows
MCPlace == [k \in NhlTeams |-> IF k = teamA THEN 1 ELSE 2]
MCStanding == [k \in NhlTeams |-> IF k = teamA THEN standA ELSE standB]
MCRoster == [k \in NhlTeams |-> IF k = teamA THEN rosterA ELSE rosterB]

(* A transaction listed twice, then once after one without an id; two articles
   in both orders; a team that leaves the NHL; rosters with a player and with
   an entry without an id. *)
MCFeed ==
  [c \in Calls |-> [v \in 0..MaxVersion |->
     CASE c = moves -> IF v = 0 THEN <<deal, deal>> ELSE <<Loose, deal>>
       [] c = nflNews -> <<n1, n2>>
       [] c = nbaNews -> IF v = 0 THEN <<n2, n1>> ELSE <<>>
       [] c = nhlTeams -> IF v = 0 THEN <<teamB, teamA>> ELSE <<teamB>>
       [] c = nhlStandings -> <<teamA>>
       [] c = rosterA -> <<player>>
       [] OTHER -> <<Rejected>>]]
=============================================================================
