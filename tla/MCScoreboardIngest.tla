------------------------- MODULE MCScoreboardIngest --------------------------
(* ScoreboardIngest with two dates of one league and one of a league of
   another sport, which share two venues. *)
EXTENDS ScoreboardIngest

CONSTANTS t1, t2, t3, w1, w2, a1, worker, api, nfl, nba, football, basketball,
          sun, mon, tue, arena, dome, g1, g2, h1, h2, x1, x2, y1

MCTaskProc == [t \in Tasks |-> IF t = t3 THEN api ELSE worker]
MCConnProc == [c \in Conns |-> IF c = a1 THEN api ELSE worker]
MCSportOf == [l \in Leagues |-> IF l = nba THEN basketball ELSE football]
MCLeagueOf == [b \in Boards |-> IF b = tue THEN nba ELSE nfl]
MCKeys == Sports \cup Leagues \cup Venues \cup Events \cup Teams

Listed(e, v, T) == [id |-> e, venue |-> v, teams |-> T]

(* A game moves from Sunday to Monday and loses a competitor; Sunday's first
   version has an entry without id and a competitor without team; Monday's is
   empty at first and ends with a game listed twice, then with a team that is
   listed twice in one game. *)
MCScoreboard ==
  [b \in Boards |-> [v \in Versions |->
     CASE b = sun /\ v = 0 -> <<Listed(g1, arena, <<x1, x2>>), Listed(NoId, dome, <<>>),
                                Listed(g2, dome, <<x2, NoId>>)>>
       [] b = sun /\ v = 1 -> <<Listed(g2, NoId, <<x1>>)>>
       [] b = mon /\ v = 0 -> <<>>
       [] b = mon /\ v = 1 -> <<Listed(g1, NoId, <<x1>>), Listed(g1, dome, <<x2>>)>>
       [] b = tue /\ v = 0 -> <<Listed(h1, dome, <<y1>>)>>
       [] OTHER -> <<Listed(h1, arena, <<y1, y1>>)>>]]

(* Sunday and Tuesday use the venues in two orders, Monday a game and a team of
   Sunday's in another order. *)
MCCrossingScoreboard ==
  [b \in Boards |-> [v \in Versions |->
     CASE b = sun -> <<Listed(g1, arena, <<x1>>), Listed(g2, dome, <<>>)>>
       [] b = mon -> <<Listed(g2, NoId, <<x1>>)>>
       [] b = tue -> <<Listed(h1, dome, <<y1>>), Listed(h2, arena, <<>>)>>]]
=============================================================================
