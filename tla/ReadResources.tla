---------------------------- MODULE ReadResources ----------------------------
(***************************************************************************)
(* The read endpoints, one by one: which query parameters a handler passes *)
(* on, which statements the service runs and in which order, and what the  *)
(* repository's SQL does with the parameters.  ReadApi gives them meaning. *)
(*                                                                         *)
(* A repository is described by                                            *)
(*   filters  parameters its conditions use,                               *)
(*   typed    those PostgreSQL parses, so a malformed value is an error,   *)
(*   broken   those whose condition sqlx cannot prepare,                   *)
(*   skips    those it ignores itself when malformed,                      *)
(*   columns  the columns ?ordering may name,                              *)
(*   tie      whether ORDER BY ends with the primary key,                  *)
(*   active   whether lists and details are restricted to is_active rows;  *)
(* a handler by the parameters it reads, those it drops when malformed     *)
(* (lenient) and the keys its detail routes take; a service by the         *)
(* statements of its list and its detail call.                             *)
(***************************************************************************)

(* eventConditions, eventOrdering, List and Count of the event repository. *)
EventQueryBug_NoTieBreaker ==
  [filters |-> {"sport", "league", "date", "date_from", "date_to", "status",
                "season_year", "season_type", "team", "search"},
   typed |-> {"date", "date_from", "date_to"}, broken |-> {}, skips |-> {},
   columns |-> {"date", "created_at"}, tie |-> FALSE, active |-> FALSE]

EventQuery ==
  [filters |-> {"sport", "league", "date", "date_from", "date_to", "status",
                "season_year", "season_type", "team", "search"},
   typed |-> {"date", "date_from", "date_to"}, broken |-> {}, skips |-> {},
   columns |-> {"date", "created_at"}, tie |-> TRUE, active |-> FALSE]

(* "is_active" narrows a list that is restricted to active teams already, so
   is_active=false, here the parameter "inactive", asks for nothing. *)
TeamQuery ==
  [filters |-> {"sport", "league", "is_active", "inactive", "abbreviation", "search"},
   typed |-> {}, broken |-> {}, skips |-> {},
   columns |-> {"display_name", "abbreviation", "created_at"},
   tie |-> TRUE, active |-> TRUE]

(* "n.published::date >= :date_from": sqlx reads "::" as an escaped colon, and
   the statement it prepares is not SQL. *)
NewsQuery ==
  [filters |-> {"sport", "league", "date_from", "search"},
   typed |-> {}, broken |-> {"date_from"}, skips |-> {},
   columns |-> {"published", "created_at"}, tie |-> FALSE, active |-> FALSE]

InjuryQuery ==
  [filters |-> {"sport", "league", "status", "team", "search"},
   typed |-> {}, broken |-> {}, skips |-> {},
   columns |-> {"updated_at", "athlete_name"}, tie |-> FALSE, active |-> FALSE]

TransactionQuery ==
  [filters |-> {"sport", "league", "date_from", "search"},
   typed |-> {"date_from"}, broken |-> {}, skips |-> {},
   columns |-> {"date", "created_at"}, tie |-> FALSE, active |-> FALSE]

(* A season that is not all digits is left out by the repository. *)
AthleteStatsQuery ==
  [filters |-> {"sport", "league", "season", "athlete_espn_id", "search"},
   typed |-> {"season"}, broken |-> {}, skips |-> {"season"},
   columns |-> {"season_year", "athlete_name"}, tie |-> FALSE, active |-> FALSE]

SportQuery ==
  [filters |-> {}, typed |-> {}, broken |-> {}, skips |-> {},
   columns |-> {}, tie |-> FALSE, active |-> FALSE]

LeagueQuery ==
  [filters |-> {"sport"}, typed |-> {}, broken |-> {}, skips |-> {},
   columns |-> {}, tie |-> FALSE, active |-> FALSE]

NHLTeamQuery ==
  [filters |-> {"search"}, typed |-> {}, broken |-> {}, skips |-> {},
   columns |-> {"name", "abbreviation"}, tie |-> TRUE, active |-> TRUE]

NHLPlayerQuery ==
  [filters |-> {"search"}, typed |-> {}, broken |-> {}, skips |-> {},
   columns |-> {"last_name", "first_name", "sweater_number"},
   tie |-> TRUE, active |-> TRUE]

NHLGameQuery ==
  [filters |-> {"season", "game_type", "status"},
   typed |-> {}, broken |-> {}, skips |-> {},
   columns |-> {"date"}, tie |-> TRUE, active |-> FALSE]

NHLStandingQuery ==
  [filters |-> {"date"}, typed |-> {"date"}, broken |-> {}, skips |-> {},
   columns |-> {"date", "points", "point_pct"}, tie |-> TRUE, active |-> FALSE]

SkaterStatsQuery ==
  [filters |-> {"season"}, typed |-> {}, broken |-> {}, skips |-> {},
   columns |-> {"points", "goals", "assists", "plus_minus"},
   tie |-> TRUE, active |-> FALSE]

GoalieStatsQuery ==
  [filters |-> {"season"}, typed |-> {}, broken |-> {}, skips |-> {},
   columns |-> {"wins", "save_pct", "gaa", "shutouts"},
   tie |-> TRUE, active |-> FALSE]
-----------------------------------------------------------------------------
(* The handlers.  Every list also reads "page" and, unless its repository has
   no columns, "ordering". *)
EventHandler ==
  [params |-> {"sport", "league", "date", "date_from", "date_to", "status",
               "season_year", "season_type", "team", "search"},
   lenient |-> {"season_year", "season_type"}, keys |-> {"id", "espn_id"}]

TeamHandler ==
  [params |-> {"sport", "league", "is_active", "inactive", "abbreviation", "search"},
   lenient |-> {"is_active", "inactive"}, keys |-> {"id", "espn_id"}]

NewsHandler ==
  [params |-> {"sport", "league", "date_from", "search"},
   lenient |-> {}, keys |-> {"id"}]

InjuryHandler ==
  [params |-> {"sport", "league", "status", "team", "search"},
   lenient |-> {}, keys |-> {"id"}]

TransactionHandler ==
  [params |-> {"sport", "league", "date_from", "search"},
   lenient |-> {}, keys |-> {"id"}]

AthleteStatsHandler ==
  [params |-> {"sport", "league", "season", "athlete_espn_id", "search"},
   lenient |-> {}, keys |-> {"id"}]

SportHandler  == [params |-> {}, lenient |-> {}, keys |-> {"slug"}]

LeagueHandler == [params |-> {"sport"}, lenient |-> {}, keys |-> {"id"}]

NHLTeamHandler == [params |-> {"search"}, lenient |-> {}, keys |-> {"id"}]

NHLPlayerHandler == [params |-> {"search"}, lenient |-> {}, keys |-> {"id"}]

NHLGameHandler ==
  [params |-> {"season", "game_type", "status"}, lenient |-> {"game_type"},
   keys |-> {"id"}]

NHLStandingHandler == [params |-> {"date"}, lenient |-> {}, keys |-> {"id"}]

SkaterStatsHandler == [params |-> {"season"}, lenient |-> {}, keys |-> {"id"}]

GoalieStatsHandler == [params |-> {"season"}, lenient |-> {}, keys |-> {"id"}]
-----------------------------------------------------------------------------
(* The services: each name is one statement on the read pool, in its order. *)
EventService ==
  [list |-> <<"count", "list", "competitors">>, get |-> <<"get", "competitors">>]

TeamService         == [list |-> <<"count", "list">>, get |-> <<"get">>]

NewsService         == [list |-> <<"count", "list">>, get |-> <<"get">>]

InjuryService       == [list |-> <<"count", "list">>, get |-> <<"get">>]

TransactionService  == [list |-> <<"count", "list">>, get |-> <<"get">>]

AthleteStatsService == [list |-> <<"count", "list">>, get |-> <<"get">>]

SportService        == [list |-> <<"count", "list">>, get |-> <<"get">>]

LeagueService       == [list |-> <<"count", "list">>, get |-> <<"get">>]

NHLTeamService      == [list |-> <<"count", "list">>, get |-> <<"get">>]

NHLPlayerService ==
  [list |-> <<"count", "list", "teams">>, get |-> <<"get", "teams">>]

NHLGameService ==
  [list |-> <<"count", "list", "teams">>, get |-> <<"get", "teams">>]

NHLStandingService ==
  [list |-> <<"count", "list", "teams">>, get |-> <<"get", "teams">>]

(* PlayersByIDs is two statements: the players, then the teams of those found. *)
SkaterStatsService ==
  [list |-> <<"count", "list", "players", "teams">>, get |-> <<"get", "players", "teams">>]

GoalieStatsService ==
  [list |-> <<"count", "list", "players", "teams">>, get |-> <<"get", "players", "teams">>]
-----------------------------------------------------------------------------
(* The routes of the API, and what is behind each. *)
Repository ==
  [events |-> EventQuery, teams |-> TeamQuery, news |-> NewsQuery,
   injuries |-> InjuryQuery, transactions |-> TransactionQuery,
   athlete_stats |-> AthleteStatsQuery, sports |-> SportQuery,
   leagues |-> LeagueQuery, nhl_teams |-> NHLTeamQuery,
   nhl_players |-> NHLPlayerQuery, nhl_games |-> NHLGameQuery,
   nhl_standings |-> NHLStandingQuery, skater_stats |-> SkaterStatsQuery,
   goalie_stats |-> GoalieStatsQuery]

Handler ==
  [events |-> EventHandler, teams |-> TeamHandler, news |-> NewsHandler,
   injuries |-> InjuryHandler, transactions |-> TransactionHandler,
   athlete_stats |-> AthleteStatsHandler, sports |-> SportHandler,
   leagues |-> LeagueHandler, nhl_teams |-> NHLTeamHandler,
   nhl_players |-> NHLPlayerHandler, nhl_games |-> NHLGameHandler,
   nhl_standings |-> NHLStandingHandler, skater_stats |-> SkaterStatsHandler,
   goalie_stats |-> GoalieStatsHandler]

Service ==
  [events |-> EventService, teams |-> TeamService, news |-> NewsService,
   injuries |-> InjuryService, transactions |-> TransactionService,
   athlete_stats |-> AthleteStatsService, sports |-> SportService,
   leagues |-> LeagueService, nhl_teams |-> NHLTeamService,
   nhl_players |-> NHLPlayerService, nhl_games |-> NHLGameService,
   nhl_standings |-> NHLStandingService, skater_stats |-> SkaterStatsService,
   goalie_stats |-> GoalieStatsService]

Routes == DOMAIN Repository
=============================================================================
