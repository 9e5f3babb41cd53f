--------------------------- MODULE IngestServices ----------------------------
(***************************************************************************)
(* The ingests that upsert a feed row by row, one by one: what happens     *)
(* before the rows, and how a repository writes one.  UpsertSync gives     *)
(* them meaning.                                                           *)
(*                                                                         *)
(* A repository's write is described by                                    *)
(*   constrained  whether a unique constraint backs it (ON CONFLICT), or   *)
(*                it looks for the row first,                              *)
(*   perLeague    whether the league is part of the row's key;             *)
(* a service by the write of its repository and                            *)
(*   resolves     whether it locks sport and league first,                 *)
(*   inside       whether it fetches inside its transaction,               *)
(*   deactivates  whether it turns every row off before it upserts,        *)
(*   refers       whether an entry names a team, without which it is       *)
(*                skipped, and the row is another one.                     *)
(* All of them do nothing for an empty feed, skip entries they cannot      *)
(* parse, and end at the first statement that fails.                       *)
(***************************************************************************)

(* (league_id, espn_id) *)
TeamUpsert        == [constrained |-> TRUE, perLeague |-> TRUE]

(* espn_id: an article is one row, whichever leagues carry it. *)
NewsUpsert        == [constrained |-> TRUE, perLeague |-> FALSE]

(* UpsertByESPNTx: by (league_id, espn_id), which is not unique. *)
TransactionUpsert == [constrained |-> FALSE, perLeague |-> TRUE]

(* (league_id, athlete_espn_id, season_year, season_type) *)
StatsUpsert       == [constrained |-> TRUE, perLeague |-> TRUE]

(* team_id, player_id and (team_id, date) *)
NHLTeamUpsert     == [constrained |-> TRUE, perLeague |-> FALSE]

NHLPlayerUpsert   == [constrained |-> TRUE, perLeague |-> FALSE]

NHLStandingUpsert == [constrained |-> TRUE, perLeague |-> FALSE]
-----------------------------------------------------------------------------
IngestTeams ==
  [write |-> TeamUpsert, resolves |-> TRUE, inside |-> TRUE,
   deactivates |-> FALSE, refers |-> FALSE]

IngestNews ==
  [write |-> NewsUpsert, resolves |-> TRUE, inside |-> TRUE,
   deactivates |-> FALSE, refers |-> FALSE]

(* A team that is not there leaves the transaction without one. *)
IngestTransactions ==
  [write |-> TransactionUpsert, resolves |-> TRUE, inside |-> TRUE,
   deactivates |-> FALSE, refers |-> FALSE]

(* One row, for the athlete it is called for. *)
IngestAthleteStats ==
  [write |-> StatsUpsert, resolves |-> TRUE, inside |-> TRUE,
   deactivates |-> FALSE, refers |-> FALSE]

SyncTeams ==
  [write |-> NHLTeamUpsert, resolves |-> FALSE, inside |-> TRUE,
   deactivates |-> TRUE, refers |-> FALSE]

SyncStandings ==
  [write |-> NHLStandingUpsert, resolves |-> FALSE, inside |-> TRUE,
   deactivates |-> FALSE, refers |-> TRUE]

(* One team's part of SyncRosters. *)
SyncTeamRoster ==
  [write |-> NHLPlayerUpsert, resolves |-> FALSE, inside |-> FALSE,
   deactivates |-> FALSE, refers |-> FALSE]

Service ==
  [teams |-> IngestTeams, news |-> IngestNews, transactions |-> IngestTransactions,
   stats |-> IngestAthleteStats, nhl_teams |-> SyncTeams,
   nhl_standings |-> SyncStandings, nhl_roster |-> SyncTeamRoster]

Kinds == DOMAIN Service
=============================================================================
