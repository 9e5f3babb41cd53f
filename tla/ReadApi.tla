------------------------------- MODULE ReadApi -------------------------------
(***************************************************************************)
(* A client of the read API walks the pages of one list by their `next'    *)
(* links and then opens one row, while others commit changes.              *)
(*                                                                         *)
(* A request is a sequence of statements on the read pool, each with the   *)
(* snapshot of its own moment: there is no transaction around them.        *)
(***************************************************************************)
EXTENDS Integers, FiniteSets, Sequences, ReadResources

CONSTANTS
  Ids,        \* primary keys of the listed table
  Teams, Players,  \* rows of nhl_teams and nhl_players other rows refer to
  NoRow, NoTeam,   \* an unused key, a player without a team
  Column,     \* Column[i]: row i in the column ?ordering names
  Tables,     \* contents the listed table may start with
  Queries,    \* list requests the client may start with
  PageSize,   \* DefaultPageSize
  MaxInt,     \* largest value of Go's int
  MaxShared,  \* bound on the rows that share an ESPN id
  MaxWrites   \* bound on the changes others commit

(* What the rows of a route refer to: the ids its response is hydrated by. *)
PlayerRefs   == {{}} \cup {{t} : t \in Teams}

GameRefs     == {{t, u} : t, u \in Teams}

StandingRefs == {{t} : t \in Teams}

SkaterRefs   == {{p} : p \in Players}

GoalieRefs   == {{p} : p \in Players}

Refs ==
  [x \in Routes |->
     CASE x = "nhl_players" -> PlayerRefs [] x = "nhl_games" -> GameRefs
       [] x = "nhl_standings" -> StandingRefs [] x = "skater_stats" -> SkaterRefs
       [] x = "goalie_stats" -> GoalieRefs [] OTHER -> {{}}]

Params == UNION {Repository[x].filters : x \in Routes}

(* The values of Go's int. *)
GoInt == (0 - MaxInt - 1)..MaxInt

(* key: the row under the route's own ORDER BY; sat: the given parameters it
   satisfies; ver: how often it, and what is written with it, has changed. *)
Row == [key : Nat, active : BOOLEAN, sat : SUBSET Params,
        refs : UNION {Refs[x] : x \in Routes}, ver : Nat]

Query == [route : Routes, given : SUBSET Params, junk : SUBSET Params,
          ordering : {"", "column", "-column", "unknown"}, page : GoInt]

ASSUME ReadAssumption ==
  /\ Ids \subseteq Nat /\ IsFiniteSet(Ids)
  /\ NoRow \notin Row \cup Teams \cup {NoTeam} /\ NoTeam \notin Teams
  /\ Teams \cap Players = {}
  /\ Column \in [Ids -> Nat]
  /\ Tables \subseteq [Ids -> Row \cup {NoRow}]
  /\ Queries \subseteq Query
  /\ PageSize \in Nat \ {0} /\ MaxInt \in Nat \ {0}
  /\ Cardinality(Ids) + PageSize <= MaxInt
  /\ MaxShared \in Nat /\ MaxWrites \in Nat

VARIABLES
  rows,       \* the listed table
  teams,      \* teams[t]: "absent", "active" or "inactive"
  players,    \* players[p]: its team, NoTeam, or NoRow if it does not exist
  writes,     \* changes committed since the walk began
  query,      \* the list request the walk began with
  ask,        \* "list" or "get"
  wanted,     \* keys a detail request is about
  page,       \* page of the list request
  steps,      \* statements the request has yet to run
  total,      \* what Count returned
  found,      \* rows List or Get returned: their ids, with the rows
  comps,      \* competitors hydrated: event ids, with their versions
  teamMap, playerMap,  \* teams and players (with their teams) hydrated
  answer,     \* status code and next page, 0 for none
  walked      \* ids shown by the pages of the walk

dbVars  == <<rows, teams, players, writes>>
reqVars == <<query, ask, wanted, page, walked>>
gotVars == <<total, found, comps, teamMap, playerMap>>
vars == <<dbVars, reqVars, gotVars, steps, answer>>

Route == query.route
Repo  == Repository[Route]
-----------------------------------------------------------------------------
(* Go's int wraps; ParsePage takes what is below 1 for 1. *)
Wrap(n) == ((n + MaxInt + 1) % (2 * (MaxInt + 1))) - (MaxInt + 1)

ParsePageBug_Unchecked(n) == n

ParsePage(n) == IF n < 1 THEN 1 ELSE n

(* The parameters that reach the SQL, and the malformed ones among them. *)
Passed == ((query.given \cup (query.junk \ Handler[Route].lenient))
             \cap Handler[Route].params \cap Repo.filters)
          \ (query.junk \cap Repo.skips)

SqlBroken == Passed \cap (Repo.broken \cup (query.junk \cap Repo.typed)) # {}

(* The rows a statement of the list sees now. *)
MatchesBug_Inactive(i) ==
  /\ rows[i] # NoRow
  /\ "is_active" \in Passed => rows[i].active
  /\ "inactive" \in Passed => ~rows[i].active
  /\ Passed \ {"is_active", "inactive"} \subseteq rows[i].sat

Matches(i) ==
  /\ rows[i] # NoRow
  /\ Repo.active => rows[i].active
  /\ "is_active" \in Passed => rows[i].active
  /\ "inactive" \in Passed => ~rows[i].active
  /\ Passed \ {"is_active", "inactive"} \subseteq rows[i].sat

Matching == {i \in Ids : Matches(i)}

(* ResolveOrdering: a whitelisted column, either way, or the route's own order. *)
Rank(i) ==
  CASE query.ordering = "column" /\ Repo.columns # {} -> Column[i]
    [] query.ordering = "-column" /\ Repo.columns # {} -> 0 - Column[i]
    [] OTHER -> rows[i].key

Before(i, j) == Rank(i) < Rank(j) \/ (Rank(i) = Rank(j) /\ (Repo.tie => i < j))

(* The orders PostgreSQL may return the matching rows in, chosen anew by each
   statement where ORDER BY leaves them open. *)
Orders ==
  {s \in [1..Cardinality(Matching) -> Matching] :
     \A m, n \in DOMAIN s : m < n => s[m] # s[n] /\ Before(s[m], s[n])}

Shown(i) == [id |-> i, row |-> rows[i]]

(* LIMIT pageSize OFFSET (page - 1) * pageSize *)
Page(s) ==
  LET offset == Wrap(Wrap(page - 1) * PageSize)
  IN  [n \in {m \in 1..PageSize : offset + m <= Len(s)} |-> Shown(s[offset + n])]

NextPageBug_Same ==
  IF Wrap(page * PageSize) >= total THEN 0 ELSE page

(* DRFList: the next page, 0 for null. *)
NextPage == IF Wrap(page * PageSize) >= total THEN 0 ELSE ParsePage(Wrap(page + 1))

FoundIds == {found[n].id : n \in DOMAIN found}
FoundRefs == UNION {found[n].row.refs : n \in DOMAIN found}

PlayerTeams == {p[2] : p \in playerMap} \ {NoTeam}

HasPlayers == "players" \in {Service[Route].get[n] : n \in DOMAIN Service[Route].get}

(* The ids a hydrating statement asks for; without any it is not run. *)
Asked(step) ==
  CASE step = "competitors" -> FoundIds
    [] step = "players" -> FoundRefs
    [] step = "teams" -> IF HasPlayers THEN PlayerTeams ELSE FoundRefs
    [] OTHER -> {}

Runs(step) == step \in {"count", "list", "get"} \/ Asked(step) # {}
-----------------------------------------------------------------------------
(* Foreign keys: what a row refers to is there. *)
Exists(r) == \A x \in r : IF x \in Teams THEN teams[x] # "absent" ELSE players[x] # NoRow

(* Whether the route's rows refer to any of X; what they never refer to is kept
   as it is. *)
Uses(X) == UNION Refs[Route] \cap X # {}

NoAnswer == [code |-> 0, next |-> 0]

(* What a request starts from. *)
Fresh(newSteps) ==
  /\ steps' = newSteps
  /\ total' = 0 /\ found' = <<>> /\ comps' = {} /\ teamMap' = {} /\ playerMap' = {}
  /\ answer' = NoAnswer

Init ==
  /\ rows \in Tables
  /\ query \in Queries
  /\ teams \in [Teams -> {"absent", "active", "inactive"}]
  /\ players \in [Players -> Teams \cup {NoTeam, NoRow}]
  /\ \A p \in Players : players[p] \in Teams => teams[players[p]] # "absent"
  /\ Uses(Teams \cup Players) \/ teams = [t \in Teams |-> "active"]
  /\ Uses(Players) \/ players = [p \in Players |-> NoTeam]
  /\ \A i \in Ids : rows[i] # NoRow => rows[i].refs \in Refs[Route] /\ Exists(rows[i].refs)
  /\ writes = 0
  /\ ask = "list" /\ wanted = {} /\ walked = <<>>
  /\ page = ParsePage(query.page)
  /\ steps = Service[Route].list
  /\ total = 0 /\ found = <<>> /\ comps = {} /\ teamMap = {} /\ playerMap = {}
  /\ answer = NoAnswer

Step(name) ==
  /\ steps # <<>> /\ Head(steps) = name
  /\ steps' = Tail(steps)
  /\ UNCHANGED <<dbVars, reqVars, answer>>

(* repo.Count *)
Count ==
  /\ Step("count") /\ ~SqlBroken
  /\ total' = Cardinality(Matching)
  /\ UNCHANGED <<found, comps, teamMap, playerMap>>

(* repo.List; PostgreSQL refuses a negative OFFSET. *)
List ==
  /\ Step("list") /\ ~SqlBroken
  /\ Wrap(Wrap(page - 1) * PageSize) >= 0
  /\ \E s \in Orders : found' = Page(s)
  /\ UNCHANGED <<total, comps, teamMap, playerMap>>

(* The rows a detail statement sees: by key, or the first by the route's order
   among those that share an ESPN id. *)
Candidates == {i \in wanted : rows[i] # NoRow /\ (Repo.active => rows[i].active)}

Get ==
  /\ Step("get")
  /\ \E i \in Candidates :
       /\ \A j \in Candidates : rows[i].key <= rows[j].key
       /\ found' = <<Shown(i)>>
  /\ UNCHANGED <<total, comps, teamMap, playerMap>>

(* sql.ErrNoRows: the service returns nil and the handler answers 404. *)
NotFound ==
  /\ steps # <<>> /\ Head(steps) = "get"
  /\ Candidates = {}
  /\ steps' = <<>>
  /\ answer' = [NoAnswer EXCEPT !.code = 404]
  /\ UNCHANGED <<dbVars, reqVars, gotVars>>

(* CompetitorsByEventIDs and GroupCompetitors: the competitors of an event are
   committed with it, so they have its version. *)
Competitors ==
  /\ Step("competitors")
  /\ comps' = {[id |-> i, ver |-> rows[i].ver] : i \in {j \in Asked("competitors") : rows[j] # NoRow}}
  /\ UNCHANGED <<total, found, teamMap, playerMap>>

(* TeamsByIDs and TeamMap: by key, whether or not the team is active. *)
TeamsByIDsBug_OnlyActive ==
  /\ Step("teams")
  /\ teamMap' = {t \in Asked("teams") : teams[t] = "active"}
  /\ UNCHANGED <<total, found, comps, playerMap>>

TeamsByIDs ==
  /\ Step("teams")
  /\ teamMap' = {t \in Asked("teams") : teams[t] # "absent"}
  /\ UNCHANGED <<total, found, comps, playerMap>>

(* First half of PlayersByIDs. *)
PlayersByIDs ==
  /\ Step("players")
  /\ playerMap' = {<<p, players[p]>> : p \in {r \in Asked("players") : players[r] # NoRow}}
  /\ UNCHANGED <<total, found, comps, teamMap>>

(* InternalErrorWithKey, for the statement the request is at. *)
ServerError ==
  /\ steps' = <<>>
  /\ answer' = [NoAnswer EXCEPT !.code = 500]
  /\ UNCHANGED <<dbVars, reqVars, gotVars>>

(* The statement cannot be prepared, or PostgreSQL rejects its arguments. *)
Rejected ==
  /\ steps # <<>>
  /\ \/ Head(steps) \in {"count", "list"} /\ SqlBroken
     \/ Head(steps) = "list" /\ Wrap(Wrap(page - 1) * PageSize) < 0
  /\ ServerError

(* The statement fails for reasons of its own, or the request's context ends. *)
DatabaseFails ==
  /\ steps # <<>> /\ Runs(Head(steps))
  /\ ServerError

(* DRFList and DRFObject. *)
Answer ==
  /\ steps = <<>> /\ answer = NoAnswer
  /\ IF ask = "list"
     THEN /\ answer' = [code |-> 200, next |-> NextPage]
          /\ walked' = walked \o [n \in DOMAIN found |-> found[n].id]
     ELSE /\ answer' = [code |-> 200, next |-> 0]
          /\ UNCHANGED walked
  /\ UNCHANGED <<dbVars, gotVars, query, ask, wanted, page, steps>>

(* The client follows `next'. *)
Follow ==
  /\ ask = "list" /\ answer.code = 200 /\ answer.next # 0
  /\ page' = answer.next
  /\ Fresh(Service[Route].list)
  /\ UNCHANGED <<dbVars, query, ask, wanted, walked>>

(* The walk is over; the client opens the row with a key, or the rows that
   have one ESPN id. *)
Open(W) ==
  /\ ask = "list" /\ answer.code = 200 /\ answer.next = 0
  /\ W # {} /\ Cardinality(W) <= (IF "espn_id" \in Handler[Route].keys THEN MaxShared ELSE 1)
  /\ ask' = "get" /\ wanted' = W
  /\ Fresh(Service[Route].get)
  /\ UNCHANGED <<dbVars, query, page, walked>>

(* ParseInt rejects the key in the path: 404 without a statement. *)
OpenMalformed ==
  /\ ask = "list" /\ answer.code = 200 /\ answer.next = 0
  /\ "id" \in Handler[Route].keys
  /\ ask' = "get" /\ wanted' = {}
  /\ steps' = <<>>
  /\ answer' = [NoAnswer EXCEPT !.code = 404]
  /\ UNCHANGED <<dbVars, gotVars, query, page, walked>>
-----------------------------------------------------------------------------
(* What others commit.  A row changes together with what is written with it,
   its foreign keys exist, and nothing but an injury is ever deleted. *)
Write == writes < MaxWrites /\ writes' = writes + 1

RowChoices ==
  [key : {0, 1}, active : IF Repo.active THEN BOOLEAN ELSE {TRUE},
   sat : SUBSET (Passed \ {"is_active", "inactive"}), refs : Refs[Route], ver : {0}]

WriteRow(i) ==
  /\ Write
  /\ \E r \in RowChoices :
       /\ Exists(r.refs)
       /\ rows' = [rows EXCEPT ![i] = [r EXCEPT !.ver = IF rows[i] = NoRow THEN 0
                                                        ELSE rows[i].ver + 1]]
  /\ UNCHANGED <<teams, players>>

DeleteRow(i) ==
  /\ Write /\ Route = "injuries"
  /\ rows' = [rows EXCEPT ![i] = NoRow]
  /\ UNCHANGED <<teams, players>>

WriteTeam(t, state) ==
  /\ Write /\ Uses(Teams \cup Players) /\ teams[t] # state
  /\ teams' = [teams EXCEPT ![t] = state]
  /\ UNCHANGED <<rows, players>>

WritePlayer(p, t) ==
  /\ Write /\ Uses(Players) /\ players[p] # t
  /\ t # NoTeam => teams[t] # "absent"
  /\ players' = [players EXCEPT ![p] = t]
  /\ UNCHANGED <<rows, teams>>

Others ==
  /\ \/ \E i \in Ids : WriteRow(i) \/ DeleteRow(i)
     \/ \E t \in Teams, s \in {"active", "inactive"} : WriteTeam(t, s)
     \/ \E p \in Players, t \in Teams \cup {NoTeam} : WritePlayer(p, t)
  /\ UNCHANGED <<reqVars, gotVars, steps, answer>>

Serve ==
  \/ Count \/ List \/ Get \/ NotFound \/ Competitors \/ TeamsByIDs \/ PlayersByIDs
  \/ Rejected \/ Answer

Next ==
  \/ Serve \/ DatabaseFails \/ Follow \/ OpenMalformed
  \/ \E W \in SUBSET Ids : Open(W)
  \/ Others

Spec == Init /\ [][Next]_vars

(* The server runs the statements of a request one after the other, and the
   client follows the links it is given. *)
FairSpec == Spec /\ WF_vars(Serve) /\ WF_vars(Follow)
-----------------------------------------------------------------------------
TypeOK ==
  /\ rows \in [Ids -> Row \cup {NoRow}]
  /\ teams \in [Teams -> {"absent", "active", "inactive"}]
  /\ players \in [Players -> Teams \cup {NoTeam, NoRow}]
  /\ writes \in 0..MaxWrites
  /\ query \in Query
  /\ ask \in {"list", "get"} /\ wanted \in SUBSET Ids
  /\ page \in 1..MaxInt
  /\ steps \in Seq({"count", "list", "get", "competitors", "teams", "players"})
  /\ total \in Nat
  /\ found \in Seq([id : Ids, row : Row])
  /\ comps \subseteq [id : Ids, ver : Nat]
  /\ teamMap \subseteq Teams /\ playerMap \subseteq Players \X (Teams \cup {NoTeam})
  /\ answer \in [code : {0, 200, 404, 500}, next : 0..MaxInt]
  /\ walked \in Seq(Ids)

(* Routes whose responses name teams, and players with their teams. *)
TeamRoutes   == {"nhl_players", "nhl_games", "nhl_standings"}

PlayerRoutes == {"skater_stats", "goalie_stats"}

(* What a request has yet to run: one statement finds rows, the later ones
   hydrate what it found. *)
EventSteps  == {<<"count", "list", "competitors">>, <<"list", "competitors">>,
                <<"get", "competitors">>, <<"competitors">>, <<>>}

TeamSteps   == {<<"count", "list", "teams">>, <<"list", "teams">>, <<"get", "teams">>,
                <<"teams">>, <<>>}

PlayerSteps == {<<"count", "list", "players", "teams">>, <<"list", "players", "teams">>,
                <<"get", "players", "teams">>, <<"players", "teams">>, <<"teams">>, <<>>}

PlainSteps  == {<<"count", "list">>, <<"list">>, <<"get">>, <<>>}

StepsFit ==
  /\ Route = "events" => steps \in EventSteps
  /\ Route \in TeamRoutes => steps \in TeamSteps
  /\ Route \in PlayerRoutes => steps \in PlayerSteps
  /\ Route \notin {"events"} \cup TeamRoutes \cup PlayerRoutes => steps \in PlainSteps
  /\ steps # <<>> => /\ answer = NoAnswer
                     /\ Head(steps) \in {"count", "list"} => ask = "list"
                     /\ Head(steps) = "get" => ask = "get"

(* A row refers to what is there, and what is there stays. *)
Referable(r) == r \in Refs[Route] /\ Exists(r)

RowsFit ==
  /\ \A i \in Ids : rows[i] # NoRow => Referable(rows[i].refs)
  /\ \A p \in Players : players[p] \in Teams => teams[players[p]] # "absent"

FoundFits ==
  \A n \in DOMAIN found :
    /\ Referable(found[n].row.refs)
    /\ Route = "events" => /\ rows[found[n].id] # NoRow
                           /\ rows[found[n].id].ver >= found[n].row.ver

(* What the hydrating statements have added so far. *)
CompsFit ==
  \A n \in DOMAIN found : \E c \in comps : c.id = found[n].id /\ c.ver >= found[n].row.ver

PlayersFit ==
  /\ \A e \in playerMap : e[2] # NoTeam => teams[e[2]] # "absent"
  /\ \A n \in DOMAIN found : \A p \in found[n].row.refs :
       \E t \in Teams \cup {NoTeam} : <<p, t>> \in playerMap

PartsFit ==
  /\ Route = "events" /\ steps = <<>> => CompsFit
  /\ Route \in TeamRoutes /\ steps = <<>> =>
       \A n \in DOMAIN found : found[n].row.refs \subseteq teamMap
  /\ Route \in PlayerRoutes /\ steps \in {<<"teams">>, <<>>} => PlayersFit
  /\ Route \in PlayerRoutes /\ steps = <<>> => \A e \in playerMap : e[2] \in teamMap \cup {NoTeam}

HydrationInv ==
  /\ StepsFit /\ RowsFit /\ FoundFits
  /\ answer.code \in {0, 200} => PartsFit

(* While nobody writes, what was listed can still be opened. *)
Openable(i) == rows[i] # NoRow /\ (Repo.active => rows[i].active)

ListedInv ==
  writes = 0 => /\ \A n \in DOMAIN walked : Openable(walked[n])
                /\ \A n \in DOMAIN found : Openable(found[n].id)

(* Whatever is committed between the statements of a request, what it answers
   fits together: each event has the competitors of one moment, not older than
   the game shown, and nothing a row refers to is missing from the response. *)
HydrationFits ==
  answer.code = 200 =>
    \A n \in DOMAIN found :
      /\ Route = "events" =>
           \E c \in comps : c.id = found[n].id /\ c.ver >= found[n].row.ver
      /\ Route \in {"nhl_players", "nhl_games", "nhl_standings"} =>
           found[n].row.refs \subseteq teamMap
      /\ Route \in {"skater_stats", "goalie_stats"} =>
           \A p \in found[n].row.refs :
             \E t \in teamMap \cup {NoTeam} : <<p, t>> \in playerMap

(* The lists whose ORDER BY ends with the primary key; the others may repeat a
   row on one page and leave another out, when sort keys are equal. *)
StableRoutes == {"events", "teams", "nhl_teams", "nhl_players", "nhl_games",
                 "nhl_standings", "skater_stats", "goalie_stats"}

WalkOver == ask = "list" /\ answer.code # 0 /\ (answer.code = 200 => answer.next = 0)

(* A walk from the first page over a table nobody changes shows as many rows as
   the list has, and, where the order is total, each of them once and in order. *)
WalkShowsEachOnce ==
  WalkOver /\ answer.code = 200 /\ writes = 0 /\ query.page <= 1 =>
    /\ Len(walked) = Cardinality(Matching)
    /\ Route \in StableRoutes \/ Cardinality(Orders) = 1 =>
         \A m, n \in DOMAIN walked :
           m < n => /\ walked[m] # walked[n]
                    /\ Rank(walked[m]) <= Rank(walked[n])

(* How far a walk over a table nobody changes has come. *)
Offset == (page - 1) * PageSize

Counted == steps = <<>> \/ Head(steps) # "count"

Listed == steps = <<>> \/ Head(steps) \notin {"count", "list"}

OneOrder == \A s, u \in Orders : s = u

LastPage == Offset + PageSize >= Cardinality(Matching)

Walking == ask = "list" /\ writes = 0 /\ query.page <= 1 /\ answer.code \in {0, 200}

WalkFits ==
  /\ page = 1 \/ Offset < Cardinality(Matching)
  /\ Counted => total = Cardinality(Matching)
  /\ answer.code = 0 => /\ Len(walked) = Offset
                        /\ Listed => \E s \in Orders : found = Page(s)
  /\ answer.code = 200 =>
       /\ answer.next = (IF LastPage THEN 0 ELSE page + 1)
       /\ Len(walked) = (IF LastPage THEN Cardinality(Matching) ELSE Offset + PageSize)
  /\ OneOrder => walked = <<>> \/ \E s \in Orders : \A n \in DOMAIN walked : walked[n] = s[n]

WalkInv == Walking => WalkFits

(* A row that was listed can be opened: the detail routes show what the list
   routes show. *)
ListedIsFound ==
  ask = "get" /\ wanted # {} /\ writes = 0 /\ (\E n \in DOMAIN walked : walked[n] \in wanted) =>
    answer.code # 404

(* Every walk ends, also one that starts beyond the last page, where the
   arithmetic of pages overflows. *)
EveryWalkEnds == <>(WalkOver \/ ask = "get")
=============================================================================
