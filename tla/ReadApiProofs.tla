---------------------------- MODULE ReadApiProofs ----------------------------
(***************************************************************************)
(* Proofs about ReadApi, for every table, list request, page size and int, *)
(* and every number of changes others commit.                              *)
(***************************************************************************)
EXTENDS ReadApi, FiniteSetTheorems, TLAPS

(* The routes by name. *)
LEMMA RouteNames ==
  Routes = {"events", "teams", "news", "injuries", "transactions", "athlete_stats",
            "sports", "leagues", "nhl_teams", "nhl_players", "nhl_games",
            "nhl_standings", "skater_stats", "goalie_stats"}
  BY DEF Routes, Repository

(* The statements of each service, by what its responses name. *)
LEMMA ServiceSteps ==
  ASSUME NEW x \in Routes
  PROVE  /\ x = "events" => Service[x] = EventService
         /\ x \in TeamRoutes =>
              /\ Service[x].list = <<"count", "list", "teams">>
              /\ Service[x].get = <<"get", "teams">>
         /\ x \in PlayerRoutes =>
              /\ Service[x].list = <<"count", "list", "players", "teams">>
              /\ Service[x].get = <<"get", "players", "teams">>
         /\ x \notin {"events"} \cup TeamRoutes \cup PlayerRoutes =>
              /\ Service[x].list = <<"count", "list">>
              /\ Service[x].get = <<"get">>
<1>1. CASE x = "events"
  BY <1>1 DEF Service, TeamRoutes, PlayerRoutes
<1>2. CASE x \in TeamRoutes
  BY <1>2 DEF Service, TeamRoutes, PlayerRoutes, NHLPlayerService, NHLGameService,
     NHLStandingService
<1>3. CASE x \in PlayerRoutes
  BY <1>3 DEF Service, TeamRoutes, PlayerRoutes, SkaterStatsService, GoalieStatsService
<1>4. CASE x \in {"teams", "news", "injuries", "transactions", "athlete_stats",
                  "sports", "leagues", "nhl_teams"}
  <2>1. Service[x] \in {TeamService, NewsService, InjuryService, TransactionService,
          AthleteStatsService, SportService, LeagueService, NHLTeamService}
    BY <1>4 DEF Service
  <2>2. Service[x] = [list |-> <<"count", "list">>, get |-> <<"get">>]
    BY <2>1 DEF TeamService, NewsService, InjuryService, TransactionService,
       AthleteStatsService, SportService, LeagueService, NHLTeamService
  <2>3. x \notin {"events"} \cup TeamRoutes \cup PlayerRoutes
    BY <1>4 DEF TeamRoutes, PlayerRoutes
  <2>4. QED
    BY <2>2, <2>3 DEF TeamRoutes, PlayerRoutes
<1>5. QED
  BY <1>1, <1>2, <1>3, <1>4, RouteNames DEF TeamRoutes, PlayerRoutes

(* What the rows of a route refer to. *)
LEMMA RefsOf ==
  ASSUME NEW x \in Routes
  PROVE  /\ Refs[x] \subseteq SUBSET (Teams \cup Players)
         /\ x \in TeamRoutes => Refs[x] \subseteq SUBSET Teams
         /\ x \in PlayerRoutes => Refs[x] \subseteq SUBSET Players
         /\ x = "injuries" => Refs[x] = {{}}
<1>1. x = "nhl_players" => Refs[x] = PlayerRefs
  BY ZenonT(30) DEF Refs
<1>2. x = "nhl_games" => Refs[x] = GameRefs
  BY ZenonT(30) DEF Refs
<1>3. x = "nhl_standings" => Refs[x] = StandingRefs
  BY ZenonT(30) DEF Refs
<1>4. x = "skater_stats" => Refs[x] = SkaterRefs
  BY ZenonT(30) DEF Refs
<1>5. x = "goalie_stats" => Refs[x] = GoalieRefs
  BY ZenonT(30) DEF Refs
<1>6. x \notin TeamRoutes \cup PlayerRoutes => Refs[x] = {{}}
  <2>1. SUFFICES ASSUME x \notin TeamRoutes \cup PlayerRoutes PROVE Refs[x] = {{}}
    OBVIOUS
  <2>2. /\ x # "nhl_players" /\ x # "nhl_games" /\ x # "nhl_standings"
        /\ x # "skater_stats" /\ x # "goalie_stats"
    BY <2>1 DEF TeamRoutes, PlayerRoutes
  <2>3. QED
    BY <2>2, ZenonT(30) DEF Refs
<1>7. PlayerRefs \subseteq SUBSET Teams
  BY DEF PlayerRefs
<1>8. GameRefs \subseteq SUBSET Teams
  BY DEF GameRefs
<1>9. StandingRefs \subseteq SUBSET Teams
  BY DEF StandingRefs
<1>10. SkaterRefs \subseteq SUBSET Players /\ GoalieRefs \subseteq SUBSET Players
  BY DEF SkaterRefs, GoalieRefs
<1>11. QED
  BY <1>1, <1>2, <1>3, <1>4, <1>5, <1>6, <1>7, <1>8, <1>9, <1>10 DEF TeamRoutes, PlayerRoutes

(* The lists whose order is total. *)
LEMMA StableRoutesTie ==
  ASSUME NEW x \in StableRoutes
  PROVE  x \in Routes /\ Repository[x].tie = TRUE
<1>1. x \in Routes
  BY RouteNames DEF StableRoutes
<1>2. Repository[x] \in {EventQuery, TeamQuery, NHLTeamQuery, NHLPlayerQuery, NHLGameQuery,
         NHLStandingQuery, SkaterStatsQuery, GoalieStatsQuery}
  BY DEF StableRoutes, Repository
<1>3. QED
  BY <1>1, <1>2 DEF EventQuery, TeamQuery, NHLTeamQuery, NHLPlayerQuery, NHLGameQuery,
     NHLStandingQuery, SkaterStatsQuery, GoalieStatsQuery

(* Arithmetic on pages: Wrap stays among the ints and keeps what is one. *)
LEMMA Remainder ==
  ASSUME NEW a \in Int, NEW b \in Nat \ {0}
  PROVE  a % b \in 0..(b - 1)
  OBVIOUS

LEMMA SmallRemainder ==
  ASSUME NEW b \in Nat \ {0}, NEW a \in 0..(b - 1)
  PROVE  a % b = a
  OBVIOUS

LEMMA WrapIsInt ==
  ASSUME NEW n \in Int
  PROVE  Wrap(n) \in GoInt
<1>1. MaxInt \in Nat \ {0}
  BY ReadAssumption
<1>2. /\ n + MaxInt + 1 \in Int
      /\ 2 * (MaxInt + 1) \in Nat \ {0}
  BY <1>1
<1>3. (n + MaxInt + 1) % (2 * (MaxInt + 1)) \in 0..(2 * (MaxInt + 1) - 1)
  BY <1>2, Remainder
<1>4. QED
  BY <1>1, <1>3 DEF Wrap, GoInt

LEMMA WrapKeeps ==
  ASSUME NEW n \in GoInt
  PROVE  Wrap(n) = n
<1>1. MaxInt \in Nat \ {0}
  BY ReadAssumption
<1>2. /\ n + MaxInt + 1 \in 0..(2 * (MaxInt + 1) - 1)
      /\ 2 * (MaxInt + 1) \in Nat \ {0}
  BY <1>1 DEF GoInt
<1>3. (n + MaxInt + 1) % (2 * (MaxInt + 1)) = n + MaxInt + 1
  BY <1>2, SmallRemainder
<1>4. QED
  BY <1>1, <1>3 DEF Wrap, GoInt

(* DRFList gives no page, or one that ParsePage could have read. *)
LEMMA ParsePageType ==
  ASSUME NEW n \in GoInt
  PROVE  ParsePage(n) \in 1..MaxInt
  BY ReadAssumption DEF ParsePage, GoInt

Names == {"count", "list", "get", "competitors", "teams", "players"}

(* The statements that find rows come before those that hydrate them. *)
FindsFirst(s) ==
  /\ s \in Seq(Names)
  /\ s # <<>> =>
       /\ Head(s) \in Names
       /\ Head(s) = "count" => Tail(s) # <<>> /\ Head(Tail(s)) = "list"
       /\ Head(s) # "count" => Tail(s) = <<>> \/ Head(Tail(s)) \in {"competitors", "teams", "players"}

EventShape(s) ==
  /\ FindsFirst(s)
  /\ s # <<>> => /\ Tail(s) \in EventSteps
                 /\ Head(s) \notin {"players", "teams"}
                 /\ Head(s) \in {"count", "list", "get"} => Tail(s) # <<>>

LEMMA EventOrder ==
  ASSUME NEW s \in EventSteps
  PROVE  EventShape(s)
<1> DEFINE a3 == <<"count", "list", "competitors">>
           a2 == <<"list", "competitors">>
           g2 == <<"get", "competitors">>
           a1 == <<"competitors">>
<1>1. /\ a3 \in Seq(Names) /\ a3 # <<>> /\ Head(a3) = "count" /\ Tail(a3) = a2
      /\ a2 \in Seq(Names) /\ a2 # <<>> /\ Head(a2) = "list" /\ Tail(a2) = a1
      /\ g2 \in Seq(Names) /\ g2 # <<>> /\ Head(g2) = "get" /\ Tail(g2) = a1
      /\ a1 \in Seq(Names) /\ a1 # <<>> /\ Head(a1) = "competitors" /\ Tail(a1) = <<>>
      /\ <<>> \in Seq(Names)
  <2>1. "count" \in Names /\ "list" \in Names /\ "get" \in Names /\ "competitors" \in Names
    BY DEF Names
  <2>2. a3 \in Seq(Names) /\ a3 # <<>> /\ Head(a3) = "count" /\ Tail(a3) = a2
    BY <2>1
  <2>3. a2 \in Seq(Names) /\ a2 # <<>> /\ Head(a2) = "list" /\ Tail(a2) = a1
    BY <2>1
  <2>4. g2 \in Seq(Names) /\ g2 # <<>> /\ Head(g2) = "get" /\ Tail(g2) = a1
    BY <2>1
  <2>5. a1 \in Seq(Names) /\ a1 # <<>> /\ Head(a1) = "competitors" /\ Tail(a1) = <<>>
    BY <2>1
  <2>6. <<>> \in Seq(Names)
    BY <2>1
  <2>7. QED
    BY <2>2, <2>3, <2>4, <2>5, <2>6, Zenon
<1>2. EventSteps = {a3, a2, g2, a1, <<>>}
  BY DEF EventSteps
<1> HIDE DEF a3, a2, g2, a1
<1>3. QED
  BY <1>1, <1>2 DEF FindsFirst, Names, EventShape

TeamShape(s) ==
  /\ FindsFirst(s)
  /\ s # <<>> => /\ Tail(s) \in TeamSteps
                 /\ Head(s) \notin {"players", "competitors"}
                 /\ Head(s) = "teams" => Tail(s) = <<>>
                 /\ Head(s) \in {"count", "list", "get"} => Tail(s) # <<>>

LEMMA TeamOrder ==
  ASSUME NEW s \in TeamSteps
  PROVE  TeamShape(s)
<1> DEFINE a3 == <<"count", "list", "teams">>
           a2 == <<"list", "teams">>
           g2 == <<"get", "teams">>
           a1 == <<"teams">>
<1>1. /\ a3 \in Seq(Names) /\ a3 # <<>> /\ Head(a3) = "count" /\ Tail(a3) = a2
      /\ a2 \in Seq(Names) /\ a2 # <<>> /\ Head(a2) = "list" /\ Tail(a2) = a1
      /\ g2 \in Seq(Names) /\ g2 # <<>> /\ Head(g2) = "get" /\ Tail(g2) = a1
      /\ a1 \in Seq(Names) /\ a1 # <<>> /\ Head(a1) = "teams" /\ Tail(a1) = <<>>
      /\ <<>> \in Seq(Names)
  <2>1. "count" \in Names /\ "list" \in Names /\ "get" \in Names /\ "teams" \in Names
    BY DEF Names
  <2>2. a3 \in Seq(Names) /\ a3 # <<>> /\ Head(a3) = "count" /\ Tail(a3) = a2
    BY <2>1
  <2>3. a2 \in Seq(Names) /\ a2 # <<>> /\ Head(a2) = "list" /\ Tail(a2) = a1
    BY <2>1
  <2>4. g2 \in Seq(Names) /\ g2 # <<>> /\ Head(g2) = "get" /\ Tail(g2) = a1
    BY <2>1
  <2>5. a1 \in Seq(Names) /\ a1 # <<>> /\ Head(a1) = "teams" /\ Tail(a1) = <<>>
    BY <2>1
  <2>6. <<>> \in Seq(Names)
    BY <2>1
  <2>7. QED
    BY <2>2, <2>3, <2>4, <2>5, <2>6, Zenon
<1>2. TeamSteps = {a3, a2, g2, a1, <<>>}
  BY DEF TeamSteps
<1> HIDE DEF a3, a2, g2, a1
<1>3. QED
  BY <1>1, <1>2 DEF FindsFirst, Names, TeamShape

PlayerShape(s) ==
  /\ FindsFirst(s)
  /\ s # <<>> => /\ Tail(s) \in PlayerSteps
                 /\ Head(s) # "competitors"
                 /\ Head(s) = "players" => Tail(s) = <<"teams">>
                 /\ Head(s) = "teams" => s = <<"teams">> /\ Tail(s) = <<>>
                 /\ Head(s) \in {"count", "list", "get"} => Tail(s) \notin {<<>>, <<"teams">>}

LEMMA PlayerOrder ==
  ASSUME NEW s \in PlayerSteps
  PROVE  PlayerShape(s)
<1> DEFINE a4 == <<"count", "list", "players", "teams">>
           a3 == <<"list", "players", "teams">>
           g3 == <<"get", "players", "teams">>
           a2 == <<"players", "teams">>
           a1 == <<"teams">>
<1>1. /\ a4 \in Seq(Names) /\ a4 # <<>> /\ Head(a4) = "count" /\ Tail(a4) = a3
      /\ a3 \in Seq(Names) /\ a3 # <<>> /\ Head(a3) = "list" /\ Tail(a3) = a2
      /\ g3 \in Seq(Names) /\ g3 # <<>> /\ Head(g3) = "get" /\ Tail(g3) = a2
      /\ a2 \in Seq(Names) /\ a2 # <<>> /\ Head(a2) = "players" /\ Tail(a2) = a1
      /\ a1 \in Seq(Names) /\ a1 # <<>> /\ Head(a1) = "teams" /\ Tail(a1) = <<>>
      /\ <<>> \in Seq(Names)
  <2>1. /\ "count" \in Names /\ "list" \in Names /\ "get" \in Names /\ "teams" \in Names
        /\ "players" \in Names
    BY DEF Names
  <2>2. a4 \in Seq(Names) /\ a4 # <<>> /\ Head(a4) = "count" /\ Tail(a4) = a3
    BY <2>1
  <2>3. a3 \in Seq(Names) /\ a3 # <<>> /\ Head(a3) = "list" /\ Tail(a3) = a2
    BY <2>1
  <2>4. g3 \in Seq(Names) /\ g3 # <<>> /\ Head(g3) = "get" /\ Tail(g3) = a2
    BY <2>1
  <2>5. a2 \in Seq(Names) /\ a2 # <<>> /\ Head(a2) = "players" /\ Tail(a2) = a1
    BY <2>1
  <2>6. a1 \in Seq(Names) /\ a1 # <<>> /\ Head(a1) = "teams" /\ Tail(a1) = <<>>
    BY <2>1
  <2>7. <<>> \in Seq(Names)
    BY <2>1
  <2>8. QED
    BY <2>2, <2>3, <2>4, <2>5, <2>6, <2>7, Zenon
<1>2. PlayerSteps = {a4, a3, g3, a2, a1, <<>>}
  BY DEF PlayerSteps
<1> HIDE DEF a4, a3, g3, a2, a1
<1>3. /\ FindsFirst(s)
      /\ s # <<>> => /\ Tail(s) \in PlayerSteps
                     /\ Head(s) # "competitors"
                     /\ Head(s) = "players" => Tail(s) = a1
                     /\ Head(s) = "teams" => s = a1 /\ Tail(s) = <<>>
                     /\ Head(s) \in {"count", "list", "get"} => Tail(s) \notin {<<>>, a1}
  BY <1>1, <1>2 DEF FindsFirst, Names
<1>4. QED
  BY <1>3 DEF a1, PlayerShape

PlainShape(s) ==
  /\ FindsFirst(s)
  /\ s # <<>> => /\ Tail(s) \in PlainSteps
                 /\ Head(s) \in {"count", "list", "get"}

LEMMA PlainOrder ==
  ASSUME NEW s \in PlainSteps
  PROVE  PlainShape(s)
<1> DEFINE a2 == <<"count", "list">>
           a1 == <<"list">>
           g1 == <<"get">>
<1>1. /\ a2 \in Seq(Names) /\ a2 # <<>> /\ Head(a2) = "count" /\ Tail(a2) = a1
      /\ a1 \in Seq(Names) /\ a1 # <<>> /\ Head(a1) = "list" /\ Tail(a1) = <<>>
      /\ g1 \in Seq(Names) /\ g1 # <<>> /\ Head(g1) = "get" /\ Tail(g1) = <<>>
      /\ <<>> \in Seq(Names)
  <2>1. "count" \in Names /\ "list" \in Names /\ "get" \in Names
    BY DEF Names
  <2>2. a2 \in Seq(Names) /\ a2 # <<>> /\ Head(a2) = "count" /\ Tail(a2) = a1
    BY <2>1
  <2>3. a1 \in Seq(Names) /\ a1 # <<>> /\ Head(a1) = "list" /\ Tail(a1) = <<>>
    BY <2>1
  <2>4. g1 \in Seq(Names) /\ g1 # <<>> /\ Head(g1) = "get" /\ Tail(g1) = <<>>
    BY <2>1
  <2>5. <<>> \in Seq(Names)
    BY <2>1
  <2>6. QED
    BY <2>2, <2>3, <2>4, <2>5, Zenon
<1>2. PlainSteps = {a2, a1, g1, <<>>}
  BY DEF PlainSteps
<1> HIDE DEF a2, a1, g1
<1>3. QED
  BY <1>1, <1>2 DEF FindsFirst, Names, PlainShape

(* What is left of a request, whatever its route. *)
LEMMA StepOrder ==
  ASSUME StepsFit
  PROVE  /\ FindsFirst(steps)
         /\ steps # <<>> =>
              /\ answer = NoAnswer
              /\ Head(steps) = "competitors" => Route = "events"
              /\ Head(steps) = "players" => Route \in PlayerRoutes /\ Tail(steps) = <<"teams">>
              /\ Head(steps) = "teams" =>
                   /\ Tail(steps) = <<>>
                   /\ Route \in TeamRoutes \/ (Route \in PlayerRoutes /\ steps = <<"teams">>)
              /\ Head(steps) \in {"count", "list", "get"} =>
                   /\ Route = "events" => Tail(steps) # <<>>
                   /\ Route \in TeamRoutes => Tail(steps) # <<>>
                   /\ Route \in PlayerRoutes => Tail(steps) \notin {<<>>, <<"teams">>}
<1>0. steps # <<>> => answer = NoAnswer
  BY DEF StepsFit
<1>1. CASE Route = "events"
  <2>1. Route \notin TeamRoutes /\ Route \notin PlayerRoutes
    BY <1>1 DEF PlayerRoutes, TeamRoutes
  <2>2. EventShape(steps)
    BY <1>1, EventOrder DEF StepsFit
  <2>3. QED
    BY <1>0, <1>1, <2>1, <2>2 DEF EventShape
<1>2. CASE Route \in TeamRoutes
  <2>1. Route # "events" /\ Route \notin PlayerRoutes
    BY <1>2 DEF PlayerRoutes, TeamRoutes
  <2>2. TeamShape(steps)
    BY <1>2, TeamOrder DEF StepsFit
  <2>3. QED
    BY <1>0, <1>2, <2>1, <2>2 DEF TeamShape
<1>3. CASE Route \in PlayerRoutes
  <2>1. Route # "events" /\ Route \notin TeamRoutes
    BY <1>3 DEF PlayerRoutes, TeamRoutes
  <2>2. PlayerShape(steps)
    BY <1>3, PlayerOrder DEF StepsFit
  <2>3. QED
    BY <1>0, <1>3, <2>1, <2>2 DEF PlayerShape
<1>4. CASE Route \notin {"events"} \cup TeamRoutes \cup PlayerRoutes
  BY <1>0, <1>4, PlainOrder DEF StepsFit, PlainShape
<1>5. QED
  BY <1>1, <1>2, <1>3, <1>4

(* A statement leaves a list of statements the request may have before it. *)
LEMMA StepsShorten ==
  ASSUME StepsFit, NEW name, Step(name)
  PROVE  StepsFit'
<1>1. /\ steps # <<>> /\ steps' = Tail(steps) /\ Route' = Route
      /\ answer' = answer /\ ask' = ask /\ answer = NoAnswer /\ NoAnswer' = NoAnswer
  BY DEF Step, reqVars, Route, StepsFit, NoAnswer
<1>2. steps' # <<>> => /\ Head(steps') \in {"count", "list"} => ask = "list"
                       /\ Head(steps') = "get" => ask = "get"
  <2>1. /\ Head(steps) = "count" => Head(Tail(steps)) = "list"
        /\ Head(steps) # "count" =>
             Tail(steps) = <<>> \/ Head(Tail(steps)) \in {"competitors", "teams", "players"}
    BY <1>1, StepOrder DEF FindsFirst
  <2>2. Head(steps) = "count" => ask = "list"
    BY <1>1 DEF StepsFit
  <2>3. QED
    BY <1>1, <2>1, <2>2
<1>3. /\ steps \in EventSteps => Tail(steps) \in EventSteps
      /\ steps \in TeamSteps => Tail(steps) \in TeamSteps
      /\ steps \in PlayerSteps => Tail(steps) \in PlayerSteps
      /\ steps \in PlainSteps => Tail(steps) \in PlainSteps
  <2>1. steps \in EventSteps => Tail(steps) \in EventSteps
    BY <1>1, EventOrder DEF EventShape
  <2>2. steps \in TeamSteps => Tail(steps) \in TeamSteps
    BY <1>1, TeamOrder DEF TeamShape
  <2>3. steps \in PlayerSteps => Tail(steps) \in PlayerSteps
    BY <1>1, PlayerOrder DEF PlayerShape
  <2>4. steps \in PlainSteps => Tail(steps) \in PlainSteps
    BY <1>1, PlainOrder DEF PlainShape
  <2>5. QED
    BY <2>1, <2>2, <2>3, <2>4
<1>4. /\ EventSteps' = EventSteps /\ TeamSteps' = TeamSteps
      /\ PlayerSteps' = PlayerSteps /\ PlainSteps' = PlainSteps
      /\ TeamRoutes' = TeamRoutes /\ PlayerRoutes' = PlayerRoutes
  OBVIOUS
<1>5. QED
  BY <1>1, <1>2, <1>3, <1>4 DEF StepsFit

(* A request that has failed or found nothing has nothing left to run. *)
LEMMA StepsEnd ==
  ASSUME StepsFit, steps' = <<>>, query' = query
  PROVE  StepsFit'
<1>1. Route' = Route
  BY DEF Route
<1>2. <<>> \in EventSteps /\ <<>> \in TeamSteps /\ <<>> \in PlayerSteps /\ <<>> \in PlainSteps
  BY DEF EventSteps, TeamSteps, PlayerSteps, PlainSteps
<1>3. QED
  BY <1>1, <1>2 DEF StepsFit

(* A new request starts with the statements of its service. *)
LEMMA ListSteps ==
  ASSUME query \in Query
  PROVE  LET S == Service[Route].list
         IN  /\ FindsFirst(S) /\ S # <<>> /\ Head(S) = "count"
             /\ Route = "events" => S \in EventSteps \ {<<>>}
             /\ Route \in TeamRoutes => S \in TeamSteps \ {<<>>}
             /\ Route \in PlayerRoutes => S \in PlayerSteps \ {<<>>, <<"teams">>}
             /\ Route \notin {"events"} \cup TeamRoutes \cup PlayerRoutes => S \in PlainSteps
<1>1. Route \in Routes
  BY DEF Route, Query
<1>2. CASE Route = "events"
  BY <1>1, <1>2, ServiceSteps, EventOrder DEF EventShape, EventService, TeamRoutes, PlayerRoutes, EventSteps
<1>3. CASE Route \in TeamRoutes
  BY <1>1, <1>3, ServiceSteps, TeamOrder DEF TeamShape, TeamRoutes, PlayerRoutes, TeamSteps
<1>4. CASE Route \in PlayerRoutes
  BY <1>1, <1>4, ServiceSteps, PlayerOrder DEF PlayerShape, TeamRoutes, PlayerRoutes, PlayerSteps
<1>5. CASE Route \notin {"events"} \cup TeamRoutes \cup PlayerRoutes
  BY <1>1, <1>5, ServiceSteps, PlainOrder DEF PlainShape, PlainSteps
<1>6. QED
  BY <1>2, <1>3, <1>4, <1>5

LEMMA GetSteps ==
  ASSUME query \in Query
  PROVE  LET S == Service[Route].get
         IN  /\ FindsFirst(S) /\ S # <<>> /\ Head(S) = "get"
             /\ Route = "events" => S \in EventSteps \ {<<>>}
             /\ Route \in TeamRoutes => S = <<"get", "teams">> /\ S \in TeamSteps \ {<<>>}
             /\ Route \in PlayerRoutes => /\ S = <<"get", "players", "teams">>
                                          /\ S \in PlayerSteps \ {<<>>, <<"teams">>}
             /\ Route \notin {"events"} \cup TeamRoutes \cup PlayerRoutes => S \in PlainSteps
<1>1. Route \in Routes
  BY DEF Route, Query
<1>2. CASE Route = "events"
  BY <1>1, <1>2, ServiceSteps, EventOrder DEF EventShape, EventService, TeamRoutes, PlayerRoutes, EventSteps
<1>3. CASE Route \in TeamRoutes
  BY <1>1, <1>3, ServiceSteps, TeamOrder DEF TeamShape, TeamRoutes, PlayerRoutes, TeamSteps
<1>4. CASE Route \in PlayerRoutes
  BY <1>1, <1>4, ServiceSteps, PlayerOrder DEF PlayerShape, TeamRoutes, PlayerRoutes, PlayerSteps
<1>5. CASE Route \notin {"events"} \cup TeamRoutes \cup PlayerRoutes
  BY <1>1, <1>5, ServiceSteps, PlainOrder DEF PlainShape, PlainSteps
<1>6. QED
  BY <1>2, <1>3, <1>4, <1>5

(* The ids the hydrating statements ask for. *)
LEMMA AskedIds ==
  ASSUME query \in Query
  PROVE  /\ Asked("competitors") = FoundIds
         /\ Asked("players") = FoundRefs
         /\ Route \in TeamRoutes => Asked("teams") = FoundRefs
         /\ Route \in PlayerRoutes => Asked("teams") = PlayerTeams
<1>1. Asked("competitors") = FoundIds
  BY ZenonT(30) DEF Asked
<1>2. Asked("players") = FoundRefs
  BY ZenonT(30) DEF Asked
<1> DEFINE S == Service[Route].get
<1>3. Asked("teams") = IF HasPlayers THEN PlayerTeams ELSE FoundRefs
  BY ZenonT(30) DEF Asked
<1>5. ASSUME Route \in TeamRoutes PROVE ~HasPlayers
  <2>2. S = <<"get", "teams">>
    BY <1>5, GetSteps
  <2>3. QED
    BY <2>2 DEF HasPlayers
<1>6. ASSUME Route \in PlayerRoutes PROVE HasPlayers
  <2>2. S = <<"get", "players", "teams">>
    BY <1>6, GetSteps
  <2>3. S[2] = "players" /\ 2 \in DOMAIN S
    BY <2>2
  <2>4. QED
    BY <2>3 DEF HasPlayers
<1>7. QED
  BY <1>1, <1>2, <1>3, <1>5, <1>6

(* What reaches the SQL are parameters of the API. *)
LEMMA PassedParams ==
  ASSUME query \in Query
  PROVE  Passed \subseteq Params /\ Route \in Routes
<1>1. Route \in Routes
  BY DEF Query, Route
<1>2. Repo.filters \subseteq Params
  BY <1>1 DEF Repo, Params
<1>3. QED
  BY <1>1, <1>2 DEF Passed

LEMMA MatchingFinite ==
  /\ Matching \subseteq Ids /\ IsFiniteSet(Matching)
  /\ Cardinality(Matching) \in Nat /\ Cardinality(Ids) \in Nat
  /\ Cardinality(Matching) <= Cardinality(Ids)
<1>1. Matching \subseteq Ids /\ IsFiniteSet(Ids)
  BY ReadAssumption DEF Matching
<1>2. QED
  BY <1>1, FS_Subset, FS_CardinalityType

(* How many rows of a list of n there are on the page behind an offset. *)
PageLen(n, offset) ==
  IF offset >= n THEN 0 ELSE IF offset + PageSize <= n THEN PageSize ELSE n - offset

LEMMA PageShape ==
  ASSUME NEW s \in Orders, page \in 1..MaxInt,
         NEW offset \in Nat, offset = Wrap(Wrap(page - 1) * PageSize)
  PROVE  LET k == PageLen(Cardinality(Matching), offset)
         IN  /\ k \in Nat
             /\ offset + k <= Cardinality(Matching) \/ k = 0
             /\ DOMAIN Page(s) = 1..k
             /\ \A n \in 1..k : /\ offset + n \in 1..Cardinality(Matching)
                                /\ s[offset + n] \in Matching
                                /\ Page(s)[n] = Shown(s[offset + n])
<1> DEFINE c == Cardinality(Matching)
           k == PageLen(c, offset)
           d == {m \in 1..PageSize : offset + m <= Len(s)}
<1>1. c \in Nat /\ PageSize \in Nat \ {0}
  BY MatchingFinite, ReadAssumption
<1>2. s \in [1..c -> Matching]
  BY DEF Orders
<1>3. Len(s) = c
  BY <1>1, <1>2
<1>4. Page(s) = [n \in d |-> Shown(s[offset + n])]
  BY DEF Page
<1> HIDE DEF c
<1>5. k \in Nat /\ (offset + k <= c \/ k = 0)
  BY <1>1 DEF PageLen
<1>6. d = 1..k
  BY <1>1, <1>3 DEF PageLen
<1>7. \A n \in 1..k : offset + n \in 1..c
  BY <1>1 DEF PageLen
<1> HIDE DEF k, d
<1>8. /\ DOMAIN Page(s) = 1..k
      /\ \A n \in 1..k : /\ s[offset + n] \in Matching
                         /\ Page(s)[n] = Shown(s[offset + n])
  BY <1>2, <1>4, <1>6, <1>7
<1>9. QED
  BY <1>5, <1>7, <1>8 DEF k, c

LEMMA FunctionSeq ==
  ASSUME NEW S, NEW k \in Nat, NEW f \in [1..k -> S]
  PROVE  f \in Seq(S)
  OBVIOUS

(* A page is made of rows that match. *)
LEMMA PageRows ==
  ASSUME NEW s \in Orders, page \in 1..MaxInt,
         Wrap(Wrap(page - 1) * PageSize) >= 0, rows \in [Ids -> Row \cup {NoRow}]
  PROVE  /\ Page(s) \in Seq([id : Ids, row : Row])
         /\ \A n \in DOMAIN Page(s) : \E i \in Matching : Page(s)[n] = Shown(i)
<1> DEFINE offset == Wrap(Wrap(page - 1) * PageSize)
           k == PageLen(Cardinality(Matching), offset)
<1>1. offset \in Nat
  <2>1. page - 1 \in Int /\ PageSize \in Int /\ MaxInt \in Nat
    BY ReadAssumption
  <2>2. Wrap(page - 1) \in Int
    BY <2>1, WrapIsInt DEF GoInt
  <2>3. Wrap(page - 1) * PageSize \in Int
    BY <2>1, <2>2
  <2>4. offset \in Int
    BY <2>1, <2>3, WrapIsInt DEF GoInt
  <2>5. QED
    BY <2>4
<1>2. /\ k \in Nat /\ DOMAIN Page(s) = 1..k
      /\ \A n \in 1..k : s[offset + n] \in Matching /\ Page(s)[n] = Shown(s[offset + n])
  <2> HIDE DEF offset, k
  <2>1. offset = Wrap(Wrap(page - 1) * PageSize) /\ k = PageLen(Cardinality(Matching), offset)
    BY DEF offset, k
  <2>2. QED
    BY <1>1, <2>1, PageShape
<1> HIDE DEF offset, k
<1>3. \A n \in DOMAIN Page(s) : \E i \in Matching : Page(s)[n] = Shown(i)
  BY <1>2
<1>4. \A i \in Matching : Shown(i) \in [id : Ids, row : Row]
  <2> SUFFICES ASSUME NEW i \in Matching PROVE Shown(i) \in [id : Ids, row : Row]
    OBVIOUS
  <2>1. i \in Ids /\ rows[i] # NoRow
    BY DEF Matching, Matches
  <2>2. QED
    BY <2>1 DEF Shown
<1>5. \A n \in 1..k : Page(s)[n] \in [id : Ids, row : Row]
  BY <1>2, <1>4
<1>6. Page(s) = [n \in 1..k |-> Page(s)[n]]
  BY <1>2 DEF Page
<1>7. Page(s) \in [1..k -> [id : Ids, row : Row]]
  BY <1>5, <1>6
<1>8. Page(s) \in Seq([id : Ids, row : Row])
  BY <1>2, <1>7, FunctionSeq
<1>9. QED
  BY <1>3, <1>8

(* The next page, if there is one, is a page. *)
LEMMA NextPageType ==
  ASSUME page \in 1..MaxInt
  PROVE  NextPage \in 0..MaxInt
<1>1. page + 1 \in Int /\ MaxInt \in Nat
  BY ReadAssumption
<1>2. ParsePage(Wrap(page + 1)) \in 1..MaxInt
  BY <1>1, WrapIsInt, ParsePageType
<1>3. QED
  BY <1>1, <1>2 DEF NextPage

(* The tables, their contents and the request that is under way. *)
TablesOK ==
  /\ rows \in [Ids -> Row \cup {NoRow}]
  /\ teams \in [Teams -> {"absent", "active", "inactive"}]
  /\ players \in [Players -> Teams \cup {NoTeam, NoRow}]
  /\ writes \in 0..MaxWrites
  /\ query \in Query

(* What a step takes away from the tables: nothing but injuries, and no row
   becomes older. *)
NothingGoes ==
  /\ \A t \in Teams : teams[t] # "absent" => teams'[t] # "absent"
  /\ \A p \in Players : players[p] # NoRow => players'[p] # NoRow
  /\ Route # "injuries" =>
       \A i \in Ids : rows[i] # NoRow => rows'[i] # NoRow /\ rows'[i].ver >= rows[i].ver

(* Referable, of the tables after a step. *)
StillReferable(r) ==
  /\ r \in Refs[Route']
  /\ \A x \in r : IF x \in Teams THEN teams'[x] # "absent" ELSE players'[x] # NoRow

LEMMA StaysReferable ==
  ASSUME query \in Query, query' = query, NothingGoes
  PROVE  \A r : Referable(r) => StillReferable(r)
<1> SUFFICES ASSUME NEW r, Referable(r) PROVE StillReferable(r)
  OBVIOUS
<1>1. Route \in Routes /\ Route' = Route
  BY PassedParams DEF Route
<1>2. r \in Refs[Route] /\ r \subseteq Teams \cup Players
  BY <1>1, RefsOf DEF Referable
<1>3. QED
  BY <1>1, <1>2 DEF Exists, Referable, NothingGoes, StillReferable

LEMMA UnchangedTables ==
  ASSUME TablesOK, RowsFit, UNCHANGED <<dbVars, query>>
  PROVE  TablesOK' /\ RowsFit' /\ NothingGoes
<1>1. rows' = rows /\ teams' = teams /\ players' = players /\ writes' = writes /\ query' = query
  BY DEF dbVars
<1>2. TablesOK'
  BY <1>1 DEF TablesOK
<1>3. \A i \in Ids : rows[i] # NoRow => rows[i].ver \in Nat
  BY DEF TablesOK, Row
<1>4. NothingGoes
  BY <1>1, <1>3 DEF NothingGoes
<1>5. RowsFit'
  <2>1. \A i \in Ids : rows'[i] # NoRow => StillReferable(rows'[i].refs)
    BY <1>1, <1>4, StaysReferable DEF RowsFit, TablesOK
  <2>2. QED
    BY <1>1, <2>1 DEF RowsFit, Referable, Exists, StillReferable
<1>6. QED
  BY <1>2, <1>4, <1>5

LEMMA WriteRowFits ==
  ASSUME TablesOK, RowsFit, NEW i \in Ids, WriteRow(i), query' = query
  PROVE  TablesOK' /\ RowsFit' /\ NothingGoes
<1>1. PICK r \in RowChoices :
         /\ Exists(r.refs)
         /\ rows' = [rows EXCEPT ![i] = [r EXCEPT !.ver = IF rows[i] = NoRow THEN 0
                                                          ELSE rows[i].ver + 1]]
  BY DEF WriteRow
<1> DEFINE w == IF rows[i] = NoRow THEN 0 ELSE rows[i].ver + 1
           q == [r EXCEPT !.ver = w]
<1>2. /\ teams' = teams /\ players' = players /\ writes' = writes + 1 /\ writes < MaxWrites
      /\ Route' = Route /\ Route \in Routes /\ Passed \subseteq Params
  BY PassedParams DEF WriteRow, Write, Route, TablesOK
<1>3. \A j \in Ids : rows[j] # NoRow => rows[j].ver \in Nat
  BY DEF TablesOK, Row
<1>4. w \in Nat /\ (rows[i] # NoRow => w >= rows[i].ver)
  BY <1>3
<1> HIDE DEF w
<1>5. /\ r \in [key : Nat, active : BOOLEAN, sat : SUBSET Params, refs : Refs[Route], ver : Nat]
  <2>1. /\ r \in [key : {0, 1}, active : BOOLEAN, sat : SUBSET Passed, refs : Refs[Route], ver : {0}]
    BY DEF RowChoices
  <2>2. QED
    BY <2>1, <1>2
<1>6. /\ q \in Row /\ q # NoRow /\ q.refs = r.refs /\ q.ver = w
  <2>1. Refs[Route] \subseteq UNION {Refs[x] : x \in Routes}
    BY <1>2
  <2>2. q \in Row
    BY <1>4, <1>5, <2>1 DEF Row
  <2>3. QED
    BY <1>5, <2>2, ReadAssumption
<1> HIDE DEF q
<1>7. rows' = [rows EXCEPT ![i] = q]
  BY <1>1 DEF q, w
<1>8. TablesOK'
  <2>1. rows' \in [Ids -> Row \cup {NoRow}]
    BY <1>6, <1>7 DEF TablesOK
  <2>2. writes' \in 0..MaxWrites
    BY <1>2, ReadAssumption DEF TablesOK
  <2>3. QED
    BY <1>2, <2>1, <2>2 DEF TablesOK
<1>9. NothingGoes
  <2>1. \A j \in Ids : rows[j] # NoRow => rows'[j] # NoRow /\ rows'[j].ver >= rows[j].ver
    <3> SUFFICES ASSUME NEW j \in Ids, rows[j] # NoRow
                 PROVE  rows'[j] # NoRow /\ rows'[j].ver >= rows[j].ver
      OBVIOUS
    <3>1. CASE j = i
      BY <3>1, <1>4, <1>6, <1>7 DEF TablesOK
    <3>2. CASE j # i
      BY <3>2, <1>3, <1>7 DEF TablesOK
    <3>3. QED
      BY <3>1, <3>2
  <2>2. QED
    BY <1>2, <2>1 DEF NothingGoes
<1>10. RowsFit'
  <2>1. \A j \in Ids : rows'[j] # NoRow => StillReferable(rows'[j].refs)
    <3> SUFFICES ASSUME NEW j \in Ids, rows'[j] # NoRow PROVE StillReferable(rows'[j].refs)
      OBVIOUS
    <3>1. Referable(r.refs)
      BY <1>1, <1>5 DEF Referable
    <3>2. CASE j = i
      <4>1. rows'[j].refs = r.refs
        BY <3>2, <1>6, <1>7 DEF TablesOK
      <4>2. QED
        BY <4>1, <3>1, <1>9, StaysReferable DEF TablesOK
    <3>3. CASE j # i
      <4>1. rows'[j] = rows[j]
        BY <3>3, <1>7 DEF TablesOK
      <4>2. Referable(rows[j].refs)
        BY <4>1 DEF RowsFit
      <4>3. QED
        BY <4>1, <4>2, <1>9, StaysReferable DEF TablesOK
    <3>4. QED
      BY <3>2, <3>3
  <2>2. \A p \in Players : players'[p] \in Teams => teams'[players'[p]] # "absent"
    BY <1>2 DEF RowsFit
  <2>3. QED
    BY <2>1, <2>2 DEF RowsFit, Referable, Exists, StillReferable
<1>11. QED
  BY <1>8, <1>9, <1>10

LEMMA DeleteRowFits ==
  ASSUME TablesOK, RowsFit, NEW i \in Ids, DeleteRow(i), query' = query
  PROVE  TablesOK' /\ RowsFit' /\ NothingGoes
<1>1. /\ rows' = [rows EXCEPT ![i] = NoRow] /\ Route = "injuries" /\ Route' = Route
      /\ teams' = teams /\ players' = players /\ writes' = writes + 1 /\ writes < MaxWrites
  BY DEF DeleteRow, Write, Route
<1>2. TablesOK'
  <2>1. writes' \in 0..MaxWrites
    BY <1>1, ReadAssumption DEF TablesOK
  <2>2. QED
    BY <1>1, <2>1 DEF TablesOK
<1>3. NothingGoes
  BY <1>1 DEF NothingGoes
<1>4. RowsFit'
  <2>1. \A j \in Ids : rows'[j] # NoRow => rows'[j] = rows[j]
    BY <1>1 DEF TablesOK
  <2>2. \A j \in Ids : rows'[j] # NoRow => StillReferable(rows'[j].refs)
    BY <2>1, <1>3, StaysReferable DEF RowsFit, TablesOK
  <2>3. QED
    BY <1>1, <2>2 DEF RowsFit, Referable, Exists, StillReferable
<1>5. QED
  BY <1>2, <1>3, <1>4

LEMMA WriteTeamFits ==
  ASSUME TablesOK, RowsFit, NEW t \in Teams, NEW state \in {"active", "inactive"},
         WriteTeam(t, state), query' = query
  PROVE  TablesOK' /\ RowsFit' /\ NothingGoes
<1>1. /\ teams' = [teams EXCEPT ![t] = state] /\ Route' = Route
      /\ rows' = rows /\ players' = players /\ writes' = writes + 1 /\ writes < MaxWrites
  BY DEF WriteTeam, Write, Route
<1>2. TablesOK'
  <2>1. writes' \in 0..MaxWrites
    BY <1>1, ReadAssumption DEF TablesOK
  <2>2. QED
    BY <1>1, <2>1 DEF TablesOK
<1>3. NothingGoes
  <2>1. \A i \in Ids : rows[i] # NoRow => rows[i].ver \in Nat
    BY DEF TablesOK, Row
  <2>2. \A u \in Teams : teams[u] # "absent" => teams'[u] # "absent"
    BY <1>1 DEF TablesOK
  <2>3. QED
    BY <1>1, <2>1, <2>2 DEF NothingGoes
<1>4. RowsFit'
  <2>1. \A i \in Ids : rows'[i] # NoRow => StillReferable(rows'[i].refs)
    BY <1>1, <1>3, StaysReferable DEF RowsFit, TablesOK
  <2>2. \A p \in Players : players'[p] \in Teams => teams'[players'[p]] # "absent"
    BY <1>1, <1>3 DEF RowsFit, NothingGoes
  <2>3. QED
    BY <1>1, <2>1, <2>2 DEF RowsFit, Referable, Exists, StillReferable
<1>5. QED
  BY <1>2, <1>3, <1>4

LEMMA WritePlayerFits ==
  ASSUME TablesOK, RowsFit, NEW p \in Players, NEW t \in Teams \cup {NoTeam},
         WritePlayer(p, t), query' = query
  PROVE  TablesOK' /\ RowsFit' /\ NothingGoes
<1>1. /\ players' = [players EXCEPT ![p] = t] /\ (t # NoTeam => teams[t] # "absent")
      /\ Route' = Route
      /\ rows' = rows /\ teams' = teams /\ writes' = writes + 1 /\ writes < MaxWrites
  BY DEF WritePlayer, Write, Route
<1>2. TablesOK'
  <2>1. writes' \in 0..MaxWrites
    BY <1>1, ReadAssumption DEF TablesOK
  <2>2. QED
    BY <1>1, <2>1 DEF TablesOK
<1>3. NothingGoes
  <2>1. \A i \in Ids : rows[i] # NoRow => rows[i].ver \in Nat
    BY DEF TablesOK, Row
  <2>2. \A q \in Players : players[q] # NoRow => players'[q] # NoRow
    <3>1. t # NoRow
      BY ReadAssumption
    <3>2. QED
      BY <1>1, <3>1 DEF TablesOK
  <2>3. QED
    BY <1>1, <2>1, <2>2 DEF NothingGoes
<1>4. RowsFit'
  <2>1. \A i \in Ids : rows'[i] # NoRow => StillReferable(rows'[i].refs)
    BY <1>1, <1>3, StaysReferable DEF RowsFit, TablesOK
  <2>2. \A q \in Players : players'[q] \in Teams => teams'[players'[q]] # "absent"
    <3>1. NoTeam \notin Teams
      BY ReadAssumption
    <3>2. QED
      BY <1>1, <3>1 DEF RowsFit, TablesOK
  <2>3. QED
    BY <1>1, <2>1, <2>2 DEF RowsFit, Referable, Exists, StillReferable
<1>5. QED
  BY <1>2, <1>3, <1>4

(* Every step leaves tables whose references hold, and takes nothing away. *)
LEMMA TablesStay ==
  ASSUME TablesOK, RowsFit, [Next]_vars
  PROVE  TablesOK' /\ RowsFit' /\ NothingGoes
<1>1. CASE Others
  <2>1. query' = query
    BY <1>1 DEF Others, reqVars
  <2>2. ASSUME NEW i \in Ids, WriteRow(i) PROVE TablesOK' /\ RowsFit' /\ NothingGoes
    BY <2>1, <2>2, WriteRowFits
  <2>3. ASSUME NEW i \in Ids, DeleteRow(i) PROVE TablesOK' /\ RowsFit' /\ NothingGoes
    BY <2>1, <2>3, DeleteRowFits
  <2>4. ASSUME NEW t \in Teams, NEW s \in {"active", "inactive"}, WriteTeam(t, s)
        PROVE  TablesOK' /\ RowsFit' /\ NothingGoes
    BY <2>1, <2>4, WriteTeamFits
  <2>5. ASSUME NEW p \in Players, NEW t \in Teams \cup {NoTeam}, WritePlayer(p, t)
        PROVE  TablesOK' /\ RowsFit' /\ NothingGoes
    BY <2>1, <2>5, WritePlayerFits
  <2>6. QED
    BY <1>1, <2>2, <2>3, <2>4, <2>5 DEF Others
<1>2. CASE ~Others
  <2>1. UNCHANGED <<dbVars, query>>
    BY <1>2 DEF Next, Serve, Count, List, Get, NotFound, Competitors, TeamsByIDs, PlayersByIDs,
       Rejected, DatabaseFails, ServerError, Answer, Follow, Open, OpenMalformed, Step, vars,
       reqVars
  <2>2. QED
    BY <2>1, UnchangedTables
<1>3. QED
  BY <1>1, <1>2

(* What a request has gathered, and what the client has seen. *)
RequestOK ==
  /\ ask \in {"list", "get"} /\ wanted \in SUBSET Ids
  /\ page \in 1..MaxInt
  /\ total \in Nat
  /\ found \in Seq([id : Ids, row : Row])
  /\ comps \subseteq [id : Ids, ver : Nat]
  /\ teamMap \subseteq Teams /\ playerMap \subseteq Players \X (Teams \cup {NoTeam})
  /\ answer \in [code : {0, 200, 404, 500}, next : 0..MaxInt]
  /\ walked \in Seq(Ids)

RequestInv ==
  /\ RequestOK /\ StepsFit /\ FoundFits
  /\ answer.code \in {0, 200} => PartsFit

LEMMA TypesByParts == TypeOK <=> TablesOK /\ RequestOK /\ steps \in Seq(Names)
  BY DEF TypeOK, TablesOK, RequestOK, Names

LEMMA NoAnswerType == NoAnswer \in [code : {0, 200, 404, 500}, next : 0..MaxInt]
                      /\ NoAnswer.code = 0 /\ NoAnswer.next = 0
  BY ReadAssumption DEF NoAnswer

LEMMA SeqElement ==
  ASSUME NEW S, NEW s \in Seq(S), NEW n \in DOMAIN s
  PROVE  s[n] \in S
<1>1. DOMAIN s = 1..Len(s) /\ Len(s) \in Nat
  OBVIOUS
<1>2. QED
  BY <1>1

LEMMA FoundType ==
  ASSUME RequestOK, NEW n \in DOMAIN found
  PROVE  /\ found[n] \in [id : Ids, row : Row] /\ found[n].id \in Ids
         /\ found[n].row \in Row /\ found[n].row.ver \in Nat
<1>1. found \in Seq([id : Ids, row : Row])
  BY DEF RequestOK
<1>2. found[n] \in [id : Ids, row : Row]
  BY <1>1, SeqElement
<1>3. found[n].id \in Ids /\ found[n].row \in Row
  BY <1>2
<1>4. found[n].row.ver \in Nat
  BY <1>3 DEF Row
<1>5. QED
  BY <1>2, <1>3, <1>4

(* What was found is still fit for a response after other commits. *)
LEMMA FoundStays ==
  ASSUME TablesOK, TablesOK', RequestOK, FoundFits, NothingGoes, found' = found,
         query' = query
  PROVE  FoundFits'
<1>1. Route' = Route
  BY DEF Route
<1>2. \A n \in DOMAIN found : found[n].id \in Ids /\ found[n].row.ver \in Nat
  BY FoundType
<1>3. \A i \in Ids : rows'[i] # NoRow /\ rows[i] # NoRow /\ Route = "events" =>
        rows[i].ver \in Nat /\ rows'[i].ver >= rows[i].ver
  BY DEF TablesOK, Row, NothingGoes
<1>4. \A n \in DOMAIN found : StillReferable(found[n].row.refs)
  BY StaysReferable DEF FoundFits, TablesOK
<1>5. ASSUME NEW n \in DOMAIN found, Route = "events"
      PROVE  rows'[found[n].id] # NoRow /\ rows'[found[n].id].ver >= found[n].row.ver
  <2>1. rows[found[n].id] # NoRow /\ rows[found[n].id].ver >= found[n].row.ver
    BY <1>5 DEF FoundFits
  <2>2. rows'[found[n].id] # NoRow /\ rows'[found[n].id].ver >= rows[found[n].id].ver
    BY <1>2, <1>5, <2>1 DEF NothingGoes
  <2>3. rows[found[n].id].ver \in Nat
    BY <1>2, <2>1 DEF TablesOK, Row
  <2> DEFINE a == found[n].row.ver
             b == rows[found[n].id].ver
             c == rows'[found[n].id].ver
  <2>4. a \in Nat /\ b \in Nat
    BY <1>2, <2>3
  <2>5. b >= a /\ c >= b
    BY <2>1, <2>2
  <2>6. c \in Nat
    <3>1. rows'[found[n].id] \in Row
      BY <2>2, <1>2 DEF TablesOK
    <3>2. QED
      BY <3>1 DEF Row
  <2> HIDE DEF a, b, c
  <2>7. c >= a
    BY <2>4, <2>5, <2>6
  <2>8. QED
    BY <2>2, <2>7 DEF a, c
<1>6. QED
  BY <1>1, <1>4, <1>5 DEF FoundFits, Referable, Exists, StillReferable

(* What a request hydrated stays fit, too. *)
LEMMA PartsStay ==
  ASSUME TablesOK, RequestOK, NothingGoes, PartsFit, UNCHANGED <<gotVars, query, steps>>
  PROVE  PartsFit'
<1>1. /\ found' = found /\ comps' = comps /\ teamMap' = teamMap /\ playerMap' = playerMap
      /\ query' = query /\ Route' = Route /\ steps' = steps
  BY DEF gotVars, Route
<1>2. CompsFit => CompsFit'
  BY <1>1 DEF CompsFit
<1>3. PlayersFit => PlayersFit'
  <2>1. \A e \in playerMap : e[2] \in Teams \cup {NoTeam}
    BY DEF RequestOK
  <2>2. (\A e \in playerMap : e[2] # NoTeam => teams[e[2]] # "absent") =>
          \A e \in playerMap : e[2] # NoTeam => teams'[e[2]] # "absent"
    BY <2>1 DEF NothingGoes
  <2>3. QED
    BY <1>1, <2>2 DEF PlayersFit
<1>4. QED
  BY <1>1, <1>2, <1>3 DEF PartsFit, TeamRoutes, PlayerRoutes

(* A request that has found nothing yet has nothing to hydrate. *)
LEMMA NothingFound ==
  ASSUME found' = <<>>, playerMap' = {}
  PROVE  FoundFits' /\ PartsFit'
<1>1. DOMAIN found' = {}
  OBVIOUS
<1>2. FoundFits'
  BY <1>1 DEF FoundFits
<1>3. CompsFit' /\ PlayersFit'
  BY <1>1 DEF CompsFit, PlayersFit
<1>4. QED
  BY <1>1, <1>2, <1>3 DEF PartsFit

LEMMA InitFits ==
  ASSUME Init
  PROVE  TablesOK /\ RowsFit /\ RequestInv
<1>1. TablesOK
  BY ReadAssumption DEF Init, TablesOK
<1>2. RowsFit
  <2>1. Route \in Routes
    BY <1>1, PassedParams DEF TablesOK
  <2>2. \A i \in Ids : rows[i] # NoRow => rows[i].refs \in Refs[Route] /\ Exists(rows[i].refs)
    BY DEF Init
  <2>3. \A p \in Players : players[p] \in Teams => teams[players[p]] # "absent"
    BY DEF Init
  <2>4. QED
    BY <2>2, <2>3 DEF RowsFit, Referable
<1>3. RequestOK
  <2>1. page \in 1..MaxInt
    BY <1>1, ParsePageType DEF Init, TablesOK, Query
  <2>2. /\ found = <<>> /\ walked = <<>> /\ ask = "list" /\ wanted = {} /\ total = 0
        /\ comps = {} /\ teamMap = {} /\ playerMap = {} /\ answer = NoAnswer
    BY DEF Init
  <2>3. QED
    BY <2>1, <2>2, NoAnswerType DEF RequestOK
<1>4. StepsFit
  <2>1. /\ steps = Service[Route].list /\ answer = NoAnswer /\ ask = "list"
    BY DEF Init
  <2>2. QED
    BY <1>1, <2>1, ListSteps DEF StepsFit, TablesOK
<1>5. FoundFits /\ PartsFit
  <2>1. found = <<>> /\ playerMap = {}
    BY DEF Init
  <2>2. DOMAIN found = {}
    BY <2>1
  <2>3. QED
    BY <2>1, <2>2 DEF FoundFits, PartsFit, CompsFit, PlayersFit
<1>6. QED
  BY <1>1, <1>2, <1>3, <1>4, <1>5 DEF RequestInv

(* After a statement that finds rows, hydration is still to come. *)
LEMMA HydrationToCome ==
  ASSUME StepsFit, NEW name \in {"count", "list", "get"}, Step(name)
  PROVE  PartsFit'
<1>1. steps # <<>> /\ Head(steps) = name /\ steps' = Tail(steps) /\ Route' = Route
  BY DEF Step, reqVars, Route
<1>2. /\ Route = "events" => steps' # <<>>
      /\ Route \in TeamRoutes => steps' # <<>>
      /\ Route \in PlayerRoutes => steps' \notin {<<>>, <<"teams">>}
  BY <1>1, StepOrder
<1>3. PartsFit' <=> /\ Route' = "events" /\ steps' = <<>> => CompsFit'
                    /\ Route' \in TeamRoutes /\ steps' = <<>> =>
                         \A n \in DOMAIN found' : found'[n].row.refs \subseteq teamMap'
                    /\ Route' \in PlayerRoutes /\ steps' \in {<<"teams">>, <<>>} => PlayersFit'
                    /\ Route' \in PlayerRoutes /\ steps' = <<>> =>
                         \A e \in playerMap' : e[2] \in teamMap' \cup {NoTeam}
  BY DEF PartsFit, TeamRoutes, PlayerRoutes
<1>4. QED
  BY <1>1, <1>2, <1>3

LEMMA CountFits ==
  ASSUME TablesOK, RowsFit, RequestInv, NothingGoes, TablesOK', Count
  PROVE  RequestInv'
<1>1. /\ Step("count") /\ StepsFit /\ RequestOK /\ FoundFits /\ query' = query
      /\ found' = found /\ Route' = Route
  BY DEF Count, RequestInv, Step, reqVars, Route
<1>2. StepsFit'
  BY <1>1, StepsShorten
<1>3. RequestOK'
  <2>1. total' \in Nat
    BY MatchingFinite DEF Count
  <2>2. QED
    BY <1>1, <2>1 DEF Count, Step, reqVars, RequestOK
<1>4. FoundFits'
  BY <1>1, FoundStays
<1>5. PartsFit'
  BY <1>1, HydrationToCome
<1>6. QED
  BY <1>2, <1>3, <1>4, <1>5 DEF RequestInv

(* Rows a statement has just read are fit. *)
LEMMA JustRead ==
  ASSUME RowsFit, UNCHANGED <<dbVars, query>>,
         \A n \in DOMAIN found' : \E i \in Ids : rows[i] \in Row /\ rows[i] # NoRow
                                             /\ found'[n] = Shown(i)
  PROVE  FoundFits'
<1>1. /\ rows' = rows /\ teams' = teams /\ players' = players /\ Route' = Route
  BY DEF dbVars, Route
<1>2. ASSUME NEW n \in DOMAIN found'
      PROVE  /\ found'[n].row.refs \in Refs[Route] /\ Exists(found'[n].row.refs)
             /\ rows[found'[n].id] # NoRow /\ rows[found'[n].id].ver >= found'[n].row.ver
  <2>1. PICK i \in Ids : rows[i] \in Row /\ rows[i] # NoRow /\ found'[n] = Shown(i)
    BY <1>2
  <2>2. found'[n].id = i /\ found'[n].row = rows[i]
    BY <2>1 DEF Shown
  <2>3. rows[i].ver >= rows[i].ver
    BY <2>1 DEF Row
  <2>4. QED
    BY <2>1, <2>2, <2>3 DEF RowsFit, Referable
<1>3. QED
  BY <1>1, <1>2 DEF FoundFits, Referable, Exists

LEMMA ListFits ==
  ASSUME TablesOK, RowsFit, RequestInv, List
  PROVE  RequestInv'
<1>1. /\ Step("list") /\ StepsFit /\ RequestOK
      /\ UNCHANGED <<dbVars, query, ask, wanted, page, walked, answer, total, comps, teamMap, playerMap>>
  BY DEF List, RequestInv, Step, reqVars
<1>2. PICK s \in Orders : found' = Page(s)
  BY DEF List
<1>3. /\ page \in 1..MaxInt /\ Wrap(Wrap(page - 1) * PageSize) >= 0
      /\ rows \in [Ids -> Row \cup {NoRow}]
  BY <1>1 DEF List, RequestOK, TablesOK
<1>4. /\ found' \in Seq([id : Ids, row : Row])
      /\ \A n \in DOMAIN found' : \E i \in Matching : found'[n] = Shown(i)
  BY <1>2, <1>3, PageRows
<1>5. \A i \in Matching : i \in Ids /\ rows[i] # NoRow /\ rows[i] \in Row
  BY <1>3 DEF Matching, Matches
<1>6. FoundFits'
  BY <1>1, <1>4, <1>5, JustRead
<1>7. RequestOK'
  BY <1>1, <1>4 DEF RequestOK
<1>8. QED
  BY <1>1, <1>6, <1>7, StepsShorten, HydrationToCome DEF RequestInv

LEMMA GetFits ==
  ASSUME TablesOK, RowsFit, RequestInv, Get
  PROVE  RequestInv'
<1>1. /\ Step("get") /\ StepsFit /\ RequestOK
      /\ UNCHANGED <<dbVars, query, ask, wanted, page, walked, answer, total, comps, teamMap, playerMap>>
  BY DEF Get, RequestInv, Step, reqVars
<1>2. PICK i \in Candidates : found' = <<Shown(i)>>
  BY DEF Get
<1>3. i \in Ids /\ rows[i] # NoRow /\ rows[i] \in Row
  BY <1>1 DEF Candidates, RequestOK, TablesOK
<1>4. Shown(i) \in [id : Ids, row : Row]
  BY <1>3 DEF Shown
<1>5. /\ found' \in Seq([id : Ids, row : Row])
      /\ \A n \in DOMAIN found' : found'[n] = Shown(i)
  BY <1>2, <1>4
<1>6. FoundFits'
  BY <1>1, <1>3, <1>5, JustRead
<1>7. RequestOK'
  BY <1>1, <1>5 DEF RequestOK
<1>8. QED
  BY <1>1, <1>6, <1>7, StepsShorten, HydrationToCome DEF RequestInv

(* A hydrating statement leaves what was found, and the types of the rest, as
   they are. *)
LEMMA HydratesOnly ==
  ASSUME TablesOK, TablesOK', NothingGoes, RequestInv, NEW name, Step(name),
         UNCHANGED <<total, found>>,
         comps' \subseteq [id : Ids, ver : Nat], teamMap' \subseteq Teams,
         playerMap' \subseteq Players \X (Teams \cup {NoTeam})
  PROVE  /\ RequestOK' /\ StepsFit' /\ FoundFits'
         /\ steps # <<>> /\ Head(steps) = name /\ steps' = Tail(steps)
         /\ Route' = Route /\ Route \in Routes /\ answer = NoAnswer
         /\ UNCHANGED <<rows, teams, players>>
<1>1. /\ UNCHANGED <<dbVars, query, ask, wanted, page, walked, answer>> /\ Route' = Route
      /\ steps # <<>> /\ Head(steps) = name /\ steps' = Tail(steps)
      /\ RequestOK /\ StepsFit /\ FoundFits
  BY DEF Step, reqVars, Route, RequestInv
<1>2. RequestOK'
  BY <1>1 DEF RequestOK
<1>3. Route \in Routes
  BY PassedParams DEF TablesOK
<1>4. QED
  BY <1>1, <1>2, <1>3, StepsShorten, FoundStays DEF StepsFit, dbVars

LEMMA CompetitorsFits ==
  ASSUME TablesOK, TablesOK', NothingGoes, RowsFit, RequestInv, Competitors
  PROVE  RequestInv'
<1>1. /\ Step("competitors") /\ UNCHANGED <<total, found, teamMap, playerMap>>
      /\ RequestOK /\ StepsFit /\ FoundFits /\ query \in Query
      /\ rows \in [Ids -> Row \cup {NoRow}]
  BY DEF Competitors, RequestInv, TablesOK
<1>2. comps' = {[id |-> i, ver |-> rows[i].ver] : i \in {j \in FoundIds : rows[j] # NoRow}}
  BY <1>1, AskedIds DEF Competitors
<1>3. FoundIds \subseteq Ids
  BY <1>1, FoundType DEF FoundIds
<1>4. \A i \in Ids : rows[i] # NoRow => rows[i].ver \in Nat
  BY <1>1 DEF Row
<1>5. comps' \subseteq [id : Ids, ver : Nat]
  BY <1>2, <1>3, <1>4
<1>6. teamMap' \subseteq Teams /\ playerMap' \subseteq Players \X (Teams \cup {NoTeam})
  BY <1>1 DEF RequestOK
<1>7. /\ RequestOK' /\ StepsFit' /\ FoundFits'
      /\ steps # <<>> /\ Head(steps) = "competitors" /\ Route' = Route
  BY <1>1, <1>5, <1>6, HydratesOnly
<1>8. Route = "events"
  BY <1>1, <1>7, StepOrder
<1>9. CompsFit'
  <2> SUFFICES ASSUME NEW n \in DOMAIN found
               PROVE  \E c \in comps' : c.id = found[n].id /\ c.ver >= found[n].row.ver
    BY <1>1 DEF CompsFit
  <2> DEFINE i == found[n].id
  <2>1. i \in FoundIds
    BY DEF FoundIds
  <2>2. rows[i] # NoRow /\ rows[i].ver >= found[n].row.ver
    BY <1>1, <1>8 DEF FoundFits
  <2>3. [id |-> i, ver |-> rows[i].ver] \in comps'
    BY <1>2, <2>1, <2>2
  <2>4. QED
    BY <2>2, <2>3
<1>10. PartsFit'
  BY <1>7, <1>8, <1>9 DEF PartsFit, TeamRoutes, PlayerRoutes
<1>11. QED
  BY <1>7, <1>10 DEF RequestInv

(* What the rows found refer to is there. *)
LEMMA RefsThere ==
  ASSUME TablesOK, FoundFits
  PROVE  /\ \A x \in FoundRefs : IF x \in Teams THEN teams[x] # "absent" ELSE players[x] # NoRow
         /\ Route \in TeamRoutes => FoundRefs \subseteq Teams
         /\ Route \in PlayerRoutes => FoundRefs \subseteq Players
<1>1. Route \in Routes
  BY PassedParams DEF TablesOK
<1>2. \A n \in DOMAIN found : found[n].row.refs \in Refs[Route] /\ Exists(found[n].row.refs)
  BY DEF FoundFits, Referable
<1>3. QED
  BY <1>1, <1>2, RefsOf DEF FoundRefs, Exists

LEMMA TeamsFits ==
  ASSUME TablesOK, TablesOK', NothingGoes, RowsFit, RequestInv, TeamsByIDs
  PROVE  RequestInv'
<1>1. /\ Step("teams") /\ UNCHANGED <<total, found, comps, playerMap>>
      /\ teamMap' = {t \in Asked("teams") : teams[t] # "absent"}
      /\ RequestOK /\ StepsFit /\ FoundFits /\ query \in Query
  BY DEF TeamsByIDs, RequestInv, TablesOK
<1>2. /\ steps # <<>> /\ Head(steps) = "teams" /\ steps' = Tail(steps) /\ answer = NoAnswer
      /\ Route' = Route
  BY <1>1 DEF Step, StepsFit, reqVars, Route
<1>3. /\ steps' = <<>>
      /\ Route \in TeamRoutes \/ (Route \in PlayerRoutes /\ steps = <<"teams">>)
  BY <1>1, <1>2, StepOrder
<1>4. PlayerTeams \subseteq Teams
  BY <1>1 DEF PlayerTeams, RequestOK
<1>5. /\ Route \in TeamRoutes => Asked("teams") = FoundRefs /\ FoundRefs \subseteq Teams
      /\ Route \in PlayerRoutes => Asked("teams") = PlayerTeams
  BY <1>1, AskedIds, RefsThere
<1>6. teamMap' \subseteq Teams
  BY <1>1, <1>3, <1>4, <1>5
<1>7. comps' \subseteq [id : Ids, ver : Nat] /\ playerMap' \subseteq Players \X (Teams \cup {NoTeam})
  BY <1>1 DEF RequestOK
<1>8. RequestOK' /\ StepsFit' /\ FoundFits' /\ UNCHANGED <<rows, teams, players>>
  BY <1>1, <1>6, <1>7, HydratesOnly
<1>9. ASSUME Route \in TeamRoutes
      PROVE  \A n \in DOMAIN found' : found'[n].row.refs \subseteq teamMap'
  <2>1. \A n \in DOMAIN found : found[n].row.refs \subseteq FoundRefs
    BY DEF FoundRefs
  <2>2. \A t \in FoundRefs : t \in Teams /\ teams[t] # "absent"
    BY <1>1, <1>9, RefsThere
  <2>3. QED
    BY <1>1, <1>5, <1>9, <2>1, <2>2
<1>10. ASSUME Route \in PlayerRoutes
       PROVE  PlayersFit' /\ \A e \in playerMap' : e[2] \in teamMap' \cup {NoTeam}
  <2>1. Route \notin TeamRoutes
    BY <1>10 DEF TeamRoutes, PlayerRoutes
  <2>2. PlayersFit
    <3>1. PartsFit
      BY <1>2, NoAnswerType DEF RequestInv
    <3>2. steps = <<"teams">>
      BY <1>3, <2>1
    <3>3. steps \in {<<"teams">>, <<>>}
      BY <3>2
    <3>4. QED
      BY <1>10, <3>1, <3>3 DEF PartsFit
  <2>3. PlayersFit'
    BY <1>1, <1>8, <2>2 DEF PlayersFit
  <2>4. \A e \in playerMap : e[2] # NoTeam => e[2] \in PlayerTeams /\ teams[e[2]] # "absent"
    BY <2>2 DEF PlayersFit, PlayerTeams
  <2>5. QED
    BY <1>1, <1>5, <1>10, <2>3, <2>4
<1>11. PartsFit'
  <2>1. Route \in TeamRoutes => Route # "events" /\ Route \notin PlayerRoutes
    BY DEF TeamRoutes, PlayerRoutes
  <2>2. Route \in PlayerRoutes => Route # "events" /\ Route \notin TeamRoutes
    BY DEF TeamRoutes, PlayerRoutes
  <2>3. TeamRoutes' = TeamRoutes /\ PlayerRoutes' = PlayerRoutes
    BY DEF TeamRoutes, PlayerRoutes
  <2>4. QED
    BY <1>2, <1>3, <1>9, <1>10, <2>1, <2>2, <2>3 DEF PartsFit
<1>12. QED
  BY <1>8, <1>11 DEF RequestInv

LEMMA PlayersFits ==
  ASSUME TablesOK, TablesOK', NothingGoes, RowsFit, RequestInv, PlayersByIDs
  PROVE  RequestInv'
<1>1. /\ Step("players") /\ UNCHANGED <<total, found, comps, teamMap>>
      /\ playerMap' = {<<p, players[p]>> : p \in {r \in Asked("players") : players[r] # NoRow}}
      /\ RequestOK /\ StepsFit /\ FoundFits /\ query \in Query
      /\ players \in [Players -> Teams \cup {NoTeam, NoRow}]
  BY DEF PlayersByIDs, RequestInv, TablesOK
<1>2. /\ steps # <<>> /\ Head(steps) = "players" /\ steps' = Tail(steps) /\ Route' = Route
  BY <1>1 DEF Step, StepsFit, reqVars, Route
<1>3. Route \in PlayerRoutes /\ Tail(steps) = <<"teams">>
  BY <1>1, <1>2, StepOrder
<1>4. Asked("players") = FoundRefs /\ FoundRefs \subseteq Players
  BY <1>1, <1>3, AskedIds, RefsThere
<1>5. \A p \in FoundRefs : players[p] # NoRow /\ players[p] \in Teams \cup {NoTeam}
  <2>1. Teams \cap Players = {}
    BY ReadAssumption
  <2>2. QED
    BY <1>1, <1>4, <2>1, RefsThere
<1>6. playerMap' = {<<p, players[p]>> : p \in FoundRefs}
  BY <1>1, <1>4, <1>5
<1>7. playerMap' \subseteq Players \X (Teams \cup {NoTeam})
  BY <1>4, <1>5, <1>6
<1>8. comps' \subseteq [id : Ids, ver : Nat] /\ teamMap' \subseteq Teams
  BY <1>1 DEF RequestOK
<1>9. RequestOK' /\ StepsFit' /\ FoundFits' /\ UNCHANGED <<rows, teams, players>>
  BY <1>1, <1>7, <1>8, HydratesOnly
<1>10. PlayersFit'
  <2>1. \A e \in playerMap' : e[2] # NoTeam => teams'[e[2]] # "absent"
    <3> SUFFICES ASSUME NEW p \in FoundRefs, players[p] # NoTeam PROVE teams[players[p]] # "absent"
      BY <1>6, <1>9
    <3>1. players[p] \in Teams /\ p \in Players
      BY <1>4, <1>5
    <3>2. QED
      BY <3>1 DEF RowsFit
  <2>2. \A n \in DOMAIN found : \A p \in found[n].row.refs :
          \E t \in Teams \cup {NoTeam} : <<p, t>> \in playerMap'
    <3> SUFFICES ASSUME NEW n \in DOMAIN found, NEW p \in found[n].row.refs
                 PROVE  \E t \in Teams \cup {NoTeam} : <<p, t>> \in playerMap'
      OBVIOUS
    <3>1. p \in FoundRefs
      BY DEF FoundRefs
    <3>2. QED
      BY <3>1, <1>5, <1>6
  <2>3. QED
    BY <1>1, <2>1, <2>2 DEF PlayersFit
<1>11. PartsFit'
  <2>1. Route # "events" /\ Route \notin TeamRoutes
    BY <1>3 DEF TeamRoutes, PlayerRoutes
  <2>2. TeamRoutes' = TeamRoutes /\ PlayerRoutes' = PlayerRoutes
    BY DEF TeamRoutes, PlayerRoutes
  <2>3. steps' # <<>>
    BY <1>2, <1>3
  <2>4. QED
    BY <1>2, <1>10, <2>1, <2>2, <2>3 DEF PartsFit
<1>12. QED
  BY <1>9, <1>11 DEF RequestInv

(* A request that ends without an answer of rows. *)
LEMMA EndFits ==
  ASSUME TablesOK, TablesOK', NothingGoes, RequestInv,
         UNCHANGED <<dbVars, gotVars, query, page, walked>>, steps' = <<>>,
         ask' \in {"list", "get"}, wanted' \in SUBSET Ids,
         NEW c \in {404, 500}, answer' = [NoAnswer EXCEPT !.code = c]
  PROVE  RequestInv'
<1>1. answer' \in [code : {0, 200, 404, 500}, next : 0..MaxInt] /\ answer'.code = c
  BY NoAnswerType
<1>2. RequestOK'
  BY <1>1 DEF RequestInv, RequestOK, gotVars
<1>3. StepsFit' /\ FoundFits'
  BY StepsEnd, FoundStays DEF RequestInv, gotVars
<1>4. QED
  BY <1>1, <1>2, <1>3 DEF RequestInv

LEMMA NotFoundFits ==
  ASSUME TablesOK, TablesOK', NothingGoes, RequestInv, NotFound
  PROVE  RequestInv'
<1>1. ask' \in {"list", "get"} /\ wanted' \in SUBSET Ids
  BY DEF NotFound, reqVars, RequestInv, RequestOK
<1>2. QED
  BY <1>1, EndFits DEF NotFound, reqVars

LEMMA ServerErrorFits ==
  ASSUME TablesOK, TablesOK', NothingGoes, RequestInv, ServerError
  PROVE  RequestInv'
<1>1. ask' \in {"list", "get"} /\ wanted' \in SUBSET Ids
  BY DEF ServerError, reqVars, RequestInv, RequestOK
<1>2. QED
  BY <1>1, EndFits DEF ServerError, reqVars

LEMMA OpenMalformedFits ==
  ASSUME TablesOK, TablesOK', NothingGoes, RequestInv, OpenMalformed
  PROVE  RequestInv'
<1>1. ask' \in {"list", "get"} /\ wanted' \in SUBSET Ids
  BY DEF OpenMalformed
<1>2. QED
  BY <1>1, EndFits DEF OpenMalformed

LEMMA IdsOfFound ==
  ASSUME RequestOK
  PROVE  [n \in DOMAIN found |-> found[n].id] \in Seq(Ids)
<1>1. DOMAIN found = 1..Len(found) /\ Len(found) \in Nat
  BY DEF RequestOK
<1>2. [n \in DOMAIN found |-> found[n].id] \in [1..Len(found) -> Ids]
  BY <1>1, FoundType
<1>3. QED
  BY <1>1, <1>2, FunctionSeq

LEMMA AnswerFits ==
  ASSUME TablesOK, TablesOK', NothingGoes, RequestInv, Answer
  PROVE  RequestInv'
<1>1. /\ steps = <<>> /\ answer = NoAnswer
      /\ UNCHANGED <<gotVars, query, ask, wanted, page, steps>>
      /\ RequestOK /\ StepsFit /\ FoundFits
  BY DEF Answer, RequestInv
<1>2. answer' \in [code : {0, 200, 404, 500}, next : 0..MaxInt]
  <2>1. NextPage \in 0..MaxInt /\ 0 \in 0..MaxInt
    BY <1>1, NextPageType, ReadAssumption DEF RequestOK
  <2>2. answer' = [code |-> 200, next |-> NextPage] \/ answer' = [code |-> 200, next |-> 0]
    BY DEF Answer
  <2>3. QED
    BY <2>1, <2>2
<1>3. walked' \in Seq(Ids)
  <2>1. walked \in Seq(Ids)
    BY <1>1 DEF RequestOK
  <2>2. CASE ask = "list"
    <3> DEFINE ids == [n \in DOMAIN found |-> found[n].id]
    <3>1. ids \in Seq(Ids)
      BY <1>1, IdsOfFound
    <3>2. walked' = walked \o ids
      BY <2>2 DEF Answer
    <3> HIDE DEF ids
    <3>3. QED
      BY <2>1, <3>1, <3>2
  <2>3. CASE ask # "list"
    BY <2>1, <2>3 DEF Answer
  <2>4. QED
    BY <2>2, <2>3
<1>4. RequestOK'
  BY <1>1, <1>2, <1>3 DEF RequestOK, gotVars
<1>5. StepsFit' /\ FoundFits'
  BY <1>1, StepsEnd, FoundStays DEF gotVars
<1>6. PartsFit'
  <2>1. PartsFit
    BY <1>1, NoAnswerType DEF RequestInv
  <2>2. QED
    BY <1>1, <2>1, PartsStay
<1>7. QED
  BY <1>4, <1>5, <1>6 DEF RequestInv

(* A request that starts. *)
LEMMA FreshFits ==
  ASSUME TablesOK, TablesOK', RequestInv, NEW S, Fresh(S), UNCHANGED <<query, walked>>,
         ask' \in {"list", "get"}, wanted' \in SUBSET Ids, page' \in 1..MaxInt,
         \/ ask' = "list" /\ S = Service[Route].list
         \/ ask' = "get" /\ S = Service[Route].get
  PROVE  RequestInv'
<1>1. /\ steps' = S /\ total' = 0 /\ found' = <<>> /\ comps' = {} /\ teamMap' = {}
      /\ playerMap' = {} /\ answer' = NoAnswer /\ Route' = Route /\ NoAnswer' = NoAnswer
  BY DEF Fresh, Route, NoAnswer
<1>2. RequestOK'
  BY <1>1, NoAnswerType DEF RequestInv, RequestOK
<1>3. FoundFits' /\ PartsFit'
  BY <1>1, NothingFound
<1>4. StepsFit'
  <2>1. Head(S) = (IF ask' = "list" THEN "count" ELSE "get")
    BY ListSteps, GetSteps DEF TablesOK
  <2>2. /\ Route = "events" => S \in EventSteps
        /\ Route \in TeamRoutes => S \in TeamSteps
        /\ Route \in PlayerRoutes => S \in PlayerSteps
        /\ Route \notin {"events"} \cup TeamRoutes \cup PlayerRoutes => S \in PlainSteps
    BY ListSteps, GetSteps DEF TablesOK
  <2>3. steps' # <<>> => /\ answer' = NoAnswer'
                         /\ Head(steps') \in {"count", "list"} => ask' = "list"
                         /\ Head(steps') = "get" => ask' = "get"
    BY <1>1, <2>1
  <2>4. TeamRoutes' = TeamRoutes /\ PlayerRoutes' = PlayerRoutes
    BY DEF TeamRoutes, PlayerRoutes
  <2>5. EventSteps' = EventSteps /\ TeamSteps' = TeamSteps /\ PlayerSteps' = PlayerSteps
        /\ PlainSteps' = PlainSteps
    BY DEF EventSteps, TeamSteps, PlayerSteps, PlainSteps
  <2>6. QED
    BY <1>1, <2>2, <2>3, <2>4, <2>5 DEF StepsFit
<1>5. QED
  BY <1>2, <1>3, <1>4 DEF RequestInv

LEMMA FollowFits ==
  ASSUME TablesOK, TablesOK', RequestInv, Follow
  PROVE  RequestInv'
<1>1. /\ ask = "list" /\ ask' = ask /\ wanted' = wanted /\ page' = answer.next
      /\ answer.next # 0 /\ Fresh(Service[Route].list) /\ UNCHANGED <<query, walked>>
      /\ RequestOK
  BY DEF Follow, RequestInv
<1>2. wanted' \in SUBSET Ids
  BY <1>1 DEF RequestOK
<1>3. page' \in 1..MaxInt
  <2>1. answer.next \in 0..MaxInt
    BY <1>1 DEF RequestOK
  <2>2. QED
    BY <1>1, <2>1, ReadAssumption
<1>4. QED
  BY <1>1, <1>2, <1>3, FreshFits

LEMMA OpenFits ==
  ASSUME TablesOK, TablesOK', RequestInv, NEW W \in SUBSET Ids, Open(W)
  PROVE  RequestInv'
<1>1. /\ ask' = "get" /\ wanted' = W /\ page' = page
      /\ Fresh(Service[Route].get) /\ UNCHANGED <<query, walked>> /\ RequestOK
  BY DEF Open, RequestInv
<1>2. page' \in 1..MaxInt
  BY <1>1 DEF RequestOK
<1>3. QED
  BY <1>1, <1>2, FreshFits

(* A request is not disturbed by what others commit. *)
LEMMA OthersFit ==
  ASSUME TablesOK, TablesOK', NothingGoes, RequestInv, UNCHANGED <<reqVars, gotVars, steps, answer>>
  PROVE  RequestInv'
<1>1. /\ RequestOK /\ StepsFit /\ FoundFits
      /\ UNCHANGED <<query, ask, wanted, page, walked, gotVars, steps, answer>> /\ Route' = Route
  BY DEF RequestInv, reqVars, Route
<1>2. RequestOK'
  BY <1>1 DEF RequestOK, gotVars
<1>3. StepsFit'
  BY <1>1 DEF StepsFit, EventSteps, TeamSteps, PlayerSteps, PlainSteps, TeamRoutes, PlayerRoutes,
     NoAnswer
<1>4. FoundFits'
  BY <1>1, FoundStays DEF gotVars
<1>5. PartsFit => PartsFit'
  BY <1>1, PartsStay
<1>6. QED
  BY <1>1, <1>2, <1>3, <1>4, <1>5 DEF RequestInv

LEMMA RequestStep ==
  ASSUME TablesOK, RowsFit, RequestInv, [Next]_vars
  PROVE  RequestInv'
<1>1. TablesOK' /\ RowsFit' /\ NothingGoes
  BY TablesStay
<1>2. CASE Count
  BY <1>1, <1>2, CountFits
<1>3. CASE List
  BY <1>1, <1>3, ListFits
<1>4. CASE Get
  BY <1>1, <1>4, GetFits
<1>5. CASE NotFound
  BY <1>1, <1>5, NotFoundFits
<1>6. CASE Competitors
  BY <1>1, <1>6, CompetitorsFits
<1>7. CASE TeamsByIDs
  BY <1>1, <1>7, TeamsFits
<1>8. CASE PlayersByIDs
  BY <1>1, <1>8, PlayersFits
<1>9. CASE Rejected \/ DatabaseFails
  BY <1>1, <1>9, ServerErrorFits DEF Rejected, DatabaseFails
<1>10. CASE Answer
  BY <1>1, <1>10, AnswerFits
<1>11. CASE Follow
  BY <1>1, <1>11, FollowFits
<1>12. CASE OpenMalformed
  BY <1>1, <1>12, OpenMalformedFits
<1>13. ASSUME NEW W \in SUBSET Ids, Open(W) PROVE RequestInv'
  BY <1>1, <1>13, OpenFits
<1>14. CASE Others \/ UNCHANGED vars
  BY <1>1, <1>14, OthersFit DEF Others, vars, reqVars, gotVars
<1>15. QED
  BY <1>2, <1>3, <1>4, <1>5, <1>6, <1>7, <1>8, <1>9, <1>10, <1>11, <1>12, <1>13, <1>14
     DEF Next, Serve

ReadInv == TablesOK /\ RowsFit /\ RequestInv

(* The inductive invariant: every row refers to what is there, whatever the
   repositories read has been there, and a response holds what its rows refer to
   once the statements that hydrate it have run. *)
THEOREM ReadInvHolds == Spec => []ReadInv
<1>1. Init => ReadInv
  BY InitFits DEF ReadInv
<1>2. ReadInv /\ [Next]_vars => ReadInv'
  BY TablesStay, RequestStep DEF ReadInv
<1>3. QED
  BY <1>1, <1>2, PTL DEF Spec

(* Every variable of a request and of the tables has its type: the pages of a
   walk are ints and never below 1, although DRFList and the repositories
   compute with ints that wrap. *)
THEOREM ReadTypeCorrect == Spec => []TypeOK
<1>1. ReadInv => TypeOK
  BY StepOrder, TypesByParts DEF ReadInv, RequestInv, FindsFirst
<1>2. QED
  BY <1>1, ReadInvHolds, PTL

(* A response never lacks the competitors, teams or players its rows refer to,
   whatever was committed between the statements of the request. *)
THEOREM ResponsesHydrated == Spec => []HydrationFits
<1>1. ReadInv => HydrationFits
  <2> SUFFICES ASSUME ReadInv, answer.code = 200, NEW n \in DOMAIN found
               PROVE  /\ Route = "events" =>
                           \E c \in comps : c.id = found[n].id /\ c.ver >= found[n].row.ver
                      /\ Route \in {"nhl_players", "nhl_games", "nhl_standings"} =>
                           found[n].row.refs \subseteq teamMap
                      /\ Route \in {"skater_stats", "goalie_stats"} =>
                           \A p \in found[n].row.refs :
                             \E t \in teamMap \cup {NoTeam} : <<p, t>> \in playerMap
    BY DEF HydrationFits
  <2>1. steps = <<>> /\ PartsFit
    BY NoAnswerType DEF ReadInv, RequestInv, StepsFit
  <2>2. Route = "events" => CompsFit
    BY <2>1 DEF PartsFit
  <2>3. Route \in TeamRoutes => found[n].row.refs \subseteq teamMap
    BY <2>1 DEF PartsFit
  <2>4. ASSUME Route \in PlayerRoutes, NEW p \in found[n].row.refs
        PROVE  \E t \in teamMap \cup {NoTeam} : <<p, t>> \in playerMap
    <3>1. steps \in {<<"teams">>, <<>>}
      BY <2>1
    <3>2. PlayersFit /\ \A e \in playerMap : e[2] \in teamMap \cup {NoTeam}
      BY <2>1, <2>4, <3>1 DEF PartsFit
    <3>3. PICK t \in Teams \cup {NoTeam} : <<p, t>> \in playerMap
      BY <3>2 DEF PlayersFit
    <3>4. QED
      BY <3>2, <3>3
  <2>5. QED
    BY <2>2, <2>3, <2>4 DEF CompsFit, TeamRoutes, PlayerRoutes
<1>2. QED
  BY <1>1, ReadInvHolds, PTL

(* The rows a list shows are rows the detail route finds. *)
LEMMA MatchesOpenable ==
  \A i \in Matching : Openable(i)
  BY DEF Matching, Matches, Openable

(* A step of somebody else ends the period in which nothing is written. *)
LEMMA QuietStep ==
  ASSUME TablesOK, [Next]_vars, writes' = 0
  PROVE  /\ writes = 0 /\ UNCHANGED <<dbVars, query>> /\ Route' = Route /\ Repo' = Repo
         /\ \A i : Openable(i)' <=> Openable(i)
<1>1. ~Others
  <2>1. SUFFICES ASSUME Others PROVE FALSE
    OBVIOUS
  <2>2. writes' = writes + 1
    BY <2>1 DEF Others, WriteRow, DeleteRow, WriteTeam, WritePlayer, Write
  <2>3. QED
    BY <2>2 DEF TablesOK
<1>2. UNCHANGED <<dbVars, query>>
  BY <1>1 DEF Next, Serve, Count, List, Get, NotFound, Competitors, TeamsByIDs, PlayersByIDs,
     Rejected, DatabaseFails, ServerError, Answer, Follow, Open, OpenMalformed, Step, vars,
     reqVars
<1>3. Route' = Route /\ Repo' = Repo
  BY <1>2 DEF Route, Repo
<1>4. QED
  BY <1>2, <1>3 DEF Openable, dbVars

LEMMA ListedStep ==
  ASSUME ReadInv, ListedInv, [Next]_vars
  PROVE  ListedInv'
<1> SUFFICES ASSUME writes' = 0
             PROVE  /\ \A n \in DOMAIN walked' : Openable(walked'[n])
                    /\ \A n \in DOMAIN found' : Openable(found'[n].id)
  <2>1. writes' = 0 => rows' = rows /\ Repo' = Repo
    BY QuietStep DEF ReadInv, dbVars
  <2>2. QED
    BY <2>1 DEF ListedInv, Openable
<1>1. /\ UNCHANGED <<dbVars, query>> /\ TablesOK /\ RequestOK
      /\ \A n \in DOMAIN walked : Openable(walked[n])
      /\ \A n \in DOMAIN found : Openable(found[n].id)
  BY QuietStep DEF ReadInv, RequestInv, ListedInv
<1>2. CASE UNCHANGED <<walked, found>>
  BY <1>1, <1>2
<1>3. CASE List
  <2>1. walked' = walked /\ Wrap(Wrap(page - 1) * PageSize) >= 0
    BY <1>3 DEF List, Step, reqVars
  <2>2. PICK s \in Orders : found' = Page(s)
    BY <1>3 DEF List
  <2>3. \A n \in DOMAIN found' : \E i \in Matching : found'[n] = Shown(i)
    BY <1>1, <2>1, <2>2, PageRows DEF RequestOK, TablesOK
  <2>4. QED
    BY <1>1, <2>1, <2>3, MatchesOpenable DEF Shown
<1>4. CASE Get
  <2>1. walked' = walked
    BY <1>4 DEF Get, Step, reqVars
  <2>2. PICK i \in Candidates : found' = <<Shown(i)>>
    BY <1>4 DEF Get
  <2>3. \A n \in DOMAIN found' : found'[n].id = i
    BY <2>2 DEF Shown
  <2>4. Openable(i)
    BY DEF Candidates, Openable
  <2>5. QED
    BY <1>1, <2>1, <2>3, <2>4
<1>5. CASE Answer
  <2>1. found' = found
    BY <1>5 DEF Answer, gotVars
  <2>2. CASE ask = "list"
    <3> DEFINE ids == [n \in DOMAIN found |-> found[n].id]
    <3>1. ids \in Seq(Ids) /\ walked \in Seq(Ids)
      BY <1>1, IdsOfFound DEF RequestOK
    <3>2. walked' = walked \o ids
      BY <1>5, <2>2 DEF Answer
    <3>3. \A n \in DOMAIN ids : Openable(ids[n])
      BY <1>1
    <3> HIDE DEF ids
    <3>4. \A n \in DOMAIN walked' : \/ n \in DOMAIN walked /\ walked'[n] = walked[n]
                                    \/ n - Len(walked) \in DOMAIN ids /\ walked'[n] = ids[n - Len(walked)]
      BY <3>1, <3>2
    <3>5. QED
      BY <1>1, <2>1, <3>3, <3>4
  <2>3. CASE ask # "list"
    BY <1>1, <1>5, <2>1, <2>3 DEF Answer
  <2>4. QED
    BY <2>2, <2>3
<1>6. ASSUME NEW S, Fresh(S), walked' = walked
      PROVE  /\ \A n \in DOMAIN walked' : Openable(walked'[n])
             /\ \A n \in DOMAIN found' : Openable(found'[n].id)
  <2>1. DOMAIN found' = {}
    BY <1>6 DEF Fresh
  <2>2. QED
    BY <1>1, <1>6, <2>1
<1>7. CASE Follow \/ \E W \in SUBSET Ids : Open(W)
  BY <1>6, <1>7 DEF Follow, Open
<1>8. CASE Count \/ NotFound \/ Competitors \/ TeamsByIDs \/ PlayersByIDs
  BY <1>2, <1>8 DEF Count, NotFound, Competitors, TeamsByIDs, PlayersByIDs, Step, reqVars, gotVars
<1>9. CASE Rejected \/ DatabaseFails \/ OpenMalformed \/ Others \/ UNCHANGED vars
  BY <1>2, <1>9 DEF Rejected, DatabaseFails, OpenMalformed, Others, ServerError, vars, reqVars, gotVars
<1>10. QED
  BY <1>3, <1>4, <1>5, <1>7, <1>8, <1>9 DEF Next, Serve

(* A detail request for a row that was listed while nobody wrote never ends in
   404: what a list shows passes every condition of the detail statement. *)
LEMMA OpenedStep ==
  ASSUME ReadInv, ListedInv, ListedIsFound, [Next]_vars
  PROVE  ListedIsFound'
<1> SUFFICES ASSUME ask' = "get", wanted' # {}, writes' = 0, answer'.code = 404,
                    NEW n \in DOMAIN walked', walked'[n] \in wanted'
             PROVE  FALSE
  BY DEF ListedIsFound
<1>1. /\ UNCHANGED <<dbVars, query>> /\ TablesOK /\ RequestOK /\ writes = 0
      /\ \A m \in DOMAIN walked : Openable(walked[m])
  BY QuietStep DEF ReadInv, RequestInv, ListedInv
<1>2. CASE UNCHANGED <<ask, wanted, walked, answer>>
  BY <1>1, <1>2 DEF ListedIsFound
<1>3. CASE NotFound
  <2>1. ask' = ask /\ wanted' = wanted /\ walked' = walked /\ Candidates = {}
    BY <1>3 DEF NotFound, reqVars
  <2>2. Openable(walked[n]) /\ walked[n] \in wanted
    BY <1>1, <2>1
  <2>3. walked[n] \in Candidates
    BY <2>2 DEF Openable, Candidates
  <2>4. QED
    BY <2>1, <2>3
<1>4. CASE OpenMalformed
  BY <1>4 DEF OpenMalformed
<1>5. CASE Answer
  BY <1>5 DEF Answer
<1>6. CASE Follow \/ \E W \in SUBSET Ids : Open(W)
  <2>1. answer' = NoAnswer
    BY <1>6 DEF Follow, Open, Fresh
  <2>2. QED
    BY <2>1, NoAnswerType
<1>7. CASE Rejected \/ DatabaseFails
  <2>1. answer' = [NoAnswer EXCEPT !.code = 500]
    BY <1>7 DEF Rejected, DatabaseFails, ServerError
  <2>2. answer'.code = 500
    BY <2>1, NoAnswerType
  <2>3. QED
    BY <2>2
<1>8. CASE Count \/ List \/ Get \/ Competitors \/ TeamsByIDs \/ PlayersByIDs
  BY <1>2, <1>8 DEF Count, List, Get, Competitors, TeamsByIDs, PlayersByIDs, Step, reqVars
<1>9. CASE Others \/ UNCHANGED vars
  BY <1>2, <1>9 DEF Others, vars, reqVars
<1>10. QED
  BY <1>3, <1>4, <1>5, <1>6, <1>7, <1>8, <1>9 DEF Next, Serve

(* A row that was listed can be opened, as long as nobody writes: the detail
   statements have no condition the list statements lack. *)
THEOREM ListedRowsOpen == Spec => []ListedIsFound
<1>1. Init => ListedInv /\ ListedIsFound
  <2>1. Init => walked = <<>> /\ found = <<>> /\ ask = "list"
    BY DEF Init
  <2>2. walked = <<>> /\ found = <<>> => DOMAIN walked = {} /\ DOMAIN found = {}
    OBVIOUS
  <2>3. QED
    BY <2>1, <2>2 DEF ListedInv, ListedIsFound
<1>2. ReadInv /\ ListedInv /\ ListedIsFound /\ [Next]_vars => ListedInv' /\ ListedIsFound'
  BY ListedStep, OpenedStep
<1>3. QED
  BY <1>1, <1>2, ReadInvHolds, PTL DEF Spec

(* A page more is PageSize rows further. *)
LEMMA Multiples ==
  ASSUME NEW p \in Nat \ {0}, NEW q \in Nat \ {0}
  PROVE  /\ p * q = (p - 1) * q + q
         /\ (p - 1) * q \in Nat /\ (p - 1) * q >= p - 1
<1>1. p * q = (p - 1) * q + q
  OBVIOUS
<1>2. \A a, b \in Nat : a * b \in Nat
  OBVIOUS
<1>3. (p - 1) * q = (p - 1) * (q - 1) + (p - 1)
  OBVIOUS
<1>4. (p - 1) * (q - 1) \in Nat /\ (p - 1) * q \in Nat
  BY <1>2
<1>5. QED
  BY <1>1, <1>3, <1>4

(* While a walk that began at the first page is within a list of c rows, the
   ints of its pages do not wrap. *)
LEMMA PageArithmetic ==
  ASSUME page \in 1..MaxInt, NEW c \in Nat, c + PageSize <= MaxInt, page = 1 \/ Offset < c
  PROVE  /\ Offset \in Nat
         /\ Wrap(Wrap(page - 1) * PageSize) = Offset
         /\ Wrap(page * PageSize) = Offset + PageSize
         /\ Offset + PageSize < c => /\ Wrap(page + 1) = page + 1
                                     /\ ParsePage(page + 1) = page + 1
         /\ page = 1 => Offset = 0
         /\ ((page + 1) - 1) * PageSize = Offset + PageSize
<1>1. page \in Nat \ {0} /\ PageSize \in Nat \ {0} /\ MaxInt \in Nat \ {0}
  BY ReadAssumption
<1>2. page * PageSize = Offset + PageSize /\ Offset \in Nat /\ Offset >= page - 1
  BY <1>1, Multiples DEF Offset
<1>3. page = 1 => Offset = 0
  BY <1>1 DEF Offset
<1>4. Offset + PageSize \in GoInt /\ page - 1 \in GoInt /\ Offset \in GoInt
  BY <1>1, <1>2, <1>3 DEF GoInt
<1>5. Wrap(page - 1) = page - 1 /\ (page - 1) * PageSize = Offset
  BY <1>4, WrapKeeps DEF Offset
<1>6. Wrap(Wrap(page - 1) * PageSize) = Offset
  BY <1>4, <1>5, WrapKeeps
<1>7. Wrap(page * PageSize) = Offset + PageSize
  BY <1>2, <1>4, WrapKeeps
<1>8. ASSUME Offset + PageSize < c PROVE Wrap(page + 1) = page + 1 /\ ParsePage(page + 1) = page + 1
  <2>1. page + 1 <= c
    BY <1>1, <1>2, <1>8
  <2>2. page + 1 \in GoInt
    BY <1>1, <2>1 DEF GoInt
  <2>3. QED
    BY <1>1, <2>2, WrapKeeps DEF ParsePage
<1>9. ((page + 1) - 1) * PageSize = Offset + PageSize
  <2>1. (page + 1) - 1 = page
    BY <1>1
  <2>2. QED
    BY <1>2, <2>1
<1>10. QED
  BY <1>2, <1>3, <1>6, <1>7, <1>8, <1>9

(* Ranks are integers. *)
LEMMA RankType ==
  ASSUME TablesOK, NEW i \in Matching
  PROVE  Rank(i) \in Int
<1>1. i \in Ids /\ rows[i] \in Row
  BY DEF TablesOK, Matching, Matches
<1>2. Column[i] \in Int /\ 0 - Column[i] \in Int /\ rows[i].key \in Int
  BY <1>1, ReadAssumption DEF Row
<1>3. ASSUME query.ordering = "column", Repo.columns # {} PROVE Rank(i) = Column[i]
  <2>1. query.ordering # "-column"
    BY <1>3
  <2>2. QED
    BY <1>3, <2>1, ZenonT(30) DEF Rank
<1>4. ASSUME query.ordering = "-column", Repo.columns # {} PROVE Rank(i) = 0 - Column[i]
  <2>1. query.ordering # "column"
    BY <1>4
  <2>2. QED
    BY <1>4, <2>1, ZenonT(30) DEF Rank
<1>5. ASSUME ~(query.ordering = "column" /\ Repo.columns # {}),
             ~(query.ordering = "-column" /\ Repo.columns # {})
      PROVE  Rank(i) = rows[i].key
  BY <1>5, ZenonT(30) DEF Rank
<1>6. QED
  BY <1>2, <1>3, <1>4, <1>5

(* While nobody writes, a list is what it was. *)
LEMMA SameList ==
  ASSUME rows' = rows, query' = query
  PROVE  /\ Matching' = Matching /\ Orders' = Orders /\ (OneOrder' <=> OneOrder)
         /\ \A i : Rank(i)' = Rank(i)
<1>1. Route' = Route /\ Repo' = Repo /\ Passed' = Passed
  BY DEF Route, Repo, Passed
<1>2. \A i : Matches(i)' <=> Matches(i)
  BY <1>1 DEF Matches
<1>3. Matching' = Matching
  BY <1>2 DEF Matching
<1>4. ASSUME NEW i PROVE Rank(i)' = Rank(i)
  BY <1>1, ZenonT(30) DEF Rank
<1>5. \A i, j : Before(i, j)' <=> Before(i, j)
  BY <1>1, <1>4 DEF Before
<1>6. Orders' = Orders
  BY <1>3, <1>5 DEF Orders
<1>7. OneOrder' <=> OneOrder
  BY <1>6 DEF OneOrder
<1>8. QED
  BY <1>3, <1>4, <1>6, <1>7

(* The primary key at the end of ORDER BY makes the order of a list strict. *)
LEMMA StrictOrder ==
  ASSUME TablesOK, Route \in StableRoutes, NEW i \in Matching, NEW j \in Matching
  PROVE  ~(Before(i, j) /\ Before(j, i))
<1>1. Repo.tie = TRUE
  BY StableRoutesTie DEF Repo
<1>2. i \in Nat /\ j \in Nat
  BY ReadAssumption DEF Matching
<1>3. Rank(i) \in Int /\ Rank(j) \in Int
  BY RankType
<1>4. QED
  BY <1>1, <1>2, <1>3 DEF Before

(* What a statement may return lists every matching row once. *)
LEMMA OrderIsListing ==
  ASSUME NEW s \in Orders
  PROVE  /\ Cardinality(Matching) \in Nat
         /\ s \in [1..Cardinality(Matching) -> Matching]
         /\ \A m, n \in 1..Cardinality(Matching) : m < n => s[m] # s[n] /\ Before(s[m], s[n])
         /\ \A i \in Matching : \E n \in 1..Cardinality(Matching) : s[n] = i
<1> DEFINE c == Cardinality(Matching)
<1>1. c \in Nat /\ IsFiniteSet(Matching)
  BY MatchingFinite
<1>2. /\ s \in [1..c -> Matching]
      /\ \A m, n \in 1..c : m < n => s[m] # s[n] /\ Before(s[m], s[n])
  BY DEF Orders
<1>3. \A m, n \in 1..c : s[m] = s[n] => m = n
  BY <1>1, <1>2
<1>4. s \in Injection(1..c, Matching)
  BY <1>2, <1>3 DEF Injection, IsInjective
<1>5. IsFiniteSet(1..c) /\ Cardinality(1..c) = c
  BY <1>1, FS_Interval
<1>6. s \in Surjection(1..c, Matching)
  BY <1>1, <1>4, <1>5, FS_Injection
<1>7. \A i \in Matching : \E n \in 1..c : s[n] = i
  BY <1>6 DEF Surjection
<1>8. QED
  BY <1>1, <1>2, <1>7

(* In a strict order, a row comes after as many rows as are before it. *)
LEMMA RowsBefore ==
  ASSUME TablesOK, Route \in StableRoutes, NEW s \in Orders,
         NEW n \in 1..Cardinality(Matching)
  PROVE  Cardinality({i \in Matching : Before(i, s[n])}) = n - 1
<1> DEFINE c == Cardinality(Matching)
           B == {i \in Matching : Before(i, s[n])}
           f == [m \in 1..(n - 1) |-> s[m]]
<1>1. /\ c \in Nat /\ s \in [1..c -> Matching]
      /\ \A m, k \in 1..c : m < k => s[m] # s[k] /\ Before(s[m], s[k])
      /\ \A i \in Matching : \E m \in 1..c : s[m] = i
  BY OrderIsListing
<1>2. n \in 1..c
  OBVIOUS
<1> HIDE DEF c
<1>3. n - 1 \in Nat /\ \A m \in 1..(n - 1) : m \in 1..c /\ m < n
  BY <1>1, <1>2
<1>4. f \in [1..(n - 1) -> B]
  BY <1>1, <1>2, <1>3
<1>5. \A m, k \in 1..(n - 1) : f[m] = f[k] => m = k
  <2> SUFFICES ASSUME NEW m \in 1..(n - 1), NEW k \in 1..(n - 1), f[m] = f[k] PROVE m = k
    OBVIOUS
  <2>1. s[m] = s[k] /\ m \in 1..c /\ k \in 1..c
    BY <1>3
  <2>2. ~(m < k) /\ ~(k < m)
    BY <1>1, <2>1
  <2>3. m \in Int /\ k \in Int
    OBVIOUS
  <2>4. QED
    BY <2>2, <2>3
<1>6. \A i \in B : \E m \in 1..(n - 1) : f[m] = i
  <2> SUFFICES ASSUME NEW i \in B PROVE \E m \in 1..(n - 1) : f[m] = i
    OBVIOUS
  <2>1. PICK m \in 1..c : s[m] = i
    BY <1>1
  <2>2. s[n] \in Matching /\ i \in Matching /\ Before(i, s[n])
    BY <1>1, <1>2
  <2>3. ~Before(s[n], i)
    BY <2>2, StrictOrder
  <2>4. ~Before(i, i)
    BY <2>2, StrictOrder
  <2>5. m # n
    BY <2>1, <2>2, <2>4
  <2>6. ~(n < m)
    BY <1>1, <1>2, <2>1, <2>3
  <2>7. m \in 1..(n - 1)
    BY <1>1, <1>2, <2>5, <2>6
  <2>8. QED
    BY <2>1, <2>7
<1> HIDE DEF f, B
<1>7. f \in Bijection(1..(n - 1), B)
  BY <1>4, <1>5, <1>6 DEF Bijection, Injection, Surjection, IsInjective
<1>8. IsFiniteSet(1..(n - 1)) /\ Cardinality(1..(n - 1)) = n - 1
  BY <1>3, FS_Interval
<1>9. ExistsBijection(1..(n - 1), B)
  BY <1>7 DEF ExistsBijection
<1>10. Cardinality(B) = n - 1
  BY <1>8, <1>9, FS_Bijection
<1>11. QED
  BY <1>10 DEF B

(* So the lists whose ORDER BY ends with the primary key have one order. *)
LEMMA StableHasOneOrder ==
  ASSUME TablesOK, Route \in StableRoutes
  PROVE  OneOrder
<1> SUFFICES ASSUME NEW s \in Orders, NEW u \in Orders PROVE s = u
  BY DEF OneOrder
<1> DEFINE c == Cardinality(Matching)
<1>1. /\ c \in Nat /\ s \in [1..c -> Matching] /\ u \in [1..c -> Matching]
      /\ \A i \in Matching : \E m \in 1..c : u[m] = i
  BY OrderIsListing
<1>2. ASSUME NEW n \in 1..c PROVE s[n] = u[n]
  <2>1. PICK m \in 1..c : u[m] = s[n]
    BY <1>1
  <2>2. Cardinality({i \in Matching : Before(i, s[n])}) = n - 1
    BY RowsBefore
  <2>3. Cardinality({i \in Matching : Before(i, u[m])}) = m - 1
    BY RowsBefore
  <2>4. n - 1 = m - 1
    BY <2>1, <2>2, <2>3
  <2>5. n = m
    BY <1>1, <2>4
  <2>6. QED
    BY <2>1, <2>5
<1> HIDE DEF c
<1>3. QED
  BY <1>1, <1>2

(* There are finitely many orders, each told by its graph. *)
LEMMA FiniteOrders == IsFiniteSet(Orders)
<1> DEFINE c == Cardinality(Matching)
           graph(s) == {<<n, s[n]>> : n \in 1..c}
           P == (1..c) \X Matching
           g == [s \in Orders |-> graph(s)]
<1>1. c \in Nat /\ IsFiniteSet(Matching)
  BY MatchingFinite
<1>2. \A s \in Orders : s \in [1..c -> Matching]
  BY DEF Orders
<1> HIDE DEF c
<1>3. IsFiniteSet(SUBSET P)
  <2>1. IsFiniteSet(1..c)
    BY <1>1, FS_Interval
  <2>2. IsFiniteSet(P)
    BY <1>1, <2>1, FS_Product
  <2>3. QED
    BY <2>2, FS_SUBSET
<1>4. ASSUME NEW s \in Orders PROVE graph(s) \in SUBSET P
  <2>1. \A n \in 1..c : <<n, s[n]>> \in P
    BY <1>2
  <2> HIDE DEF P
  <2>2. QED
    BY <2>1
<1>5. ASSUME NEW s \in Orders, NEW u \in Orders, graph(s) = graph(u) PROVE s = u
  <2>1. s \in [1..c -> Matching] /\ u \in [1..c -> Matching]
    BY <1>2
  <2>2. ASSUME NEW n \in 1..c PROVE s[n] = u[n]
    <3>1. <<n, s[n]>> \in graph(s)
      OBVIOUS
    <3>2. <<n, s[n]>> \in graph(u)
      BY <3>1, <1>5
    <3>3. PICK m \in 1..c : <<n, s[n]>> = <<m, u[m]>>
      BY <3>2
    <3>4. n = m /\ s[n] = u[m]
      BY <3>3
    <3>5. QED
      BY <3>4
  <2>3. \A n \in 1..c : s[n] = u[n]
    BY <2>2
  <2>4. QED
    BY <1>1, <2>1, <2>3
<1> HIDE DEF graph, P
<1>6. g \in [Orders -> SUBSET P] /\ \A s, u \in Orders : g[s] = g[u] => s = u
  BY <1>4, <1>5
<1> HIDE DEF g
<1>7. g \in Injection(Orders, SUBSET P)
  BY <1>6 DEF Injection, IsInjective
<1>8. QED
  BY <1>3, <1>7, FS_Injection

LEMMA SingleOrder ==
  ASSUME Cardinality(Orders) = 1
  PROVE  OneOrder
<1>1. PICK x : Orders = {x}
  BY FiniteOrders, FS_Singleton
<1>2. QED
  BY <1>1 DEF OneOrder

(* What a page adds to a walk. *)
LEMMA PageOfWalk ==
  ASSUME NEW c \in Nat, c = Cardinality(Matching), page \in 1..MaxInt,
         page = 1 \/ Offset < c, NEW s \in Orders, found = Page(s)
  PROVE  /\ DOMAIN found = 1..PageLen(c, Offset)
         /\ \A n \in 1..PageLen(c, Offset) :
              Offset + n \in 1..c /\ found[n].id = s[Offset + n]
         /\ Offset \in Nat /\ PageLen(c, Offset) \in Nat
         /\ LastPage => Offset + PageLen(c, Offset) = c
         /\ ~LastPage => PageLen(c, Offset) = PageSize
<1>1. Cardinality(Matching) <= Cardinality(Ids) /\ Cardinality(Ids) \in Nat
  BY MatchingFinite
<1>2. PageSize \in Nat \ {0} /\ MaxInt \in Nat \ {0} /\ Cardinality(Ids) + PageSize <= MaxInt
  BY ReadAssumption
<1>3. c + PageSize <= MaxInt
  BY <1>1, <1>2
<1>4. Offset \in Nat /\ Wrap(Wrap(page - 1) * PageSize) = Offset /\ (page = 1 => Offset = 0)
  BY <1>3, PageArithmetic
<1> DEFINE k == PageLen(c, Offset)
<1>5. /\ k \in Nat /\ DOMAIN Page(s) = 1..k
      /\ \A n \in 1..k : /\ Offset + n \in 1..c
                         /\ Page(s)[n] = Shown(s[Offset + n])
  BY <1>4, PageShape
<1>6. LastPage => Offset + k = c
  BY <1>2, <1>4 DEF LastPage, PageLen
<1>7. ~LastPage => k = PageSize
  BY <1>2, <1>4 DEF LastPage, PageLen
<1>8. QED
  BY <1>4, <1>5, <1>6, <1>7 DEF Shown

(* What WalkFits says of a walk over c rows, in terms of the orders they have. *)
LEMMA SamePage ==
  ASSUME rows' = rows, query' = query, page' = page
  PROVE  /\ Offset' = Offset /\ (LastPage' <=> LastPage)
         /\ Cardinality(Matching)' = Cardinality(Matching)
         /\ Orders' = Orders /\ (OneOrder' <=> OneOrder)
         /\ \A s : Page(s)' = Page(s)
<1>1. Matching' = Matching /\ Orders' = Orders /\ (OneOrder' <=> OneOrder)
  BY SameList
<1>2. Offset' = Offset
  BY DEF Offset
<1>3. Cardinality(Matching)' = Cardinality(Matching)
  BY <1>1
<1>4. LastPage' <=> LastPage
  BY <1>2, <1>3 DEF LastPage
<1>5. \A i : Shown(i)' = Shown(i)
  BY DEF Shown
<1>6. ASSUME NEW s PROVE Page(s)' = Page(s)
  BY <1>5 DEF Page
<1>7. QED
  BY <1>1, <1>2, <1>3, <1>4, <1>6

(* While a request runs, a walk stays where it is. *)
LEMMA WalkCounts ==
  ASSUME ReadInv, Walking, WalkFits, rows' = rows, query' = query, Count
  PROVE  WalkFits'
<1>1. /\ Step("count") /\ page' = page /\ walked' = walked /\ answer' = answer
      /\ total' = Cardinality(Matching) /\ StepsFit
  BY DEF Count, Step, reqVars, ReadInv, RequestInv
<1>2. steps # <<>> /\ Head(steps) = "count" /\ steps' = Tail(steps)
  BY <1>1 DEF Step
<1>3. answer = NoAnswer /\ steps' # <<>> /\ Head(steps') = "list"
  BY <1>1, <1>2, StepOrder DEF FindsFirst
<1>4. ~Listed' /\ answer'.code = 0 /\ answer.code = 0
  BY <1>1, <1>3, NoAnswerType DEF Listed
<1>5. QED
  BY <1>1, <1>4, SamePage DEF WalkFits

LEMMA WalkLists ==
  ASSUME ReadInv, Walking, WalkFits, rows' = rows, query' = query, List
  PROVE  WalkFits'
<1>1. /\ Step("list") /\ page' = page /\ walked' = walked /\ answer' = answer
      /\ total' = total /\ StepsFit
  BY DEF List, Step, reqVars, ReadInv, RequestInv
<1>2. steps # <<>> /\ Head(steps) = "list"
  BY <1>1 DEF Step
<1>3. answer = NoAnswer /\ Counted
  BY <1>1, <1>2 DEF StepsFit, Counted
<1>4. answer'.code = 0 /\ answer.code = 0
  BY <1>1, <1>3, NoAnswerType
<1>5. \E s \in Orders : found' = Page(s)
  BY DEF List
<1>6. QED
  BY <1>1, <1>3, <1>4, <1>5, SamePage DEF WalkFits

LEMMA WalkHydrates ==
  ASSUME ReadInv, Walking, WalkFits, rows' = rows, query' = query,
         NEW name \in {"competitors", "players", "teams"}, Step(name), UNCHANGED <<total, found>>
  PROVE  WalkFits'
<1>1. /\ page' = page /\ walked' = walked /\ answer' = answer
      /\ steps # <<>> /\ Head(steps) = name /\ StepsFit
  BY DEF Step, reqVars, ReadInv, RequestInv
<1>2. answer = NoAnswer /\ Counted /\ Listed
  BY <1>1 DEF StepsFit, Counted, Listed
<1>3. answer'.code = 0 /\ answer.code = 0
  BY <1>1, <1>2, NoAnswerType
<1>4. QED
  BY <1>1, <1>2, <1>3, SamePage DEF WalkFits

LEMMA WalkStands ==
  ASSUME WalkFits, UNCHANGED vars
  PROVE  WalkFits'
<1>1. /\ UNCHANGED <<rows, query, page, walked, answer, total, found, steps>>
  BY DEF vars, dbVars, reqVars, gotVars
<1>2. (Counted' <=> Counted) /\ (Listed' <=> Listed)
  BY <1>1 DEF Counted, Listed
<1>3. QED
  BY <1>1, <1>2, SamePage DEF WalkFits

(* The client follows the link to the next page. *)
LEMMA WalkFollows ==
  ASSUME ReadInv, Walking, WalkFits, rows' = rows, query' = query, Follow
  PROVE  WalkFits'
<1> DEFINE c == Cardinality(Matching)
<1>1. /\ answer.code = 200 /\ answer.next # 0 /\ page' = answer.next /\ walked' = walked
      /\ steps' = Service[Route].list /\ answer' = NoAnswer
      /\ page \in 1..MaxInt /\ query \in Query
  BY DEF Follow, Fresh, ReadInv, RequestInv, RequestOK, TablesOK
<1>2. ~LastPage /\ page' = page + 1 /\ Len(walked) = Offset + PageSize
  BY <1>1 DEF WalkFits
<1>3. c \in Nat /\ c + PageSize <= MaxInt
  BY MatchingFinite, ReadAssumption
<1>4. page = 1 \/ Offset < c
  BY DEF WalkFits
<1>5. /\ Matching' = Matching /\ Orders' = Orders /\ (OneOrder' <=> OneOrder)
  BY SameList
<1>6. Offset \in Nat /\ Offset' = Offset + PageSize
  <2>1. ((page + 1) - 1) * PageSize = Offset + PageSize /\ Offset \in Nat
    BY <1>1, <1>3, <1>4, PageArithmetic
  <2>2. QED
    BY <1>2, <2>1 DEF Offset
<1>7. Offset' < c /\ Len(walked) = Offset'
  BY <1>2, <1>3, <1>6, ReadAssumption DEF LastPage
<1>8. ~Counted' /\ ~Listed'
  BY <1>1, ListSteps DEF Counted, Listed
<1>9. answer'.code = 0
  BY <1>1, NoAnswerType
<1>10. Cardinality(Matching)' = c
  BY <1>5
<1> HIDE DEF c
<1>11. OneOrder => walked = <<>> \/ \E s \in Orders : \A n \in DOMAIN walked : walked[n] = s[n]
  BY DEF WalkFits
<1>12. QED
  BY <1>1, <1>5, <1>7, <1>8, <1>9, <1>10, <1>11 DEF WalkFits

(* The rows of a page come after those of the pages before it. *)
LEMMA Appended ==
  ASSUME NEW S, NEW w \in Seq(S), NEW d \in Seq(S), NEW k \in Nat, DOMAIN d = 1..k
  PROVE  /\ Len(w \o d) = Len(w) + k
         /\ \A n \in DOMAIN (w \o d) :
              \/ n \in DOMAIN w /\ (w \o d)[n] = w[n]
              \/ /\ n - Len(w) \in 1..k /\ n \in Nat /\ Len(w) + (n - Len(w)) = n
                 /\ (w \o d)[n] = d[n - Len(w)]
<1>1. Len(d) = k
  <2>1. DOMAIN d = 1..Len(d) /\ Len(d) \in Nat
    OBVIOUS
  <2>2. QED
    BY <2>1
<1>2. QED
  BY <1>1

(* A page is shown: the walk has grown by it, and knows whether it was the last. *)
LEMMA WalkShows ==
  ASSUME ReadInv, Walking, WalkFits, rows' = rows, query' = query, Answer
  PROVE  WalkFits'
<1> DEFINE c == Cardinality(Matching)
           k == PageLen(c, Offset)
           ids == [n \in DOMAIN found |-> found[n].id]
<1>1. /\ steps = <<>> /\ answer = NoAnswer /\ ask = "list" /\ page' = page /\ steps' = steps
      /\ total' = total /\ found' = found
      /\ answer' = [code |-> 200, next |-> NextPage] /\ walked' = walked \o ids
      /\ page \in 1..MaxInt /\ walked \in Seq(Ids) /\ RequestOK
  BY DEF Answer, Walking, gotVars, ReadInv, RequestInv, RequestOK
<1>2. Counted /\ Listed /\ answer.code = 0 /\ answer'.code = 200 /\ answer'.next = NextPage
  BY <1>1, NoAnswerType DEF Counted, Listed
<1>3. c \in Nat /\ c + PageSize <= MaxInt /\ (page = 1 \/ Offset < c)
  BY MatchingFinite, ReadAssumption DEF WalkFits
<1>4. total = c /\ Len(walked) = Offset
  BY <1>2 DEF WalkFits
<1>5. PICK s \in Orders : found = Page(s)
  BY <1>2 DEF WalkFits
<1>6. /\ DOMAIN found = 1..k
      /\ \A n \in 1..k : Offset + n \in 1..c /\ found[n].id = s[Offset + n]
      /\ Offset \in Nat /\ k \in Nat
      /\ LastPage => Offset + k = c
      /\ ~LastPage => k = PageSize
  BY <1>1, <1>3, <1>5, PageOfWalk
<1>7. NextPage = IF LastPage THEN 0 ELSE page + 1
  <2>1. /\ Wrap(page * PageSize) = Offset + PageSize
        /\ Offset + PageSize < c => Wrap(page + 1) = page + 1 /\ ParsePage(page + 1) = page + 1
    BY <1>1, <1>3, PageArithmetic
  <2>2. PageSize \in Nat
    BY ReadAssumption
  <2>3. LastPage <=> Offset + PageSize >= c
    BY DEF LastPage
  <2> HIDE DEF c
  <2>4. LastPage <=> Wrap(page * PageSize) >= total
    BY <1>4, <2>1, <2>3
  <2>5. ~LastPage => Offset + PageSize < c
    BY <1>3, <1>6, <2>2, <2>3
  <2>6. QED
    BY <2>1, <2>4, <2>5 DEF NextPage
<1>8. ids \in Seq(Ids) /\ DOMAIN ids = 1..k /\ \A n \in 1..k : ids[n] = s[Offset + n]
  BY <1>1, <1>6, IdsOfFound
<1> HIDE DEF ids, k
<1>9. /\ Len(walked') = Offset + k
      /\ \A n \in DOMAIN walked' :
           \/ n \in DOMAIN walked /\ walked'[n] = walked[n]
           \/ n - Offset \in 1..k /\ Offset + (n - Offset) = n /\ walked'[n] = ids[n - Offset]
  BY <1>1, <1>4, <1>6, <1>8, Appended
<1>10. Len(walked') = IF LastPage THEN c ELSE Offset + PageSize
  BY <1>6, <1>9
<1>11. ASSUME OneOrder PROVE \A n \in DOMAIN walked' : walked'[n] = s[n]
  <2>1. \A n \in DOMAIN walked : walked[n] = s[n]
    <3>1. CASE walked = <<>>
      <4>1. DOMAIN walked = {}
        BY <3>1
      <4>2. QED
        BY <4>1
    <3>2. CASE walked # <<>>
      <4>1. PICK u \in Orders : \A n \in DOMAIN walked : walked[n] = u[n]
        BY <1>11, <3>2 DEF WalkFits
      <4>2. u = s
        BY <1>11 DEF OneOrder
      <4>3. QED
        BY <4>1, <4>2
    <3>3. QED
      BY <3>1, <3>2
  <2>2. ASSUME NEW n \in DOMAIN walked' PROVE walked'[n] = s[n]
    <3>1. CASE n \in DOMAIN walked /\ walked'[n] = walked[n]
      BY <2>1, <3>1
    <3>2. CASE n - Offset \in 1..k /\ Offset + (n - Offset) = n /\ walked'[n] = ids[n - Offset]
      <4> DEFINE m == n - Offset
      <4>1. ids[m] = s[Offset + m]
        BY <1>8, <3>2
      <4>2. QED
        BY <3>2, <4>1
    <3>3. QED
      BY <1>9, <3>1, <3>2
  <2>3. QED
    BY <2>2
<1>12. /\ Offset' = Offset /\ (LastPage' <=> LastPage) /\ Cardinality(Matching)' = c
       /\ Orders' = Orders /\ (OneOrder' <=> OneOrder)
  BY <1>1, SamePage
<1> HIDE DEF c
<1>13. OneOrder => \E u \in Orders : \A n \in DOMAIN walked' : walked'[n] = u[n]
  BY <1>11
<1>14. QED
  BY <1>1, <1>2, <1>3, <1>4, <1>7, <1>10, <1>12, <1>13 DEF WalkFits

LEMMA WalkStep ==
  ASSUME ReadInv, WalkInv, [Next]_vars
  PROVE  WalkInv'
<1> SUFFICES ASSUME Walking' PROVE WalkFits'
  BY DEF WalkInv
<1>1. /\ writes = 0 /\ rows' = rows /\ query' = query /\ writes' = 0
  BY QuietStep DEF Walking, ReadInv, dbVars
<1>2. ask' = "list" /\ query.page <= 1 /\ answer'.code \in {0, 200}
  BY <1>1 DEF Walking
<1>3. ~Others
  <2>1. Others => writes' = writes + 1
    BY DEF Others, WriteRow, DeleteRow, WriteTeam, WritePlayer, Write
  <2>2. QED
    BY <1>1, <2>1
<1>4. ASSUME NEW c \in {404, 500}, answer' = [NoAnswer EXCEPT !.code = c] PROVE FALSE
  <2>1. answer'.code = c
    BY <1>4, NoAnswerType
  <2>2. QED
    BY <1>2, <2>1
<1>5. ASSUME ask' = ask, answer.code \in {0, 200} PROVE Walking /\ WalkFits
  BY <1>1, <1>2, <1>5 DEF Walking, WalkInv
<1>6. StepsFit
  BY DEF ReadInv, RequestInv
<1>7. ASSUME NEW name, Step(name) PROVE Walking /\ WalkFits
  <2>1. ask' = ask /\ answer = NoAnswer
    BY <1>6, <1>7 DEF Step, reqVars, StepsFit
  <2>2. QED
    BY <2>1, <1>5, NoAnswerType
<1>8. CASE Count
  <2>1. Step("count")
    BY <1>8 DEF Count
  <2>2. QED
    BY <1>1, <1>7, <1>8, <2>1, WalkCounts
<1>9. CASE List
  <2>1. Step("list")
    BY <1>9 DEF List
  <2>2. QED
    BY <1>1, <1>7, <1>9, <2>1, WalkLists
<1>10. CASE Get
  BY <1>2, <1>6, <1>10 DEF Get, Step, reqVars, StepsFit
<1>11. CASE NotFound
  BY <1>4, <1>11 DEF NotFound
<1>12. ASSUME NEW name \in {"competitors", "players", "teams"}, Step(name),
              UNCHANGED <<total, found>>
       PROVE  WalkFits'
  BY <1>1, <1>7, <1>12, WalkHydrates
<1>13. CASE Competitors \/ TeamsByIDs \/ PlayersByIDs
  BY <1>12, <1>13 DEF Competitors, TeamsByIDs, PlayersByIDs
<1>14. CASE Rejected \/ DatabaseFails
  BY <1>4, <1>14 DEF Rejected, DatabaseFails, ServerError
<1>15. CASE Answer
  <2>1. ask' = ask /\ answer = NoAnswer
    BY <1>15 DEF Answer
  <2>2. Walking /\ WalkFits
    BY <2>1, <1>5, NoAnswerType
  <2>3. QED
    BY <1>1, <1>15, <2>2, WalkShows
<1>16. CASE Follow
  <2>1. ask' = ask /\ answer.code = 200
    BY <1>16 DEF Follow
  <2>2. Walking /\ WalkFits
    BY <2>1, <1>5
  <2>3. QED
    BY <1>1, <1>16, <2>2, WalkFollows
<1>17. CASE OpenMalformed \/ \E W \in SUBSET Ids : Open(W)
  BY <1>2, <1>17 DEF OpenMalformed, Open
<1>18. CASE UNCHANGED vars
  <2>1. ask' = ask /\ answer' = answer
    BY <1>18 DEF vars, reqVars
  <2>2. WalkFits
    BY <2>1, <1>2, <1>5
  <2>3. QED
    BY <1>18, <2>2, WalkStands
<1>19. QED
  BY <1>3, <1>8, <1>9, <1>10, <1>11, <1>13, <1>14, <1>15, <1>16, <1>17, <1>18 DEF Next, Serve

LEMMA WalkStarts ==
  ASSUME Init
  PROVE  WalkInv
<1>1. /\ page = ParsePage(query.page) /\ steps = Service[Route].list /\ walked = <<>>
      /\ answer = NoAnswer /\ query \in Query
  BY ReadAssumption DEF Init
<1>2. SUFFICES ASSUME query.page <= 1 PROVE WalkFits
  BY DEF WalkInv, Walking
<1>3. page = 1 /\ Offset = 0
  <2>1. query.page \in Int
    <3>1. query.page \in GoInt
      BY <1>1 DEF Query
    <3>2. MaxInt \in Nat
      BY ReadAssumption
    <3>3. QED
      BY <3>1, <3>2 DEF GoInt
  <2>2. page = 1
    BY <1>1, <1>2, <2>1 DEF ParsePage
  <2>3. QED
    BY <2>2, ReadAssumption DEF Offset
<1>4. ~Counted /\ ~Listed
  BY <1>1, ListSteps DEF Counted, Listed
<1>5. answer.code = 0 /\ Len(walked) = 0
  BY <1>1, NoAnswerType
<1>6. QED
  BY <1>1, <1>3, <1>4, <1>5 DEF WalkFits

(* Walking a list from its first page while nobody writes shows as many rows as
   the list has and, where its order is total, each of them once and in order,
   whatever the page size and however PostgreSQL orders rows with equal keys:
   the offsets of the pages and the next links computed by DRFList agree. *)
THEOREM WalksAreComplete == Spec => []WalkShowsEachOnce
<1>1. Init => WalkInv
  BY WalkStarts
<1>2. ReadInv /\ WalkInv /\ [Next]_vars => WalkInv'
  BY WalkStep
<1>3. ReadInv /\ WalkInv => WalkShowsEachOnce
  <2> SUFFICES ASSUME ReadInv, WalkInv, WalkOver, answer.code = 200, writes = 0, query.page <= 1
               PROVE  /\ Len(walked) = Cardinality(Matching)
                      /\ Route \in StableRoutes \/ Cardinality(Orders) = 1 =>
                           \A m, n \in DOMAIN walked :
                             m < n => /\ walked[m] # walked[n]
                                      /\ Rank(walked[m]) <= Rank(walked[n])
    BY DEF WalkShowsEachOnce
  <2>1. WalkFits /\ answer.next = 0 /\ TablesOK /\ walked \in Seq(Ids) /\ page \in 1..MaxInt
    BY DEF WalkInv, Walking, WalkOver, ReadInv, RequestInv, RequestOK
  <2>2. LastPage
    BY <2>1 DEF WalkFits
  <2>3. Len(walked) = Cardinality(Matching)
    BY <2>1, <2>2 DEF WalkFits
  <2>4. ASSUME Route \in StableRoutes \/ Cardinality(Orders) = 1,
               NEW m \in DOMAIN walked, NEW n \in DOMAIN walked, m < n
        PROVE  walked[m] # walked[n] /\ Rank(walked[m]) <= Rank(walked[n])
    <3> DEFINE c == Cardinality(Matching)
    <3>1. OneOrder
      BY <2>1, <2>4, StableHasOneOrder, SingleOrder
    <3>2. walked # <<>>
      BY <2>4
    <3>3. PICK s \in Orders : \A i \in DOMAIN walked : walked[i] = s[i]
      BY <2>1, <3>1, <3>2 DEF WalkFits
    <3>4. DOMAIN walked = 1..c
      BY <2>1, <2>3
    <3>5. /\ s \in [1..c -> Matching]
          /\ \A i, j \in 1..c : i < j => s[i] # s[j] /\ Before(s[i], s[j])
      BY OrderIsListing
    <3> HIDE DEF c
    <3>6. s[m] \in Matching /\ s[n] \in Matching /\ s[m] # s[n] /\ Before(s[m], s[n])
      BY <2>4, <3>4, <3>5
    <3>7. Rank(s[m]) \in Int /\ Rank(s[n]) \in Int
      BY <2>1, <3>6, RankType
    <3>8. Rank(s[m]) <= Rank(s[n])
      BY <3>6, <3>7 DEF Before
    <3>9. QED
      BY <2>4, <3>3, <3>6, <3>8
  <2>5. QED
    BY <2>3, <2>4
<1>4. QED
  BY <1>1, <1>2, <1>3, ReadInvHolds, PTL DEF Spec
==============================================================================
