# go-espn-api: specifications, model checking and proofs

TLA+ specifications of `go-espn-api`: how it fetches sports data from ESPN and the NHL and
keeps it in PostgreSQL, what its readers may rely on while several processes ingest at
once, how the read API answers meanwhile, how the HTTP server starts, limits and stops, and
what survives failures, panics, crashes and shutdowns. TLC checks the
specifications on small instances; TLAPS proves every safety property among them, and both
refinements, for every instance.

Contents: [the system](#1-the-system), [modules](#2-the-modules-and-the-code),
[runs](#3-the-runs), [fairness](#4-fairness), [proofs](#5-the-proofs),
[findings](#6-findings), [what is left out](#7-what-is-not-modelled),
[what could follow](#8-what-could-follow).

## 1. The system

Three executables share one PostgreSQL database: `cmd/app` (the HTTP API, which also
offers `POST /api/v1/ingest/*`), `cmd/worker` (the ingest worker: a cron, or with `--once`
one pass over all jobs) and `cmd/migrate`.

```
 cron ticks / --once            POST /ingest/*               GET /api/v1/*
        |                             |                            |
  scheduler.runJob              handlers/ingest              services, repositories
        |                             |                            |
   fanOut (errgroup)                  |                      count, list, join
        |                             |                            |
        +------> internal/ingest services <---- ESPN / NHL client  |
                      |   withTx: begin .. commit / rollback       |
                      v                                            v
              write pool (10 connections per process)          read pool
                      +-------------- PostgreSQL --------------+
```

| Component | State it keeps | Operations | What is hard, and what makes it correct |
|---|---|---|---|
| Write transactions (`ingest/result.go`, `infras/postgres`) | pool slots, open transactions, row locks | begin, statement, commit, rollback | `Beginx` waits without a deadline while others hold locks; a panic ends neither way. Locks belong to somebody, and everybody is served. |
| Injury ingest (`ingest/injuries.go`) | the `injuries` rows of a league | lock sport and league, fetch, delete, insert, commit | No unique constraint: overlapping calls must not mix or duplicate reports, nor put an old one over a new one. |
| Scoreboard ingest (`ingest/scoreboard.go`) | events, venues, competitors, minimal teams | upsert venue and event, replace competitors | Venues are global rows locked in feed order by transactions of different sports. |
| Upsert ingests (`teams.go`, `news.go`, `transactions.go`, `athletestats.go`) | one table each | upsert per item | Transactions are found, then inserted, with no constraint behind them; articles are global rows locked in feed order. |
| NHL sync (`nhl_teams.go`, `nhl_rosters.go`, `nhl_standings.go`) | `nhl_*` tables | deactivate all then upsert; roster per active team | No lock before the fetch; the list of teams is read outside the transactions. |
| ESPN client, NHL client (`infras/espn`, `infras/nhl`) | ESPN: relay cursor, shared by all calls; NHL: none | `Get`: relay failover (ESPN), direct request, retry, backoff | Concurrent rotation, one try per relay, retries against cancellation. |
| Worker and scheduler (`internal/scheduler`, `cmd/worker`) | cron, runs, units, context, pools | tick, `runJob`, `fanOut`, unstick, signal, drain, close | Jobs overlap; failing, panicking and hanging units; a shutdown at any moment. |
| Read API (`internal/domains/*`, `internal/handlers/*`, `response/drf.go`) | none | count, list, join, paginate | Several queries of one answer see different moments. |
| HTTP server (`transport/http`), ingest handlers | `State`, middleware | serve, grace, cleanup, exit; validate, call, answer | State written by the signal goroutine and by main while requests read it. |
| Rate limiter, cache | Redis counters | read, count, save | Read-modify-write of a shared counter that expires. |
| Migrations, configuration, wiring, Redis/Kafka/S3/OTel adapters | none of interest | | Pure I/O, constants or generated code. |

`PROJECT.json` lists every component with its status, and under `hazards` the places of
this code that tests hardly reach, each with the properties that would notice.

## 2. The modules and the code

`PROJECT.json` maps every definition to the lines it stands for. Definitions named
`...Bug_...` are mutants: each is a plausible error in the definition it is named after,
and TLC finds the property it is paired with violated when it takes that definition's
place. They are in no next-state relation.

**WriteTx** is the common ground of the ingest services: `busy` (connections handed out),
`conn[t]` (the connection of task `t`'s transaction) and `lock[k]` (whose transaction
holds row `k`). Its operators are conjoined by an ingest service's actions: `TxBegin`
(`Beginx`: a free slot of the task's *own* process), `TxLock` (an `INSERT .. ON CONFLICT DO
UPDATE` waits for the row's holder), `TxEnd` (commit and rollback), `TxAbandon` (a panic
through `withTx`), `TxCrash` (PostgreSQL rolls a dead process's transactions back).

**InjuryIngest** is `IngestInjuries` run by tasks of the worker and of the API, one action
per call it makes:

| Action | Code |
|---|---|
| `IngestInjuries`, `Begin`, `BeginFails` | the call; `withTx`'s `Beginx` and its error |
| `ResolveSport`, `ResolveLeague` | the two upserts of `resolveSportLeague`, which lock |
| `Fetch` | `GetLeagueInjuries`, decoding, and the early `nil` of an empty report |
| `Clear`, `Insert`, `LoopEnds` | the `DELETE`; one turn of the loop; its end |
| `Commit`, `CommitFails`, `Rollback` | the end of `withTx`; a lost acknowledgement may or may not have committed |
| `Fail`, `Panic`, `Crash` | any error or ended context of the closure; a panic in it; the process dies |
| `Publish` | ESPN has a new report |

`table[l]` holds committed rows; `del[t]`, `ins[t]` what the open transaction has done to
them. A row is its entry, the version of the report it came from and the task that inserted
it (which stands for the row's id, so that a report inserted twice by two calls is two sets
of rows). Readers see `table` only: PostgreSQL's READ COMMITTED is a snapshot per statement,
and a read of the injuries is one statement.

**SnapshotStore** is what `InjuryIngest` promises: a league's rows are replaced in one step
by those of a published report that is no older. `InjuryIngest` implements it under the
mapping that forgets who inserted a row.

**ScoreboardIngest** is `IngestScoreboard`, again over WriteTx, with four tables instead of
one. `call[t]` holds the locals of a call (`pos` and `idx` count through the scoreboard's
entries and an entry's competitors), `write[t]` the rows its transaction has written, and
`store` the committed ones; a row of `events` is the entry it was made from (board, version,
position), which determines its other columns.

| Action | Code |
|---|---|
| `ResolveSport`, `ResolveLeague`, `Fetch` | `resolveSportLeague`; `GetScoreboard`, decoding, and the early `nil` |
| `SkipEntry`, `UpsertVenue` | `ingestEvent` up to and including `upsertVenue` |
| `UpsertEvent` | `events.UpsertTx` with its `inserted`, and `DeleteByEventTx` |
| `CreateCompetitor`, `EventEnds`, `LoopEnds` | `createCompetitor`: skipped, rejected by the unique constraint, or inserted; the counters; the end |
| `DeadlockAbort` | PostgreSQL fails a statement of a call that waits in a circle |

A *board* is a league's scoreboard of one date. The dates of a league are published together
and may list the same game.

**EventBoard** is what it promises: a scoreboard is stored whole, games together with their
competitors, and no game goes back. `ScoreboardIngest` implements it under the mapping that
shows the `events` and `competitors` of `store`.

**IngestServices** describes the other seven ingests as records: how the repository writes a
row (backed by a unique constraint or found first; per league or global) and what the service
does around it (locks sport and league, fetches inside its transaction, deactivates first,
refers to a team). It has one definition per service and per `UpsertTx`.

**UpsertSync** runs these services over WriteTx, in several processes:

| Action | Code |
|---|---|
| `StartCall`, `Begin`, `ResolveSport`, `ResolveLeague`, `Fetch` | as for the other ingests; an NHL call takes no lock before its rows |
| `Deactivate`, `DeactivateRow`, `DeactivateEnds` | `DeactivateAllTx`: one `UPDATE` over the rows committed when it starts, waiting for each that is locked |
| `SkipEntry`, `Upsert`, `UpsertByESPN`, `LoopEnds` | a turn of the loop: parse error, unknown team; `ON CONFLICT`; `SELECT` then `UPDATE` or `INSERT`; the end |
| `Commit`, `Fail`, `Rollback`, `DeadlockAbort`, `Crash` | the ways a transaction ends |
| `Panic` | a panic in the closure, after which the transaction stays open (finding 1), in the calls of `Panics` |
| `ListActive`, `GoTeam`, `FetchRoster`, `RosterFails`, `Wait` | `SyncRosters`: list of active teams, bounded group, one transaction per team, errors counted and passed over |

Of a row it keeps how many there are (`count`) and, for NHL teams, whether they are active.

**ReadResources** describes the read endpoints, one definition per handler, service and
repository: the parameters a handler passes on and which of them it drops when malformed, the
statements a service runs in which order, which parameters the SQL uses, parses or cannot
prepare, which columns `?ordering=` may name and whether `ORDER BY` ends with the key.

**ReadApi** runs one client through them: the pages of a list by their `next` links, then one
row by its key or ESPN id. `steps` holds the statements a request has yet to run; each sees
the rows of its own moment, and `Others` commit changes in between. `Orders` is every order
PostgreSQL may return; `Wrap` is Go's arithmetic on an `int` of `MaxInt`. The rows behind
`next` and the count of matches come from `ParsePage`, `DRFList` and `pageURL`.

**HttpServer** is the API's process: `Serve`'s start with the signal goroutine of
`respondToSigterm` beside it (`main`, `signal`, `State`), a request's way through
`serverStateMiddleware`, `RateLimit`, the mux, `APIKeyRequired` and the ingest handlers (`pc`),
and Redis counters that run down (`Tick`). The signal goroutine never waits for main: `GraceEnds`
and `CleanupEnds` may come before `SetReady`, as with periods of zero they do; `overtaken`
remembers that `SetReady` then wrote over the cleanup period. `Count` and `Save` are `RateLimit`'s
two calls; each may fail, after which the request goes on. `config` is chosen in `Init`.

**IngestWorker** is the worker process: `Tick` (a cron firing, whether or not the job's last
run is over), `RunNext` (`--once`), `RunJob`, the unstick listing, `Go`/`Look`/`Wait` with
the outcomes of a unit (`fanOut`), the NHL syncs, and `Run`'s `Signal`, `Stop`, `Cancel`,
`Drained` or `DrainTimeout`, `CloseDB`, `Exit`. An ingest call is seen as `fanOut` sees it: it
returns, fails, panics, or hangs in `Beginx`. Units are started in any order, of which the
slice's order is one.

**EspnClient** is `Get` for concurrent calls on one client: `Send` takes a place in the
rotation, `RelayFails` moves on to the next relay and in the end to `Direct`, `Conclude` is
what `requestWithRetry` makes of an attempt. `EndContext` may happen at any time. The number
of relays is chosen in `Init`, and so is the client: with `api = "nhl"` it is `infras/nhl`'s
`get`, the same loop without relays, to which every failure is one that may go away
(`NhlOutcomes`).

**WriteTxProofs, InjuryIngestProofs, ScoreboardIngestProofs, UpsertSyncProofs,
IngestWorkerProofs, EspnClientProofs, HttpServerProofs, ReadApiProofs** hold the proofs;
**MCInjuryIngest, MCScoreboardIngest, MCIngestWorker, MCEspnClient, MCUpsertSync, MCReadApi,
MCHttpServer** the instances TLC checks.

## 3. The runs

| Run | Question | Bounds |
|---|---|---|
| `injury_safety` | Do readers only ever see one whole, never older report, whatever fails? | one task per process, two leagues of one sport, three reports per league: two entries, none, one of the first again with one that is rejected |
| `injury_live` | Does every call return, although locks are held across the fetch and the pool is waited for without a deadline? | three calls, one league, one connection per process, no panics |
| `injury_panic` (violation) | Is a row lock always held by somebody's transaction? | as above with panics |
| `injury_empty` (violation) | Does a successful call leave the report it fetched? | as `injury_safety` |
| `worker_safety` | Is every unit accounted for, is the process quiet when it closes its pools, does a signal end it, does every job end although its units wait for slots? | two runs, a job of each kind, two units, limit 1 |
| `worker_pool` (violation) | Do concurrent ingests fit the pool? | limit 2, pool of 3 |
| `scoreboard_safety` | Is every game stored whole with its competitors, never older, and every entry accounted for? | one task per process, two dates of a league and one of another sport, two versions each |
| `scoreboard_live` | Does every call return, although calls lock shared venues in opposite orders? | two tasks, three boards, no panics |
| `upsert_sync` | Is every row there once, do the active NHL teams mirror a feed at every moment, does every call return unless a panic left a transaction open? | a worker and a one-shot back-fill, one task each; two versions of each feed; panics in `nhlStandings` |
| `read_api` | Does a response fit together although others write between its statements, does a walk show each row once, does it end? | 14 routes, four rows or two or none, pages of three, an `int` of four bits, one write, each parameter alone |
| `http_server` | Is a client's counter what it got through, is it let in again, and is nothing served in the cleanup period unless `State` was overwritten? | two requests of one client, two per window of two ticks, six kinds of request, production and development |
| `espn_client` | Balanced rotation, failover through each relay, no dropped retry, every call returns | two calls, two attempts; ESPN's client with zero to three relays, the NHL's |

Why the bounds are enough: a conflict is between two calls, so two tasks in different processes
show it, and two leagues of one sport show that the sport's lock is what separates them. Three
reports give every order of early fetch and late commit, and the empty report in the middle takes
the early return between two that delete. For liveness a third call is there because it must both
wait for the pool and for a lock while others hold them. A run's fate depends on one other run
(the drain waits for both). Its slots are its own: with a limit of one, the second unit waits for
the slot of the first, and gets it when that one returns, fails or panics, or never while it
hangs; units side by side in one run are those of `worker_pool` and of the theorems, which are for
any limit. The scoreboards hold every case of the loop: no id, no venue, no team, a team listed
twice in a game, a game listed twice, a game that moves to another date, an empty scoreboard; two
venues in opposite orders are the smallest circle. Two calls on the client interleave every pair
of steps on the cursor, and with three relays and two attempts the rotation wraps.

In `upsert_sync` the two tasks are in different processes, where neither a pool nor a
goroutine keeps them apart. The feeds hold each case of the loop: an entry twice, one that is
refused, a transaction without an id, an article in both orders (the smallest circle of row
locks), a team that leaves the league, a standing of a team that may not be there yet, an
empty feed. `MCMakes` divides the calls so that those that meet are made by both: the
transactions, the articles of two sports, the NHL teams; a back-fill syncs standings, the worker
rosters. Panics are in one kind of call because each transaction left open multiplies the states;
the theorems allow them in all. With one task per process, a goroutine of a roster group waits
for rows, but not for the slot or the connection of another: waiting for a connection is
`injury_live`'s. `IngestTeams` and
`IngestAthleteStats` have the steps of `IngestNews` with a key per league, so two of their
calls that share a row also share a sport; the instance has no call of theirs.

In `read_api` four rows over pages of three make a second page that is not full, with equal
and different sort keys on both sides of the boundary; one row is inactive and one satisfies
no filter. A single write between two statements is enough to make any two of them disagree.
With an `int` of four bits the largest pages overflow in each of `page*pageSize`,
`(page-1)*pageSize` and `page+1`; where they overflow depends on the width only through
`MaxInt`. In `http_server` two requests interleave each pair of `Get` and `Save`, and two
requests per window are the least with which a counter is counted up, saved and refused.
The theorems of section 5 do not depend on any of these bounds.

Bounds named in the modules: `MaxVersion` (reports, or versions of scoreboards, per league),
`Runs` (each execution of a job is used once), `MaxRelays`, `MaxRetries`, `MaxInt`, `MaxWrites`
(changes others commit during a walk), `MaxShared` (rows that share an ESPN id), `MaxRequests`,
`Window`. `CHECK_DEADLOCK FALSE` is set for the worker and the server, which exit, and for the
clients, whose calls and walks are over at some point.

What the properties say:

- `SportSerialised`: between its row locks and its end, a call is alone in its sport.
- `IngestInv`: the locks, what was fetched under them and what the open transaction has
  written hang together, and `table` holds exactly one report per league.
- `NeverRegresses`, `OnlyCommitsShow`: no older report over a newer one; no partial or
  uncommitted change, whatever fails, panics or dies.
- `CreatedIsStored`: the count a successful call returns is what it stored.
- `StoreSpec`: all of it together, as the abstract store's specification.
- `NoOrphanedLock`, `EveryCallReturns`: whoever is waited for is still running; no call
  waits for ever.
- `ScoreboardInv`: locks, fetched versions, uncommitted writes and tables hang together, a
  game in the table has exactly the competitors of the entry it came from, and a transaction
  has counted and written exactly what the entries it has passed say.
- `GamesNeverRegress`, `BoardSpec`: no game goes back, even when it moves between dates; a
  scoreboard is stored whole or not at all.
- `CountsAreRows`: the counters add up to the entries, and Created to the new games.
- `CirclesAreVenues`: calls wait in a circle for venues only, because the lock on the sport
  orders everything else.
- `NoUnitLost`, `SummaryAddsUp`: no unit is forgotten when another fails or panics or the
  context ends, and the logged summary agrees with the units.
- `DrainedIsQuiet`, `ShutdownCompletes`: shutdown order, and its end in the presence of hanging units.
- `EveryRunReturns`: a unit that waits for a slot gets one from each unit that ends, however it
  ends, and also after the context is over.
- `LoadBalanced`, `DirectIsLastResort`, `GivesUpLate`, `EveryGetReturns`: the client's
  rotation, failover, retries and progress; `ClientInv` is the invariant behind them.
- `UpsertInv`: locks and uncommitted writes hang together, a key has one row, which for
  transactions no constraint guarantees, and a `SyncTeams` call is at one version of its feed.
- `SyncMirrorsFeed`: the active NHL teams change only by a commit of `SyncTeams`, and one that
  no other `SyncTeams` overlapped leaves exactly the teams of the answer it fetched.
- `HydrationFits`: an event comes with the competitors of one moment, not older than the game
  shown, and what a row refers to is in the response.
- `WalkShowsEachOnce`, `ListedIsFound`, `EveryWalkEnds`: paging over an unchanged table,
  lists against details, and the end of `next` links also from absurd pages.
- `LimiterInv`: unless a save was based on an outdated read, the counter is the number of
  requests let through; it exists exactly while its window runs.
- `OnlyOvertakenServes`: a request accepted in the cleanup period gets its 503 and reaches nothing,
  unless main has put Ready over that period (section 6); also when Ready overwrites the grace
  period.
- `LockoutEnds`: a client that has used up its window is let in again while it goes on asking.

## 4. Fairness

- `InjuryIngest!FairSpec`: weak fairness of a call's own steps (goroutines are scheduled, a
  fetch and a statement are bounded by timeouts and answer or fail); strong fairness of
  `Begin` and `ResolveSport`, because `database/sql` hands connections to waiters in order and
  PostgreSQL queues waiters for a row. `ResolveLeague` needs only weak fairness: the sport's
  lock is held by then. Nothing is assumed of errors, panics or crashes.
- `ScoreboardIngest!FairSpec`: the same, with strong fairness of every step that locks a row
  and weak fairness of `DeadlockAbort`: PostgreSQL looks for circles when a statement has
  waited for `deadlock_timeout`.
- `IngestWorker!FairSpec`: weak fairness of the main goroutine (its drain timer fires), of
  each run's own steps and of what it waits for, which answers or *hangs* — a hang is a legal
  answer, so no run is assumed to end. No fairness of ticks, deadlines or the signal.
- `EspnClient!FairSpec`: weak fairness of a call's steps: `http.Client.Timeout` bounds every
  request and a timer every backoff. The caller's context need not end.
- `UpsertSync!FairSpec`: strong fairness of a call's own steps together, which is the same for the
  reasons given above: a call that waits has no step but the one it waits for, and a member of a
  circle has `DeadlockAbort`. Nothing is assumed of `StartCall`, `ListActive`, `GoTeam` or
  `Publish`: no call needs to start, and `EveryCallReturns` is about those that did.
- `ReadApi!FairSpec`: weak fairness of `Serve` (a request's statements run one after the other)
  and of `Follow` (the client follows links). `DatabaseFails` and `Others` are free.
- `HttpServer!FairSpec`: weak fairness of `Tick` only: time passes in Redis. `LockoutEnds`
  therefore holds whatever requests do, hang or never come.

## 5. The proofs

Everything below is checked by `tlapm` from `PoolAssumption`, `IngestAssumption`,
`ScoreboardAssumption`, `AbsentAssumption`, `SyncAssumption`, `WorkerAssumption`,
`ClientAssumption`, `HttpAssumption` and `ReadAssumption`, which TLC evaluates on the runs of
their modules. Beyond the types of the constants these say:

- Scoreboards: two boards that list a game or a team are of one league, because an event and
  a team are found by league and ESPN id (`ON CONFLICT (league_id, espn_id)`); rows of
  different tables are different rows, so that the name of a row is the name of its lock.
- Upserts: each service writes a table of its own, a row with the league in its key is in the
  feeds of one league only, and standings name NHL teams.
- Read API: teams and players are rows of different tables, and the number of rows plus a
  page's size fits Go's `int`. Nothing is assumed of the page a client asks for.

**WriteTx / InjuryIngest**, for any tasks, processes, pools, leagues and reports.
`TypeOK` alone is not enough for what matters: that two calls do not overlap is a fact about
locks, and that a commit is the newest report is a fact about what was fetched under them.
The inductive invariant `IngestInv` therefore has five parts. `TxInv`: connections of open
transactions are busy, no two tasks share one, and only busy connections hold locks.
`LocksHeld`: a task past `ResolveSport` holds its sport's lock. `FetchedIsNewest`: a report
fetched under the lock is no older than any row of its league, because nobody else can
commit there meanwhile. `WritesAreTheReport`: what a transaction has deleted and inserted so
far is determined by the report and the entries still to do. `SnapshotIsOneReport` is then
what a commit leaves. The argument of a step: locks are exclusive (`LocksSerialise`), so a
commit in one league leaves the other tasks' `Fresh` and `Writes` alone. From it follow
`TypeCorrect`, `IngestInvHolds`, `Serialised`, `OneReport`, `NoRegression`,
`UncommittedInvisible` and `ImplementsStore` (every step is a step of `SnapshotStore` or
leaves it alone). `LocksHaveOwners` adds that, as long as no closure panics, every row lock is
held by the open transaction of a running call (`OwnersStep`: only `Panic` lets a task forget
a connection that is not given back); finding 1 is what happens without that hypothesis.
`CreatedCounts` needs one more fact of the same kind: the counter of a transaction is the
cardinality of the set of entries it has inserted (each turn of the loop adds a row that was
not there), and what a commit leaves in the table is that set.

**ScoreboardIngest**, for any sports, leagues, boards, rows, tasks and pools. The invariant
`GamesInv` has `TxInv` and `LocksHeld` again, and three parts of its own. `Fresh`: what a
call fetched is at least as new as any game of its league. `Writes`: the games a transaction
has written are, each, what its entry says, the current one up to the competitor it has come
to (`UpTo`); `UpToSteps` is the step from one competitor to the next. `GamesAreWhole`, the
part readers care about, is then kept by a commit (`GameCommitted`) and, because venues and
teams are never taken away, for the games a commit does not touch (`GameStays`). The other
calls keep `Fresh` because a commit under one sport's lock writes games of that sport only
(`CommitKeepsOthers`). `ScoreboardTypeCorrect`, `GamesInvHolds`, `ScoreboardsSerialised`
and `NoGameRegresses` follow; the last needs that two boards which list a game are of one
league, since `Fresh` compares within a league. That a game's venue is there when it commits
depends on the order of `ingestEvent`: `Writes` carries it from `UpsertVenue` to the commit.

`GamesInv` says that what is written is right, not that it is everything. `ScoreboardInv` adds
the other half. `Progress`: a transaction has written the games of exactly the entries before
`pos`, each as the last of these lists it; its counters add up to these entries; and
`created` is the number of the written games that are not in the table, which stays true while
other calls commit because nobody else can add a game of the sport. `LocksOwn`: the rows a
transaction has locked are its sport, its league, venues, and games and teams of its board.
From them follow `ScoreboardInvHolds` and three theorems. `CountsHold`: at the commit `pos` is
past the end, so everything is accounted for and `created` is what the commit adds.
`ImplementsBoard`: what the commit writes is the whole board, which is `EventBoard`'s one step;
every other step is a stutter, and `Fresh` is why the board may be stored: no game on it is
newer than what was fetched.
`OnlyVenuesCircle`: a waiting call that is waited for holds its sport; the row it waits for, if
it is not a venue, would be a row of a board of the same league as the holder's, hence of the
same sport, and two calls do not both hold that; so what is left are venues.

**UpsertSync**, for any calls and feeds. `UpsertInv` is inductive as it stands. `OneRowPerKey`
rests on `WritesAreNew`: a row a transaction has written as new, and may still commit, is not
there. A step keeps this because two transactions cannot both have one row as new
(`InsertsApart`): they are of one service; if a constraint backs its table, the row's own lock
belongs to one of them; if not, they are of one league, and the lock on its sport does.
`ServiceFacts` is all the proof needs to know of the seven services. `SyncMirrors`
(`SyncMirrorsFeed` for every instance) rests on `ActiveMirrored`: what a `SyncTeams` call has put
and has yet to put are the teams of one version of its feed, and while it is alone each active
team is one it has met or has yet to meet in its scan. From the scan's end no active team is
unmet, so what the commit leaves active is what it has put.

**IngestWorker**, for any jobs, units, limit and one-shot order: `WorkerTypeCorrect`;
`UnitsAccounted` (a run returns from `spawning` only when all its units are settled, and
units of a returned run never move again; `UnitInv`, proved by `UnitInvHolds`, is the
invariant); `SummaryCorrect` (the counters are cardinalities of sets of units: a step that
settles a unit moves it into one of these sets and counts it,
and a run that is not spawning has none to count); `DrainSafe` (once stopped, the cron starts
nothing, and a one-shot worker closes only when nothing runs).

**EspnClient**, for any number of calls, relays and attempts. `ClientInv` says where the rotation
stands (`starts` of a relay is that of the last one, plus one if the cursor has passed it in this
round) and which relays a failover has been through (the first `k` of its turns, all different).
The lemmas `ModNext`, `TurnsDiffer` and `FailoverTurn` are the arithmetic of `%` behind both.
Theorems `ClientTypeCorrect`, `ClientInvHolds`, `RelaysBalanced`, `DirectLast`, `RetriesUsed`.

**HttpServer**, for any configurations, clients, numbers of requests and windows. `LimiterCounts`
needs, beside `TypeOK`, that a request on its way from `Count` to `Save` holds a count between one
and the limit, and one that is not holds none: then what `Save` writes is positive, and one more
than the counter unless the counter has moved, in which case `Saved` has marked it `stale`
(`WindowInv`). `CleanupServes` is `OnlyOvertakenServes` for every order of main and the signal
goroutine: no request is accepted before `SetReady`, so that one accepted in the cleanup period
finds `cleanup` in `State`, unless `SetReady` was the last to write it (`CleanupInv`).

**ReadApi**, for any tables, page size, width of `int` and number of writes by others.
`HydrationInv`, `ListedInv` and `WalkInv` are the invariants; `ReadInv` is the first with the
types of the variables.

- *One answer.* `StepsFit` says which statements a request of a route has left, so that a
  hydrating statement always comes after the one that found rows; `RowsFit` that a row refers
  to what is there. `TablesStay` is what the schema's foreign keys and the absence of deletes
  give: nothing that was referred to goes away and no version goes back. So whatever `found`
  refers to is found by the later statement (`CompetitorsFits`, `TeamsFits`, `PlayersFits`).
  Theorems `ReadTypeCorrect`, `ResponsesHydrated`. That the page stays an `int` although
  `DRFList` computes with ints that wrap is `NextPageType`.
- *Lists and details.* `ListedRowsOpen`: while nobody writes, what a list has shown is still
  `Openable`, which is the condition of the detail statement.
- *Walks.* `WalksAreComplete`: `WalkFits` says where a walk over an unchanged table stands. As
  long as there are pages, `Offset` is below the number of matches (`PageArithmetic`: none of
  `(page-1)*pageSize`, `page*pageSize` and `page+1` wraps on the way, because a table and a
  page together fit an `int`), and as many rows as `Offset` have been shown. Each page is cut
  from an order PostgreSQL may choose anew. That the pages fit together when `ORDER BY` ends
  with the key needs that there is only one order: in any of them the position of a row is
  one more than the number of rows that come before it (`RowsBefore`), and that set does not
  depend on the order (`StableHasOneOrder`). The other lists have one order exactly if no two
  sort keys are equal; `SingleOrder` gets it from the cardinality that the property speaks of.

**Only model-checked** are the liveness properties (`EveryCallReturns`, `EveryRunReturns`,
`ShutdownCompletes`, `EveryGetReturns`, `EveryWalkEnds`, `LockoutEnds`): they rest on fairness,
and so on `ENABLED`, which is out of the prover's reach. `NoOrphanedLock` is proved under its
hypothesis (no panics); without it, finding 1 refutes it. `Cardinality` is reasoned about with
the theorems of `FiniteSetTheorems`; nothing is proved by induction over data.

## 6. Findings

1. `injury_panic`: `withTx` (`internal/ingest/result.go:41`) rolls back only on a returned
   error. A panic in the closure is recovered by `fanOut`, but the transaction stays open with
   its connection and its row locks, and later ingests of that sport wait for them, although
   `fanout.go:23` calls per-unit isolation total.
2. `injury_empty`: an empty report is a success that leaves the earlier rows
   (`injuries.go:76`), although the comment at `injuries.go:46` says the call clears and
   re-inserts.
3. `worker_pool`: `SetLimit` (`fanout.go:37`) is per job run, so overlapping jobs exceed the
   pool the comment at `fanout.go:21` says they stay within; the excess waits in `Beginx`,
   without a deadline.

Observed while modelling, without a run of their own:

- `setup` assigns Ready, unconditionally and without synchronisation, after it has started the
  signal goroutine (`http.go:98`). A signal in between, with a grace period of zero
  (`GRACE_PERIOD_SECONDS` has no default in `config.go:22`, and `deployments/app.yml` and
  `docker-compose.yml` do not set it), lets Ready overwrite the cleanup period, and requests are
  served in it, although the comment at `http.go:332` says they are stopped. `overtaken` marks
  this; for `CleanupServesNothing` alone TLC finds the counterexample.
- `internal/domains/news/repository/repository.go:82`: sqlx compiles `::` in a named query to a
  single colon, so `n.published::date >= :date_from` reaches PostgreSQL as `n.published:date`,
  a syntax error: `GET /api/v1/news/?date_from=...`, which `docs/api.md:59` lists, is a 500.
  `NewsQuery` has the parameter as `broken` and `Rejected` answers for it. (The event
  repository's own comment says why it casts with `CAST` instead.)
- `news`, `injuries`, `transactions` and `athlete-stats` order by one column without a
  tie-breaker, so rows with equal sort keys may be on two pages or on none.
  `WalkShowsEachOnce` excludes these routes where sort keys are equal.
- Two overlapping `SyncTeams` (worker and back-fill) with answers of different age can leave a
  team active that the newer answer does not list: the `UPDATE` of `DeactivateAllTx` does not
  see rows the other call inserted. Without `alone[t]`, TLC finds `SyncMirrorsFeed` violated.
- Two requests of a client that read its counter at the same moment are counted once
  (`limiter.go:37`): `stale` marks it, and with `n` concurrent requests `n` pass for one.

## 7. What is not modelled

Assumptions that stand for code outside the repository: ESPN's reports of a league are
served in order of publication (a cache in front of ESPN could break this, and no property
of this code would hold against it); PostgreSQL ends a transaction atomically and releases
its locks with it; a crash ends a process between two steps, and a `COMMIT` under way has
or has not happened.

Left out: texts of injuries, URLs, headers and query parameters; team ids of injuries (a read
inside the transaction that changes nothing); the length of intervals, backoffs and
timeouts (any interleaving of ticks, deadlines and answers is allowed instead); logging and
tracing. `IngestWorker` does not contain `InjuryIngest`: it sees an ingest as an outcome, which
includes the endless wait in `Beginx`. The modelled cursor never overflows: that takes 2^63
requests. A worker with both services disabled starts no job and is not modelled.

`UpsertSync` leaves out what a row contains (so that the age of an article, a player or a
standing is not compared), the counters of `IngestionResult` (they are `ScoreboardIngest`'s and
`InjuryIngest`'s subject), the row a transaction without an id adds (`SkipEntry`: it meets no
other row). A list of active teams that fails is a stutter: `SyncRosters` returns its error. The
find and the insert of `UpsertByESPN` are one step: what makes them double a row is that neither
sees the other's uncommitted one. The end of the context in `SyncRosters` is `RosterFails`, at any
time.

`ReadApi` leaves out the fields of a response: rows are told apart by id, sort key, the
filters they satisfy, what they refer to and a version. A deleted row is an injury; nothing
else is deleted. A read of the list and its detail go to one read pool; a replica that lags is
not modelled.

`HttpServer` has a rate limit and a window above zero, as the deployments set them. Its `passed`
stops at `MaxRequests + 1`. Reads of `State` beside its writes are a data race in Go; each read
sees one of the values written. CORS, access logs and the OpenAPI page change no state.

Not modelled at all: `shared/repository`, imported by nothing; `Auth`, `RBAC` and the JWT keys,
which `setupRoutes` mounts nowhere; migrations, configuration and wiring, and the adapters for
Kafka, S3 and OpenTelemetry, which are I/O without a decision of their own. `PROJECT.json` lists
them with the reason.

## 8. What could follow

1. Unstick: a clock in days, `StuckEvents` with its window and limit, composed with
   scoreboards: which stuck games are re-ingested, and starvation by the limit.
2. Pure operators against reference definitions: backoff with wrap-around, status
   normalisation, clamping of limits.
3. `IngestWorker` composed with an ingest service: that its outcomes of a unit (returned,
   failed, panicked, hung in `Beginx`) are those of `InjuryIngest`'s calls, as a refinement.

## Running

`tlc -config X.cfg MCModule.tla` checks a run of section 3, `tlapm M.tla` a module of proofs;
`PROJECT.json` names the configuration of each run.
