-------------------------- MODULE ScoreboardIngest ---------------------------
(***************************************************************************)
(* ScoreboardService.IngestScoreboard (internal/ingest/scoreboard.go) run  *)
(* by concurrent tasks of the cron worker and of the HTTP API.             *)
(*                                                                         *)
(* One call is one transaction over four tables.  For each game of the     *)
(* scoreboard it upserts the venue and the game, deletes the game's        *)
(* competitors and inserts the reported ones.  Games and teams belong to a *)
(* league and are covered by the lock on its sport; venues are shared by   *)
(* all sports and are locked in the order of each scoreboard, so calls of  *)
(* two sports can wait for each other in a circle.                         *)
(***************************************************************************)
EXTENDS Integers, Sequences, FiniteSets, WriteTx

CONSTANTS
  Sports, Leagues, Boards,  \* a board is a league's scoreboard of one date
  Venues, Events, Teams,    \* rows, by their conflict keys
  SportOf,     \* [Leagues -> Sports]
  LeagueOf,    \* [Boards -> Leagues]
  NoId,        \* the ESPN id of an entry that has none
  Absent,      \* no row
  MaxVersion,  \* bound on the versions ESPN publishes per league
  Scoreboard,  \* Scoreboard[b][v]: the entries of version v of b, in order
  Panics       \* whether the closure given to withTx may panic

(* An entry of "events": the game, its venue and its competitors' teams. *)
Entry == [id : Events \cup {NoId}, venue : Venues \cup {NoId},
          teams : Seq(Teams \cup {NoId})]

Versions == 0..MaxVersion

(* The games on version v of b and their teams; the entry a game is last listed at. *)
Games(b, v) == {Scoreboard[b][v][i].id : i \in DOMAIN Scoreboard[b][v]} \ {NoId}
TeamsOn(b, v) ==
  (UNION {{T[k] : k \in DOMAIN T} :
            T \in {Scoreboard[b][v][i].teams : i \in DOMAIN Scoreboard[b][v]}})
    \ {NoId}
At(b, v, e) == {i \in DOMAIN Scoreboard[b][v] : Scoreboard[b][v][i].id = e}
Last(b, v, e) == CHOOSE i \in At(b, v, e) : \A j \in At(b, v, e) : j <= i

ASSUME ScoreboardAssumption ==
  /\ Keys = Sports \cup Leagues \cup Venues \cup Events \cup Teams
  /\ Boards # {}
  /\ SportOf \in [Leagues -> Sports]
  /\ LeagueOf \in [Boards -> Leagues]
  /\ NoId \notin Keys
  /\ MaxVersion \in Nat
  /\ Scoreboard \in [Boards -> [Versions -> Seq(Entry)]]
  /\ \A b, c \in Boards : \A v, w \in Versions :
       Games(b, v) \cap Games(c, w) # {} \/ TeamsOn(b, v) \cap TeamsOn(c, w) # {} =>
         LeagueOf[b] = LeagueOf[c]
  /\ Sports \cap (Leagues \cup Venues \cup Events \cup Teams) = {}
  /\ Leagues \cap (Venues \cup Events \cup Teams) = {}
  /\ Venues \cap (Events \cup Teams) = {}
  /\ Events \cap Teams = {}
  /\ Panics \in BOOLEAN

(* Where a row's contents come from: entry pos of version ver of a board. *)
Source == [board : Boards, ver : Versions, pos : Nat \ {0}]

ASSUME AbsentAssumption == Absent \notin Source

VARIABLES
  pc,          \* pc[t]: where t is in IngestScoreboard
  call,        \* call[t]: the locals of t's call
  write,       \* write[t]: the rows t's open transaction has written
  outcome,     \* outcome[t]: what the last call of t returned
  published,   \* published[l]: the version ESPN serves of l's scoreboards
  store        \* the committed rows of the four tables

vars == <<busy, conn, lock, pc, call, write, outcome, published, store>>

(* Rows of venues and events; competitors of each event; ids of teams. *)
Tables ==
  [venues : [Venues -> Source \cup {Absent}],
   events : [Events -> Source \cup {Absent}],
   competitors : [Events -> SUBSET [team : Teams, from : Source]],
   teams : SUBSET Teams]

Nothing ==
  [venues |-> [v \in Venues |-> Absent],
   events |-> [e \in Events |-> Absent],
   competitors |-> [e \in Events |-> {}],
   teams |-> {}]

(* Locals of a call: pos and idx count through entries and competitors, and
   inserted is what the game's upsert returned. *)
Locals ==
  [board : Boards, got : Versions, pos : Nat \ {0}, idx : Nat \ {0},
   inserted : BOOLEAN, created : Nat, updated : Nat, errors : Nat]

NewCall(b) ==
  [board |-> b, got |-> 0, pos |-> 1, idx |-> 1, inserted |-> FALSE,
   created |-> 0, updated |-> 0, errors |-> 0]

NoCall == NewCall(CHOOSE b \in Boards : TRUE)

InTx == {"sport", "league", "fetch", "venue", "event", "competitors", "commit",
         "rollback"}
Looping == {"venue", "event", "competitors"}
Locked == {"fetch", "commit"} \cup Looping
Cancellable == {"sport", "league", "fetch"} \cup Looping

TypeOK ==
  /\ TxTypeOK
  /\ pc \in [Tasks -> {"idle", "begin"} \cup InTx]
  /\ call \in [Tasks -> Locals]
  /\ write \in [Tasks -> Tables]
  /\ outcome \in [Tasks -> {"none", "ok", "error", "panic"}]
  /\ published \in [Leagues -> Versions]
  /\ store \in Tables

Init ==
  /\ TxInit
  /\ pc = [t \in Tasks |-> "idle"]
  /\ call = [t \in Tasks |-> NoCall]
  /\ write = [t \in Tasks |-> Nothing]
  /\ outcome = [t \in Tasks |-> "none"]
  /\ published = [l \in Leagues |-> 0]
  /\ store = Nothing

Goto(t, from, to) ==
  /\ pc[t] = from
  /\ pc' = [pc EXCEPT ![t] = to]

(* The call returns: its locals are gone, which the model resets. *)
Return(t, result) ==
  /\ pc' = [pc EXCEPT ![t] = "idle"]
  /\ outcome' = [outcome EXCEPT ![t] = result]
  /\ write' = [write EXCEPT ![t] = Nothing]
  /\ call' = [call EXCEPT ![t] = NoCall]

League(t) == LeagueOf[call[t].board]
Entries(t) == Scoreboard[call[t].board][call[t].got]
Cur(t) == Entries(t)[call[t].pos]
From(t) == [board |-> call[t].board, ver |-> call[t].got, pos |-> call[t].pos]
-----------------------------------------------------------------------------
(* ESPN publishes; the code never sees this happen. *)
Publish(l) ==
  /\ published[l] < MaxVersion
  /\ published' = [published EXCEPT ![l] = @ + 1]
  /\ UNCHANGED <<txVars, pc, call, write, outcome, store>>

(* IngestScoreboard(ctx, sport, league, date) is called. *)
IngestScoreboard(t, b) ==
  /\ Goto(t, "idle", "begin")
  /\ call' = [call EXCEPT ![t] = NewCall(b)]
  /\ outcome' = [outcome EXCEPT ![t] = "none"]
  /\ UNCHANGED <<txVars, write, published, store>>

Begin(t) ==
  /\ Goto(t, "begin", "sport")
  /\ TxBegin(t)
  /\ UNCHANGED <<call, write, outcome, published, store>>

BeginFails(t) ==
  /\ pc[t] = "begin"
  /\ Return(t, "error")
  /\ UNCHANGED <<txVars, published, store>>

(* resolveSportLeague: two upserts, each locking the row it meets. *)
ResolveSportBug_OnlyReads(t) ==
  /\ Goto(t, "sport", "fetch")
  /\ UNCHANGED <<txVars, call, write, outcome, published, store>>

ResolveSport(t) ==
  /\ Goto(t, "sport", "league")
  /\ TxLock(t, SportOf[League(t)])
  /\ UNCHANGED <<call, write, outcome, published, store>>

ResolveLeague(t) ==
  /\ Goto(t, "league", "fetch")
  /\ TxLock(t, League(t))
  /\ UNCHANGED <<call, write, outcome, published, store>>

(* A fetch moved in front of the locks: an answer that may be outdated by now. *)
FetchBug_BeforeLocks(t) ==
  \E v \in 0..published[League(t)] :
    /\ Goto(t, "fetch", IF Scoreboard[call[t].board][v] = <<>> THEN "commit" ELSE "venue")
    /\ call' = [call EXCEPT ![t].got = v]
    /\ UNCHANGED <<txVars, write, outcome, published, store>>

(* GetScoreboard answered and decoded; without events the closure returns. *)
Fetch(t) ==
  LET b == call[t].board
      v == published[LeagueOf[b]]
  IN  /\ Goto(t, "fetch", IF Scoreboard[b][v] = <<>> THEN "commit" ELSE "venue")
      /\ call' = [call EXCEPT ![t].got = v]
      /\ UNCHANGED <<txVars, write, outcome, published, store>>

SkipEntryBug_Uncounts(t) ==
  /\ pc[t] = "venue"
  /\ call[t].pos <= Len(Entries(t))
  /\ Cur(t).id = NoId
  /\ call' = [call EXCEPT ![t].pos = @ + 1, ![t].created = @ - 1]
  /\ UNCHANGED <<txVars, pc, write, outcome, published, store>>

(* ingestEvent: an entry without an id is counted and skipped. *)
SkipEntry(t) ==
  /\ pc[t] = "venue"
  /\ call[t].pos <= Len(Entries(t))
  /\ Cur(t).id = NoId
  /\ call' = [call EXCEPT ![t].pos = @ + 1, ![t].errors = @ + 1]
  /\ UNCHANGED <<txVars, pc, write, outcome, published, store>>

(* upsertVenue: nothing to do for a venue without an id. *)
UpsertVenue(t) ==
  /\ Goto(t, "venue", "event")
  /\ call[t].pos <= Len(Entries(t))
  /\ Cur(t).id # NoId
  /\ IF Cur(t).venue = NoId
     THEN UNCHANGED <<txVars, write>>
     ELSE /\ TxLock(t, Cur(t).venue)
          /\ write' = [write EXCEPT ![t].venues[Cur(t).venue] = From(t)]
  /\ UNCHANGED <<call, outcome, published, store>>

(* The rows of table f as t's transaction sees it. *)
Sees(t, f, x) == IF write[t][f][x] # Absent THEN write[t][f][x] ELSE store[f][x]

UpsertEventBug_KeepsCompetitors(t) ==
  LET e == Cur(t).id
  IN  /\ Goto(t, "event", "competitors")
      /\ TxLock(t, e)
      /\ write' = [write EXCEPT ![t].events[e] = From(t),
                     ![t].competitors[e] = @ \cup store.competitors[e]]
      /\ call' = [call EXCEPT ![t].idx = 1,
                    ![t].inserted = Sees(t, "events", e) = Absent]
      /\ UNCHANGED <<outcome, published, store>>

UpsertEventBug_LooksAtStore(t) ==
  LET e == Cur(t).id
  IN  /\ Goto(t, "event", "competitors")
      /\ TxLock(t, e)
      /\ write' = [write EXCEPT ![t].events[e] = From(t), ![t].competitors[e] = {}]
      /\ call' = [call EXCEPT ![t].idx = 1,
                    ![t].inserted = store.events[e] = Absent]
      /\ UNCHANGED <<outcome, published, store>>

(* events.UpsertTx, which tells an insert from an update, and then
   competitors.DeleteByEventTx. *)
UpsertEvent(t) ==
  LET e == Cur(t).id
  IN  /\ Goto(t, "event", "competitors")
      /\ TxLock(t, e)
      /\ write' = [write EXCEPT ![t].events[e] = From(t), ![t].competitors[e] = {}]
      /\ call' = [call EXCEPT ![t].idx = 1,
                    ![t].inserted = Sees(t, "events", e) = Absent]
      /\ UNCHANGED <<outcome, published, store>>

(* createCompetitor: none without a team id; the team is created if missing;
   a second row for a team violates uq_competitors_event_team. *)
CreateCompetitor(t) ==
  LET e == Cur(t).id
      x == Cur(t).teams[call[t].idx]
  IN  /\ pc[t] = "competitors"
      /\ call[t].idx <= Len(Cur(t).teams)
      /\ IF x = NoId
         THEN UNCHANGED <<txVars, pc, write>>
         ELSE /\ TxLock(t, x)
              /\ IF \E r \in write[t].competitors[e] : r.team = x
                 THEN pc' = [pc EXCEPT ![t] = "rollback"] /\ UNCHANGED write
                 ELSE /\ UNCHANGED pc
                      /\ write' = [write EXCEPT
                            ![t].teams = @ \cup {x},
                            ![t].competitors[e] =
                              @ \cup {[team |-> x, from |-> From(t)]}]
      /\ call' = [call EXCEPT ![t].idx = @ + 1]
      /\ UNCHANGED <<outcome, published, store>>

(* ingestEvent has inserted the last competitor and counts the game. *)
EventEnds(t) ==
  /\ Goto(t, "competitors", "venue")
  /\ call[t].idx > Len(Cur(t).teams)
  /\ call' = [call EXCEPT ![t].pos = @ + 1,
                ![t].created = IF call[t].inserted THEN @ + 1 ELSE @,
                ![t].updated = IF call[t].inserted THEN @ ELSE @ + 1]
  /\ UNCHANGED <<txVars, write, outcome, published, store>>

LoopEnds(t) ==
  /\ Goto(t, "venue", "commit")
  /\ call[t].pos > Len(Entries(t))
  /\ UNCHANGED <<txVars, call, write, outcome, published, store>>

(* What a committed transaction of t leaves in the tables. *)
Committed(t) ==
  [venues |-> [x \in Venues |-> Sees(t, "venues", x)],
   events |-> [e \in Events |-> Sees(t, "events", e)],
   competitors |-> [e \in Events |-> IF write[t].events[e] # Absent
                                     THEN write[t].competitors[e]
                                     ELSE store.competitors[e]],
   teams |-> store.teams \cup write[t].teams]

Commit(t) ==
  /\ pc[t] = "commit"
  /\ TxEnd(t)
  /\ store' = Committed(t)
  /\ Return(t, "ok")
  /\ UNCHANGED published

(* tx.Commit() returns an error: not committed, or the answer was lost. *)
CommitFails(t) ==
  /\ pc[t] = "commit"
  /\ TxEnd(t)
  /\ store' \in {store, Committed(t)}
  /\ Return(t, "error")
  /\ UNCHANGED published

(* A statement, the fetch or the decoding fails, or the context ends. *)
Fail(t) ==
  /\ pc[t] \in Cancellable
  /\ pc' = [pc EXCEPT ![t] = "rollback"]
  /\ UNCHANGED <<txVars, call, write, outcome, published, store>>

(***************************************************************************)
(* The row t's next statement needs, if any; who waits for whom; and       *)
(* whether t is on a circle of waiting calls.  PostgreSQL's deadlock       *)
(* detector then fails the statement of one of them.                       *)
(***************************************************************************)
Wants(t) ==
  CASE pc[t] = "sport" -> SportOf[League(t)]
    [] pc[t] = "league" -> League(t)
    [] pc[t] = "venue" /\ call[t].pos <= Len(Entries(t)) -> Cur(t).venue
    [] pc[t] = "event" -> Cur(t).id
    [] pc[t] = "competitors" /\ call[t].idx <= Len(Cur(t).teams) ->
         Cur(t).teams[call[t].idx]
    [] OTHER -> NoId

WaitsFor(t, u) == t # u /\ Wants(t) # NoId /\ lock[Wants(t)] = conn[u]
                        /\ conn[u] # NoConn

Deadlocked(t) ==
  \E D \in SUBSET Tasks :
    /\ t \in D
    /\ \A u \in D : (\E w \in D : WaitsFor(u, w)) /\ (\E w \in D : WaitsFor(w, u))

DeadlockAbortBug_Retries(t) ==
  /\ Deadlocked(t)
  /\ UNCHANGED vars

DeadlockAbort(t) ==
  /\ Deadlocked(t)
  /\ pc' = [pc EXCEPT ![t] = "rollback"]
  /\ UNCHANGED <<txVars, call, write, outcome, published, store>>

RollbackBug_Commits(t) ==
  /\ pc[t] = "rollback"
  /\ TxEnd(t)
  /\ store' = Committed(t)
  /\ Return(t, "error")
  /\ UNCHANGED published

Rollback(t) ==
  /\ pc[t] = "rollback"
  /\ TxEnd(t)
  /\ Return(t, "error")
  /\ UNCHANGED <<published, store>>

(* The closure panics; fanOut (or the API's recover middleware) recovers. *)
Panic(t) ==
  /\ Panics
  /\ pc[t] \in Cancellable
  /\ TxAbandon(t)
  /\ Return(t, "panic")
  /\ UNCHANGED <<published, store>>

(* A process dies and is started again. *)
Crash(p) ==
  LET gone(f, x) == [t \in Tasks |-> IF TaskProc[t] = p THEN x ELSE f[t]]
  IN  /\ TxCrash(p)
      /\ pc' = gone(pc, "idle")
      /\ outcome' = gone(outcome, "none")
      /\ call' = gone(call, NoCall)
      /\ write' = gone(write, Nothing)
      /\ UNCHANGED <<published, store>>

(* Steps that may have to wait for a row, other steps a live task takes by
   itself, and steps something else imposes. *)
LockStep(t) ==
  ResolveSport(t) \/ ResolveLeague(t) \/ UpsertVenue(t) \/ UpsertEvent(t)
    \/ CreateCompetitor(t)

Proceed(t) ==
  Fetch(t) \/ SkipEntry(t) \/ EventEnds(t) \/ LoopEnds(t) \/ Commit(t) \/ Rollback(t)

Fault(t) == BeginFails(t) \/ Fail(t) \/ CommitFails(t) \/ Panic(t)

Next ==
  \/ \E l \in Leagues : Publish(l)
  \/ \E t \in Tasks, b \in Boards : IngestScoreboard(t, b)
  \/ \E t \in Tasks :
       Begin(t) \/ LockStep(t) \/ Proceed(t) \/ DeadlockAbort(t) \/ Fault(t)
  \/ \E p \in Procs : Crash(p)

Spec == Init /\ [][Next]_vars

(***************************************************************************)
(* As for the injuries: the pool and PostgreSQL serve their waiters in     *)
(* order, and a live task takes its own steps.  PostgreSQL looks for a     *)
(* deadlock when a statement has waited for deadlock_timeout, so a circle  *)
(* does not stay.                                                          *)
(***************************************************************************)
FairSpec ==
  /\ Spec
  /\ \A t \in Tasks :
       /\ WF_vars(Proceed(t))
       /\ WF_vars(DeadlockAbort(t))
       /\ SF_vars(Begin(t))
       /\ SF_vars(LockStep(t))
-----------------------------------------------------------------------------
(* Two calls for scoreboards of one sport are never both between their locks
   and the end of their transactions (resolveSportLeague before the fetch). *)
SportSerialised ==
  \A t, u \in Tasks :
    t # u /\ pc[t] \in Locked /\ pc[u] \in Locked =>
      SportOf[League(t)] # SportOf[League(u)]

(* The competitors an entry i of version v of b yields. *)
CompetitorsOf(f) ==
  LET T == Scoreboard[f.board][f.ver][f.pos].teams
  IN  {[team |-> T[k], from |-> f] : k \in {j \in DOMAIN T : T[j] # NoId}}

(* Game e is in the tables as one entry has it, with all that refers to. *)
GameIsWhole(e) ==
  LET f == store.events[e]
      T == Scoreboard[f.board][f.ver]
  IN  IF f = Absent THEN store.competitors[e] = {}
      ELSE /\ f.ver <= published[LeagueOf[f.board]]
           /\ f.pos \in DOMAIN T
           /\ T[f.pos].id = e
           /\ store.competitors[e] = CompetitorsOf(f)
           /\ \A r \in store.competitors[e] : r.team \in store.teams
           /\ T[f.pos].venue # NoId => store.venues[T[f.pos].venue] # Absent

(* What readers see of a game is one entry of one published scoreboard and that
   entry's competitors, all of them and no others, whose teams and venue are
   there too: a game is never caught between the DELETE and the INSERTs, and
   two ingests of it are never mixed. *)
GamesAreWhole ==
  \A e \in Events : GameIsWhole(e)

(* What the invariant above rests on.  A call holds its sport's row; *)
LocksHeld ==
  \A t \in Tasks :
    /\ pc[t] \in InTx <=> conn[t] # NoConn
    /\ pc[t] \in Locked \cup {"league"} => lock[SportOf[League(t)]] = conn[t]

(* so the version it fetched is the newest of its league in the table; *)
Fresh(t) ==
  pc[t] \in Looping \cup {"commit"} =>
    /\ call[t].got <= published[League(t)]
    /\ \A e \in Events :
         store.events[e] # Absent /\ LeagueOf[store.events[e].board] = League(t) =>
           store.events[e].ver <= call[t].got

(* and what it has written is, game by game, what the entries say, except that
   the competitors of the current game are those inserted so far. *)
UpTo(f, n) ==
  LET T == Scoreboard[f.board][f.ver][f.pos].teams
  IN  {[team |-> T[k], from |-> f] : k \in {j \in DOMAIN T : T[j] # NoId /\ j <= n}}

GameWritten(t, e) ==
  LET f == write[t].events[e]
      x == Scoreboard[f.board][f.ver][f.pos].venue
  IN  /\ f.board = call[t].board
      /\ f.ver = call[t].got
      /\ f.pos \in DOMAIN Entries(t)
      /\ Entries(t)[f.pos].id = e
      /\ x # NoId => write[t].venues[x] # Absent
      /\ \A r \in write[t].competitors[e] : r.team \in write[t].teams
      /\ write[t].competitors[e] =
           IF pc[t] = "competitors" /\ f.pos = call[t].pos
           THEN UpTo(f, call[t].idx - 1) ELSE CompetitorsOf(f)

Writes(t) ==
  /\ pc[t] \in {"idle", "begin", "sport", "league", "fetch"} => write[t] = Nothing
  /\ pc[t] \in Looping \cup {"commit"} =>
       \A e \in Events : write[t].events[e] # Absent => GameWritten(t, e)
  /\ pc[t] \in {"event", "competitors"} =>
       /\ call[t].pos \in DOMAIN Entries(t)
       /\ Cur(t).id \in Events
       /\ Cur(t).venue # NoId => write[t].venues[Cur(t).venue] # Absent
  /\ pc[t] = "competitors" =>
       /\ write[t].events[Cur(t).id] = From(t)
       /\ call[t].idx <= Len(Cur(t).teams) + 1

GamesInv ==
  /\ TxInv
  /\ LocksHeld
  /\ \A t \in Tasks : Fresh(t)
  /\ \A t \in Tasks : Writes(t)
  /\ GamesAreWhole

(* The entries a call has passed, the current one once its game is written. *)
Passed(t) ==
  {i \in DOMAIN Entries(t) :
     i < call[t].pos \/ (i = call[t].pos /\ pc[t] = "competitors")}

(* The games it has written are the games of these, each as the last of them has
   it: what a commit stores is the scoreboard, no more and no less. *)
PassedWritten(t) ==
  /\ \A e \in Events :
       write[t].events[e] # Absent => write[t].events[e].pos \in Passed(t)
  /\ \A i \in Passed(t) :
       LET f == write[t].events[Entries(t)[i].id]
       IN  Entries(t)[i].id # NoId => f # Absent /\ i <= f.pos

(* The games a commit of t would add. *)
NewGames(t) ==
  {e \in Events : store.events[e] = Absent /\ write[t].events[e] # Absent}

(* Each entry passed is counted once, and Created counts the new games, but for
   the current one, which EventEnds will count. *)
Counted(t) ==
  /\ call[t].created + call[t].updated + call[t].errors = call[t].pos - 1
  /\ IsFiniteSet(NewGames(t))
  /\ Cardinality(NewGames(t)) =
       call[t].created + IF pc[t] = "competitors" /\ call[t].inserted THEN 1 ELSE 0

Progress(t) ==
  /\ pc[t] \in {"begin", "sport", "league", "fetch"} => call[t] = NewCall(call[t].board)
  /\ pc[t] \in Looping \cup {"commit"} =>
       /\ call[t].pos <= Len(Entries(t)) + 1
       /\ PassedWritten(t)
       /\ Counted(t)
  /\ pc[t] = "commit" => call[t].pos = Len(Entries(t)) + 1

(* The rows t's transaction can have locked where it is. *)
OwnRows(t) ==
  Venues \cup {SportOf[League(t)], League(t)}
    \cup Games(call[t].board, call[t].got) \cup TeamsOn(call[t].board, call[t].got)

LocksOwn(t) ==
  \A k \in Keys : lock[k] = conn[t] =>
    /\ pc[t] # "sport"
    /\ pc[t] = "league" => k = SportOf[League(t)]
    /\ pc[t] = "fetch" => k \in {SportOf[League(t)], League(t)}
    /\ pc[t] \in Looping \cup {"commit"} => k \in OwnRows(t)

ScoreboardInv ==
  /\ GamesInv
  /\ \A t \in Tasks : Progress(t)
  /\ \A t \in Tasks : LocksOwn(t)

(* No game goes back to an older version of its league's scoreboards, whichever
   date's scoreboard it is on, and none disappears. *)
GamesNeverRegress ==
  [][\A e \in Events : store.events[e] # Absent =>
       /\ store'.events[e] # Absent
       /\ store.events[e].ver <= store'.events[e].ver]_vars

(* A successful call accounts for every entry it was given, and Created is the
   number of games that were not there before it, although it finds out while
   other calls commit and a game may be listed twice. *)
CountsAreRows ==
  [][\A t \in Tasks :
       pc[t] = "commit" /\ outcome'[t] = "ok" /\ pc'[t] = "idle" =>
         /\ call[t].created + call[t].updated + call[t].errors = Len(Entries(t))
         /\ call[t].created =
              Cardinality({e \in Events : store.events[e] = Absent
                                            /\ store'.events[e] # Absent})]_vars

(* Every call returns, although calls of two sports lock venues in the orders
   of their own scoreboards and may wait for each other. *)
EveryCallReturns ==
  \A t \in Tasks : pc[t] # "idle" ~> pc[t] = "idle"

(* Whoever waits in a circle waits for a venue: games, teams, leagues and
   sports are locked by one call of a sport at a time. *)
CirclesAreVenues ==
  \A t \in Tasks : Deadlocked(t) => Wants(t) \in Venues

(* The abstract store of scoreboards. *)
PlaceAt(b, v, e) == [board |-> b, ver |-> v, pos |-> Last(b, v, e)]

Board == INSTANCE EventBoard
           WITH Place <- PlaceAt, Lineup <- CompetitorsOf,
                events <- store.events, competitors <- store.competitors

BoardSpec == Board!Spec
=============================================================================
