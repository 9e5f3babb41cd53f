----------------------------- MODULE UpsertSync ------------------------------
(***************************************************************************)
(* The ingests that upsert a feed row by row (internal/ingest): teams,     *)
(* news, transactions and athlete stats from ESPN, and the NHL's teams,    *)
(* rosters and standings, run by concurrent tasks of several processes.    *)
(*                                                                         *)
(* An ESPN call locks its sport and league before it fetches; an NHL call  *)
(* takes no lock before its rows.  SyncTeams deactivates every team before *)
(* it upserts the feed's.  SyncRosters lists the active teams first and    *)
(* runs one transaction per team through a bounded errgroup.               *)
(*                                                                         *)
(* Of a row the model keeps how many there are and, for an NHL team,       *)
(* whether it is active; of an IngestionResult nothing.                    *)
(***************************************************************************)
EXTENDS Naturals, Sequences, FiniteSets, IngestServices, WriteTx

CONSTANTS
  Calls,       \* the ingest calls: a kind with its arguments
  Kind,        \* Kind[c]: which service c calls
  Makes,       \* Makes[p]: the calls process p makes
  Sports, Leagues,
  SportOf,     \* [Leagues -> Sports]
  LeagueOf,    \* LeagueOf[c]: the league of an ESPN call
  Rows,        \* the rows of the tables, by their conflict key
  NhlTeams,    \* the rows of nhl_teams among them
  Stored,      \* rows of other tables that are there at the start
  Place,       \* Place[k]: where team k is in the table
  Standing,    \* Standing[k]: the standings row of team k for today
  Roster,      \* Roster[k]: the roster call for team k
  MaxVersion,  \* bound on the versions of the feeds
  Feed,        \* Feed[c][v]: the entries of c's answer in version v
  Rejected,    \* an entry the parser refuses
  Loose,       \* a transaction without an ESPN id
  Concurrency, \* SERVICES_NHL_INGEST_CONCURRENCY, at least 1
  Panics       \* the calls whose closure, given to withTx, may panic

(* The entries of all versions of a feed. *)
Entries(c) == UNION {{Feed[c][v][i] : i \in DOMAIN Feed[c][v]} : v \in 0..MaxVersion}

(* The rows a call may write: its entries', or those of the teams they name. *)
RowsOf(c) ==
  IF Service[Kind[c]].refers
  THEN {Standing[k] : k \in Entries(c) \cap NhlTeams}
  ELSE Entries(c) \cap Rows

ASSUME SyncAssumption ==
  /\ Kind \in [Calls -> Kinds]
  /\ Calls # {}
  /\ Makes \in [Procs -> SUBSET Calls]
  /\ Sports \cup Leagues \cup Rows \subseteq Keys
  /\ Sports \cap Leagues = {} /\ (Sports \cup Leagues) \cap Rows = {}
  /\ SportOf \in [Leagues -> Sports]
  /\ LeagueOf \in [Calls -> Leagues]
  /\ NhlTeams \subseteq Rows /\ Stored \subseteq Rows \ NhlTeams
  /\ Place \in [NhlTeams -> Nat] /\ \A j, k \in NhlTeams : Place[j] = Place[k] => j = k
  /\ Standing \in [NhlTeams -> Rows]
  /\ Roster \in [NhlTeams -> {c \in Calls : Kind[c] = "nhl_roster"}]
  /\ MaxVersion \in Nat
  /\ Feed \in [Calls -> [0..MaxVersion -> Seq(Rows \cup {Rejected, Loose})]]
  /\ {Rejected, Loose} \cap Rows = {}
  /\ \A c \in Calls : Service[Kind[c]].refers => Entries(c) \cap Rows \subseteq NhlTeams
  /\ \A c, d \in Calls :
       Kind[c] # Kind[d] \/ (Service[Kind[c]].write.perLeague /\ LeagueOf[c] # LeagueOf[d]) =>
         RowsOf(c) \cap RowsOf(d) = {}
  /\ Concurrency \in Nat \ {0}
  /\ Panics \subseteq Calls

VARIABLES
  pc,         \* pc[t]: where t is in its call
  call,       \* call[t]: the call t runs
  todo,       \* todo[t]: entries the loop has not reached
  scan,       \* scan[t]: rows DeactivateAllTx has yet to lock
  write,      \* write[t][k]: what t's open transaction did to row k
  alone,      \* alone[t]: no other SyncTeams ran while t's did (history)
  published,  \* the version the feeds serve now
  count,      \* count[k]: committed rows with key k
  active,     \* committed rows of nhl_teams with is_active
  running,    \* the processes that are in SyncRosters
  left        \* left[p]: the teams SyncRosters of p has not started yet

dbVars == <<published, count, active>>
callVars == <<call, todo, scan, write, alone>>
vars == <<busy, conn, lock, pc, call, todo, scan, write, alone, published, count,
          active, running, left>>

Untouched == [k \in Rows |-> "none"]
SomeCall == CHOOSE c \in Calls : TRUE
rosterVars == <<running, left>>

InTx == {"sport", "league", "fetch", "deactivate", "scan", "rows", "commit", "rollback"}
Cancellable == InTx \ {"commit", "rollback"}
Locked == {"fetch", "rows", "commit"}

(* The service t runs; whether it is SyncTeams. *)
Runs(t) == Service[Kind[call[t]]]
Syncing(t) == pc[t] # "idle" /\ Runs(t).deactivates

TypeOK ==
  /\ TxTypeOK
  /\ pc \in [Tasks -> InTx \cup {"idle", "begin", "roster"}]
  /\ call \in [Tasks -> Calls]
  /\ todo \in [Tasks -> Seq(Rows \cup {Rejected, Loose})]
  /\ scan \in [Tasks -> SUBSET NhlTeams]
  /\ write \in [Tasks -> [Rows -> {"none", "insert", "update", "off"}]]
  /\ alone \in [Tasks -> BOOLEAN]
  /\ published \in 0..MaxVersion
  /\ count \in [Rows -> Nat]
  /\ active \subseteq NhlTeams
  /\ running \subseteq Procs
  /\ left \in [Procs -> SUBSET NhlTeams]

Init ==
  /\ TxInit
  /\ pc = [t \in Tasks |-> "idle"]
  /\ call = [t \in Tasks |-> SomeCall]
  /\ todo = [t \in Tasks |-> <<>>]
  /\ scan = [t \in Tasks |-> {}]
  /\ write = [t \in Tasks |-> Untouched]
  /\ alone = [t \in Tasks |-> FALSE]
  /\ published = 0
  /\ count = [k \in Rows |-> IF k \in Stored THEN 1 ELSE 0]
  /\ active = {}
  /\ running = {}
  /\ left = [p \in Procs |-> {}]

Goto(t, from, to) ==
  /\ pc[t] = from
  /\ pc' = [pc EXCEPT ![t] = to]

(* The call returns and its locals are gone. *)
Return(t) ==
  /\ pc' = [pc EXCEPT ![t] = "idle"]
  /\ call' = [call EXCEPT ![t] = SomeCall]
  /\ todo' = [todo EXCEPT ![t] = <<>>]
  /\ scan' = [scan EXCEPT ![t] = {}]
  /\ write' = [write EXCEPT ![t] = Untouched]
  /\ alone' = [alone EXCEPT ![t] = FALSE]
-----------------------------------------------------------------------------
(* ESPN and the NHL publish new answers. *)
Publish ==
  /\ published < MaxVersion
  /\ published' = published + 1
  /\ UNCHANGED <<txVars, pc, callVars, count, active, rosterVars>>

(* A service is called; whether SyncTeams overlaps another is remembered. *)
StartCall(t, c) ==
  /\ c \in Makes[TaskProc[t]] /\ Service[Kind[c]].inside
  /\ Goto(t, "idle", "begin")
  /\ call' = [call EXCEPT ![t] = c]
  /\ alone' = IF Service[Kind[c]].deactivates
              THEN [u \in Tasks |-> IF u = t THEN \A w \in Tasks : ~Syncing(w)
                                    ELSE FALSE]
              ELSE alone
  /\ UNCHANGED <<txVars, todo, scan, write, dbVars, rosterVars>>

(* withTx opens the transaction; a roster was fetched before. *)
Begin(t) ==
  /\ Goto(t, "begin", CASE Runs(t).resolves -> "sport"
                        [] Runs(t).inside /\ ~Runs(t).resolves -> "fetch"
                        [] OTHER -> "rows")
  /\ TxBegin(t)
  /\ UNCHANGED <<callVars, dbVars, rosterVars>>

BeginFails(t) ==
  /\ pc[t] = "begin"
  /\ Return(t)
  /\ UNCHANGED <<txVars, dbVars, rosterVars>>

(* resolveSportLeague: two upserts, each locking the row it meets. *)
ResolveSportBug_OnlyReads(t) ==
  /\ Goto(t, "sport", "fetch")
  /\ UNCHANGED <<txVars, callVars, dbVars, rosterVars>>

ResolveSport(t) ==
  /\ Goto(t, "sport", "league")
  /\ TxLock(t, SportOf[LeagueOf[call[t]]])
  /\ UNCHANGED <<callVars, dbVars, rosterVars>>

ResolveLeague(t) ==
  /\ Goto(t, "league", "fetch")
  /\ TxLock(t, LeagueOf[call[t]])
  /\ UNCHANGED <<callVars, dbVars, rosterVars>>

(* The feed answered and decoded.  Without entries the closure returns nil
   before it writes; athlete stats are always one entry. *)
Fetch(t) ==
  LET E == Feed[call[t]][published]
  IN  /\ Goto(t, "fetch", CASE E = <<>> -> "commit"
                            [] E # <<>> /\ Runs(t).deactivates -> "deactivate"
                            [] OTHER -> "rows")
      /\ todo' = [todo EXCEPT ![t] = E]
      /\ UNCHANGED <<txVars, call, scan, write, alone, dbVars, rosterVars>>

(* teams.DeactivateAllTx: the UPDATE works on the rows committed when it
   starts, and waits for each that another transaction has locked. *)
DeactivateBug_Skipped(t) ==
  /\ Goto(t, "deactivate", "rows")
  /\ UNCHANGED <<txVars, callVars, dbVars, rosterVars>>

Deactivate(t) ==
  /\ Goto(t, "deactivate", "scan")
  /\ scan' = [scan EXCEPT ![t] = {k \in NhlTeams : count[k] > 0}]
  /\ UNCHANGED <<txVars, call, todo, write, alone, dbVars, rosterVars>>

(* The row it comes to next, in the order of the table. *)
AtHand(t) == {k \in scan[t] : \A j \in scan[t] : Place[k] <= Place[j]}

DeactivateRow(t) ==
  /\ pc[t] = "scan"
  /\ \E k \in AtHand(t) :
       /\ TxLock(t, k)
       /\ write' = [write EXCEPT ![t][k] = "off"]
       /\ scan' = [scan EXCEPT ![t] = @ \ {k}]
  /\ UNCHANGED <<pc, call, todo, alone, dbVars, rosterVars>>

DeactivateEnds(t) ==
  /\ Goto(t, "scan", "rows")
  /\ scan[t] = {}
  /\ UNCHANGED <<txVars, callVars, dbVars, rosterVars>>

(* The loop moves on to the next entry. *)
Turn(t) ==
  /\ pc[t] = "rows"
  /\ todo[t] # <<>>
  /\ todo' = [todo EXCEPT ![t] = Tail(@)]
  /\ UNCHANGED <<pc, call, scan, alone, dbVars, rosterVars>>

(* An entry of no consequence here: one the parser refuses, a standing of a
   team that is not there (IDByAbbrevTx), a transaction without an id, which
   InsertTx appends. *)
SkipEntry(t) ==
  /\ Turn(t)
  /\ \/ Head(todo[t]) \in {Rejected, Loose}
     \/ Runs(t).refers /\ Head(todo[t]) \in NhlTeams /\ count[Head(todo[t])] = 0
  /\ UNCHANGED <<txVars, write>>

(* t's transaction sees a row with key k. *)
Sees(t, k) == count[k] > 0 \/ write[t][k] = "insert"

Written(t, k) ==
  [write EXCEPT ![t][k] = IF Sees(t, k) /\ @ # "insert" THEN "update" ELSE "insert"]

(* The row the entry at hand is about. *)
Key(t) == IF Runs(t).refers THEN Standing[Head(todo[t])] ELSE Head(todo[t])

(* UpsertTx: INSERT .. ON CONFLICT DO UPDATE by the row's key. *)
Upsert(t) ==
  /\ Turn(t)
  /\ Head(todo[t]) \in Rows
  /\ Runs(t).write.constrained
  /\ Runs(t).refers => count[Head(todo[t])] > 0
  /\ TxLock(t, Key(t))
  /\ write' = Written(t, Key(t))

(* UpsertByESPNTx: a SELECT, then an UPDATE of the row it found, or an INSERT,
   which no constraint keeps from doubling another transaction's. *)
UpsertByESPN(t) ==
  /\ Turn(t)
  /\ Head(todo[t]) \in Rows
  /\ ~Runs(t).write.constrained
  /\ IF count[Key(t)] > 0 THEN TxLock(t, Key(t)) ELSE UNCHANGED txVars
  /\ write' = Written(t, Key(t))

LoopEnds(t) ==
  /\ Goto(t, "rows", "commit")
  /\ todo[t] = <<>>
  /\ UNCHANGED <<txVars, callVars, dbVars, rosterVars>>

(* What a committed transaction of t leaves: more rows, and other active teams. *)
Inserted(t) == [k \in Rows |-> IF write[t][k] = "insert" THEN count[k] + 1 ELSE count[k]]

Activated(t) ==
  (active \ {k \in NhlTeams : write[t][k] = "off"})
    \cup {k \in NhlTeams : Runs(t).deactivates /\ write[t][k] \in {"insert", "update"}}

Commit(t) ==
  /\ pc[t] = "commit"
  /\ TxEnd(t)
  /\ count' = Inserted(t)
  /\ active' = Activated(t)
  /\ Return(t)
  /\ UNCHANGED <<published, rosterVars>>

(* A statement, the fetch or the decoding fails, or the context ends; so does
   a tx.Commit() that returns an error with nothing committed.  (One whose
   acknowledgement was lost is Commit.) *)
Fail(t) ==
  /\ pc[t] \in Cancellable \cup {"commit"}
  /\ pc' = [pc EXCEPT ![t] = "rollback"]
  /\ UNCHANGED <<txVars, callVars, dbVars, rosterVars>>

Rollback(t) ==
  /\ pc[t] = "rollback"
  /\ TxEnd(t)
  /\ Return(t)
  /\ UNCHANGED <<dbVars, rosterVars>>

(* A panic in the closure, recovered by fanOut, by runJob or by the goroutine
   of the roster group: withTx neither commits nor rolls back. *)
Panic(t) ==
  /\ call[t] \in Panics
  /\ pc[t] \in Cancellable
  /\ TxAbandon(t)
  /\ Return(t)
  /\ UNCHANGED <<dbVars, rosterVars>>
-----------------------------------------------------------------------------
(* SyncRosters: the read pool lists the active teams.  (If it does not, the
   call returns its error and nothing has changed.) *)
ListActive(p) ==
  /\ \A k \in NhlTeams : Roster[k] \in Makes[p]
  /\ p \notin running
  /\ running' = running \cup {p}
  /\ left' = [left EXCEPT ![p] = active]
  /\ UNCHANGED <<txVars, pc, callVars, dbVars>>

(* The goroutines of p's errgroup. *)
Group(p) == {t \in Tasks : TaskProc[t] = p /\ pc[t] # "idle" /\ ~Runs(t).inside}

(* g.Go waits for a slot; t is the goroutine. *)
GoTeam(t, k) ==
  LET p == TaskProc[t]
  IN  /\ k \in left[p]
      /\ Cardinality(Group(p)) < Concurrency
      /\ Goto(t, "idle", "roster")
      /\ call' = [call EXCEPT ![t] = Roster[k]]
      /\ left' = [left EXCEPT ![p] = @ \ {k}]
      /\ UNCHANGED <<txVars, todo, scan, write, alone, dbVars, running>>

(* syncTeamRoster fetches the roster before it opens a transaction. *)
FetchRoster(t) ==
  /\ Goto(t, "roster", "begin")
  /\ todo' = [todo EXCEPT ![t] = Feed[call[t]][published]]
  /\ UNCHANGED <<txVars, call, scan, write, alone, dbVars, rosterVars>>

(* The context is over, or the fetch failed or panicked: the team is skipped,
   the others go on. *)
RosterFails(t) ==
  /\ pc[t] = "roster"
  /\ Return(t)
  /\ UNCHANGED <<txVars, dbVars, rosterVars>>

(* g.Wait returns, whatever became of the teams. *)
Wait(p) ==
  /\ p \in running
  /\ left[p] = {} /\ Group(p) = {}
  /\ running' = running \ {p}
  /\ UNCHANGED <<txVars, pc, callVars, dbVars, left>>

(* A process dies and is started again. *)
Crash(p) ==
  LET gone(f, x) == [t \in Tasks |-> IF TaskProc[t] = p THEN x ELSE f[t]]
  IN  /\ TxCrash(p)
      /\ pc' = gone(pc, "idle")
      /\ call' = gone(call, SomeCall)
      /\ todo' = gone(todo, <<>>)
      /\ scan' = gone(scan, {})
      /\ write' = gone(write, Untouched)
      /\ alone' = gone(alone, FALSE)
      /\ running' = running \ {p}
      /\ left' = [left EXCEPT ![p] = {}]
      /\ UNCHANGED dbVars

(***************************************************************************)
(* The row t's next statement waits for, if any, and whether t is on a     *)
(* circle of waiting calls, one of which PostgreSQL then fails.            *)
(***************************************************************************)
Wants(t) ==
  CASE pc[t] = "sport" -> {SportOf[LeagueOf[call[t]]]}
    [] pc[t] = "league" -> {LeagueOf[call[t]]}
    [] pc[t] = "scan" -> AtHand(t)
    [] pc[t] = "rows" /\ todo[t] # <<>> /\ Head(todo[t]) \in Rows ->
         {Key(t)}
    [] OTHER -> {}

WaitsFor(t, u) == t # u /\ conn[u] # NoConn /\ \E k \in Wants(t) : lock[k] = conn[u]

Deadlocked(t) ==
  \E D \in SUBSET Tasks :
    /\ t \in D
    /\ \A u \in D : (\E w \in D : WaitsFor(u, w)) /\ (\E w \in D : WaitsFor(w, u))

DeadlockAbortBug_Retries(t) ==
  /\ Deadlocked(t)
  /\ UNCHANGED vars

DeadlockAbort(t) ==
  /\ Deadlocked(t)
  /\ pc' = [pc EXCEPT ![t] = "rollback"]
  /\ UNCHANGED <<txVars, callVars, dbVars, rosterVars>>

LockStep(t) ==
  ResolveSport(t) \/ ResolveLeague(t) \/ DeactivateRow(t) \/ Upsert(t) \/ UpsertByESPN(t)

Proceed(t) ==
  \/ Fetch(t) \/ Deactivate(t) \/ DeactivateEnds(t) \/ SkipEntry(t) \/ LoopEnds(t)
  \/ Commit(t) \/ Rollback(t) \/ FetchRoster(t) \/ RosterFails(t)

Next ==
  \/ Publish
  \/ \E t \in Tasks, c \in Calls : StartCall(t, c)
  \/ \E t \in Tasks :
       Begin(t) \/ LockStep(t) \/ Proceed(t) \/ DeadlockAbort(t) \/ BeginFails(t)
       \/ Fail(t) \/ Panic(t)
  \/ \E t \in Tasks, k \in NhlTeams : GoTeam(t, k)
  \/ \E p \in Procs : ListActive(p) \/ Wait(p) \/ Crash(p)

Spec == Init /\ [][Next]_vars

(***************************************************************************)
(* As for the other ingests: waiters for a connection and for a row are    *)
(* served in order, a circle is broken, a live task takes its own steps.   *)
(***************************************************************************)
FairSpec ==
  /\ Spec
  /\ \A t \in Tasks : SF_vars(Begin(t) \/ LockStep(t) \/ Proceed(t) \/ DeadlockAbort(t))
-----------------------------------------------------------------------------
(* What is behind the invariant below: a transaction holds its connection, an
   ESPN call the row of its sport from before its fetch to its end, and an
   upsert the rows it has written. *)
LocksHeld ==
  \A t \in Tasks :
    /\ pc[t] \in InTx <=> conn[t] # NoConn
    /\ pc[t] \in Locked \cup {"league"} /\ Runs(t).resolves =>
         lock[SportOf[LeagueOf[call[t]]]] = conn[t]
    /\ \A k \in Rows : Runs(t).write.constrained /\ write[t][k] # "none" =>
         lock[k] = conn[t]

(* A row is there once, although calls overlap, retry after a commit whose
   answer was lost and list an entry twice, and although no constraint of the
   transactions table says so: its find-then-insert has only the lock on the
   sport. *)
OneRowPerKey == \A k \in Rows : count[k] <= 1

(* What t has yet to write, and that a row it has inserted, and may commit, is
   still not there and one of its service's table. *)
Writes(t) ==
  /\ pc[t] \notin {"scan", "rows", "commit", "rollback"} => write[t] = Untouched
  /\ pc[t] \in {"deactivate", "scan"} =>
       Runs(t).deactivates /\ \A k \in Rows : write[t][k] \in {"none", "off"}
  /\ pc[t] = "idle" => todo[t] = <<>>
  /\ \A i \in DOMAIN todo[t] : todo[t][i] \in Entries(call[t])
  /\ \A k \in Rows : write[t][k] = "insert" =>
       k \in RowsOf(call[t]) /\ (pc[t] \in {"rows", "commit"} => count[k] = 0)

WritesAreNew == \A t \in Tasks : Writes(t)

(* The NHL teams of version v of the feed of call c, those t has upserted, and
   those it has yet to. *)
Listed(c, v) == {Feed[c][v][i] : i \in DOMAIN Feed[c][v]} \cap NhlTeams
Put(t)       == {k \in NhlTeams : write[t][k] \in {"insert", "update"}}
ToPut(t)     == {todo[t][i] : i \in DOMAIN todo[t]} \cap NhlTeams

(* A SyncTeams call has written, or has yet to write, the teams of one version
   of its feed; no active team escapes its UPDATE unless another SyncTeams ran. *)
Writing(t) == pc[t] \in {"scan", "rows"} \/ (pc[t] = "commit" /\ write[t] # Untouched)

Mirrors(t) ==
  Syncing(t) =>
    /\ pc[t] = "deactivate" \/ Writing(t) =>
         \E v \in 0..published : Put(t) \cup ToPut(t) = Listed(call[t], v)
    /\ alone[t] =>
         /\ \A u \in Tasks \ {t} : ~Syncing(u)
         /\ Writing(t) => \A k \in active : k \in scan[t] \/ write[t][k] # "none"

(* A call has no rows to turn off and no entries to go but where it works on
   them; what it updated was there, and only SyncTeams turns teams off. *)
Stable(t) ==
  /\ pc[t] \notin {"scan", "rollback"} => scan[t] = {}
  /\ pc[t] = "commit" => todo[t] = <<>>
  /\ \A k \in Rows :
       /\ write[t][k] = "update" => count[k] > 0
       /\ write[t][k] = "off" => Runs(t).deactivates

ActiveMirrored ==
  /\ \A k \in active : count[k] > 0
  /\ \A t \in Tasks : Mirrors(t) /\ Stable(t)

UpsertInv ==
  TypeOK /\ TxInv /\ LocksHeld /\ WritesAreNew /\ OneRowPerKey /\ ActiveMirrored

(* Readers see the active teams change from one feed's teams to another's in
   one step, never the deactivated table in between: "All teams are deactivated
   first so any not present in the feed are left inactive" (SyncTeams), for a
   call no other SyncTeams overlapped, whatever overlapping calls left before. *)
SyncMirrorsFeed ==
  [][/\ active' # active => \E t \in Tasks : Syncing(t) /\ Commit(t)
     /\ \A t \in Tasks : Syncing(t) /\ alone[t] /\ write[t] # Untouched /\ Commit(t) =>
          /\ active' = Put(t)
          /\ \E v \in 0..published : active' = Listed(call[t], v)]_vars

(* A panic has left a transaction open, with its connection and its locks. *)
Orphaned == \E c \in busy : \A t \in Tasks : conn[t] # c

(* Every call and every roster of a team returns, although calls of different
   sports lock the articles they share in the order of their feeds, overlapping
   SyncTeams the teams, and all wait for rows and connections without a
   deadline.  Only a panic's open transaction can keep them waiting. *)
EveryCallReturns ==
  \A t \in Tasks : pc[t] # "idle" ~> pc[t] = "idle" \/ Orphaned
=============================================================================
