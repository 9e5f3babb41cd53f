---------------------------- MODULE InjuryIngest -----------------------------
(***************************************************************************)
(* InjuriesService.IngestInjuries (internal/ingest/injuries.go) run by     *)
(* concurrent tasks of the cron worker and of the HTTP API.                *)
(*                                                                         *)
(* One call is one transaction: it upserts the sport and the league rows   *)
(* (which locks them), fetches ESPN's report, deletes the league's rows,   *)
(* inserts the report's and commits.  Nothing but the lock on the sport    *)
(* row keeps two calls apart: the injuries table has no unique constraint. *)
(***************************************************************************)
EXTENDS Naturals, FiniteSets, WriteTx

CONSTANTS
  Sports, Leagues,
  SportOf,     \* [Leagues -> Sports]
  Items,       \* entries a report may hold
  Nameless,    \* the entries parseInjury rejects (no athlete name)
  MaxVersion,  \* bound on the reports ESPN publishes per league
  Report,      \* Report[l][v]: the entries of version v of l's report
  Panics       \* whether the closure given to withTx may panic

ASSUME IngestAssumption ==
  /\ Sports \cup Leagues \subseteq Keys
  /\ Sports \cap Leagues = {}
  /\ Leagues # {}
  /\ SportOf \in [Leagues -> Sports]
  /\ Nameless \subseteq Items
  /\ MaxVersion \in Nat
  /\ Report \in [Leagues -> [0..MaxVersion -> SUBSET Items]]
  /\ Panics \in BOOLEAN

VARIABLES
  pc,          \* pc[t]: where t is in IngestInjuries
  league,      \* league[t]: the league of t's call
  got,         \* got[t]: the version of the report t fetched
  todo,        \* todo[t]: entries of it not yet visited by the loop
  del, ins,    \* rows t's open transaction has deleted and inserted
  created, errors,  \* counters of t's IngestionResult
  outcome,     \* outcome[t]: what the last call of t returned
  published,   \* published[l]: the version ESPN serves now
  table        \* table[l]: committed rows of the injuries table

callVars == <<league, got, todo, del, ins, created, errors>>
vars == <<busy, conn, lock, pc, league, got, todo, del, ins, created, errors,
          outcome, published, table>>

(* The league a task outside a call has, of no consequence. *)
NoCall == CHOOSE l \in Leagues : TRUE

Row == [item : Items, ver : 0..MaxVersion, by : Tasks]

(* The rows t inserts for the entries E of version v (row ids are told apart
   by the task that inserted them). *)
RowsFor(E, v, t) == {[item |-> i, ver |-> v, by |-> t] : i \in E \ Nameless}

(* Where a transaction is open, where it holds its two row locks, and where
   its statements and its fetch run under the call's context. *)
InTx      == {"sport", "league", "fetch", "clear", "insert", "commit", "rollback"}
Locked    == {"fetch", "clear", "insert", "commit"}
Cancellable == {"sport", "league", "fetch", "clear", "insert"}

TypeOK ==
  /\ TxTypeOK
  /\ pc \in [Tasks -> {"idle", "begin"} \cup InTx]
  /\ league \in [Tasks -> Leagues]
  /\ got \in [Tasks -> 0..MaxVersion]
  /\ todo \in [Tasks -> SUBSET Items]
  /\ del \in [Tasks -> SUBSET Row]
  /\ ins \in [Tasks -> SUBSET Row]
  /\ created \in [Tasks -> Nat]
  /\ errors \in [Tasks -> Nat]
  /\ outcome \in [Tasks -> {"none", "ok", "error", "panic"}]
  /\ published \in [Leagues -> 0..MaxVersion]
  /\ table \in [Leagues -> SUBSET Row]

Init ==
  /\ TxInit
  /\ pc = [t \in Tasks |-> "idle"]
  /\ league = [t \in Tasks |-> NoCall]
  /\ got = [t \in Tasks |-> 0]
  /\ todo = [t \in Tasks |-> {}]
  /\ del = [t \in Tasks |-> {}]
  /\ ins = [t \in Tasks |-> {}]
  /\ created = [t \in Tasks |-> 0]
  /\ errors = [t \in Tasks |-> 0]
  /\ outcome = [t \in Tasks |-> "none"]
  /\ published = [l \in Leagues |-> 0]
  /\ table = [l \in Leagues |-> {}]

Goto(t, from, to) ==
  /\ pc[t] = from
  /\ pc' = [pc EXCEPT ![t] = to]

(* The call returns: its locals are gone, which the model resets, and an error
   comes with the zero IngestionResult. *)
Return(t, result) ==
  /\ pc' = [pc EXCEPT ![t] = "idle"]
  /\ outcome' = [outcome EXCEPT ![t] = result]
  /\ created' = [created EXCEPT ![t] = IF result = "ok" THEN @ ELSE 0]
  /\ errors' = [errors EXCEPT ![t] = IF result = "ok" THEN @ ELSE 0]
  /\ got' = [got EXCEPT ![t] = 0]
  /\ todo' = [todo EXCEPT ![t] = {}]
  /\ del' = [del EXCEPT ![t] = {}]
  /\ ins' = [ins EXCEPT ![t] = {}]
  /\ league' = [league EXCEPT ![t] = NoCall]
-----------------------------------------------------------------------------
(* ESPN publishes a new report; the code never sees this happen. *)
Publish(l) ==
  /\ published[l] < MaxVersion
  /\ published' = [published EXCEPT ![l] = @ + 1]
  /\ UNCHANGED <<txVars, pc, callVars, outcome, table>>

(* IngestInjuries(ctx, sport, league) is called with a fresh result. *)
IngestInjuries(t, l) ==
  /\ Goto(t, "idle", "begin")
  /\ league' = [league EXCEPT ![t] = l]
  /\ created' = [created EXCEPT ![t] = 0]
  /\ errors' = [errors EXCEPT ![t] = 0]
  /\ outcome' = [outcome EXCEPT ![t] = "none"]
  /\ UNCHANGED <<txVars, got, todo, del, ins, published, table>>

Begin(t) ==
  /\ Goto(t, "begin", "sport")
  /\ TxBegin(t)
  /\ UNCHANGED <<callVars, outcome, published, table>>

(* Beginx returns an error: nothing was opened. *)
BeginFails(t) ==
  /\ pc[t] = "begin"
  /\ Return(t, "error")
  /\ UNCHANGED <<txVars, published, table>>

(* sports.GetOrCreateTx, first half of resolveSportLeague. *)
ResolveSportBug_NoLock(t) ==
  /\ Goto(t, "sport", "league")
  /\ UNCHANGED <<txVars, callVars, outcome, published, table>>

ResolveSport(t) ==
  /\ Goto(t, "sport", "league")
  /\ TxLock(t, SportOf[league[t]])
  /\ UNCHANGED <<callVars, outcome, published, table>>

(* leagues.GetOrCreateTx, second half of resolveSportLeague. *)
ResolveLeague(t) ==
  /\ Goto(t, "league", "fetch")
  /\ TxLock(t, league[t])
  /\ UNCHANGED <<callVars, outcome, published, table>>

(* GetLeagueInjuries answered and decoded.  A report without entries ends the
   closure with nil, before anything is deleted. *)
Fetch(t) ==
  LET v == published[league[t]]
      E == Report[league[t]][v]
  IN  /\ Goto(t, "fetch", IF E = {} THEN "commit" ELSE "clear")
      /\ got' = [got EXCEPT ![t] = v]
      /\ todo' = [todo EXCEPT ![t] = E]
      /\ UNCHANGED <<txVars, league, del, ins, created, errors, outcome,
                     published, table>>

(* injuries.DeleteByLeagueTx sees the rows committed when it runs. *)
ClearBug_Skipped(t) ==
  /\ Goto(t, "clear", "insert")
  /\ UNCHANGED <<txVars, callVars, outcome, published, table>>

ClearBug_OutsideTx(t) ==
  /\ Goto(t, "clear", "insert")
  /\ table' = [table EXCEPT ![league[t]] = {}]
  /\ UNCHANGED <<txVars, callVars, outcome, published>>

ClearBug_SecondConnection(t) ==
  /\ Goto(t, "clear", "insert")
  /\ \E c \in Conns \ busy : ConnProc[c] = TaskProc[t]
  /\ del' = [del EXCEPT ![t] = table[league[t]]]
  /\ UNCHANGED <<txVars, league, got, todo, ins, created, errors, outcome,
                 published, table>>

Clear(t) ==
  /\ Goto(t, "clear", "insert")
  /\ del' = [del EXCEPT ![t] = table[league[t]]]
  /\ UNCHANGED <<txVars, league, got, todo, ins, created, errors, outcome,
                 published, table>>

(* One turn of the loop over the report's entries. *)
InsertBug_RejectedUncounts(t) ==
  /\ Goto(t, "insert", "insert")
  /\ \E i \in todo[t] :
       /\ todo' = [todo EXCEPT ![t] = @ \ {i}]
       /\ ins' = [ins EXCEPT ![t] = @ \cup RowsFor({i}, got[t], t)]
       /\ created' = [created EXCEPT ![t] = IF i \in Nameless THEN 0 - 1 ELSE @ + 1]
  /\ UNCHANGED <<txVars, league, got, del, errors, outcome, published, table>>

InsertBug_CountsRejected(t) ==
  /\ Goto(t, "insert", "insert")
  /\ \E i \in todo[t] :
       /\ todo' = [todo EXCEPT ![t] = @ \ {i}]
       /\ ins' = [ins EXCEPT ![t] = @ \cup RowsFor({i}, got[t], t)]
       /\ created' = [created EXCEPT ![t] = @ + 1]
  /\ UNCHANGED <<txVars, league, got, del, errors, outcome, published, table>>

Insert(t) ==
  /\ Goto(t, "insert", "insert")
  /\ \E i \in todo[t] :
       /\ todo' = [todo EXCEPT ![t] = @ \ {i}]
       /\ IF i \in Nameless
          THEN /\ errors' = [errors EXCEPT ![t] = @ + 1]
               /\ UNCHANGED <<ins, created>>
          ELSE /\ ins' = [ins EXCEPT ![t] = @ \cup RowsFor({i}, got[t], t)]
               /\ created' = [created EXCEPT ![t] = @ + 1]
               /\ UNCHANGED errors
  /\ UNCHANGED <<txVars, league, got, del, outcome, published, table>>

(* The loop is over: the closure returns nil. *)
LoopEnds(t) ==
  /\ Goto(t, "insert", "commit")
  /\ todo[t] = {}
  /\ UNCHANGED <<txVars, callVars, outcome, published, table>>

(* What a committed transaction of t leaves in the table. *)
Committed(t) == [table EXCEPT ![league[t]] = (@ \ del[t]) \cup ins[t]]

Commit(t) ==
  /\ pc[t] = "commit"
  /\ TxEnd(t)
  /\ table' = Committed(t)
  /\ Return(t, "ok")
  /\ UNCHANGED published

(* tx.Commit() returns an error.  If only the acknowledgement was lost, the
   transaction is committed although the call reports a failure. *)
CommitFails(t) ==
  /\ pc[t] = "commit"
  /\ TxEnd(t)
  /\ table' \in {table, Committed(t)}
  /\ Return(t, "error")
  /\ UNCHANGED published

(* A statement or the fetch fails, the report does not decode, or the context
   ends (job deadline, worker shutdown, client gone): the closure returns it. *)
Fail(t) ==
  /\ pc[t] \in Cancellable
  /\ pc' = [pc EXCEPT ![t] = "rollback"]
  /\ UNCHANGED <<txVars, callVars, outcome, published, table>>

RollbackBug_Commits(t) ==
  /\ pc[t] = "rollback"
  /\ TxEnd(t)
  /\ table' = Committed(t)
  /\ Return(t, "error")
  /\ UNCHANGED published

Rollback(t) ==
  /\ pc[t] = "rollback"
  /\ TxEnd(t)
  /\ Return(t, "error")
  /\ UNCHANGED <<published, table>>

(* The closure panics; fanOut (or the API's recover middleware) recovers. *)
Panic(t) ==
  /\ Panics
  /\ pc[t] \in Cancellable
  /\ TxAbandon(t)
  /\ Return(t, "panic")
  /\ UNCHANGED <<published, table>>

(* A process dies and is started again.  Dying while COMMIT is under way is
   this step, or Commit and then this step. *)
Crash(p) ==
  LET gone(f, x) == [t \in Tasks |-> IF TaskProc[t] = p THEN x ELSE f[t]]
  IN  /\ TxCrash(p)
      /\ pc' = gone(pc, "idle")
      /\ outcome' = gone(outcome, "none")
      /\ got' = gone(got, 0)
      /\ todo' = gone(todo, {})
      /\ del' = gone(del, {})
      /\ ins' = gone(ins, {})
      /\ created' = gone(created, 0)
      /\ errors' = gone(errors, 0)
      /\ league' = gone(league, NoCall)
      /\ UNCHANGED <<published, table>>

(* Steps a live task takes by itself, and steps something else imposes. *)
Proceed(t) ==
  \/ ResolveLeague(t) \/ Fetch(t) \/ Clear(t) \/ Insert(t) \/ LoopEnds(t)
  \/ Commit(t) \/ Rollback(t)

Fault(t) == BeginFails(t) \/ Fail(t) \/ CommitFails(t) \/ Panic(t)

Next ==
  \/ \E l \in Leagues : Publish(l)
  \/ \E t \in Tasks, l \in Leagues : IngestInjuries(t, l)
  \/ \E t \in Tasks : Begin(t) \/ ResolveSport(t) \/ Proceed(t) \/ Fault(t)
  \/ \E p \in Procs : Crash(p)

Spec == Init /\ [][Next]_vars

(***************************************************************************)
(* database/sql serves waiters for a connection in order and PostgreSQL    *)
(* queues waiters for a row, so neither starves a task for ever; every     *)
(* other step of a live task is its own.  Nothing is assumed of faults.    *)
(***************************************************************************)
FairSpec ==
  /\ Spec
  /\ \A t \in Tasks :
       /\ WF_vars(Proceed(t))
       /\ SF_vars(Begin(t))
       /\ SF_vars(ResolveSport(t))
-----------------------------------------------------------------------------
(* Two calls for leagues of one sport are never both between their locks and
   the end of their transactions, whichever processes they run in (the row
   locks resolveSportLeague takes before the fetch). *)
SportSerialised ==
  \A t, u \in Tasks :
    t # u /\ pc[t] \in Locked /\ pc[u] \in Locked =>
      SportOf[league[t]] # SportOf[league[u]]

(* What readers see of a league is exactly one published report, inserted by
   one call: never two reports mixed, never an entry twice, never a league
   caught between the DELETE and the INSERTs. *)
SnapshotIsOneReport ==
  \A l \in Leagues :
    table[l] = {} \/ \E v \in 0..published[l], t \in Tasks :
                       table[l] = RowsFor(Report[l][v], v, t)

(* The inductive invariant behind the properties above and below: a task's two
   row locks, and what its transaction has read and written under them. *)
LocksHeld ==
  \A t \in Tasks :
    /\ pc[t] \in InTx <=> conn[t] # NoConn
    /\ pc[t] \in Locked \cup {"league"} => lock[SportOf[league[t]]] = conn[t]

(* t fetched the newest report of its league, as far as the table tells. *)
Fresh(t) ==
  pc[t] \in {"clear", "insert", "commit"} =>
    /\ got[t] <= published[league[t]]
    /\ \A r \in table[league[t]] : r.ver <= got[t]

FetchedIsNewest ==
  /\ \A l \in Leagues : \A r \in table[l] : r.ver <= published[l]
  /\ \A t \in Tasks : Fresh(t)

(* What t's open transaction has deleted and inserted so far. *)
Writes(t) ==
  LET E == Report[league[t]][got[t]]
  IN  /\ pc[t] \in {"idle", "begin", "sport", "league", "fetch", "clear"} =>
           del[t] = {} /\ ins[t] = {}
      /\ pc[t] = "clear" => todo[t] = E
      /\ pc[t] = "insert" =>
           /\ todo[t] \subseteq E
           /\ del[t] = table[league[t]]
           /\ ins[t] = RowsFor(E \ todo[t], got[t], t)
      /\ pc[t] = "commit" =>
           \/ E = {} /\ del[t] = {} /\ ins[t] = {}
           \/ del[t] = table[league[t]] /\ ins[t] = RowsFor(E, got[t], t)

WritesAreTheReport == \A t \in Tasks : Writes(t)

IngestInv ==
  TxInv /\ LocksHeld /\ FetchedIsNewest /\ WritesAreTheReport /\ SnapshotIsOneReport

(* A call that fetched early and commits late never puts an older report over
   a newer one. *)
NeverRegresses ==
  [][\A l \in Leagues : \A r \in table[l], s \in table'[l] : r.ver <= s.ver]_vars

(* Readers see a change only when some call gets past its COMMIT: a call that
   fails, panics or dies before that leaves the table as it was, whatever it had
   deleted and inserted. *)
OnlyCommitsShow ==
  [][table' # table =>
       \E t \in Tasks : pc[t] = "commit" /\ pc'[t] = "idle"]_vars

(* The Created count a successful call returns is the number of rows it left,
   unless the report was empty and the call left the rows alone. *)
CreatedIsStored ==
  [][\A t \in Tasks :
       pc[t] = "commit" /\ outcome'[t] = "ok" /\ pc'[t] = "idle" =>
         \/ Report[league[t]][got[t]] = {} /\ created'[t] = 0 /\ table' = table
         \/ created'[t] = Cardinality(table'[league[t]])]_vars

(* IngestInjuries "clears and re-inserts the league injury snapshot" (its
   comment): a successful call leaves the entries of the report it fetched. *)
SuccessReplacesSnapshot ==
  [][\A t \in Tasks :
       pc[t] = "commit" /\ outcome'[t] = "ok" /\ pc'[t] = "idle" =>
         table'[league[t]] = RowsFor(Report[league[t]][got[t]], got[t], t)]_vars

(* Whoever is waited for is still running: a row lock is held by the open
   transaction of some call. *)
NoOrphanedLock ==
  \A k \in Keys : lock[k] # NoConn => \E t \in Tasks : conn[t] = lock[k]

(* Every call returns, although calls hold row locks while they wait for ESPN
   and wait for pool connections without a deadline. *)
EveryCallReturns ==
  \A t \in Tasks : pc[t] # "idle" ~> pc[t] = "idle"

(* The abstract snapshot store, with each row's inserter forgotten. *)
Shown(l) == {[item |-> r.item, ver |-> r.ver] : r \in table[l]}
AbstractRows(l, v) == {[item |-> i, ver |-> v] : i \in Report[l][v] \ Nameless}

Store == INSTANCE SnapshotStore
           WITH RowsOf <- AbstractRows, snapshot <- [l \in Leagues |-> Shown(l)]

StoreSpec == Store!Spec
=============================================================================
