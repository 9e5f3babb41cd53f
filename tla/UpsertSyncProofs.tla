--------------------------- MODULE UpsertSyncProofs ---------------------------
(***************************************************************************)
(* Proofs about UpsertSync, for every set of calls, feeds, tasks, pools    *)
(* and processes: no row is ever there twice.                              *)
(***************************************************************************)
EXTENDS UpsertSync, WriteTxProofs, SequenceTheorems

(* A task without a call still names some call. *)
LEMMA SomeCallIsCall == SomeCall \in Calls
  BY SyncAssumption DEF SomeCall

(* What the services have in common: the one that deactivates takes no locks
   before its fetch, and a table without a constraint is written under the lock
   of its sport, with the league in its key. *)
Regular(s) ==
  /\ s.resolves \in BOOLEAN /\ s.inside \in BOOLEAN
  /\ s.deactivates \in BOOLEAN /\ s.refers \in BOOLEAN
  /\ s.write.constrained \in BOOLEAN /\ s.write.perLeague \in BOOLEAN
  /\ s.deactivates => ~s.resolves /\ s.inside /\ ~s.refers
  /\ ~s.write.constrained => s.resolves /\ s.write.perLeague

(* So it is, as IngestServices describes them. *)
LEMMA ServiceFacts ==
  ASSUME NEW c \in Calls
  PROVE  Regular(Service[Kind[c]])
<1>1. Service[Kind[c]] \in {IngestTeams, IngestNews, IngestTransactions,
        IngestAthleteStats, SyncTeams, SyncStandings, SyncTeamRoster}
  <2>1. Kind[c] \in {"teams", "news", "transactions", "stats", "nhl_teams",
                     "nhl_standings", "nhl_roster"}
    BY SyncAssumption DEF Kinds, Service
  <2>2. QED
    BY <2>1 DEF Service
<1>2. Regular(IngestTeams)
  BY DEF Regular, IngestTeams, TeamUpsert
<1>3. Regular(IngestNews)
  BY DEF Regular, IngestNews, NewsUpsert
<1>4. Regular(IngestTransactions)
  BY DEF Regular, IngestTransactions, TransactionUpsert
<1>5. Regular(IngestAthleteStats)
  BY DEF Regular, IngestAthleteStats, StatsUpsert
<1>6. Regular(SyncTeams)
  BY DEF Regular, SyncTeams, NHLTeamUpsert
<1>7. Regular(SyncStandings)
  BY DEF Regular, SyncStandings, NHLStandingUpsert
<1>8. Regular(SyncTeamRoster)
  BY DEF Regular, SyncTeamRoster, NHLPlayerUpsert
<1>9. QED
  BY <1>1, <1>2, <1>3, <1>4, <1>5, <1>6, <1>7, <1>8

(* Services that write one row are of one kind, and of one league if the row's
   key has a league. *)
LEMMA SharedRow ==
  ASSUME NEW c \in Calls, NEW d \in Calls, NEW k \in RowsOf(c) \cap RowsOf(d)
  PROVE  /\ Kind[c] = Kind[d]
         /\ Service[Kind[c]].write.perLeague => LeagueOf[c] = LeagueOf[d]
  BY SyncAssumption

(* The entries of an answer are entries of its feed. *)
LEMMA FeedType ==
  ASSUME NEW c \in Calls, NEW v \in 0..MaxVersion
  PROVE  /\ Feed[c][v] \in Seq(Rows \cup {Rejected, Loose})
         /\ \A i \in DOMAIN Feed[c][v] : Feed[c][v][i] \in Entries(c)
  BY SyncAssumption DEF Entries

(* The row an entry at hand is about is one the call may write. *)
LEMMA KeyIsOwn ==
  ASSUME TypeOK, NEW t \in Tasks, Writes(t), todo[t] # <<>>, Head(todo[t]) \in Rows
  PROVE  Key(t) \in Rows /\ Key(t) \in RowsOf(call[t])
<1> USE SyncAssumption
<1>1. Head(todo[t]) \in Entries(call[t])
  <2>1. todo[t] \in Seq(Rows \cup {Rejected, Loose})
    BY DEF TypeOK
  <2>2. Len(todo[t]) \in Nat \ {0} /\ DOMAIN todo[t] = 1..Len(todo[t])
    BY <2>1, EmptySeq, LenProperties
  <2>3. 1 \in DOMAIN todo[t] /\ Head(todo[t]) = todo[t][1]
    BY <2>1, <2>2
  <2>4. QED
    BY <2>3 DEF Writes
<1>2. call[t] \in Calls
  BY DEF TypeOK
<1>3. Service[Kind[call[t]]].refers \in BOOLEAN
  BY <1>2, ServiceFacts DEF Regular
<1>4. CASE Runs(t).refers
  <2>1. Head(todo[t]) \in NhlTeams
    BY <1>1, <1>2, <1>4 DEF Runs
  <2>2. QED
    BY <1>1, <1>4, <2>1 DEF Key, RowsOf, Runs
<1>5. CASE ~Runs(t).refers
  BY <1>1, <1>5 DEF Key, RowsOf, Runs
<1>6. QED
  BY <1>4, <1>5
-----------------------------------------------------------------------------
(* The steps of one task. *)
Move(t) ==
  \/ \E c \in Calls : StartCall(t, c)
  \/ \E k \in NhlTeams : GoTeam(t, k)
  \/ Begin(t) \/ LockStep(t) \/ Proceed(t) \/ DeadlockAbort(t) \/ BeginFails(t)
  \/ Fail(t) \/ Panic(t)

(* Nothing of u's call changes. *)
Same(u) ==
  pc'[u] = pc[u] /\ call'[u] = call[u] /\ todo'[u] = todo[u] /\ write'[u] = write[u]

(* A move of t changes no other task's call. *)
LEMMA MoveIsLocal ==
  ASSUME TypeOK, NEW t \in Tasks, Move(t), NEW u \in Tasks \ {t}
  PROVE  Same(u)
<1> USE DEF TypeOK, Goto, Return, Same, callVars, dbVars
<1>1. ASSUME NEW c \in Calls, StartCall(t, c) PROVE Same(u)
  BY <1>1 DEF StartCall
<1>2. ASSUME NEW k \in NhlTeams, GoTeam(t, k) PROVE Same(u)
  BY <1>2 DEF GoTeam
<1>3. CASE Begin(t) \/ ResolveSport(t) \/ ResolveLeague(t) \/ DeadlockAbort(t) \/ Fail(t)
  BY <1>3 DEF Begin, ResolveSport, ResolveLeague, DeadlockAbort, Fail
<1>4. CASE DeactivateRow(t)
  BY <1>4 DEF DeactivateRow
<1>5. CASE Upsert(t) \/ UpsertByESPN(t)
  BY <1>5 DEF Upsert, UpsertByESPN, Turn, Written
<1>6. CASE Fetch(t) \/ Deactivate(t) \/ DeactivateEnds(t) \/ LoopEnds(t) \/ FetchRoster(t)
  BY <1>6 DEF Fetch, Deactivate, DeactivateEnds, LoopEnds, FetchRoster
<1>7. CASE SkipEntry(t)
  BY <1>7 DEF SkipEntry, Turn
<1>8. CASE Commit(t) \/ Rollback(t) \/ Panic(t) \/ RosterFails(t) \/ BeginFails(t)
  BY <1>8 DEF Commit, Rollback, Panic, RosterFails, BeginFails
<1>9. QED
  BY <1>1, <1>2, <1>3, <1>4, <1>5, <1>6, <1>7, <1>8 DEF Move, LockStep, Proceed

(* What a step that takes a row lock does to pool and locks: a task with an open
   transaction locks one row, or the insert of a row nobody sees locks none. *)
LEMMA LockSteps ==
  ASSUME TypeOK, NEW t \in Tasks, LockStep(t), Writes(t)
  PROVE  /\ pc[t] \in InTx
         /\ \/ \E k \in Keys : TxLock(t, k)
            \/ UNCHANGED txVars
<1> USE SyncAssumption DEF InTx
<1>1. CASE ResolveSport(t)
  <2>1. SportOf[LeagueOf[call[t]]] \in Keys
    BY DEF TypeOK
  <2>2. QED
    BY <1>1, <2>1 DEF ResolveSport, Goto
<1>2. CASE ResolveLeague(t)
  <2>1. LeagueOf[call[t]] \in Keys
    BY DEF TypeOK
  <2>2. QED
    BY <1>2, <2>1 DEF ResolveLeague, Goto
<1>3. CASE DeactivateRow(t)
  BY <1>3 DEF DeactivateRow, AtHand, TypeOK
<1>4. CASE Upsert(t) \/ UpsertByESPN(t)
  <2>1. Key(t) \in Keys
    BY <1>4, KeyIsOwn DEF Upsert, UpsertByESPN, Turn
  <2>2. QED
    BY <1>4, <2>1 DEF Upsert, UpsertByESPN, Turn
<1>5. QED
  BY <1>1, <1>2, <1>3, <1>4 DEF LockStep

(* Every step is a step of WriteTx on pool and locks. *)
LEMMA TxStep ==
  ASSUME TypeOK, TxInv, LocksHeld, WritesAreNew, [Next]_vars
  PROVE  TxTypeOK' /\ TxInv'
<1> USE PoolAssumption, SyncAssumption
<1> DEFINE Kept == TxTypeOK' /\ TxInv'
<1>1. TxTypeOK
  BY DEF TypeOK
<1>2. ASSUME UNCHANGED txVars PROVE Kept
  BY <1>1, <1>2, TxUnchangedKeeps
<1>3. ASSUME NEW t \in Tasks, Begin(t) PROVE Kept
  <2>1. conn[t] = NoConn
    BY <1>3 DEF Begin, Goto, LocksHeld, InTx
  <2>2. QED
    BY <1>1, <1>3, <2>1, TxBeginKeeps DEF Begin
<1>4. ASSUME NEW t \in Tasks, LockStep(t) PROVE Kept
  <2>1. conn[t] # NoConn
    BY <1>4, LockSteps DEF WritesAreNew, LocksHeld
  <2>2. CASE \E k \in Keys : TxLock(t, k)
    BY <1>1, <2>1, <2>2, TxLockKeeps
  <2>3. QED
    BY <1>2, <1>4, <2>2, LockSteps DEF WritesAreNew
<1>5. ASSUME NEW t \in Tasks, Commit(t) \/ Rollback(t) PROVE Kept
  <2>1. conn[t] # NoConn /\ TxEnd(t)
    BY <1>5 DEF Commit, Rollback, LocksHeld, InTx
  <2>2. QED
    BY <1>1, <2>1, TxEndKeeps
<1>6. ASSUME NEW t \in Tasks,
             \/ Fetch(t) \/ Deactivate(t) \/ DeactivateEnds(t) \/ SkipEntry(t)
             \/ LoopEnds(t) \/ FetchRoster(t) \/ RosterFails(t)
             \/ DeadlockAbort(t) \/ BeginFails(t) \/ Fail(t)
      PROVE  Kept
  BY <1>2, <1>6 DEF Fetch, Deactivate, DeactivateEnds, SkipEntry, LoopEnds, FetchRoster,
       RosterFails, DeadlockAbort, BeginFails, Fail
<1>7. ASSUME NEW t \in Tasks, NEW c \in Calls, StartCall(t, c) PROVE Kept
  BY <1>2, <1>7 DEF StartCall
<1>8. ASSUME NEW t \in Tasks, NEW k \in NhlTeams, GoTeam(t, k) PROVE Kept
  BY <1>2, <1>8 DEF GoTeam
<1>9. ASSUME NEW p \in Procs, ListActive(p) \/ Wait(p) PROVE Kept
  BY <1>2, <1>9 DEF ListActive, Wait
<1>10. ASSUME NEW p \in Procs, Crash(p) PROVE Kept
  BY <1>1, <1>10, TxCrashKeeps DEF Crash
<1>11. CASE UNCHANGED vars \/ Publish
  BY <1>2, <1>11 DEF vars, txVars, Publish
<1>12. ASSUME NEW t \in Tasks, Panic(t) PROVE Kept
  BY <1>1, <1>12, TxAbandonKeeps DEF Panic
<1>13. QED
  BY <1>3, <1>4, <1>5, <1>6, <1>7, <1>8, <1>9, <1>10, <1>11, <1>12 DEF Next, Proceed
-----------------------------------------------------------------------------
(* What an entry's upsert writes is a transaction's record of rows. *)
LEMMA WrittenType ==
  ASSUME TypeOK, NEW t \in Tasks, NEW k \in Rows
  PROVE  /\ Written(t, k) \in [Tasks -> [Rows -> {"none", "insert", "update", "off"}]]
         /\ \A j \in Rows : j # k => Written(t, k)[t][j] = write[t][j]
         /\ Written(t, k)[t][k] = IF Sees(t, k) /\ write[t][k] # "insert"
                                  THEN "update" ELSE "insert"
  BY DEF TypeOK, Written

(* And so is what turning a row off writes. *)
LEMMA OffType ==
  ASSUME TypeOK, NEW t \in Tasks, DeactivateRow(t)
  PROVE  \E k \in scan[t] :
           /\ k \in NhlTeams /\ k \in Rows
           /\ TxLock(t, k)
           /\ scan' = [scan EXCEPT ![t] = scan[t] \ {k}]
           /\ write' \in [Tasks -> [Rows -> {"none", "insert", "update", "off"}]]
           /\ \A j \in Rows : write'[t][j] = IF j = k THEN "off" ELSE write[t][j]
<1>1. PICK k \in scan[t] :
        /\ TxLock(t, k)
        /\ write' = [write EXCEPT ![t][k] = "off"]
        /\ scan' = [scan EXCEPT ![t] = scan[t] \ {k}]
  BY DEF DeactivateRow, AtHand
<1>2. k \in NhlTeams /\ k \in Rows
  BY SyncAssumption DEF TypeOK
<1>3. write \in [Tasks -> [Rows -> {"none", "insert", "update", "off"}]]
  BY DEF TypeOK
<1>4. /\ write' \in [Tasks -> [Rows -> {"none", "insert", "update", "off"}]]
      /\ \A j \in Rows : write'[t][j] = IF j = k THEN "off" ELSE write[t][j]
  BY <1>1, <1>2, <1>3
<1>5. QED
  BY <1>1, <1>2, <1>4

(* What is left of the entries after a turn. *)
LEMMA TurnType ==
  ASSUME TypeOK, NEW t \in Tasks, Turn(t)
  PROVE  /\ todo' \in [Tasks -> Seq(Rows \cup {Rejected, Loose})]
         /\ Writes(t) => \A i \in DOMAIN todo'[t] : todo'[t][i] \in Entries(call[t])
<1>1. todo[t] \in Seq(Rows \cup {Rejected, Loose}) /\ todo[t] # <<>>
  BY DEF TypeOK, Turn
<1>2. /\ Tail(todo[t]) \in Seq(Rows \cup {Rejected, Loose})
      /\ Len(Tail(todo[t])) = Len(todo[t]) - 1
      /\ \A i \in 1..Len(Tail(todo[t])) : Tail(todo[t])[i] = todo[t][i + 1]
  BY <1>1, HeadTailProperties
<1>3. /\ Len(todo[t]) \in Nat /\ DOMAIN todo[t] = 1..Len(todo[t])
      /\ DOMAIN Tail(todo[t]) = 1..Len(Tail(todo[t]))
  BY <1>1, <1>2, LenProperties
<1>4. todo'[t] = Tail(todo[t]) /\ todo' = [todo EXCEPT ![t] = Tail(todo[t])]
  BY DEF Turn, TypeOK
<1>5. todo' \in [Tasks -> Seq(Rows \cup {Rejected, Loose})]
  BY <1>2, <1>4 DEF TypeOK
<1>6. ASSUME Writes(t), NEW i \in DOMAIN todo'[t] PROVE todo'[t][i] \in Entries(call[t])
  <2>1. i + 1 \in DOMAIN todo[t] /\ todo'[t][i] = todo[t][i + 1]
    BY <1>2, <1>3, <1>4
  <2>2. QED
    BY <1>6, <2>1 DEF Writes
<1>7. QED
  BY <1>5, <1>6

(* Every variable keeps its type. *)
LEMMA TypeStep ==
  ASSUME TypeOK, TxInv, LocksHeld, WritesAreNew, [Next]_vars
  PROVE  TypeOK'
<1> USE SyncAssumption, SomeCallIsCall
<1>t. TxTypeOK'
  BY TxStep
<1>u. Untouched \in [Rows -> {"none", "insert", "update", "off"}]
  BY DEF Untouched
<1>e. <<>> \in Seq(Rows \cup {Rejected, Loose})
  BY EmptySeq
<1> USE DEF TypeOK, Goto, Return, callVars, dbVars, rosterVars, InTx
<1>1. ASSUME NEW t \in Tasks, NEW c \in Calls, StartCall(t, c) PROVE TypeOK'
  <2>1. alone' \in [Tasks -> BOOLEAN]
    BY <1>1, ServiceFacts DEF StartCall, Regular
  <2>2. QED
    BY <1>t, <1>1, <2>1 DEF StartCall
<1>2. ASSUME NEW t \in Tasks, NEW k \in NhlTeams, GoTeam(t, k) PROVE TypeOK'
  BY <1>t, <1>2 DEF GoTeam
<1>3. ASSUME NEW t \in Tasks, Begin(t) PROVE TypeOK'
  BY <1>t, <1>3 DEF Begin
<1>4. ASSUME NEW t \in Tasks,
             ResolveSport(t) \/ ResolveLeague(t) \/ DeadlockAbort(t) \/ Fail(t)
                \/ DeactivateEnds(t) \/ LoopEnds(t)
      PROVE  TypeOK'
  BY <1>t, <1>4 DEF ResolveSport, ResolveLeague, DeadlockAbort, Fail, DeactivateEnds,
       LoopEnds
<1>5. ASSUME NEW t \in Tasks, Fetch(t) \/ FetchRoster(t) PROVE TypeOK'
  <2>1. Feed[call[t]][published] \in Seq(Rows \cup {Rejected, Loose})
    BY FeedType
  <2>2. CASE Fetch(t)
    BY <1>t, <2>1, <2>2 DEF Fetch
  <2>3. CASE FetchRoster(t)
    BY <1>t, <2>1, <2>3 DEF FetchRoster
  <2>4. QED
    BY <1>5, <2>2, <2>3
<1>6. ASSUME NEW t \in Tasks, Deactivate(t) PROVE TypeOK'
  BY <1>t, <1>6 DEF Deactivate
<1>7. ASSUME NEW t \in Tasks, DeactivateRow(t) PROVE TypeOK'
  <2>1. write' \in [Tasks -> [Rows -> {"none", "insert", "update", "off"}]]
    BY <1>7, OffType
  <2>2. scan' \in [Tasks -> SUBSET NhlTeams]
    <3>1. PICK k \in scan[t] : scan' = [scan EXCEPT ![t] = scan[t] \ {k}]
      BY <1>7, OffType
    <3>2. QED
      BY <3>1
  <2>3. QED
    BY <1>t, <1>7, <2>1, <2>2 DEF DeactivateRow
<1>8. ASSUME NEW t \in Tasks, SkipEntry(t) PROVE TypeOK'
  BY <1>t, <1>8, TurnType DEF SkipEntry, Turn
<1>9. ASSUME NEW t \in Tasks, Upsert(t) \/ UpsertByESPN(t) PROVE TypeOK'
  <2>1. Turn(t) /\ Key(t) \in Rows /\ write' = Written(t, Key(t))
    BY <1>9, KeyIsOwn DEF Upsert, UpsertByESPN, Turn, WritesAreNew
  <2>2. write' \in [Tasks -> [Rows -> {"none", "insert", "update", "off"}]]
    BY <2>1, WrittenType
  <2>3. todo' \in [Tasks -> Seq(Rows \cup {Rejected, Loose})]
    BY <2>1, TurnType
  <2>4. QED
    BY <1>t, <2>1, <2>2, <2>3 DEF Turn
<1>10. ASSUME NEW t \in Tasks, Rollback(t) \/ Panic(t) \/ RosterFails(t) \/ BeginFails(t)
       PROVE  TypeOK'
  <2>1. Return(t) /\ UNCHANGED <<dbVars, rosterVars>>
    BY <1>10 DEF Rollback, Panic, RosterFails, BeginFails
  <2>2. QED
    BY <1>t, <1>u, <1>e, <2>1
<1>11. ASSUME NEW t \in Tasks, Commit(t) PROVE TypeOK'
  <2>1. count' \in [Rows -> Nat] /\ active' \subseteq NhlTeams
    BY <1>11 DEF Commit, Inserted, Activated
  <2>2. QED
    BY <1>t, <1>u, <1>e, <1>11, <2>1 DEF Commit
<1>12. ASSUME NEW p \in Procs, ListActive(p) \/ Wait(p) PROVE TypeOK'
  BY <1>t, <1>12 DEF ListActive, Wait
<1>13. ASSUME NEW p \in Procs, Crash(p) PROVE TypeOK'
  BY <1>t, <1>u, <1>e, <1>13 DEF Crash
<1>14. CASE Publish
  BY <1>t, <1>14 DEF Publish
<1>15. CASE UNCHANGED vars
  BY <1>t, <1>15 DEF vars
<1>16. QED
  BY <1>1, <1>2, <1>3, <1>4, <1>5, <1>6, <1>7, <1>8, <1>9, <1>10, <1>11, <1>12, <1>13,
     <1>14, <1>15 DEF Next, LockStep, Proceed
-----------------------------------------------------------------------------
(* What LocksHeld says of one task. *)
Held(t) ==
  /\ pc[t] \in InTx <=> conn[t] # NoConn
  /\ pc[t] \in Locked \cup {"league"} /\ Runs(t).resolves =>
       lock[SportOf[LeagueOf[call[t]]]] = conn[t]
  /\ \A k \in Rows : Runs(t).write.constrained /\ write[t][k] # "none" =>
       lock[k] = conn[t]

(* u keeps its connection and the rows it is locked for. *)
Keeps(u) ==
  /\ conn'[u] = conn[u]
  /\ \A k \in Keys : lock[k] = conn[u] /\ conn[u] # NoConn => lock'[k] = conn[u]

(* A move of t takes no other task's connection and none of its locks. *)
LEMMA OthersKeep ==
  ASSUME TypeOK, TxInv, LocksHeld, WritesAreNew,
         NEW t \in Tasks, Move(t), NEW u \in Tasks \ {t}
  PROVE  Keeps(u)
<1> USE DEF TypeOK, TxTypeOK, Keeps
<1>1. CASE UNCHANGED txVars
  BY <1>1 DEF txVars
<1>2. CASE Begin(t)
  BY <1>2 DEF Begin, TxBegin
<1>3. conn[u] # NoConn => conn[u] # conn[t]
  BY DEF TxInv
<1>4. CASE LockStep(t)
  <2>1. ASSUME NEW k \in Keys, TxLock(t, k) PROVE Keeps(u)
    BY <1>3, <2>1 DEF TxLock
  <2>2. QED
    BY <1>1, <1>4, <2>1, LockSteps DEF WritesAreNew
<1>5. CASE Commit(t) \/ Rollback(t)
  <2>1. TxEnd(t)
    BY <1>5 DEF Commit, Rollback
  <2>2. QED
    BY <1>3, <2>1 DEF TxEnd, Released
<1>6. CASE ~(Begin(t) \/ LockStep(t) \/ Commit(t) \/ Rollback(t) \/ Panic(t))
  BY <1>1, <1>6 DEF Move, Proceed, StartCall, GoTeam, Fetch, Deactivate, DeactivateEnds,
       SkipEntry, LoopEnds, FetchRoster, RosterFails, DeadlockAbort, BeginFails, Fail
<1>7. CASE Panic(t)
  BY <1>7 DEF Panic, TxAbandon
<1>8. QED
  BY <1>2, <1>4, <1>5, <1>6, <1>7

(* So it leaves the others what they hold. *)
LEMMA SameHeld ==
  ASSUME TypeOK, NEW u \in Tasks, Held(u), Writes(u), Same(u), Keeps(u)
  PROVE  Held(u)'
<1> USE SyncAssumption DEF TypeOK
<1>1. SportOf[LeagueOf[call[u]]] \in Keys /\ Rows \subseteq Keys
  OBVIOUS
<1>2. pc[u] \in Locked \cup {"league"} => conn[u] # NoConn
  BY DEF Held, Locked, InTx
<1>3. \A k \in Rows : write[u][k] # "none" => conn[u] # NoConn
  BY DEF Held, Writes, Untouched, InTx
<1>4. Runs(u)' = Runs(u)
  BY DEF Same, Runs
<1>5. QED
  BY <1>1, <1>2, <1>3, <1>4 DEF Held, Same, Keeps

(* Outside a transaction, and without writes, nothing has to be held. *)
LEMMA IdleHeld ==
  ASSUME NEW t \in Tasks, pc'[t] \notin InTx, conn'[t] = NoConn, write'[t] = Untouched
  PROVE  Held(t)'
  BY DEF Held, Untouched, InTx, Locked

(* A move of t leaves t with the locks it needs from here on. *)
LEMMA MoveHeld ==
  ASSUME TypeOK, TypeOK', NEW t \in Tasks, Held(t), Writes(t), Move(t)
  PROVE  Held(t)'
<1> USE SyncAssumption DEF TypeOK, TxTypeOK, Goto, Return, callVars
<1>c. Regular(Runs(t))
  BY ServiceFacts DEF Runs
<1>1. CASE \/ \E c \in Calls : StartCall(t, c)
           \/ \E k \in NhlTeams : GoTeam(t, k)
           \/ FetchRoster(t)
  <2>1. pc[t] \in {"idle", "roster"} /\ pc'[t] \in {"begin", "roster"}
    BY <1>1 DEF StartCall, GoTeam, FetchRoster
  <2>2. conn' = conn /\ write' = write
    BY <1>1 DEF StartCall, GoTeam, FetchRoster, txVars
  <2>3. QED
    BY <2>1, <2>2, IdleHeld DEF Held, Writes, InTx
<1>2. CASE RosterFails(t) \/ BeginFails(t)
  <2>1. pc[t] \in {"begin", "roster"} /\ Return(t) /\ conn' = conn
    BY <1>2 DEF RosterFails, BeginFails, txVars
  <2>2. pc'[t] = "idle" /\ write'[t] = Untouched
    BY <2>1
  <2>3. conn'[t] = NoConn
    BY <2>1 DEF Held, InTx
  <2>4. QED
    BY <2>2, <2>3, IdleHeld DEF InTx
<1>3. CASE Commit(t) \/ Rollback(t) \/ Panic(t)
  <2>1. Return(t) /\ (TxEnd(t) \/ TxAbandon(t))
    BY <1>3 DEF Commit, Rollback, Panic
  <2>2. conn'[t] = NoConn
    BY <2>1 DEF TxEnd, TxAbandon
  <2>3. QED
    BY <2>1, <2>2, IdleHeld DEF InTx
<1>4. CASE Begin(t)
  <2>1. conn'[t] # NoConn /\ lock' = lock
    BY <1>4, PoolAssumption DEF Begin, TxBegin
  <2>2. /\ pc[t] = "begin" /\ pc'[t] \in {"sport", "fetch", "rows"}
        /\ pc'[t] \in {"fetch", "rows"} => ~Runs(t).resolves
    BY <1>4, <1>c DEF Begin, Regular
  <2>3. call' = call /\ write' = write
    BY <1>4 DEF Begin
  <2>4. write[t] = Untouched
    BY <2>2 DEF Writes
  <2>5. QED
    BY <2>1, <2>2, <2>3, <2>4 DEF Held, Runs, InTx, Locked, Untouched
<1>5. CASE ResolveSport(t) \/ ResolveLeague(t)
  <2>1. /\ pc[t] \in {"sport", "league"} /\ pc'[t] \in {"league", "fetch"}
        /\ call' = call /\ write' = write /\ conn' = conn
    BY <1>5 DEF ResolveSport, ResolveLeague, TxLock
  <2>2. write[t] = Untouched
    BY <2>1 DEF Writes
  <2>3. lock'[SportOf[LeagueOf[call[t]]]] = conn[t] \/ ~Runs(t).resolves
    <3>1. CASE ResolveSport(t)
      BY <3>1 DEF ResolveSport, TxLock
    <3>2. CASE ResolveLeague(t)
      <4>1. SportOf[LeagueOf[call[t]]] # LeagueOf[call[t]]
        OBVIOUS
      <4>2. pc[t] = "league" /\ lock' = [lock EXCEPT ![LeagueOf[call[t]]] = conn[t]]
        BY <3>2 DEF ResolveLeague, TxLock
      <4>3. lock'[SportOf[LeagueOf[call[t]]]] = lock[SportOf[LeagueOf[call[t]]]]
        BY <4>1, <4>2
      <4>4. QED
        BY <4>2, <4>3 DEF Held
    <3>3. QED
      BY <1>5, <3>1, <3>2
  <2>4. QED
    BY <2>1, <2>2, <2>3 DEF Held, Runs, InTx, Locked, Untouched
<1>6. CASE Fetch(t) \/ Deactivate(t) \/ DeactivateEnds(t) \/ LoopEnds(t) \/ SkipEntry(t)
             \/ DeadlockAbort(t) \/ Fail(t)
  <2>1. call' = call /\ write' = write /\ conn' = conn /\ lock' = lock
    BY <1>6 DEF Fetch, Deactivate, DeactivateEnds, LoopEnds, SkipEntry, Turn,
         DeadlockAbort, Fail, txVars
  <2>2. pc[t] \in InTx
    <3>1. CASE ~DeadlockAbort(t)
      BY <1>6, <3>1 DEF Fetch, Deactivate, DeactivateEnds, LoopEnds, SkipEntry, Turn,
           Fail, InTx, Cancellable
    <3>2. CASE DeadlockAbort(t)
      BY <3>2 DEF DeadlockAbort, Deadlocked, WaitsFor, Wants, InTx
    <3>3. QED
      BY <3>1, <3>2
  <2>3. /\ pc'[t] \in InTx
        /\ pc'[t] \in Locked /\ Runs(t).resolves => pc[t] \in Locked
        /\ pc'[t] # "league"
    BY <1>6, <1>c DEF Fetch, Deactivate, DeactivateEnds, LoopEnds, SkipEntry, Turn,
         DeadlockAbort, Fail, InTx, Locked, Writes, Regular
  <2>4. QED
    BY <2>1, <2>2, <2>3 DEF Held, Runs
<1>7. CASE DeactivateRow(t)
  <2> HIDE DEF TypeOK, TxTypeOK, Goto, Return, callVars
  <2>1. PICK k \in scan[t] :
          /\ k \in NhlTeams /\ TxLock(t, k)
          /\ \A j \in Rows : write'[t][j] = IF j = k THEN "off" ELSE write[t][j]
    BY <1>7, OffType
  <2> USE DEF TypeOK, TxTypeOK, Goto, Return, callVars
  <2>2. pc[t] = "scan" /\ pc' = pc /\ call' = call /\ conn' = conn
    BY <1>7 DEF DeactivateRow, TxLock
  <2>3. \A j \in Rows : lock'[j] = IF j = k THEN conn[t] ELSE lock[j]
    <3>1. lock' = [lock EXCEPT ![k] = conn[t]]
      BY <2>1 DEF TxLock
    <3>2. QED
      BY <3>1
  <2>4. Runs(t)' = Runs(t)
    BY <2>2 DEF Runs
  <2>5. ASSUME NEW j \in Rows, Runs(t).write.constrained, write'[t][j] # "none"
        PROVE  lock'[j] = conn[t]
    BY <2>1, <2>3, <2>5 DEF Held
  <2>6. QED
    BY <2>2, <2>4, <2>5 DEF Held, Locked
<1>8. CASE Upsert(t) \/ UpsertByESPN(t)
  <2> DEFINE k == Key(t)
  <2>1. /\ k \in Rows /\ Turn(t) /\ write' = Written(t, k)
        /\ Runs(t).write.constrained => TxLock(t, k)
        /\ TxLock(t, k) \/ UNCHANGED txVars
    BY <1>8, KeyIsOwn DEF Upsert, UpsertByESPN, Turn
  <2> HIDE DEF k
  <2>2. pc[t] = "rows" /\ pc' = pc /\ call' = call /\ conn' = conn
    BY <2>1 DEF Turn, TxLock, txVars
  <2>3. \A j \in Keys : lock'[j] = lock[j] \/ lock'[j] = conn[t]
    BY <2>1 DEF TxLock, txVars
  <2>4. Runs(t).write.constrained => lock'[k] = conn[t]
    BY <2>1 DEF TxLock
  <2>5. \A j \in Rows : j # k => write'[t][j] = write[t][j]
    <3>1. \A j \in Rows : j # k => Written(t, k)[t][j] = write[t][j]
      BY <2>1, WrittenType
    <3>2. QED
      BY <2>1, <3>1
  <2>6. SportOf[LeagueOf[call[t]]] \in Keys /\ Rows \subseteq Keys
    OBVIOUS
  <2>7. QED
    BY <2>2, <2>3, <2>4, <2>5, <2>6 DEF Held, Runs, Locked
<1>9. QED
  BY <1>1, <1>2, <1>3, <1>4, <1>5, <1>6, <1>7, <1>8 DEF Move, LockStep, Proceed
-----------------------------------------------------------------------------
(* Only a commit adds rows. *)
LEMMA OnlyCommitCounts ==
  ASSUME NEW t \in Tasks, Move(t), ~Commit(t)
  PROVE  count' = count
  BY DEF Move, LockStep, Proceed, StartCall, GoTeam, Begin, ResolveSport, ResolveLeague,
     DeactivateRow, Upsert, UpsertByESPN, Turn, Fetch, Deactivate, DeactivateEnds,
     SkipEntry, LoopEnds, Rollback, FetchRoster, RosterFails, DeadlockAbort, BeginFails,
     Fail, Panic, dbVars

(* A task whose call does not change keeps its part, as long as nobody adds the
   rows it has inserted. *)
LEMMA SameWrites ==
  ASSUME NEW u \in Tasks, Same(u), Writes(u),
         \A k \in Rows : write[u][k] = "insert" /\ pc[u] \in {"rows", "commit"} =>
           count'[k] = 0
  PROVE  Writes(u)'
<1>1. Runs(u)' = Runs(u)
  BY DEF Same, Runs
<1>2. QED
  BY <1>1 DEF Same, Writes

(* A task without entries and without writes has nothing to keep. *)
LEMMA EmptyWrites ==
  ASSUME NEW t \in Tasks, todo'[t] = <<>>, write'[t] = Untouched,
         pc'[t] \notin {"deactivate", "scan"}
  PROVE  Writes(t)'
<1>1. DOMAIN todo'[t] = {}
  OBVIOUS
<1>2. \A k \in Rows : write'[t][k] = "none"
  BY DEF Untouched
<1>3. QED
  BY <1>1, <1>2 DEF Writes

(* A move of t keeps what it has yet to write and has written: a row is written
   as new only if it is not there. *)
LEMMA MoveWrites ==
  ASSUME TypeOK, NEW t \in Tasks, Writes(t), Move(t)
  PROVE  Writes(t)'
<1> USE DEF TypeOK, Goto, Return, callVars
<1>1. CASE \/ \E c \in Calls : StartCall(t, c)
           \/ \E k \in NhlTeams : GoTeam(t, k)
  <2>1. /\ pc[t] = "idle" /\ pc'[t] \in {"begin", "roster"}
        /\ todo' = todo /\ write' = write
    BY <1>1 DEF StartCall, GoTeam
  <2>2. QED
    BY <2>1, EmptyWrites DEF Writes
<1>2. CASE RosterFails(t) \/ BeginFails(t) \/ Commit(t) \/ Rollback(t) \/ Panic(t)
  <2>1. Return(t)
    BY <1>2 DEF RosterFails, BeginFails, Commit, Rollback, Panic
  <2>2. QED
    BY <2>1, EmptyWrites
<1>3. CASE Fetch(t) \/ FetchRoster(t)
  <2>1. /\ pc[t] \in {"fetch", "roster"}
        /\ pc'[t] \in {"begin", "commit", "rows", "deactivate"}
        /\ pc'[t] = "deactivate" => Runs(t).deactivates
        /\ call' = call /\ write' = write
        /\ todo'[t] = Feed[call[t]][published]
    BY <1>3 DEF Fetch, FetchRoster
  <2>2. \A i \in DOMAIN todo'[t] : todo'[t][i] \in Entries(call[t])
    BY <2>1, FeedType
  <2>3. write[t] = Untouched
    BY <2>1 DEF Writes
  <2>4. \A k \in Rows : write'[t][k] = "none"
    BY <2>1, <2>3 DEF Untouched
  <2>5. Runs(t)' = Runs(t)
    BY <2>1 DEF Runs
  <2>6. QED
    BY <2>1, <2>2, <2>3, <2>4, <2>5 DEF Writes
<1>4. CASE \/ Begin(t) \/ ResolveSport(t) \/ ResolveLeague(t) \/ Deactivate(t)
           \/ DeactivateEnds(t) \/ LoopEnds(t) \/ DeadlockAbort(t) \/ Fail(t)
  <2>1. /\ call' = call /\ write' = write /\ todo' = todo /\ count' = count
        /\ Runs(t)' = Runs(t)
    BY <1>4 DEF Begin, ResolveSport, ResolveLeague, Deactivate, DeactivateEnds, LoopEnds,
         DeadlockAbort, Fail, dbVars, Runs
  <2>2. /\ pc'[t] # "idle"
        /\ pc'[t] \in {"deactivate", "scan"} => pc[t] = "deactivate"
        /\ pc'[t] \notin {"scan", "rows", "commit", "rollback"} =>
             pc[t] \in {"begin", "sport", "league"}
        /\ pc'[t] \in {"rows", "commit"} =>
             pc[t] \in {"rows", "commit", "begin"} \/ pc[t] = "scan"
    BY <1>4 DEF Begin, ResolveSport, ResolveLeague, Deactivate, DeactivateEnds, LoopEnds,
         DeadlockAbort, Fail
  <2>3. pc[t] = "scan" => \A k \in Rows : write[t][k] # "insert"
    BY DEF Writes
  <2>4. pc[t] = "begin" => \A k \in Rows : write[t][k] = "none"
    BY DEF Writes, Untouched
  <2>5. QED
    BY <2>1, <2>2, <2>3, <2>4 DEF Writes
<1>5. CASE SkipEntry(t)
  <2>1. /\ pc' = pc /\ call' = call /\ write' = write /\ count' = count
        /\ pc[t] = "rows" /\ Turn(t) /\ Runs(t)' = Runs(t)
    BY <1>5 DEF SkipEntry, Turn, dbVars, Runs
  <2>2. \A i \in DOMAIN todo'[t] : todo'[t][i] \in Entries(call[t])
    BY <2>1, TurnType
  <2>3. QED
    BY <2>1, <2>2 DEF Writes
<1>6. CASE DeactivateRow(t)
  <2>1. PICK k \in NhlTeams :
          \A j \in Rows : write'[t][j] = IF j = k THEN "off" ELSE write[t][j]
    BY <1>6, OffType
  <2>2. /\ pc' = pc /\ call' = call /\ todo' = todo /\ count' = count
        /\ pc[t] = "scan" /\ Runs(t)' = Runs(t)
    BY <1>6 DEF DeactivateRow, dbVars, Runs
  <2>3. \A j \in Rows : write'[t][j] = IF j = k THEN "off" ELSE write[t][j]
    BY <2>1
  <2>4. QED
    BY <2>2, <2>3 DEF Writes
<1>7. CASE Upsert(t) \/ UpsertByESPN(t)
  <2> DEFINE k == Key(t)
  <2>1. k \in Rows /\ k \in RowsOf(call[t]) /\ write' = Written(t, k) /\ Turn(t)
    BY <1>7, KeyIsOwn DEF Upsert, UpsertByESPN, Turn
  <2> HIDE DEF k
  <2>2. /\ pc' = pc /\ call' = call /\ count' = count
        /\ pc[t] = "rows" /\ Runs(t)' = Runs(t)
    BY <2>1 DEF Turn, dbVars, Runs
  <2>3. /\ \A j \in Rows : j # k => Written(t, k)[t][j] = write[t][j]
        /\ Written(t, k)[t][k] = IF Sees(t, k) /\ write[t][k] # "insert"
                                 THEN "update" ELSE "insert"
    BY <2>1, WrittenType
  <2>4. write'[t][k] = "insert" => count[k] = 0
    <3>1. count[k] \in Nat
      BY <2>1
    <3>2. write[t][k] = "insert" => count[k] = 0
      BY <2>1, <2>2 DEF Writes
    <3>3. QED
      BY <2>1, <2>3, <3>1, <3>2 DEF Sees
  <2>5. \A i \in DOMAIN todo'[t] : todo'[t][i] \in Entries(call[t])
    BY <2>1, TurnType
  <2>6. \A j \in Rows : j # k => write'[t][j] = write[t][j]
    BY <2>1, <2>3
  <2>7. QED
    BY <2>1, <2>2, <2>4, <2>5, <2>6 DEF Writes
<1>9. QED
  BY <1>1, <1>2, <1>3, <1>4, <1>5, <1>6, <1>7 DEF Move, LockStep, Proceed

(* No two calls insert a row that is not there and get to commit it: the row of
   the sport, or the row itself, keeps one of them out. *)
LEMMA InsertsApart ==
  ASSUME TypeOK, TxInv, LocksHeld, WritesAreNew,
         NEW t \in Tasks, pc[t] = "commit",
         NEW u \in Tasks \ {t}, pc[u] \in {"rows", "commit"},
         NEW k \in Rows, write[u][k] = "insert"
  PROVE  write[t][k] # "insert"
<1> SUFFICES ASSUME write[t][k] = "insert" PROVE FALSE
  OBVIOUS
<1> USE SyncAssumption
<1>1. call[t] \in Calls /\ call[u] \in Calls
  BY DEF TypeOK
<1>2. k \in RowsOf(call[t]) \cap RowsOf(call[u])
  BY DEF WritesAreNew, Writes
<1>3. /\ Runs(t) = Runs(u)
      /\ Runs(t).write.perLeague => LeagueOf[call[t]] = LeagueOf[call[u]]
  BY <1>1, <1>2, SharedRow DEF Runs
<1>4. Regular(Runs(t))
  BY <1>1, ServiceFacts DEF Runs
<1>5. conn[t] # NoConn /\ conn[t] # conn[u]
  BY DEF LocksHeld, TxInv, InTx
<1>6. CASE Runs(t).write.constrained
  <2>1. Runs(u).write.constrained
    BY <1>3, <1>6
  <2>2. lock[k] = conn[t] /\ lock[k] = conn[u]
    BY <1>6, <2>1 DEF LocksHeld
  <2>3. QED
    BY <1>5, <2>2
<1>7. CASE ~Runs(t).write.constrained
  <2>1. Runs(t).resolves /\ LeagueOf[call[t]] = LeagueOf[call[u]]
    BY <1>3, <1>4, <1>7 DEF Regular
  <2>2. /\ lock[SportOf[LeagueOf[call[t]]]] = conn[t]
        /\ lock[SportOf[LeagueOf[call[u]]]] = conn[u]
    BY <1>3, <2>1 DEF LocksHeld, Locked
  <2>3. QED
    BY <1>5, <2>1, <2>2
<1>8. QED
  BY <1>6, <1>7

(* Every step keeps what tasks hold and write, and adds no row a second time. *)
LEMMA UpsertStep ==
  ASSUME TypeOK, TypeOK', TxInv, LocksHeld, WritesAreNew, OneRowPerKey, [Next]_vars
  PROVE  LocksHeld' /\ WritesAreNew' /\ OneRowPerKey'
<1> DEFINE Goal == (\A u \in Tasks : Held(u)' /\ Writes(u)') /\ OneRowPerKey'
<1>h. \A u \in Tasks : Held(u) /\ Writes(u)
  BY DEF LocksHeld, Held, WritesAreNew
<1>s. SUFFICES Goal
  BY DEF LocksHeld, Held, WritesAreNew
<1>1. ASSUME NEW t \in Tasks, Move(t) PROVE Goal
  <2>1. CASE ~Commit(t)
    <3>1. count' = count
      BY <1>1, <2>1, OnlyCommitCounts
    <3>2. Held(t)' /\ Writes(t)'
      BY <1>h, <1>1, MoveHeld, MoveWrites
    <3>3. ASSUME NEW u \in Tasks \ {t} PROVE Held(u)' /\ Writes(u)'
      <4>1. Same(u) /\ Keeps(u)
        BY <1>1, MoveIsLocal, OthersKeep
      <4>2. \A k \in Rows : write[u][k] = "insert" /\ pc[u] \in {"rows", "commit"} =>
              count'[k] = 0
        BY <1>h, <3>1 DEF Writes
      <4>3. QED
        BY <1>h, <4>1, <4>2, SameHeld, SameWrites
    <3>4. OneRowPerKey'
      BY <3>1 DEF OneRowPerKey
    <3>5. QED
      BY <3>2, <3>3, <3>4
  <2>2. CASE Commit(t)
    <3>1. pc[t] = "commit" /\ count' = Inserted(t)
      BY <2>2 DEF Commit
    <3>2. Held(t)' /\ Writes(t)'
      BY <1>h, <1>1, MoveHeld, MoveWrites
    <3>3. ASSUME NEW u \in Tasks \ {t} PROVE Held(u)' /\ Writes(u)'
      <4>1. Same(u) /\ Keeps(u)
        BY <1>1, MoveIsLocal, OthersKeep
      <4>2. ASSUME NEW k \in Rows, write[u][k] = "insert", pc[u] \in {"rows", "commit"}
            PROVE  count'[k] = 0
        <5>1. write[t][k] # "insert"
          BY <3>1, <4>2, InsertsApart
        <5>2. count[k] = 0
          BY <1>h, <4>2 DEF Writes
        <5>3. QED
          BY <3>1, <5>1, <5>2 DEF Inserted
      <4>3. QED
        BY <1>h, <4>1, <4>2, SameHeld, SameWrites
    <3>4. ASSUME NEW k \in Rows PROVE count'[k] <= 1
      <4>1. count'[k] = IF write[t][k] = "insert" THEN count[k] + 1 ELSE count[k]
        BY <3>1 DEF Inserted
      <4>2. write[t][k] = "insert" => count[k] = 0
        BY <1>h, <3>1 DEF Writes
      <4>3. count[k] <= 1
        BY DEF OneRowPerKey
      <4>4. QED
        BY <4>1, <4>2, <4>3
    <3>5. QED
      BY <3>2, <3>3, <3>4 DEF OneRowPerKey
  <2>3. QED
    BY <2>1, <2>2
<1>2. ASSUME NEW p \in Procs, Crash(p) PROVE Goal
  <2>1. count' = count
    BY <1>2 DEF Crash, dbVars
  <2>2. ASSUME NEW u \in Tasks, TaskProc[u] = p PROVE Held(u)' /\ Writes(u)'
    <3>1. pc'[u] = "idle" /\ todo'[u] = <<>> /\ write'[u] = Untouched /\ conn'[u] = NoConn
      BY <1>2, <2>2 DEF Crash, TxCrash
    <3>2. QED
      BY <3>1, IdleHeld, EmptyWrites DEF InTx
  <2>3. ASSUME NEW u \in Tasks, TaskProc[u] # p PROVE Held(u)' /\ Writes(u)'
    <3>1. Same(u)
      BY <1>2, <2>3 DEF Crash, Same
    <3>2. conn'[u] = conn[u]
      BY <1>2, <2>3 DEF Crash, TxCrash
    <3>3. conn[u] # NoConn => conn[u] \in Conns /\ ConnProc[conn[u]] # p
      BY <2>3 DEF TypeOK, TxTypeOK, TxInv
    <3>4. Keeps(u)
      BY <1>2, <3>2, <3>3 DEF Crash, TxCrash, Released, Keeps
    <3>5. \A k \in Rows : write[u][k] = "insert" /\ pc[u] \in {"rows", "commit"} =>
            count'[k] = 0
      BY <1>h, <2>1 DEF Writes
    <3>6. QED
      BY <1>h, <3>1, <3>4, <3>5, SameHeld, SameWrites
  <2>4. QED
    BY <2>1, <2>2, <2>3 DEF OneRowPerKey
<1>3. CASE Publish \/ UNCHANGED vars \/ \E p \in Procs : ListActive(p) \/ Wait(p)
  <2>1. count' = count /\ UNCHANGED <<txVars, pc, call, todo, write>>
    BY <1>3 DEF Publish, vars, ListActive, Wait, callVars, dbVars, txVars
  <2>2. \A u \in Tasks : Same(u) /\ Keeps(u)
    BY <2>1 DEF Same, Keeps, txVars
  <2>3. \A u \in Tasks, k \in Rows :
          write[u][k] = "insert" /\ pc[u] \in {"rows", "commit"} => count'[k] = 0
    BY <1>h, <2>1 DEF Writes
  <2>4. QED
    BY <1>h, <2>1, <2>2, <2>3, SameHeld, SameWrites DEF OneRowPerKey
<1>4. QED
  BY <1>1, <1>2, <1>3 DEF Next, Move

-----------------------------------------------------------------------------
(* Rows are never taken away, nor are published answers. *)
LEMMA Grows ==
  ASSUME TypeOK, TypeOK', [Next]_vars
  PROVE  /\ \A k \in Rows : count[k] > 0 => count'[k] > 0
         /\ 0..published \subseteq 0..published'
<1> USE DEF TypeOK
<1>1. CASE count' = count /\ published' = published
  BY <1>1
<1>2. ASSUME NEW t \in Tasks, Move(t), ~Commit(t) PROVE count' = count /\ published' = published
  <2>1. published' = published
    BY <1>2 DEF Move, LockStep, Proceed, StartCall, GoTeam, Begin, ResolveSport,
       ResolveLeague, DeactivateRow, Upsert, UpsertByESPN, Turn, Fetch, Deactivate,
       DeactivateEnds, SkipEntry, LoopEnds, Rollback, FetchRoster, RosterFails,
       DeadlockAbort, BeginFails, Fail, Panic, dbVars
  <2>2. QED
    BY <1>2, <2>1, OnlyCommitCounts
<1>3. ASSUME NEW t \in Tasks, Commit(t)
      PROVE  (\A k \in Rows : count[k] > 0 => count'[k] > 0) /\ published' = published
  <2>1. \A k \in Rows :
          count'[k] = IF write[t][k] = "insert" THEN count[k] + 1 ELSE count[k]
    BY <1>3 DEF Commit, Inserted
  <2>2. \A k \in Rows : count[k] \in Nat
    OBVIOUS
  <2>3. ASSUME NEW k \in Rows, count[k] > 0 PROVE count'[k] > 0
    <3>1. count[k] \in Nat /\ (count'[k] = count[k] \/ count'[k] = count[k] + 1)
      BY <2>1, <2>2
    <3>2. QED
      BY <2>3, <3>1
  <2>4. QED
    BY <1>3, <2>3 DEF Commit
<1>4. CASE Publish
  <2>1. published \in Nat /\ published' = published + 1 /\ count' = count
    BY <1>4, SyncAssumption DEF Publish
  <2>2. QED
    BY <2>1
<1>5. ASSUME NEW p \in Procs, ListActive(p) \/ Wait(p) \/ Crash(p)
      PROVE  count' = count /\ published' = published
  BY <1>5 DEF ListActive, Wait, Crash, dbVars
<1>6. CASE UNCHANGED vars
  BY <1>1, <1>6 DEF vars
<1>7. QED
  BY <1>1, <1>2, <1>3, <1>4, <1>5, <1>6 DEF Next, Move

(* Only the commit of a SyncTeams call changes which teams are active. *)
LEMMA ActiveChanges ==
  ASSUME TypeOK, NEW t \in Tasks, Stable(t), Move(t), active' # active
  PROVE  Commit(t) /\ Syncing(t)
<1>1. Commit(t)
  BY DEF Move, LockStep, Proceed, StartCall, GoTeam, Begin, ResolveSport, ResolveLeague,
     DeactivateRow, Upsert, UpsertByESPN, Turn, Fetch, Deactivate, DeactivateEnds,
     SkipEntry, LoopEnds, Rollback, FetchRoster, RosterFails, DeadlockAbort, BeginFails,
     Fail, Panic, dbVars
<1>2. Regular(Runs(t))
  BY ServiceFacts DEF Runs, TypeOK
<1>3. CASE ~Runs(t).deactivates
  <2>1. \A k \in NhlTeams : write[t][k] # "off"
    BY <1>3, SyncAssumption DEF Stable
  <2>2. Activated(t) = active
    BY <1>3, <2>1 DEF Activated
  <2>3. QED
    BY <1>1, <2>2 DEF Commit
<1>4. QED
  BY <1>1, <1>2, <1>3 DEF Commit, Syncing, Regular

(* A move of t leaves other tasks' scans alone; their calls were alone before if
   they are after it, and t has not become another SyncTeams beside them. *)
LEMMA OthersAlone ==
  ASSUME TypeOK, NEW t \in Tasks, Move(t), NEW u \in Tasks \ {t}
  PROVE  /\ scan'[u] = scan[u]
         /\ alone'[u] => alone[u] /\ (Syncing(t)' => Syncing(t))
<1> USE DEF TypeOK, Goto, Return, callVars
<1>1. ASSUME NEW c \in Calls, StartCall(t, c)
      PROVE  /\ scan'[u] = scan[u]
             /\ alone'[u] => alone[u] /\ ~Syncing(t)'
  <2>1. Regular(Service[Kind[c]])
    BY ServiceFacts
  <2>2. call'[t] = c /\ scan' = scan
    BY <1>1 DEF StartCall
  <2>3. CASE Service[Kind[c]].deactivates
    BY <1>1, <2>2, <2>3 DEF StartCall
  <2>4. CASE ~Service[Kind[c]].deactivates
    BY <1>1, <2>2, <2>4 DEF StartCall, Syncing, Runs
  <2>5. QED
    BY <2>1, <2>3, <2>4 DEF Regular
<1>2. ASSUME NEW k \in NhlTeams, GoTeam(t, k)
      PROVE  scan' = scan /\ alone' = alone /\ ~Syncing(t)'
  <2>1. call'[t] = Roster[k] /\ Kind[Roster[k]] = "nhl_roster"
    BY <1>2, SyncAssumption DEF GoTeam
  <2>2. ~Service["nhl_roster"].deactivates
    BY DEF Service, SyncTeamRoster
  <2>3. QED
    BY <1>2, <2>1, <2>2 DEF GoTeam, Syncing, Runs
<1>3. CASE \/ Begin(t) \/ ResolveSport(t) \/ ResolveLeague(t) \/ Fetch(t) \/ Deactivate(t)
           \/ DeactivateEnds(t) \/ LoopEnds(t) \/ FetchRoster(t) \/ DeadlockAbort(t) \/ Fail(t)
  <2>1. scan'[u] = scan[u] /\ alone' = alone /\ call' = call
    BY <1>3 DEF Begin, ResolveSport, ResolveLeague, Fetch, Deactivate, DeactivateEnds,
         LoopEnds, FetchRoster, DeadlockAbort, Fail
  <2>2. pc[t] # "idle"
    <3>1. CASE ~DeadlockAbort(t)
      BY <1>3, <3>1 DEF Begin, ResolveSport, ResolveLeague, Fetch, Deactivate,
           DeactivateEnds, LoopEnds, FetchRoster, Fail, Cancellable, InTx
    <3>2. CASE DeadlockAbort(t)
      BY <3>2 DEF DeadlockAbort, Deadlocked, WaitsFor, Wants
    <3>3. QED
      BY <3>1, <3>2
  <2>3. QED
    BY <2>1, <2>2 DEF Syncing, Runs
<1>4. CASE SkipEntry(t) \/ Upsert(t) \/ UpsertByESPN(t) \/ DeactivateRow(t)
  BY <1>4 DEF SkipEntry, Upsert, UpsertByESPN, Turn, DeactivateRow, Syncing, Runs
<1>5. CASE Commit(t) \/ Rollback(t) \/ Panic(t) \/ RosterFails(t) \/ BeginFails(t)
  <2>1. Return(t)
    BY <1>5 DEF Commit, Rollback, Panic, RosterFails, BeginFails
  <2>2. QED
    BY <2>1 DEF Syncing
<1>6. QED
  BY <1>1, <1>2, <1>3, <1>4, <1>5 DEF Move, LockStep, Proceed

-----------------------------------------------------------------------------
(* What t's transaction wrote before keeps being so while others move on. *)
LEMMA SameStable ==
  ASSUME NEW u \in Tasks, Stable(u), Same(u), scan'[u] = scan[u],
         \A k \in Rows : count[k] > 0 => count'[k] > 0
  PROVE  Stable(u)'
<1>1. Runs(u)' = Runs(u)
  BY DEF Same, Runs
<1>2. QED
  BY <1>1 DEF Same, Stable

(* Nor do the teams it has put and those it has yet to put. *)
LEMMA SamePut ==
  ASSUME NEW u \in Tasks, Same(u)
  PROVE  /\ Put(u)' = Put(u) /\ ToPut(u)' = ToPut(u)
         /\ Syncing(u)' = Syncing(u) /\ Writing(u)' = Writing(u)
         /\ \A v \in 0..MaxVersion : Listed(call'[u], v) = Listed(call[u], v)
  BY DEF Same, Put, ToPut, Syncing, Runs, Writing

(* So it mirrors its feed as before, unless another SyncTeams has started or
   has changed the active teams. *)
LEMMA SameMirrors ==
  ASSUME TypeOK, NEW u \in Tasks, Mirrors(u), Same(u), scan'[u] = scan[u],
         0..published \subseteq 0..published',
         alone'[u] => alone[u],
         Syncing(u) /\ alone'[u] =>
           active' = active /\ \A w \in Tasks \ {u} : Syncing(w)' => Syncing(w)
  PROVE  Mirrors(u)'
<1>1. SUFFICES ASSUME Syncing(u)' PROVE
        /\ pc'[u] = "deactivate" \/ Writing(u)' =>
             \E v \in 0..published' : (Put(u) \cup ToPut(u))' = Listed(call'[u], v)
        /\ alone'[u] =>
             /\ \A w \in Tasks \ {u} : ~Syncing(w)'
             /\ Writing(u)' => \A k \in active' : k \in scan'[u] \/ write'[u][k] # "none"
  BY DEF Mirrors
<1>2. /\ Syncing(u) /\ call'[u] = call[u] /\ pc'[u] = pc[u] /\ Writing(u)' = Writing(u)
      /\ (Put(u) \cup ToPut(u))' = Put(u) \cup ToPut(u)
  BY <1>1, SamePut DEF Same
<1>3. ASSUME pc'[u] = "deactivate" \/ Writing(u)'
      PROVE  \E v \in 0..published' : (Put(u) \cup ToPut(u))' = Listed(call'[u], v)
  <2>1. PICK v \in 0..published : Put(u) \cup ToPut(u) = Listed(call[u], v)
    BY <1>2, <1>3 DEF Mirrors
  <2>2. v \in 0..published' /\ (Put(u) \cup ToPut(u))' = Listed(call'[u], v)
    BY <1>2, <2>1
  <2>3. QED
    BY <2>2
<1>4. ASSUME alone'[u]
      PROVE  /\ \A w \in Tasks \ {u} : ~Syncing(w)'
             /\ Writing(u)' => \A k \in active' : k \in scan'[u] \/ write'[u][k] # "none"
  BY <1>2, <1>4 DEF Mirrors, Same
<1>5. QED
  BY <1>3, <1>4

(* A turn of the loop takes the entry at hand from those that are left. *)
LEMMA TurnPuts ==
  ASSUME TypeOK, NEW t \in Tasks, Turn(t)
  PROVE  ToPut(t) = ToPut(t)' \cup ({Head(todo[t])} \cap NhlTeams)
<1>1. todo[t] \in Seq(Rows \cup {Rejected, Loose}) /\ todo[t] # <<>>
  BY DEF TypeOK, Turn
<1> DEFINE s == todo[t]
<1>2. /\ Tail(s) \in Seq(Rows \cup {Rejected, Loose})
      /\ Len(Tail(s)) = Len(s) - 1
      /\ \A i \in 1..Len(Tail(s)) : Tail(s)[i] = s[i + 1]
  BY <1>1, HeadTailProperties
<1>3. /\ Len(s) \in Nat \ {0} /\ DOMAIN s = 1..Len(s)
      /\ DOMAIN Tail(s) = 1..Len(Tail(s))
  BY <1>1, <1>2, LenProperties, EmptySeq
<1>4. todo'[t] = Tail(s) /\ Head(s) = s[1]
  BY <1>1 DEF Turn, TypeOK
<1>5. \A i \in DOMAIN s : i = 1 \/ (i - 1 \in DOMAIN Tail(s) /\ Tail(s)[i - 1] = s[i])
  <2> SUFFICES ASSUME NEW i \in DOMAIN s, i # 1
               PROVE  i - 1 \in DOMAIN Tail(s) /\ Tail(s)[i - 1] = s[i]
    OBVIOUS
  <2>1. i \in 1..Len(s) /\ i - 1 \in 1..Len(Tail(s)) /\ (i - 1) + 1 = i
    BY <1>2, <1>3
  <2>2. Tail(s)[i - 1] = s[(i - 1) + 1]
    BY <1>2, <2>1
  <2>3. QED
    BY <1>3, <2>1, <2>2
<1>6. \A i \in DOMAIN Tail(s) : i + 1 \in DOMAIN s /\ Tail(s)[i] = s[i + 1]
  BY <1>2, <1>3
<1>7. 1 \in DOMAIN s
  BY <1>3
<1> HIDE DEF s
<1>8. {s[i] : i \in DOMAIN s} = {Tail(s)[i] : i \in DOMAIN Tail(s)} \cup {Head(s)}
  <2>1. ASSUME NEW i \in DOMAIN s
        PROVE  s[i] \in {Tail(s)[j] : j \in DOMAIN Tail(s)} \cup {Head(s)}
    <3>1. CASE i = 1
      BY <1>4, <3>1
    <3>2. CASE i # 1
      <4>1. i - 1 \in DOMAIN Tail(s) /\ Tail(s)[i - 1] = s[i]
        BY <1>5, <3>2
      <4>2. QED
        BY <4>1
    <3>3. QED
      BY <3>1, <3>2
  <2>2. ASSUME NEW j \in DOMAIN Tail(s) PROVE Tail(s)[j] \in {s[i] : i \in DOMAIN s}
    <3>1. j + 1 \in DOMAIN s /\ Tail(s)[j] = s[j + 1]
      BY <1>6
    <3>2. QED
      BY <3>1
  <2>3. Head(s) \in {s[i] : i \in DOMAIN s}
    BY <1>4, <1>7
  <2>4. QED
    BY <2>1, <2>2, <2>3
<1>9. ToPut(t) = {s[i] : i \in DOMAIN s} \cap NhlTeams
  BY DEF s, ToPut
<1>10. ToPut(t)' = {Tail(s)[i] : i \in DOMAIN Tail(s)} \cap NhlTeams
  BY <1>4 DEF ToPut
<1>11. QED
  BY <1>8, <1>9, <1>10 DEF s

(* A move of t keeps scans and entries where they belong. *)
LEMMA MoveStable ==
  ASSUME TypeOK, NEW t \in Tasks, Writes(t), Stable(t), Move(t)
  PROVE  Stable(t)'
<1> USE DEF TypeOK, Goto, Return, callVars
<1>1. CASE \/ \E c \in Calls : StartCall(t, c)
           \/ \E k \in NhlTeams : GoTeam(t, k)
  <2>1. /\ pc[t] = "idle" /\ pc'[t] \in {"begin", "roster"}
        /\ scan' = scan /\ write' = write
    BY <1>1 DEF StartCall, GoTeam
  <2>2. \A k \in Rows : write'[t][k] = "none"
    BY <2>1 DEF Writes, Untouched
  <2>3. QED
    BY <2>1, <2>2 DEF Stable
<1>2. CASE RosterFails(t) \/ BeginFails(t) \/ Commit(t) \/ Rollback(t) \/ Panic(t)
  <2>1. Return(t)
    BY <1>2 DEF RosterFails, BeginFails, Commit, Rollback, Panic
  <2>2. /\ pc'[t] = "idle" /\ scan'[t] = {}
        /\ \A k \in Rows : write'[t][k] = "none"
    BY <2>1 DEF Untouched
  <2>3. QED
    BY <2>2 DEF Stable
<1>3. CASE \/ Begin(t) \/ ResolveSport(t) \/ ResolveLeague(t) \/ Fetch(t) \/ Deactivate(t)
           \/ DeactivateEnds(t) \/ LoopEnds(t) \/ FetchRoster(t) \/ SkipEntry(t)
           \/ DeadlockAbort(t) \/ Fail(t)
  <2>1. call' = call /\ write' = write /\ count' = count /\ Runs(t)' = Runs(t)
    BY <1>3 DEF Begin, ResolveSport, ResolveLeague, Fetch, Deactivate, DeactivateEnds,
         LoopEnds, FetchRoster, SkipEntry, Turn, DeadlockAbort, Fail, dbVars, Runs
  <2>2. /\ pc'[t] \notin {"scan", "rollback"} => scan'[t] = {}
        /\ pc'[t] = "commit" => todo'[t] = <<>>
    BY <1>3 DEF Begin, ResolveSport, ResolveLeague, Fetch, Deactivate, DeactivateEnds,
         LoopEnds, FetchRoster, SkipEntry, Turn, DeadlockAbort, Fail, Stable, Cancellable
  <2>3. QED
    BY <2>1, <2>2 DEF Stable
<1>4. CASE DeactivateRow(t)
  <2>1. PICK k \in NhlTeams :
          \A j \in Rows : write'[t][j] = IF j = k THEN "off" ELSE write[t][j]
    BY <1>4, OffType
  <2>2. /\ pc[t] = "scan" /\ pc' = pc /\ count' = count /\ Runs(t)' = Runs(t)
        /\ Runs(t).deactivates
    BY <1>4 DEF DeactivateRow, dbVars, Runs, Writes
  <2>3. \A j \in Rows : write'[t][j] = IF j = k THEN "off" ELSE write[t][j]
    BY <2>1
  <2>4. QED
    BY <2>2, <2>3 DEF Stable
<1>5. CASE Upsert(t) \/ UpsertByESPN(t)
  <2> DEFINE k == Key(t)
  <2>1. k \in Rows /\ write' = Written(t, k) /\ Turn(t)
    BY <1>5, KeyIsOwn DEF Upsert, UpsertByESPN, Turn
  <2> HIDE DEF k
  <2>2. /\ pc[t] = "rows" /\ pc' = pc /\ count' = count /\ scan' = scan
        /\ Runs(t)' = Runs(t)
    BY <2>1 DEF Turn, dbVars, Runs
  <2>3. \A j \in Rows : j # k => write'[t][j] = write[t][j]
    BY <2>1, WrittenType
  <2>4. write'[t][k] = IF Sees(t, k) /\ write[t][k] # "insert" THEN "update" ELSE "insert"
    BY <2>1, WrittenType
  <2>5. QED
    BY <2>1, <2>2, <2>3, <2>4 DEF Stable, Sees
<1>6. QED
  BY <1>1, <1>2, <1>3, <1>4, <1>5 DEF Move, LockStep, Proceed

(* A move of a SyncTeams call keeps it at one version of its feed: what it has
   put and has yet to put are the teams listed there, and while it is alone the
   active teams are those it has met or has yet to meet. *)
LEMMA MoveMirrors ==
  ASSUME TypeOK, TypeOK', NEW t \in Tasks, Writes(t), Stable(t), Mirrors(t), Move(t),
         \A u \in Tasks \ {t} : Same(u),
         \A k \in active : count[k] > 0
  PROVE  Mirrors(t)'
<1> USE SyncAssumption DEF TypeOK, Goto, Return, callVars
<1>c. Regular(Runs(t))
  BY ServiceFacts DEF Runs
<1>o. \A u \in Tasks \ {t} : Syncing(u)' = Syncing(u)
  BY SamePut
<1>1. CASE \E c \in Calls : StartCall(t, c)
  <2>1. PICK c \in Calls : StartCall(t, c)
    BY <1>1
  <2>2. pc'[t] = "begin" /\ call'[t] = c
    BY <2>1 DEF StartCall
  <2>3. Service[Kind[c]].deactivates \in BOOLEAN
    BY ServiceFacts DEF Regular
  <2>4. Syncing(t)' => Service[Kind[c]].deactivates
    BY <2>2 DEF Syncing, Runs
  <2>5. Service[Kind[c]].deactivates /\ alone'[t] => \A u \in Tasks : ~Syncing(u)
    BY <2>1 DEF StartCall
  <2>6. ~Writing(t)'
    BY <2>2 DEF Writing
  <2>7. QED
    BY <1>o, <2>2, <2>4, <2>5, <2>6 DEF Mirrors
<1>2. CASE \E k \in NhlTeams : GoTeam(t, k)
  <2>1. PICK k \in NhlTeams : call'[t] = Roster[k] /\ Kind[Roster[k]] = "nhl_roster"
    BY <1>2 DEF GoTeam
  <2>2. ~Service["nhl_roster"].deactivates
    BY DEF Service, SyncTeamRoster
  <2>3. QED
    BY <2>1, <2>2 DEF Mirrors, Syncing, Runs
<1>3. CASE RosterFails(t) \/ BeginFails(t) \/ Commit(t) \/ Rollback(t) \/ Panic(t)
  <2>1. Return(t)
    BY <1>3 DEF RosterFails, BeginFails, Commit, Rollback, Panic
  <2>2. QED
    BY <2>1 DEF Mirrors, Syncing
<1> DEFINE Fed == \E v \in 0..published : Put(t) \cup ToPut(t) = Listed(call[t], v)
           Met == \A k \in active : k \in scan[t] \/ write[t][k] # "none"
<1>4. ASSUME ~Commit(t), call' = call, alone' = alone, published' = published,
             active' = active, pc[t] # "idle",
             Syncing(t) => (pc'[t] = "deactivate" \/ Writing(t)' => Fed'),
             Syncing(t) /\ alone[t] => (Writing(t)' => Met')
      PROVE  Mirrors(t)'
  <2>1. Syncing(t)' => Syncing(t)
    BY <1>4 DEF Syncing, Runs
  <2>2. Syncing(t) /\ alone[t] => \A u \in Tasks \ {t} : ~Syncing(u)
    BY DEF Mirrors
  <2>3. QED
    BY <1>o, <1>4, <2>1, <2>2 DEF Mirrors
<1>5. CASE \/ Begin(t) \/ ResolveSport(t) \/ ResolveLeague(t) \/ FetchRoster(t)
           \/ DeadlockAbort(t) \/ Fail(t)
  <2>1. call' = call /\ alone' = alone /\ published' = published /\ active' = active
    BY <1>5 DEF Begin, ResolveSport, ResolveLeague, FetchRoster, DeadlockAbort, Fail, dbVars
  <2>2. pc[t] # "idle"
    <3>1. CASE ~DeadlockAbort(t)
      BY <1>5, <3>1 DEF Begin, ResolveSport, ResolveLeague, FetchRoster, Fail,
           Cancellable, InTx
    <3>2. CASE DeadlockAbort(t)
      BY <3>2 DEF DeadlockAbort, Deadlocked, WaitsFor, Wants
    <3>3. QED
      BY <3>1, <3>2
  <2>3. pc'[t] \in {"sport", "fetch", "rows", "league", "begin", "rollback"}
    BY <1>5 DEF Begin, ResolveSport, ResolveLeague, FetchRoster, DeadlockAbort, Fail
  <2>4. Syncing(t) => pc'[t] # "rows"
    BY <1>5, <1>c DEF Begin, ResolveSport, ResolveLeague, FetchRoster, DeadlockAbort,
         Fail, Regular, Syncing
  <2>5. Syncing(t) => pc'[t] # "deactivate" /\ ~Writing(t)'
    BY <2>3, <2>4 DEF Writing
  <2>6. ~Commit(t)
    <3>1. Commit(t) => pc'[t] = "idle"
      BY DEF Commit
    <3>2. QED
      BY <2>3, <3>1
  <2>7. QED
    BY <1>4, <2>1, <2>2, <2>5, <2>6
<1>6. CASE Fetch(t)
  <2>1. /\ call' = call /\ alone' = alone /\ published' = published /\ active' = active
        /\ pc[t] = "fetch" /\ write' = write
        /\ todo'[t] = Feed[call[t]][published]
    BY <1>6 DEF Fetch, dbVars
  <2>2. write[t] = Untouched /\ \A k \in NhlTeams : write'[t][k] = "none"
    BY <2>1 DEF Writes, Untouched
  <2>3. Put(t)' = {} /\ ToPut(t)' = Listed(call[t], published)
    <3>1. Put(t)' = {}
      BY <2>2 DEF Put
    <3> HIDE DEF TypeOK, Goto, Return, callVars
    <3>2. ToPut(t)' = Listed(call[t], published)
      BY <2>1 DEF ToPut, Listed
    <3>3. QED
      BY <3>1, <3>2
  <2>4. published \in 0..published
    OBVIOUS
  <2>5. Fed'
    BY <2>1, <2>3, <2>4
  <2>6. Syncing(t) => pc'[t] \in {"commit", "deactivate"}
    BY <1>6, <1>c DEF Fetch, Regular, Syncing
  <2>7. Syncing(t) => ~Writing(t)'
    BY <2>1, <2>2, <2>6 DEF Writing
  <2>8. QED
    BY <1>4, <2>1, <2>5, <2>7 DEF Commit
<1>7. CASE Deactivate(t)
  <2>1. /\ call' = call /\ alone' = alone /\ published' = published /\ active' = active
        /\ pc[t] = "deactivate" /\ write' = write /\ todo' = todo
        /\ scan'[t] = {k \in NhlTeams : count[k] > 0}
    BY <1>7 DEF Deactivate, dbVars
  <2>2. Syncing(t) => Fed
    BY <2>1 DEF Mirrors
  <2>3. Put(t)' = Put(t) /\ ToPut(t)' = ToPut(t)
    BY <2>1 DEF Put, ToPut
  <2>4. Fed => Fed'
    BY <2>1, <2>3
  <2>5. Met'
    BY <2>1
  <2>6. QED
    BY <1>4, <2>1, <2>2, <2>4, <2>5 DEF Commit
<1>8. CASE DeactivateRow(t)
  <2>1. PICK k \in NhlTeams :
          /\ \A j \in Rows : write'[t][j] = IF j = k THEN "off" ELSE write[t][j]
          /\ scan' = [scan EXCEPT ![t] = scan[t] \ {k}]
    BY <1>8, OffType
  <2>2. /\ call' = call /\ alone' = alone /\ published' = published /\ active' = active
        /\ pc[t] = "scan" /\ todo' = todo
    BY <1>8 DEF DeactivateRow, dbVars
  <2>3. \A j \in NhlTeams : write'[t][j] = IF j = k THEN "off" ELSE write[t][j]
    BY <2>1
  <2>4. \A j \in NhlTeams : write[t][j] \in {"none", "off"}
    BY <2>2 DEF Writes
  <2>5. Put(t)' = Put(t) /\ ToPut(t)' = ToPut(t)
    <3>1. Put(t) = {}
      BY <2>4 DEF Put
    <3>2. Put(t)' = {}
      BY <2>3, <2>4 DEF Put
    <3>3. ToPut(t)' = ToPut(t)
      BY <2>2 DEF ToPut
    <3>4. QED
      BY <3>1, <3>2, <3>3
  <2>6. Syncing(t) => Fed
    BY <2>2 DEF Mirrors, Writing
  <2>7. Fed => Fed'
    BY <2>2, <2>5
  <2>8. Syncing(t) /\ alone[t] => Met
    BY <2>2 DEF Mirrors, Writing
  <2>9. Met => Met'
    BY <2>1, <2>2, <2>3
  <2>10. QED
    BY <1>4, <2>2, <2>6, <2>7, <2>8, <2>9 DEF Commit
<1>9. CASE DeactivateEnds(t) \/ LoopEnds(t) \/ SkipEntry(t)
  <2>1. /\ call' = call /\ alone' = alone /\ published' = published /\ active' = active
        /\ pc[t] \in {"scan", "rows"} /\ write' = write /\ scan' = scan
    BY <1>9 DEF DeactivateEnds, LoopEnds, SkipEntry, Turn, dbVars
  <2>2. Syncing(t) => ToPut(t)' = ToPut(t)
    <3>1. CASE DeactivateEnds(t) \/ LoopEnds(t)
      <4>1. todo' = todo
        BY <3>1 DEF DeactivateEnds, LoopEnds
      <4>2. QED
        BY <4>1 DEF ToPut
    <3>2. CASE SkipEntry(t)
      <4>1. Syncing(t) => Head(todo[t]) \notin NhlTeams
        BY <3>2, <1>c DEF SkipEntry, Regular, Syncing
      <4>2. ToPut(t) = ToPut(t)' \cup ({Head(todo[t])} \cap NhlTeams)
        BY <3>2, TurnPuts DEF SkipEntry
      <4> HIDE DEF TypeOK, Goto, Return, callVars
      <4>3. ASSUME NEW x, x \notin NhlTeams PROVE {x} \cap NhlTeams = {}
        BY <4>3
      <4>4. QED
        BY <4>1, <4>2, <4>3
    <3>3. QED
      BY <1>9, <3>1, <3>2
  <2>3. Put(t)' = Put(t)
    BY <2>1 DEF Put
  <2>4. Syncing(t) => Fed
    BY <2>1 DEF Mirrors, Writing
  <2>5. Syncing(t) /\ Fed => Fed'
    BY <2>1, <2>2, <2>3
  <2>6. Syncing(t) /\ alone[t] => Met
    BY <2>1 DEF Mirrors, Writing
  <2>7. Met => Met'
    BY <2>1
  <2>8. QED
    BY <1>4, <2>1, <2>4, <2>5, <2>6, <2>7 DEF Commit
<1>10. CASE Upsert(t) \/ UpsertByESPN(t)
  <2> DEFINE k == Key(t)
  <2>1. /\ k \in Rows /\ write' = Written(t, k) /\ Turn(t)
        /\ Runs(t).deactivates => k = Head(todo[t])
    BY <1>10, <1>c, KeyIsOwn DEF Upsert, UpsertByESPN, Turn, Key, Regular
  <2> HIDE DEF k
  <2>2. /\ call' = call /\ alone' = alone /\ published' = published /\ active' = active
        /\ pc[t] = "rows" /\ scan' = scan
    BY <2>1 DEF Turn, dbVars
  <2>3. \A j \in Rows : j # k => write'[t][j] = write[t][j]
    <3>1. \A j \in Rows : j # k => Written(t, k)[t][j] = write[t][j]
      BY <2>1, WrittenType
    <3>2. QED
      BY <2>1, <3>1
  <2>4. write'[t][k] \in {"update", "insert"}
    BY <2>1, WrittenType
  <2>5. Put(t)' = Put(t) \cup ({k} \cap NhlTeams)
    BY <2>3, <2>4 DEF Put
  <2>6. ToPut(t) = ToPut(t)' \cup ({Head(todo[t])} \cap NhlTeams)
    BY <2>1, TurnPuts
  <2>7. Syncing(t) => Put(t)' \cup ToPut(t)' = Put(t) \cup ToPut(t)
    BY <2>1, <2>5, <2>6 DEF Syncing
  <2>8. Syncing(t) => Fed
    BY <2>2 DEF Mirrors, Writing
  <2>9. Syncing(t) /\ Fed => Fed'
    BY <2>2, <2>7
  <2>10. Syncing(t) /\ alone[t] => Met
    BY <2>2 DEF Mirrors, Writing
  <2>11. Met => Met'
    BY <2>2, <2>3, <2>4
  <2>12. QED
    BY <1>4, <2>2, <2>8, <2>9, <2>10, <2>11 DEF Commit
<1>11. QED
  BY <1>1, <1>2, <1>3, <1>5, <1>6, <1>7, <1>8, <1>9, <1>10 DEF Move, LockStep, Proceed

(* Every step keeps the active teams as SyncTeams calls leave them. *)
LEMMA MirrorStep ==
  ASSUME TypeOK, TypeOK', WritesAreNew, ActiveMirrored, [Next]_vars
  PROVE  ActiveMirrored'
<1>h. \A u \in Tasks : Writes(u) /\ Mirrors(u) /\ Stable(u)
  BY DEF WritesAreNew, ActiveMirrored
<1>g. /\ \A k \in Rows : count[k] > 0 => count'[k] > 0
      /\ 0..published \subseteq 0..published'
  BY Grows
<1>n. active \subseteq NhlTeams /\ NhlTeams \subseteq Rows
  BY SyncAssumption DEF TypeOK
<1>1. ASSUME active' = active PROVE \A k \in active' : count'[k] > 0
  BY <1>1, <1>g, <1>n DEF ActiveMirrored
<1>2. ASSUME NEW t \in Tasks, Move(t) PROVE ActiveMirrored'
  <2>1. \A u \in Tasks \ {t} : Same(u)
    BY <1>2, MoveIsLocal
  <2>2. Mirrors(t)' /\ Stable(t)'
    BY <1>h, <1>2, <2>1, MoveMirrors, MoveStable DEF ActiveMirrored
  <2>3. ASSUME NEW u \in Tasks \ {t} PROVE Mirrors(u)' /\ Stable(u)'
    <3>1. /\ scan'[u] = scan[u]
          /\ alone'[u] => alone[u] /\ (Syncing(t)' => Syncing(t))
      BY <1>2, OthersAlone
    <3>2. ASSUME Syncing(u), alone'[u]
          PROVE  active' = active /\ \A w \in Tasks \ {u} : Syncing(w)' => Syncing(w)
      <4>1. ~Syncing(t)
        BY <1>h, <3>1, <3>2 DEF Mirrors
      <4>2. active' = active
        BY <1>h, <1>2, <4>1, ActiveChanges
      <4>3. \A w \in Tasks \ {t} : Syncing(w)' = Syncing(w)
        BY <2>1, SamePut
      <4>4. QED
        BY <3>1, <3>2, <4>2, <4>3
    <3>3. QED
      BY <1>h, <1>g, <2>1, <3>1, <3>2, SameMirrors, SameStable
  <2>4. \A k \in active' : count'[k] > 0
    <3>1. CASE Commit(t)
      <4>1. active' = Activated(t) /\ count' = Inserted(t)
        BY <3>1 DEF Commit
      <4>2. ASSUME NEW k \in NhlTeams, write[t][k] \in {"insert", "update"}
            PROVE  count'[k] > 0
        <5>1. CASE write[t][k] = "insert"
          <6>1. count'[k] = count[k] + 1 /\ count[k] \in Nat
            BY <1>n, <4>1, <5>1 DEF Inserted, TypeOK
          <6>2. QED
            BY <6>1
        <5>2. CASE write[t][k] = "update"
          BY <1>h, <1>g, <1>n, <5>2 DEF Stable
        <5>3. QED
          BY <4>2, <5>1, <5>2
      <4>3. \A k \in active : count'[k] > 0
        BY <1>g, <1>n DEF ActiveMirrored
      <4>4. QED
        BY <4>1, <4>2, <4>3 DEF Activated
    <3>2. CASE ~Commit(t)
      BY <1>h, <1>1, <1>2, <3>2, ActiveChanges
    <3>3. QED
      BY <3>1, <3>2
  <2>5. QED
    BY <2>2, <2>3, <2>4 DEF ActiveMirrored
<1>3. ASSUME NEW p \in Procs, Crash(p) PROVE ActiveMirrored'
  <2>1. active' = active
    BY <1>3 DEF Crash, dbVars
  <2>2. ASSUME NEW u \in Tasks, TaskProc[u] = p PROVE ~Syncing(u)' /\ Mirrors(u)' /\ Stable(u)'
    <3>1. pc'[u] = "idle" /\ scan'[u] = {} /\ write'[u] = Untouched
      BY <1>3, <2>2 DEF Crash
    <3>2. \A k \in Rows : write'[u][k] = "none"
      BY <3>1 DEF Untouched
    <3>3. QED
      BY <3>1, <3>2 DEF Mirrors, Stable, Syncing
  <2>3. \A u \in Tasks : TaskProc[u] # p =>
          Same(u) /\ scan'[u] = scan[u] /\ alone'[u] = alone[u]
    BY <1>3 DEF Crash, Same
  <2>4. \A u \in Tasks : Syncing(u)' => Syncing(u)
    BY <2>2, <2>3, SamePut
  <2>5. ASSUME NEW u \in Tasks, TaskProc[u] # p PROVE Mirrors(u)' /\ Stable(u)'
    BY <1>h, <1>g, <2>1, <2>3, <2>4, <2>5, SameMirrors, SameStable
  <2>6. QED
    BY <1>1, <2>1, <2>2, <2>5 DEF ActiveMirrored
<1>4. CASE Publish \/ UNCHANGED vars \/ \E p \in Procs : ListActive(p) \/ Wait(p)
  <2>1. active' = active /\ UNCHANGED <<pc, call, todo, scan, write, alone>>
    BY <1>4 DEF Publish, vars, ListActive, Wait, callVars, dbVars
  <2>2. \A u \in Tasks : Same(u) /\ scan'[u] = scan[u] /\ alone'[u] = alone[u]
    BY <2>1 DEF Same
  <2>3. \A u \in Tasks : Syncing(u)' = Syncing(u)
    BY <2>2, SamePut
  <2>4. \A u \in Tasks : Mirrors(u)' /\ Stable(u)'
    BY <1>h, <1>g, <2>1, <2>2, <2>3, SameMirrors, SameStable
  <2>5. QED
    BY <1>1, <2>1, <2>4 DEF ActiveMirrored
<1>5. QED
  BY <1>2, <1>3, <1>4 DEF Next, Move

(* Whatever overlaps, fails, deadlocks or dies, a row is there once: in every
   table, by the constraint behind its upsert or by the lock on the sport. *)
THEOREM UpsertInvHolds == Spec => []UpsertInv
<1>1. Init => UpsertInv
  <2> SUFFICES ASSUME Init PROVE UpsertInv
    OBVIOUS
  <2> USE SyncAssumption, PoolAssumption, SomeCallIsCall
  <2>1. TypeOK
    <3>1. <<>> \in Seq(Rows \cup {Rejected, Loose})
      BY EmptySeq
    <3>2. QED
      BY <3>1 DEF Init, TxInit, TypeOK, TxTypeOK, Untouched
  <2>2. TxInv /\ LocksHeld
    BY DEF Init, TxInit, TxInv, LocksHeld, InTx, Locked, Untouched
  <2>3. WritesAreNew
    <3>1. ASSUME NEW t \in Tasks PROVE Writes(t)
      <4>1. pc[t] = "idle" /\ todo[t] = <<>> /\ write[t] = Untouched
        BY DEF Init
      <4>2. DOMAIN todo[t] = {} /\ \A k \in Rows : write[t][k] = "none"
        BY <4>1 DEF Untouched
      <4>3. QED
        BY <4>1, <4>2 DEF Writes
    <3>2. QED
      BY <3>1 DEF WritesAreNew
  <2>4. OneRowPerKey
    BY DEF Init, OneRowPerKey
  <2>5. ActiveMirrored
    <3>1. active = {} /\ \A t \in Tasks : pc[t] = "idle" /\ scan[t] = {}
      BY DEF Init
    <3>2. \A t \in Tasks, k \in Rows : write[t][k] = "none"
      BY DEF Init, Untouched
    <3>3. \A t \in Tasks : Mirrors(t) /\ Stable(t)
      BY <3>1, <3>2 DEF Mirrors, Stable, Syncing
    <3>4. QED
      BY <3>1, <3>3 DEF ActiveMirrored
  <2>6. QED
    BY <2>1, <2>2, <2>3, <2>4, <2>5 DEF UpsertInv
<1>2. UpsertInv /\ [Next]_vars => UpsertInv'
  BY TxStep, TypeStep, UpsertStep, MirrorStep DEF UpsertInv
<1>3. QED
  BY <1>1, <1>2, PTL DEF Spec

(* Readers see the active NHL teams change only by the commit of a SyncTeams call,
   and one no other overlapped leaves exactly the teams of one version of its
   feed: never the deactivated table, never a team that has left the feed. *)
THEOREM SyncMirrors == Spec => SyncMirrorsFeed
<1>1. UpsertInv /\ [Next]_vars =>
        [/\ active' # active => \E t \in Tasks : Syncing(t) /\ Commit(t)
         /\ \A t \in Tasks : Syncing(t) /\ alone[t] /\ write[t] # Untouched /\ Commit(t) =>
              /\ active' = Put(t)
              /\ \E v \in 0..published : active' = Listed(call[t], v)]_vars
  <2> SUFFICES ASSUME UpsertInv, Next
      PROVE  /\ active' # active => \E t \in Tasks : Syncing(t) /\ Commit(t)
             /\ \A t \in Tasks : Syncing(t) /\ alone[t] /\ write[t] # Untouched /\ Commit(t) =>
                  /\ active' = Put(t)
                  /\ \E v \in 0..published : active' = Listed(call[t], v)
    OBVIOUS
  <2> USE DEF UpsertInv, ActiveMirrored
  <2>1. ASSUME active' # active PROVE \E t \in Tasks : Syncing(t) /\ Commit(t)
    <3>1. \E t \in Tasks : Move(t)
      BY <2>1 DEF Next, Move, Publish, ListActive, Wait, Crash, dbVars
    <3>2. QED
      BY <2>1, <3>1, ActiveChanges
  <2>2. ASSUME NEW t \in Tasks, Syncing(t), alone[t], write[t] # Untouched, Commit(t)
        PROVE  active' = Put(t) /\ \E v \in 0..published : active' = Listed(call[t], v)
    <3>1. pc[t] = "commit" /\ active' = Activated(t) /\ Writing(t)
      BY <2>2 DEF Commit, Writing
    <3>2. scan[t] = {} /\ ToPut(t) = {}
      <4>1. scan[t] = {} /\ todo[t] = <<>>
        BY <3>1 DEF Stable
      <4>2. QED
        BY <4>1 DEF ToPut
    <3>3. \A k \in active : write[t][k] # "none"
      BY <2>2, <3>1, <3>2 DEF Mirrors
    <3>4. \A k \in active : k \in NhlTeams /\ write[t][k] \in {"insert", "update", "off"}
      BY <3>3, SyncAssumption DEF TypeOK
    <3>5. active' = Put(t)
      BY <2>2, <3>1, <3>4 DEF Activated, Put, Syncing
    <3>6. PICK v \in 0..published : Put(t) \cup ToPut(t) = Listed(call[t], v)
      BY <2>2, <3>1 DEF Mirrors
    <3>7. QED
      BY <3>2, <3>5, <3>6
  <2>3. QED
    BY <2>1, <2>2
<1>2. QED
  BY <1>1, UpsertInvHolds, PTL DEF Spec, SyncMirrorsFeed
=============================================================================
