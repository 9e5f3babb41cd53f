------------------------- MODULE InjuryIngestProofs --------------------------
(***************************************************************************)
(* Proofs about InjuryIngest, for every set of tasks, leagues, connections *)
(* and reports, with or without panics and crashes.                        *)
(***************************************************************************)
EXTENDS InjuryIngest, WriteTxProofs, FiniteSetTheorems

(* Outside a call a task still names some league. *)
LEMMA NoCallIsLeague == NoCall \in Leagues
  BY IngestAssumption DEF NoCall

(* The rows of a version's entries are rows of the table. *)
LEMMA RowsForType ==
  ASSUME NEW E \in SUBSET Items, NEW v \in 0..MaxVersion, NEW t \in Tasks
  PROVE  RowsFor(E, v, t) \in SUBSET Row
  BY DEF RowsFor, Row

(* A published version has a report, whose entries are known. *)
LEMMA ReportType ==
  ASSUME NEW l \in Leagues, NEW v \in 0..MaxVersion
  PROVE  Report[l][v] \in SUBSET Items
  BY IngestAssumption

(* Every step of the ingest is a step of WriteTx on pool and locks. *)
LEMMA TxStep ==
  ASSUME TypeOK, [Next]_vars
  PROVE  TxTypeOK' /\ (TxInv /\ LocksHeld => TxInv')
<1> USE PoolAssumption, IngestAssumption
<1> DEFINE Kept == TxTypeOK' /\ (TxInv /\ LocksHeld => TxInv')
<1>1. TxTypeOK
  BY DEF TypeOK
<1>2. ASSUME UNCHANGED txVars PROVE Kept
  BY <1>1, <1>2, TxUnchangedKeeps
<1>3. ASSUME NEW t \in Tasks, pc[t] \in InTx, TxEnd(t) PROVE Kept
  BY <1>1, <1>3, TxEndKeeps DEF LocksHeld
<1>4. ASSUME NEW t \in Tasks, NEW k \in Keys, pc[t] \in InTx, TxLock(t, k)
      PROVE  Kept
  BY <1>1, <1>4, TxLockKeeps DEF LocksHeld
<1>5. CASE Next
  <2>1. ASSUME NEW l \in Leagues, Publish(l) PROVE Kept
    BY <1>2, <2>1 DEF Publish
  <2>2. ASSUME NEW t \in Tasks, NEW l \in Leagues, IngestInjuries(t, l) PROVE Kept
    BY <1>2, <2>2 DEF IngestInjuries
  <2>3. ASSUME NEW t \in Tasks, Begin(t) PROVE Kept
    <3>1. LocksHeld => conn[t] = NoConn
      BY <2>3 DEF Begin, Goto, LocksHeld, InTx
    <3>2. QED
      BY <1>1, <2>3, <3>1, TxBeginKeeps DEF Begin
  <2>4. ASSUME NEW t \in Tasks, ResolveSport(t) \/ ResolveLeague(t) PROVE Kept
    <3>1. SportOf[league[t]] \in Keys /\ league[t] \in Keys
      BY DEF TypeOK
    <3>2. pc[t] \in InTx
      BY <2>4 DEF ResolveSport, ResolveLeague, Goto, InTx
    <3>3. QED
      BY <1>4, <2>4, <3>1, <3>2 DEF ResolveSport, ResolveLeague
  <2>5. ASSUME NEW t \in Tasks, Commit(t) \/ CommitFails(t) \/ Rollback(t) PROVE Kept
    <3>1. pc[t] \in InTx
      BY <2>5 DEF Commit, CommitFails, Rollback, InTx
    <3>2. QED
      BY <1>3, <2>5, <3>1 DEF Commit, CommitFails, Rollback
  <2>6. ASSUME NEW t \in Tasks,
               Fetch(t) \/ Clear(t) \/ Insert(t) \/ LoopEnds(t) \/ BeginFails(t) \/ Fail(t)
        PROVE  Kept
    BY <1>2, <2>6 DEF Fetch, Clear, Insert, LoopEnds, BeginFails, Fail
  <2>7. ASSUME NEW t \in Tasks, Panic(t) PROVE Kept
    BY <1>1, <2>7, TxAbandonKeeps DEF Panic
  <2>8. ASSUME NEW p \in Procs, Crash(p) PROVE Kept
    BY <1>1, <2>8, TxCrashKeeps DEF Crash
  <2>9. QED
    BY <1>5, <2>1, <2>2, <2>3, <2>4, <2>5, <2>6, <2>7, <2>8
       DEF Next, Proceed, Fault
<1>6. CASE UNCHANGED vars
  BY <1>2, <1>6 DEF vars, txVars
<1>7. QED
  BY <1>5, <1>6

(* What a committed transaction leaves is a set of rows per league. *)
LEMMA CommittedType ==
  ASSUME TypeOK, NEW t \in Tasks
  PROVE  Committed(t) \in [Leagues -> SUBSET Row]
  BY DEF TypeOK, Committed

(* Every variable keeps its type, whatever fails and whoever panics. *)
THEOREM TypeCorrect == Spec => []TypeOK
<1> USE PoolAssumption, IngestAssumption, NoCallIsLeague
<1>1. Init => TypeOK
  BY DEF Init, TxInit, TypeOK, TxTypeOK, InTx
<1>2. TypeOK /\ [Next]_vars => TypeOK'
  <2> SUFFICES ASSUME TypeOK, [Next]_vars PROVE TypeOK'
    OBVIOUS
  <2>t. TxTypeOK'
    BY TxStep
  <2> USE DEF TypeOK, Goto, Return, callVars, InTx
  <2>1. ASSUME NEW l \in Leagues, Publish(l) PROVE TypeOK'
    BY <2>t, <2>1 DEF Publish
  <2>2. ASSUME NEW t \in Tasks, NEW l \in Leagues, IngestInjuries(t, l)
        PROVE  TypeOK'
    BY <2>t, <2>2 DEF IngestInjuries
  <2>3. ASSUME NEW t \in Tasks, Begin(t) PROVE TypeOK'
    BY <2>t, <2>3 DEF Begin
  <2>4. ASSUME NEW t \in Tasks, ResolveSport(t) PROVE TypeOK'
    BY <2>t, <2>4 DEF ResolveSport
  <2>5. ASSUME NEW t \in Tasks, ResolveLeague(t) PROVE TypeOK'
    BY <2>t, <2>5 DEF ResolveLeague
  <2>6. ASSUME NEW t \in Tasks, Fetch(t) PROVE TypeOK'
    BY <2>t, <2>6, ReportType DEF Fetch
  <2>7. ASSUME NEW t \in Tasks, Clear(t) PROVE TypeOK'
    BY <2>t, <2>7 DEF Clear
  <2>8. ASSUME NEW t \in Tasks, Insert(t) PROVE TypeOK'
    <3>1. PICK i \in todo[t] :
            /\ todo' = [todo EXCEPT ![t] = @ \ {i}]
            /\ IF i \in Nameless
               THEN /\ errors' = [errors EXCEPT ![t] = @ + 1]
                    /\ UNCHANGED <<ins, created>>
               ELSE /\ ins' = [ins EXCEPT ![t] = @ \cup RowsFor({i}, got[t], t)]
                    /\ created' = [created EXCEPT ![t] = @ + 1]
                    /\ UNCHANGED errors
      BY <2>8 DEF Insert
    <3>2. ins[t] \cup RowsFor({i}, got[t], t) \in SUBSET Row
      <4>1. RowsFor({i}, got[t], t) \in SUBSET Row
        BY RowsForType
      <4>2. ins[t] \in SUBSET Row
        OBVIOUS
      <4>3. QED
        BY <4>1, <4>2
    <3>n. errors[t] + 1 \in Nat /\ created[t] + 1 \in Nat
      OBVIOUS
    <3>u. /\ todo' \in [Tasks -> SUBSET Items]
          /\ pc' \in [Tasks -> {"idle", "begin"} \cup InTx]
          /\ UNCHANGED <<league, got, del, outcome, published, table>>
      BY <2>8, <3>1 DEF Insert
    <3>3. CASE i \in Nameless
      <4>1. ins' = ins /\ created' = created
        BY <3>1, <3>3
      <4>2. errors' \in [Tasks -> Nat]
        BY <3>1, <3>3, <3>n
      <4>3. QED
        BY <2>t, <3>u, <4>1, <4>2
    <3>4. CASE i \notin Nameless
      <4>1. /\ errors' = errors
            /\ ins' = [ins EXCEPT ![t] = @ \cup RowsFor({i}, got[t], t)]
            /\ created' = [created EXCEPT ![t] = @ + 1]
        BY <3>1, <3>4
      <4>2. ins' \in [Tasks -> SUBSET Row]
        BY <4>1, <3>2
      <4>3. created' \in [Tasks -> Nat]
        BY <4>1, <3>n
      <4>4. QED
        BY <2>t, <3>u, <4>1, <4>2, <4>3
    <3>5. QED
      BY <3>3, <3>4
  <2>9. ASSUME NEW t \in Tasks, LoopEnds(t) PROVE TypeOK'
    BY <2>t, <2>9 DEF LoopEnds
  <2>10. ASSUME NEW t \in Tasks, Commit(t) PROVE TypeOK'
    BY <2>t, <2>10, CommittedType DEF Commit
  <2>11. ASSUME NEW t \in Tasks, Rollback(t) PROVE TypeOK'
    BY <2>t, <2>11 DEF Rollback
  <2>12. ASSUME NEW t \in Tasks, BeginFails(t) PROVE TypeOK'
    BY <2>t, <2>12 DEF BeginFails, txVars
  <2>13. ASSUME NEW t \in Tasks, Fail(t) PROVE TypeOK'
    BY <2>t, <2>13 DEF Fail
  <2>14. ASSUME NEW t \in Tasks, CommitFails(t) PROVE TypeOK'
    BY <2>t, <2>14, CommittedType DEF CommitFails
  <2>15. ASSUME NEW t \in Tasks, Panic(t) PROVE TypeOK'
    BY <2>t, <2>15 DEF Panic
  <2>16. ASSUME NEW p \in Procs, Crash(p) PROVE TypeOK'
    BY <2>t, <2>16 DEF Crash
  <2>17. CASE UNCHANGED vars
    BY <2>t, <2>17 DEF vars
  <2>18. QED
    BY <2>1, <2>2, <2>3, <2>4, <2>5, <2>6, <2>7, <2>8, <2>9, <2>10, <2>11,
       <2>12, <2>13, <2>14, <2>15, <2>16, <2>17 DEF Next, Proceed, Fault
<1>3. QED
  BY <1>1, <1>2, PTL DEF Spec
-----------------------------------------------------------------------------
(* A connection handed to one task, and a row lock held by one connection: two
   tasks that hold the lock of one sport are one task. *)
LEMMA LocksSerialise ==
  ASSUME TypeOK, TxInv, LocksHeld
  PROVE  SportSerialised
<1> SUFFICES ASSUME NEW t \in Tasks, NEW u \in Tasks, t # u,
                    pc[t] \in Locked, pc[u] \in Locked,
                    SportOf[league[t]] = SportOf[league[u]]
             PROVE  FALSE
  BY DEF SportSerialised
<1>1. conn[t] = conn[u]
  BY DEF LocksHeld
<1>2. conn[t] # NoConn
  BY DEF LocksHeld, Locked, InTx
<1>3. QED
  BY <1>1, <1>2 DEF TxInv

(* Every step leaves a task the locks it holds, unless it ends its transaction. *)
LEMMA LocksStep ==
  ASSUME TypeOK, TxInv, LocksHeld, [Next]_vars
  PROVE  LocksHeld'
<1> USE PoolAssumption, IngestAssumption
<1> DEFINE Held(t) ==
      /\ pc[t] \in InTx <=> conn[t] # NoConn
      /\ pc[t] \in Locked \cup {"league"} => lock[SportOf[league[t]]] = conn[t]
<1>h. \A t \in Tasks : Held(t)
  BY DEF LocksHeld
<1>s. SUFFICES \A t \in Tasks : Held(t)'
  BY DEF LocksHeld
<1>k. \A t \in Tasks : SportOf[league[t]] \in Keys /\ league[t] \in Keys
  BY DEF TypeOK
<1>1. ASSUME NEW l \in Leagues, Publish(l) PROVE \A t \in Tasks : Held(t)'
  BY <1>h, <1>1 DEF Publish, txVars, callVars
<1>2. ASSUME NEW t \in Tasks, NEW l \in Leagues, IngestInjuries(t, l)
      PROVE  \A u \in Tasks : Held(u)'
  BY <1>h, <1>2 DEF IngestInjuries, Goto, txVars, TypeOK, InTx, Locked
<1>3. ASSUME NEW t \in Tasks, Begin(t) PROVE \A u \in Tasks : Held(u)'
  <2>1. PICK c \in Conns \ busy : conn' = [conn EXCEPT ![t] = c]
    BY <1>3 DEF Begin, TxBegin
  <2>2. conn'[t] # NoConn
    BY <2>1 DEF TypeOK, TxTypeOK
  <2>3. \A u \in Tasks \ {t} : conn'[u] = conn[u] /\ pc'[u] = pc[u]
    BY <1>3, <2>1 DEF Begin, Goto, TypeOK, TxTypeOK
  <2>4. pc'[t] = "sport" /\ league' = league /\ lock' = lock
    BY <1>3 DEF Begin, Goto, TypeOK, callVars, TxBegin
  <2>5. QED
    BY <1>h, <2>2, <2>3, <2>4 DEF InTx, Locked
<1>4. ASSUME NEW t \in Tasks, NEW k \in Keys, TxLock(t, k), pc[t] \in InTx
      PROVE  \A u \in Tasks \ {t} :
               conn[u] # NoConn /\ lock[SportOf[league[u]]] = conn[u] =>
                 lock'[SportOf[league[u]]] = conn[u]
  <2>1. \A u \in Tasks \ {t} : conn[u] # NoConn => conn[u] # conn[t]
    BY DEF TxInv
  <2>2. QED
    BY <1>4, <1>k, <2>1 DEF TxLock, TypeOK, TxTypeOK
<1>5. ASSUME NEW t \in Tasks, ResolveSport(t) PROVE \A u \in Tasks : Held(u)'
  <2>1. /\ pc[t] = "sport" /\ pc'[t] = "league"
        /\ \A u \in Tasks \ {t} : pc'[u] = pc[u]
        /\ league' = league /\ conn' = conn
        /\ TxLock(t, SportOf[league[t]])
    BY <1>5 DEF ResolveSport, Goto, TypeOK, callVars, TxLock
  <2>2. Held(t)'
    BY <1>h, <1>k, <2>1 DEF TxLock, TypeOK, TxTypeOK, InTx, Locked
  <2>3. \A u \in Tasks \ {t} : Held(u)'
    BY <1>h, <1>k, <1>4, <2>1 DEF InTx, Locked
  <2>4. QED
    BY <2>2, <2>3
<1>6. ASSUME NEW t \in Tasks, ResolveLeague(t) PROVE \A u \in Tasks : Held(u)'
  <2>1. /\ pc[t] = "league" /\ pc'[t] = "fetch"
        /\ \A u \in Tasks \ {t} : pc'[u] = pc[u]
        /\ league' = league /\ conn' = conn
        /\ TxLock(t, league[t])
    BY <1>6 DEF ResolveLeague, Goto, TypeOK, callVars, TxLock
  <2>2. Held(t)'
    <3>1. SportOf[league[t]] # league[t]
      BY DEF TypeOK
    <3>2. lock'[SportOf[league[t]]] = lock[SportOf[league[t]]]
      BY <1>k, <2>1, <3>1 DEF TxLock, TypeOK, TxTypeOK
    <3>3. QED
      BY <1>h, <2>1, <3>2 DEF InTx, Locked
  <2>3. \A u \in Tasks \ {t} : Held(u)'
    BY <1>h, <1>k, <1>4, <2>1 DEF InTx, Locked
  <2>4. QED
    BY <2>2, <2>3
<1>7. ASSUME NEW t \in Tasks, UNCHANGED txVars, league' = league,
             pc'[t] \in InTx, pc[t] \in InTx,
             pc'[t] \in Locked \cup {"league"} => pc[t] \in Locked \cup {"league"},
             \A u \in Tasks \ {t} : pc'[u] = pc[u]
      PROVE  \A u \in Tasks : Held(u)'
  BY <1>h, <1>7 DEF txVars
<1>8. ASSUME NEW t \in Tasks,
             Fetch(t) \/ Clear(t) \/ Insert(t) \/ LoopEnds(t) \/ Fail(t)
      PROVE  \A u \in Tasks : Held(u)'
  <2>1. /\ UNCHANGED txVars /\ league' = league
        /\ \A u \in Tasks \ {t} : pc'[u] = pc[u]
    BY <1>8 DEF Fetch, Clear, Insert, LoopEnds, Fail, Goto, TypeOK, callVars
  <2>2. /\ pc[t] \in InTx /\ pc'[t] \in InTx
        /\ pc'[t] \in Locked \cup {"league"} => pc[t] \in Locked \cup {"league"}
    BY <1>8 DEF Fetch, Clear, Insert, LoopEnds, Fail, Goto, TypeOK, InTx, Locked,
                Cancellable
  <2>3. QED
    BY <1>7, <2>1, <2>2
<1>9. ASSUME NEW t \in Tasks, Commit(t) \/ CommitFails(t) \/ Rollback(t) \/ Panic(t)
      PROVE  \A u \in Tasks : Held(u)'
  <2>1. /\ pc'[t] = "idle" /\ conn'[t] = NoConn
        /\ \A u \in Tasks \ {t} :
             pc'[u] = pc[u] /\ league'[u] = league[u] /\ conn'[u] = conn[u]
    BY <1>9 DEF Commit, CommitFails, Rollback, Panic, Return, TxEnd, TxAbandon,
                TypeOK, TxTypeOK
  <2>2. \A u \in Tasks \ {t} : conn[u] # NoConn => conn[u] # conn[t]
    BY DEF TxInv
  <2>3. lock' = lock \/ lock' = Released({conn[t]})
    BY <1>9 DEF Commit, CommitFails, Rollback, Panic, TxEnd, TxAbandon
  <2>4. \A k \in Keys : lock[k] # conn[t] => lock'[k] = lock[k]
    BY <2>3 DEF Released
  <2>5. QED
    BY <1>h, <1>k, <2>1, <2>2, <2>4 DEF InTx, Locked
<1>10. ASSUME NEW t \in Tasks, BeginFails(t) PROVE \A u \in Tasks : Held(u)'
  <2>1. /\ pc[t] = "begin" /\ pc'[t] = "idle" /\ UNCHANGED txVars
        /\ \A u \in Tasks \ {t} : pc'[u] = pc[u] /\ league'[u] = league[u]
    BY <1>10 DEF BeginFails, Return, TypeOK
  <2>2. QED
    BY <1>h, <2>1 DEF InTx, Locked, txVars
<1>11. ASSUME NEW p \in Procs, Crash(p) PROVE \A t \in Tasks : Held(t)'
  <2>1. \A t \in Tasks : TaskProc[t] = p => pc'[t] = "idle" /\ conn'[t] = NoConn
    BY <1>11 DEF Crash, TxCrash
  <2>2. \A t \in Tasks : TaskProc[t] # p =>
          pc'[t] = pc[t] /\ league'[t] = league[t] /\ conn'[t] = conn[t]
    BY <1>11 DEF Crash, TxCrash
  <2>3. \A k \in Keys : lock[k] \in Conns /\ ConnProc[lock[k]] # p => lock'[k] = lock[k]
    BY <1>11 DEF Crash, TxCrash, Released
  <2>4. \A t \in Tasks : conn[t] # NoConn => conn[t] \in Conns /\ ConnProc[conn[t]] = TaskProc[t]
    BY DEF TypeOK, TxTypeOK, TxInv
  <2>5. QED
    BY <1>h, <1>k, <2>1, <2>2, <2>3, <2>4 DEF InTx, Locked
<1>12. CASE UNCHANGED vars
  BY <1>h, <1>12 DEF vars
<1>13. QED
  BY <1>1, <1>2, <1>3, <1>5, <1>6, <1>8, <1>9, <1>10, <1>11, <1>12
     DEF Next, Proceed, Fault
-----------------------------------------------------------------------------
(* Nothing of u's call changes. *)
Same(u) ==
  /\ pc'[u] = pc[u] /\ league'[u] = league[u] /\ got'[u] = got[u]
  /\ todo'[u] = todo[u] /\ del'[u] = del[u] /\ ins'[u] = ins[u]

(* A task whose call does not change, and whose league's rows do not change
   under its locks, keeps its part of the invariant. *)
LEMMA SameKeeps ==
  ASSUME TypeOK, NEW u \in Tasks, Same(u), Fresh(u), Writes(u),
         published'[league[u]] >= published[league[u]], TypeOK',
         pc[u] \in Locked => table'[league[u]] = table[league[u]]
  PROVE  Fresh(u)' /\ Writes(u)'
<1>1. Writes(u)'
  BY DEF Same, Writes, Locked
<1>2. Fresh(u)'
  <2>1. SUFFICES ASSUME pc[u] \in {"clear", "insert", "commit"}
                 PROVE  /\ got[u] <= published'[league[u]]
                        /\ \A r \in table'[league[u]] : r.ver <= got[u]
    BY DEF Same, Fresh
  <2>2. /\ got[u] <= published[league[u]]
        /\ \A r \in table[league[u]] : r.ver <= got[u]
    BY <2>1 DEF Fresh
  <2>3. table'[league[u]] = table[league[u]]
    BY <2>1 DEF Locked
  <2>4. got[u] \in Nat /\ published[league[u]] \in Nat /\ published'[league[u]] \in Nat
    BY IngestAssumption DEF TypeOK
  <2>5. got[u] <= published'[league[u]]
    BY <2>2, <2>4
  <2>6. QED
    BY <2>2, <2>3, <2>5
<1>3. QED
  BY <1>1, <1>2

(* The steps of one task: what they are, and that they leave other tasks' calls
   and what ESPN publishes alone. *)
Move(t) ==
  \/ \E l \in Leagues : IngestInjuries(t, l)
  \/ Begin(t) \/ ResolveSport(t) \/ Proceed(t) \/ Fault(t)

(* A move of t changes no other task and publishes nothing. *)
LEMMA MoveIsLocal ==
  ASSUME TypeOK, NEW t \in Tasks, Move(t)
  PROVE  published' = published /\ \A u \in Tasks \ {t} : Same(u)
<1> USE DEF TypeOK, Same, Goto, Return, callVars
<1>1. ASSUME NEW l \in Leagues, IngestInjuries(t, l)
      PROVE  published' = published /\ \A u \in Tasks \ {t} : Same(u)
  BY <1>1 DEF IngestInjuries
<1>2. CASE Begin(t) \/ ResolveSport(t) \/ ResolveLeague(t) \/ LoopEnds(t) \/ Fail(t)
  BY <1>2 DEF Begin, ResolveSport, ResolveLeague, LoopEnds, Fail
<1>3. CASE Fetch(t) \/ Clear(t)
  BY <1>3 DEF Fetch, Clear
<1>4. CASE Insert(t)
  BY <1>4 DEF Insert
<1>5. CASE Commit(t) \/ CommitFails(t) \/ Rollback(t) \/ BeginFails(t) \/ Panic(t)
  BY <1>5 DEF Commit, CommitFails, Rollback, BeginFails, Panic
<1>6. QED
  BY <1>1, <1>2, <1>3, <1>4, <1>5 DEF Move, Proceed, Fault

(* Only a transaction getting past its COMMIT changes what readers see. *)
LEMMA MoveShows ==
  ASSUME TypeOK, NEW t \in Tasks, Move(t)
  PROVE  \/ table' = table
         \/ pc[t] = "commit" /\ pc'[t] = "idle" /\ table' = Committed(t)
<1>1. CASE Commit(t) \/ CommitFails(t)
  BY <1>1 DEF Commit, CommitFails, Return, TypeOK
<1>2. CASE ~(Commit(t) \/ CommitFails(t))
  BY <1>2 DEF Move, Proceed, Fault, IngestInjuries, Begin, ResolveSport,
       ResolveLeague, Fetch, Clear, Insert, LoopEnds, Rollback, BeginFails,
       Fail, Panic
<1>3. QED
  BY <1>1, <1>2

(* A commit replaces the rows of its own league by those of the report it
   fetched, or leaves them when that report is empty. *)
LEMMA CommitReplaces ==
  ASSUME TypeOK, NEW t \in Tasks, pc[t] = "commit", Writes(t), NEW l \in Leagues
  PROVE  \/ Committed(t)[l] = table[l]
         \/ /\ l = league[t]
            /\ Committed(t)[l] = RowsFor(Report[l][got[t]], got[t], t)
<1>1. CASE l # league[t]
  BY <1>1 DEF Committed, TypeOK
<1>2. CASE l = league[t]
  <2>1. Committed(t)[l] = (table[l] \ del[t]) \cup ins[t]
    BY <1>2 DEF Committed, TypeOK
  <2>2. \/ del[t] = {} /\ ins[t] = {}
        \/ del[t] = table[l] /\ ins[t] = RowsFor(Report[l][got[t]], got[t], t)
    BY <1>2 DEF Writes
  <2>3. QED
    BY <1>2, <2>1, <2>2
<1>3. QED
  BY <1>1, <1>2

(* Other tasks of the sport are not between their locks and their commit when
   one commits, so no league's rows change under a task that has fetched. *)
LEMMA LockedLeagueKept ==
  ASSUME TypeOK, SportSerialised, NEW t \in Tasks, NEW u \in Tasks, t # u, Move(t),
         Writes(t), pc[u] \in Locked
  PROVE  table'[league[u]] = table[league[u]]
<1>1. CASE table' = table
  BY <1>1
<1>2. CASE pc[t] = "commit" /\ table' = Committed(t)
  <2>1. league[t] # league[u]
    BY <1>2 DEF SportSerialised, Locked
  <2>2. QED
    BY <1>2, <2>1, CommitReplaces DEF TypeOK
<1>3. QED
  BY <1>1, <1>2, MoveShows

(* Every version in a league's rows after a step of t was there before, or is
   the version t fetched. *)
LEMMA RowsFrom ==
  ASSUME TypeOK, NEW t \in Tasks, Move(t), Writes(t), NEW l \in Leagues,
         NEW r \in table'[l]
  PROVE  \/ r \in table[l]
         \/ pc[t] = "commit" /\ l = league[t] /\ r.ver = got[t]
<1>1. CASE table' = table
  BY <1>1
<1>2. CASE pc[t] = "commit" /\ table' = Committed(t)
  BY <1>2, CommitReplaces DEF RowsFor
<1>3. QED
  BY <1>1, <1>2, MoveShows
-----------------------------------------------------------------------------
(* Each step of t keeps t's own part of the invariant. *)
LEMMA MoveWrites ==
  ASSUME TypeOK, NEW t \in Tasks, Move(t), Writes(t)
  PROVE  Writes(t)'
<1> USE DEF TypeOK, Goto, Return, callVars, Writes
<1>1. ASSUME NEW l \in Leagues, IngestInjuries(t, l) PROVE Writes(t)'
  BY <1>1 DEF IngestInjuries
<1>2. CASE Begin(t) \/ ResolveSport(t) \/ ResolveLeague(t)
  BY <1>2 DEF Begin, ResolveSport, ResolveLeague
<1>3. CASE Fetch(t)
  <2> DEFINE E == Report[league[t]][published[league[t]]]
  <2>1. /\ pc[t] = "fetch" /\ pc'[t] = IF E = {} THEN "commit" ELSE "clear"
        /\ league' = league /\ got'[t] = published[league[t]] /\ todo'[t] = E
        /\ del' = del /\ ins' = ins
    BY <1>3 DEF Fetch
  <2>2. QED
    BY <2>1
<1>4. CASE Clear(t)
  <2>1. /\ pc[t] = "clear" /\ pc'[t] = "insert"
        /\ league' = league /\ got' = got /\ todo' = todo /\ ins' = ins
        /\ table' = table /\ del'[t] = table[league[t]]
    BY <1>4 DEF Clear
  <2>2. RowsFor(todo[t] \ todo[t], got[t], t) = {}
    BY DEF RowsFor
  <2>3. QED
    BY <2>1, <2>2
<1>5. CASE Insert(t)
  <2>1. /\ pc[t] = "insert" /\ pc'[t] = "insert"
        /\ league' = league /\ got' = got /\ del' = del /\ table' = table
    BY <1>5 DEF Insert
  <2>2. PICK i \in todo[t] :
          /\ todo'[t] = todo[t] \ {i}
          /\ IF i \in Nameless
             THEN ins'[t] = ins[t]
             ELSE ins'[t] = ins[t] \cup RowsFor({i}, got[t], t)
    BY <1>5 DEF Insert
  <2> DEFINE E == Report[league[t]][got[t]]
  <2>3. todo[t] \subseteq E /\ ins[t] = RowsFor(E \ todo[t], got[t], t)
    BY <2>1
  <2>4. ins'[t] = RowsFor(E \ todo'[t], got[t], t)
    BY <2>2, <2>3 DEF RowsFor
  <2>5. QED
    BY <2>1, <2>2, <2>3, <2>4
<1>6. CASE LoopEnds(t)
  <2>1. Report[league[t]][got[t]] \ todo[t] = Report[league[t]][got[t]]
    BY <1>6 DEF LoopEnds
  <2>2. QED
    BY <1>6, <2>1 DEF LoopEnds
<1>7. CASE Commit(t) \/ CommitFails(t) \/ Rollback(t) \/ BeginFails(t) \/ Panic(t)
  <2>1. pc'[t] = "idle" /\ del'[t] = {} /\ ins'[t] = {}
    BY <1>7 DEF Commit, CommitFails, Rollback, BeginFails, Panic
  <2>2. QED
    BY <2>1
<1>8. CASE Fail(t)
  BY <1>8 DEF Fail
<1>9. QED
  BY <1>1, <1>2, <1>3, <1>4, <1>5, <1>6, <1>7, <1>8 DEF Move, Proceed, Fault

(* A move of t leaves t with a report no older than what its league has. *)
LEMMA MoveFresh ==
  ASSUME TypeOK, NEW t \in Tasks, Move(t), Fresh(t), FetchedIsNewest
  PROVE  Fresh(t)'
<1> USE DEF TypeOK, Goto, Return, callVars
<1>1. CASE Fetch(t)
  <2>1. /\ league' = league /\ table' = table /\ published' = published
        /\ got'[t] = published[league[t]]
    BY <1>1 DEF Fetch
  <2>2. published[league[t]] <= published[league[t]]
    BY IngestAssumption
  <2>3. QED
    BY <2>1, <2>2 DEF Fresh, FetchedIsNewest
<1>2. CASE Clear(t) \/ Insert(t) \/ LoopEnds(t)
  BY <1>2 DEF Clear, Insert, LoopEnds, Fresh
<1>3. CASE ~(Fetch(t) \/ Clear(t) \/ Insert(t) \/ LoopEnds(t))
  <2>1. pc'[t] \notin {"clear", "insert", "commit"}
    BY <1>3 DEF Move, Proceed, Fault, IngestInjuries, Begin, ResolveSport,
         ResolveLeague, Commit, CommitFails, Rollback, BeginFails, Fail, Panic
  <2>2. QED
    BY <2>1 DEF Fresh
<1>4. QED
  BY <1>1, <1>2, <1>3

(* Every step keeps what transactions have read and written, because the sport
   lock keeps others out of the league between a fetch and its commit. *)
LEMMA TasksStep ==
  ASSUME TypeOK, TypeOK', IngestInv, [Next]_vars
  PROVE  \A u \in Tasks : Fresh(u)' /\ Writes(u)'
<1> USE DEF IngestInv, FetchedIsNewest, WritesAreTheReport
<1>1. SportSerialised
  BY LocksSerialise
<1>n. \A l \in Leagues : published[l] \in Nat
  BY IngestAssumption DEF TypeOK
<1>2. ASSUME NEW l \in Leagues, Publish(l)
      PROVE  \A u \in Tasks : Fresh(u)' /\ Writes(u)'
  <2>1. /\ \A u \in Tasks : Same(u) /\ league[u] \in Leagues
        /\ table' = table /\ published' = [published EXCEPT ![l] = @ + 1]
    BY <1>2 DEF Publish, Same, callVars, TypeOK
  <2>2. published[l] + 1 >= published[l]
    BY <1>n
  <2>3. \A m \in Leagues : published[m] >= published[m]
    BY <1>n
  <2>4. \A m \in Leagues : published'[m] >= published[m]
    BY <2>1, <2>2, <2>3 DEF TypeOK
  <2>5. QED
    BY <2>1, <2>4, SameKeeps
<1>3. ASSUME NEW t \in Tasks, Move(t)
      PROVE  \A u \in Tasks : Fresh(u)' /\ Writes(u)'
  <2>1. Fresh(t)' /\ Writes(t)'
    BY <1>3, MoveWrites, MoveFresh
  <2>2. ASSUME NEW u \in Tasks \ {t} PROVE Fresh(u)' /\ Writes(u)'
    <3>1. published' = published /\ Same(u)
      BY <1>3, MoveIsLocal
    <3>2. pc[u] \in Locked => table'[league[u]] = table[league[u]]
      BY <1>1, <1>3, LockedLeagueKept
    <3>3. published'[league[u]] >= published[league[u]]
      BY <1>n, <3>1 DEF TypeOK
    <3>4. QED
      BY <3>1, <3>2, <3>3, SameKeeps
  <2>3. QED
    BY <2>1, <2>2
<1>4. ASSUME NEW p \in Procs, Crash(p)
      PROVE  \A u \in Tasks : Fresh(u)' /\ Writes(u)'
  <2> SUFFICES ASSUME NEW u \in Tasks PROVE Fresh(u)' /\ Writes(u)'
    OBVIOUS
  <2>1. CASE TaskProc[u] = p
    <3>1. pc'[u] = "idle" /\ del'[u] = {} /\ ins'[u] = {}
      BY <1>4, <2>1 DEF Crash
    <3>2. QED
      BY <3>1 DEF Fresh, Writes
  <2>2. CASE TaskProc[u] # p
    <3>1. Same(u) /\ published' = published /\ table' = table
      BY <1>4, <2>2 DEF Crash, Same
    <3>2. published'[league[u]] >= published[league[u]]
      BY <1>n, <3>1 DEF TypeOK
    <3>3. QED
      BY <3>1, <3>2, SameKeeps
  <2>3. QED
    BY <2>1, <2>2
<1>5. CASE UNCHANGED vars
  BY <1>5 DEF vars, Fresh, Writes
<1>6. QED
  BY <1>2, <1>3, <1>4, <1>5 DEF Next, Move
-----------------------------------------------------------------------------
(* The committed rows keep coming from published reports, one report each. *)
LEMMA TableStep ==
  ASSUME TypeOK, TypeOK', IngestInv, [Next]_vars
  PROVE  /\ SnapshotIsOneReport'
         /\ \A l \in Leagues : \A r \in table'[l] : r.ver <= published'[l]
<1> USE IngestAssumption DEF IngestInv, FetchedIsNewest, WritesAreTheReport
<1> DEFINE Goal == /\ SnapshotIsOneReport'
                   /\ \A l \in Leagues : \A r \in table'[l] : r.ver <= published'[l]
<1>r. \A l \in Leagues : \A r \in table[l] : r.ver \in Nat
  BY DEF TypeOK, Row
<1>1. ASSUME table' = table, \A l \in Leagues : published'[l] >= published[l]
      PROVE  Goal
  <2>1. \A l \in Leagues : published[l] \in Nat /\ published'[l] \in Nat
    BY DEF TypeOK
  <2>2. \A l \in Leagues : \A r \in table[l] : r.ver <= published'[l]
    <3> SUFFICES ASSUME NEW l \in Leagues, NEW r \in table[l]
                 PROVE  r.ver <= published'[l]
      OBVIOUS
    <3>1. r.ver <= published[l] /\ published[l] <= published'[l]
      BY <1>1
    <3>2. QED
      BY <3>1, <2>1, <1>r
  <2>3. \A l \in Leagues : 0..published[l] \subseteq 0..published'[l]
    BY <1>1, <2>1
  <2>4. SnapshotIsOneReport'
    BY <1>1, <2>3 DEF SnapshotIsOneReport
  <2>5. QED
    BY <1>1, <2>2, <2>4
<1>2. ASSUME NEW l \in Leagues, Publish(l) PROVE Goal
  <2>1. published[l] + 1 >= published[l] /\ \A m \in Leagues : published[m] >= published[m]
    BY DEF TypeOK
  <2>2. published' = [published EXCEPT ![l] = @ + 1] /\ table' = table
    BY <1>2 DEF Publish
  <2>3. \A m \in Leagues : published'[m] >= published[m]
    BY <2>1, <2>2 DEF TypeOK
  <2>4. QED
    BY <1>1, <2>2, <2>3
<1>3. ASSUME published' = published, table' = table PROVE Goal
  <2>1. \A m \in Leagues : published[m] >= published[m]
    BY DEF TypeOK
  <2>2. QED
    BY <1>1, <1>3, <2>1
<1>4. ASSUME NEW t \in Tasks, Move(t) PROVE Goal
  <2>1. published' = published
    BY <1>4, MoveIsLocal
  <2>2. CASE table' = table
    BY <1>3, <2>1, <2>2
  <2>3. CASE pc[t] = "commit" /\ table' = Committed(t)
    <3>1. got[t] \in 0..published[league[t]]
      BY <2>3 DEF Fresh, TypeOK
    <3>2. \A l \in Leagues : \A r \in table'[l] : r.ver <= published[l]
      BY <1>4, <3>1, RowsFrom
    <3>3. \A l \in Leagues :
            \/ table'[l] = table[l]
            \/ /\ l = league[t]
               /\ table'[l] = RowsFor(Report[l][got[t]], got[t], t)
      BY <2>3, CommitReplaces
    <3>4. SnapshotIsOneReport'
      BY <2>1, <3>1, <3>3 DEF SnapshotIsOneReport
    <3>5. QED
      BY <2>1, <3>2, <3>4
  <2>4. QED
    BY <1>4, <2>2, <2>3, MoveShows
<1>5. ASSUME NEW p \in Procs, Crash(p) PROVE Goal
  BY <1>3, <1>5 DEF Crash
<1>6. CASE UNCHANGED vars
  BY <1>3, <1>6 DEF vars
<1>7. QED
  BY <1>2, <1>4, <1>5, <1>6 DEF Next, Move

(* The inductive invariant: what the row locks protect between the fetch of a
   report and the commit of its rows (ingest.withTx, IngestInjuries). *)
THEOREM IngestInvHolds == Spec => []IngestInv
<1>1. Init => IngestInv
  BY PoolAssumption, IngestAssumption, NoCallIsLeague
     DEF Init, TxInit, IngestInv, TxInv, LocksHeld, FetchedIsNewest, Fresh,
         WritesAreTheReport, Writes, SnapshotIsOneReport, InTx, Locked
<1>2. TypeOK /\ TypeOK' /\ IngestInv /\ [Next]_vars => IngestInv'
  <2> SUFFICES ASSUME TypeOK, TypeOK', IngestInv, [Next]_vars PROVE IngestInv'
    OBVIOUS
  <2>1. TxInv' /\ LocksHeld'
    BY TxStep, LocksStep DEF IngestInv
  <2>2. FetchedIsNewest' /\ WritesAreTheReport' /\ SnapshotIsOneReport'
    BY TasksStep, TableStep DEF FetchedIsNewest, WritesAreTheReport
  <2>3. QED
    BY <2>1, <2>2 DEF IngestInv
<1>3. QED
  BY <1>1, <1>2, TypeCorrect, PTL DEF Spec

(* No two calls of one sport are ever both past their locks. *)
THEOREM Serialised == Spec => []SportSerialised
<1>1. TypeOK /\ IngestInv => SportSerialised
  BY LocksSerialise DEF IngestInv
<1>2. QED
  BY <1>1, TypeCorrect, IngestInvHolds, PTL

(* A reader never sees a league half replaced or two reports at once. *)
THEOREM OneReport == Spec => []SnapshotIsOneReport
<1>1. IngestInv => SnapshotIsOneReport
  BY DEF IngestInv
<1>2. QED
  BY <1>1, IngestInvHolds, PTL

(* A slow call never puts an older report over a newer one. *)
THEOREM NoRegression == Spec => NeverRegresses
<1>1. TypeOK /\ IngestInv /\ [Next]_vars =>
        [\A l \in Leagues : \A r \in table[l], s \in table'[l] : r.ver <= s.ver]_vars
  <2> SUFFICES ASSUME TypeOK, IngestInv, [Next]_vars,
                      NEW l \in Leagues, NEW r \in table[l], NEW s \in table'[l]
               PROVE  r.ver <= s.ver
    OBVIOUS
  <2> USE IngestAssumption DEF IngestInv, FetchedIsNewest, WritesAreTheReport
  <2>1. CASE table'[l] = table[l]
    <3>1. PICK v \in 0..published[l], t \in Tasks : table[l] = RowsFor(Report[l][v], v, t)
      BY DEF SnapshotIsOneReport
    <3>2. r.ver = v /\ s.ver = v /\ v \in Nat
      BY <2>1, <3>1 DEF RowsFor, TypeOK
    <3>3. QED
      BY <3>2
  <2>2. ASSUME NEW t \in Tasks, Move(t) PROVE r.ver <= s.ver
    <3>1. CASE pc[t] = "commit" /\ table' = Committed(t) /\ table'[l] # table[l]
      <4>1. l = league[t] /\ table'[l] = RowsFor(Report[l][got[t]], got[t], t)
        BY <3>1, CommitReplaces
      <4>2. s.ver = got[t]
        BY <4>1 DEF RowsFor
      <4>3. r.ver <= got[t]
        BY <3>1, <4>1 DEF Fresh
      <4>4. QED
        BY <4>2, <4>3
    <3>2. QED
      BY <2>1, <2>2, <3>1, MoveShows
  <2>3. CASE ~(\E t \in Tasks : Move(t))
    BY <2>1, <2>3 DEF Next, Move, Publish, Crash, vars
  <2>4. QED
    BY <2>2, <2>3
<1>2. QED
  BY <1>1, TypeCorrect, IngestInvHolds, PTL DEF Spec, NeverRegresses

(* A call that does not get past its COMMIT changes nothing a reader sees. *)
THEOREM UncommittedInvisible == Spec => OnlyCommitsShow
<1>1. TypeOK /\ [Next]_vars =>
        [table' # table =>
           \E t \in Tasks : pc[t] = "commit" /\ pc'[t] = "idle"]_vars
  <2> SUFFICES ASSUME TypeOK, [Next]_vars, table' # table
               PROVE  \E t \in Tasks : pc[t] = "commit" /\ pc'[t] = "idle"
    OBVIOUS
  <2>1. \E t \in Tasks : Move(t)
    BY DEF Next, Move, Publish, Crash, vars
  <2>2. QED
    BY <2>1, MoveShows
<1>2. QED
  BY <1>1, TypeCorrect, PTL DEF Spec, OnlyCommitsShow
-----------------------------------------------------------------------------
(* What a reader is shown of one call's rows: the named entries of its report. *)
LEMMA ShownRows ==
  ASSUME NEW l \in Leagues, NEW v, NEW t, table'[l] = RowsFor(Report[l][v], v, t)
  PROVE  Shown(l)' = AbstractRows(l, v)
<1> DEFINE E == Report[l][v] \ Nameless
<1>1. Shown(l)' = {[item |-> r.item, ver |-> r.ver] : r \in table'[l]}
  BY DEF Shown
<1>2. \A r \in table'[l] : \E i \in E : r.item = i /\ r.ver = v
  BY DEF RowsFor
<1>3. \A i \in E : \E r \in table'[l] : r.item = i /\ r.ver = v
  <2> SUFFICES ASSUME NEW i \in E PROVE \E r \in table'[l] : r.item = i /\ r.ver = v
    OBVIOUS
  <2>1. [item |-> i, ver |-> v, by |-> t] \in table'[l]
    BY DEF RowsFor
  <2>2. QED
    BY <2>1
<1>4. Shown(l)' = {[item |-> i, ver |-> v] : i \in E}
  BY <1>1, <1>2, <1>3
<1>5. QED
  BY <1>4 DEF AbstractRows

(* Concurrent, failing, dying calls behave to readers as SnapshotStore says: a
   league's rows are replaced in one step by those of one published report. *)
THEOREM ImplementsStore == Spec => StoreSpec
<1> DEFINE snap == [l \in Leagues |-> Shown(l)]
<1>1. Init => Store!Init
  <2> SUFFICES ASSUME Init PROVE Store!Init
    OBVIOUS
  <2>1. \A l \in Leagues : Shown(l) = {}
    BY DEF Init, Shown
  <2>2. QED
    BY <2>1 DEF Init, Store!Init
<1>2. TypeOK /\ TypeOK' /\ IngestInv /\ [Next]_vars => [Store!Next]_(Store!vars)
  <2> SUFFICES ASSUME TypeOK, TypeOK', IngestInv, [Next]_vars,
                      ~(published' = published /\ snap' = snap)
               PROVE  Store!Next
    BY DEF Store!vars
  <2>a. table' = table => snap' = snap
    BY DEF Shown
  <2>1. ASSUME NEW l \in Leagues, Publish(l) PROVE Store!Next
    <3>1. Store!Publish(l)
      BY <2>1, <2>a DEF Publish, Store!Publish
    <3>2. QED
      BY <3>1 DEF Store!Next
  <2>2. ASSUME NEW t \in Tasks, Move(t) PROVE Store!Next
    <3>l. PICK l \in Leagues : l = league[t]
      BY DEF TypeOK
    <3>1. published' = published
      BY <2>2, MoveIsLocal
    <3>2. pc[t] = "commit" /\ table' = Committed(t)
      BY <2>2, <2>a, <3>1, MoveShows
    <3>3. Writes(t) /\ Fresh(t)
      BY DEF IngestInv, WritesAreTheReport, FetchedIsNewest
    <3>4. \A m \in Leagues : m # l => Shown(m)' = Shown(m)
      BY <3>l, <3>2, <3>3, CommitReplaces DEF Shown
    <3>5. table'[l] = RowsFor(Report[l][got[t]], got[t], t)
      <4>1. CASE table'[l] = table[l]
        <5>1. \A m \in Leagues : Shown(m)' = Shown(m)
          BY <3>4, <4>1 DEF Shown
        <5>2. snap' = snap
          BY <5>1
        <5>3. QED
          BY <3>1, <5>2
      <4>2. QED
        BY <3>l, <3>2, <3>3, <4>1, CommitReplaces
    <3>6. Shown(l)' = AbstractRows(l, got[t])
      BY <3>5, ShownRows
    <3>7. snap' = [snap EXCEPT ![l] = AbstractRows(l, got[t])]
      BY <3>4, <3>6
    <3>8. got[t] \in 0..published[l]
      BY <3>l, <3>2, <3>3, IngestAssumption DEF Fresh, TypeOK
    <3>9. \A r \in snap[l] : r.ver <= got[t]
      BY <3>l, <3>2, <3>3 DEF Fresh, Shown
    <3>10. Store!Refresh(l)
      BY <3>1, <3>7, <3>8, <3>9 DEF Store!Refresh
    <3>11. QED
      BY <3>10 DEF Store!Next
  <2>3. CASE ~(\E t \in Tasks : Move(t)) /\ ~(\E l \in Leagues : Publish(l))
    BY <2>3, <2>a DEF Next, Move, Crash, vars
  <2>4. QED
    BY <2>1, <2>2, <2>3
<1>3. QED
  BY <1>1, <1>2, TypeCorrect, IngestInvHolds, PTL DEF Spec, StoreSpec, Store!Spec
-----------------------------------------------------------------------------
(* Without panics every step leaves a row lock with the task that took it, or
   takes it away together with that task's transaction. *)
LEMMA OwnersStep ==
  ASSUME ~Panics, TypeOK, IngestInv, NoOrphanedLock, [Next]_vars
  PROVE  NoOrphanedLock'
<1> USE PoolAssumption, IngestAssumption DEF NoOrphanedLock
<1>t. /\ lock \in [Keys -> Conns \cup {NoConn}]
      /\ conn \in [Tasks -> Conns \cup {NoConn}]
      /\ pc \in [Tasks -> {"idle", "begin"} \cup InTx]
  BY DEF TypeOK, TxTypeOK
<1>1. CASE UNCHANGED txVars
  BY <1>1 DEF txVars
<1>2. ASSUME NEW t \in Tasks, Begin(t) PROVE NoOrphanedLock'
  <2>1. conn[t] = NoConn
    BY <1>2 DEF Begin, Goto, IngestInv, LocksHeld, InTx
  <2>2. lock' = lock /\ \A u \in Tasks : u # t => conn'[u] = conn[u]
    BY <1>2, <1>t DEF Begin, TxBegin
  <2>3. QED
    BY <2>1, <2>2
<1>3. ASSUME NEW t \in Tasks, NEW k \in Keys, pc[t] \in InTx, TxLock(t, k)
      PROVE  NoOrphanedLock'
  <2>1. conn' = conn /\ lock' = [lock EXCEPT ![k] = conn[t]]
    BY <1>3 DEF TxLock
  <2>2. \A j \in Keys : lock'[j] = IF j = k THEN conn[t] ELSE lock[j]
    BY <2>1, <1>t
  <2>3. QED
    BY <2>1, <2>2
<1>4. ASSUME NEW t \in Tasks, TxEnd(t) PROVE NoOrphanedLock'
  <2>1. \A u \in Tasks : u # t => conn'[u] = conn[u]
    BY <1>4, <1>t DEF TxEnd
  <2>2. \A k \in Keys : lock'[k] # NoConn => lock'[k] = lock[k] /\ lock[k] # conn[t]
    BY <1>4 DEF TxEnd, Released
  <2>3. QED
    BY <2>1, <2>2
<1>5. ASSUME NEW p \in Procs, Crash(p) PROVE NoOrphanedLock'
  <2>1. \A u \in Tasks : TaskProc[u] # p => conn'[u] = conn[u]
    BY <1>5 DEF Crash, TxCrash
  <2>2. \A k \in Keys : lock'[k] # NoConn =>
          lock'[k] = lock[k] /\ lock[k] \in Conns /\ ConnProc[lock[k]] # p
    BY <1>5, <1>t DEF Crash, TxCrash, Released
  <2>3. \A u \in Tasks : conn[u] # NoConn => ConnProc[conn[u]] = TaskProc[u]
    BY DEF IngestInv, TxInv
  <2>4. QED
    BY <2>1, <2>2, <2>3
<1>6. ASSUME NEW t \in Tasks, ResolveSport(t) \/ ResolveLeague(t)
      PROVE  NoOrphanedLock'
  <2>1. pc[t] \in InTx /\ SportOf[league[t]] \in Keys /\ league[t] \in Keys
    BY <1>6 DEF ResolveSport, ResolveLeague, Goto, InTx, TypeOK
  <2>2. QED
    BY <1>3, <1>6, <2>1 DEF ResolveSport, ResolveLeague
<1>7. ASSUME NEW t \in Tasks, Commit(t) \/ CommitFails(t) \/ Rollback(t)
      PROVE  NoOrphanedLock'
  BY <1>4, <1>7 DEF Commit, CommitFails, Rollback
<1>8. ASSUME NEW t \in Tasks,
             Fetch(t) \/ Clear(t) \/ Insert(t) \/ LoopEnds(t) \/ BeginFails(t) \/ Fail(t)
      PROVE  NoOrphanedLock'
  BY <1>1, <1>8 DEF Fetch, Clear, Insert, LoopEnds, BeginFails, Fail
<1>9. ASSUME NEW t \in Tasks PROVE ~Panic(t)
  BY DEF Panic
<1>10. CASE \/ UNCHANGED vars
            \/ \E l \in Leagues : Publish(l)
            \/ \E t \in Tasks, l \in Leagues : IngestInjuries(t, l)
  BY <1>1, <1>10 DEF vars, txVars, Publish, IngestInjuries
<1>11. QED
  BY <1>2, <1>5, <1>6, <1>7, <1>8, <1>9, <1>10 DEF Next, Proceed, Fault

(* As long as no closure panics, whoever waits for a row waits for a call that
   is still running, in any process, whatever fails and whatever dies. *)
THEOREM LocksHaveOwners ==
  ASSUME ~Panics
  PROVE  Spec => []NoOrphanedLock
<1>1. Init => NoOrphanedLock
  BY DEF Init, TxInit, NoOrphanedLock
<1>2. TypeOK /\ IngestInv /\ NoOrphanedLock /\ [Next]_vars => NoOrphanedLock'
  BY OwnersStep
<1>3. QED
  BY <1>1, <1>2, TypeCorrect, IngestInvHolds, PTL DEF Spec
-----------------------------------------------------------------------------
(* Created counts the rows the call's transaction has inserted: what the loop of
   IngestInjuries has counted so far. *)
CreatedIsInserted(t) ==
  pc[t] \in {"begin", "sport", "league", "fetch", "clear", "insert", "commit"} =>
    IsFiniteSet(ins[t]) /\ created[t] = Cardinality(ins[t])

(* A call that does not move counts on as it did. *)
LEMMA CountSame ==
  ASSUME NEW u \in Tasks, CreatedIsInserted(u),
         pc'[u] = pc[u], ins'[u] = ins[u], created'[u] = created[u]
  PROVE  CreatedIsInserted(u)'
  BY DEF CreatedIsInserted

(* One more entry: a named one is a new row and is counted, as no row of this
   call is for an entry it has still to visit. *)
LEMMA CountInsert ==
  ASSUME TypeOK, NEW t \in Tasks, Insert(t), Writes(t), CreatedIsInserted(t)
  PROVE  CreatedIsInserted(t)'
<1>1. PICK i \in todo[t] :
        IF i \in Nameless
        THEN UNCHANGED <<ins, created>>
        ELSE /\ ins' = [ins EXCEPT ![t] = @ \cup RowsFor({i}, got[t], t)]
             /\ created' = [created EXCEPT ![t] = @ + 1]
  BY DEF Insert
<1>2. pc[t] = "insert" /\ pc'[t] = "insert"
  BY DEF Insert, Goto, TypeOK
<1>3. IsFiniteSet(ins[t]) /\ created[t] = Cardinality(ins[t]) /\ created[t] \in Nat
  BY <1>2 DEF CreatedIsInserted, TypeOK
<1>4. CASE i \in Nameless
  BY <1>1, <1>3, <1>4 DEF CreatedIsInserted
<1>5. CASE i \notin Nameless
  <2> DEFINE r == [item |-> i, ver |-> got[t], by |-> t]
  <2>1. RowsFor({i}, got[t], t) = {r}
    BY <1>5 DEF RowsFor
  <2>2. r \notin ins[t]
    <3>1. ins[t] = RowsFor(Report[league[t]][got[t]] \ todo[t], got[t], t)
      BY <1>2 DEF Writes
    <3>2. \A s \in ins[t] : s.item \notin todo[t]
      BY <3>1 DEF RowsFor
    <3>3. QED
      BY <1>1, <3>2
  <2> HIDE DEF r
  <2>3. ins'[t] = ins[t] \cup {r} /\ created'[t] = created[t] + 1
    BY <1>1, <1>5, <2>1 DEF TypeOK
  <2>4. /\ IsFiniteSet(ins[t] \cup {r})
        /\ Cardinality(ins[t] \cup {r}) = Cardinality(ins[t]) + 1
    BY <1>3, <2>2, FS_AddElement
  <2>5. QED
    BY <1>3, <2>3, <2>4 DEF CreatedIsInserted
<1>6. QED
  BY <1>4, <1>5

(* Every step of anybody keeps a call's count. *)
LEMMA CountStep ==
  ASSUME TypeOK, IngestInv, [Next]_vars, NEW u \in Tasks, CreatedIsInserted(u)
  PROVE  CreatedIsInserted(u)'
<1>w. Writes(u)
  BY DEF IngestInv, WritesAreTheReport
<1>o. pc'[u] \in {"idle", "rollback"} => CreatedIsInserted(u)'
  BY DEF CreatedIsInserted
<1>1. ASSUME NEW l \in Leagues, Publish(l) PROVE CreatedIsInserted(u)'
  BY <1>1, CountSame DEF Publish, callVars
<1>2. ASSUME NEW t \in Tasks, t # u, Move(t) PROVE CreatedIsInserted(u)'
  <2>1. pc'[u] = pc[u] /\ ins'[u] = ins[u]
    BY <1>2, MoveIsLocal DEF Same
  <2>2. created'[u] = created[u]
    BY <1>2 DEF Move, Proceed, Fault, IngestInjuries, Begin, ResolveSport, ResolveLeague,
       Fetch, Clear, Insert, LoopEnds, Commit, CommitFails, Rollback, BeginFails, Fail,
       Panic, Return, callVars, TypeOK
  <2>3. QED
    BY <2>1, <2>2, CountSame
<1>3. ASSUME NEW l \in Leagues, IngestInjuries(u, l) PROVE CreatedIsInserted(u)'
  <2>1. pc[u] = "idle" /\ ins' = ins /\ created'[u] = 0
    BY <1>3 DEF IngestInjuries, Goto, TypeOK
  <2>2. ins'[u] = {}
    BY <1>w, <2>1 DEF Writes
  <2>3. QED
    BY <2>1, <2>2, FS_EmptySet DEF CreatedIsInserted
<1>4. ASSUME Begin(u) \/ ResolveSport(u) \/ ResolveLeague(u) \/ Fetch(u) \/ Clear(u)
               \/ LoopEnds(u)
      PROVE  CreatedIsInserted(u)'
  <2>1. /\ pc[u] \in {"begin", "sport", "league", "fetch", "clear", "insert"}
        /\ ins' = ins /\ created' = created
    BY <1>4 DEF Begin, ResolveSport, ResolveLeague, Fetch, Clear, LoopEnds, Goto, callVars
  <2>2. QED
    BY <2>1 DEF CreatedIsInserted
<1>5. ASSUME Insert(u) PROVE CreatedIsInserted(u)'
  BY <1>5, <1>w, CountInsert
<1>6. ASSUME Commit(u) \/ Rollback(u) \/ Fault(u) PROVE CreatedIsInserted(u)'
  <2>1. pc'[u] \in {"idle", "rollback"}
    BY <1>6 DEF Commit, Rollback, Fault, BeginFails, Fail, CommitFails, Panic, Return,
       TypeOK
  <2>2. QED
    BY <1>o, <2>1
<1>7. ASSUME NEW p \in Procs, Crash(p) PROVE CreatedIsInserted(u)'
  <2>1. CASE TaskProc[u] = p
    <3>1. pc'[u] = "idle"
      BY <1>7, <2>1 DEF Crash
    <3>2. QED
      BY <1>o, <3>1
  <2>2. CASE TaskProc[u] # p
    BY <1>7, <2>2, CountSame DEF Crash
  <2>3. QED
    BY <2>1, <2>2
<1>8. CASE UNCHANGED vars
  BY <1>8, CountSame DEF vars
<1>9. QED
  BY <1>1, <1>2, <1>3, <1>4, <1>5, <1>6, <1>7, <1>8 DEF Next, Move, Proceed

(* Only Commit ends a call with success. *)
LEMMA OnlyCommitSucceeds ==
  ASSUME TypeOK, [Next]_vars, NEW u \in Tasks,
         pc[u] = "commit", outcome'[u] = "ok", pc'[u] = "idle"
  PROVE  Commit(u)
<1>1. ASSUME NEW t \in Tasks, t # u, Move(t) PROVE FALSE
  BY <1>1, MoveIsLocal DEF Same
<1>2. ASSUME CommitFails(u) \/ Rollback(u) \/ BeginFails(u) \/ Panic(u) PROVE FALSE
  BY <1>2 DEF CommitFails, Rollback, BeginFails, Panic, Return, TypeOK
<1>3. ASSUME Begin(u) \/ ResolveSport(u) \/ ResolveLeague(u) \/ Fetch(u) \/ Clear(u)
               \/ Insert(u) \/ LoopEnds(u) \/ Fail(u)
      PROVE  FALSE
  BY <1>3 DEF Begin, ResolveSport, ResolveLeague, Fetch, Clear, Insert, LoopEnds, Fail,
     Goto, TypeOK
<1>4. ASSUME NEW l \in Leagues, IngestInjuries(u, l) \/ Publish(l) PROVE FALSE
  BY <1>4 DEF IngestInjuries, Publish, Goto
<1>5. ASSUME NEW p \in Procs, Crash(p) PROVE FALSE
  <2>1. TaskProc[u] = p
    BY <1>5 DEF Crash
  <2>2. outcome'[u] = "none"
    BY <1>5, <2>1 DEF Crash
  <2>3. QED
    BY <2>2
<1>6. ~UNCHANGED vars
  BY DEF vars
<1>7. QED
  BY <1>1, <1>2, <1>3, <1>4, <1>5, <1>6 DEF Next, Move, Proceed, Fault

(* A successful call returns as Created the number of its league's rows, or 0 for
   an empty report, after which the rows are as before (IngestInjuries). *)
THEOREM CreatedCounts == Spec => CreatedIsStored
<1> DEFINE Count == \A t \in Tasks : CreatedIsInserted(t)
           Right(t) ==
             pc[t] = "commit" /\ outcome'[t] = "ok" /\ pc'[t] = "idle" =>
               \/ Report[league[t]][got[t]] = {} /\ created'[t] = 0 /\ table' = table
               \/ created'[t] = Cardinality(table'[league[t]])
<1>1. Init => Count
  BY DEF Init, CreatedIsInserted
<1>2. TypeOK /\ IngestInv /\ Count /\ [Next]_vars => Count'
  BY CountStep
<1>3. ASSUME TypeOK, IngestInv, Count, [Next]_vars, NEW t \in Tasks PROVE Right(t)
  <2> SUFFICES ASSUME pc[t] = "commit", outcome'[t] = "ok", pc'[t] = "idle"
               PROVE  \/ /\ Report[league[t]][got[t]] = {}
                         /\ created'[t] = 0 /\ table' = table
                      \/ created'[t] = Cardinality(table'[league[t]])
    OBVIOUS
  <2>1. Commit(t)
    BY <1>3, OnlyCommitSucceeds
  <2>2. created'[t] = created[t] /\ table' = Committed(t)
    BY <1>3, <2>1 DEF Commit, Return, TypeOK
  <2>3. IsFiniteSet(ins[t]) /\ created[t] = Cardinality(ins[t])
    BY <1>3 DEF CreatedIsInserted
  <2>4. league[t] \in Leagues /\ table \in [Leagues -> SUBSET Row]
    BY <1>3 DEF TypeOK
  <2>5. table'[league[t]] = (table[league[t]] \ del[t]) \cup ins[t]
    BY <2>2, <2>4 DEF Committed
  <2>6. Writes(t)
    BY <1>3 DEF IngestInv, WritesAreTheReport
  <2>7. CASE Report[league[t]][got[t]] = {} /\ del[t] = {} /\ ins[t] = {}
    <3>1. table' = table
      BY <2>2, <2>4, <2>7 DEF Committed
    <3>2. created[t] = 0
      BY <2>3, <2>7, FS_EmptySet
    <3>3. QED
      BY <2>2, <2>7, <3>1, <3>2
  <2>8. CASE del[t] = table[league[t]]
    <3>1. table'[league[t]] = ins[t]
      BY <2>5, <2>8
    <3>2. QED
      BY <2>2, <2>3, <3>1
  <2>9. QED
    BY <2>6, <2>7, <2>8 DEF Writes
<1>4. TypeOK /\ IngestInv /\ Count /\ [Next]_vars => [\A t \in Tasks : Right(t)]_vars
  BY <1>3
<1>5. CreatedIsStored <=> [][\A t \in Tasks : Right(t)]_vars
  BY DEF CreatedIsStored
<1>6. QED
  BY <1>1, <1>2, <1>4, <1>5, TypeCorrect, IngestInvHolds, PTL DEF Spec
=============================================================================
