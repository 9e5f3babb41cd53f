----------------------- MODULE ScoreboardIngestProofs ------------------------
(***************************************************************************)
(* Proofs about ScoreboardIngest, for every set of tasks, boards, games,   *)
(* venues and teams and every content of the scoreboards.                  *)
(***************************************************************************)
EXTENDS ScoreboardIngest, WriteTxProofs, FiniteSetTheorems

IInv == TypeOK /\ GamesInv

(* Outside a call a task still names some board. *)
LEMMA NoCallType == NoCall \in Locals
<1>1. (CHOOSE b \in Boards : TRUE) \in Boards
  BY ScoreboardAssumption
<1>2. 0 \in Versions
  BY ScoreboardAssumption DEF Versions
<1>3. QED
  BY <1>1, <1>2 DEF NoCall, NewCall, Locals

(* Empty tables are tables. *)
LEMMA NothingType == Nothing \in Tables
  BY DEF Nothing, Tables

(* A scoreboard is a sequence of entries, and an entry's teams are a sequence. *)
LEMMA EntryFields ==
  ASSUME NEW E \in Entry
  PROVE  /\ E.id \in Events \cup {NoId}
         /\ E.venue \in Venues \cup {NoId}
         /\ Len(E.teams) \in Nat
         /\ DOMAIN E.teams = 1..Len(E.teams)
         /\ \A k \in 1..Len(E.teams) : E.teams[k] \in Teams \cup {NoId}
<1>1. /\ E.id \in Events \cup {NoId}
      /\ E.venue \in Venues \cup {NoId}
      /\ E.teams \in Seq(Teams \cup {NoId})
  BY DEF Entry
<1>2. QED
  BY <1>1

(* A scoreboard is a finite sequence of entries. *)
LEMMA EntryType ==
  ASSUME NEW b \in Boards, NEW v \in Versions
  PROVE  /\ Len(Scoreboard[b][v]) \in Nat
         /\ DOMAIN Scoreboard[b][v] = 1..Len(Scoreboard[b][v])
         /\ \A i \in 1..Len(Scoreboard[b][v]) : Scoreboard[b][v][i] \in Entry
<1>1. Scoreboard[b][v] \in Seq(Entry)
  BY ScoreboardAssumption
<1>2. QED
  BY <1>1

(* The fields of a call's locals. *)
LEMMA CallType ==
  ASSUME TypeOK, NEW t \in Tasks
  PROVE  /\ call[t].board \in Boards /\ call[t].got \in Versions
         /\ call[t].pos \in Nat \ {0} /\ call[t].idx \in Nat \ {0}
         /\ League(t) \in Leagues /\ SportOf[League(t)] \in Sports
         /\ From(t) \in Source /\ From(t) # Absent
<1>1. /\ call[t].board \in Boards /\ call[t].got \in Versions
      /\ call[t].pos \in Nat \ {0} /\ call[t].idx \in Nat \ {0}
  BY DEF TypeOK, Locals
<1>2. From(t) \in Source
  BY <1>1 DEF From, Source
<1>3. QED
  BY <1>1, <1>2, ScoreboardAssumption, AbsentAssumption DEF League

(* The entry a call is at. *)
LEMMA CurType ==
  ASSUME TypeOK, NEW t \in Tasks, call[t].pos <= Len(Entries(t))
  PROVE  /\ call[t].pos \in DOMAIN Entries(t)
         /\ Cur(t).id \in Events \cup {NoId}
         /\ Cur(t).venue \in Venues \cup {NoId}
         /\ Len(Cur(t).teams) \in Nat
         /\ DOMAIN Cur(t).teams = 1..Len(Cur(t).teams)
         /\ \A k \in 1..Len(Cur(t).teams) : Cur(t).teams[k] \in Teams \cup {NoId}
<1>1. /\ call[t].board \in Boards /\ call[t].got \in Versions
      /\ call[t].pos \in Nat \ {0}
  BY CallType
<1>2. /\ Len(Entries(t)) \in Nat /\ DOMAIN Entries(t) = 1..Len(Entries(t))
      /\ call[t].pos \in 1..Len(Entries(t))
  BY <1>1, EntryType DEF Entries
<1>3. Cur(t) \in Entry
  BY <1>1, <1>2, EntryType DEF Cur, Entries
<1>4. QED
  BY <1>2, <1>3, EntryFields

(* The game and the competitors a call is at, once it is past the venue. *)
LEMMA InGame ==
  ASSUME IInv, NEW t \in Tasks, pc[t] \in {"event", "competitors"}
  PROVE  /\ call[t].pos \in Nat /\ call[t].pos <= Len(Entries(t))
         /\ Cur(t).id \in Events
<1>1. call[t].pos \in DOMAIN Entries(t) /\ Cur(t).id \in Events
  BY DEF IInv, GamesInv, Writes
<1>2. DOMAIN Entries(t) = 1..Len(Entries(t))
  BY CallType, EntryType DEF IInv, Entries
<1>3. QED
  BY <1>1, <1>2

(* Rows a statement of t locks are rows. *)
LEMMA LockedKeys ==
  ASSUME IInv, NEW t \in Tasks
  PROVE  /\ SportOf[League(t)] \in Keys /\ League(t) \in Keys
         /\ pc[t] = "venue" /\ call[t].pos <= Len(Entries(t)) /\ Cur(t).venue # NoId =>
              Cur(t).venue \in Keys
         /\ pc[t] = "event" => Cur(t).id \in Keys
         /\ pc[t] = "competitors" /\ call[t].idx <= Len(Cur(t).teams)
              /\ Cur(t).teams[call[t].idx] # NoId =>
              Cur(t).teams[call[t].idx] \in Keys
<1> USE ScoreboardAssumption
<1>1. SportOf[League(t)] \in Keys /\ League(t) \in Keys
  BY CallType DEF IInv
<1>2. ASSUME call[t].pos <= Len(Entries(t)), Cur(t).venue # NoId
      PROVE  Cur(t).venue \in Keys
  BY <1>2, CurType DEF IInv
<1>3. ASSUME pc[t] = "event" PROVE Cur(t).id \in Keys
  BY <1>3, InGame
<1>4. ASSUME pc[t] = "competitors", call[t].idx <= Len(Cur(t).teams),
             Cur(t).teams[call[t].idx] # NoId
      PROVE  Cur(t).teams[call[t].idx] \in Keys
  <2>1. call[t].pos <= Len(Entries(t))
    BY <1>4, InGame
  <2>2. Len(Cur(t).teams) \in Nat /\ call[t].idx \in Nat \ {0}
    BY <2>1, CurType, CallType DEF IInv
  <2>3. call[t].idx \in 1..Len(Cur(t).teams)
    BY <1>4, <2>2
  <2>4. QED
    BY <1>4, <2>1, <2>3, CurType DEF IInv
<1>5. QED
  BY <1>1, <1>2, <1>3, <1>4

(* A step of the call of t that may have locked a row. *)
LEMMA LockStepIs ==
  ASSUME IInv, NEW t \in Tasks, LockStep(t)
  PROVE  /\ pc[t] \in Cancellable \ {"fetch"}
         /\ UNCHANGED txVars \/ \E k \in Keys : TxLock(t, k)
<1>1. CASE ResolveSport(t)
  BY <1>1, LockedKeys DEF ResolveSport, Goto, Cancellable
<1>2. CASE ResolveLeague(t)
  BY <1>2, LockedKeys DEF ResolveLeague, Goto, Cancellable
<1>3. CASE UpsertVenue(t)
  BY <1>3, LockedKeys DEF UpsertVenue, Goto, Cancellable, Looping
<1>4. CASE UpsertEvent(t)
  BY <1>4, LockedKeys DEF UpsertEvent, Goto, Cancellable, Looping
<1>5. CASE CreateCompetitor(t)
  BY <1>5, LockedKeys DEF CreateCompetitor, Cancellable, Looping
<1>6. QED
  BY <1>1, <1>2, <1>3, <1>4, <1>5 DEF LockStep

(* Every step of the ingest is a step of WriteTx on pool and locks. *)
LEMMA TxStep ==
  ASSUME IInv, [Next]_vars
  PROVE  TxTypeOK' /\ TxInv'
<1> USE PoolAssumption
<1> DEFINE Kept == TxTypeOK' /\ TxInv'
<1>1. TxTypeOK /\ TxInv /\ LocksHeld
  BY DEF IInv, TypeOK, GamesInv
<1>2. ASSUME UNCHANGED txVars PROVE Kept
  BY <1>1, <1>2, TxUnchangedKeeps
<1>3. ASSUME NEW t \in Tasks, Begin(t) PROVE Kept
  <2>1. conn[t] = NoConn
    BY <1>1, <1>3 DEF Begin, Goto, LocksHeld, InTx, Looping
  <2>2. QED
    BY <1>1, <1>3, <2>1, TxBeginKeeps DEF Begin
<1>4. ASSUME NEW t \in Tasks, LockStep(t) PROVE Kept
  <2>1. conn[t] # NoConn
    BY <1>1, <1>4, LockStepIs DEF LocksHeld, InTx, Cancellable, Looping
  <2>2. ASSUME NEW k \in Keys, TxLock(t, k) PROVE Kept
    BY <1>1, <2>1, <2>2, TxLockKeeps
  <2>3. QED
    BY <1>2, <1>4, <2>2, LockStepIs
<1>5. ASSUME NEW t \in Tasks, Commit(t) \/ CommitFails(t) \/ Rollback(t) PROVE Kept
  <2>1. pc[t] \in InTx /\ TxEnd(t)
    BY <1>5 DEF Commit, CommitFails, Rollback, InTx
  <2>2. conn[t] # NoConn
    BY <1>1, <2>1 DEF LocksHeld
  <2>3. QED
    BY <1>1, <2>1, <2>2, TxEndKeeps
<1>6. ASSUME NEW t \in Tasks, Panic(t) PROVE Kept
  BY <1>1, <1>6, TxAbandonKeeps DEF Panic
<1>7. ASSUME NEW p \in Procs, Crash(p) PROVE Kept
  BY <1>1, <1>7, TxCrashKeeps DEF Crash
<1>8. ASSUME NEW t \in Tasks,
             \/ Fetch(t) \/ SkipEntry(t) \/ EventEnds(t) \/ LoopEnds(t)
             \/ DeadlockAbort(t) \/ BeginFails(t) \/ Fail(t)
      PROVE  Kept
  BY <1>2, <1>8 DEF Fetch, SkipEntry, EventEnds, LoopEnds, DeadlockAbort,
                    BeginFails, Fail
<1>9. ASSUME NEW t \in Tasks, NEW b \in Boards, IngestScoreboard(t, b) PROVE Kept
  BY <1>2, <1>9 DEF IngestScoreboard
<1>10. ASSUME NEW l \in Leagues, Publish(l) PROVE Kept
  BY <1>2, <1>10 DEF Publish
<1>11. CASE UNCHANGED vars
  BY <1>2, <1>11 DEF vars, txVars
<1>12. QED
  BY <1>3, <1>4, <1>5, <1>6, <1>7, <1>8, <1>9, <1>10, <1>11 DEF Next, Proceed, Fault
-----------------------------------------------------------------------------
(* Rows written to a transaction's tables keep them tables. *)
LEMMA VenueWritten ==
  ASSUME NEW W \in Tables, NEW x \in Venues, NEW f \in Source
  PROVE  LET N == [W EXCEPT !.venues[x] = f]
         IN  /\ N \in Tables
             /\ N.events = W.events /\ N.competitors = W.competitors
             /\ N.teams = W.teams
             /\ N.venues[x] = f
             /\ \A y \in Venues : y # x => N.venues[y] = W.venues[y]
  BY DEF Tables

(* Writing a game and removing its competitors changes that game only. *)
LEMMA EventWritten ==
  ASSUME NEW W \in Tables, NEW e \in Events, NEW f \in Source
  PROVE  LET N == [W EXCEPT !.events[e] = f, !.competitors[e] = {}]
         IN  /\ N \in Tables
             /\ N.venues = W.venues /\ N.teams = W.teams
             /\ N.events[e] = f /\ N.competitors[e] = {}
             /\ \A d \in Events : d # e =>
                  N.events[d] = W.events[d] /\ N.competitors[d] = W.competitors[d]
  BY DEF Tables

(* Inserting a competitor changes its game and the teams only. *)
LEMMA CompetitorWritten ==
  ASSUME NEW W \in Tables, NEW e \in Events, NEW f \in Source, NEW x \in Teams
  PROVE  LET N == [W EXCEPT !.teams = @ \cup {x},
                            !.competitors[e] = @ \cup {[team |-> x, from |-> f]}]
         IN  /\ N \in Tables
             /\ N.venues = W.venues /\ N.events = W.events
             /\ N.teams = W.teams \cup {x}
             /\ N.competitors[e] = W.competitors[e] \cup {[team |-> x, from |-> f]}
             /\ \A d \in Events : d # e => N.competitors[d] = W.competitors[d]
<1> DEFINE r == [team |-> x, from |-> f]
           N == [W EXCEPT !.teams = @ \cup {x}, !.competitors[e] = @ \cup {r}]
<1>1. r \in [team : Teams, from : Source]
  OBVIOUS
<1> HIDE DEF r
<1>2. /\ N.venues = W.venues /\ N.events = W.events
      /\ N.teams = W.teams \cup {x}
      /\ N.competitors[e] = W.competitors[e] \cup {r}
      /\ \A d \in Events : d # e => N.competitors[d] = W.competitors[d]
  BY DEF Tables
<1>3. N \in Tables
  BY <1>1 DEF Tables
<1>4. QED
  BY <1>2, <1>3 DEF r

(* What a committed transaction leaves are tables, and it removes no row. *)
LEMMA CommittedType ==
  ASSUME TypeOK, NEW t \in Tasks
  PROVE  /\ Committed(t) \in Tables
         /\ \A x \in Venues : Committed(t).venues[x] =
              IF write[t].venues[x] # Absent THEN write[t].venues[x] ELSE store.venues[x]
         /\ \A e \in Events : Committed(t).events[e] =
              IF write[t].events[e] # Absent THEN write[t].events[e] ELSE store.events[e]
         /\ \A e \in Events : Committed(t).competitors[e] =
              IF write[t].events[e] # Absent THEN write[t].competitors[e]
                                             ELSE store.competitors[e]
         /\ Committed(t).teams = store.teams \cup write[t].teams
  BY DEF TypeOK, Tables, Committed, Sees

(* What the statements that write do to the tables of their transaction. *)
LEMMA VenueStep ==
  ASSUME IInv, NEW t \in Tasks, UpsertVenue(t)
  PROVE  \/ write' = write
         \/ LET x == Cur(t).venue
            IN  /\ x \in Venues
                /\ write' = [write EXCEPT ![t] = [write[t] EXCEPT !.venues[x] = From(t)]]
  BY CurType DEF UpsertVenue, IInv

(* What UpsertEvent writes, as one new record of tables. *)
LEMMA EventStep ==
  ASSUME IInv, NEW t \in Tasks, UpsertEvent(t)
  PROVE  LET e == Cur(t).id
         IN  /\ e \in Events
             /\ write' = [write EXCEPT ![t] =
                  [write[t] EXCEPT !.events[e] = From(t), !.competitors[e] = {}]]
<1>1. pc[t] = "event"
  BY DEF UpsertEvent, Goto
<1>2. Cur(t).id \in Events
  BY <1>1, InGame
<1>3. write \in [Tasks -> Tables]
  BY DEF IInv, TypeOK
<1>4. QED
  BY <1>2, <1>3 DEF UpsertEvent, Tables

(* What CreateCompetitor writes, in each of its outcomes. *)
LEMMA CompetitorStep ==
  ASSUME IInv, NEW t \in Tasks, CreateCompetitor(t)
  PROVE  LET e == Cur(t).id
             x == Cur(t).teams[call[t].idx]
         IN  /\ e \in Events
             /\ call[t].idx \in 1..Len(Cur(t).teams)
             /\ \/ write' = write /\ (x = NoId \/ pc'[t] = "rollback")
                \/ /\ x \in Teams /\ pc' = pc
                   /\ write' = [write EXCEPT ![t] = [write[t] EXCEPT
                        !.teams = @ \cup {x},
                        !.competitors[e] = @ \cup {[team |-> x, from |-> From(t)]}]]
<1> DEFINE e == Cur(t).id
           x == Cur(t).teams[call[t].idx]
           r == [team |-> x, from |-> From(t)]
<1>1. pc[t] = "competitors" /\ call[t].idx <= Len(Cur(t).teams)
  BY DEF CreateCompetitor
<1>2. e \in Events /\ call[t].pos <= Len(Entries(t))
  BY <1>1, InGame
<1>3. Len(Cur(t).teams) \in Nat /\ call[t].idx \in Nat \ {0}
  BY <1>2, CurType, CallType DEF IInv
<1>4. call[t].idx \in 1..Len(Cur(t).teams)
  BY <1>1, <1>3
<1>5. x \in Teams \cup {NoId}
  BY <1>2, <1>4, CurType DEF IInv
<1>6. write \in [Tasks -> Tables]
  BY DEF IInv, TypeOK
<1> HIDE DEF e, x, r
<1>7. CASE x = NoId
  BY <1>2, <1>4, <1>7 DEF CreateCompetitor, e, x
<1>8. CASE x # NoId /\ \E s \in write[t].competitors[e] : s.team = x
  <2>1. write' = write /\ pc' = [pc EXCEPT ![t] = "rollback"]
    BY <1>8 DEF CreateCompetitor, e, x
  <2>2. pc'[t] = "rollback"
    BY <2>1 DEF IInv, TypeOK
  <2>3. QED
    BY <1>2, <1>4, <2>1, <2>2 DEF e, x
<1>9. CASE x # NoId /\ ~ \E s \in write[t].competitors[e] : s.team = x
  <2>1. /\ pc' = pc
        /\ write' = [write EXCEPT ![t].teams = @ \cup {x}, ![t].competitors[e] = @ \cup {r}]
    BY <1>9 DEF CreateCompetitor, e, x, r
  <2>2. write' = [write EXCEPT ![t] = [write[t] EXCEPT
                    !.teams = @ \cup {x}, !.competitors[e] = @ \cup {r}]]
    BY <1>2, <1>6, <2>1 DEF Tables
  <2>3. x \in Teams
    BY <1>5, <1>9
  <2>4. QED
    BY <1>2, <1>4, <2>1, <2>2, <2>3 DEF e, x, r
<1>10. QED
  BY <1>7, <1>8, <1>9

(* Counting on keeps the locals of a call what they are. *)
LEMMA LocalsUpdated ==
  ASSUME NEW c \in Locals, NEW p \in Nat \ {0}, NEW b \in BOOLEAN,
         NEW n \in Nat, NEW m \in Nat
  PROVE  /\ [c EXCEPT !.pos = p, !.errors = n] \in Locals
         /\ [c EXCEPT !.idx = p] \in Locals
         /\ [c EXCEPT !.idx = p, !.inserted = b] \in Locals
         /\ [c EXCEPT !.pos = p, !.created = n, !.updated = m] \in Locals
  BY DEF Locals

(* The counters of a call count up. *)
LEMMA Counters ==
  ASSUME NEW c \in Locals
  PROVE  /\ c.pos + 1 \in Nat \ {0} /\ c.idx + 1 \in Nat \ {0}
         /\ c.created \in Nat /\ c.updated \in Nat
         /\ c.created + 1 \in Nat /\ c.updated + 1 \in Nat /\ c.errors + 1 \in Nat
         /\ c.inserted \in BOOLEAN
  BY DEF Locals

(* Every variable keeps its type, whatever fails and whoever panics. *)
LEMMA TypeStep ==
  ASSUME IInv, [Next]_vars
  PROVE  TypeOK'
<1> USE NoCallType, NothingType
<1>t. TxTypeOK'
  BY TxStep
<1>0. TypeOK
  BY DEF IInv
<1>s. SUFFICES /\ pc' \in [Tasks -> {"idle", "begin"} \cup InTx]
               /\ call' \in [Tasks -> Locals]
               /\ write' \in [Tasks -> Tables]
               /\ outcome' \in [Tasks -> {"none", "ok", "error", "panic"}]
               /\ published' \in [Leagues -> Versions]
               /\ store' \in Tables
  BY <1>t DEF TypeOK
<1> USE <1>0 DEF TypeOK, Goto, Return, InTx
<1>1. ASSUME NEW l \in Leagues, Publish(l) PROVE TypeOK'
  <2>1. published[l] \in Nat /\ MaxVersion \in Nat /\ published[l] < MaxVersion
    BY <1>1, ScoreboardAssumption DEF Publish, Versions
  <2>2. published[l] + 1 \in Versions
    BY <2>1 DEF Versions
  <2>3. QED
    BY <1>t, <1>1, <2>2 DEF Publish
<1>2. ASSUME NEW t \in Tasks, NEW b \in Boards, IngestScoreboard(t, b) PROVE TypeOK'
  <2>1. NewCall(b) \in Locals
    <3>1. 0 \in Versions
      BY ScoreboardAssumption DEF Versions
    <3>2. QED
      BY <3>1 DEF NewCall, Locals
  <2>2. QED
    BY <1>t, <1>2, <2>1 DEF IngestScoreboard
<1>3. ASSUME NEW t \in Tasks, Begin(t) PROVE TypeOK'
  BY <1>t, <1>3 DEF Begin
<1>4. ASSUME NEW t \in Tasks, ResolveSport(t) \/ ResolveLeague(t) PROVE TypeOK'
  BY <1>t, <1>4 DEF ResolveSport, ResolveLeague
<1>5. ASSUME NEW t \in Tasks, Fetch(t) PROVE TypeOK'
  <2>1. published[LeagueOf[call[t].board]] \in Versions
    BY CallType DEF League
  <2>2. [call[t] EXCEPT !.got = published[LeagueOf[call[t].board]]] \in Locals
    BY <2>1 DEF Locals
  <2>3. QED
    BY <1>t, <1>5, <2>2 DEF Fetch
<1>6. ASSUME NEW t \in Tasks, SkipEntry(t) PROVE TypeOK'
  <2>1. [call[t] EXCEPT !.pos = @ + 1, !.errors = @ + 1] \in Locals
    BY LocalsUpdated, Counters
  <2>2. call' = [call EXCEPT ![t] = [call[t] EXCEPT !.pos = @ + 1, !.errors = @ + 1]]
    BY <1>6 DEF SkipEntry, Locals
  <2>3. QED
    BY <1>t, <1>6, <2>1, <2>2 DEF SkipEntry
<1>7. ASSUME NEW t \in Tasks, UpsertVenue(t) PROVE TypeOK'
  <2>1. write' \in [Tasks -> Tables]
    BY <1>7, VenueStep, VenueWritten, CallType
  <2>2. QED
    BY <1>t, <1>7, <2>1 DEF UpsertVenue
<1>8. ASSUME NEW t \in Tasks, UpsertEvent(t) PROVE TypeOK'
  <2>1. write' \in [Tasks -> Tables]
    <3> DEFINE N == [write[t] EXCEPT !.events[Cur(t).id] = From(t),
                                     !.competitors[Cur(t).id] = {}]
    <3>1. Cur(t).id \in Events /\ write' = [write EXCEPT ![t] = N]
      BY <1>8, EventStep
    <3>2. N \in Tables
      BY <3>1, EventWritten, CallType
    <3> HIDE DEF N
    <3>3. QED
      BY <3>1, <3>2
  <2>2. PICK i \in BOOLEAN :
          call' = [call EXCEPT ![t] = [call[t] EXCEPT !.idx = 1, !.inserted = i]]
    BY <1>8 DEF UpsertEvent, Locals
  <2>3. [call[t] EXCEPT !.idx = 1, !.inserted = i] \in Locals
    <3>1. 1 \in Nat \ {0} /\ call[t] \in Locals
      OBVIOUS
    <3>2. QED
      BY <3>1, LocalsUpdated
  <2>4. call' \in [Tasks -> Locals]
    BY <2>2, <2>3
  <2>5. QED
    BY <1>t, <1>8, <2>1, <2>4 DEF UpsertEvent
<1>9. ASSUME NEW t \in Tasks, CreateCompetitor(t) PROVE TypeOK'
  <2>1. write' \in [Tasks -> Tables]
    <3> DEFINE e == Cur(t).id
               x == Cur(t).teams[call[t].idx]
               N == [write[t] EXCEPT !.teams = @ \cup {x},
                       !.competitors[e] = @ \cup {[team |-> x, from |-> From(t)]}]
    <3>1. CASE write' = write
      BY <3>1
    <3>2. CASE e \in Events /\ x \in Teams /\ write' = [write EXCEPT ![t] = N]
      <4>1. N \in Tables
        BY <3>2, CompetitorWritten, CallType
      <4> HIDE DEF N
      <4>2. QED
        BY <3>2, <4>1
    <3>3. QED
      BY <1>9, <3>1, <3>2, CompetitorStep
  <2>2. call' \in [Tasks -> Locals]
    <3>1. [call[t] EXCEPT !.idx = call[t].idx + 1] \in Locals
      BY LocalsUpdated, Counters
    <3>2. call' = [call EXCEPT ![t] = [call[t] EXCEPT !.idx = call[t].idx + 1]]
      BY <1>9 DEF CreateCompetitor
    <3>3. QED
      BY <3>1, <3>2
  <2>3. pc' \in [Tasks -> {"idle", "begin"} \cup InTx]
    BY <1>9 DEF CreateCompetitor
  <2>4. QED
    BY <1>t, <1>9, <2>1, <2>2, <2>3 DEF CreateCompetitor
<1>10. ASSUME NEW t \in Tasks, EventEnds(t) PROVE TypeOK'
  <2>1. PICK c \in Nat, u \in Nat :
          call' = [call EXCEPT ![t] = [call[t] EXCEPT
                     !.pos = @ + 1, !.created = c, !.updated = u]]
    <3> DEFINE c == IF call[t].inserted THEN call[t].created + 1 ELSE call[t].created
               u == IF call[t].inserted THEN call[t].updated ELSE call[t].updated + 1
    <3>1. c \in Nat /\ u \in Nat
      BY Counters
    <3>2. call' = [call EXCEPT ![t] = [call[t] EXCEPT
                     !.pos = @ + 1, !.created = c, !.updated = u]]
      BY <1>10 DEF EventEnds, Locals
    <3>3. QED
      BY <3>1, <3>2
  <2>2. [call[t] EXCEPT !.pos = @ + 1, !.created = c, !.updated = u] \in Locals
    BY LocalsUpdated, Counters
  <2>3. call' \in [Tasks -> Locals]
    BY <2>1, <2>2
  <2>4. QED
    BY <1>t, <1>10, <2>3 DEF EventEnds
<1>11. ASSUME NEW t \in Tasks, LoopEnds(t) \/ Fail(t) \/ DeadlockAbort(t) PROVE TypeOK'
  BY <1>t, <1>11 DEF LoopEnds, Fail, DeadlockAbort
<1>12. ASSUME NEW t \in Tasks, Commit(t) PROVE TypeOK'
  BY <1>t, <1>12, CommittedType DEF Commit
<1>13. ASSUME NEW t \in Tasks, CommitFails(t) PROVE TypeOK'
  BY <1>t, <1>13, CommittedType DEF CommitFails
<1>14. ASSUME NEW t \in Tasks, Rollback(t) \/ BeginFails(t) \/ Panic(t) PROVE TypeOK'
  BY <1>t, <1>14 DEF Rollback, BeginFails, Panic
<1>15. ASSUME NEW p \in Procs, Crash(p) PROVE TypeOK'
  BY <1>t, <1>15 DEF Crash
<1>16. CASE UNCHANGED vars
  BY <1>t, <1>16 DEF vars
<1>17. QED
  BY <1>1, <1>2, <1>3, <1>4, <1>5, <1>6, <1>7, <1>8, <1>9, <1>10, <1>11, <1>12,
     <1>13, <1>14, <1>15, <1>16 DEF Next, LockStep, Proceed, Fault
-----------------------------------------------------------------------------
(* A connection handed to one task, and a row lock held by one connection: two
   tasks that hold the lock of one sport are one task. *)
LEMMA LocksSerialise ==
  ASSUME TypeOK, TxInv, LocksHeld
  PROVE  SportSerialised
<1> SUFFICES ASSUME NEW t \in Tasks, NEW u \in Tasks, t # u,
                    pc[t] \in Locked, pc[u] \in Locked,
                    SportOf[League(t)] = SportOf[League(u)]
             PROVE  FALSE
  BY DEF SportSerialised
<1>1. conn[t] = conn[u]
  BY DEF LocksHeld
<1>2. conn[t] # NoConn
  BY DEF LocksHeld, Locked, Looping, InTx
<1>3. QED
  BY <1>1, <1>2 DEF TxInv

(* A step of t's call leaves the other calls alone. *)
OthersSame(t) ==
  \A u \in Tasks \ {t} : pc'[u] = pc[u] /\ call'[u] = call[u] /\ write'[u] = write[u]

(* What a step inside t's transaction changes: t's own call, perhaps one more
   lock, and where t is; the tables stay. *)
InnerStep(t) ==
  \/ LockStep(t) \/ Fetch(t) \/ SkipEntry(t) \/ EventEnds(t) \/ LoopEnds(t)
  \/ DeadlockAbort(t) \/ Fail(t)

(* A task waits for a row only at a statement of its closure. *)
LEMMA DeadlockedInTx ==
  ASSUME NEW t \in Tasks, Deadlocked(t), IInv
  PROVE  pc[t] \in Cancellable
  BY DEF Deadlocked, WaitsFor, Wants, Cancellable, Looping

(* Such a step keeps the connection, the board and, once taken, the locks. *)
LEMMA InnerStepIs ==
  ASSUME IInv, NEW t \in Tasks, InnerStep(t)
  PROVE  /\ OthersSame(t)
         /\ call'[t].board = call[t].board
         /\ UNCHANGED <<outcome, published, store, conn>>
         /\ UNCHANGED txVars \/ \E k \in Keys : TxLock(t, k)
         /\ pc[t] \in InTx /\ pc'[t] \in InTx
         /\ pc'[t] \in Locked => pc[t] \in Locked \cup {"league"}
         /\ pc'[t] = "league" => lock'[SportOf[League(t)]] = conn[t]
<1>0. TypeOK
  BY DEF IInv
<1>1. CASE LockStep(t)
  <2>1. UNCHANGED txVars \/ \E k \in Keys : TxLock(t, k)
    BY <1>1, LockStepIs
  <2>2. conn' = conn
    BY <2>1 DEF txVars, TxLock
  <2>3. CASE ResolveSport(t)
    BY <1>0, <2>1, <2>2, <2>3, LockedKeys
       DEF ResolveSport, Goto, TypeOK, OthersSame, TxLock, TxTypeOK, InTx, Locked, Looping
  <2>4. CASE ResolveLeague(t)
    BY <1>0, <2>1, <2>2, <2>4
       DEF ResolveLeague, Goto, TypeOK, OthersSame, InTx, Locked, Looping
  <2>5. CASE UpsertVenue(t)
    BY <1>0, <2>1, <2>2, <2>5
       DEF UpsertVenue, Goto, TypeOK, OthersSame, InTx, Locked, Looping
  <2>6. CASE UpsertEvent(t)
    <3>1. call'[t].board = call[t].board
      BY <1>0, <2>6 DEF UpsertEvent, TypeOK, Locals
    <3>2. QED
      BY <1>0, <2>1, <2>2, <2>6, <3>1
         DEF UpsertEvent, Goto, TypeOK, OthersSame, InTx, Locked, Looping
  <2>7. CASE CreateCompetitor(t)
    <3>1. call'[t].board = call[t].board
      BY <1>0, <2>7 DEF CreateCompetitor, TypeOK, Locals
    <3>2. pc[t] = "competitors" /\ pc'[t] \in {"competitors", "rollback"}
      BY <1>0, <2>7 DEF CreateCompetitor, TypeOK
    <3>3. OthersSame(t) /\ UNCHANGED <<outcome, published, store>>
      BY <1>0, <2>7 DEF CreateCompetitor, TypeOK, OthersSame
    <3>4. QED
      BY <2>1, <2>2, <3>1, <3>2, <3>3 DEF InTx, Locked, Looping
  <2>8. QED
    BY <1>1, <2>3, <2>4, <2>5, <2>6, <2>7 DEF LockStep
<1>2. CASE Fetch(t)
  <2>1. call'[t].board = call[t].board
    BY <1>0, <1>2 DEF Fetch, TypeOK, Locals
  <2>2. QED
    BY <1>0, <1>2, <2>1
       DEF Fetch, Goto, TypeOK, OthersSame, txVars, InTx, Locked, Looping
<1>3. CASE SkipEntry(t)
  <2>1. call'[t].board = call[t].board
    BY <1>0, <1>3 DEF SkipEntry, TypeOK, Locals
  <2>2. QED
    BY <1>0, <1>3, <2>1
       DEF SkipEntry, TypeOK, OthersSame, txVars, InTx, Locked, Looping
<1>4. CASE EventEnds(t)
  <2>1. call'[t].board = call[t].board
    BY <1>0, <1>4 DEF EventEnds, TypeOK, Locals
  <2>2. QED
    BY <1>0, <1>4, <2>1
       DEF EventEnds, Goto, TypeOK, OthersSame, txVars, InTx, Locked, Looping
<1>5. CASE LoopEnds(t)
  BY <1>0, <1>5 DEF LoopEnds, Goto, TypeOK, OthersSame, txVars, InTx, Locked, Looping
<1>6. CASE DeadlockAbort(t) \/ Fail(t)
  BY <1>0, <1>6, DeadlockedInTx
     DEF DeadlockAbort, Fail, TypeOK, OthersSame, txVars, InTx, Locked, Looping,
         Cancellable
<1>7. QED
  BY <1>1, <1>2, <1>3, <1>4, <1>5, <1>6 DEF InnerStep

(* The end of t's transaction, however it comes about. *)
EndStep(t) == Commit(t) \/ CommitFails(t) \/ Rollback(t) \/ Panic(t)

(* It leaves t idle without writes, and the tables as they were or committed. *)
LEMMA EndStepIs ==
  ASSUME IInv, NEW t \in Tasks, EndStep(t)
  PROVE  /\ OthersSame(t)
         /\ pc'[t] = "idle" /\ write'[t] = Nothing
         /\ published' = published
         /\ store' = store \/ (pc[t] = "commit" /\ store' = Committed(t))
         /\ conn' = [conn EXCEPT ![t] = NoConn]
         /\ lock' = lock \/ lock' = Released({conn[t]})
<1>0. TypeOK /\ TxTypeOK
  BY DEF IInv, TypeOK
<1>1. published' = published
  BY DEF EndStep, Commit, CommitFails, Rollback, Panic
<1>2. store' = store \/ (pc[t] = "commit" /\ store' = Committed(t))
  <2>1. CASE Commit(t) \/ CommitFails(t)
    BY <2>1 DEF Commit, CommitFails
  <2>2. CASE Rollback(t) \/ Panic(t)
    BY <2>2 DEF Rollback, Panic
  <2>3. QED
    BY <2>1, <2>2 DEF EndStep
<1>3. TxEnd(t) \/ TxAbandon(t)
  BY DEF EndStep, Commit, CommitFails, Rollback, Panic
<1>4. /\ conn' = [conn EXCEPT ![t] = NoConn]
      /\ lock' = lock \/ lock' = Released({conn[t]})
  BY <1>3 DEF TxEnd, TxAbandon
<1>5. Return(t, "ok") \/ Return(t, "error") \/ Return(t, "panic")
  BY DEF EndStep, Commit, CommitFails, Rollback, Panic
<1>6. OthersSame(t) /\ pc'[t] = "idle" /\ write'[t] = Nothing
  BY <1>0, <1>5 DEF Return, TypeOK, OthersSame
<1>7. QED
  BY <1>1, <1>2, <1>4, <1>6

(* Every step leaves a task the locks it holds, unless it ends its transaction. *)
LEMMA LocksStep ==
  ASSUME IInv, [Next]_vars
  PROVE  LocksHeld'
<1> USE PoolAssumption
<1> DEFINE Held(t) ==
      /\ pc[t] \in InTx <=> conn[t] # NoConn
      /\ pc[t] \in Locked \cup {"league"} => lock[SportOf[League(t)]] = conn[t]
<1>0. TypeOK /\ TxInv /\ TypeOK'
  BY TypeStep DEF IInv, GamesInv
<1>h. \A t \in Tasks : Held(t)
  BY DEF IInv, GamesInv, LocksHeld
<1>s. SUFFICES \A t \in Tasks : Held(t)'
  BY DEF LocksHeld
<1>k. \A t \in Tasks : SportOf[League(t)] \in Keys
  BY LockedKeys
<1>l. \A t \in Tasks : call'[t].board = call[t].board => League(t)' = League(t)
  BY DEF League
<1>c. conn \in [Tasks -> Conns \cup {NoConn}] /\ lock \in [Keys -> Conns \cup {NoConn}]
  BY <1>0 DEF TypeOK, TxTypeOK
<1>1. ASSUME NEW l \in Leagues, Publish(l) PROVE \A t \in Tasks : Held(t)'
  BY <1>h, <1>1 DEF Publish, txVars, League
<1>2. ASSUME NEW t \in Tasks, NEW b \in Boards, IngestScoreboard(t, b)
      PROVE  \A u \in Tasks : Held(u)'
  <2>1. /\ pc[t] = "idle" /\ pc'[t] = "begin" /\ UNCHANGED txVars
        /\ \A u \in Tasks \ {t} : pc'[u] = pc[u] /\ call'[u] = call[u]
    BY <1>0, <1>2 DEF IngestScoreboard, Goto, TypeOK
  <2>2. QED
    BY <1>h, <1>l, <2>1 DEF txVars, InTx, Locked, Looping
<1>3. ASSUME NEW t \in Tasks, Begin(t) PROVE \A u \in Tasks : Held(u)'
  <2>1. PICK c \in Conns \ busy : conn' = [conn EXCEPT ![t] = c] /\ lock' = lock
    BY <1>3 DEF Begin, TxBegin
  <2>2. conn'[t] # NoConn
    BY <1>c, <2>1
  <2>3. \A u \in Tasks \ {t} : conn'[u] = conn[u] /\ pc'[u] = pc[u]
    BY <1>0, <1>c, <1>3, <2>1 DEF Begin, Goto, TypeOK
  <2>4. pc'[t] = "sport" /\ call' = call
    BY <1>0, <1>3 DEF Begin, Goto, TypeOK
  <2>5. QED
    BY <1>h, <1>l, <2>1, <2>2, <2>3, <2>4 DEF InTx, Locked, Looping
<1>4. ASSUME NEW t \in Tasks, InnerStep(t) PROVE \A u \in Tasks : Held(u)'
  <2>1. /\ OthersSame(t)
        /\ call'[t].board = call[t].board
        /\ conn' = conn
        /\ UNCHANGED txVars \/ \E k \in Keys : TxLock(t, k)
        /\ pc[t] \in InTx /\ pc'[t] \in InTx
        /\ pc'[t] \in Locked => pc[t] \in Locked \cup {"league"}
        /\ pc'[t] = "league" => lock'[SportOf[League(t)]] = conn[t]
    BY <1>4, InnerStepIs
  <2>2. \A u \in Tasks \ {t} : conn[u] # NoConn => conn[u] # conn[t]
    BY <1>0 DEF TxInv
  <2>3. lock' = lock \/ \E k \in Keys : lock[k] \in {NoConn, conn[t]}
                                           /\ lock' = [lock EXCEPT ![k] = conn[t]]
    BY <2>1 DEF txVars, TxLock
  <2>4. \A u \in Tasks, k \in Keys : conn[u] # NoConn /\ lock[k] = conn[u] => lock'[k] = conn[u]
    BY <1>c, <2>2, <2>3
  <2>5. Held(t)'
    BY <1>h, <1>k, <1>l, <2>1, <2>4
  <2>6. \A u \in Tasks \ {t} : Held(u)'
    <3> SUFFICES ASSUME NEW u \in Tasks \ {t} PROVE Held(u)'
      OBVIOUS
    <3>1. pc'[u] = pc[u] /\ League(u)' = League(u) /\ conn'[u] = conn[u]
      BY <1>l, <2>1 DEF OthersSame
    <3>2. pc[u] \in Locked \cup {"league"} => conn[u] # NoConn
      BY <1>h DEF InTx, Locked, Looping
    <3>3. QED
      BY <1>h, <1>k, <2>4, <3>1, <3>2
  <2>7. QED
    BY <2>5, <2>6
<1>5. ASSUME NEW t \in Tasks, EndStep(t) PROVE \A u \in Tasks : Held(u)'
  <2>1. /\ OthersSame(t) /\ pc'[t] = "idle"
        /\ conn' = [conn EXCEPT ![t] = NoConn]
        /\ lock' = lock \/ lock' = Released({conn[t]})
    BY <1>5, EndStepIs
  <2>2. \A u \in Tasks \ {t} : conn[u] # NoConn => conn[u] # conn[t]
    BY <1>0 DEF TxInv
  <2>3. \A k \in Keys : lock[k] # conn[t] => lock'[k] = lock[k]
    BY <2>1 DEF Released
  <2>4. conn'[t] = NoConn
    BY <1>c, <2>1
  <2>5. ASSUME NEW u \in Tasks \ {t} PROVE Held(u)'
    <3>1. pc'[u] = pc[u] /\ League(u)' = League(u) /\ conn'[u] = conn[u]
      BY <1>c, <1>l, <2>1 DEF OthersSame
    <3>2. pc[u] \in Locked \cup {"league"} => conn[u] # NoConn
      BY <1>h DEF InTx, Locked, Looping
    <3>3. QED
      BY <1>h, <1>k, <2>2, <2>3, <3>1, <3>2
  <2>6. QED
    BY <2>1, <2>4, <2>5 DEF InTx, Locked, Looping
<1>6. ASSUME NEW t \in Tasks, BeginFails(t) PROVE \A u \in Tasks : Held(u)'
  <2>1. /\ pc[t] = "begin" /\ pc'[t] = "idle" /\ UNCHANGED txVars
        /\ \A u \in Tasks \ {t} : pc'[u] = pc[u] /\ call'[u] = call[u]
    BY <1>0, <1>6 DEF BeginFails, Return, TypeOK
  <2>2. QED
    BY <1>h, <1>l, <2>1 DEF InTx, Locked, Looping, txVars
<1>7. ASSUME NEW p \in Procs, Crash(p) PROVE \A t \in Tasks : Held(t)'
  <2>1. \A t \in Tasks : TaskProc[t] = p => pc'[t] = "idle" /\ conn'[t] = NoConn
    BY <1>7 DEF Crash, TxCrash
  <2>2. \A t \in Tasks : TaskProc[t] # p =>
          pc'[t] = pc[t] /\ call'[t] = call[t] /\ conn'[t] = conn[t]
    BY <1>7 DEF Crash, TxCrash
  <2>3. \A k \in Keys : lock[k] \in Conns /\ ConnProc[lock[k]] # p => lock'[k] = lock[k]
    BY <1>7 DEF Crash, TxCrash, Released
  <2>4. \A t \in Tasks : conn[t] # NoConn => conn[t] \in Conns /\ ConnProc[conn[t]] = TaskProc[t]
    BY <1>0, <1>c DEF TxInv
  <2>5. ASSUME NEW t \in Tasks, TaskProc[t] # p PROVE Held(t)'
    <3>1. pc'[t] = pc[t] /\ League(t)' = League(t) /\ conn'[t] = conn[t]
      BY <1>l, <2>2, <2>5
    <3>2. pc[t] \in Locked \cup {"league"} => conn[t] # NoConn
      BY <1>h DEF InTx, Locked, Looping
    <3>3. QED
      BY <1>h, <1>k, <2>3, <2>4, <2>5, <3>1, <3>2
  <2>6. QED
    BY <2>1, <2>5 DEF InTx, Locked, Looping
<1>8. CASE UNCHANGED vars
  BY <1>h, <1>8 DEF vars, League
<1>9. QED
  BY <1>1, <1>2, <1>3, <1>4, <1>5, <1>6, <1>7, <1>8
     DEF Next, Proceed, Fault, InnerStep, EndStep
-----------------------------------------------------------------------------
(* What the inserted competitors are, before the first, after one more, and
   after the last. *)
LEMMA UpToSteps ==
  ASSUME NEW f \in Source, f.pos \in DOMAIN Scoreboard[f.board][f.ver], NEW n \in Nat
  PROVE  LET T == Scoreboard[f.board][f.ver][f.pos].teams
         IN  /\ UpTo(f, 0) = {}
             /\ n + 1 <= Len(T) =>
                  UpTo(f, n + 1) = UpTo(f, n) \cup
                    IF T[n + 1] = NoId THEN {} ELSE {[team |-> T[n + 1], from |-> f]}
             /\ n >= Len(T) => UpTo(f, n) = CompetitorsOf(f)
<1> DEFINE T == Scoreboard[f.board][f.ver][f.pos].teams
           Rows(J) == {[team |-> T[k], from |-> f] : k \in J}
           First(m) == {j \in DOMAIN T : T[j] # NoId /\ j <= m}
<1>1. f.board \in Boards /\ f.ver \in Versions
  BY DEF Source
<1>2. Scoreboard[f.board][f.ver][f.pos] \in Entry
  BY <1>1, EntryType
<1>3. Len(T) \in Nat /\ DOMAIN T = 1..Len(T)
  BY <1>2, EntryFields
<1>4. \A m : UpTo(f, m) = Rows(First(m))
  BY DEF UpTo
<1>5. CompetitorsOf(f) = Rows({j \in DOMAIN T : T[j] # NoId})
  BY DEF CompetitorsOf
<1> HIDE DEF T
<1>6. First(0) = {}
  BY <1>3
<1>7. ASSUME n + 1 <= Len(T)
      PROVE  First(n + 1) = First(n) \cup IF T[n + 1] = NoId THEN {} ELSE {n + 1}
  BY <1>3, <1>7
<1>8. ASSUME n >= Len(T) PROVE First(n) = {j \in DOMAIN T : T[j] # NoId}
  BY <1>3, <1>8
<1>9. Rows({}) = {} /\ Rows({n + 1}) = {[team |-> T[n + 1], from |-> f]}
  OBVIOUS
<1>10. \A J, K : Rows(J \cup K) = Rows(J) \cup Rows(K)
  OBVIOUS
<1> HIDE DEF Rows, First
<1>11. UpTo(f, 0) = {}
  BY <1>4, <1>6, <1>9
<1>12. ASSUME n + 1 <= Len(T)
       PROVE  UpTo(f, n + 1) = UpTo(f, n) \cup
                IF T[n + 1] = NoId THEN {} ELSE {[team |-> T[n + 1], from |-> f]}
  <2>1. CASE T[n + 1] = NoId
    BY <1>4, <1>7, <1>12, <2>1
  <2>2. CASE T[n + 1] # NoId
    BY <1>4, <1>7, <1>9, <1>10, <1>12, <2>2
  <2>3. QED
    BY <2>1, <2>2
<1>13. ASSUME n >= Len(T) PROVE UpTo(f, n) = CompetitorsOf(f)
  BY <1>4, <1>5, <1>8, <1>13
<1>14. QED
  BY <1>11, <1>12, <1>13 DEF T

(* A task whose call does not change keeps its part of the invariant, while its
   league's games do not change under its locks. *)
LEMMA SameKeeps ==
  ASSUME IInv, TypeOK', NEW u \in Tasks,
         pc'[u] = pc[u], call'[u] = call[u], write'[u] = write[u],
         published'[League(u)] >= published[League(u)],
         pc[u] \in Locked => \A e \in Events :
           store'.events[e] # store.events[e] =>
             LeagueOf[store'.events[e].board] # League(u)
  PROVE  Fresh(u)' /\ Writes(u)'
<1>1. Fresh(u) /\ Writes(u)
  BY DEF IInv, GamesInv
<1>2. /\ League(u)' = League(u) /\ Entries(u)' = Entries(u) /\ Cur(u)' = Cur(u)
      /\ From(u)' = From(u)
  BY DEF League, Entries, Cur, From
<1>3. \A e \in Events : GameWritten(u, e)' <=> GameWritten(u, e)
  BY <1>2 DEF GameWritten, UpTo, CompetitorsOf
<1>4. Writes(u)'
  BY <1>1, <1>2, <1>3 DEF Writes
<1>5. Fresh(u)'
  <2>1. League(u) \in Leagues /\ call[u].got \in Nat
    BY CallType, ScoreboardAssumption DEF IInv, Versions
  <2>2. published[League(u)] \in Nat /\ published'[League(u)] \in Nat
    BY <2>1, ScoreboardAssumption DEF IInv, TypeOK, Versions
  <2>3. ASSUME pc[u] \in Looping \cup {"commit"}
        PROVE  /\ call[u].got <= published'[League(u)]
               /\ \A e \in Events :
                    store'.events[e] # Absent /\ LeagueOf[store'.events[e].board] = League(u)
                      => store'.events[e].ver <= call[u].got
    <3>1. call[u].got <= published'[League(u)]
      BY <1>1, <2>1, <2>2, <2>3 DEF Fresh
    <3>2. pc[u] \in Locked
      BY <2>3 DEF Locked
    <3>3. QED
      BY <1>1, <2>3, <3>1, <3>2 DEF Fresh
  <2>4. QED
    BY <1>2, <2>3 DEF Fresh
<1>6. QED
  BY <1>4, <1>5

(* A task outside its loop and its commit has little to keep. *)
LEMMA OutsideKeeps ==
  ASSUME NEW u \in Tasks,
         \/ pc'[u] \in {"idle", "begin", "sport", "league", "fetch"} /\ write'[u] = Nothing
         \/ pc'[u] = "rollback"
  PROVE  Fresh(u)' /\ Writes(u)'
  BY DEF Fresh, Writes, Looping

(* The version a call fetches is as new as anything its league has. *)
LEMMA FetchKeeps ==
  ASSUME IInv, TypeOK', NEW t \in Tasks, Fetch(t)
  PROVE  Fresh(t)' /\ Writes(t)'
<1>0. TypeOK /\ Writes(t) /\ GamesAreWhole
  BY DEF IInv, GamesInv
<1>1. /\ pc[t] = "fetch" /\ pc'[t] \in {"venue", "commit"}
      /\ write' = write /\ published' = published /\ store' = store
  BY <1>0 DEF Fetch, Goto, TypeOK
<1>2. call'[t].board = call[t].board /\ call'[t].got = published[League(t)]
  BY <1>0 DEF Fetch, TypeOK, Locals, League
<1>3. write[t] = Nothing
  BY <1>0, <1>1 DEF Writes
<1>4. Writes(t)'
  BY <1>1, <1>3 DEF Writes, Nothing, Looping
<1>5. League(t)' = League(t) /\ League(t) \in Leagues
  BY <1>0, <1>2, CallType DEF League
<1>6. published[League(t)] \in Nat
  BY <1>0, <1>5, ScoreboardAssumption DEF TypeOK, Versions
<1>7. \A e \in Events : store.events[e] # Absent =>
        store.events[e].ver <= published[LeagueOf[store.events[e].board]]
  BY <1>0 DEF GamesAreWhole, GameIsWhole
<1>8. Fresh(t)'
  BY <1>1, <1>2, <1>5, <1>6, <1>7 DEF Fresh
<1>9. QED
  BY <1>4, <1>8

(* Inside the loop, and on leaving it, the version stays the same. *)
LEMMA LoopFresh ==
  ASSUME IInv, NEW t \in Tasks, pc[t] \in Looping,
         call'[t].board = call[t].board, call'[t].got = call[t].got,
         published' = published, store' = store
  PROVE  Fresh(t)'
<1>1. Fresh(t)
  BY DEF IInv, GamesInv
<1>2. League(t)' = League(t)
  BY DEF League
<1>3. QED
  BY <1>1, <1>2 DEF Fresh

(* A game t has written before it came to the entry it is at. *)
LEMMA GameKept ==
  ASSUME IInv, NEW t \in Tasks, NEW e \in Events, GameWritten(t, e),
         write[t].events[e] # Absent,
         call'[t].board = call[t].board, call'[t].got = call[t].got,
         write'[t].events[e] = write[t].events[e],
         write'[t].competitors[e] = write[t].competitors[e],
         write[t].teams \subseteq write'[t].teams,
         \A x \in Venues : write[t].venues[x] # Absent => write'[t].venues[x] # Absent,
         pc[t] = "competitors" => write[t].events[e].pos # call[t].pos,
         pc'[t] = "competitors" => write[t].events[e].pos # call'[t].pos
  PROVE  GameWritten(t, e)'
<1> DEFINE f == write[t].events[e]
<1>1. f \in Source
  BY DEF IInv, TypeOK, Tables
<1>2. Entries(t)' = Entries(t)
  BY DEF Entries
<1>3. write[t].competitors[e] = CompetitorsOf(f)
  BY DEF GameWritten
<1>4. CompetitorsOf(write'[t].events[e]) = CompetitorsOf(f)
  BY DEF CompetitorsOf
<1>5. Scoreboard[f.board][f.ver][f.pos].venue \in Venues \cup {NoId}
  <2>1. f.pos \in DOMAIN Scoreboard[f.board][f.ver]
    BY DEF GameWritten, Entries
  <2>2. f.board \in Boards /\ f.ver \in Versions
    BY <1>1 DEF Source
  <2>3. QED
    BY <2>1, <2>2, EntryType, EntryFields
<1>6. QED
  BY <1>2, <1>3, <1>4, <1>5 DEF GameWritten

(* Writing a venue. *)
LEMMA VenueKeeps ==
  ASSUME IInv, TypeOK', NEW t \in Tasks, UpsertVenue(t)
  PROVE  Fresh(t)' /\ Writes(t)'
<1>0. TypeOK /\ Writes(t)
  BY DEF IInv, GamesInv
<1>1. /\ pc[t] = "venue" /\ pc'[t] = "event" /\ call' = call
      /\ published' = published /\ store' = store
      /\ call[t].pos <= Len(Entries(t)) /\ Cur(t).id # NoId
  BY <1>0 DEF UpsertVenue, Goto, TypeOK
<1>2. /\ write'[t].events = write[t].events
      /\ write'[t].competitors = write[t].competitors
      /\ write'[t].teams = write[t].teams
      /\ \A x \in Venues : write[t].venues[x] # Absent => write'[t].venues[x] # Absent
      /\ Cur(t).venue # NoId => write'[t].venues[Cur(t).venue] # Absent
  <2>1. CASE Cur(t).venue = NoId
    BY <2>1 DEF UpsertVenue
  <2>2. CASE Cur(t).venue # NoId
    <3> DEFINE x == Cur(t).venue
               N == [write[t] EXCEPT !.venues[x] = From(t)]
    <3>1. x \in Venues
      BY <1>0, <1>1, <2>2, CurType
    <3>2. write'[t] = N
      BY <1>0, <2>2 DEF UpsertVenue, TypeOK
    <3>3. write[t] \in Tables /\ From(t) \in Source /\ From(t) # Absent
      BY <1>0, CallType DEF TypeOK
    <3>4. /\ N.events = write[t].events /\ N.competitors = write[t].competitors
          /\ N.teams = write[t].teams
          /\ N.venues[x] = From(t)
          /\ \A y \in Venues : y # x => N.venues[y] = write[t].venues[y]
      BY <3>1, <3>3 DEF Tables
    <3> HIDE DEF N, x
    <3>5. QED
      BY <3>2, <3>3, <3>4 DEF x
  <2>3. QED
    BY <2>1, <2>2
<1>3. Entries(t)' = Entries(t) /\ Cur(t)' = Cur(t)
  BY <1>1 DEF Entries, Cur
<1>4. call[t].pos \in DOMAIN Entries(t) /\ Cur(t).id \in Events
  BY <1>0, <1>1, CurType
<1>5. \A e \in Events : write'[t].events[e] # Absent => GameWritten(t, e)'
  <2> SUFFICES ASSUME NEW e \in Events, write'[t].events[e] # Absent
               PROVE  GameWritten(t, e)'
    OBVIOUS
  <2>1. GameWritten(t, e) /\ write[t].events[e] # Absent
    BY <1>0, <1>1, <1>2 DEF Writes, Looping
  <2>2. QED
    BY <1>1, <1>2, <2>1, GameKept
<1>6. Writes(t)'
  BY <1>1, <1>2, <1>3, <1>4, <1>5 DEF Writes
<1>7. QED
  BY <1>1, <1>6, LoopFresh DEF Looping

(* Writing a game: the competitors it had are gone, none is inserted yet. *)
LEMMA EventKeeps ==
  ASSUME IInv, TypeOK', NEW t \in Tasks, UpsertEvent(t)
  PROVE  Fresh(t)' /\ Writes(t)'
<1> DEFINE e == Cur(t).id
           N == [write[t] EXCEPT !.events[e] = From(t), !.competitors[e] = {}]
<1>0. TypeOK /\ Writes(t)
  BY DEF IInv, GamesInv
<1>1. /\ pc[t] = "event" /\ pc'[t] = "competitors"
      /\ published' = published /\ store' = store
  BY <1>0 DEF UpsertEvent, Goto, TypeOK
<1>2. /\ call'[t].board = call[t].board /\ call'[t].got = call[t].got
      /\ call'[t].pos = call[t].pos /\ call'[t].idx = 1
  BY <1>0 DEF UpsertEvent, TypeOK, Locals
<1>3. e \in Events /\ write'[t] = N
  BY <1>0, EventStep DEF TypeOK
<1>4. write[t] \in Tables /\ From(t) \in Source /\ From(t) # Absent
  BY <1>0, CallType DEF TypeOK
<1>5. /\ N.venues = write[t].venues /\ N.teams = write[t].teams
      /\ N.events[e] = From(t) /\ N.competitors[e] = {}
      /\ \A d \in Events : d # e =>
           N.events[d] = write[t].events[d] /\ N.competitors[d] = write[t].competitors[d]
  BY <1>3, <1>4 DEF Tables
<1>6. Entries(t)' = Entries(t) /\ Cur(t)' = Cur(t) /\ From(t)' = From(t)
  BY <1>2 DEF Entries, Cur, From
<1>7. /\ call[t].pos \in DOMAIN Entries(t)
      /\ Cur(t).venue # NoId => write[t].venues[Cur(t).venue] # Absent
  BY <1>0, <1>1 DEF Writes
<1> HIDE DEF N
<1>8. ASSUME NEW d \in Events, write'[t].events[d] # Absent
      PROVE  GameWritten(t, d)'
  <2>1. CASE d = e
    <3> DEFINE f == From(t)
    <3>1. f.board = call[t].board /\ f.ver = call[t].got /\ f.pos = call[t].pos
      BY DEF From
    <3>2. f.pos \in DOMAIN Scoreboard[f.board][f.ver]
      BY <1>7, <3>1 DEF Entries
    <3>3. UpTo(f, 0) = {}
      BY <1>4, <3>2, UpToSteps
    <3>4. Scoreboard[f.board][f.ver][f.pos] = Cur(t) /\ Entries(t)[f.pos] = Cur(t)
      BY <3>1 DEF Cur, Entries
    <3>5. write'[t].events[d] = f /\ write'[t].competitors[d] = {}
            /\ write'[t].venues = write[t].venues
      BY <1>3, <1>5, <2>1
    <3>6. UpTo(write'[t].events[d], call'[t].idx - 1) = {}
      BY <1>2, <3>3, <3>5
    <3> HIDE DEF f
    <3>7. QED
      BY <1>1, <1>2, <1>6, <1>7, <2>1, <3>1, <3>2, <3>4, <3>5, <3>6
         DEF GameWritten, Entries
  <2>2. CASE d # e
    <3>1. /\ write'[t].events[d] = write[t].events[d]
          /\ write'[t].competitors[d] = write[t].competitors[d]
          /\ write'[t].teams = write[t].teams /\ write'[t].venues = write[t].venues
      BY <1>3, <1>5, <2>2
    <3>2. GameWritten(t, d) /\ write[t].events[d] # Absent
      BY <1>0, <1>1, <1>8, <3>1 DEF Writes, Looping
    <3>3. write[t].events[d].pos # call[t].pos
      BY <2>2, <3>2 DEF GameWritten, Cur
    <3>4. QED
      BY <1>1, <1>2, <3>1, <3>2, <3>3, GameKept
  <2>3. QED
    BY <2>1, <2>2
<1>9. Len(Cur(t).teams) \in Nat
  BY <1>0, <1>1, InGame, CurType
<1>10. call'[t].idx <= Len(Cur(t).teams) + 1
  BY <1>2, <1>9
<1>11. write'[t].events[Cur(t).id] = From(t) /\ write'[t].venues = write[t].venues
  BY <1>3, <1>5
<1>12. Writes(t)'
  BY <1>1, <1>2, <1>3, <1>6, <1>7, <1>8, <1>10, <1>11 DEF Writes
<1>13. QED
  BY <1>1, <1>2, <1>12, LoopFresh DEF Looping

(* Inserting a competitor, or passing one without a team. *)
LEMMA CompetitorKeeps ==
  ASSUME IInv, TypeOK', NEW t \in Tasks, CreateCompetitor(t)
  PROVE  Fresh(t)' /\ Writes(t)'
<1> DEFINE e == Cur(t).id
           x == Cur(t).teams[call[t].idx]
           r == [team |-> x, from |-> From(t)]
           f == From(t)
           n == call[t].idx - 1
<1>0. TypeOK /\ Writes(t)
  BY DEF IInv, GamesInv
<1>1. /\ pc[t] = "competitors" /\ pc'[t] \in {"competitors", "rollback"}
      /\ published' = published /\ store' = store
  BY <1>0 DEF CreateCompetitor, TypeOK
<1>2. CASE pc'[t] = "rollback"
  BY <1>2, OutsideKeeps
<1>3. CASE pc'[t] = "competitors"
  <2>1. /\ call'[t].board = call[t].board /\ call'[t].got = call[t].got
        /\ call'[t].pos = call[t].pos /\ call'[t].idx = call[t].idx + 1
    BY <1>0 DEF CreateCompetitor, TypeOK, Locals
  <2>2. e \in Events /\ call[t].idx \in 1..Len(Cur(t).teams)
    BY CompetitorStep
  <2>3. write[t] \in Tables /\ f \in Source /\ f # Absent
    BY <1>0, CallType DEF TypeOK
  <2>4. Entries(t)' = Entries(t) /\ Cur(t)' = Cur(t) /\ From(t)' = From(t)
    BY <2>1 DEF Entries, Cur, From
  <2>5. /\ call[t].pos \in DOMAIN Entries(t)
        /\ Cur(t).venue # NoId => write[t].venues[Cur(t).venue] # Absent
        /\ write[t].events[e] = f
    BY <1>0, <1>1 DEF Writes
  <2>6. /\ write'[t].venues = write[t].venues /\ write'[t].events = write[t].events
        /\ write'[t].competitors[e] =
             write[t].competitors[e] \cup IF x = NoId THEN {} ELSE {r}
        /\ \A d \in Events : d # e =>
             write'[t].competitors[d] = write[t].competitors[d]
        /\ write[t].teams \subseteq write'[t].teams
        /\ x # NoId => x \in write'[t].teams
    <3>1. CASE x = NoId
      BY <3>1 DEF CreateCompetitor
    <3>2. CASE x # NoId
      <4> DEFINE N == [write[t] EXCEPT !.teams = @ \cup {x},
                         !.competitors[e] = @ \cup {r}]
      <4>1. x \in Teams /\ write' = [write EXCEPT ![t] = N]
        BY <1>3, <3>2, CompetitorStep
      <4>2. write'[t] = N
        BY <1>0, <4>1 DEF TypeOK
      <4> HIDE DEF x, r, e, f
      <4>3. /\ N.venues = write[t].venues /\ N.events = write[t].events
            /\ N.teams = write[t].teams \cup {x}
            /\ N.competitors[e] = write[t].competitors[e] \cup {r}
            /\ \A d \in Events : d # e => N.competitors[d] = write[t].competitors[d]
        BY <2>2, <2>3 DEF Tables
      <4> HIDE DEF N
      <4>4. QED
        BY <3>2, <4>2, <4>3
    <3>3. QED
      BY <3>1, <3>2
  <2>7. f.board = call[t].board /\ f.ver = call[t].got /\ f.pos = call[t].pos
    BY DEF From
  <2>8. f.pos \in DOMAIN Scoreboard[f.board][f.ver]
    BY <2>5, <2>7 DEF Entries
  <2>9. Scoreboard[f.board][f.ver][f.pos] = Cur(t) /\ Entries(t)[f.pos] = Cur(t)
    BY <2>7 DEF Cur, Entries
  <2>10. Len(Cur(t).teams) \in Nat
    BY <1>1, InGame, CurType DEF IInv
  <2>11. n \in Nat /\ n + 1 = call[t].idx /\ n + 1 <= Len(Cur(t).teams)
    BY <2>2, <2>10
  <2>12. UpTo(f, n + 1) = UpTo(f, n) \cup IF x = NoId THEN {} ELSE {r}
    <3>1. UpTo(f, n + 1) = UpTo(f, n) \cup
            IF Cur(t).teams[n + 1] = NoId THEN {}
            ELSE {[team |-> Cur(t).teams[n + 1], from |-> f]}
      BY <2>3, <2>8, <2>9, <2>11, UpToSteps
    <3>2. QED
      BY <2>11, <3>1
  <2>13. GameWritten(t, e)
    BY <1>0, <1>1, <2>2, <2>3, <2>5 DEF Writes, Looping
  <2>14. write[t].competitors[e] = UpTo(f, n)
    BY <1>1, <2>5, <2>7, <2>13 DEF GameWritten
  <2>15. write'[t].competitors[e] = UpTo(f, call'[t].idx - 1)
    <3>1. call'[t].idx - 1 = n + 1
      BY <2>1, <2>11
    <3>2. QED
      BY <2>6, <2>12, <2>14, <3>1
  <2>16. ASSUME NEW d \in Events, d = e PROVE GameWritten(t, d)'
    <3>1. write'[t].events[d] = f
      BY <2>5, <2>6, <2>16
    <3>2. \A s \in write'[t].competitors[d] : s.team \in write'[t].teams
      <4>1. \A s \in write[t].competitors[e] : s.team \in write[t].teams
        BY <2>13 DEF GameWritten
      <4>2. r.team = x
        OBVIOUS
      <4> HIDE DEF x, r, e, f
      <4>3. QED
        BY <2>6, <2>16, <4>1, <4>2
    <3>3. UpTo(write'[t].events[d], call'[t].idx - 1) = write'[t].competitors[d]
      BY <2>15, <2>16, <3>1
    <3>4. write'[t].venues = write[t].venues
      BY <2>6
    <3>5. f.pos \in DOMAIN Entries(t) /\ Entries(t)[f.pos].id = d
      BY <2>5, <2>7, <2>9, <2>16
    <3>6. Cur(t).venue # NoId => write[t].venues[Cur(t).venue] # Absent
      BY <2>5
    <3> HIDE DEF x, r, e, f, n
    <3>7. QED
      BY <1>3, <2>1, <2>4, <2>7, <2>9, <3>1, <3>2, <3>3, <3>4, <3>5, <3>6
         DEF GameWritten
  <2>17. ASSUME NEW d \in Events, d # e, write'[t].events[d] # Absent
         PROVE  GameWritten(t, d)'
    <3>1. write'[t].events[d] = write[t].events[d]
            /\ write'[t].competitors[d] = write[t].competitors[d]
      BY <2>6, <2>17
    <3>2. GameWritten(t, d) /\ write[t].events[d] # Absent
      BY <1>0, <1>1, <2>17, <3>1 DEF Writes, Looping
    <3>3. write[t].events[d].pos # call[t].pos
      BY <2>17, <3>2 DEF GameWritten, Cur
    <3>4. QED
      BY <2>1, <2>6, <3>1, <3>2, <3>3, GameKept
  <2>18. call'[t].idx <= Len(Cur(t).teams) + 1
    BY <2>1, <2>10, <2>11
  <2>19. write'[t].events[Cur(t).id] = From(t)
    BY <2>5, <2>6
  <2> HIDE DEF x, r, f, n
  <2>20. Writes(t)'
    BY <1>3, <2>1, <2>2, <2>4, <2>5, <2>6, <2>16, <2>17, <2>18, <2>19 DEF Writes
  <2>21. QED
    BY <1>1, <2>1, <2>20, LoopFresh DEF Looping
<1>4. QED
  BY <1>1, <1>2, <1>3

(* A game is done when its last competitor is. *)
LEMMA EventEndKeeps ==
  ASSUME IInv, TypeOK', NEW t \in Tasks, EventEnds(t)
  PROVE  Fresh(t)' /\ Writes(t)'
<1> DEFINE e == Cur(t).id
           f == From(t)
           n == call[t].idx - 1
<1>0. TypeOK /\ Writes(t)
  BY DEF IInv, GamesInv
<1>1. /\ pc[t] = "competitors" /\ pc'[t] = "venue" /\ write' = write
      /\ published' = published /\ store' = store
      /\ call[t].idx > Len(Cur(t).teams)
  BY <1>0 DEF EventEnds, Goto, TypeOK
<1>2. call'[t].board = call[t].board /\ call'[t].got = call[t].got
  BY <1>0 DEF EventEnds, TypeOK, Locals
<1>3. e \in Events /\ call[t].pos \in DOMAIN Entries(t) /\ write[t].events[e] = f
  BY <1>0, <1>1 DEF Writes
<1>4. f \in Source /\ f # Absent
  BY <1>0, CallType
<1>5. f.board = call[t].board /\ f.ver = call[t].got /\ f.pos = call[t].pos
  BY DEF From
<1>6. f.pos \in DOMAIN Scoreboard[f.board][f.ver]
  BY <1>3, <1>5 DEF Entries
<1>7. Scoreboard[f.board][f.ver][f.pos] = Cur(t)
  BY <1>5 DEF Cur, Entries
<1>8. Len(Cur(t).teams) \in Nat /\ call[t].idx \in Nat
  BY <1>0, <1>1, InGame, CurType, CallType
<1>9. n \in Nat /\ n >= Len(Cur(t).teams)
  BY <1>1, <1>8
<1>10. UpTo(f, n) = CompetitorsOf(f)
  BY <1>4, <1>6, <1>7, <1>9, UpToSteps
<1>11. Entries(t)' = Entries(t)
  BY <1>2 DEF Entries
<1> HIDE DEF f, n
<1>12. ASSUME NEW d \in Events, write[t].events[d] # Absent PROVE GameWritten(t, d)'
  <2>1. GameWritten(t, d)
    BY <1>0, <1>1, <1>12 DEF Writes, Looping
  <2>2. write[t].competitors[d] = CompetitorsOf(write[t].events[d])
    <3>1. CASE write[t].events[d].pos = call[t].pos
      <4>1. d = e
        BY <2>1, <3>1 DEF GameWritten, Cur
      <4>2. write[t].competitors[d] = UpTo(f, n)
        BY <1>1, <1>3, <2>1, <3>1, <4>1 DEF GameWritten, n
      <4>3. QED
        BY <1>3, <1>10, <4>1, <4>2
    <3>2. CASE write[t].events[d].pos # call[t].pos
      BY <2>1, <3>2 DEF GameWritten
    <3>3. QED
      BY <3>1, <3>2
  <2>3. CompetitorsOf(write[t].events[d])' = CompetitorsOf(write[t].events[d])
    BY <1>1 DEF CompetitorsOf
  <2>4. QED
    BY <1>1, <1>2, <1>11, <2>1, <2>2, <2>3 DEF GameWritten
<1>13. Writes(t)'
  BY <1>1, <1>12 DEF Writes
<1>14. QED
  BY <1>1, <1>2, <1>13, LoopFresh DEF Looping

(* Skipping an entry and leaving the loop write nothing. *)
LEMMA SkipKeeps ==
  ASSUME IInv, TypeOK', NEW t \in Tasks, SkipEntry(t) \/ LoopEnds(t)
  PROVE  Fresh(t)' /\ Writes(t)'
<1>0. TypeOK /\ Writes(t)
  BY DEF IInv, GamesInv
<1>1. /\ pc[t] = "venue" /\ pc'[t] \in {"venue", "commit"} /\ write' = write
      /\ published' = published /\ store' = store
  BY <1>0 DEF SkipEntry, LoopEnds, Goto, TypeOK
<1>2. call'[t].board = call[t].board /\ call'[t].got = call[t].got
  <2>1. CASE SkipEntry(t)
    BY <1>0, <2>1 DEF SkipEntry, TypeOK, Locals
  <2>2. CASE LoopEnds(t)
    BY <2>2 DEF LoopEnds
  <2>3. QED
    BY <2>1, <2>2
<1>3. \A d \in Events : write'[t].events[d] # Absent => GameWritten(t, d)'
  <2> SUFFICES ASSUME NEW d \in Events, write'[t].events[d] # Absent
               PROVE  GameWritten(t, d)'
    OBVIOUS
  <2>1. GameWritten(t, d) /\ write[t].events[d] # Absent
    BY <1>0, <1>1 DEF Writes, Looping
  <2>2. QED
    BY <1>1, <1>2, <2>1, GameKept
<1>4. Writes(t)'
  BY <1>1, <1>3 DEF Writes
<1>5. QED
  BY <1>1, <1>2, <1>4, LoopFresh DEF Looping
-----------------------------------------------------------------------------
(* The tables change only by a commit, and ESPN only publishes. *)
LEMMA StoreStep ==
  ASSUME IInv, [Next]_vars
  PROVE  /\ \A l \in Leagues : published[l] \in Nat /\ published'[l] \in Nat
                                 /\ published[l] <= published'[l]
         /\ \/ store' = store
            \/ \E t \in Tasks : pc[t] = "commit" /\ store' = Committed(t)
                                  /\ published' = published
<1>0. TypeOK /\ TypeOK'
  BY TypeStep DEF IInv
<1>n. \A l \in Leagues : published[l] \in Nat /\ published'[l] \in Nat
  BY <1>0, ScoreboardAssumption DEF TypeOK, Versions
<1>1. ASSUME NEW l \in Leagues, Publish(l)
      PROVE  store' = store /\ \A k \in Leagues : published[k] <= published'[k]
  <2>1. \A k \in Leagues : published'[k] = IF k = l THEN published[k] + 1 ELSE published[k]
    BY <1>0, <1>1 DEF Publish, TypeOK
  <2>2. \A k \in Leagues : published[k] <= published'[k]
    BY <1>n, <2>1
  <2>3. QED
    BY <1>1, <2>2 DEF Publish
<1>2. ASSUME NEW t \in Tasks, EndStep(t)
      PROVE  /\ published' = published
             /\ store' = store \/ (pc[t] = "commit" /\ store' = Committed(t))
  BY <1>2, EndStepIs
<1>3. ASSUME NEW t \in Tasks, InnerStep(t)
      PROVE  published' = published /\ store' = store
  BY <1>3, InnerStepIs
<1>4. ASSUME NEW t \in Tasks, NEW b \in Boards,
             IngestScoreboard(t, b) \/ Begin(t) \/ BeginFails(t)
      PROVE  published' = published /\ store' = store
  BY <1>4 DEF IngestScoreboard, Begin, BeginFails
<1>5. ASSUME NEW p \in Procs, Crash(p) PROVE published' = published /\ store' = store
  BY <1>5 DEF Crash
<1>6. ASSUME UNCHANGED vars PROVE published' = published /\ store' = store
  BY <1>6 DEF vars
<1>7. published' = published => \A l \in Leagues : published[l] <= published'[l]
  BY <1>n
<1>8. QED
  BY <1>n, <1>1, <1>2, <1>3, <1>4, <1>5, <1>6, <1>7, ScoreboardAssumption
     DEF Next, Proceed, Fault, EndStep, InnerStep

(* The venue of a source is a venue, or none; its league is a league. *)
LEMMA SourceType ==
  ASSUME NEW f \in Source, f.pos \in DOMAIN Scoreboard[f.board][f.ver]
  PROVE  /\ Scoreboard[f.board][f.ver][f.pos].venue \in Venues \cup {NoId}
         /\ LeagueOf[f.board] \in Leagues /\ f.ver \in Nat
         /\ f.board \in Boards /\ f.ver \in Versions
<1>1. f.board \in Boards /\ f.ver \in Versions
  BY DEF Source
<1>2. QED
  BY <1>1, EntryType, EntryFields, ScoreboardAssumption DEF Versions

(* A game whose rows a step leaves alone stays whole. *)
LEMMA GameStays ==
  ASSUME TypeOK, NEW e \in Events, GameIsWhole(e),
         store'.events[e] = store.events[e],
         store'.competitors[e] = store.competitors[e],
         store.teams \subseteq store'.teams,
         \A x \in Venues : store.venues[x] # Absent => store'.venues[x] # Absent,
         \A l \in Leagues : published[l] \in Nat /\ published'[l] \in Nat
                              /\ published[l] <= published'[l]
  PROVE  GameIsWhole(e)'
<1>1. CASE store.events[e] = Absent
  BY <1>1 DEF GameIsWhole
<1>2. CASE store.events[e] # Absent
  <2> DEFINE f == store.events[e]
  <2>1. f \in Source
    BY <1>2 DEF TypeOK, Tables
  <2>2. f.pos \in DOMAIN Scoreboard[f.board][f.ver]
          /\ f.ver <= published[LeagueOf[f.board]]
    BY <1>2 DEF GameIsWhole
  <2>3. Scoreboard[f.board][f.ver][f.pos].venue \in Venues \cup {NoId}
          /\ LeagueOf[f.board] \in Leagues /\ f.ver \in Nat
    BY <2>1, <2>2, SourceType
  <2>4. f.ver <= published'[LeagueOf[f.board]]
    BY <2>2, <2>3
  <2>5. store'.competitors[e] = CompetitorsOf(f)
    BY <1>2 DEF GameIsWhole
  <2>6. CompetitorsOf(store'.events[e]) = CompetitorsOf(f)
    BY DEF CompetitorsOf
  <2>7. QED
    BY <1>2, <2>3, <2>4, <2>5, <2>6 DEF GameIsWhole
<1>3. QED
  BY <1>1, <1>2

(* A game a transaction has written is whole once it is committed. *)
LEMMA GameCommitted ==
  ASSUME IInv, NEW t \in Tasks, pc[t] = "commit", store' = Committed(t),
         published' = published, NEW e \in Events, write[t].events[e] # Absent
  PROVE  GameIsWhole(e)'
<1> DEFINE f == write[t].events[e]
<1>0. TypeOK /\ Writes(t) /\ Fresh(t)
  BY DEF IInv, GamesInv
<1>1. GameWritten(t, e)
  BY <1>0 DEF Writes
<1>2. f \in Source
  BY <1>0 DEF TypeOK, Tables
<1>3. f.board = call[t].board /\ f.ver = call[t].got
  BY <1>1 DEF GameWritten
<1>4. f.pos \in DOMAIN Scoreboard[f.board][f.ver]
        /\ Scoreboard[f.board][f.ver][f.pos].id = e
  BY <1>1 DEF GameWritten, Entries
<1>5. f.ver <= published[LeagueOf[f.board]]
  BY <1>0, <1>3 DEF Fresh, League
<1>6. /\ store'.events[e] = f
      /\ store'.competitors[e] = write[t].competitors[e]
      /\ store'.teams = store.teams \cup write[t].teams
      /\ \A x \in Venues : write[t].venues[x] # Absent =>
           store'.venues[x] = write[t].venues[x]
  <2>1. Committed(t).teams = store.teams \cup write[t].teams
    BY DEF Committed
  <2>2. QED
    BY <1>0, <2>1, CommittedType
<1>7. /\ write[t].competitors[e] = CompetitorsOf(f)
      /\ \A r \in write[t].competitors[e] : r.team \in write[t].teams
      /\ Scoreboard[f.board][f.ver][f.pos].venue # NoId =>
           write[t].venues[Scoreboard[f.board][f.ver][f.pos].venue] # Absent
  BY <1>1 DEF GameWritten
<1>8. Scoreboard[f.board][f.ver][f.pos].venue \in Venues \cup {NoId}
  BY <1>2, <1>4, SourceType
<1>9. CompetitorsOf(store'.events[e]) = CompetitorsOf(f)
  BY <1>6 DEF CompetitorsOf
<1> HIDE DEF f
<1>10. f # Absent
  BY <1>2, AbsentAssumption
<1>11. QED
  BY <1>4, <1>5, <1>6, <1>7, <1>8, <1>9, <1>10 DEF GameIsWhole

(* Readers never see part of a game: a commit brings whole games and takes no
   venue or team away from the others. *)
LEMMA GamesStep ==
  ASSUME IInv, [Next]_vars
  PROVE  GamesAreWhole'
<1>0. TypeOK /\ \A e \in Events : GameIsWhole(e)
  BY DEF IInv, GamesInv, GamesAreWhole
<1>1. \A l \in Leagues : published[l] \in Nat /\ published'[l] \in Nat
                           /\ published[l] <= published'[l]
  BY StoreStep
<1> SUFFICES ASSUME NEW e \in Events PROVE GameIsWhole(e)'
  BY DEF GamesAreWhole
<1>2. CASE store' = store
  BY <1>0, <1>1, <1>2, GameStays
<1>3. ASSUME NEW t \in Tasks, pc[t] = "commit", store' = Committed(t),
             published' = published
      PROVE  GameIsWhole(e)'
  <2>1. CASE write[t].events[e] # Absent
    BY <1>3, <2>1, GameCommitted
  <2>2. CASE write[t].events[e] = Absent
    <3>1. store'.events[e] = store.events[e]
            /\ store'.competitors[e] = store.competitors[e]
      BY <1>0, <1>3, <2>2, CommittedType
    <3>2. \A x \in Venues : store.venues[x] # Absent => store'.venues[x] # Absent
      BY <1>0, <1>3, CommittedType
    <3>3. store.teams \subseteq store'.teams
      BY <1>3 DEF Committed
    <3>4. QED
      BY <1>0, <1>1, <3>1, <3>2, <3>3, GameStays
  <2>3. QED
    BY <2>1, <2>2
<1>4. QED
  BY <1>2, <1>3, StoreStep

(* Two boards that list a game are of one league, so a commit replaces a game by
   a version of the same league that is no older. *)
LEMMA GamesAdvance ==
  ASSUME IInv, [Next]_vars, NEW e \in Events, store.events[e] # Absent
  PROVE  /\ store'.events[e] # Absent
         /\ store.events[e].ver <= store'.events[e].ver
<1> DEFINE f == store.events[e]
<1>0. TypeOK /\ GameIsWhole(e)
  BY DEF IInv, GamesInv, GamesAreWhole
<1>1. f \in Source
  BY <1>0 DEF TypeOK, Tables
<1>2. f.pos \in DOMAIN Scoreboard[f.board][f.ver]
        /\ Scoreboard[f.board][f.ver][f.pos].id = e
  BY <1>0 DEF GameIsWhole
<1>3. f.ver \in Nat /\ f.board \in Boards /\ f.ver \in Versions
  BY <1>1, <1>2, SourceType
<1>4. CASE store' = store
  BY <1>3, <1>4
<1>5. ASSUME NEW t \in Tasks, pc[t] = "commit", store' = Committed(t)
      PROVE  store'.events[e] # Absent /\ f.ver <= store'.events[e].ver
  <2>1. CASE write[t].events[e] = Absent
    <3>1. store'.events[e] = f
      BY <1>0, <1>5, <2>1, CommittedType
    <3>2. QED
      BY <1>3, <3>1
  <2>2. CASE write[t].events[e] # Absent
    <3> DEFINE g == write[t].events[e]
    <3>1. store'.events[e] = g
      BY <1>0, <1>5, <2>2, CommittedType
    <3>2. Writes(t) /\ Fresh(t)
      BY DEF IInv, GamesInv
    <3>3. /\ g.board = call[t].board /\ g.ver = call[t].got
          /\ g.pos \in DOMAIN Entries(t) /\ Entries(t)[g.pos].id = e
      BY <1>5, <2>2, <3>2 DEF Writes, GameWritten
    <3>4. call[t].board \in Boards /\ call[t].got \in Versions
      BY <1>0, CallType
    <3>5. e # NoId
      BY ScoreboardAssumption
    <3>6. e \in Games(f.board, f.ver) /\ e \in Games(call[t].board, call[t].got)
      BY <1>2, <3>3, <3>5 DEF Games, Entries
    <3>7. LeagueOf[f.board] = League(t)
      BY <1>3, <3>4, <3>6, ScoreboardAssumption DEF League
    <3>8. f.ver <= call[t].got
      BY <1>5, <3>2, <3>7 DEF Fresh
    <3>9. QED
      BY <2>2, <3>1, <3>3, <3>8
  <2>3. QED
    BY <2>1, <2>2
<1>6. QED
  BY <1>4, <1>5, StoreStep

(* The acting task keeps its part of the invariant inside its transaction. *)
LEMMA InnerKeeps ==
  ASSUME IInv, TypeOK', NEW t \in Tasks, InnerStep(t)
  PROVE  Fresh(t)' /\ Writes(t)'
<1>0. TypeOK /\ Writes(t)
  BY DEF IInv, GamesInv
<1>1. CASE ResolveSport(t) \/ ResolveLeague(t)
  <2>1. /\ pc[t] \in {"sport", "league"} /\ pc'[t] \in {"league", "fetch"}
        /\ write' = write
    BY <1>0, <1>1 DEF ResolveSport, ResolveLeague, Goto, TypeOK
  <2>2. write'[t] = Nothing
    BY <1>0, <2>1 DEF Writes
  <2>3. QED
    BY <2>1, <2>2, OutsideKeeps
<1>2. CASE DeadlockAbort(t) \/ Fail(t)
  <2>1. pc'[t] = "rollback"
    BY <1>0, <1>2 DEF DeadlockAbort, Fail, TypeOK
  <2>2. QED
    BY <2>1, OutsideKeeps
<1>3. QED
  BY <1>1, <1>2, FetchKeeps, VenueKeeps, EventKeeps, CompetitorKeeps, EventEndKeeps,
     SkipKeeps DEF InnerStep, LockStep

(* A commit of one league's games leaves the calls of the others as fresh as they
   were: none of them is for that league, whose sport the commit holds. *)
LEMMA CommitKeepsOthers ==
  ASSUME IInv, NEW t \in Tasks, NEW u \in Tasks, t # u,
         pc[t] = "commit", store' = Committed(t), pc[u] \in Locked,
         NEW e \in Events, store'.events[e] # store.events[e]
  PROVE  LeagueOf[store'.events[e].board] # League(u)
<1>0. TypeOK /\ TxInv /\ LocksHeld /\ Writes(t)
  BY DEF IInv, GamesInv
<1>1. SportOf[League(t)] # SportOf[League(u)]
  BY <1>0, LocksSerialise DEF SportSerialised, Locked
<1>2. write[t].events[e] # Absent /\ store'.events[e] = write[t].events[e]
  BY <1>0, CommittedType
<1>3. write[t].events[e].board = call[t].board
  BY <1>0, <1>2 DEF Writes, GameWritten
<1>4. QED
  BY <1>1, <1>2, <1>3 DEF League

(* No step of anybody makes a task's fetch stale or its writes wrong. *)
LEMMA TasksStep ==
  ASSUME IInv, [Next]_vars, NEW u \in Tasks
  PROVE  Fresh(u)' /\ Writes(u)'
<1>0. TypeOK /\ TypeOK' /\ Writes(u)
  BY TypeStep DEF IInv, GamesInv
<1>1. /\ published[League(u)] \in Nat /\ published'[League(u)] \in Nat
      /\ published'[League(u)] >= published[League(u)]
  <2>1. League(u) \in Leagues
    BY <1>0, CallType
  <2>2. /\ published[League(u)] \in Nat /\ published'[League(u)] \in Nat
        /\ published[League(u)] <= published'[League(u)]
    BY <2>1, StoreStep
  <2>3. QED
    BY <2>2
<1>2. ASSUME pc'[u] = pc[u], call'[u] = call[u], write'[u] = write[u], store' = store
      PROVE  Fresh(u)' /\ Writes(u)'
  BY <1>0, <1>1, <1>2, SameKeeps
<1>3. ASSUME NEW l \in Leagues, Publish(l) PROVE Fresh(u)' /\ Writes(u)'
  BY <1>2, <1>3 DEF Publish
<1>4. ASSUME NEW t \in Tasks, NEW b \in Boards,
             IngestScoreboard(t, b) \/ Begin(t)
      PROVE  Fresh(u)' /\ Writes(u)'
  <2>1. /\ pc[t] \in {"idle", "begin"} /\ pc'[t] \in {"begin", "sport"}
        /\ write' = write /\ store' = store
    BY <1>0, <1>4 DEF IngestScoreboard, Begin, Goto, TypeOK
  <2>2. CASE u = t
    <3>1. write'[u] = Nothing
      BY <1>0, <2>1, <2>2 DEF Writes
    <3>2. QED
      BY <2>1, <2>2, <3>1, OutsideKeeps
  <2>3. CASE u # t
    <3>1. pc'[u] = pc[u] /\ call'[u] = call[u]
      BY <1>0, <1>4, <2>3 DEF IngestScoreboard, Begin, Goto, TypeOK
    <3>2. QED
      BY <1>2, <2>1, <3>1
  <2>4. QED
    BY <2>2, <2>3
<1>5. ASSUME NEW t \in Tasks, BeginFails(t) PROVE Fresh(u)' /\ Writes(u)'
  <2>1. /\ pc'[t] = "idle" /\ write'[t] = Nothing /\ store' = store
        /\ u # t => pc'[u] = pc[u] /\ call'[u] = call[u] /\ write'[u] = write[u]
    BY <1>0, <1>5 DEF BeginFails, Return, TypeOK
  <2>2. QED
    BY <1>2, <2>1, OutsideKeeps
<1>6. ASSUME NEW t \in Tasks, InnerStep(t) PROVE Fresh(u)' /\ Writes(u)'
  <2>1. OthersSame(t) /\ store' = store
    BY <1>6, InnerStepIs
  <2>2. CASE u = t
    BY <1>0, <1>6, <2>2, InnerKeeps
  <2>3. CASE u # t
    BY <1>2, <2>1, <2>3 DEF OthersSame
  <2>4. QED
    BY <2>2, <2>3
<1>7. ASSUME NEW t \in Tasks, EndStep(t) PROVE Fresh(u)' /\ Writes(u)'
  <2>1. /\ OthersSame(t) /\ pc'[t] = "idle" /\ write'[t] = Nothing
        /\ store' = store \/ (pc[t] = "commit" /\ store' = Committed(t))
    BY <1>7, EndStepIs
  <2>2. CASE u = t
    BY <2>1, <2>2, OutsideKeeps
  <2>3. CASE u # t
    <3>1. pc'[u] = pc[u] /\ call'[u] = call[u] /\ write'[u] = write[u]
      BY <2>1, <2>3 DEF OthersSame
    <3>2. CASE store' = store
      BY <1>2, <3>1, <3>2
    <3>3. CASE pc[t] = "commit" /\ store' = Committed(t)
      <4>1. pc[u] \in Locked => \A e \in Events :
              store'.events[e] # store.events[e] =>
                LeagueOf[store'.events[e].board] # League(u)
        BY <2>3, <3>3, CommitKeepsOthers
      <4>2. QED
        BY <1>0, <1>1, <3>1, <4>1, SameKeeps
    <3>4. QED
      BY <2>1, <3>2, <3>3
  <2>4. QED
    BY <2>2, <2>3
<1>8. ASSUME NEW p \in Procs, Crash(p) PROVE Fresh(u)' /\ Writes(u)'
  <2>1. CASE TaskProc[u] = p
    <3>1. pc'[u] = "idle" /\ write'[u] = Nothing
      BY <1>8, <2>1 DEF Crash
    <3>2. QED
      BY <3>1, OutsideKeeps
  <2>2. CASE TaskProc[u] # p
    <3>1. pc'[u] = pc[u] /\ call'[u] = call[u] /\ write'[u] = write[u] /\ store' = store
      BY <1>8, <2>2 DEF Crash
    <3>2. QED
      BY <1>2, <3>1
  <2>3. QED
    BY <2>1, <2>2
<1>9. CASE UNCHANGED vars
  BY <1>2, <1>9 DEF vars
<1>10. QED
  BY <1>3, <1>4, <1>5, <1>6, <1>7, <1>8, <1>9, ScoreboardAssumption
     DEF Next, Proceed, Fault, EndStep, InnerStep
-----------------------------------------------------------------------------
(* Empty tables and idle tasks satisfy the invariant. *)
LEMMA InitInv ==
  ASSUME Init
  PROVE  IInv
<1>1. TypeOK
  BY NoCallType, NothingType, ScoreboardAssumption DEF Init, TypeOK, TxInit, TxTypeOK,
     Versions
<1>2. TxInv /\ LocksHeld
  BY DEF Init, TxInit, TxInv, LocksHeld, InTx, Locked, Looping
<1>3. \A t \in Tasks : Fresh(t) /\ Writes(t)
  BY DEF Init, Fresh, Writes, Looping
<1>4. GamesAreWhole
  BY DEF Init, Nothing, GamesAreWhole, GameIsWhole
<1>5. QED
  BY <1>1, <1>2, <1>3, <1>4 DEF IInv, GamesInv

(* Every step keeps the invariant. *)
LEMMA NextInv ==
  ASSUME IInv, [Next]_vars
  PROVE  IInv'
<1>1. TypeOK' /\ TxInv' /\ LocksHeld' /\ GamesAreWhole'
  BY TypeStep, TxStep, LocksStep, GamesStep
<1>2. (\A t \in Tasks : Fresh(t))' /\ (\A t \in Tasks : Writes(t))'
  BY TasksStep
<1>3. QED
  BY <1>1, <1>2 DEF IInv, GamesInv

(* The invariant holds in every state of IngestScoreboard's calls. *)
THEOREM InductiveInv == Spec => []IInv
<1>1. Init => IInv
  BY InitInv
<1>2. IInv /\ [Next]_vars => IInv'
  BY NextInv
<1>3. QED
  BY <1>1, <1>2, PTL DEF Spec

(* Every variable keeps its type: a call's counters and positions, and the rows
   its transaction writes (the body of IngestScoreboard). *)
THEOREM ScoreboardTypeCorrect == Spec => []TypeOK
<1>1. IInv => TypeOK
  BY DEF IInv
<1>2. QED
  BY <1>1, InductiveInv, PTL

(* Readers only ever see whole games, whichever calls commit, fail, panic or die
   in whatever order (ingestEvent's DELETE and INSERTs are one transaction). *)
THEOREM GamesInvHolds == Spec => []GamesInv
<1>1. IInv => GamesInv
  BY DEF IInv
<1>2. QED
  BY <1>1, InductiveInv, PTL

(* Two calls for one sport are never both past resolveSportLeague. *)
THEOREM ScoreboardsSerialised == Spec => []SportSerialised
<1>1. IInv => SportSerialised
  BY LocksSerialise DEF IInv, GamesInv
<1>2. QED
  BY <1>1, InductiveInv, PTL

(* No game goes back to an older version or disappears, although scoreboards of
   several dates and leagues are ingested at once: the lock on the sport comes
   before the fetch. *)
THEOREM NoGameRegresses == Spec => GamesNeverRegress
<1> DEFINE Advance == \A e \in Events : store.events[e] # Absent =>
                        /\ store'.events[e] # Absent
                        /\ store.events[e].ver <= store'.events[e].ver
<1>1. IInv /\ [Next]_vars => [Advance]_vars
  BY GamesAdvance
<1>2. [][Advance]_vars <=> GamesNeverRegress
  BY DEF GamesNeverRegress
<1>3. QED
  BY <1>1, <1>2, InductiveInv, PTL DEF Spec
-----------------------------------------------------------------------------
(* The games and teams a scoreboard lists are games and teams. *)
LEMMA GamesOnBoard ==
  ASSUME NEW b \in Boards, NEW v \in Versions
  PROVE  Games(b, v) \subseteq Events /\ TeamsOn(b, v) \subseteq Teams
<1>1. \A i \in DOMAIN Scoreboard[b][v] : Scoreboard[b][v][i] \in Entry
  BY EntryType
<1>2. \A i \in DOMAIN Scoreboard[b][v] :
        LET E == Scoreboard[b][v][i]
        IN  /\ E.id \in Events \cup {NoId}
            /\ \A k \in DOMAIN E.teams : E.teams[k] \in Teams \cup {NoId}
  BY <1>1, EntryFields
<1>3. Games(b, v) \subseteq Events
  BY <1>2 DEF Games
<1>4. TeamsOn(b, v) \subseteq Teams
  <2> SUFFICES ASSUME NEW x \in TeamsOn(b, v) PROVE x \in Teams
    OBVIOUS
  <2>1. x # NoId /\ \E i \in DOMAIN Scoreboard[b][v] :
          \E k \in DOMAIN Scoreboard[b][v][i].teams : x = Scoreboard[b][v][i].teams[k]
    BY DEF TeamsOn
  <2>2. QED
    BY <1>2, <2>1
<1>5. QED
  BY <1>3, <1>4

(* Two boards with a game or a team in common are of one league. *)
LEMMA SharedIsLeague ==
  ASSUME NEW b \in Boards, NEW c \in Boards, NEW v \in Versions, NEW w \in Versions,
         NEW x, \/ x \in Games(b, v) /\ x \in Games(c, w)
                \/ x \in TeamsOn(b, v) /\ x \in TeamsOn(c, w)
  PROVE  LeagueOf[b] = LeagueOf[c]
  BY ScoreboardAssumption

(* A game a transaction has written is on the scoreboard it ingests. *)
LEMMA WrittenIsListed ==
  ASSUME IInv, NEW t \in Tasks, pc[t] \in Looping \cup {"commit"},
         NEW e \in Events, write[t].events[e] # Absent
  PROVE  /\ write[t].events[e].pos \in At(call[t].board, call[t].got, e)
         /\ e \in Games(call[t].board, call[t].got)
<1>1. GameWritten(t, e)
  BY DEF IInv, GamesInv, Writes
<1>2. e # NoId
  BY ScoreboardAssumption
<1>3. QED
  BY <1>1, <1>2 DEF GameWritten, Entries, At, Games

(* No other call adds or removes a game a call has written: it would be for the
   same league, whose sport this one has locked. *)
LEMMA NewStaysNew ==
  ASSUME IInv, NEW t \in Tasks, NEW u \in Tasks, t # u,
         pc[t] = "commit", store' = Committed(t),
         pc[u] \in Looping \cup {"commit"},
         NEW e \in Events, write[u].events[e] # Absent
  PROVE  store'.events[e] = store.events[e]
<1>0. TypeOK /\ TxInv /\ LocksHeld
  BY DEF IInv, GamesInv
<1>1. SUFFICES ASSUME store'.events[e] # store.events[e] PROVE FALSE
  OBVIOUS
<1>2. write[t].events[e] # Absent
  BY <1>0, <1>1, CommittedType
<1>3. e \in Games(call[t].board, call[t].got) /\ e \in Games(call[u].board, call[u].got)
  BY <1>2, WrittenIsListed
<1>4. League(t) = League(u)
  BY <1>0, <1>3, CallType, SharedIsLeague DEF League
<1>5. SportOf[League(t)] # SportOf[League(u)]
  BY <1>0, LocksSerialise DEF SportSerialised, Locked
<1>6. QED
  BY <1>4, <1>5

(* A call that does not move keeps its counts while the games it has written are
   neither added nor removed by others. *)
LEMMA ProgressSame ==
  ASSUME NEW u \in Tasks, Progress(u),
         pc'[u] = pc[u], call'[u] = call[u], write'[u] = write[u],
         pc[u] \in Looping \cup {"commit"} => \A e \in Events :
           write[u].events[e] # Absent => store'.events[e] = store.events[e]
  PROVE  Progress(u)'
<1>1. Entries(u)' = Entries(u)
  BY DEF Entries
<1>2. Passed(u)' = Passed(u)
  BY <1>1 DEF Passed
<1>3. PassedWritten(u)' <=> PassedWritten(u)
  BY <1>1, <1>2 DEF PassedWritten
<1>4. ASSUME pc[u] \in Looping \cup {"commit"} PROVE Counted(u)'
  <2>1. NewGames(u)' = NewGames(u)
    BY <1>4 DEF NewGames
  <2>2. QED
    BY <1>4, <2>1 DEF Progress, Counted
<1>5. QED
  BY <1>1, <1>3, <1>4 DEF Progress

(* Before its fetch a call has counted nothing. *)
LEMMA ProgressOutside ==
  ASSUME NEW u \in Tasks,
         \/ pc'[u] \in {"idle", "rollback"}
         \/ /\ pc'[u] \in {"begin", "sport", "league", "fetch"}
            /\ call'[u] = NewCall(call'[u].board)
  PROVE  Progress(u)'
  BY DEF Progress, Looping

(* The fetch starts at the first entry with nothing written. *)
LEMMA FetchProgress ==
  ASSUME IInv, TypeOK', NEW t \in Tasks, Fetch(t), Progress(t)
  PROVE  Progress(t)'
<1> DEFINE b == call[t].board
           v == published[LeagueOf[b]]
<1>0. TypeOK /\ Writes(t)
  BY DEF IInv, GamesInv
<1>1. /\ pc[t] = "fetch" /\ write' = write /\ store' = store
      /\ pc'[t] = IF Scoreboard[b][v] = <<>> THEN "commit" ELSE "venue"
  BY <1>0 DEF Fetch, Goto, TypeOK
<1>2. call[t] = NewCall(b) /\ write[t] = Nothing
  BY <1>0, <1>1 DEF Progress, Writes
<1>3. call'[t] = [call[t] EXCEPT !.got = v]
  BY <1>0 DEF Fetch, TypeOK
<1>4. /\ call'[t].board = b /\ call'[t].got = v /\ call'[t].pos = 1
      /\ call'[t].created = 0 /\ call'[t].updated = 0 /\ call'[t].errors = 0
  BY <1>2, <1>3 DEF NewCall
<1>5. b \in Boards /\ v \in Versions
  BY <1>0, CallType DEF League, TypeOK
<1>6. Entries(t)' = Scoreboard[b][v]
  BY <1>4 DEF Entries
<1> HIDE DEF b, v
<1>7. /\ Len(Entries(t)') \in Nat /\ DOMAIN Entries(t)' = 1..Len(Entries(t)')
      /\ Scoreboard[b][v] = <<>> => Len(Entries(t)') = 0
  BY <1>5, <1>6, EntryType
<1>8. Passed(t)' = {}
  <2>1. Passed(t)' = {i \in DOMAIN Entries(t)' :
                        i < call'[t].pos \/ (i = call'[t].pos /\ pc'[t] = "competitors")}
    BY DEF Passed
  <2>2. pc'[t] # "competitors"
    BY <1>1
  <2>3. QED
    BY <1>4, <1>7, <2>1, <2>2
<1>9. \A e \in Events : write'[t].events[e] = Absent
  BY <1>1, <1>2 DEF Nothing
<1>10. PassedWritten(t)'
  BY <1>8, <1>9 DEF PassedWritten
<1>11. NewGames(t)' = {}
  BY <1>9 DEF NewGames
<1>12. Counted(t)'
  BY <1>1, <1>4, <1>11, FS_EmptySet DEF Counted
<1>13. QED
  BY <1>1, <1>4, <1>6, <1>7, <1>10, <1>12 DEF Progress, Looping

(* Passing an entry without a game, or leaving the loop. *)
LEMMA SkipProgress ==
  ASSUME IInv, TypeOK', NEW t \in Tasks, SkipEntry(t) \/ LoopEnds(t), Progress(t)
  PROVE  Progress(t)'
<1>0. TypeOK
  BY DEF IInv
<1>1. /\ pc[t] = "venue" /\ pc'[t] \in {"venue", "commit"}
      /\ write' = write /\ store' = store
  BY <1>0 DEF SkipEntry, LoopEnds, Goto, TypeOK
<1>2. /\ call[t].pos \in Nat /\ call[t].errors \in Nat
      /\ call[t].created \in Nat /\ call[t].updated \in Nat
      /\ Len(Entries(t)) \in Nat /\ DOMAIN Entries(t) = 1..Len(Entries(t))
  BY <1>0, CallType, EntryType DEF TypeOK, Locals, Entries
<1>3. /\ call[t].pos <= Len(Entries(t)) + 1
      /\ PassedWritten(t) /\ Counted(t)
  BY <1>1 DEF Progress, Looping
<1>4. NewGames(t)' = NewGames(t)
  BY <1>1 DEF NewGames
<1>5. CASE LoopEnds(t)
  <2>1. call' = call /\ pc'[t] = "commit" /\ call[t].pos > Len(Entries(t))
    BY <1>0, <1>5 DEF LoopEnds, Goto, TypeOK
  <2>2. Entries(t)' = Entries(t) /\ Passed(t)' = Passed(t)
    BY <1>1, <2>1 DEF Entries, Passed
  <2>3. PassedWritten(t)' /\ Counted(t)'
    BY <1>1, <1>3, <1>4, <2>1, <2>2 DEF PassedWritten, Counted
  <2>4. QED
    BY <1>2, <1>3, <2>1, <2>2, <2>3 DEF Progress
<1>6. CASE SkipEntry(t)
  <2>1. /\ pc' = pc /\ call[t].pos <= Len(Entries(t)) /\ Cur(t).id = NoId
        /\ call'[t] = [call[t] EXCEPT !.pos = @ + 1, !.errors = @ + 1]
    BY <1>0, <1>6 DEF SkipEntry, TypeOK, Locals
  <2>2. /\ call'[t].board = call[t].board /\ call'[t].got = call[t].got
        /\ call'[t].pos = call[t].pos + 1 /\ call'[t].errors = call[t].errors + 1
        /\ call'[t].created = call[t].created /\ call'[t].updated = call[t].updated
    BY <1>0, <2>1 DEF TypeOK, Locals
  <2>3. Entries(t)' = Entries(t)
    BY <2>2 DEF Entries
  <2>4. /\ Passed(t) \subseteq Passed(t)'
        /\ \A i \in Passed(t)' : i \in Passed(t) \/ Entries(t)[i].id = NoId
    BY <1>1, <1>2, <2>1, <2>2, <2>3 DEF Passed, Cur
  <2>5. PassedWritten(t)'
    BY <1>1, <1>3, <2>3, <2>4 DEF PassedWritten
  <2>6. call'[t].created + call'[t].updated + call'[t].errors = call'[t].pos - 1
    <3> DEFINE c == call[t].created
               n == call[t].updated
               k == call[t].errors
               p == call[t].pos
    <3>1. c \in Nat /\ n \in Nat /\ k \in Nat /\ p \in Nat
      BY <1>2
    <3>2. c + n + k = p - 1
      BY <1>3 DEF Counted
    <3> HIDE DEF c, n, k, p
    <3>3. c + n + (k + 1) = (p + 1) - 1
      BY <3>1, <3>2
    <3>4. QED
      BY <2>2, <3>3 DEF c, n, k, p
  <2>7. Counted(t)'
    BY <1>1, <1>3, <1>4, <2>1, <2>2, <2>6 DEF Counted
  <2>8. QED
    BY <1>1, <1>2, <2>1, <2>2, <2>3, <2>5, <2>7 DEF Progress
<1>7. QED
  BY <1>5, <1>6

(* Writing a venue or a competitor passes no entry and writes no game. *)
LEMMA RowsProgress ==
  ASSUME IInv, TypeOK', NEW t \in Tasks, UpsertVenue(t) \/ CreateCompetitor(t),
         Progress(t)
  PROVE  Progress(t)'
<1>0. TypeOK
  BY DEF IInv
<1>1. /\ store' = store
      /\ \/ pc[t] = "venue" /\ pc'[t] = "event"
         \/ pc[t] = "competitors" /\ pc'[t] = "competitors"
         \/ pc'[t] = "rollback"
  BY <1>0 DEF UpsertVenue, CreateCompetitor, Goto, TypeOK
<1>2. /\ call'[t].board = call[t].board /\ call'[t].got = call[t].got
      /\ call'[t].pos = call[t].pos /\ call'[t].errors = call[t].errors
      /\ call'[t].created = call[t].created /\ call'[t].updated = call[t].updated
      /\ call'[t].inserted = call[t].inserted
  BY <1>0 DEF UpsertVenue, CreateCompetitor, TypeOK, Locals
<1>3. write'[t].events = write[t].events
  <2>1. CASE UpsertVenue(t)
    BY <1>0, <2>1, VenueStep DEF TypeOK, Tables
  <2>2. CASE CreateCompetitor(t)
    <3> DEFINE e == Cur(t).id
               x == Cur(t).teams[call[t].idx]
               r == [team |-> x, from |-> From(t)]
    <3> DEFINE N == [write[t] EXCEPT !.teams = @ \cup {x}, !.competitors[e] = @ \cup {r}]
    <3>1. write' = write \/ write' = [write EXCEPT ![t] = N]
      BY <2>2, CompetitorStep
    <3> HIDE DEF e, x, r
    <3>2. write[t] \in Tables /\ N.events = write[t].events
      BY <1>0 DEF TypeOK, Tables
    <3> HIDE DEF N
    <3>3. QED
      BY <1>0, <3>1, <3>2 DEF TypeOK
  <2>3. QED
    BY <2>1, <2>2
<1>4. CASE pc'[t] = "rollback"
  BY <1>4, ProgressOutside
<1>5. CASE pc'[t] # "rollback"
  <2>1. /\ call[t].pos <= Len(Entries(t)) + 1
        /\ PassedWritten(t) /\ Counted(t)
    BY <1>1, <1>5 DEF Progress, Looping
  <2>2. Entries(t)' = Entries(t)
    BY <1>2 DEF Entries
  <2>3. Passed(t)' = Passed(t)
    BY <1>1, <1>2, <1>5, <2>2 DEF Passed
  <2>4. PassedWritten(t)'
    BY <1>3, <2>1, <2>2, <2>3 DEF PassedWritten
  <2>5. NewGames(t)' = NewGames(t)
    BY <1>1, <1>3 DEF NewGames
  <2>6. Counted(t)'
    BY <1>1, <1>2, <1>5, <2>1, <2>5 DEF Counted
  <2>7. QED
    BY <1>1, <1>2, <1>5, <2>1, <2>2, <2>4, <2>6 DEF Progress
<1>6. QED
  BY <1>4, <1>5

(* Writing a game makes it a new one if neither the table nor this call had it,
   and the entry the last one that lists it. *)
LEMMA EventProgress ==
  ASSUME IInv, TypeOK', NEW t \in Tasks, UpsertEvent(t), Progress(t)
  PROVE  Progress(t)'
<1> DEFINE e == Cur(t).id
           f == From(t)
           p == call[t].pos
           N == [write[t] EXCEPT !.events[e] = f, !.competitors[e] = {}]
           new == Sees(t, "events", e) = Absent
<1>0. TypeOK
  BY DEF IInv
<1>1. pc[t] = "event" /\ pc'[t] = "competitors" /\ store' = store
  BY <1>0 DEF UpsertEvent, Goto, TypeOK
<1>2. call'[t] = [call[t] EXCEPT !.idx = 1, !.inserted = new]
  BY <1>0 DEF UpsertEvent, TypeOK
<1>3. e \in Events /\ write'[t] = N
  BY <1>0, EventStep DEF TypeOK
<1>4. write[t] \in Tables /\ f \in Source /\ f # Absent /\ f.pos = p
  BY <1>0, CallType DEF TypeOK, From
<1>5. p \in Nat /\ p <= Len(Entries(t)) /\ p \in DOMAIN Entries(t)
        /\ DOMAIN Entries(t) = 1..Len(Entries(t)) /\ Len(Entries(t)) \in Nat
        /\ Entries(t)[p].id = e
  BY <1>0, <1>1, InGame, CurType, CallType, EntryType DEF Entries, Cur
<1>6. new <=> store.events[e] = Absent /\ write[t].events[e] = Absent
  BY DEF Sees
<1> HIDE DEF e, f, N, new
<1>7. \A d \in Events : write'[t].events[d] = IF d = e THEN f ELSE write[t].events[d]
  BY <1>3, <1>4 DEF Tables, N
<1>8. /\ call'[t].board = call[t].board /\ call'[t].got = call[t].got
      /\ call'[t].pos = p /\ call'[t].errors = call[t].errors
      /\ call'[t].created = call[t].created /\ call'[t].updated = call[t].updated
      /\ call'[t].inserted = new
  BY <1>0, <1>2 DEF TypeOK, Locals
<1>9. /\ PassedWritten(t) /\ Counted(t)
  BY <1>1 DEF Progress, Looping
<1>10. Entries(t)' = Entries(t)
  BY <1>8 DEF Entries
<1>11. Passed(t)' = Passed(t) \cup {p} /\ \A i \in Passed(t) : i < p
  BY <1>1, <1>5, <1>8, <1>10 DEF Passed
<1>12. PassedWritten(t)'
  <2>1. ASSUME NEW d \in Events, write'[t].events[d] # Absent
        PROVE  write'[t].events[d].pos \in Passed(t)'
    BY <1>4, <1>7, <1>9, <1>11, <2>1 DEF PassedWritten
  <2>2. ASSUME NEW i \in Passed(t)', Entries(t)[i].id # NoId
        PROVE  /\ write'[t].events[Entries(t)[i].id] # Absent
               /\ i <= write'[t].events[Entries(t)[i].id].pos
    <3>1. i \in DOMAIN Entries(t)
      BY <1>10 DEF Passed
    <3>2. Entries(t)[i].id \in Events
      BY <1>0, <2>2, <3>1, CallType, EntryType, EntryFields DEF Entries
    <3>3. CASE Entries(t)[i].id = e
      BY <1>3, <1>4, <1>5, <1>7, <1>11, <3>1, <3>3
    <3>4. CASE Entries(t)[i].id # e
      <4>1. i \in Passed(t)
        BY <1>5, <1>11, <3>4
      <4>2. QED
        BY <1>7, <1>9, <2>2, <3>2, <3>4, <4>1 DEF PassedWritten
    <3>5. QED
      BY <3>3, <3>4
  <2>3. QED
    BY <1>10, <2>1, <2>2 DEF PassedWritten
<1>13. NewGames(t)' = NewGames(t) \cup (IF new THEN {e} ELSE {})
  BY <1>1, <1>3, <1>4, <1>6, <1>7 DEF NewGames
<1>14. new => e \notin NewGames(t)
  BY <1>6 DEF NewGames
<1>15. /\ IsFiniteSet(NewGames(t)) /\ Cardinality(NewGames(t)) = call[t].created
  BY <1>0, <1>1, <1>9 DEF Counted, TypeOK, Locals
<1>16. /\ IsFiniteSet(NewGames(t)')
       /\ Cardinality(NewGames(t)') = call[t].created + IF new THEN 1 ELSE 0
  <2>1. CASE new
    <3>1. NewGames(t)' = NewGames(t) \cup {e}
      BY <1>13, <2>1
    <3>2. QED
      BY <1>14, <1>15, <2>1, <3>1, FS_AddElement
  <2>2. CASE ~new
    <3>1. NewGames(t)' = NewGames(t) /\ call[t].created \in Nat
      BY <1>0, <1>13, <2>2 DEF TypeOK, Locals
    <3>2. QED
      BY <1>15, <2>2, <3>1
  <2>3. QED
    BY <2>1, <2>2
<1>17. Counted(t)'
  BY <1>1, <1>8, <1>9, <1>16 DEF Counted
<1>18. QED
  BY <1>1, <1>5, <1>8, <1>10, <1>12, <1>17 DEF Progress

(* The game is counted as what its upsert found. *)
LEMMA EventEndProgress ==
  ASSUME IInv, TypeOK', NEW t \in Tasks, EventEnds(t), Progress(t)
  PROVE  Progress(t)'
<1>0. TypeOK
  BY DEF IInv
<1>1. /\ pc[t] = "competitors" /\ pc'[t] = "venue"
      /\ store' = store /\ write' = write
  BY <1>0 DEF EventEnds, Goto, TypeOK
<1>2. call'[t] = [call[t] EXCEPT !.pos = @ + 1,
                    !.created = IF call[t].inserted THEN @ + 1 ELSE @,
                    !.updated = IF call[t].inserted THEN @ ELSE @ + 1]
  BY <1>0 DEF EventEnds, TypeOK, Locals
<1>3. /\ call'[t].board = call[t].board /\ call'[t].got = call[t].got
      /\ call'[t].pos = call[t].pos + 1 /\ call'[t].errors = call[t].errors
      /\ call'[t].created = IF call[t].inserted THEN call[t].created + 1 ELSE call[t].created
      /\ call'[t].updated = IF call[t].inserted THEN call[t].updated ELSE call[t].updated + 1
  BY <1>0, <1>2 DEF TypeOK, Locals
<1>4. /\ call[t].pos \in Nat /\ call[t].errors \in Nat
      /\ call[t].created \in Nat /\ call[t].updated \in Nat
      /\ Len(Entries(t)) \in Nat /\ DOMAIN Entries(t) = 1..Len(Entries(t))
      /\ call[t].pos <= Len(Entries(t))
  BY <1>0, <1>1, CallType, EntryType, InGame DEF TypeOK, Locals, Entries
<1>5. PassedWritten(t) /\ Counted(t)
  BY <1>1 DEF Progress, Looping
<1>6. Entries(t)' = Entries(t)
  BY <1>3 DEF Entries
<1>7. Passed(t)' = Passed(t)
  BY <1>1, <1>3, <1>4, <1>6 DEF Passed
<1>8. PassedWritten(t)'
  BY <1>1, <1>5, <1>6, <1>7 DEF PassedWritten
<1>9. NewGames(t)' = NewGames(t)
  BY <1>1 DEF NewGames
<1>10. call'[t].created + call'[t].updated + call'[t].errors = call'[t].pos - 1
  <2> DEFINE c == call[t].created
             n == call[t].updated
             k == call[t].errors
             p == call[t].pos
  <2>1. c \in Nat /\ n \in Nat /\ k \in Nat /\ p \in Nat
    BY <1>4
  <2>2. c + n + k = p - 1
    BY <1>5 DEF Counted
  <2> HIDE DEF c, n, k, p
  <2>3. (c + 1) + n + k = (p + 1) - 1 /\ c + (n + 1) + k = (p + 1) - 1
    BY <2>1, <2>2
  <2>4. QED
    BY <1>3, <2>3 DEF c, n, k, p
<1>11. Cardinality(NewGames(t)) = call'[t].created
  <2>1. CASE call[t].inserted
    BY <1>1, <1>3, <1>4, <1>5, <2>1 DEF Counted
  <2>2. CASE ~call[t].inserted
    BY <1>1, <1>3, <1>4, <1>5, <2>2 DEF Counted
  <2>3. QED
    BY <2>1, <2>2
<1>12. call'[t].created \in Nat /\ IsFiniteSet(NewGames(t))
  BY <1>3, <1>4, <1>5 DEF Counted
<1>13. Counted(t)'
  BY <1>1, <1>9, <1>10, <1>11, <1>12 DEF Counted
<1>14. QED
  BY <1>1, <1>3, <1>4, <1>6, <1>8, <1>13 DEF Progress

(* Every step keeps every call's progress what its entries say. *)
LEMMA ProgressStep ==
  ASSUME IInv, [Next]_vars, NEW u \in Tasks, Progress(u)
  PROVE  Progress(u)'
<1>0. TypeOK /\ TypeOK'
  BY TypeStep DEF IInv
<1>1. ASSUME pc'[u] = pc[u], call'[u] = call[u], write'[u] = write[u], store' = store
      PROVE  Progress(u)'
  BY <1>1, ProgressSame
<1>2. ASSUME NEW l \in Leagues, Publish(l) PROVE Progress(u)'
  BY <1>1, <1>2 DEF Publish
<1>3. ASSUME NEW t \in Tasks, NEW b \in Boards, IngestScoreboard(t, b)
      PROVE  Progress(u)'
  <2>1. store' = store /\ write' = write
    BY <1>3 DEF IngestScoreboard
  <2>2. CASE u = t
    <3>1. pc'[t] = "begin" /\ call'[t] = NewCall(b)
      BY <1>0, <1>3 DEF IngestScoreboard, Goto, TypeOK
    <3>2. call'[t] = NewCall(call'[t].board)
      BY <3>1 DEF NewCall
    <3>3. QED
      BY <2>2, <3>1, <3>2, ProgressOutside
  <2>3. CASE u # t
    BY <1>0, <1>1, <1>3, <2>1, <2>3 DEF IngestScoreboard, Goto, TypeOK
  <2>4. QED
    BY <2>2, <2>3
<1>4. ASSUME NEW t \in Tasks, Begin(t) PROVE Progress(u)'
  <2>1. store' = store /\ write' = write /\ call' = call
    BY <1>4 DEF Begin
  <2>2. CASE u = t
    <3>1. pc[t] = "begin" /\ pc'[t] = "sport"
      BY <1>0, <1>4 DEF Begin, Goto, TypeOK
    <3>2. QED
      BY <2>1, <2>2, <3>1, ProgressOutside DEF Progress
  <2>3. CASE u # t
    BY <1>0, <1>1, <1>4, <2>1, <2>3 DEF Begin, Goto, TypeOK
  <2>4. QED
    BY <2>2, <2>3
<1>5. ASSUME NEW t \in Tasks, BeginFails(t) PROVE Progress(u)'
  <2>1. /\ pc'[t] = "idle" /\ store' = store
        /\ u # t => pc'[u] = pc[u] /\ call'[u] = call[u] /\ write'[u] = write[u]
    BY <1>0, <1>5 DEF BeginFails, Return, TypeOK
  <2>2. QED
    BY <1>1, <2>1, ProgressOutside
<1>6. ASSUME NEW t \in Tasks, InnerStep(t) PROVE Progress(u)'
  <2>1. OthersSame(t) /\ store' = store
    BY <1>6, InnerStepIs
  <2>2. CASE u # t
    BY <1>1, <2>1, <2>2 DEF OthersSame
  <2>3. CASE u = t
    <3>1. CASE ResolveSport(t) \/ ResolveLeague(t)
      <4>1. /\ pc[t] \in {"sport", "league"} /\ pc'[t] \in {"league", "fetch"}
            /\ call' = call
        BY <1>0, <3>1 DEF ResolveSport, ResolveLeague, Goto, TypeOK
      <4>2. QED
        BY <2>3, <4>1, ProgressOutside DEF Progress
    <3>2. CASE DeadlockAbort(t) \/ Fail(t)
      <4>1. pc'[t] = "rollback"
        BY <1>0, <3>2 DEF DeadlockAbort, Fail, TypeOK
      <4>2. QED
        BY <2>3, <4>1, ProgressOutside
    <3>3. QED
      BY <1>0, <1>6, <2>3, <3>1, <3>2, FetchProgress, SkipProgress, RowsProgress,
         EventProgress, EventEndProgress DEF InnerStep, LockStep
  <2>4. QED
    BY <2>2, <2>3
<1>7. ASSUME NEW t \in Tasks, EndStep(t) PROVE Progress(u)'
  <2>1. /\ OthersSame(t) /\ pc'[t] = "idle"
        /\ store' = store \/ (pc[t] = "commit" /\ store' = Committed(t))
    BY <1>7, EndStepIs
  <2>2. CASE u = t
    BY <2>1, <2>2, ProgressOutside
  <2>3. CASE u # t
    <3>1. pc'[u] = pc[u] /\ call'[u] = call[u] /\ write'[u] = write[u]
      BY <2>1, <2>3 DEF OthersSame
    <3>2. CASE store' = store
      BY <1>1, <3>1, <3>2
    <3>3. CASE pc[t] = "commit" /\ store' = Committed(t)
      BY <2>3, <3>1, <3>3, NewStaysNew, ProgressSame
    <3>4. QED
      BY <2>1, <3>2, <3>3
  <2>4. QED
    BY <2>2, <2>3
<1>8. ASSUME NEW p \in Procs, Crash(p) PROVE Progress(u)'
  <2>1. CASE TaskProc[u] = p
    <3>1. pc'[u] = "idle"
      BY <1>8, <2>1 DEF Crash
    <3>2. QED
      BY <3>1, ProgressOutside
  <2>2. CASE TaskProc[u] # p
    BY <1>1, <1>8, <2>2 DEF Crash
  <2>3. QED
    BY <2>1, <2>2
<1>9. CASE UNCHANGED vars
  BY <1>1, <1>9 DEF vars
<1>10. QED
  BY <1>2, <1>3, <1>4, <1>5, <1>6, <1>7, <1>8, <1>9
     DEF Next, Proceed, Fault, EndStep, InnerStep
-----------------------------------------------------------------------------
(* A team of an entry is one of the scoreboard. *)
LEMMA TeamListed ==
  ASSUME NEW t \in Tasks, call[t].pos \in DOMAIN Entries(t),
         call[t].idx \in DOMAIN Cur(t).teams, Cur(t).teams[call[t].idx] # NoId
  PROVE  Cur(t).teams[call[t].idx] \in TeamsOn(call[t].board, call[t].got)
<1>1. Cur(t).teams \in {Entries(t)[i].teams : i \in DOMAIN Entries(t)}
  BY DEF Cur
<1>2. Cur(t).teams[call[t].idx] \in {Cur(t).teams[k] : k \in DOMAIN Cur(t).teams}
  OBVIOUS
<1>3. QED
  BY <1>1, <1>2 DEF TeamsOn, Entries

(* Everything a call can lock is a row of its own scoreboard, its league, its
   sport or a venue, and which it can have locked depends on where it is. *)
LEMMA OwnLockStep ==
  ASSUME IInv, NEW t \in Tasks, LockStep(t), LocksOwn(t)
  PROVE  LocksOwn(t)'
<1>0. TypeOK /\ LocksHeld
  BY DEF IInv, GamesInv
<1>1. InnerStep(t)
  BY DEF InnerStep
<1>2. conn' = conn /\ conn[t] # NoConn
  <2>1. pc[t] \in InTx /\ conn' = conn
    BY <1>1, InnerStepIs
  <2>2. QED
    BY <1>0, <2>1 DEF LocksHeld
<1>3. call'[t].board = call[t].board /\ call'[t].got = call[t].got
  <2>1. call' = call \/ call'[t].got = call[t].got
    BY <1>0 DEF LockStep, ResolveSport, ResolveLeague, UpsertVenue, UpsertEvent,
       CreateCompetitor, TypeOK, Locals
  <2>2. QED
    BY <1>1, <2>1, InnerStepIs
<1>4. OwnRows(t)' = OwnRows(t) /\ League(t)' = League(t)
  BY <1>3 DEF OwnRows, League
<1>5. \A k \in Keys : TxLock(t, k) => \A j \in Keys :
        lock'[j] = conn[t] => j = k \/ lock[j] = conn[t]
  BY <1>0 DEF TxLock, TypeOK, TxTypeOK
<1>6. UNCHANGED txVars => lock' = lock
  BY DEF txVars
<1>7. CASE ResolveSport(t)
  <2>1. pc[t] = "sport" /\ pc'[t] = "league" /\ TxLock(t, SportOf[League(t)])
    BY <1>0, <1>7 DEF ResolveSport, Goto, TypeOK
  <2>2. \A j \in Keys : lock'[j] = conn[t] => j = SportOf[League(t)]
    BY <1>5, <2>1, LockedKeys DEF LocksOwn
  <2>3. QED
    BY <1>2, <1>4, <2>1, <2>2 DEF LocksOwn, Looping
<1>8. CASE ResolveLeague(t)
  <2>1. pc[t] = "league" /\ pc'[t] = "fetch" /\ TxLock(t, League(t))
    BY <1>0, <1>8 DEF ResolveLeague, Goto, TypeOK
  <2>2. \A j \in Keys : lock'[j] = conn[t] => j \in {SportOf[League(t)], League(t)}
    BY <1>5, <2>1, LockedKeys DEF LocksOwn
  <2>3. QED
    BY <1>2, <1>4, <2>1, <2>2 DEF LocksOwn, Looping
<1>9. ASSUME pc[t] \in Looping, pc'[t] \in Looping \cup {"rollback"},
             UNCHANGED txVars \/ \E k \in Keys \cap OwnRows(t) : TxLock(t, k)
      PROVE  LocksOwn(t)'
  <2>1. \A j \in Keys : lock[j] = conn[t] => j \in OwnRows(t)
    BY <1>9 DEF LocksOwn
  <2>2. \A j \in Keys : lock'[j] = conn[t] => j \in OwnRows(t)
    BY <1>5, <1>6, <1>9, <2>1
  <2>3. QED
    BY <1>2, <1>4, <1>9, <2>2 DEF LocksOwn, Looping
<1>10. CASE UpsertVenue(t)
  <2>1. pc[t] = "venue" /\ pc'[t] = "event" /\ call[t].pos <= Len(Entries(t))
    BY <1>0, <1>10 DEF UpsertVenue, Goto, TypeOK
  <2>2. UNCHANGED txVars \/ \E k \in Keys \cap OwnRows(t) : TxLock(t, k)
    <3>1. CASE Cur(t).venue = NoId
      BY <1>10, <3>1 DEF UpsertVenue
    <3>2. CASE Cur(t).venue # NoId
      <4>1. Cur(t).venue \in Venues
        BY <1>0, <2>1, <3>2, CurType
      <4>2. Cur(t).venue \in Keys \cap OwnRows(t)
        BY <4>1, ScoreboardAssumption DEF OwnRows
      <4>3. QED
        BY <1>10, <3>2, <4>2 DEF UpsertVenue
    <3>3. QED
      BY <3>1, <3>2
  <2>3. QED
    BY <1>9, <2>1, <2>2 DEF Looping
<1>11. CASE UpsertEvent(t)
  <2>1. pc[t] = "event" /\ pc'[t] = "competitors"
    BY <1>0, <1>11 DEF UpsertEvent, Goto, TypeOK
  <2>2. Cur(t).id \in Events /\ call[t].pos \in DOMAIN Entries(t)
    BY <1>0, <2>1, InGame, CurType
  <2>3. Cur(t).id \in Games(call[t].board, call[t].got)
    BY <2>2, ScoreboardAssumption DEF Games, Cur, Entries
  <2>4. Cur(t).id \in Keys \cap OwnRows(t)
    BY <2>2, <2>3, ScoreboardAssumption DEF OwnRows
  <2>5. UNCHANGED txVars \/ \E k \in Keys \cap OwnRows(t) : TxLock(t, k)
    BY <1>11, <2>4 DEF UpsertEvent
  <2>6. QED
    BY <1>9, <2>1, <2>5 DEF Looping
<1>12. CASE CreateCompetitor(t)
  <2> DEFINE x == Cur(t).teams[call[t].idx]
  <2>1. pc[t] = "competitors" /\ pc'[t] \in {"competitors", "rollback"}
    BY <1>0, <1>12 DEF CreateCompetitor, TypeOK
  <2>2. UNCHANGED txVars \/ \E k \in Keys \cap OwnRows(t) : TxLock(t, k)
    <3>1. CASE x = NoId
      BY <1>12, <3>1 DEF CreateCompetitor
    <3>2. CASE x # NoId
      <4>1. call[t].idx <= Len(Cur(t).teams)
        BY <1>12 DEF CreateCompetitor
      <4>2. x \in Keys
        BY <2>1, <3>2, <4>1, LockedKeys
      <4>3. call[t].pos \in DOMAIN Entries(t) /\ call[t].idx \in DOMAIN Cur(t).teams
        BY <1>0, <1>12, <2>1, InGame, CurType, CompetitorStep
      <4>4. x \in TeamsOn(call[t].board, call[t].got)
        BY <3>2, <4>3, TeamListed
      <4>5. x \in Keys \cap OwnRows(t)
        BY <4>2, <4>4 DEF OwnRows
      <4>6. TxLock(t, x)
        BY <1>12, <3>2 DEF CreateCompetitor
      <4>7. QED
        BY <4>5, <4>6
    <3>3. QED
      BY <3>1, <3>2
  <2>3. QED
    BY <1>9, <2>1, <2>2 DEF Looping
<1>13. QED
  BY <1>7, <1>8, <1>10, <1>11, <1>12 DEF LockStep

(* A call that does not move locks nothing, and its rows stay its own. *)
LEMMA OwnSame ==
  ASSUME NEW u \in Tasks, LocksOwn(u),
         pc'[u] = pc[u], call'[u] = call[u],
         pc[u] \in InTx => conn'[u] = conn[u] /\
           \A k \in Keys : lock'[k] = conn[u] => lock[k] = conn[u]
  PROVE  LocksOwn(u)'
<1>1. OwnRows(u)' = OwnRows(u) /\ League(u)' = League(u)
  BY DEF OwnRows, League
<1>2. CASE pc[u] \in InTx
  BY <1>1, <1>2 DEF LocksOwn
<1>3. CASE pc[u] \notin InTx
  BY <1>3 DEF LocksOwn, InTx, Looping
<1>4. QED
  BY <1>2, <1>3

(* Every step leaves every call with locks on its own rows only. *)
LEMMA LocksOwnStep ==
  ASSUME IInv, [Next]_vars, NEW u \in Tasks, LocksOwn(u)
  PROVE  LocksOwn(u)'
<1> USE PoolAssumption
<1>0. TypeOK /\ TxInv /\ LocksHeld /\ TypeOK'
  BY TypeStep DEF IInv, GamesInv
<1>c. conn \in [Tasks -> Conns \cup {NoConn}] /\ lock \in [Keys -> Conns \cup {NoConn}]
  BY <1>0 DEF TypeOK, TxTypeOK
<1>i. pc[u] \in InTx => conn[u] # NoConn
  BY <1>0 DEF LocksHeld
<1>o. pc'[u] \in {"idle", "begin", "rollback"} => LocksOwn(u)'
  BY DEF LocksOwn, Looping
<1>1. ASSUME pc'[u] = pc[u], call'[u] = call[u], UNCHANGED txVars
      PROVE  LocksOwn(u)'
  BY <1>1, OwnSame DEF txVars
<1>2. CASE UNCHANGED vars \/ \E l \in Leagues : Publish(l)
  BY <1>1, <1>2 DEF vars, txVars, Publish
<1>3. ASSUME NEW t \in Tasks, NEW b \in Boards, IngestScoreboard(t, b) PROVE LocksOwn(u)'
  <2>1. CASE u = t
    <3>1. pc'[u] = "begin"
      BY <1>0, <1>3, <2>1 DEF IngestScoreboard, Goto, TypeOK
    <3>2. QED
      BY <1>o, <3>1
  <2>2. CASE u # t
    BY <1>0, <1>1, <1>3, <2>2 DEF IngestScoreboard, Goto, TypeOK
  <2>3. QED
    BY <2>1, <2>2
<1>4. ASSUME NEW t \in Tasks, Begin(t) PROVE LocksOwn(u)'
  <2>1. PICK c \in Conns \ busy : conn' = [conn EXCEPT ![t] = c] /\ lock' = lock
    BY <1>4 DEF Begin, TxBegin
  <2>2. pc' = [pc EXCEPT ![t] = "sport"] /\ call' = call
    BY <1>4 DEF Begin, Goto
  <2>3. CASE u = t
    <3>1. pc'[u] = "sport" /\ conn'[u] = c
      BY <1>0, <1>c, <2>1, <2>2, <2>3 DEF TypeOK
    <3>2. \A k \in Keys : lock[k] # c
      BY <1>0, <2>1 DEF TxInv
    <3>3. QED
      BY <2>1, <3>1, <3>2 DEF LocksOwn
  <2>4. CASE u # t
    <3>1. pc'[u] = pc[u] /\ conn'[u] = conn[u] /\ call'[u] = call[u] /\ lock' = lock
      BY <1>0, <1>c, <2>1, <2>2, <2>4 DEF TypeOK
    <3>2. QED
      BY <3>1, OwnSame
  <2>5. QED
    BY <2>3, <2>4
<1>5. ASSUME NEW t \in Tasks, BeginFails(t) PROVE LocksOwn(u)'
  <2>1. /\ pc'[t] = "idle" /\ UNCHANGED txVars
        /\ u # t => pc'[u] = pc[u] /\ call'[u] = call[u]
    BY <1>0, <1>5 DEF BeginFails, Return, TypeOK
  <2>2. QED
    BY <1>1, <1>o, <2>1
<1>6. ASSUME NEW t \in Tasks, InnerStep(t) PROVE LocksOwn(u)'
  <2>1. /\ OthersSame(t) /\ conn' = conn
        /\ UNCHANGED txVars \/ \E k \in Keys : TxLock(t, k)
        /\ pc[t] \in InTx
    BY <1>6, InnerStepIs
  <2>2. CASE u # t
    <3>1. pc'[u] = pc[u] /\ call'[u] = call[u]
      BY <2>1, <2>2 DEF OthersSame
    <3>2. pc[u] \in InTx => conn[u] # conn[t]
      BY <1>0, <1>i, <2>2 DEF TxInv
    <3>3. lock' = lock \/ \E k \in Keys : lock' = [lock EXCEPT ![k] = conn[t]]
      BY <2>1 DEF txVars, TxLock
    <3>4. pc[u] \in InTx => \A k \in Keys : lock'[k] = conn[u] => lock[k] = conn[u]
      BY <1>c, <3>2, <3>3
    <3>5. QED
      BY <2>1, <3>1, <3>4, OwnSame
  <2>3. CASE u = t
    <3>1. CASE LockStep(t)
      BY <2>3, <3>1, OwnLockStep
    <3>2. CASE DeadlockAbort(t) \/ Fail(t)
      <4>1. pc'[t] = "rollback"
        BY <1>0, <3>2 DEF DeadlockAbort, Fail, TypeOK
      <4>2. QED
        BY <1>o, <2>3, <4>1
    <3>3. CASE Fetch(t)
      <4>1. /\ pc[t] = "fetch" /\ pc'[t] \in {"venue", "commit"} /\ lock' = lock
            /\ call'[t].board = call[t].board
        BY <1>0, <3>3 DEF Fetch, Goto, TypeOK, Locals, txVars
      <4>2. League(t)' = League(t)
        BY <4>1 DEF League
      <4>3. \A k \in Keys : lock[k] = conn[t] => k \in OwnRows(t)'
        BY <2>3, <4>1, <4>2 DEF LocksOwn, OwnRows
      <4>4. QED
        BY <2>1, <2>3, <4>1, <4>3 DEF LocksOwn, Looping
    <3>4. CASE SkipEntry(t) \/ EventEnds(t) \/ LoopEnds(t)
      <4>1. /\ pc[t] \in Looping /\ pc'[t] \in {"venue", "commit"} /\ lock' = lock
            /\ call'[t].board = call[t].board /\ call'[t].got = call[t].got
        <5>1. /\ pc[t] \in Looping /\ pc'[t] \in {"venue", "commit"} /\ lock' = lock
          BY <1>0, <3>4 DEF SkipEntry, EventEnds, LoopEnds, Goto, TypeOK, txVars, Looping
        <5>2. CASE SkipEntry(t)
          BY <1>0, <5>1, <5>2 DEF SkipEntry, TypeOK, Locals
        <5>3. CASE EventEnds(t)
          BY <1>0, <5>1, <5>3 DEF EventEnds, TypeOK, Locals
        <5>4. CASE LoopEnds(t)
          BY <5>1, <5>4 DEF LoopEnds
        <5>5. QED
          BY <3>4, <5>2, <5>3, <5>4
      <4>2. OwnRows(t)' = OwnRows(t)
        BY <4>1 DEF OwnRows, League
      <4>3. QED
        BY <2>1, <2>3, <4>1, <4>2 DEF LocksOwn, Looping
    <3>5. QED
      BY <1>6, <3>1, <3>2, <3>3, <3>4 DEF InnerStep
  <2>4. QED
    BY <2>2, <2>3
<1>7. ASSUME NEW t \in Tasks, EndStep(t) PROVE LocksOwn(u)'
  <2>1. /\ OthersSame(t) /\ pc'[t] = "idle"
        /\ conn' = [conn EXCEPT ![t] = NoConn]
        /\ lock' = lock \/ lock' = Released({conn[t]})
    BY <1>7, EndStepIs
  <2>2. CASE u = t
    BY <1>o, <2>1, <2>2
  <2>3. CASE u # t
    <3>1. pc'[u] = pc[u] /\ call'[u] = call[u] /\ conn'[u] = conn[u]
      BY <1>c, <2>1, <2>3 DEF OthersSame
    <3>2. pc[u] \in InTx => \A k \in Keys : lock'[k] = conn[u] => lock[k] = conn[u]
      BY <1>i, <2>1 DEF Released
    <3>3. QED
      BY <3>1, <3>2, OwnSame
  <2>4. QED
    BY <2>2, <2>3
<1>8. ASSUME NEW p \in Procs, Crash(p) PROVE LocksOwn(u)'
  <2>1. CASE TaskProc[u] = p
    <3>1. pc'[u] = "idle"
      BY <1>8, <2>1 DEF Crash
    <3>2. QED
      BY <1>o, <3>1
  <2>2. CASE TaskProc[u] # p
    <3>1. pc'[u] = pc[u] /\ call'[u] = call[u] /\ conn'[u] = conn[u]
      BY <1>8, <2>2 DEF Crash, TxCrash
    <3>2. pc[u] \in InTx => \A k \in Keys : lock'[k] = conn[u] => lock[k] = conn[u]
      BY <1>8, <1>i DEF Crash, TxCrash, Released
    <3>3. QED
      BY <3>1, <3>2, OwnSame
  <2>3. QED
    BY <2>1, <2>2
<1>9. QED
  BY <1>2, <1>3, <1>4, <1>5, <1>6, <1>7, <1>8
     DEF Next, Proceed, Fault, EndStep, InnerStep
-----------------------------------------------------------------------------
(* The whole invariant: games, counts and locks. *)
THEOREM ScoreboardInvHolds == Spec => []ScoreboardInv
<1> DEFINE Counts == \A t \in Tasks : Progress(t)
           Locks == \A t \in Tasks : LocksOwn(t)
<1>1. Init => Counts /\ Locks
  BY DEF Init, Progress, LocksOwn, Looping
<1>2. IInv /\ Counts /\ [Next]_vars => Counts'
  BY ProgressStep
<1>3. IInv /\ Locks /\ [Next]_vars => Locks'
  BY LocksOwnStep
<1>4. IInv /\ Counts /\ Locks => ScoreboardInv
  BY DEF IInv, ScoreboardInv
<1>5. QED
  BY <1>1, <1>2, <1>3, <1>4, InductiveInv, PTL DEF Spec

(* Only Commit ends a call with success. *)
LEMMA SuccessIsCommit ==
  ASSUME IInv, [Next]_vars, NEW u \in Tasks,
         pc[u] = "commit", outcome'[u] = "ok", pc'[u] = "idle"
  PROVE  Commit(u)
<1>0. TypeOK
  BY DEF IInv
<1>1. ASSUME NEW t \in Tasks, InnerStep(t) PROVE FALSE
  <2>1. OthersSame(t) /\ pc'[t] \in InTx
    BY <1>1, InnerStepIs
  <2>2. QED
    BY <2>1 DEF OthersSame, InTx
<1>2. ASSUME NEW t \in Tasks, EndStep(t) PROVE Commit(u)
  <2>1. OthersSame(t)
    BY <1>2, EndStepIs
  <2>2. u = t
    BY <2>1 DEF OthersSame
  <2>3. CASE CommitFails(t) \/ Rollback(t) \/ Panic(t)
    <3>1. outcome'[t] \in {"error", "panic"}
      BY <1>0, <2>3 DEF CommitFails, Rollback, Panic, Return, TypeOK
    <3>2. QED
      BY <2>2, <3>1
  <2>4. QED
    BY <1>2, <2>2, <2>3 DEF EndStep
<1>3. ASSUME NEW t \in Tasks, NEW b \in Boards,
             IngestScoreboard(t, b) \/ Begin(t) \/ BeginFails(t)
      PROVE  FALSE
  BY <1>0, <1>3 DEF IngestScoreboard, Begin, BeginFails, Goto, Return, TypeOK
<1>4. ASSUME NEW p \in Procs, Crash(p) PROVE FALSE
  <2>1. TaskProc[u] = p
    BY <1>4 DEF Crash
  <2>2. outcome'[u] = "none"
    BY <1>4, <2>1 DEF Crash
  <2>3. QED
    BY <2>2
<1>5. ~UNCHANGED vars /\ ~(\E l \in Leagues : Publish(l))
  BY DEF vars, Publish
<1>6. QED
  BY <1>1, <1>2, <1>3, <1>4, <1>5, ScoreboardAssumption
     DEF Next, Proceed, Fault, EndStep, InnerStep

(* A successful call has accounted for every entry of its scoreboard, and its
   Created is the number of games its commit added, although other calls commit
   meanwhile (IngestScoreboard's IngestionResult). *)
THEOREM CountsHold == Spec => CountsAreRows
<1> DEFINE Right(t) ==
      pc[t] = "commit" /\ outcome'[t] = "ok" /\ pc'[t] = "idle" =>
        /\ call[t].created + call[t].updated + call[t].errors = Len(Entries(t))
        /\ call[t].created =
             Cardinality({e \in Events : store.events[e] = Absent
                                           /\ store'.events[e] # Absent})
<1>1. ASSUME IInv, [Next]_vars, NEW t \in Tasks, Progress(t) PROVE Right(t)
  <2> SUFFICES ASSUME pc[t] = "commit", outcome'[t] = "ok", pc'[t] = "idle"
               PROVE  /\ call[t].created + call[t].updated + call[t].errors
                           = Len(Entries(t))
                      /\ call[t].created =
                           Cardinality({e \in Events : store.events[e] = Absent
                                                         /\ store'.events[e] # Absent})
    OBVIOUS
  <2>0. TypeOK
    BY <1>1 DEF IInv
  <2>1. store' = Committed(t)
    BY <1>1, SuccessIsCommit DEF Commit
  <2>2. {e \in Events : store.events[e] = Absent /\ store'.events[e] # Absent}
          = NewGames(t)
    BY <2>0, <2>1, CommittedType DEF NewGames
  <2>3. Counted(t) /\ call[t].pos = Len(Entries(t)) + 1
    BY <1>1 DEF Progress
  <2>4. call[t].created \in Nat /\ Len(Entries(t)) \in Nat
    BY <2>0, CallType, EntryType DEF TypeOK, Locals, Entries
  <2>5. call[t].created = Cardinality(NewGames(t))
    BY <2>3, <2>4 DEF Counted
  <2>6. call[t].created + call[t].updated + call[t].errors = Len(Entries(t))
    BY <2>3, <2>4 DEF Counted
  <2>7. QED
    BY <2>2, <2>5, <2>6
<1>2. IInv /\ ScoreboardInv /\ [Next]_vars => [\A t \in Tasks : Right(t)]_vars
  BY <1>1 DEF ScoreboardInv
<1>3. CountsAreRows <=> [][\A t \in Tasks : Right(t)]_vars
  BY DEF CountsAreRows
<1>4. QED
  BY <1>2, <1>3, InductiveInv, ScoreboardInvHolds, PTL DEF Spec
-----------------------------------------------------------------------------
(* What a task waits for, where it is. *)
LEMMA WantsIs ==
  ASSUME IInv, NEW t \in Tasks, Wants(t) # NoId
  PROVE  \/ pc[t] = "sport" /\ Wants(t) \in Sports
         \/ pc[t] = "league" /\ Wants(t) = League(t)
         \/ pc[t] = "venue" /\ Wants(t) \in Venues
         \/ pc[t] = "event" /\ Wants(t) \in Games(call[t].board, call[t].got)
         \/ pc[t] = "competitors" /\ Wants(t) \in TeamsOn(call[t].board, call[t].got)
<1>1. ASSUME pc[t] = "sport" PROVE Wants(t) = SportOf[League(t)]
  BY <1>1, Zenon DEF Wants
<1>2. ASSUME pc[t] = "league" PROVE Wants(t) = League(t)
  BY <1>2, ZenonT(30) DEF Wants
<1>3. ASSUME pc[t] = "venue" PROVE Wants(t) = IF call[t].pos <= Len(Entries(t)) THEN Cur(t).venue ELSE NoId
  BY <1>3, ZenonT(30) DEF Wants
<1>4. ASSUME pc[t] = "event" PROVE Wants(t) = Cur(t).id
  BY <1>4, ZenonT(30) DEF Wants
<1>5. ASSUME pc[t] = "competitors"
      PROVE  Wants(t) = IF call[t].idx <= Len(Cur(t).teams)
                        THEN Cur(t).teams[call[t].idx] ELSE NoId
  BY <1>5, ZenonT(30) DEF Wants
<1>6. ASSUME pc[t] \notin {"sport", "league"} \cup Looping PROVE Wants(t) = NoId
  BY <1>6, ZenonT(30) DEF Wants, Looping
<1>7. TypeOK
  BY DEF IInv
<1>8. ASSUME pc[t] = "sport" PROVE Wants(t) \in Sports
  BY <1>1, <1>7, <1>8, CallType
<1>9. ASSUME pc[t] = "venue" PROVE Wants(t) \in Venues
  BY <1>3, <1>7, <1>9, CurType
<1>10. ASSUME pc[t] = "event" PROVE Wants(t) \in Games(call[t].board, call[t].got)
  <2>1. Cur(t).id \in Events /\ call[t].pos \in DOMAIN Entries(t)
    BY <1>7, <1>10, InGame, CurType
  <2>2. QED
    BY <1>4, <1>10, <2>1, ScoreboardAssumption DEF Games, Cur, Entries
<1>11. ASSUME pc[t] = "competitors"
       PROVE  Wants(t) \in TeamsOn(call[t].board, call[t].got)
  <2>1. call[t].idx <= Len(Cur(t).teams) /\ Wants(t) = Cur(t).teams[call[t].idx]
    BY <1>5, <1>11
  <2>2. call[t].pos \in DOMAIN Entries(t) /\ call[t].idx \in DOMAIN Cur(t).teams
    BY <1>7, <1>11, <2>1, InGame, CurType, CallType
  <2>3. QED
    BY <2>1, <2>2, TeamListed
<1>12. QED
  BY <1>2, <1>6, <1>8, <1>9, <1>10, <1>11 DEF Looping

(* A call the others wait for is in its loop: before its sport's row it has locked
   nothing, and whoever wants a sport's row has locked nothing either. *)
LEMMA WaitedForIsLooping ==
  ASSUME IInv, \A t \in Tasks : LocksOwn(t), NEW D \in SUBSET Tasks,
         \A u \in D : (\E w \in D : WaitsFor(u, w)) /\ (\E w \in D : WaitsFor(w, u))
  PROVE  \A u \in D : pc[u] \in Looping
<1>t. \A u \in Tasks : /\ Games(call[u].board, call[u].got) \subseteq Events
                        /\ TeamsOn(call[u].board, call[u].got) \subseteq Teams
                        /\ League(u) \in Leagues /\ SportOf[League(u)] \in Sports
  BY CallType, GamesOnBoard DEF IInv
<1>w. ASSUME NEW u \in Tasks, Wants(u) # NoId
      PROVE  \/ pc[u] = "sport"
             \/ Wants(u) \in Leagues \cup Venues \cup Events \cup Teams
  BY <1>t, <1>w, WantsIs
<1>k. \A u \in Tasks : Wants(u) # NoId => Wants(u) \in Keys
  <2> SUFFICES ASSUME NEW u \in Tasks, Wants(u) # NoId PROVE Wants(u) \in Keys
    OBVIOUS
  <2>1. \/ Wants(u) \in Sports \cup Leagues \cup Venues
        \/ Wants(u) \in Events \cup Teams
    BY <1>t, WantsIs
  <2>2. QED
    BY <2>1, ScoreboardAssumption
<1>1. ASSUME NEW u \in D PROVE pc[u] # "sport"
  <2>1. PICK w \in D : WaitsFor(w, u)
    OBVIOUS
  <2>2. Wants(w) \in Keys /\ lock[Wants(w)] = conn[u]
    BY <1>k, <2>1 DEF WaitsFor
  <2>3. QED
    BY <2>2 DEF LocksOwn
<1>2. ASSUME NEW u \in D PROVE pc[u] # "league"
  <2> SUFFICES ASSUME pc[u] = "league" PROVE FALSE
    OBVIOUS
  <2>1. PICK w \in D : WaitsFor(w, u)
    OBVIOUS
  <2>2. Wants(w) # NoId /\ Wants(w) \in Keys /\ lock[Wants(w)] = conn[u]
    BY <1>k, <2>1 DEF WaitsFor
  <2>3. Wants(w) \in Sports
    BY <1>t, <2>2 DEF LocksOwn
  <2>4. Wants(w) \notin Leagues \cup Venues \cup Events \cup Teams
    BY <2>3, ScoreboardAssumption
  <2>5. pc[w] = "sport"
    BY <1>w, <2>2, <2>4
  <2>6. QED
    BY <1>1, <2>5
<1>3. ASSUME NEW u \in D PROVE pc[u] \in {"sport", "league"} \cup Looping
  <2>1. Wants(u) # NoId
    BY DEF WaitsFor
  <2>2. QED
    BY <2>1, WantsIs DEF Looping
<1>4. QED
  BY <1>1, <1>2, <1>3

(* Calls that wait for each other in a circle wait for venues, which calls of
   several sports lock in the order of their scoreboards: every other row is
   covered by the lock on its sport (resolveSportLeague). *)
THEOREM OnlyVenuesCircle == Spec => []CirclesAreVenues
<1>1. ASSUME IInv, \A t \in Tasks : LocksOwn(t) PROVE CirclesAreVenues
  <2> SUFFICES ASSUME NEW t \in Tasks, Deadlocked(t) PROVE Wants(t) \in Venues
    BY DEF CirclesAreVenues
  <2>0. TypeOK /\ TxInv /\ LocksHeld
    BY <1>1 DEF IInv, GamesInv
  <2>1. PICK D \in SUBSET Tasks :
          /\ t \in D
          /\ \A u \in D : (\E w \in D : WaitsFor(u, w)) /\ (\E w \in D : WaitsFor(w, u))
    BY DEF Deadlocked
  <2>2. \A u \in D : pc[u] \in Looping
    BY <1>1, <2>1, WaitedForIsLooping
  <2>3. PICK w \in D : WaitsFor(t, w)
    BY <2>1
  <2>4. Wants(t) # NoId /\ t # w /\ lock[Wants(t)] = conn[w] /\ w \in Tasks
    BY <2>3 DEF WaitsFor
  <2> DEFINE k == Wants(t)
             G(u) == Games(call[u].board, call[u].got)
             T(u) == TeamsOn(call[u].board, call[u].got)
  <2>5. k \in Venues \/ k \in G(t) \/ k \in T(t)
    BY <1>1, <2>1, <2>2, <2>4, WantsIs DEF Looping
  <2>6. \A u \in Tasks : /\ G(u) \subseteq Events /\ T(u) \subseteq Teams
                         /\ League(u) \in Leagues /\ SportOf[League(u)] \in Sports
    BY <2>0, CallType, GamesOnBoard
  <2>7. k \in Keys
    BY <2>5, <2>6, ScoreboardAssumption
  <2>8. k \in OwnRows(w)
    BY <1>1, <2>2, <2>4, <2>7 DEF LocksOwn
  <2>9. SUFFICES ASSUME k \notin Venues PROVE FALSE
    OBVIOUS
  <2>10. k \in G(w) \/ k \in T(w)
    <3>1. k \notin Sports /\ k \notin Leagues
      BY <2>5, <2>6, <2>9, ScoreboardAssumption
    <3>2. QED
      BY <2>4, <2>6, <2>8, <2>9, <3>1 DEF OwnRows
  <2>11. (k \in G(t) /\ k \in G(w)) \/ (k \in T(t) /\ k \in T(w))
    BY <2>4, <2>5, <2>6, <2>9, <2>10, ScoreboardAssumption
  <2>12. League(t) = League(w)
    BY <2>0, <2>4, <2>11, CallType, SharedIsLeague DEF League
  <2>13. SportOf[League(t)] # SportOf[League(w)]
    BY <2>0, <2>1, <2>2, <2>4, LocksSerialise DEF SportSerialised, Locked
  <2>14. QED
    BY <2>12, <2>13
<1>2. IInv /\ ScoreboardInv => CirclesAreVenues
  BY <1>1 DEF ScoreboardInv
<1>3. QED
  BY <1>2, InductiveInv, ScoreboardInvHolds, PTL
-----------------------------------------------------------------------------
(* A game on an entry is placed where the scoreboard lists it last. *)
LEMMA PlacedLast ==
  ASSUME NEW b \in Boards, NEW v \in Versions, NEW e, NEW f \in Source,
         f.board = b, f.ver = v, f.pos \in At(b, v, e),
         \A j \in At(b, v, e) : j <= f.pos
  PROVE  f = PlaceAt(b, v, e)
<1>1. At(b, v, e) \subseteq Nat
  BY EntryType DEF At
<1>2. \A i \in At(b, v, e) : (\A j \in At(b, v, e) : j <= i) => i = f.pos
  BY <1>1
<1>3. Last(b, v, e) = f.pos
  BY <1>2 DEF Last
<1>4. QED
  BY <1>3 DEF PlaceAt, Source

(* A commit leaves every game of the scoreboard where it is listed last, with
   that entry's competitors, and every other game as it was. *)
LEMMA CommitStores ==
  ASSUME IInv, NEW t \in Tasks, pc[t] = "commit", Progress(t), store' = Committed(t)
  PROVE  LET b == call[t].board
             v == call[t].got
         IN  \A e \in Events :
               /\ e \in Games(b, v) =>
                    /\ store'.events[e] = PlaceAt(b, v, e)
                    /\ store'.competitors[e] = CompetitorsOf(PlaceAt(b, v, e))
               /\ e \notin Games(b, v) =>
                    /\ store'.events[e] = store.events[e]
                    /\ store'.competitors[e] = store.competitors[e]
<1> DEFINE b == call[t].board
           v == call[t].got
<1>0. TypeOK /\ Writes(t)
  BY DEF IInv, GamesInv
<1>1. b \in Boards /\ v \in Versions /\ call[t].pos \in Nat
  BY <1>0, CallType
<1>2. PassedWritten(t) /\ call[t].pos = Len(Entries(t)) + 1
  BY DEF Progress
<1>3. DOMAIN Entries(t) = 1..Len(Entries(t)) /\ Len(Entries(t)) \in Nat
  BY <1>1, EntryType DEF Entries
<1>4. Passed(t) = DOMAIN Entries(t)
  BY <1>2, <1>3 DEF Passed
<1> SUFFICES ASSUME NEW e \in Events
             PROVE  /\ e \in Games(b, v) =>
                         /\ store'.events[e] = PlaceAt(b, v, e)
                         /\ store'.competitors[e] = CompetitorsOf(PlaceAt(b, v, e))
                    /\ e \notin Games(b, v) =>
                         /\ store'.events[e] = store.events[e]
                         /\ store'.competitors[e] = store.competitors[e]
  OBVIOUS
<1>5. CASE e \in Games(b, v)
  <2> DEFINE f == write[t].events[e]
  <2>1. e # NoId
    BY ScoreboardAssumption
  <2>2. PICK i \in DOMAIN Entries(t) : Entries(t)[i].id = e
    BY <1>5 DEF Games, Entries
  <2>3. f # Absent
    BY <1>2, <1>4, <2>1, <2>2 DEF PassedWritten
  <2>4. GameWritten(t, e) /\ f \in Source
    BY <1>0, <2>3 DEF Writes, TypeOK, Tables
  <2>5. /\ f.board = b /\ f.ver = v /\ f.pos \in At(b, v, e)
        /\ write[t].competitors[e] = CompetitorsOf(f)
    BY <2>4 DEF GameWritten, At, Entries
  <2>6. \A j \in At(b, v, e) : j <= f.pos
    BY <1>2, <1>4, <2>1 DEF PassedWritten, At, Entries
  <2>7. f = PlaceAt(b, v, e)
    BY <1>1, <2>4, <2>5, <2>6, PlacedLast
  <2>8. store'.events[e] = f /\ store'.competitors[e] = write[t].competitors[e]
    BY <1>0, <2>3, CommittedType
  <2> HIDE DEF f
  <2>9. QED
    BY <1>5, <2>5, <2>7, <2>8
<1>6. CASE e \notin Games(b, v)
  <2>1. write[t].events[e] = Absent
    BY <1>6, WrittenIsListed
  <2>2. QED
    BY <1>0, <1>6, <2>1, CommittedType
<1>7. QED
  BY <1>5, <1>6

(* Readers of games and their competitors see what EventBoard allows: whole
   scoreboards replace one another and no game goes back, whatever calls do
   concurrently (IngestScoreboard against EventBoard). *)
THEOREM ImplementsBoard == Spec => BoardSpec
<1>1. Init => Board!Init
  BY DEF Init, Nothing, Board!Init
<1>2. IInv /\ IInv' /\ ScoreboardInv /\ [Next]_vars => [Board!Next]_(Board!vars)
  <2> SUFFICES ASSUME IInv, IInv', ScoreboardInv, [Next]_vars,
                      ~UNCHANGED <<published, store.events, store.competitors>>
               PROVE  Board!Next
    BY DEF Board!vars
  <2>0. TypeOK /\ TypeOK'
    BY DEF IInv
  <2>1. ASSUME NEW l \in Leagues, Publish(l) PROVE Board!Next
    <3>1. Board!Publish(l)
      BY <2>1 DEF Publish, Board!Publish
    <3>2. QED
      BY <3>1 DEF Board!Next
  <2>2. ASSUME NEW t \in Tasks, EndStep(t) PROVE Board!Next
    <3> DEFINE b == call[t].board
               v == call[t].got
    <3>1. /\ published' = published
          /\ store' = store \/ (pc[t] = "commit" /\ store' = Committed(t))
      BY <2>2, EndStepIs
    <3>2. pc[t] = "commit" /\ store' = Committed(t)
      BY <3>1
    <3>3. b \in Boards /\ v \in Versions /\ LeagueOf[b] \in Leagues
      BY <2>0, CallType DEF League
    <3>4. v \in 0..published[LeagueOf[b]]
      <4>1. v <= published[LeagueOf[b]] /\ published[LeagueOf[b]] \in Nat /\ v \in Nat
        BY <2>0, <3>2, <3>3, ScoreboardAssumption
           DEF IInv, GamesInv, Fresh, League, TypeOK, Versions
      <4>2. QED
        BY <4>1
    <3>5. /\ store.events \in [Events -> Source \cup {Absent}]
          /\ store'.events \in [Events -> Source \cup {Absent}]
          /\ store.competitors \in [Events -> SUBSET [team : Teams, from : Source]]
          /\ store'.competitors \in [Events -> SUBSET [team : Teams, from : Source]]
      BY <2>0 DEF TypeOK, Tables
    <3>6. store'.events # store.events
      <4>1. ASSUME store'.events = store.events
            PROVE  \A e \in Events : store'.competitors[e] = store.competitors[e]
        <5> SUFFICES ASSUME NEW e \in Events
                     PROVE  store'.competitors[e] = store.competitors[e]
          OBVIOUS
        <5>1. GameIsWhole(e) /\ GameIsWhole(e)'
          BY DEF IInv, GamesInv, GamesAreWhole
        <5>2. CASE store.events[e] = Absent
          BY <4>1, <5>1, <5>2 DEF GameIsWhole
        <5>3. CASE store.events[e] # Absent
          <6>1. store.competitors[e] = CompetitorsOf(store.events[e])
            BY <5>1, <5>3 DEF GameIsWhole
          <6>2. store'.competitors[e] = CompetitorsOf(store'.events[e])
            BY <4>1, <5>1, <5>3 DEF GameIsWhole
          <6>3. QED
            BY <4>1, <6>1, <6>2
        <5>4. QED
          BY <5>2, <5>3
      <4>2. ASSUME store'.events = store.events
            PROVE  store'.competitors = store.competitors
        BY <3>5, <4>1, <4>2
      <4>3. QED
        BY <3>1, <4>2
    <3>7. \A e \in Games(b, v) : store.events[e] # Absent => store.events[e].ver <= v
      <4> SUFFICES ASSUME NEW e \in Games(b, v), store.events[e] # Absent
                   PROVE  store.events[e].ver <= v
        OBVIOUS
      <4>1. e \in Events
        BY <3>3, GamesOnBoard
      <4>2. GameIsWhole(e) /\ store.events[e] \in Source
        BY <2>0, <4>1 DEF IInv, GamesInv, GamesAreWhole, TypeOK, Tables
      <4>3. e \in Games(store.events[e].board, store.events[e].ver)
        <5> DEFINE T == Scoreboard[store.events[e].board][store.events[e].ver]
        <5>1. store.events[e].pos \in DOMAIN T /\ T[store.events[e].pos].id = e
          BY <4>2 DEF GameIsWhole
        <5>2. e # NoId
          BY <4>1, ScoreboardAssumption
        <5> HIDE DEF T
        <5>3. e \in {T[i].id : i \in DOMAIN T} \ {NoId}
          BY <5>1, <5>2
        <5>4. QED
          BY <5>3 DEF T, Games
      <4>4. LeagueOf[store.events[e].board] = League(t)
        BY <3>3, <4>2, <4>3, SharedIsLeague DEF League, Source
      <4>5. QED
        BY <3>2, <4>1, <4>4 DEF IInv, GamesInv, Fresh
    <3>8. Progress(t)
      BY DEF ScoreboardInv
    <3>9. \A e \in Events :
             /\ e \in Games(b, v) =>
                  /\ store'.events[e] = PlaceAt(b, v, e)
                  /\ store'.competitors[e] = CompetitorsOf(PlaceAt(b, v, e))
             /\ e \notin Games(b, v) =>
                  /\ store'.events[e] = store.events[e]
                  /\ store'.competitors[e] = store.competitors[e]
      BY <3>2, <3>8, CommitStores
    <3>10. store'.events = [e \in Events |->
             IF e \in Games(b, v) THEN PlaceAt(b, v, e) ELSE store.events[e]]
      BY <3>5, <3>9
    <3>11. store'.competitors = [e \in Events |->
             IF e \in Games(b, v) THEN CompetitorsOf(PlaceAt(b, v, e))
                                  ELSE store.competitors[e]]
      BY <3>5, <3>9
    <3> HIDE DEF b, v
    <3>12. Board!Store(b)
      BY <3>1, <3>4, <3>6, <3>7, <3>10, <3>11 DEF Board!Store
    <3>13. QED
      BY <3>3, <3>12 DEF Board!Next
  <2>3. ASSUME NEW t \in Tasks, NEW b \in Boards,
               InnerStep(t) \/ IngestScoreboard(t, b) \/ Begin(t) \/ BeginFails(t)
        PROVE  FALSE
    <3>1. published' = published /\ store' = store
      BY <2>3, InnerStepIs DEF IngestScoreboard, Begin, BeginFails
    <3>2. QED
      BY <3>1
  <2>4. ~UNCHANGED vars /\ ~(\E p \in Procs : Crash(p))
    BY DEF vars, Crash
  <2>5. QED
    BY <2>1, <2>2, <2>3, <2>4, ScoreboardAssumption
       DEF Next, Proceed, Fault, EndStep, InnerStep
<1>3. QED
  BY <1>1, <1>2, InductiveInv, ScoreboardInvHolds, PTL DEF Spec, BoardSpec, Board!Spec
=============================================================================
