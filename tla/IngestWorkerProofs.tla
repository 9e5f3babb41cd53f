------------------------- MODULE IngestWorkerProofs --------------------------
(***************************************************************************)
(* Proofs about IngestWorker, for every set of jobs, units and runs, every *)
(* concurrency limit and every order of the jobs of a one-shot ingest.     *)
(***************************************************************************)
EXTENDS IngestWorker, FiniteSetTheorems, TLAPS

UnitState == {"none", "queued", "spawned", "ingesting", "hung",
              "ok", "error", "panic", "skipped"}

(* Moving one unit of one run keeps the type of unit. *)
LEMMA SetUnitType ==
  ASSUME TypeOK, NEW r \in Runs, NEW u \in Units, NEW from, NEW to \in UnitState,
         SetUnit(r, u, from, to)
  PROVE  unit' \in [Runs -> [Units -> UnitState]]
<1>1. unit \in [Runs -> [Units -> UnitState]]
  BY DEF TypeOK, UnitState
<1>2. [unit[r] EXCEPT ![u] = to] \in [Units -> UnitState]
  BY <1>1
<1>3. unit' = [unit EXCEPT ![r] = [unit[r] EXCEPT ![u] = to]]
  BY DEF SetUnit
<1>4. QED
  BY <1>1, <1>2, <1>3

(* Handing units to a run keeps the type of unit. *)
LEMMA QueuedType ==
  ASSUME TypeOK, NEW r \in Runs, NEW S, unit' = [unit EXCEPT ![r] = Queued(S)]
  PROVE  unit' \in [Runs -> [Units -> UnitState]]
<1>1. Queued(S) \in [Units -> UnitState]
  BY DEF Queued, UnitState
<1>2. QED
  BY <1>1 DEF TypeOK, UnitState

(* Every variable keeps its type, in both modes of the worker. *)
THEOREM WorkerTypeCorrect == Spec => []TypeOK
<1> USE WorkerAssumption
<1>1. Init => TypeOK
  <2>1. 1 \in 1..(Len(OnceJobs) + 1)
    <3>1. Len(OnceJobs) \in Nat
      OBVIOUS
    <3>2. QED
      BY <3>1
  <2>2. (CHOOSE j \in Jobs : TRUE) \in Jobs
    OBVIOUS
  <2>3. SUFFICES ASSUME Init PROVE TypeOK
    OBVIOUS
  <2>4. /\ next \in 1..(Len(OnceJobs) + 1)
        /\ job \in [Runs -> Jobs]
    BY <2>1, <2>2, <2>3 DEF Init
  <2>5. unit \in [Runs -> [Units -> UnitState]]
    BY <2>3 DEF Init, NoUnits, UnitState
  <2>6. created \in [Runs -> Nat] /\ errors \in [Runs -> Nat]
    BY <2>3 DEF Init
  <2>7. QED
    BY <2>3, <2>4, <2>5, <2>6 DEF Init, TypeOK, UnitState
<1>2. TypeOK /\ [Next]_vars => TypeOK'
  <2> SUFFICES ASSUME TypeOK, [Next]_vars PROVE TypeOK'
    OBVIOUS
  <2> USE DEF TypeOK, Enter, MainGoto, mainVars, runVars
  <2>1. ASSUME NEW r \in Runs, NEW j \in Jobs, Tick(r, j) PROVE TypeOK'
    BY <2>1 DEF Tick
  <2>2. ASSUME NEW r \in Runs, RunNext(r) PROVE TypeOK'
    <3>1. next + 1 \in 1..(Len(OnceJobs) + 1) /\ OnceJobs[next] \in Jobs
      BY <2>2 DEF RunNext
    <3>2. QED
      BY <2>2, <3>1 DEF RunNext
  <2>3. ASSUME NEW r \in Runs, RunJob(r) PROVE TypeOK'
    <3>1. /\ stage' \in [Runs -> {"unused", "fired", "listing", "spawning",
                                  "syncing", "hung", "returned"}]
          /\ UNCHANGED <<mainVars, job, expired, created, errors>>
      BY <2>3 DEF RunJob
    <3>2. unit' = unit \/ unit' = [unit EXCEPT ![r] = Queued(UnitsOf[job[r]])]
      BY <2>3 DEF RunJob
    <3>3. unit' \in [Runs -> [Units -> UnitState]]
      BY <3>2, QueuedType DEF UnitState
    <3>4. QED
      BY <3>1, <3>3 DEF UnitState
  <2>4. ASSUME NEW r \in Runs, Deadline(r) PROVE TypeOK'
    BY <2>4 DEF Deadline
  <2>5. ASSUME NEW r \in Runs, StuckEvents(r) PROVE TypeOK'
    <3>1. unit' \in [Runs -> [Units -> UnitState]]
      BY <2>5, QueuedType DEF StuckEvents
    <3>2. QED
      BY <2>5, <3>1 DEF StuckEvents, UnitState
  <2>6. ASSUME NEW r \in Runs,
               StuckEventsFails(r) \/ SyncReturns(r) \/ SyncFails(r) \/ SyncPanics(r)
        PROVE  TypeOK'
    <3>1. /\ UNCHANGED <<mainVars, job, expired, unit>>
          /\ stage' = [stage EXCEPT ![r] = "returned"]
      BY <2>6 DEF StuckEventsFails, SyncReturns, SyncFails, SyncPanics
    <3>2. created' = created \/ created' = [created EXCEPT ![r] = 1]
      BY <2>6 DEF StuckEventsFails, SyncReturns, SyncFails, SyncPanics
    <3>3. errors' = errors \/ \E n \in {0, 1} : errors' = [errors EXCEPT ![r] = n]
      BY <2>6 DEF StuckEventsFails, SyncReturns, SyncFails, SyncPanics
    <3>4. created' \in [Runs -> Nat] /\ errors' \in [Runs -> Nat]
      <4>1. created' \in [Runs -> Nat]
        <5>1. created \in [Runs -> Nat]
          OBVIOUS
        <5>2. [created EXCEPT ![r] = 1] \in [Runs -> Nat]
          BY <5>1
        <5>3. QED
          BY <3>2, <5>1, <5>2
      <4>2. ASSUME NEW n \in {0, 1}, errors' = [errors EXCEPT ![r] = n]
            PROVE  errors' \in [Runs -> Nat]
        BY <4>2
      <4>3. QED
        BY <3>3, <4>1, <4>2
    <3>5. stage' \in [Runs -> {"unused", "fired", "listing", "spawning",
                               "syncing", "hung", "returned"}]
      BY <3>1
    <3>6. QED
      BY <3>1, <3>4, <3>5
  <2>7. ASSUME NEW r \in Runs, NEW u \in Units, Go(r, u) \/ Look(r, u) \/ IngestHangs(r, u)
        PROVE  TypeOK'
    <3>1. unit' \in [Runs -> [Units -> UnitState]]
      BY <2>7, SetUnitType DEF Go, Look, IngestHangs, UnitState
    <3>2. QED
      BY <2>7, <3>1 DEF Go, Look, IngestHangs, UnitState
  <2>8. ASSUME NEW r \in Runs, NEW u \in Units,
               IngestReturns(r, u) \/ IngestFails(r, u) \/ IngestPanics(r, u)
        PROVE  TypeOK'
    <3>1. unit' \in [Runs -> [Units -> UnitState]]
      BY <2>8, SetUnitType DEF IngestReturns, IngestFails, IngestPanics, UnitState
    <3>2. created[r] + 1 \in Nat /\ errors[r] + 1 \in Nat
      OBVIOUS
    <3>3. created' \in [Runs -> Nat] /\ errors' \in [Runs -> Nat]
      <4>1. created' = created \/ created' = [created EXCEPT ![r] = created[r] + 1]
        BY <2>8 DEF IngestReturns, IngestFails, IngestPanics
      <4>2. errors' = errors \/ errors' = [errors EXCEPT ![r] = errors[r] + 1]
        BY <2>8 DEF IngestReturns, IngestFails, IngestPanics
      <4>3. created' \in [Runs -> Nat]
        BY <3>2, <4>1
      <4>4. errors' \in [Runs -> Nat]
        BY <3>2, <4>2
      <4>5. QED
        BY <4>3, <4>4
    <3>4. UNCHANGED <<mainVars, stage, job, expired>>
      BY <2>8 DEF IngestReturns, IngestFails, IngestPanics
    <3>5. QED
      BY <3>1, <3>3, <3>4 DEF UnitState
  <2>9. ASSUME NEW r \in Runs, QueryHangs(r) \/ Wait(r) PROVE TypeOK'
    BY <2>9 DEF QueryHangs, Wait
  <2>10. CASE Signal \/ Main
    BY <2>10 DEF Signal, Main, Stop, Cancel, Drained, DrainTimeout, OnceDone,
                 CloseDB, Exit
  <2>11. CASE UNCHANGED vars
    BY <2>11 DEF vars
  <2>12. QED
    BY <2>1, <2>2, <2>3, <2>4, <2>5, <2>6, <2>7, <2>8, <2>9, <2>10, <2>11
       DEF Next, Advance, Answered, Settle
<1>3. QED
  BY <1>1, <1>2, PTL DEF Spec
-----------------------------------------------------------------------------
(* Once the cron is stopped it stays stopped, and nothing but the cron and
   RunOnce starts a run: what DrainedIsQuiet needs to be inductive. *)
ShutdownInv ==
  /\ once => ~ticking
  /\ phase \in {"stopped", "draining", "closing", "closed"} => ~ticking
  /\ DrainedIsQuiet

(* An orderly shutdown closes the pools under no job. *)
THEOREM DrainSafe == Spec => []DrainedIsQuiet
<1>1. Init => ShutdownInv
  BY DEF Init, ShutdownInv, DrainedIsQuiet
<1>2. TypeOK /\ ShutdownInv /\ [Next]_vars => ShutdownInv'
  <2> SUFFICES ASSUME TypeOK, ShutdownInv, [Next]_vars PROVE ShutdownInv'
    OBVIOUS
  <2> USE DEF TypeOK, ShutdownInv, DrainedIsQuiet, Running, Enter, MainGoto,
              mainVars, runVars
  <2>1. ASSUME NEW r \in Runs, NEW j \in Jobs, Tick(r, j) PROVE ShutdownInv'
    BY <2>1 DEF Tick
  <2>2. ASSUME NEW r \in Runs, RunNext(r) PROVE ShutdownInv'
    BY <2>2 DEF RunNext
  <2>3. ASSUME UNCHANGED mainVars,
               \A r \in Runs : stage[r] \in {"unused", "returned"} => stage'[r] = stage[r]
        PROVE  ShutdownInv'
    BY <2>3
  <2>4. ASSUME NEW r \in Runs, Deadline(r) \/ Advance(r) \/ Answered(r)
        PROVE  ShutdownInv'
    <3>1. UNCHANGED mainVars
      BY <2>4 DEF Deadline, Advance, Answered, Settle, RunJob, Wait, Go, Look,
           StuckEvents, StuckEventsFails, SyncReturns, SyncFails, SyncPanics,
           QueryHangs, IngestReturns, IngestFails, IngestPanics, IngestHangs
    <3>2. \A s \in Runs : stage[s] \in {"unused", "returned"} => stage'[s] = stage[s]
      BY <2>4 DEF Deadline, Advance, Answered, Settle, RunJob, Wait, Go, Look,
           StuckEvents, StuckEventsFails, SyncReturns, SyncFails, SyncPanics,
           QueryHangs, IngestReturns, IngestFails, IngestPanics, IngestHangs
    <3>3. QED
      BY <2>3, <3>1, <3>2
  <2>5. CASE Signal \/ Main
    BY <2>5 DEF Signal, Main, Stop, Cancel, Drained, DrainTimeout, OnceDone,
                CloseDB, Exit
  <2>6. CASE UNCHANGED vars
    BY <2>6 DEF vars
  <2>7. QED
    BY <2>1, <2>2, <2>4, <2>5, <2>6 DEF Next
<1>3. ShutdownInv => DrainedIsQuiet
  BY DEF ShutdownInv
<1>4. QED
  BY <1>1, <1>2, <1>3, WorkerTypeCorrect, PTL DEF Spec
-----------------------------------------------------------------------------
(* Units exist for a run only while it spawns or has returned, and a returned
   run has settled all of them: what NoUnitLost needs to be inductive. *)
UnitPart(r) ==
  /\ stage[r] \in {"unused", "fired", "listing", "syncing", "hung"} =>
       \A u \in Units : unit[r][u] = "none"
  /\ stage[r] = "returned" => \A u \in Units : unit[r][u] \in Settled
  /\ (\E u \in Units : unit[r][u] = "skipped") => Over(r)

UnitInv == \A r \in Runs : UnitPart(r)

(* Contexts end for good. *)
StillOver == \A r \in Runs : Over(r) => Over(r)'

(* No step brings an ended context back. *)
LEMMA StillOverStep ==
  ASSUME TypeOK, [Next]_vars
  PROVE  StillOver
<1>1. cancelled => cancelled'
  BY DEF Next, Tick, RunNext, Deadline, Advance, Answered, Settle, Signal, Main,
         RunJob, Wait, Go, Look, StuckEvents, StuckEventsFails, SyncReturns,
         SyncFails, SyncPanics, QueryHangs, IngestReturns, IngestFails,
         IngestPanics, IngestHangs, Stop, Cancel, Drained, DrainTimeout,
         OnceDone, CloseDB, Exit, mainVars, vars
<1>2. expired' = expired \/ \E r \in Runs : expired' = [expired EXCEPT ![r] = TRUE]
  BY DEF Next, Tick, RunNext, Deadline, Advance, Answered, Settle, Signal, Main,
         RunJob, Wait, Go, Look, StuckEvents, StuckEventsFails, SyncReturns,
         SyncFails, SyncPanics, QueryHangs, IngestReturns, IngestFails,
         IngestPanics, IngestHangs, Stop, Cancel, Drained, DrainTimeout,
         OnceDone, CloseDB, Exit, runVars, vars
<1>3. \A r \in Runs : expired[r] => expired'[r]
  BY <1>2, Zenon DEF TypeOK
<1>4. QED
  BY <1>1, <1>3 DEF StillOver, Over

(* A run none of whose units changes keeps its part. *)
LEMMA UnitPartKept ==
  ASSUME NEW r \in Runs, UnitPart(r), StillOver, stage'[r] = stage[r], unit'[r] = unit[r]
  PROVE  UnitPart(r)'
<1>1. Over(r) => Over(r)'
  BY DEF StillOver
<1>2. QED
  BY <1>1 DEF UnitPart

(* A unit that is moved while its run spawns keeps the run's part. *)
LEMMA SetUnitKeeps ==
  ASSUME TypeOK, UnitInv, StillOver, NEW r \in Runs, NEW u \in Units, NEW from, NEW to,
         SetUnit(r, u, from, to), from \notin Settled, stage' = stage,
         to = "skipped" => Over(r)
  PROVE  UnitInv'
<1>1. /\ unit[r][u] = from
      /\ \A v \in Units : unit'[r][v] = IF v = u THEN to ELSE unit[r][v]
      /\ \A s \in Runs \ {r} : unit'[s] = unit[s]
  BY DEF SetUnit, TypeOK
<1>2. stage[r] = "spawning"
  <2>1. stage[r] \in {"unused", "fired", "listing", "spawning", "syncing", "hung", "returned"}
    BY DEF TypeOK
  <2>2. unit[r][u] # "none" /\ unit[r][u] \notin Settled
    BY <1>1 DEF Settled
  <2>3. QED
    BY <2>1, <2>2 DEF UnitInv, UnitPart
<1>3. UnitPart(r)'
  <2>1. Over(r) => Over(r)'
    BY DEF StillOver
  <2>2. (\E v \in Units : unit'[r][v] = "skipped") => Over(r)
    BY <1>1 DEF UnitInv, UnitPart
  <2>3. QED
    BY <1>2, <2>1, <2>2 DEF UnitPart
<1>4. \A s \in Runs \ {r} : UnitPart(s)'
  BY <1>1, UnitPartKept DEF UnitInv
<1>5. QED
  BY <1>3, <1>4 DEF UnitInv

(* A run that gets the units S to ingest starts with them all queued. *)
LEMMA QueueKeeps ==
  ASSUME TypeOK, UnitInv, StillOver, NEW r \in Runs, NEW S,
         unit' = [unit EXCEPT ![r] = Queued(S)], stage' = [stage EXCEPT ![r] = "spawning"]
  PROVE  UnitInv'
<1>1. /\ stage'[r] = "spawning" /\ unit'[r] = Queued(S)
      /\ \A s \in Runs \ {r} : stage'[s] = stage[s] /\ unit'[s] = unit[s]
  BY DEF TypeOK
<1>2. UnitPart(r)'
  BY <1>1 DEF UnitPart, Queued
<1>3. \A s \in Runs \ {r} : UnitPart(s)'
  BY <1>1, UnitPartKept DEF UnitInv
<1>4. QED
  BY <1>2, <1>3 DEF UnitInv

(* A run that has no units yet may go anywhere without any. *)
LEMMA NoUnitsKeeps ==
  ASSUME UnitInv, StillOver, NEW r \in Runs,
         stage[r] \in {"unused", "fired", "listing", "syncing", "hung"},
         \A s \in Runs \ {r} : stage'[s] = stage[s], unit' = unit
  PROVE  UnitInv'
<1>1. UnitPart(r)'
  BY DEF UnitPart, UnitInv, Settled
<1>2. \A s \in Runs \ {r} : UnitPart(s)'
  BY UnitPartKept DEF UnitInv
<1>3. QED
  BY <1>1, <1>2 DEF UnitInv

(* The invariant behind NoUnitLost holds throughout runJob and fanOut. *)
THEOREM UnitInvHolds == Spec => []UnitInv
<1>1. Init => UnitInv
  BY DEF Init, UnitInv, UnitPart, NoUnits, Settled
<1>2. TypeOK /\ UnitInv /\ [Next]_vars => UnitInv'
  <2> SUFFICES ASSUME TypeOK, UnitInv, [Next]_vars PROVE UnitInv'
    OBVIOUS
  <2>o. StillOver
    BY StillOverStep
  <2>1. ASSUME NEW r \in Runs, NEW j \in Jobs, Tick(r, j) PROVE UnitInv'
    BY <2>o, <2>1, NoUnitsKeeps DEF Tick, Enter, TypeOK
  <2>2. ASSUME NEW r \in Runs, RunNext(r) PROVE UnitInv'
    BY <2>o, <2>2, NoUnitsKeeps DEF RunNext, Enter, TypeOK
  <2>3. ASSUME NEW r \in Runs, RunJob(r) PROVE UnitInv'
    <3>1. CASE ~cancelled /\ Kind[job[r]] = "fanout"
      <4>1. unit' = [unit EXCEPT ![r] = Queued(UnitsOf[job[r]])]
        BY <2>3, <3>1 DEF RunJob
      <4>2. stage' = [stage EXCEPT ![r] = "spawning"]
        BY <2>3, <3>1 DEF RunJob, Enter
      <4>3. QED
        BY <2>o, <4>1, <4>2, QueueKeeps
    <3>2. CASE ~(~cancelled /\ Kind[job[r]] = "fanout")
      <4>1. unit' = [unit EXCEPT ![r] = unit[r]]
        BY <2>3, <3>2 DEF RunJob
      <4>2. unit' = unit
        BY <4>1 DEF TypeOK
      <4>3. stage[r] = "fired" /\ \A s \in Runs \ {r} : stage'[s] = stage[s]
        BY <2>3 DEF RunJob, Enter, TypeOK
      <4>4. QED
        BY <2>o, <4>2, <4>3, NoUnitsKeeps
    <3>3. QED
      BY <3>1, <3>2
  <2>4. ASSUME stage' = stage, unit' = unit PROVE UnitInv'
    BY <2>o, <2>4, UnitPartKept DEF UnitInv
  <2>5. ASSUME NEW r \in Runs, StuckEvents(r) PROVE UnitInv'
    BY <2>o, <2>5, QueueKeeps DEF StuckEvents, Enter
  <2>6. ASSUME NEW r \in Runs,
               StuckEventsFails(r) \/ SyncReturns(r) \/ SyncFails(r) \/ SyncPanics(r)
                 \/ QueryHangs(r)
        PROVE  UnitInv'
    <3>1. /\ stage[r] \in {"listing", "syncing"} /\ unit' = unit
          /\ \A s \in Runs \ {r} : stage'[s] = stage[s]
      BY <2>6 DEF StuckEventsFails, SyncReturns, SyncFails, SyncPanics, QueryHangs,
                  Enter, TypeOK
    <3>2. QED
      BY <2>o, <3>1, NoUnitsKeeps
  <2>7. ASSUME NEW r \in Runs, Wait(r) PROVE UnitInv'
    <3>1. /\ stage'[r] = "returned" /\ unit' = unit
          /\ \A s \in Runs \ {r} : stage'[s] = stage[s]
          /\ \A u \in Units : unit[r][u] \in Settled
      BY <2>7 DEF Wait, Enter, TypeOK
    <3>2. UnitPart(r)'
      BY <2>o, <3>1 DEF UnitInv, UnitPart, StillOver
    <3>3. \A s \in Runs \ {r} : UnitPart(s)'
      BY <2>o, <3>1, UnitPartKept DEF UnitInv
    <3>4. QED
      BY <3>2, <3>3 DEF UnitInv
  <2>8. ASSUME NEW r \in Runs, NEW u \in Units, Go(r, u) \/ Look(r, u) \/ Settle(r, u)
        PROVE  UnitInv'
    <3>1. \E from, to :
            /\ SetUnit(r, u, from, to) /\ from \in {"queued", "spawned", "ingesting"}
            /\ to = "skipped" => Over(r)
      BY <2>8 DEF Go, Look, Settle, IngestReturns, IngestFails, IngestPanics, IngestHangs
    <3>2. stage' = stage
      BY <2>8 DEF Go, Look, Settle, IngestReturns, IngestFails, IngestPanics, IngestHangs
    <3>3. QED
      BY <2>o, <3>1, <3>2, SetUnitKeeps DEF Settled
  <2>9. ASSUME NEW r \in Runs, Deadline(r) PROVE UnitInv'
    BY <2>4, <2>9 DEF Deadline
  <2>10. CASE Signal \/ Main
    BY <2>4, <2>10 DEF Signal, Main, Stop, Cancel, Drained, DrainTimeout, OnceDone,
                 CloseDB, Exit, runVars
  <2>11. CASE UNCHANGED vars
    BY <2>4, <2>11 DEF vars
  <2>12. QED
    BY <2>1, <2>2, <2>3, <2>5, <2>6, <2>7, <2>8, <2>9, <2>10, <2>11
       DEF Next, Advance, Answered
<1>3. QED
  BY <1>1, <1>2, WorkerTypeCorrect, PTL DEF Spec

(* No unit of a job is lost, whichever others fail, panic or time out. *)
THEOREM UnitsAccounted == Spec => []NoUnitLost
<1>1. UnitInv => NoUnitLost
  BY DEF UnitInv, UnitPart, NoUnitLost
<1>2. QED
  BY <1>1, UnitInvHolds, PTL
-----------------------------------------------------------------------------
(* The summary of a run that has units, or may still get some, agrees with them;
   what a run without units reports is its listing's or its sync's. *)
Bad == {"error", "panic"}

AddsUp(r) ==
  /\ created[r] = Cardinality(In(r, {"ok"}))
  /\ errors[r] = Cardinality(In(r, Bad))

SummaryPart(r) ==
  /\ IsFiniteSet(In(r, {"ok"})) /\ IsFiniteSet(In(r, Bad))
  /\ AddsUp(r) \/ (stage[r] = "returned" /\ In(r, {"none"}) = Units)

SummaryInv == \A r \in Runs : SummaryPart(r)

(* A step that moves no unit of r into or out of the counted states, and does not
   count, keeps r's part. *)
LEMMA SummaryKept ==
  ASSUME NEW r \in Runs, SummaryPart(r),
         created'[r] = created[r], errors'[r] = errors[r],
         In(r, {"ok"})' = In(r, {"ok"}), In(r, Bad)' = In(r, Bad),
         stage[r] = "returned" => stage'[r] = "returned" /\ unit'[r] = unit[r]
  PROVE  SummaryPart(r)'
<1>1. stage[r] = "returned" => In(r, {"none"})' = In(r, {"none"})
  BY DEF In
<1>2. QED
  BY <1>1 DEF SummaryPart, AddsUp

(* A run without units has counted none. *)
LEMMA NoUnitsNoSum ==
  ASSUME NEW r \in Runs, \A u \in Units : unit[r][u] \notin {"ok", "error", "panic"}
  PROVE  In(r, {"ok"}) = {} /\ In(r, Bad) = {}
  BY DEF In, Bad

(* Where a step leaves the units of r alone, r's sets stay. *)
LEMMA SameUnits ==
  ASSUME NEW r \in Runs, unit'[r] = unit[r]
  PROVE  In(r, {"ok"})' = In(r, {"ok"}) /\ In(r, Bad)' = In(r, Bad)
  BY DEF In

(* A unit that moves between states that are not counted changes no set. *)
LEMMA UncountedMove ==
  ASSUME TypeOK, NEW r \in Runs, NEW u \in Units, NEW from, NEW to,
         SetUnit(r, u, from, to),
         {from, to} \cap {"ok", "error", "panic"} = {}
  PROVE  In(r, {"ok"})' = In(r, {"ok"}) /\ In(r, Bad)' = In(r, Bad)
<1>1. /\ unit[r][u] = from
      /\ \A v \in Units : unit'[r][v] = IF v = u THEN to ELSE unit[r][v]
  BY DEF SetUnit, TypeOK
<1>2. QED
  BY <1>1 DEF In, Bad

(* A call that settles its unit adds it to the set of its outcome. *)
LEMMA CountedMove ==
  ASSUME TypeOK, NEW r \in Runs, NEW u \in Units, NEW to,
         SetUnit(r, u, "ingesting", to)
  PROVE  /\ to = "ok" => /\ In(r, {"ok"})' = In(r, {"ok"}) \cup {u}
                         /\ u \notin In(r, {"ok"}) /\ In(r, Bad)' = In(r, Bad)
         /\ to \in Bad => /\ In(r, Bad)' = In(r, Bad) \cup {u}
                          /\ u \notin In(r, Bad) /\ In(r, {"ok"})' = In(r, {"ok"})
<1>1. /\ unit[r][u] = "ingesting"
      /\ \A v \in Units : unit'[r][v] = IF v = u THEN to ELSE unit[r][v]
  BY DEF SetUnit, TypeOK
<1>2. QED
  BY <1>1 DEF In, Bad

(* The logged summary agrees with what became of the units, in whatever order
   the goroutines of fanOut count them (fanOut's counters, runJob's log line). *)
THEOREM SummaryCorrect == Spec => []SummaryAddsUp
<1> USE FS_EmptySet
<1>1. Init => SummaryInv
  <2> SUFFICES ASSUME Init, NEW r \in Runs PROVE SummaryPart(r)
    BY DEF SummaryInv
  <2>1. created[r] = 0 /\ errors[r] = 0 /\ \A u \in Units : unit[r][u] = "none"
    BY DEF Init, NoUnits
  <2>2. QED
    BY <2>1, NoUnitsNoSum DEF SummaryPart, AddsUp
<1>2. TypeOK /\ UnitInv /\ SummaryInv /\ [Next]_vars => SummaryInv'
  <2> SUFFICES ASSUME TypeOK, UnitInv, SummaryInv, [Next]_vars, NEW q \in Runs
               PROVE  SummaryPart(q)'
    BY DEF SummaryInv
  <2>0. SummaryPart(q)
    BY DEF SummaryInv
  <2>f. created[q] \in Nat /\ errors[q] \in Nat
    BY DEF TypeOK
  <2>k. ASSUME unit'[q] = unit[q], created'[q] = created[q], errors'[q] = errors[q],
               stage[q] = "returned" => stage'[q] = "returned"
        PROVE  SummaryPart(q)'
    BY <2>0, <2>k, SummaryKept, SameUnits
  <2>1. ASSUME NEW r \in Runs,
               \/ \E j \in Jobs : Tick(r, j)
               \/ RunNext(r) \/ Deadline(r) \/ SyncPanics(r) \/ QueryHangs(r) \/ Wait(r)
        PROVE  SummaryPart(q)'
    <3>1. unit' = unit /\ created' = created /\ errors' = errors
      BY <2>1 DEF Tick, RunNext, Deadline, SyncPanics, QueryHangs, Wait
    <3>2. stage[q] = "returned" => stage'[q] = "returned"
      BY <2>1 DEF Tick, RunNext, Deadline, SyncPanics, QueryHangs, Wait, Enter, TypeOK
    <3>3. QED
      BY <2>k, <3>1, <3>2
  <2>2. ASSUME NEW r \in Runs, RunJob(r) \/ StuckEvents(r) PROVE SummaryPart(q)'
    <3>1. /\ created' = created /\ errors' = errors
          /\ stage[q] = "returned" => stage'[q] = "returned"
          /\ stage[r] \in {"fired", "listing"}
      BY <2>2 DEF RunJob, StuckEvents, Enter, TypeOK
    <3>2. unit' = unit \/ \E S : unit' = [unit EXCEPT ![r] = Queued(S)]
      <4>1. CASE RunJob(r)
        <5>1. \/ unit' = [unit EXCEPT ![r] = unit[r]]
              \/ unit' = [unit EXCEPT ![r] = Queued(UnitsOf[job[r]])]
          BY <4>1 DEF RunJob
        <5>2. unit = [unit EXCEPT ![r] = unit[r]]
          BY DEF TypeOK
        <5>3. QED
          BY <5>1, <5>2
      <4>2. CASE StuckEvents(r)
        BY <4>2 DEF StuckEvents
      <4>3. QED
        BY <2>2, <4>1, <4>2
    <3>3. CASE q # r
      <4>1. unit'[q] = unit[q]
        BY <3>2, <3>3 DEF TypeOK
      <4>2. QED
        BY <2>k, <3>1, <4>1
    <3>4. CASE q = r
      <4>1. \A u \in Units : unit[q][u] = "none"
        BY <3>1, <3>4 DEF UnitInv, UnitPart
      <4>2. \A u \in Units : unit'[q][u] \in {"none", "queued"}
        BY <3>2, <3>4, <4>1 DEF Queued, TypeOK
      <4>3. In(q, {"ok"}) = {} /\ In(q, Bad) = {}
        BY <4>1, NoUnitsNoSum
      <4>4. In(q, {"ok"})' = {} /\ In(q, Bad)' = {}
        BY <4>2 DEF In, Bad
      <4>5. stage[q] # "returned"
        BY <3>1, <3>4
      <4>6. QED
        BY <2>0, <3>1, <4>3, <4>4, <4>5, SummaryKept
    <3>5. QED
      BY <3>3, <3>4
  <2>3. ASSUME NEW r \in Runs, StuckEventsFails(r) \/ SyncReturns(r) \/ SyncFails(r)
        PROVE  SummaryPart(q)'
    <3>1. /\ unit' = unit /\ stage[r] \in {"listing", "syncing"}
          /\ stage'[r] = "returned"
          /\ stage[q] = "returned" => stage'[q] = "returned"
      BY <2>3 DEF StuckEventsFails, SyncReturns, SyncFails, Enter, TypeOK
    <3>2. CASE q # r
      <4>1. created'[q] = created[q] /\ errors'[q] = errors[q]
        BY <2>3, <3>2 DEF StuckEventsFails, SyncReturns, SyncFails, TypeOK
      <4>2. QED
        BY <2>k, <3>1, <4>1
    <3>3. CASE q = r
      <4>1. \A u \in Units : unit'[q][u] = "none"
        BY <3>1, <3>3 DEF UnitInv, UnitPart
      <4>2. In(q, {"ok"})' = {} /\ In(q, Bad)' = {} /\ In(q, {"none"})' = Units
        BY <4>1 DEF In, Bad
      <4>3. QED
        BY <3>1, <3>3, <4>2 DEF SummaryPart
    <3>4. QED
      BY <3>2, <3>3
  <2>4. ASSUME NEW r \in Runs, NEW u \in Units, Go(r, u) \/ Look(r, u) \/ IngestHangs(r, u)
        PROVE  SummaryPart(q)'
    <3>1. /\ stage' = stage /\ created' = created /\ errors' = errors
          /\ \E from \in {"queued", "spawned", "ingesting"},
                to \in {"spawned", "skipped", "ingesting", "hung"} : SetUnit(r, u, from, to)
      BY <2>4 DEF Go, Look, IngestHangs
    <3>2. CASE q # r
      <4>1. unit'[q] = unit[q]
        BY <3>1, <3>2 DEF SetUnit, TypeOK
      <4>2. QED
        BY <2>k, <3>1, <4>1
    <3>3. CASE q = r
      <4>1. In(q, {"ok"})' = In(q, {"ok"}) /\ In(q, Bad)' = In(q, Bad)
        BY <3>1, <3>3, UncountedMove
      <4>2. stage[q] # "returned"
        BY <3>1, <3>3 DEF SetUnit, UnitInv, UnitPart, Settled
      <4>3. QED
        BY <2>0, <3>1, <4>1, <4>2, SummaryKept
    <3>4. QED
      BY <3>2, <3>3
  <2>5. ASSUME NEW r \in Runs, NEW u \in Units,
               IngestReturns(r, u) \/ IngestFails(r, u) \/ IngestPanics(r, u)
        PROVE  SummaryPart(q)'
    <3>1. /\ stage' = stage
          /\ \E to \in {"ok", "error", "panic"} : SetUnit(r, u, "ingesting", to)
      BY <2>5 DEF IngestReturns, IngestFails, IngestPanics
    <3>2. CASE q # r
      <4>1. unit'[q] = unit[q] /\ created'[q] = created[q] /\ errors'[q] = errors[q]
        BY <2>5, <3>2 DEF IngestReturns, IngestFails, IngestPanics, SetUnit, TypeOK
      <4>2. QED
        BY <2>k, <3>1, <4>1
    <3>3. CASE q = r
      <4>1. stage[q] # "returned"
        BY <3>1, <3>3 DEF SetUnit, UnitInv, UnitPart, Settled
      <4>2. AddsUp(q) /\ IsFiniteSet(In(q, {"ok"})) /\ IsFiniteSet(In(q, Bad))
        BY <2>0, <4>1 DEF SummaryPart
      <4>3. CASE IngestReturns(r, u)
        <5>1. /\ In(q, {"ok"})' = In(q, {"ok"}) \cup {u}
              /\ u \notin In(q, {"ok"}) /\ In(q, Bad)' = In(q, Bad)
          BY <3>3, <4>3, CountedMove DEF IngestReturns
        <5>2. created'[q] = created[q] + 1 /\ errors'[q] = errors[q]
          BY <3>3, <4>3 DEF IngestReturns, TypeOK
        <5>3. /\ IsFiniteSet(In(q, {"ok"}) \cup {u})
              /\ Cardinality(In(q, {"ok"}) \cup {u}) = Cardinality(In(q, {"ok"})) + 1
          BY <4>2, <5>1, FS_AddElement
        <5>4. QED
          BY <4>2, <5>1, <5>2, <5>3 DEF SummaryPart, AddsUp
      <4>4. CASE IngestFails(r, u) \/ IngestPanics(r, u)
        <5>1. /\ In(q, Bad)' = In(q, Bad) \cup {u}
              /\ u \notin In(q, Bad) /\ In(q, {"ok"})' = In(q, {"ok"})
          BY <3>3, <4>4, CountedMove DEF IngestFails, IngestPanics, Bad
        <5>2. errors'[q] = errors[q] + 1 /\ created'[q] = created[q]
          BY <3>3, <4>4 DEF IngestFails, IngestPanics, TypeOK
        <5>3. /\ IsFiniteSet(In(q, Bad) \cup {u})
              /\ Cardinality(In(q, Bad) \cup {u}) = Cardinality(In(q, Bad)) + 1
          BY <4>2, <5>1, FS_AddElement
        <5>4. QED
          BY <4>2, <5>1, <5>2, <5>3 DEF SummaryPart, AddsUp
      <4>5. QED
        BY <2>5, <4>3, <4>4
    <3>4. QED
      BY <3>2, <3>3
  <2>6. CASE Signal \/ Main
    BY <2>6, <2>k DEF Signal, Main, Stop, Cancel, Drained, DrainTimeout, OnceDone,
                 CloseDB, Exit, runVars
  <2>7. CASE UNCHANGED vars
    BY <2>7, <2>k DEF vars
  <2>8. QED
    BY <2>1, <2>2, <2>3, <2>4, <2>5, <2>6, <2>7 DEF Next, Advance, Answered, Settle
<1>3. SummaryInv => SummaryAddsUp
  BY DEF SummaryInv, SummaryPart, AddsUp, SummaryAddsUp, Bad
<1>4. QED
  BY <1>1, <1>2, <1>3, WorkerTypeCorrect, UnitInvHolds, PTL DEF Spec
=============================================================================
