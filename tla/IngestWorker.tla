---------------------------- MODULE IngestWorker -----------------------------
(***************************************************************************)
(* The worker process (internal/scheduler): cron fires jobs on fixed       *)
(* intervals, a job walks its units through a bounded fan-out, a signal    *)
(* stops the cron, cancels the jobs' context, drains them for a bounded    *)
(* time and closes the database.  With --once, the jobs run one after the  *)
(* other instead and no signal is handled.                                 *)
(*                                                                         *)
(* An ingest call is what its caller sees of it: it succeeds, returns an   *)
(* error, panics, at any time, or never answers (it may wait for a pool    *)
(* connection without a deadline).  One that succeeds reports one row.     *)
(***************************************************************************)
EXTENDS Naturals, Sequences, FiniteSets

CONSTANTS
  Runs,      \* executions of runJob; each is used once, which bounds the ticks
  Jobs,
  Kind,      \* [Jobs -> {"fanout", "unstick", "nhl"}]
  Units,     \* workUnits: a league, or a league and a date
  UnitsOf,   \* UnitsOf[j]: the units j fans out over; for unstick, the date
             \* buckets stuck events may map to
  Limit,     \* INGEST_CONCURRENCY, clamped to at least 1 by newScheduler
  PoolSize,  \* postgresMaxOpenConnection
  OnceJobs   \* the jobs of RunOnceESPN and RunOnceNHL, in order

ASSUME WorkerAssumption ==
  /\ Kind \in [Jobs -> {"fanout", "unstick", "nhl"}]
  /\ UnitsOf \in [Jobs -> SUBSET Units]
  /\ Limit \in Nat \ {0}
  /\ PoolSize \in Nat /\ Limit <= PoolSize
  /\ OnceJobs \in Seq(Jobs)
  /\ Jobs # {}

VARIABLES
  once,       \* whether the worker was started with --once
  phase,      \* where the main goroutine is in Run or RunOnce
  ticking,    \* whether the cron starts jobs
  cancelled,  \* the base context is cancelled
  timedOut,   \* the drain ended by its timeout
  dbOpen,     \* the connection pools are open
  next,       \* index of the next job of OnceJobs
  stage,      \* stage[r]: where run r is in runJob
  job,        \* job[r]: the job r runs
  expired,    \* expired[r]: the 25-minute deadline of r has passed
  unit,       \* unit[r][u]: what has become of unit u in r
  created,    \* created[r], errors[r]: r's jobSummary
  errors

mainVars == <<once, phase, ticking, cancelled, timedOut, dbOpen, next>>
runVars == <<stage, job, expired, unit, created, errors>>
vars == <<once, phase, ticking, cancelled, timedOut, dbOpen, next,
          stage, job, expired, unit, created, errors>>

NoUnits == [u \in Units |-> "none"]
Queued(S) == [u \in Units |-> IF u \in S THEN "queued" ELSE "none"]

(* The units of r in one of the states S. *)
In(r, S) == {u \in Units : unit[r][u] \in S}

(* The goroutines of r's errgroup, each with a slot; its settled units. *)
ActiveBug_PanicKeepsSlot(r) == In(r, {"spawned", "ingesting", "hung", "panic"})

Active(r) == In(r, {"spawned", "ingesting", "hung"})
Settled == {"none", "ok", "error", "panic", "skipped"}

(* A call r waits for will never answer. *)
Hung(r) == stage[r] = "hung" \/ In(r, {"hung"}) # {}

(* The context r hands to its units is over. *)
Over(r) == cancelled \/ expired[r]

Running(r) == stage[r] \notin {"unused", "returned"}

TypeOK ==
  /\ once \in BOOLEAN
  /\ phase \in {"serving", "stopping", "stopped", "draining", "closing", "closed", "exited"}
  /\ ticking \in BOOLEAN
  /\ cancelled \in BOOLEAN
  /\ timedOut \in BOOLEAN
  /\ dbOpen \in BOOLEAN
  /\ next \in 1..(Len(OnceJobs) + 1)
  /\ stage \in [Runs -> {"unused", "fired", "listing", "spawning", "syncing", "hung",
                      "returned"}]
  /\ job \in [Runs -> Jobs]
  /\ expired \in [Runs -> BOOLEAN]
  /\ unit \in [Runs -> [Units -> {"none", "queued", "spawned", "ingesting",
                                  "hung", "ok", "error", "panic", "skipped"}]]
  /\ created \in [Runs -> Nat]
  /\ errors \in [Runs -> Nat]

Init ==
  /\ once \in BOOLEAN
  /\ phase = "serving"
  /\ ticking = ~once
  /\ cancelled = FALSE
  /\ timedOut = FALSE
  /\ dbOpen = TRUE
  /\ next = 1
  /\ stage = [r \in Runs |-> "unused"]
  /\ job = [r \in Runs |-> CHOOSE j \in Jobs : TRUE]
  /\ expired = [r \in Runs |-> FALSE]
  /\ unit = [r \in Runs |-> NoUnits]
  /\ created = [r \in Runs |-> 0]
  /\ errors = [r \in Runs |-> 0]

Alive == phase # "exited"

Enter(r, from, to) ==
  /\ Alive
  /\ stage[r] = from
  /\ stage' = [stage EXCEPT ![r] = to]

SetUnit(r, u, from, to) ==
  /\ Alive
  /\ unit[r][u] = from
  /\ unit' = [unit EXCEPT ![r][u] = to]

MainGoto(from, to) ==
  /\ phase = from
  /\ phase' = to
-----------------------------------------------------------------------------
(* The cron's timer starts the job of run r in a goroutine of its own, whether
   or not an earlier run of the same job is still going. *)
Tick(r, j) ==
  /\ ticking
  /\ Enter(r, "unused", "fired")
  /\ job' = [job EXCEPT ![r] = j]
  /\ UNCHANGED <<mainVars, expired, unit, created, errors>>

(* RunOnce calls runJob for the next job when the one before has returned. *)
RunNext(r) ==
  /\ once /\ phase = "serving"
  /\ next <= Len(OnceJobs)
  /\ \A s \in Runs : ~Running(s)
  /\ Enter(r, "unused", "fired")
  /\ job' = [job EXCEPT ![r] = OnceJobs[next]]
  /\ next' = next + 1
  /\ UNCHANGED <<once, phase, ticking, cancelled, timedOut, dbOpen, expired, unit,
                 created, errors>>

(* runJob: nothing happens under a cancelled base context. *)
RunJob(r) ==
  /\ Enter(r, "fired", CASE cancelled -> "returned"
                         [] ~cancelled /\ Kind[job[r]] = "unstick" -> "listing"
                         [] ~cancelled /\ Kind[job[r]] = "nhl" -> "syncing"
                         [] ~cancelled /\ Kind[job[r]] = "fanout" -> "spawning")
  /\ unit' = [unit EXCEPT ![r] = IF ~cancelled /\ Kind[job[r]] = "fanout"
                                 THEN Queued(UnitsOf[job[r]]) ELSE @]
  /\ UNCHANGED <<mainVars, job, expired, created, errors>>

(* The context of a run ends 25 minutes after it started. *)
Deadline(r) ==
  /\ Alive /\ Running(r) /\ stage[r] # "fired"
  /\ expired' = [expired EXCEPT ![r] = TRUE]
  /\ UNCHANGED <<mainVars, stage, job, unit, created, errors>>

(* runUnstick: StuckEvents answers and its events map to the buckets S. *)
StuckEvents(r) ==
  /\ Enter(r, "listing", "spawning")
  /\ \E S \in SUBSET UnitsOf[job[r]] : unit' = [unit EXCEPT ![r] = Queued(S)]
  /\ UNCHANGED <<mainVars, job, expired, created, errors>>

StuckEventsFails(r) ==
  /\ Enter(r, "listing", "returned")
  /\ errors' = [errors EXCEPT ![r] = 1]
  /\ UNCHANGED <<mainVars, job, expired, unit, created>>

(* g.Go waits for a slot and starts a goroutine for the unit. *)
Go(r, u) ==
  /\ stage[r] = "spawning"
  /\ Cardinality(Active(r)) < Limit
  /\ SetUnit(r, u, "queued", "spawned")
  /\ UNCHANGED <<mainVars, stage, job, expired, created, errors>>

(* The goroutine looks at its context, and skips the unit when it is over. *)
Look(r, u) ==
  /\ SetUnit(r, u, "spawned", IF Over(r) THEN "skipped" ELSE "ingesting")
  /\ UNCHANGED <<mainVars, stage, job, expired, created, errors>>

(* The unit's ingest call returns a result, returns an error, or panics. *)
IngestReturns(r, u) ==
  /\ SetUnit(r, u, "ingesting", "ok")
  /\ created' = [created EXCEPT ![r] = @ + 1]
  /\ UNCHANGED <<mainVars, stage, job, expired, errors>>

IngestFails(r, u) ==
  /\ SetUnit(r, u, "ingesting", "error")
  /\ errors' = [errors EXCEPT ![r] = @ + 1]
  /\ UNCHANGED <<mainVars, stage, job, expired, created>>

IngestPanicsBug_NotCounted(r, u) ==
  /\ SetUnit(r, u, "ingesting", "panic")
  /\ UNCHANGED <<mainVars, stage, job, expired, created, errors>>

IngestPanicsBug_AbortsJob(r, u) ==
  /\ SetUnit(r, u, "ingesting", "panic")
  /\ stage' = [stage EXCEPT ![r] = "returned"]
  /\ errors' = [errors EXCEPT ![r] = @ + 1]
  /\ UNCHANGED <<mainVars, job, expired, created>>

IngestPanics(r, u) ==
  /\ SetUnit(r, u, "ingesting", "panic")
  /\ errors' = [errors EXCEPT ![r] = @ + 1]
  /\ UNCHANGED <<mainVars, stage, job, expired, created>>

(* The call never answers, whatever becomes of its context. *)
IngestHangs(r, u) ==
  /\ SetUnit(r, u, "ingesting", "hung")
  /\ UNCHANGED <<mainVars, stage, job, expired, created, errors>>

QueryHangs(r) ==
  /\ Enter(r, stage[r], "hung")
  /\ stage[r] \in {"listing", "syncing"}
  /\ UNCHANGED <<mainVars, job, expired, unit, created, errors>>

(* g.Wait: every unit was handed to g.Go and every goroutine has ended. *)
WaitBug_Early(r) ==
  /\ Enter(r, "spawning", "returned")
  /\ In(r, {"queued"}) = {}
  /\ UNCHANGED <<mainVars, job, expired, unit, created, errors>>

Wait(r) ==
  /\ Enter(r, "spawning", "returned")
  /\ \A u \in Units : unit[r][u] \in Settled
  /\ UNCHANGED <<mainVars, job, expired, unit, created, errors>>

(* runNHLJob: one sync call, whose own error count is taken over.  A panic is
   recovered by runJob, and the summary is lost. *)
SyncReturns(r) ==
  /\ Enter(r, "syncing", "returned")
  /\ created' = [created EXCEPT ![r] = 1]
  /\ \E n \in {0, 1} : errors' = [errors EXCEPT ![r] = n]
  /\ UNCHANGED <<mainVars, job, expired, unit>>

SyncFailsBug_Negative(r) ==
  /\ Enter(r, "syncing", "returned")
  /\ errors' = [errors EXCEPT ![r] = @ - 1]
  /\ UNCHANGED <<mainVars, job, expired, unit, created>>

SyncFails(r) ==
  /\ Enter(r, "syncing", "returned")
  /\ errors' = [errors EXCEPT ![r] = 1]
  /\ UNCHANGED <<mainVars, job, expired, unit, created>>

SyncPanics(r) ==
  /\ Enter(r, "syncing", "returned")
  /\ UNCHANGED <<mainVars, job, expired, unit, created, errors>>
-----------------------------------------------------------------------------
(* Run is interrupted by SIGINT or SIGTERM; RunOnce has no handler and dies. *)
Signal ==
  /\ Alive
  /\ IF once THEN phase' = "exited" ELSE MainGoto("serving", "stopping")
  /\ UNCHANGED <<once, ticking, cancelled, timedOut, dbOpen, next, runVars>>

(* c.Stop() *)
StopBug_KeepsTicking ==
  /\ MainGoto("stopping", "stopped")
  /\ UNCHANGED <<once, ticking, cancelled, timedOut, dbOpen, next, runVars>>

Stop ==
  /\ MainGoto("stopping", "stopped")
  /\ ticking' = FALSE
  /\ UNCHANGED <<once, cancelled, timedOut, dbOpen, next, runVars>>

Cancel ==
  /\ MainGoto("stopped", "draining")
  /\ cancelled' = TRUE
  /\ UNCHANGED <<once, ticking, timedOut, dbOpen, next, runVars>>

(* The select on cronCtx.Done(), which is closed when every job the cron ever
   started has returned, and on the drain timeout. *)
DrainedBug_IgnoresRuns ==
  /\ MainGoto("draining", "closing")
  /\ UNCHANGED <<once, ticking, cancelled, timedOut, dbOpen, next, runVars>>

Drained ==
  /\ MainGoto("draining", "closing")
  /\ \A r \in Runs : ~Running(r)
  /\ UNCHANGED <<once, ticking, cancelled, timedOut, dbOpen, next, runVars>>

DrainTimeoutBug_WaitsForJobs ==
  /\ MainGoto("draining", "closing")
  /\ \A r \in Runs : ~Running(r)
  /\ timedOut' = TRUE
  /\ UNCHANGED <<once, ticking, cancelled, dbOpen, next, runVars>>

DrainTimeout ==
  /\ MainGoto("draining", "closing")
  /\ timedOut' = TRUE
  /\ UNCHANGED <<once, ticking, cancelled, dbOpen, next, runVars>>

(* RunOnce is through with its jobs. *)
OnceDone ==
  /\ once /\ MainGoto("serving", "closing")
  /\ next > Len(OnceJobs)
  /\ \A r \in Runs : ~Running(r)
  /\ UNCHANGED <<once, ticking, cancelled, timedOut, dbOpen, next, runVars>>

CloseDB ==
  /\ MainGoto("closing", "closed")
  /\ dbOpen' = FALSE
  /\ UNCHANGED <<once, ticking, cancelled, timedOut, next, runVars>>

(* main returns, and the goroutines of the process die. *)
Exit ==
  /\ MainGoto("closed", "exited")
  /\ UNCHANGED <<once, ticking, cancelled, timedOut, dbOpen, next, runVars>>

Settle(r, u) ==
  \/ IngestReturns(r, u) \/ IngestFails(r, u) \/ IngestPanics(r, u)
  \/ IngestHangs(r, u)

(* Steps of r's own goroutines that need nothing but the processor. *)
Advance(r) ==
  RunJob(r) \/ Wait(r) \/ \E u \in Units : Go(r, u) \/ Look(r, u)

(* What r waits for outside the process. *)
Answered(r) ==
  \/ StuckEvents(r) \/ StuckEventsFails(r)
  \/ SyncReturns(r) \/ SyncFails(r) \/ SyncPanics(r) \/ QueryHangs(r)
  \/ \E u \in Units : Settle(r, u)

Main == Stop \/ Cancel \/ Drained \/ DrainTimeout \/ OnceDone \/ CloseDB \/ Exit

Next ==
  \/ \E r \in Runs, j \in Jobs : Tick(r, j)
  \/ \E r \in Runs : RunNext(r) \/ Deadline(r) \/ Advance(r) \/ Answered(r)
  \/ Signal \/ Main

Spec == Init /\ [][Next]_vars

(* The goroutines of the process are scheduled, its drain timer fires, and a
   call answers or hangs. *)
FairSpec ==
  /\ Spec
  /\ WF_vars(Main)
  /\ \A r \in Runs :
       /\ WF_vars(RunNext(r))
       /\ WF_vars(Advance(r))
       /\ WF_vars(Answered(r))
-----------------------------------------------------------------------------
(* A run that has returned leaves no unit behind, whatever other units did:
   each was ingested to an outcome, or skipped because the context was over. *)
NoUnitLost ==
  \A r \in Runs :
    /\ stage[r] = "returned" => \A u \in Units : unit[r][u] \in Settled
    /\ (\E u \in Units : unit[r][u] = "skipped") => Over(r)

(* The logged summary agrees with what happened to the units. *)
SummaryAddsUp ==
  \A r \in Runs : stage[r] # "unused" /\ In(r, {"none"}) # Units =>
    /\ created[r] = Cardinality(In(r, {"ok"}))
    /\ errors[r] = Cardinality(In(r, {"error", "panic"}))

(* Unless the drain was cut short, no job is under way once the pools are
   being closed, and none can start any more. *)
DrainedIsQuiet ==
  phase \in {"closing", "closed"} /\ ~timedOut =>
    ~ticking /\ \A r \in Runs : ~Running(r)

(* A signal ends the worker even when jobs hang. *)
ShutdownCompletes == phase = "stopping" ~> phase = "exited"

(* Every job that was started comes to an end, unless a call it waits for
   hangs or the process ends first: units that wait for a slot get one from
   those that have ended, however they did, and also after the context is over. *)
EveryRunReturns ==
  \A r \in Runs :
    Running(r) ~> stage[r] = "returned" \/ Hung(r) \/ phase = "exited"

(* "capping concurrent ingests at s.concurrency so concurrent DB writes stay
   within the Postgres pool" (comment of fanOut): with Limit <= PoolSize, calls
   in flight never outnumber the pool's connections. *)
IngestsFitPool ==
  Cardinality({p \in Runs \X Units : unit[p[1]][p[2]] = "ingesting"}) <= PoolSize
=============================================================================
