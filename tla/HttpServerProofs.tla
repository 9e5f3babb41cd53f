-------------------------- MODULE HttpServerProofs ---------------------------
(***************************************************************************)
(* Proofs about HttpServer, for any number of requests and clients, any    *)
(* limit and window.                                                       *)
(*                                                                         *)
(* OnlyOvertakenServes rests on the order of the writes to State: unless   *)
(* main has set Ready since, State says that the cleanup period has begun. *)
(* LimiterInv rests on what a request between its read and its save has    *)
(* counted: at least itself, and never more than the limit.                *)
(***************************************************************************)
EXTENDS HttpServer, TLAPS

(* The conjuncts of TypeOK by owner. *)
ServerTyped ==
  /\ config \in Config
  /\ main \in {"setup", "armed", "listening", "exited"}
  /\ signal \in {"none", "waiting", "grace", "cleanup"}
  /\ State \in {"none", "ready", "grace", "cleanup"}
  /\ overtaken \in BOOLEAN

RequestTyped ==
  /\ pc \in [Requests -> Stages \cup {"idle"}]
  /\ client \in [Requests -> Clients]
  /\ ask \in [Requests -> Asks]
  /\ n \in [Requests -> 0..MaxRequests]
  /\ answer \in [Requests -> {0, 200, 400, 403, 404, 429, 500, 502, 503}]
  /\ late \in [Requests -> BOOLEAN]

LimiterTyped ==
  /\ counter \in [Clients -> 0..MaxRequests]
  /\ ttl \in [Clients -> 0..Window]
  /\ passed \in [Clients -> 0..(MaxRequests + 1)]
  /\ stale \in [Clients -> BOOLEAN]

(* TypeOK is the three together. *)
LEMMA TypeOKSplit == TypeOK <=> ServerTyped /\ RequestTyped /\ LimiterTyped
BY DEF TypeOK, ServerTyped, RequestTyped, LimiterTyped

(* And so it is in the next state. *)
LEMMA TypeOKSplitNext == TypeOK' <=> ServerTyped' /\ RequestTyped' /\ LimiterTyped'
BY DEF TypeOK, ServerTyped, RequestTyped, LimiterTyped

(* Types stay where nothing is written. *)
LEMMA UnchangedTyped ==
  /\ ServerTyped /\ UNCHANGED serverVars => ServerTyped'
  /\ RequestTyped /\ UNCHANGED requestVars => RequestTyped'
  /\ LimiterTyped /\ UNCHANGED limiterVars => LimiterTyped'
BY DEF ServerTyped, RequestTyped, LimiterTyped, serverVars, requestVars, limiterVars

(* Every step a request takes has an effect of one of these forms. *)
Answered(r, status) ==
  /\ pc' = [pc EXCEPT ![r] = "idle"]
  /\ answer' = [answer EXCEPT ![r] = status]
  /\ n' = [n EXCEPT ![r] = 0]
  /\ UNCHANGED <<client, ask, late>>

Moved(r, to) ==
  /\ pc' = [pc EXCEPT ![r] = to]
  /\ UNCHANGED <<client, ask, answer, late>>

(* Answering a request keeps the types. *)
LEMMA AnsweredTyped ==
  ASSUME RequestTyped, NEW r \in Requests,
         NEW s \in {0, 200, 400, 403, 404, 429, 500, 502, 503}, Answered(r, s)
  PROVE  RequestTyped'
<1>1. 0 \in 0..MaxRequests
  BY HttpAssumption
<1>2. QED
  BY <1>1 DEF RequestTyped, Answered

(* Passing a request on keeps them, whatever valid count it takes along. *)
LEMMA MovedTyped ==
  ASSUME RequestTyped, NEW r \in Requests, NEW to \in Stages, Moved(r, to),
         n' \in [Requests -> 0..MaxRequests]
  PROVE  RequestTyped'
BY DEF RequestTyped, Moved

(* The steps of a request between which only pc and the answer change. *)
Plain(r) ==
  \/ ServerState(r) \/ Unlimited(r) \/ Refuse(r) \/ GetFails(r) \/ Route(r)
  \/ APIKeyRequired(r) \/ Ingest(r) \/ Read(r) \/ Recover(r)

(* What a plain step does: it leaves server and limiter alone, and answers the
   request or passes it on with its count. *)
LEMMA PlainSteps ==
  ASSUME RequestTyped, NEW r \in Requests, Plain(r)
  PROVE  /\ UNCHANGED serverVars /\ UNCHANGED limiterVars
         /\ \/ \E s \in {200, 400, 403, 404, 429, 500, 502, 503} : Answered(r, s)
            \/ \E to \in {"limit", "route", "key", "handler"} : Moved(r, to) /\ n' = n
<1>1. CASE ServerState(r)
  <2>1. CASE State = "cleanup"
    <3>1. Answered(r, 503)
      BY <1>1, <2>1 DEF ServerState, Reply, Move, Answered
    <3>2. QED
      BY <1>1, <3>1 DEF ServerState
  <2>2. CASE State # "cleanup"
    <3>1. Moved(r, "limit") /\ n' = n
      BY <1>1, <2>2 DEF ServerState, Onward, Move, Moved
    <3>2. QED
      BY <1>1, <3>1 DEF ServerState
  <2>3. QED
    BY <2>1, <2>2
<1>2. CASE Unlimited(r) \/ GetFails(r)
  <2>1. Moved(r, "route") /\ n' = n
    BY <1>2 DEF Unlimited, GetFails, Onward, Move, Moved
  <2>2. QED
    BY <1>2, <2>1 DEF Unlimited, GetFails
<1>3. CASE Refuse(r)
  <2>1. Answered(r, 429)
    BY <1>3 DEF Refuse, Reply, Move, Answered
  <2>2. QED
    BY <1>3, <2>1 DEF Refuse
<1>4. CASE Route(r)
  <2>1. CASE ask[r].route = "health"
    <3>1. PICK s \in {200, 503} : Answered(r, s)
      BY <1>4, <2>1 DEF Route, Reply, Move, Answered
    <3>2. QED
      BY <1>4, <3>1 DEF Route
  <2>2. CASE ask[r].route = "unknown"
    <3>1. Answered(r, 404)
      BY <1>4, <2>2 DEF Route, Reply, Move, Answered
    <3>2. QED
      BY <1>4, <3>1 DEF Route
  <2>3. CASE ask[r].route # "health" /\ ask[r].route # "unknown"
    <3>1. Moved(r, "key") /\ n' = n
      BY <1>4, <2>3 DEF Route, Onward, Move, Moved
    <3>2. QED
      BY <1>4, <3>1 DEF Route
  <2>4. QED
    BY <2>1, <2>2, <2>3
<1>5. CASE APIKeyRequired(r)
  <2>1. CASE ask[r].key
    <3>1. Moved(r, "handler") /\ n' = n
      BY <1>5, <2>1 DEF APIKeyRequired, Onward, Move, Moved
    <3>2. QED
      BY <1>5, <3>1 DEF APIKeyRequired
  <2>2. CASE ~ask[r].key
    <3>1. Answered(r, 403)
      BY <1>5, <2>2 DEF APIKeyRequired, Reply, Move, Answered
    <3>2. QED
      BY <1>5, <3>1 DEF APIKeyRequired
  <2>3. QED
    BY <2>1, <2>2
<1>6. CASE Ingest(r)
  <2>1. PICK s \in {200, 400, 502} : Reply(r, "handler", s)
    BY <1>6 DEF Ingest
  <2>2. Answered(r, s)
    BY <2>1 DEF Reply, Move, Answered
  <2>3. QED
    BY <1>6, <2>2 DEF Ingest
<1>7. CASE Read(r)
  <2>1. PICK s \in {200, 400, 404, 500} : Reply(r, "handler", s)
    BY <1>7 DEF Read
  <2>2. Answered(r, s)
    BY <2>1 DEF Reply, Move, Answered
  <2>3. QED
    BY <1>7, <2>2 DEF Read
<1>8. CASE Recover(r)
  <2>1. Answered(r, 500)
    BY <1>8 DEF Recover, Reply, Move, Answered
  <2>2. QED
    BY <1>8, <2>1 DEF Recover
<1>9. QED
  BY <1>1, <1>2, <1>3, <1>4, <1>5, <1>6, <1>7, <1>8 DEF Plain
-----------------------------------------------------------------------------
(* The steps of the server, and how requests come in. *)
ServerStep ==
  SetupGracefulShutdown \/ SetReady \/ ListenFails \/ Sigterm \/ GraceEnds \/ CleanupEnds

Accepts == \E r \in Requests, c \in Clients, a \in Asks : Accept(r, c, a)

(* Next by who takes the step and what it can disturb. *)
LEMMA NextSplit ==
  Next => \/ ServerStep \/ Accepts \/ Tick
          \/ \E r \in Requests : Plain(r) \/ Count(r) \/ Save(r) \/ SaveFails(r)
BY Zenon DEF Next, ServerStep, Accepts, Serve, Plain

(* The process ends, or only the server's own variables change. *)
LEMMA ServerStepEffect ==
  ASSUME ServerStep
  PROVE  /\ UNCHANGED limiterVars
         /\ \/ Exit
            \/ UNCHANGED requestVars /\ main' \in {"armed", "listening", main}
               /\ signal' \in {"waiting", "grace", "cleanup", signal} /\ config' = config
               /\ State' \in {"ready", "grace", "cleanup", State}
               /\ overtaken' \in {signal = "cleanup", overtaken}
BY DEF ServerStep, SetupGracefulShutdown, SetReady, ListenFails, Sigterm, GraceEnds,
       CleanupEnds, Exit

(* A step of the server keeps the types. *)
LEMMA ServerStepTyped ==
  ASSUME TypeOK, ServerStep
  PROVE  TypeOK'
<1>1. LimiterTyped'
  BY TypeOKSplit, UnchangedTyped, ServerStepEffect
<1>2. CASE Exit
  <2>1. RequestTyped'
    BY <1>2, TypeOKSplit DEF Exit, RequestTyped
  <2>2. ServerTyped'
    BY <1>2, TypeOKSplit DEF Exit, ServerTyped
  <2>3. QED
    BY <1>1, <2>1, <2>2, TypeOKSplitNext
<1>3. CASE UNCHANGED requestVars /\ main' \in {"armed", "listening", main}
               /\ signal' \in {"waiting", "grace", "cleanup", signal} /\ config' = config
               /\ State' \in {"ready", "grace", "cleanup", State}
               /\ overtaken' \in {signal = "cleanup", overtaken}
  <2>1. RequestTyped'
    BY <1>3, TypeOKSplit, UnchangedTyped
  <2>2. ServerTyped'
    BY <1>3, TypeOKSplit DEF ServerTyped
  <2>3. QED
    BY <1>1, <2>1, <2>2, TypeOKSplitNext
<1>4. QED
  BY <1>2, <1>3, ServerStepEffect

(* A new request is typed. *)
LEMMA AcceptTyped ==
  ASSUME TypeOK, NEW r \in Requests, NEW c \in Clients, NEW a \in Asks, Accept(r, c, a)
  PROVE  TypeOK'
<1>1. ServerTyped' /\ LimiterTyped'
  BY TypeOKSplit, UnchangedTyped DEF Accept
<1>2. RequestTyped'
  <2>1. pc' \in [Requests -> Stages \cup {"idle"}]
    BY TypeOKSplit DEF RequestTyped, Accept, Move, Stages
  <2>2. client' \in [Requests -> Clients] /\ ask' \in [Requests -> Asks]
    BY TypeOKSplit DEF RequestTyped, Accept
  <2>3. answer' \in [Requests -> {0, 200, 400, 403, 404, 429, 500, 502, 503}]
    BY TypeOKSplit DEF RequestTyped, Accept
  <2>4. late' \in [Requests -> BOOLEAN]
    BY TypeOKSplit DEF RequestTyped, Accept
  <2>5. n' = n
    BY DEF Accept
  <2>6. QED
    BY <2>1, <2>2, <2>3, <2>4, <2>5, TypeOKSplit DEF RequestTyped
<1>3. QED
  BY <1>1, <1>2, TypeOKSplitNext

(* A count and a save stay within the limit. *)
LEMMA CountedTyped ==
  ASSUME TypeOK, NEW r \in Requests, Count(r) \/ Save(r) \/ SaveFails(r)
  PROVE  TypeOK'
<1>1. RequestTyped /\ LimiterTyped
  BY TypeOKSplit
<1>2. ServerTyped'
  BY TypeOKSplit, UnchangedTyped DEF Count, Save, SaveFails
<1>3. CASE Count(r)
  <2> DEFINE k == counter[client[r]] + 1
  <2>1. counter[client[r]] \in 0..MaxRequests
    BY <1>1 DEF RequestTyped, LimiterTyped
  <2>2. k \in 0..MaxRequests
    BY <1>3, <2>1, HttpAssumption DEF Count
  <2>3. n' = [n EXCEPT ![r] = k] /\ Moved(r, "save") /\ UNCHANGED limiterVars
    BY <1>3 DEF Count, Move, Moved
  <2> HIDE DEF k
  <2>4. n' \in [Requests -> 0..MaxRequests]
    BY <1>1, <2>2, <2>3 DEF RequestTyped
  <2>5. QED
    BY <1>1, <1>2, <2>3, <2>4, MovedTyped, UnchangedTyped, TypeOKSplitNext DEF Stages
<1>4. CASE Save(r) \/ SaveFails(r)
  <2>1. RequestTyped'
    <3>1. n' = [n EXCEPT ![r] = 0] /\ Moved(r, "route")
      BY <1>4 DEF Save, SaveFails, Move, Moved
    <3>2. 0 \in 0..MaxRequests
      BY HttpAssumption
    <3>3. n' \in [Requests -> 0..MaxRequests]
      BY <1>1, <3>1, <3>2 DEF RequestTyped
    <3>4. QED
      BY <1>1, <3>1, <3>3, MovedTyped DEF Stages
  <2>2. CASE SaveFails(r)
    BY <1>1, <1>2, <2>1, <2>2, UnchangedTyped, TypeOKSplitNext DEF SaveFails
  <2>3. CASE Save(r)
    <3>1. client[r] \in Clients /\ n[r] \in 0..MaxRequests
      BY <1>1 DEF RequestTyped
    <3>2. Window \in 0..Window
      BY HttpAssumption
    <3>3. counter' \in [Clients -> 0..MaxRequests] /\ ttl' \in [Clients -> 0..Window]
      BY <1>1, <2>3, <3>1, <3>2 DEF Save, Saved, LimiterTyped
    <3>4. passed' \in [Clients -> 0..(MaxRequests + 1)]
      <4> DEFINE p == IF passed[client[r]] > MaxRequests THEN passed[client[r]]
                      ELSE passed[client[r]] + 1
      <4>1. passed[client[r]] \in 0..(MaxRequests + 1)
        BY <1>1, <3>1 DEF LimiterTyped
      <4>2. p \in 0..(MaxRequests + 1)
        BY <4>1, HttpAssumption
      <4>3. passed' = [passed EXCEPT ![client[r]] = p]
        BY <2>3 DEF Save, Saved
      <4> HIDE DEF p
      <4>4. QED
        BY <1>1, <3>1, <4>2, <4>3 DEF LimiterTyped
    <3>5. stale' \in [Clients -> BOOLEAN]
      BY <1>1, <2>3, <3>1 DEF Save, Saved, LimiterTyped
    <3>6. QED
      BY <1>2, <2>1, <3>3, <3>4, <3>5, TypeOKSplitNext DEF LimiterTyped
  <2>4. QED
    BY <1>4, <2>2, <2>3
<1>5. QED
  BY <1>3, <1>4

(* Counters run down within their types. *)
LEMMA TickTyped ==
  ASSUME TypeOK, Tick
  PROVE  TypeOK'
<1>1. ServerTyped' /\ RequestTyped'
  BY TypeOKSplit, UnchangedTyped DEF Tick
<1>2. LimiterTyped
  BY TypeOKSplit
<1>3. 0 \in 0..MaxRequests /\ 0 \in 0..(MaxRequests + 1)
  BY HttpAssumption
<1>4. \A x \in 0..Window : (IF x = 0 THEN 0 ELSE x - 1) \in 0..Window
  BY HttpAssumption
<1>5. ttl' \in [Clients -> 0..Window]
  BY <1>2, <1>4 DEF Tick, LimiterTyped
<1>6. counter' \in [Clients -> 0..MaxRequests] /\ passed' \in [Clients -> 0..(MaxRequests + 1)]
  BY <1>2, <1>3 DEF Tick, LimiterTyped
<1>7. stale' \in [Clients -> BOOLEAN]
  BY <1>2 DEF Tick, LimiterTyped
<1>8. QED
  BY <1>1, <1>5, <1>6, <1>7, TypeOKSplitNext DEF LimiterTyped

(* Every step keeps the types. *)
LEMMA TypeOKStep ==
  ASSUME TypeOK, [Next]_vars
  PROVE  TypeOK'
<1>1. CASE Next
  <2>1. CASE ServerStep
    BY <2>1, ServerStepTyped
  <2>2. CASE Accepts
    BY <2>2, AcceptTyped DEF Accepts
  <2>3. CASE Tick
    BY <2>3, TickTyped
  <2>4. ASSUME NEW r \in Requests, Plain(r)
        PROVE  TypeOK'
    <3>1. RequestTyped
      BY TypeOKSplit
    <3>2. ServerTyped' /\ LimiterTyped'
      BY <2>4, <3>1, PlainSteps, TypeOKSplit, UnchangedTyped
    <3>3. CASE \E s \in {200, 400, 403, 404, 429, 500, 502, 503} : Answered(r, s)
      <4>1. PICK s \in {200, 400, 403, 404, 429, 500, 502, 503} : Answered(r, s)
        BY <3>3
      <4>2. QED
        BY <3>1, <3>2, <4>1, AnsweredTyped, TypeOKSplitNext
    <3>4. CASE \E to \in {"limit", "route", "key", "handler"} : Moved(r, to) /\ n' = n
      <4>1. PICK to \in {"limit", "route", "key", "handler"} : Moved(r, to) /\ n' = n
        BY <3>4
      <4>2. n' \in [Requests -> 0..MaxRequests] /\ to \in Stages
        BY <3>1, <4>1 DEF RequestTyped, Stages
      <4>3. QED
        BY <3>1, <3>2, <4>1, <4>2, MovedTyped, TypeOKSplitNext
    <3>5. QED
      BY <2>4, <3>1, <3>3, <3>4, PlainSteps
  <2>5. ASSUME NEW r \in Requests, Count(r) \/ Save(r) \/ SaveFails(r)
        PROVE  TypeOK'
    BY <2>5, CountedTyped
  <2>6. QED
    BY <1>1, <2>1, <2>2, <2>3, <2>4, <2>5, NextSplit
<1>2. CASE UNCHANGED vars
  BY <1>2, TypeOKSplit, TypeOKSplitNext, UnchangedTyped DEF vars, serverVars, requestVars, limiterVars
<1>3. QED
  BY <1>1, <1>2

(* The first state is typed. *)
LEMMA TypeOKInit == Init => TypeOK
<1> SUFFICES ASSUME Init PROVE TypeOK
  OBVIOUS
<1>1. (CHOOSE c \in Clients : TRUE) \in Clients /\ (CHOOSE a \in Asks : TRUE) \in Asks
  BY HttpAssumption
<1>2. 0 \in 0..MaxRequests /\ 0 \in 0..Window /\ 0 \in 0..(MaxRequests + 1)
  BY HttpAssumption
<1>3. config \in Config
  BY HttpAssumption DEF Init
<1>4. QED
  BY <1>1, <1>2, <1>3 DEF Init, TypeOK, Stages
-----------------------------------------------------------------------------
(* Once main listens and the cleanup period has begun, State says so, unless
   main was the last to write it; and a request accepted since has then got no
   further than serverStateMiddleware. *)
CleanupInv ==
  /\ signal = "cleanup" /\ main = "listening" => overtaken \/ State = "cleanup"
  /\ \A r \in Requests : late[r] => signal = "cleanup" /\ main \in {"listening", "exited"}
  /\ OnlyOvertakenServes

(* No step of a request serves one that was accepted in the cleanup period. *)
LEMMA CleanupPlain ==
  ASSUME TypeOK, CleanupInv, NEW r \in Requests, Plain(r)
  PROVE  CleanupInv'
<1>1. RequestTyped
  BY TypeOKSplit
<1>2. UNCHANGED serverVars
  BY <1>1, PlainSteps
<1>3. late' = late
  BY <1>1, PlainSteps DEF Answered, Moved
<1>4. \A q \in Requests \ {r} : pc'[q] = pc[q] /\ answer'[q] = answer[q]
  BY <1>1, PlainSteps DEF Answered, Moved, RequestTyped
<1>5. ASSUME ~overtaken, late[r], main # "exited"
      PROVE  pc'[r] \in {"idle", "state"} /\ answer'[r] \in {0, 503}
  <2>1. pc[r] \in {"idle", "state"} /\ State = "cleanup"
    BY <1>5 DEF CleanupInv, OnlyOvertakenServes, CleanupServesNothing
  <2>2. ~(Unlimited(r) \/ Refuse(r) \/ GetFails(r) \/ Route(r) \/ APIKeyRequired(r)
           \/ Recover(r))
    BY <2>1 DEF Unlimited, Refuse, GetFails, Route, APIKeyRequired, Recover,
                Onward, Reply, Move, Stages
  <2>3. ~(Ingest(r) \/ Read(r))
    <3>1. pc[r] # "handler"
      BY <2>1
    <3>2. QED
      BY <3>1 DEF Ingest, Read, Reply, Move
  <2>4. ServerState(r)
    BY <2>2, <2>3 DEF Plain
  <2>5. pc' = [pc EXCEPT ![r] = "idle"] /\ answer' = [answer EXCEPT ![r] = 503]
    BY <2>1, <2>4 DEF ServerState, Reply, Move
  <2>6. QED
    BY <1>1, <2>5 DEF RequestTyped
<1>6. QED
  BY <1>2, <1>3, <1>4, <1>5
  DEF CleanupInv, OnlyOvertakenServes, CleanupServesNothing, serverVars

(* Every step keeps it. *)
LEMMA CleanupStep ==
  ASSUME TypeOK, CleanupInv, [Next]_vars
  PROVE  CleanupInv'
<1>1. ServerTyped /\ RequestTyped
  BY TypeOKSplit
<1>2. CASE Next
  <2>1. CASE ServerStep
    <3>1. CASE Exit
      BY <3>1 DEF CleanupInv, OnlyOvertakenServes, CleanupServesNothing, Exit
    <3>2. CASE ~Exit
      <4>1. UNCHANGED requestVars
        BY <2>1, <3>2, ServerStepEffect
      <4>2. CASE SetupGracefulShutdown \/ SetReady
        BY <1>1, <4>1, <4>2
        DEF SetupGracefulShutdown, SetReady, CleanupInv, OnlyOvertakenServes,
            CleanupServesNothing, requestVars
      <4>3. CASE Sigterm \/ GraceEnds
        BY <3>2, <4>1, <4>3
        DEF Sigterm, GraceEnds, CleanupInv, OnlyOvertakenServes, CleanupServesNothing,
            requestVars
      <4>4. QED
        BY <2>1, <3>2, <4>2, <4>3 DEF ServerStep, ListenFails, CleanupEnds
    <3>3. QED
      BY <3>1, <3>2
  <2>2. CASE Accepts
    <3>1. PICK r \in Requests, c \in Clients, a \in Asks : Accept(r, c, a)
      BY <2>2 DEF Accepts
    <3>2. \A q \in Requests \ {r} :
             pc'[q] = pc[q] /\ answer'[q] = answer[q] /\ late'[q] = late[q]
      BY <1>1, <3>1 DEF Accept, Move, RequestTyped
    <3>3. pc'[r] = "state" /\ answer'[r] = 0 /\ late'[r] = (signal = "cleanup")
      BY <1>1, <3>1 DEF Accept, Move, RequestTyped
    <3>4. UNCHANGED serverVars
      BY <3>1 DEF Accept
    <3>5. signal' = signal /\ main' = main /\ State' = State /\ overtaken' = overtaken
      BY <3>4 DEF serverVars
    <3>6. main = "listening"
      BY <3>1 DEF Accept
    <3>7. \A q \in Requests : late'[q] => signal = "cleanup" /\ main \in {"listening", "exited"}
      BY <3>2, <3>3, <3>6 DEF CleanupInv
    <3>8. OnlyOvertakenServes'
      BY <3>2, <3>3, <3>5 DEF CleanupInv, OnlyOvertakenServes, CleanupServesNothing
    <3>9. QED
      BY <3>5, <3>7, <3>8 DEF CleanupInv
  <2>3. CASE Tick
    BY <2>3 DEF Tick, CleanupInv, OnlyOvertakenServes, CleanupServesNothing, serverVars,
                requestVars
  <2>4. ASSUME NEW r \in Requests, Plain(r)
        PROVE  CleanupInv'
    BY <2>4, CleanupPlain
  <2>5. ASSUME NEW r \in Requests, Count(r) \/ Save(r) \/ SaveFails(r)
        PROVE  CleanupInv'
    <3>1. pc[r] \notin {"idle", "state"}
      BY <2>5 DEF Count, Save, SaveFails, Move
    <3>2. overtaken \/ ~late[r] \/ main = "exited"
      BY <3>1 DEF CleanupInv, OnlyOvertakenServes, CleanupServesNothing
    <3>3. UNCHANGED serverVars /\ late' = late /\ answer' = answer
      BY <2>5 DEF Count, Save, SaveFails
    <3>4. \A q \in Requests \ {r} : pc'[q] = pc[q]
      BY <1>1, <2>5 DEF Count, Save, SaveFails, Move, RequestTyped
    <3>5. QED
      BY <3>2, <3>3, <3>4
      DEF CleanupInv, OnlyOvertakenServes, CleanupServesNothing, serverVars
  <2>6. QED
    BY <1>2, <2>1, <2>2, <2>3, <2>4, <2>5, NextSplit
<1>3. CASE UNCHANGED vars
  BY <1>3 DEF vars, CleanupInv, OnlyOvertakenServes, CleanupServesNothing
<1>4. QED
  BY <1>2, <1>3

(* serverStateMiddleware: a request accepted in the cleanup period is answered
   503 or not at all, whatever the order in which main and the signal goroutine
   have written State before, unless main was the last to write it. *)
THEOREM CleanupServes == Spec => []OnlyOvertakenServes
<1>1. Init => CleanupInv
  BY DEF Init, CleanupInv, OnlyOvertakenServes, CleanupServesNothing
<1>2. TypeOK /\ CleanupInv /\ [Next]_vars => (TypeOK /\ CleanupInv)'
  BY TypeOKStep, CleanupStep
<1>3. CleanupInv => OnlyOvertakenServes
  BY DEF CleanupInv
<1>4. QED
  BY <1>1, <1>2, <1>3, TypeOKInit, PTL DEF Spec
-----------------------------------------------------------------------------
(* WindowHolds, with what a request that is about to save has counted. *)
WindowInv ==
  /\ WindowHolds
  /\ \A r \in Requests : pc[r] = "save" => n[r] > 0

(* Steps that leave the counters alone, and bring no request before its save,
   keep it. *)
LEMMA WindowKept ==
  ASSUME WindowInv, UNCHANGED limiterVars,
         \A r \in Requests : pc'[r] = "save" => pc[r] = "save" /\ n'[r] = n[r]
  PROVE  WindowInv'
BY DEF WindowInv, WindowHolds, limiterVars

(* A save on a current read adds one to the count and to what has passed. *)
LEMMA WindowSave ==
  ASSUME TypeOK, WindowInv, NEW r \in Requests, Save(r)
  PROVE  WindowInv'
<1>1. RequestTyped /\ LimiterTyped
  BY TypeOKSplit
<1>2. PICK c \in Clients : c = client[r]
  BY <1>1 DEF RequestTyped
<1>3. /\ counter' = [counter EXCEPT ![c] = n[r]]
      /\ ttl' = [ttl EXCEPT ![c] = Window]
      /\ passed' = [passed EXCEPT ![c] = IF @ > MaxRequests THEN @ ELSE @ + 1]
      /\ stale' = [stale EXCEPT ![c] = @ \/ counter[c] + 1 # n[r]]
  BY <1>2 DEF Save, Saved
<1>4. n[r] > 0
  BY DEF Save, Move, WindowInv
<1>5. \A d \in Clients \ {c} : /\ counter'[d] = counter[d] /\ ttl'[d] = ttl[d]
                              /\ passed'[d] = passed[d] /\ stale'[d] = stale[d]
  BY <1>1, <1>3 DEF LimiterTyped
<1>6. counter'[c] = n[r] /\ ttl'[c] = Window
  BY <1>1, <1>3 DEF LimiterTyped
<1>7. stale'[c] = (stale[c] \/ counter[c] + 1 # n[r])
  BY <1>1, <1>3 DEF LimiterTyped
<1>8. passed'[c] = IF passed[c] > MaxRequests THEN passed[c] ELSE passed[c] + 1
  BY <1>1, <1>3 DEF LimiterTyped
<1>9. n[r] \in 0..MaxRequests /\ counter[c] \in 0..MaxRequests
  BY <1>1 DEF RequestTyped, LimiterTyped
<1>10. ~stale'[c] => passed'[c] = counter'[c]
  <2> SUFFICES ASSUME ~stale'[c] PROVE passed'[c] = counter'[c]
    OBVIOUS
  <2>1. ~stale[c] /\ counter[c] + 1 = n[r]
    BY <1>7
  <2>2. passed[c] = counter[c]
    BY <2>1 DEF WindowInv, WindowHolds
  <2>3. ~(passed[c] > MaxRequests)
    BY <1>9, <2>2, HttpAssumption
  <2>4. QED
    BY <1>6, <1>8, <2>1, <2>2, <2>3
<1>11. counter'[c] > 0 <=> ttl'[c] > 0
  BY <1>4, <1>6, HttpAssumption
<1>12. WindowHolds'
  BY <1>5, <1>10, <1>11 DEF WindowInv, WindowHolds
<1>13. \A q \in Requests : pc'[q] = "save" => q # r
  BY <1>1 DEF Save, Move, RequestTyped
<1>14. \A q \in Requests \ {r} : pc'[q] = pc[q] /\ n'[q] = n[q]
  BY <1>1 DEF Save, Move, RequestTyped
<1>15. QED
  BY <1>12, <1>13, <1>14 DEF WindowInv

(* A counter and its window end together. *)
LEMMA WindowTick ==
  ASSUME TypeOK, WindowInv, Tick
  PROVE  WindowInv'
<1>1. LimiterTyped
  BY TypeOKSplit
<1>2. UNCHANGED requestVars
  BY DEF Tick
<1>3. ASSUME NEW c \in Clients
      PROVE  (~stale'[c] => passed'[c] = counter'[c]) /\ (counter'[c] > 0 <=> ttl'[c] > 0)
  <2>1. ttl[c] \in 0..Window /\ counter[c] \in 0..MaxRequests
    BY <1>1 DEF LimiterTyped
  <2>2. (~stale[c] => passed[c] = counter[c]) /\ (counter[c] > 0 <=> ttl[c] > 0)
    BY DEF WindowInv, WindowHolds
  <2>3. ttl'[c] = IF ttl[c] = 0 THEN 0 ELSE ttl[c] - 1
    BY DEF Tick
  <2>4. CASE ttl[c] = 1
    <3>1. counter'[c] = 0 /\ passed'[c] = 0 /\ ttl'[c] = 0
      BY <2>3, <2>4 DEF Tick
    <3>2. QED
      BY <3>1
  <2>5. CASE ttl[c] # 1
    <3>1. counter'[c] = counter[c] /\ passed'[c] = passed[c] /\ stale'[c] = stale[c]
      BY <2>5 DEF Tick
    <3>2. ttl'[c] > 0 <=> ttl[c] > 0
      BY <2>1, <2>3, <2>5, HttpAssumption
    <3>3. QED
      BY <2>2, <3>1, <3>2
  <2>6. QED
    BY <2>4, <2>5
<1>4. QED
  BY <1>2, <1>3 DEF WindowInv, WindowHolds, requestVars

(* Every step keeps it. *)
LEMMA WindowStep ==
  ASSUME TypeOK, WindowInv, [Next]_vars
  PROVE  WindowInv'
<1>1. RequestTyped /\ LimiterTyped
  BY TypeOKSplit
<1>2. CASE Next
  <2>1. CASE ServerStep
    <3>1. UNCHANGED limiterVars
      BY <2>1, ServerStepEffect
    <3>2. \A r \in Requests : pc'[r] = "save" => pc[r] = "save" /\ n'[r] = n[r]
      BY <2>1, ServerStepEffect DEF Exit, requestVars
    <3>3. QED
      BY <3>1, <3>2, WindowKept
  <2>2. CASE Accepts
    <3>1. PICK r \in Requests, c \in Clients, a \in Asks : Accept(r, c, a)
      BY <2>2 DEF Accepts
    <3>2. \A q \in Requests : pc'[q] = "save" => pc[q] = "save" /\ n'[q] = n[q]
      BY <1>1, <3>1 DEF Accept, Move, RequestTyped
    <3>3. QED
      BY <3>1, <3>2, WindowKept DEF Accept
  <2>3. CASE Tick
    BY <2>3, WindowTick
  <2>4. ASSUME NEW r \in Requests, Plain(r)
        PROVE  WindowInv'
    <3>1. \A q \in Requests : pc'[q] = "save" => pc[q] = "save" /\ n'[q] = n[q]
      BY <1>1, <2>4, PlainSteps DEF Answered, Moved, RequestTyped
    <3>2. QED
      BY <1>1, <2>4, <3>1, PlainSteps, WindowKept
  <2>5. ASSUME NEW r \in Requests, Count(r)
        PROVE  WindowInv'
    <3>1. n' = [n EXCEPT ![r] = counter[client[r]] + 1] /\ UNCHANGED limiterVars
      BY <2>5 DEF Count
    <3>2. counter[client[r]] \in 0..MaxRequests
      BY <1>1 DEF RequestTyped, LimiterTyped
    <3>3. n'[r] = counter[client[r]] + 1
      BY <1>1, <3>1 DEF RequestTyped
    <3>4. n'[r] > 0
      BY <3>2, <3>3, HttpAssumption
    <3>5. \A q \in Requests \ {r} : pc'[q] = pc[q] /\ n'[q] = n[q]
      BY <1>1, <2>5 DEF Count, Move, RequestTyped
    <3>6. QED
      BY <3>1, <3>4, <3>5 DEF WindowInv, WindowHolds, limiterVars
  <2>6. ASSUME NEW r \in Requests, Save(r)
        PROVE  WindowInv'
    BY <2>6, WindowSave
  <2>7. ASSUME NEW r \in Requests, SaveFails(r)
        PROVE  WindowInv'
    <3>1. \A q \in Requests : pc'[q] = "save" => pc[q] = "save" /\ n'[q] = n[q]
      BY <1>1, <2>7 DEF SaveFails, Move, RequestTyped
    <3>2. QED
      BY <2>7, <3>1, WindowKept DEF SaveFails
  <2>8. QED
    BY <1>2, <2>1, <2>2, <2>3, <2>4, <2>5, <2>6, <2>7, NextSplit
<1>3. CASE UNCHANGED vars
  BY <1>3, WindowKept DEF vars, limiterVars
<1>4. QED
  BY <1>2, <1>3

(* RateLimit: as long as no request saves on an outdated read, the counter is
   the number of requests that its window has let pass, hence never above
   MaxRequests, and it lives exactly as long as the window. *)
THEOREM LimiterCounts == Spec => []LimiterInv
<1>1. Init => WindowInv
  BY DEF Init, WindowInv, WindowHolds
<1>2. TypeOK /\ WindowInv /\ [Next]_vars => (TypeOK /\ WindowInv)'
  BY TypeOKStep, WindowStep
<1>3. TypeOK /\ WindowInv => LimiterInv
  BY DEF WindowInv, LimiterInv
<1>4. QED
  BY <1>1, <1>2, <1>3, TypeOKInit, PTL DEF Spec
=============================================================================
