----------------------------- MODULE HttpServer ------------------------------
(***************************************************************************)
(* The HTTP process: its start and its signal goroutine                    *)
(* (transport/http/http.go), the way of a request through the middlewares  *)
(* (server state, recover, rate limit, API key), the health check, and the *)
(* ingest endpoints (internal/handlers/ingest).  The read endpoints are    *)
(* ReadApi's; here they answer or fail.                                    *)
(*                                                                         *)
(* The rate limiter keeps one counter per client in Redis and reads,       *)
(* compares and saves it in separate calls.                                *)
(***************************************************************************)
EXTENDS Naturals, FiniteSets

CONSTANTS
  Requests,     \* request goroutines at a time
  Clients,      \* values of the limiter's key: client address and user agent
  Configs,      \* configurations the process may be started with
  MaxRequests,  \* requests per window
  Window,       \* its length, in ticks
  Asks          \* what is asked: records of route, key, body

Ingests == {"scoreboard", "teams", "news", "injuries", "transactions"}
Bodies == {"fine", "malformed", "blank", "bad date", "bad limit"}

(* SERVER_ENV is development; APP_RATE_LIMITER_ENABLE. *)
Config == [development : BOOLEAN, limited : BOOLEAN]

ASSUME HttpAssumption ==
  /\ Configs \subseteq Config
  /\ MaxRequests \in Nat \ {0} /\ Window \in Nat \ {0}
  /\ Asks \subseteq [route : Ingests \cup {"health", "read", "unknown"},
                     key : BOOLEAN, body : Bodies]
  /\ Asks # {} /\ Clients # {}

VARIABLES
  config,   \* what it was started with
  main,     \* where the main goroutine is in Serve
  signal,   \* where the signal goroutine is in respondToSigterm
  State,    \* h.State, written by both
  overtaken,  \* main set Ready when the cleanup period had begun (history)
  pc,       \* pc[r]: the middleware or handler request r is in
  client, ask,  \* whose request r is, and for what
  n,        \* n[r]: the local count of RateLimit
  answer,   \* answer[r]: the status r was answered with, 0 for none
  late,     \* late[r]: r was accepted in the cleanup period (history)
  counter,  \* counter[c]: the value Redis has for c, 0 for none
  ttl,      \* ttl[c]: ticks until it expires
  passed,   \* passed[c]: requests let through by this counter (history)
  stale     \* stale[c]: a save was based on an outdated read (history)

serverVars == <<config, main, signal, State, overtaken>>
requestVars == <<pc, client, ask, n, answer, late>>
limiterVars == <<counter, ttl, passed, stale>>
vars == <<config, main, signal, State, overtaken, pc, client, ask, n, answer, late,
          counter, ttl, passed, stale>>

Stages == {"state", "limit", "save", "route", "key", "handler"}

TypeOK ==
  /\ config \in Config
  /\ main \in {"setup", "armed", "listening", "exited"}
  /\ signal \in {"none", "waiting", "grace", "cleanup"}
  /\ State \in {"none", "ready", "grace", "cleanup"}
  /\ overtaken \in BOOLEAN
  /\ pc \in [Requests -> Stages \cup {"idle"}]
  /\ client \in [Requests -> Clients]
  /\ ask \in [Requests -> Asks]
  /\ n \in [Requests -> 0..MaxRequests]
  /\ answer \in [Requests -> {0, 200, 400, 403, 404, 429, 500, 502, 503}]
  /\ late \in [Requests -> BOOLEAN]
  /\ counter \in [Clients -> 0..MaxRequests]
  /\ ttl \in [Clients -> 0..Window]
  /\ passed \in [Clients -> 0..(MaxRequests + 1)]
  /\ stale \in [Clients -> BOOLEAN]

Init ==
  /\ config \in Configs
  /\ main = "setup" /\ signal = "none" /\ State = "none" /\ overtaken = FALSE
  /\ pc = [r \in Requests |-> "idle"]
  /\ client = [r \in Requests |-> CHOOSE c \in Clients : TRUE]
  /\ ask = [r \in Requests |-> CHOOSE a \in Asks : TRUE]
  /\ n = [r \in Requests |-> 0]
  /\ answer = [r \in Requests |-> 0]
  /\ late = [r \in Requests |-> FALSE]
  /\ counter = [c \in Clients |-> 0]
  /\ ttl = [c \in Clients |-> 0]
  /\ passed = [c \in Clients |-> 0]
  /\ stale = [c \in Clients |-> FALSE]
-----------------------------------------------------------------------------
(* setup: the signal goroutine is started first, then State is set, whatever
   that goroutine has written there in between. *)
SetupGracefulShutdown ==
  /\ main = "setup" /\ main' = "armed"
  /\ signal' = "waiting"
  /\ UNCHANGED <<config, State, overtaken, requestVars, limiterVars>>

SetReady ==
  /\ main = "armed" /\ main' = "listening"
  /\ State' = "ready"
  /\ overtaken' = (signal = "cleanup")
  /\ UNCHANGED <<config, signal, requestVars, limiterVars>>

(* os.Exit, or main returns: the requests die with the process. *)
Exit ==
  /\ main' = "exited"
  /\ pc' = [r \in Requests |-> "idle"]
  /\ UNCHANGED <<config, signal, State, overtaken, client, ask, n, answer, late, limiterVars>>

(* ListenAndServe returns an error, and Serve with it. *)
ListenFails == main = "listening" /\ Exit

(* SIGINT or SIGTERM; in development it ends the process at once. *)
Sigterm ==
  /\ signal = "waiting" /\ main # "exited"
  /\ IF config.development
     THEN Exit
     ELSE /\ signal' = "grace"
          /\ State' = "grace"
          /\ UNCHANGED <<config, main, overtaken, requestVars, limiterVars>>

(* The grace period is over.  It has no default and may be zero, so that main
   need not have set Ready yet. *)
GraceEndsBug_StateKept ==
  /\ signal = "grace" /\ main # "exited"
  /\ signal' = "cleanup"
  /\ UNCHANGED <<config, main, State, overtaken, requestVars, limiterVars>>

GraceEnds ==
  /\ signal = "grace" /\ main # "exited"
  /\ signal' = "cleanup"
  /\ State' = "cleanup"
  /\ UNCHANGED <<config, main, overtaken, requestVars, limiterVars>>

(* The cleanup period is over, wherever main is. *)
CleanupEnds == signal = "cleanup" /\ main # "exited" /\ Exit
-----------------------------------------------------------------------------
Move(r, from, to) ==
  /\ pc[r] = from
  /\ pc' = [pc EXCEPT ![r] = to]

(* r is answered, and its goroutine ends. *)
Reply(r, from, status) ==
  /\ Move(r, from, "idle")
  /\ answer' = [answer EXCEPT ![r] = status]
  /\ n' = [n EXCEPT ![r] = 0]
  /\ UNCHANGED <<client, ask, late>>

Onward(r, from, to) ==
  /\ Move(r, from, to)
  /\ UNCHANGED <<client, ask, n, answer, late>>

Accept(r, c, a) ==
  /\ main = "listening"
  /\ Move(r, "idle", "state")
  /\ client' = [client EXCEPT ![r] = c]
  /\ ask' = [ask EXCEPT ![r] = a]
  /\ answer' = [answer EXCEPT ![r] = 0]
  /\ late' = [late EXCEPT ![r] = signal = "cleanup"]
  /\ UNCHANGED <<n, serverVars, limiterVars>>

(* serverStateMiddleware: WithPreparingShutdown in the cleanup period. *)
ServerState(r) ==
  /\ IF State = "cleanup" THEN Reply(r, "state", 503) ELSE Onward(r, "state", "limit")
  /\ UNCHANGED <<serverVars, limiterVars>>

Unlimited(r) ==
  /\ ~config.limited
  /\ Onward(r, "limit", "route")
  /\ UNCHANGED <<serverVars, limiterVars>>

(* RateLimit, up to the comparison: cache.Get found a count, or cache.Nil. *)
CountBug_FirstIsFree(r) ==
  LET k == IF counter[client[r]] = 0 THEN 0 ELSE counter[client[r]] + 1
  IN  /\ config.limited
      /\ Move(r, "limit", "save") /\ k <= MaxRequests
      /\ n' = [n EXCEPT ![r] = k]
      /\ UNCHANGED <<client, ask, answer, late, serverVars, limiterVars>>

Count(r) ==
  LET k == counter[client[r]] + 1
  IN  /\ config.limited
      /\ k <= MaxRequests
      /\ Move(r, "limit", "save")
      /\ n' = [n EXCEPT ![r] = k]
      /\ UNCHANGED <<client, ask, answer, late, serverVars, limiterVars>>

(* The limit is exceeded: 429, and the counter is left to expire. *)
RefuseBug_SavesToo(r) ==
  LET c == client[r]
  IN  /\ config.limited
      /\ counter[c] + 1 > MaxRequests
      /\ Reply(r, "limit", 429)
      /\ ttl' = [ttl EXCEPT ![c] = Window]
      /\ UNCHANGED <<counter, passed, stale, serverVars>>

Refuse(r) ==
  /\ config.limited
  /\ counter[client[r]] + 1 > MaxRequests
  /\ Reply(r, "limit", 429)
  /\ UNCHANGED <<serverVars, limiterVars>>

(* cache.Get fails otherwise: the request goes on uncounted. *)
GetFails(r) ==
  /\ config.limited
  /\ Onward(r, "limit", "route")
  /\ UNCHANGED <<serverVars, limiterVars>>

(* What cache.Save of r does in Redis: the count and a new window.  The history
   tells whether the count had moved since r read it. *)
Saved(r) ==
  LET c == client[r]
  IN  /\ counter' = [counter EXCEPT ![c] = n[r]]
      /\ ttl' = [ttl EXCEPT ![c] = Window]
      /\ passed' = [passed EXCEPT ![c] = IF @ > MaxRequests THEN @ ELSE @ + 1]
      /\ stale' = [stale EXCEPT ![c] = @ \/ counter[c] + 1 # n[r]]

Save(r) ==
  /\ Move(r, "save", "route")
  /\ Saved(r)
  /\ n' = [n EXCEPT ![r] = 0]
  /\ UNCHANGED <<client, ask, answer, late, serverVars>>

(* cache.Save fails: the request goes on (a save whose answer is lost is Save,
   without the response headers). *)
SaveFails(r) ==
  /\ Move(r, "save", "route")
  /\ n' = [n EXCEPT ![r] = 0]
  /\ UNCHANGED <<client, ask, answer, late, serverVars, limiterVars>>

(* The mux: healthCheck pings the read pool, the API asks for its key. *)
Route(r) ==
  /\ CASE ask[r].route = "health" -> \E s \in {200, 503} : Reply(r, "route", s)
       [] ask[r].route = "unknown" -> Reply(r, "route", 404)
       [] OTHER -> Onward(r, "route", "key")
  /\ UNCHANGED <<serverVars, limiterVars>>

APIKeyRequired(r) ==
  /\ IF ask[r].key THEN Onward(r, "key", "handler") ELSE Reply(r, "key", 403)
  /\ UNCHANGED <<serverVars, limiterVars>>

(* decodeBody, requireSportLeague, validateDate (scoreboard) and validateLimit
   (news) turn a request away. *)
Invalid(a) ==
  \/ a.body \in {"malformed", "blank"}
  \/ a.route = "scoreboard" /\ a.body = "bad date"
  \/ a.route = "news" /\ a.body = "bad limit"

(* An ingest endpoint: 400, or the service is called and its error is a 502. *)
Ingest(r) ==
  /\ ask[r].route \in Ingests
  /\ \E s \in IF Invalid(ask[r]) THEN {400} ELSE {200, 502} : Reply(r, "handler", s)
  /\ UNCHANGED <<serverVars, limiterVars>>

Read(r) ==
  /\ ask[r].route = "read"
  /\ \E s \in {200, 400, 404, 500} : Reply(r, "handler", s)
  /\ UNCHANGED <<serverVars, limiterVars>>

(* Recoverer answers for a panic further in. *)
Recover(r) ==
  /\ pc[r] \in Stages \ {"state"}
  /\ Reply(r, pc[r], 500)
  /\ UNCHANGED <<serverVars, limiterVars>>

(* A second passes in Redis: counters run down and expire. *)
Tick ==
  LET gone == {c \in Clients : ttl[c] = 1}
  IN  /\ \E c \in Clients : ttl[c] > 0
      /\ ttl' = [c \in Clients |-> IF ttl[c] = 0 THEN 0 ELSE ttl[c] - 1]
      /\ counter' = [c \in Clients |-> IF c \in gone THEN 0 ELSE counter[c]]
      /\ passed' = [c \in Clients |-> IF c \in gone THEN 0 ELSE passed[c]]
      /\ stale' = [c \in Clients |-> IF c \in gone THEN FALSE ELSE stale[c]]
      /\ UNCHANGED <<serverVars, requestVars>>

Serve(r) ==
  \/ ServerState(r) \/ Unlimited(r) \/ Count(r) \/ Refuse(r) \/ GetFails(r) \/ Save(r)
  \/ SaveFails(r) \/ Route(r) \/ APIKeyRequired(r) \/ Ingest(r) \/ Read(r) \/ Recover(r)

Next ==
  \/ SetupGracefulShutdown \/ SetReady \/ ListenFails
  \/ Sigterm \/ GraceEnds \/ CleanupEnds
  \/ \E r \in Requests, c \in Clients, a \in Asks : Accept(r, c, a)
  \/ \E r \in Requests : Serve(r)
  \/ Tick

Spec == Init /\ [][Next]_vars

(* Time passes in Redis.  Nothing is assumed of requests. *)
FairSpec == Spec /\ WF_vars(Tick)
-----------------------------------------------------------------------------
(* A window lets at most MaxRequests requests of a client pass, unless one of
   them was saved on an outdated read: two requests at once, or a counter that
   expired between the read and the save (RateLimit's separate calls).  The
   counter is what passed, and it is there exactly while its window runs. *)
WindowHolds ==
  \A c \in Clients :
    /\ ~stale[c] => passed[c] = counter[c]
    /\ counter[c] > 0 <=> ttl[c] > 0

LimiterInv == TypeOK /\ WindowHolds

(* "Stop the request from actually invoking any domain services and respond
   appropriately" (serverStateMiddleware): a request accepted in the cleanup
   period gets a 503 and nothing else. *)
CleanupServesNothing ==
  \A r \in Requests :
    late[r] /\ main # "exited" => pc[r] \in {"idle", "state"} /\ answer[r] \in {0, 503}

(* There is one way round it: main has written State after the cleanup period
   had begun (setup).  A Ready that only overwrites the grace period is put
   right, and a signal at any later time is. *)
OnlyOvertakenServes == overtaken \/ CleanupServesNothing

(* A client that has used up its window is let in again, however many requests
   it goes on sending: refused ones do not start the window anew, and those that
   had read the counter before are soon through. *)
LockoutEnds ==
  \A c \in Clients : counter[c] = MaxRequests ~> counter[c] # MaxRequests
=============================================================================
