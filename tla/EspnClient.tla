----------------------------- MODULE EspnClient ------------------------------
(***************************************************************************)
(* The ESPN client (infras/espn/espn.go) that every ingest call of a       *)
(* process shares: Get sends a request through the relay pool, starting at *)
(* the relay the shared round-robin cursor points to and failing over to   *)
(* the others, then directly; it retries with backoff what may be retried. *)
(* The NHL client (infras/nhl/nhl.go) has the same loop without relays and *)
(* retries whatever fails.                                                 *)
(*                                                                         *)
(* Attempts are numbered from 0 as in requestWithRetry.  How long a        *)
(* backoff lasts is left out.                                              *)
(***************************************************************************)
EXTENDS Integers, FiniteSets

CONSTANTS
  Calls,       \* concurrent calls of Get
  MaxRelays,   \* bound on the relays configured
  MaxRetries   \* clamped to at least 1 by New

ASSUME ClientAssumption ==
  /\ MaxRelays \in Nat
  /\ MaxRetries \in Nat \ {0}

VARIABLES
  api,      \* which of the two clients this is
  n,        \* len(c.relays): as many non-empty ones as New was configured with
  cursor,   \* c.relayCursor; too few requests are ever made to reach 2^63
  starts,   \* starts[k]: how often relay k was the first to be tried
  pc,       \* pc[c]: where c is in requestWithRetry
  attempt,  \* attempt[c]
  first,    \* first[c]: the relay this attempt started at
  tried,    \* tried[c]: relays that have failed in this attempt
  over,     \* over[c]: the caller's context is over
  result    \* result[c]: what Get returned

vars == <<api, n, cursor, starts, pc, attempt, first, tried, over, result>>

Relays == 0..(n - 1)

(* ErrClient comes in two kinds: "client" for an answer that will not change,
   "unavailable" for a failed transport, a 5xx or a body cut short. *)
Final     == {"ok", "notfound", "client"}
Retryable == {"ratelimit", "unavailable"}

(* What an attempt may come to.  To the NHL client every status but 2xx, and a
   body that is not JSON, is a failure that may go away. *)
EspnOutcomes == Final \cup Retryable
NhlOutcomes  == {"ok", "unavailable"}

Outcomes == IF api = "nhl" THEN NhlOutcomes ELSE EspnOutcomes

TypeOK ==
  /\ api \in {"espn", "nhl"}
  /\ n \in 0..MaxRelays
  /\ cursor \in Nat
  /\ starts \in [Relays -> Nat]
  /\ pc \in [Calls -> {"idle", "send", "relay", "direct", "backoff", "done"}]
  /\ attempt \in [Calls -> 0..(MaxRetries - 1)]
  /\ first \in [Calls -> Nat]
  /\ tried \in [Calls -> SUBSET Relays]
  /\ over \in [Calls -> BOOLEAN]
  /\ result \in [Calls -> {"none", "cancelled"} \cup Final \cup Retryable]

Init ==
  /\ api \in {"espn", "nhl"}
  /\ n \in IF api = "nhl" THEN {0} ELSE 0..MaxRelays
  /\ cursor = 0
  /\ starts = [k \in Relays |-> 0]
  /\ pc = [c \in Calls |-> "idle"]
  /\ attempt = [c \in Calls |-> 0]
  /\ first = [c \in Calls |-> 0]
  /\ tried = [c \in Calls |-> {}]
  /\ over = [c \in Calls |-> FALSE]
  /\ result = [c \in Calls |-> "none"]

Goto(c, from, to) ==
  /\ pc[c] = from
  /\ pc' = [pc EXCEPT ![c] = to]

Return(c, r) ==
  /\ pc' = [pc EXCEPT ![c] = "done"]
  /\ result' = [result EXCEPT ![c] = r]
  /\ UNCHANGED attempt

(* The relay to be tried now: relays[(start+i)%n], i of them having failed. *)
Current(c) == (first[c] + Cardinality(tried[c])) % n

(* An attempt came to r.  What may be retried is, after a backoff that a context
   already over cuts short, until MaxRetries attempts were made. *)
ConcludeBug_OneMore(c, r) ==
  CASE r \in Final -> Return(c, r)
    [] r \in Retryable /\ attempt[c] + 2 >= MaxRetries -> Return(c, r)
    [] r \in Retryable /\ attempt[c] + 2 < MaxRetries ->
         /\ attempt' = [attempt EXCEPT ![c] = @ + 1]
         /\ pc' = [pc EXCEPT ![c] = "backoff"]
         /\ UNCHANGED result

Conclude(c, r) ==
  CASE r \in Final -> Return(c, r)
    [] r \in Retryable /\ attempt[c] + 1 = MaxRetries -> Return(c, r)
    [] r \in Retryable /\ attempt[c] + 1 < MaxRetries /\ over[c] -> Return(c, "cancelled")
    [] r \in Retryable /\ attempt[c] + 1 < MaxRetries /\ ~over[c] ->
         /\ attempt' = [attempt EXCEPT ![c] = @ + 1]
         /\ pc' = [pc EXCEPT ![c] = "backoff"]
         /\ UNCHANGED result
-----------------------------------------------------------------------------
Get(c) ==
  /\ Goto(c, "idle", "send")
  /\ UNCHANGED <<api, n, cursor, starts, attempt, first, tried, over, result>>

(* The caller's context ends, at any time. *)
EndContext(c) ==
  /\ over' = [over EXCEPT ![c] = TRUE]
  /\ UNCHANGED <<api, n, cursor, starts, pc, attempt, first, tried, result>>

(* sendViaRelays takes its place in the rotation by one atomic increment. *)
SendBug_LostUpdate(c) ==
  /\ n > 0
  /\ Goto(c, "send", "relay")
  /\ cursor' \in {cursor, cursor + 1}
  /\ first' = [first EXCEPT ![c] = cursor % n]
  /\ starts' = [starts EXCEPT ![cursor % n] = @ + 1]
  /\ tried' = [tried EXCEPT ![c] = {}]
  /\ UNCHANGED <<api, n, attempt, over, result>>

Send(c) ==
  /\ n > 0
  /\ Goto(c, "send", "relay")
  /\ cursor' = cursor + 1
  /\ first' = [first EXCEPT ![c] = cursor % n]
  /\ starts' = [starts EXCEPT ![cursor % n] = @ + 1]
  /\ tried' = [tried EXCEPT ![c] = {}]
  /\ UNCHANGED <<api, n, attempt, over, result>>

SendDirect(c) ==
  /\ n = 0
  /\ Goto(c, "send", "direct")
  /\ UNCHANGED <<api, n, cursor, starts, attempt, first, tried, over, result>>

(* A relay answers 2xx: the body is JSON, is not, or breaks off. *)
RelayAnswers(c) ==
  /\ pc[c] = "relay" /\ ~over[c]
  /\ \E r \in {"ok", "client", "unavailable"} : Conclude(c, r)
  /\ UNCHANGED <<api, n, cursor, starts, first, tried, over>>

(* A relay cannot be reached, times out, or answers anything but 2xx. *)
RelayFailsBug_FirstOnly(c) ==
  /\ Goto(c, "relay", "direct")
  /\ tried' = [tried EXCEPT ![c] = @ \cup {Current(c)}]
  /\ UNCHANGED <<api, n, cursor, starts, attempt, first, over, result>>

RelayFailsBug_NoModulo(c) ==
  LET relay == first[c] + Cardinality(tried[c])
  IN  /\ Goto(c, "relay", IF Cardinality(tried[c]) + 1 = n THEN "direct" ELSE "relay")
      /\ tried' = [tried EXCEPT ![c] = @ \cup {relay}]
      /\ UNCHANGED <<api, n, cursor, starts, attempt, first, over, result>>

RelayFailsBug_SameAgain(c) ==
  LET failed == tried[c] \cup {first[c]}
  IN  /\ Goto(c, "relay", IF failed = Relays THEN "direct" ELSE "relay")
      /\ tried' = [tried EXCEPT ![c] = failed]
      /\ UNCHANGED <<api, n, cursor, starts, attempt, first, over, result>>

RelayFails(c) ==
  LET failed == tried[c] \cup {Current(c)}
  IN  /\ Goto(c, "relay", IF Cardinality(tried[c]) + 1 = n
                          THEN "direct" ELSE "relay")
      /\ tried' = [tried EXCEPT ![c] = failed]
      /\ UNCHANGED <<api, n, cursor, starts, attempt, first, over, result>>

(* ESPN, or the NHL, answers, or does not within the client's timeout. *)
Direct(c) ==
  /\ pc[c] = "direct"
  /\ \E r \in Outcomes :
       /\ over[c] => r = "unavailable"
       /\ Conclude(c, r)
  /\ UNCHANGED <<api, n, cursor, starts, first, tried, over>>

BackoffEnds(c) ==
  /\ Goto(c, "backoff", "send")
  /\ UNCHANGED <<api, n, cursor, starts, attempt, first, tried, over, result>>

BackoffCancelled(c) ==
  /\ pc[c] = "backoff" /\ over[c]
  /\ Return(c, "cancelled")
  /\ UNCHANGED <<api, n, cursor, starts, first, tried, over>>

Proceed(c) ==
  \/ Send(c) \/ SendDirect(c) \/ RelayAnswers(c) \/ RelayFails(c) \/ Direct(c)
  \/ BackoffEnds(c) \/ BackoffCancelled(c)

Next == \E c \in Calls : Get(c) \/ EndContext(c) \/ Proceed(c)

Spec == Init /\ [][Next]_vars

(* http.Client.Timeout bounds every request and a timer every backoff. *)
FairSpec == Spec /\ \A c \in Calls : WF_vars(Proceed(c))
-----------------------------------------------------------------------------
(* However calls and their retries interleave, no relay is ahead of another by
   more than one as the first to be tried. *)
LoadBalanced ==
  \A j, k \in Relays : starts[j] <= starts[k] + 1

(* ESPN is asked directly only after each relay has failed in this attempt, and
   a relay is never asked twice in one. *)
DirectIsLastResort ==
  \A c \in Calls :
    /\ pc[c] = "direct" => tried[c] = Relays
    /\ pc[c] = "relay" => Current(c) \in Relays \ tried[c]

(* A failure that might have gone away is returned only after MaxRetries
   attempts, and a call is given up early only when its context is over. *)
GivesUpLate ==
  \A c \in Calls :
    /\ result[c] \in Retryable => attempt[c] = MaxRetries - 1
    /\ result[c] = "cancelled" => over[c]

(* The inductive invariant behind the three: where the rotation stands, and which
   relays a failover has been through. *)
Rotation ==
  n > 0 => \A k \in Relays :
             starts[k] = starts[n - 1] + (IF k < (cursor % n) THEN 1 ELSE 0)

Failover(c) ==
  LET k == Cardinality(tried[c])
  IN  /\ pc[c] = "relay" =>
           /\ n > 0 /\ k < n
           /\ first[c] \in Relays
           /\ tried[c] = {(first[c] + i) % n : i \in 0..(k - 1)}
      /\ pc[c] = "direct" => tried[c] = Relays

ClientInv ==
  /\ Rotation
  /\ \A c \in Calls : Failover(c) /\ (result[c] # "none" => pc[c] = "done")
  /\ GivesUpLate

(* Every call returns: the row locks its caller holds meanwhile are not held for
   ever on ESPN's account. *)
EveryGetReturns == \A c \in Calls : pc[c] = "send" ~> pc[c] = "done"
=============================================================================
