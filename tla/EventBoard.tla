----------------------------- MODULE EventBoard ------------------------------
(***************************************************************************)
(* What the scoreboard ingest promises to a reader of events and their     *)
(* competitors: a scoreboard is stored whole, each game together with its  *)
(* competitors, and no game goes back to an older report of its league.    *)
(***************************************************************************)
EXTENDS Naturals

CONSTANTS
  Leagues, Boards, Events, Absent,
  LeagueOf,      \* [Boards -> Leagues]
  MaxVersion,    \* bound on the versions published per league
  Games(_, _),   \* Games(b, v): the games on version v of scoreboard b
  Place(_, _, _),\* Place(b, v, e): the entry of game e on it
  Lineup(_)      \* Lineup(p): the competitors on entry p

VARIABLES
  published,     \* published[l]: the version ESPN serves of l's scoreboards
  events,        \* events[e]: the entry a reader sees of game e, or Absent
  competitors    \* competitors[e]: the competitors a reader sees of e

vars == <<published, events, competitors>>

Init ==
  /\ published = [l \in Leagues |-> 0]
  /\ events = [e \in Events |-> Absent]
  /\ competitors = [e \in Events |-> {}]

Publish(l) ==
  /\ published[l] < MaxVersion
  /\ published' = [published EXCEPT ![l] = @ + 1]
  /\ UNCHANGED <<events, competitors>>

(* Storing what is there already is no step. *)
Store(b) ==
  /\ events' # events
  /\ UNCHANGED published
  /\ \E v \in 0..published[LeagueOf[b]] :
       /\ \A e \in Games(b, v) : events[e] # Absent => events[e].ver <= v
       /\ events' = [e \in Events |->
            IF e \in Games(b, v) THEN Place(b, v, e) ELSE events[e]]
       /\ competitors' = [e \in Events |->
            IF e \in Games(b, v) THEN Lineup(Place(b, v, e)) ELSE competitors[e]]

Next == (\E l \in Leagues : Publish(l)) \/ (\E b \in Boards : Store(b))

Spec == Init /\ [][Next]_vars
=============================================================================
