--------------------------- MODULE MCInjuryIngest ----------------------------
(* InjuryIngest with two tasks in the worker and one in the API, two leagues
   of one sport and one of another. *)
EXTENDS InjuryIngest

CONSTANTS t1, t2, t3, w1, w2, a1, worker, api, nfl, cfb, nba,
          football, basketball, hurt, healed, blank

MCTaskProc == [t \in Tasks |-> IF t = t3 THEN api ELSE worker]
MCConnProc == [c \in Conns |-> IF c = a1 THEN api ELSE worker]
MCSportOf == [l \in Leagues |-> IF l = nba THEN basketball ELSE football]
MCKeys == Sports \cup Leagues

(* A report with two entries, then one with nothing in it, then one of the
   entries again with an entry without a name. *)
MCReport ==
  [l \in Leagues |-> [v \in 0..MaxVersion |->
     CASE v = 0 -> {hurt, healed}
       [] v = 1 -> {}
       [] v = 2 -> {hurt, blank}
       [] OTHER -> {}]]

(* Nothing, then one entry: all the data the waiting of calls depends on. *)
MCSmallReport ==
  [l \in Leagues |-> [v \in 0..MaxVersion |-> IF v = 0 THEN {} ELSE {hurt}]]
=============================================================================
