--------------------------- MODULE MCIngestWorker ----------------------------
(* IngestWorker with one job of each kind and two runs of them at a time; the
   stuck events are all of one league. *)
EXTENDS IngestWorker, TLC

CONSTANTS r1, r2, injuries, unstick, nhl, nfl, nba, soccer

MCKind == [j \in Jobs |-> CASE j = unstick -> "unstick"
                            [] j = nhl -> "nhl"
                            [] OTHER -> "fanout"]
MCUnitsOf == [j \in Jobs |-> CASE j = nhl -> {}
                               [] j = unstick -> {nba}
                               [] OTHER -> Units]
MCOnceJobs == <<injuries, nhl>>

MCSymmetry == Permutations(Runs) \cup Permutations(Units)
=============================================================================
