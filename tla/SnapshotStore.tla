---------------------------- MODULE SnapshotStore ----------------------------
(***************************************************************************)
(* What the injury ingest promises to a reader of the injuries table: a    *)
(* league's rows are replaced in one step by the rows of one published     *)
(* report, never by an older report than the one they came from.           *)
(***************************************************************************)
EXTENDS Naturals

CONSTANTS
  Leagues,
  MaxVersion,  \* bound on the reports published per league
  RowsOf(_, _) \* RowsOf(l, v): the rows of version v of l's report

VARIABLES
  published,   \* published[l]: the version ESPN serves for l
  snapshot     \* snapshot[l]: the rows a reader sees for l

vars == <<published, snapshot>>

Init ==
  /\ published = [l \in Leagues |-> 0]
  /\ snapshot = [l \in Leagues |-> {}]

Publish(l) ==
  /\ published[l] < MaxVersion
  /\ published' = [published EXCEPT ![l] = @ + 1]
  /\ UNCHANGED snapshot

Refresh(l) ==
  /\ \E v \in 0..published[l] :
       /\ \A r \in snapshot[l] : r.ver <= v
       /\ snapshot' = [snapshot EXCEPT ![l] = RowsOf(l, v)]
  /\ UNCHANGED published

Next == \E l \in Leagues : Publish(l) \/ Refresh(l)

Spec == Init /\ [][Next]_vars
=============================================================================
