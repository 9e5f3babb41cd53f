------------------------------ MODULE MCReadApi ------------------------------
(* ReadApi with four rows and pages of three, on a machine whose int has four
   bits. *)
EXTENDS ReadApi

CONSTANTS t1, t2, p1

MCColumn == [i \in Ids |-> i % 2]

(* Four rows with equal and different sort keys, one inactive and one that
   satisfies no filter; or two rows; or none. *)
MCRow(i, k, r) ==
  [key |-> k, active |-> i # 3, sat |-> IF i = 2 THEN {} ELSE Params, refs |-> r, ver |-> 0]

MCRefs == {{}, {t1}, {t1, t2}, {p1}}

MCTables ==
  {[i \in Ids |-> MCRow(i, IF i = 4 THEN 0 ELSE 1, r)] : r \in MCRefs}
    \cup {[i \in Ids |-> IF i \in {1, 3} THEN MCRow(i, i % 2, r) ELSE NoRow] : r \in MCRefs}
    \cup {[i \in Ids |-> NoRow]}

Ask(x, given, junk, ordering, p) ==
  [route |-> x, given |-> given, junk |-> junk, ordering |-> ordering, page |-> p]

(* First, next, last and negative pages, and those whose offsets overflow. *)
MCPages == {0 - MaxInt - 1, -1, 0, 2, 3, 4, 6, 7}

(* Each route without parameters, with each of its parameters, well formed and
   malformed, with each kind of ordering, and the list of events from other pages. *)
MCQueries ==
  UNION {{Ask(x, {f}, {}, "", 1) : f \in Handler[x].params}
           \cup {Ask(x, {}, {f}, "", 1) :
                   f \in Repository[x].typed \cup Handler[x].lenient \cup Repository[x].skips}
           \cup {Ask(x, {}, {}, "", 1)}
         : x \in Routes}
    \cup {Ask(x, {}, {}, "", p) : x \in {"events"}, p \in MCPages}
    \cup {Ask(x, {}, {}, o, 1) : x \in {"teams", "news"}, o \in {"column", "-column", "unknown"}}
=============================================================================
