---------------------------- MODULE MCHttpServer -----------------------------
(* HttpServer with two requests at a time, both of one client: the counters of
   two clients have nothing in common. *)
EXTENDS HttpServer

CONSTANTS r1, r2, c1

Wants(route, key, body) == [route |-> route, key |-> key, body |-> body]

(* As in production, and as on a developer's machine. *)
MCConfigs ==
  {[development |-> FALSE, limited |-> TRUE], [development |-> TRUE, limited |-> FALSE]}

MCAsks ==
  {Wants("health", FALSE, "fine"), Wants("unknown", FALSE, "fine"),
   Wants("read", TRUE, "fine"), Wants("teams", FALSE, "fine"),
   Wants("news", TRUE, "bad limit"), Wants("scoreboard", TRUE, "fine")}
=============================================================================
