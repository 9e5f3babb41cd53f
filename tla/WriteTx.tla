------------------------------- MODULE WriteTx -------------------------------
(***************************************************************************)
(* The write side of the database as every ingest service meets it:        *)
(* ingest.withTx on top of database/sql's bounded pool and the row locks   *)
(* PostgreSQL holds until a transaction ends.                              *)
(*                                                                         *)
(* An action of an ingest service conjoins one of the operators below, so  *)
(* this module has no next-state relation of its own.                      *)
(***************************************************************************)
CONSTANTS
  Tasks,     \* goroutines that run one ingest call at a time
  Procs,     \* operating-system processes: the cron worker, the HTTP API
  TaskProc,  \* [Tasks -> Procs], the process a task runs in
  Conns,     \* write-pool connections of all processes (SetMaxOpenConns slots)
  ConnProc,  \* [Conns -> Procs], the process whose pool a connection is in
  Keys,      \* rows a transaction can lock
  NoConn     \* no connection

ASSUME PoolAssumption ==
  /\ TaskProc \in [Tasks -> Procs]
  /\ ConnProc \in [Conns -> Procs]
  /\ NoConn \notin Conns

VARIABLES
  busy,      \* connections handed out by the pools
  conn,      \* conn[t]: the connection of t's open transaction, or NoConn
  lock       \* lock[k]: the connection whose transaction holds row k, or NoConn

txVars == <<busy, conn, lock>>

TxTypeOK ==
  /\ busy \subseteq Conns
  /\ conn \in [Tasks -> Conns \cup {NoConn}]
  /\ lock \in [Keys -> Conns \cup {NoConn}]

TxInit ==
  /\ busy = {}
  /\ conn = [t \in Tasks |-> NoConn]
  /\ lock = [k \in Keys |-> NoConn]

(***************************************************************************)
(* db.Write.Beginx(): takes an idle connection of the process's own pool.  *)
(* It takes no context, so a full pool is waited for without a deadline.   *)
(***************************************************************************)
TxBegin(t) ==
  \E c \in Conns \ busy :
    /\ ConnProc[c] = TaskProc[t]
    /\ busy' = busy \cup {c}
    /\ conn' = [conn EXCEPT ![t] = c]
    /\ UNCHANGED lock

(***************************************************************************)
(* An INSERT .. ON CONFLICT DO UPDATE locks the row it meets; a statement  *)
(* on a row another transaction has locked waits.                          *)
(***************************************************************************)
TxLockBug_NoConflict(t, k) ==
  /\ lock' = [lock EXCEPT ![k] = conn[t]]
  /\ UNCHANGED <<busy, conn>>

TxLock(t, k) ==
  /\ lock[k] \in {NoConn, conn[t]}
  /\ lock' = [lock EXCEPT ![k] = conn[t]]
  /\ UNCHANGED <<busy, conn>>

(* The locks of the connections in C are released. *)
Released(C) == [k \in Keys |-> IF lock[k] \in C THEN NoConn ELSE lock[k]]

TxEndBug_LockKept(t) ==
  /\ busy' = busy \ {conn[t]}
  /\ conn' = [conn EXCEPT ![t] = NoConn]
  /\ UNCHANGED lock

(* tx.Commit() and tx.Rollback(): locks go, the connection is idle again. *)
TxEnd(t) ==
  /\ busy' = busy \ {conn[t]}
  /\ conn' = [conn EXCEPT ![t] = NoConn]
  /\ lock' = Released({conn[t]})

(***************************************************************************)
(* A panic unwinds withTx, which has no deferred Rollback: the task forgets *)
(* its transaction, which stays open with its connection and its locks.    *)
(***************************************************************************)
TxAbandon(t) ==
  /\ conn' = [conn EXCEPT ![t] = NoConn]
  /\ UNCHANGED <<busy, lock>>

(* The connections of a dead process close; PostgreSQL rolls them back. *)
TxCrash(p) ==
  LET dead == {c \in Conns : ConnProc[c] = p}
  IN  /\ busy' = busy \ dead
      /\ conn' = [t \in Tasks |-> IF TaskProc[t] = p THEN NoConn ELSE conn[t]]
      /\ lock' = Released(dead)

(* What ties tasks, pools and locks together; inductive with the type. *)
TxInv ==
  /\ \A t \in Tasks : conn[t] # NoConn =>
       conn[t] \in busy /\ ConnProc[conn[t]] = TaskProc[t]
  /\ \A t, u \in Tasks : conn[t] # NoConn /\ conn[t] = conn[u] => t = u
  /\ \A k \in Keys : lock[k] # NoConn => lock[k] \in busy
=============================================================================
