---------------------------- MODULE WriteTxProofs ----------------------------
(***************************************************************************)
(* What each operator of WriteTx preserves.  An ingest module's proof that *)
(* its steps keep pool and locks consistent cites these.                   *)
(***************************************************************************)
EXTENDS WriteTx, TLAPS

(* Taking a connection keeps the types and gives it to one task only. *)
LEMMA TxBeginKeeps ==
  ASSUME NEW t \in Tasks, TxTypeOK, TxBegin(t)
  PROVE  TxTypeOK' /\ (TxInv /\ conn[t] = NoConn => TxInv')
<1> USE PoolAssumption
<1>1. PICK c \in Conns \ busy :
        /\ ConnProc[c] = TaskProc[t]
        /\ busy' = busy \cup {c}
        /\ conn' = [conn EXCEPT ![t] = c]
        /\ lock' = lock
  BY DEF TxBegin
<1>2. TxTypeOK'
  BY <1>1 DEF TxTypeOK
<1>3. ASSUME TxInv PROVE TxInv'
  <2>1. \A u \in Tasks : conn'[u] = IF u = t THEN c ELSE conn[u]
    BY <1>1 DEF TxTypeOK
  <2>2. \A u \in Tasks : u # t => conn[u] # c
    BY <1>1, <1>3 DEF TxInv
  <2>3. \A u \in Tasks : conn'[u] # NoConn =>
          conn'[u] \in busy' /\ ConnProc[conn'[u]] = TaskProc[u]
    BY <1>1, <1>3, <2>1 DEF TxInv
  <2>4. \A u, v \in Tasks : conn'[u] # NoConn /\ conn'[u] = conn'[v] => u = v
    BY <1>3, <2>1, <2>2 DEF TxInv
  <2>5. \A k \in Keys : lock'[k] # NoConn => lock'[k] \in busy'
    BY <1>1, <1>3 DEF TxInv
  <2>6. QED
    BY <2>3, <2>4, <2>5 DEF TxInv
<1>4. QED
  BY <1>2, <1>3

(* A row is locked for a connection that is handed out. *)
LEMMA TxLockKeeps ==
  ASSUME NEW t \in Tasks, NEW k \in Keys, TxTypeOK, TxLock(t, k)
  PROVE  TxTypeOK' /\ (TxInv /\ conn[t] # NoConn => TxInv')
<1>1. TxTypeOK'
  BY DEF TxLock, TxTypeOK
<1>2. ASSUME TxInv, conn[t] # NoConn PROVE TxInv'
  BY <1>2 DEF TxLock, TxTypeOK, TxInv
<1>3. QED
  BY <1>1, <1>2

(* Commit and rollback give back a connection no row is locked for any more. *)
LEMMA TxEndKeeps ==
  ASSUME NEW t \in Tasks, TxTypeOK, TxEnd(t)
  PROVE  TxTypeOK' /\ (TxInv /\ conn[t] # NoConn => TxInv')
<1>1. TxTypeOK'
  BY DEF TxEnd, Released, TxTypeOK
<1>2. ASSUME TxInv, conn[t] # NoConn PROVE TxInv'
  <2>1. \A u \in Tasks : conn'[u] = IF u = t THEN NoConn ELSE conn[u]
    BY DEF TxEnd, TxTypeOK
  <2>2. \A k \in Keys : lock'[k] # NoConn =>
          lock'[k] = lock[k] /\ lock[k] # conn[t]
    BY DEF TxEnd, Released
  <2>3. busy' = busy \ {conn[t]}
    BY DEF TxEnd
  <2>4. QED
    BY <1>2, <2>1, <2>2, <2>3 DEF TxInv
<1>3. QED
  BY <1>1, <1>2

(* A forgotten transaction stays open, and nobody's. *)
LEMMA TxAbandonKeeps ==
  ASSUME NEW t \in Tasks, TxTypeOK, TxAbandon(t)
  PROVE  TxTypeOK' /\ (TxInv => TxInv')
<1>1. TxTypeOK'
  BY DEF TxAbandon, TxTypeOK
<1>2. \A u \in Tasks : conn'[u] = IF u = t THEN NoConn ELSE conn[u]
  BY DEF TxAbandon, TxTypeOK
<1>3. QED
  BY <1>1, <1>2 DEF TxAbandon, TxInv

(* A dead process takes its own connections with it and nobody else's. *)
LEMMA TxCrashKeeps ==
  ASSUME NEW p \in Procs, TxTypeOK, TxCrash(p)
  PROVE  TxTypeOK' /\ (TxInv => TxInv')
<1> USE PoolAssumption
<1> DEFINE dead == {c \in Conns : ConnProc[c] = p}
<1>1. TxTypeOK'
  BY DEF TxCrash, Released, TxTypeOK
<1>2. ASSUME TxInv PROVE TxInv'
  <2>1. \A u \in Tasks : conn'[u] = IF TaskProc[u] = p THEN NoConn ELSE conn[u]
    BY DEF TxCrash
  <2>2. \A k \in Keys : lock'[k] # NoConn => lock'[k] = lock[k] /\ lock[k] \notin dead
    BY DEF TxCrash, Released
  <2>3. busy' = busy \ dead
    BY DEF TxCrash
  <2>4. \A u \in Tasks : conn'[u] # NoConn => conn'[u] = conn[u] /\ conn[u] \notin dead
    BY <1>2, <2>1 DEF TxInv
  <2>5. QED
    BY <1>2, <2>2, <2>3, <2>4 DEF TxInv
<1>3. QED
  BY <1>1, <1>2

(* Nothing happens to pool and locks. *)
LEMMA TxUnchangedKeeps ==
  ASSUME TxTypeOK, UNCHANGED txVars
  PROVE  TxTypeOK' /\ (TxInv => TxInv')
  BY DEF txVars, TxTypeOK, TxInv
=============================================================================
