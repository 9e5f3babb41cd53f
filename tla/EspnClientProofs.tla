-------------------------- MODULE EspnClientProofs ---------------------------
(***************************************************************************)
(* Proofs about EspnClient, for any number of calls, relays and attempts.  *)
(*                                                                         *)
(* LoadBalanced and DirectIsLastResort rest on how % walks through 0..m-1: *)
(* by one with each increment of the cursor, and through every relay with  *)
(* the m turns of a failover.                                              *)
(***************************************************************************)
EXTENDS EspnClient, TLAPS, FiniteSetTheorems

(* The remainder is what is left of a multiple. *)
LEMMA ModIs ==
  ASSUME NEW m \in Nat \ {0}, NEW q \in Nat, NEW r \in 0..(m - 1)
  PROVE  (m * q + r) % m = r
BY Z3

(* A remainder is the number of a relay. *)
LEMMA ModRange ==
  ASSUME NEW m \in Nat \ {0}, NEW a \in Nat
  PROVE  a % m \in 0..(m - 1)
BY Z3

(* Remainders go up by one and wrap round. *)
LEMMA ModNext ==
  ASSUME NEW m \in Nat \ {0}, NEW a \in Nat
  PROVE  (a + 1) % m = IF (a % m) + 1 = m THEN 0 ELSE (a % m) + 1
<1>1. PICK q \in Nat : a = m * q + (a % m)
  <2>1. a \div m \in Nat
    BY Z3
  <2>2. a = m * (a \div m) + (a % m)
    BY Z3
  <2>3. QED
    BY <2>1, <2>2
<1>2. DEFINE r == a % m
<1>3. r \in 0..(m - 1)
  BY ModRange
<1>4. a = m * q + r
  BY <1>1
<1> HIDE DEF r
<1>5. CASE r + 1 = m
  <2>1. a + 1 = m * (q + 1) + 0
    <3>1. m * (q + 1) + 0 = m * q + m
      BY Z3
    <3>2. QED
      BY <1>3, <1>4, <1>5, <3>1
  <2>2. (m * (q + 1) + 0) % m = 0
    BY ModIs
  <2>3. QED
    BY <1>5, <2>1, <2>2 DEF r
<1>6. CASE r + 1 # m
  <2>1. a + 1 = m * q + (r + 1)
    BY <1>3, <1>4
  <2>2. r + 1 \in 0..(m - 1)
    BY <1>3, <1>6
  <2>3. (m * q + (r + 1)) % m = r + 1
    BY <2>2, ModIs
  <2>4. QED
    BY <1>6, <2>1, <2>3 DEF r
<1>7. QED
  BY <1>5, <1>6

(* Turns of one failover that are told apart meet different relays. *)
LEMMA TurnsDiffer ==
  ASSUME NEW m \in Nat \ {0}, NEW a \in 0..(m - 1),
         NEW i \in 0..(m - 1), NEW j \in 0..(m - 1), (a + i) % m = (a + j) % m
  PROVE  i = j
<1>1. \A k \in 0..(m - 1) : (a + k) % m = IF a + k < m THEN a + k ELSE a + k - m
  <2> TAKE k \in 0..(m - 1)
  <2>1. CASE a + k < m
    BY <2>1, Z3
  <2>2. CASE a + k >= m
    BY <2>2, Z3
  <2>3. QED
    BY <2>1, <2>2
<1>2. QED
  BY <1>1

(* The relays of the first k turns of a failover among m that started at a. *)
Turns(m, a, k) == {(a + i) % m : i \in 0..(k - 1)}

(* After k turns of a failover that started at a, the next relay is a new one,
   and there is none left after the last turn. *)
LEMMA FailoverTurn ==
  ASSUME NEW m \in Nat \ {0}, NEW a \in 0..(m - 1), NEW S \in SUBSET (0..(m - 1)),
         Cardinality(S) < m,
         S = Turns(m, a, Cardinality(S))
  PROVE  LET x == (a + Cardinality(S)) % m
         IN  /\ x \in (0..(m - 1)) \ S
             /\ Cardinality(S \cup {x}) = Cardinality(S) + 1
             /\ S \cup {x} = Turns(m, a, Cardinality(S) + 1)
             /\ Cardinality(S) + 1 = m => S \cup {x} = 0..(m - 1)
<1> DEFINE k == Cardinality(S)
           x == (a + k) % m
<1>1. IsFiniteSet(0..(m - 1)) /\ Cardinality(0..(m - 1)) = m
  <2>1. 0 \in Int /\ m - 1 \in Int
    OBVIOUS
  <2>2. /\ IsFiniteSet(0..(m - 1))
        /\ Cardinality(0..(m - 1)) = IF 0 > m - 1 THEN 0 ELSE (m - 1) - 0 + 1
    BY <2>1, FS_Interval
  <2>3. ~(0 > m - 1) /\ (m - 1) - 0 + 1 = m
    OBVIOUS
  <2>4. QED
    BY <2>2, <2>3
<1>2. IsFiniteSet(S)
  BY <1>1, FS_Subset
<1>3. k \in Nat
  BY <1>2, FS_CardinalityType
<1>4. k \in 0..(m - 1)
  BY <1>3
<1>5. x \in 0..(m - 1)
  <2>1. a + k \in Nat
    BY <1>3
  <2> HIDE DEF k
  <2>2. QED
    BY <2>1, ModRange
<1>6. x \notin S
  <2> SUFFICES ASSUME x \in S PROVE FALSE
    OBVIOUS
  <2>1. PICK i \in 0..(k - 1) : x = (a + i) % m
    BY DEF Turns
  <2>2. i \in 0..(m - 1) /\ i # k
    BY <1>4
  <2>3. QED
    BY <2>1, <2>2, <1>4, TurnsDiffer
<1>7. Cardinality(S \cup {x}) = k + 1
  BY <1>2, <1>6, FS_AddElement
<1>8. S \cup {x} = Turns(m, a, k + 1)
  <2>1. 0..((k + 1) - 1) = (0..(k - 1)) \cup {k}
    BY <1>3
  <2>2. Turns(m, a, k + 1) = Turns(m, a, k) \cup {x}
    BY <2>1 DEF Turns
  <2>3. QED
    BY <2>2
<1>9. k + 1 = m => S \cup {x} = 0..(m - 1)
  <2> SUFFICES ASSUME k + 1 = m PROVE S \cup {x} = 0..(m - 1)
    OBVIOUS
  <2>1. S \cup {x} \in SUBSET (0..(m - 1))
    BY <1>5
  <2>2. Cardinality(S \cup {x}) = Cardinality(0..(m - 1))
    BY <1>1, <1>7
  <2>3. QED
    BY <1>1, <2>1, <2>2, FS_Subset
<1>10. QED
  BY <1>5, <1>6, <1>7, <1>8, <1>9

-----------------------------------------------------------------------------
PcState == {"idle", "send", "relay", "direct", "backoff", "done"}
Answer  == {"none", "cancelled"} \cup Final \cup Retryable

(* What Conclude leaves of a call: it is done, with an answer that is final, comes
   with the last attempt or finds the context over, or it waits for its next attempt. *)
LEMMA ConcludeSteps ==
  ASSUME TypeOK, NEW c \in Calls, NEW r \in Final \cup Retryable, Conclude(c, r)
  PROVE  \/ /\ pc' = [pc EXCEPT ![c] = "done"]
            /\ attempt' = attempt
            /\ \E a \in (Answer \ {"none"}) :
                 /\ result' = [result EXCEPT ![c] = a]
                 /\ a \in Retryable => attempt[c] = MaxRetries - 1
                 /\ a = "cancelled" => over[c]
         \/ /\ pc' = [pc EXCEPT ![c] = "backoff"]
            /\ attempt' = [attempt EXCEPT ![c] = attempt[c] + 1]
            /\ attempt[c] + 1 \in 0..(MaxRetries - 1)
            /\ result' = result
<1> USE ClientAssumption
<1>1. attempt[c] \in 0..(MaxRetries - 1)
  BY DEF TypeOK
<1>2. /\ r \in Final => r \notin Retryable
      /\ r \in Answer \ {"none"}
      /\ "cancelled" \in Answer \ {"none"}
      /\ "cancelled" \notin Retryable
      /\ r # "cancelled"
  BY DEF Final, Retryable, Answer
<1>3. CASE r \in Final
  <2>1. Return(c, r)
    BY <1>2, <1>3 DEF Conclude
  <2>2. QED
    BY <1>2, <1>3, <2>1 DEF Return
<1>4. CASE r \in Retryable /\ attempt[c] + 1 = MaxRetries
  <2>1. Return(c, r)
    <3>1. ~(attempt[c] + 1 < MaxRetries)
      BY <1>1, <1>4
    <3>2. QED
      BY <1>2, <1>4, <3>1 DEF Conclude
  <2>2. attempt[c] = MaxRetries - 1
    BY <1>1, <1>4
  <2>3. QED
    BY <1>2, <2>1, <2>2 DEF Return
<1>5. CASE r \in Retryable /\ attempt[c] + 1 # MaxRetries
  <2>1. attempt[c] + 1 < MaxRetries /\ attempt[c] + 1 \in 0..(MaxRetries - 1)
    BY <1>1, <1>5
  <2>2. CASE over[c]
    <3>1. Return(c, "cancelled")
      BY <1>2, <1>5, <2>1, <2>2 DEF Conclude
    <3>2. QED
      BY <1>2, <2>2, <3>1 DEF Return
  <2>3. CASE ~over[c]
    <3>1. /\ attempt' = [attempt EXCEPT ![c] = attempt[c] + 1]
          /\ pc' = [pc EXCEPT ![c] = "backoff"]
          /\ result' = result
      BY <1>2, <1>5, <2>1, <2>3 DEF Conclude
    <3>2. QED
      BY <2>1, <3>1
  <2>4. QED
    BY <2>2, <2>3
<1>6. QED
  BY <1>3, <1>4, <1>5

(* The two actions that conclude an attempt. *)
LEMMA AttemptEnds ==
  ASSUME NEW c \in Calls, RelayAnswers(c) \/ Direct(c)
  PROVE  /\ pc[c] \in {"relay", "direct"}
         /\ \E r \in Final \cup Retryable : Conclude(c, r)
         /\ UNCHANGED <<api, n, cursor, starts, first, tried, over>>
<1>1. CASE RelayAnswers(c)
  BY <1>1 DEF RelayAnswers, Final, Retryable
<1>2. CASE Direct(c)
  BY <1>2 DEF Direct, Outcomes, EspnOutcomes, NhlOutcomes, Final, Retryable
<1>3. QED
  BY <1>1, <1>2

(* The relay a failover is at, and what its failure makes of the set of those
   tried. *)
LEMMA RelayTurn ==
  ASSUME TypeOK, NEW c \in Calls, Failover(c), pc[c] = "relay"
  PROVE  LET k == Cardinality(tried[c])
         IN  /\ n \in Nat \ {0} /\ k \in Nat /\ k < n
             /\ Current(c) \in Relays \ tried[c]
             /\ Cardinality(tried[c] \cup {Current(c)}) = k + 1
             /\ tried[c] \cup {Current(c)} = Turns(n, first[c], k + 1)
             /\ k + 1 = n => tried[c] \cup {Current(c)} = Relays
<1> USE ClientAssumption
<1>1. n \in Nat \ {0}
  BY DEF TypeOK, Failover
<1>2. tried[c] \in SUBSET (0..(n - 1)) /\ first[c] \in 0..(n - 1)
  BY DEF TypeOK, Failover, Relays
<1>3. /\ Cardinality(tried[c]) < n
      /\ tried[c] = Turns(n, first[c], Cardinality(tried[c]))
  BY DEF Failover, Turns
<1>4. Cardinality(tried[c]) \in Nat
  <2>1. IsFiniteSet(0..(n - 1))
    BY <1>1, FS_Interval
  <2>2. QED
    BY <1>2, <2>1, FS_Subset, FS_CardinalityType
<1>5. DEFINE x == (first[c] + Cardinality(tried[c])) % n
<1>6. /\ x \in (0..(n - 1)) \ tried[c]
      /\ Cardinality(tried[c] \cup {x}) = Cardinality(tried[c]) + 1
      /\ tried[c] \cup {x} = Turns(n, first[c], Cardinality(tried[c]) + 1)
      /\ Cardinality(tried[c]) + 1 = n => tried[c] \cup {x} = 0..(n - 1)
  BY <1>1, <1>2, <1>3, FailoverTurn
<1>7. x = Current(c)
  BY DEF Current
<1> HIDE DEF x
<1>8. QED
  BY <1>1, <1>3, <1>4, <1>6, <1>7 DEF Relays

IInv == TypeOK /\ ClientInv

(* A new client satisfies the invariant. *)
LEMMA InitInv == Init => IInv
<1> SUFFICES ASSUME Init PROVE IInv
  OBVIOUS
<1> USE ClientAssumption
<1>1. n \in Nat
  BY DEF Init
<1>2. TypeOK
  BY DEF Init, TypeOK
<1>3. Rotation
  <2> SUFFICES ASSUME n > 0, NEW k \in Relays
               PROVE  starts[k] = starts[n - 1] + (IF k < (cursor % n) THEN 1 ELSE 0)
    BY DEF Rotation
  <2>1. n - 1 \in Relays
    BY <1>1 DEF Relays
  <2>2. starts[k] = 0 /\ starts[n - 1] = 0 /\ cursor = 0
    BY <2>1 DEF Init
  <2>3. 0 % n = 0
    BY <1>1, Z3
  <2>4. ~(k < 0)
    BY <1>1 DEF Relays
  <2>5. QED
    BY <2>2, <2>3, <2>4
<1>4. \A c \in Calls : Failover(c) /\ (result[c] # "none" => pc[c] = "done")
  BY DEF Init, Failover
<1>5. GivesUpLate
  BY DEF Init, GivesUpLate, Retryable
<1>6. QED
  BY <1>2, <1>3, <1>4, <1>5 DEF IInv, ClientInv

(* The type survives every step; a failover needs to know that there are relays. *)
LEMMA TypeStep == IInv /\ [Next]_vars => TypeOK'
<1> SUFFICES ASSUME IInv, [Next]_vars PROVE TypeOK'
  OBVIOUS
<1> USE ClientAssumption
<1>0. TypeOK /\ \A c \in Calls : Failover(c)
  BY DEF IInv, ClientInv
<1>1. CASE UNCHANGED vars
  BY <1>0, <1>1 DEF TypeOK, vars, Relays
<1>2. ASSUME NEW c \in Calls, Get(c) \/ EndContext(c) \/ SendDirect(c) \/ BackoffEnds(c)
      PROVE  TypeOK'
  BY <1>0, <1>2 DEF TypeOK, Relays, Goto, Get, EndContext, SendDirect, BackoffEnds
<1>3. ASSUME NEW c \in Calls, Send(c) PROVE TypeOK'
  <2>1. n \in Nat \ {0} /\ cursor \in Nat
    BY <1>0, <1>3 DEF TypeOK, Send
  <2>2. cursor % n \in Relays
    BY <2>1, ModRange DEF Relays
  <2>3. cursor % n \in Nat /\ cursor + 1 \in Nat
    BY <2>1, <2>2 DEF Relays
  <2>4. starts' \in [Relays -> Nat]
    <3>1. starts \in [Relays -> Nat]
      BY <1>0 DEF TypeOK
    <3>2. starts[cursor % n] + 1 \in Nat
      BY <2>2, <3>1
    <3>3. starts' = [starts EXCEPT ![cursor % n] = starts[cursor % n] + 1]
      BY <1>3 DEF Send
    <3>4. QED
      BY <3>1, <3>2, <3>3
  <2>5. first' \in [Calls -> Nat]
    BY <1>0, <1>3, <2>3 DEF TypeOK, Send
  <2>6. QED
    BY <1>0, <1>3, <2>3, <2>4, <2>5 DEF TypeOK, Relays, Send, Goto
<1>4. ASSUME NEW c \in Calls, RelayAnswers(c) \/ Direct(c) PROVE TypeOK'
  <2>1. PICK r \in Final \cup Retryable : Conclude(c, r)
    BY <1>4, AttemptEnds
  <2>2. UNCHANGED <<api, n, cursor, starts, first, tried, over>>
    BY <1>4, AttemptEnds
  <2>3. /\ pc' \in [Calls -> PcState]
        /\ attempt' \in [Calls -> 0..(MaxRetries - 1)]
        /\ result' \in [Calls -> Answer]
    BY <1>0, <2>1, ConcludeSteps DEF TypeOK, PcState, Answer
  <2>4. QED
    BY <1>0, <2>2, <2>3 DEF TypeOK, Relays, PcState, Answer
<1>5. ASSUME NEW c \in Calls, RelayFails(c) PROVE TypeOK'
  <2>1. pc[c] = "relay"
    BY <1>5 DEF RelayFails, Goto
  <2>2. tried[c] \cup {Current(c)} \in SUBSET Relays
    BY <1>0, <2>1, RelayTurn DEF TypeOK
  <2>3. tried' \in [Calls -> SUBSET Relays]
    BY <1>0, <1>5, <2>2 DEF TypeOK, RelayFails
  <2>4. QED
    BY <1>0, <1>5, <2>3 DEF TypeOK, Relays, RelayFails, Goto
<1>6. ASSUME NEW c \in Calls, BackoffCancelled(c) PROVE TypeOK'
  BY <1>0, <1>6 DEF TypeOK, Relays, BackoffCancelled, Return
<1>7. QED
  BY <1>1, <1>2, <1>3, <1>4, <1>5, <1>6 DEF Next, Proceed

(* One increment of the cursor takes the rotation one relay on. *)
LEMMA RotationStep == IInv /\ [Next]_vars => Rotation'
<1> SUFFICES ASSUME IInv, [Next]_vars PROVE Rotation'
  OBVIOUS
<1> USE ClientAssumption
<1>0. TypeOK /\ Rotation
  BY DEF IInv, ClientInv
<1>1. CASE UNCHANGED <<n, cursor, starts>>
  BY <1>0, <1>1 DEF Rotation, Relays
<1>2. ASSUME NEW c \in Calls, Send(c) PROVE Rotation'
  <2>1. /\ n \in Nat \ {0} /\ cursor \in Nat /\ starts \in [Relays -> Nat]
        /\ n' = n /\ cursor' = cursor + 1
    BY <1>0, <1>2 DEF TypeOK, Send
  <2> DEFINE m == cursor % n
  <2>2. m \in 0..(n - 1)
    BY <2>1, ModRange
  <2>3. cursor' % n' = IF m + 1 = n THEN 0 ELSE m + 1
    BY <2>1, ModNext
  <2>4. starts' = [starts EXCEPT ![m] = starts[m] + 1]
    BY <1>2 DEF Send
  <2> HIDE DEF m
  <2>5. \A k \in Relays : starts[k] = starts[n - 1] + (IF k < m THEN 1 ELSE 0)
    BY <1>0, <2>1 DEF Rotation, m
  <2>6. n - 1 \in Relays /\ m \in Relays /\ starts[n - 1] \in Nat
    BY <2>1, <2>2 DEF Relays
  <2>7. \A k \in Relays : starts'[k] = starts[k] + (IF k = m THEN 1 ELSE 0)
    <3> TAKE k \in Relays
    <3>1. starts[k] \in Nat
      BY <2>1
    <3>2. starts'[k] = IF k = m THEN starts[m] + 1 ELSE starts[k]
      BY <2>1, <2>4
    <3>3. QED
      BY <3>1, <3>2
  <2>8. ASSUME NEW k \in Relays
        PROVE  starts'[k] = starts'[n - 1]
                             + (IF k < (IF m + 1 = n THEN 0 ELSE m + 1) THEN 1 ELSE 0)
    <3>1. /\ starts'[k] = starts[k] + (IF k = m THEN 1 ELSE 0)
          /\ starts'[n - 1] = starts[n - 1] + (IF n - 1 = m THEN 1 ELSE 0)
          /\ starts[k] = starts[n - 1] + (IF k < m THEN 1 ELSE 0)
      BY <2>5, <2>6, <2>7
    <3>2. k \in 0..(n - 1)
      BY DEF Relays
    <3>3. QED
      BY <2>1, <2>2, <2>6, <3>1, <3>2
  <2>9. Relays' = Relays
    BY <2>1 DEF Relays
  <2>10. QED
    BY <2>1, <2>3, <2>8, <2>9 DEF Rotation
<1>3. ASSUME NEW c \in Calls, RelayAnswers(c) \/ Direct(c) PROVE Rotation'
  BY <1>1, <1>3, AttemptEnds
<1>4. QED
  BY <1>1, <1>2, <1>3
     DEF Next, Proceed, Get, EndContext, SendDirect, RelayFails, BackoffEnds,
         BackoffCancelled, vars

(* What a step does to a call other than its own. *)
LEMMA OthersKept ==
  ASSUME TypeOK, NEW c \in Calls, Get(c) \/ EndContext(c) \/ Proceed(c),
         NEW d \in Calls, d # c
  PROVE  /\ pc'[d] = pc[d] /\ first'[d] = first[d] /\ tried'[d] = tried[d]
         /\ attempt'[d] = attempt[d] /\ over'[d] = over[d] /\ result'[d] = result[d]
         /\ n' = n
<1>1. CASE RelayAnswers(c) \/ Direct(c)
  <2>1. PICK r \in Final \cup Retryable : Conclude(c, r)
    BY <1>1, AttemptEnds
  <2>2. pc'[d] = pc[d] /\ attempt'[d] = attempt[d] /\ result'[d] = result[d]
    BY <2>1, ConcludeSteps DEF TypeOK
  <2>3. QED
    BY <1>1, <2>2, AttemptEnds
<1>2. CASE \/ Get(c) \/ EndContext(c) \/ Send(c) \/ SendDirect(c)
           \/ RelayFails(c) \/ BackoffEnds(c) \/ BackoffCancelled(c)
  BY <1>2 DEF TypeOK, Get, EndContext, Send, SendDirect, RelayFails, BackoffEnds,
              BackoffCancelled, Goto, Return
<1>3. QED
  BY <1>1, <1>2 DEF Proceed

Answered(c) == result[c] # "none" => pc[c] = "done"
Late(c) ==
  /\ result[c] \in Retryable => attempt[c] = MaxRetries - 1
  /\ result[c] = "cancelled" => over[c]

(* What a step of c does to c. *)
LEMMA CallStep ==
  ASSUME IInv, NEW c \in Calls, Get(c) \/ EndContext(c) \/ Proceed(c)
  PROVE  Failover(c)' /\ Answered(c)' /\ Late(c)'
<1> USE ClientAssumption
<1>0. TypeOK /\ Failover(c) /\ Answered(c) /\ Late(c)
  BY DEF IInv, ClientInv, GivesUpLate, Answered, Late
<1>1. ASSUME Get(c) \/ SendDirect(c) \/ BackoffEnds(c)
      PROVE  Failover(c)' /\ Answered(c)' /\ Late(c)'
  <2>1. /\ UNCHANGED <<n, first, tried, attempt, over, result>>
        /\ pc[c] \in {"idle", "send", "backoff"}
        /\ pc'[c] = "send" \/ (pc'[c] = "direct" /\ n = 0)
    BY <1>0, <1>1 DEF TypeOK, Get, SendDirect, BackoffEnds, Goto
  <2>2. pc'[c] = "direct" => tried[c] = Relays
    <3>1. n = 0 => Relays = {}
      BY DEF Relays
    <3>2. QED
      BY <1>0, <2>1, <3>1 DEF TypeOK
  <2>3. QED
    BY <1>0, <2>1, <2>2 DEF Failover, Answered, Late, Relays
<1>2. ASSUME EndContext(c) PROVE Failover(c)' /\ Answered(c)' /\ Late(c)'
  <2>1. UNCHANGED <<n, pc, first, tried, attempt, result>> /\ over'[c] = TRUE
    BY <1>0, <1>2 DEF TypeOK, EndContext
  <2>2. QED
    BY <1>0, <2>1 DEF Failover, Answered, Late, Relays
<1>3. ASSUME Send(c) PROVE Failover(c)' /\ Answered(c)' /\ Late(c)'
  <2>1. /\ n \in Nat \ {0} /\ cursor \in Nat
        /\ pc[c] = "send" /\ pc'[c] = "relay"
        /\ first'[c] = cursor % n /\ tried'[c] = {}
        /\ UNCHANGED <<n, attempt, over, result>>
    BY <1>0, <1>3 DEF TypeOK, Send, Goto
  <2>2. cursor % n \in Relays
    BY <2>1, ModRange DEF Relays
  <2>3. Cardinality({}) = 0 /\ 0..(0 - 1) = {}
    BY FS_EmptySet
  <2>4. Failover(c)'
    <3>1. Cardinality(tried'[c]) = 0 /\ n' = n /\ Relays' = Relays
      BY <2>1, <2>3 DEF Relays
    <3>2. {(first'[c] + i) % n : i \in 0..(0 - 1)} = {}
      BY <2>3
    <3>3. QED
      BY <2>1, <2>2, <3>1, <3>2 DEF Failover
  <2>5. QED
    BY <1>0, <2>1, <2>4 DEF Answered, Late
<1>4. ASSUME RelayAnswers(c) \/ Direct(c) PROVE Failover(c)' /\ Answered(c)' /\ Late(c)'
  <2>1. pc[c] \in {"relay", "direct"} /\ over' = over
    BY <1>4, AttemptEnds
  <2>2. PICK r \in Final \cup Retryable : Conclude(c, r)
    BY <1>4, AttemptEnds
  <2>3. result[c] = "none"
    BY <1>0, <2>1 DEF Answered
  <2>4. CASE /\ pc' = [pc EXCEPT ![c] = "done"]
             /\ attempt' = attempt
             /\ \E a \in (Answer \ {"none"}) :
                  /\ result' = [result EXCEPT ![c] = a]
                  /\ a \in Retryable => attempt[c] = MaxRetries - 1
                  /\ a = "cancelled" => over[c]
    <3>1. pc'[c] = "done"
      BY <1>0, <2>4 DEF TypeOK
    <3>2. PICK a \in (Answer \ {"none"}) :
            /\ result' = [result EXCEPT ![c] = a]
            /\ a \in Retryable => attempt[c] = MaxRetries - 1
            /\ a = "cancelled" => over[c]
      BY <2>4
    <3>3. result'[c] = a
      BY <1>0, <3>2 DEF TypeOK
    <3>4. QED
      BY <2>1, <2>4, <3>1, <3>2, <3>3 DEF Failover, Answered, Late
  <2>5. CASE /\ pc' = [pc EXCEPT ![c] = "backoff"]
             /\ result' = result
    <3>1. pc'[c] = "backoff" /\ result'[c] = "none"
      BY <1>0, <2>3, <2>5 DEF TypeOK
    <3>2. QED
      BY <3>1 DEF Failover, Answered, Late, Retryable
  <2>6. QED
    BY <1>0, <2>2, <2>4, <2>5, ConcludeSteps
<1>5. ASSUME RelayFails(c) PROVE Failover(c)' /\ Answered(c)' /\ Late(c)'
  <2> DEFINE k == Cardinality(tried[c])
             failed == tried[c] \cup {Current(c)}
  <2>1. /\ pc[c] = "relay"
        /\ pc'[c] = (IF k + 1 = n THEN "direct" ELSE "relay")
        /\ tried'[c] = failed
        /\ UNCHANGED <<n, first, attempt, over, result>>
    BY <1>0, <1>5 DEF TypeOK, RelayFails, Goto
  <2>2. /\ n \in Nat \ {0} /\ k \in Nat /\ k < n
        /\ Cardinality(failed) = k + 1
        /\ failed = Turns(n, first[c], k + 1)
        /\ k + 1 = n => failed = Relays
    BY <1>0, <2>1, RelayTurn
  <2>3. first[c] \in Relays /\ Relays' = Relays
    BY <1>0, <2>1 DEF Failover, Relays
  <2> HIDE DEF k, failed
  <2>4. Failover(c)'
    <3>1. tried'[c] = {(first'[c] + i) % n' : i \in 0..(Cardinality(tried'[c]) - 1)}
      BY <2>1, <2>2 DEF Turns
    <3>2. pc'[c] = "relay" => k + 1 < n
      BY <2>1, <2>2
    <3>3. QED
      BY <2>1, <2>2, <2>3, <3>1, <3>2 DEF Failover
  <2>5. QED
    BY <1>0, <2>1, <2>4 DEF Answered, Late, Retryable
<1>6. ASSUME BackoffCancelled(c) PROVE Failover(c)' /\ Answered(c)' /\ Late(c)'
  <2>1. /\ pc'[c] = "done" /\ result'[c] = "cancelled" /\ over'[c]
    BY <1>0, <1>6 DEF TypeOK, BackoffCancelled, Return
  <2>2. QED
    BY <2>1 DEF Failover, Answered, Late, Retryable
<1>7. QED
  BY <1>1, <1>2, <1>3, <1>4, <1>5, <1>6 DEF Proceed

(* Every step of every call keeps the invariant. *)
LEMMA InvStep == IInv /\ [Next]_vars => IInv'
<1> SUFFICES ASSUME IInv, [Next]_vars PROVE IInv'
  OBVIOUS
<1>1. TypeOK' /\ Rotation'
  BY TypeStep, RotationStep
<1>2. ASSUME NEW d \in Calls PROVE Failover(d)' /\ Answered(d)' /\ Late(d)'
  <2>0. TypeOK /\ Failover(d) /\ Answered(d) /\ Late(d)
    BY DEF IInv, ClientInv, GivesUpLate, Answered, Late
  <2>1. CASE UNCHANGED vars
    BY <2>0, <2>1 DEF vars, Failover, Answered, Late, Relays
  <2>2. ASSUME NEW c \in Calls, Get(c) \/ EndContext(c) \/ Proceed(c), c # d
        PROVE  Failover(d)' /\ Answered(d)' /\ Late(d)'
    <3>1. /\ pc'[d] = pc[d] /\ first'[d] = first[d] /\ tried'[d] = tried[d]
          /\ attempt'[d] = attempt[d] /\ over'[d] = over[d] /\ result'[d] = result[d]
          /\ n' = n
      BY <2>0, <2>2, OthersKept
    <3>2. QED
      BY <2>0, <3>1 DEF Failover, Answered, Late, Relays
  <2>3. QED
    BY <2>1, <2>2, CallStep DEF Next
<1>3. QED
  BY <1>1, <1>2 DEF IInv, ClientInv, GivesUpLate, Answered, Late
-----------------------------------------------------------------------------
(* The type and the inductive invariant hold of every behaviour of the client
   (infras/espn/espn.go), with any number of calls, relays and attempts. *)
THEOREM ClientInvHolds == Spec => [](TypeOK /\ ClientInv)
<1>1. QED
  BY InitInv, InvStep, PTL DEF Spec, IInv

(* Every variable of the clients (infras/espn/espn.go, infras/nhl/nhl.go) keeps
   its type: a failover never leaves the relays there are, and attempts stay
   below MaxRetries. *)
THEOREM ClientTypeCorrect == Spec => []TypeOK
<1>1. QED
  BY InitInv, InvStep, PTL DEF Spec, IInv

(* The round-robin cursor keeps the relays' shares of first tries within one of
   each other, however calls and retries interleave. *)
THEOREM RelaysBalanced == Spec => []LoadBalanced
<1>1. IInv => LoadBalanced
  <2> SUFFICES ASSUME IInv, NEW j \in Relays, NEW k \in Relays
               PROVE  starts[j] <= starts[k] + 1
    BY DEF LoadBalanced
  <2>1. n \in Nat /\ starts \in [Relays -> Nat] /\ Rotation
    BY ClientAssumption DEF IInv, TypeOK, ClientInv
  <2>2. n > 0 /\ n - 1 \in Relays
    BY <2>1 DEF Relays
  <2>3. /\ starts[j] = starts[n - 1] + (IF j < (cursor % n) THEN 1 ELSE 0)
        /\ starts[k] = starts[n - 1] + (IF k < (cursor % n) THEN 1 ELSE 0)
    BY <2>1, <2>2 DEF Rotation
  <2>4. starts[n - 1] \in Nat
    BY <2>1, <2>2
  <2>5. QED
    BY <2>3, <2>4
<1>2. QED
  BY <1>1, InitInv, InvStep, PTL DEF Spec

(* sendViaRelays asks each relay once, and ESPN directly only when all of them
   have failed. *)
THEOREM DirectLast == Spec => []DirectIsLastResort
<1>1. IInv => DirectIsLastResort
  <2> SUFFICES ASSUME IInv, NEW c \in Calls
               PROVE  /\ pc[c] = "direct" => tried[c] = Relays
                      /\ pc[c] = "relay" => Current(c) \in Relays \ tried[c]
    BY DEF DirectIsLastResort
  <2>1. TypeOK /\ Failover(c)
    BY DEF IInv, ClientInv
  <2>2. QED
    BY <2>1, RelayTurn DEF Failover
<1>2. QED
  BY <1>1, InitInv, InvStep, PTL DEF Spec

(* requestWithRetry gives a retryable failure up only after its last attempt, and
   is cut short only by its context. *)
THEOREM RetriesUsed == Spec => []GivesUpLate
<1>1. IInv => GivesUpLate
  BY DEF IInv, ClientInv
<1>2. QED
  BY <1>1, InitInv, InvStep, PTL DEF Spec
=============================================================================
