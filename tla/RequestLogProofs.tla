-------------------------- MODULE RequestLogProofs --------------------------
(***************************************************************************)
(* How far the list of requests and the counter agree, for any number of   *)
(* requests and of admin requests that clear them.                         *)
(***************************************************************************)
EXTENDS RequestLog, FiniteSetTheorems, TLAPS

\* The lists are sets of request numbers, and an append makes one longer by one.
LEMMA ListLength ==
  ASSUME NEW n \in Nat, NEW S \in SUBSET (1..n)
  PROVE  /\ Cardinality(S) \in Nat
         /\ \A m \in Nat : m \notin S => Cardinality(S \cup {m}) = Cardinality(S) + 1
<1>1. IsFiniteSet(1..n)
  BY FS_Interval
<1>2. IsFiniteSet(S)
  BY <1>1, FS_Subset
<1>3. QED
  BY <1>2, FS_CardinalityType, FS_AddElement

LEMMA EmptyList == Cardinality({}) = 0
BY FS_EmptySet

-----------------------------------------------------------------------------
(* Each action preserves the inductive invariant                            *)

LEMMA BeginStep ==
  ASSUME LogInv, NEW h \in Handlers, RecordBegin(h) PROVE LogInv'
<1> USE DEF RecordBegin, resetVars
<1>1. TypeOK /\ Locks /\ Fresh /\ ListIsKept /\ CountBehindList /\ CountWithList /\ HttpStaysCleared
  BY DEF LogInv
<1>2. None \notin Handlers
  BY LogAssumption
<1>3. \A g \in Handlers : pc[g] = "idle"
  BY <1>1, <1>2 DEF Locks
<1>4. arrived \in Nat /\ 1..arrived \subseteq 1..arrived' /\ 0..arrived \subseteq 0..arrived'
  BY <1>1 DEF TypeOK
<1>5. TypeOK'
  BY <1>1, <1>4 DEF TypeOK
<1>6. Locks'
  BY <1>1, <1>2, <1>3 DEF Locks, TypeOK
<1>7. Fresh'
  BY <1>1, <1>3, <1>4 DEF Fresh, TypeOK
<1>8. ListIsKept'
  BY <1>1, <1>3 DEF ListIsKept, HttpStaysCleared, TypeOK
<1>9. CountBehindList'
  BY <1>1, <1>2, <1>3 DEF CountBehindList, TypeOK
<1>10. CountWithList'
  BY <1>1, <1>2, <1>3 DEF CountWithList, TypeOK
<1>11. HttpStaysCleared'
  BY <1>1 DEF HttpStaysCleared
<1>12. QED
  BY <1>5, <1>6, <1>7, <1>8, <1>9, <1>10, <1>11 DEF LogInv

LEMMA AppendStep ==
  ASSUME LogInv, NEW h \in Handlers, RecordAppend(h) PROVE LogInv'
<1> USE DEF RecordAppend, resetVars
<1>1. TypeOK /\ Locks /\ Fresh /\ ListIsKept /\ CountBehindList /\ CountWithList /\ HttpStaysCleared
  BY DEF LogInv
<1>2. None \notin Handlers
  BY LogAssumption
<1>3. mu = h /\ \A g \in Handlers \ {h} : pc[g] = "idle"
  BY <1>1 DEF Locks
<1>4. /\ number[h] \in (1..arrived) \ done
      /\ number[h] \notin seen[h]
      /\ seen[h] \in SUBSET (1..arrived)
      /\ arrived \in Nat
      /\ counter[current] \in Nat
  BY <1>1 DEF Fresh, TypeOK
<1>5. Cardinality(seen[h]) \in Nat /\ Cardinality(requests') = Cardinality(seen[h]) + 1
  <2>1. number[h] \in Nat
    BY <1>4
  <2>2. requests' = seen[h] \cup {number[h]}
    OBVIOUS
  <2>3. QED
    BY <1>4, <2>1, <2>2, ListLength
<1>6. TypeOK'
  BY <1>1, <1>4, SMTT(60) DEF TypeOK
<1>7. Locks'
  BY <1>1 DEF Locks, TypeOK
<1>8. Fresh'
  BY <1>1, <1>3 DEF Fresh, TypeOK
<1>9. ListIsKept'
  BY <1>3 , <1>1 DEF ListIsKept, TypeOK
<1>10. /\ pc'[h] = "lookup" /\ \A g \in Handlers \ {h} : pc'[g] = "idle"
       /\ UNCHANGED <<counter, current, mu, repoMu>>
  BY <1>1, <1>3 DEF TypeOK
<1>11. CountBehindList' /\ CountWithList'
  <2>1. repoMu = None => counter[current] <= Cardinality(requests')
    BY <1>1, <1>4, <1>5 DEF CountBehindList
  <2>2. CountBehindList'
    BY <1>2, <1>3, <1>10, <2>1 DEF CountBehindList
  <2>3. CountWithList'
    BY <1>1, <1>2, <1>3, <1>4, <1>5, <1>10 DEF CountWithList
  <2>4. QED
    BY <2>2, <2>3
<1>12. HttpStaysCleared'
  BY <1>1, <1>4 DEF HttpStaysCleared, ListIsKept, Fresh
<1>13. QED
  BY <1>6, <1>7, <1>8, <1>9, <1>11, <1>12 DEF LogInv

LEMMA LookUpStep ==
  ASSUME LogInv, NEW h \in Handlers, LookUpCounter(h) PROVE LogInv'
<1> USE DEF LookUpCounter, resetVars
<1>1. TypeOK /\ Locks /\ Fresh /\ ListIsKept /\ CountBehindList /\ CountWithList /\ HttpStaysCleared
  BY DEF LogInv
<1>2. None \notin Handlers
  BY LogAssumption
<1>3. mu = h /\ \A g \in Handlers \ {h} : pc[g] = "idle"
  BY <1>1 DEF Locks
<1>4. /\ pc'[h] = "count" /\ address'[h] = current /\ \A g \in Handlers \ {h} : pc'[g] = "idle"
      /\ UNCHANGED <<http, requests, counter, current, mu, repoMu, rpc>>
  BY <1>1, <1>3 DEF TypeOK
<1>5. TypeOK'
  BY <1>1 DEF TypeOK
<1>6. Locks'
  BY <1>1 DEF Locks, TypeOK
<1>7. Fresh' /\ ListIsKept'
  BY <1>1 DEF Fresh, ListIsKept, TypeOK
<1>8. CountBehindList'
  BY <1>1, <1>2, <1>3, <1>4 DEF CountBehindList
<1>9. CountWithList'
  BY <1>1, <1>2, <1>3, <1>4 DEF CountWithList
<1>10. HttpStaysCleared'
  BY <1>1 DEF HttpStaysCleared
<1>11. QED
  BY <1>5, <1>6, <1>7, <1>8, <1>9, <1>10 DEF LogInv

LEMMA CountStep ==
  ASSUME LogInv, NEW h \in Handlers, RecordCount(h) PROVE LogInv'
<1> USE DEF RecordCount, resetVars
<1>1. TypeOK /\ Locks /\ Fresh /\ ListIsKept /\ CountBehindList /\ CountWithList /\ HttpStaysCleared
  BY DEF LogInv
<1>2. None \notin Handlers
  BY LogAssumption
<1>3. mu = h /\ \A g \in Handlers \ {h} : pc[g] = "idle"
  BY <1>1 DEF Locks
<1>4. /\ number[h] \in 1..arrived
      /\ requests \in SUBSET (1..arrived)
      /\ arrived \in Nat
      /\ address[h] \in 0..current
      /\ current \in Nat
      /\ counter \in [0..current -> Nat]
  BY <1>1 DEF Fresh, TypeOK
<1>5. Cardinality(requests) \in Nat
  BY <1>4, ListLength
<1>6. /\ address[h] = current => counter'[current] = counter[current] + 1
      /\ address[h] # current => counter'[current] = counter[current]
  <2>1. current \in DOMAIN counter /\ counter' = [counter EXCEPT ![address[h]] = @ + 1]
    BY <1>4
  <2>2. QED
    BY <2>1
<1>7. TypeOK'
  <2>1. counter' \in [0..current -> Nat]
    <3>1. counter[address[h]] + 1 \in Nat
      BY <1>4
    <3>2. QED
      BY <1>4, <3>1
  <2>2. number' \in [Handlers -> 0..arrived] /\ address' \in [Handlers -> 0..current]
    BY <1>1 DEF TypeOK
  <2>3. QED
    BY <1>1, <1>4, <2>1, <2>2 DEF TypeOK
<1>8. Locks'
  BY <1>1, <1>2, <1>3 DEF Locks, TypeOK
<1>9. Fresh'
  BY <1>1, <1>3 DEF Fresh, TypeOK
<1>10. ListIsKept'
  BY <1>1, <1>3 DEF ListIsKept, TypeOK
<1>11. \A g \in Handlers : pc'[g] = "idle"
  BY <1>1, <1>3 DEF TypeOK
<1>12. CountBehindList'
  BY <1>1, <1>4, <1>5, <1>6, <1>11 DEF CountBehindList
<1>13. CountWithList'
  BY <1>1, <1>4, <1>5, <1>6, <1>11 DEF CountWithList
<1>14. HttpStaysCleared'
  BY <1>1 DEF HttpStaysCleared
<1>15. QED
  BY <1>7, <1>8, <1>9, <1>10, <1>12, <1>13, <1>14 DEF LogInv

LEMMA ClearListStep ==
  ASSUME LogInv, NEW x \in Resetters, ClearList(x) PROVE LogInv'
<1> USE DEF ClearList, handlerVars
<1>1. TypeOK /\ Locks /\ Fresh /\ ListIsKept /\ CountBehindList /\ CountWithList /\ HttpStaysCleared
  BY DEF LogInv
<1>2. None \notin Resetters
  BY LogAssumption
<1>3. TypeOK'
  BY <1>1 DEF TypeOK
<1>4. Locks'
  BY <1>1, <1>2 DEF Locks, TypeOK
<1>5. Fresh'
  BY <1>1 DEF Fresh, TypeOK
<1>6. ListIsKept' /\ HttpStaysCleared'
  BY <1>1 DEF ListIsKept, HttpStaysCleared
<1>7. CountBehindList'
  BY <1>2 DEF CountBehindList
<1>8. CountWithList'
  BY <1>1 DEF CountWithList, TypeOK
<1>9. QED
  BY <1>3, <1>4, <1>5, <1>6, <1>7, <1>8 DEF LogInv

\* After NewCounter no handler counts in the counter in use.
LEMMA NewCounterIsZero ==
  ASSUME TypeOK, NewCounter
  PROVE  /\ current' \in Nat
         /\ counter' \in [0..current' -> Nat]
         /\ counter'[current'] = 0
         /\ 0..current \subseteq 0..current'
         /\ \A h \in Handlers : address[h] # current'
BY DEF TypeOK, NewCounter

LEMMA ClearCounterStep ==
  ASSUME LogInv, NEW x \in Resetters, ClearCounter(x) PROVE LogInv'
<1> USE DEF ClearCounter, handlerVars
<1>1. TypeOK /\ Locks /\ Fresh /\ ListIsKept /\ CountBehindList /\ CountWithList /\ HttpStaysCleared
  BY DEF LogInv
<1>2. None \notin Resetters
  BY LogAssumption
<1>3. repoMu = x /\ \A y \in Resetters \ {x} : rpc[y] # "counter"
  BY <1>1 DEF Locks
<1>4. /\ current' \in Nat
      /\ counter' \in [0..current' -> Nat]
      /\ counter'[current'] = 0
      /\ 0..current \subseteq 0..current'
      /\ \A h \in Handlers : address[h] # current'
  BY <1>1, NewCounterIsZero
<1>5. TypeOK'
  BY <1>1, <1>4 DEF TypeOK, Answered
<1>6. Locks'
  BY <1>1, <1>2, <1>3 DEF Locks, TypeOK, Answered
<1>7. Fresh'
  BY <1>1 DEF Fresh, TypeOK, Answered
<1>8. ListIsKept' /\ HttpStaysCleared'
  BY <1>1 DEF ListIsKept, HttpStaysCleared
<1>9. /\ Cardinality(requests) \in Nat
      /\ \A h \in Handlers : Cardinality(seen[h]) \in Nat
  BY <1>1, ListLength DEF TypeOK
<1>10. CountBehindList'
  BY <1>4, <1>9 DEF CountBehindList
<1>11. CountWithList'
  BY <1>1 DEF CountWithList, TypeOK
<1>12. QED
  BY <1>5, <1>6, <1>7, <1>8, <1>10, <1>11 DEF LogInv

LEMMA ResetStep ==
  ASSUME LogInv, NEW x \in Resetters, ResetRequestCount(x) PROVE LogInv'
<1> USE DEF ResetRequestCount, handlerVars, Answered
<1>1. TypeOK /\ Locks /\ Fresh /\ ListIsKept /\ CountBehindList /\ CountWithList /\ HttpStaysCleared
  BY DEF LogInv
<1>2. None \notin Handlers
  BY LogAssumption
<1>3. \A h \in Handlers : pc[h] = "idle"
  BY <1>1, <1>2 DEF Locks
<1>4. /\ current' \in Nat
      /\ counter' \in [0..current' -> Nat]
      /\ counter'[current'] = 0
      /\ 0..current \subseteq 0..current'
  BY <1>1, NewCounterIsZero
<1>5. TypeOK'
  BY <1>1, <1>4 DEF TypeOK
<1>6. Locks'
  BY <1>1 DEF Locks, TypeOK
<1>7. Fresh'
  BY <1>1, <1>3 DEF Fresh, TypeOK
<1>8. ListIsKept' /\ HttpStaysCleared'
  BY <1>3 DEF ListIsKept, HttpStaysCleared
<1>9. CountBehindList' /\ CountWithList'
  BY <1>3, <1>4, EmptyList DEF CountBehindList, CountWithList
<1>10. QED
  BY <1>5, <1>6, <1>7, <1>8, <1>9 DEF LogInv

-----------------------------------------------------------------------------
LEMMA LogInit == Init => LogInv
<1>1. SUFFICES ASSUME Init PROVE LogInv
  OBVIOUS
<1>2. TypeOK
  BY <1>1 DEF Init, TypeOK
<1>3. Locks /\ Fresh /\ ListIsKept /\ HttpStaysCleared
  BY <1>1, LogAssumption DEF Init, Locks, Fresh, ListIsKept, HttpStaysCleared
<1>4. CountBehindList /\ CountWithList
  BY <1>1, EmptyList DEF Init, CountBehindList, CountWithList
<1>5. QED
  BY <1>2, <1>3, <1>4 DEF LogInv

LEMMA LogNext == LogInv /\ [Next]_vars => LogInv'
<1>1. ASSUME LogInv, Next PROVE LogInv'
  BY <1>1, BeginStep, AppendStep, LookUpStep, CountStep, ClearListStep, ClearCounterStep, ResetStep
     DEF Next, Record, Reset
<1>2. ASSUME LogInv, UNCHANGED vars PROVE LogInv'
  BY <1>2 DEF vars, handlerVars, resetVars, LogInv, TypeOK, Locks, Fresh, ListIsKept,
     CountBehindList, CountWithList, HttpStaysCleared
<1>3. QED
  BY <1>1, <1>2

\* The locks, the freshness of request numbers and the relations between the
\* list and the counter at every control point of record and clear: between
\* storing and looking up, a clearing may take the request and leave the count.
THEOREM LogInvariant == Spec => []LogInv
BY LogInit, LogNext, PTL DEF Spec

\* A request of an HTTP imposter that was recorded before a clearing request
\* (ClearRequests, then ResetRequestCount) began is never listed again.
THEOREM ClearedForGood == Spec => []HttpStaysCleared
<1>1. LogInv => HttpStaysCleared
  BY DEF LogInv
<1>2. QED
  BY <1>1, LogInvariant, PTL

\* When all is quiet numberOfRequests is the number of requests listed for an HTTP
\* imposter, and for the others at most one more than that.
THEOREM CountsAgreeAlways == Spec => []CountsAgree
<1>1. ASSUME LogInv PROVE CountsAgree
  <2>1. Quiet => repoMu = None
    BY <1>1 DEF LogInv, Quiet, Locks, TypeOK
  <2>2. CountAheadByOne
    BY <1>1, <2>1 DEF LogInv, CountBehindList, CountAheadByOne, Quiet
  <2>3. CountIsLength
    BY <1>1 DEF LogInv, CountWithList, CountIsLength, Quiet
  <2>4. QED
    BY <2>2, <2>3 DEF CountsAgree
<1>2. QED
  BY <1>1, LogInvariant, PTL

\* Storing a list that was read earlier loses no request: only the clearing
\* requests take requests off the list.
THEOREM AppendsLoseNothing == Spec => NothingElseIsLost
<1> DEFINE Idle == \A x \in Resetters : rpc[x] = "idle" /\ rpc'[x] = "idle"
<1>1. ASSUME LogInv, Next, Idle PROVE requests \subseteq requests'
  <2>1. ASSUME NEW x \in Resetters, Reset(x) PROVE FALSE
    BY <1>1, <2>1 DEF Reset, ClearList, ClearCounter, ResetRequestCount, LogInv, TypeOK
  <2>2. ASSUME NEW h \in Handlers, Record(h) PROVE requests \subseteq requests'
    BY <1>1, <2>2 DEF Record, RecordBegin, RecordAppend, LookUpCounter, RecordCount, LogInv, ListIsKept
  <2>3. QED
    BY <1>1, <2>1, <2>2 DEF Next
<1>2. LogInv /\ [Next]_vars => [Idle => requests \subseteq requests']_vars
  BY <1>1
<1>3. QED
  BY <1>2, LogInvariant, PTL DEF Spec, NothingElseIsLost
=============================================================================
