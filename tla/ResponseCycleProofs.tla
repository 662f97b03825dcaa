------------------------ MODULE ResponseCycleProofs ------------------------
(***************************************************************************)
(* Proofs about ResponseCycle, for any number of callers and responses and *)
(* any repeats.                                                            *)
(***************************************************************************)
EXTENDS ResponseCycle, FiniteSetTheorems, TLAPS

LEMMA ModType == \A k \in Nat : k % N \in 0..N-1
  BY CycleAssumption

LEMMA TimesType == \A i \in 0..N-1 : Times(i) \in Int /\ Times(i) <= MaxRepeat
  BY CycleAssumption DEF Times

LEMMA TypeInit == Init => TypeOK
  BY CycleAssumption DEF Init, TypeOK

LEMMA TypeNext == TypeOK /\ [Next]_vars => TypeOK'
<1> SUFFICES ASSUME TypeOK, [Next]_vars PROVE TypeOK'
  OBVIOUS
<1>1. ASSUME NEW c \in Callers, LoadIndex(c) PROVE TypeOK'
  <2>1. responseIndex % N \in 0..N-1
    BY ModType DEF TypeOK
  <2>2. last' \in -1..N-1
    BY <1>1, <2>1, CycleAssumption DEF LoadIndex
  <2>3. QED
    BY <1>1, <2>2 DEF LoadIndex, TypeOK
<1>2. ASSUME NEW c \in Callers, CountRepeat(c) PROVE TypeOK'
  BY <1>2 DEF CountRepeat, TypeOK
<1>3. ASSUME NEW c \in Callers, ResetRepeat(c) PROVE TypeOK'
  BY <1>3 DEF ResetRepeat, TypeOK
<1>4. ASSUME NEW c \in Callers, AdvanceIndex(c) PROVE TypeOK'
  BY <1>4 DEF AdvanceIndex, TypeOK
<1>5. CASE UNCHANGED vars
  BY <1>5 DEF vars, TypeOK
<1>6. QED
  BY <1>1, <1>2, <1>3, <1>4, <1>5 DEF Next, NextResponse

\* The counters of a stub stay natural numbers under any interleaving.
THEOREM TypeCorrect == Spec => []TypeOK
<1>1. QED
  BY TypeInit, TypeNext, PTL DEF Spec

-----------------------------------------------------------------------------
(* The repeat counter cannot run away                                       *)

LEMMA ResettingFinite ==
  IsFiniteSet(Resetting) /\ IsFiniteSet(Resetting') /\ Cardinality(Resetting) \in Nat /\ Cardinality(Resetting') \in Nat
<1>1. Resetting \subseteq Callers /\ Resetting' \subseteq Callers
  BY DEF Resetting
<1>2. IsFiniteSet(Resetting) /\ IsFiniteSet(Resetting')
  BY <1>1, FS_Subset, CycleAssumption
<1>3. QED
  BY <1>2, FS_CardinalityType

LEMMA BoundedNext == TypeOK /\ RepeatCountBounded /\ [Next]_vars => RepeatCountBounded'
<1> SUFFICES ASSUME TypeOK, RepeatCountBounded, [Next]_vars PROVE RepeatCountBounded'
  OBVIOUS
<1> USE ResettingFinite, CycleAssumption
<1>1. ASSUME NEW c \in Callers, LoadIndex(c) PROVE RepeatCountBounded'
  <2>1. Resetting' = Resetting
    BY <1>1 DEF LoadIndex, Resetting, TypeOK
  <2>2. QED
    BY <1>1, <2>1 DEF LoadIndex, RepeatCountBounded
<1>2. ASSUME NEW c \in Callers, CountRepeat(c) PROVE RepeatCountBounded'
  <2>1. loaded[c] % N \in 0..N-1
    BY ModType DEF TypeOK
  <2>2. Times(loaded[c] % N) \in Int /\ Times(loaded[c] % N) <= MaxRepeat
    BY <2>1, TimesType
  <2>3. CASE repeatCount + 1 >= Times(loaded[c] % N)
    <3>1. Resetting' = Resetting \cup {c} /\ c \notin Resetting
      BY <1>2, <2>2, <2>3 DEF CountRepeat, Resetting, TypeOK
    <3>2. Cardinality(Resetting') = Cardinality(Resetting) + 1
      BY <3>1, FS_AddElement
    <3>3. QED
      BY <1>2, <3>2 DEF CountRepeat, RepeatCountBounded, TypeOK
  <2>4. CASE repeatCount + 1 < Times(loaded[c] % N)
    BY <1>2, <2>2, <2>4 DEF CountRepeat, RepeatCountBounded, TypeOK
  <2>5. QED
    BY <1>2, <2>3, <2>4 DEF CountRepeat
<1>3. ASSUME NEW c \in Callers, ResetRepeat(c) PROVE RepeatCountBounded'
  BY <1>3 DEF ResetRepeat, RepeatCountBounded
<1>4. ASSUME NEW c \in Callers, AdvanceIndex(c) PROVE RepeatCountBounded'
  <2>1. Resetting' = Resetting
    BY <1>4 DEF AdvanceIndex, Resetting, TypeOK
  <2>2. QED
    BY <1>4, <2>1 DEF AdvanceIndex, RepeatCountBounded
<1>5. CASE UNCHANGED vars
  BY <1>5 DEF vars, RepeatCountBounded, Resetting
<1>6. QED
  BY <1>1, <1>2, <1>3, <1>4, <1>5 DEF Next, NextResponse

\* For any number of concurrent calls, repeatCount passes the largest repeat
\* by less than the number of calls about to reset it.
THEOREM RepeatIsBounded == Spec => []RepeatCountBounded
<1>1. Init => RepeatCountBounded
  BY ResettingFinite, CycleAssumption DEF Init, RepeatCountBounded
<1>2. QED
  BY <1>1, BoundedNext, TypeCorrect, PTL DEF Spec

-----------------------------------------------------------------------------
(* Without repeats no step of the cycle is lost                             *)

\* For any number of concurrent calls on a stub whose responses have no
\* repeat, responseIndex equals the number of calls that have returned.
THEOREM NoStepLost == Spec => []IndexCountsCalls
<1>1. Init => IndexCountsCalls
  BY DEF Init, IndexCountsCalls
<1>2. TypeOK /\ IndexCountsCalls /\ [Next]_vars => IndexCountsCalls'
  <2> SUFFICES ASSUME TypeOK, IndexCountsCalls, [Next]_vars,
                      \A i \in 0..N-1 : Repeat[i] <= 1
               PROVE  responseIndex' = returned'
    BY DEF IndexCountsCalls
  <2>1. responseIndex = returned
    BY DEF IndexCountsCalls
  <2>2. \A i \in 0..N-1 : Times(i) \in Int /\ Times(i) <= 1
    BY CycleAssumption DEF Times
  <2>3. ASSUME NEW c \in Callers, LoadIndex(c) PROVE responseIndex' = returned'
    BY <2>1, <2>3 DEF LoadIndex
  <2>4. ASSUME NEW c \in Callers, CountRepeat(c) PROVE responseIndex' = returned'
    <3>1. Times(loaded[c] % N) \in Int /\ Times(loaded[c] % N) <= 1
      BY <2>2, ModType DEF TypeOK
    <3>2. repeatCount + 1 >= Times(loaded[c] % N)
      BY <3>1 DEF TypeOK
    <3>3. QED
      BY <2>1, <2>4, <3>1, <3>2 DEF CountRepeat, TypeOK
  <2>5. ASSUME NEW c \in Callers, ResetRepeat(c) PROVE responseIndex' = returned'
    BY <2>1, <2>5 DEF ResetRepeat
  <2>6. ASSUME NEW c \in Callers, AdvanceIndex(c) PROVE responseIndex' = returned'
    BY <2>1, <2>6 DEF AdvanceIndex
  <2>7. CASE UNCHANGED vars
    BY <2>1, <2>7 DEF vars
  <2>8. QED
    BY <2>3, <2>4, <2>5, <2>6, <2>7 DEF Next, NextResponse
<1>3. QED
  BY <1>1, <1>2, TypeCorrect, PTL DEF Spec

-----------------------------------------------------------------------------
(* A single caller implements the contract                                  *)

LEMMA SoloNext ==
  ASSUME NEW self, Callers = {self}
  PROVE  TypeOK /\ SoloInv /\ [Next]_vars => SoloInv'
<1> SUFFICES ASSUME TypeOK, SoloInv, [Next]_vars PROVE SoloInv'
  OBVIOUS
<1>1. ASSUME NEW c \in Callers, NextResponse(c) PROVE SoloInv'
  BY <1>1 DEF NextResponse, LoadIndex, CountRepeat, ResetRepeat, AdvanceIndex, SoloInv, TypeOK
<1>2. CASE UNCHANGED vars
  BY <1>2 DEF vars, SoloInv
<1>3. QED
  BY <1>1, <1>2 DEF Next

LEMMA SoloServes ==
  ASSUME NEW self, Callers = {self}
  PROVE  TypeOK /\ SoloInv /\ [Next]_vars => [Contract!Serve]_(Contract!contractVars)
<1> SUFFICES ASSUME TypeOK, SoloInv, [Next]_vars
             PROVE  Contract!Serve \/ UNCHANGED <<turn, used, last>>
  BY DEF Contract!contractVars
<1> DEFINE t == Times(responseIndex % N)
<1>1. t \in Int
  BY ModType, TimesType DEF TypeOK
<1>2. Contract!Times(responseIndex % N) = t
  BY DEF Times, Contract!Times
<1> HIDE DEF t
<1>3. CASE LoadIndex(self)
  <2>1. turn = responseIndex /\ used = repeatCount
    BY <1>3 DEF LoadIndex, turn, used, Moves, Counts
  <2>2. /\ pc'[self] = "count" /\ loaded'[self] = responseIndex /\ last' = responseIndex % N
        /\ UNCHANGED <<responseIndex, repeatCount>>
    BY <1>3 DEF LoadIndex, TypeOK
  <2>3. Moves(self)' <=> repeatCount + 1 >= t
    BY <2>2 DEF Moves, t, Times
  <2>4. Counts(self)' <=> repeatCount + 1 < t
    BY <2>2 DEF Counts, t, Times
  <2>5. CASE repeatCount + 1 >= t
    <3>1. turn' = responseIndex + 1 /\ used' = 0
      BY <2>2, <2>3, <2>5 DEF turn, used
    <3>2. QED
      BY <1>2, <2>1, <2>2, <2>5, <3>1 DEF Contract!Serve
  <2>6. CASE repeatCount + 1 < t
    <3>1. turn' = responseIndex /\ used' = repeatCount + 1
      BY <1>1, <2>2, <2>3, <2>4, <2>6 DEF turn, used, TypeOK
    <3>2. QED
      BY <1>2, <2>1, <2>2, <2>6, <3>1 DEF Contract!Serve
  <2>7. QED
    BY <1>1, <2>5, <2>6 DEF TypeOK
<1>4. CASE CountRepeat(self)
  <2>1. loaded[self] = responseIndex /\ pc[self] = "count"
    BY <1>4 DEF SoloInv, CountRepeat
  <2>2. UNCHANGED <<responseIndex, loaded, last>> /\ repeatCount' = repeatCount + 1
    BY <1>4 DEF CountRepeat
  <2>3. CASE repeatCount + 1 >= t
    <3>1. pc'[self] = "reset"
      BY <1>1, <1>4, <2>1, <2>3 DEF CountRepeat, TypeOK, t
    <3>2. Moves(self) /\ Moves(self)'
      BY <2>1, <2>3, <3>1 DEF Moves, t
    <3>3. QED
      BY <2>2, <3>2 DEF turn, used
  <2>4. CASE repeatCount + 1 < t
    <3>1. pc'[self] = "idle"
      BY <1>1, <1>4, <2>1, <2>4 DEF CountRepeat, TypeOK, t
    <3>2. ~Moves(self) /\ Counts(self) /\ ~Moves(self)' /\ ~Counts(self)'
      BY <1>1, <2>1, <2>4, <3>1 DEF Moves, Counts, t, TypeOK
    <3>3. QED
      BY <2>2, <3>2 DEF turn, used
  <2>5. QED
    BY <1>1, <2>3, <2>4 DEF TypeOK
<1>5. CASE ResetRepeat(self)
  <2>1. Moves(self) /\ Moves(self)' /\ UNCHANGED <<responseIndex, last>>
    BY <1>5 DEF ResetRepeat, Moves, TypeOK
  <2>2. QED
    BY <2>1 DEF turn, used
<1>6. CASE AdvanceIndex(self)
  <2>1. /\ Moves(self) /\ ~Moves(self)' /\ ~Counts(self)' /\ repeatCount = 0
        /\ responseIndex' = responseIndex + 1 /\ UNCHANGED <<repeatCount, last>>
    BY <1>6 DEF AdvanceIndex, Moves, Counts, SoloInv, TypeOK
  <2>2. QED
    BY <2>1 DEF turn, used
<1>7. CASE UNCHANGED vars
  BY <1>7 DEF vars, turn, used, Moves, Counts
<1>8. QED
  BY <1>3, <1>4, <1>5, <1>6, <1>7 DEF Next, NextResponse

\* When the requests to a stub come one at a time, NextResponse implements the
\* documented circular buffer with repeats, for any responses and repeats.
THEOREM SoloImplementsContract ==
  ASSUME NEW self, Callers = {self}
  PROVE  Spec => ServedAsDocumented
<1>1. Init => Contract!ContractInit
  BY DEF Init, Contract!ContractInit, turn, used, Moves, Counts
<1>2. Init => SoloInv
  BY DEF Init, SoloInv
<1>3. QED
  BY <1>1, <1>2, SoloNext, SoloServes, TypeCorrect, PTL
  DEF Spec, ServedAsDocumented, Contract!ContractSpec
=============================================================================
