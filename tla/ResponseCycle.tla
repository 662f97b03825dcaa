--------------------------- MODULE ResponseCycle ---------------------------
(***************************************************************************)
(* models.Stub.NextResponse, called by the handlers of concurrent requests *)
(* that match the same stub.  The two counters of the stub are accessed    *)
(* atomically one at a time: a call is a load of responseIndex, an         *)
(* increment of repeatCount, and, when the response has been repeated      *)
(* often enough, a store of 0 to repeatCount and an increment of           *)
(* responseIndex, with the steps of other calls in between.                *)
(***************************************************************************)
EXTENDS Integers, FiniteSets

CONSTANTS
  Callers,    \* request handlers
  N,          \* len(Stub.Responses); a stub without responses has no cycle
  Repeat,     \* Response.Repeat of each response, 0 when it is not given
  MaxRepeat,  \* a bound on Repeat
  MaxCalls    \* bound on the number of calls in a behaviour

ASSUME CycleAssumption ==
  /\ IsFiniteSet(Callers)
  /\ N \in Nat \ {0}
  /\ MaxRepeat \in Nat \ {0}
  /\ Repeat \in [0..N-1 -> Int]
  /\ \A i \in 0..N-1 : Repeat[i] <= MaxRepeat
  /\ MaxCalls \in Nat

VARIABLES
  responseIndex,  \* Stub.responseIndex
  repeatCount,    \* Stub.repeatCount
  pc,             \* control point of each call
  loaded,         \* the value of responseIndex that the call has loaded
  calls,          \* number of calls begun
  returned,       \* number of calls that have returned
  last            \* history: the response chosen by the last load, -1 before

vars == <<responseIndex, repeatCount, pc, loaded, calls, returned, last>>

TypeOK ==
  /\ responseIndex \in Nat
  /\ repeatCount \in Nat
  /\ pc \in [Callers -> {"idle", "count", "reset", "advance"}]
  /\ loaded \in [Callers -> Nat]
  /\ calls \in Nat
  /\ returned \in Nat
  /\ last \in -1..N-1

Times(i) == IF Repeat[i] = 0 THEN 1 ELSE Repeat[i]

\* atomic.LoadInt64(&s.responseIndex): the response that will be returned is
\* the one at this index modulo the number of responses.
LoadIndex(c) ==
  /\ pc[c] = "idle"
  /\ calls < MaxCalls
  /\ calls' = calls + 1
  /\ loaded' = [loaded EXCEPT ![c] = responseIndex]
  /\ last' = responseIndex % N
  /\ pc' = [pc EXCEPT ![c] = "count"]
  /\ UNCHANGED <<responseIndex, repeatCount, returned>>

\* Mutant: the count must exceed the repeat.
CountRepeatOver(c) ==
  /\ pc[c] = "count"
  /\ repeatCount' = repeatCount + 1
  /\ \/ /\ repeatCount + 1 > Times(loaded[c] % N)
        /\ pc' = [pc EXCEPT ![c] = "reset"]
        /\ UNCHANGED returned
     \/ /\ repeatCount + 1 <= Times(loaded[c] % N)
        /\ pc' = [pc EXCEPT ![c] = "idle"]
        /\ returned' = returned + 1
  /\ UNCHANGED <<responseIndex, loaded, calls, last>>

\* atomic.AddInt64(&s.repeatCount, 1), compared with the repeat of the
\* response chosen before.
CountRepeat(c) ==
  /\ pc[c] = "count"
  /\ repeatCount' = repeatCount + 1
  /\ \/ /\ repeatCount + 1 >= Times(loaded[c] % N)
        /\ pc' = [pc EXCEPT ![c] = "reset"]
        /\ UNCHANGED returned
     \/ /\ repeatCount + 1 < Times(loaded[c] % N)
        /\ pc' = [pc EXCEPT ![c] = "idle"]
        /\ returned' = returned + 1
  /\ UNCHANGED <<responseIndex, loaded, calls, last>>

\* Mutant: the count is never reset.
ResetRepeatForgotten(c) ==
  /\ pc[c] = "reset"
  /\ pc' = [pc EXCEPT ![c] = "advance"]
  /\ UNCHANGED <<responseIndex, repeatCount, loaded, calls, returned, last>>

\* atomic.StoreInt64(&s.repeatCount, 0)
ResetRepeat(c) ==
  /\ pc[c] = "reset"
  /\ repeatCount' = 0
  /\ pc' = [pc EXCEPT ![c] = "advance"]
  /\ UNCHANGED <<responseIndex, loaded, calls, returned, last>>

\* Mutant: a plain store of the loaded index plus one, in place of an atomic add.
AdvanceIndexStore(c) ==
  /\ pc[c] = "advance"
  /\ responseIndex' = loaded[c] + 1
  /\ returned' = returned + 1
  /\ pc' = [pc EXCEPT ![c] = "idle"]
  /\ UNCHANGED <<repeatCount, loaded, calls, last>>

\* atomic.AddInt64(&s.responseIndex, 1), and the call returns.
AdvanceIndex(c) ==
  /\ pc[c] = "advance"
  /\ responseIndex' = responseIndex + 1
  /\ returned' = returned + 1
  /\ pc' = [pc EXCEPT ![c] = "idle"]
  /\ UNCHANGED <<repeatCount, loaded, calls, last>>

Init ==
  /\ responseIndex = 0
  /\ repeatCount = 0
  /\ pc = [c \in Callers |-> "idle"]
  /\ loaded = [c \in Callers |-> 0]
  /\ calls = 0
  /\ returned = 0
  /\ last = -1

NextResponse(c) == LoadIndex(c) \/ CountRepeat(c) \/ ResetRepeat(c) \/ AdvanceIndex(c)

Next == \E c \in Callers : NextResponse(c)

Spec == Init /\ [][Next]_vars

-----------------------------------------------------------------------------
(* Properties                                                               *)

Resetting == {c \in Callers : pc[c] = "reset"}

\* However the calls interleave, repeatCount passes the largest repeat by less
\* than the number of calls that are about to store 0 in it: the count cannot
\* run away, so a response is not returned for ever.
RepeatCountBounded == repeatCount < MaxRepeat + Cardinality(Resetting)

\* When no response has a repeat, no concurrent call loses or doubles the step
\* to the next response: the index counts exactly the calls that returned.
IndexCountsCalls ==
  (\A i \in 0..N-1 : Repeat[i] <= 1) => responseIndex = returned

-----------------------------------------------------------------------------
(* One call at a time implements the contract of the documentation.         *)

\* The call that c is in will move the cycle on.
Moves(c) ==
  \/ pc[c] \in {"reset", "advance"}
  \/ pc[c] = "count" /\ repeatCount + 1 >= Times(loaded[c] % N)

\* The call that c is in will only count.
Counts(c) == pc[c] = "count" /\ repeatCount + 1 < Times(loaded[c] % N)

\* The contract serves a response when the call loads the index, so it is
\* ahead of the counters while the call is under way.
turn == IF \E c \in Callers : Moves(c) THEN responseIndex + 1 ELSE responseIndex

used ==
  IF \E c \in Callers : Moves(c) THEN 0
  ELSE IF \E c \in Callers : Counts(c) THEN repeatCount + 1
  ELSE repeatCount

Contract == INSTANCE ResponseContract
  WITH N <- N, Repeat <- Repeat, turn <- turn, used <- used, last <- last

\* Requests that reach a stub one at a time get its responses as the
\* documentation says: in order, each as often as its repeat says, and from
\* the start again after the last one.
ServedAsDocumented == Contract!ContractSpec

\* The inductive strengthening for a single caller.
SoloInv ==
  \A c \in Callers :
    /\ pc[c] = "count" => loaded[c] = responseIndex
    /\ pc[c] = "advance" => repeatCount = 0
=============================================================================
