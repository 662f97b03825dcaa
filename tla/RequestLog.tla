----------------------------- MODULE RequestLog -----------------------------
(***************************************************************************)
(* Mock verification: the requests an imposter records, the counter        *)
(* numberOfRequests, and the admin requests that clear both.               *)
(*                                                                         *)
(* A server reads the list, stores it with one more request, looks the     *)
(* counter up and increments it, all under its own lock. ClearRequests of  *)
(* the repository empties the list and replaces the counter under another  *)
(* lock, so it runs in between: what is stored and what is counted then    *)
(* need not agree. For an HTTP imposter the handler then clears both once  *)
(* more under the lock of the server (Server.ResetRequestCount);           *)
(* Manager.GetServer finds no server for TCP, SMTP and gRPC imposters,     *)
(* and nothing more is done.                                               *)
(*                                                                         *)
(* The imposter has recordRequests set (otherwise the list stays empty),   *)
(* and a TCP connection brings one packet: a further one is appended in    *)
(* the same way and not counted.                                           *)
(***************************************************************************)
EXTENDS Naturals, FiniteSets

CONSTANTS
  Handlers,     \* requests or connections that a server handles
  Resetters,    \* admin requests DELETE requests, savedRequests, savedProxyResponses
  MaxRequests,  \* bound on the requests in a behaviour
  MaxResets,    \* bound on the clearing requests in a behaviour
  None          \* nobody holds the lock

ASSUME LogAssumption ==
  /\ IsFiniteSet(Handlers)
  /\ IsFiniteSet(Resetters)
  /\ None \notin Handlers \cup Resetters
  /\ MaxRequests \in Nat
  /\ MaxResets \in Nat

VARIABLES
  http,       \* the imposter is an HTTP or HTTPS one
  requests,   \* imposter.Requests, TCPRequests, ...: which requests are in it
  counter,    \* the counters that have been allocated, by address
  current,    \* imposter.NumberOfRequests: the address in use
  mu,         \* holder of the lock of the server
  repoMu,     \* holder of the lock of the repository
  pc,         \* control point of each handler
  seen,       \* the list as read for the append
  number,     \* the request that the handler records
  address,    \* the counter that it will count in
  rpc,        \* control point of each clearing request
  arrived,    \* number of requests so far
  resets,     \* number of clearing requests so far
  done,       \* history: the requests whose recording is complete
  before,     \* history: those that were when a clearing request began
  cleared     \* history: those that a clearing request has answered for

handlerVars == <<pc, seen, number, address, arrived, done>>
resetVars == <<rpc, resets, before, cleared>>
vars == <<http, requests, counter, current, mu, repoMu, handlerVars, resetVars>>

TypeOK ==
  /\ http \in BOOLEAN
  /\ requests \subseteq 1..arrived
  /\ counter \in [0..current -> Nat]
  /\ current \in Nat
  /\ mu \in Handlers \cup {None}
  /\ repoMu \in Resetters \cup {None}
  /\ pc \in [Handlers -> {"idle", "append", "lookup", "count"}]
  /\ seen \in [Handlers -> SUBSET (1..arrived)]
  /\ number \in [Handlers -> 0..arrived]
  /\ address \in [Handlers -> 0..current]
  /\ rpc \in [Resetters -> {"idle", "counter", "again"}]
  /\ arrived \in Nat
  /\ resets \in Nat
  /\ done \subseteq 1..arrived
  /\ before \in [Resetters -> SUBSET (1..arrived)]
  /\ cleared \subseteq 1..arrived

-----------------------------------------------------------------------------
(* A server records a request                                               *)

\* Mutant: the list is read without the lock.
RecordUnlocked(h) ==
  /\ pc[h] = "idle"
  /\ arrived < MaxRequests
  /\ mu' = h
  /\ arrived' = arrived + 1
  /\ number' = [number EXCEPT ![h] = arrived + 1]
  /\ seen' = [seen EXCEPT ![h] = requests]
  /\ pc' = [pc EXCEPT ![h] = "append"]
  /\ UNCHANGED <<http, requests, counter, current, repoMu, address, done, resetVars>>

\* The lock is taken and the list read ...
RecordBegin(h) ==
  /\ pc[h] = "idle"
  /\ mu = None
  /\ arrived < MaxRequests
  /\ mu' = h
  /\ arrived' = arrived + 1
  /\ number' = [number EXCEPT ![h] = arrived + 1]
  /\ seen' = [seen EXCEPT ![h] = requests]
  /\ pc' = [pc EXCEPT ![h] = "append"]
  /\ UNCHANGED <<http, requests, counter, current, repoMu, address, done, resetVars>>

\* ... the list with the request appended is stored ...
RecordAppend(h) ==
  /\ pc[h] = "append"
  /\ requests' = seen[h] \cup {number[h]}
  /\ seen' = [seen EXCEPT ![h] = {}]
  /\ pc' = [pc EXCEPT ![h] = "lookup"]
  /\ UNCHANGED <<http, counter, current, mu, repoMu, number, address, arrived, done, resetVars>>

\* ... the counter is looked up ...
LookUpCounter(h) ==
  /\ pc[h] = "lookup"
  /\ address' = [address EXCEPT ![h] = current]
  /\ pc' = [pc EXCEPT ![h] = "count"]
  /\ UNCHANGED <<http, requests, counter, current, mu, repoMu, seen, number, arrived, done, resetVars>>

\* Mutant: a counter that was replaced meanwhile gets the count of the old one.
RecordCountCopied(h) ==
  /\ pc[h] = "count"
  /\ counter' = [counter EXCEPT ![current] = counter[address[h]] + 1]
  /\ mu' = None
  /\ pc' = [pc EXCEPT ![h] = "idle"]
  /\ number' = [number EXCEPT ![h] = 0]
  /\ address' = [address EXCEPT ![h] = 0]
  /\ done' = done \cup {number[h]}
  /\ UNCHANGED <<http, requests, current, repoMu, seen, arrived, resetVars>>

\* ... and it is incremented, in use or not.
RecordCount(h) ==
  /\ pc[h] = "count"
  /\ counter' = [counter EXCEPT ![address[h]] = @ + 1]
  /\ mu' = None
  /\ pc' = [pc EXCEPT ![h] = "idle"]
  /\ number' = [number EXCEPT ![h] = 0]
  /\ address' = [address EXCEPT ![h] = 0]
  /\ done' = done \cup {number[h]}
  /\ UNCHANGED <<http, requests, current, repoMu, seen, arrived, resetVars>>

-----------------------------------------------------------------------------
(* An admin request clears the list                                         *)

\* A new counter at 0.
NewCounter ==
  /\ current' = current + 1
  /\ counter' = [a \in 0..current + 1 |-> IF a = current + 1 THEN 0 ELSE counter[a]]

Answered(x) ==
  /\ rpc' = [rpc EXCEPT ![x] = "idle"]
  /\ cleared' = cleared \cup before[x]
  /\ before' = [before EXCEPT ![x] = {}]

\* ClearRequests: the list ...
ClearList(x) ==
  /\ rpc[x] = "idle"
  /\ repoMu = None
  /\ resets < MaxResets
  /\ repoMu' = x
  /\ resets' = resets + 1
  /\ requests' = {}
  /\ before' = [before EXCEPT ![x] = done]
  /\ rpc' = [rpc EXCEPT ![x] = "counter"]
  /\ UNCHANGED <<http, counter, current, mu, handlerVars, cleared>>

\* ... and the counter.
ClearCounter(x) ==
  /\ rpc[x] = "counter"
  /\ repoMu' = None
  /\ NewCounter
  /\ \/ /\ http
        /\ rpc' = [rpc EXCEPT ![x] = "again"]
        /\ UNCHANGED <<before, cleared>>
     \/ /\ ~http
        /\ Answered(x)
  /\ UNCHANGED <<http, requests, mu, handlerVars, resets>>

\* Mutant: ResetRequestCount does not take the lock of the server.
ResetUnlocked(x) ==
  /\ rpc[x] = "again"
  /\ NewCounter
  /\ requests' = {}
  /\ Answered(x)
  /\ UNCHANGED <<http, mu, repoMu, handlerVars, resets>>

\* ResetRequestCount, under the lock of the server.  No recording is under way, so
\* its two assignments commute with all that may come between them.
ResetRequestCount(x) ==
  /\ rpc[x] = "again"
  /\ mu = None
  /\ NewCounter
  /\ requests' = {}
  /\ Answered(x)
  /\ UNCHANGED <<http, mu, repoMu, handlerVars, resets>>

-----------------------------------------------------------------------------
Init ==
  /\ http \in BOOLEAN
  /\ requests = {}
  /\ counter = [a \in 0..0 |-> 0]
  /\ current = 0
  /\ mu = None
  /\ repoMu = None
  /\ pc = [h \in Handlers |-> "idle"]
  /\ seen = [h \in Handlers |-> {}]
  /\ number = [h \in Handlers |-> 0]
  /\ address = [h \in Handlers |-> 0]
  /\ rpc = [x \in Resetters |-> "idle"]
  /\ arrived = 0
  /\ resets = 0
  /\ done = {}
  /\ before = [x \in Resetters |-> {}]
  /\ cleared = {}

Record(h) == RecordBegin(h) \/ RecordAppend(h) \/ LookUpCounter(h) \/ RecordCount(h)

Reset(x) == ClearList(x) \/ ClearCounter(x) \/ ResetRequestCount(x)

Next == (\E h \in Handlers : Record(h)) \/ (\E x \in Resetters : Reset(x))

Spec == Init /\ [][Next]_vars

-----------------------------------------------------------------------------
(* Properties                                                               *)

\* For HTTP imposters a request that was recorded before a clearing request
\* began is gone for good once that request is answered: a recording under way
\* may bring it back between ClearRequests and ResetRequestCount, not after.
HttpStaysCleared == http => cleared \cap requests = {}

Quiet == mu = None /\ \A x \in Resetters : rpc[x] = "idle"

\* For HTTP imposters, whatever the recordings and clearings that overlapped,
\* numberOfRequests is the length of the list once they are over.
CountIsLength == http /\ Quiet => counter[current] = Cardinality(requests)

\* For the other protocols it may differ: requests that are recorded while the
\* list is empty and the old counter in use are listed and not counted, however
\* many they are.  But at most one request is counted and not listed: the one
\* that was stored before a clearing request and looked its counter up after.
CountAheadByOne == Quiet => counter[current] <= Cardinality(requests) + 1

\* What numberOfRequests says of the list when all is quiet: clearing resets the
\* two one after the other, recording stores and counts one after the other.
CountsAgree == CountIsLength /\ CountAheadByOne

\* Recording loses nothing: while no clearing request is under way the list
\* only grows, although each append stores a list that was read earlier.
NothingElseIsLost ==
  [][(\A x \in Resetters : rpc[x] = "idle" /\ rpc'[x] = "idle") => requests \subseteq requests']_vars

-----------------------------------------------------------------------------
(* The inductive invariant of the proofs                                    *)

\* The two locks are held exactly where the control points say.
Locks ==
  /\ \A h \in Handlers : pc[h] # "idle" <=> mu = h
  /\ \A x \in Resetters : rpc[x] = "counter" <=> repoMu = x

\* A request under way is in no history yet, and what a clearing request
\* answers for has been recorded before.
Fresh ==
  /\ \A h \in Handlers : pc[h] # "idle" => number[h] \in (1..arrived) \ done
  /\ \A h \in Handlers : pc[h] = "append" => number[h] \notin seen[h]
  /\ \A x \in Resetters : before[x] \subseteq done
  /\ cleared \subseteq done

\* Between reading and storing the list a handler holds the lock of the
\* server, so the list can only have been emptied; for HTTP it cannot have
\* been emptied by a request that was answered since.
ListIsKept ==
  \A h \in Handlers : pc[h] = "append" =>
    /\ requests \subseteq seen[h]
    /\ http => cleared \cap seen[h] = {}

\* Unless a clearing request is between the list and the counter, the counter is
\* at most one ahead of the list, the recording under way included.
CountBehindList ==
  repoMu = None =>
    /\ mu = None => counter[current] <= Cardinality(requests) + 1
    /\ \A h \in Handlers :
         /\ pc[h] = "append" => counter[current] <= Cardinality(seen[h]) + 1
         /\ pc[h] = "lookup" => counter[current] <= Cardinality(requests)
         /\ pc[h] = "count" =>
              IF address[h] = current THEN counter[current] <= Cardinality(requests)
                                      ELSE counter[current] <= Cardinality(requests) + 1

\* For HTTP, a recording that no clearing request overlaps counts in the
\* counter in use, for the list in use.
CountWithList ==
  http /\ (\A x \in Resetters : rpc[x] = "idle") =>
    /\ mu = None => counter[current] = Cardinality(requests)
    /\ \A h \in Handlers :
         /\ pc[h] = "append" => seen[h] = requests /\ counter[current] = Cardinality(requests)
         /\ pc[h] \in {"lookup", "count"} => counter[current] + 1 = Cardinality(requests)
         /\ pc[h] = "count" => address[h] = current

LogInv ==
  /\ TypeOK
  /\ Locks
  /\ Fresh
  /\ ListIsKept
  /\ CountBehindList
  /\ CountWithList
  /\ HttpStaysCleared
=============================================================================
