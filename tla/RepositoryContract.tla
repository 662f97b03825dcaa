------------------------- MODULE RepositoryContract -------------------------
(***************************************************************************)
(* What a repository promises to the readers of imposters, also to one     *)
(* that comes after a crash: the operations of the in-memory repository,   *)
(* each one step, and as little else as files allow.  A call that takes    *)
(* files away (Delete, DeleteAll, UpdateStubs) may make its own imposter   *)
(* unreadable until it has finished; DELETE requests makes it unreadable;  *)
(* of an unreadable imposter nothing is promised but that reading it is an *)
(* error until a stub of it is deleted, or all are replaced.  Each step    *)
(* belongs to its own call.  A crash is no step: it only ends a call.      *)
(***************************************************************************)
EXTENDS Naturals, Sequences, SequencesExt

CONSTANTS
  Ports,   \* ports of imposters
  Stubs,   \* stubs
  Lists,   \* lists of stubs in a call
  None,    \* no imposter
  Broken   \* an imposter that cannot be read

VARIABLES
  imposters,  \* what a reader finds on each port
  taking,     \* at most one: the port whose files are taken away, and what it is to be
  call        \* the call under way, or "none"

contractVars == <<imposters, taking, call>>

Calls == {"none", "Add", "UpdateStubs", "AddStub", "DeleteStub", "Delete", "DeleteAll"}

\* The call goes on, or has returned.
Continues == call' \in {call, "none"}

\* A stub as it should be read.
Read(s) == [predicates |-> s, responses |-> s]

ReadList(list) == [i \in 1..Len(list) |-> Read(list[i])]

\* Predicates of one stub may have met responses of another.
AnyList == Seq([predicates : Stubs, responses : Stubs])

Readable(p) == imposters[p] \notin {None, Broken}

Becomes(p, v) == imposters' = [imposters EXCEPT ![p] = v]

Add(p) ==
  /\ call = "Add" /\ Continues
  /\ taking = {} /\ imposters[p] = None
  /\ \E list \in Lists : Becomes(p, ReadList(list))
  /\ UNCHANGED taking

\* A new stub at index i of list v, or at its end.
Put(v, i, s) == IF i >= Len(v) THEN Append(v, Read(s)) ELSE InsertAt(v, i + 1, Read(s))

AddStub(p) ==
  /\ call = "AddStub" /\ Continues
  /\ taking = {} /\ Readable(p)
  /\ \E s \in Stubs, i \in 0..Len(imposters[p]) : Becomes(p, Put(imposters[p], i, s))
  /\ UNCHANGED taking

DeleteStub(p) ==
  /\ call = "DeleteStub" /\ Continues
  /\ taking = {} /\ Readable(p)
  /\ \E i \in 0..Len(imposters[p]) - 1 : Becomes(p, RemoveAt(imposters[p], i + 1))
  /\ UNCHANGED taking

\* ClearRequestsAndProxyStubs, of an imposter that has stubs.
Clear(p) ==
  /\ call = "none" /\ UNCHANGED call
  /\ taking = {} /\ imposters[p] \notin {None, <<>>}
  /\ Becomes(p, Broken)
  /\ UNCHANGED taking

\* UpdateStubs, or a call after which there is no imposter, begins to take files
\* away: Delete, DeleteAll, an Add that has failed, DeleteStub of an unreadable stub.
Take(p) ==
  /\ call \in {"none", call'}
  /\ taking = {}
  /\ \/ /\ call' = "UpdateStubs" /\ imposters[p] # None
        /\ \E list \in Lists : taking' = {[port |-> p, goal |-> ReadList(list)]}
     \/ /\ call' \in {"Add", "DeleteStub", "Delete", "DeleteAll"}
        /\ taking' = {[port |-> p, goal |-> None]}
  /\ UNCHANGED imposters

\* A file of the imposter has gone.
Lose ==
  \E t \in taking :
    /\ imposters[t.port] # None
    /\ Becomes(t.port, Broken) \/ (t.goal = None /\ Becomes(t.port, None))
    /\ UNCHANGED <<taking, call>>

Finish == Continues /\ \E t \in taking : Becomes(t.port, t.goal) /\ taking' = {}

\* The call has ended early.
CutShort == taking # {} /\ taking' = {} /\ call' = "none" /\ UNCHANGED imposters

\* A call begins, returns or does what no reader sees.
Unseen ==
  /\ call' \in Calls /\ (call = "none" \/ Continues)
  /\ UNCHANGED <<imposters, taking>>

\* A stub of an unreadable imposter is deleted, perhaps the one that could not
\* be read.
Salvage(p) ==
  /\ call = "DeleteStub" /\ Continues
  /\ imposters[p] = Broken /\ imposters'[p] \in AnyList
  /\ Becomes(p, imposters'[p])
  /\ \A t \in taking : t.port = p /\ t.goal = None
  /\ UNCHANGED taking

ContractInit == imposters = [p \in Ports |-> None] /\ taking = {} /\ call = "none"

ContractNext ==
  \/ \E p \in Ports : Add(p) \/ AddStub(p) \/ DeleteStub(p) \/ Clear(p) \/ Take(p) \/ Salvage(p)
  \/ Lose \/ Finish \/ CutShort \/ Unseen

ContractSpec == ContractInit /\ [][ContractNext]_contractVars
=============================================================================
