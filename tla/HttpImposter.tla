---------------------------- MODULE HttpImposter ----------------------------
(***************************************************************************)
(* One HTTP imposter at work: the requests that Server.ServeHTTP handles   *)
(* concurrently, the proxy responses that recordProxyStub saves as new     *)
(* stubs, and Server.Stop.  Nobody edits the stubs meanwhile: admin        *)
(* requests that do are the subject of StubEditing, where every access to  *)
(* the list is a step of its own.                                          *)
(*                                                                         *)
(* Recordings hold Server.mu, and the matcher reads the list without it.   *)
(* As recordings are then the only writers, recordProxyStub finds the same *)
(* list each time it reads it, and a stub that the matcher points to never *)
(* changes but for a response added to it: finding a stub and taking its   *)
(* response are one step.  Which response NextResponse picks is the        *)
(* subject of ResponseCycle; here it is any of them.                       *)
(***************************************************************************)
EXTENDS StubLists, SequencesExt, FiniteSets, FiniteSetsExt

CONSTANTS
  Handlers,      \* concurrent requests to the imposter
  InitialStubs,  \* lists of stubs an imposter is created with
  Defaults,      \* responses that may be its defaultResponse
  MaxReplies,    \* bound on the replies of the origin in a behaviour
  None,          \* nobody holds the lock
  Stop           \* Server.Stop, as holder of the lock

ASSUME HttpAssumption ==
  /\ AnyRequest \notin Requests
  /\ IsFiniteSet(Handlers)
  /\ None \notin Handlers
  /\ Stop \notin Handlers \cup {None}
  /\ InitialStubs \subseteq Seq(ConfiguredStub)
  /\ Defaults \subseteq Configured
  /\ MaxReplies \in Nat

VARIABLES
  stubs,      \* imposter.Stubs
  default,    \* imposter.DefaultResponse
  mu,         \* holder of Server.mu
  listening,  \* Server.started: the listener is open
  stopPc,     \* control point of Server.Stop
  pc,         \* control point of each handler
  req,        \* the request of each handler
  scan,       \* loop of Matcher.Match: next index, and length taken at the start
  match,      \* MatchResult: StubIndex (0 for none, else from 1) and response
  reply,      \* the reply of the origin that the handler holds, 0 for none
  base,       \* stubs as read by recordProxyStub
  answer,     \* the response each handler has given, none while it works
  replies,    \* history: request and proxy mode of each reply of the origin
  saved,      \* history: the replies whose recording is complete
  late        \* history: the handler began to match when a reply was saved

serverVars == <<mu, listening, stopPc>>
handlerVars == <<pc, req, scan, match, reply, base, answer, late>>
vars == <<stubs, default, serverVars, handlerVars, replies, saved>>

TypeOK ==
  /\ stubs \in Seq(Stub)
  /\ default \in Response
  /\ mu \in Handlers \cup {None, Stop}
  /\ listening \in BOOLEAN
  /\ stopPc \in {"ready", "waiting", "done", "timedOut"}
  /\ pc \in [Handlers -> {"idle", "record", "match", "scan", "forward", "save", "write"}]
  /\ req \in [Handlers -> Requests]
  /\ scan \in [Handlers -> [next : Nat, len : Nat]]
  /\ match \in [Handlers -> [index : Nat, response : Response]]
  /\ reply \in [Handlers -> 0..Len(replies)]
  /\ base \in [Handlers -> Seq(Stub)]
  /\ answer \in [Handlers -> Response]
  /\ late \in [Handlers -> BOOLEAN]
  /\ replies \in Seq([request : Requests, mode : Modes])
  /\ saved \subseteq 1..Len(replies)

-----------------------------------------------------------------------------
(* Server.ServeHTTP                                                         *)

NoScan == [next |-> 0, len |-> 0]

NoMatch == [index |-> 0, response |-> Empty]

\* The handler returns with response x; what it held is garbage.
Answer(h, x) ==
  /\ pc' = [pc EXCEPT ![h] = "idle"]
  /\ answer' = [answer EXCEPT ![h] = x]
  /\ scan' = [scan EXCEPT ![h] = NoScan]
  /\ match' = [match EXCEPT ![h] = NoMatch]
  /\ reply' = [reply EXCEPT ![h] = 0]
  /\ base' = [base EXCEPT ![h] = <<>>]
  /\ late' = [late EXCEPT ![h] = FALSE]
  /\ UNCHANGED req

\* A connection is accepted and its request parsed.
Receive(h) ==
  /\ pc[h] = "idle"
  /\ listening
  /\ \E r \in Requests : req' = [req EXCEPT ![h] = r]
  /\ pc' = [pc EXCEPT ![h] = "record"]
  /\ answer' = [answer EXCEPT ![h] = NoAnswer]
  /\ UNCHANGED <<stubs, default, serverVars, scan, match, reply, base, late, replies, saved>>

\* The request is recorded and counted under Server.mu.
RecordRequest(h) ==
  /\ pc[h] = "record"
  /\ mu = None
  /\ pc' = [pc EXCEPT ![h] = "match"]
  /\ UNCHANGED <<stubs, default, serverVars, req, scan, match, reply, base, answer, late,
                 replies, saved>>

\* A reply to request r has been saved by a proxy of the mode proxyOnce.
SavedFor(r) == \E n \in saved : replies[n] = [request |-> r, mode |-> "proxyOnce"]

\* Matcher.Match: the range clause takes the length of the list once ...
MatchBegin(h) ==
  /\ pc[h] = "match"
  /\ pc' = [pc EXCEPT ![h] = "scan"]
  /\ scan' = [scan EXCEPT ![h] = [next |-> 1, len |-> Len(stubs)]]
  /\ late' = [late EXCEPT ![h] = SavedFor(req[h])]
  /\ UNCHANGED <<stubs, default, serverVars, req, match, reply, base, answer, replies, saved>>

\* What ServeHTTP does with the response x of the stub at position i.
Respond(h, i, x) ==
  \/ /\ x.kind \notin Modes
     /\ Answer(h, x)
  \/ /\ x.kind \in Modes
     /\ pc' = [pc EXCEPT ![h] = "forward"]
     /\ match' = [match EXCEPT ![h] = [index |-> i, response |-> x]]
     /\ scan' = [scan EXCEPT ![h] = NoScan]
     /\ UNCHANGED <<req, reply, base, answer, late>>

\* ... and each turn of the loop takes a stub of the list as it is then, tests
\* its predicates and, if they match, takes its next response (a stub without
\* responses answers 200) ...
MatchFound(h) ==
  /\ pc[h] = "scan"
  /\ LET i == scan[h].next IN
       /\ i <= scan[h].len
       /\ i <= Len(stubs)
       /\ Matches(stubs[i], req[h])
       /\ IF stubs[i].responses = <<>>
          THEN Respond(h, i, Empty)
          ELSE \E k \in DOMAIN stubs[i].responses : Respond(h, i, stubs[i].responses[k])
  /\ UNCHANGED <<stubs, default, serverVars, replies, saved>>

\* ... one that does not ...
MatchNext(h) ==
  /\ pc[h] = "scan"
  /\ LET i == scan[h].next IN
       /\ i <= scan[h].len
       /\ i <= Len(stubs)
       /\ ~Matches(stubs[i], req[h])
       /\ scan' = [scan EXCEPT ![h].next = i + 1]
  /\ UNCHANGED <<stubs, default, serverVars, pc, req, match, reply, base, answer, late,
                 replies, saved>>

\* ... and after the last one the default response, or an empty 200.
MatchDefault(h) ==
  /\ pc[h] = "scan"
  /\ scan[h].next > scan[h].len
  /\ Respond(h, 0, default)
  /\ UNCHANGED <<stubs, default, serverVars, replies, saved>>

\* ProxyHandler.Execute: the origin replies.  In the mode proxyTransparent
\* nothing is recorded.
Forward(h) ==
  /\ pc[h] = "forward"
  /\ Len(replies) < MaxReplies
  /\ replies' = Append(replies, [request |-> req[h], mode |-> match[h].response.kind])
  /\ LET n == Len(replies) + 1 IN
       \/ /\ match[h].response.kind = "proxyTransparent"
          /\ Answer(h, Saved(n))
       \/ /\ match[h].response.kind # "proxyTransparent"
          /\ pc' = [pc EXCEPT ![h] = "save"]
          /\ reply' = [reply EXCEPT ![h] = n]
          /\ UNCHANGED <<req, scan, match, base, answer, late>>
  /\ UNCHANGED <<stubs, default, serverVars, saved>>

\* The origin cannot be reached, or a behavior of the response fails: the
\* handler answers with an error and records nothing.
ProxyFails(h) ==
  /\ pc[h] \in {"forward", "save"}
  /\ Answer(h, Error)
  /\ UNCHANGED <<stubs, default, serverVars, replies, saved>>

-----------------------------------------------------------------------------
(* Server.recordProxyStub                                                   *)

NewStub(h) == Generated(req[h], reply[h])

\* Mutant: off by one, behind the proxy stub.
InsertOnceBehind(s, i, x) == IF i \in 1..Len(s) THEN InsertAt(s, i + 1, x) ELSE s \o <<x>>

\* proxyOnce: before the proxy stub, or at the start when the proxy is the
\* default response or its index is past the end.
InsertOnce(s, i, x) == IF i \in 1..Len(s) THEN InsertAt(s, i, x) ELSE <<x>> \o s

\* proxyAlways: the stubs other than the proxy stub with the new predicates.
SameOn(s, i, x) == {j \in 1..Len(s) : j # i /\ s[j].on = x.on}

\* Mutant: the list is read without the lock.
SaveReadUnlocked(h) ==
  /\ pc[h] = "save"
  /\ mu' = h
  /\ pc' = [pc EXCEPT ![h] = "write"]
  /\ base' = [base EXCEPT ![h] = stubs]
  /\ UNCHANGED <<stubs, default, listening, stopPc, req, scan, match, reply, answer, late, replies, saved>>

SaveRead(h) ==
  /\ pc[h] = "save"
  /\ mu = None
  /\ mu' = h
  /\ pc' = [pc EXCEPT ![h] = "write"]
  /\ base' = [base EXCEPT ![h] = stubs]
  /\ UNCHANGED <<stubs, default, listening, stopPc, req, scan, match, reply, answer, late, replies, saved>>

\* The list is stored and the handler answers with the reply it has saved.
Recorded(h) ==
  /\ saved' = saved \cup {reply[h]}
  /\ Answer(h, Saved(reply[h]))

SaveOnce(h) ==
  /\ match[h].response.kind = "proxyOnce"
  /\ stubs' = InsertOnce(base[h], match[h].index, NewStub(h))
  /\ Recorded(h)

\* Mutant: the new stub is put in front of the proxy stub.
SaveAlwaysInFront(h) ==
  /\ match[h].response.kind = "proxyAlways"
  /\ stubs' = <<NewStub(h)>> \o base[h]
  /\ Recorded(h)

SaveAlways(h) ==
  LET same == SameOn(base[h], match[h].index, NewStub(h)) IN
  /\ match[h].response.kind = "proxyAlways"
  /\ \/ /\ same = {}
        /\ stubs' = Append(base[h], NewStub(h))
        /\ Recorded(h)
     \/ /\ same # {}
        /\ stubs' = [base[h] EXCEPT ![Min(same)].responses = Append(@, Saved(reply[h])),
                                    ![Min(same)].isProxyGenerated = TRUE]
        /\ Recorded(h)

SaveWrite(h) ==
  /\ pc[h] = "write"
  /\ mu' = None
  /\ SaveOnce(h) \/ SaveAlways(h)
  /\ UNCHANGED <<default, listening, stopPc, replies>>

-----------------------------------------------------------------------------
(* Server.Stop holds Server.mu while http.Server.Shutdown waits             *)

StopBegin ==
  /\ stopPc = "ready"
  /\ mu = None
  /\ mu' = Stop
  /\ listening' = FALSE
  /\ stopPc' = "waiting"
  /\ UNCHANGED <<stubs, default, handlerVars, replies, saved>>

StopDone ==
  /\ stopPc = "waiting"
  /\ \A h \in Handlers : pc[h] = "idle"
  /\ mu' = None
  /\ stopPc' = "done"
  /\ UNCHANGED <<stubs, default, listening, handlerVars, replies, saved>>

\* Mutant: Shutdown is called with a context that never ends.
StopWithoutTimeout ==
  /\ stopPc = "waiting"
  /\ \A h \in Handlers : pc[h] = "idle"
  /\ mu' = None
  /\ stopPc' = "timedOut"
  /\ UNCHANGED <<stubs, default, listening, handlerVars, replies, saved>>

\* Five seconds have passed (Manager.Stop, Manager.StopAll).
StopTimeout ==
  /\ stopPc = "waiting"
  /\ \E h \in Handlers : pc[h] # "idle"
  /\ mu' = None
  /\ stopPc' = "timedOut"
  /\ UNCHANGED <<stubs, default, listening, handlerVars, replies, saved>>

-----------------------------------------------------------------------------
Init ==
  /\ stubs \in InitialStubs
  /\ default \in Defaults
  /\ mu = None
  /\ listening = TRUE
  /\ stopPc = "ready"
  /\ pc = [h \in Handlers |-> "idle"]
  /\ \E r \in Requests : req = [h \in Handlers |-> r]
  /\ scan = [h \in Handlers |-> NoScan]
  /\ match = [h \in Handlers |-> NoMatch]
  /\ reply = [h \in Handlers |-> 0]
  /\ base = [h \in Handlers |-> <<>>]
  /\ answer = [h \in Handlers |-> NoAnswer]
  /\ late = [h \in Handlers |-> FALSE]
  /\ replies = <<>>
  /\ saved = {}

Serve(h) ==
  \/ RecordRequest(h)
  \/ MatchBegin(h)
  \/ MatchFound(h)
  \/ MatchNext(h)
  \/ MatchDefault(h)
  \/ Forward(h)
  \/ ProxyFails(h)
  \/ SaveRead(h)
  \/ SaveWrite(h)

StopStep == StopBegin \/ StopDone \/ StopTimeout

Next ==
  \/ \E h \in Handlers : Receive(h) \/ Serve(h)
  \/ StopStep

Spec == Init /\ [][Next]_vars

\* The Go scheduler runs every handler; a sync.Mutex that is contended is
\* handed over in order of arrival, so a handler that waits for it gets it if
\* it is free again and again; the forwarded request and Stop have timeouts.
FairSpec ==
  /\ Spec
  /\ \A h \in Handlers : SF_vars(Serve(h))
  /\ WF_vars(StopDone \/ StopTimeout)

-----------------------------------------------------------------------------
(* Properties                                                               *)

\* The places of the list that hold reply n.
Places(n) ==
  UNION {{i} \X {k \in 1..Len(stubs[i].responses) : stubs[i].responses[k] = Saved(n)} : i \in 1..Len(stubs)}

\* Requests that are recorded at the same time lose no reply and save none
\* twice: a reply whose recording is complete is in the list exactly once
\* (recordProxyStub copies or extends the list under Server.mu).
SavedOnce == \A n \in saved : Cardinality(Places(n)) = 1

\* "Proxy once, then replay from recorded stub" (PROGRESS.md:62): a request that
\* comes when a reply to one like it has been saved is not forwarded.
ReplayedOnceSaved == \A h \in Handlers : late[h] => pc[h] \notin {"forward", "save", "write"}

\* That holds while the default response is no proxy, even though the index at
\* which a reply is inserted was taken before other replies were: a stub that
\* moves out of the range of a loop under way is missed, and only a default
\* that records can then forward the request again.
SavedIsReplayed == default.kind \notin Modes => ReplayedOnceSaved

\* A reply that was saved by a proxyOnce stub is only ever given to a request
\* like the one that it answered.
AnsweredForOwnRequest ==
  \A h \in Handlers :
    LET given == answer[h] IN
      given.kind = "saved" /\ replies[given.id].mode = "proxyOnce"
        => replies[given.id].request = req[h]

\* No proxy of the imposter inserts stubs in front of others.
OnceFree ==
  /\ default.kind # "proxyOnce"
  /\ \A i \in 1..Len(stubs) : \A k \in 1..Len(stubs[i].responses) :
       stubs[i].responses[k].kind # "proxyOnce"

\* proxyAlways: the replies to one request are gathered in one stub, unless
\* proxies that record once shift the list under the index of the proxy stub.
RepliesGrouped ==
  OnceFree =>
    \A m, n \in saved :
      replies[m] = replies[n] /\ replies[m].mode = "proxyAlways"
        => \A x \in Places(m), y \in Places(n) : x[1] = y[1]

\* Every request that has been received is answered, although Stop waits for it
\* with the lock that it needs to record itself or its reply: the five seconds
\* of Manager.Stop break the circle.
RequestsAnswered == \A h \in Handlers : pc[h] # "idle" ~> pc[h] = "idle"

-----------------------------------------------------------------------------
(* The inductive invariants of the proofs.  A list of stubs lives in two     *)
(* places: the imposter and the recordings under way.                        *)

\* No reply is in list L twice.
OnceOnly(L) ==
  \A i, j \in 1..Len(L) : \A k \in 1..Len(L[i].responses), l \in 1..Len(L[j].responses) :
    L[i].responses[k].kind = "saved" /\ L[i].responses[k] = L[j].responses[l] => i = j /\ k = l

\* Response x of a stub for requests on is canned, or a reply of rs that no
\* handler has still to save; one of proxyOnce is in a stub for its request.
KnownReply(x, on, rs, held) ==
  x.kind = "saved" =>
    /\ x.id \in 1..Len(rs)
    /\ x.id \notin held
    /\ rs[x.id].mode = "proxyOnce" => on = rs[x.id].request

Known(L, rs, held) ==
  \A i \in 1..Len(L) : \A k \in 1..Len(L[i].responses) :
    KnownReply(L[i].responses[k], L[i].on, rs, held)

GoodList(L, rs, held) == L \in Seq(Stub) /\ OnceOnly(L) /\ Known(L, rs, held)

Holding(h) == pc[h] \in {"save", "write"}

Held == {reply[h] : h \in {g \in Handlers : Holding(g)}}

Lists ==
  /\ GoodList(stubs, replies, Held)
  /\ \A h \in Handlers : GoodList(base[h], replies, Held)

\* A handler that forwards has a proxy; one that saves has the reply to its own
\* request, and no other handler has that reply.
Holders ==
  /\ \A h \in Handlers : pc[h] \in {"forward", "save", "write"} => match[h].response.kind \in Modes
  /\ \A h \in Handlers : Holding(h) =>
       /\ reply[h] \in 1..Len(replies)
       /\ replies[reply[h]] = [request |-> req[h], mode |-> match[h].response.kind]
  /\ \A g, h \in Handlers : Holding(g) /\ Holding(h) /\ reply[g] = reply[h] => g = h

AnswersKnown ==
  \A h \in Handlers : answer[h].kind = "saved" => answer[h].id \in 1..Len(replies)

\* The loop over the stubs is at one of them or at its end.
Scans == \A h \in Handlers : pc[h] = "scan" => scan[h].next \in 1..scan[h].len + 1

HttpInv ==
  /\ TypeOK
  /\ default \in Configured
  /\ Lists
  /\ Scans
  /\ Holders
  /\ AnswersKnown
  /\ AnsweredForOwnRequest

\* The lock of the server protects the list.
Locked ==
  /\ \A h \in Handlers : pc[h] = "write" <=> mu = h
  /\ stopPc = "waiting" <=> mu = Stop
  /\ \A h \in Handlers : pc[h] = "write" => base[h] = stubs

InList(n) ==
  \E i \in 1..Len(stubs) : \E k \in 1..Len(stubs[i].responses) : stubs[i].responses[k] = Saved(n)

NoneIsLost == \A n \in saved : InList(n)

ProxyFree(stub) == \A k \in 1..Len(stub.responses) : stub.responses[k].kind \notin Modes

\* Before position i of list L no proxy gets request r.
ClearBefore(L, r, i) == \A j \in 1..Len(L) : j < i /\ Matches(L[j], r) => ProxyFree(L[j])

\* From position m on there is a stub for r, and up to it no proxy gets r.
ReplayFrom(L, r, m) ==
  \E q \in 1..Len(L) : m <= q /\ Matches(L[q], r) /\ ClearBefore(L, r, q + 1)

\* No proxy gets the request of h before the stub that h is at or has found; if
\* the request came late, one that replays is still ahead.
ReplaysAt(h) ==
  /\ pc[h] = "scan" => ClearBefore(stubs, req[h], scan[h].next)
  /\ pc[h] = "scan" /\ late[h] => ReplayFrom(stubs, req[h], scan[h].next)
  /\ pc[h] \in {"forward", "save", "write"} => ClearBefore(stubs, req[h], match[h].index)

Replays ==
  /\ \A r \in Requests : SavedFor(r) => ReplayFrom(stubs, r, 1)
  /\ \A h \in Handlers : ReplaysAt(h)

\* The stub at position i is the proxy that gets request r, or none gets it and
\* i is 0.
ProxyIndex(L, i, r) ==
  \/ i = 0 /\ \A j \in 1..Len(L) : Matches(L[j], r) => ProxyFree(L[j])
  \/ /\ i \in 1..Len(L)
     /\ Matches(L[i], r) /\ ~ProxyFree(L[i])
     /\ \A j \in 1..Len(L) : j < i => ~Matches(L[j], r)

\* The stub at position j is the one that gathers the replies to r.
Gathers(L, j, r) ==
  \E i \in 0..Len(L) :
    /\ ProxyIndex(L, i, r)
    /\ j # i /\ L[j].on = r
    /\ \A l \in 1..Len(L) : l < j => l = i \/ L[l].on # r

\* While h scans the list it can only grow at its end, by stubs without proxies;
\* the stub that h has found is the proxy that gets its request.
GroupsAt(h) ==
  /\ pc[h] = "scan" =>
       /\ scan[h].len <= Len(stubs)
       /\ \A j \in 1..Len(stubs) :
            /\ j < scan[h].next => ~Matches(stubs[j], req[h])
            /\ j > scan[h].len => ProxyFree(stubs[j])
  /\ pc[h] \in {"forward", "save", "write"} =>
       /\ match[h].response.kind # "proxyOnce"
       /\ ProxyIndex(stubs, match[h].index, req[h])

\* Every reply of proxyAlways is in the stub that gathers the replies like it.
Gathered ==
  \A i \in 1..Len(stubs) : \A k \in 1..Len(stubs[i].responses) :
    LET x == stubs[i].responses[k] IN
      x.kind = "saved" /\ replies[x.id].mode = "proxyAlways" => Gathers(stubs, i, replies[x.id].request)

Groups == OnceFree => Gathered /\ \A h \in Handlers : GroupsAt(h)

RecordInv ==
  /\ HttpInv
  /\ Locked
  /\ NoneIsLost
  /\ Replays
  /\ SavedIsReplayed
  /\ Groups
=============================================================================
