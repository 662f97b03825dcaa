---------------------------- MODULE StubEditing ----------------------------
(***************************************************************************)
(* The stubs of one HTTP imposter in memory, while requests match and      *)
(* record and admin requests edit: HttpImposter without Server.Stop, and   *)
(* at the granularity of the single reads and writes of imposter.Stubs.    *)
(*                                                                         *)
(* A list is a Go slice: a backing array and a length.  An append that     *)
(* fits, AddStub and DeleteStub write to the array that others hold; all   *)
(* other changes make a new one.  A recording holds Server.mu, an edit the *)
(* lock of the repository, and a request that matches holds neither, only  *)
(* a pointer to a slot.  A stub and a slice header are read and written as *)
(* a whole.                                                                *)
(***************************************************************************)
EXTENDS StubLists, SequencesExt, FiniteSets

CONSTANTS
  Handlers,      \* concurrent requests to the imposter
  Editors,       \* concurrent admin requests that edit its stubs
  InitialStubs,  \* lists of stubs an imposter is created with
  Defaults,      \* responses that may be its defaultResponse
  Edits,         \* what an admin request does: sequences of repository calls
  Spare,         \* bound on the slots that a new array has beyond its content
  MaxReplies,    \* bound on the replies of the origin in a behaviour
  MaxEdits,      \* bound on the admin requests in a behaviour
  None           \* nobody holds the lock

\* One call of the repository.  An index counts from 0, as in the code; add
\* with an index beyond the list appends, as -1 does in the code.
Edit ==
  [op : {"add"}, index : Nat, stub : ConfiguredStub]
    \cup [op : {"delete"}, index : Nat]
    \cup [op : {"update"}, stubs : Seq(ConfiguredStub)]
    \cup [op : {"clear"}]

ASSUME EditingAssumption ==
  /\ AnyRequest \notin Requests
  /\ None \notin Handlers \cup Editors
  /\ InitialStubs \subseteq Seq(ConfiguredStub)
  /\ Defaults \subseteq Configured
  /\ Edits \subseteq Seq(Edit)
  /\ {Spare, MaxReplies, MaxEdits} \subseteq Nat

VARIABLES
  heap,     \* the backing arrays, each with all the slots of its capacity
  list,     \* imposter.Stubs
  default,  \* imposter.DefaultResponse
  mu,       \* holder of Server.mu
  repoMu,   \* holder of the lock of the repository
  pc,       \* control point of each handler
  req,      \* the request of each handler
  scan,     \* loop of Matcher.Match: next index, and length taken at the start
  at,       \* stub: the array and the index that the pointer of a handler is to
  match,    \* MatchResult: StubIndex (0 for none, else from 1) and response
  reply,    \* the reply of the origin that the handler holds, 0 for none
  rec,      \* recordProxyStub: index of its loop, the length taken at the start,
            \* what it has read of a list or of responses, the list to store
  epc,      \* control point of each editor
  todo,     \* repository calls each editor has still to make
  work,     \* the call under way: array of the first slice, tail read, list to store
  edits,    \* number of admin requests begun
  replies,  \* history: request and proxy mode of each reply of the origin
  moved,    \* history: an edit wrote to the array under the pointer of a
            \* handler, between its predicates and its NextResponse
  shifted   \* history: an edit that shifts stubs overlapped a recording

matchVars == <<pc, req, scan, at, match, moved>>
editVars == <<repoMu, epc, todo, work, edits>>
vars == <<heap, list, default, mu, matchVars, reply, rec, editVars, replies, shifted>>

NoList == [array |-> 0, len |-> 0]

NoScan == [next |-> 0, len |-> 0]

NoPointer == [array |-> 0, index |-> 0]

NoMatch == [index |-> 0, response |-> Empty]

NoRecording == [next |-> 0, len |-> 0, seen |-> <<>>, list |-> NoList]

NoWork == [array |-> 0, tail |-> <<>>, list |-> NoList]

-----------------------------------------------------------------------------
(* Slices                                                                   *)

\* The zero value of a Stub, as in the spare slots of a new array.
Blank == [on |-> AnyRequest, responses |-> <<>>, isProxyGenerated |-> FALSE]

\* The stubs i..j of slice s.
Slice(s, i, j) == SubSeq(heap[s.array], i, j)

Whole(s) == Slice(s, 1, s.len)

\* A new array with content xs, and with a spare capacity of spares.
Allocated(xs, spares) ==
  {[heap |-> Append(heap, xs \o [i \in 1..n |-> Blank]),
    list |-> [array |-> Len(heap) + 1, len |-> Len(xs)]] : n \in spares}

\* append(s, xs...) for the slice s of the first n slots of array a: in place if
\* the capacity suffices, else in a new array.
Appended(a, n, xs) ==
  IF n + Len(xs) <= Len(heap[a])
  THEN {[heap |-> [heap EXCEPT ![a] = [i \in DOMAIN @ |-> IF i \in n + 1..n + Len(xs) THEN xs[i - n] ELSE @[i]]],
         list |-> [array |-> a, len |-> n + Len(xs)]]}
  ELSE Allocated(SubSeq(heap[a], 1, n) \o xs, 0..Spare)

-----------------------------------------------------------------------------
(* Server.ServeHTTP and Matcher.Match                                       *)

Goto(h, point) == pc' = [pc EXCEPT ![h] = point]

\* The handler returns, or panics, which closes the connection.
Answer(h) ==
  /\ Goto(h, "idle")
  /\ req' = [req EXCEPT ![h] = None]
  /\ scan' = [scan EXCEPT ![h] = NoScan]
  /\ at' = [at EXCEPT ![h] = NoPointer]
  /\ match' = [match EXCEPT ![h] = NoMatch]
  /\ moved' = [moved EXCEPT ![h] = FALSE]

\* The request is accepted, recorded and counted, and the range clause takes
\* the length of the list once ...
MatchBegin(h) ==
  /\ pc[h] = "idle"
  /\ Goto(h, "scan")
  /\ \E r \in Requests : req' = [req EXCEPT ![h] = r]
  /\ scan' = [scan EXCEPT ![h] = [next |-> 1, len |-> list.len]]
  /\ UNCHANGED <<heap, list, default, mu, at, match, moved, reply, rec, editVars, replies, shifted>>

\* ... each turn of the loop takes a pointer into the list as it is then ...
MatchStub(h) ==
  /\ pc[h] = "scan"
  /\ scan[h].next <= scan[h].len
  /\ scan[h].next <= list.len
  /\ Goto(h, "test")
  /\ at' = [at EXCEPT ![h] = [array |-> list.array, index |-> scan[h].next]]
  /\ UNCHANGED <<heap, list, default, mu, req, scan, match, moved, reply, rec, editVars,
                 replies, shifted>>

Pointee(h) == heap[at[h].array][at[h].index]

\* ... the predicates of the stub under it are evaluated ...
MatchTest(h) ==
  /\ pc[h] = "test"
  /\ \/ /\ Matches(Pointee(h), req[h])
        /\ Goto(h, "choose")
        /\ UNCHANGED <<scan, at>>
     \/ /\ ~Matches(Pointee(h), req[h])
        /\ Goto(h, "scan")
        /\ scan' = [scan EXCEPT ![h].next = @ + 1]
        /\ at' = [at EXCEPT ![h] = NoPointer]
  /\ UNCHANGED <<heap, list, default, mu, req, match, moved, reply, rec, editVars, replies, shifted>>

\* What ServeHTTP does with response x of the stub at position i.
Respond(h, i, x) ==
  \/ /\ x.kind \notin Modes
     /\ Answer(h)
  \/ /\ x.kind \in Modes
     /\ Goto(h, "forward")
     /\ match' = [match EXCEPT ![h] = [index |-> i, response |-> x]]
     /\ scan' = [scan EXCEPT ![h] = NoScan]
     /\ at' = [at EXCEPT ![h] = NoPointer]
     /\ UNCHANGED <<req, moved>>

\* ... and one of its responses is taken (ResponseCycle says which), or none
\* that is there any more if an edit has written to the stub.
MatchChoose(h) ==
  /\ pc[h] = "choose"
  /\ \/ /\ Pointee(h).responses = <<>>
        /\ Respond(h, at[h].index, Empty)
     \/ \E k \in DOMAIN Pointee(h).responses : Respond(h, at[h].index, Pointee(h).responses[k])
     \/ /\ moved[h]
        /\ Answer(h)
  /\ UNCHANGED <<heap, list, default, mu, reply, rec, editVars, replies, shifted>>

\* An index past the end of a list that has become shorter panics.
MatchPanics(h) ==
  /\ pc[h] = "scan"
  /\ scan[h].next <= scan[h].len
  /\ scan[h].next > list.len
  /\ Answer(h)
  /\ UNCHANGED <<heap, list, default, mu, reply, rec, editVars, replies, shifted>>

\* After the last stub the default response is taken.
MatchDefault(h) ==
  /\ pc[h] = "scan"
  /\ scan[h].next > scan[h].len
  /\ Respond(h, 0, default)
  /\ UNCHANGED <<heap, list, default, mu, reply, rec, editVars, replies, shifted>>

\* ProxyHandler.Execute: the origin replies.
Forward(h) ==
  /\ pc[h] = "forward"
  /\ Len(replies) < MaxReplies
  /\ replies' = Append(replies, [request |-> req[h], mode |-> match[h].response.kind])
  /\ LET n == Len(replies) + 1 IN
       \/ /\ match[h].response.kind = "proxyTransparent"
          /\ Answer(h)
          /\ UNCHANGED reply
       \/ /\ match[h].response.kind # "proxyTransparent"
          /\ Goto(h, "save")
          /\ reply' = [reply EXCEPT ![h] = n]
          /\ UNCHANGED <<req, scan, at, match, moved>>
  /\ UNCHANGED <<heap, list, default, mu, rec, editVars, shifted>>

\* The origin cannot be reached, or a behavior of the response fails: the
\* handler answers with an error and records nothing.
ProxyFails(h) ==
  /\ pc[h] \in {"forward", "save"}
  /\ Answer(h)
  /\ reply' = [reply EXCEPT ![h] = 0]
  /\ UNCHANGED <<heap, list, default, mu, rec, editVars, replies, shifted>>

-----------------------------------------------------------------------------
(* Server.recordProxyStub, with Server.mu held.  Every step reads           *)
(* imposter.Stubs again.                                                    *)

NewStub(h) == Generated(req[h], reply[h])

\* recordProxyStub returns, or panics: the lock is released by a deferred call.
Leave(h) ==
  /\ mu' = None
  /\ rec' = NoRecording
  /\ reply' = [reply EXCEPT ![h] = 0]
  /\ Answer(h)

\* The next read is past the end of the list as it is now; a slice may reach
\* beyond its length, up to its capacity.
Overrun(h) ==
  \/ pc[h] = "prefix" /\ match[h].index - 1 > Len(heap[list.array])
  \/ pc[h] = "suffix" /\ match[h].index - 1 > list.len
  \/ pc[h] = "same" /\ rec.next \in list.len + 1..rec.len /\ rec.next # match[h].index
  \/ pc[h] \in {"extend", "assign", "mark"} /\ rec.next > list.len

RecordPanics(h) ==
  /\ Overrun(h)
  /\ Leave(h)
  /\ UNCHANGED <<heap, list>>

\* A step of the recording that changes nothing but where it is and what it holds.
Record(h, point, r) ==
  /\ Goto(h, point)
  /\ rec' = r
  /\ UNCHANGED <<heap, list, mu, req, scan, at, match, moved, reply>>

\* The list to store is made, in an array that nobody else sees yet.
Make(h, xs, spares) ==
  /\ \E r \in Allocated(xs, spares) :
       /\ heap' = r.heap
       /\ rec' = [NoRecording EXCEPT !.list = r.list]
  /\ Goto(h, "keep")
  /\ UNCHANGED <<list, mu, req, scan, at, match, moved, reply>>

Shifting(e) == epc[e] \in {"insert", "tail", "shift", "delete", "close", "store"}

\* The lock is taken and the length is read: is the index of the proxy stub in
\* the list?
SaveBegin(h) ==
  /\ pc[h] = "save"
  /\ mu = None
  /\ mu' = h
  /\ shifted' = (shifted \/ \E e \in Editors : Shifting(e))
  /\ \/ /\ match[h].response.kind = "proxyOnce"
        /\ Goto(h, IF match[h].index \in 1..list.len THEN "prefix" ELSE "front")
        /\ UNCHANGED rec
     \/ /\ match[h].response.kind = "proxyAlways"
        /\ Goto(h, "same")
        /\ rec' = [NoRecording EXCEPT !.next = 1, !.len = list.len]
  /\ UNCHANGED <<heap, list, default, req, scan, at, match, moved, reply, editVars, replies>>

\* proxyOnce: a new list with the stubs before the proxy stub, the new stub ...
CopyPrefix(h) ==
  /\ pc[h] = "prefix"
  /\ Record(h, "suffix", [rec EXCEPT !.len = list.len + 1,
                                     !.seen = Append(Slice(list, 1, match[h].index - 1), NewStub(h))])

\* Mutant: the new stub is inserted in place, as AddStub does.
CopySuffixInPlace(h) ==
  /\ pc[h] = "suffix"
  /\ \E r \in Appended(list.array, match[h].index - 1, <<NewStub(h)>> \o Slice(list, match[h].index, list.len)) :
       /\ heap' = r.heap
       /\ rec' = [NoRecording EXCEPT !.list = r.list]
  /\ Goto(h, "keep")
  /\ UNCHANGED <<list, mu, req, scan, at, match, moved, reply>>

\* ... and the stubs from there on;
CopySuffix(h) ==
  LET xs == rec.seen \o Slice(list, match[h].index, list.len) IN
  /\ pc[h] = "suffix"
  /\ Make(h, xs, IF Len(xs) <= rec.len THEN {rec.len - Len(xs)} ELSE 0..Spare)

\* or, if there is no such index, a new list that starts with the new stub.
CopyFront(h) ==
  /\ pc[h] = "front"
  /\ Make(h, <<NewStub(h)>> \o Whole(list), 0..Spare)

\* proxyAlways: the first other stub with the predicates of the new one ...
FindSame(h) ==
  /\ pc[h] = "same"
  /\ Record(h,
       CASE rec.next > rec.len -> "append"
         [] rec.next <= rec.len /\ rec.next # match[h].index /\ heap[list.array][rec.next].on = req[h] -> "extend"
         [] OTHER -> "same",
       [rec EXCEPT !.next = IF pc'[h] = "same" THEN @ + 1 ELSE @])

\* ... has its responses read ...
ReadResponses(h) ==
  /\ pc[h] = "extend"
  /\ Record(h, "assign", [rec EXCEPT !.seen = Append(heap[list.array][rec.next].responses, Saved(reply[h]))])

\* ... and written back with the new one ...
AssignResponses(h) ==
  /\ pc[h] = "assign"
  /\ heap' = [heap EXCEPT ![list.array][rec.next].responses = rec.seen]
  /\ Goto(h, "mark")
  /\ UNCHANGED <<list, mu, req, scan, at, match, moved, reply, rec>>


\* ... and is marked as generated.  The loop ends there.
MarkGenerated(h) ==
  /\ pc[h] = "mark"
  /\ heap' = [heap EXCEPT ![list.array][rec.next].isProxyGenerated = TRUE]
  /\ Leave(h)
  /\ UNCHANGED list

\* If there is none the new stub is appended to the list.
AppendGenerated(h) ==
  /\ pc[h] = "append"
  /\ \E r \in Appended(list.array, list.len, <<NewStub(h)>>) :
       /\ heap' = r.heap
       /\ rec' = [rec EXCEPT !.list = r.list]
  /\ Goto(h, "keep")
  /\ UNCHANGED <<list, mu, req, scan, at, match, moved, reply>>

\* The list is stored, and the handler answers with the reply it has saved.
StoreRecorded(h) ==
  /\ pc[h] = "keep"
  /\ list' = rec.list
  /\ Leave(h)
  /\ UNCHANGED heap

RecordStep(h) ==
  /\ \/ RecordPanics(h)
     \/ /\ ~Overrun(h)
        /\ \/ CopyPrefix(h) \/ CopySuffix(h) \/ CopyFront(h)
           \/ FindSame(h) \/ ReadResponses(h) \/ AssignResponses(h) \/ MarkGenerated(h)
           \/ AppendGenerated(h) \/ StoreRecorded(h)
  /\ UNCHANGED <<default, editVars, replies, shifted>>

-----------------------------------------------------------------------------
(* Admin requests that edit the stubs                                       *)

Op(e) == Head(todo[e])

EditGoto(e, point) == epc' = [epc EXCEPT ![e] = point]

\* The call returns: the lock is released by a deferred call.
CallEnds(e) ==
  /\ repoMu' = None
  /\ EditGoto(e, "idle")
  /\ todo' = [todo EXCEPT ![e] = Tail(@)]
  /\ work' = [work EXCEPT ![e] = NoWork]

\* A handler begins.  PUT of one stub checks its index first, and is then a
\* delete followed by an add.
EditBegin(e) ==
  /\ todo[e] = <<>>
  /\ edits < MaxEdits
  /\ edits' = edits + 1
  /\ \E s \in Edits :
       /\ Len(s) > 1 => s[1].index < list.len
       /\ todo' = [todo EXCEPT ![e] = s]
  /\ UNCHANGED <<heap, list, repoMu, epc, work, moved, shifted>>

\* The edit has written to an array, perhaps under the pointer of a request, and
\* the list it will store is ready.
Prepare(e, r, point) ==
  /\ heap' = r.heap
  /\ work' = [work EXCEPT ![e].list = r.list]
  /\ EditGoto(e, point)
  /\ moved' = [h \in Handlers |->
                 moved[h] \/ (pc[h] = "choose" /\ heap'[at[h].array] # heap[at[h].array])]
  /\ UNCHANGED <<list, repoMu, todo, edits>>

\* A call starts with the lock of the repository.
Locks(e, op) ==
  /\ epc[e] = "idle"
  /\ todo[e] # <<>>
  /\ Op(e).op = op
  /\ repoMu = None

\* The list to store is made, in an array that nobody else sees yet.
NewList(e, xs, spares) ==
  /\ repoMu' = e
  /\ EditGoto(e, "put")
  /\ \E r \in Allocated(xs, spares) :
       /\ heap' = r.heap
       /\ work' = [work EXCEPT ![e].list = r.list]
  /\ UNCHANGED <<list, todo, edits, moved, shifted>>

UpdateStubs(e) == Locks(e, "update") /\ NewList(e, Op(e).stubs, 0..Spare)

\* ClearRequestsAndProxyStubs copies what was not recorded.
ClearProxyStubs(e) ==
  LET kept == SelectSeq(Whole(list), LAMBDA s : ~s.isProxyGenerated)
  IN Locks(e, "clear") /\ NewList(e, kept, {list.len - Len(kept)})

\* AddStub and DeleteStub compare the index with the length.
AddBegin(e) ==
  /\ Locks(e, "add")
  /\ repoMu' = e
  /\ EditGoto(e, IF Op(e).index < list.len THEN "insert" ELSE "append")
  /\ shifted' = (shifted \/ (mu # None /\ Op(e).index < list.len))
  /\ UNCHANGED <<heap, list, todo, work, edits, moved>>

DeleteBegin(e) ==
  /\ Locks(e, "delete")
  /\ \/ /\ Op(e).index < list.len
        /\ repoMu' = e
        /\ EditGoto(e, "delete")
        /\ shifted' = (shifted \/ mu # None)
        /\ UNCHANGED <<todo, work>>
     \/ /\ Op(e).index >= list.len
        /\ CallEnds(e)
        /\ UNCHANGED shifted
  /\ UNCHANGED <<heap, list, edits, moved>>

\* AddStub behind the last stub ...
AddAppend(e) ==
  /\ epc[e] = "append"
  /\ \E r \in Appended(list.array, list.len, <<Op(e).stub>>) : Prepare(e, r, "put")

\* ... or before another one: the slice of the stubs before it is taken (as is
\* that of DeleteStub) ...
FirstSlice(e) ==
  /\ epc[e] \in {"insert", "delete"}
  /\ work' = [work EXCEPT ![e].array = list.array]
  /\ EditGoto(e, IF epc[e] = "insert" THEN "tail" ELSE "close")
  /\ UNCHANGED <<heap, list, repoMu, todo, edits, moved>>

\* ... the others are copied behind the new one ...
AddTail(e) ==
  /\ epc[e] = "tail"
  /\ work' = [work EXCEPT ![e].tail = <<Op(e).stub>> \o Slice(list, Op(e).index + 1, list.len)]
  /\ EditGoto(e, "shift")
  /\ UNCHANGED <<heap, list, repoMu, todo, edits, moved>>

\* ... and appended to the slice: in place, if there is room.
AddShift(e) ==
  /\ epc[e] = "shift"
  /\ \E r \in Appended(work[e].array, Op(e).index, work[e].tail) : Prepare(e, r, "store")

\* DeleteStub appends the stubs behind the index to the slice: in place, too.
DeleteShift(e) ==
  /\ epc[e] = "close"
  /\ \E r \in Appended(work[e].array, Op(e).index, Slice(list, Op(e).index + 2, list.len)) :
       Prepare(e, r, "store")

\* The next read is past the end of the list as it is now.  The panic ends the
\* admin request, and a deferred call releases the lock.
EditOverrun(e) ==
  \/ epc[e] \in {"insert", "delete"} /\ Op(e).index > Len(heap[list.array])
  \/ epc[e] = "tail" /\ Op(e).index > list.len
  \/ epc[e] = "close" /\ Op(e).index + 1 > list.len

EditPanics(e) ==
  /\ EditOverrun(e)
  /\ repoMu' = None
  /\ EditGoto(e, "idle")
  /\ todo' = [todo EXCEPT ![e] = <<>>]
  /\ work' = [work EXCEPT ![e] = NoWork]
  /\ UNCHANGED <<heap, list, edits, moved>>

StoreEdited(e) ==
  /\ epc[e] \in {"put", "store"}
  /\ list' = work[e].list
  /\ CallEnds(e)
  /\ UNCHANGED <<heap, edits, moved>>

EditStep(e) ==
  /\ \/ EditBegin(e) \/ UpdateStubs(e) \/ ClearProxyStubs(e) \/ AddBegin(e) \/ DeleteBegin(e)
     \/ /\ \/ EditPanics(e)
           \/ /\ ~EditOverrun(e)
              /\ AddAppend(e) \/ FirstSlice(e) \/ AddTail(e) \/ AddShift(e) \/ DeleteShift(e) \/ StoreEdited(e)
        /\ UNCHANGED shifted
  /\ UNCHANGED <<default, mu, pc, req, scan, at, match, reply, rec, replies>>

-----------------------------------------------------------------------------
Init ==
  /\ \E s \in InitialStubs, n \in 0..Spare :
       /\ heap = <<s \o [i \in 1..n |-> Blank]>>
       /\ list = [array |-> 1, len |-> Len(s)]
  /\ default \in Defaults
  /\ mu = None
  /\ repoMu = None
  /\ pc = [h \in Handlers |-> "idle"]
  /\ req = [h \in Handlers |-> None]
  /\ scan = [h \in Handlers |-> NoScan]
  /\ at = [h \in Handlers |-> NoPointer]
  /\ match = [h \in Handlers |-> NoMatch]
  /\ reply = [h \in Handlers |-> 0]
  /\ rec = NoRecording
  /\ epc = [e \in Editors |-> "idle"]
  /\ todo = [e \in Editors |-> <<>>]
  /\ work = [e \in Editors |-> NoWork]
  /\ edits = 0
  /\ replies = <<>>
  /\ moved = [h \in Handlers |-> FALSE]
  /\ shifted = FALSE

Serve(h) ==
  \/ MatchBegin(h) \/ MatchStub(h) \/ MatchTest(h) \/ MatchChoose(h)
  \/ MatchPanics(h) \/ MatchDefault(h) \/ Forward(h) \/ ProxyFails(h)
  \/ SaveBegin(h) \/ RecordStep(h)

Next ==
  \/ \E h \in Handlers : Serve(h)
  \/ \E e \in Editors : EditStep(e)

Spec == Init /\ [][Next]_vars

-----------------------------------------------------------------------------
(* Properties                                                               *)

\* The places of the list that hold reply n.
Places(n) ==
  {p \in (1..list.len) \X (1..MaxReplies + 1) :
     /\ p[2] \in DOMAIN heap[list.array][p[1]].responses
     /\ heap[list.array][p[1]].responses[p[2]] = Saved(n)}

\* No reply was made by proxyAlways, whose recordings read the responses of a
\* stub and write them to what is a stub of another list by then.
OnlyOnce == \A n \in DOMAIN replies : replies[n].mode # "proxyAlways"

\* The stub that a request has found gives it no reply made to another request,
\* whatever recordings and edits did to the list since its index was taken and
\* while others copied it: a recording only writes to arrays of its own.  Only
\* AddStub and DeleteStub, which write to the array under the pointer between the
\* evaluation of the predicates and NextResponse, can put another stub there.
OwnReply ==
  OnlyOnce =>
    \A h \in Handlers : pc[h] = "choose" /\ ~moved[h] =>
      \A k \in DOMAIN Pointee(h).responses :
        LET x == Pointee(h).responses[k] IN x.kind = "saved" => replies[x.id].request = req[h]

=============================================================================
