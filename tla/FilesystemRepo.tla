--------------------------- MODULE FilesystemRepo ---------------------------
(***************************************************************************)
(* The repository behind --datadir.  An imposter is a directory with a     *)
(* header (imposter.json: the predicates of each stub and the name of its  *)
(* directory) and a directory per stub (the responses, and meta.json,      *)
(* written last).  A call holds the lock from start to end, so calls do    *)
(* not interleave; but it is many operations of the file system, and the   *)
(* process may crash, or an operation fail, between any two of them.       *)
(*                                                                         *)
(* A file is replaced by a rename and so is never seen half written.  The  *)
(* history variable store is what the in-memory repository would hold      *)
(* after the same calls.                                                   *)
(***************************************************************************)
EXTENDS Naturals, Sequences, FiniteSets, SequencesExt

CONSTANTS
  Ports,      \* ports of imposters
  Stubs,      \* stubs: predicates and responses
  Names,      \* names that filenameFor makes for the directories of stubs
  MaxStubs,   \* longest list of stubs in a call
  MaxCalls,   \* bound on the calls in a behaviour
  MaxFaults,  \* bound on crashes and failed operations in a behaviour
  None,       \* no header, no directory
  Partial,    \* a directory of a stub in which files are missing
  Broken,     \* an imposter that cannot be read
  NoDir       \* an empty directory name in the header

ASSUME FilesystemAssumption ==
  /\ Ports # {}
  /\ IsFiniteSet(Names)
  /\ NoDir \notin Names
  /\ {None, Partial, Broken} \cap Stubs = {}
  /\ None # Partial /\ None # Broken /\ Partial # Broken
  /\ MaxStubs \in Nat
  /\ MaxCalls \in Nat
  /\ MaxFaults \in Nat

\* imposterStubHeader
Entry == [predicates : Stubs, dir : Names \cup {NoDir}]

\* A stub as it is read: the predicates of the header, the responses of the
\* directory.
Loaded == [predicates : Stubs, responses : Stubs]

Views == Seq(Loaded) \cup {None, Broken}

\* What the directories of an imposter's stubs may hold.
Contents == [Names -> Stubs \cup {None, Partial}]

ASSUME ListAssumption ==
  /\ None \notin Seq(Entry)
  /\ {None, Broken} \cap Seq(Loaded) = {}

Lists == UNION {[1..n -> Stubs] : n \in 0..MaxStubs}

VARIABLES
  dir,      \* the ports that have a directory
  header,   \* imposter.json of each port
  content,  \* the directories of the stubs of each port
  op,       \* the call that holds the lock
  store,    \* history: what the in-memory repository would hold
  lost,     \* history: ports whose imposter cannot be relied upon
  faulty,   \* history: ports where a call was cut short
  calls,    \* number of calls so far
  faults    \* number of crashes and failed operations so far

vars == <<dir, header, content, op, store, lost, faulty, calls, faults>>

Calls == {"none", "Add", "UpdateStubs", "AddStub", "DeleteStub", "Delete", "DeleteAll"}

\* The call under way: its control point, the stubs still to save, the
\* directory being written, the header entries made so far, the index it was
\* given, what RemoveAll has to remove, the ports still to visit, and (history)
\* what the imposter is to be when the call returns.
Op ==
  [call : Calls, port : Ports, at : {"done", "save", "remove", "next"}, todo : Seq(Stubs),
   saving : Names \cup {NoDir}, made : Seq(Entry), index : Nat, whole : BOOLEAN,
   names : SUBSET Names, ports : SUBSET Ports, goal : Views]

TypeOK ==
  /\ dir \subseteq Ports
  /\ header \in [Ports -> Seq(Entry) \cup {None}]
  /\ content \in [Ports -> Contents]
  /\ op \in Op
  /\ store \in [Ports -> Views]
  /\ lost \subseteq Ports
  /\ faulty \subseteq Ports
  /\ calls \in Nat
  /\ faults \in Nat

-----------------------------------------------------------------------------
(* Reading                                                                  *)

\* loadStub needs meta.json and every response it names; c is what the
\* directories of the imposter hold.
Readable(c, entry) == entry.dir # NoDir /\ c[entry.dir] \in Stubs

\* getImposter, of an imposter with header h and directories c.
GetImposter(h, c) ==
  IF h = None THEN None
  ELSE IF \E i \in 1..Len(h) : ~Readable(c, h[i]) THEN Broken
  ELSE [i \in 1..Len(h) |-> [predicates |-> h[i].predicates, responses |-> c[h[i].dir]]]

\* Get, All, Exists, Delete and LoadAll see an imposter this way.
View(p) == GetImposter(header[p], content[p])

\* Stub s as it should be read.
Whole(s) == [predicates |-> s, responses |-> s]

WholeList(list) == [i \in 1..Len(list) |-> Whole(list[i])]

\* An imposter that can be read.
Intact(v) == v \notin {None, Broken}

-----------------------------------------------------------------------------
(* Beginning of a call                                                      *)

Idle ==
  [call |-> "none", port |-> CHOOSE p \in Ports : TRUE, at |-> "done", todo |-> <<>>, saving |-> NoDir,
   made |-> <<>>, index |-> 0, whole |-> FALSE, names |-> {}, ports |-> {}, goal |-> None]

Begin ==
  /\ op = Idle
  /\ calls < MaxCalls
  /\ calls' = calls + 1
  /\ UNCHANGED <<header, content, lost, faulty, faults>>

\* Add: a directory, whatever is in it, is a conflict.
AddBegin(p) ==
  /\ Begin
  /\ p \notin dir
  /\ dir' = dir \cup {p}
  /\ \E list \in Lists :
       op' = [Idle EXCEPT !.call = "Add", !.port = p, !.at = "save", !.todo = list, !.goal = WholeList(list)]
  /\ UNCHANGED store

\* UpdateStubs: the directories of the old stubs are removed first.
UpdateStubsBegin(p) ==
  /\ Begin
  /\ header[p] # None
  /\ \E list \in Lists :
       op' = [Idle EXCEPT !.call = "UpdateStubs", !.port = p, !.at = "remove", !.names = Names,
                          !.todo = list, !.goal = WholeList(list)]
  /\ UNCHANGED <<dir, store>>

\* What the in-memory repository makes of list v.
Added(v, i, x) ==
  IF ~Intact(v) THEN v ELSE IF i >= Len(v) THEN Append(v, x) ELSE InsertAt(v, i + 1, x)

Removed(v, i) == IF Intact(v) /\ i < Len(v) THEN RemoveAt(v, i + 1) ELSE v

AddStubBegin(p) ==
  /\ Begin
  /\ header[p] # None
  /\ \E s \in Stubs, i \in 0..Len(header[p]) :
       op' = [Idle EXCEPT !.call = "AddStub", !.port = p, !.at = "save", !.todo = <<s>>, !.index = i,
                          !.goal = Added(store[p], i, Whole(s))]
  /\ UNCHANGED <<dir, store>>

\* Mutant: the directory is removed first.
DeleteStubRemovesFirst(p) ==
  /\ Begin
  /\ header[p] # None
  /\ \E i \in 0..Len(header[p]) - 1 :
       op' = [Idle EXCEPT !.call = "DeleteStub", !.port = p, !.at = "remove", !.index = i,
                          !.names = {header[p][i + 1].dir} \ {NoDir}, !.goal = Removed(store[p], i)]
  /\ UNCHANGED <<dir, store>>

\* DeleteStub: first the header, then the directory that it names; an empty
\* name makes that the directory of the imposter.
DeleteStubBegin(p) ==
  /\ Begin
  /\ header[p] # None
  /\ \E i \in 0..Len(header[p]) - 1 :
       LET name == header[p][i + 1].dir IN
         op' = [Idle EXCEPT !.call = "DeleteStub", !.port = p, !.at = "save", !.index = i,
                            !.whole = (name = NoDir),
                            !.names = IF name = NoDir THEN Names ELSE {name},
                            !.goal = Removed(store[p], i)]
  /\ UNCHANGED <<dir, store>>

\* Delete: an imposter that cannot be read is an error and stays.
DeleteBegin(p) ==
  /\ Begin
  /\ Intact(View(p))
  /\ op' = [Idle EXCEPT !.call = "Delete", !.port = p, !.at = "remove", !.whole = TRUE, !.names = Names]
  /\ UNCHANGED <<dir, store>>

DeleteAllBegin ==
  /\ Begin
  /\ op' = [Idle EXCEPT !.call = "DeleteAll", !.at = "next", !.ports = dir]
  /\ UNCHANGED <<dir, store>>

\* ClearRequestsAndProxyStubs: the header is read as an imposter, which has no
\* field for the name of a directory, and written back.  No stub that has been
\* read from a file is marked as generated.
ClearRequestsAndProxyStubs(p) ==
  /\ op = Idle
  /\ calls < MaxCalls
  /\ header[p] # None
  /\ calls' = calls + 1
  /\ header' = [header EXCEPT ![p] = [i \in 1..Len(@) |-> [@[i] EXCEPT !.dir = NoDir]]]
  /\ lost' = IF header[p] # <<>> THEN lost \cup {p} ELSE lost
  /\ UNCHANGED <<dir, content, op, store, faulty, faults>>

-----------------------------------------------------------------------------
(* Steps of a call                                                          *)

\* The call returns, or goes on with the next port; v is what the in-memory
\* repository would have now.
Return(p, v) ==
  /\ op' = IF op.call = "DeleteAll" THEN [op EXCEPT !.at = "next", !.whole = FALSE, !.names = {}] ELSE Idle
  /\ store' = [store EXCEPT ![p] = v]

\* saveStub: a new directory, the responses ...
SaveDir ==
  /\ op.at = "save"
  /\ op.todo # <<>>
  /\ op.saving = NoDir
  /\ \E n \in Names :
       /\ \A q \in Ports : content[q][n] = None
       /\ \A q \in Ports : header[q] # None => \A i \in 1..Len(header[q]) : header[q][i].dir # n
       /\ content' = [content EXCEPT ![op.port][n] = Partial]
       /\ op' = [op EXCEPT !.saving = n]
  /\ UNCHANGED <<dir, header, store, lost, faulty, calls, faults>>

\* ... and meta.json.
SaveMeta ==
  /\ op.at = "save"
  /\ op.saving # NoDir
  /\ content' = [content EXCEPT ![op.port][op.saving] = Head(op.todo)]
  /\ op' = [op EXCEPT !.todo = Tail(@), !.saving = NoDir,
                      !.made = Append(@, [predicates |-> Head(op.todo), dir |-> op.saving])]
  /\ UNCHANGED <<dir, header, store, lost, faulty, calls, faults>>

\* Mutant: the new stub is put behind the index.
NewHeaderBehind ==
  LET old == header[op.port] IN
    CASE op.call = "AddStub"    -> IF op.index >= Len(old) THEN Append(old, op.made[1])
                                   ELSE InsertAt(old, op.index + 2, op.made[1])
      [] op.call = "DeleteStub" -> RemoveAt(old, op.index + 1)
      [] OTHER                  -> op.made

\* The entries of the new header.
NewHeader ==
  LET old == header[op.port] IN
    CASE op.call = "AddStub"    -> IF op.index >= Len(old) THEN Append(old, op.made[1])
                                   ELSE InsertAt(old, op.index + 1, op.made[1])
      [] op.call = "DeleteStub" -> RemoveAt(old, op.index + 1)
      [] OTHER                  -> op.made

Saved == op.at = "save" /\ op.todo = <<>> /\ op.saving = NoDir

\* Mutant: DeleteStub leaves the directory.
WriteHeaderOnly ==
  /\ Saved
  /\ header' = [header EXCEPT ![op.port] = NewHeader]
  /\ lost' = IF op.call \in {"Add", "UpdateStubs"} THEN lost \ {op.port} ELSE lost
  /\ Return(op.port, op.goal)
  /\ UNCHANGED <<dir, content, faulty, calls, faults>>

\* The header is written when all stubs are; DeleteStub then removes a directory.
WriteHeader ==
  /\ Saved
  /\ header' = [header EXCEPT ![op.port] = NewHeader]
  /\ lost' = IF op.call \in {"Add", "UpdateStubs"} THEN lost \ {op.port} ELSE lost
  /\ \/ /\ op.call = "DeleteStub"
        /\ op' = [op EXCEPT !.at = "remove"]
        /\ UNCHANGED store
     \/ /\ op.call # "DeleteStub"
        /\ Return(op.port, op.goal)
  /\ UNCHANGED <<dir, content, faulty, calls, faults>>

\* DeleteAll: an imposter that cannot be read is skipped.
DeleteAllNext ==
  /\ op.at = "next"
  /\ \/ \E p \in op.ports :
          /\ Intact(View(p))
          /\ op' = [op EXCEPT !.at = "remove", !.port = p, !.whole = TRUE, !.names = Names,
                              !.ports = @ \ {p}]
     \/ \E p \in op.ports :
          /\ ~Intact(View(p))
          /\ op' = [op EXCEPT !.ports = @ \ {p}]
     \/ /\ op.ports = {}
        /\ op' = Idle
  /\ UNCHANGED <<dir, header, content, store, lost, faulty, calls, faults>>

\* os.RemoveAll removes one file after the other, in any order.
RemoveFile ==
  /\ op.at = "remove"
  /\ \/ \E n \in op.names :
          /\ content[op.port][n] # None
          /\ content' = [content EXCEPT ![op.port][n] = IF @ = Partial THEN None ELSE Partial]
          /\ UNCHANGED header
     \/ /\ op.whole
        /\ header[op.port] # None
        /\ header' = [header EXCEPT ![op.port] = None]
        /\ UNCHANGED content
  /\ UNCHANGED <<dir, op, store, lost, faulty, calls, faults>>

Gone ==
  /\ \A n \in op.names : content[op.port][n] = None
  /\ op.whole => header[op.port] = None

RemoveDone ==
  /\ op.at = "remove"
  /\ Gone
  /\ dir' = IF op.whole THEN dir \ {op.port} ELSE dir
  /\ lost' = IF op.whole /\ op.call # "DeleteStub" THEN lost \ {op.port} ELSE lost
  /\ faulty' = IF op.whole THEN faulty \ {op.port} ELSE faulty
  /\ \/ /\ op.call = "UpdateStubs"
        /\ op' = [op EXCEPT !.at = "save", !.names = {}]
        /\ UNCHANGED store
     \/ /\ op.call # "UpdateStubs"
        /\ Return(op.port, op.goal)
  /\ UNCHANGED <<header, content, calls, faults>>

-----------------------------------------------------------------------------
(* Crashes and failures                                                     *)

\* The call ends early: what can be read is what clients will see from now on.
CutShort ==
  /\ op' = Idle
  /\ store' = [store EXCEPT ![op.port] = View(op.port)]
  /\ lost' = IF View(op.port) = Broken THEN lost \cup {op.port} ELSE lost
  /\ faulty' = faulty \cup {op.port}

Fault ==
  /\ op # Idle
  /\ faults < MaxFaults
  /\ faults' = faults + 1

\* The process dies and is started again.
Crash ==
  /\ Fault
  /\ CutShort
  /\ UNCHANGED <<dir, header, content, calls>>

\* A file cannot be written.  Add removes its directory again, unless the file
\* is the header.
WriteFails ==
  /\ Fault
  /\ op.at = "save"
  /\ \/ /\ op.call = "Add" /\ ~Saved
        /\ op' = [op EXCEPT !.at = "remove", !.todo = <<>>, !.saving = NoDir, !.whole = TRUE,
                            !.names = Names, !.goal = None]
        /\ UNCHANGED <<store, lost, faulty>>
     \/ /\ op.call # "Add" \/ Saved
        /\ CutShort
  /\ UNCHANGED <<dir, header, content, calls>>

-----------------------------------------------------------------------------
Init ==
  /\ dir = {}
  /\ header = [p \in Ports |-> None]
  /\ content = [p \in Ports |-> [n \in Names |-> None]]
  /\ op = Idle
  /\ store = [p \in Ports |-> None]
  /\ lost = {}
  /\ faulty = {}
  /\ calls = 0
  /\ faults = 0

Call ==
  \/ \E p \in Ports :
       \/ AddBegin(p)
       \/ UpdateStubsBegin(p)
       \/ AddStubBegin(p)
       \/ DeleteStubBegin(p)
       \/ DeleteBegin(p)
       \/ ClearRequestsAndProxyStubs(p)
  \/ DeleteAllBegin

Step == SaveDir \/ SaveMeta \/ WriteHeader \/ DeleteAllNext \/ RemoveFile \/ RemoveDone

Next == Call \/ Step \/ Crash \/ WriteFails

Spec == Init /\ [][Next]_vars

-----------------------------------------------------------------------------
(* Properties                                                               *)

\* "persist all operations to disk in real time" (web/templates/docs/
\* commandLine.html, --datadir): between calls, and for the ports that the
\* call under way does not work on, the files say what the in-memory
\* repository would after the same calls; crashes and failures included,
\* unless they have made the imposter unreadable.
AgreesWithMemory ==
  \A p \in Ports \ lost : op = Idle \/ p # op.port \/ op.at = "next" => View(p) = store[p]

\* Add, AddStub and DeleteStub are atomic: at every moment of such a call the
\* files hold the imposter as it was or as it is to be, so that a crash leaves
\* one of the two (stub directories are written before the header that names
\* them, and removed after it).
EditsAreAtomic ==
  op.call \in {"Add", "AddStub", "DeleteStub"} /\ op.port \notin lost
    => View(op.port) \in {store[op.port], op.goal}

\* The directories that header h names.
NamedBy(h) == IF h = None THEN {} ELSE {h[i].dir : i \in 1..Len(h)}

Named(p) == NamedBy(header[p])

Present(p) == {n \in Names : content[p][n] # None}

Clean(p) == (p \in dir <=> header[p] # None) /\ Present(p) = Named(p)

\* Between calls, where no call was cut short, an imposter's directory holds
\* the directories of its stubs and nothing else, and a port that has no
\* imposter has no directory: nothing blocks it for a later Add.
NoGarbage == op = Idle => \A p \in Ports \ (faulty \cup lost) : Clean(p)

-----------------------------------------------------------------------------
(* Refinement of the contract of a repository                               *)

Imposters == [p \in Ports |-> View(p)]

Taking ==
  IF op.call = "UpdateStubs" THEN {[port |-> op.port, goal |-> op.goal]}
  ELSE IF op.whole THEN {[port |-> op.port, goal |-> None]}
  ELSE {}

Repository == INSTANCE RepositoryContract WITH imposters <- Imposters, taking <- Taking, call <- op.call

\* Whatever a reader finds, now or after a crash at this very moment, it finds as
\* the contract says: stubs are added and deleted in one step each; a list of
\* UpdateStubs appears as a whole and never mixed with the old one; nothing that
\* a call does to one port shows on another.
KeepsContract == Repository!ContractSpec

-----------------------------------------------------------------------------
(* The inductive invariant, used by FilesystemRepoProofs                    *)

\* The call under way does not work on port p.
Away(p) == op = Idle \/ p # op.port \/ op.at = "next"

\* The call removes the directory of the imposter with all that is in it.
Removing == op.at = "remove" /\ op.whole /\ op.names = Names

\* Where each call may stand, and what it then knows; what it works on has a
\* directory.
CallShape ==
  /\ op.call = "none" => op = Idle
  /\ op.call = "Add" => op.at = "save" \/ (Removing /\ op.goal = None)
  /\ op.call = "UpdateStubs" =>
       /\ ~op.whole
       /\ op.at \in {"save", "remove"}
       /\ op.at = "remove" => op.names = Names /\ op.made = <<>> /\ op.saving = NoDir
  /\ op.call = "AddStub" => op.at = "save"
  /\ op.call = "DeleteStub" => op.at \in {"save", "remove"} /\ op.todo = <<>> /\ op.saving = NoDir
  /\ op.call = "Delete" => Removing /\ op.goal = None
  /\ op.call = "DeleteAll" => (op.at = "next" \/ Removing) /\ op.goal = None
  /\ op.at \in {"save", "remove"} => op.port \in dir
  /\ op.whole => op.names = Names

\* No two stubs of a list share a directory.
DistinctDirs(list) ==
  \A i, j \in 1..Len(list) : list[i].dir = list[j].dir /\ list[i].dir # NoDir => i = j

\* The port keeps what it has: the files agree with memory and are clean.
AtRest(p) ==
  /\ p \notin lost => View(p) = store[p]
  /\ p \notin faulty \cup lost => Clean(p)

\* What holds of every port: one without a directory has no files, and one that
\* no call works on is at rest.
Sound(p) ==
  /\ p \notin dir => header[p] = None /\ Present(p) = {}
  /\ header[p] # None => DistinctDirs(header[p])
  /\ p \notin lost => store[p] # Broken
  /\ Away(p) => AtRest(p)

Made == {op.made[i].dir : i \in 1..Len(op.made)}

Writing == {op.saving} \ {NoDir}

\* The directories of the stubs that the call has saved are complete, new, and
\* not yet named by the header; the one that it writes is not complete.
SavedStubs ==
  op.at = "save" =>
    /\ DistinctDirs(op.made)
    /\ NoDir \notin Made
    /\ (Made \cup Writing) \cap Named(op.port) = {}
    /\ Made \cap Writing = {}
    /\ \A i \in 1..Len(op.made) : content[op.port][op.made[i].dir] = op.made[i].predicates
    /\ op.saving # NoDir => op.todo # <<>> /\ content[op.port][op.saving] = Partial

\* What has been saved and what is still to be saved make up the goal.
ListGoal ==
  /\ op.goal \in Seq(Loaded)
  /\ Len(op.goal) = Len(op.made) + Len(op.todo)
  /\ \A i \in 1..Len(op.made) : op.goal[i] = Whole(op.made[i].predicates)
  /\ \A i \in 1..Len(op.todo) : op.goal[Len(op.made) + i] = Whole(op.todo[i])

AddGoal ==
  /\ header[op.port] # None
  /\ op.index <= Len(header[op.port])
  /\ \E s \in Stubs :
       /\ op.goal = Added(store[op.port], op.index, Whole(s))
       /\ \/ op.todo = <<s>> /\ op.made = <<>>
          \/ op.todo = <<>> /\ Len(op.made) = 1 /\ op.made[1].predicates = s

DeleteGoal ==
  /\ op.goal = Removed(store[op.port], op.index)
  /\ op.at = "save" =>
       /\ header[op.port] # None
       /\ op.index < Len(header[op.port])
       /\ LET name == header[op.port][op.index + 1].dir IN
            IF name = NoDir THEN op.whole /\ op.names = Names ELSE ~op.whole /\ op.names = {name}
  /\ op.at = "remove" /\ op.port \notin lost => ~op.whole /\ op.names \cap Named(op.port) = {}

Goals ==
  /\ op.call = "Add" => header[op.port] = None /\ (op.at = "save" => ListGoal)
  /\ op.call = "UpdateStubs" => ListGoal
  /\ op.call = "AddStub" => AddGoal
  /\ op.call = "DeleteStub" => DeleteGoal

\* What is read during a call that is atomic.
Reads ==
  op.port \notin lost =>
    /\ op.call \in {"Add", "AddStub", "DeleteStub"} /\ op.at = "save" => View(op.port) = store[op.port]
    /\ op.call = "DeleteStub" /\ op.at = "remove" => View(op.port) = op.goal

\* Which directories there are during a call.
Directories ==
  /\ op.at = "save" /\ op.call \in {"Add", "UpdateStubs"} => Present(op.port) = Made \cup Writing
  /\ op.port \notin faulty \cup lost =>
       /\ op.call = "AddStub" => Present(op.port) = Named(op.port) \cup Made \cup Writing
       /\ op.call = "DeleteStub" /\ op.at = "save" => Clean(op.port)
       /\ op.call = "DeleteStub" /\ op.at = "remove" =>
            /\ header[op.port] # None
            /\ Named(op.port) \subseteq Present(op.port)
            /\ Present(op.port) \subseteq Named(op.port) \cup op.names

FsInv ==
  /\ TypeOK
  /\ CallShape
  /\ \A p \in Ports : Sound(p)
  /\ SavedStubs
  /\ Goals
  /\ Reads
  /\ Directories

\* What the refinement needs besides, of imposters that are lost too: Add saves the
\* list that it was given, DeleteStub removes no directory that the header names,
\* and a call that saves, or stands between two imposters, removes no imposter.
StepInv ==
  /\ op.call = "Add" /\ op.at = "save" => \E list \in Lists : op.goal = WholeList(list)
  /\ op.call = "DeleteStub" /\ op.at = "remove" /\ ~op.whole => op.names \cap Named(op.port) = {}
  /\ op.at = "next" \/ (op.at = "save" /\ op.call \in {"Add", "AddStub"}) => ~op.whole
=============================================================================
