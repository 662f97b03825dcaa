---------------------------- MODULE ScriptEngine ----------------------------
(***************************************************************************)
(* A JSEngine at work: the goroutines of an imposter run scripts           *)
(* concurrently, on VMs that they take from a pool and give back, with     *)
(* programs that they share through a cache.  A script gets its input in   *)
(* global variables of the VM, which outlive the run: only resetVM stands  *)
(* between one run and the next.                                           *)
(*                                                                         *)
(* What a script computes is left open.  Inject scripts may use the state  *)
(* that they are given, one Go map for all runs of an engine, and of no    *)
(* other engine: what is in it is left open too.                           *)
(***************************************************************************)
EXTENDS Naturals, FiniteSets

CONSTANTS
  Threads,   \* goroutines that run scripts
  Vms,       \* identities of VMs: a bound on the VMs ever created
  Scripts,   \* texts of scripts
  BadScripts, \* those that do not compile
  MaxRuns,   \* bound on the runs of scripts
  NoVm

ASSUME ScriptAssumption ==
  /\ BadScripts \subseteq Scripts
  /\ MaxRuns \in Nat
  /\ NoVm \notin Vms

\* The global variables that the engine knows, and one that a script makes up.
EngineGlobals ==
  {"request", "response", "state", "imposterState", "logger", "config", "requestData", "rawBytes", "data"}
Globals == EngineGlobals \cup {"own"}

\* Execute*: the global variables that each kind of run sets before the script.
Sets ==
  [response |-> {"request", "logger", "state", "imposterState"},
   predicate |-> {"request", "logger", "state", "imposterState"},
   generator |-> {"request", "logger"},
   binaryEnd |-> {"logger", "rawBytes"},
   textEnd |-> {"logger", "requestData"},
   tcpPredicate |-> {"logger", "requestData"},
   tcpResponse |-> {"state", "logger", "requestData"},
   wait |-> {"request", "logger"},
   decorate |-> {"config", "request", "response", "logger"},
   tcpDecorate |-> {"request", "response"}]

Kinds == DOMAIN Sets

\* The runs that share an engine: those of an HTTP server and of the matcher that
\* it began with, of each matcher that a recorded reply has put in its place
\* (with an engine and a state of its own), of a TCP server in text or binary
\* mode, of a proxy handler, of a TCP matcher.
Engines ==
  [http |-> {"response", "predicate", "wait", "decorate"},
   newMatcher |-> {"predicate"},
   tcpText |-> {"tcpResponse", "textEnd", "wait", "decorate", "tcpDecorate"},
   tcpBinary |-> {"tcpResponse", "binaryEnd", "wait", "decorate", "tcpDecorate"},
   proxy |-> {"generator"},
   tcpMatcher |-> {"tcpPredicate"}]

Stateful == {k \in Kinds : "state" \in Sets[k]}

\* Runs under TCPServer.mu.
Locked == {"tcpResponse"}

VARIABLES
  engine,   \* whose engine it is
  made,     \* VMs that exist
  pool,     \* VMs that wait in the pool
  globals,  \* of each VM, each global variable: the run that set it, 0 for undefined
  cache,    \* compiled programs by key
  at,       \* where a goroutine is
  job,      \* its run: number, kind, script
  vm,       \* its VM
  program,  \* the program it runs
  runs      \* runs begun so far

vars == <<engine, made, pool, globals, cache, at, job, vm, program, runs>>

NoJob == [run |-> 0, kind |-> "none", script |-> "none"]

\* The script inside the function that a kind of run wraps it in.
Wrapped(j) == [kind |-> j.kind, script |-> j.script]

Program == [kind : Kinds, script : Scripts]
NoProgram == [kind |-> "none", script |-> "none"]

TypeOK ==
  /\ engine \in DOMAIN Engines
  /\ made \subseteq Vms /\ pool \subseteq made
  /\ globals \in [Vms -> [Globals -> 0..MaxRuns]]
  /\ cache \subseteq [key : Program, program : Program]
  /\ at \in [Threads -> {"idle", "load", "compile", "run", "state", "release", "crashed"}]
  /\ job \in [Threads -> [run : 0..MaxRuns, kind : Kinds \cup {"none"}, script : Scripts \cup {"none"}]]
  /\ vm \in [Threads -> Vms \cup {NoVm}]
  /\ program \in [Threads -> Program \cup {NoProgram}]
  /\ runs \in 0..MaxRuns

Init ==
  /\ engine \in DOMAIN Engines
  /\ made = {} /\ pool = {}
  /\ globals = [v \in Vms |-> [g \in Globals |-> 0]]
  /\ cache = {}
  /\ at = [t \in Threads |-> "idle"]
  /\ job = [t \in Threads |-> NoJob]
  /\ vm = [t \in Threads |-> NoVm]
  /\ program = [t \in Threads |-> NoProgram]
  /\ runs = 0

Undefined(v) == [globals EXCEPT ![v] = [g \in Globals |-> 0]]

\* VMPool.Acquire, then the globals of this kind of run.  The pool gives any VM
\* that it has, or a new one.
Acquire(t) ==
  /\ at[t] = "idle" /\ runs < MaxRuns
  /\ \E k \in Engines[engine], s \in Scripts, v \in pool \cup (Vms \ made) :
       /\ k \in Locked => \A u \in Threads : at[u] = "idle" \/ job[u].kind \notin Locked
       /\ job' = [job EXCEPT ![t] = [run |-> runs + 1, kind |-> k, script |-> s]]
       /\ vm' = [vm EXCEPT ![t] = v]
       /\ globals' = [globals EXCEPT ![v] = [g \in Globals |-> IF g \in Sets[k] THEN runs + 1 ELSE @[g]]]
       /\ made' = made \cup {v} /\ pool' = pool \ {v}
  /\ runs' = runs + 1
  /\ at' = [at EXCEPT ![t] = "load"]
  /\ UNCHANGED <<engine, cache, program>>

\* hashScript: the key is the wrapped script.
CacheKey(j) == Wrapped(j)

\* GetOrCompile: the look into the cache ...
Load(t) ==
  /\ at[t] = "load"
  /\ LET hits == {c \in cache : c.key = CacheKey(job[t])} IN
       \/ /\ hits = {}
          /\ at' = [at EXCEPT ![t] = "compile"]
          /\ UNCHANGED program
       \/ \E c \in hits :
            /\ program' = [program EXCEPT ![t] = c.program]
            /\ at' = [at EXCEPT ![t] = "run"]
  /\ UNCHANGED <<engine, made, pool, globals, cache, job, vm, runs>>

\* ... and what follows a miss.  Two goroutines may both store the program.
Compile(t) ==
  /\ at[t] = "compile" /\ job[t].script \notin BadScripts
  /\ LET key == CacheKey(job[t]) IN
       cache' = {c \in cache : c.key # key} \cup {[key |-> key, program |-> Wrapped(job[t])]}
  /\ program' = [program EXCEPT ![t] = Wrapped(job[t])]
  /\ at' = [at EXCEPT ![t] = "run"]
  /\ UNCHANGED <<engine, made, pool, globals, job, vm, runs>>

\* Mutant: the error path releases the VM, and the deferred call does so again.
CompileFailsReleased(t) ==
  /\ at[t] = "compile" /\ job[t].script \in BadScripts
  /\ at' = [at EXCEPT ![t] = "release"]
  /\ pool' = pool \cup {vm[t]}
  /\ UNCHANGED <<engine, made, globals, cache, job, vm, program, runs>>

\* Mutant: the result is cached before the error is looked at.
CompileFailsCached(t) ==
  /\ at[t] = "compile" /\ job[t].script \in BadScripts
  /\ at' = [at EXCEPT ![t] = "release"]
  /\ cache' = cache \cup {[key |-> CacheKey(job[t]), program |-> Wrapped(job[t])]}
  /\ UNCHANGED <<engine, made, pool, globals, job, vm, program, runs>>

\* A script that does not compile is an error, and is not cached.
CompileFails(t) ==
  /\ at[t] = "compile" /\ job[t].script \in BadScripts
  /\ at' = [at EXCEPT ![t] = "release"]
  /\ UNCHANGED <<engine, made, pool, globals, cache, job, vm, program, runs>>

InState(t) == at[t] = "state"

\* RunProgram: the script runs to its end, or throws, or begins to use the state.
\* It may leave a global variable of its own in the VM.
Run(t) ==
  /\ at[t] = "run"
  /\ \/ at' = [at EXCEPT ![t] = "release"]
     \/ job[t].kind \in Stateful /\ at' = [at EXCEPT ![t] = "state"]
  /\ globals' \in {globals, [globals EXCEPT ![vm[t]]["own"] = job[t].run]}
  /\ UNCHANGED <<engine, made, pool, cache, job, vm, program, runs>>

\* The script has used the state.
LeaveState(t) ==
  /\ InState(t)
  /\ at' = [at EXCEPT ![t] = "release"]
  /\ UNCHANGED <<engine, made, pool, globals, cache, job, vm, program, runs>>

\* Two goroutines use one Go map at once, and one of them may be writing to it:
\* the runtime may then stop the process.
MapRace(t, u) ==
  /\ t # u /\ InState(t) /\ InState(u)
  /\ at' = [x \in Threads |-> "crashed"]
  /\ UNCHANGED <<engine, made, pool, globals, cache, job, vm, program, runs>>

\* Mutant: the buffer of a binary request is not cleared.
ResetForgets(v) ==
  [globals EXCEPT ![v] = [g \in Globals |-> IF g \in EngineGlobals \ {"rawBytes"} THEN 0 ELSE @[g]]]

\* resetVM: what a script made up itself stays.
ResetVM(v) == [globals EXCEPT ![v] = [g \in Globals |-> IF g \in EngineGlobals THEN 0 ELSE @[g]]]

\* VMPool.Release, deferred: after an error too.
Release(t) ==
  /\ at[t] = "release"
  /\ globals' = ResetVM(vm[t])
  /\ pool' = pool \cup {vm[t]}
  /\ at' = [at EXCEPT ![t] = "idle"]
  /\ job' = [job EXCEPT ![t] = NoJob]
  /\ vm' = [vm EXCEPT ![t] = NoVm]
  /\ program' = [program EXCEPT ![t] = NoProgram]
  /\ UNCHANGED <<engine, made, cache, runs>>

\* sync.Pool may drop what it holds.
Collect(v) ==
  /\ v \in pool
  /\ pool' = pool \ {v} /\ made' = made \ {v}
  /\ globals' = Undefined(v)
  /\ UNCHANGED <<engine, cache, at, job, vm, program, runs>>

Step(t) ==
  Load(t) \/ Compile(t) \/ CompileFails(t) \/ Run(t) \/ LeaveState(t) \/ Release(t)

Next ==
  \/ \E t \in Threads : Acquire(t) \/ Step(t)
  \/ \E t, u \in Threads : MapRace(t, u)
  \/ \E v \in Vms : Collect(v)

Spec == Init /\ [][Next]_vars

-----------------------------------------------------------------------------
(* Properties                                                               *)

\* "This prevents cross-request contamination of request-specific data"
\* (vmpool.go): while a script runs, every global variable that the engine deals
\* with is undefined or was set for this very run.  Variables that scripts make
\* up stay in the VM.
NoContamination ==
  \A t \in Threads : at[t] \in {"run", "state"} =>
    \A g \in EngineGlobals : globals[vm[t]][g] \in {0, job[t].run}

\* A VM is in the pool or belongs to one goroutine, never both and never
\* neither: goja VMs are not made for two goroutines, and one that is not given
\* back is lost.
VmIsOwn ==
  (\A t \in Threads : at[t] # "crashed") =>
    \A v \in made : Cardinality({t \in Threads : vm[t] = v}) = IF v \in pool THEN 0 ELSE 1

\* The program that runs is the script of this run in the function of its kind,
\* although a script of the same text may have been cached for another kind.
RunsItsScript ==
  \A t \in Threads : at[t] \in {"run", "state"} => program[t] = Wrapped(job[t])

-----------------------------------------------------------------------------
(* Refinement of isolated runs                                              *)

Stage ==
  [t \in Threads |->
    CASE at[t] \in {"load", "compile"} -> "begun"
      [] at[t] \in {"run", "state"}   -> "running"
      [] at[t] = "release"             -> "ended"
      [] OTHER                         -> at[t]]

\* What the script of a goroutine finds in the globals of the engine.
Finds(t) == [g \in EngineGlobals |-> IF vm[t] = NoVm THEN 0 ELSE globals[vm[t]][g]]

Input == [t \in Threads |-> Finds(t)]

Isolated == INSTANCE IsolatedRuns WITH stage <- Stage, input <- Input, Globals <- EngineGlobals, Given <- Sets, Serial <- Locked

\* A run cannot tell that its VM has served others and that its program may come
\* from a cache: from its beginning to its end it finds exactly what its kind is
\* given, set for this run, whatever other runs begin, end or release meanwhile;
\* its own script runs, always if it compiles and never if it does not; and only
\* two runs of HTTP scripts that are both given the state can bring the process
\* down, never those that hold the lock of a TCP server.
RunsAreIsolated == Isolated!ContractSpec

-----------------------------------------------------------------------------
(* The inductive invariant of the proofs                                    *)

\* A goroutine has a VM from Acquire to Release; two never have the same, and
\* every VM that is not in the pool has its goroutine.
Owners ==
  /\ \A t \in Threads :
       /\ at[t] = "idle" => vm[t] = NoVm /\ job[t] = NoJob
       /\ at[t] \notin {"idle", "crashed"} =>
            vm[t] # NoVm /\ job[t].kind \in Engines[engine] /\ job[t].script \in Scripts
       /\ vm[t] # NoVm => vm[t] \in made \ pool
  /\ \A t, u \in Threads : vm[t] = vm[u] => t = u \/ vm[t] = NoVm
  /\ \A v \in made \ pool : \E t \in Threads : vm[t] = v

\* A VM that no goroutine has is clean, also when it was made before; one that
\* a goroutine has holds what was set for its run, at any control point.
CleanVms ==
  /\ \A v \in Vms : v \in pool \/ v \notin made => \A g \in EngineGlobals : globals[v][g] = 0
  /\ \A t \in Threads : vm[t] # NoVm =>
       \A g \in EngineGlobals : globals[vm[t]][g] \in {0, job[t].run}

\* The cache maps a wrapped script to the program of that wrapped script.
CacheIsRight == \A c \in cache : c.program = c.key

\* Runs with the lock of the TCP server come one after the other, and only a run
\* that is given the state uses it.
LockedRuns ==
  /\ \A t \in Threads : InState(t) => job[t].kind \in Stateful
  /\ \A t, u \in Threads : job[t].kind \in Locked /\ job[u].kind \in Locked => t = u

EngineInv ==
  /\ TypeOK
  /\ Owners
  /\ CleanVms
  /\ CacheIsRight
  /\ RunsItsScript
  /\ LockedRuns

\* What the refinement needs besides: no script that does not compile has a
\* program in the cache.
CompiledOnly == \A c \in cache : c.key.script \notin BadScripts
=============================================================================
