------------------------- MODULE ScriptEngineProofs -------------------------
(***************************************************************************)
(* Scripts do not see each other's input or programs, for any number of    *)
(* goroutines, VMs, scripts and runs.                                      *)
(***************************************************************************)
EXTENDS ScriptEngine, FiniteSetTheorems, TLAPS

\* What the table of kinds says.
LEMMA KindFacts ==
  /\ \A e \in DOMAIN Engines : Engines[e] \subseteq Kinds
  /\ "none" \notin Kinds /\ "none" \notin Locked
<1>1. Kinds = {"response", "predicate", "generator", "binaryEnd", "textEnd", "tcpPredicate",
               "tcpResponse", "wait", "decorate", "tcpDecorate"}
  BY DEF Kinds, Sets
<1>2. DOMAIN Engines = {"http", "newMatcher", "tcpText", "tcpBinary", "proxy", "tcpMatcher"}
  BY DEF Engines
<1>3. /\ Engines["http"] = {"response", "predicate", "wait", "decorate"}
      /\ Engines["newMatcher"] = {"predicate"}
      /\ Engines["tcpText"] = {"tcpResponse", "textEnd", "wait", "decorate", "tcpDecorate"}
      /\ Engines["tcpBinary"] = {"tcpResponse", "binaryEnd", "wait", "decorate", "tcpDecorate"}
      /\ Engines["proxy"] = {"generator"}
      /\ Engines["tcpMatcher"] = {"tcpPredicate"}
  BY DEF Engines
<1>4. QED
  BY <1>1, <1>2, <1>3 DEF Locked

-----------------------------------------------------------------------------
(* Each action preserves the inductive invariant                            *)

LEMMA AcquireStep ==
  ASSUME EngineInv, NEW t \in Threads, Acquire(t) PROVE EngineInv'
<1>1. TypeOK /\ Owners /\ CleanVms /\ CacheIsRight /\ RunsItsScript /\ LockedRuns
  BY DEF EngineInv
<1>2. PICK k \in Engines[engine], s \in Scripts, v \in pool \cup (Vms \ made) :
        /\ k \in Locked => \A u \in Threads : at[u] = "idle" \/ job[u].kind \notin Locked
        /\ job' = [job EXCEPT ![t] = [run |-> runs + 1, kind |-> k, script |-> s]]
        /\ vm' = [vm EXCEPT ![t] = v]
        /\ globals' = [globals EXCEPT ![v] = [g \in Globals |-> IF g \in Sets[k] THEN runs + 1 ELSE @[g]]]
        /\ made' = made \cup {v}
        /\ pool' = pool \ {v}
  BY DEF Acquire
<1>3. /\ at[t] = "idle"
      /\ runs < MaxRuns
      /\ runs' = runs + 1
      /\ at' = [at EXCEPT ![t] = "load"]
      /\ UNCHANGED <<engine, cache, program>>
  BY DEF Acquire
<1>4. MaxRuns \in Nat /\ NoVm \notin Vms
  BY ScriptAssumption
<1>5. k \in Kinds /\ v \in Vms /\ runs + 1 \in 1..MaxRuns
  BY <1>1, <1>3, <1>4, KindFacts DEF TypeOK
<1>6. globals'[v] = [g \in Globals |-> IF g \in Sets[k] THEN runs + 1 ELSE globals[v][g]]
  BY <1>1, <1>2, <1>5 DEF TypeOK
<1>7. \A w \in Vms : w # v => globals'[w] = globals[w]
  BY <1>1, <1>2, <1>5 DEF TypeOK
<1>8. vm[t] = NoVm /\ vm'[t] = v /\ \A u \in Threads \ {t} : vm'[u] = vm[u] /\ job'[u] = job[u] /\ at'[u] = at[u]
  BY <1>1, <1>2, <1>3 DEF TypeOK, Owners
<1>9. job'[t] = [run |-> runs + 1, kind |-> k, script |-> s] /\ at'[t] = "load"
  BY <1>1, <1>2, <1>3 DEF TypeOK
<1>10. TypeOK'
  <2>1. globals' \in [Vms -> [Globals -> 0..MaxRuns]]
    <3>1. [g \in Globals |-> IF g \in Sets[k] THEN runs + 1 ELSE globals[v][g]] \in [Globals -> 0..MaxRuns]
      BY <1>1, <1>5 DEF TypeOK
    <3>2. QED
      BY <1>1, <1>2, <1>5, <3>1 DEF TypeOK
  <2>2. job' \in [Threads -> [run : 0..MaxRuns, kind : Kinds \cup {"none"}, script : Scripts \cup {"none"}]]
    BY <1>1, <1>2, <1>5 DEF TypeOK
  <2>3. QED
    BY <1>1, <1>2, <1>3, <1>5, <2>1, <2>2 DEF TypeOK
<1>11. \A u \in Threads : vm[u] # v
  BY <1>1, <1>2, <1>4, <1>5 DEF Owners
<1>12. Owners'
  <2>1. \A u \in Threads :
          /\ at'[u] = "idle" => vm'[u] = NoVm /\ job'[u] = NoJob
          /\ at'[u] \notin {"idle", "crashed"} =>
               vm'[u] # NoVm /\ job'[u].kind \in Engines[engine'] /\ job'[u].script \in Scripts
          /\ vm'[u] # NoVm => vm'[u] \in made' \ pool'
    <3>1. ASSUME NEW u \in Threads, u # t
          PROVE  /\ at'[u] = "idle" => vm'[u] = NoVm /\ job'[u] = NoJob
                 /\ at'[u] \notin {"idle", "crashed"} =>
                      vm'[u] # NoVm /\ job'[u].kind \in Engines[engine'] /\ job'[u].script \in Scripts
                 /\ vm'[u] # NoVm => vm'[u] \in made' \ pool'
      BY <1>1, <1>2, <1>3, <1>8, <3>1 DEF Owners
    <3>2. /\ at'[t] = "load" /\ vm'[t] # NoVm
          /\ job'[t].kind \in Engines[engine'] /\ job'[t].script \in Scripts
          /\ vm'[t] \in made' \ pool'
      BY <1>2, <1>3, <1>4, <1>5, <1>8, <1>9
    <3>3. QED
      BY <3>1, <3>2
  <2>2. \A u, w \in Threads : vm'[u] = vm'[w] => u = w \/ vm'[u] = NoVm
    BY <1>1, <1>8, <1>11 DEF Owners
  <2>3. \A w \in made' \ pool' : \E u \in Threads : vm'[u] = w
    <3>1. ASSUME NEW w \in made' \ pool', w # v PROVE \E u \in Threads : vm'[u] = w
      <4>1. PICK u \in Threads : vm[u] = w
        BY <1>1, <1>2, <3>1 DEF Owners
      <4>2. u # t
        BY <1>1, <1>2, <1>4, <1>8, <3>1, <4>1 DEF TypeOK
      <4>3. QED
        BY <1>8, <4>1, <4>2
    <3>2. QED
      BY <1>8, <3>1
  <2>4. QED
    BY <2>1, <2>2, <2>3 DEF Owners
<1>13. CleanVms'
  <2>1. \A w \in Vms : w \in pool' \/ w \notin made' => \A g \in EngineGlobals : globals'[w][g] = 0
    BY <1>1, <1>2, <1>7 DEF CleanVms
  <2>2. ASSUME NEW u \in Threads, vm'[u] # NoVm, NEW g \in EngineGlobals
        PROVE  globals'[vm'[u]][g] \in {0, job'[u].run}
    <3>1. CASE u = t
      <4>1. globals[v][g] = 0
        BY <1>1, <1>2, <1>5 DEF CleanVms
      <4>2. g \in Globals
        BY DEF Globals
      <4>3. QED
        BY <1>6, <1>8, <1>9, <3>1, <4>1, <4>2
    <3>2. CASE u # t
      <4>1. vm[u] # v /\ vm[u] \in Vms /\ vm'[u] = vm[u] /\ job'[u] = job[u]
        BY <1>1, <1>8, <1>11, <2>2, <3>2 DEF TypeOK
      <4>2. QED
        BY <1>1, <1>7, <2>2, <4>1 DEF CleanVms
    <3>3. QED
      BY <3>1, <3>2
  <2>3. QED
    BY <2>1, <2>2 DEF CleanVms
<1>14. CacheIsRight' /\ RunsItsScript'
  BY <1>1, <1>3, <1>8, <1>9 DEF CacheIsRight, RunsItsScript
<1>15. LockedRuns'
  <2>1. k \in Locked => \A u \in Threads \ {t} : job[u].kind \notin Locked
    BY <1>1, <1>2, KindFacts DEF Owners, NoJob
  <2>2. QED
    BY <1>1, <1>8, <1>9, <2>1 DEF LockedRuns, InState
<1>16. QED
  BY <1>10, <1>12, <1>13, <1>14, <1>15 DEF EngineInv

\* The steps between Acquire and Release that touch neither VM nor state.
LEMMA ProgramStep ==
  ASSUME EngineInv, NEW t \in Threads, Load(t) \/ Compile(t) \/ CompileFails(t) PROVE EngineInv'
<1>1. TypeOK /\ Owners /\ CleanVms /\ CacheIsRight /\ RunsItsScript /\ LockedRuns
  BY DEF EngineInv
<1>2. UNCHANGED <<engine, made, pool, globals, job, vm, runs>>
  BY DEF Load, Compile, CompileFails
<1>3. PICK a \in {"compile", "run", "release"} : at' = [at EXCEPT ![t] = a]
  BY DEF Load, Compile, CompileFails
<1>4. at[t] \in {"load", "compile"}
  BY DEF Load, Compile, CompileFails
<1>5. /\ at'[t] = a
      /\ \A u \in Threads \ {t} : at'[u] = at[u] /\ program'[u] = program[u]
  BY <1>1, <1>3 DEF TypeOK, Load, Compile, CompileFails
<1>6. Wrapped(job[t]) \in Program
  <2>1. job[t].kind \in Kinds /\ job[t].script \in Scripts
    BY <1>1, <1>4, KindFacts DEF TypeOK, Owners
  <2>2. QED
    BY <2>1 DEF Wrapped, Program
<1>7. /\ CacheIsRight'
      /\ cache' \subseteq cache \cup {[key |-> Wrapped(job[t]), program |-> Wrapped(job[t])]}
  BY <1>1 DEF CacheIsRight, Load, Compile, CompileFails, CacheKey
<1>8. at'[t] = "run" => program' = [program EXCEPT ![t] = Wrapped(job[t])]
  BY <1>1, <1>5 DEF Load, Compile, CompileFails, CacheIsRight, CacheKey, TypeOK
<1>9. at'[t] # "run" => UNCHANGED program
  BY <1>1, <1>5 DEF Load, Compile, CompileFails, TypeOK
<1>10. TypeOK'
  <2>1. at' \in [Threads -> {"idle", "load", "compile", "run", "state", "release", "crashed"}]
    BY <1>1, <1>3 DEF TypeOK
  <2>2. program' \in [Threads -> Program \cup {NoProgram}]
    BY <1>1, <1>6, <1>8, <1>9 DEF TypeOK
  <2>3. cache' \subseteq [key : Program, program : Program]
    BY <1>1, <1>6, <1>7 DEF TypeOK
  <2>4. QED
    BY <1>1, <1>2, <2>1, <2>2, <2>3 DEF TypeOK
<1>11. Owners'
  BY <1>1, <1>2, <1>4, <1>5 DEF Owners
<1>12. CleanVms'
  BY <1>1, <1>2 DEF CleanVms
<1>13. RunsItsScript'
  BY <1>1, <1>2, <1>5, <1>8 DEF RunsItsScript, TypeOK
<1>14. LockedRuns'
  BY <1>1, <1>2, <1>3, <1>5 DEF LockedRuns, InState
<1>15. QED
  BY <1>7, <1>10, <1>11, <1>12, <1>13, <1>14 DEF EngineInv

LEMMA RunStep ==
  ASSUME EngineInv, NEW t \in Threads, Run(t) PROVE EngineInv'
<1>1. TypeOK /\ Owners /\ CleanVms /\ CacheIsRight /\ RunsItsScript /\ LockedRuns
  BY DEF EngineInv
<1>2. /\ at[t] = "run"
      /\ UNCHANGED <<engine, made, pool, cache, job, vm, program, runs>>
      /\ globals' \in {globals, [globals EXCEPT ![vm[t]]["own"] = job[t].run]}
  BY DEF Run
<1>3. vm[t] \in Vms /\ job[t].run \in 0..MaxRuns /\ job[t].kind \in Engines[engine]
  BY <1>1, <1>2 DEF TypeOK, Owners
<1>4. /\ globals' \in [Vms -> [Globals -> 0..MaxRuns]]
      /\ \A v \in Vms : \A g \in EngineGlobals : globals'[v][g] = globals[v][g]
  <2>1. "own" \in Globals /\ "own" \notin EngineGlobals /\ EngineGlobals \subseteq Globals
    BY DEF Globals, EngineGlobals
  <2>2. globals \in [Vms -> [Globals -> 0..MaxRuns]]
    BY <1>1 DEF TypeOK
  <2>3. QED
    BY <1>2, <1>3, <2>1, <2>2, SMTT(60)
<1>5. PICK a \in {"release", "state"} : at' = [at EXCEPT ![t] = a]
  BY DEF Run
<1>6. at'[t] = a /\ \A u \in Threads \ {t} : at'[u] = at[u]
  BY <1>1, <1>5 DEF TypeOK
<1>7. a = "state" => job[t].kind \in Stateful
  BY <1>1, <1>5, <1>6 DEF Run
<1>8. TypeOK'
  <2>1. at' \in [Threads -> {"idle", "load", "compile", "run", "state", "release", "crashed"}]
    BY <1>1, <1>5 DEF TypeOK
  <2>2. QED
    BY <1>1, <1>2, <1>4, <2>1 DEF TypeOK
<1>9. Owners'
  BY <1>1, <1>2, <1>6 DEF Owners
<1>10. CleanVms'
  <2>1. \A u \in Threads : vm[u] # NoVm => vm[u] \in Vms
    BY <1>1 DEF TypeOK
  <2>2. QED
    BY <1>1, <1>2, <1>4, <2>1 DEF CleanVms
<1>11. CacheIsRight' /\ RunsItsScript'
  BY <1>1, <1>2, <1>6 DEF CacheIsRight, RunsItsScript
<1>12. LockedRuns'
  BY <1>1, <1>2, <1>6, <1>7 DEF LockedRuns, InState
<1>13. QED
  BY <1>8, <1>9, <1>10, <1>11, <1>12 DEF EngineInv

LEMMA LeaveStateStep ==
  ASSUME EngineInv, NEW t \in Threads, LeaveState(t) PROVE EngineInv'
<1>1. TypeOK /\ Owners /\ CleanVms /\ CacheIsRight /\ RunsItsScript /\ LockedRuns
  BY DEF EngineInv
<1>2. /\ at[t] = "state"
      /\ at' = [at EXCEPT ![t] = "release"]
      /\ UNCHANGED <<engine, made, pool, globals, cache, job, vm, program, runs>>
  BY DEF LeaveState, InState
<1>3. at'[t] = "release" /\ \A u \in Threads \ {t} : at'[u] = at[u]
  BY <1>1, <1>2 DEF TypeOK
<1>4. TypeOK'
  BY <1>1, <1>2 DEF TypeOK
<1>5. Owners' /\ CleanVms'
  BY <1>1, <1>2, <1>3 DEF Owners, CleanVms
<1>6. CacheIsRight' /\ RunsItsScript' /\ LockedRuns'
  BY <1>1, <1>2, <1>3 DEF CacheIsRight, RunsItsScript, LockedRuns, InState
<1>7. QED
  BY <1>4, <1>5, <1>6 DEF EngineInv

LEMMA MapRaceStep ==
  ASSUME EngineInv, NEW t \in Threads, NEW u \in Threads, MapRace(t, u) PROVE EngineInv'
<1>1. TypeOK /\ Owners /\ CleanVms /\ CacheIsRight /\ RunsItsScript /\ LockedRuns
  BY DEF EngineInv
<1>2. /\ at' = [x \in Threads |-> "crashed"]
      /\ UNCHANGED <<engine, made, pool, globals, cache, job, vm, program, runs>>
  BY DEF MapRace
<1>3. TypeOK'
  BY <1>1, <1>2 DEF TypeOK
<1>4. Owners' /\ CleanVms'
  BY <1>1, <1>2 DEF Owners, CleanVms
<1>5. CacheIsRight' /\ RunsItsScript' /\ LockedRuns'
  BY <1>1, <1>2 DEF CacheIsRight, RunsItsScript, LockedRuns, InState
<1>6. QED
  BY <1>3, <1>4, <1>5 DEF EngineInv

LEMMA ReleaseStep ==
  ASSUME EngineInv, NEW t \in Threads, Release(t) PROVE EngineInv'
<1>1. TypeOK /\ Owners /\ CleanVms /\ CacheIsRight /\ RunsItsScript /\ LockedRuns
  BY DEF EngineInv
<1>2. /\ at[t] = "release"
      /\ globals' = ResetVM(vm[t])
      /\ pool' = pool \cup {vm[t]}
      /\ at' = [at EXCEPT ![t] = "idle"]
      /\ job' = [job EXCEPT ![t] = NoJob]
      /\ vm' = [vm EXCEPT ![t] = NoVm]
      /\ program' = [program EXCEPT ![t] = NoProgram]
      /\ UNCHANGED <<engine, made, cache, runs>>
  BY DEF Release
<1>3. vm[t] \in Vms /\ vm[t] \in made \ pool /\ vm[t] # NoVm
  BY <1>1, <1>2 DEF TypeOK, Owners
<1>4. /\ globals'[vm[t]] = [g \in Globals |-> IF g \in EngineGlobals THEN 0 ELSE globals[vm[t]][g]]
      /\ \A w \in Vms : w # vm[t] => globals'[w] = globals[w]
  BY <1>1, <1>2, <1>3 DEF TypeOK, ResetVM
<1>5. /\ at'[t] = "idle" /\ vm'[t] = NoVm /\ job'[t] = NoJob
      /\ \A u \in Threads \ {t} : at'[u] = at[u] /\ vm'[u] = vm[u] /\ job'[u] = job[u]
                                 /\ program'[u] = program[u]
  BY <1>1, <1>2 DEF TypeOK
<1>6. TypeOK'
  <2>1. globals' \in [Vms -> [Globals -> 0..MaxRuns]]
    <3>1. MaxRuns \in Nat
      BY ScriptAssumption
    <3>2. [g \in Globals |-> IF g \in EngineGlobals THEN 0 ELSE globals[vm[t]][g]] \in [Globals -> 0..MaxRuns]
      BY <1>1, <1>3, <3>1 DEF TypeOK
    <3>3. QED
      BY <1>1, <1>2, <1>3, <3>2 DEF TypeOK, ResetVM
  <2>2. job' \in [Threads -> [run : 0..MaxRuns, kind : Kinds \cup {"none"}, script : Scripts \cup {"none"}]]
    BY <1>1, <1>2, ScriptAssumption DEF TypeOK, NoJob
  <2>3. QED
    BY <1>1, <1>2, <1>3, <2>1, <2>2 DEF TypeOK
<1>7. Owners'
  <2>1. \A u \in Threads \ {t} : vm[u] # vm[t]
    BY <1>1, <1>3 DEF Owners
  <2>2. \A u \in Threads :
          /\ at'[u] = "idle" => vm'[u] = NoVm /\ job'[u] = NoJob
          /\ at'[u] \notin {"idle", "crashed"} =>
               vm'[u] # NoVm /\ job'[u].kind \in Engines[engine'] /\ job'[u].script \in Scripts
          /\ vm'[u] # NoVm => vm'[u] \in made' \ pool'
    BY <1>1, <1>2, <1>5, <2>1 DEF Owners
  <2>3. \A u, w \in Threads : vm'[u] = vm'[w] => u = w \/ vm'[u] = NoVm
    BY <1>1, <1>5 DEF Owners
  <2>4. \A v \in made' \ pool' : \E u \in Threads : vm'[u] = v
    BY <1>1, <1>2, <1>5 DEF Owners
  <2>5. QED
    BY <2>2, <2>3, <2>4 DEF Owners
<1>8. CleanVms'
  <2>1. \A g \in EngineGlobals : globals'[vm[t]][g] = 0
    BY <1>4 DEF Globals
  <2>2. \A v \in Vms : v \in pool' \/ v \notin made' => \A g \in EngineGlobals : globals'[v][g] = 0
    BY <1>1, <1>2, <1>4, <2>1 DEF CleanVms
  <2>3. ASSUME NEW u \in Threads, vm'[u] # NoVm, NEW g \in EngineGlobals
        PROVE  globals'[vm'[u]][g] \in {0, job'[u].run}
    <3>1. u # t /\ vm'[u] = vm[u] /\ job'[u] = job[u]
      BY <1>5, <2>3
    <3>2. vm[u] # vm[t] /\ vm[u] \in Vms
      BY <1>1, <1>3, <2>3, <3>1 DEF Owners, TypeOK
    <3>3. QED
      BY <1>1, <1>4, <2>3, <3>1, <3>2 DEF CleanVms
  <2>4. QED
    BY <2>2, <2>3 DEF CleanVms
<1>9. CacheIsRight' /\ RunsItsScript'
  BY <1>1, <1>2, <1>5 DEF CacheIsRight, RunsItsScript
<1>10. LockedRuns'
  BY <1>1, <1>5, KindFacts DEF LockedRuns, InState, NoJob
<1>11. QED
  BY <1>6, <1>7, <1>8, <1>9, <1>10 DEF EngineInv

LEMMA CollectStep ==
  ASSUME EngineInv, NEW v \in Vms, Collect(v) PROVE EngineInv'
<1>1. TypeOK /\ Owners /\ CleanVms /\ CacheIsRight /\ RunsItsScript /\ LockedRuns
  BY DEF EngineInv
<1>2. /\ v \in pool
      /\ pool' = pool \ {v} /\ made' = made \ {v}
      /\ globals' = [globals EXCEPT ![v] = [g \in Globals |-> 0]]
      /\ UNCHANGED <<engine, cache, at, job, vm, program, runs>>
  BY DEF Collect, Undefined
<1>3. /\ globals'[v] = [g \in Globals |-> 0]
      /\ \A w \in Vms : w # v => globals'[w] = globals[w]
  BY <1>1, <1>2 DEF TypeOK
<1>4. TypeOK'
  <2>1. globals' \in [Vms -> [Globals -> 0..MaxRuns]]
    BY <1>1, <1>2, ScriptAssumption DEF TypeOK
  <2>2. QED
    BY <1>1, <1>2, <2>1 DEF TypeOK
<1>5. \A u \in Threads : vm[u] # NoVm => vm[u] # v /\ vm[u] \in Vms
  BY <1>1, <1>2 DEF Owners, TypeOK
<1>6. Owners'
  BY <1>1, <1>2, <1>5 DEF Owners
<1>7. CleanVms'
  <2>1. \A g \in EngineGlobals : globals'[v][g] = 0
    BY <1>3 DEF Globals
  <2>2. \A w \in Vms : w \in pool' \/ w \notin made' => \A g \in EngineGlobals : globals'[w][g] = 0
    BY <1>1, <1>2, <1>3, <2>1 DEF CleanVms
  <2>3. QED
    BY <1>1, <1>2, <1>3, <1>5, <2>2 DEF CleanVms
<1>8. CacheIsRight' /\ RunsItsScript' /\ LockedRuns'
  BY <1>1, <1>2 DEF CacheIsRight, RunsItsScript, LockedRuns, InState
<1>9. QED
  BY <1>4, <1>6, <1>7, <1>8 DEF EngineInv

-----------------------------------------------------------------------------
LEMMA EngineInit == Init => EngineInv
<1>1. SUFFICES ASSUME Init PROVE EngineInv
  OBVIOUS
<1>2. TypeOK
  <2>1. globals \in [Vms -> [Globals -> 0..MaxRuns]] /\ runs \in 0..MaxRuns
    BY <1>1, ScriptAssumption DEF Init
  <2>2. job \in [Threads -> [run : 0..MaxRuns, kind : Kinds \cup {"none"}, script : Scripts \cup {"none"}]]
    BY <1>1, ScriptAssumption DEF Init, NoJob
  <2>3. QED
    BY <1>1, <2>1, <2>2 DEF Init, TypeOK
<1>3. Owners /\ CleanVms
  BY <1>1 DEF Init, Owners, CleanVms, Globals
<1>4. CacheIsRight /\ RunsItsScript
  BY <1>1 DEF Init, CacheIsRight, RunsItsScript
<1>5. LockedRuns
  BY <1>1, KindFacts DEF Init, LockedRuns, InState, NoJob
<1>6. QED
  BY <1>2, <1>3, <1>4, <1>5 DEF EngineInv

LEMMA EngineNext == EngineInv /\ [Next]_vars => EngineInv'
<1>1. ASSUME EngineInv, Next PROVE EngineInv'
  BY <1>1, AcquireStep, ProgramStep, RunStep, LeaveStateStep, MapRaceStep, ReleaseStep, CollectStep
     DEF Next, Step
<1>2. ASSUME EngineInv, UNCHANGED vars PROVE EngineInv'
  BY <1>2 DEF vars, EngineInv, TypeOK, Owners, CleanVms, CacheIsRight, RunsItsScript,
     LockedRuns, InState
<1>3. QED
  BY <1>1, <1>2

\* The ownership of VMs, what their globals hold, what the cache holds and who
\* uses the state, at every control point of a run.
THEOREM EngineInvariant == Spec => []EngineInv
BY EngineInit, EngineNext, PTL DEF Spec

\* resetVM clears everything that an earlier run was given: a script finds
\* nothing in the globals of the engine that was not set for its own run.
THEOREM ScriptsAreIsolated == Spec => []NoContamination
<1>1. EngineInv => NoContamination
  BY DEF EngineInv, Owners, CleanVms, NoContamination
<1>2. QED
  BY <1>1, EngineInvariant, PTL

\* VMPool: every VM is in the pool or with exactly one goroutine.
THEOREM PoolIsExact == Spec => []VmIsOwn
<1>1. ASSUME EngineInv, NEW v \in made
      PROVE  Cardinality({t \in Threads : vm[t] = v}) = IF v \in pool THEN 0 ELSE 1
  <2>1. v # NoVm
    BY <1>1, ScriptAssumption DEF EngineInv, TypeOK
  <2>2. CASE v \in pool
    <3>1. {t \in Threads : vm[t] = v} = {}
      BY <1>1, <2>1, <2>2 DEF EngineInv, Owners
    <3>2. QED
      BY <2>2, <3>1, FS_EmptySet
  <2>3. CASE v \notin pool
    <3>1. PICK t \in Threads : vm[t] = v
      BY <1>1, <2>3 DEF EngineInv, Owners
    <3>2. {u \in Threads : vm[u] = v} = {t}
      BY <1>1, <2>1, <3>1 DEF EngineInv, Owners
    <3>3. QED
      BY <2>3, <3>2, FS_Singleton
  <2>4. QED
    BY <2>2, <2>3
<1>2. EngineInv => VmIsOwn
  BY <1>1 DEF VmIsOwn
<1>3. QED
  BY <1>2, EngineInvariant, PTL

\* The program cache never gives a run the program of another script or kind.
THEOREM ProgramsAreRight == Spec => []RunsItsScript
<1>1. EngineInv => RunsItsScript
  BY DEF EngineInv
<1>2. QED
  BY <1>1, EngineInvariant, PTL

-----------------------------------------------------------------------------
(* Isolated runs                                                            *)

LEMMA CompiledOnlyInit == Init => CompiledOnly
BY DEF Init, CompiledOnly

LEMMA CompiledOnlyNext == CompiledOnly /\ [Next]_vars => CompiledOnly'
<1> SUFFICES ASSUME CompiledOnly, [Next]_vars PROVE CompiledOnly'
  OBVIOUS
<1>1. ASSUME NEW t \in Threads, Compile(t) PROVE CompiledOnly'
  BY <1>1 DEF Compile, CompiledOnly, CacheKey, Wrapped
<1>2. CASE UNCHANGED cache
  BY <1>2 DEF CompiledOnly
<1>3. QED
  BY <1>1, <1>2 DEF Next, Step, Acquire, Load, CompileFails, Run, LeaveState, Release, MapRace, Collect, vars

\* A step that the contract allows, or does not see.
Allowed == [Isolated!ContractNext]_(Isolated!contractVars)

\* What the contract sees of a step of one goroutine.
LEMMA StageMoves ==
  ASSUME TypeOK, NEW t \in Threads, NEW a, at' = [at EXCEPT ![t] = a]
  PROVE  Stage' = [Stage EXCEPT ![t] = CASE a \in {"load", "compile"} -> "begun"
                                         [] a \in {"run", "state"}   -> "running"
                                         [] a = "release"             -> "ended"
                                         [] OTHER                     -> a]
BY DEF TypeOK, Stage

LEMMA StageIs ==
  ASSUME TypeOK, NEW t \in Threads
  PROVE  /\ at[t] = "idle" => Stage[t] = "idle"
         /\ at[t] \in {"load", "compile"} => Stage[t] = "begun"
         /\ at[t] \in {"run", "state"} => Stage[t] = "running"
         /\ at[t] = "release" => Stage[t] = "ended"
BY DEF TypeOK, Stage

\* The input of a run depends on its VM only.
LEMMA InputKept ==
  ASSUME vm' = vm, \A t \in Threads : vm[t] # NoVm =>
           \A g \in EngineGlobals : globals'[vm[t]][g] = globals[vm[t]][g]
  PROVE  Input' = Input
<1>1. ASSUME NEW t \in Threads PROVE Finds(t)' = Finds(t)
  BY DEF Finds
<1>2. QED
  BY <1>1 DEF Input

LEMMA AcquireAllowed ==
  ASSUME EngineInv, NEW t \in Threads, Acquire(t) PROVE Allowed
<1>1. TypeOK /\ Owners /\ CleanVms
  BY DEF EngineInv
<1>2. PICK k \in Engines[engine], s \in Scripts, v \in pool \cup (Vms \ made) :
        /\ k \in Locked => \A u \in Threads : at[u] = "idle" \/ job[u].kind \notin Locked
        /\ job' = [job EXCEPT ![t] = [run |-> runs + 1, kind |-> k, script |-> s]]
        /\ vm' = [vm EXCEPT ![t] = v]
        /\ globals' = [globals EXCEPT ![v] = [g \in Globals |-> IF g \in Sets[k] THEN runs + 1 ELSE @[g]]]
        /\ made' = made \cup {v}
        /\ pool' = pool \ {v}
  BY DEF Acquire
<1>3. at[t] = "idle" /\ runs' = runs + 1 /\ at' = [at EXCEPT ![t] = "load"] /\ UNCHANGED program
  BY DEF Acquire
<1>4. k \in Kinds /\ v \in Vms /\ v # NoVm
  BY <1>1, <1>2, KindFacts, ScriptAssumption DEF TypeOK
<1>5. globals'[v] = [g \in Globals |-> IF g \in Sets[k] THEN runs + 1 ELSE globals[v][g]]
      /\ \A w \in Vms : w # v => globals'[w] = globals[w]
  BY <1>1, <1>2, <1>4 DEF TypeOK
<1>6. \A g \in EngineGlobals : globals[v][g] = 0 /\ g \in Globals
  BY <1>1, <1>2, <1>4 DEF CleanVms, Globals
<1>7. vm'[t] = v /\ \A u \in Threads : u # t => vm'[u] = vm[u] /\ vm[u] # v /\ vm[u] \in Vms \cup {NoVm}
  BY <1>1, <1>2, <1>4 DEF TypeOK, Owners
<1>8. Input' = [Input EXCEPT ![t] = [g \in EngineGlobals |-> IF g \in Sets[k] THEN runs + 1 ELSE 0]]
  <2>1. Finds(t)' = [g \in EngineGlobals |-> IF g \in Sets[k] THEN runs + 1 ELSE 0]
    BY <1>4, <1>5, <1>6, <1>7 DEF Finds
  <2>2. \A u \in Threads : u # t => Finds(u)' = Finds(u)
    BY <1>5, <1>7 DEF Finds
  <2>3. QED
    BY <2>1, <2>2 DEF Input
<1>9. Stage' = [Stage EXCEPT ![t] = "begun"] /\ Stage[t] = "idle"
  BY <1>1, <1>3, StageMoves, StageIs
<1>10. Isolated!Begin(t)
  BY <1>2, <1>3, <1>4, <1>8, <1>9 DEF Isolated!Begin, Isolated!Goes, Kinds
<1>11. QED
  BY <1>10 DEF Allowed, Isolated!ContractNext

\* A step that changes neither a VM nor a job.
LEMMA VmsKept ==
  ASSUME UNCHANGED <<globals, vm>>
  PROVE  Input' = Input
BY InputKept

\* What runs is what the goroutine's own compiler would have made.
LEMMA Starts ==
  ASSUME EngineInv, NEW t \in Threads, at[t] \in {"load", "compile"}, at' = [at EXCEPT ![t] = "run"],
         program' = [program EXCEPT ![t] = Wrapped(job[t])], job[t].script \notin BadScripts,
         UNCHANGED <<globals, vm, job, runs>>
  PROVE  Allowed
<1>1. TypeOK
  BY DEF EngineInv
<1>2. Stage' = [Stage EXCEPT ![t] = "running"] /\ Stage[t] = "begun"
  BY <1>1, StageMoves, StageIs
<1>3. Isolated!Start(t)
  BY <1>2, VmsKept DEF Isolated!Start, Isolated!Goes, Wrapped
<1>4. QED
  BY <1>3 DEF Allowed, Isolated!ContractNext

LEMMA ProgramAllowed ==
  ASSUME EngineInv, CompiledOnly, NEW t \in Threads, Load(t) \/ Compile(t) \/ CompileFails(t)
  PROVE  Allowed
<1>1. TypeOK /\ CacheIsRight
  BY DEF EngineInv
<1>2. UNCHANGED <<globals, vm, job, runs>> /\ Input' = Input
  BY VmsKept DEF Load, Compile, CompileFails
<1>3. CASE Load(t) /\ at' = [at EXCEPT ![t] = "compile"] /\ UNCHANGED program
  <2>1. Stage[t] = "begun"
    BY <1>1, <1>3, StageIs DEF Load
  <2>2. Stage' = [Stage EXCEPT ![t] = "begun"]
    BY <1>1, <1>3, StageMoves
  <2>3. Stage' = Stage
    BY <2>1, <2>2 DEF Stage
  <2>4. QED
    BY <1>2, <1>3, <2>3 DEF Allowed, Isolated!contractVars
<1>4. CASE Load(t) /\ \E c \in cache : /\ c.key = CacheKey(job[t])
                                       /\ program' = [program EXCEPT ![t] = c.program]
                                       /\ at' = [at EXCEPT ![t] = "run"]
  <2>1. PICK c \in cache : /\ c.key = Wrapped(job[t]) /\ c.program = Wrapped(job[t])
                           /\ program' = [program EXCEPT ![t] = c.program]
                           /\ at' = [at EXCEPT ![t] = "run"]
    BY <1>1, <1>4 DEF CacheIsRight, CacheKey
  <2>2. job[t].script \notin BadScripts
    BY <2>1 DEF CompiledOnly, Wrapped
  <2>3. QED
    BY <1>2, <1>4, <2>1, <2>2, Starts DEF Load
<1>5. CASE Compile(t)
  BY <1>2, <1>5, Starts DEF Compile
<1>6. CASE CompileFails(t)
  <2>1. Stage' = [Stage EXCEPT ![t] = "ended"] /\ Stage[t] = "begun"
    BY <1>1, <1>6, StageMoves, StageIs DEF CompileFails
  <2>2. Isolated!Refuse(t)
    BY <1>2, <1>6, <2>1 DEF CompileFails, Isolated!Refuse, Isolated!Goes
  <2>3. QED
    BY <2>2 DEF Allowed, Isolated!ContractNext
<1>7. QED
  BY <1>3, <1>4, <1>5, <1>6 DEF Load

LEMMA RunAllowed ==
  ASSUME EngineInv, NEW t \in Threads, Run(t) \/ LeaveState(t)
  PROVE  Allowed
<1>1. TypeOK /\ Owners
  BY DEF EngineInv
<1>2. at[t] \in {"run", "state"} /\ UNCHANGED <<vm, job, program, runs>>
  BY DEF Run, LeaveState, InState
<1>3. Input' = Input
  <2>1. CASE UNCHANGED globals
    BY <1>2, <2>1, VmsKept
  <2>2. CASE globals' = [globals EXCEPT ![vm[t]]["own"] = job[t].run]
    <3>1. "own" \notin EngineGlobals
      BY DEF EngineGlobals
    <3>2. \A u \in Threads : vm[u] # NoVm => vm[u] \in Vms
      BY <1>1 DEF TypeOK
    <3>3. \A v \in Vms : \A g \in EngineGlobals : globals'[v][g] = globals[v][g]
      BY <1>1, <2>2, <3>1 DEF TypeOK, Globals
    <3>4. QED
      BY <1>2, <3>2, <3>3, InputKept
  <2>3. QED
    BY <2>1, <2>2 DEF Run, LeaveState
<1>4. Stage[t] = "running"
  BY <1>1, <1>2, StageIs
<1>5. CASE at' = [at EXCEPT ![t] = "release"]
  <2>1. Stage' = [Stage EXCEPT ![t] = "ended"]
    BY <1>1, <1>5, StageMoves
  <2>2. Isolated!End(t)
    BY <1>2, <1>3, <1>4, <2>1 DEF Isolated!End, Isolated!Goes
  <2>3. QED
    BY <2>2 DEF Allowed, Isolated!ContractNext
<1>6. CASE at' = [at EXCEPT ![t] = "state"]
  <2>1. Stage' = [Stage EXCEPT ![t] = "running"]
    BY <1>1, <1>6, StageMoves
  <2>2. Stage' = Stage
    BY <1>4, <2>1 DEF Stage
  <2>3. QED
    BY <1>2, <1>3, <2>2 DEF Allowed, Isolated!contractVars
<1>7. QED
  BY <1>5, <1>6 DEF Run, LeaveState

LEMMA ReleaseAllowed ==
  ASSUME EngineInv, NEW t \in Threads, Release(t)
  PROVE  Allowed
<1>1. TypeOK /\ Owners
  BY DEF EngineInv
<1>2. /\ at[t] = "release" /\ globals' = ResetVM(vm[t])
      /\ at' = [at EXCEPT ![t] = "idle"]
      /\ job' = [job EXCEPT ![t] = NoJob]
      /\ vm' = [vm EXCEPT ![t] = NoVm]
      /\ program' = [program EXCEPT ![t] = NoProgram]
      /\ UNCHANGED runs
  BY DEF Release
<1>3. vm[t] \in Vms /\ vm[t] # NoVm /\ \A u \in Threads : u # t => vm[u] # vm[t] /\ vm[u] \in Vms \cup {NoVm}
  BY <1>1, <1>2 DEF TypeOK, Owners
<1>4. \A w \in Vms : w # vm[t] => globals'[w] = globals[w]
  BY <1>1, <1>2, <1>3 DEF TypeOK, ResetVM
<1>5. vm'[t] = NoVm /\ \A u \in Threads : u # t => vm'[u] = vm[u]
  BY <1>1, <1>2 DEF TypeOK
<1>6. Input' = [Input EXCEPT ![t] = [g \in EngineGlobals |-> 0]]
  <2>1. Finds(t)' = [g \in EngineGlobals |-> 0]
    BY <1>5 DEF Finds
  <2>2. \A u \in Threads : u # t => Finds(u)' = Finds(u)
    BY <1>3, <1>4, <1>5 DEF Finds
  <2>3. QED
    BY <2>1, <2>2 DEF Input
<1>7. Stage' = [Stage EXCEPT ![t] = "idle"] /\ Stage[t] = "ended"
  BY <1>1, <1>2, StageMoves, StageIs
<1>8. Isolated!Leave(t)
  BY <1>2, <1>6, <1>7
     DEF Isolated!Leave, Isolated!Goes, Isolated!Nothing, Isolated!NoJob, Isolated!NoProgram, NoJob, NoProgram
<1>9. QED
  BY <1>8 DEF Allowed, Isolated!ContractNext

LEMMA MapRaceAllowed ==
  ASSUME EngineInv, NEW t \in Threads, NEW u \in Threads, MapRace(t, u)
  PROVE  Allowed
<1>1. TypeOK /\ LockedRuns
  BY DEF EngineInv
<1>2. t # u /\ InState(t) /\ InState(u) /\ at' = [x \in Threads |-> "crashed"]
      /\ UNCHANGED <<globals, vm, job, program, runs>>
  BY DEF MapRace
<1>3. Stage' = [x \in Threads |-> "crashed"]
  BY <1>2 DEF Stage
<1>4. /\ Isolated!GivenState(t) /\ Isolated!GivenState(u)
      /\ ~{job[t].kind, job[u].kind} \subseteq Locked
  BY <1>1, <1>2, StageIs DEF LockedRuns, InState, Stateful, Isolated!GivenState
<1>5. Isolated!Crash
  BY <1>2, <1>3, <1>4, VmsKept DEF Isolated!Crash
<1>6. QED
  BY <1>5 DEF Allowed, Isolated!ContractNext

LEMMA CollectAllowed ==
  ASSUME EngineInv, NEW v \in Vms, Collect(v)
  PROVE  Allowed
<1>1. TypeOK /\ Owners
  BY DEF EngineInv
<1>2. v \in pool /\ globals' = Undefined(v) /\ UNCHANGED <<vm, at, job, program, runs>>
  BY DEF Collect
<1>3. \A t \in Threads : vm[t] # NoVm => vm[t] \in Vms /\ vm[t] # v
  BY <1>1, <1>2 DEF TypeOK, Owners
<1>4. \A w \in Vms : w # v => globals'[w] = globals[w]
  BY <1>1, <1>2 DEF TypeOK, Undefined
<1>5. Input' = Input
  BY <1>2, <1>3, <1>4, InputKept
<1>6. QED
  BY <1>2, <1>5 DEF Stage, Allowed, Isolated!contractVars

LEMMA ContractSteps ==
  EngineInv /\ CompiledOnly /\ [Next]_vars => [Isolated!ContractNext]_(Isolated!contractVars)
<1> SUFFICES ASSUME EngineInv, CompiledOnly, [Next]_vars PROVE Allowed
  BY DEF Allowed
<1>1. CASE Next
  BY <1>1, AcquireAllowed, ProgramAllowed, RunAllowed, ReleaseAllowed, MapRaceAllowed, CollectAllowed
     DEF Next, Step
<1>2. CASE UNCHANGED vars
  BY <1>2, VmsKept DEF vars, Stage, Allowed, Isolated!contractVars
<1>3. QED
  BY <1>1, <1>2

\* On pooled VMs and with a shared cache, runs are as isolated as if each had an
\* interpreter and a compiler of its own.
THEOREM EngineIsolatesRuns == Spec => RunsAreIsolated
<1>1. Init => Isolated!ContractInit
  <2>1. SUFFICES ASSUME Init PROVE Isolated!ContractInit
    OBVIOUS
  <2>2. Stage = [t \in Threads |-> "idle"]
    BY <2>1 DEF Init, Stage
  <2>3. Input = [t \in Threads |-> [g \in EngineGlobals |-> 0]]
    BY <2>1 DEF Init, Input, Finds
  <2>4. QED
    BY <2>1, <2>2, <2>3
       DEF Init, Isolated!ContractInit, Isolated!Nothing, Isolated!NoJob, Isolated!NoProgram, NoJob, NoProgram
<1>2. Init => EngineInv /\ CompiledOnly
  BY EngineInit, CompiledOnlyInit
<1>3. EngineInv /\ CompiledOnly /\ [Next]_vars => EngineInv' /\ CompiledOnly'
  BY EngineNext, CompiledOnlyNext
<1>4. QED
  BY <1>1, <1>2, <1>3, ContractSteps, PTL DEF Spec, RunsAreIsolated, Isolated!ContractSpec
=============================================================================
