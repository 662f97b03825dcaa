---------------------------- MODULE IsolatedRuns ----------------------------
(***************************************************************************)
(* What a script engine promises to a run: an interpreter of its own, new  *)
(* and with nothing in its globals but what the engine gives to a run of   *)
(* its kind, and a compiler of its own.  There are no pooled VMs here and  *)
(* no cache.  One thing is shared: the state of the imposter, and only two *)
(* runs that are both given it, and are not run one after the other, can   *)
(* bring the process down.                                                 *)
(***************************************************************************)
EXTENDS Naturals

CONSTANTS
  Threads,     \* goroutines that run scripts
  Scripts,     \* texts of scripts
  BadScripts,  \* those that do not compile
  Globals,     \* global variables that the engine deals with
  Given,       \* of each kind of run, the globals that it is given
  Serial       \* kinds of runs that come one after the other

VARIABLES
  stage,    \* of each goroutine: "idle", "begun", "running", "ended", "crashed"
  job,      \* its run: number, kind, script
  input,    \* each global as its script finds it: the run that it was set for, or 0
  program,  \* what runs
  runs      \* runs begun so far

contractVars == <<stage, job, input, program, runs>>

NoJob == [run |-> 0, kind |-> "none", script |-> "none"]
NoProgram == [kind |-> "none", script |-> "none"]
Nothing == [g \in Globals |-> 0]

Goes(t, from, to) == stage[t] = from /\ stage' = [stage EXCEPT ![t] = to]

Begin(t) ==
  /\ Goes(t, "idle", "begun")
  /\ runs' = runs + 1
  /\ \E k \in DOMAIN Given, s \in Scripts :
       /\ job' = [job EXCEPT ![t] = [run |-> runs + 1, kind |-> k, script |-> s]]
       /\ input' = [input EXCEPT ![t] = [g \in Globals |-> IF g \in Given[k] THEN runs + 1 ELSE 0]]
  /\ UNCHANGED program

\* Its own script runs, in the function of its kind ...
Start(t) ==
  /\ Goes(t, "begun", "running")
  /\ job[t].script \notin BadScripts
  /\ program' = [program EXCEPT ![t] = [kind |-> job[t].kind, script |-> job[t].script]]
  /\ UNCHANGED <<job, input, runs>>

\* ... unless it does not compile.
Refuse(t) ==
  /\ Goes(t, "begun", "ended")
  /\ job[t].script \in BadScripts
  /\ UNCHANGED <<job, input, program, runs>>

End(t) == Goes(t, "running", "ended") /\ UNCHANGED <<job, input, program, runs>>

Leave(t) ==
  /\ Goes(t, "ended", "idle")
  /\ job' = [job EXCEPT ![t] = NoJob]
  /\ input' = [input EXCEPT ![t] = Nothing]
  /\ program' = [program EXCEPT ![t] = NoProgram]
  /\ UNCHANGED runs

GivenState(t) == stage[t] = "running" /\ "state" \in Given[job[t].kind]

Crash ==
  /\ \E t, u \in Threads :
       t # u /\ GivenState(t) /\ GivenState(u) /\ ~{job[t].kind, job[u].kind} \subseteq Serial
  /\ stage' = [t \in Threads |-> "crashed"]
  /\ UNCHANGED <<job, input, program, runs>>

ContractInit ==
  /\ stage = [t \in Threads |-> "idle"]
  /\ job = [t \in Threads |-> NoJob]
  /\ input = [t \in Threads |-> Nothing]
  /\ program = [t \in Threads |-> NoProgram]
  /\ runs = 0

ContractNext ==
  \/ \E t \in Threads : Begin(t) \/ Start(t) \/ Refuse(t) \/ End(t) \/ Leave(t)
  \/ Crash

ContractSpec == ContractInit /\ [][ContractNext]_contractVars
=============================================================================
