\* Two goroutines, two VMs, three runs, a script that compiles and one that does not.
SPECIFICATION Spec
CONSTANTS
  t1 = t1  t2 = t2  v1 = v1  v2 = v2
  Threads = {t1, t2}
  Vms = {v1, v2}
  Scripts = {"good", "bad"}
  BadScripts = {"bad"}
  MaxRuns = 3
  NoVm = NoVm
INVARIANTS NoContamination VmIsOwn
PROPERTY RunsAreIsolated
CHECK_DEADLOCK FALSE
