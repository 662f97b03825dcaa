\* Calls on two ports, with crashes and failures.
SPECIFICATION Spec
CONSTANTS
  n1 = n1  n2 = n2  n3 = n3  n4 = n4  s1 = s1  s2 = s2
  Ports = {1, 2}
  Stubs = {s1, s2}
  Names = {n1, n2, n3, n4}
  MaxStubs = 2
  MaxCalls = 5
  MaxFaults = 2
  None = None
  Partial = Partial
  Broken = Broken
  NoDir = NoDir
SYMMETRY Symmetric
INVARIANTS AgreesWithMemory NoGarbage
PROPERTY KeepsContract
CHECK_DEADLOCK FALSE
