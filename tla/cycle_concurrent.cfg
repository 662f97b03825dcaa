\* Three concurrent requests, no repeats.
SPECIFICATION Spec
CONSTANTS
  c1 = c1  c2 = c2  c3 = c3
  Callers = {c1, c2, c3}
  N = 3
  Repeat <- NoRepeats
  MaxRepeat = 1
  MaxCalls = 10
SYMMETRY CallersSymmetric
INVARIANTS RepeatCountBounded IndexCountsCalls
CHECK_DEADLOCK FALSE
