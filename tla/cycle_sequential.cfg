\* One request at a time, over more than one round of the cycle.
SPECIFICATION Spec
CONSTANTS
  c1 = c1  c2 = c2  c3 = c3
  Callers = {c1}
  N = 3
  Repeat <- OneTwoThree
  MaxRepeat = 3
  MaxCalls = 60
PROPERTY ServedAsDocumented
CHECK_DEADLOCK FALSE
