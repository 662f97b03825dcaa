\* Requests to an imposter of any protocol while its log is cleared by two admin requests.
SPECIFICATION Spec
CONSTANTS
  h1 = h1  h2 = h2  x1 = x1  x2 = x2
  Handlers = {h1, h2}
  Resetters = {x1, x2}
  MaxRequests = 4
  MaxResets = 3
  None = None
SYMMETRY Symmetric
INVARIANTS HttpStaysCleared CountsAgree
PROPERTY NothingElseIsLost
CHECK_DEADLOCK FALSE
