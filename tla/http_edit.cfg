\* Two requests that match and record while an admin request edits the list.
SPECIFICATION Spec
CONSTANTS
  h1 = h1  h2 = h2  e1 = e1  r1 = r1  r2 = r2
  Handlers = {h1, h2}
  Editors = {e1}
  Requests = {r1, r2}
  AnyRequest = AnyRequest
  InitialStubs <- OneProxy
  Defaults <- NoDefault
  Edits <- AllEdits
  Spare = 1
  MaxReplies = 2
  MaxEdits = 1
  None = None
SYMMETRY HandlersSymmetric
INVARIANTS OwnReply 
CHECK_DEADLOCK FALSE
