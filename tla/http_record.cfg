\* Overlapping requests to imposters that record, once or always, and Stop.
SPECIFICATION FairSpec
CONSTANTS
  h1 = h1  h2 = h2  r1 = r1  r2 = r2
  Handlers = {h1, h2}
  Requests = {r1, r2}
  AnyRequest = AnyRequest
  InitialStubs <- RecordingStubs
  Defaults <- OnceDefaults
  MaxReplies = 2
  None = None
  Stop = Stop
INVARIANTS SavedOnce SavedIsReplayed RepliesGrouped
PROPERTY RequestsAnswered
CHECK_DEADLOCK FALSE
