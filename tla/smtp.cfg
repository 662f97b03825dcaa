\* Two SMTP sessions, Stop at any time.
SPECIFICATION FairSpec
CONSTANTS
  k1 = k1  k2 = k2
  Conns = {k1, k2}
  ChecksQuitFirst = TRUE
  NoConn = NoConn
  MaxLines = 7
  MaxDots = 1
  NoAddress = NoAddress
INVARIANTS OneOutlivesStop EnvelopeIsOwn TextIsTransparent
PROPERTIES ServesConnections AcceptLoopEnds
CHECK_DEADLOCK FALSE
