\* Two connections with or without a resolver, Stop at any time.
SPECIFICATION FairSpec
CONSTANTS
  k1 = k1  k2 = k2
  Conns = {k1, k2}
  ChecksQuitFirst = FALSE
  NoConn = NoConn
  MaxBytes = 2
  Resolve <- TwoBytes
  Answers = {"is", "inject", "proxy", "invalidProxy"}
  Nobody = Nobody
INVARIANTS RecordIsFaithful EndsAsResolved ScriptsAreSerial
PROPERTY ConnectionsEnd
CHECK_DEADLOCK FALSE
