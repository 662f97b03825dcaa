\* Two clients with every request of the admin API, a config file and shutdown.
SPECIFICATION Spec
CONSTANTS
  c1 = c1  c2 = c2  p1 = p1  p2 = p2  api = api
  i1 = i1  i2 = i2  i3 = i3  i4 = i4  i5 = i5
  Clients = {c1, c2}
  Ports = {p1, p2, api}
  ApiPort = api
  AnyPort = AnyPort
  Ids = {i1, i2, i3}
  Protocols = {"http", "tcp"}
  MaxBatch = 1
  MaxBoot = 1
  None = None
  Foreign = Foreign
SYMMETRY ClientsIdsPorts
INVARIANT NoLeakedSocket
PROPERTY DeleteAllClosesSockets
