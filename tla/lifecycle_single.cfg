\* Two clients that create and delete single imposters, of two protocols so
\* that two maps of the Manager are in play.
SPECIFICATION SingleSpec
CONSTANTS
  c1 = c1  c2 = c2  p1 = p1  p2 = p2  api = api
  i1 = i1  i2 = i2  i3 = i3  i4 = i4  i5 = i5
  Clients = {c1, c2}
  Ports = {p1, p2, api}
  ApiPort = api
  AnyPort = AnyPort
  Ids = {i1, i2, i3, i4, i5}
  Protocols = {"http", "tcp"}
  MaxBatch = 0
  MaxBoot = 0
  None = None
  Foreign = Foreign
SYMMETRY ClientsIdsPorts
INVARIANT RepoIsServed
PROPERTY StopsOwnServerOnly
