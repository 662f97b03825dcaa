------------------------ MODULE MCImposterLifecycle ------------------------
(* Small instances of ImposterLifecycle for TLC. *)
EXTENDS ImposterLifecycle, TLC

CONSTANTS c1, c2, p1, p2, api, i1, i2, i3, i4, i5

\* Clients, identities and the ports other than the API's are interchangeable.
ClientsIdsPorts ==
  Permutations({c1, c2}) \cup Permutations(Ids) \cup Permutations(Ports \ {ApiPort})
=============================================================================
