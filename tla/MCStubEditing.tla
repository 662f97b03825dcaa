--------------------------- MODULE MCStubEditing ---------------------------
(* A small instance of StubEditing for TLC. *)
EXTENDS StubEditing, TLC

CONSTANTS h1, h2, e1, r1, r2

UserStub(on, response) ==
  [on |-> on, responses |-> <<response>>, isProxyGenerated |-> FALSE]

CatchAll(mode) == UserStub(AnyRequest, Proxy(mode))

\* A proxy that records once, and one that records always in front of a stub
\* with the predicates that it will generate.
OneProxy ==
  {<<CatchAll("proxyOnce")>>, <<CatchAll("proxyAlways"), UserStub(r1, Canned(1))>>}

NoDefault == {Empty}

Add(i, k) == [op |-> "add", index |-> i, stub |-> UserStub(r1, Canned(k))]

Put(stubs) == [op |-> "update", stubs |-> stubs]

Delete(i) == [op |-> "delete", index |-> i]

\* Every admin request: PUT and DELETE of a stub (POST is the second half of
\* PUT), PUT of all stubs, DELETE of the requests and of what was recorded.
AllEdits ==
  {<<Delete(1), Add(1, 3)>>, <<Delete(0)>>, <<Put(<<>>)>>, <<Put(<<CatchAll("proxyOnce")>>)>>,
   <<[op |-> "clear"]>>}

HandlersSymmetric == Permutations(Handlers)
=============================================================================
