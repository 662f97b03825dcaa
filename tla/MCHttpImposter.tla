--------------------------- MODULE MCHttpImposter ---------------------------
(* Small instances of HttpImposter for TLC. *)
EXTENDS HttpImposter

CONSTANTS h1, h2, r1, r2

UserStub(on, response) ==
  [on |-> on, responses |-> <<response>>, isProxyGenerated |-> FALSE]

CatchAll(mode) == UserStub(AnyRequest, Proxy(mode))

\* A proxy alone, one behind a stub without responses, and two proxies.
OnceStubs ==
  {<<CatchAll("proxyOnce")>>,
   <<[UserStub(r1, Empty) EXCEPT !.responses = <<>>], CatchAll("proxyOnce")>>,
   <<UserStub(r2, Proxy("proxyOnce")), CatchAll("proxyOnce")>>}

\* A proxy that records always, one behind a transparent proxy, and one in
\* front of a stub with the predicates that it will generate.
AlwaysStubs ==
  {<<CatchAll("proxyAlways")>>,
   <<UserStub(r2, Proxy("proxyTransparent")), CatchAll("proxyAlways")>>,
   <<CatchAll("proxyAlways"), UserStub(r1, Canned(1))>>}

\* No stubs: every request falls to the default response at first.
NoStubs == {<<>>}

\* A proxy for each request, one that records once and one that records always.
MixedStubs == {<<UserStub(r2, Proxy("proxyOnce")), UserStub(r1, Proxy("proxyAlways"))>>}

RecordingStubs == OnceStubs \cup AlwaysStubs \cup NoStubs \cup MixedStubs

OnceDefaults == {Empty, Proxy("proxyOnce")}
=============================================================================
