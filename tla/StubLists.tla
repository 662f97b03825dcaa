----------------------------- MODULE StubLists -----------------------------
(***************************************************************************)
(* Stubs and their responses as an HTTP imposter sees them when it matches *)
(* requests and records the replies of its proxies.  Predicates are        *)
(* abstracted to the requests that they match.                             *)
(***************************************************************************)
EXTENDS Naturals, Sequences

CONSTANTS
  Requests,    \* requests told apart by method and path
  AnyRequest   \* the empty list of predicates: matches every request

Modes == {"proxyOnce", "proxyAlways", "proxyTransparent"}

\* A response: canned ("is", and inject and fault, which change nothing
\* here), a reply of the origin that has been saved, a proxy, an empty 200, an
\* error or a closed connection, or none yet.
Response == [kind : {"is", "saved", "empty", "error", "none"} \cup Modes, id : Nat]

Canned(k) == [kind |-> "is", id |-> k]

Saved(n) == [kind |-> "saved", id |-> n]

Proxy(mode) == [kind |-> mode, id |-> 0]

Empty == [kind |-> "empty", id |-> 0]

Error == [kind |-> "error", id |-> 0]

NoAnswer == [kind |-> "none", id |-> 0]

Stub ==
  [on : Requests \cup {AnyRequest}, responses : Seq(Response), isProxyGenerated : BOOLEAN]

\* What users write: no response in it is tied to a reply of the origin.
Configured == [kind : {"is", "empty"} \cup Modes, id : Nat]

ConfiguredStub ==
  [on : Requests \cup {AnyRequest}, responses : Seq(Configured), isProxyGenerated : {FALSE}]

Matches(stub, r) == stub.on \in {AnyRequest, r}

\* ProxyHandler.generateStub: predicates for the method and path of request r.
Generated(r, n) == [on |-> r, responses |-> <<Saved(n)>>, isProxyGenerated |-> TRUE]
=============================================================================
