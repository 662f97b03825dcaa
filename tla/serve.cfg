\* Every predicate on one field against one request; every behavior on two
\* requests that one stub serves.
SPECIFICATION ServeSpec
CONSTANTS
  Requests <- ServeRequests
  PredicatesFor <- ServePredicates
  FirstKeys <- SmallFirstKeys
  StubsFor <- ServeStubs
  BehaviorsFor <- ServeBehaviors
  Default <- DefaultResponse
  NoDefault = NoDefault
  MaxServed = 2
INVARIANTS
  DeepEqualsIsExact CaseInsensitiveIsWeaker FormsAgree PathsAgree
  ProtocolsAgree AnsweredFromConfiguration CopyIsSubstitution LookupIsSubstitution
CHECK_DEADLOCK FALSE
