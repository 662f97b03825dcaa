----------------------------- MODULE Predicates -----------------------------
(***************************************************************************)
(* Evaluation of a predicate against a request, by the matchers of the     *)
(* HTTP, TCP, SMTP and gRPC imposters.  Of the fields of an HTTP request,  *)
(* path stands for the strings (method too), query for the maps (headers   *)
(* and form too), and body for itself.  A predicate is about one field;    *)
(* one about several fields holds when it holds of each.  Inject           *)
(* predicates run a script and are left to ScriptEngine.                   *)
(*                                                                         *)
(* The request is chosen first, then a predicate is evaluated against it.  *)
(***************************************************************************)
EXTENDS Selectors

CONSTANTS
  Requests,       \* requests: path, body, query
  PredicatesFor(_), \* the predicates to evaluate against a request
  FirstKeys       \* keys that a range over a map may begin with

VARIABLES
  request,
  predicate,  \* the predicate evaluated, NoPredicate before
  verdict     \* what evaluatePredicate returned

vars == <<request, predicate, verdict, first>>

NoPredicate == [op |-> "none"]

\* predicateOptions: a predicate that is case-sensitive is so for keys as well.
Options(p) == [cs |-> p.cs, kcs |-> p.kcs \/ p.cs, except |-> p.except]

\* applyExcept: what the pattern, a letter here, matches is removed.
ApplyExcept(s, o) ==
  IF o.except = <<>> THEN s ELSE SelectSeq(s, LAMBDA letter : ~Same(<<letter>>, o.except, o.cs))

\* Mutant: the value of a parameter is looked up by its exact name only.
RequestFieldExact(req, f, kcs) ==
  CASE f.name = "path" -> Str(req.path)
    [] f.name = "body" -> req.body
    [] f.key = <<>> -> Map(req.query)
    [] OTHER -> IF f.key \in DOMAIN req.query THEN Str(req.query[f.key]) ELSE Null

\* getRequestField: the value of a parameter that is not there is nil, or, when
\* keys are case-sensitive, the zero value of the map.
RequestField(req, f, kcs) ==
  CASE f.name = "path" -> Str(req.path)
    [] f.name = "body" -> req.body
    [] f.key = <<>> -> Map(req.query)
    [] kcs -> Str(IF f.key \in DOMAIN req.query THEN req.query[f.key] ELSE <<>>)
    [] OTHER -> LET keys == {k \in DOMAIN req.query : Fold(k) = Fold(f.key)} IN
                  IF keys = {} THEN Null ELSE Str(req.query[FirstOf(keys)])

\* The loop of every comparison over the keys of the expected map.
EachKey(actual, expected, kcs, Compare(_, _)) ==
  \A k \in DOMAIN expected :
    LET keys == Candidates(actual, k, kcs) IN
      keys # {} /\ Compare(actual[FirstOf(keys)], expected[k])

-----------------------------------------------------------------------------
(* equals                                                                   *)

RECURSIVE JsonContains(_, _, _)
\* jsonContains: extra keys are allowed, an array holds what one of its elements
\* holds, and arrays of one length are compared as sets.
JsonContains(a, e, o) ==
  CASE e.t = "null" -> a.t = "null"
    [] e.t = "obj" /\ a.t = "arr" -> \E i \in DOMAIN a.e : JsonContains(a.e[i], e, o)
    [] e.t = "obj" -> a.t = "obj" /\ EachKey(a.m, e.m, o.kcs, LAMBDA x, y : JsonContains(x, y, o))
    [] e.t = "arr" -> /\ a.t = "arr" /\ Len(a.e) = Len(e.e)
                      /\ \A i \in DOMAIN e.e : \E k \in DOMAIN a.e : JsonContains(a.e[k], e.e[i], o)
    [] a.t = "arr" -> \E i \in DOMAIN a.e : JsonContains(a.e[i], e, o)
    [] e.t = "str" -> a.t = "str" /\ Same(ApplyExcept(a.s, o), ApplyExcept(e.s, o), o.cs)
    [] OTHER -> a = e

\* compareValues
CompareValues(a, e, o) ==
  CASE e.t = "null" -> a \in {Null, Empty}
    [] e.t = "str" /\ IsString(a) -> Same(ApplyExcept(Chars(a), o), e.s, o.cs)
    [] a.t = "text" -> JsonContains(a.j, e, o)
    [] a.t = "map" /\ e.t = "obj" ->
         EachKey(a.m, e.m, o.kcs, LAMBDA x, y : Same(ApplyExcept(x, o), Chars(y), o.cs))
    [] OTHER -> FALSE

-----------------------------------------------------------------------------
(* deepEquals                                                               *)

\* forceToString, of the scalars; nil is the word "null".
Forced(v) == CASE v.t = "num" -> Str(Digits(v.n)) [] v.t = "null" -> Str(<<"null">>) [] OTHER -> v

RECURSIVE DeepEqualJSON(_, _, _), Paired(_, _, _, _)

\* Mutant: an element may be matched twice.
PairedTwice(as, es, used, o) ==
  \A i \in DOMAIN es : \E k \in DOMAIN as : DeepEqualJSON(as[k], es[i], o)

\* Each expected element takes the first element that equals it and was not taken.
Paired(as, es, used, o) ==
  \/ es = <<>>
  \/ LET free == {i \in DOMAIN as \ used : DeepEqualJSON(as[i], Head(es), o)} IN
       /\ free # {}
       /\ Paired(as, Tail(es), used \cup {CHOOSE i \in free : \A k \in free : i <= k}, o)

\* deepEqualJSON
DeepEqualJSON(a, e, o) ==
  CASE e.t = "null" \/ a.t = "null" -> a.t = e.t
    [] e.t = "obj" -> /\ a.t = "obj" /\ Cardinality(DOMAIN a.m) = Cardinality(DOMAIN e.m)
                      /\ EachKey(a.m, e.m, o.kcs, LAMBDA x, y : DeepEqualJSON(x, y, o))
    [] e.t = "arr" -> a.t = "arr" /\ Len(a.e) = Len(e.e) /\ Paired(a.e, e.e, {}, o)
    [] e.t = "str" -> a.t = "str" /\ Same(a.s, e.s, o.cs)
    [] OTHER -> a = e

\* deepCompareValues
DeepCompareValues(a, e, o) ==
  CASE e.t = "null" -> a \in {Null, Empty}
    [] IsString(a) /\ e.t \in {"str", "num"} ->
         Same(ApplyExcept(Chars(Forced(a)), o), Chars(Forced(e)), o.cs)
    [] a.t = "text" -> DeepEqualJSON(a.j, e, o)
    [] a.t = "map" /\ e.t = "obj" ->
         /\ Cardinality(DOMAIN a.m) = Cardinality(DOMAIN e.m)
         /\ EachKey(a.m, e.m, o.kcs, LAMBDA x, y : Same(ApplyExcept(x, o), Chars(Forced(y)), o.cs))
    [] OTHER -> FALSE

-----------------------------------------------------------------------------
(* contains, startsWith, endsWith, matches                                  *)

StringOp(op, s, p, cs) ==
  CASE op = "contains" -> HasInfix(s, p, cs)
    [] op = "startsWith" -> HasPrefix(s, p, cs)
    [] op = "endsWith" -> HasSuffix(s, p, cs)

\* toMapInterface: {} when there is no map to be had.
ToMaps(a) ==
  CASE a.t = "map" -> {[k \in DOMAIN a.m |-> Str(a.m[k])]}
    [] a.t = "text" /\ a.j.t = "obj" -> {a.j.m}
    [] OTHER -> {}

\* containsValue, startsWithValue, endsWithValue and the functions for maps that
\* they call, which do not apply except.
StringOpValue(op, a, e, o) ==
  IF e.t = "obj"
  THEN \E m \in ToMaps(a) : EachKey(m, e.m, o.kcs, LAMBDA x, y :
         IsString(x) /\ IsString(y) /\ StringOp(op, Chars(x), Chars(y), o.cs))
  ELSE IsString(a) /\ IsString(e) /\ StringOp(op, ApplyExcept(Chars(a), o), Chars(e), o.cs)

RECURSIVE JsonMatchesPattern(_, _, _)
\* jsonMatchesPattern: case-insensitive unless the predicate says otherwise.
JsonMatchesPattern(a, patterns, o) ==
  EachKey(a, patterns, o.kcs, LAMBDA x, y :
    IF y.t = "obj" THEN x.t = "obj" /\ JsonMatchesPattern(x.m, y.m, o)
    ELSE RegexMatch(Chars(Forced(x)), Chars(y), o.cs))

\* matchesPattern: a pattern for a string is used as it is.
MatchesPattern(a, e, o) ==
  IF e.t = "obj" THEN \E m \in ToMaps(a) : JsonMatchesPattern(m, e.m, o)
  ELSE IsString(a) /\ IsString(e) /\ RegexMatch(ApplyExcept(Chars(a), o), Chars(e), TRUE)

-----------------------------------------------------------------------------
(* exists                                                                   *)

\* fieldExists
FieldExists(req, f, kcs) ==
  CASE f.name = "path" -> req.path # <<>>
    [] f.name = "body" -> req.body # Empty
    [] f.key = <<>> -> DOMAIN req.query # {}
    [] OTHER -> \E k \in DOMAIN req.query : Same(k, f.key, kcs)

RECURSIVE AllNestedExpectFalse(_)
AllNestedExpectFalse(spec) ==
  \A k \in DOMAIN spec :
    CASE spec[k].t = "bool" -> ~spec[k].b
      [] spec[k].t = "obj" -> AllNestedExpectFalse(spec[k].m)
      [] OTHER -> TRUE

RECURSIVE CheckNestedExistence(_, _, _)
\* checkNestedExistence, with keyExistsInJSON and getJSONValue.
CheckNestedExistence(j, spec, kcs) ==
  \A k \in DOMAIN spec :
    LET keys == IF j.t = "obj" THEN Candidates(j.m, k, kcs) ELSE {}
        child == IF keys = {} THEN Null ELSE j.m[FirstOf(keys)]
    IN CASE spec[k].t = "bool" -> (keys # {}) = spec[k].b
         [] spec[k].t = "obj" -> IF child = Null THEN AllNestedExpectFalse(spec[k].m)
                                 ELSE CheckNestedExistence(child, spec[k].m, kcs)
         [] OTHER -> TRUE

\* evaluateExists; f.path is the rest of a name that begins with "body.".
EvaluateExists(e, req, f, o) ==
  CASE e.t = "obj" /\ f.name = "body" ->
         IF req.body.t = "text" THEN CheckNestedExistence(req.body.j, e.m, o.kcs)
         ELSE AllNestedExpectFalse(e.m)
    [] e.t = "obj" ->
         \A k \in DOMAIN e.m : FieldExists(req, [f EXCEPT !.key = k], o.kcs) = (e.m[k] = Bool(TRUE))
    [] f.name = "body" /\ f.path # <<>> ->
         (req.body.t = "text" /\ NavigateAndCheck(req.body.j, f.path, o.kcs)) = (e = Bool(TRUE))
    [] OTHER -> FieldExists(req, f, o.kcs) = (e = Bool(TRUE))

-----------------------------------------------------------------------------
(* Matcher.evaluatePredicate                                                *)

\* One of the comparison operators, on the request as the selector leaves it.
Evaluate(p, req, o) ==
  LET a == RequestField(req, p.field, o.kcs)
      e == p.expected
  IN CASE p.op = "equals" -> CompareValues(a, e, o)
       [] p.op = "deepEquals" -> DeepCompareValues(a, e, o)
       [] p.op = "matches" -> MatchesPattern(a, e, o)
       [] p.op = "exists" -> EvaluateExists(e, req, p.field, o)
       [] OTHER -> StringOpValue(p.op, a, e, o)

RECURSIVE EvaluatePredicate(_, _)
EvaluatePredicate(p, req) ==
  CASE p.op = "and" -> \A i \in DOMAIN p.of : EvaluatePredicate(p.of[i], req)
    [] p.op = "or" -> \E i \in DOMAIN p.of : EvaluatePredicate(p.of[i], req)
    [] p.op = "not" -> ~EvaluatePredicate(p.of, req)
    [] p.sel = <<>> -> Evaluate(p, req, Options(p))
    [] OTHER ->
         LET body == ApplySelector(req.body, p.sel[1], Options(p).kcs) IN
           body # Null /\ Evaluate(p, [req EXCEPT !.body = body], Options(p))

-----------------------------------------------------------------------------
(* The matchers of the other protocols, on one field                        *)

\* Mutant: the TCP matcher takes no notice of caseSensitive.
TcpPredicateFolds(p, data) ==
  LET e == Chars(p.expected) IN
    CASE p.op = "equals" -> Same(data, e, FALSE)
      [] p.op \in {"contains", "startsWith", "endsWith"} -> StringOp(p.op, data, e, FALSE)
      [] p.op = "matches" -> e # <<>> /\ RegexMatch(data, e, TRUE)
      [] OTHER -> TRUE

\* TCPMatcher.evaluatePredicate: the operators that it does not know hold.
TcpPredicate(p, data) ==
  LET e == Chars(p.expected) IN
    CASE p.op = "equals" -> Same(data, e, p.cs)
      [] p.op \in {"contains", "startsWith", "endsWith"} -> StringOp(p.op, data, e, p.cs)
      [] p.op = "matches" -> e # <<>> /\ RegexMatch(data, e, TRUE)
      [] OTHER -> TRUE

\* fmt.Sprintf("%v", v)
Printed(v) == CASE v.t = "null" -> <<"<nil>">> [] v.t = "num" -> Digits(v.n) [] OTHER -> Chars(v)

\* SMTPMatcher.evaluatePredicate, on a field that the message has.
SmtpPredicate(p, actual) ==
  LET a == Printed(actual)
      e == Printed(p.expected)
  IN CASE p.op = "equals" -> Same(a, e, p.cs)
       [] p.op \in {"contains", "startsWith", "endsWith"} -> StringOp(p.op, a, e, p.cs)
       [] p.op = "matches" -> RegexMatch(a, e, TRUE)
       [] p.op = "exists" -> p.expected = Bool(TRUE)
       [] OTHER -> TRUE

\* grpcToString
GrpcToString(v) == CASE v.t = "null" -> <<>> [] v.t = "str" -> v.s [] OTHER -> DocLetters(v)

RECURSIVE GetNestedValue(_, _)
\* getNestedValue: exact keys, no indices; nil when there is none.
GetNestedValue(j, path) ==
  IF path = <<>> THEN j
  ELSE IF j.t = "obj" /\ Name(Head(path)) \in DOMAIN j.m
       THEN GetNestedValue(j.m[Name(Head(path))], Tail(path))
       ELSE Null

\* GRPCMatcher.evaluatePredicate, on the value that getFieldValue returns.
GrpcPredicate(p, actual) ==
  LET a == GrpcToString(actual)
      e == GrpcToString(p.expected)
  IN CASE p.op = "equals" -> Same(a, e, p.cs)
       [] p.op = "deepEquals" -> actual = p.expected
       [] p.op \in {"contains", "startsWith", "endsWith"} -> StringOp(p.op, a, e, p.cs)
       [] p.op = "matches" -> e # <<>> /\ RegexMatch(a, e, TRUE)
       [] p.op = "exists" -> (actual # Null) = (p.expected = Bool(TRUE))
       [] OTHER -> TRUE

-----------------------------------------------------------------------------
Init ==
  /\ request \in Requests
  /\ first \in FirstKeys
  /\ predicate = NoPredicate
  /\ verdict = FALSE

Match ==
  /\ predicate = NoPredicate
  /\ predicate' \in PredicatesFor(request)
  /\ verdict' = EvaluatePredicate(predicate', request)
  /\ UNCHANGED <<request, first>>

Next == Match

Spec == Init /\ [][Next]_vars

-----------------------------------------------------------------------------
(* Properties                                                               *)

Comparison == {"equals", "deepEquals", "contains", "startsWith", "endsWith"}

Simple == predicate.op \in Comparison /\ predicate.except = <<>> /\ predicate.sel = <<>>

\* "deepEquals requires EXACT match - no extra fields allowed" and "mountebank
\* allows order-insensitive matching" (matcher.go): on a JSON body deepEquals is
\* equality of the documents with arrays as bags, up to case where case does not
\* matter, although elements are paired greedily.  Documents with two keys equal
\* up to case are left out: two expected keys may be met by one actual key.
DeepEqualsIsEquality ==
  Simple /\ predicate.op = "deepEquals" /\ predicate.field.name = "body"
    /\ request.body.t = "text" /\ predicate.expected.t \in {"obj", "arr"}
    /\ KeysDistinct(request.body.j) /\ KeysDistinct(predicate.expected)
    => LET o == Options(predicate)
           c(j) == Canonical(j, o.cs, o.kcs)
       IN verdict <=> c(request.body.j) = c(predicate.expected)

\* "This is stricter than compareValues" (matcher.go, on deepEquals): with one
\* exception, what deepEquals accepts equals accepts, on bodies and strings.
\* Numbers expected of strings are the exception: only deepEquals converts them.
DeepEqualsIsStricter ==
  Simple /\ predicate.op = "deepEquals" /\ verdict
    /\ ~(predicate.expected.t = "num" /\ request.body.t # "text") /\ predicate.field.name = "body"
    => EvaluatePredicate([predicate EXCEPT !.op = "equals"], request)

\* deepEquals asks for the whole document, equals for a part of it: the two
\* walks over a document, written separately, never contradict each other.
DeepEqualsIsExact == DeepEqualsIsEquality /\ DeepEqualsIsStricter

\* A request that matches when case matters matches when it does not, by every
\* comparison: a predicate does not have to be weakened in two places.  A name
\* like query.k is the exception: without case it may be met by K, even when k
\* is there, and a parameter that is not there equals the empty string.
CaseInsensitiveIsWeaker ==
  Simple /\ verdict
    /\ (predicate.field.key # <<>> =>
          predicate.field.key \in DOMAIN request.query /\ NamesDistinct(request.query))
    => EvaluatePredicate([predicate EXCEPT !.cs = FALSE, !.kcs = FALSE], request)

\* The two ways to ask about a parameter, a map for query and the name query.k,
\* give the same answer, unless the request has two parameters that are equal up
\* to case or the value asked for is empty.
DottedNameAgrees ==
  Simple /\ predicate.op \in {"equals", "contains"} /\ predicate.field.name = "query" /\ predicate.field.key # <<>>
    /\ NamesDistinct(request.query) /\ Chars(predicate.expected) # <<>>
    => verdict = EvaluatePredicate([predicate EXCEPT !.field.key = <<>>,
                   !.expected = Obj([k \in {predicate.field.key} |-> predicate.expected])], request)

RECURSIVE NestedSpec(_, _)
NestedSpec(path, leaf) == IF path = <<>> THEN leaf ELSE Obj([k \in {Head(path).key} |-> NestedSpec(Tail(path), leaf)])

\* The two ways to ask whether the body has a key, a nested map and the name
\* body.k.j, give the same answer: two pieces of code that find it separately.
ExistsFormsAgree ==
  predicate.op = "exists" /\ predicate.field.path # <<>>
    /\ (\A i \in DOMAIN predicate.field.path : predicate.field.path[i].is = "key")
    => verdict = EvaluatePredicate([predicate EXCEPT !.field.path = <<>>,
                   !.expected = NestedSpec(predicate.field.path, predicate.expected)], request)

\* A predicate with a dotted name and the one with a map in its place are the
\* same predicate, although other functions evaluate them.
FormsAgree == DottedNameAgrees /\ ExistsFormsAgree

RECURSIVE Nodes(_, _, _)
\* What JSONPath means by a path: the values at its end, each element of an array
\* for [*].
Nodes(j, path, kcs) ==
  IF path = <<>> THEN <<j>>
  ELSE LET s == Head(path)
           keys == IF j.t = "obj" /\ s.is = "key" THEN Candidates(j.m, s.key, kcs) ELSE {}
           elements == CASE keys # {} -> <<j.m[FirstOf(keys)]>>
                         [] j.t = "arr" /\ s.is = "index" /\ InRange(j.e, s.n) -> <<j.e[Place(j.e, s.n) + 1]>>
                         [] j.t = "arr" /\ s.is = "all" -> j.e
                         [] OTHER -> <<>>
       IN FlattenSeq([i \in DOMAIN elements |-> Nodes(elements[i], Tail(path), kcs)])

\* The text of the values at the end of a path.
TextAt(j, path, kcs) ==
  LET nodes == Nodes(j, path, kcs) IN Joined([i \in DOMAIN nodes |-> ValueToString(nodes[i])])

RECURSIVE NamesArray(_, _, _)
\* On its way the path gives a name to an array.
NamesArray(j, path, kcs) ==
  /\ path # <<>>
  /\ \/ j.t = "arr" /\ Head(path).is = "key"
     \/ LET step == Nodes(j, <<Head(path)>>, kcs) IN
          \E i \in DOMAIN step : NamesArray(step[i], Tail(path), kcs)

\* The JSONPath selector of a predicate, the path of an exists predicate, the
\* JSONPath of a behavior and the field of a gRPC message are four pieces of code
\* for one idea, each with its own arrays.  Without .*, which only the selector
\* knows: a path exists where it leads to a value, and with [*] to one of any
\* element; the selector has the values joined by commas, unless the path gives a
\* name to an array, which only the selector accepts; the behavior takes [*] for
\* [0], and has the value there if keys are exact and no index is negative, comes
\* first or follows another; the message knows names only.
PathsAgree ==
  predicate.op = "exists" /\ predicate.field.path # <<>> /\ request.body.t = "text"
    /\ Star \notin ToSet(predicate.field.path)
    => LET j == request.body.j
           path == predicate.field.path
           kcs == Options(predicate).kcs
           plain == \A i \in DOMAIN path : path[i].is = "key"
           simple == \A i \in DOMAIN path :
                       path[i].is # "key" => i > 1 /\ path[i-1].is = "key" /\ (path[i].is = "index" => path[i].n >= 0)
           firsts == [i \in DOMAIN path |-> IF path[i] = All THEN Index(0) ELSE path[i]]
       IN /\ NavigateAndCheck(j, path, kcs) <=> Nodes(j, path, kcs) # <<>>
          /\ ~NamesArray(j, path, kcs) => NavigatePath(j, path, kcs) = TextAt(j, path, kcs)
          /\ kcs /\ plain => ValueToString(GetNestedValue(j, path)) = TextAt(j, path, kcs)
          /\ kcs /\ simple
               => ExtractJSONPath(request.body, [deep |-> FALSE, path |-> path]) = TextAt(j, firsts, kcs)

\* One predicate on one string gives one answer, whichever protocol the imposter
\* speaks.  The empty pattern of matches is left out: TCP and gRPC refuse it.
ProtocolsAgree ==
  predicate.op \in {"equals", "contains", "startsWith", "endsWith", "matches"}
    /\ predicate.except = <<>> /\ predicate.sel = <<>>
    /\ predicate.field.name = "path" /\ predicate.expected.t = "str"
    /\ (predicate.op = "matches" => predicate.expected.s # <<>>)
    => /\ verdict = TcpPredicate(predicate, request.path)
       /\ verdict = SmtpPredicate(predicate, Str(request.path))
       /\ verdict = GrpcPredicate(predicate, Str(request.path))
=============================================================================
