------------------------------ MODULE Behaviors ------------------------------
(***************************************************************************)
(* What happens between the match of a stub and the answer: the "is"       *)
(* response of the stub is normalised, its behaviors are applied           *)
(* (BehaviorExecutor.Execute), and the default response fills the gaps.    *)
(* Several requests are served in turn from one stub, whose response they  *)
(* share: in the code the header map of the response is the stub's own     *)
(* until a behavior makes a new one.                                       *)
(*                                                                         *)
(* A response has a status (a number, or a string when a token stands in   *)
(* its place), a body, headers (nil or a map), data (for TCP) and aliased: *)
(* its header map is the stub's.  A token such as ${id} is one letter, and *)
(* so is what may follow it in brackets.                                   *)
(***************************************************************************)
EXTENDS Predicates

CONSTANTS
  StubsFor(_),      \* the responses that may be configured, for a request
  BehaviorsFor(_),  \* the lists of behaviors that may be configured with them
  Default,          \* defaultResponse.is, or NoDefault
  NoDefault,
  MaxServed         \* bound on the requests served in a behaviour

VARIABLES
  given,      \* history: the response as it was configured
  stub,       \* the response that the stub holds
  behaviors,
  answer,     \* the response written, Failed, or NoAnswer before
  served      \* how many requests have been served

serveVars == <<vars, given, stub, behaviors, answer, served>>

NoAnswer == [status |-> "none"]
Failed == [status |-> "error"]

-----------------------------------------------------------------------------
(* Values from the request                                                  *)

\* The name of the header that must not go stale, and the token ${code}.
ContentLength == <<"content-length">>
CodeToken == <<"${code}">>

\* getFromValue and getRequestField; <<>> is "".  Headers are the parameters of the
\* request too, found without regard to case.  A JSONPath that finds nothing in
\* the body leaves the whole body.
GetFromValue(req, from) ==
  CASE from.name = "path" -> Str(req.path)
    [] from.name = "query" -> Str(IF from.key \in DOMAIN req.query THEN req.query[from.key] ELSE <<>>)
    [] from.name = "headers" ->
         LET keys == {k \in DOMAIN req.query : Fold(k) = Fold(from.key)} IN
           Str(IF keys = {} THEN <<>> ELSE req.query[FirstOf(keys)])
    [] from.name = "body" /\ from.sel # <<>> ->
         LET v == ExtractJSONPath(req.body, from.sel[1]) IN IF v = Empty THEN req.body ELSE v
    [] OTHER -> req.body

\* The places where the letters p begin in s.
Occurrences(s, p, cs) == {i \in 0 .. Len(s) - Len(p) : Same(SubSeq(s, i + 1, i + Len(p)), p, cs)}

\* extractRegex: the groups of the first match, pieces of the literal pattern, or
\* the match itself if there are none.
ExtractRegex(source, u) ==
  LET at == Occurrences(Chars(source), u.pattern, ~u.ignoreCase)
      pos == CHOOSE i \in at : \A k \in at : i <= k
      groups == IF u.groups = <<>> THEN <<<<1, Len(u.pattern)>>>> ELSE u.groups
  IN IF at = {} THEN <<>>
     ELSE [g \in DOMAIN groups |-> Str(SubSeq(Chars(source), pos + groups[g][1], pos + groups[g][2]))]

\* extractXPath: a document is a map from names <<prefix, tag>> to texts.  The tag
\* is tried under each prefix of the namespace, then without one.
ExtractXPath(source, u) ==
  LET prefixes == {p \in DOMAIN u.ns : u.prefix \in DOMAIN u.ns /\ u.ns[p] = u.ns[u.prefix]}
      names == [i \in 1 .. Cardinality(prefixes) |-> <<SetToSeq(prefixes)[i], u.tag>>] \o <<<<"", u.tag>>>>
      found == IF source.t = "xml" THEN SelectSeq(names, LAMBDA n : n \in DOMAIN source.tags) ELSE <<>>
  IN IF found = <<>> THEN <<>> ELSE <<Str(source.tags[found[1]])>>

\* extractValues, but for the pattern that does not compile.
ExtractValues(source, u) ==
  CASE u.method = "regex" -> ExtractRegex(source, u)
    [] u.method = "xpath" -> ExtractXPath(source, u)
    [] u.method = "jsonpath" -> SelectSeq(<<ExtractJSONPath(source, u.sel)>>, LAMBDA v : v # Empty)
    [] OTHER -> <<source>>

BadUsing(u) == u.method = "regex" /\ u.pattern = BadPattern

-----------------------------------------------------------------------------
(* Tokens                                                                   *)

RECURSIVE ReplaceEvery(_, _, _)
\* strings.ReplaceAll on letters.
ReplaceEvery(s, old, new) ==
  IF Len(s) < Len(old) THEN s
  ELSE IF IsPrefix(old, s) THEN new \o ReplaceEvery(SubSeq(s, Len(old) + 1, Len(s)), old, new)
  ELSE <<Head(s)>> \o ReplaceEvery(Tail(s), old, new)

\* The letter for [i].
Bracket(i) == "[" \o ToString(i) \o "]"

\* Mutant: the bare token is replaced before the indexed ones.
ReplaceBareFirst(s, into, values) ==
  FoldLeft(LAMBDA t, i : ReplaceEvery(t, Append(into, Bracket(i - 1)), Chars(values[i])),
           ReplaceEvery(s, into, Chars(values[1])), [i \in DOMAIN values |-> i])

\* In the string s, first ${token}[0], ${token}[1], ..., then ${token}.
ReplaceIndexed(s, into, values) ==
  ReplaceEvery(FoldLeft(LAMBDA t, i : ReplaceEvery(t, Append(into, Bracket(i - 1)), Chars(values[i])),
                      s, [i \in DOMAIN values |-> i]),
             into, Chars(values[1]))

\* The letters of a string body, or of the strings in the text of an object.
MapText(v, F(_)) ==
  CASE v.t = "str" -> Str(F(v.s))
    [] v.t = "text" /\ v.j.t = "obj" ->
         Text(Obj([k \in DOMAIN v.j.m |-> IF v.j.m[k].t = "str" THEN Str(F(v.j.m[k].s)) ELSE v.j.m[k]]))
    [] OTHER -> v

MapHeaders(h, F(_)) == Map(IF h = Null THEN <<>> ELSE [k \in DOMAIN h.m |-> F(h.m[k])])

\* strconv.Atoi, for one digit; what is not a number stays a string.
Atoi(s) == IF \E n \in 0..9 : s = Digits(n) THEN Num(CHOOSE n \in 0..9 : s = Digits(n)) ELSE Str(s)

\* Mutant: the new headers go into the map of the response.
ReplaceTokensAliased(r, into, values) ==
  LET F(s) == ReplaceIndexed(s, into, values) IN
    [r EXCEPT !.status = IF into = CodeToken THEN Atoi(Chars(values[1])) ELSE @,
              !.body = MapText(@, F), !.data = F(@), !.headers = MapHeaders(@, F)]

\* replaceTokens
ReplaceTokens(r, into, values) ==
  LET F(s) == ReplaceIndexed(s, into, values) IN
    [r EXCEPT !.status = IF into = CodeToken THEN Atoi(Chars(values[1])) ELSE @,
              !.body = MapText(@, F), !.data = F(@), !.headers = MapHeaders(@, F), !.aliased = FALSE]

-----------------------------------------------------------------------------
(* copy and lookup                                                          *)

\* executeCopy
ExecuteCopy(req, r, c) ==
  LET source == GetFromValue(req, c.from)
      values == IF c.using = <<>> THEN <<source>> ELSE ExtractValues(source, c.using[1])
  IN CASE source = Empty -> r
       [] c.using # <<>> /\ BadUsing(c.using[1]) -> Failed
       [] values = <<>> -> r
       [] OTHER -> ReplaceTokens(r, c.into, values)

\* parseUsing: the options of a lookup's key are dropped, so that its pattern is
\* always case-sensitive.
ParseUsing(u) == IF u.method = "regex" THEN [u EXCEPT !.ignoreCase = FALSE] ELSE u

\* The key of executeLookup: where nothing is extracted, or the pattern is bad,
\* the value itself; where the index is too large, the first value.
LookupKey(req, l) ==
  LET source == GetFromValue(req, l.from)
      values == IF l.using = <<>> \/ BadUsing(l.using[1]) THEN <<>> ELSE ExtractValues(source, ParseUsing(l.using[1]))
  IN IF values = <<>> THEN source
     ELSE IF l.index < Len(values) THEN values[l.index + 1] ELSE values[1]

\* Mutant: the last row with the key.
LookupLast(csv, key) ==
  LET at == {i \in DOMAIN csv.rows : csv.rows[i][csv.keyColumn] = key} IN
    IF at = {} THEN <<>> ELSE csv.rows[CHOOSE i \in at : \A k \in at : i >= k]

\* lookupCSV: the first row with the key, a map from columns to strings, or none.
LookupCSV(csv, key) ==
  LET at == {i \in DOMAIN csv.rows : csv.rows[i][csv.keyColumn] = key} IN
    IF at = {} THEN <<>> ELSE csv.rows[CHOOSE i \in at : \A k \in at : i <= k]

\* The columns in the order of a range over the row.
RangedKeys(row) ==
  IF DOMAIN row = {} THEN <<>>
  ELSE LET f == FirstOf(DOMAIN row) IN <<f>> \o SetToSeq(DOMAIN row \ {f})

\* replaceRowTokens: ${token}[column], of each column.  Data is not changed.
ReplaceRowTokens(r, into, row) ==
  LET F(s) == FoldLeft(LAMBDA t, k : ReplaceEvery(t, into \o k, row[k]), s, RangedKeys(row)) IN
    [r EXCEPT !.status = IF @.t = "str" THEN Atoi(F(@.s)) ELSE @,
              !.body = IF @.t = "obj" THEN MapText(Text(@), F).j ELSE MapText(@, F),
              !.headers = MapHeaders(@, F), !.aliased = FALSE]

\* executeLookup: no key, no file, no such column change nothing.
ExecuteLookup(req, r, l) ==
  LET key == LookupKey(req, l) IN
    IF key = Empty \/ ~l.csv.readable THEN r
    ELSE ReplaceRowTokens(r, l.into, LookupCSV(l.csv, Chars(key)))

-----------------------------------------------------------------------------
(* wait, decorate                                                           *)

\* convertDecorateResult: headers are merged, so that a script cannot take one
\* away; data that the script does not return is lost.
ConvertDecorateResult(r, result) ==
  [r EXCEPT !.status = IF "status" \in DOMAIN result THEN result.status ELSE @,
            !.headers = LET old == IF @ = Null THEN <<>> ELSE @.m
                            new == IF "headers" \in DOMAIN result THEN result.headers ELSE <<>>
                        IN Map([k \in DOMAIN old \cup DOMAIN new |-> IF k \in DOMAIN new THEN new[k] ELSE old[k]]),
            !.body = IF "body" \in DOMAIN result THEN result.body ELSE @,
            !.data = IF "data" \in DOMAIN result THEN result.data ELSE <<>>,
            !.aliased = FALSE]

\* executeDecorate: the script gets a copy of the response, and returns it edited
\* (or nothing, which means the same), or an object of its own, or some other
\* value, which is ignored.
ExecuteDecorate(r, script) ==
  CASE script.returns = "throws" -> Failed
    [] script.returns = "other" -> r
    [] script.returns = "fresh" -> ConvertDecorateResult(r, script.sets)
    [] OTHER ->
         ConvertDecorateResult(r,
           [f \in {"body", "data"} \cup DOMAIN script.sets |-> IF f \in DOMAIN script.sets THEN script.sets[f] ELSE r[f]])

\* One part of a behavior.  The time that a wait takes is left out; a negative
\* number, or a script that fails, is an error.
Execute1(req, r, b) ==
  CASE r = Failed -> Failed
    [] b.do = "wait" -> IF b.ms < 0 THEN Failed ELSE r
    [] b.do = "copy" -> ExecuteCopy(req, r, b)
    [] b.do = "lookup" -> ExecuteLookup(req, r, b)
    [] b.do = "decorate" -> ExecuteDecorate(r, b.script)
    [] b.do = "shellTransform" -> Failed

Rank == [wait |-> 1, copy |-> 2, lookup |-> 3, decorate |-> 4, shellTransform |-> 5]

\* Execute: the behaviors in their order, the parts of each by rank and then in
\* their order; the first error ends it.
Execute(req, r, bs) ==
  LET parts(b) == FlattenSeq([k \in 1..5 |-> SelectSeq(b, LAMBDA x : Rank[x.do] = k)])
  IN FoldLeft(LAMBDA t, b : Execute1(req, t, b), r, FlattenSeq([i \in DOMAIN bs |-> parts(bs[i])]))

-----------------------------------------------------------------------------
(* Server.ServeHTTP, from the match to the answer                           *)

\* normalizeResponse: the copy of the response shares its header map.
NormalizeResponse(s) == [s EXCEPT !.body = IF @.t = "obj" THEN Text(@) ELSE @]

WithoutLength(h) == IF h = Null THEN h ELSE Map([k \in DOMAIN h.m \ {ContentLength} |-> h.m[k]])

\* mergeWithDefault; a failure is answered with an error page before it.
MergeWithDefault(r) ==
  IF Default = NoDefault \/ r = Failed THEN r
  ELSE [r EXCEPT !.status = IF @ \in {Null, Num(0)} THEN Default.status ELSE @,
                 !.body = IF @ = Null THEN Default.body ELSE @,
                 !.headers = IF @ = Null THEN Default.headers ELSE @,
                 !.data = IF @ = <<>> THEN Default.data ELSE @]

\* After behaviors Content-Length may be stale, and goes.
DropLength(r) == IF r = Failed THEN r ELSE [r EXCEPT !.headers = WithoutLength(@)]

\* The response after the behaviors.
Behaved(req, s, bs) ==
  IF bs = <<>> THEN NormalizeResponse(s) ELSE DropLength(Execute(req, NormalizeResponse(s), bs))

Answered(req, s, bs) == MergeWithDefault(Behaved(req, s, bs))

\* The data of the response r of a TCP imposter: its data, or a body that is a
\* string, or else, after an error too, the data that was configured.
DataOf(r, data) ==
  CASE r = Failed -> data
    [] r.data # <<>> -> r.data
    [] IsString(r.body) /\ r.body # Null -> Chars(r.body)
    [] OTHER -> data

\* applyTCPBehaviors: to the behaviors a TCP request is a body, and a response data.
ApplyTCPBehaviors(requestData, data, bs) ==
  LET req == [path |-> <<>>, query |-> <<>>, body |-> requestData]
      r == [status |-> Null, body |-> Null, headers |-> Null, data |-> data, aliased |-> FALSE]
  IN DataOf(Execute(req, r, bs), data)

InitServe ==
  /\ Init
  /\ given \in StubsFor(request)
  /\ behaviors \in BehaviorsFor(request)
  /\ stub = given
  /\ answer = NoAnswer
  /\ served = 0

MatchStub == Match /\ UNCHANGED <<given, stub, behaviors, answer, served>>

\* What the edit of a header map that is the stub's own does to the stub.
EditThrough(s, r) == IF r # Failed /\ r.aliased THEN [s EXCEPT !.headers = r.headers] ELSE s

Serve ==
  /\ predicate # NoPredicate /\ verdict /\ answer = NoAnswer
  /\ stub' = EditThrough(stub, Behaved(request, stub, behaviors))
  /\ answer' = Answered(request, stub, behaviors)
  /\ served' = served + 1
  /\ UNCHANGED <<vars, given, behaviors>>

\* Another request for the same stub; ranges over maps start anew.  Where there
\* are no behaviors one request is enough.
NextRequest ==
  /\ answer # NoAnswer /\ served < MaxServed /\ behaviors # <<>>
  /\ UNCHANGED <<predicate, given, stub, behaviors, served>>
  /\ request' \in {r \in Requests : behaviors \in BehaviorsFor(r)}
  /\ first' \in FirstKeys
  /\ verdict' = EvaluatePredicate(predicate, request)'
  /\ answer' = NoAnswer

NextServe == MatchStub \/ Serve \/ NextRequest

ServeSpec == InitServe /\ [][NextServe]_serveVars

-----------------------------------------------------------------------------
(* Properties                                                               *)

Sane(r) == r \notin {NoAnswer, Failed}

Unaliased(r) == IF Sane(r) THEN [r EXCEPT !.aliased = FALSE] ELSE r

\* A request is answered from the stub as it was configured and from itself:
\* nothing of an earlier request that the stub has served, neither a value that
\* was copied into it nor an edit of a script, shows up ("Make a copy to avoid
\* modifying the original", matcher.go; the header map is not copied).
AnsweredFromConfiguration ==
  answer # NoAnswer => Unaliased(answer) = Unaliased(Answered(request, given, behaviors))

CopiesBody(bs) ==
  \A i \in DOMAIN bs : \A k \in DOMAIN bs[i] :
    \/ bs[i][k].do = "wait"
    \/ bs[i][k].do = "copy" /\ bs[i][k].from.name = "body"

\* The letters of s with each token at its place replaced, in one pass.
Substituted(s, into, values) ==
  FlattenSeq([i \in DOMAIN s |->
    IF i > 1 /\ s[i-1] = into[1] /\ \E n \in DOMAIN values : s[i] = Bracket(n - 1) THEN <<>>
    ELSE IF s[i] # into[1] THEN <<s[i]>>
    ELSE IF i < Len(s) /\ \E n \in DOMAIN values : s[i+1] = Bracket(n - 1)
         THEN Chars(values[CHOOSE n \in DOMAIN values : s[i+1] = Bracket(n - 1)])
    ELSE Chars(values[1])])

\* A single copy puts each value at the places of its token, although the code
\* goes over the string once per value and may meet what it has just put there:
\* ${id}[1] is the second value, and not the first value followed by [1].  Values
\* that hold the token themselves are left out.
HttpCopySubstitutes ==
  Sane(answer) /\ Len(behaviors) = 1 /\ Len(behaviors[1]) = 1 /\ given.body # Null /\ behaviors[1][1].do = "copy"
    => LET c == behaviors[1][1]
           source == GetFromValue(request, c.from)
           values == IF c.using = <<>> THEN <<source>> ELSE ExtractValues(source, c.using[1])
       IN source # Empty /\ values # <<>> /\ (\A n \in DOMAIN values : c.into[1] \notin ToSet(Chars(values[n])))
            => answer.body = MapText(NormalizeResponse(given).body, LAMBDA s : Substituted(s, c.into, values))

\* Waits and copies of the body do to the data of a TCP imposter what they do to
\* the body of an HTTP imposter.
TcpCopiesAlike ==
  Sane(answer) /\ CopiesBody(behaviors) /\ given.body.t = "str" /\ given.body # Empty
    => Chars(Behaved(request, given, behaviors).body)
         \in {<<>>, ApplyTCPBehaviors(request.body, given.body.s, behaviors)}

\* Copying substitutes tokens and does nothing else, over both protocols.
CopyIsSubstitution == HttpCopySubstitutes /\ TcpCopiesAlike

\* The result of a lookup does not depend on the order of a range over the row:
\* as long as no value of the row holds the token, each ${token}[column] gets the
\* value of its column.
LookupIsSubstitution ==
  Sane(answer) /\ Len(behaviors) = 1 /\ Len(behaviors[1]) = 1 /\ given.body # Null /\ behaviors[1][1].do = "lookup"
    => LET l == behaviors[1][1]
           key == Chars(LookupKey(request, l))
           rows == {i \in DOMAIN l.csv.rows : l.csv.rows[i][l.csv.keyColumn] = key}
           row == l.csv.rows[CHOOSE i \in rows : \A k \in rows : i <= k]
       IN key # <<>> /\ l.csv.readable /\ rows # {} /\ (\A k \in DOMAIN row : l.into[1] \notin ToSet(row[k]))
            => answer.body = MapText(NormalizeResponse(given).body, LAMBDA s :
                 FlattenSeq([i \in DOMAIN s |->
                   IF i < Len(s) /\ s[i] = l.into[1] /\ <<s[i+1]>> \in DOMAIN row THEN row[<<s[i+1]>>]
                   ELSE IF i > 1 /\ s[i-1] = l.into[1] /\ <<s[i]>> \in DOMAIN row THEN <<>>
                   ELSE <<s[i]>>]))
=============================================================================
