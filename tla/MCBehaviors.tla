----------------------------- MODULE MCBehaviors -----------------------------
(***************************************************************************)
(* A small instance of Behaviors: the requests of MCPredicates, which meet *)
(* a stub without behaviors, and a few more that meet every behavior.      *)
(***************************************************************************)
EXTENDS Behaviors, MCPredicates, TLC

T == <<"T">>
U == <<"U">>
b == <<"b">>

\* Requests with values worth copying; one of them holds a token.
CopyRequests ==
  {[path |-> p, body |-> v, query |-> (k :> a @@ K :> b)] :
     p \in {<<"x", "a", "b">>, <<"x", "U">>},
     v \in {Text(Obj(k :> Str(a))), Text(Obj(j :> Str(b))),
            [t |-> "xml", tags |-> (<<"p", "n">> :> a @@ <<"", "n">> :> b)]}}

ServeRequests == SmallRequests \cup CopyRequests

ServePredicates(req) ==
  IF req \in CopyRequests
  THEN {p \in On("path", <<>>, <<>>, {"contains"}, {Str(<<"x">>), Str(b)}) : ~p.cs /\ ~p.kcs}
  ELSE SmallPredicates(req)

-----------------------------------------------------------------------------
From(name, key, sel) == [name |-> name, key |-> key, sel |-> sel]
Root == [deep |-> FALSE, path |-> <<Key(k)>>]

Usings ==
  {<<>>} \cup {<<u>> : u \in
    {[method |-> "regex", pattern |-> <<"a", "b">>, groups |-> <<<<1, 1>>, <<2, 2>>>>, ignoreCase |-> TRUE],
     [method |-> "regex", pattern |-> <<"B">>, groups |-> <<>>, ignoreCase |-> TRUE],
     [method |-> "regex", pattern |-> BadPattern, groups |-> <<>>, ignoreCase |-> FALSE],
     [method |-> "jsonpath", sel |-> Root],
     [method |-> "jsonpath", sel |-> [deep |-> TRUE, path |-> <<Key(j)>>]],
     [method |-> "xpath", prefix |-> "q", tag |-> "n", ns |-> [p |-> "u1", q |-> "u1"]],
     [method |-> "xpath", prefix |-> "", tag |-> "n", ns |-> <<>>],
     [method |-> "other"]}}

Copy(from, using, into) == [do |-> "copy", from |-> from, using |-> using, into |-> into]

PathFrom == From("path", <<>>, <<>>)

CopyParts ==
  {Copy(PathFrom, u, T) : u \in Usings}
    \cup {Copy(From("body", <<>>, s), u, T) : s \in {<<>>, <<Root>>}, u \in Usings}
    \cup {Copy(From(n, K, <<>>), <<>>, into) : n \in {"query", "headers"}, into \in {T, CodeToken}}
    \cup {Copy(From("query", j, <<>>), <<>>, T)}

Table(readable) ==
  [readable |-> readable, keyColumn |-> k,
   rows |-> <<k :> a @@ j :> <<"c">>, k :> a @@ j :> <<"d">>, k :> b @@ j :> <<"T", "k">>>>]

RowLookup(key, readable) ==
  [do |-> "lookup", from |-> From("query", key, <<>>), using |-> <<>>, index |-> 0, csv |-> Table(readable), into |-> T]

LookupParts ==
  {[do |-> "lookup", from |-> f, using |-> u, index |-> i, csv |-> Table(TRUE), into |-> T] :
     f \in {PathFrom, From("query", k, <<>>)}, u \in Usings, i \in {0, 1, 2}}
  \cup {RowLookup(key, r) : key \in {k, K, j}, r \in BOOLEAN}

Sets == {<<>>, [body |-> Str(<<"d">>)], [status |-> Num(2), headers |-> (<<"z">> :> b)], [data |-> b],
         [body |-> Obj(k :> Str(<<"T", "j">>))]}

ScriptParts ==
  {[do |-> "decorate", script |-> [returns |-> r, sets |-> s]] :
     r \in {"throws", "other", "fresh", "response"}, s \in Sets}

WaitParts == {[do |-> "wait", ms |-> n] : n \in {-1, 0}}
Shell == [do |-> "shellTransform"]

\* One part, two parts of one behavior (the script and the wait written last and
\* first), and two behaviors.
Lists ==
  {<<<<p>>>> : p \in CopyParts \cup LookupParts \cup ScriptParts \cup WaitParts \cup {Shell}}
    \cup {<<<<p, q>>>> : p \in ScriptParts, q \in {Copy(PathFrom, <<>>, T), Shell, [do |-> "wait", ms |-> 0]}}
    \cup {<<<<Copy(PathFrom, <<>>, T)>>, <<q>>>> :
            q \in {Copy(From("query", k, <<>>), <<>>, U), RowLookup(K, TRUE)} \cup ScriptParts}
    \cup {<<<<p>>, <<q>>>> : p \in ScriptParts, q \in {RowLookup(k, TRUE), RowLookup(K, TRUE)}}

ServeBehaviors(req) == IF req \in CopyRequests THEN Lists ELSE {<<>>}

Response(status, body, headers, data) ==
  [status |-> status, body |-> body, headers |-> headers, data |-> data, aliased |-> TRUE]

ServeStubs(req) ==
  IF req \in CopyRequests
  THEN {Response(Num(1), Str(<<"T", "[1]", "U", "T", "[0]", "T">>), Map(<<"h">> :> T @@ ContentLength :> <<"1">>), <<>>),
        Response(Null, Obj(k :> Str(<<"T", "k", "T", "j">>)), Null, T),
        Response(Str(<<"T", "j">>), Null, Map(ContentLength :> <<"1">>), <<>>)}
  ELSE {Response(Null, Null, Null, <<>>)}

DefaultResponse == Response(Num(4), Str(a), Map(<<"y">> :> a), b)
=============================================================================
