---------------------------- MODULE MCPredicates ----------------------------
(***************************************************************************)
(* A small instance of Predicates.  Requests vary in one field at a time,  *)
(* and the predicates for a request are about the field that varies.       *)
(***************************************************************************)
EXTENDS Predicates

a == <<"a">>
k == <<"k">>
K == <<"K">>
j == <<"j">>
Strings == {<<>>, a, <<"A">>, <<"a", "b">>, <<"b", "a">>}

Scalars == {Null, Str(a), Str(<<"A">>), Num(1)}

ObjectsOf(Keys, Values) == {Obj(m) : m \in [Keys -> Values]}

Flat == UNION {ObjectsOf(Keys, Scalars) : Keys \in {{}, {k}, {K}, {k, j}}}
          \cup ObjectsOf({k, K}, {Str(a), Num(1)})

Arrays == {Arr(e) : e \in UNION {[1..n -> Scalars] : n \in 0..2}}
            \cup {Arr(<<Str(a), Str(<<"A">>), Str(a)>>), Arr(<<Str(<<"A">>), Str(a), Str(<<"A">>)>>),
                  Arr(<<Obj([x \in {k} |-> Str(a)]), Obj([x \in {k} |-> Num(1)])>>),
                  Arr(<<Obj([x \in {K} |-> Num(1)]), Obj([x \in {k} |-> Str(a)])>>)}

Nested == {Obj([x \in {top} |-> v]) :
             top \in {k, K},
             v \in {Arr(<<>>), Arr(<<Num(1), Str(a)>>), Arr(<<Str(<<"A">>), Null>>),
                    Arr(<<Obj([x \in {j} |-> Str(a)]), Num(1)>>),
                    Obj([x \in {j} |-> Null]), Obj([x \in {j} |-> Num(1)]),
                    Obj([x \in {j, k} |-> Str(a)])}}

Documents == {Str(a), Num(1)} \cup Flat \cup Arrays \cup Nested

Queries == UNION {[Keys -> {<<>>, a, <<"A">>}] : Keys \in {{}, {k}, {K}, {k, K}, {k, j}}}

AnyRequest == [path |-> a, body |-> Empty, query |-> <<>>]

SmallRequests ==
  {[AnyRequest EXCEPT !.path = s] : s \in Strings}
    \cup {[AnyRequest EXCEPT !.body = b] : b \in {Text(d) : d \in Documents} \cup {Empty, Str(a)}}
    \cup {[AnyRequest EXCEPT !.query = q] : q \in Queries}

-----------------------------------------------------------------------------
Cases == {<<FALSE, FALSE>>, <<FALSE, TRUE>>, <<TRUE, FALSE>>}

\* Predicates on a field: no selector, no except.
On(name, key, path, ops, values) ==
  {[op |-> op, field |-> [name |-> name, key |-> key, path |-> path], expected |-> e,
    cs |-> c[1], kcs |-> c[2], except |-> <<>>, sel |-> <<>>] : op \in ops, e \in values, c \in Cases}

Operators == Comparison \cup {"matches"}

PathPredicates ==
  LET plain == On("path", <<>>, <<>>, Operators, {Str(s) : s \in Strings} \cup {Null, Num(1), Str(BadPattern)})
  IN plain \cup {[p EXCEPT !.except = a] : p \in plain}
       \cup {[op |-> "not", of |-> p] : p \in plain}
       \cup {[op |-> op, of |-> <<p, q>>] : op \in {"and", "or"},
              p, q \in On("path", <<>>, <<>>, {"equals", "startsWith"}, {Str(a), Str(<<"A">>)})}
       \cup On("path", <<>>, <<>>, {"exists"}, {Bool(TRUE), Bool(FALSE)})

QueryPredicates ==
  On("query", <<>>, <<>>, Operators, {Obj(m) : m \in [{k} -> {Str(<<>>), Str(a), Num(1)}] \cup [{k, j} -> {Str(a)}]})
    \cup On("query", k, <<>>, Operators, {Str(<<>>), Str(a), Null})
    \cup On("query", <<>>, <<>>, {"exists"}, {Bool(TRUE)} \cup {Obj(m) : m \in [{k} -> {Bool(TRUE), Bool(FALSE)}]})
    \cup On("query", k, <<>>, {"exists"}, {Bool(TRUE), Bool(FALSE)})

Paths == {<<Key(k)>>, <<Key(j)>>, <<Key(k), Key(j)>>, <<Key(k), Index(0)>>, <<Key(k), Index(1)>>,
          <<Key(k), Index(-1)>>, <<Key(k), Index(0), Key(j)>>, <<Key(k), All>>, <<Key(k), All, Key(j)>>, <<Index(-1)>>,
          <<Index(1), Key(k)>>, <<All, Key(k)>>, <<Star>>}

Selectors == [deep : {FALSE}, path : Paths] \cup [deep : {TRUE}, path : {<<Key(k)>>, <<Key(k), Index(0)>>}]

BodyPredicates ==
  On("body", <<>>, <<>>, {"equals", "deepEquals"}, Documents \cup {Null})
    \cup On("body", <<>>, <<>>, {"contains", "matches"},
            {Str(a)} \cup {Obj([x \in {k} |-> Str(a)]), Obj([x \in {k} |-> Obj([y \in {j} |-> Str(a)])])})
    \cup UNION {On("body", <<>>, path, {"exists"}, {Bool(TRUE), Bool(FALSE)}) : path \in Paths}
    \cup {[p EXCEPT !.sel = <<s>>] :
            p \in On("body", <<>>, <<>>, {"equals", "deepEquals", "contains"}, {Str(a), Num(1), Arr(<<Num(1), Str(a)>>)}),
            s \in Selectors}
    \cup On("body", <<>>, <<>>, {"exists"}, {Bool(TRUE)})

SmallPredicates(req) ==
  CASE req.body # Empty -> BodyPredicates
    [] req.query # <<>> -> QueryPredicates
    [] OTHER -> PathPredicates

SmallFirstKeys == {k, K}
=============================================================================
