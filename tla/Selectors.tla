----------------------------- MODULE Selectors -----------------------------
(***************************************************************************)
(* The three ways in which the code finds a value in a JSON document:      *)
(* SelectorEvaluator (JSONPath of a predicate), navigateAndCheck (exists   *)
(* predicates with a path) and BehaviorExecutor (JSONPath of a copy or     *)
(* lookup behavior).  A path is a sequence of segments: keys, array        *)
(* indices, and two wildcards.                                             *)
(***************************************************************************)
EXTENDS JsonValues

VARIABLE
  first  \* the key that a range over a Go map comes upon first

Key(k) == [is |-> "key", key |-> k]
Index(n) == [is |-> "index", n |-> n]
Star == [is |-> "star"]  \* .*
All == [is |-> "all"]    \* [*]

\* Mutant: the key itself is not tried first.
CandidatesFolded(m, k, kcs) == {x \in DOMAIN m : Same(x, k, kcs)}

\* The keys of m that a lookup of k may use: k itself, or else one of those
\* equal to it up to case.
Candidates(m, k, kcs) ==
  IF k \in DOMAIN m THEN {k}
  ELSE IF kcs THEN {} ELSE {x \in DOMAIN m : Fold(x) = Fold(k)}

FirstOf(keys) == IF first \in keys THEN first ELSE CHOOSE k \in keys : TRUE

\* The values of a map in the order of a range over it.
Ranged(m) ==
  IF DOMAIN m = {} THEN <<>>
  ELSE LET f == FirstOf(DOMAIN m)
           keys == <<f>> \o SetToSeq(DOMAIN m \ {f})
       IN [i \in DOMAIN keys |-> m[keys[i]]]

-----------------------------------------------------------------------------
(* SelectorEvaluator                                                        *)

\* valueToString; the text of an array, an object or a number parses again.
ValueToString(j) == CASE j.t = "str" -> j [] j.t = "null" -> Empty [] OTHER -> Text(j)

\* The results that are not empty, joined with commas when there are several.
Joined(results) ==
  LET some == SelectSeq(results, LAMBDA v : v # Empty) IN
    IF Len(some) = 1 THEN some[1]
    ELSE Str(FlattenSeq([i \in DOMAIN some |->
                           IF i = 1 THEN Chars(some[i]) ELSE <<",">> \o Chars(some[i])]))

\* A negative index counts from the end.
Place(e, n) == IF n < 0 THEN Len(e) + n ELSE n

InRange(e, n) == Place(e, n) \in 0 .. Len(e) - 1

\* segment+rest: a name and the name after it become one, unless a bracket follows.
Name(s) == IF s.is = "star" THEN <<"*">> ELSE s.key
IsName(s) == s.is \in {"key", "star"}
Merge(path) ==
  IF Len(path) > 1 /\ IsName(path[1]) /\ IsName(path[2])
  THEN <<Key(Name(path[1]) \o Name(path[2]))>> \o SubSeq(path, 3, Len(path))
  ELSE path

RECURSIVE NavigatePath(_, _, _)
\* navigatePathWithOptions.  A field name applied to an array is applied to its
\* elements.
NavigatePath(j, path, kcs) ==
  IF path = <<>> THEN ValueToString(j)
  ELSE LET s == Head(path)
           rest == Tail(path)
       IN CASE j.t = "obj" /\ s.is = "key" ->
                 LET keys == Candidates(j.m, s.key, kcs) IN
                   IF keys = {} THEN Empty ELSE NavigatePath(j.m[FirstOf(keys)], rest, kcs)
            [] j.t = "obj" /\ s.is = "star" ->
                 Joined([i \in DOMAIN Ranged(j.m) |-> NavigatePath(Ranged(j.m)[i], rest, kcs)])
            [] j.t = "arr" /\ s.is = "index" ->
                 IF InRange(j.e, s.n) THEN NavigatePath(j.e[Place(j.e, s.n) + 1], rest, kcs) ELSE Empty
            [] j.t = "arr" /\ s.is = "all" ->
                 Joined([i \in DOMAIN j.e |-> NavigatePath(j.e[i], rest, kcs)])
            [] j.t = "arr" /\ IsName(s) ->
                 Joined([i \in DOMAIN j.e |-> NavigatePath(j.e[i], Merge(path), kcs)])
            [] OTHER -> Empty

FirstSome(results) ==
  IF \E i \in DOMAIN results : results[i] # Empty
  THEN results[CHOOSE i \in DOMAIN results :
                 results[i] # Empty /\ \A k \in 1..i-1 : results[k] = Empty]
  ELSE Empty

RECURSIVE RecursiveSearch(_, _, _)
\* recursiveSearchWithOptions: the key at this level, then keys equal to it up
\* to case, then the levels below; what is empty is passed over.
RecursiveSearch(j, path, kcs) ==
  CASE j.t = "obj" ->
         LET k == Head(path).key
             found(keys) == LET vs == Ranged([x \in keys |-> j.m[x]]) IN
                              [i \in DOMAIN vs |-> NavigatePath(vs[i], Tail(path), kcs)]
             below == Ranged(j.m)
         IN FirstSome(found({k} \cap DOMAIN j.m)
                      \o found(IF kcs THEN {} ELSE {x \in DOMAIN j.m : Fold(x) = Fold(k)})
                      \o [i \in DOMAIN below |-> RecursiveSearch(below[i], path, kcs)])
    [] j.t = "arr" -> FirstSome([i \in DOMAIN j.e |-> RecursiveSearch(j.e[i], path, kcs)])
    [] OTHER -> Empty

\* ApplySelectorWithOptions on a body; Null when it is not JSON, which is an error.
ApplySelector(body, sel, kcs) ==
  IF body.t # "text" THEN Null
  ELSE IF sel.deep THEN RecursiveSearch(body.j, sel.path, kcs)
  ELSE NavigatePath(body.j, sel.path, kcs)

-----------------------------------------------------------------------------
(* navigateAndCheck                                                         *)

RECURSIVE NavigateAndCheck(_, _, _)
NavigateAndCheck(j, path, kcs) ==
  IF path = <<>> THEN TRUE
  ELSE LET s == Head(path)
           rest == Tail(path)
       IN CASE s.is = "index" ->
                 j.t = "arr" /\ InRange(j.e, s.n) /\ NavigateAndCheck(j.e[Place(j.e, s.n) + 1], rest, kcs)
            [] s.is = "all" -> j.t = "arr" /\ \E i \in DOMAIN j.e : NavigateAndCheck(j.e[i], rest, kcs)
            [] OTHER ->
                 /\ j.t = "obj"
                 /\ LET keys == Candidates(j.m, Name(s), kcs) IN
                      keys # {} /\ NavigateAndCheck(j.m[FirstOf(keys)], rest, kcs)

-----------------------------------------------------------------------------
(* BehaviorExecutor                                                         *)

\* The brackets that follow a key, up to the next dot.
Brackets(path) ==
  LET others == {i \in 2..Len(path) : path[i].is \notin {"index", "all"}} IN
    IF others = {} THEN Tail(path) ELSE SubSeq(path, 2, Min(others) - 1)

\* strconv.Atoi without a look at its error: [*], and one index after another,
\* are no numbers, and give 0.
IndexOf(brackets) == IF Len(brackets) = 1 /\ brackets[1].is = "index" THEN brackets[1].n ELSE 0

RECURSIVE NavigateOffByOne(_, _)
\* Mutant: the last element is out of range.
NavigateOffByOne(j, path) ==
  IF path = <<>> THEN ValueToString(j)
  ELSE IF j.t # "obj" \/ Head(path).is # "key" \/ Head(path).key \notin DOMAIN j.m THEN Empty
  ELSE LET v == j.m[Head(path).key]
           brackets == Brackets(path)
           rest == SubSeq(path, Len(brackets) + 2, Len(path))
       IN IF brackets = <<>> THEN NavigateOffByOne(v, rest)
          ELSE IF v.t = "arr" /\ IndexOf(brackets) + 1 < Len(v.e)
          THEN NavigateOffByOne(v.e[IndexOf(brackets) + 1], rest)
          ELSE Empty

RECURSIVE NavigateJSON(_, _)
\* navigateJSON: exact keys; an index belongs to the key before it.  A negative
\* one, which panics, is left out.
NavigateJSON(j, path) ==
  IF path = <<>> THEN ValueToString(j)
  ELSE IF j.t # "obj" \/ Head(path).is # "key" \/ Head(path).key \notin DOMAIN j.m THEN Empty
  ELSE LET v == j.m[Head(path).key]
           brackets == Brackets(path)
           rest == SubSeq(path, Len(brackets) + 2, Len(path))
       IN IF brackets = <<>> THEN NavigateJSON(v, rest)
          ELSE IF v.t = "arr" /\ IndexOf(brackets) < Len(v.e)
          THEN NavigateJSON(v.e[IndexOf(brackets) + 1], rest)
          ELSE Empty

RECURSIVE SearchJSON(_, _)
\* recursiveSearch: a key that is there ends the search of its object, even
\* when its value is empty.
SearchJSON(j, k) ==
  CASE j.t = "obj" ->
         IF k \in DOMAIN j.m THEN ValueToString(j.m[k])
         ELSE FirstSome([i \in DOMAIN Ranged(j.m) |-> SearchJSON(Ranged(j.m)[i], k)])
    [] j.t = "arr" -> FirstSome([i \in DOMAIN j.e |-> SearchJSON(j.e[i], k)])
    [] OTHER -> Empty

\* extractJSONPath: a source that is not JSON is its own value.
ExtractJSONPath(body, sel) ==
  IF body.t # "text" \/ sel.path = <<>> THEN body
  ELSE IF sel.deep THEN SearchJSON(body.j, sel.path[1].key)
  ELSE NavigateJSON(body.j, sel.path)
=============================================================================
