----------------------------- MODULE JsonValues -----------------------------
(***************************************************************************)
(* The values that predicates and behaviors look at.  A string is a        *)
(* sequence of letters, two of which, "A" and "K", are upper case.  A JSON *)
(* value is a record tagged with its Go type after json.Unmarshal.  A      *)
(* field of a request is a string, a string that holds a JSON document, a  *)
(* map[string]string, or nil (Null).                                       *)
(***************************************************************************)
EXTENDS Integers, Sequences, SequencesExt, FiniteSets

Lower(letter) == CASE letter = "A" -> "a" [] letter = "K" -> "k" [] OTHER -> letter

\* strings.ToLower; two strings are strings.EqualFold when they have the same.
Fold(s) == [i \in DOMAIN s |-> Lower(s[i])]

Null == [t |-> "null"]
Str(s) == [t |-> "str", s |-> s]
Bool(b) == [t |-> "bool", b |-> b]
Num(n) == [t |-> "num", n |-> n]
Arr(e) == [t |-> "arr", e |-> e]
Obj(m) == [t |-> "obj", m |-> m]
Map(m) == [t |-> "map", m |-> m]

\* A string that json.Unmarshal turns into the value j.
Text(j) == [t |-> "text", j |-> j]

Empty == Str(<<>>)

\* A number is written as one letter; the text of any other document as one
\* letter that no other string has.
Digits(n) == <<ToString(n)>>
DocLetters(j) == IF j.t = "num" THEN Digits(j.n) ELSE <<"{}">>

-----------------------------------------------------------------------------
(* Strings                                                                  *)

Same(a, b, cs) == IF cs THEN a = b ELSE Fold(a) = Fold(b)

Norm(s, cs) == IF cs THEN s ELSE Fold(s)

\* strings.HasPrefix, HasSuffix and Contains (HasInfix), after ToLower on both sides when
\* case does not matter.
HasPrefix(s, p, cs) == IsPrefix(Norm(p, cs), Norm(s, cs))
HasSuffix(s, p, cs) == IsSuffix(Norm(p, cs), Norm(s, cs))
HasInfix(s, p, cs) ==
  \E i \in 0 .. Len(s) - Len(p) : SubSeq(Norm(s, cs), i + 1, i + Len(p)) = Norm(p, cs)

\* Regular expressions are literals here; one that does not compile is
\* BadPattern, and matches nothing.
BadPattern == <<"[">>
RegexMatch(s, p, cs) == p # BadPattern /\ HasInfix(s, p, cs)

-----------------------------------------------------------------------------
(* Documents                                                                *)

\* toString, for the values that it converts.
IsString(v) == v.t \in {"str", "text", "null"}
Chars(v) == CASE v.t = "str" -> v.s [] v.t = "text" -> DocLetters(v.j) [] v.t = "xml" -> <<"<>">> [] OTHER -> <<>>

NamesDistinct(m) == \A k, l \in DOMAIN m : Fold(k) = Fold(l) => k = l

RECURSIVE KeysDistinct(_)
\* No object of the document has two keys that are equal up to case.
KeysDistinct(j) ==
  CASE j.t = "obj" ->
         /\ NamesDistinct(j.m)
         /\ \A k \in DOMAIN j.m : KeysDistinct(j.m[k])
    [] j.t = "arr" -> \A i \in DOMAIN j.e : KeysDistinct(j.e[i])
    [] OTHER -> TRUE

RECURSIVE Canonical(_, _, _)
\* A form that two documents share exactly when they are equal with arrays read
\* as bags, and keys and strings read up to case where case does not matter.
Canonical(j, cs, kcs) ==
  CASE j.t = "obj" ->
         {<<Norm(k, kcs), Canonical(j.m[k], cs, kcs)>> : k \in DOMAIN j.m}
    [] j.t = "arr" ->
         LET c(i) == Canonical(j.e[i], cs, kcs) IN
           {<<<<"bag">>, <<c(i), Cardinality({k \in DOMAIN j.e : c(k) = c(i)})>>>> : i \in DOMAIN j.e}
             \cup {<<<<"size">>, Len(j.e)>>}
    [] j.t = "str" -> {<<<<"str">>, Norm(j.s, cs)>>}
    [] j.t = "num" -> {<<<<"num">>, j.n>>}
    [] OTHER -> {<<<<"null">>, 0>>}
=============================================================================
