------------------------ MODULE FilesystemRepoProofs ------------------------
(***************************************************************************)
(* The files of --datadir agree with memory, edits are atomic, nothing is   *)
(* left behind, and the contract of a repository is kept, for any number of *)
(* ports, stubs, names, calls and faults.                                   *)
(***************************************************************************)
EXTENDS FilesystemRepo, TLAPS

-----------------------------------------------------------------------------
(* Lists                                                                    *)


LEMMA ElementOf ==
  ASSUME NEW S, NEW q \in Seq(S), NEW n \in 1..Len(q)
  PROVE  q[n] \in S
OBVIOUS

\* The operators on lists, position by position.
LEMMA ConcatIs ==
  ASSUME NEW S, NEW a \in Seq(S), NEW b \in Seq(S)
  PROVE  /\ a \o b \in Seq(S)
         /\ Len(a \o b) = Len(a) + Len(b)
         /\ \A i \in 1..Len(a) : (a \o b)[i] = a[i]
         /\ \A i \in Len(a) + 1..Len(a) + Len(b) : (a \o b)[i] = b[i - Len(a)]
OBVIOUS

LEMMA InsertAtIs ==
  ASSUME NEW S, NEW s \in Seq(S), NEW x \in S, NEW p \in 1..Len(s) + 1
  PROVE  /\ InsertAt(s, p, x) \in Seq(S)
         /\ Len(InsertAt(s, p, x)) = Len(s) + 1
         /\ \A i \in 1..Len(s) + 1 :
              InsertAt(s, p, x)[i] = IF i < p THEN s[i] ELSE IF i = p THEN x ELSE s[i - 1]
<1> DEFINE a == SubSeq(s, 1, p - 1)
           b == SubSeq(s, p, Len(s))
<1>1. a \in Seq(S) /\ Len(a) = p - 1 /\ \A i \in 1..p - 1 : a[i] = s[i]
  OBVIOUS
<1>2. b \in Seq(S) /\ Len(b) = Len(s) - p + 1 /\ \A i \in 1..Len(s) - p + 1 : b[i] = s[p + i - 1]
  OBVIOUS
<1>3. InsertAt(s, p, x) = (a \o <<x>>) \o b
  BY DEF InsertAt
<1> HIDE DEF a, b
<1>4. a \o <<x>> \in Seq(S) /\ Len(a \o <<x>>) = p
      /\ \A i \in 1..p : (a \o <<x>>)[i] = IF i < p THEN s[i] ELSE x
  BY <1>1
<1> DEFINE c == a \o <<x>>
<1> HIDE DEF c
<1>5. c \o b \in Seq(S) /\ Len(c \o b) = Len(s) + 1
      /\ \A i \in 1..Len(s) + 1 : (c \o b)[i] = IF i < p THEN s[i] ELSE IF i = p THEN x ELSE s[i - 1]
  <2>0. c \in Seq(S) /\ Len(c) = p /\ \A i \in 1..p : c[i] = IF i < p THEN s[i] ELSE x
    BY <1>4 DEF c
  <2>1. /\ c \o b \in Seq(S) /\ Len(c \o b) = p + Len(b)
        /\ \A i \in 1..p : (c \o b)[i] = c[i]
        /\ \A i \in p + 1..p + Len(b) : (c \o b)[i] = b[i - p]
    BY <1>2, <2>0, ConcatIs, SMTT(60)
  <2>2. ASSUME NEW i \in 1..Len(s) + 1, i > p PROVE (c \o b)[i] = s[i - 1]
    <3>1. i \in p + 1..p + Len(b) /\ i - p \in 1..Len(s) - p + 1 /\ p + (i - p) - 1 = i - 1
      BY <1>2, <2>2
    <3>2. QED
      BY <1>2, <2>1, <3>1
  <2>3. Len(s) \in Nat
    OBVIOUS
  <2>4. QED
    BY <1>2, <2>0, <2>1, <2>2, <2>3
<1>6. QED
  BY <1>3, <1>5 DEF c

LEMMA RemoveAtIs ==
  ASSUME NEW S, NEW s \in Seq(S), NEW p \in 1..Len(s)
  PROVE  /\ RemoveAt(s, p) \in Seq(S)
         /\ Len(RemoveAt(s, p)) = Len(s) - 1
         /\ \A i \in 1..Len(s) - 1 : RemoveAt(s, p)[i] = IF i < p THEN s[i] ELSE s[i + 1]
<1> DEFINE a == SubSeq(s, 1, p - 1)
           b == SubSeq(s, p + 1, Len(s))
<1>1. a \in Seq(S) /\ Len(a) = p - 1 /\ \A i \in 1..p - 1 : a[i] = s[i]
  OBVIOUS
<1>2. b \in Seq(S) /\ Len(b) = Len(s) - p /\ \A i \in 1..Len(s) - p : b[i] = s[p + i]
  OBVIOUS
<1>3. RemoveAt(s, p) = a \o b
  BY DEF RemoveAt
<1> HIDE DEF a, b
<1>4. /\ a \o b \in Seq(S) /\ Len(a \o b) = Len(s) - 1
      /\ \A i \in 1..p - 1 : (a \o b)[i] = a[i]
      /\ \A i \in p..Len(s) - 1 : (a \o b)[i] = b[i - (p - 1)]
  <2>1. /\ a \o b \in Seq(S) /\ Len(a \o b) = Len(a) + Len(b)
        /\ \A i \in 1..Len(a) : (a \o b)[i] = a[i]
        /\ \A i \in Len(a) + 1..Len(a) + Len(b) : (a \o b)[i] = b[i - Len(a)]
    BY <1>1, <1>2, ConcatIs, ZenonT(60)
  <2>2. Len(a) + Len(b) = Len(s) - 1 /\ Len(a) + 1 = p /\ Len(s) \in Nat
    BY <1>1, <1>2
  <2>3. QED
    BY <1>1, <2>1, <2>2
<1>5. ASSUME NEW i \in 1..Len(s) - 1, ~(i < p) PROVE (a \o b)[i] = s[i + 1]
  <2>1. i \in p..Len(s) - 1 /\ i - (p - 1) \in 1..Len(s) - p /\ p + (i - (p - 1)) = i + 1
    BY <1>5
  <2>2. QED
    BY <1>2, <1>4, <2>1
<1>6. QED
  BY <1>1, <1>3, <1>4, <1>5


\* Two lists with the same length and elements are the same.
LEMMA SameElements ==
  ASSUME NEW S, NEW a \in Seq(S), NEW b \in Seq(S), Len(a) = Len(b),
         \A i \in 1..Len(a) : a[i] = b[i]
  PROVE  a = b
OBVIOUS

-----------------------------------------------------------------------------
(* Reading an imposter                                                      *)

LEMMA Distinct ==
  /\ Ports # {}
  /\ NoDir \notin Names
  /\ None \notin Stubs /\ Partial \notin Stubs /\ Broken \notin Stubs
  /\ None # Partial /\ None # Broken /\ Partial # Broken
  /\ None \notin Seq(Entry) /\ None \notin Seq(Loaded) /\ Broken \notin Seq(Loaded)
BY FilesystemAssumption, ListAssumption

\* An imposter whose stubs can all be read is the list of them.
LEMMA ReadAll ==
  ASSUME NEW h \in Seq(Entry), NEW c \in Contents,
         \A i \in 1..Len(h) : Readable(c, h[i])
  PROVE  /\ GetImposter(h, c) \in Seq(Loaded)
         /\ Len(GetImposter(h, c)) = Len(h)
         /\ \A i \in 1..Len(h) :
              GetImposter(h, c)[i] = [predicates |-> h[i].predicates, responses |-> c[h[i].dir]]
<1> DEFINE g == [i \in 1..Len(h) |-> [predicates |-> h[i].predicates, responses |-> c[h[i].dir]]]
<1>1. GetImposter(h, c) = g
  BY Distinct DEF GetImposter
<1>2. ASSUME NEW i \in 1..Len(h)
      PROVE  [predicates |-> h[i].predicates, responses |-> c[h[i].dir]] \in Loaded
  <2>1. h[i] \in Entry
    BY ElementOf
  <2>2. c[h[i].dir] \in Stubs
    BY DEF Readable
  <2>3. QED
    BY <2>1, <2>2 DEF Entry, Loaded
<1>3. Len(h) \in Nat
  OBVIOUS
<1>4. g \in Seq(Loaded) /\ Len(g) = Len(h)
  BY <1>2, <1>3
<1>5. QED
  BY <1>1, <1>4

\* What is read is the list, nothing or an error, as the files say.
LEMMA ReadCases ==
  ASSUME NEW h \in Seq(Entry) \cup {None}, NEW c \in Contents
  PROVE  /\ GetImposter(h, c) \in Views
         /\ GetImposter(h, c) = None <=> h = None
         /\ Intact(GetImposter(h, c)) =>
              h \in Seq(Entry) /\ \A i \in 1..Len(h) : Readable(c, h[i])
         /\ h # None /\ (\E i \in 1..Len(h) : ~Readable(c, h[i])) => GetImposter(h, c) = Broken
<1>1. CASE h = None
  BY <1>1, Distinct DEF GetImposter, Views, Intact
<1>2. CASE h # None /\ \E i \in 1..Len(h) : ~Readable(c, h[i])
  BY <1>2, Distinct DEF GetImposter, Views, Intact
<1>3. CASE h # None /\ \A i \in 1..Len(h) : Readable(c, h[i])
  <2>1. h \in Seq(Entry) /\ GetImposter(h, c) \in Seq(Loaded)
    BY <1>3, ReadAll
  <2>2. QED
    BY <1>3, <2>1, Distinct DEF Views, Intact
<1>4. QED
  BY <1>1, <1>2, <1>3

LEMMA NamedIs ==
  ASSUME NEW h \in Seq(Entry) \cup {None}
  PROVE  NamedBy(h) \subseteq Names \cup {NoDir}
<1>1. ASSUME h # None, NEW i \in 1..Len(h) PROVE h[i].dir \in Names \cup {NoDir}
  <2>1. h \in Seq(Entry)
    BY <1>1
  <2>2. h[i] \in Entry
    BY <2>1, ElementOf
  <2>3. QED
    BY <2>2 DEF Entry
<1>2. QED
  BY <1>1 DEF NamedBy

\* Directories that the header does not name do not matter.
LEMMA ReadSame ==
  ASSUME NEW h \in Seq(Entry) \cup {None}, NEW c, NEW d,
         \A n \in NamedBy(h) \ {NoDir} : c[n] = d[n]
  PROVE  GetImposter(h, c) = GetImposter(h, d)
<1>1. CASE h = None
  BY <1>1 DEF GetImposter
<1>2. CASE h # None
  <2>1. \A i \in 1..Len(h) : h[i].dir # NoDir => c[h[i].dir] = d[h[i].dir]
    BY <1>2 DEF NamedBy
  <2>2. \A i \in 1..Len(h) : Readable(c, h[i]) <=> Readable(d, h[i])
    BY <2>1 DEF Readable
  <2>3. CASE \E i \in 1..Len(h) : ~Readable(c, h[i])
    BY <1>2, <2>2, <2>3 DEF GetImposter
  <2>4. CASE \A i \in 1..Len(h) : Readable(c, h[i])
    <3>1. \A i \in 1..Len(h) : c[h[i].dir] = d[h[i].dir]
      BY <2>1, <2>4 DEF Readable
    <3>2. QED
      BY <1>2, <2>2, <2>4, <3>1 DEF GetImposter
  <2>5. QED
    BY <2>3, <2>4
<1>3. QED
  BY <1>1, <1>2

-----------------------------------------------------------------------------
(* Editing the list of stubs                                                *)

\* Element x put into list s at index i, or at its end.
Put(s, i, x) == IF i >= Len(s) THEN Append(s, x) ELSE InsertAt(s, i + 1, x)

\* List t is s with x put in at index i.
IsPut(S, s, i, x, t) ==
  /\ t \in Seq(S)
  /\ Len(t) = Len(s) + 1
  /\ \A j \in 1..Len(s) + 1 : t[j] = IF j <= i THEN s[j] ELSE IF j = i + 1 THEN x ELSE s[j - 1]

LEMMA PutIs ==
  ASSUME NEW S, NEW s \in Seq(S), NEW x \in S, NEW i \in 0..Len(s)
  PROVE  IsPut(S, s, i, x, Put(s, i, x))
<1> DEFINE t == Put(s, i, x)
<1> SUFFICES IsPut(S, s, i, x, t)
  OBVIOUS
<1>1. Len(s) \in Nat
  OBVIOUS
<1>2. CASE i >= Len(s)
  <2>1. t = Append(s, x) /\ i = Len(s)
    BY <1>1, <1>2 DEF Put
  <2> HIDE DEF t
  <2>2. QED
    BY <1>1, <2>1 DEF IsPut
<1>3. CASE ~(i >= Len(s))
  <2>1. t = InsertAt(s, i + 1, x) /\ i + 1 \in 1..Len(s) + 1
    BY <1>1, <1>3 DEF Put
  <2>2. /\ t \in Seq(S) /\ Len(t) = Len(s) + 1
        /\ \A j \in 1..Len(s) + 1 : t[j] = IF j < i + 1 THEN s[j] ELSE IF j = i + 1 THEN x ELSE s[j - 1]
    BY <2>1, InsertAtIs
  <2> HIDE DEF t
  <2>3. \A j \in Nat : j < i + 1 <=> j <= i
    OBVIOUS
  <2>4. QED
    BY <1>1, <2>2, <2>3 DEF IsPut
<1>4. QED
  BY <1>2, <1>3

\* An imposter that cannot be read has a stub that cannot.
LEMMA BrokenHas ==
  ASSUME NEW h \in Seq(Entry), NEW c \in Contents, GetImposter(h, c) = Broken
  PROVE  \E i \in 1..Len(h) : ~Readable(c, h[i])
<1>1. SUFFICES ASSUME \A i \in 1..Len(h) : Readable(c, h[i]) PROVE FALSE
  OBVIOUS
<1>2. GetImposter(h, c) \in Seq(Loaded)
  BY <1>1, ReadAll
<1>3. QED
  BY <1>2, Distinct

\* The header with a new entry, and what is read then.
LEMMA EntryAdded ==
  ASSUME NEW h \in Seq(Entry), NEW e \in Entry, NEW i \in 0..Len(h), NEW t, t = Put(h, i, e)
  PROVE  /\ t \in Seq(Entry)
         /\ NamedBy(t) = NamedBy(h) \cup {e.dir}
         /\ DistinctDirs(h) /\ e.dir \notin NamedBy(h) => DistinctDirs(t)
<1>0. IsPut(Entry, h, i, e, t)
  BY PutIs
<1>1. /\ t \in Seq(Entry) /\ Len(t) = Len(h) + 1 /\ Len(h) \in Nat
      /\ \A j \in 1..Len(h) + 1 : t[j] = IF j <= i THEN h[j] ELSE IF j = i + 1 THEN e ELSE h[j - 1]
  BY <1>0 DEF IsPut
<1>2. t # None /\ h # None
  BY <1>1, Distinct
<1>3. NamedBy(t) = {t[j].dir : j \in 1..Len(t)} /\ NamedBy(h) = {h[j].dir : j \in 1..Len(h)}
  BY <1>2 DEF NamedBy
<1>4. NamedBy(t) \subseteq NamedBy(h) \cup {e.dir}
  <2>1. ASSUME NEW j \in 1..Len(t) PROVE t[j].dir \in NamedBy(h) \cup {e.dir}
    <3>1. t[j] = e \/ \E k \in 1..Len(h) : t[j] = h[k]
      <4>1. CASE j <= i
        BY <1>1, <4>1
      <4>2. CASE j = i + 1
        BY <1>1, <4>2
      <4>3. CASE j > i + 1
        <5>1. j - 1 \in 1..Len(h) /\ t[j] = h[j - 1]
          BY <1>1, <4>3
        <5>2. QED
          BY <5>1
      <4>4. QED
        BY <4>1, <4>2, <4>3
    <3>2. QED
      BY <1>3, <3>1
  <2>2. QED
    BY <1>3, <2>1
<1>5. NamedBy(h) \cup {e.dir} \subseteq NamedBy(t)
  <2>1. i + 1 \in 1..Len(t) /\ t[i + 1] = e
    BY <1>1
  <2>2. ASSUME NEW k \in 1..Len(h) PROVE h[k].dir \in NamedBy(t)
    <3>1. CASE k <= i
      <4>1. k \in 1..Len(t) /\ t[k] = h[k]
        BY <1>1, <3>1
      <4>2. QED
        BY <1>3, <4>1
    <3>2. CASE k > i
      <4>1. k + 1 \in 1..Len(t) /\ t[k + 1] = h[k]
        BY <1>1, <3>2
      <4>2. QED
        BY <1>3, <4>1
    <3>3. QED
      BY <3>1, <3>2
  <2>3. QED
    BY <1>3, <2>1, <2>2
<1>6. ASSUME DistinctDirs(h), e.dir \notin NamedBy(h) PROVE DistinctDirs(t)
  <2>1. ASSUME NEW j \in 1..Len(t), NEW k \in 1..Len(t), t[j].dir = t[k].dir, t[j].dir # NoDir
        PROVE  j = k
    <3> DEFINE from(m) == IF m <= i THEN m ELSE m - 1
    <3>1. \A m \in 1..Len(t) : m # i + 1 => from(m) \in 1..Len(h) /\ t[m] = h[from(m)]
      BY <1>1
    <3>2. \A m \in 1..Len(t) : m # i + 1 => t[m].dir \in NamedBy(h)
      <4> HIDE DEF from
      <4>1. QED
        BY <1>3, <3>1
    <3>3. t[i + 1] = e
      BY <1>1
    <3>4. CASE j = i + 1
      BY <1>6, <2>1, <3>2, <3>3, <3>4
    <3>5. CASE k = i + 1
      BY <1>6, <2>1, <3>2, <3>3, <3>5
    <3>6. CASE j # i + 1 /\ k # i + 1
      <4>1. from(j) = from(k)
        <5> HIDE DEF from
        <5>1. QED
          BY <1>6, <2>1, <3>1, <3>6 DEF DistinctDirs
      <4>2. QED
        BY <1>1, <3>6, <4>1
    <3>7. QED
      BY <3>4, <3>5, <3>6
  <2>2. QED
    BY <2>1 DEF DistinctDirs
<1>7. QED
  BY <1>1, <1>4, <1>5, <1>6

LEMMA ReadAdded ==
  ASSUME NEW h \in Seq(Entry), NEW e \in Entry, NEW i \in 0..Len(h), NEW t, NEW c \in Contents,
         t = Put(h, i, e),
         e.dir \in Names, c[e.dir] = e.predicates,
         Intact(GetImposter(h, c))
  PROVE  GetImposter(t, c) = Added(GetImposter(h, c), i, Whole(e.predicates))
<1> DEFINE g == GetImposter(h, c)
           u == GetImposter(t, c)
           a == Added(g, i, Whole(e.predicates))
<1>0. IsPut(Entry, h, i, e, t)
  BY PutIs
<1>1. /\ t \in Seq(Entry) /\ Len(t) = Len(h) + 1 /\ Len(h) \in Nat
      /\ \A j \in 1..Len(h) + 1 : t[j] = IF j <= i THEN h[j] ELSE IF j = i + 1 THEN e ELSE h[j - 1]
  BY <1>0 DEF IsPut
<1>2. \A j \in 1..Len(h) : Readable(c, h[j])
  BY ReadCases
<1>3. Readable(c, e) /\ e.predicates \in Stubs
  BY Distinct DEF Readable, Entry
<1>4. ASSUME NEW j \in 1..Len(t) PROVE Readable(c, t[j])
  <2>1. CASE j <= i
    BY <1>1, <1>2, <2>1
  <2>2. CASE j = i + 1
    BY <1>1, <1>3, <2>2
  <2>3. CASE j > i + 1
    <3>1. j - 1 \in 1..Len(h) /\ t[j] = h[j - 1]
      BY <1>1, <2>3
    <3>2. QED
      BY <1>2, <3>1
  <2>4. QED
    BY <1>1, <2>1, <2>2, <2>3
<1>5. /\ g \in Seq(Loaded) /\ Len(g) = Len(h)
      /\ \A j \in 1..Len(h) : g[j] = [predicates |-> h[j].predicates, responses |-> c[h[j].dir]]
  BY <1>2, ReadAll
<1>6. /\ u \in Seq(Loaded) /\ Len(u) = Len(t)
      /\ \A j \in 1..Len(t) : u[j] = [predicates |-> t[j].predicates, responses |-> c[t[j].dir]]
  BY <1>1, <1>4, ReadAll
<1>7. Whole(e.predicates) \in Loaded
  BY <1>3 DEF Whole, Loaded
<1>8. a = Put(g, i, Whole(e.predicates))
  BY DEF Added, Put
<1> HIDE DEF g, u, a
<1>9. IsPut(Loaded, g, i, Whole(e.predicates), a)
  <2>1. i \in 0..Len(g)
    BY <1>5
  <2>2. g \in Seq(Loaded)
    BY <1>5
  <2>3. QED
    BY <1>7, <1>8, <2>1, <2>2, PutIs
<1>10. /\ a \in Seq(Loaded) /\ Len(a) = Len(g) + 1
      /\ \A j \in 1..Len(g) + 1 :
           a[j] = IF j <= i THEN g[j] ELSE IF j = i + 1 THEN Whole(e.predicates) ELSE g[j - 1]
  BY <1>9 DEF IsPut
<1>11. ASSUME NEW j \in 1..Len(t) PROVE u[j] = a[j]
  <2>1. CASE j <= i
    <3>1. t[j] = h[j] /\ a[j] = g[j] /\ j \in 1..Len(h)
      BY <1>1, <1>5, <1>10, <2>1
    <3>2. QED
      BY <1>5, <1>6, <3>1
  <2>2. CASE j = i + 1
    <3>1. t[j] = e /\ a[j] = Whole(e.predicates)
      BY <1>1, <1>5, <1>10, <2>2
    <3>2. QED
      BY <1>6, <3>1 DEF Whole
  <2>3. CASE j > i + 1
    <3>1. t[j] = h[j - 1] /\ a[j] = g[j - 1] /\ j - 1 \in 1..Len(h)
      BY <1>1, <1>5, <1>10, <2>3
    <3>2. QED
      BY <1>5, <1>6, <3>1
  <2>4. QED
    BY <1>1, <2>1, <2>2, <2>3
<1>12. u = a
  BY <1>1, <1>5, <1>6, <1>10, <1>11, SameElements
<1>13. QED
  BY <1>12 DEF u, a, g

\* The header without an entry, and what is read then.
LEMMA EntryRemoved ==
  ASSUME NEW h \in Seq(Entry), NEW i \in 0..Len(h) - 1, NEW t, t = RemoveAt(h, i + 1)
  PROVE  /\ t \in Seq(Entry)
         /\ NamedBy(t) \subseteq NamedBy(h)
         /\ NamedBy(h) \subseteq NamedBy(t) \cup {h[i + 1].dir}
         /\ DistinctDirs(h) => DistinctDirs(t)
         /\ DistinctDirs(h) /\ h[i + 1].dir # NoDir => h[i + 1].dir \notin NamedBy(t)
<1>1. /\ t \in Seq(Entry) /\ Len(t) = Len(h) - 1 /\ Len(h) \in Nat
      /\ \A j \in 1..Len(h) - 1 : t[j] = IF j < i + 1 THEN h[j] ELSE h[j + 1]
  <2>1. i + 1 \in 1..Len(h) /\ Len(h) \in Nat
    OBVIOUS
  <2>2. QED
    BY <2>1, RemoveAtIs
<1>2. t # None /\ h # None
  BY <1>1, Distinct
<1>3. NamedBy(t) = {t[j].dir : j \in 1..Len(t)} /\ NamedBy(h) = {h[j].dir : j \in 1..Len(h)}
  BY <1>2 DEF NamedBy
<1> DEFINE from(m) == IF m < i + 1 THEN m ELSE m + 1
<1>4. \A m \in 1..Len(t) : from(m) \in 1..Len(h) /\ from(m) # i + 1 /\ t[m] = h[from(m)]
  BY <1>1
<1>5. \A m, n \in 1..Len(t) : from(m) = from(n) => m = n
  BY <1>1
<1>6. \A k \in 1..Len(h) : k # i + 1 => \E m \in 1..Len(t) : t[m] = h[k]
  <2>1. ASSUME NEW k \in 1..Len(h), k < i + 1 PROVE k \in 1..Len(t) /\ t[k] = h[k]
    BY <1>1, <2>1
  <2>2. ASSUME NEW k \in 1..Len(h), k > i + 1 PROVE k - 1 \in 1..Len(t) /\ t[k - 1] = h[k]
    BY <1>1, <2>2
  <2>3. QED
    BY <1>1, <2>1, <2>2
<1> HIDE DEF from
<1>7. NamedBy(t) \subseteq NamedBy(h)
  BY <1>3, <1>4
<1>8. NamedBy(h) \subseteq NamedBy(t) \cup {h[i + 1].dir}
  BY <1>3, <1>6
<1>9. ASSUME DistinctDirs(h) PROVE DistinctDirs(t)
  BY <1>4, <1>5, <1>9 DEF DistinctDirs
<1>10. ASSUME DistinctDirs(h), h[i + 1].dir # NoDir, h[i + 1].dir \in NamedBy(t) PROVE FALSE
  <2>1. PICK m \in 1..Len(t) : t[m].dir = h[i + 1].dir
    BY <1>3, <1>10
  <2>2. i + 1 \in 1..Len(h)
    BY <1>1
  <2>3. h[from(m)].dir = h[i + 1].dir /\ from(m) \in 1..Len(h) /\ from(m) # i + 1
    BY <1>4, <2>1
  <2>4. QED
    BY <1>10, <2>2, <2>3 DEF DistinctDirs
<1>11. QED
  BY <1>1, <1>7, <1>8, <1>9, <1>10

LEMMA ReadRemoved ==
  ASSUME NEW h \in Seq(Entry), NEW i \in 0..Len(h) - 1, NEW t, t = RemoveAt(h, i + 1),
         NEW c \in Contents, Intact(GetImposter(h, c))
  PROVE  GetImposter(t, c) = Removed(GetImposter(h, c), i)
<1> DEFINE g == GetImposter(h, c)
           u == GetImposter(t, c)
           a == Removed(g, i)
<1>0. i + 1 \in 1..Len(h) /\ Len(h) \in Nat /\ i < Len(h)
  OBVIOUS
<1>1. /\ t \in Seq(Entry) /\ Len(t) = Len(h) - 1
      /\ \A j \in 1..Len(h) - 1 : t[j] = IF j < i + 1 THEN h[j] ELSE h[j + 1]
  BY <1>0, RemoveAtIs
<1>2. \A j \in 1..Len(h) : Readable(c, h[j])
  BY ReadCases
<1>3. /\ g \in Seq(Loaded) /\ Len(g) = Len(h)
      /\ \A j \in 1..Len(h) : g[j] = [predicates |-> h[j].predicates, responses |-> c[h[j].dir]]
  BY <1>2, ReadAll
<1>4. \A j \in 1..Len(t) : Readable(c, t[j])
  BY <1>0, <1>1, <1>2, SMTT(60)
<1>5. /\ u \in Seq(Loaded) /\ Len(u) = Len(t)
      /\ \A j \in 1..Len(t) : u[j] = [predicates |-> t[j].predicates, responses |-> c[t[j].dir]]
  BY <1>1, <1>4, ReadAll
<1>6. a = RemoveAt(g, i + 1)
  BY <1>0, <1>3 DEF Removed
<1> HIDE DEF g, u, a
<1>7. /\ a \in Seq(Loaded) /\ Len(a) = Len(g) - 1
      /\ \A j \in 1..Len(g) - 1 : a[j] = IF j < i + 1 THEN g[j] ELSE g[j + 1]
  <2>1. i + 1 \in 1..Len(g)
    BY <1>0, <1>3
  <2>2. g \in Seq(Loaded)
    BY <1>3
  <2>3. QED
    BY <1>6, <2>1, <2>2, RemoveAtIs
<1>8. ASSUME NEW j \in 1..Len(t) PROVE u[j] = a[j]
  <2>1. CASE j < i + 1
    <3>1. t[j] = h[j] /\ a[j] = g[j] /\ j \in 1..Len(h)
      BY <1>0, <1>1, <1>3, <1>7, <2>1
    <3>2. QED
      BY <1>3, <1>5, <3>1
  <2>2. CASE ~(j < i + 1)
    <3>1. t[j] = h[j + 1] /\ a[j] = g[j + 1] /\ j + 1 \in 1..Len(h)
      BY <1>0, <1>1, <1>3, <1>7, <2>2
    <3>2. QED
      BY <1>3, <1>5, <3>1
  <2>3. QED
    BY <2>1, <2>2
<1>9. u = a
  BY <1>1, <1>3, <1>5, <1>7, <1>8, SameElements
<1>10. QED
  BY <1>9 DEF u, a, g

\* A header whose entries are those of a list of stubs is read as that list.
LEMMA ReadMade ==
  ASSUME NEW m \in Seq(Entry), NEW c \in Contents, NEW v \in Seq(Loaded), Len(v) = Len(m),
         \A i \in 1..Len(m) : m[i].dir # NoDir /\ c[m[i].dir] = m[i].predicates
                              /\ v[i] = Whole(m[i].predicates)
  PROVE  GetImposter(m, c) = v
<1>1. \A i \in 1..Len(m) : Readable(c, m[i])
  <2>1. ASSUME NEW i \in 1..Len(m) PROVE Readable(c, m[i])
    <3>1. m[i] \in Entry
      BY ElementOf
    <3>2. QED
      BY <3>1 DEF Readable, Entry
  <2>2. QED
    BY <2>1
<1> DEFINE g == GetImposter(m, c)
<1>2. /\ g \in Seq(Loaded) /\ Len(g) = Len(m)
      /\ \A i \in 1..Len(m) : g[i] = [predicates |-> m[i].predicates, responses |-> c[m[i].dir]]
  BY <1>1, ReadAll
<1> HIDE DEF g
<1>3. \A i \in 1..Len(g) : g[i] = v[i]
  BY <1>2 DEF Whole
<1>4. g = v
  BY <1>2, <1>3, SameElements
<1>5. QED
  BY <1>4 DEF g

-----------------------------------------------------------------------------
(* The call under way                                                       *)

LEMMA IdleIs ==
  /\ Idle \in Op
  /\ Idle.call = "none" /\ Idle.at = "done" /\ Idle.todo = <<>> /\ Idle.saving = NoDir /\ Idle.made = <<>>
  /\ Idle.index = 0 /\ ~Idle.whole /\ Idle.names = {} /\ Idle.ports = {} /\ Idle.goal = None
<1>1. (CHOOSE p \in Ports : TRUE) \in Ports
  BY Distinct
<1>2. None \in Views
  BY DEF Views
<1>3. <<>> \in Seq(Stubs) /\ <<>> \in Seq(Entry)
  OBVIOUS
<1>4. QED
  BY <1>1, <1>2, <1>3 DEF Idle, Op, Calls

\* The types of its fields.
OpTypes ==
  /\ op.call \in Calls
  /\ op.port \in Ports
  /\ op.at \in {"done", "save", "remove", "next"}
  /\ op.todo \in Seq(Stubs)
  /\ op.saving \in Names \cup {NoDir}
  /\ op.made \in Seq(Entry)
  /\ op.index \in Nat
  /\ op.whole \in BOOLEAN
  /\ op.names \in SUBSET Names
  /\ op.ports \in SUBSET Ports
  /\ op.goal \in Views

LEMMA OpFields == TypeOK => OpTypes
BY DEF TypeOK, Op, OpTypes

LEMMA TypesOf ==
  ASSUME TypeOK, NEW p \in Ports
  PROVE  /\ header[p] \in Seq(Entry) \cup {None}
         /\ content[p] \in Contents
         /\ store[p] \in Views
BY DEF TypeOK

LEMMA InvParts ==
  ASSUME FsInv
  PROVE  TypeOK /\ OpTypes /\ CallShape /\ (\A p \in Ports : Sound(p))
         /\ SavedStubs /\ Goals /\ Reads /\ Directories
BY OpFields DEF FsInv

LEMMA NowIdle == CallShape => (op = Idle <=> op.call = "none")
BY IdleIs DEF CallShape

-----------------------------------------------------------------------------
(* What a step leaves alone                                                 *)

LEMMA PortKept ==
  ASSUME NEW p \in Ports, header'[p] = header[p], content'[p] = content[p]
  PROVE  View(p)' = View(p) /\ Named(p)' = Named(p) /\ Present(p)' = Present(p)
BY DEF View, Named, Present

LEMMA SoundKept ==
  ASSUME NEW p \in Ports, Sound(p),
         header'[p] = header[p], content'[p] = content[p], store'[p] = store[p],
         p \in dir' <=> p \in dir, p \in lost' <=> p \in lost, p \in faulty' <=> p \in faulty,
         Away(p)' => Away(p)
  PROVE  Sound(p)'
<1>1. View(p)' = View(p) /\ Named(p)' = Named(p) /\ Present(p)' = Present(p)
  BY PortKept
<1>2. Clean(p)' <=> Clean(p)
  BY <1>1 DEF Clean
<1>3. AtRest(p)' <=> AtRest(p)
  BY <1>1, <1>2 DEF AtRest
<1>4. QED
  BY <1>1, <1>3 DEF Sound

\* Between calls there is nothing to say of a call.
LEMMA Quiet ==
  ASSUME OpTypes', CallShape', op'.at \in {"done", "next"}
  PROVE  SavedStubs' /\ Goals' /\ Reads' /\ Directories'
<1>1. op'.call \in {"none", "DeleteAll"} /\ op'.at # "save" /\ op'.at # "remove"
  BY DEF OpTypes, CallShape, Removing, Calls
<1>2. SavedStubs'
  BY <1>1 DEF SavedStubs
<1>3. Goals'
  BY <1>1 DEF Goals
<1>4. Reads'
  BY <1>1 DEF Reads
<1>5. Directories'
  BY <1>1 DEF Directories
<1>6. QED
  BY <1>2, <1>3, <1>4, <1>5

LEMMA IdleShape ==
  ASSUME op' = Idle
  PROVE  CallShape'
BY IdleIs DEF CallShape

\* A step that changes nothing of the ports other than p.
OnlyAt(p) ==
  \A q \in Ports : q # p =>
    /\ header'[q] = header[q] /\ content'[q] = content[q] /\ store'[q] = store[q]
    /\ q \in dir' <=> q \in dir
    /\ q \in lost' <=> q \in lost
    /\ q \in faulty' <=> q \in faulty
    /\ Away(q)

LEMMA AllSound ==
  ASSUME FsInv, NEW p \in Ports, OnlyAt(p), Sound(p)'
  PROVE  (\A q \in Ports : Sound(q))'
<1>1. ASSUME NEW q \in Ports, q # p PROVE Sound(q)'
  <2>1. Sound(q)
    BY InvParts
  <2>2. QED
    BY <1>1, <2>1, SoundKept DEF OnlyAt
<1>2. QED
  BY <1>1

\* A call that is over, with what it did at port p.
LEMMA Over ==
  ASSUME FsInv, TypeOK', op' = Idle, NEW p \in Ports, OnlyAt(p), Sound(p)'
  PROVE  FsInv'
<1>1. OpTypes'
  BY DEF TypeOK, Op, OpTypes
<1>2. CallShape' /\ op'.at = "done"
  BY IdleShape, IdleIs
<1>3. SavedStubs' /\ Goals' /\ Reads' /\ Directories'
  BY <1>1, <1>2, Quiet
<1>4. (\A q \in Ports : Sound(q))'
  BY AllSound
<1>5. QED
  BY <1>2, <1>3, <1>4 DEF FsInv

-----------------------------------------------------------------------------
(* Beginning of a call                                                      *)

LEMMA ListsAre ==
  ASSUME NEW list \in Lists
  PROVE  /\ list \in Seq(Stubs)
         /\ WholeList(list) \in Seq(Loaded)
         /\ Len(WholeList(list)) = Len(list)
         /\ \A i \in 1..Len(list) : WholeList(list)[i] = Whole(list[i])
<1>1. PICK n \in 0..MaxStubs : list \in [1..n -> Stubs]
  BY DEF Lists
<1>2. n \in Nat
  BY FilesystemAssumption
<1>3. list \in Seq(Stubs) /\ Len(list) = n
  BY <1>1, <1>2
<1>4. \A i \in 1..Len(list) : Whole(list[i]) \in Loaded
  BY <1>1, <1>3 DEF Whole, Loaded
<1>5. QED
  BY <1>2, <1>3, <1>4 DEF WholeList

LEMMA AddedTyped ==
  ASSUME NEW v \in Views, NEW i \in Nat, NEW s \in Stubs
  PROVE  Added(v, i, Whole(s)) \in Views /\ (v # Broken => Added(v, i, Whole(s)) # Broken)
<1>1. Whole(s) \in Loaded
  BY DEF Whole, Loaded
<1>2. CASE ~Intact(v)
  BY <1>2 DEF Added
<1>3. CASE Intact(v) /\ i >= Len(v)
  <2>1. v \in Seq(Loaded)
    BY <1>3 DEF Views, Intact
  <2>2. QED
    BY <1>1, <1>3, <2>1, Distinct DEF Added, Views
<1>4. CASE Intact(v) /\ ~(i >= Len(v))
  <2>1. v \in Seq(Loaded)
    BY <1>4 DEF Views, Intact
  <2>2. i + 1 \in 1..Len(v) + 1
    BY <1>4, <2>1
  <2>3. InsertAt(v, i + 1, Whole(s)) \in Seq(Loaded)
    BY <1>1, <2>1, <2>2, InsertAtIs
  <2>4. QED
    BY <1>4, <2>3, Distinct DEF Added, Views
<1>5. QED
  BY <1>2, <1>3, <1>4

LEMMA RemovedTyped ==
  ASSUME NEW v \in Views, NEW i \in Nat
  PROVE  Removed(v, i) \in Views /\ (v # Broken => Removed(v, i) # Broken)
<1>1. CASE Intact(v) /\ i < Len(v)
  <2>1. v \in Seq(Loaded)
    BY <1>1 DEF Views, Intact
  <2>2. i + 1 \in 1..Len(v)
    BY <1>1, <2>1
  <2>3. RemoveAt(v, i + 1) \in Seq(Loaded)
    BY <2>1, <2>2, RemoveAtIs
  <2>4. QED
    BY <1>1, <2>3, Distinct DEF Removed, Views
<1>2. CASE ~(Intact(v) /\ i < Len(v))
  BY <1>2 DEF Removed
<1>3. QED
  BY <1>1, <1>2

LEMMA AllAtRest ==
  ASSUME FsInv, op = Idle, NEW p \in Ports
  PROVE  AtRest(p) /\ Away(p) /\ Sound(p)
BY InvParts DEF Sound, Away

\* A call begins: no port has changed, apart from the directory that Add makes.
LEMMA BeginKeeps ==
  ASSUME FsInv, Begin, UNCHANGED store, op' \in Op, dir \subseteq dir', dir' \subseteq Ports,
         \A p \in dir' \ dir : ~Away(p)'
  PROVE  TypeOK' /\ OpTypes' /\ (\A p \in Ports : Sound(p))'
<1>1. TypeOK /\ OpTypes /\ op = Idle
  BY InvParts DEF Begin
<1>2. TypeOK'
  BY <1>1 DEF Begin, TypeOK
<1>3. OpTypes'
  BY <1>2 DEF TypeOK, Op, OpTypes
<1>4. ASSUME NEW p \in Ports PROVE Sound(p)'
  <2>1. AtRest(p) /\ Away(p) /\ Sound(p)
    BY <1>1, AllAtRest
  <2>2. header'[p] = header[p] /\ content'[p] = content[p] /\ store'[p] = store[p]
        /\ lost' = lost /\ faulty' = faulty
    BY DEF Begin
  <2>3. CASE p \in dir' <=> p \in dir
    BY <2>1, <2>2, <2>3, SoundKept
  <2>4. CASE p \in dir' \ dir
    <3>1. ~Away(p)'
      BY <2>4
    <3>2. QED
      BY <2>1, <2>2, <2>4, <3>1 DEF Sound
  <2>5. QED
    BY <2>3, <2>4
<1>5. QED
  BY <1>2, <1>3, <1>4

LEMMA NothingMade ==
  ASSUME op'.made = <<>>, op'.saving = NoDir
  PROVE  DistinctDirs(op.made)' /\ Made' = {} /\ Writing' = {}
BY DEF DistinctDirs, Made, Writing

LEMMA AddBeginKeeps ==
  ASSUME FsInv, NEW p \in Ports, AddBegin(p)
  PROVE  FsInv'
<1>1. TypeOK /\ Sound(p) /\ AtRest(p)
  BY InvParts, AllAtRest DEF AddBegin, Begin
<1>2. PICK list \in Lists : op' = [Idle EXCEPT !.call = "Add", !.port = p, !.at = "save", !.todo = list,
                                               !.goal = WholeList(list)]
  BY DEF AddBegin
<1>3. /\ list \in Seq(Stubs) /\ WholeList(list) \in Seq(Loaded) /\ Len(WholeList(list)) = Len(list)
      /\ \A i \in 1..Len(list) : WholeList(list)[i] = Whole(list[i])
  BY ListsAre
<1>4. /\ op' \in Op
      /\ op'.call = "Add" /\ op'.port = p /\ op'.at = "save" /\ op'.todo = list /\ op'.saving = NoDir
      /\ op'.made = <<>> /\ op'.goal = WholeList(list) /\ ~op'.whole
  BY <1>2, <1>3, IdleIs DEF Op, Calls, Views
<1>5. op' # Idle
  BY <1>4, IdleIs
<1>6. p \in dir' /\ dir' = dir \cup {p} /\ header' = header /\ content' = content /\ lost' = lost
      /\ p \notin dir /\ store' = store
  BY DEF AddBegin, Begin
<1>7. header'[p] = None /\ Present(p)' = {} /\ header[p] = None
  <2>1. header[p] = None /\ Present(p) = {}
    BY <1>1, <1>6 DEF Sound
  <2>2. QED
    BY <1>6, <2>1 DEF Present
<1>8. TypeOK' /\ OpTypes' /\ (\A q \in Ports : Sound(q))'
  <2>1. \A q \in dir' \ dir : ~Away(q)'
    BY <1>4, <1>5, <1>6 DEF Away
  <2>2. dir' \subseteq Ports
    BY <1>1, <1>6 DEF TypeOK
  <2>3. Begin /\ UNCHANGED store
    BY DEF AddBegin
  <2>4. QED
    BY <1>4, <1>6, <2>1, <2>2, <2>3, BeginKeeps
<1>9. DistinctDirs(op.made)' /\ Made' = {} /\ Writing' = {}
  BY <1>4, NothingMade
<1>10. CallShape'
  BY <1>4, <1>6 DEF CallShape
<1>11. SavedStubs'
  BY <1>4, <1>9 DEF SavedStubs
<1>12. Goals'
  <2>1. ListGoal'
    BY <1>3, <1>4 DEF ListGoal
  <2>2. QED
    BY <1>4, <1>7, <2>1 DEF Goals
<1>13. Reads'
  <2>1. View(p)' = View(p)
    BY <1>6 DEF View
  <2>2. QED
    BY <1>1, <1>4, <1>6, <2>1 DEF Reads, AtRest
<1>14. Directories'
  BY <1>4, <1>7, <1>9 DEF Directories
<1>15. QED
  BY <1>8, <1>10, <1>11, <1>12, <1>13, <1>14 DEF FsInv

LEMMA HeaderMeansDirectory ==
  ASSUME NEW p \in Ports, Sound(p), header[p] # None
  PROVE  p \in dir /\ DistinctDirs(header[p])
BY DEF Sound

LEMMA UpdateStubsBeginKeeps ==
  ASSUME FsInv, NEW p \in Ports, UpdateStubsBegin(p)
  PROVE  FsInv'
<1>1. TypeOK /\ Sound(p) /\ AtRest(p)
  BY InvParts, AllAtRest DEF UpdateStubsBegin, Begin
<1>2. PICK list \in Lists : op' = [Idle EXCEPT !.call = "UpdateStubs", !.port = p, !.at = "remove",
                                               !.names = Names, !.todo = list, !.goal = WholeList(list)]
  BY DEF UpdateStubsBegin
<1>3. /\ list \in Seq(Stubs) /\ WholeList(list) \in Seq(Loaded) /\ Len(WholeList(list)) = Len(list)
      /\ \A i \in 1..Len(list) : WholeList(list)[i] = Whole(list[i])
  BY ListsAre
<1>4. /\ op' \in Op
      /\ op'.call = "UpdateStubs" /\ op'.port = p /\ op'.at = "remove" /\ op'.todo = list
      /\ op'.saving = NoDir /\ op'.made = <<>> /\ op'.goal = WholeList(list) /\ ~op'.whole
      /\ op'.names = Names
  BY <1>2, <1>3, IdleIs DEF Op, Calls, Views
<1>5. dir' = dir /\ store' = store /\ Begin /\ header[p] # None
  BY DEF UpdateStubsBegin
<1>6. TypeOK' /\ OpTypes' /\ (\A q \in Ports : Sound(q))'
  <2>1. dir' \subseteq Ports
    BY <1>1, <1>5 DEF TypeOK
  <2>2. QED
    BY <1>4, <1>5, <2>1, BeginKeeps
<1>7. CallShape'
  BY <1>1, <1>4, <1>5, HeaderMeansDirectory DEF CallShape
<1>8. SavedStubs'
  BY <1>4 DEF SavedStubs
<1>9. Goals'
  <2>1. ListGoal'
    BY <1>3, <1>4 DEF ListGoal
  <2>2. QED
    BY <1>4, <2>1 DEF Goals
<1>10. Reads' /\ Directories'
  BY <1>4 DEF Reads, Directories
<1>11. QED
  BY <1>6, <1>7, <1>8, <1>9, <1>10 DEF FsInv

LEMMA AddStubBeginKeeps ==
  ASSUME FsInv, NEW p \in Ports, AddStubBegin(p)
  PROVE  FsInv'
<1>1. TypeOK /\ Sound(p) /\ AtRest(p)
  BY InvParts, AllAtRest DEF AddStubBegin, Begin
<1>2. PICK s \in Stubs, i \in 0..Len(header[p]) :
        op' = [Idle EXCEPT !.call = "AddStub", !.port = p, !.at = "save", !.todo = <<s>>, !.index = i,
                           !.goal = Added(store[p], i, Whole(s))]
  BY DEF AddStubBegin
<1>3. header[p] \in Seq(Entry) /\ header[p] # None /\ store[p] \in Views
  BY <1>1, TypesOf DEF AddStubBegin
<1>4. i \in Nat /\ i <= Len(header[p]) /\ <<s>> \in Seq(Stubs) /\ Added(store[p], i, Whole(s)) \in Views
  BY <1>3, AddedTyped
<1>5. /\ op' \in Op
      /\ op'.call = "AddStub" /\ op'.port = p /\ op'.at = "save" /\ op'.todo = <<s>>
      /\ op'.saving = NoDir /\ op'.made = <<>> /\ op'.goal = Added(store[p], i, Whole(s))
      /\ op'.index = i /\ ~op'.whole
  BY <1>2, <1>4, IdleIs DEF Op, Calls
<1>6. /\ dir' = dir /\ store' = store /\ header' = header /\ content' = content /\ lost' = lost
      /\ faulty' = faulty /\ Begin
  BY DEF AddStubBegin, Begin
<1>7. TypeOK' /\ OpTypes' /\ (\A q \in Ports : Sound(q))'
  <2>1. dir' \subseteq Ports
    BY <1>1, <1>6 DEF TypeOK
  <2>2. QED
    BY <1>5, <1>6, <2>1, BeginKeeps
<1>8. View(p)' = View(p) /\ Named(p)' = Named(p) /\ Present(p)' = Present(p)
  BY <1>6, PortKept
<1>9. DistinctDirs(op.made)' /\ Made' = {} /\ Writing' = {}
  BY <1>5, NothingMade
<1>10. CallShape'
  BY <1>1, <1>3, <1>5, <1>6, HeaderMeansDirectory DEF CallShape
<1>11. SavedStubs'
  BY <1>5, <1>9 DEF SavedStubs
<1>12. Goals'
  <2>1. AddGoal'
    BY <1>3, <1>4, <1>5, <1>6 DEF AddGoal
  <2>2. QED
    BY <1>5, <2>1 DEF Goals
<1>13. Reads'
  BY <1>1, <1>5, <1>6, <1>8 DEF Reads, AtRest
<1>14. Directories'
  BY <1>1, <1>5, <1>6, <1>8, <1>9 DEF Directories, AtRest, Clean
<1>15. QED
  BY <1>7, <1>10, <1>11, <1>12, <1>13, <1>14 DEF FsInv

LEMMA DeleteStubBeginKeeps ==
  ASSUME FsInv, NEW p \in Ports, DeleteStubBegin(p)
  PROVE  FsInv'
<1>1. TypeOK /\ Sound(p) /\ AtRest(p)
  BY InvParts, AllAtRest DEF DeleteStubBegin, Begin
<1>2. header[p] \in Seq(Entry) /\ header[p] # None /\ store[p] \in Views
  BY <1>1, TypesOf DEF DeleteStubBegin
<1>3. PICK i \in 0..Len(header[p]) - 1 :
        op' = [Idle EXCEPT !.call = "DeleteStub", !.port = p, !.at = "save", !.index = i,
                           !.whole = (header[p][i + 1].dir = NoDir),
                           !.names = IF header[p][i + 1].dir = NoDir THEN Names ELSE {header[p][i + 1].dir},
                           !.goal = Removed(store[p], i)]
  BY DEF DeleteStubBegin
<1> DEFINE name == header[p][i + 1].dir
<1>4. i \in Nat /\ i < Len(header[p]) /\ Removed(store[p], i) \in Views /\ name \in Names \cup {NoDir}
  <2>1. i \in Nat /\ i < Len(header[p])
    BY <1>2
  <2>2. header[p][i + 1] \in Entry
    BY <1>2, ElementOf
  <2>3. QED
    BY <1>2, <2>1, <2>2, RemovedTyped DEF Entry
<1>5. /\ op' \in Op
      /\ op'.call = "DeleteStub" /\ op'.port = p /\ op'.at = "save" /\ op'.todo = <<>>
      /\ op'.saving = NoDir /\ op'.made = <<>> /\ op'.goal = Removed(store[p], i)
      /\ op'.index = i
      /\ op'.whole = (name = NoDir) /\ op'.names = IF name = NoDir THEN Names ELSE {name}
  <2>1. (IF name = NoDir THEN Names ELSE {name}) \in SUBSET Names /\ (name = NoDir) \in BOOLEAN
    BY <1>4
  <2> DEFINE names == IF name = NoDir THEN Names ELSE {name}
             whole == name = NoDir
  <2>2. op' = [Idle EXCEPT !.call = "DeleteStub", !.port = p, !.at = "save", !.index = i,
                           !.whole = whole, !.names = names, !.goal = Removed(store[p], i)]
    BY <1>3
  <2>3. names \in SUBSET Names /\ whole \in BOOLEAN
    BY <2>1
  <2>4. /\ op'.whole = whole /\ op'.names = names
        /\ op' \in Op
        /\ op'.call = "DeleteStub" /\ op'.port = p /\ op'.at = "save" /\ op'.todo = <<>>
        /\ op'.saving = NoDir /\ op'.made = <<>> /\ op'.goal = Removed(store[p], i)
        /\ op'.index = i
    <3> HIDE DEF names, whole
    <3>1. QED
      BY <1>4, <2>2, <2>3, IdleIs DEF Op, Calls
  <2>5. QED
    BY <2>4
<1>6. /\ dir' = dir /\ store' = store /\ header' = header /\ content' = content /\ lost' = lost
      /\ faulty' = faulty /\ Begin
  BY DEF DeleteStubBegin, Begin
<1>7. TypeOK' /\ OpTypes' /\ (\A q \in Ports : Sound(q))'
  <2>1. dir' \subseteq Ports
    BY <1>1, <1>6 DEF TypeOK
  <2>2. QED
    BY <1>5, <1>6, <2>1, BeginKeeps
<1>8. View(p)' = View(p) /\ Named(p)' = Named(p) /\ Present(p)' = Present(p)
  BY <1>6, PortKept
<1>9. DistinctDirs(op.made)' /\ Made' = {} /\ Writing' = {}
  BY <1>5, NothingMade
<1>10. CallShape'
  BY <1>1, <1>2, <1>5, <1>6, HeaderMeansDirectory DEF CallShape
<1>11. SavedStubs'
  BY <1>5, <1>9 DEF SavedStubs
<1>12. Goals'
  <2>1. DeleteGoal'
    BY <1>2, <1>4, <1>5, <1>6 DEF DeleteGoal
  <2>2. QED
    BY <1>5, <2>1 DEF Goals
<1>13. Reads'
  BY <1>1, <1>5, <1>6, <1>8 DEF Reads, AtRest
<1>14. Directories'
  BY <1>1, <1>5, <1>6, <1>8, <1>9 DEF Directories, AtRest, Clean
<1>15. QED
  BY <1>7, <1>10, <1>11, <1>12, <1>13, <1>14 DEF FsInv

LEMMA DeleteBeginKeeps ==
  ASSUME FsInv, NEW p \in Ports, DeleteBegin(p)
  PROVE  FsInv'
<1>1. TypeOK /\ Sound(p)
  BY InvParts
<1>2. /\ op' \in Op
      /\ op'.call = "Delete" /\ op'.port = p /\ op'.at = "remove" /\ op'.goal = None /\ op'.whole
      /\ op'.names = Names
  BY IdleIs DEF DeleteBegin, Op, Calls
<1>3. dir' = dir /\ store' = store /\ Begin
  BY DEF DeleteBegin
<1>4. header[p] # None
  BY <1>1, TypesOf, ReadCases DEF DeleteBegin, View, Intact
<1>5. TypeOK' /\ OpTypes' /\ (\A q \in Ports : Sound(q))'
  <2>1. dir' \subseteq Ports
    BY <1>1, <1>3 DEF TypeOK
  <2>2. QED
    BY <1>2, <1>3, <2>1, BeginKeeps
<1>6. CallShape'
  BY <1>1, <1>2, <1>3, <1>4, HeaderMeansDirectory DEF CallShape, Removing
<1>7. SavedStubs' /\ Goals' /\ Reads' /\ Directories'
  BY <1>2 DEF SavedStubs, Goals, Reads, Directories
<1>8. QED
  BY <1>5, <1>6, <1>7 DEF FsInv

LEMMA DeleteAllBeginKeeps ==
  ASSUME FsInv, DeleteAllBegin
  PROVE  FsInv'
<1>1. TypeOK /\ dir \subseteq Ports
  BY InvParts DEF TypeOK
<1>2. op' \in Op /\ op'.call = "DeleteAll" /\ op'.at = "next" /\ op'.goal = None /\ ~op'.whole
  BY <1>1, IdleIs DEF DeleteAllBegin, Op, Calls
<1>3. dir' = dir /\ store' = store /\ Begin
  BY DEF DeleteAllBegin
<1>4. TypeOK' /\ OpTypes' /\ (\A q \in Ports : Sound(q))'
  BY <1>1, <1>2, <1>3, BeginKeeps
<1>5. CallShape'
  BY <1>2 DEF CallShape
<1>6. SavedStubs' /\ Goals' /\ Reads' /\ Directories'
  BY <1>2, <1>4, <1>5, Quiet
<1>7. QED
  BY <1>4, <1>5, <1>6 DEF FsInv

\* A header whose entries have lost the names of their directories.
LEMMA DirsCleared ==
  ASSUME NEW h \in Seq(Entry), NEW t, t = [i \in 1..Len(h) |-> [h[i] EXCEPT !.dir = NoDir]]
  PROVE  t \in Seq(Entry) /\ Len(t) = Len(h) /\ \A i \in 1..Len(t) : t[i].dir = NoDir
<1>1. \A i \in 1..Len(h) : [h[i] EXCEPT !.dir = NoDir] \in Entry
  <2>1. ASSUME NEW i \in 1..Len(h) PROVE [h[i] EXCEPT !.dir = NoDir] \in Entry
    <3>1. h[i] \in Entry
      BY ElementOf
    <3>2. QED
      BY <3>1 DEF Entry
  <2>2. QED
    BY <2>1
<1>2. Len(h) \in Nat
  OBVIOUS
<1>3. t \in Seq(Entry) /\ Len(t) = Len(h)
  BY <1>1, <1>2
<1>4. ASSUME NEW i \in 1..Len(h) PROVE t[i].dir = NoDir
  <2>1. h[i] \in Entry
    BY ElementOf
  <2>2. QED
    BY <2>1 DEF Entry
<1>5. QED
  BY <1>3, <1>4

LEMMA ClearKeeps ==
  ASSUME FsInv, NEW p \in Ports, ClearRequestsAndProxyStubs(p)
  PROVE  FsInv'
<1> DEFINE h == header[p]
           t == [i \in 1..Len(h) |-> [h[i] EXCEPT !.dir = NoDir]]
<1>1. TypeOK /\ Sound(p) /\ AtRest(p) /\ op = Idle
  BY InvParts, AllAtRest DEF ClearRequestsAndProxyStubs
<1>2. h \in Seq(Entry) /\ h # None
  BY <1>1, TypesOf DEF ClearRequestsAndProxyStubs
<1>4. t \in Seq(Entry) /\ Len(t) = Len(h) /\ \A i \in 1..Len(t) : t[i].dir = NoDir
  BY <1>2, DirsCleared
<1>5. /\ header' = [header EXCEPT ![p] = t]
      /\ lost' = IF h # <<>> THEN lost \cup {p} ELSE lost
      /\ UNCHANGED <<dir, content, op, store, faulty, faults>> /\ calls' = calls + 1
  BY DEF ClearRequestsAndProxyStubs
<1>6. op' = Idle
  BY <1>1, <1>5
<1>7. h = <<>> => t = h
  <2>1. ASSUME h = <<>> PROVE t = h
    <3>1. Len(t) = 0
      BY <1>4, <2>1
    <3> HIDE DEF t
    <3>2. QED
      BY <1>4, <2>1, <3>1
  <2>2. QED
    BY <2>1
<1> HIDE DEF t
<1>8. TypeOK'
  BY <1>1, <1>4, <1>5 DEF TypeOK
<1>9. header'[p] = t
  BY <1>1, <1>5 DEF TypeOK
<1>10. OnlyAt(p)
  BY <1>1, <1>5 DEF OnlyAt, Away, TypeOK
<1>11. Sound(p)'
  <2>1. CASE h = <<>>
    <3>1. header'[p] = header[p] /\ lost' = lost
      BY <1>5, <1>7, <1>9, <2>1
    <3>2. QED
      BY <1>1, <1>5, <3>1, SoundKept DEF Away
  <2>2. CASE h # <<>>
    <3>1. p \in lost' /\ p \in dir'
      BY <1>1, <1>2, <1>5, <2>2, HeaderMeansDirectory
    <3>2. DistinctDirs(header[p])'
      BY <1>4, <1>9 DEF DistinctDirs
    <3>3. QED
      BY <3>1, <3>2 DEF Sound, AtRest
  <2>3. QED
    BY <2>1, <2>2
<1>12. QED
  BY <1>6, <1>8, <1>10, <1>11, Over

-----------------------------------------------------------------------------
(* Steps of a call                                                          *)

\* The ports that the call does not work on.
LEMMA OthersAway ==
  ASSUME NEW q \in Ports, q # op.port
  PROVE  Away(q)
BY DEF Away

\* A list with one more stub made.
LEMMA OneMoreMade ==
  ASSUME OpTypes, NEW e \in Entry, op'.made = Append(op.made, e)
  PROVE  /\ op'.made \in Seq(Entry)
         /\ Len(op'.made) = Len(op.made) + 1
         /\ \A i \in 1..Len(op.made) : op'.made[i] = op.made[i]
         /\ op'.made[Len(op.made) + 1] = e
         /\ Made' = Made \cup {e.dir}
         /\ DistinctDirs(op.made) /\ e.dir \notin Made => DistinctDirs(op.made)'
<1> DEFINE m == op.made
           t == Append(m, e)
<1>1. m \in Seq(Entry)
  BY DEF OpTypes
<1>2. t = Put(m, Len(m), e) /\ Len(m) \in 0..Len(m)
  BY <1>1 DEF Put
<1>3. /\ t \in Seq(Entry)
      /\ NamedBy(t) = NamedBy(m) \cup {e.dir}
      /\ DistinctDirs(m) /\ e.dir \notin NamedBy(m) => DistinctDirs(t)
  <2> HIDE DEF t, m
  <2>1. QED
    BY <1>1, <1>2, EntryAdded
<1>4. NamedBy(m) = Made /\ NamedBy(t) = Made'
  BY <1>1, <1>3, Distinct DEF NamedBy, Made
<1>5. DistinctDirs(t) <=> DistinctDirs(op.made)'
  BY DEF DistinctDirs
<1>6. Len(t) = Len(m) + 1 /\ t[Len(m) + 1] = e /\ \A i \in 1..Len(m) : t[i] = m[i]
  BY <1>1
<1>7. QED
  BY <1>3, <1>4, <1>5, <1>6

LEMMA MadeIs ==
  ASSUME OpTypes
  PROVE  /\ NamedBy(op.made) = Made
         /\ \A i \in 1..Len(op.made) : op.made[i] \in Entry /\ op.made[i].dir \in Made
<1>1. op.made \in Seq(Entry) /\ op.made # None
  BY Distinct DEF OpTypes
<1>2. QED
  BY <1>1, ElementOf DEF NamedBy, Made

\* A directory that the header does not name changes nothing of what is read.
LEMMA ViewKept ==
  ASSUME TypeOK, NEW p \in Ports, NEW n, n \notin Named(p), header' = header,
         \A m \in Names : m # n => content'[p][m] = content[p][m]
  PROVE  View(p)' = View(p)
<1>1. header[p] \in Seq(Entry) \cup {None}
  BY TypesOf
<1>2. NamedBy(header[p]) \subseteq Names \cup {NoDir}
  BY <1>1, NamedIs
<1>3. \A m \in NamedBy(header[p]) \ {NoDir} : content'[p][m] = content[p][m]
  BY <1>2 DEF Named
<1>4. GetImposter(header[p], content'[p]) = GetImposter(header[p], content[p])
  BY <1>1, <1>3, ReadSame
<1>5. QED
  BY <1>4 DEF View

LEMMA SaveDirKeeps ==
  ASSUME FsInv, NEW p \in Ports, p = op.port, SaveDir
  PROVE  FsInv'
<1>1. TypeOK /\ OpTypes /\ CallShape /\ Sound(p) /\ SavedStubs /\ Goals /\ Reads /\ Directories
  BY InvParts
<1>2. PICK n \in Names :
        /\ \A q \in Ports : content[q][n] = None
        /\ \A q \in Ports : header[q] # None => \A i \in 1..Len(header[q]) : header[q][i].dir # n
        /\ content' = [content EXCEPT ![p][n] = Partial]
        /\ op' = [op EXCEPT !.saving = n]
  BY DEF SaveDir
<1>3. /\ UNCHANGED <<dir, header, store, lost, faulty, calls, faults>>
      /\ op.at = "save" /\ op.todo # <<>> /\ op.saving = NoDir
  BY DEF SaveDir
<1>4. /\ op' \in Op
      /\ op'.call = op.call /\ op'.port = p /\ op'.at = "save" /\ op'.todo = op.todo
      /\ op'.saving = n /\ op'.made = op.made /\ op'.goal = op.goal /\ op'.index = op.index
      /\ op'.whole = op.whole /\ op'.names = op.names
  BY <1>1, <1>2, <1>3 DEF TypeOK, Op
<1>5. content \in [Ports -> Contents] /\ content[p] \in Contents
  BY <1>1, TypesOf DEF TypeOK
<1>6. /\ content' \in [Ports -> Contents]
      /\ content'[p] \in Contents /\ content'[p][n] = Partial
      /\ \A m \in Names : m # n => content'[p][m] = content[p][m]
      /\ \A q \in Ports : q # p => content'[q] = content[q]
  BY <1>2, <1>5 DEF Contents
<1>7. TypeOK'
  BY <1>1, <1>3, <1>4, <1>6 DEF TypeOK
<1>8. n \notin Named(p) /\ n \notin Made /\ n # NoDir
  <2>1. n \notin Named(p)
    BY <1>2 DEF Named, NamedBy
  <2>2. n \notin Made
    BY <1>1, <1>2, <1>3, MadeIs, Distinct DEF SavedStubs, Made, Entry
  <2>3. QED
    BY <2>1, <2>2, Distinct
<1>9. /\ Named(p)' = Named(p) /\ Made' = Made /\ Writing = {} /\ Writing' = {n}
      /\ Present(p)' = Present(p) \cup {n}
  <2>1. Named(p)' = Named(p) /\ Made' = Made /\ Writing = {} /\ Writing' = {n}
    BY <1>3, <1>4, <1>8 DEF Named, Made, Writing
  <2>2. Present(p)' = Present(p) \cup {n}
    BY <1>6, Distinct DEF Present
  <2>3. QED
    BY <2>1, <2>2
<1>10. View(p)' = View(p)
  BY <1>1, <1>3, <1>6, <1>8, ViewKept
<1>11. CallShape'
  <2>1. op.call # "none" /\ op.call # "DeleteStub"
    BY <1>1, <1>3, IdleIs DEF CallShape
  <2>2. QED
    BY <1>1, <1>3, <1>4, <2>1 DEF CallShape, Removing
<1>12. Sound(p)' /\ OnlyAt(p)
  <2>1. ~Away(p)'
    BY <1>4, IdleIs DEF Away
  <2>2. p \in dir'
    BY <1>1, <1>3 DEF CallShape
  <2>3. Sound(p)'
    BY <1>1, <1>3, <2>1, <2>2 DEF Sound
  <2>4. QED
    BY <1>3, <1>6, <2>3, OthersAway DEF OnlyAt
<1>13. SavedStubs'
  <2>1. DistinctDirs(op.made)' /\ NoDir \notin Made'
    BY <1>1, <1>3, <1>4, <1>9 DEF SavedStubs, DistinctDirs
  <2>2. (Made' \cup Writing') \cap Named(p)' = {} /\ Made' \cap Writing' = {}
    BY <1>1, <1>3, <1>8, <1>9 DEF SavedStubs
  <2>3. \A i \in 1..Len(op.made) : content'[p][op.made[i].dir] = op.made[i].predicates
    <3>1. ASSUME NEW i \in 1..Len(op.made) PROVE content'[p][op.made[i].dir] = op.made[i].predicates
      <4>1. op.made[i].dir \in Names \ {n}
        BY <1>1, <1>3, <1>8, MadeIs DEF SavedStubs, Entry
      <4>2. QED
        BY <1>1, <1>3, <1>6, <4>1 DEF SavedStubs
    <3>2. QED
      BY <3>1
  <2>4. QED
    BY <1>3, <1>4, <1>6, <2>1, <2>2, <2>3 DEF SavedStubs
<1>14. Goals'
  BY <1>1, <1>3, <1>4 DEF Goals, ListGoal, AddGoal, DeleteGoal, CallShape
<1>15. Reads'
  BY <1>1, <1>3, <1>4, <1>10 DEF Reads
<1>16. Directories'
  BY <1>1, <1>3, <1>4, <1>9 DEF Directories, CallShape
<1>17. QED
  BY <1>7, <1>11, <1>12, <1>13, <1>14, <1>15, <1>16, AllSound DEF FsInv

\* The positions in the goal of what is made and of what is still to be made.
LEMMA Sums ==
  ASSUME NEW a \in Nat, NEW b \in Nat, NEW c, c = b + 1
  PROVE  a + c = a + 1 + b
OBVIOUS

LEMMA Positions ==
  ASSUME NEW a \in Nat, NEW b \in Nat, NEW c, c = b + 1, NEW i \in 1..b
  PROVE  i + 1 \in 1..c /\ a + 1 + i = a + (i + 1)
OBVIOUS

LEMMA SaveMetaKeeps ==
  ASSUME FsInv, NEW p \in Ports, p = op.port, SaveMeta
  PROVE  FsInv'
<1>1. TypeOK /\ OpTypes /\ CallShape /\ Sound(p) /\ SavedStubs /\ Goals /\ Reads /\ Directories
  BY InvParts
<1> DEFINE n == op.saving
           e == [predicates |-> Head(op.todo), dir |-> n]
           rest == Tail(op.todo)
<1>2. /\ UNCHANGED <<dir, header, store, lost, faulty, calls, faults>>
      /\ op.at = "save" /\ op.todo # <<>> /\ n # NoDir
      /\ content' = [content EXCEPT ![p][n] = Head(op.todo)]
      /\ op' = [op EXCEPT !.todo = rest, !.saving = NoDir, !.made = Append(@, e)]
  BY <1>1 DEF SaveMeta, SavedStubs
<1>3. /\ n \in Names /\ Head(op.todo) \in Stubs /\ rest \in Seq(Stubs) /\ e \in Entry
      /\ Len(op.todo) = Len(rest) + 1
      /\ \A i \in 1..Len(rest) : rest[i] = op.todo[i + 1]
      /\ Head(op.todo) = op.todo[1]
  BY <1>1, <1>2 DEF OpTypes, Entry
<1>4. e.dir = n /\ e.predicates = Head(op.todo)
  OBVIOUS
<1>5. Append(op.made, e) \in Seq(Entry)
  BY <1>1, <1>3 DEF OpTypes
<1> HIDE DEF e, rest
<1>6. /\ op' \in Op
      /\ op'.call = op.call /\ op'.port = p /\ op'.at = "save" /\ op'.todo = rest
      /\ op'.saving = NoDir /\ op'.made = Append(op.made, e) /\ op'.goal = op.goal
      /\ op'.index = op.index /\ op'.whole = op.whole /\ op'.names = op.names
  BY <1>1, <1>2, <1>3, <1>5 DEF TypeOK, Op
<1>7. content \in [Ports -> Contents] /\ content[p] \in Contents /\ content[p][n] = Partial
  BY <1>1, <1>2, TypesOf DEF TypeOK, SavedStubs
<1>8. /\ content' \in [Ports -> Contents]
      /\ content'[p] \in Contents /\ content'[p][n] = Head(op.todo)
      /\ \A m \in Names : m # n => content'[p][m] = content[p][m]
      /\ \A q \in Ports : q # p => content'[q] = content[q]
  BY <1>2, <1>3, <1>7 DEF Contents
<1>9. TypeOK'
  BY <1>1, <1>2, <1>6, <1>8 DEF TypeOK
<1>10. /\ n \notin Named(p) /\ n \notin Made /\ Writing = {n}
       /\ DistinctDirs(op.made) /\ NoDir \notin Made /\ Made \cap Named(p) = {}
       /\ \A i \in 1..Len(op.made) : content[p][op.made[i].dir] = op.made[i].predicates
  BY <1>1, <1>2 DEF SavedStubs, Writing
<1>11. /\ op'.made \in Seq(Entry)
       /\ Len(op'.made) = Len(op.made) + 1
       /\ \A i \in 1..Len(op.made) : op'.made[i] = op.made[i]
       /\ op'.made[Len(op.made) + 1] = e
       /\ Made' = Made \cup {n}
       /\ DistinctDirs(op.made)'
  BY <1>1, <1>3, <1>4, <1>6, <1>10, OneMoreMade
<1>12. Len(op.made) \in Nat /\ Len(rest) \in Nat /\ Len(op.todo) \in Nat /\ Len(op.todo) = Len(rest) + 1
  BY <1>1, <1>3 DEF OpTypes
<1>13. Named(p)' = Named(p) /\ Writing' = {} /\ Present(p)' = Present(p)
  <2>1. Named(p)' = Named(p) /\ Writing' = {}
    BY <1>2, <1>6 DEF Named, Writing
  <2>2. Present(p)' = Present(p)
    BY <1>3, <1>7, <1>8, Distinct DEF Present
  <2>3. QED
    BY <2>1, <2>2
<1>14. View(p)' = View(p)
  BY <1>1, <1>2, <1>8, <1>10, ViewKept
<1>15. CallShape'
  <2>1. op.call # "none" /\ op.call # "DeleteStub"
    BY <1>1, <1>2, IdleIs DEF CallShape
  <2>2. QED
    BY <1>1, <1>2, <1>6, <2>1 DEF CallShape, Removing
<1>16. Sound(p)' /\ OnlyAt(p)
  <2>1. ~Away(p)'
    BY <1>2, <1>6, IdleIs DEF Away
  <2>2. p \in dir'
    BY <1>1, <1>2 DEF CallShape
  <2>3. Sound(p)'
    BY <1>1, <1>2, <2>1, <2>2 DEF Sound
  <2>4. QED
    BY <1>2, <1>8, <2>3, OthersAway DEF OnlyAt
<1>17. SavedStubs'
  <2>1. \A i \in 1..Len(op'.made) : content'[p][op'.made[i].dir] = op'.made[i].predicates
    <3>1. ASSUME NEW i \in 1..Len(op.made) PROVE content'[p][op.made[i].dir] = op.made[i].predicates
      <4>1. op.made[i].dir \in Names \ {n}
        BY <1>1, <1>10, MadeIs DEF Entry
      <4>2. QED
        BY <1>8, <1>10, <4>1
    <3>2. content'[p][e.dir] = e.predicates
      BY <1>4, <1>8
    <3>3. QED
      <4>1. ASSUME NEW i \in 1..Len(op'.made)
            PROVE  i \in 1..Len(op.made) \/ i = Len(op.made) + 1
        BY <1>11, <1>12
      <4>2. ASSUME NEW i \in 1..Len(op.made)
            PROVE  content'[p][op'.made[i].dir] = op'.made[i].predicates
        BY <1>11, <3>1, <4>2
      <4>3. QED
        BY <1>11, <3>2, <4>1, <4>2
  <2>2. (Made' \cup Writing') \cap Named(p)' = {} /\ Made' \cap Writing' = {} /\ NoDir \notin Made'
    BY <1>2, <1>10, <1>11, <1>13
  <2>3. QED
    BY <1>6, <1>11, <2>1, <2>2 DEF SavedStubs
<1>18. Goals'
  <2>1. ASSUME ListGoal PROVE ListGoal'
    <3>1. op'.goal \in Seq(Loaded) /\ Len(op'.goal) = Len(op'.made) + Len(op'.todo)
      <4>1. op.goal \in Seq(Loaded) /\ Len(op.goal) = Len(op.made) + Len(op.todo)
        BY <2>1 DEF ListGoal
      <4>2. op'.goal = op.goal /\ op'.todo = rest /\ Len(op'.made) = Len(op.made) + 1
        BY <1>6, <1>11
      <4>3. Len(op.made) + Len(op.todo) = Len(op.made) + 1 + Len(rest)
        BY <1>12, Sums
      <4>4. Len(op'.made) + Len(op'.todo) = Len(op.made) + 1 + Len(rest)
        BY <4>2
      <4>5. QED
        BY <4>1, <4>2, <4>3, <4>4
    <3>2. \A i \in 1..Len(op'.made) : op'.goal[i] = Whole(op'.made[i].predicates)
      BY <1>3, <1>4, <1>6, <1>11, <1>12, <2>1, SMTT(60) DEF ListGoal
    <3>3. \A i \in 1..Len(op'.todo) : op'.goal[Len(op'.made) + i] = Whole(op'.todo[i])
      <4>1. ASSUME NEW i \in 1..Len(rest)
            PROVE  op.goal[Len(op.made) + 1 + i] = Whole(rest[i])
        <5>1. i + 1 \in 1..Len(op.todo) /\ Len(op.made) + 1 + i = Len(op.made) + (i + 1)
          BY <1>12, Positions
        <5>2. QED
          BY <1>3, <2>1, <5>1 DEF ListGoal
      <4>2. QED
        BY <1>6, <1>11, <4>1
    <3>4. QED
      BY <3>1, <3>2, <3>3 DEF ListGoal
  <2>2. ASSUME AddGoal PROVE AddGoal'
    <3>1. PICK s \in Stubs :
            /\ op.goal = Added(store[p], op.index, Whole(s))
            /\ \/ op.todo = <<s>> /\ op.made = <<>>
               \/ op.todo = <<>> /\ Len(op.made) = 1 /\ op.made[1].predicates = s
      BY <2>2 DEF AddGoal
    <3>2. op.todo = <<s>> /\ op.made = <<>>
      BY <1>2, <3>1
    <3>3. op'.todo = <<>> /\ Len(op'.made) = 1 /\ op'.made[1].predicates = s
      BY <1>3, <1>4, <1>6, <1>11, <3>2
    <3>4. QED
      BY <1>2, <1>6, <2>2, <3>1, <3>3 DEF AddGoal
  <2>3. op.call # "DeleteStub"
    BY <1>1, <1>2 DEF CallShape
  <2>4. QED
    BY <1>1, <1>2, <1>6, <2>1, <2>2, <2>3 DEF Goals
<1>19. Reads'
  BY <1>1, <1>2, <1>6, <1>14 DEF Reads
<1>20. Directories'
  <2>1. op.call # "DeleteStub"
    BY <1>1, <1>2 DEF CallShape
  <2>2. Made' \cup Writing' = Made \cup Writing
    BY <1>10, <1>11, <1>13
  <2>3. /\ op.call \in {"Add", "UpdateStubs"} => Present(p) = Made \cup Writing
        /\ p \notin faulty \cup lost /\ op.call = "AddStub" => Present(p) = Named(p) \cup Made \cup Writing
    BY <1>1, <1>2 DEF Directories
  <2>4. /\ op.call \in {"Add", "UpdateStubs"} => Present(p)' = Made' \cup Writing'
        /\ p \notin faulty \cup lost /\ op.call = "AddStub"
             => Present(p)' = Named(p)' \cup Made' \cup Writing'
    BY <1>13, <2>2, <2>3
  <2>5. QED
    BY <1>2, <1>6, <2>1, <2>4 DEF Directories
<1>21. QED
  BY <1>9, <1>15, <1>16, <1>17, <1>18, <1>19, <1>20, AllSound DEF FsInv

\* Where a call stands that writes the header.
LEMMA WritingHeader ==
  ASSUME FsInv, NEW p \in Ports, p = op.port, WriteHeader
  PROVE  /\ op.at = "save" /\ op.todo = <<>> /\ op.saving = NoDir /\ Writing = {}
         /\ op.call \in {"Add", "UpdateStubs", "AddStub", "DeleteStub"}
         /\ op # Idle /\ p \in dir
         /\ \A q \in Ports : q # p => Away(q)
<1>1. OpTypes /\ CallShape
  BY InvParts
<1>2. op.at = "save" /\ op.todo = <<>> /\ op.saving = NoDir
  BY DEF WriteHeader, Saved
<1>3. op # Idle /\ p \in dir
  BY <1>1, <1>2, IdleIs DEF CallShape
<1>4. op.call \in {"Add", "UpdateStubs", "AddStub", "DeleteStub"}
  BY <1>1, <1>2, <1>3 DEF CallShape, OpTypes, Calls, Removing
<1>5. QED
  BY <1>2, <1>3, <1>4, OthersAway DEF Writing

\* Add and UpdateStubs end.
LEMMA ListWritten ==
  ASSUME FsInv, NEW p \in Ports, p = op.port, WriteHeader, op.call \in {"Add", "UpdateStubs"}
  PROVE  FsInv'
<1>1. TypeOK /\ OpTypes /\ CallShape /\ Sound(p) /\ SavedStubs /\ Goals /\ Directories
  BY InvParts
<1>2. /\ op.at = "save" /\ op.todo = <<>> /\ Writing = {} /\ p \in dir
      /\ \A q \in Ports : q # p => Away(q)
  BY WritingHeader
<1>3. /\ header' = [header EXCEPT ![p] = op.made]
      /\ lost' = lost \ {p}
      /\ op' = Idle
      /\ store' = [store EXCEPT ![p] = op.goal]
      /\ UNCHANGED <<dir, content, faulty, calls, faults>>
  BY DEF WriteHeader, NewHeader, Return
<1>4. op.made \in Seq(Entry) /\ op.made # None /\ op.goal \in Views /\ content[p] \in Contents
  BY <1>1, TypesOf, Distinct DEF OpTypes
<1>5. TypeOK'
  BY <1>1, <1>3, <1>4, IdleIs DEF TypeOK
<1>6. header'[p] = op.made /\ store'[p] = op.goal /\ content'[p] = content[p]
  BY <1>1, <1>3 DEF TypeOK
<1>7. op.goal \in Seq(Loaded) /\ Len(op.goal) = Len(op.made)
      /\ \A i \in 1..Len(op.made) : op.goal[i] = Whole(op.made[i].predicates)
  <2>1. ListGoal
    BY <1>1, <1>2 DEF Goals
  <2>2. Len(op.todo) = 0 /\ Len(op.made) \in Nat
    BY <1>2, <1>4
  <2>3. QED
    BY <2>1, <2>2 DEF ListGoal
<1>8. View(p)' = op.goal
  <2>1. \A i \in 1..Len(op.made) : op.made[i].dir # NoDir /\ content[p][op.made[i].dir] = op.made[i].predicates
    BY <1>1, <1>2, MadeIs DEF SavedStubs
  <2>2. GetImposter(op.made, content[p]) = op.goal
    BY <1>4, <1>7, <2>1, ReadMade
  <2>3. QED
    BY <1>6, <2>2 DEF View
<1>9. Clean(p)'
  <2>1. Present(p)' = Made
    BY <1>1, <1>2, <1>6 DEF Directories, Present
  <2>2. Named(p)' = Made
    BY <1>1, <1>6, MadeIs DEF Named
  <2>3. QED
    BY <1>2, <1>3, <1>4, <1>6, <2>1, <2>2 DEF Clean
<1>10. Sound(p)'
  <2>1. DistinctDirs(header[p])'
    BY <1>1, <1>2, <1>6 DEF SavedStubs, DistinctDirs
  <2>2. AtRest(p)'
    BY <1>6, <1>8, <1>9 DEF AtRest
  <2>3. op.goal # Broken
    BY <1>7, Distinct
  <2>4. QED
    BY <1>2, <1>3, <1>6, <2>1, <2>2, <2>3 DEF Sound
<1>11. OnlyAt(p)
  BY <1>1, <1>2, <1>3 DEF OnlyAt, TypeOK
<1>12. QED
  BY <1>3, <1>5, <1>10, <1>11, Over

\* AddStub ends.
LEMMA StubWritten ==
  ASSUME FsInv, NEW p \in Ports, p = op.port, WriteHeader, op.call = "AddStub"
  PROVE  FsInv'
<1> DEFINE h == header[p]
           e == op.made[1]
           t == Put(h, op.index, e)
<1>1. TypeOK /\ OpTypes /\ CallShape /\ Sound(p) /\ SavedStubs /\ Goals /\ Reads /\ Directories
  BY InvParts
<1>2. /\ op.at = "save" /\ op.todo = <<>> /\ Writing = {} /\ p \in dir
      /\ \A q \in Ports : q # p => Away(q)
  BY WritingHeader
<1>3. /\ header' = [header EXCEPT ![p] = t]
      /\ lost' = lost
      /\ op' = Idle
      /\ store' = [store EXCEPT ![p] = op.goal]
      /\ UNCHANGED <<dir, content, faulty, calls, faults>>
  BY DEF WriteHeader, NewHeader, Return, Put
<1>4. h # None /\ h \in Seq(Entry) /\ op.index \in 0..Len(h)
  BY <1>1, TypesOf DEF Goals, AddGoal, OpTypes
<1>5. PICK s \in Stubs : op.goal = Added(store[p], op.index, Whole(s)) /\ Len(op.made) = 1 /\ e.predicates = s
  BY <1>1, <1>2 DEF Goals, AddGoal
<1>6. e \in Entry /\ Made = {e.dir}
  <2>1. op.made \in Seq(Entry) /\ 1 \in 1..Len(op.made)
    BY <1>1, <1>5 DEF OpTypes
  <2>2. QED
    BY <1>5, <2>1, ElementOf DEF Made
<1>7. /\ content[p][e.dir] = e.predicates /\ e.dir \notin Named(p) /\ e.dir \in Names
      /\ content[p] \in Contents /\ store[p] \in Views /\ op.goal \in Views
  BY <1>1, <1>2, <1>5, <1>6, TypesOf DEF SavedStubs, Entry, OpTypes
<1>8. /\ t \in Seq(Entry) /\ NamedBy(t) = NamedBy(h) \cup {e.dir}
      /\ DistinctDirs(h) /\ e.dir \notin NamedBy(h) => DistinctDirs(t)
  <2> HIDE DEF h, e
  <2>1. QED
    BY <1>4, <1>6, EntryAdded
<1>9. DistinctDirs(h) /\ NamedBy(h) = Named(p) /\ t # None
  BY <1>1, <1>4, <1>8, Distinct DEF Sound, Named
<1>10. TypeOK'
  <2> HIDE DEF t
  <2>1. QED
    BY <1>1, <1>3, <1>7, <1>8, IdleIs DEF TypeOK
<1>11. header'[p] = t /\ store'[p] = op.goal /\ content'[p] = content[p]
  BY <1>1, <1>3 DEF TypeOK
<1>12. ASSUME p \notin lost PROVE View(p)' = op.goal /\ op.goal # Broken
  <2>1. View(p) = store[p] /\ store[p] # Broken
    BY <1>1, <1>2, <1>12 DEF Reads, Sound
  <2>2. GetImposter(h, content[p]) = store[p]
    BY <2>1 DEF View
  <2>3. Intact(GetImposter(h, content[p]))
    BY <1>4, <1>7, <2>1, <2>2, ReadCases DEF Intact
  <2>4. GetImposter(t, content[p]) = Added(GetImposter(h, content[p]), op.index, Whole(e.predicates))
    <3> HIDE DEF h, e
    <3>1. QED
      BY <1>4, <1>6, <1>7, <2>3, ReadAdded
  <2>5. View(p)' = op.goal
    BY <1>5, <1>11, <2>2, <2>4 DEF View
  <2>6. op.goal # Broken
    BY <1>1, <1>5, <1>7, <2>1, AddedTyped DEF OpTypes
  <2>7. QED
    BY <2>5, <2>6
<1>13. p \notin faulty \cup lost => Clean(p)'
  <2>1. ASSUME p \notin faulty \cup lost PROVE Clean(p)'
    <3>1. Present(p)' = Named(p) \cup {e.dir}
      BY <1>1, <1>2, <1>6, <1>11, <2>1 DEF Directories, Present
    <3>2. Named(p)' = Named(p) \cup {e.dir}
      BY <1>8, <1>9, <1>11 DEF Named
    <3>3. QED
      BY <1>2, <1>3, <1>9, <1>11, <3>1, <3>2 DEF Clean
  <2>2. QED
    BY <2>1
<1>14. Sound(p)'
  <2>1. DistinctDirs(header[p])'
    <3>1. DistinctDirs(t)
      BY <1>7, <1>8, <1>9
    <3>2. QED
      BY <1>11, <3>1 DEF DistinctDirs
  <2>2. AtRest(p)'
    BY <1>3, <1>11, <1>12, <1>13 DEF AtRest
  <2>3. QED
    BY <1>2, <1>3, <1>11, <1>12, <2>1, <2>2 DEF Sound
<1>15. OnlyAt(p)
  BY <1>1, <1>2, <1>3 DEF OnlyAt, TypeOK
<1>16. QED
  BY <1>3, <1>10, <1>14, <1>15, Over

\* DeleteStub has written the header, and goes on to remove the directory.
LEMMA StubUnnamed ==
  ASSUME FsInv, NEW p \in Ports, p = op.port, WriteHeader, op.call = "DeleteStub"
  PROVE  FsInv'
<1> DEFINE h == header[p]
           i == op.index
           t == RemoveAt(h, i + 1)
           name == h[i + 1].dir
<1>1. TypeOK /\ OpTypes /\ CallShape /\ Sound(p) /\ SavedStubs /\ Goals /\ Reads /\ Directories
  BY InvParts
<1>2. /\ op.at = "save" /\ op.todo = <<>> /\ op.saving = NoDir /\ p \in dir
      /\ \A q \in Ports : q # p => Away(q)
  BY WritingHeader
<1>3. /\ header' = [header EXCEPT ![p] = t]
      /\ op' = [op EXCEPT !.at = "remove"]
      /\ UNCHANGED <<lost, store, dir, content, faulty, calls, faults>>
  BY DEF WriteHeader, NewHeader
<1>4. /\ op' \in Op
      /\ op'.call = "DeleteStub" /\ op'.port = p /\ op'.at = "remove" /\ op'.todo = <<>>
      /\ op'.saving = NoDir /\ op'.made = op.made /\ op'.goal = op.goal /\ op'.index = i
      /\ op'.whole = op.whole /\ op'.names = op.names
  BY <1>1, <1>2, <1>3 DEF TypeOK, Op
<1>5. /\ h # None /\ h \in Seq(Entry) /\ i \in 0..Len(h) - 1
      /\ op.goal = Removed(store[p], i)
      /\ IF name = NoDir THEN op.whole /\ op.names = Names ELSE ~op.whole /\ op.names = {name}
      /\ content[p] \in Contents /\ store[p] \in Views
  BY <1>1, <1>2, TypesOf DEF Goals, DeleteGoal, OpTypes
<1>6. /\ t \in Seq(Entry) /\ NamedBy(t) \subseteq NamedBy(h) /\ NamedBy(h) \subseteq NamedBy(t) \cup {name}
      /\ DistinctDirs(h) => DistinctDirs(t)
      /\ DistinctDirs(h) /\ name # NoDir => name \notin NamedBy(t)
  <2>1. h \in Seq(Entry) /\ i \in 0..Len(h) - 1
    BY <1>5
  <2>2. t = RemoveAt(h, i + 1)
    OBVIOUS
  <2> HIDE DEF h, i, t
  <2>3. QED
    BY <2>1, <2>2, EntryRemoved
<1>7. DistinctDirs(h) /\ NamedBy(h) = Named(p) /\ t # None
  BY <1>1, <1>5, <1>6, Distinct DEF Sound, Named
<1>8. TypeOK'
  <2> HIDE DEF t
  <2>1. QED
    BY <1>1, <1>3, <1>4, <1>6 DEF TypeOK
<1>9. header'[p] = t /\ content'[p] = content[p] /\ store'[p] = store[p]
  BY <1>1, <1>3 DEF TypeOK
<1>10. Named(p)' = NamedBy(t) /\ Present(p)' = Present(p)
  BY <1>9 DEF Named, Present
<1> HIDE DEF t, name
<1>11. ASSUME p \notin lost PROVE View(p)' = op.goal /\ ~op.whole /\ op.names = {name} /\ name # NoDir
  <2>1. View(p) = store[p] /\ store[p] # Broken
    BY <1>1, <1>2, <1>11 DEF Reads, Sound
  <2>2. GetImposter(h, content[p]) = store[p]
    BY <2>1 DEF View
  <2>3. Intact(GetImposter(h, content[p]))
    BY <1>5, <2>1, <2>2, ReadCases DEF Intact
  <2>4. GetImposter(t, content[p]) = Removed(GetImposter(h, content[p]), i)
    <3> HIDE DEF h, i
    <3>1. QED
      BY <1>5, <2>3, ReadRemoved DEF t
  <2>5. View(p)' = op.goal
    BY <1>5, <1>9, <2>2, <2>4 DEF View
  <2>6. Readable(content[p], h[i + 1])
    <3>1. \A j \in 1..Len(h) : Readable(content[p], h[j])
      BY <1>5, <2>3, ReadCases
    <3>2. i + 1 \in 1..Len(h)
      BY <1>5
    <3>3. QED
      BY <3>1, <3>2
  <2>7. name # NoDir
    BY <2>6 DEF Readable, name
  <2>8. QED
    BY <1>5, <2>5, <2>7
<1>12. CallShape'
  BY <1>1, <1>2, <1>3, <1>4 DEF CallShape
<1>13. Sound(p)' /\ OnlyAt(p)
  <2>1. ~Away(p)'
    BY <1>4, IdleIs DEF Away
  <2>2. DistinctDirs(header[p])'
    BY <1>6, <1>7, <1>9 DEF DistinctDirs
  <2>3. Sound(p)'
    BY <1>1, <1>2, <1>3, <2>1, <2>2 DEF Sound
  <2>4. QED
    BY <1>1, <1>2, <1>3, <2>3 DEF OnlyAt, TypeOK
<1>14. SavedStubs'
  BY <1>4 DEF SavedStubs
<1>15. Goals'
  <2>1. p \notin lost => ~op.whole /\ op.names \cap Named(p)' = {}
    BY <1>6, <1>7, <1>10, <1>11
  <2>2. DeleteGoal'
    BY <1>3, <1>4, <1>5, <2>1 DEF DeleteGoal
  <2>3. QED
    BY <1>4, <2>2 DEF Goals
<1>16. Reads'
  BY <1>3, <1>4, <1>11 DEF Reads
<1>17. Directories'
  <2>1. ASSUME p \notin faulty \cup lost
        PROVE  header'[p] # None /\ Named(p)' \subseteq Present(p)' /\ Present(p)' \subseteq Named(p)' \cup op.names
    <3>1. Present(p) = Named(p)
      BY <1>1, <1>2, <2>1 DEF Directories, Clean
    <3>2. op.names = {name}
      BY <1>11, <2>1
    <3>3. QED
      BY <1>6, <1>7, <1>9, <1>10, <3>1, <3>2
  <2>2. QED
    BY <1>3, <1>4, <2>1 DEF Directories
<1>18. QED
  BY <1>8, <1>12, <1>13, <1>14, <1>15, <1>16, <1>17, AllSound DEF FsInv

LEMMA WriteHeaderKeeps ==
  ASSUME FsInv, WriteHeader
  PROVE  FsInv'
<1>1. op.port \in Ports
  BY InvParts DEF OpTypes
<1>2. op.call \in {"Add", "UpdateStubs", "AddStub", "DeleteStub"}
  BY <1>1, WritingHeader
<1>3. QED
  BY <1>1, <1>2, ListWritten, StubWritten, StubUnnamed

LEMMA DeleteAllNextKeeps ==
  ASSUME FsInv, DeleteAllNext
  PROVE  FsInv'
<1>1. TypeOK /\ OpTypes /\ CallShape /\ \A q \in Ports : Sound(q) /\ Away(q)
  BY InvParts DEF DeleteAllNext, Away
<1>2. UNCHANGED <<dir, header, content, store, lost, faulty, calls, faults>> /\ op.at = "next"
  BY DEF DeleteAllNext
<1>3. op.call = "DeleteAll" /\ op.goal = None
  BY <1>1, <1>2, IdleIs DEF CallShape, OpTypes, Calls, Removing
<1>4. \A q \in Ports : Sound(q)'
  <2>1. ASSUME NEW q \in Ports PROVE Sound(q)'
    BY <1>1, <1>2, SoundKept
  <2>2. QED
    BY <2>1
<1>5. CASE \E p \in op.ports : /\ Intact(View(p))
                               /\ op' = [op EXCEPT !.at = "remove", !.port = p, !.whole = TRUE,
                                                   !.names = Names, !.ports = @ \ {p}]
  <2>1. PICK p \in op.ports : /\ Intact(View(p))
                              /\ op' = [op EXCEPT !.at = "remove", !.port = p, !.whole = TRUE,
                                                  !.names = Names, !.ports = @ \ {p}]
    BY <1>5
  <2>2. p \in Ports
    BY <1>1 DEF OpTypes
  <2>3. /\ op' \in Op /\ op'.call = "DeleteAll" /\ op'.at = "remove" /\ op'.port = p /\ op'.whole
        /\ op'.names = Names /\ op'.goal = None
    BY <1>1, <1>3, <2>1, <2>2 DEF TypeOK, Op
  <2>4. header[p] # None
    BY <1>1, <2>1, <2>2, TypesOf, ReadCases DEF View, Intact
  <2>5. p \in dir'
    BY <1>1, <1>2, <2>2, <2>4, HeaderMeansDirectory
  <2>6. TypeOK'
    BY <1>1, <1>2, <2>3 DEF TypeOK
  <2>7. CallShape'
    BY <2>3, <2>5 DEF CallShape, Removing
  <2>8. SavedStubs' /\ Goals' /\ Reads' /\ Directories'
    BY <2>3 DEF SavedStubs, Goals, Reads, Directories
  <2>9. QED
    BY <1>4, <2>6, <2>7, <2>8 DEF FsInv
<1>6. CASE \E p \in op.ports : op' = [op EXCEPT !.ports = @ \ {p}]
  <2>1. PICK p \in op.ports : op' = [op EXCEPT !.ports = @ \ {p}]
    BY <1>6
  <2>2. /\ op' \in Op /\ op'.call = "DeleteAll" /\ op'.at = "next" /\ op'.whole = op.whole
        /\ op'.names = op.names /\ op'.goal = None
    BY <1>1, <1>2, <1>3, <2>1 DEF TypeOK, Op
  <2>3. TypeOK'
    BY <1>1, <1>2, <2>2 DEF TypeOK
  <2>4. CallShape'
    BY <1>1, <2>2 DEF CallShape
  <2>5. OpTypes'
    BY <2>3 DEF TypeOK, Op, OpTypes
  <2>6. SavedStubs' /\ Goals' /\ Reads' /\ Directories'
    BY <2>2, <2>4, <2>5, Quiet
  <2>7. QED
    BY <1>4, <2>3, <2>4, <2>6 DEF FsInv
<1>7. CASE op' = Idle
  <2>1. TypeOK'
    BY <1>1, <1>2, <1>7, IdleIs DEF TypeOK
  <2>2. PICK p \in Ports : TRUE
    BY <1>1 DEF OpTypes
  <2>3. OnlyAt(p)
    BY <1>1, <1>2 DEF OnlyAt
  <2>4. QED
    BY <1>4, <1>7, <2>1, <2>3, Over
<1>8. QED
  BY <1>5, <1>6, <1>7 DEF DeleteAllNext

\* Where a call stands that removes files.
LEMMA RemovingFiles ==
  ASSUME FsInv, NEW p \in Ports, p = op.port, op.at = "remove"
  PROVE  /\ op # Idle /\ p \in dir /\ ~Away(p)
         /\ op.call \in {"Add", "UpdateStubs", "DeleteStub", "Delete", "DeleteAll"}
         /\ op.call \in {"Add", "Delete", "DeleteAll"} => op.whole /\ op.names = Names /\ op.goal = None
         /\ op.call = "UpdateStubs" => ~op.whole /\ op.names = Names
         /\ op.call = "DeleteStub" /\ p \notin lost =>
              ~op.whole /\ op.names \cap Named(p) = {} /\ View(p) = op.goal
         /\ \A q \in Ports : q # p => Away(q)
<1>1. OpTypes /\ CallShape /\ Goals /\ Reads
  BY InvParts
<1>2. op # Idle /\ p \in dir /\ ~Away(p)
  BY <1>1, IdleIs DEF CallShape, Away
<1>3. op.call \in {"Add", "UpdateStubs", "DeleteStub", "Delete", "DeleteAll"}
  BY <1>1, <1>2 DEF CallShape, OpTypes, Calls
<1>4. op.call \in {"Add", "Delete", "DeleteAll"} => op.whole /\ op.names = Names /\ op.goal = None
  BY <1>1 DEF CallShape, Removing
<1>5. op.call = "UpdateStubs" => ~op.whole /\ op.names = Names
  BY <1>1 DEF CallShape
<1>6. op.call = "DeleteStub" /\ p \notin lost =>
        ~op.whole /\ op.names \cap Named(p) = {} /\ View(p) = op.goal
  BY <1>1 DEF Goals, DeleteGoal, Reads
<1>7. QED
  BY <1>2, <1>3, <1>4, <1>5, <1>6, OthersAway

LEMMA RemoveFileKeeps ==
  ASSUME FsInv, NEW p \in Ports, p = op.port, RemoveFile
  PROVE  FsInv'
<1>1. TypeOK /\ OpTypes /\ CallShape /\ Sound(p) /\ SavedStubs /\ Goals /\ Reads /\ Directories
  BY InvParts
<1>2. op.at = "remove" /\ UNCHANGED <<dir, op, store, lost, faulty, calls, faults>>
  BY DEF RemoveFile
<1>3. /\ op # Idle /\ p \in dir /\ ~Away(p)
      /\ op.call \in {"Add", "UpdateStubs", "DeleteStub", "Delete", "DeleteAll"}
      /\ op.call = "DeleteStub" /\ p \notin lost =>
           ~op.whole /\ op.names \cap Named(p) = {} /\ View(p) = op.goal
      /\ \A q \in Ports : q # p => Away(q)
  BY <1>2, RemovingFiles
<1>4. /\ header' \in [Ports -> Seq(Entry) \cup {None}] /\ content' \in [Ports -> Contents]
      /\ header'[p] = header[p] \/ (op.whole /\ header'[p] = None)
      /\ \A n \in Names : content'[p][n] = content[p][n]
                          \/ (n \in op.names /\ content[p][n] # None /\ content'[p][n] \in {None, Partial})
      /\ \A q \in Ports : q # p => header'[q] = header[q] /\ content'[q] = content[q]
  <2>1. CASE \E n \in op.names :
               /\ content[p][n] # None
               /\ content' = [content EXCEPT ![p][n] = IF @ = Partial THEN None ELSE Partial]
               /\ UNCHANGED header
    <3>1. PICK n \in op.names :
            /\ content[p][n] # None
            /\ content' = [content EXCEPT ![p][n] = IF @ = Partial THEN None ELSE Partial]
            /\ UNCHANGED header
      BY <2>1
    <3>2. n \in Names /\ content \in [Ports -> Contents]
      BY <1>1 DEF OpTypes, TypeOK
    <3> DEFINE x == IF content[p][n] = Partial THEN None ELSE Partial
    <3>3. content' = [content EXCEPT ![p] = [content[p] EXCEPT ![n] = x]]
      BY <3>1, <3>2 DEF Contents
    <3>4. x \in {None, Partial}
      OBVIOUS
    <3> HIDE DEF x
    <3>5. content' \in [Ports -> Contents] /\ content'[p] = [content[p] EXCEPT ![n] = x]
          /\ \A q \in Ports : q # p => content'[q] = content[q]
      BY <3>2, <3>3, <3>4 DEF Contents
    <3>6. \A m \in Names : content'[p][m] = IF m = n THEN x ELSE content[p][m]
      BY <3>2, <3>5 DEF Contents
    <3>7. QED
      BY <1>1, <3>1, <3>4, <3>5, <3>6 DEF TypeOK
  <2>2. CASE op.whole /\ header' = [header EXCEPT ![p] = None] /\ UNCHANGED content
    BY <1>1, <2>2 DEF TypeOK
  <2>3. QED
    BY <2>1, <2>2 DEF RemoveFile
<1>5. TypeOK'
  BY <1>1, <1>2, <1>4 DEF TypeOK
<1>6. CallShape'
  BY <1>1, <1>2 DEF CallShape, Removing
<1>7. Sound(p)' /\ OnlyAt(p)
  <2>1. ~Away(p)'
    BY <1>2, <1>3 DEF Away
  <2>2. header'[p] # None => DistinctDirs(header[p])'
    BY <1>1, <1>4 DEF Sound, DistinctDirs
  <2>3. Sound(p)'
    BY <1>1, <1>2, <1>3, <2>1, <2>2 DEF Sound
  <2>4. QED
    BY <1>2, <1>3, <1>4, <2>3 DEF OnlyAt
<1>8. SavedStubs'
  BY <1>2 DEF SavedStubs
<1>9. ASSUME op.call = "DeleteStub", p \notin lost
      PROVE  /\ header' = header /\ View(p)' = op.goal /\ Named(p)' = Named(p)
             /\ op.names \cap Named(p) = {} /\ ~op.whole
  <2>1. ~op.whole /\ op.names \cap Named(p) = {} /\ View(p) = op.goal
    BY <1>3, <1>9
  <2>2. header' = header
    BY <2>1 DEF RemoveFile
  <2>3. Named(p)' = Named(p)
    BY <2>2 DEF Named
  <2>4. header[p] \in Seq(Entry) \cup {None}
    BY <1>1, TypesOf
  <2>5. \A n \in NamedBy(header[p]) \ {NoDir} : content[p][n] = content'[p][n]
    BY <1>4, <2>1, <2>4, NamedIs DEF Named
  <2>6. GetImposter(header[p], content[p]) = GetImposter(header[p], content'[p])
    BY <2>4, <2>5, ReadSame
  <2>7. View(p)' = View(p)
    BY <2>2, <2>6 DEF View
  <2>8. QED
    BY <2>1, <2>2, <2>3, <2>7
<1>10. Goals'
  <2>1. op.call = "Add" => header'[p] = None
    BY <1>1, <1>4 DEF Goals
  <2>2. op.call = "UpdateStubs" => ListGoal'
    BY <1>1, <1>2 DEF Goals, ListGoal
  <2>3. op.call = "DeleteStub" => DeleteGoal'
    BY <1>1, <1>2, <1>9 DEF Goals, DeleteGoal
  <2>4. QED
    BY <1>2, <1>3, <2>1, <2>2, <2>3 DEF Goals
<1>11. Reads'
  BY <1>2, <1>9 DEF Reads
<1>12. Directories'
  <2>1. ASSUME op.call = "DeleteStub", p \notin faulty \cup lost
        PROVE  header'[p] # None /\ Named(p)' \subseteq Present(p)' /\ Present(p)' \subseteq Named(p)' \cup op.names
    <3>1. header[p] # None /\ Named(p) \subseteq Present(p) /\ Present(p) \subseteq Named(p) \cup op.names
      BY <1>1, <1>2, <2>1 DEF Directories
    <3>2. header' = header /\ Named(p)' = Named(p) /\ op.names \cap Named(p) = {}
      BY <1>9, <2>1
    <3>3. Present(p)' \subseteq Present(p)
      BY <1>4 DEF Present
    <3>4. Named(p) \subseteq Present(p)'
      BY <1>4, <3>1, <3>2 DEF Present
    <3>5. QED
      BY <3>1, <3>2, <3>3, <3>4
  <2>2. op' = op /\ op'.port = p /\ lost' = lost /\ faulty' = faulty
    BY <1>2
  <2>3. QED
    BY <1>2, <1>3, <2>1, <2>2 DEF Directories
<1>13. QED
  BY <1>5, <1>6, <1>7, <1>8, <1>10, <1>11, <1>12, AllSound DEF FsInv

\* UpdateStubs has removed the old directories.
LEMMA OldStubsRemoved ==
  ASSUME FsInv, NEW p \in Ports, p = op.port, RemoveDone, op.call = "UpdateStubs"
  PROVE  FsInv'
<1>1. TypeOK /\ OpTypes /\ CallShape /\ Sound(p) /\ Goals
  BY InvParts
<1>2. op.at = "remove" /\ UNCHANGED <<header, content, calls, faults, store>>
      /\ op' = [op EXCEPT !.at = "save", !.names = {}]
  BY DEF RemoveDone
<1>3. ~op.whole /\ op.names = Names /\ op.made = <<>> /\ op.saving = NoDir /\ p \in dir
      /\ \A q \in Ports : q # p => Away(q)
  BY <1>1, <1>2, RemovingFiles DEF CallShape
<1>4. dir' = dir /\ lost' = lost /\ faulty' = faulty
  BY <1>3 DEF RemoveDone
<1>5. /\ op' \in Op
      /\ op'.call = "UpdateStubs" /\ op'.port = p /\ op'.at = "save" /\ op'.todo = op.todo
      /\ op'.saving = NoDir /\ op'.made = <<>> /\ op'.goal = op.goal /\ ~op'.whole
  BY <1>1, <1>2, <1>3 DEF TypeOK, Op
<1>6. TypeOK'
  BY <1>1, <1>2, <1>4, <1>5 DEF TypeOK
<1>7. Present(p)' = {}
  BY <1>2, <1>3 DEF RemoveDone, Gone, Present
<1>8. CallShape'
  BY <1>3, <1>4, <1>5 DEF CallShape
<1>9. Sound(p)' /\ OnlyAt(p)
  <2>1. ~Away(p)'
    BY <1>5, IdleIs DEF Away
  <2>2. Sound(p)'
    BY <1>1, <1>2, <1>3, <1>4, <2>1 DEF Sound
  <2>3. QED
    BY <1>2, <1>3, <1>4, <2>2 DEF OnlyAt
<1>10. DistinctDirs(op.made)' /\ Made' = {} /\ Writing' = {}
  BY <1>5, NothingMade
<1>11. SavedStubs'
  BY <1>5, <1>10 DEF SavedStubs
<1>12. Goals'
  <2>1. op'.made = op.made
    BY <1>3, <1>5
  <2>2. ListGoal'
    BY <1>1, <1>5, <2>1 DEF Goals, ListGoal
  <2>3. QED
    BY <1>5, <2>2 DEF Goals
<1>13. Reads' /\ Directories'
  BY <1>5, <1>7, <1>10 DEF Reads, Directories
<1>14. QED
  BY <1>6, <1>8, <1>9, <1>11, <1>12, <1>13, AllSound DEF FsInv

\* The call is over: Delete, DeleteStub, an Add that failed, or one port of DeleteAll.
LEMMA RemovalOver ==
  ASSUME FsInv, NEW p \in Ports, p = op.port, RemoveDone, op.call # "UpdateStubs"
  PROVE  FsInv'
<1>1. TypeOK /\ OpTypes /\ CallShape /\ Sound(p) /\ Reads /\ Directories
  BY InvParts
<1>2. /\ op.at = "remove" /\ UNCHANGED <<header, content, calls, faults>>
      /\ op' = IF op.call = "DeleteAll" THEN [op EXCEPT !.at = "next", !.whole = FALSE, !.names = {}] ELSE Idle
      /\ store' = [store EXCEPT ![p] = op.goal]
      /\ dir' = IF op.whole THEN dir \ {p} ELSE dir
      /\ lost' = IF op.whole /\ op.call # "DeleteStub" THEN lost \ {p} ELSE lost
      /\ faulty' = IF op.whole THEN faulty \ {p} ELSE faulty
      /\ \A n \in op.names : content[p][n] = None
      /\ op.whole => header[p] = None
  BY DEF RemoveDone, Return, Gone
<1>3. /\ p \in dir
      /\ op.call \in {"Add", "DeleteStub", "Delete", "DeleteAll"}
      /\ op.call \in {"Add", "Delete", "DeleteAll"} => op.whole /\ op.names = Names /\ op.goal = None
      /\ op.call = "DeleteStub" /\ p \notin lost =>
           ~op.whole /\ op.names \cap Named(p) = {} /\ View(p) = op.goal
      /\ \A q \in Ports : q # p => Away(q)
  BY <1>2, RemovingFiles
<1>4. op' \in Op /\ op'.at \in {"done", "next"}
  BY <1>1, <1>2, IdleIs DEF TypeOK, Op
<1>5. TypeOK'
  BY <1>1, <1>2, <1>4 DEF TypeOK, OpTypes
<1>6. OpTypes'
  BY <1>5 DEF TypeOK, Op, OpTypes
<1>7. CallShape'
  <2>1. CASE op.call = "DeleteAll"
    <3>1. op'.call = "DeleteAll" /\ op'.at = "next" /\ op'.goal = None /\ ~op'.whole
      BY <1>1, <1>2, <1>3, <2>1 DEF TypeOK, Op
    <3>2. QED
      BY <3>1 DEF CallShape
  <2>2. CASE op.call # "DeleteAll"
    BY <1>2, <2>2, IdleShape
  <2>3. QED
    BY <2>1, <2>2
<1>8. SavedStubs' /\ Goals' /\ Reads' /\ Directories'
  BY <1>4, <1>6, <1>7, Quiet
<1>9. View(p)' = View(p) /\ Named(p)' = Named(p) /\ Present(p)' = Present(p) /\ store'[p] = op.goal
  BY <1>1, <1>2, PortKept DEF TypeOK
<1>10. Sound(p)'
  <2>1. CASE op.whole
    <3>1. header'[p] = None /\ Present(p)' = {} /\ p \notin dir' /\ Named(p)' = {} /\ View(p)' = None
      <4>1. op.names = Names /\ header'[p] = None
        BY <1>1, <1>2, <2>1 DEF CallShape
      <4>2. Present(p)' = {}
        BY <1>2, <4>1 DEF Present
      <4>3. QED
        BY <1>2, <2>1, <4>1, <4>2 DEF Named, NamedBy, View, GetImposter
    <3>2. Clean(p)'
      BY <3>1 DEF Clean
    <3>3. p \notin lost' => op.goal = None
      BY <1>2, <1>3, <2>1
    <3>4. QED
      BY <1>9, <3>1, <3>2, <3>3, Distinct DEF Sound, AtRest
  <2>2. CASE ~op.whole
    <3>1. op.call = "DeleteStub" /\ dir' = dir /\ lost' = lost /\ faulty' = faulty
      BY <1>2, <1>3, <2>2
    <3>2. ASSUME p \notin lost PROVE op.goal = View(p) /\ op.goal # Broken
      <4>1. op.goal = View(p) /\ store[p] # Broken /\ store[p] \in Views
        BY <1>1, <1>3, <3>1, <3>2, TypesOf DEF Sound
      <4>2. op.goal = Removed(store[p], op.index)
        BY <3>1, InvParts DEF Goals, DeleteGoal
      <4>3. QED
        BY <1>1, <4>1, <4>2, RemovedTyped DEF OpTypes
    <3>3. ASSUME p \notin faulty \cup lost PROVE Clean(p)'
      <4>1. header[p] # None /\ Named(p) \subseteq Present(p) /\ Present(p) \subseteq Named(p) \cup op.names
        BY <1>1, <1>2, <3>1, <3>3 DEF Directories
      <4>2. Present(p) = Named(p)
        BY <1>2, <4>1 DEF Present
      <4>3. QED
        BY <1>2, <1>3, <1>9, <3>1, <4>1, <4>2 DEF Clean
    <3>4. AtRest(p)'
      BY <1>9, <3>1, <3>2, <3>3 DEF AtRest
    <3>5. header'[p] # None => DistinctDirs(header[p])'
      BY <1>1, <1>2 DEF Sound, DistinctDirs
    <3>6. QED
      BY <1>3, <1>9, <3>1, <3>2, <3>4, <3>5 DEF Sound
  <2>3. QED
    BY <2>1, <2>2
<1>11. OnlyAt(p)
  BY <1>1, <1>2, <1>3 DEF OnlyAt, TypeOK
<1>12. QED
  BY <1>5, <1>7, <1>8, <1>10, <1>11, AllSound DEF FsInv

-----------------------------------------------------------------------------
(* Crashes and failures                                                     *)

LEMMA CutShortKeeps ==
  ASSUME FsInv, NEW p \in Ports, p = op.port, Fault, CutShort, UNCHANGED <<dir, header, content, calls>>
  PROVE  FsInv'
<1>1. TypeOK /\ Sound(p)
  BY InvParts
<1>2. /\ op' = Idle
      /\ store' = [store EXCEPT ![p] = View(p)]
      /\ lost' = IF View(p) = Broken THEN lost \cup {p} ELSE lost
      /\ faulty' = faulty \cup {p}
      /\ faults' = faults + 1
  BY DEF CutShort, Fault
<1>3. View(p) \in Views
  BY <1>1, TypesOf, ReadCases DEF View
<1>4. TypeOK'
  BY <1>1, <1>2, <1>3, IdleIs DEF TypeOK
<1>5. View(p)' = View(p) /\ Present(p)' = Present(p) /\ store'[p] = View(p)
  BY <1>1, <1>2, PortKept DEF TypeOK
<1>6. Sound(p)'
  <2>1. AtRest(p)'
    BY <1>2, <1>5 DEF AtRest
  <2>2. header'[p] # None => DistinctDirs(header[p])'
    BY <1>1 DEF Sound, DistinctDirs
  <2>3. QED
    BY <1>1, <1>2, <1>5, <2>1, <2>2 DEF Sound
<1>7. OnlyAt(p)
  BY <1>1, <1>2, OthersAway DEF OnlyAt, TypeOK
<1>8. QED
  BY <1>2, <1>4, <1>6, <1>7, Over

\* An Add that cannot write a file removes what it has written.
LEMMA AddFails ==
  ASSUME FsInv, NEW p \in Ports, p = op.port, op.at = "save", op.call = "Add",
         op' = [op EXCEPT !.at = "remove", !.todo = <<>>, !.saving = NoDir, !.whole = TRUE,
                          !.names = Names, !.goal = None],
         UNCHANGED <<store, lost, faulty, dir, header, content, calls>>, faults' = faults + 1
  PROVE  FsInv'
<1>1. TypeOK /\ CallShape /\ Sound(p) /\ Goals
  BY InvParts
<1>2. <<>> \in Seq(Stubs) /\ None \in Views
  BY DEF Views
<1>3. /\ op' \in Op
      /\ op'.call = "Add" /\ op'.port = p /\ op'.at = "remove" /\ op'.whole /\ op'.names = Names
      /\ op'.goal = None
  BY <1>1, <1>2 DEF TypeOK, Op
<1>4. TypeOK'
  BY <1>1, <1>3 DEF TypeOK
<1>5. CallShape'
  BY <1>1, <1>3 DEF CallShape, Removing
<1>6. Sound(p)' /\ OnlyAt(p)
  <2>1. ~Away(p)'
    BY <1>3, IdleIs DEF Away
  <2>2. p \in dir'
    BY <1>1 DEF CallShape
  <2>3. Sound(p)'
    BY <1>1, <2>1, <2>2 DEF Sound
  <2>4. QED
    BY <2>3, OthersAway DEF OnlyAt
<1>7. Goals'
  BY <1>1, <1>3 DEF Goals
<1>8. SavedStubs' /\ Reads' /\ Directories'
  BY <1>3 DEF SavedStubs, Reads, Directories
<1>9. QED
  BY <1>4, <1>5, <1>6, <1>7, <1>8, AllSound DEF FsInv

LEMMA WriteFailsKeeps ==
  ASSUME FsInv, NEW p \in Ports, p = op.port, WriteFails
  PROVE  FsInv'
<1>1. Fault /\ op.at = "save" /\ UNCHANGED <<dir, header, content, calls>> /\ faults' = faults + 1
  BY DEF WriteFails, Fault
<1>2. CASE CutShort
  BY <1>1, <1>2, CutShortKeeps
<1>3. CASE ~CutShort
  BY <1>1, <1>3, AddFails DEF WriteFails
<1>4. QED
  BY <1>2, <1>3

-----------------------------------------------------------------------------
(* The theorems                                                             *)

LEMMA FsInvInit == Init => FsInv
<1> SUFFICES ASSUME Init PROVE FsInv
  OBVIOUS
<1>1. TypeOK
  BY IdleIs DEF Init, TypeOK, Contents, Views
<1>2. CallShape
  BY IdleIs DEF Init, CallShape
<1>3. SavedStubs /\ Goals /\ Reads /\ Directories
  BY IdleIs DEF Init, SavedStubs, Goals, Reads, Directories
<1>4. ASSUME NEW p \in Ports PROVE Sound(p)
  <2>1. header[p] = None /\ Present(p) = {} /\ Named(p) = {} /\ View(p) = None /\ store[p] = None /\ p \notin dir
    BY DEF Init, Present, Named, NamedBy, View, GetImposter
  <2>2. QED
    BY <2>1, Distinct DEF Sound, AtRest, Clean
<1>5. QED
  BY <1>1, <1>2, <1>3, <1>4 DEF FsInv

LEMMA FsInvStutter == FsInv /\ UNCHANGED vars => FsInv'
<1> SUFFICES ASSUME FsInv, UNCHANGED vars PROVE FsInv'
  OBVIOUS
<1>1. UNCHANGED <<dir, header, content, op, store, lost, faulty, calls, faults>>
  BY DEF vars
<1>2. TypeOK' /\ CallShape'
  BY <1>1 DEF FsInv, TypeOK, CallShape, Removing
<1>3. \A p \in Ports : Sound(p)'
  BY <1>1, InvParts, SoundKept DEF Away
<1>4. Made' = Made /\ Writing' = Writing
  BY <1>1 DEF Made, Writing
<1>5. PICK p \in Ports : p = op.port /\ op'.port = p
  BY <1>1, InvParts DEF OpTypes
<1>6. View(p)' = View(p) /\ Named(p)' = Named(p) /\ Present(p)' = Present(p) /\ Clean(p)' = Clean(p)
  BY <1>1, <1>5, PortKept DEF Clean
<1>7. SavedStubs'
  BY <1>1, <1>4, <1>5, <1>6, InvParts DEF SavedStubs, DistinctDirs
<1>8. Goals'
  <2>1. (DeleteGoal)' <=> DeleteGoal
    BY <1>1, <1>5, <1>6 DEF DeleteGoal
  <2>2. ListGoal' <=> ListGoal
    BY <1>1 DEF ListGoal
  <2>3. AddGoal' <=> AddGoal
    BY <1>1 DEF AddGoal
  <2>4. QED
    BY <1>1, <2>1, <2>2, <2>3, InvParts DEF Goals
<1>9. Reads'
  BY <1>1, <1>5, <1>6, InvParts DEF Reads
<1>10. Directories'
  BY <1>1, <1>4, <1>5, <1>6, InvParts DEF Directories
<1>11. QED
  BY <1>2, <1>3, <1>7, <1>8, <1>9, <1>10 DEF FsInv

LEMMA FsInvNext == FsInv /\ [Next]_vars => FsInv'
<1> SUFFICES ASSUME FsInv, [Next]_vars PROVE FsInv'
  OBVIOUS
<1>1. PICK p \in Ports : p = op.port
  BY InvParts DEF OpTypes
<1>2. CASE Call
  BY <1>2, AddBeginKeeps, UpdateStubsBeginKeeps, AddStubBeginKeeps, DeleteStubBeginKeeps, DeleteBeginKeeps,
     ClearKeeps, DeleteAllBeginKeeps DEF Call
<1>3. CASE SaveDir
  BY <1>1, <1>3, SaveDirKeeps
<1>4. CASE SaveMeta
  BY <1>1, <1>4, SaveMetaKeeps
<1>5. CASE WriteHeader
  BY <1>5, WriteHeaderKeeps
<1>6. CASE DeleteAllNext
  BY <1>6, DeleteAllNextKeeps
<1>7. CASE RemoveFile
  BY <1>1, <1>7, RemoveFileKeeps
<1>8. CASE RemoveDone
  BY <1>1, <1>8, OldStubsRemoved, RemovalOver
<1>9. CASE Crash
  BY <1>1, <1>9, CutShortKeeps DEF Crash
<1>10. CASE WriteFails
  BY <1>1, <1>10, WriteFailsKeeps
<1>11. CASE UNCHANGED vars
  BY <1>11, FsInvStutter
<1>12. QED
  BY <1>2, <1>3, <1>4, <1>5, <1>6, <1>7, <1>8, <1>9, <1>10, <1>11 DEF Next, Step

\* What is known of the files and of the call under way, whatever crashes and
\* whatever fails.
THEOREM FilesystemInvariant == Spec => []FsInv
<1>1. QED
  BY FsInvInit, FsInvNext, PTL DEF Spec

\* Between calls the files say what the in-memory repository would.
THEOREM FilesAgreeWithMemory == Spec => []AgreesWithMemory
<1>1. FsInv => AgreesWithMemory
  BY DEF FsInv, Sound, AtRest, AgreesWithMemory, Away
<1>2. QED
  BY <1>1, FilesystemInvariant, PTL

\* During Add, AddStub and DeleteStub the files hold the imposter as it was or as
\* it is to be.
THEOREM EditsOfFilesAreAtomic == Spec => []EditsAreAtomic
<1>1. ASSUME FsInv, op.call \in {"Add", "AddStub", "DeleteStub"}, op.port \notin lost
      PROVE  View(op.port) \in {store[op.port], op.goal}
  <2>1. CallShape /\ Reads /\ Goals
    BY <1>1, InvParts
  <2>2. CASE op.at = "save"
    BY <1>1, <2>1, <2>2 DEF Reads
  <2>3. CASE op.call = "DeleteStub" /\ op.at = "remove"
    BY <1>1, <2>1, <2>3 DEF Reads
  <2>4. CASE op.call = "Add" /\ op.at # "save"
    BY <2>1, <2>4 DEF CallShape, Goals, View, GetImposter
  <2>5. QED
    BY <1>1, <2>1, <2>2, <2>3, <2>4 DEF CallShape
<1>2. FsInv => EditsAreAtomic
  BY <1>1 DEF EditsAreAtomic
<1>3. QED
  BY <1>2, FilesystemInvariant, PTL

\* Between calls an imposter's directory holds what its header names and nothing
\* else, where no call was cut short.
THEOREM NothingIsLeftBehind == Spec => []NoGarbage
<1>1. FsInv => NoGarbage
  BY AllAtRest DEF AtRest, NoGarbage
<1>2. QED
  BY <1>1, FilesystemInvariant, PTL

-----------------------------------------------------------------------------
(* The contract of a repository                                             *)

\* What the refinement needs besides holds of every step.
LEMMA StepInvInit == Init => StepInv
BY IdleIs DEF Init, StepInv

LEMMA StepInvBegins ==
  ASSUME FsInv, Call
  PROVE  StepInv'
<1>1. CASE \E p \in Ports : AddBegin(p)
  <2>1. PICK list \in Lists, p \in Ports :
          op' = [Idle EXCEPT !.call = "Add", !.port = p, !.at = "save", !.todo = list, !.goal = WholeList(list)]
    BY <1>1 DEF AddBegin
  <2>2. op'.call = "Add" /\ op'.at = "save" /\ op'.goal = WholeList(list) /\ ~op'.whole
    BY <2>1, IdleIs DEF Op
  <2>3. QED
    BY <2>2 DEF StepInv
<1>2. CASE \E p \in Ports : UpdateStubsBegin(p)
  <2>1. op'.call = "UpdateStubs" /\ op'.at = "remove"
    BY <1>2, IdleIs DEF UpdateStubsBegin, Op
  <2>2. QED
    BY <2>1 DEF StepInv
<1>3. CASE \E p \in Ports : AddStubBegin(p)
  <2>1. op'.call = "AddStub" /\ op'.at = "save" /\ ~op'.whole
    BY <1>3, IdleIs DEF AddStubBegin, Op
  <2>2. QED
    BY <2>1 DEF StepInv
<1>4. CASE \E p \in Ports : DeleteStubBegin(p)
  <2>1. op'.call = "DeleteStub" /\ op'.at = "save"
    BY <1>4, IdleIs DEF DeleteStubBegin, Op
  <2>2. QED
    BY <2>1 DEF StepInv
<1>5. CASE \E p \in Ports : DeleteBegin(p)
  <2>1. op'.call = "Delete" /\ op'.at = "remove"
    BY <1>5, IdleIs DEF DeleteBegin, Op
  <2>2. QED
    BY <2>1 DEF StepInv
<1>6. CASE \E p \in Ports : ClearRequestsAndProxyStubs(p)
  <2>1. op' = Idle
    BY <1>6 DEF ClearRequestsAndProxyStubs
  <2>2. QED
    BY <2>1, IdleIs DEF StepInv
<1>7. CASE DeleteAllBegin
  <2>1. op'.call = "DeleteAll" /\ op'.at = "next" /\ ~op'.whole
    BY <1>7, IdleIs DEF DeleteAllBegin, Op
  <2>2. QED
    BY <2>1 DEF StepInv
<1>8. QED
  BY <1>1, <1>2, <1>3, <1>4, <1>5, <1>6, <1>7 DEF Call

\* A call that returns, or goes on with the next port.
LEMMA Returned ==
  ASSUME TypeOK, NEW p, NEW v, Return(p, v)
  PROVE  \/ op' = Idle
         \/ op'.call = "DeleteAll" /\ op'.at = "next" /\ ~op'.whole
BY DEF Return, TypeOK, Op

LEMMA StepInvSteps ==
  ASSUME FsInv, StepInv, Step
  PROVE  StepInv'
<1>1. TypeOK /\ OpTypes /\ CallShape /\ Goals
  BY InvParts
<1>2. CASE SaveDir
  <2>1. op'.call = op.call /\ op'.at = op.at /\ op.at = "save" /\ op'.goal = op.goal /\ op'.whole = op.whole
    BY <1>1, <1>2 DEF SaveDir, TypeOK, Op
  <2>2. QED
    BY <2>1 DEF StepInv
<1>3. CASE SaveMeta
  <2>1. op'.call = op.call /\ op'.at = op.at /\ op.at = "save" /\ op'.goal = op.goal /\ op'.whole = op.whole
    BY <1>1, <1>3 DEF SaveMeta, TypeOK, Op
  <2>2. QED
    BY <2>1 DEF StepInv
<1>4. CASE WriteHeader /\ op.call = "DeleteStub"
  <2> DEFINE h == header[op.port]
             t == RemoveAt(h, op.index + 1)
  <2>1. op' = [op EXCEPT !.at = "remove"] /\ header' = [header EXCEPT ![op.port] = t] /\ op.at = "save"
    BY <1>4 DEF WriteHeader, NewHeader, Saved
  <2>2. op'.call = "DeleteStub" /\ op'.at = "remove" /\ op'.whole = op.whole /\ op'.names = op.names
        /\ op'.port = op.port /\ op.port \in Ports
    BY <1>1, <1>4, <2>1 DEF TypeOK, Op, OpTypes
  <2>3. h \in Seq(Entry) /\ DistinctDirs(h) /\ op.index \in 0..Len(h) - 1
    <3>1. h # None /\ op.index < Len(h) /\ op.index \in Nat
      BY <1>1, <1>4, <2>1 DEF Goals, DeleteGoal, OpTypes
    <3>2. Sound(op.port)
      BY <2>2, InvParts
    <3>3. QED
      BY <1>1, <2>2, <3>1, <3>2, TypesOf DEF Sound
  <2>4. (op.names = {h[op.index + 1].dir} /\ h[op.index + 1].dir # NoDir) \/ op.whole
    BY <1>1, <1>4, <2>1 DEF Goals, DeleteGoal
  <2>5. /\ h[op.index + 1].dir # NoDir => h[op.index + 1].dir \notin NamedBy(t)
    <3> DEFINE i == op.index
    <3>1. t = RemoveAt(h, i + 1) /\ i \in 0..Len(h) - 1 /\ h \in Seq(Entry) /\ DistinctDirs(h)
      BY <2>3
    <3> HIDE DEF h, t, i
    <3>2. h[i + 1].dir # NoDir => h[i + 1].dir \notin NamedBy(t)
      BY <3>1, EntryRemoved
    <3>3. QED
      BY <3>2 DEF i
  <2>6. Named(op.port)' = NamedBy(t)
    BY <1>1, <2>1, <2>2 DEF Named, TypeOK
  <2>7. op'.whole \/ op'.names \cap Named(op.port)' = {}
    <3> HIDE DEF h, t
    <3>1. QED
      BY <2>2, <2>4, <2>5, <2>6
  <2>8. QED
    BY <2>2, <2>7 DEF StepInv
<1>5. CASE WriteHeader /\ op.call # "DeleteStub"
  <2>1. \/ op' = Idle
        \/ op'.call = "DeleteAll" /\ op'.at = "next" /\ ~op'.whole
    BY <1>1, <1>5, Returned DEF WriteHeader
  <2>2. QED
    BY <2>1, IdleIs DEF StepInv
<1>6. CASE DeleteAllNext
  <2>1. op.call = "DeleteAll" /\ ~op.whole
    BY <1>1, <1>6, IdleIs DEF DeleteAllNext, CallShape, Removing, StepInv, OpTypes, Calls
  <2>2. \/ op' = Idle
        \/ op'.call = "DeleteAll" /\ (op'.at = "remove" \/ (op'.at = "next" /\ ~op'.whole))
    BY <1>1, <1>6, <2>1 DEF DeleteAllNext, TypeOK, Op
  <2>3. QED
    BY <2>2, IdleIs DEF StepInv
<1>7. CASE RemoveFile
  <2>1. op' = op /\ op.at = "remove" /\ (~op.whole => header' = header)
    BY <1>7 DEF RemoveFile
  <2>2. ~op.whole => Named(op.port)' = Named(op.port)
    BY <2>1 DEF Named
  <2>3. QED
    BY <2>1, <2>2 DEF StepInv
<1>8. CASE RemoveDone
  <2>1. \/ op' = Idle
        \/ op'.call = "DeleteAll" /\ op'.at = "next" /\ ~op'.whole
        \/ op'.call = "UpdateStubs" /\ op'.at = "save"
    BY <1>1, <1>8, Returned DEF RemoveDone, TypeOK, Op
  <2>2. QED
    BY <2>1, IdleIs DEF StepInv
<1>9. QED
  BY <1>2, <1>3, <1>4, <1>5, <1>6, <1>7, <1>8 DEF Step

LEMMA StepInvNext == FsInv /\ StepInv /\ [Next]_vars => StepInv'
<1> SUFFICES ASSUME FsInv, StepInv, [Next]_vars PROVE StepInv'
  OBVIOUS
<1>1. CASE Call
  BY <1>1, StepInvBegins
<1>2. CASE Step
  BY <1>2, StepInvSteps
<1>3. CASE op' = Idle
  BY <1>3, IdleIs DEF StepInv
<1>4. CASE WriteFails /\ op' # Idle
  <2>1. op'.at = "remove" /\ op'.call = "Add"
    BY <1>4, InvParts DEF WriteFails, CutShort, TypeOK, Op
  <2>2. QED
    BY <2>1 DEF StepInv
<1>5. CASE UNCHANGED vars
  <2>1. op' = op /\ header' = header
    BY <1>5 DEF vars
  <2>2. Named(op.port)' = Named(op.port)
    BY <2>1 DEF Named
  <2>3. QED
    BY <2>1, <2>2 DEF StepInv
<1>6. QED
  BY <1>1, <1>2, <1>3, <1>4, <1>5 DEF Next, Crash, CutShort

\* What the contract sees of a step that changes what is read of one port, or of
\* none.
LEMMA OneChanges ==
  ASSUME NEW p \in Ports, \A q \in Ports : q # p => View(q)' = View(q)
  PROVE  /\ Imposters' = [Imposters EXCEPT ![p] = View(p)']
         /\ View(p)' = View(p) => Imposters' = Imposters
BY DEF Imposters

LEMMA NoneChanges ==
  ASSUME header' = header, content' = content
  PROVE  Imposters' = Imposters /\ \A q \in Ports : View(q)' = View(q)
BY DEF Imposters, View

LEMMA SeesView ==
  ASSUME NEW p \in Ports
  PROVE  Imposters[p] = View(p)
BY DEF Imposters

\* The contract's operators on lists are those of this module.
LEMMA SameOperators ==
  ASSUME NEW v, NEW i, NEW x
  PROVE  Repository!InsertAt(v, i, x) = InsertAt(v, i, x) /\ Repository!RemoveAt(v, i) = RemoveAt(v, i)
BY DEF Repository!InsertAt, InsertAt, Repository!RemoveAt, RemoveAt

\* A step that the contract allows, or does not see.
Allowed == [Repository!ContractNext]_(Repository!contractVars)

\* What a step makes of the call under way: one begins, or it goes on or returns.
CallGoes ==
  /\ op'.call \in Repository!Calls
  /\ op.call = "none" \/ op'.call \in {op.call, "none"}

LEMMA CallIsOwn == FsInv /\ [Next]_vars => CallGoes
<1> SUFFICES ASSUME FsInv, [Next]_vars PROVE CallGoes
  OBVIOUS
<1>1. TypeOK /\ OpTypes /\ CallShape
  BY InvParts
<1>2. op'.call \in Repository!Calls
  <2>1. FsInv'
    BY FsInvNext
  <2>2. op' \in Op
    BY <2>1 DEF FsInv, TypeOK
  <2>3. QED
    BY <2>2 DEF Op, Calls, Repository!Calls
<1>3. CASE Call
  <2>1. op = Idle
    BY <1>3 DEF Call, AddBegin, UpdateStubsBegin, AddStubBegin, DeleteStubBegin, DeleteBegin,
       ClearRequestsAndProxyStubs, DeleteAllBegin, Begin
  <2>2. QED
    BY <1>2, <2>1, IdleIs DEF CallGoes
<1>4. CASE Step
  <2>1. CASE SaveDir \/ SaveMeta
    BY <1>1, <1>2, <2>1 DEF CallGoes, SaveDir, SaveMeta, TypeOK, Op
  <2>2. CASE WriteHeader
    BY <1>1, <1>2, <2>2, IdleIs DEF CallGoes, WriteHeader, Return, TypeOK, Op
  <2>3. CASE DeleteAllNext
    BY <1>1, <1>2, <2>3, IdleIs DEF CallGoes, DeleteAllNext, TypeOK, Op
  <2>4. CASE RemoveFile
    BY <1>2, <2>4 DEF CallGoes, RemoveFile
  <2>5. CASE RemoveDone
    BY <1>1, <1>2, <2>5, IdleIs DEF CallGoes, RemoveDone, Return, TypeOK, Op
  <2>6. QED
    BY <1>4, <2>1, <2>2, <2>3, <2>4, <2>5 DEF Step
<1>5. CASE Crash \/ WriteFails
  BY <1>1, <1>2, <1>5, IdleIs DEF CallGoes, Crash, WriteFails, CutShort, TypeOK, Op
<1>6. CASE UNCHANGED vars
  BY <1>2, <1>6 DEF CallGoes, vars
<1>7. QED
  BY <1>3, <1>4, <1>5, <1>6 DEF Next

LEMMA Unseen ==
  ASSUME CallGoes, Imposters' = Imposters, Taking' = Taking
  PROVE  Allowed
<1>1. Repository!Unseen
  BY DEF CallGoes, Repository!Unseen, Repository!Continues
<1>2. QED
  BY <1>1 DEF Allowed, Repository!ContractNext

LEMMA TakingIdle ==
  /\ op = Idle => Taking = {}
  /\ op' = Idle => Taking' = {}
BY IdleIs DEF Taking

LEMMA TakingKept ==
  ASSUME op'.call = op.call, op'.port = op.port, op'.goal = op.goal, op'.whole = op.whole
  PROVE  Taking' = Taking
BY DEF Taking

\* The beginnings of calls.
LEMMA CallAllowed ==
  ASSUME FsInv, CallGoes, Call
  PROVE  Allowed
<1>1. TypeOK /\ OpTypes
  BY InvParts
<1>2. op = Idle /\ op.call = "none" /\ Taking = {}
  BY TakingIdle, IdleIs DEF Call, AddBegin, UpdateStubsBegin, AddStubBegin, DeleteStubBegin, DeleteBegin,
     ClearRequestsAndProxyStubs, DeleteAllBegin, Begin
<1>3. CASE \E p \in Ports : AddBegin(p)
  <2>1. op'.call = "Add" /\ ~op'.whole /\ header' = header /\ content' = content
    BY <1>3, IdleIs DEF AddBegin, Begin, Op
  <2>2. Taking' = {}
    BY <2>1 DEF Taking
  <2>3. QED
    BY <1>2, <2>1, <2>2, NoneChanges, Unseen
<1>4. ASSUME NEW p \in Ports, UpdateStubsBegin(p) PROVE Allowed
  <2>1. PICK list \in Lists : op' = [Idle EXCEPT !.call = "UpdateStubs", !.port = p, !.at = "remove",
                                     !.names = Names, !.todo = list, !.goal = WholeList(list)]
    BY <1>4 DEF UpdateStubsBegin
  <2>2. op'.call = "UpdateStubs" /\ op'.port = p /\ op'.goal = WholeList(list)
    BY <2>1, IdleIs DEF Op
  <2>3. header' = header /\ content' = content /\ header[p] # None
    BY <1>4 DEF UpdateStubsBegin, Begin
  <2>4. Imposters[p] # None
    BY <1>1, <2>3, SeesView, TypesOf, ReadCases DEF View
  <2>5. Taking' = {[port |-> p, goal |-> WholeList(list)]}
    BY <2>2 DEF Taking
  <2>6. WholeList(list) = Repository!ReadList(list)
    BY DEF WholeList, Whole, Repository!ReadList, Repository!Read
  <2>7. Repository!Take(p)
    BY <1>2, <2>2, <2>3, <2>4, <2>5, <2>6, NoneChanges DEF Repository!Take
  <2>8. QED
    BY <2>7 DEF Allowed, Repository!ContractNext
<1>5. CASE \E p \in Ports : AddStubBegin(p)
  <2>1. op'.call = "AddStub" /\ ~op'.whole /\ header' = header /\ content' = content
    BY <1>5, IdleIs DEF AddStubBegin, Begin, Op
  <2>2. Taking' = {}
    BY <2>1 DEF Taking
  <2>3. QED
    BY <1>2, <2>1, <2>2, NoneChanges, Unseen
<1>6. ASSUME NEW p \in Ports, DeleteStubBegin(p) PROVE Allowed
  <2>1. op'.call = "DeleteStub" /\ op'.port = p /\ op'.whole \in BOOLEAN
        /\ header' = header /\ content' = content
    BY <1>6, IdleIs DEF DeleteStubBegin, Begin, Op
  <2>2. CASE ~op'.whole
    <3>1. Taking' = {}
      BY <2>1, <2>2 DEF Taking
    <3>2. QED
      BY <1>2, <2>1, <3>1, NoneChanges, Unseen
  <2>3. CASE op'.whole
    <3>1. Taking' = {[port |-> p, goal |-> None]}
      BY <2>1, <2>3 DEF Taking
    <3>2. Repository!Take(p)
      BY <1>2, <2>1, <3>1, NoneChanges DEF Repository!Take
    <3>3. QED
      BY <3>2 DEF Allowed, Repository!ContractNext
  <2>4. QED
    BY <2>1, <2>2, <2>3
<1>7. ASSUME NEW p \in Ports, DeleteBegin(p) PROVE Allowed
  <2>1. op'.call = "Delete" /\ op'.port = p /\ op'.whole /\ header' = header /\ content' = content
    BY <1>7, IdleIs DEF DeleteBegin, Begin, Op
  <2>2. Taking' = {[port |-> p, goal |-> None]}
    BY <2>1 DEF Taking
  <2>3. Repository!Take(p)
    BY <1>2, <2>1, <2>2, NoneChanges DEF Repository!Take
  <2>4. QED
    BY <2>3 DEF Allowed, Repository!ContractNext
<1>8. ASSUME NEW p \in Ports, ClearRequestsAndProxyStubs(p) PROVE Allowed
  <2> DEFINE h == header[p]
             t == [i \in 1..Len(h) |-> [h[i] EXCEPT !.dir = NoDir]]
  <2>1. h \in Seq(Entry) /\ content[p] \in Contents
    BY <1>1, <1>8, TypesOf DEF ClearRequestsAndProxyStubs
  <2>2. header' = [header EXCEPT ![p] = t] /\ content' = content /\ op' = Idle /\ op = Idle
    BY <1>8 DEF ClearRequestsAndProxyStubs
  <2>3. header'[p] = t /\ \A q \in Ports : q # p => header'[q] = header[q]
    BY <1>1, <2>2 DEF TypeOK
  <2>4. Taking' = {}
    BY <2>2, TakingIdle
  <2>5. \A q \in Ports : q # p => View(q)' = View(q)
    BY <2>2, <2>3, PortKept
  <2>6. CASE h = <<>>
    <3>1. t = <<>>
      BY <2>6
    <3>2. View(p)' = View(p)
      BY <2>2, <2>3, <2>6, <3>1, PortKept
    <3>3. QED
      BY <1>2, <2>4, <2>5, <3>2, OneChanges, Unseen
  <2>7. CASE h # <<>>
    <3>1. Len(h) \in Nat /\ Len(h) # 0
      BY <2>1, <2>7
    <3>2. t \in Seq(Entry) /\ Len(t) = Len(h) /\ \A i \in 1..Len(t) : t[i].dir = NoDir
      BY <2>1, DirsCleared
    <3>3. t # None
      BY <3>2, Distinct
    <3>4. ~Readable(content[p], t[1]) /\ 1 \in 1..Len(t)
      BY <3>1, <3>2 DEF Readable
    <3>5. GetImposter(t, content[p]) = Broken
      <4> HIDE DEF t
      <4>1. QED
        BY <2>1, <3>2, <3>3, <3>4, ReadCases
    <3>6. View(p)' = Broken
      BY <2>2, <2>3, <3>5 DEF View
    <3>7. View(p) \notin {None, <<>>}
      <4>1. View(p) # None
        BY <2>1, ReadCases, Distinct DEF View
      <4>2. ASSUME View(p) = <<>> PROVE FALSE
        <5>0. <<>> \in Seq(Loaded)
          OBVIOUS
        <5>1. Intact(View(p))
          BY <4>2, <5>0, Distinct DEF Intact
        <5>2. \A i \in 1..Len(h) : Readable(content[p], h[i])
          BY <2>1, <5>1, ReadCases DEF View
        <5>3. Len(View(p)) = Len(h)
          BY <2>1, <5>2, ReadAll DEF View
        <5>4. QED
          BY <3>1, <4>2, <5>3
      <4>3. QED
        BY <4>1, <4>2
    <3>8. Repository!Clear(p)
      BY <1>2, <2>2, <2>4, <2>5, <3>6, <3>7, OneChanges, SeesView DEF Repository!Clear, Repository!Becomes
    <3>9. QED
      BY <3>8 DEF Allowed, Repository!ContractNext
  <2>8. QED
    BY <2>6, <2>7
<1>9. CASE DeleteAllBegin
  <2>1. op'.call = "DeleteAll" /\ ~op'.whole /\ header' = header /\ content' = content
    BY <1>9, IdleIs DEF DeleteAllBegin, Begin, Op
  <2>2. Taking' = {}
    BY <2>1 DEF Taking
  <2>3. QED
    BY <1>2, <2>1, <2>2, NoneChanges, Unseen
<1>10. QED
  BY <1>3, <1>4, <1>5, <1>6, <1>7, <1>8, <1>9 DEF Call

\* A new directory, and then a stub in it, that the header does not name.
LEMMA SaveAllowed ==
  ASSUME FsInv, CallGoes, SaveDir \/ SaveMeta
  PROVE  Allowed
<1>1. TypeOK /\ OpTypes /\ SavedStubs
  BY InvParts
<1>2. op'.call = op.call /\ op'.port = op.port /\ op'.goal = op.goal /\ op'.whole = op.whole
  BY <1>1 DEF SaveDir, SaveMeta, TypeOK, Op
<1>3. Taking' = Taking
  BY <1>2, TakingKept
<1>4. PICK n \in Names :
        /\ n \notin Named(op.port)
        /\ header' = header
        /\ \A m \in Names : m # n => content'[op.port][m] = content[op.port][m]
        /\ \A q \in Ports : q # op.port => content'[q] = content[q]
  <2>1. CASE SaveDir
    <3>1. PICK n \in Names :
            /\ \A q \in Ports : header[q] # None => \A i \in 1..Len(header[q]) : header[q][i].dir # n
            /\ content' = [content EXCEPT ![op.port][n] = Partial]
      BY <2>1 DEF SaveDir
    <3>2. n \notin Named(op.port)
      BY <1>1, <3>1 DEF Named, NamedBy, OpTypes
    <3>3. QED
      BY <1>1, <2>1, <3>1, <3>2 DEF SaveDir, TypeOK, OpTypes, Contents
  <2>2. CASE SaveMeta
    <3>1. op.at = "save" /\ op.saving # NoDir /\ header' = header
          /\ content' = [content EXCEPT ![op.port][op.saving] = Head(op.todo)]
      BY <2>2 DEF SaveMeta
    <3>2. op.saving \in Names /\ op.saving \notin Named(op.port)
      BY <1>1, <3>1 DEF SavedStubs, Writing, OpTypes
    <3>3. QED
      BY <1>1, <3>1, <3>2 DEF TypeOK, OpTypes, Contents
  <2>3. QED
    BY <2>1, <2>2
<1>5. ASSUME NEW p \in Ports, p = op.port PROVE View(p)' = View(p)
  BY <1>1, <1>4, <1>5, ViewKept
<1>6. \A q \in Ports : q # op.port => View(q)' = View(q)
  BY <1>4, PortKept
<1>7. PICK p \in Ports : p = op.port
  BY <1>1 DEF OpTypes
<1>8. QED
  BY <1>3, <1>5, <1>6, <1>7, OneChanges, Unseen

\* The header is written: the whole list of Add or UpdateStubs ...
LEMMA ListAllowed ==
  ASSUME FsInv, StepInv, CallGoes, NEW p \in Ports, p = op.port, WriteHeader, op.call \in {"Add", "UpdateStubs"}
  PROVE  Allowed
<1>1. TypeOK /\ OpTypes /\ CallShape /\ SavedStubs /\ Goals
  BY InvParts
<1>2. op.at = "save" /\ op.todo = <<>>
  BY WritingHeader
<1>3. header' = [header EXCEPT ![p] = op.made] /\ op' = Idle /\ content' = content
  BY DEF WriteHeader, NewHeader, Return
<1>4. header'[p] = op.made /\ \A q \in Ports : q # p => header'[q] = header[q]
  BY <1>1, <1>3 DEF TypeOK
<1>5. \A q \in Ports : q # p => View(q)' = View(q)
  BY <1>3, <1>4, PortKept
<1>6. View(p)' = op.goal
  <2>1. op.made \in Seq(Entry) /\ content[p] \in Contents
    BY <1>1, TypesOf DEF OpTypes
  <2>2. op.goal \in Seq(Loaded) /\ Len(op.goal) = Len(op.made)
        /\ \A i \in 1..Len(op.made) : op.goal[i] = Whole(op.made[i].predicates)
    BY <1>1, <1>2, <2>1 DEF Goals, ListGoal
  <2>3. \A i \in 1..Len(op.made) : op.made[i].dir # NoDir /\ content[p][op.made[i].dir] = op.made[i].predicates
    BY <1>1, <1>2, MadeIs DEF SavedStubs
  <2>4. GetImposter(op.made, content[p]) = op.goal
    BY <2>1, <2>2, <2>3, ReadMade
  <2>5. QED
    BY <1>3, <1>4, <2>4 DEF View
<1>7. Taking' = {}
  BY <1>3, TakingIdle
<1>8. CASE op.call = "Add"
  <2>1. Taking = {}
    BY <1>2, <1>8 DEF Taking, StepInv
  <2>2. Imposters[p] = None
    BY <1>1, <1>8, SeesView DEF Goals, View, GetImposter
  <2>3. PICK list \in Lists : op.goal = WholeList(list)
    BY <1>2, <1>8 DEF StepInv
  <2>4. op.goal = Repository!ReadList(list)
    BY <2>3 DEF WholeList, Whole, Repository!ReadList, Repository!Read
  <2>5. Repository!Add(p)
    BY <1>5, <1>6, <1>7, <1>8, <2>1, <2>2, <2>4, OneChanges
       DEF CallGoes, Repository!Add, Repository!Continues, Repository!Becomes
  <2>6. QED
    BY <2>5 DEF Allowed, Repository!ContractNext
<1>9. CASE op.call = "UpdateStubs"
  <2>1. Taking = {[port |-> p, goal |-> op.goal]}
    BY <1>9 DEF Taking
  <2>2. Repository!Finish
    BY <1>5, <1>6, <1>7, <2>1, OneChanges
       DEF CallGoes, Repository!Finish, Repository!Continues, Repository!Becomes
  <2>3. QED
    BY <2>2 DEF Allowed, Repository!ContractNext
<1>10. QED
  BY <1>8, <1>9

\* An imposter that could not be read, and perhaps can now.
LEMMA SalvageAllowed ==
  ASSUME NEW p \in Ports, View(p) = Broken, View(p)' \in Views \ {None},
         \A q \in Ports : q # p => View(q)' = View(q),
         CallGoes, op.call = "DeleteStub",
         Taking' = Taking, Taking \in {{}, {[port |-> p, goal |-> None]}}
  PROVE  Allowed
<1>1. CASE View(p)' = Broken
  BY <1>1, OneChanges, Unseen
<1>2. CASE View(p)' # Broken
  <2>1. View(p)' \in Repository!AnyList
    BY <1>2 DEF Views, Repository!AnyList, Loaded
  <2>2. Imposters' = [Imposters EXCEPT ![p] = View(p)'] /\ Imposters'[p] = View(p)' /\ Imposters[p] = Broken
    BY OneChanges, SeesView DEF Imposters
  <2>3. \A t \in Taking : t.port = p /\ t.goal = None
    OBVIOUS
  <2>4. Repository!Salvage(p)
    BY <2>1, <2>2, <2>3 DEF CallGoes, Repository!Salvage, Repository!Continues, Repository!Becomes
  <2>5. QED
    BY <2>4 DEF Allowed, Repository!ContractNext
<1>3. QED
  BY <1>1, <1>2

\* ... a header with one entry more ...
LEMMA StubAllowed ==
  ASSUME FsInv, StepInv, CallGoes, NEW p \in Ports, p = op.port, WriteHeader, op.call = "AddStub"
  PROVE  Allowed
<1> DEFINE h == header[p]
           e == op.made[1]
           t == Put(h, op.index, e)
           v == View(p)
<1>1. TypeOK /\ OpTypes /\ CallShape /\ SavedStubs /\ Goals
  BY InvParts
<1>2. op.at = "save" /\ op.todo = <<>>
  BY WritingHeader
<1>3. header' = [header EXCEPT ![p] = t] /\ op' = Idle /\ content' = content
  BY DEF WriteHeader, NewHeader, Return, Put
<1>4. header'[p] = t /\ \A q \in Ports : q # p => header'[q] = header[q]
  BY <1>1, <1>3 DEF TypeOK
<1>5. \A q \in Ports : q # p => View(q)' = View(q)
  BY <1>3, <1>4, PortKept
<1>6. h \in Seq(Entry) /\ op.index \in 0..Len(h) /\ content[p] \in Contents
  BY <1>1, TypesOf DEF Goals, AddGoal, OpTypes
<1>7. e \in Entry /\ e.dir \in Names /\ content[p][e.dir] = e.predicates /\ e.predicates \in Stubs
  <2>1. 1 \in 1..Len(op.made)
    BY <1>1, <1>2 DEF Goals, AddGoal
  <2>2. e \in Entry /\ e.dir \in Made
    BY <1>1, <2>1, MadeIs
  <2>3. e.dir # NoDir /\ content[p][e.dir] = e.predicates
    BY <1>1, <1>2, <2>1, <2>2 DEF SavedStubs
  <2>4. QED
    BY <2>2, <2>3 DEF Entry
<1>8. Taking = {} /\ Taking' = {}
  BY <1>2, <1>3, TakingIdle DEF Taking, StepInv
<1>9. View(p)' = GetImposter(t, content[p])
  BY <1>3, <1>4 DEF View
<1>10. t \in Seq(Entry) /\ t # None
  <2> HIDE DEF h, e
  <2>1. t \in Seq(Entry)
    BY <1>6, <1>7, EntryAdded
  <2>2. QED
    BY <2>1, Distinct
<1>11. v \in Views /\ v # None /\ View(p)' \in Views \ {None}
  <2> HIDE DEF t
  <2>1. QED
    BY <1>6, <1>9, <1>10, ReadCases, Distinct DEF View
<1>12. CASE Intact(v)
  <2>1. /\ v \in Seq(Loaded) /\ Len(v) = Len(h)
        /\ GetImposter(t, content[p]) = Added(v, op.index, Whole(e.predicates))
    <3>1. Intact(GetImposter(h, content[p]))
      BY <1>12 DEF View
    <3>2. \A i \in 1..Len(h) : Readable(content[p], h[i])
      BY <1>6, <3>1, ReadCases
    <3>3. v \in Seq(Loaded) /\ Len(v) = Len(h)
      BY <1>6, <3>2, ReadAll DEF View
    <3> HIDE DEF h, e
    <3>4. GetImposter(t, content[p]) = Added(GetImposter(h, content[p]), op.index, Whole(e.predicates))
      BY <1>6, <1>7, <3>1, ReadAdded
    <3>5. QED
      BY <3>3, <3>4 DEF View, h
  <2>2. View(p)' = Repository!Put(Imposters[p], op.index, e.predicates)
    BY <1>9, <1>12, <2>1, SeesView, SameOperators DEF Added, Repository!Put, Repository!Read, Whole
  <2>3. op.index \in 0..Len(Imposters[p]) /\ Repository!Readable(p)
    BY <1>6, <1>12, <2>1, SeesView DEF Repository!Readable, Intact
  <2>4. Repository!AddStub(p)
    BY <1>5, <1>7, <1>8, <2>2, <2>3, OneChanges
       DEF CallGoes, Repository!AddStub, Repository!Continues, Repository!Becomes
  <2>5. QED
    BY <2>4 DEF Allowed, Repository!ContractNext
<1>13. CASE ~Intact(v)
  <2>1. v = Broken
    BY <1>11, <1>13 DEF Intact
  <2>2. PICK i \in 1..Len(h) : ~Readable(content[p], h[i])
    <3>1. GetImposter(h, content[p]) = Broken /\ h # None
      BY <1>6, <2>1, Distinct DEF View
    <3>2. QED
      BY <1>6, <3>1, BrokenHas
  <2>3. \E j \in 1..Len(t) : t[j] = h[i]
    <3> DEFINE k == op.index
    <3>1. k \in 0..Len(h) /\ h \in Seq(Entry) /\ e \in Entry /\ i \in 1..Len(h) /\ t = Put(h, k, e)
      BY <1>6, <1>7
    <3> HIDE DEF h, e, t, k
    <3>2. IsPut(Entry, h, k, e, t)
      BY <3>1, PutIs
    <3>3. /\ Len(t) = Len(h) + 1 /\ Len(h) \in Nat
          /\ \A j \in 1..Len(h) + 1 : t[j] = IF j <= k THEN h[j] ELSE IF j = k + 1 THEN e ELSE h[j - 1]
      BY <3>2 DEF IsPut
    <3>4. CASE i <= k
      BY <3>1, <3>3, <3>4
    <3>5. CASE i > k
      <4>1. i + 1 \in 1..Len(h) + 1 /\ ~(i + 1 <= k) /\ i + 1 # k + 1 /\ (i + 1) - 1 = i
        BY <3>1, <3>3, <3>5
      <4>2. t[i + 1] = h[i]
        BY <3>3, <4>1
      <4>3. QED
        BY <3>3, <4>1, <4>2
    <3>6. QED
      BY <3>1, <3>4, <3>5
  <2>4. View(p)' = Broken
    <3> HIDE DEF t, h
    <3>1. \E j \in 1..Len(t) : ~Readable(content[p], t[j])
      BY <2>2, <2>3
    <3>2. QED
      BY <1>6, <1>9, <1>10, <3>1, ReadCases
  <2>5. View(p)' = View(p)
    BY <2>1, <2>4
  <2>6. QED
    BY <1>5, <1>8, <2>5, OneChanges, Unseen
<1>14. QED
  BY <1>12, <1>13

\* ... and a header with one entry less.
LEMMA UnstubAllowed ==
  ASSUME FsInv, StepInv, CallGoes, NEW p \in Ports, p = op.port, WriteHeader, op.call = "DeleteStub"
  PROVE  Allowed
<1> DEFINE h == header[p]
           t == RemoveAt(h, op.index + 1)
           v == View(p)
<1>1. TypeOK /\ OpTypes /\ CallShape /\ Goals
  BY InvParts
<1>2. op.at = "save"
  BY WritingHeader
<1>3. header' = [header EXCEPT ![p] = t] /\ op' = [op EXCEPT !.at = "remove"] /\ content' = content
  BY DEF WriteHeader, NewHeader
<1>4. header'[p] = t /\ \A q \in Ports : q # p => header'[q] = header[q]
  BY <1>1, <1>3 DEF TypeOK
<1>5. \A q \in Ports : q # p => View(q)' = View(q)
  BY <1>3, <1>4, PortKept
<1>6. /\ h \in Seq(Entry) /\ op.index \in 0..Len(h) - 1 /\ content[p] \in Contents
      /\ h[op.index + 1].dir = NoDir \/ ~op.whole
  BY <1>1, <1>2, TypesOf DEF Goals, DeleteGoal, OpTypes
<1>7. Taking' = Taking
  BY <1>1, <1>3, TakingKept DEF TypeOK, Op
<1>8. Taking = IF op.whole THEN {[port |-> p, goal |-> None]} ELSE {}
  BY DEF Taking
<1>9. View(p)' = GetImposter(t, content[p])
  BY <1>3, <1>4 DEF View
<1>10. t \in Seq(Entry) /\ t # None
  <2>1. t \in Seq(Entry)
    <3> DEFINE i == op.index
    <3>1. t = RemoveAt(h, i + 1) /\ i \in 0..Len(h) - 1 /\ h \in Seq(Entry)
      BY <1>6
    <3> HIDE DEF h, t, i
    <3>2. QED
      BY <3>1, EntryRemoved
  <2>2. QED
    BY <2>1, Distinct
<1>11. v \in Views /\ v # None /\ View(p)' \in Views \ {None}
  <2> HIDE DEF t
  <2>1. QED
    BY <1>6, <1>9, <1>10, ReadCases, Distinct DEF View
<1>12. CASE Intact(v)
  <2>1. Intact(GetImposter(h, content[p]))
    BY <1>12 DEF View
  <2>2. \A i \in 1..Len(h) : Readable(content[p], h[i])
    BY <1>6, <2>1, ReadCases
  <2>3. v \in Seq(Loaded) /\ Len(v) = Len(h)
    BY <1>6, <2>2, ReadAll DEF View
  <2>4. Taking = {}
    BY <1>6, <1>8, <2>2 DEF Readable
  <2>5. GetImposter(t, content[p]) = Removed(v, op.index)
    <3> DEFINE i == op.index
    <3>1. t = RemoveAt(h, i + 1) /\ i \in 0..Len(h) - 1 /\ h \in Seq(Entry) /\ v = GetImposter(h, content[p])
      BY <1>6 DEF View
    <3> HIDE DEF h, t, i, v
    <3>2. GetImposter(t, content[p]) = Removed(v, i)
      BY <1>6, <2>1, <3>1, ReadRemoved
    <3>3. QED
      BY <3>2 DEF i
  <2>6. op.index \in 0..Len(v) - 1 /\ View(p)' = RemoveAt(v, op.index + 1)
    BY <1>6, <1>9, <1>12, <2>3, <2>5 DEF Removed
  <2>7. Repository!DeleteStub(p)
    <3> HIDE DEF v, t, h
    <3>1. Imposters[p] = v
      BY SeesView DEF v
    <3>2. Repository!Readable(p)
      BY <1>12, <3>1 DEF Repository!Readable, Intact
    <3>3. QED
      BY <1>5, <1>7, <2>4, <2>6, <3>1, <3>2, OneChanges, SameOperators
         DEF CallGoes, Repository!DeleteStub, Repository!Continues, Repository!Becomes
  <2>8. QED
    BY <2>7 DEF Allowed, Repository!ContractNext
<1>13. CASE ~Intact(v)
  BY <1>5, <1>7, <1>8, <1>11, <1>13, SalvageAllowed DEF Intact
<1>14. QED
  BY <1>12, <1>13

\* DeleteAll goes from one imposter to the next.
LEMMA NextAllowed ==
  ASSUME FsInv, StepInv, CallGoes, DeleteAllNext
  PROVE  Allowed
<1>1. TypeOK /\ OpTypes /\ CallShape
  BY InvParts
<1>2. op.call = "DeleteAll" /\ Taking = {}
  BY <1>1, IdleIs DEF DeleteAllNext, CallShape, Removing, StepInv, OpTypes, Calls, Taking
<1>3. header' = header /\ content' = content
  BY DEF DeleteAllNext
<1>4. ASSUME NEW p \in op.ports,
             op' = [op EXCEPT !.at = "remove", !.port = p, !.whole = TRUE, !.names = Names, !.ports = @ \ {p}]
      PROVE  Allowed
  <2>1. op'.call = "DeleteAll" /\ op'.port = p /\ op'.whole /\ p \in Ports
    BY <1>1, <1>2, <1>4 DEF TypeOK, Op, OpTypes
  <2>2. Taking' = {[port |-> p, goal |-> None]}
    BY <2>1 DEF Taking
  <2>3. Repository!Take(p)
    BY <1>2, <1>3, <2>1, <2>2, NoneChanges, Distinct DEF Repository!Take
  <2>4. QED
    BY <2>1, <2>3 DEF Allowed, Repository!ContractNext
<1>5. ASSUME NEW p \in op.ports, op' = [op EXCEPT !.ports = @ \ {p}] PROVE Allowed
  <2>1. op'.call = op.call /\ op'.port = op.port /\ op'.goal = op.goal /\ op'.whole = op.whole
    BY <1>1, <1>5 DEF TypeOK, Op
  <2>2. QED
    BY <1>3, <2>1, TakingKept, NoneChanges, Unseen, Distinct
<1>6. CASE op' = Idle
  BY <1>2, <1>3, <1>6, TakingIdle, NoneChanges, Unseen, Distinct
<1>7. QED
  BY <1>4, <1>5, <1>6 DEF DeleteAllNext

\* A file has gone that the header names: the imposter cannot be read.
LEMMA StubFileGone ==
  ASSUME FsInv, NEW p \in Ports, p = op.port, NEW n \in op.names, RemoveFile, header' = header,
         content' = [content EXCEPT ![p][n] = IF @ = Partial THEN None ELSE Partial]
  PROVE  View(p)' = IF n \in Named(p) THEN Broken ELSE View(p)
<1>1. TypeOK /\ OpTypes
  BY InvParts
<1>2. n \in Names /\ header[p] \in Seq(Entry) \cup {None} /\ content[p] \in Contents
  BY <1>1, TypesOf DEF OpTypes
<1>3. /\ content'[p] = [content[p] EXCEPT ![n] = IF @ = Partial THEN None ELSE Partial]
      /\ content'[p][n] \in {None, Partial} /\ \A m \in Names : m # n => content'[p][m] = content[p][m]
  BY <1>1, <1>2 DEF TypeOK, Contents
<1>4. CASE n \notin Named(p)
  BY <1>1, <1>3, <1>4, ViewKept
<1>5. CASE n \in Named(p)
  <2>1. content'[p] \in Contents
    BY <1>2, <1>3 DEF Contents
  <2>2. header[p] # None /\ \E i \in 1..Len(header[p]) : header[p][i].dir = n
    BY <1>5 DEF Named, NamedBy
  <2>3. \E i \in 1..Len(header[p]) : ~Readable(content'[p], header[p][i])
    BY <1>3, <2>2, Distinct DEF Readable
  <2>4. GetImposter(header[p], content'[p]) = Broken
    BY <1>2, <2>1, <2>2, <2>3, ReadCases
  <2>5. QED
    BY <1>5, <2>4 DEF View
<1>6. QED
  BY <1>4, <1>5

LEMMA RemoveFileAllowed ==
  ASSUME FsInv, StepInv, CallGoes, NEW p \in Ports, p = op.port, RemoveFile
  PROVE  Allowed
<1>1. TypeOK /\ OpTypes /\ CallShape
  BY InvParts
<1>2. op.at = "remove" /\ op' = op
  BY DEF RemoveFile
<1>3. /\ op.call \in {"Add", "UpdateStubs", "DeleteStub", "Delete", "DeleteAll"}
      /\ op.call \in {"Add", "Delete", "DeleteAll"} => op.whole
      /\ op.call = "UpdateStubs" => ~op.whole
  BY <1>2, RemovingFiles
<1>4. Taking' = Taking
  BY <1>2, TakingKept
<1>5. ASSUME NEW q \in Ports, q # p PROVE View(q)' = View(q)
  <2>1. header'[q] = header[q] /\ content'[q] = content[q]
    BY <1>1, <1>5 DEF RemoveFile, TypeOK
  <2>2. QED
    BY <2>1, PortKept
<1>6. ASSUME op.whole, header[p] # None, header' = [header EXCEPT ![p] = None], content' = content
      PROVE  Allowed
  <2>1. View(p)' = None /\ View(p) # None
    BY <1>1, <1>6, TypesOf, ReadCases DEF View, GetImposter, TypeOK
  <2>2. Taking = {[port |-> p, goal |-> None]}
    BY <1>3, <1>6 DEF Taking
  <2>3. Repository!Lose
    BY <1>2, <1>4, <1>5, <2>1, <2>2, OneChanges, SeesView DEF Repository!Lose, Repository!Becomes
  <2>4. QED
    BY <2>3 DEF Allowed, Repository!ContractNext
<1>7. ASSUME NEW n \in op.names, header' = header,
             content' = [content EXCEPT ![p][n] = IF @ = Partial THEN None ELSE Partial]
      PROVE  Allowed
  <2>1. CASE n \notin Named(p)
    <3>1. View(p)' = View(p)
      BY <1>7, <2>1, StubFileGone
    <3>2. QED
      BY <1>4, <1>5, <3>1, OneChanges, Unseen
  <2>2. CASE n \in Named(p)
    <3>1. View(p)' = Broken
      BY <1>7, <2>2, StubFileGone
    <3>2. header[p] # None /\ View(p) # None
      BY <1>1, <2>2, TypesOf, ReadCases DEF Named, NamedBy, View
    <3>3. \E g : Taking = {[port |-> p, goal |-> g]}
      <4>1. op.call = "UpdateStubs" \/ op.whole
        BY <1>2, <1>3, <2>2 DEF StepInv
      <4>2. QED
        BY <4>1 DEF Taking
    <3>4. Repository!Lose
      BY <1>2, <1>4, <1>5, <3>1, <3>2, <3>3, OneChanges, SeesView DEF Repository!Lose, Repository!Becomes
    <3>5. QED
      BY <3>4 DEF Allowed, Repository!ContractNext
  <2>3. QED
    BY <2>1, <2>2
<1>8. QED
  BY <1>6, <1>7 DEF RemoveFile

LEMMA RemoveDoneAllowed ==
  ASSUME FsInv, StepInv, CallGoes, NEW p \in Ports, p = op.port, RemoveDone
  PROVE  Allowed
<1>1. TypeOK /\ OpTypes /\ CallShape
  BY InvParts
<1>2. op.at = "remove" /\ header' = header /\ content' = content
  BY DEF RemoveDone
<1>3. Imposters' = Imposters /\ View(p)' = View(p)
  BY <1>2, NoneChanges
<1>4. /\ op.call \in {"Add", "UpdateStubs", "DeleteStub", "Delete", "DeleteAll"}
      /\ op.call \in {"Add", "Delete", "DeleteAll"} => op.whole
      /\ op.call = "UpdateStubs" => ~op.whole
  BY <1>2, RemovingFiles
<1>5. CASE op.call = "UpdateStubs"
  <2>1. op'.call = op.call /\ op'.port = op.port /\ op'.goal = op.goal /\ op'.whole = op.whole
    BY <1>1, <1>5 DEF RemoveDone, TypeOK, Op
  <2>2. QED
    BY <1>3, <2>1, TakingKept, Unseen
<1>6. CASE op.call # "UpdateStubs"
  <2>1. Taking' = {}
    <3>1. \/ op' = Idle
          \/ op'.call = "DeleteAll" /\ op'.at = "next" /\ ~op'.whole
      BY <1>1, <1>6, Returned DEF RemoveDone
    <3>2. QED
      BY <3>1, TakingIdle DEF Taking
  <2>2. CASE op.whole
    <3>1. Taking = {[port |-> p, goal |-> None]}
      BY <1>6, <2>2 DEF Taking
    <3>2. header[p] = None
      BY <2>2 DEF RemoveDone, Gone
    <3>3. View(p)' = None
      BY <1>3, <3>2 DEF View, GetImposter
    <3>4. Repository!Finish
      BY <1>2, <1>4, <2>1, <3>1, <3>3, OneChanges, NoneChanges
         DEF CallGoes, Repository!Finish, Repository!Continues, Repository!Becomes
    <3>5. QED
      BY <3>4 DEF Allowed, Repository!ContractNext
  <2>3. CASE ~op.whole
    <3>1. Taking = {}
      BY <1>6, <2>3 DEF Taking
    <3>2. QED
      BY <1>3, <2>1, <3>1, Unseen
  <2>4. QED
    BY <2>2, <2>3
<1>7. QED
  BY <1>5, <1>6

\* A crash, or a failed operation.
LEMMA FaultAllowed ==
  ASSUME FsInv, StepInv, CallGoes, Crash \/ WriteFails
  PROVE  Allowed
<1>1. TypeOK /\ OpTypes /\ CallShape
  BY InvParts
<1>2. header' = header /\ content' = content /\ op.port \in Ports
  BY <1>1 DEF Crash, WriteFails, OpTypes
<1>3. Imposters' = Imposters
  BY <1>2, NoneChanges
<1>4. CASE op' = Idle
  <2>1. Taking' = {}
    BY <1>4, TakingIdle
  <2>2. CASE Taking = {}
    BY <1>3, <2>1, <2>2, Unseen
  <2>3. CASE Taking # {}
    <3>1. Repository!CutShort
      BY <1>3, <1>4, <2>1, <2>3, IdleIs DEF Repository!CutShort
    <3>2. QED
      BY <3>1 DEF Allowed, Repository!ContractNext
  <2>4. QED
    BY <2>2, <2>3
<1>5. CASE op' # Idle
  <2>1. /\ op.at = "save" /\ op.call = "Add"
        /\ op' = [op EXCEPT !.at = "remove", !.todo = <<>>, !.saving = NoDir, !.whole = TRUE,
                            !.names = Names, !.goal = None]
    BY <1>5 DEF Crash, WriteFails, CutShort
  <2>2. Taking = {}
    BY <2>1 DEF Taking, StepInv
  <2>3. op'.call = "Add" /\ op'.port = op.port /\ op'.whole
    BY <1>1, <2>1 DEF TypeOK, Op
  <2>4. Taking' = {[port |-> op.port, goal |-> None]}
    BY <2>3 DEF Taking
  <2>5. Repository!Take(op.port)
    BY <1>3, <2>1, <2>2, <2>3, <2>4 DEF Repository!Take
  <2>6. QED
    BY <1>2, <2>5 DEF Allowed, Repository!ContractNext
<1>6. QED
  BY <1>4, <1>5

LEMMA ContractSteps == FsInv /\ StepInv /\ [Next]_vars => [Repository!ContractNext]_(Repository!contractVars)
<1> SUFFICES ASSUME FsInv, StepInv, [Next]_vars PROVE Allowed
  BY DEF Allowed
<1>0. CallGoes
  BY CallIsOwn
<1>1. PICK p \in Ports : p = op.port
  BY InvParts DEF OpTypes
<1>2. CASE Call
  BY <1>0, <1>2, CallAllowed
<1>3. CASE SaveDir \/ SaveMeta
  BY <1>0, <1>3, SaveAllowed
<1>4. CASE WriteHeader
  <2>1. op.call \in {"Add", "UpdateStubs", "AddStub", "DeleteStub"}
    BY <1>1, <1>4, WritingHeader
  <2>2. QED
    BY <1>0, <1>1, <1>4, <2>1, ListAllowed, StubAllowed, UnstubAllowed
<1>5. CASE DeleteAllNext
  BY <1>0, <1>5, NextAllowed
<1>6. CASE RemoveFile
  BY <1>0, <1>1, <1>6, RemoveFileAllowed
<1>7. CASE RemoveDone
  BY <1>0, <1>1, <1>7, RemoveDoneAllowed
<1>8. CASE Crash \/ WriteFails
  BY <1>0, <1>8, FaultAllowed
<1>9. CASE UNCHANGED vars
  <2>1. op' = op /\ header' = header /\ content' = content
    BY <1>9 DEF vars
  <2>2. QED
    BY <1>0, <2>1, TakingKept, NoneChanges, Unseen, Distinct
<1>10. QED
  BY <1>2, <1>3, <1>4, <1>5, <1>6, <1>7, <1>8, <1>9 DEF Next, Step

\* Whatever crashes and whatever fails, file operation by file operation, readers
\* find what the contract of a repository says.
THEOREM FilesystemKeepsContract == Spec => KeepsContract
<1>1. Init => Repository!ContractInit
  BY IdleIs DEF Init, Repository!ContractInit, Imposters, Taking, View, GetImposter
<1>2. Init => FsInv /\ StepInv
  BY FsInvInit, StepInvInit
<1>3. FsInv /\ StepInv /\ [Next]_vars => FsInv' /\ StepInv'
  BY FsInvNext, StepInvNext
<1>4. QED
  BY <1>1, <1>2, <1>3, ContractSteps, PTL DEF Spec, KeepsContract, Repository!ContractSpec
=============================================================================
