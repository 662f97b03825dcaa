-------------------------- MODULE HttpImposterProofs --------------------------
(***************************************************************************)
(* Recorded replies are never duplicated, lost or given to other requests, *)
(* for any number of requests, stubs and replies, while nobody edits.      *)
(***************************************************************************)
EXTENDS HttpImposter, FiniteSetTheorems, TLAPS

-----------------------------------------------------------------------------
(* Lists                                                                    *)

\* Every non-empty set of natural numbers has a least element.
LEMMA LeastNatural ==
  ASSUME NEW T \in SUBSET Nat, T # {}
  PROVE  \E m \in T : \A n \in T : m <= n
<1> DEFINE R == OpToRel(<, Nat)
<1>1. IsWellFoundedOn(R, Nat)
  BY NatLessThanWellFounded
<1>2. PICK m \in T : \A n \in T : <<n, m>> \notin R
  <2> HIDE DEF R
  <2>1. QED
    BY <1>1, WFMin
<1>3. ASSUME NEW n \in T PROVE m <= n
  <2>1. <<n, m>> \notin {ss \in Nat \X Nat : ss[1] < ss[2]}
    BY <1>2 DEF OpToRel
  <2>2. QED
    BY <2>1
<1>4. QED
  BY <1>3

LEMMA ElementOf ==
  ASSUME NEW S, NEW q \in Seq(S), NEW n \in 1..Len(q)
  PROVE  q[n] \in S
OBVIOUS

\* The operators on lists, position by position.
LEMMA ConcatIs ==
  ASSUME NEW S, NEW a \in Seq(S), NEW b \in Seq(S)
  PROVE  /\ a \o b \in Seq(S)
         /\ Len(a \o b) = Len(a) + Len(b)
         /\ \A i \in 1..Len(a) : (a \o b)[i] = a[i]
         /\ \A i \in Len(a) + 1..Len(a) + Len(b) : (a \o b)[i] = b[i - Len(a)]
OBVIOUS

LEMMA InsertAtIs ==
  ASSUME NEW S, NEW s \in Seq(S), NEW x \in S, NEW p \in 1..Len(s) + 1
  PROVE  /\ InsertAt(s, p, x) \in Seq(S)
         /\ Len(InsertAt(s, p, x)) = Len(s) + 1
         /\ \A i \in 1..Len(s) + 1 :
              InsertAt(s, p, x)[i] = IF i < p THEN s[i] ELSE IF i = p THEN x ELSE s[i - 1]
<1> DEFINE a == SubSeq(s, 1, p - 1)
           b == SubSeq(s, p, Len(s))
<1>1. a \in Seq(S) /\ Len(a) = p - 1 /\ \A i \in 1..p - 1 : a[i] = s[i]
  OBVIOUS
<1>2. b \in Seq(S) /\ Len(b) = Len(s) - p + 1 /\ \A i \in 1..Len(s) - p + 1 : b[i] = s[p + i - 1]
  OBVIOUS
<1>3. InsertAt(s, p, x) = (a \o <<x>>) \o b
  BY DEF InsertAt
<1> HIDE DEF a, b
<1>4. a \o <<x>> \in Seq(S) /\ Len(a \o <<x>>) = p
      /\ \A i \in 1..p : (a \o <<x>>)[i] = IF i < p THEN s[i] ELSE x
  BY <1>1
<1> DEFINE c == a \o <<x>>
<1> HIDE DEF c
<1>5. c \o b \in Seq(S) /\ Len(c \o b) = Len(s) + 1
      /\ \A i \in 1..Len(s) + 1 : (c \o b)[i] = IF i < p THEN s[i] ELSE IF i = p THEN x ELSE s[i - 1]
  <2>0. c \in Seq(S) /\ Len(c) = p /\ \A i \in 1..p : c[i] = IF i < p THEN s[i] ELSE x
    BY <1>4 DEF c
  <2>1. /\ c \o b \in Seq(S) /\ Len(c \o b) = p + Len(b)
        /\ \A i \in 1..p : (c \o b)[i] = c[i]
        /\ \A i \in p + 1..p + Len(b) : (c \o b)[i] = b[i - p]
    BY <1>2, <2>0, ConcatIs, SMTT(60)
  <2>2. ASSUME NEW i \in 1..Len(s) + 1, i > p PROVE (c \o b)[i] = s[i - 1]
    <3>1. i \in p + 1..p + Len(b) /\ i - p \in 1..Len(s) - p + 1 /\ p + (i - p) - 1 = i - 1
      BY <1>2, <2>2
    <3>2. QED
      BY <1>2, <2>1, <3>1
  <2>3. Len(s) \in Nat
    OBVIOUS
  <2>4. QED
    BY <1>2, <2>0, <2>1, <2>2, <2>3
<1>6. QED
  BY <1>3, <1>5 DEF c

-----------------------------------------------------------------------------
(* Lists of stubs and the replies in them                                   *)

\* A list stays good when the origin replies and when handlers let go of replies.
LEMMA GoodListLater ==
  ASSUME NEW L, NEW rs, NEW qs, NEW held, NEW taken,
         GoodList(L, rs, held),
         Len(rs) \in Nat, Len(qs) \in Nat, Len(rs) <= Len(qs),
         \A n \in 1..Len(rs) : qs[n] = rs[n],
         \A n \in taken : n \in held \/ n \notin 1..Len(rs)
  PROVE  GoodList(L, qs, taken)
<1>1. Known(L, qs, taken)
  BY SMTT(60) DEF GoodList, Known, KnownReply
<1>2. QED
  BY <1>1 DEF GoodList

\* The new stub of a recording, inserted at position p.
LEMMA GoodListInsert ==
  ASSUME NEW L, NEW rs, NEW held, NEW n \in held, NEW x \in Stub, NEW p, NEW t \in Seq(Stub),
         GoodList(L, rs, held),
         n \in 1..Len(rs),
         x.responses = <<Saved(n)>>, x.on = rs[n].request,
         p \in 1..Len(L) + 1,
         Len(t) = Len(L) + 1,
         \A i \in 1..Len(L) + 1 : t[i] = IF i < p THEN L[i] ELSE IF i = p THEN x ELSE L[i - 1]
  PROVE  GoodList(t, rs, held \ {n})
<1> DEFINE f == [i \in 1..Len(t) |-> IF i < p THEN i ELSE i - 1]
<1>1. L \in Seq(Stub) /\ OnceOnly(L) /\ Known(L, rs, held) /\ Len(L) \in Nat
  BY DEF GoodList
<1>2. \A i \in 1..Len(t) : i # p => f[i] \in 1..Len(L) /\ t[i] = L[f[i]]
  BY <1>1
<1>3. \A i, j \in 1..Len(t) : i # p /\ j # p /\ f[i] = f[j] => i = j
  BY <1>1
<1>4. t[p] = x /\ p \in 1..Len(t)
  BY <1>1
<1>5. Saved(n).kind = "saved" /\ Saved(n).id = n
  BY DEF Saved
<1>6. Len(x.responses) = 1 /\ x.responses[1] = Saved(n)
  OBVIOUS
<1> HIDE DEF f
<1>7. ASSUME NEW i \in 1..Len(t), i # p, NEW k \in 1..Len(t[i].responses)
      PROVE  KnownReply(t[i].responses[k], t[i].on, rs, held)
  BY <1>1, <1>2, <1>7 DEF Known
<1>8. Known(t, rs, held \ {n})
  <2>1. ASSUME NEW k \in 1..Len(t[p].responses)
        PROVE  KnownReply(t[p].responses[k], t[p].on, rs, held \ {n})
    BY <1>4, <1>5, <1>6 DEF KnownReply
  <2>2. ASSUME NEW i \in 1..Len(t), i # p, NEW k \in 1..Len(t[i].responses)
        PROVE  KnownReply(t[i].responses[k], t[i].on, rs, held \ {n})
    BY <1>7, <2>2 DEF KnownReply
  <2>3. QED
    BY <2>1, <2>2 DEF Known
<1>9. ASSUME NEW i \in 1..Len(t), NEW j \in 1..Len(t),
             NEW k \in 1..Len(t[i].responses), NEW l \in 1..Len(t[j].responses),
             t[i].responses[k].kind = "saved", t[i].responses[k] = t[j].responses[l]
      PROVE  i = j /\ k = l
  <2>1. CASE i = p /\ j = p
    <3>1. k \in 1..1 /\ l \in 1..1
      BY <1>4, <1>6, <1>9, <2>1
    <3>2. QED
      BY <2>1, <3>1
  <2>2. CASE i = p /\ j # p
    BY <1>4, <1>5, <1>6, <1>7, <1>9, <2>2 DEF KnownReply
  <2>3. CASE i # p /\ j = p
    BY <1>4, <1>5, <1>6, <1>7, <1>9, <2>3 DEF KnownReply
  <2>4. CASE i # p /\ j # p
    <3>0. f[i] \in 1..Len(L) /\ t[i] = L[f[i]] /\ f[j] \in 1..Len(L) /\ t[j] = L[f[j]]
      BY <1>2, <2>4
    <3>1. f[i] = f[j] /\ k = l
      <4>1. /\ k \in 1..Len(L[f[i]].responses) /\ l \in 1..Len(L[f[j]].responses)
            /\ L[f[i]].responses[k].kind = "saved" /\ L[f[i]].responses[k] = L[f[j]].responses[l]
        BY <1>9, <3>0
      <4>2. OnceOnly(L)
        BY <1>1
      <4>3. QED
        BY <3>0, <4>1, <4>2 DEF OnceOnly
    <3>2. QED
      BY <1>3, <2>4, <3>1
  <2>5. QED
    BY <2>1, <2>2, <2>3, <2>4
<1>10. OnceOnly(t)
  BY <1>9 DEF OnceOnly
<1>11. QED
  BY <1>8, <1>10 DEF GoodList

\* The response of a recording, appended to the stub at position p.
LEMMA GoodListExtend ==
  ASSUME NEW L, NEW rs, NEW held, NEW n \in held, NEW p, NEW t \in Seq(Stub),
         GoodList(L, rs, held),
         n \in 1..Len(rs), rs[n].mode # "proxyOnce",
         p \in 1..Len(L),
         Len(t) = Len(L),
         \A i \in 1..Len(L) : i # p => t[i] = L[i],
         t[p].on = L[p].on, t[p].responses = Append(L[p].responses, Saved(n))
  PROVE  GoodList(t, rs, held \ {n})
<1>1. L \in Seq(Stub) /\ OnceOnly(L) /\ Known(L, rs, held) /\ Len(L) \in Nat
  BY DEF GoodList
<1>2. L[p].responses \in Seq(Response)
  <2>1. L[p] \in Stub
    BY <1>1
  <2>2. QED
    BY <2>1 DEF Stub
<1> DEFINE m == Len(L[p].responses)
<1>3. /\ m \in Nat /\ Len(t[p].responses) = m + 1
      /\ \A k \in 1..m : t[p].responses[k] = L[p].responses[k]
      /\ t[p].responses[m + 1] = Saved(n)
  BY <1>2
<1>4. Saved(n).kind = "saved" /\ Saved(n).id = n
  BY DEF Saved
<1> DEFINE New(i, k) == i = p /\ k = m + 1
<1> HIDE DEF m
<1>5. ASSUME NEW i \in 1..Len(t), NEW k \in 1..Len(t[i].responses), ~New(i, k)
      PROVE  /\ i \in 1..Len(L) /\ k \in 1..Len(L[i].responses)
             /\ t[i].responses[k] = L[i].responses[k] /\ t[i].on = L[i].on
  <2>1. CASE i = p
    <3>1. k \in 1..m
      BY <1>3, <1>5, <2>1
    <3>2. QED
      BY <1>3, <2>1, <3>1 DEF m
  <2>2. CASE i # p
    BY <2>2
  <2>3. QED
    BY <2>1, <2>2
<1>6. ASSUME NEW i \in 1..Len(t), NEW k \in 1..Len(t[i].responses), ~New(i, k)
      PROVE  KnownReply(t[i].responses[k], t[i].on, rs, held)
  BY <1>1, <1>5, <1>6 DEF Known
<1>7. \A i \in 1..Len(t) : \A k \in 1..Len(t[i].responses) : New(i, k) => t[i].responses[k] = Saved(n)
  BY <1>3
<1>8. Known(t, rs, held \ {n})
  <2>1. ASSUME NEW i \in 1..Len(t), NEW k \in 1..Len(t[i].responses)
        PROVE  KnownReply(t[i].responses[k], t[i].on, rs, held \ {n})
    <3>1. CASE New(i, k)
      BY <1>4, <1>7, <3>1 DEF KnownReply
    <3>2. CASE ~New(i, k)
      BY <1>6, <2>1, <3>2 DEF KnownReply
    <3>3. QED
      BY <3>1, <3>2
  <2>2. QED
    BY <2>1 DEF Known
<1>9. ASSUME NEW i \in 1..Len(t), NEW j \in 1..Len(t),
             NEW k \in 1..Len(t[i].responses), NEW l \in 1..Len(t[j].responses),
             t[i].responses[k].kind = "saved", t[i].responses[k] = t[j].responses[l]
      PROVE  i = j /\ k = l
  <2>1. CASE New(i, k) /\ New(j, l)
    BY <2>1
  <2>2. CASE New(i, k) /\ ~New(j, l)
    BY <1>4, <1>6, <1>7, <1>9, <2>2, SMTT(60) DEF KnownReply
  <2>3. CASE ~New(i, k) /\ New(j, l)
    BY <1>4, <1>6, <1>7, <1>9, <2>3, SMTT(60) DEF KnownReply
  <2>4. CASE ~New(i, k) /\ ~New(j, l)
    BY <1>1, <1>5, <1>9, <2>4, SMTT(60) DEF OnceOnly
  <2>5. QED
    BY <2>1, <2>2, <2>3, <2>4
<1>10. OnceOnly(t)
  BY <1>9 DEF OnceOnly
<1>11. QED
  BY <1>8, <1>10 DEF GoodList

\* What users write holds no replies.
LEMMA ConfiguredHoldsNoReply ==
  ASSUME NEW x \in ConfiguredStub
  PROVE  /\ x \in Stub
         /\ \A k \in 1..Len(x.responses) : x.responses[k].kind # "saved"
<1>1. Configured \subseteq Response
  BY DEF Configured, Response
<1>2. x.responses \in Seq(Configured)
  BY DEF ConfiguredStub
<1>3. \A k \in 1..Len(x.responses) : x.responses[k].kind # "saved"
  <2>1. \A k \in 1..Len(x.responses) : x.responses[k] \in Configured
    BY <1>2
  <2>2. \A y \in Configured : y.kind # "saved"
    BY DEF Configured, Modes
  <2>3. QED
    BY <2>1, <2>2
<1>4. x.responses \in Seq(Response)
  BY <1>1, <1>2
<1>5. x \in Stub
  BY <1>4 DEF ConfiguredStub, Stub
<1>6. QED
  BY <1>3, <1>5

\* List t is list L with x inserted at position p; with reply n appended to the
\* responses of the stub at position p.
Inserted(L, p, x, t) ==
  /\ p \in 1..Len(L) + 1
  /\ t \in Seq(Stub) /\ Len(t) = Len(L) + 1
  /\ \A i \in 1..Len(L) + 1 : t[i] = IF i < p THEN L[i] ELSE IF i = p THEN x ELSE L[i - 1]

Extended(L, p, n, t) ==
  /\ p \in 1..Len(L)
  /\ t \in Seq(Stub) /\ Len(t) = Len(L)
  /\ \A i \in 1..Len(L) : i # p => t[i] = L[i]
  /\ t[p].on = L[p].on /\ t[p].responses = Append(L[p].responses, Saved(n))

\* Where proxyOnce inserts: at the position of the proxy stub, or at the start.
OncePlace(L, i) == IF i \in 1..Len(L) THEN i ELSE 1

LEMMA InsertOnceIs ==
  ASSUME NEW s \in Seq(Stub), NEW x \in Stub, NEW i \in Nat
  PROVE  Inserted(s, OncePlace(s, i), x, InsertOnce(s, i, x))
<1>1. Len(s) \in Nat
  OBVIOUS
<1> DEFINE t == InsertOnce(s, i, x)
<1>2. CASE i \in 1..Len(s)
  <2>1. i \in 1..Len(s) + 1
    BY <1>1, <1>2
  <2>2. t = InsertAt(s, i, x) /\ OncePlace(s, i) = i
    BY <1>2 DEF InsertOnce, OncePlace
  <2> HIDE DEF t
  <2>3. /\ t \in Seq(Stub) /\ Len(t) = Len(s) + 1
        /\ \A j \in 1..Len(s) + 1 : t[j] = IF j < i THEN s[j] ELSE IF j = i THEN x ELSE s[j - 1]
    <3>1. /\ InsertAt(s, i, x) \in Seq(Stub)
          /\ Len(InsertAt(s, i, x)) = Len(s) + 1
          /\ \A j \in 1..Len(s) + 1 :
               InsertAt(s, i, x)[j] = IF j < i THEN s[j] ELSE IF j = i THEN x ELSE s[j - 1]
      BY <2>1, InsertAtIs, SMTT(60)
    <3>2. QED
      BY <2>2, <3>1
  <2>4. Inserted(s, i, x, t)
    BY <2>1, <2>3 DEF Inserted
  <2>5. QED
    BY <2>2, <2>4 DEF t
<1>3. CASE i \notin 1..Len(s)
  <2>1. t = <<x>> \o s /\ OncePlace(s, i) = 1
    BY <1>3 DEF InsertOnce, OncePlace
  <2>2. /\ <<x>> \o s \in Seq(Stub) /\ Len(<<x>> \o s) = 1 + Len(s)
        /\ (<<x>> \o s)[1] = x
        /\ \A j \in 2..Len(s) + 1 : (<<x>> \o s)[j] = s[j - 1]
    OBVIOUS
  <2> HIDE DEF t
  <2>3. 1 \in 1..Len(s) + 1
    BY <1>1
  <2>4. \A j \in 1..Len(s) + 1 : t[j] = IF j < 1 THEN s[j] ELSE IF j = 1 THEN x ELSE s[j - 1]
    BY <1>1, <2>1, <2>2
  <2>5. Inserted(s, 1, x, t)
    BY <1>1, <2>1, <2>2, <2>3, <2>4 DEF Inserted
  <2>6. QED
    BY <2>1, <2>5 DEF t
<1>4. QED
  BY <1>2, <1>3

-----------------------------------------------------------------------------
(* The invariant of the imposter at work                                    *)

\* The replies qs go on where the replies rs stop.
Continues(rs, qs) ==
  /\ Len(rs) \in Nat /\ Len(qs) \in Nat /\ Len(rs) <= Len(qs)
  /\ \A n \in 1..Len(rs) : qs[n] = rs[n]

HandlerTypes ==
  /\ pc \in [Handlers -> {"idle", "record", "match", "scan", "forward", "save", "write"}]
  /\ req \in [Handlers -> Requests]
  /\ scan \in [Handlers -> [next : Nat, len : Nat]]
  /\ match \in [Handlers -> [index : Nat, response : Response]]
  /\ reply \in [Handlers -> 0..Len(replies)]
  /\ base \in [Handlers -> Seq(Stub)]
  /\ answer \in [Handlers -> Response]
  /\ late \in [Handlers -> BOOLEAN]

ServerTypes ==
  /\ mu \in Handlers \cup {None, Stop}
  /\ listening \in BOOLEAN
  /\ stopPc \in {"ready", "waiting", "done", "timedOut"}

ReplyTypes ==
  /\ replies \in Seq([request : Requests, mode : Modes])
  /\ saved \subseteq 1..Len(replies)

LEMMA TypeParts ==
  TypeOK <=> stubs \in Seq(Stub) /\ default \in Response /\ ServerTypes /\ HandlerTypes /\ ReplyTypes
BY DEF TypeOK, ServerTypes, HandlerTypes, ReplyTypes

LEMMA ResponseValues ==
  /\ Empty \in Response /\ Error \in Response /\ NoAnswer \in Response
  /\ Empty.kind \notin Modes \cup {"saved"} /\ Error.kind # "saved" /\ NoAnswer.kind # "saved"
  /\ \A n \in Nat : Saved(n) \in Response /\ Saved(n).kind = "saved" /\ Saved(n).id = n
BY DEF Response, Empty, Error, NoAnswer, Saved, Modes

LEMMA ConfiguredResponse ==
  ASSUME NEW x \in Configured
  PROVE  x \in Response /\ x.kind # "saved"
BY DEF Configured, Response, Modes

LEMMA NothingGood ==
  ASSUME NEW rs, NEW held
  PROVE  GoodList(<<>>, rs, held)
BY DEF GoodList, OnceOnly, Known

\* A handler returns: it lets go of its reply, and nobody else is concerned.
LEMMA AnswerKeeps ==
  ASSUME HttpInv, NEW h \in Handlers, NEW x \in Response, Answer(h, x),
         Continues(replies, replies'),
         x.kind = "saved" =>
           /\ x.id \in 1..Len(replies')
           /\ replies'[x.id].mode = "proxyOnce" => replies'[x.id].request = req[h]
  PROVE  /\ HandlerTypes' /\ Scans' /\ Holders' /\ AnswersKnown' /\ AnsweredForOwnRequest'
         /\ Held' \subseteq Held /\ (Holding(h) => reply[h] \notin Held')
         /\ \A g \in Handlers : base'[g] \in {base[g], <<>>}
<1>1. HandlerTypes /\ Scans /\ Holders /\ AnswersKnown /\ AnsweredForOwnRequest
  BY TypeParts DEF HttpInv
<1>2. \A g \in Handlers : g # h =>
        /\ pc'[g] = pc[g] /\ answer'[g] = answer[g] /\ match'[g] = match[g] /\ reply'[g] = reply[g]
        /\ scan'[g] = scan[g]
        /\ base'[g] = base[g] /\ req'[g] = req[g]
  BY <1>1 DEF Answer, HandlerTypes
<1>3. pc'[h] = "idle" /\ answer'[h] = x /\ base'[h] = <<>> /\ req'[h] = req[h]
  BY <1>1 DEF Answer, HandlerTypes
<1>4. HandlerTypes'
  <2>1. NoMatch \in [index : Nat, response : Response] /\ NoScan \in [next : Nat, len : Nat]
    BY ResponseValues DEF NoMatch, NoScan
  <2>2. QED
    BY <1>1, <2>1, SMTT(60) DEF HandlerTypes, Answer, Continues
<1>5. \A g \in Handlers : (Holding(g))' => g # h /\ Holding(g) /\ reply'[g] = reply[g]
  BY <1>2, <1>3 DEF Holding
<1>6. Held' \subseteq Held /\ (Holding(h) => reply[h] \notin Held')
  BY <1>1, <1>5 DEF Held, Holders
<1>7. Holders'
  <2>1. \A g \in Handlers : pc'[g] \in {"forward", "save", "write"} => match'[g].response.kind \in Modes
    BY <1>1, <1>2, <1>3 DEF Holders
  <2>2. \A g \in Handlers : (Holding(g))' =>
          /\ reply'[g] \in 1..Len(replies')
          /\ replies'[reply'[g]] = [request |-> req'[g], mode |-> match'[g].response.kind]
    BY <1>1, <1>2, <1>5 DEF Holders, Continues
  <2>3. \A g, k \in Handlers : (Holding(g))' /\ (Holding(k))' /\ reply'[g] = reply'[k] => g = k
    BY <1>1, <1>5 DEF Holders
  <2>4. QED
    BY <2>1, <2>2, <2>3 DEF Holders
<1>8. AnswersKnown'
  BY <1>1, <1>2, <1>3 DEF AnswersKnown, Continues
<1>9. AnsweredForOwnRequest'
  <2>1. ASSUME NEW g \in Handlers, g # h, answer'[g].kind = "saved",
               replies'[answer'[g].id].mode = "proxyOnce"
        PROVE  replies'[answer'[g].id].request = req'[g]
    <3>1. answer'[g] = answer[g] /\ req'[g] = req[g] /\ answer[g].kind = "saved"
      BY <1>2, <2>1
    <3>2. answer[g].id \in 1..Len(replies)
      BY <1>1, <3>1 DEF AnswersKnown
    <3>3. replies'[answer[g].id] = replies[answer[g].id]
      BY <3>2 DEF Continues
    <3>4. QED
      BY <1>1, <2>1, <3>1, <3>3 DEF AnsweredForOwnRequest
  <2>2. QED
    BY <1>3, <2>1 DEF AnsweredForOwnRequest
<1>10. Scans'
  BY <1>1, <1>2, <1>3 DEF Scans
<1>11. QED
  BY <1>2, <1>3, <1>4, <1>6, <1>7, <1>8, <1>9, <1>10

\* Lists that were good stay good while no handler takes an old reply.
LEMMA ListsKept ==
  ASSUME HttpInv, Continues(replies, replies'),
         \A n \in Held' : n \in Held \/ n \notin 1..Len(replies),
         stubs' = stubs,
         \A h \in Handlers : base'[h] \in {base[h], <<>>, stubs}
  PROVE  Lists'
<1>1. Lists
  BY DEF HttpInv
<1>2. \A L : GoodList(L, replies, Held) => GoodList(L, replies', Held')
  BY GoodListLater DEF Continues
<1>3. QED
  BY <1>1, <1>2, NothingGood DEF Lists

\* What is to show of a step.
LEMMA HttpInvNext ==
  ASSUME stubs' \in Seq(Stub), default' \in Configured, ServerTypes', HandlerTypes', ReplyTypes',
         Lists', Scans', Holders', AnswersKnown', AnsweredForOwnRequest'
  PROVE  HttpInv'
<1>1. default' \in Response
  BY ConfiguredResponse
<1>2. TypeOK'
  BY <1>1 DEF TypeOK, ServerTypes, HandlerTypes, ReplyTypes
<1>3. QED
  BY <1>2 DEF HttpInv

LEMMA HttpInvNow ==
  ASSUME HttpInv
  PROVE  /\ stubs \in Seq(Stub) /\ default \in Configured
         /\ ServerTypes /\ HandlerTypes /\ ReplyTypes
         /\ Lists /\ Scans /\ Holders /\ AnswersKnown /\ AnsweredForOwnRequest
         /\ Continues(replies, replies)
<1>1. replies \in Seq([request : Requests, mode : Modes])
  BY DEF HttpInv, TypeOK
<1>2. QED
  BY <1>1, TypeParts DEF HttpInv, Continues

LEMMA ServerTypesKept ==
  ASSUME HttpInv, UNCHANGED serverVars
  PROVE  ServerTypes'
BY HttpInvNow DEF ServerTypes, serverVars

\* A handler answers, and nothing else changes.
LEMMA AnswerOnly ==
  ASSUME HttpInv, NEW h \in Handlers, NEW x \in Response, Answer(h, x),
         x.kind = "saved" =>
           x.id \in 1..Len(replies) /\ (replies[x.id].mode = "proxyOnce" => replies[x.id].request = req[h]),
         ServerTypes',
         UNCHANGED <<stubs, default, replies, saved>>
  PROVE  HttpInv'
<1>1. /\ HandlerTypes' /\ Scans' /\ Holders' /\ AnswersKnown' /\ AnsweredForOwnRequest'
      /\ Held' \subseteq Held /\ \A g \in Handlers : base'[g] \in {base[g], <<>>}
  BY AnswerKeeps, HttpInvNow
<1>2. /\ stubs' \in Seq(Stub) /\ default' \in Configured /\ ReplyTypes'
  BY HttpInvNow DEF ReplyTypes
<1>3. Lists'
  BY <1>1, HttpInvNow, ListsKept
<1>4. QED
  BY <1>1, <1>2, <1>3, HttpInvNext

\* A handler that holds no reply, or the reply it held before, moves on.
LEMMA HandlerMoves ==
  ASSUME HttpInv, NEW h \in Handlers, HandlerTypes',
         \A g \in Handlers : g # h =>
           /\ pc'[g] = pc[g] /\ req'[g] = req[g] /\ match'[g] = match[g]
           /\ base'[g] = base[g] /\ answer'[g] = answer[g] /\ scan'[g] = scan[g],
         reply' = reply,
         pc'[h] = "scan" => scan'[h].next \in 1..scan'[h].len + 1,
         (Holding(h))' => Holding(h) /\ req'[h] = req[h] /\ match'[h] = match[h],
         pc'[h] \in {"forward", "save", "write"} => match'[h].response.kind \in Modes,
         base'[h] \in {base[h], stubs},
         answer'[h] = NoAnswer \/ (answer'[h] = answer[h] /\ req'[h] = req[h]),
         ServerTypes',
         UNCHANGED <<stubs, default, replies, saved>>
  PROVE  HttpInv'
<1>1. /\ HandlerTypes /\ Scans /\ Holders /\ AnswersKnown /\ AnsweredForOwnRequest
  BY HttpInvNow
<1>2. \A g \in Handlers : (Holding(g))' => Holding(g) /\ req'[g] = req[g] /\ match'[g] = match[g]
  BY DEF Holding
<1>3. Held' \subseteq Held
  BY <1>2 DEF Held
<1>4. Holders'
  <2>1. \A g \in Handlers : pc'[g] \in {"forward", "save", "write"} => match'[g].response.kind \in Modes
    BY <1>1 DEF Holders
  <2>2. \A g \in Handlers : (Holding(g))' =>
          /\ reply'[g] \in 1..Len(replies')
          /\ replies'[reply'[g]] = [request |-> req'[g], mode |-> match'[g].response.kind]
    BY <1>1, <1>2 DEF Holders
  <2>3. \A g, k \in Handlers : (Holding(g))' /\ (Holding(k))' /\ reply'[g] = reply'[k] => g = k
    BY <1>1, <1>2 DEF Holders
  <2>4. QED
    BY <2>1, <2>2, <2>3 DEF Holders
<1>5. AnswersKnown' /\ AnsweredForOwnRequest'
  <2>1. \A g \in Handlers : answer'[g].kind = "saved" => answer'[g] = answer[g] /\ req'[g] = req[g]
    BY ResponseValues
  <2>2. QED
    BY <1>1, <2>1 DEF AnswersKnown, AnsweredForOwnRequest
<1>6. /\ stubs' \in Seq(Stub) /\ default' \in Configured /\ ReplyTypes'
  BY HttpInvNow DEF ReplyTypes
<1>7. Lists'
  <2>1. \A g \in Handlers : base'[g] \in {base[g], <<>>, stubs}
    OBVIOUS
  <2>2. Continues(replies, replies') /\ \A n \in Held' : n \in Held \/ n \notin 1..Len(replies)
    BY <1>3, HttpInvNow
  <2>3. QED
    BY <2>1, <2>2, ListsKept
<1>8. Scans'
  BY <1>1 DEF Scans
<1>9. QED
  BY <1>4, <1>5, <1>6, <1>7, <1>8, HttpInvNext

LEMMA ReceiveKeeps ==
  ASSUME HttpInv, NEW h \in Handlers, Receive(h)
  PROVE  HttpInv'
<1>1. HandlerTypes /\ ServerTypes
  BY HttpInvNow
<1>2. PICK r \in Requests : req' = [req EXCEPT ![h] = r]
  BY DEF Receive
<1>3. HandlerTypes' /\ ServerTypes'
  BY <1>1, <1>2, ResponseValues DEF Receive, HandlerTypes, ServerTypes, serverVars
<1>4. pc'[h] = "record" /\ answer'[h] = NoAnswer
  BY <1>1 DEF Receive, HandlerTypes
<1>5. ~(Holding(h))'
  BY <1>4 DEF Holding
<1>6. \A g \in Handlers : g # h => pc'[g] = pc[g] /\ req'[g] = req[g] /\ answer'[g] = answer[g]
  BY <1>1, <1>2 DEF Receive, HandlerTypes
<1>7. /\ UNCHANGED <<scan, match, reply, base>>
      /\ UNCHANGED <<stubs, default, replies, saved>>
  BY DEF Receive
<1>8. \A g \in Handlers : g # h =>
        /\ pc'[g] = pc[g] /\ req'[g] = req[g] /\ match'[g] = match[g]
        /\ base'[g] = base[g] /\ answer'[g] = answer[g] /\ scan'[g] = scan[g]
  BY <1>6, <1>7
<1>9. pc'[h] # "scan" /\ pc'[h] \notin {"forward", "save", "write"} /\ base'[h] \in {base[h], stubs}
  BY <1>4, <1>7
<1>10. answer'[h] = NoAnswer \/ (answer'[h] = answer[h] /\ req'[h] = req[h])
  BY <1>4
<1>11. QED
  BY <1>3, <1>5, <1>7, <1>8, <1>9, <1>10, HandlerMoves

LEMMA ScanKeeps ==
  ASSUME HttpInv, NEW h \in Handlers, RecordRequest(h) \/ MatchBegin(h) \/ MatchNext(h)
  PROVE  HttpInv'
<1>1. HandlerTypes /\ ServerTypes /\ stubs \in Seq(Stub) /\ Scans
  BY HttpInvNow
<1>2. ServerTypes'
  BY <1>1 DEF RecordRequest, MatchBegin, MatchNext, ServerTypes, serverVars
<1>3. HandlerTypes' /\ pc'[h] \in {"match", "scan"} /\ (pc'[h] = "scan" => scan'[h].next \in 1..scan'[h].len + 1)
      /\ \A g \in Handlers : g # h => pc'[g] = pc[g] /\ scan'[g] = scan[g]
  <2>1. CASE RecordRequest(h)
    BY <1>1, <2>1 DEF RecordRequest, HandlerTypes
  <2>2. CASE MatchBegin(h)
    <3>1. [next |-> 1, len |-> Len(stubs)] \in [next : Nat, len : Nat] /\ SavedFor(req[h]) \in BOOLEAN
      BY <1>1 DEF SavedFor
    <3>2. QED
      BY <1>1, <2>2, <3>1 DEF MatchBegin, HandlerTypes
  <2>3. CASE MatchNext(h)
    <3>1. scan \in [Handlers -> [next : Nat, len : Nat]] /\ scan[h].next >= 1 /\ scan[h].next <= scan[h].len
      BY <1>1, <2>3 DEF MatchNext, HandlerTypes, Scans
    <3>2. scan' = [scan EXCEPT ![h].next = scan[h].next + 1]
      BY <2>3 DEF MatchNext
    <3>3. scan' \in [Handlers -> [next : Nat, len : Nat]] /\ scan'[h].next = scan[h].next + 1 /\ scan'[h].len = scan[h].len
      BY <3>1, <3>2
    <3>4. \A g \in Handlers : g # h => scan'[g] = scan[g]
      BY <3>1, <3>2
    <3>5. UNCHANGED <<pc, req, match, reply, base, answer, late, replies>> /\ pc[h] = "scan"
      BY <2>3 DEF MatchNext
    <3>6. HandlerTypes'
      BY <1>1, <3>3, <3>5 DEF HandlerTypes
    <3>7. scan'[h].next \in 1..scan'[h].len + 1
      BY <3>1, <3>3
    <3>8. QED
      BY <3>4, <3>5, <3>6, <3>7
  <2>4. QED
    BY <2>1, <2>2, <2>3
<1>4. ~(Holding(h))'
  BY <1>3 DEF Holding
<1>5. /\ UNCHANGED <<req, match, reply, base, answer>>
      /\ UNCHANGED <<stubs, default, replies, saved>>
  BY DEF RecordRequest, MatchBegin, MatchNext
<1>6. QED
  BY <1>2, <1>3, <1>4, <1>5, HandlerMoves

LEMMA RespondKeeps ==
  ASSUME HttpInv, NEW h \in Handlers, NEW i \in Nat, NEW x \in Response, Respond(h, i, x),
         pc[h] = "scan",
         x.kind = "saved" =>
           x.id \in 1..Len(replies) /\ (replies[x.id].mode = "proxyOnce" => replies[x.id].request = req[h]),
         UNCHANGED <<stubs, default, serverVars, replies, saved>>
  PROVE  HttpInv'
<1>1. CASE x.kind \notin Modes /\ Answer(h, x)
  BY <1>1, AnswerOnly, ServerTypesKept
<1>2. CASE /\ x.kind \in Modes
           /\ pc' = [pc EXCEPT ![h] = "forward"]
           /\ match' = [match EXCEPT ![h] = [index |-> i, response |-> x]]
           /\ scan' = [scan EXCEPT ![h] = NoScan]
           /\ UNCHANGED <<req, reply, base, answer, late>>
  <2>1. HandlerTypes /\ ServerTypes
    BY HttpInvNow
  <2>2. HandlerTypes' /\ ServerTypes'
    BY <1>2, <2>1 DEF HandlerTypes, ServerTypes, NoScan, serverVars
  <2>3. pc'[h] = "forward" /\ match'[h].response = x
    BY <1>2, <2>1 DEF HandlerTypes
  <2>4. ~(Holding(h))'
    BY <2>3 DEF Holding
  <2>5. \A g \in Handlers : g # h => pc'[g] = pc[g] /\ match'[g] = match[g] /\ scan'[g] = scan[g]
    BY <1>2, <2>1 DEF HandlerTypes
  <2>6. QED
    BY <1>2, <2>2, <2>3, <2>4, <2>5, HandlerMoves
<1>3. QED
  BY <1>1, <1>2 DEF Respond

LEMMA MatchKeeps ==
  ASSUME HttpInv, NEW h \in Handlers, MatchFound(h) \/ MatchDefault(h)
  PROVE  HttpInv'
<1>1. HandlerTypes /\ stubs \in Seq(Stub) /\ default \in Configured /\ Lists /\ Scans
  BY HttpInvNow
<1>2. CASE MatchFound(h)
  <2> DEFINE i == scan[h].next
  <2>1. i \in 1..Len(stubs) /\ Matches(stubs[i], req[h]) /\ i \in Nat
    BY <1>1, <1>2 DEF MatchFound, HandlerTypes, Scans
  <2>2. stubs[i].responses \in Seq(Response)
    <3>1. stubs[i] \in Stub
      BY <1>1, <2>1
    <3>2. QED
      BY <3>1 DEF Stub
  <2>3. /\ pc[h] = "scan"
        /\ UNCHANGED <<stubs, default, serverVars, replies, saved>>
        /\ \/ Respond(h, i, Empty)
           \/ \E k \in 1..Len(stubs[i].responses) : Respond(h, i, stubs[i].responses[k])
    BY <1>2, <2>2, SMTT(60) DEF MatchFound
  <2> HIDE DEF i
  <2>4. CASE Respond(h, i, Empty)
    BY <2>1, <2>3, <2>4, ResponseValues, RespondKeeps
  <2>5. ASSUME NEW k \in 1..Len(stubs[i].responses), Respond(h, i, stubs[i].responses[k])
        PROVE  HttpInv'
    <3> DEFINE x == stubs[i].responses[k]
    <3>1. x \in Response
      BY <2>2
    <3>2. KnownReply(x, stubs[i].on, replies, Held)
      BY <1>1, <2>1 DEF Lists, GoodList, Known
    <3> HIDE DEF x
    <3>3. x.kind = "saved" =>
            x.id \in 1..Len(replies) /\ (replies[x.id].mode = "proxyOnce" => replies[x.id].request = req[h])
      <4>1. ASSUME x.kind = "saved" PROVE x.id \in 1..Len(replies)
        BY <3>2, <4>1 DEF KnownReply
      <4>2. ASSUME x.kind = "saved", replies[x.id].mode = "proxyOnce" PROVE replies[x.id].request = req[h]
        <5>0. replies \in Seq([request : Requests, mode : Modes])
          BY HttpInvNow DEF ReplyTypes
        <5>1. x.id \in 1..Len(replies)
          BY <4>1, <4>2
        <5>2. replies[x.id] \in [request : Requests, mode : Modes]
          BY <5>0, <5>1, ElementOf
        <5>3. replies[x.id].request \in Requests
          BY <5>2
        <5>4. QED
          BY <2>1, <3>2, <4>2, <5>3, HttpAssumption DEF KnownReply, Matches
      <4>3. QED
        BY <4>1, <4>2
    <3>4. QED
      BY <2>1, <2>3, <2>5, <3>1, <3>3, RespondKeeps DEF x
  <2>6. QED
    BY <2>3, <2>4, <2>5
<1>3. CASE MatchDefault(h)
  <2>1. 0 \in Nat /\ default \in Response /\ default.kind # "saved"
    BY <1>1, ConfiguredResponse
  <2>2. QED
    BY <1>3, <2>1, RespondKeeps DEF MatchDefault
<1>4. QED
  BY <1>2, <1>3

LEMMA ForwardKeeps ==
  ASSUME HttpInv, NEW h \in Handlers, Forward(h)
  PROVE  HttpInv'
<1>1. /\ HandlerTypes /\ ServerTypes /\ Scans /\ Holders /\ AnswersKnown
      /\ AnsweredForOwnRequest /\ stubs \in Seq(Stub) /\ default \in Configured
  BY HttpInvNow
<1> DEFINE n == Len(replies) + 1
           o == [request |-> req[h], mode |-> match[h].response.kind]
<1>2. replies \in Seq([request : Requests, mode : Modes]) /\ saved \subseteq 1..Len(replies)
  BY HttpInvNow DEF ReplyTypes
<1>3. pc[h] = "forward" /\ replies' = Append(replies, o)
  BY DEF Forward
<1>4. o \in [request : Requests, mode : Modes]
  BY <1>1, <1>3 DEF HandlerTypes, Holders
<1> HIDE DEF o
<1>5. /\ Len(replies) \in Nat /\ Len(replies') = n
      /\ replies'[n] = o /\ \A k \in 1..Len(replies) : replies'[k] = replies[k]
      /\ replies' \in Seq([request : Requests, mode : Modes])
  BY <1>2, <1>3, <1>4
<1>6. Continues(replies, replies') /\ n \in 1..Len(replies') /\ n \notin 1..Len(replies)
  BY <1>5 DEF Continues
<1>7. /\ stubs' \in Seq(Stub) /\ default' \in Configured /\ ServerTypes'
  BY <1>1 DEF Forward, ServerTypes, serverVars
<1>8. ReplyTypes'
  BY <1>2, <1>5 DEF Forward, ReplyTypes
<1>9. stubs' = stubs
  BY DEF Forward
<1>10. CASE Answer(h, Saved(n))
  <2>1. Saved(n) \in Response /\ Saved(n).kind = "saved" /\ Saved(n).id = n
    BY <1>5, ResponseValues
  <2>2. replies'[n].mode = "proxyOnce" => replies'[n].request = req[h]
    BY <1>5 DEF o
  <2> HIDE DEF n
  <2>3. /\ HandlerTypes' /\ Scans' /\ Holders' /\ AnswersKnown' /\ AnsweredForOwnRequest'
        /\ Held' \subseteq Held /\ \A g \in Handlers : base'[g] \in {base[g], <<>>}
    BY <1>6, <1>10, <2>1, <2>2, AnswerKeeps
  <2>4. Lists'
    BY <1>6, <1>9, <2>3, ListsKept
  <2>5. QED
    BY <1>7, <1>8, <2>3, <2>4, HttpInvNext
<1>11. CASE /\ pc' = [pc EXCEPT ![h] = "save"]
            /\ reply' = [reply EXCEPT ![h] = n]
            /\ UNCHANGED <<req, scan, match, base, answer, late>>
  <2>1. HandlerTypes'
    BY <1>1, <1>5, <1>11 DEF HandlerTypes
  <2>2. pc'[h] = "save" /\ reply'[h] = n
        /\ \A g \in Handlers : g # h => pc'[g] = pc[g] /\ reply'[g] = reply[g]
    BY <1>1, <1>11 DEF HandlerTypes
  <2> HIDE DEF n
  <2>3. \A g \in Handlers : g # h => ((Holding(g))' <=> Holding(g))
    BY <2>2 DEF Holding
  <2>4. \A m \in Held' : m \in Held \/ m = n
    BY <2>2, <2>3 DEF Held
  <2>5. Scans'
    BY <1>1, <1>3, <1>11, <2>2 DEF Scans
  <2>6. Holders'
    <3>1. \A g \in Handlers : pc'[g] \in {"forward", "save", "write"} => match'[g].response.kind \in Modes
      BY <1>1, <1>3, <1>11, <2>2 DEF Holders
    <3>2. ASSUME NEW g \in Handlers, (Holding(g))'
          PROVE  /\ reply'[g] \in 1..Len(replies')
                 /\ replies'[reply'[g]] = [request |-> req'[g], mode |-> match'[g].response.kind]
      <4>1. CASE g = h
        BY <1>5, <1>6, <1>11, <2>2, <4>1 DEF o
      <4>2. CASE g # h
        BY <1>1, <1>6, <1>11, <2>2, <2>3, <3>2, <4>2 DEF Holders, Continues
      <4>3. QED
        BY <4>1, <4>2
    <3>3. ASSUME NEW g \in Handlers, NEW k \in Handlers, (Holding(g))', (Holding(k))', reply'[g] = reply'[k]
          PROVE  g = k
      <4>1. \A m \in Handlers : m # h /\ (Holding(m))' => reply'[m] # n
        BY <1>1, <1>6, <2>2, <2>3 DEF Holders
      <4>2. QED
        BY <1>1, <2>2, <2>3, <3>3, <4>1 DEF Holders
    <3>4. QED
      BY <3>1, <3>2, <3>3 DEF Holders
  <2>7. AnswersKnown' /\ AnsweredForOwnRequest'
    <3>1. \A g \in Handlers : answer[g].kind = "saved" =>
            answer[g].id \in 1..Len(replies') /\ replies'[answer[g].id] = replies[answer[g].id]
      BY <1>1, <1>6 DEF AnswersKnown, Continues
    <3>2. QED
      BY <1>1, <1>11, <3>1 DEF AnswersKnown, AnsweredForOwnRequest
  <2>8. Lists'
    <3>1. \A g \in Handlers : base'[g] \in {base[g], <<>>, stubs}
      BY <1>11
    <3>2. \A m \in Held' : m \in Held \/ m \notin 1..Len(replies)
      BY <1>6, <2>4
    <3>3. QED
      BY <1>6, <1>9, <3>1, <3>2, ListsKept
  <2>9. QED
    BY <1>7, <1>8, <2>1, <2>5, <2>6, <2>7, <2>8, HttpInvNext
<1>12. QED
  BY <1>10, <1>11 DEF Forward

LEMMA ProxyFailsKeeps ==
  ASSUME HttpInv, NEW h \in Handlers, ProxyFails(h)
  PROVE  HttpInv'
BY ResponseValues, AnswerOnly, ServerTypesKept DEF ProxyFails

LEMMA SaveReadKeeps ==
  ASSUME HttpInv, NEW h \in Handlers, SaveRead(h)
  PROVE  HttpInv'
<1>1. HandlerTypes /\ ServerTypes /\ stubs \in Seq(Stub) /\ Holders
  BY HttpInvNow
<1>2. HandlerTypes' /\ ServerTypes'
  BY <1>1 DEF SaveRead, HandlerTypes, ServerTypes
<1>3. pc'[h] = "write" /\ base'[h] = stubs /\ pc[h] = "save"
  BY <1>1 DEF SaveRead, HandlerTypes
<1>4. \A g \in Handlers : g # h =>
        /\ pc'[g] = pc[g] /\ req'[g] = req[g] /\ match'[g] = match[g]
        /\ base'[g] = base[g] /\ answer'[g] = answer[g] /\ scan'[g] = scan[g]
  BY <1>1 DEF SaveRead, HandlerTypes
<1>5. /\ UNCHANGED <<req, match, reply, answer, scan>>
      /\ UNCHANGED <<stubs, default, replies, saved>>
  BY DEF SaveRead
<1>6. Holding(h) /\ match'[h].response.kind \in Modes /\ pc'[h] # "scan"
  BY <1>1, <1>3, <1>5 DEF Holding, Holders
<1>7. QED
  BY <1>2, <1>3, <1>4, <1>5, <1>6, HandlerMoves

\* What recordProxyStub does to the list.
LEMMA SaveEffect ==
  ASSUME HttpInv, NEW h \in Handlers, SaveWrite(h)
  PROVE  \/ /\ match[h].response.kind = "proxyOnce"
            /\ Recorded(h)
            /\ Inserted(base[h], OncePlace(base[h], match[h].index), NewStub(h), stubs')
         \/ /\ match[h].response.kind = "proxyAlways"
            /\ Recorded(h)
            /\ SameOn(base[h], match[h].index, NewStub(h)) = {}
            /\ Inserted(base[h], Len(base[h]) + 1, NewStub(h), stubs')
         \/ /\ match[h].response.kind = "proxyAlways"
            /\ Recorded(h)
            /\ \E p \in SameOn(base[h], match[h].index, NewStub(h)) :
                 /\ \A q \in SameOn(base[h], match[h].index, NewStub(h)) : p <= q
                 /\ Extended(base[h], p, reply[h], stubs')
<1>1. HandlerTypes /\ ReplyTypes /\ stubs \in Seq(Stub)
  BY HttpInvNow
<1>2. reply[h] \in Nat /\ base[h] \in Seq(Stub) /\ match[h].index \in Nat /\ req[h] \in Requests
  BY <1>1 DEF HandlerTypes, ReplyTypes
<1>3. Saved(reply[h]) \in Response
  BY <1>2, ResponseValues
<1>4. NewStub(h) \in Stub
  BY <1>2, <1>3 DEF NewStub, Generated, Stub
<1>5. CASE SaveOnce(h)
  <2>1. match[h].response.kind = "proxyOnce" /\ Recorded(h)
        /\ stubs' = InsertOnce(base[h], match[h].index, NewStub(h))
    BY <1>5 DEF SaveOnce
  <2>2. QED
    BY <1>2, <1>4, <2>1, InsertOnceIs
<1>6. CASE SaveAlways(h)
  <2> DEFINE same == SameOn(base[h], match[h].index, NewStub(h))
  <2>0. match[h].response.kind = "proxyAlways"
    BY <1>6 DEF SaveAlways
  <2>1. CASE same = {} /\ stubs' = Append(base[h], NewStub(h)) /\ Recorded(h)
    <3> DEFINE L == base[h]
               x == NewStub(h)
    <3>1. L \in Seq(Stub) /\ x \in Stub /\ stubs' = Append(L, x)
      BY <1>2, <1>4, <2>1
    <3> HIDE DEF L, x
    <3>2. Inserted(L, Len(L) + 1, x, stubs')
      BY <3>1 DEF Inserted
    <3>3. QED
      BY <2>0, <2>1, <3>2 DEF L, x
  <2>2. CASE /\ same # {} /\ Recorded(h)
             /\ stubs' = [base[h] EXCEPT ![Min(same)].responses = Append(@, Saved(reply[h])),
                                         ![Min(same)].isProxyGenerated = TRUE]
    <3> DEFINE p == Min(same)
    <3>1. same \in SUBSET Nat
      BY <1>2 DEF SameOn
    <3>2. \E m \in same : \A q \in same : m <= q
      <4> HIDE DEF same
      <4>1. QED
        BY <2>2, <3>1, LeastNatural
    <3>3. p \in same /\ \A q \in same : p <= q
      <4> HIDE DEF same
      <4>1. QED
        BY <3>2 DEF Min
    <3> DEFINE L == base[h]
    <3>4. L \in Seq(Stub) /\ p \in 1..Len(L)
      BY <1>2, <3>3 DEF SameOn
    <3>5. L[p] \in Stub
      BY <3>4
    <3> DEFINE u == [L[p] EXCEPT !.responses = Append(@, Saved(reply[h]))]
               v == [u EXCEPT !.isProxyGenerated = TRUE]
    <3>6. stubs' = [L EXCEPT ![p] = v]
      <4> HIDE DEF p
      <4>1. QED
        BY <2>2, <3>4 DEF p
    <3> HIDE DEF p, same, L
    <3>7. v \in Stub /\ v.on = L[p].on /\ v.responses = Append(L[p].responses, Saved(reply[h]))
      <4> DEFINE w == L[p]
      <4>1. w \in Stub /\ w.responses \in Seq(Response)
        BY <3>5 DEF Stub
      <4>2. Append(w.responses, Saved(reply[h])) \in Seq(Response)
        BY <1>3, <4>1
      <4> HIDE DEF w
      <4>3. QED
        BY <4>1, <4>2 DEF Stub, w
    <3> HIDE DEF v
    <3>8. Extended(L, p, reply[h], stubs')
      BY <3>4, <3>6, <3>7 DEF Extended
    <3>9. QED
      BY <2>0, <2>2, <3>3, <3>8 DEF same, L
  <2>3. QED
    BY <1>6, <2>1, <2>2 DEF SaveAlways
<1>7. QED
  BY <1>5, <1>6 DEF SaveWrite

LEMMA SaveWriteKeeps ==
  ASSUME HttpInv, NEW h \in Handlers, SaveWrite(h)
  PROVE  HttpInv'
<1>1. /\ HandlerTypes /\ ServerTypes /\ ReplyTypes /\ Holders /\ Lists
      /\ default \in Configured /\ stubs \in Seq(Stub)
      /\ Continues(replies, replies)
  BY HttpInvNow
<1>2. pc[h] = "write" /\ mu' = None /\ UNCHANGED <<default, listening, stopPc, replies>>
  BY DEF SaveWrite
<1>3. default' \in Configured /\ ServerTypes'
  BY <1>1, <1>2 DEF ServerTypes
<1> DEFINE n == reply[h]
<1>5. /\ Holding(h) /\ n \in Held /\ n \in 1..Len(replies)
      /\ replies[n] = [request |-> req[h], mode |-> match[h].response.kind]
  BY <1>1, <1>2 DEF Holding, Held, Holders
<1>6. NewStub(h) \in Stub /\ NewStub(h).on = replies[n].request /\ NewStub(h).responses = <<Saved(n)>>
  <2>1. req[h] \in Requests /\ n \in Nat
    BY <1>1, <1>5 DEF HandlerTypes
  <2>2. Saved(n) \in Response
    BY <2>1, ResponseValues
  <2>3. QED
    BY <1>5, <2>1, <2>2 DEF NewStub, Generated, Stub
<1>7. ASSUME Recorded(h), stubs' \in Seq(Stub),
             GoodList(stubs', replies, Held \ {n})
      PROVE  HttpInv'
  <2>1. Answer(h, Saved(n)) /\ saved' = saved \cup {n}
    BY <1>7 DEF Recorded
  <2>2. Saved(n) \in Response /\ Saved(n).kind = "saved" /\ Saved(n).id = n
    BY <1>5, ResponseValues
  <2> HIDE DEF n
  <2>3. /\ HandlerTypes' /\ Scans' /\ Holders' /\ AnswersKnown' /\ AnsweredForOwnRequest'
        /\ Held' \subseteq Held /\ (Holding(h) => reply[h] \notin Held')
        /\ \A g \in Handlers : base'[g] \in {base[g], <<>>}
    BY <1>1, <1>2, <1>5, <2>1, <2>2, AnswerKeeps
  <2>4. ReplyTypes'
    BY <1>1, <1>2, <1>5, <2>1 DEF ReplyTypes
  <2>5. GoodList(stubs', replies', Held')
    <3>1. \A m \in Held' : m \in Held \ {n}
      BY <1>5, <2>3 DEF n
    <3>2. QED
      BY <1>1, <1>2, <1>7, <3>1, GoodListLater DEF Continues
  <2>6. \A L : GoodList(L, replies, Held) => GoodList(L, replies', Held')
    BY <1>1, <1>2, <2>3, GoodListLater DEF Continues
  <2>7. Lists'
    <3>1. \A g \in Handlers : GoodList(base'[g], replies', Held')
      BY <1>1, <2>3, <2>6, NothingGood DEF Lists
    <3>2. QED
      BY <2>5, <3>1 DEF Lists
  <2>8. QED
    BY <1>3, <1>7, <2>3, <2>4, <2>7, HttpInvNext
<1>8. ASSUME NEW p, Recorded(h), Inserted(base[h], p, NewStub(h), stubs')
      PROVE  HttpInv'
  <2> DEFINE x == NewStub(h)
             L == base[h]
  <2>1. GoodList(L, replies, Held)
    BY <1>1 DEF Lists
  <2>2. /\ p \in 1..Len(L) + 1 /\ stubs' \in Seq(Stub) /\ Len(stubs') = Len(L) + 1
        /\ \A i \in 1..Len(L) + 1 : stubs'[i] = IF i < p THEN L[i] ELSE IF i = p THEN x ELSE L[i - 1]
    BY <1>8 DEF Inserted
  <2>3. x \in Stub /\ x.on = replies[n].request /\ x.responses = <<Saved(n)>>
    BY <1>6
  <2> HIDE DEF x, L, n
  <2>4. GoodList(stubs', replies, Held \ {n})
    BY <1>5, <2>1, <2>2, <2>3, GoodListInsert
  <2>5. QED
    BY <1>7, <1>8, <2>2, <2>4
<1>9. ASSUME NEW p, Recorded(h), match[h].response.kind = "proxyAlways",
             Extended(base[h], p, reply[h], stubs')
      PROVE  HttpInv'
  <2> DEFINE L == base[h]
  <2>1. GoodList(L, replies, Held) /\ replies[n].mode # "proxyOnce"
    BY <1>1, <1>5, <1>9 DEF Lists
  <2>2. /\ p \in 1..Len(L) /\ stubs' \in Seq(Stub) /\ Len(stubs') = Len(L)
        /\ \A i \in 1..Len(L) : i # p => stubs'[i] = L[i]
        /\ stubs'[p].on = L[p].on /\ stubs'[p].responses = Append(L[p].responses, Saved(n))
    BY <1>9 DEF Extended
  <2> HIDE DEF n, L
  <2>3. GoodList(stubs', replies, Held \ {n})
    BY <1>5, <2>1, <2>2, GoodListExtend
  <2>4. QED
    BY <1>7, <1>9, <2>2, <2>3
<1>10. QED
  BY <1>8, <1>9, SaveEffect

\* Stop, and steps that change nothing.
LEMMA ServerOnlyKeeps ==
  ASSUME HttpInv, ServerTypes', UNCHANGED <<stubs, default, handlerVars, replies, saved>>
  PROVE  HttpInv'
<1>1. /\ stubs' \in Seq(Stub) /\ default' \in Configured /\ HandlerTypes' /\ ReplyTypes'
  BY HttpInvNow DEF HandlerTypes, ReplyTypes, handlerVars
<1>2. Scans' /\ Holders' /\ AnswersKnown' /\ AnsweredForOwnRequest'
  BY HttpInvNow DEF Scans, Holders, Holding, AnswersKnown, AnsweredForOwnRequest, handlerVars
<1>3. Lists'
  BY HttpInvNow DEF Lists, Held, Holding, handlerVars
<1>4. QED
  BY <1>1, <1>2, <1>3, HttpInvNext

LEMMA StopKeeps ==
  ASSUME HttpInv, StopStep
  PROVE  HttpInv'
<1>1. ServerTypes'
  BY HttpInvNow DEF StopStep, StopBegin, StopDone, StopTimeout, ServerTypes
<1>2. UNCHANGED <<stubs, default, handlerVars, replies, saved>>
  BY DEF StopStep, StopBegin, StopDone, StopTimeout
<1>3. QED
  BY <1>1, <1>2, ServerOnlyKeeps

LEMMA HttpInvInit == Init => HttpInv
<1>1. SUFFICES ASSUME Init PROVE HttpInv
  OBVIOUS
<1>2. stubs \in Seq(ConfiguredStub) /\ default \in Configured
  BY <1>1, HttpAssumption DEF Init
<1>3. stubs \in Seq(Stub) /\ \A i \in 1..Len(stubs) : stubs[i] \in ConfiguredStub
  BY <1>2, ConfiguredHoldsNoReply
<1>4. TypeOK
  <2>1. ServerTypes /\ ReplyTypes
    BY <1>1 DEF Init, ServerTypes, ReplyTypes
  <2>2. PICK r \in Requests : req = [g \in Handlers |-> r]
    BY <1>1 DEF Init
  <2>3. HandlerTypes
    BY <1>1, <2>2, ResponseValues DEF Init, HandlerTypes, NoScan, NoMatch
  <2>4. QED
    BY <1>2, <1>3, <2>1, <2>3, ConfiguredResponse, TypeParts
<1>5. Lists
  <2>1. Known(stubs, replies, Held)
    <3>1. \A i \in 1..Len(stubs) : \A k \in 1..Len(stubs[i].responses) : stubs[i].responses[k].kind # "saved"
      BY <1>3, ConfiguredHoldsNoReply
    <3>2. QED
      BY <3>1 DEF Known, KnownReply
  <2>2. OnceOnly(stubs)
    <3>1. \A i \in 1..Len(stubs) : \A k \in 1..Len(stubs[i].responses) : stubs[i].responses[k].kind # "saved"
      BY <1>3, ConfiguredHoldsNoReply
    <3>2. QED
      BY <3>1 DEF OnceOnly
  <2>3. QED
    BY <1>1, <1>3, <2>1, <2>2, NothingGood DEF Lists, GoodList, Init
<1>6. Scans /\ Holders /\ AnswersKnown /\ AnsweredForOwnRequest
  BY <1>1, ResponseValues DEF Init, Scans, Holders, Holding, AnswersKnown, AnsweredForOwnRequest
<1>7. QED
  BY <1>2, <1>4, <1>5, <1>6 DEF HttpInv

LEMMA HttpInvStep == HttpInv /\ [Next]_vars => HttpInv'
<1>1. SUFFICES ASSUME HttpInv, [Next]_vars PROVE HttpInv'
  OBVIOUS
<1>2. ASSUME NEW h \in Handlers, Receive(h) \/ Serve(h) PROVE HttpInv'
  BY <1>1, <1>2, ReceiveKeeps, ScanKeeps, MatchKeeps, ForwardKeeps, ProxyFailsKeeps, SaveReadKeeps, SaveWriteKeeps
     DEF Serve
<1>3. CASE UNCHANGED vars
  BY <1>1, <1>3, ServerTypesKept, ServerOnlyKeeps DEF vars
<1>4. QED
  BY <1>1, <1>2, <1>3, StopKeeps DEF Next

\* The invariant of the imposter at work: its lists hold the replies of the origin,
\* each at most once and not before its recording is complete, and none but a
\* handler that records holds one.
THEOREM HttpInvariant == Spec => []HttpInv
BY HttpInvInit, HttpInvStep, PTL DEF Spec

\* A reply that a proxyOnce stub recorded answers only requests like its own.
THEOREM RepliesStayWithTheirRequests == Spec => []AnsweredForOwnRequest
<1>1. HttpInv => AnsweredForOwnRequest
  BY DEF HttpInv
<1>2. QED
  BY <1>1, HttpInvariant, PTL

LEMMA AtMostOne ==
  ASSUME NEW S, \A x, y \in S : x = y
  PROVE  IsFiniteSet(S) /\ Cardinality(S) <= 1 /\ (S # {} => Cardinality(S) = 1)
<1>1. CASE S = {}
  BY <1>1, FS_EmptySet
<1>2. CASE S # {}
  <2>1. PICK x : S = {x}
    BY <1>2
  <2>2. QED
    <3>1. IsFiniteSet({x}) /\ Cardinality({x}) = 1
      BY FS_Singleton
    <3>2. IsFiniteSet(S) /\ Cardinality(S) = 1
      BY <2>1, <3>1
    <3>3. QED
      BY <3>2
<1>3. QED
  BY <1>1, <1>2

LEMMA PlacesIs ==
  ASSUME NEW n
  PROVE  \A x : x \in Places(n) <=>
           \E i \in 1..Len(stubs) : \E k \in 1..Len(stubs[i].responses) :
             x = <<i, k>> /\ stubs[i].responses[k] = Saved(n)
BY DEF Places

\* In a good list a reply has at most one place.
LEMMA OnePlace ==
  ASSUME HttpInv, NEW n \in Nat
  PROVE  \A x, y \in Places(n) : x = y
<1>1. OnceOnly(stubs)
  BY DEF HttpInv, Lists, GoodList
<1>2. Saved(n).kind = "saved"
  BY DEF Saved
<1>3. SUFFICES ASSUME NEW x \in Places(n), NEW y \in Places(n) PROVE x = y
  OBVIOUS
<1>4. PICK i \in 1..Len(stubs) : \E k \in 1..Len(stubs[i].responses) :
        x = <<i, k>> /\ stubs[i].responses[k] = Saved(n)
  BY <1>3, PlacesIs
<1>5. PICK k \in 1..Len(stubs[i].responses) : x = <<i, k>> /\ stubs[i].responses[k] = Saved(n)
  BY <1>4
<1>6. PICK j \in 1..Len(stubs) : \E l \in 1..Len(stubs[j].responses) :
        y = <<j, l>> /\ stubs[j].responses[l] = Saved(n)
  BY <1>3, PlacesIs
<1>7. PICK l \in 1..Len(stubs[j].responses) : y = <<j, l>> /\ stubs[j].responses[l] = Saved(n)
  BY <1>6
<1>8. i = j /\ k = l
  BY <1>1, <1>2, <1>5, <1>7 DEF OnceOnly
<1>9. QED
  BY <1>5, <1>7, <1>8

-----------------------------------------------------------------------------
(* Where proxies are in a list, and what recording does to that             *)

\* A reply appended to a stub changes nothing that matching looks at.
LEMMA ExtendedShape ==
  ASSUME NEW L \in Seq(Stub), NEW p, NEW n \in Nat, NEW t, Extended(L, p, n, t)
  PROVE  /\ Len(t) = Len(L)
         /\ \A i \in 1..Len(L) : t[i].on = L[i].on /\ (ProxyFree(t[i]) <=> ProxyFree(L[i]))
<1>1. /\ p \in 1..Len(L) /\ Len(t) = Len(L) /\ \A i \in 1..Len(L) : i # p => t[i] = L[i]
      /\ t[p].on = L[p].on /\ t[p].responses = Append(L[p].responses, Saved(n))
  BY DEF Extended
<1>2. L[p] \in Stub
  BY <1>1
<1>3. L[p].responses \in Seq(Response)
  BY <1>2 DEF Stub
<1>4. Saved(n).kind \notin Modes
  BY DEF Saved, Modes
<1> DEFINE a == L[p].responses
           b == t[p].responses
<1>5. /\ Len(b) = Len(a) + 1 /\ Len(a) \in Nat
      /\ \A k \in 1..Len(a) : b[k] = a[k]
      /\ b[Len(a) + 1] = Saved(n)
  BY <1>1, <1>3
<1> HIDE DEF a, b
<1>6. (\A k \in 1..Len(b) : b[k].kind \notin Modes) <=> (\A k \in 1..Len(a) : a[k].kind \notin Modes)
  <2>1. ASSUME \A k \in 1..Len(b) : b[k].kind \notin Modes, NEW k \in 1..Len(a) PROVE a[k].kind \notin Modes
    <3>1. k \in 1..Len(b) /\ b[k] = a[k]
      BY <1>5
    <3>2. QED
      BY <2>1, <3>1
  <2>2. ASSUME \A k \in 1..Len(a) : a[k].kind \notin Modes, NEW k \in 1..Len(b) PROVE b[k].kind \notin Modes
    <3>1. CASE k \in 1..Len(a)
      BY <1>5, <2>2, <3>1
    <3>2. CASE k = Len(a) + 1
      BY <1>4, <1>5, <3>2
    <3>3. QED
      BY <1>5, <3>1, <3>2
  <2>3. QED
    BY <2>1, <2>2
<1>7. ProxyFree(t[p]) <=> ProxyFree(L[p])
  BY <1>6 DEF ProxyFree, a, b
<1>8. QED
  BY <1>1, <1>7

LEMMA InsertedClear ==
  ASSUME NEW L \in Seq(Stub), NEW p, NEW x, NEW t, Inserted(L, p, x, t), ProxyFree(x),
         NEW r, NEW i \in Nat, ClearBefore(L, r, i)
  PROVE  ClearBefore(t, r, i)
<1>1. SUFFICES ASSUME NEW j \in 1..Len(t), j < i, Matches(t[j], r) PROVE ProxyFree(t[j])
  BY DEF ClearBefore
<1>2. /\ p \in 1..Len(L) + 1 /\ Len(t) = Len(L) + 1 /\ Len(L) \in Nat
      /\ t[j] = IF j < p THEN L[j] ELSE IF j = p THEN x ELSE L[j - 1]
  BY DEF Inserted
<1>3. CASE j < p
  <2>1. j \in 1..Len(L) /\ t[j] = L[j]
    BY <1>2, <1>3
  <2>2. QED
    BY <1>1, <2>1 DEF ClearBefore
<1>4. CASE j = p
  BY <1>2, <1>4
<1>5. CASE j > p
  <2>1. j - 1 \in 1..Len(L) /\ t[j] = L[j - 1] /\ j - 1 < i
    BY <1>1, <1>2, <1>5
  <2>2. QED
    BY <1>1, <2>1 DEF ClearBefore
<1>6. QED
  BY <1>2, <1>3, <1>4, <1>5

LEMMA InsertedReplays ==
  ASSUME NEW L \in Seq(Stub), NEW p, NEW x, NEW t, Inserted(L, p, x, t), ProxyFree(x),
         NEW r, NEW m \in Nat, ReplayFrom(L, r, m)
  PROVE  ReplayFrom(t, r, m)
<1>1. /\ p \in 1..Len(L) + 1 /\ Len(t) = Len(L) + 1 /\ Len(L) \in Nat
      /\ \A i \in 1..Len(L) + 1 : t[i] = IF i < p THEN L[i] ELSE IF i = p THEN x ELSE L[i - 1]
  BY DEF Inserted
<1>2. PICK q \in 1..Len(L) : m <= q /\ Matches(L[q], r) /\ ClearBefore(L, r, q + 1)
  BY DEF ReplayFrom
<1>3. CASE q < p
  <2>1. q \in 1..Len(t) /\ t[q] = L[q]
    BY <1>1, <1>3
  <2>2. ClearBefore(t, r, q + 1)
    BY <1>2, InsertedClear
  <2>3. QED
    BY <1>2, <2>1, <2>2 DEF ReplayFrom
<1>4. CASE p <= q
  <2>1. q + 1 \in 1..Len(t) /\ t[q + 1] = L[q] /\ m <= q + 1
    BY <1>1, <1>2, <1>4
  <2>2. ClearBefore(t, r, q + 1)
    BY <1>2, InsertedClear
  <2>3. ProxyFree(L[q])
    BY <1>2 DEF ClearBefore
  <2>4. ClearBefore(t, r, (q + 1) + 1)
    <3>1. ASSUME NEW j \in 1..Len(t), j < (q + 1) + 1, Matches(t[j], r) PROVE ProxyFree(t[j])
      <4>1. CASE j = q + 1
        BY <2>1, <2>3, <4>1
      <4>2. CASE j < q + 1
        BY <2>2, <3>1, <4>2 DEF ClearBefore
      <4>3. QED
        BY <1>1, <3>1, <4>1, <4>2
    <3>2. QED
      BY <3>1 DEF ClearBefore
  <2>5. QED
    BY <1>2, <2>1, <2>4 DEF ReplayFrom
<1>5. QED
  BY <1>1, <1>3, <1>4

\* A list with the same predicates and the same proxies at each position.
SameShape(L, t) ==
  /\ Len(t) = Len(L)
  /\ \A i \in 1..Len(L) : t[i].on = L[i].on /\ (ProxyFree(t[i]) <=> ProxyFree(L[i]))

LEMMA SameShapeKeeps ==
  ASSUME NEW L \in Seq(Stub), NEW t, SameShape(L, t), NEW r, NEW i
  PROVE  /\ ClearBefore(L, r, i) => ClearBefore(t, r, i)
         /\ ReplayFrom(L, r, i) => ReplayFrom(t, r, i)
         /\ ProxyIndex(L, i, r) => ProxyIndex(t, i, r)
<1>1. \A q : ClearBefore(L, r, q) => ClearBefore(t, r, q)
  BY DEF SameShape, ClearBefore, Matches
<1>2. ReplayFrom(L, r, i) => ReplayFrom(t, r, i)
  BY <1>1 DEF SameShape, ReplayFrom, Matches
<1>3. ProxyIndex(L, i, r) => ProxyIndex(t, i, r)
  BY DEF SameShape, ProxyIndex, Matches
<1>4. QED
  BY <1>1, <1>2, <1>3

LEMMA SameShapeGathers ==
  ASSUME NEW L \in Seq(Stub), NEW t, SameShape(L, t), NEW r, NEW j \in 1..Len(L), Gathers(L, j, r)
  PROVE  Gathers(t, j, r)
<1>1. PICK i \in 0..Len(L) :
        ProxyIndex(L, i, r) /\ j # i /\ L[j].on = r /\ \A l \in 1..Len(L) : l < j => l = i \/ L[l].on # r
  BY DEF Gathers
<1>2. ProxyIndex(t, i, r)
  BY <1>1, SameShapeKeeps
<1>3. QED
  BY <1>1, <1>2 DEF Gathers, SameShape

\* A stub without proxies at the end of the list.
LEMMA AppendedKeeps ==
  ASSUME NEW L \in Seq(Stub), NEW x, NEW t, Inserted(L, Len(L) + 1, x, t), ProxyFree(x), NEW r
  PROVE  /\ Len(t) = Len(L) + 1 /\ t[Len(L) + 1] = x /\ \A i \in 1..Len(L) : t[i] = L[i]
         /\ \A i \in 0..Len(L) : ProxyIndex(L, i, r) => ProxyIndex(t, i, r)
         /\ \A j \in 1..Len(L) : Gathers(L, j, r) => Gathers(t, j, r)
<1>1. Len(L) \in Nat /\ Len(t) = Len(L) + 1 /\ t[Len(L) + 1] = x /\ \A i \in 1..Len(L) : t[i] = L[i]
  BY DEF Inserted
<1>2. ASSUME NEW i \in 0..Len(L), ProxyIndex(L, i, r) PROVE ProxyIndex(t, i, r)
  <2>1. CASE i = 0 /\ \A j \in 1..Len(L) : Matches(L[j], r) => ProxyFree(L[j])
    <3>1. \A j \in 1..Len(t) : j = Len(L) + 1 \/ j \in 1..Len(L)
      BY <1>1
    <3>2. \A j \in 1..Len(t) : Matches(t[j], r) => ProxyFree(t[j])
      BY <1>1, <2>1, <3>1
    <3>3. QED
      BY <2>1, <3>2 DEF ProxyIndex
  <2>2. CASE /\ i \in 1..Len(L) /\ Matches(L[i], r) /\ ~ProxyFree(L[i])
             /\ \A j \in 1..Len(L) : j < i => ~Matches(L[j], r)
    <3>1. i \in 1..Len(t) /\ t[i] = L[i]
      BY <1>1, <2>2
    <3>2. \A j \in 1..Len(t) : j < i => j \in 1..Len(L) /\ t[j] = L[j]
      BY <1>1
    <3>3. QED
      BY <2>2, <3>1, <3>2 DEF ProxyIndex
  <2>3. QED
    BY <1>2, <2>1, <2>2 DEF ProxyIndex
<1>3. ASSUME NEW j \in 1..Len(L), Gathers(L, j, r) PROVE Gathers(t, j, r)
  <2>1. PICK i \in 0..Len(L) :
          ProxyIndex(L, i, r) /\ j # i /\ L[j].on = r /\ \A l \in 1..Len(L) : l < j => l = i \/ L[l].on # r
    BY <1>3 DEF Gathers
  <2>2. ProxyIndex(t, i, r) /\ i \in 0..Len(t)
    BY <1>1, <1>2, <2>1
  <2>3. \A l \in 1..Len(t) : l < j => l \in 1..Len(L) /\ t[l] = L[l]
    BY <1>1
  <2>4. QED
    BY <1>1, <2>1, <2>2, <2>3 DEF Gathers
<1>4. QED
  BY <1>1, <1>2, <1>3

\* One stub gathers the replies to a request.
LEMMA GathersOne ==
  ASSUME NEW L \in Seq(Stub), NEW r, NEW a \in 1..Len(L), NEW b \in 1..Len(L), Gathers(L, a, r), Gathers(L, b, r)
  PROVE  a = b
<1>1. PICK i \in 0..Len(L) :
        ProxyIndex(L, i, r) /\ a # i /\ L[a].on = r /\ \A l \in 1..Len(L) : l < a => l = i \/ L[l].on # r
  BY DEF Gathers
<1>2. PICK j \in 0..Len(L) :
        ProxyIndex(L, j, r) /\ b # j /\ L[b].on = r /\ \A l \in 1..Len(L) : l < b => l = j \/ L[l].on # r
  BY DEF Gathers
<1>3. i = j
  BY <1>1, <1>2 DEF ProxyIndex
<1>4. QED
  BY <1>1, <1>2, <1>3

-----------------------------------------------------------------------------
(* The invariant of recording                                               *)

Forwarding == {"forward", "save", "write"}

\* A step of handler h that does not write the list.
LEMMA QuietKeeps ==
  ASSUME RecordInv, HttpInv', NEW h \in Handlers, Continues(replies, replies'),
         UNCHANGED <<stubs, default, saved>>,
         \A g \in Handlers : g # h =>
           /\ pc'[g] = pc[g] /\ req'[g] = req[g] /\ scan'[g] = scan[g] /\ match'[g] = match[g]
           /\ late'[g] = late[g],
         Locked', (ReplaysAt(h))', OnceFree => (GroupsAt(h))',
         default.kind \notin Modes /\ late'[h] => pc'[h] \notin Forwarding
  PROVE  RecordInv'
<1>1. HttpInv /\ NoneIsLost /\ Replays /\ SavedIsReplayed /\ Groups
  BY DEF RecordInv
<1>2. NoneIsLost'
  BY <1>1 DEF NoneIsLost, InList
<1>3. \A n \in saved : n \in 1..Len(replies) /\ replies'[n] = replies[n]
  BY <1>1, HttpInvNow DEF ReplyTypes, Continues
<1>4. Replays'
  <2>1. \A r \in Requests : (SavedFor(r))' => SavedFor(r)
    BY <1>3 DEF SavedFor
  <2>2. \A r \in Requests : (SavedFor(r))' => ReplayFrom(stubs', r, 1)
    BY <1>1, <2>1 DEF Replays
  <2>3. ASSUME NEW g \in Handlers, g # h PROVE (ReplaysAt(g))'
    BY <1>1, <2>3 DEF Replays, ReplaysAt
  <2>4. QED
    BY <2>2, <2>3 DEF Replays
<1>5. SavedIsReplayed'
  BY <1>1 DEF SavedIsReplayed, ReplayedOnceSaved, Forwarding
<1>6. Groups'
  <2>1. SUFFICES ASSUME OnceFree PROVE Gathered' /\ \A g \in Handlers : (GroupsAt(g))'
    BY DEF Groups, OnceFree
  <2>2. ASSUME NEW g \in Handlers, g # h PROVE (GroupsAt(g))'
    BY <1>1, <2>1, <2>2 DEF Groups, GroupsAt
  <2>3. Gathered'
    <3>1. ASSUME NEW i \in 1..Len(stubs), NEW k \in 1..Len(stubs[i].responses),
                 stubs[i].responses[k].kind = "saved"
          PROVE  replies'[stubs[i].responses[k].id] = replies[stubs[i].responses[k].id]
      <4>1. KnownReply(stubs[i].responses[k], stubs[i].on, replies, Held)
        BY <1>1, HttpInvNow DEF Lists, GoodList, Known
      <4>2. QED
        BY <3>1, <4>1 DEF KnownReply, Continues
    <3>2. QED
      BY <1>1, <2>1, <3>1 DEF Groups, Gathered
  <2>4. QED
    BY <2>1, <2>2, <2>3
<1>7. QED
  BY <1>2, <1>4, <1>5, <1>6 DEF RecordInv

\* A handler answers without having written the list.
LEMMA QuietAnswer ==
  ASSUME RecordInv, HttpInv', NEW h \in Handlers, NEW x, Answer(h, x), Continues(replies, replies'),
         UNCHANGED <<stubs, default, saved, stopPc>>,
         IF pc[h] = "write" THEN mu' = None ELSE mu' = mu
  PROVE  RecordInv'
<1>1. HandlerTypes /\ Locked
  BY HttpInvNow DEF RecordInv
<1>2. /\ pc'[h] = "idle"
      /\ \A g \in Handlers : g # h =>
           /\ pc'[g] = pc[g] /\ req'[g] = req[g] /\ scan'[g] = scan[g] /\ match'[g] = match[g]
           /\ late'[g] = late[g] /\ base'[g] = base[g]
  BY <1>1 DEF Answer, HandlerTypes
<1>3. Locked'
  BY <1>1, <1>2, HttpAssumption DEF Locked
<1>4. (ReplaysAt(h))' /\ (GroupsAt(h))' /\ pc'[h] \notin Forwarding
  BY <1>2 DEF ReplaysAt, GroupsAt, Forwarding
<1>5. QED
  BY <1>2, <1>3, <1>4, QuietKeeps

LEMMA ReceiveRecords ==
  ASSUME RecordInv, HttpInv', NEW h \in Handlers, Receive(h) \/ RecordRequest(h)
  PROVE  RecordInv'
<1>1. HandlerTypes /\ Locked /\ Continues(replies, replies)
  BY HttpInvNow DEF RecordInv
<1>2. /\ pc[h] \in {"idle", "record"} /\ pc'[h] \in {"record", "match"}
      /\ \A g \in Handlers : g # h =>
           /\ pc'[g] = pc[g] /\ req'[g] = req[g] /\ scan'[g] = scan[g] /\ match'[g] = match[g]
           /\ late'[g] = late[g]
  BY <1>1 DEF Receive, RecordRequest, HandlerTypes
<1>3. UNCHANGED <<stubs, default, saved, replies, mu, stopPc, base>>
  BY DEF Receive, RecordRequest, serverVars
<1>4. Locked'
  <2>1. \A g \in Handlers : pc'[g] = "write" <=> pc[g] = "write"
    BY <1>2
  <2>2. QED
    BY <1>1, <1>3, <2>1 DEF Locked
<1>5. (ReplaysAt(h))' /\ (GroupsAt(h))' /\ pc'[h] \notin Forwarding
  BY <1>2 DEF ReplaysAt, GroupsAt, Forwarding
<1>6. QED
  BY <1>1, <1>2, <1>3, <1>4, <1>5, QuietKeeps

LEMMA MatchBeginRecords ==
  ASSUME RecordInv, HttpInv', NEW h \in Handlers, MatchBegin(h)
  PROVE  RecordInv'
<1>1. HandlerTypes /\ Locked /\ Replays /\ Continues(replies, replies) /\ stubs \in Seq(Stub)
  BY HttpInvNow DEF RecordInv
<1>2. /\ pc[h] = "match" /\ pc'[h] = "scan" /\ scan'[h] = [next |-> 1, len |-> Len(stubs)]
      /\ late'[h] = SavedFor(req[h]) /\ req'[h] = req[h] /\ req[h] \in Requests
      /\ \A g \in Handlers : g # h =>
           /\ pc'[g] = pc[g] /\ req'[g] = req[g] /\ scan'[g] = scan[g] /\ match'[g] = match[g]
           /\ late'[g] = late[g]
  BY <1>1 DEF MatchBegin, HandlerTypes
<1>3. UNCHANGED <<stubs, default, saved, replies, mu, stopPc, base>>
  BY DEF MatchBegin, serverVars
<1>4. Locked'
  <2>1. \A g \in Handlers : pc'[g] = "write" <=> pc[g] = "write"
    BY <1>2
  <2>2. QED
    BY <1>1, <1>3, <2>1 DEF Locked
<1>5. Len(stubs) \in Nat /\ scan'[h].next = 1 /\ scan'[h].len = Len(stubs)
  BY <1>1, <1>2
<1>6. (ReplaysAt(h))'
  <2>1. ClearBefore(stubs, req[h], 1)
    BY <1>5 DEF ClearBefore
  <2>2. late'[h] => ReplayFrom(stubs, req[h], 1)
    BY <1>1, <1>2 DEF Replays
  <2>3. QED
    BY <1>2, <1>3, <1>5, <2>1, <2>2 DEF ReplaysAt
<1>7. (GroupsAt(h))' /\ pc'[h] \notin Forwarding
  BY <1>2, <1>3, <1>5 DEF GroupsAt, Forwarding
<1>8. QED
  BY <1>1, <1>2, <1>3, <1>4, <1>6, <1>7, QuietKeeps

LEMMA MatchNextRecords ==
  ASSUME RecordInv, HttpInv', NEW h \in Handlers, MatchNext(h)
  PROVE  RecordInv'
<1>1. HandlerTypes /\ Locked /\ Replays /\ Groups /\ Continues(replies, replies) /\ stubs \in Seq(Stub) /\ Scans
  BY HttpInvNow DEF RecordInv
<1> DEFINE i == scan[h].next
<1>2. /\ pc[h] = "scan" /\ i \in 1..Len(stubs) /\ ~Matches(stubs[i], req[h])
      /\ UNCHANGED <<pc, req, match, late, stubs, default, saved, replies, mu, stopPc, base>>
  BY <1>1 DEF MatchNext, serverVars, HandlerTypes, Scans
<1>3. scan \in [Handlers -> [next : Nat, len : Nat]] /\ scan' = [scan EXCEPT ![h].next = i + 1]
  BY <1>1 DEF HandlerTypes, MatchNext
<1>4. /\ scan'[h].next = i + 1 /\ scan'[h].len = scan[h].len
      /\ \A g \in Handlers : g # h => scan'[g] = scan[g]
  BY <1>3
<1> HIDE DEF i
<1>5. Locked'
  BY <1>1, <1>2 DEF Locked
<1>6. (ReplaysAt(h))'
  <2>1. ReplaysAt(h)
    BY <1>1 DEF Replays
  <2>2. ClearBefore(stubs, req[h], i + 1)
    <3>1. ClearBefore(stubs, req[h], i)
      BY <1>2, <2>1 DEF ReplaysAt, i
    <3>2. QED
      BY <1>2, <3>1 DEF ClearBefore
  <2>3. ASSUME late[h] PROVE ReplayFrom(stubs, req[h], i + 1)
    <3>1. ReplayFrom(stubs, req[h], i)
      BY <1>2, <2>1, <2>3 DEF ReplaysAt, i
    <3>2. PICK q \in 1..Len(stubs) : i <= q /\ Matches(stubs[q], req[h]) /\ ClearBefore(stubs, req[h], q + 1)
      BY <3>1 DEF ReplayFrom
    <3>3. i + 1 <= q
      BY <1>2, <3>2
    <3>4. QED
      BY <3>2, <3>3 DEF ReplayFrom
  <2>4. QED
    BY <1>2, <1>4, <2>2, <2>3 DEF ReplaysAt
<1>7. ASSUME OnceFree PROVE (GroupsAt(h))'
  <2>1. GroupsAt(h)
    BY <1>1, <1>7 DEF Groups
  <2>2. /\ scan[h].len <= Len(stubs)
        /\ \A j \in 1..Len(stubs) : j < i => ~Matches(stubs[j], req[h])
        /\ \A j \in 1..Len(stubs) : j > scan[h].len => ProxyFree(stubs[j])
    BY <1>2, <2>1 DEF GroupsAt, i
  <2>3. \A j \in 1..Len(stubs) : j < i + 1 => ~Matches(stubs[j], req[h])
    BY <1>2, <2>2
  <2>4. QED
    BY <1>2, <1>4, <2>2, <2>3 DEF GroupsAt
<1>8. pc'[h] \notin Forwarding
  BY <1>2 DEF Forwarding
<1>9. QED
  BY <1>1, <1>2, <1>4, <1>5, <1>6, <1>7, <1>8, QuietKeeps

\* The handler takes a proxy: the stub at position i, or the default.
LEMMA RespondRecords ==
  ASSUME RecordInv, HttpInv', NEW h \in Handlers, NEW i \in Nat, NEW x \in Response, Respond(h, i, x),
         pc[h] = "scan",
         UNCHANGED <<stubs, default, serverVars, replies, saved>>,
         x.kind \in Modes => ClearBefore(stubs, req[h], i),
         x.kind \in Modes /\ OnceFree => x.kind # "proxyOnce" /\ ProxyIndex(stubs, i, req[h]),
         x.kind \in Modes /\ default.kind \notin Modes => ~late[h]
  PROVE  RecordInv'
<1>1. HandlerTypes /\ Locked /\ Continues(replies, replies')
  BY HttpInvNow DEF RecordInv
<1>2. CASE x.kind \notin Modes /\ Answer(h, x)
  BY <1>1, <1>2, QuietAnswer DEF serverVars
<1>3. CASE /\ x.kind \in Modes
           /\ pc' = [pc EXCEPT ![h] = "forward"]
           /\ match' = [match EXCEPT ![h] = [index |-> i, response |-> x]]
           /\ scan' = [scan EXCEPT ![h] = NoScan]
           /\ UNCHANGED <<req, reply, base, answer, late>>
  <2>1. /\ pc'[h] = "forward" /\ match'[h] = [index |-> i, response |-> x]
        /\ \A g \in Handlers : g # h =>
             /\ pc'[g] = pc[g] /\ req'[g] = req[g] /\ scan'[g] = scan[g] /\ match'[g] = match[g]
             /\ late'[g] = late[g]
    BY <1>1, <1>3 DEF HandlerTypes
  <2>2. Locked'
    <3>1. \A g \in Handlers : pc'[g] = "write" <=> pc[g] = "write"
      BY <2>1
    <3>2. QED
      BY <1>1, <1>3, <3>1 DEF Locked, serverVars
  <2>3. match'[h].index = i /\ match'[h].response = x
    BY <2>1
  <2>4. (ReplaysAt(h))'
    BY <1>3, <2>1, <2>3 DEF ReplaysAt
  <2>5. OnceFree => (GroupsAt(h))'
    BY <1>3, <2>1, <2>3 DEF GroupsAt
  <2>6. default.kind \notin Modes /\ late'[h] => pc'[h] \notin Forwarding
    BY <1>3
  <2>7. QED
    BY <1>1, <2>1, <2>2, <2>4, <2>5, <2>6, QuietKeeps
<1>4. QED
  BY <1>2, <1>3 DEF Respond

LEMMA MatchFoundRecords ==
  ASSUME RecordInv, HttpInv', NEW h \in Handlers, MatchFound(h)
  PROVE  RecordInv'
<1>1. HandlerTypes /\ Locked /\ Replays /\ Groups /\ stubs \in Seq(Stub) /\ Scans
  BY HttpInvNow DEF RecordInv
<1> DEFINE i == scan[h].next
<1>2. i \in 1..Len(stubs) /\ Matches(stubs[i], req[h]) /\ i \in Nat
  BY <1>1 DEF MatchFound, HandlerTypes, Scans
<1>3. stubs[i].responses \in Seq(Response)
  <2>1. stubs[i] \in Stub
    BY <1>1, <1>2
  <2>2. QED
    BY <2>1 DEF Stub
<1>4. /\ pc[h] = "scan"
      /\ UNCHANGED <<stubs, default, serverVars, replies, saved>>
      /\ \/ Respond(h, i, Empty)
         \/ \E k \in 1..Len(stubs[i].responses) : Respond(h, i, stubs[i].responses[k])
  BY <1>3 DEF MatchFound
<1>5. ReplaysAt(h) /\ (OnceFree => GroupsAt(h))
  BY <1>1 DEF Replays, Groups
<1>6. ClearBefore(stubs, req[h], i) /\ (late[h] => ReplayFrom(stubs, req[h], i))
  BY <1>4, <1>5 DEF ReplaysAt
<1>7. OnceFree => \A j \in 1..Len(stubs) : j < i => ~Matches(stubs[j], req[h])
  BY <1>4, <1>5 DEF GroupsAt
<1> HIDE DEF i
<1>8. CASE Respond(h, i, Empty)
  BY <1>2, <1>4, <1>8, ResponseValues, RespondRecords
<1>9. ASSUME NEW k \in 1..Len(stubs[i].responses), Respond(h, i, stubs[i].responses[k])
      PROVE  RecordInv'
  <2> DEFINE x == stubs[i].responses[k]
  <2>1. x \in Response
    BY <1>3
  <2>2. ASSUME x.kind \in Modes PROVE ~ProxyFree(stubs[i])
    BY <2>2 DEF ProxyFree
  <2>3. OnceFree => x.kind # "proxyOnce"
    BY <1>2 DEF OnceFree
  <2> HIDE DEF x
  <2>4. x.kind \in Modes /\ OnceFree => x.kind # "proxyOnce" /\ ProxyIndex(stubs, i, req[h])
    BY <1>2, <1>7, <2>2, <2>3 DEF ProxyIndex
  <2>5. ASSUME x.kind \in Modes, late[h] PROVE FALSE
    <3>1. PICK q \in 1..Len(stubs) : i <= q /\ Matches(stubs[q], req[h]) /\ ClearBefore(stubs, req[h], q + 1)
      BY <1>6, <2>5 DEF ReplayFrom
    <3>2. i < q + 1
      BY <1>2, <3>1
    <3>3. QED
      BY <1>2, <2>2, <2>5, <3>1, <3>2 DEF ClearBefore
  <2>6. QED
    BY <1>2, <1>4, <1>6, <1>9, <2>1, <2>4, <2>5, RespondRecords DEF x
<1>10. QED
  BY <1>4, <1>8, <1>9

LEMMA MatchDefaultRecords ==
  ASSUME RecordInv, HttpInv', NEW h \in Handlers, MatchDefault(h)
  PROVE  RecordInv'
<1>1. HandlerTypes /\ Groups /\ stubs \in Seq(Stub) /\ default \in Configured
  BY HttpInvNow DEF RecordInv
<1>2. /\ pc[h] = "scan" /\ scan[h].next > scan[h].len /\ Respond(h, 0, default)
      /\ UNCHANGED <<stubs, default, serverVars, replies, saved>>
  BY DEF MatchDefault
<1>3. scan[h].next \in Nat /\ scan[h].len \in Nat /\ Len(stubs) \in Nat /\ default \in Response
  BY <1>1, ConfiguredResponse DEF HandlerTypes
<1>4. ClearBefore(stubs, req[h], 0)
  BY <1>3 DEF ClearBefore
<1>5. ASSUME OnceFree PROVE default.kind # "proxyOnce" /\ ProxyIndex(stubs, 0, req[h])
  <2>1. GroupsAt(h)
    BY <1>1, <1>5 DEF Groups
  <2>2. \A j \in 1..Len(stubs) :
          (j < scan[h].next => ~Matches(stubs[j], req[h])) /\ (j > scan[h].len => ProxyFree(stubs[j]))
    BY <1>2, <2>1 DEF GroupsAt
  <2>3. \A j \in 1..Len(stubs) : Matches(stubs[j], req[h]) => ProxyFree(stubs[j])
    BY <1>2, <1>3, <2>2
  <2>4. QED
    BY <1>5, <2>3 DEF ProxyIndex, OnceFree
<1>6. QED
  BY <1>2, <1>3, <1>4, <1>5, RespondRecords

LEMMA ForwardRecords ==
  ASSUME RecordInv, HttpInv', NEW h \in Handlers, Forward(h)
  PROVE  RecordInv'
<1>1. /\ HandlerTypes /\ Locked /\ Replays /\ Groups /\ SavedIsReplayed
      /\ replies \in Seq([request : Requests, mode : Modes])
  BY HttpInvNow DEF RecordInv, ReplyTypes
<1> DEFINE o == [request |-> req[h], mode |-> match[h].response.kind]
<1>2. /\ pc[h] = "forward" /\ UNCHANGED <<stubs, default, saved, mu, stopPc>>
      /\ replies' = Append(replies, o)
  BY DEF Forward, serverVars
<1> HIDE DEF o
<1>3. Continues(replies, replies')
  <2>1. \A s \in Seq([request : Requests, mode : Modes]) : Continues(s, Append(s, o))
    BY DEF Continues
  <2>2. QED
    BY <1>1, <1>2, <2>1
<1>4. CASE Answer(h, Saved(Len(replies) + 1))
  BY <1>2, <1>3, <1>4, QuietAnswer
<1>5. CASE /\ pc' = [pc EXCEPT ![h] = "save"]
           /\ reply' = [reply EXCEPT ![h] = Len(replies) + 1]
           /\ UNCHANGED <<req, scan, match, base, answer, late>>
  <2>1. pc'[h] = "save" /\ \A g \in Handlers : g # h => pc'[g] = pc[g]
    BY <1>1, <1>5 DEF HandlerTypes
  <2>2. Locked'
    <3>1. \A g \in Handlers : pc'[g] = "write" <=> pc[g] = "write"
      BY <1>2, <2>1
    <3>2. QED
      BY <1>1, <1>2, <1>5, <3>1 DEF Locked
  <2>3. (ReplaysAt(h))'
    BY <1>1, <1>2, <1>5, <2>1 DEF Replays, ReplaysAt
  <2>4. OnceFree => (GroupsAt(h))'
    BY <1>1, <1>2, <1>5, <2>1 DEF Groups, GroupsAt
  <2>5. default.kind \notin Modes /\ late'[h] => pc'[h] \notin Forwarding
    BY <1>1, <1>2, <1>5 DEF SavedIsReplayed, ReplayedOnceSaved
  <2>6. QED
    BY <1>2, <1>3, <1>5, <2>1, <2>2, <2>3, <2>4, <2>5, QuietKeeps
<1>6. QED
  BY <1>4, <1>5 DEF Forward

LEMMA FailRecords ==
  ASSUME RecordInv, HttpInv', NEW h \in Handlers, ProxyFails(h)
  PROVE  RecordInv'
<1>1. Continues(replies, replies)
  BY HttpInvNow DEF RecordInv
<1>2. /\ pc[h] # "write" /\ Answer(h, Error)
      /\ UNCHANGED <<stubs, default, saved, replies, mu, stopPc>>
  BY DEF ProxyFails, serverVars
<1>3. QED
  BY <1>1, <1>2, QuietAnswer

LEMMA SaveReadRecords ==
  ASSUME RecordInv, HttpInv', NEW h \in Handlers, SaveRead(h)
  PROVE  RecordInv'
<1>1. HandlerTypes /\ Locked /\ Replays /\ Groups /\ SavedIsReplayed /\ Continues(replies, replies)
  BY HttpInvNow DEF RecordInv
<1>2. /\ pc[h] = "save" /\ pc'[h] = "write" /\ base'[h] = stubs /\ mu = None /\ mu' = h
      /\ \A g \in Handlers : g # h => pc'[g] = pc[g] /\ base'[g] = base[g]
      /\ UNCHANGED <<stubs, default, saved, replies, stopPc, req, scan, match, late>>
  BY <1>1 DEF SaveRead, HandlerTypes
<1>3. Locked'
  BY <1>1, <1>2, HttpAssumption DEF Locked
<1>4. (ReplaysAt(h))'
  BY <1>1, <1>2 DEF Replays, ReplaysAt
<1>5. OnceFree => (GroupsAt(h))'
  BY <1>1, <1>2 DEF Groups, GroupsAt
<1>6. default.kind \notin Modes /\ late'[h] => pc'[h] \notin Forwarding
  BY <1>1, <1>2 DEF SavedIsReplayed, ReplayedOnceSaved
<1>7. QED
  BY <1>1, <1>2, <1>3, <1>4, <1>5, <1>6, QuietKeeps

LEMMA StopRecords ==
  ASSUME RecordInv, HttpInv', StopStep \/ UNCHANGED vars
  PROVE  RecordInv'
<1>1. Locked /\ NoneIsLost /\ Replays /\ SavedIsReplayed /\ Groups
  BY DEF RecordInv
<1>2. UNCHANGED <<stubs, default, pc, req, scan, match, base, late, replies, saved>>
  BY DEF StopStep, StopBegin, StopDone, StopTimeout, vars, handlerVars
<1>3. Locked'
  BY <1>1, <1>2, HttpAssumption
     DEF Locked, StopStep, StopBegin, StopDone, StopTimeout, vars, serverVars
<1>4. NoneIsLost' /\ SavedIsReplayed'
  BY <1>1, <1>2 DEF NoneIsLost, InList, SavedIsReplayed, ReplayedOnceSaved
<1>5. Replays'
  BY <1>1, <1>2 DEF Replays, ReplaysAt, SavedFor
<1>6. Groups'
  BY <1>1, <1>2 DEF Groups, GroupsAt, Gathered, OnceFree
<1>7. QED
  BY <1>3, <1>4, <1>5, <1>6 DEF RecordInv

\* A recording is complete: what there is to know besides the list.
LEMMA RecordedFrame ==
  ASSUME RecordInv, NEW h \in Handlers, SaveWrite(h), Recorded(h)
  PROVE  /\ Locked' /\ SavedIsReplayed'
         /\ pc[h] = "write" /\ base[h] = stubs /\ pc'[h] = "idle"
         /\ \A g \in Handlers : g # h =>
              /\ pc'[g] = pc[g] /\ req'[g] = req[g] /\ scan'[g] = scan[g] /\ match'[g] = match[g]
              /\ late'[g] = late[g]
         /\ UNCHANGED <<default, replies>>
         /\ saved' = saved \cup {reply[h]} /\ reply[h] \in Nat
         /\ replies[reply[h]] = [request |-> req[h], mode |-> match[h].response.kind]
         /\ req[h] \in Requests /\ match[h].index \in Nat
         /\ NewStub(h).on = req[h] /\ NewStub(h).responses = <<Saved(reply[h])>> /\ ProxyFree(NewStub(h))
<1>1. HandlerTypes /\ ReplyTypes /\ Locked /\ SavedIsReplayed /\ Holders
  BY HttpInvNow DEF RecordInv
<1>2. /\ pc[h] = "write" /\ mu' = None /\ UNCHANGED <<default, stopPc, replies>>
      /\ Answer(h, Saved(reply[h])) /\ saved' = saved \cup {reply[h]}
  BY DEF SaveWrite, Recorded
<1>3. /\ pc'[h] = "idle"
      /\ \A g \in Handlers : g # h =>
           /\ pc'[g] = pc[g] /\ req'[g] = req[g] /\ scan'[g] = scan[g] /\ match'[g] = match[g]
           /\ late'[g] = late[g]
  BY <1>1, <1>2 DEF Answer, HandlerTypes
<1>4. mu = h /\ base[h] = stubs /\ \A g \in Handlers : pc'[g] # "write"
  BY <1>1, <1>2, <1>3 DEF Locked
<1>5. Locked'
  BY <1>1, <1>2, <1>4, HttpAssumption DEF Locked
<1>6. SavedIsReplayed'
  BY <1>1, <1>2, <1>3 DEF SavedIsReplayed, ReplayedOnceSaved
<1>7. /\ reply[h] \in Nat /\ req[h] \in Requests /\ match[h].index \in Nat
      /\ replies[reply[h]] = [request |-> req[h], mode |-> match[h].response.kind]
  BY <1>1, <1>2 DEF HandlerTypes, ReplyTypes, Holders, Holding
<1>8. /\ NewStub(h).on = req[h] /\ NewStub(h).responses = <<Saved(reply[h])>>
  BY DEF NewStub, Generated
<1>9. ProxyFree(NewStub(h))
  BY <1>8 DEF ProxyFree, Saved, Modes
<1>10. QED
  BY <1>2, <1>3, <1>4, <1>5, <1>6, <1>7, <1>8, <1>9

\* A new stub loses no reply, and no request for which one is replayed.
LEMMA InsertRecords ==
  ASSUME RecordInv, NEW h \in Handlers, SaveWrite(h), Recorded(h),
         NEW p, Inserted(stubs, p, NewStub(h), stubs'),
         match[h].response.kind = "proxyOnce" => p = OncePlace(stubs, match[h].index)
  PROVE  NoneIsLost' /\ Replays'
<1> DEFINE n == reply[h]
           x == NewStub(h)
<1>1. /\ NoneIsLost /\ Replays /\ stubs \in Seq(Stub) /\ HandlerTypes
  BY HttpInvNow DEF RecordInv
<1>2. /\ pc[h] = "write" /\ pc'[h] = "idle"
      /\ \A g \in Handlers : g # h =>
           /\ pc'[g] = pc[g] /\ req'[g] = req[g] /\ scan'[g] = scan[g] /\ match'[g] = match[g]
           /\ late'[g] = late[g]
      /\ replies' = replies /\ saved' = saved \cup {n} /\ n \in Nat
      /\ replies[n] = [request |-> req[h], mode |-> match[h].response.kind]
      /\ req[h] \in Requests /\ match[h].index \in Nat
      /\ x.on = req[h] /\ x.responses = <<Saved(n)>> /\ ProxyFree(x)
  BY RecordedFrame
<1>3. /\ p \in 1..Len(stubs) + 1 /\ Len(stubs') = Len(stubs) + 1 /\ Len(stubs) \in Nat
      /\ \A i \in 1..Len(stubs) + 1 :
           stubs'[i] = IF i < p THEN stubs[i] ELSE IF i = p THEN x ELSE stubs[i - 1]
  BY <1>1 DEF Inserted
<1>4. Inserted(stubs, p, x, stubs')
  OBVIOUS
<1> HIDE DEF x, n
<1>5. p \in 1..Len(stubs') /\ stubs'[p] = x
  BY <1>3
<1>6. NoneIsLost'
  <2>1. \E i \in 1..Len(stubs') : \E k \in 1..Len(stubs'[i].responses) : stubs'[i].responses[k] = Saved(n)
    <3>1. Len(x.responses) = 1 /\ x.responses[1] = Saved(n)
      BY <1>2
    <3>2. \E k \in 1..Len(stubs'[p].responses) : stubs'[p].responses[k] = Saved(n)
      BY <1>5, <3>1
    <3>3. QED
      BY <1>5, <3>2
  <2>2. ASSUME NEW m \in saved PROVE \E i \in 1..Len(stubs') : \E k \in 1..Len(stubs'[i].responses) :
                                       stubs'[i].responses[k] = Saved(m)
    <3>1. PICK i \in 1..Len(stubs) : \E k \in 1..Len(stubs[i].responses) : stubs[i].responses[k] = Saved(m)
      BY <1>1 DEF NoneIsLost, InList
    <3>2. CASE i < p
      <4>1. i \in 1..Len(stubs') /\ stubs'[i] = stubs[i]
        BY <1>3, <3>2
      <4>2. QED
        BY <3>1, <4>1
    <3>3. CASE p <= i
      <4>1. i + 1 \in 1..Len(stubs') /\ stubs'[i + 1] = stubs[i]
        BY <1>3, <3>3
      <4>2. QED
        BY <3>1, <4>1
    <3>4. i < p \/ p <= i
      BY <1>3
    <3>5. QED
      BY <3>2, <3>3, <3>4
  <2>3. \A m \in saved' : \E i \in 1..Len(stubs') : \E k \in 1..Len(stubs'[i].responses) :
          stubs'[i].responses[k] = Saved(m)
    BY <1>2, <2>1, <2>2
  <2>4. QED
    BY <2>3 DEF NoneIsLost, InList, Saved
<1>7. \A r, i : i \in Nat /\ ClearBefore(stubs, r, i) => ClearBefore(stubs', r, i)
  BY <1>1, <1>2, <1>4, InsertedClear
<1>8. \A r, i : i \in Nat /\ ReplayFrom(stubs, r, i) => ReplayFrom(stubs', r, i)
  BY <1>1, <1>2, <1>4, InsertedReplays
<1>9. ASSUME NEW g \in Handlers PROVE (ReplaysAt(g))'
  <2>1. CASE g = h
    BY <1>2, <2>1 DEF ReplaysAt
  <2>2. CASE g # h
    <3>1. ReplaysAt(g) /\ scan[g].next \in Nat /\ match[g].index \in Nat
      BY <1>1 DEF Replays, HandlerTypes
    <3>2. QED
      BY <1>2, <1>7, <1>8, <2>2, <3>1 DEF ReplaysAt
  <2>3. QED
    BY <2>1, <2>2
<1>10. ASSUME NEW r \in Requests, (SavedFor(r))' PROVE ReplayFrom(stubs', r, 1)
  <2>1. CASE SavedFor(r)
    BY <1>1, <1>8, <2>1 DEF Replays
  <2>2. CASE ~SavedFor(r)
    <3>1. replies[n] = [request |-> r, mode |-> "proxyOnce"]
      BY <1>2, <1>10, <2>2 DEF SavedFor, n
    <3>2. r = req[h] /\ match[h].response.kind = "proxyOnce"
      BY <1>2, <3>1
    <3>3. p = IF match[h].index \in 1..Len(stubs) THEN match[h].index ELSE 1
      BY <3>2 DEF OncePlace
    <3>4. ClearBefore(stubs, r, match[h].index)
      BY <1>1, <1>2, <3>2 DEF Replays, ReplaysAt
    <3>5. ClearBefore(stubs, r, p)
      BY <1>3, <3>3, <3>4 DEF ClearBefore
    <3>6. ClearBefore(stubs', r, p)
      BY <1>3, <1>7, <3>5
    <3>7. ClearBefore(stubs', r, p + 1)
      BY <1>2, <1>3, <1>5, <3>6 DEF ClearBefore
    <3>8. Matches(stubs'[p], r)
      BY <1>2, <1>5, <3>2 DEF Matches
    <3>9. 1 <= p
      BY <1>3
    <3>10. QED
      BY <1>5, <3>7, <3>8, <3>9 DEF ReplayFrom
  <2>3. QED
    BY <2>1, <2>2
<1>11. Replays'
  BY <1>9, <1>10 DEF Replays
<1>12. QED
  BY <1>6, <1>11

\* A new stub at the end gathers the replies to its request.
LEMMA AppendRecords ==
  ASSUME RecordInv, NEW h \in Handlers, SaveWrite(h), Recorded(h),
         Inserted(stubs, Len(stubs) + 1, NewStub(h), stubs'),
         SameOn(stubs, match[h].index, NewStub(h)) = {}
  PROVE  Groups'
<1> DEFINE n == reply[h]
           x == NewStub(h)
<1>1. /\ Groups /\ stubs \in Seq(Stub) /\ HandlerTypes /\ Scans
  BY HttpInvNow DEF RecordInv
<1>2. /\ pc[h] = "write" /\ pc'[h] = "idle"
      /\ \A g \in Handlers : g # h =>
           /\ pc'[g] = pc[g] /\ req'[g] = req[g] /\ scan'[g] = scan[g] /\ match'[g] = match[g]
      /\ replies' = replies /\ default' = default
      /\ replies[n] = [request |-> req[h], mode |-> match[h].response.kind]
      /\ req[h] \in Requests /\ match[h].index \in Nat
      /\ x.on = req[h] /\ x.responses = <<Saved(n)>> /\ ProxyFree(x)
  BY RecordedFrame
<1>3. Inserted(stubs, Len(stubs) + 1, x, stubs') /\ SameOn(stubs, match[h].index, x) = {}
  OBVIOUS
<1> HIDE DEF x
<1>4. /\ Len(stubs') = Len(stubs) + 1 /\ stubs'[Len(stubs) + 1] = x /\ Len(stubs) \in Nat
      /\ \A i \in 1..Len(stubs) : stubs'[i] = stubs[i]
  BY <1>1, <1>3 DEF Inserted
<1>5. \A r : \A i \in 0..Len(stubs) : ProxyIndex(stubs, i, r) => ProxyIndex(stubs', i, r)
  BY <1>1, <1>2, <1>3, AppendedKeeps
<1>6. \A r : \A j \in 1..Len(stubs) : Gathers(stubs, j, r) => Gathers(stubs', j, r)
  BY <1>1, <1>2, <1>3, AppendedKeeps
<1>7. SUFFICES ASSUME OnceFree' PROVE Gathered' /\ \A g \in Handlers : (GroupsAt(g))'
  BY DEF Groups
<1>8. OnceFree
  BY <1>2, <1>4, <1>7 DEF OnceFree
<1>9. Gathered /\ \A g \in Handlers : GroupsAt(g)
  BY <1>1, <1>8 DEF Groups
<1>10. ASSUME NEW g \in Handlers PROVE (GroupsAt(g))'
  <2>1. CASE g = h
    BY <1>2, <2>1 DEF GroupsAt
  <2>2. CASE g # h /\ pc[g] = "scan"
    <3>1. /\ scan[g].len <= Len(stubs)
          /\ \A j \in 1..Len(stubs) : j < scan[g].next => ~Matches(stubs[j], req[g])
          /\ \A j \in 1..Len(stubs) : j > scan[g].len => ProxyFree(stubs[j])
      BY <1>9, <2>2 DEF GroupsAt
    <3>2. scan[g].next \in 1..scan[g].len + 1 /\ scan[g].len \in Nat
      BY <1>1, <2>2 DEF Scans, HandlerTypes
    <3>3. \A j \in 1..Len(stubs') : j \in 1..Len(stubs) \/ j = Len(stubs) + 1
      BY <1>4
    <3>4. \A j \in 1..Len(stubs') : j < scan[g].next => ~Matches(stubs'[j], req[g])
      BY <1>4, <3>1, <3>2, <3>3
    <3>5. \A j \in 1..Len(stubs') : j > scan[g].len => ProxyFree(stubs'[j])
      BY <1>2, <1>4, <3>1, <3>3
    <3>6. scan[g].len <= Len(stubs')
      BY <1>4, <3>1, <3>2
    <3>7. QED
      BY <1>2, <2>2, <3>4, <3>5, <3>6 DEF GroupsAt
  <2>3. CASE g # h /\ pc[g] \in Forwarding
    <3>1. match[g].response.kind # "proxyOnce" /\ ProxyIndex(stubs, match[g].index, req[g])
      BY <1>9, <2>3 DEF GroupsAt, Forwarding
    <3>2. match[g].index \in 0..Len(stubs)
      BY <1>4, <3>1 DEF ProxyIndex
    <3>3. pc'[g] # "scan" /\ match'[g] = match[g] /\ req'[g] = req[g]
      BY <1>2, <2>3 DEF Forwarding
    <3>4. QED
      BY <1>5, <3>1, <3>2, <3>3 DEF GroupsAt
  <2>4. CASE g # h /\ pc[g] \notin Forwarding /\ pc[g] # "scan"
    BY <1>2, <2>4 DEF GroupsAt, Forwarding
  <2>5. QED
    BY <2>1, <2>2, <2>3, <2>4
<1>11. Gathers(stubs', Len(stubs) + 1, req[h])
  <2>1. ProxyIndex(stubs, match[h].index, req[h])
    BY <1>2, <1>9 DEF GroupsAt
  <2>2. match[h].index \in 0..Len(stubs)
    BY <1>4, <2>1 DEF ProxyIndex
  <2>3. ProxyIndex(stubs', match[h].index, req[h]) /\ match[h].index \in 0..Len(stubs')
        /\ match[h].index # Len(stubs) + 1
    BY <1>4, <1>5, <2>1, <2>2
  <2>4. \A l \in 1..Len(stubs) : l = match[h].index \/ stubs[l].on # req[h]
    BY <1>2, <1>3 DEF SameOn
  <2>5. \A l \in 1..Len(stubs') : l < Len(stubs) + 1 => l = match[h].index \/ stubs'[l].on # req[h]
    BY <1>4, <2>4
  <2>6. stubs'[Len(stubs) + 1].on = req[h]
    BY <1>2, <1>4
  <2>7. QED
    BY <2>3, <2>5, <2>6 DEF Gathers
<1>12. Gathered'
  <2>1. ASSUME NEW i \in 1..Len(stubs'), NEW k \in 1..Len(stubs'[i].responses),
               stubs'[i].responses[k].kind = "saved",
               replies[stubs'[i].responses[k].id].mode = "proxyAlways"
        PROVE  Gathers(stubs', i, replies[stubs'[i].responses[k].id].request)
    <3>1. CASE i \in 1..Len(stubs)
      <4>1. stubs'[i] = stubs[i]
        BY <1>4, <3>1
      <4>2. Gathers(stubs, i, replies[stubs[i].responses[k].id].request)
        BY <1>9, <2>1, <3>1, <4>1 DEF Gathered
      <4>3. QED
        BY <1>6, <3>1, <4>1, <4>2
    <3>2. CASE i = Len(stubs) + 1
      <4>1. stubs'[i].responses = <<Saved(n)>>
        BY <1>2, <1>4, <3>2
      <4>2. k = 1 /\ stubs'[i].responses[k] = Saved(n)
        BY <4>1
      <4>3. stubs'[i].responses[k].id = n
        BY <4>2 DEF Saved
      <4>4. replies[stubs'[i].responses[k].id].request = req[h]
        BY <1>2, <4>3
      <4>5. QED
        BY <1>11, <3>2, <4>4
    <3>3. QED
      BY <1>4, <3>1, <3>2
  <2>2. QED
    BY <1>2, <2>1 DEF Gathered
<1>13. QED
  BY <1>10, <1>12

\* A reply appended to the stub that gathers the replies to its request.
LEMMA ExtendRecords ==
  ASSUME RecordInv, NEW h \in Handlers, SaveWrite(h), Recorded(h),
         match[h].response.kind = "proxyAlways",
         NEW p \in SameOn(stubs, match[h].index, NewStub(h)),
         \A q \in SameOn(stubs, match[h].index, NewStub(h)) : p <= q,
         Extended(stubs, p, reply[h], stubs')
  PROVE  NoneIsLost' /\ Replays' /\ Groups'
<1> DEFINE n == reply[h]
<1>1. /\ NoneIsLost /\ Replays /\ Groups /\ stubs \in Seq(Stub) /\ HandlerTypes
  BY HttpInvNow DEF RecordInv
<1>2. /\ pc[h] = "write" /\ pc'[h] = "idle"
      /\ \A g \in Handlers : g # h =>
           /\ pc'[g] = pc[g] /\ req'[g] = req[g] /\ scan'[g] = scan[g] /\ match'[g] = match[g]
           /\ late'[g] = late[g]
      /\ replies' = replies /\ default' = default /\ saved' = saved \cup {n} /\ n \in Nat
      /\ replies[n] = [request |-> req[h], mode |-> "proxyAlways"]
      /\ req[h] \in Requests /\ NewStub(h).on = req[h]
  BY RecordedFrame
<1>3. /\ p \in 1..Len(stubs) /\ Len(stubs') = Len(stubs)
      /\ \A i \in 1..Len(stubs) : i # p => stubs'[i] = stubs[i]
      /\ stubs'[p].on = stubs[p].on /\ stubs'[p].responses = Append(stubs[p].responses, Saved(n))
  BY DEF Extended
<1>4. SameShape(stubs, stubs')
  BY <1>1, <1>2, ExtendedShape DEF SameShape
<1>5. stubs[p].responses \in Seq(Response)
  <2>1. stubs[p] \in Stub
    BY <1>1, <1>3
  <2>2. QED
    BY <2>1 DEF Stub
<1> DEFINE z == Len(stubs[p].responses)
<1>6. /\ z \in Nat /\ Len(stubs'[p].responses) = z + 1 /\ stubs'[p].responses[z + 1] = Saved(n)
      /\ \A k \in 1..z : stubs'[p].responses[k] = stubs[p].responses[k]
  BY <1>3, <1>5
<1> HIDE DEF n
<1>7. NoneIsLost'
  <2>1. \E i \in 1..Len(stubs') : \E k \in 1..Len(stubs'[i].responses) : stubs'[i].responses[k] = Saved(n)
    <3>1. p \in 1..Len(stubs') /\ z + 1 \in 1..Len(stubs'[p].responses)
      BY <1>3, <1>6
    <3>2. QED
      BY <1>6, <3>1
  <2>2. ASSUME NEW m \in saved PROVE \E i \in 1..Len(stubs') : \E k \in 1..Len(stubs'[i].responses) :
                                       stubs'[i].responses[k] = Saved(m)
    <3>1. PICK i \in 1..Len(stubs) : \E k \in 1..Len(stubs[i].responses) : stubs[i].responses[k] = Saved(m)
      BY <1>1 DEF NoneIsLost, InList
    <3>2. PICK k \in 1..Len(stubs[i].responses) : stubs[i].responses[k] = Saved(m)
      BY <3>1
    <3>3. k \in 1..Len(stubs'[i].responses) /\ stubs'[i].responses[k] = stubs[i].responses[k]
      <4>1. CASE i = p
        BY <1>6, <4>1
      <4>2. CASE i # p
        BY <1>3, <4>2
      <4>3. QED
        BY <4>1, <4>2
    <3>4. QED
      BY <1>3, <3>2, <3>3
  <2>3. \A m \in saved' : \E i \in 1..Len(stubs') : \E k \in 1..Len(stubs'[i].responses) :
          stubs'[i].responses[k] = Saved(m)
    BY <1>2, <2>1, <2>2
  <2>4. QED
    BY <2>3 DEF NoneIsLost, InList, Saved
<1>8. \A r, i : /\ ClearBefore(stubs, r, i) => ClearBefore(stubs', r, i)
                /\ ReplayFrom(stubs, r, i) => ReplayFrom(stubs', r, i)
                /\ ProxyIndex(stubs, i, r) => ProxyIndex(stubs', i, r)
  BY <1>1, <1>4, SameShapeKeeps
<1>9. Replays'
  <2>1. ASSUME NEW r \in Requests, (SavedFor(r))' PROVE ReplayFrom(stubs', r, 1)
    <3>1. PICK m \in saved' : replies[m] = [request |-> r, mode |-> "proxyOnce"]
      BY <1>2, <2>1 DEF SavedFor
    <3>2. m # n
      BY <1>2, <3>1
    <3>3. SavedFor(r)
      BY <1>2, <3>1, <3>2 DEF SavedFor
    <3>4. QED
      BY <1>1, <1>8, <3>3 DEF Replays
  <2>2. ASSUME NEW g \in Handlers PROVE (ReplaysAt(g))'
    <3>1. CASE g = h
      BY <1>2, <3>1 DEF ReplaysAt
    <3>2. CASE g # h
      <4>1. ReplaysAt(g)
        BY <1>1 DEF Replays
      <4>2. QED
        BY <1>2, <1>8, <3>2, <4>1 DEF ReplaysAt
    <3>3. QED
      BY <3>1, <3>2
  <2>3. QED
    BY <2>1, <2>2 DEF Replays
<1>10. Groups'
  <2>1. SUFFICES ASSUME OnceFree' PROVE Gathered' /\ \A g \in Handlers : (GroupsAt(g))'
    BY DEF Groups
  <2>2. OnceFree
    <3>1. ASSUME NEW i \in 1..Len(stubs), NEW k \in 1..Len(stubs[i].responses)
          PROVE  stubs[i].responses[k].kind # "proxyOnce"
      <4>1. i \in 1..Len(stubs') /\ k \in 1..Len(stubs'[i].responses)
            /\ stubs'[i].responses[k] = stubs[i].responses[k]
        <5>1. CASE i = p
          BY <1>3, <1>6, <5>1
        <5>2. CASE i # p
          BY <1>3, <5>2
        <5>3. QED
          BY <5>1, <5>2
      <4>2. QED
        BY <2>1, <4>1 DEF OnceFree
    <3>2. QED
      BY <1>2, <2>1, <3>1 DEF OnceFree
  <2>3. Gathered /\ \A g \in Handlers : GroupsAt(g)
    BY <1>1, <2>2 DEF Groups
  <2>4. ASSUME NEW g \in Handlers PROVE (GroupsAt(g))'
    <3>1. CASE g = h
      BY <1>2, <3>1 DEF GroupsAt
    <3>2. CASE g # h
      <4>1. GroupsAt(g)
        BY <2>3
      <4>2. QED
        BY <1>2, <1>4, <1>8, <3>2, <4>1 DEF GroupsAt, SameShape, Matches
    <3>3. QED
      BY <3>1, <3>2
  <2>5. Gathers(stubs, p, req[h])
    <3>1. ProxyIndex(stubs, match[h].index, req[h])
      BY <1>2, <2>3 DEF GroupsAt
    <3>2. match[h].index \in 0..Len(stubs)
      BY <1>1, <3>1 DEF ProxyIndex
    <3>3. p # match[h].index /\ stubs[p].on = req[h]
      BY <1>2 DEF SameOn
    <3>4. \A l \in 1..Len(stubs) : l < p => l = match[h].index \/ stubs[l].on # req[h]
      BY <1>2, <1>3 DEF SameOn
    <3>5. QED
      BY <3>1, <3>2, <3>3, <3>4 DEF Gathers
  <2>6. \A r : \A j \in 1..Len(stubs) : Gathers(stubs, j, r) => Gathers(stubs', j, r)
    BY <1>1, <1>4, SameShapeGathers
  <2>7. ASSUME NEW i \in 1..Len(stubs'), NEW k \in 1..Len(stubs'[i].responses),
               stubs'[i].responses[k].kind = "saved",
               replies[stubs'[i].responses[k].id].mode = "proxyAlways"
        PROVE  Gathers(stubs', i, replies[stubs'[i].responses[k].id].request)
    <3>1. CASE i = p /\ k = z + 1
      <4>1. stubs'[i].responses[k].id = n
        BY <1>6, <3>1 DEF Saved
      <4>2. replies[stubs'[i].responses[k].id].request = req[h]
        BY <1>2, <4>1
      <4>3. QED
        BY <1>3, <2>5, <2>6, <3>1, <4>2
    <3>2. CASE ~(i = p /\ k = z + 1)
      <4>1. /\ i \in 1..Len(stubs) /\ k \in 1..Len(stubs[i].responses)
            /\ stubs'[i].responses[k] = stubs[i].responses[k]
        <5>1. CASE i = p
          <6>1. k \in 1..z
            BY <1>6, <3>2, <5>1
          <6>2. QED
            BY <1>3, <1>6, <5>1, <6>1
        <5>2. CASE i # p
          BY <1>3, <5>2
        <5>3. QED
          BY <5>1, <5>2
      <4>2. Gathers(stubs, i, replies[stubs[i].responses[k].id].request)
        BY <2>3, <2>7, <4>1 DEF Gathered
      <4>3. QED
        BY <2>6, <4>1, <4>2
    <3>3. QED
      BY <3>1, <3>2
  <2>8. Gathered'
    BY <1>2, <2>7 DEF Gathered
  <2>9. QED
    BY <2>4, <2>8
<1>11. QED
  BY <1>7, <1>9, <1>10

LEMMA SaveWriteRecords ==
  ASSUME RecordInv, HttpInv', NEW h \in Handlers, SaveWrite(h)
  PROVE  RecordInv'
<1>1. HttpInv /\ Locked /\ Continues(replies, replies) /\ HandlerTypes
  BY HttpInvNow DEF RecordInv
<1>2. pc[h] = "write" /\ mu' = None /\ UNCHANGED <<default, stopPc, replies>>
  BY DEF SaveWrite
<1>3. base[h] = stubs
  BY <1>1, <1>2 DEF Locked
<1>4. ASSUME Recorded(h), NoneIsLost', Replays', Groups' PROVE RecordInv'
  <2>1. Locked' /\ SavedIsReplayed'
    BY <1>4, RecordedFrame
  <2>2. QED
    BY <1>4, <2>1 DEF RecordInv
<1>5. CASE /\ match[h].response.kind = "proxyOnce" /\ Recorded(h)
           /\ Inserted(base[h], OncePlace(base[h], match[h].index), NewStub(h), stubs')
  <2>1. NoneIsLost' /\ Replays'
    BY <1>3, <1>5, InsertRecords
  <2>2. Groups'
    <3>1. SUFFICES ASSUME OnceFree' PROVE FALSE
      BY DEF Groups
    <3>2. OnceFree
      <4> DEFINE p == OncePlace(stubs, match[h].index)
      <4>1. /\ p \in 1..Len(stubs) + 1 /\ Len(stubs') = Len(stubs) + 1 /\ Len(stubs) \in Nat
            /\ \A i \in 1..Len(stubs) + 1 :
                 stubs'[i] = IF i < p THEN stubs[i] ELSE IF i = p THEN NewStub(h) ELSE stubs[i - 1]
        BY <1>1, <1>3, <1>5, HttpInvNow DEF Inserted
      <4> HIDE DEF p
      <4>2. \A i \in 1..Len(stubs) : \E j \in 1..Len(stubs') : stubs'[j] = stubs[i]
        <5>1. ASSUME NEW i \in 1..Len(stubs) PROVE \E j \in 1..Len(stubs') : stubs'[j] = stubs[i]
          <6>1. CASE i < p
            <7>1. i \in 1..Len(stubs') /\ stubs'[i] = stubs[i]
              BY <4>1, <6>1
            <7>2. QED
              BY <7>1
          <6>2. CASE p <= i
            <7>1. i + 1 \in 1..Len(stubs') /\ stubs'[i + 1] = stubs[i]
              BY <4>1, <6>2
            <7>2. QED
              BY <7>1
          <6>3. QED
            BY <4>1, <6>1, <6>2
        <5>2. QED
          BY <5>1
      <4>3. QED
        BY <1>2, <3>1, <4>2 DEF OnceFree
    <3>3. QED
      BY <1>2, <1>5, <3>2 DEF RecordInv, Groups, GroupsAt
  <2>3. QED
    BY <1>4, <1>5, <2>1, <2>2
<1>6. CASE /\ match[h].response.kind = "proxyAlways" /\ Recorded(h)
           /\ SameOn(base[h], match[h].index, NewStub(h)) = {}
           /\ Inserted(base[h], Len(base[h]) + 1, NewStub(h), stubs')
  <2>1. NoneIsLost' /\ Replays'
    BY <1>3, <1>6, InsertRecords
  <2>2. Groups'
    BY <1>3, <1>6, AppendRecords
  <2>3. QED
    BY <1>4, <1>6, <2>1, <2>2
<1>7. CASE /\ match[h].response.kind = "proxyAlways" /\ Recorded(h)
           /\ \E p \in SameOn(base[h], match[h].index, NewStub(h)) :
                /\ \A q \in SameOn(base[h], match[h].index, NewStub(h)) : p <= q
                /\ Extended(base[h], p, reply[h], stubs')
  <2>1. NoneIsLost' /\ Replays' /\ Groups'
    BY <1>3, <1>7, ExtendRecords
  <2>2. QED
    BY <1>4, <1>7, <2>1
<1>8. QED
  BY <1>1, <1>5, <1>6, <1>7, SaveEffect

LEMMA RecordInvInit == Init => RecordInv
<1>1. SUFFICES ASSUME Init PROVE RecordInv
  OBVIOUS
<1>2. HttpInv
  BY <1>1, HttpInvInit
<1>3. saved = {} /\ \A h \in Handlers : pc[h] = "idle" /\ ~late[h]
  BY <1>1 DEF Init
<1>4. Locked
  BY <1>1, <1>3, HttpAssumption DEF Init, Locked
<1>5. NoneIsLost /\ SavedIsReplayed /\ Replays
  BY <1>3 DEF NoneIsLost, SavedIsReplayed, ReplayedOnceSaved, Replays, ReplaysAt, SavedFor
<1>6. Groups
  <2>1. \A i \in 1..Len(stubs) : stubs[i] \in ConfiguredStub
    BY <1>1, HttpAssumption DEF Init
  <2>2. Gathered
    BY <2>1, ConfiguredHoldsNoReply DEF Gathered
  <2>3. QED
    BY <1>3, <2>2 DEF Groups, GroupsAt
<1>7. QED
  BY <1>2, <1>4, <1>5, <1>6 DEF RecordInv

LEMMA RecordInvStep == RecordInv /\ [Next]_vars => RecordInv'
<1>1. SUFFICES ASSUME RecordInv, [Next]_vars PROVE RecordInv'
  OBVIOUS
<1>2. HttpInv'
  BY <1>1, HttpInvStep DEF RecordInv
<1>3. ASSUME NEW h \in Handlers, Receive(h) \/ Serve(h) PROVE RecordInv'
  BY <1>1, <1>2, <1>3, ReceiveRecords, MatchBeginRecords, MatchNextRecords, MatchFoundRecords,
     MatchDefaultRecords, ForwardRecords, FailRecords, SaveReadRecords, SaveWriteRecords DEF Serve
<1>4. QED
  BY <1>1, <1>2, <1>3, StopRecords DEF Next

\* The invariant of recording: what the lock protects, and where the proxies, the
\* saved replies and the requests under way are in the list.
THEOREM RecordInvariant == Spec => []RecordInv
BY RecordInvInit, RecordInvStep, PTL DEF Spec

\* Requests that are recorded at the same time lose no reply and save none twice.
THEOREM RepliesAreSavedOnce == Spec => []SavedOnce
<1>1. RecordInv => SavedOnce
  <2>1. SUFFICES ASSUME RecordInv, NEW n \in saved PROVE Cardinality(Places(n)) = 1
    BY DEF SavedOnce
  <2>2. HttpInv /\ n \in Nat
    BY <2>1, HttpInvNow DEF RecordInv, ReplyTypes
  <2>3. Places(n) # {}
    BY <2>1, PlacesIs DEF RecordInv, NoneIsLost, InList
  <2>4. QED
    BY <2>2, <2>3, OnePlace, AtMostOne
<1>2. QED
  BY <1>1, RecordInvariant, PTL

\* A request that comes after a reply to one like it was saved is not forwarded,
\* unless the default response is a proxy.
THEOREM RepliesAreReplayed == Spec => []SavedIsReplayed
<1>1. RecordInv => SavedIsReplayed
  BY DEF RecordInv
<1>2. QED
  BY <1>1, RecordInvariant, PTL

\* proxyAlways gathers the replies to one request in one stub.
THEOREM RepliesAreGathered == Spec => []RepliesGrouped
<1>1. RecordInv => RepliesGrouped
  <2>1. SUFFICES ASSUME RecordInv, OnceFree, NEW m \in saved, NEW n \in saved,
                        replies[m] = replies[n], replies[m].mode = "proxyAlways",
                        NEW x \in Places(m), NEW y \in Places(n)
                 PROVE  x[1] = y[1]
    BY DEF RepliesGrouped
  <2>2. stubs \in Seq(Stub) /\ Gathered
    BY <2>1, HttpInvNow DEF RecordInv, Groups
  <2>3. ASSUME NEW k, NEW z \in Places(k), replies[k].mode = "proxyAlways"
        PROVE  z[1] \in 1..Len(stubs) /\ Gathers(stubs, z[1], replies[k].request)
    <3>1. PICK i \in 1..Len(stubs) : \E l \in 1..Len(stubs[i].responses) :
            z = <<i, l>> /\ stubs[i].responses[l] = Saved(k)
      BY <2>3, PlacesIs
    <3>2. PICK l \in 1..Len(stubs[i].responses) : z = <<i, l>> /\ stubs[i].responses[l] = Saved(k)
      BY <3>1
    <3>3. stubs[i].responses[l].kind = "saved" /\ stubs[i].responses[l].id = k
      BY <3>2 DEF Saved
    <3>4. Gathers(stubs, i, replies[k].request)
      BY <2>2, <2>3, <3>3 DEF Gathered
    <3>5. z[1] = i
      BY <3>2
    <3>6. QED
      BY <3>4, <3>5
  <2>4. x[1] \in 1..Len(stubs) /\ Gathers(stubs, x[1], replies[m].request)
    BY <2>1, <2>3
  <2>5. y[1] \in 1..Len(stubs) /\ Gathers(stubs, y[1], replies[m].request)
    BY <2>1, <2>3
  <2>6. QED
    BY <2>2, <2>4, <2>5, GathersOne
<1>2. QED
  BY <1>1, RecordInvariant, PTL
=============================================================================
