--------------------------- MODULE TcpServerProofs ---------------------------
(***************************************************************************)
(* The TCP imposter implements ConnectionServer, and its scripts are run   *)
(* one after the other.                                                    *)
(***************************************************************************)
EXTENDS TcpServer, FiniteSetTheorems, TLAPS

\* The connections of the TCP imposter are served and counted as
\* ConnectionServer says, however their handlers end.
THEOREM TcpImplementsServer == Spec => ServesConnections
<1>1. Init => ConnInit
  BY DEF Init
<1>2. [Next]_vars => [ConnNext]_serverVars
  <2>1. SUFFICES ASSUME Next PROVE [ConnNext]_serverVars
    BY DEF vars, serverVars
  <2>2. ASSUME NEW c \in Conns, Send(c) \/ FallSilent(c) PROVE UNCHANGED serverVars
    BY <2>2 DEF Send, FallSilent
  <2>3. ASSUME NEW c \in Conns, ReadBytes(c) \/ ReadEnds(c) \/ Record(c) \/ Match(c)
                                  \/ ScriptBegin(c) \/ ProxySent(c) \/ ReadOrigin(c)
        PROVE  UNCHANGED serverVars
    BY <2>3 DEF ReadBytes, ReadEnds, Record, Match, ScriptBegin, ProxySent, ReadOrigin
  <2>4. ASSUME NEW c \in Conns, NoRequest(c) \/ AnswerIs(c) \/ ScriptEnds(c) \/ ScriptFails(c)
                                  \/ ProxyFails(c) \/ OriginEnds(c)
        PROVE  HandlerEnds(c)
    BY <2>4 DEF NoRequest, AnswerIs, ScriptEnds, ScriptFails, ProxyFails, OriginEnds, Reply
  <2>5. ASSUME NEW c \in Conns, Handle(c) PROVE [ConnNext]_serverVars
    BY <2>3, <2>4, <2>5 DEF Handle, ConnNext
  <2>6. ASSUME StopTcp PROVE Stop
    BY <2>6 DEF StopTcp, Stop
  <2>7. QED
    BY <2>1, <2>2, <2>5, <2>6 DEF Next, ConnNext
<1>3. QED
  BY <1>1, <1>2, PTL DEF Spec, ServesConnections, ConnSpec

-----------------------------------------------------------------------------
\* The inductive step: only the holder of s.mu is inside a script.
LEMMA ScriptNext == ScriptInv /\ [Next]_vars => ScriptInv'
<1>1. SUFFICES ASSUME ScriptInv, [Next]_vars PROVE ScriptInv'
  OBVIOUS
<1>2. Nobody \notin Conns /\ Answers \subseteq {"is", "inject", "proxy", "invalidProxy"}
  BY TcpAssumption
<1>3. ASSUME UNCHANGED <<phase, seen, state, ran, mu>> PROVE ScriptInv'
  BY <1>1, <1>3 DEF ScriptInv, ScriptsAreSerial
\* A handler moves on, outside of a script.
<1>4. ASSUME NEW c \in Conns, NEW p \in phases, p # "script", phase' = [phase EXCEPT ![c] = p],
             UNCHANGED <<seen, state, ran, mu>>
      PROVE  ScriptInv'
  BY <1>1, <1>4 DEF ScriptInv, ScriptsAreSerial
<1>5. ASSUME NEW c \in Conns, ReadBytes(c) PROVE ScriptInv'
  <2>1. PICK p \in {"more", "record"} : phase' = [phase EXCEPT ![c] = p]
    BY <1>5 DEF ReadBytes
  <2>2. UNCHANGED <<seen, state, ran, mu>>
    BY <1>5 DEF ReadBytes
  <2>3. QED
    BY <1>4, <2>1, <2>2 DEF phases
<1>6. ASSUME NEW c \in Conns, Match(c) PROVE ScriptInv'
  <2>1. PICK p \in Answers : phase' = [phase EXCEPT ![c] = p]
    BY <1>6 DEF Match
  <2>2. UNCHANGED <<seen, state, ran, mu>>
    BY <1>6 DEF Match
  <2>3. QED
    BY <1>2, <1>4, <2>1, <2>2 DEF phases
<1>7. ASSUME NEW c \in Conns, ReadEnds(c) \/ Record(c) \/ ProxySent(c) PROVE ScriptInv'
  <2>1. PICK p \in {"record", "match", "origin"} : phase' = [phase EXCEPT ![c] = p]
    BY <1>7 DEF ReadEnds, Record, ProxySent
  <2>2. UNCHANGED <<seen, state, ran, mu>>
    BY <1>7 DEF ReadEnds, Record, ProxySent
  <2>3. QED
    BY <1>4, <2>1, <2>2 DEF phases
<1>8. ASSUME NEW c \in Conns, NoRequest(c) \/ AnswerIs(c) \/ ProxyFails(c) \/ OriginEnds(c) PROVE ScriptInv'
  <2>1. phase' = [phase EXCEPT ![c] = "done"]
    BY <1>8 DEF NoRequest, AnswerIs, ProxyFails, OriginEnds, Reply
  <2>2. UNCHANGED <<seen, state, ran, mu>>
    BY <1>8 DEF NoRequest, AnswerIs, ProxyFails, OriginEnds, Reply
  <2>3. QED
    BY <1>4, <2>1, <2>2 DEF phases
<1>9. ASSUME NEW c \in Conns, ScriptBegin(c) PROVE ScriptInv'
  <2>1. /\ mu = Nobody /\ mu' = c
        /\ seen' = [seen EXCEPT ![c] = state]
        /\ phase' = [phase EXCEPT ![c] = "script"]
        /\ UNCHANGED <<state, ran>>
    BY <1>9 DEF ScriptBegin
  <2>2. \A d \in Conns : phase[d] # "script"
    BY <1>1, <1>2, <2>1 DEF ScriptInv
  <2>3. QED
    BY <1>1, <2>1, <2>2 DEF ScriptInv, ScriptsAreSerial, phases
<1>10. ASSUME NEW c \in Conns, ScriptEnds(c) \/ ScriptFails(c) PROVE ScriptInv'
  <2>1. phase[c] = "script" /\ phase' = [phase EXCEPT ![c] = "done"] /\ UNCHANGED seen
    BY <1>10 DEF ScriptEnds, ScriptFails, Reply, At
  <2>2. (state' = seen[c] + 1 /\ ran' = ran + 1) \/ UNCHANGED <<state, ran>>
    BY <1>10 DEF ScriptEnds, ScriptFails
  <2>3. state = seen[c] /\ \A d \in Conns : phase[d] = "script" => d = c
    BY <1>1, <2>1 DEF ScriptInv
  <2>4. \A d \in Conns : phase'[d] # "script"
    BY <1>1, <2>1, <2>3 DEF ScriptInv
  <2>5. state' = ran' /\ state' \in Nat
    BY <1>1, <2>2, <2>3 DEF ScriptInv, ScriptsAreSerial
  <2>6. phase' \in [Conns -> phases] /\ seen' \in [Conns -> Nat]
    BY <1>1, <2>1 DEF ScriptInv, phases
  <2>7. QED
    BY <2>4, <2>5, <2>6 DEF ScriptInv, ScriptsAreSerial
<1>11. ASSUME NEW c \in Conns, Send(c) \/ FallSilent(c) \/ ReadOrigin(c) PROVE ScriptInv'
  BY <1>3, <1>11 DEF Send, FallSilent, ReadOrigin
<1>12. CASE UNCHANGED tcpVars
  BY <1>3, <1>12 DEF tcpVars
<1>13. CASE UNCHANGED vars
  BY <1>12, <1>13 DEF vars
<1>14. QED
  BY <1>1, <1>5, <1>6, <1>7, <1>8, <1>9, <1>10, <1>11, <1>12, <1>13 DEF Next, Handle

\* However connections interleave, no change that a script makes to the state
\* of the imposter is lost.
THEOREM ScriptsRunSerially == Spec => []ScriptsAreSerial
<1>1. Init => ScriptInv
  BY DEF Init, ScriptInv, ScriptsAreSerial, phases
<1>2. ScriptInv => ScriptsAreSerial
  BY DEF ScriptInv
<1>3. QED
  BY <1>1, <1>2, ScriptNext, PTL DEF Spec
-----------------------------------------------------------------------------
(* Flattening                                                               *)

\* Every non-empty set of natural numbers has a least element.
LEMMA LeastNatural ==
  ASSUME NEW T \in SUBSET Nat, T # {}
  PROVE  \E m \in T : \A n \in T : m <= n
<1> DEFINE R == OpToRel(<, Nat)
<1>1. IsWellFoundedOn(R, Nat)
  BY NatLessThanWellFounded
<1>2. PICK m \in T : \A n \in T : <<n, m>> \notin R
  <2> HIDE DEF R
  <2>1. QED
    BY <1>1, WFMin
<1>3. ASSUME NEW n \in T PROVE m <= n
  <2>1. <<n, m>> \notin {ss \in Nat \X Nat : ss[1] < ss[2]}
    BY <1>2 DEF OpToRel
  <2>2. QED
    BY <2>1
<1>4. QED
  BY <1>3

\* Induction, with a set in the place of a predicate.
LEMMA Induction ==
  ASSUME NEW S, 0 \in S, \A n \in Nat : n \in S => n + 1 \in S
  PROVE  \A n \in Nat : n \in S
<1>1. SUFFICES ASSUME NEW k \in Nat, k \notin S PROVE FALSE
  OBVIOUS
<1> DEFINE T == {n \in Nat : n \notin S}
<1>2. PICK m \in T : \A n \in T : m <= n
  <2>1. T \in SUBSET Nat /\ T # {}
    BY <1>1
  <2> HIDE DEF T
  <2>2. QED
    BY <2>1, LeastNatural
<1>3. m # 0 /\ m - 1 \in Nat /\ ~(m <= m - 1)
  BY <1>2
<1>4. m - 1 \in S
  BY <1>2, <1>3
<1>5. QED
  BY <1>3, <1>4, <1>2

\* Concatenation, position by position.
LEMMA ConcatIs ==
  ASSUME NEW S, NEW a \in Seq(S), NEW b \in Seq(S)
  PROVE  /\ a \o b \in Seq(S)
         /\ Len(a \o b) = Len(a) + Len(b)
         /\ \A i \in 1..Len(a) : (a \o b)[i] = a[i]
         /\ \A i \in Len(a) + 1..Len(a) + Len(b) : (a \o b)[i] = b[i - Len(a)]
OBVIOUS

\* Two lists with the same elements are the same, one with elements is not empty.
LEMMA SameElements ==
  ASSUME NEW S, NEW a \in Seq(S), NEW b \in Seq(S), Len(a) = Len(b), \A i \in 1..Len(a) : a[i] = b[i]
  PROVE  a = b
<1>1. a = [i \in 1..Len(a) |-> a[i]] /\ b = [i \in 1..Len(b) |-> b[i]]
  OBVIOUS
<1>2. QED
  BY <1>1

LEMMA NotEmpty ==
  ASSUME NEW a, Len(a) # 0
  PROVE  a # <<>>
OBVIOUS

\* What the loop of FlattenSeq has put together after each packet.
IsFlattening(F, q) ==
  /\ F[0] = <<>>
  /\ \A i \in 1..Len(q) : F[i] = F[i - 1] \o q[i]

\* Every list of packets can be put together.
LEMMA FlatteningExists ==
  ASSUME NEW S, NEW q \in Seq(Seq(S))
  PROVE  \E F \in [0..Len(q) -> Seq(S)] : IsFlattening(F, q)
<1> DEFINE Step(F, i) == IF i = 0 THEN <<>> ELSE F[i - 1] \o q[i]
           P(n) == \E F \in [0..n -> Seq(S)] : \A i \in 0..n : F[i] = Step(F, i)
           N == {n \in Nat : n <= Len(q) => P(n)}
<1>1. 0 \in N
  <2> DEFINE F == [i \in 0..0 |-> <<>>]
  <2>1. F \in [0..0 -> Seq(S)]
    OBVIOUS
  <2>2. \A i \in 0..0 : F[i] = Step(F, i)
    OBVIOUS
  <2> HIDE DEF F, Step
  <2>3. QED
    BY <2>1, <2>2
<1>2. ASSUME NEW n \in Nat, n \in N PROVE n + 1 \in N
  <2>1. SUFFICES ASSUME n + 1 <= Len(q) PROVE P(n + 1)
    <3> HIDE DEF P
    <3> QED
      OBVIOUS
  <2>2. P(n)
    <3> HIDE DEF P
    <3>1. Len(q) \in Nat
      OBVIOUS
    <3>2. QED
      BY <1>2, <2>1, <3>1
  <2>3. PICK F \in [0..n -> Seq(S)] : \A i \in 0..n : F[i] = Step(F, i)
    <3> HIDE DEF Step
    <3> QED
      BY <2>2
  <2> DEFINE H == [i \in 0..n + 1 |-> IF i = n + 1 THEN Step(F, n + 1) ELSE F[i]]
  <2>4. Step(F, n + 1) \in Seq(S)
    <3>1. F[n] \in Seq(S) /\ q[n + 1] \in Seq(S)
      BY <2>1
    <3>2. QED
      BY <3>1
  <2>5. H \in [0..n + 1 -> Seq(S)]
    <3> HIDE DEF Step
    <3> QED
      BY <2>4
  <2>6. \A i \in 0..n + 1 : H[i] = Step(H, i)
    <3>1. (\A i \in 0..n : H[i] = F[i]) /\ H[n + 1] = Step(F, n + 1)
      <4> HIDE DEF Step
      <4> QED
        OBVIOUS
    <3> HIDE DEF H
    <3>2. ASSUME NEW i \in 0..n + 1 PROVE Step(H, i) = Step(F, i)
      BY <3>1
    <3> HIDE DEF Step
    <3>3. QED
      BY <2>3, <3>1, <3>2
  <2> HIDE DEF H, Step
  <2>7. QED
    BY <2>5, <2>6
<1>3. Len(q) \in N
  <2> HIDE DEF N
  <2>1. QED
    BY <1>1, <1>2, Induction
<1>4. PICK F \in [0..Len(q) -> Seq(S)] : \A i \in 0..Len(q) : F[i] = Step(F, i)
  <2>1. P(Len(q))
    <3> HIDE DEF P
    <3>1. QED
      BY <1>3
  <2> HIDE DEF Step
  <2>2. QED
    BY <2>1
<1>5. Len(q) \in Nat
  OBVIOUS
<1>6. F[0] = Step(F, 0) /\ \A i \in 1..Len(q) : F[i] = Step(F, i) /\ i # 0
  <2> HIDE DEF Step
  <2>1. QED
    BY <1>4, <1>5
<1>7. F[0] = <<>> /\ \A i \in 1..Len(q) : F[i] = F[i - 1] \o q[i]
  BY <1>6
<1>8. QED
  BY <1>4, <1>7 DEF IsFlattening

\* The loop over a longer list starts like that over the shorter one.
LEMMA FlatteningsAgree ==
  ASSUME NEW p, NEW q, NEW E, NEW F, Len(p) \in Nat, Len(q) \in Nat, Len(p) <= Len(q),
         IsFlattening(E, p), IsFlattening(F, q),
         \A i \in 1..Len(p) : p[i] = q[i]
  PROVE  \A n \in 0..Len(p) : E[n] = F[n]
<1> DEFINE N == {n \in Nat : n <= Len(p) => E[n] = F[n]}
<1>1. 0 \in N
  BY DEF IsFlattening
<1>2. ASSUME NEW n \in Nat, n \in N PROVE n + 1 \in N
  <2>1. SUFFICES ASSUME n + 1 <= Len(p) PROVE E[n + 1] = F[n + 1]
    OBVIOUS
  <2>2. n + 1 \in 1..Len(p) /\ n + 1 \in 1..Len(q) /\ (n + 1) - 1 = n /\ E[n] = F[n]
    BY <1>2, <2>1
  <2>3. E[n + 1] = E[n] \o p[n + 1] /\ F[n + 1] = F[n] \o q[n + 1]
    BY <2>2 DEF IsFlattening
  <2>4. QED
    BY <2>2, <2>3
<1>3. \A n \in Nat : n \in N
  <2> HIDE DEF N
  <2>1. QED
    BY <1>1, <1>2, Induction
<1>4. QED
  BY <1>3

\* FlattenSeq is what its loop ends with.
LEMMA FlattenIs ==
  ASSUME NEW S, NEW q \in Seq(Seq(S))
  PROVE  \E F \in [0..Len(q) -> Seq(S)] : IsFlattening(F, q) /\ FlattenSeq(q) = F[Len(q)]
<1>1. PICK F \in [0..Len(q) -> Seq(S)] : IsFlattening(F, q)
  BY FlatteningExists
<1>2. Len(q) \in Nat /\ \A i \in 1..Len(q) : q[i] \in Seq(S) /\ <<>> \o q[i] = q[i]
  OBVIOUS
<1>3. F[0] = <<>> /\ \A i \in 1..Len(q) : F[i] = F[i - 1] \o q[i]
  BY <1>1 DEF IsFlattening
<1>4. CASE Len(q) = 0
  <2>1. q = <<>>
    BY <1>4
  <2>2. FlattenSeq(q) = q
    BY <1>4 DEF FlattenSeq
  <2>3. QED
    BY <1>1, <1>3, <1>4, <2>1, <2>2
<1>5. CASE Len(q) # 0
  <2> DEFINE Step(K, i) == IF i = 1 THEN q[i] ELSE K[i - 1] \o q[i]
             IsLoop(K) == K = [i \in 1..Len(q) |-> Step(K, i)]
             G == CHOOSE K : IsLoop(K)
             H == [i \in 0..Len(q) |-> IF i = 0 THEN <<>> ELSE G[i]]
             L == [i \in 1..Len(q) |-> F[i]]
  <2>1. FlattenSeq(q) = G[Len(q)]
    BY <1>5 DEF FlattenSeq
  <2>2. IsLoop(L)
    <3>1. ASSUME NEW i \in 1..Len(q) PROVE L[i] = Step(L, i)
      <4>1. CASE i = 1
        <5>1. F[i] = F[i - 1] \o q[i]
          BY <1>3
        <5>2. F[i - 1] = <<>>
          BY <1>3, <4>1
        <5>3. F[i] = q[i]
          BY <1>2, <5>1, <5>2
        <5>4. QED
          BY <4>1, <5>3
      <4>2. CASE i # 1
        <5>1. i - 1 \in 1..Len(q)
          BY <1>2, <4>2
        <5>2. L[i] = F[i] /\ L[i - 1] = F[i - 1]
          BY <5>1
        <5>3. QED
          BY <1>3, <4>2, <5>2
      <4>3. QED
        BY <4>1, <4>2
    <3>2. L = [i \in 1..Len(q) |-> L[i]]
      OBVIOUS
    <3> HIDE DEF L, Step
    <3>3. QED
      BY <3>1, <3>2
  <2>3. IsLoop(G)
    <3> HIDE DEF IsLoop
    <3>1. QED
      BY <2>2
  <2>4. \A i \in 1..Len(q) : G[i] = Step(G, i)
    <3> HIDE DEF G, Step
    <3>1. QED
      BY <2>3
  <2>5. H[0] = <<>> /\ \A i \in 1..Len(q) : H[i] = G[i]
    <3> HIDE DEF G
    <3>1. QED
      BY <1>2
  <2> HIDE DEF H, G
  <2>6. ASSUME NEW i \in 1..Len(q) PROVE H[i] = H[i - 1] \o q[i]
    <3>1. CASE i = 1
      <4>1. H[i] = q[i] /\ H[i - 1] = <<>>
        BY <2>4, <2>5, <3>1
      <4>2. QED
        BY <1>2, <4>1
    <3>2. CASE i # 1
      <4>1. i - 1 \in 1..Len(q)
        BY <1>2, <3>2
      <4>2. QED
        BY <2>4, <2>5, <3>2, <4>1
    <3>3. QED
      BY <3>1, <3>2
  <2>7. IsFlattening(H, q)
    BY <2>5, <2>6 DEF IsFlattening
  <2>8. \A n \in 0..Len(q) : H[n] = F[n]
    BY <1>1, <1>2, <2>7, FlatteningsAgree
  <2>9. FlattenSeq(q) = F[Len(q)]
    BY <1>2, <1>5, <2>1, <2>5, <2>8
  <2>10. QED
    BY <1>1, <2>9
<1>6. QED
  BY <1>4, <1>5

\* Flattening what one more read returned.
LEMMA FlattenAppend ==
  ASSUME NEW S, NEW q \in Seq(Seq(S)), NEW x \in Seq(S)
  PROVE  /\ FlattenSeq(q) \in Seq(S)
         /\ FlattenSeq(Append(q, x)) = FlattenSeq(q) \o x
<1> DEFINE r == Append(q, x)
<1>1. /\ r \in Seq(Seq(S)) /\ Len(q) \in Nat /\ Len(r) = Len(q) + 1 /\ r[Len(q) + 1] = x
      /\ \A i \in 1..Len(q) : q[i] = r[i]
  OBVIOUS
<1> HIDE DEF r
<1>2. PICK E : E \in [0..Len(q) -> Seq(S)] /\ IsFlattening(E, q) /\ FlattenSeq(q) = E[Len(q)]
  BY FlattenIs
<1>3. PICK F : F \in [0..Len(r) -> Seq(S)] /\ IsFlattening(F, r) /\ FlattenSeq(r) = F[Len(r)]
  BY <1>1, FlattenIs
<1>4. E[Len(q)] = F[Len(q)]
  <2>1. Len(q) <= Len(r)
    BY <1>1
  <2>2. \A n \in 0..Len(q) : E[n] = F[n]
    <3>1. /\ Len(q) \in Nat /\ Len(r) \in Nat /\ Len(q) <= Len(r)
          /\ IsFlattening(E, q) /\ IsFlattening(F, r)
          /\ \A i \in 1..Len(q) : q[i] = r[i]
      BY <1>1, <1>2, <1>3, <2>1
    <3>2. QED
      BY <3>1, FlatteningsAgree
  <2>3. QED
    BY <1>1, <2>2
<1>5. F[Len(q) + 1] = F[Len(q)] \o x
  <2>1. Len(q) + 1 \in 1..Len(r) /\ (Len(q) + 1) - 1 = Len(q)
    BY <1>1
  <2>2. QED
    BY <1>1, <1>3, <2>1 DEF IsFlattening
<1>6. FlattenSeq(q) \in Seq(S)
  <2>1. Len(q) \in 0..Len(q)
    BY <1>1
  <2>2. QED
    BY <1>2, <2>1
<1>7. QED
  BY <1>1, <1>2, <1>3, <1>4, <1>5, <1>6 DEF r

\* Flattening no packet, and one.
LEMMA FlattenShort ==
  ASSUME NEW S, NEW x \in Seq(S)
  PROVE  FlattenSeq(<<>>) = <<>> /\ FlattenSeq(<<x>>) = x
<1>1. FlattenSeq(<<>>) = <<>>
  BY DEF FlattenSeq
<1>2. <<>> \in Seq(Seq(S)) /\ Append(<<>>, x) = <<x>> /\ <<>> \o x = x
  OBVIOUS
<1>3. FlattenSeq(Append(<<>>, x)) = FlattenSeq(<<>>) \o x
  BY <1>2, FlattenAppend
<1>4. QED
  BY <1>1, <1>2, <1>3

-----------------------------------------------------------------------------
(* What is read                                                             *)

\* A read that returns n bytes after the first k of the stream of c.
Follows(c, k, n, read) ==
  /\ read \in Seq(Byte) /\ Len(read) = n /\ read # <<>> /\ read[1].of = c
  /\ Stream(c, k) \in Seq(Byte) /\ Len(Stream(c, k)) = k
  /\ Stream(c, k) \o read = Stream(c, k + n)
  /\ Len(Stream(c, k + n)) = k + n

LEMMA StreamRead ==
  ASSUME NEW c \in Conns, NEW s \in 0..MaxBytes, NEW k \in Nat, NEW n \in 1..s - k
  PROVE  Follows(c, k, n, SubSeq(Stream(c, s), k + 1, k + n))
<1> DEFINE read == SubSeq(Stream(c, s), k + 1, k + n)
<1>1. MaxBytes \in Nat /\ k + n \in 1..s /\ s \in Nat /\ n \in Nat /\ n >= 1
  BY TcpAssumption
<1>2. ASSUME NEW m \in 0..s
      PROVE  /\ Stream(c, m) \in Seq(Byte) /\ Len(Stream(c, m)) = m
             /\ \A i \in 1..m : Stream(c, m)[i] = [of |-> c, at |-> i]
  <2>1. \A i \in 1..m : [of |-> c, at |-> i] \in Byte
    BY <1>1, TcpAssumption DEF Byte
  <2>2. QED
    BY <1>1, <2>1 DEF Stream
<1>3. k \in 0..s /\ k + n \in 0..s /\ s \in 0..s
  BY <1>1
<1>4. read \in Seq(Byte) /\ Len(read) = n /\ \A i \in 1..n : read[i] = [of |-> c, at |-> k + i]
  <2> DEFINE t == Stream(c, s)
  <2>1. t \in Seq(Byte) /\ Len(t) = s /\ \A i \in 1..s : t[i] = [of |-> c, at |-> i]
    BY <1>2, <1>3
  <2> HIDE DEF t
  <2>2. SubSeq(t, k + 1, k + n) \in Seq(Byte) /\ Len(SubSeq(t, k + 1, k + n)) = n
        /\ \A i \in 1..n : SubSeq(t, k + 1, k + n)[i] = t[k + i]
    BY <1>1, <2>1
  <2>3. \A i \in 1..n : k + i \in 1..s
    BY <1>1
  <2>4. read = SubSeq(t, k + 1, k + n)
    BY DEF t
  <2>5. QED
    BY <2>1, <2>2, <2>3, <2>4
<1>5. Stream(c, k) \o read = Stream(c, k + n)
  <2> DEFINE a == Stream(c, k)
             b == Stream(c, k + n)
  <2>1. a \in Seq(Byte) /\ Len(a) = k /\ \A i \in 1..k : a[i] = [of |-> c, at |-> i]
    BY <1>2, <1>3
  <2>2. b \in Seq(Byte) /\ Len(b) = k + n /\ \A i \in 1..k + n : b[i] = [of |-> c, at |-> i]
    BY <1>2, <1>3
  <2> HIDE DEF a, b
  <2>3. /\ a \o read \in Seq(Byte) /\ Len(a \o read) = k + n
        /\ \A i \in 1..k : (a \o read)[i] = a[i]
        /\ \A i \in k + 1..k + n : (a \o read)[i] = read[i - k]
    <3>1. /\ a \o read \in Seq(Byte) /\ Len(a \o read) = Len(a) + Len(read)
          /\ \A i \in 1..Len(a) : (a \o read)[i] = a[i]
          /\ \A i \in Len(a) + 1..Len(a) + Len(read) : (a \o read)[i] = read[i - Len(a)]
      <4>1. a \in Seq(Byte) /\ read \in Seq(Byte)
        BY <1>4, <2>1
      <4>2. QED
        BY <4>1, ConcatIs
    <3>2. Len(a) = k /\ Len(read) = n
      BY <1>4, <2>1
    <3>3. QED
      BY <3>1, <3>2
  <2>4. ASSUME NEW i \in 1..k + n PROVE (a \o read)[i] = b[i]
    <3>1. CASE i \in 1..k
      BY <2>1, <2>2, <2>3, <3>1
    <3>2. CASE i \in k + 1..k + n
      <4>1. i - k \in 1..n /\ k + (i - k) = i
        BY <3>2
      <4>2. QED
        BY <1>4, <2>2, <2>3, <3>2, <4>1, ZenonT(60)
    <3>3. i \in 1..k \/ i \in k + 1..k + n
      BY <1>1
    <3>4. QED
      BY <3>1, <3>2, <3>3
  <2>5. a \o read = b
    <3> DEFINE e == a \o read
    <3>1. e \in Seq(Byte) /\ b \in Seq(Byte) /\ Len(e) = k + n /\ Len(b) = k + n
      BY <2>2, <2>3
    <3>2. \A i \in 1..k + n : e[i] = b[i]
      BY <2>4
    <3> HIDE DEF e
    <3>3. e = b
      BY <3>1, <3>2, SameElements
    <3>4. QED
      BY <3>3 DEF e
  <2>6. QED
    BY <2>5 DEF a, b
<1>6. read # <<>> /\ read[1].of = c
  <2>1. Len(read) # 0 /\ 1 \in 1..n
    BY <1>1, <1>4
  <2>2. read[1] = [of |-> c, at |-> k + 1]
    BY <1>4, <2>1
  <2>3. read # <<>>
    BY <2>1, NotEmpty
  <2>4. QED
    BY <2>2, <2>3
<1>7. /\ Stream(c, k) \in Seq(Byte) /\ Len(Stream(c, k)) = k
      /\ Len(Stream(c, k + n)) = k + n
  BY <1>2, <1>3
<1> HIDE DEF read
<1>8. Follows(c, k, n, read)
  BY <1>4, <1>5, <1>6, <1>7 DEF Follows
<1>9. QED
  BY <1>8 DEF read

\* A read adds to the data of its connection, with and without a resolver.
LEMMA ReadPackets ==
  ASSUME PacketsInv, StreamIsRead, NEW c \in Conns, ReadBytes(c)
  PROVE  \E more \in Seq(Seq(Byte)) :
           /\ packets' = [packets EXCEPT ![c] = more]
           /\ more # <<>>
           /\ \A i \in 1..Len(more) : more[i] # <<>> /\ more[i][1].of = c
           /\ FlattenSeq(more) \in Seq(Byte)
           /\ FlattenSeq(more) = Stream(c, Len(FlattenSeq(more)))
           /\ Len(FlattenSeq(more)) <= sent[c]
           /\ IF hasResolver
              THEN /\ more = <<FlattenSeq(more)>>
                   /\ asked' = [asked EXCEPT ![c] = Append(@, Len(FlattenSeq(more)))]
                   /\ phase' = [phase EXCEPT ![c] = IF Resolve(Len(FlattenSeq(more))) = "incomplete"
                                                    THEN "more" ELSE "record"]
              ELSE UNCHANGED asked /\ phase' = [phase EXCEPT ![c] = "more"]
<1> DEFINE k == Len(Data(c))
<1>1. packets[c] \in Seq(Seq(Byte)) /\ sent[c] \in 0..MaxBytes
  BY DEF PacketsInv
<1>2. Data(c) \in Seq(Byte)
  <2>1. <<>> \in Seq(Byte)
    OBVIOUS
  <2>2. QED
    BY <1>1, <2>1, FlattenAppend DEF Data
<1>3. k \in Nat
  BY <1>2
<1>4. Data(c) = Stream(c, k)
  BY DEF StreamIsRead
<1> HIDE DEF k
<1>5. PICK n :
        /\ n \in 1..sent[c] - k
        /\ LET read == SubSeq(Stream(c, sent[c]), k + 1, k + n)
               data == Data(c) \o read
           IN IF hasResolver
              THEN /\ packets' = [packets EXCEPT ![c] = <<data>>]
                   /\ asked' = [asked EXCEPT ![c] = Append(@, Len(data))]
                   /\ phase' = [phase EXCEPT ![c] = IF Resolve(Len(data)) = "incomplete" THEN "more" ELSE "record"]
              ELSE /\ packets' = [packets EXCEPT ![c] = Append(packets[c], read)]
                   /\ phase' = [phase EXCEPT ![c] = "more"]
                   /\ UNCHANGED asked
  BY DEF ReadBytes, Unread, Ask, AddPacket, k
<1> DEFINE read == SubSeq(Stream(c, sent[c]), k + 1, k + n)
           data == Data(c) \o read
<1>6. /\ read \in Seq(Byte) /\ Len(read) = n /\ read # <<>> /\ read[1].of = c
      /\ Stream(c, k) \in Seq(Byte) /\ Len(Stream(c, k)) = k
      /\ Stream(c, k) \o read = Stream(c, k + n)
      /\ Len(Stream(c, k + n)) = k + n
  <2>1. n \in 1..sent[c] - k /\ sent[c] \in 0..MaxBytes /\ k \in Nat
    BY <1>1, <1>3, <1>5
  <2>2. Follows(c, k, n, SubSeq(Stream(c, sent[c]), k + 1, k + n))
    BY <2>1, StreamRead
  <2>3. Follows(c, k, n, read)
    BY <2>2
  <2> HIDE DEF read
  <2>4. QED
    BY <2>3 DEF Follows
<1>7. /\ data \in Seq(Byte) /\ data = Stream(c, k + n) /\ Len(data) = k + n
      /\ data # <<>> /\ data[1].of = c /\ k + n <= sent[c]
  <2>1. data = Stream(c, k + n) /\ Len(data) = k + n
    BY <1>4, <1>6
  <2>2. data \in Seq(Byte)
    BY <1>2, <1>6
  <2>3. 1 \in 1..k + n /\ k + n # 0
    BY <1>1, <1>3, <1>5, TcpAssumption
  <2>4. data[1].of = c /\ data # <<>>
    <3>1. Stream(c, k + n)[1] = [of |-> c, at |-> 1]
      BY <2>3 DEF Stream
    <3>2. data[1] = [of |-> c, at |-> 1] /\ Len(data) # 0
      BY <2>1, <2>3, <3>1
    <3> HIDE DEF data
    <3>3. QED
      BY <3>2, NotEmpty
  <2>5. k + n <= sent[c]
    BY <1>1, <1>3, <1>5, TcpAssumption
  <2>6. QED
    BY <2>1, <2>2, <2>3, <2>4, <2>5
<1>8. CASE hasResolver
  <2>1. FlattenSeq(<<data>>) = data
    BY <1>7, FlattenShort
  <2>2. /\ packets' = [packets EXCEPT ![c] = <<data>>]
        /\ asked' = [asked EXCEPT ![c] = Append(@, Len(data))]
        /\ phase' = [phase EXCEPT ![c] = IF Resolve(Len(data)) = "incomplete" THEN "more" ELSE "record"]
    BY <1>5, <1>8
  <2> HIDE DEF data
  <2>3. <<data>> \in Seq(Seq(Byte)) /\ <<data>> # <<>> /\ \A i \in 1..Len(<<data>>) : <<data>>[i] = data
    BY <1>7
  <2>4. QED
    BY <1>7, <1>8, <2>1, <2>2, <2>3
<1>9. CASE ~hasResolver
  <2> DEFINE more == Append(packets[c], read)
  <2>1. FlattenSeq(more) = data
    BY <1>1, <1>6, FlattenAppend DEF Data
  <2>2. /\ packets' = [packets EXCEPT ![c] = more]
        /\ phase' = [phase EXCEPT ![c] = "more"]
        /\ UNCHANGED asked
    BY <1>5, <1>9
  <2>3. \A i \in 1..Len(packets[c]) : packets[c][i] # <<>> /\ packets[c][i][1].of = c
    BY DEF PacketsInv
  <2> HIDE DEF read, data
  <2>4. more \in Seq(Seq(Byte)) /\ more # <<>>
    <3>1. packets[c] \in Seq(Seq(Byte)) /\ read \in Seq(Byte)
      BY <1>1, <1>6
    <3>2. more \in Seq(Seq(Byte))
      BY <3>1
    <3>3. Len(more) = Len(packets[c]) + 1 /\ Len(packets[c]) \in Nat
      BY <3>1
    <3>4. Len(more) # 0
      BY <3>3
    <3> HIDE DEF more
    <3>5. QED
      BY <3>2, <3>4, NotEmpty
  <2>5. ASSUME NEW i \in 1..Len(more) PROVE more[i] # <<>> /\ more[i][1].of = c
    <3>1. more[i] = IF i \in 1..Len(packets[c]) THEN packets[c][i] ELSE read
      BY <1>1, <1>6
    <3>2. QED
      BY <1>6, <2>3, <3>1
  <2> HIDE DEF more
  <2>6. QED
    BY <1>7, <1>9, <2>1, <2>2, <2>4, <2>5
<1>10. QED
  BY <1>8, <1>9

-----------------------------------------------------------------------------
(* What is recorded                                                         *)

\* Where a handler may stand after a step that neither reads nor records.
MovesOn(c) ==
  \/ phase'[c] = phase[c]
  \/ phase'[c] = "done"
  \/ phase[c] = "more" /\ phase'[c] = "record"
  \/ /\ phase[c] \notin {"first", "more", "record", "done"}
     /\ phase'[c] \notin {"first", "more", "record"}

\* Steps that neither read nor record.
LEMMA RecordFrame ==
  ASSUME RecordInv,
         UNCHANGED <<packets, TCPRequests, numberOfRequests>>,
         sent' \in [Conns -> 0..MaxBytes], \A c \in Conns : sent[c] <= sent'[c],
         phase' \in [Conns -> phases], \A c \in Conns : MovesOn(c)
  PROVE  RecordInv'
<1>1. \A c \in Conns : Data(c)' = Data(c) /\ Recorded(c)' = Recorded(c)
  BY DEF Data, Recorded
<1>2. PacketsInv'
  <2>1. ASSUME NEW c \in Conns PROVE Len(Data(c)) <= sent'[c]
    <3>1. Len(Data(c)) <= sent[c] /\ sent[c] \in 0..MaxBytes /\ sent'[c] \in 0..MaxBytes /\ sent[c] <= sent'[c]
      BY DEF RecordInv, PacketsInv
    <3>2. Len(Data(c)) \in Nat
      <4>1. packets[c] \in Seq(Seq(Byte)) /\ <<>> \in Seq(Byte)
        BY DEF RecordInv, PacketsInv
      <4>2. Data(c) \in Seq(Byte)
        BY <4>1, FlattenAppend DEF Data
      <4>3. QED
        BY <4>2
    <3>3. QED
      BY <3>1, <3>2, TcpAssumption
  <2>2. \A c \in Conns : phase'[c] = "first" => phase[c] = "first"
    BY DEF MovesOn
  <2>3. \A c \in Conns : phase'[c] \notin {"first", "done"} => phase[c] \notin {"first", "done"}
    BY DEF MovesOn
  <2>4. QED
    BY <1>1, <2>1, <2>2, <2>3 DEF RecordInv, PacketsInv
<1>3. PacketsTogether'
  <2>1. ASSUME NEW c \in Conns
        PROVE  /\ phase'[c] \in {"first", "more", "record"} => phase[c] \in {"first", "more", "record"}
               /\ phase'[c] \notin {"first", "more", "record", "done"}
                    => phase[c] \notin {"first", "more", "record", "done"}
    BY DEF MovesOn
  <2>2. \A c \in Conns : InOneBlock(c)' = InOneBlock(c)
    BY <1>1 DEF InOneBlock
  <2>3. QED
    BY <1>1, <2>1, <2>2 DEF RecordInv, RecordIsFaithful, PacketsTogether
<1>4. StreamIsRead' /\ CountsConnections'
  BY <1>1 DEF RecordInv, RecordIsFaithful, StreamIsRead, CountsConnections
<1>5. QED
  BY <1>2, <1>3, <1>4 DEF RecordInv, RecordIsFaithful

LEMMA RecordRead ==
  ASSUME RecordInv, NEW c \in Conns, ReadBytes(c)
  PROVE  RecordInv'
<1>1. PICK more \in Seq(Seq(Byte)) :
        /\ packets' = [packets EXCEPT ![c] = more]
        /\ more # <<>>
        /\ \A i \in 1..Len(more) : more[i] # <<>> /\ more[i][1].of = c
        /\ FlattenSeq(more) \in Seq(Byte)
        /\ FlattenSeq(more) = Stream(c, Len(FlattenSeq(more)))
        /\ Len(FlattenSeq(more)) <= sent[c]
        /\ IF hasResolver
           THEN /\ more = <<FlattenSeq(more)>>
                /\ asked' = [asked EXCEPT ![c] = Append(@, Len(FlattenSeq(more)))]
                /\ phase' = [phase EXCEPT ![c] = IF Resolve(Len(FlattenSeq(more))) = "incomplete"
                                                 THEN "more" ELSE "record"]
           ELSE UNCHANGED asked /\ phase' = [phase EXCEPT ![c] = "more"]
  BY ReadPackets DEF RecordInv, RecordIsFaithful
<1>2. UNCHANGED <<TCPRequests, numberOfRequests, sent>> /\ phase[c] \in {"first", "more"}
  BY DEF ReadBytes, Reading
<1>3. packets \in [Conns -> Seq(Seq(Byte))] /\ phase \in [Conns -> phases] /\ sent \in [Conns -> 0..MaxBytes]
  BY DEF RecordInv, PacketsInv
<1>4. packets'[c] = more /\ \A d \in Conns : d # c => packets'[d] = packets[d]
  BY <1>1, <1>3
<1>5. PICK p \in {"more", "record"} : phase' = [phase EXCEPT ![c] = p]
  BY <1>1
<1>6. phase'[c] \in {"more", "record"} /\ \A d \in Conns : d # c => phase'[d] = phase[d]
  BY <1>3, <1>5
<1>7. Data(c)' = FlattenSeq(more) /\ \A d \in Conns : d # c => Data(d)' = Data(d)
  BY <1>4 DEF Data
<1>8. \A d \in Conns : Recorded(d)' = Recorded(d)
  BY <1>2 DEF Recorded
<1>9. StreamIsRead'
  BY <1>1, <1>7 DEF RecordInv, RecordIsFaithful, StreamIsRead
<1>10. PacketsTogether'
  <2>1. Recorded(c) = {}
    BY <1>2 DEF RecordInv, RecordIsFaithful, PacketsTogether
  <2>2. \A d \in Conns : d # c => InOneBlock(d)' = InOneBlock(d)
    BY <1>2, <1>4, <1>8, ZenonT(60) DEF InOneBlock
  <2>3. QED
    BY <1>6, <1>8, <2>1, <2>2 DEF RecordInv, RecordIsFaithful, PacketsTogether
<1>11. CountsConnections'
  BY <1>2 DEF RecordInv, RecordIsFaithful, CountsConnections
<1>12. PacketsInv'
  <2>1. packets' \in [Conns -> Seq(Seq(Byte))]
    BY <1>1, <1>3
  <2>2. phase' \in [Conns -> phases]
    BY <1>3, <1>5 DEF phases
  <2>3. ASSUME NEW d \in Conns
        PROVE  /\ \A i \in 1..Len(packets'[d]) : packets'[d][i] # <<>> /\ packets'[d][i][1].of = d
               /\ Len(Data(d)') <= sent'[d]
               /\ phase'[d] = "first" => packets'[d] = <<>>
               /\ phase'[d] \notin {"first", "done"} => packets'[d] # <<>>
    <3>1. CASE d = c
      BY <1>1, <1>2, <1>4, <1>6, <1>7, <3>1
    <3>2. CASE d # c
      <4>1. packets'[d] = packets[d] /\ phase'[d] = phase[d] /\ Data(d)' = Data(d) /\ sent'[d] = sent[d]
        BY <1>2, <1>4, <1>6, <1>7, <3>2
      <4>2. /\ \A i \in 1..Len(packets[d]) : packets[d][i] # <<>> /\ packets[d][i][1].of = d
            /\ Len(Data(d)) <= sent[d]
            /\ phase[d] = "first" => packets[d] = <<>>
            /\ phase[d] \notin {"first", "done"} => packets[d] # <<>>
        BY DEF RecordInv, PacketsInv
      <4>3. QED
        BY <4>1, <4>2
    <3>3. QED
      BY <3>1, <3>2
  <2>4. QED
    BY <1>2, <1>3, <2>1, <2>2, <2>3 DEF PacketsInv
<1>13. QED
  BY <1>2, <1>9, <1>10, <1>11, <1>12 DEF RecordInv, RecordIsFaithful

\* Record puts the packets of c at the end of what is recorded.
LEMMA RecordRecord ==
  ASSUME RecordInv, NEW c \in Conns, Record(c)
  PROVE  RecordInv'
<1> DEFINE b == Len(TCPRequests)
           m == Len(packets[c])
<1>1. /\ phase[c] = "record" /\ phase' = [phase EXCEPT ![c] = "match"]
      /\ TCPRequests' = TCPRequests \o packets[c]
      /\ numberOfRequests' = numberOfRequests + 1
      /\ UNCHANGED <<packets, sent>>
  BY DEF Record, At
<1>2. /\ packets \in [Conns -> Seq(Seq(Byte))] /\ phase \in [Conns -> phases]
      /\ sent \in [Conns -> 0..MaxBytes] /\ TCPRequests \in Seq(Seq(Byte))
  BY DEF RecordInv, PacketsInv
<1>3. phase' \in [Conns -> phases] /\ phase'[c] = "match" /\ \A d \in Conns : d # c => phase'[d] = phase[d]
  BY <1>1, <1>2 DEF phases
<1>4. packets[c] \in Seq(Seq(Byte)) /\ packets[c] # <<>>
      /\ \A i \in 1..m : packets[c][i] # <<>> /\ packets[c][i][1].of = c
  BY <1>1, <1>2 DEF RecordInv, PacketsInv
<1>5. b \in Nat /\ m \in Nat /\ m # 0
  BY <1>2, <1>4
<1>6. /\ TCPRequests' \in Seq(Seq(Byte)) /\ Len(TCPRequests') = b + m
      /\ \A i \in 1..b : TCPRequests'[i] = TCPRequests[i]
      /\ \A i \in b + 1..b + m : TCPRequests'[i] = packets[c][i - b]
  BY <1>1, <1>2, <1>4, ConcatIs
<1> HIDE DEF b, m
<1>7. \A i \in 1..m : b + i \in b + 1..b + m /\ TCPRequests'[b + i] = packets[c][i]
  BY <1>5, <1>6
<1>8. \A i \in b + 1..b + m : TCPRequests'[i][1].of = c
  <2>1. ASSUME NEW i \in b + 1..b + m PROVE TCPRequests'[i][1].of = c
    <3>1. i - b \in 1..m
      BY <1>5
    <3>2. QED
      BY <1>4, <1>6, <3>1
  <2>2. QED
    BY <2>1
<1>9. Recorded(c) = {} /\ \A i \in 1..b : TCPRequests[i][1].of # c
  BY <1>1 DEF RecordInv, RecordIsFaithful, PacketsTogether, Recorded, b
<1>10. \A d \in Conns : d # c => Recorded(d)' = Recorded(d)
  <2>1. ASSUME NEW d \in Conns, d # c PROVE Recorded(d)' = Recorded(d)
    <3>1. \A i \in 1..b + m : TCPRequests'[i][1].of = d <=> i \in 1..b /\ TCPRequests[i][1].of = d
      <4>1. \A i \in 1..b + m : i \in 1..b \/ i \in b + 1..b + m
        BY <1>5
      <4>2. \A i \in b + 1..b + m : i \notin 1..b
        BY <1>5
      <4>3. QED
        BY <1>6, <1>8, <2>1, <4>1, <4>2
    <3>2. Recorded(d)' = {i \in 1..b + m : TCPRequests'[i][1].of = d}
      BY <1>6 DEF Recorded
    <3>3. Recorded(d) = {i \in 1..b : TCPRequests[i][1].of = d}
      BY DEF Recorded, b
    <3>4. 1..b \subseteq 1..b + m
      BY <1>5
    <3>5. QED
      BY <3>1, <3>2, <3>3, <3>4
  <2>2. QED
    BY <2>1
<1>11. Recorded(c)' = b + 1 .. b + m
  <2>1. \A i \in 1..b + m : TCPRequests'[i][1].of = c <=> i \in b + 1..b + m
    <3>1. \A i \in 1..b + m : i \in 1..b \/ i \in b + 1..b + m
      BY <1>5
    <3>2. \A i \in 1..b : i \notin b + 1..b + m
      BY <1>5
    <3>3. QED
      BY <1>6, <1>8, <1>9, <3>1, <3>2
  <2>2. Recorded(c)' = {i \in 1..b + m : TCPRequests'[i][1].of = c}
    BY <1>6 DEF Recorded
  <2>3. b + 1..b + m \subseteq 1..b + m
    BY <1>5
  <2>4. QED
    BY <2>1, <2>2, <2>3
<1>12. PacketsTogether'
  <2>1. ASSUME NEW d \in Conns
        PROVE  /\ phase'[d] \in {"first", "more", "record"} => Recorded(d)' = {}
               /\ phase'[d] \notin {"first", "more", "record", "done"} => Recorded(d)' # {}
               /\ Recorded(d)' # {} => InOneBlock(d)'
    <3>1. CASE d = c
      <4>1. b \in 0..Len(TCPRequests') /\ b + 1 \in b + 1..b + m
        BY <1>5, <1>6
      <4>2. Len(packets'[c]) = m /\ packets'[c] = packets[c]
        BY <1>1 DEF m
      <4>3. InOneBlock(c)'
        BY <1>7, <1>11, <4>1, <4>2 DEF InOneBlock
      <4>4. QED
        BY <1>3, <1>11, <3>1, <4>1, <4>3
    <3>2. CASE d # c
      <4>1. Recorded(d)' = Recorded(d) /\ phase'[d] = phase[d] /\ packets'[d] = packets[d]
        BY <1>1, <1>3, <1>10, <3>2
      <4>2. ASSUME InOneBlock(d) PROVE InOneBlock(d)'
        <5>1. PICK e \in 0..b : /\ Recorded(d) = e + 1 .. e + Len(packets[d])
                                /\ \A i \in 1..Len(packets[d]) : TCPRequests[e + i] = packets[d][i]
          BY <4>2 DEF InOneBlock, b
        <5>2. e \in 0..Len(TCPRequests')
          BY <1>5, <1>6
        <5>3. Len(packets[d]) \in Nat
          BY <1>2
        <5>4. ASSUME NEW i \in 1..Len(packets[d]) PROVE TCPRequests'[e + i] = packets[d][i]
          <6>1. e + i \in e + 1 .. e + Len(packets[d])
            BY <1>5, <5>3
          <6>2. e + i \in 1..b
            BY <5>1, <6>1 DEF Recorded, b
          <6>3. QED
            BY <1>6, <5>1, <6>2
        <5>5. QED
          BY <4>1, <5>1, <5>2, <5>4 DEF InOneBlock
      <4>3. QED
        BY <4>1, <4>2 DEF RecordInv, RecordIsFaithful, PacketsTogether
    <3>3. QED
      BY <3>1, <3>2
  <2>2. QED
    BY <2>1 DEF PacketsTogether
<1>13. CountsConnections'
  <2> DEFINE A == {TCPRequests[i][1].of : i \in 1..b}
             B == {TCPRequests'[i][1].of : i \in 1..b + m}
  <2>1. B = A \cup {c}
    <3>1. \A i \in 1..b + m : i \in 1..b \/ i \in b + 1..b + m
      BY <1>5
    <3>2. \A i \in 1..b : i \in 1..b + m
      BY <1>5
    <3>3. b + 1 \in 1..b + m /\ b + 1 \in b + 1..b + m
      BY <1>5
    <3>4. A \subseteq B
      BY <1>6, <3>2
    <3>5. c \in B
      BY <1>8, <3>3
    <3>6. B \subseteq A \cup {c}
      BY <1>6, <1>8, <3>1
    <3>7. QED
      BY <3>4, <3>5, <3>6
  <2>2. c \notin A
    BY <1>9
  <2>3. IsFiniteSet(A)
    <3>1. IsFiniteSet(1..b)
      BY <1>5, FS_Interval
    <3> DEFINE f == [i \in 1..b |-> TCPRequests[i][1].of]
    <3>2. f \in Surjection(1..b, A)
      BY DEF Surjection
    <3> HIDE DEF f, A
    <3>3. QED
      BY <3>1, <3>2, FS_Surjection
  <2>4. Cardinality(B) = Cardinality(A) + 1
    <3> HIDE DEF A, B
    <3>1. QED
      BY <2>1, <2>2, <2>3, FS_AddElement
  <2>5. numberOfRequests = Cardinality(A)
    BY DEF RecordInv, RecordIsFaithful, CountsConnections, b
  <2>6. QED
    BY <1>1, <1>6, <2>4, <2>5 DEF CountsConnections
<1>14. StreamIsRead' /\ PacketsInv'
  <2>1. \A d \in Conns : Data(d)' = Data(d)
    BY <1>1 DEF Data
  <2>2. \A d \in Conns : (phase'[d] = "first" => phase[d] = "first")
                         /\ (phase'[d] \notin {"first", "done"} => phase[d] \notin {"first", "done"})
    BY <1>1, <1>3
  <2>3. QED
    BY <1>1, <1>3, <2>1, <2>2 DEF RecordInv, RecordIsFaithful, StreamIsRead, PacketsInv
<1>15. QED
  BY <1>6, <1>12, <1>13, <1>14 DEF RecordInv, RecordIsFaithful

\* The inductive step: all other actions move handlers on.
LEMMA RecordNext == RecordInv /\ [Next]_vars => RecordInv'
<1>1. SUFFICES ASSUME RecordInv, [Next]_vars PROVE RecordInv'
  OBVIOUS
<1>2. /\ packets \in [Conns -> Seq(Seq(Byte))] /\ phase \in [Conns -> phases]
      /\ sent \in [Conns -> 0..MaxBytes] /\ MaxBytes \in Nat
  BY <1>1, TcpAssumption DEF RecordInv, PacketsInv
<1>3. \A d \in Conns : sent[d] <= sent[d]
  BY <1>2
\* A handler moves on.
<1>4. ASSUME NEW c \in Conns, NEW p \in phases, phase' = [phase EXCEPT ![c] = p],
             \/ p = "done"
             \/ phase[c] = "more" /\ p = "record"
             \/ phase[c] \notin {"first", "more", "record", "done"} /\ p \notin {"first", "more", "record"},
             UNCHANGED <<sent, packets, TCPRequests, numberOfRequests>>
      PROVE  RecordInv'
  <2>1. phase' \in [Conns -> phases] /\ \A d \in Conns : MovesOn(d)
    BY <1>2, <1>4 DEF MovesOn
  <2>2. sent' \in [Conns -> 0..MaxBytes] /\ \A d \in Conns : sent[d] <= sent'[d]
    BY <1>2, <1>3, <1>4
  <2>3. QED
    BY <1>1, <1>4, <2>1, <2>2, RecordFrame
<1>5. ASSUME UNCHANGED <<phase, packets, TCPRequests, numberOfRequests>>,
             sent' \in [Conns -> 0..MaxBytes], \A d \in Conns : sent[d] <= sent'[d]
      PROVE  RecordInv'
  <2>1. phase' \in [Conns -> phases] /\ \A d \in Conns : MovesOn(d)
    BY <1>2, <1>5 DEF MovesOn
  <2>2. QED
    BY <1>1, <1>5, <2>1, RecordFrame
<1>6. ASSUME NEW c \in Conns, Send(c) PROVE RecordInv'
  <2>1. sent[c] < MaxBytes /\ sent' = [sent EXCEPT ![c] = sent[c] + 1]
        /\ UNCHANGED <<phase, packets, TCPRequests, numberOfRequests>>
    BY <1>6 DEF Send
  <2>2. sent' \in [Conns -> 0..MaxBytes] /\ \A d \in Conns : sent[d] <= sent'[d]
    BY <1>2, <2>1
  <2>3. QED
    BY <1>5, <2>1, <2>2
<1>7. ASSUME NEW c \in Conns, ReadEnds(c) PROVE RecordInv'
  <2>1. phase[c] = "more" /\ phase' = [phase EXCEPT ![c] = "record"]
        /\ UNCHANGED <<sent, packets, TCPRequests, numberOfRequests>>
    BY <1>7 DEF ReadEnds
  <2>2. QED
    BY <1>4, <2>1 DEF phases
<1>8. ASSUME NEW c \in Conns, NoRequest(c) \/ AnswerIs(c) \/ ScriptEnds(c) \/ ScriptFails(c)
                                \/ ProxyFails(c) \/ OriginEnds(c)
      PROVE  RecordInv'
  <2>1. phase' = [phase EXCEPT ![c] = "done"] /\ UNCHANGED <<sent, packets, TCPRequests, numberOfRequests>>
    BY <1>8 DEF NoRequest, AnswerIs, ScriptEnds, ScriptFails, ProxyFails, OriginEnds, Reply
  <2>2. QED
    BY <1>4, <2>1 DEF phases
<1>9. ASSUME NEW c \in Conns, Match(c) \/ ScriptBegin(c) \/ ProxySent(c) PROVE RecordInv'
  <2>1. PICK p \in {"is", "inject", "proxy", "invalidProxy", "script", "origin"} :
          phase' = [phase EXCEPT ![c] = p]
    BY <1>9, TcpAssumption DEF Match, ScriptBegin, ProxySent
  <2>2. phase[c] \in {"match", "inject", "proxy"} /\ UNCHANGED <<sent, packets, TCPRequests, numberOfRequests>>
    BY <1>9 DEF Match, ScriptBegin, ProxySent, At
  <2>3. QED
    BY <1>4, <2>1, <2>2 DEF phases
<1>10. ASSUME NEW c \in Conns, FallSilent(c) \/ ReadOrigin(c) PROVE RecordInv'
  <2>1. UNCHANGED <<sent, phase, packets, TCPRequests, numberOfRequests>>
    BY <1>10 DEF FallSilent, ReadOrigin
  <2>2. QED
    BY <1>2, <1>3, <1>5, <2>1
<1>11. CASE UNCHANGED tcpVars
  BY <1>2, <1>3, <1>5, <1>11 DEF tcpVars
<1>12. CASE UNCHANGED vars
  BY <1>11, <1>12 DEF vars
<1>13. QED
  BY <1>1, <1>6, <1>7, <1>8, <1>9, <1>10, <1>11, <1>12, RecordRead, RecordRecord DEF Next, Handle

LEMMA RecordInit == Init => RecordInv
<1>1. SUFFICES ASSUME Init PROVE RecordInv
  OBVIOUS
<1>2. /\ sent = [c \in Conns |-> 0] /\ packets = [c \in Conns |-> <<>>]
      /\ phase = [c \in Conns |-> "first"] /\ TCPRequests = <<>> /\ numberOfRequests = 0
      /\ MaxBytes \in Nat
  BY <1>1, TcpAssumption DEF Init
<1>3. \A c \in Conns : Data(c) = <<>>
  <2>1. <<>> \in Seq(Byte)
    OBVIOUS
  <2>2. QED
    BY <1>2, <2>1, FlattenShort DEF Data
<1>4. PacketsInv
  <2>1. sent \in [Conns -> 0..MaxBytes] /\ packets \in [Conns -> Seq(Seq(Byte))] /\ phase \in [Conns -> phases]
    BY <1>2 DEF phases
  <2>2. \A c \in Conns : packets[c] = <<>> /\ phase[c] = "first" /\ Len(Data(c)) = 0 /\ sent[c] = 0
    BY <1>2, <1>3
  <2>3. QED
    BY <2>1, <2>2 DEF PacketsInv
<1>5. StreamIsRead
  <2>1. \A c \in Conns : Stream(c, 0) = <<>>
    BY DEF Stream
  <2>2. QED
    BY <1>3, <2>1 DEF StreamIsRead
<1>6. PacketsTogether
  <2>1. \A c \in Conns : Recorded(c) = {} /\ phase[c] = "first"
    BY <1>2 DEF Recorded
  <2>2. QED
    BY <2>1 DEF PacketsTogether
<1>7. CountsConnections
  <2>1. {TCPRequests[i][1].of : i \in 1..Len(TCPRequests)} = {}
    BY <1>2
  <2>2. QED
    BY <1>2, <2>1, FS_EmptySet DEF CountsConnections
<1>8. QED
  BY <1>2, <1>4, <1>5, <1>6, <1>7 DEF RecordInv, RecordIsFaithful

\* Whatever the sizes of the reads and however connections interleave, the
\* inductive invariant of the record holds.
THEOREM RecordInvariant == Spec => []RecordInv
BY RecordInit, RecordNext, PTL DEF Spec

\* What a TCP imposter records is what its clients sent, client by client, and
\* its counter counts the connections.
THEOREM RecordsAreFaithful == Spec => []RecordIsFaithful
<1>1. RecordInv => RecordIsFaithful
  BY DEF RecordInv
<1>2. QED
  BY <1>1, RecordInvariant, PTL

-----------------------------------------------------------------------------
(* The resolver of the end of a request                                     *)

\* Where a handler may stand after a step that does not read.
Decided(c) ==
  \/ phase'[c] = phase[c] /\ cut'[c] = cut[c]
  \/ phase'[c] \notin {"first", "more", "record", "match"}
  \/ phase[c] = "record" /\ phase'[c] = "match" /\ cut'[c] = cut[c]
  \/ phase'[c] = "record" /\ cut'[c]

LEMMA ResolveFrame ==
  ASSUME ResolveInv, UNCHANGED <<hasResolver, packets, asked>>, cut' \in [Conns -> BOOLEAN],
         \A c \in Conns : Decided(c)
  PROVE  ResolveInv'
<1>1. \A c \in Conns : Data(c)' = Data(c)
  BY DEF Data
<1>2. asked' \in [Conns -> Seq(Nat)]
  BY DEF ResolveInv
<1>3. ASSUME hasResolver, NEW c \in Conns
      PROVE  /\ \A i \in 1..Len(asked'[c]) - 1 : Resolve(asked'[c][i]) = "incomplete"
             /\ phase'[c] = "more" => Resolve(Len(Data(c)')) = "incomplete"
             /\ phase'[c] = "match" /\ ~cut'[c] => Resolve(Len(Data(c)')) # "incomplete"
             /\ Len(packets'[c]) <= 1
             /\ phase'[c] = "first" => asked'[c] = <<>>
             /\ phase'[c] = "more" => asked'[c] # <<>>
             /\ phase'[c] = "record" /\ ~cut'[c] => Resolve(Len(Data(c)')) # "incomplete"
             /\ asked'[c] # <<>> => asked'[c][Len(asked'[c])] = Len(Data(c)')
  <2>1. /\ \A i \in 1..Len(asked[c]) - 1 : Resolve(asked[c][i]) = "incomplete"
        /\ phase[c] = "more" => Resolve(Len(Data(c))) = "incomplete"
        /\ phase[c] = "match" /\ ~cut[c] => Resolve(Len(Data(c))) # "incomplete"
        /\ Len(packets[c]) <= 1
        /\ phase[c] = "first" => asked[c] = <<>>
        /\ phase[c] = "more" => asked[c] # <<>>
        /\ phase[c] = "record" /\ ~cut[c] => Resolve(Len(Data(c))) # "incomplete"
        /\ asked[c] # <<>> => asked[c][Len(asked[c])] = Len(Data(c))
    BY <1>3 DEF ResolveInv, EndsAsResolved
  <2>2. Data(c)' = Data(c) /\ asked'[c] = asked[c] /\ packets'[c] = packets[c]
    BY <1>1
  <2>3. /\ phase'[c] = "first" => phase[c] = "first"
        /\ phase'[c] = "more" => phase[c] = "more"
        /\ phase'[c] \in {"record", "match"} /\ ~cut'[c] => phase[c] \in {"record", "match"} /\ ~cut[c]
    BY DEF Decided
  <2>4. QED
    BY <2>1, <2>2, <2>3
<1>4. EndsAsResolved'
  BY <1>3 DEF EndsAsResolved
<1>5. QED
  BY <1>2, <1>3, <1>4 DEF ResolveInv

LEMMA ResolveRead ==
  ASSUME ResolveInv, RecordInv, NEW c \in Conns, ReadBytes(c)
  PROVE  ResolveInv'
<1>1. PICK more \in Seq(Seq(Byte)) :
        /\ packets' = [packets EXCEPT ![c] = more]
        /\ FlattenSeq(more) \in Seq(Byte)
        /\ IF hasResolver
           THEN /\ more = <<FlattenSeq(more)>>
                /\ asked' = [asked EXCEPT ![c] = Append(@, Len(FlattenSeq(more)))]
                /\ phase' = [phase EXCEPT ![c] = IF Resolve(Len(FlattenSeq(more))) = "incomplete"
                                                 THEN "more" ELSE "record"]
           ELSE UNCHANGED asked /\ phase' = [phase EXCEPT ![c] = "more"]
  BY ReadPackets DEF RecordInv, RecordIsFaithful
<1>2. UNCHANGED <<hasResolver, cut>> /\ phase[c] \in {"first", "more"}
  BY DEF ReadBytes, Reading
<1>3. /\ packets \in [Conns -> Seq(Seq(Byte))] /\ phase \in [Conns -> phases]
      /\ asked \in [Conns -> Seq(Nat)] /\ asked[c] \in Seq(Nat)
  BY DEF RecordInv, PacketsInv, ResolveInv
<1> DEFINE n == Len(FlattenSeq(more))
           m == Len(asked[c])
<1>4. n \in Nat /\ m \in Nat
  BY <1>1, <1>3
<1>5. Data(c)' = FlattenSeq(more)
  BY <1>1, <1>3 DEF Data
<1> HIDE DEF n
<1>6. CASE ~hasResolver
  BY <1>1, <1>2, <1>3, <1>6 DEF ResolveInv, EndsAsResolved
<1>7. CASE hasResolver
  <2>1. asked' = [asked EXCEPT ![c] = Append(asked[c], n)]
    BY <1>1, <1>7 DEF n
  <2>2. asked' \in [Conns -> Seq(Nat)] /\ asked'[c] = Append(asked[c], n)
    BY <1>3, <1>4, <2>1
  <2>3. /\ Len(asked'[c]) = m + 1 /\ asked'[c][m + 1] = n /\ asked'[c] # <<>>
        /\ \A i \in 1..m : asked'[c][i] = asked[c][i]
    <3> DEFINE e == Append(asked[c], n)
    <3>1. Len(e) = m + 1 /\ e[m + 1] = n /\ \A i \in 1..m : e[i] = asked[c][i]
      BY <1>3, <1>4
    <3>2. Len(e) # 0
      BY <1>4, <3>1
    <3> HIDE DEF e
    <3>3. e # <<>>
      BY <3>2, NotEmpty
    <3>4. asked'[c] = e
      BY <2>2 DEF e
    <3>5. QED
      BY <3>1, <3>3, <3>4
  <2>4. \A i \in 1..m : Resolve(asked[c][i]) = "incomplete"
    <3>1. CASE phase[c] = "first"
      <4>1. m = 0
        BY <1>7, <3>1 DEF ResolveInv
      <4>2. QED
        BY <4>1
    <3>2. CASE phase[c] = "more"
      <4>1. /\ \A i \in 1..m - 1 : Resolve(asked[c][i]) = "incomplete"
            /\ Resolve(Len(Data(c))) = "incomplete"
            /\ asked[c][m] = Len(Data(c))
        BY <1>7, <3>2 DEF ResolveInv, EndsAsResolved
      <4>2. \A i \in 1..m : i = m \/ i \in 1..m - 1
        BY <1>4
      <4>3. QED
        BY <4>1, <4>2
    <3>3. QED
      BY <1>2, <3>1, <3>2
  <2>5. \A i \in 1..Len(asked'[c]) - 1 : Resolve(asked'[c][i]) = "incomplete"
    BY <1>4, <2>3, <2>4
  <2>6. /\ phase'[c] \in {"more", "record"}
        /\ phase'[c] = "more" <=> Resolve(n) = "incomplete"
    BY <1>1, <1>3, <1>7 DEF n
  <2>7. Len(packets'[c]) = 1 /\ Len(Data(c)') = n
    BY <1>1, <1>3, <1>5, <1>7 DEF n
  <2>8. ASSUME NEW d \in Conns, d # c
        PROVE  /\ asked'[d] = asked[d] /\ phase'[d] = phase[d] /\ packets'[d] = packets[d]
               /\ Data(d)' = Data(d) /\ cut'[d] = cut[d]
    BY <1>1, <1>2, <1>3, <1>7, <2>8 DEF Data
  <2>9. asked'[c][Len(asked'[c])] = n
    BY <2>3
  <2>10. EndsAsResolved'
    <3>1. ASSUME NEW d \in Conns
          PROVE  /\ \A i \in 1..Len(asked'[d]) - 1 : Resolve(asked'[d][i]) = "incomplete"
                 /\ phase'[d] = "more" => Resolve(Len(Data(d)')) = "incomplete"
                 /\ phase'[d] = "match" /\ ~cut'[d] => Resolve(Len(Data(d)')) # "incomplete"
                 /\ Len(packets'[d]) <= 1
      <4>1. CASE d = c
        <5>1. phase'[c] # "match" /\ (phase'[c] = "more" => Resolve(Len(Data(c)')) = "incomplete")
          BY <2>6, <2>7
        <5>2. Len(packets'[c]) <= 1
          BY <2>7
        <5>3. QED
          BY <2>5, <4>1, <5>1, <5>2
      <4>2. CASE d # c
        <5>1. /\ \A i \in 1..Len(asked[d]) - 1 : Resolve(asked[d][i]) = "incomplete"
              /\ phase[d] = "more" => Resolve(Len(Data(d))) = "incomplete"
              /\ phase[d] = "match" /\ ~cut[d] => Resolve(Len(Data(d))) # "incomplete"
              /\ Len(packets[d]) <= 1
          BY <1>7 DEF ResolveInv, EndsAsResolved
        <5>2. QED
          BY <2>8, <4>2, <5>1
      <4>3. QED
        BY <4>1, <4>2
    <3>2. QED
      BY <3>1 DEF EndsAsResolved
  <2>11. ASSUME NEW d \in Conns
         PROVE  /\ phase'[d] = "first" => asked'[d] = <<>>
                /\ phase'[d] = "more" => asked'[d] # <<>>
                /\ phase'[d] = "record" /\ ~cut'[d] => Resolve(Len(Data(d)')) # "incomplete"
                /\ asked'[d] # <<>> => asked'[d][Len(asked'[d])] = Len(Data(d)')
    <3>1. CASE d = c
      BY <2>3, <2>6, <2>7, <2>9, <3>1
    <3>2. CASE d # c
      BY <1>7, <2>8, <3>2 DEF ResolveInv
    <3>3. QED
      BY <3>1, <3>2
  <2>12. cut' \in [Conns -> BOOLEAN]
    BY <1>2 DEF ResolveInv
  <2>13. QED
    BY <2>2, <2>10, <2>11, <2>12 DEF ResolveInv
<1>8. QED
  BY <1>6, <1>7

LEMMA ResolveNext == ResolveInv /\ RecordInv /\ [Next]_vars => ResolveInv'
<1>1. SUFFICES ASSUME ResolveInv, RecordInv, [Next]_vars PROVE ResolveInv'
  OBVIOUS
<1>2. phase \in [Conns -> phases] /\ cut \in [Conns -> BOOLEAN]
  BY <1>1 DEF RecordInv, PacketsInv, ResolveInv
<1>3. ASSUME UNCHANGED <<hasResolver, packets, asked, phase, cut>> PROVE ResolveInv'
  BY <1>1, <1>2, <1>3, ResolveFrame DEF Decided
<1>4. ASSUME NEW c \in Conns, NEW p, phase' = [phase EXCEPT ![c] = p],
             p \notin {"first", "more", "record"}, p = "match" => phase[c] = "record",
             UNCHANGED <<hasResolver, packets, asked, cut>>
      PROVE  ResolveInv'
  <2>1. \A d \in Conns : Decided(d)
    BY <1>2, <1>4 DEF Decided
  <2>2. QED
    BY <1>1, <1>2, <1>4, <2>1, ResolveFrame
<1>5. ASSUME NEW c \in Conns, ReadEnds(c) PROVE ResolveInv'
  <2>1. phase' = [phase EXCEPT ![c] = "record"] /\ cut' = [cut EXCEPT ![c] = TRUE]
        /\ UNCHANGED <<hasResolver, packets, asked>>
    BY <1>5 DEF ReadEnds
  <2>2. cut' \in [Conns -> BOOLEAN] /\ cut'[c] /\ \A d \in Conns : d # c => cut'[d] = cut[d]
    BY <1>2, <2>1
  <2>3. phase'[c] = "record" /\ \A d \in Conns : d # c => phase'[d] = phase[d]
    BY <1>2, <2>1
  <2>4. \A d \in Conns : Decided(d)
    BY <2>2, <2>3 DEF Decided
  <2>5. QED
    BY <1>1, <2>1, <2>2, <2>4, ResolveFrame
<1>6. ASSUME NEW c \in Conns, Record(c) PROVE ResolveInv'
  BY <1>4, <1>6 DEF Record, At
<1>7. ASSUME NEW c \in Conns, NoRequest(c) \/ AnswerIs(c) \/ ScriptEnds(c) \/ ScriptFails(c)
                                \/ ProxyFails(c) \/ OriginEnds(c)
      PROVE  ResolveInv'
  <2>1. phase' = [phase EXCEPT ![c] = "done"] /\ UNCHANGED <<hasResolver, packets, asked, cut>>
    BY <1>7 DEF NoRequest, AnswerIs, ScriptEnds, ScriptFails, ProxyFails, OriginEnds, Reply
  <2>2. QED
    BY <1>4, <2>1
<1>8. ASSUME NEW c \in Conns, Match(c) \/ ScriptBegin(c) \/ ProxySent(c) PROVE ResolveInv'
  <2>1. PICK p \in {"is", "inject", "proxy", "invalidProxy", "script", "origin"} :
          phase' = [phase EXCEPT ![c] = p]
    BY <1>8, TcpAssumption DEF Match, ScriptBegin, ProxySent
  <2>2. UNCHANGED <<hasResolver, packets, asked, cut>>
    BY <1>8 DEF Match, ScriptBegin, ProxySent
  <2>3. QED
    BY <1>4, <2>1, <2>2
<1>9. ASSUME NEW c \in Conns, Send(c) \/ FallSilent(c) \/ ReadOrigin(c) PROVE ResolveInv'
  BY <1>3, <1>9 DEF Send, FallSilent, ReadOrigin
<1>10. CASE UNCHANGED tcpVars
  BY <1>3, <1>10 DEF tcpVars
<1>11. CASE UNCHANGED vars
  BY <1>10, <1>11 DEF vars
<1>12. QED
  BY <1>1, <1>5, <1>6, <1>7, <1>8, <1>9, <1>10, <1>11, ResolveRead DEF Next, Handle

\* For every resolver, number of connections and size of reads: a request ends
\* at the first read after which the resolver says so, and not before.
THEOREM RequestsEndAsResolved == Spec => []EndsAsResolved
<1>1. Init => ResolveInv
  <2>1. SUFFICES ASSUME Init PROVE ResolveInv
    OBVIOUS
  <2>2. \A c \in Conns : asked[c] = <<>> /\ phase[c] = "first" /\ packets[c] = <<>>
    BY <2>1 DEF Init
  <2>3. asked \in [Conns -> Seq(Nat)] /\ cut \in [Conns -> BOOLEAN]
    BY <2>1 DEF Init
  <2>4. QED
    BY <2>2, <2>3 DEF ResolveInv, EndsAsResolved
<1>2. ResolveInv => EndsAsResolved
  BY DEF ResolveInv
<1>3. QED
  BY <1>1, <1>2, ResolveNext, RecordInvariant, PTL DEF Spec
=============================================================================
