-------------------------- MODULE SmtpServerProofs --------------------------
(***************************************************************************)
(* The SMTP imposter implements ConnectionServer, and in any order of      *)
(* commands a recorded message is made of what its client sent for it.     *)
(***************************************************************************)
EXTENDS SmtpServer, FiniteSetTheorems, TLAPS

-----------------------------------------------------------------------------
(* ConnectionServer, which the TCP imposter implements too: for any finite  *)
(* set of connections the WaitGroup counts those with a goroutine, and at   *)
(* most one is still served after Stop has returned without an error.       *)

\* The connections with a goroutine are finitely many.
LEMMA OpenFinite == IsFiniteSet(Open) /\ Cardinality(Open) \in Nat
<1>1. IsFiniteSet(Open)
  BY ConnectionAssumption, FS_Subset DEF Open
<1>2. QED
  BY <1>1, FS_CardinalityType

\* Steps that open and close no connection leave the count as it is.
LEMMA SameOpen ==
  ASSUME \A c \in Conns : conn'[c] = "open" <=> conn[c] = "open"
  PROVE  Open' = Open
BY DEF Open

\* A goroutine that begins adds one to the connections that have one.
LEMMA OneMore ==
  ASSUME NEW c \in Conns, ConnTypeOK, conn[c] # "open",
         conn' = [conn EXCEPT ![c] = "open"]
  PROVE  Cardinality(Open') = Cardinality(Open) + 1
<1>1. Open' = Open \cup {c} /\ c \notin Open
  BY DEF Open, ConnTypeOK
<1>2. QED
  BY <1>1, OpenFinite, FS_AddElement

\* A goroutine that ends takes one away.
LEMMA OneLess ==
  ASSUME NEW c \in Conns, ConnTypeOK, conn[c] = "open",
         conn' = [conn EXCEPT ![c] = "closed"]
  PROVE  Cardinality(Open') = Cardinality(Open) - 1
<1>1. Open' = Open \ {c} /\ c \in Open
  BY DEF Open, ConnTypeOK
<1>2. QED
  BY <1>1, OpenFinite, FS_RemoveElement

\* The server starts with no connection and an empty group.
LEMMA ConnInvInit == ConnInit => ConnInv
<1>1. SUFFICES ASSUME ConnInit PROVE ConnInv
  OBVIOUS
<1>2. Open = {}
  BY <1>1 DEF ConnInit, Open
<1>3. wg = Cardinality(Open)
  BY <1>1, <1>2, FS_EmptySet DEF ConnInit
<1>4. ConnTypeOK
  BY <1>1 DEF ConnInit, ConnTypeOK
<1>5. QED
  BY <1>1, <1>3, <1>4, ConnectionAssumption DEF ConnInit, ConnInv

\* Every step of a client, of acceptLoop and of Stop keeps the group exact.
LEMMA ConnInvNext == ConnInv /\ [ConnNext]_serverVars => ConnInv'
<1>1. SUFFICES ASSUME ConnInv, [ConnNext]_serverVars PROVE ConnInv'
  OBVIOUS
<1>2. ConnTypeOK
  BY <1>1 DEF ConnInv
<1> DEFINE Keeps == \A c \in Conns : conn'[c] = "open" <=> conn[c] = "open"
<1>3. ASSUME Keeps, wg' = wg PROVE wg' = Cardinality(Open')
  BY <1>1, <1>3, SameOpen DEF ConnInv
<1>4. ASSUME NEW c \in Conns, Connect(c) PROVE ConnInv'
  <2>1. Keeps /\ wg' = wg
    BY <1>2, <1>4 DEF Connect, ConnTypeOK
  <2>2. QED
    BY <1>1, <1>2, <1>3, <1>4, <2>1 DEF Connect, ConnInv, ConnTypeOK
<1>5. ASSUME NEW c \in Conns, HandlerEnds(c) PROVE ConnInv'
  <2>1. Cardinality(Open') = Cardinality(Open) - 1
    BY <1>2, <1>5, OneLess DEF HandlerEnds
  <2>2. wg' = Cardinality(Open') /\ wg' \in Nat
    <3>1. IsFiniteSet(Open) /\ c \in Open
      BY <1>5, OpenFinite DEF HandlerEnds, Open
    <3>2. Cardinality(Open) # 0
      BY <3>1, FS_EmptySet
    <3>3. QED
      BY <1>1, <1>5, <2>1, <3>2, OpenFinite DEF HandlerEnds, ConnInv
  <2>3. QED
    BY <1>1, <1>2, <1>5, <2>2 DEF HandlerEnds, ConnInv, ConnTypeOK
<1>6. ASSUME NEW c \in Conns, Accept(c) PROVE ConnInv'
  <2>1. Keeps /\ wg' = wg
    BY <1>2, <1>6 DEF Accept, ConnTypeOK
  <2>2. held = NoConn /\ listening
    BY <1>1, <1>6 DEF Accept, ConnInv
  <2>3. QED
    BY <1>1, <1>2, <1>3, <1>6, <2>1, <2>2, ConnectionAssumption DEF Accept, ConnInv, ConnTypeOK
<1>7. CASE LoopBegin \/ AcceptFails \/ AfterFailure
  <2>1. Keeps /\ wg' = wg
    BY <1>7 DEF LoopBegin, AcceptFails, AfterFailure
  <2>2. QED
    BY <1>1, <1>2, <1>3, <1>7, <2>1 DEF LoopBegin, AcceptFails, AfterFailure, ConnInv, ConnTypeOK
<1>8. CASE HandOver
  <2>1. held \in Conns /\ conn[held] = "held"
    BY <1>1, <1>8 DEF HandOver, ConnInv, ConnTypeOK
  <2>2. Cardinality(Open') = Cardinality(Open) + 1
    BY <1>2, <1>8, <2>1, OneMore DEF HandOver
  <2>3. wg' = Cardinality(Open')
    BY <1>1, <1>8, <2>2 DEF HandOver, ConnInv
  <2>4. QED
    BY <1>1, <1>2, <1>8, <2>1, <2>3, ConnectionAssumption DEF HandOver, ConnInv, ConnTypeOK
<1>9. CASE StopBegin \/ StopWaited \/ StopTimeout
  <2>1. Keeps /\ wg' = wg
    BY <1>9 DEF StopBegin, StopWaited, StopTimeout
  <2>2. wg' = Cardinality(Open')
    BY <1>3, <2>1
  <2>3. CASE StopBegin
    BY <1>1, <1>2, <2>2, <2>3 DEF StopBegin, ConnInv, ConnTypeOK
  <2>4. CASE StopWaited \/ StopTimeout
    BY <1>1, <1>2, <2>2, <2>4 DEF StopWaited, StopTimeout, ConnInv, ConnTypeOK
  <2>5. QED
    BY <1>9, <2>3, <2>4
<1>10. CASE StopClose
  <2>1. Keeps /\ wg' = wg
    BY <1>2, <1>10 DEF StopClose
  <2>2. QED
    BY <1>1, <1>2, <1>3, <1>10, <2>1 DEF StopClose, ConnInv, ConnTypeOK
<1>11. CASE UNCHANGED serverVars
  <2>1. Keeps /\ wg' = wg
    BY <1>11 DEF serverVars
  <2>2. QED
    BY <1>1, <1>2, <1>3, <1>11, <2>1 DEF serverVars, ConnInv, ConnTypeOK
<1>12. QED
  BY <1>1, <1>4, <1>5, <1>6, <1>7, <1>8, <1>9, <1>10, <1>11 DEF ConnNext, AcceptLoop, Stop

\* The WaitGroup of the TCP and SMTP servers counts exactly the connections
\* that have a goroutine, and no connection is accepted once Stop has closed
\* the listener.
THEOREM GroupIsExact == ConnSpec => []ConnInv
BY ConnInvInit, ConnInvNext, PTL DEF ConnSpec

\* Once Stop has returned, only the connection that acceptLoop held at that
\* moment can still be handed to a goroutine.
LEMMA OneOutlivesNext == ConnInv /\ OneOutlivesStop /\ [ConnNext]_serverVars => OneOutlivesStop'
<1>1. SUFFICES ASSUME ConnInv, OneOutlivesStop, [ConnNext]_serverVars, stop' = "ok"
               PROVE  Cardinality(Open') + (IF acceptor' = "add" THEN 1 ELSE 0) <= 1
  BY DEF OneOutlivesStop
<1>2. ConnTypeOK /\ Cardinality(Open) \in Nat
  BY <1>1, OpenFinite DEF ConnInv
<1>3. ASSUME stop = "ok", Open' = Open, acceptor' # "add" \/ acceptor' = acceptor
      PROVE  Cardinality(Open') + (IF acceptor' = "add" THEN 1 ELSE 0) <= 1
  BY <1>1, <1>2, <1>3 DEF OneOutlivesStop
<1>4. ASSUME NEW c \in Conns, Connect(c)
      PROVE  Cardinality(Open') + (IF acceptor' = "add" THEN 1 ELSE 0) <= 1
  <2>1. Open' = Open
    BY <1>2, <1>4 DEF Connect, Open
  <2>2. QED
    BY <1>1, <1>3, <1>4, <2>1 DEF Connect
<1>5. ASSUME NEW c \in Conns, HandlerEnds(c)
      PROVE  Cardinality(Open') + (IF acceptor' = "add" THEN 1 ELSE 0) <= 1
  <2>1. Cardinality(Open') = Cardinality(Open) - 1
    BY <1>2, <1>5, OneLess DEF HandlerEnds
  <2>2. QED
    BY <1>1, <1>2, <1>5, <2>1 DEF HandlerEnds, OneOutlivesStop
<1>6. ASSUME NEW c \in Conns, Accept(c) PROVE FALSE
  BY <1>1, <1>6 DEF Accept, ConnInv
<1>7. CASE LoopBegin \/ AcceptFails \/ AfterFailure
  <2>1. Open' = Open
    BY <1>7 DEF LoopBegin, AcceptFails, AfterFailure, Open
  <2>2. QED
    BY <1>1, <1>3, <1>7, <2>1 DEF LoopBegin, AcceptFails, AfterFailure
<1>8. CASE HandOver
  <2>1. held \in Conns /\ conn[held] = "held"
    BY <1>1, <1>8 DEF HandOver, ConnInv, ConnTypeOK
  <2>2. Cardinality(Open') = Cardinality(Open) + 1
    BY <1>2, <1>8, <2>1, OneMore DEF HandOver
  <2>3. QED
    BY <1>1, <1>2, <1>8, <2>2 DEF HandOver, OneOutlivesStop
<1>9. CASE StopWaited
  <2>1. Cardinality(Open) = 0
    BY <1>1, <1>9 DEF StopWaited, ConnInv
  <2>2. Open' = Open
    BY <1>9 DEF StopWaited, Open
  <2>3. QED
    BY <2>1, <2>2
<1>10. CASE StopBegin \/ StopClose \/ StopTimeout
  BY <1>1, <1>10 DEF StopBegin, StopClose, StopTimeout
<1>11. CASE UNCHANGED serverVars
  <2>1. Open' = Open
    BY <1>11 DEF serverVars, Open
  <2>2. QED
    BY <1>1, <1>3, <1>11, <2>1 DEF serverVars
<1>12. QED
  BY <1>1, <1>4, <1>5, <1>6, <1>7, <1>8, <1>9, <1>10, <1>11 DEF ConnNext, AcceptLoop, Stop

\* When Stop returns without an error, at most one connection is still served
\* or about to be: the one that was accepted and not yet in the group.
THEOREM AtMostOneOutlives == ConnSpec => []OneOutlivesStop
<1>1. ConnInit => OneOutlivesStop
  BY DEF ConnInit, OneOutlivesStop
<1>2. QED
  BY <1>1, GroupIsExact, OneOutlivesNext, PTL DEF ConnSpec

-----------------------------------------------------------------------------
(* The connections of the SMTP imposter                                     *)

USE SmtpAssumption

\* A command, or a line of a message, leaves the connections as they are.
LEMMA TurnKeepsServer ==
  ASSUME NEW c \in Conns, Mail(c) \/ Rcpt(c) \/ Data(c) \/ Rset(c) \/ OtherCommand(c) \/ AuthorWrites(c) \/ AuthorEnds(c)
  PROVE  UNCHANGED serverVars
BY DEF Mail, Rcpt, Data, Rset, OtherCommand, AuthorWrites, AuthorEnds, ReadData, Command, ReadLine, serverVars

\* The connections of the SMTP imposter are served and counted as
\* ConnectionServer says, whatever the clients send.
THEOREM SmtpImplementsServer == Spec => ServesConnections
<1>1. Init => ConnInit
  BY DEF Init
<1>2. [Next]_vars => [ConnNext]_serverVars
  <2>1. SUFFICES ASSUME Next PROVE [ConnNext]_serverVars
    BY DEF vars, serverVars
  <2>2. ASSUME NEW c \in Conns, Session(c) PROVE [ConnNext]_serverVars
    BY <2>2, TurnKeepsServer DEF Session, Quit, Lost, ConnNext
  <2>3. QED
    BY <2>1, <2>2 DEF Next, ConnNext
<1>3. QED
  BY <1>1, <1>2, PTL DEF Spec, ServesConnections, ConnSpec

\* So Stop of the SMTP imposter leaves at most one connection behind.
THEOREM SmtpStop == Spec => []OneOutlivesStop
BY SmtpImplementsServer, AtMostOneOutlives DEF ServesConnections

\* And the SMTP imposter counts its connections exactly.
THEOREM SmtpGroupIsExact == Spec => []ConnInv
BY SmtpImplementsServer, GroupIsExact DEF ServesConnections

-----------------------------------------------------------------------------
\* Taking the dot away undoes what the client did to a line that starts with one.
LEMMA UnstuffStuff ==
  ASSUME NEW line \in Line
  PROVE  Unstuff(Stuff(line)) = line
BY DEF Line, Stuff, Unstuff

\* What the client sends for a line of the message never ends it.
LEMMA StuffedLineGoesOn ==
  ASSUME NEW line \in Line
  PROVE  ~IsEnd(Stuff(line))
BY DEF Line, Stuff, IsEnd

\* A set of positions has a first and a last one.
LEMMA FirstAndLast ==
  ASSUME NEW n \in Nat, NEW S \in SUBSET (1..n), S # {}
  PROVE  Min(S) \in S /\ Max(S) \in S
<1> DEFINE R == OpToRel(<, Nat)
<1>1. IsWellFoundedOn(R, Nat)
  BY NatLessThanWellFounded
<1>2. ASSUME NEW T \in SUBSET Nat, T # {} PROVE \E m \in T : \A k \in T : m <= k
  <2>1. PICK m \in T : \A k \in T : <<k, m>> \notin R
    <3> HIDE DEF R
    <3>1. QED
      BY <1>1, <1>2, WFMin
  <2>2. ASSUME NEW k \in T PROVE m <= k
    <3>1. <<k, m>> \notin {ss \in Nat \X Nat : ss[1] < ss[2]}
      BY <2>1 DEF OpToRel
    <3>2. QED
      BY <3>1
  <2>3. QED
    BY <2>2
<1>3. \E m \in S : \A k \in S : m <= k
  BY <1>2
<1>4. \E m \in S : \A k \in S : m >= k
  <2> DEFINE T == {n - k : k \in S}
  <2>1. T \in SUBSET Nat /\ T # {}
    <3>1. \A k \in S : n - k \in Nat
      OBVIOUS
    <3> HIDE DEF R
    <3>2. QED
      BY <3>1
  <2>2. PICK t \in T : \A k \in T : t <= k
    <3> HIDE DEF T
    <3>1. QED
      BY <1>2, <2>1
  <2>3. PICK m \in S : t = n - m
    OBVIOUS
  <2>4. \A k \in S : n - m <= n - k
    BY <2>2, <2>3
  <2>5. QED
    BY <2>4
<1>5. QED
  BY <1>3, <1>4 DEF Min, Max

\* A piece of what was sent for a message was sent for it.
LEMMA PieceSentFor ==
  ASSUME NEW m, NEW ls \in Seq(Line), SentFor(m, ls), NEW i \in 1..(Len(ls) + 1), NEW j \in 0..Len(ls)
  PROVE  SubSeq(ls, i, j) \in Seq(Line) /\ SentFor(m, SubSeq(ls, i, j))
<1>1. SubSeq(ls, i, j) \in Seq(Line)
  OBVIOUS
<1>2. ASSUME NEW k \in 1..Len(SubSeq(ls, i, j))
      PROVE  /\ SubSeq(ls, i, j)[k].of = m.of
             /\ SubSeq(ls, i, j)[k].turn = m.turn
  <2>1. SubSeq(ls, i, j)[k] = ls[i + k - 1] /\ i + k - 1 \in 1..Len(ls)
    OBVIOUS
  <2>2. QED
    BY <2>1 DEF SentFor
<1>3. QED
  BY <1>1, <1>2 DEF SentFor

\* Trimming leaves lines that were there.
LEMMA TrimmedSentFor ==
  ASSUME NEW m, NEW ls \in Seq(Line), SentFor(m, ls)
  PROVE  Trimmed(ls) \in Seq(Line) /\ SentFor(m, Trimmed(ls))
<1> DEFINE shown == {i \in 1..Len(ls) : ~Blank(ls[i])}
<1>1. CASE shown = {}
  BY <1>1 DEF Trimmed, SentFor
<1>2. CASE shown # {}
  <2>1. Min(shown) \in 1..Len(ls) /\ Max(shown) \in 1..Len(ls)
    <3>1. shown \in SUBSET (1..Len(ls)) /\ Len(ls) \in Nat
      OBVIOUS
    <3> HIDE DEF shown
    <3>2. Min(shown) \in shown /\ Max(shown) \in shown
      BY <1>2, <3>1, FirstAndLast
    <3>3. QED
      BY <3>1, <3>2
  <2>2. Trimmed(ls) = SubSeq(ls, Min(shown), Max(shown))
    BY <1>2 DEF Trimmed
  <2> HIDE DEF shown
  <2>3. QED
    BY <2>1, <2>2, PieceSentFor
<1>3. QED
  BY <1>1, <1>2

\* So do the headers and the text of a message.
LEMMA PartsSentFor ==
  ASSUME NEW m, NEW ls \in Seq(Line), SentFor(m, ls)
  PROVE  /\ Trimmed(HeaderSection(ls)) \in Seq(Line) /\ SentFor(m, Trimmed(HeaderSection(ls)))
         /\ Trimmed(Body(ls)) \in Seq(Line) /\ SentFor(m, Trimmed(Body(ls)))
<1>1. /\ HeaderSection(ls) \in Seq(Line) /\ SentFor(m, HeaderSection(ls))
      /\ Body(ls) \in Seq(Line) /\ SentFor(m, Body(ls))
  <2>1. CASE Breaks(ls) = {}
    BY <2>1 DEF HeaderSection, Body, SentFor
  <2>2. CASE Breaks(ls) # {}
    <3>1. Breaks(ls) \in SUBSET (1..Len(ls)) /\ Len(ls) \in Nat
      BY DEF Breaks
    <3>2. Min(Breaks(ls)) \in 1..Len(ls)
      <4>1. Min(Breaks(ls)) \in Breaks(ls)
        BY <2>2, <3>1, FirstAndLast
      <4>2. QED
        BY <3>1, <4>1
    <3> DEFINE b == Min(Breaks(ls))
    <3>3. HeaderSection(ls) = SubSeq(ls, 1, b - 1) /\ Body(ls) = SubSeq(ls, b + 1, Len(ls))
      BY <2>2 DEF HeaderSection, Body
    <3> HIDE DEF b
    <3>4. 1 \in 1..(Len(ls) + 1) /\ b + 1 \in 1..(Len(ls) + 1) /\ b - 1 \in 0..Len(ls) /\ Len(ls) \in 0..Len(ls)
      BY <3>2 DEF b
    <3>5. SubSeq(ls, 1, b - 1) \in Seq(Line) /\ SentFor(m, SubSeq(ls, 1, b - 1))
      BY <3>4, PieceSentFor
    <3>6. SubSeq(ls, b + 1, Len(ls)) \in Seq(Line) /\ SentFor(m, SubSeq(ls, b + 1, Len(ls)))
      BY <3>4, PieceSentFor
    <3>7. QED
      BY <3>3, <3>5, <3>6
  <2>3. QED
    BY <2>1, <2>2
<1>2. QED
  BY <1>1, TrimmedSentFor

\* Every session begins empty.
LEMMA SessionInit == Init => SessionInv
<1>1. SUFFICES ASSUME Init PROVE SessionInv
  OBVIOUS
<1>2. ConnTypeOK
  BY <1>1, ConnInvInit DEF Init, ConnInv
<1>3. TypeOK
  BY <1>1, <1>2 DEF Init, TypeOK
<1>4. QED
  BY <1>1, <1>3 DEF Init, SessionInv, EnvelopeIsOwn, TextIsTransparent

\* What SessionInv says of one session.
SessionOK(c) ==
  /\ mailFrom[c] \in {NoAddress, MyAddress(c)}
  /\ \A k \in 1..Len(rcptTo[c]) : rcptTo[c][k] = MyAddress(c)
  /\ \A k \in 1..Len(dataBuffer[c]) : dataBuffer[c][k].of = c /\ dataBuffer[c][k].turn = turn[c]
  /\ dataBuffer[c] = composed[c]
  /\ dataMode[c] => mailFrom[c] # NoAddress /\ rcptTo[c] # <<>>
  /\ ~dataMode[c] => dataBuffer[c] = <<>>
  /\ dataMode[c] <=> writing[c]

\* What EnvelopeIsOwn and TextIsTransparent say of one message.
Own(m) ==
  /\ m.to # <<>>
  /\ \A a \in {m.from} \cup {m.to[k] : k \in 1..Len(m.to)} : a = [of |-> m.of, turn |-> m.turn]
  /\ SentFor(m, m.headers) /\ SentFor(m, m.text)
  /\ m.headers = Trimmed(HeaderSection(m.meant))
  /\ m.text = Trimmed(Body(m.meant))

\* A step that changes the session of one connection leaves the others alone.
LEMMA OtherSessions ==
  ASSUME NEW c \in Conns, NEW d \in Conns, SessionOK(d),
         mailFrom'[d] = mailFrom[d], rcptTo'[d] = rcptTo[d], dataBuffer'[d] = dataBuffer[d],
         composed'[d] = composed[d], dataMode'[d] = dataMode[d], turn'[d] = turn[d],
         writing'[d] = writing[d]
  PROVE  SessionOK(d)'
BY DEF SessionOK, MyAddress

\* No command, in any order, and no line of a message mixes two messages.
LEMMA SessionNext == SessionInv /\ ConnInv' /\ [Next]_vars => SessionInv'
<1>1. SUFFICES ASSUME SessionInv, ConnInv', [Next]_vars PROVE SessionInv'
  OBVIOUS
<1>2. TypeOK /\ EnvelopeIsOwn /\ TextIsTransparent /\ (\A c \in Conns : SessionOK(c)) /\ ConnTypeOK'
  BY <1>1 DEF SessionInv, SessionOK, TextIsTransparent, ConnInv
<1>3. ASSUME UNCHANGED sessionVars PROVE SessionInv'
  BY <1>2, <1>3 DEF sessionVars, SessionInv, SessionOK, TypeOK, EnvelopeIsOwn, TextIsTransparent, MyAddress
<1>4. ASSUME smtpRequests' = smtpRequests, \A d \in Conns : SessionOK(d)' PROVE EnvelopeIsOwn' /\ TextIsTransparent'
  BY <1>2, <1>4 DEF EnvelopeIsOwn, TextIsTransparent, SessionOK
<1>5. ASSUME NEW c \in Conns, Mail(c) PROVE SessionInv'
  <2>1. PICK a \in {MyAddress(c), NoAddress} : mailFrom' = [mailFrom EXCEPT ![c] = a]
    BY <1>5 DEF Mail
  <2>2. UNCHANGED <<rcptTo, dataMode, dataBuffer, smtpRequests, turn, writing, composed>> /\ ~dataMode[c] /\ lines' = lines + 1
    BY <1>5 DEF Mail, Command, ReadLine
  <2>3. TypeOK'
    BY <1>2, <2>1, <2>2 DEF TypeOK, MyAddress, Address
  <2>4. SessionOK(c)'
    BY <1>2, <2>1, <2>2 DEF SessionOK, MyAddress, TypeOK
  <2>5. ASSUME NEW d \in Conns, d # c PROVE SessionOK(d)'
    BY <1>2, <2>1, <2>2, <2>5, OtherSessions DEF TypeOK
  <2>6. QED
    BY <1>4, <2>2, <2>3, <2>4, <2>5 DEF SessionInv, SessionOK
<1>6. ASSUME NEW c \in Conns, Rcpt(c) PROVE SessionInv'
  <2>1. rcptTo' = [rcptTo EXCEPT ![c] = Append(@, MyAddress(c))]
    BY <1>6 DEF Rcpt
  <2>2. UNCHANGED <<mailFrom, dataMode, dataBuffer, smtpRequests, turn, writing, composed>> /\ ~dataMode[c] /\ lines' = lines + 1
    BY <1>6 DEF Rcpt, Command, ReadLine
  <2>3. TypeOK'
    BY <1>2, <2>1, <2>2 DEF TypeOK, MyAddress, Address
  <2>4. SessionOK(c)'
    BY <1>2, <2>1, <2>2 DEF SessionOK, MyAddress, TypeOK
  <2>5. ASSUME NEW d \in Conns, d # c PROVE SessionOK(d)'
    BY <1>2, <2>1, <2>2, <2>5, OtherSessions DEF TypeOK
  <2>6. QED
    BY <1>4, <2>2, <2>3, <2>4, <2>5 DEF SessionInv, SessionOK
<1>7. ASSUME NEW c \in Conns, Data(c) PROVE SessionInv'
  <2>1. /\ dataMode' = [dataMode EXCEPT ![c] = TRUE]
        /\ writing' = [writing EXCEPT ![c] = TRUE]
        /\ mailFrom[c] # NoAddress /\ rcptTo[c] # <<>>
    BY <1>7 DEF Data
  <2>2. UNCHANGED <<mailFrom, rcptTo, dataBuffer, smtpRequests, turn, composed>> /\ lines' = lines + 1
    BY <1>7 DEF Data, Command, ReadLine
  <2>3. TypeOK'
    BY <1>2, <2>1, <2>2 DEF TypeOK
  <2>4. SessionOK(c)'
    BY <1>2, <2>1, <2>2 DEF SessionOK, MyAddress, TypeOK
  <2>5. ASSUME NEW d \in Conns, d # c PROVE SessionOK(d)'
    BY <1>2, <2>1, <2>2, <2>5, OtherSessions DEF TypeOK
  <2>6. QED
    BY <1>4, <2>2, <2>3, <2>4, <2>5 DEF SessionInv, SessionOK
<1>8. ASSUME NEW c \in Conns, Rset(c) PROVE SessionInv'
  <2>1. /\ mailFrom' = [mailFrom EXCEPT ![c] = NoAddress]
        /\ rcptTo' = [rcptTo EXCEPT ![c] = <<>>]
        /\ dataBuffer' = [dataBuffer EXCEPT ![c] = <<>>]
        /\ turn' = [turn EXCEPT ![c] = @ + 1]
    BY <1>8 DEF Rset
  <2>2. UNCHANGED <<dataMode, smtpRequests, writing, composed>> /\ ~dataMode[c] /\ lines' = lines + 1
    BY <1>8 DEF Rset, Command, ReadLine
  <2>3. TypeOK'
    BY <1>2, <2>1, <2>2 DEF TypeOK
  <2>4. SessionOK(c)'
    <3>1. dataBuffer'[c] = <<>> /\ composed'[c] = <<>>
      BY <1>2, <2>1, <2>2 DEF SessionOK, TypeOK
    <3>2. mailFrom'[c] = NoAddress /\ rcptTo'[c] = <<>> /\ ~dataMode'[c] /\ ~writing'[c]
      BY <1>2, <2>1, <2>2 DEF SessionOK, TypeOK
    <3>3. QED
      BY <3>1, <3>2 DEF SessionOK
  <2>5. ASSUME NEW d \in Conns, d # c PROVE SessionOK(d)'
    BY <1>2, <2>1, <2>2, <2>5, OtherSessions DEF TypeOK
  <2>6. QED
    BY <1>4, <2>2, <2>3, <2>4, <2>5 DEF SessionInv, SessionOK
<1>9. ASSUME NEW c \in Conns, OtherCommand(c) PROVE SessionInv'
  <2>1. UNCHANGED <<mailFrom, rcptTo, dataMode, dataBuffer, smtpRequests, turn, writing, composed>> /\ lines' = lines + 1
    BY <1>9 DEF OtherCommand, Command, ReadLine
  <2>2. TypeOK'
    BY <1>2, <2>1 DEF TypeOK
  <2>3. ASSUME NEW d \in Conns PROVE SessionOK(d)'
    BY <1>2, <2>1, OtherSessions
  <2>4. QED
    BY <1>4, <2>1, <2>2, <2>3 DEF SessionInv, SessionOK
<1>10. ASSUME NEW c \in Conns, AuthorWrites(c) PROVE SessionInv'
  <2>1. PICK line \in Lines(c) : ReadData(c, Stuff(line), Append(composed[c], line))
    BY <1>10 DEF AuthorWrites
  <2>2. line \in Line
    BY <1>2 DEF Lines, Line, TypeOK
  <2>3. line.of = c /\ line.turn = turn[c]
    BY DEF Lines
  <2>4. /\ dataBuffer' = [dataBuffer EXCEPT ![c] = Append(@, line)]
        /\ composed' = [composed EXCEPT ![c] = Append(composed[c], line)]
    BY <2>1, <2>2, UnstuffStuff, StuffedLineGoesOn DEF ReadData, DataLine
  <2>5. UNCHANGED <<mailFrom, rcptTo, dataMode, smtpRequests, turn, writing>> /\ dataMode[c] /\ lines' = lines + 1
    BY <1>10, <2>1, <2>2, StuffedLineGoesOn DEF AuthorWrites, ReadData, DataLine, ReadLine
  <2>6. TypeOK'
    BY <1>2, <2>2, <2>4, <2>5 DEF TypeOK
  <2>7. SessionOK(c)'
    BY <1>2, <2>2, <2>3, <2>4, <2>5 DEF SessionOK, MyAddress, TypeOK
  <2>8. ASSUME NEW e \in Conns, e # c PROVE SessionOK(e)'
    BY <1>2, <2>4, <2>5, <2>8, OtherSessions DEF TypeOK
  <2>9. QED
    BY <1>4, <2>5, <2>6, <2>7, <2>8 DEF SessionInv, SessionOK
<1>11. ASSUME NEW c \in Conns, AuthorEnds(c) PROVE SessionInv'
  <2> DEFINE msg == Parsed(c, composed[c])
  <2>1. EndOfData(c, composed[c]) /\ dataMode[c] /\ lines' = lines + 1
    BY <1>11 DEF AuthorEnds, ReadData, ReadLine, IsEnd
  <2>2. /\ smtpRequests' = Append(smtpRequests, msg)
        /\ mailFrom' = [mailFrom EXCEPT ![c] = NoAddress]
        /\ rcptTo' = [rcptTo EXCEPT ![c] = <<>>]
        /\ dataMode' = [dataMode EXCEPT ![c] = FALSE]
        /\ writing' = [writing EXCEPT ![c] = FALSE]
        /\ dataBuffer' = [dataBuffer EXCEPT ![c] = <<>>]
        /\ turn' = [turn EXCEPT ![c] = @ + 1]
        /\ composed' = [composed EXCEPT ![c] = <<>>]
    BY <1>11, <2>1 DEF EndOfData, AuthorEnds
  <2>3. /\ dataBuffer[c] \in Seq(Line) /\ dataBuffer[c] = composed[c]
        /\ SentFor(msg, dataBuffer[c])
    BY <1>2 DEF SessionOK, TypeOK, SentFor, Parsed
  <2>4. /\ msg.headers = Trimmed(HeaderSection(dataBuffer[c])) /\ msg.text = Trimmed(Body(dataBuffer[c]))
        /\ msg.headers \in Seq(Line) /\ SentFor(msg, msg.headers)
        /\ msg.text \in Seq(Line) /\ SentFor(msg, msg.text)
    <3>1. msg.headers = Trimmed(HeaderSection(dataBuffer[c])) /\ msg.text = Trimmed(Body(dataBuffer[c]))
      BY DEF Parsed
    <3> HIDE DEF msg
    <3>2. QED
      BY <2>3, <3>1, PartsSentFor
  <2>5. /\ msg.of = c /\ msg.turn = turn[c] /\ msg.from = mailFrom[c] /\ msg.to = rcptTo[c] /\ msg.meant = composed[c]
        /\ msg = [of |-> msg.of, turn |-> msg.turn, from |-> msg.from, to |-> msg.to,
                  headers |-> msg.headers, text |-> msg.text, meant |-> msg.meant]
    BY DEF Parsed
  <2> HIDE DEF msg
  <2>6. msg \in Message
    <3>1. /\ msg.of \in Conns /\ msg.turn \in Nat /\ msg.from \in Address \cup {NoAddress}
          /\ msg.to \in Seq(Address) /\ msg.meant \in Seq(Line)
      BY <1>2, <2>5 DEF TypeOK
    <3>2. QED
      BY <2>4, <2>5, <3>1 DEF Message
  <2>7. /\ msg.to # <<>>
        /\ msg.from = [of |-> msg.of, turn |-> msg.turn]
        /\ \A k \in 1..Len(msg.to) : msg.to[k] = [of |-> msg.of, turn |-> msg.turn]
    BY <1>2, <2>1, <2>5 DEF SessionOK, MyAddress, TypeOK
  <2>8. SessionOK(c)'
    BY <1>2, <2>2 DEF SessionOK, MyAddress, TypeOK
  <2>9. ASSUME NEW e \in Conns, e # c PROVE SessionOK(e)'
    BY <1>2, <2>2, <2>9, OtherSessions DEF TypeOK
  <2>10. EnvelopeIsOwn' /\ TextIsTransparent'
    <3>1. /\ Len(smtpRequests') = Len(smtpRequests) + 1
          /\ \A i \in 1..Len(smtpRequests) : smtpRequests'[i] = smtpRequests[i]
          /\ smtpRequests'[Len(smtpRequests) + 1] = msg
      BY <1>2, <2>2, <2>6 DEF TypeOK
    <3>2. \A i \in 1..Len(smtpRequests') : i \in 1..Len(smtpRequests) \/ i = Len(smtpRequests) + 1
      BY <1>2, <3>1 DEF TypeOK
    <3>3. ASSUME NEW i \in 1..Len(smtpRequests), NEW r, r = smtpRequests[i]
          PROVE  Own(r)
      BY <1>2, <3>3 DEF EnvelopeIsOwn, TextIsTransparent, Own
    <3>4. Own(msg)
      BY <2>3, <2>4, <2>5, <2>7 DEF Own
    <3>5. \A i \in 1..Len(smtpRequests') : Own(smtpRequests'[i])
      BY <3>1, <3>2, <3>3, <3>4
    <3>6. \A d \in Conns : dataMode'[d] <=> writing'[d]
      BY <2>8, <2>9 DEF SessionOK
    <3>7. QED
      BY <3>5, <3>6 DEF EnvelopeIsOwn, TextIsTransparent, Own
  <2>11. TypeOK'
    BY <1>2, <2>1, <2>2, <2>6 DEF TypeOK
  <2>12. QED
    BY <2>8, <2>9, <2>10, <2>11 DEF SessionInv, SessionOK
<1>12. QED
  BY <1>1, <1>3, <1>5, <1>6, <1>7, <1>8, <1>9, <1>10, <1>11
  DEF Next, Session, Quit, Lost, vars, sessionVars

\* In any order of commands, on any number of connections, sessions keep to
\* what they were sent since their last reset.
THEOREM SessionsAreSeparate == Spec => []SessionInv
BY SessionInit, SessionNext, SmtpGroupIsExact, PTL DEF Spec

\* Sender, recipients and text of a recorded message were sent for it.
THEOREM EnvelopesAreOwn == Spec => []EnvelopeIsOwn
<1>1. SessionInv => EnvelopeIsOwn
  BY DEF SessionInv
<1>2. QED
  BY <1>1, SessionsAreSeparate, PTL

\* The server ends a message where its author does, lines of dots included, and
\* takes its headers and its text from the lines that its author wrote.
THEOREM TextsAreTransparent == Spec => []TextIsTransparent
<1>1. SessionInv => TextIsTransparent
  BY DEF SessionInv
<1>2. QED
  BY <1>1, SessionsAreSeparate, PTL

\* The SMTP imposter keeps its types.
THEOREM SmtpTypeCorrect == Spec => []TypeOK
<1>1. SessionInv => TypeOK
  BY DEF SessionInv
<1>2. QED
  BY <1>1, SessionsAreSeparate, PTL
=============================================================================
