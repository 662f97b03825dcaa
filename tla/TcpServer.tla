----------------------------- MODULE TcpServer -----------------------------
(***************************************************************************)
(* The TCP imposter: a ConnectionServer whose connections are one request  *)
(* and one answer (TCPServer.handleConnection).  A client's stream is a    *)
(* sequence of bytes; a read returns any number of those that have         *)
(* arrived, and the end of a request is where the resolver of the imposter *)
(* says, or else where the client is silent for 100 ms.  Binary mode,      *)
(* which writes the same bytes in base64, is left out.                     *)
(***************************************************************************)
EXTENDS ConnectionServer, Sequences, SequencesExt

CONSTANTS
  MaxBytes,     \* bound on the bytes that a client, or the origin, sends
  Resolve(_),   \* what the script says of so many bytes
  Answers,      \* kinds of responses that the stubs of the imposter have
  Nobody        \* s.mu is free

ASSUME TcpAssumption ==
  /\ MaxBytes \in Nat
  /\ \A n \in 1..MaxBytes : Resolve(n) \in {"complete", "incomplete", "error"}
  /\ Answers \subseteq {"is", "inject", "proxy", "invalidProxy"}
  /\ Nobody \notin Conns

Byte == [of : Conns, at : 1..MaxBytes]

VARIABLES
  hasResolver,  \* the imposter was created with an endOfRequestResolver
  sent,         \* bytes that each client has sent
  silent,       \* the client of a connection, and its origin, send nothing more
  packets,      \* readRequestPackets: what the reads have returned
  phase,        \* control point of handleConnection
  mu,           \* who holds s.mu
  TCPRequests,  \* imposter.TCPRequests, with recordRequests
  numberOfRequests,
  state,        \* a counter in s.state that scripts add one to
  seen,         \* the counter that the script has read
  response,     \* how much of the answer of the origin has been read
  asked,        \* history: the lengths that the resolver was asked about
  cut,          \* history: reading ended without the word of the resolver
  ran           \* history: scripts that have changed the counter

tcpVars == <<hasResolver, sent, silent, packets, phase, mu, TCPRequests, numberOfRequests, state, seen,
             response, asked, cut, ran>>

vars == <<serverVars, tcpVars>>

phases == {"first", "more", "record", "match", "is", "inject", "script", "proxy", "invalidProxy", "origin", "done"}

TypeOK ==
  /\ ConnTypeOK
  /\ hasResolver \in BOOLEAN
  /\ sent \in [Conns -> 0..MaxBytes]
  /\ silent \in [Conns -> BOOLEAN]
  /\ packets \in [Conns -> Seq(Seq(Byte))]
  /\ phase \in [Conns -> phases]
  /\ mu \in Conns \cup {Nobody}
  /\ TCPRequests \in Seq(Seq(Byte))
  /\ numberOfRequests \in Nat
  /\ state \in Nat
  /\ seen \in [Conns -> Nat]
  /\ response \in [Conns -> 0..MaxBytes]
  /\ asked \in [Conns -> Seq(Nat)]
  /\ cut \in [Conns -> BOOLEAN]
  /\ ran \in Nat

Stream(c, n) == [i \in 1..n |-> [of |-> c, at |-> i]]

Data(c) == FlattenSeq(packets[c])

-----------------------------------------------------------------------------
(* The client, while the connection lives                                   *)

Send(c) ==
  /\ conn[c] \in {"queued", "held", "open"}
  /\ ~silent[c]
  /\ sent[c] < MaxBytes
  /\ sent' = [sent EXCEPT ![c] = @ + 1]
  /\ UNCHANGED <<serverVars, hasResolver, silent, packets, phase, mu, TCPRequests, numberOfRequests, state,
                 seen, response, asked, cut, ran>>

\* The client, and the origin that its request is forwarded to, have sent their
\* last byte.  Some never do.
FallSilent(c) ==
  /\ conn[c] = "open"
  /\ ~silent[c]
  /\ silent' = [silent EXCEPT ![c] = TRUE]
  /\ UNCHANGED <<serverVars, hasResolver, sent, packets, phase, mu, TCPRequests, numberOfRequests, state,
                 seen, response, asked, cut, ran>>

-----------------------------------------------------------------------------
(* readRequestPackets                                                       *)

Reading(c) == conn[c] = "open" /\ phase[c] \in {"first", "more"}

Unread(c) == sent[c] - Len(Data(c))

\* Mutant: the resolver is asked about the bytes of the last read alone.
AskLastRead(data, read) == Resolve(Len(read))

\* ExecuteEndOfRequestResolver is given everything read so far.
Ask(data, read) == Resolve(Len(data))

\* Mutant: the packets are slices of the buffer that the next read fills again.
AddPacketShared(ps, read) ==
  Append([i \in DOMAIN ps |-> [k \in DOMAIN ps[i] |-> IF k \in DOMAIN read THEN read[k] ELSE ps[i][k]]], read)

\* What a read has put into the buffer is copied.
AddPacket(ps, read) == Append(ps, read)

\* A read returns bytes: a packet of its own, or with a resolver more of the
\* one packet.  The script stops the reading when it fails, too.
ReadBytes(c) ==
  /\ Reading(c)
  /\ \E n \in 1..Unread(c) :
       LET read == SubSeq(Stream(c, sent[c]), Len(Data(c)) + 1, Len(Data(c)) + n)
           data == Data(c) \o read
       IN IF hasResolver
          THEN /\ packets' = [packets EXCEPT ![c] = <<data>>]
               /\ asked' = [asked EXCEPT ![c] = Append(@, Len(data))]
               /\ phase' = [phase EXCEPT ![c] = IF Ask(data, read) = "incomplete" THEN "more" ELSE "record"]
          ELSE /\ packets' = [packets EXCEPT ![c] = AddPacket(@, read)]
               /\ phase' = [phase EXCEPT ![c] = "more"]
               /\ UNCHANGED asked
  /\ UNCHANGED <<serverVars, hasResolver, sent, silent, mu, TCPRequests, numberOfRequests, state, seen,
                 response, cut, ran>>

\* A read finds the end of the stream, or times out, after some bytes; without
\* a resolver any other error ends the request in the same way.
ReadEnds(c) ==
  /\ Reading(c)
  /\ phase[c] = "more"
  /\ Unread(c) = 0 \/ ~hasResolver
  /\ phase' = [phase EXCEPT ![c] = "record"]
  /\ cut' = [cut EXCEPT ![c] = TRUE]
  /\ UNCHANGED <<serverVars, hasResolver, sent, silent, packets, mu, TCPRequests, numberOfRequests, state,
                 seen, response, asked, ran>>

\* handleConnection returns without a request: nothing came, or the connection
\* broke before the first byte or, with a resolver, before the last one.
NoRequest(c) ==
  /\ Reading(c)
  /\ phase[c] = "first" \/ hasResolver
  /\ HandlerEnds(c)
  /\ phase' = [phase EXCEPT ![c] = "done"]
  /\ UNCHANGED <<hasResolver, sent, silent, packets, mu, TCPRequests, numberOfRequests, state, seen,
                 response, asked, cut, ran>>

-----------------------------------------------------------------------------
(* Recording, matching, answering                                           *)

At(c, p) == conn[c] = "open" /\ phase[c] = p

\* Under s.mu: each packet is recorded, and the connection is counted.
Record(c) ==
  /\ At(c, "record")
  /\ mu = Nobody
  /\ TCPRequests' = TCPRequests \o packets[c]
  /\ numberOfRequests' = numberOfRequests + 1
  /\ phase' = [phase EXCEPT ![c] = "match"]
  /\ UNCHANGED <<serverVars, hasResolver, sent, silent, packets, mu, state, seen,
                 response, asked, cut, ran>>

\* matcher.Match: which response comes next is ResponseCycle's.
Match(c) ==
  /\ At(c, "match")
  /\ \E a \in Answers : phase' = [phase EXCEPT ![c] = a]
  /\ UNCHANGED <<serverVars, hasResolver, sent, silent, packets, mu, TCPRequests, numberOfRequests, state,
                 seen, response, asked, cut, ran>>

\* The connection is closed after what is written to it.
Reply(c) ==
  /\ HandlerEnds(c)
  /\ phase' = [phase EXCEPT ![c] = "done"]
  /\ UNCHANGED <<hasResolver, sent, silent, packets, TCPRequests, numberOfRequests, seen,
                 response, asked, cut>>

\* A response with data, behaviors applied; or without, and nothing is written.
AnswerIs(c) ==
  /\ At(c, "is")
  /\ Reply(c)
  /\ UNCHANGED <<mu, state, ran>>

\* Mutant: the script runs without s.mu.
ScriptBeginUnlocked(c) ==
  /\ At(c, "inject")
  /\ seen' = [seen EXCEPT ![c] = state]
  /\ phase' = [phase EXCEPT ![c] = "script"]
  /\ UNCHANGED <<serverVars, hasResolver, sent, silent, packets, mu, TCPRequests, numberOfRequests, state,
                 response, asked, cut, ran>>

\* s.mu.Lock(); ExecuteTCPResponse reads the counter ...
ScriptBegin(c) ==
  /\ At(c, "inject")
  /\ mu = Nobody
  /\ mu' = c
  /\ seen' = [seen EXCEPT ![c] = state]
  /\ phase' = [phase EXCEPT ![c] = "script"]
  /\ UNCHANGED <<serverVars, hasResolver, sent, silent, packets, TCPRequests, numberOfRequests, state,
                 response, asked, cut, ran>>

\* ... and writes it.
ScriptEnds(c) ==
  /\ At(c, "script")
  /\ state' = seen[c] + 1
  /\ ran' = ran + 1
  /\ mu' = Nobody
  /\ Reply(c)

\* Mutant: the lock is kept when the script fails.
ScriptFailsLocked(c) ==
  /\ At(c, "script")
  /\ Reply(c)
  /\ UNCHANGED <<mu, state, ran>>

\* The script fails before it has written the counter: the static response of
\* the stub, when it has one.
ScriptFails(c) ==
  /\ At(c, "script")
  /\ mu' = Nobody
  /\ Reply(c)
  /\ UNCHANGED <<state, ran>>

\* handleProxyRequest: a URL of another protocol, or an origin that cannot be
\* reached or written to.
ProxyFails(c) ==
  /\ At(c, "invalidProxy") \/ At(c, "proxy")
  /\ Reply(c)
  /\ UNCHANGED <<mu, state, ran>>

\* The request is written to the origin.
ProxySent(c) ==
  /\ At(c, "proxy")
  /\ phase' = [phase EXCEPT ![c] = "origin"]
  /\ UNCHANGED <<serverVars, hasResolver, sent, silent, packets, mu, TCPRequests, numberOfRequests, state,
                 seen, response, asked, cut, ran>>

\* readFullResponse, readProxyResponse: a read returns bytes.
ReadOrigin(c) ==
  /\ At(c, "origin")
  /\ ~silent[c]
  /\ hasResolver => response[c] = 0 \/ Resolve(response[c]) = "incomplete"
  /\ \E n \in response[c] + 1 .. MaxBytes : response' = [response EXCEPT ![c] = n]
  /\ UNCHANGED <<serverVars, hasResolver, sent, silent, packets, phase, mu, TCPRequests, numberOfRequests,
                 state, seen, asked, cut, ran>>

\* The resolver stops the reading, or a read ends with an error, a timeout or
\* the end of the stream: what was read, decorated, is forwarded, if anything.
OriginEnds(c) ==
  /\ At(c, "origin")
  /\ Reply(c)
  /\ UNCHANGED <<mu, state, ran>>

-----------------------------------------------------------------------------
Init ==
  /\ ConnInit
  /\ hasResolver \in BOOLEAN
  /\ sent = [c \in Conns |-> 0]
  /\ silent = [c \in Conns |-> FALSE]
  /\ packets = [c \in Conns |-> <<>>]
  /\ phase = [c \in Conns |-> "first"]
  /\ mu = Nobody
  /\ TCPRequests = <<>>
  /\ numberOfRequests = 0
  /\ state = 0
  /\ seen = [c \in Conns |-> 0]
  /\ response = [c \in Conns |-> 0]
  /\ asked = [c \in Conns |-> <<>>]
  /\ cut = [c \in Conns |-> FALSE]
  /\ ran = 0

Handle(c) ==
  \/ ReadBytes(c)
  \/ ReadEnds(c)
  \/ NoRequest(c)
  \/ Record(c)
  \/ Match(c)
  \/ AnswerIs(c)
  \/ ScriptBegin(c)
  \/ ScriptEnds(c)
  \/ ScriptFails(c)
  \/ ProxyFails(c)
  \/ ProxySent(c)
  \/ ReadOrigin(c)
  \/ OriginEnds(c)

\* Stop takes s.mu for its first step only.
StopTcp == (StopBegin /\ mu = Nobody) \/ StopClose \/ StopWaited \/ StopTimeout

Next ==
  \/ \E c \in Conns : Send(c) \/ FallSilent(c) \/ Handle(c)
  \/ \E c \in Conns : Connect(c) /\ UNCHANGED tcpVars
  \/ AcceptLoop /\ UNCHANGED tcpVars
  \/ StopTcp /\ UNCHANGED tcpVars

Spec == Init /\ [][Next]_vars

\* It reads from the client or from the origin: the deadline is set again at
\* every read, so the wait need not end before they fall silent.
Waits(c) == phase[c] \in {"first", "more", "origin"}

\* The goroutines of acceptLoop, of Stop and of the connections are scheduled; a
\* read of a peer that is silent ends at its deadline.  Scripts end, and so do
\* the writes of answers, which fit in the socket's buffer.
FairSpec ==
  /\ Spec
  /\ WF_vars(AcceptLoop /\ UNCHANGED tcpVars)
  /\ WF_vars(StopClose /\ UNCHANGED tcpVars)
  /\ \A c \in Conns : WF_vars(Handle(c) /\ (Waits(c) => silent[c]))

-----------------------------------------------------------------------------
(* Properties                                                               *)

\* The requests that the imposter has recorded for connection c.
Recorded(c) == {i \in 1..Len(TCPRequests) : TCPRequests[i][1].of = c}

\* "Combine all packets for matching" (tcp_server.go): whatever the reads
\* return, the data of a connection is the beginning of what its client sent,
\* with nothing lost, doubled or from another connection.
StreamIsRead == \A c \in Conns : Data(c) = Stream(c, Len(Data(c)))

\* The packets of c stand side by side in the record, in order, and nowhere else.
InOneBlock(c) ==
  \E b \in 0..Len(TCPRequests) :
    /\ Recorded(c) = b + 1 .. b + Len(packets[c])
    /\ \A i \in 1..Len(packets[c]) : TCPRequests[b + i] = packets[c][i]

\* "Each packet should be recorded as a separate request" (tcp_server.go): a
\* connection that is answered is in the record with its packets, each once, in
\* order and with no packet of another client between them.
PacketsTogether ==
  \A c \in Conns :
    /\ phase[c] \in {"first", "more", "record"} => Recorded(c) = {}
    /\ phase[c] \notin {"first", "more", "record", "done"} => Recorded(c) # {}
    /\ Recorded(c) # {} => InOneBlock(c)

\* "once per connection, not per packet" (tcp_server.go).
CountsConnections ==
  numberOfRequests = Cardinality({TCPRequests[i][1].of : i \in 1..Len(TCPRequests)})

\* What a verification reads from a TCP imposter is what its clients sent: their
\* bytes in order, client by client, and as many requests as connections.
RecordIsFaithful == StreamIsRead /\ PacketsTogether /\ CountsConnections

\* With a resolver a request ends at the first read after which the resolver
\* says so, or fails; only the end of the stream or a timeout ends it earlier.
EndsAsResolved ==
  hasResolver => \A c \in Conns :
    /\ \A i \in 1..Len(asked[c]) - 1 : Resolve(asked[c][i]) = "incomplete"
    /\ phase[c] = "more" => Resolve(Len(Data(c))) = "incomplete"
    /\ phase[c] = "match" /\ ~cut[c] => Resolve(Len(Data(c))) # "incomplete"
    /\ Len(packets[c]) <= 1

\* Scripts of concurrent connections change the state of the imposter one after
\* the other, so none of their changes is lost.
ScriptsAreSerial == state = ran

\* The inductive strengthening: a script that runs holds s.mu, and the counter
\* is still what it has read.
ScriptInv ==
  /\ phase \in [Conns -> phases]
  /\ seen \in [Conns -> Nat]
  /\ state \in Nat
  /\ ScriptsAreSerial
  /\ \A c \in Conns : phase[c] = "script" => mu = c /\ seen[c] = state

\* The inductive strengthening of RecordIsFaithful: packets are never empty, and
\* there are some as soon as a read has returned bytes.
PacketsInv ==
  /\ sent \in [Conns -> 0..MaxBytes]
  /\ packets \in [Conns -> Seq(Seq(Byte))]
  /\ phase \in [Conns -> phases]
  /\ \A c \in Conns :
       /\ \A i \in 1..Len(packets[c]) : packets[c][i] # <<>> /\ packets[c][i][1].of = c
       /\ Len(Data(c)) <= sent[c]
       /\ phase[c] = "first" => packets[c] = <<>>
       /\ phase[c] \notin {"first", "done"} => packets[c] # <<>>

RecordInv == PacketsInv /\ TCPRequests \in Seq(Seq(Byte)) /\ RecordIsFaithful

\* The inductive strengthening of EndsAsResolved: the resolver was asked last
\* about all that has been read.
ResolveInv ==
  /\ asked \in [Conns -> Seq(Nat)]
  /\ cut \in [Conns -> BOOLEAN]
  /\ EndsAsResolved
  /\ hasResolver => \A c \in Conns :
       /\ phase[c] = "first" => asked[c] = <<>>
       /\ phase[c] = "more" => asked[c] # <<>>
       /\ phase[c] = "record" /\ ~cut[c] => Resolve(Len(Data(c))) # "incomplete"
       /\ asked[c] # <<>> => asked[c][Len(asked[c])] = Len(Data(c))

\* A connection whose client and origin fall silent is closed in the end, whatever
\* the other connections do: no client that goes on sending, and no script that
\* fails, keeps the server from answering the others.  A peer that goes on sending
\* keeps its own connection open, as every read sets the deadline again.
ConnectionsEnd == \A c \in Conns : conn[c] = "open" /\ silent[c] ~> conn[c] = "closed"

\* TCP connections end in the way that ConnectionServer counts them, so that
\* what is proved of it holds of the TCP imposter.
ServesConnections == ConnSpec
=============================================================================
