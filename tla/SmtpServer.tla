----------------------------- MODULE SmtpServer -----------------------------
(***************************************************************************)
(* The SMTP imposter: a ConnectionServer whose connections are SMTP        *)
(* sessions (SMTPServer.handleConnection), one turn of the loop per        *)
(* action.  A client waits for the answer to a command before it sends the *)
(* next one, so a line is chosen when it is read.  The connection may      *)
(* break, or be silent for sixty seconds, at any time.                     *)
(*                                                                         *)
(* An address, and a line of a message, is told apart by its connection    *)
(* and by how many messages that connection has ended or reset before.     *)
(* Clients escape lines that start with a dot, and the line "." ends a     *)
(* message; which line does so is the server's to find out.  A message is  *)
(* plain text: the parts of a multipart message are left out, and so are   *)
(* the fields of the headers and white space within lines.                 *)
(***************************************************************************)
EXTENDS ConnectionServer, Sequences, FiniteSetsExt

CONSTANTS
  MaxLines,  \* bound on the lines read in a behaviour
  MaxDots,   \* most dots that a line of a message starts with
  NoAddress  \* the empty string

ASSUME SmtpAssumption == MaxLines \in Nat /\ MaxDots \in Nat

\* A line of a message: how many dots it starts with, and whether more follows.
Line == [of : Conns, turn : Nat, dots : Nat, more : BOOLEAN]

Address == [of : Conns, turn : Nat]

Message == [of : Conns, turn : Nat, from : Address \cup {NoAddress}, to : Seq(Address),
            headers : Seq(Line), text : Seq(Line), meant : Seq(Line)]

VARIABLES
  mailFrom,     \* session state of each connection
  rcptTo,
  dataMode,
  dataBuffer,
  smtpRequests, \* imposter.SMTPRequests, with recordRequests
  turn,         \* history: messages ended or reset on each connection
  writing,      \* the client is sending a message
  composed,     \* history: the lines of the message that the client is sending
  lines         \* number of lines read

sessionVars == <<mailFrom, rcptTo, dataMode, dataBuffer, smtpRequests, turn, writing, composed, lines>>

vars == <<serverVars, sessionVars>>

TypeOK ==
  /\ ConnTypeOK
  /\ mailFrom \in [Conns -> Address \cup {NoAddress}]
  /\ rcptTo \in [Conns -> Seq(Address)]
  /\ dataMode \in [Conns -> BOOLEAN]
  /\ dataBuffer \in [Conns -> Seq(Line)]
  /\ smtpRequests \in Seq(Message)
  /\ turn \in [Conns -> Nat]
  /\ writing \in [Conns -> BOOLEAN]
  /\ composed \in [Conns -> Seq(Line)]
  /\ lines \in Nat

-----------------------------------------------------------------------------
(* One turn of the loop                                                     *)

\* ReadString returns a line.
ReadLine(c) ==
  /\ conn[c] = "open"
  /\ lines < MaxLines
  /\ lines' = lines + 1
  /\ UNCHANGED <<listening, stopping, acceptor, held, stop>>

\* The client sends a command.
Command(c) == ReadLine(c) /\ ~writing[c] /\ ~dataMode[c] /\ UNCHANGED <<conn, wg>>

MyAddress(c) == [of |-> c, turn |-> turn[c]]

\* MAIL: an address that cannot be found in the line replaces the sender too.
\* The recipients stay.
Mail(c) ==
  /\ Command(c)
  /\ \E a \in {MyAddress(c), NoAddress} : mailFrom' = [mailFrom EXCEPT ![c] = a]
  /\ UNCHANGED <<rcptTo, dataMode, dataBuffer, smtpRequests, turn, writing, composed>>

\* RCPT; a line without an address changes nothing, like the other commands.
Rcpt(c) ==
  /\ Command(c)
  /\ rcptTo' = [rcptTo EXCEPT ![c] = Append(@, MyAddress(c))]
  /\ UNCHANGED <<mailFrom, dataMode, dataBuffer, smtpRequests, turn, writing, composed>>

\* DATA; without a sender or a recipient it is refused, else the client is told to
\* go on.
Data(c) ==
  /\ Command(c)
  /\ mailFrom[c] # NoAddress
  /\ rcptTo[c] # <<>>
  /\ dataMode' = [dataMode EXCEPT ![c] = TRUE]
  /\ writing' = [writing EXCEPT ![c] = TRUE]
  /\ UNCHANGED <<mailFrom, rcptTo, dataBuffer, smtpRequests, turn, composed>>

\* RSET
Rset(c) ==
  /\ Command(c)
  /\ mailFrom' = [mailFrom EXCEPT ![c] = NoAddress]
  /\ rcptTo' = [rcptTo EXCEPT ![c] = <<>>]
  /\ dataBuffer' = [dataBuffer EXCEPT ![c] = <<>>]
  /\ turn' = [turn EXCEPT ![c] = @ + 1]
  /\ UNCHANGED <<dataMode, smtpRequests, writing, composed>>

\* HELO, EHLO, NOOP, VRFY, AUTH, unknown commands, RCPT and DATA that are
\* refused: an answer and nothing else.
OtherCommand(c) ==
  /\ Command(c)
  /\ UNCHANGED <<mailFrom, rcptTo, dataMode, dataBuffer, smtpRequests, turn, writing, composed>>

\* The client escapes a line that starts with a dot by one more dot.
Stuff(line) == IF line.dots > 0 THEN [line EXCEPT !.dots = @ + 1] ELSE line

\* line == "."
IsEnd(wire) == wire.dots = 1 /\ ~wire.more

\* Mutant: the dot is only taken from lines that have more.
UnstuffText(wire) == IF wire.dots > 0 /\ wire.more THEN [wire EXCEPT !.dots = @ - 1] ELSE wire

\* strings.HasPrefix(line, "."), line[1:]
Unstuff(wire) == IF wire.dots > 0 THEN [wire EXCEPT !.dots = @ - 1] ELSE wire

Blank(line) == line.dots = 0 /\ ~line.more

\* strings.TrimSpace
Trimmed(ls) ==
  LET shown == {i \in 1..Len(ls) : ~Blank(ls[i])} IN
    IF shown = {} THEN <<>> ELSE SubSeq(ls, Min(shown), Max(shown))

\* The blank lines that come after a line: strings.SplitN(data, "\r\n\r\n", 2)
\* splits at the first, so a message that begins with one has no text before
\* another.
Breaks(ls) == {i \in 2..Len(ls) : Blank(ls[i])}

HeaderSection(ls) == IF Breaks(ls) = {} THEN ls ELSE SubSeq(ls, 1, Min(Breaks(ls)) - 1)

Body(ls) == IF Breaks(ls) = {} THEN <<>> ELSE SubSeq(ls, Min(Breaks(ls)) + 1, Len(ls))

\* A line of the message; the author has written the lines ls.
DataLine(c, wire, ls) ==
  /\ dataBuffer' = [dataBuffer EXCEPT ![c] = Append(@, Unstuff(wire))]
  /\ composed' = [composed EXCEPT ![c] = ls]
  /\ UNCHANGED <<mailFrom, rcptTo, dataMode, smtpRequests, turn>>

\* parseEmail; the header parser skips a blank line at the start.
Parsed(c, ls) ==
  [of |-> c, turn |-> turn[c], from |-> mailFrom[c], to |-> rcptTo[c],
   headers |-> Trimmed(HeaderSection(dataBuffer[c])), text |-> Trimmed(Body(dataBuffer[c])),
   meant |-> ls]

\* Mutant: the recipients are kept for the next message.
EndOfDataKeepsRcpt(c, ls) ==
  /\ smtpRequests' = Append(smtpRequests, Parsed(c, ls))
  /\ mailFrom' = [mailFrom EXCEPT ![c] = NoAddress]
  /\ dataMode' = [dataMode EXCEPT ![c] = FALSE]
  /\ dataBuffer' = [dataBuffer EXCEPT ![c] = <<>>]
  /\ turn' = [turn EXCEPT ![c] = @ + 1]
  /\ composed' = [composed EXCEPT ![c] = <<>>]
  /\ UNCHANGED rcptTo

\* The end of the data: the message is recorded, matched (which changes nothing)
\* and acknowledged, and the session is reset.
EndOfData(c, ls) ==
  /\ smtpRequests' = Append(smtpRequests, Parsed(c, ls))
  /\ mailFrom' = [mailFrom EXCEPT ![c] = NoAddress]
  /\ rcptTo' = [rcptTo EXCEPT ![c] = <<>>]
  /\ dataMode' = [dataMode EXCEPT ![c] = FALSE]
  /\ dataBuffer' = [dataBuffer EXCEPT ![c] = <<>>]
  /\ turn' = [turn EXCEPT ![c] = @ + 1]
  /\ composed' = [composed EXCEPT ![c] = <<>>]

\* In data mode the line wire is read, the author having written the lines ls.
ReadData(c, wire, ls) ==
  /\ ReadLine(c)
  /\ dataMode[c]
  /\ IF IsEnd(wire) THEN EndOfData(c, ls) ELSE DataLine(c, wire, ls)
  /\ UNCHANGED <<conn, wg>>

Lines(c) == {[of |-> c, turn |-> turn[c], dots |-> d, more |-> m] : d \in 0..MaxDots, m \in BOOLEAN}

\* The author writes a line of the message ...
AuthorWrites(c) ==
  /\ writing[c]
  /\ \E line \in Lines(c) : ReadData(c, Stuff(line), Append(composed[c], line))
  /\ UNCHANGED writing

\* ... and ends it, by the line ".".
AuthorEnds(c) ==
  /\ writing[c]
  /\ writing' = [writing EXCEPT ![c] = FALSE]
  /\ ReadData(c, [of |-> c, turn |-> turn[c], dots |-> 1, more |-> FALSE], composed[c])

\* Mutant: QUIT closes the connection and leaves the group as it is.
QuitUncounted(c) ==
  /\ conn[c] = "open"
  /\ ~dataMode[c]
  /\ conn' = [conn EXCEPT ![c] = "closed"]
  /\ UNCHANGED <<listening, stopping, acceptor, held, wg, stop, sessionVars>>

\* QUIT
Quit(c) ==
  /\ ~dataMode[c]
  /\ HandlerEnds(c)
  /\ UNCHANGED sessionVars

\* The client is gone, or silent for sixty seconds; what it sent of a message
\* is dropped.
Lost(c) == HandlerEnds(c) /\ UNCHANGED sessionVars

-----------------------------------------------------------------------------
Init ==
  /\ ConnInit
  /\ mailFrom = [c \in Conns |-> NoAddress]
  /\ rcptTo = [c \in Conns |-> <<>>]
  /\ dataMode = [c \in Conns |-> FALSE]
  /\ dataBuffer = [c \in Conns |-> <<>>]
  /\ smtpRequests = <<>>
  /\ turn = [c \in Conns |-> 0]
  /\ writing = [c \in Conns |-> FALSE]
  /\ composed = [c \in Conns |-> <<>>]
  /\ lines = 0

Session(c) ==
  \/ Mail(c)
  \/ Rcpt(c)
  \/ Data(c)
  \/ Rset(c)
  \/ OtherCommand(c)
  \/ AuthorWrites(c)
  \/ AuthorEnds(c)
  \/ Quit(c)
  \/ Lost(c)

Next ==
  \/ \E c \in Conns : Session(c)
  \/ \E c \in Conns : Connect(c) /\ UNCHANGED sessionVars
  \/ AcceptLoop /\ UNCHANGED sessionVars
  \/ Stop /\ UNCHANGED sessionVars

Spec == Init /\ [][Next]_vars

\* The goroutines of acceptLoop and of Stop are scheduled.
FairSpec ==
  /\ Spec
  /\ WF_vars(AcceptLoop /\ UNCHANGED sessionVars)
  /\ WF_vars(StopClose /\ UNCHANGED sessionVars)

-----------------------------------------------------------------------------
(* Properties                                                               *)

\* The lines ls were sent for the message m.
SentFor(m, ls) == \A k \in 1..Len(ls) : ls[k].of = m.of /\ ls[k].turn = m.turn

\* "The RCPT TO addresses" (web/templates/docs/protocols/smtp.html): sender,
\* recipients, headers and text of a recorded message were all sent on its
\* connection, after the message before it was ended or reset; and it has a
\* sender and at least one recipient.  This is about every order of commands.
EnvelopeIsOwn ==
  \A i \in 1..Len(smtpRequests) :
    LET m == smtpRequests[i] IN
      /\ m.to # <<>>
      /\ \A a \in {m.from} \cup {m.to[k] : k \in 1..Len(m.to)} : a = [of |-> m.of, turn |-> m.turn]
      /\ SentFor(m, m.headers) /\ SentFor(m, m.text)

\* A message ends for the server where it ends for its author, whatever lines of
\* dots it holds, and its headers and its text are taken from the lines that its
\* author wrote: what SMTPServer.handleConnection compares with "." and what it
\* takes off the lines undoes what the client did to them.
TextIsTransparent ==
  /\ \A c \in Conns : dataMode[c] <=> writing[c]
  /\ \A i \in 1..Len(smtpRequests) :
       LET m == smtpRequests[i] IN
         /\ m.headers = Trimmed(HeaderSection(m.meant))
         /\ m.text = Trimmed(Body(m.meant))

\* The inductive strengthening: what a session holds was sent since its last
\* reset, and only a session that is sent a message holds text.
SessionInv ==
  /\ TypeOK
  /\ EnvelopeIsOwn
  /\ TextIsTransparent
  /\ \A c \in Conns :
       /\ mailFrom[c] \in {NoAddress, MyAddress(c)}
       /\ \A k \in 1..Len(rcptTo[c]) : rcptTo[c][k] = MyAddress(c)
       /\ \A k \in 1..Len(dataBuffer[c]) : dataBuffer[c][k].of = c /\ dataBuffer[c][k].turn = turn[c]
       /\ dataBuffer[c] = composed[c]
       /\ dataMode[c] => mailFrom[c] # NoAddress /\ rcptTo[c] # <<>>
       /\ ~dataMode[c] => dataBuffer[c] = <<>>

\* SMTP sessions end in the way that ConnectionServer counts them, so that what
\* is proved of it holds of the SMTP imposter.
ServesConnections == ConnSpec
=============================================================================
