-------------------------- MODULE ConnectionServer --------------------------
(***************************************************************************)
(* What the TCP and the SMTP imposter have in common: a goroutine that     *)
(* accepts connections, a goroutine per connection, a WaitGroup that       *)
(* counts them, and Stop, which closes the listener and waits for the      *)
(* group until its context ends.  What a connection does is left open      *)
(* here; TcpServer and SmtpServer say it.                                  *)
(*                                                                         *)
(* A second call of Stop finds started false and returns at once; it       *)
(* changes nothing.                                                        *)
(***************************************************************************)
EXTENDS Naturals, FiniteSets

CONSTANTS
  Conns,           \* connections of clients
  ChecksQuitFirst, \* acceptLoop looks at the quit channel before each Accept (SMTP)
  NoConn           \* no connection

ASSUME ConnectionAssumption ==
  /\ IsFiniteSet(Conns)
  /\ NoConn \notin Conns
  /\ ChecksQuitFirst \in BOOLEAN

VARIABLES
  listening,  \* the listener is open
  stopping,   \* TCPServer.stopping; SMTPServer.quit is closed
  acceptor,   \* control point of acceptLoop
  held,       \* the connection that acceptLoop has accepted and not handed on
  conn,       \* what became of each connection
  wg,         \* the counter of the WaitGroup
  stop        \* control point of Stop, then its result

serverVars == <<listening, stopping, acceptor, held, conn, wg, stop>>

ConnTypeOK ==
  /\ listening \in BOOLEAN
  /\ stopping \in BOOLEAN
  /\ acceptor \in {"loop", "accept", "failed", "add", "done"}
  /\ held \in Conns \cup {NoConn}
  /\ conn \in [Conns -> {"new", "queued", "held", "open", "closed", "refused"}]
  /\ wg \in Nat
  /\ stop \in {"idle", "close", "wait", "ok", "timeout"}

-----------------------------------------------------------------------------
(* Clients                                                                  *)

\* The operating system queues a connection until Accept takes it.
Connect(c) ==
  /\ conn[c] = "new"
  /\ conn' = [conn EXCEPT ![c] = IF listening THEN "queued" ELSE "refused"]
  /\ UNCHANGED <<listening, stopping, acceptor, held, wg, stop>>

-----------------------------------------------------------------------------
(* acceptLoop                                                               *)

LoopBegin ==
  /\ acceptor = "loop"
  /\ acceptor' = IF ChecksQuitFirst /\ stopping THEN "done" ELSE "accept"
  /\ UNCHANGED <<listening, stopping, held, conn, wg, stop>>

Accept(c) ==
  /\ acceptor = "accept"
  /\ conn[c] = "queued"
  /\ acceptor' = "add"
  /\ held' = c
  /\ conn' = [conn EXCEPT ![c] = "held"]
  /\ UNCHANGED <<listening, stopping, wg, stop>>

AcceptFails ==
  /\ acceptor = "accept"
  /\ ~listening
  /\ acceptor' = "failed"
  /\ UNCHANGED <<listening, stopping, held, conn, wg, stop>>

\* Mutant: after an error the loop goes on.
AfterFailureGoOn ==
  /\ acceptor = "failed"
  /\ acceptor' = "accept"
  /\ UNCHANGED <<listening, stopping, held, conn, wg, stop>>

AfterFailure ==
  /\ acceptor = "failed"
  /\ acceptor' = IF stopping THEN "done" ELSE "loop"
  /\ UNCHANGED <<listening, stopping, held, conn, wg, stop>>

\* Mutant: the goroutine adds itself to the group, when it gets to run.
HandOverUncounted ==
  /\ acceptor = "add"
  /\ conn' = [conn EXCEPT ![held] = "open"]
  /\ acceptor' = "loop"
  /\ held' = NoConn
  /\ UNCHANGED <<listening, stopping, wg, stop>>

\* wg.Add(1), and the goroutine of the connection.
HandOver ==
  /\ acceptor = "add"
  /\ wg' = wg + 1
  /\ conn' = [conn EXCEPT ![held] = "open"]
  /\ acceptor' = "loop"
  /\ held' = NoConn
  /\ UNCHANGED <<listening, stopping, stop>>

\* handleConnection returns: the connection is closed, wg.Done().
HandlerEnds(c) ==
  /\ conn[c] = "open"
  /\ conn' = [conn EXCEPT ![c] = "closed"]
  /\ wg' = wg - 1
  /\ UNCHANGED <<listening, stopping, acceptor, held, stop>>

-----------------------------------------------------------------------------
(* Stop                                                                     *)

StopBegin ==
  /\ stop = "idle"
  /\ stop' = "close"
  /\ stopping' = TRUE
  /\ UNCHANGED <<listening, acceptor, held, conn, wg>>

\* listener.Close(): connections in the queue are reset.
StopClose ==
  /\ stop = "close"
  /\ stop' = "wait"
  /\ listening' = FALSE
  /\ conn' = [c \in Conns |-> IF conn[c] = "queued" THEN "refused" ELSE conn[c]]
  /\ UNCHANGED <<stopping, acceptor, held, wg>>

\* wg.Wait() has seen zero.
StopWaited ==
  /\ stop = "wait"
  /\ wg = 0
  /\ stop' = "ok"
  /\ UNCHANGED <<listening, stopping, acceptor, held, conn, wg>>

\* The context of the caller has ended.
StopTimeout ==
  /\ stop = "wait"
  /\ stop' = "timeout"
  /\ UNCHANGED <<listening, stopping, acceptor, held, conn, wg>>

-----------------------------------------------------------------------------
ConnInit ==
  /\ listening = TRUE
  /\ stopping = FALSE
  /\ acceptor = "loop"
  /\ held = NoConn
  /\ conn = [c \in Conns |-> "new"]
  /\ wg = 0
  /\ stop = "idle"

AcceptLoop == LoopBegin \/ (\E c \in Conns : Accept(c)) \/ AcceptFails \/ AfterFailure \/ HandOver

Stop == StopBegin \/ StopClose \/ StopWaited \/ StopTimeout

ConnNext ==
  \/ \E c \in Conns : Connect(c) \/ HandlerEnds(c)
  \/ AcceptLoop
  \/ Stop

ConnSpec == ConnInit /\ [][ConnNext]_serverVars

-----------------------------------------------------------------------------
(* Properties                                                               *)

Open == {c \in Conns : conn[c] = "open"}

\* "Wait for all connections to finish" (smtp_server.go, tcp_server.go): when
\* Stop returns without an error, no connection that had a goroutine is still
\* served.  At most one other is: the one that acceptLoop had accepted and not
\* yet added to the group when Wait saw zero.
OneOutlivesStop ==
  stop = "ok" => Cardinality(Open) + (IF acceptor = "add" THEN 1 ELSE 0) <= 1

\* The inductive strengthening: the group counts the connections with a
\* goroutine, and once the listener is closed only the connection that
\* acceptLoop holds can become one.
ConnInv ==
  /\ ConnTypeOK
  /\ wg = Cardinality(Open)
  /\ acceptor = "add" <=> held # NoConn
  /\ \A c \in Conns : conn[c] = "held" <=> held = c
  /\ stop \in {"wait", "ok", "timeout"} <=> ~listening
  /\ stop # "idle" => stopping
  /\ ~listening => \A c \in Conns : conn[c] # "queued"

\* Stop ends the goroutine of acceptLoop, wherever it stands.
AcceptLoopEnds == stop # "idle" ~> acceptor = "done"
=============================================================================
