------------------------- MODULE ImposterLifecycle -------------------------
(***************************************************************************)
(* The control plane: the admin handlers that create, delete and replace   *)
(* imposters, the in-memory repository they write, the Manager that owns   *)
(* the running servers, and the sockets of the operating system.           *)
(*                                                                         *)
(* A handler is not atomic: it calls the repository (one lock) and the     *)
(* Manager (another lock) one after the other, so each call is an action   *)
(* of its own and the handlers of other clients run in between.  A call    *)
(* of the Manager is atomic: it holds Manager.mu from start to end.        *)
(***************************************************************************)
EXTENDS Naturals, Sequences

CONSTANTS
  Clients,    \* concurrent requests to the admin API
  Ports,      \* TCP ports
  ApiPort,    \* the port the admin API itself listens on
  AnyPort,    \* "port": 0 in a request: let the operating system choose
  Ids,        \* identities (addresses) of models.Imposter values
  Protocols,  \* protocols that requests name
  MaxBatch,   \* longest list of imposters in a PUT /imposters
  MaxBoot,    \* longest list of imposters in the --configfile
  None,       \* no imposter: absent map entry, unbound port
  Foreign     \* a socket that belongs to another program, or to the admin API

\* The maps of Manager, and the order in which Stop looks into them.
Maps == {"servers", "tcpServers", "smtpServers", "grpcServers"}

MapRank == [servers |-> 1, tcpServers |-> 2, smtpServers |-> 3, grpcServers |-> 4]

KnownProtocols == {"http", "https", "tcp", "smtp", "grpc"}

\* The switch of Manager.Start: which map the new server is stored in.
MapOf(protocol) ==
  CASE protocol = "tcp"  -> "tcpServers"
    [] protocol = "smtp" -> "smtpServers"
    [] protocol = "grpc" -> "grpcServers"
    [] OTHER             -> "servers"

\* The protocols for which the handlers call Manager.Start.
Startable == {"http", "https", "tcp", "smtp"}

Imposter == [id : Ids, port : Ports, protocol : Protocols]

ASSUME LifecycleAssumption ==
  /\ ApiPort \in Ports
  /\ AnyPort \notin Ports
  /\ Protocols \subseteq KnownProtocols
  /\ MaxBatch \in Nat
  /\ MaxBoot \in Nat
  /\ None \notin Imposter
  /\ Foreign \notin Imposter
  /\ None # Foreign

VARIABLES
  repo,      \* InMemory.imposters
  registry,  \* the four maps of Manager
  socket,    \* who listens on each port
  phase,     \* control point of main
  boot,      \* imposters of the config file still to load
  pc,        \* control point of each client's handler
  work       \* imposters the handler of each client holds

vars == <<repo, registry, socket, phase, boot, pc, work>>

Phases == {"loading", "starting", "unloading", "serving", "stopped", "draining", "down"}

Points == {"idle", "createAdd", "createRollback", "deleteStop", "deleteAllStop",
           "replaceStop", "replaceAdd", "replaceStart"}

TypeOK ==
  /\ repo \in [Ports -> Imposter \cup {None}]
  /\ registry \in [Maps -> [Ports -> Imposter \cup {None}]]
  /\ socket \in [Ports -> Imposter \cup {None, Foreign}]
  /\ phase \in Phases
  /\ boot \in Seq(Imposter)
  /\ pc \in [Clients -> Points]
  /\ work \in [Clients -> Seq(Imposter)]

-----------------------------------------------------------------------------
(* Identities.  Decoding a request allocates its imposters; an identity is  *)
(* used again once nothing refers to it, as the memory of the program is.   *)

Elements(s) == {s[i] : i \in DOMAIN s}

Refers(x, id) == x \in Imposter /\ x.id = id

Fresh(id) ==
  /\ \A p \in Ports : ~Refers(repo[p], id) /\ ~Refers(socket[p], id)
  /\ \A m \in Maps, p \in Ports : ~Refers(registry[m][p], id)
  /\ \A c \in Clients : \A x \in Elements(work[c]) : ~Refers(x, id)
  /\ \A x \in Elements(boot) : ~Refers(x, id)

\* Lists of at most n imposters, each an object of its own.
Batches(n) ==
  UNION {{b \in [1..k -> Imposter] : \A i, j \in 1..k : b[i].id = b[j].id => i = j} : k \in 0..n}

-----------------------------------------------------------------------------
(* The Manager                                                              *)

IsRunning(p) == \E m \in Maps : registry[m][p] # None

\* Manager.Start of imp for a request that named the port asked: the new
\* server listens on imp.port, the port asked for or the one assigned.
ManagerStart(imp, asked) ==
  /\ asked = imp.port \/ asked = AnyPort
  /\ asked # AnyPort => ~IsRunning(imp.port)
  /\ socket[imp.port] = None
  /\ registry' = [registry EXCEPT ![MapOf(imp.protocol)][imp.port] = imp]
  /\ socket' = [socket EXCEPT ![imp.port] = imp]

\* Manager.Start returns an error: the port has an entry already, or the
\* socket cannot be bound (taken, not permitted, bad host, bad certificate).
ManagerStartFails == UNCHANGED <<registry, socket>>

\* The server that Stop finds first for port p.
IsFirst(m, p) ==
  /\ registry[m][p] # None
  /\ \A n \in Maps : registry[n][p] # None => MapRank[m] <= MapRank[n]

\* Server.Stop closes the socket if the server is still started.
CloseSocket(m, p) ==
  socket' = [socket EXCEPT ![p] = IF @ = registry[m][p] THEN None ELSE @]

\* Manager.Stop: the socket is closed; if the connections do not end within
\* the five seconds of the context, the entry stays in its map.
ManagerStop(p) ==
  \/ /\ ~IsRunning(p)
     /\ UNCHANGED <<registry, socket>>
  \/ \E m \in Maps :
       /\ IsFirst(m, p)
       /\ CloseSocket(m, p)
       /\ registry' = [registry EXCEPT ![m][p] = None]
  \/ \E m \in Maps :
       /\ IsFirst(m, p)
       /\ socket[p] = registry[m][p]
       /\ CloseSocket(m, p)
       /\ UNCHANGED registry

\* Mutant: only the HTTP servers are stopped, every map is cleared.
ManagerStopAllHttpOnly ==
  /\ socket' = [p \in Ports |-> IF registry["servers"][p] = socket[p] THEN None ELSE socket[p]]
  /\ registry' = [m \in Maps |-> [p \in Ports |-> None]]

\* Manager.StopAll: an entry is removed even when its server times out.
ManagerStopAll ==
  /\ socket' = [p \in Ports |-> IF \E m \in Maps : registry[m][p] = socket[p]
                                THEN None ELSE socket[p]]
  /\ registry' = [m \in Maps |-> [p \in Ports |-> None]]

-----------------------------------------------------------------------------
(* Handlers                                                                 *)

\* The admin API takes requests from before the config file is loaded until
\* http.Server.Shutdown closes its listener.
Accepting(c) ==
  /\ phase \notin {"draining", "down"}
  /\ pc[c] = "idle"

\* A handler runs until it returns or the process exits.
At(c, point) ==
  /\ phase # "down"
  /\ pc[c] = point

Goto(c, point, held) ==
  /\ pc' = [pc EXCEPT ![c] = point]
  /\ work' = [work EXCEPT ![c] = held]

\* POST /imposters: after validation the server is started first, so that a
\* port chosen by the operating system is known.
CreateImposterStart(c) ==
  /\ Accepting(c)
  /\ \E imp \in Imposter, asked \in Ports \cup {AnyPort} :
       /\ Fresh(imp.id)
       /\ imp.protocol \in Startable
       /\ asked # ApiPort
       /\ ManagerStart(imp, asked)
       /\ Goto(c, "createAdd", <<imp>>)
  /\ UNCHANGED <<repo, phase, boot>>

\* ... then the imposter is added to the repository, unless its port is taken.
CreateImposterAdd(c) ==
  /\ At(c, "createAdd")
  /\ LET imp == work[c][1] IN
       \/ /\ repo[imp.port] = None
          /\ Goto(c, "idle", <<>>)
          /\ repo' = [repo EXCEPT ![imp.port] = imp]
       \/ /\ repo[imp.port] # None
          /\ Goto(c, "createRollback", work[c])
          /\ UNCHANGED repo
  /\ UNCHANGED <<registry, socket, phase, boot>>

\* ... in which case the server on that port is stopped again.
CreateImposterRollback(c) ==
  /\ At(c, "createRollback")
  /\ Goto(c, "idle", <<>>)
  /\ ManagerStop(work[c][1].port)
  /\ UNCHANGED <<repo, phase, boot>>

\* Mutant: the imposter is looked up and stopped but stays in the repository.
DeleteImposterKeepsEntry(c) ==
  /\ Accepting(c)
  /\ \E p \in Ports :
       /\ repo[p] # None
       /\ Goto(c, "deleteStop", <<repo[p]>>)
  /\ UNCHANGED <<repo, registry, socket, phase, boot>>

\* DELETE /imposters/:id.  A port that is not in the repository is answered
\* at once, without a call of the Manager.
DeleteImposterRepo(c) ==
  /\ Accepting(c)
  /\ \E p \in Ports :
       /\ repo[p] # None
       /\ Goto(c, "deleteStop", <<repo[p]>>)
       /\ repo' = [repo EXCEPT ![p] = None]
  /\ UNCHANGED <<registry, socket, phase, boot>>

\* Mutant: StopAll is called in place of Stop.
DeleteImposterStopsAll(c) ==
  /\ At(c, "deleteStop")
  /\ Goto(c, "idle", <<>>)
  /\ ManagerStopAll
  /\ UNCHANGED <<repo, phase, boot>>

DeleteImposterStop(c) ==
  /\ At(c, "deleteStop")
  /\ Goto(c, "idle", <<>>)
  /\ ManagerStop(work[c][1].port)
  /\ UNCHANGED <<repo, phase, boot>>

\* DELETE /imposters
DeleteImpostersRepo(c) ==
  /\ Accepting(c)
  /\ Goto(c, "deleteAllStop", <<>>)
  /\ repo' = [p \in Ports |-> None]
  /\ UNCHANGED <<registry, socket, phase, boot>>

DeleteImpostersStop(c) ==
  /\ At(c, "deleteAllStop")
  /\ Goto(c, "idle", <<>>)
  /\ ManagerStopAll
  /\ UNCHANGED <<repo, phase, boot>>

\* PUT /imposters: any port from 1 to 65535 and any protocol pass validation.
ReplaceImpostersRepo(c) ==
  /\ Accepting(c)
  /\ \E batch \in Batches(MaxBatch) :
       /\ \A x \in Elements(batch) : Fresh(x.id)
       /\ Goto(c, "replaceStop", batch)
  /\ repo' = [p \in Ports |-> None]
  /\ UNCHANGED <<registry, socket, phase, boot>>

\* The next step of the loop over the imposters of the request.
NextOf(held) == IF held = <<>> THEN "idle" ELSE "replaceAdd"

ReplaceImpostersStop(c) ==
  /\ At(c, "replaceStop")
  /\ Goto(c, NextOf(work[c]), work[c])
  /\ ManagerStopAll
  /\ UNCHANGED <<repo, phase, boot>>

\* A conflict ends the request; what was created before it stays.
ReplaceImpostersAdd(c) ==
  /\ At(c, "replaceAdd")
  /\ LET imp == Head(work[c]) IN
       \/ /\ repo[imp.port] = None
          /\ repo' = [repo EXCEPT ![imp.port] = imp]
          /\ Goto(c, "replaceStart", work[c])
       \/ /\ repo[imp.port] # None
          /\ Goto(c, "idle", <<>>)
          /\ UNCHANGED repo
  /\ UNCHANGED <<registry, socket, phase, boot>>

\* The error that Manager.Start returns is dropped.
ReplaceImpostersStart(c) ==
  /\ At(c, "replaceStart")
  /\ LET imp == Head(work[c]) IN
       \/ imp.protocol \in Startable /\ ManagerStart(imp, imp.port)
       \/ ManagerStartFails
  /\ Goto(c, NextOf(Tail(work[c])), Tail(work[c]))
  /\ UNCHANGED <<repo, phase, boot>>

-----------------------------------------------------------------------------
(* main: the config file, the shutdown signal                               *)

\* Every listener of a process is closed when the process exits.
Exit ==
  /\ phase' = "down"
  /\ socket' = [p \in Ports |-> IF socket[p] \in Imposter \/ p = ApiPort THEN None ELSE socket[p]]

\* LoadImposters: add the imposter; a conflict is fatal.
LoadImposterAdd ==
  /\ phase = "loading"
  /\ boot # <<>>
  /\ LET imp == Head(boot) IN
       \/ /\ repo[imp.port] = None
          /\ repo' = [repo EXCEPT ![imp.port] = imp]
          /\ phase' = "starting"
          /\ UNCHANGED socket
       \/ /\ repo[imp.port] # None
          /\ Exit
          /\ UNCHANGED repo
  /\ UNCHANGED <<registry, boot, pc, work>>

\* ... and start its server, which is done for HTTP only.
LoadImposterStart ==
  /\ phase = "starting"
  /\ LET imp == Head(boot) IN
       \/ /\ imp.protocol = "http"
          /\ ManagerStart(imp, imp.port)
          /\ boot' = Tail(boot)
          /\ phase' = "loading"
       \/ /\ imp.protocol = "http"
          /\ ManagerStartFails
          /\ UNCHANGED boot
          /\ phase' = "unloading"
       \/ /\ imp.protocol # "http"
          /\ boot' = Tail(boot)
          /\ phase' = "loading"
          /\ UNCHANGED <<registry, socket>>
  /\ UNCHANGED <<repo, pc, work>>

\* ... if that fails the imposter is removed again and the process exits.
LoadImposterUndo ==
  /\ phase = "unloading"
  /\ repo' = [repo EXCEPT ![Head(boot).port] = None]
  /\ Exit
  /\ UNCHANGED <<registry, boot, pc, work>>

LoadDone ==
  /\ phase = "loading"
  /\ boot = <<>>
  /\ phase' = "serving"
  /\ UNCHANGED <<repo, registry, socket, boot, pc, work>>

\* SIGINT or SIGTERM: Server.Shutdown stops the imposters first ...
ShutdownStopAll ==
  /\ phase = "serving"
  /\ phase' = "stopped"
  /\ ManagerStopAll
  /\ UNCHANGED <<repo, boot, pc, work>>

\* ... then shuts the admin API down: no new request is taken ...
ShutdownDrain ==
  /\ phase = "stopped"
  /\ phase' = "draining"
  /\ UNCHANGED <<repo, registry, socket, boot, pc, work>>

\* ... and the process exits once the handlers have returned, or after five seconds.
ShutdownExit ==
  /\ phase = "draining"
  /\ Exit
  /\ UNCHANGED <<repo, registry, boot, pc, work>>

-----------------------------------------------------------------------------
(* Other programs on the host bind and release ports.                       *)

ForeignBind(p) ==
  /\ socket[p] = None
  /\ socket' = [socket EXCEPT ![p] = Foreign]
  /\ UNCHANGED <<repo, registry, phase, boot, pc, work>>

ForeignRelease(p) ==
  /\ p # ApiPort
  /\ socket[p] = Foreign
  /\ socket' = [socket EXCEPT ![p] = None]
  /\ UNCHANGED <<repo, registry, phase, boot, pc, work>>

-----------------------------------------------------------------------------
Init ==
  /\ repo = [p \in Ports |-> None]
  /\ registry = [m \in Maps |-> [p \in Ports |-> None]]
  /\ socket = [p \in Ports |-> IF p = ApiPort THEN Foreign ELSE None]
  /\ phase = "loading"
  /\ boot \in Batches(MaxBoot)
  /\ pc = [c \in Clients |-> "idle"]
  /\ work = [c \in Clients |-> <<>>]

CreateStep(c) == CreateImposterStart(c) \/ CreateImposterAdd(c) \/ CreateImposterRollback(c)

DeleteStep(c) == DeleteImposterRepo(c) \/ DeleteImposterStop(c)

DeleteAllStep(c) == DeleteImpostersRepo(c) \/ DeleteImpostersStop(c)

ReplaceStep(c) ==
  \/ ReplaceImpostersRepo(c)
  \/ ReplaceImpostersStop(c)
  \/ ReplaceImpostersAdd(c)
  \/ ReplaceImpostersStart(c)

Main ==
  \/ LoadImposterAdd
  \/ LoadImposterStart
  \/ LoadImposterUndo
  \/ LoadDone
  \/ ShutdownStopAll
  \/ ShutdownDrain
  \/ ShutdownExit

Environment == \E p \in Ports : ForeignBind(p) \/ ForeignRelease(p)

Next ==
  \/ \E c \in Clients : CreateStep(c) \/ DeleteStep(c) \/ DeleteAllStep(c) \/ ReplaceStep(c)
  \/ Main
  \/ Environment

Spec == Init /\ [][Next]_vars

\* The part of the API that names one imposter per request, without a config
\* file: the discipline under which repository and sockets agree.
SingleNext ==
  \/ \E c \in Clients : CreateStep(c) \/ DeleteStep(c)
  \/ Main
  \/ Environment

SingleInit == Init /\ boot = <<>>

SingleSpec == SingleInit /\ [][SingleNext]_vars

-----------------------------------------------------------------------------
(* Properties                                                               *)

\* The program serves requests and has not been told to stop.
Up == phase \in {"loading", "serving"}

\* Every socket an imposter server holds is known to the Manager under its
\* port, so that Stop and StopAll can close it: no interleaving of handlers
\* drops a server from the maps while it listens (Manager.Start, Stop,
\* StopAll in imposter/manager.go).
NoLeakedSocket ==
  phase # "down" =>
    \A p \in Ports : socket[p] \in Imposter => \E m \in Maps : registry[m][p] = socket[p]

\* A step that returns from StopAll in the handler of some client.
StopAllStep ==
  \E c \in Clients : pc[c] \in {"deleteAllStop", "replaceStop"} /\ pc'[c] # pc[c]

NoSocketOpen == \A p \in Ports : socket[p] \notin Imposter

\* "Any imposter sockets tartuffe has open will be closed"
\* (web/templates/docs/api/overview.html, DELETE /imposters): when StopAll of
\* DELETE /imposters or PUT /imposters returns, no imposter socket is open,
\* whatever other handlers were doing.
DeleteAllClosesSockets == [][StopAllStep => NoSocketOpen']_vars

\* While only single imposters are created and deleted, an imposter that the
\* repository holds listens on its own port, and the server there serves that
\* very object: a GET never lists an imposter that is not up, and changes to
\* its stubs reach the server.
RepoIsServed ==
  Up => \A p \in Ports : repo[p] # None => socket[p] = repo[p]

\* The step closes an imposter's socket on port p.
Closed(p) == socket[p] \in Imposter /\ socket'[p] # socket[p]

\* The step is the last one of the handler of c, which holds imposter imp.
Finishes(c, imp) == work[c] = <<imp>> /\ pc'[c] = "idle"

\* While only single imposters are created and deleted, a socket is closed
\* only by the handler that holds its imposter (DELETE of it, or the rollback
\* of the POST that started it), by shutdown or by exit: handlers never stop
\* a server that another request has started.
StopsOwnServerOnly ==
  [][Up /\ Up' => \A p \in Ports : Closed(p) => \E c \in Clients : Finishes(c, socket[p])]_vars

\* While only single imposters are created and deleted, the repository never
\* refuses an imposter whose server has been started, so the rollback of
\* CreateImposter is never needed.
NoRollback == Up => \A c \in Clients : pc[c] # "createRollback"

-----------------------------------------------------------------------------
(* Inductive strengthenings, used by ImposterLifecycleProofs                *)

\* A handler past its first step holds the imposter it works on.
Held ==
  /\ \A c \in Clients :
       pc[c] \in {"createAdd", "createRollback", "deleteStop", "replaceAdd", "replaceStart"}
         => work[c] # <<>>
  /\ phase \in {"starting", "unloading"} => boot # <<>>

\* A handler of a single imposter owns the port it works on: its server is
\* up, the repository has no entry there, and no other handler works on it.
Owns(c) ==
  \E imp \in Imposter :
    /\ work[c] = <<imp>>
    /\ Up => socket[imp.port] = imp /\ repo[imp.port] = None

OnePerPort ==
  \A c, d \in Clients :
    c # d /\ pc[c] # "idle" /\ pc[d] # "idle" => work[c][1].port # work[d][1].port

SingleInv ==
  /\ boot = <<>>
  /\ phase \notin {"starting", "unloading"}
  /\ \A c \in Clients : pc[c] \in {"idle", "createAdd", "createRollback", "deleteStop"}
  /\ \A p \in Ports : repo[p] # None => repo[p].port = p
  /\ \A c \in Clients : pc[c] # "idle" => Owns(c)
  /\ Up => OnePerPort
  /\ RepoIsServed
  /\ NoRollback
=============================================================================
