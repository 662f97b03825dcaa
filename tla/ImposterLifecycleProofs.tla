---------------------- MODULE ImposterLifecycleProofs ----------------------
(***************************************************************************)
(* Proofs about ImposterLifecycle, for any sets of clients, ports and      *)
(* identities and any bound on the length of the lists.                    *)
(***************************************************************************)
EXTENDS ImposterLifecycle, TLAPS

-----------------------------------------------------------------------------
(* The Manager's operations keep the types of its maps and of the sockets.  *)

LEMMA MapOfType == ASSUME NEW x PROVE MapOf(x) \in Maps
  BY DEF MapOf, Maps

LEMMA StartType ==
  ASSUME TypeOK, NEW imp \in Imposter, NEW asked, ManagerStart(imp, asked)
  PROVE  /\ registry' \in [Maps -> [Ports -> Imposter \cup {None}]]
         /\ socket' \in [Ports -> Imposter \cup {None, Foreign}]
<1>1. MapOf(imp.protocol) \in Maps /\ imp.port \in Ports
  BY MapOfType DEF Imposter
<1>2. QED
  BY <1>1 DEF TypeOK, ManagerStart

LEMMA StopType ==
  ASSUME TypeOK, NEW p \in Ports, ManagerStop(p)
  PROVE  /\ registry' \in [Maps -> [Ports -> Imposter \cup {None}]]
         /\ socket' \in [Ports -> Imposter \cup {None, Foreign}]
<1>1. CASE UNCHANGED <<registry, socket>>
  BY <1>1 DEF TypeOK
<1>2. ASSUME NEW m \in Maps, CloseSocket(m, p),
             registry' = [registry EXCEPT ![m][p] = None] \/ UNCHANGED registry
      PROVE  /\ registry' \in [Maps -> [Ports -> Imposter \cup {None}]]
             /\ socket' \in [Ports -> Imposter \cup {None, Foreign}]
  <2>1. socket' \in [Ports -> Imposter \cup {None, Foreign}]
    BY <1>2 DEF TypeOK, CloseSocket
  <2>2. registry' \in [Maps -> [Ports -> Imposter \cup {None}]]
    <3>1. [registry EXCEPT ![m][p] = None] \in [Maps -> [Ports -> Imposter \cup {None}]]
      BY DEF TypeOK
    <3>2. QED
      BY <1>2, <3>1 DEF TypeOK
  <2>3. QED
    BY <2>1, <2>2
<1>3. QED
  BY <1>1, <1>2 DEF ManagerStop

LEMMA StopAllType ==
  ASSUME TypeOK, ManagerStopAll
  PROVE  /\ registry' \in [Maps -> [Ports -> Imposter \cup {None}]]
         /\ socket' \in [Ports -> Imposter \cup {None, Foreign}]
  BY DEF TypeOK, ManagerStopAll

LEMMA ExitType ==
  ASSUME TypeOK, Exit
  PROVE  phase' = "down" /\ socket' \in [Ports -> Imposter \cup {None, Foreign}]
  BY DEF TypeOK, Exit

\* A list from a request or from the config file is a sequence of imposters.
LEMMA BatchType ==
  ASSUME NEW n \in Nat, NEW b \in Batches(n)
  PROVE  b \in Seq(Imposter)
<1>1. PICK k \in 0..n : b \in [1..k -> Imposter]
  BY DEF Batches
<1>2. k \in Nat
  OBVIOUS
<1>3. QED
  BY <1>1, <1>2

LEMMA HeadTail ==
  ASSUME NEW s \in Seq(Imposter), s # <<>>
  PROVE  /\ Head(s) \in Imposter /\ Head(s).port \in Ports
         /\ s[1] \in Imposter /\ s[1].port \in Ports
         /\ Tail(s) \in Seq(Imposter)
<1>1. Head(s) \in Imposter /\ s[1] \in Imposter /\ Tail(s) \in Seq(Imposter)
  OBVIOUS
<1>2. QED
  BY <1>1 DEF Imposter

LEMMA GotoType ==
  ASSUME TypeOK, NEW c \in Clients, NEW point \in Points, NEW held \in Seq(Imposter),
         Goto(c, point, held)
  PROVE  pc' \in [Clients -> Points] /\ work' \in [Clients -> Seq(Imposter)]
  BY DEF TypeOK, Goto

LEMMA ShortLists ==
  /\ <<>> \in Seq(Imposter)
  /\ \A imp \in Imposter : <<imp>> \in Seq(Imposter)
  OBVIOUS

-----------------------------------------------------------------------------
(* Type correctness                                                         *)

LEMMA TypeInit == Init => TypeOK /\ Held
<1> SUFFICES ASSUME Init PROVE TypeOK /\ Held
  OBVIOUS
<1>1. boot \in Seq(Imposter)
  BY BatchType, LifecycleAssumption DEF Init
<1>2. QED
  BY <1>1 DEF Init, TypeOK, Held, Phases, Points

LEMMA TypeNext == TypeOK /\ Held /\ [Next]_vars => TypeOK' /\ Held'
<1> SUFFICES ASSUME TypeOK, Held, [Next]_vars
             PROVE  TypeOK' /\ Held'
  OBVIOUS
<1> USE DEF Held
<1>1. ASSUME NEW c \in Clients, CreateImposterStart(c)
      PROVE  TypeOK' /\ Held'
  <2>1. PICK imp \in Imposter, asked \in Ports \cup {AnyPort} :
           ManagerStart(imp, asked) /\ Goto(c, "createAdd", <<imp>>)
    BY <1>1 DEF CreateImposterStart
  <2>2. pc' \in [Clients -> Points] /\ work' \in [Clients -> Seq(Imposter)]
    BY <2>1, GotoType, ShortLists DEF Points
  <2>3. QED
    BY <1>1, <2>1, <2>2, StartType DEF CreateImposterStart, TypeOK, Goto
<1>2. ASSUME NEW c \in Clients, CreateImposterAdd(c)
      PROVE  TypeOK' /\ Held'
  <2>1. work[c][1] \in Imposter /\ work[c][1].port \in Ports /\ work[c] \in Seq(Imposter)
    BY <1>2, HeadTail DEF CreateImposterAdd, At, TypeOK
  <2>2. pc' \in [Clients -> Points] /\ work' \in [Clients -> Seq(Imposter)]
    BY <1>2, <2>1, GotoType, ShortLists DEF CreateImposterAdd, Points
  <2>3. QED
    BY <1>2, <2>1, <2>2 DEF CreateImposterAdd, At, Goto, TypeOK
<1>3. ASSUME NEW c \in Clients, CreateImposterRollback(c) \/ DeleteImposterStop(c)
      PROVE  TypeOK' /\ Held'
  <2>1. work[c][1].port \in Ports
    BY <1>3, HeadTail DEF CreateImposterRollback, DeleteImposterStop, At, TypeOK
  <2>2. Goto(c, "idle", <<>>) /\ ManagerStop(work[c][1].port)
    BY <1>3 DEF CreateImposterRollback, DeleteImposterStop
  <2>3. pc' \in [Clients -> Points] /\ work' \in [Clients -> Seq(Imposter)]
    BY <2>2, GotoType, ShortLists DEF Points
  <2>4. QED
    BY <1>3, <2>1, <2>2, <2>3, StopType
    DEF CreateImposterRollback, DeleteImposterStop, TypeOK, Goto
<1>4. ASSUME NEW c \in Clients, DeleteImposterRepo(c)
      PROVE  TypeOK' /\ Held'
  <2>1. PICK p \in Ports : /\ repo[p] # None
                           /\ Goto(c, "deleteStop", <<repo[p]>>)
                           /\ repo' = [repo EXCEPT ![p] = None]
    BY <1>4 DEF DeleteImposterRepo
  <2>2. <<repo[p]>> \in Seq(Imposter)
    BY <2>1 DEF TypeOK
  <2>3. pc' \in [Clients -> Points] /\ work' \in [Clients -> Seq(Imposter)]
    BY <2>1, <2>2, GotoType, ShortLists DEF Points
  <2>4. QED
    BY <1>4, <2>1, <2>3 DEF DeleteImposterRepo, TypeOK, Goto
<1>5. ASSUME NEW c \in Clients, DeleteImpostersRepo(c)
      PROVE  TypeOK' /\ Held'
  <2>1. pc' \in [Clients -> Points] /\ work' \in [Clients -> Seq(Imposter)]
    BY <1>5, GotoType, ShortLists DEF DeleteImpostersRepo, Points
  <2>2. QED
    BY <1>5, <2>1 DEF DeleteImpostersRepo, TypeOK, Goto
<1>6. ASSUME NEW c \in Clients, DeleteImpostersStop(c)
      PROVE  TypeOK' /\ Held'
  <2>1. pc' \in [Clients -> Points] /\ work' \in [Clients -> Seq(Imposter)]
    BY <1>6, GotoType, ShortLists DEF DeleteImpostersStop, Points
  <2>2. QED
    BY <1>6, <2>1, StopAllType DEF DeleteImpostersStop, TypeOK, Goto
<1>7. ASSUME NEW c \in Clients, ReplaceImpostersRepo(c)
      PROVE  TypeOK' /\ Held'
  <2>1. PICK batch \in Batches(MaxBatch) : Goto(c, "replaceStop", batch)
    BY <1>7 DEF ReplaceImpostersRepo
  <2>2. pc' \in [Clients -> Points] /\ work' \in [Clients -> Seq(Imposter)]
    BY <2>1, GotoType, BatchType, LifecycleAssumption DEF Points
  <2>3. QED
    BY <1>7, <2>1, <2>2 DEF ReplaceImpostersRepo, TypeOK, Goto
<1>8. ASSUME NEW c \in Clients, ReplaceImpostersStop(c)
      PROVE  TypeOK' /\ Held'
  <2>1. NextOf(work[c]) \in Points /\ work[c] \in Seq(Imposter)
    BY DEF NextOf, Points, TypeOK
  <2>2. pc' \in [Clients -> Points] /\ work' \in [Clients -> Seq(Imposter)]
    BY <1>8, <2>1, GotoType, ShortLists DEF ReplaceImpostersStop
  <2>3. QED
    BY <1>8, <2>2, StopAllType DEF ReplaceImpostersStop, TypeOK, Goto, NextOf
<1>9. ASSUME NEW c \in Clients, ReplaceImpostersAdd(c)
      PROVE  TypeOK' /\ Held'
  <2>1. Head(work[c]) \in Imposter /\ Head(work[c]).port \in Ports /\ work[c] \in Seq(Imposter)
    BY <1>9, HeadTail DEF ReplaceImpostersAdd, At, TypeOK
  <2>2. pc' \in [Clients -> Points] /\ work' \in [Clients -> Seq(Imposter)]
    BY <1>9, <2>1, GotoType, ShortLists DEF ReplaceImpostersAdd, Points
  <2>3. QED
    BY <1>9, <2>1, <2>2, ZenonT(60) DEF ReplaceImpostersAdd, At, TypeOK, Goto
<1>10. ASSUME NEW c \in Clients, ReplaceImpostersStart(c)
       PROVE  TypeOK' /\ Held'
  <2>1. Head(work[c]) \in Imposter /\ Tail(work[c]) \in Seq(Imposter)
    BY <1>10, HeadTail DEF ReplaceImpostersStart, At, TypeOK
  <2>2. NextOf(Tail(work[c])) \in Points
    BY DEF NextOf, Points
  <2>3. pc' \in [Clients -> Points] /\ work' \in [Clients -> Seq(Imposter)]
    BY <1>10, <2>1, <2>2, GotoType, ShortLists DEF ReplaceImpostersStart
  <2>4. /\ registry' \in [Maps -> [Ports -> Imposter \cup {None}]]
        /\ socket' \in [Ports -> Imposter \cup {None, Foreign}]
    BY <1>10, <2>1, StartType DEF ReplaceImpostersStart, ManagerStartFails, TypeOK
  <2>5. QED
    BY <1>10, <2>3, <2>4 DEF ReplaceImpostersStart, TypeOK, Goto, NextOf
<1>11. CASE LoadImposterAdd
  <2>1. Head(boot) \in Imposter /\ Head(boot).port \in Ports
    BY <1>11, HeadTail DEF LoadImposterAdd, TypeOK
  <2>2. QED
    BY <1>11, <2>1, ExitType DEF LoadImposterAdd, TypeOK, Phases, Exit
<1>12. CASE LoadImposterStart
  <2>1. Head(boot) \in Imposter /\ Tail(boot) \in Seq(Imposter)
    BY <1>12, HeadTail DEF LoadImposterStart, TypeOK
  <2>2. /\ registry' \in [Maps -> [Ports -> Imposter \cup {None}]]
        /\ socket' \in [Ports -> Imposter \cup {None, Foreign}]
    BY <1>12, <2>1, StartType DEF LoadImposterStart, ManagerStartFails, TypeOK
  <2>3. QED
    BY <1>12, <2>1, <2>2 DEF LoadImposterStart, TypeOK, Phases
<1>13. CASE LoadImposterUndo
  <2>1. Head(boot).port \in Ports
    BY <1>13, HeadTail DEF LoadImposterUndo, TypeOK
  <2>2. QED
    BY <1>13, <2>1, ExitType DEF LoadImposterUndo, TypeOK, Phases
<1>14. CASE LoadDone \/ ShutdownDrain
  BY <1>14 DEF LoadDone, ShutdownDrain, TypeOK, Phases
<1>15. CASE ShutdownStopAll
  BY <1>15, StopAllType DEF ShutdownStopAll, TypeOK, Phases
<1>16. CASE ShutdownExit
  BY <1>16, ExitType DEF ShutdownExit, TypeOK, Phases
<1>17. ASSUME NEW p \in Ports, ForeignBind(p) \/ ForeignRelease(p)
       PROVE  TypeOK' /\ Held'
  BY <1>17 DEF ForeignBind, ForeignRelease, TypeOK
<1>18. CASE UNCHANGED vars
  BY <1>18 DEF vars, TypeOK
<1>19. QED
  BY <1>1, <1>2, <1>3, <1>4, <1>5, <1>6, <1>7, <1>8, <1>9, <1>10, <1>11, <1>12, <1>13,
     <1>14, <1>15, <1>16, <1>17, <1>18
  DEF Next, CreateStep, DeleteStep, DeleteAllStep, ReplaceStep, Main, Environment

\* Under every interleaving of the admin handlers, the config loader and the
\* shutdown, the maps, the repository and the sockets hold values of their
\* types, and a handler that goes on with an imposter holds one.
THEOREM TypeCorrect == Spec => [](TypeOK /\ Held)
<1>1. QED
  BY TypeInit, TypeNext, PTL DEF Spec

-----------------------------------------------------------------------------
(* No socket is leaked                                                      *)

LEMMA NotImposter == None \notin Imposter /\ Foreign \notin Imposter /\ None # Foreign
  BY LifecycleAssumption

LEMMA StartNoLeak ==
  ASSUME TypeOK, NoLeakedSocket, phase # "down",
         NEW imp \in Imposter, NEW asked, ManagerStart(imp, asked)
  PROVE  NoLeakedSocket'
<1>1. MapOf(imp.protocol) \in Maps /\ imp.port \in Ports
  BY MapOfType DEF Imposter
<1> DEFINE k == MapOf(imp.protocol)
<1>2. registry'[k][imp.port] = imp /\ socket'[imp.port] = imp
  BY <1>1 DEF ManagerStart, TypeOK
<1>3. ASSUME NEW p \in Ports, p # imp.port
      PROVE  socket'[p] = socket[p] /\ \A m \in Maps : registry'[m][p] = registry[m][p]
  BY <1>1, <1>3 DEF ManagerStart, TypeOK
<1>4. ASSUME NEW p \in Ports, socket'[p] \in Imposter
      PROVE  \E m \in Maps : registry'[m][p] = socket'[p]
  BY <1>1, <1>2, <1>3, <1>4 DEF NoLeakedSocket
<1>5. QED
  BY <1>4 DEF NoLeakedSocket

LEMMA StopNoLeak ==
  ASSUME TypeOK, NoLeakedSocket, phase # "down", NEW p \in Ports, ManagerStop(p)
  PROVE  NoLeakedSocket'
<1>1. CASE UNCHANGED <<registry, socket>>
  BY <1>1 DEF NoLeakedSocket
<1>2. ASSUME NEW m \in Maps, CloseSocket(m, p),
             \/ registry' = [registry EXCEPT ![m][p] = None]
             \/ UNCHANGED registry
      PROVE  NoLeakedSocket'
  <2>1. ASSUME NEW q \in Ports, socket'[q] \in Imposter
        PROVE  socket'[q] = socket[q] /\ (q = p => socket[q] # registry[m][q])
    BY <1>2, <2>1, NotImposter DEF CloseSocket, TypeOK
  <2>2. ASSUME NEW q \in Ports, NEW n \in Maps, q # p \/ n # m
        PROVE  registry'[n][q] = registry[n][q]
    BY <1>2, <2>2 DEF TypeOK
  <2>3. ASSUME NEW q \in Ports, socket'[q] \in Imposter
        PROVE  \E n \in Maps : registry'[n][q] = socket'[q]
    <3>1. PICK n \in Maps : registry[n][q] = socket[q]
      BY <2>1, <2>3 DEF NoLeakedSocket
    <3>2. q # p \/ n # m
      BY <2>1, <2>3, <3>1
    <3>3. QED
      BY <2>1, <2>2, <2>3, <3>1, <3>2
  <2>4. QED
    BY <2>3 DEF NoLeakedSocket
<1>3. QED
  BY <1>1, <1>2 DEF ManagerStop

LEMMA StopAllNoSocket ==
  ASSUME TypeOK, NoLeakedSocket, phase # "down", ManagerStopAll
  PROVE  NoSocketOpen'
  BY NotImposter DEF ManagerStopAll, NoLeakedSocket, NoSocketOpen, TypeOK

LEMMA NoLeakNext == TypeOK /\ Held /\ NoLeakedSocket /\ [Next]_vars => NoLeakedSocket'
<1> SUFFICES ASSUME TypeOK, Held, NoLeakedSocket, [Next]_vars
             PROVE  NoLeakedSocket'
  OBVIOUS
<1>1. ASSUME NEW c \in Clients, CreateImposterStart(c)
      PROVE  NoLeakedSocket'
  BY <1>1, StartNoLeak DEF CreateImposterStart, Accepting
<1>2. ASSUME NEW c \in Clients, CreateImposterRollback(c) \/ DeleteImposterStop(c)
      PROVE  NoLeakedSocket'
  <2>1. work[c][1].port \in Ports /\ phase # "down" /\ ManagerStop(work[c][1].port)
    BY <1>2, HeadTail DEF CreateImposterRollback, DeleteImposterStop, At, TypeOK, Held
  <2>2. QED
    BY <2>1, StopNoLeak
<1>3. ASSUME NEW c \in Clients, DeleteImpostersStop(c) \/ ReplaceImpostersStop(c)
      PROVE  NoLeakedSocket'
  BY <1>3, StopAllNoSocket DEF DeleteImpostersStop, ReplaceImpostersStop, At, NoLeakedSocket, NoSocketOpen
<1>4. ASSUME NEW c \in Clients, ReplaceImpostersStart(c)
      PROVE  NoLeakedSocket'
  <2>1. Head(work[c]) \in Imposter /\ phase # "down" /\ phase' = phase
    BY <1>4, HeadTail DEF ReplaceImpostersStart, At, TypeOK, Held
  <2>2. CASE ManagerStart(Head(work[c]), Head(work[c]).port)
    BY <2>1, <2>2, StartNoLeak
  <2>3. CASE ManagerStartFails
    BY <2>1, <2>3 DEF ManagerStartFails, NoLeakedSocket
  <2>4. QED
    BY <1>4, <2>2, <2>3 DEF ReplaceImpostersStart
<1>5. CASE LoadImposterStart
  <2>1. Head(boot) \in Imposter /\ phase # "down"
    BY <1>5, HeadTail DEF LoadImposterStart, TypeOK, Held
  <2>2. CASE ManagerStart(Head(boot), Head(boot).port)
    BY <2>1, <2>2, StartNoLeak
  <2>3. CASE UNCHANGED <<registry, socket>>
    BY <2>1, <2>3 DEF NoLeakedSocket
  <2>4. QED
    BY <1>5, <2>2, <2>3 DEF LoadImposterStart, ManagerStartFails
<1>6. CASE ShutdownStopAll
  BY <1>6, StopAllNoSocket DEF ShutdownStopAll, NoLeakedSocket, NoSocketOpen
<1>7. CASE LoadImposterAdd \/ LoadImposterUndo \/ ShutdownExit
  BY <1>7 DEF LoadImposterAdd, LoadImposterUndo, ShutdownExit, Exit, NoLeakedSocket
<1>8. CASE LoadDone \/ ShutdownDrain
  BY <1>8 DEF LoadDone, ShutdownDrain, NoLeakedSocket
<1>9. ASSUME NEW p \in Ports, ForeignBind(p) \/ ForeignRelease(p)
      PROVE  NoLeakedSocket'
  BY <1>9, NotImposter DEF ForeignBind, ForeignRelease, NoLeakedSocket, TypeOK
<1>10. ASSUME UNCHANGED <<registry, socket, phase>>
       PROVE  NoLeakedSocket'
  BY <1>10 DEF NoLeakedSocket
<1>11. ASSUME NEW c \in Clients,
              \/ CreateImposterAdd(c) \/ DeleteImposterRepo(c) \/ DeleteImpostersRepo(c)
              \/ ReplaceImpostersRepo(c) \/ ReplaceImpostersAdd(c)
       PROVE  UNCHANGED <<registry, socket, phase>>
  BY <1>11 DEF CreateImposterAdd, DeleteImposterRepo, DeleteImpostersRepo, ReplaceImpostersRepo,
               ReplaceImpostersAdd
<1>12. CASE UNCHANGED vars
  BY <1>10, <1>12 DEF vars
<1>13. QED
  BY <1>1, <1>2, <1>3, <1>4, <1>5, <1>6, <1>7, <1>8, <1>9, <1>10, <1>11, <1>12
  DEF Next, CreateStep, DeleteStep, DeleteAllStep, ReplaceStep, Main, Environment

\* Whatever the handlers do concurrently, a listening imposter server is in
\* the Manager's maps under its port: Manager.Start never overwrites a live
\* entry, Stop and StopAll never drop one whose socket they left open.
THEOREM SocketsAreRegistered == Spec => []NoLeakedSocket
<1>1. Init => NoLeakedSocket
  BY NotImposter DEF Init, NoLeakedSocket
<1>2. QED
  BY <1>1, NoLeakNext, TypeCorrect, PTL DEF Spec

\* When StopAll of DELETE /imposters or PUT /imposters returns, no imposter
\* socket is open, even of an imposter another handler has just started.
THEOREM StopAllIsComplete == Spec => DeleteAllClosesSockets
<1>1. TypeOK /\ NoLeakedSocket /\ [Next]_vars => [StopAllStep => NoSocketOpen']_vars
  <2> SUFFICES ASSUME TypeOK, NoLeakedSocket, Next,
                      NEW c \in Clients, pc[c] \in {"deleteAllStop", "replaceStop"}, pc'[c] # pc[c]
               PROVE  NoSocketOpen'
    BY DEF StopAllStep
  <2>1. ASSUME NEW d \in Clients, DeleteImpostersStop(d) \/ ReplaceImpostersStop(d)
        PROVE  NoSocketOpen'
    BY <2>1, StopAllNoSocket DEF DeleteImpostersStop, ReplaceImpostersStop, At
  <2>2. ASSUME NEW d \in Clients, CreateStep(d) \/ DeleteStep(d) \/ DeleteImpostersRepo(d)
                 \/ ReplaceImpostersRepo(d) \/ ReplaceImpostersAdd(d) \/ ReplaceImpostersStart(d)
        PROVE  FALSE
    <3>1. c # d => pc'[c] = pc[c]
      BY <2>2 DEF CreateStep, DeleteStep, CreateImposterStart, CreateImposterAdd,
         CreateImposterRollback, DeleteImposterRepo, DeleteImposterStop, DeleteImpostersRepo,
         ReplaceImpostersRepo, ReplaceImpostersAdd, ReplaceImpostersStart, Goto, TypeOK
    <3>2. pc[d] \notin {"deleteAllStop", "replaceStop"}
      BY <2>2 DEF CreateStep, DeleteStep, CreateImposterStart, CreateImposterAdd,
         CreateImposterRollback, DeleteImposterRepo, DeleteImposterStop, DeleteImpostersRepo,
         ReplaceImpostersRepo, ReplaceImpostersAdd, ReplaceImpostersStart, Accepting, At
    <3>3. QED
      BY <3>1, <3>2
  <2>3. ASSUME Main \/ Environment
        PROVE  FALSE
    BY <2>3 DEF Main, Environment, LoadImposterAdd, LoadImposterStart, LoadImposterUndo, LoadDone,
       ShutdownStopAll, ShutdownDrain, ShutdownExit, ForeignBind, ForeignRelease
  <2>4. QED
    BY <2>1, <2>2, <2>3 DEF Next, DeleteAllStep, ReplaceStep
<1>2. QED
  BY <1>1, TypeCorrect, SocketsAreRegistered, PTL DEF Spec, DeleteAllClosesSockets

-----------------------------------------------------------------------------
(* One imposter per request: repository, sockets and handlers agree         *)

LEMMA SingleImplies == SingleNext => Next
  BY DEF SingleNext, Next

LEMMA SingleInvInit == SingleInit => SingleInv
  BY DEF SingleInit, Init, SingleInv, RepoIsServed, NoRollback, OnePerPort

\* What Manager.Stop does to the sockets: at most the one of port p, and only
\* to free it.
LEMMA StopSocket ==
  ASSUME TypeOK, NEW p \in Ports, ManagerStop(p)
  PROVE  \A q \in Ports : socket'[q] = socket[q] \/ (q = p /\ socket'[q] = None)
  BY DEF ManagerStop, CloseSocket, TypeOK

LEMMA SingleStep == TypeOK /\ SingleInv /\ [SingleNext]_vars => SingleInv'
<1> SUFFICES ASSUME TypeOK, SingleInv, [SingleNext]_vars
             PROVE  SingleInv'
  OBVIOUS
<1> USE NotImposter
<1>1. ASSUME NEW c \in Clients, CreateImposterStart(c)
      PROVE  SingleInv'
  <2>1. PICK imp \in Imposter, asked \in Ports \cup {AnyPort} :
           ManagerStart(imp, asked) /\ Goto(c, "createAdd", <<imp>>)
    BY <1>1 DEF CreateImposterStart
  <2>2. /\ imp.port \in Ports /\ socket[imp.port] = None
        /\ socket' = [socket EXCEPT ![imp.port] = imp]
        /\ pc' = [pc EXCEPT ![c] = "createAdd"] /\ work' = [work EXCEPT ![c] = <<imp>>]
        /\ UNCHANGED <<repo, phase, boot>> /\ pc[c] = "idle"
    BY <1>1, <2>1 DEF CreateImposterStart, ManagerStart, Goto, Imposter, Accepting
  <2>3. Up => repo[imp.port] = None
    BY <2>2 DEF SingleInv, RepoIsServed, TypeOK
  <2>4. ASSUME NEW d \in Clients, d # c, pc[d] # "idle"
        PROVE  Owns(d)' /\ (Up => work[d][1].port # imp.port)
    BY <2>2, <2>4 DEF SingleInv, Owns, Up, TypeOK, Imposter
  <2>5. Owns(c)'
    BY <2>2, <2>3 DEF Owns, Up, TypeOK
  <2>6. Up' => OnePerPort'
    BY <2>2, <2>4 DEF SingleInv, OnePerPort, Up, TypeOK
  <2>7. RepoIsServed'
    BY <2>2, <2>3 DEF SingleInv, RepoIsServed, Up, TypeOK
  <2>8. QED
    BY <2>2, <2>4, <2>5, <2>6, <2>7 DEF SingleInv, NoRollback, Up, TypeOK
<1>2. ASSUME NEW c \in Clients, CreateImposterAdd(c)
      PROVE  SingleInv'
  <2>1. PICK imp \in Imposter : /\ work[c] = <<imp>>
                                /\ Up => socket[imp.port] = imp /\ repo[imp.port] = None
    BY <1>2 DEF CreateImposterAdd, At, SingleInv, Owns
  <2>2. imp.port \in Ports /\ work[c][1] = imp
    BY <2>1 DEF Imposter
  <2>3. CASE repo[imp.port] = None
    <3>1. /\ repo' = [repo EXCEPT ![imp.port] = imp]
          /\ pc' = [pc EXCEPT ![c] = "idle"] /\ work' = [work EXCEPT ![c] = <<>>]
          /\ UNCHANGED <<socket, phase, boot>> /\ pc[c] = "createAdd"
      BY <1>2, <2>2, <2>3 DEF CreateImposterAdd, Goto, At
    <3>2. ASSUME NEW d \in Clients, d # c, pc[d] # "idle"
          PROVE  Owns(d)'
      <4>1. PICK y \in Imposter : /\ work[d] = <<y>>
                                  /\ Up => socket[y.port] = y /\ repo[y.port] = None
        BY <3>2 DEF SingleInv, Owns
      <4>2. Up => y.port # imp.port
        BY <2>1, <2>2, <3>1, <3>2, <4>1 DEF SingleInv, OnePerPort
      <4>3. QED
        BY <2>2, <3>1, <3>2, <4>1, <4>2 DEF Owns, Up, TypeOK
    <3>3. RepoIsServed'
      BY <2>1, <2>2, <3>1 DEF SingleInv, RepoIsServed, Up, TypeOK
    <3>4. Up' => OnePerPort'
      BY <3>1 DEF SingleInv, OnePerPort, Up, TypeOK
    <3>5. QED
      BY <2>2, <3>1, <3>2, <3>3, <3>4 DEF SingleInv, NoRollback, Up, TypeOK
  <2>4. CASE repo[imp.port] # None
    <3>1. /\ ~Up
          /\ pc' = [pc EXCEPT ![c] = "createRollback"] /\ work' = [work EXCEPT ![c] = work[c]]
          /\ UNCHANGED <<repo, socket, phase, boot>>
      BY <1>2, <2>1, <2>2, <2>4 DEF CreateImposterAdd, Goto
    <3>2. work' = work
      BY <3>1 DEF TypeOK
    <3>3. \A d \in Clients : pc'[d] # "idle" => Owns(d)'
      BY <2>1, <3>1, <3>2 DEF SingleInv, Owns, Up, TypeOK
    <3>4. QED
      BY <3>1, <3>3 DEF SingleInv, RepoIsServed, NoRollback, Up, TypeOK
  <2>5. QED
    BY <2>3, <2>4
<1>3. ASSUME NEW c \in Clients, CreateImposterRollback(c) \/ DeleteImposterStop(c)
      PROVE  SingleInv'
  <2>1. PICK imp \in Imposter : /\ work[c] = <<imp>>
                                /\ Up => socket[imp.port] = imp /\ repo[imp.port] = None
    BY <1>3 DEF CreateImposterRollback, DeleteImposterStop, At, SingleInv, Owns
  <2>2. imp.port \in Ports /\ work[c][1] = imp
    BY <2>1 DEF Imposter
  <2>3. /\ pc' = [pc EXCEPT ![c] = "idle"] /\ work' = [work EXCEPT ![c] = <<>>]
        /\ UNCHANGED <<repo, phase, boot>> /\ pc[c] # "idle"
        /\ ManagerStop(imp.port)
    BY <1>3, <2>2 DEF CreateImposterRollback, DeleteImposterStop, Goto, At
  <2>4. \A q \in Ports : q # imp.port => socket'[q] = socket[q]
    BY <2>2, <2>3, StopSocket
  <2>5. ASSUME NEW d \in Clients, d # c, pc[d] # "idle"
        PROVE  Owns(d)'
    <3>1. PICK y \in Imposter : /\ work[d] = <<y>>
                                /\ Up => socket[y.port] = y /\ repo[y.port] = None
      BY <2>5 DEF SingleInv, Owns
    <3>2. (Up => y.port # imp.port) /\ y.port \in Ports
      BY <2>1, <2>2, <2>3, <2>5, <3>1 DEF SingleInv, OnePerPort, Imposter
    <3>3. QED
      BY <2>3, <2>4, <2>5, <3>1, <3>2 DEF Owns, Up, TypeOK
  <2>6. RepoIsServed'
    BY <2>1, <2>3, <2>4 DEF SingleInv, RepoIsServed, Up
  <2>7. Up' => OnePerPort'
    BY <2>3 DEF SingleInv, OnePerPort, Up, TypeOK
  <2>8. QED
    BY <2>3, <2>5, <2>6, <2>7 DEF SingleInv, NoRollback, Up, TypeOK
<1>4. ASSUME NEW c \in Clients, DeleteImposterRepo(c)
      PROVE  SingleInv'
  <2>1. PICK p \in Ports : /\ repo[p] # None
                           /\ Goto(c, "deleteStop", <<repo[p]>>)
                           /\ repo' = [repo EXCEPT ![p] = None]
    BY <1>4 DEF DeleteImposterRepo
  <2>2. /\ repo[p] \in Imposter /\ repo[p].port = p
        /\ pc' = [pc EXCEPT ![c] = "deleteStop"] /\ work' = [work EXCEPT ![c] = <<repo[p]>>]
        /\ UNCHANGED <<socket, phase, boot>> /\ pc[c] = "idle"
    BY <1>4, <2>1 DEF DeleteImposterRepo, Goto, SingleInv, TypeOK, Accepting
  <2>3. ASSUME NEW d \in Clients, d # c, pc[d] # "idle"
        PROVE  Owns(d)' /\ (Up => work[d][1].port # p)
    BY <2>1, <2>2, <2>3 DEF SingleInv, Owns, Up, TypeOK, Imposter
  <2>4. Owns(c)'
    BY <2>1, <2>2 DEF SingleInv, RepoIsServed, Owns, Up, TypeOK
  <2>5. Up' => OnePerPort'
    BY <2>2, <2>3 DEF SingleInv, OnePerPort, Up, TypeOK
  <2>6. RepoIsServed'
    BY <2>1, <2>2 DEF SingleInv, RepoIsServed, Up, TypeOK
  <2>7. QED
    BY <2>1, <2>2, <2>3, <2>4, <2>5, <2>6 DEF SingleInv, NoRollback, Up, TypeOK
<1>5. CASE LoadDone
  BY <1>5 DEF LoadDone, SingleInv, Owns, OnePerPort, RepoIsServed, NoRollback, Up
<1>6. CASE ShutdownStopAll \/ ShutdownDrain \/ ShutdownExit
  BY <1>6 DEF ShutdownStopAll, ShutdownDrain, ShutdownExit, Exit, SingleInv, Owns, RepoIsServed,
     NoRollback, Up
<1>7. CASE LoadImposterAdd \/ LoadImposterStart \/ LoadImposterUndo
  BY <1>7 DEF LoadImposterAdd, LoadImposterStart, LoadImposterUndo, SingleInv
<1>8. ASSUME NEW p \in Ports, ForeignBind(p) \/ ForeignRelease(p)
      PROVE  SingleInv'
  <2>1. /\ socket[p] \notin Imposter
        /\ \A q \in Ports : q # p => socket'[q] = socket[q]
        /\ UNCHANGED <<repo, phase, boot, pc, work>>
    BY <1>8 DEF ForeignBind, ForeignRelease, TypeOK
  <2>2. \A c \in Clients : pc'[c] # "idle" => Owns(c)'
    BY <2>1 DEF SingleInv, Owns, Up, Imposter
  <2>3. RepoIsServed'
    BY <2>1 DEF SingleInv, RepoIsServed, Up, TypeOK
  <2>4. QED
    BY <2>1, <2>2, <2>3 DEF SingleInv, OnePerPort, NoRollback, Up
<1>9. CASE UNCHANGED vars
  BY <1>9 DEF vars, SingleInv, Owns, OnePerPort, RepoIsServed, NoRollback, Up
<1>10. QED
  BY <1>1, <1>2, <1>3, <1>4, <1>5, <1>6, <1>7, <1>8, <1>9
  DEF SingleNext, CreateStep, DeleteStep, Main, Environment

LEMMA SingleTypeCorrect == SingleSpec => [](TypeOK /\ Held)
<1>1. QED
  BY TypeInit, TypeNext, SingleImplies, PTL DEF SingleSpec, SingleInit

LEMMA SingleInvariant == SingleSpec => []SingleInv
<1>1. QED
  BY SingleInvInit, SingleStep, SingleTypeCorrect, PTL DEF SingleSpec

\* With any number of concurrent POST /imposters and DELETE /imposters/:port,
\* servers that do not stop in time, ports the operating system assigns and
\* other programs taking ports: every imposter of the repository listens on
\* its port with that very object.
THEOREM SingleRepoIsServed == SingleSpec => []RepoIsServed
<1>1. SingleInv => RepoIsServed
  BY DEF SingleInv
<1>2. QED
  BY <1>1, SingleInvariant, PTL

\* Under the same traffic the repository never refuses an imposter whose
\* server has been started: CreateImposter never rolls back.
THEOREM SingleNoRollback == SingleSpec => []NoRollback
<1>1. SingleInv => NoRollback
  BY DEF SingleInv
<1>2. QED
  BY <1>1, SingleInvariant, PTL

\* Under the same traffic Manager.Stop, which finds servers by port, closes
\* only the socket of the imposter that its caller holds.
THEOREM SingleStopsOwn == SingleSpec => StopsOwnServerOnly
<1> DEFINE OwnOnly ==
      Up /\ Up' => \A p \in Ports : Closed(p) => \E c \in Clients : Finishes(c, socket[p])
<1>1. TypeOK /\ SingleInv /\ [SingleNext]_vars => [OwnOnly]_vars
  <2> SUFFICES ASSUME TypeOK, SingleInv, SingleNext, Up, Up', NEW p \in Ports, Closed(p)
               PROVE  \E c \in Clients : Finishes(c, socket[p])
    OBVIOUS
  <2> USE NotImposter
  <2>1. ASSUME NEW c \in Clients, CreateImposterStart(c)
        PROVE  FALSE
    BY <2>1 DEF CreateImposterStart, ManagerStart, Closed, TypeOK, Imposter
  <2>2. ASSUME NEW c \in Clients, CreateImposterRollback(c) \/ DeleteImposterStop(c)
        PROVE  \E d \in Clients : Finishes(d, socket[p])
    <3>1. PICK imp \in Imposter : work[c] = <<imp>> /\ socket[imp.port] = imp
      BY <2>2 DEF CreateImposterRollback, DeleteImposterStop, At, SingleInv, Owns
    <3>2. imp.port \in Ports /\ ManagerStop(imp.port) /\ pc'[c] = "idle"
      BY <2>2, <3>1 DEF CreateImposterRollback, DeleteImposterStop, Goto, TypeOK, Imposter
    <3>3. p = imp.port
      BY <3>2, StopSocket DEF Closed
    <3>4. QED
      BY <3>1, <3>2, <3>3 DEF Finishes
  <2>3. ASSUME NEW c \in Clients, CreateImposterAdd(c) \/ DeleteImposterRepo(c)
        PROVE  FALSE
    BY <2>3 DEF CreateImposterAdd, DeleteImposterRepo, Closed
  <2>4. ASSUME Main PROVE FALSE
    BY <2>4 DEF Main, LoadImposterAdd, LoadImposterStart, LoadImposterUndo, LoadDone,
       ShutdownStopAll, ShutdownDrain, ShutdownExit, Exit, Up, SingleInv, Closed
  <2>5. ASSUME Environment PROVE FALSE
    BY <2>5 DEF Environment, ForeignBind, ForeignRelease, Closed, TypeOK
  <2>6. QED
    BY <2>1, <2>2, <2>3, <2>4, <2>5 DEF SingleNext, CreateStep, DeleteStep
<1>2. QED
  BY <1>1, SingleTypeCorrect, SingleInvariant, PTL DEF SingleSpec, StopsOwnServerOnly
=============================================================================
