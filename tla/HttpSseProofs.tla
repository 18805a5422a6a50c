--------------------------- MODULE HttpSseProofs ---------------------------
(***************************************************************************)
(* Theorems about the event streams for every number of clients and every  *)
(* supply of descriptor numbers: what a broadcast writes to is a stream,   *)
(* although the kernel hands a closed connection's number out again.       *)
(***************************************************************************)
EXTENDS HttpSse, TLAPS

Active(c) == conn[c] \notin {"none", "exit"}

(* A connection keeps its descriptor number until its thread closes it.     *)
DescriptorsOK ==
    /\ \A c \in Clients : Active(c) => fdOf[c] \in openFds
    /\ \A c, d \in Clients : Active(c) /\ Active(d) /\ fdOf[c] = fdOf[d] => c = d

(* A stream is in m_streams from its registration on, until a failed send   *)
(* has shut it down.                                                        *)
RegisteredOrShut ==
    \A c \in Clients : conn[c] \in {"loop", "recv"} => fdOf[c] \in streams \/ c \in shut

StreamInv == TypeOK /\ DescriptorsOK /\ StreamsAreStreams /\ RegisteredOrShut

LEMMA OwnsItsNumber ==
  ASSUME StreamInv, NEW c \in Clients, Active(c)
  PROVE  fdOf[c] \in Fds /\ Owners(fdOf[c]) = {c}
  BY DEF StreamInv, TypeOK, DescriptorsOK, Owners, Active

LEMMA InitStream == Init => StreamInv
  BY DEF Init, StreamInv, TypeOK, DescriptorsOK, StreamsAreStreams, RegisteredOrShut, Active,
         Owners, Casters, NoFd

(* A step that leaves the connections alone and can only drop streams of    *)
(* connections it shuts down.                                               *)
LEMMA SparesConnections ==
  ASSUME StreamInv, TypeOK', UNCHANGED <<fdOf, openFds, conn>>, streams' \subseteq streams,
         shut \subseteq shut', \A fd \in streams \ streams' : Owners(fd) \subseteq shut'
  PROVE  StreamInv'
  <1>1. \A fd : Owners(fd)' = Owners(fd)
    BY DEF Owners
  <1>2. DescriptorsOK' /\ StreamsAreStreams'
    BY <1>1 DEF StreamInv, DescriptorsOK, Active, StreamsAreStreams
  <1>3. ASSUME NEW c \in Clients, conn'[c] \in {"loop", "recv"}
        PROVE  fdOf'[c] \in streams' \/ c \in shut'
    <2>1. Active(c) /\ (fdOf[c] \in streams \/ c \in shut)
      BY <1>3 DEF StreamInv, RegisteredOrShut, Active
    <2>2. c \in Owners(fdOf[c])
      BY <2>1, OwnsItsNumber
    <2> QED
      BY <2>1, <2>2
  <1> QED
    BY <1>2, <1>3 DEF StreamInv, RegisteredOrShut

(* A connection thread goes on to a place of the same kind: a stream stays  *)
(* a stream, and what is not one does not become one.                       *)
LEMMA GoesOn ==
  ASSUME StreamInv, NEW c \in Clients, NEW from, NEW to, CGoto(c, from, to),
         UNCHANGED <<kernelVars, clientVars, streams, castVars, stopVars, acceptPc>>,
         \/ from = "request" /\ to \in {"register", "close"}
         \/ from = "loop" /\ to \in {"recv", "erase"}
         \/ from = "recv" /\ to = "erase"
  PROVE  StreamInv'
  <1>0. conn[c] = from /\ conn' = [conn EXCEPT ![c] = to]
    BY DEF CGoto
  <1>1. TypeOK'
    BY <1>0 DEF StreamInv, TypeOK, kernelVars, clientVars, castVars, stopVars
  <1>2. DescriptorsOK'
    BY <1>0 DEF StreamInv, TypeOK, DescriptorsOK, Active, kernelVars
  <1>3. StreamsAreStreams'
    <2>1. \A fd : Owners(fd)' = Owners(fd)
      BY <1>0 DEF StreamInv, TypeOK, Owners, kernelVars
    <2> QED
      BY <1>0, <2>1 DEF StreamInv, TypeOK, StreamsAreStreams, Owners, kernelVars
  <1>4. RegisteredOrShut'
    BY <1>0 DEF StreamInv, TypeOK, RegisteredOrShut, kernelVars
  <1> QED
    BY <1>1, <1>2, <1>3, <1>4 DEF StreamInv

LEMMA StepStream == StreamInv /\ [Next]_vars => StreamInv'
  <1> SUFFICES ASSUME StreamInv, [Next]_vars PROVE StreamInv'
    OBVIOUS
  <1>1. ASSUME NEW c \in Clients, ServeConn(c) \/ StreamLoop(c) \/ StreamRecv(c)
        PROVE  StreamInv'
    BY <1>1, GoesOn DEF ServeConn, StreamLoop, StreamRecv, CGoto
  <1>2. ASSUME NEW c \in Clients, NEW fd \in Fds, Accept(c, fd) PROVE StreamInv'
    <2>0. /\ conn[c] = "none" /\ conn' = [conn EXCEPT ![c] = "request"]
          /\ fdOf' = [fdOf EXCEPT ![c] = fd] /\ openFds' = openFds \cup {fd}
          /\ fd \notin openFds /\ streams' = streams /\ shut' = shut
      BY <1>2 DEF Accept
    <2>1. TypeOK'
      BY <1>2 DEF Accept, StreamInv, TypeOK, clientVars, castVars, stopVars
    <2>2. DescriptorsOK'
      BY <2>0 DEF StreamInv, TypeOK, DescriptorsOK, Active
    <2>3. StreamsAreStreams'
      <3>1. \A g \in streams : g # fd /\ g \in openFds
        BY <2>0 DEF StreamInv, StreamsAreStreams
      <3>2. \A g \in streams : Owners(g)' \subseteq Owners(g) /\ c \notin Owners(g)'
        BY <2>0, <3>1 DEF StreamInv, TypeOK, Owners
      <3> QED
        BY <2>0, <3>1, <3>2 DEF StreamInv, TypeOK, StreamsAreStreams, Owners
    <2>4. RegisteredOrShut'
      BY <2>0 DEF StreamInv, TypeOK, RegisteredOrShut
    <2> QED
      BY <2>1, <2>2, <2>3, <2>4 DEF StreamInv
  <1>3. ASSUME NEW c \in Clients, Register(c) PROVE StreamInv'
    <2>0. /\ conn[c] = "register" /\ conn' = [conn EXCEPT ![c] = "loop"] /\ Active(c)
          /\ streams' = streams \cup {fdOf[c]} /\ UNCHANGED kernelVars
      BY <1>3 DEF Register, CGoto, Active
    <2>1. fdOf[c] \in Fds /\ Owners(fdOf[c]) = {c} /\ fdOf[c] \in openFds
      BY <2>0, OwnsItsNumber DEF StreamInv, DescriptorsOK
    <2>2. TypeOK'
      BY <1>3, <2>0, <2>1 DEF Register, StreamInv, TypeOK, kernelVars, clientVars, castVars, stopVars
    <2>3. DescriptorsOK'
      BY <2>0 DEF StreamInv, TypeOK, DescriptorsOK, Active, kernelVars
    <2>4. StreamsAreStreams'
      <3>1. \A fd : Owners(fd)' = Owners(fd)
        BY <2>0 DEF StreamInv, TypeOK, Owners, kernelVars
      <3> QED
        BY <2>0, <2>1, <3>1 DEF StreamInv, TypeOK, StreamsAreStreams, kernelVars
    <2>5. RegisteredOrShut'
      BY <2>0 DEF StreamInv, TypeOK, RegisteredOrShut, kernelVars
    <2> QED
      BY <2>2, <2>3, <2>4, <2>5 DEF StreamInv
  <1>4. ASSUME NEW c \in Clients, Unregister(c) PROVE StreamInv'
    <2>0. /\ conn[c] = "erase" /\ conn' = [conn EXCEPT ![c] = "close"] /\ Active(c)
          /\ streams' = streams \ {fdOf[c]} /\ UNCHANGED kernelVars
      BY <1>4 DEF Unregister, CGoto, Active
    <2>1. Owners(fdOf[c]) = {c}
      BY <2>0, OwnsItsNumber
    <2>2. TypeOK'
      BY <1>4 DEF Unregister, CGoto, StreamInv, TypeOK, kernelVars, clientVars, castVars, stopVars
    <2>3. DescriptorsOK'
      BY <2>0 DEF StreamInv, TypeOK, DescriptorsOK, Active, kernelVars
    <2>4. StreamsAreStreams'
      <3>1. \A fd : Owners(fd)' = Owners(fd)
        BY <2>0 DEF StreamInv, TypeOK, Owners, kernelVars
      <3>2. \A fd \in streams' : c \notin Owners(fd)
        BY <2>0 DEF Owners
      <3> QED
        BY <2>0, <3>1, <3>2 DEF StreamInv, TypeOK, StreamsAreStreams, kernelVars
    <2>5. RegisteredOrShut'
      <3>1. ASSUME NEW d \in Clients, conn'[d] \in {"loop", "recv"}
            PROVE  d # c /\ conn[d] = conn'[d] /\ fdOf[d] # fdOf[c]
        <4>1. d # c /\ conn[d] = conn'[d]
          BY <2>0, <3>1 DEF StreamInv, TypeOK
        <4> QED
          BY <2>0, <3>1, <4>1 DEF StreamInv, DescriptorsOK, Active
      <3> QED
        BY <2>0, <3>1 DEF StreamInv, RegisteredOrShut, kernelVars
    <2> QED
      BY <2>2, <2>3, <2>4, <2>5 DEF StreamInv
  <1>5. ASSUME NEW c \in Clients, Close(c) PROVE StreamInv'
    <2>0. /\ conn[c] = "close" /\ conn' = [conn EXCEPT ![c] = "exit"] /\ Active(c)
          /\ openFds' = openFds \ {fdOf[c]} /\ UNCHANGED <<fdOf, shut, streams>>
      BY <1>5 DEF Close, CGoto, Active
    <2>1. Owners(fdOf[c]) = {c} /\ fdOf[c] \notin streams
      BY <2>0, OwnsItsNumber DEF StreamInv, StreamsAreStreams
    <2>2. TypeOK'
      BY <1>5 DEF Close, CGoto, StreamInv, TypeOK, clientVars, castVars, stopVars
    <2>3. DescriptorsOK'
      BY <2>0 DEF StreamInv, TypeOK, DescriptorsOK, Active
    <2>4. StreamsAreStreams'
      <3>1. \A fd : Owners(fd)' \subseteq Owners(fd) /\ c \notin Owners(fd)'
        BY <2>0 DEF StreamInv, TypeOK, Owners
      <3> QED
        BY <2>0, <2>1, <3>1 DEF StreamInv, TypeOK, StreamsAreStreams, Owners
    <2>5. RegisteredOrShut'
      BY <2>0 DEF StreamInv, TypeOK, RegisteredOrShut
    <2> QED
      BY <2>2, <2>3, <2>4, <2>5 DEF StreamInv
  <1>6. ASSUME NEW b \in Casters, NEW fd \in Fds, SendFails(b, fd) PROVE StreamInv'
    <2>1. TypeOK'
      BY <1>6 DEF SendFails, StreamInv, TypeOK, Owners, clientVars, stopVars
    <2> QED
      BY <1>6, <2>1, SparesConnections DEF SendFails
  <1>7. ShutStreams => StreamInv'
    <2> SUFFICES ASSUME ShutStreams PROVE StreamInv'
      OBVIOUS
    <2>1. UNION {Owners(fd) : fd \in streams} \subseteq Clients
      BY DEF Owners
    <2>2. TypeOK'
      BY <2>1 DEF ShutStreams, StreamInv, TypeOK, clientVars, castVars
    <2> QED
      BY <2>2, SparesConnections DEF ShutStreams
  <1>8. ASSUME TypeOK', UNCHANGED <<kernelVars, conn, streams>> PROVE StreamInv'
    BY <1>8, SparesConnections DEF kernelVars
  <1>9. ASSUME NEW c \in Clients, HangUp(c) \/ Stall(c) PROVE StreamInv'
    <2>1. TypeOK'
      BY <1>9 DEF HangUp, Stall, StreamInv, TypeOK, kernelVars, castVars, stopVars
    <2> QED
      BY <1>8, <1>9, <2>1 DEF HangUp, Stall
  <1>10. ASSUME AcceptTop \/ AcceptNone PROVE StreamInv'
    <2>1. TypeOK'
      BY <1>10 DEF AcceptTop, AcceptNone, StreamInv, TypeOK, kernelVars, clientVars, castVars,
                   stopVars
    <2> QED
      BY <1>8, <1>10, <2>1 DEF AcceptTop, AcceptNone
  <1>11. ASSUME NEW b \in Casters, BroadcastBegin(b) \/ BroadcastEnd(b) PROVE StreamInv'
    <2>1. TypeOK'
      BY <1>11 DEF BroadcastBegin, BroadcastEnd, StreamInv, TypeOK, kernelVars, clientVars, stopVars
    <2> QED
      BY <1>8, <1>11, <2>1 DEF BroadcastBegin, BroadcastEnd
  <1>12. ASSUME NEW b \in Casters, NEW fd \in Fds, SendSucceeds(b, fd) PROVE StreamInv'
    <2>1. TypeOK'
      BY <1>12 DEF SendSucceeds, StreamInv, TypeOK, kernelVars, clientVars, stopVars
    <2> QED
      BY <1>8, <1>12, <2>1 DEF SendSucceeds
  <1>13. ASSUME StopConsumer \/ JoinConsumer \/ StopHttp \/ ShutListen \/ JoinAccept
         PROVE  StreamInv'
    <2>1. TypeOK'
      BY <1>13 DEF StopConsumer, JoinConsumer, StopHttp, ShutListen, JoinAccept, StreamInv, TypeOK,
                   kernelVars, clientVars, castVars
    <2> QED
      BY <1>8, <1>13, <2>1 DEF StopConsumer, JoinConsumer, StopHttp, ShutListen, JoinAccept
  <1>14. CASE UNCHANGED vars
    <2>1. TypeOK'
      BY <1>14 DEF vars, StreamInv, TypeOK, kernelVars, clientVars, castVars, stopVars
    <2> QED
      BY <1>8, <1>14, <2>1 DEF vars
  <1> QED
    BY <1>1, <1>2, <1>3, <1>4, <1>5, <1>6, <1>7, <1>9, <1>10, <1>11, <1>12, <1>13, <1>14
       DEF Next, ConnStep, AcceptStep, CastStep, Main

(* Events go to stream clients only, for any number of connections, reuse   *)
(* of descriptor numbers, failed sends and shutdown (Broadcast,             *)
(* ServeStream).                                                            *)
THEOREM BroadcastsToStreams == Spec => []StreamsAreStreams
  <1>1. StreamInv => StreamsAreStreams
    BY DEF StreamInv
  <1> QED
    BY <1>1, InitStream, StepStream, PTL DEF Spec

(* No live stream is lost from m_streams: neither another connection's end  *)
(* nor a failed send takes away the number of a stream that is not told.    *)
THEOREM StreamsStayRegistered == Spec => []LiveStreamsRegistered
  <1>1. StreamInv => LiveStreamsRegistered
    BY DEF StreamInv, RegisteredOrShut, LiveStreamsRegistered
  <1> QED
    BY <1>1, InitStream, StepStream, PTL DEF Spec
-----------------------------------------------------------------------------
(* Every open descriptor is some connection's: Close is the only way out.   *)
Owned == \A fd \in openFds : \E c \in Clients : Active(c) /\ fdOf[c] = fd

(* m_connMutex is held for as long as a Broadcast runs, so that what it has *)
(* still to send to stays in m_streams.                                     *)
CastersOK ==
    /\ \A b \in Casters : mutex = b <=> caster[b] = "sending"
    /\ \A b \in Casters : caster[b] = "idle" => todo[b] = {}
    /\ \A b \in Casters : todo[b] \subseteq streams

(* The order of the shutdown: the broadcasters, m_running, the accept thread. *)
StopOK ==
    /\ mainPc # "running" => consumerStop /\ caster["main"] = "idle"
    /\ mainPc \notin {"running", "joinconsumer"} => caster["consumer"] = "idle"
    /\ running <=> mainPc \in {"running", "joinconsumer", "stophttp"}
    /\ mainPc \in {"shutstreams", "down"} => acceptPc = "exit"

(* A send of a Broadcast reaches one connection, which is a stream: between *)
(* the snapshot and the send, its thread neither closes the descriptor nor  *)
(* gives the number to another.                                             *)
SendsToStreams ==
    \A b \in Casters : \A fd \in todo[b] :
        \E c \in Clients : Owners(fd) = {c} /\ conn[c] \in {"loop", "recv", "erase"}

(* Once the server is down no stream's thread waits in recv untold.         *)
StopTellsAll == mainPc = "down" => \A c \in Clients : conn[c] = "recv" => c \in shut

(* The main thread finds m_connMutex free when it shuts the streams down,   *)
(* and nothing is sent after that.                                          *)
StopIsQuiet ==
    mainPc \in {"shutstreams", "down"} =>
        mutex = "free" /\ \A b \in Casters : caster[b] = "idle" /\ todo[b] = {}

ServerInv == StreamInv /\ Owned /\ CastersOK /\ StopOK /\ StopTellsAll

LEMMA InitServer == Init => ServerInv
  <1>1. Init => Owned /\ CastersOK /\ StopOK /\ StopTellsAll
    BY DEF Init, Owned, CastersOK, StopOK, StopTellsAll, Casters
  <1> QED
    BY <1>1, InitStream DEF ServerInv

LEMMA StepOwned == StreamInv /\ Owned /\ [Next]_vars => Owned'
  <1> SUFFICES ASSUME StreamInv, Owned, [Next]_vars PROVE Owned'
    OBVIOUS
  <1>1. CASE UNCHANGED <<fdOf, openFds, conn>>
    BY <1>1 DEF Owned, Active
  <1>2. ASSUME NEW c \in Clients, NEW from, NEW to, CGoto(c, from, to), to # "none", to # "exit",
               UNCHANGED kernelVars
        PROVE  Owned'
    <2>1. \A d \in Clients : Active(d) => Active(d)'
      BY <1>2 DEF CGoto, Active, StreamInv, TypeOK
    <2> QED
      BY <1>2, <2>1 DEF Owned, kernelVars
  <1>3. ASSUME NEW c \in Clients, NEW fd \in Fds, Accept(c, fd) PROVE Owned'
    <2>1. /\ conn[c] = "none" /\ conn' = [conn EXCEPT ![c] = "request"]
          /\ fdOf' = [fdOf EXCEPT ![c] = fd] /\ openFds' = openFds \cup {fd}
      BY <1>3 DEF Accept
    <2>2. Active(c)' /\ fdOf'[c] = fd
      BY <2>1 DEF Active, StreamInv, TypeOK
    <2>3. \A d \in Clients : Active(d) => Active(d)' /\ fdOf'[d] = fdOf[d]
      BY <2>1 DEF Active, StreamInv, TypeOK
    <2> QED
      BY <2>1, <2>2, <2>3 DEF Owned
  <1>4. ASSUME NEW c \in Clients, Close(c) PROVE Owned'
    <2>1. /\ conn' = [conn EXCEPT ![c] = "exit"] /\ openFds' = openFds \ {fdOf[c]}
          /\ fdOf' = fdOf
      BY <1>4 DEF Close, CGoto
    <2>2. \A d \in Clients : d # c /\ Active(d) => Active(d)'
      BY <2>1 DEF Active, StreamInv, TypeOK
    <2> QED
      BY <2>1, <2>2 DEF Owned
  <1>5. ASSUME NEW c \in Clients, HangUp(c) \/ Stall(c) PROVE Owned'
    BY <1>1, <1>5 DEF HangUp, Stall, kernelVars
  <1>6. ASSUME NEW c \in Clients,
               ServeConn(c) \/ Register(c) \/ StreamLoop(c) \/ StreamRecv(c) \/ Unregister(c)
        PROVE  Owned'
    BY <1>2, <1>6 DEF ServeConn, Register, StreamLoop, StreamRecv, Unregister
  <1>7. ASSUME AcceptTop \/ AcceptNone PROVE Owned'
    BY <1>1, <1>7 DEF AcceptTop, AcceptNone, kernelVars
  <1>8. ASSUME NEW b \in Casters, BroadcastBegin(b) \/ BroadcastEnd(b) PROVE Owned'
    BY <1>1, <1>8 DEF BroadcastBegin, BroadcastEnd, kernelVars
  <1>9. ASSUME NEW b \in Casters, NEW fd \in Fds, SendFails(b, fd) \/ SendSucceeds(b, fd)
        PROVE  Owned'
    BY <1>1, <1>9 DEF SendFails, SendSucceeds, kernelVars
  <1>10. ASSUME StopConsumer \/ Main PROVE Owned'
    BY <1>1, <1>10 DEF Main, StopConsumer, JoinConsumer, StopHttp, ShutListen, JoinAccept,
                       ShutStreams, kernelVars
  <1>11. CASE UNCHANGED vars
    BY <1>1, <1>11 DEF vars, kernelVars
  <1> QED
    BY <1>3, <1>4, <1>5, <1>6, <1>7, <1>8, <1>9, <1>10, <1>11
       DEF Next, ConnStep, AcceptStep, CastStep

LEMMA StepCasters == StreamInv /\ CastersOK /\ [Next]_vars => CastersOK'
  <1> SUFFICES ASSUME StreamInv, CastersOK, [Next]_vars PROVE CastersOK'
    OBVIOUS
  <1>1. CASE UNCHANGED castVars /\ streams \subseteq streams'
    BY <1>1 DEF castVars, CastersOK
  <1>2. ASSUME NEW c \in Clients, Unregister(c) PROVE CastersOK'
    <2>1. \A b \in Casters : todo[b] = {}
      BY <1>2 DEF Unregister, CastersOK, StreamInv, TypeOK, Casters
    <2> QED
      BY <1>2, <2>1 DEF Unregister, CastersOK, castVars
  <1>3. ASSUME NEW b \in Casters, BroadcastBegin(b) PROVE CastersOK'
    <2>1. /\ mutex = "free" /\ mutex' = b /\ streams' = streams
          /\ caster' = [caster EXCEPT ![b] = "sending"] /\ todo' = [todo EXCEPT ![b] = streams]
      BY <1>3 DEF BroadcastBegin
    <2>2. \A d \in Casters : caster[d] = "idle"
      BY <2>1 DEF CastersOK, StreamInv, TypeOK, Casters
    <2> QED
      BY <2>1, <2>2 DEF CastersOK, StreamInv, TypeOK
  <1>4. ASSUME NEW b \in Casters, NEW fd \in Fds, SendFails(b, fd) PROVE CastersOK'
    <2>1. /\ fd \in todo[b] /\ todo' = [todo EXCEPT ![b] = @ \ {fd}]
          /\ streams' = streams \ {fd} /\ UNCHANGED <<mutex, caster>>
      BY <1>4 DEF SendFails
    <2>2. \A d \in Casters : d # b => todo[d] = {}
      BY <2>1 DEF CastersOK, StreamInv, TypeOK
    <2> QED
      BY <2>1, <2>2 DEF CastersOK, StreamInv, TypeOK
  <1>5. ASSUME NEW b \in Casters, NEW fd \in Fds, SendSucceeds(b, fd) PROVE CastersOK'
    BY <1>5 DEF SendSucceeds, CastersOK, StreamInv, TypeOK
  <1>6. ASSUME NEW b \in Casters, BroadcastEnd(b) PROVE CastersOK'
    <2>1. /\ caster[b] = "sending" /\ todo[b] = {} /\ mutex' = "free" /\ UNCHANGED <<todo, streams>>
          /\ caster' = [caster EXCEPT ![b] = "idle"]
      BY <1>6 DEF BroadcastEnd
    <2>2. \A d \in Casters : d # b => caster[d] = "idle"
      BY <2>1 DEF CastersOK, StreamInv, TypeOK
    <2>3. "free" \notin Casters
      BY DEF Casters
    <2> QED
      BY <2>1, <2>2, <2>3 DEF CastersOK, StreamInv, TypeOK
  <1>7. ASSUME NEW c \in Clients,
               \/ HangUp(c) \/ Stall(c) \/ ServeConn(c) \/ Register(c) \/ StreamLoop(c)
               \/ StreamRecv(c) \/ Close(c)
        PROVE  CastersOK'
    BY <1>1, <1>7 DEF HangUp, Stall, ServeConn, Register, StreamLoop, StreamRecv, Close
  <1>8. ASSUME AcceptStep PROVE CastersOK'
    BY <1>1, <1>8 DEF AcceptStep, AcceptTop, AcceptNone, Accept
  <1>9. ASSUME StopConsumer \/ Main PROVE CastersOK'
    BY <1>1, <1>9 DEF Main, StopConsumer, JoinConsumer, StopHttp, ShutListen, JoinAccept, ShutStreams
  <1>10. CASE UNCHANGED vars
    BY <1>1, <1>10 DEF vars
  <1> QED
    BY <1>2, <1>3, <1>4, <1>5, <1>6, <1>7, <1>8, <1>9, <1>10 DEF Next, ConnStep, CastStep

LEMMA StepStop == StreamInv /\ StopOK /\ [Next]_vars => StopOK'
  <1> SUFFICES ASSUME StreamInv, StopOK, [Next]_vars PROVE StopOK'
    OBVIOUS
  <1>1. CASE UNCHANGED <<stopVars, caster, acceptPc>>
    BY <1>1 DEF stopVars, StopOK
  <1>2. ASSUME NEW b \in Casters, BroadcastBegin(b) PROVE StopOK'
    <2>1. /\ IF b = "consumer" THEN ~consumerStop ELSE mainPc = "running"
          /\ UNCHANGED <<running, mainPc, consumerStop, acceptPc>>
          /\ caster' = [caster EXCEPT ![b] = "sending"]
      BY <1>2 DEF BroadcastBegin, MayCast, stopVars
    <2>2. mainPc = "running"
      BY <2>1 DEF StopOK
    <2> QED
      BY <2>1, <2>2 DEF StopOK
  <1>3. ASSUME NEW b \in Casters, BroadcastEnd(b) PROVE StopOK'
    BY <1>3 DEF BroadcastEnd, StopOK, stopVars, StreamInv, TypeOK, Casters
  <1>4. ASSUME AcceptStep PROVE StopOK'
    <2>1. acceptPc # "exit" /\ UNCHANGED <<running, mainPc, consumerStop, caster>>
      BY <1>4 DEF AcceptStep, AcceptTop, AcceptNone, Accept, stopVars, castVars
    <2> QED
      BY <2>1 DEF StopOK
  <1>5. ASSUME StopConsumer \/ Main PROVE StopOK'
    BY <1>5 DEF Main, StopConsumer, JoinConsumer, StopHttp, ShutListen, JoinAccept, ShutStreams,
                StopOK, castVars, StreamInv, TypeOK
  <1>6. ASSUME NEW c \in Clients, HangUp(c) \/ Stall(c) \/ ServeConn(c) \/ ConnStep(c) PROVE StopOK'
    BY <1>1, <1>6 DEF HangUp, Stall, ServeConn, ConnStep, Register, StreamLoop, StreamRecv,
                      Unregister, Close, castVars
  <1>7. ASSUME NEW b \in Casters, NEW fd \in Fds, SendFails(b, fd) \/ SendSucceeds(b, fd)
        PROVE  StopOK'
    BY <1>1, <1>7 DEF SendFails, SendSucceeds
  <1>8. CASE UNCHANGED vars
    BY <1>1, <1>8 DEF vars, castVars
  <1> QED
    BY <1>2, <1>3, <1>4, <1>5, <1>6, <1>7, <1>8 DEF Next, CastStep

(* With m_running cleared no thread enters recv any more; the streams whose *)
(* threads are there already are in m_streams, where the shutdown finds     *)
(* them, or have been told.                                                 *)
LEMMA StepTells == StreamInv /\ StopOK /\ StopTellsAll /\ [Next]_vars => StopTellsAll'
  <1> SUFFICES ASSUME StreamInv, StopOK, StopTellsAll, [Next]_vars,
                      mainPc' = "down", NEW c \in Clients, conn'[c] = "recv"
               PROVE  c \in shut'
    BY DEF StopTellsAll
  <1>1. CASE ShutStreams
    <2>1. conn[c] = "recv" /\ shut' = shut \cup UNION {Owners(fd) : fd \in streams}
      BY <1>1 DEF ShutStreams
    <2>2. fdOf[c] \in streams \/ c \in shut
      BY <2>1 DEF StreamInv, RegisteredOrShut
    <2>3. c \in Owners(fdOf[c])
      BY <2>1, OwnsItsNumber DEF Active
    <2> QED
      BY <2>1, <2>2, <2>3
  <1>2. CASE mainPc = "down" /\ conn[c] = "recv" /\ shut \subseteq shut'
    BY <1>2 DEF StopTellsAll
  <1>3. ASSUME NEW d \in Clients, StreamLoop(d) PROVE c \in shut'
    <2>1. mainPc = "down" /\ ~running
      BY <1>3 DEF StreamLoop, stopVars, StopOK
    <2>2. conn[c] = "recv" /\ shut' = shut
      BY <1>3, <2>1 DEF StreamLoop, CGoto, kernelVars, StreamInv, TypeOK
    <2> QED
      BY <1>2, <2>1, <2>2
  <1>4. ASSUME NEW d \in Clients,
               ServeConn(d) \/ Register(d) \/ StreamRecv(d) \/ Unregister(d) \/ Close(d)
        PROVE  c \in shut'
    <2>1. mainPc = "down" /\ shut' = shut
      BY <1>4 DEF ServeConn, Register, StreamRecv, Unregister, Close, stopVars, kernelVars
    <2>2. conn[c] = "recv"
      BY <1>4 DEF ServeConn, Register, StreamRecv, Unregister, Close, CGoto, StreamInv, TypeOK
    <2> QED
      BY <1>2, <2>1, <2>2
  <1>5. ASSUME AcceptStep PROVE c \in shut'
    <2>1. mainPc = "down" /\ shut' = shut
      BY <1>5 DEF AcceptStep, AcceptTop, AcceptNone, Accept, stopVars, kernelVars
    <2>2. conn[c] = "recv"
      BY <1>5 DEF AcceptStep, AcceptTop, AcceptNone, Accept, StreamInv, TypeOK
    <2> QED
      BY <1>2, <2>1, <2>2
  <1>6. ASSUME NEW d \in Clients, HangUp(d) \/ Stall(d) PROVE c \in shut'
    BY <1>2, <1>6 DEF HangUp, Stall, stopVars, kernelVars
  <1>7. ASSUME NEW b \in Casters, BroadcastBegin(b) \/ BroadcastEnd(b) PROVE c \in shut'
    BY <1>2, <1>7 DEF BroadcastBegin, BroadcastEnd, stopVars, kernelVars
  <1>8. ASSUME NEW b \in Casters, NEW fd \in Fds, SendFails(b, fd) \/ SendSucceeds(b, fd)
        PROVE  c \in shut'
    BY <1>2, <1>8 DEF SendFails, SendSucceeds, stopVars, kernelVars
  <1>9. ASSUME StopConsumer \/ JoinConsumer \/ StopHttp \/ ShutListen \/ JoinAccept
        PROVE  c \in shut'
    BY <1>9 DEF StopConsumer, JoinConsumer, StopHttp, ShutListen, JoinAccept
  <1>10. CASE UNCHANGED vars
    BY <1>2, <1>10 DEF vars, stopVars, kernelVars
  <1> QED
    BY <1>1, <1>3, <1>4, <1>5, <1>6, <1>7, <1>8, <1>9, <1>10 DEF Next, ConnStep, CastStep, Main

LEMMA StepServer == ServerInv /\ [Next]_vars => ServerInv'
  BY StepStream, StepOwned, StepCasters, StepStop, StepTells DEF ServerInv

(* Every send of a Broadcast goes to exactly one connection, a registered   *)
(* stream: m_connMutex keeps what the loop has still to send to in          *)
(* m_streams, and so open and with its owner (Broadcast, ServeStream).      *)
THEOREM SendsReachOneStream == Spec => []SendsToStreams
  <1>1. ServerInv => SendsToStreams
    <2> SUFFICES ASSUME ServerInv, NEW b \in Casters, NEW fd \in todo[b]
                 PROVE  \E c \in Clients : Owners(fd) = {c} /\ conn[c] \in {"loop", "recv", "erase"}
      BY DEF SendsToStreams
    <2>1. fd \in streams /\ fd \in openFds
      BY DEF ServerInv, CastersOK, StreamInv, StreamsAreStreams
    <2>2. PICK c \in Clients : Active(c) /\ fdOf[c] = fd
      BY <2>1 DEF ServerInv, Owned
    <2>3. Owners(fd) = {c}
      BY <2>2, OwnsItsNumber DEF ServerInv
    <2> QED
      BY <2>1, <2>3 DEF ServerInv, StreamInv, StreamsAreStreams
  <1> QED
    BY <1>1, InitServer, StepServer, PTL DEF Spec

(* HttpServer::Stop leaves no stream behind: when it has returned, every    *)
(* stream's thread that waits in recv has had its connection shut down,     *)
(* also one whose connection came in while m_running was being cleared.     *)
THEOREM StopLeavesNoStream == Spec => []StopTellsAll
  <1>1. ServerInv => StopTellsAll
    BY DEF ServerInv
  <1> QED
    BY <1>1, InitServer, StepServer, PTL DEF Spec

(* The shutdown's order (consumer, m_running, accept thread, streams) makes *)
(* its last step safe: no Broadcast is under way, so m_connMutex is free    *)
(* except within a step, and no event is sent after it.                     *)
THEOREM StopRunsAlone == Spec => []StopIsQuiet
  <1>1. ServerInv => StopIsQuiet
    BY DEF ServerInv, StreamInv, TypeOK, CastersOK, StopOK, StopIsQuiet, Casters
  <1> QED
    BY <1>1, InitServer, StepServer, PTL DEF Spec
=============================================================================
