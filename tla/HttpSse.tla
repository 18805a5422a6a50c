------------------------------ MODULE HttpSse ------------------------------
(***************************************************************************)
(* The web server's event streams: an accept thread, a detached thread per *)
(* connection, and two broadcasters, the Kafka consumer thread (frame      *)
(* events) and the main thread (statistics), which send to every stream    *)
(* while they hold m_connMutex.  The main thread shuts down by stopping    *)
(* the consumer and then the server.                                       *)
(*                                                                         *)
(* A client may hang up, and may stop reading for good, so that a send to  *)
(* it blocks: the sockets have no send timeout.                            *)
(***************************************************************************)
EXTENDS Naturals

CONSTANTS
    Clients,    \* connections, each made at most once
    Fds         \* descriptor numbers the kernel hands out

NoFd == "nofd"
Casters == {"consumer", "main"}

VARIABLES
    fdOf, openFds, shut,    \* kernel: descriptors, shut-down connections
    gone, stalled,          \* clients that hung up, or stopped reading
    conn,                   \* place of each connection thread
    streams,                \* m_streams
    mutex,                  \* holder of m_connMutex across steps, or "free"
    caster,                 \* each broadcaster's place
    todo,                   \* streams its Broadcast has still to send to
    running,                \* m_running
    acceptPc, mainPc, consumerStop

kernelVars == <<fdOf, openFds, shut>>
clientVars == <<gone, stalled>>
castVars == <<mutex, caster, todo>>
stopVars == <<running, mainPc, consumerStop>>
vars == <<kernelVars, clientVars, conn, streams, castVars, stopVars, acceptPc>>

Init ==
    /\ fdOf = [c \in Clients |-> NoFd] /\ openFds = {} /\ shut = {}
    /\ gone = {} /\ stalled = {}
    /\ conn = [c \in Clients |-> "none"] /\ streams = {}
    /\ mutex = "free" /\ caster = [b \in Casters |-> "idle"]
    /\ todo = [b \in Casters |-> {}]
    /\ running = TRUE /\ acceptPc = "top" /\ mainPc = "running"
    /\ consumerStop = FALSE

-----------------------------------------------------------------------------
(* Clients.                                                                 *)
HangUp(c) ==
    /\ conn[c] # "none" /\ c \notin gone
    /\ gone' = gone \cup {c}
    /\ UNCHANGED <<kernelVars, stalled, conn, streams, castVars, stopVars, acceptPc>>

Stall(c) ==
    /\ conn[c] # "none" /\ c \notin stalled
    /\ stalled' = stalled \cup {c}
    /\ UNCHANGED <<kernelVars, gone, conn, streams, castVars, stopVars, acceptPc>>

-----------------------------------------------------------------------------
(* The accept thread.                                                       *)
(* Faulty variant: the loop does not look at m_running.                     *)
AcceptTop_NoCheck ==
    /\ acceptPc = "top"
    /\ acceptPc' = "poll"
    /\ UNCHANGED <<kernelVars, clientVars, conn, streams, castVars, stopVars>>

(* while (m_running.load())                                                 *)
AcceptTop ==
    /\ acceptPc = "top"
    /\ acceptPc' = IF running THEN "poll" ELSE "exit"
    /\ UNCHANGED <<kernelVars, clientVars, conn, streams, castVars, stopVars>>

(* The listening socket has not been shut down.                             *)
Listening == mainPc \in {"running", "joinconsumer", "stophttp", "shutlisten"}

(* The connection's thread is detached.                                     *)
Accept(c, fd) ==
    /\ acceptPc = "poll" /\ Listening
    /\ conn[c] = "none" /\ fd \in Fds \ openFds
    /\ acceptPc' = "top"
    /\ fdOf' = [fdOf EXCEPT ![c] = fd]
    /\ openFds' = openFds \cup {fd}
    /\ conn' = [conn EXCEPT ![c] = "request"]
    /\ UNCHANGED <<shut, clientVars, streams, castVars, stopVars>>

(* No connection, or the listening socket is shut down.                     *)
AcceptNone ==
    /\ acceptPc = "poll"
    /\ acceptPc' = "top"
    /\ UNCHANGED <<kernelVars, clientVars, conn, streams, castVars, stopVars>>

-----------------------------------------------------------------------------
(* A connection thread.                                                     *)
CGoto(c, from, to) == conn[c] = from /\ conn' = [conn EXCEPT ![c] = to]

(* ServeConn: a stream is served; any other request is answered and closed, *)
(* a failed read closes.                                                    *)
ServeConn(c) ==
    /\ \/ c \notin gone /\ CGoto(c, "request", "register")
       \/ CGoto(c, "request", "close")
    /\ UNCHANGED <<kernelVars, clientVars, streams, castVars, stopVars, acceptPc>>

(* ServeStream: the head is sent, the descriptor enters m_streams.          *)
Register(c) ==
    /\ mutex = "free"
    /\ CGoto(c, "register", "loop")
    /\ streams' = streams \cup {fdOf[c]}
    /\ UNCHANGED <<kernelVars, clientVars, castVars, stopVars, acceptPc>>

(* while (m_running && recv > 0); the clients send nothing.                 *)
StreamLoop(c) ==
    /\ CGoto(c, "loop", IF running THEN "recv" ELSE "erase")
    /\ UNCHANGED <<kernelVars, clientVars, streams, castVars, stopVars, acceptPc>>

(* Faulty variant: the end of the peer's stream is not taken for an end.    *)
StreamRecv_NoEof(c) ==
    /\ c \in shut
    /\ CGoto(c, "recv", "erase")
    /\ UNCHANGED <<kernelVars, clientVars, streams, castVars, stopVars, acceptPc>>

(* recv returns at the peer's or at our own shutdown.                       *)
StreamRecv(c) ==
    /\ c \in gone \cup shut
    /\ CGoto(c, "recv", "erase")
    /\ UNCHANGED <<kernelVars, clientVars, streams, castVars, stopVars, acceptPc>>

(* Faulty variant: the descriptor is left to a later Broadcast to remove.   *)
Unregister_Left(c) ==
    /\ CGoto(c, "erase", "close")
    /\ UNCHANGED <<kernelVars, clientVars, streams, castVars, stopVars, acceptPc>>

(* m_streams.erase(fd), before the descriptor is closed.                    *)
Unregister(c) ==
    /\ mutex = "free"
    /\ CGoto(c, "erase", "close")
    /\ streams' = streams \ {fdOf[c]}
    /\ UNCHANGED <<kernelVars, clientVars, castVars, stopVars, acceptPc>>

Close(c) ==
    /\ CGoto(c, "close", "exit")
    /\ openFds' = openFds \ {fdOf[c]}
    /\ UNCHANGED <<fdOf, shut, clientVars, streams, castVars, stopVars, acceptPc>>

-----------------------------------------------------------------------------
(* Broadcast, from the consumer thread or the main thread.                  *)
MayCast(b) == IF b = "consumer" THEN ~consumerStop ELSE mainPc = "running"

BroadcastBegin(b) ==
    /\ caster[b] = "idle" /\ MayCast(b) /\ mutex = "free"
    /\ caster' = [caster EXCEPT ![b] = "sending"]
    /\ mutex' = b
    /\ todo' = [todo EXCEPT ![b] = streams]
    /\ UNCHANGED <<kernelVars, clientVars, conn, streams, stopVars, acceptPc>>

(* The connection that has the descriptor number now.                       *)
Owners(fd) == {c \in Clients : fdOf[c] = fd /\ conn[c] \notin {"none", "exit"}}

(* Faulty variant: the stream is dropped but its thread is not woken.       *)
SendFails_NoShutdown(b, fd) ==
    /\ fd \in todo[b] /\ \A c \in Owners(fd) : c \in gone \cup shut
    /\ todo' = [todo EXCEPT ![b] = @ \ {fd}]
    /\ streams' = streams \ {fd}
    /\ UNCHANGED <<kernelVars, clientVars, conn, mutex, caster, stopVars, acceptPc>>

(* send fails: shut the connection down to wake its thread, drop it.        *)
SendFails(b, fd) ==
    /\ fd \in todo[b] /\ \A c \in Owners(fd) : c \in gone \cup shut
    /\ todo' = [todo EXCEPT ![b] = @ \ {fd}]
    /\ shut' = shut \cup Owners(fd)
    /\ streams' = streams \ {fd}
    /\ UNCHANGED <<fdOf, openFds, clientVars, conn, mutex, caster, stopVars, acceptPc>>

(* send succeeds; it blocks while the client does not read.                 *)
SendSucceeds(b, fd) ==
    /\ fd \in todo[b]
    /\ \E c \in Owners(fd) : c \notin gone \cup shut \cup stalled
    /\ todo' = [todo EXCEPT ![b] = @ \ {fd}]
    /\ UNCHANGED <<kernelVars, clientVars, conn, streams, mutex, caster, stopVars,
                   acceptPc>>

BroadcastEnd(b) ==
    /\ caster[b] = "sending" /\ todo[b] = {}
    /\ caster' = [caster EXCEPT ![b] = "idle"]
    /\ mutex' = "free"
    /\ UNCHANGED <<kernelVars, clientVars, conn, streams, todo, stopVars, acceptPc>>

-----------------------------------------------------------------------------
(* The main thread's shutdown.                                              *)
StopConsumer ==
    /\ mainPc = "running" /\ caster["main"] = "idle"
    /\ mainPc' = "joinconsumer" /\ consumerStop' = TRUE
    /\ UNCHANGED <<kernelVars, clientVars, conn, streams, castVars, running, acceptPc>>

JoinConsumer ==
    /\ mainPc = "joinconsumer" /\ caster["consumer"] = "idle"
    /\ mainPc' = "stophttp"
    /\ UNCHANGED <<kernelVars, clientVars, conn, streams, castVars, running,
                   consumerStop, acceptPc>>

(* Stop clears m_running first and then shuts the listening socket down: a  *)
(* connection may still be accepted in between.                             *)
StopHttp ==
    /\ mainPc = "stophttp"
    /\ mainPc' = "shutlisten" /\ running' = FALSE
    /\ UNCHANGED <<kernelVars, clientVars, conn, streams, castVars, consumerStop,
                   acceptPc>>

ShutListen ==
    /\ mainPc = "shutlisten"
    /\ mainPc' = "joinaccept"
    /\ UNCHANGED <<kernelVars, clientVars, conn, streams, castVars, running,
                   consumerStop, acceptPc>>

JoinAccept ==
    /\ mainPc = "joinaccept" /\ acceptPc = "exit"
    /\ mainPc' = "shutstreams"
    /\ UNCHANGED <<kernelVars, clientVars, conn, streams, castVars, running,
                   consumerStop, acceptPc>>

ShutStreams ==
    /\ mainPc = "shutstreams" /\ mutex = "free"
    /\ mainPc' = "down"
    /\ shut' = shut \cup UNION {Owners(fd) : fd \in streams}
    /\ UNCHANGED <<fdOf, openFds, clientVars, conn, streams, castVars, running,
                   consumerStop, acceptPc>>

-----------------------------------------------------------------------------
AcceptStep == AcceptTop \/ AcceptNone \/ \E c \in Clients, fd \in Fds : Accept(c, fd)

ConnStep(c) == \/ Register(c) \/ StreamLoop(c) \/ StreamRecv(c)
               \/ Unregister(c) \/ Close(c)

CastStep(b) == \/ BroadcastEnd(b)
               \/ \E fd \in Fds : SendFails(b, fd) \/ SendSucceeds(b, fd)

Main == JoinConsumer \/ StopHttp \/ ShutListen \/ JoinAccept \/ ShutStreams

Next ==
    \/ \E c \in Clients : HangUp(c) \/ Stall(c) \/ ServeConn(c) \/ ConnStep(c)
    \/ AcceptStep
    \/ \E b \in Casters : BroadcastBegin(b) \/ CastStep(b)
    \/ StopConsumer \/ Main

Spec == Init /\ [][Next]_vars

(* Threads are scheduled.  A request need not arrive, so ServeConn is not   *)
(* fair; nor is a broadcast or the shutdown obliged to begin.  A thread     *)
(* that waits for m_connMutex gets it although others keep taking it.       *)
Fairness ==
    /\ WF_vars(AcceptStep)
    /\ \A c \in Clients : WF_vars(ConnStep(c)) /\ SF_vars(Register(c))
                          /\ SF_vars(Unregister(c))
    /\ \A b \in Casters : WF_vars(CastStep(b))
    /\ WF_vars(Main) /\ SF_vars(ShutStreams)

FairSpec == Spec /\ Fairness

-----------------------------------------------------------------------------
(* Properties.                                                              *)

(* Every variable has its type.                                             *)
TypeOK ==
    /\ fdOf \in [Clients -> Fds \cup {NoFd}] /\ openFds \subseteq Fds
    /\ shut \subseteq Clients /\ gone \subseteq Clients /\ stalled \subseteq Clients
    /\ conn \in [Clients -> {"none", "request", "register", "loop", "recv", "erase",
                             "close", "exit"}]
    /\ streams \subseteq Fds
    /\ mutex \in Casters \cup {"free"}
    /\ caster \in [Casters -> {"idle", "sending"}]
    /\ todo \in [Casters -> SUBSET Fds]
    /\ running \in BOOLEAN /\ consumerStop \in BOOLEAN
    /\ acceptPc \in {"top", "poll", "exit"}
    /\ mainPc \in {"running", "joinconsumer", "stophttp", "shutlisten",
                   "joinaccept", "shutstreams", "down"}

(* Events reach stream clients only: a descriptor in m_streams is open and  *)
(* belongs to a connection that registered it, never to a newer connection  *)
(* that was given the same number.                                          *)
StreamsAreStreams ==
    \A fd \in streams :
        /\ fd \in openFds
        /\ \A c \in Owners(fd) : conn[c] \in {"loop", "recv", "erase"}

(* A stream that is live is in m_streams, or has been told to end.          *)
LiveStreamsRegistered ==
    \A c \in Clients : conn[c] = "recv" => fdOf[c] \in streams \/ c \in shut

(* Somebody has stopped reading: only then may a broadcaster block in send, *)
(* and with it everyone who needs m_connMutex.                              *)
Stuck == stalled # {}

(* The stream of a client that has hung up is cleaned up, unless another    *)
(* client has stopped reading.                                              *)
GoneCleaned ==
    \A c \in Clients : c \in gone /\ conn[c] = "recv" ~> conn[c] = "exit" \/ Stuck

(* The shutdown gets through, unless a client has stopped reading.          *)
StopReturns == mainPc = "joinconsumer" ~> mainPc = "down" \/ Stuck

(* The shutdown gets through whatever the clients do, since Broadcast drops *)
(* slow connections.                                                        *)
StopAlwaysReturns == mainPc = "joinconsumer" ~> mainPc = "down"
=============================================================================
