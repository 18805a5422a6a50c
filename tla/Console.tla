------------------------------ MODULE Console ------------------------------
(***************************************************************************)
(* The operations plane of a process: the console thread accepts           *)
(* connections on a unix socket, a detached session thread per connection  *)
(* reads command lines and waits for the control thread to execute them,   *)
(* commands also arrive from the middleware, and the main thread shuts     *)
(* everything down with control_stop and then console_stop.                *)
(*                                                                         *)
(* A client sends a line, waits for the answer and may then send another,  *)
(* as tools/dts-cli.py does, as often as it likes; it may hang up at any   *)
(* time.                                                                   *)
(***************************************************************************)
EXTENDS Naturals, Sequences, FiniteSets

CONSTANTS
    Clients,        \* connections, each made at most once
    Fds,            \* file descriptor numbers the kernel hands out
    Requests,       \* commands that arrive over the middleware
    ControlStarted  \* whether control_start succeeded

ASSUME ConsoleAssumption ==
    /\ Clients \cap Requests = {}
    /\ ControlStarted \in BOOLEAN

NoFd == "nofd"
NoJob == "nojob"

VARIABLES
    line, hungUp,                \* the client: line in flight, hang-up
    awaiting,                    \* whether it has yet to receive an answer
    backlog,                     \* connections waiting to be accepted
    fdOf, openFds, shut,         \* kernel: descriptors, shut-down connections
    session,                     \* place of each session thread
    activeFds,                   \* g_activeFds
    consolePc, consoleStop,      \* the console thread, g_consoleStop
    queue, controlStop,          \* g_queue, g_controlStop
    controlPc, job,              \* the control thread and its job
    done,                        \* Job::done of each session's or request's job
    mainPc, pending,             \* the main thread in Process::Stop
    mwUp,                        \* the middleware is still there (DtsMw)
    published                    \* responses published over the middleware

clientVars  == <<line, awaiting, hungUp, backlog>>
kernelVars  == <<fdOf, openFds, shut>>
consoleVars == <<consolePc, consoleStop, activeFds>>
controlVars == <<queue, controlStop, controlPc, job, done, published>>
mainVars    == <<mainPc, pending, mwUp>>
vars == <<clientVars, kernelVars, session, consoleVars, controlVars, mainVars>>

Lines == {"command", "empty", "long"}

Init ==
    /\ line = [c \in Clients |-> "none"]
    /\ awaiting = [c \in Clients |-> FALSE]
    /\ hungUp = [c \in Clients |-> FALSE]
    /\ backlog = {}
    /\ fdOf = [c \in Clients |-> NoFd]
    /\ openFds = {} /\ shut = {}
    /\ session = [c \in Clients |-> "none"]
    /\ activeFds = {}
    /\ consolePc = "top" /\ consoleStop = FALSE
    /\ queue = <<>> /\ controlStop = FALSE
    /\ controlPc = IF ControlStarted THEN "wait" ELSE "exit"
    /\ job = NoJob
    /\ done = {}
    /\ mainPc = "running" /\ pending = {} /\ mwUp = TRUE
    /\ published = {}

-----------------------------------------------------------------------------
(* The listening socket has not been shut down.                             *)
Listening == mainPc \notin {"joinconsole", "shutsessions", "stopped"}

(* Clients.                                                                 *)
Connect(c) ==
    /\ session[c] = "none" /\ c \notin backlog /\ ~hungUp[c]
    /\ Listening
    /\ backlog' = backlog \cup {c}
    /\ UNCHANGED <<line, awaiting, hungUp, kernelVars, session,
                   consoleVars, controlVars, mainVars>>

SendLine(c, l) ==
    /\ c \in backlog \/ session[c] \notin {"none", "erase", "exit"}
    /\ ~hungUp[c] /\ c \notin shut
    /\ line[c] = "none" /\ ~awaiting[c]
    /\ line' = [line EXCEPT ![c] = l]
    /\ awaiting' = [awaiting EXCEPT ![c] = TRUE]
    /\ UNCHANGED <<hungUp, backlog, kernelVars, session, consoleVars,
                   controlVars, mainVars>>

HangUp(c) ==
    /\ c \in backlog \/ session[c] # "none"
    /\ ~hungUp[c]
    /\ hungUp' = [hungUp EXCEPT ![c] = TRUE]
    /\ UNCHANGED <<line, awaiting, backlog, kernelVars, session,
                   consoleVars, controlVars, mainVars>>

-----------------------------------------------------------------------------
(* The console thread.                                                      *)

(* Faulty variant: the loop does not look at g_consoleStop.                 *)
ConsoleTop_NoCheck ==
    /\ consolePc = "top"
    /\ consolePc' = "poll"
    /\ UNCHANGED <<clientVars, kernelVars, session, consoleStop, activeFds,
                   controlVars, mainVars>>

(* while (!g_consoleStop)                                                   *)
ConsoleTop ==
    /\ consolePc = "top"
    /\ consolePc' = IF consoleStop THEN "exit" ELSE "poll"
    /\ UNCHANGED <<clientVars, kernelVars, session, consoleStop, activeFds,
                   controlVars, mainVars>>

(* poll reports a connection: accept it and start a detached session.       *)
ConsoleAccept(c, fd) ==
    /\ consolePc = "poll" /\ c \in backlog /\ fd \in Fds \ openFds
    /\ Listening
    /\ consolePc' = "top"
    /\ backlog' = backlog \ {c}
    /\ fdOf' = [fdOf EXCEPT ![c] = fd]
    /\ openFds' = openFds \cup {fd}
    /\ session' = [session EXCEPT ![c] = "start"]
    /\ UNCHANGED <<line, awaiting, hungUp, shut, consoleStop,
                   activeFds, controlVars, mainVars>>

(* poll times out, or accept fails on the shut-down socket.                 *)
ConsolePollEmpty ==
    /\ consolePc = "poll"
    /\ consolePc' = "top"
    /\ UNCHANGED <<clientVars, kernelVars, session, consoleStop, activeFds,
                   controlVars, mainVars>>

-----------------------------------------------------------------------------
(* A session thread.                                                        *)
SGoto(c, from, to) ==
    session[c] = from /\ session' = [session EXCEPT ![c] = to]

(* The session enters its descriptor before it looks at g_consoleStop.      *)
SessionStart(c) ==
    /\ SGoto(c, "start", "loop")
    /\ activeFds' = activeFds \cup {fdOf[c]}
    /\ UNCHANGED <<clientVars, kernelVars, consolePc, consoleStop, controlVars,
                   mainVars>>

(* Faulty variant: the loop does not look at g_consoleStop.                 *)
SessionLoop_NoCheck(c) ==
    /\ SGoto(c, "loop", "read")
    /\ UNCHANGED <<clientVars, kernelVars, consoleVars, controlVars, mainVars>>

SessionLoop(c) ==
    /\ SGoto(c, "loop", IF consoleStop THEN "close" ELSE "read")
    /\ UNCHANGED <<clientVars, kernelVars, consoleVars, controlVars, mainVars>>

(* ReadLine: recv blocks until there is data, end of file or a shutdown;    *)
(* an empty or overlong line ends the session like end of file.  (An        *)
(* overlong line stays in line[c] to mark what ended the session.)          *)
ReadLine(c) ==
    /\ session[c] = "read"
    /\ \/ /\ line[c] = "command"
          /\ SGoto(c, "read", "push")
       \/ /\ line[c] \in {"empty", "long"}
          /\ SGoto(c, "read", "close")
       \/ /\ line[c] = "none" /\ (hungUp[c] \/ c \in shut)
          /\ SGoto(c, "read", "close")
    /\ line' = [line EXCEPT ![c] = IF @ = "long" THEN "long" ELSE "none"]
    /\ UNCHANGED <<awaiting, hungUp, backlog, kernelVars, consoleVars,
                   controlVars, mainVars>>

(* PushJob: does not look at g_controlStop.                                 *)
PushJob(c) ==
    /\ SGoto(c, "push", "waitdone")
    /\ queue' = Append(queue, c)
    /\ done' = done \ {c}
    /\ UNCHANGED <<clientVars, kernelVars, consoleVars, controlStop, controlPc,
                   job, published, mainVars>>

(* Wait without a deadline for Job::done.                                   *)
SessionDone(c) ==
    /\ c \in done
    /\ SGoto(c, "waitdone", "send")
    /\ UNCHANGED <<clientVars, kernelVars, consoleVars, controlVars, mainVars>>

SessionSend(c) ==
    /\ IF hungUp[c] \/ c \in shut
         THEN SGoto(c, "send", "close") /\ UNCHANGED awaiting
         ELSE /\ SGoto(c, "send", "loop")
              /\ awaiting' = [awaiting EXCEPT ![c] = FALSE]
    /\ UNCHANGED <<line, hungUp, backlog, kernelVars, consoleVars,
                   controlVars, mainVars>>

(* close(fd) comes first: from here the kernel may hand out the number.     *)
SessionClose(c) ==
    /\ SGoto(c, "close", "erase")
    /\ openFds' = openFds \ {fdOf[c]}
    /\ UNCHANGED <<clientVars, fdOf, shut, consoleVars, controlVars, mainVars>>

SessionErase(c) ==
    /\ SGoto(c, "erase", "exit")
    /\ activeFds' = activeFds \ {fdOf[c]}
    /\ UNCHANGED <<clientVars, kernelVars, consolePc, consoleStop, controlVars,
                   mainVars>>

-----------------------------------------------------------------------------
(* The control thread.                                                      *)
ControlTake ==
    /\ controlPc = "wait"
    /\ \/ /\ queue # <<>>
          /\ job' = Head(queue) /\ queue' = Tail(queue)
          /\ controlPc' = "execute"
       \/ /\ queue = <<>> /\ controlStop
          /\ controlPc' = "exit"
          /\ UNCHANGED <<job, queue>>
    /\ UNCHANGED <<clientVars, kernelVars, session, consoleVars, controlStop,
                   done, published, mainVars>>

ControlExecute ==
    /\ controlPc = "execute"
    /\ controlPc' = IF job \in Requests THEN "publish" ELSE "finish"
    /\ UNCHANGED <<clientVars, kernelVars, session, consoleVars, queue,
                   controlStop, job, done, published, mainVars>>

(* PublishCtlResp: dropped when the middleware is gone.                     *)
ControlPublish ==
    /\ controlPc = "publish"
    /\ controlPc' = "finish"
    /\ published' = IF mwUp THEN published \cup {job} ELSE published
    /\ UNCHANGED <<clientVars, kernelVars, session, consoleVars, queue,
                   controlStop, job, done, mainVars>>

ControlFinish ==
    /\ controlPc = "finish"
    /\ controlPc' = "wait"
    /\ done' = done \cup {job}
    /\ job' = NoJob
    /\ UNCHANGED <<clientVars, kernelVars, session, consoleVars, queue,
                   controlStop, published, mainVars>>

InQueue(j) == \E i \in 1..Len(queue) : queue[i] = j

(* control_submit_dds, from a middleware callback: refused after the stop.  *)
SubmitDds(r) ==
    /\ mwUp /\ ControlStarted
    /\ r \notin done /\ ~InQueue(r) /\ job # r /\ r \notin pending
    /\ ~controlStop
    /\ queue' = Append(queue, r)
    /\ UNCHANGED <<clientVars, kernelVars, session, consoleVars, controlStop,
                   controlPc, job, done, published, mainVars>>

-----------------------------------------------------------------------------
(* The main thread: control_stop, console_stop, then the middleware.        *)

(* Faulty variant: the flag is set but the waiting jobs stay in the queue   *)
(* and the control thread leaves them there.                                *)
StopControl_NoDrain ==
    /\ mainPc = "running"
    /\ mainPc' = "wakejobs"
    /\ controlStop' = TRUE
    /\ queue' = <<>>
    /\ UNCHANGED <<clientVars, kernelVars, session, consoleVars, controlPc, job,
                   done, published, pending, mwUp>>

(* Under g_qMutex: set the flag and take all waiting jobs.                  *)
StopControl ==
    /\ mainPc = "running"
    /\ mainPc' = "wakejobs"
    /\ controlStop' = TRUE
    /\ pending' = {queue[i] : i \in 1..Len(queue)}
    /\ queue' = <<>>
    /\ UNCHANGED <<clientVars, kernelVars, session, consoleVars, controlPc, job,
                   done, published, mwUp>>

(* Answer them "control stopped" and wake their sessions.                   *)
WakePending ==
    /\ mainPc = "wakejobs"
    /\ mainPc' = "joincontrol"
    /\ done' = done \cup pending
    /\ pending' = {}
    /\ UNCHANGED <<clientVars, kernelVars, session, consoleVars, queue,
                   controlStop, controlPc, job, published, mwUp>>

JoinControl ==
    /\ mainPc = "joincontrol" /\ controlPc = "exit"
    /\ mainPc' = "stopconsole"
    /\ UNCHANGED <<clientVars, kernelVars, session, consoleVars, controlVars,
                   pending, mwUp>>

(* console_stop: the flag, then the shutdown of the listening socket; a     *)
(* connection may still be accepted in between.                             *)
StopConsole ==
    /\ mainPc = "stopconsole"
    /\ mainPc' = "shutlisten"
    /\ consoleStop' = TRUE
    /\ UNCHANGED <<clientVars, kernelVars, session, consolePc, activeFds,
                   controlVars, pending, mwUp>>

ShutListen ==
    /\ mainPc = "shutlisten"
    /\ mainPc' = "joinconsole"
    /\ UNCHANGED <<clientVars, kernelVars, session, consoleVars, controlVars,
                   pending, mwUp>>

(* Connections still in the backlog are reset when the socket is closed.    *)
JoinConsole ==
    /\ mainPc = "joinconsole" /\ consolePc = "exit"
    /\ mainPc' = "shutsessions"
    /\ hungUp' = [c \in Clients |-> hungUp[c] \/ c \in backlog]
    /\ UNCHANGED <<line, awaiting, backlog, kernelVars, session,
                   consoleVars, controlVars, pending, mwUp>>

(* shutdown(fd) reaches the connection that has the number now, if any.     *)
(* The sessions are detached: none is joined.                               *)
ShutSessions ==
    /\ mainPc = "shutsessions"
    /\ mainPc' = "stopped"
    /\ shut' = shut \cup {c \in Clients :
                             /\ session[c] \notin {"none", "erase", "exit"}
                             /\ fdOf[c] \in activeFds}
    /\ UNCHANGED <<clientVars, fdOf, openFds, session, consoleVars, controlVars,
                   pending, mwUp>>

(* The rest of Process::Stop destroys the middleware.                       *)
DestroyMw ==
    /\ mainPc = "stopped" /\ mwUp
    /\ mwUp' = FALSE
    /\ UNCHANGED <<clientVars, kernelVars, session, consoleVars, controlVars,
                   mainPc, pending>>

-----------------------------------------------------------------------------
ConsoleStep == \/ ConsoleTop \/ ConsolePollEmpty
               \/ \E c \in Clients, fd \in Fds : ConsoleAccept(c, fd)

SessionStep(c) ==
    \/ SessionStart(c) \/ SessionLoop(c) \/ ReadLine(c) \/ PushJob(c)
    \/ SessionDone(c) \/ SessionSend(c) \/ SessionClose(c) \/ SessionErase(c)

ControlStep == ControlTake \/ ControlExecute \/ ControlPublish \/ ControlFinish

MainStep == \/ WakePending \/ JoinControl \/ StopConsole \/ ShutListen \/ JoinConsole
            \/ ShutSessions \/ DestroyMw

Next ==
    \/ \E c \in Clients : \/ Connect(c) \/ HangUp(c) \/ SessionStep(c)
                          \/ \E l \in Lines : SendLine(c, l)
    \/ \E r \in Requests : SubmitDds(r)
    \/ ConsoleStep \/ ControlStep \/ StopControl \/ MainStep

Spec == Init /\ [][Next]_vars

(* Threads are scheduled and a shutdown that has begun goes on.  Nothing    *)
(* obliges a client to send or hang up, or an operator to stop the process. *)
Fairness ==
    /\ WF_vars(ConsoleStep) /\ WF_vars(ControlStep) /\ WF_vars(MainStep)
    /\ \A c \in Clients : WF_vars(SessionStep(c))

FairSpec == Spec /\ Fairness

-----------------------------------------------------------------------------
(* Properties.                                                              *)

Places == {"none", "start", "loop", "read", "push", "waitdone", "send",
           "close", "erase", "exit"}

(* Every variable has its type.                                             *)
TypeOK ==
    /\ line \in [Clients -> Lines \cup {"none"}]
    /\ hungUp \in [Clients -> BOOLEAN]
    /\ awaiting \in [Clients -> BOOLEAN]
    /\ backlog \subseteq Clients
    /\ fdOf \in [Clients -> Fds \cup {NoFd}]
    /\ openFds \subseteq Fds /\ shut \subseteq Clients
    /\ session \in [Clients -> Places]
    /\ activeFds \subseteq Fds
    /\ consolePc \in {"top", "poll", "exit"} /\ consoleStop \in BOOLEAN
    /\ queue \in Seq(Clients \cup Requests) /\ controlStop \in BOOLEAN
    /\ controlPc \in {"wait", "execute", "publish", "finish", "exit"}
    /\ job \in Clients \cup Requests \cup {NoJob}
    /\ done \subseteq Clients \cup Requests
    /\ mainPc \in {"running", "wakejobs", "joincontrol", "stopconsole",
                   "shutlisten", "joinconsole", "shutsessions", "stopped"}
    /\ pending \subseteq Clients \cup Requests
    /\ mwUp \in BOOLEAN /\ published \subseteq Requests

(* Every live session is in g_activeFds, so that console_stop can shut its  *)
(* connection down.                                                         *)
ActiveFdsComplete ==
    \A c \in Clients : session[c] \in {"loop", "read", "push", "waitdone", "send"}
                          => fdOf[c] \in activeFds

(* A session that ends on an overlong line has told the client so.          *)
OverlongAnswered ==
    \A c \in Clients : session[c] = "close" /\ line[c] = "long" => ~awaiting[c]

(* A command queued while the control thread runs is answered: either       *)
(* executed, or told that control has stopped.                              *)
CommandAnswered ==
    \A c \in Clients : session[c] = "waitdone" /\ ~controlStop
                          ~> session[c] # "waitdone"

(* Process::Stop gets through control_stop and console_stop, whatever       *)
(* clients connect, hang up or wait for and wherever their sessions are,    *)
(* unless commands keep coming for ever: nothing turns them away while the  *)
(* control thread is joined, which leaves only on an empty queue.           *)
StopCompletes ==
    \/ []<><<\E c \in Clients : PushJob(c)>>_vars
    \/ mainPc = "wakejobs" ~> mainPc = "stopped"

(* The same, however many commands clients send.                            *)
StopAlwaysCompletes == mainPc = "wakejobs" ~> mainPc = "stopped"

(* Shutting down ends every session thread.                                 *)
SessionsEnd ==
    mainPc = "stopped" ~> \A c \in Clients : session[c] \in {"none", "exit"}

(* Two things, and nothing else, keep a session from ending: it queued its  *)
(* command after the control thread had left, or it is not in g_activeFds   *)
(* because another session with the same descriptor number erased it.       *)
OnlyStrandedSessions ==
    mainPc = "stopped" ~>
        \A c \in Clients :
            \/ session[c] \in {"none", "exit"}
            \/ session[c] = "waitdone" /\ controlPc = "exit" /\ InQueue(c)
            \/ session[c] = "read" /\ c \notin shut /\ fdOf[c] \notin activeFds
=============================================================================
