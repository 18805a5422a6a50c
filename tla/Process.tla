------------------------------ MODULE Process ------------------------------
(***************************************************************************)
(* One process from Run's first line to its last: the communicator, the    *)
(* worker threads, their subscriptions, console and control thread are     *)
(* assembled one by one, any of them may fail, a signal ends the wait, and *)
(* everything is taken down again in the order of Process::Stop, while     *)
(* messages arrive, workers publish and commands are executed.             *)
(*                                                                         *)
(* A worker here is the thread that Worker promises and ThreadRun          *)
(* implements, with its messages counted.  Sessions are in Console.        *)
(***************************************************************************)
EXTENDS Integers, ThreadFactory, StopSignal, CommandRegistry

CONSTANTS
    Order,           \* the workers, as Start creates and Stop ends them
    Feeds,           \* pairs <<v, w>>: v publishes to w inside the process
    Registrations,   \* the commands Start registers, in order
    Typed,           \* commands that operators send
    MaxSends,        \* bound: messages and commands from outside
    MaxFaults        \* bound: steps of the assembly that fail

Workers == {Order[i] : i \in DOMAIN Order}
Routes == Workers \cup {"control"}
Down == <<"control", "console">> \o Order

ASSUME ProcessAssumption ==
    /\ Order \in Seq(Names) /\ Order # <<>>
    /\ \A i, j \in DOMAIN Order : Order[i] = Order[j] => i = j
    /\ Realtime = Workers /\ Names = Workers \cup {"control", "console"}
    /\ {"control", "console"} \cap Workers = {}
    /\ Others \subseteq Names /\ Feeds \subseteq Workers \X Workers
    /\ MaxSends \in Nat /\ MaxFaults \in Nat

VARIABLES
    main,       \* the main thread: a place in Run, Start or Stop, and an index
    ok,         \* Start's result so far
    rc,         \* Run's result, -1 until it is known
    asked,      \* m_stop of each worker, g_controlStop, g_consoleStop
    mw,         \* g_mw is set
    comm,       \* the communicator: none, up, bad (no transport), freed
    subs,       \* each route's Subscription: none, live, freed
    faults,     \* failures so far
    box,        \* number of messages in each worker's mailbox
    hand,       \* each worker: free, busy with a message, leaving its loop
    pub,        \* each publisher: no, checked (DtsMw() # nullptr), using it
    callback,   \* routes with a receive callback running
    queue,      \* g_queue: commands, each with its origin
    job,        \* the control thread's job, if any
    stage,      \* the control thread: wait, find, call, respond
    sends       \* messages and commands so far

assemblyVars == <<main, ok, rc, asked, mw, comm, subs, faults>>
trafficVars == <<box, hand, pub, callback, queue, job, stage, sends>>
vars == <<factoryVars, signalVars, registryVars, assemblyVars, trafficVars>>

Init ==
    /\ FactoryInit /\ SignalInit /\ RegistryInit
    /\ main = <<"begin", 1>> /\ ok = TRUE /\ rc = -1
    /\ asked = [n \in Names |-> FALSE]
    /\ mw = FALSE /\ comm = "none" /\ faults = 0
    /\ subs = [r \in Routes |-> "none"]
    /\ box = [w \in Workers |-> 0] /\ hand = [w \in Workers |-> "free"]
    /\ pub = [r \in Routes |-> "no"] /\ callback = {}
    /\ queue = <<>> /\ job = <<>> /\ stage = "wait" /\ sends = 0

-----------------------------------------------------------------------------
(* Run and Start.                                                           *)
At(p) == main[1] = p /\ MainRuns
Goto(p) == main' = <<p, 1>>
NextOr(p, i, n, q) == main' = IF i < n THEN <<p, i + 1>> ELSE <<q, 1>>

Fault == faults < MaxFaults /\ faults' = faults + 1

Begin ==
    /\ At("begin")
    /\ \/ rc' = 1 /\ Goto("exited") /\ UNCHANGED <<mw, comm>>      \* no configuration
       \/ rc' = 2 /\ Goto("ask") /\ comm' = "bad" /\ UNCHANGED mw
       \/ comm' = "up" /\ mw' = TRUE /\ Goto("domain") /\ UNCHANGED rc
    /\ UNCHANGED <<factoryVars, signalVars, registryVars, trafficVars,
                   ok, asked, subs, faults>>

DeclareBusiness ==
    /\ At("domain") /\ Goto("spawn")
    /\ DeclareDomain("DTS")
    /\ UNCHANGED <<signalVars, registryVars, trafficVars,
                   ok, rc, asked, mw, comm, subs, faults>>

(* Faulty variant: the last worker's result replaces the earlier ones.      *)
StartWorker_Forgets ==
    LET i == main[2]
        w == Order[i]
    IN  /\ At("spawn")
        /\ \/ CreateThread(w) /\ main' = <<"enlist", i>> /\ ok' = TRUE /\ UNCHANGED faults
           \/ /\ CreateFails(w) /\ ok' = FALSE
              /\ (Refused(w) /\ UNCHANGED faults) \/ Fault
              /\ NextOr("spawn", i, Len(Order), "subscribe")
        /\ UNCHANGED <<signalVars, registryVars, trafficVars,
                       rc, asked, mw, comm, subs>>

StartWorker ==
    LET i == main[2]
        w == Order[i]
    IN  /\ At("spawn")
        /\ \/ CreateThread(w) /\ main' = <<"enlist", i>> /\ UNCHANGED <<ok, faults>>
           \/ /\ CreateFails(w) /\ ok' = FALSE
              /\ (Refused(w) /\ UNCHANGED faults) \/ Fault
              /\ NextOr("spawn", i, Len(Order), "subscribe")
        /\ UNCHANGED <<signalVars, registryVars, trafficVars,
                       rc, asked, mw, comm, subs>>

EnlistWorker ==
    LET i == main[2]
    IN  /\ At("enlist") /\ Enlist(Order[i])
        /\ NextOr("spawn", i, Len(Order), "subscribe")
        /\ UNCHANGED <<signalVars, registryVars, trafficVars,
                       ok, rc, asked, mw, comm, subs, faults>>

(* subscribe: with a failure the Subscription is deleted at once, and the   *)
(* process goes on without the route.                                       *)
Subscribe(r) ==
    \/ subs' = [subs EXCEPT ![r] = "live"] /\ UNCHANGED faults
    \/ Fault /\ UNCHANGED subs

RegisterSubRoutes ==
    LET i == main[2]
    IN  /\ At("subscribe") /\ Subscribe(Order[i])
        /\ NextOr("subscribe", i, Len(Order), "console")
        /\ UNCHANGED <<factoryVars, signalVars, registryVars, trafficVars,
                       ok, rc, asked, mw, comm>>

(* console_start: a socket that cannot be had leaves the process without.   *)
ConsoleStart ==
    /\ At("console")
    /\ \/ /\ DeclareDomain("BKG") /\ Goto("console create")
          /\ asked' = [asked EXCEPT !["console"] = FALSE] /\ UNCHANGED faults
       \/ Fault /\ Goto("control") /\ UNCHANGED <<factoryVars, asked>>
    /\ UNCHANGED <<signalVars, registryVars, trafficVars, ok, rc, mw, comm, subs>>

ControlStart ==
    /\ At("control") /\ RegisterBuiltins
    /\ DeclareDomain("BKG") /\ Goto("control create")
    /\ asked' = [asked EXCEPT !["control"] = FALSE]
    /\ UNCHANGED <<signalVars, trafficVars, ok, rc, mw, comm, subs, faults>>

CreateService(n, from, listing, without) ==
    /\ At(from)
    /\ \/ CreateThread(n) /\ Goto(listing) /\ UNCHANGED faults
       \/ CreateFails(n) /\ Fault /\ Goto(without)
    /\ UNCHANGED <<signalVars, registryVars, trafficVars, ok, rc, asked, mw, comm, subs>>

EnlistService(n, from, to) ==
    /\ At(from) /\ Enlist(n) /\ Goto(to)
    /\ UNCHANGED <<signalVars, registryVars, trafficVars,
                   ok, rc, asked, mw, comm, subs, faults>>

StartServices ==
    \/ ConsoleStart
    \/ CreateService("console", "console create", "console enlist", "control")
    \/ EnlistService("console", "console enlist", "control")
    \/ ControlStart
    \/ CreateService("control", "control create", "control enlist", "commands")
    \/ EnlistService("control", "control enlist", "control subscribe")

RegisterCtlRoutes ==
    /\ At("control subscribe") /\ Subscribe("control") /\ Goto("commands")
    /\ UNCHANGED <<factoryVars, signalVars, registryVars, trafficVars,
                   ok, rc, asked, mw, comm>>

RegisterCommands ==
    LET i == main[2]
    IN  /\ At("commands") /\ Register(Registrations[i])
        /\ NextOr("commands", i, Len(Registrations), "verdict")
        /\ UNCHANGED <<factoryVars, signalVars, trafficVars,
                       ok, rc, asked, mw, comm, subs, faults>>

Verdict ==
    /\ At("verdict")
    /\ \/ ok /\ Goto("wait") /\ UNCHANGED rc
       \/ ~ok /\ Goto("ask") /\ rc' = 3
    /\ UNCHANGED <<factoryVars, signalVars, registryVars, trafficVars,
                   ok, asked, mw, comm, subs, faults>>

WaitStop ==
    /\ main[1] = "wait"
    /\ \/ WaitStep /\ UNCHANGED <<main, rc>>
       \/ /\ MainRuns /\ waiter = "returned"
          /\ Goto("ask") /\ rc' = 0 /\ UNCHANGED signalVars
    /\ UNCHANGED <<factoryVars, registryVars, trafficVars,
                   ok, asked, mw, comm, subs, faults>>

Start ==
    \/ Begin \/ DeclareBusiness \/ StartWorker \/ EnlistWorker \/ RegisterSubRoutes
    \/ StartServices \/ RegisterCtlRoutes \/ RegisterCommands \/ Verdict

-----------------------------------------------------------------------------
(* Process::Stop: control, console and the workers one after the other,     *)
(* each asked, taken out of the registry and joined.                        *)
HasHandle(n) == thread[n] \in {"running", "returned"}

NextDown(i) == NextOr("ask", i, Len(Down), "unset")

(* Faulty variant: the workers are not stopped.                             *)
AskDown_NoWorkers ==
    LET i == main[2]
        n == Down[i]
    IN  /\ At("ask")
        /\ asked' = [asked EXCEPT ![n] = n \notin Workers]
        /\ queue' = IF n = "control" THEN <<>> ELSE queue
        /\ IF HasHandle(n) /\ n \notin Workers THEN main' = <<"erase", i>> ELSE NextDown(i)
        /\ UNCHANGED <<factoryVars, signalVars, registryVars, ok, rc, mw, comm, subs,
                       faults, box, hand, pub, callback, job, stage, sends>>

(* control_stop answers what is queued; a worker without a handle is        *)
(* skipped, and a flag without a thread is read by nobody.                  *)
AskDown ==
    LET i == main[2]
        n == Down[i]
    IN  /\ At("ask")
        /\ asked' = [asked EXCEPT ![n] = n \in Workers => HasHandle(n)]
        /\ queue' = IF n = "control" THEN <<>> ELSE queue
        /\ IF HasHandle(n) THEN main' = <<"erase", i>> ELSE NextDown(i)
        /\ UNCHANGED <<factoryVars, signalVars, registryVars, ok, rc, mw, comm, subs,
                       faults, box, hand, pub, callback, job, stage, sends>>

EraseDown ==
    LET i == main[2]
    IN  /\ At("erase") /\ Erase(Down[i]) /\ main' = <<"join", i>>
        /\ UNCHANGED <<signalVars, registryVars, trafficVars,
                       ok, rc, asked, mw, comm, subs, faults>>

JoinDown ==
    LET i == main[2]
    IN  /\ At("join") /\ Join(Down[i]) /\ NextDown(i)
        /\ UNCHANGED <<signalVars, registryVars, trafficVars,
                       ok, rc, asked, mw, comm, subs, faults>>

UnsetMw ==
    /\ At("unset") /\ Goto("free")
    /\ mw' = FALSE
    /\ UNCHANGED <<factoryVars, signalVars, registryVars, trafficVars,
                   ok, rc, asked, comm, subs, faults>>

(* comm.reset(): the transport and its listeners are deleted.  DDS refuses  *)
(* to delete a participant that still has its publisher, its subscriber and *)
(* their readers, and nobody looks at the result: the receive threads run   *)
(* on, whatever callback they are in.                                       *)
FreeComm ==
    /\ At("free") /\ Goto("clear")
    /\ comm' = "freed"
    /\ UNCHANGED <<factoryVars, signalVars, registryVars, trafficVars,
                   ok, rc, asked, mw, subs, faults>>

ClearSubs ==
    /\ At("clear") /\ Goto("exited")
    /\ subs' = [r \in Routes |-> IF subs[r] = "live" THEN "freed" ELSE subs[r]]
    /\ UNCHANGED <<factoryVars, signalVars, registryVars, trafficVars,
                   ok, rc, asked, mw, comm, faults>>

Stop == AskDown \/ EraseDown \/ JoinDown \/ UnsetMw \/ FreeComm \/ ClearSubs

-----------------------------------------------------------------------------
(* The threads that run beside main.                                        *)
Free(n) == thread[n] = "running" /\ (n \in Others => frames[n] = <<>>)

(* A receive callback: a receive thread calls the route's listener, which   *)
(* passes it the Subscription; a reader is never deleted.                   *)
RouteBegin(r) ==
    /\ comm \in {"up", "freed"} /\ subs[r] # "none" /\ r \notin callback
    /\ sends < MaxSends /\ sends' = sends + 1
    /\ callback' = callback \cup {r}
    /\ UNCHANGED <<factoryVars, signalVars, registryVars, assemblyVars,
                   box, hand, pub, queue, job, stage>>

(* OnRouteMsg, or OnRouteCtl with control_submit_dds.                       *)
RouteEnd(r) ==
    /\ r \in callback /\ callback' = callback \ {r}
    /\ box' = IF r \in Workers THEN [box EXCEPT ![r] = @ + 1] ELSE box
    /\ IF r = "control" /\ ~asked[r]
       THEN \E c \in Typed : queue' = Append(queue, [cmd |-> c, dds |-> TRUE])
       ELSE UNCHANGED queue
    /\ UNCHANGED <<factoryVars, signalVars, registryVars, assemblyVars,
                   hand, pub, job, stage, sends>>

(* PushJob: a session passes on a line.  Sessions are detached: they may    *)
(* outlive the console thread, and g_controlStop does not hold them up.     *)
SubmitLine(c) ==
    /\ thread["console"] # "none" /\ main[1] # "exited"
    /\ sends < MaxSends /\ sends' = sends + 1
    /\ queue' = Append(queue, [cmd |-> c, dds |-> FALSE])
    /\ UNCHANGED <<factoryVars, signalVars, registryVars, assemblyVars,
                   box, hand, pub, callback, job, stage>>

(* DtsMw() is loaded, tested, loaded again and used.                        *)
CheckMw(x) == pub[x] = "no" /\ mw /\ pub' = [pub EXCEPT ![x] = "checked"]
UseMw(x) == pub[x] = "checked" /\ pub' = [pub EXCEPT ![x] = "using"]
Published(x) == pub[x] = "using" /\ pub' = [pub EXCEPT ![x] = "no"]

WorkerTakes(w) ==
    /\ Free(w) /\ hand[w] = "free" /\ box[w] > 0
    /\ hand' = [hand EXCEPT ![w] = "busy"] /\ box' = [box EXCEPT ![w] = @ - 1]
    /\ UNCHANGED <<factoryVars, signalVars, registryVars, assemblyVars,
                   pub, callback, queue, job, stage, sends>>

WorkerPublishes(w) ==
    /\ Free(w) /\ hand[w] = "busy"
    /\ CheckMw(w) \/ UseMw(w)
    /\ UNCHANGED <<factoryVars, signalVars, registryVars, assemblyVars,
                   box, hand, callback, queue, job, stage, sends>>

(* The message is done; what went to a thread of this process is in its     *)
(* mailbox if the route was subscribed.                                     *)
WorkerFinishes(w) ==
    /\ Free(w) /\ hand[w] = "busy"
    /\ hand' = [hand EXCEPT ![w] = IF asked[w] THEN "leaving" ELSE "free"]
    /\ \/ pub[w] = "no" /\ UNCHANGED <<box, pub>>
       \/ /\ Published(w)
          /\ box' = [v \in Workers |->
                        IF <<w, v>> \in Feeds /\ subs[v] = "live" THEN box[v] + 1 ELSE box[v]]
    /\ UNCHANGED <<factoryVars, signalVars, registryVars, assemblyVars,
                   callback, queue, job, stage, sends>>

ControlTakes ==
    /\ Free("control") /\ stage = "wait" /\ queue # <<>>
    /\ job' = <<Head(queue)>> /\ queue' = Tail(queue) /\ stage' = "find"
    /\ UNCHANGED <<factoryVars, signalVars, registryVars, assemblyVars,
                   box, hand, pub, callback, sends>>

(* Execute.                                                                 *)
ControlExecutes ==
    /\ Free("control")
    /\ \/ /\ stage = "find" /\ Find(job[1].cmd)
          /\ stage' = IF Registered(job[1].cmd) THEN "call" ELSE "respond"
       \/ stage = "call" /\ CallFound /\ stage' = "respond"
    /\ UNCHANGED <<factoryVars, signalVars, assemblyVars,
                   box, hand, pub, callback, queue, job, sends>>

(* The session is notified, or PublishCtlResp.                              *)
ControlResponds ==
    /\ Free("control") /\ stage = "respond"
    /\ \/ /\ job[1].dds /\ (CheckMw("control") \/ UseMw("control"))
          /\ UNCHANGED <<job, stage>>
       \/ /\ job' = <<>> /\ stage' = "wait"
          /\ \/ job[1].dds /\ Published("control")
             \/ (job[1].dds => ~mw /\ pub["control"] = "no") /\ UNCHANGED pub
    /\ UNCHANGED <<factoryVars, signalVars, registryVars, assemblyVars,
                   box, hand, callback, queue, sends>>

MayReturn(n) ==
    CASE n \in Workers   -> hand[n] = "leaving" \/ (asked[n] /\ hand[n] = "free")
      [] n = "control"   -> asked[n] /\ stage = "wait" /\ queue = <<>>
      [] OTHER           -> asked[n]

ThreadEnds(n) ==
    /\ Free(n) /\ MayReturn(n) /\ ThreadReturns(n)
    /\ UNCHANGED <<signalVars, registryVars, assemblyVars, trafficVars>>

ThreadStep(n) ==
    \/ ThreadEnds(n)
    \/ n \in Workers /\ (WorkerTakes(n) \/ WorkerPublishes(n) \/ WorkerFinishes(n))
    \/ n = "control" /\ (ControlTakes \/ ControlExecutes \/ ControlResponds)

-----------------------------------------------------------------------------
(* A signal interrupts the main thread or a worker.                         *)
Interrupt(s, t) ==
    /\ IF t = Main THEN main[1] # "exited" ELSE thread[t] = "running"
    /\ Raise(s, t)
    /\ UNCHANGED <<factoryVars, registryVars, assemblyVars, trafficVars>>

OnSignal(s) ==
    /\ HandlerStep(s)
    /\ UNCHANGED <<factoryVars, registryVars, assemblyVars, trafficVars>>

MainStep == Start \/ WaitStop \/ Stop

Next ==
    \/ MainStep
    \/ \E n \in Names : ThreadStep(n)
    \/ \E c \in Typed : SubmitLine(c)
    \/ \E r \in Routes : RouteBegin(r) \/ RouteEnd(r)
    \/ \E s \in Signals : OnSignal(s) \/ \E t \in Hosts : Interrupt(s, t)

(* The kernel runs every thread that can run, and every handler.            *)
Fairness ==
    /\ WF_vars(MainStep)
    /\ \A n \in Names : WF_vars(ThreadStep(n))
    /\ \A r \in Routes : WF_vars(RouteEnd(r))
    /\ \A s \in Signals : WF_vars(OnSignal(s))

Spec == Init /\ [][Next]_vars
FairSpec == Spec /\ Fairness

-----------------------------------------------------------------------------
(* Every variable has its type.                                             *)
ProcessTypeOK ==
    /\ FactoryTypeOK /\ SignalTypeOK
    /\ ok \in BOOLEAN /\ rc \in -1..3 /\ mw \in BOOLEAN
    /\ asked \in [Names -> BOOLEAN]
    /\ comm \in {"none", "up", "bad", "freed"}
    /\ subs \in [Routes -> {"none", "live", "freed"}]
    /\ box \in [Workers -> Nat] /\ hand \in [Workers -> {"free", "busy", "leaving"}]
    /\ pub \in [Routes -> {"no", "checked", "using"}] /\ callback \subseteq Routes
    /\ stage \in {"wait", "find", "call", "respond"}

(* Whatever fails and whenever the process stops: a worker that borrows a   *)
(* subscription's session name uses a live subscription, and get_threads    *)
(* finds only allocated handles (Process::Stop, DestroyThread).             *)
ThreadsUseLive ==
    /\ \A w \in Workers : hand[w] = "busy" => subs[w] = "live"
    /\ RegistryLive

(* What run.cpp:237 takes for granted: when Stop frees the listeners and    *)
(* clears the subscriptions, the callbacks that use them have ended.        *)
CallbacksUseLive == \A r \in callback : comm = "up" /\ subs[r] = "live"

(* A thread that has seen a middleware, or is inside a publish, still has   *)
(* one: neither g_mw nor the communicator goes away under it.               *)
MwUsedAlive == \A x \in Routes : pub[x] # "no" => mw /\ comm = "up"

(* A process that reports itself up has all its workers, with their         *)
(* real-time policy when it insists on it; one that gives up lacks a worker *)
(* or the transport: console and control thread are optional.               *)
UpMeansComplete ==
    /\ main[1] = "wait" => \A w \in Workers :
           /\ thread[w] = "running" /\ w \in registry
           /\ strict => policy[w] = "RR"
    /\ rc = 3 => \E w \in Workers : thread[w] = "none"

(* After a signal the run ends with every thread joined and everything      *)
(* freed, at whatever step of the assembly or of the wait the signal comes, *)
(* unless its handler waits for a mutex of the very thread it interrupted.  *)
(* The commands that clients send are finitely many (MaxSends): the join of *)
(* the control thread waits for those that come during the stop too.        *)
Clean ==
    /\ main[1] = "exited" /\ registry = {} /\ comm \in {"none", "freed"}
    /\ \A n \in Names : thread[n] \in {"none", "freed"}
    /\ \A r \in Routes : subs[r] # "live"
SignalEndsRun == \A s \in Signals : handler[s] # "none" ~> Clean \/ SelfLocked

(* What run.cpp:43 says of Request: any thread may call it.                 *)
SignalAlwaysEndsRun == \A s \in Signals : handler[s] # "none" ~> Clean
=============================================================================
