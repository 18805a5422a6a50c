--------------------------- MODULE ProcessProofs ---------------------------
(***************************************************************************)
(* Theorems about the life of a process, for every number of workers and   *)
(* commands, whatever fails in the assembly and whenever a signal ends the *)
(* run: no thread uses what was freed, no publisher loses its middleware,  *)
(* a process that says it is up is complete, and no stop signal is slept   *)
(* through.  Receive callbacks are no threads of the process: they may     *)
(* outlive their listeners (Process!CallbacksUseLive).                     *)
(***************************************************************************)
EXTENDS Process, TLAPS

(* Threads that are not there yet, or no more.                              *)
Over == {n \in Names : thread[n] \in {"none", "freed"}}

(* The variables that the invariants below look into.                       *)
ShapesOK ==
    /\ registry \subseteq Names /\ callback \subseteq Routes
    /\ thread \in [Names -> {"none", "running", "returned", "freed"}]
    /\ policy \in [Names -> {"none", "RR", "OTHER"}]
    /\ asked \in [Names -> BOOLEAN]
    /\ subs \in [Routes -> {"none", "live", "freed"}]
    /\ box \in [Workers -> Nat] /\ hand \in [Workers -> {"free", "busy", "leaving"}]
    /\ pub \in [Routes -> {"no", "checked", "using"}]

(* Stop has ended the threads it has come past, and all of them before it   *)
(* touches the middleware; a handle is out of the registry when it is       *)
(* deleted, and in it only while it is allocated.                           *)
TeardownOK ==
    /\ main[1] \in {"ask", "erase", "join"} =>
           main[2] \in 1..Len(Down) /\ \A j \in 1..main[2] - 1 : Down[j] \in Over
    /\ main[1] = "join" => Down[main[2]] \notin registry
    /\ main[1] \in {"unset", "free", "clear"} => Names \subseteq Over
    /\ main[1] \in {"spawn", "enlist"} => main[2] \in 1..Len(Order)
    /\ main[1] = "enlist" => Order[main[2]] \notin Over
    /\ main[1] = "console enlist" => "console" \notin Over
    /\ main[1] = "control enlist" => "control" \notin Over
    /\ registry \cap Over = {}

(* Whoever publishes is a thread in the middle of its work; the middleware  *)
(* goes only when there is none.                                            *)
MiddlewareOK ==
    /\ mw => comm = "up"
    /\ main[1] \in {"begin", "free", "clear", "exited"} => ~mw
    /\ \A x \in Routes : pub[x] # "no" => mw /\ thread[x] = "running"
    /\ \A w \in Workers : pub[w] # "no" => hand[w] = "busy"
    /\ pub["control"] # "no" => stage = "respond" /\ job[1].dds

(* Messages come over routes that were subscribed; the subscriptions are    *)
(* cleared when no thread is left.                                          *)
TrafficOK ==
    /\ \A r \in callback : subs[r] # "none"
    /\ \A w \in Workers : box[w] > 0 => subs[w] # "none"
    /\ \A w \in Workers : hand[w] = "busy" => thread[w] = "running" /\ subs[w] = "live"
    /\ \A r \in Routes : subs[r] = "freed" => main[1] = "exited" /\ Names \subseteq Over

Early == {"begin", "domain", "spawn", "enlist"}
Stopping == {"ask", "erase", "join", "unset", "free", "clear", "exited"}

Made == {w \in Workers : thread[w] = "running" /\ (strict => policy[w] = "RR")}
Complete == Made \cap registry
Lacking == {w \in Workers : thread[w] = "none"}

(* ok says whether all the workers so far are complete; nobody asks one to  *)
(* leave before Stop begins.                                                *)
AssemblyOK ==
    /\ \A w \in Workers : asked[w] \/ hand[w] = "leaving" => main[1] \in Stopping
    /\ main[1] \in {"begin", "domain"} => ok
    /\ main[1] \in {"spawn", "enlist"} =>
           /\ ok => \A j \in 1..main[2] - 1 : Order[j] \in Complete
           /\ ~ok => \E j \in 1..main[2] - 1 : Order[j] \in Lacking
    /\ main[1] = "enlist" => Order[main[2]] \in Made
    /\ ok /\ main[1] \notin Early \cup Stopping => Workers \subseteq Complete
    /\ ~ok /\ main[1] \notin Early => Lacking # {}
    /\ main[1] = "wait" => ok
    /\ rc = 3 => ~ok /\ main[1] \in Stopping

-----------------------------------------------------------------------------
LEMMA DownNames ==
  /\ Len(Down) = Len(Order) + 2 /\ Len(Order) \in Nat \ {0}
  /\ \A j \in 1..Len(Down) : Down[j] \in Names
  /\ \A n \in Names : \E j \in 1..Len(Down) : Down[j] = n
  /\ \A i \in 1..Len(Order) : Order[i] \in Workers
  /\ \A w \in Workers : \E i \in 1..Len(Order) : Order[i] = w
  /\ Workers \subseteq Names
  <1>1. /\ Order \in Seq(Names) /\ Order # <<>> /\ Names = Workers \cup {"control", "console"}
    BY ProcessAssumption
  <1>2. <<"control", "console">> \in Seq(Names) /\ Len(<<"control", "console">>) = 2
    BY <1>1
  <1>3. /\ Len(Down) = Len(Order) + 2 /\ Len(Order) \in Nat \ {0}
        /\ Down[1] = "control" /\ Down[2] = "console"
        /\ \A i \in 1..Len(Order) : Down[i + 2] = Order[i]
    BY <1>1, <1>2 DEF Down
  <1>4. /\ \A i \in 1..Len(Order) : Order[i] \in Workers
        /\ \A w \in Workers : \E i \in 1..Len(Order) : Order[i] = w
    BY <1>1 DEF Workers
  <1>5. ASSUME NEW j \in 1..Len(Down) PROVE Down[j] \in Names
    <2>1. j = 1 \/ j = 2 \/ (j - 2 \in 1..Len(Order) /\ j = (j - 2) + 2)
      BY <1>3
    <2> QED
      BY <1>1, <1>3, <1>4, <2>1
  <1>6. ASSUME NEW n \in Names PROVE \E j \in 1..Len(Down) : Down[j] = n
    <2>1. CASE n \in Workers
      <3>1. PICK i \in 1..Len(Order) : Order[i] = n
        BY <1>4, <2>1
      <3>2. i + 2 \in 1..Len(Down) /\ Down[i + 2] = n
        BY <1>3, <3>1
      <3> QED
        BY <3>2
    <2>2. CASE n \in {"control", "console"}
      BY <1>3, <2>2
    <2> QED
      BY <1>1, <2>1, <2>2
  <1> QED
    BY <1>1, <1>3, <1>4, <1>5, <1>6

(* The mailboxes after w has published inside the process.                  *)
Fed(w) ==
    [v \in Workers |-> IF <<w, v>> \in Feeds /\ subs[v] = "live" THEN box[v] + 1 ELSE box[v]]

LEMMA BoxesFill ==
  ASSUME box \in [Workers -> Nat], NEW r
  PROVE  [box EXCEPT ![r] = box[r] + 1] \in [Workers -> Nat] /\ Fed(r) \in [Workers -> Nat]
  <1>1. ASSUME NEW v \in Workers PROVE box[v] \in Nat /\ box[v] + 1 \in Nat
    OBVIOUS
  <1>2. [box EXCEPT ![r] = box[r] + 1]
            = [v \in Workers |-> IF v = r THEN box[v] + 1 ELSE box[v]]
    OBVIOUS
  <1> QED
    BY <1>1, <1>2 DEF Fed

LEMMA InitShapes == Init => ShapesOK
  BY DEF Init, FactoryInit, ShapesOK

LEMMA StepShapes == ShapesOK /\ TeardownOK /\ [Next]_vars => ShapesOK'
  <1> SUFFICES ASSUME ShapesOK, TeardownOK, [Next]_vars PROVE ShapesOK'
    OBVIOUS
  <1>0. Workers \subseteq Routes /\ "control" \in Routes
    BY DEF Routes
  <1> USE DownNames, ProcessAssumption DEF ShapesOK, factoryVars, environment, trafficVars
  <1>1. CASE Begin \/ DeclareBusiness \/ Verdict \/ WaitStop
    BY <1>1 DEF Begin, DeclareBusiness, DeclareDomain, Verdict, WaitStop
  <1>2. CASE StartWorker \/ EnlistWorker
    <2>1. CASE StartWorker
      BY <2>1 DEF StartWorker, CreateThread, CreateFails
    <2>2. CASE EnlistWorker
      BY <2>2 DEF EnlistWorker, Enlist, At, TeardownOK
    <2> QED
      BY <1>2, <2>1, <2>2
  <1>3. CASE RegisterSubRoutes \/ RegisterCtlRoutes \/ RegisterCommands
    <2>1. CASE RegisterSubRoutes
      BY <2>1 DEF RegisterSubRoutes, Subscribe
    <2>2. CASE RegisterCtlRoutes
      BY <2>2 DEF RegisterCtlRoutes, Subscribe
    <2>3. CASE RegisterCommands
      BY <2>3 DEF RegisterCommands
    <2> QED
      BY <1>3, <2>1, <2>2, <2>3
  <1>4. CASE StartServices
    <2>1. CASE ConsoleStart
      <3>1. asked' = asked \/ asked' = [asked EXCEPT !["console"] = FALSE]
        BY <2>1 DEF ConsoleStart
      <3>2. UNCHANGED <<registry, thread, policy, subs, callback, box, hand, pub>>
        BY <2>1 DEF ConsoleStart, DeclareDomain
      <3> QED
        BY <3>1, <3>2
    <2>2. CASE ControlStart
      <3>1. asked' = [asked EXCEPT !["control"] = FALSE]
        BY <2>2 DEF ControlStart
      <3>2. UNCHANGED <<registry, thread, policy, subs, callback, box, hand, pub>>
        BY <2>2 DEF ControlStart, DeclareDomain
      <3> QED
        BY <3>1, <3>2
    <2>3. ASSUME NEW n \in {"control", "console"}, NEW p, NEW q, NEW r, CreateService(n, p, q, r)
          PROVE  ShapesOK'
      <3>1. CASE CreateThread(n)
        BY <2>3, <3>1 DEF CreateService, CreateThread
      <3>2. CASE CreateFails(n)
        BY <2>3, <3>2 DEF CreateService, CreateFails
      <3> QED
        BY <2>3, <3>1, <3>2 DEF CreateService
    <2>4. ASSUME NEW n \in {"control", "console"}, NEW p, NEW q, EnlistService(n, p, q)
          PROVE  ShapesOK'
      BY <2>4 DEF EnlistService, Enlist
    <2> QED
      BY <1>4, <2>1, <2>2, <2>3, <2>4 DEF StartServices
  <1>5. CASE Stop
    <2>1. CASE AskDown
      <3>1. /\ UNCHANGED <<registry, callback, thread, policy, subs, box, hand, pub>>
            /\ asked' = [asked EXCEPT ![Down[main[2]]] =
                            Down[main[2]] \in Workers => HasHandle(Down[main[2]])]
        BY <2>1 DEF AskDown
      <3> QED
        BY <3>1
    <2>2. CASE EraseDown \/ JoinDown
      BY <2>2 DEF EraseDown, JoinDown, Erase, Join
    <2>3. CASE UnsetMw \/ FreeComm \/ ClearSubs
      BY <2>3 DEF UnsetMw, FreeComm, ClearSubs
    <2> QED
      BY <1>5, <2>1, <2>2, <2>3 DEF Stop
  <1>6. ASSUME NEW n \in Names, ThreadStep(n) PROVE ShapesOK'
    <2>1. CASE ThreadEnds(n)
      BY <2>1 DEF ThreadEnds, ThreadReturns, assemblyVars
    <2>2. CASE n \in Workers /\ (WorkerTakes(n) \/ WorkerPublishes(n) \/ WorkerFinishes(n))
      <3>1. CASE WorkerTakes(n)
        BY <2>2, <3>1 DEF WorkerTakes, assemblyVars
      <3>2. CASE WorkerPublishes(n)
        <4>1. pub' = [pub EXCEPT ![n] = "checked"] \/ pub' = [pub EXCEPT ![n] = "using"]
          BY <3>2 DEF WorkerPublishes, CheckMw, UseMw
        <4>2. pub' \in [Routes -> {"no", "checked", "using"}]
          <5>1. pub \in [Routes -> {"no", "checked", "using"}] /\ n \in Routes
            BY <1>0, <2>2
          <5> QED
            BY ONLY <4>1, <5>1
        <4> QED
          BY <3>2, <4>2 DEF WorkerPublishes, assemblyVars
      <3>3. CASE WorkerFinishes(n)
        <4>1. pub' = pub \/ pub' = [pub EXCEPT ![n] = "no"]
          BY <3>3 DEF WorkerFinishes, Published
        <4>2. pub' \in [Routes -> {"no", "checked", "using"}]
          <5>1. pub \in [Routes -> {"no", "checked", "using"}] /\ n \in Routes
            BY <1>0, <2>2
          <5> QED
            BY ONLY <4>1, <5>1
        <4>3. box' \in [Workers -> Nat]
          <5>1. box' = box \/ box' = Fed(n)
            BY <3>3 DEF WorkerFinishes, Fed
          <5> QED
            BY <5>1, BoxesFill
        <4> QED
          BY <3>3, <4>2, <4>3 DEF WorkerFinishes, assemblyVars
      <3> QED
        BY <2>2, <3>1, <3>2, <3>3
    <2>3. CASE ControlTakes \/ ControlExecutes \/ ControlResponds
      BY <2>3 DEF ControlTakes, ControlExecutes, ControlResponds, CheckMw, UseMw, Published,
                  assemblyVars, Routes
    <2> QED
      BY <1>6, <2>1, <2>2, <2>3 DEF ThreadStep
  <1>7. ASSUME NEW r \in Routes, RouteBegin(r) \/ RouteEnd(r) PROVE ShapesOK'
    <2>1. box' = box \/ box' = [box EXCEPT ![r] = box[r] + 1]
      BY <1>7 DEF RouteBegin, RouteEnd
    <2>2. box' \in [Workers -> Nat]
      <3> DEFINE filled == [box EXCEPT ![r] = box[r] + 1]
      <3>1. filled \in [Workers -> Nat]
        BY BoxesFill
      <3>2. box' = box \/ box' = filled
        BY <2>1
      <3> HIDE DEF filled
      <3> QED
        BY <3>1, <3>2
    <2> QED
      BY <1>7, <2>2 DEF RouteBegin, RouteEnd, assemblyVars
  <1>8. ASSUME NEW c \in Typed, SubmitLine(c) PROVE ShapesOK'
    BY <1>8 DEF SubmitLine, assemblyVars
  <1>9. ASSUME NEW s, NEW t, OnSignal(s) \/ Interrupt(s, t) PROVE ShapesOK'
    BY <1>9 DEF OnSignal, Interrupt, assemblyVars
  <1>10. CASE UNCHANGED vars
    BY <1>10 DEF vars, assemblyVars
  <1> QED
    BY <1>1, <1>2, <1>3, <1>4, <1>5, <1>6, <1>7, <1>8, <1>9, <1>10 DEF Next, MainStep, Start

-----------------------------------------------------------------------------
LEMMA InitTeardown == Init => TeardownOK
  BY DEF Init, FactoryInit, TeardownOK

(* Steps that end no thread, make none and leave main where it is.          *)
LEMMA TeardownStays ==
  ASSUME TeardownOK, UNCHANGED <<main, registry>>, Over' = Over
  PROVE  TeardownOK'
  BY DEF TeardownOK

LEMMA NextPlace ==
  ASSUME NEW p, NEW q, NEW i \in Int, NEW n \in Int, NextOr(p, i, n, q)
  PROVE  \/ i < n /\ main'[1] = p /\ main'[2] = i + 1
         \/ i >= n /\ main'[1] = q /\ main'[2] = 1
  BY DEF NextOr

LEMMA Kinds ==
  /\ \A p : Goto(p) => main'[1] = p
  /\ \A p, q, i, n : NextOr(p, i, n, q) => main'[1] \in {p, q}
  BY DEF Goto, NextOr

LEMMA AllOver ==
  ASSUME NEW S, \A j \in 1..Len(Down) : Down[j] \in S
  PROVE  Names \subseteq S
  BY DownNames

LEMMA SameOver == UNCHANGED thread => Over' = Over
  BY DEF Over

(* A step of main to a place without an obligation, or with one it meets.   *)
LEMMA StepTeardown == ShapesOK /\ TeardownOK /\ [Next]_vars => TeardownOK'
  <1> SUFFICES ASSUME ShapesOK, TeardownOK, [Next]_vars PROVE TeardownOK'
    OBVIOUS
  <1>a. /\ thread \in [Names -> {"none", "running", "returned", "freed"}]
        /\ registry \subseteq Names /\ {"control", "console"} \subseteq Names
    BY ProcessAssumption DEF ShapesOK
  <1>b. 1 \in 1..Len(Down) /\ 1 \in 1..Len(Order) /\ 1..(1 - 1) = {}
    BY DownNames
  <1> USE DEF factoryVars, environment, Goto, At
  <1>1. CASE Begin \/ DeclareBusiness \/ Verdict \/ RegisterCtlRoutes
    <2>1. UNCHANGED <<thread, registry>>
      BY <1>1 DEF Begin, DeclareBusiness, DeclareDomain, Verdict, RegisterCtlRoutes
    <2>2. main' \in {<<p, 1>> : p \in {"exited", "ask", "domain", "spawn", "wait", "commands"}}
      BY <1>1 DEF Begin, DeclareBusiness, Verdict, RegisterCtlRoutes
    <2>3. main'[2] = 1 /\ main'[1] \in {"exited", "ask", "domain", "spawn", "wait", "commands"}
      BY <2>2
    <2> QED
      BY <1>b, <2>1, <2>3, SameOver DEF TeardownOK
  <1>2. CASE StartWorker
    <2> DEFINE i == main[2]
    <2>0. i \in 1..Len(Order) /\ Order[i] \in Names
      BY <1>2, DownNames DEF StartWorker, TeardownOK
    <2>1. CASE CreateThread(Order[i]) /\ main' = <<"enlist", i>>
      <3>1. /\ thread' = [thread EXCEPT ![Order[i]] = "running"] /\ registry' = registry
        BY <2>1 DEF CreateThread
      <3>2. Order[i] \notin Over' /\ Over' \subseteq Over
        BY <1>a, <2>0, <3>1 DEF Over
      <3> QED
        BY <1>a, <2>0, <2>1, <3>1, <3>2 DEF TeardownOK
    <2>2. CASE UNCHANGED <<thread, registry>> /\ NextOr("spawn", i, Len(Order), "subscribe")
      <3>1. \/ main'[1] = "spawn" /\ main'[2] \in 1..Len(Order)
            \/ main'[1] = "subscribe"
        BY <2>0, <2>2, NextPlace, DownNames
      <3> QED
        BY <2>2, <3>1, SameOver DEF TeardownOK
    <2> QED
      BY <1>2, <2>1, <2>2 DEF StartWorker, CreateFails
  <1>3. CASE EnlistWorker
    <2> DEFINE i == main[2]
    <2>0. /\ i \in 1..Len(Order) /\ Order[i] \in Names /\ Order[i] \notin Over
          /\ registry' = registry \cup {Order[i]} /\ thread' = thread
          /\ NextOr("spawn", i, Len(Order), "subscribe")
      BY <1>3, DownNames DEF EnlistWorker, Enlist, TeardownOK
    <2>1. \/ main'[1] = "spawn" /\ main'[2] \in 1..Len(Order)
          \/ main'[1] = "subscribe"
      BY <2>0, NextPlace, DownNames
    <2>2. registry' \cap Over' = {}
      BY <2>0, SameOver DEF TeardownOK
    <2> QED
      BY <2>1, <2>2 DEF TeardownOK
  <1>4. CASE RegisterSubRoutes \/ RegisterCommands
    <2>1. UNCHANGED <<thread, registry>> /\ main'[1] \in {"subscribe", "console", "commands", "verdict"}
      BY <1>4 DEF RegisterSubRoutes, RegisterCommands, NextOr
    <2> QED
      BY <2>1, SameOver DEF TeardownOK
  <1>5. CASE StartServices
    <2>1. CASE ConsoleStart \/ ControlStart
      <3>1. UNCHANGED <<thread, registry>>
        BY <2>1 DEF ConsoleStart, ControlStart, DeclareDomain
      <3>2. main'[1] \in {"console create", "control", "control create"}
        <4>1. CASE Goto("console create")
          BY <4>1
        <4>2. CASE Goto("control")
          BY <4>2
        <4>3. CASE Goto("control create")
          BY <4>3
        <4> QED
          BY <2>1, <4>1, <4>2, <4>3 DEF ConsoleStart, ControlStart
      <3> QED
        BY <3>1, <3>2, SameOver DEF TeardownOK
    <2>2. ASSUME NEW n \in {"control", "console"}, NEW from, NEW next, NEW without,
                 CreateService(n, from, next, without),
                 <<next, n>> \in {<<"console enlist", "console">>, <<"control enlist", "control">>},
                 without \in {"control", "commands"}
          PROVE  TeardownOK'
      <3>1. CASE CreateThread(n) /\ Goto(next)
        <4>1. thread' = [thread EXCEPT ![n] = "running"] /\ registry' = registry
          BY <3>1 DEF CreateThread
        <4>2. n \notin Over' /\ Over' \subseteq Over
          BY <1>a, <4>1 DEF Over
        <4> QED
          BY <1>a, <2>2, <3>1, <4>1, <4>2 DEF TeardownOK
      <3>2. CASE UNCHANGED <<thread, registry>> /\ Goto(without)
        BY <2>2, <3>2, SameOver DEF TeardownOK
      <3> QED
        BY <2>2, <3>1, <3>2 DEF CreateService, CreateFails
    <2>3. ASSUME NEW n \in {"control", "console"}, NEW from, NEW to, EnlistService(n, from, to),
                 n \notin Over, to \in {"control", "control subscribe"}
          PROVE  TeardownOK'
      BY <1>a, <2>3, SameOver DEF EnlistService, Enlist, TeardownOK
    <2>4. /\ main[1] = "console enlist" => "console" \notin Over
          /\ main[1] = "control enlist" => "control" \notin Over
      BY DEF TeardownOK
    <2>5. CASE CreateService("console", "console create", "console enlist", "control")
      BY <2>2, <2>5
    <2>8. CASE CreateService("control", "control create", "control enlist", "commands")
      BY <2>2, <2>8
    <2>6. CASE EnlistService("console", "console enlist", "control")
      <3>1. "console" \notin Over
        BY <2>4, <2>6 DEF EnlistService
      <3> QED
        BY <2>3, <2>6, <3>1
    <2>7. CASE EnlistService("control", "control enlist", "control subscribe")
      <3>1. "control" \notin Over
        BY <2>4, <2>7 DEF EnlistService
      <3> QED
        BY <2>3, <2>7, <3>1
    <2> QED
      BY <1>5, <2>1, <2>5, <2>6, <2>7, <2>8 DEF StartServices
  <1>6. CASE AskDown
    <2> DEFINE i == main[2]
               n == Down[i]
    <2>1. /\ i \in 1..Len(Down) /\ n \in Names /\ \A j \in 1..i - 1 : Down[j] \in Over
          /\ UNCHANGED <<thread, registry>>
      BY <1>6, DownNames DEF AskDown, TeardownOK
    <2>2. CASE HasHandle(n)
      <3>1. main' = <<"erase", i>>
        BY <1>6, <2>2 DEF AskDown
      <3> QED
        BY <2>1, <3>1, SameOver DEF TeardownOK
    <2>3. CASE ~HasHandle(n)
      <3>0. n \in Over
        BY <1>a, <2>1, <2>3 DEF HasHandle, Over
      <3>1. \A j \in 1..i : Down[j] \in Over
        BY <2>1, <3>0
      <3>2. NextOr("ask", i, Len(Down), "unset")
        BY <1>6, <2>3 DEF AskDown, NextDown
      <3>3. \/ main'[1] = "ask" /\ main'[2] \in 1..Len(Down) /\ main'[2] - 1 = i
            \/ i = Len(Down) /\ main'[1] = "unset"
        BY <2>1, <3>2, NextPlace, DownNames
      <3>4. i = Len(Down) => Names \subseteq Over
        BY <3>1, AllOver
      <3> HIDE DEF i
      <3> QED
        BY <2>1, <3>1, <3>3, <3>4, SameOver DEF TeardownOK
    <2> QED
      BY <2>2, <2>3
  <1>7. CASE EraseDown
    <2>1. /\ main[1] = "erase" /\ main' = <<"join", main[2]>> /\ thread' = thread
          /\ registry' = registry \ {Down[main[2]]}
      BY <1>7 DEF EraseDown, Erase
    <2> QED
      BY <2>1, SameOver DEF TeardownOK
  <1>8. CASE JoinDown
    <2> DEFINE i == main[2]
               n == Down[i]
    <2>1. /\ i \in 1..Len(Down) /\ n \in Names /\ \A j \in 1..i - 1 : Down[j] \in Over
          /\ n \notin registry /\ registry' = registry
          /\ thread' = [thread EXCEPT ![n] = "freed"]
      BY <1>8, DownNames DEF JoinDown, Join, TeardownOK
    <2>2. Over' = Over \cup {n}
      BY <1>a, <2>1 DEF Over
    <2>3. \/ main'[1] = "ask" /\ main'[2] \in 1..Len(Down) /\ main'[2] - 1 = i
          \/ i = Len(Down) /\ main'[1] = "unset"
      <3>1. NextOr("ask", i, Len(Down), "unset")
        BY <1>8 DEF JoinDown, NextDown
      <3> QED
        BY <2>1, <3>1, NextPlace, DownNames
    <2>4. \A j \in 1..i : Down[j] \in Over'
      BY <2>1, <2>2
    <2>5. registry' \cap Over' = {}
      BY <1>a, <2>1, <2>2 DEF TeardownOK
    <2>6. i = Len(Down) => Names \subseteq Over'
      BY <2>4, AllOver
    <2> HIDE DEF i
    <2> QED
      BY <2>3, <2>4, <2>5, <2>6 DEF TeardownOK
  <1>9. CASE UnsetMw \/ FreeComm \/ ClearSubs
    <2>1. /\ UNCHANGED <<thread, registry>>
          /\ main'[1] \in {"free", "clear", "exited"} /\ main[1] \in {"unset", "free", "clear"}
      BY <1>9 DEF UnsetMw, FreeComm, ClearSubs
    <2> QED
      BY <2>1, SameOver DEF TeardownOK
  <1>10. CASE WaitStop
    <2>1. UNCHANGED <<thread, registry>> /\ (main' = main \/ main' = <<"ask", 1>>)
      BY <1>10 DEF WaitStop
    <2>2. CASE main' = main
      BY <2>1, <2>2, SameOver, TeardownStays
    <2>3. CASE main' = <<"ask", 1>>
      <3>1. main'[1] = "ask" /\ main'[2] = 1
        BY <2>3
      <3> QED
        BY <1>b, <2>1, <3>1, SameOver DEF TeardownOK
    <2> QED
      BY <2>1, <2>2, <2>3
  <1>11. ASSUME NEW n \in Names, ThreadEnds(n) PROVE TeardownOK'
    <2>1. /\ UNCHANGED <<main, registry>> /\ thread[n] = "running"
          /\ thread' = [thread EXCEPT ![n] = "returned"]
      BY <1>11 DEF ThreadEnds, ThreadReturns, assemblyVars
    <2>2. Over' = Over
      BY <1>a, <2>1 DEF Over
    <2> QED
      BY <2>1, <2>2, TeardownStays
  <1>12. ASSUME UNCHANGED <<factoryVars, assemblyVars>> PROVE TeardownOK'
    BY <1>12, SameOver, TeardownStays DEF assemblyVars
  <1>13. ASSUME NEW n \in Names,
                \/ WorkerTakes(n) \/ WorkerPublishes(n) \/ WorkerFinishes(n)
                \/ ControlTakes \/ ControlExecutes \/ ControlResponds
         PROVE  UNCHANGED <<factoryVars, assemblyVars>>
    BY <1>13 DEF WorkerTakes, WorkerPublishes, WorkerFinishes, ControlTakes, ControlExecutes,
                 ControlResponds
  <1>14. ASSUME NEW x, NEW y, \/ SubmitLine(x) \/ RouteBegin(x) \/ RouteEnd(x)
                              \/ OnSignal(x) \/ Interrupt(x, y) \/ UNCHANGED vars
         PROVE  UNCHANGED <<factoryVars, assemblyVars>>
    BY <1>14 DEF SubmitLine, RouteBegin, RouteEnd, OnSignal, Interrupt, vars
  <1> QED
    BY <1>1, <1>2, <1>3, <1>4, <1>5, <1>6, <1>7, <1>8, <1>9, <1>10, <1>11, <1>12, <1>13, <1>14
       DEF Next, MainStep, Start, Stop, ThreadStep

-----------------------------------------------------------------------------
(* What a step of main does to the threads, and what main leaves alone      *)
(* while it assembles or joins.                                             *)
MainKeeps ==
    /\ UNCHANGED <<box, hand, pub, callback, job, stage, sends>>
    /\ \A n \in Names : thread[n] = "running" => thread'[n] = "running"

LEMMA MainStepKeeps == ShapesOK /\ MainStep => MainKeeps
  <1> SUFFICES ASSUME ShapesOK, MainStep PROVE MainKeeps
    OBVIOUS
  <1>a. thread \in [Names -> {"none", "running", "returned", "freed"}]
    BY DEF ShapesOK
  <1>b. ASSUME UNCHANGED <<trafficVars, thread>> PROVE MainKeeps
    BY <1>b DEF trafficVars, MainKeeps
  <1>c. ASSUME NEW n, UNCHANGED trafficVars, CreateThread(n) \/ CreateFails(n) PROVE MainKeeps
    BY <1>a, <1>c DEF trafficVars, MainKeeps, CreateThread, CreateFails, factoryVars
  <1>1. CASE Begin \/ DeclareBusiness \/ Verdict \/ WaitStop
    BY <1>b, <1>1 DEF Begin, DeclareBusiness, DeclareDomain, Verdict, WaitStop, factoryVars
  <1>2. CASE StartWorker
    BY <1>c, <1>2 DEF StartWorker
  <1>3. CASE EnlistWorker \/ RegisterSubRoutes \/ RegisterCtlRoutes \/ RegisterCommands
    BY <1>b, <1>3 DEF EnlistWorker, Enlist, RegisterSubRoutes, RegisterCtlRoutes, RegisterCommands,
                      factoryVars
  <1>4. CASE StartServices
    <2>1. CASE ConsoleStart \/ ControlStart
      BY <1>b, <2>1 DEF ConsoleStart, ControlStart, DeclareDomain, factoryVars
    <2>2. ASSUME NEW n, NEW p, NEW q, NEW r, CreateService(n, p, q, r) PROVE MainKeeps
      BY <1>c, <2>2 DEF CreateService
    <2>3. ASSUME NEW n, NEW p, NEW q, EnlistService(n, p, q) PROVE MainKeeps
      BY <1>b, <2>3 DEF EnlistService, Enlist
    <2> QED
      BY <1>4, <2>1, <2>2, <2>3 DEF StartServices
  <1>5. CASE AskDown
    BY <1>5 DEF AskDown, factoryVars, MainKeeps
  <1>6. CASE EraseDown \/ UnsetMw \/ FreeComm \/ ClearSubs
    BY <1>b, <1>6 DEF EraseDown, Erase, UnsetMw, FreeComm, ClearSubs, factoryVars
  <1>7. CASE JoinDown
    BY <1>a, <1>7 DEF JoinDown, Join, trafficVars, MainKeeps
  <1> QED
    BY <1>1, <1>2, <1>3, <1>4, <1>5, <1>6, <1>7 DEF MainStep, Start, Stop

(* Only Begin sets up the middleware, and only the end of Stop takes it     *)
(* down; main leaves its last place never.                                  *)
LEMMA MainLeavesMiddleware ==
  ASSUME MainStep, ~Begin, ~UnsetMw, ~FreeComm
  PROVE  /\ UNCHANGED <<mw, comm>>
         /\ main'[1] \notin {"begin", "free", "clear"}
         /\ main'[1] = "exited" => main[1] = "clear"
         /\ main[1] \notin {"begin", "unset", "free", "exited"}
  <1> USE Kinds DEF At
  <1>1. CASE DeclareBusiness \/ Verdict \/ WaitStop
    <2>1. UNCHANGED <<mw, comm>> /\ main[1] \in {"domain", "verdict", "wait"}
      BY <1>1 DEF DeclareBusiness, Verdict, WaitStop
    <2>2. main'[1] \in {main[1], "spawn", "wait", "ask"}
      BY <1>1 DEF DeclareBusiness, Verdict, WaitStop
    <2> QED
      BY <2>1, <2>2
  <1>2. CASE StartWorker \/ EnlistWorker \/ RegisterSubRoutes \/ RegisterCtlRoutes
    <2>1. /\ UNCHANGED <<mw, comm>>
          /\ main[1] \in {"spawn", "enlist", "subscribe", "control subscribe"}
      BY <1>2 DEF StartWorker, EnlistWorker, RegisterSubRoutes, RegisterCtlRoutes
    <2>2. main' = <<"enlist", main[2]>> => main'[1] = "enlist"
      OBVIOUS
    <2>3. main'[1] \in {"enlist", "spawn", "subscribe", "console", "commands"}
      BY <1>2, <2>2 DEF StartWorker, EnlistWorker, RegisterSubRoutes, RegisterCtlRoutes
    <2> QED
      BY <2>1, <2>3
  <1>3. CASE RegisterCommands
    BY <1>3 DEF RegisterCommands
  <1>4. CASE ConsoleStart \/ ControlStart
    BY <1>4 DEF ConsoleStart, ControlStart
  <1>5. ASSUME NEW n, NEW p, NEW q, NEW r, CreateService(n, p, q, r)
        PROVE  UNCHANGED <<mw, comm>> /\ main[1] = p /\ main'[1] \in {q, r}
    BY <1>5 DEF CreateService
  <1>6. ASSUME NEW n, NEW p, NEW q, EnlistService(n, p, q)
        PROVE  UNCHANGED <<mw, comm>> /\ main[1] = p /\ main'[1] = q
    BY <1>6 DEF EnlistService
  <1>7. CASE StartServices
    <2>1. CASE CreateService("console", "console create", "console enlist", "control")
      <3>1. /\ main[1] = "console create" /\ UNCHANGED <<mw, comm>>
            /\ main'[1] \in {"console enlist", "control"}
        BY <1>5, <2>1
      <3> QED
        BY <3>1
    <2>2. CASE CreateService("control", "control create", "control enlist", "commands")
      <3>1. /\ main[1] = "control create" /\ UNCHANGED <<mw, comm>>
            /\ main'[1] \in {"control enlist", "commands"}
        BY <1>5, <2>2
      <3> QED
        BY <3>1
    <2>3. CASE EnlistService("console", "console enlist", "control")
      <3>1. main[1] = "console enlist" /\ main'[1] = "control" /\ UNCHANGED <<mw, comm>>
        BY <1>6, <2>3
      <3> QED
        BY <3>1
    <2>4. CASE EnlistService("control", "control enlist", "control subscribe")
      <3>1. main[1] = "control enlist" /\ main'[1] = "control subscribe" /\ UNCHANGED <<mw, comm>>
        BY <1>6, <2>4
      <3> QED
        BY <3>1
    <2> QED
      BY <1>4, <1>7, <2>1, <2>2, <2>3, <2>4 DEF StartServices
  <1>8. CASE AskDown \/ EraseDown \/ JoinDown
    <2>1. UNCHANGED <<mw, comm>> /\ main[1] \in {"ask", "erase", "join"}
      BY <1>8 DEF AskDown, EraseDown, JoinDown
    <2>2. \A i : main' = <<"erase", i>> \/ main' = <<"join", i>> => main'[1] \in {"erase", "join"}
      OBVIOUS
    <2>3. main'[1] \in {"erase", "join", "ask", "unset"}
      BY <1>8, <2>2 DEF AskDown, EraseDown, JoinDown, NextDown
    <2> QED
      BY <2>1, <2>3
  <1>9. CASE ClearSubs
    BY <1>9 DEF ClearSubs
  <1> QED
    BY <1>1, <1>2, <1>3, <1>7, <1>8, <1>9 DEF MainStep, Start, Stop

LEMMA InitMiddleware == Init => MiddlewareOK
  BY DEF Init, MiddlewareOK, Routes

LEMMA RoutesAreNames == Routes = Workers \cup {"control"} /\ Routes \subseteq Names
                        /\ "control" \notin Workers /\ "console" \notin Routes
  BY ProcessAssumption DEF Routes

(* Steps beside main that let nobody begin or end a publication.            *)
LEMMA MiddlewareStays ==
  ASSUME MiddlewareOK, UNCHANGED <<mw, comm, main, pub, hand, stage, job>>,
         \A x \in Routes : thread[x] = "running" => thread'[x] = "running"
  PROVE  MiddlewareOK'
  BY DEF MiddlewareOK

LEMMA StepMiddleware == ShapesOK /\ TeardownOK /\ MiddlewareOK /\ [Next]_vars => MiddlewareOK'
  <1> SUFFICES ASSUME ShapesOK, TeardownOK, MiddlewareOK, [Next]_vars PROVE MiddlewareOK'
    OBVIOUS
  <1> USE RoutesAreNames
  <1>0. /\ pub \in [Routes -> {"no", "checked", "using"}]
        /\ hand \in [Workers -> {"free", "busy", "leaving"}]
        /\ thread \in [Names -> {"none", "running", "returned", "freed"}]
    BY DEF ShapesOK
  <1>1. CASE MainStep
    <2>1. MainKeeps
      BY <1>1, MainStepKeeps
    <2>2. CASE Begin
      <3>1. \A x \in Routes : pub[x] = "no"
        BY <2>2 DEF Begin, At, MiddlewareOK
      <3>2. ~mw /\ \/ mw' = FALSE
                   \/ mw' /\ comm' = "up" /\ main'[1] = "domain"
        BY <2>2, Kinds DEF Begin, At, MiddlewareOK
      <3> QED
        BY <2>1, <3>1, <3>2 DEF MiddlewareOK, MainKeeps
    <2>3. CASE UnsetMw
      <3>1. Names \subseteq Over /\ mw' = FALSE
        BY <2>3 DEF UnsetMw, At, TeardownOK
      <3>2. \A x \in Routes : pub[x] = "no"
        BY <3>1 DEF Over, MiddlewareOK
      <3> QED
        BY <2>1, <3>1, <3>2 DEF MiddlewareOK, MainKeeps
    <2>4. CASE FreeComm
      <3>1. ~mw /\ mw' = mw
        BY <2>4 DEF FreeComm, At, MiddlewareOK
      <3> QED
        BY <2>1, <3>1 DEF MiddlewareOK, MainKeeps
    <2>5. CASE ~Begin /\ ~UnsetMw /\ ~FreeComm
      <3>1. /\ UNCHANGED <<mw, comm>>
            /\ main'[1] \notin {"begin", "free", "clear"}
            /\ main'[1] = "exited" => main[1] = "clear"
        BY <1>1, <2>5, MainLeavesMiddleware
      <3> QED
        BY <2>1, <3>1 DEF MiddlewareOK, MainKeeps
    <2> QED
      BY <2>2, <2>3, <2>4, <2>5
  <1>2. ASSUME NEW n \in Names, ThreadEnds(n) PROVE MiddlewareOK'
    <2>1. /\ UNCHANGED <<mw, comm, main, pub, hand, stage, job>> /\ MayReturn(n)
          /\ thread' = [thread EXCEPT ![n] = "returned"]
      BY <1>2 DEF ThreadEnds, ThreadReturns, assemblyVars, trafficVars
    <2>2. n \in Routes => pub[n] = "no"
      <3>1. CASE n \in Workers
        BY <2>1, <3>1 DEF MayReturn, MiddlewareOK
      <3>2. CASE n = "control"
        BY <2>1, <3>2 DEF MayReturn, MiddlewareOK
      <3> QED
        BY <3>1, <3>2
    <2> QED
      BY <1>0, <2>1, <2>2 DEF MiddlewareOK
  <1>3. ASSUME NEW w \in Workers, WorkerTakes(w) PROVE MiddlewareOK'
    <2>1. /\ UNCHANGED <<mw, comm, main, pub, thread, stage, job>>
          /\ hand' = [hand EXCEPT ![w] = "busy"]
      BY <1>3 DEF WorkerTakes, assemblyVars, factoryVars
    <2> QED
      BY <1>0, <2>1 DEF MiddlewareOK
  <1>4. ASSUME NEW w \in Workers, WorkerPublishes(w) PROVE MiddlewareOK'
    <2>1. /\ UNCHANGED <<mw, comm, main, hand, thread, stage, job>> /\ hand[w] = "busy"
          /\ thread[w] = "running" /\ (mw \/ pub[w] # "no")
          /\ \/ pub' = [pub EXCEPT ![w] = "checked"]
             \/ pub' = [pub EXCEPT ![w] = "using"]
      BY <1>4 DEF WorkerPublishes, assemblyVars, factoryVars, Free, CheckMw, UseMw
    <2> QED
      BY <1>0, <2>1 DEF MiddlewareOK
  <1>5. ASSUME NEW w \in Workers, WorkerFinishes(w) PROVE MiddlewareOK'
    <2>1. /\ UNCHANGED <<mw, comm, main, thread, stage, job>>
          /\ \A v \in Workers \ {w} : hand'[v] = hand[v]
          /\ \/ pub[w] = "no" /\ pub' = pub
             \/ pub' = [pub EXCEPT ![w] = "no"]
      BY <1>0, <1>5 DEF WorkerFinishes, assemblyVars, factoryVars, Published
    <2> QED
      BY <1>0, <2>1 DEF MiddlewareOK
  <1>6. ASSUME ControlTakes \/ ControlExecutes PROVE MiddlewareOK'
    <2>1. UNCHANGED <<mw, comm, main, thread, hand, pub>> /\ stage # "respond"
      BY <1>6 DEF ControlTakes, ControlExecutes, assemblyVars, factoryVars
    <2> QED
      BY <2>1 DEF MiddlewareOK
  <1>7. ASSUME ControlResponds PROVE MiddlewareOK'
    <2>1. /\ UNCHANGED <<mw, comm, main, thread, hand>> /\ thread["control"] = "running"
          /\ stage = "respond"
      BY <1>7 DEF ControlResponds, assemblyVars, factoryVars, Free
    <2>2. CASE job[1].dds /\ (CheckMw("control") \/ UseMw("control")) /\ UNCHANGED <<job, stage>>
      <3>1. /\ mw \/ pub["control"] # "no"
            /\ \/ pub' = [pub EXCEPT !["control"] = "checked"]
               \/ pub' = [pub EXCEPT !["control"] = "using"]
        BY <2>2 DEF CheckMw, UseMw
      <3> QED
        BY <1>0, <2>1, <2>2, <3>1 DEF MiddlewareOK
    <2>3. CASE \/ Published("control")
               \/ (job[1].dds => ~mw /\ pub["control"] = "no") /\ UNCHANGED pub
      <3>1. \/ pub' = [pub EXCEPT !["control"] = "no"]
            \/ pub["control"] = "no" /\ pub' = pub
        BY <2>3 DEF Published, MiddlewareOK
      <3> QED
        BY <1>0, <2>1, <3>1 DEF MiddlewareOK
    <2> QED
      BY <1>7, <2>2, <2>3 DEF ControlResponds
  <1>8. ASSUME NEW r \in Routes, RouteBegin(r) \/ RouteEnd(r) PROVE MiddlewareOK'
    BY <1>8, MiddlewareStays DEF RouteBegin, RouteEnd, assemblyVars, factoryVars
  <1>9. ASSUME NEW x, NEW y, SubmitLine(x) \/ OnSignal(x) \/ Interrupt(x, y) \/ UNCHANGED vars
        PROVE  MiddlewareOK'
    BY <1>9, MiddlewareStays DEF SubmitLine, OnSignal, Interrupt, vars, assemblyVars, factoryVars,
                                 trafficVars
  <1> QED
    BY <1>1, <1>2, <1>3, <1>4, <1>5, <1>6, <1>7, <1>8, <1>9 DEF Next, ThreadStep

-----------------------------------------------------------------------------
LEMMA InitTraffic == Init => TrafficOK
  BY DEF Init, TrafficOK

(* Only ClearSubs takes a subscription away.                                *)
LEMMA MainLeavesSubs ==
  ASSUME ShapesOK, MainStep, ~ClearSubs
  PROVE  /\ \A r \in Routes : subs'[r] = subs[r] \/ subs'[r] = "live"
         /\ main[1] # "exited"
  <1>0. subs \in [Routes -> {"none", "live", "freed"}]
    BY DEF ShapesOK
  <1>1. ASSUME NEW r, Subscribe(r) PROVE \A q \in Routes : subs'[q] = subs[q] \/ subs'[q] = "live"
    BY <1>0, <1>1 DEF Subscribe
  <1>2. CASE Begin \/ UnsetMw \/ FreeComm
    BY <1>2 DEF Begin, UnsetMw, FreeComm, At
  <1>3. CASE ~Begin /\ ~UnsetMw /\ ~FreeComm
    <2>1. main[1] # "exited"
      BY <1>3, MainLeavesMiddleware
    <2>2. CASE RegisterSubRoutes \/ RegisterCtlRoutes
      BY <1>1, <2>1, <2>2 DEF RegisterSubRoutes, RegisterCtlRoutes
    <2>3. CASE StartServices
      <3>1. UNCHANGED subs
        BY <2>3 DEF StartServices, ConsoleStart, ControlStart, CreateService, EnlistService
      <3> QED
        BY <2>1, <3>1
    <2>4. CASE DeclareBusiness \/ StartWorker \/ EnlistWorker \/ RegisterCommands \/ Verdict \/ WaitStop
      <3>1. UNCHANGED subs
        BY <2>4 DEF DeclareBusiness, StartWorker, EnlistWorker, RegisterCommands, Verdict, WaitStop
      <3> QED
        BY <2>1, <3>1
    <2>5. CASE AskDown \/ EraseDown \/ JoinDown
      <3>1. UNCHANGED subs
        BY <2>5 DEF AskDown, EraseDown, JoinDown
      <3> QED
        BY <2>1, <3>1
    <2> QED
      BY <1>3, <2>2, <2>3, <2>4, <2>5 DEF MainStep, Start, Stop
  <1> QED
    BY <1>2, <1>3

LEMMA TrafficStays ==
  ASSUME TrafficOK, UNCHANGED <<callback, subs, box, hand, main, comm, thread>>
  PROVE  TrafficOK'
  BY DEF TrafficOK, Over

LEMMA StepTraffic == ShapesOK /\ TeardownOK /\ TrafficOK /\ [Next]_vars => TrafficOK'
  <1> SUFFICES ASSUME ShapesOK, TeardownOK, TrafficOK, [Next]_vars PROVE TrafficOK'
    OBVIOUS
  <1> USE RoutesAreNames
  <1>0. /\ hand \in [Workers -> {"free", "busy", "leaving"}] /\ box \in [Workers -> Nat]
        /\ thread \in [Names -> {"none", "running", "returned", "freed"}]
        /\ subs \in [Routes -> {"none", "live", "freed"}] /\ callback \subseteq Routes
    BY DEF ShapesOK
  <1>1. CASE MainStep /\ ~ClearSubs
    <2>1. MainKeeps
      BY <1>1, MainStepKeeps
    <2>2. /\ \A r \in Routes : subs'[r] = subs[r] \/ subs'[r] = "live"
          /\ main[1] # "exited"
      BY <1>1, MainLeavesSubs
    <2>4. \A r \in Routes : subs[r] # "freed"
      BY <2>2 DEF TrafficOK
    <2>5. /\ UNCHANGED <<box, hand, callback>>
          /\ \A n \in Names : thread[n] = "running" => thread'[n] = "running"
      BY <2>1 DEF MainKeeps
    <2>6. \A r \in Routes : subs[r] = "live" => subs'[r] = "live"
      BY <2>2
    <2>7. \A r \in Routes : subs'[r] # "freed"
      BY <2>2, <2>4
    <2>8. \A w \in Workers : box'[w] > 0 => subs'[w] # "none"
      BY <1>0, <2>2, <2>5 DEF TrafficOK
    <2>9. \A w \in Workers : hand'[w] = "busy" => thread'[w] = "running" /\ subs'[w] = "live"
      BY <2>5, <2>6 DEF TrafficOK
    <2> QED
      BY <1>0, <2>2, <2>5, <2>6, <2>7, <2>8, <2>9 DEF TrafficOK
  <1>2. CASE ClearSubs
    <2>1. /\ UNCHANGED <<callback, comm, box, hand, thread>> /\ main[1] = "clear"
          /\ main'[1] = "exited"
          /\ subs' = [r \in Routes |-> IF subs[r] = "live" THEN "freed" ELSE subs[r]]
      BY <1>2, Kinds DEF ClearSubs, At, trafficVars, factoryVars
    <2>2. Names \subseteq Over' /\ Over' = Over
      BY <2>1, SameOver DEF TeardownOK, TrafficOK
    <2>3. \A w \in Workers : hand[w] # "busy"
      BY <2>2 DEF TrafficOK, Over
    <2> QED
      BY <1>0, <2>1, <2>2, <2>3 DEF TrafficOK
  <1>3. ASSUME NEW n \in Names, ThreadEnds(n) PROVE TrafficOK'
    <2>1. /\ UNCHANGED <<callback, subs, box, hand, main, comm>> /\ MayReturn(n)
          /\ thread' = [thread EXCEPT ![n] = "returned"] /\ thread[n] = "running"
      BY <1>3 DEF ThreadEnds, ThreadReturns, assemblyVars, trafficVars
    <2>2. n \in Workers => hand[n] # "busy"
      BY <2>1 DEF MayReturn
    <2>3. \A r \in Routes : subs[r] # "freed"
      BY <2>1 DEF TrafficOK, Over
    <2> QED
      BY <1>0, <2>1, <2>2, <2>3 DEF TrafficOK
  <1>4. ASSUME NEW w \in Workers, WorkerTakes(w) PROVE TrafficOK'
    <2>1. /\ UNCHANGED <<callback, subs, main, comm, thread>> /\ thread[w] = "running"
          /\ hand' = [hand EXCEPT ![w] = "busy"] /\ box' = [box EXCEPT ![w] = @ - 1]
          /\ box[w] > 0
      BY <1>4 DEF WorkerTakes, Free, assemblyVars, factoryVars
    <2>2. \A r \in Routes : subs[r] # "freed"
      BY <2>1 DEF TrafficOK, Over
    <2>3. subs[w] = "live"
      BY <1>0, <2>1, <2>2 DEF TrafficOK
    <2>4. \A v \in Workers : box'[v] > 0 => box[v] > 0
      BY <1>0, <2>1
    <2> QED
      BY <1>0, <2>1, <2>2, <2>3, <2>4 DEF TrafficOK
  <1>5. ASSUME NEW w \in Workers, WorkerFinishes(w) PROVE TrafficOK'
    <2>1. /\ UNCHANGED <<callback, subs, main, comm, thread>>
          /\ \A v \in Workers : hand'[v] = "busy" => hand[v] = "busy"
          /\ box' = box \/ box' = Fed(w)
      BY <1>0, <1>5 DEF WorkerFinishes, Fed, assemblyVars, factoryVars
    <2>2. \A v \in Workers : box'[v] > 0 => subs[v] # "none"
      <3>1. ASSUME NEW v \in Workers, box' = Fed(w), box'[v] > 0
            PROVE  box[v] > 0 \/ subs[v] = "live"
        BY <3>1 DEF Fed
      <3> QED
        BY <2>1, <3>1 DEF TrafficOK
    <2>3. Over' = Over
      BY <2>1, SameOver
    <2> QED
      BY <2>1, <2>2, <2>3 DEF TrafficOK
  <1>6. ASSUME NEW r \in Routes, RouteBegin(r) PROVE TrafficOK'
    <2>1. /\ UNCHANGED <<subs, box, hand, main, comm, thread>>
          /\ callback' = callback \cup {r} /\ subs[r] # "none"
      BY <1>6 DEF RouteBegin, assemblyVars, factoryVars
    <2> QED
      BY <2>1, SameOver DEF TrafficOK
  <1>7. ASSUME NEW r \in Routes, RouteEnd(r) PROVE TrafficOK'
    <2>1. /\ UNCHANGED <<subs, hand, main, comm, thread>> /\ subs[r] # "none"
          /\ callback' = callback \ {r}
          /\ box' = box \/ box' = [box EXCEPT ![r] = box[r] + 1]
      BY <1>7 DEF RouteEnd, assemblyVars, factoryVars, TrafficOK
    <2>2. \A v \in Workers : box'[v] > 0 => subs[v] # "none"
      BY <1>0, <2>1 DEF TrafficOK
    <2>3. Over' = Over
      BY <2>1, SameOver
    <2> QED
      BY <2>1, <2>2, <2>3 DEF TrafficOK
  <1>8. ASSUME NEW x, NEW y, \/ WorkerPublishes(x) \/ ControlTakes \/ ControlExecutes \/ ControlResponds
                             \/ SubmitLine(x) \/ OnSignal(x) \/ Interrupt(x, y) \/ UNCHANGED vars
        PROVE  TrafficOK'
    BY <1>8, TrafficStays DEF WorkerPublishes, ControlTakes, ControlExecutes, ControlResponds,
       SubmitLine, OnSignal, Interrupt, vars, assemblyVars, factoryVars, trafficVars
  <1> QED
    BY <1>1, <1>2, <1>3, <1>4, <1>5, <1>6, <1>7, <1>8 DEF Next, ThreadStep

-----------------------------------------------------------------------------
LEMMA InitAssembly == Init => AssemblyOK
  <1> SUFFICES ASSUME Init PROVE AssemblyOK
    OBVIOUS
  <1>1. main[1] = "begin" /\ ok /\ rc # 3
    BY DEF Init
  <1>2. \A w \in Workers : ~asked[w] /\ hand[w] # "leaving"
    BY DownNames DEF Init
  <1> QED
    BY <1>1, <1>2 DEF AssemblyOK, Early, Stopping

(* Between the last worker and the verdict nothing happens to the workers.  *)
LEMMA AssemblyMiddle ==
  ASSUME AssemblyOK, main[1] \notin Early \cup Stopping,
         main'[1] \notin Early \cup Stopping \cup {"wait"},
         UNCHANGED <<ok, rc, hand>>, \A w \in Workers : asked'[w] = asked[w],
         Complete' = Complete, Lacking' = Lacking
  PROVE  AssemblyOK'
  BY DEF AssemblyOK, Early

(* Once Stop has begun, a worker that is lacking remains so.                *)
LEMMA AssemblyStops ==
  ASSUME AssemblyOK, main[1] \in Stopping, main'[1] \in Stopping, UNCHANGED <<ok, rc>>,
         Lacking \subseteq Lacking'
  PROVE  AssemblyOK'
  BY DEF AssemblyOK, Early, Stopping

(* Steps beside main, as long as nobody is asked to leave.                  *)
LEMMA AssemblyStays ==
  ASSUME AssemblyOK, UNCHANGED <<main, ok, rc, asked>>,
         \A w \in Workers : hand'[w] = "leaving" => hand[w] = "leaving" \/ asked[w],
         Made' = Made, Complete' = Complete, Lacking' = Lacking
  PROVE  AssemblyOK'
  BY DEF AssemblyOK

LEMMA SameWorkers ==
  UNCHANGED <<thread, policy, strict>> => Made' = Made /\ Lacking' = Lacking
  BY DEF Made, Lacking

LEMMA StepAssembly ==
  ShapesOK /\ TeardownOK /\ AssemblyOK /\ [Next]_vars => AssemblyOK'
  <1> SUFFICES ASSUME ShapesOK, TeardownOK, AssemblyOK, [Next]_vars PROVE AssemblyOK'
    OBVIOUS
  <1> USE RoutesAreNames, Kinds
  <1>0. /\ thread \in [Names -> {"none", "running", "returned", "freed"}]
        /\ policy \in [Names -> {"none", "RR", "OTHER"}]
        /\ hand \in [Workers -> {"free", "busy", "leaving"}]
        /\ asked \in [Names -> BOOLEAN] /\ Workers \subseteq Names
    BY DownNames DEF ShapesOK
  <1>1. CASE Begin
    <2>1. ok /\ UNCHANGED <<ok, asked, hand>> /\ main[1] = "begin" /\ rc # 3
      BY <1>1 DEF Begin, At, AssemblyOK, trafficVars, Stopping
    <2>2. main'[1] \in {"exited", "ask", "domain"} /\ rc' # 3
      BY <1>1, <2>1 DEF Begin
    <2>3. \A w \in Workers : ~asked[w] /\ hand[w] # "leaving"
      BY <2>1 DEF AssemblyOK, Stopping
    <2> QED
      BY <2>1, <2>2, <2>3 DEF AssemblyOK, Early, Stopping
  <1>2. CASE DeclareBusiness
    <2>1. /\ ok /\ UNCHANGED <<ok, asked, hand, rc>> /\ main[1] = "domain" /\ rc # 3
          /\ main' = <<"spawn", 1>>
      BY <1>2 DEF DeclareBusiness, At, Goto, AssemblyOK, trafficVars, Stopping
    <2>2. main'[1] = "spawn" /\ 1..(main'[2] - 1) = {}
      BY <2>1
    <2>3. \A w \in Workers : ~asked[w] /\ hand[w] # "leaving"
      BY <2>1 DEF AssemblyOK, Stopping
    <2> QED
      BY <2>1, <2>2, <2>3 DEF AssemblyOK, Early, Stopping
  <1>3. CASE StartWorker
    <2> DEFINE i == main[2]
               w == Order[i]
    <2>1. /\ main[1] = "spawn" /\ i \in 1..Len(Order) /\ w \in Workers
          /\ UNCHANGED <<asked, hand, rc>> /\ rc # 3
          /\ \A v \in Workers : ~asked[v] /\ hand[v] # "leaving"
      BY <1>3, DownNames DEF StartWorker, At, TeardownOK, AssemblyOK, trafficVars, Stopping
    <2>2. CASE CreateThread(w) /\ main' = <<"enlist", i>> /\ UNCHANGED ok
      <3>1. /\ thread' = [thread EXCEPT ![w] = "running"] /\ thread[w] = "none"
            /\ policy' = [policy EXCEPT ![w] = IF w \in Realtime /\ privileged THEN "RR" ELSE "OTHER"]
            /\ UNCHANGED <<strict, registry>> /\ (strict => privileged) /\ w \in Realtime
        BY <2>1, <2>2, ProcessAssumption DEF CreateThread, Refused, environment
      <3>2. w \in Made' /\ Made \subseteq Made' /\ Lacking \ {w} \subseteq Lacking'
        BY <1>0, <2>1, <3>1 DEF Made, Lacking
      <3>3. \A j \in 1..(i - 1) : Order[j] # w
        BY <2>1, ProcessAssumption
      <3>4. main'[1] = "enlist" /\ main'[2] = i
        BY <2>2
      <3>5. Complete \subseteq Complete'
        BY <3>1, <3>2 DEF Complete
      <3>6. ok => \A j \in 1..(i - 1) : Order[j] \in Complete'
        BY <2>1, <3>5 DEF AssemblyOK
      <3>7. ~ok => \E j \in 1..(i - 1) : Order[j] \in Lacking'
        <4>1. ~ok => \E j \in 1..(i - 1) : Order[j] \in Lacking
          BY <2>1 DEF AssemblyOK
        <4> QED
          BY <3>2, <3>3, <4>1
      <3>8. Order[i] \in Made'
        BY <3>2
      <3> HIDE DEF i
      <3> QED
        BY <2>1, <2>2, <3>4, <3>6, <3>7, <3>8 DEF AssemblyOK, Early, Stopping
    <2>3. CASE /\ CreateFails(w) /\ ~ok' /\ NextOr("spawn", i, Len(Order), "subscribe")
      <3>1. /\ thread[w] = "none" /\ UNCHANGED <<thread, policy, strict>>
        BY <2>3 DEF CreateFails, factoryVars
      <3>2. w \in Lacking'
        BY <2>1, <3>1 DEF Lacking
      <3>3. \/ main'[1] = "spawn" /\ main'[2] - 1 = i
            \/ main'[1] = "subscribe"
        BY <2>1, <2>3, NextPlace, DownNames
      <3>4. i \in 1..i
        BY <2>1
      <3> HIDE DEF i
      <3> QED
        BY <2>1, <2>3, <3>2, <3>3, <3>4 DEF AssemblyOK, Early, Stopping
    <2> QED
      BY <1>3, <2>2, <2>3 DEF StartWorker
  <1>4. CASE EnlistWorker
    <2> DEFINE i == main[2]
               w == Order[i]
    <2>1. /\ main[1] = "enlist" /\ i \in 1..Len(Order) /\ w \in Made
          /\ UNCHANGED <<asked, hand, rc, ok, thread, policy, strict>> /\ rc # 3
          /\ \A v \in Workers : ~asked[v] /\ hand[v] # "leaving"
          /\ registry' = registry \cup {w}
      BY <1>4 DEF EnlistWorker, Enlist, At, TeardownOK, AssemblyOK, trafficVars, environment, Stopping
    <2>2. Made' = Made /\ Lacking' = Lacking /\ w \in Complete' /\ Complete \subseteq Complete'
      BY <2>1, SameWorkers DEF Complete
    <2>3. \/ main'[1] = "spawn" /\ main'[2] - 1 = i
          \/ main'[1] = "subscribe" /\ i = Len(Order)
      BY <1>4, <2>1, NextPlace, DownNames DEF EnlistWorker
    <2>4. ok => \A j \in 1..i : Order[j] \in Complete'
      <3>1. ok => \A j \in 1..(i - 1) : Order[j] \in Complete
        BY <2>1 DEF AssemblyOK
      <3>2. \A j \in 1..i : j = i \/ j \in 1..(i - 1)
        BY <2>1
      <3> QED
        BY <2>2, <3>1, <3>2
    <2>5. ~ok => \E j \in 1..i : Order[j] \in Lacking'
      <3>1. ~ok => \E j \in 1..(i - 1) : Order[j] \in Lacking
        BY <2>1 DEF AssemblyOK
      <3>2. \A j \in 1..(i - 1) : j \in 1..i
        BY <2>1
      <3> QED
        BY <2>2, <3>1, <3>2
    <2>6. main'[1] = "subscribe" /\ ok => Workers \subseteq Complete'
      BY <2>3, <2>4, DownNames
    <2> HIDE DEF i
    <2> QED
      BY <2>1, <2>3, <2>4, <2>5, <2>6 DEF AssemblyOK, Early, Stopping
  <1>5. CASE RegisterSubRoutes \/ RegisterCtlRoutes \/ RegisterCommands
    <2>1. /\ main[1] \in {"subscribe", "control subscribe", "commands"}
          /\ main'[1] \in {"subscribe", "console", "commands", "verdict"}
          /\ UNCHANGED <<ok, rc, hand, asked, thread, policy, strict, registry>>
      BY <1>5 DEF RegisterSubRoutes, RegisterCtlRoutes, RegisterCommands, At, trafficVars, factoryVars
    <2>2. main[1] \notin Early \cup Stopping /\ main'[1] \notin Early \cup Stopping \cup {"wait"}
      BY <2>1 DEF Early, Stopping
    <2>3. Lacking' = Lacking /\ Complete' = Complete
      BY <2>1, SameWorkers DEF Complete
    <2> QED
      BY <2>1, <2>2, <2>3, AssemblyMiddle
  <1>6. CASE StartServices
    <2>0. ASSUME main[1] \in {"console", "console create", "console enlist", "control",
                              "control create", "control enlist"},
                 main'[1] \in {"console create", "console enlist", "control", "control create",
                               "control enlist", "control subscribe", "commands"},
                 UNCHANGED <<ok, rc, hand>>, \A w \in Workers : asked'[w] = asked[w],
                 Complete' = Complete, Lacking' = Lacking
          PROVE  AssemblyOK'
      <3>1. main[1] \notin Early \cup Stopping /\ main'[1] \notin Early \cup Stopping \cup {"wait"}
        BY <2>0 DEF Early, Stopping
      <3> QED
        BY <2>0, <3>1, AssemblyMiddle
    <2>1. CASE ConsoleStart \/ ControlStart
      <3>1. /\ UNCHANGED <<ok, rc, hand, thread, policy, strict, registry>>
            /\ main[1] \in {"console", "control"}
            /\ main'[1] \in {"console create", "control", "control create"}
        BY <2>1 DEF ConsoleStart, ControlStart, DeclareDomain, environment, At, trafficVars, factoryVars
      <3>2. \A w \in Workers : asked'[w] = asked[w]
        <4>1. \/ asked' = asked \/ asked' = [asked EXCEPT !["console"] = FALSE]
              \/ asked' = [asked EXCEPT !["control"] = FALSE]
          BY <2>1 DEF ConsoleStart, ControlStart
        <4> QED
          BY <1>0, <4>1
      <3>3. Lacking' = Lacking /\ Complete' = Complete
        BY <3>1, SameWorkers DEF Complete
      <3> QED
        BY <2>0, <3>1, <3>2, <3>3
    <2>2. ASSUME NEW n \in {"control", "console"}, NEW p, NEW q, NEW r, CreateService(n, p, q, r),
                 p \in {"console create", "control create"},
                 q \in {"console enlist", "control enlist"}, r \in {"control", "commands"}
          PROVE  AssemblyOK'
      <3>1. UNCHANGED <<ok, rc, hand, asked>> /\ main[1] = p /\ main'[1] \in {q, r}
        BY <2>2 DEF CreateService, At, trafficVars
      <3>2. CASE CreateThread(n)
        <4>1. /\ thread' = [thread EXCEPT ![n] = "running"]
              /\ \E x : policy' = [policy EXCEPT ![n] = x]
              /\ UNCHANGED <<strict, registry>> /\ n \notin Workers
          BY <2>2, <3>2, ProcessAssumption DEF CreateThread, environment
        <4>2. Made' = Made /\ Lacking' = Lacking
          BY <1>0, <4>1 DEF Made, Lacking
        <4>3. Complete' = Complete
          BY <4>1, <4>2 DEF Complete
        <4> QED
          BY <2>0, <2>2, <3>1, <4>2, <4>3
      <3>3. CASE CreateFails(n)
        <4>1. Lacking' = Lacking /\ Complete' = Complete
          BY <3>3, SameWorkers DEF CreateFails, factoryVars, Complete
        <4> QED
          BY <2>0, <2>2, <3>1, <4>1
      <3> QED
        BY <2>2, <3>2, <3>3 DEF CreateService
    <2>3. ASSUME NEW n \in {"control", "console"}, NEW p, NEW q, EnlistService(n, p, q),
                 p \in {"console enlist", "control enlist"}, q \in {"control", "control subscribe"}
          PROVE  AssemblyOK'
      <3>1. /\ UNCHANGED <<ok, rc, hand, asked, thread, policy, strict>>
            /\ main[1] = p /\ main'[1] = q /\ registry' = registry \cup {n} /\ n \notin Workers
        BY <2>3, ProcessAssumption DEF EnlistService, Enlist, At, trafficVars, environment
      <3>2. Made' = Made /\ Lacking' = Lacking
        BY <3>1, SameWorkers
      <3>3. Complete' = Complete
        BY <3>1, <3>2 DEF Complete, Made
      <3> QED
        BY <2>0, <2>3, <3>1, <3>2, <3>3
    <2>4. CASE CreateService("console", "console create", "console enlist", "control")
      BY <2>2, <2>4
    <2>5. CASE CreateService("control", "control create", "control enlist", "commands")
      BY <2>2, <2>5
    <2>6. CASE EnlistService("console", "console enlist", "control")
      BY <2>3, <2>6
    <2>7. CASE EnlistService("control", "control enlist", "control subscribe")
      BY <2>3, <2>7
    <2> QED
      BY <1>6, <2>1, <2>4, <2>5, <2>6, <2>7 DEF StartServices
  <1>7. CASE Verdict
    <2>1. /\ main[1] = "verdict" /\ UNCHANGED <<ok, hand, asked, thread, policy, strict, registry>>
          /\ \/ ok /\ main'[1] = "wait" /\ rc' = rc
             \/ ~ok /\ main'[1] = "ask" /\ rc' = 3
      BY <1>7 DEF Verdict, At, trafficVars, factoryVars
    <2>2. Lacking' = Lacking /\ Complete' = Complete
      BY <2>1, SameWorkers DEF Complete
    <2>3. rc # 3 /\ \A w \in Workers : ~asked[w] /\ hand[w] # "leaving"
      BY <2>1 DEF AssemblyOK, Stopping
    <2> QED
      BY <2>1, <2>2, <2>3 DEF AssemblyOK, Early, Stopping
  <1>8. CASE WaitStop
    <2>1. /\ main[1] = "wait" /\ UNCHANGED <<ok, hand, asked, thread, policy, strict, registry>>
          /\ \/ main' = main /\ rc' = rc
             \/ main'[1] = "ask" /\ rc' = 0
      BY <1>8 DEF WaitStop, trafficVars, factoryVars
    <2>2. Made' = Made /\ Lacking' = Lacking /\ Complete' = Complete
      BY <2>1, SameWorkers DEF Complete
    <2>3. ok
      BY <2>1 DEF AssemblyOK
    <2>4. CASE main' = main /\ rc' = rc
      BY <2>1, <2>2, <2>4, AssemblyStays
    <2>5. CASE main'[1] = "ask" /\ rc' = 0
      BY <2>1, <2>3, <2>5 DEF AssemblyOK, Early, Stopping
    <2> QED
      BY <2>1, <2>4, <2>5
  <1>9. CASE Stop
    <2>1. UNCHANGED <<ok, rc>>
      BY <1>9 DEF Stop, AskDown, EraseDown, JoinDown, UnsetMw, FreeComm, ClearSubs
    <2>2. main[1] \in {"ask", "erase", "join", "unset", "free", "clear"}
      BY <1>9 DEF Stop, AskDown, EraseDown, JoinDown, UnsetMw, FreeComm, ClearSubs, At
    <2>3. \A i : main' = <<"erase", i>> \/ main' = <<"join", i>> => main'[1] \in {"erase", "join"}
      OBVIOUS
    <2>4. main'[1] \in {"erase", "join", "ask", "unset", "free", "clear", "exited"}
      BY <1>9, <2>3 DEF Stop, AskDown, EraseDown, JoinDown, UnsetMw, FreeComm, ClearSubs, NextDown
    <2>5. thread' = thread \/ \E n : thread[n] = "returned" /\ thread' = [thread EXCEPT ![n] = "freed"]
      BY <1>9 DEF Stop, AskDown, EraseDown, Erase, JoinDown, Join, UnsetMw, FreeComm, ClearSubs,
                  factoryVars
    <2>6. Lacking \subseteq Lacking'
      BY <1>0, <2>5 DEF Lacking
    <2>7. main[1] \in Stopping /\ main'[1] \in Stopping
      BY <2>2, <2>4 DEF Stopping
    <2> QED
      BY <2>1, <2>6, <2>7, AssemblyStops
  <1>10. ASSUME NEW n \in Names, ThreadEnds(n) PROVE AssemblyOK'
    <2>1. /\ UNCHANGED <<main, ok, rc, asked, hand, policy, strict, registry>> /\ MayReturn(n)
          /\ thread' = [thread EXCEPT ![n] = "returned"] /\ thread[n] = "running"
      BY <1>10 DEF ThreadEnds, ThreadReturns, assemblyVars, trafficVars, environment
    <2>2. CASE n \in Workers
      <3>1. main[1] \in Stopping
        BY <2>1, <2>2 DEF MayReturn, AssemblyOK
      <3>2. Lacking \subseteq Lacking'
        BY <1>0, <2>1 DEF Lacking
      <3> QED
        BY <2>1, <3>1, <3>2, AssemblyStops
    <2>3. CASE n \notin Workers
      <3>1. Made' = Made /\ Lacking' = Lacking
        BY <1>0, <2>1, <2>3 DEF Made, Lacking
      <3> QED
        BY <2>1, <3>1, AssemblyStays DEF Complete
    <2> QED
      BY <2>2, <2>3
  <1>11. ASSUME UNCHANGED <<factoryVars, assemblyVars>>,
                \A w \in Workers : hand'[w] = "leaving" => hand[w] = "leaving" \/ asked[w]
         PROVE  AssemblyOK'
    <2>1. UNCHANGED <<main, ok, rc, asked, thread, policy, strict, registry>>
      BY <1>11 DEF factoryVars, assemblyVars
    <2>2. Made' = Made /\ Lacking' = Lacking /\ Complete' = Complete
      BY <2>1, SameWorkers DEF Complete
    <2> QED
      BY <1>11, <2>1, <2>2, AssemblyStays
  <1>12. ASSUME NEW w \in Workers, WorkerTakes(w) \/ WorkerFinishes(w) PROVE AssemblyOK'
    <2>1. \A v \in Workers : hand'[v] = "leaving" => hand[v] = "leaving" \/ asked[v]
      BY <1>0, <1>12 DEF WorkerTakes, WorkerFinishes
    <2> QED
      BY <1>11, <1>12, <2>1 DEF WorkerTakes, WorkerFinishes
  <1>13. ASSUME NEW x, NEW y, \/ WorkerPublishes(x) \/ ControlTakes \/ ControlExecutes \/ ControlResponds
                              \/ SubmitLine(x) \/ OnSignal(x) \/ Interrupt(x, y)
                              \/ RouteBegin(x) \/ RouteEnd(x) \/ UNCHANGED vars
         PROVE  AssemblyOK'
    <2>1. UNCHANGED <<factoryVars, assemblyVars, hand>>
      BY <1>13 DEF WorkerPublishes, ControlTakes, ControlExecutes, ControlResponds, SubmitLine,
                   OnSignal, Interrupt, RouteBegin, RouteEnd, vars, trafficVars
    <2> QED
      BY <1>11, <2>1
  <1> QED
    BY <1>1, <1>2, <1>3, <1>4, <1>5, <1>6, <1>7, <1>8, <1>9, <1>10, <1>12, <1>13
       DEF Next, MainStep, Start, ThreadStep

-----------------------------------------------------------------------------
Teardown == ShapesOK /\ TeardownOK

LEMMA TornDown == Spec => []Teardown
  <1>1. Init => Teardown
    BY InitShapes, InitTeardown DEF Teardown
  <1>2. Teardown /\ [Next]_vars => Teardown'
    BY StepShapes, StepTeardown DEF Teardown
  <1> QED
    BY <1>1, <1>2, PTL DEF Spec

(* No thread that has found a middleware loses it before its publish is     *)
(* over: Process::Stop joins every thread before it unsets g_mw and frees   *)
(* the communicator, whatever failed in Start.                              *)
THEOREM PublishersKeepMiddleware == Spec => []MwUsedAlive
  <1>1. Teardown /\ MiddlewareOK /\ [Next]_vars => MiddlewareOK'
    BY StepMiddleware DEF Teardown
  <1>2. MiddlewareOK => MwUsedAlive
    BY DEF MiddlewareOK, MwUsedAlive
  <1> QED
    BY InitMiddleware, TornDown, <1>1, <1>2, PTL DEF Spec

(* No worker and no listing of threads ever uses a subscription or a thread *)
(* handle that Stop has freed, whatever failed in Start and whenever the    *)
(* signal came: every worker is joined, and out of the registry, before.    *)
THEOREM ThreadsNeverUseFreed == Spec => []ThreadsUseLive
  <1>1. Teardown /\ TrafficOK /\ [Next]_vars => TrafficOK'
    BY StepTraffic DEF Teardown
  <1>2. Teardown => RegistryLive
    <2> SUFFICES ASSUME Teardown, NEW n \in registry PROVE thread[n] \in {"running", "returned"}
      BY DEF RegistryLive
    <2>1. n \in Names /\ n \notin Over
      BY DEF Teardown, ShapesOK, TeardownOK
    <2>2. thread[n] \in {"none", "running", "returned", "freed"}
      BY <2>1 DEF Teardown, ShapesOK
    <2> QED
      BY <2>1, <2>2 DEF Over
  <1>3. Teardown /\ TrafficOK => ThreadsUseLive
    BY <1>2 DEF TrafficOK, ThreadsUseLive
  <1> QED
    BY InitTraffic, TornDown, <1>1, <1>3, PTL DEF Spec

(* Run waits for a signal only with every worker running, listed and under  *)
(* its policy, and gives up with rc 3 only for the lack of one (Start).     *)
THEOREM UpIsComplete == Spec => []UpMeansComplete
  <1>1. Teardown /\ AssemblyOK /\ [Next]_vars => AssemblyOK'
    BY StepAssembly DEF Teardown
  <1>2. AssemblyOK => UpMeansComplete
    <2> SUFFICES ASSUME AssemblyOK PROVE UpMeansComplete
      OBVIOUS
    <2>1. main[1] = "wait" => Workers \subseteq Complete
      BY DEF AssemblyOK, Early, Stopping
    <2>2. rc = 3 => Lacking # {}
      BY DEF AssemblyOK, Early, Stopping
    <2> QED
      BY <2>1, <2>2 DEF UpMeansComplete, Complete, Made, Lacking
  <1> QED
    BY InitAssembly, TornDown, <1>1, <1>2, PTL DEF Spec

-----------------------------------------------------------------------------
(* The stop signal.                                                         *)
InHandler == {"lock", "store", "unlock", "notify"}

(* A handler that has begun and not returned lies on one thread, once.      *)
FramesOK ==
    /\ frames \in [Hosts -> Seq(Signals)]
    /\ handler \in [Signals -> InHandler \cup {"none", "done"}]
    /\ \A t, u \in Hosts : \A i \in 1..Len(frames[t]), j \in 1..Len(frames[u]) :
           frames[t][i] = frames[u][j] => t = u /\ i = j
    /\ \A s \in Signals : handler[s] \in InHandler <=>
           \E t \in Hosts : \E i \in 1..Len(frames[t]) : frames[t][i] = s

(* The mutex excludes, and what interrupts its holder waits for it.         *)
MutexOK ==
    /\ holder \in Signals \cup {Main, Nobody}
    /\ holder = Main <=> waiter \in {"holding", "returning"}
    /\ \A s \in Signals : holder = s <=> handler[s] \in {"store", "unlock"}
    /\ holder = Main => \A i \in 1..Len(frames[Main]) : handler[frames[Main][i]] = "lock"
    /\ \A t \in Hosts : \A i \in 1..Len(frames[t]) : frames[t][i] = holder =>
           \A j \in i + 1..Len(frames[t]) : handler[frames[t][j]] = "lock"

(* The flag is set by a handler, which then notifies; the main thread       *)
(* blocks only without the flag and returns only with it.                   *)
FlagOK ==
    /\ stopped \in BOOLEAN
    /\ waiter \in {"away", "holding", "blocked", "woken", "returning", "returned"}
    /\ stopped <=> \E s \in Signals : handler[s] \in {"unlock", "notify", "done"}
    /\ waiter \in {"returning", "returned"} => stopped
    /\ waiter = "blocked" /\ stopped => \E s \in Signals : handler[s] \in {"unlock", "notify"}

SignalOK == FramesOK /\ MutexOK /\ FlagOK

SignalStep ==
    \/ WaitStep
    \/ \E s \in Signals : HandlerStep(s) \/ \E t \in Hosts : Raise(s, t)

LEMMA SignalsMove == [Next]_vars => [SignalStep]_signalVars
  <1> SUFFICES ASSUME [Next]_vars PROVE [SignalStep]_signalVars
    OBVIOUS
  <1>1. CASE MainStep
    <2>1. Start \/ Stop => UNCHANGED signalVars
      BY DEF Start, Begin, DeclareBusiness, StartWorker, EnlistWorker, RegisterSubRoutes,
             StartServices, ConsoleStart, CreateService, EnlistService, ControlStart,
             RegisterCtlRoutes, RegisterCommands, Verdict, Stop, AskDown, EraseDown,
             JoinDown, UnsetMw, FreeComm, ClearSubs
    <2>2. WaitStop => WaitStep \/ UNCHANGED signalVars
      BY DEF WaitStop
    <2> QED
      BY <1>1, <2>1, <2>2 DEF MainStep, SignalStep
  <1>2. ASSUME NEW n \in Names, ThreadStep(n) PROVE UNCHANGED signalVars
    BY <1>2 DEF ThreadStep, ThreadEnds, WorkerTakes, WorkerPublishes, WorkerFinishes,
                ControlTakes, ControlExecutes, ControlResponds
  <1>3. ASSUME NEW c \in Typed, SubmitLine(c) PROVE UNCHANGED signalVars
    BY <1>3 DEF SubmitLine
  <1>4. ASSUME NEW r \in Routes, RouteBegin(r) \/ RouteEnd(r) PROVE UNCHANGED signalVars
    BY <1>4 DEF RouteBegin, RouteEnd
  <1>5. ASSUME NEW s \in Signals, OnSignal(s) \/ \E t \in Hosts : Interrupt(s, t)
        PROVE  SignalStep
    BY <1>5 DEF OnSignal, Interrupt, SignalStep
  <1>6. CASE UNCHANGED vars
    BY <1>6 DEF vars
  <1> QED
    BY <1>1, <1>2, <1>3, <1>4, <1>5, <1>6 DEF Next

LEMMA RaisedFrames ==
  ASSUME FramesOK, NEW s \in Signals, NEW t \in Hosts,
         frames' = [frames EXCEPT ![t] = Append(frames[t], s)]
  PROVE  /\ frames' \in [Hosts -> Seq(Signals)]
         /\ \A u \in Hosts : \A i \in 1..Len(frames[u]) :
               i \in 1..Len(frames'[u]) /\ frames'[u][i] = frames[u][i]
         /\ \E i \in 1..Len(frames'[t]) : frames'[t][i] = s
         /\ \A u \in Hosts : \A i \in 1..Len(frames'[u]) :
               \/ i \in 1..Len(frames[u]) /\ frames'[u][i] = frames[u][i]
               \/ u = t /\ i = Len(frames[t]) + 1 /\ frames'[u][i] = s
  <1> DEFINE f == frames[t]
             q == Append(f, s)
  <1>1. frames \in [Hosts -> Seq(Signals)] /\ f \in Seq(Signals) /\ Len(f) \in Nat
    BY DEF FramesOK
  <1>2. /\ q \in Seq(Signals) /\ Len(q) = Len(f) + 1 /\ q[Len(f) + 1] = s
        /\ \A i \in 1..Len(f) : q[i] = f[i]
    BY <1>1
  <1>3. frames' = [frames EXCEPT ![t] = q]
    OBVIOUS
  <1> HIDE DEF q
  <1>4. frames' \in [Hosts -> Seq(Signals)] /\ \A u \in Hosts : frames'[u] = IF u = t THEN q ELSE frames[u]
    BY <1>1, <1>2, <1>3
  <1>5. ASSUME NEW i \in 1..Len(f) + 1 PROVE i \in 1..Len(f) \/ i = Len(f) + 1
    BY <1>1
  <1>6. \A i \in 1..Len(f) : i \in 1..Len(q)
    BY <1>1, <1>2
  <1>7. Len(f) + 1 \in 1..Len(q)
    BY <1>1, <1>2
  <1> QED
    BY <1>2, <1>4, <1>5, <1>6, <1>7

LEMMA WithoutLast ==
  ASSUME NEW S, NEW f \in Seq(S), f # <<>>
  PROVE  /\ SubSeq(f, 1, Len(f) - 1) \in Seq(S) /\ Len(SubSeq(f, 1, Len(f) - 1)) = Len(f) - 1
         /\ \A i \in 1..Len(f) - 1 : SubSeq(f, 1, Len(f) - 1)[i] = f[i]
  <1>1. Len(f) \in Nat /\ Len(f) # 0
    OBVIOUS
  <1>2. PICK m \in Nat : m = Len(f) - 1
    BY <1>1
  <1>3. /\ SubSeq(f, 1, m) \in Seq(S) /\ Len(SubSeq(f, 1, m)) = m
        /\ \A i \in 1..m : SubSeq(f, 1, m)[i] = f[i]
    BY <1>1, <1>2
  <1> QED
    BY <1>2, <1>3

LEMMA PoppedFrames ==
  ASSUME FramesOK, NEW s \in Signals, Runs(s),
         frames' = [t \in Hosts |->
                       IF frames[t] # <<>> /\ frames[t][Len(frames[t])] = s
                       THEN SubSeq(frames[t], 1, Len(frames[t]) - 1) ELSE frames[t]]
  PROVE  /\ frames' \in [Hosts -> Seq(Signals)]
         /\ \A u \in Hosts : \A i \in 1..Len(frames'[u]) :
               i \in 1..Len(frames[u]) /\ frames'[u][i] = frames[u][i] /\ frames[u][i] # s
         /\ \A u \in Hosts : \A i \in 1..Len(frames[u]) : frames[u][i] # s =>
               i \in 1..Len(frames'[u]) /\ frames'[u][i] = frames[u][i]
  <1>1. ASSUME NEW u \in Hosts
        PROVE  /\ frames'[u] \in Seq(Signals)
               /\ \A i \in 1..Len(frames'[u]) :
                     i \in 1..Len(frames[u]) /\ frames'[u][i] = frames[u][i] /\ frames[u][i] # s
               /\ \A i \in 1..Len(frames[u]) : frames[u][i] # s =>
                     i \in 1..Len(frames'[u]) /\ frames'[u][i] = frames[u][i]
    <2> DEFINE f == frames[u]
    <2>1. f \in Seq(Signals) /\ Len(f) \in Nat
      BY DEF FramesOK
    <2>2. \A i, j \in 1..Len(f) : f[i] = f[j] => i = j
      BY DEF FramesOK
    <2>3. CASE f # <<>> /\ f[Len(f)] = s
      <3>1. frames'[u] = SubSeq(f, 1, Len(f) - 1)
        BY <2>3
      <3>2. /\ frames'[u] \in Seq(Signals) /\ Len(frames'[u]) = Len(f) - 1
            /\ \A i \in 1..Len(f) - 1 : frames'[u][i] = f[i]
        <4> HIDE DEF f
        <4> QED
          BY <2>1, <2>3, <3>1, WithoutLast
      <3> HIDE DEF f
      <3>3. Len(f) \in 1..Len(f) /\ \A i \in 1..Len(f) - 1 : i \in 1..Len(f) /\ i # Len(f)
        BY <2>1, <2>3
      <3>4. \A i \in 1..Len(f) : i # Len(f) => i \in 1..Len(f) - 1
        BY <2>1
      <3>5. \A i \in 1..Len(f) - 1 : f[i] # s
        BY <2>2, <2>3, <3>3
      <3> QED
        BY <2>3, <3>2, <3>3, <3>4, <3>5 DEF f
    <2>4. CASE ~(f # <<>> /\ f[Len(f)] = s)
      <3>1. frames'[u] = f
        BY <2>4
      <3>2. PICK t \in Hosts : frames[t] # <<>> /\ frames[t][Len(frames[t])] = s
        BY DEF Runs
      <3>3. u # t
        BY <2>4, <3>2
      <3>4. Len(frames[t]) \in 1..Len(frames[t])
        <4>1. frames[t] \in Seq(Signals)
          BY DEF FramesOK
        <4> QED
          BY <3>2, <4>1
      <3>5. ASSUME NEW i \in 1..Len(f), f[i] = s PROVE FALSE
        BY <3>2, <3>3, <3>4, <3>5 DEF FramesOK
      <3> QED
        BY <2>1, <3>1, <3>5
    <2> QED
      BY <2>3, <2>4
  <1>2. frames' \in [Hosts -> Seq(Signals)]
    BY <1>1
  <1> QED
    BY <1>1, <1>2

LEMMA TopOnly ==
  ASSUME FramesOK, NEW s \in Signals, Runs(s)
  PROVE  \A u \in Hosts : \A i \in 1..Len(frames[u]) : frames[u][i] = s => i = Len(frames[u])
  <1>1. PICK t \in Hosts : frames[t] # <<>> /\ frames[t][Len(frames[t])] = s
    BY DEF Runs
  <1>2. frames[t] \in Seq(Signals)
    BY DEF FramesOK
  <1>3. Len(frames[t]) \in 1..Len(frames[t])
    BY <1>1, <1>2
  <1> QED
    BY <1>1, <1>3 DEF FramesOK

(* Steps of a handler between its locking and its notification.             *)
LEMMA HandlerMoves ==
  ASSUME SignalOK, NEW s \in Signals,
         HandlerLock(s) \/ HandlerStore(s) \/ HandlerUnlock(s)
  PROVE  SignalOK'
  <1>0. FramesOK /\ MutexOK /\ FlagOK
    BY DEF SignalOK
  <1>1. /\ frames' = frames /\ waiter' = waiter /\ Runs(s)
        /\ \E from, to \in InHandler :
              handler[s] = from /\ handler' = [handler EXCEPT ![s] = to]
    BY DEF HandlerLock, HandlerStore, HandlerUnlock, HandlerGoto, InHandler
  <1>2. FramesOK'
    <2>1. /\ handler' \in [Signals -> InHandler \cup {"none", "done"}]
          /\ \A u \in Signals : handler'[u] \in InHandler <=> handler[u] \in InHandler
      BY <1>0, <1>1 DEF FramesOK
    <2> QED
      BY <1>0, <1>1, <2>1 DEF FramesOK
  <1>3. \A u \in Signals : u # s => handler'[u] = handler[u]
    BY <1>0, <1>1 DEF FramesOK
  <1>4. \A u \in Hosts : \A i \in 1..Len(frames[u]) : frames[u][i] \in Signals /\ Len(frames[u]) \in Nat
    BY <1>0 DEF FramesOK
  <1>5. \A u \in Hosts : \A i \in 1..Len(frames[u]) : frames[u][i] = s => i = Len(frames[u])
    BY <1>0, <1>1, TopOnly
  <1>s. Main \notin Signals /\ Nobody \notin Signals /\ Main # Nobody
    BY SignalAssumption DEF Main, Nobody
  <1>t. \A u \in Hosts : \A i \in 1..Len(frames[u]) : frames[u][i] = s =>
           \A j \in i + 1..Len(frames[u]) : FALSE
    BY <1>4, <1>5
  <1>6. CASE HandlerLock(s)
    <2>1. handler[s] = "lock" /\ handler'[s] = "store" /\ holder = Nobody /\ holder' = s /\ stopped' = stopped
      BY <1>0, <1>6 DEF HandlerLock, HandlerGoto, FramesOK
    <2>2. MutexOK'
      <3>1. waiter' \notin {"holding", "returning"}
        BY <1>0, <1>1, <1>s, <2>1 DEF MutexOK
      <3>2. \A r \in Signals : holder' = r <=> handler'[r] \in {"store", "unlock"}
        BY <1>0, <1>3, <1>s, <2>1 DEF MutexOK
      <3> QED
        BY <1>1, <1>s, <1>t, <2>1, <3>1, <3>2 DEF MutexOK
    <2>3. FlagOK'
      BY <1>0, <1>1, <1>3, <2>1 DEF FlagOK
    <2> QED
      BY <1>2, <2>2, <2>3 DEF SignalOK
  <1>7. CASE HandlerStore(s)
    <2>1. handler[s] = "store" /\ handler'[s] = "unlock" /\ holder' = holder /\ stopped' = TRUE
      BY <1>0, <1>7 DEF HandlerStore, HandlerGoto, FramesOK
    <2>2. holder = s
      BY <1>0, <2>1 DEF MutexOK
    <2>3. MutexOK'
      <3>1. \A r \in Signals : holder' = r <=> handler'[r] \in {"store", "unlock"}
        BY <1>0, <1>3, <2>1, <2>2 DEF MutexOK
      <3> QED
        BY <1>0, <1>1, <1>s, <1>t, <2>1, <2>2, <3>1 DEF MutexOK
    <2>4. FlagOK'
      BY <1>0, <1>1, <1>3, <2>1 DEF FlagOK
    <2> QED
      BY <1>2, <2>3, <2>4 DEF SignalOK
  <1>8. CASE HandlerUnlock(s)
    <2>1. handler[s] = "unlock" /\ handler'[s] = "notify" /\ holder' = Nobody /\ stopped' = stopped
      BY <1>0, <1>8 DEF HandlerUnlock, HandlerGoto, FramesOK
    <2>2. holder = s
      BY <1>0, <2>1 DEF MutexOK
    <2>3. MutexOK'
      <3>1. \A r \in Signals : holder' = r <=> handler'[r] \in {"store", "unlock"}
        BY <1>0, <1>3, <1>s, <2>1, <2>2 DEF MutexOK
      <3>2. waiter' \notin {"holding", "returning"}
        BY <1>0, <1>1, <1>s, <2>2 DEF MutexOK
      <3> QED
        BY <1>1, <1>s, <1>4, <2>1, <3>1, <3>2 DEF MutexOK
    <2>4. FlagOK'
      BY <1>0, <1>1, <1>3, <2>1 DEF FlagOK
    <2> QED
      BY <1>2, <2>3, <2>4 DEF SignalOK
  <1> QED
    BY <1>6, <1>7, <1>8

LEMMA HandlerReturns ==
  ASSUME SignalOK, NEW s \in Signals, HandlerNotify(s)
  PROVE  SignalOK'
  <1>0. FramesOK /\ MutexOK /\ FlagOK
    BY DEF SignalOK
  <1>1. /\ Runs(s) /\ handler[s] = "notify" /\ handler' = [handler EXCEPT ![s] = "done"]
        /\ waiter' = (IF waiter = "blocked" THEN "woken" ELSE waiter)
        /\ UNCHANGED <<stopped, holder>>
    BY DEF HandlerNotify, HandlerGoto
  <1>2. /\ frames' \in [Hosts -> Seq(Signals)]
        /\ \A u \in Hosts : \A i \in 1..Len(frames'[u]) :
              i \in 1..Len(frames[u]) /\ frames'[u][i] = frames[u][i] /\ frames[u][i] # s
        /\ \A u \in Hosts : \A i \in 1..Len(frames[u]) : frames[u][i] # s =>
              i \in 1..Len(frames'[u]) /\ frames'[u][i] = frames[u][i]
    BY <1>0, PoppedFrames DEF HandlerNotify
  <1>3. /\ handler' \in [Signals -> InHandler \cup {"none", "done"}] /\ handler'[s] = "done"
        /\ \A u \in Signals : u # s => handler'[u] = handler[u]
    BY <1>0, <1>1 DEF FramesOK
  <1>4. \A u \in Hosts : \A i \in 1..Len(frames[u]) : frames[u][i] \in Signals /\ Len(frames[u]) \in Nat
    BY <1>0 DEF FramesOK
  <1>5. FramesOK'
    <2>1. ASSUME NEW t \in Hosts, NEW u \in Hosts, NEW i \in 1..Len(frames'[t]),
                 NEW j \in 1..Len(frames'[u]), frames'[t][i] = frames'[u][j]
          PROVE  t = u /\ i = j
      BY <1>0, <1>2, <2>1 DEF FramesOK
    <2>2. ASSUME NEW r \in Signals
          PROVE  handler'[r] \in InHandler <=>
                    \E t \in Hosts : \E i \in 1..Len(frames'[t]) : frames'[t][i] = r
      <3>1. CASE r = s
        BY <1>2, <1>3, <3>1 DEF InHandler
      <3>2. CASE r # s
        <4>1. (\E t \in Hosts : \E i \in 1..Len(frames'[t]) : frames'[t][i] = r)
              <=> \E t \in Hosts : \E i \in 1..Len(frames[t]) : frames[t][i] = r
          <5>1. ASSUME NEW t \in Hosts, NEW i \in 1..Len(frames'[t]), frames'[t][i] = r
                PROVE  i \in 1..Len(frames[t]) /\ frames[t][i] = r
            BY <1>2, <5>1
          <5>2. ASSUME NEW t \in Hosts, NEW i \in 1..Len(frames[t]), frames[t][i] = r
                PROVE  i \in 1..Len(frames'[t]) /\ frames'[t][i] = r
            BY <1>2, <3>2, <5>2
          <5> QED
            BY <5>1, <5>2
        <4> QED
          BY <1>0, <1>3, <3>2, <4>1 DEF FramesOK
      <3> QED
        BY <3>1, <3>2
    <2> QED
      BY <1>2, <1>3, <2>1, <2>2 DEF FramesOK
  <1>6. MutexOK'
    <2>1. holder # s
      BY <1>0, <1>1 DEF MutexOK
    <2>2. ASSUME NEW t \in Hosts, NEW i \in 1..Len(frames'[t]), frames'[t][i] = holder,
                 NEW j \in i + 1..Len(frames'[t])
          PROVE  handler'[frames'[t][j]] = "lock"
      <3>1. j \in 1..Len(frames'[t])
        <4>1. Len(frames'[t]) \in Nat
          BY <1>2
        <4> QED
          BY <4>1
      <3>2. /\ i \in 1..Len(frames[t]) /\ frames[t][i] = holder
            /\ j \in 1..Len(frames[t]) /\ frames'[t][j] = frames[t][j] /\ frames[t][j] # s
        BY <1>2, <2>2, <3>1
      <3>3. handler[frames[t][j]] = "lock"
        BY <1>0, <3>2 DEF MutexOK
      <3> QED
        BY <1>3, <1>4, <3>2, <3>3
    <2>3. ASSUME holder = Main, NEW i \in 1..Len(frames'[Main])
          PROVE  handler'[frames'[Main][i]] = "lock"
      <3>1. Main \in Hosts
        BY DEF Hosts
      <3>2. handler[frames[Main][i]] = "lock" /\ frames'[Main][i] = frames[Main][i]
            /\ frames[Main][i] # s /\ i \in 1..Len(frames[Main])
        BY <1>0, <1>2, <2>3, <3>1 DEF MutexOK
      <3> QED
        BY <1>3, <1>4, <3>1, <3>2
    <2>4. \A r \in Signals : holder = r <=> handler'[r] \in {"store", "unlock"}
      BY <1>0, <1>1, <1>3 DEF MutexOK
    <2> QED
      BY <1>0, <1>1, <2>2, <2>3, <2>4 DEF MutexOK
  <1>7. FlagOK'
    BY <1>0, <1>1, <1>3 DEF FlagOK
  <1> QED
    BY <1>5, <1>6, <1>7 DEF SignalOK

LEMMA SignalArrives ==
  ASSUME SignalOK, NEW s \in Signals, NEW t \in Hosts, Raise(s, t)
  PROVE  SignalOK'
  <1>0. FramesOK /\ MutexOK /\ FlagOK
    BY DEF SignalOK
  <1>1. /\ handler[s] = "none" /\ handler' = [handler EXCEPT ![s] = "lock"]
        /\ UNCHANGED <<stopped, holder, waiter>>
    BY DEF Raise, HandlerGoto
  <1>2. /\ frames' \in [Hosts -> Seq(Signals)]
        /\ \A u \in Hosts : \A i \in 1..Len(frames[u]) :
              i \in 1..Len(frames'[u]) /\ frames'[u][i] = frames[u][i]
        /\ \E i \in 1..Len(frames'[t]) : frames'[t][i] = s
        /\ \A u \in Hosts : \A i \in 1..Len(frames'[u]) :
              \/ i \in 1..Len(frames[u]) /\ frames'[u][i] = frames[u][i]
              \/ u = t /\ i = Len(frames[t]) + 1 /\ frames'[u][i] = s
    BY <1>0, RaisedFrames DEF Raise
  <1>3. /\ handler' \in [Signals -> InHandler \cup {"none", "done"}] /\ handler'[s] = "lock"
        /\ \A u \in Signals : u # s => handler'[u] = handler[u]
    BY <1>0, <1>1 DEF FramesOK, InHandler
  <1>4. \A u \in Hosts : \A i \in 1..Len(frames[u]) : frames[u][i] \in Signals /\ frames[u][i] # s
    BY <1>0, <1>1 DEF FramesOK, InHandler
  <1>5. FramesOK'
    <2>1. ASSUME NEW v \in Hosts, NEW u \in Hosts, NEW i \in 1..Len(frames'[v]),
                 NEW j \in 1..Len(frames'[u]), frames'[v][i] = frames'[u][j]
          PROVE  v = u /\ i = j
      <3>1. CASE frames'[v][i] = s
        <4>1. v = t /\ i = Len(frames[t]) + 1
          BY <1>2, <1>4, <3>1
        <4>2. u = t /\ j = Len(frames[t]) + 1
          <5>1. frames'[u][j] = s
            BY <2>1, <3>1
          <5> QED
            BY <1>2, <1>4, <5>1
        <4> QED
          BY <4>1, <4>2
      <3>2. CASE frames'[v][i] # s
        <4>1. /\ i \in 1..Len(frames[v]) /\ frames[v][i] = frames'[v][i]
              /\ j \in 1..Len(frames[u]) /\ frames[u][j] = frames'[u][j]
          BY <1>2, <2>1, <3>2
        <4> QED
          BY <1>0, <2>1, <4>1 DEF FramesOK
      <3> QED
        BY <3>1, <3>2
    <2>2. ASSUME NEW r \in Signals
          PROVE  handler'[r] \in InHandler <=>
                    \E u \in Hosts : \E i \in 1..Len(frames'[u]) : frames'[u][i] = r
      <3>1. CASE r = s
        BY <1>2, <1>3, <3>1 DEF InHandler
      <3>2. CASE r # s
        <4>1. (\E u \in Hosts : \E i \in 1..Len(frames'[u]) : frames'[u][i] = r)
              <=> \E u \in Hosts : \E i \in 1..Len(frames[u]) : frames[u][i] = r
          <5>1. ASSUME NEW u \in Hosts, NEW i \in 1..Len(frames'[u]), frames'[u][i] = r
                PROVE  i \in 1..Len(frames[u]) /\ frames[u][i] = r
            BY <1>2, <3>2, <5>1
          <5>2. ASSUME NEW u \in Hosts, NEW i \in 1..Len(frames[u]), frames[u][i] = r
                PROVE  i \in 1..Len(frames'[u]) /\ frames'[u][i] = r
            BY <1>2, <5>2
          <5> QED
            BY <5>1, <5>2
        <4> QED
          BY <1>0, <1>3, <3>2, <4>1 DEF FramesOK
      <3> QED
        BY <3>1, <3>2
    <2> QED
      BY <1>2, <1>3, <2>1, <2>2 DEF FramesOK
  <1>6. \A u \in Hosts : \A i \in 1..Len(frames'[u]) :
           \/ frames'[u][i] = s
           \/ /\ i \in 1..Len(frames[u]) /\ frames'[u][i] = frames[u][i]
              /\ handler'[frames'[u][i]] = handler[frames[u][i]]
    BY <1>2, <1>3, <1>4
  <1>7. MutexOK'
    <2>1. holder # s
      BY <1>0, <1>1 DEF MutexOK
    <2>2. ASSUME NEW u \in Hosts, NEW i \in 1..Len(frames'[u]), frames'[u][i] = holder,
                 NEW j \in i + 1..Len(frames'[u])
          PROVE  handler'[frames'[u][j]] = "lock"
      <3>1. j \in 1..Len(frames'[u])
        <4>1. Len(frames'[u]) \in Nat
          BY <1>2
        <4> QED
          BY <4>1
      <3>2. CASE frames'[u][j] = s
        BY <1>3, <3>2
      <3>3. CASE /\ j \in 1..Len(frames[u]) /\ frames'[u][j] = frames[u][j]
                 /\ handler'[frames'[u][j]] = handler[frames[u][j]]
        <4>1. i \in 1..Len(frames[u]) /\ frames[u][i] = holder
          BY <1>6, <2>1, <2>2
        <4>2. handler[frames[u][j]] = "lock"
          BY <1>0, <3>3, <4>1 DEF MutexOK
        <4> QED
          BY <3>3, <4>2
      <3> QED
        BY <1>6, <3>1, <3>2, <3>3
    <2>3. ASSUME holder = Main, NEW i \in 1..Len(frames'[Main])
          PROVE  handler'[frames'[Main][i]] = "lock"
      <3>1. Main \in Hosts
        BY DEF Hosts
      <3> QED
        BY <1>0, <1>3, <1>6, <2>3, <3>1 DEF MutexOK
    <2>4. \A r \in Signals : holder = r <=> handler'[r] \in {"store", "unlock"}
      BY <1>0, <1>1, <1>3 DEF MutexOK
    <2> QED
      BY <1>0, <1>1, <2>2, <2>3, <2>4 DEF MutexOK
  <1>8. FlagOK'
    BY <1>0, <1>1, <1>3 DEF FlagOK
  <1> QED
    BY <1>5, <1>7, <1>8 DEF SignalOK

LEMMA StepSignal == SignalOK /\ [SignalStep]_signalVars => SignalOK'
  <1> SUFFICES ASSUME SignalOK, [SignalStep]_signalVars PROVE SignalOK'
    OBVIOUS
  <1>0. FramesOK /\ MutexOK /\ FlagOK
    BY DEF SignalOK
  <1>1. CASE WaitStep
    <2>1. /\ UNCHANGED <<stopped, handler, frames>>
          /\ frames[Main] = <<>> /\ Main \in Hosts
      BY <1>1 DEF WaitStep, WaitLock, WaitTest, WaitUnlock, MainRuns, Hosts
    <2>2. /\ \/ waiter' = "holding" /\ holder = Nobody /\ holder' = Main
             \/ waiter = "holding" /\ waiter' = "returning" /\ holder' = holder /\ stopped
             \/ waiter = "holding" /\ waiter' = "blocked" /\ holder' = Nobody /\ ~stopped
             \/ waiter = "returning" /\ waiter' = "returned" /\ holder' = Nobody
          /\ waiter \in {"away", "woken", "holding", "returning"}
      BY <1>1 DEF WaitStep, WaitLock, WaitTest, WaitUnlock
    <2>3. \A u \in Hosts : \A i \in 1..Len(frames[u]) : frames[u][i] \in Signals
      BY <1>0 DEF FramesOK
    <2>4. Len(frames[Main]) = 0
      BY <2>1
    <2>5. FramesOK' /\ FlagOK'
      BY <1>0, <2>1, <2>2 DEF FramesOK, FlagOK
    <2>6. MutexOK'
      BY <1>0, <2>1, <2>2, <2>3, <2>4, SignalAssumption DEF MutexOK, Main, Nobody
    <2> QED
      BY <2>5, <2>6 DEF SignalOK
  <1>2. ASSUME NEW s \in Signals, HandlerStep(s) PROVE SignalOK'
    BY <1>2, HandlerMoves, HandlerReturns DEF HandlerStep
  <1>3. ASSUME NEW s \in Signals, NEW t \in Hosts, Raise(s, t) PROVE SignalOK'
    BY <1>3, SignalArrives
  <1>4. CASE UNCHANGED signalVars
    BY <1>0, <1>4 DEF signalVars, SignalOK, FramesOK, MutexOK, FlagOK
  <1> QED
    BY <1>1, <1>2, <1>3, <1>4 DEF SignalStep

(* Run has no result but the ones of a failure until Wait has returned.     *)
WaitedFor == rc = 0 => waiter = "returned"

LEMMA StepWaited == WaitedFor /\ [Next]_vars => WaitedFor'
  <1> SUFFICES ASSUME WaitedFor, [Next]_vars PROVE WaitedFor'
    OBVIOUS
  <1>1. waiter = "returned" => waiter' = "returned"
    <2>1. [SignalStep]_signalVars
      BY SignalsMove
    <2> QED
      BY <2>1 DEF SignalStep, signalVars, WaitStep, WaitLock, WaitTest, WaitUnlock, HandlerStep,
                  HandlerLock, HandlerStore, HandlerUnlock, HandlerNotify, Raise
  <1>2. rc' = rc \/ rc' \in {1, 2, 3} \/ waiter' = "returned"
    <2>1. CASE MainStep
      <3>1. Stop => rc' = rc
        BY DEF Stop, AskDown, EraseDown, JoinDown, UnsetMw, FreeComm, ClearSubs
      <3>2. Start => rc' = rc \/ rc' \in {1, 2, 3}
        BY DEF Start, Begin, DeclareBusiness, StartWorker, EnlistWorker, RegisterSubRoutes,
               StartServices, ConsoleStart, CreateService, EnlistService, ControlStart,
               RegisterCtlRoutes, RegisterCommands, Verdict
      <3>3. WaitStop => rc' = rc \/ waiter' = "returned"
        BY DEF WaitStop, signalVars
      <3> QED
        BY <2>1, <3>1, <3>2, <3>3 DEF MainStep
    <2>2. ~MainStep => rc' = rc
      <3>1. ASSUME NEW n \in Names, ThreadStep(n) PROVE rc' = rc
        BY <3>1 DEF ThreadStep, ThreadEnds, WorkerTakes, WorkerPublishes, WorkerFinishes,
                    ControlTakes, ControlExecutes, ControlResponds, assemblyVars
      <3>2. ASSUME NEW c \in Typed, SubmitLine(c) PROVE rc' = rc
        BY <3>2 DEF SubmitLine, assemblyVars
      <3>3. ASSUME NEW r \in Routes, RouteBegin(r) \/ RouteEnd(r) PROVE rc' = rc
        BY <3>3 DEF RouteBegin, RouteEnd, assemblyVars
      <3>4. ASSUME NEW s \in Signals, OnSignal(s) \/ \E t \in Hosts : Interrupt(s, t)
            PROVE  rc' = rc
        BY <3>4 DEF OnSignal, Interrupt, assemblyVars
      <3> QED
        BY <3>1, <3>2, <3>3, <3>4 DEF Next, vars, assemblyVars
    <2> QED
      BY <2>1, <2>2
  <1> QED
    BY <1>1, <1>2 DEF WaitedFor

LEMMA SignalsOK == Spec => []SignalOK
  <1>1. Init => SignalOK
    <2> SUFFICES ASSUME Init PROVE SignalOK
      OBVIOUS
    <2>1. /\ stopped = FALSE /\ holder = Nobody /\ waiter = "away"
          /\ handler = [s \in Signals |-> "none"] /\ frames = [t \in Hosts |-> <<>>]
      BY DEF Init, SignalInit
    <2>2. \A t \in Hosts : frames[t] = <<>> /\ 1..Len(frames[t]) = {}
      BY <2>1
    <2>3. FramesOK
      <3>1. frames \in [Hosts -> Seq(Signals)]
        BY <2>1
      <3>2. \A s \in Signals : handler[s] = "none"
        BY <2>1
      <3> QED
        BY <2>1, <2>2, <3>1, <3>2 DEF FramesOK, InHandler
    <2>4. MutexOK
      BY <2>1, <2>2, SignalAssumption DEF MutexOK, Main, Nobody, Hosts
    <2>5. FlagOK
      BY <2>1 DEF FlagOK
    <2> QED
      BY <2>3, <2>4, <2>5 DEF SignalOK
  <1>2. SignalOK /\ [Next]_vars => SignalOK'
    BY SignalsMove, StepSignal
  <1> QED
    BY <1>1, <1>2, PTL DEF Spec

(* The main thread is blocked with the flag set only while a handler that   *)
(* has set it lies on some thread and has yet to notify.                    *)
StopNotLost ==
    /\ waiter = "blocked" /\ stopped =>
           \E s \in Signals : /\ handler[s] \in {"unlock", "notify"}
                              /\ \E t \in Hosts : \E i \in 1..Len(frames[t]) : frames[t][i] = s
    /\ rc = 0 => stopped

(* No stop is slept through (StopSignal::Wait and Request), and Run returns *)
(* 0 only after one.                                                        *)
THEOREM StopIsNotLost == Spec => []StopNotLost
  <1>1. Init => WaitedFor
    BY DEF Init, WaitedFor
  <1>2. SignalOK /\ WaitedFor => StopNotLost
    BY DEF SignalOK, FramesOK, FlagOK, WaitedFor, StopNotLost, InHandler
  <1> QED
    BY <1>1, <1>2, SignalsOK, StepWaited, PTL DEF Spec

(* Whoever holds the stop signal's mutex can run on, the main thread or a   *)
(* handler, except where a handler waits for the mutex on top of it.        *)
HolderRuns ==
    ~SelfLocked => /\ holder = Main => MainRuns
                   /\ holder \in Signals => Runs(holder)

(* Nobody waits for the mutex in vain unless a handler has interrupted the  *)
(* thread, or the handler, that holds it (StopSignal::Request).             *)
THEOREM OnlySelfLockBlocks == Spec => []HolderRuns
  <1>1. SignalOK => HolderRuns
    <2> SUFFICES ASSUME FramesOK, MutexOK, ~SelfLocked PROVE HolderRuns
      BY DEF SignalOK, HolderRuns
    <2>1. ASSUME NEW t \in Hosts, frames[t] # <<>>
          PROVE  Len(frames[t]) \in 1..Len(frames[t]) /\ Len(frames[t]) \in Nat
      <3>1. frames[t] \in Seq(Signals)
        BY DEF FramesOK
      <3> QED
        BY <2>1, <3>1
    <2>2. holder = Main => MainRuns
      <3> SUFFICES ASSUME holder = Main, frames[Main] # <<>> PROVE FALSE
        BY DEF MainRuns
      <3>1. Main \in Hosts
        BY DEF Hosts
      <3>2. handler[frames[Main][Len(frames[Main])]] = "lock"
        BY <2>1, <3>1 DEF MutexOK
      <3> QED
        BY <3>1, <3>2 DEF SelfLocked
    <2>3. holder \in Signals => Runs(holder)
      <3> SUFFICES ASSUME holder \in Signals PROVE Runs(holder)
        OBVIOUS
      <3>1. PICK t \in Hosts : \E i \in 1..Len(frames[t]) : frames[t][i] = holder
        BY DEF FramesOK, MutexOK, InHandler
      <3>2. PICK i \in 1..Len(frames[t]) : frames[t][i] = holder
        BY <3>1
      <3>3. frames[t] # <<>>
        BY <3>2
      <3>4. CASE i = Len(frames[t])
        BY <3>2, <3>3, <3>4 DEF Runs
      <3>5. CASE i # Len(frames[t])
        <4>1. Len(frames[t]) \in i + 1..Len(frames[t])
          BY <2>1, <3>2, <3>3, <3>5
        <4>2. handler[frames[t][Len(frames[t])]] = "lock"
          BY <3>2, <4>1 DEF MutexOK
        <4> QED
          BY <3>2, <3>3, <4>2 DEF SelfLocked
      <3> QED
        BY <3>4, <3>5
    <2> QED
      BY <2>2, <2>3 DEF HolderRuns
  <1> QED
    BY <1>1, SignalsOK, PTL
=============================================================================
