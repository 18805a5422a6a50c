------------------------------- MODULE Ingest -------------------------------
(***************************************************************************)
(* From the application to the data thread: an agent publishes what it     *)
(* takes from the double buffer, other processes publish task activations  *)
(* and requests, and the communicator of the data process receives and     *)
(* routes all of it while it is still subscribing.                         *)
(***************************************************************************)
EXTENDS PingPong, Communicator

CONSTANTS
    OutKey,     \* AgentCfg::outKey: the endpoint the agent publishes to
    Requests,   \* endpoints other processes publish to
    Fits,       \* whether their messages have a plain channel's size
    MaxRequests \* bound: their messages

ASSUME IngestAssumption == MaxRequests \in Nat

VARIABLES
    requests,   \* messages of other processes so far
    batches     \* batches of the agent so far

vars == <<pingVars, commVars, requests, batches>>

Init == PingInit /\ CommInit /\ requests = 0 /\ batches = 0

(* A batch is numbered after the requests.                                  *)
Batch == [ep |-> OutKey, no |-> MaxRequests + batches + 1, fits |-> TRUE]

(* AgentCfg::publish: the batch goes to the wire and to the data process.   *)
AgentPublishes ==
    /\ Publish /\ batches' = batches + 1
    /\ Incoming(Batch)
    /\ UNCHANGED requests

(* The application writes beside a complete assembly: a bound.  A batch     *)
(* that comes earlier, or for which there is no reader, is lost like a      *)
(* request.                                                                 *)
AgentStep ==
    /\ phase = "up" /\ refused = 0
    /\ \/ \E l \in Records : WriteLoad(l)
       \/ WriterStep \/ ReaderStep \/ Destroy
    /\ UNCHANGED <<commVars, requests, batches>>

Request(e, f) ==
    /\ requests < MaxRequests /\ requests' = requests + 1
    /\ Incoming([ep |-> e, no |-> requests + 1, fits |-> f])
    /\ UNCHANGED <<pingVars, batches>>

CommStep ==
    /\ \/ Assembly
       \/ \E e \in Subscribed : Listens(e)
       \/ \E t \in Threads : ThreadStep(t)
    /\ UNCHANGED <<pingVars, requests, batches>>

Next ==
    \/ AgentStep \/ AgentPublishes \/ CommStep
    \/ \E e \in Requests, f \in Fits : Request(e, f)

Spec == Init /\ [][Next]_vars /\ CommFairness

-----------------------------------------------------------------------------
(* Messages that can reach a reader and are no ticks: requests, and the     *)
(* agent's batches.                                                         *)
Inputs == [ep : {e \in Requests : e[2] # TimerId}, no : 1..MaxRequests, fits : Fits]
          \cup [ep : {OutKey}, no : MaxRequests + 1..MaxRequests + MaxWrites, fits : {TRUE}]

(* Endpoint and number identify a message: handlers publish to endpoints of *)
(* their own, which neither other processes nor the agent publish to.       *)
OwnTargets ==
    /\ \A h, g \in DOMAIN Reaction : Reaction[h].to = Reaction[g].to => h = g
    /\ \A h \in DOMAIN Reaction : Reaction[h].to \notin Requests \cup {OutKey}

(* Every such message that a reader has received is handled, unless newer   *)
(* samples of its endpoint overwrite it.                                    *)
AllTaken == \A m \in Inputs : Taken(m)
=============================================================================
