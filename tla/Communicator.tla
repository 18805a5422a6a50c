---------------------------- MODULE Communicator ----------------------------
(***************************************************************************)
(* detmw in one process: construction from the configuration, subscription *)
(* (a reader, then the local table), publication to the wire or straight   *)
(* to a local subscriber, the receive listener that drains a reader, and   *)
(* the way of a message from its mailbox through the tables of business    *)
(* groups to its handler, which may publish in turn.                       *)
(*                                                                         *)
(* FastDDS is a keep-last history per reader, which drops its oldest       *)
(* sample when it is full, and a wire that other processes read.  An       *)
(* endpoint has one subscriber here: the local table keeps a list, and the *)
(* routes of the shipped processes enter each endpoint once.               *)
(***************************************************************************)
EXTENDS Naturals, Sequences, FiniteSets

CONSTANTS
    SubRoutes,  \* the endpoints this process subscribes, in order
    ThreadOf,   \* the thread each is routed to
    Publishes,  \* the endpoints the configuration lists with role publish
    Plain,      \* those of a fixed size
    Tables,     \* each thread's endpoints with a handler: <<instance, msgId>>
    Reaction,   \* what a handler publishes: [kind, to], or nothing
    TimerId,    \* MSG_ID_TIMER, the msgId that means a tick
    StatusId,   \* MSG_ID_STATUS, the msgId that means a thread's status
    Depth,      \* KEEP_LAST depth
    MaxRefused  \* bound: writers and readers FastDDS does not create

Subscribed == {SubRoutes[i] : i \in DOMAIN SubRoutes}
Threads == {ThreadOf[e] : e \in Subscribed}

ASSUME CommunicatorAssumption ==
    /\ SubRoutes \in Seq(Subscribed)
    /\ Subscribed \subseteq DOMAIN ThreadOf /\ Threads \subseteq DOMAIN Tables
    /\ Plain \subseteq Publishes /\ Depth \in Nat \ {0} /\ MaxRefused \in Nat
    /\ \A e \in Subscribed \cup DOMAIN Reaction \cup UNION {Tables[t] : t \in Threads} :
          e = <<e[1], e[2]>>

VARIABLES
    phase,      \* none, bad, assembling, up
    next,       \* the subscription in progress: index in SubRoutes
    writers,    \* endpoints with a writer
    readers,    \* endpoints with a reader
    localSubs,  \* endpoints in the local table
    refused,    \* writers and readers not created so far
    history,    \* each reader's samples
    available,  \* readers with a notification nobody has taken
    draining,   \* readers whose listener runs
    box,        \* each thread's mailbox: messages with the stamped instance
    hand,       \* what the running handler will publish, if anything
    status,     \* the message that last set each thread's status, if any
    handled,    \* history: calls of handlers, ticks, and messages without either
    overwritten,\* history: samples lost to the depth
    direct,     \* history: messages that publish_internal has delivered
    wire        \* history: messages that have left the process

commVars == <<phase, next, writers, readers, localSubs, refused, history, available,
              draining, box, hand, status, handled, overwritten, direct, wire>>
assembled == <<phase, next, writers, readers, localSubs, refused>>

CommInit ==
    /\ phase = "none" /\ next = 1 /\ refused = 0
    /\ writers = {} /\ readers = {} /\ localSubs = {}
    /\ history = [e \in Subscribed |-> <<>>] /\ available = {} /\ draining = {}
    /\ box = [t \in Threads |-> <<>>] /\ hand = [t \in Threads |-> <<>>]
    /\ status = [t \in Threads |-> <<>>]
    /\ handled = {} /\ overwritten = {} /\ direct = {} /\ wire = {}

-----------------------------------------------------------------------------
(* Without a configuration it can use, without the shared memory that       *)
(* DETMW_BUCKET asks for or without a participant, the communicator is not  *)
(* good.                                                                    *)
TransportFails ==
    /\ phase' = "bad"
    /\ UNCHANGED <<writers, refused>>

(* Writers are made in advance; one that cannot be made is only missing.    *)
CreateWriters ==
    \E missing \in SUBSET Publishes :
        /\ Cardinality(missing) <= MaxRefused
        /\ writers' = Publishes \ missing /\ refused' = Cardinality(missing)
        /\ phase' = "assembling"

(* The constructor.                                                         *)
Construct ==
    /\ phase = "none"
    /\ TransportFails \/ CreateWriters
    /\ UNCHANGED <<next, readers, localSubs, history, available, draining, box, hand,
                   status, handled, overwritten, direct, wire>>

(* subscribe: first the reader ...                                          *)
CreateReader ==
    /\ phase = "assembling" /\ next <= Len(SubRoutes)
    /\ SubRoutes[next] \notin readers
    /\ \/ /\ readers' = readers \cup {SubRoutes[next]} /\ UNCHANGED <<next, refused>>
       \/ /\ refused < MaxRefused /\ refused' = refused + 1
          /\ next' = next + 1 /\ UNCHANGED readers
    /\ UNCHANGED <<phase, writers, localSubs, history, available, draining, box, hand,
                   status, handled, overwritten, direct, wire>>

(* ... then the entry in the local table, under its mutex.                  *)
EnterLocal ==
    /\ phase = "assembling" /\ next <= Len(SubRoutes)
    /\ SubRoutes[next] \in readers
    /\ localSubs' = localSubs \cup {SubRoutes[next]} /\ next' = next + 1
    /\ UNCHANGED <<phase, writers, readers, refused, history, available, draining, box,
                   hand, status, handled, overwritten, direct, wire>>

Assembled ==
    /\ phase = "assembling" /\ next > Len(SubRoutes) /\ phase' = "up"
    /\ UNCHANGED <<next, writers, readers, localSubs, refused, history, available,
                   draining, box, hand, status, handled, overwritten, direct, wire>>

-----------------------------------------------------------------------------
(* A sample reaches the reader of its endpoint, if there is one.            *)
Keep(s) == IF Len(s) > Depth THEN Tail(s) ELSE s
Lost(s) == IF Len(s) > Depth THEN {Head(s)} ELSE {}

Arrives(m) ==
    IF m.ep \in readers
    THEN LET s == Append(history[m.ep], m)
         IN  /\ history' = [history EXCEPT ![m.ep] = Keep(s)]
             /\ overwritten' = overwritten \cup Lost(s)
             /\ available' = available \cup {m.ep}
    ELSE UNCHANGED <<history, overwritten, available>>

(* Send: an endpoint needs its writer, and a fixed size is strict.  A       *)
(* sample goes to other processes and to a reader of this one; a write may  *)
(* also fail.                                                               *)
Sendable(m) == m.ep \in writers /\ (m.ep \in Plain => m.fits)

Send(m) ==
    \/ Sendable(m) /\ wire' = wire \cup {m} /\ Arrives(m)
    \/ UNCHANGED <<wire, history, overwritten, available>>

(* A message that another process has published.                            *)
Incoming(m) ==
    /\ phase \in {"assembling", "up"}
    /\ Arrives(m)
    /\ UNCHANGED <<assembled, draining, box, hand, status, handled, direct, wire>>

-----------------------------------------------------------------------------
(* on_data_available: FastDDS calls the listener for a notification; what   *)
(* arrives while it runs is notified again.                                 *)
ListenerBegins(e) ==
    /\ e \in available /\ e \notin draining
    /\ available' = available \ {e} /\ draining' = draining \cup {e}
    /\ UNCHANGED <<assembled, history, box, hand, status, handled, overwritten, direct, wire>>

(* OnRouteMsg: the message is stamped with its subscription's instance.     *)
Post(b, m) == [b EXCEPT ![ThreadOf[m.ep]] = Append(@, m)]

(* Faulty variant: one sample per call.                                     *)
TakeSample_One(e) ==
    /\ e \in draining
    /\ IF history[e] = <<>> THEN UNCHANGED <<history, box>>
       ELSE /\ history' = [history EXCEPT ![e] = Tail(@)]
            /\ box' = Post(box, Head(history[e]))
    /\ draining' = draining \ {e}
    /\ UNCHANGED <<assembled, available, hand, status, handled, overwritten, direct, wire>>

(* take_next_sample and the callback, until nothing is left.                *)
TakeSample(e) ==
    /\ e \in draining
    /\ IF history[e] = <<>> THEN draining' = draining \ {e} /\ UNCHANGED <<history, box>>
       ELSE /\ history' = [history EXCEPT ![e] = Tail(@)]
            /\ box' = Post(box, Head(history[e])) /\ UNCHANGED draining
    /\ UNCHANGED <<assembled, available, hand, status, handled, overwritten, direct, wire>>

-----------------------------------------------------------------------------
(* FindSessionTable: the business group with the stamped instance.          *)
GroupOf(t, m) == {h \in Tables[t] : h[1] = m.ep[1]}

(* Faulty variant: the tables are searched for the msgId alone.             *)
HandlerOf_ByMsgId(t, m) == {h \in Tables[t] : h[2] = m.ep[2]}

(* MsgTable::Find, in the table of the message's group.                     *)
HandlerOf(t, m) == {h \in GroupOf(t, m) : h[2] = m.ep[2]}

(* What a thread calls for a tick, published or its own.                    *)
Tick == <<TimerId>>

(* Faulty variant: a handler that a group lists goes before the tick.       *)
Called_GroupFirst(t, m) ==
    IF HandlerOf(t, m) # {} THEN CHOOSE h \in HandlerOf(t, m) : TRUE
    ELSE IF m.ep[2] = TimerId THEN Tick
    ELSE <<>>

(* The entry functions take a message with the tick's msgId as a tick,      *)
(* before they look for its group; a message without a handler is logged    *)
(* and dropped.                                                             *)
Called(t, m) ==
    IF m.ep[2] = TimerId THEN Tick
    ELSE IF HandlerOf(t, m) # {} THEN CHOOSE h \in HandlerOf(t, m) : TRUE
    ELSE <<>>

(* A message with the status's msgId and the size of a status sets the      *)
(* status of its thread, and goes on to the entry function like any other.  *)
SetsStatus(t, m) ==
    IF m.ep[2] = StatusId /\ m.fits THEN status' = [status EXCEPT ![t] = <<m>>]
    ELSE UNCHANGED status

(* A thread takes its next message to what its entry function calls for it. *)
Dispatch(t) ==
    /\ hand[t] = <<>> /\ box[t] # <<>>
    /\ LET m == Head(box[t])
           h == Called(t, m)
       IN  /\ SetsStatus(t, m)
           /\ handled' = handled \cup {[by |-> h, msg |-> m]}
           /\ hand' = [hand EXCEPT ![t] =
                 IF h \in DOMAIN Reaction
                 THEN <<[kind |-> Reaction[h].kind,
                         msg  |-> [ep |-> Reaction[h].to, no |-> m.no, fits |-> m.fits]]>>
                 ELSE <<>>]
    /\ box' = [box EXCEPT ![t] = Tail(@)]
    /\ UNCHANGED <<assembled, history, available, draining, overwritten, direct, wire>>

PublishExternal(t) ==
    /\ hand[t] # <<>> /\ hand[t][1].kind = "external"
    /\ Send(hand[t][1].msg)
    /\ hand' = [hand EXCEPT ![t] = <<>>]
    /\ UNCHANGED <<assembled, draining, box, status, handled, direct>>

(* Faulty variant: after the local subscribers the message is sent, too.    *)
PublishInternal_FallsThrough(t) ==
    /\ hand[t] # <<>> /\ hand[t][1].kind = "internal"
    /\ LET m == hand[t][1].msg
       IN  /\ Send(m)
           /\ IF m.ep \in localSubs
              THEN box' = Post(box, m) /\ direct' = direct \cup {m}
              ELSE UNCHANGED <<box, direct>>
    /\ hand' = [hand EXCEPT ![t] = <<>>]
    /\ UNCHANGED <<assembled, draining, status, handled>>

(* Under subMutex: with a local subscriber its callback is called at once,  *)
(* whatever the size; otherwise the transport sends.                        *)
PublishInternal(t) ==
    /\ hand[t] # <<>> /\ hand[t][1].kind = "internal"
    /\ LET m == hand[t][1].msg
       IN  IF m.ep \in localSubs
           THEN /\ box' = Post(box, m) /\ direct' = direct \cup {m}
                /\ UNCHANGED <<wire, history, overwritten, available>>
           ELSE Send(m) /\ UNCHANGED <<box, direct>>
    /\ hand' = [hand EXCEPT ![t] = <<>>]
    /\ UNCHANGED <<assembled, draining, status, handled>>

ThreadStep(t) == Dispatch(t) \/ PublishExternal(t) \/ PublishInternal(t)
Listens(e) == ListenerBegins(e) \/ TakeSample(e)
Assembly == Construct \/ CreateReader \/ EnterLocal \/ Assembled

CommFairness ==
    /\ \A e \in Subscribed : WF_commVars(Listens(e))
    /\ \A t \in Threads : WF_commVars(ThreadStep(t))

-----------------------------------------------------------------------------
InHistory(m) == m.ep \in Subscribed /\ \E i \in 1..Len(history[m.ep]) : history[m.ep][i] = m
InBox(m, t) == {i \in 1..Len(box[t]) : box[t][i] = m}
Handled(m) == {c \in handled : c.msg = m}

(* Every call of a handler is with a message of the handler's own endpoint, *)
(* in the thread the endpoint is routed to, also when two groups of one     *)
(* thread use the same msgId, and only a message without a handler is       *)
(* dropped -- but a message with the tick's msgId is a tick, and no         *)
(* handler that a group lists under that msgId is ever called.              *)
OnlyOwnHandler ==
    \A c \in handled :
        IF c.msg.ep[2] = TimerId THEN c.by = Tick
        ELSE IF c.by = <<>> THEN c.msg.ep \notin Tables[ThreadOf[c.msg.ep]]
        ELSE c.by = c.msg.ep

(* What publish_internal has delivered to a subscriber of this process is   *)
(* there exactly once, and no other process can see it: it is not on the    *)
(* wire, nor does it come back through the process's own reader.            *)
InternalOnce ==
    \A m \in direct :
        /\ m \notin wire /\ ~InHistory(m)
        /\ Cardinality(InBox(m, ThreadOf[m.ep])) + Cardinality(Handled(m)) = 1

(* Every sample that enters a reader's history is handled, unless newer     *)
(* ones overwrite it: the listener leaves none behind.                      *)
Taken(m) == InHistory(m) ~> (Handled(m) # {} \/ m \in overwritten)

(* What detmw_fixed_type.h:7 says of a plain channel: only messages of the  *)
(* fixed size.                                                              *)
PlainIsFixed == \A c \in handled : c.msg.ep \in Plain => c.msg.fits
=============================================================================
