---------------------------- MODULE ReportChain ----------------------------
(***************************************************************************)
(* From a report to the observer: the data thread numbers and publishes    *)
(* reports, the web server's middleware callback hands them to librdkafka, *)
(* the broker stores them, the consumer thread reads them back and counts  *)
(* sequence gaps; the main thread shuts the chain down.                    *)
(*                                                                         *)
(* librdkafka and the broker are modelled from how the code uses them: a   *)
(* message occupies the producer's queue from Produce until its delivery   *)
(* report is served (by rd_kafka_flush: nothing polls), it is delivered or *)
(* expires after message.timeout.ms, and without idempotence a retry may   *)
(* overtake or duplicate; the consumer starts at the end of the topic,     *)
(* which librdkafka looks up in its own time.  The event streams are       *)
(* module HttpSse; here they are clients of which one may stop reading.    *)
(***************************************************************************)
EXTENDS Naturals, Sequences

CONSTANTS
    QueueMax,   \* queue.buffering.max.messages
    MaxFrames   \* bound: frames the data thread processes

ASSUME ChainAssumption == QueueMax \in Nat \ {0} /\ MaxFrames \in Nat

VARIABLES
    seq,            \* DataFactory::m_seq
    published,      \* history: sequence numbers of the reports sent
    dds,            \* reports on their way to the callback (reliable, in order)
    callback,       \* OnDtsReport's place, the report it holds
    handle,         \* the producer's rd_kafka_t: "up", "destroyed" or "null"
    transit,        \* messages librdkafka has not delivered yet
    reports,        \* delivery reports nobody has served
    refused,        \* Produce has failed with a full queue and a live broker
    brokerUp,       \* the broker answers
    topic,          \* the topic's only partition
    resolved,       \* OFFSET_END has been turned into an offset
    from,           \* that offset: the messages below it are not consumed
    position,       \* offset the consumer has polled up to
    lastSeq, gaps,  \* Stats::m_lastSeq (0 before the first), m_gaps
    consumer,       \* KafkaConsumer::m_running, the consumer thread's place
    stalled,        \* a client of the event streams has stopped reading
    mainPc          \* the main thread

chainVars == <<seq, published, dds, callback>>
kafkaVars == <<transit, reports, brokerUp, topic>>
statVars == <<resolved, from, position, lastSeq, gaps>>
threads == <<consumer, stalled, mainPc>>
vars == <<chainVars, handle, kafkaVars, refused, statVars, threads>>

Nothing == 0

(* The web server has not crashed.                                          *)
Alive == mainPc # "crashed"

NoCall == [at |-> "idle", seq |-> Nothing]

Init ==
    /\ seq = 0 /\ published = {} /\ dds = <<>> /\ callback = NoCall
    /\ handle = "up" /\ transit = <<>> /\ reports = 0 /\ refused = FALSE
    /\ brokerUp = TRUE /\ topic = <<>>
    /\ resolved = FALSE /\ from = 0 /\ position = 0 /\ lastSeq = Nothing /\ gaps = 0
    /\ consumer = [running |-> TRUE, pc |-> "poll"] /\ stalled = FALSE
    /\ mainPc = "running"

-----------------------------------------------------------------------------
(* The data thread.                                                         *)

(* Process ends with Flush(ts, ++m_seq), which sends nothing when the frame *)
(* had no slice.                                                            *)
Report(empty) ==
    /\ seq < MaxFrames
    /\ seq' = seq + 1
    /\ IF empty THEN UNCHANGED <<published, dds>>
       ELSE published' = published \cup {seq'} /\ dds' = Append(dds, seq')
    /\ UNCHANGED <<callback, handle, kafkaVars, refused, statVars, threads>>

-----------------------------------------------------------------------------
(* The web server's middleware callback.  It is never unsubscribed.         *)
OnDtsReport ==
    /\ Alive /\ callback = NoCall /\ dds # <<>>
    /\ callback' = [at |-> IF handle = "null" THEN "idle" ELSE "produce",
                    seq |-> IF handle = "null" THEN Nothing ELSE Head(dds)]
    /\ dds' = Tail(dds)
    /\ UNCHANGED <<seq, published, handle, kafkaVars, refused, statVars, threads>>

QueueLen == Len(transit) + reports

(* rd_kafka_producev, with the handle that was there when it was tested:    *)
(* refused when the queue is full; the result is not looked at.             *)
Produce ==
    /\ Alive /\ callback.at = "produce" /\ handle = "up"
    /\ callback' = NoCall
    /\ IF QueueLen < QueueMax
         THEN transit' = Append(transit, callback.seq) /\ UNCHANGED refused
         ELSE refused' = (refused \/ (brokerUp /\ transit = <<>>)) /\ UNCHANGED transit
    /\ UNCHANGED <<seq, published, dds, handle, reports, brokerUp, topic, statVars,
                   threads>>

-----------------------------------------------------------------------------
(* librdkafka's own threads and the broker.                                 *)
Without(s, i) == SubSeq(s, 1, i - 1) \o SubSeq(s, i + 1, Len(s))

(* Any message in transit may be stored first, when an earlier one is being *)
(* retried.                                                                 *)
Deliver(i) ==
    /\ brokerUp /\ i \in 1..Len(transit)
    /\ topic' = Append(topic, transit[i])
    /\ transit' = Without(transit, i)
    /\ reports' = reports + 1
    /\ UNCHANGED <<chainVars, handle, refused, brokerUp, statVars, threads>>

(* Stored, but the acknowledgement is lost: it will be sent again.          *)
DeliverUnacknowledged ==
    /\ brokerUp /\ transit # <<>> /\ Len(topic) < MaxFrames
    /\ topic' = Append(topic, Head(transit))
    /\ brokerUp' = FALSE
    /\ UNCHANGED <<chainVars, handle, transit, reports, refused, statVars, threads>>

Expire ==
    /\ ~brokerUp /\ transit # <<>>
    /\ transit' = Tail(transit)
    /\ reports' = reports + 1
    /\ UNCHANGED <<chainVars, handle, refused, brokerUp, topic, statVars, threads>>

BrokerReturns ==
    /\ ~brokerUp
    /\ brokerUp' = TRUE
    /\ UNCHANGED <<chainVars, handle, transit, reports, refused, topic, statVars,
                   threads>>

-----------------------------------------------------------------------------
(* The consumer thread.                                                     *)

(* Faulty variant: a gap is only counted when the number goes forward.      *)
OnReport_Lenient(v) ==
    /\ gaps' = IF lastSeq # Nothing /\ v > lastSeq + 1 THEN gaps + 1 ELSE gaps
    /\ lastSeq' = v

(* Stats::OnReport.                                                         *)
OnReport(v) ==
    /\ gaps' = IF lastSeq # Nothing /\ v # lastSeq + 1 THEN gaps + 1 ELSE gaps
    /\ lastSeq' = v

(* librdkafka asks the broker where the topic ends now: what is stored      *)
(* below that offset is passed over.                                        *)
ResolveEnd ==
    /\ Alive /\ ~resolved /\ brokerUp /\ consumer.pc # "exit"
    /\ resolved' = TRUE /\ from' = Len(topic) /\ position' = from'
    /\ UNCHANGED <<chainVars, handle, kafkaVars, refused, lastSeq, gaps, threads>>

(* A message is polled and counted; then the callback broadcasts it, unless *)
(* it did so less than 100 ms ago.                                          *)
Consume(push) ==
    /\ Alive /\ consumer.pc = "poll" /\ consumer.running
    /\ resolved /\ position < Len(topic)
    /\ position' = position + 1
    /\ OnReport(topic[position + 1])
    /\ consumer' = [consumer EXCEPT !.pc = IF push THEN "broadcast" ELSE "poll"]
    /\ UNCHANGED <<chainVars, handle, kafkaVars, refused, resolved, from, stalled, mainPc>>

(* Broadcast sends to every stream, with blocking sends and under the mutex *)
(* that the main thread's own broadcasts need: it does not return while a   *)
(* client leaves its data unread.                                           *)
BroadcastReturns ==
    /\ Alive /\ consumer.pc = "broadcast" /\ ~stalled
    /\ consumer' = [consumer EXCEPT !.pc = "poll"]
    /\ UNCHANGED <<chainVars, handle, kafkaVars, refused, statVars, stalled, mainPc>>

ClientStalls ==
    /\ ~stalled /\ stalled' = TRUE
    /\ UNCHANGED <<chainVars, handle, kafkaVars, refused, statVars, consumer, mainPc>>

(* It reads on, or hangs up.                                                *)
ClientReads ==
    /\ stalled /\ stalled' = FALSE
    /\ UNCHANGED <<chainVars, handle, kafkaVars, refused, statVars, consumer, mainPc>>

(* Faulty variant: the loop does not look at m_running.                     *)
ConsumerEnds_Never == FALSE /\ UNCHANGED vars

(* Faulty variant: a poll without a message ends the loop.                  *)
ConsumerEnds_OnEmpty ==
    /\ Alive /\ consumer.pc = "poll" /\ (~consumer.running \/ position = Len(topic))
    /\ consumer' = [consumer EXCEPT !.pc = "exit"]
    /\ UNCHANGED <<chainVars, handle, kafkaVars, refused, statVars, stalled, mainPc>>

(* while (m_running.load()); a poll without a message times out.            *)
ConsumerEnds ==
    /\ Alive /\ consumer.pc = "poll" /\ ~consumer.running
    /\ consumer' = [consumer EXCEPT !.pc = "exit"]
    /\ UNCHANGED <<chainVars, handle, kafkaVars, refused, statVars, stalled, mainPc>>

-----------------------------------------------------------------------------
(* The main thread's shutdown.                                              *)
StopConsumer ==
    /\ mainPc = "running"
    /\ mainPc' = "join"
    /\ consumer' = [consumer EXCEPT !.running = FALSE]
    /\ UNCHANGED <<chainVars, handle, kafkaVars, refused, statVars, stalled>>

JoinConsumer ==
    /\ mainPc = "join" /\ consumer.pc = "exit"
    /\ mainPc' = "flush"
    /\ UNCHANGED <<chainVars, handle, kafkaVars, refused, statVars, consumer, stalled>>

(* rd_kafka_flush serves a delivery report: OnDelivery counts through its   *)
(* context, which no one has set.  A null dereference.                      *)
OnDelivery ==
    /\ mainPc = "flush" /\ reports > 0
    /\ mainPc' = "crashed" /\ transit' = <<>>
    /\ UNCHANGED <<chainVars, handle, reports, brokerUp, topic, refused, statVars,
                   consumer, stalled>>

(* The flush ends at once when there is nothing to wait for.                *)
Flush ==
    /\ mainPc = "flush" /\ reports = 0 /\ transit = <<>>
    /\ mainPc' = "destroy"
    /\ UNCHANGED <<chainVars, handle, kafkaVars, refused, statVars, consumer, stalled>>

(* The flush times out after kFlushTimeoutMs.                               *)
FlushTimeout ==
    /\ mainPc = "flush" /\ reports = 0 /\ transit # <<>>
    /\ mainPc' = "destroy"
    /\ UNCHANGED <<chainVars, handle, kafkaVars, refused, statVars, consumer, stalled>>

(* rd_kafka_destroy gives up what is still in transit.                      *)
Destroy ==
    /\ mainPc = "destroy"
    /\ mainPc' = "clear"
    /\ handle' = "destroyed"
    /\ transit' = <<>>
    /\ UNCHANGED <<chainVars, reports, brokerUp, topic, refused, statVars, consumer, stalled>>

ClearHandle ==
    /\ mainPc = "clear"
    /\ mainPc' = "down"
    /\ handle' = "null"
    /\ UNCHANGED <<chainVars, kafkaVars, refused, statVars, consumer, stalled>>

-----------------------------------------------------------------------------
Kafka == DeliverUnacknowledged \/ Expire \/ BrokerReturns
         \/ \E i \in 1..QueueMax : Deliver(i)

Main == JoinConsumer \/ OnDelivery \/ Flush \/ FlushTimeout \/ Destroy \/ ClearHandle

Next ==
    \/ \E empty \in BOOLEAN : Report(empty)
    \/ OnDtsReport \/ Produce
    \/ Kafka
    \/ ResolveEnd \/ (\E push \in BOOLEAN : Consume(push))
    \/ BroadcastReturns \/ ClientStalls \/ ClientReads \/ ConsumerEnds
    \/ StopConsumer \/ Main

Spec == Init /\ [][Next]_vars

(* Threads are scheduled; the broker comes back.  Nobody makes the clients  *)
(* read.                                                                    *)
Fairness ==
    /\ WF_vars(OnDtsReport) /\ WF_vars(Produce) /\ WF_vars(ResolveEnd)
    /\ WF_vars(\E push \in BOOLEAN : Consume(push)) /\ WF_vars(BroadcastReturns)
    /\ WF_vars(ConsumerEnds) /\ WF_vars(Main) /\ WF_vars(BrokerReturns)
    /\ WF_vars(Deliver(1))

FairSpec == Spec /\ Fairness

-----------------------------------------------------------------------------
(* Properties.                                                              *)

(* Every variable has its type.                                             *)
TypeOK ==
    /\ seq \in 0..MaxFrames /\ published \subseteq 1..MaxFrames
    /\ dds \in Seq(published) /\ callback.seq \in published \cup {Nothing}
    /\ callback.at \in {"idle", "produce"}
    /\ handle \in {"up", "destroyed", "null"}
    /\ transit \in Seq(published) /\ QueueLen <= QueueMax
    /\ refused \in BOOLEAN /\ brokerUp \in BOOLEAN
    /\ topic \in Seq(published) /\ position \in 0..Len(topic) /\ from \in 0..position
    /\ resolved \in BOOLEAN /\ stalled \in BOOLEAN
    /\ lastSeq \in published \cup {Nothing} /\ gaps \in 0..Len(topic)
    /\ consumer.pc \in {"poll", "broadcast", "exit"}
    /\ mainPc \in {"running", "join", "flush", "destroy", "clear", "down", "crashed"}

Seen == {topic[i] : i \in from + 1 .. position}

(* A loss cannot go unnoticed: when a report between two that the consumer  *)
(* has seen is missing, wherever in the chain it was lost, the gap counter  *)
(* has moved, reordering and duplicates notwithstanding.                    *)
LossShows ==
    (\E n \in published : n \notin Seen /\ \E a, b \in Seen : a < n /\ n < b)
        => gaps > 0

Disorder == \E i \in from + 1 .. position - 1 : topic[i] >= topic[i + 1]

(* A gap in the sequence means that the chain has lost a report (or, for    *)
(* the time being, overtaken or repeated one).                              *)
GapMeansLoss == gaps > 0 => ~(published \subseteq Seen) \/ Disorder

(* Produce fails only while the broker is away and the queue is full.       *)
RefusedOnlyWhenDown == ~refused

(* Shutting the producer down waits for the deliveries in flight and ends.  *)
ShutdownSurvives == mainPc # "crashed"

(* A callback that has passed the test of the handle still has it.          *)
HandleAlive == callback.at = "produce" => handle # "destroyed"

(* Clients may stop reading, but not for good.                              *)
ClientsRead == <>[]~stalled

(* What the broker has stored is consumed, unless the server is stopped or  *)
(* it was stored before the consumer knew its offset: no report stays       *)
(* unread for good although the consumer is held up by clients, goes        *)
(* through a callback for each message and polls with a timeout.            *)
Consumed ==
    ClientsRead =>
        \A n \in 1..MaxFrames : Len(topic) >= n ~> (position >= n \/ ~consumer.running)

(* The shutdown comes to its end whatever the broker and the data thread    *)
(* do, with messages in transit and a consumer in the middle of its         *)
(* callback, if clients do not stall for good and no delivery report is     *)
(* served (ShutdownSurvives).                                               *)
StopEnds ==
    ClientsRead /\ [](mainPc # "crashed") => (mainPc = "join" ~> mainPc = "down")

(* Stop of the consumer returns, whatever clients do.                       *)
JoinReturns == mainPc = "join" ~> mainPc # "join"
=============================================================================
