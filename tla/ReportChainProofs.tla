------------------------- MODULE ReportChainProofs -------------------------
(***************************************************************************)
(* A lost report shows in the gap counter.                                 *)
(***************************************************************************)
EXTENDS ReportChain, TLAPS

Numbers == Nat \ {0}

(* The consumer's offsets; before it knows its first one it has seen        *)
(* nothing.                                                                 *)
ViewOK ==
    /\ position \in 0..Len(topic) /\ from \in 0..position /\ gaps \in Nat
    /\ ~resolved => position = from /\ gaps = 0

(* What is on its way is the number of a report.                            *)
PlacesOK ==
    /\ seq \in Nat /\ published \subseteq Nat
    /\ dds \in Seq(Numbers) /\ transit \in Seq(Numbers) /\ topic \in Seq(Numbers)
    /\ callback.at = "produce" => callback.seq \in Numbers
    /\ ViewOK

(* As long as no gap is counted, the consumer has seen consecutive numbers, *)
(* from the first message that it did not pass over.                        *)
Consecutive ==
    /\ position > from => lastSeq = topic[position]
    /\ position = from => lastSeq = Nothing
    /\ gaps = 0 => \A i \in from + 1 .. position : topic[i] = topic[from + 1] + i - from - 1

LEMMA InitPlaces == Init => PlacesOK /\ Consecutive
  BY DEF Init, PlacesOK, ViewOK, Consecutive, NoCall, Numbers, Nothing

LEMMA WithoutType ==
  ASSUME NEW S, NEW s \in Seq(S), NEW i \in 1..Len(s)
  PROVE  Without(s, i) \in Seq(S)
  <1>1. SubSeq(s, 1, i - 1) \in Seq(S)
    BY DEF Without
  <1>2. SubSeq(s, i + 1, Len(s)) \in Seq(S)
    BY DEF Without
  <1> QED
    BY <1>1, <1>2 DEF Without

LEMMA Appending ==
  ASSUME NEW S, NEW s \in Seq(S), NEW x \in S
  PROVE  /\ Append(s, x) \in Seq(S) /\ Len(Append(s, x)) = Len(s) + 1
         /\ \A i \in 1..Len(s) : Append(s, x)[i] = s[i]
  OBVIOUS

(* The consumer's view moves only when it consumes.                         *)
LEMMA TopicGrows ==
  ASSUME PlacesOK, Consecutive, UNCHANGED statVars, NEW x \in Numbers,
         topic' \in {topic, Append(topic, x)}
  PROVE  topic' \in Seq(Numbers) /\ ViewOK' /\ Consecutive'
  <1>1. topic' \in Seq(Numbers) /\ position \in 0..Len(topic')
    <2>1. topic \in Seq(Numbers) /\ Len(topic) \in Nat /\ position \in 0..Len(topic)
      BY DEF PlacesOK, ViewOK
    <2>2. Append(topic, x) \in Seq(Numbers) /\ Len(Append(topic, x)) = Len(topic) + 1
      BY <2>1, Appending
    <2> QED
      BY <2>1, <2>2
  <1>2. \A i \in 1..position : topic'[i] = topic[i]
    <2>1. topic \in Seq(Numbers) /\ Len(topic) \in Nat /\ position \in 0..Len(topic)
      BY DEF PlacesOK, ViewOK
    <2>2. \A i \in 1..position : i \in 1..Len(topic)
      BY <2>1
    <2>3. CASE topic' = topic
      BY <2>3
    <2>4. CASE topic' = Append(topic, x)
      <3>1. \A i \in 1..Len(topic) : Append(topic, x)[i] = topic[i]
        BY <2>1, Appending
      <3> QED
        BY <2>2, <2>4, <3>1
    <2> QED
      BY <2>3, <2>4
  <1>3. UNCHANGED <<resolved, from, position, gaps, lastSeq>>
    BY DEF statVars
  <1>4. position \in Nat /\ from \in 0..position /\ gaps \in Nat
    BY DEF PlacesOK, ViewOK
  <1>5. position > from => topic'[position] = topic[position] /\ topic'[from + 1] = topic[from + 1]
    BY <1>2, <1>4
  <1>6. Consecutive'
    BY <1>2, <1>3, <1>4, <1>5 DEF Consecutive
  <1>7. ViewOK'
    BY <1>1, <1>3 DEF PlacesOK, ViewOK
  <1> QED
    BY <1>1, <1>6, <1>7

LEMMA StepPlaces == PlacesOK /\ Consecutive /\ [Next]_vars => PlacesOK' /\ Consecutive'
  <1> SUFFICES ASSUME PlacesOK, Consecutive, [Next]_vars PROVE PlacesOK' /\ Consecutive'
    OBVIOUS
  <1>0. 1 \in Numbers
    BY DEF Numbers
  <1>1. ASSUME NEW empty \in BOOLEAN, Report(empty) PROVE PlacesOK' /\ Consecutive'
    <2>1. seq' \in Numbers /\ seq' \in Nat
      BY <1>1 DEF Report, PlacesOK, Numbers
    <2>2. published' \in {published, published \cup {seq'}} /\ dds' \in {dds, Append(dds, seq')}
      BY <1>1 DEF Report
    <2>5. published' \subseteq Nat /\ dds' \in Seq(Numbers)
      <3>1. published \subseteq Nat /\ dds \in Seq(Numbers)
        BY DEF PlacesOK
      <3>2. Append(dds, seq') \in Seq(Numbers)
        BY <2>1, <3>1, Appending
      <3> QED
        BY <2>1, <2>2, <3>1, <3>2
    <2>3. UNCHANGED <<callback, transit, topic, statVars>>
      BY <1>1 DEF Report, kafkaVars
    <2>4. Consecutive' /\ ViewOK'
      BY <1>0, <2>3, TopicGrows
    <2> QED
      BY <2>1, <2>3, <2>4, <2>5 DEF PlacesOK
  <1>2. CASE OnDtsReport
    <2>1. dds' \in Seq(Numbers) /\ Head(dds) \in Numbers
      BY <1>2 DEF OnDtsReport, PlacesOK
    <2>2. callback'.at = "produce" => callback'.seq \in Numbers
      BY <1>2, <2>1 DEF OnDtsReport
    <2>3. UNCHANGED <<seq, published, transit, topic, statVars>>
      BY <1>2 DEF OnDtsReport, kafkaVars
    <2>4. Consecutive' /\ ViewOK'
      BY <1>0, <2>3, TopicGrows
    <2> QED
      BY <2>1, <2>2, <2>3, <2>4 DEF PlacesOK
  <1>3. CASE Produce
    <2>0. transit' \in {transit, Append(transit, callback.seq)} /\ callback.seq \in Numbers
      BY <1>3 DEF Produce, PlacesOK
    <2>1. transit' \in Seq(Numbers)
      BY <2>0, Appending DEF PlacesOK
    <2>2. callback'.at = "idle"
      BY <1>3 DEF Produce, NoCall
    <2>3. UNCHANGED <<seq, published, dds, topic, statVars>>
      BY <1>3 DEF Produce
    <2>4. Consecutive' /\ ViewOK'
      BY <1>0, <2>3, TopicGrows
    <2> QED
      BY <2>1, <2>2, <2>3, <2>4 DEF PlacesOK
  <1>4. ASSUME NEW i, Deliver(i) PROVE PlacesOK' /\ Consecutive'
    <2>1. i \in 1..Len(transit) /\ transit[i] \in Numbers
      BY <1>4 DEF Deliver, PlacesOK
    <2>2. transit' \in Seq(Numbers)
      BY <1>4, <2>1, WithoutType DEF Deliver, PlacesOK
    <2>3. UNCHANGED <<chainVars, statVars>> /\ topic' = Append(topic, transit[i])
      BY <1>4 DEF Deliver
    <2>4. topic' \in Seq(Numbers) /\ ViewOK' /\ Consecutive'
      BY <2>1, <2>3, TopicGrows
    <2> QED
      BY <2>2, <2>3, <2>4 DEF PlacesOK, chainVars
  <1>5. CASE DeliverUnacknowledged
    <2>1. Head(transit) \in Numbers
      BY <1>5 DEF DeliverUnacknowledged, PlacesOK
    <2>2. UNCHANGED <<chainVars, transit, statVars>> /\ topic' = Append(topic, Head(transit))
      BY <1>5 DEF DeliverUnacknowledged
    <2>3. topic' \in Seq(Numbers) /\ ViewOK' /\ Consecutive'
      BY <2>1, <2>2, TopicGrows
    <2> QED
      BY <2>2, <2>3 DEF PlacesOK, chainVars
  <1>6. ASSUME NEW push \in BOOLEAN, Consume(push) PROVE PlacesOK' /\ Consecutive'
    <2> DEFINE v == topic[position + 1]
    <2>1. /\ UNCHANGED <<chainVars, transit, topic, resolved, from>> /\ resolved
          /\ position' = position + 1
      BY <1>6 DEF Consume, kafkaVars
    <2>2. /\ v \in Numbers /\ position + 1 \in 1..Len(topic) /\ position \in Nat
          /\ from \in 0..position /\ gaps \in Nat
      BY <1>6 DEF Consume, PlacesOK, ViewOK
    <2>3. /\ lastSeq' = v
          /\ gaps' = IF lastSeq # Nothing /\ v # lastSeq + 1 THEN gaps + 1 ELSE gaps
      BY <1>6 DEF Consume, OnReport
    <2>4. PlacesOK'
      BY <2>1, <2>2, <2>3 DEF PlacesOK, ViewOK, chainVars
    <2>5. ASSUME gaps' = 0, NEW i \in from + 1 .. position + 1
          PROVE  topic[i] = topic[from + 1] + i - from - 1
      <3>1. gaps = 0
        BY <2>2, <2>3, <2>5
      <3>2. CASE i \in from + 1 .. position
        BY <3>1, <3>2 DEF Consecutive
      <3>3. CASE i = position + 1 /\ position = from
        BY <2>2, <3>3 DEF Numbers
      <3>4. CASE i = position + 1 /\ position > from
        <4>1. topic[position] \in Numbers /\ topic[from + 1] \in Numbers
          BY <2>2, <3>4 DEF PlacesOK
        <4>2. v = topic[position] + 1
          BY <2>2, <2>3, <2>5, <3>4, <4>1 DEF Consecutive, Nothing, Numbers
        <4>3. topic[position] = topic[from + 1] + position - from - 1
          BY <2>2, <3>1, <3>4 DEF Consecutive
        <4>4. /\ topic[i] = topic[position] + 1 /\ i = position + 1
              /\ topic[position] \in Nat /\ topic[from + 1] \in Nat
              /\ position \in Nat /\ from \in Nat
          BY <2>2, <3>4, <4>1, <4>2 DEF Numbers
        <4> QED
          BY <4>3, <4>4
      <3> QED
        BY <2>2, <3>2, <3>3, <3>4
    <2>6. Consecutive'
      BY <2>1, <2>2, <2>3, <2>5 DEF Consecutive
    <2> QED
      BY <2>4, <2>6
  <1>7. CASE Expire \/ OnDelivery \/ Destroy
    <2>0. transit' \in {transit, <<>>} \/ (transit # <<>> /\ transit' = Tail(transit))
      BY <1>7 DEF Expire, OnDelivery, Destroy
    <2>1. transit' \in Seq(Numbers)
      <3>1. transit \in Seq(Numbers) /\ <<>> \in Seq(Numbers)
        BY DEF PlacesOK
      <3>2. transit # <<>> => Tail(transit) \in Seq(Numbers)
        BY <3>1
      <3> QED
        BY <2>0, <3>1, <3>2
    <2>2. UNCHANGED <<chainVars, topic, statVars>>
      BY <1>7 DEF Expire, OnDelivery, Destroy
    <2>3. Consecutive' /\ ViewOK'
      BY <1>0, <2>2, TopicGrows
    <2> QED
      BY <2>1, <2>2, <2>3 DEF PlacesOK, chainVars
  <1>8. CASE UNCHANGED <<chainVars, transit, topic, statVars>>
    <2>1. Consecutive' /\ ViewOK'
      BY <1>0, <1>8, TopicGrows
    <2> QED
      BY <1>8, <2>1 DEF PlacesOK, chainVars
  <1>9. CASE ResolveEnd
    <2>1. /\ UNCHANGED <<chainVars, transit, topic, lastSeq, gaps>> /\ ~resolved /\ resolved'
          /\ from' = Len(topic) /\ position' = Len(topic)
      BY <1>9 DEF ResolveEnd, kafkaVars
    <2>2. lastSeq = Nothing /\ gaps = 0 /\ Len(topic) \in Nat
      BY <2>1 DEF PlacesOK, ViewOK, Consecutive
    <2>3. ViewOK' /\ Consecutive'
      BY <2>1, <2>2 DEF ViewOK, Consecutive
    <2> QED
      BY <2>1, <2>3 DEF PlacesOK, chainVars
  <1>10. BrokerReturns \/ BroadcastReturns \/ ClientStalls \/ ClientReads \/ ConsumerEnds
         \/ StopConsumer \/ JoinConsumer \/ Flush \/ FlushTimeout \/ ClearHandle
         \/ UNCHANGED vars
         => UNCHANGED <<chainVars, transit, topic, statVars>>
    BY DEF BrokerReturns, BroadcastReturns, ClientStalls, ClientReads, ConsumerEnds,
           StopConsumer, JoinConsumer, Flush, FlushTimeout, ClearHandle, vars, kafkaVars
  <1> QED
    BY <1>1, <1>2, <1>3, <1>4, <1>5, <1>6, <1>7, <1>8, <1>9, <1>10 DEF Next, Kafka, Main

(* Whatever is lost, delayed, reordered or duplicated anywhere between the  *)
(* data thread and the consumer, for any number of reports and any length   *)
(* of the producer's queue: a report missing between two that were seen     *)
(* moves the gap counter (Stats::OnReport).                                 *)
THEOREM LossIsCounted == Spec => []LossShows
  <1>1. PlacesOK /\ Consecutive => LossShows
    <2> SUFFICES ASSUME PlacesOK, Consecutive, gaps = 0,
                        NEW n \in published, n \notin Seen,
                        NEW a \in Seen, NEW b \in Seen, a < n, n < b
                 PROVE  FALSE
      BY DEF LossShows, PlacesOK, ViewOK
    <2> DEFINE first == topic[from + 1]
    <2>1. PICK i \in from + 1 .. position : topic[i] = a
      BY DEF Seen
    <2>2. PICK j \in from + 1 .. position : topic[j] = b
      BY DEF Seen
    <2>3. /\ position \in Nat /\ position <= Len(topic) /\ from \in Nat /\ n \in Nat
          /\ from + 1 \in 1..position
      BY <2>1 DEF PlacesOK, ViewOK
    <2>4. first \in Nat
      BY <2>3 DEF PlacesOK, Numbers
    <2>5. a = first + i - from - 1 /\ b = first + j - from - 1
      BY <2>1, <2>2 DEF Consecutive
    <2>6. n - first + from + 1 \in from + 1 .. position
      <3>1. i \in Nat /\ j \in Nat /\ from + 1 <= i /\ j <= position
        BY <2>1, <2>2, <2>3
      <3>2. a = first + i - from - 1 /\ b = first + j - from - 1
        BY <2>5
      <3> HIDE DEF first
      <3> QED
        BY <2>3, <2>4, <3>1, <3>2
    <2>7. topic[n - first + from + 1] = n
      <3>1. topic[n - first + from + 1] = first + (n - first + from + 1) - from - 1
        BY <2>6 DEF Consecutive
      <3> QED
        BY <2>3, <2>4, <3>1
    <2> QED
      BY <2>6, <2>7 DEF Seen
  <1> QED
    BY <1>1, InitPlaces, StepPlaces, PTL DEF Spec

-----------------------------------------------------------------------------
(* The type invariant with what it needs: the callback holds a published    *)
(* number, and a gap is counted only for a report that was consumed.        *)
TypeInv ==
    /\ TypeOK
    /\ callback.at = "produce" => callback.seq \in published
    /\ reports \in Nat /\ gaps <= position /\ (~resolved => gaps = 0 /\ lastSeq = Nothing)
    /\ consumer \in [running : BOOLEAN, pc : {"poll", "broadcast", "exit"}]

LEMMA SeqGrows ==
  ASSUME NEW S, NEW T, S \subseteq T, NEW s \in Seq(S)
  PROVE  s \in Seq(T)
  <1>1. Len(s) \in Nat /\ \A i \in 1..Len(s) : s[i] \in S
    OBVIOUS
  <1> QED
    BY <1>1

LEMMA WithoutLength ==
  ASSUME NEW S, NEW s \in Seq(S), NEW i \in 1..Len(s)
  PROVE  Len(Without(s, i)) = Len(s) - 1
  <1>1. /\ SubSeq(s, 1, i - 1) \in Seq(S) /\ Len(SubSeq(s, 1, i - 1)) = i - 1
        /\ SubSeq(s, i + 1, Len(s)) \in Seq(S) /\ Len(SubSeq(s, i + 1, Len(s))) = Len(s) - i
    OBVIOUS
  <1>2. \A a, b \in Seq(S) : Len(a \o b) = Len(a) + Len(b)
    OBVIOUS
  <1>3. Len(Without(s, i)) = (i - 1) + (Len(s) - i)
    BY <1>1, <1>2 DEF Without
  <1>4. Len(s) \in Nat
    OBVIOUS
  <1> QED
    BY <1>3, <1>4

LEMMA TypeStep == TypeInv /\ [Next]_vars => TypeInv'
  <1> SUFFICES ASSUME TypeInv, [Next]_vars PROVE TypeInv'
    OBVIOUS
  <1>0. /\ seq \in 0..MaxFrames /\ published \subseteq 1..MaxFrames
        /\ dds \in Seq(published) /\ transit \in Seq(published) /\ topic \in Seq(published)
        /\ callback.seq \in published \cup {Nothing} /\ callback.at \in {"idle", "produce"}
        /\ handle \in {"up", "destroyed", "null"}
        /\ Len(transit) + reports <= QueueMax /\ reports \in Nat
        /\ refused \in BOOLEAN /\ brokerUp \in BOOLEAN
        /\ position \in Nat /\ position <= Len(topic) /\ from \in 0..position
        /\ resolved \in BOOLEAN /\ stalled \in BOOLEAN
        /\ lastSeq \in published \cup {Nothing} /\ gaps \in Nat /\ gaps <= position
        /\ ~resolved => gaps = 0 /\ lastSeq = Nothing
        /\ callback.at = "produce" => callback.seq \in published
        /\ consumer \in [running : BOOLEAN, pc : {"poll", "broadcast", "exit"}]
        /\ mainPc \in {"running", "join", "flush", "destroy", "clear", "down", "crashed"}
        /\ MaxFrames \in Nat /\ QueueMax \in Nat
    BY ChainAssumption DEF TypeInv, TypeOK, QueueLen
  <1> DEFINE
        NumbersIn == /\ seq \in 0..MaxFrames /\ published \subseteq 1..MaxFrames
                     /\ dds \in Seq(published) /\ callback.seq \in published \cup {Nothing}
                     /\ callback.at \in {"idle", "produce"}
                     /\ callback.at = "produce" => callback.seq \in published
        KafkaOK == /\ transit \in Seq(published) /\ Len(transit) + reports <= QueueMax
                   /\ reports \in Nat /\ brokerUp \in BOOLEAN /\ topic \in Seq(published)
        StatOK == /\ position \in Nat /\ position <= Len(topic) /\ gaps \in Nat
                  /\ from \in 0..position /\ resolved \in BOOLEAN
                  /\ gaps <= position /\ lastSeq \in published \cup {Nothing}
                  /\ ~resolved => gaps = 0 /\ lastSeq = Nothing
        RestOK == /\ stalled \in BOOLEAN
                  /\ handle \in {"up", "destroyed", "null"} /\ refused \in BOOLEAN
                  /\ consumer \in [running : BOOLEAN, pc : {"poll", "broadcast", "exit"}]
                  /\ mainPc \in {"running", "join", "flush", "destroy", "clear", "down",
                                 "crashed"}
  <1>p. ASSUME NumbersIn', KafkaOK', StatOK', RestOK' PROVE TypeInv'
    <2>1. position' \in 0..Len(topic') /\ gaps' \in 0..Len(topic')
      <3>1. Len(topic') \in Nat
        BY <1>p
      <3> QED
        BY <1>p, <3>1
    <2>2. consumer'.pc \in {"poll", "broadcast", "exit"}
      BY <1>p
    <2> QED
      BY <1>p, <2>1, <2>2 DEF TypeInv, TypeOK, QueueLen
  <1>1. ASSUME NEW empty \in BOOLEAN, Report(empty) PROVE TypeInv'
    <2>1. /\ seq' = seq + 1 /\ seq' \in 1..MaxFrames
          /\ \/ published' = published /\ dds' = dds
             \/ published' = published \cup {seq'} /\ dds' = Append(dds, seq')
          /\ UNCHANGED <<callback, handle, kafkaVars, refused, statVars, threads>>
      BY <1>0, <1>1 DEF Report
    <2>2. published \subseteq published' /\ published' \subseteq 1..MaxFrames
      BY <1>0, <2>1
    <2>3. dds \in Seq(published') /\ transit \in Seq(published') /\ topic \in Seq(published')
      BY <1>0, <2>2, SeqGrows
    <2>4. dds' \in Seq(published')
      <3>1. CASE published' = published \cup {seq'}
        <4>1. Append(dds, seq') \in Seq(published')
          BY <2>3, <3>1, Appending
        <4> QED
          BY <2>1, <2>3, <4>1
      <3> QED
        BY <2>1, <2>3, <3>1
    <2> QED
      BY <1>0, <1>p, <2>1, <2>2, <2>3, <2>4 DEF kafkaVars, statVars, threads
  <1>2. CASE OnDtsReport
    <2>1. /\ dds # <<>> /\ dds' = Tail(dds)
          /\ callback' = [at |-> IF handle = "null" THEN "idle" ELSE "produce",
                          seq |-> IF handle = "null" THEN Nothing ELSE Head(dds)]
          /\ UNCHANGED <<seq, published, handle, kafkaVars, refused, statVars, threads>>
      BY <1>2 DEF OnDtsReport
    <2>2. dds' \in Seq(published) /\ Head(dds) \in published
      BY <1>0, <2>1
    <2> QED
      BY <1>0, <1>p, <2>1, <2>2 DEF kafkaVars, statVars, threads
  <1>3. CASE Produce
    <2>1. /\ callback.at = "produce" /\ callback' = NoCall
          /\ \/ Len(transit) + reports < QueueMax /\ transit' = Append(transit, callback.seq)
             \/ transit' = transit
          /\ refused' \in {refused, (refused \/ (brokerUp /\ transit = <<>>))}
          /\ UNCHANGED <<seq, published, dds, handle, reports, brokerUp, topic, statVars, threads>>
      BY <1>3 DEF Produce, QueueLen
    <2>2. transit' \in Seq(published) /\ Len(transit') + reports <= QueueMax
      <3>1. CASE Len(transit) + reports < QueueMax /\ transit' = Append(transit, callback.seq)
        <4>1. transit' \in Seq(published) /\ Len(transit') = Len(transit) + 1
          BY <1>0, <2>1, <3>1, Appending
        <4>2. Len(transit) \in Nat
          BY <1>0
        <4> QED
          BY <1>0, <3>1, <4>1, <4>2
      <3> QED
        BY <1>0, <2>1, <3>1
    <2>3. refused' \in BOOLEAN
      BY <1>0, <2>1
    <2> QED
      BY <1>0, <1>p, <2>1, <2>2, <2>3 DEF NoCall, statVars, threads
  <1>4. ASSUME NEW i, Deliver(i) PROVE TypeInv'
    <2>1. /\ i \in 1..Len(transit) /\ topic' = Append(topic, transit[i])
          /\ transit' = Without(transit, i) /\ reports' = reports + 1
          /\ UNCHANGED <<chainVars, handle, refused, brokerUp, statVars, threads>>
      BY <1>4 DEF Deliver
    <2>2. /\ transit' \in Seq(published) /\ Len(transit') = Len(transit) - 1
          /\ Len(transit) \in Nat
      <3>1. /\ Without(transit, i) \in Seq(published)
            /\ Len(Without(transit, i)) = Len(transit) - 1
        BY <1>0, <2>1, WithoutType, WithoutLength
      <3> QED
        BY <1>0, <2>1, <3>1
    <2>3. topic' \in Seq(published) /\ Len(topic') = Len(topic) + 1 /\ Len(topic) \in Nat
      <3>1. transit[i] \in published
        BY <1>0, <2>1
      <3> QED
        BY <1>0, <2>1, <3>1, Appending
    <2>4. Len(transit') + reports' <= QueueMax /\ reports' \in Nat /\ position <= Len(topic')
      BY <1>0, <2>1, <2>2, <2>3
    <2> QED
      BY <1>0, <1>p, <2>1, <2>2, <2>3, <2>4 DEF chainVars, statVars, threads
  <1>5. CASE DeliverUnacknowledged
    <2>1. /\ transit # <<>> /\ topic' = Append(topic, Head(transit)) /\ brokerUp' = FALSE
          /\ UNCHANGED <<chainVars, handle, transit, reports, refused, statVars, threads>>
      BY <1>5 DEF DeliverUnacknowledged
    <2>2. topic' \in Seq(published) /\ Len(topic') = Len(topic) + 1 /\ Len(topic) \in Nat
      <3>1. Head(transit) \in published
        BY <1>0, <2>1
      <3> QED
        BY <1>0, <2>1, <3>1, Appending
    <2>3. position <= Len(topic')
      BY <1>0, <2>2
    <2>4. StatOK'
      <3>1. UNCHANGED <<resolved, from, position, lastSeq, gaps, published>>
        BY <2>1 DEF statVars, chainVars
      <3> QED
        BY <1>0, <2>3, <3>1
    <2>6. RestOK'
      BY <1>0, <2>1 DEF threads
    <2>5. NumbersIn' /\ KafkaOK'
      BY <1>0, <2>1, <2>2 DEF chainVars
    <2> QED
      BY <1>p, <2>4, <2>5, <2>6
  <1>6. CASE Expire
    <2>1. /\ transit # <<>> /\ transit' = Tail(transit) /\ reports' = reports + 1
          /\ UNCHANGED <<chainVars, handle, refused, brokerUp, topic, statVars, threads>>
      BY <1>6 DEF Expire
    <2>2. transit' \in Seq(published) /\ Len(transit') = Len(transit) - 1
          /\ Len(transit) \in Nat
      BY <1>0, <2>1
    <2>3. Len(transit') + reports' <= QueueMax /\ reports' \in Nat
      BY <1>0, <2>1, <2>2
    <2>4. NumbersIn' /\ StatOK'
      BY <1>0, <2>1 DEF chainVars, statVars
    <2>5. KafkaOK'
      BY <1>0, <2>1, <2>2, <2>3 DEF chainVars
    <2>6. RestOK'
      BY <1>0, <2>1 DEF threads
    <2> QED
      BY <1>p, <2>4, <2>5, <2>6
  <1>7. ASSUME NEW push \in BOOLEAN, Consume(push) PROVE TypeInv'
    <2>1. /\ position < Len(topic) /\ position' = position + 1 /\ resolved
          /\ lastSeq' = topic[position + 1] /\ gaps' \in {gaps, gaps + 1}
          /\ consumer' = [consumer EXCEPT !.pc = IF push THEN "broadcast" ELSE "poll"]
          /\ UNCHANGED <<chainVars, handle, kafkaVars, refused, resolved, from, stalled, mainPc>>
      BY <1>7 DEF Consume, OnReport
    <2>2. Len(topic) \in Nat /\ position + 1 \in 1..Len(topic)
      BY <1>0, <2>1
    <2>3. lastSeq' \in published
      BY <1>0, <2>1, <2>2
    <2>4. StatOK'
      BY <1>0, <2>1, <2>2, <2>3 DEF chainVars, kafkaVars
    <2>5. RestOK'
      BY <1>0, <2>1
    <2>6. NumbersIn' /\ KafkaOK'
      BY <1>0, <2>1 DEF chainVars, kafkaVars
    <2> QED
      BY <1>p, <2>4, <2>5, <2>6
  <1>8. CASE OnDelivery \/ Destroy
    <2>1. /\ transit' = <<>> /\ handle' \in {handle, "destroyed"}
          /\ mainPc' \in {"crashed", "clear"}
          /\ UNCHANGED <<chainVars, reports, brokerUp, topic, refused, statVars, consumer,
                         stalled>>
      BY <1>8 DEF OnDelivery, Destroy
    <2>2. transit' \in Seq(published) /\ Len(transit') + reports <= QueueMax
      <3>1. transit' \in Seq(published) /\ Len(transit') = 0 /\ Len(transit) \in Nat
        BY <1>0, <2>1
      <3> QED
        BY <1>0, <3>1
    <2> QED
      BY <1>0, <1>p, <2>1, <2>2 DEF chainVars, statVars
  <1>9. CASE ResolveEnd
    <2>1. /\ ~resolved /\ resolved' = TRUE /\ from' = Len(topic) /\ position' = Len(topic)
          /\ UNCHANGED <<chainVars, handle, kafkaVars, refused, lastSeq, gaps, threads>>
      BY <1>9 DEF ResolveEnd
    <2>2. Len(topic) \in Nat
      BY <1>0
    <2>3. StatOK'
      BY <1>0, <2>1, <2>2 DEF chainVars, kafkaVars
    <2> QED
      BY <1>0, <1>p, <2>1, <2>3 DEF chainVars, kafkaVars, threads
  <1>10. CASE BrokerReturns \/ BroadcastReturns \/ ClientStalls \/ ClientReads
              \/ ConsumerEnds \/ StopConsumer \/ JoinConsumer \/ Flush \/ FlushTimeout
              \/ ClearHandle \/ UNCHANGED vars
    <2>1. UNCHANGED <<chainVars, transit, reports, topic, refused, statVars>>
      BY <1>10 DEF BrokerReturns, BroadcastReturns, ClientStalls, ClientReads, ConsumerEnds,
                   StopConsumer, JoinConsumer, Flush, FlushTimeout, ClearHandle, vars,
                   kafkaVars
    <2>2. RestOK' /\ brokerUp' \in BOOLEAN
      BY <1>0, <1>10 DEF BrokerReturns, BroadcastReturns, ClientStalls, ClientReads,
                         ConsumerEnds, StopConsumer, JoinConsumer, Flush, FlushTimeout,
                         ClearHandle, vars, kafkaVars, threads
    <2> QED
      BY <1>0, <1>p, <2>1, <2>2 DEF chainVars, statVars
  <1> QED
    BY <1>1, <1>2, <1>3, <1>4, <1>5, <1>6, <1>7, <1>8, <1>9, <1>10 DEF Next, Kafka, Main

(* Type correctness of the chain: nothing reaches the topic or the          *)
(* statistics that the data thread has not published, and the producer's    *)
(* queue, delivery reports that nobody polls included, keeps to its limit.  *)
THEOREM ChainTypeCorrect == Spec => []TypeOK
  <1>1. Init => TypeInv
    <2> SUFFICES ASSUME Init PROVE TypeInv
      OBVIOUS
    <2>1. Len(<<>>) = 0 /\ <<>> \in Seq({}) /\ QueueMax \in Nat /\ MaxFrames \in Nat
      BY ChainAssumption
    <2>2. TypeOK
      <3>0. published = {} /\ dds = <<>> /\ transit = <<>> /\ topic = <<>> /\ seq = 0
        BY DEF Init
      <3>1. /\ seq \in 0..MaxFrames /\ published \subseteq 1..MaxFrames
            /\ dds \in Seq(published) /\ transit \in Seq(published) /\ topic \in Seq(published)
        BY <2>1, <3>0
      <3>2. callback.seq = Nothing /\ callback.at = "idle"
        BY DEF Init, NoCall
      <3>3. QueueLen <= QueueMax /\ position \in 0..Len(topic) /\ gaps \in 0..Len(topic)
        BY <2>1 DEF Init, QueueLen
      <3> QED
        BY <3>1, <3>2, <3>3 DEF Init, TypeOK
    <2> QED
      BY <2>2 DEF Init, TypeInv, NoCall
  <1>2. TypeInv => TypeOK
    BY DEF TypeInv
  <1> QED
    BY <1>1, <1>2, TypeStep, PTL DEF Spec
=============================================================================
