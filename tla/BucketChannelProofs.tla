------------------------ MODULE BucketChannelProofs ------------------------
(* Theorems about the life of the buckets, for any number of readers,       *)
(* writers, ports and segments.                                             *)
EXTENDS BucketChannel, SequenceTheorems, TLAPS

LEMMA InitType == Init => TypeOK
  <1> SUFFICES ASSUME Init PROVE TypeOK
    OBVIOUS
  <1>1. queue \in [Segs -> Seq(Ports \X (1..MaxMsgs))] /\ sending \in [Writers -> Seq(Sends)]
    BY DEF Init
  <1>2. \A s \in Segs : Len(queue[s]) <= Capacity
    BY ChannelAssumption DEF Init
  <1>3. cache \in [Writers -> [Ports -> 0..segs]]
    BY DEF Init, NoSeg
  <1>4. Down \in [at : Places, seg : 0..MaxSegs, by : {"none", "create", "claim"}]
    BY ChannelAssumption DEF Down, NoSeg, Places
  <1>5. reader \in [Readers ->
                      [at : Places, seg : 0..MaxSegs, by : {"none", "create", "claim"}]]
    BY <1>4 DEF Init
  <1>6. named \in [Ports -> 0..segs] /\ segs \in 0..MaxSegs /\ sent \in 0..MaxMsgs
    BY ChannelAssumption DEF Init, NoSeg
  <1>7. owner \in [Segs -> Readers \cup {Nobody}]
    BY DEF Init
  <1>8. returned = {} /\ left = {} /\ unlinked \in BOOLEAN /\ ready = {} /\ hurried = {}
    BY DEF Init
  <1> QED
    BY <1>1, <1>2, <1>3, <1>5, <1>6, <1>7, <1>8 DEF TypeOK, Init, Down

LEMMA SequenceFacts ==
  ASSUME NEW S, NEW s \in Seq(S), NEW x \in S
  PROVE  /\ Append(s, x) \in Seq(S) /\ Len(Append(s, x)) = Len(s) + 1
         /\ s # <<>> => Tail(s) \in Seq(S) /\ Head(s) \in S /\ Len(Tail(s)) = Len(s) - 1
  OBVIOUS

LEMMA RangeAppend ==
  ASSUME NEW S, NEW s \in Seq(S), NEW x \in S
  PROVE  Range(Append(s, x)) = Range(s) \cup {x}
  <1> DEFINE q == Append(s, x)
  <1>1. q \in Seq(S) /\ Len(q) = Len(s) + 1
    BY SequenceFacts
  <1>2. Range(q) = {q[i] : i \in 1..Len(q)} /\ Range(s) = {s[i] : i \in 1..Len(s)}
    BY <1>1, RangeEquality
  <1>3. (\A i \in 1..Len(s) : q[i] = s[i]) /\ q[Len(s) + 1] = x
    OBVIOUS
  <1> HIDE DEF q
  <1>4. Len(s) \in Nat
    OBVIOUS
  <1>5. ASSUME NEW i \in 1..Len(q) PROVE q[i] \in Range(s) \cup {x}
    <2>1. i \in 1..Len(s) \/ i = Len(s) + 1
      BY <1>1, <1>4
    <2> QED
      BY <1>2, <1>3, <2>1
  <1>6. ASSUME NEW i \in 1..Len(s) PROVE s[i] \in Range(q)
    <2>1. i \in 1..Len(q) /\ q[i] = s[i]
      BY <1>1, <1>3, <1>4
    <2> QED
      BY <1>2, <2>1
  <1>7. x \in Range(q)
    <2>1. Len(s) + 1 \in 1..Len(q)
      BY <1>1, <1>4
    <2> QED
      BY <1>2, <1>3, <2>1
  <1>8. Range(q) = Range(s) \cup {x}
    BY <1>2, <1>5, <1>6, <1>7
  <1> QED
    BY <1>8 DEF q

LEMMA RangeTail ==
  ASSUME NEW S, NEW s \in Seq(S), s # <<>>
  PROVE  Range(s) = Range(Tail(s)) \cup {Head(s)}
  <1>1. ASSUME NEW i \in 1..Len(s) PROVE s[i] \in Range(Tail(s)) \cup {Head(s)}
    <2>1. CASE i = 1
      BY <2>1
    <2>2. CASE i # 1
      <3>1. i - 1 \in 1..Len(Tail(s)) /\ Tail(s)[i - 1] = s[i]
        BY <2>2
      <3>2. i - 1 \in DOMAIN Tail(s)
        BY <3>1
      <3> QED
        BY <3>1, <3>2 DEF Range
    <2> QED
      BY <2>1, <2>2
  <1>2. ASSUME NEW i \in 1..Len(Tail(s)) PROVE Tail(s)[i] \in Range(s)
    <2>1. i + 1 \in DOMAIN s /\ Tail(s)[i] = s[i + 1]
      OBVIOUS
    <2> QED
      BY <2>1 DEF Range
  <1>3. Head(s) \in Range(s)
    <2>1. 1 \in DOMAIN s /\ Head(s) = s[1]
      OBVIOUS
    <2> QED
      BY <2>1 DEF Range
  <1>4. Range(s) = {s[i] : i \in 1..Len(s)} /\ Range(Tail(s)) = {Tail(s)[i] : i \in 1..Len(Tail(s))}
    <2>1. Tail(s) \in Seq(S)
      OBVIOUS
    <2> QED
      BY <2>1, RangeEquality
  <1> QED
    BY <1>1, <1>2, <1>3, <1>4

-----------------------------------------------------------------------------
(* Types.                                                                   *)
ReaderStates == [at : Places, seg : 0..MaxSegs, by : {"none", "create", "claim"}]

Located == \A p \in Readers : reader[p].at # "down" => reader[p].seg \in 1..segs

LEMMA ReaderMoves ==
  ASSUME TypeOK, NEW p \in Readers, NEW place \in Places, NEW s \in 1..segs',
         segs <= segs', segs' \in 0..MaxSegs,
         NEW by \in {"none", "create", "claim"},
         reader' = [reader EXCEPT ![p] = At(place, s, by)]
  PROVE  reader' \in [Readers -> ReaderStates] /\ Located'
  <1>1. At(place, s, by) \in ReaderStates
    BY ChannelAssumption DEF ReaderStates, At
  <1>2. segs \in Nat /\ segs' \in Nat /\ \A q \in Readers : reader[q].seg \in Nat
    BY ChannelAssumption DEF TypeOK
  <1> QED
    BY <1>1, <1>2 DEF TypeOK, At, ReaderStates, Located

LEMMA ReaderGoesOn ==
  ASSUME TypeOK, NEW p \in Readers, NEW place \in Places, reader[p].at # "down",
         reader' = [reader EXCEPT ![p].at = place], segs' = segs
  PROVE  reader' \in [Readers -> ReaderStates] /\ Located'
  BY DEF TypeOK, ReaderStates, Located

LEMMA ReaderFalls ==
  ASSUME TypeOK, NEW p \in Readers, reader' = [reader EXCEPT ![p] = Down], segs' = segs
  PROVE  reader' \in [Readers -> ReaderStates] /\ Located'
  <1>1. Down \in ReaderStates
    BY ChannelAssumption DEF ReaderStates, Down, NoSeg, Places
  <1> QED
    BY <1>1 DEF TypeOK, ReaderStates, Located, Down

LEMMA StepType == TypeOK /\ [Next]_vars => TypeOK'
  <1> SUFFICES ASSUME TypeOK, [Next]_vars PROVE TypeOK'
    OBVIOUS
  <1> DEFINE Entries == Ports \X (1..MaxMsgs)
  <1>0. /\ named \in [Ports -> 0..segs] /\ segs \in 0..MaxSegs /\ sent \in 0..MaxMsgs
        /\ owner \in [Segs -> Readers \cup {Nobody}]
        /\ queue \in [Segs -> Seq(Entries)]
        /\ \A s \in Segs : Len(queue[s]) <= Capacity
        /\ reader \in [Readers -> ReaderStates] /\ Located
        /\ cache \in [Writers -> [Ports -> 0..segs]]
        /\ sending \in [Writers -> Seq(Sends)]
        /\ returned \subseteq [no : 1..MaxMsgs, all : SUBSET Ports, ret : BOOLEAN]
        /\ left \subseteq Entries /\ unlinked \in BOOLEAN
        /\ ready \subseteq 1..segs /\ hurried \subseteq Segs
    BY DEF TypeOK, ReaderStates, Located
  <1>m. MaxSegs \in Nat /\ MaxMsgs \in Nat /\ Capacity \in Nat /\ PortOf \in [Readers -> Ports]
    BY ChannelAssumption
  <1>n. \A p \in Readers : reader[p].at # "down" => reader[p].seg \in Segs
    BY <1>0, <1>m DEF Located, Segs
  <1>1. ASSUME NEW p \in Readers, ChannelCreate(p) PROVE TypeOK'
    <2>1. segs + 1 \in 1..segs' /\ segs' \in 0..MaxSegs /\ segs <= segs' /\ segs' = segs + 1
      BY <1>0, <1>1, <1>m DEF ChannelCreate, Segs
    <2>2. reader' \in [Readers -> ReaderStates] /\ Located'
      BY <1>1, <2>1, ReaderMoves DEF ChannelCreate, Places
    <2>5. ready' \subseteq 1..segs'
      <3>1. ready' = ready /\ segs' = segs + 1
        BY <1>1 DEF ChannelCreate
      <3>2. 1..segs \subseteq 1..segs'
        BY <1>0, <3>1
      <3> QED
        BY <1>0, <3>1, <3>2
    <2>3. named' \in [Ports -> 0..segs']
      <3>1. named' = [named EXCEPT ![PortOf[p]] = segs'] /\ segs' \in 0..segs'
        BY <1>1, <2>1 DEF ChannelCreate
      <3>2. 0..segs \subseteq 0..segs'
        BY <1>0, <2>1
      <3> QED
        BY <1>0, <3>1, <3>2
    <2>4. cache' \in [Writers -> [Ports -> 0..segs']]
      <3>1. 0..segs \subseteq 0..segs'
        BY <1>0, <1>1, <1>m DEF ChannelCreate
      <3> QED
        BY <1>0, <1>1, <3>1 DEF ChannelCreate
    <2> QED
      BY <1>0, <1>1, <2>1, <2>2, <2>3, <2>4, <2>5 DEF ChannelCreate, TypeOK, ReaderStates, Located,
         sends
  <1>2. ASSUME NEW p \in Readers, ChannelOpen(p) PROVE TypeOK'
    <2>1. named[PortOf[p]] \in 1..segs' /\ segs <= segs' /\ segs' \in 0..MaxSegs
      <3>1. named[PortOf[p]] \in ready /\ segs' = segs
        BY <1>2 DEF ChannelOpen
      <3> QED
        BY <1>0, <1>m, <3>1
    <2>2. reader' \in [Readers -> ReaderStates] /\ Located'
      BY <1>2, <2>1, ReaderMoves DEF ChannelOpen, Places
    <2> QED
      BY <1>0, <1>2, <2>2 DEF ChannelOpen, TypeOK, ReaderStates, Located, sends
  <1>3. ASSUME NEW p \in Readers, ClaimOwnership(p) PROVE TypeOK'
    <2> DEFINE s == reader[p].seg
    <2>1. /\ s \in Segs /\ s \in 1..segs' /\ segs' = segs /\ segs <= segs'
          /\ segs' \in 0..MaxSegs
      BY <1>0, <1>m, <1>n, <1>3 DEF ClaimOwnership, Located
    <2>2. reader' \in [Readers -> ReaderStates] /\ Located'
      BY <1>3, <2>1, ReaderMoves, ReaderFalls DEF ClaimOwnership, Places
    <2>3. owner' \in [Segs -> Readers \cup {Nobody}]
      BY <1>0, <1>3 DEF ClaimOwnership
    <2>4. <<>> \in Seq(Entries) /\ Len(<<>>) <= Capacity
      BY <1>m
    <2>5. queue' \in [Segs -> Seq(Entries)] /\ \A t \in Segs : Len(queue'[t]) <= Capacity
      <3>1. queue' = queue \/ queue' = [queue EXCEPT ![s] = <<>>]
        BY <1>3 DEF ClaimOwnership
      <3> QED
        BY <1>0, <2>1, <2>4, <3>1
    <2>6. left' \subseteq Entries
      <3>1. Range(queue[s]) \subseteq Entries
        BY <1>0, <2>1, RangeOfSeq
      <3> QED
        BY <1>0, <1>3, <3>1 DEF ClaimOwnership
    <2>7. hurried' \subseteq Segs
      BY <1>0, <1>3, <2>1 DEF ClaimOwnership
    <2> QED
      BY <1>0, <1>3, <2>2, <2>3, <2>5, <2>6, <2>7 DEF ClaimOwnership, TypeOK, ReaderStates, Located,
         sends
  <1>4. ASSUME NEW p \in Readers, Receive(p) PROVE TypeOK'
    <2> DEFINE s == reader[p].seg
    <2>1. s \in Segs /\ queue[s] \in Seq(Entries) /\ queue[s] # <<>>
      BY <1>0, <1>n, <1>4 DEF Receive
    <2>2. /\ Tail(queue[s]) \in Seq(Entries) /\ Head(queue[s]) \in Entries
          /\ Len(Tail(queue[s])) = Len(queue[s]) - 1 /\ Len(queue[s]) \in Nat
      BY <2>1
    <2>3. queue' = [queue EXCEPT ![s] = Tail(queue[s])] /\ left' = left \cup {Head(queue[s])}
      BY <1>4 DEF Receive
    <2>4. queue' \in [Segs -> Seq(Entries)]
      BY <1>0, <2>1, <2>2, <2>3
    <2>5. \A t \in Segs : Len(queue'[t]) <= Capacity
      <3>1. Len(Tail(queue[s])) <= Capacity
        BY <1>0, <1>m, <2>1, <2>2
      <3> QED
        BY <1>0, <2>1, <2>3, <3>1
    <2> QED
      BY <1>0, <1>4, <2>2, <2>3, <2>4, <2>5 DEF Receive, TypeOK, ReaderStates, Located, sends
  <1>5. ASSUME NEW p \in Readers, ChannelStop(p) PROVE TypeOK'
    <2>1. reader' \in [Readers -> ReaderStates] /\ Located'
      BY <1>5, ReaderFalls DEF ChannelStop
    <2>2. named' \in [Ports -> 0..segs']
      <3>1. NoSeg \in 0..segs
        BY <1>0, <1>m DEF NoSeg
      <3> QED
        BY <1>0, <1>5, <3>1 DEF ChannelStop
    <2> QED
      BY <1>0, <1>5, <2>1, <2>2 DEF ChannelStop, TypeOK, ReaderStates, Located, sends
  <1>6. ASSUME NEW p \in Readers, ReaderCrash(p) PROVE TypeOK'
    <2>1. reader' \in [Readers -> ReaderStates] /\ Located'
      BY <1>6, ReaderFalls DEF ReaderCrash
    <2> QED
      BY <1>0, <1>6, <2>1 DEF ReaderCrash, TypeOK, ReaderStates, Located, sends
  <1>7. ASSUME NEW w \in Writers, NEW ds \in Selected, SendBegin(w, ds) PROVE TypeOK'
    <2> DEFINE it == [no |-> sent', all |-> Range(ds), rest |-> ds, ret |-> TRUE, late |-> FALSE]
    <2>1. sent' \in 1..MaxMsgs
      BY <1>0, <1>7, <1>m DEF SendBegin
    <2>2. ds \in Seq(Ports) /\ Range(ds) \subseteq Ports
      BY ChannelAssumption, RangeOfSeq
    <2>3. it \in Sends
      BY <2>1, <2>2 DEF Sends
    <2>4. sending' \in [Writers -> Seq(Sends)]
      <3>1. sending' = [sending EXCEPT ![w] = <<it>>]
        BY <1>7 DEF SendBegin
      <3> HIDE DEF it
      <3> QED
        BY <1>0, <2>3, <3>1
    <2> QED
      BY <1>0, <1>7, <2>1, <2>4 DEF SendBegin, TypeOK, ReaderStates, Located,
         readers
  <1>8. ASSUME NEW w \in Writers, DeadlinePasses(w) PROVE TypeOK'
    <2> DEFINE it == [sending[w][1] EXCEPT !.late = TRUE]
    <2>1. sending[w][1] \in Sends
      BY <1>0, <1>8 DEF DeadlinePasses
    <2>2. it \in Sends
      BY <2>1 DEF Sends
    <2>3. sending' \in [Writers -> Seq(Sends)]
      <3>1. sending' = [sending EXCEPT ![w] = <<it>>]
        BY <1>8 DEF DeadlinePasses
      <3> HIDE DEF it
      <3> QED
        BY <1>0, <2>2, <3>1
    <2> QED
      BY <1>0, <1>8, <2>3 DEF DeadlinePasses, TypeOK, ReaderStates, Located,
         readers
  <1>9. ASSUME NEW w \in Writers, SendNext(w) PROVE TypeOK'
    <2> DEFINE it == sending[w][1]
               d == Head(it.rest)
               s == Bucket(w, d)
    <2>1. it \in Sends
      <3>1. sending[w] \in Seq(Sends) /\ sending[w] # <<>>
        BY <1>0, <1>9 DEF SendNext
      <3> QED
        BY <3>1
    <2>2. /\ it.rest \in Seq(Ports) /\ it.rest # <<>> /\ it.no \in 1..MaxMsgs
          /\ it.ret \in BOOLEAN
      BY <1>9, <2>1 DEF SendNext, Sends
    <2>3. d \in Ports /\ Tail(it.rest) \in Seq(Ports)
      BY <2>2
    <2>4. s \in 0..segs
      <3>1. cache[w] \in [Ports -> 0..segs] /\ named \in [Ports -> 0..segs]
        BY <1>0
      <3>2. cache[w][d] \in 0..segs /\ named[d] \in 0..segs
        BY <2>3, <3>1
      <3>3. NoSeg \in 0..segs
        BY <1>0 DEF NoSeg
      <3> HIDE DEF d
      <3> QED
        BY <3>2, <3>3 DEF Bucket
    <2>5. cache' \in [Writers -> [Ports -> 0..segs]]
      <3>1. cache' = [cache EXCEPT ![w][d] = s]
        BY <1>9 DEF SendNext
      <3>2. cache[w] \in [Ports -> 0..segs]
        BY <1>0
      <3>3. [cache[w] EXCEPT ![d] = s] \in [Ports -> 0..segs]
        BY <2>4, <3>2
      <3> HIDE DEF d, s
      <3> QED
        BY <1>0, <3>1, <3>3
    <2>6. sending' \in [Writers -> Seq(Sends)]
      <3>1. PICK done \in BOOLEAN :
               sending' = [sending EXCEPT ![w] =
                   <<[it EXCEPT !.rest = Tail(@), !.ret = Result(@, done)]>>]
        BY <1>9 DEF SendNext
      <3>2. [it EXCEPT !.rest = Tail(@), !.ret = Result(@, done)] \in Sends
        <4> HIDE DEF it
        <4> QED
          BY <2>1, <2>2, <2>3 DEF Sends, Result
      <3> DEFINE jt == [it EXCEPT !.rest = Tail(@), !.ret = Result(@, done)]
      <3>3. sending' = [sending EXCEPT ![w] = <<jt>>] /\ jt \in Sends
        BY <3>1, <3>2
      <3> HIDE DEF jt
      <3> QED
        BY <1>0, <3>3
    <2>7. queue' \in [Segs -> Seq(Entries)] /\ \A t \in Segs : Len(queue'[t]) <= Capacity
      <3>1. CASE UNCHANGED queue
        BY <1>0, <3>1
      <3>2. CASE /\ s # NoSeg /\ Len(queue[s]) < Capacity
                 /\ queue' = [queue EXCEPT ![s] = Append(queue[s], <<d, it.no>>)]
        <4>1. s \in Segs /\ <<d, it.no>> \in Entries
          <5>1. <<d, it.no>> \in Entries
            <6> HIDE DEF d, it
            <6> QED
              BY <2>2, <2>3
          <5>2. s # 0 /\ s \in 0..segs
            BY <2>4, <3>2 DEF NoSeg
          <5>3. s \in Segs
            <6> HIDE DEF s
            <6> QED
              BY <1>0, <1>m, <5>2 DEF Segs
          <5> QED
            BY <5>1, <5>3
        <4>2. queue[s] \in Seq(Entries)
          BY <1>0, <4>1
        <4> DEFINE q == Append(queue[s], <<d, it.no>>)
        <4>3. q \in Seq(Entries) /\ Len(q) = Len(queue[s]) + 1 /\ Len(queue[s]) \in Nat
          BY <4>1, <4>2, SequenceFacts
        <4>5. queue' = [queue EXCEPT ![s] = q]
          BY <3>2
        <4>6. Len(queue[s]) < Capacity
          BY <3>2
        <4> HIDE DEF q, s
        <4>4. Len(q) <= Capacity
          BY <1>m, <4>3, <4>6
        <4> QED
          BY <1>0, <4>1, <4>3, <4>4, <4>5
      <3> QED
        BY <1>9, <3>1, <3>2 DEF SendNext
    <2> QED
      BY <1>0, <1>9, <2>5, <2>6, <2>7 DEF SendNext, TypeOK, ReaderStates, Located,
         readers
  <1>10. ASSUME NEW w \in Writers, SendReturns(w) PROVE TypeOK'
    <2>1. sending[w][1] \in Sends
      BY <1>0, <1>10 DEF SendReturns
    <2>2. returned' \subseteq [no : 1..MaxMsgs, all : SUBSET Ports, ret : BOOLEAN]
      BY <1>0, <1>10, <2>1 DEF SendReturns, Sends
    <2>3. sending' \in [Writers -> Seq(Sends)]
      BY <1>0, <1>10 DEF SendReturns
    <2> QED
      BY <1>0, <1>10, <2>2, <2>3 DEF SendReturns, TypeOK, ReaderStates, Located,
         readers
  <1>11. ASSUME NEW w \in Writers, WriterRestart(w) PROVE TypeOK'
    <2>1. sending' \in [Writers -> Seq(Sends)]
      BY <1>0, <1>11 DEF WriterRestart
    <2>2. [d \in Ports |-> NoSeg] \in [Ports -> 0..segs]
      BY <1>0, <1>m DEF NoSeg
    <2>3. cache' \in [Writers -> [Ports -> 0..segs]]
      BY <1>0, <1>11, <2>2 DEF WriterRestart
    <2> QED
      BY <1>0, <1>11, <2>1, <2>3 DEF WriterRestart, TypeOK, ReaderStates, Located,
         readers
  <1>12. CASE UNCHANGED vars
    BY <1>0, <1>12 DEF vars, TypeOK, ReaderStates, Located
  <1>13. ASSUME NEW w \in Writers, NEW d \in Ports, Reachable(w, d) PROVE TypeOK'
    <2>1. Bucket(w, d) \in 0..segs /\ cache[w] \in [Ports -> 0..segs]
      BY <1>0 DEF Bucket
    <2>2. [cache[w] EXCEPT ![d] = Bucket(w, d)] \in [Ports -> 0..segs]
      BY <2>1
    <2>3. cache' \in [Writers -> [Ports -> 0..segs']]
      BY <1>0, <1>13, <2>2 DEF Reachable, readers
    <2> QED
      BY <1>0, <1>13, <2>3 DEF Reachable, TypeOK, ReaderStates, Located, sends, readers
  <1>14. ASSUME NEW p \in Readers, CreateFails(p) PROVE TypeOK'
    <2>1. reader' \in [Readers -> ReaderStates] /\ Located'
      BY <1>14, ReaderFalls DEF CreateFails
    <2>2. named' \in [Ports -> 0..segs']
      <3>1. NoSeg \in 0..segs /\ segs' = segs
        BY <1>0, <1>14, <1>m DEF CreateFails, NoSeg
      <3> QED
        BY <1>0, <1>14, <3>1 DEF CreateFails
    <2> QED
      BY <1>0, <1>14, <2>1, <2>2 DEF CreateFails, TypeOK, ReaderStates, Located, sends
  <1>15. ASSUME NEW p \in Readers, CreatePublish(p) PROVE TypeOK'
    <2>1. reader' \in [Readers -> ReaderStates] /\ Located'
      BY <1>15, ReaderGoesOn DEF CreatePublish, Places
    <2>2. ready' \subseteq 1..segs'
      BY <1>0, <1>15 DEF CreatePublish, Located
    <2> QED
      BY <1>0, <1>15, <2>1, <2>2 DEF CreatePublish, TypeOK, ReaderStates, Located, sends
  <1>16. ASSUME NEW p \in Readers, CreateClear(p) PROVE TypeOK'
    <2> DEFINE s == reader[p].seg
    <2>1. s \in Segs
      BY <1>n, <1>16 DEF CreateClear
    <2>2. reader' \in [Readers -> ReaderStates] /\ Located'
      BY <1>16, ReaderGoesOn DEF CreateClear, Places
    <2>3. queue' \in [Segs -> Seq(Entries)] /\ \A t \in Segs : Len(queue'[t]) <= Capacity
      <3>1. <<>> \in Seq(Entries) /\ Len(<<>>) <= Capacity
        BY <1>m
      <3>2. queue' = [queue EXCEPT ![s] = <<>>]
        BY <1>16 DEF CreateClear
      <3> QED
        BY <1>0, <2>1, <3>1, <3>2
    <2>4. left' \subseteq Entries
      <3>1. Range(queue[s]) \subseteq Entries
        BY <1>0, <2>1, RangeOfSeq
      <3> QED
        BY <1>0, <1>16, <3>1 DEF CreateClear
    <2> QED
      BY <1>0, <1>16, <2>2, <2>3, <2>4 DEF CreateClear, TypeOK, ReaderStates, Located, sends
  <1>17. ASSUME NEW p \in Readers, CreateDisown(p) PROVE TypeOK'
    <2>1. reader' \in [Readers -> ReaderStates] /\ Located'
      BY <1>17, ReaderGoesOn DEF CreateDisown, Places
    <2>2. owner' \in [Segs -> Readers \cup {Nobody}]
      BY <1>0, <1>17 DEF CreateDisown
    <2> QED
      BY <1>0, <1>17, <2>1, <2>2 DEF CreateDisown, TypeOK, ReaderStates, Located, sends
  <1> QED
    BY <1>1, <1>2, <1>3, <1>4, <1>5, <1>6, <1>7, <1>8, <1>9, <1>10, <1>11, <1>12, <1>13,
       <1>14, <1>15, <1>16, <1>17 DEF Next, CreateStep, ReaderStep

(* Every variable keeps its type, for any number of processes and ports.    *)
THEOREM ChannelTypeCorrect == Spec => []TypeOK
  BY InitType, StepType, PTL DEF Spec

LEMMA NextDestination ==
  ASSUME TypeOK, NEW w \in Writers, SendNext(w)
  PROVE  Head(sending[w][1].rest) \in Ports
  <1>1. /\ sending[w] \in Seq(Sends) /\ sending[w] # <<>> /\ sending[w][1].rest # <<>>
    BY DEF TypeOK, SendNext
  <1>2. sending[w][1] \in Sends
    BY <1>1
  <1> QED
    BY <1>1, <1>2 DEF Sends

-----------------------------------------------------------------------------
(* A segment that is still being created is its creator's alone until Open  *)
(* accepts it; every other reader, and every cache, has an accepted one.    *)
UnderCreation == {"creating", "clearing", "disowning"}

CreationOK ==
    /\ \A p, q \in Readers : reader[p].at = "creating" /\ reader[q].at # "down" /\ q # p
                                => reader[q].seg # reader[p].seg
    /\ \A p \in Readers :
        /\ reader[p].at = "creating" => reader[p].seg \notin ready
        /\ reader[p].at \notin {"down", "creating"} => reader[p].seg \in ready
        /\ reader[p].at \in UnderCreation => reader[p].by = "create"
    /\ \A w \in Writers, d \in Ports : cache[w][d] = NoSeg \/ cache[w][d] \in ready

LEMMA StepCreation == TypeOK /\ CreationOK /\ [Next]_vars => CreationOK'
  <1> SUFFICES ASSUME TypeOK, CreationOK, [Next]_vars PROVE CreationOK'
    OBVIOUS
  <1> USE DEF UnderCreation
  <1>0. /\ reader \in [Readers -> ReaderStates] /\ Located /\ PortOf \in [Readers -> Ports]
        /\ ready \subseteq 1..segs /\ segs \in Nat
        /\ cache \in [Writers -> [Ports -> 0..segs]]
    BY ChannelAssumption DEF TypeOK, ReaderStates, Located
  <1>1. ASSUME NEW p \in Readers, ChannelCreate(p) PROVE CreationOK'
    <2>1. /\ reader' = [reader EXCEPT ![p] = At("creating", segs + 1, "create")]
          /\ UNCHANGED <<ready, cache>>
      BY <1>1 DEF ChannelCreate
    <2>2. segs + 1 \notin ready
      BY <1>0
    <2>3. \A q \in Readers : reader[q].at # "down" => reader[q].seg # segs + 1
      BY <1>0 DEF Located
    <2>4. /\ reader'[p] = At("creating", segs + 1, "create")
          /\ \A q \in Readers : q # p => reader'[q] = reader[q]
      BY <1>0, <2>1
    <2> QED
      BY <2>1, <2>2, <2>3, <2>4 DEF CreationOK, At
  <1>2. ASSUME NEW p \in Readers, ChannelOpen(p) PROVE CreationOK'
    <2> DEFINE s == named[PortOf[p]]
    <2>1. /\ reader' = [reader EXCEPT ![p] = At("claiming", s, "none")] /\ s \in ready
          /\ UNCHANGED <<ready, cache>>
      BY <1>2 DEF ChannelOpen
    <2>2. /\ reader'[p] = At("claiming", s, "none")
          /\ \A q \in Readers : q # p => reader'[q] = reader[q]
      BY <1>0, <2>1
    <2> HIDE DEF s
    <2> QED
      BY <2>1, <2>2 DEF CreationOK, At
  <1>3. ASSUME NEW p \in Readers, ClaimOwnership(p) PROVE CreationOK'
    <2> DEFINE s == reader[p].seg
    <2>1. /\ reader[p].at = "claiming" /\ UNCHANGED <<ready, cache>>
          /\ \/ reader' = [reader EXCEPT ![p] = At("running", s, "claim")]
             \/ reader' = [reader EXCEPT ![p] = Down]
      BY <1>3 DEF ClaimOwnership
    <2>2. /\ reader'[p] = At("running", s, "claim") \/ reader'[p] = Down
          /\ \A q \in Readers : q # p => reader'[q] = reader[q]
      BY <1>0, <2>1
    <2> QED
      BY <2>1, <2>2 DEF CreationOK, At, Down
  <1>4. ASSUME NEW p \in Readers, CreateFails(p) \/ ChannelStop(p) \/ ReaderCrash(p)
        PROVE  CreationOK'
    <2>1. reader' = [reader EXCEPT ![p] = Down] /\ UNCHANGED <<ready, cache>>
      BY <1>4 DEF CreateFails, ChannelStop, ReaderCrash
    <2> QED
      BY <1>0, <2>1 DEF CreationOK, Down
  <1>5. ASSUME NEW p \in Readers, CreatePublish(p) PROVE CreationOK'
    <2>1. /\ reader' = [reader EXCEPT ![p].at = "clearing"] /\ reader[p].at = "creating"
          /\ ready' = ready \cup {reader[p].seg} /\ cache' = cache
      BY <1>5 DEF CreatePublish
    <2>2. /\ reader'[p] = [reader[p] EXCEPT !.at = "clearing"]
          /\ \A q \in Readers : q # p => reader'[q] = reader[q]
      BY <1>0, <2>1
    <2>3. /\ reader'[p].at = "clearing" /\ reader'[p].seg = reader[p].seg
          /\ reader'[p].by = reader[p].by
      BY <1>0, <2>2 DEF ReaderStates
    <2> QED
      BY <2>1, <2>2, <2>3 DEF CreationOK
  <1>6. ASSUME NEW p \in Readers, CreateClear(p) \/ CreateDisown(p) PROVE CreationOK'
    <2>1. /\ \/ reader' = [reader EXCEPT ![p].at = "disowning"]
             \/ reader' = [reader EXCEPT ![p].at = "running"]
          /\ reader[p].at \in {"clearing", "disowning"} /\ UNCHANGED <<ready, cache>>
      BY <1>6 DEF CreateClear, CreateDisown
    <2>2. /\ reader'[p].at \in {"disowning", "running"} /\ reader'[p].seg = reader[p].seg
          /\ reader'[p].by = reader[p].by
          /\ \A q \in Readers : q # p => reader'[q] = reader[q]
      BY <1>0, <2>1 DEF ReaderStates
    <2> QED
      BY <2>1, <2>2 DEF CreationOK
  <1>7. ASSUME NEW w \in Writers, NEW d \in Ports, UNCHANGED <<ready, reader>>,
               cache' = [cache EXCEPT ![w][d] = Bucket(w, d)]
        PROVE  CreationOK'
    <2>1. Bucket(w, d) = NoSeg \/ Bucket(w, d) \in ready
      BY <1>7 DEF Bucket, CreationOK
    <2>2. ASSUME NEW v \in Writers, NEW e \in Ports
          PROVE  cache'[v][e] = cache[v][e] \/ cache'[v][e] = Bucket(w, d)
      BY <1>0, <1>7
    <2> QED
      BY <1>7, <2>1, <2>2 DEF CreationOK
  <1>8. ASSUME NEW w \in Writers, SendNext(w) PROVE CreationOK'
    BY <1>7, <1>8, NextDestination DEF SendNext, readers
  <1>9. ASSUME NEW w \in Writers, WriterRestart(w) PROVE CreationOK'
    <2>1. UNCHANGED <<ready, reader>> /\ cache' = [cache EXCEPT ![w] = [d \in Ports |-> NoSeg]]
      BY <1>9 DEF WriterRestart, readers
    <2> QED
      BY <1>0, <2>1 DEF CreationOK
  <1>10. ASSUME NEW w \in Writers, NEW d \in Ports, Reachable(w, d) PROVE CreationOK'
    BY <1>7, <1>10 DEF Reachable, readers
  <1>11. ASSUME UNCHANGED <<ready, reader, cache>> PROVE CreationOK'
    BY <1>11 DEF CreationOK
  <1> QED
    BY <1>1, <1>2, <1>3, <1>4, <1>5, <1>6, <1>8, <1>9, <1>10, <1>11
       DEF Next, CreateStep, ReaderStep, Receive, SendBegin, DeadlinePasses, SendReturns, vars,
           readers

LEMMA InitCreation == Init => CreationOK
  BY DEF Init, CreationOK, Down, UnderCreation

(* A reader that serves what it has claimed is the owner in the header: a   *)
(* claim passes over an owner only when kill says that it is gone.  Only a  *)
(* creator that is not done yet writes over a claim.                        *)
Claimed(p) == reader[p].at = "running" /\ reader[p].by = "claim"

ClaimsHold ==
    \A p \in Readers : Claimed(p) /\ reader[p].seg \notin hurried =>
        owner[reader[p].seg] = p /\ ~Unfinished(reader[p].seg)

LEMMA StepClaims == TypeOK /\ CreationOK /\ ClaimsHold /\ [Next]_vars => ClaimsHold'
  <1> SUFFICES ASSUME TypeOK, CreationOK, ClaimsHold, [Next]_vars PROVE ClaimsHold'
    OBVIOUS
  <1>0. /\ reader \in [Readers -> ReaderStates] /\ owner \in [Segs -> Readers \cup {Nobody}]
        /\ Located
    BY DEF TypeOK, ReaderStates, Located
  <1>1. ASSUME NEW p \in Readers, NEW r, reader' = [reader EXCEPT ![p] = r],
               ~(r.at = "running" /\ r.by = "claim"), r.at \notin {"clearing", "disowning"},
               UNCHANGED <<owner, hurried>>
        PROVE  ClaimsHold'
    <2>1. \A q \in Readers : reader'[q] = IF q = p THEN r ELSE reader[q]
      BY <1>0, <1>1
    <2>2. \A s : Unfinished(s)' => Unfinished(s)
      BY <1>1, <2>1 DEF Unfinished
    <2> QED
      BY <1>1, <2>1, <2>2 DEF ClaimsHold, Claimed
  <1>2. ASSUME NEW p \in Readers, ClaimOwnership(p) PROVE ClaimsHold'
    <2> DEFINE s == reader[p].seg
    <2>1. s \in Segs /\ reader[p].at = "claiming"
      BY <1>2, ChannelAssumption DEF ClaimOwnership, TypeOK, Segs
    <2>2. CASE MayClaim(p, s) \/ owner[s] = p
      <3>1. /\ owner' = [owner EXCEPT ![s] = p]
            /\ reader' = [reader EXCEPT ![p] = At("running", s, "claim")]
            /\ hurried' = IF Unfinished(s) THEN hurried \cup {s} ELSE hurried
        BY <1>0, <1>2, <2>1, <2>2 DEF ClaimOwnership
      <3>2. ASSUME NEW q \in Readers, q # p, Claimed(q), reader[q].seg \notin hurried
            PROVE  reader[q].seg # s
        <4>1. reader[q].seg = s => owner[s] = q
          BY <3>2 DEF ClaimsHold
        <4>2. q # Nobody
          BY ChannelAssumption DEF Nobody
        <4> QED
          BY <2>2, <3>2, <4>1, <4>2 DEF MayClaim, Dead, Claimed
      <3>3. \A q \in Readers : reader'[q] = IF q = p THEN At("running", s, "claim")
                                             ELSE reader[q]
        BY <1>0, <3>1
      <3>4. \A t : Unfinished(t)' <=> Unfinished(t)
        BY <2>1, <3>3 DEF Unfinished, At
      <3>5. \A t \in Segs : owner'[t] = IF t = s THEN p ELSE owner[t]
        BY <1>0, <3>1
      <3>6. ASSUME NEW q \in Readers, Claimed(q)', reader'[q].seg \notin hurried'
            PROVE  owner'[reader'[q].seg] = q /\ ~Unfinished(reader[q].seg)'
        <4>1. CASE q = p
          BY <2>1, <3>1, <3>3, <3>4, <3>5, <3>6, <4>1 DEF At
        <4>2. CASE q # p
          <5>1. Claimed(q) /\ reader'[q] = reader[q] /\ reader[q].seg \notin hurried
            BY <3>1, <3>3, <3>6, <4>2 DEF Claimed
          <5>2. reader[q].seg # s /\ reader[q].seg \in Segs
            BY <3>2, <4>2, <5>1, ChannelAssumption DEF Claimed, TypeOK, Segs
          <5> QED
            BY <3>4, <3>5, <5>1, <5>2 DEF ClaimsHold
        <4> QED
          BY <4>1, <4>2
      <3> QED
        BY <3>6 DEF ClaimsHold, Claimed
    <2>3. CASE ~MayClaim(p, s) /\ owner[s] # p
      BY <1>1, <1>2, <2>3 DEF ClaimOwnership, Down
    <2> QED
      BY <2>2, <2>3
  <1>3. ASSUME NEW p \in Readers,
               ChannelCreate(p) \/ ChannelOpen(p) \/ CreateFails(p) \/ ChannelStop(p)
                 \/ ReaderCrash(p)
        PROVE  ClaimsHold'
    BY <1>1, <1>3 DEF ChannelCreate, ChannelOpen, CreateFails, ChannelStop, ReaderCrash, At, Down
  <1>4. ASSUME NEW p \in Readers, NEW place \in {"clearing", "disowning", "running"},
               reader' = [reader EXCEPT ![p].at = place]
        PROVE  /\ \A q \in Readers : q # p => reader'[q] = reader[q]
               /\ reader'[p].seg = reader[p].seg /\ reader'[p].at = place
               /\ reader'[p].by = reader[p].by
    BY <1>0, <1>4 DEF ReaderStates
  <1>5. ASSUME NEW p \in Readers, CreatePublish(p) PROVE ClaimsHold'
    <2>1. /\ reader[p].at = "creating" /\ reader' = [reader EXCEPT ![p].at = "clearing"]
          /\ UNCHANGED <<owner, hurried>>
      BY <1>5 DEF CreatePublish
    <2>2. \A q \in Readers : Claimed(q) => reader[q].seg # reader[p].seg
      BY <2>1 DEF CreationOK, Claimed
    <2>3. \A t : t # reader[p].seg /\ Unfinished(t)' => Unfinished(t)
      BY <1>4, <2>1 DEF Unfinished
    <2> QED
      BY <1>4, <2>1, <2>2, <2>3 DEF ClaimsHold, Claimed
  <1>6. ASSUME NEW p \in Readers, CreateClear(p) PROVE ClaimsHold'
    <2>1. /\ reader[p].at = "clearing" /\ reader' = [reader EXCEPT ![p].at = "disowning"]
          /\ UNCHANGED <<owner, hurried>>
      BY <1>6 DEF CreateClear
    <2>2. \A t : Unfinished(t)' => Unfinished(t)
      BY <1>4, <2>1 DEF Unfinished
    <2> QED
      BY <1>4, <2>1, <2>2 DEF ClaimsHold, Claimed
  <1>7. ASSUME NEW p \in Readers, CreateDisown(p) PROVE ClaimsHold'
    <2> DEFINE s == reader[p].seg
    <2>1. /\ reader[p].at = "disowning" /\ reader' = [reader EXCEPT ![p].at = "running"]
          /\ owner' = [owner EXCEPT ![s] = Nobody] /\ UNCHANGED hurried
      BY <1>7 DEF CreateDisown
    <2>2. \A t : Unfinished(t)' => Unfinished(t)
      BY <1>4, <2>1 DEF Unfinished
    <2>3. Unfinished(s) /\ reader[p].by = "create"
      BY <2>1 DEF Unfinished, CreationOK, UnderCreation
    <2>4. ASSUME NEW q \in Readers, Claimed(q)', reader'[q].seg \notin hurried'
          PROVE  owner'[reader'[q].seg] = q /\ ~Unfinished(reader[q].seg)'
      <3>1. q # p /\ Claimed(q) /\ reader'[q] = reader[q] /\ reader[q].seg \notin hurried
        BY <1>4, <2>1, <2>3, <2>4 DEF Claimed
      <3>2. owner[reader[q].seg] = q /\ ~Unfinished(reader[q].seg)
        BY <3>1 DEF ClaimsHold
      <3>3. reader[q].seg # s
        BY <2>3, <3>2
      <3>4. owner'[reader[q].seg] = owner[reader[q].seg]
        BY <1>0, <2>1, <3>3
      <3> QED
        BY <2>2, <3>1, <3>2, <3>4
    <2> QED
      BY <2>4 DEF ClaimsHold
  <1>8. ASSUME UNCHANGED <<owner, reader, hurried>> PROVE ClaimsHold'
    BY <1>8 DEF ClaimsHold, Claimed, Unfinished
  <1> QED
    BY <1>2, <1>3, <1>5, <1>6, <1>7, <1>8
       DEF Next, CreateStep, ReaderStep, Receive, Reachable, SendBegin, DeadlinePasses,
           SendNext, SendReturns, WriterRestart, vars, readers

(* No two readers that run have claimed the same segment, whatever crashes, *)
(* restarts and stops came before, in the middle of a creation too, unless  *)
(* one of the claims was made before the creator had written its last field *)
(* (Create, ClaimOwnership).                                                *)
THEOREM ClaimsExclude == Spec => []OneClaimant
  <1>1. Init => ClaimsHold
    BY DEF Init, ClaimsHold, Claimed, Down
  <1>2. ClaimsHold => OneClaimant
    BY DEF ClaimsHold, Claimed, OneClaimant, Serving
  <1> QED
    BY <1>1, <1>2, InitType, StepType, InitCreation, StepCreation, StepClaims, PTL DEF Spec

(* Until a reader stops in order, a name is given once: every reader and    *)
(* every cache has the segment that the port's name denotes.  A creation    *)
(* that fails takes back a name nobody has opened.                          *)
NamedOnce ==
    ~unlinked => /\ \A p \in Readers : reader[p].at # "down" => reader[p].seg = named[PortOf[p]]
                 /\ \A w \in Writers, d \in Ports : cache[w][d] \in {NoSeg, named[d]}

LEMMA StepNamed == TypeOK /\ CreationOK /\ NamedOnce /\ [Next]_vars => NamedOnce'
  <1> SUFFICES ASSUME TypeOK, CreationOK, NamedOnce, [Next]_vars, ~unlinked' PROVE NamedOnce'
    BY DEF NamedOnce
  <1>0. /\ reader \in [Readers -> ReaderStates] /\ Located /\ PortOf \in [Readers -> Ports]
        /\ named \in [Ports -> 0..segs] /\ cache \in [Writers -> [Ports -> 0..segs]]
    BY ChannelAssumption DEF TypeOK, ReaderStates, Located
  <1>1. ASSUME NEW p \in Readers, ChannelCreate(p) PROVE NamedOnce'
    <2> DEFINE d == PortOf[p]
    <2>1. /\ named' = [named EXCEPT ![d] = segs'] /\ named[d] = NoSeg /\ ~unlinked
          /\ reader' = [reader EXCEPT ![p] = At("creating", segs', "create")]
          /\ cache' = cache
      BY <1>1 DEF ChannelCreate
    <2>2. ASSUME NEW q \in Readers, q # p, reader[q].at # "down" PROVE PortOf[q] # d
      BY <1>0, <2>1, <2>2 DEF NamedOnce, Located, NoSeg
    <2>3. ASSUME NEW q \in Readers, reader'[q].at # "down" PROVE reader'[q].seg = named'[PortOf[q]]
      BY <1>0, <2>1, <2>2, <2>3 DEF NamedOnce, At
    <2>4. ASSUME NEW w \in Writers, NEW e \in Ports PROVE cache'[w][e] \in {NoSeg, named'[e]}
      BY <1>0, <2>1 DEF NamedOnce
    <2> QED
      BY <2>3, <2>4 DEF NamedOnce
  <1>2. ASSUME NEW p \in Readers, ChannelOpen(p) PROVE NamedOnce'
    <2>1. /\ UNCHANGED <<named, cache, unlinked>>
          /\ reader' = [reader EXCEPT ![p] = At("claiming", named[PortOf[p]], "none")]
      BY <1>2 DEF ChannelOpen
    <2> QED
      BY <1>0, <2>1 DEF NamedOnce, At
  <1>3. ASSUME NEW p \in Readers, ClaimOwnership(p) PROVE NamedOnce'
    <2> DEFINE s == reader[p].seg
    <2>1. /\ UNCHANGED <<named, cache, unlinked>> /\ reader[p].at = "claiming"
          /\ \/ reader' = [reader EXCEPT ![p] = At("running", s, "claim")]
             \/ reader' = [reader EXCEPT ![p] = Down]
      BY <1>3 DEF ClaimOwnership
    <2>2. s = named[PortOf[p]]
      BY <2>1 DEF NamedOnce
    <2> HIDE DEF s
    <2> QED
      BY <1>0, <2>1, <2>2 DEF At, Down, NamedOnce
  <1>4. ASSUME NEW p \in Readers, ChannelStop(p) PROVE NamedOnce'
    BY <1>4 DEF ChannelStop
  <1>5. ASSUME NEW p \in Readers, ReaderCrash(p) PROVE NamedOnce'
    BY <1>0, <1>5 DEF ReaderCrash, Down, NamedOnce
  <1>6. ASSUME NEW w \in Writers, NEW d \in Ports, UNCHANGED <<named, reader, unlinked>>,
               cache' = [cache EXCEPT ![w][d] = Bucket(w, d)]
        PROVE  NamedOnce'
    <2>1. Bucket(w, d) \in {NoSeg, named[d]}
      BY <1>6 DEF Bucket, NamedOnce
    <2>2. ASSUME NEW v \in Writers, NEW e \in Ports
          PROVE  cache'[v][e] = cache[v][e] \/ (e = d /\ cache'[v][e] = Bucket(w, d))
      BY <1>0, <1>6
    <2> QED
      BY <1>6, <2>1, <2>2 DEF NamedOnce
  <1>7. ASSUME NEW w \in Writers, SendNext(w) PROVE NamedOnce'
    BY <1>6, <1>7, NextDestination DEF SendNext, readers
  <1>8. ASSUME NEW w \in Writers, WriterRestart(w) PROVE NamedOnce'
    BY <1>0, <1>8 DEF WriterRestart, NamedOnce, readers
  <1>9. ASSUME NEW w \in Writers, NEW d \in Ports, Reachable(w, d) PROVE NamedOnce'
    BY <1>6, <1>9 DEF Reachable, readers
  <1>10. ASSUME UNCHANGED <<named, reader, cache, unlinked>> PROVE NamedOnce'
    BY <1>10 DEF NamedOnce
  <1>11. ASSUME NEW p \in Readers, CreateFails(p) PROVE NamedOnce'
    <2> DEFINE d == PortOf[p]
    <2>1. /\ named' = [named EXCEPT ![d] = NoSeg] /\ reader' = [reader EXCEPT ![p] = Down]
          /\ reader[p].at = "creating" /\ UNCHANGED <<cache, unlinked>>
      BY <1>11 DEF CreateFails
    <2>2. reader[p].seg = named[d] /\ reader[p].seg \notin ready
      BY <2>1 DEF NamedOnce, CreationOK
    <2>3. ASSUME NEW q \in Readers, q # p, reader[q].at # "down" PROVE PortOf[q] # d
      BY <2>1, <2>2, <2>3 DEF NamedOnce, CreationOK
    <2>4. ASSUME NEW q \in Readers, reader'[q].at # "down" PROVE reader'[q].seg = named'[PortOf[q]]
      BY <1>0, <2>1, <2>3, <2>4 DEF NamedOnce, Down
    <2>5. ASSUME NEW w \in Writers, NEW e \in Ports PROVE cache'[w][e] \in {NoSeg, named'[e]}
      <3>1. e = d => cache[w][e] = NoSeg
        <4>1. cache[w][e] \in {NoSeg, named[e]} /\ (cache[w][e] = NoSeg \/ cache[w][e] \in ready)
          BY <2>1 DEF NamedOnce, CreationOK
        <4> QED
          BY <2>2, <4>1
      <3> QED
        BY <1>0, <2>1, <3>1 DEF NamedOnce
    <2> QED
      BY <2>4, <2>5 DEF NamedOnce
  <1>12. ASSUME NEW p \in Readers, CreatePublish(p) \/ CreateClear(p) \/ CreateDisown(p)
         PROVE  NamedOnce'
    <2>1. /\ UNCHANGED <<named, cache, unlinked>> /\ reader[p].at # "down"
          /\ \E place \in Places : reader' = [reader EXCEPT ![p].at = place]
      BY <1>12 DEF CreatePublish, CreateClear, CreateDisown, Places
    <2>2. \A q \in Readers : reader'[q].seg = reader[q].seg /\
                              (reader'[q].at # "down" => reader[q].at # "down")
      BY <1>0, <2>1 DEF ReaderStates
    <2> QED
      BY <2>1, <2>2 DEF NamedOnce
  <1> QED
    BY <1>1, <1>2, <1>3, <1>4, <1>5, <1>7, <1>8, <1>9, <1>10, <1>11, <1>12
       DEF Next, CreateStep, ReaderStep, Receive, SendBegin, DeadlinePasses, SendReturns, vars,
           readers

(* Crashes alone never strand a writer: while no reader has stopped in      *)
(* order, the segment it keeps is the one the port's reader serves, for any *)
(* number of crashes and takeovers (open_bucket, ClaimOwnership).           *)
THEOREM CrashesStrandNobody == Spec => []CrashKeepsWriters
  <1>1. Init => NamedOnce
    BY ChannelAssumption DEF Init, NamedOnce, Down
  <1>2. TypeOK /\ NamedOnce => CrashKeepsWriters
    <2>1. PortOf \in [Readers -> Ports]
      BY ChannelAssumption
    <2> QED
      BY <2>1 DEF NamedOnce, CrashKeepsWriters
  <1> QED
    BY <1>1, <1>2, InitType, StepType, InitCreation, StepCreation, StepNamed, PTL DEF Spec

-----------------------------------------------------------------------------
(* What a bucket holds or has held.                                         *)
PutSet == left \cup UNION {Range(queue[s]) : s \in Segs}

LEMMA PutIsIn == \A d, no : Put(d, no) <=> <<d, no>> \in PutSet
  BY DEF Put, PutSet

(* A send in progress: its result so far says whether the destinations it   *)
(* has passed have got the message, and those ahead have not.               *)
Passed(it) == it.all \ Range(it.rest)

SendOK(w) ==
    sending[w] # <<>> =>
        LET it == sending[w][1]
        IN  /\ it.no <= sent /\ IsInjective(it.rest) /\ Range(it.rest) \subseteq it.all
            /\ it.ret <=> \A d \in Passed(it) : <<d, it.no>> \in PutSet
            /\ \A d \in Range(it.rest) : <<d, it.no>> \notin PutSet
            /\ \A r \in returned : r.no # it.no
            /\ \A v \in Writers : v # w /\ sending[v] # <<>> => sending[v][1].no # it.no

SendsOK ==
    /\ \A e \in PutSet : e[2] <= sent
    /\ \A r \in returned : /\ r.no <= sent
                           /\ r.ret <=> \A d \in r.all : <<d, r.no>> \in PutSet
    /\ \A w \in Writers : SendOK(w)

LEMMA SendsIdle ==
  ASSUME SendsOK, PutSet' = PutSet, UNCHANGED sends
  PROVE  SendsOK'
  BY DEF SendsOK, SendOK, sends, Passed

LEMMA InjectiveTail ==
  ASSUME NEW S, NEW s \in Seq(S), s # <<>>, IsInjective(s)
  PROVE  /\ IsInjective(Tail(s)) /\ Head(s) \notin Range(Tail(s))
         /\ Range(s) = Range(Tail(s)) \cup {Head(s)}
  <1>1. /\ Tail(s) \in Seq(S) /\ Head(s) = s[1] /\ Len(Tail(s)) = Len(s) - 1
        /\ \A i \in 1..Len(Tail(s)) : Tail(s)[i] = s[i + 1] /\ i + 1 \in 1..Len(s)
    OBVIOUS
  <1>2. \A i, j \in 1..Len(s) : s[i] = s[j] => i = j
    BY DEF IsInjective
  <1>3. IsInjective(Tail(s))
    <2>1. ASSUME NEW i \in 1..Len(Tail(s)), NEW j \in 1..Len(Tail(s)), Tail(s)[i] = Tail(s)[j]
          PROVE  i = j
      <3>1. i + 1 = j + 1
        BY <1>1, <1>2, <2>1
      <3> QED
        BY <3>1
    <2>2. DOMAIN Tail(s) = 1..Len(Tail(s))
      BY <1>1
    <2> QED
      BY <2>1, <2>2 DEF IsInjective
  <1>4. Head(s) \notin Range(Tail(s))
    <2>1. ASSUME NEW i \in 1..Len(Tail(s)) PROVE Tail(s)[i] # Head(s)
      <3>1. i + 1 # 1 /\ 1 \in 1..Len(s)
        BY <1>1
      <3> QED
        BY <1>1, <1>2, <3>1
    <2>2. Range(Tail(s)) = {Tail(s)[i] : i \in 1..Len(Tail(s))}
      BY <1>1, RangeEquality
    <2> QED
      BY <2>1, <2>2
  <1> QED
    BY <1>3, <1>4, RangeTail

LEMMA StepSends == TypeOK /\ SendsOK /\ [Next]_vars => SendsOK'
  <1> SUFFICES ASSUME TypeOK, SendsOK, [Next]_vars PROVE SendsOK'
    OBVIOUS
  <1> DEFINE Entries == Ports \X (1..MaxMsgs)
  <1>0. /\ queue \in [Segs -> Seq(Entries)] /\ sending \in [Writers -> Seq(Sends)]
        /\ sent \in Nat
    BY ChannelAssumption DEF TypeOK
  <1>1. ASSUME UNCHANGED <<queue, left>> PROVE PutSet' = PutSet
    BY <1>1 DEF PutSet
  <1>2. ASSUME NEW p \in Readers, ClaimOwnership(p) \/ CreateClear(p) PROVE SendsOK'
    <2> DEFINE s == reader[p].seg
    <2>1. s \in Segs /\ UNCHANGED sends
      BY <1>2, ChannelAssumption DEF ClaimOwnership, CreateClear, TypeOK, Segs
    <2>2. PutSet' = PutSet
      <3>1. CASE UNCHANGED <<queue, left>>
        BY <1>1, <3>1
      <3>2. CASE queue' = [queue EXCEPT ![s] = <<>>] /\ left' = left \cup Range(queue[s])
        <4>1. Range(<<>>) = {}
          BY DEF Range
        <4>2. \A t \in Segs : Range(queue'[t]) = IF t = s THEN {} ELSE Range(queue[t])
          BY <1>0, <2>1, <3>2, <4>1
        <4> QED
          BY <2>1, <3>2, <4>2 DEF PutSet
      <3> QED
        BY <1>2, <3>1, <3>2 DEF ClaimOwnership, CreateClear
    <2> QED
      BY <2>1, <2>2, SendsIdle
  <1>3. ASSUME NEW p \in Readers, Receive(p) PROVE SendsOK'
    <2> DEFINE s == reader[p].seg
    <2>1. s \in Segs /\ queue[s] \in Seq(Entries) /\ queue[s] # <<>>
      BY <1>0, <1>3, ChannelAssumption DEF Receive, TypeOK, Segs
    <2>2. queue' = [queue EXCEPT ![s] = Tail(queue[s])] /\ left' = left \cup {Head(queue[s])}
      BY <1>3 DEF Receive
    <2>3. Range(queue[s]) = Range(Tail(queue[s])) \cup {Head(queue[s])}
      BY <2>1, RangeTail
    <2>4. \A t \in Segs : Range(queue'[t]) = IF t = s THEN Range(Tail(queue[s])) ELSE Range(queue[t])
      BY <1>0, <2>1, <2>2
    <2>5. PutSet' = PutSet
      BY <2>1, <2>2, <2>3, <2>4 DEF PutSet
    <2> QED
      BY <1>3, <2>5, SendsIdle DEF Receive
  <1>4. ASSUME NEW p \in Readers,
               ChannelCreate(p) \/ CreateFails(p) \/ CreatePublish(p) \/ CreateDisown(p)
                 \/ ChannelOpen(p) \/ ChannelStop(p) \/ ReaderCrash(p)
        PROVE  SendsOK'
    BY <1>1, <1>4, SendsIdle DEF ChannelCreate, CreateFails, CreatePublish, CreateDisown,
       ChannelOpen, ChannelStop, ReaderCrash
  <1>a. \A w \in Writers : sending[w] # <<>> => sending[w][1] \in Sends
    BY <1>0
  <1>b. \A w \in Writers : sending[w] # <<>> =>
           /\ sending[w][1].rest \in Seq(Ports) /\ sending[w][1].no \in Nat
           /\ sending[w][1].all \in SUBSET Ports /\ sending[w][1].ret \in BOOLEAN
    BY <1>a DEF Sends
  <1>c. \A e \in PutSet : e[2] \in Nat
    <2>1. \A s \in Segs : Range(queue[s]) \subseteq Entries
      BY <1>0, RangeOfSeq
    <2>2. PutSet \subseteq Entries
      BY <2>1 DEF PutSet, TypeOK
    <2> QED
      BY <2>2
  <1>d. \A r \in returned : r.no \in Nat
    BY DEF TypeOK
  <1>5. ASSUME NEW w \in Writers, NEW ds \in Selected, SendBegin(w, ds) PROVE SendsOK'
    <2> DEFINE it == [no |-> sent', all |-> Range(ds), rest |-> ds, ret |-> TRUE, late |-> FALSE]
    <2>1. /\ sending' = [sending EXCEPT ![w] = <<it>>] /\ sending[w] = <<>> /\ sent' = sent + 1
          /\ returned' = returned /\ PutSet' = PutSet
      BY <1>1, <1>5 DEF SendBegin
    <2>2. IsInjective(ds) /\ it.no = sent + 1 /\ it.rest = ds /\ it.all = Range(ds) /\ it.ret = TRUE
      BY <2>1, ChannelAssumption
    <2>3. sending'[w] = <<it>> /\ sending'[w][1] = it
      BY <1>0, <2>1
    <2> HIDE DEF it
    <2>4. \A d : <<d, it.no>> \notin PutSet
      <3>1. ASSUME NEW d, <<d, it.no>> \in PutSet PROVE FALSE
        <4>1. <<d, it.no>>[2] <= sent
          BY <3>1 DEF SendsOK
        <4> QED
          BY <1>0, <2>2, <4>1
      <3> QED
        BY <3>1
    <2>5. \A r \in returned : r.no # it.no
      BY <1>0, <1>d, <2>2 DEF SendsOK
    <2>6. \A v \in Writers : v # w => sending'[v] = sending[v]
      BY <1>0, <2>1
    <2>7. \A v \in Writers : sending[v] # <<>> => sending[v][1].no # it.no
      BY <1>0, <1>b, <2>2 DEF SendsOK, SendOK
    <2>8. \A e \in PutSet : e[2] <= sent'
      BY <1>0, <1>c, <2>1 DEF SendsOK
    <2>9. \A r \in returned : r.no <= sent'
      BY <1>0, <1>d, <2>1 DEF SendsOK
    <2>10. \A v \in Writers : sending[v] # <<>> => sending[v][1].no <= sent'
      BY <1>0, <1>b, <2>1 DEF SendsOK, SendOK
    <2>11. it.no <= sent' /\ Passed(it) = {}
      BY <1>0, <2>1, <2>2 DEF Passed
    <2>12. ASSUME NEW v \in Writers PROVE SendOK(v)'
      <3>1. CASE v = w
        BY <2>1, <2>2, <2>3, <2>4, <2>5, <2>6, <2>7, <2>11, <3>1 DEF SendOK, Passed
      <3>2. CASE v # w
        BY <2>1, <2>2, <2>3, <2>6, <2>7, <2>10, <3>2 DEF SendsOK, SendOK, Passed
      <3> QED
        BY <3>1, <3>2
    <2> QED
      BY <2>1, <2>8, <2>9, <2>12 DEF SendsOK
  <1>6. ASSUME NEW w \in Writers, DeadlinePasses(w) PROVE SendsOK'
    <2> DEFINE it == sending[w][1]
               jt == [it EXCEPT !.late = TRUE]
    <2>1. /\ sending' = [sending EXCEPT ![w] = <<jt>>] /\ sending[w] # <<>>
          /\ sent' = sent /\ returned' = returned /\ PutSet' = PutSet
      BY <1>1, <1>6 DEF DeadlinePasses
    <2>2. it \in Sends
      BY <1>a, <2>1
    <2>3. jt.no = it.no /\ jt.all = it.all /\ jt.rest = it.rest /\ jt.ret = it.ret
      BY <2>2 DEF Sends
    <2>4. sending'[w] = <<jt>> /\ sending'[w][1] = jt
      BY <1>0, <2>1
    <2> HIDE DEF jt
    <2>5. \A v \in Writers : v # w => sending'[v] = sending[v]
      BY <1>0, <2>1
    <2>6. ASSUME NEW v \in Writers PROVE SendOK(v)'
      <3>1. CASE v = w
        BY <2>1, <2>3, <2>4, <2>5, <3>1 DEF SendsOK, SendOK, Passed
      <3>2. CASE v # w
        BY <2>1, <2>3, <2>4, <2>5, <3>2 DEF SendsOK, SendOK, Passed
      <3> QED
        BY <3>1, <3>2
    <2> QED
      BY <2>1, <2>6 DEF SendsOK
  <1>7. ASSUME NEW w \in Writers, SendNext(w) PROVE SendsOK'
    <2> DEFINE it == sending[w][1]
               d == Head(it.rest)
               s == Bucket(w, d)
    <2>1. /\ sending[w] # <<>> /\ it.rest # <<>> /\ it.rest \in Seq(Ports) /\ it \in Sends
          /\ SendOK(w) /\ sent' = sent /\ returned' = returned /\ left' = left
      BY <1>7, <1>a, <1>b DEF SendNext, SendsOK
    <2>2. PICK done \in BOOLEAN :
             /\ sending' = [sending EXCEPT ![w] =
                   <<[it EXCEPT !.rest = Tail(@), !.ret = Result(@, done)]>>]
             /\ \/ done = FALSE /\ UNCHANGED queue
                \/ /\ done = TRUE /\ s # NoSeg
                   /\ queue' = [queue EXCEPT ![s] = Append(queue[s], <<d, it.no>>)]
      BY <1>7 DEF SendNext
    <2> DEFINE jt == [it EXCEPT !.rest = Tail(@), !.ret = Result(@, done)]
    <2>3. /\ jt.no = it.no /\ jt.all = it.all /\ jt.rest = Tail(it.rest)
          /\ jt.ret = (it.ret /\ done)
      BY <2>1 DEF Sends, Result
    <2>4. sending'[w] = <<jt>> /\ sending'[w][1] = jt
      BY <1>0, <2>2
    <2>5. \A v \in Writers : v # w => sending'[v] = sending[v]
      BY <1>0, <2>2
    <2>6. /\ IsInjective(Tail(it.rest)) /\ d \notin Range(Tail(it.rest))
          /\ Range(it.rest) = Range(Tail(it.rest)) \cup {d}
      BY <2>1, InjectiveTail DEF SendOK
    <2>7. PutSet' = IF done THEN PutSet \cup {<<d, it.no>>} ELSE PutSet
      <3>1. CASE done = FALSE
        BY <1>1, <2>1, <2>2, <3>1
      <3>2. CASE done = TRUE
        <4>1. d \in Ports /\ it.no \in 1..MaxMsgs
          BY <2>1 DEF Sends
        <4>2. s \in Segs
          <5>1. cache[w][d] \in 0..segs /\ named[d] \in 0..segs /\ segs \in 0..MaxSegs
            BY <4>1 DEF TypeOK
          <5>2. s \in 0..segs /\ s # NoSeg
            BY <2>2, <3>2, <5>1 DEF Bucket
          <5> QED
            BY <5>1, <5>2, ChannelAssumption DEF Segs, NoSeg
        <4> DEFINE e == <<d, it.no>>
        <4>3. e \in Entries /\ queue[s] \in Seq(Entries)
          BY <1>0, <4>1, <4>2
        <4>4. queue' = [queue EXCEPT ![s] = Append(queue[s], e)]
          BY <2>2, <3>2
        <4> HIDE DEF e, s
        <4>5. Range(Append(queue[s], e)) = Range(queue[s]) \cup {e}
          BY ONLY <4>3, RangeAppend
        <4>6. \A t \in Segs : Range(queue'[t]) = IF t = s THEN Range(queue[s]) \cup {e}
                                                 ELSE Range(queue[t])
          BY <1>0, <4>2, <4>4, <4>5
        <4>7. PutSet' = PutSet \cup {e}
          BY <2>1, <4>2, <4>6 DEF PutSet
        <4> QED
          BY <3>2, <4>7 DEF e
      <3> QED
        BY <3>1, <3>2
    <2> HIDE DEF jt, s
    <2>8. jt.ret \in BOOLEAN /\ it.ret \in BOOLEAN /\ d \in it.all /\ d \in Range(it.rest)
      BY <2>1, <2>3, <2>6, <1>b DEF SendOK
    <2>9. Passed(jt) = Passed(it) \cup {d}
      BY <2>3, <2>6, <2>8 DEF Passed
    <2>10. /\ it.ret <=> \A c \in Passed(it) : <<c, it.no>> \in PutSet
           /\ \A c \in Range(it.rest) : <<c, it.no>> \notin PutSet
           /\ it.no <= sent /\ Range(it.rest) \subseteq it.all
           /\ \A r \in returned : r.no # it.no
           /\ \A v \in Writers : v # w /\ sending[v] # <<>> => sending[v][1].no # it.no
      BY <2>1 DEF SendOK
    <2> HIDE DEF d, it
    <2>11. ASSUME NEW c, NEW no, c # d \/ no # it.no
           PROVE  <<c, no>> \in PutSet' <=> <<c, no>> \in PutSet
      BY <2>7, <2>11
    <2>12. d \notin Passed(it)
      BY <2>8 DEF Passed
    <2>13. SendOK(w)'
      <3>1. jt.ret <=> \A c \in Passed(jt) : <<c, jt.no>> \in PutSet'
        <4>1. \A c \in Passed(it) : <<c, it.no>> \in PutSet' <=> <<c, it.no>> \in PutSet
          BY <2>11, <2>12
        <4>2. <<d, it.no>> \in PutSet' <=> done
          BY <2>7, <2>8, <2>10
        <4> QED
          BY <2>3, <2>9, <2>10, <4>1, <4>2
      <3>2. \A c \in Range(jt.rest) : <<c, jt.no>> \notin PutSet'
        BY <2>3, <2>6, <2>10, <2>11
      <3>3. /\ jt.no <= sent' /\ IsInjective(jt.rest) /\ Range(jt.rest) \subseteq jt.all
            /\ \A r \in returned' : r.no # jt.no
            /\ \A v \in Writers : v # w /\ sending'[v] # <<>> => sending'[v][1].no # jt.no
        BY <2>1, <2>3, <2>5, <2>6, <2>10
      <3> QED
        BY <2>4, <3>1, <3>2, <3>3 DEF SendOK, Passed
    <2>14. ASSUME NEW v \in Writers, v # w PROVE SendOK(v)'
      <3>1. CASE sending[v] = <<>>
        BY <2>5, <2>14, <3>1 DEF SendOK
      <3>2. CASE sending[v] # <<>>
        <4> DEFINE kt == sending[v][1]
        <4>1. kt.no # it.no /\ sending'[v] = sending[v]
          BY <2>5, <2>10, <2>14, <3>2
        <4>2. \A c : <<c, kt.no>> \in PutSet' <=> <<c, kt.no>> \in PutSet
          BY <2>11, <4>1
        <4>3. SendOK(v)
          BY DEF SendsOK
        <4>4. \A u \in Writers : u # v /\ sending'[u] # <<>> => sending'[u][1].no # kt.no
          <5>1. ASSUME NEW u \in Writers, u # v, sending'[u] # <<>>
                PROVE  sending'[u][1].no # kt.no
            <6>1. CASE u = w
              BY <2>3, <2>4, <4>1, <6>1
            <6>2. CASE u # w
              BY <2>5, <3>2, <4>3, <5>1, <6>2 DEF SendOK
            <6> QED
              BY <6>1, <6>2
          <5> QED
            BY <5>1
        <4> QED
          BY <2>1, <3>2, <4>1, <4>2, <4>3, <4>4 DEF SendOK, Passed
      <3> QED
        BY <3>1, <3>2
    <2>15. \A e \in PutSet' : e[2] <= sent'
      BY <2>1, <2>7, <2>10 DEF SendsOK
    <2>16. \A r \in returned' : r.no <= sent' /\ (r.ret <=> \A c \in r.all : <<c, r.no>> \in PutSet')
      <3>1. ASSUME NEW r \in returned
            PROVE  r.no <= sent /\ (r.ret <=> \A c \in r.all : <<c, r.no>> \in PutSet')
        <4>1. r.no # it.no
          BY <2>10
        <4>2. \A c : <<c, r.no>> \in PutSet' <=> <<c, r.no>> \in PutSet
          BY <2>11, <4>1
        <4> QED
          BY <4>2 DEF SendsOK
      <3> QED
        BY <2>1, <3>1
    <2> QED
      BY <2>13, <2>14, <2>15, <2>16 DEF SendsOK
  <1>8. ASSUME NEW w \in Writers, SendReturns(w) PROVE SendsOK'
    <2> DEFINE it == sending[w][1]
               r0 == [no |-> it.no, all |-> it.all, ret |-> it.ret]
    <2>1. /\ sending' = [sending EXCEPT ![w] = <<>>] /\ returned' = returned \cup {r0}
          /\ sending[w] # <<>> /\ it.rest = <<>> /\ sent' = sent /\ PutSet' = PutSet
          /\ SendOK(w)
      BY <1>1, <1>8 DEF SendReturns, SendsOK
    <2>2. Range(it.rest) = {}
      BY <2>1 DEF Range
    <2>3. Passed(it) = it.all
      BY <2>2 DEF Passed
    <2>4. it.no <= sent /\ (it.ret <=> \A d \in it.all : <<d, it.no>> \in PutSet)
      BY <2>1, <2>3 DEF SendOK
    <2>5. r0.no = it.no /\ r0.all = it.all /\ r0.ret = it.ret
      OBVIOUS
    <2> HIDE DEF r0
    <2>6. \A r \in returned' : r.no <= sent' /\ (r.ret <=> \A d \in r.all : <<d, r.no>> \in PutSet')
      BY <2>1, <2>4, <2>5 DEF SendsOK
    <2>7. sending'[w] = <<>> /\ \A v \in Writers : v # w => sending'[v] = sending[v]
      BY <1>0, <2>1
    <2>8. ASSUME NEW v \in Writers PROVE SendOK(v)'
      <3>1. CASE v = w
        BY <2>7, <3>1 DEF SendOK
      <3>2. CASE v # w
        <4>1. sending[v] # <<>> => sending[v][1].no # r0.no
          BY <2>1, <2>5, <3>2 DEF SendOK
        <4>2. SendOK(v)
          BY DEF SendsOK
        <4> QED
          BY <2>1, <2>7, <3>2, <4>1, <4>2 DEF SendOK, Passed
      <3> QED
        BY <3>1, <3>2
    <2>9. \A e \in PutSet' : e[2] <= sent'
      BY <2>1 DEF SendsOK
    <2> QED
      BY <2>6, <2>8, <2>9 DEF SendsOK
  <1>9. ASSUME NEW w \in Writers, WriterRestart(w) PROVE SendsOK'
    <2>1. /\ sending' = [sending EXCEPT ![w] = <<>>]
          /\ sent' = sent /\ returned' = returned /\ PutSet' = PutSet
      BY <1>1, <1>9 DEF WriterRestart
    <2>2. ASSUME NEW v \in Writers PROVE SendOK(v)'
      BY <1>0, <2>1 DEF SendsOK, SendOK, Passed
    <2> QED
      BY <2>1, <2>2 DEF SendsOK
  <1>10. CASE UNCHANGED vars
    BY <1>1, <1>10, SendsIdle DEF vars, sends
  <1>11. ASSUME NEW w \in Writers, NEW d \in Ports, Reachable(w, d) PROVE SendsOK'
    BY <1>1, <1>11, SendsIdle DEF Reachable, readers
  <1> QED
    BY <1>2, <1>3, <1>4, <1>5, <1>6, <1>7, <1>8, <1>9, <1>10, <1>11
       DEF Next, CreateStep, ReaderStep

(* What a send over several destinations tells its caller is the truth,     *)
(* whichever of them has no bucket yet, is full until the deadline, or has  *)
(* its bucket reset meanwhile by a new reader or by its creator: true says  *)
(* that a segment accepted the message, not that it was received (SendNext, *)
(* ClaimOwnership, CreateClear).                                            *)
THEOREM SendsTellTruth == Spec => []SendTruth
  <1>1. Init => SendsOK
    <2> SUFFICES ASSUME Init PROVE SendsOK
      OBVIOUS
    <2>1. \A s \in Segs : Range(queue[s]) = {}
      BY DEF Init, Range
    <2>2. PutSet = {} /\ returned = {} /\ \A w \in Writers : sending[w] = <<>>
      BY <2>1 DEF Init, PutSet
    <2> QED
      BY <2>2 DEF SendsOK, SendOK
  <1>2. SendsOK => SendTruth
    BY PutIsIn DEF SendsOK, SendTruth
  <1> QED
    BY <1>1, <1>2, InitType, StepType, StepSends, PTL DEF Spec
=============================================================================
