-------------------------- MODULE ThreadRunProofs --------------------------
(***************************************************************************)
(* Theorems about a business thread for every set of senders, every number *)
(* of messages and every set of statuses.                                  *)
(***************************************************************************)
EXTENDS ThreadRun, SequenceTheorems, WellFoundedInduction, TLAPS

-----------------------------------------------------------------------------
(* Types, and what the thread's place says of the message in hand and the   *)
(* mutex.                                                                   *)
PlaceInv ==
    /\ pc = "handle" <=> current # <<>>
    /\ locked <=> pc = "block"
    /\ pc = "block" => queue = <<>>

TInv == TypeOK /\ PlaceInv

(* The thread starts with an empty mailbox and nothing in hand.             *)
LEMMA InitType == Init => TInv
  <1> SUFFICES ASSUME Init PROVE TInv
    OBVIOUS
  <1>1. TypeOK
    <2>1. <<>> \in Seq(Messages) /\ <<>> \in Seq(Calls)
      OBVIOUS
    <2>2. queue \in Seq(Messages) /\ sent \in Seq(Messages) /\ entered \in Seq(Calls)
      BY <2>1 DEF Init
    <2>3. current \in {<<>>} \cup {<<m>> : m \in Messages}
      BY DEF Init
    <2> QED
      BY <2>2, <2>3, ThreadAssumption DEF Init, TypeOK, Places
  <1>2. PlaceInv
    BY DEF Init, PlaceInv
  <1> QED
    BY <1>1, <1>2 DEF TInv

(* Every step of senders, stopper, clock and thread keeps the types and     *)
(* what the thread's place says; one case per action.                       *)
LEMMA StepType == TInv /\ [Next]_vars => TInv'
  <1> SUFFICES ASSUME TInv, [Next]_vars PROVE TInv'
    OBVIOUS
  <1> USE DEF TInv, PlaceInv, threadVars, Places
  <1>1. ASSUME NEW s \in Senders, NEW m \in Messages, Push(s, m) PROVE TInv'
    BY <1>1 DEF Push, TypeOK
  <1>2. ASSUME NEW s \in Senders, NotifyOne(s) PROVE TInv'
    BY <1>2 DEF NotifyOne, Notified, TypeOK
  <1>3. CASE StopStore
    BY <1>3 DEF StopStore, TypeOK
  <1>4. CASE StopNotify
    BY <1>4 DEF StopNotify, Notified, TypeOK
  <1>5. CASE ClockReachesTick
    BY <1>5 DEF ClockReachesTick, TypeOK
  <1>6. CASE LoopTop
    BY <1>6 DEF LoopTop, TypeOK
  <1>7. CASE Tick
    BY <1>7 DEF Tick, TypeOK
  <1>8. CASE CatchUp
    BY <1>8 DEF CatchUp, TypeOK
  <1>9. CASE Evaluate
    <2>1. CASE queue # <<>>
      <3>1. Head(queue) \in Messages /\ Tail(queue) \in Seq(Messages)
        BY <2>1 DEF TypeOK
      <3>2. /\ current' = <<Head(queue)>> /\ queue' = Tail(queue)
            /\ pc' = "handle" /\ locked' = locked
        BY <1>9, <2>1 DEF Evaluate
      <3>3. current' \in {<<m>> : m \in Messages} /\ current' # <<>>
        BY <3>1, <3>2
      <3> QED
        BY <1>9, <3>1, <3>2, <3>3 DEF Evaluate, TypeOK
    <2>2. CASE queue = <<>>
      <3>1. /\ pc = "eval" /\ queue' = queue /\ current' = current
            /\ \/ pc' = "top" /\ locked' = locked
               \/ pc' = "block" /\ locked' = TRUE
        BY <1>9, <2>2 DEF Evaluate
      <3>2. UNCHANGED <<stop, stopper, status, due, sender, sent, entered, lateBy>>
        BY <1>9 DEF Evaluate
      <3>3. TypeOK'
        BY <3>1, <3>2 DEF TypeOK
      <3>4. PlaceInv'
        BY <2>2, <3>1
      <3> QED
        BY <3>3, <3>4
    <2> QED
      BY <2>1, <2>2
  <1>10. CASE Block
    BY <1>10 DEF Block, TypeOK
  <1>11. CASE Timeout
    BY <1>11 DEF Timeout, TypeOK
  <1>12. CASE Handle
    <2>1. PICK m \in Messages : current = <<m>>
      BY <1>12 DEF Handle, TypeOK
    <2> DEFINE now == IF m.kind = "status" THEN m.value ELSE status
    <2>2. m.kind = "status" => m.value \in Statuses
      BY DEF Messages
    <2>3. now \in Statuses
      BY <2>2 DEF TypeOK
    <2>4. /\ status' = now /\ entered' = Append(entered, [msg |-> m, status |-> now])
      BY <1>12, <2>1 DEF Handle
    <2>5. [msg |-> m, status |-> now] \in Calls
      BY <2>3 DEF Calls
    <2> HIDE DEF now
    <2>6. entered' \in Seq(Calls)
      BY <2>4, <2>5 DEF TypeOK
    <2> QED
      BY <1>12, <2>3, <2>4, <2>6 DEF Handle, TypeOK
  <1>13. CASE UNCHANGED vars
    BY <1>13 DEF vars, TypeOK
  <1> QED
    BY <1>1, <1>2, <1>3, <1>4, <1>5, <1>6, <1>7, <1>8, <1>9, <1>10, <1>11, <1>12,
       <1>13 DEF Next, ThreadStep

(* Every variable of the thread and its mailbox keeps its type.             *)
THEOREM TypeCorrect == Spec => []TypeOK
  <1>1. TInv => TypeOK
    BY DEF TInv
  <1> QED
    BY <1>1, InitType, StepType, PTL DEF Spec

-----------------------------------------------------------------------------
(* Punctual ticks.                                                          *)

(* A message is only counted against a tick that is due, and once one has   *)
(* been, the thread is on its way to the tick and takes no second message.  *)
LateInv ==
    /\ lateBy > 0 => due
    /\ pc \notin {"top", "tick", "catchup", "exit"} => lateBy = 0
    /\ lateBy <= 1

(* Because the deadline is absolute, no load delays the tick by more than   *)
(* the message in hand when it falls due.                                   *)
THEOREM TickIsPunctual == Spec => []TickPunctual
  <1>1. Init => LateInv
    BY DEF Init, LateInv
  <1>2. TInv /\ LateInv /\ [Next]_vars => LateInv'
    <2> SUFFICES ASSUME TInv, LateInv, [Next]_vars PROVE LateInv'
      OBVIOUS
    <2>t. pc \in Places /\ lateBy \in Nat /\ due \in BOOLEAN
      BY DEF TInv, TypeOK
    <2> USE <2>t DEF LateInv, threadVars, Places
    <2>1. ASSUME NEW s \in Senders, NEW m \in Messages, Push(s, m) PROVE LateInv'
      BY <2>1 DEF Push
    <2>2. ASSUME NEW s \in Senders, NotifyOne(s) PROVE LateInv'
      BY <2>2 DEF NotifyOne, Notified
    <2>3. CASE StopStore
      BY <2>3 DEF StopStore
    <2>4. CASE StopNotify
      BY <2>4 DEF StopNotify, Notified
    <2>5. CASE ClockReachesTick
      BY <2>5 DEF ClockReachesTick
    <2>6. CASE LoopTop
      BY <2>6 DEF LoopTop
    <2>7. CASE Tick
      BY <2>7 DEF Tick
    <2>8. CASE CatchUp
      BY <2>8 DEF CatchUp
    <2>9. CASE Evaluate
      BY <2>9 DEF Evaluate
    <2>10. CASE Block
      BY <2>10 DEF Block
    <2>11. CASE Timeout
      BY <2>11 DEF Timeout
    <2>12. CASE Handle
      BY <2>12 DEF Handle
    <2>13. CASE UNCHANGED vars
      BY <2>13 DEF vars
    <2> QED
      BY <2>1, <2>2, <2>3, <2>4, <2>5, <2>6, <2>7, <2>8, <2>9, <2>10, <2>11, <2>12,
         <2>13 DEF Next, ThreadStep
  <1>3. LateInv => TickPunctual
    BY DEF LateInv, TickPunctual
  <1> QED
    BY <1>1, <1>2, <1>3, InitType, StepType, PTL DEF Spec

-----------------------------------------------------------------------------
(* No missed message.                                                       *)

(* The mutex is held from the test of the mailbox to the wait, so a message *)
(* in the mailbox of a waiting thread was pushed after the wait began, and  *)
(* its notification is still to come.                                       *)
THEOREM NoMessageMissed == Spec => []NoMissedMessage
  <1>1. Init => NoMissedMessage
    BY DEF Init, NoMissedMessage
  <1>2. TInv /\ NoMissedMessage /\ [Next]_vars => NoMissedMessage'
    <2> SUFFICES ASSUME TInv, NoMissedMessage, [Next]_vars,
                        pc' = "blocked", queue' # <<>>
                 PROVE  \E s \in Senders : sender'[s] = "notify"
      BY DEF NoMissedMessage
    <2>t. sender \in [Senders -> {"idle", "notify"}] /\ PlaceInv
      BY DEF TInv, TypeOK
    <2>k. pc = "blocked" /\ queue # <<>> => \E s \in Senders : sender[s] = "notify"
      BY DEF NoMissedMessage
    <2>1. ASSUME NEW s \in Senders, NEW m \in Messages, Push(s, m)
          PROVE  sender'[s] = "notify"
      BY <2>t, <2>1 DEF Push
    <2>2. ASSUME NEW s \in Senders, NotifyOne(s) PROVE FALSE
      BY <2>2 DEF NotifyOne, Notified
    <2>3. CASE StopStore
      BY <2>k, <2>3 DEF StopStore, threadVars
    <2>4. CASE StopNotify
      BY <2>4 DEF StopNotify, Notified
    <2>5. CASE ClockReachesTick
      BY <2>k, <2>5 DEF ClockReachesTick, threadVars
    <2>6. CASE LoopTop \/ Tick \/ CatchUp \/ Timeout \/ Handle \/ Evaluate
      BY <2>6 DEF LoopTop, Tick, CatchUp, Timeout, Handle, Evaluate
    <2>7. CASE Block
      BY <2>t, <2>7 DEF Block, PlaceInv
    <2>8. CASE UNCHANGED vars
      BY <2>k, <2>8 DEF vars
    <2> QED
      BY <2>1, <2>2, <2>3, <2>4, <2>5, <2>6, <2>7, <2>8 DEF Next, ThreadStep
  <1> QED
    BY <1>1, <1>2, InitType, StepType, PTL DEF Spec

-----------------------------------------------------------------------------
(* Order of messages and statuses.                                          *)

(* The i-th message sent is the i-th handled, the one in hand, or waits at  *)
(* its place in the mailbox.                                                *)
OrderInv ==
    /\ Len(sent) = Len(entered) + Len(current) + Len(queue)
    /\ \A i \in 1..Len(entered) : entered[i].msg = sent[i]
    /\ \A i \in 1..Len(current) : current[i] = sent[Len(entered) + i]
    /\ \A i \in 1..Len(queue) : queue[i] = sent[Len(entered) + Len(current) + i]

(* The message in hand is none or one.                                      *)
LEMMA InHand ==
    ASSUME TInv
    PROVE  /\ current \in Seq(Messages)
           /\ pc = "handle" => Len(current) = 1 /\ current[1] \in Messages
           /\ pc # "handle" => Len(current) = 0
  <1>1. CASE pc = "handle"
    <2>1. PICK m \in Messages : current = <<m>>
      BY <1>1 DEF TInv, TypeOK, PlaceInv
    <2> QED
      BY <1>1, <2>1
  <1>2. CASE pc # "handle"
    <2>1. current = <<>>
      BY <1>2 DEF TInv, PlaceInv
    <2> QED
      BY <1>2, <2>1
  <1> QED
    BY <1>1, <1>2

(* Send, the pop and the handling of a message keep the order; no other     *)
(* step touches the messages.                                               *)
LEMMA StepOrder == TInv /\ OrderInv /\ [Next]_vars => OrderInv'
  <1> SUFFICES ASSUME TInv, OrderInv, [Next]_vars PROVE OrderInv'
    OBVIOUS
  <1>t. /\ queue \in Seq(Messages) /\ sent \in Seq(Messages)
        /\ entered \in Seq(Calls) /\ current \in Seq(Messages)
    BY InHand DEF TInv, TypeOK
  <1>1. ASSUME NEW s \in Senders, NEW m \in Messages, Push(s, m) PROVE OrderInv'
    <2>1. /\ queue' = Append(queue, m) /\ sent' = Append(sent, m)
          /\ entered' = entered /\ current' = current
      BY <1>1 DEF Push, threadVars
    <2>2. /\ Len(queue') = Len(queue) + 1 /\ Len(sent') = Len(sent) + 1
          /\ \A i \in 1..Len(queue) : queue'[i] = queue[i]
          /\ queue'[Len(queue) + 1] = m
          /\ \A i \in 1..Len(sent) : sent'[i] = sent[i]
          /\ sent'[Len(sent) + 1] = m
      BY <2>1, <1>t
    <2>3. Len(queue) \in Nat /\ Len(sent) \in Nat /\ Len(entered) \in Nat /\ Len(current) \in Nat
      BY <1>t
    <2>4. Len(sent') = Len(entered') + Len(current') + Len(queue')
      BY <2>1, <2>2, <2>3 DEF OrderInv
    <2>5. \A i \in 1..Len(entered') : entered'[i].msg = sent'[i]
      BY <2>1, <2>2, <2>3 DEF OrderInv
    <2>l. Len(sent) = Len(entered) + Len(current) + Len(queue)
      BY DEF OrderInv
    <2>6. \A i \in 1..Len(current') : current'[i] = sent'[Len(entered') + i]
      <3> SUFFICES ASSUME NEW i \in 1..Len(current)
                   PROVE  current[i] = sent'[Len(entered) + i]
        BY <2>1
      <3>1. current[i] = sent[Len(entered) + i]
        BY DEF OrderInv
      <3>2. Len(entered) + i \in 1..Len(sent)
        BY <2>3, <2>l
      <3> QED
        BY <2>2, <3>1, <3>2
    <2>7. ASSUME NEW i \in 1..Len(queue')
          PROVE  queue'[i] = sent'[Len(entered') + Len(current') + i]
      <3>1. CASE i \in 1..Len(queue)
        <4>1. queue[i] = sent[Len(entered) + Len(current) + i]
          BY <3>1 DEF OrderInv
        <4>2. Len(entered) + Len(current) + i \in 1..Len(sent)
          BY <2>3, <2>l, <3>1
        <4> QED
          BY <2>1, <2>2, <3>1, <4>1, <4>2
      <3>2. CASE i = Len(queue) + 1
        BY <2>1, <2>2, <2>3, <2>l, <3>2
      <3> QED
        BY <2>2, <2>3, <3>1, <3>2
    <2> QED
      BY <2>4, <2>5, <2>6, <2>7 DEF OrderInv
  <1>2. CASE Evaluate /\ queue # <<>>
    <2>1. /\ current' = <<Head(queue)>> /\ queue' = Tail(queue)
          /\ entered' = entered /\ sent' = sent /\ Len(current) = 0
      BY <1>2, InHand DEF Evaluate
    <2>2. /\ Len(queue) > 0 /\ Len(queue') = Len(queue) - 1
          /\ \A i \in 1..Len(queue') : queue'[i] = queue[i + 1]
          /\ Len(current') = 1 /\ current'[1] = queue[1]
      BY <1>2, <2>1, <1>t
    <2>3. Len(queue) \in Nat /\ Len(sent) \in Nat /\ Len(entered) \in Nat /\ Len(current) \in Nat
      BY <1>t
    <2>4. Len(sent') = Len(entered') + Len(current') + Len(queue')
      <3>1. Len(sent) = Len(entered) + 0 + Len(queue)
        BY <2>1 DEF OrderInv
      <3>2. Len(sent') = Len(sent) /\ Len(entered') = Len(entered)
        BY <2>1
      <3>3. Len(current') = 1 /\ Len(queue') = Len(queue) - 1
        BY <2>2
      <3> QED
        BY <2>3, <3>1, <3>2, <3>3
    <2>5. \A i \in 1..Len(entered') : entered'[i].msg = sent'[i]
      BY <2>1 DEF OrderInv
    <2>6. \A i \in 1..Len(current') : current'[i] = sent'[Len(entered') + i]
      BY <2>1, <2>2, <2>3 DEF OrderInv
    <2>7. \A i \in 1..Len(queue') : queue'[i] = sent'[Len(entered') + Len(current') + i]
      <3> SUFFICES ASSUME NEW i \in 1..Len(queue')
                   PROVE  queue'[i] = sent[Len(entered) + 1 + i]
        BY <2>1, <2>2
      <3>1. queue'[i] = queue[i + 1] /\ i + 1 \in 1..Len(queue) /\ i \in Nat
        BY <2>2, <2>3
      <3>2. queue[i + 1] = sent[Len(entered) + 0 + (i + 1)]
        BY <2>1, <3>1 DEF OrderInv
      <3>3. Len(entered) + 0 + (i + 1) = Len(entered) + 1 + i
        BY <2>3, <3>1
      <3> QED
        BY <3>1, <3>2, <3>3
    <2> QED
      BY <2>4, <2>5, <2>6, <2>7 DEF OrderInv
  <1>3. CASE Handle
    <2>1. PICK c : c.msg = current[1] /\ entered' = Append(entered, c) /\ c \in Calls
      <3> DEFINE now == IF current[1].kind = "status" THEN current[1].value ELSE status
                 c == [msg |-> current[1], status |-> now]
      <3>1. entered' = Append(entered, c) /\ pc = "handle"
        BY <1>3 DEF Handle
      <3>2. current[1] \in Messages
        BY <3>1, InHand
      <3>3. now \in Statuses
        BY <3>2 DEF Messages, TInv, TypeOK
      <3>4. c \in Calls /\ c.msg = current[1]
        BY <3>2, <3>3 DEF Calls
      <3> HIDE DEF c
      <3> QED
        BY <3>1, <3>4
    <2>2. /\ current' = <<>> /\ queue' = queue /\ sent' = sent /\ Len(current) = 1
      BY <1>3, InHand DEF Handle
    <2>3. /\ Len(entered') = Len(entered) + 1 /\ entered'[Len(entered) + 1] = c
          /\ \A i \in 1..Len(entered) : entered'[i] = entered[i]
      BY <2>1, <1>t
    <2>4. Len(queue) \in Nat /\ Len(sent) \in Nat /\ Len(entered) \in Nat /\ Len(current') = 0
      BY <1>t, <2>2
    <2>5. Len(sent') = Len(entered') + Len(current') + Len(queue')
      BY <2>2, <2>3, <2>4 DEF OrderInv
    <2>6. ASSUME NEW i \in 1..Len(entered') PROVE entered'[i].msg = sent'[i]
      <3>1. CASE i \in 1..Len(entered)
        BY <2>2, <2>3, <3>1 DEF OrderInv
      <3>2. CASE i = Len(entered) + 1
        BY <2>1, <2>2, <2>3, <2>4, <3>2 DEF OrderInv
      <3> QED
        BY <2>3, <2>4, <3>1, <3>2
    <2>7. \A i \in 1..Len(current') : current'[i] = sent'[Len(entered') + i]
      BY <2>4
    <2>8. \A i \in 1..Len(queue') : queue'[i] = sent'[Len(entered') + Len(current') + i]
      <3> SUFFICES ASSUME NEW i \in 1..Len(queue)
                   PROVE  queue[i] = sent[Len(entered) + 1 + 0 + i]
        BY <2>2, <2>3, <2>4
      <3>1. queue[i] = sent[Len(entered) + 1 + i]
        BY <2>2 DEF OrderInv
      <3> QED
        BY <2>4, <3>1
    <2> QED
      BY <2>5, <2>6, <2>7, <2>8 DEF OrderInv
  <1>4. CASE UNCHANGED <<queue, sent, entered, current>>
    BY <1>4 DEF OrderInv
  <1>5. ASSUME NEW s \in Senders, NotifyOne(s) PROVE UNCHANGED <<queue, sent, entered, current>>
    BY <1>5 DEF NotifyOne
  <1>6. StopStore \/ StopNotify \/ ClockReachesTick \/ LoopTop \/ Tick \/ CatchUp
        \/ Block \/ Timeout \/ (Evaluate /\ queue = <<>>) \/ UNCHANGED vars
        => UNCHANGED <<queue, sent, entered, current>>
    BY DEF StopStore, StopNotify, ClockReachesTick, LoopTop, Tick, CatchUp, Block,
           Timeout, Evaluate, vars, threadVars
  <1> QED
    BY <1>1, <1>2, <1>3, <1>4, <1>5, <1>6 DEF Next, ThreadStep

(* The order holds at the start.                                            *)
LEMMA InitOrder == Init => OrderInv
  BY DEF Init, OrderInv

(* The mailbox and the thread lose, duplicate and reorder nothing, for any  *)
(* number of senders.                                                       *)
THEOREM MailboxKeepsOrder == Spec => []NothingLost
  <1>1. TInv /\ OrderInv => NothingLost
    <2> SUFFICES ASSUME TInv, OrderInv PROVE Handled \o current \o queue = sent
      BY DEF NothingLost
    <2>1. /\ queue \in Seq(Messages) /\ sent \in Seq(Messages)
          /\ entered \in Seq(Calls) /\ current \in Seq(Messages)
      BY InHand DEF TInv, TypeOK
    <2>2. Handled \in Seq(Messages) /\ Len(Handled) = Len(entered)
          /\ \A i \in 1..Len(entered) : Handled[i] = entered[i].msg
      <3>1. \A i \in 1..Len(entered) : entered[i].msg \in Messages
        <4> SUFFICES ASSUME NEW i \in 1..Len(entered) PROVE entered[i].msg \in Messages
          OBVIOUS
        <4>1. entered[i] \in Calls
          BY <2>1, ElementOfSeq
        <4> QED
          BY <4>1 DEF Calls
      <3> QED
        BY <2>1, <3>1 DEF Handled
    <2> DEFINE h == Handled
               x == h \o current
               y == x \o queue
    <2>h. h \in Seq(Messages)
      BY <2>2
    <2> HIDE DEF h
    <2>3. /\ x \in Seq(Messages) /\ Len(x) = Len(h) + Len(current)
          /\ \A i \in 1..(Len(h) + Len(current)) :
                x[i] = IF i <= Len(h) THEN h[i] ELSE current[i - Len(h)]
      BY <2>1, <2>h, ConcatProperties, Zenon
    <2>x. x \in Seq(Messages)
      BY <2>3
    <2>q. queue \in Seq(Messages)
      BY <2>1
    <2> HIDE DEF x
    <2>4. /\ y \in Seq(Messages) /\ Len(y) = Len(x) + Len(queue)
          /\ \A i \in 1..(Len(x) + Len(queue)) :
                y[i] = IF i <= Len(x) THEN x[i] ELSE queue[i - Len(x)]
      BY <2>x, <2>q, ConcatProperties, Zenon
    <2> HIDE DEF y
    <2>n. /\ Len(queue) \in Nat /\ Len(entered) \in Nat /\ Len(current) \in Nat
          /\ Len(h) = Len(entered)
      BY <2>1, <2>2 DEF h
    <2>5. Len(y) = Len(sent)
      BY <2>3, <2>4, <2>n DEF OrderInv
    <2>l. Len(sent) = Len(entered) + Len(current) + Len(queue)
      BY DEF OrderInv
    <2>6. ASSUME NEW i \in 1..Len(sent) PROVE y[i] = sent[i]
      <3>0. i \in 1..Len(y) /\ i \in Int
        BY <2>5
      <3>1. CASE i \in 1..Len(entered)
        <4>1. y[i] = x[i]
          BY <2>3, <2>4, <2>n, <3>0, <3>1
        <4>2. x[i] = h[i]
          BY <2>3, <2>n, <3>1
        <4>3. h[i] = sent[i]
          BY <2>2, <3>1 DEF OrderInv, h
        <4> QED
          BY <4>1, <4>2, <4>3
      <3>2. CASE i - Len(entered) \in 1..Len(current)
        <4>1. current[i - Len(entered)] = sent[Len(entered) + (i - Len(entered))]
          BY <3>2 DEF OrderInv
        <4>2. y[i] = x[i]
          BY <2>3, <2>4, <2>n, <3>0, <3>2
        <4>3. x[i] = current[i - Len(entered)]
          BY <2>3, <2>n, <3>2
        <4>4. Len(entered) + (i - Len(entered)) = i
          BY <2>n
        <4> QED
          BY <4>1, <4>2, <4>3, <4>4
      <3>3. CASE i - (Len(entered) + Len(current)) \in 1..Len(queue)
        <4> DEFINE n == Len(entered) + Len(current)
        <4>1. queue[i - n] = sent[n + (i - n)]
          BY <3>3 DEF OrderInv
        <4>2. Len(x) = n /\ n \in Nat
          BY <2>3, <2>n
        <4>3. y[i] = queue[i - n]
          BY <2>4, <3>0, <3>3, <4>2
        <4>4. n + (i - n) = i
          BY <4>2
        <4> QED
          BY <4>1, <4>3, <4>4
      <3> QED
        BY <2>n, <2>l, <3>1, <3>2, <3>3
    <2>7. y = sent
      BY <2>1, <2>4, <2>5, <2>6, SeqEqual
    <2> QED
      BY <2>7 DEF y, x, h
  <1> QED
    BY <1>1, InitOrder, StepOrder, InitType, StepType, PTL DEF Spec

(* The status is the one the handled messages set, and the entry was called *)
(* under it each time.                                                      *)
StatusInv == status = StatusAfter(Len(entered)) /\ StatusInOrder

(* The STATUS messages among the first n sent, and the last of them.        *)
StatusMsgs(n) == {i \in 1..n : sent[i].kind = "status"}
LastOf(I) == CHOOSE i \in I : \A j \in I : j <= i

(* A non-empty set of numbers up to n has a last one.                       *)
LEMMA LastIsLast ==
    ASSUME NEW n \in Nat, NEW I, I \subseteq 1..n, I # {}
    PROVE  LastOf(I) \in I /\ \A j \in I : j <= LastOf(I)
  <1> DEFINE R == OpToRel(<, Nat)
             D == {n - i : i \in I}
  <1>1. D \subseteq Nat /\ D # {}
    <2>1. \A i \in I : n - i \in Nat
      OBVIOUS
    <2>2. PICK i \in I : TRUE
      OBVIOUS
    <2>3. n - i \in D
      BY <2>2
    <2> QED
      BY <2>1, <2>3
  <1>2. IsWellFoundedOn(R, Nat)
    BY NatLessThanWellFounded
  <1>3. R = {ss \in Nat \X Nat : ss[1] < ss[2]}
    BY DEF OpToRel
  <1> HIDE DEF R, D
  <1>4. PICK d \in D : \A e \in D : ~(<<e, d>> \in R)
    BY <1>1, <1>2, WFMin
  <1>5. \A e \in D : d <= e
    <2> SUFFICES ASSUME NEW e \in D PROVE d <= e
      OBVIOUS
    <2>1. d \in Nat /\ e \in Nat
      BY <1>1
    <2>2. e < d => <<e, d>> \in R
      BY <1>3, <2>1
    <2> QED
      BY <1>4, <2>1, <2>2
  <1>6. PICK i \in I : d = n - i
    BY DEF D
  <1>7. \A j \in I : j <= i
    <2> SUFFICES ASSUME NEW j \in I PROVE j <= i
      OBVIOUS
    <2>1. n - j \in D
      BY DEF D
    <2>2. n - i <= n - j /\ i \in Int /\ j \in Int
      BY <1>5, <1>6, <2>1
    <2> QED
      BY <2>2
  <1> QED
    BY <1>6, <1>7 DEF LastOf

(* One more message changes the status only if it is a STATUS message.      *)
LEMMA StatusAfterOneMore ==
    ASSUME NEW n \in Nat
    PROVE  StatusAfter(n + 1) = IF sent[n + 1].kind = "status"
                                  THEN sent[n + 1].value ELSE StatusAfter(n)
  <1>0. \A m : StatusAfter(m) = IF StatusMsgs(m) = {} THEN Idle
                                ELSE sent[LastOf(StatusMsgs(m))].value
    BY DEF StatusAfter, StatusMsgs, LastOf
  <1>1. CASE sent[n + 1].kind = "status"
    <2>1. n + 1 \in StatusMsgs(n + 1) /\ \A j \in StatusMsgs(n + 1) : j <= n + 1
      BY <1>1 DEF StatusMsgs
    <2>2. StatusMsgs(n + 1) \subseteq 1..(n + 1)
      BY DEF StatusMsgs
    <2>3. /\ LastOf(StatusMsgs(n + 1)) \in StatusMsgs(n + 1)
          /\ n + 1 <= LastOf(StatusMsgs(n + 1))
      BY <2>1, <2>2, LastIsLast
    <2>4. LastOf(StatusMsgs(n + 1)) = n + 1
      BY <2>1, <2>2, <2>3
    <2> QED
      BY <1>0, <1>1, <2>1, <2>4
  <1>2. CASE sent[n + 1].kind # "status"
    <2>1. StatusMsgs(n + 1) = StatusMsgs(n)
      BY <1>2 DEF StatusMsgs
    <2> QED
      BY <1>0, <1>2, <2>1
  <1> QED
    BY <1>1, <1>2

(* A message that is sent later changes nothing about the first n.          *)
LEMMA StatusAfterSend ==
    ASSUME NEW n \in Nat, \A i \in 1..n : sent'[i] = sent[i]
    PROVE  StatusAfter(n)' = StatusAfter(n)
  <1>1. StatusMsgs(n)' = StatusMsgs(n)
    BY DEF StatusMsgs
  <1>2. CASE StatusMsgs(n) = {}
    BY <1>1, <1>2 DEF StatusAfter, StatusMsgs
  <1>3. CASE StatusMsgs(n) # {}
    <2>1. StatusMsgs(n) \subseteq 1..n
      BY DEF StatusMsgs
    <2>2. LastOf(StatusMsgs(n)) \in 1..n
      BY <1>3, <2>1, LastIsLast
    <2>3. sent'[LastOf(StatusMsgs(n))] = sent[LastOf(StatusMsgs(n))]
      BY <2>2
    <2>4. StatusAfter(n) = sent[LastOf(StatusMsgs(n))].value
      BY <1>3 DEF StatusAfter, StatusMsgs, LastOf
    <2>5. StatusAfter(n)' = sent'[LastOf(StatusMsgs(n)')].value
      BY <1>1, <1>3 DEF StatusAfter, StatusMsgs, LastOf
    <2> QED
      BY <1>1, <2>3, <2>4, <2>5
  <1> QED
    BY <1>2, <1>3

(* Handling a message is the only step that changes the status.             *)
LEMMA StepStatus ==
    TInv /\ OrderInv /\ StatusInv /\ [Next]_vars => StatusInv'
  <1> SUFFICES ASSUME TInv, OrderInv, StatusInv, [Next]_vars PROVE StatusInv'
    OBVIOUS
  <1>t. /\ queue \in Seq(Messages) /\ sent \in Seq(Messages)
        /\ entered \in Seq(Calls) /\ Len(entered) \in Nat
    BY DEF TInv, TypeOK
  <1>1. CASE Handle
    <2> DEFINE n == Len(entered)
               m == sent[n + 1]
               now == IF m.kind = "status" THEN m.value ELSE status
               c == [msg |-> m, status |-> now]
    <2>1. current[1] = m
      <3>1. Len(current) = 1
        BY <1>1, InHand DEF Handle
      <3>2. \A i \in 1..Len(current) : current[i] = sent[Len(entered) + i]
        BY DEF OrderInv
      <3> QED
        BY <3>1, <3>2
    <2>2. /\ status' = now /\ sent' = sent
          /\ entered' = Append(entered, c)
      BY <1>1, <2>1 DEF Handle
    <2>3. /\ Len(entered') = n + 1 /\ entered'[n + 1] = c
          /\ \A i \in 1..n : entered'[i] = entered[i]
      <3> HIDE DEF c
      <3> QED
        BY <2>2, <1>t
    <2>4. now = StatusAfter(n + 1)
      BY <1>t, StatusAfterOneMore DEF StatusInv
    <2>5. \A i \in Nat : StatusAfter(i)' = StatusAfter(i)
      BY <2>2, StatusAfterSend
    <2>6. status' = StatusAfter(Len(entered))'
      BY <1>t, <2>2, <2>3, <2>4 DEF StatusAfter
    <2>7. ASSUME NEW i \in 1..Len(entered')
          PROVE  entered'[i].status = StatusAfter(i)
      <3>1. CASE i \in 1..n
        BY <2>3, <3>1 DEF StatusInv, StatusInOrder
      <3>2. CASE i = n + 1
        BY <2>3, <2>4, <3>2
      <3> QED
        BY <1>t, <2>3, <3>1, <3>2
    <2>8. StatusInOrder'
      BY <2>5, <2>7 DEF StatusInOrder
    <2> QED
      BY <2>6, <2>8 DEF StatusInv
  <1>2. ASSUME NEW s \in Senders, NEW m \in Messages, Push(s, m) PROVE StatusInv'
    <2>1. sent' = Append(sent, m) /\ entered' = entered /\ status' = status
      BY <1>2 DEF Push, threadVars
    <2>2. Len(entered) <= Len(sent)
      <3>1. /\ Len(sent) = Len(entered) + Len(current) + Len(queue)
            /\ Len(current) \in Nat /\ Len(queue) \in Nat
        BY <1>t, InHand DEF OrderInv
      <3> QED
        BY <1>t, <3>1
    <2>3. ASSUME NEW i \in 0..Len(entered) PROVE StatusAfter(i)' = StatusAfter(i)
      <3>1. \A j \in 1..i : sent'[j] = sent[j]
        BY <1>t, <2>1, <2>2
      <3> QED
        BY <3>1, StatusAfterSend
    <2>4. status' = StatusAfter(Len(entered))'
      <3>1. PICK n \in Nat : n = Len(entered)
        BY <1>t
      <3>2. StatusAfter(Len(entered))' = StatusAfter(n)'
        BY <2>1, <3>1 DEF StatusAfter
      <3>3. StatusAfter(n)' = StatusAfter(n)
        BY <2>3, <3>1
      <3> QED
        BY <2>1, <3>1, <3>2, <3>3 DEF StatusInv
    <2>5. StatusInOrder'
      BY <1>t, <2>1, <2>3 DEF StatusInv, StatusInOrder
    <2> QED
      BY <2>4, <2>5 DEF StatusInv
  <1>3. CASE UNCHANGED <<sent, entered, status>>
    <2>1. \A i \in Nat : StatusAfter(i)' = StatusAfter(i)
      BY <1>3, StatusAfterSend
    <2>2. StatusInOrder'
      BY <1>t, <1>3, <2>1 DEF StatusInv, StatusInOrder
    <2>3. StatusAfter(Len(entered))' = StatusAfter(Len(entered))
      BY <1>3 DEF StatusAfter
    <2> QED
      BY <1>3, <2>2, <2>3 DEF StatusInv
  <1>4. ASSUME NEW s \in Senders, NotifyOne(s) PROVE UNCHANGED <<sent, entered, status>>
    BY <1>4 DEF NotifyOne
  <1>5. StopStore \/ StopNotify \/ ClockReachesTick \/ LoopTop \/ Tick \/ CatchUp
        \/ Evaluate \/ Block \/ Timeout \/ UNCHANGED vars
        => UNCHANGED <<sent, entered, status>>
    BY DEF StopStore, StopNotify, ClockReachesTick, LoopTop, Tick, CatchUp, Block,
           Timeout, Evaluate, vars, threadVars
  <1> QED
    BY <1>1, <1>2, <1>3, <1>4, <1>5 DEF Next, ThreadStep

(* The business entry sees every message under the status that the messages *)
(* up to it have set, whoever sends and however fast.                       *)
THEOREM StatusKeepsOrder == Spec => []StatusInOrder
  <1>1. Init => StatusInv
    <2> SUFFICES ASSUME Init PROVE StatusInv
      OBVIOUS
    <2>1. Len(entered) = 0 /\ status = Idle
      BY DEF Init
    <2>2. StatusAfter(0) = Idle
      BY DEF StatusAfter
    <2> QED
      BY <2>1, <2>2 DEF StatusInv, StatusInOrder
  <1>2. StatusInv => StatusInOrder
    BY DEF StatusInv
  <1> QED
    BY <1>1, <1>2, InitOrder, StepOrder, InitType, StepType, StepStatus, PTL DEF Spec

-----------------------------------------------------------------------------
(* The thread keeps the promise of module Worker.                           *)

(* One more call of the entry is one more message handled.                  *)
LEMMA OneMoreHandled ==
  ASSUME TypeOK, NEW c \in Calls, entered' = Append(entered, c)
  PROVE  Handled' = Append(Handled, c.msg)
  <1>1. /\ entered \in Seq(Calls) /\ Len(entered) \in Nat
        /\ Len(entered') = Len(entered) + 1
        /\ entered'[Len(entered) + 1] = c
        /\ \A i \in 1..Len(entered) : entered'[i] = entered[i]
    BY DEF TypeOK
  <1>2. \A i \in 1..Len(entered) : entered[i].msg \in Messages
    <2>1. \A i \in 1..Len(entered) : entered[i] \in Calls
      BY <1>1
    <2>2. \A d \in Calls : d.msg \in Messages
      BY DEF Calls
    <2> QED
      BY <2>1, <2>2
  <1> DEFINE h == [i \in 1..Len(entered) |-> entered[i].msg]
             g == [i \in 1..Len(entered') |-> entered'[i].msg]
  <1>3. h \in Seq(Messages) /\ Len(h) = Len(entered)
    BY <1>1, <1>2
  <1>4. c.msg \in Messages
    BY DEF Calls
  <1>5. g \in Seq(Messages) /\ Len(g) = Len(entered) + 1
    <2>1. \A i \in 1..Len(entered') : entered'[i].msg \in Messages
      BY <1>1, <1>2, <1>4
    <2> QED
      BY <1>1, <2>1
  <1> DEFINE a == Append(h, c.msg)
  <1>6. a \in Seq(Messages) /\ Len(a) = Len(entered) + 1
    BY <1>1, <1>3, <1>4
  <1>7. \A i \in 1..Len(entered) + 1 : g[i] = a[i]
    BY <1>1, <1>3, <1>4
  <1>8. g = a
    <2> HIDE DEF g, a
    <2> QED
      BY <1>1, <1>5, <1>6, <1>7
  <1> QED
    BY <1>8 DEF Handled

(* Every step of thread, senders, stopper and clock is a step of the worker *)
(* or leaves it alone; one case per action.                                 *)
LEMMA StepPromise == TInv /\ [Next]_vars => [Promise!Next]_(Promise!workerVars)
  <1> SUFFICES ASSUME TInv, [Next]_vars PROVE [Promise!Next]_(Promise!workerVars)
    OBVIOUS
  <1> USE DEF TInv, PlaceInv, threadVars, Promise!workerVars
  <1>0. entered' = entered => Handled' = Handled
    BY DEF Handled
  <1>1. ASSUME NEW s \in Senders, NEW m \in Messages, Push(s, m)
        PROVE Promise!Post(m)
    BY <1>0, <1>1 DEF Push, Promise!Post
  <1>2. ASSUME NEW s \in Senders, NotifyOne(s) PROVE UNCHANGED Promise!workerVars
    BY <1>0, <1>2 DEF NotifyOne, Notified
  <1>3. CASE StopStore
    <2>1. Promise!RequestStop
      BY <1>0, <1>3 DEF StopStore, Promise!RequestStop
    <2> QED
      BY <2>1 DEF Promise!Next
  <1>4. CASE StopNotify \/ ClockReachesTick \/ Tick \/ CatchUp \/ Block \/ Timeout
    BY <1>0, <1>4 DEF StopNotify, Notified, ClockReachesTick, Tick, CatchUp, Block,
                      Timeout
  <1>5. CASE LoopTop
    <2>1. CASE stop
      <3>1. Promise!End
        BY <1>0, <1>5, <2>1 DEF LoopTop, Promise!End
      <3> QED
        BY <3>1 DEF Promise!Next, Promise!Work
    <2>2. CASE ~stop
      BY <1>0, <1>5, <2>2 DEF LoopTop
    <2> QED
      BY <2>1, <2>2
  <1>6. CASE Evaluate
    <2>1. CASE queue # <<>>
      <3>1. Promise!Take
        BY <1>0, <1>6, <2>1 DEF Evaluate, Promise!Take
      <3> QED
        BY <3>1 DEF Promise!Next, Promise!Work
    <2>2. CASE queue = <<>> /\ stop
      <3>1. Promise!Leave
        BY <1>0, <1>6, <2>2 DEF Evaluate, Promise!Leave
      <3> QED
        BY <3>1 DEF Promise!Next, Promise!Work
    <2>3. CASE queue = <<>> /\ ~stop
      BY <1>0, <1>6, <2>3 DEF Evaluate
    <2> QED
      BY <2>1, <2>2, <2>3
  <1>7. CASE Handle
    <2>1. PICK m \in Messages : current = <<m>>
      BY <1>7 DEF Handle, TypeOK
    <2> DEFINE now == IF m.kind = "status" THEN m.value ELSE status
               c == [msg |-> m, status |-> now]
    <2>2. now \in Statuses
      BY DEF TypeOK, Messages
    <2>3. c \in Calls /\ c.msg = m
      BY <2>2 DEF Calls
    <2>4. entered' = Append(entered, c)
      BY <1>7, <2>1 DEF Handle
    <2>5. Handled' = Append(Handled, current[1])
      <3> HIDE DEF c
      <3>1. Handled' = Append(Handled, c.msg)
        BY <2>3, <2>4, OneMoreHandled
      <3> QED
        BY <2>1, <2>3, <3>1
    <2>6. Promise!Finish
      BY <1>7, <2>5 DEF Handle, Promise!Finish
    <2> QED
      BY <2>6 DEF Promise!Next, Promise!Work
  <1>8. CASE UNCHANGED vars
    BY <1>0, <1>8 DEF vars
  <1> QED
    BY <1>1, <1>2, <1>3, <1>4, <1>5, <1>6, <1>7, <1>8 DEF Next, ThreadStep, Promise!Next

(* The thread implements the worker, whatever its senders, its clock and    *)
(* its stopper do: this is the safety part of RefinesWorker.                *)
THEOREM ThreadImplementsWorker == Spec => Promise!Spec
  <1>1. Init => Promise!Init
    <2> SUFFICES ASSUME Init PROVE Promise!Init
      OBVIOUS
    <2>1. Handled = <<>>
      BY DEF Init, Handled
    <2> QED
      BY <2>1 DEF Init, Promise!Init
  <1> QED
    BY <1>1, InitType, StepType, StepPromise, PTL DEF Spec, Promise!Spec
=============================================================================
