----------------------------- MODULE ThreadRun -----------------------------
(***************************************************************************)
(* One business thread: its mailbox (a deque behind a mutex and a          *)
(* condition variable), the 100 ms maintenance tick with an absolute       *)
(* deadline, the thread status, and the stop request, which is stored      *)
(* without taking the mailbox mutex.                                       *)
(*                                                                         *)
(* Time is the predicate "nextTick has passed" (due): the clock makes it   *)
(* true, catching up makes it false again, however many periods passed.    *)
(***************************************************************************)
EXTENDS Naturals, Sequences

CONSTANTS
    Senders,    \* threads that call Mailbox::Send (middleware callbacks)
    Statuses,   \* values of ThreadStatus
    Idle,       \* the initial status
    MaxSends    \* bound: messages sent in a behaviour

ASSUME ThreadAssumption == Idle \in Statuses /\ MaxSends \in Nat

VARIABLES
    queue,        \* m_mailbox.m_queue
    locked,       \* the thread holds m_mailbox.m_mutex across a step
    stop,         \* m_stop
    stopper,      \* progress of RequestStop
    status,       \* m_status
    due,          \* steady_clock::now() >= nextTick
    pc,           \* the thread's place in ThreadRun
    current,      \* the popped message, while it is being handled
    sender,       \* progress of each Send
    sent,         \* history: messages in the order they entered the mailbox
    entered,      \* history: message and status of each call of m_entry
    lateBy        \* history: messages handled since the tick fell due

threadVars == <<pc, current, locked, status, entered>>
vars == <<queue, locked, stop, stopper, status, due, pc, current, sender, sent,
          entered, lateBy>>

(* A STATUS message carries a status; one shorter than StatusMsg is only    *)
(* forwarded.  Every other message is business.                             *)
Messages == [kind : {"status"}, value : Statuses]
            \cup [kind : {"short", "business"}, value : {Idle}]

Calls == [msg : Messages, status : Statuses]

Places == {"top", "tick", "catchup", "eval", "block", "blocked", "handle", "exit"}

Init ==
    /\ queue = <<>> /\ locked = FALSE
    /\ stop = FALSE /\ stopper = "none"
    /\ status = Idle /\ due = FALSE
    /\ pc = "top" /\ current = <<>>
    /\ sender = [s \in Senders |-> "idle"]
    /\ sent = <<>> /\ entered = <<>> /\ lateBy = 0

-----------------------------------------------------------------------------
(* Faulty variant: the push does not take the mutex.                        *)
Push_Unlocked(s, m) ==
    /\ sender[s] = "idle" /\ Len(sent) < MaxSends
    /\ queue' = Append(queue, m)
    /\ sent' = Append(sent, m)
    /\ sender' = [sender EXCEPT ![s] = "notify"]
    /\ UNCHANGED <<threadVars, stop, stopper, due, lateBy>>

(* Mailbox::Send: push under the mutex, then notify_one outside it.         *)
Push(s, m) ==
    /\ sender[s] = "idle" /\ Len(sent) < MaxSends
    /\ ~locked
    /\ queue' = Append(queue, m)
    /\ sent' = Append(sent, m)
    /\ sender' = [sender EXCEPT ![s] = "notify"]
    /\ UNCHANGED <<threadVars, stop, stopper, due, lateBy>>

(* A notification reaches the thread only if it is blocked.                 *)
Notified == IF pc = "blocked" THEN "eval" ELSE pc

NotifyOne(s) ==
    /\ sender[s] = "notify"
    /\ sender' = [sender EXCEPT ![s] = "idle"]
    /\ pc' = Notified
    /\ UNCHANGED <<queue, locked, stop, stopper, status, due, current, sent,
                   entered, lateBy>>

(* RequestStop: m_stop.store(true), without the mutex, then notify_all.     *)
StopStore ==
    /\ stopper = "none"
    /\ stop' = TRUE /\ stopper' = "notify"
    /\ UNCHANGED <<threadVars, queue, due, sender, sent, lateBy>>

StopNotify ==
    /\ stopper = "notify"
    /\ stopper' = "done"
    /\ pc' = Notified
    /\ UNCHANGED <<queue, locked, stop, status, due, current, sender, sent,
                   entered, lateBy>>

(* The clock reaches nextTick.                                              *)
ClockReachesTick ==
    /\ ~due /\ pc # "exit"
    /\ due' = TRUE
    /\ lateBy' = 0
    /\ UNCHANGED <<threadVars, queue, stop, stopper, sender, sent>>

-----------------------------------------------------------------------------
(* ThreadRun.                                                               *)

(* Faulty variant: the tick is only delivered when the mailbox is empty (a  *)
(* deadline relative to the last wake-up).                                  *)
LoopTop_Relative ==
    /\ pc = "top"
    /\ pc' = IF stop THEN "exit"
             ELSE IF due /\ queue = <<>> THEN "tick" ELSE "eval"
    /\ UNCHANGED <<queue, locked, stop, stopper, status, due, current, sender,
                   sent, entered, lateBy>>

(* while (!m_stop), and the test of the tick's deadline.                    *)
LoopTop ==
    /\ pc = "top"
    /\ pc' = IF stop THEN "exit" ELSE IF due THEN "tick" ELSE "eval"
    /\ UNCHANGED <<queue, locked, stop, stopper, status, due, current, sender,
                   sent, entered, lateBy>>

(* m_entry(MSG_ID_TIMER); the clock may run on meanwhile.                   *)
Tick ==
    /\ pc = "tick"
    /\ pc' = "catchup"
    /\ UNCHANGED <<queue, locked, stop, stopper, status, due, current, sender,
                   sent, entered, lateBy>>

(* nextTick advances past now.                                              *)
CatchUp ==
    /\ pc = "catchup"
    /\ pc' = "eval"
    /\ due' = FALSE
    /\ lateBy' = 0
    /\ UNCHANGED <<queue, locked, stop, stopper, status, current, sender, sent,
                   entered>>

(* Under the mutex: evaluate wait_until's predicate.  A message is popped   *)
(* and the mutex released; with a stop request or a passed deadline the     *)
(* loop starts over; otherwise the thread goes on to block, still holding   *)
(* the mutex.                                                               *)
Evaluate ==
    /\ pc = "eval"
    /\ \/ /\ queue # <<>>
          /\ current' = <<Head(queue)>> /\ queue' = Tail(queue)
          /\ pc' = "handle"
          /\ UNCHANGED locked
       \/ /\ queue = <<>> /\ (stop \/ due)
          /\ pc' = "top"
          /\ UNCHANGED <<queue, current, locked>>
       \/ /\ queue = <<>> /\ ~stop /\ ~due
          /\ pc' = "block" /\ locked' = TRUE
          /\ UNCHANGED <<queue, current>>
    /\ UNCHANGED <<stop, stopper, status, due, sender, sent, entered, lateBy>>

(* The condition variable releases the mutex and blocks in one step.        *)
Block ==
    /\ pc = "block"
    /\ pc' = "blocked" /\ locked' = FALSE
    /\ UNCHANGED <<queue, stop, stopper, status, due, current, sender, sent,
                   entered, lateBy>>

(* Faulty variant: a wait without a deadline.                               *)
Timeout_Never == FALSE /\ UNCHANGED vars

(* wait_until returns at nextTick.                                          *)
Timeout ==
    /\ pc = "blocked" /\ due
    /\ pc' = "eval"
    /\ UNCHANGED <<queue, locked, stop, stopper, status, due, current, sender,
                   sent, entered, lateBy>>

(* Faulty variant: the status is stored after the entry has run.            *)
Handle_StatusAfter ==
    /\ pc = "handle"
    /\ entered' = Append(entered, [msg |-> current[1], status |-> status])
    /\ status' = IF current[1].kind = "status" THEN current[1].value ELSE status
    /\ pc' = "top" /\ current' = <<>>
    /\ lateBy' = IF due THEN lateBy + 1 ELSE lateBy
    /\ UNCHANGED <<queue, locked, stop, stopper, due, sender, sent>>

(* A STATUS message updates m_status; every message, STATUS included, goes  *)
(* to m_entry with the status as it is then.                                *)
Handle ==
    /\ pc = "handle"
    /\ LET now == IF current[1].kind = "status" THEN current[1].value ELSE status
       IN  /\ status' = now
           /\ entered' = Append(entered, [msg |-> current[1], status |-> now])
    /\ pc' = "top" /\ current' = <<>>
    /\ lateBy' = IF due THEN lateBy + 1 ELSE lateBy
    /\ UNCHANGED <<queue, locked, stop, stopper, due, sender, sent>>

-----------------------------------------------------------------------------
ThreadStep == LoopTop \/ Tick \/ CatchUp \/ Evaluate \/ Block \/ Timeout \/ Handle

Next ==
    \/ \E s \in Senders : (\E m \in Messages : Push(s, m)) \/ NotifyOne(s)
    \/ StopStore \/ StopNotify
    \/ ClockReachesTick
    \/ ThreadStep

Spec == Init /\ [][Next]_vars

(* The thread is scheduled, the clock advances, a Send or RequestStop that  *)
(* has begun goes on to its notification.                                   *)
Fairness ==
    /\ WF_vars(ThreadStep) /\ WF_vars(ClockReachesTick) /\ WF_vars(StopNotify)
    /\ \A s \in Senders : WF_vars(NotifyOne(s))

FairSpec == Spec /\ Fairness

-----------------------------------------------------------------------------
(* Properties.                                                              *)

(* Every variable has its type.                                             *)
TypeOK ==
    /\ queue \in Seq(Messages) /\ locked \in BOOLEAN
    /\ stop \in BOOLEAN /\ stopper \in {"none", "notify", "done"}
    /\ status \in Statuses /\ due \in BOOLEAN
    /\ pc \in Places
    /\ current \in {<<>>} \cup {<<m>> : m \in Messages}
    /\ sender \in [Senders -> {"idle", "notify"}]
    /\ sent \in Seq(Messages) /\ entered \in Seq(Calls)
    /\ lateBy \in Nat

Handled == [i \in 1..Len(entered) |-> entered[i].msg]

(* No message is lost, duplicated or reordered on its way through the       *)
(* mailbox: handled, in hand and waiting together are what was sent.        *)
NothingLost == Handled \o current \o queue = sent

(* The last status the first n messages set.                                *)
StatusAfter(n) ==
    LET sets == {i \in 1..n : sent[i].kind = "status"} IN
    IF sets = {} THEN Idle
    ELSE sent[CHOOSE i \in sets : \A j \in sets : j <= i].value

(* The entry sees each message under the status that the messages up to and *)
(* including it have set, however senders and thread interleave.            *)
StatusInOrder ==
    \A i \in 1..Len(entered) : entered[i].status = StatusAfter(i)

(* Under any load the tick is late by at most one message.                  *)
TickPunctual == lateBy <= 1

(* The thread does not block on a mailbox that holds a message, unless that *)
(* message's sender is still on its way to notify it.                       *)
NoMissedMessage ==
    pc = "blocked" /\ queue # <<>> => \E s \in Senders : sender[s] = "notify"

(* The status message is consumed by the thread and not forwarded.          *)
StatusConsumed == \A i \in 1..Len(entered) : entered[i].msg.kind # "status"

(* The thread keeps the promise of module Worker: mailbox order, at most    *)
(* one message after a stop request, and under fairness every message is    *)
(* handled and a stop request ends the thread.  The last holds although the *)
(* notification of the stop can fall between the predicate and the block    *)
(* and be lost: the tick's deadline ends the wait.                          *)
Promise == INSTANCE Worker WITH
    Message <- Messages, box <- queue, hand <- current, done <- Handled,
    asked <- stop,
    life <- IF pc = "exit" THEN "gone"
            ELSE IF stop /\ pc = "top" THEN "leaves" ELSE "works"

RefinesWorker == Promise!FairSpec
=============================================================================
