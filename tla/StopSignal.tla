----------------------------- MODULE StopSignal -----------------------------
(***************************************************************************)
(* The stop signal of a process: the main thread waits on a condition      *)
(* variable, and a handler of SIGINT or SIGTERM sets a flag under the      *)
(* mutex and notifies.  The kernel runs a handler on top of any thread it  *)
(* chooses, at any moment; handlers of different signals nest.             *)
(***************************************************************************)
EXTENDS Naturals, Sequences

CONSTANTS
    Signals,    \* SIGINT, SIGTERM; each arrives at most once (a bound)
    Others      \* threads besides the main one that may be interrupted

Main == "main"
Nobody == "nobody"
Hosts == Others \cup {Main}

ASSUME SignalAssumption == Signals \cap {Main, Nobody} = {}

VARIABLES
    stopped,    \* m_stopped
    holder,     \* owner of m_mutex: nobody, main or a signal's handler
    waiter,     \* the main thread in Wait
    handler,    \* place of each signal's handler
    frames      \* handlers on top of each thread; the last one runs

signalVars == <<stopped, holder, waiter, handler, frames>>

SignalInit ==
    /\ stopped = FALSE /\ holder = Nobody
    /\ waiter = "away"
    /\ handler = [s \in Signals |-> "none"]
    /\ frames = [t \in Hosts |-> <<>>]

MainRuns == frames[Main] = <<>>

Runs(s) == \E t \in Hosts : frames[t] # <<>> /\ frames[t][Len(frames[t])] = s

-----------------------------------------------------------------------------
(* The handler: Stop, hence StopSignal::Request.                            *)
HandlerGoto(s, from, to) == handler[s] = from /\ handler' = [handler EXCEPT ![s] = to]

Raise(s, t) ==
    /\ HandlerGoto(s, "none", "lock")
    /\ frames' = [frames EXCEPT ![t] = Append(@, s)]
    /\ UNCHANGED <<stopped, holder, waiter>>

HandlerLock(s) ==
    /\ Runs(s) /\ HandlerGoto(s, "lock", "store")
    /\ holder = Nobody /\ holder' = s
    /\ UNCHANGED <<stopped, waiter, frames>>

(* The flag is set and the lock_guard's scope ends.                         *)
HandlerStore(s) ==
    /\ Runs(s) /\ HandlerGoto(s, "store", "unlock")
    /\ stopped' = TRUE
    /\ UNCHANGED <<holder, waiter, frames>>

HandlerUnlock(s) ==
    /\ Runs(s) /\ HandlerGoto(s, "unlock", "notify")
    /\ holder' = Nobody
    /\ UNCHANGED <<stopped, waiter, frames>>

(* notify_all, and the handler returns to what it interrupted.              *)
HandlerNotify(s) ==
    /\ Runs(s) /\ HandlerGoto(s, "notify", "done")
    /\ waiter' = IF waiter = "blocked" THEN "woken" ELSE waiter
    /\ frames' = [t \in Hosts |->
                     IF frames[t] # <<>> /\ frames[t][Len(frames[t])] = s
                     THEN SubSeq(frames[t], 1, Len(frames[t]) - 1) ELSE frames[t]]
    /\ UNCHANGED <<stopped, holder>>

HandlerStep(s) ==
    HandlerLock(s) \/ HandlerStore(s) \/ HandlerUnlock(s) \/ HandlerNotify(s)

-----------------------------------------------------------------------------
(* The main thread in StopSignal::Wait.                                     *)
WaitLock ==
    /\ MainRuns /\ waiter \in {"away", "woken"}
    /\ holder = Nobody /\ holder' = Main
    /\ waiter' = "holding"
    /\ UNCHANGED <<stopped, handler, frames>>

(* Faulty variant: wait without a predicate.                                *)
WaitTest_NoPredicate ==
    /\ MainRuns /\ waiter = "holding"
    /\ waiter' = "blocked" /\ holder' = Nobody
    /\ UNCHANGED <<stopped, handler, frames>>

(* The predicate; to block releases the mutex in the same step.             *)
WaitTest ==
    /\ MainRuns /\ waiter = "holding"
    /\ \/ stopped /\ waiter' = "returning" /\ UNCHANGED holder
       \/ ~stopped /\ waiter' = "blocked" /\ holder' = Nobody
    /\ UNCHANGED <<stopped, handler, frames>>

WaitUnlock ==
    /\ MainRuns /\ waiter = "returning"
    /\ waiter' = "returned" /\ holder' = Nobody
    /\ UNCHANGED <<stopped, handler, frames>>

WaitStep == WaitLock \/ WaitTest \/ WaitUnlock

-----------------------------------------------------------------------------
(* Every variable has its type.                                             *)
SignalTypeOK ==
    /\ stopped \in BOOLEAN /\ holder \in Signals \cup {Main, Nobody}
    /\ waiter \in {"away", "holding", "blocked", "woken", "returning", "returned"}
    /\ handler \in [Signals -> {"none", "lock", "store", "unlock", "notify", "done"}]
    /\ frames \in [Hosts -> Seq(Signals)]

(* A handler that waits for a mutex which the thread below it holds: that   *)
(* thread will not run again.                                               *)
SelfLocked ==
    \E t \in Hosts :
        /\ frames[t] # <<>> /\ handler[frames[t][Len(frames[t])]] = "lock"
        /\ \/ t = Main /\ holder = Main
           \/ \E i \in 1..Len(frames[t]) : frames[t][i] = holder
=============================================================================
