--------------------------- MODULE BucketSegment ---------------------------
(***************************************************************************)
(* The shared-memory bucket: one reader, many writers, a ring of bytes     *)
(* behind a header with monotone positions, a robust process-shared mutex  *)
(* for the writers and two futex words.  One action per access to shared   *)
(* memory, so that every interleaving of the writer processes, the reader  *)
(* thread, their deadlines and writer crashes is a behaviour.              *)
(*                                                                         *)
(* Positions and sizes are counted in units of kEntryAlign (8 bytes): the  *)
(* capacity, every entry and so every position is a multiple of it.        *)
(***************************************************************************)
EXTENDS Integers, Sequences

CONSTANTS
    Writers,    \* writer processes; a process that crashes does not return
    Capacity,   \* capacity_ in units
    Sizes,      \* the entry sizes (align_down8(len + 4) + 8) callers ask for
    MaxEntry,   \* the largest entry the reader's receive buffer holds
    WordMod,    \* number of values of a size_t, in units (2^64 / 8)
    MaxMsgs,    \* bound: calls of Write in a behaviour
    MayCrash    \* whether writers may crash in the modelled environment

ASSUME BucketAssumption ==
    /\ {"free", "ownerdead"} \cap Writers = {}
    /\ Capacity \in Nat \ {0}
    /\ Sizes \subseteq Nat \ {0}
    /\ MaxEntry \in Nat \ {0}
    /\ WordMod \in Nat
    /\ WordMod > Capacity
    /\ MaxMsgs \in Nat
    /\ MayCrash \in BOOLEAN

VARIABLES
    write_pos, read_pos,     \* Header: published and consumed positions
    wake_word, drain_word,   \* Header: futex words
    write_lock,              \* Header: "free", "ownerdead" or the holder
    ring,                    \* the ring's units
    wpc, msg, copied, wexpected, wexpired, outcome, \* per writer
    rpc, wpos, entry, buf, rexpected, rexpired, alive, \* the reader thread
    calls,                   \* Write calls begun so far: identifies a message
    published, consumed, delivered \* history: entries published, the number
                             \* consumed, and what was handed to the receiver

writerVars == <<wpc, msg, copied, wexpected, wexpired, outcome>>
readerVars == <<rpc, wpos, entry, buf, rexpected, rexpired, alive, consumed,
                delivered>>
sharedVars == <<write_pos, read_pos, wake_word, drain_word, write_lock, ring>>
vars == <<writerVars, readerVars, sharedVars, calls, published>>

-----------------------------------------------------------------------------
(* A message is the call that wrote it and its entry size.  A unit of the   *)
(* ring holds the k-th unit of a message; unit 0 starts with the length.    *)
Messages == [id : 1..MaxMsgs, size : Sizes]
NoMsg    == [id |-> 0, size |-> 1]   \* zero bytes: a length of 0, one unit
Cells    == [m : Messages \cup {NoMsg}, k : Nat]
Zero     == [m |-> NoMsg, k |-> 0]

Slot(pos) == pos % Capacity

CellsOf(m) == [i \in 1..m.size |-> [m |-> m, k |-> i - 1]]

WriterPc == {"idle", "lock", "check", "arm", "futex", "sleep", "copy",
             "publish", "bump", "wake", "unlock", "crashed"}
ReaderPc == {"loop", "head", "header", "copy", "advance", "bump", "wake",
             "check", "arm", "futex", "sleep", "done"}

(* Faulty variant: no wait for room at all.                                 *)
HasRoom_Unchecked == TRUE

(* wait_drain's test: at least one unit free, in the arithmetic of size_t.  *)
HasRoom == (Capacity - (write_pos - read_pos)) % WordMod >= 1

Init ==
    /\ write_pos = 0 /\ read_pos = 0
    /\ wake_word = 0 /\ drain_word = 0
    /\ write_lock = "free"
    /\ ring = [s \in 0..(Capacity - 1) |-> Zero]
    /\ wpc = [w \in Writers |-> "idle"]
    /\ msg = [w \in Writers |-> NoMsg]
    /\ copied = [w \in Writers |-> 0]
    /\ wexpected = [w \in Writers |-> 0]
    /\ wexpired = [w \in Writers |-> FALSE]
    /\ outcome = [i \in 1..MaxMsgs |-> "none"]
    /\ rpc = "loop" /\ wpos = 0 /\ entry = 0 /\ buf = <<>>
    /\ rexpected = 0 /\ rexpired = FALSE /\ alive = TRUE
    /\ calls = 0 /\ published = <<>> /\ consumed = 0 /\ delivered = <<>>

Goto(w, from, to) == wpc[w] = from /\ wpc' = [wpc EXCEPT ![w] = to]

(* The locals of w's Write go out of scope.                                 *)
DropLocals(w) ==
    /\ msg' = [msg EXCEPT ![w] = NoMsg]
    /\ copied' = [copied EXCEPT ![w] = 0]
    /\ wexpected' = [wexpected EXCEPT ![w] = 0]
    /\ wexpired' = [wexpired EXCEPT ![w] = FALSE]

(* Unlock and return result.                                                *)
Return(w, result) ==
    /\ write_lock' = "free"
    /\ outcome' = [outcome EXCEPT ![msg[w].id] = result]
    /\ DropLocals(w)

-----------------------------------------------------------------------------
(* Write.                                                                   *)

(* Entry of Write: an entry larger than the ring is refused at once.        *)
WriteBegin(w, size) ==
    /\ wpc[w] = "idle"
    /\ calls < MaxMsgs
    /\ calls' = calls + 1
    /\ IF size > Capacity
         THEN /\ outcome' = [outcome EXCEPT ![calls + 1] = "false"]
              /\ UNCHANGED <<wpc, msg>>
         ELSE /\ wpc' = [wpc EXCEPT ![w] = "lock"]
              /\ msg' = [msg EXCEPT ![w] = [id |-> calls + 1, size |-> size]]
              /\ UNCHANGED outcome
    /\ UNCHANGED <<copied, wexpected, wexpired, readerVars, sharedVars, published>>

(* pthread_mutex_lock: blocks without a deadline; EOWNERDEAD takes over.    *)
WriteLock(w) ==
    /\ write_lock \in {"free", "ownerdead"}
    /\ write_lock' = w
    /\ Goto(w, "lock", "check")
    /\ UNCHANGED <<msg, copied, wexpected, wexpired, outcome, readerVars,
                   write_pos, read_pos, wake_word, drain_word, ring, calls,
                   published>>

(* wait_drain: load the positions and test for room, before and after a     *)
(* sleep alike.                                                             *)
DrainCheck(w) ==
    /\ Goto(w, "check", IF HasRoom THEN "copy" ELSE "arm")
    /\ UNCHANGED <<msg, copied, wexpected, wexpired, outcome, readerVars,
                   sharedVars, calls, published>>

(* Faulty variant: a timed-out Write reports false and publishes all the    *)
(* same.                                                                    *)
DrainTimeout_GoesOn(w) ==
    /\ wexpired[w]
    /\ Goto(w, "arm", "copy")
    /\ outcome' = [outcome EXCEPT ![msg[w].id] = "false"]
    /\ UNCHANGED <<msg, copied, wexpected, wexpired, readerVars, sharedVars,
                   calls, published>>

(* The deadline has passed: unlock and return false.                        *)
DrainTimeout(w) ==
    /\ wexpired[w]
    /\ Goto(w, "arm", "idle")
    /\ Return(w, "false")
    /\ UNCHANGED <<readerVars, write_pos, read_pos, wake_word, drain_word, ring,
                   calls, published>>

(* Still time: load drain_word, the value the futex is to compare with.     *)
DrainArm(w) ==
    /\ ~wexpired[w]
    /\ Goto(w, "arm", "futex")
    /\ wexpected' = [wexpected EXCEPT ![w] = drain_word]
    /\ UNCHANGED <<msg, copied, wexpired, outcome, readerVars, sharedVars,
                   calls, published>>

(* FUTEX_WAIT: sleep only if the word still has the expected value.         *)
DrainFutex(w) ==
    /\ Goto(w, "futex", IF drain_word = wexpected[w] THEN "sleep" ELSE "check")
    /\ wexpected' = [wexpected EXCEPT ![w] = 0]
    /\ UNCHANGED <<msg, copied, wexpired, outcome, readerVars, sharedVars,
                   calls, published>>

(* The futex returns ETIMEDOUT at the deadline.                             *)
DrainFutexTimeout(w) ==
    /\ wexpired[w]
    /\ Goto(w, "sleep", "check")
    /\ UNCHANGED <<msg, copied, wexpected, wexpired, outcome, readerVars,
                   sharedVars, calls, published>>

(* copy_in: one unit of the entry at write_pos + copied.                    *)
WriteCopy(w) ==
    /\ copied[w] < msg[w].size
    /\ Goto(w, "copy", "copy")
    /\ ring' = [ring EXCEPT ![Slot(write_pos + copied[w])] =
                                 [m |-> msg[w], k |-> copied[w]]]
    /\ copied' = [copied EXCEPT ![w] = @ + 1]
    /\ UNCHANGED <<msg, wexpected, wexpired, outcome, readerVars, write_pos,
                   read_pos, wake_word, drain_word, write_lock, calls,
                   published>>

(* Faulty variant: published before the last unit is copied.                *)
WritePublish_Early(w) ==
    /\ Goto(w, "copy", "bump")
    /\ write_pos' = write_pos + msg[w].size
    /\ published' = Append(published, msg[w])
    /\ UNCHANGED <<msg, copied, wexpected, wexpired, outcome, readerVars,
                   read_pos, wake_word, drain_word, write_lock, ring, calls>>

(* The whole entry is in the ring: publish write_pos.                       *)
WritePublish(w) ==
    /\ copied[w] = msg[w].size
    /\ Goto(w, "copy", "bump")
    /\ write_pos' = write_pos + msg[w].size
    /\ published' = Append(published, msg[w])
    /\ UNCHANGED <<msg, copied, wexpected, wexpired, outcome, readerVars,
                   read_pos, wake_word, drain_word, write_lock, ring, calls>>

WriteBump(w) ==
    /\ Goto(w, "bump", "wake")
    /\ wake_word' = wake_word + 1
    /\ UNCHANGED <<msg, copied, wexpected, wexpired, outcome, readerVars,
                   write_pos, read_pos, drain_word, write_lock, ring, calls,
                   published>>

(* FUTEX_WAKE on wake_word.                                                 *)
WriteWake(w) ==
    /\ Goto(w, "wake", "unlock")
    /\ rpc' = IF rpc = "sleep" THEN "check" ELSE rpc
    /\ UNCHANGED <<msg, copied, wexpected, wexpired, outcome, wpos, entry, buf,
                   rexpected, rexpired, alive, consumed, delivered, sharedVars, calls,
                   published>>

WriteUnlock(w) ==
    /\ Goto(w, "unlock", "idle")
    /\ Return(w, "true")
    /\ UNCHANGED <<readerVars, write_pos, read_pos, wake_word, drain_word, ring,
                   calls, published>>

(* Faulty variant: the mutex is not robust and stays locked.                *)
WriterCrash_NotRobust(w) ==
    /\ MayCrash
    /\ wpc[w] \notin {"idle", "crashed"}
    /\ wpc' = [wpc EXCEPT ![w] = "crashed"]
    /\ DropLocals(w)
    /\ UNCHANGED <<outcome, readerVars, sharedVars, calls, published>>

(* The writer's process dies; the kernel marks a mutex it holds.            *)
WriterCrash(w) ==
    /\ MayCrash
    /\ wpc[w] \notin {"idle", "crashed"}
    /\ wpc' = [wpc EXCEPT ![w] = "crashed"]
    /\ write_lock' = IF write_lock = w THEN "ownerdead" ELSE write_lock
    /\ DropLocals(w)
    /\ UNCHANGED <<outcome, readerVars, write_pos, read_pos, wake_word,
                   drain_word, ring, calls, published>>

(* The clock passes the deadline of a pending Write.                        *)
WriterDeadline(w) ==
    /\ wpc[w] \notin {"idle", "crashed"}
    /\ ~wexpired[w]
    /\ wexpired' = [wexpired EXCEPT ![w] = TRUE]
    /\ UNCHANGED <<wpc, msg, copied, wexpected, outcome, readerVars,
                   sharedVars, calls, published>>

-----------------------------------------------------------------------------
(* The receive thread: run() and Read.                                      *)

RGoto(from, to) == rpc = from /\ rpc' = to

(* while (alive_): a new Read with a new deadline, or leave.                *)
RunLoop ==
    /\ RGoto("loop", IF alive THEN "head" ELSE "done")
    /\ rexpired' = FALSE
    /\ UNCHANGED <<wpos, entry, buf, rexpected, alive, consumed, delivered, writerVars,
                   sharedVars, calls, published>>

(* Load write_pos; a published header or wait_wake.                         *)
ReadHead ==
    /\ RGoto("head", IF write_pos - read_pos >= 1 THEN "header" ELSE "check")
    /\ wpos' = write_pos
    /\ UNCHANGED <<entry, buf, rexpected, rexpired, alive, consumed, delivered,
                   writerVars, sharedVars, calls, published>>

(* The entry size the unit at read_pos announces: the size of the message   *)
(* that starts there, or whatever bytes are found in a message's payload.   *)
Announced ==
    LET c == ring[Slot(read_pos)] IN
    IF c.k = 0 THEN {c.m.size} ELSE 1..(wpos - read_pos + 1)

(* Faulty variant: the length is believed without comparing it with wpos.   *)
ReadHeader_Unchecked ==
    \E e \in Announced :
        /\ entry' = e
        /\ RGoto("header", "copy")
        /\ buf' = <<>>
        /\ UNCHANGED <<wpos, rexpected, rexpired, alive, consumed, delivered,
                       writerVars, sharedVars, calls, published>>

(* Read the length; an entry that goes beyond wpos makes Read return false. *)
ReadHeader ==
    \E e \in Announced :
        /\ entry' = e
        /\ RGoto("header", IF wpos - read_pos < e THEN "loop" ELSE "copy")
        /\ buf' = <<>>
        /\ UNCHANGED <<wpos, rexpected, rexpired, alive, consumed, delivered, writerVars,
                       sharedVars, calls, published>>

(* memcpy to out, at most max units.                                        *)
ReadCopy ==
    /\ Len(buf) < entry /\ Len(buf) < MaxEntry
    /\ RGoto("copy", "copy")
    /\ buf' = Append(buf, ring[Slot(read_pos + Len(buf))])
    /\ UNCHANGED <<wpos, entry, rexpected, rexpired, alive, consumed, delivered,
                   writerVars, sharedVars, calls, published>>

(* Advance the cursor and publish it.                                       *)
ReadAdvance ==
    /\ Len(buf) >= entry \/ Len(buf) >= MaxEntry
    /\ RGoto("copy", "bump")
    /\ read_pos' = read_pos + entry
    /\ consumed' = consumed + 1
    /\ UNCHANGED <<wpos, entry, buf, rexpected, rexpired, alive, delivered,
                   writerVars, write_pos, wake_word, drain_word, write_lock,
                   ring, calls, published>>

ReadBump ==
    /\ RGoto("bump", "wake")
    /\ drain_word' = drain_word + 1
    /\ UNCHANGED <<wpos, entry, buf, rexpected, rexpired, alive, consumed, delivered,
                   writerVars, write_pos, read_pos, wake_word, write_lock,
                   ring, calls, published>>

(* FUTEX_WAKE on drain_word, return, and run() hands the message to         *)
(* OnDataReceived unless it is longer than the buffer.                      *)
ReadWake ==
    /\ RGoto("wake", "loop")
    /\ wpc' = [w \in Writers |-> IF wpc[w] = "sleep" THEN "check" ELSE wpc[w]]
    /\ delivered' = IF entry > MaxEntry THEN delivered
                                        ELSE Append(delivered, buf)
    /\ buf' = <<>> /\ entry' = 0 /\ wpos' = 0
    /\ UNCHANGED <<rexpected, rexpired, alive, consumed, msg, copied,
                   wexpected, wexpired, outcome, sharedVars, calls, published>>

(* wait_wake: test write_pos ...                                            *)
WakeCheck ==
    /\ RGoto("check", IF write_pos > read_pos THEN "head" ELSE "arm")
    /\ UNCHANGED <<wpos, entry, buf, rexpected, rexpired, alive, consumed, delivered,
                   writerVars, sharedVars, calls, published>>

(* ... then the deadline: Read returns false and run() starts over ...      *)
WakeTimeout ==
    /\ rexpired
    /\ RGoto("arm", "loop")
    /\ UNCHANGED <<wpos, entry, buf, rexpected, rexpired, alive, consumed, delivered,
                   writerVars, sharedVars, calls, published>>

(* ... or load wake_word ...                                                *)
WakeArm ==
    /\ ~rexpired
    /\ RGoto("arm", "futex")
    /\ rexpected' = wake_word
    /\ UNCHANGED <<wpos, entry, buf, rexpired, alive, consumed, delivered, writerVars,
                   sharedVars, calls, published>>

(* ... and FUTEX_WAIT on it.                                                *)
WakeFutex ==
    /\ RGoto("futex", IF wake_word = rexpected THEN "sleep" ELSE "check")
    /\ rexpected' = 0
    /\ UNCHANGED <<wpos, entry, buf, rexpired, alive, consumed, delivered,
                   writerVars, sharedVars, calls, published>>

(* Faulty variant: FUTEX_WAIT is called without a timeout.                  *)
WakeFutexTimeout_Never == FALSE /\ UNCHANGED vars

WakeFutexTimeout ==
    /\ rexpired
    /\ RGoto("sleep", "check")
    /\ UNCHANGED <<wpos, entry, buf, rexpected, rexpired, alive, consumed, delivered,
                   writerVars, sharedVars, calls, published>>

(* The clock passes the 200 ms of the current Read.                         *)
ReaderDeadline ==
    /\ rpc # "done" /\ ~rexpired
    /\ rexpired' = TRUE
    /\ UNCHANGED <<rpc, wpos, entry, buf, rexpected, alive, consumed, delivered,
                   writerVars, sharedVars, calls, published>>

(* BucketChannelResource::stop clears alive_ and joins the thread.          *)
StopChannel ==
    /\ alive
    /\ alive' = FALSE
    /\ UNCHANGED <<rpc, wpos, entry, buf, rexpected, rexpired, consumed, delivered,
                   writerVars, sharedVars, calls, published>>

-----------------------------------------------------------------------------
WriterStep(w) ==
    \/ WriteLock(w) \/ DrainCheck(w) \/ DrainTimeout(w) \/ DrainArm(w)
    \/ DrainFutex(w) \/ DrainFutexTimeout(w) \/ WriteCopy(w)
    \/ WritePublish(w) \/ WriteBump(w) \/ WriteWake(w) \/ WriteUnlock(w)

ReaderStep ==
    \/ RunLoop \/ ReadHead \/ ReadHeader \/ ReadCopy \/ ReadAdvance
    \/ ReadBump \/ ReadWake \/ WakeCheck \/ WakeTimeout \/ WakeArm
    \/ WakeFutex \/ WakeFutexTimeout

Next ==
    \/ \E w \in Writers : \/ \E size \in Sizes : WriteBegin(w, size)
                          \/ WriterStep(w)
                          \/ WriterCrash(w)
                          \/ WriterDeadline(w)
    \/ ReaderStep
    \/ ReaderDeadline
    \/ StopChannel

Spec == Init /\ [][Next]_vars

(* Threads that can run do run, and clocks advance.  Nothing obliges a      *)
(* caller to write, a process to crash or a channel to stop.                *)
Fairness ==
    /\ WF_vars(ReaderStep)
    /\ WF_vars(ReaderDeadline)
    /\ \A w \in Writers : WF_vars(WriterStep(w)) /\ WF_vars(WriterDeadline(w))

FairSpec == Spec /\ Fairness

-----------------------------------------------------------------------------
(* Properties.                                                              *)

(* Every variable has its type; in particular no writer copies more than a  *)
(* ring's worth of units and Read never stores more than max units in the   *)
(* caller's buffer, however long the entry it finds.                        *)
TypeOK ==
    /\ write_pos \in Nat /\ read_pos \in Nat
    /\ wake_word \in Nat /\ drain_word \in Nat
    /\ write_lock \in Writers \cup {"free", "ownerdead"}
    /\ ring \in [0..(Capacity - 1) -> Cells]
    /\ wpc \in [Writers -> WriterPc]
    /\ msg \in [Writers -> Messages \cup {NoMsg}]
    /\ copied \in [Writers -> 0..Capacity]
    /\ wexpected \in [Writers -> Nat]
    /\ wexpired \in [Writers -> BOOLEAN]
    /\ outcome \in [1..MaxMsgs -> {"none", "true", "false"}]
    /\ rpc \in ReaderPc
    /\ wpos \in Nat /\ entry \in Nat /\ buf \in Seq(Cells)
    /\ Len(buf) <= MaxEntry
    /\ rexpected \in Nat /\ rexpired \in BOOLEAN /\ alive \in BOOLEAN
    /\ calls \in 0..MaxMsgs
    /\ published \in Seq(Messages) /\ consumed \in Nat
    /\ delivered \in Seq(Seq(Cells))

(* Write's wait for room works: the units a writer has put into the ring    *)
(* never reach round to a unit the reader has yet to consume.               *)
NoOverwrite ==
    /\ write_pos - read_pos <= Capacity
    /\ \A w \in Writers : wpc[w] = "copy" =>
                             write_pos + copied[w] - read_pos <= Capacity

(* Whatever length the reader finds in the ring, even the bytes of an       *)
(* overwritten entry, its cursor never passes what writers have published,  *)
(* and what it is about to consume was published when it looked.            *)
ReaderBehind ==
    /\ read_pos <= write_pos
    /\ rpc = "copy" => read_pos + entry <= wpos /\ wpos <= write_pos

(* The result of Write tells the caller the truth: true exactly for a       *)
(* message that was published, once; false for one that never is.  (A       *)
(* crashed call returns nothing.)                                           *)
ReturnIsTruth ==
    \A i \in 1..MaxMsgs :
        LET at == {j \in 1..Len(published) : published[j].id = i} IN
        /\ \A j1, j2 \in at : j1 = j2
        /\ outcome[i] = "true"  => at # {}
        /\ outcome[i] = "false" => at = {}

(* No wake-up is lost: while a published entry is unread and no writer is   *)
(* still on its way to FUTEX_WAKE, the reader is not asleep.                *)
NoLostWakeup ==
    ~ /\ rpc = "sleep"
      /\ write_pos > read_pos
      /\ \A w \in Writers : wpc[w] \notin {"bump", "wake"}

(* The bucket implements the bounded queue.                                 *)
Fifo == INSTANCE BoundedFifo
    WITH Values <- {CellsOf(m) : m \in Messages},
         queue  <- [i \in 1..(Len(published) - consumed) |->
                        CellsOf(published[consumed + i])],
         used   <- write_pos - read_pos,
         hand   <- IF rpc \in {"bump", "wake"} /\ entry <= MaxEntry
                     THEN <<buf>> ELSE <<>>,
         out    <- delivered

(* Messages come out whole, once and in the order of publication, and the   *)
(* ring never holds more than its capacity.                                 *)
RefinesFifo == Fifo!Spec

(* Every published message is handed to the receiver, unless the channel is *)
(* stopped: neither a lost wake-up nor a crash between publishing and       *)
(* waking strands it, because every sleep ends at a deadline.               *)
AllDelivered ==
    \A n \in 1..MaxMsgs : Len(published) >= n ~> (Len(delivered) >= n \/ ~alive)

(* Every Write returns unless its process crashes, even if the writer that  *)
(* holds the mutex crashes or waits for room that never comes.              *)
WriteReturns ==
    \A w \in Writers : wpc[w] # "idle" ~> wpc[w] \in {"idle", "crashed"}

(* The join in BucketChannelResource::stop ends: once alive_ is cleared the *)
(* receive thread leaves run().                                             *)
StopJoins == ~alive ~> rpc = "done"
=============================================================================
