------------------------ MODULE BucketSegmentProofs ------------------------
(***************************************************************************)
(* Theorems about the bucket for every set of writers, every capacity and  *)
(* every number of messages.                                               *)
(***************************************************************************)
EXTENDS BucketSegment, SequenceTheorems, TLAPS

(* Stages of a Write in which its message is fixed, and those in which the  *)
(* write mutex is held.                                                     *)
InWrite  == WriterPc \ {"idle", "crashed"}
Critical == InWrite \ {"lock"}

(* The message of a pending Write fits the ring, and the copy stays inside. *)
MsgInv ==
    \A w \in Writers :
        /\ wpc[w] \in InWrite => /\ msg[w] \in Messages
                                 /\ msg[w].size <= Capacity
                                 /\ copied[w] <= msg[w].size
        /\ wpc[w] \notin {"copy", "bump", "wake", "unlock"} => copied[w] = 0

(* A position of the stream falls on a slot of the ring (pos % capacity_).  *)
LEMMA SlotType ==
    ASSUME NEW p \in Nat
    PROVE  Slot(p) \in 0..(Capacity - 1)
  BY BucketAssumption DEF Slot

(* What the type of a message says of its parts, which the actions of Write *)
(* and Read take apart.                                                     *)
LEMMA MessageType ==
    ASSUME NEW m \in Messages \cup {NoMsg}
    PROVE  m.size \in Nat \ {0}
  <1>1. CASE m \in Messages
    BY <1>1, BucketAssumption DEF Messages
  <1>2. CASE m = NoMsg
    BY <1>2 DEF NoMsg
  <1> QED
    BY <1>1, <1>2

(* The type invariant and the invariant of the pending message.             *)
LEMMA InitType == Init => TypeOK /\ MsgInv
  <1> SUFFICES ASSUME Init PROVE TypeOK /\ MsgInv
    OBVIOUS
  <1> USE BucketAssumption
  <1>1. Zero \in Cells
    BY DEF Zero, Cells
  <1>2. wpc \in [Writers -> WriterPc] /\ rpc \in ReaderPc
    BY DEF Init, WriterPc, ReaderPc
  <1>3. /\ ring \in [0..(Capacity - 1) -> Cells]
        /\ msg \in [Writers -> Messages \cup {NoMsg}]
    BY <1>1 DEF Init
  <1>4. buf \in Seq(Cells) /\ Len(buf) <= MaxEntry
    BY DEF Init
  <1>5. published \in Seq(Messages) /\ delivered \in Seq(Seq(Cells))
    BY DEF Init
  <1>6. /\ outcome \in [1..MaxMsgs -> {"none", "true", "false"}]
        /\ wexpired \in [Writers -> BOOLEAN]
    BY DEF Init
  <1>8. rexpired \in BOOLEAN /\ alive \in BOOLEAN
    BY Zenon DEF Init
  <1>9. /\ copied \in [Writers -> 0..Capacity]
        /\ wexpected \in [Writers -> Nat]
    BY DEF Init
  <1>7. TypeOK
    BY <1>1, <1>2, <1>3, <1>4, <1>5, <1>6, <1>8, <1>9 DEF Init, TypeOK
  <1> QED
    BY <1>7 DEF Init, MsgInv, InWrite

(* Every step keeps both; one case per action.                              *)
LEMMA StepType == TypeOK /\ MsgInv /\ [Next]_vars => TypeOK' /\ MsgInv'
  <1> SUFFICES ASSUME TypeOK, MsgInv, [Next]_vars
               PROVE  TypeOK' /\ MsgInv'
    OBVIOUS
  <1> USE BucketAssumption DEF TypeOK, MsgInv, InWrite, WriterPc, ReaderPc, writerVars, readerVars, sharedVars
  <1>b. ASSUME NEW w \in Writers, NEW size \in Sizes, WriteBegin(w, size)
        PROVE  TypeOK' /\ MsgInv'
    <2>1. calls + 1 \in 1..MaxMsgs
      BY <1>b DEF WriteBegin
    <2>2. [id |-> calls + 1, size |-> size] \in Messages
      BY <2>1 DEF Messages
    <2>3. CASE size > Capacity
      <3>1. outcome' \in [1..MaxMsgs -> {"none", "true", "false"}]
        BY <1>b, <2>3 DEF WriteBegin
      <3>2. calls' \in 0..MaxMsgs
        BY <1>b, <2>1 DEF WriteBegin
      <3> QED
        BY <1>b, <2>3, <3>1, <3>2 DEF WriteBegin
    <2>4. CASE ~(size > Capacity)
      <3>1. calls' \in 0..MaxMsgs /\ size <= Capacity /\ size \in Nat
        BY <1>b, <2>1, <2>4 DEF WriteBegin
      <3>2. msg' \in [Writers -> Messages \cup {NoMsg}]
        <4>1. /\ msg \in [Writers -> Messages \cup {NoMsg}]
              /\ msg' = [msg EXCEPT ![w] = [id |-> calls + 1, size |-> size]]
          BY <1>b, <2>4 DEF WriteBegin
        <4> QED
          BY ONLY <1>b, <2>2, <4>1
      <3>3. TypeOK'
        BY <1>b, <2>4, <3>1, <3>2 DEF WriteBegin
      <3>4. msg'[w] \in Messages /\ msg'[w].size = size
        BY <1>b, <2>2, <2>4 DEF WriteBegin
      <3>5. /\ wpc'[w] = "lock" /\ copied'[w] = 0
            /\ copied' = copied
            /\ \A v \in Writers \ {w} : wpc'[v] = wpc[v] /\ msg'[v] = msg[v]
        BY <1>b, <2>4 DEF WriteBegin
      <3>6. MsgInv'
        <4>1. ASSUME NEW v \in Writers \ {w}
              PROVE  /\ wpc'[v] \in InWrite => /\ msg'[v] \in Messages
                                               /\ msg'[v].size <= Capacity
                                               /\ copied'[v] <= msg'[v].size
                     /\ wpc'[v] \notin {"copy", "bump", "wake", "unlock"} => copied'[v] = 0
          BY <3>5
        <4>2. copied'[w] <= msg'[w].size
          BY <3>1, <3>4, <3>5
        <4> QED
          BY <3>1, <3>4, <3>5, <4>1, <4>2
      <3> QED
        BY <3>3, <3>6
    <2> QED
      BY <2>3, <2>4
  <1>w1. ASSUME NEW w \in Writers, WriteLock(w)
        PROVE  TypeOK' /\ MsgInv'
    BY <1>w1 DEF WriteLock, Goto
  <1>w2. ASSUME NEW w \in Writers, DrainCheck(w)
        PROVE  TypeOK' /\ MsgInv'
    BY <1>w2 DEF DrainCheck, Goto
  <1>w3. ASSUME NEW w \in Writers, DrainTimeout(w)
        PROVE  TypeOK' /\ MsgInv'
    BY <1>w3 DEF DrainTimeout, Goto, Return, DropLocals
  <1>w4. ASSUME NEW w \in Writers, DrainArm(w)
        PROVE  TypeOK' /\ MsgInv'
    BY <1>w4 DEF DrainArm, Goto
  <1>w5. ASSUME NEW w \in Writers, DrainFutex(w)
        PROVE  TypeOK' /\ MsgInv'
    BY <1>w5 DEF DrainFutex, Goto
  <1>w6. ASSUME NEW w \in Writers, DrainFutexTimeout(w)
        PROVE  TypeOK' /\ MsgInv'
    BY <1>w6 DEF DrainFutexTimeout, Goto
  <1>w7. ASSUME NEW w \in Writers, WriteCopy(w)
        PROVE  TypeOK' /\ MsgInv'
    <2>1. [m |-> msg[w], k |-> copied[w]] \in Cells
      BY DEF Cells
    <2>2. ring' \in [0..(Capacity - 1) -> Cells]
      BY <1>w7, <2>1 DEF WriteCopy
    <2>3. copied'[w] <= msg[w].size /\ copied' \in [Writers -> 0..Capacity]
      <3>1. msg[w].size \in Nat /\ msg[w].size <= Capacity
        BY <1>w7, MessageType DEF WriteCopy, Goto
      <3> QED
        BY <1>w7, <3>1 DEF WriteCopy, Goto
    <2> QED
      BY <1>w7, <2>2, <2>3 DEF WriteCopy, Goto
  <1>w8. ASSUME NEW w \in Writers, WritePublish(w)
        PROVE  TypeOK' /\ MsgInv'
    <2>1. msg[w] \in Messages /\ msg[w].size \in Nat
      BY <1>w8, MessageType DEF WritePublish, Goto
    <2>2. published' \in Seq(Messages) /\ write_pos' \in Nat
      BY <1>w8, <2>1 DEF WritePublish
    <2> QED
      BY <1>w8, <2>1, <2>2 DEF WritePublish, Goto
  <1>w9. ASSUME NEW w \in Writers, WriteBump(w)
        PROVE  TypeOK' /\ MsgInv'
    BY <1>w9 DEF WriteBump, Goto
  <1>w10. ASSUME NEW w \in Writers, WriteWake(w)
        PROVE  TypeOK' /\ MsgInv'
    BY <1>w10 DEF WriteWake, Goto
  <1>w11. ASSUME NEW w \in Writers, WriteUnlock(w)
        PROVE  TypeOK' /\ MsgInv'
    <2>1. outcome' \in [1..MaxMsgs -> {"none", "true", "false"}]
      BY <1>w11 DEF WriteUnlock, Return
    <2>2. /\ msg' \in [Writers -> Messages \cup {NoMsg}]
          /\ copied' \in [Writers -> 0..Capacity]
          /\ wexpected' \in [Writers -> Nat]
      BY <1>w11 DEF WriteUnlock, Return, DropLocals
    <2>3. wexpired' \in [Writers -> BOOLEAN]
      BY <1>w11 DEF WriteUnlock, Return, DropLocals
    <2> QED
      BY <1>w11, <2>1, <2>2, <2>3 DEF WriteUnlock, Goto, Return, DropLocals
  <1>w12. ASSUME NEW w \in Writers, WriterCrash(w)
        PROVE  TypeOK' /\ MsgInv'
    BY <1>w12 DEF WriterCrash, Goto, DropLocals
  <1>w13. ASSUME NEW w \in Writers, WriterDeadline(w)
        PROVE  TypeOK' /\ MsgInv'
    BY <1>w13 DEF WriterDeadline, Goto
  <1>r1. CASE RunLoop
    BY <1>r1 DEF RunLoop, RGoto
  <1>r2. CASE ReadHead
    BY <1>r2 DEF ReadHead, RGoto
  <1>r3. CASE ReadHeader
    <2>1. ring[Slot(read_pos)].m \in Messages \cup {NoMsg}
      BY SlotType DEF Cells
    <2>2. Announced \subseteq Nat
      BY <2>1, MessageType DEF Announced
    <2>3. buf' \in Seq(Cells) /\ Len(buf') <= MaxEntry
      BY <1>r3 DEF ReadHeader
    <2> QED
      BY <1>r3, <2>2, <2>3 DEF ReadHeader, RGoto
  <1>r4. CASE ReadCopy
    <2>1. read_pos + Len(buf) \in Nat
      OBVIOUS
    <2>2. ring[Slot(read_pos + Len(buf))] \in Cells
      BY <2>1, SlotType
    <2>3. buf' \in Seq(Cells) /\ Len(buf') <= MaxEntry
      BY <1>r4, <2>2 DEF ReadCopy
    <2> QED
      BY <1>r4, <2>3 DEF ReadCopy, RGoto
  <1>r5. CASE ReadAdvance
    BY <1>r5 DEF ReadAdvance, RGoto
  <1>r6. CASE ReadBump
    BY <1>r6 DEF ReadBump, RGoto
  <1>r7. CASE ReadWake
    BY <1>r7 DEF ReadWake, RGoto
  <1>r8. CASE WakeCheck
    BY <1>r8 DEF WakeCheck, RGoto
  <1>r9. CASE WakeTimeout
    BY <1>r9 DEF WakeTimeout, RGoto
  <1>r10. CASE WakeArm
    BY <1>r10 DEF WakeArm, RGoto
  <1>r11. CASE WakeFutex
    BY <1>r11 DEF WakeFutex, RGoto
  <1>r12. CASE WakeFutexTimeout
    BY <1>r12 DEF WakeFutexTimeout, RGoto
  <1>r13. CASE ReaderDeadline
    BY <1>r13 DEF ReaderDeadline, RGoto
  <1>r14. CASE StopChannel
    BY <1>r14 DEF StopChannel, RGoto
  <1>u. CASE UNCHANGED vars
    BY <1>u DEF vars
  <1> QED
    BY <1>b, <1>w1, <1>w2, <1>w3, <1>w4, <1>w5, <1>w6, <1>w7, <1>w8, <1>w9, <1>w10, <1>w11, <1>w12, <1>w13, <1>r1, <1>r2, <1>r3, <1>r4, <1>r5, <1>r6, <1>r7, <1>r8, <1>r9, <1>r10, <1>r11, <1>r12, <1>r13, <1>r14, <1>u DEF Next, WriterStep, ReaderStep

(* The bucket is type-correct for every capacity, set of writers and set of *)
(* entry sizes: in particular Read never stores more than max units.        *)
THEOREM TypeCorrect == Spec => [](TypeOK /\ MsgInv)
  <1>1. Init => TypeOK /\ MsgInv
    BY InitType
  <1>2. TypeOK /\ MsgInv /\ [Next]_vars => (TypeOK /\ MsgInv)'
    BY StepType
  <1> QED
    BY <1>1, <1>2, PTL DEF Spec

-----------------------------------------------------------------------------
(* The reader's snapshot of write_pos stays behind write_pos, and what the  *)
(* header check let through stays behind the snapshot.                      *)
ReaderInv ==
    /\ read_pos <= write_pos
    /\ rpc \in {"header", "copy"} => read_pos < wpos /\ wpos <= write_pos
    /\ rpc = "copy" => read_pos + entry <= wpos

(* Every step of Write and Read keeps the reader behind what is published;  *)
(* one case per action.                                                     *)
LEMMA StepReader ==
    TypeOK /\ MsgInv /\ ReaderInv /\ [Next]_vars => ReaderInv'
  <1> SUFFICES ASSUME TypeOK, MsgInv, ReaderInv, [Next]_vars
               PROVE  ReaderInv'
    OBVIOUS
  <1> USE DEF ReaderInv, readerVars, sharedVars
  <1>t. /\ write_pos \in Nat /\ read_pos \in Nat /\ wpos \in Nat
        /\ entry \in Nat
    BY DEF TypeOK
  <1>b. ASSUME NEW w \in Writers, NEW size \in Sizes, WriteBegin(w, size)
        PROVE  ReaderInv'
    BY <1>b DEF WriteBegin
  <1>w1. ASSUME NEW w \in Writers, WriteLock(w)
        PROVE  ReaderInv'
    BY <1>w1 DEF WriteLock
  <1>w2. ASSUME NEW w \in Writers, DrainCheck(w)
        PROVE  ReaderInv'
    BY <1>w2 DEF DrainCheck
  <1>w3. ASSUME NEW w \in Writers, DrainTimeout(w)
        PROVE  ReaderInv'
    BY <1>w3 DEF DrainTimeout
  <1>w4. ASSUME NEW w \in Writers, DrainArm(w)
        PROVE  ReaderInv'
    BY <1>w4 DEF DrainArm
  <1>w5. ASSUME NEW w \in Writers, DrainFutex(w)
        PROVE  ReaderInv'
    BY <1>w5 DEF DrainFutex
  <1>w6. ASSUME NEW w \in Writers, DrainFutexTimeout(w)
        PROVE  ReaderInv'
    BY <1>w6 DEF DrainFutexTimeout
  <1>w7. ASSUME NEW w \in Writers, WriteCopy(w)
        PROVE  ReaderInv'
    BY <1>w7 DEF WriteCopy
  <1>w8. ASSUME NEW w \in Writers, WritePublish(w)
        PROVE  ReaderInv'
    <2>1. msg[w].size \in Nat
      BY <1>w8, MessageType DEF WritePublish, Goto, TypeOK
    <2> QED
      BY <1>t, <1>w8, <2>1 DEF WritePublish
  <1>w9. ASSUME NEW w \in Writers, WriteBump(w)
        PROVE  ReaderInv'
    BY <1>w9 DEF WriteBump
  <1>w10. ASSUME NEW w \in Writers, WriteWake(w)
        PROVE  ReaderInv'
    BY <1>w10 DEF WriteWake
  <1>w11. ASSUME NEW w \in Writers, WriteUnlock(w)
        PROVE  ReaderInv'
    BY <1>w11 DEF WriteUnlock
  <1>w12. ASSUME NEW w \in Writers, WriterCrash(w)
        PROVE  ReaderInv'
    BY <1>w12 DEF WriterCrash
  <1>w13. ASSUME NEW w \in Writers, WriterDeadline(w)
        PROVE  ReaderInv'
    BY <1>w13 DEF WriterDeadline
  <1>r1. CASE RunLoop
    BY <1>t, <1>r1 DEF RunLoop, RGoto
  <1>r2. CASE ReadHead
    BY <1>t, <1>r2 DEF ReadHead, RGoto
  <1>r3. CASE ReadHeader
    <2>1. entry' \in Nat
      BY <1>r3, StepType DEF TypeOK
    <2> QED
      BY <1>t, <1>r3, <2>1 DEF ReadHeader, RGoto
  <1>r4. CASE ReadCopy
    BY <1>t, <1>r4 DEF ReadCopy, RGoto
  <1>r5. CASE ReadAdvance
    BY <1>t, <1>r5 DEF ReadAdvance, RGoto
  <1>r6. CASE ReadBump
    BY <1>t, <1>r6 DEF ReadBump, RGoto
  <1>r7. CASE ReadWake
    BY <1>t, <1>r7 DEF ReadWake, RGoto
  <1>r8. CASE WakeCheck
    BY <1>t, <1>r8 DEF WakeCheck, RGoto
  <1>r9. CASE WakeTimeout
    BY <1>t, <1>r9 DEF WakeTimeout, RGoto
  <1>r10. CASE WakeArm
    BY <1>t, <1>r10 DEF WakeArm, RGoto
  <1>r11. CASE WakeFutex
    BY <1>t, <1>r11 DEF WakeFutex, RGoto
  <1>r12. CASE WakeFutexTimeout
    BY <1>t, <1>r12 DEF WakeFutexTimeout, RGoto
  <1>r13. CASE ReaderDeadline
    BY <1>t, <1>r13 DEF ReaderDeadline, RGoto
  <1>r14. CASE StopChannel
    BY <1>t, <1>r14 DEF StopChannel, RGoto
  <1>u. CASE UNCHANGED vars
    BY <1>u DEF vars
  <1> QED
    BY <1>b, <1>w1, <1>w2, <1>w3, <1>w4, <1>w5, <1>w6, <1>w7, <1>w8, <1>w9, <1>w10, <1>w11, <1>w12, <1>w13, <1>r1, <1>r2, <1>r3, <1>r4, <1>r5, <1>r6, <1>r7, <1>r8, <1>r9, <1>r10, <1>r11, <1>r12, <1>r13, <1>r14, <1>u DEF Next, WriterStep, ReaderStep

(* ReaderBehind holds for every mix of entry sizes, although the ring may   *)
(* then be overwritten: the check against wpos is enough.                   *)
THEOREM ReaderStaysBehind == Spec => []ReaderBehind
  <1>1. Init => ReaderInv
    BY DEF Init, ReaderInv
  <1>2. TypeOK /\ MsgInv /\ ReaderInv /\ [Next]_vars => ReaderInv'
    BY StepReader
  <1>3. ReaderInv => ReaderBehind
    BY DEF ReaderInv, ReaderBehind
  <1> QED
    BY <1>1, <1>2, <1>3, TypeCorrect, PTL DEF Spec

-----------------------------------------------------------------------------
(* Uniform entries: every message takes E units and E divides the capacity. *)
Uniform(E, c) ==
    /\ E \in Nat \ {0} /\ c \in Nat \ {0}
    /\ Sizes = {E}
    /\ Capacity = c * E

(* The holder of the mutex is the only writer past the lock.                *)
LockInv == \A w \in Writers : wpc[w] \in Critical => write_lock = w

(* Positions are entry boundaries.                                          *)
Aligned(E) ==
    /\ \E a \in Nat : write_pos = a * E
    /\ \E b \in Nat : read_pos = b * E

IsHeader(E, p) == ring[Slot(p)].k = 0 /\ ring[Slot(p)].m.size = E

(* Every entry boundary below write_pos, and write_pos itself once its      *)
(* first unit is copied, holds the first unit of a message of size E.       *)
HeaderInv(E) ==
    /\ \A b \in Nat : b * E < write_pos => IsHeader(E, b * E)
    /\ \A w \in Writers : wpc[w] = "copy" /\ copied[w] >= 1 =>
                             IsHeader(E, write_pos)

(* The occupied units fit, and a writer past wait_drain has room for E.     *)
RoomInv(E) ==
    /\ write_pos - read_pos <= Capacity
    /\ \A w \in Writers : wpc[w] = "copy" => write_pos + E - read_pos <= Capacity

EntryInv(E) == rpc = "copy" => entry = E

UInv(E) == /\ TypeOK /\ MsgInv /\ ReaderInv
           /\ LockInv /\ Aligned(E) /\ HeaderInv(E) /\ RoomInv(E) /\ EntryInv(E)

(* A unit written at offset i of an entry lands on an entry boundary's slot *)
(* only if it is the entry's first.                                         *)
LEMMA SlotOfEntry ==
    ASSUME NEW E \in Nat, NEW c \in Nat, Uniform(E, c),
           NEW a \in Nat, NEW b \in Nat, NEW i \in 0..(E - 1),
           Slot(a * E + i) = Slot(b * E)
    PROVE  i = 0
  <1> DEFINE x == a * E + i
             y == b * E
             qx == x \div Capacity
             qy == y \div Capacity
  <1>0. E > 0 /\ Capacity \in Nat \ {0} /\ Capacity = c * E
    BY BucketAssumption DEF Uniform
  <1>1. x \in Nat /\ y \in Nat
    BY <1>0
  <1>2. x = qx * Capacity + Slot(x) /\ y = qy * Capacity + Slot(y)
    BY <1>0, <1>1 DEF Slot
  <1>3. qx \in Int /\ qy \in Int
    BY <1>0, <1>1
  <1> HIDE DEF qx, qy
  <1>4. x - y = (qx - qy) * Capacity
    <2>1. Slot(x) \in Int /\ Slot(y) = Slot(x)
      BY <1>0, <1>1 DEF Slot
    <2> HIDE DEF x, y
    <2> QED
      BY <1>0, <1>1, <1>2, <1>3, <2>1
  <1> DEFINE d == b - a + (qx - qy) * c
  <1>5. d \in Int /\ i = d * E
    BY <1>0, <1>3, <1>4
  <1> HIDE DEF d
  <1>6. d <= 0
    BY <1>0, <1>5
  <1>7. d >= 0
    BY <1>0, <1>5
  <1> QED
    BY <1>5, <1>6, <1>7

(* Two multiples of E differ by less than a capacity that is a multiple of  *)
(* E only if they differ by E less.                                         *)
LEMMA RoomForOne ==
    ASSUME NEW E \in Nat, NEW c \in Nat, Uniform(E, c),
           NEW a \in Nat, NEW b \in Nat,
           a * E - b * E < Capacity
    PROVE  a * E + E - b * E <= Capacity
  <1> DEFINE d == c - a + b
  <1>1. d \in Int /\ d * E > 0 /\ E > 0
    BY DEF Uniform
  <1>2. d >= 1
    <2> HIDE DEF d
    <2> QED
      BY <1>1
  <1>3. (d - 1) * E >= 0
    BY <1>1, <1>2
  <1> QED
    BY <1>3 DEF Uniform

(* The process-shared mutex excludes: at most one writer is between locking *)
(* and unlocking it, crashes included; one case per action.                 *)
LEMMA StepLock == TypeOK /\ LockInv /\ [Next]_vars => LockInv'
  <1> SUFFICES ASSUME TypeOK, LockInv, [Next]_vars
               PROVE  LockInv'
    OBVIOUS
  <1> USE DEF LockInv, Critical, InWrite, WriterPc, sharedVars, writerVars, Goto
  <1>t. wpc \in [Writers -> WriterPc]
    BY DEF TypeOK
  <1>b. ASSUME NEW w \in Writers, NEW size \in Sizes, WriteBegin(w, size)
        PROVE  LockInv'
    BY <1>t, <1>b DEF WriteBegin
  <1>w1. ASSUME NEW w \in Writers, WriteLock(w)
        PROVE  LockInv'
    BY <1>t, <1>w1, BucketAssumption DEF WriteLock
  <1>w2. ASSUME NEW w \in Writers, DrainCheck(w)
        PROVE  LockInv'
    BY <1>t, <1>w2, BucketAssumption DEF DrainCheck
  <1>w3. ASSUME NEW w \in Writers, DrainTimeout(w)
        PROVE  LockInv'
    BY <1>t, <1>w3, BucketAssumption DEF DrainTimeout, Return
  <1>w4. ASSUME NEW w \in Writers, DrainArm(w)
        PROVE  LockInv'
    BY <1>t, <1>w4, BucketAssumption DEF DrainArm
  <1>w5. ASSUME NEW w \in Writers, DrainFutex(w)
        PROVE  LockInv'
    BY <1>t, <1>w5, BucketAssumption DEF DrainFutex
  <1>w6. ASSUME NEW w \in Writers, DrainFutexTimeout(w)
        PROVE  LockInv'
    BY <1>t, <1>w6, BucketAssumption DEF DrainFutexTimeout
  <1>w7. ASSUME NEW w \in Writers, WriteCopy(w)
        PROVE  LockInv'
    BY <1>t, <1>w7, BucketAssumption DEF WriteCopy
  <1>w8. ASSUME NEW w \in Writers, WritePublish(w)
        PROVE  LockInv'
    BY <1>t, <1>w8, BucketAssumption DEF WritePublish
  <1>w9. ASSUME NEW w \in Writers, WriteBump(w)
        PROVE  LockInv'
    BY <1>t, <1>w9, BucketAssumption DEF WriteBump
  <1>w10. ASSUME NEW w \in Writers, WriteWake(w)
        PROVE  LockInv'
    BY <1>t, <1>w10, BucketAssumption DEF WriteWake
  <1>w11. ASSUME NEW w \in Writers, WriteUnlock(w)
        PROVE  LockInv'
    BY <1>t, <1>w11, BucketAssumption DEF WriteUnlock, Return
  <1>w12. ASSUME NEW w \in Writers, WriterCrash(w)
        PROVE  LockInv'
    BY <1>t, <1>w12, BucketAssumption DEF WriterCrash
  <1>w13. ASSUME NEW w \in Writers, WriterDeadline(w)
        PROVE  LockInv'
    BY <1>t, <1>w13, BucketAssumption DEF WriterDeadline
  <1>r1. CASE RunLoop
    BY <1>t, <1>r1 DEF RunLoop
  <1>r2. CASE ReadHead
    BY <1>t, <1>r2 DEF ReadHead
  <1>r3. CASE ReadHeader
    BY <1>t, <1>r3 DEF ReadHeader
  <1>r4. CASE ReadCopy
    BY <1>t, <1>r4 DEF ReadCopy
  <1>r5. CASE ReadAdvance
    BY <1>t, <1>r5 DEF ReadAdvance
  <1>r6. CASE ReadBump
    BY <1>t, <1>r6 DEF ReadBump
  <1>r7. CASE ReadWake
    BY <1>t, <1>r7 DEF ReadWake
  <1>r8. CASE WakeCheck
    BY <1>t, <1>r8 DEF WakeCheck
  <1>r9. CASE WakeTimeout
    BY <1>t, <1>r9 DEF WakeTimeout
  <1>r10. CASE WakeArm
    BY <1>t, <1>r10 DEF WakeArm
  <1>r11. CASE WakeFutex
    BY <1>t, <1>r11 DEF WakeFutex
  <1>r12. CASE WakeFutexTimeout
    BY <1>t, <1>r12 DEF WakeFutexTimeout
  <1>r13. CASE ReaderDeadline
    BY <1>t, <1>r13 DEF ReaderDeadline
  <1>r14. CASE StopChannel
    BY <1>t, <1>r14 DEF StopChannel
  <1>u. CASE UNCHANGED vars
    BY <1>u DEF vars
  <1> QED
    BY <1>b, <1>w1, <1>w2, <1>w3, <1>w4, <1>w5, <1>w6, <1>w7, <1>w8, <1>w9, <1>w10, <1>w11, <1>w12, <1>w13, <1>r1, <1>r2, <1>r3, <1>r4, <1>r5, <1>r6, <1>r7, <1>r8, <1>r9, <1>r10, <1>r11, <1>r12, <1>r13, <1>r14, <1>u DEF Next, WriterStep, ReaderStep

(* The parts of the invariant that only few actions can disturb.            *)
RingInv(E) == Aligned(E) /\ HeaderInv(E) /\ RoomInv(E) /\ EntryInv(E)

Frame ==
    /\ write_pos' = write_pos /\ read_pos' = read_pos /\ ring' = ring
    /\ \A w \in Writers : wpc'[w] = "copy" => wpc[w] = "copy" /\ copied'[w] = copied[w]
    /\ rpc' = "copy" => rpc = "copy" /\ entry' = entry

(* A step that touches neither the ring nor the positions keeps what the    *)
(* invariant says of them.                                                  *)
LEMMA FrameKeeps ==
    ASSUME NEW E, RingInv(E), Frame
    PROVE  RingInv(E)'
  BY DEF RingInv, Frame, Aligned, HeaderInv, RoomInv, EntryInv, IsHeader, Slot

(* Every step of Write and Read keeps the inductive invariant of a ring with *)
(* entries of one size; one case per action.                                 *)
LEMMA StepRing ==
    ASSUME NEW E \in Nat, NEW c \in Nat, Uniform(E, c), UInv(E), [Next]_vars
    PROVE  RingInv(E)'
  <1> USE DEF readerVars, sharedVars, writerVars
  <1>t. /\ write_pos \in Nat /\ read_pos \in Nat /\ entry \in Nat
        /\ wpos \in Nat
        /\ wpc \in [Writers -> WriterPc] /\ copied \in [Writers -> Nat]
        /\ ring \in [0..(Capacity - 1) -> Cells]
        /\ rpc \in ReaderPc
    BY DEF UInv, TypeOK
  <1>i. RingInv(E)
    BY DEF UInv, RingInv
  <1>e. E > 0 /\ Capacity \in Nat \ {0}
    BY BucketAssumption DEF Uniform
  <1>a. PICK a \in Nat : write_pos = a * E
    BY <1>i DEF RingInv, Aligned
  <1>r. PICK r \in Nat : read_pos = r * E
    BY <1>i DEF RingInv, Aligned
  <1>m. \A w \in Writers : wpc[w] \in InWrite => msg[w].size = E
    BY DEF UInv, MsgInv, Messages, Uniform
  <1>b. ASSUME NEW w \in Writers, NEW size \in Sizes, WriteBegin(w, size)
        PROVE  RingInv(E)'
    <2>1. Frame
      BY <1>t, <1>b DEF WriteBegin, Frame
    <2> QED
      BY <1>i, <2>1, FrameKeeps
  <1>w1. ASSUME NEW w \in Writers, WriteLock(w)
        PROVE  RingInv(E)'
    <2>1. Frame
      BY <1>t, <1>w1 DEF WriteLock, Goto, Frame
    <2> QED
      BY <1>i, <2>1, FrameKeeps
  <1>w2. ASSUME NEW w \in Writers, DrainCheck(w)
        PROVE  RingInv(E)'
    <2>1. CASE ~HasRoom
      <3>1. Frame
        BY <1>t, <1>w2, <2>1 DEF DrainCheck, Goto, Frame
      <3> QED
        BY <1>i, <3>1, FrameKeeps
    <2>2. CASE HasRoom
      <3> DEFINE free == Capacity - (write_pos - read_pos)
      <3>1. free \in 0..Capacity
        BY <1>t, <1>e, <1>i DEF RingInv, RoomInv, UInv, ReaderInv
      <3>2. free % WordMod = free
        BY <3>1, BucketAssumption
      <3>3. a * E - r * E < Capacity
        BY <1>a, <1>r, <1>t, <1>e, <2>2, <3>2 DEF HasRoom
      <3>4. write_pos + E - read_pos <= Capacity
        BY <3>3, <1>a, <1>r, RoomForOne
      <3>5. copied[w] = 0 /\ copied' = copied
        BY <1>w2 DEF DrainCheck, Goto, UInv, MsgInv
      <3>6. /\ write_pos' = write_pos /\ read_pos' = read_pos /\ ring' = ring
            /\ rpc' = rpc /\ entry' = entry
            /\ \A v \in Writers \ {w} : wpc'[v] = wpc[v]
        BY <1>t, <1>w2 DEF DrainCheck, Goto
      <3>7. HeaderInv(E)'
        BY <1>i, <3>5, <3>6 DEF RingInv, HeaderInv, IsHeader, Slot
      <3>8. RoomInv(E)'
        BY <1>i, <3>4, <3>6 DEF RingInv, RoomInv
      <3> QED
        BY <1>i, <3>6, <3>7, <3>8 DEF RingInv, Aligned, EntryInv
    <2> QED
      BY <2>1, <2>2
  <1>w3. ASSUME NEW w \in Writers, DrainTimeout(w)
        PROVE  RingInv(E)'
    <2>1. Frame
      BY <1>t, <1>w3 DEF DrainTimeout, Goto, Frame, Return, DropLocals
    <2> QED
      BY <1>i, <2>1, FrameKeeps
  <1>w4. ASSUME NEW w \in Writers, DrainArm(w)
        PROVE  RingInv(E)'
    <2>1. Frame
      BY <1>t, <1>w4 DEF DrainArm, Goto, Frame
    <2> QED
      BY <1>i, <2>1, FrameKeeps
  <1>w5. ASSUME NEW w \in Writers, DrainFutex(w)
        PROVE  RingInv(E)'
    <2>1. Frame
      BY <1>t, <1>w5 DEF DrainFutex, Goto, Frame
    <2> QED
      BY <1>i, <2>1, FrameKeeps
  <1>w6. ASSUME NEW w \in Writers, DrainFutexTimeout(w)
        PROVE  RingInv(E)'
    <2>1. Frame
      BY <1>t, <1>w6 DEF DrainFutexTimeout, Goto, Frame
    <2> QED
      BY <1>i, <2>1, FrameKeeps
  <1>w7. ASSUME NEW w \in Writers, WriteCopy(w)
        PROVE  RingInv(E)'
    <2>1. msg[w].size = E /\ wpc[w] = "copy" /\ copied[w] \in 0..(E - 1)
      BY <1>t, <1>m, <1>w7 DEF WriteCopy, Goto, InWrite, WriterPc
    <2> DEFINE here == Slot(write_pos + copied[w])
    <2>2. here \in 0..(Capacity - 1)
      <3>1. write_pos + copied[w] \in Nat
        BY <1>t, <2>1
      <3> QED
        BY <3>1, SlotType
    <2>3. /\ ring'[here].k = copied[w] /\ ring'[here].m.size = E
          /\ \A s \in 0..(Capacity - 1) : s # here => ring'[s] = ring[s]
      BY <1>t, <1>w7, <2>1, <2>2 DEF WriteCopy
    <2>4. ASSUME NEW b \in Nat, IsHeader(E, b * E)
          PROVE  IsHeader(E, b * E)'
      <3>1. CASE Slot(b * E) = here
        <4>1. copied[w] = 0
          BY <1>a, <2>1, <3>1, SlotOfEntry
        <4> QED
          BY <2>3, <3>1, <4>1 DEF IsHeader, Slot
      <3>2. CASE Slot(b * E) # here
        <4>1. b * E \in Nat
          OBVIOUS
        <4>2. Slot(b * E) \in 0..(Capacity - 1)
          BY <4>1, SlotType
        <4> QED
          BY <2>3, <2>4, <3>2, <4>2 DEF IsHeader, Slot
      <3> QED
        BY <3>1, <3>2
    <2>5. IsHeader(E, write_pos)'
      <3>1. CASE copied[w] = 0
        BY <1>t, <1>w7, <2>3, <3>1 DEF IsHeader, WriteCopy, Slot
      <3>2. CASE copied[w] >= 1
        <4>1. IsHeader(E, a * E)
          BY <1>i, <1>a, <2>1, <3>2 DEF RingInv, HeaderInv
        <4>2. IsHeader(E, a * E)'
          BY <2>4, <4>1
        <4> QED
          BY <1>w7, <1>a, <4>2 DEF WriteCopy, IsHeader, Slot
      <3> QED
        BY <2>1, <3>1, <3>2
    <2>6. /\ write_pos' = write_pos /\ read_pos' = read_pos
          /\ rpc' = rpc /\ entry' = entry /\ wpc' = wpc
      BY <1>t, <1>w7 DEF WriteCopy, Goto
    <2>7. HeaderInv(E)'
      BY <1>i, <2>4, <2>5, <2>6 DEF RingInv, HeaderInv
    <2> QED
      BY <1>i, <2>6, <2>7 DEF RingInv, Aligned, RoomInv, EntryInv
  <1>w8. ASSUME NEW w \in Writers, WritePublish(w)
        PROVE  RingInv(E)'
    <2>1. msg[w].size = E /\ wpc[w] = "copy" /\ copied[w] >= 1
      BY <1>e, <1>m, <1>w8 DEF WritePublish, Goto, InWrite, WriterPc
    <2>2. /\ write_pos' = write_pos + E /\ read_pos' = read_pos /\ ring' = ring
          /\ rpc' = rpc /\ entry' = entry
      BY <1>w8, <2>1 DEF WritePublish
    <2>3. \A v \in Writers : wpc'[v] # "copy"
      BY <1>t, <1>w8, <2>1 DEF WritePublish, Goto, UInv, LockInv, Critical, InWrite, WriterPc
    <2>4. (a + 1) * E = write_pos' /\ a + 1 \in Nat
      BY <1>a, <2>2
    <2>5. ASSUME NEW b \in Nat, b * E < write_pos + E
          PROVE  IsHeader(E, b * E)
      <3>1. CASE b < a
        <4>1. b * E < a * E
          BY <1>e, <3>1
        <4> QED
          BY <1>i, <1>a, <4>1 DEF RingInv, HeaderInv
      <3>2. CASE b = a
        BY <1>i, <1>a, <2>1, <3>2 DEF RingInv, HeaderInv
      <3>3. CASE b > a
        <4>1. b * E >= (a + 1) * E
          BY <1>e, <3>3
        <4> QED
          BY <1>a, <2>5, <4>1
      <3> QED
        BY <3>1, <3>2, <3>3
    <2>6. HeaderInv(E)'
      BY <2>2, <2>3, <2>5 DEF HeaderInv, IsHeader, Slot
    <2>7. RoomInv(E)'
      BY <1>t, <1>e, <1>i, <2>1, <2>2, <2>3 DEF RingInv, RoomInv
    <2>8. Aligned(E)'
      BY <1>r, <2>2, <2>4 DEF Aligned
    <2> QED
      BY <1>i, <2>2, <2>6, <2>7, <2>8 DEF RingInv, EntryInv
  <1>w9. ASSUME NEW w \in Writers, WriteBump(w)
        PROVE  RingInv(E)'
    <2>1. Frame
      BY <1>t, <1>w9 DEF WriteBump, Goto, Frame
    <2> QED
      BY <1>i, <2>1, FrameKeeps
  <1>w10. ASSUME NEW w \in Writers, WriteWake(w)
        PROVE  RingInv(E)'
    <2>1. Frame
      BY <1>t, <1>w10 DEF WriteWake, Goto, Frame
    <2> QED
      BY <1>i, <2>1, FrameKeeps
  <1>w11. ASSUME NEW w \in Writers, WriteUnlock(w)
        PROVE  RingInv(E)'
    <2>1. Frame
      BY <1>t, <1>w11 DEF WriteUnlock, Goto, Frame, Return, DropLocals
    <2> QED
      BY <1>i, <2>1, FrameKeeps
  <1>w12. ASSUME NEW w \in Writers, WriterCrash(w)
        PROVE  RingInv(E)'
    <2>1. Frame
      BY <1>t, <1>w12 DEF WriterCrash, Goto, Frame, DropLocals
    <2> QED
      BY <1>i, <2>1, FrameKeeps
  <1>w13. ASSUME NEW w \in Writers, WriterDeadline(w)
        PROVE  RingInv(E)'
    <2>1. Frame
      BY <1>t, <1>w13 DEF WriterDeadline, Goto, Frame
    <2> QED
      BY <1>i, <2>1, FrameKeeps
  <1>r1. CASE RunLoop
    <2>1. Frame
      BY <1>t, <1>r1 DEF RunLoop, RGoto, Frame
    <2> QED
      BY <1>i, <2>1, FrameKeeps
  <1>r2. CASE ReadHead
    <2>1. Frame
      BY <1>t, <1>r2 DEF ReadHead, RGoto, Frame
    <2> QED
      BY <1>i, <2>1, FrameKeeps
  <1>r3. CASE ReadHeader
    <2>1. IsHeader(E, read_pos)
      <3>1. read_pos < write_pos
        BY <1>t, <1>r3 DEF ReadHeader, RGoto, UInv, ReaderInv
      <3> QED
        BY <1>i, <1>r, <3>1 DEF RingInv, HeaderInv
    <2>2. Announced = {E}
      BY <2>1 DEF Announced, IsHeader
    <2>3. entry' = E
      BY <1>r3, <2>2 DEF ReadHeader
    <2>4. write_pos' = write_pos /\ read_pos' = read_pos /\ ring' = ring
          /\ wpc' = wpc /\ copied' = copied
      BY <1>r3 DEF ReadHeader
    <2> QED
      BY <1>i, <2>3, <2>4 DEF RingInv, Aligned, HeaderInv, RoomInv, EntryInv, IsHeader, Slot
  <1>r4. CASE ReadCopy
    <2>1. Frame
      BY <1>t, <1>r4 DEF ReadCopy, RGoto, Frame
    <2> QED
      BY <1>i, <2>1, FrameKeeps
  <1>r5. CASE ReadAdvance
    <2>1. /\ read_pos' = read_pos + E /\ write_pos' = write_pos /\ ring' = ring
          /\ wpc' = wpc /\ copied' = copied /\ rpc' # "copy"
      BY <1>i, <1>r5 DEF ReadAdvance, RGoto, RingInv, EntryInv
    <2>2. read_pos' = (r + 1) * E /\ r + 1 \in Nat
      BY <1>r, <2>1
    <2>3. Aligned(E)'
      BY <1>a, <2>1, <2>2 DEF Aligned
    <2>4. RoomInv(E)'
      BY <1>t, <1>e, <1>i, <2>1 DEF RingInv, RoomInv
    <2> QED
      BY <1>i, <2>1, <2>3, <2>4 DEF RingInv, HeaderInv, EntryInv, IsHeader, Slot
  <1>r6. CASE ReadBump
    <2>1. Frame
      BY <1>t, <1>r6 DEF ReadBump, RGoto, Frame
    <2> QED
      BY <1>i, <2>1, FrameKeeps
  <1>r7. CASE ReadWake
    <2>1. Frame
      BY <1>t, <1>r7 DEF ReadWake, RGoto, Frame
    <2> QED
      BY <1>i, <2>1, FrameKeeps
  <1>r8. CASE WakeCheck
    <2>1. Frame
      BY <1>t, <1>r8 DEF WakeCheck, RGoto, Frame
    <2> QED
      BY <1>i, <2>1, FrameKeeps
  <1>r9. CASE WakeTimeout
    <2>1. Frame
      BY <1>t, <1>r9 DEF WakeTimeout, RGoto, Frame
    <2> QED
      BY <1>i, <2>1, FrameKeeps
  <1>r10. CASE WakeArm
    <2>1. Frame
      BY <1>t, <1>r10 DEF WakeArm, RGoto, Frame
    <2> QED
      BY <1>i, <2>1, FrameKeeps
  <1>r11. CASE WakeFutex
    <2>1. Frame
      BY <1>t, <1>r11 DEF WakeFutex, RGoto, Frame
    <2> QED
      BY <1>i, <2>1, FrameKeeps
  <1>r12. CASE WakeFutexTimeout
    <2>1. Frame
      BY <1>t, <1>r12 DEF WakeFutexTimeout, RGoto, Frame
    <2> QED
      BY <1>i, <2>1, FrameKeeps
  <1>r13. CASE ReaderDeadline
    <2>1. Frame
      BY <1>t, <1>r13 DEF ReaderDeadline, RGoto, Frame
    <2> QED
      BY <1>i, <2>1, FrameKeeps
  <1>r14. CASE StopChannel
    <2>1. Frame
      BY <1>t, <1>r14 DEF StopChannel, RGoto, Frame
    <2> QED
      BY <1>i, <2>1, FrameKeeps
  <1>u. CASE UNCHANGED vars
    BY <1>i, <1>u, FrameKeeps DEF vars, Frame
  <1> QED
    BY <1>b, <1>w1, <1>w2, <1>w3, <1>w4, <1>w5, <1>w6, <1>w7, <1>w8, <1>w9, <1>w10, <1>w11, <1>w12, <1>w13, <1>r1, <1>r2, <1>r3, <1>r4, <1>r5, <1>r6, <1>r7, <1>r8, <1>r9, <1>r10, <1>r11, <1>r12, <1>r13, <1>r14, <1>u DEF Next, WriterStep, ReaderStep

LEMMA UniformInit ==
  ASSUME NEW E \in Nat, NEW c \in Nat, Uniform(E, c)
  PROVE  Init => UInv(E)
  <1> SUFFICES ASSUME Init PROVE UInv(E)
    OBVIOUS
  <1>1. Aligned(E)
    <2>1. 0 * E = 0
      OBVIOUS
    <2> QED
      BY <2>1 DEF Init, Aligned
  <1>2. HeaderInv(E)
    BY DEF Init, HeaderInv, Uniform
  <1> QED
    BY InitType, <1>1, <1>2, BucketAssumption
       DEF Init, UInv, ReaderInv, LockInv, Critical, InWrite, RoomInv, EntryInv

LEMMA UniformStep ==
  ASSUME NEW E \in Nat, NEW c \in Nat, Uniform(E, c)
  PROVE  UInv(E) /\ [Next]_vars => UInv(E)'
  BY StepType, StepReader, StepLock, StepRing DEF UInv, RingInv

(* With entries of one size that divides the capacity, no unit is ever      *)
(* overwritten before it is read, for any number of writers, messages and   *)
(* crashes.  The divisibility is what makes wait_drain's test for one free  *)
(* unit imply room for a whole entry.                                       *)
THEOREM UniformNoOverwrite ==
    ASSUME NEW CONSTANT E \in Nat, NEW CONSTANT c \in Nat, Uniform(E, c)
    PROVE  Spec => []NoOverwrite
  <1>1. Init => UInv(E)
    BY UniformInit
  <1>2. UInv(E) /\ [Next]_vars => UInv(E)'
    BY UniformStep
  <1>3. UInv(E) => NoOverwrite
    <2> SUFFICES ASSUME UInv(E), NEW w \in Writers, wpc[w] = "copy"
                 PROVE  write_pos + copied[w] - read_pos <= Capacity
      BY DEF UInv, RoomInv, NoOverwrite
    <2>1. copied[w] <= msg[w].size /\ msg[w] \in Messages
      BY DEF UInv, MsgInv, InWrite, WriterPc
    <2>2. msg[w].size = E
      BY <2>1 DEF Messages, Uniform
    <2>3. /\ write_pos \in Nat /\ read_pos \in Nat /\ copied[w] \in Nat
          /\ write_pos + E - read_pos <= Capacity
      BY DEF UInv, TypeOK, RoomInv
    <2> QED
      BY <2>1, <2>2, <2>3, BucketAssumption
  <1> QED
    BY <1>1, <1>2, <1>3, PTL DEF Spec

-----------------------------------------------------------------------------
(* The bucket as a queue.  The j-th message published takes the E units     *)
(* from Start(E, j) on; every one that is unread is in the ring unit by     *)
(* unit, so is what a writer has copied so far, and the reader's buffer     *)
(* holds the first units of the oldest unread message.                      *)
Start(E, j) == (j - 1) * E

Written(cells, m, p, len) == \A k \in 0..(len - 1) : cells[Slot(p + k)] = [m |-> m, k |-> k]

CursorInv(E) ==
    /\ write_pos = Start(E, Len(published) + 1)
    /\ read_pos = Start(E, consumed + 1)

ContentInv(E) ==
    /\ \A j \in (consumed + 1)..Len(published) : Written(ring, published[j], Start(E, j), E)
    /\ \A w \in Writers : wpc[w] = "copy" => Written(ring, msg[w], write_pos, copied[w])

BufferInv ==
    rpc = "copy" =>
        /\ consumed < Len(published) /\ Len(buf) <= entry
        /\ \A i \in 1..Len(buf) : buf[i] = [m |-> published[consumed + 1], k |-> i - 1]

QueueInv(E) == CursorInv(E) /\ ContentInv(E) /\ BufferInv

LEMMA Starts ==
  ASSUME NEW E \in Nat \ {0}, NEW i \in Nat, NEW j \in Nat
  PROVE  /\ Start(E, i + 1) \in Nat
         /\ Start(E, i + 2) = Start(E, i + 1) + E
         /\ i < j => Start(E, i + 1) + E <= Start(E, j + 1)
         /\ Start(E, i + 1) < Start(E, j + 1) => i < j
  <1>1. Start(E, i + 1) = i * E /\ Start(E, j + 1) = j * E /\ Start(E, i + 2) = (i + 1) * E
    BY DEF Start
  <1>2. i * E \in Nat /\ (i + 1) * E = i * E + E
    OBVIOUS
  <1>3. ASSUME NEW x \in Nat, NEW y \in Nat, x < y PROVE x * E + E <= y * E
    <2>1. y - x - 1 \in Nat
      BY <1>3
    <2>2. (y - x - 1) * E >= 0
      BY <2>1
    <2> QED
      BY <2>2
  <1>4. i >= j => i * E >= j * E
    <2>1. CASE j < i
      <3>1. j * E + E <= i * E
        BY <1>3, <2>1
      <3> QED
        BY <1>2, <3>1
    <2> QED
      BY <2>1
  <1>5. i < j => i * E + E <= j * E
    BY <1>3
  <1> DEFINE x == i * E
             y == j * E
  <1>6. x \in Nat /\ y \in Nat /\ (i >= j => x >= y) /\ (i < j => x + E <= y)
    BY <1>4, <1>5
  <1>7. Start(E, i + 1) = x /\ Start(E, j + 1) = y /\ Start(E, i + 2) = x + E
    BY <1>1, <1>2
  <1> HIDE DEF x, y
  <1> QED
    BY <1>6, <1>7

(* Two positions less than a capacity apart have different slots.           *)
LEMMA SlotsApart ==
  ASSUME NEW p \in Nat, NEW q \in Nat, p <= q, q - p < Capacity, Slot(p) = Slot(q)
  PROVE  p = q
  <1>0. Capacity \in Nat \ {0}
    BY BucketAssumption
  <1> DEFINE x == p \div Capacity
             y == q \div Capacity
  <1>1. x \in Int /\ y \in Int /\ Slot(p) \in Int
    BY <1>0 DEF Slot
  <1>2. p = x * Capacity + Slot(p) /\ q = y * Capacity + Slot(q)
    BY <1>0 DEF Slot
  <1> HIDE DEF x, y
  <1>3. q - p = (y - x) * Capacity
    BY <1>0, <1>1, <1>2
  <1>4. y - x \in Int /\ y - x < 1 /\ y - x > -1
    BY <1>0, <1>1, <1>3
  <1>5. y - x = 0
    BY <1>4
  <1>6. q - p = 0
    BY <1>0, <1>3, <1>5
  <1> QED
    BY <1>6

(* A step that touches none of this: a writer about to copy has copied      *)
(* nothing yet, and the reader goes on where it was.                        *)
Quiet ==
    /\ UNCHANGED <<write_pos, read_pos, published, consumed, ring>>
    /\ \A w \in Writers : wpc'[w] = "copy" =>
           \/ copied'[w] = 0
           \/ wpc[w] = "copy" /\ copied'[w] = copied[w] /\ msg'[w] = msg[w]
    /\ rpc' = "copy" => rpc = "copy" /\ UNCHANGED <<buf, entry>>

LEMMA QuietKeeps ==
  ASSUME NEW E, QueueInv(E), Quiet
  PROVE  QueueInv(E)'
  <1>1. CursorInv(E)'
    BY DEF QueueInv, Quiet, CursorInv, Start
  <1>2. BufferInv'
    BY DEF QueueInv, Quiet, BufferInv
  <1>3. \A m, p : Written(ring, m, p, 0)
    BY DEF Written
  <1>4. \A j \in (consumed' + 1)..Len(published') :
            Written(ring', published'[j], Start(E, j), E)
    BY DEF QueueInv, ContentInv, Quiet
  <1>5. ASSUME NEW w \in Writers, wpc'[w] = "copy"
        PROVE  Written(ring', msg'[w], write_pos', copied'[w])
    BY <1>3, <1>5 DEF QueueInv, ContentInv, Quiet
  <1> QED
    BY <1>1, <1>2, <1>4, <1>5 DEF QueueInv, ContentInv

(* What the refinement's variables are made of.                             *)
Held == IF rpc \in {"bump", "wake"} /\ entry <= MaxEntry THEN <<buf>> ELSE <<>>

Unmoved ==
    UNCHANGED <<write_pos, read_pos, published, consumed, delivered, Held>>

LEMMA WriterQuiet ==
  ASSUME TypeOK, MsgInv, NEW w \in Writers,
         \/ WriteLock(w) \/ DrainCheck(w) \/ DrainTimeout(w) \/ DrainArm(w)
         \/ DrainFutex(w) \/ DrainFutexTimeout(w) \/ WriteBump(w) \/ WriteWake(w)
         \/ WriteUnlock(w) \/ WriterCrash(w) \/ WriterDeadline(w)
         \/ \E size \in Sizes : WriteBegin(w, size)
  PROVE  Quiet /\ Unmoved
  <1> USE DEF Quiet, Unmoved, Held, TypeOK, readerVars, sharedVars, Goto
  <1>1. CASE WriteLock(w)
    BY <1>1 DEF WriteLock
  <1>2. CASE DrainCheck(w)
    BY <1>2 DEF DrainCheck, MsgInv
  <1>3. CASE DrainTimeout(w)
    BY <1>3 DEF DrainTimeout, Return, DropLocals
  <1>4. CASE DrainArm(w)
    BY <1>4 DEF DrainArm
  <1>5. CASE DrainFutex(w)
    BY <1>5 DEF DrainFutex
  <1>6. CASE DrainFutexTimeout(w)
    BY <1>6 DEF DrainFutexTimeout
  <1>7. CASE WriteBump(w)
    BY <1>7 DEF WriteBump
  <1>8. CASE WriteWake(w)
    BY <1>8 DEF WriteWake
  <1>9. CASE WriteUnlock(w)
    BY <1>9 DEF WriteUnlock, Return, DropLocals
  <1>10. CASE WriterCrash(w)
    BY <1>10 DEF WriterCrash, DropLocals
  <1>11. CASE WriterDeadline(w)
    BY <1>11 DEF WriterDeadline
  <1>12. ASSUME NEW size \in Sizes, WriteBegin(w, size) PROVE Quiet /\ Unmoved
    BY <1>12 DEF WriteBegin
  <1> QED
    BY <1>1, <1>2, <1>3, <1>4, <1>5, <1>6, <1>7, <1>8, <1>9, <1>10, <1>11, <1>12

LEMMA ReaderQuiet ==
  ASSUME TypeOK,
         \/ RunLoop \/ ReadHead \/ ReadBump \/ WakeCheck \/ WakeTimeout \/ WakeArm
         \/ WakeFutex \/ WakeFutexTimeout \/ ReaderDeadline \/ StopChannel
  PROVE  Quiet /\ Unmoved
  <1> USE DEF Quiet, Unmoved, Held, RGoto, writerVars, sharedVars
  <1>1. CASE RunLoop \/ ReadHead \/ WakeCheck \/ WakeTimeout
    BY <1>1 DEF RunLoop, ReadHead, WakeCheck, WakeTimeout
  <1>2. CASE WakeArm \/ WakeFutex \/ WakeFutexTimeout
    BY <1>2 DEF WakeArm, WakeFutex, WakeFutexTimeout
  <1>3. CASE ReadBump \/ ReaderDeadline \/ StopChannel
    BY <1>3 DEF ReadBump, ReaderDeadline, StopChannel
  <1> QED
    BY <1>1, <1>2, <1>3

(* The facts about an aligned ring that the steps below share.              *)
LEMMA UniformFacts ==
  ASSUME NEW E \in Nat, NEW c \in Nat, Uniform(E, c), UInv(E), QueueInv(E)
  PROVE  /\ E \in Nat \ {0} /\ Capacity \in Nat \ {0}
         /\ published \in Seq(Messages) /\ Len(published) \in Nat /\ consumed \in Nat
         /\ write_pos \in Nat /\ read_pos \in Nat
         /\ write_pos = Start(E, Len(published) + 1) /\ read_pos = Start(E, consumed + 1)
         /\ consumed <= Len(published) /\ (read_pos < write_pos => consumed < Len(published))
         /\ \A m \in Messages : m.size = E
         /\ \A w \in Writers : wpc[w] \in InWrite => msg[w] \in Messages
  <1>1. E \in Nat \ {0} /\ Capacity \in Nat \ {0} /\ \A m \in Messages : m.size = E
    BY BucketAssumption DEF Uniform, Messages
  <1>2. /\ published \in Seq(Messages) /\ Len(published) \in Nat /\ consumed \in Nat
        /\ write_pos \in Nat /\ read_pos \in Nat /\ read_pos <= write_pos
        /\ \A w \in Writers : wpc[w] \in InWrite => msg[w] \in Messages
    BY DEF UInv, TypeOK, ReaderInv, MsgInv
  <1>3. write_pos = Start(E, Len(published) + 1) /\ read_pos = Start(E, consumed + 1)
    BY DEF QueueInv, CursorInv
  <1>4. read_pos < write_pos => consumed < Len(published)
    BY <1>1, <1>2, <1>3, Starts
  <1>5. consumed <= Len(published)
    <2>1. Len(published) < consumed => write_pos + E <= read_pos
      BY <1>1, <1>2, <1>3, Starts
    <2> QED
      BY <1>1, <1>2, <2>1
  <1> QED
    BY <1>1, <1>2, <1>3, <1>4, <1>5

(* copy_in writes beside everything that is unread or copied already.       *)
LEMMA CopyKeepsQueue ==
  ASSUME NEW E \in Nat, NEW c \in Nat, Uniform(E, c), UInv(E), QueueInv(E),
         NEW w \in Writers, WriteCopy(w)
  PROVE  QueueInv(E)'
  <1> DEFINE here == write_pos + copied[w]
             cell == [m |-> msg[w], k |-> copied[w]]
  <1>n. /\ E \in Nat \ {0} /\ Capacity \in Nat \ {0} /\ write_pos \in Nat /\ read_pos \in Nat
        /\ published \in Seq(Messages) /\ Len(published) \in Nat /\ consumed \in Nat
        /\ write_pos = Start(E, Len(published) + 1) /\ read_pos = Start(E, consumed + 1)
        /\ consumed <= Len(published)
    BY UniformFacts
  <1>m. write_pos \in Nat /\ read_pos \in Nat /\ E \in Nat /\ Capacity \in Nat
    BY <1>n
  <1>1. /\ wpc[w] = "copy" /\ wpc' = wpc /\ copied[w] \in 0..(E - 1)
        /\ ring' = [ring EXCEPT ![Slot(here)] = cell]
        /\ copied' = [copied EXCEPT ![w] = copied[w] + 1]
        /\ UNCHANGED <<write_pos, read_pos, published, consumed, msg, rpc, buf, entry>>
    <2>1. /\ wpc[w] = "copy" /\ wpc' = [wpc EXCEPT ![w] = "copy"] /\ copied[w] < msg[w].size
          /\ ring' = [ring EXCEPT ![Slot(here)] = cell]
          /\ copied' = [copied EXCEPT ![w] = copied[w] + 1]
          /\ UNCHANGED <<write_pos, read_pos, published, consumed, msg, rpc, buf, entry>>
      BY DEF WriteCopy, Goto, readerVars
    <2>2. wpc \in [Writers -> WriterPc] /\ copied[w] \in Nat
      BY DEF UInv, TypeOK
    <2>3. wpc' = wpc
      BY ONLY <2>1, <2>2
    <2>4. msg[w].size = E
      <3>1. wpc[w] \in InWrite
        BY <2>1 DEF InWrite, WriterPc
      <3> QED
        BY <3>1, UniformFacts
    <2>5. copied[w] \in 0..(E - 1)
      BY <1>n, <2>1, <2>2, <2>4
    <2> QED
      BY <2>1, <2>3, <2>5
  <1>2. /\ ring \in [0..(Capacity - 1) -> Cells] /\ copied \in [Writers -> 0..Capacity]
        /\ write_pos + E - read_pos <= Capacity /\ read_pos <= write_pos
        /\ \A v \in Writers : wpc[v] = "copy" => v = w
    BY <1>1 DEF UInv, TypeOK, RoomInv, LockInv, ReaderInv, Critical, InWrite, WriterPc
  <1>3. here \in Nat /\ Slot(here) \in 0..(Capacity - 1)
    <2>1. copied[w] \in Nat
      BY <1>n, <1>1
    <2>2. here \in Nat
      BY <1>n, <2>1
    <2> QED
      BY <2>2, SlotType
  <1>4. ring'[Slot(here)] = cell
    BY <1>1, <1>2, <1>3
  <1>5. ASSUME NEW p \in Nat, read_pos <= p, p < here
        PROVE  ring'[Slot(p)] = ring[Slot(p)]
    <2>1. here - p < Capacity
      <3>1. copied[w] \in Nat /\ copied[w] < E
        BY <1>n, <1>1
      <3>2. write_pos + E - read_pos <= Capacity
        BY <1>1, <1>2
      <3> QED
        BY <1>m, <1>5, <3>1, <3>2
    <2>2. Slot(p) # Slot(here) /\ Slot(p) \in 0..(Capacity - 1)
      BY <1>3, <1>5, <2>1, SlotsApart, SlotType
    <2> QED
      BY <1>1, <1>2, <2>2
  <1>6. ASSUME NEW j \in (consumed + 1)..Len(published)
        PROVE  Written(ring', published[j], Start(E, j), E)
    <2>1. /\ j - 1 \in Nat /\ j = (j - 1) + 1 /\ consumed <= j - 1
          /\ j - 1 < Len(published)
      BY <1>n
    <2>2. /\ Start(E, (j - 1) + 1) \in Nat /\ Start(E, (j - 1) + 1) + E <= write_pos
          /\ Start(E, (j - 1) + 1) < read_pos => j - 1 < consumed
      <3> DEFINE i == j - 1
      <3>1. i \in Nat /\ i < Len(published)
        BY <2>1
      <3> HIDE DEF i
      <3>2. /\ Start(E, i + 1) \in Nat /\ Start(E, i + 1) + E <= write_pos
            /\ Start(E, i + 1) < read_pos => i < consumed
        BY <1>n, <3>1, Starts
      <3> QED
        BY <3>2 DEF i
    <2>3. Start(E, j) \in Nat /\ Start(E, j) + E <= write_pos /\ read_pos <= Start(E, j)
      <3>1. (j - 1) + 1 = j
        BY <2>1
      <3> QED
        BY <1>n, <2>1, <2>2, <3>1
    <2>4. ASSUME NEW k \in 0..(E - 1)
          PROVE  ring'[Slot(Start(E, j) + k)] = [m |-> published[j], k |-> k]
      <3>1. /\ Start(E, j) + k \in Nat /\ read_pos <= Start(E, j) + k
            /\ Start(E, j) + k < here
        <4>1. k \in Nat /\ k + 1 <= E /\ copied[w] \in Nat
          BY <1>n, <1>1
        <4> QED
          BY <1>m, <2>3, <4>1
      <3>2. ring[Slot(Start(E, j) + k)] = [m |-> published[j], k |-> k]
        BY DEF QueueInv, ContentInv, Written
      <3> QED
        BY <1>5, <3>1, <3>2
    <2> QED
      BY <2>4 DEF Written
  <1>7. Written(ring', msg[w], write_pos, copied[w] + 1)
    <2>1. ASSUME NEW k \in 0..copied[w]
          PROVE  ring'[Slot(write_pos + k)] = [m |-> msg[w], k |-> k]
      <3>1. CASE k = copied[w]
        BY <1>4, <3>1
      <3>2. CASE k # copied[w]
        <4>1. k \in 0..(copied[w] - 1) /\ write_pos + k \in Nat /\ write_pos + k < here
              /\ read_pos <= write_pos + k
          <5>1. copied[w] \in Nat /\ k \in Nat /\ k <= copied[w]
            BY <1>1
          <5> QED
            BY <1>m, <1>2, <3>2, <5>1
        <4>2. ring[Slot(write_pos + k)] = [m |-> msg[w], k |-> k]
          BY <1>1, <4>1 DEF QueueInv, ContentInv, Written
        <4> QED
          BY <1>5, <4>1, <4>2
      <3> QED
        BY <3>1, <3>2
    <2> QED
      BY <1>1, <2>1 DEF Written
  <1>8. copied'[w] = copied[w] + 1
    BY <1>1, <1>2
  <1> HIDE DEF here, cell
  <1>9. ContentInv(E)'
    BY <1>1, <1>2, <1>6, <1>7, <1>8 DEF ContentInv
  <1>10. CursorInv(E)' /\ BufferInv'
    BY <1>1 DEF QueueInv, CursorInv, BufferInv, Start
  <1> QED
    BY <1>9, <1>10 DEF QueueInv

(* The published message is the newest unread one.                          *)
LEMMA PublishKeepsQueue ==
  ASSUME NEW E \in Nat, NEW c \in Nat, Uniform(E, c), UInv(E), QueueInv(E),
         NEW w \in Writers, WritePublish(w)
  PROVE  QueueInv(E)' /\ msg[w] \in Messages /\ write_pos' = write_pos + E
  <1> DEFINE n == Len(published)
  <1>n. /\ E \in Nat \ {0} /\ write_pos \in Nat /\ read_pos \in Nat
        /\ published \in Seq(Messages) /\ n \in Nat /\ consumed \in Nat
        /\ write_pos = Start(E, n + 1) /\ read_pos = Start(E, consumed + 1)
        /\ consumed <= n
    BY UniformFacts
  <1>1. /\ wpc[w] = "copy" /\ wpc' = [wpc EXCEPT ![w] = "bump"] /\ copied[w] = msg[w].size
        /\ write_pos' = write_pos + msg[w].size /\ published' = Append(published, msg[w])
        /\ UNCHANGED <<read_pos, consumed, msg, copied, ring, rpc, buf, entry>>
    BY DEF WritePublish, Goto, readerVars
  <1>2. msg[w] \in Messages /\ msg[w].size = E
    <2>1. wpc[w] \in InWrite
      BY <1>1 DEF InWrite, WriterPc
    <2> QED
      BY <2>1, UniformFacts
  <1>3. /\ Len(published') = n + 1 /\ published'[n + 1] = msg[w]
        /\ \A j \in 1..n : published'[j] = published[j]
    BY <1>n, <1>1, <1>2, AppendProperties
  <1>4. CursorInv(E)'
    <2>1. Start(E, n + 2) = Start(E, n + 1) + E
      BY <1>n, Starts
    <2>2. Len(published') + 1 = n + 2
      BY <1>n, <1>3
    <2> QED
      BY <1>n, <1>1, <1>2, <2>1, <2>2 DEF CursorInv, Start
  <1>5. ASSUME NEW v \in Writers, wpc'[v] = "copy" PROVE FALSE
    <2>1. v # w /\ wpc[v] = "copy"
      BY <1>1, <1>5 DEF UInv, TypeOK
    <2>2. write_lock = v /\ write_lock = w
      BY <1>1, <2>1 DEF UInv, LockInv, Critical, InWrite, WriterPc
    <2> QED
      BY <2>1, <2>2
  <1>6. ASSUME NEW j \in (consumed' + 1)..Len(published')
        PROVE  Written(ring', published'[j], Start(E, j), E)
    <2>1. CASE j = n + 1
      <3>1. Written(ring, msg[w], write_pos, copied[w])
        BY <1>1 DEF QueueInv, ContentInv
      <3> QED
        BY <1>n, <1>1, <1>2, <1>3, <2>1, <3>1
    <2>2. CASE j # n + 1
      <3>1. j \in (consumed + 1)..n /\ j \in 1..n
        BY <1>n, <1>1, <1>3, <2>2
      <3>2. Written(ring, published[j], Start(E, j), E)
        BY <3>1 DEF QueueInv, ContentInv
      <3> QED
        BY <1>1, <1>3, <3>1, <3>2
    <2> QED
      BY <2>1, <2>2
  <1>7. ContentInv(E)'
    BY <1>5, <1>6 DEF ContentInv
  <1>8. BufferInv'
    <2> SUFFICES ASSUME rpc = "copy" PROVE BufferInv'
      BY <1>1 DEF BufferInv
    <2>1. /\ consumed < n /\ Len(buf) <= entry
          /\ \A i \in 1..Len(buf) : buf[i] = [m |-> published[consumed + 1], k |-> i - 1]
      BY DEF QueueInv, BufferInv
    <2>2. published'[consumed + 1] = published[consumed + 1]
      BY <1>n, <1>3, <2>1
    <2>3. consumed < Len(published')
      BY <1>n, <1>3, <2>1
    <2> QED
      BY <1>1, <2>1, <2>2, <2>3 DEF BufferInv
  <1> QED
    BY <1>1, <1>2, <1>4, <1>7, <1>8 DEF QueueInv

(* Read starts on the oldest unread message with an empty buffer ...        *)
LEMMA HeaderKeepsQueue ==
  ASSUME NEW E \in Nat, NEW c \in Nat, Uniform(E, c), UInv(E), QueueInv(E), ReadHeader
  PROVE  QueueInv(E)' /\ Unmoved
  <1>1. /\ rpc = "header" /\ rpc' \in {"loop", "copy"} /\ buf' = <<>> /\ entry' \in Nat
        /\ UNCHANGED <<write_pos, read_pos, published, consumed, ring, wpc, msg, copied,
                       delivered>>
    <2>1. UInv(E)'
      <3>1. [Next]_vars
        BY DEF Next, ReaderStep
      <3> QED
        BY <3>1, UniformStep
    <2>2. entry' \in Nat
      BY <2>1 DEF UInv, TypeOK
    <2> QED
      BY <2>2 DEF ReadHeader, RGoto, writerVars, sharedVars
  <1>2. consumed < Len(published)
    <2>1. read_pos \in Nat /\ write_pos \in Nat /\ wpos \in Nat /\ read_pos < wpos /\ wpos <= write_pos
      BY <1>1 DEF UInv, TypeOK, ReaderInv
    <2>2. read_pos < write_pos
      BY <2>1
    <2> QED
      BY <2>2, UniformFacts
  <1>3. BufferInv'
    BY <1>1, <1>2 DEF BufferInv
  <1>4. CursorInv(E)' /\ ContentInv(E)'
    BY <1>1 DEF QueueInv, CursorInv, ContentInv, Start
  <1> QED
    BY <1>1, <1>3, <1>4 DEF QueueInv, Unmoved, Held

(* ... fills it with that message's units ...                               *)
LEMMA FillKeepsQueue ==
  ASSUME NEW E \in Nat, NEW c \in Nat, Uniform(E, c), UInv(E), QueueInv(E), ReadCopy
  PROVE  QueueInv(E)' /\ Unmoved
  <1> DEFINE n == Len(buf)
             first == published[consumed + 1]
             cell == ring[Slot(read_pos + n)]
  <1>1. /\ rpc = "copy" /\ rpc' = "copy" /\ n < entry /\ buf' = Append(buf, cell)
        /\ UNCHANGED <<write_pos, read_pos, published, consumed, ring, wpc, msg, copied,
                       delivered, entry>>
    BY DEF ReadCopy, RGoto, writerVars, sharedVars
  <1>2. /\ consumed < Len(published) /\ n \in Nat /\ entry = E /\ read_pos \in Nat
        /\ buf \in Seq(Cells) /\ ring \in [0..(Capacity - 1) -> Cells] /\ E \in Nat
        /\ consumed \in Nat /\ Len(published) \in Nat
        /\ \A i \in 1..n : buf[i] = [m |-> first, k |-> i - 1]
    BY <1>1 DEF UInv, TypeOK, EntryInv, QueueInv, BufferInv
  <1>3. cell = [m |-> first, k |-> n]
    <2>1. consumed + 1 \in (consumed + 1)..Len(published) /\ n \in 0..(E - 1)
      BY <1>1, <1>2
    <2>2. Written(ring, first, Start(E, consumed + 1), E)
      BY <2>1 DEF QueueInv, ContentInv
    <2> QED
      BY <2>1, <2>2 DEF QueueInv, CursorInv, Written
  <1>4. cell \in Cells
    <2>1. read_pos + n \in Nat
      BY <1>2
    <2> QED
      BY <1>2, <2>1, SlotType
  <1>5. /\ Len(buf') = n + 1 /\ buf'[n + 1] = cell
        /\ \A i \in 1..n : buf'[i] = buf[i]
    BY <1>1, <1>2, <1>4, AppendProperties
  <1> HIDE DEF cell
  <1>6. ASSUME NEW i \in 1..Len(buf') PROVE buf'[i] = [m |-> first, k |-> i - 1]
    <2>1. CASE i = n + 1
      BY <1>2, <1>3, <1>5, <2>1
    <2>2. CASE i # n + 1
      <3>1. i \in 1..n
        BY <1>2, <1>5, <2>2
      <3> QED
        BY <1>2, <1>5, <3>1
    <2> QED
      BY <2>1, <2>2
  <1>7. Len(buf') <= entry
    BY <1>1, <1>2, <1>5
  <1>8. BufferInv'
    BY <1>1, <1>2, <1>6, <1>7 DEF BufferInv
  <1>9. CursorInv(E)' /\ ContentInv(E)'
    BY <1>1 DEF QueueInv, CursorInv, ContentInv, Start
  <1> QED
    BY <1>1, <1>8, <1>9 DEF QueueInv, Unmoved, Held

(* ... and consumes it.                                                     *)
LEMMA AdvanceKeepsQueue ==
  ASSUME NEW E \in Nat, NEW c \in Nat, Uniform(E, c), UInv(E), QueueInv(E), ReadAdvance
  PROVE  QueueInv(E)' /\ read_pos' = read_pos + E
  <1>1. /\ rpc = "copy" /\ rpc' = "bump" /\ read_pos' = read_pos + entry
        /\ consumed' = consumed + 1
        /\ UNCHANGED <<write_pos, published, ring, wpc, msg, copied>>
    BY DEF ReadAdvance, RGoto, writerVars
  <1>2. entry = E /\ E \in Nat \ {0} /\ consumed \in Nat /\ read_pos = Start(E, consumed + 1)
    BY <1>1, UniformFacts DEF UInv, EntryInv
  <1>3. Start(E, consumed + 2) = Start(E, consumed + 1) + E /\ consumed' + 1 = consumed + 2
    BY <1>1, <1>2, Starts
  <1>4. CursorInv(E)'
    BY <1>1, <1>2, <1>3 DEF QueueInv, CursorInv, Start
  <1>5. ContentInv(E)'
    <2>1. \A j \in (consumed' + 1)..Len(published) : j \in (consumed + 1)..Len(published)
      BY <1>1, <1>2
    <2> QED
      BY <1>1, <2>1 DEF QueueInv, ContentInv
  <1>6. BufferInv'
    BY <1>1 DEF BufferInv
  <1> QED
    BY <1>1, <1>2, <1>4, <1>5, <1>6 DEF QueueInv

(* The receive thread hands the message on and wakes the writers; none of   *)
(* them has begun to copy.                                                  *)
LEMMA WakeIsQuiet ==
  ASSUME TypeOK, MsgInv, ReadWake
  PROVE  Quiet
  BY DEF ReadWake, RGoto, TypeOK, Quiet, sharedVars

LEMMA StepQueue ==
  ASSUME NEW E \in Nat, NEW c \in Nat, Uniform(E, c), UInv(E), QueueInv(E), [Next]_vars
  PROVE  QueueInv(E)'
  <1>1. TypeOK /\ MsgInv
    BY DEF UInv
  <1>2. ASSUME NEW w \in Writers, NEW size \in Sizes, WriteBegin(w, size) PROVE QueueInv(E)'
    BY <1>1, <1>2, WriterQuiet, QuietKeeps
  <1>3. ASSUME NEW w \in Writers, WriterStep(w) PROVE QueueInv(E)'
    BY <1>1, <1>3, WriterQuiet, QuietKeeps, CopyKeepsQueue, PublishKeepsQueue DEF WriterStep
  <1>4. ASSUME NEW w \in Writers, WriterCrash(w) \/ WriterDeadline(w) PROVE QueueInv(E)'
    BY <1>1, <1>4, WriterQuiet, QuietKeeps
  <1>5. CASE ReaderStep \/ ReaderDeadline \/ StopChannel
    BY <1>1, <1>5, ReaderQuiet, QuietKeeps, HeaderKeepsQueue, FillKeepsQueue,
       AdvanceKeepsQueue, WakeIsQuiet DEF ReaderStep
  <1>6. CASE UNCHANGED vars
    <2>1. Quiet
      BY <1>6 DEF Quiet, vars, writerVars, readerVars, sharedVars
    <2> QED
      BY <2>1, QuietKeeps
  <1> QED
    BY <1>2, <1>3, <1>4, <1>5, <1>6 DEF Next

-----------------------------------------------------------------------------
(* What is in the bucket.                                                   *)
Unread == [i \in 1..(Len(published) - consumed) |-> CellsOf(published[consumed + i])]

LEMMA CellsLength ==
  ASSUME NEW m \in Messages
  PROVE  CellsOf(m) \in Seq(Cells) /\ Len(CellsOf(m)) = m.size
  <1>1. m.size \in Nat /\ m \in Messages \cup {NoMsg}
    BY BucketAssumption DEF Messages
  <1>2. \A i \in 1..m.size : [m |-> m, k |-> i - 1] \in Cells
    BY <1>1 DEF Cells
  <1> QED
    BY <1>1, <1>2 DEF CellsOf

LEMMA InitFifo ==
  ASSUME NEW E \in Nat, Init
  PROVE  QueueInv(E) /\ Fifo!Init
  <1>1. QueueInv(E)
    BY DEF Init, QueueInv, CursorInv, ContentInv, BufferInv, Start
  <1>2. Len(published) - consumed = 0
    BY DEF Init
  <1>3. Unread = <<>>
    BY <1>2 DEF Unread
  <1> QED
    BY <1>1, <1>3 DEF Init, Fifo!Init, Unread

(* A step that moves none of it is none of the queue's.                     *)
LEMMA UnmovedStutters ==
  ASSUME Unmoved
  PROVE  UNCHANGED Fifo!fifoVars
  BY DEF Unmoved, Held, Fifo!fifoVars

(* Storing write_pos is the queue's Send: the wait for room has left space  *)
(* for the whole entry.                                                     *)
LEMMA PublishSends ==
  ASSUME NEW E \in Nat, NEW c \in Nat, Uniform(E, c), UInv(E), QueueInv(E),
         NEW w \in Writers, WritePublish(w)
  PROVE  Fifo!Send(CellsOf(msg[w])) /\ msg[w] \in Messages
  <1> DEFINE n == Len(published)
  <1>1. /\ wpc[w] = "copy" /\ published' = Append(published, msg[w])
        /\ UNCHANGED <<read_pos, consumed, delivered, rpc, buf, entry>>
    BY DEF WritePublish, Goto, readerVars
  <1>2. msg[w] \in Messages /\ write_pos' = write_pos + E /\ Len(CellsOf(msg[w])) = E
    BY PublishKeepsQueue, CellsLength, UniformFacts
  <1>3. /\ published \in Seq(Messages) /\ n \in Nat /\ consumed \in Nat /\ consumed <= n
        /\ write_pos \in Nat /\ read_pos \in Nat /\ E \in Nat
    BY UniformFacts
  <1>4. /\ Len(published') = n + 1 /\ published'[n + 1] = msg[w]
        /\ \A j \in 1..n : published'[j] = published[j]
    BY <1>1, <1>2, <1>3, AppendProperties
  <1>5. write_pos - read_pos + E <= Capacity
    <2>1. write_pos + E - read_pos <= Capacity
      BY <1>1 DEF UInv, RoomInv
    <2> QED
      BY <1>3, <2>1
  <1>6. Unread' = Append(Unread, CellsOf(msg[w]))
    <2> DEFINE k == n - consumed
               f == [i \in 1..k |-> CellsOf(published[consumed + i])]
               g == [i \in 1..k + 1 |-> CellsOf(published'[consumed + i])]
    <2>1. k \in Nat /\ Len(published') - consumed' = k + 1 /\ consumed + (k + 1) = n + 1
      BY <1>1, <1>3, <1>4
    <2>2. Unread = f /\ Unread' = g
      BY <1>1, <2>1 DEF Unread
    <2>3. \A i \in 1..k : consumed + i \in 1..n
      BY <1>3
    <2>4. \A i \in 1..k : g[i] = f[i]
      BY <1>4, <2>1, <2>3
    <2>5. g[k + 1] = CellsOf(msg[w])
      BY <1>4, <2>1
    <2>6. Len(f) = k /\ DOMAIN f = 1..k
      BY <2>1
    <2>8. g = [i \in 1..(k + 1) |-> g[i]]
      OBVIOUS
    <2> HIDE DEF f, g, k
    <2>7. Append(f, CellsOf(msg[w])) = [i \in 1..(k + 1) |-> IF i = k + 1 THEN CellsOf(msg[w]) ELSE f[i]]
      BY <2>1, <2>6
    <2>9. ASSUME NEW i \in 1..(k + 1)
          PROVE  g[i] = IF i = k + 1 THEN CellsOf(msg[w]) ELSE f[i]
      <3>1. i # k + 1 => i \in 1..k
        BY <2>1
      <3> QED
        BY <2>4, <2>5, <3>1
    <2>10. g = Append(f, CellsOf(msg[w]))
      BY <2>7, <2>8, <2>9
    <2> QED
      BY <2>2, <2>10
  <1>7. write_pos' - read_pos' = write_pos - read_pos + E
    BY <1>1, <1>2, <1>3
  <1> QED
    BY <1>1, <1>2, <1>5, <1>6, <1>7 DEF Fifo!Send, Unread

(* Storing read_pos is the queue's Take: the reader's buffer is the oldest  *)
(* message, whole, unless it is too long to be handed on.                   *)
LEMMA AdvanceTakes ==
  ASSUME NEW E \in Nat, NEW c \in Nat, Uniform(E, c), UInv(E), QueueInv(E), ReadAdvance
  PROVE  Fifo!Take
  <1> DEFINE n == Len(published)
             first == published[consumed + 1]
  <1>1. /\ rpc = "copy" /\ rpc' = "bump" /\ consumed' = consumed + 1
        /\ Len(buf) >= entry \/ Len(buf) >= MaxEntry
        /\ UNCHANGED <<write_pos, published, buf, entry, delivered>>
    BY DEF ReadAdvance, RGoto, writerVars
  <1>2. /\ entry = E /\ E \in Nat /\ Len(buf) \in Nat /\ Len(buf) <= MaxEntry /\ Len(buf) <= E
        /\ buf \in Seq(Cells) /\ consumed < n
        /\ \A i \in 1..Len(buf) : buf[i] = [m |-> first, k |-> i - 1]
    BY <1>1 DEF UInv, TypeOK, EntryInv, QueueInv, BufferInv
  <1>3. /\ published \in Seq(Messages) /\ n \in Nat /\ consumed \in Nat
        /\ write_pos \in Nat /\ read_pos \in Nat /\ read_pos' = read_pos + E
        /\ \A m \in Messages : m.size = E
    BY UniformFacts, AdvanceKeepsQueue
  <1>4. first \in Messages /\ first.size = E
    <2>1. consumed + 1 \in 1..n
      BY <1>2, <1>3
    <2> QED
      BY <1>3, <2>1
  <1>5. Len(CellsOf(first)) = E
    BY <1>4, CellsLength
  <1>6. E <= MaxEntry => buf = CellsOf(first)
    <2> SUFFICES ASSUME E <= MaxEntry PROVE buf = CellsOf(first)
      OBVIOUS
    <2>1. Len(buf) = E
      BY <1>1, <1>2, BucketAssumption
    <2>2. buf = [i \in 1..E |-> buf[i]]
      BY <1>2, <2>1
    <2>3. CellsOf(first) = [i \in 1..E |-> [m |-> first, k |-> i - 1]]
      BY <1>4 DEF CellsOf
    <2> QED
      BY <1>2, <2>1, <2>2, <2>3
  <1>7. Unread # <<>> /\ Head(Unread) = CellsOf(first) /\ Unread' = Tail(Unread)
    <2> DEFINE k == n - consumed
               f == [i \in 1..k |-> CellsOf(published[consumed + i])]
    <2>1. k \in Nat \ {0} /\ Len(published') - consumed' = k - 1
      BY <1>1, <1>2, <1>3
    <2>2. Unread = f
      BY DEF Unread
    <2>3. Unread' = [i \in 1..(k - 1) |-> CellsOf(published[consumed + (i + 1)])]
      <3>1. \A i \in 1..(k - 1) : (consumed + 1) + i = consumed + (i + 1)
        BY <1>3, <2>1
      <3>2. Unread' = [i \in 1..(k - 1) |-> CellsOf(published[(consumed + 1) + i])]
        BY <1>1, <2>1 DEF Unread
      <3> QED
        BY <3>1, <3>2
    <2>4. Len(f) = k /\ 1 \in 1..k /\ f[1] = CellsOf(first)
      BY <2>1
    <2>8. f \in Seq(Seq(Cells))
      <3>1. \A i \in 1..k : CellsOf(published[consumed + i]) \in Seq(Cells)
        <4> TAKE i \in 1..k
        <4>1. consumed + i \in 1..n
          BY <1>3
        <4> QED
          BY <1>3, <4>1, CellsLength
      <3> QED
        BY <2>1, <3>1
    <2>5. \A i \in 1..(k - 1) : f[i + 1] = CellsOf(published[consumed + (i + 1)])
      BY <2>1
    <2> HIDE DEF f, k
    <2>7. f # <<>>
      BY <2>1, <2>4
    <2>6. Head(f) = f[1] /\ Tail(f) = [i \in 1..(k - 1) |-> f[i + 1]]
      <3> DEFINE rest == Tail(f)
      <3>1. /\ rest \in Seq(Seq(Cells)) /\ Len(rest) = k - 1
            /\ \A i \in 1..(k - 1) : rest[i] = f[i + 1]
        BY <2>4, <2>7, <2>8, HeadTailProperties
      <3> HIDE DEF rest
      <3>2. rest = [i \in 1..(k - 1) |-> rest[i]]
        BY <3>1
      <3>3. rest = [i \in 1..(k - 1) |-> f[i + 1]]
        BY <3>1, <3>2
      <3>4. Head(f) = f[1]
        BY <2>8
      <3> QED
        BY <3>3, <3>4 DEF rest
    <2> QED
      BY <2>2, <2>3, <2>4, <2>5, <2>6, <2>7
  <1>8. write_pos' - read_pos' = (write_pos - read_pos) - E
    BY <1>1, <1>3
  <1>9. (E <= MaxEntry) <=> ~(E > MaxEntry)
    BY <1>2, BucketAssumption
  <1> QED
    BY <1>1, <1>2, <1>5, <1>6, <1>7, <1>8, <1>9 DEF Fifo!Take, Unread

(* The receiver gets the message that was taken.                            *)
LEMMA WakeHandsOn ==
  ASSUME TypeOK, ReadWake
  PROVE  Fifo!HandOn \/ UNCHANGED Fifo!fifoVars
  <1>1. /\ rpc = "wake" /\ rpc' = "loop"
        /\ delivered' = IF entry > MaxEntry THEN delivered ELSE Append(delivered, buf)
        /\ UNCHANGED <<write_pos, read_pos, published, consumed>>
    BY DEF ReadWake, RGoto, sharedVars
  <1>2. (entry <= MaxEntry) <=> ~(entry > MaxEntry)
    BY BucketAssumption DEF TypeOK
  <1>3. CASE entry <= MaxEntry
    BY <1>1, <1>2, <1>3 DEF Fifo!HandOn
  <1>4. CASE entry > MaxEntry
    BY <1>1, <1>2, <1>4 DEF Fifo!fifoVars
  <1> QED
    BY <1>2, <1>3, <1>4

LEMMA StepFifo ==
  ASSUME NEW E \in Nat, NEW c \in Nat, Uniform(E, c), UInv(E), QueueInv(E), [Next]_vars
  PROVE  [Fifo!Next]_(Fifo!fifoVars)
  <1>1. TypeOK /\ MsgInv
    BY DEF UInv
  <1> DEFINE Goal == Fifo!Next \/ UNCHANGED Fifo!fifoVars
  <1>2. ASSUME NEW w \in Writers, NEW size \in Sizes, WriteBegin(w, size) PROVE Goal
    BY <1>1, <1>2, WriterQuiet, UnmovedStutters
  <1>3. ASSUME NEW w \in Writers, WriterStep(w) PROVE Goal
    <2>1. CASE WritePublish(w)
      <3>1. \E v \in {CellsOf(m) : m \in Messages} : Fifo!Send(v)
        BY <2>1, PublishSends
      <3> QED
        BY <3>1 DEF Fifo!Next
    <2>2. CASE WriteCopy(w)
      <3>1. Unmoved
        BY <2>2 DEF WriteCopy, Unmoved, Held, readerVars
      <3> QED
        BY <3>1, UnmovedStutters
    <2> QED
      BY <1>1, <1>3, <2>1, <2>2, WriterQuiet, UnmovedStutters DEF WriterStep
  <1>4. ASSUME NEW w \in Writers, WriterCrash(w) \/ WriterDeadline(w) PROVE Goal
    BY <1>1, <1>4, WriterQuiet, UnmovedStutters
  <1>5. CASE ReaderStep \/ ReaderDeadline \/ StopChannel
    <2>1. CASE ReadAdvance
      BY <2>1, AdvanceTakes DEF Fifo!Next
    <2>2. CASE ReadWake
      BY <1>1, <2>2, WakeHandsOn DEF Fifo!Next
    <2>3. CASE ReadHeader \/ ReadCopy
      BY <2>3, HeaderKeepsQueue, FillKeepsQueue, UnmovedStutters
    <2> QED
      BY <1>1, <1>5, <2>1, <2>2, <2>3, ReaderQuiet, UnmovedStutters DEF ReaderStep
  <1>6. CASE UNCHANGED vars
    <2>1. Unmoved
      BY <1>6 DEF Unmoved, Held, vars, readerVars, sharedVars
    <2> QED
      BY <2>1, UnmovedStutters
  <1> QED
    BY <1>2, <1>3, <1>4, <1>5, <1>6 DEF Next

(* With entries of one size that divides the capacity the bucket is the     *)
(* bounded queue of its specification: messages come out whole, once and in *)
(* the order in which write_pos was stored, for any number of writers that  *)
(* time out, wait for one another or die at any instruction.                *)
THEOREM UniformRefinesFifo ==
    ASSUME NEW CONSTANT E \in Nat, NEW CONSTANT c \in Nat, Uniform(E, c)
    PROVE  Spec => RefinesFifo
  <1>1. Init => QueueInv(E) /\ Fifo!Init
    BY InitFifo
  <1>2. UInv(E) /\ QueueInv(E) /\ [Next]_vars => QueueInv(E)'
    BY StepQueue
  <1>3. UInv(E) /\ QueueInv(E) /\ [Next]_vars => [Fifo!Next]_(Fifo!fifoVars)
    BY StepFifo
  <1>4. Init => UInv(E)
    BY UniformInit
  <1>5. UInv(E) /\ [Next]_vars => UInv(E)'
    BY UniformStep
  <1> QED
    BY <1>1, <1>2, <1>3, <1>4, <1>5, PTL DEF Spec, RefinesFifo, Fifo!Spec

-----------------------------------------------------------------------------
(* The result of Write.                                                     *)
Places == 1..Len(published)
Published(i) == \E j \in Places : published[j].id = i
Over == {"bump", "wake", "unlock"}

(* A call in progress is the only one with its number and has no result     *)
(* yet; its message is published from the moment write_pos is stored.       *)
CallOK(w) ==
    wpc[w] \in InWrite =>
        /\ msg[w].id \in 1..calls /\ outcome[msg[w].id] = "none"
        /\ \A v \in Writers : v # w /\ wpc[v] \in InWrite => msg[v].id # msg[w].id
        /\ Published(msg[w].id) <=> wpc[w] \in Over

ResultInv ==
    /\ \A j \in Places : published[j].id \in 1..calls
    /\ \A j, k \in Places : published[j].id = published[k].id => j = k
    /\ \A i \in 1..MaxMsgs :
           /\ outcome[i] = "true" => Published(i)
           /\ outcome[i] = "false" => ~Published(i)
           /\ i > calls => outcome[i] = "none"
    /\ \A w \in Writers : CallOK(w)

(* A step in which every pending Write stays on its side of publication.    *)
SameCalls ==
    /\ UNCHANGED <<published, outcome, calls>>
    /\ \A w \in Writers :
           wpc'[w] \in InWrite => /\ wpc[w] \in InWrite /\ msg'[w] = msg[w]
                                  /\ wpc'[w] \in Over <=> wpc[w] \in Over

LEMMA SameCallsKeep == ResultInv /\ SameCalls => ResultInv'
  BY DEF ResultInv, SameCalls, CallOK, Places, Published

(* One writer moves from one place to another.                              *)
LEMMA GotoKeeps ==
  ASSUME TypeOK, NEW w \in Writers, NEW from \in InWrite, NEW to \in InWrite,
         Goto(w, from, to), from \in Over <=> to \in Over,
         UNCHANGED <<msg, published, outcome, calls>>
  PROVE  SameCalls
  BY DEF TypeOK, Goto, SameCalls

LEMMA WriterKeeps ==
  ASSUME TypeOK, NEW w \in Writers,
         \/ WriteLock(w) \/ DrainCheck(w) \/ DrainArm(w) \/ DrainFutex(w)
         \/ DrainFutexTimeout(w) \/ WriteCopy(w) \/ WriteBump(w) \/ WriteWake(w)
  PROVE  SameCalls
  <1> USE GotoKeeps DEF InWrite, WriterPc, Over
  <1>1. CASE WriteLock(w)
    BY <1>1 DEF WriteLock
  <1>2. CASE DrainCheck(w)
    BY <1>2 DEF DrainCheck
  <1>3. CASE DrainArm(w)
    BY <1>3 DEF DrainArm
  <1>4. CASE DrainFutex(w)
    BY <1>4 DEF DrainFutex
  <1>5. CASE DrainFutexTimeout(w)
    BY <1>5 DEF DrainFutexTimeout
  <1>6. CASE WriteCopy(w)
    BY <1>6 DEF WriteCopy
  <1>7. CASE WriteBump(w)
    BY <1>7 DEF WriteBump
  <1>8. CASE WriteWake(w)
    BY <1>8 DEF WriteWake
  <1> QED
    BY <1>1, <1>2, <1>3, <1>4, <1>5, <1>6, <1>7, <1>8

LEMMA CrashKeeps ==
  ASSUME TypeOK, NEW w \in Writers, WriterCrash(w)
  PROVE  SameCalls
  BY DEF TypeOK, WriterCrash, DropLocals, SameCalls, InWrite, WriterPc

(* The receive thread wakes writers, and changes nothing else of theirs.    *)
LEMMA ReaderKeeps ==
  ASSUME TypeOK, ReaderStep \/ ReaderDeadline \/ StopChannel
  PROVE  SameCalls
  <1>1. CASE ReadWake
    BY <1>1 DEF ReadWake, TypeOK, SameCalls, InWrite, WriterPc, Over
  <1>2. ~ReadWake => UNCHANGED <<wpc, msg, published, outcome, calls>>
    BY DEF ReaderStep, RunLoop, ReadHead, ReadHeader, ReadCopy, ReadAdvance, ReadBump,
           WakeCheck, WakeTimeout, WakeArm, WakeFutex, WakeFutexTimeout, ReaderDeadline,
           StopChannel, writerVars
  <1> QED
    BY <1>1, <1>2 DEF SameCalls

LEMMA BeginKeeps ==
  ASSUME TypeOK, ResultInv, NEW w \in Writers, NEW size \in Sizes, WriteBegin(w, size)
  PROVE  ResultInv'
  <1>1. /\ calls \in Nat /\ calls' = calls + 1 /\ published' = published
        /\ calls + 1 \in 1..MaxMsgs
    BY BucketAssumption DEF WriteBegin, TypeOK
  <1>2. ~Published(calls + 1) /\ outcome[calls + 1] = "none"
    BY <1>1 DEF ResultInv, Published
  <1>3. CASE size > Capacity
    <2>1. outcome' = [outcome EXCEPT ![calls + 1] = "false"] /\ UNCHANGED <<wpc, msg>>
      BY <1>3 DEF WriteBegin
    <2>2. outcome \in [1..MaxMsgs -> {"none", "true", "false"}]
      BY DEF TypeOK
    <2>3. ASSUME NEW i \in 1..MaxMsgs
          PROVE  /\ outcome'[i] = "true" => Published(i)'
                 /\ outcome'[i] = "false" => ~Published(i)'
                 /\ i > calls' => outcome'[i] = "none"
      BY <1>1, <1>2, <2>1, <2>2 DEF ResultInv, Published, Places
    <2>4. ASSUME NEW v \in Writers PROVE CallOK(v)'
      BY <1>1, <2>1, <2>2 DEF ResultInv, CallOK, Published, Places
    <2> QED
      BY <1>1, <2>3, <2>4 DEF ResultInv, Places
  <1>4. CASE ~(size > Capacity)
    <2>1. /\ outcome' = outcome /\ wpc' = [wpc EXCEPT ![w] = "lock"]
          /\ msg' = [msg EXCEPT ![w] = [id |-> calls + 1, size |-> size]]
      BY <1>4 DEF WriteBegin
    <2>2. wpc'[w] = "lock" /\ msg'[w].id = calls + 1
      BY <2>1 DEF TypeOK
    <2>3. \A v \in Writers : v # w => wpc'[v] = wpc[v] /\ msg'[v] = msg[v]
      BY <2>1 DEF TypeOK
    <2>4. \A v \in Writers : v # w /\ wpc[v] \in InWrite => msg[v].id \in 1..calls
      BY DEF ResultInv, CallOK
    <2>5. CallOK(w)'
      BY <1>1, <1>2, <2>1, <2>2, <2>3, <2>4
         DEF CallOK, Published, Places, Over, InWrite, WriterPc
    <2>6. ASSUME NEW v \in Writers, v # w PROVE CallOK(v)'
      BY <1>1, <2>1, <2>2, <2>3, <2>4, <2>6
         DEF ResultInv, CallOK, Published, Places
    <2>7. \A i \in 1..MaxMsgs :
             /\ outcome'[i] = "true" => Published(i)'
             /\ outcome'[i] = "false" => ~Published(i)'
             /\ i > calls' => outcome'[i] = "none"
      BY <1>1, <2>1 DEF ResultInv, Published, Places
    <2> QED
      BY <1>1, <2>5, <2>6, <2>7 DEF ResultInv, Places
  <1> QED
    BY <1>3, <1>4

LEMMA PublishKeeps ==
  ASSUME TypeOK, MsgInv, ResultInv, NEW w \in Writers, WritePublish(w)
  PROVE  ResultInv'
  <1>1. /\ wpc[w] = "copy" /\ wpc' = [wpc EXCEPT ![w] = "bump"]
        /\ published' = Append(published, msg[w]) /\ UNCHANGED <<msg, outcome, calls>>
    BY DEF WritePublish, Goto
  <1>2. /\ msg[w].id \in 1..calls /\ outcome[msg[w].id] = "none" /\ ~Published(msg[w].id)
        /\ \A v \in Writers : v # w /\ wpc[v] \in InWrite => msg[v].id # msg[w].id
    BY <1>1 DEF ResultInv, CallOK, InWrite, WriterPc, Over
  <1>3. /\ published \in Seq(Messages)
        /\ Len(published') = Len(published) + 1
        /\ published'[Len(published) + 1] = msg[w]
        /\ \A j \in Places : published'[j] = published[j]
    BY <1>1 DEF TypeOK, Places
  <1>4. \A i : Published(i)' <=> Published(i) \/ i = msg[w].id
    <2>1. Len(published) \in Nat
      BY <1>3
    <2> QED
      BY <1>3, <2>1 DEF Published, Places
  <1>5. \A v \in Writers : wpc'[v] = IF v = w THEN "bump" ELSE wpc[v]
    BY <1>1 DEF TypeOK
  <1>6. ASSUME NEW v \in Writers PROVE CallOK(v)'
    BY <1>1, <1>2, <1>4, <1>5 DEF ResultInv, CallOK, InWrite, WriterPc, Over
  <1>7. \A j \in Places' : published'[j].id \in 1..calls'
    BY <1>1, <1>2, <1>3 DEF ResultInv, Places
  <1>8. \A j, k \in Places' : published'[j].id = published'[k].id => j = k
    BY <1>1, <1>2, <1>3 DEF ResultInv, Places, Published
  <1>9. \A i \in 1..MaxMsgs :
           /\ outcome'[i] = "true" => Published(i)'
           /\ outcome'[i] = "false" => ~Published(i)'
           /\ i > calls' => outcome'[i] = "none"
    BY <1>1, <1>2, <1>4 DEF ResultInv
  <1> QED
    BY <1>6, <1>7, <1>8, <1>9 DEF ResultInv

(* Return: the result is "true" after publication and "false" before.       *)
LEMMA ReturnKeeps ==
  ASSUME TypeOK, ResultInv, NEW w \in Writers,
         \/ DrainTimeout(w)
         \/ WriteUnlock(w)
  PROVE  ResultInv'
  <1> DEFINE id == msg[w].id
             result == IF wpc[w] \in Over THEN "true" ELSE "false"
  <1>1. /\ wpc[w] \in InWrite /\ wpc' = [wpc EXCEPT ![w] = "idle"]
        /\ outcome' = [outcome EXCEPT ![id] = result]
        /\ msg' = [msg EXCEPT ![w] = NoMsg] /\ UNCHANGED <<published, calls>>
    BY DEF DrainTimeout, WriteUnlock, Goto, Return, DropLocals, InWrite, WriterPc, Over
  <1>2. /\ id \in 1..calls
        /\ Published(id) <=> wpc[w] \in Over
        /\ \A v \in Writers : v # w /\ wpc[v] \in InWrite => msg[v].id # id
    BY <1>1 DEF ResultInv, CallOK
  <1>3. /\ id \in 1..MaxMsgs /\ calls \in 0..MaxMsgs
        /\ outcome \in [1..MaxMsgs -> {"none", "true", "false"}]
    BY <1>2, BucketAssumption DEF TypeOK
  <1>4. \A i \in 1..MaxMsgs : outcome'[i] = IF i = id THEN result ELSE outcome[i]
    BY <1>1, <1>3
  <1>5. \A v \in Writers : v # w => wpc'[v] = wpc[v] /\ msg'[v] = msg[v]
    BY <1>1 DEF TypeOK
  <1>6. wpc'[w] = "idle"
    BY <1>1 DEF TypeOK
  <1>7. ASSUME NEW v \in Writers PROVE CallOK(v)'
    <2>1. CASE v = w
      BY <1>6, <2>1 DEF CallOK, InWrite
    <2>2. CASE v # w /\ wpc[v] \in InWrite
      <3>1. msg[v].id \in 1..calls /\ msg[v].id # id /\ msg[v].id \in 1..MaxMsgs
        BY <1>2, <1>3, <2>2, BucketAssumption DEF ResultInv, CallOK
      <3>2. outcome'[msg[v].id] = outcome[msg[v].id]
        BY <1>4, <3>1
      <3> QED
        BY <1>1, <1>5, <1>6, <2>2, <3>1, <3>2
           DEF ResultInv, CallOK, Published, Places, InWrite
    <2>3. CASE v # w /\ wpc[v] \notin InWrite
      BY <1>5, <2>3 DEF CallOK
    <2> QED
      BY <2>1, <2>2, <2>3
  <1>8. \A i \in 1..MaxMsgs :
           /\ outcome'[i] = "true" => Published(i)'
           /\ outcome'[i] = "false" => ~Published(i)'
           /\ i > calls' => outcome'[i] = "none"
    <2>1. \A i : Published(i)' <=> Published(i)
      BY <1>1 DEF Published, Places
    <2>2. id <= calls
      BY <1>2, <1>3
    <2> TAKE i \in 1..MaxMsgs
    <2>3. CASE i = id
      <3>1. outcome'[i] = result /\ ~(i > calls')
        BY <1>1, <1>3, <1>4, <2>2, <2>3
      <3>2. result = "true" => Published(id)
        BY <1>2
      <3>3. result = "false" => ~Published(id)
        BY <1>2
      <3> QED
        BY <2>1, <2>3, <3>1, <3>2, <3>3
    <2>4. CASE i # id
      BY <1>1, <1>4, <2>1, <2>4 DEF ResultInv
    <2> QED
      BY <2>3, <2>4
  <1> QED
    BY <1>1, <1>7, <1>8 DEF ResultInv, Places

LEMMA StepResult == TypeOK /\ MsgInv /\ ResultInv /\ [Next]_vars => ResultInv'
  <1> SUFFICES ASSUME TypeOK, MsgInv, ResultInv, [Next]_vars PROVE ResultInv'
    OBVIOUS
  <1>1. ASSUME NEW w \in Writers, NEW size \in Sizes, WriteBegin(w, size) PROVE ResultInv'
    BY <1>1, BeginKeeps
  <1>2. ASSUME NEW w \in Writers, WriterStep(w) PROVE ResultInv'
    BY <1>2, WriterKeeps, SameCallsKeep, PublishKeeps, ReturnKeeps DEF WriterStep
  <1>3. ASSUME NEW w \in Writers, WriterCrash(w) PROVE ResultInv'
    BY <1>3, CrashKeeps, SameCallsKeep
  <1>4. ASSUME NEW w \in Writers, WriterDeadline(w) PROVE ResultInv'
    BY <1>4, SameCallsKeep DEF WriterDeadline, SameCalls
  <1>5. CASE ReaderStep \/ ReaderDeadline \/ StopChannel
    BY <1>5, ReaderKeeps, SameCallsKeep
  <1>6. CASE UNCHANGED vars
    BY <1>6, SameCallsKeep DEF SameCalls, vars, writerVars
  <1> QED
    BY <1>1, <1>2, <1>3, <1>4, <1>5, <1>6 DEF Next

(* Write's result is true exactly for the messages that are published, and  *)
(* these are published once, for any number of writers that time out, are   *)
(* refused or die at any instruction, and whatever happens to the ring.     *)
THEOREM WriteTellsTruth == Spec => []ReturnIsTruth
  <1>1. Init => ResultInv
    BY BucketAssumption
       DEF Init, ResultInv, Places, Published, CallOK, InWrite
  <1>2. ResultInv => ReturnIsTruth
    BY DEF ResultInv, ReturnIsTruth, Published, Places
  <1> QED
    BY <1>1, <1>2, StepResult, TypeCorrect, PTL DEF Spec
=============================================================================
