------------------------------ MODULE PingPong ------------------------------
(***************************************************************************)
(* The agent's double buffer: one writer appends records to the face it    *)
(* read from cur_, one reader flips cur_ and takes what the other face     *)
(* holds.  off_ and bufs_ are plain memory, so where both threads touch a  *)
(* face the writer may use the offset it has loaded or load it again.      *)
(***************************************************************************)
EXTENDS Naturals, Sequences

CONSTANTS
    Size,       \* kPingPongSize, in units
    Records,    \* lengths of the records the application writes
    MaxWrites   \* bound: calls of Write

ASSUME PingPongAssumption == Size \in Nat /\ Records \subseteq Nat /\ MaxWrites \in Nat

Faces == {0, 1}

VARIABLES
    cur,        \* cur_
    off,        \* off_
    bufs,       \* bufs_: each face, position -> unit
    writer,     \* place in Write: idle, checking, copying, advancing
    idx,        \* the face the writer has loaded
    len,        \* length of its record
    base,       \* the offset it has loaded
    from,       \* where its copy starts
    writes,     \* number of calls so far; it names the record
    reader,     \* place in ReadAndFlip and agentReaderLoop
    old,        \* the face the reader has taken
    n,          \* the length it has loaded
    out,        \* what it has copied
    stop,       \* AgentImpl::stop
    accepted,   \* history: units of the records Write returned true for
    published,  \* history: units handed to publish, in order
    spanned     \* history: the reader has flipped the face of a running Write

writerVars == <<writer, idx, len, base, from, writes, accepted>>
readerVars == <<reader, old, n, out, published>>
pingVars == <<cur, off, bufs, writerVars, readerVars, stop, spanned>>

(* A unit is the record it belongs to and its place in it.                  *)
Blank == <<0, 0>>

PingInit ==
    /\ cur = 0 /\ off = [f \in Faces |-> 0]
    /\ bufs = [f \in Faces |-> [p \in 1..Size |-> Blank]]
    /\ writer = "idle" /\ idx = 0 /\ len = 0 /\ base = 0 /\ from = 0 /\ writes = 0
    /\ reader = "asleep" /\ old = 0 /\ n = 0 /\ out = <<>>
    /\ stop = FALSE
    /\ accepted = <<>> /\ published = <<>> /\ spanned = FALSE

-----------------------------------------------------------------------------
(* Write.                                                                   *)
WriteLoad(l) ==
    /\ writer = "idle" /\ writes < MaxWrites
    /\ writer' = "checking" /\ idx' = cur /\ len' = l /\ writes' = writes + 1
    /\ UNCHANGED <<cur, off, bufs, base, from, accepted, readerVars, stop, spanned>>

(* An empty record or one without room is dropped.                          *)
WriteDrop ==
    /\ writer = "checking" /\ (len = 0 \/ off[idx] + len > Size)
    /\ writer' = "idle"
    /\ UNCHANGED <<cur, off, bufs, idx, len, base, from, writes, accepted,
                   readerVars, stop, spanned>>

(* Faulty variant: the test leaves one unit too much.                       *)
WriteFits_OffByOne ==
    /\ writer = "checking" /\ len # 0 /\ off[idx] + len <= Size + 1
    /\ writer' = "copying" /\ base' = off[idx] /\ from' = off[idx]
    /\ UNCHANGED <<cur, off, bufs, idx, len, writes, accepted, readerVars, stop, spanned>>

WriteFits ==
    /\ writer = "checking" /\ len # 0 /\ off[idx] + len <= Size
    /\ writer' = "copying" /\ base' = off[idx] /\ from' = off[idx]
    /\ UNCHANGED <<cur, off, bufs, idx, len, writes, accepted, readerVars, stop, spanned>>

(* memcpy, to the offset loaded before or loaded again.                     *)
WriteCopy ==
    /\ writer = "copying" /\ writer' = "advancing"
    /\ from' \in {base, off[idx]}
    /\ bufs' = [bufs EXCEPT ![idx] = [p \in 1..Size |->
                  IF p \in from' + 1 .. from' + len THEN <<writes, p - from'>> ELSE @[p]]]
    /\ UNCHANGED <<cur, off, idx, len, base, writes, accepted, readerVars, stop, spanned>>

WriteAdvance ==
    /\ writer = "advancing" /\ writer' = "idle"
    /\ \E o \in {base, off[idx]} : off' = [off EXCEPT ![idx] = o + len]
    /\ accepted' = accepted \o [i \in 1..len |-> <<writes, i>>]
    /\ UNCHANGED <<cur, bufs, idx, len, base, from, writes, readerVars, stop, spanned>>

WriterStep == WriteDrop \/ WriteFits \/ WriteCopy \/ WriteAdvance

-----------------------------------------------------------------------------
(* agentReaderLoop and ReadAndFlip.  The caller's buffer is larger than a   *)
(* face, so the capacity never cuts anything off.                           *)
LoopTest ==
    /\ reader = "asleep"
    /\ reader' = IF stop THEN "gone" ELSE "flip"
    /\ UNCHANGED <<cur, off, bufs, writerVars, old, n, out, published, stop, spanned>>

Flip ==
    /\ reader = "flip" /\ reader' = "load"
    /\ old' = cur /\ cur' = 1 - cur
    /\ spanned' = (spanned \/ (writer # "idle" /\ idx = cur))
    /\ UNCHANGED <<off, bufs, writerVars, n, out, published, stop>>

ReadLength ==
    /\ reader = "load"
    /\ n' = off[old]
    /\ reader' = IF off[old] > 0 THEN "copy" ELSE "asleep"
    /\ UNCHANGED <<cur, off, bufs, writerVars, old, out, published, stop, spanned>>

ReadCopy ==
    /\ reader = "copy" /\ reader' = "release"
    /\ out' = [p \in 1..n |-> bufs[old][p]]
    /\ UNCHANGED <<cur, off, bufs, writerVars, old, n, published, stop, spanned>>

(* Faulty variant: the old face is not given back empty.                    *)
Release_Full ==
    /\ reader = "release" /\ reader' = "publish"
    /\ UNCHANGED <<cur, off, bufs, writerVars, old, n, out, published, stop, spanned>>

Release ==
    /\ reader = "release" /\ reader' = "publish"
    /\ off' = [off EXCEPT ![old] = 0]
    /\ UNCHANGED <<cur, bufs, writerVars, old, n, out, published, stop, spanned>>

Publish ==
    /\ reader = "publish" /\ reader' = "asleep"
    /\ published' = published \o out /\ out' = <<>>
    /\ UNCHANGED <<cur, off, bufs, writerVars, old, n, stop, spanned>>

(* dts_agent_destroy sets the flag and joins; what the faces hold is lost.  *)
Destroy ==
    /\ ~stop /\ stop' = TRUE
    /\ UNCHANGED <<cur, off, bufs, writerVars, readerVars, spanned>>

ReaderStep == LoopTest \/ Flip \/ ReadLength \/ ReadCopy \/ Release

PingNext ==
    \/ \E l \in Records : WriteLoad(l)
    \/ WriterStep \/ ReaderStep \/ Publish \/ Destroy

PingSpec == PingInit /\ [][PingNext]_pingVars

-----------------------------------------------------------------------------
(* Every variable that counts or names a place has its type.                *)
PingTypeOK ==
    /\ cur \in Faces /\ idx \in Faces /\ old \in Faces
    /\ off \in [Faces -> Nat] /\ len \in Nat /\ base \in Nat /\ from \in Nat /\ n \in Nat
    /\ writer \in {"idle", "checking", "copying", "advancing"}
    /\ reader \in {"asleep", "flip", "load", "copy", "release", "publish", "gone"}

(* Neither the copy in nor the copy out leaves the buffer, although the     *)
(* reader may empty the face between the writer's test and its copy.        *)
WithinBuffer ==
    /\ \A f \in Faces : off[f] <= Size
    /\ writer = "advancing" => from + len <= Size
    /\ n <= Size

(* What the writer has put on a face the reader does not own yet.           *)
Content(f) == [p \in 1..off[f] |-> bufs[f][p]]

Pending ==
    CASE reader \in {"load", "copy", "release"} -> Content(old) \o Content(1 - old)
      [] reader = "publish" -> out \o Content(cur)
      [] OTHER -> Content(1 - cur) \o Content(cur)

(* As long as no flip has hit a running Write, every unit that Write        *)
(* accepted is published once and in order, or still waits on a face.       *)
CleanWhenSeparate == ~spanned => published \o Pending = accepted

(* What pingpong.h:11 says of the flip: it is atomic, so the reader gets    *)
(* whole records.                                                           *)
RecordsWhole ==
    \A i \in 1..Len(published) - 1 :
        LET u == published[i]
            v == published[i + 1]
        IN  v = <<u[1], u[2] + 1>> \/ (v[2] = 1 /\ v[1] > u[1])
=============================================================================
