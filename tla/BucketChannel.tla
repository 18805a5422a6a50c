--------------------------- MODULE BucketChannel ---------------------------
(***************************************************************************)
(* The life of the buckets: a reader process creates the shared segment of *)
(* its port or takes over one that is left, serves it, and stops (which    *)
(* unlinks the name) or crashes (which leaves the segment behind); writer  *)
(* processes open the segment by name on their first send to a port and    *)
(* keep it.  A send goes through its destinations with one deadline.       *)
(*                                                                         *)
(* Create takes the name first and fills in the header afterwards, without *)
(* the lock: between the two the others can open the segment, claim it and *)
(* write to it, and the creator can crash.                                 *)
(*                                                                         *)
(* Module BucketSegment is the traffic inside a segment; here a segment is *)
(* the queue it implements.                                                *)
(***************************************************************************)
EXTENDS Naturals, Sequences, Functions

CONSTANTS
    Readers,    \* process ids of readers
    PortOf,     \* the port each of them reads
    Writers,    \* processes that send
    Selected,   \* the destinations of sends: sequences of ports
    Capacity,   \* messages a segment holds
    MaxSegs,    \* bound: segments created
    MaxMsgs     \* bound: messages sent

Ports == UNION {Range(d) : d \in Selected}

ASSUME ChannelAssumption ==
    /\ Capacity \in Nat \ {0} /\ MaxSegs \in Nat /\ MaxMsgs \in Nat
    /\ "nobody" \notin Readers /\ PortOf \in [Readers -> Ports]
    /\ \A ds \in Selected : ds \in Seq(Ports) /\ IsInjective(ds)

Nobody == "nobody"
NoSeg == 0

VARIABLES
    named,      \* the segment the shm name of each port denotes
    ready,      \* segments whose header has its magic and capacity: Open accepts them
    owner,      \* Header::owner_pid of each segment
    queue,      \* messages in each segment
    reader,     \* each reader process: place, segment, how it got it
    cache,      \* BucketTransport::buckets_ of each writer
    sending,    \* each writer's send in progress, or <<>>
    segs,       \* segments created so far
    sent,       \* messages sent so far
    unlinked,   \* history: a reader has stopped and unlinked the name
    left,       \* history: what readers received, and what a reset wiped
    hurried,    \* history: segments claimed before their creator was done
    returned    \* history: the sends that have returned

vars == <<named, ready, owner, queue, reader, cache, sending, segs, sent, unlinked, left,
          hurried, returned>>
sends == <<sending, sent, returned>>
readers == <<named, ready, owner, reader, segs, unlinked, hurried>>

Segs == 1..MaxSegs
Down == [at |-> "down", seg |-> NoSeg, by |-> "none"]

Init ==
    /\ named = [d \in Ports |-> NoSeg] /\ ready = {}
    /\ owner = [s \in Segs |-> Nobody] /\ queue = [s \in Segs |-> <<>>]
    /\ reader = [p \in Readers |-> Down]
    /\ cache = [w \in Writers |-> [d \in Ports |-> NoSeg]]
    /\ sending = [w \in Writers |-> <<>>]
    /\ segs = 0 /\ sent = 0 /\ unlinked = FALSE /\ left = {} /\ hurried = {}
    /\ returned = {}

-----------------------------------------------------------------------------
(* Readers.                                                                 *)
At(place, s, by) == [at |-> place, seg |-> s, by |-> by]

(* shm_open with O_EXCL: the name is taken, the segment is still empty.     *)
ChannelCreate(p) ==
    /\ reader[p].at = "down" /\ named[PortOf[p]] = NoSeg /\ segs < MaxSegs
    /\ segs' = segs + 1 /\ named' = [named EXCEPT ![PortOf[p]] = segs']
    /\ reader' = [reader EXCEPT ![p] = At("creating", segs', "create")]
    /\ UNCHANGED <<ready, owner, queue, cache, sends, unlinked, left, hurried>>

(* ftruncate or mmap fails: the name goes again, the constructor throws.    *)
CreateFails(p) ==
    /\ reader[p].at = "creating" /\ reader' = [reader EXCEPT ![p] = Down]
    /\ named' = [named EXCEPT ![PortOf[p]] = NoSeg]
    /\ UNCHANGED <<ready, owner, queue, cache, segs, sends, unlinked, left, hurried>>

(* Magic and capacity: from here on Open succeeds.                          *)
CreatePublish(p) ==
    /\ reader[p].at = "creating" /\ ready' = ready \cup {reader[p].seg}
    /\ reader' = [reader EXCEPT ![p].at = "clearing"]
    /\ UNCHANGED <<named, owner, queue, cache, segs, sends, unlinked, left, hurried>>

(* write_pos and read_pos := 0: what is in the segment already is wiped.    *)
CreateClear(p) ==
    /\ reader[p].at = "clearing" /\ reader' = [reader EXCEPT ![p].at = "disowning"]
    /\ LET s == reader[p].seg
       IN  queue' = [queue EXCEPT ![s] = <<>>] /\ left' = left \cup Range(queue[s])
    /\ UNCHANGED <<named, ready, owner, cache, segs, sends, unlinked, hurried>>

(* owner_pid := 0, over a claim perhaps; then the receive thread starts.    *)
(* The creator does not enter itself as the owner.                          *)
CreateDisown(p) ==
    /\ reader[p].at = "disowning" /\ reader' = [reader EXCEPT ![p].at = "running"]
    /\ owner' = [owner EXCEPT ![reader[p].seg] = Nobody]
    /\ UNCHANGED <<named, ready, queue, cache, segs, sends, unlinked, left, hurried>>

(* Create fails, the name is taken: Open maps the segment it denotes.  If   *)
(* its header is not filled in, the constructor throws.                     *)
ChannelOpen(p) ==
    /\ reader[p].at = "down" /\ named[PortOf[p]] \in ready
    /\ reader' = [reader EXCEPT ![p] = At("claiming", named[PortOf[p]], "none")]
    /\ UNCHANGED <<named, ready, owner, queue, cache, segs, sends, unlinked, left, hurried>>

(* kill(pid, 0) fails with ESRCH.                                           *)
Dead(pid) == pid # Nobody /\ reader[pid].at = "down"

(* Faulty variant: it is not checked whether the owner is alive.            *)
MayClaim_Anyone(p, s) == TRUE

MayClaim(p, s) == owner[s] = Nobody \/ (owner[s] # p /\ Dead(owner[s]))

(* Faulty variant: the segment that is left is replaced by a new one.       *)
ClaimOwnership_Recreate(p) ==
    /\ reader[p].at = "claiming" /\ segs < MaxSegs
    /\ segs' = segs + 1 /\ named' = [named EXCEPT ![PortOf[p]] = segs']
    /\ ready' = ready \cup {segs'}
    /\ reader' = [reader EXCEPT ![p] = At("running", segs', "create")]
    /\ UNCHANGED <<owner, queue, cache, sends, unlinked, left, hurried>>

(* Create has made the segment openable and still has fields to write.      *)
Unfinished(s) == \E p \in Readers : /\ reader[p].at \in {"clearing", "disowning"}
                                     /\ reader[p].seg = s

(* ClaimOwnership: reset a segment without a live owner and own it; keep    *)
(* one's own as it is; otherwise the constructor throws.                    *)
ClaimOwnership(p) ==
    /\ reader[p].at = "claiming"
    /\ LET s == reader[p].seg IN
       \/ /\ MayClaim(p, s)
          /\ owner' = [owner EXCEPT ![s] = p]
          /\ queue' = [queue EXCEPT ![s] = <<>>] /\ left' = left \cup Range(queue[s])
          /\ reader' = [reader EXCEPT ![p] = At("running", s, "claim")]
          /\ hurried' = IF Unfinished(s) THEN hurried \cup {s} ELSE hurried
       \/ /\ ~MayClaim(p, s) /\ owner[s] = p
          /\ reader' = [reader EXCEPT ![p] = At("running", s, "claim")]
          /\ hurried' = IF Unfinished(s) THEN hurried \cup {s} ELSE hurried
          /\ UNCHANGED <<owner, queue, left>>
       \/ /\ ~MayClaim(p, s) /\ owner[s] # p
          /\ reader' = [reader EXCEPT ![p] = Down]
          /\ UNCHANGED <<owner, queue, left, hurried>>
    /\ UNCHANGED <<named, ready, cache, segs, sends, unlinked>>

(* The receive thread reads a message and hands it on.                      *)
Receive(p) ==
    /\ reader[p].at = "running" /\ queue[reader[p].seg] # <<>>
    /\ queue' = [queue EXCEPT ![reader[p].seg] = Tail(@)]
    /\ left' = left \cup {Head(queue[reader[p].seg])}
    /\ UNCHANGED <<named, ready, owner, reader, cache, segs, sends, unlinked, hurried>>

(* stop: join the receive thread, unlink whatever has the name now.         *)
ChannelStop(p) ==
    /\ reader[p].at = "running"
    /\ named' = [named EXCEPT ![PortOf[p]] = NoSeg] /\ unlinked' = TRUE
    /\ reader' = [reader EXCEPT ![p] = Down]
    /\ UNCHANGED <<ready, owner, queue, cache, segs, sends, left, hurried>>

(* Anywhere, in the middle of Create too.                                   *)
ReaderCrash(p) ==
    /\ reader[p].at # "down" /\ reader' = [reader EXCEPT ![p] = Down]
    /\ UNCHANGED <<named, ready, owner, queue, cache, segs, sends, unlinked, left, hurried>>

-----------------------------------------------------------------------------
(* Writers.                                                                 *)

(* open_bucket: the segment opened first is kept for good.                  *)
Bucket(w, d) ==
    IF cache[w][d] # NoSeg THEN cache[w][d]
    ELSE IF named[d] \in ready THEN named[d] ELSE NoSeg

(* is_locator_reachable: the question whether a port has a bucket fills the *)
(* cache, too.                                                              *)
Reachable(w, d) ==
    /\ cache' = [cache EXCEPT ![w][d] = Bucket(w, d)]
    /\ UNCHANGED <<readers, queue, sends, left>>

SendBegin(w, ds) ==
    /\ sending[w] = <<>> /\ sent < MaxMsgs /\ sent' = sent + 1
    /\ sending' = [sending EXCEPT ![w] = <<[no |-> sent', all |-> Range(ds), rest |-> ds,
                                           ret |-> TRUE, late |-> FALSE]>>]
    /\ UNCHANGED <<readers, queue, cache, left, returned>>

(* The one deadline of the send passes; nobody looks at it before a         *)
(* destination is full.                                                     *)
DeadlinePasses(w) ==
    /\ sending[w] # <<>> /\ ~sending[w][1].late /\ sending[w][1].rest # <<>>
    /\ LET s == Bucket(w, Head(sending[w][1].rest))
       IN  s # NoSeg /\ Len(queue[s]) = Capacity
    /\ sending' = [sending EXCEPT ![w] = <<[@[1] EXCEPT !.late = TRUE]>>]
    /\ UNCHANGED <<readers, queue, cache, sent, left, returned>>

(* Faulty variant: the result is the last destination's.                    *)
Result_OfLast(ret, done) == done

Result(ret, done) == ret /\ done

(* The next destination of a send in progress: nobody has made its bucket;  *)
(* or there is room, deadline or not; or it has been full until the         *)
(* deadline.  The others get their turn all the same.                       *)
SendNext(w) ==
    /\ sending[w] # <<>> /\ sending[w][1].rest # <<>>
    /\ LET it == sending[w][1]
           d == Head(it.rest)
           s == Bucket(w, d)
           Done(done) == sending' = [sending EXCEPT ![w] =
                             <<[it EXCEPT !.rest = Tail(@), !.ret = Result(@, done)]>>]
       IN  /\ cache' = [cache EXCEPT ![w][d] = s]
           /\ \/ s = NoSeg /\ Done(FALSE) /\ UNCHANGED queue
              \/ /\ s # NoSeg /\ Len(queue[s]) < Capacity /\ Done(TRUE)
                 /\ queue' = [queue EXCEPT ![s] = Append(@, <<d, it.no>>)]
              \/ /\ s # NoSeg /\ Len(queue[s]) = Capacity /\ it.late /\ Done(FALSE)
                 /\ UNCHANGED queue
    /\ UNCHANGED <<readers, sent, left, returned>>

SendReturns(w) ==
    /\ sending[w] # <<>> /\ sending[w][1].rest = <<>>
    /\ LET it == sending[w][1]
       IN  returned' = returned \cup {[no |-> it.no, all |-> it.all, ret |-> it.ret]}
    /\ sending' = [sending EXCEPT ![w] = <<>>]
    /\ UNCHANGED <<readers, queue, cache, sent, left>>

(* A writer process ends, in the middle of a send perhaps, and comes back   *)
(* with an empty cache.                                                     *)
WriterRestart(w) ==
    /\ \E d \in Ports : cache[w][d] # NoSeg
    /\ cache' = [cache EXCEPT ![w] = [d \in Ports |-> NoSeg]]
    /\ sending' = [sending EXCEPT ![w] = <<>>]
    /\ UNCHANGED <<readers, queue, sent, left, returned>>

-----------------------------------------------------------------------------
CreateStep(p) == CreateFails(p) \/ CreatePublish(p) \/ CreateClear(p) \/ CreateDisown(p)
ReaderStep(p) == ChannelOpen(p) \/ ClaimOwnership(p) \/ Receive(p)

Next ==
    \/ \E p \in Readers : \/ ChannelCreate(p) \/ CreateStep(p) \/ ReaderStep(p)
                          \/ ChannelStop(p) \/ ReaderCrash(p)
    \/ \E w \in Writers : \/ \E d \in Ports : Reachable(w, d)
                          \/ \E ds \in Selected : SendBegin(w, ds)
                          \/ DeadlinePasses(w) \/ SendNext(w) \/ SendReturns(w)
                          \/ WriterRestart(w)

Spec == Init /\ [][Next]_vars

-----------------------------------------------------------------------------
Sends == [no : 1..MaxMsgs, all : SUBSET Ports, rest : Seq(Ports), ret : BOOLEAN,
          late : BOOLEAN]

Places == {"down", "creating", "clearing", "disowning", "claiming", "running"}

(* Every variable has its type.                                             *)
TypeOK ==
    /\ named \in [Ports -> 0..segs] /\ segs \in 0..MaxSegs /\ sent \in 0..MaxMsgs
    /\ owner \in [Segs -> Readers \cup {Nobody}]
    /\ queue \in [Segs -> Seq(Ports \X (1..MaxMsgs))]
    /\ \A s \in Segs : Len(queue[s]) <= Capacity
    /\ reader \in [Readers ->
                     [at : Places, seg : 0..MaxSegs, by : {"none", "create", "claim"}]]
    /\ \A p \in Readers : reader[p].at # "down" => reader[p].seg \in 1..segs
    /\ cache \in [Writers -> [Ports -> 0..segs]]
    /\ sending \in [Writers -> Seq(Sends)]
    /\ returned \subseteq [no : 1..MaxMsgs, all : SUBSET Ports, ret : BOOLEAN]
    /\ left \subseteq Ports \X (1..MaxMsgs)
    /\ unlinked \in BOOLEAN /\ ready \subseteq 1..segs /\ hurried \subseteq Segs

Serving(p, s) == reader[p].at = "running" /\ reader[p].seg = s

(* Of the readers that obtained a segment by claiming it, one at most       *)
(* serves it: a claim never takes a segment from a live claimant, whatever  *)
(* crashes and restarts came before, half-made segments included.  A claim  *)
(* made while the creator is still at work is excepted: the creator wipes   *)
(* it out (ClaimKept).                                                      *)
OneClaimant ==
    \A s \in Segs \ hurried, p, q \in Readers :
        /\ Serving(p, s) /\ reader[p].by = "claim"
        /\ Serving(q, s) /\ reader[q].by = "claim"
        => p = q

(* A crash of the reader does not strand a writer: as long as no reader has *)
(* stopped in order, the segment a writer keeps is the one a reader that    *)
(* runs serves.                                                             *)
CrashKeepsWriters ==
    ~unlinked =>
        \A w \in Writers, p \in Readers :
            cache[w][PortOf[p]] # NoSeg /\ reader[p].at = "running"
                => reader[p].seg = cache[w][PortOf[p]]

(* The message is in a segment of the port, or has been there until it was  *)
(* received, or wiped by a claim or by the creator's own reset.             *)
Put(d, no) == <<d, no>> \in left \/ \E s \in Segs : <<d, no>> \in Range(queue[s])

(* A send returns true exactly when a segment of every destination has      *)
(* accepted the message, whichever of them has no bucket, has one that is   *)
(* still being made, is full or is taken over meanwhile.                    *)
SendTruth == \A r \in returned : r.ret <=> \A d \in r.all : Put(d, r.no)

(* No two readers serve a segment at once.                                  *)
OneReader ==
    \A s \in Segs, p, q \in Readers : Serving(p, s) /\ Serving(q, s) => p = q

(* A reader that serves what it has claimed owns it in the header.          *)
ClaimKept ==
    \A p \in Readers : reader[p].at = "running" /\ reader[p].by = "claim"
                           => owner[reader[p].seg] = p

(* A message that a segment has accepted is not wiped by its creator.       *)
FreshIsEmpty == \A p \in Readers : reader[p].at = "clearing" => queue[reader[p].seg] = <<>>

(* A name that nobody is creating any more denotes a segment that a reader  *)
(* can open and claim.                                                      *)
LeftCanBeClaimed ==
    \A d \in Ports :
        \/ named[d] = NoSeg \/ named[d] \in ready
        \/ \E p \in Readers : reader[p].at = "creating" /\ reader[p].seg = named[d]

(* A segment is removed only when nobody uses it any more.                  *)
RemovedUnused ==
    [][\A w \in Writers, d \in Ports :
           named[d] # NoSeg /\ named'[d] = NoSeg => cache[w][d] # named[d]]_vars
=============================================================================
