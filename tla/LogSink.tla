------------------------------ MODULE LogSink ------------------------------
(***************************************************************************)
(* The rotating log sink (TsRotatingSink): messages are appended to a file *)
(* named after the second in which it was opened; a file that is full is   *)
(* followed by a new one, and then the oldest files are deleted until the  *)
(* directory is within its limit.  spdlog serialises the calls.            *)
(*                                                                         *)
(* A file name is the second and the number that tells files of one second *)
(* apart.  A write time is the number of the message.                      *)
(***************************************************************************)
EXTENDS Naturals, FiniteSetsExt

CONSTANTS
    MaxSize,    \* m_maxSize
    MaxTotal,   \* m_maxTotal
    MsgSizes,   \* formatted sizes of messages
    LastSecond, \* bound: the clock stops there
    MaxMsgs     \* bound: messages logged

ASSUME SinkAssumption ==
    /\ MaxSize \in Nat \ {0} /\ MaxTotal \in Nat /\ LastSecond \in Nat
    /\ MsgSizes \subseteq Nat \ {0} /\ MaxMsgs \in Nat

VARIABLES
    files,      \* the directory: name -> [size, mtime]
    current,    \* m_currentPath
    open,       \* m_file # nullptr
    bytes,      \* m_bytes
    openFailed, \* m_openFailed
    now,        \* the clock's second
    logged      \* messages so far

vars == <<files, current, open, bytes, openFailed, now, logged>>

NoPath == <<>>

Init ==
    /\ files = [f \in {} |-> 0] /\ current = NoPath /\ open = FALSE
    /\ bytes = 0 /\ openFailed = FALSE /\ now = 0 /\ logged = 0

(* The first of ts, ts-1, ... that is not the current file's name.          *)
NewPath(cur) == IF <<now, 0>> # cur THEN <<now, 0>> ELSE <<now, 1>>

-----------------------------------------------------------------------------
(* Deleting files.                                                          *)
Total(fs) == MapThenSumSet(LAMBDA f : fs[f].size, DOMAIN fs)

SizeOf(fs, S) == MapThenSumSet(LAMBDA f : fs[f].size, S)

Candidates(fs, cur) == DOMAIN fs \ {cur}

(* Faulty variant: the newest file goes first.                              *)
Before_Newest(fs, f, g) == fs[f].mtime > fs[g].mtime

Before(fs, f, g) == fs[f].mtime < fs[g].mtime

(* EvictOldestIfNeeded: oldest first, as long as the total with the ones    *)
(* before it gone is still over the limit; never the current file.          *)
Victims(fs, cur) ==
    {f \in Candidates(fs, cur) :
        Total(fs) - SizeOf(fs, {g \in Candidates(fs, cur) : Before(fs, g, f)})
            > MaxTotal}

(* Faulty variant: the directory is left as it is.                          *)
EvictOldestIfNeeded_Never(fs, cur) == fs

EvictOldestIfNeeded(fs, cur) ==
    [f \in DOMAIN fs \ Victims(fs, cur) |-> fs[f]]

-----------------------------------------------------------------------------
(* The directory with file p opened for appending by message t.             *)
Opened(fs, p, t) ==
    [f \in DOMAIN fs \cup {p} |->
        IF f \in DOMAIN fs THEN fs[f] ELSE [size |-> 0, mtime |-> t]]

(* The directory after message t has appended n bytes to p.                 *)
Appended(fs, p, n, t) ==
    [fs EXCEPT ![p] = [size |-> @.size + n, mtime |-> t]]

(* sink_it_: open a file if there is none, append; a full file is closed    *)
(* and the next one opened, which can fail for good, at the directory (the  *)
(* old path is kept) or at the file (it is cleared); then delete.           *)
Log(n, opening) ==
    /\ ~openFailed /\ logged < MaxMsgs
    /\ logged' = logged + 1
    /\ LET cur == IF open THEN current ELSE NewPath(current)
           written == Appended(Opened(files, cur, logged'), cur, n, logged')
           size == IF open THEN bytes + n ELSE n
           ok == opening = "ok"
           next == CASE opening = "ok" -> NewPath(cur)
                     [] opening = "nodir" -> cur
                     [] opening = "nofile" -> NoPath
       IN  IF size < MaxSize
             THEN /\ files' = written /\ current' = cur /\ open' = TRUE
                  /\ bytes' = size
                  /\ UNCHANGED openFailed
             ELSE /\ files' = EvictOldestIfNeeded(
                                IF ok THEN Opened(written, next, logged') ELSE written,
                                next)
                  /\ current' = next /\ open' = ok /\ openFailed' = ~ok
                  /\ bytes' = IF opening = "nodir" THEN size ELSE 0
    /\ UNCHANGED now

(* sink_it_ when the first file cannot be opened: the message is dropped.   *)
OpenFails ==
    /\ ~open /\ ~openFailed
    /\ openFailed' = TRUE
    /\ UNCHANGED <<files, current, open, bytes, now, logged>>

(* The process ends and is started again; the directory stays.              *)
Restart ==
    /\ open \/ openFailed
    /\ current' = NoPath /\ open' = FALSE /\ bytes' = 0 /\ openFailed' = FALSE
    /\ UNCHANGED <<files, now, logged>>

Second ==
    /\ now < LastSecond
    /\ now' = now + 1
    /\ UNCHANGED <<files, current, open, bytes, openFailed, logged>>

Next ==
    \/ \E n \in MsgSizes, o \in {"ok", "nodir", "nofile"} : Log(n, o)
    \/ OpenFails
    \/ Restart
    \/ Second

Spec == Init /\ [][Next]_vars

-----------------------------------------------------------------------------
(* Properties.                                                              *)

(* Every variable has its type; an open file is in the directory.           *)
TypeOK ==
    /\ \A f \in DOMAIN files : /\ f[1] \in 0..LastSecond /\ f[2] \in {0, 1}
                               /\ files[f].size \in Nat
                               /\ files[f].mtime \in 0..MaxMsgs
    /\ open \in BOOLEAN /\ openFailed \in BOOLEAN
    /\ open => current \in DOMAIN files
    /\ bytes \in Nat /\ now \in 0..LastSecond /\ logged \in 0..MaxMsgs

(* A message filled the file in use and the next one was opened.            *)
Rotated == logged' # logged /\ open' /\ bytes' = 0

(* After every rotation the directory is within its limit, or holds nothing *)
(* but the file in use, even though a file can be reopened and filled again *)
(* and its size is counted from zero then.                                  *)
WithinLimit ==
    [][Rotated => Total(files') <= MaxTotal \/ DOMAIN files' = {current'}]_vars

LastWrite(f) == IF f = current THEN logged' ELSE files[f].mtime

(* A file is deleted only together with all the files written before it,    *)
(* apart from the one in use, which is never deleted.                       *)
OldestGoFirst ==
    [][/\ open' => current' \in DOMAIN files'
       /\ \A f \in DOMAIN files \ DOMAIN files', g \in DOMAIN files' \ {current'} :
            LastWrite(f) <= files'[g].mtime]_vars

(* A rotation goes on in a file that did not exist.                         *)
RotatesToFresh ==
    [][open /\ Rotated => current' \notin DOMAIN files]_vars
=============================================================================
