---------------------------- MODULE DataFactory ----------------------------
(***************************************************************************)
(* The data thread's business: it takes task handshakes, cuts frames into  *)
(* slices that it caches per measured object and reports, and judges every *)
(* frame's processing time by a budget the control thread can change.      *)
(* Task activations reach it through the task thread, which registers them *)
(* and forwards the message as it came.                                    *)
(*                                                                         *)
(* A slice is identified by the number of the frame it was cut from, so    *)
(* that a report shows which frame each of its values belongs to.          *)
(***************************************************************************)
EXTENDS CachePool, Sequences, FiniteSets

CONSTANTS
    NIds,         \* data ids of the CELL domain, in the order of the layout
    AggCap,       \* slices a report has room for (kCap)
    Activations,  \* TaskActiveMsg: [taskId, type, dataIdCount, dataId0]
    Requests,     \* TaskRequest: [taskId, status]
    MaxTasks,     \* kMaxTasks
    Budgets,      \* pairs [warn, alarm] an operator asks for
    InitBudget,   \* thresholds at start
    Times,        \* processing times of a frame
    MaxFrames     \* bound: frames received

ASSUME DataAssumption ==
    NIds \in Nat /\ AggCap \in Nat /\ MaxTasks \in Nat /\ MaxFrames \in Nat

VARIABLES
    bypass,       \* DETMW_DATA_BYPASS, read once: "FULL", "RECV" or "PROCESS"
    tasks,        \* TaskManager::m_tasks
    inbox,        \* activations on their way from task to data thread
    currentTask,  \* m_currentTask
    seq,          \* m_seq
    content,      \* block -> data id -> frame its slice was cut from
    out,          \* the last report given to the sink
    counts,       \* g_skipTask and m_stats; history: frames, reports, slices
    budget,       \* m_budgetWarnUs, m_budgetAlarmUs
    setting,      \* the alarm threshold SetBudget has still to store
    judging       \* the frame being judged: place, loaded warn threshold

taskVars == <<tasks, inbox>>
budgetVars == <<budget, setting>>
vars == <<poolVars, bypass, taskVars, currentTask, seq, content, out, counts,
          budgetVars, judging>>

Ids == 1..NIds
NoReport == [task |-> 0, seq |-> 0, frame |-> 0, slices |-> [d \in {} |-> 0]]
Idle == [at |-> "idle", warn |-> 0]

(* A frame by what its bytes say: its domain, its object's key and how many *)
(* slices of the layout it is long enough for.  One too short for its head  *)
(* has the placeholder key 0 and no slice.                                  *)
Frames == [domain : {"CELL", "UE"}, key : Keys, fits : 0..NIds]

Init ==
    /\ PoolInit /\ bypass \in {"FULL", "RECV", "PROCESS"}
    /\ tasks = {} /\ inbox = <<>>
    /\ currentTask = 0 /\ seq = 0
    /\ content = [i \in Slots |-> [d \in Ids |-> 0]]
    /\ out = NoReport
    /\ counts = [received |-> 0, skipTask |-> 0, dropPoolFull |-> 0, frames |-> 0,
                 keyFail |-> 0, cut |-> 0, overCap |-> 0, sent |-> 0, reported |-> 0,
                 empty |-> 0, warn |-> 0, alarm |-> 0]
    /\ budget = InitBudget /\ setting = 0 /\ judging = Idle

-----------------------------------------------------------------------------
(* The task thread.                                                         *)

(* OnTaskActive: register the task, forward the message's bytes.            *)
TaskActive(a) ==
    /\ a.dataIdCount <= 8
    /\ Cardinality(tasks) < MaxTasks /\ a.taskId \notin tasks
    /\ tasks' = tasks \cup {a.taskId}
    /\ inbox' = Append(inbox, a)
    /\ UNCHANGED <<poolVars, currentTask, seq, content, out, counts, budgetVars,
                   judging>>

(* The first eight bytes of a TaskActiveMsg, read as a TaskRequest.         *)
AsRequest(a) == [taskId |-> a.taskId + 65536 * a.type,
                 status |-> a.dataIdCount + 65536 * a.dataId0]

-----------------------------------------------------------------------------
(* The data thread.                                                         *)

(* OnTaskActive: only a successful handshake sets the current task.         *)
Handshake(r) == currentTask' = IF r.status = 1 THEN r.taskId ELSE currentTask

OnTaskRequest(r) ==
    /\ judging = Idle
    /\ Handshake(r)
    /\ UNCHANGED <<poolVars, taskVars, seq, content, out, counts, budgetVars, judging>>

OnForwarded ==
    /\ judging = Idle /\ inbox # <<>>
    /\ Handshake(AsRequest(Head(inbox)))
    /\ inbox' = Tail(inbox)
    /\ UNCHANGED <<poolVars, tasks, seq, content, out, counts, budgetVars, judging>>

(* DataFactory::Process, its early returns.                                 *)
Received == [counts EXCEPT !.received = @ + 1]

Skip(f) ==
    /\ counts' = IF bypass = "RECV" THEN Received
                 ELSE [Received EXCEPT !.skipTask = @ + 1]
    /\ bypass = "RECV" \/ currentTask = 0
    /\ UNCHANGED <<poolVars, seq, content, out, judging>>

KeyChecked(f) == [Received EXCEPT !.keyFail = IF f.key = 0 THEN @ + 1 ELSE @]

(* No region for the domain, or no block left in it: the frame is dropped.  *)
HasBlock(f) == f.domain = "CELL" /\ Acquired(f.key) # None

Drop(f) ==
    /\ ~HasBlock(f)
    /\ counts' = [KeyChecked(f) EXCEPT !.dropPoolFull = @ + 1]
    /\ UNCHANGED <<poolVars, seq, content, out, judging>>

(* Faulty variant: a slice the frame is too short for is reported from the  *)
(* cache.                                                                   *)
CutSlices_Unchecked(f) == IF f.fits > 0 THEN Ids ELSE {}

(* The slices that Extra can cut from the frame.                            *)
CutSlices(f) == 1..f.fits

(* Which of them a report holds: the registry is unordered, so when there   *)
(* is no room for all of them any may be left out.                          *)
Packed(S) ==
    {T \in SUBSET S : Cardinality(T) = IF Cardinality(S) <= AggCap
                                         THEN Cardinality(S) ELSE AggCap}

(* ReportAggregator::Flush: an empty report is not sent.                    *)
Flush(T, values) ==
    out' = IF T = {} THEN out
           ELSE [task |-> currentTask, seq |-> seq', frame |-> counts.received + 1,
                 slices |-> [d \in T |-> values[d]]]

(* Faulty variant: a slice there is no room for is dropped silently.        *)
Added_Silent(f, T) ==
    [KeyChecked(f) EXCEPT !.cut = @ + Cardinality(CutSlices(f))]

(* ReportAggregator::Add counts the slices it has no room for.              *)
Added(f, T) ==
    [KeyChecked(f) EXCEPT
        !.cut = @ + Cardinality(CutSlices(f)),
        !.overCap = @ + Cardinality(CutSlices(f)) - Cardinality(T)]

(* Acquire the object's block, cut the slices into it, pack and send them.  *)
(* The sequence number advances whether or not a report is sent.            *)
Cut(f) ==
    /\ HasBlock(f)
    /\ AcquireBlock(f.key)
    /\ LET s == Acquired(f.key)
           now == counts.received + 1
           values == [d \in Ids |-> IF d \in 1..f.fits THEN now ELSE content[s][d]]
       IN  \E T \in Packed(CutSlices(f)) :
             /\ content' = [content EXCEPT ![s] = values]
             /\ IF bypass = "PROCESS"
                  THEN counts' = Added(f, T) /\ UNCHANGED <<seq, out, judging>>
                  ELSE /\ seq' = seq + 1
                       /\ Flush(T, values)
                       /\ counts' = [Added(f, T) EXCEPT
                              !.frames = @ + 1,
                              !.reported = IF out' # out THEN @ + 1 ELSE @,
                              !.sent = IF out' # out
                                         THEN @ + Cardinality(DOMAIN out'.slices) ELSE @,
                              !.empty = IF T = {} THEN @ + 1 ELSE @]
                       /\ judging' = [at |-> "warn", warn |-> 0]

Process(f) ==
    /\ judging = Idle /\ counts.received < MaxFrames
    /\ \/ Skip(f)
       \/ bypass # "RECV" /\ currentTask # 0 /\ (Drop(f) \/ Cut(f))
    /\ UNCHANGED <<taskVars, currentTask, budgetVars>>

(* The budget: the two thresholds are loaded one after the other.           *)
LoadWarn ==
    /\ judging.at = "warn"
    /\ judging' = [at |-> "alarm", warn |-> budget.warn]
    /\ UNCHANGED <<poolVars, taskVars, currentTask, seq, content, out, counts,
                   budgetVars>>

Judge(us) ==
    /\ judging.at = "alarm"
    /\ counts' = CASE us >= budget.alarm -> [counts EXCEPT !.alarm = @ + 1]
                   [] us < budget.alarm /\ us >= judging.warn ->
                        [counts EXCEPT !.warn = @ + 1]
                   [] OTHER -> counts
    /\ judging' = Idle
    /\ UNCHANGED <<poolVars, taskVars, currentTask, seq, content, out, budgetVars>>

(* MSG_ID_TIMER.                                                            *)
Timer ==
    /\ judging = Idle
    /\ OnTick
    /\ UNCHANGED <<taskVars, currentTask, seq, content, out, counts, budgetVars,
                   judging>>

-----------------------------------------------------------------------------
(* The control thread: SetBudget refuses an unordered pair and stores the   *)
(* two thresholds one after the other.                                      *)
SetBudget(b) ==
    /\ setting = 0
    /\ b.warn > 0 /\ b.alarm > 0 /\ b.warn <= b.alarm
    /\ budget' = [budget EXCEPT !.warn = b.warn]
    /\ setting' = b.alarm
    /\ UNCHANGED <<poolVars, taskVars, currentTask, seq, content, out, counts, judging>>

StoreAlarm ==
    /\ setting # 0
    /\ budget' = [budget EXCEPT !.alarm = setting]
    /\ setting' = 0
    /\ UNCHANGED <<poolVars, taskVars, currentTask, seq, content, out, counts, judging>>

-----------------------------------------------------------------------------
Step ==
    \/ \E a \in Activations : TaskActive(a)
    \/ \E r \in Requests : OnTaskRequest(r)
    \/ OnForwarded
    \/ \E f \in Frames : Process(f)
    \/ LoadWarn \/ \E us \in Times : Judge(us)
    \/ Timer
    \/ \E b \in Budgets : SetBudget(b)
    \/ StoreAlarm

Next == Step /\ UNCHANGED bypass

Spec == Init /\ [][Next]_vars

-----------------------------------------------------------------------------
(* Properties.                                                              *)

(* Every variable has its type.                                             *)
TypeOK ==
    /\ PoolTypeOK
    /\ inbox \in Seq(Activations)
    /\ currentTask \in Nat /\ seq \in 0..MaxFrames
    /\ content \in [Slots -> [Ids -> 0..MaxFrames]]
    /\ Cardinality(DOMAIN out.slices) <= AggCap
    /\ \A c \in DOMAIN counts : counts[c] \in Nat
    /\ judging.at \in {"idle", "warn", "alarm"}

(* Every value of a report was cut from the frame that is being reported:   *)
(* although blocks are reused uncleared and frames may be truncated, no     *)
(* value of another object or of an earlier frame is sent.                  *)
NoForeignData == \A d \in DOMAIN out.slices : out.slices[d] = out.frame

(* No frame disappears unaccounted, and no slice that was cut from one: a   *)
(* frame is skipped for want of a task, dropped and counted, reported, or   *)
(* had no slice to report; a slice is in a report that was sent, or counted *)
(* as beyond a report's capacity; a frame is judged at most once.  In the   *)
(* two isolation modes nothing is sent and no sequence number spent.        *)
Accounted ==
    IF bypass # "FULL" THEN out = NoReport /\ seq = 0 ELSE
    /\ counts.received = counts.skipTask + counts.dropPoolFull + counts.frames
    /\ counts.frames = counts.reported + counts.empty
    /\ counts.cut = counts.sent + counts.overCap
    /\ counts.warn + counts.alarm <= counts.frames

(* The thresholds a frame is judged by are a pair SetBudget accepts:        *)
(* warn <= alarm.                                                           *)
BudgetOrdered == judging.at = "alarm" => judging.warn <= budget.alarm

(* An activation that the task thread accepted makes its task the current   *)
(* one when it reaches the data thread.                                     *)
ActivationTaken ==
    [][OnForwarded => currentTask' = Head(inbox).taskId]_vars
=============================================================================
