--------------------------- MODULE MCDataFactory ---------------------------
(* Instances of DataFactory for TLC: a region of two blocks for two objects *)
(* of the same home, two slices per frame, a new threshold pair.            *)
EXTENDS DataFactory

MCActivations == {[taskId |-> 1, type |-> 2, dataIdCount |-> 1, dataId0 |-> 5]}
MCRequests == [taskId : {7}, status : {0, 1}]
MCBudgets == {[warn |-> 3, alarm |-> 4]}
MCInitBudget == [warn |-> 1, alarm |-> 2]
=============================================================================
