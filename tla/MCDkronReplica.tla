--------------------------- MODULE MCDkronReplica ---------------------------
(***************************************************************************)
(* Values for the constants of DkronReplica: a parent a, its child c, two  *)
(* executions of a, and the commands on them.                              *)
(***************************************************************************)
EXTENDS DkronReplica

CONSTANTS a, c

ZeroResults == [successCount |-> 0, errorCount |-> 0,
                lastSuccess |-> 0, lastError |-> 0, status |-> ""]
FreshResults == {ZeroResults}
CleanDependents == {[j \in Jobs |-> 0]}
OwnNames == [j \in Jobs |-> {j}]

ExecutionKeys == {1, 2}
ExecutionJob == [k \in ExecutionKeys |-> a]
ExecutionGroup == [k \in ExecutionKeys |-> k]
OneDay == [t \in Times |-> 1]

Payload(parent) == [parent |-> parent, dependents |-> [j \in Jobs |-> 0],
                    schedule |-> "s", next |-> 0, results |-> ZeroResults]

SetJobOf(j, parent) == [op |-> "SetJob", job |-> j, payload |-> Payload(parent)]

SetJobs == {SetJobOf(a, NoParent), SetJobOf(c, NoParent), SetJobOf(c, a)}

Deletes == {[op |-> "DeleteJob", job |-> j] : j \in Jobs}
             \cup {[op |-> "DeleteExecutions", job |-> a]}

Starts == {[op |-> "SetExecution", key |-> k, finished |-> 0] : k \in Keys}

Dones == {[op |-> "ExecutionDone", key |-> k,
              result |-> [finished |-> k + 1, success |-> TRUE]] : k \in Keys}

AllCommands == SetJobs \cup Deletes \cup Starts \cup Dones
=============================================================================
