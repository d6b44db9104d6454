---------------------------- MODULE MCDkronStore ----------------------------
(***************************************************************************)
(* Values for the constants of DkronStore.                                 *)
(***************************************************************************)
EXTENDS DkronDiagram, DkronFigures, DkronRestore

CONSTANTS a, ab, c

ZeroResults == [successCount |-> 0, errorCount |-> 0,
                lastSuccess |-> 0, lastError |-> 0, status |-> ""]

FreshResults == {ZeroResults}

CleanDependents == {[j \in Jobs |-> 0]}

\* The name "ab" begins with the name "a".
PrefixNames == [j \in Jobs |-> IF j = a THEN {a, ab} \cap Jobs ELSE {j}]

ListingDependents == {d \in [Jobs -> {0, 1}] : Cardinality({j \in Jobs : d[j] = 1}) <= 1}

ExecutionKeys == 1..3
ExecutionJob == [k \in ExecutionKeys |-> IF k = 3 THEN ab ELSE a]
ExecutionGroup == [k \in ExecutionKeys |-> IF k = 3 THEN 3 ELSE 1]

ExecutionNode == [k \in ExecutionKeys |-> IF k = 1 THEN "n1" ELSE "n2"]

NoKeys == {}
NoFunction == [k \in {} |-> 0]

OneDay == [t \in Times |-> 1]
=============================================================================
