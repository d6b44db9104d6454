---------------------------- MODULE DkronFigures ----------------------------
(***************************************************************************)
(* The figures and words the web UI shows about executions, as functions   *)
(* of what one server stores: the summary of the analytics endpoint        *)
(* (api_analytics.go) on the dashboard, the chart of the last 30 days, and *)
(* the words for the status of a job and of an execution.                  *)
(*                                                                         *)
(* Days are the 30 days of the chart: an execution that finished earlier   *)
(* is not modelled.                                                        *)
(***************************************************************************)
EXTENDS DkronStore, Functions

CONSTANT NodeOf  \* the node an execution runs on, part of its key

ASSUME NodeAssumption == DOMAIN NodeOf = Keys

-----------------------------------------------------------------------------
(* GET /v1/analytics *)

NoFigures == [total |-> 0, successful |-> 0, failed |-> 0, samples |-> 0,
              duration |-> 0, shortest |-> 0, longest |-> 0, last |-> 0]

\* Wrong: the shortest duration starts from zero like the longest.
WrongShorter(shortest, d) == IF d < shortest THEN d ELSE shortest

\* A shortest duration of zero counts as not set yet.
Shorter(shortest, d) == IF shortest = 0 \/ d < shortest THEN d ELSE shortest

\* An execution that runs counts as failed, and one that carries the finish
\* of an earlier attempt has no duration.
AddTo(f, k) ==
  LET e == execs[k]
      g == [f EXCEPT !.total = @ + 1,
                     !.successful = @ + (IF e.success THEN 1 ELSE 0),
                     !.failed = @ + (IF e.success THEN 0 ELSE 1),
                     !.last = Later(@, e.finished)]
  IN IF e.finished < k THEN g
     ELSE [g EXCEPT !.samples = @ + 1, !.duration = @ + e.finished - k,
                    !.shortest = Shorter(@, e.finished - k),
                    !.longest = Later(@, e.finished - k)]

\* One stored execution, for the summary and for its node.
AddExecution(f, k) ==
  [f EXCEPT !.summary = AddTo(@, k), !.byNode[NodeOf[k]] = AddTo(@, k)]

StoredExecutions == {k \in Keys : execs[k] # NoExecution}

NothingAdded == [summary |-> NoFigures, byNode |-> [n \in Range(NodeOf) |-> NoFigures]]

\* The store lists executions by job and key. Added in the order of their starts the figures are
\* the same, unless an execution took no time: zero is how the minimum says that nothing is measured.
Analytics ==
  MapThenFoldSet(LAMBDA k, f : AddExecution(f, k), NothingAdded,
                 LAMBDA k : k, LAMBDA S : Max(S), StoredExecutions)

-----------------------------------------------------------------------------
(* What the dashboard and the pages of jobs show *)

\* AnalyticsStats: the tiles (the rates and the average as dividend and divisor), ...
MetricItems(f) ==
  [successful |-> f.successful, failed |-> f.failed, failureRate |-> <<f.failed, f.total>>,
   samples |-> f.samples, minimum |-> f.shortest, maximum |-> f.longest, last |-> f.last]

\* ... and the table "Executions by node".
NodeEntries(byNode) ==
  {[node |-> n, total |-> byNode[n].total, successful |-> byNode[n].successful,
    failed |-> byNode[n].failed, average |-> <<byNode[n].duration, byNode[n].samples>>] :
     n \in {m \in DOMAIN byNode : byNode[m].total > 0}}

\* GetJobs without a sort field walks over all keys, not over an index of jobs:
\* executions and days with statistics are read as jobs without a name.
JobsRead ==
  Cardinality({j \in Jobs : Stored(j)}) + Cardinality(StoredExecutions)
    + Cardinality({d \in Days : stats[d].success + stats[d].failed > 0})

\* The cards on top.
Cards(f) == [totalJobs |-> JobsRead, totalExecutions |-> f.total,
             successRate |-> <<f.successful, f.total>>, failedExecutions |-> f.failed,
             average |-> <<f.duration, f.samples>>]

\* The header of the chart: the sums of its two areas.
ChartTotals == [successful |-> MapThenSumSet(LAMBDA d : stats[d].success, Days),
                failed     |-> MapThenSumSet(LAMBDA d : stats[d].failed, Days)]

\* The status of a job in the list of jobs, ...
StatusField(j) == CASE jobs[j].results.status = "success" -> "Success"
                    [] jobs[j].results.status = "failed"  -> "Failed"
                    [] OTHER                              -> "Pending"

\* ... on its page, ...
StatusChip(j) == IF jobs[j].results.status = "" THEN "unknown" ELSE jobs[j].results.status

JobHeader(j) == [schedule |-> jobs[j].schedule, status |-> StatusChip(j)]

\* ... and the statuses by which the list can be filtered.
JobFilter == {"success", "failed", "untriggered"}

Filtered(status) ==
  {j \in {k \in Jobs : Stored(k)} :
     \/ jobs[j].results.status = status
     \/ status = "untriggered" /\ jobs[j].results.status = ""}

\* The icon of an execution in the table of a job.
SuccessField(k) == CASE execs[k].finished = 0 -> "Running"
                     [] execs[k].finished # 0 /\ execs[k].success -> "Success"
                     [] OTHER -> "Failed"

\* getManyReference: the table on the page of a job asks for one page of its
\* executions, sorted, and is given all of them; there is no page without a job.
ExecutionsTable(j) ==
  {[id |-> k, node |-> NodeOf[k], success |-> SuccessField(k)] :
     k \in {m \in StoredExecutions : Stored(j) /\ JobOf[m] = j}}

-----------------------------------------------------------------------------
(* Properties *)

\* The successful executions the dashboard counts, in all and by node, are those
\* that the pages of the jobs show as successful, none of them left behind by a
\* job that is gone, and its chart has seen them all, whatever was trimmed,
\* deleted, repeated or corrected meanwhile (api_analytics.go:46, store.go:296).
ChartCoversAnalytics ==
  LET rows == UNION {ExecutionsTable(j) : j \in Jobs}
      shown == {r \in rows : r.success = "Success"}
      m == MetricItems(Analytics.summary)
  IN /\ m.successful = Cardinality(shown)
     /\ m.successful <= ChartTotals.successful
     /\ \A n \in NodeEntries(Analytics.byNode) :
          n.successful = Cardinality({r \in shown : r.node = n.node})

\* As long as no stored execution took no time at all, minimum, average and
\* maximum are those of the executions that ended, in whatever order they did,
\* and the averages of the nodes lie between them (api_analytics.go:99-116).
DurationsAreMeasured ==
  LET measured == {k \in StoredExecutions : execs[k].finished >= k}
      D == {execs[k].finished - k : k \in measured}
      m == MetricItems(Analytics.summary)
      averages == {Cards(Analytics.summary).average}
                    \cup {n.average : n \in NodeEntries(Analytics.byNode)}
  IN measured # {} /\ 0 \notin D =>
       /\ m.minimum = Min(D) /\ m.maximum = Max(D)
       /\ \A v \in averages :
            m.minimum * v[2] <= v[1] /\ v[1] <= m.maximum * v[2]

\* The status a job is shown with agrees with the counters shown beside it: a
\* job that has counted anything is not Success without a success, nor Failed
\* without an error, a Pending one failed in part, and none is listed as
\* waiting to run (JobList.tsx:33-37, StatusField.tsx).
StatusAgreesWithCounts ==
  \A j \in Jobs : Stored(j) =>
    LET r == jobs[j].results
        lists == {s \in JobFilter : j \in Filtered(s)}
    IN r.successCount + r.errorCount > 0 =>
         CASE StatusField(j) = "Success" -> r.successCount > 0 /\ lists = {"success"}
           [] StatusField(j) = "Failed"  -> r.errorCount > 0 /\ lists = {"failed"}
           [] OTHER -> JobHeader(j).status = "partially_failed" /\ lists = {}

=============================================================================
