----------------------------- MODULE DkronStore -----------------------------
(***************************************************************************)
(* The replicated state machine of dkron: what one server's BuntDB holds   *)
(* (jobs, executions, per-day statistics) and the five commands the raft   *)
(* log carries (fsm.go, store.go).  raft applies the commands of the log   *)
(* one at a time, so each command is one action, with everything the       *)
(* handler does: SetJob includes the writes to the old and the new parent. *)
(*                                                                         *)
(* A command the store rejects returns an error and changes nothing: it is *)
(* a stuttering step here, and its condition is the action's guard.        *)
(*                                                                         *)
(* Time.  A time is a natural number, 0 is Go's zero time (never).  An     *)
(* execution is identified by its key "StartedAt-NodeName" (execution.go,  *)
(* Key); a key is represented by its start time, and the job it belongs to *)
(* and the group it was created in never change (JobOf, GroupOf).          *)
(***************************************************************************)
EXTENDS Naturals, FiniteSets, FiniteSetsExt

CONSTANTS
  Jobs,            \* job names
  NoParent,        \* the empty ParentJob
  NoJob,           \* no job stored under this name
  NamesFrom,       \* NamesFrom[j]: the names that begin with the name j
  Schedules,       \* cron expressions
  Keys,            \* executions, by start time
  NoExecution,     \* no execution stored under this key
  JobOf,           \* the job an execution belongs to
  GroupOf,         \* the group an execution belongs to
  MaxExecutions,   \* store.go's limit on stored executions of one job
  MaxTime,         \* bound: the clock
  MaxCount,        \* bound: success and error counters of a job
  MaxStat,         \* bound: successes and failures of one day
  MaxOccurrences,  \* bound: how often one job lists the same dependent job
  Days,            \* days of the statistics
  DayOf,           \* the day a time falls in
  NextTimes,       \* bound: the run times schedules produce
  PayloadDependents,  \* dependent_jobs lists that SetJob payloads carry
  PayloadResults      \* counters and times that SetJob payloads carry

VARIABLES
  jobs,            \* "jobs:<name>" entries
  execs,           \* "executions:<job>:<key>" entries
  stats            \* "stats:<day>" entries

vars == <<jobs, execs, stats>>

Times == 0..MaxTime

Statuses == {"", "success", "failed", "partially_failed"}

\* A job's dependent_jobs is a list; only how often a job is listed matters.
Dependents == [Jobs -> 0..MaxOccurrences]

\* What running the job has left in its record.
Results == [successCount : 0..MaxCount, errorCount : 0..MaxCount,
            lastSuccess : Times, lastError : Times, status : Statuses]

JobRecord == [parent : Jobs \cup {NoParent}, dependents : Dependents,
              schedule : Schedules, next : NextTimes, results : Results]

ExecutionRecord == [finished : Times, success : BOOLEAN]

DayStat == [success : 0..MaxStat, failed : 0..MaxStat]

\* The counters of a payload are those of a job its sender has read, in this
\* cluster or in a backup: a counter is zero iff nothing was ever counted.
Coherent(r) == /\ (r.successCount > 0) <=> (r.lastSuccess > 0)
               /\ (r.errorCount > 0) <=> (r.lastError > 0)

ASSUME ConstantsAssumption ==
  /\ NoParent \notin Jobs
  /\ NoJob \notin JobRecord
  /\ NoExecution \notin ExecutionRecord
  /\ NamesFrom \in [Jobs -> SUBSET Jobs]
  /\ \A j \in Jobs : j \in NamesFrom[j]
  /\ Keys \subseteq Nat \ {0}
  /\ JobOf \in [Keys -> Jobs]
  /\ DOMAIN GroupOf = Keys
  /\ MaxExecutions \in Nat \ {0}
  /\ MaxTime \in Nat
  /\ MaxCount \in Nat
  /\ MaxStat \in Nat
  /\ MaxOccurrences \in Nat
  /\ DayOf \in [Times -> Days]
  /\ NextTimes \subseteq Nat
  /\ PayloadDependents \subseteq Dependents
  /\ PayloadResults \subseteq Results
  /\ \A r \in PayloadResults : Coherent(r)

Later(a, b) == IF a > b THEN a ELSE b

Stored(j) == jobs[j] # NoJob

Init == /\ jobs = [j \in Jobs |-> NoJob]
        /\ execs = [k \in Keys |-> NoExecution]
        /\ stats = [d \in Days |-> [success |-> 0, failed |-> 0]]

-----------------------------------------------------------------------------
(* SetJob *)

NoDependents == [j \in Jobs |-> 0]

\* Wrong: the payload's counters and times win.
WrongMergeResults(new, old) == new

\* The result fields kept when a job is written over a stored one: the later
\* times, the larger counters, the stored status unless it is empty.
MergeResults(new, old) ==
  [successCount |-> Later(new.successCount, old.successCount),
   errorCount   |-> Later(new.errorCount, old.errorCount),
   lastSuccess  |-> Later(new.lastSuccess, old.lastSuccess),
   lastError    |-> Later(new.lastError, old.lastError),
   status       |-> IF old.status # "" THEN old.status ELSE new.status]

\* Wrong: the payload's list wins.
WrongMergeDependents(new, old) == new

\* The stored list of dependents wins over the payload's unless it is empty.
MergeDependents(new, old) == IF old # NoDependents THEN old ELSE new

\* The record SetJob writes: payload p over the stored record old, with n the
\* run time that a changed schedule produces (GetNext).
Merge(p, old, n) ==
  IF old = NoJob
    THEN [p EXCEPT !.next = n]
    ELSE [p EXCEPT
           !.results = MergeResults(p.results, old.results),
           !.dependents = MergeDependents(p.dependents, old.dependents),
           !.next = IF p.schedule # old.schedule THEN n
                                                 ELSE Later(p.next, old.next)]

\* Whether SetJob(parent, false) succeeds: the parent is there, and so is the
\* parent's own parent.
CanRewrite(js, p) ==
  /\ js[p] # NoJob
  /\ js[p].parent # NoParent => js[js[p].parent] # NoJob

\* removeFromParent: every occurrence of c leaves p's list.
Unlink(js, c, p) ==
  IF p # NoParent /\ CanRewrite(js, p)
    THEN [js EXCEPT ![p].dependents[c] = 0]
    ELSE js

\* addToParent: c is appended to p's list.
Link(js, c, p) ==
  IF p # NoParent /\ CanRewrite(js, p)
    THEN [js EXCEPT ![p].dependents[c] = @ + 1]
    ELSE js

ParentOf(js, j) == IF js[j] = NoJob THEN NoParent ELSE js[j].parent

\* Wrong: the old parent keeps the child.
WrongRelink(js, j, old) ==
  IF js[j].parent = old THEN js ELSE Link(js, j, js[j].parent)

\* After the job is written the lists of the old and the new parent follow,
\* when the parent changed; an error with the old one leaves the new one alone.
Relink(js, j, old) ==
  IF js[j].parent = old THEN js
  ELSE IF old # NoParent /\ ~CanRewrite(js, old) THEN js
  ELSE Link(Unlink(js, j, old), j, js[j].parent)

\* Bound: no list holds the same job more than MaxOccurrences times.
WithinOccurrences(j, p) ==
  p # ParentOf(jobs, j) => jobs[p].dependents[j] < MaxOccurrences

SetJob(j, p) ==
  /\ p.parent # j
  /\ p.parent # NoParent => Stored(p.parent) /\ WithinOccurrences(j, p.parent)
  /\ \E n \in NextTimes :
       jobs' = Relink([jobs EXCEPT ![j] = Merge(p, jobs[j], n)],
                      j, ParentOf(jobs, j))
  /\ UNCHANGED <<execs, stats>>

-----------------------------------------------------------------------------
(* DeleteJob and DeleteExecutions *)

\* Executions are deleted by the key prefix "executions:<name>", which has no
\* separator after the name: the executions of every job whose name begins
\* with the name go too.
WithoutExecutions(j) ==
  [k \in Keys |-> IF JobOf[k] \in NamesFrom[j] THEN NoExecution ELSE execs[k]]

DeleteJob(j) ==
  /\ Stored(j)
  /\ jobs[j].dependents = NoDependents
  /\ jobs' = Unlink([jobs EXCEPT ![j] = NoJob], j, jobs[j].parent)
  /\ execs' = WithoutExecutions(j)
  /\ UNCHANGED stats

\* Wrong: one success is taken off instead of all.
WrongResetByOne(r) == [r EXCEPT !.successCount = @ - 1]

\* Wrong: the times stay.
WrongResetCounters(r) == [r EXCEPT !.successCount = 0, !.errorCount = 0]

\* Counters and times are reset, the status is not.
ResetResults(r) == [successCount |-> 0, errorCount |-> 0,
                    lastSuccess |-> 0, lastError |-> 0, status |-> r.status]

DeleteExecutions(j) ==
  /\ Stored(j)
  /\ execs' = WithoutExecutions(j)
  /\ jobs' = [jobs EXCEPT ![j].results = ResetResults(@)]
  /\ UNCHANGED stats

-----------------------------------------------------------------------------
(* SetExecution and SetExecutionDone *)

\* Wrong: the last write wins.
WrongOutdated(k, finished) == FALSE

\* setExecutionTx: an execution that finished later is not overwritten.
Outdated(k, finished) == execs[k] # NoExecution /\ execs[k].finished > finished

PutExecution(k, e) ==
  IF Outdated(k, e.finished) THEN execs ELSE [execs EXCEPT ![k] = e]

StoredKeys(es, j) == {k \in Keys : JobOf[k] = j /\ es[k] # NoExecution}

\* Wrong: sorted the other way, the newest go.
WrongOverflow(es, j) ==
  LET S == StoredKeys(es, j) IN
    {k \in S : Cardinality({m \in S : m < k}) >= MaxExecutions}

\* The executions over the limit, starting from the oldest.
Overflow(es, j) ==
  LET S == StoredKeys(es, j) IN
    {k \in S : Cardinality({m \in S : m > k}) >= MaxExecutions}

\* An execution has started: it is stored as sent, then the oldest executions
\* over the limit are deleted.  A retry still carries the finish time of the
\* attempt it follows, so finished is 0 or a time before the start.
SetExecution(k, finished) ==
  LET es == PutExecution(k, [finished |-> finished, success |-> FALSE]) IN
    /\ finished < k
    /\ execs' = [m \in Keys |->
                  IF m \in Overflow(es, JobOf[k]) THEN NoExecution ELSE es[m]]
    /\ UNCHANGED <<jobs, stats>>

\* Wrong: a result for an execution that is stored already never counts.
WrongCounts(k, e) == execs[k] = NoExecution

\* Whether a result adds to the counters: one that repeats what is stored does
\* only if the job's last success (or error) is not this very result.
Counts(k, e) ==
  execs[k] = e =>
    LET r == jobs[JobOf[k]].results IN
      (IF e.success THEN r.lastSuccess ELSE r.lastError) # e.finished

\* Wrong: computed from what was stored before the result.
WrongGroupStatus(es, j, g) ==
  LET G == {k \in StoredKeys(execs, j) : GroupOf[k] = g}
      succeeded == {k \in G : execs[k].success}
  IN CASE succeeded = G  -> "success"
       [] succeeded = {} -> "failed"
       [] OTHER          -> "partially_failed"

\* computeStatus: from the executions of one group that are stored.
GroupStatus(es, j, g) ==
  LET G == {k \in StoredKeys(es, j) : GroupOf[k] = g}
      succeeded == {k \in G : es[k].success}
  IN CASE succeeded = G  -> "success"
       [] succeeded = {} -> "failed"
       [] OTHER          -> "partially_failed"

Count(r, e, status) ==
  IF e.success
    THEN [r EXCEPT !.lastSuccess = e.finished, !.successCount = @ + 1, !.status = status]
    ELSE [r EXCEPT !.lastError = e.finished, !.errorCount = @ + 1, !.status = status]

\* Wrong: successes and failures are swapped.
WrongIncrementStat(s, success) ==
  IF success THEN [s EXCEPT !.failed = @ + 1] ELSE [s EXCEPT !.success = @ + 1]

IncrementStat(s, success) ==
  IF success THEN [s EXCEPT !.success = @ + 1] ELSE [s EXCEPT !.failed = @ + 1]

\* Bound: no counter goes past MaxCount, no statistic past MaxStat.
BelowBounds(j, d) ==
  /\ jobs[j].results.successCount < MaxCount /\ jobs[j].results.errorCount < MaxCount
  /\ stats[d].success < MaxStat /\ stats[d].failed < MaxStat

\* An execution has finished: the result is stored, and a result that counts
\* updates the job and the statistics of its day in the same transaction.  (The
\* code tolerates an error of the statistics, which this write cannot meet.)
SetExecutionDone(k, e) ==
  LET j == JobOf[k]
      d == DayOf[e.finished]
      es == PutExecution(k, e)
  IN /\ e.finished >= k
     /\ Stored(j)
     /\ ~Outdated(k, e.finished)
     /\ execs' = es
     /\ IF Counts(k, e)
          THEN /\ BelowBounds(j, d)
               /\ jobs' = [jobs EXCEPT
                    ![j].results = Count(@, e, GroupStatus(es, j, GroupOf[k]))]
               /\ stats' = [stats EXCEPT ![d] = IncrementStat(@, e.success)]
          ELSE UNCHANGED <<jobs, stats>>

-----------------------------------------------------------------------------

Payloads == [parent : Jobs \cup {NoParent}, dependents : PayloadDependents,
             schedule : Schedules, next : NextTimes, results : PayloadResults]

Next ==
  \/ \E j \in Jobs, p \in Payloads : SetJob(j, p)
  \/ \E j \in Jobs : DeleteJob(j)
  \/ \E j \in Jobs : DeleteExecutions(j)
  \/ \E k \in Keys, finished \in Times : SetExecution(k, finished)
  \/ \E k \in Keys, e \in ExecutionRecord : SetExecutionDone(k, e)

Spec == Init /\ [][Next]_vars

-----------------------------------------------------------------------------
(* The commands as entries of the raft log *)

Commands == [op : {"SetJob"}, job : Jobs, payload : Payloads]
              \cup [op : {"DeleteJob", "DeleteExecutions"}, job : Jobs]
              \cup [op : {"SetExecution"}, key : Keys, finished : Times]
              \cup [op : {"ExecutionDone"}, key : Keys, result : ExecutionRecord]

\* The errors that make the store reject a command.
Accepts(cmd) ==
  /\ cmd.op = "SetJob" =>
       /\ cmd.payload.parent # cmd.job
       /\ cmd.payload.parent # NoParent => Stored(cmd.payload.parent)
  /\ cmd.op = "DeleteJob" => Stored(cmd.job) /\ jobs[cmd.job].dependents = NoDependents
  /\ cmd.op = "DeleteExecutions" => Stored(cmd.job)
  /\ cmd.op = "ExecutionDone" =>
       Stored(JobOf[cmd.key]) /\ ~Outdated(cmd.key, cmd.result.finished)

\* Apply: one entry of the log, whether the store accepts it or not.
Apply(cmd) ==
  \/ cmd.op = "SetJob" /\ SetJob(cmd.job, cmd.payload)
  \/ cmd.op = "DeleteJob" /\ DeleteJob(cmd.job)
  \/ cmd.op = "DeleteExecutions" /\ DeleteExecutions(cmd.job)
  \/ cmd.op = "SetExecution" /\ SetExecution(cmd.key, cmd.finished)
  \/ cmd.op = "ExecutionDone" /\ SetExecutionDone(cmd.key, cmd.result)
  \/ ~Accepts(cmd) /\ UNCHANGED vars

-----------------------------------------------------------------------------
(* Properties *)

\* What one server stores is always a set of well-formed entries.
TypeOK == /\ jobs \in [Jobs -> JobRecord \cup {NoJob}]
          /\ execs \in [Keys -> ExecutionRecord \cup {NoExecution}]
          /\ stats \in [Days -> DayStat]

\* A stored child's parent is stored, and lists the child: whatever lists
\* SetJob payloads carry, no order of SetJob (which moves a child in three
\* transactions) and DeleteJob (which looks only at the parent's list) leaves
\* a child behind whose parent is gone or would not run it.
ParentKnowsChild ==
  \A c \in Jobs : Stored(c) /\ jobs[c].parent # NoParent =>
    Stored(jobs[c].parent) /\ jobs[jobs[c].parent].dependents[c] > 0

\* When payloads leave dependent_jobs to the store, a parent lists exactly the
\* stored jobs that name it as their parent, each once: none is run twice,
\* none is run after it moved away, and a job without children can be deleted.
ListsAreExact ==
  \A p, c \in Jobs : Stored(p) =>
    jobs[p].dependents[c] = IF ParentOf(jobs, c) = p THEN 1 ELSE 0

\* A job that has counted a success (an error) knows when the last one was,
\* and one that has counted none shows none.
ResultsCoherent == \A j \in Jobs : Stored(j) => Coherent(jobs[j].results)

\* The statistics have seen everything the job counters show.
CountersWithinStats ==
  LET storedJobs == {j \in Jobs : Stored(j)} IN
    /\ MapThenSumSet(LAMBDA j : jobs[j].results.successCount, storedJobs)
         <= MapThenSumSet(LAMBDA d : stats[d].success, Days)
    /\ MapThenSumSet(LAMBDA j : jobs[j].results.errorCount, storedJobs)
         <= MapThenSumSet(LAMBDA d : stats[d].failed, Days)

\* A recorded finish is never replaced by an earlier one or by "running",
\* in whatever order the start and the results of an execution are applied.
FinishNeverReverts ==
  [][\A k \in Keys : execs[k] # NoExecution /\ execs'[k] # NoExecution
                       => execs'[k].finished >= execs[k].finished]_execs

\* While a job stays stored its counters grow, unless all its executions are
\* deleted and both counters start again from zero: writing the job, from the
\* API or from a run in progress, loses no count.
CountersSurviveWrites ==
  [][\A j \in Jobs : Stored(j) /\ Stored(j)' =>
        LET r == jobs[j].results
            s == jobs'[j].results
        IN \/ s.successCount >= r.successCount /\ s.errorCount >= r.errorCount
           \/ /\ s.successCount = 0 /\ s.errorCount = 0
              /\ StoredKeys(execs', j) = {}]_<<jobs, execs>>

\* When executions of a job disappear but not all of them, those that stay are
\* the MaxExecutions newest.
TrimKeepsNewest ==
  [][\A j \in Jobs :
       LET kept == StoredKeys(execs', j)
           gone == StoredKeys(execs, j) \ kept
       IN gone # {} /\ kept # {} =>
            /\ Cardinality(kept) = MaxExecutions
            /\ \A m \in gone, k \in kept : m < k]_execs

\* store.go:769: executions of a job are never deleted while its counters
\* keep their values.
ExecutionsGoWithCounters ==
  [][\A j \in Jobs :
       /\ Stored(j) /\ Stored(j)'
       /\ StoredKeys(execs, j) # {} /\ StoredKeys(execs', j) = {}
       => jobs'[j].results.successCount = 0 /\ jobs'[j].results.errorCount = 0
    ]_<<jobs, execs>>

=============================================================================
