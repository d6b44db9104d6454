# A TLA+ model of dkron

dkron is a distributed cron service: a few servers keep jobs and executions in
a replicated log (raft), the leader's scheduler starts runs, and agents on the
target nodes execute them and stream their progress back; a web UI shows and
edits the jobs. This directory holds TLA+ modules translated from the Go source
under `src/dkron/dkron` and the TypeScript source under `src/dkron/ui/src`, TLC
configurations that check them on small instances, and proofs that TLAPS
checks for every instance.

## The system

| part | code | state | operations |
| --- | --- | --- | --- |
| Store | `store.go`, `job.go`, `execution.go` | jobs with their counters, times, status and dependents; executions by job and key; statistics by day | `SetJob`, `DeleteJob`, `SetExecution`, `SetExecutionDone`, `DeleteExecutions` |
| FSM | `fsm.go`, `agent.go:setupRaft` | the store, raft's log and snapshots | `Apply`, `Snapshot`, `Persist`, `Restore`, restart |
| Execution | `job.go:Run`, `run.go`, `grpc_client.go`, `grpc_agent.go`, `grpc.go` | goroutines of `Agent.Run`, `activeExecutions`, streams, `ExecutionDone` requests | `isRunnable`, `Run`, `AgentRun` (both sides), `ExecutionDone`, retries, dependents, clean-up of stale executions |
| Leadership | `leader.go` | `weAreLeaderCh`, the leader loop, raft's leadership | `monitorLeadership`, `leaderLoop`, `establishLeadership`, `revokeLeadership`, `reconcile` |
| Scheduler | `scheduler.go`, handlers in `grpc.go` | cron entries, `started` | `Start`, `Stop`, `AddJob`, `RemoveJob`, `GetEntryJob` |
| Membership | `serf.go`, `server_lookup.go`, `retry_join.go` | serf members, raft peers, `BootstrapExpect` | `maybeBootstrap`, `addRaftPeer`, `removeRaftPeer`, event handlers |
| Target selection | `agent.go`, `tags.go` | none | `cleanTags`, `filterArray`, `selectNodes` |
| HTTP API | `api.go`, `job.go:generateJobTree`, `agent.go:recursiveSetJob` | `pauseNewJobs` | create, toggle, restore, delete, run |
| Analytics | `api_analytics.go` | none | one read of the store |
| UI: console | `App.tsx`, `JobList/Show/Edit.tsx`, the buttons, `authProvider.ts`, `dataProvider.ts`, `LoginPage.tsx` | token, open page, cached jobs, forms, loading flags, requests in flight | open, press, save, delete, undo, sign in and out |
| UI: figures | `Dashboard.tsx`, `AnalyticsStats.tsx`, `ExecutionStatsChart.tsx`, `StatusField.tsx` | none | what they show of the store |
| UI: diagram | `JobDependencyDiagram.tsx` | none | two traversals of parents and lists, layout |

Interaction: the API calls the leader by gRPC; the leader's handlers append
commands to the raft log and, when they return, touch the cron entries; every
server's FSM applies the log to its own store; the leader's cron calls
`Job.Run`, which reads the store, asks all servers for their active executions,
and calls the agents; a call stores the start of the execution through the log,
and its end through `ExecutionDone`, whose handler on the leader applies the
result, and then runs a retry or the dependent jobs before it answers. The UI
talks to the API of any server, which answers reads from its own store and
passes writes on to the leader.

What is hard: results, starts, edits and deletions of one job reach the log in
any order and partly carry old copies of the job; a snapshot is saved while the
store changes; a call waits for a stream, a handler for a retry and the retry
for another handler, while servers crash, leaders change and streams break; the
check of a "forbid" job and its dispatch are far apart; cron entries are
changed by concurrent handlers, without a lock and without regard for the order
in the log; raft's notifications of leadership overwrite each other; the
answers to a browser tab come in any order, from a server that may lag, after
the page has changed or the session has ended. `PROJECT.json` lists each hazard at its line.

What makes each part correct:

- Store: children and parents agree, counters agree with times and statistics
  and survive edits, finishes never revert, trimming keeps the newest.
- FSM: a server that restarted holds what the others hold.
- Execution: what is shown and counted really happened; retries are bounded;
  all calls return; a forbid job neither overlaps nor is blocked for good; the
  dependents of a success run.
- Leadership and scheduler: only the leader schedules; in the end the cron
  entries are the enabled stored jobs, each once.
- Restore: a backup is restored entirely or not at all, parents first.
- UI: figures agree with the store and with each other; the diagram shows the
  family of a job, readably; buttons and spinners end with their requests;
  pages show their own writes; toggles and runs lose no edit but to a race.
- Membership: one bootstrap; raft's peers follow the servers that live.

## Modules

`DkronStore` is the store of one server. `jobs`, `execs`, `stats` stand for
the keys `jobs:`, `executions:` and `stats:` of BuntDB. There is one action per
command: the guard holds the early returns, and the nested writes (the parent's list,
the trimming) belong to the same action, as the FSM applies one command at a
time. Times are small numbers; key k starts at time k; a job's list of
dependents is how often each job occurs in it. The names that begin with a
job's name (`NamesFrom`) matter because executions are deleted by prefix.
`Accepts` and `Apply` treat the commands as log entries, rejected ones included.

`DkronReplica` extends it with the log (`Commit`) and one server that follows
it with a store of its own (`Server == INSTANCE DkronStore WITH ...`): it
applies entries, takes a snapshot (`Snapshot` notes raft's index, `Persist`
saves what the store is by then, `PersistMidway` what it is between the
transactions of one command, which `Unfinished` lists), crashes and starts again
(`Restart`), or is sent the leader's snapshot, saved late or not
(`InstallSnapshot`). `past` is the store after each prefix of the
log, which is the abstract promise: replica = function of the prefix. `raced`
says that the store in use comes from a snapshot that was saved later than its
index, `overlaid` that it comes from one that was loaded over a store in use
(`Lagging`), where Load deletes nothing. A snapshot of such a store inherits
both, and a restart from a snapshot without them ends both.

`DkronExecution` follows the runs of one scheduled job over several servers and
nodes. A call (`calls`) is a goroutine of `Agent.Run`, for a first attempt
(run, node) or for a retry (the execution and the failed finish that
caused it): it dials, the node starts the execution (`Start`: a new key), the
first update registers it in memory and in the store (`Register`), the stream
ends or breaks, and the call reports (`ReceiveEnd`, `NoticeBreak`) and waits. A
request is `ExecutionDone` on a server: sent, applied, then sleeping before a
retry and running it, or running the dependents, and only then answered
(`RetryReturns`, `DependentsReturn`). Fault actions: a failed dial, a broken
stream, a crashed agent, a crashed server, lost leadership, also while an entry
is in flight, a start whose commit is uncertain (`RegisterUncertain`: the
leader's process ends, `grpc.go:445`, with the start stored or not), and a new
leader that cannot read the active executions and skips the clean-up. The store
here keeps only what this protocol reads (`stored`, `counts`, `status`);
`DkronStore` has the rest.

`DkronScheduler` is one server: raft's notifications (`notice`, a channel that
keeps the latest value), `monitorLeadership` (`believes` is
`weAreLeaderCh # nil`, `stopping` its close, `monitor = "join"` the wait for the
loop), `leaderLoop` (`loop`, one action per label or call that can fail or take
time), and the cron entries. `AddJob` and `RemoveJob` are tasks of a process,
done in steps (`Look`, `RemoveEntry`, `Insert`), because no lock covers them; a
process is a handler of `SetJob` or `DeleteJob` or the loop itself, which clears
and fills the cron from the jobs it has read (`snap`). `disturbed` is a ghost:
the jobs whose writers overlapped since the last barrier. `DkronTerm` is the
abstract promise: terms that follow each other, and a cron that runs exactly
while one is established; `DkronScheduler!Term` maps the loop to it.

`DkronRestore` has `generateJobTree` and `recursiveSetJob` as operators on a
list of the jobs of `DkronStore`, with the same `Merge` and `Relink` as
`SetJob`. `DkronFigures` has `analyticsHandler`, the cards, tiles, tables, and
status fields of the UI, and the status filter of the list; `DkronDiagram` the
graph and the layout of the dependency diagram. These three have no state of
their own: `MCDkronStore` evaluates them in every reachable state of the store,
for every list, order and open page.

`DkronConsole` is a browser tab with the API behind it: components that fetch
for themselves (a loading flag each, `waiting`), the cached copies of
react-query (`cache`, `queries`), the edit form, undoable saves, the token; the
jobs as the leader (`stored`) and the serving server (`local`) have them, and
requests in flight with the steps of their handlers (`ReadToggle`,
`WriteToggle`, ...). react-admin and react-query are external, modelled from
how the pages use them.

The `MC*` modules define values for the constants. Operators named `Wrong...`
are deliberate mistakes: each property is tried against one of them, and TLC
must refute it.

## Runs

| run | shows | bounds |
| --- | --- | --- |
| `store_tree` | a stored child's parent is stored and lists it, in every order of `SetJob` and `DeleteJob`, whatever lists payloads carry; the diagram of any part of these jobs shows the family of the open job without overlaps, its arrows join parents and children, downwards in a forest; any list of these jobs is restored into an empty store entirely or not at all, and into its own store without a change | 3 jobs, a list holds a job at most twice: a move needs a child and two parents |
| `store_executions` | well-formed entries, exact lists, counters, times and statistics agree, finishes never revert, edits lose no count, trimming keeps the newest; successes on the dashboard, by node, on the pages of jobs and in the chart agree, durations are those measured, a job's status agrees with its counters and the filter that lists it | 2 jobs (one named with the other's prefix), 3 executions, trimming to 1, small counters |
| `store_prefix` (violated) | `DeleteExecutions` of `a` deletes the executions of `ab` and leaves their counters, against `store.go:767-770` | as above |
| `replica_log` | a server that restarts, or is caught up with a snapshot, agrees after every entry, but for the next runs, unless its store comes from a snapshot that was saved late or loaded over a store in use; even after a late one a job's counters agree with its times and the daily statistics have seen them | 4 log entries, parent, child, 2 executions, all commands: an entry before, at and after a snapshot and one to repeat |
| `replica_race` (violated) | a snapshot saved during `SetJob` leaves a parent without its child on one server, against `fsm.go:153-162` | as above |
| `execution_run` | success shown or counted only if it happened, every finish shown is counted, attempts bounded; dependents run only after a success, without faults at most once for each result that ends a run | 2 servers, 1 node, 2 runs, 3 executions, no retry, 1 redial, 1 fault |
| `execution_retry` | with fairness: all calls return, a forbid job is always free again; `isRunnable` sees each registered execution whose stream is open, and without faults each run through its failed attempts and backoffs until its last result; without faults each attempt is started, stored and counted exactly once | 2 servers, 1 node, 1 run, 1 retry, 4 executions, 1 redial, 1 fault |
| `execution_redispatch` (violated) | a call dispatches an execution again after its failure was recorded, against the comment at `grpc_client.go:582` | 3 faults: broken stream, new leader, its crash |
| `execution_chain` (violated) | a run that succeeds on its retry never runs the dependents, against `chaining.md:5` | no fault |
| `execution_forbid` (violated) | two runs of a forbid job on a node at once, against `concurrency.md:13` | no fault |
| `scheduler` | the cron runs only in an established term and the loops implement `DkronTerm`; entries follow the stored jobs where writers did not overlap; with fairness a server that leads for good has its scheduler running | 1 job, 2 schedules, 2 handlers, 2 elections, 2 writes, 1 failure: a loss and a new election can be merged, a handler can meet another, the start of the scheduler, or a second term |
| `console` | spinners and buttons end with their requests, an open page shows the writes it was told of, toggles and runs change what they should unless they raced | 1 job with one other field, 2 requests, 2 writes by anyone, a server 1 write behind |

Deadlock checking is off where a bound makes the system stop (log, counters,
elections or requests used up); it is on in the execution runs. All bounds are
guards named in comments (`MaxLog`, `MaxCount`, `MaxStat`, `MaxOccurrences`,
`MaxGroups`, `MaxKeys`, `MaxFaults`, `MaxTerms`, `MaxWrites`, `MaxFailures`,
`MaxRequests`, `MaxLag`); `MaxExecutions`, `Retries` and `MaxDispatches` are the program's
own limits. One fault of any kind at any step meets every handler in every
phase; combinations of two are only searched by `execution_redispatch`.

Fairness (`DkronExecution!Fairness`, used by `execution_retry`): weak fairness
of goroutines and of message delivery (TCP), of the cron tick on the leader, of
election and restart of servers (an operator restarts them), of executors
(which must end: dkron has no timeout of its own for them), and of time.
Faults are never fair and are bounded.

`DkronScheduler!Fairness`: weak fairness of `monitorLeadership` and of the
leader loop, which are goroutines that nothing blocks, and strong fairness of
`EndLoop`: a closed `stopCh` is ready in every round of the loop's select.
Raft, callers and failures are not fair. The other specifications state none:
their properties are about safety.

Some properties leave out what the code does not keep, and say so:

- `EntriesFollowStore` leaves out jobs whose handlers overlapped, or that were
  written while the loop was filling the cron: they can keep an entry of a
  deleted job, an old schedule or two entries until the next term.
- `StableLeaderSchedules` leaves out a loop that returned by itself after it
  had transferred leadership (`leader.go:133`): won again before the monitor
  reads the loss, the server leads without a scheduler.
- `ReplicaAgrees` leaves out a server whose store comes from a snapshot saved
  while entries were applied (`raced`), or loaded over a store in use
  (`overlaid`, `store.go:840`), until it starts again from a snapshot that is
  neither. An overlaid store keeps what the others deleted, and later may lack
  what they have: a result sent again looks stored to it, and its trimming
  counts executions the others do not have.
- `CountsFitTogether` allows a late snapshot to count a result twice, and a job
  to lose counts; of an overlaid store, whose statistics come from one server
  and its jobs from another, it says only that counters and times agree.
- `RunsAreSeen` promises less once something has failed: a retry carries the
  finish of the attempt before it, and when its stream has broken `isRunnable`
  overlooks it (`store.go:635`). Nor does it cover the time between the check
  and the first update, which is what `execution_forbid` refutes.
- `DependentsFollowResults` counts effects only without faults: afterwards a
  late or repeated result may run the dependents of a group again
  (`grpc.go:220`).
- `EditsLostOnlyToRaces` leaves out the very races of `run.go:27` and
  `api.go:554`, in which the code does lose edits.
- `OwnWritesShown` leaves out a page that shows no copy yet when the answer to
  an earlier write comes: react-query gives up a fetch under way only for a
  query that has a copy, and the first fetch may be older than the write.
- `ButtonsMatchRequests` asks less of the bulk buttons, whose one flag falls
  with the first of several requests.

Known divergences that no run shows: `GetJobs` without a sort field walks over
all keys, so `total_jobs` (`api_analytics.go:35`, operator `JobsRead`) counts
executions and days with statistics as jobs, where
`docs/BAO_CAO_GIUA_KY_DKRON.md:442` says jobs; and a restored parent names its
child twice, once from the backup's `dependent_jobs` and once from the child's
own `SetJob` (`store.go:256`), so a success of the parent runs the child twice.

## Proofs

`DkronStoreProofs` proves, for every set of jobs, names, executions, payloads
and bounds that meets `ConstantsAssumption`:

- `Invariance`: the inductive invariant. It joins the types, the parents that
  know their children, and coherent counters. They are proved together because
  a step on lists needs the types of the records it changes. The type of the
  lists needs the fact that `Relink` and `Unlink` change only lists, which
  lemmas state once; the proof has a step per command, reached through one
  lemma that says what each command does to a job record.
- `TypeCorrect`, `ChildrenAreKnown`, `CountersAgreeWithTimes`: the invariants
  the runs check, from it.
- `FinishesAreKept`, `CountersAreKept`: the action properties, from the same
  per-command facts.

`ParentKnowsChild` holds for any payload because the stored list wins over the
payload's, and a parent's list only loses a child in the command that moves
or deletes that child. The assumption that counters of payloads are coherent
is what makes the merge keep `ResultsCoherent`.

From the store's inductive invariant, `DkronStoreProofs` also proves what
counting and sums say:

- `NewestAreKept` (`TrimKeepsNewest`), with no further assumption. The store
  holds finitely many executions at any time. Ranking an execution by how many
  newer ones there are is an injection, so the ranks have no gaps, and those
  below the limit belong to exactly `MaxExecutions` executions.
- `ListsStayExact` (`ListsAreExact`), when payloads carry no lists of children,
  as in its run: with such lists the property is false, since `SetJob` takes
  the payload's list where the stored one is empty. `ParentKnowsChild` tells
  that a job stored for the first time has no child yet that its list would
  have to name.
- `StatsSeeAllCounts` (`CountersWithinStats`), for finitely many days and
  payloads that carry no counts, as in its run. A sum of counters is the number
  of the units counted, `<<x, 1>>` to `<<x, f[x]>>` for each `x`. That the fold
  computes this number is shown by a smallest set for which it would not,
  because strict inclusion of finite sets is well-founded.

`DkronSchedulerProofs` proves, for every set of jobs, schedules and handlers
and every bound:

- `CronStopsWithTheTerm` (`CronOnlyInTerm`), by `CronInv`: what a loop has
  established lasts only from a barrier to the next, and the monitor forgets a
  loop only after it has ended. Without the second part a new loop could start
  beside one that has the cron running.
- `TermsAreImplemented` (`ImplementsTerm`), the refinement: under `TermInv`,
  `CronInv` and an established term whose cron runs, each step of the server is
  a step of `DkronTerm` or a stutter.
- `TypeCorrect`, which needs that the entries are finitely many: then there is
  an ID that no entry has, and the loop's list of tasks is a sequence.
- `EntriesAreFollowed` (`EntriesFollowStore`). Three invariants lead to it. An
  ID belongs to one entry, is larger than those given before, and one that a
  process has found is the ID of an entry of the job it works on. A job that is
  not disturbed has at most one writer, so what the store holds of it is what
  that writer was started with. Then, for such a job, the entries it still has
  and the tasks its writer has left together give the entry the store asks
  for: all removals come before the additions, and there is a removal for each
  entry that must go. Counting only the entries would not be inductive,
  since between a removal and the addition after it a job has none.

`DkronExecutionProofs` proves, for every set of servers, nodes, runs and keys
and every bound that meets `ExecutionAssumption` and `NamesAssumption`:

- `TypeCorrect` (`TypeOK`). Its core is a count: keys are handed out in order,
  each to one call, and an execution has at most three ways left to be finished
  (the report of its call, the answer of the clean-up of a server that takes
  over, the failure of a redial), each spent by the step that takes it.
- `ResultsCorrect` (`ResultsAreReal`), by an invariant that follows a success
  from the node to the counters: it is on its way at most once, the counter is
  at most what has been settled and that at most what succeeded, and each
  recorded finish is counted. Without the count of what is on its way a
  repeated result could be counted twice.
- `RunsSeen` (`RunsAreSeen`). By `Watch`, whatever fails, an execution that runs
  with its stream is followed by one call, so a server that is up has it in
  memory; each finish is reported by one request and retried by one call, whose
  execution is the next attempt. For the second half, as long as there is no
  fault: take the newest attempt of the run on the node and its call. A call
  that is open or reports has it in memory; one that has returned has recorded
  it and seen its retry end, so it was the last; and one that has not
  registered it yet is the retry of an attempt whose call still reports.
- `DependentsCorrect` (`DependentsFollowResults`). The status is success only if
  a success is stored, and a request that runs dependents has read such a
  status. Without faults each result that ends a run is reported by one
  request, which runs the dependents at most once and is then gone; so the runs
  of the dependents are never more than the results.
- `EachCountedOnce` (`ExactWithoutFaults`). The property speaks only of states
  in which every call has returned; `Undisturbed` says what leads there as long
  as there is no fault. Each execution belongs to one call and ends once, and
  the phase of the call, its request and the stored result go together: stored
  once, counted once, retried before the call is answered. The executions of a
  run on a node form a chain: their attempts count up from one without a gap,
  and an execution is the newest exactly if its retry has not begun, which all
  but the newest have. The clean-up has nothing to do, since an execution that
  is stored as running is held by a call in the leader's memory; and the leader
  stays, which takes a fault to change.

`DkronReplicaProofs` proves, for every script, log, clocks and number of servers'
restarts:

- `ReplicaInvariance`: the inductive invariant. Each store in `past` is well
  formed, and each is the effect of its entry on the one before; the follower's store
  and its snapshot are such stores but for the next runs, unless raced or
  overlaid. `Effect` states what an entry makes of a store as a relation between values,
  and the lemma `EffectsAgree` that it makes the same of two stores that differ
  only in next runs.
- `ReplicasAgree` (`ReplicaAgrees`), from it.
- `ServersStayCoherent` and `CountsStayTogether` (`CountsFitTogether`; the second
  half for finitely many days and payloads that carry no counts, as
  in its run). The invariant `FitInv` says it of every store in `past`, of the
  follower's and of its snapshot. It asks nothing of the lists of children,
  since after a late snapshot a stored job may name a parent that is not
  stored: the lemma `EffectFits` says that any command keeps what fits in any
  such store, which makes it true of entries applied again. A store saved
  between the transactions of a command fits as well (`UnfinishedFits`): the
  transactions that are missing write lists or delete executions, and neither
  counts anything.

Two earlier properties of the replica were given up when the search for their
invariants showed them false, each beyond the four entries of its run. That an
overlaid store never lacks what the others have, TLC refutes with five entries
(see above). That a late snapshot loses no count, it refutes with six. `a` is
stored and counts a success, its child `c` is stored, the deletion of `a` is
refused, `c` is deleted, and `a` is stored again. A server whose snapshot has
an index before the refused deletion, but was saved after `c` was deleted,
applies that deletion to an `a` without children: it accepts it, and its `a`
starts again from zero.

`DkronConsoleProofs` proves, for all jobs, configurations and tokens and every
bound:

- `TypeCorrect` (`TypeOK`). Mounted requests belong to components of the open
  page, and only a toggle or a run is held between its read and its write, with
  the job it has read. That requests find a slot each is an injection of the new
  requests into the free slots, which the bounds in the guards leave room for.
- `ButtonsFollowRequests` (`ButtonsMatchRequests`), component by component: its
  flag is up if and only if it has exactly one mounted request. That it is one
  slot, and not only some slot, is what an answer needs to take the flag down.
- `EditsAreLostOnlyToRaces` (`EditsLostOnlyToRaces`). A copy that the server
  has, has yet to apply, or that a handler has read is older than the leader's
  job or equal to it. For what the server has this is inductive only together
  with its queue: the last write that it has yet to apply to a job is the
  leader's job, and without one it holds the leader's job already.
- `OwnWritesAreShown` (`OwnWritesShown`), from that invariant and one about the
  answer on its way: while a query is under way the cached copy may be old, and
  it is the answer that has to be new enough, or marked as from a lagging server.

`DkronFiguresProofs` proves of what is shown of a store:

- `DurationsShownAreMeasured` (`DurationsAreMeasured`). The fold over the stored
  executions is taken apart by subsets: a statement that holds of the figures
  of a finite set, and still holds when one execution is added, holds of them
  all. That the stored executions are finitely many is an invariant of its own.
- `ChartHasSeenAnalytics` (`ChartCoversAnalytics`), for finitely many days. A
  step that stores a success counts it on a day, and no step takes a count from
  a day; so the stored successes never outnumber the successes counted. A
  success is stored only for a stored job, which is why the deletion of a job
  keeps the relation.
- `StatusesAgree` (`StatusAgreesWithCounts`), when payloads carry no counts, as
  in its run: a job that has counted anything has a status, and the two
  clear-cut statuses are backed by a counter.

`DkronRestoreProofs` proves of a restored list, for every finite set of jobs and
lists of any length and order:

- `AllIsRestoredOrNothing` (`RestoreIsAllOrNothing`). While the trees are made,
  a job is below its own parent, no job is twice in the trees, and whichever
  jobs are taken, one of them is on top or below a job that was not taken: so
  nothing is below itself. `InTrees`, a search to the depth of the number of
  jobs, is shown to be the least set that contains the tops and the jobs below
  its members, because sets of jobs that grow must stop growing. An error then
  means exactly that the list is not complete. In the calls that follow, the
  jobs done and those waiting are apart, and a job whose parent is done is one
  of them; so a call always finds the parent stored and the job itself not, and
  the calls end with each listed job done once. The proof uses
  `ParentKnowsChild` of the exporting store, and that `NoJob` is no record.
- `RestoringTwiceIsRestoringOnce` (`RestoreIsIdempotent`), from the types alone:
  each record that is set is the stored one, so no call changes the table.

The recursive functions of these modules are reasoned about by their values up
to `n`, with the lemma `AllNumbers` (a set of naturals that contains 0 and each
successor is all of them), since the library's induction takes an operator as
its parameter.

`DkronDiagramProofs` proves the four invariants of the dependency diagram for
every finite set of jobs (with infinitely many, nothing bounds a traversal).
Each is about all answers, orders and open pages at once, so the types of the
store are all it needs of the state:

- `FamilyIsShown` (`DiagramShowsFamily`). A visit takes a call off the stack and
  adds calls only for a job not yet processed, so the calls made, those waiting
  and those that the remaining jobs can still add never exceed `MaxVisits`: the
  stack is empty by then. Where it is empty, what was found is closed under
  "next to", and everything found belongs to every such set; the two facts are
  invariants of a visit, and together they say that the family is found.
- `ArrowsJoin` (`ArrowsJoinParentAndChild`): a job whose parent is drawn is
  listed and so is its parent, and both places are `Position`s.
- `DrawingsAreReadable` (`DrawingIsReadable`). Two jobs of one row have
  different numbers of nodes to their left, so they are at least a node and its
  space apart; rows are a level apart, which leaves room for the line below the
  current node. No row is wider than the widest, so none starts left of zero.
- `ArrowsLeadDown` (`ArrowsPointDown`), by three invariants of the visits in a
  forest. Upwards, the jobs found are a chain of parents, each one level above
  the one before. Downwards, each job found or waiting is one level below its
  parent. Last, no ancestor of the current job is found below it (the
  current job is not, as there is no loop, and a job that is not below has a
  parent that is not), so the second traversal never moves a job that the first
  one placed.

Only model-checked: all liveness, which this prover does not handle.

## What is left out

- Raft itself (one log, applied in order, at most one leader) and serf.
- A failed write of the statistics, which `SetExecutionDone` logs and tolerates
  (`store.go:347-350`): in an open, writable transaction it can only come from an
  entry that this code did not write. The counters would then be ahead of
  `CountersWithinStats`.
- A leader that was itself restored from a late snapshot and sends its own;
  a snapshot that the leader saves late holds the store after a whole entry.
- Clock skew: finish times of one execution are numbered in the order in which
  they are stamped. The replica properties compare stores but for the next runs
  of their jobs, which each server computes from its own clock.
- Executions of several jobs at once, ephemeral jobs, processors,
  notifications, output, target selection, a half-open connection, a stream
  that breaks before its first update (here a dial that fails; the code also
  reports a failed execution without a key), the crash of a server that only
  forwards a request. The clean-up of stale executions is one step, where the
  code reads, stamps and records over the network (`agent.go:922`).
- Serf, bootstrap and raft's peers (`reconcile` in the leader loop included),
  and target selection with its tags: the plan's next modules.
- In the leader loop: the shutdown of the agent, an error of `AddJob` while the
  cron is filled (`scheduler.go:63`; here the jobs cannot be read, and the
  schedules of stored jobs have been validated), and the clean-up of stale
  executions during `establishLeadership`, which is in `DkronExecution`.
- In the UI: a loading flag for each expanded row of the executions (here one
  for the table), tables of members and running executions, paging, layout, colours,
  the clock, the drawing of the chart, and the built bundle (`ui-dist`); the
  website. They keep no state the properties are about.
- Parsing, formatting, time zones, the transport of HTTP, plugins.
  `PROJECT.json` gives the reason for each component.

## Plan

1. Done: `DkronStore`, `DkronReplica`, `DkronExecution`, proofs of the store.
2. Done: `DkronScheduler` (leader loop and cron entries together, since the loop
   fills the cron), its refinement of `DkronTerm` and its proofs; the UI
   (`DkronConsole`, `DkronDiagram`, `DkronFigures`) and `DkronRestore`.
3. `DkronMembership`: `maybeBootstrap`, reconcile, peers; `cleanTags`,
   `filterArray` and `selectNodes` against reference definitions.
4. Done: proofs of `EntriesFollowStore`, `ReplicaAgrees`, `ResultsAreReal`,
   `ExactWithoutFaults`, `ListsAreExact`, `TrimKeepsNewest`,
   `CountersWithinStats`, `CountsFitTogether` and of the console.
5. Done: proofs of `DkronFigures`, `DkronRestore` and `DkronDiagram`. Every
   invariant and action property that a run checks is stated by a theorem.
