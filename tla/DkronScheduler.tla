--------------------------- MODULE DkronScheduler ---------------------------
(***************************************************************************)
(* One dkron server: raft's notifications of leadership, the leader loop   *)
(* that starts and stops the scheduler, and the cron entries against the   *)
(* jobs that are stored (leader.go, scheduler.go, SetJob and DeleteJob of  *)
(* grpc.go).                                                               *)
(*                                                                         *)
(* Handlers run beside each other and beside the loop, and no lock covers  *)
(* the steps of Scheduler.AddJob and RemoveJob: each entry is looked up,   *)
(* removed and added in steps of its own.  Start and Stop are called by    *)
(* one goroutine after the other, so their lock is never waited for.       *)
(*                                                                         *)
(* External: raft elects and deposes this server, keeps only the latest    *)
(* notification (LeaderCh), and commits the writes of a leader.  The cron  *)
(* library never uses the ID of an entry twice.                            *)
(***************************************************************************)
EXTENDS Integers, Sequences, FiniteSets

CONSTANTS
  Jobs,
  Schedules,    \* what a root job that is enabled is stored with
  Off,          \* what a disabled or a child job is stored with
  NoJob,        \* no job stored
  Handlers,     \* gRPC calls and cron ticks under way
  Loop,         \* the leader loop, when it works on entries
  MaxTerms,     \* bound: elections of this server
  MaxWrites,    \* bound: writes to the store
  MaxFailures   \* bound: times the barrier or GetJobs fails in office

Values == Schedules \cup {Off, NoJob}
Procs == Handlers \cup {Loop}

ASSUME ConstantsAssumption ==
  /\ IsFiniteSet(Jobs) /\ IsFiniteSet(Handlers)
  /\ Schedules # {} /\ Off \notin Schedules /\ NoJob \notin Schedules \cup {Off}
  /\ Loop \notin Handlers
  /\ MaxTerms \in Nat /\ MaxWrites \in Nat /\ MaxFailures \in Nat

VARIABLES
  leading,      \* raft's state: this server is the leader
  notice,       \* leaderCh: "none", or the latest of "won" and "lost"
  believes,     \* weAreLeaderCh # nil
  stopping,     \* weAreLeaderCh is closed
  monitor,      \* monitorLeadership: "select", or "join" in leaderLoop.Wait
  loop,         \* where the leader loop is
  established,  \* establishedLeader of the loop
  snap,         \* the jobs establishLeadership has read
  started,      \* the scheduler and its cron run
  entries,      \* the cron entries
  stored,       \* the jobs that are committed
  work,         \* what each process has left to do on entries or the store
  found,        \* the entry it has looked up
  disturbed,    \* ghost: the jobs with writers that overlapped, see Commit
  returned,     \* ghost: the loop has returned by itself (leader.go:133)
  terms, writes, failures  \* counters of the bounds

raftVars == <<leading, notice, terms>>
loopVars == <<believes, stopping, monitor, loop, established, snap, returned>>
cronVars == <<started, entries>>
workVars == <<work, found>>
storeVars == <<stored, disturbed, writes>>
vars == <<leading, notice, believes, stopping, monitor, loop, established, snap,
          started, entries, stored, work, found, disturbed, returned, terms,
          writes, failures>>

Unknown == -1  \* the entry has not been looked up
None == 0      \* there was none

Init ==
  /\ leading = FALSE /\ notice = "none" /\ terms = 0
  /\ believes = FALSE /\ stopping = FALSE /\ monitor = "select"
  /\ loop = "none" /\ established = FALSE /\ returned = FALSE
  /\ snap = [j \in Jobs |-> NoJob]
  /\ started = FALSE /\ entries = {}
  /\ stored \in [Jobs -> {NoJob, CHOOSE s \in Schedules : TRUE}]
  /\ work = [p \in Procs |-> <<>>] /\ found = [p \in Procs |-> Unknown]
  /\ disturbed = {} /\ writes = 0 /\ failures = 0

-----------------------------------------------------------------------------
(* Raft *)

Elect ==
  /\ ~leading /\ terms < MaxTerms
  /\ leading' = TRUE /\ notice' = "won" /\ terms' = terms + 1
  /\ UNCHANGED <<loopVars, cronVars, workVars, storeVars, failures>>

Depose ==
  /\ leading
  /\ leading' = FALSE /\ notice' = "lost"
  /\ UNCHANGED <<loopVars, cronVars, workVars, storeVars, terms, failures>>

-----------------------------------------------------------------------------
(* monitorLeadership *)

Received(n) == monitor = "select" /\ notice = n /\ notice' = "none"

\* Wrong: a loop that runs already is not looked for.
WrongStartLoop ==
  /\ Received("won")
  /\ believes' = TRUE /\ stopping' = FALSE
  /\ loop' = "barrier" /\ established' = FALSE
  /\ UNCHANGED <<leading, terms, monitor, snap, returned, cronVars, workVars, storeVars, failures>>

StartLoop ==
  /\ Received("won") /\ ~believes
  /\ believes' = TRUE /\ stopping' = FALSE
  /\ loop' = "barrier" /\ established' = FALSE
  /\ UNCHANGED <<leading, terms, monitor, snap, returned, cronVars, workVars, storeVars, failures>>

\* "attempted to start ... while running", "attempted to stop ... while not".
Ignore ==
  /\ \/ Received("won") /\ believes
     \/ Received("lost") /\ ~believes
  /\ UNCHANGED <<leading, terms, loopVars, cronVars, workVars, storeVars, failures>>

StopLoop ==
  /\ Received("lost") /\ believes
  /\ stopping' = TRUE /\ monitor' = "join"
  /\ UNCHANGED <<leading, terms, believes, loop, established, snap, returned, cronVars,
                 workVars, storeVars, failures>>

\* Wrong: weAreLeaderCh is not reset to nil.
WrongJoined ==
  /\ monitor = "join" /\ loop = "none"
  /\ monitor' = "select" /\ returned' = FALSE
  /\ UNCHANGED <<raftVars, believes, stopping, loop, established, snap, cronVars, workVars,
                 storeVars, failures>>

Joined ==
  /\ monitor = "join" /\ loop = "none"
  /\ monitor' = "select" /\ believes' = FALSE /\ returned' = FALSE
  /\ UNCHANGED <<raftVars, stopping, loop, established, snap, cronVars, workVars,
                 storeVars, failures>>

-----------------------------------------------------------------------------
(* Entries: AddJob and RemoveJob are tasks of a process *)

Task(op, j, v) == [op |-> op, job |-> j, value |-> v]
Busy(p) == work[p] # <<>>
On(p) == Head(work[p])
EntryTasks == {"add", "remove"}

\* The jobs whose entries handlers are working on.
Touched == {On(h).job : h \in {p \in Handlers : Busy(p) /\ On(p).op \in EntryTasks}}

\* GetEntryJob: any entry of that job.
Look(p) ==
  /\ Busy(p) /\ On(p).op \in EntryTasks /\ found[p] = Unknown
  /\ LET mine == {e \in entries : e.job = On(p).job} IN
       IF mine = {} THEN found' = [found EXCEPT ![p] = None]
       ELSE \E e \in mine : found' = [found EXCEPT ![p] = e.id]
  /\ UNCHANGED <<raftVars, loopVars, cronVars, work, storeVars, failures>>

TaskEnds(p) ==
  /\ work' = [work EXCEPT ![p] = Tail(@)]
  /\ found' = [found EXCEPT ![p] = Unknown]

\* Cron.Remove of the ID that was found, which may be gone by now.
RemoveEntry(p) ==
  /\ Busy(p) /\ found[p] > None
  /\ entries' = {e \in entries : e.id # found[p]}
  /\ IF On(p).op = "remove" THEN TaskEnds(p)
     ELSE found' = [found EXCEPT ![p] = None] /\ UNCHANGED work
  /\ UNCHANGED <<raftVars, loopVars, started, storeVars, failures>>

FreshId == CHOOSE i \in 1..(Cardinality(entries) + Cardinality(Procs) + 1) :
             (\A e \in entries : e.id # i) /\ (\A p \in Procs : found[p] # i)

\* Wrong: a disabled or a child job is added as well.
WrongInserted(task) ==
  IF task.op = "add" THEN {[id |-> FreshId, job |-> task.job, value |-> task.value]} ELSE {}

\* Cron.AddJob, unless the job is disabled or has a parent.
Inserted(task) ==
  IF task.op = "add" /\ task.value \in Schedules
    THEN {[id |-> FreshId, job |-> task.job, value |-> task.value]} ELSE {}

Insert(p) ==
  /\ Busy(p) /\ found[p] = None
  /\ entries' = entries \cup Inserted(On(p))
  /\ TaskEnds(p)
  /\ UNCHANGED <<raftVars, loopVars, started, storeVars, failures>>

Work(p) == Look(p) \/ RemoveEntry(p) \/ Insert(p)

-----------------------------------------------------------------------------
(* leaderLoop *)

\* The loop knows or works on the jobs as it read them.
Filling == loop \in {"read", "start", "fill"}

BarrierPasses ==
  /\ loop = "barrier" /\ leading
  /\ loop' = IF established THEN "wait" ELSE "read"
  /\ disturbed' = IF established THEN disturbed ELSE Touched
  /\ UNCHANGED <<raftVars, believes, stopping, monitor, established, snap, returned,
                 cronVars, workVars, stored, writes, failures>>

\* The server does not lead any more, or the barrier takes too long.
BarrierFails ==
  /\ loop = "barrier" /\ (leading => failures < MaxFailures)
  /\ failures' = IF leading THEN failures + 1 ELSE failures
  /\ loop' = "wait"
  /\ UNCHANGED <<raftVars, believes, stopping, monitor, established, snap, returned,
                 cronVars, workVars, storeVars>>

\* establishLeadership: the jobs are read, and then stale executions are cleaned.
ReadJobs ==
  /\ loop = "read"
  /\ loop' = "start" /\ snap' = stored
  /\ UNCHANGED <<raftVars, believes, stopping, monitor, established, returned,
                 cronVars, workVars, storeVars, failures>>

\* It fails: leadership is revoked, and then transferred.
FailRead ==
  /\ loop = "read" /\ failures < MaxFailures
  /\ failures' = failures + 1
  /\ loop' = "transfer" /\ started' = FALSE
  /\ UNCHANGED <<raftVars, believes, stopping, monitor, established, snap, returned,
                 entries, workVars, storeVars>>

\* A set in any order.
Orders(S) == {f \in [1..Cardinality(S) -> S] : \A i, j \in DOMAIN f : f[i] = f[j] => i = j}

\* Wrong: the entries of an earlier term stay.
WrongClearing == {<<>>}

\* ClearCron: every entry is removed, by the name of its job.
Clearing == {[i \in DOMAIN f |-> Task("remove", f[i].job, NoJob)] : f \in Orders(entries)}

Adding == {[i \in DOMAIN f |-> Task("add", f[i], snap[f[i]])] :
             f \in Orders({j \in Jobs : snap[j] # NoJob})}

\* Scheduler.Start; it is never called on a started scheduler.
StartScheduler ==
  /\ loop = "start" /\ ~started
  /\ loop' = "fill"
  /\ \E clear \in Clearing, add \in Adding : work' = [work EXCEPT ![Loop] = clear \o add]
  /\ UNCHANGED <<raftVars, believes, stopping, monitor, established, snap, returned,
                 cronVars, found, storeVars, failures>>

Started ==
  /\ loop = "fill" /\ ~Busy(Loop)
  /\ started' = TRUE /\ established' = TRUE /\ loop' = "wait"
  /\ UNCHANGED <<raftVars, believes, stopping, monitor, snap, returned, entries, workVars,
                 storeVars, failures>>

\* leadershipTransfer succeeds: the loop returns, and the monitor is not told.
Transferred ==
  /\ loop = "transfer" /\ leading
  /\ leading' = FALSE /\ notice' = "lost"
  /\ started' = FALSE /\ loop' = "none" /\ returned' = TRUE
  /\ UNCHANGED <<terms, believes, stopping, monitor, established, snap, entries, workVars,
                 storeVars, failures>>

TransferFails ==
  /\ loop = "transfer"
  /\ loop' = "wait"
  /\ UNCHANGED <<raftVars, believes, stopping, monitor, established, snap, returned,
                 cronVars, workVars, storeVars, failures>>

\* The reconcile interval, or five seconds after a failure, is over.
Interval ==
  /\ loop = "wait"
  /\ loop' = "barrier"
  /\ UNCHANGED <<raftVars, believes, stopping, monitor, established, snap, returned,
                 cronVars, workVars, storeVars, failures>>

\* Wrong: the loop returns without revokeLeadership.
WrongEndLoop ==
  /\ loop = "wait" /\ stopping
  /\ loop' = "none" /\ established' = FALSE
  /\ UNCHANGED <<raftVars, believes, stopping, monitor, snap, returned, cronVars, workVars,
                 storeVars, failures>>

\* stopCh is closed: the loop returns, and revokes what it has established.
EndLoop ==
  /\ loop = "wait" /\ stopping
  /\ loop' = "none" /\ established' = FALSE
  /\ started' = IF established THEN FALSE ELSE started
  /\ UNCHANGED <<raftVars, believes, stopping, monitor, snap, returned, entries, workVars,
                 storeVars, failures>>

-----------------------------------------------------------------------------
(* Handlers *)

\* A write is committed by its writer.  The ghost notes the jobs whose entries
\* others are working on or are about to rebuild from what they read before.
Commit(j, v, alone) ==
  /\ writes < MaxWrites /\ writes' = writes + 1
  /\ stored' = [stored EXCEPT ![j] = v]
  /\ disturbed' = IF alone /\ ~Filling /\ j \notin Touched
                    THEN disturbed ELSE disturbed \cup {j}

Begins(h, tasks) == ~Busy(h) /\ work' = [work EXCEPT ![h] = tasks]

\* GRPCServer.SetJob: the job is applied, and then added to the scheduler.
SetJob(h, j, v) ==
  /\ leading /\ v # NoJob
  /\ Begins(h, <<Task("add", j, v)>>)
  /\ Commit(j, v, TRUE)
  /\ UNCHANGED <<raftVars, loopVars, cronVars, found, failures>>

\* GRPCServer.DeleteJob
DeleteJob(h, j) ==
  /\ leading /\ stored[j] # NoJob
  /\ Begins(h, <<Task("remove", j, NoJob)>>)
  /\ Commit(j, NoJob, TRUE)
  /\ UNCHANGED <<raftVars, loopVars, cronVars, found, failures>>

\* Agent.Run, on a tick or a call: it reads a job that has an entry ...
Run(h, j) ==
  /\ stored[j] # NoJob /\ \E e \in entries : e.job = j
  /\ Begins(h, <<Task("store", j, stored[j])>>)
  /\ UNCHANGED <<raftVars, loopVars, cronVars, found, storeVars, failures>>

\* ... and writes it back, as it was; the entry is left as it is.
WriteBack(h) ==
  /\ Busy(h) /\ On(h).op = "store" /\ leading
  /\ Commit(On(h).job, On(h).value, On(h).value = stored[On(h).job])
  /\ TaskEnds(h)
  /\ UNCHANGED <<raftVars, loopVars, cronVars, failures>>

\* Without leadership the write fails, and so does the run.
FailWriteBack(h) ==
  /\ Busy(h) /\ On(h).op = "store" /\ ~leading
  /\ TaskEnds(h)
  /\ UNCHANGED <<raftVars, loopVars, cronVars, storeVars, failures>>

\* The leader of another term writes.
OtherWrite(j, v) ==
  /\ ~leading /\ v # stored[j]
  /\ Commit(j, v, FALSE)
  /\ UNCHANGED <<raftVars, loopVars, cronVars, workVars, failures>>

-----------------------------------------------------------------------------

Monitor == StartLoop \/ Ignore \/ StopLoop \/ Joined

LoopStep ==
  \/ BarrierPasses \/ BarrierFails \/ ReadJobs \/ FailRead \/ StartScheduler \/ Started
  \/ Transferred \/ TransferFails \/ Interval \/ EndLoop
  \/ Work(Loop)

Handle(h) == Work(h) \/ WriteBack(h) \/ FailWriteBack(h)

Call(h) ==
  \E j \in Jobs : DeleteJob(h, j) \/ Run(h, j) \/ \E v \in Values : SetJob(h, j, v)

Next ==
  \/ Elect \/ Depose
  \/ Monitor \/ LoopStep
  \/ \E h \in Handlers : Call(h) \/ Handle(h)
  \/ \E j \in Jobs, v \in Values : OtherWrite(j, v)

(* The goroutines of the server go on; raft and the callers need not.  In the *)
(* select of the loop a closed stopCh is ready in each round and is taken in  *)
(* the end, while the interval is rarely over.                                *)
Fairness ==
  /\ WF_vars(Monitor) /\ WF_vars(LoopStep) /\ SF_vars(EndLoop)

Spec == Init /\ [][Next]_vars /\ Fairness

-----------------------------------------------------------------------------
(* Properties *)

\* The values of the variables; an entry is that of an enabled root job.
TypeOK ==
  /\ leading \in BOOLEAN /\ notice \in {"none", "won", "lost"}
  /\ believes \in BOOLEAN /\ stopping \in BOOLEAN /\ monitor \in {"select", "join"}
  /\ loop \in {"none", "barrier", "read", "start", "fill", "transfer", "wait"}
  /\ established \in BOOLEAN /\ returned \in BOOLEAN /\ started \in BOOLEAN
  /\ stored \in [Jobs -> Values] /\ snap \in [Jobs -> Values]
  /\ entries \subseteq [id : Nat \ {0}, job : Jobs, value : Schedules]
  /\ work \in [Procs -> Seq([op : {"add", "remove", "store"}, job : Jobs, value : Values])]
  /\ found \in [Procs -> Nat \cup {Unknown}]
  /\ disturbed \subseteq Jobs
  /\ terms \in Nat /\ writes \in Nat /\ failures \in Nat

\* The cron runs only inside a term that this server's loop has established:
\* it is stopped when the loop has ended, for whatever reason, before the next
\* loop can be started, and there is no second loop (leader.go:26-65, :137, :74).
CronOnlyInTerm ==
  /\ started => established /\ believes /\ loop \in {"wait", "barrier"}
  /\ ~believes => loop = "none"

\* The server implements the terms of DkronTerm: one loop after the other, and
\* a cron that starts when a loop has established its term and stops in the
\* step in which it ends (leader.go:34-58, :133, :137, :243).
Term == INSTANCE DkronTerm WITH
  phase <- IF loop = "none" THEN "none" ELSE IF established THEN "established" ELSE "pending",
  cron  <- started

ImplementsTerm == Term!Spec

\* While the scheduler runs and nobody is working on a job's entries, the job
\* has exactly one entry, with the schedule that is stored, if it is an enabled
\* root job, and none otherwise.  Left out are jobs whose writers overlapped
\* since the barrier of this term: two handlers, a handler and the start of the
\* scheduler (leader.go:231 to :243), a run that wrote back an older job, or
\* another leader whose term this loop did not notice (leader.go:35).
EntriesFollowStore ==
  \A j \in Jobs \ (disturbed \cup Touched) :
    started => {<<e.job, e.value>> : e \in {x \in entries : x.job = j}}
                 = (IF stored[j] \in Schedules THEN {<<j, stored[j]>>} ELSE {})
               /\ Cardinality({e \in entries : e.job = j}) <= 1

\* A server that leads for good has its scheduler running in the end, however
\* the notifications of its elections and losses arrived, but for a loop that
\* returned by itself after a transfer while the monitor took it for running.
StableLeaderSchedules == <>[]leading => []<>(started \/ returned)

=============================================================================
