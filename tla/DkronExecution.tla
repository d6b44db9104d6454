--------------------------- MODULE DkronExecution ---------------------------
(***************************************************************************)
(* How the runs of one scheduled job are dispatched, executed, reported,   *)
(* retried and chained (job.go Run, run.go, grpc_client.go AgentRun,       *)
(* grpc_agent.go, grpc.go ExecutionDone), while servers crash, leadership  *)
(* moves and streams break.                                                *)
(*                                                                         *)
(* A call is one goroutine of Agent.Run: it dials a node, opens a stream,  *)
(* and when the stream ends reports the result with an ExecutionDone       *)
(* request to the leader.  A request is handled in steps, because the      *)
(* handler applies the result to the log, reads the job again, and may     *)
(* sleep and run a retry, or run the dependents, before it answers: the    *)
(* call waits all that time.                                               *)
(*                                                                         *)
(* The store is what the leader has applied: the executions of the job,    *)
(* its counters and its status (DkronStore has the whole of it).  Finish   *)
(* times matter only within one execution: 0 is "not finished", 1 is the   *)
(* finish of the failed attempt, which a retry carries while it runs, and  *)
(* the finishes of the execution itself are numbered from 2.               *)
(***************************************************************************)
EXTENDS Naturals, FiniteSets

CONSTANTS
  Servers,         \* dkron servers
  Nodes,           \* the nodes the job's tags select
  None,            \* no server, no call, no execution
  Forbid,          \* whether the job's concurrency is "forbid"
  Retries,         \* the job's retries
  MaxDispatches,   \* AgentRunMaxRetries: how often a call dials again
  MaxGroups,       \* bound: scheduled runs
  MaxKeys,         \* bound: executions started on nodes
  MaxFaults        \* bound: crashes, lost leaderships, broken streams, ...

ASSUME ExecutionAssumption ==
  /\ None \notin Servers \cup Nodes \cup Nat
  /\ Forbid \in BOOLEAN
  /\ {Retries, MaxDispatches, MaxGroups, MaxKeys, MaxFaults} \subseteq Nat

Keys == 1..MaxKeys
Groups == 1..MaxGroups

\* An execution can be finished by its node, by the server that loses its
\* stream, and by the clean-up of stale executions.
Finishes == 2..4

\* The first attempt of a run on a node, or the retry after a failed result.
FirstCalls == Groups \X Nodes
RetryCalls == Keys \X Finishes
Calls == FirstCalls \cup RetryCalls

VARIABLES
  leader,          \* the raft leader, or None
  up,              \* the servers that run
  checked,         \* servers whose scheduled job passed isRunnable, not yet run
  groups,          \* how many scheduled runs there have been
  calls,           \* calls[c]: a call of AgentRun
  runs,            \* runs[k]: an execution as its node sees it
  requests,        \* ExecutionDone requests, sent or being handled
  stored,          \* stored[k]: the execution in the store
  counts,          \* the job's success and error counters
  status,          \* the job's status; "notset" is StatusNotSet
  chained,         \* chained[g]: how often the results of a run ran the dependents
  old,             \* executions that started longer ago than the threshold
  faults           \* how many faults there have been

storeVars == <<stored, counts, status>>
execVars == <<leader, up, checked, groups, calls, runs, requests, storeVars, chained,
              old, faults>>

Call == [phase : {"unused", "dialing", "started", "open", "reporting", "ended"},
         server : Servers \cup {None}, tries : 0..MaxDispatches, key : Keys \cup {None}]

Run == [state : {"unused", "running", "succeeded", "failed", "lost"},
        group : Groups \cup {None}, node : Nodes \cup {None}, attempt : 0..(Retries + 1),
        stream : BOOLEAN, last : 1..4]

Request == [key : Keys, finished : Finishes, success : BOOLEAN, server : Servers,
            caller : Calls \cup {None}, forwarded : BOOLEAN,
            stage : {"sent", "applied", "backoff", "retrying", "chaining"}]

Record == [finished : 0..4, success : BOOLEAN]

\* None is not a call or a record, and a node is not a number: no first call
\* is a retry.
ASSUME NamesAssumption ==
  /\ None \notin Calls \cup Record
  /\ Nodes \cap Nat = {}

Init ==
  /\ leader \in Servers
  /\ up = Servers
  /\ checked = {}
  /\ groups = 0
  /\ calls = [c \in Calls |-> [phase |-> "unused", server |-> None, tries |-> 0, key |-> None]]
  /\ runs = [k \in Keys |-> [state |-> "unused", group |-> None, node |-> None,
                             attempt |-> 0, stream |-> FALSE, last |-> 1]]
  /\ requests = {}
  /\ stored = [k \in Keys |-> None]
  /\ counts = [success |-> 0, error |-> 0]
  /\ status = "notset"
  /\ chained = [g \in Groups |-> 0]
  /\ old = {}
  /\ faults = 0

-----------------------------------------------------------------------------
(* What the actions share *)

Fault == faults < MaxFaults /\ faults' = faults + 1

\* Wrong: an execution is forgotten when its stream ends.
WrongActive == {calls[c].key : c \in {d \in Calls : calls[d].phase = "open"}}

\* activeExecutions of all servers: a call registers its execution with the
\* first update and forgets it when it returns, after its ExecutionDone.
Active == {calls[c].key : c \in {d \in Calls : calls[d].phase \in {"open", "reporting"}}}

\* GetRunningExecutions: started and not finished.  A retry that is running
\* carries a finish and is not among them.
Running == {k \in Keys : stored[k] # None /\ stored[k].finished = 0}

\* computeStatus, over the stored executions of a run.
GroupStatus(st, g) ==
  LET G == {k \in Keys : st[k] # None /\ runs[k].group = g}
      succeeded == {k \in G : st[k].success}
  IN CASE succeeded = G  -> "success"
       [] succeeded = {} -> "failed"
       [] OTHER          -> "partially_failed"

Outdated(k, finished) == stored[k] # None /\ stored[k].finished > finished

\* SetExecutionDone: a result that finished before the stored one changes nothing.
StoreResult(k, finished, success) ==
  IF Outdated(k, finished) THEN UNCHANGED storeVars
  ELSE /\ stored' = [stored EXCEPT ![k] = [finished |-> finished, success |-> success]]
       /\ counts' = IF success THEN [counts EXCEPT !.success = @ + 1]
                               ELSE [counts EXCEPT !.error = @ + 1]
       /\ status' = GroupStatus(stored', runs[k].group)

\* An attempt that ended with a retryable error: the call dials again, with the
\* execution it was given, until it has dialed MaxDispatches + 1 times.
Redial(call) ==
  IF call.tries < MaxDispatches
    THEN [call EXCEPT !.phase = "dialing", !.tries = @ + 1, !.key = None]
    ELSE [call EXCEPT !.phase = "ended"]

\* Wrong: the answer is not sent.
WrongReturned(c) == calls

Returned(c) == IF c = None THEN calls ELSE [calls EXCEPT ![c].phase = "ended"]

\* Wrong: whatever ended is reported as a success.
WrongReport(c, finished, success) ==
  IF leader = None
    THEN calls' = [calls EXCEPT ![c] = Redial(@)] /\ UNCHANGED requests
    ELSE /\ calls' = [calls EXCEPT ![c].phase = "reporting"]
         /\ requests' = requests \cup
              {[key |-> calls[c].key, finished |-> finished, success |-> TRUE,
                server |-> leader, caller |-> c, forwarded |-> FALSE, stage |-> "sent"]}

\* agentRunAttempt reports the result of its stream to the leader; without a
\* leader to dial the error is retryable.
Report(c, finished, success) ==
  IF leader = None
    THEN calls' = [calls EXCEPT ![c] = Redial(@)] /\ UNCHANGED requests
    ELSE /\ calls' = [calls EXCEPT ![c].phase = "reporting"]
         /\ requests' = requests \cup
              {[key |-> calls[c].key, finished |-> finished, success |-> success,
                server |-> leader, caller |-> c, forwarded |-> FALSE, stage |-> "sent"]}

-----------------------------------------------------------------------------
(* The leader's scheduler *)

\* Wrong: the test on the active executions is the other way round.
WrongStale == (Running \cap Active) \cap old

\* cleanupStaleRunningExecutions: what started too long ago and is active on no
\* server is recorded as failed; the rest is returned.
Stale == (Running \ Active) \cap old

CleanUp ==
  IF Stale = {} THEN UNCHANGED <<runs, storeVars>>
  ELSE /\ stored' = [k \in Keys |-> IF k \in Stale
                       THEN [finished |-> runs[k].last + 1, success |-> FALSE] ELSE stored[k]]
       /\ runs' = [k \in Keys |-> IF k \in Stale
                       THEN [runs[k] EXCEPT !.last = @ + 1] ELSE runs[k]]
       /\ counts' = [counts EXCEPT !.error = @ + Cardinality(Stale)]
       /\ \E k \in Stale : status' = GroupStatus(stored', runs[k].group)

\* isRunnable of a job whose concurrency is "forbid".
Runnable == Active = {} /\ Running \ Stale = {}

\* The cron entry fires: Job.Run asks isRunnable.
Check(s) ==
  /\ s = leader /\ s \notin checked
  /\ IF Forbid /\ Active = {} THEN CleanUp ELSE UNCHANGED <<runs, storeVars>>
  /\ checked' = IF (Forbid => Runnable) /\ groups < MaxGroups THEN checked \cup {s} ELSE checked
  /\ UNCHANGED <<leader, up, groups, calls, requests, chained, old, faults>>

Dialing(s) == [phase |-> "dialing", server |-> s, tries |-> 0, key |-> None]

\* Agent.Run of a new execution: it writes the job, which only the leader can,
\* and calls every target node.
RunJob(s) ==
  /\ s \in checked
  /\ checked' = checked \ {s}
  /\ IF s # leader \/ groups = MaxGroups THEN UNCHANGED <<groups, calls>>
     ELSE /\ groups' = groups + 1
          /\ calls' = [c \in Calls |-> IF c \in {groups + 1} \X Nodes THEN Dialing(s)
                                                                      ELSE calls[c]]
  /\ UNCHANGED <<leader, up, runs, requests, storeVars, chained, old, faults>>

-----------------------------------------------------------------------------
(* A call and its node *)

\* AgentServer.AgentRun: the node stamps the start, which makes a new key, and
\* sends the first update.
Start(c) ==
  LET k == Cardinality({m \in Keys : runs[m].state # "unused"}) + 1
      retried == runs[c[1]]
  IN /\ calls[c].phase = "dialing"
     /\ k \in Keys
     /\ runs' = [runs EXCEPT ![k] =
          IF c \in FirstCalls
            THEN [state |-> "running", group |-> c[1], node |-> c[2], attempt |-> 1,
                  stream |-> TRUE, last |-> 1]
            ELSE [state |-> "running", group |-> retried.group, node |-> retried.node,
                  attempt |-> retried.attempt + 1, stream |-> TRUE, last |-> 1]]
     /\ calls' = [calls EXCEPT ![c].phase = "started", ![c].key = k]
     /\ UNCHANGED <<leader, up, checked, groups, requests, storeVars, chained, old, faults>>

\* The node cannot be reached.
DialFails(c) ==
  /\ calls[c].phase = "dialing"
  /\ Fault
  /\ calls' = [calls EXCEPT ![c] = Redial(@)]
  /\ UNCHANGED <<leader, up, checked, groups, runs, requests, storeVars, chained, old>>

\* SetExecution of an execution that starts: a retry carries the finish of the
\* attempt before it.
Registered(k) ==
  [stored EXCEPT ![k] = [finished |-> IF runs[k].attempt > 1 THEN 1 ELSE 0, success |-> FALSE]]

\* The first update arrives: the execution is active here and stored by the
\* leader; when that fails the call closes its stream and dials again.
Register(c) ==
  LET k == calls[c].key IN
    /\ calls[c].phase = "started"
    /\ IF leader = None
         THEN /\ calls' = [calls EXCEPT ![c] = Redial(@)]
              /\ runs' = [runs EXCEPT ![k].stream = FALSE]
              /\ UNCHANGED stored
         ELSE /\ calls' = [calls EXCEPT ![c].phase = "open"]
              /\ stored' = Registered(k)
              /\ UNCHANGED runs
    /\ UNCHANGED <<leader, up, checked, groups, requests, counts, status, chained, old, faults>>

\* The executor ends.  When the stream is gone the node reports the result to
\* any server it can reach, or believes the last update was sent.
Finish(k, success) ==
  LET finished == runs[k].last + 1 IN
    /\ runs[k].state = "running"
    /\ runs' = [runs EXCEPT ![k].state = IF success THEN "succeeded" ELSE "failed",
                            ![k].last = finished]
    /\ \/ UNCHANGED requests
       \/ /\ ~runs[k].stream
          /\ \E s \in up : requests' = requests \cup
               {[key |-> k, finished |-> finished, success |-> success, server |-> s,
                 caller |-> None, forwarded |-> FALSE, stage |-> "sent"]}
    /\ UNCHANGED <<leader, up, checked, groups, calls, storeVars, chained, old, faults>>

\* The last update and the end of the stream arrive.
ReceiveEnd(c) ==
  LET k == calls[c].key IN
    /\ calls[c].phase = "open"
    /\ runs[k].stream /\ runs[k].state \in {"succeeded", "failed"}
    /\ Report(c, runs[k].last, runs[k].state = "succeeded")
    /\ UNCHANGED <<leader, up, checked, groups, runs, storeVars, chained, old, faults>>

\* The stream breaks: the call finishes the execution as failed.
NoticeBreak(c) ==
  LET k == calls[c].key IN
    /\ calls[c].phase = "open"
    /\ ~runs[k].stream
    /\ Report(c, runs[k].last + 1, FALSE)
    /\ runs' = [runs EXCEPT ![k].last = @ + 1]
    /\ UNCHANGED <<leader, up, checked, groups, storeVars, chained, old, faults>>

-----------------------------------------------------------------------------
(* ExecutionDone *)

\* A server that is not the leader forwards the request, waits, and answers
\* ErrNotLeader whatever came of it; the caller takes that for success.
Forward(r) ==
  /\ r.stage = "sent" /\ r.server # leader
  /\ IF leader = None
       THEN /\ requests' = requests \ {r}
            /\ calls' = Returned(r.caller)
       ELSE /\ requests' = (requests \ {r}) \cup {[r EXCEPT !.server = leader, !.forwarded = TRUE]}
            /\ UNCHANGED calls
  /\ UNCHANGED <<leader, up, checked, groups, runs, storeVars, chained, old, faults>>

\* The leader applies the result to the log.
ApplyDone(r) ==
  /\ r.stage = "sent" /\ r.server = leader
  /\ StoreResult(r.key, r.finished, r.success)
  /\ requests' = (requests \ {r}) \cup {[r EXCEPT !.stage = "applied"]}
  /\ UNCHANGED <<leader, up, checked, groups, calls, runs, chained, old, faults>>

\* Leadership is lost while the entry is in flight: the handler returns an
\* error that is not retryable, whether or not the entry gets committed.
ApplyUncertain(r) ==
  /\ r.stage = "sent" /\ r.server = leader
  /\ Fault
  /\ leader' = None
  /\ StoreResult(r.key, r.finished, r.success) \/ UNCHANGED storeVars
  /\ requests' = requests \ {r}
  /\ calls' = Returned(r.caller)
  /\ UNCHANGED <<up, checked, groups, runs, chained, old>>

\* Wrong: one attempt too many.
WrongRetryDue(r) == ~r.success /\ runs[r.key].attempt <= Retries + 1

RetryDue(r) == ~r.success /\ runs[r.key].attempt < Retries + 1

\* Wrong: any result of a job runs its dependents.
WrongChains == TRUE

\* The dependents run if the job's status, whatever run it is of, is success.
Chains == status = "success"

\* The handler reads the job again: it goes to sleep before a retry, runs the
\* dependent jobs and waits for them, or answers.
Conclude(r) ==
  /\ r.stage = "applied"
  /\ IF RetryDue(r)
       THEN /\ requests' = (requests \ {r}) \cup {[r EXCEPT !.stage = "backoff"]}
            /\ UNCHANGED <<calls, chained>>
       ELSE IF Chains
       THEN /\ requests' = (requests \ {r}) \cup {[r EXCEPT !.stage = "chaining"]}
            /\ chained' = [chained EXCEPT ![runs[r.key].group] = @ + 1]
            /\ UNCHANGED calls
       ELSE /\ requests' = requests \ {r}
            /\ calls' = Returned(r.caller)
            /\ UNCHANGED chained
  /\ UNCHANGED <<leader, up, checked, groups, runs, storeVars, old, faults>>

\* The dependents have run, and the handler answers.
DependentsReturn(r) ==
  /\ r.stage = "chaining"
  /\ requests' = requests \ {r}
  /\ calls' = Returned(r.caller)
  /\ UNCHANGED <<leader, up, checked, groups, runs, storeVars, chained, old, faults>>

\* Agent.Run of a retry: a server that leads no longer cannot write the job,
\* and the retry is lost.
Retry(r) ==
  /\ r.stage = "backoff"
  /\ IF r.server = leader
       THEN /\ requests' = (requests \ {r}) \cup {[r EXCEPT !.stage = "retrying"]}
            /\ calls' = [calls EXCEPT ![<<r.key, r.finished>>] = Dialing(r.server)]
       ELSE /\ requests' = requests \ {r}
            /\ calls' = Returned(r.caller)
  /\ UNCHANGED <<leader, up, checked, groups, runs, storeVars, chained, old, faults>>

\* The retry has returned, and the handler answers.
RetryReturns(r) ==
  /\ r.stage = "retrying"
  /\ calls[<<r.key, r.finished>>].phase = "ended"
  /\ requests' = requests \ {r}
  /\ calls' = Returned(r.caller)
  /\ UNCHANGED <<leader, up, checked, groups, runs, storeVars, chained, old, faults>>

-----------------------------------------------------------------------------
(* Faults and time *)

BreakStream(k) ==
  /\ runs[k].stream
  /\ \E c \in Calls : calls[c].key = k /\ calls[c].phase = "open"
  /\ Fault
  /\ runs' = [runs EXCEPT ![k].stream = FALSE]
  /\ UNCHANGED <<leader, up, checked, groups, calls, requests, storeVars, chained, old>>

\* The node's agent crashes: the executor's result is never reported.
AgentCrash(k) ==
  /\ runs[k].state = "running"
  /\ \E c \in Calls : calls[c].key = k /\ calls[c].phase = "open"
  /\ Fault
  /\ runs' = [runs EXCEPT ![k].state = "lost", ![k].stream = FALSE]
  /\ UNCHANGED <<leader, up, checked, groups, calls, requests, storeVars, chained, old>>

LoseLeadership ==
  /\ leader # None
  /\ Fault
  /\ leader' = None
  /\ UNCHANGED <<up, checked, groups, calls, runs, requests, storeVars, chained, old>>

\* A server's process ends.  Its calls and handlers are gone; a call elsewhere
\* that waits for its answer gets a retryable error, and so do the calls in cut.
Down(s, cut) ==
  LET alive(c) == calls[c].phase \in {"dialing", "started", "open", "reporting"}
      gone == {c \in Calls : alive(c) /\ calls[c].server = s}
      lost == {r \in requests : r.server = s}
      unanswered == {r.caller : r \in {q \in lost : ~q.forwarded}}
  IN /\ s \in up
     /\ Fault
     /\ up' = up \ {s}
     /\ leader' = IF leader = s THEN None ELSE leader
     /\ checked' = checked \ {s}
     /\ calls' = [c \in Calls |->
          IF c \in gone THEN [calls[c] EXCEPT !.phase = "ended"]
          ELSE IF c \in unanswered \cup cut THEN Redial(calls[c])
          ELSE IF \E r \in lost : r.caller = c THEN [calls[c] EXCEPT !.phase = "ended"]
          ELSE calls[c]]
     /\ runs' = [k \in Keys |->
          IF \E c \in gone \cup cut : calls[c].key = k
            THEN [runs[k] EXCEPT !.stream = FALSE] ELSE runs[k]]
     /\ requests' = {IF r.caller \in gone THEN [r EXCEPT !.caller = None] ELSE r :
                      r \in requests \ lost}
     /\ UNCHANGED <<groups, counts, status, chained, old>>

Crash(s) == Down(s, {}) /\ UNCHANGED stored

\* The leader cannot tell whether the start of an execution was committed, or
\* dies before it answers: its process ends either way, and the call that sent
\* the start closes its stream and dials again.
RegisterUncertain(c) ==
  /\ calls[c].phase = "started" /\ leader # None
  /\ Down(leader, {c})
  /\ stored' \in {stored, Registered(calls[c].key)}

Restart(s) ==
  /\ s \notin up
  /\ up' = up \cup {s}
  /\ UNCHANGED <<leader, checked, groups, calls, runs, requests, storeVars, chained, old, faults>>

\* A server is elected: before its scheduler starts it cleans up the stale
\* executions, unless it cannot read the active ones.
Elect(s) ==
  /\ leader = None /\ s \in up
  /\ leader' = s
  /\ \/ CleanUp /\ UNCHANGED faults
     \/ Fault /\ UNCHANGED <<runs, storeVars>>
  /\ UNCHANGED <<up, checked, groups, calls, requests, chained, old>>

\* Time passes the threshold for an execution that nothing will finish.
Age(k) ==
  /\ k \in (Running \ Active) \ old
  /\ old' = old \cup {k}
  /\ UNCHANGED <<leader, up, checked, groups, calls, runs, requests, storeVars, chained, faults>>

Next ==
  \/ \E s \in Servers : Check(s) \/ RunJob(s) \/ Crash(s) \/ Restart(s) \/ Elect(s)
  \/ \E c \in Calls : Start(c) \/ DialFails(c) \/ Register(c) \/ ReceiveEnd(c) \/ NoticeBreak(c)
                      \/ RegisterUncertain(c)
  \/ \E k \in Keys : (\E success \in BOOLEAN : Finish(k, success))
                     \/ BreakStream(k) \/ AgentCrash(k) \/ Age(k)
  \/ \E r \in requests : Forward(r) \/ ApplyDone(r) \/ ApplyUncertain(r) \/ Conclude(r)
                         \/ Retry(r) \/ RetryReturns(r) \/ DependentsReturn(r)
  \/ LoseLeadership

Spec == Init /\ [][Next]_execVars

\* Goroutines run, streams and answers are delivered, executors end, raft elects
\* a leader, the cron fires and time passes; faults owe nothing, and are bounded.
Fairness ==
  /\ \A s \in Servers : WF_execVars(Check(s)) /\ WF_execVars(RunJob(s))
                        /\ WF_execVars(Restart(s))
  /\ WF_execVars(\E s \in Servers : Elect(s))
  /\ \A c \in Calls : WF_execVars(Start(c) \/ Register(c) \/ ReceiveEnd(c) \/ NoticeBreak(c))
  /\ \A k \in Keys : WF_execVars(\E success \in BOOLEAN : Finish(k, success))
                     /\ WF_execVars(Age(k))
  /\ WF_execVars(\E r \in requests : Forward(r) \/ ApplyDone(r) \/ Conclude(r)
                                      \/ Retry(r) \/ RetryReturns(r) \/ DependentsReturn(r))

FairSpec == Spec /\ Fairness

-----------------------------------------------------------------------------
(* Properties *)

\* Every call, execution, request and record is well formed; in particular no
\* run is attempted more than Retries + 1 times, whatever redials, repeated
\* failures and crashes do.
TypeOK ==
  /\ leader \in up \cup {None}
  /\ up \subseteq Servers /\ checked \subseteq up
  /\ groups \in 0..MaxGroups
  /\ calls \in [Calls -> Call]
  /\ runs \in [Keys -> Run]
  /\ requests \subseteq Request
  /\ stored \in [Keys -> Record \cup {None}]
  /\ counts \in [success : Nat, error : Nat]
  /\ status \in {"notset", "success", "failed", "partially_failed"}
  /\ chained \in [Groups -> Nat]
  /\ old \subseteq Keys
  /\ faults \in 0..MaxFaults

Recorded(k) == stored[k] # None /\ stored[k].finished >= 2

\* Whatever crashes, late reports and clean-ups happen, the store shows a
\* success only for an execution that succeeded on its node, never counts one
\* twice, and has counted every finish it shows.
ResultsAreReal ==
  LET succeeded == {k \in Keys : runs[k].state = "succeeded"} IN
    /\ \A k \in Keys : Recorded(k) /\ stored[k].success => k \in succeeded
    /\ counts.success <= Cardinality(succeeded)
    /\ counts.success + counts.error >= Cardinality({k \in Keys : Recorded(k)})

Quiet == requests = {} /\ \A c \in Calls : calls[c].phase \in {"unused", "ended"}

Started(g, n) == {k \in Keys : runs[k].group = g /\ runs[k].node = n}

\* Without faults, when all is answered: each run has had one execution per
\* attempt on each node, each attempt but the last failed, the last succeeded
\* or was the last allowed, and the store shows and has counted each once.
ExactWithoutFaults ==
  faults = 0 /\ Quiet =>
    /\ \A g \in 1..groups, n \in Nodes :
         LET S == Started(g, n)
             last == Cardinality(S)
         IN /\ {runs[k].attempt : k \in S} = 1..last
            /\ \A k \in S : (runs[k].state = "succeeded") => runs[k].attempt = last
            /\ (\E k \in S : runs[k].state = "succeeded") \/ last = Retries + 1
            /\ \A k \in S : stored[k] = [finished |-> runs[k].last,
                                         success |-> runs[k].state = "succeeded"]
    /\ counts.success = Cardinality({k \in Keys : runs[k].state = "succeeded"})
    /\ counts.error = Cardinality({k \in Keys : runs[k].state = "failed"})

\* The results of a run on a node go on until one is a success or the last
\* attempt allowed.
RunIsOver(g, n) ==
  \E k \in Started(g, n) :
    Recorded(k) /\ (runs[k].state = "succeeded" \/ runs[k].attempt = Retries + 1)

\* isRunnable sees every run from its first update on.  Whatever has failed, an
\* execution that was registered and still has its stream is seen; and without
\* faults, although a running retry looks finished in the store, a run is seen
\* through every failed attempt, backoff, dial and retry until its last result.
RunsAreSeen ==
  /\ \A k \in Keys :
       runs[k].state = "running" /\ runs[k].stream /\ stored[k] # None => ~Runnable
  /\ faults = 0 => \A g \in Groups, n \in Nodes :
       (\E k \in Started(g, n) : stored[k] # None) /\ ~RunIsOver(g, n) => ~Runnable

\* The results of run g that are not retried.
Ends(g) ==
  {k \in Keys : /\ runs[k].group = g /\ Recorded(k)
                /\ runs[k].state = "succeeded" \/ runs[k].attempt = Retries + 1}

\* Dependents run only after a success, whichever faults, late results and runs
\* at the same time there are; and without faults at most once for each result
\* that ends a run, never for an attempt that is retried.
DependentsFollowResults ==
  /\ (\E g \in Groups : chained[g] > 0) => \E k \in Keys : runs[k].state = "succeeded"
  /\ faults = 0 => \A g \in Groups : chained[g] <= Cardinality(Ends(g))

\* Every call of AgentRun returns: nothing waits forever for an answer, a
\* stream, a leader or a retry.
CallsEnd == \A c \in Calls : [](calls[c].phase # "unused" => <>(calls[c].phase = "ended"))

\* A "forbid" job is never blocked for good: whatever was running when a server
\* crashed is finished or cleaned up.
ForbidUnblocks == []<>(Active = {} /\ Running = {})

\* grpc_client.go:582: once the stream of an execution broke and its call had
\* the failed result recorded, the call does not dispatch the execution again.
NotDispatchedAgain ==
  [][\A c \in Calls :
       LET k == calls[c].key IN
         /\ calls[c].phase = "reporting" /\ ~runs[k].stream
         /\ \E r \in requests : r.caller = c /\ r.stage # "sent" /\ ~r.success
         /\ Recorded(k) /\ ~stored[k].success
         => calls'[c].phase # "dialing"]_execVars

\* chaining.md:5: the dependent jobs are executed after the main job finished a
\* successful execution.
ChainFollowsSuccess ==
  faults = 0 /\ Quiet =>
    \A k \in Keys : Recorded(k) /\ stored[k].success => chained[runs[k].group] > 0

\* concurrency.md:13: a "forbid" job that is already running is not sent again.
NeverTwoRuns ==
  Forbid => \A k, m \in Keys : runs[k].state = "running" /\ runs[m].state = "running"
                                 => runs[k].group = runs[m].group
=============================================================================
