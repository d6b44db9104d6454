------------------------- MODULE DkronReplicaProofs -------------------------
(***************************************************************************)
(* What is proved of DkronReplica for every set of jobs and executions,    *)
(* every script and length of the log, and whatever run times the clocks   *)
(* of the servers produce.                                                 *)
(***************************************************************************)
EXTENDS DkronReplica, DkronStoreProofs, SequenceTheorems

-----------------------------------------------------------------------------
(* Tables of jobs that differ at most in the next runs *)

SameJob(r, s) ==
  /\ r = NoJob <=> s = NoJob
  /\ r # NoJob => /\ r.parent = s.parent /\ r.dependents = s.dependents
                  /\ r.schedule = s.schedule /\ r.results = s.results

SameJobs(js, ks) == \A x \in Jobs : SameJob(js[x], ks[x])

LEMMA SameJobFacts ==
  ASSUME NEW r \in JobRecord \cup {NoJob}, NEW s \in JobRecord \cup {NoJob}, SameJob(r, s)
  PROVE  ButNext(r) = ButNext(s)
<1>1. CASE r = NoJob
  BY <1>1 DEF SameJob, ButNext
<1>2. CASE r # NoJob
  <2>1. r \in JobRecord /\ s \in JobRecord /\ s # NoJob
    BY <1>2 DEF SameJob
  <2>2. [r EXCEPT !.next = 0] = [s EXCEPT !.next = 0]
    BY <1>2, <2>1 DEF SameJob, JobRecord
  <2> QED BY <1>2, <2>1, <2>2 DEF ButNext
<1> QED BY <1>1, <1>2

\* The operators SetJob and DeleteJob are built from treat such tables alike.
LEMMA UnlinkAgrees ==
  ASSUME NEW js \in JobTable, NEW ks \in JobTable, SameJobs(js, ks),
         NEW c \in Jobs, NEW p \in Jobs \cup {NoParent}
  PROVE  /\ SameJobs(Unlink(js, c, p), Unlink(ks, c, p))
         /\ p # NoParent => (CanRewrite(js, p) <=> CanRewrite(ks, p))
<1>1. p # NoParent => (CanRewrite(js, p) <=> CanRewrite(ks, p))
  BY DEF CanRewrite, SameJobs, SameJob, JobTable, JobRecord
<1>2. CASE p # NoParent /\ CanRewrite(js, p)
  <2>1. /\ p \in Jobs /\ js[p] \in JobRecord /\ ks[p] \in JobRecord
        /\ js[p] # NoJob /\ ks[p] # NoJob
        /\ js[p].dependents = ks[p].dependents /\ js[p].dependents \in Dependents
    BY <1>2 DEF CanRewrite, JobTable, JobRecord, SameJobs, SameJob
  <2> DEFINE d == [js[p].dependents EXCEPT ![c] = 0]
             r == [js[p] EXCEPT !.dependents = d]
             s == [ks[p] EXCEPT !.dependents = d]
  <2>2. d \in Dependents
    BY <2>1, ConstantsAssumption DEF Dependents
  <2>3. Unlink(js, c, p) = [js EXCEPT ![p] = r] /\ Unlink(ks, c, p) = [ks EXCEPT ![p] = s]
    BY <1>1, <1>2, <2>1 DEF Unlink, JobTable
  <2>4. r \in JobRecord /\ s \in JobRecord /\ r # NoJob /\ s # NoJob
    BY <2>1, <2>2, ConstantsAssumption DEF JobRecord
  <2>5. /\ r.dependents = s.dependents
        /\ r.parent = js[p].parent /\ r.schedule = js[p].schedule /\ r.results = js[p].results
        /\ s.parent = ks[p].parent /\ s.schedule = ks[p].schedule /\ s.results = ks[p].results
    BY <2>1 DEF JobRecord
  <2> HIDE DEF r, s
  <2>6. SameJob(r, s)
    BY <2>1, <2>4, <2>5 DEF SameJobs, SameJob
  <2> QED BY <1>1, <2>1, <2>3, <2>6 DEF SameJobs, JobTable
<1>3. CASE ~(p # NoParent /\ CanRewrite(js, p))
  BY <1>1, <1>3 DEF Unlink
<1> QED BY <1>1, <1>2, <1>3

LEMMA LinkAgrees ==
  ASSUME NEW js \in JobTable, NEW ks \in JobTable, SameJobs(js, ks),
         NEW c \in Jobs, NEW p \in Jobs \cup {NoParent},
         p # NoParent => js[p] # NoJob /\ js[p].dependents[c] < MaxOccurrences
  PROVE  SameJobs(Link(js, c, p), Link(ks, c, p)) /\ Link(ks, c, p) \in JobTable
<1>1. p # NoParent => (CanRewrite(js, p) <=> CanRewrite(ks, p))
  BY UnlinkAgrees
<1>2. CASE p # NoParent /\ CanRewrite(js, p)
  <2>1. /\ p \in Jobs /\ js[p] \in JobRecord /\ ks[p] \in JobRecord
        /\ js[p] # NoJob /\ ks[p] # NoJob
        /\ js[p].dependents = ks[p].dependents /\ js[p].dependents \in Dependents
    BY <1>2 DEF CanRewrite, JobTable, JobRecord, SameJobs, SameJob
  <2> DEFINE d == [js[p].dependents EXCEPT ![c] = js[p].dependents[c] + 1]
             r == [js[p] EXCEPT !.dependents = d]
             s == [ks[p] EXCEPT !.dependents = d]
  <2>2. d \in Dependents
    <3>1. js[p].dependents[c] \in Nat /\ js[p].dependents[c] < MaxOccurrences
      BY <1>2, <2>1, ConstantsAssumption DEF Dependents
    <3> QED BY <2>1, <3>1, ConstantsAssumption DEF Dependents
  <2>3. Link(js, c, p) = [js EXCEPT ![p] = r] /\ Link(ks, c, p) = [ks EXCEPT ![p] = s]
    BY <1>1, <1>2, <2>1 DEF Link, JobTable, JobRecord, Dependents
  <2>4. r \in JobRecord /\ s \in JobRecord /\ r # NoJob /\ s # NoJob
    BY <2>1, <2>2, ConstantsAssumption DEF JobRecord
  <2>5. /\ r.dependents = s.dependents
        /\ r.parent = js[p].parent /\ r.schedule = js[p].schedule /\ r.results = js[p].results
        /\ s.parent = ks[p].parent /\ s.schedule = ks[p].schedule /\ s.results = ks[p].results
    BY <2>1 DEF JobRecord
  <2> HIDE DEF r, s
  <2>6. SameJob(r, s)
    BY <2>1, <2>4, <2>5 DEF SameJobs, SameJob
  <2> QED BY <1>1, <2>1, <2>3, <2>4, <2>6 DEF SameJobs, JobTable
<1>3. CASE ~(p # NoParent /\ CanRewrite(js, p))
  BY <1>1, <1>3 DEF Link
<1> QED BY <1>2, <1>3

LEMMA MergeAgrees ==
  ASSUME NEW p \in Payloads, NEW r \in JobRecord \cup {NoJob}, NEW s \in JobRecord \cup {NoJob},
         SameJob(r, s), NEW m \in NextTimes, NEW n \in NextTimes
  PROVE  SameJob(Merge(p, r, m), Merge(p, s, n))
<1>1. /\ Merge(p, r, m) \in JobRecord /\ Merge(p, s, n) \in JobRecord
      /\ Merge(p, r, m) # NoJob /\ Merge(p, s, n) # NoJob
  BY MergeFacts, ConstantsAssumption
<1>2. p \in JobRecord
  BY PayloadInJobRecord
<1>3. CASE r = NoJob
  BY <1>1, <1>2, <1>3 DEF SameJob, Merge, JobRecord
<1>4. CASE r # NoJob
  <2>1. r \in JobRecord /\ s \in JobRecord /\ s # NoJob
    BY <1>4 DEF SameJob
  <2>2. ASSUME NEW t \in JobRecord, t # NoJob, NEW k \in NextTimes
        PROVE  /\ Merge(p, t, k).parent = p.parent
               /\ Merge(p, t, k).dependents = MergeDependents(p.dependents, t.dependents)
               /\ Merge(p, t, k).schedule = p.schedule
               /\ Merge(p, t, k).results = MergeResults(p.results, t.results)
    BY <1>2, <2>2 DEF Merge, JobRecord
  <2> QED BY <1>1, <1>4, <2>1, <2>2 DEF SameJob
<1> QED BY <1>3, <1>4

\* Results written to the same job.
LEMMA WriteAgrees ==
  ASSUME NEW js \in JobTable, NEW ks \in JobTable, SameJobs(js, ks),
         NEW j \in Jobs, js[j] # NoJob, NEW r \in Results
  PROVE  /\ SameJobs([js EXCEPT ![j].results = r], [ks EXCEPT ![j].results = r])
         /\ [ks EXCEPT ![j].results = r] \in JobTable
<1>1. /\ js[j] \in JobRecord /\ ks[j] \in JobRecord /\ ks[j] # NoJob
      /\ SameJob(js[j], ks[j])
  BY DEF SameJobs, SameJob, JobTable
<1> DEFINE a == [js[j] EXCEPT !.results = r]
           b == [ks[j] EXCEPT !.results = r]
<1>2. /\ [js EXCEPT ![j].results = r] = [js EXCEPT ![j] = a]
      /\ [ks EXCEPT ![j].results = r] = [ks EXCEPT ![j] = b]
  OBVIOUS
<1>3. a \in JobRecord /\ b \in JobRecord /\ a # NoJob /\ b # NoJob
  BY <1>1, ConstantsAssumption DEF JobRecord
<1>4. /\ a.results = b.results
      /\ a.parent = js[j].parent /\ a.schedule = js[j].schedule
      /\ a.dependents = js[j].dependents
      /\ b.parent = ks[j].parent /\ b.schedule = ks[j].schedule
      /\ b.dependents = ks[j].dependents
  BY <1>1 DEF JobRecord
<1> HIDE DEF a, b
<1>5. SameJob(a, b)
  BY <1>1, <1>3, <1>4 DEF SameJob
<1> QED BY <1>2, <1>3, <1>5 DEF SameJobs, JobTable

\* Both tables follow a written job alike.
LEMMA RelinkAgrees ==
  ASSUME NEW js \in JobTable, NEW ks \in JobTable, SameJobs(js, ks), Closed(js),
         NEW j \in Jobs, js[j] # NoJob,
         NEW old \in Jobs \cup {NoParent}, old # NoParent => js[old] # NoJob,
         js[j].parent # NoParent /\ js[j].parent # old =>
           js[js[j].parent].dependents[j] < MaxOccurrences
  PROVE  SameJobs(Relink(js, j, old), Relink(ks, j, old)) /\ Relink(ks, j, old) \in JobTable
<1> DEFINE q == js[j].parent
<1>1. q = ks[j].parent /\ q \in Jobs \cup {NoParent}
  BY DEF SameJobs, SameJob, JobTable, JobRecord
<1>2. CASE q = old
  BY <1>1, <1>2 DEF Relink
<1>3. CASE q # old
  <2>1. old # NoParent => CanRewrite(js, old) /\ CanRewrite(ks, old)
    BY UnlinkAgrees DEF Closed, CanRewrite
  <2> DEFINE mid == Unlink(js, j, old)
             mid2 == Unlink(ks, j, old)
  <2>2. Relink(js, j, old) = Link(mid, j, q) /\ Relink(ks, j, old) = Link(mid2, j, q)
    BY <1>1, <1>3, <2>1 DEF Relink
  <2>3. /\ mid \in JobTable /\ mid2 \in JobTable /\ SameJobs(mid, mid2)
        /\ SameButList(js, mid, old)
    <3>1. SameButList(js, mid, old) /\ SameButList(ks, mid2, old)
      BY UnlinkFacts
    <3>2. SameJobs(mid, mid2)
      BY UnlinkAgrees
    <3> QED BY <3>1, <3>2 DEF SameButList
  <2> HIDE DEF mid, mid2
  <2>4. q # NoParent => /\ q \in Jobs /\ mid[q] # NoJob
                        /\ mid[q].dependents[j] < MaxOccurrences
    BY <1>1, <1>3, <2>3 DEF SameButList, Closed
  <2> HIDE DEF q
  <2>5. SameJobs(Link(mid, j, q), Link(mid2, j, q)) /\ Link(mid2, j, q) \in JobTable
    BY <1>1, <2>3, <2>4, LinkAgrees
  <2> QED BY <2>2, <2>5
<1> QED BY <1>2, <1>3

-----------------------------------------------------------------------------
(* What a command makes of a store, whichever server applies it *)

AcceptedAt(cmd, x) ==
  /\ cmd.op = "SetJob" =>
       /\ cmd.payload.parent # cmd.job
       /\ cmd.payload.parent # NoParent => x.jobs[cmd.payload.parent] # NoJob
  /\ cmd.op = "DeleteJob" =>
       x.jobs[cmd.job] # NoJob /\ x.jobs[cmd.job].dependents = NoDependents
  /\ cmd.op = "DeleteExecutions" => x.jobs[cmd.job] # NoJob
  /\ cmd.op = "ExecutionDone" =>
       /\ x.jobs[JobOf[cmd.key]] # NoJob
       /\ ~(/\ x.execs[cmd.key] # NoExecution
            /\ x.execs[cmd.key].finished > cmd.result.finished)

PutIn(es, k, e) ==
  IF es[k] # NoExecution /\ es[k].finished > e.finished THEN es ELSE [es EXCEPT ![k] = e]

Without(es, j) == [k \in Keys |-> IF JobOf[k] \in NamesFrom[j] THEN NoExecution ELSE es[k]]

SetJobEffect(j, p, x, y) ==
  /\ p.parent # NoParent /\ p.parent # ParentOf(x.jobs, j) =>
       x.jobs[p.parent].dependents[j] < MaxOccurrences
  /\ \E n \in NextTimes :
       y.jobs = Relink([x.jobs EXCEPT ![j] = Merge(p, x.jobs[j], n)],
                       j, ParentOf(x.jobs, j))
  /\ y.execs = x.execs /\ y.stats = x.stats

DeleteJobEffect(j, x, y) ==
  /\ y.jobs = Unlink([x.jobs EXCEPT ![j] = NoJob], j, x.jobs[j].parent)
  /\ y.execs = Without(x.execs, j) /\ y.stats = x.stats

DeleteExecutionsEffect(j, x, y) ==
  /\ y.jobs = [x.jobs EXCEPT ![j].results = ResetResults(x.jobs[j].results)]
  /\ y.execs = Without(x.execs, j) /\ y.stats = x.stats

SetExecutionEffect(k, finished, x, y) ==
  LET es == PutIn(x.execs, k, [finished |-> finished, success |-> FALSE]) IN
    /\ y.execs = [m \in Keys |->
                   IF m \in Overflow(es, JobOf[k]) THEN NoExecution ELSE es[m]]
    /\ y.jobs = x.jobs /\ y.stats = x.stats

SetExecutionDoneEffect(k, e, x, y) ==
  LET j == JobOf[k]
      d == DayOf[e.finished]
      r == x.jobs[j].results
      es == PutIn(x.execs, k, e)
  IN /\ e.finished >= k
     /\ y.execs = es
     /\ IF x.execs[k] = e => (IF e.success THEN r.lastSuccess ELSE r.lastError) # e.finished
          THEN /\ r.successCount < MaxCount /\ r.errorCount < MaxCount
               /\ x.stats[d].success < MaxStat /\ x.stats[d].failed < MaxStat
               /\ y.jobs = [x.jobs EXCEPT
                    ![j].results = Count(r, e, GroupStatus(es, j, GroupOf[k]))]
               /\ y.stats = [x.stats EXCEPT ![d] = IncrementStat(x.stats[d], e.success)]
          ELSE y.jobs = x.jobs /\ y.stats = x.stats

\* y is what the store x may become when it applies cmd.
Effect(cmd, x, y) ==
  IF AcceptedAt(cmd, x)
    THEN \/ cmd.op = "SetJob" /\ SetJobEffect(cmd.job, cmd.payload, x, y)
         \/ cmd.op = "DeleteJob" /\ DeleteJobEffect(cmd.job, x, y)
         \/ cmd.op = "DeleteExecutions" /\ DeleteExecutionsEffect(cmd.job, x, y)
         \/ cmd.op = "SetExecution" /\ SetExecutionEffect(cmd.key, cmd.finished, x, y)
         \/ cmd.op = "ExecutionDone" /\ SetExecutionDoneEffect(cmd.key, cmd.result, x, y)
    ELSE y.jobs = x.jobs /\ y.execs = x.execs /\ y.stats = x.stats

LEMMA ApplyHasEffect ==
  ASSUME NEW cmd \in Commands, Apply(cmd)
  PROVE  Effect(cmd, Database(jobs, execs, stats), Database(jobs', execs', stats'))
<1> DEFINE x == Database(jobs, execs, stats)
           y == Database(jobs', execs', stats')
<1>1. /\ x.jobs = jobs /\ x.execs = execs /\ x.stats = stats
      /\ y.jobs = jobs' /\ y.execs = execs' /\ y.stats = stats'
  BY DEF Database
<1> SUFFICES Effect(cmd, x, y)
  OBVIOUS
<1> HIDE DEF x, y
<1>2. AcceptedAt(cmd, x) <=> Accepts(cmd)
  BY <1>1 DEF AcceptedAt, Accepts, Stored, Outdated
<1>3. CASE ~Accepts(cmd) /\ UNCHANGED vars
  BY <1>1, <1>2, <1>3 DEF Effect, vars
<1>4. CASE cmd.op = "SetJob" /\ SetJob(cmd.job, cmd.payload)
  <2>1. Accepts(cmd)
    BY <1>4 DEF Accepts, SetJob
  <2>2. SetJobEffect(cmd.job, cmd.payload, x, y)
    BY <1>1, <1>4 DEF SetJob, SetJobEffect, WithinOccurrences
  <2> QED BY <1>2, <1>4, <2>1, <2>2 DEF Effect
<1>5. CASE cmd.op = "DeleteJob" /\ DeleteJob(cmd.job)
  <2>1. Accepts(cmd)
    BY <1>5 DEF Accepts, DeleteJob
  <2>2. DeleteJobEffect(cmd.job, x, y)
    BY <1>1, <1>5 DEF DeleteJob, DeleteJobEffect, WithoutExecutions, Without
  <2> QED BY <1>2, <1>5, <2>1, <2>2 DEF Effect
<1>6. CASE cmd.op = "DeleteExecutions" /\ DeleteExecutions(cmd.job)
  <2>1. Accepts(cmd)
    BY <1>6 DEF Accepts, DeleteExecutions
  <2>2. DeleteExecutionsEffect(cmd.job, x, y)
    BY <1>1, <1>6
       DEF DeleteExecutions, DeleteExecutionsEffect, WithoutExecutions, Without
  <2> QED BY <1>2, <1>6, <2>1, <2>2 DEF Effect
<1>7. CASE cmd.op = "SetExecution" /\ SetExecution(cmd.key, cmd.finished)
  <2>1. Accepts(cmd)
    BY <1>7 DEF Accepts
  <2>2. SetExecutionEffect(cmd.key, cmd.finished, x, y)
    BY <1>1, <1>7 DEF SetExecution, SetExecutionEffect, PutExecution, PutIn, Outdated
  <2> QED BY <1>2, <1>7, <2>1, <2>2 DEF Effect
<1>8. CASE cmd.op = "ExecutionDone" /\ SetExecutionDone(cmd.key, cmd.result)
  <2>1. Accepts(cmd)
    BY <1>8 DEF Accepts, SetExecutionDone
  <2>2. SetExecutionDoneEffect(cmd.key, cmd.result, x, y)
    BY <1>1, <1>8
       DEF SetExecutionDone, SetExecutionDoneEffect, PutExecution, PutIn, Outdated, Counts,
           BelowBounds
  <2> QED BY <1>2, <1>8, <2>1, <2>2 DEF Effect
<1> QED BY <1>3, <1>4, <1>5, <1>6, <1>7, <1>8 DEF Apply

\* The same for the server that follows, whose operators are those of DkronStore
\* on other variables.
LEMMA FollowerApplyHasEffect ==
  ASSUME NEW cmd \in Commands, Server!Apply(cmd)
  PROVE  Effect(cmd, Live, Live')
<1>1. /\ Live.jobs = fjobs /\ Live.execs = fexecs /\ Live.stats = fstats
      /\ Live'.jobs = fjobs' /\ Live'.execs = fexecs' /\ Live'.stats = fstats'
  BY DEF Live, Database
<1>2. AcceptedAt(cmd, Live) <=> Server!Accepts(cmd)
  BY <1>1 DEF AcceptedAt, Server!Accepts, Server!Stored, Server!Outdated,
              NoDependents, Server!NoDependents
<1>3. CASE ~Server!Accepts(cmd) /\ UNCHANGED Server!vars
  BY <1>1, <1>2, <1>3 DEF Effect, Server!vars
<1>4. CASE cmd.op = "SetJob" /\ Server!SetJob(cmd.job, cmd.payload)
  <2>1. Server!Accepts(cmd)
    BY <1>4 DEF Server!Accepts, Server!SetJob
  <2>2. SetJobEffect(cmd.job, cmd.payload, Live, Live')
    <3>1. \A js, j, o : Server!Relink(js, j, o) = Relink(js, j, o)
      BY DEF Server!Relink, Relink, Server!Link, Link, Server!Unlink, Unlink,
             Server!CanRewrite, CanRewrite
    <3>2. \A p, r, n : Server!Merge(p, r, n) = Merge(p, r, n)
      BY DEF Server!Merge, Merge, Server!MergeResults, MergeResults, Server!Later, Later,
             Server!MergeDependents, MergeDependents, Server!NoDependents, NoDependents
    <3>3. \A js, j : Server!ParentOf(js, j) = ParentOf(js, j)
      BY DEF Server!ParentOf, ParentOf
    <3> QED BY <1>1, <1>4, <3>1, <3>2, <3>3
            DEF Server!SetJob, SetJobEffect, Server!WithinOccurrences
  <2> QED BY <1>2, <1>4, <2>1, <2>2 DEF Effect
<1>5. CASE cmd.op = "DeleteJob" /\ Server!DeleteJob(cmd.job)
  <2>1. Server!Accepts(cmd)
    BY <1>5 DEF Server!Accepts, Server!DeleteJob
  <2>2. DeleteJobEffect(cmd.job, Live, Live')
    <3>1. \A js, c, p : Server!Unlink(js, c, p) = Unlink(js, c, p)
      BY DEF Server!Unlink, Unlink, Server!CanRewrite, CanRewrite
    <3> QED BY <1>1, <1>5, <3>1
            DEF Server!DeleteJob, DeleteJobEffect, Server!WithoutExecutions, Without
  <2> QED BY <1>2, <1>5, <2>1, <2>2 DEF Effect
<1>6. CASE cmd.op = "DeleteExecutions" /\ Server!DeleteExecutions(cmd.job)
  <2>1. Server!Accepts(cmd)
    BY <1>6 DEF Server!Accepts, Server!DeleteExecutions
  <2>2. DeleteExecutionsEffect(cmd.job, Live, Live')
    <3>1. \A r : Server!ResetResults(r) = ResetResults(r)
      BY DEF Server!ResetResults, ResetResults
    <3> QED BY <1>1, <1>6, <3>1
       DEF Server!DeleteExecutions, DeleteExecutionsEffect, Server!WithoutExecutions, Without
  <2> QED BY <1>2, <1>6, <2>1, <2>2 DEF Effect
<1>7. CASE cmd.op = "SetExecution" /\ Server!SetExecution(cmd.key, cmd.finished)
  <2>1. Server!Accepts(cmd)
    BY <1>7 DEF Server!Accepts
  <2>2. SetExecutionEffect(cmd.key, cmd.finished, Live, Live')
    <3>1. \A es, j : Server!Overflow(es, j) = Overflow(es, j)
      <4>1. \A S : Server!Cardinality(S) = Cardinality(S)
        BY DEF Server!Cardinality, Cardinality
      <4> QED BY <4>1 DEF Server!Overflow, Overflow, Server!StoredKeys, StoredKeys
    <3> QED BY <1>1, <1>7, <3>1
       DEF Server!SetExecution, SetExecutionEffect, Server!PutExecution, PutIn, Server!Outdated
  <2> QED BY <1>2, <1>7, <2>1, <2>2 DEF Effect
<1>8. CASE cmd.op = "ExecutionDone" /\ Server!SetExecutionDone(cmd.key, cmd.result)
  <2>1. Server!Accepts(cmd)
    BY <1>8 DEF Server!Accepts, Server!SetExecutionDone
  <2>2. SetExecutionDoneEffect(cmd.key, cmd.result, Live, Live')
    <3>1. \A r, e, status : Server!Count(r, e, status) = Count(r, e, status)
      BY DEF Server!Count, Count
    <3>2. \A s, b : Server!IncrementStat(s, b) = IncrementStat(s, b)
      BY DEF Server!IncrementStat, IncrementStat
    <3>3. \A es, j, g : Server!GroupStatus(es, j, g) = GroupStatus(es, j, g)
      BY DEF Server!GroupStatus, GroupStatus, Server!StoredKeys, StoredKeys
    <3> QED BY <1>1, <1>8, <3>1, <3>2, <3>3
       DEF Server!SetExecutionDone, SetExecutionDoneEffect, Server!PutExecution, PutIn,
           Server!Outdated, Server!Counts, Server!BelowBounds
  <2> QED BY <1>2, <1>8, <2>1, <2>2 DEF Effect
<1> QED BY <1>3, <1>4, <1>5, <1>6, <1>7, <1>8 DEF Server!Apply

\* Two stores that differ at most in the next runs.
Alike(x, y) == SameJobs(x.jobs, y.jobs) /\ x.execs = y.execs /\ x.stats = y.stats

\* The same command makes stores of them that differ at most in the next runs.
LEMMA EffectsAgree ==
  ASSUME NEW cmd \in Commands, NEW x1, NEW x2, NEW y1, NEW y2,
         x1.jobs \in JobTable, x2.jobs \in JobTable, y1.jobs \in JobTable,
         Closed(x1.jobs), Alike(x1, x2),
         Effect(cmd, x1, y1), Effect(cmd, x2, y2)
  PROVE  Alike(y1, y2) /\ y2.jobs \in JobTable
<1>1. /\ cmd.op \in {"SetJob", "DeleteJob", "DeleteExecutions"} => cmd.job \in Jobs
      /\ cmd.op = "SetJob" => cmd.payload \in Payloads
      /\ cmd.op \in {"SetExecution", "ExecutionDone"} => cmd.key \in Keys
      /\ cmd.op = "ExecutionDone" =>
           cmd.result \in ExecutionRecord /\ JobOf[cmd.key] \in Jobs
  BY ConstantsAssumption DEF Commands
<1>2. AcceptedAt(cmd, x1) <=> AcceptedAt(cmd, x2)
  <2>1. cmd.op = "SetJob" => cmd.payload.parent \in Jobs \cup {NoParent}
    BY <1>1 DEF Payloads
  <2> QED BY <1>1, <2>1 DEF AcceptedAt, Alike, SameJobs, SameJob
<1>3. CASE ~AcceptedAt(cmd, x1)
  BY <1>2, <1>3 DEF Effect, Alike
<1>4. ASSUME AcceptedAt(cmd, x1), NEW j \in Jobs, NEW p \in Payloads,
             cmd.op = "SetJob", j = cmd.job, p = cmd.payload,
             SetJobEffect(j, p, x1, y1), SetJobEffect(j, p, x2, y2)
      PROVE  Alike(y1, y2) /\ y2.jobs \in JobTable
  <2> DEFINE old == ParentOf(x1.jobs, j)
  <2>1. /\ old = ParentOf(x2.jobs, j) /\ old \in Jobs \cup {NoParent}
        /\ old # NoParent => x1.jobs[old] # NoJob /\ old = x1.jobs[j].parent
    BY DEF ParentOf, Alike, SameJobs, SameJob, JobTable, JobRecord, Closed
  <2>2. PICK m \in NextTimes :
          y1.jobs = Relink([x1.jobs EXCEPT ![j] = Merge(p, x1.jobs[j], m)], j, old)
    BY <1>4 DEF SetJobEffect
  <2>3. PICK n \in NextTimes :
          y2.jobs = Relink([x2.jobs EXCEPT ![j] = Merge(p, x2.jobs[j], n)], j, old)
    BY <1>4, <2>1 DEF SetJobEffect
  <2> DEFINE r1 == Merge(p, x1.jobs[j], m)
             r2 == Merge(p, x2.jobs[j], n)
             js == [x1.jobs EXCEPT ![j] = r1]
             ks == [x2.jobs EXCEPT ![j] = r2]
  <2>4. /\ r1 \in JobRecord /\ r2 \in JobRecord /\ r1.parent = p.parent
        /\ r1 # NoJob /\ r2 # NoJob /\ SameJob(r1, r2)
    <3>1. x1.jobs[j] \in JobRecord \cup {NoJob} /\ x2.jobs[j] \in JobRecord \cup {NoJob}
          /\ SameJob(x1.jobs[j], x2.jobs[j])
      BY DEF JobTable, Alike, SameJobs
    <3>2. SameJob(r1, r2)
      BY <3>1, MergeAgrees
    <3>3. r1 \in JobRecord /\ r2 \in JobRecord /\ r1.parent = p.parent
      BY <3>1, MergeFacts
    <3> QED BY <3>2, <3>3, ConstantsAssumption
  <2>5. /\ p.parent # j
        /\ p.parent # NoParent => p.parent \in Jobs /\ x1.jobs[p.parent] # NoJob
        /\ p.parent # NoParent /\ p.parent # old =>
             x1.jobs[p.parent].dependents[j] < MaxOccurrences
    BY <1>4 DEF AcceptedAt, Payloads, SetJobEffect
  <2> HIDE DEF r1, r2
  <2>6. /\ js \in JobTable /\ ks \in JobTable /\ SameJobs(js, ks)
        /\ js[j] = r1 /\ \A x \in Jobs \ {j} : js[x] = x1.jobs[x]
    BY <2>4 DEF JobTable, Alike, SameJobs
  <2>7. y1.jobs = Relink(js, j, old) /\ y2.jobs = Relink(ks, j, old)
    BY <2>2, <2>3 DEF r1, r2
  <2> HIDE DEF js, ks, old
  <2>8. /\ js[j] # NoJob
        /\ old # NoParent => js[old] # NoJob
        /\ js[j].parent # NoParent /\ js[j].parent # old =>
             js[js[j].parent].dependents[j] < MaxOccurrences
    BY <2>1, <2>4, <2>5, <2>6
  <2>9. Closed(js)
    BY <2>4, <2>5, <2>6 DEF Closed, JobTable, JobRecord
  <2>10. SameJobs(y1.jobs, y2.jobs) /\ y2.jobs \in JobTable
    BY <2>1, <2>6, <2>7, <2>8, <2>9, RelinkAgrees
  <2> QED BY <1>4, <2>10 DEF Alike, SetJobEffect
<1>5. ASSUME AcceptedAt(cmd, x1), NEW j \in Jobs, cmd.op = "DeleteJob", j = cmd.job,
             DeleteJobEffect(j, x1, y1), DeleteJobEffect(j, x2, y2)
      PROVE  Alike(y1, y2) /\ y2.jobs \in JobTable
  <2> DEFINE p == x1.jobs[j].parent
             js == [x1.jobs EXCEPT ![j] = NoJob]
             ks == [x2.jobs EXCEPT ![j] = NoJob]
  <2>1. p = x2.jobs[j].parent /\ p \in Jobs \cup {NoParent}
    BY <1>5 DEF AcceptedAt, Alike, SameJobs, SameJob, JobTable, JobRecord
  <2>2. js \in JobTable /\ ks \in JobTable /\ SameJobs(js, ks)
    BY DEF JobTable, Alike, SameJobs, SameJob
  <2>3. y1.jobs = Unlink(js, j, p) /\ y2.jobs = Unlink(ks, j, p)
    BY <1>5, <2>1 DEF DeleteJobEffect
  <2> HIDE DEF js, ks, p
  <2>4. SameJobs(y1.jobs, y2.jobs) /\ y2.jobs \in JobTable
    BY <2>1, <2>2, <2>3, UnlinkAgrees, UnlinkFacts DEF SameButList
  <2> QED BY <1>5, <2>4 DEF Alike, DeleteJobEffect
<1>6. ASSUME AcceptedAt(cmd, x1), NEW j \in Jobs, cmd.op = "DeleteExecutions", j = cmd.job,
             DeleteExecutionsEffect(j, x1, y1), DeleteExecutionsEffect(j, x2, y2)
      PROVE  Alike(y1, y2) /\ y2.jobs \in JobTable
  <2> DEFINE r == ResetResults(x1.jobs[j].results)
  <2>1. /\ x1.jobs[j] # NoJob /\ x1.jobs[j] \in JobRecord
        /\ x1.jobs[j].results \in Results
        /\ x1.jobs[j].results = x2.jobs[j].results
    BY <1>6 DEF AcceptedAt, Alike, SameJobs, SameJob, JobTable, JobRecord
  <2>2. r \in Results
    BY <2>1, ConstantsAssumption DEF ResetResults, Results, Times
  <2>3. /\ y1.jobs = [x1.jobs EXCEPT ![j].results = r]
        /\ y2.jobs = [x2.jobs EXCEPT ![j].results = r]
    BY <1>6, <2>1 DEF DeleteExecutionsEffect
  <2> HIDE DEF r
  <2>4. SameJobs(y1.jobs, y2.jobs) /\ y2.jobs \in JobTable
    <3>1. SameJobs(x1.jobs, x2.jobs)
      BY DEF Alike
    <3>2. /\ SameJobs([x1.jobs EXCEPT ![j].results = r], [x2.jobs EXCEPT ![j].results = r])
          /\ [x2.jobs EXCEPT ![j].results = r] \in JobTable
      BY ONLY x1.jobs \in JobTable, x2.jobs \in JobTable, j \in Jobs, <2>1, <2>2, <3>1,
              WriteAgrees
    <3> QED BY <2>3, <3>2
  <2> QED BY <1>6, <2>4 DEF Alike, DeleteExecutionsEffect
<1>7. ASSUME NEW k \in Keys, NEW finished,
             SetExecutionEffect(k, finished, x1, y1), SetExecutionEffect(k, finished, x2, y2)
      PROVE  Alike(y1, y2) /\ y2.jobs \in JobTable
  BY <1>7 DEF Alike, SetExecutionEffect
<1>8. ASSUME AcceptedAt(cmd, x1), NEW k \in Keys, NEW e \in ExecutionRecord,
             cmd.op = "ExecutionDone", k = cmd.key, e = cmd.result,
             SetExecutionDoneEffect(k, e, x1, y1), SetExecutionDoneEffect(k, e, x2, y2)
      PROVE  Alike(y1, y2) /\ y2.jobs \in JobTable
  <2> DEFINE j == JobOf[k]
             es == PutIn(x1.execs, k, e)
             r == Count(x1.jobs[j].results, e, GroupStatus(es, j, GroupOf[k]))
  <2>1. /\ j \in Jobs /\ x1.jobs[j] # NoJob /\ x1.jobs[j] \in JobRecord
        /\ x1.jobs[j].results = x2.jobs[j].results
    BY <1>8, ConstantsAssumption DEF AcceptedAt, Alike, SameJobs, SameJob, JobTable
  <2>2. y1.execs = y2.execs
    BY <1>8 DEF SetExecutionDoneEffect, Alike
  <2>3. CASE x1.execs[k] = e =>
               (IF e.success THEN x1.jobs[j].results.lastSuccess
                             ELSE x1.jobs[j].results.lastError) # e.finished
    <3> DEFINE old == x1.jobs[j].results
               status == GroupStatus(es, j, GroupOf[k])
    <3>1. /\ y1.jobs = [x1.jobs EXCEPT ![j].results = r]
          /\ y2.jobs = [x2.jobs EXCEPT ![j].results = r]
          /\ y1.stats = y2.stats
          /\ old.successCount < MaxCount /\ old.errorCount < MaxCount
      <4> DEFINE d == DayOf[e.finished]
                 day(s) == [s EXCEPT ![d] = IncrementStat(s[d], e.success)]
      <4>1. /\ y1.jobs = [x1.jobs EXCEPT ![j].results = r] /\ y1.stats = day(x1.stats)
            /\ old.successCount < MaxCount /\ old.errorCount < MaxCount
        BY <1>8, <2>3, Zenon DEF SetExecutionDoneEffect
      <4>2. x2.execs = x1.execs /\ x2.stats = x1.stats
        BY DEF Alike
      <4>3. x2.execs[k] = e =>
              (IF e.success THEN x2.jobs[j].results.lastSuccess
                            ELSE x2.jobs[j].results.lastError) # e.finished
        BY <2>1, <2>3, <4>2, Zenon
      <4>4. /\ y2.jobs = [x2.jobs EXCEPT ![j].results =
                 Count(x2.jobs[j].results, e, GroupStatus(PutIn(x2.execs, k, e), j, GroupOf[k]))]
            /\ y2.stats = day(x2.stats)
        BY <1>8, <4>3, Zenon DEF SetExecutionDoneEffect
      <4>5. r = Count(x2.jobs[j].results, e, GroupStatus(PutIn(x2.execs, k, e), j, GroupOf[k]))
        BY <2>1, <4>2, Zenon
      <4> HIDE DEF r, day
      <4> QED BY <4>1, <4>2, <4>4, <4>5
    <3>2. r \in Results
      <4>1. old \in Results /\ e.finished \in Times
        BY <2>1 DEF JobRecord, ExecutionRecord
      <4>2. status \in Statuses
        BY DEF GroupStatus, Statuses
      <4> HIDE DEF old, status
      <4>3. /\ old.successCount + 1 \in 0..MaxCount /\ old.errorCount + 1 \in 0..MaxCount
        BY <3>1, <4>1, ConstantsAssumption DEF Results
      <4>4. Count(old, e, status) \in Results
        BY <4>1, <4>2, <4>3 DEF Count, Results
      <4> QED BY <4>4 DEF old, status
    <3> HIDE DEF r
    <3>3. SameJobs(y1.jobs, y2.jobs) /\ y2.jobs \in JobTable
      <4>1. SameJobs(x1.jobs, x2.jobs)
        BY DEF Alike
      <4>2. /\ SameJobs([x1.jobs EXCEPT ![j].results = r], [x2.jobs EXCEPT ![j].results = r])
            /\ [x2.jobs EXCEPT ![j].results = r] \in JobTable
        BY ONLY x1.jobs \in JobTable, x2.jobs \in JobTable, <2>1, <3>2, <4>1, WriteAgrees
      <4> QED BY <3>1, <4>2
    <3> QED BY <2>2, <3>1, <3>3 DEF Alike
  <2>4. CASE ~(x1.execs[k] = e =>
                 (IF e.success THEN x1.jobs[j].results.lastSuccess
                               ELSE x1.jobs[j].results.lastError) # e.finished)
    BY <1>8, <2>1, <2>2, <2>4 DEF SetExecutionDoneEffect, Alike
  <2> QED BY <2>3, <2>4
<1>9. CASE AcceptedAt(cmd, x1)
  <2>1. cmd.op \in {"SetJob", "DeleteJob", "DeleteExecutions", "SetExecution", "ExecutionDone"}
    BY DEF Commands
  <2>2. CASE cmd.op = "SetJob"
    BY <1>1, <1>2, <1>4, <1>9, <2>2 DEF Effect
  <2>3. CASE cmd.op = "DeleteJob"
    BY <1>1, <1>2, <1>5, <1>9, <2>3 DEF Effect
  <2>4. CASE cmd.op = "DeleteExecutions"
    BY <1>1, <1>2, <1>6, <1>9, <2>4 DEF Effect
  <2>5. CASE cmd.op = "SetExecution"
    BY <1>1, <1>2, <1>7, <1>9, <2>5 DEF Effect
  <2>6. CASE cmd.op = "ExecutionDone"
    BY <1>1, <1>2, <1>8, <1>9, <2>6 DEF Effect
  <2> QED BY <2>1, <2>2, <2>3, <2>4, <2>5, <2>6
<1> QED BY <1>3, <1>9

-----------------------------------------------------------------------------
(* The inductive invariant *)

Stores == [jobs : JobTable,
           execs : [Keys -> ExecutionRecord \cup {NoExecution}],
           stats : [Days -> DayStat]]

\* Every entry of the log made of the store before it the store after it.
History ==
  /\ log \in Seq(Script)
  /\ past \in Seq(Stores) /\ Len(past) = Len(log) + 1
  /\ past[1] = EmptyDatabase /\ past[Len(log) + 1] = Database(jobs, execs, stats)
  /\ \A i \in 1..Len(past) : Closed(past[i].jobs)
  /\ \A i \in 1..Len(log) : Effect(log[i], past[i], past[i + 1])

\* x is what the first i entries made, but for the next runs.
IsStoreAfter(x, i) == x.jobs \in JobTable /\ Alike(past[i + 1], x)

FollowerOK ==
  /\ applied \in 0..Len(log)
  /\ applied = 0 => ~raced /\ ~overlaid
  /\ raced \/ overlaid \/ IsStoreAfter(Live, applied)
  /\ taking # NoSnapshot => taking \in 1..Len(log)

SnapshotOK ==
  snapshot # NoSnapshot =>
    /\ snapshot.index \in 1..Len(log)
    /\ snapshot.raced \/ snapshot.overlaid
         \/ IsStoreAfter(snapshot.database, snapshot.index)

ReplicaInv == IInv /\ History /\ FollowerOK /\ SnapshotOK

LEMMA DatabaseFields ==
  ASSUME NEW js, NEW es, NEW ss
  PROVE  /\ Database(js, es, ss).jobs = js
         /\ Database(js, es, ss).execs = es
         /\ Database(js, es, ss).stats = ss
  BY DEF Database

LEMMA LiveFields ==
  /\ Live.jobs = fjobs /\ Live.execs = fexecs /\ Live.stats = fstats
  /\ Live'.jobs = fjobs' /\ Live'.execs = fexecs' /\ Live'.stats = fstats'
  BY DEF Live, Database

LEMMA AlikeItself == \A x : Alike(x, x)
  BY DEF Alike, SameJobs, SameJob

\* The store of IInv is one of Stores, and every parent in it is stored.
LEMMA StoreIsClosed ==
  ASSUME IInv
  PROVE  Database(jobs, execs, stats) \in Stores /\ Closed(jobs)
<1>1. Database(jobs, execs, stats) \in Stores
  BY DEF Database, Stores, IInv, TypeOK, JobTable
<1>2. Closed(jobs)
  BY DEF Closed, IInv, ParentKnowsChild, Stored
<1> QED BY <1>1, <1>2

LEMMA ReplicaInitInv == ReplicaInit => ReplicaInv
<1> SUFFICES ASSUME ReplicaInit PROVE ReplicaInv
  OBVIOUS
<1>1. IInv
  BY InitIInv DEF ReplicaInit
<1>2. EmptyDatabase = Database(jobs, execs, stats) /\ EmptyDatabase = Live
  BY DEF ReplicaInit, Init, Server!Init, EmptyDatabase, Live
<1>3. EmptyDatabase \in Stores /\ Closed(EmptyDatabase.jobs) /\ EmptyDatabase.jobs \in JobTable
  <2>1. Database(jobs, execs, stats) \in Stores /\ Closed(jobs)
    BY <1>1, StoreIsClosed
  <2>2. Database(jobs, execs, stats).jobs = jobs
    BY DatabaseFields
  <2>3. jobs \in JobTable
    BY <1>1 DEF IInv, TypeOK, JobTable
  <2> QED BY <1>2, <2>1, <2>2, <2>3
<1>4. History
  <2>1. log = <<>> /\ past = <<EmptyDatabase>>
    BY DEF ReplicaInit
  <2> QED BY <1>2, <1>3, <2>1 DEF History
<1>5. FollowerOK
  <2>1. past[1] = Live /\ applied = 0 /\ log = <<>> /\ taking = NoSnapshot
        /\ ~raced /\ ~overlaid
    BY <1>2 DEF ReplicaInit
  <2>2. IsStoreAfter(Live, applied)
    BY <1>2, <1>3, <2>1, AlikeItself DEF IsStoreAfter
  <2> QED BY <2>1, <2>2 DEF FollowerOK
<1>6. SnapshotOK
  BY DEF SnapshotOK, ReplicaInit
<1> QED BY <1>1, <1>4, <1>5, <1>6 DEF ReplicaInv

\* An entry of the log is a step of the store, or none.
LEMMA ApplyIsStep == ASSUME NEW cmd \in Commands, Apply(cmd) PROVE [Next]_vars
  BY DEF Apply, Commands, Next

LEMMA CommitKeepsInv == ASSUME ReplicaInv, Commit PROVE ReplicaInv'
<1>1. PICK cmd \in Script :
        /\ Apply(cmd)
        /\ log' = Append(log, cmd)
        /\ past' = Append(past, Database(jobs', execs', stats'))
  BY DEF Commit
<1>2. cmd \in Commands
  BY ReplicaAssumption
<1>3. IInv'
  BY <1>1, <1>2, ApplyIsStep, StepFacts DEF ReplicaInv
<1> DEFINE new == Database(jobs', execs', stats')
<1>4. new \in Stores /\ Closed(new.jobs)
  <2>1. new \in Stores
    BY <1>3 DEF Database, Stores, IInv, TypeOK, JobTable
  <2>2. Closed(jobs')
    BY <1>3 DEF Closed, IInv, ParentKnowsChild, Stored
  <2> QED BY <2>1, <2>2, DatabaseFields
<1>5. Effect(cmd, past[Len(log) + 1], new)
  BY <1>1, <1>2, ApplyHasEffect DEF ReplicaInv, History
<1>6. new = Database(jobs, execs, stats)'
  BY DEF Database
<1> HIDE DEF new
<1>7. /\ Len(log) \in Nat /\ log' \in Seq(Script) /\ Len(log') = Len(log) + 1
      /\ past' \in Seq(Stores) /\ Len(past') = Len(log') + 1
      /\ \A i \in 1..Len(log) : log'[i] = log[i]
      /\ log'[Len(log) + 1] = cmd
      /\ \A i \in 1..(Len(log) + 1) : past'[i] = past[i]
      /\ past'[Len(log) + 2] = new
  BY <1>1, <1>4 DEF ReplicaInv, History, new
<1>8. History'
  <2>1. past'[1] = EmptyDatabase' /\ past'[Len(log') + 1] = Database(jobs, execs, stats)'
    BY <1>6, <1>7 DEF ReplicaInv, History, EmptyDatabase, Database
  <2>2. \A i \in 1..Len(past') : Closed(past'[i].jobs)
    BY <1>4, <1>7 DEF ReplicaInv, History
  <2>3. ASSUME NEW i \in 1..Len(log') PROVE Effect(log'[i], past'[i], past'[i + 1])
    <3>1. CASE i = Len(log) + 1
      BY <1>5, <1>7, <3>1
    <3>2. CASE i # Len(log) + 1
      <4>1. i \in 1..Len(log) /\ i \in 1..(Len(log) + 1) /\ i + 1 \in 1..(Len(log) + 1)
        BY <1>7, <3>2
      <4> QED BY <1>7, <4>1 DEF ReplicaInv, History
    <3> QED BY <3>1, <3>2
  <2> QED BY <1>7, <2>1, <2>2, <2>3 DEF History, Closed
<1>9. Live' = Live /\ UNCHANGED <<applied, taking, snapshot, raced, overlaid>>
  BY DEF Commit, follower, Live
<1>10. \A x : \A i \in 0..Len(log) :
         IsStoreAfter(x, i) => x.jobs \in JobTable /\ Alike(past'[i + 1], x)
  BY <1>7 DEF IsStoreAfter
<1>11. FollowerOK'
  BY <1>7, <1>9, <1>10 DEF ReplicaInv, FollowerOK, IsStoreAfter
<1>12. SnapshotOK'
  BY <1>7, <1>9, <1>10 DEF ReplicaInv, SnapshotOK, IsStoreAfter
<1> QED BY <1>3, <1>8, <1>11, <1>12 DEF ReplicaInv

\* The steps that are not the cluster's leave the log and its stores alone.
LEMMA HistoryStays ==
  ASSUME IInv, History, UNCHANGED <<vars, log, past>>
  PROVE  IInv' /\ History'
<1>1. IInv'
  BY StepFacts
<1>2. History'
  BY DEF vars, History, Closed, Database, EmptyDatabase
<1> QED BY <1>1, <1>2

LEMMA ApplyNextKeepsInv == ASSUME ReplicaInv, ApplyNext PROVE ReplicaInv'
<1> DEFINE i == applied + 1
           cmd == log[i]
<1>1. /\ IInv' /\ History'
      /\ UNCHANGED <<log, past, taking, snapshot, raced, overlaid>> /\ applied' = i
  BY HistoryStays DEF ApplyNext, ReplicaInv
<1>2. /\ Len(log) \in Nat /\ i \in 1..Len(log) /\ cmd \in Commands
      /\ i \in 1..Len(past) /\ i + 1 \in 1..Len(past)
      /\ past[i] \in Stores /\ past[i + 1] \in Stores /\ Closed(past[i].jobs)
      /\ Effect(cmd, past[i], past[i + 1])
  BY ReplicaAssumption DEF ReplicaInv, History, FollowerOK, ApplyNext
<1>3. Server!Apply(cmd)
  BY DEF ApplyNext
<1> HIDE DEF cmd
<1>4. Effect(cmd, Live, Live')
  BY <1>2, <1>3, FollowerApplyHasEffect
<1>5. ASSUME IsStoreAfter(Live, applied) PROVE IsStoreAfter(Live, applied)'
  <2>1. /\ past[i].jobs \in JobTable /\ past[i + 1].jobs \in JobTable
        /\ Live.jobs \in JobTable /\ Alike(past[i], Live)
    BY <1>2, <1>5 DEF Stores, IsStoreAfter
  <2>2. Alike(past[i + 1], Live') /\ Live'.jobs \in JobTable
    BY ONLY <1>2, <1>4, <2>1, EffectsAgree, SMTT(30)
  <2> QED BY <1>1, <2>2 DEF IsStoreAfter, Alike
<1>6. FollowerOK'
  BY <1>1, <1>2, <1>5 DEF ReplicaInv, FollowerOK
<1>7. SnapshotOK'
  BY <1>1 DEF ReplicaInv, SnapshotOK, IsStoreAfter, Alike
<1> QED BY <1>1, <1>6, <1>7 DEF ReplicaInv

\* A step that leaves the server's store and position alone.
LEMMA FollowerStays ==
  ASSUME UNCHANGED <<log, past, follower, applied>>
  PROVE  /\ IsStoreAfter(Live, applied)' <=> IsStoreAfter(Live, applied)
         /\ \A x, i : IsStoreAfter(x, i)' <=> IsStoreAfter(x, i)
  BY DEF IsStoreAfter, Alike, Live, Database, follower

LEMMA SnapshotKeepsInv == ASSUME ReplicaInv, Snapshot PROVE ReplicaInv'
<1>1. IInv' /\ History' /\ UNCHANGED <<log, past, follower, applied, snapshot, raced, overlaid>>
  BY HistoryStays DEF Snapshot, ReplicaInv
<1>2. FollowerOK'
  <2>1. taking' \in 1..Len(log)
    BY DEF Snapshot, ReplicaInv, FollowerOK, History
  <2> QED BY <1>1, <2>1, FollowerStays DEF ReplicaInv, FollowerOK
<1>3. SnapshotOK'
  BY <1>1 DEF ReplicaInv, SnapshotOK, IsStoreAfter, Alike
<1> QED BY <1>1, <1>2, <1>3 DEF ReplicaInv

LEMMA PersistKeepsInv == ASSUME ReplicaInv, Persist PROVE ReplicaInv'
<1>1. /\ IInv' /\ History' /\ UNCHANGED <<log, past, follower, applied, raced, overlaid>>
      /\ taking' = NoSnapshot /\ taking \in 1..Len(log)
  BY HistoryStays DEF Persist, ReplicaInv, FollowerOK
<1>2. FollowerOK'
  BY <1>1, FollowerStays DEF ReplicaInv, FollowerOK
<1>3. SnapshotOK'
  <2>1. /\ snapshot'.index = taking /\ snapshot'.database = Live
        /\ snapshot'.raced = (raced \/ taking # applied) /\ snapshot'.overlaid = overlaid
    BY DEF Persist
  <2>2. snapshot'.raced \/ snapshot'.overlaid
          \/ IsStoreAfter(snapshot'.database, snapshot'.index)
    BY <2>1 DEF ReplicaInv, FollowerOK
  <2> QED BY <1>1, <2>1, <2>2 DEF SnapshotOK, IsStoreAfter, Alike
<1> QED BY <1>1, <1>2, <1>3 DEF ReplicaInv

LEMMA PersistMidwayKeepsInv == ASSUME ReplicaInv, PersistMidway PROVE ReplicaInv'
<1> DEFINE i == applied + 1
           cmd == log[i]
<1>1. /\ IInv' /\ History' /\ UNCHANGED <<log, past, raced, overlaid>>
      /\ applied' = i /\ taking' = NoSnapshot /\ taking \in 1..Len(log)
  BY HistoryStays DEF PersistMidway, ReplicaInv, FollowerOK
<1>2. /\ Len(log) \in Nat /\ i \in 1..Len(log) /\ cmd \in Commands
      /\ i \in 1..Len(past) /\ i + 1 \in 1..Len(past)
      /\ past[i] \in Stores /\ past[i + 1] \in Stores /\ Closed(past[i].jobs)
      /\ Effect(cmd, past[i], past[i + 1])
  BY ReplicaAssumption DEF ReplicaInv, History, FollowerOK, PersistMidway
<1>3. Server!Apply(cmd)
  BY DEF PersistMidway
<1> HIDE DEF cmd
<1>4. Effect(cmd, Live, Live')
  BY <1>2, <1>3, FollowerApplyHasEffect
<1>5. ASSUME IsStoreAfter(Live, applied) PROVE IsStoreAfter(Live, applied)'
  <2>1. /\ past[i].jobs \in JobTable /\ past[i + 1].jobs \in JobTable
        /\ Live.jobs \in JobTable /\ Alike(past[i], Live)
    BY <1>2, <1>5 DEF Stores, IsStoreAfter
  <2>2. Alike(past[i + 1], Live') /\ Live'.jobs \in JobTable
    BY ONLY <1>2, <1>4, <2>1, EffectsAgree, SMTT(30)
  <2> QED BY <1>1, <2>2 DEF IsStoreAfter, Alike
<1>6. FollowerOK'
  BY <1>1, <1>2, <1>5 DEF ReplicaInv, FollowerOK
<1>7. SnapshotOK'
  <2>1. snapshot'.raced /\ snapshot'.index = taking
    BY DEF PersistMidway
  <2> QED BY <1>1, <2>1 DEF SnapshotOK
<1> QED BY <1>1, <1>6, <1>7 DEF ReplicaInv

LEMMA RestartKeepsInv == ASSUME ReplicaInv, Restart PROVE ReplicaInv'
<1>1. /\ IInv' /\ History' /\ UNCHANGED <<log, past, snapshot>> /\ taking' = NoSnapshot
  BY HistoryStays DEF Restart, ReplicaInv
<1>2. Len(log) \in Nat
  BY DEF ReplicaInv, History
<1>3. SnapshotOK'
  BY <1>1 DEF ReplicaInv, SnapshotOK, IsStoreAfter, Alike
<1>4. CASE snapshot = NoSnapshot
  <2>1. applied' = 0 /\ ~raced' /\ ~overlaid' /\ Holds(EmptyDatabase)
    BY <1>4 DEF Restart
  <2>2. past'[1] = EmptyDatabase /\ EmptyDatabase \in Stores
    BY <1>1, <1>2 DEF ReplicaInv, History
  <2>3. /\ Live'.jobs = EmptyDatabase.jobs /\ Live'.execs = EmptyDatabase.execs
        /\ Live'.stats = EmptyDatabase.stats
    BY <2>1, LiveFields DEF Holds
  <2>4. IsStoreAfter(Live, applied)'
    BY <2>1, <2>2, <2>3 DEF IsStoreAfter, Alike, SameJobs, SameJob, Stores
  <2>5. FollowerOK'
    BY <1>1, <1>2, <2>1, <2>4 DEF FollowerOK
  <2> QED BY <1>1, <1>3, <2>5 DEF ReplicaInv
<1>5. CASE snapshot # NoSnapshot
  <2>1. /\ applied' = snapshot.index /\ raced' = snapshot.raced /\ overlaid' = snapshot.overlaid
        /\ Holds(snapshot.database)
    BY <1>5 DEF Restart
  <2>2. /\ snapshot.index \in 1..Len(log)
        /\ snapshot.raced \/ snapshot.overlaid
             \/ IsStoreAfter(snapshot.database, snapshot.index)
    BY <1>5 DEF ReplicaInv, SnapshotOK
  <2>3. /\ Live'.jobs = snapshot.database.jobs /\ Live'.execs = snapshot.database.execs
        /\ Live'.stats = snapshot.database.stats
    BY <2>1, LiveFields DEF Holds
  <2>4. IsStoreAfter(snapshot.database, snapshot.index) => IsStoreAfter(Live, applied)'
    BY <1>1, <2>1, <2>3 DEF IsStoreAfter, Alike, SameJobs
  <2>5. FollowerOK'
    BY <1>1, <1>2, <2>1, <2>2, <2>4 DEF FollowerOK
  <2> QED BY <1>1, <1>3, <2>5 DEF ReplicaInv
<1> QED BY <1>4, <1>5

\* A snapshot loaded into a store that has applied nothing is all it holds.
LEMMA LoadedIntoEmpty ==
  ASSUME ReplicaInv, applied = 0, NEW x \in Stores
  PROVE  /\ Loaded(x).jobs = x.jobs /\ Loaded(x).execs = x.execs
         /\ Loaded(x).stats = x.stats
<1>1. /\ \A j \in Jobs : fjobs[j] = NoJob
      /\ fexecs = EmptyDatabase.execs /\ fstats = EmptyDatabase.stats
  <2>1. Alike(EmptyDatabase, Live)
    BY DEF ReplicaInv, FollowerOK, IsStoreAfter, History
  <2>2. \A j \in Jobs : EmptyDatabase.jobs[j] = NoJob
    BY DatabaseFields DEF EmptyDatabase
  <2> QED BY <2>1, <2>2, LiveFields DEF Alike, SameJobs, SameJob
<1>2. /\ \A j \in Jobs : fjobs[j] = NoJob
      /\ \A k \in Keys : fexecs[k] = NoExecution
      /\ \A d \in Days : fstats[d] = EmptyDatabase.stats[d]
  <2>1. EmptyDatabase.execs = [k \in Keys |-> NoExecution]
    BY DatabaseFields DEF EmptyDatabase
  <2> QED BY <1>1, <2>1
<1>3. /\ x.jobs \in JobTable /\ x.execs \in [Keys -> ExecutionRecord \cup {NoExecution}]
      /\ x.stats \in [Days -> DayStat]
  BY DEF Stores
<1>4. /\ Loaded(x).jobs = x.jobs /\ Loaded(x).execs = x.execs /\ Loaded(x).stats = x.stats
  <2>1. /\ Loaded(x).jobs = [j \in Jobs |-> IF x.jobs[j] = NoJob THEN fjobs[j] ELSE x.jobs[j]]
        /\ Loaded(x).execs = [k \in Keys |-> IF x.execs[k] = NoExecution THEN fexecs[k]
                                                                         ELSE x.execs[k]]
        /\ Loaded(x).stats = [d \in Days |-> IF x.stats[d] = EmptyDatabase.stats[d]
                                               THEN fstats[d] ELSE x.stats[d]]
    BY DEF Loaded
  <2>2. Loaded(x).jobs = x.jobs
    BY <1>2, <1>3, <2>1 DEF JobTable
  <2>3. Loaded(x).execs = x.execs
    BY <1>2, <1>3, <2>1
  <2>4. Loaded(x).stats = x.stats
    BY <1>2, <1>3, <2>1
  <2> QED BY <2>2, <2>3, <2>4
<1> QED BY <1>4

LEMMA InstallSnapshotKeepsInv == ASSUME ReplicaInv, InstallSnapshot PROVE ReplicaInv'
<1>1. /\ IInv' /\ History' /\ UNCHANGED <<log, past>> /\ taking' = NoSnapshot
      /\ overlaid' = (applied > 0)
  BY HistoryStays DEF InstallSnapshot, ReplicaInv
<1>2. PICK i \in (applied + 1)..Len(log), n \in 1..Len(log) :
        /\ i <= n
        /\ Holds(Loaded(past[n + 1]))
        /\ applied' = i
        /\ snapshot' = [index |-> i, database |-> past[n + 1],
                        raced |-> i < n, overlaid |-> FALSE]
        /\ raced' = (i < n \/ (raced /\ applied > 0))
  BY DEF InstallSnapshot
<1>3. /\ Len(log) \in Nat /\ applied \in Nat /\ i \in 1..Len(log) /\ n \in i..Len(log)
      /\ past[n + 1] \in Stores
  BY <1>2 DEF ReplicaInv, History, FollowerOK
<1>4. IsStoreAfter(past[n + 1], n)
  BY <1>3, AlikeItself DEF IsStoreAfter, Stores
<1>5. SnapshotOK'
  <2>1. /\ snapshot'.index = i /\ snapshot'.database = past[n + 1]
        /\ snapshot'.raced = (i < n)
    BY <1>2
  <2>2. i < n \/ IsStoreAfter(snapshot'.database, snapshot'.index)
    BY <1>3, <1>4, <2>1
  <2>3. snapshot'.raced \/ IsStoreAfter(snapshot'.database, snapshot'.index)
    BY <2>1, <2>2, Zenon
  <2> QED BY <1>1, <1>3, <2>1, <2>3 DEF SnapshotOK, IsStoreAfter, Alike
<1>6. CASE applied = 0
  <2> DEFINE x == past[n + 1]
  <2>1. Loaded(x).jobs = x.jobs /\ Loaded(x).execs = x.execs /\ Loaded(x).stats = x.stats
    BY <1>3, <1>6, LoadedIntoEmpty
  <2> HIDE DEF x
  <2>2. Live'.jobs = x.jobs /\ Live'.execs = x.execs /\ Live'.stats = x.stats
    BY <1>2, <2>1, LiveFields DEF Holds, x
  <2>3. i = n => IsStoreAfter(Live, applied)'
    BY <1>1, <1>2, <1>4, <2>2 DEF IsStoreAfter, Alike, SameJobs, x
  <2>4. i = n \/ i < n
    BY <1>3
  <2>5. i < n => raced'
    BY <1>2, Zenon
  <2>6. raced' \/ IsStoreAfter(Live, applied)'
    BY <2>3, <2>4, <2>5, Zenon
  <2>7. FollowerOK'
    BY <1>1, <1>2, <1>3, <1>6, <2>6 DEF FollowerOK
  <2> QED BY <1>1, <1>5, <2>7 DEF ReplicaInv
<1>7. CASE applied # 0
  <2>1. FollowerOK'
    <3>1. applied > 0 /\ applied' \in 0..Len(log') /\ applied' # 0
      BY <1>1, <1>2, <1>3, <1>7
    <3>2. overlaid'
      BY <1>1, <3>1, Zenon
    <3> QED BY <1>1, <3>1, <3>2 DEF FollowerOK
  <2> QED BY <1>1, <1>5, <2>1 DEF ReplicaInv
<1> QED BY <1>6, <1>7

\* The inductive invariant holds in every reachable state.
THEOREM ReplicaInvariance == ReplicaSpec => []ReplicaInv
<1>1. ReplicaInv /\ [ReplicaNext]_replicaVars => ReplicaInv'
  <2> SUFFICES ASSUME ReplicaInv, [ReplicaNext]_replicaVars PROVE ReplicaInv'
    OBVIOUS
  <2>1. CASE UNCHANGED replicaVars
    <3>1. /\ IInv' /\ History'
          /\ UNCHANGED <<log, past, follower, applied, taking, snapshot, raced, overlaid>>
      BY <2>1, HistoryStays DEF replicaVars, ReplicaInv
    <3>2. FollowerOK'
      BY <3>1, FollowerStays DEF ReplicaInv, FollowerOK
    <3>3. SnapshotOK'
      BY <3>1 DEF ReplicaInv, SnapshotOK, IsStoreAfter, Alike
    <3> QED BY <3>1, <3>2, <3>3 DEF ReplicaInv
  <2> QED BY <2>1, CommitKeepsInv, ApplyNextKeepsInv, SnapshotKeepsInv, PersistKeepsInv,
             PersistMidwayKeepsInv, RestartKeepsInv, InstallSnapshotKeepsInv
          DEF ReplicaNext
<1> QED BY ReplicaInitInv, <1>1, PTL DEF ReplicaSpec

\* A server that has applied the first i entries of the log, restarted from its
\* snapshot as often as it may (fsm.go, Restore in store.go), holds what these
\* entries made of every other store, but for the next runs; only a snapshot
\* saved while entries were applied, or loaded over a store in use, breaks this,
\* and a restart from a snapshot that is neither mends it.
THEOREM ReplicasAgree == ReplicaSpec => []ReplicaAgrees
<1>1. ReplicaInv => ReplicaAgrees
  <2> SUFFICES ASSUME ReplicaInv, IsStoreAfter(Live, applied)
               PROVE  SameStore(Live, past[applied + 1])
    BY DEF ReplicaInv, FollowerOK, ReplicaAgrees
  <2>1. past[applied + 1] \in Stores
    BY DEF ReplicaInv, FollowerOK, History
  <2>2. ASSUME NEW j \in Jobs
        PROVE  ButNext(Live.jobs[j]) = ButNext(past[applied + 1].jobs[j])
    <3>1. past[applied + 1].jobs[j] \in JobRecord \cup {NoJob}
      BY <2>1 DEF Stores, JobTable
    <3>2. /\ Live.jobs[j] \in JobRecord \cup {NoJob}
          /\ SameJob(past[applied + 1].jobs[j], Live.jobs[j])
      BY DEF IsStoreAfter, Alike, SameJobs, JobTable
    <3> QED BY <3>1, <3>2, SameJobFacts
  <2> QED BY <2>2 DEF SameStore, IsStoreAfter, Alike
<1> QED BY ReplicaInvariance, <1>1, PTL

-----------------------------------------------------------------------------
(* Counters that fit together *)

Sound(js, ss) ==
  /\ js \in JobTable /\ ss \in DayTable
  /\ \A j \in Jobs : js[j] # NoJob => Coherent(js[j].results)

\* What StatsSeeAllCounts assumes of the constants.
OnlyResultsCount == IsFiniteSet(Days) /\ PayloadsCountNone

\* The counters of the store x fit together: among themselves, and with the
\* statistics.
IsSound(x) == Sound(x.jobs, x.stats)
HasSeenAll(x) == OnlyResultsCount => Tallied(x.jobs, x.stats)

\* A job that is written keeps what it has counted.
LEMMA WrittenJobFits ==
  ASSUME NEW js, NEW ss, Sound(js, ss), NEW j \in Jobs, NEW p \in Payloads, NEW n \in NextTimes
  PROVE  LET ks == [js EXCEPT ![j] = Merge(p, js[j], n)] IN
           /\ Sound(ks, ss)
           /\ OnlyResultsCount /\ Tallied(js, ss) => Tallied(ks, ss)
<1> DEFINE m == Merge(p, js[j], n)
           ks == [js EXCEPT ![j] = m]
<1>1. js \in JobTable /\ ss \in DayTable /\ js[j] \in JobRecord \cup {NoJob}
  BY DEF Sound, JobTable
<1>2. /\ m \in JobRecord /\ m # NoJob
      /\ js[j] = NoJob => Coherent(m.results) /\ m.results = p.results
      /\ js[j] # NoJob =>
           /\ Coherent(js[j].results) => Coherent(m.results)
           /\ p.results.successCount = 0 =>
                m.results.successCount = js[j].results.successCount
           /\ p.results.errorCount = 0 => m.results.errorCount = js[j].results.errorCount
  BY <1>1, MergeFacts, ConstantsAssumption
<1> HIDE DEF m
<1>3. ks \in JobTable /\ ks[j] = m /\ \A x \in Jobs : x # j => ks[x] = js[x]
  BY <1>1, <1>2 DEF JobTable
<1> HIDE DEF ks
<1>4. Sound(ks, ss)
  BY <1>1, <1>2, <1>3 DEF Sound
<1>5. ASSUME OnlyResultsCount, Tallied(js, ss) PROVE Tallied(ks, ss)
  <2>1. p.results.successCount = 0 /\ p.results.errorCount = 0
    BY <1>5 DEF OnlyResultsCount, PayloadsCountNone, Payloads
  <2>2. ASSUME NEW x \in Jobs
        PROVE  /\ SuccessesOf(ks, x) <= SuccessesOf(js, x)
               /\ ErrorsOf(ks, x) <= ErrorsOf(js, x)
    <3>1. js[x] # NoJob =>
            js[x].results.successCount \in Nat /\ js[x].results.errorCount \in Nat
      BY <1>1, ConstantsAssumption DEF JobTable, JobRecord, Results
    <3>2. SuccessesOf(ks, x) = SuccessesOf(js, x) /\ ErrorsOf(ks, x) = ErrorsOf(js, x)
      BY <1>2, <1>3, <2>1 DEF SuccessesOf, ErrorsOf
    <3> QED BY <3>1, <3>2 DEF SuccessesOf, ErrorsOf
  <2>3. IsFiniteSet(Days) /\ \A x \in Jobs : x # j => (ks[x] # NoJob => js[x] # NoJob)
    BY <1>3, <1>5 DEF OnlyResultsCount
  <2> QED BY <1>1, <1>3, <1>5, <2>2, <2>3, NothingCounted
<1> QED BY <1>4, <1>5 DEF ks, m

\* A table that has lost jobs, or changed only lists, still fits.
LEMMA SameResultsFit ==
  ASSUME NEW js, NEW ss, Sound(js, ss), NEW ks \in JobTable,
         \A x \in Jobs : ks[x] # NoJob => js[x] # NoJob /\ ks[x].results = js[x].results
  PROVE  /\ Sound(ks, ss)
         /\ OnlyResultsCount /\ Tallied(js, ss) => Tallied(ks, ss)
<1>1. js \in JobTable /\ ss \in DayTable
  BY DEF Sound
<1>2. Sound(ks, ss)
  BY DEF Sound
<1>3. ASSUME OnlyResultsCount, Tallied(js, ss) PROVE Tallied(ks, ss)
  <2>1. ASSUME NEW x \in Jobs
        PROVE  /\ SuccessesOf(ks, x) <= SuccessesOf(js, x)
               /\ ErrorsOf(ks, x) <= ErrorsOf(js, x)
    <3>1. js[x] # NoJob =>
            js[x].results.successCount \in Nat /\ js[x].results.errorCount \in Nat
      BY <1>1, ConstantsAssumption DEF JobTable, JobRecord, Results
    <3> QED BY <3>1 DEF SuccessesOf, ErrorsOf
  <2>2. IsFiniteSet(Days)
    BY <1>3 DEF OnlyResultsCount
  <2>3. CASE Jobs = {}
    <3>1. StoredIn(ks) = StoredIn(js) /\ JobSuccesses(ks) = JobSuccesses(js)
          /\ JobErrors(ks) = JobErrors(js)
      BY <2>3 DEF StoredIn, JobSuccesses, JobErrors
    <3> QED BY <1>3, <3>1 DEF Tallied
  <2>4. CASE Jobs # {}
    <3>1. PICK j : j \in Jobs
      BY <2>4
    <3>2. \A x \in Jobs : x # j => (ks[x] # NoJob => js[x] # NoJob)
      OBVIOUS
    <3> QED BY <1>1, <1>3, <2>1, <2>2, <3>2, NothingCounted
  <2> QED BY <2>3, <2>4
<1> QED BY <1>2, <1>3

\* Relink changes lists only, whether or not every parent is stored.
LEMMA RelinkKeepsResults ==
  ASSUME NEW js \in JobTable, NEW j \in Jobs, js[j] # NoJob, NEW old \in Jobs \cup {NoParent},
         js[j].parent # NoParent /\ js[j].parent # old =>
           js[js[j].parent] # NoJob /\ js[js[j].parent].dependents[j] < MaxOccurrences
  PROVE  LET ks == Relink(js, j, old) IN
           /\ ks \in JobTable
           /\ \A x \in Jobs : ks[x] # NoJob => js[x] # NoJob /\ ks[x].results = js[x].results
<1> DEFINE q == js[j].parent
           mid == Unlink(js, j, old)
           ks == Relink(js, j, old)
<1>1. q \in Jobs \cup {NoParent}
  BY DEF JobTable, JobRecord
<1>2. CASE ks = js
  BY <1>2
<1>3. CASE q # old /\ ks = Link(mid, j, q)
  <2>1. SameButList(js, mid, old)
    BY UnlinkFacts
  <2>2. /\ mid \in JobTable /\ mid[j].parent = q
        /\ q # NoParent => mid[q] # NoJob /\ mid[q].dependents[j] < MaxOccurrences
    BY <1>1, <1>3, <2>1 DEF SameButList
  <2> HIDE DEF mid, q
  <2>3. SameButList(mid, Link(mid, j, q), q)
    BY <1>1, <2>2, LinkFacts
  <2> QED BY <1>3, <2>1, <2>3 DEF SameButList
<1>4. ks = js \/ (q # old /\ ks = Link(mid, j, q))
  <2>1. mid[j].parent = q
    BY UnlinkFacts DEF SameButList
  <2> QED BY <2>1 DEF Relink
<1> QED BY <1>2, <1>3, <1>4

\* Writing one job's results leaves the other jobs alone.
WithResults(js, j, r) == [js EXCEPT ![j].results = r]

LEMMA ResultsWritten ==
  ASSUME NEW js \in JobTable, NEW j \in Jobs, js[j] # NoJob, NEW r \in Results,
         NEW ks, ks = WithResults(js, j, r)
  PROVE  /\ ks \in JobTable /\ ks[j] # NoJob /\ ks[j].results = r
         /\ \A x \in Jobs : x # j => ks[x] = js[x]
<1> DEFINE rec == [js[j] EXCEPT !.results = r]
<1>1. ks = [js EXCEPT ![j] = rec]
  BY DEF WithResults
<1>2. rec \in JobRecord /\ rec # NoJob /\ rec.results = r
  BY ConstantsAssumption DEF JobTable, JobRecord
<1> HIDE DEF rec
<1> QED BY <1>1, <1>2 DEF JobTable

\* Whatever command a server applies: what fitted together still does.
LEMMA EffectFits ==
  ASSUME NEW cmd \in Commands, NEW x, NEW y, Effect(cmd, x, y), IsSound(x)
  PROVE  IsSound(y) /\ (HasSeenAll(x) => HasSeenAll(y))
<1> DEFINE js == x.jobs
           ss == x.stats
           ks == y.jobs
           ts == y.stats
<1>1. js \in JobTable /\ ss \in DayTable /\ Sound(js, ss)
  BY DEF IsSound, Sound
<1>2. /\ cmd.op \in {"SetJob", "DeleteJob", "DeleteExecutions"} => cmd.job \in Jobs
      /\ cmd.op = "SetJob" => cmd.payload \in Payloads
      /\ cmd.op = "ExecutionDone" =>
           /\ cmd.key \in Keys /\ cmd.result \in ExecutionRecord /\ JobOf[cmd.key] \in Jobs
  BY ConstantsAssumption DEF Commands
<1>3. SUFFICES Sound(ks, ts) /\ (OnlyResultsCount /\ Tallied(js, ss) => Tallied(ks, ts))
  BY DEF IsSound, HasSeenAll
<1>4. ASSUME ks = js, ts = ss
      PROVE  Sound(ks, ts) /\ (OnlyResultsCount /\ Tallied(js, ss) => Tallied(ks, ts))
  BY <1>1, <1>4
<1>5. CASE ~AcceptedAt(cmd, x)
  BY <1>4, <1>5 DEF Effect
<1>6. CASE AcceptedAt(cmd, x) /\ cmd.op = "SetJob" /\ SetJobEffect(cmd.job, cmd.payload, x, y)
  <2> DEFINE j == cmd.job
             p == cmd.payload
             old == ParentOf(js, j)
  <2>1. PICK n \in NextTimes : ks = Relink([js EXCEPT ![j] = Merge(p, js[j], n)], j, old)
    BY <1>6 DEF SetJobEffect
  <2> DEFINE m == Merge(p, js[j], n)
             mid == [js EXCEPT ![j] = m]
  <2>2. Sound(mid, ss) /\ (OnlyResultsCount /\ Tallied(js, ss) => Tallied(mid, ss))
    BY <1>1, <1>2, <1>6, WrittenJobFits
  <2>3. mid[j] # NoJob /\ mid[j].parent = p.parent /\ \A i \in Jobs : i # j => mid[i] = js[i]
    <3>1. js[j] \in JobRecord \cup {NoJob}
      BY <1>1, <1>2, <1>6 DEF JobTable
    <3>2. m \in JobRecord /\ m # NoJob /\ m.parent = p.parent
      BY <1>2, <1>6, <3>1, MergeFacts, ConstantsAssumption
    <3> QED BY <1>1, <1>2, <1>6, <3>2 DEF JobTable
  <2>4. mid \in JobTable /\ old \in Jobs \cup {NoParent}
    <3>1. mid \in JobTable
      BY <2>2 DEF Sound
    <3>2. old \in Jobs \cup {NoParent}
      BY <1>1, <1>2, <1>6 DEF ParentOf, JobTable, JobRecord
    <3> QED BY <3>1, <3>2
  <2>5. p.parent # NoParent /\ p.parent # old =>
          /\ p.parent \in Jobs /\ p.parent # j /\ js[p.parent] # NoJob
          /\ js[p.parent].dependents[j] < MaxOccurrences
    BY <1>2, <1>6 DEF AcceptedAt, SetJobEffect, Payloads
  <2> HIDE DEF mid, p, old
  <2>6. /\ ks \in JobTable
        /\ \A i \in Jobs : ks[i] # NoJob => mid[i] # NoJob /\ ks[i].results = mid[i].results
    <3>1. ks = Relink(mid, j, old)
      BY <2>1 DEF mid, p
    <3>2. mid[j].parent # NoParent /\ mid[j].parent # old =>
            mid[mid[j].parent] # NoJob /\ mid[mid[j].parent].dependents[j] < MaxOccurrences
      BY <2>3, <2>5
    <3> QED BY <1>2, <1>6, <2>3, <2>4, <3>1, <3>2, RelinkKeepsResults
  <2>7. Sound(ks, ss) /\ (OnlyResultsCount /\ Tallied(mid, ss) => Tallied(ks, ss))
    BY <2>2, <2>6, SameResultsFit
  <2>8. ts = ss
    BY <1>6 DEF SetJobEffect
  <2> QED BY <2>2, <2>7, <2>8
<1>7. CASE AcceptedAt(cmd, x) /\ cmd.op = "DeleteJob" /\ DeleteJobEffect(cmd.job, x, y)
  <2> DEFINE j == cmd.job
             p == js[j].parent
             mid == [js EXCEPT ![j] = NoJob]
  <2>1. ks = Unlink(mid, j, p) /\ ts = ss /\ j \in Jobs /\ js[j] # NoJob
    BY <1>2, <1>7 DEF DeleteJobEffect, AcceptedAt
  <2>2. mid \in JobTable /\ p \in Jobs \cup {NoParent}
    BY <1>1, <2>1 DEF JobTable, JobRecord
  <2>3. \A i \in Jobs : mid[i] # NoJob => js[i] # NoJob /\ mid[i] = js[i]
    BY <1>1, <2>1 DEF JobTable
  <2> HIDE DEF mid, p
  <2>4. SameButList(mid, ks, p)
    BY <2>1, <2>2, UnlinkFacts
  <2>5. /\ ks \in JobTable
        /\ \A i \in Jobs : ks[i] # NoJob => js[i] # NoJob /\ ks[i].results = js[i].results
    BY <2>3, <2>4 DEF SameButList
  <2> HIDE DEF js, ks, ss, ts
  <2> QED BY <1>1, <2>1, <2>5, SameResultsFit
<1>8. CASE AcceptedAt(cmd, x) /\ cmd.op = "DeleteExecutions"
           /\ DeleteExecutionsEffect(cmd.job, x, y)
  <2> DEFINE j == cmd.job
             r == ResetResults(js[j].results)
  <2>1. /\ ks = WithResults(js, j, r) /\ ts = ss
        /\ j \in Jobs /\ js[j] # NoJob /\ js[j] \in JobRecord
    BY <1>1, <1>2, <1>8 DEF DeleteExecutionsEffect, AcceptedAt, JobTable, WithResults
  <2>2. r \in Results /\ Coherent(r) /\ r.successCount = 0 /\ r.errorCount = 0
    BY <2>1, ConstantsAssumption DEF ResetResults, JobRecord, Results, Coherent, Times
  <2> HIDE DEF r
  <2>3. /\ ks \in JobTable /\ ks[j] # NoJob /\ ks[j].results = r
        /\ \A i \in Jobs : i # j => ks[i] = js[i]
    BY <1>1, <2>1, <2>2, ResultsWritten
  <2>4. Sound(ks, ss)
    BY <1>1, <2>2, <2>3 DEF Sound
  <2>5. ASSUME OnlyResultsCount, Tallied(js, ss) PROVE Tallied(ks, ss)
    <3>1. ASSUME NEW i \in Jobs
          PROVE  /\ SuccessesOf(ks, i) <= SuccessesOf(js, i)
                 /\ ErrorsOf(ks, i) <= ErrorsOf(js, i)
      <4>1. js[i] # NoJob =>
              js[i].results.successCount \in Nat /\ js[i].results.errorCount \in Nat
        BY <1>1, ConstantsAssumption DEF JobTable, JobRecord, Results
      <4> QED BY <2>1, <2>2, <2>3, <4>1 DEF SuccessesOf, ErrorsOf
    <3>2. IsFiniteSet(Days) /\ \A i \in Jobs : i # j => (ks[i] # NoJob => js[i] # NoJob)
      BY <2>3, <2>5 DEF OnlyResultsCount
    <3> QED BY <1>1, <2>3, <2>5, <3>1, <3>2, NothingCounted
  <2> QED BY <2>1, <2>4, <2>5
<1>9. CASE AcceptedAt(cmd, x) /\ cmd.op = "SetExecution"
           /\ SetExecutionEffect(cmd.key, cmd.finished, x, y)
  BY <1>4, <1>9 DEF SetExecutionEffect
<1>10. CASE AcceptedAt(cmd, x) /\ cmd.op = "ExecutionDone"
            /\ SetExecutionDoneEffect(cmd.key, cmd.result, x, y)
  <2> DEFINE k == cmd.key
             e == cmd.result
             j == JobOf[k]
             d == DayOf[e.finished]
             status == GroupStatus(PutIn(x.execs, k, e), j, GroupOf[k])
             new == Count(js[j].results, e, status)
             day == IncrementStat(ss[d], e.success)
  <2>1. /\ j \in Jobs /\ js[j] # NoJob /\ js[j] \in JobRecord /\ d \in Days
        /\ ss[d] \in DayStat /\ js[j].results \in Results /\ Coherent(js[j].results)
        /\ e.finished \in Times /\ e.finished > 0 /\ e \in ExecutionRecord
    <3>1. k \in Nat \ {0} /\ e.finished \in Times /\ e.finished >= k /\ e \in ExecutionRecord
      BY <1>2, <1>10, ConstantsAssumption DEF ExecutionRecord, SetExecutionDoneEffect
    <3>2. j \in Jobs /\ js[j] # NoJob /\ js[j] \in JobRecord
      BY <1>1, <1>2, <1>10 DEF AcceptedAt, JobTable
    <3> QED BY <1>1, <3>1, <3>2, ConstantsAssumption DEF Times, DayTable, JobRecord, Sound
  <2>2. CASE ks = js /\ ts = ss
    BY <1>4, <2>2
  <2>3. CASE /\ js[j].results.successCount < MaxCount /\ js[j].results.errorCount < MaxCount
             /\ ss[d].success < MaxStat /\ ss[d].failed < MaxStat
             /\ ks = [js EXCEPT ![j].results = new]
             /\ ts = [ss EXCEPT ![d] = day]
    <3>1. new \in Results /\ Coherent(new)
      <4>1. status \in Statuses
        BY DEF GroupStatus, Statuses
      <4> DEFINE r == js[j].results
      <4>2. /\ r \in Results /\ Coherent(r) /\ r.successCount < MaxCount
            /\ r.errorCount < MaxCount /\ new = Count(r, e, status)
        BY <2>1, <2>3
      <4> HIDE DEF status, r, new, e
      <4> QED BY <2>1, <4>1, <4>2, CountFacts
    <3>2. day \in DayStat
      <4>1. ss[d] \in DayStat /\ ss[d].success < MaxStat /\ ss[d].failed < MaxStat
        BY <2>1, <2>3
      <4> HIDE DEF ss, d
      <4> QED BY <4>1, ConstantsAssumption DEF IncrementStat, DayStat
    <3>3. /\ ks = WithCount(js, j, e, status) /\ ts = WithStat(ss, d, e)
          /\ ks = WithResults(js, j, new)
      BY <2>3 DEF WithCount, WithStat, WithResults
    <3> HIDE DEF new, day, status, d, j, e, k, js, ks, ss, ts
    <3>4. /\ ks \in JobTable /\ ks[j] # NoJob /\ ks[j].results = new
          /\ \A i \in Jobs : i # j => ks[i] = js[i]
      BY <1>1, <2>1, <3>1, <3>3, ResultsWritten
    <3>5. ts \in DayTable
      BY <1>1, <2>1, <2>3, <3>2 DEF DayTable
    <3>6. Sound(ks, ts)
      BY <1>1, <3>1, <3>4, <3>5 DEF Sound
    <3>7. OneCounted(js, WithCount(js, j, e, status), ss, WithStat(ss, d, e), j, d)
      BY <1>1, <2>1, <3>3, <3>4, CountedOnce
    <3>8. OnlyResultsCount /\ Tallied(js, ss) => Tallied(ks, ts)
      BY <1>1, <2>1, <3>3, <3>7, ResultCounted DEF OnlyResultsCount
    <3> QED BY <3>6, <3>8
  <2> QED BY <1>10, <2>2, <2>3 DEF SetExecutionDoneEffect
<1> QED BY <1>5, <1>6, <1>7, <1>8, <1>9, <1>10 DEF Effect

\* Both depend on the jobs and the statistics only.
LEMMA FitsByFields ==
  ASSUME NEW x, NEW y, y.jobs = x.jobs, y.stats = x.stats
  PROVE  (IsSound(x) => IsSound(y)) /\ (HasSeenAll(x) => HasSeenAll(y))
  BY DEF IsSound, HasSeenAll

LEMMA NothingFits == IsSound(EmptyDatabase) /\ HasSeenAll(EmptyDatabase)
<1>1. /\ EmptyDatabase.jobs = [j \in Jobs |-> NoJob]
      /\ EmptyDatabase.stats = [d \in Days |-> [success |-> 0, failed |-> 0]]
  BY DatabaseFields DEF EmptyDatabase
<1>2. EmptyDatabase.jobs \in JobTable /\ EmptyDatabase.stats \in DayTable
  BY <1>1, ConstantsAssumption DEF JobTable, DayTable, DayStat
<1>3. \A j \in Jobs : EmptyDatabase.jobs[j] = NoJob
  BY <1>1
<1>4. Sound(EmptyDatabase.jobs, EmptyDatabase.stats)
  BY <1>2, <1>3 DEF Sound
<1>5. OnlyResultsCount => Tallied(EmptyDatabase.jobs, EmptyDatabase.stats)
  BY <1>2, <1>3, NothingStored DEF OnlyResultsCount
<1> QED BY <1>4, <1>5 DEF IsSound, HasSeenAll

\* Every store there is, or was, or is saved.
FitInv ==
  /\ \A i \in 1..Len(past) : IsSound(past[i]) /\ HasSeenAll(past[i])
  /\ IsSound(Live) /\ (~overlaid => HasSeenAll(Live))
  /\ snapshot # NoSnapshot =>
       /\ IsSound(snapshot.database)
       /\ ~snapshot.overlaid => HasSeenAll(snapshot.database)

LEMMA InitFits == ReplicaInit => FitInv
<1> SUFFICES ASSUME ReplicaInit PROVE FitInv
  OBVIOUS
<1>1. past = <<EmptyDatabase>> /\ Live = EmptyDatabase /\ snapshot = NoSnapshot
  BY DEF ReplicaInit, Server!Init, EmptyDatabase, Live
<1>2. Len(past) = 1 /\ past[1] = EmptyDatabase
  BY <1>1
<1> QED BY <1>1, <1>2, NothingFits DEF FitInv

LEMMA PastFits ==
  ASSUME FitInv, UNCHANGED past
  PROVE  \A i \in 1..Len(past') : IsSound(past'[i]) /\ HasSeenAll(past'[i])
  BY DEF FitInv

LEMMA CommitFits == ASSUME ReplicaInv, ReplicaInv', FitInv, Commit PROVE FitInv'
<1> DEFINE n == Len(log)
<1>1. /\ n \in Nat /\ Len(log') = n + 1 /\ Len(past) = n + 1 /\ Len(past') = n + 2
      /\ \A i \in 1..(n + 1) : past'[i] = past[i]
      /\ log'[n + 1] \in Commands
  <2>1. PICK cmd \in Script :
          log' = Append(log, cmd) /\ past' = Append(past, Database(jobs', execs', stats'))
    BY DEF Commit
  <2> QED BY <2>1, ReplicaAssumption DEF ReplicaInv, History
<1>2. Effect(log'[n + 1], past'[n + 1], past'[n + 2])
  BY <1>1 DEF ReplicaInv, History
<1>3. IsSound(past'[n + 1]) /\ HasSeenAll(past'[n + 1])
  BY <1>1 DEF FitInv
<1>4. IsSound(past'[n + 2]) /\ HasSeenAll(past'[n + 2])
  BY <1>1, <1>2, <1>3, EffectFits
<1>5. \A i \in 1..Len(past') : IsSound(past'[i]) /\ HasSeenAll(past'[i])
  BY <1>1, <1>4 DEF FitInv
<1>6. Live' = Live /\ overlaid' = overlaid /\ snapshot' = snapshot
  BY DEF Commit, follower, Live
<1> QED BY <1>5, <1>6 DEF FitInv

LEMMA ApplyNextFits == ASSUME ReplicaInv, FitInv, ApplyNext PROVE FitInv'
<1>1. /\ log[applied + 1] \in Commands /\ Server!Apply(log[applied + 1])
      /\ past' = past /\ snapshot' = snapshot /\ overlaid' = overlaid
  BY ReplicaAssumption DEF ApplyNext, ReplicaInv, History, FollowerOK
<1>2. Effect(log[applied + 1], Live, Live')
  BY <1>1, FollowerApplyHasEffect
<1>3. IsSound(Live') /\ (~overlaid => HasSeenAll(Live'))
  BY <1>1, <1>2, EffectFits DEF FitInv
<1> QED BY <1>1, <1>3, PastFits DEF FitInv

LEMMA PersistFits == ASSUME FitInv, Persist PROVE FitInv'
<1>1. /\ past' = past /\ Live' = Live /\ overlaid' = overlaid
      /\ snapshot'.database = Live /\ snapshot'.overlaid = overlaid
  BY DEF Persist, follower, Live
<1> QED BY <1>1, PastFits DEF FitInv

\* What is stored between the transactions of a command fits: counters are
\* written in one transaction, with all they have to agree with.
LEMMA UnfinishedFits ==
  ASSUME ReplicaInv, FitInv, NEW cmd \in Commands, NEW x \in Unfinished(cmd)
  PROVE  IsSound(x) /\ (~overlaid => HasSeenAll(x))
<1>1. Sound(fjobs, fstats) /\ (OnlyResultsCount /\ ~overlaid => Tallied(fjobs, fstats))
  BY LiveFields DEF FitInv, IsSound, HasSeenAll
<1>2. fjobs \in JobTable
  BY <1>1 DEF Sound
<1>3. ASSUME NEW js \in JobTable, NEW es, x = Database(js, es, fstats),
             \A y \in Jobs : js[y] # NoJob => fjobs[y] # NoJob /\ js[y].results = fjobs[y].results
      PROVE  IsSound(x) /\ (~overlaid => HasSeenAll(x))
  BY <1>1, <1>3, SameResultsFit, DatabaseFields DEF IsSound, HasSeenAll
<1>4. CASE cmd.op = "SetJob"
  <2>1. cmd.job \in Jobs /\ cmd.payload \in Payloads
    BY <1>4 DEF Commands
  <2> DEFINE old == ParentOf(fjobs, cmd.job)
             Written(n) == [fjobs EXCEPT ![cmd.job] = Merge(cmd.payload, fjobs[cmd.job], n)]
  <2>2. PICK n \in NextTimes :
          \/ x = Database(Written(n), fexecs, fstats)
          \/ x = Database(Unlink(Written(n), cmd.job, old), fexecs, fstats)
    BY <1>4 DEF Unfinished
  <2> DEFINE w == Written(n)
             u == Unlink(w, cmd.job, old)
  <2>3. Sound(w, fstats) /\ (OnlyResultsCount /\ Tallied(fjobs, fstats) => Tallied(w, fstats))
    BY <2>1, <1>1, WrittenJobFits
  <2>4. w \in JobTable
    BY <2>3 DEF Sound
  <2>5. old \in Jobs \cup {NoParent}
    BY <1>2, <2>1 DEF ParentOf, JobTable, JobRecord
  <2> HIDE DEF w, old
  <2>6. SameButList(w, u, old)
    BY <2>1, <2>4, <2>5, UnlinkFacts
  <2> HIDE DEF u
  <2>7. u \in JobTable /\ \A y \in Jobs : u[y] # NoJob => w[y] # NoJob /\ u[y].results = w[y].results
    BY <2>6 DEF SameButList
  <2>8. Sound(u, fstats) /\ (OnlyResultsCount /\ Tallied(w, fstats) => Tallied(u, fstats))
    BY <2>3, <2>7, SameResultsFit
  <2>9. x = Database(w, fexecs, fstats) \/ x = Database(u, fexecs, fstats)
    BY <2>2 DEF w, u
  <2> QED BY <1>1, <2>3, <2>8, <2>9, DatabaseFields DEF IsSound, HasSeenAll
<1>5. CASE cmd.op = "DeleteJob"
  <2> DEFINE js == [fjobs EXCEPT ![cmd.job] = NoJob]
  <2>1. x = Database(js, Server!WithoutExecutions(cmd.job), fstats)
    BY <1>5 DEF Unfinished
  <2>2. /\ js \in JobTable
        /\ \A y \in Jobs : js[y] # NoJob => fjobs[y] # NoJob /\ js[y].results = fjobs[y].results
    BY <1>2 DEF JobTable
  <2> HIDE DEF js
  <2> QED BY <1>3, <2>1, <2>2
<1>6. CASE cmd.op = "SetExecution"
  <2>1. \E es : x = Database(fjobs, es, fstats)
    BY <1>6 DEF Unfinished
  <2> QED BY <1>2, <1>3, <2>1
<1>7. cmd.op \in {"SetJob", "DeleteJob", "SetExecution"}
  BY DEF Unfinished
<1> QED BY <1>4, <1>5, <1>6, <1>7

\* A store saved between the transactions of a command fits.
LEMMA PersistMidwayFits == ASSUME ReplicaInv, FitInv, PersistMidway PROVE FitInv'
<1> DEFINE cmd == log[applied + 1]
<1>1. /\ cmd \in Commands /\ Server!Apply(cmd)
      /\ past' = past /\ overlaid' = overlaid
  BY ReplicaAssumption DEF PersistMidway, ReplicaInv, History, FollowerOK
<1>2. PICK x \in Unfinished(cmd) :
        snapshot' = [index |-> taking, database |-> x, raced |-> TRUE, overlaid |-> overlaid]
  BY DEF PersistMidway
<1> HIDE DEF cmd
<1>3. Effect(cmd, Live, Live')
  BY <1>1, FollowerApplyHasEffect
<1>4. IsSound(Live') /\ (~overlaid => HasSeenAll(Live'))
  BY <1>1, <1>3, EffectFits DEF FitInv
<1>5. snapshot'.database = x /\ snapshot'.overlaid = overlaid
  BY <1>2
<1>6. IsSound(x) /\ (~overlaid => HasSeenAll(x))
  BY <1>1, UnfinishedFits
<1> QED BY <1>1, <1>4, <1>5, <1>6, PastFits DEF FitInv

LEMMA RestartFits == ASSUME FitInv, Restart PROVE FitInv'
<1>1. past' = past /\ snapshot' = snapshot
  BY DEF Restart
<1>2. IsSound(Live') /\ (~overlaid' => HasSeenAll(Live'))
  <2>1. CASE snapshot = NoSnapshot
    <3>1. Holds(EmptyDatabase)
      BY <2>1 DEF Restart
    <3>2. Live'.jobs = EmptyDatabase.jobs /\ Live'.stats = EmptyDatabase.stats
      BY <3>1, LiveFields DEF Holds
    <3> QED BY <3>2, NothingFits, FitsByFields
  <2>2. CASE snapshot # NoSnapshot
    <3>1. Holds(snapshot.database) /\ overlaid' = snapshot.overlaid
      BY <2>2 DEF Restart
    <3>2. /\ Live'.jobs = snapshot.database.jobs /\ Live'.stats = snapshot.database.stats
          /\ IsSound(snapshot.database)
          /\ ~overlaid' => HasSeenAll(snapshot.database)
      BY <2>2, <3>1, LiveFields DEF Holds, FitInv
    <3> QED BY <3>2, FitsByFields
  <2> QED BY <2>1, <2>2
<1> QED BY <1>1, <1>2, PastFits DEF FitInv

\* Two stores laid over each other hold sound jobs, each from one of them.
LEMMA InstallSnapshotFits == ASSUME ReplicaInv, FitInv, InstallSnapshot PROVE FitInv'
<1>1. /\ past' = past /\ overlaid' = (applied > 0)
      /\ applied \in Nat /\ Len(log) \in Nat /\ Len(past) = Len(log) + 1
  BY DEF InstallSnapshot, ReplicaInv, FollowerOK, History
<1>2. PICK n \in 1..Len(log) :
        /\ Holds(Loaded(past[n + 1]))
        /\ snapshot'.database = past[n + 1] /\ snapshot'.overlaid = FALSE
  BY DEF InstallSnapshot
<1> DEFINE x == past[n + 1]
<1>3. x \in Stores /\ IsSound(x) /\ HasSeenAll(x)
  BY <1>1 DEF ReplicaInv, History, FitInv
<1>4. snapshot'.database = x /\ snapshot'.overlaid = FALSE
  BY <1>2
<1>5. Live'.jobs = Loaded(x).jobs /\ Live'.stats = Loaded(x).stats
  BY <1>2, LiveFields DEF Holds
<1> HIDE DEF x
<1>6. IsSound(Live') /\ (~overlaid' => HasSeenAll(Live'))
  <2>1. CASE applied = 0
    <3>1. Live'.jobs = x.jobs /\ Live'.stats = x.stats
      BY <1>3, <1>5, <2>1, LoadedIntoEmpty
    <3> QED BY <1>3, <3>1, FitsByFields
  <2>2. CASE applied # 0
    <3>1. Sound(x.jobs, x.stats) /\ Sound(fjobs, fstats)
      BY <1>3, LiveFields DEF FitInv, IsSound
    <3>2. /\ Loaded(x).jobs = [j \in Jobs |-> IF x.jobs[j] = NoJob THEN fjobs[j] ELSE x.jobs[j]]
          /\ Loaded(x).stats = [d \in Days |-> IF x.stats[d] = EmptyDatabase.stats[d]
                                                 THEN fstats[d] ELSE x.stats[d]]
      BY DEF Loaded
    <3>3. Sound(Loaded(x).jobs, Loaded(x).stats)
      BY <3>1, <3>2 DEF Sound, JobTable, DayTable
    <3>4. applied > 0
      BY <1>1, <2>2
    <3>5. overlaid'
      BY <1>1, <3>4, Zenon
    <3> QED BY <1>5, <3>3, <3>5 DEF IsSound
  <2> QED BY <2>1, <2>2
<1> QED BY <1>1, <1>3, <1>4, <1>6, PastFits DEF FitInv

\* The counters of every store there is fit together, and those of every
\* snapshot.
THEOREM FitInvariance == ReplicaSpec => []FitInv
<1>1. ReplicaInv /\ ReplicaInv' /\ FitInv /\ [ReplicaNext]_replicaVars => FitInv'
  <2> SUFFICES ASSUME ReplicaInv, ReplicaInv', FitInv, [ReplicaNext]_replicaVars
               PROVE  FitInv'
    OBVIOUS
  <2>1. ASSUME past' = past, Live' = Live, snapshot' = snapshot, overlaid' = overlaid
        PROVE  FitInv'
    BY <2>1, PastFits DEF FitInv
  <2>2. CASE Snapshot
    BY <2>1, <2>2 DEF Snapshot, follower, Live
  <2>3. CASE UNCHANGED replicaVars
    BY <2>1, <2>3 DEF replicaVars, follower, Live
  <2> QED BY <2>2, <2>3, CommitFits, ApplyNextFits, PersistFits, PersistMidwayFits,
             RestartFits, InstallSnapshotFits
          DEF ReplicaNext
<1> QED BY InitFits, ReplicaInvariance, <1>1, PTL DEF ReplicaSpec

\* Whatever a server was restored from, also a snapshot saved while entries
\* were applied or loaded over a store in use: a job shows a last success
\* exactly when it counts successes, and a last error exactly when it counts
\* errors (SetExecutionDone in store.go writes both in one transaction).
THEOREM ServersStayCoherent == ReplicaSpec => []Server!ResultsCoherent
<1>1. FitInv => Server!ResultsCoherent
  <2>1. \A r : Server!Coherent(r) <=> Coherent(r)
    BY DEF Server!Coherent, Coherent
  <2> QED BY <2>1, LiveFields
          DEF FitInv, IsSound, Sound, Server!ResultsCoherent, Server!Stored
<1> QED BY FitInvariance, <1>1, PTL

\* And unless a snapshot was loaded over a store in use, the daily statistics
\* of a server (IncrementStat in store.go) have seen every success and every
\* failure that the counters of its jobs show, when there are finitely many
\* days and no request brings counters of its own.
THEOREM CountsStayTogether ==
  ASSUME IsFiniteSet(Days), PayloadsCountNone
  PROVE  ReplicaSpec => []CountsFitTogether
<1>1. FitInv /\ Server!ResultsCoherent => CountsFitTogether
  <2> SUFFICES ASSUME FitInv, Server!ResultsCoherent PROVE CountsFitTogether
    OBVIOUS
  <2>1. ASSUME ~overlaid PROVE Server!CountersWithinStats
    <3>1. fjobs \in JobTable /\ fstats \in DayTable /\ Tallied(fjobs, fstats)
      BY <2>1, LiveFields DEF FitInv, IsSound, HasSeenAll, Sound, OnlyResultsCount
    <3>2. {j \in Jobs : Server!Stored(j)} = StoredIn(fjobs)
      BY DEF Server!Stored, StoredIn
    <3>3. IsFiniteSet(StoredIn(fjobs))
      BY <3>1 DEF Tallied
    <3>4. MapThenSumSet(LAMBDA j : fjobs[j].results.successCount, StoredIn(fjobs))
            <= MapThenSumSet(LAMBDA d : fstats[d].success, Days)
      BY <3>1, <3>3, JobSuccessesAdded, DaySuccessesAdded DEF Tallied
    <3>5. MapThenSumSet(LAMBDA j : fjobs[j].results.errorCount, StoredIn(fjobs))
            <= MapThenSumSet(LAMBDA d : fstats[d].failed, Days)
      BY <3>1, <3>3, JobErrorsAdded, DayFailuresAdded DEF Tallied
    <3> QED BY <3>2, <3>4, <3>5
            DEF Server!CountersWithinStats, Server!MapThenSumSet, MapThenSumSet,
                Server!MapThenFoldSet, MapThenFoldSet
  <2> QED BY <2>1 DEF CountsFitTogether
<1> QED BY FitInvariance, ServersStayCoherent, <1>1, PTL

=============================================================================
