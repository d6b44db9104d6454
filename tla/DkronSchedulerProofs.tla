------------------------ MODULE DkronSchedulerProofs ------------------------
(***************************************************************************)
(* What is proved of DkronScheduler for all jobs, schedules and handlers,  *)
(* and whatever the bounds: the cron runs only in a term, terms are those  *)
(* of DkronTerm, and the cron entries follow the stored jobs.              *)
(***************************************************************************)
EXTENDS DkronScheduler, FiniteSetTheorems, TLAPS

Tasks == [op : {"add", "remove", "store"}, job : Jobs, value : Values]

-----------------------------------------------------------------------------
(* The cron runs only in a term *)

\* What a loop has established lasts from one barrier to the next, and the
\* monitor forgets the loop only when it has ended.
CronInv ==
  /\ CronOnlyInTerm
  /\ established => believes /\ loop \in {"wait", "barrier"}
  /\ monitor = "join" => believes

LEMMA CronInit == Init => CronInv
  BY DEF Init, CronInv, CronOnlyInTerm

\* Processes that work on entries or on the store leave the loop alone.
LEMMA CronUnchanged ==
  CronInv /\ UNCHANGED <<believes, monitor, loop, established, started>> => CronInv'
  BY DEF CronInv, CronOnlyInTerm

LEMMA CronMonitor == CronInv /\ Monitor => CronInv'
<1> SUFFICES ASSUME CronInv, Monitor PROVE CronInv'
  OBVIOUS
<1> USE DEF CronInv, CronOnlyInTerm, Received, cronVars, loopVars
<1>1. CASE StartLoop
  BY <1>1 DEF StartLoop
<1>2. CASE Ignore
  BY <1>2 DEF Ignore
<1>3. CASE StopLoop
  BY <1>3 DEF StopLoop
<1>4. CASE Joined
  BY <1>4 DEF Joined
<1> QED BY <1>1, <1>2, <1>3, <1>4 DEF Monitor

LEMMA CronLoopStep == CronInv /\ LoopStep => CronInv'
<1> SUFFICES ASSUME CronInv, LoopStep PROVE CronInv'
  OBVIOUS
<1> USE DEF CronInv, CronOnlyInTerm, cronVars, loopVars
<1>1. CASE BarrierPasses
  BY <1>1 DEF BarrierPasses
<1>2. CASE BarrierFails
  BY <1>2 DEF BarrierFails
<1>3. CASE ReadJobs
  BY <1>3 DEF ReadJobs
<1>4. CASE FailRead
  BY <1>4 DEF FailRead
<1>5. CASE StartScheduler
  BY <1>5 DEF StartScheduler
<1>6. CASE Started
  BY <1>6 DEF Started
<1>7. CASE Transferred
  BY <1>7 DEF Transferred
<1>8. CASE TransferFails
  BY <1>8 DEF TransferFails
<1>9. CASE Interval
  BY <1>9 DEF Interval
<1>10. CASE EndLoop
  BY <1>10 DEF EndLoop
<1>11. CASE Work(Loop)
  BY <1>11 DEF Work, Look, RemoveEntry, Insert
<1> QED
  BY <1>1, <1>2, <1>3, <1>4, <1>5, <1>6, <1>7, <1>8, <1>9, <1>10, <1>11 DEF LoopStep

LEMMA CronNext == CronInv /\ [Next]_vars => CronInv'
<1> SUFFICES ASSUME CronInv, [Next]_vars PROVE CronInv'
  OBVIOUS
<1> USE CronUnchanged
<1>1. CASE Elect \/ Depose
  BY <1>1 DEF Elect, Depose, cronVars, loopVars
<1>2. CASE Monitor
  BY <1>2, CronMonitor
<1>3. CASE LoopStep
  BY <1>3, CronLoopStep
<1>4. ASSUME NEW h \in Handlers, Call(h) PROVE CronInv'
  BY <1>4 DEF Call, SetJob, DeleteJob, Run, cronVars, loopVars
<1>5. ASSUME NEW h \in Handlers, Handle(h) PROVE CronInv'
  BY <1>5 DEF Handle, Work, Look, RemoveEntry, Insert, WriteBack, FailWriteBack,
              cronVars, loopVars
<1>6. ASSUME NEW j \in Jobs, NEW v \in Values, OtherWrite(j, v) PROVE CronInv'
  BY <1>6 DEF OtherWrite, cronVars, loopVars
<1>7. CASE UNCHANGED vars
  BY <1>7 DEF vars
<1> QED
  BY <1>1, <1>2, <1>3, <1>4, <1>5, <1>6, <1>7 DEF Next

\* The cron of a server runs only while its leader loop is in a term that it has
\* established, and a server that does not believe to lead has no loop left:
\* every way out of leaderLoop (leader.go:73-193) passes revokeLeadership.
THEOREM CronStopsWithTheTerm == Spec => []CronOnlyInTerm
<1>1. CronInv => CronOnlyInTerm
  BY DEF CronInv
<1> QED
  BY CronInit, CronNext, <1>1, PTL DEF Spec

-----------------------------------------------------------------------------
(* The refinement of DkronTerm *)

\* Under CronInv a loop that has established its term has started the cron.
TermInv == CronInv /\ started \in BOOLEAN /\ (established => started)

LEMMA TermInvInit == Init => TermInv
  BY CronInit DEF Init, TermInv

LEMMA TermInvNext == TermInv /\ [Next]_vars => TermInv'
<1> SUFFICES ASSUME TermInv, [Next]_vars PROVE started' \in BOOLEAN /\ (established => started)'
  BY CronNext DEF TermInv
<1> USE DEF TermInv, CronInv, CronOnlyInTerm, raftVars, loopVars, cronVars, workVars
<1>1. CASE Monitor
  BY <1>1 DEF Monitor, StartLoop, Ignore, StopLoop, Joined
<1>2. CASE LoopStep
  <2>1. CASE Started
    BY <2>1 DEF Started
  <2>2. CASE FailRead
    <3>1. ~established /\ started' = FALSE /\ established' = established
      BY <2>2 DEF FailRead
    <3> QED BY <3>1
  <2>3. CASE Transferred
    BY <2>3 DEF Transferred
  <2>4. CASE EndLoop
    BY <2>4 DEF EndLoop
  <2>5. CASE BarrierPasses \/ BarrierFails \/ ReadJobs \/ StartScheduler \/ TransferFails
               \/ Interval
    BY <2>5 DEF BarrierPasses, BarrierFails, ReadJobs, StartScheduler, TransferFails, Interval
  <2>6. CASE Work(Loop)
    BY <2>6 DEF Work, Look, RemoveEntry, Insert
  <2> QED BY <1>2, <2>1, <2>2, <2>3, <2>4, <2>5, <2>6 DEF LoopStep
<1>3. CASE UNCHANGED <<established, started>>
  BY <1>3
<1>4. ASSUME NEW h \in Handlers, Call(h) \/ Handle(h)
      PROVE  UNCHANGED <<established, started>>
  BY <1>4 DEF Call, SetJob, DeleteJob, Run, Handle, Work, Look, RemoveEntry, Insert,
              WriteBack, FailWriteBack
<1>5. ASSUME NEW j \in Jobs, NEW v \in Values, OtherWrite(j, v)
      PROVE  UNCHANGED <<established, started>>
  BY <1>5 DEF OtherWrite
<1>6. CASE Elect \/ Depose
  BY <1>6 DEF Elect, Depose
<1> QED BY <1>1, <1>2, <1>3, <1>4, <1>5, <1>6 DEF Next, vars

\* What the loop is doing is all that the terms are made of.
LEMMA TermStutters ==
  UNCHANGED <<loop, established, started>> => UNCHANGED Term!vars
  BY DEF Term!vars

LEMMA TermMonitor == TermInv /\ Monitor => [Term!Next]_Term!vars
<1> SUFFICES ASSUME TermInv, Monitor PROVE [Term!Next]_Term!vars
  OBVIOUS
<1> USE DEF cronVars, loopVars
<1>1. CASE StartLoop
  <2>1. Term!Begin
    BY <1>1 DEF StartLoop, TermInv, CronInv, CronOnlyInTerm, Term!Begin
  <2> QED BY <2>1 DEF Term!Next
<1>2. CASE Ignore \/ StopLoop \/ Joined
  BY <1>2, TermStutters DEF Ignore, StopLoop, Joined
<1> QED BY <1>1, <1>2 DEF Monitor

LEMMA TermLoopStep == TermInv /\ LoopStep => [Term!Next]_Term!vars
<1> SUFFICES ASSUME TermInv, LoopStep PROVE [Term!Next]_Term!vars
  OBVIOUS
<1> USE DEF TermInv, CronInv, CronOnlyInTerm, cronVars, loopVars
<1>1. CASE Started
  <2>1. Term!Establish
    BY <1>1 DEF Started, Term!Establish
  <2> QED BY <2>1 DEF Term!Next
<1>2. CASE Transferred \/ EndLoop
  <2>1. Term!End
    BY <1>2 DEF Transferred, EndLoop, Term!End
  <2> QED BY <2>1 DEF Term!Next
<1>3. CASE BarrierPasses \/ BarrierFails \/ ReadJobs \/ StartScheduler \/ TransferFails \/ Interval
  <2>1. UNCHANGED Term!vars
    BY <1>3 DEF BarrierPasses, BarrierFails, ReadJobs, StartScheduler, TransferFails,
                Interval, Term!vars
  <2> QED BY <2>1
<1>4. CASE FailRead
  <2>1. UNCHANGED Term!vars
    BY <1>4 DEF FailRead, Term!vars
  <2> QED BY <2>1
<1>5. CASE Work(Loop)
  BY <1>5, TermStutters DEF Work, Look, RemoveEntry, Insert
<1> QED BY <1>1, <1>2, <1>3, <1>4, <1>5 DEF LoopStep

LEMMA TermNext == TermInv /\ [Next]_vars => [Term!Next]_Term!vars
<1> SUFFICES ASSUME TermInv, [Next]_vars PROVE [Term!Next]_Term!vars
  OBVIOUS
<1> USE DEF cronVars, loopVars
<1>1. CASE Elect \/ Depose
  BY <1>1, TermStutters DEF Elect, Depose
<1>2. CASE Monitor
  BY <1>2, TermMonitor
<1>3. CASE LoopStep
  BY <1>3, TermLoopStep
<1>4. ASSUME NEW h \in Handlers, Call(h) PROVE [Term!Next]_Term!vars
  BY <1>4, TermStutters DEF Call, SetJob, DeleteJob, Run
<1>5. ASSUME NEW h \in Handlers, Handle(h) PROVE [Term!Next]_Term!vars
  BY <1>5, TermStutters DEF Handle, Work, Look, RemoveEntry, Insert, WriteBack, FailWriteBack
<1>6. ASSUME NEW j \in Jobs, NEW v \in Values, OtherWrite(j, v) PROVE [Term!Next]_Term!vars
  BY <1>6, TermStutters DEF OtherWrite
<1>7. CASE UNCHANGED vars
  BY <1>7, TermStutters DEF vars
<1> QED BY <1>1, <1>2, <1>3, <1>4, <1>5, <1>6, <1>7 DEF Next

\* The leader loops of a server, with all that raft, handlers and failures do
\* around them, implement the terms of DkronTerm: there is never a second loop,
\* the cron starts with the establishment of a term and stops with its end
\* (monitorLeadership, leaderLoop, leadershipTransfer, revokeLeadership).
THEOREM TermsAreImplemented == Spec => ImplementsTerm
<1>1. Init => Term!Init
  BY DEF Init, Term!Init
<1> QED
  BY TermInvInit, TermInvNext, <1>1, TermNext, PTL DEF Spec, ImplementsTerm, Term!Spec

-----------------------------------------------------------------------------
(* Types *)

TypeInv == TypeOK /\ IsFiniteSet(entries)

LEMMA ProcsFinite == IsFiniteSet(Procs)
<1>1. IsFiniteSet(Handlers) /\ IsFiniteSet({Loop})
  BY ConstantsAssumption, FS_Singleton
<1> QED BY <1>1, FS_Union DEF Procs

\* There is an ID that no entry has and no process has found.
LEMMA FreshIdFacts ==
  ASSUME IsFiniteSet(entries)
  PROVE  /\ FreshId \in Nat \ {0}
         /\ \A e \in entries : e.id # FreshId
         /\ \A p \in Procs : found[p] # FreshId
<1> DEFINE byEntries == {e.id : e \in entries}
           byProcs == {found[p] : p \in Procs}
           N == Cardinality(entries) + Cardinality(Procs) + 1
<1>1. Cardinality(entries) \in Nat /\ Cardinality(Procs) \in Nat
  BY ProcsFinite, FS_CardinalityType
<1>2. IsFiniteSet(byEntries) /\ Cardinality(byEntries) <= Cardinality(entries)
  <2>1. [e \in entries |-> e.id] \in Surjection(entries, byEntries)
    BY DEF Surjection
  <2> QED BY <2>1, FS_Surjection
<1>3. IsFiniteSet(byProcs) /\ Cardinality(byProcs) <= Cardinality(Procs)
  <2>1. [p \in Procs |-> found[p]] \in Surjection(Procs, byProcs)
    BY DEF Surjection
  <2> QED BY <2>1, ProcsFinite, FS_Surjection
<1>4. /\ IsFiniteSet(byEntries \cup byProcs)
      /\ Cardinality(byEntries \cup byProcs) < N
  <2> HIDE DEF byEntries, byProcs
  <2>1. IsFiniteSet(byEntries \cap byProcs)
    BY <1>2, FS_Subset
  <2>2. /\ Cardinality(byEntries) \in Nat /\ Cardinality(byProcs) \in Nat
        /\ Cardinality(byEntries \cap byProcs) \in Nat
    BY <1>2, <1>3, <2>1, FS_CardinalityType
  <2>3. /\ IsFiniteSet(byEntries \cup byProcs)
        /\ Cardinality(byEntries \cup byProcs)
             = Cardinality(byEntries) + Cardinality(byProcs)
                 - Cardinality(byEntries \cap byProcs)
    BY <1>2, <1>3, FS_Union
  <2> QED BY <1>1, <1>2, <1>3, <2>2, <2>3
<1>5. PICK i \in 1..N : i \notin byEntries \cup byProcs
  <2> HIDE DEF byEntries, byProcs
  <2>1. IsFiniteSet(1..N) /\ Cardinality(1..N) = N
    <3>1. N \in Int /\ N >= 1
      BY <1>1
    <3> HIDE DEF N
    <3> QED BY <3>1, FS_Interval
  <2>2. ASSUME 1..N \subseteq byEntries \cup byProcs PROVE FALSE
    BY <1>1, <1>4, <2>1, <2>2, FS_Subset, FS_CardinalityType
  <2> QED BY <2>2
<1>6. (\A e \in entries : e.id # i) /\ (\A p \in Procs : found[p] # i)
  BY <1>5
<1>7. /\ FreshId \in 1..N
      /\ \A e \in entries : e.id # FreshId
      /\ \A p \in Procs : found[p] # FreshId
  BY <1>6 DEF FreshId
<1> QED BY <1>1, <1>7

\* A task to be added leaves at most one more entry, of an enabled root job.
LEMMA InsertedFacts ==
  ASSUME TypeInv, NEW task \in Tasks
  PROVE  /\ Inserted(task) \subseteq [id : Nat \ {0}, job : Jobs, value : Schedules]
         /\ IsFiniteSet(entries \cup Inserted(task))
<1>1. FreshId \in Nat \ {0}
  BY FreshIdFacts DEF TypeInv
<1>2. Inserted(task) \subseteq [id : Nat \ {0}, job : Jobs, value : Schedules]
  BY <1>1 DEF Inserted, Tasks
<1>3. IsFiniteSet(Inserted(task))
  BY FS_Singleton, FS_EmptySet DEF Inserted
<1> QED BY <1>2, <1>3, FS_Union DEF TypeInv

\* What a busy process works on is a task.
LEMMA OnIsTask ==
  ASSUME TypeInv, NEW p \in Procs, Busy(p)
  PROVE  On(p) \in Tasks /\ Tail(work[p]) \in Seq(Tasks)
<1>1. work[p] \in Seq(Tasks) /\ work[p] # <<>>
  BY DEF TypeInv, TypeOK, Tasks, Busy
<1> QED BY <1>1 DEF On

\* What the start of the scheduler has to do is a sequence of tasks.
LEMMA StartTasks ==
  ASSUME TypeInv, NEW clear \in Clearing, NEW add \in Adding
  PROVE  clear \o add \in Seq(Tasks)
<1>1. clear \in Seq(Tasks)
  <2>1. PICK f \in Orders(entries) :
          clear = [i \in DOMAIN f |-> Task("remove", f[i].job, NoJob)]
    BY DEF Clearing
  <2>2. Cardinality(entries) \in Nat
    BY FS_CardinalityType DEF TypeInv
  <2>3. f \in [1..Cardinality(entries) -> entries]
    BY <2>1 DEF Orders
  <2>4. \A i \in 1..Cardinality(entries) : Task("remove", f[i].job, NoJob) \in Tasks
    BY <2>3 DEF TypeInv, TypeOK, Task, Tasks, Values
  <2> QED BY <2>1, <2>2, <2>3, <2>4
<1>2. add \in Seq(Tasks)
  <2> DEFINE J == {j \in Jobs : snap[j] # NoJob}
  <2>1. PICK f \in Orders(J) : add = [i \in DOMAIN f |-> Task("add", f[i], snap[f[i]])]
    BY DEF Adding
  <2>2. Cardinality(J) \in Nat
    BY ConstantsAssumption, FS_Subset, FS_CardinalityType
  <2>3. f \in [1..Cardinality(J) -> J]
    BY <2>1 DEF Orders
  <2>4. \A i \in 1..Cardinality(J) : Task("add", f[i], snap[f[i]]) \in Tasks
    BY <2>3 DEF TypeInv, TypeOK, Task, Tasks
  <2> QED BY <2>1, <2>2, <2>3, <2>4
<1> QED BY <1>1, <1>2

\* What the types say of the flags of the loop and the monitor, and of the rest.
flags == <<leading, notice, believes, stopping, monitor, loop, established, returned, started>>

FlagTypes ==
  /\ leading \in BOOLEAN /\ notice \in {"none", "won", "lost"}
  /\ believes \in BOOLEAN /\ stopping \in BOOLEAN /\ monitor \in {"select", "join"}
  /\ loop \in {"none", "barrier", "read", "start", "fill", "transfer", "wait"}
  /\ established \in BOOLEAN /\ returned \in BOOLEAN /\ started \in BOOLEAN

TableTypes ==
  /\ stored \in [Jobs -> Values] /\ snap \in [Jobs -> Values]
  /\ entries \subseteq [id : Nat \ {0}, job : Jobs, value : Schedules]
  /\ IsFiniteSet(entries)
  /\ work \in [Procs -> Seq(Tasks)]
  /\ found \in [Procs -> Nat \cup {Unknown}]
  /\ disturbed \subseteq Jobs

CountTypes == terms \in Nat /\ writes \in Nat /\ failures \in Nat

LEMMA TypeParts == TypeInv => FlagTypes /\ TableTypes /\ CountTypes
  BY DEF TypeInv, TypeOK, FlagTypes, TableTypes, CountTypes, Tasks

LEMMA TypesAgain == FlagTypes' /\ TableTypes' /\ CountTypes' => TypeInv'
  BY DEF TypeInv, TypeOK, FlagTypes, TableTypes, CountTypes, Tasks

LEMMA FlagsStay == FlagTypes /\ UNCHANGED flags => FlagTypes'
  BY DEF FlagTypes, flags

LEMMA TypeInit == Init => TypeInv
<1> SUFFICES ASSUME Init PROVE TypeInv
  OBVIOUS
<1>1. IsFiniteSet(entries)
  BY FS_EmptySet DEF Init
<1>2. (CHOOSE s \in Schedules : TRUE) \in Schedules
  BY ConstantsAssumption
<1>3. stored \in [Jobs -> Values] /\ snap \in [Jobs -> Values]
  BY <1>2 DEF Init, Values
<1>4. work \in [Procs -> Seq(Tasks)]
  BY DEF Init
<1> QED BY <1>1, <1>3, <1>4 DEF Init, TypeInv, TypeOK, Tasks, Unknown

LEMMA TypeMonitor == TypeInv /\ Monitor => TypeInv'
<1> SUFFICES ASSUME TypeInv, Monitor PROVE TypeInv'
  OBVIOUS
<1> USE DEF TypeInv, TypeOK, Received, raftVars, loopVars, cronVars, workVars, storeVars
<1>1. CASE StartLoop
  BY <1>1 DEF StartLoop
<1>2. CASE Ignore
  BY <1>2 DEF Ignore
<1>3. CASE StopLoop
  BY <1>3 DEF StopLoop
<1>4. CASE Joined
  BY <1>4 DEF Joined
<1> QED BY <1>1, <1>2, <1>3, <1>4 DEF Monitor

LEMMA TypeWork ==
  ASSUME TypeInv, NEW p \in Procs, Work(p)
  PROVE  TypeInv'
<1> USE DEF raftVars, loopVars, cronVars, workVars, storeVars, Unknown, None
<1>0. FlagTypes /\ TableTypes /\ CountTypes
  BY TypeParts
<1>4. CountTypes'
  BY <1>0 DEF CountTypes, Work, Look, RemoveEntry, Insert
<1>5. UNCHANGED flags
  BY DEF flags, Work, Look, RemoveEntry, Insert
<1>6. FlagTypes'
  BY <1>0, <1>5, FlagsStay
<1>1. CASE Look(p)
  <2>1. \A e \in entries : e.id \in Nat
    BY <1>0 DEF TableTypes
  <2>2. PICK i \in Nat : found' = [found EXCEPT ![p] = i]
    BY <1>1, <2>1 DEF Look
  <2>3. found' \in [Procs -> Nat \cup {Unknown}]
    BY <1>0, <2>2 DEF TableTypes
  <2>4. TableTypes'
    BY <1>0, <1>1, <2>3 DEF Look, TableTypes
  <2> QED BY <1>4, <1>6, <2>4, TypesAgain
<1>2. CASE RemoveEntry(p)
  <2>1. entries' \subseteq entries /\ IsFiniteSet(entries')
    BY <1>0, <1>2, FS_Subset DEF RemoveEntry, TableTypes
  <2>2. Tail(work[p]) \in Seq(Tasks)
    BY <1>2, OnIsTask DEF RemoveEntry
  <2>3. work' \in [Procs -> Seq(Tasks)]
    BY <1>0, <1>2, <2>2 DEF RemoveEntry, TaskEnds, TableTypes
  <2>4. PICK i \in Nat \cup {Unknown} : found' = [found EXCEPT ![p] = i]
    BY <1>2 DEF RemoveEntry, TaskEnds
  <2>5. found' \in [Procs -> Nat \cup {Unknown}]
    BY <1>0, <2>4 DEF TableTypes
  <2>6. TableTypes'
    BY <1>0, <1>2, <2>1, <2>3, <2>5 DEF RemoveEntry, TableTypes
  <2> QED BY <1>4, <1>6, <2>6, TypesAgain
<1>3. CASE Insert(p)
  <2>1. On(p) \in Tasks /\ Tail(work[p]) \in Seq(Tasks)
    BY <1>3, OnIsTask DEF Insert
  <2>2. /\ entries' \subseteq [id : Nat \ {0}, job : Jobs, value : Schedules]
        /\ IsFiniteSet(entries')
    BY <1>3, <2>1, InsertedFacts DEF Insert, TypeInv, TypeOK
  <2>3. /\ work' \in [Procs -> Seq(Tasks)]
        /\ found' \in [Procs -> Nat \cup {Unknown}]
    BY <1>0, <1>3, <2>1 DEF Insert, TaskEnds, TableTypes
  <2>4. TableTypes'
    BY <1>0, <1>3, <2>2, <2>3 DEF Insert, TableTypes
  <2> QED BY <1>4, <1>6, <2>4, TypesAgain
<1> QED BY <1>1, <1>2, <1>3 DEF Work

LEMMA TypeLoopStep == TypeInv /\ LoopStep => TypeInv'
<1> SUFFICES ASSUME TypeInv, LoopStep PROVE TypeInv'
  OBVIOUS
<1> USE DEF TypeInv, TypeOK, raftVars, loopVars, cronVars, workVars, storeVars
<1>1. CASE BarrierPasses
  <2>1. Touched \subseteq Jobs
    BY OnIsTask DEF Touched, Tasks, Procs
  <2> QED BY <1>1, <2>1 DEF BarrierPasses
<1>2. CASE BarrierFails
  <2>1. failures' \in Nat
    BY <1>2 DEF BarrierFails
  <2> QED BY <1>2, <2>1 DEF BarrierFails
<1>3. CASE ReadJobs
  BY <1>3 DEF ReadJobs
<1>4. CASE FailRead
  <2>1. failures' \in Nat
    BY <1>4 DEF FailRead
  <2> QED BY <1>4, <2>1 DEF FailRead
<1>5. CASE StartScheduler
  <2>1. work' \in [Procs -> Seq(Tasks)]
    <3>1. PICK clear \in Clearing, add \in Adding :
            work' = [work EXCEPT ![Loop] = clear \o add]
      BY <1>5 DEF StartScheduler
    <3> QED BY <3>1, StartTasks DEF Tasks
  <2> QED BY <1>5, <2>1 DEF StartScheduler, Tasks
<1>6. CASE Started
  BY <1>6 DEF Started
<1>7. CASE Transferred
  BY <1>7 DEF Transferred
<1>8. CASE TransferFails
  BY <1>8 DEF TransferFails
<1>9. CASE Interval
  BY <1>9 DEF Interval
<1>10. CASE EndLoop
  BY <1>10 DEF EndLoop
<1>11. CASE Work(Loop)
  BY <1>11, TypeWork DEF Procs
<1> QED
  BY <1>1, <1>2, <1>3, <1>4, <1>5, <1>6, <1>7, <1>8, <1>9, <1>10, <1>11 DEF LoopStep

\* A commit keeps the store and the ghost well typed.
LEMMA CommitTypes ==
  ASSUME TypeInv, NEW j \in Jobs, NEW v \in Values, NEW alone, Commit(j, v, alone)
  PROVE  stored' \in [Jobs -> Values] /\ disturbed' \subseteq Jobs /\ writes' \in Nat
BY DEF Commit, TypeInv, TypeOK

\* A call leaves its handler with one task.
LEMMA BeginsTypes ==
  ASSUME TypeInv, NEW h \in Handlers, NEW task \in Tasks, Begins(h, <<task>>)
  PROVE  work' \in [Procs -> Seq(Tasks)]
<1>1. <<task>> \in Seq(Tasks)
  OBVIOUS
<1> QED BY <1>1 DEF Begins, TypeInv, TypeOK, Tasks

LEMMA TypeCall ==
  ASSUME TypeInv, NEW h \in Handlers, Call(h)
  PROVE  TypeInv'
<1> USE DEF raftVars, loopVars, cronVars
<1>0. FlagTypes /\ TableTypes /\ CountTypes
  BY TypeParts
<1>4. UNCHANGED flags
  BY DEF flags, Call, SetJob, DeleteJob, Run
<1>5. FlagTypes'
  BY <1>0, <1>4, FlagsStay
<1>1. ASSUME NEW j \in Jobs, NEW v \in Values, SetJob(h, j, v) PROVE TypeInv'
  <2>1. stored' \in [Jobs -> Values] /\ disturbed' \subseteq Jobs /\ writes' \in Nat
    BY <1>1, CommitTypes DEF SetJob
  <2>2. work' \in [Procs -> Seq(Tasks)]
    BY <1>1, BeginsTypes DEF SetJob, Task, Tasks
  <2>3. TableTypes' /\ CountTypes'
    BY <1>0, <1>1, <2>1, <2>2 DEF SetJob, TableTypes, CountTypes
  <2> QED BY <1>5, <2>3, TypesAgain
<1>2. ASSUME NEW j \in Jobs, DeleteJob(h, j) PROVE TypeInv'
  <2>1. stored' \in [Jobs -> Values] /\ disturbed' \subseteq Jobs /\ writes' \in Nat
    BY <1>2, CommitTypes DEF DeleteJob, Values
  <2>2. work' \in [Procs -> Seq(Tasks)]
    BY <1>2, BeginsTypes DEF DeleteJob, Task, Tasks, Values
  <2>3. TableTypes' /\ CountTypes'
    BY <1>0, <1>2, <2>1, <2>2 DEF DeleteJob, TableTypes, CountTypes
  <2> QED BY <1>5, <2>3, TypesAgain
<1>3. ASSUME NEW j \in Jobs, Run(h, j) PROVE TypeInv'
  <2>1. work' \in [Procs -> Seq(Tasks)]
    <3>1. Task("store", j, stored[j]) \in Tasks
      BY <1>0 DEF Task, Tasks, TableTypes
    <3> QED BY <1>3, <3>1, BeginsTypes DEF Run
  <2>2. TableTypes' /\ CountTypes'
    BY <1>0, <1>3, <2>1 DEF Run, storeVars, TableTypes, CountTypes
  <2> QED BY <1>5, <2>2, TypesAgain
<1> QED BY <1>1, <1>2, <1>3 DEF Call

LEMMA TypeHandle ==
  ASSUME TypeInv, NEW h \in Handlers, Handle(h)
  PROVE  TypeInv'
<1> USE DEF raftVars, loopVars, cronVars
<1>0. FlagTypes /\ TableTypes /\ CountTypes
  BY TypeParts
<1>1. CASE Work(h)
  BY <1>1, TypeWork DEF Procs
<1>2. ASSUME Busy(h), TaskEnds(h)
      PROVE  /\ work' \in [Procs -> Seq(Tasks)]
             /\ found' \in [Procs -> Nat \cup {Unknown}]
  BY <1>0, <1>2, OnIsTask DEF TaskEnds, Procs, TableTypes, Unknown
<1>3. CASE WriteBack(h)
  <2>1. On(h).job \in Jobs /\ On(h).value \in Values
    BY <1>3, OnIsTask DEF WriteBack, Procs, Tasks
  <2>2. stored' \in [Jobs -> Values] /\ disturbed' \subseteq Jobs /\ writes' \in Nat
    BY <1>3, <2>1, CommitTypes DEF WriteBack
  <2>3. TableTypes' /\ CountTypes'
    BY <1>0, <1>2, <1>3, <2>2 DEF WriteBack, TableTypes, CountTypes
  <2>4. FlagTypes'
    BY <1>0, <1>3, FlagsStay DEF WriteBack, flags
  <2> QED BY <2>3, <2>4, TypesAgain
<1>4. CASE FailWriteBack(h)
  <2>1. TableTypes' /\ CountTypes'
    BY <1>0, <1>2, <1>4 DEF FailWriteBack, storeVars, TableTypes, CountTypes
  <2>2. FlagTypes'
    BY <1>0, <1>4, FlagsStay DEF FailWriteBack, flags
  <2> QED BY <2>1, <2>2, TypesAgain
<1> QED BY <1>1, <1>3, <1>4 DEF Handle

LEMMA TypeNext == TypeInv /\ [Next]_vars => TypeInv'
<1> SUFFICES ASSUME TypeInv, [Next]_vars PROVE TypeInv'
  OBVIOUS
<1> USE DEF raftVars, loopVars, cronVars, workVars, storeVars
<1>0. FlagTypes /\ TableTypes /\ CountTypes
  BY TypeParts
<1>1. CASE Elect \/ Depose
  <2>1. CountTypes' /\ TableTypes'
    BY <1>0, <1>1 DEF Elect, Depose, CountTypes, TableTypes
  <2>2. FlagTypes'
    BY <1>0, <1>1 DEF Elect, Depose, FlagTypes
  <2> QED BY <2>1, <2>2, TypesAgain
<1>2. CASE Monitor
  BY <1>2, TypeMonitor
<1>3. CASE LoopStep
  BY <1>3, TypeLoopStep
<1>4. ASSUME NEW h \in Handlers, Call(h) \/ Handle(h) PROVE TypeInv'
  BY <1>4, TypeCall, TypeHandle
<1>5. ASSUME NEW j \in Jobs, NEW v \in Values, OtherWrite(j, v) PROVE TypeInv'
  <2>1. stored' \in [Jobs -> Values] /\ disturbed' \subseteq Jobs /\ writes' \in Nat
    BY <1>5, CommitTypes DEF OtherWrite
  <2>2. TableTypes' /\ CountTypes'
    BY <1>0, <1>5, <2>1 DEF OtherWrite, TableTypes, CountTypes
  <2>3. FlagTypes'
    BY <1>0, <1>5, FlagsStay DEF OtherWrite, flags
  <2> QED BY <2>2, <2>3, TypesAgain
<1>6. CASE UNCHANGED vars
  <2>1. TableTypes' /\ CountTypes'
    BY <1>0, <1>6 DEF vars, TableTypes, CountTypes
  <2>2. FlagTypes'
    BY <1>0, <1>6, FlagsStay DEF vars, flags
  <2> QED BY <2>1, <2>2, TypesAgain
<1> QED BY <1>1, <1>2, <1>3, <1>4, <1>5, <1>6 DEF Next

\* The variables keep their types for all jobs, schedules, handlers and bounds;
\* every cron entry is that of an enabled root job (scheduler.go:137-142), and
\* there are finitely many.
THEOREM TypeCorrect == Spec => []TypeOK
<1>1. TypeInv => TypeOK
  BY DEF TypeInv
<1> QED
  BY TypeInit, TypeNext, <1>1, PTL DEF Spec

-----------------------------------------------------------------------------
(* Entries and who works on them *)

EntriesOf(j) == {e \in entries : e.job = j}

WorksOn(p, j) == Busy(p) /\ On(p).op \in EntryTasks /\ On(p).job = j

\* An ID belongs to one entry, and a process that has found an ID has found it
\* for the job it works on: Cron.Remove never hits another job's entry.  A
\* handler has one task, and the loop has tasks only while it fills the cron.
IdInv ==
  /\ \A d, e \in entries : d.id = e.id => d = e
  /\ \A p \in Procs : found[p] # Unknown => Busy(p) /\ On(p).op \in EntryTasks
  /\ \A p \in Procs : \A e \in entries :
       found[p] > None /\ e.id = found[p] => e.job = On(p).job
  /\ \A h \in Handlers : Busy(h) => Tail(work[h]) = <<>>

\* The entries of a job are what its stored value asks for.
Matches(j) ==
  /\ stored[j] \in Schedules =>
       \E e \in entries : e.value = stored[j] /\ EntriesOf(j) = {e}
  /\ stored[j] \notin Schedules => EntriesOf(j) = {}

\* The tasks of one kind on one job in a list of tasks, and in what the loop has
\* still to do.
Positions(w, op, j) == {i \in DOMAIN w : w[i].op = op /\ w[i].job = j}

Left(op, j) == Positions(work[Loop], op, j)

\* While the cron is filled: as many removals are left for a job as it has
\* entries, until it is added; all removals come before all additions, and a job
\* is added once, as it was read.
LoopInv ==
  /\ work[Loop] # <<>> => loop = "fill"
  /\ \A i \in DOMAIN work[Loop] : work[Loop][i].op \in EntryTasks
  /\ \A i, k \in DOMAIN work[Loop] :
       i < k /\ work[Loop][k].op = "remove" => work[Loop][i].op = "remove"
  /\ \A i, k \in DOMAIN work[Loop] :
       work[Loop][i].op = "add" /\ work[Loop][k].op = "add"
         /\ work[Loop][i].job = work[Loop][k].job => i = k
  /\ \A i \in DOMAIN work[Loop] :
       work[Loop][i].op = "add" => work[Loop][i].value = snap[work[Loop][i].job]

FillInv(j) ==
  /\ IF Left("add", j) # {} \/ snap[j] = NoJob
       THEN Cardinality(EntriesOf(j)) = Cardinality(Left("remove", j))
       ELSE Left("remove", j) = {} /\ Matches(j)
  /\ WorksOn(Loop, j) /\ On(Loop).op = "remove" => found[Loop] # None
  /\ WorksOn(Loop, j) /\ On(Loop).op = "add" => found[Loop] <= None
  /\ WorksOn(Loop, j) /\ found[Loop] > None => \E e \in EntriesOf(j) : e.id = found[Loop]

\* While the scheduler runs at most one handler works on the entries of a job;
\* its task is what the stored value asks for, and it leaves no other entry.
TermInvOf(j) ==
  /\ \A g, h \in Handlers : WorksOn(g, j) /\ WorksOn(h, j) => g = h
  /\ (\A h \in Handlers : ~WorksOn(h, j)) => Matches(j)
  /\ \A h \in Handlers : WorksOn(h, j) =>
       /\ \A d, e \in EntriesOf(j) : d = e
       /\ found[h] = None => EntriesOf(j) = {}
       /\ found[h] > None => \E e \in EntriesOf(j) : e.id = found[h]
       /\ IF On(h).op = "add" THEN On(h).value = stored[j] ELSE stored[j] = NoJob

FollowOf(j) ==
  /\ Filling => \A h \in Handlers : ~WorksOn(h, j)
  /\ loop \in {"start", "fill"} => snap[j] = stored[j]
  /\ loop = "fill" => FillInv(j)
  /\ started => TermInvOf(j)

FollowInv == \A j \in Jobs \ disturbed : FollowOf(j)

EntriesInv == TypeInv /\ CronInv /\ IdInv /\ LoopInv /\ FollowInv

-----------------------------------------------------------------------------
(* IDs and tasks *)

LEMMA IdInit == Init => IdInv
  BY DEF Init, IdInv, Busy, Procs, Unknown, None

\* Ends of tasks, beginnings, and nothing else, change what a process has to do.
LEMMA IdEntriesShrink ==
  ASSUME TypeInv, IdInv, entries' \subseteq entries, UNCHANGED <<work, found>>
  PROVE  IdInv'
  BY DEF IdInv, Busy, On

LEMMA IdTaskEnds ==
  ASSUME TypeInv, IdInv, NEW p \in Procs, Busy(p), TaskEnds(p),
         \A d, e \in entries' : d.id = e.id => d = e,
         \A q \in Procs : \A e \in entries' :
           found[q] > None /\ e.id = found[q] => e.job = On(q).job
  PROVE  IdInv'
<1>1. /\ \A q \in Procs \ {p} : work'[q] = work[q] /\ found'[q] = found[q]
      /\ work'[p] = Tail(work[p]) /\ found'[p] = Unknown
  BY DEF TaskEnds, TypeInv, TypeOK
<1>2. ~(Unknown > None)
  BY DEF Unknown, None
<1>3. \A q \in Procs : found'[q] # Unknown => Busy(q)' /\ On(q)'.op \in EntryTasks
  BY <1>1 DEF IdInv, Busy, On
<1>4. ASSUME NEW q \in Procs, NEW e \in entries', found'[q] > None, e.id = found'[q]
      PROVE  e.job = On(q)'.job
  <2>1. q # p
    BY <1>1, <1>2, <1>4
  <2> QED BY <1>1, <1>4, <2>1 DEF On
<1>5. ASSUME NEW h \in Handlers, Busy(h)' PROVE Tail(work'[h]) = <<>>
  <2>1. h \in Procs
    BY DEF Procs
  <2>2. CASE h = p
    BY <1>1, <1>5, <2>2 DEF IdInv, Busy
  <2>3. CASE h # p
    BY <1>1, <1>5, <2>1, <2>3 DEF IdInv, Busy
  <2> QED BY <2>2, <2>3
<1> QED BY <1>3, <1>4, <1>5 DEF IdInv

LEMMA IdWork ==
  ASSUME TypeInv, IdInv, NEW p \in Procs, Work(p)
  PROVE  IdInv'
<1>1. CASE Look(p)
  <2>1. /\ UNCHANGED <<work, entries>> /\ Busy(p) /\ On(p).op \in EntryTasks
        /\ \A q \in Procs \ {p} : found'[q] = found[q]
        /\ found'[p] > None => \E e \in entries : e.job = On(p).job /\ found'[p] = e.id
    BY <1>1 DEF Look, TypeInv, TypeOK, cronVars, None
  <2> QED BY <2>1 DEF IdInv, Busy, On
<1>2. CASE RemoveEntry(p)
  <2>1. entries' \subseteq entries /\ Busy(p)
    BY <1>2 DEF RemoveEntry
  <2>2. CASE TaskEnds(p)
    BY <2>1, <2>2, IdTaskEnds DEF IdInv
  <2>3. CASE found' = [found EXCEPT ![p] = None] /\ UNCHANGED work
    <3>1. /\ \A q \in Procs \ {p} : found'[q] = found[q]
          /\ found'[p] = None /\ ~(found'[p] > None) /\ On(p).op \in EntryTasks
      BY <1>2, <2>3 DEF TypeInv, TypeOK, None, Unknown, IdInv, RemoveEntry
    <3> QED BY <2>1, <2>3, <3>1 DEF IdInv, Busy, On
  <2> QED BY <1>2, <2>2, <2>3 DEF RemoveEntry
<1>3. CASE Insert(p)
  <2>1. Busy(p) /\ TaskEnds(p) /\ entries' = entries \cup Inserted(On(p))
    BY <1>3 DEF Insert
  <2>2. \A e \in Inserted(On(p)) : e.id = FreshId
    BY DEF Inserted
  <2>3. \A d, e \in Inserted(On(p)) : d = e
    BY DEF Inserted
  <2>4. \A d, e \in entries' : d.id = e.id => d = e
    BY <2>1, <2>2, <2>3, FreshIdFacts DEF IdInv, TypeInv
  <2>5. \A q \in Procs : \A e \in entries' :
           found[q] > None /\ e.id = found[q] => e.job = On(q).job
    BY <2>1, <2>2, FreshIdFacts DEF IdInv, TypeInv
  <2> QED BY <2>1, <2>4, <2>5, IdTaskEnds
<1> QED BY <1>1, <1>2, <1>3 DEF Work

LEMMA IdBegins ==
  ASSUME TypeInv, IdInv, NEW h \in Handlers, NEW task, Begins(h, <<task>>),
         UNCHANGED <<entries, found>>
  PROVE  IdInv'
<1>1. h \in Procs /\ found[h] = Unknown /\ work'[h] = <<task>>
      /\ \A q \in Procs \ {h} : work'[q] = work[q]
  BY DEF Begins, IdInv, Procs, TypeInv, TypeOK
<1>2. Tail(<<task>>) = <<>>
  OBVIOUS
<1>3. ~(Unknown > None)
  BY DEF Unknown, None
<1> QED BY <1>1, <1>2, <1>3 DEF IdInv, Busy, On, Procs

LEMMA IdStartScheduler ==
  ASSUME TypeInv, IdInv, LoopInv, StartScheduler
  PROVE  IdInv'
<1>1. ~Busy(Loop) /\ Loop \in Procs /\ Loop \notin Handlers /\ found[Loop] = Unknown
  BY ConstantsAssumption DEF StartScheduler, LoopInv, IdInv, Busy, Procs
<1>2. UNCHANGED <<entries, found>> /\ \A q \in Procs \ {Loop} : work'[q] = work[q]
  BY DEF StartScheduler, cronVars, TypeInv, TypeOK
<1>3. ~(Unknown > None)
  BY DEF Unknown, None
<1> QED BY <1>1, <1>2, <1>3 DEF IdInv, Busy, On, Procs

LEMMA IdHandle ==
  ASSUME TypeInv, IdInv, NEW h \in Handlers, WriteBack(h) \/ FailWriteBack(h)
  PROVE  IdInv'
  BY IdTaskEnds DEF WriteBack, FailWriteBack, cronVars, IdInv, Procs

-----------------------------------------------------------------------------
(* Counting tasks *)

LEMMA PositionsFinite ==
  ASSUME NEW w \in Seq(Tasks), NEW op, NEW j
  PROVE  /\ IsFiniteSet(Positions(w, op, j)) /\ Cardinality(Positions(w, op, j)) \in Nat
         /\ Positions(w, op, j) \subseteq 1..Len(w)
<1>1. Positions(w, op, j) \subseteq 1..Len(w) /\ Len(w) \in Nat
  BY DEF Positions
<1>2. IsFiniteSet(1..Len(w))
  BY <1>1, FS_Interval
<1> QED BY <1>1, <1>2, FS_Subset, FS_CardinalityType

\* The end of the first task takes this task off the count, and no other.
LEMMA PositionsTail ==
  ASSUME NEW w \in Seq(Tasks), w # <<>>, NEW op, NEW j
  PROVE  LET P == Positions(w, op, j)
             Q == Positions(Tail(w), op, j)
         IN /\ Q = {i \in 1..(Len(w) - 1) : i + 1 \in P}
            /\ IF Head(w).op = op /\ Head(w).job = j
                 THEN 1 \in P /\ Cardinality(P) = Cardinality(Q) + 1
                 ELSE 1 \notin P /\ Cardinality(P) = Cardinality(Q)
<1> DEFINE P == Positions(w, op, j)
           Q == Positions(Tail(w), op, j)
<1>1. /\ Len(w) \in Nat /\ Len(w) >= 1 /\ Tail(w) \in Seq(Tasks)
      /\ DOMAIN Tail(w) = 1..(Len(w) - 1) /\ DOMAIN w = 1..Len(w)
      /\ \A i \in 1..(Len(w) - 1) : Tail(w)[i] = w[i + 1]
      /\ Head(w) = w[1]
  OBVIOUS
<1>2. Q = {i \in 1..(Len(w) - 1) : i + 1 \in P}
  BY <1>1 DEF Positions
<1>3. 1 \in P <=> Head(w).op = op /\ Head(w).job = j
  BY <1>1 DEF Positions
<1>4. /\ IsFiniteSet(P) /\ IsFiniteSet(Q) /\ P \subseteq 1..Len(w)
      /\ Cardinality(P) \in Nat /\ Cardinality(Q) \in Nat
  BY <1>1, PositionsFinite
<1> HIDE DEF P, Q
<1>5. Cardinality(P \ {1}) = Cardinality(Q)
  <2>1. [i \in Q |-> i + 1] \in [Q -> P \ {1}]
    BY <1>1, <1>2
  <2>2. [i \in Q |-> i + 1] \in Injection(Q, P \ {1})
    BY <1>1, <1>2, <2>1 DEF Injection, IsInjective
  <2>3. ASSUME NEW k \in P \ {1} PROVE \E i \in Q : [n \in Q |-> n + 1][i] = k
    <3>1. k - 1 \in Q /\ (k - 1) + 1 = k
      BY <1>1, <1>2, <1>4
    <3> QED BY <3>1
  <2>4. [i \in Q |-> i + 1] \in Surjection(Q, P \ {1})
    BY <2>1, <2>3 DEF Surjection
  <2> QED BY <1>4, <2>2, <2>4, FS_Bijection DEF Bijection, ExistsBijection
<1>6. CASE 1 \in P
  <2>1. Cardinality(P \ {1}) = Cardinality(P) - 1
    BY <1>4, <1>6, FS_RemoveElement
  <2> QED BY <1>2, <1>3, <1>4, <1>5, <1>6, <2>1 DEF P, Q
<1>7. CASE 1 \notin P
  <2>1. P \ {1} = P
    BY <1>7
  <2> QED BY <1>2, <1>3, <1>5, <1>7, <2>1 DEF P, Q
<1> QED BY <1>6, <1>7

LEMMA LoopInit == Init => LoopInv
  BY DEF Init, LoopInv, Procs

LEMMA LoopIsProc == Loop \in Procs /\ Loop \notin Handlers /\ Handlers \subseteq Procs
  BY ConstantsAssumption DEF Procs

LEMMA LoopTaskEnds ==
  ASSUME TypeInv, LoopInv, Busy(Loop), TaskEnds(Loop), UNCHANGED <<snap, loop>>
  PROVE  LoopInv'
<1> DEFINE w == work[Loop]
<1>1. w \in Seq(Tasks) /\ w # <<>> /\ work'[Loop] = Tail(w)
  BY LoopIsProc DEF Busy, TaskEnds, TypeInv, TypeOK, Tasks
<1>2. /\ Len(w) \in Nat /\ Len(w) >= 1
      /\ DOMAIN Tail(w) = 1..(Len(w) - 1) /\ DOMAIN w = 1..Len(w)
      /\ \A i \in 1..(Len(w) - 1) : Tail(w)[i] = w[i + 1]
  BY <1>1
<1>3. \A i \in 1..(Len(w) - 1) : i + 1 \in 1..Len(w)
  BY <1>2
<1>4. \A i, k \in 1..(Len(w) - 1) :
        (i < k => i + 1 < k + 1) /\ (i + 1 = k + 1 => i = k)
  OBVIOUS
<1>5. /\ \A i \in 1..Len(w) : w[i].op \in EntryTasks
      /\ \A i, k \in 1..Len(w) : i < k /\ w[k].op = "remove" => w[i].op = "remove"
      /\ \A i, k \in 1..Len(w) :
           w[i].op = "add" /\ w[k].op = "add" /\ w[i].job = w[k].job => i = k
      /\ \A i \in 1..Len(w) : w[i].op = "add" => w[i].value = snap[w[i].job]
      /\ loop = "fill"
  BY <1>1, <1>2 DEF LoopInv
<1> DEFINE v == Tail(w)
<1> HIDE DEF w, v
<1>6. DOMAIN v = 1..(Len(w) - 1) /\ \A i \in DOMAIN v : v[i] = w[i + 1]
  BY <1>2 DEF v
<1>7. \A i \in DOMAIN v : v[i].op \in EntryTasks
  BY <1>3, <1>5, <1>6
<1>8. \A i, k \in DOMAIN v : i < k /\ v[k].op = "remove" => v[i].op = "remove"
  BY <1>3, <1>4, <1>5, <1>6
<1>9. \A i, k \in DOMAIN v :
        v[i].op = "add" /\ v[k].op = "add" /\ v[i].job = v[k].job => i = k
  BY <1>3, <1>4, <1>5, <1>6
<1>10. \A i \in DOMAIN v : v[i].op = "add" => v[i].value = snap[v[i].job]
  BY <1>3, <1>5, <1>6
<1> QED BY <1>1, <1>5, <1>7, <1>8, <1>9, <1>10 DEF LoopInv, v

LEMMA LoopStays ==
  ASSUME LoopInv, work'[Loop] = work[Loop],
         work[Loop] # <<>> => loop' = loop /\ UNCHANGED snap
  PROVE  LoopInv'
  BY DEF LoopInv

\* The loop alone works on its tasks.
LEMMA LoopWork ==
  ASSUME TypeInv, LoopInv, NEW p \in Procs, Work(p)
  PROVE  LoopInv'
<1>1. UNCHANGED <<snap, loop>>
  BY DEF Work, Look, RemoveEntry, Insert, loopVars
<1>2. CASE UNCHANGED work
  BY <1>1, <1>2, LoopStays
<1>3. CASE TaskEnds(p) /\ Busy(p)
  <2>1. CASE p = Loop
    BY <1>1, <1>3, <2>1, LoopTaskEnds
  <2>2. CASE p # Loop
    <3>1. work'[Loop] = work[Loop]
      BY <1>3, <2>2, LoopIsProc DEF TaskEnds, TypeInv, TypeOK
    <3> QED BY <1>1, <3>1, LoopStays
  <2> QED BY <2>1, <2>2
<1> QED BY <1>2, <1>3 DEF Work, Look, RemoveEntry, Insert

\* A set in any order is in it as a whole.
LEMMA OrdersFacts ==
  ASSUME NEW S, IsFiniteSet(S), NEW f \in Orders(S)
  PROVE  /\ Cardinality(S) \in Nat /\ f \in [1..Cardinality(S) -> S]
         /\ \A i, k \in 1..Cardinality(S) : f[i] = f[k] => i = k
         /\ \A x \in S : \E i \in 1..Cardinality(S) : f[i] = x
<1> DEFINE n == Cardinality(S)
<1>1. n \in Nat
  BY FS_CardinalityType
<1>2. f \in [1..n -> S] /\ \A i, k \in 1..n : f[i] = f[k] => i = k
  BY DEF Orders
<1>3. IsFiniteSet(1..n) /\ Cardinality(1..n) = n
  <2> HIDE DEF n
  <2> QED BY <1>1, FS_Interval
<1>4. f \in Injection(1..n, S)
  BY <1>2 DEF Injection, IsInjective
<1>5. f \in Surjection(1..n, S)
  BY <1>3, <1>4, FS_Injection
<1>6. \A x \in S : \E i \in 1..n : f[i] = x
  BY <1>5 DEF Surjection
<1> QED BY <1>1, <1>2, <1>6

\* Scheduler.Start: the loop has a removal for each entry and an addition for
\* each job, as it was read.
LEMMA StartFacts ==
  ASSUME TypeInv, IdInv, LoopInv, StartScheduler
  PROVE  LoopInv' /\ \A j \in Jobs : FillInv(j)'
<1> DEFINE J == {j \in Jobs : snap[j] # NoJob}
           n == Cardinality(entries)
           m == Cardinality(J)
<1>1. PICK clear \in Clearing, add \in Adding : work' = [work EXCEPT ![Loop] = clear \o add]
  BY DEF StartScheduler
<1>2. PICK f \in Orders(entries) :
        clear = [i \in DOMAIN f |-> Task("remove", f[i].job, NoJob)]
  BY DEF Clearing
<1>3. PICK g \in Orders(J) : add = [i \in DOMAIN g |-> Task("add", g[i], snap[g[i]])]
  BY DEF Adding
<1>4. /\ n \in Nat /\ f \in [1..n -> entries]
      /\ \A i, k \in 1..n : f[i] = f[k] => i = k
      /\ \A x \in entries : \E i \in 1..n : f[i] = x
  BY OrdersFacts DEF TypeInv
<1>5. /\ m \in Nat /\ g \in [1..m -> J]
      /\ \A i, k \in 1..m : g[i] = g[k] => i = k
      /\ \A x \in J : \E i \in 1..m : g[i] = x
  <2>1. IsFiniteSet(J)
    BY ConstantsAssumption, FS_Subset
  <2> HIDE DEF J
  <2> QED BY <2>1, OrdersFacts
<1> DEFINE w == work'[Loop]
<1>6. w = clear \o add /\ w \in Seq(Tasks)
  BY <1>1, StartTasks, LoopIsProc DEF TypeInv, TypeOK
<1> HIDE DEF n, m, J, w
<1>7. /\ Len(clear) = n /\ Len(add) = m
      /\ \A i \in 1..n : clear[i] = Task("remove", f[i].job, NoJob)
      /\ \A i \in 1..m : add[i] = Task("add", g[i], snap[g[i]])
      /\ clear \in Seq(Tasks) /\ add \in Seq(Tasks)
  <2>1. \A i \in 1..n : Task("remove", f[i].job, NoJob) \in Tasks
    BY <1>4 DEF TypeInv, TypeOK, Task, Tasks, Values
  <2>2. \A i \in 1..m : Task("add", g[i], snap[g[i]]) \in Tasks
    BY <1>5 DEF TypeInv, TypeOK, Task, Tasks, J
  <2> QED BY <1>2, <1>3, <1>4, <1>5, <2>1, <2>2
<1>8. /\ DOMAIN w = 1..(n + m)
      /\ \A i \in 1..n : w[i] = Task("remove", f[i].job, NoJob)
      /\ \A i \in (n + 1)..(n + m) : w[i] = Task("add", g[i - n], snap[g[i - n]])
  BY <1>4, <1>5, <1>6, <1>7
<1>9. /\ \A i \in 1..n : w[i].op = "remove" /\ w[i].job = f[i].job
      /\ \A i \in (n + 1)..(n + m) :
           /\ w[i].op = "add" /\ w[i].job = g[i - n] /\ w[i].value = snap[g[i - n]]
           /\ i - n \in 1..m /\ g[i - n] \in J
  <2>1. \A i \in (n + 1)..(n + m) : i - n \in 1..m
    BY <1>4, <1>5
  <2>2. \A i \in (n + 1)..(n + m) : g[i - n] \in J
    BY <1>5, <2>1
  <2>3. \A op, j, v : Task(op, j, v).op = op /\ Task(op, j, v).job = j /\ Task(op, j, v).value = v
    BY DEF Task
  <2>4. ASSUME NEW i \in (n + 1)..(n + m)
        PROVE  w[i].op = "add" /\ w[i].job = g[i - n] /\ w[i].value = snap[g[i - n]]
    BY <1>8, <2>3
  <2>5. ASSUME NEW i \in 1..n PROVE w[i].op = "remove" /\ w[i].job = f[i].job
    BY <1>8, <2>3
  <2> QED BY <2>1, <2>2, <2>4, <2>5
<1>10. \A i \in DOMAIN w : i \in 1..n \/ i \in (n + 1)..(n + m)
  BY <1>4, <1>5, <1>8
<1>11. UNCHANGED <<snap, entries, found>> /\ loop' = "fill" /\ found[Loop] = Unknown
  BY LoopIsProc DEF StartScheduler, cronVars, LoopInv, IdInv, Busy
<1>12. LoopInv'
  <2>1. \A i \in DOMAIN w : w[i].op \in EntryTasks
    BY <1>9, <1>10 DEF EntryTasks
  <2>2. ASSUME NEW i \in DOMAIN w, NEW k \in DOMAIN w, i < k, w[k].op = "remove"
        PROVE  w[i].op = "remove"
    <3>1. k \in 1..n
      BY <1>9, <1>10, <2>2
    <3>2. i \in 1..n
      BY <1>4, <1>5, <1>8, <2>2, <3>1
    <3> QED BY <1>9, <3>2
  <2>3. ASSUME NEW i \in DOMAIN w, NEW k \in DOMAIN w, w[i].op = "add", w[k].op = "add",
               w[i].job = w[k].job
        PROVE  i = k
    <3>1. i \in (n + 1)..(n + m) /\ k \in (n + 1)..(n + m)
      BY <1>9, <1>10, <2>3
    <3>2. i - n = k - n
      BY <1>5, <1>9, <2>3, <3>1
    <3> QED BY <1>4, <1>5, <3>1, <3>2
  <2>4. \A i \in DOMAIN w : w[i].op = "add" => w[i].value = snap[w[i].job]
    BY <1>9, <1>10
  <2> QED BY <1>11, <2>1, <2>2, <2>3, <2>4 DEF LoopInv, w
<1>13. ASSUME NEW j \in Jobs PROVE FillInv(j)'
  <2> DEFINE R == Positions(w, "remove", j)
  <2>1. R = {i \in 1..n : f[i].job = j}
    BY <1>4, <1>5, <1>8, <1>9, <1>10 DEF Positions
  <2>2. IsFiniteSet(R)
    BY <1>6, PositionsFinite
  <2>3. [i \in R |-> f[i]] \in Bijection(R, EntriesOf(j))
    <3> HIDE DEF R
    <3>1. [i \in R |-> f[i]] \in [R -> EntriesOf(j)]
      BY <1>4, <2>1 DEF EntriesOf
    <3>2. [i \in R |-> f[i]] \in Injection(R, EntriesOf(j))
      BY <1>4, <2>1, <3>1 DEF Injection, IsInjective
    <3>3. ASSUME NEW e \in EntriesOf(j) PROVE \E i \in R : [k \in R |-> f[k]][i] = e
      BY <1>4, <2>1 DEF EntriesOf
    <3> QED BY <3>1, <3>2, <3>3 DEF Surjection, Bijection
  <2>4. Cardinality(EntriesOf(j)) = Cardinality(R)
    <3> HIDE DEF R
    <3> QED BY <2>2, <2>3, FS_Bijection DEF ExistsBijection
  <2>5. ASSUME snap[j] # NoJob PROVE Positions(w, "add", j) # {}
    <3>1. PICK i \in 1..m : g[i] = j
      BY <1>5, <2>5 DEF J
    <3>2. i + n \in (n + 1)..(n + m) /\ (i + n) - n = i
      BY <1>4, <1>5
    <3>3. i + n \in DOMAIN w /\ w[i + n].op = "add" /\ w[i + n].job = j
      BY <1>4, <1>5, <1>8, <1>9, <3>1, <3>2
    <3> QED BY <3>3 DEF Positions
  <2>6. Left("remove", j)' = R /\ Left("add", j)' = Positions(w, "add", j)
        /\ EntriesOf(j)' = EntriesOf(j)
    BY <1>11 DEF Left, w, EntriesOf, Positions
  <2>7. found'[Loop] # None /\ found'[Loop] <= None /\ ~(found'[Loop] > None)
    BY <1>11 DEF Unknown, None
  <2> HIDE DEF R
  <2> QED BY <1>11, <2>4, <2>5, <2>6, <2>7 DEF FillInv
<1> QED BY <1>12, <1>13

\* IDs and the tasks of the loop stay in order, whatever the server does.
LEMMA ListsLoopStep ==
  ASSUME TypeInv, CronInv, IdInv, LoopInv, LoopStep
  PROVE  IdInv' /\ LoopInv'
<1>1. CASE BarrierPasses
  BY <1>1, IdEntriesShrink, LoopStays DEF BarrierPasses, cronVars, workVars, LoopInv
<1>2. CASE BarrierFails
  BY <1>2, IdEntriesShrink, LoopStays DEF BarrierFails, cronVars, workVars, LoopInv
<1>3. CASE ReadJobs
  BY <1>3, IdEntriesShrink, LoopStays DEF ReadJobs, cronVars, workVars, LoopInv
<1>4. CASE FailRead
  BY <1>4, IdEntriesShrink, LoopStays DEF FailRead, cronVars, workVars, LoopInv
<1>5. CASE StartScheduler
  BY <1>5, IdStartScheduler, StartFacts
<1>6. CASE Started
  BY <1>6, IdEntriesShrink, LoopStays DEF Started, cronVars, workVars, Busy
<1>7. CASE Transferred
  BY <1>7, IdEntriesShrink, LoopStays DEF Transferred, cronVars, workVars, LoopInv
<1>8. CASE TransferFails
  BY <1>8, IdEntriesShrink, LoopStays DEF TransferFails, cronVars, workVars, LoopInv
<1>9. CASE Interval
  BY <1>9, IdEntriesShrink, LoopStays DEF Interval, cronVars, workVars, LoopInv
<1>10. CASE EndLoop
  BY <1>10, IdEntriesShrink, LoopStays DEF EndLoop, cronVars, workVars, LoopInv
<1>11. CASE Work(Loop)
  BY <1>11, LoopIsProc, IdWork, LoopWork
<1> QED
  BY <1>1, <1>2, <1>3, <1>4, <1>5, <1>6, <1>7, <1>8, <1>9, <1>10, <1>11 DEF LoopStep

LEMMA ListsNext ==
  ASSUME TypeInv, CronInv, IdInv, LoopInv, [Next]_vars
  PROVE  IdInv' /\ LoopInv'
<1>1. CASE Elect \/ Depose \/ UNCHANGED vars
  BY <1>1, IdEntriesShrink, LoopStays DEF Elect, Depose, vars, cronVars, workVars, loopVars
<1>2. CASE Monitor
  <2>1. UNCHANGED <<entries, work, found, snap>> /\ (loop # "none" => loop' = loop)
    BY <1>2 DEF Monitor, StartLoop, Ignore, StopLoop, Joined, cronVars, workVars, loopVars,
                CronInv, CronOnlyInTerm
  <2> QED BY <2>1, IdEntriesShrink, LoopStays DEF LoopInv
<1>3. CASE LoopStep
  BY <1>3, ListsLoopStep
<1>4. ASSUME NEW h \in Handlers, Call(h) PROVE IdInv' /\ LoopInv'
  <2>1. PICK task : Begins(h, <<task>>) /\ UNCHANGED <<entries, found, snap, loop>>
    BY <1>4 DEF Call, SetJob, DeleteJob, Run, cronVars, loopVars
  <2>2. work'[Loop] = work[Loop]
    BY <2>1, LoopIsProc DEF Begins, TypeInv, TypeOK
  <2> QED BY <2>1, <2>2, IdBegins, LoopStays
<1>5. ASSUME NEW h \in Handlers, Handle(h) PROVE IdInv' /\ LoopInv'
  <2>1. CASE Work(h)
    BY <2>1, LoopIsProc, IdWork, LoopWork
  <2>2. CASE WriteBack(h) \/ FailWriteBack(h)
    <3>1. UNCHANGED <<snap, loop>> /\ work'[Loop] = work[Loop]
      BY <2>2, LoopIsProc DEF WriteBack, FailWriteBack, TaskEnds, loopVars, TypeInv, TypeOK
    <3> QED BY <2>2, <3>1, IdHandle, LoopStays
  <2> QED BY <1>5, <2>1, <2>2 DEF Handle
<1>6. ASSUME NEW j \in Jobs, NEW v \in Values, OtherWrite(j, v) PROVE IdInv' /\ LoopInv'
  BY <1>6, IdEntriesShrink, LoopStays DEF OtherWrite, cronVars, workVars, loopVars
<1> QED BY <1>1, <1>2, <1>3, <1>4, <1>5, <1>6 DEF Next

-----------------------------------------------------------------------------
(* Entries of one job *)

\* What is neither on a job nor on the loop's list leaves what is said of it.
LEMMA FollowStays ==
  ASSUME NEW j \in Jobs, FollowOf(j), EntriesOf(j)' = EntriesOf(j),
         stored'[j] = stored[j], snap'[j] = snap[j],
         loop' \in {"read", "start", "fill"} => loop' = loop, started' => started,
         work'[Loop] = work[Loop], found'[Loop] = found[Loop],
         \A h \in Handlers : WorksOn(h, j)' <=> WorksOn(h, j),
         \A h \in Handlers : WorksOn(h, j) => work'[h] = work[h] /\ found'[h] = found[h]
  PROVE  FollowOf(j)'
<1>1. Matches(j)' <=> Matches(j)
  BY DEF Matches, EntriesOf
<1>2. /\ \A op : Left(op, j)' = Left(op, j)
      /\ WorksOn(Loop, j)' <=> WorksOn(Loop, j)
      /\ On(Loop)' = On(Loop)
  BY DEF Left, WorksOn, Busy, On
<1>3. FillInv(j)' <=> FillInv(j)
  BY <1>1, <1>2 DEF FillInv
<1>4. TermInvOf(j) => TermInvOf(j)'
  <2> SUFFICES ASSUME TermInvOf(j) PROVE TermInvOf(j)'
    OBVIOUS
  <2>1. \A h \in Handlers : WorksOn(h, j) => On(h)' = On(h)
    BY DEF On
  <2> QED BY <1>1, <2>1 DEF TermInvOf
<1> QED BY <1>3, <1>4 DEF FollowOf, Filling

LEMMA WorkFacts ==
  ASSUME TypeInv, IdInv, NEW p \in Procs, Work(p)
  PROVE  /\ Busy(p) /\ On(p).op \in EntryTasks /\ On(p) \in Tasks
         /\ UNCHANGED <<loop, started, snap, stored, disturbed>>
         /\ \A q \in Procs \ {p} : work'[q] = work[q] /\ found'[q] = found[q]
         /\ \A j : j # On(p).job => EntriesOf(j)' = EntriesOf(j)
<1>1. CASE Look(p)
  BY <1>1, OnIsTask DEF Look, TypeInv, TypeOK, cronVars, loopVars, storeVars, EntriesOf
<1>2. CASE RemoveEntry(p)
  <2>1. Busy(p) /\ On(p).op \in EntryTasks
    BY <1>2 DEF RemoveEntry, IdInv, Unknown, None
  <2>2. \A j : j # On(p).job => EntriesOf(j)' = EntriesOf(j)
    BY <1>2 DEF RemoveEntry, IdInv, EntriesOf
  <2> QED BY <1>2, <2>1, <2>2, OnIsTask
          DEF RemoveEntry, TaskEnds, TypeInv, TypeOK, loopVars, storeVars
<1>3. CASE Insert(p)
  <2>1. Busy(p) /\ On(p).op \in EntryTasks
    BY <1>3 DEF Insert, IdInv, Unknown, None
  <2>2. \A e \in Inserted(On(p)) : e.job = On(p).job
    BY DEF Inserted
  <2>3. \A j : j # On(p).job => EntriesOf(j)' = EntriesOf(j)
    BY <1>3, <2>2 DEF Insert, EntriesOf
  <2> QED BY <1>3, <2>1, <2>3, OnIsTask
          DEF Insert, TaskEnds, TypeInv, TypeOK, loopVars, storeVars
<1> QED BY <1>1, <1>2, <1>3 DEF Work

\* A handler works on the entries of another job.
LEMMA FollowOthersWork ==
  ASSUME TypeInv, IdInv, NEW h \in Handlers, Work(h), NEW j \in Jobs, FollowOf(j),
         j # On(h).job
  PROVE  FollowOf(j)'
<1>1. h \in Procs /\ Loop \in Procs \ {h}
  BY LoopIsProc
<1>2. /\ UNCHANGED <<loop, started, snap, stored>>
      /\ \A q \in Procs \ {h} : work'[q] = work[q] /\ found'[q] = found[q]
      /\ EntriesOf(j)' = EntriesOf(j) /\ Tail(work[h]) = <<>>
  BY <1>1, WorkFacts DEF IdInv
<1>3. ~WorksOn(h, j) /\ ~WorksOn(h, j)'
  <2>1. work'[h] = work[h] \/ work'[h] = Tail(work[h])
    BY <1>1 DEF Work, Look, RemoveEntry, Insert, TaskEnds, TypeInv, TypeOK
  <2> QED BY <1>2, <2>1 DEF WorksOn, Busy, On
<1>4. \A g \in Handlers \ {h} : work'[g] = work[g] /\ found'[g] = found[g]
                                /\ (WorksOn(g, j)' <=> WorksOn(g, j))
  BY <1>2, LoopIsProc DEF WorksOn, Busy, On
<1>5. \A g \in Handlers : /\ WorksOn(g, j)' <=> WorksOn(g, j)
                          /\ WorksOn(g, j) => work'[g] = work[g] /\ found'[g] = found[g]
  BY <1>3, <1>4
<1>6. work'[Loop] = work[Loop] /\ found'[Loop] = found[Loop]
  BY <1>1, <1>2
<1> QED BY <1>2, <1>5, <1>6, FollowStays

\* A handler works on the entries of the job alone.
LEMMA FollowWork ==
  ASSUME TypeInv, IdInv, NEW h \in Handlers, Work(h), NEW j \in Jobs, FollowOf(j),
         j = On(h).job
  PROVE  FollowOf(j)'
<1>1. h \in Procs
  BY LoopIsProc
<1>2. /\ UNCHANGED <<loop, started, snap, stored>> /\ On(h) \in Tasks /\ WorksOn(h, j)
      /\ \A q \in Procs \ {h} : work'[q] = work[q] /\ found'[q] = found[q]
      /\ Tail(work[h]) = <<>> /\ ~Filling
  BY <1>1, WorkFacts DEF IdInv, WorksOn, FollowOf
<1> SUFFICES ASSUME started PROVE TermInvOf(j)'
  BY <1>2 DEF FollowOf, Filling
<1>3. /\ \A g \in Handlers : WorksOn(g, j) => g = h
      /\ \A d, e \in EntriesOf(j) : d = e
      /\ found[h] = None => EntriesOf(j) = {}
      /\ found[h] > None => \E e \in EntriesOf(j) : e.id = found[h]
      /\ IF On(h).op = "add" THEN On(h).value = stored[j] ELSE stored[j] = NoJob
  BY <1>2 DEF FollowOf, TermInvOf
<1>4. \A g \in Handlers \ {h} : ~WorksOn(g, j)'
  BY <1>2, <1>3, LoopIsProc DEF WorksOn, Busy, On
<1>5. NoJob \notin Schedules
  BY ConstantsAssumption
<1>6. TaskEnds(h) => ~WorksOn(h, j)'
  BY <1>1, <1>2 DEF TaskEnds, WorksOn, Busy, TypeInv, TypeOK
<1>7. CASE Look(h)
  <2>1. UNCHANGED <<work, entries>> /\ EntriesOf(j)' = EntriesOf(j) /\ On(h)' = On(h)
        /\ (WorksOn(h, j)' <=> WorksOn(h, j))
    BY <1>7 DEF Look, cronVars, EntriesOf, On, WorksOn, Busy
  <2>2. IF EntriesOf(j) = {} THEN found'[h] = None ELSE \E e \in EntriesOf(j) : found'[h] = e.id
    BY <1>1, <1>7 DEF Look, EntriesOf, TypeInv, TypeOK
  <2>3. \A e \in EntriesOf(j) : e.id \in Nat /\ e.id # None
    BY DEF EntriesOf, TypeInv, TypeOK, None
  <2>4. ~(None > None)
    BY DEF None
  <2> QED BY <1>2, <1>3, <1>4, <2>1, <2>2, <2>3, <2>4 DEF TermInvOf
<1>8. CASE RemoveEntry(h)
  <2>1. EntriesOf(j)' = {}
    BY <1>3, <1>8 DEF RemoveEntry, EntriesOf
  <2>2. CASE On(h).op = "remove"
    <3>1. TaskEnds(h) /\ stored[j] = NoJob
      BY <1>3, <1>8, <2>2 DEF RemoveEntry
    <3>2. \A g \in Handlers : ~WorksOn(g, j)'
      BY <1>4, <1>6, <3>1
    <3>3. Matches(j)'
      BY <1>2, <1>5, <2>1, <3>1 DEF Matches
    <3> QED BY <3>2, <3>3 DEF TermInvOf
  <2>3. CASE On(h).op # "remove"
    <3>1. UNCHANGED work /\ found'[h] = None /\ On(h)' = On(h) /\ (WorksOn(h, j)' <=> WorksOn(h, j))
      BY <1>1, <1>8, <2>3 DEF RemoveEntry, On, WorksOn, Busy, TypeInv, TypeOK
    <3>2. ~(None > None)
      BY DEF None
    <3> QED BY <1>2, <1>3, <1>4, <2>1, <3>1, <3>2 DEF TermInvOf
  <2> QED BY <2>2, <2>3
<1>9. CASE Insert(h)
  <2>1. /\ TaskEnds(h) /\ EntriesOf(j) = {} /\ entries' = entries \cup Inserted(On(h))
    BY <1>3, <1>9 DEF Insert
  <2>2. \A g \in Handlers : ~WorksOn(g, j)'
    BY <1>4, <1>6, <2>1
  <2>3. EntriesOf(j)' = Inserted(On(h))
    <3>1. \A e \in Inserted(On(h)) : e.job = j
      BY DEF Inserted
    <3> QED BY <2>1, <3>1 DEF EntriesOf
  <2>4. Matches(j)'
    <3>1. CASE On(h).op = "add" /\ On(h).value \in Schedules
      <4> DEFINE new == [id |-> FreshId, job |-> On(h).job, value |-> On(h).value]
      <4>1. EntriesOf(j)' = {new} /\ new.value = stored'[j] /\ stored'[j] \in Schedules
        BY <1>2, <1>3, <2>3, <3>1 DEF Inserted
      <4>2. new \in entries'
        BY <2>1, <3>1 DEF Inserted
      <4> HIDE DEF new
      <4> QED BY <4>1, <4>2 DEF Matches
    <3>2. CASE ~(On(h).op = "add" /\ On(h).value \in Schedules)
      BY <1>2, <1>3, <1>5, <2>3, <3>2 DEF Matches, Inserted
    <3> QED BY <3>1, <3>2
  <2> QED BY <2>2, <2>4 DEF TermInvOf
<1> QED BY <1>7, <1>8, <1>9 DEF Work

-----------------------------------------------------------------------------
(* The loop fills the cron *)

\* The end of a task takes it, and no other, off the loop's list.
LEMMA LeftTail ==
  ASSUME TypeInv, Busy(Loop), TaskEnds(Loop), NEW op, NEW j
  PROVE  /\ Cardinality(Left(op, j)) \in Nat /\ Cardinality(Left(op, j)') \in Nat
         /\ IF On(Loop).op = op /\ On(Loop).job = j
              THEN 1 \in Left(op, j) /\ Cardinality(Left(op, j)) = Cardinality(Left(op, j)') + 1
              ELSE /\ Cardinality(Left(op, j)) = Cardinality(Left(op, j)')
                   /\ Left(op, j) = {} <=> Left(op, j)' = {}
         /\ Left(op, j)' = {i \in 1..(Len(work[Loop]) - 1) : i + 1 \in Left(op, j)}
<1> DEFINE w == work[Loop]
           P == Positions(w, op, j)
           Q == Positions(Tail(w), op, j)
<1>1. w \in Seq(Tasks) /\ w # <<>> /\ work'[Loop] = Tail(w) /\ Tail(w) \in Seq(Tasks)
  <2>1. w \in Seq(Tasks) /\ w # <<>> /\ work'[Loop] = Tail(w)
    BY LoopIsProc DEF Busy, TaskEnds, TypeInv, TypeOK, Tasks
  <2> QED BY <2>1
<1>2. Left(op, j) = P /\ Left(op, j)' = Q /\ On(Loop) = Head(w)
  BY <1>1 DEF Left, Positions, On
<1>3. /\ Q = {i \in 1..(Len(w) - 1) : i + 1 \in P}
      /\ IF Head(w).op = op /\ Head(w).job = j
           THEN 1 \in P /\ Cardinality(P) = Cardinality(Q) + 1
           ELSE 1 \notin P /\ Cardinality(P) = Cardinality(Q)
  BY <1>1, PositionsTail
<1>4. /\ IsFiniteSet(P) /\ IsFiniteSet(Q)
      /\ Cardinality(P) \in Nat /\ Cardinality(Q) \in Nat
  BY <1>1, PositionsFinite
<1>5. /\ Cardinality(P) = 0 <=> P = {}
      /\ Cardinality(Q) = 0 <=> Q = {}
  <2> HIDE DEF P, Q
  <2> QED BY <1>4, FS_EmptySet
<1> HIDE DEF w, P, Q
<1>6. Cardinality(P) = Cardinality(Q) => (P = {} <=> Q = {})
  BY <1>5
<1>7. Left(op, j)' = {i \in 1..(Len(work[Loop]) - 1) : i + 1 \in Left(op, j)}
  BY <1>2, <1>3 DEF w
<1> QED BY <1>2, <1>3, <1>4, <1>6, <1>7

LEMMA EntriesOfFinite ==
  ASSUME TypeInv, NEW j
  PROVE  /\ IsFiniteSet(EntriesOf(j)) /\ Cardinality(EntriesOf(j)) \in Nat
         /\ Cardinality(EntriesOf(j)) = 0 <=> EntriesOf(j) = {}
<1>1. IsFiniteSet(EntriesOf(j))
  BY FS_Subset DEF EntriesOf, TypeInv
<1> HIDE DEF EntriesOf
<1> QED BY <1>1, FS_CardinalityType, FS_EmptySet

LEMMA HeadOfLoop ==
  ASSUME TypeInv, Busy(Loop)
  PROVE  /\ work[Loop] \in Seq(Tasks) /\ work[Loop] # <<>> /\ On(Loop) = work[Loop][1]
         /\ 1 \in DOMAIN work[Loop]
<1>1. work[Loop] \in Seq(Tasks) /\ work[Loop] # <<>>
  BY LoopIsProc DEF Busy, TypeInv, TypeOK, Tasks
<1> QED BY <1>1 DEF On

\* When the loop adds a job, no removal is left.
LEMMA AddsComeLast ==
  ASSUME TypeInv, LoopInv, Busy(Loop), On(Loop).op = "add", NEW j
  PROVE  Left("remove", j) = {}
<1>1. work[Loop] \in Seq(Tasks) /\ work[Loop] # <<>> /\ On(Loop) = work[Loop][1]
  BY HeadOfLoop
<1>2. 1 \in DOMAIN work[Loop] /\ \A i \in DOMAIN work[Loop] : i = 1 \/ 1 < i
  BY <1>1
<1>3. \A i \in DOMAIN work[Loop] : work[Loop][i].op # "remove"
  BY <1>1, <1>2 DEF LoopInv
<1> QED BY <1>3 DEF Left, Positions

\* The loop works on another job.
LEMMA FillOther ==
  ASSUME TypeInv, IdInv, Work(Loop), NEW j \in Jobs, FillInv(j), j # On(Loop).job
  PROVE  FillInv(j)'
<1>1. UNCHANGED <<snap, stored>> /\ EntriesOf(j)' = EntriesOf(j) /\ Busy(Loop)
  BY LoopIsProc, WorkFacts
<1>2. Matches(j)' <=> Matches(j)
  BY <1>1 DEF Matches, EntriesOf
<1>3. CASE UNCHANGED work
  <2>1. (\A op : Left(op, j)' = Left(op, j)) /\ ~WorksOn(Loop, j)'
    BY <1>3 DEF Left, WorksOn, On
  <2> QED BY <1>1, <1>2, <2>1 DEF FillInv
<1>4. CASE TaskEnds(Loop)
  <2>1. /\ Cardinality(Left("remove", j)') = Cardinality(Left("remove", j))
        /\ Left("remove", j)' = {} <=> Left("remove", j) = {}
        /\ Left("add", j)' = {} <=> Left("add", j) = {}
    BY <1>1, <1>4, LeftTail
  <2>2. found'[Loop] # None /\ found'[Loop] <= None /\ ~(found'[Loop] > None)
    BY <1>4, LoopIsProc DEF TaskEnds, TypeInv, TypeOK, Unknown, None
  <2> QED BY <1>1, <1>2, <2>1, <2>2 DEF FillInv
<1> QED BY <1>3, <1>4 DEF Work, Look, RemoveEntry, Insert

\* The loop works on the job.
LEMMA FillWork ==
  ASSUME TypeInv, IdInv, LoopInv, Work(Loop), NEW j \in Jobs, FillInv(j),
         snap[j] = stored[j], j = On(Loop).job
  PROVE  FillInv(j)'
<1> DEFINE E == EntriesOf(j)
           R == Left("remove", j)
<1>1. /\ UNCHANGED <<snap, stored>> /\ Busy(Loop) /\ On(Loop).op \in EntryTasks
      /\ On(Loop) \in Tasks /\ WorksOn(Loop, j)
  BY LoopIsProc, WorkFacts DEF WorksOn
<1>2. /\ On(Loop).op = "remove" => found[Loop] # None
      /\ On(Loop).op = "add" => found[Loop] <= None
      /\ found[Loop] > None => \E e \in E : e.id = found[Loop]
      /\ IF Left("add", j) # {} \/ snap[j] = NoJob
           THEN Cardinality(E) = Cardinality(R)
           ELSE R = {} /\ Matches(j)
  BY <1>1 DEF FillInv
<1>3. /\ IsFiniteSet(E) /\ Cardinality(E) \in Nat /\ (Cardinality(E) = 0 <=> E = {})
      /\ E' = EntriesOf(j)'
  BY EntriesOfFinite
<1>4. work[Loop] \in Seq(Tasks) /\ work[Loop] # <<>> /\ On(Loop) = work[Loop][1]
      /\ 1 \in DOMAIN work[Loop]
  BY <1>1, HeadOfLoop
<1>5. 1 \in Left(On(Loop).op, j)
  BY <1>4 DEF Left, Positions
<1>6. /\ On(Loop).op = "remove" => E # {}
      /\ On(Loop).op = "add" => E = {} /\ R = {}
  <2>1. Cardinality(R) \in Nat /\ (Cardinality(R) = 0 <=> R = {})
    <3>1. IsFiniteSet(R) /\ Cardinality(R) \in Nat
      BY <1>4, PositionsFinite DEF Left
    <3> HIDE DEF R
    <3> QED BY <3>1, FS_EmptySet
  <2>2. On(Loop).op = "add" => R = {}
    BY <1>1, AddsComeLast
  <2> HIDE DEF E, R
  <2> QED BY <1>2, <1>3, <1>5, <2>1, <2>2 DEF R
<1>7. CASE Look(Loop)
  <2>1. UNCHANGED <<work, entries>> /\ EntriesOf(j)' = E /\ On(Loop)' = On(Loop)
        /\ (\A op : Left(op, j)' = Left(op, j))
    BY <1>7 DEF Look, cronVars, EntriesOf, On, Left
  <2>2. IF E = {} THEN found'[Loop] = None ELSE \E e \in E : found'[Loop] = e.id
    BY <1>1, <1>7, LoopIsProc DEF Look, EntriesOf, TypeInv, TypeOK
  <2>3. \A e \in E : e.id \in Nat /\ e.id # None
    BY DEF EntriesOf, TypeInv, TypeOK, None
  <2>4. Matches(j)' <=> Matches(j)
    BY <1>1, <2>1 DEF Matches, EntriesOf
  <2>5. ~(None > None) /\ None <= None
    BY DEF None
  <2>6. /\ On(Loop).op = "remove" => found'[Loop] # None
        /\ On(Loop).op = "add" => found'[Loop] <= None
        /\ found'[Loop] > None => \E e \in E : e.id = found'[Loop]
    BY <1>6, <2>2, <2>3, <2>5
  <2> QED BY <1>1, <1>2, <2>1, <2>4, <2>6 DEF FillInv
<1>8. ~(On(Loop).op = "add" /\ found[Loop] > None)
  <2>1. found[Loop] \in Int
    BY LoopIsProc DEF TypeInv, TypeOK, Unknown
  <2> QED BY <1>2, <2>1 DEF None
<1>9. CASE TaskEnds(Loop) /\ (RemoveEntry(Loop) \/ Insert(Loop))
  <2>1. found'[Loop] # None /\ found'[Loop] <= None /\ ~(found'[Loop] > None)
    BY <1>9, LoopIsProc DEF TaskEnds, TypeInv, TypeOK, Unknown, None
  <2> SUFFICES IF Left("add", j)' # {} \/ snap[j] = NoJob
                 THEN Cardinality(EntriesOf(j)') = Cardinality(Left("remove", j)')
                 ELSE Left("remove", j)' = {} /\ Matches(j)'
    BY <1>1, <2>1 DEF FillInv
  <2>2. CASE RemoveEntry(Loop)
    <3>1. On(Loop).op = "remove" /\ found[Loop] > None
      BY <1>1, <1>8, <2>2 DEF RemoveEntry, EntryTasks
    <3>2. PICK e \in E : e.id = found[Loop]
      BY <1>2, <3>1
    <3>3. EntriesOf(j)' = E \ {e}
      BY <2>2, <3>2 DEF RemoveEntry, EntriesOf, IdInv
    <3>4. Cardinality(EntriesOf(j)') = Cardinality(E) - 1
      <4> HIDE DEF E
      <4> QED BY <1>3, <3>2, <3>3, FS_RemoveElement
    <3>5. /\ Cardinality(R) = Cardinality(Left("remove", j)') + 1
          /\ Cardinality(Left("remove", j)') \in Nat
          /\ Left("add", j)' = {} <=> Left("add", j) = {}
      BY <1>1, <1>9, <3>1, LeftTail
    <3>6. R # {}
      BY <1>5, <3>1
    <3> HIDE DEF E, R
    <3> QED BY <1>2, <1>3, <3>4, <3>5, <3>6
  <2>3. CASE Insert(Loop)
    <3>1. On(Loop).op = "add" /\ entries' = entries \cup Inserted(On(Loop))
      BY <1>1, <1>2, <2>3 DEF Insert, EntryTasks
    <3>2. On(Loop).value = stored[j]
      BY <1>4, <3>1 DEF LoopInv
    <3>3. EntriesOf(j)' = Inserted(On(Loop))
      <4>1. \A e \in Inserted(On(Loop)) : e.job = j
        BY DEF Inserted
      <4> QED BY <1>6, <3>1, <4>1 DEF EntriesOf
    <3>4. Left("remove", j)' = {}
      BY <1>1, <1>6, <1>9, <3>1, LeftTail
    <3>5. Left("add", j)' = {}
      <4>1. \A i \in Left("add", j) : i = 1
        BY <1>4, <3>1 DEF Left, Positions, LoopInv
      <4>2. \A i \in 1..(Len(work[Loop]) - 1) : i + 1 # 1
        BY <1>4
      <4> QED BY <1>1, <1>9, <4>1, <4>2, LeftTail
    <3>6. CASE stored[j] \in Schedules
      <4> DEFINE new == [id |-> FreshId, job |-> On(Loop).job, value |-> On(Loop).value]
      <4>1. EntriesOf(j)' = {new} /\ new.value = stored'[j]
        BY <1>1, <3>1, <3>2, <3>3, <3>6 DEF Inserted
      <4>2. new \in entries'
        BY <3>1, <3>2, <3>6 DEF Inserted
      <4>3. Matches(j)'
        <5> HIDE DEF new
        <5> QED BY <1>1, <3>6, <4>1, <4>2 DEF Matches
      <4>4. snap[j] # NoJob
        BY <3>6, ConstantsAssumption
      <4> QED BY <3>4, <3>5, <4>3, <4>4
    <3>7. CASE stored[j] \notin Schedules
      <4>1. EntriesOf(j)' = {}
        BY <3>2, <3>3, <3>7 DEF Inserted
      <4>2. Matches(j)'
        BY <1>1, <3>7, <4>1 DEF Matches
      <4> QED BY <3>4, <4>1, <4>2
    <3> QED BY <3>6, <3>7
  <2> QED BY <1>9, <2>2, <2>3
<1> QED BY <1>1, <1>7, <1>8, <1>9 DEF Work, RemoveEntry, Insert, EntryTasks

-----------------------------------------------------------------------------
(* Every step *)

LEMMA TouchedFacts == \A j : j \notin Touched <=> \A h \in Handlers : ~WorksOn(h, j)
  BY DEF Touched, WorksOn

\* The loop, the monitor and raft change no entry, store nothing, and neither
\* start the scheduler nor read the jobs.
LEMMA FollowQuiet ==
  ASSUME NEW j \in Jobs, FollowOf(j), UNCHANGED <<entries, work, found, stored, snap>>,
         loop' \in {"read", "start", "fill"} => loop' = loop, started' => started
  PROVE  FollowOf(j)'
<1>1. EntriesOf(j)' = EntriesOf(j) /\ \A h \in Handlers : WorksOn(h, j)' <=> WorksOn(h, j)
  BY DEF EntriesOf, WorksOn, Busy, On
<1> QED BY <1>1, FollowStays

LEMMA FollowLoopStep ==
  ASSUME EntriesInv, LoopStep, NEW j \in Jobs \ disturbed'
  PROVE  FollowOf(j)'
<1> USE DEF EntriesInv
<1>1. CASE BarrierPasses
  <2>1. CASE established
    <3>1. FollowOf(j)
      BY <1>1, <2>1 DEF BarrierPasses, FollowInv
    <3> QED BY <1>1, <2>1, <3>1, FollowQuiet DEF BarrierPasses, cronVars, workVars
  <2>2. CASE ~established
    <3>1. j \notin Touched /\ loop' = "read" /\ ~started'
      BY <1>1, <2>2 DEF BarrierPasses, cronVars, CronInv, CronOnlyInTerm
    <3>2. \A h \in Handlers : WorksOn(h, j)' <=> WorksOn(h, j)
      BY <1>1 DEF BarrierPasses, workVars, WorksOn, Busy, On
    <3> QED BY <3>1, <3>2, TouchedFacts DEF FollowOf
  <2> QED BY <2>1, <2>2
<1>2. CASE BarrierFails \/ FailRead \/ Transferred \/ TransferFails \/ Interval \/ EndLoop
  <2>1. /\ UNCHANGED <<entries, work, found, stored, snap, disturbed>>
        /\ loop' \notin {"read", "start", "fill"} /\ (started' => started)
    BY <1>2 DEF BarrierFails, FailRead, Transferred, TransferFails, Interval, EndLoop,
                cronVars, workVars, storeVars
  <2> QED BY <2>1, FollowQuiet DEF FollowInv
<1>3. CASE ReadJobs
  <2>1. /\ UNCHANGED <<work, stored, disturbed>> /\ ~started' /\ loop' = "start" /\ Filling
        /\ snap' = stored
    BY <1>3 DEF ReadJobs, cronVars, workVars, storeVars, CronInv, CronOnlyInTerm, Filling
  <2>2. \A h \in Handlers : ~WorksOn(h, j)'
    BY <2>1 DEF FollowInv, FollowOf, WorksOn, Busy, On
  <2> QED BY <2>1, <2>2 DEF FollowOf
<1>4. CASE StartScheduler
  <2>1. /\ UNCHANGED <<stored, disturbed, snap>> /\ ~started' /\ loop' = "fill" /\ loop = "start"
        /\ \A h \in Handlers : work'[h] = work[h]
    BY <1>4, LoopIsProc DEF StartScheduler, cronVars, storeVars, TypeInv, TypeOK
  <2>2. (\A h \in Handlers : ~WorksOn(h, j)') /\ snap'[j] = stored'[j]
    BY <2>1 DEF FollowInv, FollowOf, WorksOn, Busy, On, Filling
  <2>3. FillInv(j)'
    BY <1>4, StartFacts
  <2> QED BY <2>1, <2>2, <2>3 DEF FollowOf
<1>5. CASE Started
  <2>1. /\ UNCHANGED <<entries, work, found, stored, disturbed>> /\ loop = "fill" /\ loop' = "wait"
        /\ work[Loop] = <<>>
    BY <1>5 DEF Started, workVars, storeVars, Busy
  <2>2. (\A h \in Handlers : ~WorksOn(h, j)) /\ FillInv(j) /\ snap[j] = stored[j]
    BY <2>1 DEF FollowInv, FollowOf, Filling
  <2>3. \A op : Left(op, j) = {}
    BY <2>1 DEF Left, Positions
  <2>4. Matches(j)
    <3>1. CASE snap[j] = NoJob
      <4>1. EntriesOf(j) = {}
        BY <2>2, <2>3, <3>1, EntriesOfFinite, FS_EmptySet DEF FillInv
      <4> QED BY <2>2, <3>1, <4>1, ConstantsAssumption DEF Matches
    <3>2. CASE snap[j] # NoJob
      BY <2>2, <2>3, <3>2 DEF FillInv
    <3> QED BY <3>1, <3>2
  <2>5. Matches(j)' /\ \A h \in Handlers : ~WorksOn(h, j)'
    BY <2>1, <2>2, <2>4 DEF Matches, EntriesOf, WorksOn, Busy, On
  <2> QED BY <2>1, <2>5 DEF FollowOf, Filling, TermInvOf
<1>6. CASE Work(Loop)
  <2>1. /\ UNCHANGED <<loop, started, snap, stored, disturbed>> /\ Busy(Loop)
        /\ \A h \in Handlers : work'[h] = work[h]
    BY <1>6, LoopIsProc, WorkFacts
  <2>2. loop = "fill" /\ ~started
    BY <2>1 DEF LoopInv, Busy, CronInv, CronOnlyInTerm
  <2>3. (\A h \in Handlers : ~WorksOn(h, j)) /\ snap[j] = stored[j] /\ FillInv(j)
    BY <2>1, <2>2 DEF FollowInv, FollowOf, Filling
  <2>4. \A h \in Handlers : ~WorksOn(h, j)'
    BY <2>1, <2>3 DEF WorksOn, Busy, On
  <2>5. FillInv(j)'
    BY <1>6, <2>3, FillOther, FillWork
  <2> QED BY <2>1, <2>2, <2>3, <2>4, <2>5 DEF FollowOf
<1> QED BY <1>1, <1>2, <1>3, <1>4, <1>5, <1>6 DEF LoopStep

\* A handler begins or ends a task that is not on the job's entries.
LEMMA FollowTask ==
  ASSUME EntriesInv, NEW h \in Handlers, NEW j \in Jobs, FollowOf(j),
         UNCHANGED <<entries, loop, started, snap>>, stored'[j] = stored[j],
         \A q \in Procs \ {h} : work'[q] = work[q] /\ found'[q] = found[q],
         ~WorksOn(h, j), ~WorksOn(h, j)'
  PROVE  FollowOf(j)'
<1>1. EntriesOf(j)' = EntriesOf(j)
  BY DEF EntriesOf
<1>2. work'[Loop] = work[Loop] /\ found'[Loop] = found[Loop]
  BY LoopIsProc
<1>3. \A g \in Handlers \ {h} : /\ WorksOn(g, j)' <=> WorksOn(g, j)
                                /\ work'[g] = work[g] /\ found'[g] = found[g]
  BY LoopIsProc DEF WorksOn, Busy, On
<1>4. \A g \in Handlers : /\ WorksOn(g, j)' <=> WorksOn(g, j)
                          /\ WorksOn(g, j) => work'[g] = work[g] /\ found'[g] = found[g]
  BY <1>3
<1> QED BY <1>1, <1>2, <1>4, FollowStays

\* A handler that is free has found nothing, and begins with a task of its own.
LEMMA BeginsFacts ==
  ASSUME EntriesInv, NEW h \in Handlers, NEW task, Begins(h, <<task>>), UNCHANGED found
  PROVE  /\ \A q \in Procs \ {h} : work'[q] = work[q] /\ found'[q] = found[q]
         /\ found'[h] = Unknown /\ (\A j : ~WorksOn(h, j))
         /\ Busy(h)' /\ On(h)' = task
<1>1. h \in Procs /\ ~Busy(h) /\ work'[h] = <<task>>
  BY LoopIsProc DEF Begins, EntriesInv, TypeInv, TypeOK
<1>2. \A q \in Procs \ {h} : work'[q] = work[q]
  BY DEF Begins, EntriesInv, TypeInv, TypeOK
<1>3. found[h] = Unknown
  BY <1>1 DEF EntriesInv, IdInv
<1>4. <<task>> # <<>> /\ Head(<<task>>) = task
  OBVIOUS
<1> QED BY <1>1, <1>2, <1>3, <1>4 DEF WorksOn, Busy, On

\* The job is stored or deleted by a writer alone, who goes on to its entries.
LEMMA FollowBegins ==
  ASSUME EntriesInv, NEW h \in Handlers, NEW k \in Jobs, NEW v \in Values,
         NEW op \in EntryTasks, op = "remove" => v = NoJob,
         Begins(h, <<Task(op, k, v)>>), Commit(k, v, TRUE),
         UNCHANGED <<entries, found, loop, started, snap>>, NEW j \in Jobs \ disturbed'
  PROVE  FollowOf(j)'
<1>1. j \notin disturbed /\ FollowOf(j)
  BY DEF Commit, EntriesInv, FollowInv
<1>2. /\ \A q \in Procs \ {h} : work'[q] = work[q] /\ found'[q] = found[q]
      /\ found'[h] = Unknown /\ ~WorksOn(h, j)
      /\ Busy(h)' /\ On(h)' = Task(op, k, v)
  BY BeginsFacts
<1>3. stored' = [stored EXCEPT ![k] = v] /\ stored \in [Jobs -> Values]
  BY DEF Commit, EntriesInv, TypeInv, TypeOK
<1>4. CASE j # k
  <2>1. stored'[j] = stored[j] /\ ~WorksOn(h, j)'
    BY <1>2, <1>3, <1>4 DEF WorksOn, Task
  <2> QED BY <1>1, <1>2, <2>1, FollowTask
<1>5. CASE j = k
  <2>1. ~Filling /\ \A g \in Handlers : ~WorksOn(g, j)
    BY <1>5, TouchedFacts DEF Commit
  <2>2. ~Filling' /\ stored'[j] = v /\ EntriesOf(j)' = EntriesOf(j)
    BY <1>3, <1>5, <2>1 DEF Filling, EntriesOf
  <2>3. \A g \in Handlers \ {h} : ~WorksOn(g, j)'
    BY <1>2, <2>1, LoopIsProc DEF WorksOn, Busy, On
  <2>4. WorksOn(h, j)' /\ On(h).op' = op /\ On(h).value' = v
    BY <1>2, <1>5 DEF WorksOn, Task
  <2>5. found'[h] # None /\ ~(found'[h] > None)
    BY <1>2 DEF Unknown, None
  <2>6. started => \A d, e \in EntriesOf(j) : d = e
    BY <1>1, <2>1 DEF FollowOf, TermInvOf, Matches
  <2>7. started' => TermInvOf(j)'
    <3> SUFFICES ASSUME started' PROVE TermInvOf(j)'
      OBVIOUS
    <3>1. IF op = "add" THEN v = stored'[j] ELSE stored'[j] = NoJob
      BY <2>2 DEF EntryTasks
    <3> QED BY <2>2, <2>3, <2>4, <2>5, <2>6, <3>1 DEF TermInvOf
  <2> QED BY <2>2, <2>7 DEF FollowOf, Filling
<1> QED BY <1>4, <1>5

LEMMA FollowCall ==
  ASSUME EntriesInv, NEW h \in Handlers, Call(h), NEW j \in Jobs \ disturbed'
  PROVE  FollowOf(j)'
<1>1. ASSUME NEW k \in Jobs, NEW v \in Values, SetJob(h, k, v) PROVE FollowOf(j)'
  <2>1. /\ Begins(h, <<Task("add", k, v)>>) /\ Commit(k, v, TRUE)
        /\ UNCHANGED <<entries, found, loop, started, snap>>
    BY <1>1 DEF SetJob, cronVars, loopVars
  <2>2. "add" \in EntryTasks
    BY DEF EntryTasks
  <2> QED BY <2>1, <2>2, FollowBegins
<1>2. ASSUME NEW k \in Jobs, DeleteJob(h, k) PROVE FollowOf(j)'
  <2>1. /\ Begins(h, <<Task("remove", k, NoJob)>>) /\ Commit(k, NoJob, TRUE)
        /\ UNCHANGED <<entries, found, loop, started, snap>>
    BY <1>2 DEF DeleteJob, cronVars, loopVars
  <2>2. "remove" \in EntryTasks /\ NoJob \in Values
    BY DEF EntryTasks, Values
  <2> QED BY <2>1, <2>2, FollowBegins
<1>3. ASSUME NEW k \in Jobs, Run(h, k) PROVE FollowOf(j)'
  <2>1. /\ Begins(h, <<Task("store", k, stored[k])>>)
        /\ UNCHANGED <<entries, found, loop, started, snap, stored, disturbed>>
    BY <1>3 DEF Run, cronVars, loopVars, storeVars
  <2>2. /\ \A q \in Procs \ {h} : work'[q] = work[q] /\ found'[q] = found[q]
        /\ ~WorksOn(h, j) /\ On(h)' = Task("store", k, stored[k])
    BY <2>1, BeginsFacts
  <2>3. ~WorksOn(h, j)'
    BY <2>2 DEF WorksOn, Task, EntryTasks
  <2>4. FollowOf(j)
    BY <2>1 DEF EntriesInv, FollowInv
  <2> QED BY <2>1, <2>2, <2>3, <2>4, FollowTask
<1> QED BY <1>1, <1>2, <1>3 DEF Call

LEMMA FollowHandle ==
  ASSUME EntriesInv, NEW h \in Handlers, Handle(h), NEW j \in Jobs \ disturbed'
  PROVE  FollowOf(j)'
<1>1. CASE Work(h)
  <2>1. disturbed' = disturbed
    BY <1>1, LoopIsProc, WorkFacts DEF EntriesInv
  <2>2. FollowOf(j)
    BY <2>1 DEF EntriesInv, FollowInv
  <2> QED BY <1>1, <2>2, FollowWork, FollowOthersWork DEF EntriesInv
<1>2. CASE WriteBack(h) \/ FailWriteBack(h)
  <2>1. /\ Busy(h) /\ On(h).op = "store" /\ TaskEnds(h) /\ h \in Procs
        /\ UNCHANGED <<entries, loop, started, snap>>
    BY <1>2, LoopIsProc DEF WriteBack, FailWriteBack, loopVars, cronVars
  <2>2. \A q \in Procs \ {h} : work'[q] = work[q] /\ found'[q] = found[q]
    BY <2>1 DEF TaskEnds, EntriesInv, TypeInv, TypeOK
  <2>3. ~WorksOn(h, j) /\ ~WorksOn(h, j)'
    BY <2>1 DEF WorksOn, EntryTasks, Busy, TaskEnds, EntriesInv, IdInv, TypeInv, TypeOK
  <2>4. j \notin disturbed /\ stored'[j] = stored[j]
    <3>1. CASE FailWriteBack(h)
      BY <3>1 DEF FailWriteBack, storeVars
    <3>2. CASE WriteBack(h)
      <4>1. /\ stored' = [stored EXCEPT ![On(h).job] = On(h).value]
            /\ disturbed \subseteq disturbed'
            /\ On(h).value # stored[On(h).job] => On(h).job \in disturbed'
        BY <3>2 DEF WriteBack, Commit
      <4> QED BY <4>1 DEF EntriesInv, TypeInv, TypeOK
    <3> QED BY <1>2, <3>1, <3>2
  <2>5. FollowOf(j)
    BY <2>4 DEF EntriesInv, FollowInv
  <2> QED BY <2>1, <2>2, <2>3, <2>4, <2>5, FollowTask
<1> QED BY <1>1, <1>2 DEF Handle

LEMMA FollowNext ==
  ASSUME EntriesInv, [Next]_vars
  PROVE  FollowInv'
<1> SUFFICES ASSUME NEW j \in Jobs \ disturbed' PROVE FollowOf(j)'
  BY DEF FollowInv
<1>1. CASE Elect \/ Depose \/ Monitor \/ UNCHANGED vars
  <2>1. /\ UNCHANGED <<entries, work, found, stored, snap, disturbed, started>>
        /\ loop' # loop => loop' = "barrier"
    BY <1>1 DEF Elect, Depose, Monitor, StartLoop, Ignore, StopLoop, Joined, vars,
                cronVars, workVars, storeVars, loopVars
  <2> QED BY <2>1, FollowQuiet DEF EntriesInv, FollowInv
<1>2. CASE LoopStep
  BY <1>2, FollowLoopStep
<1>3. ASSUME NEW h \in Handlers, Call(h) \/ Handle(h) PROVE FollowOf(j)'
  BY <1>3, FollowCall, FollowHandle
<1>4. ASSUME NEW k \in Jobs, NEW v \in Values, OtherWrite(k, v) PROVE FollowOf(j)'
  <2>1. /\ UNCHANGED <<entries, work, found, snap, started, loop>>
        /\ stored' = [stored EXCEPT ![k] = v] /\ disturbed' = disturbed \cup {k}
    BY <1>4 DEF OtherWrite, Commit, cronVars, workVars, loopVars
  <2>2. stored'[j] = stored[j] /\ FollowOf(j)
    BY <2>1 DEF EntriesInv, FollowInv, TypeInv, TypeOK
  <2>3. EntriesOf(j)' = EntriesOf(j) /\ \A h \in Handlers : WorksOn(h, j)' <=> WorksOn(h, j)
    BY <2>1 DEF EntriesOf, WorksOn, Busy, On
  <2> QED BY <2>1, <2>2, <2>3, FollowStays
<1> QED BY <1>1, <1>2, <1>3, <1>4 DEF Next

LEMMA EntriesInit == Init => EntriesInv
<1> SUFFICES ASSUME Init PROVE EntriesInv
  OBVIOUS
<1>1. ~started /\ ~Filling /\ loop = "none"
  BY DEF Init, Filling
<1> QED BY <1>1, TypeInit, CronInit, IdInit, LoopInit DEF EntriesInv, FollowInv, FollowOf

LEMMA EntriesNext == EntriesInv /\ [Next]_vars => EntriesInv'
  BY TypeNext, CronNext, ListsNext, FollowNext DEF EntriesInv

\* While the scheduler runs and nobody works on the entries of a job, the job
\* has one entry with the schedule that is stored, if it is an enabled root job,
\* and none otherwise, unless its writers have overlapped since the barrier of
\* this term: Scheduler.Start after any earlier term, AddJob and RemoveJob of
\* any number of handlers on any jobs, runs that write back, and losses of
\* leadership on the way (scheduler.go:51-71, :106-192, grpc.go:85-133,
\* leader.go:105-123, :224-243).
THEOREM EntriesAreFollowed == Spec => []EntriesFollowStore
<1>1. EntriesInv => EntriesFollowStore
  <2> SUFFICES ASSUME EntriesInv, NEW j \in Jobs \ (disturbed \cup Touched), started
               PROVE  /\ {<<e.job, e.value>> : e \in EntriesOf(j)}
                            = (IF stored[j] \in Schedules THEN {<<j, stored[j]>>} ELSE {})
                      /\ Cardinality(EntriesOf(j)) <= 1
    BY DEF EntriesFollowStore, EntriesOf
  <2>1. Matches(j)
    BY TouchedFacts DEF EntriesInv, FollowInv, FollowOf, TermInvOf
  <2>2. \A e \in EntriesOf(j) : e.job = j
    BY DEF EntriesOf
  <2>3. CASE stored[j] \in Schedules
    <3>1. PICK e : e.value = stored[j] /\ EntriesOf(j) = {e}
      BY <2>1, <2>3 DEF Matches
    <3>2. Cardinality({e}) = 1
      BY FS_Singleton
    <3> HIDE DEF EntriesOf
    <3> QED BY <2>2, <2>3, <3>1, <3>2
  <2>4. CASE stored[j] \notin Schedules
    <3>1. EntriesOf(j) = {}
      BY <2>1, <2>4 DEF Matches
    <3> QED BY <2>4, <3>1, FS_EmptySet
  <2> QED BY <2>3, <2>4
<1> QED
  BY EntriesInit, EntriesNext, <1>1, PTL DEF Spec

=============================================================================
