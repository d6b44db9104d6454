---------------------------- MODULE DkronReplica ----------------------------
(***************************************************************************)
(* One server that follows the raft log, with its snapshots and restarts   *)
(* (fsm.go, Snapshot and Restore in store.go).                             *)
(*                                                                         *)
(* DkronStore's jobs, execs and stats are the store of a server that has   *)
(* applied every entry of the log once, in order, and was never restarted. *)
(* fjobs, fexecs and fstats are the store of the server this module        *)
(* follows: it applies the same log, saves its store to a snapshot while   *)
(* it goes on applying, loses its memory in a crash (BuntDB is opened with *)
(* ":memory:"), and starts again from its snapshot and the rest of the     *)
(* log.  Raft itself (an agreed log, applied in order) is assumed.         *)
(***************************************************************************)
EXTENDS DkronStore, Sequences

CONSTANTS
  Script,          \* the commands the log may hold
  MaxLog,          \* bound: length of the log
  Lagging,         \* whether a snapshot is installed over a store in use
  NoSnapshot       \* no snapshot

VARIABLES
  log,             \* the committed entries
  past,            \* past[i + 1]: the store after the first i entries
  fjobs, fexecs, fstats,
  applied,         \* how many entries the server has applied
  taking,          \* the index of the snapshot being taken, or NoSnapshot
  snapshot,        \* the server's latest snapshot on disk
  raced,           \* history: the store in use comes from a snapshot saved late
  overlaid         \* history: it comes from one loaded over a store in use

Database(js, es, ss) == [jobs |-> js, execs |-> es, stats |-> ss]

ASSUME ReplicaAssumption ==
  /\ Script \subseteq Commands
  /\ MaxLog \in Nat
  /\ Lagging \in BOOLEAN

Server == INSTANCE DkronStore WITH jobs <- fjobs, execs <- fexecs, stats <- fstats

follower == <<fjobs, fexecs, fstats>>

replicaVars == <<vars, log, past, follower, applied, taking, snapshot, raced, overlaid>>

Live == Database(fjobs, fexecs, fstats)

EmptyDatabase == Database([j \in Jobs |-> NoJob], [k \in Keys |-> NoExecution],
                          [d \in Days |-> [success |-> 0, failed |-> 0]])

ReplicaInit ==
  /\ Init
  /\ Server!Init
  /\ log = <<>>
  /\ past = <<EmptyDatabase>>
  /\ applied = 0
  /\ taking = NoSnapshot
  /\ snapshot = NoSnapshot
  /\ raced = FALSE
  /\ overlaid = FALSE

-----------------------------------------------------------------------------

\* The cluster commits an entry.
Commit ==
  /\ Len(log) < MaxLog
  /\ \E cmd \in Script :
       /\ Apply(cmd)
       /\ log' = Append(log, cmd)
       /\ past' = Append(past, Database(jobs', execs', stats'))
  /\ UNCHANGED <<follower, applied, taking, snapshot, raced, overlaid>>

\* The server applies the next entry.
ApplyNext ==
  /\ applied < Len(log)
  /\ Server!Apply(log[applied + 1])
  /\ applied' = applied + 1
  /\ UNCHANGED <<vars, log, past, taking, snapshot, raced, overlaid>>

\* Snapshot: raft notes the index; the snapshot only refers to the live store.
Snapshot ==
  /\ taking = NoSnapshot
  /\ applied > 0
  /\ taking' = applied
  /\ UNCHANGED <<vars, log, past, follower, applied, snapshot, raced, overlaid>>

\* Wrong: the statistics are those of the index, the jobs those of the save.
WrongPersist ==
  /\ taking # NoSnapshot
  /\ snapshot' = [index |-> taking,
                  database |-> [Live EXCEPT !.stats = past[taking + 1].stats],
                  raced |-> raced \/ taking # applied, overlaid |-> overlaid]
  /\ taking' = NoSnapshot
  /\ UNCHANGED <<vars, log, past, follower, applied, raced, overlaid>>

\* Persist: the store is saved as it is by then.
Persist ==
  /\ taking # NoSnapshot
  /\ snapshot' = [index |-> taking, database |-> Live,
                  raced |-> raced \/ taking # applied, overlaid |-> overlaid]
  /\ taking' = NoSnapshot
  /\ UNCHANGED <<vars, log, past, follower, applied, raced, overlaid>>

\* What is stored between the transactions of one command: a job is written, the
\* lists of its parents are not, or only that of the parent it leaves; a job is
\* deleted, and still listed; an execution is stored, and those over the limit
\* are being deleted, the oldest first.
Unfinished(cmd) ==
  LET old == ParentOf(fjobs, cmd.job)
      written == {[fjobs EXCEPT ![cmd.job] = Merge(cmd.payload, fjobs[cmd.job], n)] :
                    n \in NextTimes}
      es == Server!PutExecution(cmd.key, [finished |-> cmd.finished, success |-> FALSE])
      over == Overflow(es, JobOf[cmd.key])
  IN CASE cmd.op = "SetJob" /\ cmd.payload.parent # old ->
            {Database(js, fexecs, fstats) :
               js \in written \cup {Unlink(w, cmd.job, old) : w \in written}}
       [] cmd.op = "DeleteJob" ->
            {Database([fjobs EXCEPT ![cmd.job] = NoJob],
                      Server!WithoutExecutions(cmd.job), fstats)}
       [] cmd.op = "SetExecution" ->
            {Database(fjobs, [k \in Keys |-> IF k \in over /\ k < m THEN NoExecution ELSE es[k]],
                      fstats) : m \in Keys}
       [] OTHER -> {}

\* Persist between the transactions of one command.
PersistMidway ==
  /\ taking # NoSnapshot
  /\ applied < Len(log)
  /\ LET cmd == log[applied + 1] IN
       /\ Server!Accepts(cmd)
       /\ Server!Apply(cmd)
       /\ \E database \in Unfinished(cmd) :
            snapshot' = [index |-> taking, database |-> database,
                         raced |-> TRUE, overlaid |-> overlaid]
  /\ applied' = applied + 1
  /\ taking' = NoSnapshot
  /\ UNCHANGED <<vars, log, past, raced, overlaid>>

Holds(database) ==
  /\ fjobs' = database.jobs
  /\ fexecs' = database.execs
  /\ fstats' = database.stats

\* Wrong: the server believes it has applied what it had applied before.
WrongRestart ==
  /\ applied > 0
  /\ IF snapshot = NoSnapshot THEN Holds(EmptyDatabase) ELSE Holds(snapshot.database)
  /\ taking' = NoSnapshot
  /\ UNCHANGED <<vars, log, past, applied, snapshot, raced, overlaid>>

\* The server crashes and starts again: Restore loads the snapshot into a new,
\* empty store; the rest of the log is applied again.
Restart ==
  /\ applied > 0
  /\ IF snapshot = NoSnapshot
       THEN /\ Holds(EmptyDatabase) /\ applied' = 0
            /\ raced' = FALSE /\ overlaid' = FALSE
       ELSE /\ Holds(snapshot.database) /\ applied' = snapshot.index
            /\ raced' = snapshot.raced /\ overlaid' = snapshot.overlaid
  /\ taking' = NoSnapshot
  /\ UNCHANGED <<vars, log, past, snapshot>>

\* Load writes the entries of the snapshot and deletes nothing.
Loaded(database) ==
  [jobs  |-> [j \in Jobs |-> IF database.jobs[j] = NoJob THEN fjobs[j] ELSE database.jobs[j]],
   execs |-> [k \in Keys |-> IF database.execs[k] = NoExecution THEN fexecs[k]
                                                             ELSE database.execs[k]],
   stats |-> [d \in Days |-> IF database.stats[d] = EmptyDatabase.stats[d] THEN fstats[d]
                                                             ELSE database.stats[d]]]

\* The entries a server lacks are no longer in the leader's log: raft sends
\* the leader's snapshot, of index i and saved after n entries, and calls
\* Restore on the store in use.
InstallSnapshot ==
  /\ applied < Len(log)
  /\ Lagging \/ applied = 0
  /\ \E i \in (applied + 1)..Len(log), n \in 1..Len(log) :
       /\ i <= n
       /\ Holds(Loaded(past[n + 1]))
       /\ applied' = i
       /\ snapshot' = [index |-> i, database |-> past[n + 1],
                       raced |-> i < n, overlaid |-> FALSE]
       /\ raced' = (i < n \/ (raced /\ applied > 0))
  /\ taking' = NoSnapshot
  /\ overlaid' = (applied > 0)
  /\ UNCHANGED <<vars, log, past>>

ReplicaNext ==
  \/ Commit
  \/ ApplyNext
  \/ Snapshot
  \/ Persist
  \/ PersistMidway
  \/ Restart
  \/ InstallSnapshot

ReplicaSpec == ReplicaInit /\ [][ReplicaNext]_replicaVars

-----------------------------------------------------------------------------
(* Properties *)

\* A job but for its next run, which each server computes from its own clock
\* when it applies the job (store.go:174).
ButNext(r) == IF r = NoJob THEN NoJob ELSE [r EXCEPT !.next = 0]

SameStore(x, y) ==
  /\ \A j \in Jobs : ButNext(x.jobs[j]) = ButNext(y.jobs[j])
  /\ x.execs = y.execs
  /\ x.stats = y.stats

\* fsm.go:153-162: whatever was restored from a snapshot and applied again, a
\* server that has applied the first i entries holds what every other server
\* held after these i entries, unless its store comes from a snapshot that was
\* saved while entries were applied, or that was loaded over a store in use and
\* keeps what the others deleted meanwhile (store.go:840).  Starting again from
\* a snapshot that is neither brings it back, whatever it held before.
ReplicaAgrees == raced \/ overlaid \/ SameStore(Live, past[applied + 1])

\* For every server that has applied the whole log: it holds what the other
\* servers hold.
CaughtUpAgrees == applied = Len(log) => SameStore(Live, Database(jobs, execs, stats))

\* On a server whose store comes from a snapshot that was saved while entries
\* were applied, a result may be counted twice, and a job may lose what it has
\* counted (a deletion that the others refused may be accepted when it is
\* applied again).  But what it shows still fits together: a job's counters and
\* its last success and error times agree, and the daily statistics have seen
\* whatever the counters show, since Persist saves all of them in one
\* transaction and ExecutionDone writes them in one.  (A snapshot loaded over a
\* store in use puts the statistics of one server next to the jobs of another,
\* and only the first half is left.)
CountsFitTogether ==
  /\ Server!ResultsCoherent
  /\ ~overlaid => Server!CountersWithinStats

=============================================================================
