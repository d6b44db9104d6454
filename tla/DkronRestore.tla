---------------------------- MODULE DkronRestore ----------------------------
(***************************************************************************)
(* POST /v1/restore: a list of jobs that GET /v1/jobs has exported is made *)
(* a tree (generateJobTree), whose jobs are then set, parents first        *)
(* (recursiveSetJob).                                                      *)
(*                                                                         *)
(* The list is a sequence of jobs of the store of DkronStore, which is     *)
(* also the source of their records; the jobs are set in a table given as  *)
(* an argument.  The names in the list differ.  Left out: calls of SetJob  *)
(* that fail for other reasons than the store's, and changes in between.   *)
(***************************************************************************)
EXTENDS DkronStore, Integers, SequencesExt

-----------------------------------------------------------------------------
(* generateJobTree *)

\* Wrong: the trees below the parentless jobs are not searched.
WrongInTrees(children, tops) == tops

\* The jobs in the trees of tops (findParentJobInChildJobs searches them).
InTrees(children, tops) ==
  LET reached[n \in 0..Cardinality(Jobs)] ==
        IF n = 0 THEN tops
        ELSE reached[n - 1] \cup UNION {Range(children[j]) : j \in reached[n - 1]}
  IN reached[Cardinality(Jobs)]

\* The next job of the list has no parent, or is put below its parent, which
\* is looked for in all trees but its own, or there is an error.
FindParent(t) ==
  LET child == t.tops[t.next]
      parent == jobs[child].parent
  IN IF t.error \/ parent = child THEN [t EXCEPT !.error = TRUE]
     ELSE IF parent = NoParent THEN [t EXCEPT !.next = @ + 1]
     ELSE IF parent \in InTrees(t.children, Range(t.tops) \ {child})
       THEN [t EXCEPT !.tops = RemoveAt(@, t.next),
                      !.children[parent] = Append(@, child)]
     ELSE [t EXCEPT !.error = TRUE]

GenerateJobTree(list) ==
  LET start == [tops |-> list, children |-> [j \in Jobs |-> <<>>], next |-> 1, error |-> FALSE]
      after[n \in 0..Len(list)] == IF n = 0 THEN start ELSE FindParent(after[n - 1])
  IN after[Len(list)]

-----------------------------------------------------------------------------
(* recursiveSetJob *)

\* SetJob of a record in a table of jobs; the next run is whatever comes out.
CanSet(js, j, p) == p.parent # j /\ (p.parent # NoParent => js[p.parent] # NoJob)

\* Wrong: the parent it had is forgotten.
WrongSetIn(js, j, p) ==
  Relink([js EXCEPT ![j] = Merge(p, js[j], CHOOSE n \in NextTimes : TRUE)], j, NoParent)

SetIn(js, j, p) ==
  Relink([js EXCEPT ![j] = Merge(p, js[j], CHOOSE n \in NextTimes : TRUE)], j, ParentOf(js, j))

\* One call: a job that cannot be set is skipped with its tree, else the jobs
\* below it come next.
SetNext(children, s) ==
  LET j == Head(s.todo)
      p == jobs[j]
  IN IF s.todo = <<>> THEN s
     ELSE IF ~CanSet(s.table, j, p)
       THEN [s EXCEPT !.todo = Tail(@), !.result = Append(@, [job |-> j, ok |-> FALSE])]
     ELSE [todo   |-> children[j] \o Tail(s.todo),
           result |-> Append(s.result, [job |-> j, ok |-> TRUE]),
           table  |-> SetIn(s.table, j, p)]

RecursiveSetJob(tree, js) ==
  LET start == [todo |-> tree.tops, result |-> <<>>, table |-> js]
      after[n \in 0..Cardinality(Jobs)] ==
        IF n = 0 THEN start ELSE SetNext(tree.children, after[n - 1])
  IN after[Cardinality(Jobs)]

\* restoreHandler: an error while the tree is made sets no job.
Restore(list, js) ==
  LET tree == GenerateJobTree(list)
  IN IF tree.error THEN [todo |-> <<>>, result |-> <<>>, table |-> js]
     ELSE RecursiveSetJob(tree, js)

-----------------------------------------------------------------------------
(* Properties *)

Empty == [j \in Jobs |-> NoJob]

ForEveryBackup(P(_)) ==
  \A listed \in SUBSET {j \in Jobs : Stored(j)} : \A list \in SetToSeqs(listed) : P(list)

\* By definition: no parent is missing, and none is below itself. Whichever of the listed jobs
\* are taken, one of them has no parent, or one that is listed and was not taken.
IsComplete(listed) ==
  \A taken \in SUBSET listed : taken # {} =>
    \E j \in taken : jobs[j].parent \in {NoParent} \cup (listed \ taken)

Named(d) == {c \in Jobs : d[c] > 0}

\* A list of jobs, in any order, is restored into a new cluster entirely or, if
\* a parent is missing or parents form a loop, not at all: each job once, with
\* the parent, the schedule and the results it had, and with a list that names
\* the same jobs, perhaps more often (job.go:536, agent.go:985, store.go:256).
RestoreIsAllOrNothing ==
  ForEveryBackup(LAMBDA list :
    LET listed == Range(list)
        r == Restore(list, Empty)
    IN IF IsComplete(listed)
         THEN /\ {x.job : x \in Range(r.result)} = listed
              /\ Len(r.result) = Len(list) /\ r.todo = <<>>
              /\ \A j \in Jobs \ listed : r.table[j] = NoJob
              /\ \A j \in listed :
                   /\ r.table[j] # NoJob
                   /\ r.table[j].parent = jobs[j].parent
                   /\ r.table[j].schedule = jobs[j].schedule
                   /\ r.table[j].results = jobs[j].results
                   /\ Named(r.table[j].dependents) = Named(jobs[j].dependents)
         ELSE r.table = Empty)

\* Restored into the cluster it comes from, before anything has changed there,
\* a list changes nothing: no job is listed twice, no count is doubled.
RestoreIsIdempotent ==
  ForEveryBackup(LAMBDA list : Restore(list, jobs).table = jobs)

=============================================================================
