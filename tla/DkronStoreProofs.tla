-------------------------- MODULE DkronStoreProofs --------------------------
(***************************************************************************)
(* What is proved of DkronStore for every set of jobs, names, executions,  *)
(* payloads and bounds that satisfies ConstantsAssumption: first its       *)
(* invariants and what its steps never do, then what it keeps count of,    *)
(* the executions of a job up to its limit, the dependents a parent lists  *)
(* and the results in the counters and in the statistics of the days.      *)
(***************************************************************************)
EXTENDS DkronStore, FiniteSetTheorems, TLAPS

-----------------------------------------------------------------------------
(* Induction *)

\* A set of numbers that has zero, and with every number the next, has them all.
LEMMA AllNumbers ==
  ASSUME NEW T \in SUBSET Nat, 0 \in T, \A n \in T : n + 1 \in T
  PROVE  T = Nat
<1> SUFFICES ASSUME Nat \ T # {} PROVE FALSE
  OBVIOUS
<1>1. PICK n \in Nat \ T : \A m \in Nat \ T : <<m, n>> \notin OpToRel(<, Nat)
  BY NatLessThanWellFounded, WFMin, Nat \ T \subseteq Nat
<1>2. n - 1 \in Nat /\ n - 1 < n
  BY n # 0
<1>3. n - 1 \in T
  BY <1>1, <1>2 DEF OpToRel
<1> QED BY <1>2, <1>3

\* A set that has a subset of S as soon as it has all smaller ones has them all.
LEMMA AllSubsets ==
  ASSUME NEW S, IsFiniteSet(S), NEW T,
         \A s \in SUBSET S : (\A t \in SUBSET s : t # s => t \in T) => s \in T
  PROVE  SUBSET S \subseteq T
<1> DEFINE bad == (SUBSET S) \ T
<1>1. SUFFICES ASSUME bad # {} PROVE FALSE
  OBVIOUS
<1>2. IsWellFoundedOn(StrictSubsetOrdering(S), SUBSET S)
  BY FS_StrictSubsetOrderingWellFounded, FS_FiniteSubsetsOfFinite
<1>3. bad \subseteq SUBSET S
  OBVIOUS
<1>4. PICK s \in bad : \A t \in bad : <<t, s>> \notin StrictSubsetOrdering(S)
  <2> HIDE DEF bad
  <2> QED BY <1>1, <1>2, <1>3, WFMin
<1>5. ASSUME NEW t \in SUBSET s, t # s PROVE t \in T
  <2>1. <<t, s>> \in StrictSubsetOrdering(S)
    BY <1>5 DEF StrictSubsetOrdering
  <2> QED BY <1>4, <2>1
<1> QED BY <1>4, <1>5

-----------------------------------------------------------------------------
(* Records of jobs *)

JobTable == [Jobs -> JobRecord \cup {NoJob}]

-----------------------------------------------------------------------------
(* The operators SetJob and DeleteJob are built from *)

LEMMA LaterInTimes == \A x, y \in Times : Later(x, y) \in Times
  BY DEF Later

\* Merging results stays within the results, keeps them coherent and loses no
\* count.
LEMMA MergeResultsFacts ==
  ASSUME NEW r \in Results, NEW s \in Results
  PROVE  /\ MergeResults(r, s) \in Results
         /\ MergeResults(r, s).successCount >= s.successCount
         /\ MergeResults(r, s).errorCount >= s.errorCount
         /\ Coherent(r) /\ Coherent(s) => Coherent(MergeResults(r, s))
         /\ r.successCount = 0 => MergeResults(r, s).successCount = s.successCount
         /\ r.errorCount = 0 => MergeResults(r, s).errorCount = s.errorCount
<1> USE ConstantsAssumption DEF Results, Times
<1>1. MergeResults(r, s) \in Results
  BY DEF MergeResults, Later
<1>2. /\ MergeResults(r, s).successCount >= s.successCount
      /\ MergeResults(r, s).errorCount >= s.errorCount
  BY DEF MergeResults, Later
<1>3. Coherent(r) /\ Coherent(s) => Coherent(MergeResults(r, s))
  BY DEF MergeResults, Later, Coherent
<1>4. /\ r.successCount = 0 => MergeResults(r, s).successCount = s.successCount
      /\ r.errorCount = 0 => MergeResults(r, s).errorCount = s.errorCount
  BY DEF MergeResults, Later
<1> QED BY <1>1, <1>2, <1>3, <1>4

LEMMA PayloadInJobRecord == Payloads \subseteq JobRecord
  BY ConstantsAssumption DEF Payloads, JobRecord

\* The record SetJob writes has the payload's parent; over a stored job it
\* keeps every dependent listed and every count.
LEMMA MergeFacts ==
  ASSUME NEW p \in Payloads, NEW old \in JobRecord \cup {NoJob}, NEW n \in NextTimes
  PROVE  /\ Merge(p, old, n) \in JobRecord
         /\ Merge(p, old, n).parent = p.parent
         /\ old # NoJob =>
              /\ Merge(p, old, n).results = MergeResults(p.results, old.results)
              /\ \A c \in Jobs : old.dependents[c] > 0
                                 => Merge(p, old, n).dependents = old.dependents
              /\ Merge(p, old, n).results.successCount >= old.results.successCount
              /\ Merge(p, old, n).results.errorCount >= old.results.errorCount
              /\ Coherent(old.results) => Coherent(Merge(p, old, n).results)
              /\ p.dependents = NoDependents => Merge(p, old, n).dependents = old.dependents
              /\ p.results.successCount = 0 =>
                   Merge(p, old, n).results.successCount = old.results.successCount
              /\ p.results.errorCount = 0 =>
                   Merge(p, old, n).results.errorCount = old.results.errorCount
         /\ old = NoJob => /\ Coherent(Merge(p, old, n).results)
                           /\ Merge(p, old, n).dependents = p.dependents
                           /\ Merge(p, old, n).results = p.results
<1>1. p \in JobRecord /\ p.results \in Results /\ Coherent(p.results)
  BY PayloadInJobRecord, ConstantsAssumption DEF Payloads, JobRecord
<1>2. CASE old = NoJob
  BY <1>1, <1>2 DEF Merge, JobRecord
<1>3. CASE old # NoJob
  <2>1. old \in JobRecord /\ old.results \in Results
    BY <1>3 DEF JobRecord
  <2>2. MergeDependents(p.dependents, old.dependents) \in Dependents
    BY <1>1, <2>1 DEF MergeDependents, JobRecord
  <2>3. Later(p.next, old.next) \in NextTimes
    BY <1>1, <2>1 DEF Later, JobRecord
  <2>4. MergeResults(p.results, old.results) \in Results
    BY <1>1, <2>1, MergeResultsFacts
  <2>5. Merge(p, old, n) \in JobRecord
    BY <1>1, <1>3, <2>1, <2>2, <2>3, <2>4 DEF Merge, JobRecord
  <2>6. /\ Merge(p, old, n).parent = p.parent
        /\ Merge(p, old, n).results = MergeResults(p.results, old.results)
        /\ Merge(p, old, n).dependents = MergeDependents(p.dependents, old.dependents)
    BY <1>1, <1>3, <2>1 DEF Merge, JobRecord
  <2>7. ASSUME NEW c \in Jobs, old.dependents[c] > 0
        PROVE  Merge(p, old, n).dependents = old.dependents
    BY <2>1, <2>6, <2>7 DEF MergeDependents, NoDependents, JobRecord, Dependents
  <2>8. p.dependents = NoDependents => Merge(p, old, n).dependents = old.dependents
    BY <2>6 DEF MergeDependents
  <2> QED BY <1>1, <1>3, <2>1, <2>5, <2>6, <2>7, <2>8, MergeResultsFacts
<1> QED BY <1>2, <1>3

\* Rewriting a job's list of dependents touches nothing but that list.
SameButList(js, new, p) ==
  /\ new \in JobTable
  /\ \A x \in Jobs : (new[x] = NoJob) <=> (js[x] = NoJob)
  /\ \A x \in Jobs : js[x] # NoJob =>
       /\ new[x].parent = js[x].parent
       /\ new[x].results = js[x].results
       /\ x # p => new[x].dependents = js[x].dependents

LEMMA UnlinkFacts ==
  ASSUME NEW js \in JobTable, NEW c \in Jobs, NEW p \in Jobs \cup {NoParent}
  PROVE  /\ SameButList(js, Unlink(js, c, p), p)
         /\ \A x \in Jobs : js[x] # NoJob => \A y \in Jobs \ {c} :
              Unlink(js, c, p)[x].dependents[y] = js[x].dependents[y]
         /\ p # NoParent /\ CanRewrite(js, p) => Unlink(js, c, p)[p].dependents[c] = 0
<1>1. CASE p # NoParent /\ CanRewrite(js, p)
  <2>1. p \in Jobs /\ js[p] \in JobRecord /\ js[p].dependents \in Dependents
    BY <1>1 DEF CanRewrite, JobTable, JobRecord
  <2> DEFINE d == [js[p].dependents EXCEPT ![c] = 0]
             r == [js[p] EXCEPT !.dependents = d]
  <2>2. d \in Dependents
    BY <2>1, ConstantsAssumption DEF Dependents
  <2>3. r \in JobRecord /\ r # NoJob /\ r.parent = js[p].parent
        /\ r.results = js[p].results /\ r.dependents = d
    BY <2>1, <2>2, ConstantsAssumption DEF JobRecord
  <2>4. Unlink(js, c, p) = [js EXCEPT ![p] = r]
    BY <1>1, <2>1 DEF Unlink, JobTable
  <2>5. d[c] = 0 /\ \A y \in Jobs \ {c} : d[y] = js[p].dependents[y]
    BY <2>1 DEF Dependents
  <2> HIDE DEF d, r
  <2>6. SameButList(js, Unlink(js, c, p), p)
    BY <1>1, <2>1, <2>3, <2>4 DEF SameButList, JobTable, CanRewrite
  <2> QED BY <2>1, <2>3, <2>4, <2>5, <2>6 DEF JobTable
<1>2. CASE ~(p # NoParent /\ CanRewrite(js, p))
  BY <1>2 DEF Unlink, SameButList
<1> QED BY <1>1, <1>2

LEMMA LinkFacts ==
  ASSUME NEW js \in JobTable, NEW c \in Jobs, NEW p \in Jobs \cup {NoParent},
         p # NoParent => js[p] # NoJob /\ js[p].dependents[c] < MaxOccurrences
  PROVE  /\ SameButList(js, Link(js, c, p), p)
         /\ \A x \in Jobs : js[x] # NoJob => \A y \in Jobs \ {c} :
              Link(js, c, p)[x].dependents[y] = js[x].dependents[y]
         /\ p # NoParent /\ CanRewrite(js, p) =>
              Link(js, c, p)[p].dependents[c] = js[p].dependents[c] + 1
<1>1. CASE p # NoParent /\ CanRewrite(js, p)
  <2>1. p \in Jobs /\ js[p] \in JobRecord /\ js[p].dependents \in Dependents
    BY <1>1 DEF CanRewrite, JobTable, JobRecord
  <2> DEFINE d == [js[p].dependents EXCEPT ![c] = js[p].dependents[c] + 1]
             r == [js[p] EXCEPT !.dependents = d]
  <2>2. d \in Dependents
    <3>1. js[p].dependents[c] \in Nat /\ js[p].dependents[c] < MaxOccurrences
      BY <1>1, <2>1, ConstantsAssumption DEF Dependents
    <3> QED BY <2>1, <3>1, ConstantsAssumption DEF Dependents
  <2>3. r \in JobRecord /\ r # NoJob /\ r.parent = js[p].parent
        /\ r.results = js[p].results /\ r.dependents = d
    BY <2>1, <2>2, ConstantsAssumption DEF JobRecord
  <2>4. Link(js, c, p) = [js EXCEPT ![p] = r]
    BY <1>1, <2>1 DEF Link, JobTable, JobRecord, Dependents
  <2>5. d[c] = js[p].dependents[c] + 1 /\ \A y \in Jobs \ {c} : d[y] = js[p].dependents[y]
    BY <2>1 DEF Dependents
  <2> HIDE DEF d, r
  <2>6. SameButList(js, Link(js, c, p), p)
    BY <1>1, <2>1, <2>3, <2>4 DEF SameButList, JobTable, CanRewrite
  <2> QED BY <2>1, <2>3, <2>4, <2>5, <2>6 DEF JobTable
<1>2. CASE ~(p # NoParent /\ CanRewrite(js, p))
  BY <1>2 DEF Link, SameButList
<1> QED BY <1>1, <1>2

\* Every parent is stored: then SetJob(parent, false) never fails.
Closed(js) ==
  \A x \in Jobs : js[x] # NoJob /\ js[x].parent # NoParent => js[js[x].parent] # NoJob

\* The lists after Relink: only the entries for j change, and of those only the
\* old parent's (which goes) and the new parent's (which is added).
LEMMA RelinkFacts ==
  ASSUME NEW js \in JobTable, Closed(js),
         NEW j \in Jobs, js[j] # NoJob,
         NEW old \in Jobs \cup {NoParent}, old # NoParent => js[old] # NoJob,
         NEW q \in Jobs \cup {NoParent}, q = js[j].parent,
         q # NoParent /\ q # old => js[q].dependents[j] < MaxOccurrences
  PROVE  LET new == Relink(js, j, old) IN
         /\ new \in JobTable
         /\ \A x \in Jobs : (new[x] = NoJob) <=> (js[x] = NoJob)
         /\ \A x \in Jobs : js[x] # NoJob =>
              /\ new[x].parent = js[x].parent
              /\ new[x].results = js[x].results
              /\ \A y \in Jobs : new[x].dependents[y] =
                   IF y # j \/ q = old THEN js[x].dependents[y]
                   ELSE IF x = q THEN js[x].dependents[y] + 1
                   ELSE IF x = old THEN 0
                   ELSE js[x].dependents[y]
<1> DEFINE mid == Unlink(js, j, old)
           new == Relink(js, j, old)
<1>1. CASE q = old
  BY <1>1 DEF Relink
<1>2. CASE q # old
  <2>1. old # NoParent => CanRewrite(js, old)
    BY DEF Closed, CanRewrite
  <2>2. new = Link(mid, j, q)
    BY <1>2, <2>1 DEF Relink
  <2>3. /\ SameButList(js, mid, old)
        /\ \A x \in Jobs : js[x] # NoJob => \A y \in Jobs \ {j} :
              mid[x].dependents[y] = js[x].dependents[y]
        /\ old # NoParent => mid[old].dependents[j] = 0
    BY <2>1, UnlinkFacts
  <2> HIDE DEF mid, new
  <2>4. q # NoParent =>
          /\ q \in Jobs /\ js[q] # NoJob /\ mid[q] # NoJob
          /\ mid[q].dependents[j] = js[q].dependents[j]
          /\ CanRewrite(mid, q)
    BY <1>2, <2>3 DEF SameButList, Closed, CanRewrite, JobTable, JobRecord
  <2>5. mid \in JobTable
    BY <2>3 DEF SameButList
  <2>6. /\ SameButList(mid, new, q)
        /\ \A x \in Jobs : mid[x] # NoJob => \A y \in Jobs \ {j} :
              new[x].dependents[y] = mid[x].dependents[y]
        /\ q # NoParent => new[q].dependents[j] = mid[q].dependents[j] + 1
    BY <1>2, <2>2, <2>4, <2>5, LinkFacts
  <2>7. ASSUME NEW x \in Jobs, js[x] # NoJob, NEW y \in Jobs
        PROVE  new[x].dependents[y] =
                   IF y # j THEN js[x].dependents[y]
                   ELSE IF x = q THEN js[x].dependents[y] + 1
                   ELSE IF x = old THEN 0
                   ELSE js[x].dependents[y]
    <3>1. CASE y # j
      BY <2>3, <2>6, <2>7, <3>1 DEF SameButList
    <3>2. CASE y = j /\ x = q
      BY <2>4, <2>6, <3>2, ConstantsAssumption
    <3>3. CASE y = j /\ x # q
      BY <2>3, <2>6, <2>7, <3>3, ConstantsAssumption DEF SameButList
    <3> QED BY <3>1, <3>2, <3>3
  <2>8. /\ new \in JobTable
        /\ \A x \in Jobs : (new[x] = NoJob) <=> (js[x] = NoJob)
        /\ \A x \in Jobs : js[x] # NoJob =>
             new[x].parent = js[x].parent /\ new[x].results = js[x].results
    BY <2>3, <2>6 DEF SameButList
  <2> QED BY <1>2, <2>7, <2>8 DEF new
<1> QED BY <1>1, <1>2

-----------------------------------------------------------------------------
(* The inductive invariant *)

\* Payloads leave the lists of dependent jobs to the store.
PayloadsListNone == PayloadDependents \subseteq {NoDependents}

\* Payloads carry no counts of their own.
PayloadsCountNone == \A r \in PayloadResults : r.successCount = 0 /\ r.errorCount = 0

\* A job's counters, which are zero while it is not stored.
SuccessesOf(js, j) == IF js[j] = NoJob THEN 0 ELSE js[j].results.successCount
ErrorsOf(js, j) == IF js[j] = NoJob THEN 0 ELSE js[j].results.errorCount

\* ParentKnowsChild alone is inductive only with the types, which bound the
\* lists; it is what makes every nested SetJob(parent, false) succeed.
IInv == TypeOK /\ ParentKnowsChild /\ ResultsCoherent

LEMMA InitIInv == Init => IInv
<1> SUFFICES ASSUME Init PROVE IInv
  OBVIOUS
<1>1. TypeOK
  BY ConstantsAssumption DEF Init, TypeOK, DayStat
<1>2. ParentKnowsChild /\ ResultsCoherent
  BY DEF Init, ParentKnowsChild, ResultsCoherent, Stored
<1> QED BY <1>1, <1>2 DEF IInv

LEMMA PutExecutionType ==
  ASSUME TypeOK, NEW k \in Keys, NEW e \in ExecutionRecord
  PROVE  /\ PutExecution(k, e) \in [Keys -> ExecutionRecord \cup {NoExecution}]
         /\ \A m \in Keys : execs[m] # NoExecution /\ PutExecution(k, e)[m] # execs[m] =>
              m = k /\ PutExecution(k, e)[m] = e /\ execs[m].finished <= e.finished
  BY ConstantsAssumption DEF TypeOK, PutExecution, Outdated, ExecutionRecord, Times

LEMMA WithoutExecutionsType ==
  ASSUME TypeOK, NEW j \in Jobs
  PROVE  /\ WithoutExecutions(j) \in [Keys -> ExecutionRecord \cup {NoExecution}]
         /\ StoredKeys(WithoutExecutions(j), j) = {}
  BY ConstantsAssumption DEF TypeOK, WithoutExecutions, StoredKeys

\* What a SetJob step does to the table of jobs.
LEMMA SetJobFacts ==
  ASSUME IInv, NEW j \in Jobs, NEW p \in Payloads, SetJob(j, p)
  PROVE  /\ TypeOK' /\ ParentKnowsChild' /\ ResultsCoherent'
         /\ \A x \in Jobs : Stored(x) /\ Stored(x)' =>
              /\ jobs'[x].results.successCount >= jobs[x].results.successCount
              /\ jobs'[x].results.errorCount >= jobs[x].results.errorCount
         /\ execs' = execs
         /\ PayloadsListNone /\ ListsAreExact => ListsAreExact'
         /\ Stored(j)' /\ \A x \in Jobs : x # j => (Stored(x)' <=> Stored(x))
         /\ jobs'[j].results = IF Stored(j) THEN MergeResults(p.results, jobs[j].results)
                               ELSE p.results
         /\ \A x \in Jobs : x # j /\ Stored(x) => jobs'[x].results = jobs[x].results
         /\ PayloadsCountNone => \A x \in Jobs :
              /\ SuccessesOf(jobs', x) = SuccessesOf(jobs, x)
              /\ ErrorsOf(jobs', x) = ErrorsOf(jobs, x)
<1>1. jobs \in JobTable /\ p \in JobRecord /\ p.parent \in Jobs \cup {NoParent}
  BY PayloadInJobRecord DEF IInv, TypeOK, JobTable, JobRecord
<1>2. PICK n \in NextTimes :
        jobs' = Relink([jobs EXCEPT ![j] = Merge(p, jobs[j], n)], j, ParentOf(jobs, j))
  BY DEF SetJob
<1> DEFINE m == Merge(p, jobs[j], n)
           js == [jobs EXCEPT ![j] = m]
           old == ParentOf(jobs, j)
           q == p.parent
<1>3. /\ m \in JobRecord /\ m # NoJob /\ m.parent = q
      /\ Stored(j) =>
           /\ m.results = MergeResults(p.results, jobs[j].results)
           /\ \A c \in Jobs : jobs[j].dependents[c] > 0
                              => m.dependents = jobs[j].dependents
           /\ m.results.successCount >= jobs[j].results.successCount
           /\ m.results.errorCount >= jobs[j].results.errorCount
           /\ Coherent(jobs[j].results) => Coherent(m.results)
           /\ p.dependents = NoDependents => m.dependents = jobs[j].dependents
           /\ p.results.successCount = 0 =>
                m.results.successCount = jobs[j].results.successCount
           /\ p.results.errorCount = 0 => m.results.errorCount = jobs[j].results.errorCount
      /\ ~Stored(j) => /\ Coherent(m.results) /\ m.dependents = p.dependents
                       /\ m.results = p.results
  BY <1>1, MergeFacts, ConstantsAssumption DEF JobTable, Stored
<1> HIDE DEF m
<1>4. /\ js \in JobTable /\ js[j] = m
      /\ \A x \in Jobs \ {j} : js[x] = jobs[x]
  BY <1>1, <1>3 DEF JobTable
<1>5. /\ q # j
      /\ q # NoParent => q \in Jobs /\ jobs[q] # NoJob
      /\ q # NoParent /\ q # old => jobs[q].dependents[j] < MaxOccurrences
  BY <1>1 DEF SetJob, Stored, WithinOccurrences
<1>6. /\ old \in Jobs \cup {NoParent}
      /\ old # NoParent => /\ Stored(j) /\ jobs[j].parent = old
                           /\ jobs[old] # NoJob /\ jobs[old].dependents[j] > 0
  BY <1>1 DEF ParentOf, JobTable, JobRecord, IInv, ParentKnowsChild, Stored
<1>0. old = ParentOf(jobs, j)
  OBVIOUS
<1> HIDE DEF js, old, q
<1>7. Closed(js)
  BY <1>1, <1>3, <1>4, <1>5 DEF Closed, IInv, ParentKnowsChild, Stored, JobTable, JobRecord
<1>8. LET new == Relink(js, j, old) IN
         /\ new \in JobTable
         /\ \A x \in Jobs : (new[x] = NoJob) <=> (js[x] = NoJob)
         /\ \A x \in Jobs : js[x] # NoJob =>
              /\ new[x].parent = js[x].parent
              /\ new[x].results = js[x].results
              /\ \A y \in Jobs : new[x].dependents[y] =
                   IF y # j \/ q = old THEN js[x].dependents[y]
                   ELSE IF x = q THEN js[x].dependents[y] + 1
                   ELSE IF x = old THEN 0
                   ELSE js[x].dependents[y]
  <2>1. q \in Jobs \cup {NoParent} /\ q = js[j].parent /\ js[j] # NoJob
    BY <1>1, <1>3, <1>4 DEF q
  <2>2. q # NoParent /\ q # old => js[q].dependents[j] < MaxOccurrences
    BY <1>4, <1>5
  <2>3. old # NoParent => js[old] # NoJob
    BY <1>3, <1>4, <1>6
  <2> QED BY ONLY <1>4, <1>6, <1>7, <2>1, <2>2, <2>3, j \in Jobs, RelinkFacts
<1>9. jobs' = Relink(js, j, old)
  BY <1>2 DEF js, old, m
<1>10. /\ jobs' \in JobTable
       /\ \A x \in Jobs : (jobs'[x] = NoJob) <=> (js[x] = NoJob)
       /\ \A x \in Jobs : js[x] # NoJob =>
            /\ jobs'[x].parent = js[x].parent
            /\ jobs'[x].results = js[x].results
            /\ \A y \in Jobs : jobs'[x].dependents[y] =
                 IF y # j \/ q = old THEN js[x].dependents[y]
                 ELSE IF x = q THEN js[x].dependents[y] + 1
                 ELSE IF x = old THEN 0
                 ELSE js[x].dependents[y]
  BY <1>8, <1>9
<1>11. execs' = execs /\ stats' = stats
  BY DEF SetJob
<1>12. TypeOK'
  BY <1>10, <1>11 DEF IInv, TypeOK, JobTable
<1>13. ResultsCoherent'
  BY <1>3, <1>4, <1>10 DEF IInv, ResultsCoherent, Stored
<1>14. ASSUME NEW c \in Jobs, jobs'[c] # NoJob, jobs'[c].parent # NoParent
       PROVE  /\ jobs'[jobs'[c].parent] # NoJob
              /\ jobs'[jobs'[c].parent].dependents[c] > 0
  <2> DEFINE P == js[c].parent
  <2>1. js[c] # NoJob /\ jobs'[c].parent = P /\ P \in Jobs /\ js[P] # NoJob
    BY <1>4, <1>7, <1>10, <1>14 DEF Closed, JobTable, JobRecord
  <2>2. jobs'[P] # NoJob
    BY <1>10, <2>1
  <2>3. CASE c = j
    <3>1. P = q /\ P # j /\ js[P] = jobs[P] /\ jobs[P] \in JobRecord
      BY <1>1, <1>3, <1>4, <1>5, <2>1, <2>3 DEF JobTable
    <3>2. jobs[P].dependents[j] \in Nat
      BY <2>1, <3>1, ConstantsAssumption DEF JobRecord, Dependents
    <3>3. CASE q = old
      BY <1>6, <1>10, <1>14, <2>1, <2>3, <3>1, <3>3
    <3>4. CASE q # old
      BY <1>10, <2>1, <2>3, <3>1, <3>2, <3>4
    <3> QED BY <3>3, <3>4, <2>1, <2>2
  <2>4. CASE c # j
    <3>1. jobs[c] # NoJob /\ jobs[c].parent = P /\ P # NoParent
      BY <1>4, <1>14, <2>1, <2>4, ConstantsAssumption
    <3>2. jobs[P] # NoJob /\ jobs[P].dependents[c] > 0
      BY <3>1 DEF IInv, ParentKnowsChild, Stored
    <3>3. js[P].dependents[c] > 0
      BY <1>3, <1>4, <2>1, <3>2 DEF Stored
    <3> QED BY <1>10, <2>1, <2>2, <2>4, <3>3
  <2> QED BY <2>3, <2>4
<1>15. ParentKnowsChild'
  BY <1>14 DEF ParentKnowsChild, Stored
<1>16. ASSUME NEW x \in Jobs, Stored(x), Stored(x)'
       PROVE  /\ jobs'[x].results.successCount >= jobs[x].results.successCount
              /\ jobs'[x].results.errorCount >= jobs[x].results.errorCount
  <2>1. jobs[x].results \in Results
    BY <1>1, <1>16 DEF JobTable, JobRecord, Stored
  <2> QED BY <1>3, <1>4, <1>10, <1>16, <2>1, ConstantsAssumption DEF Stored, Results
<1>17. ASSUME PayloadsListNone, ListsAreExact PROVE ListsAreExact'
  <2>1. p.dependents = NoDependents
    BY <1>17 DEF PayloadsListNone, Payloads
  <2>2. ASSUME NEW x \in Jobs, NEW y \in Jobs, js[x] # NoJob
        PROVE  js[x].dependents[y] = IF ParentOf(jobs, y) = x THEN 1 ELSE 0
    <3>1. CASE Stored(x)
      BY <1>3, <1>4, <1>17, <2>1, <3>1 DEF ListsAreExact
    <3>2. CASE ~Stored(x)
      <4>1. x = j /\ js[x].dependents = NoDependents
        BY <1>3, <1>4, <2>1, <2>2, <3>2 DEF Stored
      <4>2. ParentOf(jobs, y) # x
        BY <3>2, ConstantsAssumption DEF ParentOf, IInv, ParentKnowsChild, Stored
      <4> QED BY <4>1, <4>2 DEF NoDependents
    <3> QED BY <3>1, <3>2
  <2>3. \A y \in Jobs : ParentOf(jobs', y) = IF y = j THEN q ELSE ParentOf(jobs, y)
    BY <1>3, <1>4, <1>10 DEF ParentOf
  <2>4. ASSUME NEW x \in Jobs, NEW y \in Jobs, jobs'[x] # NoJob
        PROVE  jobs'[x].dependents[y] = IF ParentOf(jobs', y) = x THEN 1 ELSE 0
    <3>1. js[x] # NoJob
      BY <1>10, <2>4
    <3>2. js[x].dependents[y] = IF ParentOf(jobs, y) = x THEN 1 ELSE 0
      BY <2>2, <3>1
    <3>3. jobs'[x].dependents[y] =
            IF y # j \/ q = old THEN js[x].dependents[y]
            ELSE IF x = q THEN js[x].dependents[y] + 1
            ELSE IF x = old THEN 0
            ELSE js[x].dependents[y]
      BY <1>10, <3>1
    <3>4. CASE y # j
      BY <2>3, <3>2, <3>3, <3>4
    <3>5. CASE y = j
      BY <1>0, <2>3, <3>2, <3>3, <3>5
    <3> QED BY <3>4, <3>5
  <2> QED BY <2>4 DEF ListsAreExact, Stored
<1>18. /\ Stored(j)' /\ \A x \in Jobs : x # j => (Stored(x)' <=> Stored(x))
       /\ jobs'[j].results = IF Stored(j) THEN MergeResults(p.results, jobs[j].results)
                             ELSE p.results
       /\ \A x \in Jobs : x # j /\ Stored(x) => jobs'[x].results = jobs[x].results
  BY <1>3, <1>4, <1>10 DEF Stored
<1>19. ASSUME PayloadsCountNone, NEW x \in Jobs
       PROVE  /\ SuccessesOf(jobs', x) = SuccessesOf(jobs, x)
              /\ ErrorsOf(jobs', x) = ErrorsOf(jobs, x)
  <2>1. p.results.successCount = 0 /\ p.results.errorCount = 0
    BY <1>19 DEF PayloadsCountNone, Payloads
  <2>2. CASE x = j
    <3>1. jobs'[j] # NoJob /\ jobs'[j].results = m.results
      BY <1>3, <1>4, <1>10
    <3> QED BY <1>3, <2>1, <2>2, <3>1 DEF SuccessesOf, ErrorsOf, Stored
  <2>3. CASE x # j
    BY <1>4, <1>10, <2>3 DEF SuccessesOf, ErrorsOf
  <2> QED BY <2>2, <2>3
<1> QED BY <1>11, <1>12, <1>13, <1>15, <1>16, <1>17, <1>18, <1>19

\* What a DeleteJob step does: the job had no children, only its parent's list
\* changes among the jobs that stay.
LEMMA DeleteJobFacts ==
  ASSUME IInv, NEW j \in Jobs, DeleteJob(j)
  PROVE  /\ TypeOK' /\ ParentKnowsChild' /\ ResultsCoherent'
         /\ \A x \in Jobs : Stored(x)' =>
              Stored(x) /\ x # j /\ jobs'[x].results = jobs[x].results
         /\ \A x \in Jobs : x # j /\ Stored(x) => Stored(x)'
         /\ ListsAreExact => ListsAreExact'
<1> DEFINE js == [jobs EXCEPT ![j] = NoJob]
           q == jobs[j].parent
<1>1. /\ jobs \in JobTable /\ jobs[j] \in JobRecord /\ jobs[j] # NoJob
      /\ q \in Jobs \cup {NoParent}
      /\ \A c \in Jobs : jobs[j].dependents[c] = 0
  BY DEF DeleteJob, Stored, IInv, TypeOK, JobTable, JobRecord, NoDependents
<1>2. /\ js \in JobTable /\ js[j] = NoJob
      /\ \A x \in Jobs \ {j} : js[x] = jobs[x]
  BY <1>1 DEF JobTable
<1>3. jobs' = Unlink(js, j, q)
  BY DEF DeleteJob
<1>0. q = jobs[j].parent
  OBVIOUS
<1> HIDE DEF js, q
<1>4. /\ SameButList(js, jobs', q)
      /\ \A x \in Jobs : js[x] # NoJob => \A y \in Jobs \ {j} :
           jobs'[x].dependents[y] = js[x].dependents[y]
      /\ q # NoParent /\ CanRewrite(js, q) => jobs'[q].dependents[j] = 0
  BY <1>1, <1>2, <1>3, UnlinkFacts
<1>5. \A x \in Jobs : Stored(x)' =>
        Stored(x) /\ x # j /\ jobs'[x].results = jobs[x].results /\ jobs'[x].parent = jobs[x].parent
        /\ js[x] = jobs[x]
  BY <1>2, <1>4 DEF SameButList, Stored
<1>6. TypeOK'
  BY <1>4, WithoutExecutionsType DEF SameButList, JobTable, IInv, TypeOK, DeleteJob
<1>7. ResultsCoherent'
  BY <1>5 DEF IInv, ResultsCoherent
<1>8. ASSUME NEW c \in Jobs, jobs'[c] # NoJob, jobs'[c].parent # NoParent
      PROVE  /\ jobs'[jobs'[c].parent] # NoJob
             /\ jobs'[jobs'[c].parent].dependents[c] > 0
  <2> DEFINE P == jobs[c].parent
  <2>1. Stored(c) /\ c # j /\ jobs'[c].parent = P /\ P # NoParent
    BY <1>5, <1>8 DEF Stored
  <2>2. P \in Jobs /\ Stored(P) /\ jobs[P].dependents[c] > 0
    BY <2>1, <1>1 DEF IInv, ParentKnowsChild, Stored, JobTable, JobRecord
  <2>3. P # j
    BY <1>1, <2>2
  <2>4. jobs'[P] # NoJob /\ jobs'[P].dependents[c] = jobs[P].dependents[c]
    BY <1>2, <1>4, <2>1, <2>2, <2>3 DEF SameButList, Stored
  <2> QED BY <2>1, <2>2, <2>4
<1>9. ParentKnowsChild'
  BY <1>8 DEF ParentKnowsChild, Stored
<1>10. ASSUME ListsAreExact, NEW x \in Jobs, NEW y \in Jobs, jobs'[x] # NoJob
       PROVE  jobs'[x].dependents[y] = IF ParentOf(jobs', y) = x THEN 1 ELSE 0
  <2>1. /\ Stored(x) /\ x # j /\ js[x] = jobs[x]
        /\ jobs[x].dependents[y] = IF ParentOf(jobs, y) = x THEN 1 ELSE 0
    BY <1>5, <1>10 DEF ListsAreExact, Stored
  <2>2. CASE y # j
    <3>1. ParentOf(jobs', y) = ParentOf(jobs, y)
      BY <1>2, <1>4, <2>2 DEF ParentOf, SameButList
    <3> QED BY <1>4, <1>10, <2>1, <2>2, <3>1, ConstantsAssumption DEF Stored
  <2>3. CASE y = j
    <3>1. ParentOf(jobs', j) # x
      BY <1>2, <1>4, ConstantsAssumption DEF ParentOf, SameButList
    <3>2. CASE x # q
      BY <1>0, <1>1, <1>4, <2>1, <2>3, <3>1, <3>2 DEF SameButList, ParentOf, Stored
    <3>3. CASE x = q
      <4>1. q # NoParent /\ js[q] # NoJob
        BY <2>1, <3>3, ConstantsAssumption DEF Stored
      <4>2. ASSUME jobs[q].parent # NoParent
            PROVE  js[jobs[q].parent] # NoJob
        <5> DEFINE P == jobs[q].parent
        <5>1. Stored(P) /\ jobs[P].dependents[q] > 0 /\ P \in Jobs
          BY <1>1, <2>1, <3>3, <4>2 DEF IInv, ParentKnowsChild, Stored, JobTable, JobRecord
        <5>2. P # j
          BY <1>1, <3>3, <5>1
        <5> QED BY <1>2, <5>1, <5>2 DEF Stored
      <4>3. CanRewrite(js, q)
        BY <2>1, <3>3, <4>1, <4>2 DEF CanRewrite
      <4> QED BY <1>4, <2>3, <3>1, <3>3, <4>1, <4>3
    <3> QED BY <3>2, <3>3
  <2> QED BY <2>2, <2>3
<1>11. \A x \in Jobs : x # j /\ Stored(x) => Stored(x)'
  BY <1>2, <1>4 DEF SameButList, Stored
<1> QED BY <1>5, <1>6, <1>7, <1>9, <1>10, <1>11 DEF ListsAreExact, Stored

\* Steps that leave every job's parent and list alone keep ParentKnowsChild.
LEMMA ListsUntouched ==
  ASSUME ParentKnowsChild, jobs \in JobTable,
         \A x \in Jobs : (jobs'[x] = NoJob) <=> (jobs[x] = NoJob),
         \A x \in Jobs : Stored(x) => /\ jobs'[x].parent = jobs[x].parent
                                     /\ jobs'[x].dependents = jobs[x].dependents
  PROVE  ParentKnowsChild'
  BY DEF ParentKnowsChild, Stored, JobTable, JobRecord

\* What writing the results of one stored job does to the table of jobs.
LEMMA WriteResultsFacts ==
  ASSUME IInv, NEW j \in Jobs, Stored(j), NEW r \in Results, Coherent(r),
         jobs' = [jobs EXCEPT ![j].results = r]
  PROVE  /\ jobs' \in JobTable /\ ParentKnowsChild' /\ ResultsCoherent'
         /\ \A x \in Jobs : Stored(x)' <=> Stored(x)
         /\ \A x \in Jobs : Stored(x) =>
              /\ jobs'[x].dependents = jobs[x].dependents
              /\ jobs'[x].parent = jobs[x].parent
         /\ jobs'[j].results = r
         /\ \A x \in Jobs \ {j} : jobs'[x] = jobs[x]
<1>1. jobs \in JobTable /\ jobs[j] \in JobRecord
  BY DEF IInv, TypeOK, JobTable, Stored
<1> DEFINE rec == [jobs[j] EXCEPT !.results = r]
<1>2. /\ rec \in JobRecord /\ rec # NoJob /\ rec.results = r
      /\ rec.parent = jobs[j].parent /\ rec.dependents = jobs[j].dependents
  BY <1>1, ConstantsAssumption DEF JobRecord
<1>3. jobs' = [jobs EXCEPT ![j] = rec]
  BY <1>1 DEF JobTable
<1> HIDE DEF rec
<1>4. /\ jobs' \in JobTable /\ jobs'[j] = rec
      /\ \A x \in Jobs \ {j} : jobs'[x] = jobs[x]
  BY <1>1, <1>2, <1>3 DEF JobTable
<1>5. /\ \A x \in Jobs : (jobs'[x] = NoJob) <=> (jobs[x] = NoJob)
      /\ \A x \in Jobs : Stored(x) => /\ jobs'[x].parent = jobs[x].parent
                                      /\ jobs'[x].dependents = jobs[x].dependents
  BY <1>1, <1>2, <1>4 DEF Stored
<1>6. ParentKnowsChild'
  BY <1>1, <1>5, ListsUntouched DEF IInv
<1>7. ResultsCoherent'
  BY <1>2, <1>4, <1>5 DEF IInv, ResultsCoherent, Stored
<1> QED BY <1>2, <1>4, <1>5, <1>6, <1>7 DEF Stored

\* What a DeleteExecutions step does.
LEMMA DeleteExecutionsFacts ==
  ASSUME IInv, NEW j \in Jobs, DeleteExecutions(j)
  PROVE  /\ TypeOK' /\ ParentKnowsChild' /\ ResultsCoherent'
         /\ \A x \in Jobs : Stored(x) =>
              jobs'[x].dependents = jobs[x].dependents /\ jobs'[x].parent = jobs[x].parent
         /\ \A x \in Jobs : Stored(x)' <=> Stored(x)
         /\ jobs'[j].results.successCount = 0 /\ jobs'[j].results.errorCount = 0
         /\ \A x \in Jobs \ {j} : jobs'[x] = jobs[x]
         /\ StoredKeys(execs', j) = {}
<1> DEFINE r == ResetResults(jobs[j].results)
<1>1. Stored(j) /\ jobs[j] \in JobRecord /\ jobs' = [jobs EXCEPT ![j].results = r]
  BY DEF DeleteExecutions, IInv, TypeOK, Stored
<1>2. r \in Results /\ Coherent(r) /\ r.successCount = 0 /\ r.errorCount = 0
  BY <1>1, ConstantsAssumption DEF ResetResults, Results, Coherent, JobRecord, Times
<1> HIDE DEF r
<1>3. execs' = WithoutExecutions(j) /\ stats' = stats
  BY DEF DeleteExecutions
<1>4. TypeOK'
  BY <1>1, <1>2, <1>3, WriteResultsFacts, WithoutExecutionsType DEF IInv, TypeOK, JobTable
<1> QED BY <1>1, <1>2, <1>3, <1>4, WriteResultsFacts, WithoutExecutionsType DEF IInv

\* What a SetExecution step does: no job changes, no finish goes back.
LEMMA SetExecutionFacts ==
  ASSUME IInv, NEW k \in Keys, NEW finished \in Times, SetExecution(k, finished)
  PROVE  /\ TypeOK' /\ jobs' = jobs
         /\ \A m \in Keys : execs[m] # NoExecution /\ execs'[m] # NoExecution
                             => execs'[m].finished >= execs[m].finished
<1> DEFINE e == [finished |-> finished, success |-> FALSE]
           es == PutExecution(k, e)
<1>1. e \in ExecutionRecord /\ e.finished \in Nat /\ TypeOK
  BY ConstantsAssumption DEF ExecutionRecord, Times, IInv
<1> HIDE DEF e
<1>2. /\ es \in [Keys -> ExecutionRecord \cup {NoExecution}]
      /\ \A m \in Keys : execs[m] # NoExecution /\ es[m] # execs[m] =>
           m = k /\ es[m] = e /\ execs[m].finished <= e.finished
  BY <1>1, PutExecutionType
<1>3. /\ execs' = [m \in Keys |->
                    IF m \in Overflow(es, JobOf[k]) THEN NoExecution ELSE es[m]]
      /\ jobs' = jobs /\ stats' = stats
  BY DEF SetExecution, e
<1> HIDE DEF es
<1>4. execs' \in [Keys -> ExecutionRecord \cup {NoExecution}]
  BY <1>2, <1>3
<1>5. TypeOK'
  BY <1>3, <1>4 DEF IInv, TypeOK
<1>6. ASSUME NEW m \in Keys, execs[m] # NoExecution, execs'[m] # NoExecution
      PROVE  execs'[m].finished >= execs[m].finished
  <2>1. execs'[m] = es[m] /\ execs[m].finished \in Nat
    BY <1>3, <1>6, ConstantsAssumption DEF IInv, TypeOK, ExecutionRecord, Times
  <2> QED BY <1>1, <1>2, <1>6, <2>1
<1> QED BY <1>3, <1>5, <1>6

\* One more success or error keeps the results typed and coherent, and takes
\* nothing from the counters.
LEMMA CountFacts ==
  ASSUME NEW r \in Results, Coherent(r), NEW e, e.finished \in Times, e.finished > 0,
         NEW status \in Statuses, r.successCount < MaxCount, r.errorCount < MaxCount
  PROVE  LET new == Count(r, e, status) IN
           /\ new \in Results /\ Coherent(new)
           /\ new.successCount >= r.successCount /\ new.errorCount >= r.errorCount
<1>1. /\ r.successCount \in Nat /\ r.errorCount \in Nat
      /\ r.successCount + 1 \in 0..MaxCount /\ r.errorCount + 1 \in 0..MaxCount
  BY ConstantsAssumption DEF Results
<1> DEFINE s == [r EXCEPT !.lastSuccess = e.finished,
                          !.successCount = r.successCount + 1, !.status = status]
           f == [r EXCEPT !.lastError = e.finished,
                          !.errorCount = r.errorCount + 1, !.status = status]
<1>2. /\ s \in Results /\ s.successCount = r.successCount + 1 /\ s.errorCount = r.errorCount
      /\ s.lastSuccess = e.finished /\ s.lastError = r.lastError
  BY <1>1 DEF Results
<1>3. /\ f \in Results /\ f.errorCount = r.errorCount + 1 /\ f.successCount = r.successCount
      /\ f.lastError = e.finished /\ f.lastSuccess = r.lastSuccess
  BY <1>1 DEF Results
<1>4. Count(r, e, status) = s \/ Count(r, e, status) = f
  BY DEF Count
<1> HIDE DEF s, f
<1>5. Coherent(s) /\ s.successCount >= r.successCount /\ s.errorCount >= r.errorCount
  BY <1>1, <1>2 DEF Coherent
<1>6. Coherent(f) /\ f.successCount >= r.successCount /\ f.errorCount >= r.errorCount
  BY <1>1, <1>3 DEF Coherent
<1> QED BY <1>2, <1>3, <1>4, <1>5, <1>6

\* What a SetExecutionDone step does.
LEMMA SetExecutionDoneFacts ==
  ASSUME IInv, NEW k \in Keys, NEW e \in ExecutionRecord, SetExecutionDone(k, e)
  PROVE  /\ TypeOK' /\ ParentKnowsChild' /\ ResultsCoherent'
         /\ \A x \in Jobs : Stored(x)' <=> Stored(x)
         /\ \A x \in Jobs : Stored(x) =>
              /\ jobs'[x].dependents = jobs[x].dependents
              /\ jobs'[x].parent = jobs[x].parent
              /\ jobs'[x].results.successCount >= jobs[x].results.successCount
              /\ jobs'[x].results.errorCount >= jobs[x].results.errorCount
         /\ \A m \in Keys : execs[m] # NoExecution /\ execs'[m] # NoExecution
                             => execs'[m].finished >= execs[m].finished
<1> DEFINE j == JobOf[k]
           d == DayOf[e.finished]
           es == PutExecution(k, e)
           r == jobs[j].results
           new == Count(r, e, GroupStatus(es, j, GroupOf[k]))
<1>1. /\ j \in Jobs /\ Stored(j) /\ jobs[j] \in JobRecord /\ r \in Results /\ Coherent(r)
      /\ e.finished \in Times /\ e.finished \in Nat /\ e.finished > 0 /\ e.success \in BOOLEAN
      /\ d \in Days /\ stats[d] \in DayStat
  BY ConstantsAssumption
     DEF SetExecutionDone, ExecutionRecord, IInv, TypeOK, Stored, JobRecord, ResultsCoherent, Times
<1>2. /\ es \in [Keys -> ExecutionRecord \cup {NoExecution}]
      /\ \A m \in Keys : execs[m] # NoExecution /\ es[m] # execs[m] =>
           m = k /\ es[m] = e /\ execs[m].finished <= e.finished
      /\ execs' = es
  BY PutExecutionType DEF IInv, SetExecutionDone
<1>3. \A m \in Keys : execs[m] # NoExecution /\ execs'[m] # NoExecution
                      => execs'[m].finished >= execs[m].finished
  BY <1>2, ConstantsAssumption DEF IInv, TypeOK, ExecutionRecord, Times
<1>4. CASE ~Counts(k, e)
  <2>1. jobs' = jobs /\ stats' = stats
    BY <1>4 DEF SetExecutionDone
  <2>2. TypeOK' /\ ParentKnowsChild' /\ ResultsCoherent'
    BY <1>2, <2>1 DEF IInv, TypeOK, ParentKnowsChild, ResultsCoherent, Stored
  <2>3. ASSUME NEW x \in Jobs, Stored(x)
        PROVE  /\ jobs[x].results.successCount >= jobs[x].results.successCount
               /\ jobs[x].results.errorCount >= jobs[x].results.errorCount
    BY <2>3, ConstantsAssumption DEF IInv, TypeOK, Stored, JobRecord, Results
  <2> QED BY <1>3, <2>1, <2>2, <2>3 DEF Stored
<1>5. CASE Counts(k, e)
  <2>1. /\ BelowBounds(j, d)
        /\ jobs' = [jobs EXCEPT ![j].results = new]
        /\ stats' = [stats EXCEPT ![d] = IncrementStat(stats[d], e.success)]
    BY <1>5 DEF SetExecutionDone
  <2>2. /\ new \in Results /\ Coherent(new)
        /\ new.successCount >= r.successCount /\ new.errorCount >= r.errorCount
    <3>1. r.successCount < MaxCount /\ r.errorCount < MaxCount
      BY <2>1 DEF BelowBounds
    <3>2. GroupStatus(es, j, GroupOf[k]) \in Statuses
      BY DEF GroupStatus, Statuses
    <3> QED BY <1>1, <3>1, <3>2, CountFacts
  <2>3. IncrementStat(stats[d], e.success) \in DayStat
    BY <1>1, <2>1, ConstantsAssumption DEF IncrementStat, DayStat, BelowBounds
  <2> HIDE DEF new, es, d, j
  <2>4. stats' \in [Days -> DayStat]
    BY <1>1, <2>1, <2>3 DEF IInv, TypeOK
  <2>5. /\ jobs' \in JobTable /\ ParentKnowsChild' /\ ResultsCoherent'
        /\ \A x \in Jobs : Stored(x)' <=> Stored(x)
        /\ \A x \in Jobs : Stored(x) =>
             jobs'[x].dependents = jobs[x].dependents /\ jobs'[x].parent = jobs[x].parent
        /\ jobs'[j].results = new
        /\ \A x \in Jobs \ {j} : jobs'[x] = jobs[x]
    BY <1>1, <2>1, <2>2, WriteResultsFacts
  <2>6. TypeOK'
    BY <1>2, <2>4, <2>5 DEF TypeOK, JobTable
  <2>7. ASSUME NEW x \in Jobs, Stored(x)
        PROVE  /\ jobs'[x].results.successCount >= jobs[x].results.successCount
               /\ jobs'[x].results.errorCount >= jobs[x].results.errorCount
    <3>1. jobs[x].results \in Results
      BY <2>7 DEF IInv, TypeOK, Stored, JobRecord
    <3> QED BY <2>2, <2>5, <2>7, <3>1, ConstantsAssumption DEF Results
  <2> QED BY <1>3, <2>5, <2>6, <2>7
<1> QED BY <1>4, <1>5

-----------------------------------------------------------------------------
(* Every step *)

\* What every step of the store does: the invariant stays, no finish goes back,
\* and a job that stays stored keeps its counts or loses them with all its
\* executions.
LEMMA StepFacts ==
  ASSUME IInv, [Next]_vars
  PROVE  /\ IInv'
         /\ \A k \in Keys : execs[k] # NoExecution /\ execs'[k] # NoExecution
                             => execs'[k].finished >= execs[k].finished
         /\ \A x \in Jobs : Stored(x) /\ Stored(x)' =>
              \/ /\ jobs'[x].results.successCount >= jobs[x].results.successCount
                 /\ jobs'[x].results.errorCount >= jobs[x].results.errorCount
              \/ /\ jobs'[x].results.successCount = 0
                 /\ jobs'[x].results.errorCount = 0
                 /\ StoredKeys(execs', x) = {}
<1>1. /\ \A k \in Keys : execs[k] # NoExecution => execs[k].finished \in Nat
      /\ \A x \in Jobs : Stored(x) => /\ jobs[x].results.successCount \in Nat
                                       /\ jobs[x].results.errorCount \in Nat
  BY ConstantsAssumption
     DEF IInv, TypeOK, ExecutionRecord, Times, JobRecord, Results, Stored
<1>2. CASE UNCHANGED vars
  BY <1>1, <1>2
     DEF vars, IInv, TypeOK, ParentKnowsChild, ResultsCoherent, Stored
<1>3. ASSUME NEW j \in Jobs, NEW p \in Payloads, SetJob(j, p)
      PROVE  /\ IInv' /\ execs' = execs
             /\ \A x \in Jobs : Stored(x) /\ Stored(x)' =>
                  /\ jobs'[x].results.successCount >= jobs[x].results.successCount
                  /\ jobs'[x].results.errorCount >= jobs[x].results.errorCount
  BY <1>3, SetJobFacts DEF IInv
<1>4. ASSUME NEW j \in Jobs, DeleteJob(j)
      PROVE  /\ IInv'
             /\ \A k \in Keys : execs'[k] = NoExecution \/ execs'[k] = execs[k]
             /\ \A x \in Jobs : Stored(x) /\ Stored(x)' =>
                  jobs'[x].results = jobs[x].results
  <2>1. \A k \in Keys : execs'[k] = NoExecution \/ execs'[k] = execs[k]
    BY <1>4 DEF DeleteJob, WithoutExecutions
  <2> QED BY <1>4, <2>1, DeleteJobFacts DEF IInv
<1>5. ASSUME NEW j \in Jobs, DeleteExecutions(j)
      PROVE  /\ IInv'
             /\ \A k \in Keys : execs'[k] = NoExecution \/ execs'[k] = execs[k]
             /\ \A x \in Jobs : jobs'[x] = jobs[x] \/
                  /\ jobs'[x].results.successCount = 0
                  /\ jobs'[x].results.errorCount = 0
                  /\ StoredKeys(execs', x) = {}
  <2>1. \A k \in Keys : execs'[k] = NoExecution \/ execs'[k] = execs[k]
    BY <1>5 DEF DeleteExecutions, WithoutExecutions
  <2> QED BY <1>5, <2>1, DeleteExecutionsFacts DEF IInv
<1>6. ASSUME NEW k \in Keys, NEW finished \in Times, SetExecution(k, finished)
      PROVE  /\ IInv' /\ jobs' = jobs
             /\ \A m \in Keys : execs[m] # NoExecution /\ execs'[m] # NoExecution
                                 => execs'[m].finished >= execs[m].finished
  BY <1>6, SetExecutionFacts DEF IInv, ParentKnowsChild, ResultsCoherent, Stored
<1>7. ASSUME NEW k \in Keys, NEW e \in ExecutionRecord, SetExecutionDone(k, e)
      PROVE  /\ IInv'
             /\ \A x \in Jobs : Stored(x) =>
                  /\ jobs'[x].results.successCount >= jobs[x].results.successCount
                  /\ jobs'[x].results.errorCount >= jobs[x].results.errorCount
             /\ \A m \in Keys : execs[m] # NoExecution /\ execs'[m] # NoExecution
                                 => execs'[m].finished >= execs[m].finished
  BY <1>7, SetExecutionDoneFacts DEF IInv
<1>8. CASE \E j \in Jobs, p \in Payloads : SetJob(j, p)
  BY <1>1, <1>3, <1>8
<1>9. CASE \E j \in Jobs : DeleteJob(j)
  BY <1>1, <1>4, <1>9
<1>10. CASE \E j \in Jobs : DeleteExecutions(j)
  BY <1>1, <1>5, <1>10
<1>11. CASE \E k \in Keys, finished \in Times : SetExecution(k, finished)
  BY <1>1, <1>6, <1>11 DEF Stored
<1>12. CASE \E k \in Keys, e \in ExecutionRecord : SetExecutionDone(k, e)
  BY <1>7, <1>12
<1> QED BY <1>2, <1>8, <1>9, <1>10, <1>11, <1>12 DEF Next

\* The inductive invariant holds in every reachable state.
THEOREM Invariance == Spec => []IInv
<1>1. IInv /\ [Next]_vars => IInv'
  BY StepFacts
<1> QED BY InitIInv, <1>1, PTL DEF Spec

\* What a server stores is always a set of well-formed entries (store.go writes
\* them as JSON, and reads fail on anything else).
THEOREM TypeCorrect == Spec => []TypeOK
<1>1. IInv => TypeOK
  BY DEF IInv
<1> QED BY Invariance, <1>1, PTL

\* No order of SetJob and DeleteJob commands leaves a child behind whose parent
\* is gone or does not list it, for any set of jobs and any lists that payloads
\* carry (removeFromParent, addToParent and ErrDependentJobs in store.go).
THEOREM ChildrenAreKnown == Spec => []ParentKnowsChild
<1>1. IInv => ParentKnowsChild
  BY DEF IInv
<1> QED BY Invariance, <1>1, PTL

\* A job's counters and the times of its last success and error always agree
\* (SetExecutionDone, the merge in SetJob, the reset in DeleteExecutions).
THEOREM CountersAgreeWithTimes == Spec => []ResultsCoherent
<1>1. IInv => ResultsCoherent
  BY DEF IInv
<1> QED BY Invariance, <1>1, PTL

\* setExecutionTx never replaces a finish by an earlier one, whatever the order
\* in which starts, retries and results reach the log.
THEOREM FinishesAreKept == Spec => FinishNeverReverts
<1>1. IInv /\ [Next]_vars =>
        [\A k \in Keys : execs[k] # NoExecution /\ execs'[k] # NoExecution
                       => execs'[k].finished >= execs[k].finished]_execs
  BY StepFacts
<1> QED BY Invariance, <1>1, PTL DEF Spec, FinishNeverReverts

\* Writing a job, from the API or from a run in progress, loses no count.
THEOREM CountersAreKept == Spec => CountersSurviveWrites
<1>1. IInv /\ [Next]_vars =>
        [\A j \in Jobs : Stored(j) /\ Stored(j)' =>
            LET r == jobs[j].results
                s == jobs'[j].results
            IN \/ s.successCount >= r.successCount /\ s.errorCount >= r.errorCount
               \/ /\ s.successCount = 0 /\ s.errorCount = 0
                  /\ StoredKeys(execs', j) = {}]_<<jobs, execs>>
  BY StepFacts
<1> QED BY Invariance, <1>1, PTL DEF Spec, CountersSurviveWrites

-----------------------------------------------------------------------------
(* Executions *)

\* The store holds finitely many executions, however many keys there are.
ExecutionsAreFinite == IsFiniteSet({k \in Keys : execs[k] # NoExecution})

\* So are those of one job.
LEMMA StoredKeysAreFinite ==
  ASSUME NEW es, NEW j, IsFiniteSet({k \in Keys : es[k] # NoExecution})
  PROVE  IsFiniteSet(StoredKeys(es, j)) /\ StoredKeys(es, j) \subseteq Nat
<1>1. StoredKeys(es, j) \in SUBSET {k \in Keys : es[k] # NoExecution}
  BY DEF StoredKeys
<1> QED BY <1>1, FS_Subset, ConstantsAssumption

\* A step stores at most one execution that was not there.
LEMMA OneMoreExecution ==
  ASSUME ExecutionsAreFinite, NEW k, NEW es,
         \A m \in Keys : m # k /\ execs[m] = NoExecution => es[m] = NoExecution
  PROVE  IsFiniteSet({m \in Keys : es[m] # NoExecution})
<1> DEFINE S == {m \in Keys : execs[m] # NoExecution} \cup {k}
<1>1. IsFiniteSet(S)
  BY FS_AddElement DEF ExecutionsAreFinite
<1>2. {m \in Keys : es[m] # NoExecution} \in SUBSET S
  OBVIOUS
<1> QED BY <1>1, <1>2, FS_Subset

\* They stay finitely many.
LEMMA StaysFinite ==
  ASSUME IInv, ExecutionsAreFinite, [Next]_vars
  PROVE  ExecutionsAreFinite'
<1>1. ASSUME NEW k, \A m \in Keys : m # k /\ execs[m] = NoExecution => execs'[m] = NoExecution
      PROVE  ExecutionsAreFinite'
  BY <1>1, OneMoreExecution DEF ExecutionsAreFinite
<1>2. ASSUME execs' = execs PROVE ExecutionsAreFinite'
  BY <1>2 DEF ExecutionsAreFinite
<1>3. ASSUME NEW j \in Jobs, DeleteJob(j) \/ DeleteExecutions(j) PROVE ExecutionsAreFinite'
  <2>1. \A m \in Keys : execs[m] = NoExecution => execs'[m] = NoExecution
    BY <1>3 DEF DeleteJob, DeleteExecutions, WithoutExecutions
  <2> QED BY <1>1, <2>1
<1>4. ASSUME NEW k \in Keys, NEW finished \in Times, SetExecution(k, finished)
      PROVE  ExecutionsAreFinite'
  <2> DEFINE es == PutExecution(k, [finished |-> finished, success |-> FALSE])
  <2>1. \A m \in Keys : execs'[m] = NoExecution \/ execs'[m] = es[m]
    BY <1>4 DEF SetExecution
  <2>2. \A m \in Keys : m # k => es[m] = execs[m]
    BY DEF PutExecution, IInv, TypeOK
  <2> QED BY <1>1, <2>1, <2>2
<1>5. ASSUME NEW k \in Keys, NEW e \in ExecutionRecord, SetExecutionDone(k, e)
      PROVE  ExecutionsAreFinite'
  <2>1. \A m \in Keys : m # k => execs'[m] = execs[m]
    BY <1>5 DEF SetExecutionDone, PutExecution, IInv, TypeOK
  <2> QED BY <1>1, <2>1
<1> QED BY <1>2, <1>3, <1>4, <1>5 DEF Next, SetJob, vars

\* How many of S are newer than k.
Newer(S, k) == Cardinality({m \in S : m > k})

\* Newer counts without gaps: each execution of a finite set has its own number
\* of newer ones, and all the numbers below the size of the set occur.
LEMMA NewerIsARanking ==
  ASSUME NEW S \in SUBSET Nat, IsFiniteSet(S)
  PROVE  /\ Cardinality(S) \in Nat
         /\ \A k \in S : Newer(S, k) \in 0..(Cardinality(S) - 1)
         /\ \A k, m \in S : k < m => Newer(S, m) < Newer(S, k)
         /\ \A i \in 0..(Cardinality(S) - 1) : \E k \in S : Newer(S, k) = i
<1> DEFINE c == Cardinality(S)
           Above(k) == {m \in S : m > k}
           rank == [k \in S |-> Newer(S, k)]
<1>0. \A k \in S : k \in Nat
  OBVIOUS
<1>1. c \in Nat /\ \A k \in S : IsFiniteSet(Above(k)) /\ Newer(S, k) \in Nat
  <2>1. \A k \in S : Above(k) \in SUBSET S
    OBVIOUS
  <2> QED BY <2>1, FS_Subset, FS_CardinalityType DEF Newer
<1>2. ASSUME NEW k \in S PROVE Newer(S, k) \in 0..(c - 1)
  <2>1. Above(k) \in SUBSET (S \ {k})
    OBVIOUS
  <2>2. IsFiniteSet(S \ {k}) /\ Cardinality(S \ {k}) = c - 1
    BY FS_RemoveElement
  <2>3. Cardinality(Above(k)) <= c - 1
    BY <2>1, <2>2, FS_Subset
  <2> QED BY <1>1, <2>3 DEF Newer
<1>3. ASSUME NEW k \in S, NEW m \in S, k < m PROVE Newer(S, m) < Newer(S, k)
  <2>1. Above(m) \in SUBSET Above(k) /\ m \in Above(k) /\ m \notin Above(m)
    <3>1. \A x \in S : x > m => x > k
      BY <1>0, <1>3
    <3>2. ~(m > m) /\ m > k
      BY <1>0, <1>3
    <3> QED BY <3>1, <3>2
  <2>2. /\ Cardinality(Above(m)) <= Cardinality(Above(k))
        /\ Cardinality(Above(m)) # Cardinality(Above(k))
    BY <1>1, <2>1, FS_Subset
  <2> QED BY <1>1, <2>2 DEF Newer
<1>4. rank \in Injection(S, 0..(c - 1))
  <2>1. rank \in [S -> 0..(c - 1)]
    BY <1>2
  <2>2. \A k, m \in S : rank[k] = rank[m] => k = m
    <3>1. \A k, m \in S : k < m \/ m < k \/ k = m
      BY <1>0
    <3>2. ASSUME NEW k \in S, NEW m \in S, k < m PROVE Newer(S, k) # Newer(S, m)
      <4>1. Newer(S, m) < Newer(S, k)
        BY <1>3, <3>2
      <4>2. Newer(S, m) \in Nat /\ Newer(S, k) \in Nat
        BY <1>1
      <4> QED BY <4>1, <4>2
    <3>3. \A k, m \in S : Newer(S, k) = Newer(S, m) => k = m
      BY <3>1, <3>2
    <3>4. \A k \in S : rank[k] = Newer(S, k)
      OBVIOUS
    <3> QED BY <3>3, <3>4
  <2> QED BY <2>1, <2>2 DEF Injection, IsInjective
<1>5. IsFiniteSet(0..(c - 1)) /\ Cardinality(0..(c - 1)) = c
  <2>1. 0 \in Int /\ c - 1 \in Int
    BY <1>1
  <2>2. Cardinality(0..(c - 1)) = IF 0 > c - 1 THEN 0 ELSE (c - 1) - 0 + 1
    BY <2>1, FS_Interval
  <2> QED BY <1>1, <2>1, <2>2, FS_Interval
<1>6. rank \in Surjection(S, 0..(c - 1))
  BY <1>4, <1>5, FS_Injection
<1>7. \A i \in 0..(c - 1) : \E k \in S : Newer(S, k) = i
  BY <1>6 DEF Surjection
<1> QED BY <1>1, <1>2, <1>3, <1>7

\* Of more than n executions, those with less than n newer ones are n.
LEMMA NewestAreCounted ==
  ASSUME NEW S \in SUBSET Nat, IsFiniteSet(S), NEW n \in Nat, n <= Cardinality(S)
  PROVE  Cardinality({k \in S : Newer(S, k) < n}) = n
<1> DEFINE K == {k \in S : Newer(S, k) < n}
           rank == [k \in K |-> Newer(S, k)]
<1>1. /\ Cardinality(S) \in Nat
      /\ \A k \in S : Newer(S, k) \in 0..(Cardinality(S) - 1)
      /\ \A k, m \in S : k < m => Newer(S, m) < Newer(S, k)
      /\ \A i \in 0..(Cardinality(S) - 1) : \E k \in S : Newer(S, k) = i
  BY NewerIsARanking
<1>2. IsFiniteSet(0..(n - 1)) /\ Cardinality(0..(n - 1)) = n
  <2>1. 0 \in Int /\ n - 1 \in Int
    OBVIOUS
  <2>2. Cardinality(0..(n - 1)) = IF 0 > n - 1 THEN 0 ELSE (n - 1) - 0 + 1
    BY <2>1, FS_Interval
  <2> QED BY <2>1, <2>2, FS_Interval
<1>3. rank \in [K -> 0..(n - 1)]
  <2>1. \A k \in K : Newer(S, k) \in 0..(n - 1)
    BY <1>1
  <2> QED BY <2>1
<1>4. \A k, m \in K : rank[k] = rank[m] => k = m
  <2>1. \A k, m \in S : k < m \/ m < k \/ k = m
    <3>1. \A k \in S : k \in Nat
      OBVIOUS
    <3> QED BY <3>1
  <2> QED BY <1>1, <2>1
<1>5. \A i \in 0..(n - 1) : \E k \in K : rank[k] = i
  BY <1>1
<1>6. rank \in Injection(K, 0..(n - 1)) /\ rank \in Surjection(K, 0..(n - 1))
  BY <1>3, <1>4, <1>5 DEF Injection, IsInjective, Surjection
<1> QED BY <1>2, <1>6, FS_Injection

\* Trimming leaves a job the MaxExecutions newest of its executions.
LEMMA OverflowFacts ==
  ASSUME NEW es, NEW j, IsFiniteSet({k \in Keys : es[k] # NoExecution})
  PROVE  LET S == StoredKeys(es, j)
             K == S \ Overflow(es, j)
         IN /\ \A m \in Overflow(es, j), k \in K : m < k
            /\ Overflow(es, j) # {} => Cardinality(K) = MaxExecutions
<1> DEFINE S == StoredKeys(es, j)
           K == S \ Overflow(es, j)
           n == MaxExecutions
<1>1. S \in SUBSET Nat /\ IsFiniteSet(S) /\ n \in Nat
  BY StoredKeysAreFinite, ConstantsAssumption
<1>2. Overflow(es, j) = {k \in S : Newer(S, k) >= n}
  BY DEF Overflow, Newer
<1> HIDE DEF S, n
<1>3. /\ Cardinality(S) \in Nat
      /\ \A k \in S : Newer(S, k) \in 0..(Cardinality(S) - 1) /\ k \in Nat
      /\ \A k, m \in S : k < m => Newer(S, m) < Newer(S, k)
  BY <1>1, NewerIsARanking
<1>4. K = {k \in S : Newer(S, k) < n}
  <2>1. ASSUME NEW k \in S PROVE k \in Overflow(es, j) <=> ~(Newer(S, k) < n)
    <3>1. Newer(S, k) \in Nat
      BY <1>3
    <3>2. Newer(S, k) >= n <=> ~(Newer(S, k) < n)
      BY <1>1, <3>1
    <3> QED BY <1>2, <3>2
  <2> QED BY <2>1
<1>5. ASSUME NEW m \in Overflow(es, j), NEW k \in K PROVE m < k
  <2>1. /\ m \in S /\ Newer(S, m) >= n /\ k \in S /\ Newer(S, k) < n
        /\ m \in Nat /\ k \in Nat /\ Newer(S, m) \in Nat /\ Newer(S, k) \in Nat
    BY <1>2, <1>3, <1>4, <1>5
  <2>2. m # k /\ ~(k < m)
    BY <1>1, <1>3, <2>1
  <2> QED BY <2>1, <2>2
<1>6. ASSUME Overflow(es, j) # {} PROVE Cardinality(K) = n
  <2>1. PICK m \in S : Newer(S, m) >= n
    BY <1>2, <1>6
  <2>2. n <= Cardinality(S)
    <3>1. Newer(S, m) \in 0..(Cardinality(S) - 1)
      BY <1>3
    <3> QED BY <1>1, <1>3, <2>1, <3>1
  <2> QED BY <1>1, <1>4, <2>2, NewestAreCounted
<1> QED BY <1>5, <1>6 DEF S, n

\* A trim leaves the newest, a deletion none, and every other step all.
LEMMA StepTrims ==
  ASSUME IInv, ExecutionsAreFinite, [Next]_vars, NEW j \in Jobs
  PROVE  LET kept == StoredKeys(execs', j)
             gone == StoredKeys(execs, j) \ kept
         IN gone # {} /\ kept # {} =>
              /\ Cardinality(kept) = MaxExecutions
              /\ \A m \in gone, k \in kept : m < k
<1> DEFINE kept == StoredKeys(execs', j)
           gone == StoredKeys(execs, j) \ kept
<1>1. SUFFICES ASSUME gone # {}, kept # {}
               PROVE  Cardinality(kept) = MaxExecutions /\ \A m \in gone, k \in kept : m < k
  OBVIOUS
<1>2. PICK g \in gone : g \in Keys /\ JobOf[g] = j /\ execs[g] # NoExecution
                        /\ execs'[g] = NoExecution
  BY <1>1 DEF StoredKeys
<1>3. ASSUME NEW i \in Jobs, DeleteJob(i) \/ DeleteExecutions(i) PROVE FALSE
  <2>1. execs' = WithoutExecutions(i)
    BY <1>3 DEF DeleteJob, DeleteExecutions
  <2>2. j \in NamesFrom[i]
    BY <1>2, <2>1 DEF WithoutExecutions
  <2>3. kept = {}
    BY <2>1, <2>2 DEF WithoutExecutions, StoredKeys
  <2> QED BY <1>1, <2>3
<1>4. ASSUME NEW k \in Keys, NEW e \in ExecutionRecord, SetExecutionDone(k, e) PROVE FALSE
  <2>1. execs'[g] = PutExecution(k, e)[g]
    BY <1>4 DEF SetExecutionDone
  <2>2. PutExecution(k, e)[g] = execs[g] \/ PutExecution(k, e)[g] = e
    BY <1>2 DEF PutExecution, IInv, TypeOK
  <2> QED BY <1>2, <2>1, <2>2, ConstantsAssumption
<1>5. ASSUME NEW x \in Keys, NEW finished \in Times, SetExecution(x, finished)
      PROVE  Cardinality(kept) = MaxExecutions /\ \A m \in gone, k \in kept : m < k
  <2> DEFINE e == [finished |-> finished, success |-> FALSE]
             es == PutExecution(x, e)
  <2>1. execs' = [m \in Keys |-> IF m \in Overflow(es, JobOf[x]) THEN NoExecution ELSE es[m]]
    BY <1>5 DEF SetExecution
  <2>2. e \in ExecutionRecord /\ e # NoExecution
    <3>1. e \in ExecutionRecord
      BY DEF ExecutionRecord
    <3> QED BY <3>1, ConstantsAssumption
  <2> HIDE DEF e
  <2>3. \A m \in Keys : /\ es[m] = execs[m] \/ (m = x /\ es[m] = e)
                        /\ execs[m] # NoExecution => es[m] # NoExecution
    BY <2>2 DEF PutExecution, IInv, TypeOK
  <2>4. IsFiniteSet({m \in Keys : es[m] # NoExecution})
    BY <2>3, OneMoreExecution
  <2> HIDE DEF es
  <2>5. g \in Overflow(es, JobOf[x]) /\ JobOf[x] = j
    BY <1>2, <2>1, <2>3 DEF Overflow, StoredKeys
  <2>6. kept = StoredKeys(es, j) \ Overflow(es, j)
    BY <2>1, <2>5 DEF StoredKeys
  <2>7. gone \subseteq Overflow(es, j)
    BY <2>1, <2>3, <2>5 DEF StoredKeys
  <2>8. /\ \A m \in Overflow(es, j), k \in kept : m < k
        /\ Overflow(es, j) # {} => Cardinality(kept) = MaxExecutions
    BY <2>4, <2>6, OverflowFacts
  <2> QED BY <2>5, <2>7, <2>8
<1>6. CASE execs' = execs
  BY <1>2, <1>6
<1> QED BY <1>3, <1>4, <1>5, <1>6 DEF Next, SetJob, vars

\* setExecutionTx deletes the oldest executions over the limit, and only those:
\* when some of a job's executions go and some stay, those that stay are the
\* MaxExecutions newest, for every limit and any number of executions.
THEOREM NewestAreKept == Spec => TrimKeepsNewest
<1>1. Init => ExecutionsAreFinite
  <2>1. Init => {k \in Keys : execs[k] # NoExecution} = {}
    BY DEF Init
  <2> QED BY <2>1, FS_EmptySet DEF ExecutionsAreFinite
<1>2. IInv /\ ExecutionsAreFinite /\ [Next]_vars => ExecutionsAreFinite'
  BY StaysFinite
<1>3. IInv /\ ExecutionsAreFinite /\ [Next]_vars =>
        [\A j \in Jobs :
           LET kept == StoredKeys(execs', j)
               gone == StoredKeys(execs, j) \ kept
           IN gone # {} /\ kept # {} =>
                /\ Cardinality(kept) = MaxExecutions
                /\ \A m \in gone, k \in kept : m < k]_execs
  BY StepTrims
<1> QED BY Invariance, <1>1, <1>2, <1>3, PTL DEF Spec, TrimKeepsNewest

-----------------------------------------------------------------------------
(* Lists of dependent jobs *)

\* Every step keeps the lists exact; only SetJob and DeleteJob touch them.
LEMMA StepLists ==
  ASSUME PayloadsListNone, IInv, ListsAreExact, [Next]_vars
  PROVE  ListsAreExact'
<1>1. ASSUME \A x \in Jobs : Stored(x)' <=> Stored(x),
             \A x \in Jobs : Stored(x) =>
               jobs'[x].dependents = jobs[x].dependents /\ jobs'[x].parent = jobs[x].parent
      PROVE  ListsAreExact'
  <2>1. \A y \in Jobs : ParentOf(jobs', y) = ParentOf(jobs, y)
    BY <1>1 DEF ParentOf, Stored
  <2> QED BY <1>1, <2>1 DEF ListsAreExact
<1>2. ASSUME jobs' = jobs PROVE ListsAreExact'
  BY <1>1, <1>2 DEF Stored
<1>3. ASSUME NEW j \in Jobs, NEW p \in Payloads, SetJob(j, p) PROVE ListsAreExact'
  BY <1>3, SetJobFacts
<1>4. ASSUME NEW j \in Jobs, DeleteJob(j) PROVE ListsAreExact'
  BY <1>4, DeleteJobFacts
<1>5. ASSUME NEW j \in Jobs, DeleteExecutions(j) PROVE ListsAreExact'
  BY <1>1, <1>5, DeleteExecutionsFacts
<1>6. ASSUME NEW k \in Keys, NEW e \in ExecutionRecord, SetExecutionDone(k, e)
      PROVE  ListsAreExact'
  BY <1>1, <1>6, SetExecutionDoneFacts
<1> QED BY <1>2, <1>3, <1>4, <1>5, <1>6 DEF Next, SetExecution, vars

\* When payloads leave dependent_jobs to the store, the lists that SetJob and
\* DeleteJob maintain in several writes name exactly the stored children, each
\* once, for any set of jobs and any order of commands.
THEOREM ListsStayExact ==
  ASSUME PayloadsListNone
  PROVE  Spec => []ListsAreExact
<1>1. Init => ListsAreExact
  BY DEF Init, ListsAreExact, Stored
<1>2. IInv /\ ListsAreExact /\ [Next]_vars => ListsAreExact'
  BY StepLists
<1> QED BY Invariance, <1>1, <1>2, PTL DEF Spec

-----------------------------------------------------------------------------
(* Sums of counters *)

\* A sum of counters is a number of units: each counter f[x] has the units
\* <<x, 1>>, ..., <<x, f[x]>>.
Units(f, S) == {u \in S \X Nat : 1 <= u[2] /\ u[2] <= f[u[1]]}

Sum(f, S) == Cardinality(Units(f, S))

\* Bounded counters of finitely many keys have finitely many units.
LEMMA UnitsAreFinite ==
  ASSUME NEW S, IsFiniteSet(S), NEW max \in Nat, NEW f, \A x \in S : f[x] \in 0..max,
         NEW T \in SUBSET S
  PROVE  IsFiniteSet(Units(f, T)) /\ Sum(f, T) \in Nat
<1>1. IsFiniteSet(S \X (1..max))
  <2>1. 1 \in Int /\ max \in Int
    OBVIOUS
  <2>2. IsFiniteSet(1..max)
    BY <2>1, FS_Interval
  <2> QED BY <2>2, FS_Product
<1>2. Units(f, T) \in SUBSET (S \X (1..max))
  <2>1. ASSUME NEW u \in Units(f, T) PROVE u \in S \X (1..max)
    <3>1. u \in T \X Nat /\ 1 <= u[2] /\ u[2] <= f[u[1]]
      BY DEF Units
    <3>2. f[u[1]] \in 0..max
      BY <3>1
    <3> QED BY <3>1, <3>2
  <2> QED BY <2>1
<1> QED BY <1>1, <1>2, FS_Subset, FS_CardinalityType DEF Sum

\* Smaller counters have a smaller sum, whatever keys without counts there are.
LEMMA SumGoesDown ==
  ASSUME NEW S, IsFiniteSet(S), NEW max \in Nat, NEW f, \A x \in S : f[x] \in 0..max,
         NEW T, NEW h, \A x \in T : h[x] \in Nat /\ (h[x] > 0 => x \in S /\ h[x] <= f[x])
  PROVE  Sum(h, T) \in Nat /\ Sum(f, S) \in Nat /\ Sum(h, T) <= Sum(f, S)
<1>1. Units(h, T) \in SUBSET Units(f, S)
  <2>1. ASSUME NEW u \in Units(h, T) PROVE u \in Units(f, S)
    <3>1. u \in T \X Nat /\ 1 <= u[2] /\ u[2] <= h[u[1]]
      BY DEF Units
    <3>2. u[2] \in Nat /\ h[u[1]] \in Nat /\ h[u[1]] > 0
      BY <3>1
    <3>3. u \in S \X Nat /\ h[u[1]] <= f[u[1]] /\ f[u[1]] \in Nat
      BY <3>1, <3>2
    <3>4. u[2] <= f[u[1]]
      BY <3>1, <3>2, <3>3
    <3> QED BY <3>1, <3>3, <3>4 DEF Units
  <2> QED BY <2>1
<1>2. S \in SUBSET S
  OBVIOUS
<1>3. IsFiniteSet(Units(f, S)) /\ Sum(f, S) \in Nat
  BY <1>2, UnitsAreFinite
<1>4. IsFiniteSet(Units(h, T)) /\ Sum(h, T) <= Sum(f, S)
  BY <1>1, <1>3, FS_Subset DEF Sum
<1> QED BY <1>3, <1>4, FS_CardinalityType DEF Sum

\* One more of one counter is one more in the sum.
LEMMA SumGoesUp ==
  ASSUME NEW S, IsFiniteSet(S), NEW max \in Nat, NEW f, \A x \in S : f[x] \in 0..max,
         NEW h, NEW k \in S, h[k] = f[k] + 1, \A x \in S : x # k => h[x] = f[x]
  PROVE  Sum(h, S) = Sum(f, S) + 1
<1> DEFINE new == <<k, f[k] + 1>>
<1>1. Units(h, S) = Units(f, S) \cup {new}
  <2>1. f[k] \in Nat /\ new \in S \X Nat /\ new[1] = k /\ new[2] = f[k] + 1
    OBVIOUS
  <2>2. ASSUME NEW u \in S \X Nat
        PROVE  (1 <= u[2] /\ u[2] <= h[u[1]]) <=> (1 <= u[2] /\ u[2] <= f[u[1]]) \/ u = new
    <3>1. PICK x \in S, n \in Nat : u = <<x, n>>
      OBVIOUS
    <3>2. u[1] = x /\ u[2] = n
      BY <3>1
    <3>3. CASE x # k
      BY <3>1, <3>2, <3>3
    <3>4. CASE x = k
      <4>1. n <= f[k] + 1 <=> n <= f[k] \/ n = f[k] + 1
        BY <2>1
      <4>2. u = new <=> n = f[k] + 1
        BY <3>1, <3>4
      <4>3. n = f[k] + 1 => 1 <= n
        BY <2>1
      <4> QED BY <3>2, <3>4, <4>1, <4>2, <4>3
    <3> QED BY <3>3, <3>4
  <2> HIDE DEF new
  <2> QED BY <2>1, <2>2 DEF Units
<1>2. new \notin Units(f, S)
  BY DEF Units
<1>3. S \in SUBSET S
  OBVIOUS
<1>4. IsFiniteSet(Units(f, S))
  BY <1>3, UnitsAreFinite
<1> HIDE DEF new
<1>5. Cardinality(Units(f, S) \cup {new}) = Cardinality(Units(f, S)) + 1
  BY <1>2, <1>4, FS_AddElement
<1> QED BY <1>1, <1>5 DEF Sum

\* The same counters have the same sum.
LEMMA SumStays ==
  ASSUME NEW S, NEW f, NEW h, \A x \in S : h[x] = f[x]
  PROVE  Sum(h, S) = Sum(f, S)
<1>1. Units(h, S) = Units(f, S)
  BY DEF Units
<1> QED BY <1>1 DEF Sum

\* Taking one key's counter out of a sum.
LEMMA SumWithout ==
  ASSUME NEW S, IsFiniteSet(S), NEW max \in Nat, NEW f, \A x \in S : f[x] \in 0..max,
         NEW T \in SUBSET S, NEW k \in T
  PROVE  Sum(f, T) = f[k] + Sum(f, T \ {k})
<1> DEFINE A == Units(f, T \ {k})
           B == {k} \X (1..f[k])
<1>1. f[k] \in Nat
  OBVIOUS
<1>2. IsFiniteSet(A) /\ Cardinality(A) \in Nat
  <2>1. T \ {k} \in SUBSET S
    OBVIOUS
  <2> QED BY <2>1, UnitsAreFinite DEF Sum
<1>3. IsFiniteSet(B) /\ Cardinality(B) = f[k]
  <2>1. PICK n \in Nat : n = f[k]
    BY <1>1
  <2>2. IsFiniteSet(1..n) /\ Cardinality(1..n) = n
    <3>1. 1 \in Int /\ n \in Int
      OBVIOUS
    <3>2. Cardinality(1..n) = IF 1 > n THEN 0 ELSE n - 1 + 1
      BY <3>1, FS_Interval
    <3> QED BY <3>1, <3>2, FS_Interval
  <2>3. IsFiniteSet({k}) /\ Cardinality({k}) = 1
    BY FS_Singleton
  <2>4. /\ IsFiniteSet({k} \X (1..n))
        /\ Cardinality({k} \X (1..n)) = Cardinality({k}) * Cardinality(1..n)
    BY <2>2, <2>3, FS_Product
  <2>5. Cardinality({k} \X (1..n)) = n
    BY <2>2, <2>3, <2>4
  <2> QED BY <2>1, <2>4, <2>5
<1>4. A \cap B = {}
  BY DEF Units
<1>5. Units(f, T) = A \cup B
  <2>1. ASSUME NEW u \in A \cup B PROVE u \in Units(f, T)
    BY <1>1 DEF Units
  <2>2. ASSUME NEW u \in Units(f, T) PROVE u \in A \cup B
    <3>1. u \in T \X Nat /\ 1 <= u[2] /\ u[2] <= f[u[1]]
      BY DEF Units
    <3>2. CASE u[1] = k
      BY <1>1, <3>1, <3>2
    <3>3. CASE u[1] # k
      BY <3>1, <3>3 DEF Units
    <3> QED BY <3>2, <3>3
  <2> QED BY <2>1, <2>2
<1> HIDE DEF A, B
<1>6. Cardinality(A \cup B) = Cardinality(A) + Cardinality(B) - Cardinality(A \cap B)
  BY <1>2, <1>3, FS_Union
<1>7. Cardinality(A \cup B) = f[k] + Cardinality(A)
  BY <1>1, <1>2, <1>3, <1>4, <1>6, FS_EmptySet
<1> QED BY <1>5, <1>7 DEF Sum, A

\* What MapThenSumSet of the community modules computes subset by subset.
Sums(g, f, S) ==
  g = [s \in SUBSET S |->
         IF s = {} THEN 0
         ELSE f[CHOOSE x \in s : TRUE] + g[s \ {CHOOSE x \in s : TRUE}]]

\* It is the sum, whatever element is taken out first.
LEMMA SumsAreSums ==
  ASSUME NEW S, IsFiniteSet(S), NEW max \in Nat, NEW f, \A x \in S : f[x] \in 0..max
  PROVE  /\ \E g : Sums(g, f, S)
         /\ \A g : Sums(g, f, S) => g[S] = Sum(f, S)
<1>1. Sum(f, {}) = 0
  <2>1. Units(f, {}) = {}
    BY DEF Units
  <2> QED BY <2>1, FS_EmptySet DEF Sum
<1>2. ASSUME NEW s \in SUBSET S, s # {}
      PROVE  /\ (CHOOSE x \in s : TRUE) \in s
             /\ Sum(f, s) = f[CHOOSE x \in s : TRUE] + Sum(f, s \ {CHOOSE x \in s : TRUE})
  <2>1. PICK k \in s : k = CHOOSE x \in s : TRUE
    BY <1>2
  <2>2. Sum(f, s) = f[k] + Sum(f, s \ {k})
    BY SumWithout
  <2> QED BY <2>1, <2>2
<1>3. \E g : Sums(g, f, S)
  <2> DEFINE g == [s \in SUBSET S |-> Sum(f, s)]
  <2>1. ASSUME NEW s \in SUBSET S
        PROVE  g[s] = IF s = {} THEN 0
                      ELSE f[CHOOSE x \in s : TRUE] + g[s \ {CHOOSE x \in s : TRUE}]
    BY <1>1, <1>2
  <2>2. Sums(g, f, S)
    BY <2>1 DEF Sums
  <2> QED BY <2>2
<1>4. ASSUME NEW g, Sums(g, f, S) PROVE g[S] = Sum(f, S)
  <2> DEFINE bad == {s \in SUBSET S : g[s] # Sum(f, s)}
  <2>1. SUFFICES bad = {}
    OBVIOUS
  <2>2. SUFFICES ASSUME bad # {} PROVE FALSE
    OBVIOUS
  <2>3. PICK s \in bad : \A t \in bad : <<t, s>> \notin StrictSubsetOrdering(S)
    <3>1. IsWellFoundedOn(StrictSubsetOrdering(S), SUBSET S)
      BY FS_StrictSubsetOrderingWellFounded, FS_FiniteSubsetsOfFinite
    <3>2. bad \subseteq SUBSET S
      OBVIOUS
    <3> QED BY <2>2, <3>1, <3>2, WFMin
  <2>4. s # {}
    BY <1>1, <1>4 DEF Sums
  <2> DEFINE t == s \ {CHOOSE x \in s : TRUE}
  <2>5. t \in SUBSET S /\ t \subseteq s /\ t # s
    BY <1>2, <2>4
  <2>6. g[t] = Sum(f, t)
    BY <2>3, <2>5 DEF StrictSubsetOrdering
  <2>7. g[s] = f[CHOOSE x \in s : TRUE] + g[t]
    BY <1>4, <2>4 DEF Sums
  <2> QED BY <1>2, <2>4, <2>6, <2>7
<1> QED BY <1>3, <1>4

-----------------------------------------------------------------------------
(* Counters and statistics *)

\* The stored jobs of a table, and what its counters show.
StoredIn(js) == {j \in Jobs : js[j] # NoJob}

JobSuccesses(js) == [j \in Jobs |-> SuccessesOf(js, j)]
JobErrors(js) == [j \in Jobs |-> ErrorsOf(js, j)]
DaySuccesses(ss) == [d \in Days |-> ss[d].success]
DayFailures(ss) == [d \in Days |-> ss[d].failed]

DayTable == [Days -> DayStat]

\* The statistics ss have seen what the counters of the jobs js show.
Tallied(js, ss) ==
  /\ IsFiniteSet(StoredIn(js))
  /\ Sum(JobSuccesses(js), StoredIn(js)) <= Sum(DaySuccesses(ss), Days)
  /\ Sum(JobErrors(js), StoredIn(js)) <= Sum(DayFailures(ss), Days)

\* The bounds of all these counters.
LEMMA JobCountersAreBounded ==
  ASSUME NEW js \in JobTable
  PROVE  /\ \A j \in Jobs : JobSuccesses(js)[j] \in 0..MaxCount /\ JobErrors(js)[j] \in 0..MaxCount
         /\ MaxCount \in Nat
  BY ConstantsAssumption
     DEF JobTable, JobRecord, Results, JobSuccesses, JobErrors, SuccessesOf, ErrorsOf

LEMMA DayCountersAreBounded ==
  ASSUME NEW ss \in DayTable
  PROVE  /\ \A d \in Days : DaySuccesses(ss)[d] \in 0..MaxStat /\ DayFailures(ss)[d] \in 0..MaxStat
         /\ MaxStat \in Nat
  BY ConstantsAssumption DEF DayTable, DayStat, DaySuccesses, DayFailures

\* The sums of a day's statistics are numbers.
LEMMA DaySumsAreNumbers ==
  ASSUME NEW ss \in DayTable, IsFiniteSet(Days)
  PROVE  Sum(DaySuccesses(ss), Days) \in Nat /\ Sum(DayFailures(ss), Days) \in Nat
<1>1. /\ \A d \in Days : DaySuccesses(ss)[d] \in 0..MaxStat
      /\ \A d \in Days : DayFailures(ss)[d] \in 0..MaxStat
      /\ MaxStat \in Nat /\ Days \in SUBSET Days
  BY DayCountersAreBounded
<1>2. Sum(DaySuccesses(ss), Days) \in Nat
  BY <1>1, UnitsAreFinite
<1>3. Sum(DayFailures(ss), Days) \in Nat
  BY <1>1, UnitsAreFinite
<1> QED BY <1>2, <1>3

\* The sums are those CountersWithinStats is about.
LEMMA JobSuccessesAdded ==
  ASSUME NEW js \in JobTable, IsFiniteSet(StoredIn(js))
  PROVE  MapThenSumSet(LAMBDA j : js[j].results.successCount, StoredIn(js))
           = Sum(JobSuccesses(js), StoredIn(js))
<1> DEFINE Added(g) == g = [s \in SUBSET StoredIn(js) |->
                              IF s = {} THEN 0
                              ELSE js[CHOOSE x \in s : TRUE].results.successCount
                                     + g[s \ {CHOOSE x \in s : TRUE}]]
           it == CHOOSE it : Added(it)
<1>1. MapThenSumSet(LAMBDA j : js[j].results.successCount, StoredIn(js)) = it[StoredIn(js)]
  BY DEF MapThenSumSet, MapThenFoldSet
<1>2. ASSUME NEW g PROVE Sums(g, JobSuccesses(js), StoredIn(js)) <=> Added(g)
  <2>1. \A x \in StoredIn(js) : JobSuccesses(js)[x] = js[x].results.successCount
    BY DEF StoredIn, JobSuccesses, SuccessesOf
  <2>2. \A s \in SUBSET StoredIn(js) : s # {} =>
          JobSuccesses(js)[CHOOSE x \in s : TRUE] = js[CHOOSE x \in s : TRUE].results.successCount
    BY <2>1
  <2> QED BY <2>2 DEF Sums
<1>3. /\ \E g : Sums(g, JobSuccesses(js), StoredIn(js))
      /\ \A g : Sums(g, JobSuccesses(js), StoredIn(js)) =>
           g[StoredIn(js)] = Sum(JobSuccesses(js), StoredIn(js))
  <2>1. \A x \in StoredIn(js) : JobSuccesses(js)[x] \in 0..MaxCount
    BY JobCountersAreBounded DEF StoredIn
  <2> QED BY <2>1, JobCountersAreBounded, SumsAreSums
<1>4. PICK g : Sums(g, JobSuccesses(js), StoredIn(js))
  BY <1>3
<1>5. Added(g)
  BY <1>2, <1>4
<1>6. Added(it)
  BY <1>5, Zenon
<1> HIDE DEF it
<1> QED BY <1>1, <1>2, <1>3, <1>6

\* The same for errors.
LEMMA JobErrorsAdded ==
  ASSUME NEW js \in JobTable, IsFiniteSet(StoredIn(js))
  PROVE  MapThenSumSet(LAMBDA j : js[j].results.errorCount, StoredIn(js))
           = Sum(JobErrors(js), StoredIn(js))
<1> DEFINE Added(g) == g = [s \in SUBSET StoredIn(js) |->
                              IF s = {} THEN 0
                              ELSE js[CHOOSE x \in s : TRUE].results.errorCount
                                     + g[s \ {CHOOSE x \in s : TRUE}]]
           it == CHOOSE it : Added(it)
<1>1. MapThenSumSet(LAMBDA j : js[j].results.errorCount, StoredIn(js)) = it[StoredIn(js)]
  BY DEF MapThenSumSet, MapThenFoldSet
<1>2. ASSUME NEW g PROVE Sums(g, JobErrors(js), StoredIn(js)) <=> Added(g)
  <2>1. \A x \in StoredIn(js) : JobErrors(js)[x] = js[x].results.errorCount
    BY DEF StoredIn, JobErrors, ErrorsOf
  <2>2. \A s \in SUBSET StoredIn(js) : s # {} =>
          JobErrors(js)[CHOOSE x \in s : TRUE] = js[CHOOSE x \in s : TRUE].results.errorCount
    BY <2>1
  <2> QED BY <2>2 DEF Sums
<1>3. /\ \E g : Sums(g, JobErrors(js), StoredIn(js))
      /\ \A g : Sums(g, JobErrors(js), StoredIn(js)) =>
           g[StoredIn(js)] = Sum(JobErrors(js), StoredIn(js))
  <2>1. \A x \in StoredIn(js) : JobErrors(js)[x] \in 0..MaxCount
    BY JobCountersAreBounded DEF StoredIn
  <2> QED BY <2>1, JobCountersAreBounded, SumsAreSums
<1>4. PICK g : Sums(g, JobErrors(js), StoredIn(js))
  BY <1>3
<1>5. Added(g)
  BY <1>2, <1>4
<1>6. Added(it)
  BY <1>5, Zenon
<1> HIDE DEF it
<1> QED BY <1>1, <1>2, <1>3, <1>6

\* The same for the successes of the days.
LEMMA DaySuccessesAdded ==
  ASSUME NEW ss \in DayTable, IsFiniteSet(Days)
  PROVE  MapThenSumSet(LAMBDA d : ss[d].success, Days)
           = Sum(DaySuccesses(ss), Days)
<1> DEFINE Added(g) == g = [s \in SUBSET Days |->
                              IF s = {} THEN 0
                              ELSE ss[CHOOSE x \in s : TRUE].success
                                     + g[s \ {CHOOSE x \in s : TRUE}]]
           it == CHOOSE it : Added(it)
<1>1. MapThenSumSet(LAMBDA d : ss[d].success, Days) = it[Days]
  BY DEF MapThenSumSet, MapThenFoldSet
<1>2. ASSUME NEW g PROVE Sums(g, DaySuccesses(ss), Days) <=> Added(g)
  <2>1. \A x \in Days : DaySuccesses(ss)[x] = ss[x].success
    BY DEF DaySuccesses
  <2>2. \A s \in SUBSET Days : s # {} =>
          DaySuccesses(ss)[CHOOSE x \in s : TRUE] = ss[CHOOSE x \in s : TRUE].success
    BY <2>1
  <2> QED BY <2>2 DEF Sums
<1>3. /\ \E g : Sums(g, DaySuccesses(ss), Days)
      /\ \A g : Sums(g, DaySuccesses(ss), Days) => g[Days] = Sum(DaySuccesses(ss), Days)
  <2>1. \A x \in Days : DaySuccesses(ss)[x] \in 0..MaxStat
    BY DayCountersAreBounded
  <2> QED BY <2>1, DayCountersAreBounded, SumsAreSums
<1>4. PICK g : Sums(g, DaySuccesses(ss), Days)
  BY <1>3
<1>5. Added(g)
  BY <1>2, <1>4
<1>6. Added(it)
  BY <1>5, Zenon
<1> HIDE DEF it
<1> QED BY <1>1, <1>2, <1>3, <1>6

\* The same for their failures.
LEMMA DayFailuresAdded ==
  ASSUME NEW ss \in DayTable, IsFiniteSet(Days)
  PROVE  MapThenSumSet(LAMBDA d : ss[d].failed, Days)
           = Sum(DayFailures(ss), Days)
<1> DEFINE Added(g) == g = [s \in SUBSET Days |->
                              IF s = {} THEN 0
                              ELSE ss[CHOOSE x \in s : TRUE].failed
                                     + g[s \ {CHOOSE x \in s : TRUE}]]
           it == CHOOSE it : Added(it)
<1>1. MapThenSumSet(LAMBDA d : ss[d].failed, Days) = it[Days]
  BY DEF MapThenSumSet, MapThenFoldSet
<1>2. ASSUME NEW g PROVE Sums(g, DayFailures(ss), Days) <=> Added(g)
  <2>1. \A x \in Days : DayFailures(ss)[x] = ss[x].failed
    BY DEF DayFailures
  <2>2. \A s \in SUBSET Days : s # {} =>
          DayFailures(ss)[CHOOSE x \in s : TRUE] = ss[CHOOSE x \in s : TRUE].failed
    BY <2>1
  <2> QED BY <2>2 DEF Sums
<1>3. /\ \E g : Sums(g, DayFailures(ss), Days)
      /\ \A g : Sums(g, DayFailures(ss), Days) => g[Days] = Sum(DayFailures(ss), Days)
  <2>1. \A x \in Days : DayFailures(ss)[x] \in 0..MaxStat
    BY DayCountersAreBounded
  <2> QED BY <2>1, DayCountersAreBounded, SumsAreSums
<1>4. PICK g : Sums(g, DayFailures(ss), Days)
  BY <1>3
<1>5. Added(g)
  BY <1>2, <1>4
<1>6. Added(it)
  BY <1>5, Zenon
<1> HIDE DEF it
<1> QED BY <1>1, <1>2, <1>3, <1>6

\* Steps that store one job more at most keep the stored jobs finite.
LEMMA StoredJobsStayFinite ==
  ASSUME NEW js, NEW ks, IsFiniteSet(StoredIn(js)), NEW j,
         \A x \in Jobs : x # j => (ks[x] # NoJob => js[x] # NoJob)
  PROVE  IsFiniteSet(StoredIn(ks))
<1>1. IsFiniteSet(StoredIn(js) \cup {j})
  BY FS_AddElement
<1>2. StoredIn(ks) \in SUBSET (StoredIn(js) \cup {j})
  BY DEF StoredIn
<1> QED BY <1>1, <1>2, FS_Subset

\* What stores one job more at most, adds nothing to a job's counters, and
\* leaves the statistics alone.
LEMMA NothingCounted ==
  ASSUME NEW js \in JobTable, NEW ks \in JobTable, NEW ss \in DayTable, IsFiniteSet(Days),
         Tallied(js, ss), NEW j, \A x \in Jobs : x # j => (ks[x] # NoJob => js[x] # NoJob),
         \A x \in Jobs : /\ SuccessesOf(ks, x) <= SuccessesOf(js, x)
                         /\ ErrorsOf(ks, x) <= ErrorsOf(js, x)
  PROVE  Tallied(ks, ss)
<1>1. /\ \A x \in Jobs : JobSuccesses(js)[x] \in 0..MaxCount /\ JobErrors(js)[x] \in 0..MaxCount
      /\ \A x \in Jobs : JobSuccesses(ks)[x] \in 0..MaxCount /\ JobErrors(ks)[x] \in 0..MaxCount
      /\ MaxCount \in Nat
  BY JobCountersAreBounded
<1>2. /\ IsFiniteSet(StoredIn(js)) /\ IsFiniteSet(StoredIn(ks))
      /\ StoredIn(js) \subseteq Jobs /\ StoredIn(ks) \subseteq Jobs
  <2>1. IsFiniteSet(StoredIn(js))
    BY DEF Tallied
  <2>2. IsFiniteSet(StoredIn(ks))
    BY <2>1, StoredJobsStayFinite
  <2> QED BY <2>1, <2>2 DEF StoredIn
<1>3. \A x \in Jobs : (JobSuccesses(js)[x] > 0 \/ JobErrors(js)[x] > 0) => x \in StoredIn(js)
  BY DEF JobSuccesses, JobErrors, SuccessesOf, ErrorsOf, StoredIn
<1>4. \A x \in Jobs : /\ JobSuccesses(ks)[x] <= JobSuccesses(js)[x]
                      /\ JobErrors(ks)[x] <= JobErrors(js)[x]
  BY DEF JobSuccesses, JobErrors
<1>5. /\ Sum(JobSuccesses(ks), StoredIn(ks)) \in Nat
      /\ Sum(JobSuccesses(js), StoredIn(js)) \in Nat
      /\ Sum(JobSuccesses(ks), StoredIn(ks)) <= Sum(JobSuccesses(js), StoredIn(js))
  <2>1. \A x \in StoredIn(ks) :
          /\ JobSuccesses(ks)[x] \in Nat
          /\ JobSuccesses(ks)[x] > 0 =>
               x \in StoredIn(js) /\ JobSuccesses(ks)[x] <= JobSuccesses(js)[x]
    BY <1>1, <1>2, <1>3, <1>4
  <2>2. \A x \in StoredIn(js) : JobSuccesses(js)[x] \in 0..MaxCount
    BY <1>1, <1>2
  <2> QED BY <1>1, <1>2, <2>1, <2>2, SumGoesDown
<1>6. /\ Sum(JobErrors(ks), StoredIn(ks)) \in Nat
      /\ Sum(JobErrors(js), StoredIn(js)) \in Nat
      /\ Sum(JobErrors(ks), StoredIn(ks)) <= Sum(JobErrors(js), StoredIn(js))
  <2>1. \A x \in StoredIn(ks) :
          /\ JobErrors(ks)[x] \in Nat
          /\ JobErrors(ks)[x] > 0 =>
               x \in StoredIn(js) /\ JobErrors(ks)[x] <= JobErrors(js)[x]
    BY <1>1, <1>2, <1>3, <1>4
  <2>2. \A x \in StoredIn(js) : JobErrors(js)[x] \in 0..MaxCount
    BY <1>1, <1>2
  <2> QED BY <1>1, <1>2, <2>1, <2>2, SumGoesDown
<1>7. Sum(JobSuccesses(ks), StoredIn(ks)) <= Sum(DaySuccesses(ss), Days)
  BY <1>5, DaySumsAreNumbers DEF Tallied
<1>8. Sum(JobErrors(ks), StoredIn(ks)) <= Sum(DayFailures(ss), Days)
  BY <1>6, DaySumsAreNumbers DEF Tallied
<1> QED BY <1>2, <1>7, <1>8 DEF Tallied

\* A result that counts adds one to its job's counter and to that of its day.
OneCounted(js, ks, ss, ts, j, d) ==
  /\ js[j] # NoJob /\ ks[j] # NoJob
  /\ \A x \in Jobs : x # j => ks[x] = js[x]
  /\ \A x \in Days : x # d => ts[x] = ss[x]
  /\ \/ /\ ks[j].results.successCount = js[j].results.successCount + 1
        /\ ks[j].results.errorCount = js[j].results.errorCount
        /\ ts[d].success = ss[d].success + 1 /\ ts[d].failed = ss[d].failed
     \/ /\ ks[j].results.successCount = js[j].results.successCount
        /\ ks[j].results.errorCount = js[j].results.errorCount + 1
        /\ ts[d].success = ss[d].success /\ ts[d].failed = ss[d].failed + 1

LEMMA ResultCounted ==
  ASSUME NEW js \in JobTable, NEW ks, NEW ss \in DayTable, NEW ts,
         IsFiniteSet(Days), Tallied(js, ss), NEW j \in Jobs, NEW d \in Days,
         OneCounted(js, ks, ss, ts, j, d)
  PROVE  Tallied(ks, ts)
<1> DEFINE S == StoredIn(js)
           f == JobSuccesses(js)
           g == JobErrors(js)
           f2 == JobSuccesses(ks)
           g2 == JobErrors(ks)
           a == DaySuccesses(ss)
           b == DayFailures(ss)
           a2 == DaySuccesses(ts)
           b2 == DayFailures(ts)
<1>1. StoredIn(ks) = S /\ j \in S /\ S \subseteq Jobs /\ IsFiniteSet(S)
  BY DEF StoredIn, Tallied, OneCounted
<1>2. /\ \A x \in S : x # j => f2[x] = f[x] /\ g2[x] = g[x]
      /\ f[j] = js[j].results.successCount /\ f2[j] = ks[j].results.successCount
      /\ g[j] = js[j].results.errorCount /\ g2[j] = ks[j].results.errorCount
  BY <1>1 DEF JobSuccesses, JobErrors, SuccessesOf, ErrorsOf, OneCounted
<1>3. /\ \A x \in Days : x # d => a2[x] = a[x] /\ b2[x] = b[x]
      /\ a[d] = ss[d].success /\ a2[d] = ts[d].success
      /\ b[d] = ss[d].failed /\ b2[d] = ts[d].failed
  BY DEF DaySuccesses, DayFailures, OneCounted
<1>4. /\ \A x \in S : f[x] \in 0..MaxCount /\ g[x] \in 0..MaxCount
      /\ \A x \in Days : a[x] \in 0..MaxStat /\ b[x] \in 0..MaxStat
      /\ MaxCount \in Nat /\ MaxStat \in Nat
  BY <1>1, JobCountersAreBounded, DayCountersAreBounded
<1>5. Sum(f, S) <= Sum(a, Days) /\ Sum(g, S) <= Sum(b, Days)
  BY DEF Tallied
<1>6. Tallied(ks, ts) <=> Sum(f2, S) <= Sum(a2, Days) /\ Sum(g2, S) <= Sum(b2, Days)
  BY <1>1 DEF Tallied
<1>7. \/ f2[j] = f[j] + 1 /\ g2[j] = g[j] /\ a2[d] = a[d] + 1 /\ b2[d] = b[d]
      \/ f2[j] = f[j] /\ g2[j] = g[j] + 1 /\ a2[d] = a[d] /\ b2[d] = b[d] + 1
  BY <1>2, <1>3 DEF OneCounted
<1> HIDE DEF S, f, g, f2, g2, a, b, a2, b2
<1>8. Sum(f, S) \in Nat /\ Sum(g, S) \in Nat /\ Sum(a, Days) \in Nat /\ Sum(b, Days) \in Nat
  <2>1. Sum(f, S) \in Nat
    BY <1>1, <1>4, UnitsAreFinite
  <2>2. Sum(g, S) \in Nat
    BY <1>1, <1>4, UnitsAreFinite
  <2>3. Sum(a, Days) \in Nat
    BY <1>4, UnitsAreFinite
  <2>4. Sum(b, Days) \in Nat
    BY <1>4, UnitsAreFinite
  <2> QED BY <2>1, <2>2, <2>3, <2>4
<1>9. CASE f2[j] = f[j] + 1 /\ g2[j] = g[j] /\ a2[d] = a[d] + 1 /\ b2[d] = b[d]
  <2>1. Sum(f2, S) = Sum(f, S) + 1
    BY <1>1, <1>2, <1>4, <1>9, SumGoesUp
  <2>2. Sum(a2, Days) = Sum(a, Days) + 1
    BY <1>3, <1>4, <1>9, SumGoesUp
  <2>3. Sum(g2, S) = Sum(g, S)
    BY <1>2, <1>9, SumStays
  <2>4. Sum(b2, Days) = Sum(b, Days)
    BY <1>3, <1>9, SumStays
  <2> QED BY <1>5, <1>6, <1>8, <2>1, <2>2, <2>3, <2>4
<1>10. CASE f2[j] = f[j] /\ g2[j] = g[j] + 1 /\ a2[d] = a[d] /\ b2[d] = b[d] + 1
  <2>1. Sum(g2, S) = Sum(g, S) + 1
    BY <1>1, <1>2, <1>4, <1>10, SumGoesUp
  <2>2. Sum(b2, Days) = Sum(b, Days) + 1
    BY <1>3, <1>4, <1>10, SumGoesUp
  <2>3. Sum(f2, S) = Sum(f, S)
    BY <1>2, <1>10, SumStays
  <2>4. Sum(a2, Days) = Sum(a, Days)
    BY <1>3, <1>10, SumStays
  <2> QED BY <1>5, <1>6, <1>8, <2>1, <2>2, <2>3, <2>4
<1> QED BY <1>7, <1>9, <1>10

\* That is what Count and IncrementStat write.
WithCount(js, j, e, status) == [js EXCEPT ![j].results = Count(js[j].results, e, status)]
WithStat(ss, d, e) == [ss EXCEPT ![d] = IncrementStat(ss[d], e.success)]

LEMMA CountedOnce ==
  ASSUME NEW js \in JobTable, NEW ss \in DayTable, NEW j \in Jobs, NEW d \in Days,
         NEW e \in ExecutionRecord, NEW status,
         js[j] # NoJob, WithCount(js, j, e, status)[j] # NoJob
  PROVE  OneCounted(js, WithCount(js, j, e, status), ss, WithStat(ss, d, e), j, d)
<1> DEFINE ks == WithCount(js, j, e, status)
           ts == WithStat(ss, d, e)
           r == js[j].results
           new == Count(r, e, status)
           day == IncrementStat(ss[d], e.success)
<1>1. js[j] \in JobRecord /\ r \in Results /\ ss[d] \in DayStat /\ e.success \in BOOLEAN
  BY ConstantsAssumption DEF JobTable, JobRecord, DayTable, ExecutionRecord
<1>2. /\ e.success => /\ new.successCount = r.successCount + 1 /\ new.errorCount = r.errorCount
                      /\ day.success = ss[d].success + 1 /\ day.failed = ss[d].failed
      /\ ~e.success => /\ new.successCount = r.successCount /\ new.errorCount = r.errorCount + 1
                       /\ day.success = ss[d].success /\ day.failed = ss[d].failed + 1
  BY <1>1 DEF Count, IncrementStat, Results, DayStat
<1>3. ks = [js EXCEPT ![j].results = new] /\ ts = [ss EXCEPT ![d] = day]
  BY DEF WithCount, WithStat
<1> HIDE DEF new, day, ks, ts
<1>4. /\ \A x \in Jobs : x # j => ks[x] = js[x]
      /\ ks[j].results = new
      /\ \A x \in Days : x # d => ts[x] = ss[x]
      /\ ts[d] = day
  BY <1>1, <1>3 DEF JobTable, JobRecord, DayTable
<1>5. ks[j] # NoJob
  BY DEF ks
<1>6. OneCounted(js, ks, ss, ts, j, d)
  BY <1>1, <1>2, <1>4, <1>5 DEF OneCounted
<1> QED BY <1>6 DEF ks, ts

\* An empty store counts nothing.
LEMMA NothingStored ==
  ASSUME NEW js, NEW ss \in DayTable, IsFiniteSet(Days), \A j \in Jobs : js[j] = NoJob
  PROVE  Tallied(js, ss)
<1>1. StoredIn(js) = {}
  BY DEF StoredIn
<1>2. Units(JobSuccesses(js), StoredIn(js)) = {} /\ Units(JobErrors(js), StoredIn(js)) = {}
  BY <1>1 DEF Units
<1>3. Sum(JobSuccesses(js), StoredIn(js)) = 0 /\ Sum(JobErrors(js), StoredIn(js)) = 0
  BY <1>2, FS_EmptySet DEF Sum
<1> QED BY <1>1, <1>3, FS_EmptySet, DaySumsAreNumbers DEF Tallied

\* Every step leaves the statistics ahead of the counters.
LEMMA StepTallies ==
  ASSUME IsFiniteSet(Days), PayloadsCountNone, IInv, Tallied(jobs, stats), [Next]_vars
  PROVE  Tallied(jobs', stats')
<1>0. jobs \in JobTable /\ jobs' \in JobTable /\ stats \in DayTable
  BY StepFacts DEF IInv, TypeOK, JobTable, DayTable
<1>1. \A x \in Jobs : SuccessesOf(jobs, x) \in Nat /\ ErrorsOf(jobs, x) \in Nat
  BY ConstantsAssumption DEF IInv, TypeOK, JobRecord, Results, SuccessesOf, ErrorsOf
<1>2. ASSUME jobs' = jobs, stats' = stats PROVE Tallied(jobs', stats')
  BY <1>2
<1>3. ASSUME NEW j \in Jobs, NEW p \in Payloads, SetJob(j, p) PROVE Tallied(jobs', stats')
  <2>1. /\ \A x \in Jobs : x # j => (jobs'[x] # NoJob => jobs[x] # NoJob)
        /\ \A x \in Jobs : /\ SuccessesOf(jobs', x) = SuccessesOf(jobs, x)
                           /\ ErrorsOf(jobs', x) = ErrorsOf(jobs, x)
    BY <1>3, SetJobFacts DEF Stored
  <2>2. \A x \in Jobs : /\ SuccessesOf(jobs', x) <= SuccessesOf(jobs, x)
                        /\ ErrorsOf(jobs', x) <= ErrorsOf(jobs, x)
    BY <1>1, <2>1
  <2>3. stats' = stats
    BY <1>3 DEF SetJob
  <2> QED BY <1>0, <2>1, <2>2, <2>3, NothingCounted
<1>4. ASSUME NEW j \in Jobs, DeleteJob(j) PROVE Tallied(jobs', stats')
  <2>1. \A x \in Jobs : jobs'[x] # NoJob => /\ jobs[x] # NoJob
                                           /\ jobs'[x].results = jobs[x].results
    BY <1>4, DeleteJobFacts DEF Stored
  <2>2. \A x \in Jobs : /\ SuccessesOf(jobs', x) <= SuccessesOf(jobs, x)
                        /\ ErrorsOf(jobs', x) <= ErrorsOf(jobs, x)
    BY <1>1, <2>1 DEF SuccessesOf, ErrorsOf
  <2>3. /\ stats' = stats
        /\ \A x \in Jobs : x # j => (jobs'[x] # NoJob => jobs[x] # NoJob)
    BY <1>4, <2>1 DEF DeleteJob
  <2> QED BY <1>0, <2>2, <2>3, NothingCounted
<1>5. ASSUME NEW j \in Jobs, DeleteExecutions(j) PROVE Tallied(jobs', stats')
  <2>1. /\ \A x \in Jobs : jobs'[x] # NoJob <=> jobs[x] # NoJob
        /\ jobs'[j].results.successCount = 0 /\ jobs'[j].results.errorCount = 0
        /\ \A x \in Jobs \ {j} : jobs'[x] = jobs[x]
    BY <1>5, DeleteExecutionsFacts DEF Stored
  <2>2. \A x \in Jobs : /\ SuccessesOf(jobs', x) <= SuccessesOf(jobs, x)
                        /\ ErrorsOf(jobs', x) <= ErrorsOf(jobs, x)
    BY <1>1, <2>1 DEF SuccessesOf, ErrorsOf
  <2>3. /\ stats' = stats
        /\ \A x \in Jobs : x # j => (jobs'[x] # NoJob => jobs[x] # NoJob)
    BY <1>5, <2>1 DEF DeleteExecutions
  <2> QED BY <1>0, <2>2, <2>3, NothingCounted
<1>6. ASSUME NEW k \in Keys, NEW e \in ExecutionRecord, SetExecutionDone(k, e)
      PROVE  Tallied(jobs', stats')
  <2>1. CASE ~Counts(k, e)
    BY <1>2, <1>6, <2>1 DEF SetExecutionDone
  <2>2. CASE Counts(k, e)
    <3> DEFINE j == JobOf[k]
               d == DayOf[e.finished]
               status == GroupStatus(PutExecution(k, e), j, GroupOf[k])
    <3>1. /\ jobs' = WithCount(jobs, j, e, status) /\ stats' = WithStat(stats, d, e)
          /\ jobs[j] # NoJob
      BY <1>6, <2>2 DEF SetExecutionDone, Stored, WithCount, WithStat
    <3>2. j \in Jobs /\ d \in Days /\ e.success \in BOOLEAN
      BY <1>6, ConstantsAssumption DEF SetExecutionDone, ExecutionRecord
    <3>3. jobs'[j] # NoJob
      BY <1>6, <3>1, <3>2, SetExecutionDoneFacts DEF Stored
    <3> HIDE DEF j, d, status
    <3>4. OneCounted(jobs, WithCount(jobs, j, e, status), stats, WithStat(stats, d, e), j, d)
      BY <1>0, <1>6, <3>1, <3>2, <3>3, CountedOnce
    <3> QED BY <1>0, <3>1, <3>2, <3>4, ResultCounted
  <2> QED BY <2>1, <2>2
<1> QED BY <1>2, <1>3, <1>4, <1>5, <1>6 DEF Next, SetExecution, vars

\* CountersWithinStats says it of the sums of the community modules.
LEMMA TalliedMeansWithin ==
  ASSUME IInv, IsFiniteSet(Days), Tallied(jobs, stats)
  PROVE  CountersWithinStats
<1>1. /\ jobs \in JobTable /\ stats \in DayTable /\ IsFiniteSet(StoredIn(jobs))
      /\ StoredIn(jobs) = {j \in Jobs : Stored(j)}
  BY DEF IInv, TypeOK, JobTable, DayTable, Tallied, StoredIn, Stored
<1> QED BY <1>1, JobSuccessesAdded, JobErrorsAdded, DaySuccessesAdded, DayFailuresAdded
        DEF Tallied, CountersWithinStats

\* The statistics of the days have seen everything the counters of the stored
\* jobs show, for any number of jobs and days, as long as the days are finitely
\* many and the jobs that clients write carry no counts of their own
\* (SetExecutionDone, which increments both in one transaction).
THEOREM StatsSeeAllCounts ==
  ASSUME IsFiniteSet(Days), PayloadsCountNone
  PROVE  Spec => []CountersWithinStats
<1> DEFINE Tally == Tallied(jobs, stats)
<1>1. Init => Tally
  <2> SUFFICES ASSUME Init PROVE Tally
    OBVIOUS
  <2>1. stats \in DayTable
    BY InitIInv DEF IInv, TypeOK, DayTable
  <2> QED BY <2>1, NothingStored DEF Init
<1>2. IInv /\ Tally /\ [Next]_vars => Tally'
  BY StepTallies
<1>3. IInv /\ Tally => CountersWithinStats
  BY TalliedMeansWithin
<1> QED BY Invariance, <1>1, <1>2, <1>3, PTL DEF Spec
=============================================================================
