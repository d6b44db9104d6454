------------------------- MODULE DkronFiguresProofs -------------------------
(***************************************************************************)
(* What the dashboard shows of a store, proved for every value of the      *)
(* constants: the durations of the analytics are those measured, the chart *)
(* has counted each success the analytics show, and the status of a job    *)
(* goes with its counters.                                                 *)
(***************************************************************************)
EXTENDS DkronFigures, DkronStoreProofs

-----------------------------------------------------------------------------
(* The fold of Analytics *)

\* What MapThenFoldSet of the community modules computes subset by subset.
Added(g, S) ==
  g = [s \in SUBSET S |-> IF s = {} THEN NothingAdded
                          ELSE AddExecution(g[s \ {Max(s)}], Max(s))]

\* A finite set of numbers has a greatest one.
LEMMA MaxFacts ==
  ASSUME NEW s \in SUBSET Nat, IsFiniteSet(s), s # {}
  PROVE  Max(s) \in s /\ \A y \in s : Max(s) >= y
<1>1. PICK k \in s : Newer(s, k) = 0
  <2>1. Cardinality(s) \in Nat /\ Cardinality(s) # 0
    BY FS_EmptySet, FS_CardinalityType
  <2>2. 0 \in 0..(Cardinality(s) - 1)
    BY <2>1
  <2> QED BY <2>2, NewerIsARanking
<1>2. \A y \in s : k >= y
  <2>1. {m \in s : m > k} \in SUBSET s
    OBVIOUS
  <2>2. {m \in s : m > k} = {}
    BY <1>1, <2>1, FS_Subset, FS_EmptySet DEF Newer
  <2> QED BY <2>2
<1>3. \E x \in s : \A y \in s : x >= y
  BY <1>2
<1> QED BY <1>3, Zenon DEF Max

\* The subsets of S with n elements at most.
Small(S, n) == {s \in SUBSET S : Cardinality(s) <= n}

\* There is a function that satisfies the equation of the fold.
LEMMA AddedExists ==
  ASSUME NEW S \in SUBSET Nat, IsFiniteSet(S)
  PROVE  \E g : Added(g, S)
<1> DEFINE AddedUpTo(g, n) ==
             g = [s \in Small(S, n) |-> IF s = {} THEN NothingAdded
                                        ELSE AddExecution(g[s \ {Max(s)}], Max(s))]
           T == {n \in Nat : \E g : AddedUpTo(g, n)}
<1>1. ASSUME NEW s \in SUBSET S, s # {}
      PROVE  /\ Max(s) \in s /\ Cardinality(s) \in Nat
             /\ s \ {Max(s)} \in SUBSET S
             /\ Cardinality(s \ {Max(s)}) = Cardinality(s) - 1
  BY <1>1, FS_Subset, MaxFacts, FS_RemoveElement, FS_CardinalityType
<1>2. Cardinality(S) \in Nat /\ \A s \in SUBSET S : Cardinality(s) <= Cardinality(S)
  BY FS_Subset, FS_CardinalityType
<1>3. 0 \in T
  <2>1. \A s \in Small(S, 0) : s = {}
    <3>1. \A s \in SUBSET S : IsFiniteSet(s) /\ (Cardinality(s) = 0 <=> s = {})
      BY FS_Subset, FS_EmptySet
    <3>2. \A s \in SUBSET S : Cardinality(s) \in Nat
      BY <3>1, FS_CardinalityType
    <3> QED BY <3>1, <3>2 DEF Small
  <2> DEFINE g == [s \in Small(S, 0) |-> NothingAdded]
  <2>2. AddedUpTo(g, 0)
    BY <2>1
  <2> QED BY <2>2
<1>4. ASSUME NEW n \in T PROVE n + 1 \in T
  <2>1. PICK g : AddedUpTo(g, n)
    OBVIOUS
  <2> DEFINE h == [s \in Small(S, n + 1) |-> IF s = {} THEN NothingAdded
                                             ELSE AddExecution(g[s \ {Max(s)}], Max(s))]
  <2>2. Small(S, n) \subseteq Small(S, n + 1)
    <3>1. \A s \in SUBSET S : Cardinality(s) \in Nat
      BY FS_CardinalityType, FS_Subset
    <3> QED BY <3>1 DEF Small
  <2>3. \A s \in Small(S, n) : h[s] = g[s]
    BY <2>1, <2>2
  <2>4. \A s \in Small(S, n + 1) : s # {} => s \ {Max(s)} \in Small(S, n)
    BY <1>1 DEF Small
  <2>5. AddedUpTo(h, n + 1)
    BY <2>3, <2>4
  <2> HIDE DEF h, AddedUpTo
  <2> QED BY <2>5
<1>5. T = Nat
  <2> HIDE DEF T
  <2>1. T \subseteq Nat
    BY DEF T
  <2> QED BY <1>3, <1>4, <2>1, AllNumbers
<1>6. Small(S, Cardinality(S)) = SUBSET S
  BY <1>2 DEF Small
<1>7. PICK g : AddedUpTo(g, Cardinality(S))
  BY <1>2, <1>5
<1> QED BY <1>6, <1>7 DEF Added

\* So Analytics adds the stored executions, one after the other.
LEMMA AnalyticsIsAdded ==
  ASSUME ExecutionsAreFinite
  PROVE  \E g : Added(g, StoredExecutions) /\ Analytics = g[StoredExecutions]
<1>1. Analytics = (CHOOSE g : Added(g, StoredExecutions))[StoredExecutions]
  BY DEF Analytics, MapThenFoldSet, Added
<1>2. StoredExecutions \in SUBSET Nat /\ IsFiniteSet(StoredExecutions)
  BY ConstantsAssumption DEF StoredExecutions, ExecutionsAreFinite
<1>3. \E g : Added(g, StoredExecutions)
  BY <1>2, AddedExists
<1> QED BY <1>1, <1>3, Zenon

-----------------------------------------------------------------------------
(* What is added *)

FigureSet == [total : Nat, successful : Nat, failed : Nat, samples : Nat, duration : Nat,
              shortest : Nat, longest : Nat, last : Nat]

Succeeded(T) == {k \in T : execs[k].success}
Measured(T) == {k \in T : execs[k].finished >= k}
Duration(k) == execs[k].finished - k

\* The figures f count the successes among the executions T, ...
CountsOf(f, T) == f.successful = Cardinality(Succeeded(T))

\* ... and know how long the ones that ended took: the longest and, unless one
\* took no time at all, the shortest, and a duration in all that every bound of
\* the single durations bounds.
Measures(M, samples, duration, shortest, longest) ==
  /\ M = {} => shortest = 0 /\ longest = 0
  /\ M # {} => \E k \in M : Duration(k) = longest
  /\ \A k \in M : Duration(k) <= longest
  /\ (\A k \in M : Duration(k) > 0) =>
       /\ M # {} => \E k \in M : Duration(k) = shortest
       /\ \A k \in M : shortest <= Duration(k)
  /\ \A m \in Nat : (\A k \in M : m <= Duration(k)) => m * samples <= duration
  /\ \A m \in Nat : (\A k \in M : Duration(k) <= m) => duration <= m * samples

TimesOf(f, T) == Measures(Measured(T), f.samples, f.duration, f.shortest, f.longest)

Describes(f, T) == f \in FigureSet /\ CountsOf(f, T) /\ TimesOf(f, T)

\* What is known of a stored execution.
LEMMA StoredFacts ==
  ASSUME TypeOK, NEW k \in StoredExecutions
  PROVE  /\ k \in Keys /\ k \in Nat /\ execs[k] \in ExecutionRecord
         /\ execs[k].finished \in Nat /\ execs[k].success \in BOOLEAN
         /\ execs[k].finished >= k => Duration(k) \in Nat
  BY ConstantsAssumption
     DEF TypeOK, StoredExecutions, ExecutionRecord, Times, Duration

\* One more execution.
LEMMA AddToFacts ==
  ASSUME TypeOK, NEW k \in StoredExecutions, NEW f \in FigureSet
  PROVE  LET g == AddTo(f, k) IN
         /\ g \in FigureSet
         /\ g.successful = f.successful + (IF execs[k].success THEN 1 ELSE 0)
         /\ execs[k].finished < k =>
              /\ g.samples = f.samples /\ g.duration = f.duration
              /\ g.shortest = f.shortest /\ g.longest = f.longest
         /\ execs[k].finished >= k =>
              /\ g.samples = f.samples + 1 /\ g.duration = f.duration + Duration(k)
              /\ g.shortest = Shorter(f.shortest, Duration(k))
              /\ g.longest = Later(f.longest, Duration(k))
<1> DEFINE e == execs[k]
           one == IF e.success THEN 1 ELSE 0
           none == IF e.success THEN 0 ELSE 1
           g == [f EXCEPT !.total = @ + 1, !.successful = @ + one,
                          !.failed = @ + none, !.last = Later(@, e.finished)]
           d == Duration(k)
           h == [g EXCEPT !.samples = @ + 1, !.duration = @ + e.finished - k,
                          !.shortest = Shorter(@, e.finished - k),
                          !.longest = Later(@, e.finished - k)]
<1>1. k \in Nat /\ e.finished \in Nat /\ (e.finished >= k => d \in Nat) /\ d = e.finished - k
  BY StoredFacts DEF Duration
<1>2. one \in Nat /\ none \in Nat
  OBVIOUS
<1>3. AddTo(f, k) = IF e.finished < k THEN g ELSE h
  BY DEF AddTo
<1> HIDE DEF one, none, e, d
<1>4. /\ g \in FigureSet /\ g.successful = f.successful + one
      /\ g.samples = f.samples /\ g.duration = f.duration
      /\ g.shortest = f.shortest /\ g.longest = f.longest
  <2>1. /\ f.total + 1 \in Nat /\ f.successful + one \in Nat /\ f.failed + none \in Nat
        /\ Later(f.last, e.finished) \in Nat
    BY <1>1, <1>2 DEF FigureSet, Later
  <2>2. g = [f EXCEPT !.total = f.total + 1, !.successful = f.successful + one,
                      !.failed = f.failed + none, !.last = Later(f.last, e.finished)]
    BY DEF FigureSet
  <2> HIDE DEF g
  <2> QED BY <2>1, <2>2 DEF FigureSet
<1> HIDE DEF g
<1>5. e.finished >= k =>
        /\ h \in FigureSet /\ h.successful = g.successful
        /\ h.samples = g.samples + 1 /\ h.duration = g.duration + d
        /\ h.shortest = Shorter(g.shortest, d) /\ h.longest = Later(g.longest, d)
  <2> SUFFICES ASSUME e.finished >= k
               PROVE  /\ h \in FigureSet /\ h.successful = g.successful
                      /\ h.samples = g.samples + 1 /\ h.duration = g.duration + d
                      /\ h.shortest = Shorter(g.shortest, d) /\ h.longest = Later(g.longest, d)
    OBVIOUS
  <2>1. /\ g.samples + 1 \in Nat /\ (g.duration + e.finished) - k = g.duration + d
        /\ g.duration + d \in Nat
        /\ Shorter(g.shortest, d) \in Nat /\ Later(g.longest, d) \in Nat
    BY <1>1, <1>4 DEF FigureSet, Later, Shorter
  <2> QED BY <1>1, <1>4, <2>1 DEF FigureSet
<1> HIDE DEF h
<1>6. e.finished < k \/ (e.finished >= k /\ ~(e.finished < k))
  BY <1>1
<1>7. CASE e.finished < k
  <2>1. AddTo(f, k) = g /\ ~(e.finished >= k)
    BY <1>1, <1>3, <1>7
  <2> QED BY <1>4, <1>7, <2>1 DEF one, e
<1>8. CASE e.finished >= k /\ ~(e.finished < k)
  <2>1. AddTo(f, k) = h
    BY <1>3, <1>8
  <2> QED BY <1>4, <1>5, <1>8, <2>1 DEF one, e, d
<1> QED BY <1>6, <1>7, <1>8

\* Figures without executions.
LEMMA NoneDescribed == Describes(NoFigures, {})
<1>1. NoFigures \in FigureSet
  BY DEF NoFigures, FigureSet
<1>2. CountsOf(NoFigures, {})
  <2>1. Succeeded({}) = {}
    BY DEF Succeeded
  <2> QED BY <2>1, FS_EmptySet DEF CountsOf, NoFigures
<1>3. TimesOf(NoFigures, {})
  BY DEF TimesOf, Measures, Measured, NoFigures
<1> QED BY <1>1, <1>2, <1>3 DEF Describes

\* Figures that describe some executions describe one more when it is added.
LEMMA CountsOneMore ==
  ASSUME TypeOK, NEW T \in SUBSET StoredExecutions, IsFiniteSet(T),
         NEW k \in StoredExecutions \ T, NEW f, Describes(f, T)
  PROVE  CountsOf(AddTo(f, k), T \cup {k})
<1>1. IsFiniteSet(Succeeded(T)) /\ Cardinality(Succeeded(T)) \in Nat /\ k \notin Succeeded(T)
  <2>1. Succeeded(T) \in SUBSET T
    BY DEF Succeeded
  <2> QED BY <2>1, FS_Subset, FS_CardinalityType DEF Succeeded
<1>2. AddTo(f, k).successful = f.successful + (IF execs[k].success THEN 1 ELSE 0)
  BY AddToFacts DEF Describes
<1>3. f.successful = Cardinality(Succeeded(T))
  BY DEF Describes, CountsOf
<1>4. CASE execs[k].success
  <2>1. Succeeded(T \cup {k}) = Succeeded(T) \cup {k}
    BY <1>4 DEF Succeeded
  <2>2. AddTo(f, k).successful = f.successful + 1
    BY <1>2, <1>4
  <2>3. Cardinality(Succeeded(T) \cup {k}) = Cardinality(Succeeded(T)) + 1
    BY <1>1, FS_AddElement
  <2> QED BY <1>3, <2>1, <2>2, <2>3 DEF CountsOf
<1>5. CASE ~execs[k].success
  <2>1. Succeeded(T \cup {k}) = Succeeded(T)
    BY <1>5 DEF Succeeded
  <2> QED BY <1>1, <1>2, <1>3, <1>5, <2>1 DEF CountsOf
<1> QED BY <1>4, <1>5

LEMMA TimesOneMore ==
  ASSUME TypeOK, NEW T \in SUBSET StoredExecutions,
         NEW k \in StoredExecutions \ T, NEW f, Describes(f, T)
  PROVE  TimesOf(AddTo(f, k), T \cup {k})
<1> DEFINE M == Measured(T)
           N == Measured(T \cup {k})
           d == Duration(k)
           g == AddTo(f, k)
<1>1. /\ f \in FigureSet /\ g \in FigureSet
      /\ execs[k].finished < k \/ execs[k].finished >= k
      /\ \A m \in M : Duration(m) \in Nat
  <2>1. \A m \in M : m \in StoredExecutions /\ execs[m].finished >= m
    BY DEF Measured
  <2> QED BY <2>1, AddToFacts, StoredFacts DEF Describes
<1>2. TimesOf(f, T)
  BY DEF Describes
<1>3. CASE execs[k].finished < k
  <2>1. N = M
    BY <1>3, StoredFacts DEF Measured
  <2>2. /\ g.samples = f.samples /\ g.duration = f.duration
        /\ g.shortest = f.shortest /\ g.longest = f.longest
    BY <1>1, <1>3, AddToFacts
  <2> HIDE DEF g
  <2>3. TimesOf(g, T \cup {k})
    BY <1>2, <2>1, <2>2 DEF TimesOf
  <2> QED BY <2>3 DEF g
<1>4. CASE execs[k].finished >= k
  <2>1. N = M \cup {k} /\ k \in N /\ d \in Nat
    BY <1>4, StoredFacts DEF Measured
  <2>2. /\ g.samples = f.samples + 1 /\ g.duration = f.duration + d
        /\ g.shortest = Shorter(f.shortest, d) /\ g.longest = Later(f.longest, d)
    BY <1>1, <1>4, AddToFacts
  <2> HIDE DEF g, M, N, d
  <2>3. /\ f.samples \in Nat /\ f.duration \in Nat /\ f.shortest \in Nat /\ f.longest \in Nat
        /\ Duration(k) = d /\ Measures(M, f.samples, f.duration, f.shortest, f.longest)
    BY <1>1, <1>2 DEF FigureSet, TimesOf, M, d
  <2>4. \E m \in N : Duration(m) = g.longest
    BY <2>1, <2>2, <2>3 DEF Measures, Later
  <2>5. \A m \in N : Duration(m) <= g.longest
    BY <1>1, <2>1, <2>2, <2>3 DEF Measures, Later
  <2>6. ASSUME \A m \in N : Duration(m) > 0
        PROVE  /\ \E m \in N : Duration(m) = g.shortest
               /\ \A m \in N : g.shortest <= Duration(m)
    <3>1. /\ M # {} => \E m \in M : Duration(m) = f.shortest
          /\ \A m \in M : f.shortest <= Duration(m)
          /\ M = {} => f.shortest = 0
          /\ \A m \in M : Duration(m) > 0
      BY <2>1, <2>3, <2>6 DEF Measures
    <3> QED BY <1>1, <2>1, <2>2, <2>3, <3>1 DEF Shorter
  <2>7. ASSUME NEW m \in Nat, \A x \in N : m <= Duration(x) PROVE m * g.samples <= g.duration
    <3>1. m * f.samples <= f.duration /\ m <= d
      BY <2>1, <2>3, <2>7 DEF Measures
    <3>2. m * (f.samples + 1) = m * f.samples + m /\ m * f.samples \in Nat
      BY <2>3
    <3> QED BY <2>1, <2>2, <2>3, <3>1, <3>2
  <2>8. ASSUME NEW m \in Nat, \A x \in N : Duration(x) <= m PROVE g.duration <= m * g.samples
    <3>1. f.duration <= m * f.samples /\ d <= m
      BY <2>1, <2>3, <2>8 DEF Measures
    <3>2. m * (f.samples + 1) = m * f.samples + m /\ m * f.samples \in Nat
      BY <2>3
    <3> QED BY <2>1, <2>2, <2>3, <3>1, <3>2
  <2>9. Measures(N, g.samples, g.duration, g.shortest, g.longest)
    BY <2>1, <2>4, <2>5, <2>6, <2>7, <2>8 DEF Measures
  <2> QED BY <2>9 DEF TimesOf, g, N
<1> QED BY <1>1, <1>3, <1>4

LEMMA OneMoreDescribed ==
  ASSUME TypeOK, NEW T \in SUBSET StoredExecutions, IsFiniteSet(T),
         NEW k \in StoredExecutions \ T, NEW f, Describes(f, T)
  PROVE  Describes(AddTo(f, k), T \cup {k})
<1>1. AddTo(f, k) \in FigureSet
  BY AddToFacts DEF Describes
<1> QED BY <1>1, CountsOneMore, TimesOneMore DEF Describes

OfNode(T, n) == {k \in T : NodeOf[k] = n}

\* The figures of all executions and of those of each node.
AllFigures == [summary : FigureSet, byNode : [Range(NodeOf) -> FigureSet]]

AllDescribed(a, T) ==
  /\ a \in AllFigures
  /\ Describes(a.summary, T)
  /\ \A n \in Range(NodeOf) : Describes(a.byNode[n], OfNode(T, n))

LEMMA NothingDescribed == AllDescribed(NothingAdded, {})
<1>1. \A n : OfNode({}, n) = {}
  BY DEF OfNode
<1>2. NoFigures \in FigureSet
  BY NoneDescribed DEF Describes
<1> QED BY <1>1, <1>2, NoneDescribed DEF AllDescribed, AllFigures, NothingAdded

\* AddExecution changes the summary and the figures of one node.
LEMMA AddExecutionFacts ==
  ASSUME NEW a \in AllFigures, NEW k \in Keys, AddTo(a.summary, k) \in FigureSet,
         AddTo(a.byNode[NodeOf[k]], k) \in FigureSet
  PROVE  LET b == AddExecution(a, k) IN
         /\ b \in AllFigures
         /\ b.summary = AddTo(a.summary, k)
         /\ \A n \in Range(NodeOf) :
              b.byNode[n] = IF n = NodeOf[k] THEN AddTo(a.byNode[n], k) ELSE a.byNode[n]
<1>1. NodeOf[k] \in Range(NodeOf)
  BY NodeAssumption DEF Range
<1>2. a.byNode \in [Range(NodeOf) -> FigureSet]
  BY DEF AllFigures
<1> DEFINE s == AddTo(a.summary, k)
           f == AddTo(a.byNode[NodeOf[k]], k)
           byNode == [a.byNode EXCEPT ![NodeOf[k]] = f]
<1>3. AddExecution(a, k) = [a EXCEPT !.summary = s, !.byNode = byNode]
  BY <1>1, <1>2 DEF AddExecution, AllFigures
<1> HIDE DEF s, f
<1>4. /\ byNode \in [Range(NodeOf) -> FigureSet]
      /\ \A n \in Range(NodeOf) : byNode[n] = IF n = NodeOf[k] THEN f ELSE a.byNode[n]
  BY <1>1, <1>2 DEF f
<1> HIDE DEF byNode
<1>5. s \in FigureSet
  BY DEF s
<1> QED BY <1>3, <1>4, <1>5 DEF AllFigures, s, f

LEMMA OneMoreForAll ==
  ASSUME TypeOK, NEW T \in SUBSET StoredExecutions, IsFiniteSet(T),
         NEW k \in StoredExecutions \ T, NEW a, AllDescribed(a, T)
  PROVE  AllDescribed(AddExecution(a, k), T \cup {k})
<1> DEFINE b == AddExecution(a, k)
           U == T \cup {k}
<1>1. k \in Keys /\ NodeOf[k] \in Range(NodeOf) /\ a \in AllFigures
  BY NodeAssumption DEF StoredExecutions, Range, AllDescribed
<1>2. Describes(AddTo(a.summary, k), U)
  BY OneMoreDescribed DEF AllDescribed
<1>3. Describes(AddTo(a.byNode[NodeOf[k]], k), OfNode(U, NodeOf[k]))
  <2>1. OfNode(T, NodeOf[k]) \in SUBSET T /\ k \notin OfNode(T, NodeOf[k])
    BY DEF OfNode
  <2>2. IsFiniteSet(OfNode(T, NodeOf[k]))
    BY <2>1, FS_Subset
  <2>3. OfNode(U, NodeOf[k]) = OfNode(T, NodeOf[k]) \cup {k}
    BY DEF OfNode
  <2>4. Describes(a.byNode[NodeOf[k]], OfNode(T, NodeOf[k]))
    BY <1>1 DEF AllDescribed
  <2> DEFINE f == a.byNode[NodeOf[k]]
             V == OfNode(T, NodeOf[k])
  <2> HIDE DEF f
  <2>5. Describes(f, V) /\ V \in SUBSET StoredExecutions /\ IsFiniteSet(V)
        /\ k \in StoredExecutions \ V
    BY <2>1, <2>2, <2>4 DEF f
  <2> HIDE DEF V
  <2>6. Describes(AddTo(f, k), V \cup {k})
    BY <2>5, OneMoreDescribed
  <2> QED BY <2>3, <2>6 DEF f, V
<1>4. \A n \in Range(NodeOf) : n # NodeOf[k] => Describes(a.byNode[n], OfNode(U, n))
  <2>1. \A n \in Range(NodeOf) : n # NodeOf[k] => OfNode(U, n) = OfNode(T, n)
    BY DEF OfNode
  <2> QED BY <2>1 DEF AllDescribed
<1>5. /\ b \in AllFigures
      /\ b.summary = AddTo(a.summary, k)
      /\ \A n \in Range(NodeOf) :
           b.byNode[n] = IF n = NodeOf[k] THEN AddTo(a.byNode[n], k) ELSE a.byNode[n]
  BY <1>1, <1>2, <1>3, AddExecutionFacts DEF Describes
<1> HIDE DEF b, U
<1> QED BY <1>2, <1>3, <1>4, <1>5 DEF AllDescribed, b, U

\* What the endpoint answers describes the stored executions.
LEMMA AnalyticsDescribe ==
  ASSUME TypeOK, ExecutionsAreFinite
  PROVE  AllDescribed(Analytics, StoredExecutions)
<1> DEFINE S == StoredExecutions
<1>1. S \in SUBSET Nat /\ IsFiniteSet(S)
  BY ConstantsAssumption DEF StoredExecutions, ExecutionsAreFinite
<1>2. PICK g : Added(g, S) /\ Analytics = g[S]
  BY AnalyticsIsAdded
<1> DEFINE T == {s \in SUBSET S : AllDescribed(g[s], s)}
<1>3. ASSUME NEW s \in SUBSET S, \A t \in SUBSET s : t # s => t \in T
      PROVE  s \in T
  <2>1. CASE s = {}
    BY <1>2, <2>1, NothingDescribed DEF Added
  <2>2. CASE s # {}
    <3>1. Max(s) \in s
      BY <1>1, <2>2, FS_Subset, MaxFacts
    <3>2. PICK m \in s : m = Max(s)
      BY <3>1
    <3> DEFINE t == s \ {m}
    <3>3. t \in SUBSET s /\ t # s /\ m \in S \ t /\ t \cup {m} = s
      BY <3>2
    <3>4. AllDescribed(g[t], t)
      BY <1>3, <3>3
    <3>5. g[s] = AddExecution(g[t], m)
      BY <1>2, <2>2, <3>2 DEF Added
    <3>6. IsFiniteSet(t) /\ t \in SUBSET StoredExecutions
      BY <1>1, <3>3, FS_Subset
    <3>7. AllDescribed(AddExecution(g[t], m), t \cup {m})
      <4> HIDE DEF t
      <4> QED BY <3>3, <3>4, <3>6, OneMoreForAll
    <3> QED BY <3>3, <3>5, <3>7
  <2> QED BY <2>1, <2>2
<1>4. SUBSET S \subseteq T
  <2> HIDE DEF T, S
  <2> QED BY <1>1, <1>3, AllSubsets
<1> QED BY <1>2, <1>4

-----------------------------------------------------------------------------
(* Durations *)

\* A number that is in D and bounds D is the one Min or Max chooses.
LEMMA ExtremesAreUnique ==
  ASSUME NEW D \in SUBSET Nat, NEW n \in D
  PROVE  /\ (\A y \in D : n <= y) => Min(D) = n
         /\ (\A y \in D : y <= n) => Max(D) = n
<1>1. ASSUME \A y \in D : n <= y PROVE Min(D) = n
  <2>1. \E x \in D : \A y \in D : x =< y
    BY <1>1
  <2>2. Min(D) \in D /\ \A y \in D : Min(D) =< y
    BY <2>1, Zenon DEF Min
  <2>3. Min(D) <= n /\ n <= Min(D) /\ Min(D) \in Nat
    BY <1>1, <2>2
  <2> QED BY <2>3
<1>2. ASSUME \A y \in D : y <= n PROVE Max(D) = n
  <2>1. \E x \in D : \A y \in D : x >= y
    BY <1>2
  <2>2. Max(D) \in D /\ \A y \in D : Max(D) >= y
    BY <2>1, Zenon DEF Max
  <2>3. Max(D) >= n /\ n >= Max(D) /\ Max(D) \in Nat
    BY <1>2, <2>2
  <2> QED BY <2>3
<1> QED BY <1>1, <1>2

LEMMA DurationsMeasured ==
  ASSUME TypeOK, ExecutionsAreFinite
  PROVE  DurationsAreMeasured
<1> DEFINE M == Measured(StoredExecutions)
           D == {execs[k].finished - k : k \in M}
           a == Analytics
           averages == {Cards(a.summary).average}
                         \cup {n.average : n \in NodeEntries(a.byNode)}
<1>1. SUFFICES ASSUME M # {}, 0 \notin D
               PROVE  /\ a.summary.shortest = Min(D) /\ a.summary.longest = Max(D)
                      /\ \A v \in averages : /\ a.summary.shortest * v[2] <= v[1]
                                             /\ v[1] <= a.summary.longest * v[2]
  BY DEF DurationsAreMeasured, MetricItems, Measured
<1>2. /\ \A k \in M : Duration(k) \in Nat /\ Duration(k) \in D
      /\ \A y \in D : \E k \in M : y = Duration(k)
  <2>1. \A k \in M : k \in StoredExecutions /\ execs[k].finished >= k
    BY DEF Measured
  <2> QED BY <2>1, StoredFacts DEF Duration
<1>3. AllDescribed(a, StoredExecutions)
  BY AnalyticsDescribe
<1> DEFINE f == a.summary
<1>4. f \in FigureSet /\ Measures(M, f.samples, f.duration, f.shortest, f.longest)
  BY <1>3 DEF AllDescribed, Describes, TimesOf
<1>5. \A n \in Range(NodeOf) :
        LET g == a.byNode[n] IN
          /\ g \in FigureSet
          /\ Measures(Measured(OfNode(StoredExecutions, n)),
                      g.samples, g.duration, g.shortest, g.longest)
          /\ Measured(OfNode(StoredExecutions, n)) \subseteq M
  BY <1>3 DEF AllDescribed, Describes, TimesOf, OfNode, Measured
<1>6. DOMAIN a.byNode = Range(NodeOf)
  BY <1>3 DEF AllDescribed, AllFigures
<1> DEFINE low == f.shortest
           high == f.longest
<1> HIDE DEF M, D, a
<1>7. /\ low \in Nat /\ high \in Nat
      /\ \A k \in M : low <= Duration(k) /\ Duration(k) <= high
      /\ low \in D /\ high \in D
  BY <1>1, <1>2, <1>4 DEF Measures, FigureSet
<1>8. low = Min(D) /\ high = Max(D)
  <2>1. D \in SUBSET Nat /\ \A y \in D : low <= y /\ y <= high
    BY <1>2, <1>7
  <2> HIDE DEF low, high
  <2> QED BY <1>7, <2>1, ExtremesAreUnique
<1>9. low * f.samples <= f.duration /\ f.duration <= high * f.samples
  BY <1>4, <1>7 DEF Measures
<1>10. ASSUME NEW n \in Range(NodeOf)
       PROVE  /\ low * a.byNode[n].samples <= a.byNode[n].duration
              /\ a.byNode[n].duration <= high * a.byNode[n].samples
  BY <1>5, <1>7 DEF Measures
<1>11. ASSUME NEW v \in averages PROVE low * v[2] <= v[1] /\ v[1] <= high * v[2]
  <2>1. CASE v = Cards(f).average
    BY <1>9, <2>1 DEF Cards
  <2>2. CASE \E n \in NodeEntries(a.byNode) : v = n.average
    <3>1. PICK n \in Range(NodeOf) : v = <<a.byNode[n].duration, a.byNode[n].samples>>
      BY <1>6, <2>2 DEF NodeEntries
    <3> QED BY <1>10, <3>1
  <2> QED BY <2>1, <2>2
<1> QED BY <1>8, <1>11

LEMMA InitFinite == Init => ExecutionsAreFinite
<1> SUFFICES ASSUME Init PROVE ExecutionsAreFinite
  OBVIOUS
<1>1. {k \in Keys : execs[k] # NoExecution} = {}
  BY DEF Init
<1> QED BY <1>1, FS_EmptySet DEF ExecutionsAreFinite

\* As long as no stored execution took no time at all, the minimum, the average
\* and the maximum the dashboard shows are those of the executions that ended,
\* for every set of executions and nodes (api_analytics.go:99-116).
THEOREM DurationsShownAreMeasured == Spec => []DurationsAreMeasured
<1>1. Init => ExecutionsAreFinite
  BY InitFinite
<1>2. IInv /\ ExecutionsAreFinite /\ [Next]_vars => ExecutionsAreFinite'
  BY StaysFinite
<1>3. IInv /\ ExecutionsAreFinite => DurationsAreMeasured
  BY DurationsMeasured DEF IInv
<1> QED BY Invariance, <1>1, <1>2, <1>3, PTL DEF Spec

-----------------------------------------------------------------------------
(* Successes *)

\* The successful executions among the stored ones es.
GoodKeys(es) == {k \in Keys : es[k] # NoExecution /\ es[k].success}

\* A stored success is the result of an execution that ended, of a stored job:
\* DeleteJob takes the executions of a job with it.
SuccessesOwned ==
  \A k \in GoodKeys(execs) : Stored(JobOf[k]) /\ execs[k].finished >= k

\* The days have counted every stored success.
SuccessesSeen(es, ss) == Cardinality(GoodKeys(es)) <= Sum(DaySuccesses(ss), Days)

ChartInv ==
  ExecutionsAreFinite /\ SuccessesOwned /\ SuccessesSeen(execs, stats)

LEMMA InitChart == IsFiniteSet(Days) /\ Init => ChartInv
<1> SUFFICES ASSUME IsFiniteSet(Days), Init PROVE ChartInv
  OBVIOUS
<1>1. GoodKeys(execs) = {} /\ Cardinality({}) = 0
  BY FS_EmptySet DEF Init, GoodKeys
<1>2. Sum(DaySuccesses(stats), Days) \in Nat
  BY InitIInv, DaySumsAreNumbers DEF IInv, TypeOK, DayTable
<1> QED BY <1>1, <1>2, InitFinite DEF ChartInv, SuccessesOwned, SuccessesSeen

\* What stores no success that was not there, and takes no job away from one
\* that stays, keeps the invariant.
LEMMA NoSuccessAdded ==
  ASSUME IsFiniteSet(Days), IInv, ChartInv, stats' = stats,
         \A k \in GoodKeys(execs') : /\ k \in GoodKeys(execs) /\ execs'[k] = execs[k]
                                     /\ Stored(JobOf[k]) => Stored(JobOf[k])'
  PROVE  SuccessesOwned' /\ SuccessesSeen(execs, stats)'
<1>1. SuccessesOwned'
  BY DEF ChartInv, SuccessesOwned
<1>2. GoodKeys(execs') \in SUBSET GoodKeys(execs)
  OBVIOUS
<1>3. GoodKeys(execs) \in SUBSET {k \in Keys : execs[k] # NoExecution}
  BY DEF GoodKeys
<1>4. IsFiniteSet(GoodKeys(execs))
  BY <1>3, FS_Subset DEF ChartInv, ExecutionsAreFinite
<1>5. /\ Cardinality(GoodKeys(execs')) <= Cardinality(GoodKeys(execs))
      /\ Cardinality(GoodKeys(execs)) \in Nat /\ Cardinality(GoodKeys(execs')) \in Nat
  BY <1>2, <1>4, FS_Subset, FS_CardinalityType
<1>6. Sum(DaySuccesses(stats), Days) \in Nat
  BY DaySumsAreNumbers DEF IInv, TypeOK, DayTable
<1>7. SuccessesSeen(execs', stats')
  BY <1>5, <1>6 DEF ChartInv, SuccessesSeen
<1> QED BY <1>1, <1>7

\* A result that counts is stored in the step that its day counts it.
LEMMA SuccessCounted ==
  ASSUME IsFiniteSet(Days), IInv, ChartInv,
         NEW k \in Keys, NEW e \in ExecutionRecord, SetExecutionDone(k, e)
  PROVE  SuccessesOwned' /\ SuccessesSeen(execs, stats)'
<1> DEFINE j == JobOf[k]
           d == DayOf[e.finished]
           G == GoodKeys(execs)
<1>1. /\ j \in Jobs /\ d \in Days /\ Stored(j) /\ e.finished >= k /\ e.success \in BOOLEAN
      /\ execs' = [execs EXCEPT ![k] = e]
      /\ k \in Keys /\ execs \in [Keys -> ExecutionRecord \cup {NoExecution}]
  BY ConstantsAssumption
     DEF SetExecutionDone, PutExecution, ExecutionRecord, IInv, TypeOK
<1>2. /\ execs'[k] = e /\ \A m \in Keys : m # k => execs'[m] = execs[m]
      /\ \A x \in Jobs : Stored(x)' <=> Stored(x)
      /\ e # NoExecution
  BY <1>1, SetExecutionDoneFacts, ConstantsAssumption
<1>3. SuccessesOwned'
  <2>1. ASSUME NEW m \in GoodKeys(execs') PROVE Stored(JobOf[m])' /\ execs'[m].finished >= m
    <3>1. m \in Keys /\ JobOf[m] \in Jobs
      BY ConstantsAssumption DEF GoodKeys
    <3>2. CASE m = k
      BY <1>1, <1>2, <3>2
    <3>3. CASE m # k
      <4>1. m \in G /\ execs'[m] = execs[m]
        BY <1>2, <3>1, <3>3 DEF GoodKeys
      <4> QED BY <1>2, <3>1, <4>1 DEF ChartInv, SuccessesOwned
    <3> QED BY <3>2, <3>3
  <2> QED BY <2>1 DEF SuccessesOwned
<1>4. IsFiniteSet(G) /\ Cardinality(G) \in Nat
  <2>1. G \in SUBSET {m \in Keys : execs[m] # NoExecution}
    BY DEF GoodKeys
  <2> QED BY <2>1, FS_Subset, FS_CardinalityType DEF ChartInv, ExecutionsAreFinite
<1>5. GoodKeys(execs') \in SUBSET (G \cup {k}) /\ (~e.success => GoodKeys(execs') \in SUBSET G)
  <2>1. \A m \in GoodKeys(execs') : m # k => m \in G
    BY <1>2 DEF GoodKeys
  <2>2. k \in GoodKeys(execs') => e.success
    BY <1>2 DEF GoodKeys
  <2> HIDE DEF G
  <2> QED BY <2>1, <2>2
<1>6. /\ IsFiniteSet(G \cup {k}) /\ Cardinality(G \cup {k}) <= Cardinality(G) + 1
      /\ Cardinality(G \cup {k}) \in Nat
  <2> HIDE DEF G
  <2>1. IsFiniteSet(G \cup {k})
    BY <1>4, FS_AddElement
  <2>2. CASE k \in G
    <3>1. Cardinality(G \cup {k}) = Cardinality(G)
      <4>1. G \cup {k} = G
        BY <2>2
      <4> QED BY <4>1, Zenon
    <3> QED BY <1>4, <2>1, <3>1
  <2>3. CASE k \notin G
    <3>1. Cardinality(G \cup {k}) = Cardinality(G) + 1
      BY <1>4, <2>3, FS_AddElement
    <3> QED BY <1>4, <2>1, <3>1
  <2> QED BY <2>2, <2>3
<1>7. /\ Cardinality(GoodKeys(execs')) <= Cardinality(G) + 1
      /\ Cardinality(GoodKeys(execs')) \in Nat
      /\ GoodKeys(execs') \in SUBSET G => Cardinality(GoodKeys(execs')) <= Cardinality(G)
  BY <1>4, <1>5, <1>6, FS_Subset, FS_CardinalityType
<1> DEFINE f == DaySuccesses(stats)
           h == DaySuccesses(stats')
<1>8. /\ Sum(f, Days) \in Nat /\ Cardinality(G) <= Sum(f, Days)
      /\ \A x \in Days : f[x] \in 0..MaxStat
      /\ MaxStat \in Nat
  BY DaySumsAreNumbers, DayCountersAreBounded DEF IInv, TypeOK, DayTable, ChartInv, SuccessesSeen
<1>9. CASE ~Counts(k, e)
  <2>1. stats' = stats /\ execs[k] = e
    BY <1>9 DEF SetExecutionDone, Counts
  <2>2. execs' = execs
    BY <1>1, <2>1
  <2> QED BY <1>3, <2>1, <2>2 DEF ChartInv, SuccessesSeen
<1>10. CASE Counts(k, e)
  <2>1. stats' = [stats EXCEPT ![d] = IncrementStat(stats[d], e.success)]
    BY <1>10 DEF SetExecutionDone
  <2>2. stats[d] \in DayStat /\ stats \in [Days -> DayStat]
    BY <1>1 DEF IInv, TypeOK
  <2>3. \A x \in Days : x # d => h[x] = f[x]
    BY <2>1, <2>2 DEF DaySuccesses
  <2>4. CASE e.success
    <3>1. h[d] = f[d] + 1
      BY <1>1, <2>1, <2>2, <2>4 DEF DaySuccesses, IncrementStat, DayStat
    <3> HIDE DEF f, h
    <3>2. Sum(h, Days) = Sum(f, Days) + 1
      BY <1>1, <1>8, <2>3, <3>1, SumGoesUp
    <3>3. Cardinality(GoodKeys(execs')) <= Sum(h, Days)
      BY <1>4, <1>7, <1>8, <3>2
    <3> QED BY <1>3, <3>3 DEF SuccessesSeen, h
  <2>5. CASE ~e.success
    <3>1. h[d] = f[d]
      BY <1>1, <2>1, <2>2, <2>5 DEF DaySuccesses, IncrementStat, DayStat
    <3> HIDE DEF f, h
    <3>2. Sum(h, Days) = Sum(f, Days)
      BY <2>3, <3>1, SumStays
    <3>3. Cardinality(GoodKeys(execs')) <= Sum(h, Days)
      BY <1>4, <1>5, <1>7, <1>8, <2>5, <3>2
    <3> QED BY <1>3, <3>3 DEF SuccessesSeen, h
  <2> QED BY <2>4, <2>5
<1> QED BY <1>9, <1>10

LEMMA StepChart ==
  ASSUME IsFiniteSet(Days), IInv, ChartInv, [Next]_vars
  PROVE  ChartInv'
<1> SUFFICES SuccessesOwned' /\ SuccessesSeen(execs, stats)'
  BY StaysFinite DEF ChartInv
<1>0. \A k \in Keys : JobOf[k] \in Jobs
  BY ConstantsAssumption
<1>1. ASSUME execs' = execs, stats' = stats, \A x \in Jobs : Stored(x) => Stored(x)'
      PROVE  SuccessesOwned' /\ SuccessesSeen(execs, stats)'
  BY <1>0, <1>1, NoSuccessAdded DEF GoodKeys
<1>2. ASSUME NEW j \in Jobs, NEW p \in Payloads, SetJob(j, p)
      PROVE  SuccessesOwned' /\ SuccessesSeen(execs, stats)'
  <2>1. execs' = execs /\ stats' = stats /\ \A x \in Jobs : Stored(x) => Stored(x)'
    BY <1>2, SetJobFacts DEF SetJob
  <2> QED BY <1>1, <2>1
<1>3. ASSUME NEW j \in Jobs, DeleteJob(j)
      PROVE  SuccessesOwned' /\ SuccessesSeen(execs, stats)'
  <2>1. /\ stats' = stats /\ \A x \in Jobs : x # j /\ Stored(x) => Stored(x)'
        /\ execs' = WithoutExecutions(j) /\ j \in NamesFrom[j]
    BY <1>3, DeleteJobFacts, ConstantsAssumption DEF DeleteJob
  <2>2. \A k \in GoodKeys(execs') : k \in Keys /\ k \in GoodKeys(execs)
                                    /\ execs'[k] = execs[k] /\ JobOf[k] # j
    BY <2>1 DEF GoodKeys, WithoutExecutions
  <2> QED BY <1>0, <2>1, <2>2, NoSuccessAdded
<1>4. ASSUME NEW j \in Jobs, DeleteExecutions(j)
      PROVE  SuccessesOwned' /\ SuccessesSeen(execs, stats)'
  <2>1. /\ stats' = stats /\ \A x \in Jobs : Stored(x) => Stored(x)'
        /\ execs' = WithoutExecutions(j)
    BY <1>4, DeleteExecutionsFacts DEF DeleteExecutions
  <2>2. \A k \in GoodKeys(execs') : k \in Keys /\ k \in GoodKeys(execs) /\ execs'[k] = execs[k]
    BY <2>1 DEF GoodKeys, WithoutExecutions
  <2> QED BY <1>0, <2>1, <2>2, NoSuccessAdded
<1>5. ASSUME NEW k \in Keys, NEW finished \in Times, SetExecution(k, finished)
      PROVE  SuccessesOwned' /\ SuccessesSeen(execs, stats)'
  <2> DEFINE e == [finished |-> finished, success |-> FALSE]
             es == PutExecution(k, e)
  <2>1. /\ jobs' = jobs /\ stats' = stats
        /\ \A m \in Keys : execs'[m] = NoExecution \/ execs'[m] = es[m]
    BY <1>5 DEF SetExecution
  <2>2. \A m \in Keys : es[m] = execs[m] \/ (m = k /\ es[m] = e)
    BY DEF PutExecution, IInv, TypeOK
  <2>3. ~e.success
    OBVIOUS
  <2> HIDE DEF e, es
  <2>4. \A m \in GoodKeys(execs') : m \in GoodKeys(execs) /\ execs'[m] = execs[m]
    BY <2>1, <2>2, <2>3 DEF GoodKeys
  <2> QED BY <2>1, <2>4, NoSuccessAdded DEF Stored
<1> QED BY <1>1, <1>2, <1>3, <1>4, <1>5, SuccessCounted DEF Next, vars, Stored

\* The row of an execution in the table of its job; each has its own.
Row(k) == [id |-> k, node |-> NodeOf[k], success |-> SuccessField(k)]

LEMMA RowsCounted ==
  ASSUME NEW K, IsFiniteSet(K)
  PROVE  Cardinality({Row(k) : k \in K}) = Cardinality(K)
<1> DEFINE R == {Row(k) : k \in K}
           f == [k \in K |-> Row(k)]
<1>1. \A k \in K : Row(k).id = k
  BY DEF Row
<1>2. f \in [K -> R] /\ \A r \in R : \E k \in K : f[k] = r
  OBVIOUS
<1>3. \A k, m \in K : f[k] = f[m] => k = m
  BY <1>1
<1> HIDE DEF f, R
<1>4. f \in Bijection(K, R)
  BY <1>2, <1>3 DEF Bijection, Injection, Surjection, IsInjective
<1>5. ExistsBijection(K, R)
  BY <1>4 DEF ExistsBijection
<1> QED BY <1>5, FS_Bijection DEF R

\* The icon says Success of the stored successes and of nothing else.
LEMMA SuccessShown ==
  ASSUME IInv, ChartInv, NEW k \in StoredExecutions
  PROVE  SuccessField(k) = "Success" <=> execs[k].success
<1>1. k \in Keys /\ k \in Nat /\ k > 0 /\ execs[k].finished \in Nat /\ execs[k].success \in BOOLEAN
  BY StoredFacts, ConstantsAssumption DEF IInv, StoredExecutions
<1>2. CASE execs[k].success
  <2>1. execs[k].finished >= k
    BY <1>1, <1>2 DEF ChartInv, SuccessesOwned, GoodKeys, StoredExecutions
  <2>2. execs[k].finished # 0
    BY <1>1, <2>1
  <2>3. SuccessField(k) = "Success"
    BY <1>2, <2>2 DEF SuccessField
  <2> QED BY <1>2, <2>3
<1>3. CASE ~execs[k].success
  <2>1. SuccessField(k) = "Running" \/ SuccessField(k) = "Failed"
    <3>1. CASE execs[k].finished = 0
      BY <1>3, <3>1 DEF SuccessField
    <3>2. CASE execs[k].finished # 0
      BY <1>3, <3>2 DEF SuccessField
    <3> QED BY <3>1, <3>2
  <2>2. "Running" # "Success" /\ "Failed" # "Success"
    OBVIOUS
  <2> QED BY <1>3, <2>1, <2>2
<1> QED BY <1>2, <1>3

LEMMA ChartCovers ==
  ASSUME IsFiniteSet(Days), IInv, ChartInv
  PROVE  ChartCoversAnalytics
<1> DEFINE rows == UNION {ExecutionsTable(j) : j \in Jobs}
           shown == {r \in rows : r.success = "Success"}
           G == GoodKeys(execs)
           a == Analytics
<1>1. AllDescribed(a, StoredExecutions)
  BY AnalyticsDescribe DEF IInv, ChartInv
<1>2. /\ G = Succeeded(StoredExecutions)
      /\ \A n : Succeeded(OfNode(StoredExecutions, n)) = {k \in G : NodeOf[k] = n}
      /\ \A n : {k \in G : NodeOf[k] = n} \in SUBSET G
      /\ G \in SUBSET StoredExecutions
  BY DEF GoodKeys, Succeeded, StoredExecutions, OfNode
<1>3. IsFiniteSet(G) /\ \A n : IsFiniteSet({k \in G : NodeOf[k] = n})
  BY <1>2, FS_Subset DEF ChartInv, ExecutionsAreFinite, StoredExecutions
<1>4. \A k \in G : JobOf[k] \in Jobs /\ Stored(JobOf[k]) /\ SuccessField(k) = "Success"
  <2>1. \A k \in G : k \in StoredExecutions /\ execs[k].success /\ JobOf[k] \in Jobs
    BY <1>2, ConstantsAssumption DEF GoodKeys
  <2>2. \A k \in G : Stored(JobOf[k])
    BY DEF ChartInv, SuccessesOwned
  <2> QED BY <2>1, <2>2, SuccessShown
<1>5. shown = {Row(k) : k \in G}
  <2>1. ASSUME NEW r \in shown PROVE r \in {Row(k) : k \in G}
    <3>1. PICK j \in Jobs : r \in ExecutionsTable(j) /\ r.success = "Success"
      OBVIOUS
    <3>2. PICK k \in StoredExecutions : r = Row(k)
      BY <3>1 DEF ExecutionsTable, Row
    <3>3. r.success = SuccessField(k)
      BY <3>2 DEF Row
    <3>4. execs[k].success
      BY <3>1, <3>3, SuccessShown
    <3> QED BY <1>2, <3>2, <3>4 DEF Succeeded
  <2>2. ASSUME NEW k \in G PROVE Row(k) \in shown
    <3>1. Row(k).success = "Success"
      BY <1>4 DEF Row
    <3>2. Row(k) \in ExecutionsTable(JobOf[k]) /\ JobOf[k] \in Jobs
      BY <1>2, <1>4 DEF ExecutionsTable, Row
    <3> QED BY <3>1, <3>2
  <2> QED BY <2>1, <2>2
<1>6. Cardinality(shown) = Cardinality(G)
  BY <1>3, <1>5, RowsCounted
<1>7. a.summary.successful = Cardinality(G)
  BY <1>1, <1>2 DEF AllDescribed, Describes, CountsOf
<1>8. a.summary.successful <= ChartTotals.successful
  <2>1. ChartTotals.successful = Sum(DaySuccesses(stats), Days)
    BY DaySuccessesAdded DEF ChartTotals, IInv, TypeOK, DayTable
  <2> QED BY <1>7, <2>1 DEF ChartInv, SuccessesSeen
<1>9. ASSUME NEW n \in NodeEntries(a.byNode)
      PROVE  n.successful = Cardinality({r \in shown : r.node = n.node})
  <2>1. PICK m \in Range(NodeOf) : n.node = m /\ n.successful = a.byNode[m].successful
    BY <1>1 DEF NodeEntries, AllDescribed, AllFigures
  <2>2. a.byNode[m].successful = Cardinality({k \in G : NodeOf[k] = m})
    BY <1>1, <1>2 DEF AllDescribed, Describes, CountsOf
  <2>3. {r \in shown : r.node = m} = {Row(k) : k \in {x \in G : NodeOf[x] = m}}
    BY <1>5 DEF Row
  <2>4. Cardinality({r \in shown : r.node = m}) = Cardinality({k \in G : NodeOf[k] = m})
    BY <1>3, <2>3, RowsCounted
  <2> QED BY <2>1, <2>2, <2>4
<1> HIDE DEF shown, a, G
<1>10. MetricItems(a.summary).successful = a.summary.successful
  BY DEF MetricItems
<1> QED BY <1>6, <1>7, <1>8, <1>9, <1>10 DEF ChartCoversAnalytics, shown, a

\* The successes the dashboard counts, in all and by node, are those the pages of
\* stored jobs show, and the days of the chart have counted them all, whatever
\* was trimmed, deleted, repeated or corrected meanwhile, for all jobs, nodes
\* and executions and finitely many days (api_analytics.go:46, store.go:296).
THEOREM ChartHasSeenAnalytics ==
  ASSUME IsFiniteSet(Days)
  PROVE  Spec => []ChartCoversAnalytics
<1>1. Init => ChartInv
  BY InitChart
<1>2. IInv /\ ChartInv /\ [Next]_vars => ChartInv'
  BY StepChart
<1>3. IInv /\ ChartInv => ChartCoversAnalytics
  BY ChartCovers
<1> QED BY Invariance, <1>1, <1>2, <1>3, PTL DEF Spec

-----------------------------------------------------------------------------
(* Statuses *)

NoStatus == ""

\* A job that has counted anything has a status, and the two clear-cut statuses
\* are backed by the counter they are about.
Backed(r) ==
  r.successCount + r.errorCount > 0 =>
    /\ r.status # NoStatus
    /\ r.status = "success" => r.successCount > 0
    /\ r.status = "failed" => r.errorCount > 0

StatusInv == \A j \in Jobs : Stored(j) => Backed(jobs[j].results)

\* A job written without counts of its own keeps what backs its status.
LEMMA MergeBacked ==
  ASSUME NEW r \in Results, NEW s \in Results, r.successCount = 0, r.errorCount = 0, Backed(s)
  PROVE  Backed(r) /\ Backed(MergeResults(r, s))
<1> DEFINE m == MergeResults(r, s)
<1>1. /\ m.successCount = s.successCount /\ m.errorCount = s.errorCount
      /\ s.successCount \in Nat /\ s.errorCount \in Nat
  BY MergeResultsFacts, ConstantsAssumption DEF Results
<1>2. s.status # NoStatus => m.status = s.status
  BY Zenon DEF MergeResults, NoStatus
<1> HIDE DEF m
<1>3. Backed(m)
  BY <1>1, <1>2 DEF Backed
<1>4. Backed(r)
  BY DEF Backed
<1> QED BY <1>3, <1>4 DEF m

\* A result is in its own group: a group with a success is not failed, one with
\* a failure no success, and every group has a status.
LEMMA GroupStatusFacts ==
  ASSUME NEW es, NEW k \in Keys, NEW j, es[k] # NoExecution, JobOf[k] = j
  PROVE  LET status == GroupStatus(es, j, GroupOf[k]) IN
         /\ status # NoStatus
         /\ status = "success" => es[k].success
         /\ status = "failed" => ~es[k].success
<1> DEFINE G == {m \in StoredKeys(es, j) : GroupOf[m] = GroupOf[k]}
           succeeded == {m \in G : es[m].success}
           status == GroupStatus(es, j, GroupOf[k])
<1>1. k \in G
  BY DEF StoredKeys
<1>2. status = CASE succeeded = G  -> "success"
                 [] succeeded = {} -> "failed"
                 [] OTHER          -> "partially_failed"
  BY DEF GroupStatus
<1>3. k \in succeeded <=> es[k].success
  BY <1>1
<1> HIDE DEF G, succeeded, status
<1>4. /\ "success" # "failed" /\ "success" # "partially_failed"
      /\ "failed" # "partially_failed"
  OBVIOUS
<1>5. "success" # NoStatus /\ "failed" # NoStatus /\ "partially_failed" # NoStatus
  BY Zenon DEF NoStatus
<1>6. CASE succeeded = G
  <2>1. succeeded # {}
    BY <1>1, <1>6
  <2>2. status = "success"
    BY <1>2, <1>6, <2>1, Zenon
  <2>3. es[k].success
    BY <1>1, <1>3, <1>6
  <2> QED BY <1>4, <1>5, <2>2, <2>3, Zenon DEF status
<1>7. CASE succeeded # G /\ succeeded = {}
  <2>1. status = "failed"
    BY <1>2, <1>7, Zenon
  <2>2. ~es[k].success
    BY <1>3, <1>7
  <2> QED BY <1>4, <1>5, <2>1, <2>2, Zenon DEF status
<1>8. CASE succeeded # G /\ succeeded # {}
  <2>1. status = "partially_failed"
    BY <1>2, <1>8, Zenon
  <2> QED BY <1>4, <1>5, <2>1, Zenon DEF status
<1> QED BY <1>6, <1>7, <1>8

\* What a result that counts leaves behind is backed.
LEMMA CountBacked ==
  ASSUME NEW r \in Results, NEW e, e.success \in BOOLEAN, NEW status, status # NoStatus,
         status = "success" => e.success, status = "failed" => ~e.success
  PROVE  Backed(Count(r, e, status))
<1>1. r.successCount \in Nat /\ r.errorCount \in Nat
  BY ConstantsAssumption DEF Results
<1>2. CASE e.success
  <2>1. /\ Count(r, e, status).successCount = r.successCount + 1
        /\ Count(r, e, status).status = status
    BY <1>2 DEF Count, Results
  <2> QED BY <1>1, <1>2, <2>1 DEF Backed
<1>3. CASE ~e.success
  <2>1. /\ Count(r, e, status).errorCount = r.errorCount + 1
        /\ Count(r, e, status).status = status
    BY <1>3 DEF Count, Results
  <2> QED BY <1>1, <1>3, <2>1 DEF Backed
<1> QED BY <1>2, <1>3

LEMMA StepStatus ==
  ASSUME PayloadsCountNone, IInv, StatusInv, [Next]_vars
  PROVE  StatusInv'
<1>0. \A x \in Jobs : Stored(x) => jobs[x] \in JobRecord /\ jobs[x].results \in Results
  BY DEF IInv, TypeOK, Stored, JobRecord
<1>1. ASSUME jobs' = jobs PROVE StatusInv'
  BY <1>1 DEF StatusInv, Stored
<1>2. ASSUME NEW j \in Jobs, NEW p \in Payloads, SetJob(j, p) PROVE StatusInv'
  <2>1. /\ p.results \in Results /\ p.results.successCount = 0 /\ p.results.errorCount = 0
    BY ConstantsAssumption DEF Payloads, PayloadsCountNone
  <2>2. /\ \A x \in Jobs : x # j => (Stored(x)' <=> Stored(x))
        /\ jobs'[j].results = IF Stored(j) THEN MergeResults(p.results, jobs[j].results)
                              ELSE p.results
        /\ \A x \in Jobs : x # j /\ Stored(x) => jobs'[x].results = jobs[x].results
    BY <1>2, SetJobFacts
  <2>3. Backed(jobs'[j].results)
    <3>1. CASE Stored(j)
      BY <1>0, <2>1, <2>2, <3>1, MergeBacked DEF StatusInv
    <3>2. CASE ~Stored(j)
      BY <2>1, <2>2, <3>2 DEF Backed
    <3> QED BY <3>1, <3>2
  <2>4. ASSUME NEW x \in Jobs, Stored(x)', x # j PROVE Backed(jobs'[x].results)
    BY <2>2, <2>4 DEF StatusInv
  <2>5. \A x \in Jobs : Stored(x)' => Backed(jobs'[x].results)
    BY <2>3, <2>4
  <2> QED BY <2>5 DEF StatusInv, Backed
<1>3. ASSUME NEW j \in Jobs, DeleteJob(j) PROVE StatusInv'
  <2>1. \A x \in Jobs : Stored(x)' => Stored(x) /\ jobs'[x].results = jobs[x].results
    BY <1>3, DeleteJobFacts
  <2>2. \A x \in Jobs : Stored(x)' => Backed(jobs'[x].results)
    BY <2>1 DEF StatusInv
  <2> QED BY <2>2 DEF StatusInv, Backed
<1>4. ASSUME NEW j \in Jobs, DeleteExecutions(j) PROVE StatusInv'
  <2>1. /\ \A x \in Jobs : Stored(x)' <=> Stored(x)
        /\ jobs'[j].results.successCount = 0 /\ jobs'[j].results.errorCount = 0
        /\ \A x \in Jobs \ {j} : jobs'[x] = jobs[x]
    BY <1>4, DeleteExecutionsFacts
  <2>2. Backed(jobs'[j].results)
    BY <2>1 DEF Backed
  <2>3. ASSUME NEW x \in Jobs, Stored(x)', x # j PROVE Backed(jobs'[x].results)
    BY <2>1, <2>3 DEF StatusInv
  <2>4. \A x \in Jobs : Stored(x)' => Backed(jobs'[x].results)
    BY <2>2, <2>3
  <2> QED BY <2>4 DEF StatusInv, Backed
<1>5. ASSUME NEW k \in Keys, NEW e \in ExecutionRecord, SetExecutionDone(k, e), Counts(k, e)
      PROVE  StatusInv'
  <2> DEFINE j == JobOf[k]
             es == PutExecution(k, e)
             status == GroupStatus(es, j, GroupOf[k])
             r == jobs[j].results
             new == Count(r, e, status)
  <2>1. /\ j \in Jobs /\ Stored(j) /\ jobs' = [jobs EXCEPT ![j].results = new]
        /\ e.success \in BOOLEAN /\ e # NoExecution
    BY <1>5, ConstantsAssumption DEF SetExecutionDone, ExecutionRecord
  <2>2. es[k] = e
    BY <1>5 DEF SetExecutionDone, PutExecution, IInv, TypeOK
  <2>3. /\ status # NoStatus /\ (status = "success" => e.success)
        /\ (status = "failed" => ~e.success)
    BY <2>1, <2>2, GroupStatusFacts
  <2> HIDE DEF status
  <2>4. Backed(new)
    BY <1>0, <2>1, <2>3, CountBacked
  <2> HIDE DEF new
  <2>5. jobs'[j].results = new /\ \A x \in Jobs : x # j => jobs'[x] = jobs[x]
    BY <1>0, <2>1 DEF IInv, TypeOK, JobRecord
  <2>6. ASSUME NEW x \in Jobs, jobs'[x] # NoJob, x # j PROVE Backed(jobs'[x].results)
    BY <2>5, <2>6 DEF StatusInv, Stored
  <2>7. \A x \in Jobs : Stored(x)' => Backed(jobs'[x].results)
    BY <2>4, <2>5, <2>6 DEF Stored
  <2> QED BY <2>7 DEF StatusInv, Backed
<1>6. ASSUME NEW k \in Keys, NEW e \in ExecutionRecord, SetExecutionDone(k, e), ~Counts(k, e)
      PROVE  StatusInv'
  BY <1>1, <1>6 DEF SetExecutionDone
<1> QED BY <1>1, <1>2, <1>3, <1>4, <1>5, <1>6 DEF Next, SetExecution, vars

\* What the pages show follows from what is backed.
LEMMA StatusAgrees ==
  ASSUME IInv, StatusInv
  PROVE  StatusAgreesWithCounts
<1> SUFFICES ASSUME NEW j \in Jobs, Stored(j),
                    jobs[j].results.successCount + jobs[j].results.errorCount > 0
             PROVE  LET r == jobs[j].results
                        lists == {s \in JobFilter : j \in Filtered(s)}
                    IN CASE StatusField(j) = "Success" -> r.successCount > 0 /\ lists = {"success"}
                         [] StatusField(j) = "Failed"  -> r.errorCount > 0 /\ lists = {"failed"}
                         [] OTHER -> JobHeader(j).status = "partially_failed" /\ lists = {}
  BY Zenon DEF StatusAgreesWithCounts
<1> DEFINE r == jobs[j].results
           lists == {s \in JobFilter : j \in Filtered(s)}
           shown == StatusField(j)
           success == r.successCount > 0 /\ lists = {"success"}
           failed == r.errorCount > 0 /\ lists = {"failed"}
           partly == JobHeader(j).status = "partially_failed" /\ lists = {}
           agrees == CASE shown = "Success" -> success
                       [] shown = "Failed" -> failed
                       [] OTHER -> partly
<1>1. /\ r.status # NoStatus
      /\ r.status = "success" => r.successCount > 0
      /\ r.status = "failed" => r.errorCount > 0
  BY DEF StatusInv, Backed
<1>2. r.status \in {NoStatus, "success", "failed", "partially_failed"}
  BY Zenon DEF IInv, TypeOK, Stored, JobRecord, Results, Statuses, NoStatus
<1>3. lists = {s \in {"success", "failed"} : r.status = s}
  <2>1. \A s : j \in Filtered(s) <=> r.status = s
    BY <1>1, Zenon DEF Filtered, NoStatus
  <2>2. r.status # "untriggered"
    BY <1>1, <1>2
  <2> HIDE DEF r
  <2> QED BY <2>1, <2>2, JobFilter = {"success", "failed", "untriggered"} DEF JobFilter
<1>4. shown = CASE r.status = "success" -> "Success"
                [] r.status = "failed" -> "Failed"
                [] OTHER -> "Pending"
  BY DEF StatusField
<1>5. JobHeader(j).status = r.status
  <2>1. StatusChip(j) = r.status
    BY <1>1, Zenon DEF StatusChip, NoStatus
  <2> QED BY <2>1 DEF JobHeader
<1> HIDE DEF r, lists, shown
<1>6. CASE r.status = "success"
  <2>1. shown = "Success" /\ success
    BY <1>1, <1>3, <1>4, <1>6
  <2>2. agrees
    BY <2>1, "Success" # "Failed", Zenon
  <2> QED BY <2>2 DEF r, lists, shown
<1>7. CASE r.status = "failed"
  <2>1. shown = "Failed" /\ failed
    BY <1>1, <1>3, <1>4, <1>7
  <2>2. agrees
    BY <2>1, "Success" # "Failed", Zenon
  <2> QED BY <2>2 DEF r, lists, shown
<1>8. CASE r.status = "partially_failed"
  <2>1. shown = "Pending" /\ partly
    BY <1>3, <1>4, <1>5, <1>8
  <2>2. agrees
    BY <2>1, "Success" # "Pending", "Failed" # "Pending", Zenon
  <2> QED BY <2>2 DEF r, lists, shown
<1> QED BY <1>1, <1>2, <1>6, <1>7, <1>8

\* The status a job is shown with agrees with the counters beside it, for all
\* jobs, executions and groups, as long as the jobs that clients write carry no
\* counts of their own (store.go:296, JobList.tsx:33-37, StatusField.tsx).
THEOREM StatusesAgree ==
  ASSUME PayloadsCountNone
  PROVE  Spec => []StatusAgreesWithCounts
<1>1. Init => StatusInv
  BY DEF Init, StatusInv, Stored
<1>2. IInv /\ StatusInv /\ [Next]_vars => StatusInv'
  BY StepStatus
<1>3. IInv /\ StatusInv => StatusAgreesWithCounts
  BY StatusAgrees
<1> QED BY Invariance, <1>1, <1>2, <1>3, PTL DEF Spec

=============================================================================
