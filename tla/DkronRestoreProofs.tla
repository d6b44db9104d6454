------------------------- MODULE DkronRestoreProofs -------------------------
(***************************************************************************)
(* A restored list, proved for every finite set of jobs: where it comes    *)
(* from it changes nothing, and in a new cluster it is all there or        *)
(* nothing is.  The trees that generateJobTree makes hold each job of the  *)
(* list once, below its parent, exactly if the list is complete; and of    *)
(* trees like that recursiveSetJob sets each job once, after its parent.   *)
(***************************************************************************)
EXTENDS DkronRestore, DkronStoreProofs, SequenceTheorems

-----------------------------------------------------------------------------
(* generateJobTree, job by job *)

Planted(list) ==
  [tops |-> list, children |-> [j \in Jobs |-> <<>>], next |-> 1, error |-> FALSE]

\* The trees after each job of the list, up to the n-th.
Grown(g, list, n) ==
  g = [m \in 0..n |-> IF m = 0 THEN Planted(list) ELSE FindParent(g[m - 1])]

\* They exist, however long the list is.
LEMMA GrownExists ==
  ASSUME NEW list, NEW N \in Nat
  PROVE  \E g : Grown(g, list, N)
<1> DEFINE T == {n \in Nat : \E g : Grown(g, list, n)}
<1>1. 0 \in T
  <2> DEFINE g == [m \in 0..0 |-> Planted(list)]
  <2>1. Grown(g, list, 0)
    BY DEF Grown
  <2> HIDE DEF g
  <2> QED BY <2>1
<1>2. ASSUME NEW n \in T PROVE n + 1 \in T
  <2>1. PICK g : Grown(g, list, n)
    OBVIOUS
  <2> DEFINE h == [m \in 0..(n + 1) |-> IF m = n + 1 THEN FindParent(g[n]) ELSE g[m]]
  <2>2. ASSUME NEW m \in 0..(n + 1)
        PROVE  h[m] = IF m = 0 THEN Planted(list) ELSE FindParent(h[m - 1])
    <3>1. CASE m = n + 1
      <4>1. h[m] = FindParent(g[n]) /\ h[m - 1] = g[n] /\ m # 0
        BY <3>1
      <4> QED BY <4>1
    <3>2. CASE m # n + 1 /\ m # 0
      <4>1. m \in 0..n /\ m - 1 \in 0..(n + 1) /\ m - 1 # n + 1
        BY <3>2
      <4>2. h[m] = g[m] /\ h[m - 1] = g[m - 1]
        BY <3>2, <4>1
      <4> HIDE DEF h
      <4>3. g[m] = FindParent(g[m - 1])
        BY <2>1, <3>2, <4>1 DEF Grown
      <4> QED BY <3>2, <4>2, <4>3
    <3>3. CASE m = 0
      <4>1. h[m] = g[0]
        BY <3>3
      <4>2. g[0] = Planted(list)
        BY <2>1 DEF Grown
      <4> QED BY <3>3, <4>1, <4>2
    <3> QED BY <3>1, <3>2, <3>3
  <2>3. h = [m \in 0..(n + 1) |-> h[m]]
    OBVIOUS
  <2> HIDE DEF h
  <2>4. Grown(h, list, n + 1)
    BY <2>2, <2>3 DEF Grown
  <2> QED BY <2>4
<1>3. T = Nat
  <2> HIDE DEF T
  <2>1. T \in SUBSET Nat
    BY DEF T
  <2> QED BY <1>1, <1>2, <2>1, AllNumbers
<1> QED BY <1>3

LEMMA TreeIsGrown ==
  ASSUME NEW list, Len(list) \in Nat
  PROVE  \E g : Grown(g, list, Len(list)) /\ GenerateJobTree(list) = g[Len(list)]
<1> DEFINE P(g) == g = [m \in 0..Len(list) |-> IF m = 0 THEN Planted(list)
                                                ELSE FindParent(g[m - 1])]
<1>1. \E g : P(g)
  BY GrownExists DEF Grown
<1>2. P(CHOOSE g : P(g))
  BY <1>1, Zenon
<1>3. GenerateJobTree(list) = (CHOOSE g : P(g))[Len(list)]
  BY DEF GenerateJobTree, Planted
<1> QED BY <1>2, <1>3 DEF Grown

-----------------------------------------------------------------------------
(* The jobs in the trees *)

\* The jobs in the lists of some jobs.
ListedBy(children, X) == UNION {Range(children[j]) : j \in X}

Spread(g, children, tops, n) ==
  g = [m \in 0..n |-> IF m = 0 THEN tops ELSE g[m - 1] \cup ListedBy(children, g[m - 1])]

LEMMA SpreadExists ==
  ASSUME NEW children, NEW tops, NEW N \in Nat
  PROVE  \E g : Spread(g, children, tops, N)
<1> DEFINE F(X) == X \cup ListedBy(children, X)
           T == {n \in Nat : \E g : Spread(g, children, tops, n)}
<1>1. 0 \in T
  <2> DEFINE g == [m \in 0..0 |-> tops]
  <2>1. Spread(g, children, tops, 0)
    BY DEF Spread
  <2> HIDE DEF g
  <2> QED BY <2>1
<1>2. ASSUME NEW n \in T PROVE n + 1 \in T
  <2>1. PICK g : Spread(g, children, tops, n)
    OBVIOUS
  <2> DEFINE h == [m \in 0..(n + 1) |-> IF m = n + 1 THEN F(g[n]) ELSE g[m]]
  <2> HIDE DEF F
  <2>2. ASSUME NEW m \in 0..(n + 1)
        PROVE  h[m] = IF m = 0 THEN tops ELSE F(h[m - 1])
    <3>1. CASE m = n + 1
      <4>1. h[m] = F(g[n]) /\ h[m - 1] = g[n] /\ m # 0
        BY <3>1
      <4> QED BY <4>1
    <3>2. CASE m # n + 1 /\ m # 0
      <4>1. m \in 0..n /\ m - 1 \in 0..(n + 1) /\ m - 1 # n + 1
        BY <3>2
      <4>2. h[m] = g[m] /\ h[m - 1] = g[m - 1]
        BY <3>2, <4>1
      <4> HIDE DEF h
      <4>3. g[m] = F(g[m - 1])
        BY <2>1, <3>2, <4>1 DEF Spread, F
      <4> QED BY <3>2, <4>2, <4>3
    <3>3. CASE m = 0
      <4>1. h[m] = g[0]
        BY <3>3
      <4>2. g[0] = tops
        BY <2>1 DEF Spread
      <4> QED BY <3>3, <4>1, <4>2
    <3> QED BY <3>1, <3>2, <3>3
  <2>3. h = [m \in 0..(n + 1) |-> h[m]]
    OBVIOUS
  <2> HIDE DEF h
  <2>4. Spread(h, children, tops, n + 1)
    BY <2>2, <2>3 DEF Spread, F
  <2> QED BY <2>4
<1>3. T = Nat
  <2> HIDE DEF T
  <2>1. T \in SUBSET Nat
    BY DEF T
  <2> QED BY <1>1, <1>2, <2>1, AllNumbers
<1> QED BY <1>3

LEMMA InTreesSpread ==
  ASSUME NEW children, NEW tops, Cardinality(Jobs) \in Nat
  PROVE  \E g : Spread(g, children, tops, Cardinality(Jobs))
                /\ InTrees(children, tops) = g[Cardinality(Jobs)]
<1> DEFINE N == Cardinality(Jobs)
           P(g) == g = [n \in 0..N |-> IF n = 0 THEN tops
                          ELSE g[n - 1] \cup UNION {Range(children[j]) : j \in g[n - 1]}]
<1>1. \E g : P(g)
  <2>1. PICK g : Spread(g, children, tops, N)
    BY SpreadExists
  <2>2. P(g)
    BY <2>1 DEF Spread, ListedBy
  <2> HIDE DEF P
  <2> QED BY <2>2
<1>2. P(CHOOSE g : P(g))
  BY <1>1, Zenon
<1>3. InTrees(children, tops) = (CHOOSE g : P(g))[N]
  BY DEF InTrees
<1> QED BY <1>2, <1>3 DEF Spread, ListedBy

\* Sets that grow as often as S has elements are S in the end, unless they stop growing.
LEMMA GrowingSets ==
  ASSUME NEW S, IsFiniteSet(S), NEW N \in Nat, N = Cardinality(S),
         NEW g \in [0..N -> SUBSET S], \A n \in 1..N : g[n - 1] \subseteq g[n]
  PROVE  g[N] = S \/ \E n \in 1..N : g[n] = g[n - 1]
<1> SUFFICES ASSUME \A n \in 1..N : g[n] # g[n - 1] PROVE g[N] = S
  OBVIOUS
<1>1. \A n \in 0..N : IsFiniteSet(g[n]) /\ Cardinality(g[n]) \in Nat
  <2> TAKE n \in 0..N
  <2>1. g[n] \in SUBSET S
    OBVIOUS
  <2> QED BY <2>1, FS_Subset, FS_CardinalityType
<1> DEFINE T == {n \in Nat : n <= N => Cardinality(g[n]) >= n}
<1>2. 0 \in T
  BY <1>1
<1>3. ASSUME NEW n \in T PROVE n + 1 \in T
  <2> SUFFICES ASSUME n + 1 <= N PROVE Cardinality(g[n + 1]) >= n + 1
    OBVIOUS
  <2>1. n \in 0..N /\ n + 1 \in 1..N /\ n + 1 \in 0..N /\ (n + 1) - 1 = n
    OBVIOUS
  <2>2. g[n] \subseteq g[n + 1] /\ g[n] # g[n + 1]
    BY <2>1
  <2>3. PICK x \in g[n + 1] : x \notin g[n]
    BY <2>2
  <2>4. g[n] \cup {x} \in SUBSET g[n + 1]
    BY <2>2, <2>3
  <2>5. Cardinality(g[n] \cup {x}) = Cardinality(g[n]) + 1
    BY <1>1, <2>1, <2>3, FS_AddElement
  <2>6. Cardinality(g[n] \cup {x}) <= Cardinality(g[n + 1])
    BY <1>1, <2>1, <2>4, FS_Subset
  <2>7. Cardinality(g[n]) >= n
    BY <2>1
  <2> QED BY <1>1, <2>1, <2>5, <2>6, <2>7
<1>4. T = Nat
  <2> HIDE DEF T
  <2>1. T \in SUBSET Nat
    BY DEF T
  <2> QED BY <1>2, <1>3, <2>1, AllNumbers
<1>5. Cardinality(g[N]) >= N
  BY <1>4
<1>6. g[N] \in SUBSET S /\ Cardinality(g[N]) <= N /\ (Cardinality(g[N]) = N => g[N] = S)
  <2>1. g[N] \in SUBSET S
    OBVIOUS
  <2> QED BY <2>1, FS_Subset
<1> QED BY <1>1, <1>5, <1>6

\* InTrees is the least set with tops and the children of all its members.
LEMMA InTreesFacts ==
  ASSUME IsFiniteSet(Jobs), NEW children, NEW tops \in SUBSET Jobs,
         \A j \in Jobs : Range(children[j]) \subseteq Jobs
  PROVE  LET A == InTrees(children, tops) IN
         /\ tops \subseteq A /\ A \subseteq Jobs
         /\ ListedBy(children, A) \subseteq A
         /\ \A B : tops \subseteq B /\ ListedBy(children, A \cap B) \subseteq B => A \subseteq B
<1> DEFINE N == Cardinality(Jobs)
<1>1. N \in Nat
  BY FS_CardinalityType
<1> HIDE DEF N
<1>2. PICK g : Spread(g, children, tops, N) /\ InTrees(children, tops) = g[N]
  BY <1>1, InTreesSpread DEF N
<1>3. /\ g = [m \in 0..N |-> g[m]] /\ g[0] = tops
      /\ \A n \in 1..N : g[n] = g[n - 1] \cup ListedBy(children, g[n - 1])
  <2>1. g = [m \in 0..N |-> g[m]] /\ g[0] = tops
    BY <1>1, <1>2 DEF Spread
  <2>2. ASSUME NEW n \in 1..N PROVE g[n] = g[n - 1] \cup ListedBy(children, g[n - 1])
    <3>1. n \in 0..N /\ n # 0
      BY <1>1
    <3> QED BY <1>2, <3>1 DEF Spread
  <2> QED BY <2>1, <2>2
<1>4. \A n \in 0..N : tops \subseteq g[n] /\ g[n] \subseteq Jobs
  <2> DEFINE T == {n \in Nat : n <= N => tops \subseteq g[n] /\ g[n] \subseteq Jobs}
  <2>1. 0 \in T
    BY <1>3
  <2>2. ASSUME NEW n \in T PROVE n + 1 \in T
    <3> SUFFICES ASSUME n + 1 <= N PROVE tops \subseteq g[n + 1] /\ g[n + 1] \subseteq Jobs
      OBVIOUS
    <3>0. n + 1 \in 1..N /\ (n + 1) - 1 = n /\ n <= N
      BY <1>1
    <3>1. g[n + 1] = g[n] \cup ListedBy(children, g[n]) /\ n <= N
      BY <1>3, <3>0
    <3>2. ListedBy(children, g[n]) \subseteq Jobs
      BY <3>1 DEF ListedBy
    <3> QED BY <3>1, <3>2
  <2>3. T = Nat
    <3> HIDE DEF T
    <3>1. T \in SUBSET Nat
      BY DEF T
    <3> QED BY <2>1, <2>2, <3>1, AllNumbers
  <2> QED BY <1>1, <2>3
<1>5. ASSUME NEW B, tops \subseteq B, ListedBy(children, g[N] \cap B) \subseteq B
      PROVE  g[N] \subseteq B
  <2> DEFINE T == {n \in Nat : n <= N => g[n] \subseteq B /\ g[n] \subseteq g[N]}
  <2>0. \A n \in 0..N : g[n] \subseteq g[N]
    <3> DEFINE U == {n \in Nat : n <= N => g[N - n] \subseteq g[N]}
    <3>1. 0 \in U
      BY <1>1
    <3>2. ASSUME NEW n \in U PROVE n + 1 \in U
      <4> SUFFICES ASSUME n + 1 <= N PROVE g[N - (n + 1)] \subseteq g[N]
        OBVIOUS
      <4>1. N - n \in 1..N /\ (N - n) - 1 = N - (n + 1) /\ n <= N
        BY <1>1
      <4>2. g[N - (n + 1)] \subseteq g[N - n]
        BY <1>3, <4>1
      <4> QED BY <4>1, <4>2
    <3>3. U = Nat
      <4> HIDE DEF U
      <4>1. U \in SUBSET Nat
        BY DEF U
      <4> QED BY <3>1, <3>2, <4>1, AllNumbers
    <3> TAKE n \in 0..N
    <3>4. N - n \in Nat /\ N - n <= N /\ N - (N - n) = n
      BY <1>1
    <3>5. N - n \in U
      BY <3>3, <3>4
    <3> QED BY <3>4, <3>5
  <2>1. 0 \in T
    BY <1>1, <1>3, <1>5, <2>0
  <2>2. ASSUME NEW n \in T PROVE n + 1 \in T
    <3> SUFFICES ASSUME n + 1 <= N PROVE g[n + 1] \subseteq B
      BY <1>1, <2>0
    <3>0. n + 1 \in 1..N /\ (n + 1) - 1 = n /\ n <= N
      BY <1>1
    <3>1. g[n + 1] = g[n] \cup ListedBy(children, g[n]) /\ n <= N
      BY <1>3, <3>0
    <3>2. ListedBy(children, g[n]) \subseteq ListedBy(children, g[N] \cap B)
      BY <3>1 DEF ListedBy
    <3> QED BY <1>5, <3>1, <3>2
  <2>3. T = Nat
    <3> HIDE DEF T
    <3>1. T \in SUBSET Nat
      BY DEF T
    <3> QED BY <2>1, <2>2, <3>1, AllNumbers
  <2> QED BY <1>1, <2>3
<1>6. ListedBy(children, g[N]) \subseteq g[N]
  <2>1. g \in [0..N -> SUBSET Jobs]
    BY <1>3, <1>4
  <2>2. \A n \in 1..N : g[n - 1] \subseteq g[n]
    BY <1>3
  <2>3. g[N] = Jobs \/ \E n \in 1..N : g[n] = g[n - 1]
    BY <1>1, <2>1, <2>2, GrowingSets DEF N
  <2>4. CASE g[N] = Jobs
    BY <2>4 DEF ListedBy
  <2>5. ASSUME NEW k \in 1..N, g[k] = g[k - 1] PROVE ListedBy(children, g[N]) \subseteq g[N]
    <3>1. ListedBy(children, g[k]) \subseteq g[k]
      BY <1>3, <2>5
    <3> DEFINE T == {n \in Nat : k + n <= N => g[k + n] = g[k]}
    <3>2. 0 \in T
      OBVIOUS
    <3>3. ASSUME NEW n \in T PROVE n + 1 \in T
      <4> SUFFICES ASSUME k + (n + 1) <= N PROVE g[k + (n + 1)] = g[k]
        OBVIOUS
      <4>1. k + (n + 1) \in 1..N /\ (k + (n + 1)) - 1 = k + n /\ k + n <= N
        BY <1>1
      <4>2. g[k + (n + 1)] = g[k + n] \cup ListedBy(children, g[k + n]) /\ g[k + n] = g[k]
        BY <1>3, <4>1
      <4> QED BY <3>1, <4>2
    <3>4. T = Nat
      <4> HIDE DEF T
      <4>1. T \in SUBSET Nat
        BY DEF T
      <4> QED BY <3>2, <3>3, <4>1, AllNumbers
    <3>5. N - k \in Nat /\ k + (N - k) = N /\ N <= N
      BY <1>1
    <3>6. g[k + (N - k)] = g[k]
      BY <3>4, <3>5
    <3>7. g[N] = g[k]
      BY <3>5, <3>6, Zenon
    <3> QED BY <3>1, <3>7
  <2> QED BY <2>3, <2>4, <2>5
<1>7. N \in 0..N
  BY <1>1
<1> QED BY <1>2, <1>4, <1>5, <1>6, <1>7

-----------------------------------------------------------------------------
(* The invariant of generateJobTree *)

EachOnce(s) == \A i, k \in DOMAIN s : s[i] = s[k] => i = k

\* A sequence without one of its members.
LEMMA RemoveAtFacts ==
  ASSUME NEW S, NEW s \in Seq(S), NEW i \in DOMAIN s
  PROVE  LET r == RemoveAt(s, i) IN
         /\ r \in Seq(S) /\ Len(r) + 1 = Len(s)
         /\ \A k \in DOMAIN r : r[k] = IF k < i THEN s[k] ELSE s[k + 1]
         /\ EachOnce(s) => EachOnce(r) /\ Range(r) = Range(s) \ {s[i]}
<1> DEFINE r == RemoveAt(s, i)
           front == SubSeq(s, 1, i - 1)
           back == SubSeq(s, i + 1, Len(s))
<1>1. Len(s) \in Nat /\ DOMAIN s = 1..Len(s) /\ i \in 1..Len(s)
  BY LenProperties
<1>2. /\ front \in Seq(S) /\ Len(front) = i - 1
      /\ \A k \in 1..(i - 1) : front[k] = s[k]
  BY <1>1, SubSeqProperties
<1>3. /\ back \in Seq(S) /\ Len(back) = Len(s) - i
      /\ \A k \in 1..(Len(s) - i) : back[k] = s[i + k]
  BY <1>1, SubSeqProperties
<1>4. r = front \o back
  BY DEF RemoveAt
<1> HIDE DEF front, back, r
<1>5. /\ r \in Seq(S) /\ Len(r) = Len(front) + Len(back)
      /\ \A k \in 1..(Len(front) + Len(back)) :
           r[k] = IF k <= Len(front) THEN front[k] ELSE back[k - Len(front)]
  BY <1>2, <1>3, <1>4, ConcatProperties
<1>8. DOMAIN r = 1..Len(r) /\ Len(r) \in Nat
  BY <1>5, LenProperties
<1>9. i \in Nat /\ Len(front) = i - 1 /\ Len(back) = Len(s) - i
  <2>1. i \in Nat
    BY <1>1
  <2>2. Len(front) = i - 1
    BY <1>2, Zenon
  <2>3. Len(back) = Len(s) - i
    BY <1>3, Zenon
  <2> QED BY <2>1, <2>2, <2>3
<1>10. Len(r) = Len(s) - 1 /\ Len(front) + Len(back) = Len(r) /\ Len(r) + 1 = Len(s)
  <2>1. Len(r) = Len(front) + Len(back)
    BY <1>5, Zenon
  <2> QED BY <1>1, <1>9, <2>1, SMTT(30)
<1>6. \A k \in DOMAIN r : r[k] = IF k < i THEN s[k] ELSE s[k + 1]
  <2> TAKE k \in DOMAIN r
  <2>1. k \in 1..Len(r) /\ k \in Nat
    BY <1>8
  <2>2. CASE k < i
    <3>1. k \in 1..(i - 1) /\ k <= Len(front)
      BY <1>9, <2>1, <2>2
    <3>2. r[k] = front[k]
      BY <1>5, <1>10, <2>1, <3>1
    <3>3. front[k] = s[k]
      BY <1>2, <3>1
    <3> QED BY <2>2, <3>2, <3>3
  <2>3. CASE ~(k < i)
    <3>1. ~(k <= Len(front)) /\ k - Len(front) \in 1..(Len(s) - i) /\ i + (k - Len(front)) = k + 1
      <4>1. PICK f, l, m : f = Len(front) /\ l = Len(s) /\ m = Len(r)
        OBVIOUS
      <4> l \in Nat /\ m \in Nat
        BY <1>1, <1>8, <4>1, Zenon
      <4>2. f = i - 1 /\ m + 1 = l /\ k \in 1..m /\ i \in 1..l
        BY <1>1, <1>9, <1>10, <2>1, <4>1, Zenon
      <4>3. ~(k <= f) /\ k - f \in 1..(l - i) /\ i + (k - f) = k + 1
        BY <2>3, <4>2
      <4> QED BY <4>1, <4>3, Zenon
    <3>2. r[k] = back[k - Len(front)]
      BY <1>5, <1>10, <2>1, <3>1
    <3>3. back[k - Len(front)] = s[i + (k - Len(front))]
      BY <1>3, <3>1
    <3> QED BY <2>3, <3>1, <3>2, <3>3
  <2> QED BY <2>2, <2>3
<1>7. ASSUME EachOnce(s) PROVE EachOnce(r) /\ Range(r) = Range(s) \ {s[i]}
  <2> DEFINE from(k) == IF k < i THEN k ELSE k + 1
  <2>1. PICK m \in Nat : DOMAIN r = 1..m /\ DOMAIN s = 1..(m + 1) /\ i \in 1..(m + 1)
    <3>1. Len(s) = Len(r) + 1
      BY <1>1, <1>8, <1>10
    <3> QED BY <1>1, <1>8, <3>1
  <2>2. \A k \in 1..m : from(k) \in 1..(m + 1) /\ from(k) # i
    BY <2>1
  <2>3. \A k, h \in 1..m : from(k) = from(h) => k = h
    BY <2>1
  <2>4. \A h \in 1..(m + 1) : h # i => \E k \in 1..m : from(k) = h
    <3> TAKE h \in 1..(m + 1)
    <3>1. CASE h < i
      <4>1. h \in 1..m /\ from(h) = h
        BY <2>1, <3>1
      <4> QED BY <4>1
    <3>2. CASE h > i
      <4>1. h - 1 \in 1..m /\ from(h - 1) = h
        BY <2>1, <3>2
      <4> QED BY <4>1
    <3> QED BY <2>1, <3>1, <3>2
  <2>5. \A k \in 1..m : r[k] = s[from(k)]
    BY <1>6, <2>1
  <2> HIDE DEF from
  <2>6. EachOnce(r)
    BY <1>7, <2>1, <2>2, <2>3, <2>5 DEF EachOnce
  <2>7. Range(r) = Range(s) \ {s[i]}
    <3>1. ASSUME NEW x \in Range(r) PROVE x \in Range(s) \ {s[i]}
      BY <1>7, <2>1, <2>2, <2>5, <3>1 DEF EachOnce, Range
    <3>2. ASSUME NEW x \in Range(s) \ {s[i]} PROVE x \in Range(r)
      <4>1. PICK h \in 1..(m + 1) : x = s[h] /\ h # i
        BY <2>1, <3>2 DEF Range
      <4>2. PICK k \in 1..m : from(k) = h
        BY <2>4, <4>1
      <4> QED BY <2>1, <2>5, <4>1, <4>2 DEF Range
    <3> QED BY <3>1, <3>2
  <2> QED BY <2>6, <2>7
<1> QED BY <1>5, <1>6, <1>7, <1>10 DEF r

\* A sequence with one more member.
LEMMA AppendFacts ==
  ASSUME NEW S, NEW s \in Seq(S), NEW x \in S
  PROVE  LET r == Append(s, x) IN
         /\ r \in Seq(S) /\ Range(r) = Range(s) \cup {x}
         /\ EachOnce(s) /\ x \notin Range(s) => EachOnce(r)
<1> DEFINE r == Append(s, x)
<1>1. /\ r \in Seq(S) /\ Len(r) = Len(s) + 1 /\ r[Len(r)] = x
      /\ \A k \in 1..Len(s) : r[k] = s[k]
      /\ DOMAIN r = 1..Len(r) /\ DOMAIN s = 1..Len(s) /\ Len(s) \in Nat
  BY AppendProperties, LenProperties
<1> HIDE DEF r
<1>2. \A k \in DOMAIN r : r[k] = IF k = Len(s) + 1 THEN x ELSE s[k]
  BY <1>1
<1>3. Range(r) = Range(s) \cup {x}
  BY <1>1, <1>2 DEF Range
<1>4. EachOnce(s) /\ x \notin Range(s) => EachOnce(r)
  BY <1>1, <1>2 DEF EachOnce, Range
<1> QED BY <1>1, <1>3, <1>4 DEF r

\* The state of generateJobTree for a list of the jobs in L.
Growth(L) == [tops : Seq(L), children : [Jobs -> Seq(L)], next : Nat \ {0}, error : BOOLEAN]

\* Jobs are below their own parents, each job of the list once, and nothing is below itself:
\* whichever jobs are taken, one of them is on top or below one that was not taken.
IsPlanted(t, L) ==
  /\ EachOnce(t.tops)
  /\ \A p \in Jobs : /\ EachOnce(t.children[p])
                     /\ \A c \in Range(t.children[p]) :
                          p \in L /\ jobs[c].parent = p /\ c \notin Range(t.tops)
  /\ \A taken \in SUBSET L : taken # {} =>
       \E j \in taken : j \in Range(t.tops) \/ \E p \in L \ taken : j \in Range(t.children[p])

\* After n jobs of a list of N.
IsGrown(t, L, n, N) ==
  ~t.error => /\ IsPlanted(t, L)
              /\ t.next + N = n + 1 + Len(t.tops)
              /\ \A i \in 1..(t.next - 1) : jobs[t.tops[i]].parent = NoParent

\* The jobs of a backup, and the jobs they name.
StoredList(L) == \A j \in L : j \in Jobs /\ Stored(j) /\ jobs[j].parent \in Jobs \cup {NoParent}

\* FindParent keeps the shape ...
LEMMA FindParentShape ==
  ASSUME NEW L, StoredList(L), NEW t \in Growth(L), ~t.error => t.next \in DOMAIN t.tops
  PROVE  FindParent(t) \in Growth(L) /\ (t.error => FindParent(t).error)
<1> DEFINE child == t.tops[t.next]
           parent == jobs[child].parent
<1>1. CASE t.error \/ parent = child
  <2>1. FindParent(t) = [t EXCEPT !.error = TRUE]
    BY <1>1 DEF FindParent
  <2> QED BY <2>1 DEF Growth
<1>2. CASE ~(t.error \/ parent = child)
  <2>1. child \in L /\ t.next \in DOMAIN t.tops
    BY <1>2, ElementOfSeq, LenProperties DEF Growth
  <2>2. CASE parent = NoParent
    <3>1. FindParent(t) = [t EXCEPT !.next = t.next + 1]
      BY <1>2, <2>2 DEF FindParent, Growth
    <3> QED BY <1>2, <3>1 DEF Growth
  <2>3. CASE parent # NoParent /\ parent \in InTrees(t.children, Range(t.tops) \ {child})
    <3>1. parent \in Jobs
      BY <2>1, <2>3 DEF StoredList
    <3> DEFINE tops == RemoveAt(t.tops, t.next)
               under == Append(t.children[parent], child)
    <3>2. tops \in Seq(L) /\ under \in Seq(L)
      <4>1. t.tops \in Seq(L) /\ t.children[parent] \in Seq(L)
        BY <3>1 DEF Growth
      <4>2. tops \in Seq(L)
        BY <2>1, <4>1, RemoveAtFacts
      <4>3. under \in Seq(L)
        BY <2>1, <4>1, AppendProperties
      <4> QED BY <4>2, <4>3
    <3> DEFINE kids == [t.children EXCEPT ![parent] = under]
    <3>3. FindParent(t) = [t EXCEPT !.tops = tops, !.children = kids]
      BY <1>2, <2>3, <3>1 DEF FindParent, Growth
    <3> HIDE DEF tops, under
    <3>4. kids \in [Jobs -> Seq(L)]
      BY <3>2 DEF Growth
    <3> HIDE DEF kids
    <3> QED BY <1>2, <3>2, <3>3, <3>4 DEF Growth
  <2>4. CASE parent # NoParent /\ parent \notin InTrees(t.children, Range(t.tops) \ {child})
    <3>1. FindParent(t) = [t EXCEPT !.error = TRUE]
      BY <1>2, <2>4 DEF FindParent
    <3> QED BY <3>1 DEF Growth
  <2> QED BY <2>2, <2>3, <2>4
<1> QED BY <1>1, <1>2

\* ... and keeps the trees planted: the child goes below a job that is above it in no tree.
PutBelow(t, u, child, p) ==
  /\ t.next \in DOMAIN t.tops /\ child = t.tops[t.next] /\ p = jobs[child].parent
  /\ p \in InTrees(t.children, Range(t.tops) \ {child})
  /\ u.tops = RemoveAt(t.tops, t.next)
  /\ \A q \in Jobs :
       u.children[q] = IF q = p THEN Append(t.children[p], child) ELSE t.children[q]

LEMMA PutBelowParent ==
  ASSUME IsFiniteSet(Jobs), NEW L, StoredList(L), NEW t \in Growth(L), IsPlanted(t, L),
         NEW u, NEW child \in L, NEW p \in Jobs, PutBelow(t, u, child, p)
  PROVE  IsPlanted(u, L)
<1>1. /\ t.tops \in Seq(L) /\ \A q \in Jobs : t.children[q] \in Seq(L)
      /\ EachOnce(t.tops) /\ child \in Range(t.tops) /\ L \subseteq Jobs
  BY DEF Growth, IsPlanted, Range, StoredList, PutBelow
<1>2. EachOnce(u.tops) /\ Range(u.tops) = Range(t.tops) \ {child}
  <2>1. PICK tops \in Seq(L) : tops = t.tops /\ EachOnce(tops)
    BY <1>1
  <2>2. PICK i \in DOMAIN tops : i = t.next /\ child = tops[i] /\ u.tops = RemoveAt(tops, i)
    BY <2>1 DEF PutBelow
  <2>3. EachOnce(RemoveAt(tops, i)) /\ Range(RemoveAt(tops, i)) = Range(tops) \ {tops[i]}
    BY <2>1, RemoveAtFacts
  <2> QED BY <2>1, <2>2, <2>3
<1>3. ASSUME NEW q \in Jobs
      PROVE  /\ Range(u.children[q]) = Range(t.children[q]) \cup (IF q = p THEN {child} ELSE {})
             /\ EachOnce(u.children[q])
  <2>1. EachOnce(t.children[q]) /\ child \notin Range(t.children[q])
    BY <1>1 DEF IsPlanted
  <2>2. CASE q = p
    <3>1. u.children[q] = Append(t.children[q], child)
      BY <2>2 DEF PutBelow
    <3>2. PICK below \in Seq(L) : below = t.children[q] /\ EachOnce(below)
      BY <1>1, <2>1
    <3>3. Range(Append(below, child)) = Range(below) \cup {child} /\ EachOnce(Append(below, child))
      BY <2>1, <3>2, AppendFacts
    <3> QED BY <2>2, <3>1, <3>2, <3>3
  <2>3. CASE q # p
    <3>1. u.children[q] = t.children[q]
      BY <2>3 DEF PutBelow
    <3> QED BY <2>1, <2>3, <3>1
  <2> QED BY <2>2, <2>3
<1>4. Range(t.tops) \subseteq L /\ \A q \in Jobs : Range(t.children[q]) \subseteq L
  BY <1>1, LenProperties DEF Range
<1> DEFINE tops == Range(t.tops) \ {child}
           A == InTrees(t.children, tops)
<1>5. tops \in SUBSET Jobs /\ \A q \in Jobs : Range(t.children[q]) \subseteq Jobs
  BY <1>1, <1>4
<1>6. ASSUME NEW B, tops \subseteq B, ListedBy(t.children, A \cap B) \subseteq B
      PROVE  p \in B
  <2> HIDE DEF tops
  <2>1. A \subseteq B
    BY <1>5, <1>6, InTreesFacts
  <2>2. p \in A
    BY DEF PutBelow, tops
  <2> HIDE DEF A
  <2> QED BY <2>1, <2>2
<1>7. p \in L
  <2>1. ListedBy(t.children, A \cap L) \subseteq L
    BY <1>1, <1>4 DEF ListedBy
  <2> HIDE DEF A
  <2> QED BY <1>4, <1>6, <2>1
<1> HIDE DEF tops, A
<1>8. ASSUME NEW q \in Jobs, NEW c \in Range(u.children[q])
      PROVE  q \in L /\ jobs[c].parent = q /\ c \notin Range(u.tops)
  <2>1. CASE c = child /\ q = p
    BY <1>2, <1>7, <2>1 DEF PutBelow
  <2>2. CASE c \in Range(t.children[q])
    BY <1>2, <2>2 DEF IsPlanted
  <2> QED BY <1>3, <1>8, <2>1, <2>2
<1>9. ASSUME NEW taken \in SUBSET L, taken # {},
             \A j \in taken : /\ j \notin Range(u.tops)
                              /\ \A q \in L \ taken : j \notin Range(u.children[q])
      PROVE  FALSE
  <2>1. PICK j \in taken : \/ j \in Range(t.tops)
                           \/ \E q \in L \ taken : j \in Range(t.children[q])
    BY <1>9 DEF IsPlanted
  <2>2. \A q \in L \ taken : \A k \in taken : k \notin Range(t.children[q])
    BY <1>1, <1>3, <1>9
  <2>3. j = child /\ child \in taken
    BY <1>2, <1>9, <2>1, <2>2
  <2>4. tops \subseteq L \ taken
    BY <1>2, <1>4, <1>9 DEF tops
  <2>5. ListedBy(t.children, A \cap (L \ taken)) \subseteq L \ taken
    BY <1>1, <1>4, <2>2 DEF ListedBy
  <2>6. p \in L \ taken
    BY <1>6, <2>4, <2>5
  <2>7. child \in Range(u.children[p])
    BY <1>3
  <2> QED BY <1>9, <2>3, <2>6, <2>7
<1> QED BY <1>2, <1>3, <1>8, <1>9 DEF IsPlanted

\* If the parent of a job on top is in no other tree, it is missing, or below the job itself.
LEMMA ParentNotInTrees ==
  ASSUME IsFiniteSet(Jobs), NEW L, StoredList(L), NEW t \in Growth(L), IsPlanted(t, L),
         NEW child \in L, child \in Range(t.tops), jobs[child].parent # NoParent,
         jobs[child].parent \notin InTrees(t.children, Range(t.tops) \ {child})
  PROVE  ~IsComplete(L)
<1>1. /\ L \subseteq Jobs /\ Range(t.tops) \subseteq L
      /\ \A q \in Jobs : Range(t.children[q]) \subseteq L
  <2>1. t.tops \in Seq(L) /\ \A q \in Jobs : t.children[q] \in Seq(L)
    BY DEF Growth
  <2> QED BY <2>1, LenProperties DEF Range, StoredList
<1> DEFINE tops == Range(t.tops) \ {child}
           A == InTrees(t.children, tops)
<1>2. tops \in SUBSET Jobs /\ \A q \in Jobs : Range(t.children[q]) \subseteq Jobs
  BY <1>1
<1>3. /\ tops \subseteq A /\ A \subseteq Jobs /\ ListedBy(t.children, A) \subseteq A
      /\ \A B : tops \subseteq B /\ ListedBy(t.children, A \cap B) \subseteq B => A \subseteq B
  <2> HIDE DEF tops
  <2> QED BY <1>2, InTreesFacts
<1>4. jobs[child].parent \notin A
  OBVIOUS
<1> HIDE DEF A
<1>5. child \notin A
  <2> DEFINE B == A \ {child}
  <2>1. \A q \in Jobs : child \notin Range(t.children[q])
    BY DEF IsPlanted
  <2>2. tops \subseteq B
    BY <1>3
  <2>3. ListedBy(t.children, A \cap B) \subseteq B
    BY <1>3, <2>1 DEF ListedBy
  <2>4. A \subseteq B
    <3> HIDE DEF B, tops
    <3> QED BY <1>3, <2>2, <2>3
  <2> QED BY <2>4
<1> SUFFICES ASSUME IsComplete(L) PROVE FALSE
  OBVIOUS
<1> DEFINE taken == L \ A
<1>6. taken \in SUBSET L /\ child \in taken
  BY <1>5
<1>7. PICK j \in taken : jobs[j].parent \in {NoParent} \cup (L \ taken)
  <2> HIDE DEF taken
  <2> QED BY <1>6 DEF IsComplete
<1>8. j # child /\ j \in L
  BY <1>1, <1>4, <1>7
<1>9. PICK one \in SUBSET L : one = {j}
  BY <1>8
<1>10. j \in Range(t.tops) \/ \E q \in L : j \in Range(t.children[q])
  <2>1. \E k \in one : k \in Range(t.tops) \/ \E q \in L \ one : k \in Range(t.children[q])
    BY <1>9 DEF IsPlanted
  <2> QED BY <1>9, <2>1
<1>11. j \notin Range(t.tops)
  BY <1>3, <1>7, <1>8
<1>12. PICK q \in L : j \in Range(t.children[q])
  BY <1>10, <1>11
<1>13. q \in Jobs /\ jobs[j].parent = q
  BY <1>1, <1>12 DEF IsPlanted
<1>14. q \in A
  BY <1>7, <1>13, ConstantsAssumption
<1>15. j \in ListedBy(t.children, A)
  BY <1>12, <1>14 DEF ListedBy
<1> QED BY <1>3, <1>7, <1>15

\* One job of the list.
LEMMA FindParentGrows ==
  ASSUME IsFiniteSet(Jobs), NEW L, StoredList(L), NEW t \in Growth(L), NEW n \in Nat, NEW N \in Nat,
         n < N, IsGrown(t, L, n, N)
  PROVE  LET u == FindParent(t) IN
         /\ u \in Growth(L) /\ (t.error => u.error) /\ IsGrown(u, L, n + 1, N)
         /\ ~t.error /\ IsComplete(L) => ~u.error
<1> DEFINE u == FindParent(t)
<1>1. ~t.error => t.next \in DOMAIN t.tops
  <2> SUFFICES ASSUME ~t.error PROVE t.next \in DOMAIN t.tops
    OBVIOUS
  <2>1. t.next \in Nat \ {0} /\ DOMAIN t.tops = 1..Len(t.tops) /\ Len(t.tops) \in Nat
    BY LenProperties DEF Growth
  <2>2. t.next + N = n + 1 + Len(t.tops)
    BY DEF IsGrown
  <2>3. \A k, l \in Nat : k # 0 /\ k + N = n + 1 + l => k \in 1..l
    OBVIOUS
  <2> QED BY <2>1, <2>2, <2>3
<1>2. u \in Growth(L) /\ (t.error => u.error)
  BY <1>1, FindParentShape
<1>3. CASE t.error
  BY <1>2, <1>3 DEF IsGrown
<1>4. CASE ~t.error
  <2> DEFINE child == t.tops[t.next]
             p == jobs[child].parent
             trees == InTrees(t.children, Range(t.tops) \ {child})
  <2>1. IsPlanted(t, L) /\ t.next + N = n + 1 + Len(t.tops) /\ t.next \in DOMAIN t.tops
        /\ \A i \in 1..(t.next - 1) : jobs[t.tops[i]].parent = NoParent
    BY <1>1, <1>4 DEF IsGrown
  <2>2. /\ t.next \in Nat \ {0} /\ DOMAIN t.tops = 1..Len(t.tops) /\ Len(t.tops) \in Nat
        /\ t.tops \in Seq(L)
    BY LenProperties DEF Growth
  <2>3. child \in L /\ child \in Jobs /\ p \in Jobs \cup {NoParent}
    BY <2>1, <2>2, ElementOfSeq DEF StoredList
  <2>4. CASE p = child
    <3>1. u.error
      BY <2>4 DEF FindParent, Growth
    <3>2. ~IsComplete(L)
      <4>1. {child} \in SUBSET L /\ {child} # {}
        BY <2>3
      <4>2. p # NoParent /\ p \notin L \ {child}
        BY <2>3, <2>4, ConstantsAssumption
      <4> HIDE DEF child
      <4> QED BY <4>1, <4>2 DEF IsComplete, p
    <3> QED BY <1>2, <3>1, <3>2 DEF IsGrown
  <2>5. CASE p = NoParent
    <3>1. p # child
      BY <2>3, <2>5, ConstantsAssumption
    <3>2. u = [t EXCEPT !.next = t.next + 1]
      BY <1>4, <2>5, <3>1 DEF FindParent, Growth
    <3>3. u.tops = t.tops /\ u.children = t.children /\ u.next = t.next + 1 /\ u.error = t.error
      BY <3>2 DEF Growth
    <3> HIDE DEF u
    <3>4. IsPlanted(u, L)
      BY <2>1, <3>3 DEF IsPlanted
    <3>5. \A i \in 1..(u.next - 1) : jobs[u.tops[i]].parent = NoParent
      BY <2>1, <2>2, <2>5, <3>3
    <3>6. u.next + N = (n + 1) + 1 + Len(u.tops)
      <4>1. \A k, l \in Nat : k + N = n + 1 + l => (k + 1) + N = (n + 1) + 1 + l
        OBVIOUS
      <4>2. (t.next + 1) + N = (n + 1) + 1 + Len(t.tops)
        BY <2>1, <2>2, <4>1
      <4> QED BY <3>3, <4>2
    <3>7. ~u.error
      BY <1>4, <3>3
    <3> QED BY <1>2, <1>4, <3>4, <3>5, <3>6, <3>7 DEF IsGrown, u
  <2>6. CASE p # NoParent /\ p # child /\ p \in trees
    <3>1. p \in Jobs
      BY <2>3, <2>6
    <3> DEFINE tops == RemoveAt(t.tops, t.next)
               kids == [t.children EXCEPT ![p] = Append(t.children[p], child)]
    <3>2. u = [t EXCEPT !.tops = tops, !.children = kids]
      BY <1>4, <2>6, <3>1 DEF FindParent, Growth
    <3>3. \A q \in Jobs : kids[q] = IF q = p THEN Append(t.children[p], child) ELSE t.children[q]
      BY <3>1 DEF Growth
    <3> HIDE DEF tops, kids
    <3>4. u.tops = tops /\ u.children = kids /\ u.next = t.next /\ u.error = t.error
      BY <3>2 DEF Growth
    <3> HIDE DEF u
    <3>5. PutBelow(t, u, child, p)
      BY <2>1, <2>6, <3>3, <3>4 DEF PutBelow, tops
    <3>6. IsPlanted(u, L)
      <4> HIDE DEF child, p
      <4> QED BY <2>1, <2>3, <3>1, <3>5, PutBelowParent
    <3>7. /\ Len(tops) + 1 = Len(t.tops) /\ Len(tops) \in Nat
          /\ \A k \in DOMAIN tops : tops[k] = IF k < t.next THEN t.tops[k] ELSE t.tops[k + 1]
      <4>1. PICK s \in Seq(L) : s = t.tops
        BY <2>2
      <4>2. PICK i \in DOMAIN s : i = t.next
        BY <2>1, <4>1
      <4>3. /\ RemoveAt(s, i) \in Seq(L) /\ Len(RemoveAt(s, i)) + 1 = Len(s)
            /\ \A k \in DOMAIN RemoveAt(s, i) :
                 RemoveAt(s, i)[k] = IF k < i THEN s[k] ELSE s[k + 1]
        BY RemoveAtFacts
      <4>4. tops = RemoveAt(s, i) /\ Len(RemoveAt(s, i)) \in Nat
        BY <4>1, <4>2, <4>3, LenProperties DEF tops
      <4> QED BY <4>1, <4>2, <4>3, <4>4
    <3>8. u.next + N = (n + 1) + 1 + Len(u.tops)
      <4>1. PICK k \in Nat, l \in Nat, m \in Nat :
              k = t.next /\ l = Len(t.tops) /\ m = Len(tops)
        BY <2>2, <3>7
      <4>2. k + N = n + 1 + l
        BY <2>1, <4>1, Zenon
      <4>3. m + 1 = l
        BY <3>7, <4>1, Zenon
      <4>4. u.next = k /\ Len(u.tops) = m
        BY <3>4, <4>1, Zenon
      <4> QED BY <4>2, <4>3, <4>4
    <3>9. ASSUME NEW i \in 1..(u.next - 1) PROVE jobs[u.tops[i]].parent = NoParent
      <4>1. i \in 1..(t.next - 1) /\ i < t.next /\ i \in 1..Len(tops)
        BY <2>1, <2>2, <3>4, <3>7
      <4>2. DOMAIN tops = 1..Len(tops)
        <5>1. tops \in Seq(L)
          BY <2>1, <2>2, RemoveAtFacts DEF tops
        <5> QED BY <5>1, LenProperties
      <4>3. u.tops[i] = t.tops[i]
        BY <3>4, <3>7, <4>1, <4>2
      <4> QED BY <2>1, <4>1, <4>3
    <3>10. ~u.error
      BY <1>4, <3>4
    <3> QED BY <1>2, <1>4, <3>6, <3>8, <3>9, <3>10 DEF IsGrown, u
  <2>7. CASE p # NoParent /\ p # child /\ p \notin trees
    <3>1. u.error
      BY <1>4, <2>7 DEF FindParent, Growth
    <3>2. ~IsComplete(L)
      <4>1. child \in Range(t.tops)
        BY <2>1 DEF Range
      <4> HIDE DEF child, p
      <4> QED BY <2>1, <2>3, <2>7, <4>1, ParentNotInTrees DEF p
    <3> QED BY <1>2, <3>1, <3>2 DEF IsGrown
  <2> QED BY <2>4, <2>5, <2>6, <2>7
<1> QED BY <1>2, <1>3, <1>4

\* A list of all jobs of L, each once.
ListOf(list, L) == list \in Seq(L) /\ EachOnce(list) /\ Range(list) = L

\* What generateJobTree makes of a list: trees of its jobs, unless it has an error.
LEMMA TreeFacts ==
  ASSUME IsFiniteSet(Jobs), NEW L, StoredList(L), NEW list, ListOf(list, L)
  PROVE  LET t == GenerateJobTree(list) IN
         /\ t \in Growth(L) /\ (~t.error <=> IsComplete(L))
         /\ ~t.error => /\ IsPlanted(t, L)
                        /\ \A j \in Range(t.tops) : jobs[j].parent = NoParent
<1> DEFINE N == Len(list)
           t == GenerateJobTree(list)
<1>1. N \in Nat /\ list \in Seq(L) /\ EachOnce(list) /\ Range(list) = L
  BY LenProperties DEF ListOf
<1>2. PICK g : Grown(g, list, N) /\ t = g[N]
  BY <1>1, TreeIsGrown
<1> HIDE DEF t
<1>3. g[0] = Planted(list) /\ \A n \in 0..N : n # 0 => g[n] = FindParent(g[n - 1])
  BY <1>1, <1>2 DEF Grown
<1> DEFINE Good(n) == g[n] \in Growth(L) /\ IsGrown(g[n], L, n, N)
                      /\ (IsComplete(L) => ~g[n].error)
           T == {n \in Nat : n <= N => Good(n)}
<1>4. 0 \in T
  <2> DEFINE s == Planted(list)
  <2>1. s \in Growth(L) /\ s.tops = list /\ s.next = 1 /\ ~s.error
        /\ s.children = [j \in Jobs |-> <<>>]
    BY <1>1 DEF Planted, Growth
  <2>2. \A p \in Jobs : s.children[p] = <<>> /\ EachOnce(s.children[p]) /\ Range(s.children[p]) = {}
    BY <2>1 DEF EachOnce, Range
  <2> HIDE DEF s
  <2>3. IsPlanted(s, L)
    BY <1>1, <2>1, <2>2 DEF IsPlanted
  <2>4. s.next + N = 0 + 1 + Len(s.tops) /\ 1..(s.next - 1) = {}
    BY <1>1, <2>1
  <2>5. IsGrown(s, L, 0, N)
    BY <2>1, <2>3, <2>4 DEF IsGrown
  <2> QED BY <1>3, <2>1, <2>5 DEF s
<1>5. ASSUME NEW n \in T PROVE n + 1 \in T
  <2> SUFFICES ASSUME n + 1 <= N PROVE Good(n + 1)
    OBVIOUS
  <2>1. n < N /\ n \in Nat /\ n + 1 \in 0..N /\ n + 1 # 0 /\ (n + 1) - 1 = n
    BY <1>1
  <2>2. Good(n) /\ g[n + 1] = FindParent(g[n])
    BY <1>3, <2>1
  <2> HIDE DEF N
  <2> QED BY <1>1, <2>1, <2>2, FindParentGrows
<1>6. N \in T
  <2> HIDE DEF T
  <2>1. T \in SUBSET Nat
    BY DEF T
  <2> QED BY <1>1, <1>4, <1>5, <2>1, AllNumbers
<1>7. Good(N)
  BY <1>1, <1>6
<1>8. ASSUME ~t.error
      PROVE  /\ IsPlanted(t, L) /\ \A j \in Range(t.tops) : jobs[j].parent = NoParent
             /\ IsComplete(L)
  <2>1. IsPlanted(t, L)
    BY <1>2, <1>7, <1>8 DEF IsGrown
  <2>2. /\ t.next + N = N + 1 + Len(t.tops)
        /\ \A i \in 1..(t.next - 1) : jobs[t.tops[i]].parent = NoParent
    BY <1>2, <1>7, <1>8 DEF IsGrown
  <2>3. t.next \in Nat /\ DOMAIN t.tops = 1..Len(t.tops) /\ Len(t.tops) \in Nat
    BY <1>2, <1>7, LenProperties DEF Growth
  <2>4. t.next - 1 = Len(t.tops)
    <3>1. \A k, l \in Nat : k + N = N + 1 + l => k - 1 = l
      BY <1>1
    <3> QED BY <2>2, <2>3, <3>1
  <2>5. \A j \in Range(t.tops) : jobs[j].parent = NoParent
    BY <2>2, <2>3, <2>4 DEF Range
  <2>6. ASSUME NEW taken \in SUBSET L, taken # {}
        PROVE  \E j \in taken : jobs[j].parent \in {NoParent} \cup (L \ taken)
    <3>1. PICK j \in taken : \/ j \in Range(t.tops)
                             \/ \E p \in L \ taken : j \in Range(t.children[p])
      BY <2>1, <2>6 DEF IsPlanted
    <3>2. \A p \in L \ taken : j \in Range(t.children[p]) => jobs[j].parent = p
      BY <2>1 DEF IsPlanted, StoredList
    <3> QED BY <2>5, <3>1, <3>2
  <2> QED BY <2>1, <2>5, <2>6 DEF IsComplete
<1> QED BY <1>2, <1>7, <1>8 DEF t

\* The lists of a backup are such lists.
LEMMA SetToSeqsFacts ==
  ASSUME NEW L, IsFiniteSet(L), NEW list \in SetToSeqs(L)
  PROVE  ListOf(list, L) /\ Len(list) = Cardinality(L)
<1> DEFINE N == Cardinality(L)
<1>1. N \in Nat /\ list \in [1..N -> L] /\ \A i, k \in 1..N : i # k => list[i] # list[k]
  BY FS_CardinalityType DEF SetToSeqs
<1> HIDE DEF N
<1>2. list \in Seq(L) /\ Len(list) = N /\ DOMAIN list = 1..N
  BY <1>1
<1>3. EachOnce(list)
  BY <1>1, <1>2 DEF EachOnce
<1>4. Range(list) = L
  <2>1. list \in Injection(1..N, L)
    BY <1>1 DEF Injection, IsInjective
  <2>2. Cardinality(1..N) = N
    BY <1>1, FS_Interval
  <2>3. list \in Surjection(1..N, L)
    BY <2>1, <2>2, FS_Injection DEF N
  <2> QED BY <1>2, <2>3 DEF Surjection, Range
<1> QED BY <1>2, <1>3, <1>4 DEF ListOf, N

-----------------------------------------------------------------------------
(* recursiveSetJob, call by call *)

Started(tree, js) == [todo |-> tree.tops, result |-> <<>>, table |-> js]

\* The calls after each one, up to the n-th.
Called(g, tree, js, n) ==
  g = [m \in 0..n |-> IF m = 0 THEN Started(tree, js) ELSE SetNext(tree.children, g[m - 1])]

LEMMA CalledExists ==
  ASSUME NEW tree, NEW js, NEW N \in Nat
  PROVE  \E g : Called(g, tree, js, N)
<1> DEFINE F(s) == SetNext(tree.children, s)
           T == {n \in Nat : \E g : Called(g, tree, js, n)}
<1>1. 0 \in T
  <2> DEFINE g == [m \in 0..0 |-> Started(tree, js)]
  <2>1. Called(g, tree, js, 0)
    BY DEF Called
  <2> HIDE DEF g
  <2> QED BY <2>1
<1>2. ASSUME NEW n \in T PROVE n + 1 \in T
  <2>1. PICK g : Called(g, tree, js, n)
    OBVIOUS
  <2> DEFINE h == [m \in 0..(n + 1) |-> IF m = n + 1 THEN F(g[n]) ELSE g[m]]
  <2> HIDE DEF F
  <2>2. ASSUME NEW m \in 0..(n + 1)
        PROVE  h[m] = IF m = 0 THEN Started(tree, js) ELSE F(h[m - 1])
    <3>1. CASE m = n + 1
      <4>1. h[m] = F(g[n]) /\ h[m - 1] = g[n] /\ m # 0
        BY <3>1
      <4> QED BY <4>1
    <3>2. CASE m # n + 1 /\ m # 0
      <4>1. m \in 0..n /\ m - 1 \in 0..(n + 1) /\ m - 1 # n + 1
        BY <3>2
      <4>2. h[m] = g[m] /\ h[m - 1] = g[m - 1]
        BY <3>2, <4>1
      <4> HIDE DEF h
      <4>3. g[m] = F(g[m - 1])
        BY <2>1, <3>2, <4>1 DEF Called, F
      <4> QED BY <3>2, <4>2, <4>3
    <3>3. CASE m = 0
      <4>1. h[m] = g[0]
        BY <3>3
      <4>2. g[0] = Started(tree, js)
        BY <2>1 DEF Called
      <4> QED BY <3>3, <4>1, <4>2
    <3> QED BY <3>1, <3>2, <3>3
  <2>3. h = [m \in 0..(n + 1) |-> h[m]]
    OBVIOUS
  <2> HIDE DEF h
  <2>4. Called(h, tree, js, n + 1)
    BY <2>2, <2>3 DEF Called, F
  <2> QED BY <2>4
<1>3. T = Nat
  <2> HIDE DEF T
  <2>1. T \in SUBSET Nat
    BY DEF T
  <2> QED BY <1>1, <1>2, <2>1, AllNumbers
<1> QED BY <1>3

LEMMA RecursiveSetJobIsCalled ==
  ASSUME NEW tree, NEW js, Cardinality(Jobs) \in Nat
  PROVE  \E g : Called(g, tree, js, Cardinality(Jobs))
                /\ RecursiveSetJob(tree, js) = g[Cardinality(Jobs)]
<1> DEFINE N == Cardinality(Jobs)
           P(g) == g = [n \in 0..N |-> IF n = 0 THEN Started(tree, js)
                                        ELSE SetNext(tree.children, g[n - 1])]
<1>1. \E g : P(g)
  <2>1. PICK g : Called(g, tree, js, N)
    BY CalledExists
  <2>2. P(g)
    BY <2>1 DEF Called
  <2> HIDE DEF P
  <2> QED BY <2>2
<1>2. P(CHOOSE g : P(g))
  BY <1>1, Zenon
<1>3. RecursiveSetJob(tree, js) = (CHOOSE g : P(g))[N]
  BY DEF RecursiveSetJob, Started
<1> QED BY <1>2, <1>3 DEF Called

\* The calls still to be made and those made, and the table of jobs, one of X.
Calls(L, X) == [todo : Seq(L), result : Seq([job : L, ok : BOOLEAN]), table : X]

\* The next job of the list can be set.
NextCanBeSet(s) == s.todo # <<>> /\ CanSet(s.table, Head(s.todo), jobs[Head(s.todo)])

\* If it is, the table is one of X.
NextTableIn(s, X) ==
  NextCanBeSet(s) => SetIn(s.table, Head(s.todo), jobs[Head(s.todo)]) \in X

\* It is set.
IsSet(u, children, s) ==
  LET j == Head(s.todo) IN
  /\ u.todo = children[j] \o Tail(s.todo)
  /\ u.result = Append(s.result, [job |-> j, ok |-> TRUE])
  /\ u.table = SetIn(s.table, j, jobs[j])

\* One call.
LEMMA SetNextFacts ==
  ASSUME NEW L, NEW X, NEW s \in Calls(L, X), NEW children,
         \A j \in L : children[j] \in Seq(L), NextTableIn(s, X)
  PROVE  /\ SetNext(children, s) \in Calls(L, X)
         /\ s.todo = <<>> => SetNext(children, s) = s
         /\ NextCanBeSet(s) => IsSet(SetNext(children, s), children, s)
<1> DEFINE u == SetNext(children, s)
           j == Head(s.todo)
<1>1. s.todo \in Seq(L) /\ s.result \in Seq([job : L, ok : BOOLEAN]) /\ s.table \in X
  BY DEF Calls
<1>2. CASE s.todo = <<>>
  <2>1. u = s
    BY <1>2 DEF SetNext
  <2> QED BY <1>2, <2>1 DEF NextCanBeSet
<1>3. CASE s.todo # <<>>
  <2>1. j \in L /\ Tail(s.todo) \in Seq(L)
    BY <1>1, <1>3, HeadTailProperties
  <2>2. \A ok \in BOOLEAN :
          Append(s.result, [job |-> j, ok |-> ok]) \in Seq([job : L, ok : BOOLEAN])
    BY <1>1, <2>1, AppendProperties
  <2>3. CASE ~CanSet(s.table, j, jobs[j])
    <3> DEFINE rest == Tail(s.todo)
               result == Append(s.result, [job |-> j, ok |-> FALSE])
    <3>1. u = [s EXCEPT !.todo = rest, !.result = result]
      BY <1>3, <2>3 DEF SetNext, Calls
    <3>2. rest \in Seq(L) /\ result \in Seq([job : L, ok : BOOLEAN])
      BY <2>1, <2>2
    <3> HIDE DEF rest, result, u
    <3>3. u \in Calls(L, X)
      BY <3>1, <3>2 DEF Calls
    <3> QED BY <1>3, <2>3, <3>3 DEF u, NextCanBeSet
  <2>4. CASE CanSet(s.table, j, jobs[j])
    <3> DEFINE todo == children[j] \o Tail(s.todo)
               result == Append(s.result, [job |-> j, ok |-> TRUE])
               table == SetIn(s.table, j, jobs[j])
    <3>1. u = [todo |-> todo, result |-> result, table |-> table]
      BY <1>3, <2>4 DEF SetNext
    <3>2. todo \in Seq(L)
      BY <2>1, ConcatProperties
    <3>3. table \in X
      BY <1>3, <2>4 DEF NextTableIn, NextCanBeSet
    <3>4. result \in Seq([job : L, ok : BOOLEAN])
      BY <2>2
    <3> HIDE DEF todo, result, table, u
    <3>5. u \in Calls(L, X) /\ u.todo = todo /\ u.result = result /\ u.table = table
      BY <3>1, <3>2, <3>3, <3>4 DEF Calls
    <3> QED BY <1>3, <3>5 DEF u, todo, result, table, IsSet
  <2> QED BY <2>3, <2>4
<1> QED BY <1>2, <1>3

-----------------------------------------------------------------------------
(* Restored into the cluster it comes from *)

\* Setting a job to what is stored changes nothing.
LEMMA SetAgain ==
  ASSUME TypeOK, NEW j \in Jobs, Stored(j)
  PROVE  SetIn(jobs, j, jobs[j]) = jobs
<1> DEFINE p == jobs[j]
           n == CHOOSE n \in NextTimes : TRUE
           m == Merge(p, p, n)
<1>1. p \in JobRecord /\ p # NoJob /\ jobs = [k \in Jobs |-> jobs[k]]
  BY DEF TypeOK, Stored
<1>2. \A x \in Nat : Later(x, x) = x
  BY DEF Later
<1>3. MergeResults(p.results, p.results) = p.results
  <2> DEFINE r == p.results
             status == IF r.status # "" THEN r.status ELSE r.status
  <2>1. r \in Results
    BY <1>1 DEF JobRecord
  <2>2. status = r.status
    BY Zenon
  <2>3. /\ Later(r.successCount, r.successCount) = r.successCount
        /\ Later(r.errorCount, r.errorCount) = r.errorCount
        /\ Later(r.lastSuccess, r.lastSuccess) = r.lastSuccess
        /\ Later(r.lastError, r.lastError) = r.lastError
    BY <1>2, <2>1, ConstantsAssumption DEF Results, Times
  <2>4. MergeResults(r, r) =
          [successCount |-> r.successCount, errorCount |-> r.errorCount,
           lastSuccess |-> r.lastSuccess, lastError |-> r.lastError, status |-> status]
    BY <2>3, Zenon DEF MergeResults
  <2> HIDE DEF r, status
  <2>5. MergeResults(r, r) = r
    BY <2>1, <2>2, <2>4 DEF Results
  <2> QED BY <2>5 DEF r
<1>4. MergeDependents(p.dependents, p.dependents) = p.dependents
  BY DEF MergeDependents
<1>5. Later(p.next, p.next) = p.next
  BY <1>1, <1>2, ConstantsAssumption DEF JobRecord
<1>6. m = [p EXCEPT !.results = p.results, !.dependents = p.dependents, !.next = p.next]
  BY <1>1, <1>3, <1>4, <1>5 DEF Merge
<1>7. m = p
  BY <1>1, <1>6 DEF JobRecord
<1>8. [jobs EXCEPT ![j] = m] = jobs
  BY <1>1, <1>7
<1>9. Relink(jobs, j, ParentOf(jobs, j)) = jobs
  BY <1>1 DEF Relink, ParentOf
<1> QED BY <1>8, <1>9 DEF SetIn

\* What a list is made of, and what is restored from it.
LEMMA BackupFacts ==
  ASSUME IsFiniteSet(Jobs), TypeOK, NEW L \in SUBSET {j \in Jobs : Stored(j)}
  PROVE  L \subseteq Jobs /\ IsFiniteSet(L) /\ StoredList(L) /\ Cardinality(Jobs) \in Nat
<1>1. L \in SUBSET Jobs
  OBVIOUS
<1>2. \A j \in L : j \in Jobs /\ Stored(j) /\ jobs[j] \in JobRecord
  BY DEF TypeOK, Stored
<1> QED BY <1>1, <1>2, FS_Subset, FS_CardinalityType DEF StoredList, JobRecord

LEMMA RestoreChangesNothing ==
  ASSUME IsFiniteSet(Jobs), TypeOK, NEW L \in SUBSET {j \in Jobs : Stored(j)},
         NEW list \in SetToSeqs(L)
  PROVE  Restore(list, jobs).table = jobs
<1> DEFINE t == GenerateJobTree(list)
<1>1. IsFiniteSet(L) /\ StoredList(L) /\ Cardinality(Jobs) \in Nat
  BY BackupFacts
<1>2. t \in Growth(L)
  <2>1. ListOf(list, L)
    BY <1>1, SetToSeqsFacts
  <2> QED BY <1>1, <2>1, TreeFacts
<1>3. CASE t.error
  BY <1>3 DEF Restore
<1>4. CASE ~t.error
  <2> DEFINE N == Cardinality(Jobs)
  <2>1. Restore(list, jobs) = RecursiveSetJob(t, jobs)
    BY <1>4 DEF Restore
  <2> HIDE DEF t
  <2>2. PICK g : Called(g, t, jobs, N) /\ RecursiveSetJob(t, jobs) = g[N]
    BY <1>1, RecursiveSetJobIsCalled
  <2> HIDE DEF N
  <2>3. /\ g[0] = Started(t, jobs)
        /\ \A n \in 0..N : n # 0 => g[n] = SetNext(t.children, g[n - 1])
    BY <1>1, <2>2 DEF Called, N
  <2>4. t.tops \in Seq(L) /\ \A j \in L : t.children[j] \in Seq(L)
    BY <1>1, <1>2 DEF Growth, StoredList
  <2>5. \A j \in L : SetIn(jobs, j, jobs[j]) = jobs
    BY <1>1, SetAgain DEF StoredList
  <2> DEFINE T == {n \in Nat : n <= N => g[n] \in Calls(L, {jobs})}
  <2>6. 0 \in T
    <3>1. <<>> \in Seq([job : L, ok : BOOLEAN])
      BY EmptySeq
    <3>2. g[0] = [todo |-> t.tops, result |-> <<>>, table |-> jobs]
      BY <2>3 DEF Started
    <3>3. g[0] \in Calls(L, {jobs})
      BY <2>4, <3>1, <3>2 DEF Calls
    <3> QED BY <3>3
  <2>7. ASSUME NEW n \in T PROVE n + 1 \in T
    <3> SUFFICES ASSUME n + 1 <= N PROVE g[n + 1] \in Calls(L, {jobs})
      OBVIOUS
    <3>1. n <= N /\ n + 1 \in 0..N /\ n + 1 # 0 /\ (n + 1) - 1 = n
      BY <1>1 DEF N
    <3>2. g[n + 1] = SetNext(t.children, g[n]) /\ g[n] \in Calls(L, {jobs})
      BY <2>3, <3>1
    <3> DEFINE children == t.children
               X == {jobs}
    <3>3. PICK s \in Calls(L, X) : s = g[n]
      BY <3>2
    <3>4. NextTableIn(s, X)
      BY <2>5, HeadTailProperties DEF Calls, NextTableIn, NextCanBeSet
    <3>5. \A j \in L : children[j] \in Seq(L)
      BY <2>4
    <3> HIDE DEF children, X
    <3>6. SetNext(children, s) \in Calls(L, X)
      BY <3>4, <3>5, SetNextFacts
    <3> QED BY <3>2, <3>3, <3>6 DEF children, X
  <2>8. N \in T
    <3> HIDE DEF T
    <3>1. T \in SUBSET Nat
      BY DEF T
    <3> QED BY <1>1, <2>6, <2>7, <3>1, AllNumbers DEF N
  <2>9. g[N] \in Calls(L, {jobs})
    BY <1>1, <2>8 DEF N
  <2> QED BY <2>1, <2>2, <2>9 DEF Calls
<1> QED BY <1>3, <1>4

\* DkronRestore!RestoreIsIdempotent holds for every finite set of jobs: restoring a backup where
\* it was made, in whatever order the jobs are listed, changes no record (job.go:536).
THEOREM RestoringTwiceIsRestoringOnce ==
  ASSUME IsFiniteSet(Jobs)
  PROVE  Spec => []RestoreIsIdempotent
<1>1. TypeOK => RestoreIsIdempotent
  BY RestoreChangesNothing DEF RestoreIsIdempotent, ForEveryBackup
<1> QED BY <1>1, TypeCorrect, PTL

-----------------------------------------------------------------------------
(* Restored into a new cluster *)

\* A job as it is restored: its list can name a job once more than the backup's.
RestoredRecord == [parent : Jobs \cup {NoParent}, dependents : [Jobs -> Nat],
                   schedule : Schedules, next : NextTimes, results : Results]

RestoredTables == [Jobs -> RestoredRecord \cup {NoJob}]

\* A restored job has what the property asks of it.
AsInBackup(r, j) ==
  /\ r # NoJob
  /\ r.parent = jobs[j].parent
  /\ r.schedule = jobs[j].schedule
  /\ r.results = jobs[j].results
  /\ Named(r.dependents) = Named(jobs[j].dependents)

\* A table in which the jobs of D are restored, and no others.
Restored(js, D) == /\ js \in RestoredTables
                   /\ \A j \in D : AsInBackup(js[j], j)
                   /\ \A j \in Jobs \ D : js[j] = NoJob

\* Restoring one more job, whose parent is restored.
LEMMA SetFresh ==
  ASSUME TypeOK, ParentKnowsChild, NoJob \notin RestoredRecord,
         NEW D \in SUBSET Jobs, \A x \in D : jobs[x].parent \in D \cup {NoParent},
         NEW js, Restored(js, D),
         NEW j \in Jobs \ D, Stored(j), jobs[j].parent \in D \cup {NoParent}
  PROVE  CanSet(js, j, jobs[j]) /\ Restored(SetIn(js, j, jobs[j]), D \cup {j})
<1> DEFINE p == jobs[j]
           q == p.parent
           n == CHOOSE n \in NextTimes : TRUE
           r == [p EXCEPT !.next = n]
           mid == [js EXCEPT ![j] = r]
           new == SetIn(js, j, p)
<1>1. p \in JobRecord /\ js \in RestoredTables /\ js[j] = NoJob
  BY DEF TypeOK, Stored, Restored
<1>2. r \in RestoredRecord /\ AsInBackup(r, j) /\ r.parent = q
  <2>1. n \in NextTimes
    BY <1>1 DEF JobRecord
  <2> HIDE DEF n
  <2>2. p.dependents \in [Jobs -> Nat]
    BY <1>1, ConstantsAssumption DEF JobRecord, Dependents
  <2>3. /\ r.parent = p.parent /\ r.dependents = p.dependents /\ r.schedule = p.schedule
        /\ r.results = p.results /\ r \in RestoredRecord
    BY <1>1, <2>1, <2>2 DEF JobRecord, RestoredRecord
  <2> QED BY <2>3 DEF AsInBackup
<1>3. q # j /\ CanSet(js, j, p)
  <2>1. q # j
    BY ConstantsAssumption
  <2> QED BY <2>1 DEF CanSet, Restored, AsInBackup
<1>4. new = Relink(mid, j, NoParent)
  BY <1>1 DEF SetIn, Merge, ParentOf
<1> HIDE DEF r, new
<1>5. Restored(mid, D \cup {j}) /\ mid[j] = r
  BY <1>1, <1>2 DEF Restored, RestoredTables
<1> HIDE DEF mid
<1>6. CASE q = NoParent
  <2>1. new = mid
    BY <1>2, <1>4, <1>5, <1>6 DEF Relink
  <2> QED BY <1>3, <1>5, <2>1 DEF new
<1>7. CASE q # NoParent
  <2>1. q \in D /\ mid[q] # NoJob /\ mid[q] \in RestoredRecord /\ AsInBackup(mid[q], q)
    BY <1>5, <1>7 DEF Restored, RestoredTables, AsInBackup
  <2>2. CanRewrite(mid, q)
    <3>1. mid[q].parent \in D \cup {NoParent}
      BY <2>1 DEF AsInBackup
    <3> QED BY <1>5, <2>1, <3>1 DEF CanRewrite, Restored, AsInBackup
  <2>3. new = [mid EXCEPT ![q].dependents[j] = @ + 1]
    BY <1>2, <1>4, <1>5, <1>7, <2>2 DEF Relink, Unlink, Link
  <2> DEFINE d == [mid[q].dependents EXCEPT ![j] = mid[q].dependents[j] + 1]
             s == [mid[q] EXCEPT !.dependents = d]
  <2>4. new = [mid EXCEPT ![q] = s]
    BY <1>5, <2>1, <2>3 DEF Restored, RestoredTables, RestoredRecord
  <2>5. d \in [Jobs -> Nat] /\ Named(d) = Named(mid[q].dependents) \cup {j}
    <3>1. mid[q].dependents \in [Jobs -> Nat]
      BY <2>1 DEF RestoredRecord
    <3> QED BY <3>1 DEF Named
  <2> HIDE DEF d
  <2>6. /\ s \in RestoredRecord /\ s.dependents = d /\ s.parent = mid[q].parent
        /\ s.schedule = mid[q].schedule /\ s.results = mid[q].results
    BY <2>1, <2>5 DEF RestoredRecord
  <2> HIDE DEF s
  <2>7. j \in Named(jobs[q].dependents)
    BY <1>7 DEF ParentKnowsChild, Named
  <2>8. AsInBackup(s, q)
    BY <2>1, <2>5, <2>6, <2>7 DEF AsInBackup
  <2>9. Restored(new, D \cup {j})
    BY <1>5, <2>1, <2>4, <2>6, <2>8 DEF Restored, RestoredTables
  <2> QED BY <1>3, <2>9 DEF new
<1> QED BY <1>6, <1>7

\* The jobs called.
Done(s) == {x.job : x \in Range(s.result)}

\* Where the calls are in the trees: a job is called once, after its parent and with the jobs
\* whose parents have been called waiting.
Walked(s, L) ==
  /\ EachOnce(s.todo)
  /\ Done(s) \cap Range(s.todo) = {}
  /\ \A j \in Done(s) \cup Range(s.todo) : jobs[j].parent \in Done(s) \cup {NoParent}
  /\ \A j \in L : jobs[j].parent \in Done(s) \cup {NoParent} => j \in Done(s) \cup Range(s.todo)
  /\ IsFiniteSet(Done(s)) /\ Cardinality(Done(s)) = Len(s.result)
  /\ Restored(s.table, Done(s))

\* A sequence before another one.
LEMMA ConcatFacts ==
  ASSUME NEW S, NEW a \in Seq(S), NEW b \in Seq(S)
  PROVE  /\ Range(a \o b) = Range(a) \cup Range(b)
         /\ EachOnce(a) /\ EachOnce(b) /\ Range(a) \cap Range(b) = {} => EachOnce(a \o b)
<1> DEFINE c == a \o b
<1>1. /\ c \in Seq(S) /\ Len(c) = Len(a) + Len(b)
      /\ \A i \in 1..(Len(a) + Len(b)) : c[i] = IF i <= Len(a) THEN a[i] ELSE b[i - Len(a)]
  BY ConcatProperties
<1>2. /\ DOMAIN a = 1..Len(a) /\ DOMAIN b = 1..Len(b) /\ Len(a) \in Nat /\ Len(b) \in Nat
  BY LenProperties
<1>3. DOMAIN c = 1..(Len(a) + Len(b))
  <2>1. DOMAIN c = 1..Len(c)
    BY <1>1, LenProperties
  <2>2. Len(c) = Len(a) + Len(b)
    BY <1>1, Zenon
  <2> QED BY <2>1, <2>2
<1> HIDE DEF c
<1>4. PICK m \in Nat, n \in Nat : m = Len(a) /\ n = Len(b)
  BY <1>2
<1>5. /\ DOMAIN a = 1..m /\ DOMAIN b = 1..n /\ DOMAIN c = 1..(m + n)
      /\ \A i \in 1..(m + n) : c[i] = IF i <= m THEN a[i] ELSE b[i - m]
  BY <1>1, <1>2, <1>3, <1>4
<1>6. Range(c) = Range(a) \cup Range(b)
  <2>1. ASSUME NEW x \in Range(c) PROVE x \in Range(a) \cup Range(b)
    <3>1. PICK i \in 1..(m + n) : x = c[i]
      BY <1>5 DEF Range
    <3>2. CASE i <= m
      <4>1. i \in 1..m /\ c[i] = a[i]
        BY <1>5, <3>2
      <4> QED BY <1>5, <3>1, <4>1 DEF Range
    <3>3. CASE ~(i <= m)
      <4>1. i - m \in 1..n /\ c[i] = b[i - m]
        BY <1>5, <3>3
      <4> QED BY <1>5, <3>1, <4>1 DEF Range
    <3> QED BY <3>2, <3>3
  <2>2. ASSUME NEW x \in Range(a) PROVE x \in Range(c)
    <3>1. PICK i \in 1..m : x = a[i]
      BY <1>5 DEF Range
    <3>2. i \in 1..(m + n) /\ i <= m
      OBVIOUS
    <3> QED BY <1>5, <3>1, <3>2 DEF Range
  <2>3. ASSUME NEW x \in Range(b) PROVE x \in Range(c)
    <3>1. PICK i \in 1..n : x = b[i]
      BY <1>5 DEF Range
    <3>2. m + i \in 1..(m + n) /\ ~(m + i <= m) /\ (m + i) - m = i
      OBVIOUS
    <3>3. c[m + i] = x
      BY <1>5, <3>1, <3>2
    <3> QED BY <1>5, <3>2, <3>3 DEF Range
  <2> QED BY <2>1, <2>2, <2>3
<1>7. ASSUME EachOnce(a), EachOnce(b), Range(a) \cap Range(b) = {} PROVE EachOnce(c)
  <2> SUFFICES ASSUME NEW i \in 1..(m + n), NEW k \in 1..(m + n), c[i] = c[k] PROVE i = k
    BY <1>5 DEF EachOnce
  <2>1. \A h \in 1..(m + n) : \/ h <= m /\ h \in 1..m /\ c[h] = a[h]
                              \/ ~(h <= m) /\ h - m \in 1..n /\ c[h] = b[h - m]
    BY <1>5
  <2>2. \A h \in 1..m : \A g \in 1..n : a[h] # b[g]
    BY <1>5, <1>7 DEF Range
  <2>3. CASE i <= m /\ k <= m
    BY <1>5, <1>7, <2>1, <2>3 DEF EachOnce
  <2>4. CASE ~(i <= m) /\ ~(k <= m)
    <3>1. i - m = k - m
      BY <1>5, <1>7, <2>1, <2>4 DEF EachOnce
    <3> QED BY <3>1
  <2> QED BY <2>1, <2>2, <2>3, <2>4
<1> QED BY <1>6, <1>7 DEF c

\* A sequence and its first member.
LEMMA HeadFacts ==
  ASSUME NEW S, NEW s \in Seq(S), s # <<>>
  PROVE  /\ Head(s) \in S /\ Tail(s) \in Seq(S) /\ Range(s) = {Head(s)} \cup Range(Tail(s))
         /\ EachOnce(s) => EachOnce(Tail(s)) /\ Head(s) \notin Range(Tail(s))
<1> DEFINE t == Tail(s)
<1>1. /\ Head(s) \in S /\ t \in Seq(S) /\ Len(t) = Len(s) - 1 /\ Head(s) = s[1]
      /\ \A i \in 1..Len(t) : t[i] = s[i + 1]
  BY HeadTailProperties
<1>2. DOMAIN s = 1..Len(s) /\ DOMAIN t = 1..Len(t) /\ Len(t) \in Nat
  BY <1>1, LenProperties
<1>3. PICK n \in Nat : n = Len(t)
  BY <1>2
<1> HIDE DEF t
<1>4. Len(s) = n + 1
  <2>1. Len(s) \in Nat /\ Len(t) = Len(s) - 1
    BY <1>1, LenProperties, Zenon
  <2> QED BY <1>3, <2>1
<1>5. /\ DOMAIN s = 1..(n + 1) /\ DOMAIN t = 1..n
      /\ \A i \in 1..n : t[i] = s[i + 1]
  BY <1>1, <1>2, <1>3, <1>4
<1>6. Range(s) = {Head(s)} \cup Range(t)
  <2>1. ASSUME NEW x \in Range(s) PROVE x \in {Head(s)} \cup Range(t)
    <3>1. PICK i \in 1..(n + 1) : x = s[i]
      BY <1>5 DEF Range
    <3>2. CASE i = 1
      BY <1>1, <3>1, <3>2
    <3>3. CASE i # 1
      <4>1. i - 1 \in 1..n /\ (i - 1) + 1 = i
        BY <3>3
      <4> QED BY <1>5, <3>1, <4>1 DEF Range
    <3> QED BY <3>2, <3>3
  <2>2. ASSUME NEW x \in Range(t) PROVE x \in Range(s)
    <3>1. PICK i \in 1..n : x = t[i]
      BY <1>5 DEF Range
    <3>2. i + 1 \in 1..(n + 1) /\ x = s[i + 1]
      BY <1>5, <3>1
    <3> QED BY <1>5, <3>2 DEF Range
  <2>3. Head(s) \in Range(s)
    BY <1>1, <1>5 DEF Range
  <2> QED BY <2>1, <2>2, <2>3
<1>7. ASSUME EachOnce(s) PROVE EachOnce(t) /\ Head(s) \notin Range(t)
  <2>1. \A i \in 1..n : i + 1 \in 1..(n + 1) /\ i + 1 # 1
    OBVIOUS
  <2>2. \A i, k \in 1..n : t[i] = t[k] => i + 1 = k + 1
    BY <1>5, <1>7, <2>1 DEF EachOnce
  <2>3. EachOnce(t)
    BY <1>5, <2>2 DEF EachOnce
  <2>4. \A i \in 1..n : t[i] # s[1]
    <3> TAKE i \in 1..n
    <3>1. i + 1 \in DOMAIN s /\ 1 \in DOMAIN s /\ i + 1 # 1 /\ t[i] = s[i + 1]
      BY <1>5, <2>1
    <3> QED BY <1>7, <3>1 DEF EachOnce
  <2>5. Head(s) \notin Range(t)
    BY <1>1, <1>5, <2>4 DEF Range
  <2> QED BY <2>3, <2>5
<1> QED BY <1>1, <1>6, <1>7 DEF t

\* Only jobs of the list are called.
LEMMA DoneInList ==
  ASSUME NEW L, NEW s, s.result \in Seq([job : L, ok : BOOLEAN])
  PROVE  Done(s) \in SUBSET L
<1> DEFINE R == [job : L, ok : BOOLEAN]
<1>1. \A x \in R : x.job \in L
  OBVIOUS
<1>2. PICK result \in Seq(R) : result = s.result
  OBVIOUS
<1> HIDE DEF R
<1>3. \A i \in DOMAIN result : result[i] \in R
  BY LenProperties, ElementOfSeq
<1>4. Range(s.result) \subseteq R
  BY <1>2, <1>3 DEF Range
<1> QED BY <1>1, <1>4 DEF Done

\* One more call.
LEMMA SetNextWalks ==
  ASSUME TypeOK, ParentKnowsChild, NoJob \notin RestoredRecord, NEW L, StoredList(L),
         NEW t \in Growth(L), IsPlanted(t, L), \A j \in Range(t.tops) : jobs[j].parent = NoParent,
         NEW s \in Calls(L, RestoredTables), Walked(s, L), s.todo # <<>>
  PROVE  LET u == SetNext(t.children, s) IN
         /\ u \in Calls(L, RestoredTables) /\ Walked(u, L)
         /\ Len(u.result) = Len(s.result) + 1
<1> DEFINE j == Head(s.todo)
           D == Done(s)
           u == SetNext(t.children, s)
           kids == t.children[j]
           rest == Tail(s.todo)
           call == [job |-> j, ok |-> TRUE]
<1>1. s.todo \in Seq(L) /\ s.result \in Seq([job : L, ok : BOOLEAN])
  BY DEF Calls
<1>2. L \subseteq Jobs /\ \A k \in L : Stored(k)
  BY DEF StoredList
<1>3. D \in SUBSET L
  BY <1>1, DoneInList
<1>4. /\ j \in L /\ rest \in Seq(L) /\ Range(s.todo) = {j} \cup Range(rest)
      /\ EachOnce(rest) /\ j \notin Range(rest)
  <2>1. EachOnce(s.todo)
    BY DEF Walked
  <2> QED BY <1>1, <2>1, HeadFacts
<1>5. /\ \A k \in D \cup Range(s.todo) : jobs[k].parent \in D \cup {NoParent}
      /\ \A k \in L : jobs[k].parent \in D \cup {NoParent} => k \in D \cup Range(s.todo)
      /\ D \cap Range(s.todo) = {} /\ Restored(s.table, D)
      /\ IsFiniteSet(D) /\ Cardinality(D) = Len(s.result)
  BY DEF Walked
<1>6. \A p \in Jobs : \A c \in Range(t.children[p]) : p \in L /\ jobs[c].parent = p
  BY DEF IsPlanted
<1>7. kids \in Seq(L) /\ EachOnce(kids) /\ \A k \in L : t.children[k] \in Seq(L)
  BY <1>2, <1>4 DEF Growth, IsPlanted
<1> HIDE DEF j, D, kids, rest, u
<1>8. j \in Jobs \ D /\ Stored(j) /\ jobs[j].parent \in D \cup {NoParent}
  BY <1>2, <1>4, <1>5
<1>9. CanSet(s.table, j, jobs[j]) /\ Restored(SetIn(s.table, j, jobs[j]), D \cup {j})
  <2>1. D \in SUBSET Jobs /\ \A x \in D : jobs[x].parent \in D \cup {NoParent}
    BY <1>2, <1>3, <1>5
  <2>2. PICK js : js = s.table
    OBVIOUS
  <2> QED BY <1>5, <1>8, <2>1, <2>2, SetFresh
<1>10. SetIn(s.table, j, jobs[j]) \in RestoredTables
  BY <1>9 DEF Restored
<1>11. /\ u \in Calls(L, RestoredTables) /\ u.todo = kids \o rest
       /\ u.result = Append(s.result, call) /\ u.table = SetIn(s.table, j, jobs[j])
  <2>1. PICK children : children = t.children
    OBVIOUS
  <2>2. \A k \in L : children[k] \in Seq(L)
    BY <1>7, <2>1
  <2>3. PICK X : X = RestoredTables
    OBVIOUS
  <2>4. PICK r \in Calls(L, X) : r = s
    BY <2>3
  <2>5. Head(r.todo) = j /\ r.todo # <<>>
    BY <2>4 DEF j
  <2>6. CanSet(r.table, j, jobs[j]) /\ SetIn(r.table, j, jobs[j]) \in X
    BY <1>9, <1>10, <2>3, <2>4
  <2>7. NextCanBeSet(r) /\ NextTableIn(r, X)
    BY <2>5, <2>6 DEF NextCanBeSet, NextTableIn
  <2>8. SetNext(children, r) \in Calls(L, X) /\ IsSet(SetNext(children, r), children, r)
    BY <2>2, <2>7, SetNextFacts
  <2> QED BY <2>1, <2>3, <2>4, <2>5, <2>8 DEF u, kids, rest, IsSet
<1>12. Done(u) = D \cup {j} /\ Len(u.result) = Len(s.result) + 1
  <2> DEFINE R == [job : L, ok : BOOLEAN]
  <2>1. call \in R /\ s.result \in Seq(R) /\ call.job = j
    BY <1>1, <1>4
  <2> HIDE DEF R, call
  <2>2. Range(u.result) = Range(s.result) \cup {call}
    BY <1>11, <2>1, AppendFacts
  <2>3. Len(u.result) = Len(s.result) + 1
    BY <1>11, <2>1, AppendProperties
  <2> QED BY <2>1, <2>2, <2>3 DEF Done, D
<1>13. \A c \in Range(kids) : jobs[c].parent = j /\ c \notin D \cup Range(s.todo)
  BY <1>5, <1>6, <1>8, ConstantsAssumption DEF kids
<1>14. Range(u.todo) = Range(kids) \cup Range(rest) /\ EachOnce(u.todo)
  <2>1. Range(kids) \cap Range(rest) = {}
    BY <1>4, <1>13
  <2> QED BY <1>4, <1>7, <1>11, <2>1, ConcatFacts
<1>15. Done(u) \cap Range(u.todo) = {}
  BY <1>4, <1>5, <1>12, <1>13, <1>14
<1>16. \A k \in Done(u) \cup Range(u.todo) : jobs[k].parent \in Done(u) \cup {NoParent}
  BY <1>4, <1>5, <1>12, <1>13, <1>14
<1>17. ASSUME NEW k \in L, jobs[k].parent \in Done(u) \cup {NoParent}
       PROVE  k \in Done(u) \cup Range(u.todo)
  <2>1. CASE jobs[k].parent \in D \cup {NoParent}
    BY <1>4, <1>5, <1>12, <1>14, <2>1
  <2>2. CASE jobs[k].parent = j
    <3>1. PICK one \in SUBSET L : one = {k}
      OBVIOUS
    <3>2. \E i \in one : i \in Range(t.tops) \/ \E q \in L \ one : i \in Range(t.children[q])
      BY <3>1 DEF IsPlanted
    <3>3. k \notin Range(t.tops)
      BY <1>8, <2>2, ConstantsAssumption
    <3>4. PICK q \in L : k \in Range(t.children[q])
      BY <3>1, <3>2, <3>3
    <3>5. q = j
      BY <1>2, <1>6, <2>2, <3>4
    <3> QED BY <1>14, <3>4, <3>5 DEF kids
  <2> QED BY <1>12, <1>17, <2>1, <2>2
<1>18. IsFiniteSet(Done(u)) /\ Cardinality(Done(u)) = Len(u.result)
  <2>1. j \notin D /\ IsFiniteSet(D)
    BY <1>5, <1>8
  <2>2. IsFiniteSet(D \cup {j}) /\ Cardinality(D \cup {j}) = Cardinality(D) + 1
    BY <2>1, FS_AddElement
  <2>3. Cardinality(D) = Len(s.result)
    BY <1>5
  <2> QED BY <1>12, <2>2, <2>3
<1>19. Restored(u.table, Done(u))
  BY <1>9, <1>11, <1>12
<1>20. Walked(u, L)
  BY <1>14, <1>15, <1>16, <1>17, <1>18, <1>19 DEF Walked
<1> QED BY <1>11, <1>12, <1>20 DEF u

\* The calls end, after one for each job.
LEMMA WalkEnds ==
  ASSUME IsFiniteSet(Jobs), NEW L, StoredList(L), IsComplete(L),
         NEW s \in Calls(L, RestoredTables), Walked(s, L),
         s.todo = <<>> \/ Len(s.result) = Cardinality(Jobs)
  PROVE  s.todo = <<>> /\ Done(s) = L
<1>1. s.todo \in Seq(L) /\ s.result \in Seq([job : L, ok : BOOLEAN])
  BY DEF Calls
<1>2. L \subseteq Jobs
  BY DEF StoredList
<1>3. Done(s) \in SUBSET L
  BY <1>1, DoneInList
<1>4. s.todo = <<>>
  <2> SUFFICES ASSUME s.todo # <<>>, Len(s.result) = Cardinality(Jobs) PROVE FALSE
    OBVIOUS
  <2>1. Done(s) \in SUBSET Jobs /\ Cardinality(Done(s)) = Cardinality(Jobs)
    BY <1>2, <1>3 DEF Walked
  <2>2. Done(s) = Jobs
    BY <2>1, FS_Subset
  <2>3. Head(s.todo) \in L /\ Head(s.todo) \in Range(s.todo)
    BY <1>1, HeadFacts
  <2> QED BY <1>2, <2>2, <2>3 DEF Walked
<1>5. Range(s.todo) = {}
  BY <1>4 DEF Range
<1>6. Done(s) = L
  <2> SUFFICES ASSUME L \ Done(s) # {} PROVE FALSE
    BY <1>3
  <2>1. PICK taken \in SUBSET L : taken = L \ Done(s)
    OBVIOUS
  <2>2. PICK j \in taken : jobs[j].parent \in {NoParent} \cup (L \ taken)
    BY <2>1 DEF IsComplete
  <2>3. j \in L /\ j \notin Done(s) /\ jobs[j].parent \in Done(s) \cup {NoParent}
    BY <2>1, <2>2
  <2> QED BY <1>5, <2>3 DEF Walked
<1> QED BY <1>4, <1>6

\* The calls begin.
LEMMA WalkBegins ==
  ASSUME NEW L, StoredList(L), NEW t \in Growth(L), IsPlanted(t, L),
         \A j \in Range(t.tops) : jobs[j].parent = NoParent
  PROVE  Started(t, Empty) \in Calls(L, RestoredTables) /\ Walked(Started(t, Empty), L)
<1> DEFINE s == Started(t, Empty)
<1>1. s.todo = t.tops /\ s.result = <<>> /\ s.table = Empty /\ t.tops \in Seq(L)
  BY DEF Started, Growth
<1>2. s \in Calls(L, RestoredTables) /\ Restored(Empty, {})
  <2>1. <<>> \in Seq([job : L, ok : BOOLEAN])
    BY EmptySeq
  <2>2. Empty \in RestoredTables /\ \A j \in Jobs : Empty[j] = NoJob
    BY DEF Empty, RestoredTables
  <2>3. Started(t, Empty) = [todo |-> t.tops, result |-> <<>>, table |-> Empty]
    BY DEF Started
  <2> QED BY <1>1, <2>1, <2>2, <2>3 DEF Calls, Restored
<1> HIDE DEF s
<1>3. Done(s) = {} /\ Len(s.result) = 0
  <2>1. Range(<<>>) = {} /\ Len(<<>>) = 0
    BY DEF Range
  <2> QED BY <1>1, <2>1 DEF Done
<1>4. ASSUME NEW j \in L, jobs[j].parent = NoParent PROVE j \in Range(t.tops)
  <2>1. PICK one \in SUBSET L : one = {j}
    OBVIOUS
  <2>2. \E i \in one : i \in Range(t.tops) \/ \E q \in L \ one : i \in Range(t.children[q])
    BY <2>1 DEF IsPlanted
  <2>3. \A q \in L : j \notin Range(t.children[q])
    BY <1>4, ConstantsAssumption DEF IsPlanted, StoredList
  <2> QED BY <2>1, <2>2, <2>3
<1>5. EachOnce(s.todo)
  BY <1>1 DEF IsPlanted
<1>6. IsFiniteSet(Done(s)) /\ Cardinality(Done(s)) = Len(s.result)
  BY <1>3, FS_EmptySet
<1>7. Walked(s, L)
  BY <1>1, <1>2, <1>3, <1>4, <1>5, <1>6 DEF Walked
<1> QED BY <1>2, <1>7 DEF s

\* A complete list is restored into a new cluster.
LEMMA CompleteIsRestored ==
  ASSUME IsFiniteSet(Jobs), TypeOK, ParentKnowsChild, NoJob \notin RestoredRecord,
         NEW L \in SUBSET {j \in Jobs : Stored(j)}, NEW list \in SetToSeqs(L), IsComplete(L)
  PROVE  LET r == Restore(list, Empty) IN
         /\ Done(r) = L /\ Len(r.result) = Len(list) /\ r.todo = <<>>
         /\ Restored(r.table, L)
<1> DEFINE t == GenerateJobTree(list)
           N == Cardinality(Jobs)
           X == RestoredTables
<1>1. IsFiniteSet(L) /\ StoredList(L) /\ N \in Nat
  BY BackupFacts
<1>2. ListOf(list, L) /\ Len(list) = Cardinality(L)
  BY <1>1, SetToSeqsFacts
<1>3. /\ t \in Growth(L) /\ ~t.error /\ IsPlanted(t, L)
      /\ \A j \in Range(t.tops) : jobs[j].parent = NoParent
  BY <1>1, <1>2, TreeFacts
<1>4. Restore(list, Empty) = RecursiveSetJob(t, Empty)
  BY <1>3 DEF Restore
<1> HIDE DEF t
<1>5. PICK g : Called(g, t, Empty, N) /\ RecursiveSetJob(t, Empty) = g[N]
  BY <1>1, RecursiveSetJobIsCalled
<1> HIDE DEF N
<1>6. /\ g[0] = Started(t, Empty)
      /\ \A n \in 0..N : n # 0 => g[n] = SetNext(t.children, g[n - 1])
  BY <1>1, <1>5 DEF Called
<1> DEFINE Good(n) == /\ g[n] \in Calls(L, X) /\ Walked(g[n], L)
                      /\ g[n].todo = <<>> \/ Len(g[n].result) = n
           T == {n \in Nat : n <= N => Good(n)}
<1>7. 0 \in T
  <2>1. g[0] \in Calls(L, X) /\ Walked(g[0], L)
    BY <1>1, <1>3, <1>6, WalkBegins
  <2>2. Len(g[0].result) = 0
    BY <1>6 DEF Started
  <2> QED BY <2>1, <2>2
<1>8. ASSUME NEW n \in T PROVE n + 1 \in T
  <2> SUFFICES ASSUME n + 1 <= N PROVE Good(n + 1)
    OBVIOUS
  <2>1. n \in Nat /\ n <= N /\ n + 1 \in 0..N /\ n + 1 # 0 /\ (n + 1) - 1 = n
    BY <1>1
  <2>2. g[n + 1] = SetNext(t.children, g[n]) /\ Good(n)
    BY <1>6, <2>1
  <2>3. PICK s \in Calls(L, X) : s = g[n]
    BY <2>2
  <2>4. Walked(s, L) /\ (s.todo = <<>> \/ Len(s.result) = n)
    BY <2>2, <2>3
  <2>5. CASE s.todo = <<>>
    <3>1. SetNext(t.children, s) = s
      BY <2>5 DEF SetNext
    <3> QED BY <2>2, <2>3, <2>4, <2>5, <3>1
  <2>6. CASE s.todo # <<>>
    <3> DEFINE u == SetNext(t.children, s)
    <3>1. u \in Calls(L, X) /\ Walked(u, L) /\ Len(u.result) = Len(s.result) + 1
      BY <1>1, <1>3, <2>4, <2>6, SetNextWalks
    <3>2. Len(u.result) = n + 1
      BY <2>4, <2>6, <3>1
    <3> QED BY <2>2, <2>3, <3>1, <3>2
  <2> QED BY <2>5, <2>6
<1>9. Good(N)
  <2>1. N \in T
    <3> HIDE DEF T
    <3>1. T \in SUBSET Nat
      BY DEF T
    <3> QED BY <1>1, <1>7, <1>8, <3>1, AllNumbers
  <2> QED BY <1>1, <2>1
<1>10. PICK r \in Calls(L, RestoredTables) : r = Restore(list, Empty)
  BY <1>4, <1>5, <1>9
<1>11. Walked(r, L) /\ (r.todo = <<>> \/ Len(r.result) = Cardinality(Jobs))
  BY <1>4, <1>5, <1>9, <1>10 DEF N
<1>12. r.todo = <<>> /\ Done(r) = L
  BY <1>1, <1>11, WalkEnds
<1>13. Len(r.result) = Len(list) /\ Restored(r.table, L)
  BY <1>2, <1>11, <1>12 DEF Walked
<1> QED BY <1>10, <1>12, <1>13

\* DkronRestore!RestoreIsAllOrNothing holds for every finite set of jobs and every list of a
\* backup, in any order and of any length (job.go:536, agent.go:985, store.go:256), where the
\* record of a job that is not there is unlike that of one that is.
THEOREM AllIsRestoredOrNothing ==
  ASSUME IsFiniteSet(Jobs), NoJob \notin RestoredRecord
  PROVE  Spec => []RestoreIsAllOrNothing
<1>1. ASSUME TypeOK, ParentKnowsChild, NEW L \in SUBSET {j \in Jobs : Stored(j)},
             NEW list \in SetToSeqs(L)
      PROVE  LET r == Restore(list, Empty) IN
             IF IsComplete(Range(list))
               THEN /\ {x.job : x \in Range(r.result)} = Range(list)
                    /\ Len(r.result) = Len(list) /\ r.todo = <<>>
                    /\ \A j \in Jobs \ Range(list) : r.table[j] = NoJob
                    /\ \A j \in Range(list) :
                         /\ r.table[j] # NoJob
                         /\ r.table[j].parent = jobs[j].parent
                         /\ r.table[j].schedule = jobs[j].schedule
                         /\ r.table[j].results = jobs[j].results
                         /\ Named(r.table[j].dependents) = Named(jobs[j].dependents)
               ELSE r.table = Empty
  <2>1. IsFiniteSet(L) /\ StoredList(L)
    BY <1>1, BackupFacts
  <2>2. ListOf(list, L)
    BY <1>1, <2>1, SetToSeqsFacts
  <2>3. Range(list) = L
    BY <2>2 DEF ListOf
  <2>4. CASE IsComplete(L)
    <3>1. PICK r : r = Restore(list, Empty)
      OBVIOUS
    <3>2. Done(r) = L /\ Len(r.result) = Len(list) /\ r.todo = <<>> /\ Restored(r.table, L)
      BY <1>1, <2>4, <3>1, CompleteIsRestored
    <3> QED BY <2>3, <2>4, <3>1, <3>2 DEF Done, Restored, AsInBackup
  <2>5. CASE ~IsComplete(L)
    <3>1. GenerateJobTree(list).error
      BY <2>1, <2>2, <2>5, TreeFacts
    <3>2. Restore(list, Empty).table = Empty
      BY <3>1 DEF Restore
    <3> QED BY <2>3, <2>5, <3>2
  <2> QED BY <2>4, <2>5
<1>2. TypeOK /\ ParentKnowsChild => RestoreIsAllOrNothing
  BY <1>1 DEF RestoreIsAllOrNothing, ForEveryBackup
<1> QED BY <1>2, TypeCorrect, ChildrenAreKnown, PTL
=============================================================================
