------------------------- MODULE DkronDiagramProofs -------------------------
(***************************************************************************)
(* The dependency diagram, proved for every finite set of jobs, whatever   *)
(* parents and lists the store holds: the traversals end and find the      *)
(* family of the current job, arrows join parent and child, nodes do not   *)
(* cover each other, and in a forest arrows lead one level down.           *)
(***************************************************************************)
EXTENDS DkronDiagram, DkronRestoreProofs

-----------------------------------------------------------------------------
(* Recursive functions *)

\* What comes of a in steps, of which the n-th is f[n].
Steps(g, a, f, N) == g[0] = a /\ \A n \in 1..N : g[n] = f[n][g[n - 1]]

LEMMA IterationExists ==
  ASSUME NEW S, NEW a \in S, NEW N \in Nat, NEW f \in [1..N -> [S -> S]]
  PROVE  \E g \in [0..N -> S] : Steps(g, a, f, N)
<1> DEFINE T == {n \in Nat : n <= N => \E g \in [0..n -> S] : Steps(g, a, f, n)}
<1>1. 0 \in T
  <2> DEFINE g == [m \in 0..0 |-> a]
  <2>1. g \in [0..0 -> S] /\ Steps(g, a, f, 0)
    BY DEF Steps
  <2> HIDE DEF g
  <2> QED BY <2>1
<1>2. ASSUME NEW n \in T PROVE n + 1 \in T
  <2> SUFFICES ASSUME n + 1 <= N PROVE \E g \in [0..(n + 1) -> S] : Steps(g, a, f, n + 1)
    OBVIOUS
  <2>1. PICK g \in [0..n -> S] : Steps(g, a, f, n)
    OBVIOUS
  <2>2. PICK x \in S : x = f[n + 1][g[n]]
    <3>1. n + 1 \in 1..N /\ n \in 0..n
      OBVIOUS
    <3> QED BY <3>1
  <2> DEFINE h == [m \in 0..(n + 1) |-> IF m = n + 1 THEN x ELSE g[m]]
  <2>3. h \in [0..(n + 1) -> S]
    OBVIOUS
  <2>4. h[0] = a /\ h[n + 1] = x /\ \A m \in 0..n : h[m] = g[m]
    BY <2>1 DEF Steps
  <2> HIDE DEF h
  <2>5. ASSUME NEW m \in 1..(n + 1) PROVE h[m] = f[m][h[m - 1]]
    <3>1. CASE m = n + 1
      <4>1. m - 1 = n /\ n \in 0..n
        BY <3>1
      <4> QED BY <2>2, <2>4, <3>1, <4>1
    <3>2. CASE m # n + 1
      <4>1. m \in 1..n /\ m \in 0..n /\ m - 1 \in 0..n
        BY <3>2
      <4> QED BY <2>1, <2>4, <4>1 DEF Steps
    <3> QED BY <3>1, <3>2
  <2>6. Steps(h, a, f, n + 1)
    BY <2>4, <2>5 DEF Steps
  <2> QED BY <2>3, <2>6
<1>3. T = Nat
  <2> HIDE DEF T
  <2>1. T \in SUBSET Nat
    BY DEF T
  <2> QED BY <1>1, <1>2, <2>1, AllNumbers
<1> QED BY <1>3

-----------------------------------------------------------------------------
(* A traversal *)

Call == [job : Jobs, level : Int]

Walk == [todo : Seq(Call), processed : SUBSET Jobs, found : Seq(Jobs), level : [Jobs -> Int]]

Start(from, d, current, level) ==
  [todo |-> AtLevel(from[current], d), processed |-> {current}, found |-> <<>>, level |-> level]

\* The calls for the jobs of a set, all on one level.
CallsAt(J, l) == {[job |-> j, level |-> l] : j \in J}

LEMMA JobsOfCalls ==
  ASSUME NEW J, NEW l
  PROVE  {v.job : v \in CallsAt(J, l)} = J
<1> DEFINE K == {v.job : v \in CallsAt(J, l)}
<1>1. ASSUME NEW j \in J PROVE j \in K
  <2>1. [job |-> j, level |-> l] \in CallsAt(J, l) /\ [job |-> j, level |-> l].job = j
    BY DEF CallsAt
  <2> QED BY <2>1
<1>2. ASSUME NEW j \in K PROVE j \in J
  <2>1. PICK v \in CallsAt(J, l) : j = v.job
    OBVIOUS
  <2>2. PICK i \in J : v = [job |-> i, level |-> l]
    BY DEF CallsAt
  <2> QED BY <2>1, <2>2
<1> QED BY <1>1, <1>2

LEMMA AtLevelFacts ==
  ASSUME NEW js \in Seq(Jobs), NEW l \in Int
  PROVE  /\ AtLevel(js, l) \in Seq(Call) /\ Len(AtLevel(js, l)) = Len(js)
         /\ Range(AtLevel(js, l)) = CallsAt(Range(js), l)
<1> DEFINE s == AtLevel(js, l)
<1>1. Len(js) \in Nat /\ DOMAIN js = 1..Len(js) /\ \A i \in DOMAIN js : js[i] \in Jobs
  BY LenProperties, ElementOfSeq
<1>2. PICK n \in Nat : n = Len(js)
  BY <1>1
<1>3. s = [i \in 1..n |-> [job |-> js[i], level |-> l]]
  BY <1>1, <1>2 DEF AtLevel
<1>4. \A i \in 1..n : [job |-> js[i], level |-> l] \in Call
  BY <1>1, <1>2 DEF Call
<1> HIDE DEF s
<1>5. s \in [1..n -> Call]
  BY <1>3, <1>4
<1>6. s \in Seq(Call) /\ Len(s) = n
  <2>1. PICK C : C = Call
    OBVIOUS
  <2>2. s \in Seq(C) /\ Len(s) = n
    BY <1>2, <1>5, <2>1
  <2> QED BY <2>1, <2>2
<1>7. Range(s) = CallsAt(Range(js), l)
  BY <1>1, <1>2, <1>3 DEF Range, CallsAt
<1> QED BY <1>2, <1>6, <1>7 DEF s

\* What a visit does, in terms of sets: v is visited, and rest are the other calls to be made.
IsVisit(u, v, rest, from, d, s) ==
  /\ Range(s.todo) = {v} \cup rest
  /\ Len(s.todo) \in Nat /\ Len(u.todo) \in Nat
  /\ Len(s.todo) = 1 => rest = {}
  /\ Range(u.todo) = rest \cup (IF v.job \in s.processed THEN {}
                                ELSE CallsAt(Range(from[v.job]), v.level + d))
  /\ Len(u.todo) + 1 = Len(s.todo) + (IF v.job \in s.processed THEN 0 ELSE Len(from[v.job]))
  /\ u.processed = s.processed \cup {v.job}
  /\ Range(u.found) = Range(s.found) \cup {v.job}
  /\ u.level = [s.level EXCEPT ![v.job] = v.level]

LEMMA VisitFacts ==
  ASSUME NEW from \in [Jobs -> Seq(Jobs)], NEW d \in Int, NEW s \in Walk
  PROVE  /\ Visit(from, d, s) \in Walk
         /\ s.todo = <<>> => Visit(from, d, s) = s
         /\ s.todo # <<>> =>
              \E v \in Call : \E rest \in SUBSET Call :
                IsVisit(Visit(from, d, s), v, rest, from, d, s)
<1> DEFINE u == Visit(from, d, s)
<1>1. PICK todo \in Seq(Call), processed \in SUBSET Jobs, found \in Seq(Jobs),
           level \in [Jobs -> Int] :
        /\ s.todo = todo /\ s.processed = processed /\ s.found = found /\ s.level = level
  BY DEF Walk
<1>2. CASE todo = <<>>
  <2>1. u = s
    BY <1>1, <1>2 DEF Visit
  <2> QED BY <1>1, <1>2, <2>1
<1>3. CASE todo # <<>>
  <2> DEFINE v == Head(todo)
             rest == Range(Tail(todo))
             more == IF v.job \in processed THEN <<>> ELSE AtLevel(from[v.job], v.level + d)
  <2>1. v \in Call /\ Tail(todo) \in Seq(Call) /\ Range(todo) = {v} \cup rest
    BY <1>3, HeadFacts
  <2>2. Len(todo) \in Nat /\ Len(Tail(todo)) = Len(todo) - 1
    BY <1>3, HeadTailProperties, LenProperties
  <2>3. v.job \in Jobs /\ v.level \in Int
    BY <2>1 DEF Call
  <2>4. u = [todo |-> more \o Tail(todo), processed |-> processed \cup {v.job},
             found |-> Append(found, v.job), level |-> [level EXCEPT ![v.job] = v.level]]
    BY <1>1, <1>3 DEF Visit
  <2>5. /\ more \in Seq(Call)
        /\ Range(more) = IF v.job \in processed THEN {}
                         ELSE CallsAt(Range(from[v.job]), v.level + d)
        /\ Len(more) = IF v.job \in processed THEN 0 ELSE Len(from[v.job])
        /\ Len(more) \in Nat
    <3>1. <<>> \in Seq(Call) /\ Range(<<>>) = {} /\ Len(<<>>) = 0
      BY EmptySeq DEF Range
    <3>2. CASE v.job \in processed
      BY <3>1, <3>2
    <3>3. CASE v.job \notin processed
      <4>1. PICK js \in Seq(Jobs), l \in Int : js = from[v.job] /\ l = v.level + d
        BY <2>3
      <4>2. more = AtLevel(js, l)
        BY <3>3, <4>1
      <4> HIDE DEF more, v
      <4>3. /\ AtLevel(js, l) \in Seq(Call) /\ Len(AtLevel(js, l)) = Len(js)
            /\ Range(AtLevel(js, l)) = CallsAt(Range(js), l)
        BY AtLevelFacts
      <4> QED BY <3>3, <4>1, <4>2, <4>3, LenProperties
    <3> QED BY <3>2, <3>3
  <2> HIDE DEF more, v
  <2>6. /\ more \o Tail(todo) \in Seq(Call)
        /\ Range(more \o Tail(todo)) = Range(more) \cup rest
        /\ Len(more \o Tail(todo)) = Len(more) + Len(Tail(todo))
    <3>1. PICK a \in Seq(Call), b \in Seq(Call) : a = more /\ b = Tail(todo)
      BY <2>1, <2>5
    <3>2. Range(a \o b) = Range(a) \cup Range(b)
      BY ConcatFacts
    <3>3. a \o b \in Seq(Call) /\ Len(a \o b) = Len(a) + Len(b)
      BY ConcatProperties
    <3> QED BY <3>1, <3>2, <3>3
  <2>7. /\ Append(found, v.job) \in Seq(Jobs)
        /\ Range(Append(found, v.job)) = Range(found) \cup {v.job}
    BY <2>3, AppendFacts
  <2>8. [level EXCEPT ![v.job] = v.level] \in [Jobs -> Int]
    BY <2>3
  <2>9. u \in Walk
    BY <2>3, <2>4, <2>6, <2>7, <2>8 DEF Walk
  <2>10. rest \in SUBSET Call /\ (Len(todo) = 1 => rest = {})
    <3>1. \A i \in DOMAIN Tail(todo) : Tail(todo)[i] \in Call
      BY <2>1, LenProperties, ElementOfSeq
    <3>2. DOMAIN Tail(todo) = 1..Len(Tail(todo))
      BY <2>1, LenProperties
    <3>3. ASSUME Len(todo) = 1 PROVE DOMAIN Tail(todo) = {}
      <4>1. Len(Tail(todo)) = 0
        BY <2>2, <3>3
      <4>2. 1..0 = {}
        OBVIOUS
      <4> QED BY <3>2, <4>1, <4>2, Zenon
    <3> QED BY <3>1, <3>3 DEF Range
  <2> HIDE DEF rest
  <2>11. Len(u.todo) = Len(more) + Len(Tail(todo))
    BY <2>4, <2>6
  <2>12. /\ Len(u.todo) \in Nat
         /\ Len(u.todo) + 1 = Len(todo) + Len(more)
    <3>1. PICK i, k, l, m :
            i = Len(todo) /\ k = Len(more) /\ l = Len(Tail(todo)) /\ m = Len(u.todo)
      OBVIOUS
    <3>2. i \in Nat /\ k \in Nat /\ l = i - 1 /\ m = k + l /\ i # 0
      <4>1. Len(todo) # 0
        BY <1>3, EmptySeq
      <4> QED BY <2>2, <2>5, <2>11, <3>1, <4>1
    <3>3. m \in Nat /\ m + 1 = i + k
      BY <3>2
    <3> QED BY <3>1, <3>3
  <2>13. /\ Range(u.todo) = Range(more) \cup rest /\ u.processed = processed \cup {v.job}
         /\ Range(u.found) = Range(found) \cup {v.job}
         /\ u.level = [level EXCEPT ![v.job] = v.level]
    BY <2>4, <2>6, <2>7
  <2>14. Range(u.todo) = rest \cup (IF v.job \in processed THEN {}
                                   ELSE CallsAt(Range(from[v.job]), v.level + d))
    BY <2>5, <2>13
  <2>15. Len(u.todo) + 1 = Len(todo) + (IF v.job \in processed THEN 0 ELSE Len(from[v.job]))
    BY <2>5, <2>12
  <2>16. IsVisit(u, v, rest, from, d, s)
    BY <1>1, <2>1, <2>2, <2>10, <2>12, <2>13, <2>14, <2>15, Zenon DEF IsVisit
  <2> QED BY <1>1, <1>3, <2>1, <2>9, <2>10, <2>16
<1> QED BY <1>2, <1>3

\* What is known before the first visit.
IsStart(s, from, d, current, level) ==
  /\ s.processed = {current} /\ Range(s.found) = {} /\ s.level = level
  /\ Range(s.todo) = CallsAt(Range(from[current]), d)
  /\ Len(s.todo) = Len(from[current]) /\ Len(s.todo) \in Nat

LEMMA StartFacts ==
  ASSUME NEW from \in [Jobs -> Seq(Jobs)], NEW d \in Int, NEW current \in Jobs,
         NEW level \in [Jobs -> Int]
  PROVE  /\ Start(from, d, current, level) \in Walk
         /\ IsStart(Start(from, d, current, level), from, d, current, level)
<1> DEFINE todo == AtLevel(from[current], d)
<1>1. PICK js \in Seq(Jobs) : js = from[current]
  OBVIOUS
<1>2. /\ AtLevel(js, d) \in Seq(Call) /\ Len(AtLevel(js, d)) = Len(js)
      /\ Range(AtLevel(js, d)) = CallsAt(Range(js), d)
  BY AtLevelFacts
<1>3. todo \in Seq(Call) /\ Len(todo) = Len(from[current]) /\ Len(todo) \in Nat
      /\ Range(todo) = CallsAt(Range(from[current]), d)
  BY <1>1, <1>2, LenProperties
<1>4. PICK s : /\ s = Start(from, d, current, level)
               /\ s = [todo |-> todo, processed |-> {current}, found |-> <<>>, level |-> level]
  BY DEF Start
<1>5. <<>> \in Seq(Jobs) /\ Range(<<>>) = {}
  BY EmptySeq DEF Range
<1> HIDE DEF todo
<1>6. s \in Walk
  BY <1>3, <1>4, <1>5 DEF Walk
<1>7. IsStart(s, from, d, current, level)
  BY <1>3, <1>4, <1>5 DEF IsStart
<1> QED BY <1>4, <1>6, <1>7

\* Find, visit by visit.
LEMMA FindSteps ==
  ASSUME NEW from \in [Jobs -> Seq(Jobs)], NEW d \in Int, NEW current \in Jobs,
         NEW level \in [Jobs -> Int], MaxVisits \in Nat
  PROVE  \E g : /\ g[0] = Start(from, d, current, level)
                /\ \A n \in 1..MaxVisits : g[n] = Visit(from, d, g[n - 1])
                /\ Find(from, d, current, level) = g[MaxVisits]
<1> DEFINE N == MaxVisits
           a == Start(from, d, current, level)
           P(g) == g = [n \in 0..N |-> IF n = 0 THEN a ELSE Visit(from, d, g[n - 1])]
           f == [n \in 1..N |-> [s \in Walk |-> Visit(from, d, s)]]
<1>1. a \in Walk
  BY StartFacts
<1>2. f \in [1..N -> [Walk -> Walk]]
  BY VisitFacts
<1>3. \A n \in 1..N : \A s \in Walk : f[n][s] = Visit(from, d, s)
  OBVIOUS
<1>4. Find(from, d, current, level) = (CHOOSE g : P(g))[N]
  BY DEF Find, Start
<1> HIDE DEF f, a, N
<1>5. PICK g \in [0..N -> Walk] : Steps(g, a, f, N)
  BY <1>1, <1>2, IterationExists DEF N
<1>6. \A n \in 0..N : g[n] = IF n = 0 THEN a ELSE Visit(from, d, g[n - 1])
  <2> TAKE n \in 0..N
  <2>1. CASE n = 0
    BY <1>5, <2>1 DEF Steps
  <2>2. CASE n # 0
    <3>1. n \in 1..N /\ n - 1 \in 0..N
      BY <2>2 DEF N
    <3>2. g[n] = f[n][g[n - 1]]
      BY <1>5, <3>1 DEF Steps
    <3> QED BY <1>3, <2>2, <3>1, <3>2
  <2> QED BY <2>1, <2>2
<1>7. P(g)
  BY <1>6
<1> HIDE DEF P
<1>8. \E h : P(h)
  BY <1>7
<1>9. P(CHOOSE h : P(h))
  BY <1>8, Zenon
<1>10. PICK h : P(h) /\ Find(from, d, current, level) = h[N]
  BY <1>4, <1>9
<1>11. h[0] = a /\ \A n \in 1..N : h[n] = Visit(from, d, h[n - 1])
  <2>1. 0 \in 0..N /\ \A n \in 1..N : n \in 0..N /\ n # 0
    BY DEF N
  <2> QED BY <1>10, <2>1 DEF P
<1> QED BY <1>10, <1>11 DEF N, a

\* What holds at the start and after each visit holds of the result.
LEMMA FindInduction ==
  ASSUME NEW from \in [Jobs -> Seq(Jobs)], NEW d \in Int, NEW current \in Jobs,
         NEW level \in [Jobs -> Int], MaxVisits \in Nat,
         NEW Good, Start(from, d, current, level) \in Good,
         \A s \in Good : Visit(from, d, s) \in Good
  PROVE  Find(from, d, current, level) \in Good
<1>1. PICK g : /\ g[0] = Start(from, d, current, level)
               /\ \A n \in 1..MaxVisits : g[n] = Visit(from, d, g[n - 1])
               /\ Find(from, d, current, level) = g[MaxVisits]
  BY FindSteps
<1> DEFINE T == {n \in Nat : n <= MaxVisits => g[n] \in Good}
<1>2. 0 \in T
  BY <1>1
<1>3. ASSUME NEW n \in T PROVE n + 1 \in T
  <2> SUFFICES ASSUME n + 1 <= MaxVisits PROVE g[n + 1] \in Good
    OBVIOUS
  <2>1. n + 1 \in 1..MaxVisits /\ (n + 1) - 1 = n /\ n <= MaxVisits
    OBVIOUS
  <2>2. g[n + 1] = Visit(from, d, g[n]) /\ g[n] \in Good
    BY <1>1, <2>1
  <2> QED BY <2>2
<1>4. T = Nat
  <2> HIDE DEF T
  <2>1. T \in SUBSET Nat
    BY DEF T
  <2> QED BY <1>2, <1>3, <2>1, AllNumbers
<1>5. MaxVisits <= MaxVisits
  OBVIOUS
<1> QED BY <1>1, <1>4, <1>5

-----------------------------------------------------------------------------
(* What a traversal finds *)

\* The jobs of the calls still to be made.
Waiting(s) == {v.job : v \in Range(s.todo)}

\* A set with current that has, with each job, all those it leads to.
IsClosedUnder(S, from, current) == current \in S /\ \A j \in S : Range(from[j]) \subseteq S

\* What has been found and what is waiting is what the processed jobs lead to.
Traversed(s, from, current, level) ==
  /\ s \in Walk
  /\ s.processed = {current} \cup Range(s.found)
  /\ \A p \in s.processed : Range(from[p]) \subseteq Range(s.found) \cup Waiting(s)
  /\ \A S \in SUBSET Jobs : IsClosedUnder(S, from, current) =>
       Range(s.found) \cup Waiting(s) \subseteq S
  /\ \A j \in Jobs \ Range(s.found) : s.level[j] = level[j]

LEMMA SeqRange ==
  ASSUME NEW S, NEW s \in Seq(S)
  PROVE  Range(s) \subseteq S
BY LenProperties, ElementOfSeq DEF Range

LEMMA StartTraversed ==
  ASSUME NEW from \in [Jobs -> Seq(Jobs)], NEW d \in Int, NEW current \in Jobs,
         NEW level \in [Jobs -> Int]
  PROVE  Traversed(Start(from, d, current, level), from, current, level)
<1>1. PICK s : s = Start(from, d, current, level)
  OBVIOUS
<1>2. s \in Walk /\ IsStart(s, from, d, current, level)
  BY <1>1, StartFacts
<1>3. Waiting(s) = Range(from[current])
  <2>1. Waiting(s) = {v.job : v \in CallsAt(Range(from[current]), d)}
    BY <1>2 DEF Waiting, IsStart
  <2> QED BY <2>1, JobsOfCalls
<1>4. Traversed(s, from, current, level)
  BY <1>2, <1>3 DEF Traversed, IsClosedUnder, IsStart
<1> QED BY <1>1, <1>4

LEMMA VisitTraverses ==
  ASSUME NEW from \in [Jobs -> Seq(Jobs)], NEW d \in Int, NEW current \in Jobs,
         NEW level \in [Jobs -> Int], NEW s, Traversed(s, from, current, level)
  PROVE  Traversed(Visit(from, d, s), from, current, level)
<1> DEFINE u == Visit(from, d, s)
<1>1. s \in Walk
  BY DEF Traversed
<1>2. CASE s.todo = <<>>
  <2>1. u = s
    BY <1>1, <1>2, VisitFacts
  <2> QED BY <2>1
<1>3. CASE s.todo # <<>>
  <2>1. PICK v \in Call, rest \in SUBSET Call : IsVisit(u, v, rest, from, d, s)
    BY <1>1, <1>3, VisitFacts
  <2>2. u \in Walk
    BY <1>1, VisitFacts
  <2> HIDE DEF u
  <2>3. PICK k \in Jobs, l \in Int : k = v.job /\ l = v.level
    BY DEF Call
  <2> DEFINE J == {x.job : x \in rest}
             more == IF k \in s.processed THEN {} ELSE Range(from[k])
  <2>4. Waiting(s) = {k} \cup J
    BY <2>1, <2>3 DEF IsVisit, Waiting
  <2>5. Waiting(u) = J \cup more
    <3>1. CASE k \in s.processed
      <4>1. Range(u.todo) = rest
        BY <2>1, <2>3, <3>1 DEF IsVisit
      <4> QED BY <3>1, <4>1 DEF Waiting
    <3>2. CASE k \notin s.processed
      <4>1. Range(u.todo) = rest \cup CallsAt(Range(from[k]), l + d)
        BY <2>1, <2>3, <3>2 DEF IsVisit
      <4>2. {x.job : x \in CallsAt(Range(from[k]), l + d)} = Range(from[k])
        BY JobsOfCalls
      <4>3. Waiting(u) = J \cup {x.job : x \in CallsAt(Range(from[k]), l + d)}
        BY <4>1 DEF Waiting
      <4> QED BY <3>2, <4>2, <4>3
    <3> QED BY <3>1, <3>2
  <2>6. /\ u.processed = s.processed \cup {k} /\ Range(u.found) = Range(s.found) \cup {k}
        /\ u.level = [s.level EXCEPT ![k] = l]
    BY <2>1, <2>3 DEF IsVisit
  <2> HIDE DEF J
  <2>7. \A p \in u.processed : Range(from[p]) \subseteq Range(u.found) \cup Waiting(u)
    BY <2>4, <2>5, <2>6 DEF Traversed
  <2>8. ASSUME NEW S \in SUBSET Jobs, IsClosedUnder(S, from, current)
        PROVE  Range(u.found) \cup Waiting(u) \subseteq S
    <3>1. Range(s.found) \cup Waiting(s) \subseteq S
      BY <2>8 DEF Traversed
    <3>2. more \subseteq S
      BY <2>4, <2>8, <3>1 DEF IsClosedUnder
    <3> QED BY <2>4, <2>5, <2>6, <3>1, <3>2
  <2>9. \A j \in Jobs \ Range(u.found) : u.level[j] = level[j]
    BY <1>1, <2>6 DEF Traversed, Walk
  <2>10. u.processed = {current} \cup Range(u.found)
    BY <2>6 DEF Traversed
  <2> QED BY <2>2, <2>7, <2>8, <2>9, <2>10 DEF Traversed, u
<1> QED BY <1>2, <1>3

\* The relatives of a job are no more than these.
MaxRelatives == Cardinality(Jobs) * MaxOccurrences + 1

\* The visits made and those still to come.
Counted(s, n) ==
  s.todo = <<>> \/ n + Len(s.todo) + MaxRelatives * Cardinality(Jobs \ s.processed)
                     <= MaxRelatives * Cardinality(Jobs)

LEMMA OneLess ==
  ASSUME NEW D, IsFiniteSet(D), NEW k \in D
  PROVE  \E f \in Nat : f = Cardinality(D \ {k}) /\ Cardinality(D) = f + 1
<1>1. IsFiniteSet(D \ {k}) /\ Cardinality(D \ {k}) = Cardinality(D) - 1
  BY FS_RemoveElement
<1>2. Cardinality(D \ {k}) \in Nat /\ Cardinality(D) \in Nat
  BY <1>1, FS_CardinalityType
<1> QED BY <1>1, <1>2

LEMMA OneTimesMore == \A b, c \in Nat : b * (c + 1) = b * c + b /\ b * c \in Nat
  OBVIOUS

LEMMA NumbersOfJobs ==
  ASSUME IsFiniteSet(Jobs)
  PROVE  /\ Cardinality(Jobs) \in Nat /\ MaxRelatives \in Nat /\ MaxVisits \in Nat
         /\ MaxVisits = MaxRelatives * Cardinality(Jobs)
<1>1. Cardinality(Jobs) \in Nat
  BY FS_CardinalityType
<1>2. \A b, c \in Nat : b * c \in Nat /\ b * c = c * b
  OBVIOUS
<1> QED BY <1>1, <1>2, ConstantsAssumption DEF MaxRelatives, MaxVisits

LEMMA StartCounted ==
  ASSUME IsFiniteSet(Jobs), NEW from \in [Jobs -> Seq(Jobs)], NEW d \in Int,
         NEW current \in Jobs, NEW level \in [Jobs -> Int],
         Len(from[current]) <= MaxRelatives
  PROVE  Counted(Start(from, d, current, level), 0)
<1>1. PICK s : s = Start(from, d, current, level)
  OBVIOUS
<1>2. /\ s.processed = {current} /\ Len(s.todo) \in Nat /\ Len(s.todo) <= MaxRelatives
  <2>1. IsStart(s, from, d, current, level)
    BY <1>1, StartFacts
  <2> QED BY <2>1 DEF IsStart
<1>3. PICK c \in Nat : Cardinality(Jobs \ {current}) = c /\ Cardinality(Jobs) = c + 1
  BY OneLess
<1>4. PICK b \in Nat : b = MaxRelatives
  BY NumbersOfJobs
<1>5. b * (c + 1) = b * c + b /\ b * c \in Nat
  BY OneTimesMore
<1>6. PICK p \in Nat, l \in Nat : p = b * c /\ l = Len(s.todo)
  BY <1>2, <1>5
<1>7. 0 + l + p <= p + b
  BY <1>2, <1>4, <1>6
<1> QED BY <1>1, <1>2, <1>3, <1>4, <1>5, <1>6, <1>7 DEF Counted

LEMMA VisitCounts ==
  ASSUME IsFiniteSet(Jobs), NEW from \in [Jobs -> Seq(Jobs)], NEW d \in Int,
         \A j \in Jobs : Len(from[j]) <= MaxRelatives,
         NEW s \in Walk, NEW n \in Nat, Counted(s, n)
  PROVE  Counted(Visit(from, d, s), n + 1)
<1> DEFINE u == Visit(from, d, s)
<1>1. CASE s.todo = <<>>
  <2>1. u = s
    BY <1>1, VisitFacts
  <2> QED BY <1>1, <2>1 DEF Counted
<1>2. CASE s.todo # <<>>
  <2>1. PICK v \in Call, rest \in SUBSET Call : IsVisit(u, v, rest, from, d, s)
    BY <1>2, VisitFacts
  <2> HIDE DEF u
  <2>2. PICK k \in Jobs : k = v.job
    BY DEF Call
  <2>3. /\ u.processed = s.processed \cup {k} /\ Len(s.todo) \in Nat /\ Len(u.todo) \in Nat
        /\ Len(u.todo) + 1 = Len(s.todo) + (IF k \in s.processed THEN 0 ELSE Len(from[k]))
    BY <2>1, <2>2 DEF IsVisit
  <2>4. PICK l \in Nat, m \in Nat, b \in Nat, q \in Nat :
          l = Len(s.todo) /\ m = Len(u.todo) /\ b = MaxRelatives
          /\ q = MaxRelatives * Cardinality(Jobs)
    BY <2>3, NumbersOfJobs
  <2>5. IsFiniteSet(Jobs \ s.processed) /\ Cardinality(Jobs \ s.processed) \in Nat
    <3>1. Jobs \ s.processed \in SUBSET Jobs
      OBVIOUS
    <3> QED BY <3>1, FS_Subset, FS_CardinalityType
  <2>6. PICK c \in Nat : c = Cardinality(Jobs \ s.processed)
    BY <2>5
  <2>7. n + l + b * c <= q
    BY <1>2, <2>4, <2>6 DEF Counted
  <2>8. CASE k \in s.processed
    <3>1. u.processed = s.processed /\ m + 1 = l + 0
      BY <2>3, <2>4, <2>8
    <3>2. PICK p \in Nat : p = b * c
      BY OneTimesMore
    <3>3. n + 1 + m + p <= q
      <4>1. n + l + p <= q
        BY <2>7, <3>2, Zenon
      <4> QED BY <3>1, <4>1
    <3> QED BY <2>4, <2>6, <3>1, <3>2, <3>3 DEF Counted, u
  <2>9. CASE k \notin s.processed
    <3>1. PICK e \in Nat : e = Len(from[k])
      BY LenProperties
    <3>2. m + 1 = l + e /\ e <= b
      BY <2>3, <2>4, <2>9, <3>1
    <3>3. PICK f \in Nat : f = Cardinality(Jobs \ u.processed) /\ c = f + 1
      <4>1. Jobs \ u.processed = (Jobs \ s.processed) \ {k} /\ k \in Jobs \ s.processed
        BY <2>3, <2>9
      <4>2. PICK D : D = Jobs \ s.processed
        OBVIOUS
      <4>3. \E f \in Nat : f = Cardinality(D \ {k}) /\ Cardinality(D) = f + 1
        BY <2>5, <4>1, <4>2, OneLess
      <4> QED BY <2>6, <4>1, <4>2, <4>3
    <3>4. PICK p \in Nat : p = b * f /\ b * c = p + b
      BY <3>3, OneTimesMore
    <3>5. n + 1 + m + p <= q
      <4>1. n + l + (p + b) <= q
        BY <2>7, <3>4, Zenon
      <4> QED BY <3>2, <4>1
    <3> QED BY <2>4, <3>3, <3>4, <3>5 DEF Counted, u
  <2> QED BY <2>8, <2>9
<1> QED BY <1>1, <1>2

\* A traversal ends, and has found the jobs that current leads to, and no others.
LEMMA FindFacts ==
  ASSUME IsFiniteSet(Jobs), NEW from \in [Jobs -> Seq(Jobs)], NEW d \in Int,
         NEW current \in Jobs, NEW level \in [Jobs -> Int],
         \A j \in Jobs : Len(from[j]) <= MaxRelatives
  PROVE  LET s == Find(from, d, current, level) IN
         Traversed(s, from, current, level) /\ s.todo = <<>>
<1>0. MaxVisits \in Nat
  BY NumbersOfJobs
<1>1. PICK g : /\ g[0] = Start(from, d, current, level)
               /\ \A n \in 1..MaxVisits : g[n] = Visit(from, d, g[n - 1])
               /\ Find(from, d, current, level) = g[MaxVisits]
  BY <1>0, FindSteps
<1> DEFINE Good(n) == Traversed(g[n], from, current, level) /\ Counted(g[n], n)
           T == {n \in Nat : n <= MaxVisits => Good(n)}
<1>2. 0 \in T
  BY <1>1, StartTraversed, StartCounted
<1>3. ASSUME NEW n \in T PROVE n + 1 \in T
  <2> SUFFICES ASSUME n + 1 <= MaxVisits PROVE Good(n + 1)
    OBVIOUS
  <2>1. n + 1 \in 1..MaxVisits /\ (n + 1) - 1 = n /\ n <= MaxVisits /\ n \in Nat
    BY <1>0
  <2>2. PICK s : s = g[n] /\ g[n + 1] = Visit(from, d, s)
    BY <1>1, <2>1
  <2>3. Traversed(s, from, current, level) /\ Counted(s, n) /\ s \in Walk
    BY <2>1, <2>2 DEF Traversed
  <2>4. Traversed(Visit(from, d, s), from, current, level)
    BY <2>3, VisitTraverses
  <2>5. Counted(Visit(from, d, s), n + 1)
    BY <2>1, <2>3, VisitCounts
  <2> QED BY <2>2, <2>4, <2>5
<1>4. Good(MaxVisits)
  <2>1. T = Nat
    <3> HIDE DEF T
    <3>1. T \in SUBSET Nat
      BY DEF T
    <3> QED BY <1>2, <1>3, <3>1, AllNumbers
  <2>2. MaxVisits <= MaxVisits
    BY <1>0
  <2> QED BY <1>0, <2>1, <2>2
<1>5. PICK s \in Walk : s = Find(from, d, current, level)
  BY <1>1, <1>4 DEF Traversed
<1>6. Traversed(s, from, current, level) /\ Counted(s, MaxVisits)
  BY <1>1, <1>4, <1>5
<1>7. s.todo = <<>>
  <2> SUFFICES ASSUME s.todo # <<>> PROVE FALSE
    OBVIOUS
  <2>1. PICK v \in Call, rest \in SUBSET Call :
          IsVisit(Visit(from, d, s), v, rest, from, d, s)
    BY VisitFacts
  <2>2. Len(s.todo) \in Nat /\ Len(s.todo) # 0
    <3>1. s.todo \in Seq(Call)
      BY DEF Walk
    <3> QED BY <3>1, LenProperties, EmptySeq
  <2>3. PICK l \in Nat, b \in Nat, c \in Nat, q \in Nat :
          /\ l = Len(s.todo) /\ b = MaxRelatives /\ c = Cardinality(Jobs \ s.processed)
          /\ q = MaxVisits /\ q = MaxRelatives * Cardinality(Jobs)
    <3>1. Jobs \ s.processed \in SUBSET Jobs
      OBVIOUS
    <3>2. Cardinality(Jobs \ s.processed) \in Nat
      BY <3>1, FS_Subset, FS_CardinalityType
    <3> QED BY <2>2, <3>2, NumbersOfJobs
  <2>4. PICK p \in Nat : p = b * c
    BY OneTimesMore
  <2>5. q + l + p <= q
    BY <1>6, <2>3, <2>4 DEF Counted
  <2> QED BY <2>2, <2>3, <2>5
<1> QED BY <1>5, <1>6, <1>7

-----------------------------------------------------------------------------
(* Lists of jobs *)

\* A sequence of sequences, one after the other: its members, and its length when each of
\* them has at most m members.
LEMMA FlattenFacts ==
  ASSUME NEW S, NEW N \in Nat \ {0}, NEW seqs \in [1..N -> Seq(S)], NEW m \in Nat,
         \A i \in 1..N : Len(seqs[i]) <= m
  PROVE  /\ FlattenSeq(seqs) \in Seq(S)
         /\ Range(FlattenSeq(seqs)) = UNION {Range(seqs[i]) : i \in 1..N}
         /\ Len(FlattenSeq(seqs)) <= N * m
<1> DEFINE Q == Seq(S)
           P(g) == g = [i \in 1..N |-> IF i = 1 THEN seqs[i] ELSE g[i - 1] \o seqs[i]]
           f == [n \in 1..N |-> [s \in Q |-> s \o seqs[n]]]
<1>1. \A s, t \in Q : s \o t \in Q /\ Range(s \o t) = Range(s) \cup Range(t)
                      /\ Len(s \o t) = Len(s) + Len(t)
  BY ConcatProperties, ConcatFacts
<1>2. /\ <<>> \in Q /\ \A s \in Q : <<>> \o s = s
      /\ \A s \in Q : Len(s) \in Nat
  BY EmptySeq, ConcatEmptySeq, LenProperties
<1>3. seqs \in [1..N -> Q] /\ \A i \in 1..N : Len(seqs[i]) <= m
  OBVIOUS
<1>4. FlattenSeq(seqs) = (CHOOSE g : P(g))[N]
  <2>1. Len(seqs) = N
    OBVIOUS
  <2> QED BY <2>1 DEF FlattenSeq
<1> HIDE DEF Q
<1>5. f \in [1..N -> [Q -> Q]] /\ \A n \in 1..N : \A s \in Q : f[n][s] = s \o seqs[n]
  BY <1>1, <1>3
<1> HIDE DEF f
<1>6. PICK h \in [0..N -> Q] : Steps(h, <<>>, f, N)
  BY <1>2, <1>5, IterationExists
<1>7. \A i \in 1..N : h[i] = h[i - 1] \o seqs[i]
  <2> TAKE i \in 1..N
  <2>1. i - 1 \in 0..N
    OBVIOUS
  <2> QED BY <1>5, <1>6, <2>1 DEF Steps
<1>8. P([i \in 1..N |-> h[i]])
  <2> DEFINE g == [i \in 1..N |-> h[i]]
  <2> SUFFICES ASSUME NEW i \in 1..N
               PROVE  g[i] = IF i = 1 THEN seqs[i] ELSE g[i - 1] \o seqs[i]
    OBVIOUS
  <2>1. CASE i = 1
    <3>1. h[1] = h[0] \o seqs[1] /\ h[0] = <<>> /\ seqs[1] \in Q
      <4>1. 1 \in 1..N /\ 1 - 1 = 0
        OBVIOUS
      <4> QED BY <1>3, <1>6, <1>7, <4>1 DEF Steps
    <3> QED BY <1>2, <2>1, <3>1
  <2>2. CASE i # 1
    <3>1. i - 1 \in 1..N
      BY <2>2
    <3> QED BY <1>7, <2>2, <3>1
  <2> QED BY <2>1, <2>2
<1> HIDE DEF P
<1>9. P(CHOOSE g : P(g))
  BY <1>8, Zenon
<1>10. PICK g : P(g) /\ FlattenSeq(seqs) = g[N]
  BY <1>4, <1>9
<1>11. /\ g[1] = seqs[1]
       /\ \A i \in 1..N : i # 1 => g[i] = g[i - 1] \o seqs[i]
  <2>1. 1 \in 1..N
    OBVIOUS
  <2>2. g = [i \in 1..N |-> IF i = 1 THEN seqs[i] ELSE g[i - 1] \o seqs[i]]
    BY <1>10 DEF P
  <2>3. \A i \in 1..N : g[i] = IF i = 1 THEN seqs[i] ELSE g[i - 1] \o seqs[i]
    BY <2>2, Zenon
  <2> QED BY <2>1, <2>3
<1> DEFINE Good(n) == /\ g[n] \in Q /\ Len(g[n]) <= n * m
                      /\ Range(g[n]) = UNION {Range(seqs[i]) : i \in 1..n}
           T == {n \in Nat : n + 1 <= N => Good(n + 1)}
<1>12. 0 \in T
  <2>1. 1 \in 1..N /\ 1..(0 + 1) = {1} /\ (0 + 1) * m = m /\ 0 + 1 = 1
    OBVIOUS
  <2>2. UNION {Range(seqs[i]) : i \in {1}} = Range(seqs[1])
    OBVIOUS
  <2>3. g[0 + 1] \in Q /\ Len(g[0 + 1]) <= m /\ Range(g[0 + 1]) = Range(seqs[1])
    BY <1>3, <1>11, <2>1
  <2> QED BY <2>1, <2>2, <2>3
<1>13. ASSUME NEW n \in T PROVE n + 1 \in T
  <2> SUFFICES ASSUME n + 1 + 1 <= N PROVE Good(n + 1 + 1)
    OBVIOUS
  <2>1. PICK k \in Nat : k = n + 1
    OBVIOUS
  <2>2. k + 1 \in 1..N /\ k + 1 # 1 /\ (k + 1) - 1 = k /\ k <= N
    BY <2>1
  <2>3. g[k + 1] = g[k] \o seqs[k + 1] /\ seqs[k + 1] \in Q /\ Len(seqs[k + 1]) <= m
    BY <1>3, <1>11, <2>2
  <2>4. Good(k)
    BY <2>1, <2>2
  <2>5. 1..(k + 1) = 1..k \cup {k + 1}
    OBVIOUS
  <2>6. UNION {Range(seqs[i]) : i \in 1..k \cup {k + 1}}
          = (UNION {Range(seqs[i]) : i \in 1..k}) \cup Range(seqs[k + 1])
    <3>1. PICK I, x : I = 1..k /\ x = k + 1
      OBVIOUS
    <3>2. UNION {Range(seqs[i]) : i \in I \cup {x}}
            = (UNION {Range(seqs[i]) : i \in I}) \cup Range(seqs[x])
      <4> DEFINE U(K) == UNION {Range(seqs[i]) : i \in K}
      <4>1. ASSUME NEW K, NEW y PROVE y \in U(K) <=> \E i \in K : y \in Range(seqs[i])
        OBVIOUS
      <4> HIDE DEF U
      <4>2. U(I \cup {x}) = U(I) \cup Range(seqs[x])
        <5>1. ASSUME NEW y PROVE y \in U(I \cup {x}) <=> y \in U(I) \/ y \in Range(seqs[x])
          <6>1. y \in U(I \cup {x}) <=> \E i \in I \cup {x} : y \in Range(seqs[i])
            BY <4>1
          <6>2. y \in U(I) <=> \E i \in I : y \in Range(seqs[i])
            BY <4>1
          <6> QED BY <6>1, <6>2
        <5> QED BY <5>1
      <4> QED BY <4>2 DEF U
    <3> QED BY <3>1, <3>2, Zenon
  <2>7. Range(g[k + 1]) = UNION {Range(seqs[i]) : i \in 1..(k + 1)}
    <3>1. Range(g[k + 1]) = Range(g[k]) \cup Range(seqs[k + 1])
      BY <1>1, <2>3, <2>4
    <3>2. Range(g[k]) = UNION {Range(seqs[i]) : i \in 1..k}
      BY <2>4
    <3> QED BY <2>5, <2>6, <3>1, <3>2, Zenon
  <2>8. Len(g[k + 1]) <= (k + 1) * m
    <3>1. PICK l1 \in Nat, l2 \in Nat : l1 = Len(g[k]) /\ l2 = Len(seqs[k + 1])
      BY <1>2, <2>3, <2>4
    <3>2. Len(g[k + 1]) = l1 + l2 /\ l1 <= k * m /\ l2 <= m
      BY <1>1, <2>3, <2>4, <3>1
    <3>3. (k + 1) * m = k * m + m /\ k * m \in Nat
      OBVIOUS
    <3>4. PICK p \in Nat : p = k * m
      BY <3>3
    <3> QED BY <3>2, <3>3, <3>4
  <2>9. g[k + 1] \in Q
    BY <1>1, <2>3, <2>4
  <2> QED BY <2>1, <2>7, <2>8, <2>9
<1>14. Good(N)
  <2>1. T = Nat
    <3> HIDE DEF T
    <3>1. T \in SUBSET Nat
      BY DEF T
    <3> QED BY <1>12, <1>13, <3>1, AllNumbers
  <2>2. N - 1 \in Nat /\ (N - 1) + 1 = N /\ N <= N
    OBVIOUS
  <2>3. N - 1 \in T
    BY <2>1, <2>2
  <2> QED BY <2>2, <2>3
<1> QED BY <1>10, <1>14 DEF Q

\* A sequence with its repetitions left out.
LEMMA InOrderFacts ==
  ASSUME NEW S, NEW s \in Seq(S)
  PROVE  InOrder(s) \in Seq(S) /\ EachOnce(InOrder(s)) /\ Range(InOrder(s)) = Range(s)
<1>1. PICK N \in Nat : N = Len(s) /\ DOMAIN s = 1..N /\ \A i \in 1..N : s[i] \in S
  BY LenProperties, ElementOfSeq
<1> DEFINE Q == {r \in Seq(S) : EachOnce(r)}
           Next2(n, r) == IF s[n] \in Range(r) THEN r ELSE Append(r, s[n])
           P(g) == g = [n \in 0..N |-> IF n = 0 THEN <<>> ELSE Next2(n, g[n - 1])]
           f == [n \in 1..N |-> [r \in Q |-> Next2(n, r)]]
<1>2. InOrder(s) = (CHOOSE g : P(g))[N]
  BY <1>1 DEF InOrder
<1>3. <<>> \in Q
  BY EmptySeq DEF EachOnce
<1>4. ASSUME NEW n \in 1..N, NEW r \in Q
      PROVE  Next2(n, r) \in Q /\ Range(Next2(n, r)) = Range(r) \cup {s[n]}
  <2>1. CASE s[n] \in Range(r)
    BY <2>1
  <2>2. CASE s[n] \notin Range(r)
    <3>1. PICK a \in Seq(S), x \in S : a = r /\ x = s[n]
      BY <1>1
    <3>2. /\ Append(a, x) \in Seq(S) /\ Range(Append(a, x)) = Range(a) \cup {x}
          /\ EachOnce(a) /\ x \notin Range(a) => EachOnce(Append(a, x))
      BY AppendFacts
    <3>3. Next2(n, r) = Append(a, x) /\ EachOnce(a)
      BY <2>2, <3>1
    <3> QED BY <2>2, <3>1, <3>2, <3>3
  <2> QED BY <2>1, <2>2
<1> HIDE DEF Q, Next2
<1>5. f \in [1..N -> [Q -> Q]] /\ \A n \in 1..N : \A r \in Q : f[n][r] = Next2(n, r)
  BY <1>4
<1> HIDE DEF f
<1>6. PICK h \in [0..N -> Q] : Steps(h, <<>>, f, N)
  BY <1>3, <1>5, IterationExists
<1>7. P(h)
  <2> SUFFICES ASSUME NEW n \in 0..N
               PROVE  h[n] = IF n = 0 THEN <<>> ELSE Next2(n, h[n - 1])
    OBVIOUS
  <2>1. CASE n = 0
    BY <1>6, <2>1 DEF Steps
  <2>2. CASE n # 0
    <3>1. n \in 1..N /\ n - 1 \in 0..N
      BY <2>2
    <3> QED BY <1>5, <1>6, <2>2, <3>1 DEF Steps
  <2> QED BY <2>1, <2>2
<1> HIDE DEF P
<1>8. P(CHOOSE g : P(g))
  BY <1>7, Zenon
<1>9. PICK g : P(g) /\ InOrder(s) = g[N]
  BY <1>2, <1>8
<1>10. g[0] = <<>> /\ \A n \in 1..N : g[n] = Next2(n, g[n - 1])
  <2>1. 0 \in 0..N /\ \A n \in 1..N : n \in 0..N /\ n # 0
    OBVIOUS
  <2> QED BY <1>9, <2>1 DEF P
<1> DEFINE Good(n) == g[n] \in Q /\ Range(g[n]) = {s[i] : i \in 1..n}
           T == {n \in Nat : n <= N => Good(n)}
<1>11. 0 \in T
  <2>1. Range(<<>>) = {} /\ 1..0 = {}
    BY DEF Range
  <2>2. {s[i] : i \in 1..0} = {}
    BY <2>1
  <2> QED BY <1>3, <1>10, <2>1, <2>2
<1>12. ASSUME NEW n \in T PROVE n + 1 \in T
  <2> SUFFICES ASSUME n + 1 <= N PROVE Good(n + 1)
    OBVIOUS
  <2>1. n + 1 \in 1..N /\ (n + 1) - 1 = n /\ n <= N /\ n \in Nat
    OBVIOUS
  <2>2. g[n + 1] = Next2(n + 1, g[n]) /\ Good(n)
    BY <1>10, <2>1
  <2>3. g[n + 1] \in Q /\ Range(g[n + 1]) = {s[i] : i \in 1..n} \cup {s[n + 1]}
    BY <1>4, <2>1, <2>2
  <2>4. 1..(n + 1) = 1..n \cup {n + 1}
    BY <2>1
  <2>5. {s[i] : i \in 1..n \cup {n + 1}} = {s[i] : i \in 1..n} \cup {s[n + 1]}
    OBVIOUS
  <2> QED BY <2>3, <2>4, <2>5
<1>13. Good(N)
  <2>1. T = Nat
    <3> HIDE DEF T
    <3>1. T \in SUBSET Nat
      BY DEF T
    <3> QED BY <1>11, <1>12, <3>1, AllNumbers
  <2>2. N \in T
    <3> HIDE DEF T
    <3> QED BY <2>1
  <2>3. N <= N
    OBVIOUS
  <2> QED BY <2>2, <2>3
<1>14. Range(s) = {s[i] : i \in 1..N}
  BY <1>1, Zenon DEF Range
<1>15. g[N] \in Seq(S) /\ EachOnce(g[N]) /\ Range(g[N]) = Range(s)
  BY <1>13, <1>14 DEF Q
<1> QED BY <1>9, <1>15

\* The lists the two traversals follow.
Ups(listed) == [j \in Jobs |-> ParentsListed(listed, j)]
Downs(listed, order) == [j \in Jobs |-> DependentsListed(listed, order, j)]

LEMMA UpsFacts ==
  ASSUME TypeOK, NEW listed \in SUBSET StoredJobs
  PROVE  /\ Ups(listed) \in [Jobs -> Seq(Jobs)]
         /\ \A j \in Jobs : /\ Len(Ups(listed)[j]) <= 1
                            /\ Range(Ups(listed)[j]) = IF j \in listed
                                 THEN {jobs[j].parent} \cap listed ELSE {}
<1>1. listed \subseteq Jobs
  BY DEF StoredJobs
<1>2. <<>> \in Seq(Jobs) /\ Range(<<>>) = {} /\ Len(<<>>) = 0
  BY EmptySeq DEF Range
<1>3. ASSUME NEW p \in Jobs PROVE <<p>> \in Seq(Jobs) /\ Range(<<p>>) = {p} /\ Len(<<p>>) = 1
  BY <1>3 DEF Range
<1>4. ASSUME NEW j \in Jobs
      PROVE  /\ ParentsListed(listed, j) \in Seq(Jobs) /\ Len(ParentsListed(listed, j)) <= 1
             /\ Range(ParentsListed(listed, j)) = IF j \in listed
                  THEN {jobs[j].parent} \cap listed ELSE {}
  <2>1. CASE j \in listed /\ jobs[j].parent \in listed
    <3>1. PICK p \in Jobs : p = jobs[j].parent /\ p \in listed
      BY <1>1, <2>1
    <3>2. ParentsListed(listed, j) = <<p>>
      BY <2>1, <3>1 DEF ParentsListed
    <3>3. {p} \cap listed = {p}
      BY <3>1
    <3> QED BY <1>3, <2>1, <3>1, <3>2, <3>3
  <2>2. CASE ~(j \in listed /\ jobs[j].parent \in listed)
    <3>1. ParentsListed(listed, j) = <<>>
      BY <2>2 DEF ParentsListed
    <3>2. (IF j \in listed THEN {jobs[j].parent} \cap listed ELSE {}) = {}
      BY <2>2
    <3> QED BY <1>2, <3>1, <3>2
  <2> QED BY <2>1, <2>2
<1> QED BY <1>4 DEF Ups

LEMMA DownsFacts ==
  ASSUME IsFiniteSet(Jobs), TypeOK, NEW listed \in SUBSET StoredJobs, NEW order \in SetToSeqs(Jobs)
  PROVE  /\ Downs(listed, order) \in [Jobs -> Seq(Jobs)]
         /\ \A j \in Jobs : /\ Len(Downs(listed, order)[j]) <= MaxRelatives
                            /\ Range(Downs(listed, order)[j]) = IF j \in listed
                                 THEN {c \in listed : jobs[j].dependents[c] > 0} ELSE {}
<1>1. listed \subseteq Jobs /\ \A j \in listed : jobs[j].dependents \in [Jobs -> 0..MaxOccurrences]
  BY DEF StoredJobs, Stored, TypeOK, JobTable, JobRecord, Dependents
<1>2. <<>> \in Seq(Jobs) /\ Range(<<>>) = {} /\ Len(<<>>) = 0
  BY EmptySeq DEF Range
<1>3. PICK N \in Nat : N = Cardinality(Jobs) /\ N = Len(order)
  BY SetToSeqsFacts, FS_CardinalityType
<1>4. DOMAIN order = 1..N /\ Range(order) = Jobs /\ \A i \in 1..N : order[i] \in Jobs
  <2>1. order \in Seq(Jobs) /\ Range(order) = Jobs
    BY SetToSeqsFacts DEF ListOf
  <2> QED BY <1>3, <2>1, LenProperties, ElementOfSeq
<1>5. PICK m \in Nat : m = MaxOccurrences
  BY ConstantsAssumption
<1>6. MaxRelatives = N * m + 1 /\ N * m \in Nat
  BY <1>3, <1>5 DEF MaxRelatives
<1>7. ASSUME NEW j \in listed
      PROVE  /\ DependentsListed(listed, order, j) \in Seq(Jobs)
             /\ Len(DependentsListed(listed, order, j)) <= MaxRelatives
             /\ Range(DependentsListed(listed, order, j))
                  = {c \in listed : jobs[j].dependents[c] > 0}
  <2> DEFINE times(c) == IF c \in listed THEN jobs[j].dependents[c] ELSE 0
             seqs == [i \in 1..N |-> [k \in 1..times(order[i]) |-> order[i]]]
  <2>1. DependentsListed(listed, order, j) = FlattenSeq(seqs)
    BY <1>4 DEF DependentsListed
  <2>2. \A c \in Jobs : times(c) \in Nat /\ times(c) <= m
                        /\ (times(c) > 0 <=> c \in listed /\ jobs[j].dependents[c] > 0)
    BY <1>1, <1>5
  <2> HIDE DEF times
  <2>3. ASSUME NEW i \in 1..N
        PROVE  /\ seqs[i] \in Seq(Jobs) /\ Len(seqs[i]) <= m
               /\ Range(seqs[i]) = {c \in {order[i]} : times(c) > 0}
    <3>1. PICK c \in Jobs, n \in Nat : c = order[i] /\ n = times(c) /\ n <= m
      BY <1>4, <2>2
    <3>2. seqs[i] = [k \in 1..n |-> c]
      BY <3>1
    <3>3. [k \in 1..n |-> c] \in Seq(Jobs) /\ Len([k \in 1..n |-> c]) = n
      OBVIOUS
    <3>4. Range([k \in 1..n |-> c]) = {b \in {c} : n > 0}
      BY DEF Range
    <3> QED BY <3>1, <3>2, <3>3, <3>4
  <2>4. seqs \in [1..N -> Seq(Jobs)]
    BY <2>3
  <2>5. N \in Nat \ {0}
    <3>1. 1..0 = {} /\ j \in Jobs
      BY <1>1
    <3>2. N # 0
      BY <1>4, <3>1 DEF Range
    <3> QED BY <3>2
  <2> HIDE DEF seqs
  <2>6. /\ FlattenSeq(seqs) \in Seq(Jobs)
        /\ Range(FlattenSeq(seqs)) = UNION {Range(seqs[i]) : i \in 1..N}
        /\ Len(FlattenSeq(seqs)) <= N * m
    BY <2>3, <2>4, <2>5, FlattenFacts
  <2>7. Len(FlattenSeq(seqs)) <= MaxRelatives
    <3>1. PICK l \in Nat, p \in Nat : l = Len(FlattenSeq(seqs)) /\ p = N * m
      BY <1>6, <2>6, LenProperties
    <3>2. l <= p /\ MaxRelatives = p + 1
      BY <1>6, <2>6, <3>1
    <3> QED BY <3>1, <3>2
  <2>8. ASSUME NEW c
        PROVE  c \in Range(FlattenSeq(seqs)) <=> c \in listed /\ jobs[j].dependents[c] > 0
    <3>1. c \in Range(FlattenSeq(seqs)) <=> \E i \in 1..N : c \in Range(seqs[i])
      BY <2>6
    <3>2. c \in Range(FlattenSeq(seqs)) <=> \E i \in 1..N : c = order[i] /\ times(c) > 0
      BY <2>3, <3>1
    <3>3. c \in Jobs <=> \E i \in 1..N : c = order[i]
      BY <1>4 DEF Range
    <3> QED BY <1>1, <2>2, <3>2, <3>3
  <2>9. Range(FlattenSeq(seqs)) = {c \in listed : jobs[j].dependents[c] > 0}
    BY <2>8
  <2> QED BY <2>1, <2>6, <2>7, <2>9
<1>8. ASSUME NEW j \in Jobs, j \notin listed PROVE DependentsListed(listed, order, j) = <<>>
  BY <1>8 DEF DependentsListed
<1>9. 0 <= MaxRelatives
  BY <1>6
<1> QED BY <1>2, <1>7, <1>8, <1>9 DEF Downs

\* The jobs a traversal found, with the current one, are the least closed set.
LEMMA FoundIsReached ==
  ASSUME NEW listed \in SUBSET Jobs, NEW current \in listed, NEW level,
         NEW from \in [Jobs -> Seq(Jobs)], NEW next, DOMAIN next = listed,
         \A j \in listed : next[j] = Range(from[j]) /\ next[j] \subseteq listed,
         NEW s, Traversed(s, from, current, level), s.todo = <<>>
  PROVE  /\ Reached(next, current) = {current} \cup Range(s.found)
         /\ Range(s.found) \subseteq listed
<1> DEFINE found == {current} \cup Range(s.found)
<1>1. Waiting(s) = {}
  BY DEF Waiting, Range
<1>2. /\ \A p \in found : Range(from[p]) \subseteq found
      /\ \A S \in SUBSET Jobs : IsClosedUnder(S, from, current) => found \subseteq S
  BY <1>1 DEF Traversed, IsClosedUnder
<1>3. \A S \in SUBSET listed : IsClosedUnder(S, from, current)
                              <=> current \in S /\ \A j \in S : next[j] \subseteq S
  BY DEF IsClosedUnder
<1>4. found \subseteq listed
  <2>1. IsClosedUnder(listed, from, current)
    BY DEF IsClosedUnder
  <2> QED BY <1>2, <2>1
<1>5. current \in found /\ \A j \in found : next[j] \subseteq found
  BY <1>2, <1>4
<1> HIDE DEF found
<1>6. found \subseteq Reached(next, current)
  BY <1>2, <1>3, <1>4 DEF Reached
<1>7. Reached(next, current) \subseteq found
  BY <1>4, <1>5 DEF Reached
<1> QED BY <1>4, <1>6, <1>7 DEF found

\* The two traversals of a diagram.
UpFrom(listed, current) == Find(Ups(listed), -1, current, [j \in Jobs |-> 0])
DownFrom(listed, order, current) ==
  Find(Downs(listed, order), 1, current, UpFrom(listed, current).level)

\* What is known of the jobs to be drawn.
AreRelatives(g, listed, order, current) ==
  LET up == UpFrom(listed, current)
      down == DownFrom(listed, order, current)
  IN /\ g.related \in Seq(Jobs) /\ EachOnce(g.related)
     /\ Range(g.related) = {current} \cup Range(up.found) \cup Range(down.found)
     /\ g.level = down.level /\ g.level \in [Jobs -> Int]
     /\ Traversed(up, Ups(listed), current, [j \in Jobs |-> 0]) /\ up.todo = <<>>
     /\ Traversed(down, Downs(listed, order), current, up.level) /\ down.todo = <<>>

LEMMA RelativesFacts ==
  ASSUME IsFiniteSet(Jobs), TypeOK, NEW listed \in SUBSET StoredJobs,
         NEW order \in SetToSeqs(Jobs), NEW current \in Jobs
  PROVE  AreRelatives(Relatives(listed, order, current), listed, order, current)
<1> DEFINE zero == [j \in Jobs |-> 0]
           up == UpFrom(listed, current)
           down == DownFrom(listed, order, current)
           g == Relatives(listed, order, current)
<1>1. zero \in [Jobs -> Int] /\ -1 \in Int /\ 1 \in Int
  OBVIOUS
<1>2. /\ Ups(listed) \in [Jobs -> Seq(Jobs)] /\ Downs(listed, order) \in [Jobs -> Seq(Jobs)]
      /\ \A j \in Jobs : Len(Downs(listed, order)[j]) <= MaxRelatives
      /\ \A j \in Jobs : Len(Ups(listed)[j]) <= 1
  BY UpsFacts, DownsFacts
<1>3. \A j \in Jobs : Len(Ups(listed)[j]) <= MaxRelatives
  <2>1. PICK m \in Nat : m = Cardinality(Jobs) * MaxOccurrences
    BY FS_CardinalityType, ConstantsAssumption
  <2>2. MaxRelatives = m + 1
    BY <2>1 DEF MaxRelatives
  <2> TAKE j \in Jobs
  <2>3. PICK l \in Nat : l = Len(Ups(listed)[j])
    BY <1>2, LenProperties
  <2>4. l <= 1
    BY <1>2, <2>3
  <2> QED BY <2>2, <2>3, <2>4
<1> HIDE DEF zero
<1>4. Traversed(up, Ups(listed), current, zero) /\ up.todo = <<>>
  <2>1. PICK d \in Int, U \in [Jobs -> Seq(Jobs)] : d = -1 /\ U = Ups(listed)
    BY <1>1, <1>2
  <2>2. /\ Traversed(Find(U, d, current, zero), U, current, zero)
        /\ Find(U, d, current, zero).todo = <<>>
    BY <1>1, <1>3, <2>1, FindFacts
  <2> QED BY <2>1, <2>2 DEF UpFrom, zero
<1>5. up.level \in [Jobs -> Int] /\ up.found \in Seq(Jobs)
  BY <1>4 DEF Traversed, Walk
<1>6. Traversed(down, Downs(listed, order), current, up.level) /\ down.todo = <<>>
  <2>1. PICK d \in Int, D \in [Jobs -> Seq(Jobs)], L \in [Jobs -> Int] :
          d = 1 /\ D = Downs(listed, order) /\ L = up.level
    BY <1>1, <1>2, <1>5
  <2>2. Traversed(Find(D, d, current, L), D, current, L) /\ Find(D, d, current, L).todo = <<>>
    BY <1>2, <2>1, FindFacts
  <2> QED BY <2>1, <2>2 DEF DownFrom
<1>7. down.level \in [Jobs -> Int] /\ down.found \in Seq(Jobs)
  BY <1>6 DEF Traversed, Walk
<1>8. g = [related |-> InOrder(<<current>> \o up.found \o down.found), level |-> down.level]
  BY DEF Relatives, UpFrom, DownFrom, Ups, Downs
<1> HIDE DEF up, down
<1>9. PICK q \in Seq(Jobs) : /\ q = <<current>> \o up.found \o down.found
                             /\ Range(q) = {current} \cup Range(up.found) \cup Range(down.found)
  <2>1. PICK a \in Seq(Jobs), b \in Seq(Jobs), c \in Seq(Jobs) :
          a = <<current>> /\ b = up.found /\ c = down.found
    <3>1. <<current>> \in Seq(Jobs)
      OBVIOUS
    <3> QED BY <1>5, <1>7, <3>1, Zenon
  <2>2. Range(a) = {current}
    BY <2>1 DEF Range
  <2>3. PICK ab \in Seq(Jobs) : ab = a \o b /\ Range(ab) = Range(a) \cup Range(b)
    <3>1. a \o b \in Seq(Jobs)
      BY ConcatProperties
    <3>2. Range(a \o b) = Range(a) \cup Range(b)
      BY ConcatFacts
    <3> QED BY <3>1, <3>2
  <2>4. ab \o c \in Seq(Jobs) /\ Range(ab \o c) = Range(ab) \cup Range(c)
    BY ConcatProperties, ConcatFacts
  <2> QED BY <2>1, <2>2, <2>3, <2>4
<1>10. InOrder(q) \in Seq(Jobs) /\ EachOnce(InOrder(q)) /\ Range(InOrder(q)) = Range(q)
  BY InOrderFacts
<1>11. g.related = InOrder(q) /\ g.level = down.level
  BY <1>8, <1>9
<1> QED BY <1>4, <1>6, <1>7, <1>9, <1>10, <1>11 DEF AreRelatives, up, down, zero

\* A job that is not listed has no relatives; those of a listed one are listed, and are
\* the jobs that are reached from it.
LEMMA RelativesAreFamily ==
  ASSUME IsFiniteSet(Jobs), TypeOK, NEW listed \in SUBSET StoredJobs,
         NEW order \in SetToSeqs(Jobs), NEW current \in Jobs
  PROVE  LET related == Range(Relatives(listed, order, current).related) IN
         /\ related \cap listed = Family(listed, current)
         /\ current \notin listed => related = {current}
         /\ current \in listed => related \subseteq listed
<1> DEFINE up == UpFrom(listed, current)
           down == DownFrom(listed, order, current)
           zero == [j \in Jobs |-> 0]
           related == Range(Relatives(listed, order, current).related)
<1>1. /\ related = {current} \cup Range(up.found) \cup Range(down.found)
      /\ Traversed(up, Ups(listed), current, zero) /\ up.todo = <<>>
      /\ Traversed(down, Downs(listed, order), current, up.level) /\ down.todo = <<>>
  BY RelativesFacts DEF AreRelatives
<1>2. listed \in SUBSET Jobs
  BY DEF StoredJobs
<1>3. /\ Ups(listed) \in [Jobs -> Seq(Jobs)]
      /\ \A j \in Jobs : Range(Ups(listed)[j]) = IF j \in listed
                            THEN {jobs[j].parent} \cap listed ELSE {}
  BY UpsFacts
<1>4. /\ Downs(listed, order) \in [Jobs -> Seq(Jobs)]
      /\ \A j \in Jobs : Range(Downs(listed, order)[j]) = IF j \in listed
                            THEN {c \in listed : jobs[j].dependents[c] > 0} ELSE {}
  BY DownsFacts
<1> HIDE DEF up, down, zero, related
<1>5. CASE current \notin listed
  <2>1. IsClosedUnder({current}, Ups(listed), current)
    BY <1>3, <1>5 DEF IsClosedUnder
  <2>2. IsClosedUnder({current}, Downs(listed, order), current)
    BY <1>4, <1>5 DEF IsClosedUnder
  <2>3. Range(up.found) \subseteq {current} /\ Range(down.found) \subseteq {current}
    BY <1>1, <2>1, <2>2 DEF Traversed
  <2>4. related = {current}
    BY <1>1, <2>3
  <2>5. Family(listed, current) = {}
    BY <1>5 DEF Family
  <2> QED BY <1>5, <2>4, <2>5 DEF related
<1>6. CASE current \in listed
  <2> DEFINE parents == [j \in listed |-> {jobs[j].parent} \cap listed]
             dependents == [j \in listed |-> {c \in listed : jobs[j].dependents[c] > 0}]
  <2>1. Family(listed, current) = Reached(parents, current) \cup Reached(dependents, current)
    BY <1>6 DEF Family
  <2>2. /\ DOMAIN parents = listed
        /\ \A j \in listed : parents[j] = Range(Ups(listed)[j]) /\ parents[j] \subseteq listed
    BY <1>2, <1>3
  <2>3. /\ DOMAIN dependents = listed
        /\ \A j \in listed : dependents[j] = Range(Downs(listed, order)[j])
                             /\ dependents[j] \subseteq listed
    BY <1>2, <1>4
  <2> HIDE DEF parents, dependents
  <2>4. /\ Reached(parents, current) = {current} \cup Range(up.found)
        /\ Range(up.found) \subseteq listed
    <3>0. PICK U \in [Jobs -> Seq(Jobs)] : U = Ups(listed)
      BY <1>3
    <3>1. PICK s, next : s = up /\ U = Ups(listed) /\ next = parents
      BY <3>0
    <3>2. Traversed(s, U, current, zero) /\ s.todo = <<>>
      BY <1>1, <3>1
    <3>3. /\ DOMAIN next = listed
          /\ \A j \in listed : next[j] = Range(U[j]) /\ next[j] \subseteq listed
      BY <2>2, <3>1
    <3>4. Reached(next, current) = {current} \cup Range(s.found) /\ Range(s.found) \subseteq listed
      BY <1>2, <1>6, <3>2, <3>3, FoundIsReached
    <3> QED BY <3>1, <3>4
  <2>5. /\ Reached(dependents, current) = {current} \cup Range(down.found)
        /\ Range(down.found) \subseteq listed
    <3>0. PICK D \in [Jobs -> Seq(Jobs)] : D = Downs(listed, order)
      BY <1>4
    <3>1. PICK s, next, level :
            s = down /\ D = Downs(listed, order) /\ next = dependents /\ level = up.level
      BY <3>0
    <3>2. Traversed(s, D, current, level) /\ s.todo = <<>>
      BY <1>1, <3>1
    <3>3. /\ DOMAIN next = listed
          /\ \A j \in listed : next[j] = Range(D[j]) /\ next[j] \subseteq listed
      BY <2>3, <3>1
    <3>4. Reached(next, current) = {current} \cup Range(s.found) /\ Range(s.found) \subseteq listed
      BY <1>2, <1>6, <3>2, <3>3, FoundIsReached
    <3> QED BY <3>1, <3>4
  <2>6. related = Family(listed, current) /\ related \subseteq listed
    BY <1>1, <1>6, <2>1, <2>4, <2>5
  <2> QED BY <1>6, <2>6 DEF related
<1> QED BY <1>5, <1>6

\* The node of a job.
NodeFor(g, j, current) == [id |-> j, at |-> Position(g, j), isCurrent |-> j = current]

\* A diagram draws the family of its job, whatever parents and lists are stored, for every
\* finite set of jobs and every answer of the server (JobDependencyDiagram.tsx:210, 230, 250).
THEOREM FamilyIsShown ==
  ASSUME IsFiniteSet(Jobs)
  PROVE  Spec => []DiagramShowsFamily
<1>1. ASSUME TypeOK, NEW listed \in SUBSET StoredJobs, NEW order \in SetToSeqs(Jobs),
             NEW current \in Jobs
      PROVE  {n.id : n \in Diagram(listed, order, current).nodes} = Family(listed, current)
  <2> DEFINE g == Relatives(listed, order, current)
             nodes == Nodes(g, listed, current)
             R == Range(g.related) \cap listed
  <2>1. Diagram(listed, order, current).nodes = nodes
    BY DEF Diagram
  <2>2. {n.id : n \in nodes} = R
    <3>1. nodes = {NodeFor(g, j, current) : j \in R}
      BY DEF Nodes, NodeFor
    <3>2. \A j : NodeFor(g, j, current).id = j
      BY DEF NodeFor
    <3> HIDE DEF nodes, R, g
    <3> QED BY <3>1, <3>2
  <2>3. R = Family(listed, current)
    BY <1>1, RelativesAreFamily
  <2> HIDE DEF nodes, R
  <2> QED BY <2>1, <2>2, <2>3
<1>2. TypeOK => DiagramShowsFamily
  BY <1>1 DEF DiagramShowsFamily, ForEveryDiagram
<1> QED BY <1>2, TypeCorrect, PTL

\* The arrow to a job.
EdgeFor(g, j) == [from |-> jobs[j].parent, to |-> j, fromAt |-> Position(g, jobs[j].parent),
                  toAt |-> Position(g, j)]

LEMMA NodeFacts ==
  ASSUME NEW g, NEW listed, NEW current
  PROVE  /\ Nodes(g, listed, current)
              = {NodeFor(g, j, current) : j \in Range(g.related) \cap listed}
         /\ \A j : NodeFor(g, j, current).id = j /\ NodeFor(g, j, current).at = Position(g, j)
         /\ \A j \in Range(g.related) \cap listed :
              NodeFor(g, j, current) \in Nodes(g, listed, current)
<1>1. Nodes(g, listed, current) = {NodeFor(g, j, current) : j \in Range(g.related) \cap listed}
  BY DEF Nodes, NodeFor
<1>2. \A j : NodeFor(g, j, current).id = j /\ NodeFor(g, j, current).at = Position(g, j)
  BY DEF NodeFor
<1> QED BY <1>1, <1>2

LEMMA EdgeFacts ==
  ASSUME NEW listed, NEW order, NEW current,
         NEW e \in Diagram(listed, order, current).edges
  PROVE  LET g == Relatives(listed, order, current) IN
         \E j \in Range(g.related) \cap listed :
           jobs[j].parent \in Range(g.related) /\ e = EdgeFor(g, j)
<1> DEFINE g == Relatives(listed, order, current)
           nodes == Nodes(g, listed, current)
<1>1. e \in Edges(g, listed)
  <2> HIDE DEF g, nodes
  <2>1. CASE Cardinality(nodes) <= 1
    <3>1. Diagram(listed, order, current).edges = {}
      BY <2>1 DEF Diagram, g, nodes
    <3> QED BY <3>1
  <2>2. CASE ~(Cardinality(nodes) <= 1)
    <3>1. Diagram(listed, order, current).edges = Edges(g, listed)
      BY <2>2 DEF Diagram, g, nodes
    <3> QED BY <3>1
  <2> QED BY <2>1, <2>2
<1> HIDE DEF g
<1>2. Edges(g, listed) =
        {EdgeFor(g, j) :
           j \in {k \in Range(g.related) \cap listed : jobs[k].parent \in Range(g.related)}}
  BY DEF Edges, EdgeFor
<1>3. \E j \in Range(g.related) \cap listed :
        jobs[j].parent \in Range(g.related) /\ e = EdgeFor(g, j)
  BY <1>1, <1>2
<1> QED BY <1>3 DEF g

\* Every arrow of a diagram joins two of its nodes, a parent and a child that names it, and
\* begins and ends at them, whatever is stored (JobDependencyDiagram.tsx:179, 357, 486).
THEOREM ArrowsJoin ==
  ASSUME IsFiniteSet(Jobs)
  PROVE  Spec => []ArrowsJoinParentAndChild
<1>1. ASSUME TypeOK, NEW listed \in SUBSET StoredJobs, NEW order \in SetToSeqs(Jobs),
             NEW current \in Jobs, NEW e \in Diagram(listed, order, current).edges
      PROVE  \E m, n \in Diagram(listed, order, current).nodes :
               /\ m.id = e.from /\ n.id = e.to /\ jobs[n.id].parent = m.id
               /\ Arrow(e).start = [x |-> m.at.x + 80, y |-> m.at.y + NodeHeight]
               /\ Arrow(e).end = [x |-> n.at.x + 80, y |-> n.at.y]
  <2> DEFINE g == Relatives(listed, order, current)
  <2>1. PICK c \in Range(g.related) \cap listed :
          jobs[c].parent \in Range(g.related) /\ e = EdgeFor(g, c)
    BY EdgeFacts
  <2>2. /\ current \notin listed => Range(g.related) = {current}
        /\ current \in listed => Range(g.related) \subseteq listed
    BY <1>1, RelativesAreFamily
  <2>3. Diagram(listed, order, current).nodes = Nodes(g, listed, current)
    BY DEF Diagram
  <2> HIDE DEF g
  <2>4. PICK p : p = jobs[c].parent /\ p \in Range(g.related) \cap listed
    BY <2>1, <2>2
  <2> DEFINE m == NodeFor(g, p, current)
             n == NodeFor(g, c, current)
  <2>5. /\ m \in Nodes(g, listed, current) /\ m.id = p /\ m.at = Position(g, p)
        /\ n \in Nodes(g, listed, current) /\ n.id = c /\ n.at = Position(g, c)
    <3>1. \A j : NodeFor(g, j, current).id = j /\ NodeFor(g, j, current).at = Position(g, j)
      BY NodeFacts
    <3>2. \A j \in Range(g.related) \cap listed :
            NodeFor(g, j, current) \in Nodes(g, listed, current)
      BY NodeFacts
    <3> QED BY <2>1, <2>4, <3>1, <3>2
  <2>6. /\ e.from = p /\ e.to = c /\ e.fromAt = Position(g, p) /\ e.toAt = Position(g, c)
    BY <2>1, <2>4 DEF EdgeFor
  <2> HIDE DEF m, n
  <2>7. NodeWidth \div 2 = 80
    BY DEF NodeWidth
  <2>8. /\ Arrow(e).start = [x |-> m.at.x + 80, y |-> m.at.y + NodeHeight]
        /\ Arrow(e).end = [x |-> n.at.x + 80, y |-> n.at.y]
    BY <2>5, <2>6, <2>7 DEF Arrow
  <2> QED BY <2>3, <2>4, <2>5, <2>6, <2>8
<1>2. TypeOK => ArrowsJoinParentAndChild
  BY <1>1 DEF ArrowsJoinParentAndChild, ForEveryDiagram
<1> QED BY <1>2, TypeCorrect, PTL

-----------------------------------------------------------------------------
(* Rows and places *)

LEMMA ImageFinite ==
  ASSUME NEW S, IsFiniteSet(S), NEW f, DOMAIN f = S
  PROVE  IsFiniteSet({f[x] : x \in S})
<1> DEFINE T == {f[x] : x \in S}
           h == [x \in S |-> f[x]]
<1>1. h \in Surjection(S, T)
  BY DEF Surjection
<1> HIDE DEF h
<1> QED BY <1>1, FS_Surjection

\* A finite set of integers has a largest and a smallest member.
LEMMA Extremes ==
  ASSUME NEW S \in SUBSET Int, IsFiniteSet(S), S # {}
  PROVE  /\ Max(S) \in S /\ \A y \in S : y <= Max(S)
         /\ Min(S) \in S /\ \A y \in S : Min(S) <= y
<1> DEFINE T == {s \in SUBSET S : s # {} => /\ \E x \in s : \A y \in s : y <= x
                                            /\ \E x \in s : \A y \in s : x <= y}
<1>1. ASSUME NEW s \in SUBSET S, \A t \in SUBSET s : t # s => t \in T PROVE s \in T
  <2> SUFFICES ASSUME s # {} PROVE /\ \E x \in s : \A y \in s : y <= x
                                   /\ \E x \in s : \A y \in s : x <= y
    OBVIOUS
  <2>1. PICK e \in s : TRUE
    OBVIOUS
  <2>2. s \ {e} \in T
    <3>1. s \ {e} \in SUBSET s /\ s \ {e} # s
      OBVIOUS
    <3> HIDE DEF T
    <3> QED BY <1>1, <3>1
  <2>3. \A y \in s : y \in Int
    OBVIOUS
  <2>4. CASE s \ {e} = {}
    <3>1. \A y \in s : y = e
      BY <2>4
    <3> QED BY <2>3, <3>1
  <2>5. CASE s \ {e} # {}
    <3>1. PICK a \in s \ {e} : \A y \in s \ {e} : y <= a
      BY <2>2, <2>5
    <3>2. PICK b \in s \ {e} : \A y \in s \ {e} : b <= y
      BY <2>2, <2>5
    <3>3. \E x \in s : \A y \in s : y <= x
      <4>1. CASE a <= e
        <5>1. \A y \in s : y <= e
          BY <2>3, <3>1, <4>1
        <5> QED BY <5>1
      <4>2. CASE ~(a <= e)
        <5>1. \A y \in s : y <= a
          BY <2>3, <3>1, <4>2
        <5> QED BY <5>1
      <4> QED BY <4>1, <4>2
    <3>4. \E x \in s : \A y \in s : x <= y
      <4>1. CASE e <= b
        <5>1. \A y \in s : e <= y
          BY <2>3, <3>2, <4>1
        <5> QED BY <5>1
      <4>2. CASE ~(e <= b)
        <5>1. \A y \in s : b <= y
          BY <2>3, <3>2, <4>2
        <5> QED BY <5>1
      <4> QED BY <4>1, <4>2
    <3> QED BY <3>3, <3>4
  <2> QED BY <2>4, <2>5
<1>2. S \in T
  <2> HIDE DEF T
  <2>1. SUBSET S \subseteq T
    BY <1>1, AllSubsets
  <2> QED BY <2>1
<1>3. /\ \E x \in S : \A y \in S : x >= y
      /\ \E x \in S : \A y \in S : x <= y
  <2>1. PICK a \in S : \A y \in S : y <= a
    BY <1>2
  <2>2. PICK b \in S : \A y \in S : b <= y
    BY <1>2
  <2> QED BY <2>1, <2>2
<1>4. Max(S) \in S /\ \A y \in S : Max(S) >= y
  BY <1>3, Zenon DEF Max
<1>5. Min(S) \in S /\ \A y \in S : Min(S) <= y
  BY <1>3, Zenon DEF Min
<1> QED BY <1>4, <1>5

\* A diagram of jobs, each on a level.
IsDrawn(g) == /\ g.related \in Seq(Jobs) /\ EachOnce(g.related) /\ g.level \in [Jobs -> Int]

\* The places of a row to the left of a place.
Before(g, p) == {i \in Row(g, g.level[g.related[p]]) : i < p}

LEMMA IndexFacts ==
  ASSUME NEW g, IsDrawn(g), NEW p \in DOMAIN g.related, NEW j, j = g.related[p]
  PROVE  /\ IsFiniteSet(Row(g, g.level[j])) /\ Cardinality(Row(g, g.level[j])) \in Nat
         /\ Index(g, j) \in Nat
         /\ Index(g, j) + 1 <= Cardinality(Row(g, g.level[j]))
         /\ \A q \in DOMAIN g.related : g.level[g.related[q]] = g.level[j] /\ p < q
              => Index(g, j) + 1 <= Index(g, g.related[q])
<1>1. PICK N \in Nat : N = Len(g.related) /\ DOMAIN g.related = 1..N
  BY LenProperties DEF IsDrawn
<1>2. IsFiniteSet(1..N)
  BY FS_Interval
<1> DEFINE row == Row(g, g.level[j])
<1>3. IsFiniteSet(row) /\ Cardinality(row) \in Nat
  <2>1. row \in SUBSET (1..N)
    BY <1>1 DEF Row
  <2> QED BY <1>2, <2>1, FS_Subset, FS_CardinalityType
<1>4. ASSUME NEW q \in DOMAIN g.related
      PROVE  /\ Index(g, g.related[q]) = Cardinality(Before(g, q))
             /\ IsFiniteSet(Before(g, q)) /\ Cardinality(Before(g, q)) \in Nat
  <2>1. \A k \in DOMAIN g.related : g.related[k] = g.related[q] => k = q
    BY DEF IsDrawn, EachOnce
  <2>2. \A k \in Row(g, g.level[g.related[q]]) : k \in DOMAIN g.related
    BY DEF Row
  <2>3. q \in Row(g, g.level[g.related[q]])
    BY DEF Row
  <2>4. {i \in Row(g, g.level[g.related[q]]) :
           \E k \in Row(g, g.level[g.related[q]]) : i < k /\ g.related[k] = g.related[q]}
        = Before(g, q)
    BY <2>1, <2>2, <2>3 DEF Before
  <2>5. Before(g, q) \in SUBSET (1..N)
    BY <1>1, <2>2 DEF Before
  <2>6. IsFiniteSet(Before(g, q)) /\ Cardinality(Before(g, q)) \in Nat
    BY <1>2, <2>5, FS_Subset, FS_CardinalityType
  <2> QED BY <2>4, <2>6 DEF Index
<1>5. /\ IsFiniteSet(Before(g, p) \cup {p})
      /\ Cardinality(Before(g, p) \cup {p}) = Cardinality(Before(g, p)) + 1
  <2>1. p \notin Before(g, p)
    BY <1>1 DEF Before
  <2> QED BY <1>4, <2>1, FS_AddElement
<1>6. Index(g, j) + 1 <= Cardinality(row)
  <2>1. Before(g, p) \cup {p} \in SUBSET row
    BY DEF Before, Row
  <2>2. Cardinality(Before(g, p) \cup {p}) <= Cardinality(row)
    BY <1>3, <2>1, FS_Subset
  <2> QED BY <1>4, <1>5, <2>2
<1>7. ASSUME NEW q \in DOMAIN g.related, g.level[g.related[q]] = g.level[j], p < q
      PROVE  Index(g, j) + 1 <= Index(g, g.related[q])
  <2>1. Before(g, p) \cup {p} \in SUBSET Before(g, q)
    <3>1. \A i \in 1..N : i < p => i < q
      BY <1>1, <1>7
    <3> QED BY <1>1, <1>7, <3>1 DEF Before, Row
  <2>2. Cardinality(Before(g, p) \cup {p}) <= Cardinality(Before(g, q))
    BY <1>4, <2>1, FS_Subset
  <2> QED BY <1>4, <1>5, <2>2
<1> QED BY <1>3, <1>4, <1>6, <1>7

LEMMA LevelFacts ==
  ASSUME NEW g, IsDrawn(g), NEW j \in Range(g.related)
  PROVE  /\ g.level[j] \in Int /\ Min(LevelsOf(g)) \in Int /\ Min(LevelsOf(g)) <= g.level[j]
         /\ MaxWidth(g) \in Int /\ RowWidth(Cardinality(Row(g, g.level[j]))) <= MaxWidth(g)
<1>1. PICK N \in Nat : N = Len(g.related) /\ DOMAIN g.related = 1..N
  BY LenProperties DEF IsDrawn
<1>2. IsFiniteSet(1..N) /\ \A i \in 1..N : g.related[i] \in Jobs
  <2>1. IsFiniteSet(1..N)
    BY FS_Interval
  <2>2. \A i \in 1..Len(g.related) : g.related[i] \in Jobs
    BY ElementOfSeq DEF IsDrawn
  <2> QED BY <1>1, <2>1, <2>2
<1> DEFINE levels == [i \in 1..N |-> g.level[g.related[i]]]
           widths == [i \in 1..N |-> RowWidth(Cardinality(Row(g, g.level[g.related[i]])))]
<1>3. PICK p \in 1..N : j = g.related[p]
  BY <1>1 DEF Range
<1>4. LevelsOf(g) = {levels[i] : i \in 1..N}
  BY <1>1 DEF LevelsOf, Range
<1>5. LevelsOf(g) \in SUBSET Int /\ g.level[j] \in LevelsOf(g)
  BY <1>2, <1>3, <1>4 DEF IsDrawn
<1>6. IsFiniteSet(LevelsOf(g))
  <2> HIDE DEF levels
  <2>1. DOMAIN levels = 1..N
    BY DEF levels
  <2> QED BY <1>2, <1>4, <2>1, ImageFinite
<1>7. Min(LevelsOf(g)) \in LevelsOf(g) /\ \A y \in LevelsOf(g) : Min(LevelsOf(g)) <= y
  BY <1>5, <1>6, Extremes
<1> DEFINE W == {RowWidth(Cardinality(Row(g, l))) : l \in LevelsOf(g)}
<1>8. W = {widths[i] : i \in 1..N}
  <2>1. LevelsOf(g) = {g.level[g.related[i]] : i \in 1..N}
    BY <1>4
  <2> HIDE DEF levels
  <2>2. ASSUME NEW x PROVE x \in W <=> \E i \in 1..N :
                              x = RowWidth(Cardinality(Row(g, g.level[g.related[i]])))
    BY <2>1
  <2>3. ASSUME NEW i \in 1..N
        PROVE  widths[i] = RowWidth(Cardinality(Row(g, g.level[g.related[i]])))
    OBVIOUS
  <2> HIDE DEF W, widths
  <2> QED BY <2>2, <2>3
<1>9. \A i \in 1..N : widths[i] \in Int
  <2> TAKE i \in 1..N
  <2>1. PICK c \in Nat : c = Cardinality(Row(g, g.level[g.related[i]]))
    BY <1>1, IndexFacts
  <2>2. RowWidth(c) \in Int
    BY DEF RowWidth, NodeWidth, NodeSpacing
  <2> QED BY <2>1, <2>2
<1>10. IsFiniteSet(W)
  <2> HIDE DEF widths, W
  <2>1. DOMAIN widths = 1..N
    BY DEF widths
  <2> QED BY <1>2, <1>8, <2>1, ImageFinite
<1>11. W \in SUBSET Int /\ RowWidth(Cardinality(Row(g, g.level[j]))) \in W
  BY <1>5, <1>8, <1>9
<1>12. MaxWidth(g) = Max(W)
  BY DEF MaxWidth
<1> HIDE DEF W
<1>13. Max(W) \in W /\ \A y \in W : y <= Max(W)
  BY <1>10, <1>11, Extremes
<1> QED BY <1>5, <1>7, <1>11, <1>12, <1>13

\* Where a job is drawn, in numbers: how far its row is moved, and how far the job in it.
LEMMA PlaceFacts ==
  ASSUME NEW g, IsDrawn(g), NEW j \in Range(g.related)
  PROVE  /\ Left(g, j) \in Nat /\ Index(g, j) \in Nat
         /\ g.level[j] - Min(LevelsOf(g)) \in Nat
         /\ Position(g, j) = [x |-> Left(g, j) + Index(g, j) * 180,
                              y |-> (g.level[j] - Min(LevelsOf(g))) * 100 + 30]
         /\ Position(g, j).x \in Nat /\ Position(g, j).y \in Nat
<1>1. /\ g.level[j] \in Int /\ Min(LevelsOf(g)) \in Int /\ Min(LevelsOf(g)) <= g.level[j]
      /\ MaxWidth(g) \in Int /\ RowWidth(Cardinality(Row(g, g.level[j]))) <= MaxWidth(g)
  BY LevelFacts
<1>2. PICK p \in DOMAIN g.related : j = g.related[p]
  BY DEF Range
<1>3. Index(g, j) \in Nat /\ Cardinality(Row(g, g.level[j])) \in Nat
  BY <1>2, IndexFacts
<1>4. PICK w \in Int, r \in Int : w = MaxWidth(g) /\ r = RowWidth(Cardinality(Row(g, g.level[j])))
  <2>1. PICK c \in Nat : c = Cardinality(Row(g, g.level[j]))
    BY <1>3
  <2>2. RowWidth(c) \in Int
    BY DEF RowWidth, NodeWidth, NodeSpacing
  <2> QED BY <1>1, <2>1, <2>2
<1>5. Left(g, j) \in Nat
  <2>1. w - r \in Nat
    BY <1>1, <1>4
  <2>2. \A a \in Nat : a \div 2 \in Nat
    OBVIOUS
  <2>3. Left(g, j) = (w - r) \div 2
    BY <1>4 DEF Left
  <2> QED BY <2>1, <2>2, <2>3
<1>6. PICK d \in Nat, i \in Nat, l \in Nat :
        d = g.level[j] - Min(LevelsOf(g)) /\ i = Index(g, j) /\ l = Left(g, j)
  BY <1>1, <1>3, <1>5
<1>7. NodeWidth + NodeSpacing = 180 /\ LevelHeight = 100
  BY DEF NodeWidth, NodeSpacing, LevelHeight
<1>8. Position(g, j) = [x |-> l + i * 180, y |-> d * 100 + 30]
  BY <1>6, <1>7 DEF Position
<1>9. l + i * 180 \in Nat /\ d * 100 + 30 \in Nat
  OBVIOUS
<1> QED BY <1>6, <1>8, <1>9

\* Two jobs of a row are drawn beside each other, two jobs of different rows one below the other.
LEMMA PlacesDiffer ==
  ASSUME NEW g, IsDrawn(g), NEW j \in Range(g.related), NEW k \in Range(g.related), j # k
  PROVE  LET a == Position(g, j)
             b == Position(g, k)
         IN \/ a.x + 180 <= b.x \/ b.x + 180 <= a.x
            \/ a.y + 100 <= b.y \/ b.y + 100 <= a.y
<1> DEFINE a == Position(g, j)
           b == Position(g, k)
<1>1. PICK l \in Nat, m \in Nat, i \in Nat, n \in Nat, d \in Nat, e \in Nat :
        /\ l = Left(g, j) /\ m = Left(g, k) /\ i = Index(g, j) /\ n = Index(g, k)
        /\ d = g.level[j] - Min(LevelsOf(g)) /\ e = g.level[k] - Min(LevelsOf(g))
  BY PlaceFacts
<1>2. a.x = l + i * 180 /\ a.y = d * 100 + 30 /\ b.x = m + n * 180 /\ b.y = e * 100 + 30
  BY <1>1, PlaceFacts
<1>3. /\ g.level[j] \in Int /\ g.level[k] \in Int /\ Min(LevelsOf(g)) \in Int
  BY LevelFacts
<1> HIDE DEF a, b
<1>4. CASE g.level[j] = g.level[k]
  <2>1. PICK p \in DOMAIN g.related, q \in DOMAIN g.related : j = g.related[p] /\ k = g.related[q]
    BY DEF Range
  <2>2. l = m
    BY <1>1, <1>4 DEF Left
  <2>3. p \in Nat /\ q \in Nat /\ p # q
    BY <2>1, LenProperties DEF IsDrawn
  <2>4. p < q => i + 1 <= n
    BY <1>1, <1>4, <2>1, IndexFacts
  <2>5. q < p => n + 1 <= i
    BY <1>1, <1>4, <2>1, IndexFacts
  <2>6. i + 1 <= n \/ n + 1 <= i
    BY <2>3, <2>4, <2>5
  <2>7. a.x + 180 <= b.x \/ b.x + 180 <= a.x
    BY <1>2, <2>2, <2>6
  <2> QED BY <2>7 DEF a, b
<1>5. CASE g.level[j] # g.level[k]
  <2>1. d # e
    BY <1>1, <1>3, <1>5
  <2>2. a.y + 100 <= b.y \/ b.y + 100 <= a.y
    BY <1>2, <2>1
  <2> QED BY <2>2 DEF a, b
<1> QED BY <1>4, <1>5

LEMMA BelowFacts ==
  ASSUME NEW n, n.at.y \in Nat
  PROVE  Below(n) \in Nat /\ n.at.y + 60 <= Below(n) /\ Below(n) <= n.at.y + 78
<1>1. PICK y \in Nat : y = n.at.y
  OBVIOUS
<1>2. Below(n) = y + 60 + (IF n.isCurrent THEN 18 ELSE 0)
  BY <1>1 DEF Below, NodeHeight
<1> QED BY <1>1, <1>2

\* The largest of some measures of the nodes and of a least one.
LEMMA CanvasFacts ==
  ASSUME NEW S, IsFiniteSet(S), NEW f \in [S -> Int], NEW a \in Int
  PROVE  /\ Max({f[x] : x \in S} \cup {a}) \in Int
         /\ \A x \in S : f[x] <= Max({f[y] : y \in S} \cup {a})
<1> DEFINE T == {f[x] : x \in S} \cup {a}
<1>1. IsFiniteSet(T)
  <2>1. IsFiniteSet({f[x] : x \in S})
    BY ImageFinite
  <2> QED BY <2>1, FS_AddElement
<1>2. T \in SUBSET Int /\ T # {} /\ \A x \in S : f[x] \in T
  OBVIOUS
<1> HIDE DEF T
<1>3. Max(T) \in T /\ \A y \in T : y <= Max(T)
  BY <1>1, <1>2, Extremes
<1>4. Max(T) \in Int /\ \A x \in S : f[x] <= Max(T)
  BY <1>2, <1>3
<1> QED BY <1>4 DEF T

LEMMA NodesFinite ==
  ASSUME NEW g, IsDrawn(g), NEW listed, NEW current
  PROVE  IsFiniteSet(Nodes(g, listed, current))
<1>1. PICK N \in Nat : N = Len(g.related) /\ DOMAIN g.related = 1..N
  BY LenProperties DEF IsDrawn
<1>2. IsFiniteSet(Range(g.related))
  <2>1. IsFiniteSet(1..N)
    BY FS_Interval
  <2>2. Range(g.related) = {g.related[i] : i \in 1..N}
    BY <1>1, Zenon DEF Range
  <2> QED BY <1>1, <2>1, <2>2, ImageFinite
<1>3. IsFiniteSet(Range(g.related) \cap listed)
  BY <1>2, FS_Subset
<1> DEFINE R == Range(g.related) \cap listed
           f == [j \in R |-> NodeFor(g, j, current)]
<1>4. DOMAIN f = R /\ \A j \in R : f[j] = NodeFor(g, j, current)
  OBVIOUS
<1>5. Nodes(g, listed, current) = {NodeFor(g, j, current) : j \in R}
  BY NodeFacts
<1> HIDE DEF f, R
<1>6. IsFiniteSet({f[j] : j \in R})
  BY <1>3, <1>4, ImageFinite DEF R
<1>7. {f[j] : j \in R} = {NodeFor(g, j, current) : j \in R}
  BY <1>4
<1> QED BY <1>5, <1>6, <1>7

\* The nodes of a diagram never cover each other and lie on its canvas, for every finite set of
\* jobs and every answer (JobDependencyDiagram.tsx:262 to 355).
THEOREM DrawingsAreReadable ==
  ASSUME IsFiniteSet(Jobs)
  PROVE  Spec => []DrawingIsReadable
<1>1. ASSUME TypeOK, NEW listed \in SUBSET StoredJobs, NEW order \in SetToSeqs(Jobs),
             NEW current \in Jobs, Cardinality(Diagram(listed, order, current).nodes) > 1
      PROVE  LET D == Diagram(listed, order, current) IN
             /\ \A m, n \in D.nodes : m # n =>
                  \/ m.at.x + NodeWidth < n.at.x \/ n.at.x + NodeWidth < m.at.x
                  \/ Below(m) < n.at.y           \/ Below(n) < m.at.y
             /\ \A n \in D.nodes : /\ n.at.x >= 0 /\ n.at.x + NodeWidth + 40 <= D.width
                                   /\ n.at.y >= 0 /\ Below(n) <= D.height
  <2> DEFINE g == Relatives(listed, order, current)
             D == Diagram(listed, order, current)
             nodes == Nodes(g, listed, current)
  <2>1. IsDrawn(g)
    BY <1>1, RelativesFacts DEF AreRelatives, IsDrawn
  <2>2. D.nodes = nodes
    BY DEF Diagram
  <2>3. /\ D.width = Max({n.at.x + NodeWidth : n \in nodes} \cup {300}) + 80
        /\ D.height = Max({n.at.y + NodeHeight + 30 : n \in nodes} \cup {150}) + 40
    <3>1. Cardinality(nodes) \in Nat /\ Cardinality(nodes) > 1
      BY <1>1, <2>1, <2>2, NodesFinite, FS_CardinalityType
    <3>2. ~(Cardinality(nodes) <= 1)
      BY <3>1
    <3>3. D = [nodes |-> nodes, edges |-> Edges(g, listed),
               width  |-> Max({n.at.x + NodeWidth : n \in nodes} \cup {300}) + 80,
               height |-> Max({n.at.y + NodeHeight + 30 : n \in nodes} \cup {150}) + 40]
      BY <3>2, Zenon DEF Diagram
    <3> HIDE DEF D, nodes, g
    <3> QED BY <3>3
  <2> HIDE DEF g, D
  <2>4. nodes = {NodeFor(g, j, current) : j \in Range(g.related) \cap listed}
        /\ \A j : NodeFor(g, j, current).id = j /\ NodeFor(g, j, current).at = Position(g, j)
    BY NodeFacts
  <2> HIDE DEF nodes
  <2>5. ASSUME NEW n \in nodes
        PROVE  n.at.x \in Nat /\ n.at.y \in Nat /\ n.at = Position(g, n.id)
               /\ n.id \in Range(g.related) /\ n = NodeFor(g, n.id, current)
    <3>1. PICK j \in Range(g.related) \cap listed : n = NodeFor(g, j, current)
      BY <2>4
    <3>2. n.id = j /\ n.at = Position(g, j)
      BY <2>4, <3>1
    <3>3. Position(g, j).x \in Nat /\ Position(g, j).y \in Nat
      BY <2>1, PlaceFacts
    <3> QED BY <3>1, <3>2, <3>3
  <2>6. NodeWidth = 160 /\ NodeHeight = 60
    BY DEF NodeWidth, NodeHeight
  <2>7. ASSUME NEW m \in nodes, NEW n \in nodes, m # n
        PROVE  \/ m.at.x + NodeWidth < n.at.x \/ n.at.x + NodeWidth < m.at.x
               \/ Below(m) < n.at.y           \/ Below(n) < m.at.y
    <3>1. PICK j, k : j = m.id /\ k = n.id
      OBVIOUS
    <3>2. /\ j \in Range(g.related) /\ k \in Range(g.related) /\ j # k
          /\ m.at = Position(g, j) /\ n.at = Position(g, k)
      BY <2>5, <2>7, <3>1
    <3>3. PICK a \in Nat, b \in Nat, c \in Nat, d \in Nat, e \in Nat, f \in Nat :
            /\ a = m.at.x /\ b = m.at.y /\ c = n.at.x /\ d = n.at.y /\ e = Below(m) /\ f = Below(n)
            /\ e <= b + 78 /\ f <= d + 78
      BY <2>5, BelowFacts
    <3>4. \/ a + 180 <= c \/ c + 180 <= a \/ b + 100 <= d \/ d + 100 <= b
      BY <2>1, <3>2, <3>3, PlacesDiffer
    <3>5. a + 160 < c \/ c + 160 < a \/ e < d \/ f < b
      BY <3>3, <3>4
    <3> QED BY <2>6, <3>3, <3>5
  <2>8. PICK right \in [nodes -> Int], low \in [nodes -> Int] :
          \A n \in nodes : right[n] = n.at.x + NodeWidth /\ low[n] = n.at.y + NodeHeight + 30
    <3> DEFINE r == [n \in nodes |-> n.at.x + NodeWidth]
               l == [n \in nodes |-> n.at.y + NodeHeight + 30]
    <3>1. /\ r \in [nodes -> Int] /\ l \in [nodes -> Int]
          /\ \A n \in nodes : r[n] = n.at.x + NodeWidth /\ l[n] = n.at.y + NodeHeight + 30
      BY <2>5, <2>6
    <3> QED BY <3>1
  <2>9. IsFiniteSet(nodes)
    BY <2>1, NodesFinite DEF nodes
  <2>10. /\ {n.at.x + NodeWidth : n \in nodes} = {right[n] : n \in nodes}
         /\ {n.at.y + NodeHeight + 30 : n \in nodes} = {low[n] : n \in nodes}
    BY <2>8
  <2>11. PICK w \in Int : w = Max({right[n] : n \in nodes} \cup {300})
                          /\ \A n \in nodes : right[n] <= w
    <3>1. /\ Max({right[n] : n \in nodes} \cup {300}) \in Int
          /\ \A n \in nodes : right[n] <= Max({right[k] : k \in nodes} \cup {300})
      BY <2>9, CanvasFacts
    <3> QED BY <3>1, Zenon
  <2>12. PICK h \in Int : h = Max({low[n] : n \in nodes} \cup {150})
                          /\ \A n \in nodes : low[n] <= h
    <3>1. /\ Max({low[n] : n \in nodes} \cup {150}) \in Int
          /\ \A n \in nodes : low[n] <= Max({low[k] : k \in nodes} \cup {150})
      BY <2>9, CanvasFacts
    <3> QED BY <3>1, Zenon
  <2>13. D.width = w + 80 /\ D.height = h + 40
    BY <2>3, <2>10, <2>11, <2>12, Zenon
  <2>14. ASSUME NEW n \in nodes
         PROVE  /\ n.at.x >= 0 /\ n.at.x + NodeWidth + 40 <= D.width
                /\ n.at.y >= 0 /\ Below(n) <= D.height
    <3>1. PICK x \in Nat, y \in Nat, b \in Nat :
            x = n.at.x /\ y = n.at.y /\ b = Below(n) /\ b <= y + 78
      BY <2>5, BelowFacts
    <3>2. x + 160 <= w /\ y + 60 + 30 <= h
      BY <2>6, <2>8, <2>11, <2>12, <3>1
    <3>3. x >= 0 /\ x + 160 + 40 <= w + 80 /\ y >= 0 /\ b <= h + 40
      BY <3>1, <3>2
    <3> QED BY <2>6, <2>13, <3>1, <3>3
  <2> QED BY <2>2, <2>7, <2>14 DEF D
<1>2. TypeOK => DrawingIsReadable
  BY <1>1 DEF DrawingIsReadable, ForEveryDiagram
<1> QED BY <1>2, TypeCorrect, PTL

-----------------------------------------------------------------------------
(* Levels in a forest *)

\* In a forest, the upward lists name parents and the downward lists children.
LEMMA ForestLists ==
  ASSUME IsFiniteSet(Jobs), TypeOK, IsForest, NEW listed \in SUBSET StoredJobs,
         NEW order \in SetToSeqs(Jobs)
  PROVE  /\ \A j \in listed, p \in listed : jobs[j].parent = p =>
              j \in Range(Downs(listed, order)[p])
         /\ \A j \in Jobs : \A c \in Range(Downs(listed, order)[j]) :
              c \in Jobs /\ ParentOf(jobs, c) = j
         /\ \A j \in Jobs : \A p \in Range(Ups(listed)[j]) : p \in Jobs /\ ParentOf(jobs, j) = p
         /\ \A j \in listed : jobs[j].parent = ParentOf(jobs, j)
<1>1. \A j \in listed : j \in Jobs /\ jobs[j] # NoJob /\ j \in StoredJobs
  BY DEF StoredJobs, Stored
<1>2. \A j \in listed : jobs[j].parent = ParentOf(jobs, j)
  BY <1>1 DEF ParentOf
<1>3. \A p \in listed, c \in listed : jobs[p].dependents[c] > 0 <=> jobs[c].parent = p
  BY <1>1 DEF IsForest
<1>4. \A j \in Jobs : Range(Downs(listed, order)[j]) =
        IF j \in listed THEN {c \in listed : jobs[j].dependents[c] > 0} ELSE {}
  BY DownsFacts
<1>5. \A j \in Jobs : Range(Ups(listed)[j]) =
        IF j \in listed THEN {jobs[j].parent} \cap listed ELSE {}
  BY UpsFacts
<1>6. ASSUME NEW j \in listed, NEW p \in listed, jobs[j].parent = p
      PROVE  j \in Range(Downs(listed, order)[p])
  <2>1. jobs[p].dependents[j] > 0 /\ p \in Jobs
    BY <1>1, <1>3, <1>6
  <2> QED BY <1>4, <2>1
<1>7. ASSUME NEW j \in Jobs, NEW c \in Range(Downs(listed, order)[j])
      PROVE  c \in Jobs /\ ParentOf(jobs, c) = j
  <2>1. j \in listed /\ c \in listed /\ jobs[j].dependents[c] > 0
    BY <1>4
  <2> QED BY <1>1, <1>2, <1>3, <2>1
<1>8. ASSUME NEW j \in Jobs, NEW p \in Range(Ups(listed)[j])
      PROVE  p \in Jobs /\ ParentOf(jobs, j) = p
  <2>1. j \in listed /\ p \in listed /\ jobs[j].parent = p
    BY <1>5
  <2> QED BY <1>1, <1>2, <2>1
<1> QED BY <1>2, <1>6, <1>7, <1>8

\* Whoever is waiting or found below the current job has its parent among the processed ones,
\* and its level is one below.
DownLevels(s) ==
  /\ \A v \in Range(s.todo) : /\ ParentOf(jobs, v.job) \in s.processed
                              /\ v.level = s.level[ParentOf(jobs, v.job)] + 1
  /\ \A j \in Range(s.found) : /\ ParentOf(jobs, j) \in s.processed
                               /\ s.level[j] = s.level[ParentOf(jobs, j)] + 1

\* So the current job is not its own descendant.
LEMMA CurrentIsAbove ==
  ASSUME IsForest, NEW from, NEW current \in Jobs, NEW level, NEW s,
         Traversed(s, from, current, level), DownLevels(s)
  PROVE  current \notin Range(s.found) \cup Waiting(s)
<1> SUFFICES ASSUME current \in Range(s.found) \cup Waiting(s) PROVE FALSE
  OBVIOUS
<1>1. ParentOf(jobs, current) \in s.processed
  BY DEF DownLevels, Waiting
<1>2. s.processed = {current} \cup Range(s.found) /\ s.processed \in SUBSET Jobs
  BY DEF Traversed, Walk
<1>3. \A j \in s.processed : ParentOf(jobs, j) \in s.processed
  BY <1>1, <1>2 DEF DownLevels
<1>4. \A taken \in SUBSET Jobs :
        taken # {} => \E j \in taken : ParentOf(jobs, j) \notin taken
  BY DEF IsForest
<1> QED BY <1>2, <1>3, <1>4

LEMMA VisitDown ==
  ASSUME IsForest, NEW from \in [Jobs -> Seq(Jobs)],
         \A j \in Jobs : \A c \in Range(from[j]) : c \in Jobs /\ ParentOf(jobs, c) = j,
         NEW current \in Jobs, NEW level \in [Jobs -> Int], NEW s,
         Traversed(s, from, current, level), DownLevels(s)
  PROVE  DownLevels(Visit(from, 1, s))
<1> DEFINE u == Visit(from, 1, s)
<1>0. 1 \in Int
  OBVIOUS
<1>1. s \in Walk
  BY DEF Traversed
<1>2. CASE s.todo = <<>>
  <2>1. u = s
    BY <1>0, <1>1, <1>2, VisitFacts
  <2> QED BY <2>1
<1>3. CASE s.todo # <<>>
  <2>1. PICK v \in Call, rest \in SUBSET Call : IsVisit(u, v, rest, from, 1, s)
    BY <1>0, <1>1, <1>3, VisitFacts
  <2> HIDE DEF u
  <2>2. PICK k \in Jobs, l \in Int : k = v.job /\ l = v.level
    BY DEF Call
  <2>3. /\ s.processed = {current} \cup Range(s.found) /\ s.processed \in SUBSET Jobs
        /\ s.level \in [Jobs -> Int]
    BY DEF Traversed, Walk
  <2>4. /\ Range(s.todo) = {v} \cup rest
        /\ u.processed = s.processed \cup {k} /\ Range(u.found) = Range(s.found) \cup {k}
        /\ u.level = [s.level EXCEPT ![k] = l]
    BY <2>1, <2>2 DEF IsVisit
  <2>5. ParentOf(jobs, k) \in s.processed /\ l = s.level[ParentOf(jobs, k)] + 1
    BY <2>2, <2>4 DEF DownLevels
  <2>6. k # current
    <3>1. k \in Waiting(s)
      BY <2>2, <2>4 DEF Waiting
    <3> QED BY <3>1, CurrentIsAbove
  <2>7. CASE k \in s.processed
    <3>1. k \in Range(s.found) /\ s.level[k] = l
      BY <2>3, <2>5, <2>6, <2>7 DEF DownLevels
    <3>2. u.level = s.level /\ u.processed = s.processed /\ Range(u.found) = Range(s.found)
      <4>1. PICK F \in [Jobs -> Int] : F = s.level
        BY <2>3
      <4>2. F[k] = l /\ u.level = [F EXCEPT ![k] = l]
        BY <2>4, <3>1, <4>1
      <4>3. u.level = F
        BY <4>2
      <4>4. s.processed \cup {k} = s.processed /\ Range(s.found) \cup {k} = Range(s.found)
        BY <2>7, <3>1
      <4> QED BY <2>4, <4>1, <4>3, <4>4
    <3>3. Range(u.todo) = rest
      BY <2>1, <2>2, <2>7 DEF IsVisit
    <3> QED BY <2>4, <3>2, <3>3 DEF DownLevels, u
  <2>8. CASE k \notin s.processed
    <3>1. Range(u.todo) = rest \cup CallsAt(Range(from[k]), l + 1)
      BY <2>1, <2>2, <2>8 DEF IsVisit
    <3>2. u.level[k] = l /\ \A j \in s.processed : u.level[j] = s.level[j]
      BY <2>3, <2>4, <2>8
    <3>3. ASSUME NEW w \in Range(u.todo)
          PROVE  /\ ParentOf(jobs, w.job) \in u.processed
                 /\ w.level = u.level[ParentOf(jobs, w.job)] + 1
      <4>1. CASE w \in rest
        <5>1. /\ ParentOf(jobs, w.job) \in s.processed
              /\ w.level = s.level[ParentOf(jobs, w.job)] + 1
          BY <2>4, <4>1 DEF DownLevels
        <5> QED BY <2>4, <3>2, <5>1
      <4>2. CASE w \notin rest
        <5>1. PICK c \in Range(from[k]) : w = [job |-> c, level |-> l + 1]
          BY <3>1, <4>2 DEF CallsAt
        <5>2. ParentOf(jobs, c) = k
          OBVIOUS
        <5> QED BY <2>4, <3>2, <5>1, <5>2
      <4> QED BY <4>1, <4>2
    <3>4. ASSUME NEW j \in Range(u.found)
          PROVE  /\ ParentOf(jobs, j) \in u.processed
                 /\ u.level[j] = u.level[ParentOf(jobs, j)] + 1
      <4>1. CASE j = k
        BY <2>4, <2>5, <3>2, <4>1
      <4>2. CASE j # k
        <5>1. j \in Range(s.found) /\ j \in s.processed
          BY <2>3, <2>4, <4>2
        <5>2. ParentOf(jobs, j) \in s.processed /\ s.level[j] = s.level[ParentOf(jobs, j)] + 1
          BY <5>1 DEF DownLevels
        <5> QED BY <2>4, <3>2, <5>1, <5>2
      <4> QED BY <4>1, <4>2
    <3> QED BY <3>3, <3>4 DEF DownLevels, u
  <2> QED BY <2>7, <2>8
<1> QED BY <1>2, <1>3

LEMMA StartDown ==
  ASSUME NEW from \in [Jobs -> Seq(Jobs)],
         \A j \in Jobs : \A c \in Range(from[j]) : c \in Jobs /\ ParentOf(jobs, c) = j,
         NEW current \in Jobs, NEW level \in [Jobs -> Int], level[current] = 0
  PROVE  DownLevels(Start(from, 1, current, level))
<1>1. PICK s : s = Start(from, 1, current, level)
  OBVIOUS
<1>2. IsStart(s, from, 1, current, level)
  BY <1>1, StartFacts
<1>3. ASSUME NEW v \in Range(s.todo)
      PROVE  /\ ParentOf(jobs, v.job) \in s.processed
             /\ v.level = s.level[ParentOf(jobs, v.job)] + 1
  <2>1. PICK c \in Range(from[current]) : v = [job |-> c, level |-> 1]
    BY <1>2 DEF IsStart, CallsAt
  <2>2. ParentOf(jobs, c) = current
    OBVIOUS
  <2> QED BY <1>2, <2>1, <2>2 DEF IsStart
<1>4. Range(s.found) = {}
  BY <1>2 DEF IsStart
<1> QED BY <1>1, <1>3, <1>4 DEF DownLevels

\* A traversal upwards is a chain: all but the last of the processed jobs have their parent
\* among them, one level above, and the call still to be made is for the parent of the last.
ChainTo(s, last) ==
  /\ last \in s.processed
  /\ \A c \in s.processed \ {last} : /\ ParentOf(jobs, c) \in s.processed
                                     /\ s.level[ParentOf(jobs, c)] = s.level[c] - 1
  /\ Len(s.todo) <= 1
  /\ \A v \in Range(s.todo) : v.job = ParentOf(jobs, last) /\ v.level = s.level[last] - 1

UpLevels(s, current) ==
  /\ current \in s.processed /\ s.level[current] = 0
  /\ \E last \in Jobs : ChainTo(s, last)

\* The last one's parent has not been processed: nobody is its own ancestor.
LEMMA LastIsTop ==
  ASSUME IsForest, NEW s \in Walk, NEW last, ChainTo(s, last)
  PROVE  ParentOf(jobs, last) \notin s.processed
<1> SUFFICES ASSUME ParentOf(jobs, last) \in s.processed PROVE FALSE
  OBVIOUS
<1>1. PICK taken \in SUBSET Jobs : taken = s.processed
  BY DEF Walk
<1>2. taken # {} /\ \A c \in taken : ParentOf(jobs, c) \in taken
  BY <1>1 DEF ChainTo
<1> QED BY <1>2 DEF IsForest

LEMMA VisitUp ==
  ASSUME IsForest, NEW from \in [Jobs -> Seq(Jobs)], NEW d \in Int, d = -1,
         \A j \in Jobs : /\ Len(from[j]) <= 1
                         /\ \A p \in Range(from[j]) : p \in Jobs /\ ParentOf(jobs, j) = p,
         NEW s \in Walk, NEW current \in Jobs, UpLevels(s, current)
  PROVE  UpLevels(Visit(from, d, s), current)
<1> DEFINE u == Visit(from, d, s)
<1>1. CASE s.todo = <<>>
  <2>1. u = s
    BY <1>1, VisitFacts
  <2> QED BY <2>1
<1>2. CASE s.todo # <<>>
  <2>1. PICK v \in Call, rest \in SUBSET Call : IsVisit(u, v, rest, from, d, s)
    BY <1>2, VisitFacts
  <2> HIDE DEF u
  <2>2. PICK k \in Jobs, l \in Int : k = v.job /\ l = v.level
    BY DEF Call
  <2>3. PICK last \in Jobs : ChainTo(s, last)
    BY DEF UpLevels
  <2>4. s.processed \in SUBSET Jobs /\ s.level \in [Jobs -> Int] /\ last \in s.processed
    BY <2>3 DEF Walk, ChainTo
  <2>5. Range(s.todo) = {v} \cup rest
    BY <2>1 DEF IsVisit
  <2>6. k = ParentOf(jobs, last) /\ l = s.level[last] - 1
    BY <2>2, <2>3, <2>5 DEF ChainTo
  <2>7. k \notin s.processed
    BY <2>3, <2>6, LastIsTop
  <2>8. rest = {}
    <3>1. PICK n \in Nat : n = Len(s.todo)
      BY <2>1 DEF IsVisit
    <3>2. n <= 1 /\ n # 0
      <4>1. s.todo \in Seq(Call)
        BY DEF Walk
      <4>2. Len(s.todo) # 0
        BY <1>2, <4>1, EmptySeq
      <4> QED BY <2>3, <3>1, <4>2 DEF ChainTo
    <3>3. n = 1
      BY <3>2
    <3> QED BY <2>1, <3>1, <3>3 DEF IsVisit
  <2>9. /\ Range(u.todo) = CallsAt(Range(from[k]), l + d)
        /\ u.processed = s.processed \cup {k} /\ u.level = [s.level EXCEPT ![k] = l]
    BY <2>1, <2>2, <2>7, <2>8 DEF IsVisit
  <2>10. Len(u.todo) <= 1
    <3>1. PICK n \in Nat, m \in Nat, e \in Nat :
            n = Len(s.todo) /\ m = Len(u.todo) /\ e = Len(from[k])
      BY <2>1, LenProperties DEF IsVisit
    <3>2. n <= 1 /\ e <= 1
      BY <2>3, <3>1 DEF ChainTo
    <3>3. m + 1 = n + e
      BY <2>1, <2>2, <2>7, <3>1 DEF IsVisit
    <3>4. m <= 1
      BY <3>2, <3>3
    <3> QED BY <3>1, <3>4
  <2>11. u.level[k] = l /\ \A c \in s.processed : u.level[c] = s.level[c]
    BY <2>4, <2>7, <2>9
  <2>12. ASSUME NEW c \in u.processed \ {k}
         PROVE  /\ ParentOf(jobs, c) \in u.processed
                /\ u.level[ParentOf(jobs, c)] = u.level[c] - 1
    <3>1. CASE c = last
      BY <2>4, <2>6, <2>9, <2>11, <3>1
    <3>2. CASE c # last
      <4>1. c \in s.processed \ {last}
        BY <2>9, <3>2
      <4>2. ParentOf(jobs, c) \in s.processed /\ s.level[ParentOf(jobs, c)] = s.level[c] - 1
        BY <2>3, <4>1 DEF ChainTo
      <4> QED BY <2>9, <2>11, <4>1, <4>2
    <3> QED BY <3>1, <3>2
  <2>13. ASSUME NEW w \in Range(u.todo)
         PROVE  w.job = ParentOf(jobs, k) /\ w.level = u.level[k] - 1
    <3>1. PICK p \in Range(from[k]) : w = [job |-> p, level |-> l + d]
      BY <2>9 DEF CallsAt
    <3>2. p = ParentOf(jobs, k)
      OBVIOUS
    <3>3. l + d = l - 1
      OBVIOUS
    <3> QED BY <2>11, <3>1, <3>2, <3>3
  <2>14. ChainTo(u, k)
    BY <2>9, <2>10, <2>12, <2>13 DEF ChainTo
  <2>15. current \in u.processed /\ u.level[current] = 0
    BY <2>9, <2>11 DEF UpLevels
  <2> QED BY <2>14, <2>15 DEF UpLevels, u
<1> QED BY <1>1, <1>2

LEMMA StartUp ==
  ASSUME NEW from \in [Jobs -> Seq(Jobs)], NEW d \in Int, d = -1,
         \A j \in Jobs : /\ Len(from[j]) <= 1
                         /\ \A p \in Range(from[j]) : p \in Jobs /\ ParentOf(jobs, j) = p,
         NEW current \in Jobs, NEW level \in [Jobs -> Int], level[current] = 0
  PROVE  UpLevels(Start(from, d, current, level), current)
<1>1. PICK s : s = Start(from, d, current, level)
  OBVIOUS
<1>2. IsStart(s, from, d, current, level)
  BY <1>1, StartFacts
<1>3. ASSUME NEW v \in Range(s.todo)
      PROVE  v.job = ParentOf(jobs, current) /\ v.level = s.level[current] - 1
  <2>1. PICK p \in Range(from[current]) : v = [job |-> p, level |-> d]
    BY <1>2 DEF IsStart, CallsAt
  <2>2. ParentOf(jobs, current) = p /\ s.level[current] = 0
    BY <1>2 DEF IsStart
  <2> QED BY <2>1, <2>2
<1>4. s.processed = {current} /\ Len(s.todo) <= 1
  BY <1>2 DEF IsStart
<1>5. ChainTo(s, current)
  BY <1>3, <1>4 DEF ChainTo
<1>6. current \in s.processed /\ s.level[current] = 0
  BY <1>2 DEF IsStart
<1> QED BY <1>1, <1>5, <1>6 DEF UpLevels

\* The levels both traversals set.
LEMMA LevelsInForest ==
  ASSUME IsFiniteSet(Jobs), TypeOK, IsForest, NEW listed \in SUBSET StoredJobs,
         NEW order \in SetToSeqs(Jobs), NEW current \in Jobs
  PROVE  /\ UpLevels(UpFrom(listed, current), current)
         /\ DownLevels(DownFrom(listed, order, current))
<1> DEFINE zero == [j \in Jobs |-> 0]
<1>1. zero \in [Jobs -> Int] /\ zero[current] = 0
  OBVIOUS
<1>2. PICK d \in Int, e \in Int : d = -1 /\ e = 1
  OBVIOUS
<1>3. PICK U \in [Jobs -> Seq(Jobs)] : U = Ups(listed)
  BY UpsFacts
<1>4. PICK D \in [Jobs -> Seq(Jobs)] : D = Downs(listed, order)
  BY DownsFacts
<1>5. \A j \in Jobs : /\ Len(U[j]) <= 1
                      /\ \A p \in Range(U[j]) : p \in Jobs /\ ParentOf(jobs, j) = p
  <2>1. \A j \in Jobs : Len(Ups(listed)[j]) <= 1
    BY UpsFacts
  <2>2. \A j \in Jobs : \A p \in Range(Ups(listed)[j]) : p \in Jobs /\ ParentOf(jobs, j) = p
    BY ForestLists
  <2> QED BY <1>3, <2>1, <2>2
<1>6. \A j \in Jobs : \A c \in Range(D[j]) : c \in Jobs /\ ParentOf(jobs, c) = j
  <2>1. \A j \in Jobs : \A c \in Range(Downs(listed, order)[j]) :
          c \in Jobs /\ ParentOf(jobs, c) = j
    BY ForestLists
  <2> QED BY <1>4, <2>1
<1>7. MaxVisits \in Nat
  BY NumbersOfJobs
<1> HIDE DEF zero
<1>8. UpLevels(Find(U, d, current, zero), current)
  <2> DEFINE Good == {s \in Walk : UpLevels(s, current)}
  <2>1. Start(U, d, current, zero) \in Good
    BY <1>1, <1>2, <1>5, StartUp, StartFacts
  <2>2. \A s \in Good : Visit(U, d, s) \in Good
    BY <1>2, <1>5, VisitUp, VisitFacts
  <2> HIDE DEF Good
  <2>3. Find(U, d, current, zero) \in Good
    BY <1>1, <1>7, <2>1, <2>2, FindInduction
  <2> QED BY <2>3 DEF Good
<1>9. UpLevels(UpFrom(listed, current), current)
  BY <1>2, <1>3, <1>8 DEF UpFrom, zero
<1>10. PICK level \in [Jobs -> Int] : level = UpFrom(listed, current).level
  <2>1. Traversed(UpFrom(listed, current), U, current, zero)
    BY <1>3, RelativesFacts DEF AreRelatives, zero
  <2> QED BY <2>1 DEF Traversed, Walk
<1>11. level[current] = 0
  BY <1>9, <1>10 DEF UpLevels
<1>12. DownLevels(Find(D, 1, current, level))
  <2> DEFINE Good == {s \in Walk : Traversed(s, D, current, level) /\ DownLevels(s)}
  <2>1. Start(D, 1, current, level) \in Good
    <3>1. DownLevels(Start(D, 1, current, level))
      BY <1>6, <1>11, StartDown
    <3>2. Traversed(Start(D, e, current, level), D, current, level)
      BY StartTraversed
    <3> QED BY <1>2, <3>1, <3>2 DEF Traversed
  <2>2. ASSUME NEW s \in Good PROVE Visit(D, 1, s) \in Good
    <3>1. DownLevels(Visit(D, 1, s))
      BY <1>6, VisitDown
    <3>2. Traversed(Visit(D, e, s), D, current, level)
      BY VisitTraverses
    <3> QED BY <1>2, <3>1, <3>2 DEF Traversed
  <2> HIDE DEF Good
  <2>3. Find(D, e, current, level) \in Good
    BY <1>2, <1>7, <2>1, <2>2, FindInduction
  <2> QED BY <1>2, <2>3 DEF Good
<1>13. DownLevels(DownFrom(listed, order, current))
  BY <1>4, <1>10, <1>12 DEF DownFrom
<1> QED BY <1>9, <1>13

\* No ancestor of a job is its descendant.
LEMMA NoLoopInForest ==
  ASSUME IsFiniteSet(Jobs), TypeOK, IsForest, NEW listed \in SUBSET StoredJobs,
         NEW order \in SetToSeqs(Jobs), NEW current \in listed
  PROVE  ({current} \cup Range(UpFrom(listed, current).found))
           \cap Range(DownFrom(listed, order, current).found) = {}
<1> DEFINE up == UpFrom(listed, current)
           down == DownFrom(listed, order, current)
           zero == [j \in Jobs |-> 0]
           above == {current} \cup Range(up.found)
           below == Range(down.found)
<1>1. listed \in SUBSET Jobs
  BY DEF StoredJobs
<1>2. /\ Traversed(up, Ups(listed), current, zero) /\ up.todo = <<>>
      /\ Traversed(down, Downs(listed, order), current, up.level) /\ down.todo = <<>>
  BY <1>1, RelativesFacts DEF AreRelatives
<1>3. DownLevels(down)
  BY <1>1, LevelsInForest
<1>4. \A j \in Jobs : Range(Ups(listed)[j]) =
        IF j \in listed THEN {jobs[j].parent} \cap listed ELSE {}
  BY UpsFacts
<1>5. \A j \in listed, p \in listed : jobs[j].parent = p => j \in Range(Downs(listed, order)[p])
  BY ForestLists
<1> HIDE DEF up, down, zero
<1>6. current \notin below
  BY <1>1, <1>2, <1>3, CurrentIsAbove
<1>7. Waiting(up) = {} /\ Waiting(down) = {}
  BY <1>2 DEF Waiting, Range
<1>8. above \in SUBSET Jobs /\ \A p \in above : Range(Ups(listed)[p]) \subseteq above
  BY <1>1, <1>2, <1>7 DEF Traversed, Walk
<1>9. \A p \in below : Range(Downs(listed, order)[p]) \subseteq below
  BY <1>2, <1>7 DEF Traversed
<1>10. IsClosedUnder(above \ below, Ups(listed), current)
  <2>1. current \in above \ below
    BY <1>6
  <2>2. ASSUME NEW j \in above \ below, NEW p \in Range(Ups(listed)[j])
        PROVE  p \in above \ below
    <3>1. j \in Jobs /\ j \in listed /\ p \in listed /\ jobs[j].parent = p
      BY <1>4, <1>8
    <3>2. p \in above
      BY <1>8
    <3>3. p \notin below
      BY <1>5, <1>9, <3>1
    <3> QED BY <3>2, <3>3
  <2> QED BY <2>1, <2>2 DEF IsClosedUnder
<1>11. Range(up.found) \subseteq above \ below
  <2>1. above \ below \in SUBSET Jobs
    BY <1>8
  <2> HIDE DEF above, below
  <2> QED BY <1>2, <1>10, <2>1 DEF Traversed
<1>12. above \cap below = {}
  BY <1>6, <1>11
<1> QED BY <1>12 DEF up, down

\* In a forest a parent that is drawn is one level above its child.
LEMMA ParentsAreAbove ==
  ASSUME IsFiniteSet(Jobs), TypeOK, IsForest, NEW listed \in SUBSET StoredJobs,
         NEW order \in SetToSeqs(Jobs), NEW current \in listed,
         NEW g, g = Relatives(listed, order, current),
         NEW c \in Range(g.related), NEW p \in Range(g.related), jobs[c].parent = p
  PROVE  g.level[c] = g.level[p] + 1
<1> DEFINE up == UpFrom(listed, current)
           down == DownFrom(listed, order, current)
           zero == [j \in Jobs |-> 0]
<1>1. current \in Jobs
  BY DEF StoredJobs
<1>2. /\ Range(g.related) = {current} \cup Range(up.found) \cup Range(down.found)
      /\ g.level = down.level
      /\ Traversed(up, Ups(listed), current, zero) /\ up.todo = <<>>
      /\ Traversed(down, Downs(listed, order), current, up.level)
  BY <1>1, RelativesFacts DEF AreRelatives
<1>3. DownLevels(down) /\ UpLevels(up, current)
  BY <1>1, LevelsInForest
<1>4. ({current} \cup Range(up.found)) \cap Range(down.found) = {}
  BY NoLoopInForest
<1>5. Range(g.related) \subseteq listed
  BY <1>1, RelativesAreFamily
<1>6. /\ jobs[c].parent = ParentOf(jobs, c) /\ c \in Jobs
      /\ Range(Ups(listed)[c]) = {p}
  <2>1. c \in listed /\ p \in listed /\ c \in Jobs
    BY <1>5 DEF StoredJobs
  <2>2. jobs[c].parent = ParentOf(jobs, c)
    BY <2>1, ForestLists
  <2>3. Range(Ups(listed)[c]) = {jobs[c].parent} \cap listed
    BY <2>1, UpsFacts
  <2> QED BY <2>1, <2>2, <2>3
<1> HIDE DEF up, down, zero
<1>7. CASE c \in Range(down.found)
  <2>1. down.level[c] = down.level[p] + 1
    BY <1>3, <1>6, <1>7 DEF DownLevels
  <2> QED BY <1>2, <2>1
<1>8. CASE c \notin Range(down.found)
  <2>1. up.processed = {current} \cup Range(up.found) /\ up.processed \in SUBSET Jobs
    BY <1>2 DEF Traversed, Walk
  <2>2. c \in up.processed
    BY <1>2, <1>8, <2>1
  <2>3. p \in Range(up.found) /\ p \in up.processed
    <3>1. Waiting(up) = {}
      BY <1>2 DEF Waiting, Range
    <3>2. Range(Ups(listed)[c]) \subseteq Range(up.found) \cup Waiting(up)
      BY <1>2, <2>2 DEF Traversed
    <3> QED BY <1>6, <2>1, <3>1, <3>2
  <2>4. p \notin Range(down.found) /\ p \in Jobs
    BY <1>4, <2>1, <2>3
  <2>5. down.level[p] = up.level[p] /\ down.level[c] = up.level[c]
    BY <1>2, <1>6, <1>8, <2>4 DEF Traversed
  <2>6. up \in Walk
    BY <1>2 DEF Traversed
  <2>7. PICK last \in Jobs : ChainTo(up, last)
    BY <1>3 DEF UpLevels
  <2>8. c # last
    <3>1. ParentOf(jobs, last) \notin up.processed
      BY <2>6, <2>7, LastIsTop
    <3> QED BY <1>6, <2>3, <3>1
  <2>9. up.level[p] = up.level[c] - 1
    BY <1>6, <2>2, <2>7, <2>8 DEF ChainTo
  <2>10. up.level[p] \in Int /\ up.level[c] \in Int
    BY <1>6, <2>4, <2>6 DEF Walk
  <2>11. up.level[c] = up.level[p] + 1
    BY <2>9, <2>10
  <2> QED BY <1>2, <2>5, <2>11
<1> QED BY <1>7, <1>8

\* When parents and lists agree and nobody is its own ancestor, every arrow leads one level
\* down, for every finite set of jobs and every answer (JobDependencyDiagram.tsx:210, 230, 324).
THEOREM ArrowsLeadDown ==
  ASSUME IsFiniteSet(Jobs)
  PROVE  Spec => []ArrowsPointDown
<1>1. ASSUME TypeOK, IsForest, NEW listed \in SUBSET StoredJobs, NEW order \in SetToSeqs(Jobs),
             NEW current \in Jobs, NEW e \in Diagram(listed, order, current).edges
      PROVE  e.toAt.y = e.fromAt.y + LevelHeight
  <2>1. PICK g : g = Relatives(listed, order, current)
    OBVIOUS
  <2>2. PICK c \in Range(g.related) \cap listed :
          jobs[c].parent \in Range(g.related) /\ e = EdgeFor(g, c)
    BY <2>1, EdgeFacts
  <2>3. PICK p \in Range(g.related) : p = jobs[c].parent
    BY <2>2
  <2>4. current \in listed
    <3>1. current \notin listed => Range(g.related) = {current}
      BY <1>1, <2>1, RelativesAreFamily
    <3> QED BY <3>1
  <2>5. g.level[c] = g.level[p] + 1
    BY <1>1, <2>1, <2>3, <2>4, ParentsAreAbove
  <2>6. IsDrawn(g)
    BY <1>1, <2>1, RelativesFacts DEF AreRelatives, IsDrawn
  <2>7. PICK l \in Int, m \in Int, b \in Int :
          l = g.level[c] /\ m = g.level[p] /\ b = Min(LevelsOf(g))
    BY <2>6, LevelFacts
  <2>8. Position(g, c).y = (l - b) * 100 + 30 /\ Position(g, p).y = (m - b) * 100 + 30
    BY <2>6, <2>7, PlaceFacts
  <2>9. Position(g, c).y = Position(g, p).y + 100
    BY <2>5, <2>7, <2>8
  <2>10. e.toAt = Position(g, c) /\ e.fromAt = Position(g, p)
    BY <2>2, <2>3 DEF EdgeFor
  <2> QED BY <2>9, <2>10 DEF LevelHeight
<1>2. TypeOK => ArrowsPointDown
  BY <1>1 DEF ArrowsPointDown, ForEveryDiagram
<1> QED BY <1>2, TypeCorrect, PTL
=============================================================================
