---------------------------- MODULE DkronDiagram ----------------------------
(***************************************************************************)
(* The dependency diagram of the web UI (JobDependencyDiagram.tsx): what   *)
(* it draws of the jobs one server stores.  The diagram is computed from   *)
(* the answer to one list request, so everything here is an operator of    *)
(*   listed  the jobs in the answer: the list ends after 1000 jobs,        *)
(*   order   the order in which lists of dependents name the jobs,         *)
(*   current the job whose page is open.                                   *)
(* A list that names a job twice names it twice in a row.                  *)
(*                                                                         *)
(* The two traversals are recursive functions of the source with the same  *)
(* skeleton; here both are Find, which keeps the calls still to be made on *)
(* a stack (todo), so that jobs are found in the same order.               *)
(***************************************************************************)
EXTENDS DkronStore, Integers, SequencesExt

NodeWidth == 160
NodeHeight == 60
LevelHeight == 100
NodeSpacing == 20

-----------------------------------------------------------------------------
(* Which jobs are related to the current one, and on which level *)

\* The parent of a listed job, when it is listed too.
ParentsListed(listed, j) ==
  IF j \in listed /\ jobs[j].parent \in listed THEN <<jobs[j].parent>> ELSE <<>>

\* Wrong: the children are those that name j as their parent.
WrongDependentsListed(listed, order, j) ==
  SelectSeq(order, LAMBDA c : c \in listed /\ jobs[c].parent = j)

\* The listed jobs that the list of dependents of j names.
DependentsListed(listed, order, j) ==
  LET named(c) == [i \in 1..(IF c \in listed THEN jobs[j].dependents[c] ELSE 0) |-> c]
  IN IF j \in listed
       THEN FlattenSeq([i \in DOMAIN order |-> named(order[i])])
       ELSE <<>>

AtLevel(js, level) == [i \in DOMAIN js |-> [job |-> js[i], level |-> level]]

\* Wrong: all relatives of relatives are put one level away.
WrongVisit(from, d, s) ==
  LET v == Head(s.todo)
      more == IF v.job \in s.processed THEN <<>> ELSE AtLevel(from[v.job], d)
  IN IF s.todo = <<>> THEN s
     ELSE [todo      |-> more \o Tail(s.todo),
           processed |-> s.processed \cup {v.job},
           found     |-> Append(s.found, v.job),
           level     |-> [s.level EXCEPT ![v.job] = v.level]]

\* One relative: it is noted, put on its level (again, if it had one), and
\* its own relatives come next, unless they have been looked at already.
Visit(from, d, s) ==
  LET v == Head(s.todo)
      more == IF v.job \in s.processed THEN <<>>
              ELSE AtLevel(from[v.job], v.level + d)
  IN IF s.todo = <<>> THEN s
     ELSE [todo      |-> more \o Tail(s.todo),
           processed |-> s.processed \cup {v.job},
           found     |-> Append(s.found, v.job),
           level     |-> [s.level EXCEPT ![v.job] = v.level]]

\* No traversal makes more calls: the lists of each job are followed once.
MaxVisits == Cardinality(Jobs) * (Cardinality(Jobs) * MaxOccurrences + 1)

\* findAncestors (d = -1) and findDescendants (d = 1) from the current job.
Find(from, d, current, level) ==
  LET start == [todo |-> AtLevel(from[current], d), processed |-> {current},
                found |-> <<>>, level |-> level]
      after[n \in 0..MaxVisits] ==
        IF n = 0 THEN start ELSE Visit(from, d, after[n - 1])
  IN after[MaxVisits]

\* A set of the members of s, which keeps the order in which they came.
InOrder(s) ==
  LET kept[n \in 0..Len(s)] ==
        IF n = 0 THEN <<>>
        ELSE IF s[n] \in Range(kept[n - 1]) THEN kept[n - 1]
        ELSE Append(kept[n - 1], s[n])
  IN kept[Len(s)]

\* The related jobs in the order found, each once, and their levels; a level
\* the descendants set replaces one the ancestors set.
Relatives(listed, order, current) ==
  LET up == Find([j \in Jobs |-> ParentsListed(listed, j)], -1, current, [j \in Jobs |-> 0])
      down == Find([j \in Jobs |-> DependentsListed(listed, order, j)], 1, current, up.level)
  IN [related |-> InOrder(<<current>> \o up.found \o down.found), level |-> down.level]

-----------------------------------------------------------------------------
(* Where they are drawn *)

\* The places, in the order found, of the jobs on a level.
Row(g, level) == {i \in DOMAIN g.related : g.level[g.related[i]] = level}

\* How many nodes of its row are to the left of a job.
Index(g, j) ==
  LET row == Row(g, g.level[j])
  IN Cardinality({i \in row : \E k \in row : i < k /\ g.related[k] = j})

RowWidth(n) == n * (NodeWidth + NodeSpacing) - NodeSpacing

LevelsOf(g) == {g.level[j] : j \in Range(g.related)}

MaxWidth(g) == Max({RowWidth(Cardinality(Row(g, l))) : l \in LevelsOf(g)})

\* Where the row of a job begins: rows are centred.
Left(g, j) == (MaxWidth(g) - RowWidth(Cardinality(Row(g, g.level[j])))) \div 2

\* Wrong: nodes and rows are put next to each other without a space.
WrongPosition(g, j) ==
  [x |-> Left(g, j) + Index(g, j) * NodeWidth,
   y |-> (g.level[j] - Min(LevelsOf(g))) * NodeHeight + 30]

\* The highest level is at the top.
Position(g, j) ==
  [x |-> Left(g, j) + Index(g, j) * (NodeWidth + NodeSpacing),
   y |-> (g.level[j] - Min(LevelsOf(g))) * LevelHeight + 30]

\* A node is drawn for every related job that is listed.
Nodes(g, listed, current) ==
  {[id |-> j, at |-> Position(g, j), isCurrent |-> j = current] :
     j \in Range(g.related) \cap listed}

\* Wrong: an arrow for every job with a parent, from the first node drawn.
WrongEdges(g, listed) ==
  {[from |-> jobs[j].parent, to |-> j, fromAt |-> Position(g, g.related[1]),
    toAt |-> Position(g, j)] :
     j \in {k \in Range(g.related) \cap listed : jobs[k].parent # NoParent}}

\* An arrow for every related job whose parent is related.
Edges(g, listed) ==
  {[from |-> jobs[j].parent, to |-> j, fromAt |-> Position(g, jobs[j].parent),
    toAt |-> Position(g, j)] :
     j \in {k \in Range(g.related) \cap listed : jobs[k].parent \in Range(g.related)}}

\* The ends of an arrow: from the middle of the parent's lower side to the
\* middle of the child's upper side.
Arrow(e) == [start |-> [x |-> e.fromAt.x + NodeWidth \div 2, y |-> e.fromAt.y + NodeHeight],
             end   |-> [x |-> e.toAt.x + NodeWidth \div 2, y |-> e.toAt.y]]

\* What the card of a loaded diagram holds: a text or a drawing of a size.
Diagram(listed, order, current) ==
  LET g == Relatives(listed, order, current)
      nodes == Nodes(g, listed, current)
  IN IF Cardinality(nodes) <= 1
       THEN [nodes |-> nodes, edges |-> {}, width |-> 0, height |-> 0]
       ELSE [nodes |-> nodes, edges |-> Edges(g, listed),
             width  |-> Max({n.at.x + NodeWidth : n \in nodes} \cup {300}) + 80,
             height |-> Max({n.at.y + NodeHeight + 30 : n \in nodes} \cup {150}) + 40]

\* How far a node reaches: the current one has a line of text below it.
Below(n) == n.at.y + NodeHeight + (IF n.isCurrent THEN 18 ELSE 0)

-----------------------------------------------------------------------------
(* Properties *)

StoredJobs == {j \in Jobs : Stored(j)}

ForEveryDiagram(P(_, _, _)) ==
  \A listed \in SUBSET StoredJobs, order \in SetToSeqs(Jobs), current \in Jobs :
    P(listed, order, current)

\* By definition: the jobs that belong to every set which current belongs to
\* and with each job all those that are next to it.
Reached(next, current) ==
  LET IsClosed(S) == current \in S /\ \A j \in S : next[j] \subseteq S
  IN {j \in DOMAIN next : \A S \in SUBSET DOMAIN next : IsClosed(S) => j \in S}

\* The jobs to be drawn: those that are reached from the current one from
\* parent to parent, or list to list, within the answer.
Family(listed, current) ==
  LET parents == [j \in listed |-> {jobs[j].parent} \cap listed]
      dependents == [j \in listed |-> {c \in listed : jobs[j].dependents[c] > 0}]
  IN IF current \in listed
       THEN Reached(parents, current) \cup Reached(dependents, current)
       ELSE {}

\* Whatever parents and lists are stored, loops and lists that disagree with
\* the parents included, the traversals end and draw exactly the family.
DiagramShowsFamily ==
  ForEveryDiagram(LAMBDA listed, order, current :
    {n.id : n \in Diagram(listed, order, current).nodes} = Family(listed, current))

\* No two nodes cover each other, and everything is drawn inside the canvas,
\* loops that move a job to another level included.
DrawingIsReadable ==
  ForEveryDiagram(LAMBDA listed, order, current :
    LET D == Diagram(listed, order, current) IN
      Cardinality(D.nodes) > 1 =>
        /\ \A m, n \in D.nodes : m # n =>
             \/ m.at.x + NodeWidth < n.at.x \/ n.at.x + NodeWidth < m.at.x
             \/ Below(m) < n.at.y           \/ Below(n) < m.at.y
        /\ \A n \in D.nodes : /\ n.at.x >= 0 /\ n.at.x + NodeWidth + 40 <= D.width
                              /\ n.at.y >= 0 /\ Below(n) <= D.height)

\* JobDependencyDiagram.tsx:486: an arrow leads from a drawn parent to a drawn
\* child that names it, and ends at the two nodes themselves.
ArrowsJoinParentAndChild ==
  ForEveryDiagram(LAMBDA listed, order, current :
    LET D == Diagram(listed, order, current) IN
      \A e \in D.edges : \E m, n \in D.nodes :
        /\ m.id = e.from /\ n.id = e.to /\ jobs[n.id].parent = m.id
        /\ Arrow(e).start = [x |-> m.at.x + 80, y |-> m.at.y + NodeHeight]
        /\ Arrow(e).end = [x |-> n.at.x + 80, y |-> n.at.y])

\* Parents and lists agree, and nobody is its own ancestor: whichever jobs
\* are taken, the parent of one of them is not.
IsForest ==
  /\ \A p, c \in StoredJobs : jobs[p].dependents[c] > 0 <=> jobs[c].parent = p
  /\ \A taken \in SUBSET Jobs : taken # {} => \E j \in taken : ParentOf(jobs, j) \notin taken

\* In a forest every arrow goes one level down: execution runs downwards.
ArrowsPointDown ==
  IsForest => ForEveryDiagram(LAMBDA listed, order, current :
    \A e \in Diagram(listed, order, current).edges :
      e.toAt.y = e.fromAt.y + LevelHeight)

=============================================================================
