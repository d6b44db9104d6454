------------------------ MODULE DkronExecutionProofs ------------------------
(***************************************************************************)
(* What is proved of DkronExecution for every set of servers and nodes and *)
(* for all retries, redials and bounds: under all faults, that results are *)
(* real, that a stream that is followed is seen by isRunnable, and that    *)
(* dependents run only after a success; as long as no server crashes,      *)
(* loses the leadership or a connection, that each attempt is made and     *)
(* counted once, that a run is seen until it is over, and that dependents  *)
(* run once for each result that ends a run.                               *)
(***************************************************************************)
EXTENDS DkronExecution, FiniteSetTheorems, TLAPS

-----------------------------------------------------------------------------
(* The inductive invariant *)

Used(k) == runs[k].state # "unused"

\* The call that holds execution k: until it has reported k, it follows it.
Holds(c, k) == calls[c].key = k /\ calls[c].phase \in {"started", "open", "reporting"}
Follows(c, k) == calls[c].key = k /\ calls[c].phase \in {"started", "open"}

\* Keys are handed out in order, and an execution is held by one call.
KeysInOrder == \A k \in Keys : Used(k) => \A m \in 1..k : Used(m)

HeldByOne == \A c, d \in Calls : \A k \in Keys : Holds(c, k) /\ Holds(d, k) => c = d

CallsHold ==
  \A c \in Calls :
    /\ calls[c].phase \in {"started", "open", "reporting"} =>
         calls[c].key \in Keys /\ Used(calls[c].key)
    /\ calls[c].phase = "dialing" => calls[c].key = None

\* Nothing is stored or reported of an execution that has not started, or whose
\* first update has not arrived.
NothingBefore ==
  /\ \A k \in Keys : ~Used(k) => stored[k] = None /\ \A r \in requests : r.key # k
  /\ \A c \in Calls : calls[c].phase = "started" =>
       /\ stored[calls[c].key] = None
       /\ runs[calls[c].key].stream
       /\ \A r \in requests : r.key # calls[c].key

\* How often an execution can still be finished: by its node, by the call that
\* follows it, and by the clean-up.
One(P) == IF P THEN 1 ELSE 0
MayFinish(k) == runs[k].state = "running"
MayBreak(k) == \E c \in Calls : Follows(c, k)
MayClean(k) == stored[k] = None \/ stored[k].finished = 0

FinishesLeft ==
  \A k \in Keys :
    /\ runs[k].last + One(MayFinish(k)) + One(MayBreak(k)) + One(MayClean(k)) <= 4
    /\ runs[k].state \in {"succeeded", "failed"} => runs[k].last >= 2

\* A retry is of an attempt that was not the last one.
RetriesLeft ==
  /\ \A c \in RetryCalls : calls[c].phase # "unused" =>
       Used(c[1]) /\ runs[c[1]].attempt < Retries + 1
  /\ \A r \in requests :
       /\ r.caller # None => calls[r.caller].phase # "unused"
       /\ r.stage \in {"backoff", "retrying"} => runs[r.key].attempt < Retries + 1

Protocol == /\ TypeOK /\ KeysInOrder /\ HeldByOne /\ CallsHold
            /\ NothingBefore /\ FinishesLeft /\ RetriesLeft

\* The success of an execution is on its way to the leader or will be.
OnItsWay(k) == \E r \in requests : r.key = k /\ r.success /\ r.stage = "sent"
WillReport(k) == runs[k].stream /\ MayBreak(k)

\* A success that no ExecutionDone can add to the counter any more.
Settled(k) == runs[k].state = "succeeded" /\ ~OnItsWay(k) /\ ~WillReport(k)

SuccessesAreReal ==
  /\ \A r \in requests : r.success => runs[r.key].state = "succeeded"
  /\ \A k \in Keys : stored[k] # None /\ stored[k].success => runs[k].state = "succeeded"

SentOnce ==
  /\ \A k \in Keys : ~(OnItsWay(k) /\ WillReport(k))
  /\ \A r, q \in requests : r.success /\ q.success /\ r.stage = "sent" /\ q.stage = "sent"
                              /\ r.key = q.key => r = q

Counted ==
  /\ counts.success <= Cardinality({k \in Keys : Settled(k)})
  /\ counts.success + counts.error >= Cardinality({k \in Keys : Recorded(k)})

Inv == Protocol /\ SuccessesAreReal /\ SentOnce /\ Counted

-----------------------------------------------------------------------------
(* Facts the steps share *)

LEMMA ConstantFacts ==
  /\ Retries \in Nat /\ MaxDispatches \in Nat /\ MaxGroups \in Nat
  /\ MaxKeys \in Nat /\ MaxFaults \in Nat
  /\ None \notin Servers /\ None \notin Keys /\ None \notin Groups /\ None \notin Nodes
  /\ None \notin Calls /\ None \notin Record
  /\ Keys \subseteq Nat /\ Groups \subseteq Nat
  /\ FirstCalls \cap RetryCalls = {}
BY ExecutionAssumption, NamesAssumption DEF Keys, Groups, Calls, FirstCalls, RetryCalls, Finishes

\* A call that dials again has let go of its execution; otherwise it has ended.
LEMMA RedialFacts ==
  ASSUME NEW call \in Call
  PROVE  /\ Redial(call) \in Call
         /\ Redial(call).phase \in {"dialing", "ended"}
         /\ Redial(call).phase = "dialing" => Redial(call).key = None
<1>1. CASE call.tries < MaxDispatches
  <2>1. call.tries + 1 \in 0..MaxDispatches
    BY <1>1, ConstantFacts DEF Call
  <2> QED BY <1>1, <2>1 DEF Redial, Call
<1>2. CASE ~(call.tries < MaxDispatches)
  BY <1>2 DEF Redial, Call
<1> QED BY <1>1, <1>2

\* Calls that do not change, or let go of their executions.
LetGo ==
  /\ calls' \in [Calls -> Call]
  /\ \A c \in Calls :
       \/ calls'[c] = calls[c]
       \/ /\ calls[c].phase # "unused"
          /\ calls'[c].phase \in {"dialing", "ended"}
          /\ calls'[c].phase = "dialing" => calls'[c].key = None

LEMMA ReturnedFacts ==
  ASSUME TypeOK, NEW c \in Calls \cup {None}, calls' = Returned(c),
         c # None => calls[c].phase # "unused"
  PROVE  LetGo
<1>1. CASE c = None
  BY <1>1 DEF Returned, LetGo, TypeOK
<1>2. CASE c # None
  <2> DEFINE e == [calls[c] EXCEPT !.phase = "ended"]
  <2>1. c \in Calls /\ calls' = [calls EXCEPT ![c] = e]
    BY <1>2 DEF Returned
  <2>2. e \in Call /\ e.phase = "ended"
    BY <2>1 DEF TypeOK, Call
  <2> HIDE DEF e
  <2> QED BY <1>2, <2>1, <2>2 DEF LetGo, TypeOK
<1> QED BY <1>1, <1>2

LEMMA RedialLetsGo ==
  ASSUME TypeOK, NEW c \in Calls, calls[c].phase # "unused",
         calls' = [calls EXCEPT ![c] = Redial(@)]
  PROVE  LetGo
BY RedialFacts DEF LetGo, TypeOK

\* Executions only end without a result, or lose their stream.
RunsFade ==
  \A k \in Keys :
    /\ runs'[k] = [runs[k] EXCEPT !.state = runs'[k].state, !.stream = runs'[k].stream]
    /\ runs'[k].state = runs[k].state \/ (runs[k].state = "running" /\ runs'[k].state = "lost")
    /\ runs'[k].stream => runs[k].stream

\* What is stored anew is the result of a request, or the start of an execution
\* whose call does not know of it.
ResultsStored ==
  \A k \in Keys :
    \/ stored'[k] = stored[k]
    \/ stored'[k] # None /\ stored'[k].finished # 0 /\ \E r \in requests : r.key = k
    \/ /\ stored[k] = None /\ Used(k)
       /\ \A c \in Calls : calls'[c].phase = "started" => calls'[c].key # k

\* Requests move on; those that wait for a retry are of attempts before the last.
RequestsMove ==
  \A q \in requests' :
    \E r \in requests :
      /\ q.key = r.key /\ q.caller \in {r.caller, None}
      /\ q.stage \in {"backoff", "retrying"} => runs[q.key].attempt < Retries + 1

\* A step that starts, finishes and reports nothing keeps the protocol.
LEMMA Subsiding ==
  ASSUME Protocol, TypeOK', LetGo, RunsFade, ResultsStored, RequestsMove,
         \A c \in Calls : calls'[c].phase = "started" => runs'[calls'[c].key].stream
  PROVE  Protocol'
<1> USE DEF Protocol
<1>1. /\ \A k \in Keys : Used(k)' <=> Used(k)
      /\ \A k \in Keys : runs'[k].attempt = runs[k].attempt /\ runs'[k].last = runs[k].last
      /\ \A k \in Keys : runs'[k].state \in {"running", "succeeded", "failed"}
                           => runs'[k].state = runs[k].state
  <2> SUFFICES ASSUME NEW k \in Keys
               PROVE  /\ Used(k)' <=> Used(k)
                      /\ runs'[k].attempt = runs[k].attempt /\ runs'[k].last = runs[k].last
                      /\ runs'[k].state \in {"running", "succeeded", "failed"}
                           => runs'[k].state = runs[k].state
    OBVIOUS
  <2>1. runs[k] \in Run
    BY DEF TypeOK
  <2>2. runs'[k].state = runs[k].state \/ (runs[k].state = "running" /\ runs'[k].state = "lost")
    BY DEF RunsFade
  <2>3. runs'[k] = [runs[k] EXCEPT !.state = runs'[k].state, !.stream = runs'[k].stream]
    BY DEF RunsFade
  <2>4. runs'[k].attempt = runs[k].attempt /\ runs'[k].last = runs[k].last
    BY <2>1, <2>3 DEF Run
  <2> QED BY <2>2, <2>4 DEF Used
<1>2. \A c \in Calls, k \in Keys : /\ Holds(c, k)' => Holds(c, k)
                                   /\ Follows(c, k)' => Follows(c, k)
  BY DEF LetGo, Holds, Follows
<1>3. KeysInOrder'
  <2>1. \A k \in Keys : \A m \in 1..k : m \in Keys
    BY ConstantFacts DEF Keys
  <2> QED BY <1>1, <2>1 DEF KeysInOrder
<1>4. HeldByOne'
  BY <1>2 DEF HeldByOne
<1>5. CallsHold'
  BY <1>1 DEF CallsHold, LetGo
<1>6. NothingBefore'
  <2>1. ASSUME NEW k \in Keys, stored'[k] # stored[k]
        PROVE  /\ Used(k)
               /\ \/ \E r \in requests : r.key = k
                  \/ \A c \in Calls : calls'[c].phase = "started" => calls'[c].key # k
    BY <2>1 DEF ResultsStored, NothingBefore
  <2>2. ASSUME NEW k \in Keys, NEW q \in requests', q.key = k
        PROVE  \E r \in requests : r.key = k
    BY <2>2 DEF RequestsMove
  <2>3. ASSUME NEW c \in Calls, calls'[c].phase = "started"
        PROVE  calls'[c] = calls[c] /\ calls[c].key \in Keys
    BY <2>3 DEF LetGo, CallsHold
  <2> QED BY <1>1, <2>1, <2>2, <2>3 DEF NothingBefore
<1>7. FinishesLeft'
  <2> SUFFICES ASSUME NEW k \in Keys
               PROVE  /\ runs'[k].last + One(MayFinish(k))' + One(MayBreak(k))'
                           + One(MayClean(k))' <= 4
                      /\ runs'[k].state \in {"succeeded", "failed"} => runs'[k].last >= 2
    BY DEF FinishesLeft
  <2>1. /\ MayFinish(k)' => MayFinish(k)
        /\ MayBreak(k)' => MayBreak(k)
        /\ MayClean(k)' => MayClean(k)
    BY <1>1, <1>2 DEF MayFinish, MayBreak, MayClean, ResultsStored
  <2>2. runs[k].last \in Nat
    BY DEF TypeOK, Run
  <2>3. /\ runs'[k].last = runs[k].last
        /\ runs'[k].state \in {"succeeded", "failed"} => runs[k].state = runs'[k].state
    BY <1>1
  <2>4. /\ runs[k].last + One(MayFinish(k)) + One(MayBreak(k)) + One(MayClean(k)) <= 4
        /\ runs[k].state \in {"succeeded", "failed"} => runs[k].last >= 2
    BY DEF FinishesLeft
  <2> QED BY <2>1, <2>2, <2>3, <2>4 DEF One
<1>8. RetriesLeft'
  <2>1. \A c \in RetryCalls : c \in Calls /\ c[1] \in Keys
    BY DEF RetryCalls, Calls
  <2>2. \A c \in Calls : calls'[c].phase # "unused" <=> calls[c].phase # "unused"
    BY DEF LetGo
  <2>3. \A r \in requests' : r.key \in Keys /\ r.caller \in Calls \cup {None}
    BY DEF TypeOK, Request
  <2>4. ASSUME NEW q \in requests', q.caller # None
        PROVE  calls[q.caller].phase # "unused"
    BY <2>4 DEF RequestsMove, RetriesLeft
  <2>5. ASSUME NEW q \in requests', q.stage \in {"backoff", "retrying"}
        PROVE  runs[q.key].attempt < Retries + 1
    BY <2>5 DEF RequestsMove
  <2> QED BY <1>1, <2>1, <2>2, <2>3, <2>4, <2>5 DEF RetriesLeft
<1> QED BY <1>3, <1>4, <1>5, <1>6, <1>7, <1>8

\* A set of keys that were handed out in order is an initial segment.
LEMMA InitialSegment ==
  ASSUME NEW n \in Nat, NEW U \in SUBSET (1..n), \A u \in U : 1..u \subseteq U
  PROVE  Cardinality(U) \in Nat /\ U = 1..Cardinality(U)
<1> DEFINE m == Cardinality(U)
<1>1. IsFiniteSet(1..n)
  BY FS_Interval
<1>2. IsFiniteSet(U) /\ m \in Nat
  BY <1>1, FS_Subset, FS_CardinalityType
<1>3. IsFiniteSet(1..m) /\ Cardinality(1..m) = m
  BY <1>2, FS_Interval
<1>4. ASSUME NEW u \in U PROVE u <= m
  <2>1. u \in Nat /\ 1..u \in SUBSET U
    OBVIOUS
  <2>2. Cardinality(1..u) <= m
    BY <1>2, <2>1, FS_Subset
  <2>3. Cardinality(1..u) = u
    BY <2>1, FS_Interval
  <2> QED BY <2>2, <2>3
<1>5. U \in SUBSET (1..m)
  BY <1>2, <1>4
<1> QED BY <1>2, <1>3, <1>5, FS_Subset

\* The rest of the state does not matter to the protocol.
LEMMA Aside ==
  ASSUME Protocol, TypeOK', UNCHANGED <<calls, runs, requests, stored>>
  PROVE  Protocol'
<1>1. LetGo /\ RunsFade /\ ResultsStored
  BY DEF LetGo, RunsFade, ResultsStored, Protocol, TypeOK, Run
<1>2. RequestsMove
  BY DEF RequestsMove, Protocol, RetriesLeft
<1>3. \A c \in Calls : calls'[c].phase = "started" => runs'[calls'[c].key].stream
  BY DEF Protocol, NothingBefore
<1> QED BY <1>1, <1>2, <1>3, Subsiding

LEMMA StepDialFails ==
  ASSUME Protocol, NEW c \in Calls, DialFails(c)
  PROVE  Protocol'
<1> USE DEF Protocol, DialFails, storeVars
<1>1. LetGo
  BY RedialLetsGo
<1>2. TypeOK'
  BY <1>1, ConstantFacts DEF TypeOK, Fault, LetGo
<1>3. RunsFade /\ ResultsStored /\ RequestsMove
  BY DEF RunsFade, ResultsStored, RequestsMove, TypeOK, Run, RetriesLeft
<1>4. \A d \in Calls : calls'[d].phase = "started" => runs'[calls'[d].key].stream
  BY <1>1 DEF LetGo, NothingBefore
<1> QED BY <1>1, <1>2, <1>3, <1>4, Subsiding

\* The key an execution starts under is the first that is free.
LEMMA NextKey ==
  ASSUME Protocol, NEW U, U = {m \in Keys : runs[m].state # "unused"},
         NEW k, k = Cardinality(U) + 1, k \in Keys
  PROVE  ~Used(k) /\ \A m \in 1..(k - 1) : Used(m)
<1>1. U \in SUBSET (1..MaxKeys) /\ \A u \in U : 1..u \subseteq U
  <2>1. \A u \in U : u \in Nat /\ 1..u \subseteq U
    BY ConstantFacts DEF Protocol, KeysInOrder, Used, Keys
  <2> QED BY <2>1 DEF Keys
<1>2. Cardinality(U) \in Nat /\ U = 1..Cardinality(U)
  BY <1>1, ConstantFacts, InitialSegment
<1>3. \A m : m \in U <=> m \in Keys /\ Used(m)
  BY DEF Used
<1> QED BY ONLY <1>2, <1>3, k = Cardinality(U) + 1, k \in Keys

LEMMA StepStart ==
  ASSUME Protocol, NEW c \in Calls, Start(c)
  PROVE  Protocol'
<1> DEFINE U == {m \in Keys : runs[m].state # "unused"}
           k == Cardinality(U) + 1
<1>1. k \in Keys /\ ~Used(k) /\ \A m \in 1..(k - 1) : Used(m)
  <2>1. k \in Keys
    BY DEF Start
  <2> QED BY <2>1, NextKey
<1>2. /\ calls[c].phase = "dialing" /\ calls[c] \in Call
      /\ calls' = [calls EXCEPT ![c].phase = "started", ![c].key = k]
  BY DEF Start, Protocol, TypeOK
<1> DEFINE run == runs'[k]
<1>3. /\ runs' = [runs EXCEPT ![k] = run]
      /\ run \in Run /\ run.state = "running" /\ run.last = 1 /\ run.stream
  <2>1. CASE c \in FirstCalls
    <3>1. c[1] \in Groups /\ c[2] \in Nodes
      BY <2>1 DEF FirstCalls
    <3> QED BY <1>1, <2>1, <3>1, ConstantFacts DEF Start, Run, Protocol, TypeOK
  <2>2. CASE c \notin FirstCalls
    <3>1. c \in RetryCalls /\ c[1] \in Keys
      BY <2>2 DEF Calls, RetryCalls
    <3>2. runs[c[1]] \in Run /\ runs[c[1]].attempt < Retries + 1
      BY <1>2, <3>1 DEF Protocol, TypeOK, RetriesLeft
    <3>3. runs[c[1]].attempt + 1 \in 0..(Retries + 1)
      BY <3>2, ConstantFacts DEF Run
    <3>4. runs' = [runs EXCEPT ![k] = [state |-> "running", group |-> runs[c[1]].group,
                     node |-> runs[c[1]].node, attempt |-> runs[c[1]].attempt + 1,
                     stream |-> TRUE, last |-> 1]]
      BY <2>2 DEF Start
    <3> QED BY <1>1, <3>2, <3>3, <3>4 DEF Run, Protocol, TypeOK
  <2> QED BY <2>1, <2>2
<1> HIDE DEF k, U, run
<1>4. UNCHANGED <<leader, up, checked, groups, requests, storeVars, chained, old, faults>>
  BY DEF Start
<1> USE <1>1, <1>2, <1>3, <1>4 DEF Protocol, storeVars
<1>5. TypeOK'
  BY DEF TypeOK, Call
<1>6. KeysInOrder'
  BY ConstantFacts DEF KeysInOrder, Used, TypeOK, Keys
<1>7. HeldByOne'
  <2>1. \A d \in Calls \ {c} : calls'[d] = calls[d]
    BY DEF TypeOK
  <2>2. \A d \in Calls : ~Holds(d, k)
    BY DEF Holds, CallsHold
  <2>3. \A m \in Keys : Holds(c, m)' => m = k
    BY DEF Holds, TypeOK, Call
  <2>4. \A d \in Calls \ {c}, m \in Keys : Holds(d, m)' => Holds(d, m)
    BY <2>1 DEF Holds
  <2> QED BY <2>2, <2>3, <2>4 DEF HeldByOne
<1>8. CallsHold'
  BY DEF CallsHold, Used, TypeOK, Call
<1>9. NothingBefore'
  BY DEF NothingBefore, Used, TypeOK, Call
<1>10. FinishesLeft'
  <2>1. ASSUME NEW m \in Keys
        PROVE  /\ runs'[m].last + One(MayFinish(m))' + One(MayBreak(m))' + One(MayClean(m))' <= 4
               /\ runs'[m].state \in {"succeeded", "failed"} => runs'[m].last >= 2
    <3>1. CASE m = k
      <4>1. runs'[m].last = 1 /\ runs'[m].state = "running"
        BY <3>1 DEF TypeOK
      <4> QED BY <4>1 DEF One
    <3>2. CASE m # k
      <4>1. runs'[m] = runs[m] /\ (MayFinish(m)' <=> MayFinish(m)) /\ (MayClean(m)' <=> MayClean(m))
        BY <3>2 DEF TypeOK, MayFinish, MayClean
      <4>2. \A d \in Calls : Follows(d, m)' <=> (Follows(d, m) /\ d # c)
        BY <3>2 DEF Follows, TypeOK, Call
      <4>3. MayBreak(m)' => MayBreak(m)
        BY <4>2 DEF MayBreak
      <4>4. runs[m].last \in Nat
        BY DEF TypeOK, Run
      <4>5. /\ runs[m].last + One(MayFinish(m)) + One(MayBreak(m)) + One(MayClean(m)) <= 4
            /\ runs[m].state \in {"succeeded", "failed"} => runs[m].last >= 2
        BY DEF FinishesLeft
      <4> QED BY ONLY <4>1, <4>3, <4>4, <4>5 DEF One
    <3> QED BY <3>1, <3>2
  <2> QED BY <2>1 DEF FinishesLeft
<1>11. RetriesLeft'
  <2>1. \A d \in Calls : calls'[d].phase # "unused" => calls[d].phase # "unused"
    BY DEF TypeOK, Call
  <2>2. \A d \in Calls : calls[d].phase # "unused" => calls'[d].phase # "unused"
    BY DEF TypeOK, Call
  <2>3. \A m \in Keys : Used(m) => runs'[m] = runs[m]
    BY DEF TypeOK
  <2>4. \A d \in RetryCalls : d \in Calls /\ d[1] \in Keys
    BY DEF RetryCalls, Calls
  <2>5. \A r \in requests : r.key \in Keys /\ Used(r.key) /\ r.caller \in Calls \cup {None}
    BY DEF TypeOK, Request, NothingBefore
  <2> QED BY <2>1, <2>2, <2>3, <2>4, <2>5 DEF RetriesLeft, Used
<1> QED BY <1>5, <1>6, <1>7, <1>8, <1>9, <1>10, <1>11

LEMMA StepAside ==
  ASSUME Protocol,
         \/ LoseLeadership
         \/ \E s \in Servers : Restart(s)
         \/ \E k \in Keys : Age(k)
  PROVE  Protocol'
<1> USE DEF Protocol, TypeOK, storeVars
<1>1. CASE LoseLeadership
  <2>1. TypeOK'
    BY <1>1, ConstantFacts DEF LoseLeadership, Fault
  <2> QED BY <1>1, <2>1, Aside DEF LoseLeadership
<1>2. ASSUME NEW s \in Servers, Restart(s) PROVE Protocol'
  <2>1. TypeOK'
    BY <1>2 DEF Restart
  <2> QED BY <1>2, <2>1, Aside DEF Restart
<1>3. ASSUME NEW k \in Keys, Age(k) PROVE Protocol'
  <2>1. TypeOK'
    BY <1>3 DEF Age
  <2> QED BY <1>3, <2>1, Aside DEF Age
<1> QED BY <1>1, <1>2, <1>3

LEMMA StepBreakStream ==
  ASSUME Protocol, NEW k \in Keys, BreakStream(k) \/ AgentCrash(k)
  PROVE  Protocol'
<1> USE DEF Protocol, BreakStream, AgentCrash, storeVars
<1>1. /\ runs[k] \in Run
      /\ \E s \in {runs[k].state, "lost"} :
           /\ runs' = [runs EXCEPT ![k] = [runs[k] EXCEPT !.state = s, !.stream = FALSE]]
           /\ s # runs[k].state => s = "lost" /\ runs[k].state = "running"
  BY DEF TypeOK, Run
<1>2. TypeOK' /\ RunsFade
  <2>1. PICK s \in {runs[k].state, "lost"} :
           /\ runs' = [runs EXCEPT ![k] = [runs[k] EXCEPT !.state = s, !.stream = FALSE]]
           /\ s # runs[k].state => s = "lost" /\ runs[k].state = "running"
    BY <1>1
  <2> DEFINE run == [runs[k] EXCEPT !.state = s, !.stream = FALSE]
  <2>2. /\ run \in Run /\ run.state = s /\ ~run.stream
        /\ run = [runs[k] EXCEPT !.state = run.state, !.stream = run.stream]
    BY <1>1 DEF Run
  <2>3. runs' = [runs EXCEPT ![k] = run]
    BY <2>1
  <2> HIDE DEF run
  <2>4. TypeOK'
    BY <2>2, <2>3, ConstantFacts DEF TypeOK, Fault
  <2>5. RunsFade
    <3> SUFFICES ASSUME NEW m \in Keys
                 PROVE  /\ runs'[m] = [runs[m] EXCEPT !.state = runs'[m].state,
                                                      !.stream = runs'[m].stream]
                        /\ \/ runs'[m].state = runs[m].state
                           \/ runs[m].state = "running" /\ runs'[m].state = "lost"
                        /\ runs'[m].stream => runs[m].stream
      BY DEF RunsFade
    <3>1. CASE m = k
      BY <2>1, <2>2, <2>3, <3>1 DEF TypeOK
    <3>2. CASE m # k
      BY <2>3, <3>2 DEF TypeOK, Run
    <3> QED BY <3>1, <3>2
  <2> QED BY <2>4, <2>5
<1>3. LetGo /\ ResultsStored /\ RequestsMove
  BY DEF LetGo, ResultsStored, RequestsMove, TypeOK, RetriesLeft
<1>4. ASSUME NEW d \in Calls, calls[d].phase = "started"
      PROVE  calls[d].key # k /\ runs[calls[d].key].stream
  <2>1. PICK c \in Calls : calls[c].key = k /\ calls[c].phase = "open"
    OBVIOUS
  <2>2. calls[d].key = k => d = c
    BY <1>4, <2>1 DEF HeldByOne, Holds
  <2> QED BY <1>4, <2>1, <2>2 DEF NothingBefore
<1>5. \A d \in Calls : calls'[d].phase = "started" => runs'[calls'[d].key].stream
  BY <1>1, <1>4 DEF TypeOK, CallsHold
<1> QED BY <1>2, <1>3, <1>5, Subsiding

\* Calls start to dial: for a new run, or for a retry that is due.
LEMMA Dialed ==
  ASSUME Protocol, TypeOK', UNCHANGED <<runs, stored>>, RequestsMove,
         \A c \in Calls :
           \/ calls'[c] = calls[c]
           \/ /\ calls'[c].phase = "dialing" /\ calls'[c].key = None
              /\ c \in RetryCalls => Used(c[1]) /\ runs[c[1]].attempt < Retries + 1
  PROVE  Protocol'
<1> USE DEF Protocol
<1>1. KeysInOrder'
  BY DEF KeysInOrder, Used
<1>2. HeldByOne'
  BY DEF HeldByOne, Holds
<1>3. CallsHold'
  BY DEF CallsHold, Used
<1>4. NothingBefore'
  BY DEF NothingBefore, Used, RequestsMove
<1>5. FinishesLeft'
  <2>1. \A k \in Keys : MayBreak(k)' => MayBreak(k)
    BY DEF MayBreak, Follows
  <2> QED BY <2>1 DEF FinishesLeft, MayFinish, MayClean, One, TypeOK, Run
<1>6. RetriesLeft'
  <2>1. \A c \in RetryCalls : c \in Calls
    BY DEF Calls
  <2>2. \A c \in Calls : calls[c].phase # "unused" => calls'[c].phase # "unused"
    OBVIOUS
  <2>3. \A q \in requests' : q.caller \in Calls \cup {None}
    BY DEF TypeOK, Request
  <2>4. ASSUME NEW q \in requests', q.caller # None
        PROVE  calls[q.caller].phase # "unused"
    BY <2>4 DEF RequestsMove, RetriesLeft
  <2> QED BY <2>1, <2>2, <2>3, <2>4 DEF RetriesLeft, Used, RequestsMove
<1> QED BY <1>1, <1>2, <1>3, <1>4, <1>5, <1>6

LEMMA StepRunJob ==
  ASSUME Protocol, NEW s \in Servers, RunJob(s)
  PROVE  Protocol'
<1> USE DEF Protocol, storeVars
<1>1. CASE s # leader \/ groups = MaxGroups
  <2>1. TypeOK' /\ UNCHANGED <<calls, runs, requests, stored>>
    BY <1>1 DEF RunJob, TypeOK
  <2> QED BY <2>1, Aside
<1>2. CASE ~(s # leader \/ groups = MaxGroups)
  <2>1. UNCHANGED <<leader, up, runs, requests, storeVars, chained, old, faults>>
    BY DEF RunJob
  <2>2. groups + 1 \in Groups /\ groups' = groups + 1 /\ checked' \subseteq checked
    BY <1>2, ConstantFacts DEF RunJob, TypeOK, Groups
  <2>3. Dialing(s) \in Call /\ Dialing(s).phase = "dialing" /\ Dialing(s).key = None
    BY ConstantFacts DEF Dialing, Call
  <2>4. /\ calls' \in [Calls -> Call]
        /\ \A c \in Calls : calls'[c] = calls[c] \/ (calls'[c] = Dialing(s) /\ c \in FirstCalls)
    BY <1>2, <2>2, <2>3 DEF RunJob, TypeOK, FirstCalls
  <2>5. TypeOK'
    BY <2>1, <2>2, <2>4, ConstantFacts DEF TypeOK, Groups
  <2>6. RequestsMove
    BY <2>1 DEF RequestsMove, RetriesLeft
  <2> QED BY <2>1, <2>3, <2>4, <2>5, <2>6, ConstantFacts, Dialed
<1> QED BY <1>1, <1>2

\* What the clean-up finishes was stored without a finish; it can be finished
\* this way only once.
LEMMA CleanUpFacts ==
  ASSUME Protocol, CleanUp
  PROVE  /\ stored' \in [Keys -> Record \cup {None}]
         /\ counts' \in [success : Nat, error : Nat]
         /\ status' \in {"notset", "success", "failed", "partially_failed"}
         /\ runs' \in [Keys -> Run]
         /\ \A k \in Keys :
              \/ stored'[k] = stored[k] /\ runs'[k] = runs[k]
              \/ /\ stored[k] # None /\ stored[k].finished = 0
                 /\ runs'[k] = [runs[k] EXCEPT !.last = runs[k].last + 1]
                 /\ stored'[k] = [finished |-> runs[k].last + 1, success |-> FALSE]
                 /\ k \in Stale
         /\ Stale \in SUBSET Keys
         /\ counts'.success = counts.success
         /\ counts'.error = counts.error + Cardinality(Stale)
<1> USE DEF Protocol
<1>1. CASE Stale = {}
  <2>1. UNCHANGED <<runs, stored, counts, status>>
    BY <1>1 DEF CleanUp, storeVars
  <2>2. Cardinality(Stale) = 0 /\ Stale \in SUBSET Keys
    BY <1>1, FS_EmptySet
  <2>3. counts.error + 0 = counts.error
    BY DEF TypeOK
  <2> QED BY <2>1, <2>2, <2>3 DEF TypeOK
<1>2. CASE Stale # {}
  <2>1. Stale \subseteq {k \in Keys : stored[k] # None /\ stored[k].finished = 0}
    BY DEF Stale, Running
  <2>2. IsFiniteSet(Stale) /\ Cardinality(Stale) \in Nat
    <3>1. IsFiniteSet(Keys) /\ Stale \in SUBSET Keys
      BY <2>1, ConstantFacts, FS_Interval DEF Keys
    <3> QED BY <3>1, FS_Subset, FS_CardinalityType
  <2>3. ASSUME NEW k \in Stale
        PROVE  /\ runs[k] \in Run /\ runs[k].last + 1 \in 1..4
               /\ [finished |-> runs[k].last + 1, success |-> FALSE] \in Record
    <3>1. runs[k] \in Run
      BY <2>1 DEF TypeOK
    <3>2. runs[k].last + 1 <= 4
      BY <2>1, <3>1 DEF FinishesLeft, One, MayClean, Run
    <3> QED BY <3>1, <3>2 DEF Run, Record
  <2>4. /\ stored' = [k \in Keys |-> IF k \in Stale
             THEN [finished |-> runs[k].last + 1, success |-> FALSE] ELSE stored[k]]
        /\ runs' = [k \in Keys |-> IF k \in Stale
             THEN [runs[k] EXCEPT !.last = runs[k].last + 1] ELSE runs[k]]
        /\ counts' = [counts EXCEPT !.error = counts.error + Cardinality(Stale)]
        /\ \E k \in Stale : status' = GroupStatus(stored', runs[k].group)
    BY <1>2 DEF CleanUp
  <2>5. stored' \in [Keys -> Record \cup {None}]
    BY <2>3, <2>4 DEF TypeOK
  <2>6. /\ counts' \in [success : Nat, error : Nat]
        /\ counts'.success = counts.success
        /\ counts'.error = counts.error + Cardinality(Stale)
    BY <2>2, <2>4 DEF TypeOK
  <2>7. status' \in {"notset", "success", "failed", "partially_failed"}
    BY <2>4 DEF GroupStatus
  <2>8. ASSUME NEW k \in Stale
        PROVE  [runs[k] EXCEPT !.last = runs[k].last + 1] \in Run
    BY <2>3 DEF Run
  <2>9. runs' \in [Keys -> Run]
    BY <2>4, <2>8 DEF TypeOK
  <2> QED BY <2>1, <2>4, <2>5, <2>6, <2>7, <2>9
<1> QED BY <1>1, <1>2

LEMMA StepCleanUp ==
  ASSUME Protocol, TypeOK', CleanUp, UNCHANGED <<calls, requests>>
  PROVE  Protocol'
<1> USE DEF Protocol
<1>1. \A k \in Keys :
        \/ stored'[k] = stored[k] /\ runs'[k] = runs[k]
        \/ /\ stored[k] # None /\ stored[k].finished = 0 /\ stored'[k] # None
           /\ stored'[k].finished = runs[k].last + 1
           /\ runs'[k].last = runs[k].last + 1
           /\ runs'[k].state = runs[k].state /\ runs'[k].stream = runs[k].stream
           /\ runs'[k].attempt = runs[k].attempt
  <2> SUFFICES ASSUME NEW k \in Keys,
                      stored[k] # None /\ stored[k].finished = 0,
                      runs'[k] = [runs[k] EXCEPT !.last = runs[k].last + 1],
                      stored'[k] = [finished |-> runs[k].last + 1, success |-> FALSE]
               PROVE  /\ stored'[k] # None
                      /\ stored'[k].finished = runs[k].last + 1
                      /\ runs'[k].last = runs[k].last + 1
                      /\ runs'[k].state = runs[k].state /\ runs'[k].stream = runs[k].stream
                      /\ runs'[k].attempt = runs[k].attempt
    BY CleanUpFacts
  <2>1. runs[k] \in Run /\ runs'[k] \in Run
    BY DEF TypeOK
  <2>2. /\ runs'[k].last = runs[k].last + 1
        /\ runs'[k].state = runs[k].state /\ runs'[k].stream = runs[k].stream
        /\ runs'[k].attempt = runs[k].attempt
    BY <2>1 DEF Run
  <2>3. stored'[k] # None /\ stored'[k].finished = runs[k].last + 1
    <3>1. runs[k].last + 1 \in 1..4
      BY <2>1, <2>2 DEF Run
    <3>2. stored'[k] \in Record
      BY <3>1 DEF Record
    <3>3. stored'[k].finished = runs[k].last + 1
      BY ONLY stored'[k] = [finished |-> runs[k].last + 1, success |-> FALSE]
    <3>4. None \notin Record
      BY ConstantFacts
    <3>5. stored'[k] # None
      BY ONLY <3>2, <3>4
    <3> QED BY <3>3, <3>5
  <2> QED BY <2>2, <2>3
<1>2. \A k \in Keys : runs[k] \in Run /\ runs[k].last \in Nat
  BY DEF TypeOK, Run
<1>3. KeysInOrder'
  <2>1. \A k \in Keys : \A m \in 1..k : m \in Keys
    BY ConstantFacts DEF Keys
  <2> QED BY <1>1, <2>1 DEF KeysInOrder, Used
<1>4. HeldByOne'
  BY DEF HeldByOne, Holds
<1>5. CallsHold'
  BY <1>1 DEF CallsHold, Used
<1>6. NothingBefore'
  BY <1>1 DEF NothingBefore, Used, CallsHold
<1>7. FinishesLeft'
  <2> SUFFICES ASSUME NEW k \in Keys
               PROVE  /\ runs'[k].last + One(MayFinish(k))' + One(MayBreak(k))'
                           + One(MayClean(k))' <= 4
                      /\ runs'[k].state \in {"succeeded", "failed"} => runs'[k].last >= 2
    BY DEF FinishesLeft
  <2>1. MayFinish(k)' = MayFinish(k) /\ MayBreak(k)' = MayBreak(k)
    BY <1>1 DEF MayFinish, MayBreak, Follows
  <2>2. CASE stored'[k] = stored[k] /\ runs'[k] = runs[k]
    BY <2>1, <2>2 DEF MayClean, FinishesLeft, One
  <2>3. CASE ~(stored'[k] = stored[k] /\ runs'[k] = runs[k])
    <3>1. MayClean(k) /\ ~MayClean(k)' /\ runs'[k].last = runs[k].last + 1
      BY <1>1, <1>2, <2>3 DEF MayClean
    <3>2. runs'[k].state = runs[k].state
      BY <1>1, <2>3
    <3> QED BY <1>2, <2>1, <3>1, <3>2 DEF FinishesLeft, One
  <2> QED BY <2>2, <2>3
<1>8. RetriesLeft'
  <2>1. \A c \in RetryCalls : c \in Calls /\ c[1] \in Keys
    BY DEF RetryCalls, Calls
  <2>2. \A r \in requests : r.key \in Keys /\ r.caller \in Calls \cup {None}
    BY DEF TypeOK, Request
  <2> QED BY <1>1, <2>1, <2>2 DEF RetriesLeft, Used
<1> QED BY <1>3, <1>4, <1>5, <1>6, <1>7, <1>8

LEMMA StepCheckOrElect ==
  ASSUME Protocol, NEW s \in Servers, Check(s) \/ Elect(s)
  PROVE  Protocol'
<1> USE DEF Protocol
<1>1. CASE Check(s)
  <2>1. checked' \subseteq up
    BY <1>1, ConstantFacts DEF Check, TypeOK
  <2>2. CASE CleanUp
    <3>1. TypeOK'
      BY <1>1, <2>1, <2>2, CleanUpFacts DEF Check, TypeOK
    <3> QED BY <1>1, <2>2, <3>1, StepCleanUp DEF Check
  <2>3. CASE UNCHANGED <<runs, storeVars>>
    <3>1. TypeOK'
      BY <1>1, <2>1, <2>3 DEF Check, TypeOK, storeVars
    <3> QED BY <1>1, <2>3, <3>1, Aside DEF Check, storeVars
  <2> QED BY <1>1, <2>2, <2>3 DEF Check
<1>2. CASE Elect(s)
  <2>1. CASE CleanUp /\ UNCHANGED faults
    <3>1. TypeOK'
      BY <1>2, <2>1, CleanUpFacts DEF Elect, TypeOK
    <3> QED BY <1>2, <2>1, <3>1, StepCleanUp DEF Elect
  <2>2. CASE Fault /\ UNCHANGED <<runs, storeVars>>
    <3>1. TypeOK'
      BY <1>2, <2>2, ConstantFacts DEF Elect, TypeOK, storeVars, Fault
    <3> QED BY <1>2, <2>2, <3>1, Aside DEF Elect, storeVars
  <2> QED BY <1>2, <2>1, <2>2 DEF Elect
<1> QED BY <1>1, <1>2

LEMMA StepRegister ==
  ASSUME Protocol, NEW c \in Calls, Register(c)
  PROVE  Protocol'
<1> USE DEF Protocol
<1> DEFINE k == calls[c].key
<1>1. /\ calls[c].phase = "started" /\ calls[c] \in Call
      /\ k \in Keys /\ runs[k] \in Run /\ stored[k] = None
      /\ UNCHANGED <<leader, up, checked, groups, requests, counts, status, chained, old, faults>>
  BY DEF Register, CallsHold, NothingBefore, TypeOK
<1>2. \A d \in Calls : calls[d].phase = "started" /\ d # c => calls[d].key # k
  BY <1>1 DEF HeldByOne, Holds
<1>3. CASE leader = None
  <2>1. /\ calls' = [calls EXCEPT ![c] = Redial(@)]
        /\ runs' = [runs EXCEPT ![k] = [runs[k] EXCEPT !.stream = FALSE]]
        /\ UNCHANGED stored
    BY <1>3 DEF Register
  <2>2. LetGo /\ calls'[c].phase # "started"
    BY <1>1, <2>1, RedialLetsGo, RedialFacts DEF TypeOK
  <2> DEFINE run == [runs[k] EXCEPT !.stream = FALSE]
  <2>3. /\ run \in Run /\ ~run.stream /\ run.state = runs[k].state
        /\ run = [runs[k] EXCEPT !.state = run.state, !.stream = run.stream]
    BY <1>1 DEF Run
  <2>4. runs' = [runs EXCEPT ![k] = run]
    BY <2>1
  <2> HIDE DEF run
  <2>5. TypeOK'
    BY <1>1, <2>1, <2>2, <2>3, <2>4 DEF TypeOK, LetGo
  <2>6. RunsFade
    <3> SUFFICES ASSUME NEW m \in Keys
                 PROVE  /\ runs'[m] = [runs[m] EXCEPT !.state = runs'[m].state,
                                                      !.stream = runs'[m].stream]
                        /\ runs'[m].state = runs[m].state
                        /\ runs'[m].stream => runs[m].stream
      BY DEF RunsFade
    <3>1. CASE m = k
      BY <1>1, <2>3, <2>4, <3>1 DEF TypeOK
    <3>2. CASE m # k
      BY <2>4, <3>2 DEF TypeOK, Run
    <3> QED BY <3>1, <3>2
  <2>7. ResultsStored /\ RequestsMove
    BY <1>1, <2>1 DEF ResultsStored, RequestsMove, RetriesLeft, TypeOK
  <2>8. \A d \in Calls : calls'[d].phase = "started" => runs'[calls'[d].key].stream
    BY <1>1, <1>2, <2>2, <2>4 DEF LetGo, NothingBefore, CallsHold, TypeOK
  <2> QED BY <2>2, <2>5, <2>6, <2>7, <2>8, Subsiding
<1>4. CASE leader # None
  <2> DEFINE call == [calls[c] EXCEPT !.phase = "open"]
             record == [finished |-> IF runs[k].attempt > 1 THEN 1 ELSE 0, success |-> FALSE]
  <2>1. /\ calls' = [calls EXCEPT ![c] = call]
        /\ stored' = [stored EXCEPT ![k] = record]
        /\ UNCHANGED runs
    BY <1>4 DEF Register, Registered
  <2>2. /\ call \in Call /\ call.phase = "open" /\ call.key = k
    BY <1>1 DEF Call
  <2>3. record \in Record /\ record # None
    <3>1. record \in Record
      BY DEF Record
    <3> HIDE DEF record
    <3> QED BY <3>1, ConstantFacts
  <2> HIDE DEF call, record
  <2> USE <1>1, <1>2, <2>1, <2>2, <2>3
  <2>4. TypeOK'
    BY DEF TypeOK
  <2>5. KeysInOrder'
    BY DEF KeysInOrder, Used
  <2>6. HeldByOne'
    BY DEF HeldByOne, Holds, TypeOK
  <2>7. CallsHold'
    BY DEF CallsHold, Used, TypeOK
  <2>8. NothingBefore'
    BY DEF NothingBefore, Used, CallsHold, TypeOK
  <2>9. FinishesLeft'
    <3>1. \A m \in Keys : /\ MayBreak(m)' => MayBreak(m)
                          /\ MayClean(m)' => MayClean(m)
      BY DEF MayBreak, MayClean, Follows, TypeOK
    <3> QED BY <3>1 DEF FinishesLeft, MayFinish, One, TypeOK, Run
  <2>10. RetriesLeft'
    <3>1. \A d \in RetryCalls : d \in Calls
      BY DEF Calls
    <3>2. \A d \in Calls : calls'[d].phase # "unused" <=> calls[d].phase # "unused"
      BY DEF TypeOK
    <3>3. \A r \in requests : r.caller \in Calls \cup {None}
      BY DEF TypeOK, Request
    <3> QED BY <3>1, <3>2, <3>3 DEF RetriesLeft, Used
  <2> QED BY <2>4, <2>5, <2>6, <2>7, <2>8, <2>9, <2>10
<1> QED BY <1>3, <1>4

LEMMA StepFinish ==
  ASSUME Protocol, NEW k \in Keys, NEW success \in BOOLEAN, Finish(k, success)
  PROVE  Protocol'
<1> USE DEF Protocol
<1> DEFINE state == IF success THEN "succeeded" ELSE "failed"
           run == [runs[k] EXCEPT !.state = state, !.last = runs[k].last + 1]
<1>1. /\ runs[k] \in Run /\ runs[k].state = "running"
      /\ UNCHANGED <<leader, up, checked, groups, calls, storeVars, chained, old, faults>>
  BY DEF Finish, TypeOK
<1>2. runs[k].last + 1 \in 2..4
  BY <1>1 DEF FinishesLeft, One, MayFinish, Run
<1>3. runs' = [runs EXCEPT ![k] = run]
  BY <1>1 DEF Finish
<1>4. /\ run \in Run /\ run.last = runs[k].last + 1 /\ run.state \in {"succeeded", "failed"}
      /\ run.stream = runs[k].stream /\ run.attempt = runs[k].attempt
  <2>1. state \in {"succeeded", "failed"}
    OBVIOUS
  <2> HIDE DEF state
  <2> DEFINE r == [runs[k] EXCEPT !.state = state]
  <2>2. /\ r \in Run /\ r.state = state
        /\ r.stream = runs[k].stream /\ r.attempt = runs[k].attempt
    BY <1>1, <2>1 DEF Run
  <2>3. run = [r EXCEPT !.last = runs[k].last + 1]
    OBVIOUS
  <2> HIDE DEF r, run
  <2> QED BY <1>2, <2>1, <2>2, <2>3 DEF Run
<1>5. ASSUME NEW q \in requests', q \notin requests
      PROVE  /\ q \in Request /\ q.key = k /\ q.caller = None /\ q.stage = "sent"
             /\ ~runs[k].stream
  <2>1. PICK s \in up :
           /\ ~runs[k].stream
           /\ q = [key |-> k, finished |-> runs[k].last + 1, success |-> success, server |-> s,
                   caller |-> None, forwarded |-> FALSE, stage |-> "sent"]
    BY <1>5 DEF Finish
  <2>2. s \in Servers
    BY DEF TypeOK
  <2> QED BY <1>2, <2>1, <2>2 DEF Request, Finishes
<1>6. requests' \subseteq Request
  BY <1>5 DEF TypeOK
<1> HIDE DEF run
<1> USE <1>1, <1>3, <1>4, <1>5, <1>6 DEF storeVars
<1>7. TypeOK'
  BY DEF TypeOK
<1>8. KeysInOrder'
  <2>1. \A n \in Keys : \A m \in 1..n : m \in Keys
    BY ConstantFacts DEF Keys
  <2> QED BY <2>1 DEF KeysInOrder, Used, TypeOK
<1>9. HeldByOne'
  BY DEF HeldByOne, Holds
<1>10. CallsHold'
  BY DEF CallsHold, Used, TypeOK
<1>11. NothingBefore'
  BY DEF NothingBefore, Used, CallsHold, TypeOK
<1>12. FinishesLeft'
  <2>1. \A m \in Keys : MayBreak(m)' = MayBreak(m) /\ MayClean(m)' = MayClean(m)
    BY DEF MayBreak, MayClean, Follows
  <2>2. \A m \in Keys : runs[m].last \in Nat
    BY DEF TypeOK, Run
  <2> QED BY <1>2, <2>1, <2>2 DEF FinishesLeft, MayFinish, One, TypeOK
<1>13. RetriesLeft'
  <2>1. \A c \in RetryCalls : c \in Calls /\ c[1] \in Keys
    BY DEF RetryCalls, Calls
  <2>2. \A r \in requests : r.key \in Keys
    BY DEF TypeOK, Request
  <2> QED BY <2>1, <2>2 DEF RetriesLeft, Used, TypeOK
<1> QED BY <1>7, <1>8, <1>9, <1>10, <1>11, <1>12, <1>13

\* A call reports or gives up: its execution has one way less to be finished.
LEMMA ReportKeeps ==
  ASSUME Protocol, NEW c \in Calls, calls[c].phase = "open",
         NEW finished \in Finishes, NEW success \in BOOLEAN, Report(c, finished, success),
         runs' \in [Keys -> Run],
         \A m \in Keys :
           /\ m # calls[c].key => runs'[m] = runs[m]
           /\ runs'[m].state = runs[m].state /\ runs'[m].stream = runs[m].stream
           /\ runs'[m].attempt = runs[m].attempt
           /\ runs'[m].last \in {runs[m].last, runs[m].last + 1},
         UNCHANGED <<leader, up, checked, groups, storeVars, chained, old, faults>>
  PROVE  Protocol'
<1> USE DEF Protocol, storeVars
<1> DEFINE k == calls[c].key
<1>1. calls[c] \in Call /\ k \in Keys /\ Used(k) /\ \A m \in Keys : runs[m].last \in Nat
  BY DEF TypeOK, CallsHold, Run
<1>2. /\ calls' \in [Calls -> Call]
      /\ \A d \in Calls : d # c => calls'[d] = calls[d]
      /\ calls'[c].phase \in {"reporting", "dialing", "ended"}
      /\ calls'[c].phase = "reporting" => calls'[c].key = k
      /\ calls'[c].phase = "dialing" => calls'[c].key = None
  <2>1. CASE leader = None
    <3>1. calls' = [calls EXCEPT ![c] = Redial(@)]
      BY <2>1 DEF Report
    <3>2. Redial(calls[c]) \in Call
      BY <1>1, RedialFacts
    <3> HIDE DEF k
    <3> QED BY <1>1, <3>1, <3>2, RedialFacts DEF TypeOK
  <2>2. CASE leader # None
    <3> DEFINE call == [calls[c] EXCEPT !.phase = "reporting"]
    <3>1. call \in Call /\ call.phase = "reporting" /\ call.key = k
      BY <1>1 DEF Call
    <3>2. calls' = [calls EXCEPT ![c] = call]
      BY <2>2 DEF Report
    <3> HIDE DEF call, k
    <3> QED BY <3>1, <3>2 DEF TypeOK
  <2> QED BY <2>1, <2>2
<1>3. /\ requests' \subseteq Request
      /\ \A q \in requests' : q \in requests \/ (q.key = k /\ q.caller = c /\ q.stage = "sent")
  <2>1. CASE leader = None
    BY <2>1 DEF Report, TypeOK
  <2>2. CASE leader # None
    <3> DEFINE q == [key |-> k, finished |-> finished, success |-> success, server |-> leader,
                     caller |-> c, forwarded |-> FALSE, stage |-> "sent"]
    <3>1. q \in Request /\ q.key = k /\ q.caller = c /\ q.stage = "sent"
      BY <1>1, <2>2 DEF Request, TypeOK
    <3>2. requests' = requests \cup {q}
      BY <2>2 DEF Report
    <3> HIDE DEF q, k
    <3> QED BY <3>1, <3>2 DEF TypeOK
  <2> QED BY <2>1, <2>2
<1>4. \A d \in Calls : calls[d].phase \in {"started", "open", "reporting"} /\ calls[d].key = k
                         => d = c
  BY <1>1 DEF HeldByOne, Holds
<1> HIDE DEF k
<1>5. k = calls[c].key
  BY DEF k
<1>6. TypeOK'
  BY <1>2, <1>3 DEF TypeOK
<1>7. KeysInOrder'
  <2>1. \A n \in Keys : \A m \in 1..n : m \in Keys
    BY ConstantFacts DEF Keys
  <2> QED BY <2>1 DEF KeysInOrder, Used
<1>8. HeldByOne'
  BY <1>1, <1>2, <1>4 DEF HeldByOne, Holds
<1>9. CallsHold'
  BY <1>1, <1>2 DEF CallsHold, Used
<1>10. NothingBefore'
  BY <1>1, <1>2, <1>3, <1>4 DEF NothingBefore, Used, CallsHold
<1>11. FinishesLeft'
  <2> SUFFICES ASSUME NEW m \in Keys
               PROVE  /\ runs'[m].last + One(MayFinish(m))' + One(MayBreak(m))'
                           + One(MayClean(m))' <= 4
                      /\ runs'[m].state \in {"succeeded", "failed"} => runs'[m].last >= 2
    BY DEF FinishesLeft
  <2>1. /\ MayFinish(m)' = MayFinish(m) /\ MayClean(m)' = MayClean(m)
        /\ MayBreak(m)' => MayBreak(m)
    BY <1>2 DEF MayFinish, MayClean, MayBreak, Follows
  <2>2. CASE m # k
    BY <1>1, <1>5, <2>1, <2>2 DEF FinishesLeft, One
  <2>3. CASE m = k
    <3>1. MayBreak(m) /\ ~MayBreak(m)'
      BY <1>2, <1>4, <1>5, <2>3 DEF MayBreak, Follows
    <3>2. runs'[m].last \in {runs[m].last, runs[m].last + 1} /\ runs[m].last \in Nat
      BY <1>1
    <3> QED BY <2>1, <3>1, <3>2 DEF FinishesLeft, One
  <2> QED BY <2>2, <2>3
<1>12. RetriesLeft'
  <2>1. \A d \in RetryCalls : d \in Calls /\ d[1] \in Keys
    BY DEF RetryCalls, Calls
  <2>2. \A r \in requests : r.key \in Keys /\ r.caller \in Calls \cup {None}
    BY DEF TypeOK, Request
  <2>3. \A d \in Calls : calls'[d].phase # "unused" <=> calls[d].phase # "unused"
    BY <1>2
  <2> QED BY <1>3, <2>1, <2>2, <2>3 DEF RetriesLeft, Used
<1> QED BY <1>6, <1>7, <1>8, <1>9, <1>10, <1>11, <1>12

LEMMA StepReport ==
  ASSUME Protocol, NEW c \in Calls, ReceiveEnd(c) \/ NoticeBreak(c)
  PROVE  Protocol'
<1> USE DEF Protocol
<1> DEFINE k == calls[c].key
<1>1. calls[c].phase = "open" /\ k \in Keys /\ runs[k] \in Run /\ MayBreak(k)
  BY DEF ReceiveEnd, NoticeBreak, CallsHold, TypeOK, MayBreak, Follows
<1>2. CASE ReceiveEnd(c)
  <2>1. runs[k].state \in {"succeeded", "failed"}
    BY <1>2 DEF ReceiveEnd
  <2>2. runs[k].last >= 2 /\ runs[k].last \in 1..4
    BY <1>1, <2>1 DEF FinishesLeft, Run
  <2>3. runs[k].last \in Finishes
    BY <2>2 DEF Finishes
  <2>4. /\ runs' \in [Keys -> Run]
        /\ Report(c, runs[k].last, runs[k].state = "succeeded")
        /\ UNCHANGED <<leader, up, checked, groups, runs, storeVars, chained, old, faults>>
    BY <1>2 DEF ReceiveEnd, TypeOK
  <2> DEFINE success == runs[k].state = "succeeded"
  <2>5. success \in BOOLEAN /\ Report(c, runs[k].last, success)
    BY <2>4
  <2> HIDE DEF success
  <2> QED BY <1>1, <2>3, <2>4, <2>5, ReportKeeps
<1>3. CASE NoticeBreak(c)
  <2>1. runs[k].last + 1 \in Finishes /\ runs[k].last + 1 \in 1..4
    BY <1>1 DEF FinishesLeft, One, Finishes, Run
  <2> DEFINE run == [runs[k] EXCEPT !.last = runs[k].last + 1]
  <2>2. /\ run \in Run /\ run.state = runs[k].state /\ run.stream = runs[k].stream
        /\ run.attempt = runs[k].attempt /\ run.last = runs[k].last + 1
    BY <1>1, <2>1 DEF Run
  <2>3. runs' = [runs EXCEPT ![k] = run]
    BY <1>3 DEF NoticeBreak
  <2>4. /\ Report(c, runs[k].last + 1, FALSE)
        /\ UNCHANGED <<leader, up, checked, groups, storeVars, chained, old, faults>>
    BY <1>3 DEF NoticeBreak
  <2> HIDE DEF run
  <2>5. /\ runs' \in [Keys -> Run]
        /\ \A m \in Keys :
             /\ m # k => runs'[m] = runs[m]
             /\ runs'[m].state = runs[m].state /\ runs'[m].stream = runs[m].stream
             /\ runs'[m].attempt = runs[m].attempt
             /\ runs'[m].last \in {runs[m].last, runs[m].last + 1}
    BY <1>1, <2>2, <2>3 DEF TypeOK
  <2> QED BY <1>1, <2>1, <2>4, <2>5, ReportKeeps
<1> QED BY <1>2, <1>3

\* A step of a request that starts no call keeps the protocol.
LEMMA Answering ==
  ASSUME Protocol, TypeOK', LetGo, ResultsStored, RequestsMove, UNCHANGED runs
  PROVE  Protocol'
<1>1. RunsFade
  BY DEF RunsFade, Protocol, TypeOK, Run
<1>2. \A c \in Calls : calls'[c].phase = "started" => runs'[calls'[c].key].stream
  BY DEF LetGo, Protocol, NothingBefore
<1> QED BY <1>1, <1>2, Subsiding

LEMMA StageFacts ==
  ASSUME NEW r \in Request, NEW stage \in {"sent", "applied", "backoff", "retrying", "chaining"},
         NEW q, q = [r EXCEPT !.stage = stage]
  PROVE  /\ q \in Request /\ q.stage = stage
         /\ q.key = r.key /\ q.finished = r.finished /\ q.success = r.success
         /\ q.server = r.server /\ q.caller = r.caller
BY DEF Request

\* One result is stored, and the counter of its kind counts it; or it is
\* outdated and changes nothing.
LEMMA StoreResultFacts ==
  ASSUME Protocol, NEW r \in requests, StoreResult(r.key, r.finished, r.success)
  PROVE  /\ stored' \in [Keys -> Record \cup {None}]
         /\ counts' \in [success : Nat, error : Nat]
         /\ status' \in {"notset", "success", "failed", "partially_failed"}
         /\ ResultsStored
         /\ \/ UNCHANGED storeVars
            \/ /\ \A k \in Keys : k # r.key => stored'[k] = stored[k]
               /\ Recorded(r.key)' /\ stored'[r.key].success = r.success
               /\ counts'.success = counts.success + One(r.success)
               /\ counts'.error = counts.error + One(~r.success)
<1>1. r \in Request /\ r.key \in Keys
  BY DEF Protocol, TypeOK, Request
<1>2. CASE Outdated(r.key, r.finished)
  BY <1>2 DEF StoreResult, storeVars, Protocol, TypeOK, ResultsStored
<1>3. CASE ~Outdated(r.key, r.finished)
  <2> DEFINE record == [finished |-> r.finished, success |-> r.success]
  <2>1. record \in Record /\ record.finished >= 2 /\ record.success = r.success
    BY <1>1 DEF Record, Request, Finishes
  <2>2. /\ stored' = [stored EXCEPT ![r.key] = record]
        /\ counts' = IF r.success THEN [counts EXCEPT !.success = @ + 1]
                                  ELSE [counts EXCEPT !.error = @ + 1]
        /\ status' = GroupStatus(stored', runs[r.key].group)
    BY <1>3 DEF StoreResult
  <2> HIDE DEF record
  <2>3. record # None
    BY <2>1, ConstantFacts
  <2>4. record.finished # 0
    BY <2>1 DEF Record
  <2>5. stored' \in [Keys -> Record \cup {None}] /\ stored'[r.key] = record
        /\ \A k \in Keys : k # r.key => stored'[k] = stored[k]
    BY <1>1, <2>1, <2>2 DEF Protocol, TypeOK
  <2>6. /\ counts' \in [success : Nat, error : Nat]
        /\ counts'.success = counts.success + One(r.success)
        /\ counts'.error = counts.error + One(~r.success)
    <3>1. counts \in [success : Nat, error : Nat]
      BY DEF Protocol, TypeOK
    <3>2. CASE r.success
      BY <2>2, <3>1, <3>2 DEF One
    <3>3. CASE ~r.success
      BY <2>2, <3>1, <3>3 DEF One
    <3> QED BY <3>2, <3>3
  <2>7. status' \in {"notset", "success", "failed", "partially_failed"}
    BY <2>2 DEF GroupStatus
  <2>8. ResultsStored
    BY <2>3, <2>4, <2>5 DEF ResultsStored
  <2>9. Recorded(r.key)' /\ stored'[r.key].success = r.success
    BY <2>1, <2>3, <2>5 DEF Recorded
  <2> QED BY <2>5, <2>6, <2>7, <2>8, <2>9
<1> QED BY <1>2, <1>3

\* The answer of a request reaches its caller, if it has one.
LEMMA AnswerFacts ==
  ASSUME Protocol, NEW r \in requests, calls' = Returned(r.caller)
  PROVE  LetGo
<1>1. r.caller \in Calls \cup {None} /\ (r.caller # None => calls[r.caller].phase # "unused")
  BY DEF Protocol, TypeOK, RetriesLeft, Request
<1> QED BY <1>1, ReturnedFacts DEF Protocol

LEMMA StepForward ==
  ASSUME Protocol, NEW r \in requests, Forward(r)
  PROVE  Protocol'
<1> USE DEF Protocol
<1>1. UNCHANGED <<leader, up, checked, groups, runs, storeVars, chained, old, faults>>
  BY DEF Forward
<1>2. r \in Request
  BY DEF TypeOK
<1>3. ResultsStored
  BY <1>1 DEF ResultsStored, storeVars
<1>4. CASE leader = None
  <2>1. LetGo /\ requests' \subseteq requests
    BY <1>4, AnswerFacts DEF Forward
  <2>2. TypeOK'
    BY <1>1, <2>1 DEF TypeOK, LetGo, storeVars
  <2>3. RequestsMove
    BY <2>1 DEF RequestsMove, RetriesLeft
  <2> QED BY <1>1, <1>3, <2>1, <2>2, <2>3, Answering
<1>5. CASE leader # None
  <2> DEFINE p == [r EXCEPT !.server = leader]
             q == [p EXCEPT !.forwarded = TRUE]
  <2>1. /\ requests' = (requests \ {r}) \cup {q}
        /\ r.stage = "sent" /\ UNCHANGED calls
    BY <1>5 DEF Forward
  <2>2. p \in Request /\ p.key = r.key /\ p.caller = r.caller /\ p.stage = r.stage
    BY <1>2, <1>5 DEF TypeOK, Request
  <2> HIDE DEF p
  <2>3. q \in Request /\ q.key = r.key /\ q.caller = r.caller /\ q.stage = "sent"
    BY <2>1, <2>2 DEF Request
  <2> HIDE DEF q
  <2>4. TypeOK' /\ LetGo
    BY <1>1, <2>1, <2>3 DEF TypeOK, LetGo, storeVars
  <2>5. RequestsMove
    BY <2>1, <2>3 DEF RequestsMove, RetriesLeft
  <2> QED BY <1>1, <1>3, <2>4, <2>5, Answering
<1> QED BY <1>4, <1>5

LEMMA StepApply ==
  ASSUME Protocol, NEW r \in requests, ApplyDone(r) \/ ApplyUncertain(r)
  PROVE  Protocol'
<1> USE DEF Protocol
<1>1. r \in Request /\ r.stage = "sent"
  BY DEF TypeOK, ApplyDone, ApplyUncertain
<1>2. CASE ApplyDone(r)
  <2> DEFINE q == [r EXCEPT !.stage = "applied"]
  <2>1. /\ StoreResult(r.key, r.finished, r.success)
        /\ requests' = (requests \ {r}) \cup {q}
        /\ UNCHANGED <<leader, up, checked, groups, calls, runs, chained, old, faults>>
    BY <1>2 DEF ApplyDone
  <2>2. q \in Request /\ q.key = r.key /\ q.caller = r.caller /\ q.stage = "applied"
    BY <1>1, StageFacts
  <2> HIDE DEF q
  <2>3. TypeOK' /\ ResultsStored /\ LetGo
    BY <2>1, <2>2, StoreResultFacts DEF TypeOK, LetGo
  <2>4. RequestsMove
    BY <2>1, <2>2 DEF RequestsMove, RetriesLeft
  <2> QED BY <2>1, <2>3, <2>4, Answering
<1>3. CASE ApplyUncertain(r)
  <2>1. /\ StoreResult(r.key, r.finished, r.success) \/ UNCHANGED storeVars
        /\ requests' = requests \ {r} /\ leader' = None /\ Fault
        /\ UNCHANGED <<up, checked, groups, runs, chained, old>>
    BY <1>3 DEF ApplyUncertain
  <2>2. LetGo
    BY <1>3, AnswerFacts DEF ApplyUncertain
  <2>3. /\ stored' \in [Keys -> Record \cup {None}]
        /\ counts' \in [success : Nat, error : Nat]
        /\ status' \in {"notset", "success", "failed", "partially_failed"}
        /\ ResultsStored
    BY <2>1, StoreResultFacts DEF TypeOK, storeVars, ResultsStored
  <2>4. TypeOK'
    BY <2>1, <2>2, <2>3, ConstantFacts DEF TypeOK, LetGo, Fault
  <2>5. RequestsMove
    BY <2>1 DEF RequestsMove, RetriesLeft
  <2> QED BY <2>1, <2>2, <2>3, <2>4, <2>5, Answering
<1> QED BY <1>2, <1>3

LEMMA StepConclude ==
  ASSUME Protocol, NEW r \in requests, Conclude(r)
  PROVE  Protocol'
<1> USE DEF Protocol
<1>1. /\ r \in Request /\ r.key \in Keys /\ runs[r.key] \in Run
      /\ UNCHANGED <<leader, up, checked, groups, runs, storeVars, old, faults>>
  BY DEF TypeOK, Conclude, Request
<1>2. ResultsStored
  BY <1>1 DEF ResultsStored, storeVars
<1>3. CASE RetryDue(r)
  <2> DEFINE q == [r EXCEPT !.stage = "backoff"]
  <2>1. requests' = (requests \ {r}) \cup {q} /\ UNCHANGED <<calls, chained>>
    BY <1>3 DEF Conclude
  <2>2. q \in Request /\ q.key = r.key /\ q.caller = r.caller
    BY <1>1, StageFacts
  <2> HIDE DEF q
  <2>3. TypeOK' /\ LetGo
    BY <1>1, <2>1, <2>2 DEF TypeOK, LetGo, storeVars
  <2>4. RequestsMove
    BY <1>3, <2>1, <2>2 DEF RequestsMove, RetriesLeft, RetryDue
  <2> QED BY <1>1, <1>2, <2>3, <2>4, Answering
<1>4. CASE ~RetryDue(r) /\ Chains
  <2> DEFINE q == [r EXCEPT !.stage = "chaining"]
  <2>1. /\ requests' = (requests \ {r}) \cup {q} /\ UNCHANGED calls
        /\ chained' = [chained EXCEPT ![runs[r.key].group] = @ + 1]
    BY <1>4 DEF Conclude
  <2>2. q \in Request /\ q.key = r.key /\ q.caller = r.caller /\ q.stage = "chaining"
    BY <1>1, StageFacts
  <2> HIDE DEF q
  <2>3. chained' \in [Groups -> Nat]
    <3> DEFINE g == runs[r.key].group
    <3>1. chained \in [Groups -> Nat]
      BY DEF TypeOK
    <3>2. chained' = [chained EXCEPT ![g] = chained[g] + 1]
      BY <2>1
    <3> HIDE DEF g
    <3>3. g \in Groups => chained[g] + 1 \in Nat
      BY <3>1
    <3> QED BY ONLY <3>1, <3>2, <3>3
  <2>4. TypeOK' /\ LetGo
    BY <1>1, <2>1, <2>2, <2>3 DEF TypeOK, LetGo, storeVars
  <2>5. RequestsMove
    BY <2>1, <2>2 DEF RequestsMove, RetriesLeft
  <2> QED BY <1>1, <1>2, <2>4, <2>5, Answering
<1>5. CASE ~RetryDue(r) /\ ~Chains
  <2>1. requests' = requests \ {r} /\ UNCHANGED chained
    BY <1>5 DEF Conclude
  <2>2. LetGo
    BY <1>5, AnswerFacts DEF Conclude
  <2>3. TypeOK'
    BY <1>1, <2>1, <2>2 DEF TypeOK, LetGo, storeVars
  <2>4. RequestsMove
    BY <2>1 DEF RequestsMove, RetriesLeft
  <2> QED BY <1>1, <1>2, <2>2, <2>3, <2>4, Answering
<1> QED BY <1>3, <1>4, <1>5

LEMMA StepRetry ==
  ASSUME Protocol, NEW r \in requests, Retry(r) \/ RetryReturns(r) \/ DependentsReturn(r)
  PROVE  Protocol'
<1> USE DEF Protocol
<1>1. /\ r \in Request /\ r.key \in Keys /\ r.finished \in Finishes /\ r.server \in Servers
      /\ UNCHANGED <<leader, up, checked, groups, runs, storeVars, chained, old, faults>>
  BY DEF TypeOK, Retry, RetryReturns, DependentsReturn, Request
<1>2. ResultsStored
  BY <1>1 DEF ResultsStored, storeVars
<1>3. CASE Retry(r) /\ r.server = leader
  <2> DEFINE c == <<r.key, r.finished>>
             q == [r EXCEPT !.stage = "retrying"]
  <2>1. /\ requests' = (requests \ {r}) \cup {q}
        /\ calls' = [calls EXCEPT ![c] = Dialing(r.server)]
        /\ r.stage = "backoff"
    BY <1>3 DEF Retry
  <2>2. q \in Request /\ q.key = r.key /\ q.caller = r.caller
    BY <1>1, StageFacts
  <2>3. c \in RetryCalls /\ c \in Calls /\ c[1] = r.key
    BY <1>1 DEF RetryCalls, Calls
  <2> HIDE DEF c, q
  <2>4. Dialing(r.server) \in Call /\ Dialing(r.server).phase = "dialing"
        /\ Dialing(r.server).key = None
    BY <1>1, ConstantFacts DEF Dialing, Call
  <2>5. Used(r.key) /\ runs[r.key].attempt < Retries + 1
    BY <1>1, <2>1 DEF NothingBefore, RetriesLeft
  <2>6. TypeOK'
    BY <1>1, <2>1, <2>2, <2>3, <2>4 DEF TypeOK, storeVars
  <2>7. RequestsMove
    BY <2>1, <2>2, <2>5 DEF RequestsMove, RetriesLeft
  <2>8. \A d \in Calls :
          \/ calls'[d] = calls[d]
          \/ /\ calls'[d].phase = "dialing" /\ calls'[d].key = None
             /\ d \in RetryCalls => Used(d[1]) /\ runs[d[1]].attempt < Retries + 1
    BY <2>1, <2>3, <2>4, <2>5 DEF TypeOK
  <2> QED BY <1>1, <2>6, <2>7, <2>8, Dialed DEF storeVars
<1>4. CASE ~(Retry(r) /\ r.server = leader)
  <2>1. requests' = requests \ {r} /\ calls' = Returned(r.caller)
    BY <1>4 DEF Retry, RetryReturns, DependentsReturn
  <2>2. LetGo
    BY <2>1, AnswerFacts
  <2>3. TypeOK'
    BY <1>1, <2>1, <2>2 DEF TypeOK, LetGo, storeVars
  <2>4. RequestsMove
    BY <2>1 DEF RequestsMove, RetriesLeft
  <2> QED BY <1>1, <1>2, <2>2, <2>3, <2>4, Answering
<1> QED BY <1>3, <1>4

\* The end of a server's process, with the calls it leaves without an answer to
\* their first update.
LEMMA StepDown ==
  ASSUME Protocol, NEW s \in Servers, NEW cut \in SUBSET Calls, Down(s, cut),
         \A c \in cut : calls[c].phase = "started",
         ResultsStored, stored' \in [Keys -> Record \cup {None}]
  PROVE  Protocol'
<1> USE DEF Protocol
<1> DEFINE alive(c) == calls[c].phase \in {"dialing", "started", "open", "reporting"}
           gone == {c \in Calls : alive(c) /\ calls[c].server = s}
           lost == {r \in requests : r.server = s}
           unanswered == {r.caller : r \in {q \in lost : ~q.forwarded}}
           waiting == {c \in Calls : \E r \in lost : r.caller = c}
           closed(k) == \E c \in gone \cup cut : calls[c].key = k
<1>1. /\ Fault /\ up' = up \ {s}
      /\ leader' = (IF leader = s THEN None ELSE leader)
      /\ checked' = checked \ {s}
      /\ UNCHANGED <<groups, counts, status, chained, old>>
  BY DEF Down
<1>2. ASSUME NEW c \in Calls
      PROVE  calls'[c] \in {calls[c], Redial(calls[c]), [calls[c] EXCEPT !.phase = "ended"]}
             /\ (calls'[c] = calls[c] \/ c \in gone \cup waiting \cup cut)
             /\ (c \in gone => calls'[c] = [calls[c] EXCEPT !.phase = "ended"])
             /\ (c \in cut \ gone => calls'[c] = Redial(calls[c]))
  BY DEF Down
<1>3. runs' = [k \in Keys |-> IF closed(k) THEN [runs[k] EXCEPT !.stream = FALSE] ELSE runs[k]]
  BY DEF Down
<1>4. ASSUME NEW q \in requests'
      PROVE  \E r \in requests : q = r \/ q = [r EXCEPT !.caller = None]
  BY DEF Down
<1>5. LetGo
  <2>1. \A c \in gone \cup waiting \cup cut : calls[c].phase # "unused"
    BY ConstantFacts DEF RetriesLeft
  <2> HIDE DEF gone, waiting
  <2>2. ASSUME NEW c \in Calls
        PROVE  /\ calls'[c] \in Call
               /\ \/ calls'[c] = calls[c]
                  \/ /\ calls'[c].phase \in {"dialing", "ended"}
                     /\ calls'[c].phase = "dialing" => calls'[c].key = None
    <3>1. calls[c] \in Call
      BY DEF TypeOK
    <3>2. [calls[c] EXCEPT !.phase = "ended"] \in Call
      BY <3>1 DEF Call
    <3>3. [calls[c] EXCEPT !.phase = "ended"].phase = "ended"
      BY <3>1 DEF Call
    <3> QED BY <1>2, <3>1, <3>2, <3>3, RedialFacts
  <2>3. calls' = [c \in Calls |-> calls'[c]]
    BY DEF Down
  <2>4. calls' \in [Calls -> Call]
    BY <2>2, <2>3
  <2> QED BY <1>2, <2>1, <2>2, <2>4 DEF LetGo
<1>6. runs' \in [Keys -> Run] /\ RunsFade
  <2> HIDE DEF gone
  <2>1. ASSUME NEW k \in Keys
        PROVE  /\ runs'[k] \in Run /\ runs'[k].state = runs[k].state
               /\ runs'[k] = [runs[k] EXCEPT !.state = runs'[k].state,
                                             !.stream = runs'[k].stream]
               /\ runs'[k].stream => runs[k].stream
    <3>1. runs[k] \in Run
      BY DEF TypeOK
    <3> DEFINE run == [runs[k] EXCEPT !.stream = FALSE]
    <3>2. /\ run \in Run /\ run.state = runs[k].state /\ ~run.stream
          /\ run = [runs[k] EXCEPT !.state = run.state, !.stream = run.stream]
      BY <3>1 DEF Run
    <3>3. runs'[k] = IF closed(k) THEN run ELSE runs[k]
      BY <1>3
    <3> HIDE DEF run
    <3>4. CASE closed(k)
      BY <3>2, <3>3, <3>4
    <3>5. CASE ~closed(k)
      BY <3>1, <3>3, <3>5 DEF Run
    <3> QED BY <3>4, <3>5
  <2>2. runs' \in [Keys -> Run]
    BY <1>3, <2>1
  <2> QED BY <2>1, <2>2 DEF RunsFade
<1>7. requests' \subseteq Request /\ RequestsMove
  <2> SUFFICES ASSUME NEW q \in requests'
               PROVE  q \in Request /\
                      \E r \in requests :
                        /\ q.key = r.key /\ q.caller \in {r.caller, None}
                        /\ q.stage \in {"backoff", "retrying"}
                             => runs[q.key].attempt < Retries + 1
    BY DEF RequestsMove
  <2>1. PICK r \in requests : q = r \/ q = [r EXCEPT !.caller = None]
    BY <1>4
  <2>2. r \in Request
    BY DEF TypeOK
  <2>3. /\ q \in Request /\ q.key = r.key /\ q.stage = r.stage
        /\ q.caller \in {r.caller, None}
    BY <2>1, <2>2 DEF Request
  <2> QED BY <2>3 DEF RetriesLeft
<1>8. ASSUME NEW c \in Calls, calls'[c].phase = "started"
      PROVE  runs'[calls'[c].key].stream
  <2>1. calls'[c] = calls[c] /\ calls[c].key \in Keys /\ runs[calls[c].key].stream
    BY <1>5, <1>8 DEF LetGo, CallsHold, NothingBefore
  <2>2. c \notin gone /\ c \notin cut
    <3>1. [calls[c] EXCEPT !.phase = "ended"].phase = "ended"
      BY DEF TypeOK, Call
    <3>2. Redial(calls[c]).phase # "started"
      BY RedialFacts DEF TypeOK
    <3> HIDE DEF gone, waiting
    <3> QED BY <1>2, <1>8, <3>1, <3>2
  <2>3. ASSUME NEW d \in gone \cup cut, calls[d].key = calls[c].key PROVE FALSE
    <3>1. d \in Calls /\ calls[d].phase \in {"started", "open", "reporting"}
      BY <2>1, <2>3, ConstantFacts DEF CallsHold
    <3>2. Holds(d, calls[c].key) /\ Holds(c, calls[c].key)
      BY <1>8, <2>1, <2>3, <3>1 DEF Holds
    <3> QED BY <2>1, <2>2, <2>3, <3>2 DEF HeldByOne
  <2>4. ~closed(calls[c].key)
    BY <2>3
  <2> QED BY <1>3, <2>1, <2>4
<1>9. TypeOK'
  BY <1>1, <1>5, <1>6, <1>7, ConstantFacts DEF TypeOK, LetGo, Fault, storeVars
<1> QED BY <1>5, <1>6, <1>7, <1>8, <1>9, Subsiding

LEMMA StepCrash ==
  ASSUME Protocol, NEW s \in Servers, Crash(s)
  PROVE  Protocol'
<1>1. Down(s, {}) /\ UNCHANGED stored
  BY DEF Crash
<1>2. ResultsStored /\ stored' \in [Keys -> Record \cup {None}]
  BY <1>1 DEF ResultsStored, Protocol, TypeOK
<1> QED BY <1>1, <1>2, StepDown

\* The start that is stored is of an execution that no call will register.
LEMMA UncertainFacts ==
  ASSUME Protocol, NEW c \in Calls, RegisterUncertain(c)
  PROVE  /\ leader \in Servers /\ Down(leader, {c}) /\ calls[c].phase = "started"
         /\ ResultsStored /\ stored' \in [Keys -> Record \cup {None}]
         /\ \A k \in Keys : stored'[k] # stored[k] =>
              stored'[k] # None /\ stored'[k].finished \in {0, 1} /\ ~stored'[k].success
<1> USE DEF Protocol
<1> DEFINE k == calls[c].key
           record == [finished |-> IF runs[k].attempt > 1 THEN 1 ELSE 0, success |-> FALSE]
<1>1. /\ leader \in Servers /\ Down(leader, {c}) /\ calls[c].phase = "started"
      /\ stored' = stored \/ stored' = [stored EXCEPT ![k] = record]
  BY DEF RegisterUncertain, Registered, TypeOK
<1>2. k \in Keys /\ Used(k) /\ stored[k] = None
  BY <1>1 DEF CallsHold, NothingBefore
<1>3. record \in Record /\ record.finished \in {0, 1} /\ ~record.success
  BY DEF Record
<1> HIDE DEF record
<1>4. record # None
  BY <1>3, ConstantFacts
<1>5. /\ stored' \in [Keys -> Record \cup {None}]
      /\ \A m \in Keys : stored'[m] # stored[m] => m = k /\ stored'[m] = record
  BY <1>1, <1>3 DEF TypeOK
<1>6. ASSUME NEW d \in Calls, calls'[d].phase = "started"
      PROVE  calls'[d].key # k
  <2> DEFINE ended == [calls[d] EXCEPT !.phase = "ended"]
  <2>1. calls[d] \in Call /\ ended.phase = "ended"
    BY DEF TypeOK, Call
  <2>2. calls'[d] \in {calls[d], Redial(calls[d]), ended}
        /\ (d = c => calls'[d] \in {Redial(calls[d]), ended})
    BY <1>1 DEF Down
  <2> HIDE DEF ended
  <2>3. Redial(calls[d]).phase # "started"
    BY <2>1, RedialFacts
  <2>4. d # c /\ calls'[d] = calls[d]
    BY <1>6, <2>1, <2>2, <2>3
  <2> QED BY <1>1, <1>2, <1>6, <2>4 DEF HeldByOne, Holds
<1>7. ResultsStored
  BY <1>2, <1>5, <1>6 DEF ResultsStored
<1> QED BY <1>1, <1>3, <1>4, <1>5, <1>7

LEMMA StepRegisterUncertain ==
  ASSUME Protocol, NEW c \in Calls, RegisterUncertain(c)
  PROVE  Protocol'
<1>1. /\ leader \in Servers /\ Down(leader, {c}) /\ calls[c].phase = "started"
      /\ ResultsStored /\ stored' \in [Keys -> Record \cup {None}]
  BY UncertainFacts
<1>2. {c} \in SUBSET Calls /\ \A d \in {c} : calls[d].phase = "started"
  BY <1>1
<1> QED BY <1>1, <1>2, StepDown

LEMMA InitProtocol ==
  ASSUME Init
  PROVE  Protocol
<1> DEFINE call == [phase |-> "unused", server |-> None, tries |-> 0, key |-> None]
           run == [state |-> "unused", group |-> None, node |-> None,
                   attempt |-> 0, stream |-> FALSE, last |-> 1]
<1>1. call \in Call /\ call.phase = "unused"
  BY ConstantFacts DEF Call
<1>2. run \in Run /\ run.state = "unused" /\ run.last = 1
  BY ConstantFacts DEF Run
<1>3. calls = [c \in Calls |-> call] /\ runs = [k \in Keys |-> run]
  BY DEF Init
<1> HIDE DEF call, run
<1>4. TypeOK
  <2>1. calls \in [Calls -> Call] /\ runs \in [Keys -> Run]
    BY <1>1, <1>2, <1>3
  <2>2. /\ leader \in up \cup {None} /\ up \subseteq Servers /\ checked \subseteq up
        /\ groups \in 0..MaxGroups /\ faults \in 0..MaxFaults
        /\ requests \subseteq Request /\ old \subseteq Keys
        /\ status \in {"notset", "success", "failed", "partially_failed"}
    BY ConstantFacts DEF Init
  <2>3. /\ stored \in [Keys -> Record \cup {None}]
        /\ counts \in [success : Nat, error : Nat]
        /\ chained \in [Groups -> Nat]
    BY DEF Init
  <2> QED BY <2>1, <2>2, <2>3 DEF TypeOK
<1>5. KeysInOrder /\ HeldByOne /\ CallsHold /\ NothingBefore
  BY <1>1, <1>2, <1>3 DEF Init, KeysInOrder, HeldByOne, CallsHold, NothingBefore, Used, Holds
<1>6. FinishesLeft
  BY <1>1, <1>2, <1>3 DEF FinishesLeft, MayFinish, MayBreak, Follows, One
<1>7. RetriesLeft
  BY <1>1, <1>3 DEF Init, RetriesLeft, Calls
<1> QED BY <1>4, <1>5, <1>6, <1>7 DEF Protocol

LEMMA NextProtocol ==
  ASSUME Protocol, [Next]_execVars
  PROVE  Protocol'
<1>1. ASSUME NEW s \in Servers, Check(s) \/ RunJob(s) \/ Crash(s) \/ Restart(s) \/ Elect(s)
      PROVE  Protocol'
  BY <1>1, StepCheckOrElect, StepRunJob, StepCrash, StepAside
<1>2. ASSUME NEW c \in Calls,
             Start(c) \/ DialFails(c) \/ Register(c) \/ ReceiveEnd(c) \/ NoticeBreak(c)
               \/ RegisterUncertain(c)
      PROVE  Protocol'
  BY <1>2, StepStart, StepDialFails, StepRegister, StepReport, StepRegisterUncertain
<1>3. ASSUME NEW k \in Keys,
             (\E success \in BOOLEAN : Finish(k, success))
               \/ BreakStream(k) \/ AgentCrash(k) \/ Age(k)
      PROVE  Protocol'
  BY <1>3, StepFinish, StepBreakStream, StepAside
<1>4. ASSUME NEW r \in requests,
             Forward(r) \/ ApplyDone(r) \/ ApplyUncertain(r) \/ Conclude(r)
               \/ Retry(r) \/ RetryReturns(r) \/ DependentsReturn(r)
      PROVE  Protocol'
  BY <1>4, StepForward, StepApply, StepConclude, StepRetry
<1>5. CASE LoseLeadership
  BY <1>5, StepAside
<1>6. CASE UNCHANGED execVars
  <2>1. TypeOK' /\ UNCHANGED <<calls, runs, requests, stored>>
    BY <1>6 DEF execVars, storeVars, Protocol, TypeOK
  <2> QED BY <2>1, Aside
<1> QED BY <1>1, <1>2, <1>3, <1>4, <1>5, <1>6 DEF Next

-----------------------------------------------------------------------------
(* What is counted *)

LEMMA KeysAreFinite ==
  ASSUME NEW S \in SUBSET Keys
  PROVE  IsFiniteSet(S) /\ Cardinality(S) \in Nat
<1>1. IsFiniteSet(Keys)
  BY ConstantFacts, FS_Interval DEF Keys
<1> QED BY <1>1, FS_Subset, FS_CardinalityType

\* The counters keep up with the records when the successes counted are of
\* executions that settle, and what is recorded anew is counted.
LEMMA CountsKeepUp ==
  ASSUME Counted, counts \in [success : Nat, error : Nat],
         counts' \in [success : Nat, error : Nat],
         NEW T \in SUBSET Keys, NEW S \in SUBSET Keys,
         \A k \in Keys : Settled(k) => Settled(k)',
         \A k \in T : ~Settled(k) /\ Settled(k)',
         \A k \in Keys : Recorded(k)' => Recorded(k) \/ k \in S,
         counts'.success = counts.success + Cardinality(T),
         counts'.success + counts'.error >= counts.success + counts.error + Cardinality(S)
  PROVE  Counted'
<1> DEFINE A == {k \in Keys : Settled(k)}
           B == {k \in Keys : Settled(k)'}
           C == {k \in Keys : Recorded(k)}
           D == {k \in Keys : Recorded(k)'}
<1>1. A \in SUBSET Keys /\ B \in SUBSET Keys /\ C \in SUBSET Keys /\ D \in SUBSET Keys
  OBVIOUS
<1>2. A \cap T = {} /\ A \cup T \in SUBSET B /\ D \in SUBSET (C \cup S)
  OBVIOUS
<1>3. counts.success <= Cardinality(A) /\ counts.success + counts.error >= Cardinality(C)
  BY DEF Counted
<1>4. Counted' <=> /\ counts'.success <= Cardinality(B)
                   /\ counts'.success + counts'.error >= Cardinality(D)
  BY DEF Counted
<1> HIDE DEF A, B, C, D
<1>5. /\ IsFiniteSet(A) /\ IsFiniteSet(B) /\ IsFiniteSet(C) /\ IsFiniteSet(T) /\ IsFiniteSet(S)
      /\ Cardinality(A) \in Nat /\ Cardinality(B) \in Nat /\ Cardinality(C) \in Nat
      /\ Cardinality(D) \in Nat /\ Cardinality(S) \in Nat /\ Cardinality(T) \in Nat
  BY <1>1, KeysAreFinite
<1>6. Cardinality(A) + Cardinality(T) <= Cardinality(B)
  <2>1. Cardinality(A \cup T) = Cardinality(A) + Cardinality(T) - Cardinality(A \cap T)
    BY <1>5, FS_Union
  <2>2. Cardinality(A \cap T) = 0
    BY <1>2, FS_EmptySet
  <2>3. Cardinality(A \cup T) <= Cardinality(B)
    BY <1>2, <1>5, FS_Subset
  <2> QED BY <1>5, <2>1, <2>2, <2>3
<1>7. Cardinality(D) <= Cardinality(C) + Cardinality(S)
  <2>1. /\ IsFiniteSet(C \cup S)
        /\ Cardinality(C \cup S) = Cardinality(C) + Cardinality(S) - Cardinality(C \cap S)
    BY <1>5, FS_Union
  <2>2. Cardinality(C \cap S) \in Nat
    BY <1>1, KeysAreFinite
  <2>3. Cardinality(D) <= Cardinality(C \cup S)
    BY <1>2, <2>1, FS_Subset
  <2> QED BY <1>5, <2>1, <2>2, <2>3
<1>8. counts.success \in Nat /\ counts.error \in Nat /\ counts'.success \in Nat
      /\ counts'.error \in Nat
  OBVIOUS
<1>9. counts'.success <= Cardinality(B)
  BY <1>3, <1>5, <1>6, <1>8
<1>10. counts'.success + counts'.error >= Cardinality(D)
  BY <1>3, <1>5, <1>7, <1>8
<1> QED BY <1>4, <1>9, <1>10

LEMMA CountStays ==
  ASSUME Protocol, Counted, UNCHANGED counts,
         \A k \in Keys : Settled(k) => Settled(k)',
         \A k \in Keys : Recorded(k)' => Recorded(k)
  PROVE  Counted'
<1>1. counts \in [success : Nat, error : Nat]
  BY DEF Protocol, TypeOK
<1>2. /\ {} \in SUBSET Keys /\ Cardinality({}) = 0
      /\ counts.success + 0 = counts.success
      /\ counts.success + counts.error + 0 = counts.success + counts.error
      /\ counts.success + counts.error >= counts.success + counts.error
  BY <1>1, FS_EmptySet
<1> QED BY <1>1, <1>2, CountsKeepUp

\* No execution succeeds, no stream opens and no call takes up an execution.
RunsCalm ==
  \A k \in Keys :
    /\ runs'[k].state = "succeeded" <=> runs[k].state = "succeeded"
    /\ runs'[k].stream => runs[k].stream
FollowsFade == \A c \in Calls, k \in Keys : Follows(c, k)' => Follows(c, k)

\* The successes that are reported were reported before.
SuccessesMove ==
  /\ \A q \in requests' : q.success =>
       \E r \in requests : /\ q.key = r.key /\ r.success
                           /\ q.stage = "sent" => r.stage = "sent"
  /\ \A p, q \in requests' : p.success /\ q.success /\ p.stage = "sent" /\ q.stage = "sent"
                               /\ p.key = q.key => p = q

LEMMA NoNewSuccess ==
  ASSUME SuccessesAreReal, SentOnce, TypeOK, TypeOK',
         RunsCalm, FollowsFade, SuccessesMove,
         \A k \in Keys : stored'[k] # None /\ stored'[k].success =>
           \/ stored[k] # None /\ stored[k].success
           \/ \E r \in requests : r.key = k /\ r.success
  PROVE  /\ SuccessesAreReal' /\ SentOnce'
         /\ \A k \in Keys : OnItsWay(k)' => OnItsWay(k)
         /\ \A k \in Keys : WillReport(k)' => WillReport(k)
         /\ \A k \in Keys : Settled(k) => Settled(k)'
<1>1. /\ \A r \in requests : r.key \in Keys
      /\ \A r \in requests' : r.key \in Keys
  BY DEF TypeOK, Request
<1>2. \A k \in Keys : OnItsWay(k)' => OnItsWay(k)
  BY DEF OnItsWay, SuccessesMove
<1>3. \A k \in Keys : WillReport(k)' => WillReport(k)
  BY DEF WillReport, MayBreak, RunsCalm, FollowsFade
<1>4. \A k \in Keys : Settled(k) => Settled(k)'
  BY <1>2, <1>3 DEF Settled, RunsCalm
<1>5. SuccessesAreReal'
  BY <1>1 DEF SuccessesAreReal, RunsCalm, SuccessesMove
<1>6. SentOnce'
  BY <1>2, <1>3 DEF SentOnce, SuccessesMove
<1> QED BY <1>2, <1>3, <1>4, <1>5, <1>6

\* A step that reports no success and records nothing keeps the count.
LEMMA Uncounted ==
  ASSUME Inv, Protocol', RunsCalm, FollowsFade, SuccessesMove, UNCHANGED counts,
         \A k \in Keys : stored'[k] # stored[k] =>
           ~Recorded(k)' /\ (stored'[k] # None => ~stored'[k].success)
  PROVE  Inv'
<1>1. /\ SuccessesAreReal' /\ SentOnce'
      /\ \A k \in Keys : Settled(k) => Settled(k)'
  BY NoNewSuccess DEF Inv, Protocol
<1>2. \A k \in Keys : Recorded(k)' => Recorded(k)
  BY DEF Recorded
<1>3. Counted'
  BY <1>1, <1>2, CountStays DEF Inv
<1> QED BY <1>1, <1>3 DEF Inv

LEMMA FadeFacts ==
  ASSUME Protocol
  PROVE  /\ LetGo => FollowsFade
         /\ RunsFade => RunsCalm
         /\ UNCHANGED calls => FollowsFade
         /\ UNCHANGED runs => RunsCalm
BY DEF LetGo, FollowsFade, Follows, RunsFade, RunsCalm

LEMMA SuccessesStay ==
  ASSUME SentOnce, requests' \subseteq requests
  PROVE  SuccessesMove
BY DEF SentOnce, SuccessesMove

\* One request moves on.
LEMMA SuccessMoves ==
  ASSUME SentOnce, NEW r \in requests, NEW q,
         q.key = r.key, q.success = r.success, q.stage = "sent" => r.stage = "sent",
         requests' \subseteq (requests \ {r}) \cup {q}
  PROVE  SuccessesMove
BY DEF SentOnce, SuccessesMove

LEMMA CountDials ==
  ASSUME Inv, Protocol',
         \/ \E s \in Servers : RunJob(s) \/ Restart(s)
         \/ \E c \in Calls : DialFails(c)
         \/ \E k \in Keys : Age(k)
         \/ LoseLeadership
         \/ UNCHANGED execVars
  PROVE  Inv'
<1>1. UNCHANGED <<runs, requests, stored, counts>>
  BY DEF RunJob, Restart, DialFails, Age, LoseLeadership, execVars, storeVars
<1>2. FollowsFade
  <2>1. ASSUME NEW s \in Servers, RunJob(s) PROVE FollowsFade
    <3>1. \A c \in Calls : calls'[c] = calls[c] \/ calls'[c] = Dialing(s)
      BY <2>1 DEF RunJob, Inv, Protocol, TypeOK
    <3>2. Dialing(s).phase = "dialing"
      BY DEF Dialing
    <3> QED BY <3>1, <3>2 DEF FollowsFade, Follows
  <2>2. ASSUME NEW c \in Calls, DialFails(c) PROVE FollowsFade
    <3>1. LetGo
      BY <2>2, RedialLetsGo DEF DialFails, Inv, Protocol
    <3> QED BY <3>1, FadeFacts DEF Inv
  <2>3. UNCHANGED calls => FollowsFade
    BY FadeFacts DEF Inv
  <2> QED BY <2>1, <2>2, <2>3 DEF Restart, Age, LoseLeadership, execVars
<1>3. RunsCalm /\ SuccessesMove
  BY <1>1, FadeFacts, SuccessesStay DEF Inv
<1> QED BY <1>1, <1>2, <1>3, Uncounted

LEMMA CountBreaks ==
  ASSUME Inv, Protocol',
         \/ \E k \in Keys : BreakStream(k) \/ AgentCrash(k)
         \/ \E c \in Calls : Register(c)
  PROVE  Inv'
<1> USE DEF Inv
<1>1. requests' = requests /\ counts' = counts
  BY DEF BreakStream, AgentCrash, Register, storeVars
<1>2. SuccessesMove
  BY <1>1, SuccessesStay
<1>3. ASSUME NEW k \in Keys, BreakStream(k) \/ AgentCrash(k) PROVE Inv'
  <2>1. runs[k] \in Run
    BY DEF Protocol, TypeOK
  <2>2. \/ runs' = [runs EXCEPT ![k] = [runs[k] EXCEPT !.stream = FALSE]]
        \/ /\ runs' = [runs EXCEPT ![k] = [runs[k] EXCEPT !.state = "lost", !.stream = FALSE]]
           /\ runs[k].state = "running"
    BY <1>3 DEF BreakStream, AgentCrash
  <2>3. PICK run \in Run :
          /\ runs' = [runs EXCEPT ![k] = run] /\ ~run.stream
          /\ \/ run.state = runs[k].state
             \/ run.state = "lost" /\ runs[k].state = "running"
    <3> DEFINE a == [runs[k] EXCEPT !.stream = FALSE]
               b == [runs[k] EXCEPT !.state = "lost", !.stream = FALSE]
    <3>1. a \in Run /\ a.state = runs[k].state /\ ~a.stream
      BY <2>1 DEF Run
    <3>2. b \in Run /\ b.state = "lost" /\ ~b.stream
      BY <2>1 DEF Run
    <3>3. \/ runs' = [runs EXCEPT ![k] = a]
          \/ runs' = [runs EXCEPT ![k] = b] /\ runs[k].state = "running"
      BY <2>2
    <3> HIDE DEF a, b
    <3> QED BY <3>1, <3>2, <3>3
  <2>4. RunsCalm
    BY <2>3 DEF RunsCalm, Protocol, TypeOK
  <2>5. FollowsFade /\ UNCHANGED stored
    BY <1>3, FadeFacts DEF BreakStream, AgentCrash, storeVars
  <2> QED BY <1>1, <1>2, <2>4, <2>5, Uncounted
<1>4. ASSUME NEW c \in Calls, Register(c) PROVE Inv'
  <2> DEFINE k == calls[c].key
  <2>1. k \in Keys /\ runs[k] \in Run /\ calls[c] \in Call /\ calls[c].phase = "started"
    BY <1>4 DEF Register, Protocol, TypeOK, CallsHold
  <2>2. CASE leader = None
    <3>1. /\ calls' = [calls EXCEPT ![c] = Redial(@)]
          /\ runs' = [runs EXCEPT ![k] = [runs[k] EXCEPT !.stream = FALSE]]
          /\ UNCHANGED stored
      BY <1>4, <2>2 DEF Register
    <3>2. FollowsFade
      BY <2>1, <3>1, RedialLetsGo, FadeFacts DEF Protocol
    <3>3. RunsCalm
      BY <2>1, <3>1 DEF RunsCalm, Run, Protocol, TypeOK
    <3> QED BY <1>1, <1>2, <3>1, <3>2, <3>3, Uncounted
  <2>3. CASE leader # None
    <3> DEFINE record == [finished |-> IF runs[k].attempt > 1 THEN 1 ELSE 0, success |-> FALSE]
    <3>1. /\ calls' = [calls EXCEPT ![c].phase = "open"]
          /\ stored' = [stored EXCEPT ![k] = record]
          /\ UNCHANGED runs
      BY <1>4, <2>3 DEF Register, Registered
    <3>2. record.finished \in {0, 1} /\ ~record.success
      OBVIOUS
    <3> HIDE DEF record
    <3>3. FollowsFade
      BY <2>1, <3>1 DEF FollowsFade, Follows, Protocol, TypeOK, Call
    <3>4. \A m \in Keys : stored'[m] # stored[m] => stored'[m] = record
      BY <3>1 DEF Protocol, TypeOK
    <3>5. RunsCalm
      BY <3>1, FadeFacts
    <3> QED BY <1>1, <1>2, <3>2, <3>3, <3>4, <3>5, Uncounted DEF Recorded
  <2> QED BY <2>2, <2>3
<1> QED BY <1>3, <1>4

LEMMA CountAnswers ==
  ASSUME Inv, Protocol', NEW r \in requests,
         Forward(r) \/ Conclude(r) \/ Retry(r) \/ RetryReturns(r) \/ DependentsReturn(r)
  PROVE  Inv'
<1> USE DEF Inv
<1>1. UNCHANGED <<runs, stored, counts>> /\ r \in Request
  BY DEF Forward, Conclude, Retry, RetryReturns, DependentsReturn, storeVars, Protocol, TypeOK
<1>2. RunsCalm
  BY <1>1, FadeFacts
<1>3. SuccessesMove
  <2>1. CASE requests' = requests \ {r}
    BY <2>1, SuccessesStay
  <2>2. ASSUME NEW stage \in {"backoff", "retrying", "chaining"},
               requests' = (requests \ {r}) \cup {[r EXCEPT !.stage = stage]}
        PROVE  SuccessesMove
    <3> DEFINE q == [r EXCEPT !.stage = stage]
    <3>1. q.key = r.key /\ q.success = r.success /\ q.stage = stage
      BY <1>1, StageFacts
    <3>2. requests' \subseteq (requests \ {r}) \cup {q}
      BY <2>2
    <3> HIDE DEF q
    <3> QED BY <3>1, <3>2, SuccessMoves
  <2>3. CASE Forward(r) /\ leader # None
    <3> DEFINE p == [r EXCEPT !.server = leader]
               q == [p EXCEPT !.forwarded = TRUE]
    <3>1. requests' \subseteq (requests \ {r}) \cup {q} /\ r.stage = "sent"
      BY <2>3 DEF Forward
    <3>2. p \in Request /\ p.key = r.key /\ p.success = r.success
      BY <1>1, <2>3 DEF Request, Protocol, TypeOK
    <3> HIDE DEF p
    <3>3. q.key = r.key /\ q.success = r.success
      BY <3>2 DEF Request
    <3> HIDE DEF q
    <3> QED BY <3>1, <3>3, SuccessMoves
  <2> QED BY <2>1, <2>2, <2>3 DEF Forward, Conclude, Retry, RetryReturns, DependentsReturn
<1>4. FollowsFade
  <2>1. CASE calls' = Returned(r.caller)
    BY <2>1, AnswerFacts, FadeFacts
  <2>2. CASE UNCHANGED calls
    BY <2>2, FadeFacts
  <2>3. CASE calls' = [calls EXCEPT ![<<r.key, r.finished>>] = Dialing(r.server)]
    <3>1. Dialing(r.server).phase = "dialing"
      BY DEF Dialing
    <3>2. \A c \in Calls : calls'[c] = calls[c] \/ calls'[c] = Dialing(r.server)
      BY <2>3 DEF Protocol, TypeOK
    <3> QED BY <3>1, <3>2 DEF FollowsFade, Follows
  <2> QED BY <2>1, <2>2, <2>3 DEF Forward, Conclude, Retry, RetryReturns, DependentsReturn
<1> QED BY <1>1, <1>2, <1>3, <1>4, Uncounted

LEMMA CountDown ==
  ASSUME Inv, Protocol', NEW s \in Servers, NEW cut \in SUBSET Calls, Down(s, cut),
         \A k \in Keys : stored'[k] # stored[k] =>
           ~Recorded(k)' /\ (stored'[k] # None => ~stored'[k].success)
  PROVE  Inv'
<1> USE DEF Inv
<1>1. UNCHANGED counts
  BY DEF Down
<1>2. RunsCalm
  <2> DEFINE gone == {c \in Calls : calls[c].phase \in {"dialing", "started", "open", "reporting"}
                                      /\ calls[c].server = s}
             closed(k) == \E c \in gone \cup cut : calls[c].key = k
  <2>1. runs' = [k \in Keys |-> IF closed(k) THEN [runs[k] EXCEPT !.stream = FALSE] ELSE runs[k]]
    BY DEF Down
  <2> HIDE DEF closed
  <2>2. ASSUME NEW k \in Keys
        PROVE  runs'[k].state = runs[k].state /\ (runs'[k].stream => runs[k].stream)
    <3> DEFINE run == [runs[k] EXCEPT !.stream = FALSE]
    <3>1. run.state = runs[k].state /\ ~run.stream
      BY DEF Protocol, TypeOK, Run
    <3>2. runs'[k] = run \/ runs'[k] = runs[k]
      BY <2>1
    <3> HIDE DEF run
    <3> QED BY <3>1, <3>2
  <2> QED BY <2>2 DEF RunsCalm
<1>3. FollowsFade
  <2>1. ASSUME NEW c \in Calls
        PROVE  calls'[c] = calls[c] \/ calls'[c].phase \in {"dialing", "ended"}
    <3> DEFINE call == [calls[c] EXCEPT !.phase = "ended"]
    <3>1. calls[c] \in Call
      BY DEF Protocol, TypeOK
    <3>2. call.phase = "ended"
      BY <3>1 DEF Call
    <3>3. calls'[c] \in {calls[c], Redial(calls[c]), call}
      BY DEF Down
    <3> HIDE DEF call
    <3> QED BY <3>1, <3>2, <3>3, RedialFacts
  <2> QED BY <2>1 DEF FollowsFade, Follows
<1>4. SuccessesMove
  <2> DEFINE gone == {c \in Calls : calls[c].phase \in {"dialing", "started", "open", "reporting"}
                                      /\ calls[c].server = s}
             image(r) == IF r.caller \in gone THEN [r EXCEPT !.caller = None] ELSE r
  <2>1. \A q \in requests' : \E r \in requests : q = image(r)
    BY DEF Down
  <2>2. ASSUME NEW r \in requests
        PROVE  /\ image(r).key = r.key /\ image(r).success = r.success
               /\ image(r).stage = r.stage
    <3> DEFINE q == [r EXCEPT !.caller = None]
    <3>1. q.key = r.key /\ q.success = r.success /\ q.stage = r.stage
      BY DEF Protocol, TypeOK, Request
    <3>2. image(r) = q \/ image(r) = r
      OBVIOUS
    <3> HIDE DEF q, image
    <3> QED BY <3>1, <3>2
  <2> HIDE DEF image
  <2> QED BY <2>1, <2>2 DEF SuccessesMove, SentOnce
<1> QED BY <1>1, <1>2, <1>3, <1>4, Uncounted

LEMMA CountCrash ==
  ASSUME Inv, Protocol', NEW s \in Servers, Crash(s)
  PROVE  Inv'
BY CountDown DEF Crash

LEMMA CountUncertain ==
  ASSUME Inv, Protocol', NEW c \in Calls, RegisterUncertain(c)
  PROVE  Inv'
<1>1. /\ leader \in Servers /\ Down(leader, {c})
      /\ \A k \in Keys : stored'[k] # stored[k] =>
           stored'[k] # None /\ stored'[k].finished \in {0, 1} /\ ~stored'[k].success
  BY UncertainFacts DEF Inv
<1>2. \A k \in Keys : stored'[k] # stored[k] =>
        ~Recorded(k)' /\ (stored'[k] # None => ~stored'[k].success)
  BY <1>1 DEF Recorded
<1> QED BY <1>1, <1>2, CountDown

LEMMA CountStart ==
  ASSUME Inv, Protocol', NEW c \in Calls, Start(c)
  PROVE  Inv'
<1> USE DEF Inv
<1> DEFINE U == {m \in Keys : runs[m].state # "unused"}
           k == Cardinality(U) + 1
<1>1. /\ k \in Keys
      /\ runs' = [runs EXCEPT ![k] = runs'[k]] /\ runs'[k].state = "running"
      /\ calls' = [calls EXCEPT ![c].phase = "started", ![c].key = k]
      /\ UNCHANGED <<requests, stored, counts>>
  BY DEF Start, storeVars, Protocol, TypeOK
<1>2. ~Used(k)
  BY <1>1, NextKey
<1> HIDE DEF k
<1>3. \A m \in Keys : m # k => runs'[m] = runs[m]
  BY <1>1 DEF Protocol, TypeOK
<1>4. \A r \in requests : r.key \in Keys /\ r.key # k
  BY <1>1, <1>2 DEF Protocol, NothingBefore, TypeOK, Request
<1>5. \A m \in Keys : m # k => (MayBreak(m)' => MayBreak(m))
  BY <1>1 DEF MayBreak, Follows, Protocol, TypeOK, Call
<1>6. \A m \in Keys : OnItsWay(m)' = OnItsWay(m)
  BY <1>1 DEF OnItsWay
<1>7. runs[k].state # "succeeded" /\ stored[k] = None /\ ~OnItsWay(k)
  BY <1>1, <1>2, <1>4 DEF Used, OnItsWay, Protocol, NothingBefore
<1>8. SuccessesAreReal'
  BY <1>1, <1>3, <1>4, <1>7 DEF SuccessesAreReal
<1>9. SentOnce'
  <2>1. \A m \in Keys : m # k => (WillReport(m)' => WillReport(m))
    BY <1>3, <1>5 DEF WillReport
  <2> QED BY <1>1, <1>6, <1>7, <2>1 DEF SentOnce
<1>10. \A m \in Keys : Settled(m) => Settled(m)'
  BY <1>3, <1>5, <1>6, <1>7 DEF Settled, WillReport
<1>11. \A m \in Keys : Recorded(m)' => Recorded(m)
  BY <1>1 DEF Recorded
<1>12. Counted'
  BY <1>1, <1>10, <1>11, CountStays
<1> QED BY <1>8, <1>9, <1>12

LEMMA CountFinish ==
  ASSUME Inv, Protocol', NEW k \in Keys, NEW success \in BOOLEAN, Finish(k, success)
  PROVE  Inv'
<1> USE DEF Inv
<1>1. /\ runs[k].state = "running" /\ runs[k] \in Run
      /\ UNCHANGED <<calls, stored, counts>>
  BY DEF Finish, storeVars, Protocol, TypeOK
<1>2. /\ \A m \in Keys : m # k => runs'[m] = runs[m]
      /\ runs'[k].stream = runs[k].stream
      /\ runs'[k].state = IF success THEN "succeeded" ELSE "failed"
  <2> DEFINE state == IF success THEN "succeeded" ELSE "failed"
             r == [runs[k] EXCEPT !.state = state]
             run == [r EXCEPT !.last = runs[k].last + 1]
  <2>1. runs' = [runs EXCEPT ![k] = run]
    BY DEF Finish
  <2>2. state \in {"succeeded", "failed"}
    OBVIOUS
  <2> HIDE DEF state
  <2>3. r \in Run /\ r.state = state /\ r.stream = runs[k].stream
    BY <1>1, <2>2 DEF Run
  <2> HIDE DEF r
  <2>4. run.state = state /\ run.stream = runs[k].stream
    BY <2>3 DEF Run
  <2> HIDE DEF run
  <2>5. runs'[k].state = state /\ runs'[k].stream = runs[k].stream
        /\ \A m \in Keys : m # k => runs'[m] = runs[m]
    BY <2>1, <2>4 DEF Protocol, TypeOK
  <2> QED BY <2>5 DEF state
<1>3. PICK q : /\ requests' = requests \/ (requests' = requests \cup {q} /\ ~runs[k].stream)
               /\ q.key = k /\ q.success = success /\ q.stage = "sent"
  <2> DEFINE q(s) == [key |-> k, finished |-> runs[k].last + 1, success |-> success, server |-> s,
                      caller |-> None, forwarded |-> FALSE, stage |-> "sent"]
  <2>1. \/ requests' = requests
        \/ ~runs[k].stream /\ \E s \in up : requests' = requests \cup {q(s)}
    BY DEF Finish
  <2>2. \A s : q(s).key = k /\ q(s).success = success /\ q(s).stage = "sent"
    OBVIOUS
  <2> HIDE DEF q
  <2> QED BY <2>1, <2>2
<1>4. \A r \in requests : r.key \in Keys /\ (r.success => r.key # k)
  BY <1>1 DEF SuccessesAreReal, Protocol, TypeOK, Request
<1>5. stored[k] # None => ~stored[k].success
  BY <1>1 DEF SuccessesAreReal
<1>6. /\ \A m \in Keys : MayBreak(m)' = MayBreak(m)
      /\ \A m \in Keys : WillReport(m)' = WillReport(m)
      /\ \A m \in Keys : m # k => OnItsWay(m)' = OnItsWay(m)
      /\ OnItsWay(k)' => ~WillReport(k)'
  BY <1>1, <1>2, <1>3, <1>4 DEF MayBreak, WillReport, Follows, OnItsWay
<1>7. SuccessesAreReal'
  BY <1>1, <1>2, <1>3, <1>4, <1>5 DEF SuccessesAreReal
<1>8. SentOnce'
  BY <1>3, <1>4, <1>6 DEF SentOnce
<1>9. \A m \in Keys : Settled(m) => Settled(m)'
  BY <1>1, <1>2, <1>6 DEF Settled
<1>10. \A m \in Keys : Recorded(m)' => Recorded(m)
  BY <1>1 DEF Recorded
<1>11. Counted'
  BY <1>1, <1>9, <1>10, CountStays
<1> QED BY <1>7, <1>8, <1>11

LEMMA CountReport ==
  ASSUME Inv, Protocol', NEW c \in Calls, ReceiveEnd(c) \/ NoticeBreak(c)
  PROVE  Inv'
<1> USE DEF Inv
<1>0. PICK k \in Keys : k = calls[c].key
  BY DEF ReceiveEnd, NoticeBreak, Protocol, CallsHold
<1>1. /\ calls[c].phase = "open" /\ calls[c] \in Call /\ runs[k] \in Run /\ runs[k].last \in Nat
      /\ UNCHANGED <<stored, counts>>
  <2>1. calls[c].phase = "open" /\ UNCHANGED <<stored, counts>>
    BY DEF ReceiveEnd, NoticeBreak, storeVars
  <2> QED BY <2>1 DEF Protocol, TypeOK, Run
<1>2. \A m \in Keys : runs'[m].state = runs[m].state /\ runs'[m].stream = runs[m].stream
  <2> DEFINE run == [runs[k] EXCEPT !.last = runs[k].last + 1]
  <2>1. run.state = runs[k].state /\ run.stream = runs[k].stream
    BY <1>1 DEF Run
  <2>2. runs' = runs \/ runs' = [runs EXCEPT ![k] = run]
    BY <1>0 DEF ReceiveEnd, NoticeBreak
  <2> HIDE DEF run
  <2> QED BY <2>1, <2>2 DEF Protocol, TypeOK
<1>3. PICK finished \in Nat, success \in BOOLEAN :
        /\ Report(c, finished, success)
        /\ success => runs[k].state = "succeeded" /\ runs[k].stream
  <2>1. CASE ReceiveEnd(c)
    <3> DEFINE success == runs[k].state = "succeeded"
    <3>1. Report(c, runs[k].last, success) /\ runs[k].stream
      BY <1>0, <2>1 DEF ReceiveEnd
    <3>2. success \in BOOLEAN /\ (success => runs[k].state = "succeeded")
      OBVIOUS
    <3> HIDE DEF success
    <3> QED BY <1>1, <3>1, <3>2
  <2>2. CASE NoticeBreak(c)
    <3> DEFINE success == FALSE
    <3>1. Report(c, runs[calls[c].key].last + 1, success)
      BY <2>2 DEF NoticeBreak
    <3>2. success \in BOOLEAN /\ ~success
      OBVIOUS
    <3> HIDE DEF success
    <3>3. Report(c, runs[k].last + 1, success) /\ runs[k].last + 1 \in Nat
      BY <1>0, <1>1, <3>1
    <3> QED BY <3>2, <3>3
  <2> QED BY <2>1, <2>2
<1>4. RunsCalm
  BY <1>2 DEF RunsCalm
<1> DEFINE q == [key |-> k, finished |-> finished, success |-> success, server |-> leader,
                 caller |-> c, forwarded |-> FALSE, stage |-> "sent"]
<1>5. q.key = k /\ q.success = success /\ q.stage = "sent"
  OBVIOUS
<1>6. \/ calls' = [calls EXCEPT ![c] = Redial(@)] /\ UNCHANGED requests
      \/ calls' = [calls EXCEPT ![c].phase = "reporting"] /\ requests' = requests \cup {q}
  BY <1>0, <1>3 DEF Report
<1> HIDE DEF q
<1>7. \A d \in Calls : d # c => calls'[d] = calls[d]
  BY <1>6 DEF Protocol, TypeOK
<1>8. calls'[c].phase \in {"dialing", "ended", "reporting"}
  BY <1>1, <1>6, RedialFacts DEF Protocol, TypeOK, Call
<1>9. FollowsFade
  BY <1>7, <1>8 DEF FollowsFade, Follows
<1>10. CASE UNCHANGED requests \/ ~success
  <2>1. SuccessesMove
    BY <1>5, <1>6, <1>10 DEF SuccessesMove, SentOnce
  <2> QED BY <1>1, <1>4, <1>9, <2>1, Uncounted
<1>11. CASE success /\ requests' = requests \cup {q}
  <2>1. MayBreak(k) /\ WillReport(k)
    BY <1>0, <1>1, <1>3, <1>11 DEF MayBreak, WillReport, Follows
  <2>2. ~OnItsWay(k)
    BY <1>1, <2>1 DEF SentOnce
  <2>3. ~MayBreak(k)'
    <3>1. \A d \in Calls : Follows(d, k) => d = c
      BY <1>0, <1>1 DEF Follows, Protocol, HeldByOne, Holds
    <3> QED BY <1>7, <1>8, <3>1 DEF MayBreak, Follows
  <2>4. \A m \in Keys : /\ WillReport(m)' => WillReport(m)
                        /\ m # k => OnItsWay(m)' = OnItsWay(m)
    BY <1>4, <1>5, <1>9, <1>11 DEF WillReport, MayBreak, FollowsFade, RunsCalm, OnItsWay
  <2>5. SuccessesAreReal'
    BY <1>1, <1>2, <1>3, <1>5, <1>11 DEF SuccessesAreReal, Protocol, TypeOK, Request
  <2>6. SentOnce'
    <3>1. ~(OnItsWay(k)' /\ WillReport(k)')
      BY <2>3 DEF WillReport
    <3> QED BY <1>5, <1>11, <2>2, <2>4, <3>1 DEF SentOnce, OnItsWay
  <2>7. \A m \in Keys : Settled(m) => Settled(m)'
    BY <1>4, <2>1, <2>4 DEF Settled, RunsCalm
  <2>8. \A m \in Keys : Recorded(m)' => Recorded(m)
    BY <1>1 DEF Recorded
  <2>9. Counted'
    BY <1>1, <2>7, <2>8, CountStays
  <2> QED BY <2>5, <2>6, <2>9
<1> QED BY <1>6, <1>10, <1>11

\* A success that is applied settles its execution.
LEMMA CountApply ==
  ASSUME Inv, Protocol', NEW r \in requests, ApplyDone(r) \/ ApplyUncertain(r)
  PROVE  Inv'
<1> USE DEF Inv
<1>1. PICK q : /\ requests' \subseteq (requests \ {r}) \cup {q}
               /\ q.key = r.key /\ q.success = r.success /\ q.stage = "applied"
  <2> DEFINE q == [r EXCEPT !.stage = "applied"]
  <2>1. q.key = r.key /\ q.success = r.success /\ q.stage = "applied"
    BY StageFacts DEF Protocol, TypeOK
  <2>2. requests' \subseteq (requests \ {r}) \cup {q}
    BY DEF ApplyDone, ApplyUncertain
  <2> HIDE DEF q
  <2> QED BY <2>1, <2>2
<1>2. PICK k \in Keys : k = r.key
  BY DEF Protocol, TypeOK, Request
<1>3. /\ r.stage = "sent" /\ UNCHANGED runs
      /\ StoreResult(r.key, r.finished, r.success) \/ UNCHANGED storeVars
  BY DEF ApplyDone, ApplyUncertain
<1>4. /\ counts \in [success : Nat, error : Nat]
      /\ counts' \in [success : Nat, error : Nat]
      /\ \/ UNCHANGED storeVars
         \/ /\ \A m \in Keys : m # k => stored'[m] = stored[m]
            /\ stored'[k].success = r.success
            /\ counts'.success = counts.success + One(r.success)
            /\ counts'.error = counts.error + One(~r.success)
  BY <1>2, <1>3, StoreResultFacts DEF Protocol, TypeOK
<1>5. RunsCalm
  BY <1>3, FadeFacts
<1>6. FollowsFade
  <2>1. UNCHANGED calls \/ calls' = Returned(r.caller)
    BY DEF ApplyDone, ApplyUncertain
  <2> QED BY <2>1, AnswerFacts, FadeFacts
<1>7. SuccessesMove
  BY <1>1, SuccessMoves
<1>8. \A m \in Keys : stored'[m] # None /\ stored'[m].success =>
        \/ stored[m] # None /\ stored[m].success
        \/ \E p \in requests : p.key = m /\ p.success
  <2>1. UNCHANGED storeVars => UNCHANGED stored
    BY DEF storeVars
  <2> QED BY <1>2, <1>4, <2>1
<1>9. /\ SuccessesAreReal' /\ SentOnce'
      /\ \A m \in Keys : WillReport(m)' => WillReport(m)
      /\ \A m \in Keys : Settled(m) => Settled(m)'
  BY <1>5, <1>6, <1>7, <1>8, NoNewSuccess DEF Protocol
<1>10. CASE UNCHANGED storeVars
  <2>1. UNCHANGED <<stored, counts>>
    BY <1>10 DEF storeVars
  <2>2. \A m \in Keys : Recorded(m)' => Recorded(m)
    BY <2>1 DEF Recorded
  <2>3. Counted'
    BY <1>9, <2>1, <2>2, CountStays
  <2> QED BY <1>9, <2>3
<1>11. CASE ~UNCHANGED storeVars
  <2>1. \A m \in Keys : Recorded(m)' => Recorded(m) \/ m \in {k}
    BY <1>4, <1>11 DEF Recorded
  <2>2. Cardinality({k}) = 1 /\ Cardinality({}) = 0
    BY FS_Singleton, FS_EmptySet
  <2>3. counts'.success + counts'.error = counts.success + counts.error + 1
    BY <1>4, <1>11 DEF One
  <2>4. {k} \in SUBSET Keys /\ {} \in SUBSET Keys
    OBVIOUS
  <2>5. counts'.success + counts'.error >= counts.success + counts.error + Cardinality({k})
    BY <1>4, <2>2, <2>3
  <2>6. CASE r.success
    <3>1. OnItsWay(k) /\ ~Settled(k)
      BY <1>2, <1>3, <2>6 DEF OnItsWay, Settled
    <3>2. ~OnItsWay(k)'
      BY <1>1, <1>2, <1>3, <2>6 DEF OnItsWay, SentOnce
    <3>3. ~WillReport(k)'
      BY <1>9, <3>1 DEF SentOnce
    <3>4. Settled(k)'
      <4>1. runs'[k].state = "succeeded"
        BY <1>2, <1>3, <2>6 DEF SuccessesAreReal
      <4> QED BY <3>2, <3>3, <4>1 DEF Settled
    <3>5. counts'.success = counts.success + Cardinality({k})
      BY <1>4, <1>11, <2>2, <2>6 DEF One
    <3>6. Counted'
      BY <1>4, <1>9, <2>1, <2>4, <2>5, <3>1, <3>4, <3>5, CountsKeepUp
    <3> QED BY <1>9, <3>6
  <2>7. CASE ~r.success
    <3>1. counts'.success = counts.success + Cardinality({})
      BY <1>4, <1>11, <2>2, <2>7 DEF One
    <3>2. Counted'
      BY <1>4, <1>9, <2>1, <2>4, <2>5, <3>1, CountsKeepUp
    <3> QED BY <1>9, <3>2
  <2> QED BY <2>6, <2>7
<1> QED BY <1>10, <1>11

LEMMA CountCleanUp ==
  ASSUME Inv, Protocol', NEW s \in Servers, Check(s) \/ Elect(s)
  PROVE  Inv'
<1> USE DEF Inv
<1>1. UNCHANGED <<calls, requests>>
  BY DEF Check, Elect
<1>2. SuccessesMove /\ FollowsFade
  BY <1>1, SuccessesStay, FadeFacts
<1>3. CASE UNCHANGED <<runs, storeVars>>
  <2>1. UNCHANGED <<runs, stored, counts>>
    BY <1>3 DEF storeVars
  <2>2. RunsCalm
    BY <2>1, FadeFacts
  <2> QED BY <1>2, <2>1, <2>2, Uncounted
<1>4. CASE CleanUp
  <2>1. RunsCalm
    <3>1. \A m \in Keys : runs'[m] = runs[m] \/ runs'[m] = [runs[m] EXCEPT !.last = runs[m].last + 1]
      BY <1>4, CleanUpFacts
    <3> QED BY <3>1 DEF RunsCalm, Protocol, TypeOK, Run
  <2>2. \A k \in Keys : k \notin Stale => stored'[k] = stored[k]
    BY <1>4, CleanUpFacts
  <2>3. \A k \in Keys : stored'[k] # stored[k] => ~stored'[k].success
    BY <1>4, CleanUpFacts
  <2>4. /\ SuccessesAreReal' /\ SentOnce'
        /\ \A k \in Keys : Settled(k) => Settled(k)'
    BY <1>2, <2>1, <2>3, NoNewSuccess DEF Protocol
  <2>5. \A k \in Keys : Recorded(k)' => Recorded(k) \/ k \in Stale
    BY <2>2 DEF Recorded
  <2>6. /\ counts'.success = counts.success
        /\ counts'.error = counts.error + Cardinality(Stale)
        /\ Stale \in SUBSET Keys
        /\ counts \in [success : Nat, error : Nat]
        /\ counts' \in [success : Nat, error : Nat]
    BY <1>4, CleanUpFacts DEF Protocol, TypeOK
  <2>7. /\ {} \in SUBSET Keys /\ Cardinality({}) = 0 /\ Cardinality(Stale) \in Nat
    BY <2>6, FS_EmptySet, KeysAreFinite
  <2>8. /\ counts'.success = counts.success + Cardinality({})
        /\ counts'.success + counts'.error >= counts.success + counts.error + Cardinality(Stale)
    BY <2>6, <2>7
  <2>9. Counted'
    BY <2>4, <2>5, <2>6, <2>7, <2>8, CountsKeepUp
  <2> QED BY <2>4, <2>9
<1> QED BY <1>3, <1>4 DEF Check, Elect

LEMMA InitInv ==
  ASSUME Init
  PROVE  Inv
<1>1. Protocol
  BY InitProtocol
<1>2. \A k \in Keys : stored[k] = None /\ runs[k].state = "unused"
  BY DEF Init
<1>3. requests = {} /\ counts.success = 0 /\ counts.error = 0
  BY DEF Init
<1>4. {k \in Keys : Settled(k)} = {} /\ {k \in Keys : Recorded(k)} = {}
  BY <1>2 DEF Settled, Recorded
<1>5. Counted
  BY <1>3, <1>4, FS_EmptySet DEF Counted
<1>6. SuccessesAreReal /\ SentOnce
  BY <1>2, <1>3 DEF SuccessesAreReal, SentOnce, OnItsWay
<1> QED BY <1>1, <1>5, <1>6 DEF Inv

LEMMA NextInv ==
  ASSUME Inv, [Next]_execVars
  PROVE  Inv'
<1>1. Protocol'
  BY NextProtocol DEF Inv
<1>2. ASSUME NEW s \in Servers, Check(s) \/ RunJob(s) \/ Crash(s) \/ Restart(s) \/ Elect(s)
      PROVE  Inv'
  BY <1>1, <1>2, CountCleanUp, CountDials, CountCrash
<1>3. ASSUME NEW c \in Calls,
             Start(c) \/ DialFails(c) \/ Register(c) \/ ReceiveEnd(c) \/ NoticeBreak(c)
               \/ RegisterUncertain(c)
      PROVE  Inv'
  BY <1>1, <1>3, CountStart, CountDials, CountBreaks, CountReport, CountUncertain
<1>4. ASSUME NEW k \in Keys,
             (\E success \in BOOLEAN : Finish(k, success))
               \/ BreakStream(k) \/ AgentCrash(k) \/ Age(k)
      PROVE  Inv'
  BY <1>1, <1>4, CountFinish, CountBreaks, CountDials
<1>5. ASSUME NEW r \in requests,
             Forward(r) \/ ApplyDone(r) \/ ApplyUncertain(r) \/ Conclude(r)
               \/ Retry(r) \/ RetryReturns(r) \/ DependentsReturn(r)
      PROVE  Inv'
  BY <1>1, <1>5, CountAnswers, CountApply
<1>6. CASE LoseLeadership \/ UNCHANGED execVars
  BY <1>1, <1>6, CountDials
<1> QED BY <1>2, <1>3, <1>4, <1>5, <1>6 DEF Next

LEMMA InvIsEnough ==
  ASSUME Inv
  PROVE  ResultsAreReal
<1> DEFINE succeeded == {k \in Keys : runs[k].state = "succeeded"}
           settled == {k \in Keys : Settled(k)}
<1>1. settled \in SUBSET succeeded /\ succeeded \in SUBSET Keys
  BY DEF Settled
<1>2. IsFiniteSet(succeeded) /\ Cardinality(succeeded) \in Nat /\ Cardinality(settled) \in Nat
  BY <1>1, KeysAreFinite
<1>3. Cardinality(settled) <= Cardinality(succeeded)
  BY <1>1, <1>2, FS_Subset
<1>4. counts.success \in Nat /\ counts.success <= Cardinality(settled)
  BY DEF Inv, Counted, Protocol, TypeOK
<1>5. counts.success <= Cardinality(succeeded)
  BY <1>2, <1>3, <1>4
<1>6. counts.success + counts.error >= Cardinality({k \in Keys : Recorded(k)})
  BY DEF Inv, Counted
<1>7. \A k \in Keys : Recorded(k) /\ stored[k].success => k \in succeeded
  BY DEF Inv, SuccessesAreReal, Recorded
<1> QED BY <1>5, <1>6, <1>7 DEF ResultsAreReal

-----------------------------------------------------------------------------
(* What it shows *)

\* Every call, execution, request and record is well formed, and no run is
\* attempted more often than the job's retries allow, however often calls dial
\* again, results are repeated and servers crash (job.go, grpc.go ExecutionDone).
THEOREM TypeCorrect == Spec => []TypeOK
<1>1. Init => Protocol
  BY InitProtocol
<1>2. Protocol /\ [Next]_execVars => Protocol'
  BY NextProtocol
<1>3. Protocol => TypeOK
  BY DEF Protocol
<1> QED BY <1>1, <1>2, <1>3, PTL DEF Spec

\* However calls dial again, requests are forwarded, answers are lost, and
\* servers and agents crash: the store shows a success only for an execution
\* that succeeded on its node, the success counter never counts one twice, and
\* every finish the store shows has been counted (store.go SetExecutionDone).
THEOREM ResultsCorrect == Spec => []ResultsAreReal
<1>1. Init => Inv
  BY InitInv
<1>2. Inv /\ [Next]_execVars => Inv'
  BY NextInv
<1>3. Inv => ResultsAreReal
  BY InvIsEnough
<1> QED BY <1>1, <1>2, <1>3, PTL DEF Spec

-----------------------------------------------------------------------------
(* What holds as long as there has been no fault *)

KeyOf(c) == calls[c].key
Began(c) == calls[c].phase \notin {"unused", "dialing"}
RetryOf(k) == <<k, 2>>

\* Nobody leaves, so each server's work is the leader's.
LeaderStays == /\ leader \in Servers /\ checked \subseteq {leader}
               /\ \A r \in requests : r.server = leader

\* Each execution belongs to one call, has its stream, and finishes once.
EachOfOneCall ==
  /\ \A c \in Calls : ~Began(c) => KeyOf(c) = None
  /\ \A c \in Calls : Began(c) => KeyOf(c) \in Keys /\ Used(KeyOf(c))
  /\ \A c, d \in Calls : Began(c) /\ Began(d) /\ KeyOf(c) = KeyOf(d) => c = d
  /\ \A k \in Keys : Used(k) => \E c \in Calls : Began(c) /\ KeyOf(c) = k

EachFinishesOnce ==
  \A k \in Keys : Used(k) =>
    /\ runs[k].stream /\ runs[k].state # "lost"
    /\ runs[k].last = IF runs[k].state = "running" THEN 1 ELSE 2

\* The finish that is stored is the one that happened.
EachStoredAsItWas ==
  \A k \in Keys : Recorded(k) =>
    /\ runs[k].state \in {"succeeded", "failed"}
    /\ stored[k] = [finished |-> 2, success |-> runs[k].state = "succeeded"]

\* A call reports while its one request is on its way, and ends after its
\* result is stored.
CallInOrder(c) ==
  LET k == KeyOf(c) IN
    /\ calls[c].phase = "started" => stored[k] = None
    /\ calls[c].phase = "open" => stored[k] # None /\ ~Recorded(k)
    /\ calls[c].phase = "reporting" => stored[k] # None /\ \E r \in requests : r.key = k
    /\ calls[c].phase = "ended" => Recorded(k)
    /\ calls[c].phase = "ended" /\ runs[k].state = "failed" /\ runs[k].attempt < Retries + 1 =>
         calls[RetryOf(k)].phase = "ended"

RequestInOrder(r) ==
  /\ r.caller \in Calls /\ calls[r.caller].phase = "reporting" /\ KeyOf(r.caller) = r.key
  /\ r.finished = 2
  /\ runs[r.key].state \in {"succeeded", "failed"}
  /\ r.success <=> runs[r.key].state = "succeeded"
  /\ Recorded(r.key) <=> r.stage # "sent"
  /\ r.stage \in {"backoff", "retrying"} => runs[r.key].state = "failed"
  /\ r.stage = "chaining" => ~RetryDue(r)
  /\ r.stage = "retrying" <=> calls[RetryOf(r.key)].phase # "unused"

CallsInOrder == \A c \in Calls : CallInOrder(c)
RequestsInOrder == /\ \A r \in requests : RequestInOrder(r)
                   /\ \A r, q \in requests : r.key = q.key => r = q

\* A retry follows a failure that is stored.
RetriesFollow ==
  \A c \in RetryCalls : calls[c].phase # "unused" =>
    c[2] = 2 /\ runs[c[1]].state = "failed" /\ Recorded(c[1])

\* The executions of a run on a node are a chain of attempts: all failed but the
\* newest, and each but the newest was retried.
Attempts(S) == {runs[k].attempt : k \in S}
Newest(k, S) == runs[k].attempt = Cardinality(S)

Chained(g, n) ==
  LET S == Started(g, n) IN
    /\ S = {} <=> ~Began(<<g, n>>)
    /\ Attempts(S) = 1..Cardinality(S)
    /\ \A k, m \in S : runs[k].attempt = runs[m].attempt => k = m
    /\ \A k \in S : Newest(k, S) <=> ~Began(RetryOf(k))

RunsAreChains ==
  /\ \A g \in Groups, n \in Nodes :
       Chained(g, n) /\ (calls[<<g, n>>].phase # "unused" <=> g <= groups)
  /\ \A k \in Keys : IF Used(k) THEN runs[k].group \in Groups /\ runs[k].node \in Nodes
                    ELSE runs[k].group = None

CountedOnce ==
  /\ counts.success = Cardinality({k \in Keys : Recorded(k) /\ stored[k].success})
  /\ counts.error = Cardinality({k \in Keys : Recorded(k) /\ ~stored[k].success})

Undisturbed == /\ LeaderStays /\ EachOfOneCall /\ EachFinishesOnce /\ EachStoredAsItWas
               /\ CallsInOrder /\ RequestsInOrder /\ RetriesFollow /\ RunsAreChains
               /\ CountedOnce

-----------------------------------------------------------------------------
(* Facts the steps without a fault share *)

\* The calls and requests of an execution, and what the types say of them.
LEMMA Facts ==
  ASSUME Protocol
  PROVE  /\ \A c \in Calls : calls[c] \in Call
         /\ \A k \in Keys : runs[k] \in Run /\ runs[k].last \in Nat /\ RetryOf(k) \in RetryCalls
         /\ \A r \in requests : r \in Request /\ r.key \in Keys
         /\ calls \in [Calls -> Call] /\ runs \in [Keys -> Run]
         /\ stored \in [Keys -> Record \cup {None}]
         /\ \A c \in RetryCalls : c \in Calls /\ c[1] \in Keys /\ c = <<c[1], c[2]>>
         /\ \A g \in Groups, n \in Nodes : <<g, n>> \in Calls /\ <<g, n>> \notin RetryCalls
<1>1. \A k \in Keys : RetryOf(k) \in RetryCalls
  BY DEF RetryOf, RetryCalls, Finishes
<1>2. \A c \in RetryCalls : c \in Calls /\ c[1] \in Keys /\ c = <<c[1], c[2]>>
  BY DEF RetryCalls, Calls
<1>3. \A g \in Groups, n \in Nodes : <<g, n>> \in Calls /\ <<g, n>> \notin RetryCalls
  BY ConstantFacts DEF FirstCalls, Calls
<1>4. \A k \in Keys : runs[k] \in Run /\ runs[k].last \in Nat
  BY DEF Protocol, TypeOK, Run
<1>5. \A r \in requests : r \in Request /\ r.key \in Keys
  BY DEF Protocol, TypeOK, Request
<1> QED BY <1>1, <1>2, <1>3, <1>4, <1>5 DEF Protocol, TypeOK

\* Chains of attempts change only when an execution starts.
LEMMA ChainsStay ==
  ASSUME Protocol, RunsAreChains,
         \A k \in Keys : /\ Used(k)' <=> Used(k)
                         /\ runs'[k].group = runs[k].group /\ runs'[k].node = runs[k].node
                         /\ runs'[k].attempt = runs[k].attempt,
         \A c \in Calls : Began(c)' <=> Began(c),
         \A g \in Groups, n \in Nodes : calls'[<<g, n>>].phase # "unused" <=> g <= groups'
  PROVE  RunsAreChains'
<1> SUFFICES ASSUME NEW g \in Groups, NEW n \in Nodes PROVE Chained(g, n)'
  BY DEF RunsAreChains
<1> DEFINE S == Started(g, n)
<1>1. S' = S
  BY DEF Started
<1>2. \A k \in S : k \in Keys /\ RetryOf(k) \in Calls /\ runs'[k].attempt = runs[k].attempt
  BY Facts DEF Started
<1>3. Chained(g, n) /\ <<g, n>> \in Calls
  BY Facts DEF RunsAreChains
<1>4. S' = {} <=> ~Began(<<g, n>>)'
  BY <1>1, <1>3 DEF Chained
<1>5. Attempts(S)' = 1..Cardinality(S')
  <2>1. Attempts(S)' = Attempts(S)
    BY <1>1, <1>2 DEF Attempts
  <2> QED BY <1>1, <1>3, <2>1 DEF Chained
<1>6. \A k, m \in S' : runs'[k].attempt = runs'[m].attempt => k = m
  BY <1>1, <1>2, <1>3 DEF Chained
<1>7. ASSUME NEW k \in S PROVE Newest(k, S)' <=> ~Began(RetryOf(k))'
  <2>1. Newest(k, S) <=> ~Began(RetryOf(k))
    BY <1>3 DEF Chained
  <2>2. Newest(k, S)' <=> Newest(k, S)
    BY <1>1, <1>2 DEF Newest
  <2>3. Began(RetryOf(k))' <=> Began(RetryOf(k))
    BY <1>2 DEF RetryOf
  <2> QED BY <2>1, <2>2, <2>3
<1> QED BY <1>1, <1>4, <1>5, <1>6, <1>7 DEF Chained

\* An execution is reported by one request, which the call that holds it sent.
LEMMA NoRequestOf ==
  ASSUME Protocol, Undisturbed, NEW c \in Calls, Began(c), calls[c].phase # "reporting"
  PROVE  \A r \in requests : r.key # KeyOf(c)
BY DEF Undisturbed, EachOfOneCall, RequestsInOrder, RequestInOrder, Began

\* No execution is stale: each that runs is held by a call in memory.
LEMMA NothingStale ==
  ASSUME Protocol, Undisturbed
  PROVE  Running \subseteq Active /\ Stale = {}
<1>1. ASSUME NEW k \in Running PROVE k \in Active
  <2>1. k \in Keys /\ stored[k] # None /\ stored[k].finished = 0
    BY DEF Running
  <2>2. Used(k)
    BY <2>1 DEF Protocol, NothingBefore
  <2>3. PICK c \in Calls : Began(c) /\ KeyOf(c) = k
    BY <2>1, <2>2 DEF Undisturbed, EachOfOneCall
  <2>4. ~Recorded(k)
    BY <2>1 DEF Recorded
  <2>5. calls[c].phase \in {"open", "reporting"}
    BY <2>1, <2>3, <2>4, Facts DEF Undisturbed, CallsInOrder, CallInOrder, Began, Call, KeyOf
  <2> QED BY <2>3, <2>5 DEF Active, KeyOf
<1> QED BY <1>1 DEF Stale

\* What a call that does not move depends on.
LEMMA CallStays ==
  ASSUME Protocol, Undisturbed, NEW c \in Calls, calls'[c] = calls[c], NEW k, k = KeyOf(c),
         Began(c) => /\ stored'[k] = None <=> stored[k] = None
                     /\ Recorded(k)' <=> Recorded(k)
                     /\ calls[c].phase = "ended" => runs'[k] = runs[k]
                     /\ calls[RetryOf(k)].phase = "ended" => calls'[RetryOf(k)].phase = "ended"
                     /\ calls[c].phase = "reporting" =>
                          ((\E r \in requests : r.key = k) => \E r \in requests' : r.key = k)
  PROVE  CallInOrder(c)'
<1>1. KeyOf(c)' = k
  BY DEF KeyOf
<1>2. CallInOrder(c)
  BY DEF Undisturbed, CallsInOrder
<1> QED BY <1>1, <1>2 DEF CallInOrder, Began, RetryOf

\* What a request that does not move depends on.
LEMMA RequestStays ==
  ASSUME Protocol, Undisturbed, NEW r \in requests,
         calls'[r.caller] = calls[r.caller],
         runs'[r.key].state = runs[r.key].state,
         runs'[r.key].attempt = runs[r.key].attempt,
         Recorded(r.key)' <=> Recorded(r.key),
         calls'[RetryOf(r.key)].phase # "unused" <=> calls[RetryOf(r.key)].phase # "unused"
  PROVE  RequestInOrder(r)'
<1>1. RequestInOrder(r)
  BY DEF Undisturbed, RequestsInOrder
<1> QED BY <1>1 DEF RequestInOrder, KeyOf, RetryOf, RetryDue

\* The rest of the state does not matter.
LEMMA ExactAside ==
  ASSUME Protocol, Undisturbed,
         UNCHANGED <<leader, groups, calls, runs, requests, storeVars>>,
         checked' \subseteq checked \cup {leader}
  PROVE  Undisturbed'
<1> USE DEF Undisturbed, storeVars
<1>1. LeaderStays'
  BY DEF LeaderStays
<1>2. EachOfOneCall' /\ EachFinishesOnce' /\ EachStoredAsItWas'
  BY DEF EachOfOneCall, EachFinishesOnce, EachStoredAsItWas, Began, KeyOf, Used, Recorded
<1>3. CallsInOrder' /\ RequestsInOrder' /\ RetriesFollow'
  BY DEF CallsInOrder, RequestsInOrder, CallInOrder, RequestInOrder, RetriesFollow, KeyOf,
     Recorded, RetryOf, RetryDue
<1>4. RunsAreChains'
  BY ChainsStay DEF RunsAreChains, Used, Began
<1>5. CountedOnce'
  BY DEF CountedOnce, Recorded
<1> QED BY <1>1, <1>2, <1>3, <1>4, <1>5

\* A check, the end of a wait or of a crash, and time change nothing of it.
LEMMA ExactChecks ==
  ASSUME Protocol, Undisturbed, NEW s \in Servers, Check(s) \/ Restart(s)
  PROVE  Undisturbed'
<1>1. CASE Check(s)
  <2>1. UNCHANGED <<runs, storeVars>>
    BY <1>1, NothingStale DEF Check, CleanUp
  <2>2. checked' \subseteq checked \cup {leader}
    BY <1>1 DEF Check
  <2>3. UNCHANGED <<leader, groups, calls, requests>>
    BY <1>1 DEF Check
  <2> QED BY <2>1, <2>2, <2>3, ExactAside
<1>2. CASE Restart(s)
  BY <1>2, ExactAside DEF Restart
<1> QED BY <1>1, <1>2

\* Calls that dial for the first time follow no execution yet.
CallsDial ==
  \A c \in Calls :
    \/ calls'[c] = calls[c]
    \/ /\ calls[c].phase = "unused"
       /\ calls'[c].phase = "dialing" /\ calls'[c].key = None

\* Calls that dial disturb neither executions nor calls that have begun.
LEMMA ExactDials ==
  ASSUME Protocol, Undisturbed, CallsDial, UNCHANGED <<runs, storeVars>>
  PROVE  /\ EachOfOneCall' /\ EachFinishesOnce' /\ EachStoredAsItWas' /\ CountedOnce'
         /\ \A c \in Calls : (Began(c)' <=> Began(c)) /\ KeyOf(c)' = KeyOf(c)
         /\ \A c \in Calls : Began(c) => calls'[c] = calls[c]
<1> USE DEF Undisturbed, storeVars
<1>1. \A c \in Calls : (Began(c)' <=> Began(c)) /\ KeyOf(c)' = KeyOf(c)
  BY DEF CallsDial, Began, KeyOf, EachOfOneCall
<1>2. \A c \in Calls : Began(c) => calls'[c] = calls[c]
  BY DEF CallsDial, Began
<1>3. EachOfOneCall'
  BY <1>1 DEF EachOfOneCall, Used
<1>4. EachFinishesOnce' /\ EachStoredAsItWas' /\ CountedOnce'
  BY DEF EachFinishesOnce, EachStoredAsItWas, CountedOnce, Used, Recorded
<1> QED BY <1>1, <1>2, <1>3, <1>4

\* A new run calls each node, and nothing else.
LEMMA ExactRunJob ==
  ASSUME Protocol, Undisturbed, NEW s \in Servers, RunJob(s)
  PROVE  Undisturbed'
<1> USE DEF Undisturbed
<1>1. CASE UNCHANGED <<groups, calls>>
  BY <1>1, ExactAside DEF RunJob
<1>2. CASE ~UNCHANGED <<groups, calls>>
  <2> DEFINE D == {groups + 1} \X Nodes
  <2>1. /\ groups # MaxGroups /\ groups' = groups + 1
        /\ calls' = [c \in Calls |-> IF c \in D THEN Dialing(s) ELSE calls[c]]
        /\ UNCHANGED <<leader, runs, requests, storeVars>> /\ checked' = checked \ {s}
    BY <1>2 DEF RunJob
  <2>2. groups \in Nat /\ groups + 1 \in Groups
    BY <2>1, ConstantFacts DEF Protocol, TypeOK, Groups
  <2>3. Dialing(s).phase = "dialing" /\ Dialing(s).key = None
    BY DEF Dialing
  <2>4. \A c \in D : c \in Calls /\ c \notin RetryCalls /\ calls[c].phase = "unused"
    <3>1. \A c \in D : \E n \in Nodes : c = <<groups + 1, n>>
      OBVIOUS
    <3>2. \A n \in Nodes : ~(calls[<<groups + 1, n>>].phase # "unused")
      BY <2>2 DEF RunsAreChains
    <3> QED BY <2>2, <3>1, <3>2, Facts
  <2>5. CallsDial
    BY <2>1, <2>3, <2>4 DEF CallsDial
  <2>6. \A c \in RetryCalls : calls'[c] = calls[c]
    BY <2>1, <2>4, Facts
  <2>7. /\ EachOfOneCall' /\ EachFinishesOnce' /\ EachStoredAsItWas' /\ CountedOnce'
        /\ \A c \in Calls : (Began(c)' <=> Began(c)) /\ KeyOf(c)' = KeyOf(c)
        /\ \A c \in Calls : Began(c) => calls'[c] = calls[c]
    BY <2>1, <2>5, ExactDials
  <2>8. LeaderStays'
    BY <2>1 DEF LeaderStays
  <2>9. CallsInOrder'
    <3>2. \A k \in Keys : calls'[RetryOf(k)] = calls[RetryOf(k)]
      BY <2>6, Facts
    <3>3. ASSUME NEW c \in Calls PROVE CallInOrder(c)'
      <4>1. CASE Began(c)
        <5>1. calls'[c] = calls[c] /\ KeyOf(c) \in Keys
          BY <2>7, <4>1 DEF EachOfOneCall
        <5> QED BY <2>1, <3>2, <5>1, CallStays DEF Recorded, storeVars
      <4>2. CASE ~Began(c)
        <5>1. ~Began(c)'
          BY <2>7, <4>2
        <5> QED BY <5>1 DEF CallInOrder, Began
      <4> QED BY <4>1, <4>2
    <3> QED BY <3>3 DEF CallsInOrder
  <2>10. RequestsInOrder'
    <3>1. \A r \in requests : r.caller \in Calls /\ Began(r.caller)
      BY DEF RequestsInOrder, RequestInOrder, Began
    <3>2. \A r \in requests : calls'[r.caller] = calls[r.caller]
      BY <2>7, <3>1
    <3>3. \A r \in requests : calls'[RetryOf(r.key)] = calls[RetryOf(r.key)]
      BY <2>6, Facts
    <3>4. \A r \in requests : RequestInOrder(r)'
      BY <2>1, <3>2, <3>3, RequestStays DEF Recorded, storeVars
    <3> QED BY <2>1, <3>4 DEF RequestsInOrder
  <2>11. RetriesFollow'
    BY <2>1, <2>6 DEF RetriesFollow, Recorded, storeVars
  <2>12. RunsAreChains'
    <3>1. \A g \in Groups, n \in Nodes : calls'[<<g, n>>].phase # "unused" <=> g <= groups'
      <4> SUFFICES ASSUME NEW g \in Groups, NEW n \in Nodes
                   PROVE  calls'[<<g, n>>].phase # "unused" <=> g <= groups'
        OBVIOUS
      <4>1. g \in Nat /\ <<g, n>> \in Calls /\ (<<g, n>> \in D <=> g = groups + 1)
        BY Facts, ConstantFacts
      <4>2. calls[<<g, n>>].phase # "unused" <=> g <= groups
        BY DEF RunsAreChains
      <4> QED BY <2>1, <2>2, <2>3, <4>1, <4>2
    <3> QED BY <2>1, <2>7, <3>1, ChainsStay DEF Used
  <2> QED BY <2>7, <2>8, <2>9, <2>10, <2>11, <2>12
<1> QED BY <1>1, <1>2

\* The first update stores the execution as running.
LEMMA ExactRegister ==
  ASSUME Protocol, Undisturbed, NEW c \in Calls, Register(c)
  PROVE  Undisturbed'
<1> USE DEF Undisturbed
<1>0. PICK k \in Keys : k = KeyOf(c)
  BY DEF EachOfOneCall, Register, Began
<1>1. /\ calls[c].phase = "started" /\ Began(c) /\ Used(k) /\ stored[k] = None
      /\ calls[c] \in Call
  BY <1>0, Facts DEF Register, Began, EachOfOneCall, CallsInOrder, CallInOrder
<1> DEFINE record == [finished |-> IF runs[k].attempt > 1 THEN 1 ELSE 0, success |-> FALSE]
<1>2. /\ calls' = [calls EXCEPT ![c].phase = "open"]
      /\ stored' = [stored EXCEPT ![k] = record]
      /\ UNCHANGED <<leader, checked, groups, runs, requests, counts>>
  BY <1>0, ConstantFacts DEF Register, Registered, LeaderStays, KeyOf
<1>3. record \in Record /\ record.finished \in 0..1
  BY DEF Record
<1> HIDE DEF record
<1>4. /\ \A d \in Calls : d # c => calls'[d] = calls[d]
      /\ calls'[c].phase = "open" /\ calls'[c].key = k
  BY <1>0, <1>1, <1>2, Facts DEF Call, KeyOf
<1>5. /\ \A m \in Keys : m # k => stored'[m] = stored[m]
      /\ stored'[k] # None /\ ~Recorded(k)' /\ ~Recorded(k)
      /\ \A m \in Keys : Recorded(m)' <=> Recorded(m)
  <2>1. stored'[k] = record /\ \A m \in Keys : m # k => stored'[m] = stored[m]
    BY <1>1, <1>2, Facts
  <2>2. record # None /\ ~(record.finished >= 2)
    BY <1>3, ConstantFacts
  <2> QED BY <1>1, <2>1, <2>2 DEF Recorded
<1>6. \A d \in Calls : /\ Began(d)' <=> Began(d)
                       /\ KeyOf(d)' = KeyOf(d)
                       /\ Began(d) /\ KeyOf(d) = k => d = c
                       /\ calls'[d].phase # "unused" <=> calls[d].phase # "unused"
  BY <1>0, <1>1, <1>4 DEF Began, KeyOf, EachOfOneCall
<1>7. LeaderStays'
  BY <1>2 DEF LeaderStays
<1>8. EachOfOneCall' /\ EachFinishesOnce'
  BY <1>2, <1>6 DEF EachOfOneCall, EachFinishesOnce, Used
<1>9. EachStoredAsItWas'
  BY <1>2, <1>5 DEF EachStoredAsItWas
<1>10. CallsInOrder'
  <2>1. ASSUME NEW d \in Calls, d # c PROVE CallInOrder(d)'
    <3>1. calls'[d] = calls[d]
      BY <1>4, <2>1
    <3>2. CASE Began(d)
      <4>1. KeyOf(d) \in Keys /\ KeyOf(d) # k /\ RetryOf(KeyOf(d)) \in Calls
        BY <1>6, <2>1, <3>2, Facts DEF EachOfOneCall
      <4>2. calls[RetryOf(KeyOf(d))].phase = "ended" => calls'[RetryOf(KeyOf(d))].phase = "ended"
        BY <1>1, <1>4, <4>1
      <4> QED BY <1>2, <1>5, <3>1, <4>1, <4>2, CallStays
    <3>3. CASE ~Began(d)
      BY <3>1, <3>3 DEF Began, CallInOrder
    <3> QED BY <3>2, <3>3
  <2>2. KeyOf(c)' = k /\ stored'[k] # None /\ ~Recorded(k)' /\ calls'[c].phase = "open"
    BY <1>4, <1>5 DEF KeyOf
  <2>3. CallInOrder(c)'
    BY <2>2 DEF CallInOrder, Recorded
  <2> QED BY <2>1, <2>3 DEF CallsInOrder
<1>11. RequestsInOrder'
  <2>1. \A r \in requests : r.key \in Keys /\ RetryOf(r.key) \in Calls /\ r.caller \in Calls
                            /\ r.caller # c
    BY <1>1, Facts DEF RequestsInOrder, RequestInOrder
  <2>2. \A r \in requests : RequestInOrder(r)'
    BY <1>2, <1>4, <1>5, <1>6, <2>1, RequestStays
  <2> QED BY <1>2, <2>2 DEF RequestsInOrder
<1>12. RetriesFollow'
  BY <1>2, <1>5, <1>6, Facts DEF RetriesFollow
<1>13. RunsAreChains'
  <2>1. \A g \in Groups, n \in Nodes : calls'[<<g, n>>].phase # "unused" <=> g <= groups'
    BY <1>2, <1>6, Facts DEF RunsAreChains
  <2> QED BY <1>2, <1>6, <2>1, ChainsStay DEF Used
<1>14. CountedOnce'
  <2>1. \A m \in Keys : (Recorded(m)' /\ stored'[m].success) <=> (Recorded(m) /\ stored[m].success)
    BY <1>5
  <2>2. \A m \in Keys : (Recorded(m)' /\ ~stored'[m].success) <=> (Recorded(m) /\ ~stored[m].success)
    BY <1>5
  <2> QED BY <1>2, <2>1, <2>2 DEF CountedOnce
<1> QED BY <1>7, <1>8, <1>9, <1>10, <1>11, <1>12, <1>13, <1>14

\* A call goes on to its next phase, and runs and groups stay as they are.
LEMMA CallMoves ==
  ASSUME Protocol, Undisturbed, NEW c \in Calls, Began(c),
         NEW p \in {"open", "reporting", "ended"}, calls' = [calls EXCEPT ![c].phase = p],
         UNCHANGED <<groups, runs>>
  PROVE  /\ \A d \in Calls : d # c => calls'[d] = calls[d]
         /\ calls'[c].phase = p /\ calls'[c].key = KeyOf(c)
         /\ \A d \in Calls : /\ Began(d)' <=> Began(d)
                             /\ Began(d) /\ KeyOf(d) = KeyOf(c) => d = c
                             /\ calls'[d].phase # "unused" <=> calls[d].phase # "unused"
         /\ EachOfOneCall' /\ EachFinishesOnce' /\ RunsAreChains'
<1> USE DEF Undisturbed
<1>1. calls[c] \in Call /\ calls \in [Calls -> Call]
  BY Facts
<1>2. /\ \A d \in Calls : d # c => calls'[d] = calls[d]
      /\ calls'[c].phase = p /\ calls'[c].key = KeyOf(c)
  BY <1>1 DEF Call, KeyOf
<1>3. \A d \in Calls : /\ Began(d)' <=> Began(d)
                       /\ KeyOf(d)' = KeyOf(d)
                       /\ Began(d) /\ KeyOf(d) = KeyOf(c) => d = c
                       /\ calls'[d].phase # "unused" <=> calls[d].phase # "unused"
  BY <1>2 DEF Began, KeyOf, EachOfOneCall
<1>4. EachOfOneCall' /\ EachFinishesOnce'
  BY <1>3 DEF EachOfOneCall, EachFinishesOnce, Used
<1>5. RunsAreChains'
  <2>1. \A g \in Groups, n \in Nodes : calls'[<<g, n>>].phase # "unused" <=> g <= groups'
    BY <1>3, Facts DEF RunsAreChains
  <2> QED BY <1>3, <2>1, ChainsStay DEF Used
<1> QED BY <1>2, <1>3, <1>4, <1>5

\* The calls that stay where they are are in order, if what is stored of them,
\* their retries and their requests stay.
LEMMA OthersStay ==
  ASSUME Protocol, Undisturbed, NEW c \in Calls, UNCHANGED runs,
         \A d \in Calls : d # c => calls'[d] = calls[d],
         calls[c].phase = "ended" => calls'[c].phase = "ended",
         NEW k \in Keys, \A d \in Calls : Began(d) /\ KeyOf(d) = k => d = c,
         \A m \in Keys : m # k => stored'[m] = stored[m],
         \A m \in Keys : m # k /\ (\E r \in requests : r.key = m) => \E r \in requests' : r.key = m
  PROVE  \A d \in Calls : d # c => CallInOrder(d)'
<1> SUFFICES ASSUME NEW d \in Calls, d # c PROVE CallInOrder(d)'
  OBVIOUS
<1>1. CASE Began(d)
  <2>1. PICK m \in Keys : m = KeyOf(d)
    BY <1>1 DEF Undisturbed, EachOfOneCall
  <2>2. m # k /\ RetryOf(m) \in Calls
    BY <1>1, <2>1, Facts
  <2>3. calls[RetryOf(m)].phase = "ended" => calls'[RetryOf(m)].phase = "ended"
    BY <2>2
  <2>4. stored'[m] = stored[m] /\ (Recorded(m)' <=> Recorded(m))
    BY <2>2 DEF Recorded
  <2> QED BY <2>1, <2>2, <2>3, <2>4, CallStays
<1>2. CASE ~Began(d)
  BY <1>2 DEF Began, CallInOrder
<1> QED BY <1>1, <1>2

\* The result of a stream is reported by one request.
LEMMA ExactReceiveEnd ==
  ASSUME Protocol, Undisturbed, NEW c \in Calls, ReceiveEnd(c)
  PROVE  Undisturbed'
<1> USE DEF Undisturbed
<1>0. PICK k \in Keys : k = KeyOf(c)
  BY DEF EachOfOneCall, ReceiveEnd, Began
<1>1. /\ calls[c].phase = "open" /\ Began(c) /\ Used(k) /\ stored[k] # None /\ ~Recorded(k)
      /\ runs[k].state \in {"succeeded", "failed"} /\ runs[k].last = 2
  BY <1>0 DEF ReceiveEnd, Began, KeyOf, EachOfOneCall, EachFinishesOnce, CallsInOrder, CallInOrder
<1>2. /\ calls' = [calls EXCEPT ![c].phase = "reporting"]
      /\ UNCHANGED <<leader, checked, groups, runs, storeVars>>
  BY ConstantFacts DEF ReceiveEnd, Report, LeaderStays
<1>3. PICK q : /\ requests' = requests \cup {q}
               /\ q.key = k /\ q.finished = 2 /\ q.server = leader /\ q.caller = c
               /\ q.stage = "sent" /\ (q.success <=> runs[k].state = "succeeded")
  <2> DEFINE q == [key |-> calls[c].key, finished |-> runs[calls[c].key].last,
                   success |-> runs[calls[c].key].state = "succeeded",
                   server |-> leader, caller |-> c, forwarded |-> FALSE, stage |-> "sent"]
  <2>1. requests' = requests \cup {q}
    BY ConstantFacts DEF ReceiveEnd, Report, LeaderStays
  <2>2. /\ q.key = k /\ q.finished = 2 /\ q.server = leader /\ q.caller = c
        /\ q.stage = "sent" /\ (q.success <=> runs[k].state = "succeeded")
    BY <1>0, <1>1 DEF KeyOf
  <2> HIDE DEF q
  <2> QED BY <2>1, <2>2
<1>5. /\ \A d \in Calls : d # c => calls'[d] = calls[d]
      /\ calls'[c].phase = "reporting" /\ calls'[c].key = k
      /\ \A d \in Calls : /\ Began(d)' <=> Began(d)
                          /\ Began(d) /\ KeyOf(d) = k => d = c
                          /\ calls'[d].phase # "unused" <=> calls[d].phase # "unused"
      /\ EachOfOneCall' /\ EachFinishesOnce' /\ RunsAreChains'
  <2>1. calls' = [calls EXCEPT ![c].phase = "reporting"] /\ UNCHANGED <<groups, runs>>
    BY <1>2
  <2> QED BY <1>0, <1>1, <2>1, CallMoves
<1>6. /\ UNCHANGED <<stored, counts>>
      /\ \A m \in Keys : Recorded(m)' <=> Recorded(m)
  BY <1>2 DEF storeVars, Recorded
<1>7. LeaderStays'
  BY <1>2, <1>3 DEF LeaderStays
<1>8. EachStoredAsItWas' /\ CountedOnce'
  BY <1>2, <1>6 DEF EachStoredAsItWas, CountedOnce
<1>9. RetriesFollow'
  BY <1>2, <1>5, <1>6, Facts DEF RetriesFollow
<1>10. CallsInOrder'
  <2>1. \A d \in Calls : d # c => CallInOrder(d)'
    <3>1. /\ \A d \in Calls : Began(d) /\ KeyOf(d) = k => d = c
          /\ \A m \in Keys : m # k => stored'[m] = stored[m]
          /\ UNCHANGED runs
      BY <1>2, <1>5, <1>6
    <3>2. \A m \in Keys : m # k /\ (\E r \in requests : r.key = m) => \E r \in requests' : r.key = m
      BY <1>3
    <3> QED BY <1>1, <1>5, <3>1, <3>2, OthersStay
  <2>2. KeyOf(c)' = k /\ q \in requests'
    BY <1>3, <1>5 DEF KeyOf
  <2>3. CallInOrder(c)'
    BY <1>1, <1>3, <1>5, <1>6, <2>2 DEF CallInOrder
  <2> QED BY <2>1, <2>3 DEF CallsInOrder
<1>11. RequestsInOrder'
  <2>1. \A r \in requests : /\ r.key \in Keys /\ RetryOf(r.key) \in Calls /\ r.caller \in Calls
                            /\ r.caller # c /\ r.key # k
    BY <1>0, <1>1, Facts, NoRequestOf DEF RequestsInOrder, RequestInOrder
  <2>2. \A r \in requests : RequestInOrder(r)'
    BY <1>2, <1>5, <1>6, <2>1, RequestStays
  <2>3. calls'[RetryOf(k)].phase = "unused"
    <3>1. RetryOf(k) \in RetryCalls /\ RetryOf(k) \in Calls /\ RetryOf(k)[1] = k
      BY Facts DEF RetryOf
    <3>2. calls[RetryOf(k)].phase = "unused"
      BY <1>1, <3>1 DEF RetriesFollow
    <3> QED BY <1>5, <3>1, <3>2
  <2>4. RequestInOrder(q)'
    BY <1>1, <1>2, <1>3, <1>5, <1>6, <2>3 DEF RequestInOrder, KeyOf, RetryOf
  <2> QED BY <1>2, <1>3, <2>1, <2>2, <2>4 DEF RequestsInOrder
<1> QED BY <1>5, <1>7, <1>8, <1>9, <1>10, <1>11

\* An executor ends once; nothing is stored of its end yet.
LEMMA ExactFinish ==
  ASSUME Protocol, Undisturbed, NEW k \in Keys, NEW success \in BOOLEAN, Finish(k, success)
  PROVE  Undisturbed'
<1> USE DEF Undisturbed
<1>1. /\ runs[k].state = "running" /\ Used(k) /\ runs[k] \in Run
      /\ runs[k].stream /\ runs[k].last = 1 /\ ~Recorded(k)
      /\ \A r \in requests : r.key # k
      /\ calls[RetryOf(k)].phase = "unused"
  <2>1. runs[k].state = "running" /\ Used(k) /\ runs[k] \in Run
    BY Facts DEF Finish, Used
  <2>2. runs[k].stream /\ runs[k].last = 1 /\ ~Recorded(k) /\ \A r \in requests : r.key # k
    BY <2>1 DEF EachFinishesOnce, EachStoredAsItWas, RequestsInOrder, RequestInOrder
  <2>3. RetryOf(k) \in RetryCalls /\ RetryOf(k)[1] = k
    BY Facts DEF RetryOf
  <2> QED BY <2>1, <2>2, <2>3 DEF RetriesFollow
<1>2. /\ UNCHANGED <<leader, checked, groups, calls, requests, storeVars>>
      /\ UNCHANGED <<stored, counts>>
  BY <1>1 DEF Finish, storeVars
<1>3. /\ \A m \in Keys : m # k => runs'[m] = runs[m]
      /\ runs'[k].state = IF success THEN "succeeded" ELSE "failed"
      /\ runs'[k].last = 2 /\ runs'[k].stream
      /\ runs'[k].group = runs[k].group /\ runs'[k].node = runs[k].node
      /\ runs'[k].attempt = runs[k].attempt
  BY <1>1, Facts DEF Finish, Run
<1>4. \A m \in Keys : (Used(m)' <=> Used(m)) /\ (Recorded(m)' <=> Recorded(m))
  BY <1>1, <1>2, <1>3 DEF Used, Recorded
<1>5. LeaderStays'
  BY <1>2 DEF LeaderStays
<1>6. EachOfOneCall'
  BY <1>2, <1>4 DEF EachOfOneCall, Began, KeyOf
<1>7. EachFinishesOnce'
  BY <1>3, <1>4 DEF EachFinishesOnce
<1>8. EachStoredAsItWas' /\ CountedOnce'
  <2>1. ASSUME NEW m \in Keys, Recorded(m)'
        PROVE  /\ runs'[m].state \in {"succeeded", "failed"}
               /\ stored'[m] = [finished |-> 2, success |-> runs'[m].state = "succeeded"]
    <3>1. Recorded(m) /\ m # k /\ runs'[m] = runs[m] /\ stored' = stored
      BY <1>1, <1>2, <1>3, <1>4, <2>1
    <3> QED BY <3>1 DEF EachStoredAsItWas
  <2>2. CountedOnce'
    BY <1>2, <1>4 DEF CountedOnce
  <2> QED BY <2>1, <2>2 DEF EachStoredAsItWas
<1>9. CallsInOrder'
  <2>1. ASSUME NEW c \in Calls PROVE CallInOrder(c)'
    <3>1. CASE Began(c)
      <4>1. KeyOf(c) \in Keys
        BY <3>1 DEF EachOfOneCall
      <4>2. calls[c].phase = "ended" => KeyOf(c) # k
        BY <1>1 DEF CallsInOrder, CallInOrder
      <4> QED BY <1>2, <1>3, <1>4, <4>1, <4>2, CallStays
    <3>2. CASE ~Began(c)
      BY <1>2, <3>2 DEF Began, CallInOrder
    <3> QED BY <3>1, <3>2
  <2> QED BY <2>1 DEF CallsInOrder
<1>10. RequestsInOrder'
  <2>1. \A r \in requests : r.key \in Keys
    BY Facts
  <2>2. \A r \in requests : RequestInOrder(r)'
    BY <1>1, <1>2, <1>3, <1>4, <2>1, RequestStays
  <2> QED BY <1>2, <2>2 DEF RequestsInOrder
<1>11. RetriesFollow'
  <2>1. \A c \in RetryCalls : c[1] \in Keys
    BY Facts
  <2> QED BY <1>1, <1>2, <1>3, <1>4, <2>1 DEF RetriesFollow
<1>12. RunsAreChains'
  <2>1. /\ \A m \in Keys : /\ runs'[m].group = runs[m].group /\ runs'[m].node = runs[m].node
                           /\ runs'[m].attempt = runs[m].attempt
        /\ \A c \in Calls : Began(c)' <=> Began(c)
    BY <1>2, <1>3 DEF Began
  <2>2. \A g \in Groups, n \in Nodes : calls'[<<g, n>>].phase # "unused" <=> g <= groups'
    BY <1>2 DEF RunsAreChains
  <2> QED BY <1>4, <2>1, <2>2, ChainsStay
<1> QED BY <1>5, <1>6, <1>7, <1>8, <1>9, <1>10, <1>11, <1>12

\* What is known of a request and of the execution and the calls it is about.
LEMMA RequestFacts ==
  ASSUME Protocol, Undisturbed, NEW r \in requests
  PROVE  /\ RequestInOrder(r) /\ r \in Request /\ r.server = leader /\ leader # None
         /\ r.key \in Keys /\ r.caller \in Calls /\ Began(r.caller) /\ KeyOf(r.caller) = r.key
         /\ RetryOf(r.key) \in RetryCalls /\ RetryOf(r.key) \in Calls
         /\ <<r.key, r.finished>> = RetryOf(r.key)
         /\ r.stage # "retrying" => calls[RetryOf(r.key)].phase = "unused"
         /\ \A d \in Calls : Began(d) /\ KeyOf(d) = r.key => d = r.caller
         /\ \A p \in requests : p # r => p.key # r.key /\ p.caller # r.caller
<1> USE DEF Undisturbed
<1>1. RequestInOrder(r) /\ r \in Request /\ r.server = leader /\ r.key \in Keys
  BY Facts DEF RequestsInOrder, LeaderStays
<1>2. r.caller \in Calls /\ Began(r.caller) /\ KeyOf(r.caller) = r.key
  BY <1>1 DEF RequestInOrder, Began
<1>3. RetryOf(r.key) \in RetryCalls /\ RetryOf(r.key) \in Calls
  BY <1>1, Facts
<1>4. /\ <<r.key, r.finished>> = RetryOf(r.key)
      /\ r.stage # "retrying" => calls[RetryOf(r.key)].phase = "unused"
  BY <1>1 DEF RequestInOrder, RetryOf
<1>5. \A d \in Calls : Began(d) /\ KeyOf(d) = r.key => d = r.caller
  BY <1>2 DEF EachOfOneCall
<1>6. \A p \in requests : p # r => p.key # r.key /\ p.caller # r.caller
  BY <1>1 DEF RequestsInOrder, RequestInOrder
<1>7. leader # None
  BY ConstantFacts DEF LeaderStays
<1> QED BY <1>1, <1>2, <1>3, <1>4, <1>5, <1>6, <1>7

\* A request that moves on, while the others stay.
LEMMA RequestMoves ==
  ASSUME Protocol, Undisturbed, NEW r \in requests, NEW q,
         requests' = (requests \ {r}) \cup {q}, q.key = r.key, q.server = r.server,
         RequestInOrder(q)', \A p \in requests : p # r => RequestInOrder(p)',
         UNCHANGED <<leader, checked>>
  PROVE  /\ RequestsInOrder' /\ LeaderStays'
         /\ \A m \in Keys : (\E p \in requests : p.key = m) => \E p \in requests' : p.key = m
<1>1. RequestsInOrder'
  BY DEF RequestsInOrder, Undisturbed
<1>2. LeaderStays'
  BY DEF LeaderStays, Undisturbed
<1> QED BY <1>1, <1>2

\* The leader stores a result that is on its way, and counts it.
LEMMA ExactApply ==
  ASSUME Protocol, Undisturbed, NEW r \in requests, ApplyDone(r)
  PROVE  Undisturbed'
<1> USE DEF Undisturbed
<1>0. PICK k \in Keys : k = r.key
  BY RequestFacts
<1>1. PICK c \in Calls : c = r.caller
  BY RequestFacts
<1>2. /\ r.stage = "sent" /\ r \in Request /\ r.finished = 2 /\ ~Recorded(k)
      /\ Began(c) /\ KeyOf(c) = k /\ calls[c].phase = "reporting" /\ stored[k] # None
      /\ runs[k].state \in {"succeeded", "failed"} /\ (r.success <=> runs[k].state = "succeeded")
      /\ calls[RetryOf(k)].phase = "unused" /\ RetryOf(k) \in Calls
      /\ r.success \in BOOLEAN
  <2>1. r.stage = "sent" /\ RequestInOrder(r) /\ CallInOrder(c) /\ r \in Request
    BY RequestFacts DEF ApplyDone, CallsInOrder
  <2> QED BY <1>0, <1>1, <2>1, RequestFacts DEF RequestInOrder, CallInOrder, Request
<1>3. PICK q : /\ requests' = (requests \ {r}) \cup {q}
               /\ q.key = k /\ q.finished = 2 /\ (q.success <=> r.success)
               /\ q.server = r.server /\ q.caller = c /\ q.stage = "applied"
  <2> DEFINE q == [r EXCEPT !.stage = "applied"]
  <2>1. requests' = (requests \ {r}) \cup {q}
    BY DEF ApplyDone
  <2>2. /\ q.key = r.key /\ q.finished = r.finished /\ q.success = r.success
        /\ q.server = r.server /\ q.caller = r.caller /\ q.stage = "applied"
    BY <1>2, StageFacts
  <2> HIDE DEF q
  <2> QED BY <1>0, <1>1, <1>2, <2>1, <2>2
<1>4. UNCHANGED <<leader, checked, groups, calls, runs>>
  BY DEF ApplyDone
<1> DEFINE new == [finished |-> 2, success |-> r.success]
<1>5. /\ stored' = [stored EXCEPT ![k] = new]
      /\ counts' = IF r.success THEN [counts EXCEPT !.success = @ + 1]
                                ELSE [counts EXCEPT !.error = @ + 1]
  <2>1. ~Outdated(k, 2)
    <3>1. stored[k] \in Record
      BY <1>2, Facts
    <3>2. stored[k].finished \in 0..4
      BY <3>1 DEF Record
    <3> QED BY <1>2, <3>2 DEF Outdated, Recorded
  <2> QED BY <1>0, <1>2, <2>1 DEF ApplyDone, StoreResult
<1>6. new # None /\ new.finished = 2 /\ new.success = r.success
  <2>1. new \in Record
    BY <1>2 DEF Record
  <2> QED BY <2>1, ConstantFacts
<1> HIDE DEF new
<1>7. /\ \A m \in Keys : m # k => stored'[m] = stored[m] /\ (Recorded(m)' <=> Recorded(m))
      /\ stored'[k] = new /\ stored'[k] # None /\ Recorded(k)'
  <2>1. stored'[k] = new /\ \A m \in Keys : m # k => stored'[m] = stored[m]
    BY <1>5, Facts
  <2> QED BY <1>6, <2>1 DEF Recorded
<1>8. EachOfOneCall' /\ EachFinishesOnce'
  BY <1>4 DEF EachOfOneCall, EachFinishesOnce, Used, Began, KeyOf
<1>9. EachStoredAsItWas'
  <2>1. new = [finished |-> 2, success |-> runs[k].state = "succeeded"]
    BY <1>2 DEF new
  <2> QED BY <1>2, <1>4, <1>7, <2>1 DEF EachStoredAsItWas
<1>10. \A p \in requests : p # r => RequestInOrder(p)'
  <2>1. ASSUME NEW p \in requests, p # r PROVE RequestInOrder(p)'
    <3>1. p.key \in Keys /\ p.key # k
      BY <1>0, <2>1, RequestFacts, Facts
    <3> QED BY <1>4, <1>7, <3>1, RequestStays
  <2> QED BY <2>1
<1>11. RequestInOrder(q)'
  BY <1>2, <1>3, <1>4, <1>7 DEF RequestInOrder, KeyOf, RetryOf
<1>12. /\ RequestsInOrder' /\ LeaderStays'
       /\ \A m \in Keys : (\E p \in requests : p.key = m) => \E p \in requests' : p.key = m
  BY <1>0, <1>3, <1>4, <1>10, <1>11, RequestMoves
<1>13. CallsInOrder'
  <2>1. \A d \in Calls : d # c => CallInOrder(d)'
    <3>1. /\ \A d \in Calls : Began(d) /\ KeyOf(d) = k => d = c
          /\ \A m \in Keys : m # k => stored'[m] = stored[m]
      BY <1>0, <1>1, <1>7, RequestFacts
    <3> QED BY <1>4, <1>12, <3>1, OthersStay
  <2>2. KeyOf(c)' = k /\ calls'[c].phase = "reporting" /\ q \in requests'
    BY <1>2, <1>3, <1>4 DEF KeyOf
  <2>3. CallInOrder(c)'
    BY <1>3, <1>7, <2>2 DEF CallInOrder
  <2> QED BY <2>1, <2>3 DEF CallsInOrder
<1>14. RetriesFollow'
  <2>1. \A m \in Keys : Recorded(m) => Recorded(m)'
    BY <1>7
  <2> QED BY <1>4, <2>1, Facts DEF RetriesFollow
<1>15. RunsAreChains'
  <2>1. \A d \in Calls : Began(d)' <=> Began(d)
    BY <1>4 DEF Began
  <2>2. \A g \in Groups, n \in Nodes : calls'[<<g, n>>].phase # "unused" <=> g <= groups'
    BY <1>4 DEF RunsAreChains
  <2> QED BY <1>4, <2>1, <2>2, ChainsStay DEF Used
<1>16. CountedOnce'
  <2> DEFINE S == {m \in Keys : Recorded(m) /\ stored[m].success}
             F == {m \in Keys : Recorded(m) /\ ~stored[m].success}
  <2>1. /\ S \in SUBSET Keys /\ F \in SUBSET Keys /\ k \notin S /\ k \notin F
        /\ counts.success = Cardinality(S) /\ counts.error = Cardinality(F)
        /\ counts \in [success : Nat, error : Nat]
    BY <1>2 DEF CountedOnce, Protocol, TypeOK
  <2>2. /\ IsFiniteSet(S) /\ IsFiniteSet(F)
        /\ Cardinality(S \cup {k}) = Cardinality(S) + 1
        /\ Cardinality(F \cup {k}) = Cardinality(F) + 1
    BY <2>1, KeysAreFinite, FS_AddElement
  <2>3. CASE r.success
    <3>1. \A m \in Keys : /\ (Recorded(m)' /\ stored'[m].success) <=> (m \in S \/ m = k)
                          /\ (Recorded(m)' /\ ~stored'[m].success) <=> m \in F
      BY <1>6, <1>7, <2>1, <2>3
    <3>a. S' = S \cup {k} /\ F' = F
      BY <3>1, Zenon
    <3>2. counts'.success = counts.success + 1 /\ counts'.error = counts.error
      BY <1>5, <2>1, <2>3
    <3> QED BY <2>1, <2>2, <3>a, <3>2 DEF CountedOnce
  <2>4. CASE ~r.success
    <3>1. \A m \in Keys : /\ (Recorded(m)' /\ stored'[m].success) <=> m \in S
                          /\ (Recorded(m)' /\ ~stored'[m].success) <=> (m \in F \/ m = k)
      BY <1>6, <1>7, <2>1, <2>4
    <3>a. S' = S /\ F' = F \cup {k}
      BY <3>1
    <3>2. counts'.success = counts.success /\ counts'.error = counts.error + 1
      BY <1>5, <2>1, <2>4
    <3> QED BY <2>1, <2>2, <3>a, <3>2 DEF CountedOnce
  <2> QED BY <2>3, <2>4
<1> QED BY <1>8, <1>9, <1>12, <1>13, <1>14, <1>15, <1>16

\* A call is answered: its result is stored, and was retried if it had to be.
LEMMA ExactAnswer ==
  ASSUME Protocol, Undisturbed, NEW r \in requests, r.stage # "sent",
         NEW k \in Keys, k = r.key,
         runs[k].state = "failed" /\ runs[k].attempt < Retries + 1 =>
           calls[RetryOf(k)].phase = "ended",
         requests' = requests \ {r}, calls' = [calls EXCEPT ![r.caller].phase = "ended"],
         UNCHANGED <<leader, checked, groups, runs, storeVars>>
  PROVE  Undisturbed'
<1> USE DEF Undisturbed
<1>1. PICK c \in Calls : c = r.caller
  BY RequestFacts
<1>2. /\ Recorded(k) /\ Began(c) /\ KeyOf(c) = k /\ calls[c].phase = "reporting"
      /\ RetryOf(k) \in Calls
  <2>1. RequestInOrder(r)
    BY RequestFacts
  <2> QED BY <1>1, <2>1, RequestFacts DEF RequestInOrder
<1>3. /\ UNCHANGED <<stored, counts>>
      /\ \A m \in Keys : Recorded(m)' <=> Recorded(m)
  BY DEF storeVars, Recorded
<1>4. /\ \A d \in Calls : d # c => calls'[d] = calls[d]
      /\ calls'[c].phase = "ended" /\ calls'[c].key = k
      /\ \A d \in Calls : /\ Began(d)' <=> Began(d)
                          /\ Began(d) /\ KeyOf(d) = k => d = c
                          /\ calls'[d].phase # "unused" <=> calls[d].phase # "unused"
      /\ EachOfOneCall' /\ EachFinishesOnce' /\ RunsAreChains'
  <2>1. calls' = [calls EXCEPT ![c].phase = "ended"] /\ UNCHANGED <<groups, runs>>
    BY <1>1
  <2>2. "ended" \in {"open", "reporting", "ended"}
    OBVIOUS
  <2> HIDE DEF Undisturbed
  <2>3. /\ \A d \in Calls : d # c => calls'[d] = calls[d]
        /\ calls'[c].phase = "ended" /\ calls'[c].key = KeyOf(c)
        /\ \A d \in Calls : /\ Began(d)' <=> Began(d)
                            /\ Began(d) /\ KeyOf(d) = KeyOf(c) => d = c
                            /\ calls'[d].phase # "unused" <=> calls[d].phase # "unused"
        /\ EachOfOneCall' /\ EachFinishesOnce' /\ RunsAreChains'
    BY <1>2, <2>1, <2>2, CallMoves
  <2> QED BY <1>2, <2>3
<1>5. LeaderStays'
  BY DEF LeaderStays
<1>6. EachStoredAsItWas' /\ CountedOnce'
  BY <1>3 DEF EachStoredAsItWas, CountedOnce
<1>7. RetriesFollow'
  BY <1>3, <1>4, Facts DEF RetriesFollow
<1>8. CallsInOrder'
  <2>1. \A d \in Calls : d # c => CallInOrder(d)'
    <3>1. /\ \A d \in Calls : Began(d) /\ KeyOf(d) = k => d = c
          /\ \A m \in Keys : m # k => stored'[m] = stored[m]
      BY <1>3, <1>4
    <3>2. \A m \in Keys : m # k /\ (\E p \in requests : p.key = m) => \E p \in requests' : p.key = m
      OBVIOUS
    <3> QED BY <1>2, <1>4, <3>1, <3>2, OthersStay
  <2>2. KeyOf(c)' = k /\ calls'[c].phase = "ended" /\ Recorded(k)'
    BY <1>2, <1>3, <1>4 DEF KeyOf
  <2>3. runs'[k].state = "failed" /\ runs'[k].attempt < Retries + 1 =>
          calls'[RetryOf(k)].phase = "ended"
    BY <1>2, <1>4
  <2>4. CallInOrder(c)'
    BY <2>2, <2>3 DEF CallInOrder, RetryOf
  <2> QED BY <2>1, <2>4 DEF CallsInOrder
<1>9. RequestsInOrder'
  <2>1. ASSUME NEW p \in requests, p # r PROVE RequestInOrder(p)'
    <3>1. p.caller \in Calls /\ p.caller # c /\ RetryOf(p.key) \in Calls /\ p.key \in Keys
      BY <1>1, <2>1, RequestFacts
    <3> QED BY <1>3, <1>4, <3>1, RequestStays
  <2> QED BY <2>1 DEF RequestsInOrder
<1> QED BY <1>4, <1>5, <1>6, <1>7, <1>8, <1>9

\* The handler of a stored result answers, or waits before a retry.
LEMMA ExactConclude ==
  ASSUME Protocol, Undisturbed, NEW r \in requests, Conclude(r)
  PROVE  Undisturbed'
<1>0. PICK k \in Keys : k = r.key
  BY RequestFacts
<1>1. PICK c \in Calls : c = r.caller
  BY RequestFacts
<1>2. /\ r.stage = "applied" /\ RequestInOrder(r) /\ r \in Request /\ c # None
      /\ UNCHANGED <<leader, checked, groups, runs, storeVars>>
  BY <1>1, RequestFacts, ConstantFacts DEF Conclude
<1>3. r.success <=> runs[k].state = "succeeded"
  BY <1>0, <1>2 DEF RequestInOrder
<1>4. CASE RetryDue(r) \/ Chains
  <2>0. PICK stage \in {"backoff", "chaining"} : stage = "backoff" <=> RetryDue(r)
    OBVIOUS
  <2>1. PICK q : /\ requests' = (requests \ {r}) \cup {q} /\ UNCHANGED calls
                 /\ q.key = k /\ q.finished = r.finished /\ q.success = r.success
                 /\ q.server = r.server /\ q.caller = r.caller /\ q.stage = stage
    <3> DEFINE q == [r EXCEPT !.stage = stage]
    <3>1. requests' = (requests \ {r}) \cup {q} /\ UNCHANGED calls
      BY <1>4, <2>0 DEF Conclude
    <3>2. /\ q.key = r.key /\ q.finished = r.finished /\ q.success = r.success
          /\ q.server = r.server /\ q.caller = r.caller /\ q.stage = stage
      BY <1>2, StageFacts
    <3> HIDE DEF q
    <3> QED BY <1>0, <3>1, <3>2
  <2>2. UNCHANGED <<stored, counts>>
    BY <1>2 DEF storeVars
  <2>3. /\ stage = "backoff" => runs[k].state = "failed"
        /\ stage = "chaining" => ~RetryDue(q)'
    BY <1>0, <1>2, <1>3, <2>0, <2>1 DEF RetryDue, RequestInOrder
  <2>4. RequestInOrder(q)'
    BY <1>0, <1>2, <2>1, <2>2, <2>3 DEF RequestInOrder, KeyOf, RetryOf, Recorded
  <2>5. \A p \in requests : p # r => RequestInOrder(p)'
    BY <1>2, <2>1, <2>2, RequestStays DEF Recorded
  <2>6. /\ RequestsInOrder' /\ LeaderStays'
        /\ \A m \in Keys : (\E p \in requests : p.key = m) => \E p \in requests' : p.key = m
    BY <1>0, <1>2, <2>1, <2>4, <2>5, RequestMoves
  <2>7. CallsInOrder'
    <3>1. ASSUME NEW d \in Calls PROVE CallInOrder(d)'
      <4>1. CASE Began(d)
        <5>1. PICK m \in Keys : m = KeyOf(d)
          BY <4>1 DEF Undisturbed, EachOfOneCall
        <5>2. (\E p \in requests : p.key = m) => \E p \in requests' : p.key = m
          BY <2>6
        <5>3. UNCHANGED <<calls, runs, stored>> /\ (Recorded(m)' <=> Recorded(m))
          BY <1>2, <2>1, <2>2 DEF Recorded
        <5> QED BY <5>1, <5>2, <5>3, CallStays
      <4>2. CASE ~Began(d)
        BY <2>1, <4>2 DEF Began, CallInOrder
      <4> QED BY <4>1, <4>2
    <3> QED BY <3>1 DEF CallsInOrder
  <2>8. /\ EachOfOneCall' /\ EachFinishesOnce' /\ EachStoredAsItWas' /\ CountedOnce'
        /\ RetriesFollow'
    BY <1>2, <2>1, <2>2 DEF Undisturbed, EachOfOneCall, EachFinishesOnce, EachStoredAsItWas,
       CountedOnce, RetriesFollow, Used, Began, KeyOf, Recorded
  <2>9. RunsAreChains'
    <3>1. RunsAreChains /\ \A d \in Calls : Began(d)' <=> Began(d)
      BY <2>1 DEF Began, Undisturbed
    <3>2. \A g \in Groups, n \in Nodes : calls'[<<g, n>>].phase # "unused" <=> g <= groups'
      BY <1>2, <2>1, <3>1 DEF RunsAreChains
    <3> QED BY <1>2, <3>1, <3>2, ChainsStay DEF Used
  <2> QED BY <2>6, <2>7, <2>8, <2>9 DEF Undisturbed
<1>5. CASE ~RetryDue(r) /\ ~Chains
  <2>1. requests' = requests \ {r} /\ calls' = [calls EXCEPT ![r.caller].phase = "ended"]
    BY <1>1, <1>2, <1>5 DEF Conclude, Returned
  <2>2. ~(runs[k].state = "failed" /\ runs[k].attempt < Retries + 1)
    BY <1>0, <1>3, <1>5 DEF RetryDue
  <2> QED BY <1>0, <1>2, <2>1, <2>2, ExactAnswer
<1> QED BY <1>4, <1>5

\* The retry has ended, and the call whose result it follows is answered.
LEMMA ExactRetryReturns ==
  ASSUME Protocol, Undisturbed, NEW r \in requests, RetryReturns(r)
  PROVE  Undisturbed'
<1>1. r.caller # None /\ r.key \in Keys /\ <<r.key, r.finished>> = RetryOf(r.key)
  BY RequestFacts, ConstantFacts
<1>2. /\ r.stage = "retrying" /\ calls[RetryOf(r.key)].phase = "ended"
      /\ requests' = requests \ {r} /\ calls' = [calls EXCEPT ![r.caller].phase = "ended"]
      /\ UNCHANGED <<leader, checked, groups, runs, storeVars>>
  BY <1>1 DEF RetryReturns, Returned
<1> QED BY <1>1, <1>2, ExactAnswer

\* The dependents have run, and the call is answered.
LEMMA ExactDependentsReturn ==
  ASSUME Protocol, Undisturbed, NEW r \in requests, DependentsReturn(r)
  PROVE  Undisturbed'
<1>1. RequestInOrder(r) /\ r.caller # None /\ r.key \in Keys
  BY RequestFacts, ConstantFacts
<1>2. /\ r.stage = "chaining"
      /\ requests' = requests \ {r} /\ calls' = [calls EXCEPT ![r.caller].phase = "ended"]
      /\ UNCHANGED <<leader, checked, groups, runs, storeVars>>
  BY <1>1 DEF DependentsReturn, Returned
<1>3. ~(runs[r.key].state = "failed" /\ runs[r.key].attempt < Retries + 1)
  BY <1>1, <1>2 DEF RequestInOrder, RetryDue
<1> QED BY <1>1, <1>2, <1>3, ExactAnswer

\* A retry dials, and the request waits for it.
LEMMA ExactRetry ==
  ASSUME Protocol, Undisturbed, NEW r \in requests, Retry(r)
  PROVE  Undisturbed'
<1> USE DEF Undisturbed
<1>0. PICK k \in Keys : k = r.key
  BY RequestFacts
<1>1. PICK e \in Calls : e = RetryOf(k)
  BY <1>0, RequestFacts
<1>2. /\ r.stage = "backoff" /\ RequestInOrder(r) /\ r \in Request /\ r.server = leader
      /\ calls[e].phase = "unused" /\ e \in RetryCalls
      /\ UNCHANGED <<leader, checked, groups, runs, storeVars>>
  BY <1>0, <1>1, RequestFacts DEF Retry
<1>3. PICK q : /\ requests' = (requests \ {r}) \cup {q}
               /\ q.key = k /\ q.finished = r.finished /\ q.success = r.success
               /\ q.server = r.server /\ q.caller = r.caller /\ q.stage = "retrying"
  <2> DEFINE q == [r EXCEPT !.stage = "retrying"]
  <2>1. requests' = (requests \ {r}) \cup {q}
    BY <1>2 DEF Retry
  <2>2. /\ q.key = r.key /\ q.finished = r.finished /\ q.success = r.success
        /\ q.server = r.server /\ q.caller = r.caller /\ q.stage = "retrying"
    BY <1>2, StageFacts
  <2> HIDE DEF q
  <2> QED BY <1>0, <2>1, <2>2
<1>4. /\ \A d \in Calls : d # e => calls'[d] = calls[d]
      /\ calls'[e].phase = "dialing" /\ calls'[e].key = None
  <2>1. calls' = [calls EXCEPT ![e] = Dialing(r.server)]
    BY <1>0, <1>1, <1>2, RequestFacts DEF Retry
  <2>2. Dialing(r.server).phase = "dialing" /\ Dialing(r.server).key = None
    BY DEF Dialing
  <2> QED BY <2>1, <2>2, Facts
<1>5. CallsDial
  BY <1>2, <1>4 DEF CallsDial
<1>6. /\ UNCHANGED <<stored, counts>>
      /\ \A m \in Keys : Recorded(m)' <=> Recorded(m)
  BY <1>2 DEF storeVars, Recorded
<1>7. /\ EachOfOneCall' /\ EachFinishesOnce' /\ EachStoredAsItWas' /\ CountedOnce'
      /\ \A c \in Calls : (Began(c)' <=> Began(c)) /\ KeyOf(c)' = KeyOf(c)
      /\ \A c \in Calls : Began(c) => calls'[c] = calls[c]
  <2>1. UNCHANGED <<runs, storeVars>>
    BY <1>2
  <2> QED BY <1>5, <2>1, ExactDials
<1>8. RequestInOrder(q)'
  <2>1. calls'[r.caller] = calls[r.caller] /\ r.caller \in Calls
    BY <1>7, RequestFacts
  <2>2. calls'[RetryOf(k)].phase # "unused"
    BY <1>1, <1>4
  <2> QED BY <1>0, <1>2, <1>3, <1>6, <2>1, <2>2 DEF RequestInOrder, KeyOf, RetryOf
<1>9. \A p \in requests : p # r => RequestInOrder(p)'
  <2>1. ASSUME NEW p \in requests, p # r PROVE RequestInOrder(p)'
    <3>1. /\ p.key \in Keys /\ p.key # k /\ RetryOf(p.key) \in Calls /\ RetryOf(p.key) # e
          /\ calls'[p.caller] = calls[p.caller]
      BY <1>0, <1>1, <1>7, <2>1, RequestFacts DEF RetryOf
    <3> QED BY <1>2, <1>4, <1>6, <3>1, RequestStays
  <2> QED BY <2>1
<1>10. /\ RequestsInOrder' /\ LeaderStays'
       /\ \A m \in Keys : (\E p \in requests : p.key = m) => \E p \in requests' : p.key = m
  BY <1>0, <1>2, <1>3, <1>8, <1>9, RequestMoves
<1>11. CallsInOrder'
  <2>1. ASSUME NEW d \in Calls PROVE CallInOrder(d)'
    <3>1. CASE Began(d)
      <4>1. PICK m \in Keys : m = KeyOf(d)
        BY <3>1 DEF EachOfOneCall
      <4>2. calls'[d] = calls[d] /\ (Recorded(m)' <=> Recorded(m))
            /\ ((\E p \in requests : p.key = m) => \E p \in requests' : p.key = m)
        BY <1>6, <1>7, <1>10, <3>1
      <4>3. calls[RetryOf(m)].phase = "ended" => calls'[RetryOf(m)].phase = "ended"
        <5>1. RetryOf(m) \in Calls
          BY Facts
        <5> QED BY <1>2, <1>4, <5>1
      <4> QED BY <1>2, <1>6, <4>1, <4>2, <4>3, CallStays
    <3>2. CASE ~Began(d)
      <4>1. ~Began(d)'
        BY <1>7, <3>2
      <4> QED BY <4>1 DEF Began, CallInOrder
    <3> QED BY <3>1, <3>2
  <2> QED BY <2>1 DEF CallsInOrder
<1>12. RetriesFollow'
  <2>1. e[1] = k /\ e[2] = 2 /\ runs[k].state = "failed" /\ Recorded(k)
    BY <1>0, <1>1, <1>2 DEF RequestInOrder, RetryOf
  <2> QED BY <1>2, <1>4, <1>6, <2>1, Facts DEF RetriesFollow
<1>13. RunsAreChains'
  <2>1. \A g \in Groups, n \in Nodes : calls'[<<g, n>>].phase # "unused" <=> g <= groups'
    <3>1. \A g \in Groups, n \in Nodes : calls'[<<g, n>>] = calls[<<g, n>>]
      BY <1>2, <1>4, Facts
    <3> QED BY <1>2, <3>1 DEF RunsAreChains
  <2> QED BY <1>2, <1>7, <2>1, ChainsStay DEF Used
<1> QED BY <1>7, <1>10, <1>11, <1>12, <1>13

\* The execution that a call starts: the first of a run on a node, or the next
\* attempt after the one it retries.
Starts(c, k) ==
  /\ calls[c].phase = "dialing" /\ ~Used(k)
  /\ \A d \in Calls : d # c => calls'[d] = calls[d]
  /\ calls'[c].phase = "started" /\ calls'[c].key = k
  /\ \A m \in Keys : m # k => runs'[m] = runs[m]
  /\ runs'[k].state = "running" /\ runs'[k].stream /\ runs'[k].last = 1
  /\ c \in FirstCalls =>
       runs'[k].group = c[1] /\ runs'[k].node = c[2] /\ runs'[k].attempt = 1
  /\ c \notin FirstCalls =>
       /\ runs'[k].group = runs[c[1]].group /\ runs'[k].node = runs[c[1]].node
       /\ runs'[k].attempt = runs[c[1]].attempt + 1
  /\ UNCHANGED <<leader, checked, groups, requests, stored, counts>>

\* A step that starts an execution takes an unused key, with the next attempt.
LEMMA StartFacts ==
  ASSUME Protocol, NEW c \in Calls, Start(c)
  PROVE  \E k \in Keys : Starts(c, k)
<1> DEFINE U == {m \in Keys : runs[m].state # "unused"}
           k == Cardinality(U) + 1
<1>1. k \in Keys /\ ~Used(k)
  <2>1. k \in Keys
    BY DEF Start
  <2> QED BY <2>1, NextKey
<1>2. PICK i \in Keys : i = k /\ ~Used(i)
  BY <1>1
<1> DEFINE first == [state |-> "running", group |-> c[1], node |-> c[2], attempt |-> 1,
                     stream |-> TRUE, last |-> 1]
           next == [state |-> "running", group |-> runs[c[1]].group, node |-> runs[c[1]].node,
                    attempt |-> runs[c[1]].attempt + 1, stream |-> TRUE, last |-> 1]
<1>3. /\ calls[c].phase = "dialing"
      /\ calls' = [calls EXCEPT ![c].phase = "started", ![c].key = i]
      /\ runs' = [runs EXCEPT ![i] = IF c \in FirstCalls THEN first ELSE next]
      /\ UNCHANGED <<leader, checked, groups, requests, storeVars>>
  BY <1>2 DEF Start
<1> HIDE DEF k, U
<1>4. /\ \A d \in Calls : d # c => calls'[d] = calls[d]
      /\ calls'[c].phase = "started" /\ calls'[c].key = i
  <2>1. calls[c] \in Call
    BY Facts
  <2> QED BY <1>3, <2>1, Facts DEF Call
<1>5. /\ \A m \in Keys : m # i => runs'[m] = runs[m]
      /\ c \in FirstCalls => runs'[i] = first
      /\ c \notin FirstCalls => runs'[i] = next
  BY <1>3, Facts
<1>6. /\ first.state = "running" /\ first.stream /\ first.last = 1
      /\ first.group = c[1] /\ first.node = c[2] /\ first.attempt = 1
      /\ next.state = "running" /\ next.stream /\ next.last = 1
      /\ next.group = runs[c[1]].group /\ next.node = runs[c[1]].node
      /\ next.attempt = runs[c[1]].attempt + 1
  OBVIOUS
<1>7. UNCHANGED <<leader, checked, groups, requests, stored, counts>>
  BY <1>3 DEF storeVars
<1> HIDE DEF first, next
<1>8. runs'[i].state = "running" /\ runs'[i].stream /\ runs'[i].last = 1
  BY <1>5, <1>6
<1>9. c \in FirstCalls =>
        runs'[i].group = c[1] /\ runs'[i].node = c[2] /\ runs'[i].attempt = 1
  BY <1>5, <1>6
<1>10. c \notin FirstCalls =>
         /\ runs'[i].group = runs[c[1]].group /\ runs'[i].node = runs[c[1]].node
         /\ runs'[i].attempt = runs[c[1]].attempt + 1
  BY <1>5, <1>6
<1> QED BY <1>2, <1>3, <1>4, <1>5, <1>7, <1>8, <1>9, <1>10 DEF Starts

\* A run on a node begins a chain of attempts with its first execution.
LEMMA ChainBegins ==
  ASSUME Protocol, Undisturbed, NEW c \in FirstCalls, c \in Calls, NEW k \in Keys, Starts(c, k),
         NEW g \in Groups, NEW n \in Nodes, c = <<g, n>>,
         calls'[RetryOf(k)].phase = "unused"
  PROVE  Chained(g, n)'
<1> DEFINE S == Started(g, n)
<1>1. S = {}
  <2>1. ~Began(<<g, n>>)
    BY DEF Starts, Began
  <2> QED BY <2>1 DEF Undisturbed, RunsAreChains, Chained
<1>2. runs'[k].group = g /\ runs'[k].node = n /\ runs'[k].attempt = 1
  BY DEF Starts
<1>3. S' = {k}
  <2>1. \A m \in Keys : m # k => m \notin S'
    BY <1>1 DEF Started, Starts
  <2>2. k \in S' /\ S' \subseteq Keys
    BY <1>2 DEF Started
  <2> QED BY <2>1, <2>2
<1>4. Cardinality(S') = 1
  BY <1>3, FS_Singleton
<1>5. Attempts(S)' = 1..Cardinality(S')
  <2>1. Attempts(S)' = {1} /\ 1..1 = {1}
    BY <1>2, <1>3 DEF Attempts
  <2> QED BY <1>4, <2>1
<1>6. Began(<<g, n>>)'
  BY DEF Starts, Began
<1>7. \A m \in S' : Newest(m, S)' /\ ~Began(RetryOf(m))'
  BY <1>2, <1>3, <1>4 DEF Newest, Began, RetryOf
<1> QED BY <1>3, <1>5, <1>6, <1>7 DEF Chained

\* A retry adds the next attempt to the chain.
LEMMA ChainGrows ==
  ASSUME Protocol, Undisturbed, NEW c \in RetryCalls, c \in Calls, NEW k \in Keys, Starts(c, k),
         NEW m \in Keys, c = RetryOf(m), Used(m), m # k,
         NEW g \in Groups, NEW n \in Nodes, g = runs[m].group, n = runs[m].node,
         calls'[RetryOf(k)].phase = "unused", RetryOf(k) # c, k \notin Started(g, n)
  PROVE  Chained(g, n)'
<1> DEFINE S == Started(g, n)
           x == Cardinality(S)
<1>1. S \in SUBSET Keys /\ m \in S /\ IsFiniteSet(S) /\ x \in Nat
  <2>1. S \in SUBSET Keys /\ m \in S
    BY DEF Started
  <2> QED BY <2>1, KeysAreFinite
<1>2. Chained(g, n)
  BY DEF Undisturbed, RunsAreChains
<1>3. runs[m].attempt = x
  <2>1. ~Began(RetryOf(m))
    BY DEF Starts, Began
  <2> QED BY <1>1, <1>2, <2>1 DEF Chained, Newest
<1>4. runs'[k].group = g /\ runs'[k].node = n /\ runs'[k].attempt = x + 1
  <2>1. c \notin FirstCalls /\ c[1] = m
    BY ConstantFacts DEF RetryOf
  <2> QED BY <1>3, <2>1 DEF Starts
<1>5. S' = S \cup {k} /\ Cardinality(S') = x + 1
  <2>1. \A i \in Keys : i # k => (i \in S' <=> i \in S)
    BY DEF Started, Starts
  <2>2. k \in S' /\ S' \subseteq Keys
    BY <1>4 DEF Started
  <2>3. S' = S \cup {k}
    BY <1>1, <2>1, <2>2
  <2>4. k \notin S
    OBVIOUS
  <2> HIDE DEF S
  <2>5. Cardinality(S \cup {k}) = x + 1
    BY <1>1, <2>4, FS_AddElement
  <2> QED BY <2>3, <2>5
<1>6. \A i \in S : runs'[i] = runs[i] /\ runs[i].attempt \in 1..x /\ RetryOf(i) \in Calls
  <2>1. \A i \in S : i \in Keys /\ i # k
    BY <1>1
  <2>2. \A i \in S : runs[i].attempt \in Attempts(S)
    BY DEF Attempts
  <2> QED BY <1>2, <2>1, <2>2, Facts DEF Chained, Starts
<1>7. Attempts(S)' = 1..Cardinality(S')
  <2>1. Attempts(S)' = Attempts(S) \cup {x + 1}
    BY <1>4, <1>5, <1>6 DEF Attempts
  <2>2. Attempts(S) = 1..x
    BY <1>2 DEF Chained
  <2>3. 1..(x + 1) = (1..x) \cup {x + 1}
    BY <1>1
  <2> QED BY <1>5, <2>1, <2>2, <2>3
<1>8. \A i, j \in S' : runs'[i].attempt = runs'[j].attempt => i = j
  <2>1. \A i, j \in S : runs[i].attempt = runs[j].attempt => i = j
    BY <1>2 DEF Chained
  <2>2. \A i \in S : runs'[i].attempt # x + 1
    BY <1>1, <1>6
  <2> QED BY <1>4, <1>5, <1>6, <2>1, <2>2
<1>9. Began(<<g, n>>)'
  <2>1. Began(<<g, n>>) /\ <<g, n>> \in Calls /\ <<g, n>> # c
    BY <1>1, <1>2, Facts DEF Chained
  <2> QED BY <2>1 DEF Starts, Began
<1>10. \A i \in S' : Newest(i, S)' <=> ~Began(RetryOf(i))'
  <2>1. Newest(k, S)' /\ ~Began(RetryOf(k))'
    BY <1>4, <1>5 DEF Newest, Began, RetryOf
  <2>2. ASSUME NEW i \in S PROVE ~Newest(i, S)' /\ Began(RetryOf(i))'
    <3>1. runs'[i].attempt # x + 1
      BY <1>1, <1>6
    <3>2. CASE i = m
      BY <1>5, <3>1, <3>2 DEF Newest, Began, RetryOf, Starts
    <3>3. CASE i # m
      <4>1. runs[i].attempt # x
        BY <1>1, <1>2, <1>3, <3>3 DEF Chained
      <4>2. Began(RetryOf(i)) /\ RetryOf(i) # c
        BY <1>2, <3>3, <4>1 DEF Chained, Newest, RetryOf
      <4>3. Began(RetryOf(i))'
        BY <1>6, <4>2 DEF Began, RetryOf, Starts
      <4> QED BY <1>5, <3>1, <4>3 DEF Newest
    <3> QED BY <3>2, <3>3
  <2> QED BY <1>5, <2>1, <2>2
<1> QED BY <1>5, <1>7, <1>8, <1>9, <1>10 DEF Chained

\* The other chains stay as they are.
LEMMA OtherChainsStay ==
  ASSUME Protocol, Undisturbed, NEW c \in Calls, NEW k \in Keys, Starts(c, k),
         NEW g \in Groups, NEW n \in Nodes, c # <<g, n>>, k \notin Started(g, n),
         ~(runs'[k].group = g /\ runs'[k].node = n),
         \A m \in Started(g, n) : RetryOf(m) # c
  PROVE  Chained(g, n)'
<1> DEFINE S == Started(g, n)
<1>1. \A m \in S : m \in Keys /\ runs'[m] = runs[m] /\ RetryOf(m) \in Calls
                   /\ calls'[RetryOf(m)] = calls[RetryOf(m)]
  <2>1. \A m \in S : m \in Keys /\ m # k
    BY DEF Started
  <2> QED BY <2>1, Facts DEF Starts
<1>2. S' = S
  <2>1. \A m \in Keys : m # k => (m \in S' <=> m \in S)
    BY DEF Started, Starts
  <2>2. k \notin S' /\ S \subseteq Keys /\ S' \subseteq Keys
    BY DEF Started
  <2> QED BY <2>1, <2>2
<1>3. Chained(g, n)
  BY DEF Undisturbed, RunsAreChains
<1>4. Began(<<g, n>>)' <=> Began(<<g, n>>)
  <2>1. <<g, n>> \in Calls
    BY Facts
  <2> QED BY <2>1 DEF Starts, Began
<1>5. Attempts(S)' = Attempts(S)
  BY <1>1, <1>2 DEF Attempts
<1>6. Attempts(S)' = 1..Cardinality(S')
  BY <1>2, <1>3, <1>5 DEF Chained
<1>7. \A i, j \in S' : runs'[i].attempt = runs'[j].attempt => i = j
  BY <1>1, <1>2, <1>3 DEF Chained
<1>8. \A i \in S' : Newest(i, S)' <=> ~Began(RetryOf(i))'
  BY <1>1, <1>2, <1>3 DEF Chained, Newest, Began, RetryOf
<1>9. S' = {} <=> ~Began(<<g, n>>)'
  BY <1>2, <1>3, <1>4 DEF Chained
<1> QED BY <1>6, <1>7, <1>8, <1>9 DEF Chained

\* An execution starts on a node.
LEMMA ExactStart ==
  ASSUME Protocol, Undisturbed, NEW c \in Calls, Start(c)
  PROVE  Undisturbed'
<1> USE DEF Undisturbed
<1>0. PICK k \in Keys : Starts(c, k)
  BY StartFacts
<1>1. /\ ~Used(k) /\ calls[c].phase = "dialing" /\ stored[k] = None /\ ~Recorded(k)
      /\ \A r \in requests : r.key # k
      /\ runs[k].group = None
  BY <1>0 DEF Starts, Protocol, NothingBefore, RunsAreChains, Recorded
<1>2. /\ RetryOf(k) \in Calls /\ calls[RetryOf(k)].phase = "unused" /\ RetryOf(k) # c
      /\ calls'[RetryOf(k)].phase = "unused"
  <2>1. RetryOf(k) \in RetryCalls /\ RetryOf(k) \in Calls /\ RetryOf(k)[1] = k
    BY Facts DEF RetryOf
  <2>2. calls[RetryOf(k)].phase = "unused"
    BY <1>1, <2>1 DEF RetriesFollow
  <2> QED BY <1>0, <1>1, <2>1, <2>2 DEF Starts
<1>3. /\ \A m \in Keys : m # k => runs'[m] = runs[m] /\ (Used(m)' <=> Used(m))
      /\ Used(k)' /\ UNCHANGED <<leader, checked, groups, requests, stored, counts>>
      /\ \A m \in Keys : Recorded(m)' <=> Recorded(m)
  BY <1>0 DEF Starts, Used, Recorded
<1>4. /\ \A d \in Calls : d # c => calls'[d] = calls[d]
      /\ calls'[c].phase = "started" /\ calls'[c].key = k
      /\ \A d \in Calls : d # c => (Began(d)' <=> Began(d)) /\ KeyOf(d)' = KeyOf(d)
      /\ ~Began(c) /\ Began(c)' /\ KeyOf(c)' = k
      /\ \A d \in Calls : Began(d) => KeyOf(d) \in Keys /\ KeyOf(d) # k
      /\ \A d \in Calls : calls'[d].phase # "unused" <=> calls[d].phase # "unused"
  BY <1>0, <1>1 DEF Starts, Began, KeyOf, EachOfOneCall
<1>5. LeaderStays' /\ CountedOnce'
  BY <1>3 DEF LeaderStays, CountedOnce
<1>6. EachOfOneCall'
  <2>1. \A d \in Calls : ~Began(d)' => KeyOf(d)' = None
    BY <1>4 DEF EachOfOneCall
  <2>2. \A d \in Calls : Began(d)' => KeyOf(d)' \in Keys /\ runs'[KeyOf(d)'].state # "unused"
    <3>1. ASSUME NEW d \in Calls, Began(d)' PROVE KeyOf(d)' \in Keys /\ runs'[KeyOf(d)'].state # "unused"
      <4>1. CASE d = c
        BY <1>3, <1>4, <4>1 DEF Used
      <4>2. CASE d # c
        <5>1. PICK m \in Keys : m = KeyOf(d) /\ m # k /\ Used(m)
          BY <1>4, <3>1, <4>2 DEF EachOfOneCall
        <5> QED BY <1>3, <1>4, <4>2, <5>1 DEF Used
      <4> QED BY <4>1, <4>2
    <3> QED BY <3>1
  <2>3. \A d, e \in Calls : Began(d)' /\ Began(e)' /\ KeyOf(d)' = KeyOf(e)' => d = e
    BY <1>4 DEF EachOfOneCall
  <2>4. \A m \in Keys : Used(m)' => \E d \in Calls : Began(d)' /\ KeyOf(d)' = m
    <3>1. ASSUME NEW m \in Keys, Used(m)', m # k PROVE \E d \in Calls : Began(d)' /\ KeyOf(d)' = m
      <4>1. PICK d \in Calls : Began(d) /\ KeyOf(d) = m
        BY <1>3, <3>1 DEF EachOfOneCall
      <4> QED BY <1>4, <4>1
    <3> QED BY <1>4, <3>1
  <2> QED BY <2>1, <2>2, <2>3, <2>4 DEF EachOfOneCall, KeyOf, Used
<1>7. EachFinishesOnce'
  BY <1>0, <1>3 DEF EachFinishesOnce, Starts
<1>8. EachStoredAsItWas'
  BY <1>1, <1>3 DEF EachStoredAsItWas
<1>9. CallsInOrder'
  <2>1. ASSUME NEW d \in Calls, d # c PROVE CallInOrder(d)'
    <3>1. CASE Began(d)
      <4>1. PICK m \in Keys : m = KeyOf(d) /\ m # k
        BY <1>4, <3>1
      <4>2. runs'[m] = runs[m] /\ (Recorded(m)' <=> Recorded(m))
        BY <1>3, <4>1
      <4>3. calls[RetryOf(m)].phase = "ended" => calls'[RetryOf(m)].phase = "ended"
        <5>1. RetryOf(m) \in Calls
          BY Facts
        <5> QED BY <1>1, <1>4, <5>1
      <4> QED BY <1>3, <1>4, <2>1, <4>1, <4>2, <4>3, CallStays
    <3>2. CASE ~Began(d)
      BY <1>4, <2>1, <3>2 DEF Began, CallInOrder
    <3> QED BY <3>1, <3>2
  <2>2. CallInOrder(c)'
    BY <1>1, <1>3, <1>4 DEF CallInOrder
  <2> QED BY <2>1, <2>2 DEF CallsInOrder
<1>10. RequestsInOrder'
  <2>1. ASSUME NEW r \in requests PROVE RequestInOrder(r)'
    <3>1. /\ r.key \in Keys /\ r.key # k /\ RetryOf(r.key) \in Calls
          /\ r.caller \in Calls /\ Began(r.caller)
      BY <1>1, RequestFacts
    <3>2. calls'[r.caller] = calls[r.caller] /\ runs'[r.key] = runs[r.key]
      BY <1>3, <1>4, <3>1
    <3> QED BY <1>3, <1>4, <3>1, <3>2, RequestStays
  <2> QED BY <1>3, <2>1 DEF RequestsInOrder
<1>11. RetriesFollow'
  <2>1. ASSUME NEW d \in RetryCalls, calls'[d].phase # "unused"
        PROVE  d[2] = 2 /\ runs'[d[1]].state = "failed" /\ Recorded(d[1])'
    <3>1. d \in Calls /\ d[1] \in Keys
      BY Facts
    <3>2. d[2] = 2 /\ runs[d[1]].state = "failed" /\ Recorded(d[1])
      BY <1>4, <2>1, <3>1 DEF RetriesFollow
    <3> QED BY <1>1, <1>3, <3>1, <3>2
  <2> QED BY <2>1 DEF RetriesFollow
<1>12. RunsAreChains'
  <2>1. \A g \in Groups, n \in Nodes : calls'[<<g, n>>].phase # "unused" <=> g <= groups'
    BY <1>3, <1>4, Facts DEF RunsAreChains
  <2>2. \A g \in Groups, n \in Nodes : k \notin Started(g, n)
    BY <1>1, ConstantFacts DEF Started
  <2>3. CASE c \in FirstCalls
    <3>1. PICK g0 \in Groups, n0 \in Nodes : c = <<g0, n0>>
      BY <2>3 DEF FirstCalls
    <3>2. runs'[k].group = g0 /\ runs'[k].node = n0
      BY <1>0, <2>3, <3>1 DEF Starts
    <3>3. Chained(g0, n0)'
      BY <1>0, <1>2, <2>3, <3>1, ChainBegins
    <3>4. ASSUME NEW g \in Groups, NEW n \in Nodes, ~(g = g0 /\ n = n0) PROVE Chained(g, n)'
      <4>1. \A m \in Started(g, n) : RetryOf(m) # c
        BY <2>3, ConstantFacts, Facts DEF Started
      <4>2. c # <<g, n>>
        BY <3>1, <3>4
      <4>3. ~(runs'[k].group = g /\ runs'[k].node = n)
        BY <3>2, <3>4
      <4> QED BY <1>0, <2>2, <4>1, <4>2, <4>3, OtherChainsStay
    <3>5. \A m \in Keys : IF Used(m)' THEN runs'[m].group \in Groups /\ runs'[m].node \in Nodes
                          ELSE runs'[m].group = None
      BY <1>3, <3>2 DEF RunsAreChains
    <3>6. \A g \in Groups, n \in Nodes : Chained(g, n)'
      BY <3>3, <3>4
    <3> QED BY <2>1, <3>5, <3>6 DEF RunsAreChains
  <2>4. CASE c \notin FirstCalls
    <3>1. c \in RetryCalls
      BY <2>4 DEF Calls
    <3>2. PICK m \in Keys : c = RetryOf(m)
      <4>1. c[1] \in Keys /\ c = <<c[1], c[2]>> /\ c[2] = 2
        BY <1>1, <3>1, Facts DEF RetriesFollow
      <4> QED BY <4>1 DEF RetryOf
    <3>3. c[1] = m /\ Used(m) /\ m # k
      <4>1. c[1] = m
        BY <3>2 DEF RetryOf
      <4>2. runs[m].state = "failed"
        BY <1>1, <3>1, <4>1 DEF RetriesFollow
      <4> QED BY <1>1, <4>1, <4>2 DEF Used
    <3>4. PICK g0 \in Groups, n0 \in Nodes : g0 = runs[m].group /\ n0 = runs[m].node
      BY <3>3 DEF RunsAreChains
    <3>5. runs'[k].group = g0 /\ runs'[k].node = n0
      BY <1>0, <2>4, <3>3, <3>4 DEF Starts
    <3>6. Chained(g0, n0)'
      BY <1>0, <1>2, <2>2, <3>1, <3>2, <3>3, <3>4, ChainGrows
    <3>7. ASSUME NEW g \in Groups, NEW n \in Nodes, ~(g = g0 /\ n = n0) PROVE Chained(g, n)'
      <4>1. \A i \in Started(g, n) : RetryOf(i) # c
        BY <3>2, <3>4, <3>7 DEF Started, RetryOf
      <4>2. c # <<g, n>>
        BY <3>1, Facts
      <4>3. ~(runs'[k].group = g /\ runs'[k].node = n)
        BY <3>5, <3>7
      <4> QED BY <1>0, <2>2, <4>1, <4>2, <4>3, OtherChainsStay
    <3>8. \A i \in Keys : IF Used(i)' THEN runs'[i].group \in Groups /\ runs'[i].node \in Nodes
                          ELSE runs'[i].group = None
      BY <1>3, <3>5 DEF RunsAreChains
    <3>9. \A g \in Groups, n \in Nodes : Chained(g, n)'
      BY <3>6, <3>7
    <3> QED BY <2>1, <3>8, <3>9 DEF RunsAreChains
  <2> QED BY <2>3, <2>4
<1> QED BY <1>5, <1>6, <1>7, <1>8, <1>9, <1>10, <1>11, <1>12

\* Nothing has begun.
LEMMA ExactInit ==
  ASSUME Init
  PROVE  Undisturbed
<1>0. Protocol
  BY InitProtocol
<1>1. /\ \A c \in Calls : calls[c].phase = "unused" /\ calls[c].key = None
      /\ \A k \in Keys : /\ runs[k].state = "unused" /\ runs[k].group = None
                         /\ stored[k] = None
      /\ requests = {} /\ checked = {} /\ leader \in Servers /\ groups = 0
      /\ counts.success = 0 /\ counts.error = 0
  BY DEF Init
<1>2. \A k \in Keys : ~Used(k) /\ ~Recorded(k)
  BY <1>1 DEF Used, Recorded
<1>3. \A c \in Calls : ~Began(c) /\ KeyOf(c) = None
  BY <1>1 DEF Began, KeyOf
<1>4. LeaderStays /\ EachOfOneCall /\ EachFinishesOnce /\ EachStoredAsItWas
  BY <1>1, <1>2, <1>3 DEF LeaderStays, EachOfOneCall, EachFinishesOnce, EachStoredAsItWas
<1>5. CallsInOrder /\ RequestsInOrder
  BY <1>1 DEF CallsInOrder, RequestsInOrder, CallInOrder
<1>6. RetriesFollow
  BY <1>0, <1>1, Facts DEF RetriesFollow
<1>7. RunsAreChains
  <2>1. ASSUME NEW g \in Groups, NEW n \in Nodes
        PROVE  Chained(g, n) /\ (calls[<<g, n>>].phase # "unused" <=> g <= groups)
    <3>1. Started(g, n) = {}
      BY <1>1, ConstantFacts DEF Started
    <3>2. Cardinality(Started(g, n)) = 0 /\ Attempts(Started(g, n)) = {} /\ 1..0 = {}
      BY <3>1, FS_EmptySet DEF Attempts
    <3>3. <<g, n>> \in Calls /\ ~(g <= groups)
      BY <1>0, <1>1, Facts DEF Groups
    <3> QED BY <1>1, <1>3, <3>1, <3>2, <3>3 DEF Chained
  <2> QED BY <1>1, <1>2, <2>1 DEF RunsAreChains
<1>8. CountedOnce
  <2>1. /\ {k \in Keys : Recorded(k) /\ stored[k].success} = {}
        /\ {k \in Keys : Recorded(k) /\ ~stored[k].success} = {}
    BY <1>2
  <2> QED BY <1>1, <2>1, FS_EmptySet DEF CountedOnce
<1> QED BY <1>4, <1>5, <1>6, <1>7, <1>8 DEF Undisturbed

\* As long as there has been no fault, every step keeps what holds.
LEMMA ExactNext ==
  ASSUME Protocol, faults = 0 => Undisturbed, [Next]_execVars, faults' = 0
  PROVE  Undisturbed'
<1>0. faults \in Nat /\ ~Fault
  BY DEF Fault, Protocol, TypeOK
<1>1. CASE UNCHANGED execVars
  <2>1. UNCHANGED <<leader, groups, calls, runs, requests, storeVars>> /\ checked' = checked /\ faults = 0
    BY <1>1 DEF execVars
  <2> QED BY <2>1, ExactAside
<1>2. ASSUME NEW s \in Servers, Check(s) \/ RunJob(s) \/ Crash(s) \/ Restart(s) \/ Elect(s)
      PROVE  Undisturbed'
  <2>1. ~Crash(s)
    BY <1>0 DEF Crash, Down
  <2>2. faults = 0 /\ Undisturbed
    BY <1>0, <1>2, <2>1 DEF Check, RunJob, Restart, Elect
  <2>3. ~Elect(s)
    BY <2>2, ConstantFacts DEF Elect, Undisturbed, LeaderStays
  <2> QED BY <1>2, <2>1, <2>2, <2>3, ExactChecks, ExactRunJob
<1>3. ASSUME NEW c \in Calls,
             Start(c) \/ DialFails(c) \/ Register(c) \/ ReceiveEnd(c) \/ NoticeBreak(c)
               \/ RegisterUncertain(c)
      PROVE  Undisturbed'
  <2>1. ~DialFails(c) /\ ~RegisterUncertain(c)
    BY <1>0 DEF DialFails, RegisterUncertain, Down
  <2>2. faults = 0 /\ Undisturbed
    BY <1>3, <2>1 DEF Start, Register, ReceiveEnd, NoticeBreak
  <2>3. ~NoticeBreak(c)
    <3>1. SUFFICES ASSUME NoticeBreak(c) PROVE FALSE
      OBVIOUS
    <3>2. Began(c) /\ ~runs[KeyOf(c)].stream
      BY <3>1 DEF NoticeBreak, Began, KeyOf
    <3> QED BY <2>2, <3>2 DEF Undisturbed, EachOfOneCall, EachFinishesOnce
  <2> QED BY <1>3, <2>1, <2>2, <2>3, ExactStart, ExactRegister, ExactReceiveEnd
<1>4. ASSUME NEW k \in Keys,
             (\E success \in BOOLEAN : Finish(k, success))
               \/ BreakStream(k) \/ AgentCrash(k) \/ Age(k)
      PROVE  Undisturbed'
  <2>1. ~BreakStream(k) /\ ~AgentCrash(k)
    BY <1>0 DEF BreakStream, AgentCrash
  <2>2. faults = 0 /\ Undisturbed
    BY <1>4, <2>1 DEF Finish, Age
  <2>3. ~Age(k)
    BY <2>2, NothingStale DEF Age
  <2> QED BY <1>4, <2>1, <2>2, <2>3, ExactFinish
<1>5. ASSUME NEW r \in requests,
             Forward(r) \/ ApplyDone(r) \/ ApplyUncertain(r) \/ Conclude(r)
               \/ Retry(r) \/ RetryReturns(r) \/ DependentsReturn(r)
      PROVE  Undisturbed'
  <2>1. ~ApplyUncertain(r)
    BY <1>0 DEF ApplyUncertain
  <2>2. faults = 0 /\ Undisturbed
    BY <1>5, <2>1 DEF Forward, ApplyDone, Conclude, Retry, RetryReturns, DependentsReturn
  <2>3. ~Forward(r)
    BY <2>2 DEF Forward, Undisturbed, LeaderStays
  <2> QED BY <1>5, <2>1, <2>2, <2>3, ExactApply, ExactConclude, ExactRetry, ExactRetryReturns,
             ExactDependentsReturn
<1>6. ~LoseLeadership
  BY <1>0 DEF LoseLeadership
<1> QED BY <1>1, <1>2, <1>3, <1>4, <1>5, <1>6 DEF Next

\* When all is answered, the chains have ended and all is stored and counted.
LEMMA ExactWhenQuiet ==
  ASSUME Protocol, Undisturbed, Quiet
  PROVE  ExactWithoutFaults
<1> USE DEF Undisturbed
<1>1. ASSUME NEW k \in Keys, Used(k)
      PROVE  /\ Recorded(k) /\ runs[k].state \in {"succeeded", "failed"}
             /\ stored[k] = [finished |-> runs[k].last, success |-> runs[k].state = "succeeded"]
             /\ runs[k].state = "failed" /\ runs[k].attempt < Retries + 1 => Began(RetryOf(k))
  <2>1. PICK c \in Calls : Began(c) /\ KeyOf(c) = k
    BY <1>1 DEF EachOfOneCall
  <2>2. calls[c].phase = "ended"
    BY <2>1 DEF Quiet, Began
  <2>3. Recorded(k) /\ (runs[k].state = "failed" /\ runs[k].attempt < Retries + 1 =>
                          calls[RetryOf(k)].phase = "ended")
    BY <2>1, <2>2 DEF CallsInOrder, CallInOrder
  <2>4. /\ runs[k].state \in {"succeeded", "failed"}
        /\ stored[k] = [finished |-> 2, success |-> runs[k].state = "succeeded"]
    BY <2>3 DEF EachStoredAsItWas
  <2>5. runs[k].last = 2
    BY <1>1, <2>4 DEF EachFinishesOnce
  <2> QED BY <2>3, <2>4, <2>5 DEF Began
<1>2. ASSUME NEW g \in 1..groups, NEW n \in Nodes
      PROVE  LET S == Started(g, n)
                 last == Cardinality(S)
             IN /\ {runs[k].attempt : k \in S} = 1..last
                /\ \A k \in S : (runs[k].state = "succeeded") => runs[k].attempt = last
                /\ (\E k \in S : runs[k].state = "succeeded") \/ last = Retries + 1
                /\ \A k \in S : stored[k] = [finished |-> runs[k].last,
                                             success |-> runs[k].state = "succeeded"]
  <2> DEFINE S == Started(g, n)
             last == Cardinality(S)
  <2>1. g \in Groups /\ g <= groups
    BY ConstantFacts DEF Protocol, TypeOK, Groups
  <2>2. Chained(g, n) /\ calls[<<g, n>>].phase # "unused" /\ <<g, n>> \in Calls
    BY <2>1, Facts DEF RunsAreChains
  <2>3. S # {} /\ {runs[k].attempt : k \in S} = 1..last
    <3>1. Began(<<g, n>>)
      BY <2>2 DEF Quiet, Began
    <3> QED BY <2>2, <3>1 DEF Chained, Attempts
  <2>4. S \in SUBSET Keys /\ \A k \in S : Used(k) /\ RetryOf(k) \in Calls
    <3>1. \A k \in S : k \in Keys /\ runs[k].group = g
      BY DEF Started
    <3>2. \A k \in S : Used(k)
      BY <2>1, <3>1, ConstantFacts DEF RunsAreChains
    <3> QED BY <3>1, <3>2, Facts
  <2>5. ASSUME NEW k \in S, runs[k].attempt # last PROVE runs[k].state = "failed"
    <3>1. Began(RetryOf(k)) /\ RetryOf(k) \in RetryCalls /\ RetryOf(k)[1] = k
      BY <2>2, <2>4, <2>5, Facts DEF Chained, Newest, RetryOf
    <3> QED BY <3>1 DEF RetriesFollow, Began
  <2>6. \E k \in S : runs[k].attempt = last
    <3>1. IsFiniteSet(S) /\ last \in Nat
      BY <2>4, KeysAreFinite
    <3>2. last # 0
      BY <2>3, <3>1, FS_EmptySet
    <3>3. last \in {runs[k].attempt : k \in S}
      BY <2>3, <3>1, <3>2
    <3> QED BY <3>3
  <2>7. PICK k \in S : runs[k].attempt = last
    BY <2>6
  <2>8. runs[k].state = "succeeded" \/ last = Retries + 1
    <3>1. k \in Keys /\ Used(k)
      BY <2>4
    <3>2. ~Began(RetryOf(k))
      BY <2>2, <2>7 DEF Chained, Newest
    <3>3. runs[k].state = "succeeded" \/ ~(runs[k].attempt < Retries + 1)
      BY <1>1, <3>1, <3>2
    <3>4. runs[k].attempt \in 0..(Retries + 1)
      BY <3>1, Facts DEF Run
    <3> QED BY <2>7, <3>3, <3>4, ConstantFacts
  <2>9. \A m \in S : stored[m] = [finished |-> runs[m].last, success |-> runs[m].state = "succeeded"]
    BY <1>1, <2>4
  <2>10. \A m \in S : runs[m].state = "succeeded" => runs[m].attempt = last
    BY <2>5
  <2> QED BY <2>3, <2>7, <2>8, <2>9, <2>10
<1>3. {k \in Keys : Recorded(k) /\ stored[k].success} = {k \in Keys : runs[k].state = "succeeded"}
  <2>1. ASSUME NEW k \in Keys
        PROVE  Recorded(k) /\ stored[k].success <=> runs[k].state = "succeeded"
    <3>1. CASE Recorded(k)
      <4>0. \A x, b : x = [finished |-> 2, success |-> b] => x.success = b
        OBVIOUS
      <4>1. /\ runs[k].state \in {"succeeded", "failed"}
            /\ stored[k] = [finished |-> 2, success |-> runs[k].state = "succeeded"]
        BY <3>1 DEF EachStoredAsItWas
      <4>2. stored[k].success = (runs[k].state = "succeeded")
        BY <4>0, <4>1, Zenon
      <4>3. stored[k].success <=> runs[k].state = "succeeded"
        BY <4>2, Zenon
      <4> QED BY <3>1, <4>1, <4>3
    <3>2. CASE ~Recorded(k)
      BY <1>1, <3>2 DEF Used
    <3> QED BY <3>1, <3>2
  <2> QED BY <2>1
<1>4. {k \in Keys : Recorded(k) /\ ~stored[k].success} = {k \in Keys : runs[k].state = "failed"}
  <2>1. ASSUME NEW k \in Keys
        PROVE  Recorded(k) /\ ~stored[k].success <=> runs[k].state = "failed"
    <3>1. CASE Recorded(k)
      <4>0. \A x, b : x = [finished |-> 2, success |-> b] => x.success = b
        OBVIOUS
      <4>1. /\ runs[k].state \in {"succeeded", "failed"}
            /\ stored[k] = [finished |-> 2, success |-> runs[k].state = "succeeded"]
        BY <3>1 DEF EachStoredAsItWas
      <4>2. stored[k].success = (runs[k].state = "succeeded")
        BY <4>0, <4>1, Zenon
      <4>3. stored[k].success <=> runs[k].state = "succeeded"
        BY <4>2, Zenon
      <4> QED BY <3>1, <4>1, <4>3
    <3>2. CASE ~Recorded(k)
      BY <1>1, <3>2 DEF Used
    <3> QED BY <3>1, <3>2
  <2> QED BY <2>1
<1>5. /\ counts.success = Cardinality({k \in Keys : runs[k].state = "succeeded"})
      /\ counts.error = Cardinality({k \in Keys : runs[k].state = "failed"})
  BY <1>3, <1>4 DEF CountedOnce
<1> QED BY <1>2, <1>5 DEF ExactWithoutFaults

-----------------------------------------------------------------------------
(* What it shows as long as there has been no fault *)

\* Without crashes, lost leaderships and broken streams, once every call has
\* returned, each run has made on each node as many attempts as its failures
\* and the job's retries ask for, the last of which succeeded or was the last
\* allowed; each is stored with the result it had, and the job's counters count
\* each exactly once (job.go Run, grpc.go ExecutionDone, store.go
\* SetExecutionDone).
THEOREM EachCountedOnce == Spec => []ExactWithoutFaults
<1> DEFINE Exact == Protocol /\ (faults = 0 => Undisturbed)
<1>1. Init => Exact
  BY InitProtocol, ExactInit
<1>2. Exact /\ [Next]_execVars => Exact'
  BY NextProtocol, ExactNext
<1>3. Exact => ExactWithoutFaults
  <2>1. ASSUME Exact, faults = 0, Quiet PROVE ExactWithoutFaults
    BY <2>1, ExactWhenQuiet
  <2>2. ASSUME ~(faults = 0 /\ Quiet) PROVE ExactWithoutFaults
    BY <2>2 DEF ExactWithoutFaults
  <2> QED BY <2>1, <2>2
<1> HIDE DEF Exact
<1> QED BY <1>1, <1>2, <1>3, PTL DEF Spec
-----------------------------------------------------------------------------
(* What isRunnable sees, whatever has failed *)

\* An execution is of the run and the node its call was made for, and a retry is
\* the next attempt.
Lineage ==
  \A c \in Calls : Began(c) /\ KeyOf(c) # None =>
    LET k == KeyOf(c) IN
      /\ Used(k)
      /\ c \in FirstCalls => runs[k].group = c[1] /\ runs[k].node = c[2] /\ runs[k].attempt = 1
      /\ c \in RetryCalls => /\ runs[k].group = runs[c[1]].group
                             /\ runs[k].node = runs[c[1]].node
                             /\ runs[k].attempt = runs[c[1]].attempt + 1

\* A call that waits for an answer waits for one.
CallersWait ==
  /\ \A r \in requests : r.caller # None => calls[r.caller].phase = "reporting"
  /\ \A r, q \in requests : r.caller # None /\ r.caller = q.caller => r = q

LaterUnused ==
  \A g \in Groups, n \in Nodes : g > groups => calls[<<g, n>>].phase = "unused"

\* A finish is reported by one request and retried by one call.
ReportedOnce ==
  /\ \A r \in requests : r.finished <= runs[r.key].last
  /\ \A r, q \in requests : r.key = q.key /\ r.finished = q.finished => r = q
  /\ \A c \in RetryCalls : calls[c].phase # "unused" =>
       /\ c[2] <= runs[c[1]].last
       /\ \A r \in requests : r.key = c[1] /\ r.finished = c[2] => r.stage = "retrying"

\* An execution whose stream has not ended for its call is not reported, and
\* one that runs with its stream is followed by a call.
Followed(k) == runs[k].stream /\ MayBreak(k)

NotReported ==
  \A k \in Keys : Followed(k) =>
    /\ \A r \in requests : r.key # k
    /\ \A c \in RetryCalls : c[1] = k => calls[c].phase = "unused"

Watched == \A k \in Keys : runs[k].state = "running" /\ runs[k].stream => Followed(k)

Watch == /\ Lineage /\ CallersWait /\ LaterUnused /\ ReportedOnce /\ NotReported /\ Watched

\* No execution starts and none goes back.
RunsGoOn ==
  \A k \in Keys :
    /\ runs'[k].group = runs[k].group /\ runs'[k].node = runs[k].node
    /\ runs'[k].attempt = runs[k].attempt
    /\ runs[k].last \in Nat /\ runs'[k].last \in Nat /\ runs'[k].last >= runs[k].last
    /\ Used(k)' <=> Used(k)
    /\ runs'[k].stream => runs[k].stream
    /\ runs'[k].state = "running" => runs[k].state = "running"

LEMMA RunsRest ==
  ASSUME Protocol, UNCHANGED runs
  PROVE  RunsGoOn
BY DEF RunsGoOn, Protocol, TypeOK, Run, Used

LEMMA LineageStays ==
  ASSUME Protocol, Watch, RunsGoOn,
         \A c \in Calls : /\ calls'[c].key \in {calls[c].key, None}
                          /\ Began(c)' /\ calls'[c].key # None => Began(c)
  PROVE  Lineage'
<1> SUFFICES ASSUME NEW c \in Calls, Began(c)', calls'[c].key # None
             PROVE  /\ Used(KeyOf(c))'
                    /\ c \in FirstCalls => /\ runs'[KeyOf(c)'].group = c[1]
                                           /\ runs'[KeyOf(c)'].node = c[2]
                                           /\ runs'[KeyOf(c)'].attempt = 1
                    /\ c \in RetryCalls => /\ runs'[KeyOf(c)'].group = runs'[c[1]].group
                                           /\ runs'[KeyOf(c)'].node = runs'[c[1]].node
                                           /\ runs'[KeyOf(c)'].attempt = runs'[c[1]].attempt + 1
  BY DEF Lineage, KeyOf
<1>1. Began(c) /\ KeyOf(c) # None /\ KeyOf(c)' = KeyOf(c) /\ KeyOf(c) \in Keys
  BY Facts DEF KeyOf, Call
<1>2. c \in RetryCalls => c[1] \in Keys
  BY Facts
<1>3. /\ Used(KeyOf(c))
      /\ c \in FirstCalls => /\ runs[KeyOf(c)].group = c[1] /\ runs[KeyOf(c)].node = c[2]
                             /\ runs[KeyOf(c)].attempt = 1
      /\ c \in RetryCalls => /\ runs[KeyOf(c)].group = runs[c[1]].group
                             /\ runs[KeyOf(c)].node = runs[c[1]].node
                             /\ runs[KeyOf(c)].attempt = runs[c[1]].attempt + 1
  BY <1>1 DEF Watch, Lineage
<1>4. Used(KeyOf(c))'
  BY <1>1, <1>3 DEF RunsGoOn, Used
<1> QED BY <1>1, <1>2, <1>3, <1>4 DEF RunsGoOn

LEMMA ReportsStay ==
  ASSUME Protocol, Watch, RunsGoOn,
         \A q \in requests' : \E r \in requests :
           /\ q.key = r.key /\ q.finished = r.finished
           /\ r.stage = "retrying" => q.stage = "retrying",
         \A p, q \in requests' : p.key = q.key /\ p.finished = q.finished => p = q,
         \A c \in RetryCalls : calls'[c].phase # "unused" => calls[c].phase # "unused"
  PROVE  ReportedOnce'
<1>1. \A r \in requests : r.key \in Keys /\ r.finished \in Nat
  BY DEF Protocol, TypeOK, Request, Finishes
<1>2. \A c \in RetryCalls : c[1] \in Keys /\ c[2] \in Nat
  BY DEF RetryCalls, Finishes
<1>3. ASSUME NEW q \in requests' PROVE q.finished <= runs'[q.key].last
  <2>1. PICK r \in requests : q.key = r.key /\ q.finished = r.finished
    BY <1>3
  <2> QED BY <1>1, <2>1 DEF Watch, ReportedOnce, RunsGoOn
<1>4. ASSUME NEW c \in RetryCalls, calls'[c].phase # "unused"
      PROVE  /\ c[2] <= runs'[c[1]].last
             /\ \A q \in requests' : q.key = c[1] /\ q.finished = c[2] => q.stage = "retrying"
  BY <1>2, <1>4 DEF Watch, ReportedOnce, RunsGoOn
<1> QED BY <1>3, <1>4 DEF ReportedOnce

LEMMA FollowersStay ==
  ASSUME Protocol, Watch, RunsGoOn,
         \A k \in Keys : Followed(k)' => Followed(k),
         \A k \in Keys : Followed(k) /\ runs'[k].stream => Followed(k)',
         \A q \in requests' : Followed(q.key)' => \E r \in requests : r.key = q.key,
         \A c \in RetryCalls : calls'[c].phase # "unused" /\ Followed(c[1])' =>
           calls[c].phase # "unused"
  PROVE  NotReported' /\ Watched'
<1>1. NotReported'
  BY DEF Watch, NotReported
<1>2. Watched'
  BY DEF Watch, Watched, RunsGoOn
<1> QED BY <1>1, <1>2

\* Steps that change neither calls nor requests.
LEMMA WatchRuns ==
  ASSUME Protocol, Watch, RunsGoOn, UNCHANGED <<calls, requests>>, groups' \in {groups}
  PROVE  Watch'
<1>1. Lineage'
  BY LineageStays DEF Began
<1>2. CallersWait' /\ LaterUnused'
  BY DEF Watch, CallersWait, LaterUnused
<1>3. ReportedOnce'
  BY ReportsStay DEF Watch, ReportedOnce
<1>4. NotReported' /\ Watched'
  <2>1. \A k \in Keys : Followed(k)' <=> runs'[k].stream /\ Followed(k)
    BY DEF Followed, MayBreak, Follows, RunsGoOn
  <2> QED BY <2>1, FollowersStay
<1> QED BY <1>1, <1>2, <1>3, <1>4 DEF Watch

\* Time, checks, elections, broken streams and lost agents.
LEMMA WatchAside ==
  ASSUME Protocol, Protocol', Watch,
         \/ \E s \in Servers : Check(s) \/ Restart(s) \/ Elect(s)
         \/ \E k \in Keys : Age(k) \/ BreakStream(k) \/ AgentCrash(k)
         \/ LoseLeadership \/ UNCHANGED execVars
  PROVE  Watch'
<1>1. UNCHANGED <<groups, calls, requests>>
  BY DEF Check, Restart, Elect, Age, BreakStream, AgentCrash, LoseLeadership, execVars
<1>2. CASE UNCHANGED runs
  BY <1>1, <1>2, RunsRest, WatchRuns
<1>3. CASE CleanUp
  <2>1. \A k \in Keys : \/ runs'[k] = runs[k]
                       \/ runs'[k] = [runs[k] EXCEPT !.last = runs[k].last + 1]
    BY <1>3, CleanUpFacts
  <2>2. RunsGoOn
    <3> SUFFICES ASSUME NEW k \in Keys
                 PROVE  /\ runs'[k].group = runs[k].group /\ runs'[k].node = runs[k].node
                        /\ runs'[k].attempt = runs[k].attempt
                        /\ runs[k].last \in Nat /\ runs'[k].last \in Nat
                        /\ runs'[k].last >= runs[k].last
                        /\ runs'[k].stream = runs[k].stream /\ runs'[k].state = runs[k].state
      BY DEF RunsGoOn, Used
    <3> QED BY <2>1 DEF Protocol, TypeOK, Run
  <2> QED BY <1>1, <2>2, WatchRuns
<1>4. ASSUME NEW k \in Keys, BreakStream(k) \/ AgentCrash(k) PROVE Watch'
  <2>1. PICK run : /\ runs' = [runs EXCEPT ![k] = run] /\ ~run.stream
                   /\ run.group = runs[k].group /\ run.node = runs[k].node
                   /\ run.attempt = runs[k].attempt /\ run.last = runs[k].last
                   /\ \/ run.state = runs[k].state
                      \/ run.state = "lost" /\ runs[k].state = "running"
    <3> DEFINE a == [runs[k] EXCEPT !.stream = FALSE]
               b == [runs[k] EXCEPT !.state = "lost", !.stream = FALSE]
    <3>1. runs[k] \in Run
      BY DEF Protocol, TypeOK
    <3>2. /\ ~a.stream /\ a.group = runs[k].group /\ a.node = runs[k].node
          /\ a.attempt = runs[k].attempt /\ a.last = runs[k].last /\ a.state = runs[k].state
      BY <3>1 DEF Run
    <3>3. /\ ~b.stream /\ b.group = runs[k].group /\ b.node = runs[k].node
          /\ b.attempt = runs[k].attempt /\ b.last = runs[k].last /\ b.state = "lost"
      BY <3>1 DEF Run
    <3>4. \/ runs' = [runs EXCEPT ![k] = a]
          \/ runs' = [runs EXCEPT ![k] = b] /\ runs[k].state = "running"
      BY <1>4 DEF BreakStream, AgentCrash
    <3> HIDE DEF a, b
    <3> QED BY <3>2, <3>3, <3>4
  <2>2. RunsGoOn
    <3>1. /\ runs'[k] = run /\ \A m \in Keys : m # k => runs'[m] = runs[m]
          /\ \A m \in Keys : runs[m].last \in Nat
      BY <2>1, Facts DEF Protocol, TypeOK
    <3> QED BY <2>1, <3>1 DEF RunsGoOn, Used
  <2> QED BY <1>1, <2>2, WatchRuns
<1> QED BY <1>1, <1>2, <1>3, <1>4 DEF Check, Restart, Elect, Age, LoseLeadership, execVars

\* A call that cannot dial holds nothing.
LEMMA WatchDialFails ==
  ASSUME Protocol, Protocol', Watch, NEW c \in Calls, DialFails(c)
  PROVE  Watch'
<1>1. /\ calls[c].phase = "dialing" /\ calls[c].key = None /\ calls[c] \in Call
      /\ calls' = [calls EXCEPT ![c] = Redial(@)]
      /\ UNCHANGED <<groups, runs, requests, stored>>
  BY DEF DialFails, Protocol, CallsHold, TypeOK, storeVars
<1>2. RunsGoOn
  BY <1>1, RunsRest
<1>3. calls'[c].phase \in {"dialing", "ended"} /\ calls'[c].key = None
      /\ \A d \in Calls : d # c => calls'[d] = calls[d]
  <2>1. Redial(calls[c]).key = None
    BY <1>1, RedialFacts DEF Redial, Call
  <2> QED BY <1>1, <2>1, RedialFacts DEF Protocol, TypeOK
<1>4. Lineage'
  BY <1>2, <1>3, LineageStays DEF Began
<1>5. CallersWait' /\ LaterUnused'
  BY <1>1, <1>3, Facts DEF Watch, CallersWait, LaterUnused, Request
<1>6. ReportedOnce'
  BY <1>1, <1>2, <1>3, Facts, ReportsStay DEF Watch, ReportedOnce
<1>7. NotReported' /\ Watched'
  <2>1. \A k \in Keys : Followed(k)' <=> Followed(k)
    BY <1>1, <1>3 DEF Followed, MayBreak, Follows
  <2> QED BY <1>1, <1>2, <1>3, <2>1, Facts, FollowersStay
<1> QED BY <1>4, <1>5, <1>6, <1>7 DEF Watch

\* A new run is the next one, and no call has been made for it.
LEMMA WatchRunJob ==
  ASSUME Protocol, Protocol', Watch, NEW s \in Servers, RunJob(s)
  PROVE  Watch'
<1>1. UNCHANGED <<runs, requests>> /\ RunsGoOn
  BY RunsRest DEF RunJob
<1>2. CASE UNCHANGED <<groups, calls>>
  BY <1>1, <1>2, WatchRuns
<1>3. CASE ~UNCHANGED <<groups, calls>>
  <2> DEFINE D == {groups + 1} \X Nodes
  <2>1. /\ groups # MaxGroups /\ groups' = groups + 1
        /\ calls' = [c \in Calls |-> IF c \in D THEN Dialing(s) ELSE calls[c]]
    BY <1>3 DEF RunJob
  <2>2. groups \in Nat /\ groups + 1 \in Groups /\ Groups \subseteq Nat
    BY <2>1, ConstantFacts DEF Protocol, TypeOK, Groups
  <2>3. Dialing(s).phase = "dialing" /\ Dialing(s).key = None
    BY DEF Dialing
  <2>4. \A c \in D : c \in Calls /\ c \notin RetryCalls /\ calls[c].phase = "unused"
    <3>1. \A c \in D : \E n \in Nodes : c = <<groups + 1, n>>
      OBVIOUS
    <3>2. \A n \in Nodes : calls[<<groups + 1, n>>].phase = "unused"
      BY <2>2 DEF Watch, LaterUnused
    <3> QED BY <2>2, <3>1, <3>2, Facts
  <2>5. \A c \in Calls : \/ calls'[c] = calls[c] /\ c \notin D
                         \/ /\ c \notin RetryCalls /\ calls[c].phase = "unused"
                            /\ calls'[c].phase = "dialing" /\ calls'[c].key = None
    BY <2>1, <2>3, <2>4
  <2>6. Lineage'
    BY <1>1, <2>5, LineageStays DEF Began
  <2>7. CallersWait'
    <3>1. \A r \in requests : r.caller \in Calls \cup {None}
      BY DEF Protocol, TypeOK, Request
    <3> QED BY <1>1, <2>5, <3>1 DEF Watch, CallersWait
  <2>8. LaterUnused'
    <3> SUFFICES ASSUME NEW g \in Groups, NEW n \in Nodes, g > groups + 1
                 PROVE  calls'[<<g, n>>].phase = "unused"
      BY <2>1 DEF LaterUnused
    <3>1. g \in Nat /\ <<g, n>> \in Calls /\ <<g, n>> \notin D
      BY <2>2, Facts
    <3>2. calls'[<<g, n>>] = calls[<<g, n>>]
      BY <2>1, <3>1
    <3> QED BY <2>2, <3>1, <3>2 DEF Watch, LaterUnused
  <2>9. ReportedOnce'
    BY <1>1, <2>5, Facts, ReportsStay DEF Watch, ReportedOnce
  <2>10. NotReported' /\ Watched'
    <3>1. \A k \in Keys : Followed(k)' <=> Followed(k)
      BY <1>1, <2>5 DEF Followed, MayBreak, Follows
    <3> QED BY <1>1, <2>5, <3>1, Facts, FollowersStay
  <2> QED BY <2>6, <2>7, <2>8, <2>9, <2>10 DEF Watch
<1> QED BY <1>2, <1>3

\* An execution that starts is new: nothing of it is reported or retried.
LEMMA WatchStart ==
  ASSUME Protocol, Protocol', Watch, NEW c \in Calls, Start(c)
  PROVE  Watch'
<1> DEFINE U == {m \in Keys : runs[m].state # "unused"}
<1>1. PICK k \in Keys : k = Cardinality(U) + 1 /\ ~Used(k)
  <2>1. Cardinality(U) + 1 \in Keys
    BY DEF Start
  <2>2. ~Used(Cardinality(U) + 1)
    BY <2>1, NextKey
  <2> QED BY <2>1, <2>2
<1>2. /\ calls[c].phase = "dialing" /\ calls[c] \in Call
      /\ calls' = [calls EXCEPT ![c].phase = "started", ![c].key = k]
      /\ UNCHANGED <<groups, requests>>
  BY <1>1 DEF Start, Protocol, TypeOK
<1>3. /\ \A d \in Calls : d # c => calls'[d] = calls[d]
      /\ calls'[c].phase = "started" /\ calls'[c].key = k
  BY <1>2 DEF Protocol, TypeOK, Call
<1>4. /\ \A m \in Keys : m # k => runs'[m] = runs[m]
      /\ runs'[k].state = "running" /\ runs'[k].stream /\ runs'[k].last = 1
      /\ c \in FirstCalls => /\ runs'[k].group = c[1] /\ runs'[k].node = c[2]
                             /\ runs'[k].attempt = 1
      /\ c \notin FirstCalls => /\ runs'[k].group = runs[c[1]].group
                                /\ runs'[k].node = runs[c[1]].node
                                /\ runs'[k].attempt = runs[c[1]].attempt + 1
  BY <1>1 DEF Start, Protocol, TypeOK
<1>5. /\ \A r \in requests : r.key \in Keys /\ r.key # k
      /\ \A d \in RetryCalls : calls[d].phase # "unused" => d[1] # k
  BY <1>1, Facts DEF Protocol, NothingBefore, RetriesLeft
<1>6. Lineage'
  <2> SUFFICES ASSUME NEW d \in Calls, Began(d)', calls'[d].key # None,
                      NEW m, m = calls'[d].key
               PROVE  /\ Used(m)'
                      /\ d \in FirstCalls => /\ runs'[m].group = d[1] /\ runs'[m].node = d[2]
                                             /\ runs'[m].attempt = 1
                      /\ d \in RetryCalls => /\ runs'[m].group = runs'[d[1]].group
                                             /\ runs'[m].node = runs'[d[1]].node
                                             /\ runs'[m].attempt = runs'[d[1]].attempt + 1
    BY DEF Lineage, KeyOf
  <2>1. d \in RetryCalls => d[1] \in Keys /\ d[1] # k
    BY <1>2, <1>3, <1>5, Facts DEF Began
  <2>2. CASE d = c
    BY <1>3, <1>4, <2>1, <2>2, ConstantFacts DEF Used
  <2>3. CASE d # c
    <3>1. /\ Began(d) /\ KeyOf(d) = m /\ m # None /\ m \in Keys
      BY <1>3, <2>3, Facts DEF Began, KeyOf, Call
    <3>2. /\ Used(m)
          /\ d \in FirstCalls => /\ runs[m].group = d[1] /\ runs[m].node = d[2]
                                 /\ runs[m].attempt = 1
          /\ d \in RetryCalls => /\ runs[m].group = runs[d[1]].group
                                 /\ runs[m].node = runs[d[1]].node
                                 /\ runs[m].attempt = runs[d[1]].attempt + 1
      BY <3>1 DEF Watch, Lineage
    <3>3. runs'[m] = runs[m] /\ (d \in RetryCalls => runs'[d[1]] = runs[d[1]])
      BY <1>1, <1>4, <2>1, <3>1, <3>2
    <3> QED BY <3>2, <3>3 DEF Used
  <2> QED BY <2>2, <2>3
<1>7. CallersWait'
  <2>1. \A r \in requests : r.caller \in Calls \cup {None}
    BY DEF Protocol, TypeOK, Request
  <2> QED BY <1>2, <1>3, <2>1 DEF Watch, CallersWait
<1>8. LaterUnused'
  BY <1>2, <1>3, Facts DEF Watch, LaterUnused
<1>9. ReportedOnce'
  <2>1. \A d \in RetryCalls : /\ d \in Calls /\ d[1] \in Keys
                              /\ calls'[d].phase # "unused" => calls[d].phase # "unused"
    BY <1>2, <1>3, Facts
  <2> QED BY <1>2, <1>4, <1>5, <2>1 DEF Watch, ReportedOnce
<1>10. NotReported' /\ Watched'
  <2>1. \A m \in Keys : m # k => (Followed(m)' <=> Followed(m))
    <3> SUFFICES ASSUME NEW m \in Keys, m # k PROVE Followed(m)' <=> Followed(m)
      OBVIOUS
    <3>1. \A d \in Calls : Follows(d, m)' <=> Follows(d, m)
      BY <1>2, <1>3 DEF Follows
    <3> QED BY <1>4, <3>1 DEF Followed, MayBreak
  <2>2. Followed(k)'
    BY <1>3, <1>4 DEF Followed, MayBreak, Follows
  <2>3. \A d \in RetryCalls : d[1] = k => calls'[d].phase = "unused"
    BY <1>2, <1>3, <1>5, Facts
  <2>4. \A d \in RetryCalls : calls[d].phase = "unused" => calls'[d].phase = "unused"
    BY <1>2, <1>3, Facts
  <2>5. NotReported'
    BY <1>2, <1>5, <2>1, <2>3, <2>4 DEF Watch, NotReported
  <2>6. Watched'
    BY <1>4, <2>1, <2>2 DEF Watch, Watched
  <2> QED BY <2>5, <2>6
<1> QED BY <1>6, <1>7, <1>8, <1>9, <1>10 DEF Watch

\* The first update leaves the call in place, or closes the stream.
LEMMA WatchRegister ==
  ASSUME Protocol, Protocol', Watch, NEW c \in Calls, Register(c)
  PROVE  Watch'
<1>1. PICK k \in Keys : k = calls[c].key
  BY DEF Register, Protocol, CallsHold
<1>2. /\ calls[c].phase = "started" /\ calls[c] \in Call /\ runs[k] \in Run /\ c \in Calls
      /\ UNCHANGED <<groups, requests>>
  BY DEF Register, Protocol, TypeOK
<1>3. /\ \A d \in Calls : d # c => calls'[d] = calls[d]
      /\ \/ /\ calls'[c].phase = "open" /\ calls'[c].key = k
            /\ UNCHANGED runs
         \/ /\ calls'[c].phase \in {"dialing", "ended"} /\ calls'[c].key \in {k, None}
            /\ runs' = [runs EXCEPT ![k] = [runs[k] EXCEPT !.stream = FALSE]]
  <2>1. Redial(calls[c]).key \in {k, None} /\ Redial(calls[c]).phase \in {"dialing", "ended"}
    BY <1>1, <1>2, RedialFacts DEF Redial, Call
  <2>2. CASE leader = None
    <3>1. /\ calls' = [calls EXCEPT ![c] = Redial(@)]
          /\ runs' = [runs EXCEPT ![k] = [runs[k] EXCEPT !.stream = FALSE]]
      BY <1>1, <2>2 DEF Register
    <3> QED BY <1>2, <2>1, <3>1 DEF Protocol, TypeOK
  <2>3. CASE leader # None
    <3>1. calls' = [calls EXCEPT ![c].phase = "open"] /\ UNCHANGED runs
      BY <2>3 DEF Register
    <3> QED BY <1>1, <1>2, <3>1 DEF Protocol, TypeOK, Call
  <2> QED BY <2>2, <2>3
<1>4. RunsGoOn /\ \A m \in Keys : m # k => runs'[m] = runs[m]
  <2>1. CASE UNCHANGED runs
    BY <2>1, RunsRest
  <2>2. CASE runs' = [runs EXCEPT ![k] = [runs[k] EXCEPT !.stream = FALSE]]
    <3> DEFINE run == [runs[k] EXCEPT !.stream = FALSE]
    <3>1. /\ run.group = runs[k].group /\ run.node = runs[k].node /\ run.last = runs[k].last
          /\ run.attempt = runs[k].attempt /\ run.state = runs[k].state /\ ~run.stream
      BY <1>2 DEF Run
    <3>2. runs' = [runs EXCEPT ![k] = run]
      BY <2>2
    <3> HIDE DEF run
    <3>3. DOMAIN runs = Keys
      BY DEF Protocol, TypeOK
    <3>4. runs'[k] = run /\ \A m \in Keys : m # k => runs'[m] = runs[m]
      BY <3>2, <3>3
    <3> QED BY <3>1, <3>4, Facts DEF RunsGoOn, Used
  <2> QED BY <1>3, <2>1, <2>2
<1>5. Lineage'
  BY <1>1, <1>2, <1>3, <1>4, LineageStays DEF Began
<1>6. CallersWait' /\ LaterUnused'
  <2>1. \A r \in requests : r.caller \in Calls \cup {None}
    BY DEF Protocol, TypeOK, Request
  <2>2. CallersWait'
    BY <1>2, <1>3, <2>1, Facts DEF Watch, CallersWait
  <2>3. LaterUnused'
    BY <1>2, <1>3, Facts DEF Watch, LaterUnused
  <2> QED BY <2>2, <2>3
<1>7. ReportedOnce'
  BY <1>2, <1>3, <1>4, Facts, ReportsStay DEF Watch, ReportedOnce
<1>8. NotReported' /\ Watched'
  <2>1. \A m \in Keys : Followed(m)' <=> Followed(m) /\ runs'[m].stream
    <3> SUFFICES ASSUME NEW m \in Keys PROVE Followed(m)' <=> Followed(m) /\ runs'[m].stream
      OBVIOUS
    <3>1. runs'[m].stream => runs[m].stream
      BY <1>4 DEF RunsGoOn
    <3>2. CASE m = k
      <4>1. MayBreak(m)
        BY <1>1, <1>2, <3>2 DEF MayBreak, Follows
      <4>2. runs'[m].stream => MayBreak(m)'
        BY <1>2, <1>3, <3>2 DEF MayBreak, Follows, Protocol, TypeOK, Run
      <4> QED BY <3>1, <4>1, <4>2 DEF Followed
    <3>3. CASE m # k
      <4>1. MayBreak(m)' <=> MayBreak(m)
        <5>1. \A d \in Calls : Follows(d, m)' <=> Follows(d, m)
          BY <1>1, <1>2, <1>3, <3>3, ConstantFacts DEF Follows
        <5> QED BY <5>1 DEF MayBreak
      <4> QED BY <3>1, <4>1 DEF Followed
    <3> QED BY <3>2, <3>3
  <2>2. \A d \in RetryCalls : calls'[d].phase # "unused" => calls[d].phase # "unused"
    BY <1>2, <1>3, Facts
  <2> QED BY <1>2, <1>4, <2>1, <2>2, FollowersStay
<1> QED BY <1>5, <1>6, <1>7, <1>8 DEF Watch

\* A finish that the node reports itself is a new one.
LEMMA WatchFinish ==
  ASSUME Protocol, Protocol', Watch, NEW k \in Keys, NEW success \in BOOLEAN, Finish(k, success)
  PROVE  Watch'
<1> DEFINE state == IF success THEN "succeeded" ELSE "failed"
           run == [runs[k] EXCEPT !.state = state, !.last = runs[k].last + 1]
<1>1. runs[k] \in Run /\ runs[k].last \in Nat /\ UNCHANGED <<groups, calls>>
  BY Facts DEF Finish
<1>2. runs' = [runs EXCEPT ![k] = run]
  BY DEF Finish
<1>3. /\ run.group = runs[k].group /\ run.node = runs[k].node /\ run.attempt = runs[k].attempt
      /\ run.last = runs[k].last + 1 /\ run.stream = runs[k].stream
      /\ run.state \in {"succeeded", "failed"}
  <2>1. state \in {"succeeded", "failed"}
    OBVIOUS
  <2> HIDE DEF state
  <2> QED BY <1>1, <2>1 DEF Run
<1>4. \A q \in requests' : \/ q \in requests
                           \/ /\ q.key = k /\ q.finished = runs[k].last + 1
                              /\ q.caller = None /\ ~runs[k].stream
  BY DEF Finish
<1>5. /\ requests \subseteq requests'
      /\ \A p, q \in requests' : p \notin requests /\ q \notin requests => p = q
  <2>1. CASE UNCHANGED requests
    BY <2>1
  <2>2. CASE ~UNCHANGED requests
    <3>1. PICK x : requests' = requests \cup {x}
      BY <2>2 DEF Finish
    <3> QED BY <3>1
  <2> QED BY <2>1, <2>2
<1> HIDE DEF run, state
<1>6. /\ runs'[k] = run /\ \A m \in Keys : m # k => runs'[m] = runs[m]
      /\ runs[k].state = "running"
  BY <1>1, <1>2, Facts DEF Finish
<1>7. RunsGoOn
  BY <1>1, <1>3, <1>6, Facts DEF RunsGoOn, Used
<1>8. Lineage'
  BY <1>1, <1>7, LineageStays DEF Began
<1>9. CallersWait' /\ LaterUnused'
  BY <1>1, <1>4 DEF Watch, CallersWait, LaterUnused
<1>10. ReportedOnce'
  <2>1. \A r \in requests : r.key \in Keys /\ r.finished \in Nat
    BY DEF Protocol, TypeOK, Request, Finishes
  <2>2. \A r \in requests : r.finished <= runs[r.key].last
    BY DEF Watch, ReportedOnce
  <2>3. \A c \in RetryCalls : c[1] \in Keys /\ c[2] \in Nat
    BY DEF RetryCalls, Finishes
  <2>4. \A m \in Keys : runs'[m].last \in Nat /\ runs'[m].last >= runs[m].last
                        /\ runs[m].last \in Nat
    BY <1>7 DEF RunsGoOn
  <2>5. ASSUME NEW q \in requests' PROVE q.finished <= runs'[q.key].last
    BY <1>1, <1>3, <1>4, <1>6, <2>1, <2>2, <2>4
  <2>6. ASSUME NEW p \in requests', NEW q \in requests', p.key = q.key, p.finished = q.finished
        PROVE  p = q
    <3>1. CASE p \in requests /\ q \in requests
      BY <2>6, <3>1 DEF Watch, ReportedOnce
    <3>2. CASE p \in requests /\ q \notin requests
      BY <1>1, <1>4, <2>1, <2>2, <2>6, <3>2
    <3>3. CASE p \notin requests /\ q \in requests
      BY <1>1, <1>4, <2>1, <2>2, <2>6, <3>3
    <3> QED BY <1>5, <3>1, <3>2, <3>3
  <2>7. ASSUME NEW c \in RetryCalls, calls'[c].phase # "unused"
        PROVE  /\ c[2] <= runs'[c[1]].last
               /\ \A q \in requests' : q.key = c[1] /\ q.finished = c[2] => q.stage = "retrying"
    <3>1. c[2] <= runs[c[1]].last
          /\ \A q \in requests : q.key = c[1] /\ q.finished = c[2] => q.stage = "retrying"
      BY <1>1, <2>7 DEF Watch, ReportedOnce
    <3>2. c[1] = k => c[2] # runs[k].last + 1
      BY <1>1, <2>3, <3>1
    <3> QED BY <1>4, <2>3, <2>4, <3>1, <3>2
  <2> QED BY <2>5, <2>6, <2>7 DEF ReportedOnce
<1>11. NotReported' /\ Watched'
  <2>1. \A m \in Keys : /\ runs'[m].stream = runs[m].stream /\ (Followed(m)' <=> Followed(m))
                        /\ runs'[m].state = "running" => runs[m].state = "running"
    BY <1>1, <1>3, <1>6 DEF Followed, MayBreak, Follows
  <2>2. NotReported'
    BY <1>1, <1>4, <2>1 DEF Watch, NotReported, Followed
  <2> QED BY <2>1, <2>2 DEF Watch, Watched
<1> QED BY <1>8, <1>9, <1>10, <1>11 DEF Watch

\* A call reports a finish that nobody has reported, and waits for its answer.
LEMMA WatchReport ==
  ASSUME Protocol, Protocol', Watch, NEW c \in Calls, ReceiveEnd(c) \/ NoticeBreak(c)
  PROVE  Watch'
<1>1. PICK k \in Keys : k = calls[c].key
  BY DEF ReceiveEnd, NoticeBreak, Protocol, CallsHold
<1>2. /\ calls[c].phase = "open" /\ calls[c] \in Call /\ runs[k] \in Run /\ runs[k].last \in Nat
      /\ UNCHANGED groups /\ MayBreak(k)
  BY <1>1, Facts DEF ReceiveEnd, NoticeBreak, MayBreak, Follows
<1>3. PICK finished \in Nat, success \in BOOLEAN :
        /\ Report(c, finished, success)
        /\ \/ /\ finished = runs[k].last /\ UNCHANGED runs
              /\ runs[k].stream /\ runs[k].state # "running"
           \/ /\ finished = runs[k].last + 1 /\ ~runs[k].stream
              /\ runs' = [runs EXCEPT ![k] = [runs[k] EXCEPT !.last = runs[k].last + 1]]
  <2>1. CASE ReceiveEnd(c)
    <3> DEFINE b == runs[k].state = "succeeded"
    <3>1. Report(c, runs[k].last, b) /\ b \in BOOLEAN
      BY <1>1, <2>1 DEF ReceiveEnd
    <3>2. UNCHANGED runs /\ runs[k].stream /\ runs[k].state # "running"
      BY <1>1, <2>1 DEF ReceiveEnd
    <3> HIDE DEF b
    <3> QED BY <1>2, <3>1, <3>2
  <2>2. CASE NoticeBreak(c)
    <3>1. Report(c, runs[k].last + 1, FALSE) /\ ~runs[k].stream
          /\ runs' = [runs EXCEPT ![k] = [runs[k] EXCEPT !.last = runs[k].last + 1]]
      BY <1>1, <2>2 DEF NoticeBreak
    <3> DEFINE next == runs[k].last + 1
               b == FALSE
    <3>2. next \in Nat /\ b \in BOOLEAN /\ Report(c, next, b)
      <4>1. next \in Nat
        BY <1>2
      <4>2. b \in BOOLEAN /\ Report(c, next, b)
        BY <3>1, Zenon
      <4> QED BY <4>1, <4>2
    <3>3. next = runs[k].last + 1
      OBVIOUS
    <3> HIDE DEF next, b
    <3> SUFFICES \E x \in Nat, y \in BOOLEAN : Report(c, x, y) /\ x = runs[k].last + 1
      BY <3>1
    <3> QED BY <3>2, <3>3
  <2> QED BY <2>1, <2>2
<1>4. /\ \A m \in Keys : m # k => runs'[m] = runs[m]
      /\ runs'[k].group = runs[k].group /\ runs'[k].node = runs[k].node
      /\ runs'[k].attempt = runs[k].attempt /\ runs'[k].state = runs[k].state
      /\ runs'[k].stream = runs[k].stream /\ runs'[k].last = finished
  <2>1. CASE finished = runs[k].last /\ UNCHANGED runs
    BY <2>1
  <2>2. CASE /\ finished = runs[k].last + 1
             /\ runs' = [runs EXCEPT ![k] = [runs[k] EXCEPT !.last = runs[k].last + 1]]
    <3> DEFINE run == [runs[k] EXCEPT !.last = runs[k].last + 1]
    <3>1. /\ run.group = runs[k].group /\ run.node = runs[k].node
          /\ run.attempt = runs[k].attempt /\ run.state = runs[k].state
          /\ run.stream = runs[k].stream /\ run.last = runs[k].last + 1
      BY <1>2 DEF Run
    <3>2. runs' = [runs EXCEPT ![k] = run]
      BY <2>2
    <3> HIDE DEF run
    <3>3. runs'[k] = run /\ \A m \in Keys : m # k => runs'[m] = runs[m]
      BY <3>2, Facts
    <3> QED BY <2>2, <3>1, <3>3
  <2> QED BY <1>3, <2>1, <2>2
<1>5. RunsGoOn
  BY <1>2, <1>3, <1>4, Facts DEF RunsGoOn, Used
<1>6. /\ \A d \in Calls : d # c => calls'[d] = calls[d]
      /\ calls'[c].phase \in {"reporting", "dialing", "ended"} /\ calls'[c].key \in {k, None}
      /\ \A q \in requests' : \/ q \in requests
                              \/ /\ q.key = k /\ q.finished = finished /\ q.caller = c
                                 /\ calls'[c].phase = "reporting"
      /\ \A p, q \in requests' : p \notin requests /\ q \notin requests => p = q
  <2>1. CASE leader = None
    <3>1. calls' = [calls EXCEPT ![c] = Redial(@)] /\ UNCHANGED requests
      BY <1>3, <2>1 DEF Report
    <3>2. Redial(calls[c]).key \in {k, None} /\ Redial(calls[c]).phase \in {"dialing", "ended"}
      BY <1>1, <1>2, RedialFacts DEF Redial, Call
    <3> QED BY <3>1, <3>2, Facts
  <2>2. CASE leader # None
    <3> DEFINE q == [key |-> k, finished |-> finished, success |-> success, server |-> leader,
                     caller |-> c, forwarded |-> FALSE, stage |-> "sent"]
    <3>1. calls' = [calls EXCEPT ![c].phase = "reporting"] /\ requests' = requests \cup {q}
      BY <1>1, <1>3, <2>2 DEF Report
    <3>2. q.key = k /\ q.finished = finished /\ q.caller = c
      OBVIOUS
    <3> HIDE DEF q
    <3> QED BY <1>1, <1>2, <3>1, <3>2, Facts DEF Call
  <2> QED BY <2>1, <2>2
<1>7. /\ \A r \in requests : r.key \in Keys /\ r.finished \in Nat
      /\ \A d \in RetryCalls : d \in Calls /\ d[1] \in Keys /\ d[2] \in Nat
  BY DEF Protocol, TypeOK, Request, RetryCalls, Finishes, Calls
<1>8. /\ \A r \in requests : r.key = k => r.finished # finished
      /\ \A d \in RetryCalls : d[1] = k /\ calls[d].phase # "unused" => d[2] # finished
  <2>1. CASE runs[k].stream
    BY <1>2, <2>1 DEF Watch, NotReported, Followed
  <2>2. CASE ~runs[k].stream
    BY <1>2, <1>3, <1>7, <2>2 DEF Watch, ReportedOnce
  <2> QED BY <2>1, <2>2
<1>9. Lineage'
  BY <1>1, <1>2, <1>5, <1>6, LineageStays DEF Began
<1>10. CallersWait' /\ LaterUnused'
  <2>1. \A r \in requests : r.caller # None => r.caller \in Calls /\ r.caller # c
    BY <1>2 DEF Watch, CallersWait, Protocol, TypeOK, Request
  <2>2. CallersWait'
    BY <1>6, <2>1 DEF Watch, CallersWait
  <2>3. LaterUnused'
    BY <1>2, <1>6, Facts DEF Watch, LaterUnused
  <2> QED BY <2>2, <2>3
<1>11. ReportedOnce'
  <2>1. ASSUME NEW q \in requests' PROVE q.finished <= runs'[q.key].last
    <3>1. CASE q \in requests
      <4>1. q.finished <= runs[q.key].last
        BY <3>1 DEF Watch, ReportedOnce
      <4> QED BY <1>5, <1>7, <3>1, <4>1 DEF RunsGoOn
    <3>2. CASE q \notin requests
      BY <1>3, <1>4, <1>6, <3>2
    <3> QED BY <3>1, <3>2
  <2>2. \A p, q \in requests' : p.key = q.key /\ p.finished = q.finished => p = q
    BY <1>6, <1>8 DEF Watch, ReportedOnce
  <2>3. ASSUME NEW d \in RetryCalls, calls'[d].phase # "unused"
        PROVE  /\ d[2] <= runs'[d[1]].last
               /\ \A q \in requests' : q.key = d[1] /\ q.finished = d[2] => q.stage = "retrying"
    <3>1. calls[d].phase # "unused"
      BY <1>2, <1>6, <1>7, <2>3
    <3>2. d[2] <= runs[d[1]].last
          /\ \A q \in requests : q.key = d[1] /\ q.finished = d[2] => q.stage = "retrying"
      BY <3>1 DEF Watch, ReportedOnce
    <3>3. d[2] <= runs'[d[1]].last
      BY <1>5, <1>7, <3>2 DEF RunsGoOn
    <3> QED BY <1>6, <1>8, <3>1, <3>2, <3>3
  <2> QED BY <2>1, <2>2, <2>3 DEF ReportedOnce
<1>12. NotReported' /\ Watched'
  <2>1. \A d \in Calls : Follows(d, k) => d = c
    BY <1>1, <1>2 DEF Protocol, HeldByOne, Holds, Follows
  <2>2. ~Followed(k)'
    BY <1>6, <2>1 DEF Followed, MayBreak, Follows
  <2>3. ASSUME NEW m \in Keys, m # k PROVE Followed(m)' <=> Followed(m)
    <3>1. \A d \in Calls : Follows(d, m)' <=> Follows(d, m)
      BY <1>1, <1>6, <2>3, ConstantFacts DEF Follows
    <3> QED BY <1>4, <2>3, <3>1 DEF Followed, MayBreak
  <2>4. NotReported'
    BY <1>2, <1>6, <1>7, <2>2, <2>3 DEF Watch, NotReported
  <2>5. Watched'
    BY <1>3, <1>4, <2>3 DEF Watch, Watched
  <2> QED BY <2>4, <2>5
<1> QED BY <1>9, <1>10, <1>11, <1>12 DEF Watch

\* A request that moves on keeps its caller; one that is answered ends its call.
LEMMA WatchMoves ==
  ASSUME Protocol, Protocol', Watch, UNCHANGED <<groups, runs>>, NEW r \in requests,
         \/ \E q : /\ requests' = (requests \ {r}) \cup {q} /\ UNCHANGED calls
                   /\ q.key = r.key /\ q.finished = r.finished /\ q.caller = r.caller
                   /\ r.stage # "retrying"
         \/ requests' = requests \ {r} /\ calls' = Returned(r.caller)
  PROVE  Watch'
<1>1. RunsGoOn
  BY RunsRest
<1>2. CASE requests' = requests \ {r} /\ calls' = Returned(r.caller)
  <2>1. CASE r.caller = None
    <3>1. UNCHANGED calls
      BY <1>2, <2>1 DEF Returned
    <3>2. Lineage'
      BY <1>1, <3>1, LineageStays DEF Began
    <3>3. CallersWait' /\ LaterUnused'
      BY <1>2, <3>1 DEF Watch, CallersWait, LaterUnused
    <3>4. ReportedOnce'
      BY <1>1, <1>2, <3>1, ReportsStay DEF Watch, ReportedOnce
    <3>5. NotReported' /\ Watched'
      <4>1. \A k \in Keys : Followed(k)' <=> Followed(k)
        BY <3>1 DEF Followed, MayBreak, Follows
      <4> QED BY <1>1, <1>2, <3>1, <4>1, FollowersStay
    <3> QED BY <3>2, <3>3, <3>4, <3>5 DEF Watch
  <2>2. CASE r.caller # None
    <3>1. PICK c \in Calls : c = r.caller /\ calls[c].phase = "reporting" /\ calls[c] \in Call
      BY <2>2 DEF Watch, CallersWait, Protocol, TypeOK, Request
    <3>2. calls' = [calls EXCEPT ![c] = [calls[c] EXCEPT !.phase = "ended"]]
      BY <1>2, <3>1, ConstantFacts DEF Returned
    <3>3. /\ calls'[c].phase = "ended" /\ calls'[c].key = calls[c].key
          /\ \A d \in Calls : d # c => calls'[d] = calls[d]
      BY <3>1, <3>2 DEF Protocol, TypeOK, Call
    <3>4. Lineage'
      BY <1>1, <3>1, <3>3, LineageStays DEF Began
    <3>5. CallersWait' /\ LaterUnused'
      <4>1. \A q \in requests' : q.caller # None =>
              q \in requests /\ q.caller \in Calls /\ q.caller # c
        BY <1>2, <3>1 DEF Watch, CallersWait, Protocol, TypeOK, Request
      <4> QED BY <3>1, <3>3, <4>1, Facts DEF Watch, CallersWait, LaterUnused
    <3>6. \A d \in RetryCalls : calls'[d].phase # "unused" => calls[d].phase # "unused"
      BY <3>1, <3>3, Facts
    <3>7. ReportedOnce'
      BY <1>1, <1>2, <3>6, ReportsStay DEF Watch, ReportedOnce
    <3>8. NotReported' /\ Watched'
      <4>1. ASSUME NEW k \in Keys PROVE Followed(k)' <=> Followed(k)
        <5>1. \A d \in Calls : Follows(d, k)' <=> Follows(d, k)
          BY <3>1, <3>3 DEF Follows
        <5> QED BY <5>1 DEF Followed, MayBreak
      <4> QED BY <1>1, <1>2, <3>6, <4>1, FollowersStay
    <3> QED BY <3>4, <3>5, <3>7, <3>8 DEF Watch
  <2> QED BY <2>1, <2>2
<1>3. ASSUME NEW q, requests' = (requests \ {r}) \cup {q}, UNCHANGED calls,
             q.key = r.key, q.finished = r.finished, q.caller = r.caller, r.stage # "retrying"
      PROVE  Watch'
  <2>1. Lineage'
    BY <1>1, <1>3, LineageStays DEF Began
  <2>2. CallersWait' /\ LaterUnused'
    BY <1>3 DEF Watch, CallersWait, LaterUnused
  <2>3. ReportedOnce'
    <3>1. \A x, y \in requests' : x.key = y.key /\ x.finished = y.finished => x = y
      BY <1>3 DEF Watch, ReportedOnce
    <3>2. \A x \in requests' : \E y \in requests :
            /\ x.key = y.key /\ x.finished = y.finished
            /\ y.stage = "retrying" => x.stage = "retrying"
      BY <1>3
    <3> QED BY <1>1, <1>3, <3>1, <3>2, ReportsStay
  <2>4. NotReported' /\ Watched'
    <3>1. \A k \in Keys : Followed(k)' <=> Followed(k)
      BY <1>3 DEF Followed, MayBreak, Follows
    <3>2. \A x \in requests' : \E y \in requests : x.key = y.key
      BY <1>3
    <3> QED BY <1>1, <1>3, <3>1, <3>2, FollowersStay
  <2> QED BY <2>1, <2>2, <2>3, <2>4 DEF Watch
<1> QED BY <1>2, <1>3

\* The steps of ExecutionDone, but for the start of a retry.
LEMMA WatchAnswer ==
  ASSUME Protocol, Protocol', Watch, NEW r \in requests,
         \/ Forward(r) \/ ApplyDone(r) \/ ApplyUncertain(r) \/ Conclude(r)
         \/ RetryReturns(r) \/ DependentsReturn(r) \/ (Retry(r) /\ r.server # leader)
  PROVE  Watch'
<1>1. r \in Request /\ UNCHANGED <<groups, runs>>
  BY Facts DEF Forward, ApplyDone, ApplyUncertain, Conclude, RetryReturns, DependentsReturn, Retry
<1>2. CASE requests' = requests \ {r} /\ calls' = Returned(r.caller)
  BY <1>1, <1>2, WatchMoves
<1>3. CASE ~(requests' = requests \ {r} /\ calls' = Returned(r.caller))
  <2>1. CASE Forward(r)
    <3> DEFINE q == [r EXCEPT !.server = leader, !.forwarded = TRUE]
    <3>1. requests' = (requests \ {r}) \cup {q} /\ UNCHANGED calls /\ r.stage = "sent"
      BY <1>3, <2>1 DEF Forward
    <3>2. q.key = r.key /\ q.finished = r.finished /\ q.caller = r.caller
      BY <1>1 DEF Request
    <3> HIDE DEF q
    <3> QED BY <1>1, <3>1, <3>2, WatchMoves
  <2>2. ASSUME NEW stage \in {"applied", "backoff", "chaining"},
               requests' = (requests \ {r}) \cup {[r EXCEPT !.stage = stage]},
               UNCHANGED calls, r.stage # "retrying"
        PROVE  Watch'
    <3> DEFINE q == [r EXCEPT !.stage = stage]
    <3>1. q.key = r.key /\ q.finished = r.finished /\ q.caller = r.caller
      BY <1>1 DEF Request
    <3>2. requests' = (requests \ {r}) \cup {q}
      BY <2>2
    <3> HIDE DEF q
    <3> QED BY <1>1, <2>2, <3>1, <3>2, WatchMoves
  <2>3. CASE ApplyDone(r)
    BY <2>2, <2>3 DEF ApplyDone
  <2>4. CASE Conclude(r)
    BY <1>3, <2>2, <2>4 DEF Conclude
  <2> QED BY <1>3, <2>1, <2>3, <2>4 DEF ApplyUncertain, RetryReturns, DependentsReturn, Retry
<1> QED BY <1>2, <1>3

\* A retry is a call that nobody has made.
LEMMA WatchRetry ==
  ASSUME Protocol, Protocol', Watch, NEW r \in requests, Retry(r), r.server = leader
  PROVE  Watch'
<1>1. r \in Request /\ r.key \in Keys /\ r.finished \in Finishes /\ r.stage = "backoff"
      /\ UNCHANGED <<groups, runs>>
  BY Facts DEF Retry, Request
<1>2. RunsGoOn
  BY <1>1, RunsRest
<1>3. PICK c \in RetryCalls : c = <<r.key, r.finished>> /\ c[1] = r.key /\ c[2] = r.finished
  <2> DEFINE c == <<r.key, r.finished>>
  <2>1. c \in RetryCalls /\ c[1] = r.key /\ c[2] = r.finished
    BY <1>1 DEF RetryCalls
  <2>2. c = <<r.key, r.finished>>
    OBVIOUS
  <2> HIDE DEF c
  <2> QED BY <2>1, <2>2
<1>4. calls[c].phase = "unused"
  BY <1>1, <1>3 DEF Watch, ReportedOnce
<1>5. PICK q : /\ requests' = (requests \ {r}) \cup {q}
               /\ q.key = r.key /\ q.finished = r.finished /\ q.caller = r.caller
               /\ q.stage = "retrying"
  <2> DEFINE q == [r EXCEPT !.stage = "retrying"]
  <2>1. q.key = r.key /\ q.finished = r.finished /\ q.caller = r.caller /\ q.stage = "retrying"
    BY <1>1 DEF Request
  <2>2. requests' = (requests \ {r}) \cup {q}
    BY DEF Retry
  <2> HIDE DEF q
  <2> QED BY <2>1, <2>2
<1>6. /\ calls'[c].phase = "dialing" /\ calls'[c].key = None
      /\ \A d \in Calls : d # c => calls'[d] = calls[d]
  <2>1. Dialing(r.server).phase = "dialing" /\ Dialing(r.server).key = None
    BY DEF Dialing
  <2>2. calls' = [calls EXCEPT ![c] = Dialing(r.server)]
    BY <1>3 DEF Retry
  <2> QED BY <1>3, <2>1, <2>2, Facts
<1>7. Lineage'
  BY <1>2, <1>6, LineageStays DEF Began
<1>8. CallersWait' /\ LaterUnused'
  <2>1. \A x \in requests : x.caller # None =>
          x.caller \in Calls /\ x.caller # c /\ calls[x.caller].phase = "reporting"
    BY <1>4 DEF Watch, CallersWait, Protocol, TypeOK, Request
  <2>2. CallersWait'
    BY <1>5, <1>6, <2>1 DEF Watch, CallersWait
  <2>3. LaterUnused'
    BY <1>1, <1>3, <1>6, Facts DEF Watch, LaterUnused
  <2> QED BY <2>2, <2>3
<1>9. ReportedOnce'
  <2>1. \A x \in requests' : x.finished <= runs'[x.key].last
    BY <1>1, <1>5 DEF Watch, ReportedOnce
  <2>2. \A x, y \in requests' : x.key = y.key /\ x.finished = y.finished => x = y
    BY <1>5 DEF Watch, ReportedOnce
  <2>3. ASSUME NEW d \in RetryCalls, calls'[d].phase # "unused"
        PROVE  /\ d[2] <= runs'[d[1]].last
               /\ \A x \in requests' : x.key = d[1] /\ x.finished = d[2] => x.stage = "retrying"
    <3>1. CASE d = c
      BY <1>1, <1>3, <1>5, <3>1 DEF Watch, ReportedOnce
    <3>2. CASE d # c
      <4>1. calls[d].phase # "unused"
        BY <1>6, <2>3, <3>2, Facts
      <4> QED BY <1>1, <1>5, <4>1 DEF Watch, ReportedOnce
    <3> QED BY <3>1, <3>2
  <2> QED BY <2>1, <2>2, <2>3 DEF ReportedOnce
<1>10. NotReported' /\ Watched'
  <2>1. ASSUME NEW k \in Keys PROVE Followed(k)' <=> Followed(k)
    <3>1. \A d \in Calls : Follows(d, k)' <=> Follows(d, k)
      BY <1>4, <1>6 DEF Follows
    <3> QED BY <1>1, <3>1 DEF Followed, MayBreak
  <2>2. ~Followed(r.key)
    BY <1>1 DEF Watch, NotReported
  <2>3. \A x \in requests' : \E y \in requests : x.key = y.key
    BY <1>5
  <2>4. \A d \in RetryCalls : calls'[d].phase # "unused" /\ Followed(d[1])' =>
          calls[d].phase # "unused"
    BY <1>1, <1>3, <1>6, <2>1, <2>2, Facts
  <2> QED BY <1>2, <2>1, <2>3, <2>4, FollowersStay
<1> QED BY <1>7, <1>8, <1>9, <1>10 DEF Watch

\* A server that goes down takes its calls, their streams and its requests along;
\* the answers that others wait for are all of requests it had.
LEMMA WatchDown ==
  ASSUME Protocol, Protocol', Watch, NEW s \in Servers, NEW cut \in SUBSET Calls, Down(s, cut),
         \A c \in cut : calls[c].phase = "started"
  PROVE  Watch'
<1> DEFINE alive(c) == calls[c].phase \in {"dialing", "started", "open", "reporting"}
           gone == {c \in Calls : alive(c) /\ calls[c].server = s}
           lost == {r \in requests : r.server = s}
           unanswered == {r.caller : r \in {q \in lost : ~q.forwarded}}
           waiting == {c \in Calls : \E r \in lost : r.caller = c}
           closed(k) == \E c \in gone \cup cut : calls[c].key = k
           kept(r) == IF r.caller \in gone THEN [r EXCEPT !.caller = None] ELSE r
<1>1. UNCHANGED groups
  BY DEF Down
<1>2. ASSUME NEW c \in Calls
      PROVE  calls'[c] \in {calls[c], Redial(calls[c]), [calls[c] EXCEPT !.phase = "ended"]}
             /\ (calls'[c] = calls[c] \/ c \in gone \cup waiting \cup cut)
  BY DEF Down
<1>3. ASSUME NEW c \in Calls
      PROVE  /\ calls'[c].phase \in {calls[c].phase, "dialing", "ended"}
             /\ calls'[c].key \in {calls[c].key, None}
             /\ c \in gone \cup waiting \cup cut \/ calls'[c] = calls[c]
  <2> DEFINE ended == [calls[c] EXCEPT !.phase = "ended"]
  <2>1. calls[c] \in Call
    BY Facts
  <2>2. ended.phase = "ended" /\ ended.key = calls[c].key
    BY <2>1 DEF Call
  <2>3. Redial(calls[c]).phase \in {"dialing", "ended"}
        /\ Redial(calls[c]).key \in {calls[c].key, None}
    BY <2>1, RedialFacts DEF Redial, Call
  <2>4. calls'[c] \in {calls[c], Redial(calls[c]), ended}
        /\ (calls'[c] = calls[c] \/ c \in gone \cup waiting \cup cut)
    BY <1>2
  <2> HIDE DEF ended, gone, waiting
  <2> QED BY <2>2, <2>3, <2>4
<1>4. \A c \in waiting : calls[c].phase = "reporting"
  BY ConstantFacts DEF Watch, CallersWait
<1>5. \A c \in gone \cup waiting \cup cut : c \in Calls /\ calls[c].phase # "unused"
  BY <1>4
<1>6. \A c \in Calls : calls[c].phase = "unused" => calls'[c] = calls[c]
  <2> HIDE DEF gone, waiting
  <2> QED BY <1>3, <1>5
<1>7. /\ \A k \in Keys : closed(k) => ~runs'[k].stream
      /\ \A k \in Keys :
           /\ runs'[k].group = runs[k].group /\ runs'[k].node = runs[k].node
           /\ runs'[k].attempt = runs[k].attempt /\ runs'[k].state = runs[k].state
           /\ runs'[k].last = runs[k].last /\ (runs'[k].stream => runs[k].stream)
  <2>1. runs' = [k \in Keys |-> IF closed(k) THEN [runs[k] EXCEPT !.stream = FALSE] ELSE runs[k]]
    BY DEF Down
  <2> SUFFICES ASSUME NEW k \in Keys
               PROVE  /\ closed(k) => ~runs'[k].stream
                      /\ runs'[k].group = runs[k].group /\ runs'[k].node = runs[k].node
                      /\ runs'[k].attempt = runs[k].attempt /\ runs'[k].state = runs[k].state
                      /\ runs'[k].last = runs[k].last /\ (runs'[k].stream => runs[k].stream)
    OBVIOUS
  <2> DEFINE run == [runs[k] EXCEPT !.stream = FALSE]
  <2>2. /\ run.group = runs[k].group /\ run.node = runs[k].node
        /\ run.attempt = runs[k].attempt /\ run.state = runs[k].state
        /\ run.last = runs[k].last /\ ~run.stream
    BY Facts DEF Run
  <2>3. runs'[k] = IF closed(k) THEN run ELSE runs[k]
    BY <2>1
  <2> HIDE DEF run, gone, waiting
  <2> QED BY <2>2, <2>3
<1>8. RunsGoOn
  BY <1>7, Facts DEF RunsGoOn, Used
<1>9. requests' = {kept(r) : r \in requests \ lost}
  BY DEF Down
<1>10. \A r \in requests : /\ kept(r).key = r.key /\ kept(r).finished = r.finished
                           /\ kept(r).stage = r.stage
                           /\ kept(r).caller # None => kept(r) = r /\ r.caller \notin gone
  <2> SUFFICES ASSUME NEW r \in requests
               PROVE  /\ kept(r).key = r.key /\ kept(r).finished = r.finished
                      /\ kept(r).stage = r.stage
                      /\ kept(r).caller # None => kept(r) = r /\ r.caller \notin gone
    OBVIOUS
  <2> DEFINE q == [r EXCEPT !.caller = None]
  <2>1. q.key = r.key /\ q.finished = r.finished /\ q.stage = r.stage /\ q.caller = None
    BY Facts DEF Request
  <2>2. kept(r) = IF r.caller \in gone THEN q ELSE r
    OBVIOUS
  <2> HIDE DEF q, gone, kept
  <2> QED BY <2>1, <2>2
<1>11. Lineage'
  <2>1. \A c \in Calls : Began(c)' /\ calls'[c].key # None => Began(c)
    <3> SUFFICES ASSUME NEW c \in Calls, Began(c)', calls'[c].key # None PROVE Began(c)
      OBVIOUS
    <3>1. calls'[c].key = calls[c].key
      BY <1>3
    <3>2. calls[c].phase # "dialing"
      BY <3>1 DEF Protocol, CallsHold
    <3>3. calls[c].phase # "unused"
      BY <1>6 DEF Began
    <3> QED BY <3>2, <3>3 DEF Began
  <2> QED BY <1>3, <1>8, <2>1, LineageStays
<1>12. CallersWait'
  <2>1. ASSUME NEW r \in requests \ lost, kept(r).caller # None
        PROVE  /\ r \in requests /\ kept(r) = r /\ r.caller \in Calls
               /\ calls[r.caller].phase = "reporting"
               /\ r.caller \notin gone \cup waiting \cup cut
    <3>1. kept(r) = r /\ r.caller \notin gone /\ r.caller # None
      BY <1>10, <2>1
    <3>2. r.caller \in Calls /\ calls[r.caller].phase = "reporting"
      BY <2>1, <3>1, Facts DEF Watch, CallersWait, Request
    <3>3. r.caller \notin waiting
      BY <2>1, <3>1 DEF Watch, CallersWait
    <3> QED BY <2>1, <3>1, <3>2, <3>3
  <2> HIDE DEF kept, gone, waiting, lost
  <2>2. ASSUME NEW q \in requests', q.caller # None
        PROVE  q \in requests /\ calls'[q.caller].phase = "reporting"
    <3>1. PICK r \in requests \ lost : q = kept(r)
      BY <1>9
    <3>2. /\ r \in requests /\ q = r /\ r.caller \in Calls /\ calls[r.caller].phase = "reporting"
          /\ r.caller \notin gone \cup waiting \cup cut
      BY <2>1, <2>2, <3>1
    <3> QED BY <1>3, <3>2
  <2> QED BY <2>2 DEF Watch, CallersWait
<1>13. LaterUnused'
  BY <1>1, <1>6, Facts DEF Watch, LaterUnused
<1> HIDE DEF kept, gone, waiting, lost
<1>14. \A q \in requests' : \E r \in requests :
         q = kept(r) /\ q.key = r.key /\ q.finished = r.finished /\ q.stage = r.stage
  BY <1>9, <1>10
<1>15. ReportedOnce'
  <2>1. ASSUME NEW p \in requests', NEW q \in requests', p.key = q.key, p.finished = q.finished
        PROVE  p = q
    <3>1. PICK x \in requests : p = kept(x) /\ p.key = x.key /\ p.finished = x.finished
      BY <1>14
    <3>2. PICK y \in requests : q = kept(y) /\ q.key = y.key /\ q.finished = y.finished
      BY <1>14
    <3>3. x = y
      BY <2>1, <3>1, <3>2 DEF Watch, ReportedOnce
    <3> QED BY <3>1, <3>2, <3>3
  <2>2. \A c \in RetryCalls : calls'[c].phase # "unused" => calls[c].phase # "unused"
    BY <1>6, Facts
  <2> QED BY <1>8, <1>14, <2>1, <2>2, ReportsStay
<1>16. NotReported' /\ Watched'
  <2>1. ASSUME NEW k \in Keys PROVE Followed(k)' => Followed(k)
    <3>1. \A c \in Calls : Follows(c, k)' => Follows(c, k)
      BY <1>3, ConstantFacts DEF Follows
    <3> QED BY <1>7, <3>1 DEF Followed, MayBreak
  <2>2. ASSUME NEW k \in Keys, Followed(k), runs'[k].stream PROVE Followed(k)'
    <3>1. PICK c \in Calls : Follows(c, k)
      BY <2>2 DEF Followed, MayBreak
    <3>2. c \notin gone \cup cut
      BY <1>7, <2>2, <3>1 DEF Follows
    <3>3. c \notin waiting
      BY <1>4, <3>1 DEF Follows
    <3>4. Follows(c, k)'
      BY <1>3, <3>1, <3>2, <3>3 DEF Follows
    <3> QED BY <2>2, <3>4 DEF Followed, MayBreak
  <2>3. \A q \in requests' : \E r \in requests : q.key = r.key
    BY <1>14
  <2>4. \A c \in RetryCalls : calls'[c].phase # "unused" => calls[c].phase # "unused"
    BY <1>6, Facts
  <2> QED BY <1>8, <2>1, <2>2, <2>3, <2>4, FollowersStay
<1> QED BY <1>11, <1>12, <1>13, <1>15, <1>16 DEF Watch

LEMMA WatchFaults ==
  ASSUME Protocol, Protocol', Watch,
         \/ \E s \in Servers : Crash(s)
         \/ \E c \in Calls : RegisterUncertain(c)
  PROVE  Watch'
<1>1. ASSUME NEW s \in Servers, Crash(s) PROVE Watch'
  BY <1>1, WatchDown DEF Crash
<1>2. ASSUME NEW c \in Calls, RegisterUncertain(c) PROVE Watch'
  <2>1. leader \in Servers /\ Down(leader, {c}) /\ calls[c].phase = "started"
    BY <1>2, UncertainFacts
  <2>2. {c} \in SUBSET Calls /\ \A d \in {c} : calls[d].phase = "started"
    BY <2>1
  <2> QED BY <2>1, <2>2, WatchDown
<1> QED BY <1>1, <1>2

LEMMA WatchInit ==
  ASSUME Init
  PROVE  Watch
<1>1. /\ \A c \in Calls : calls[c].phase = "unused"
      /\ \A k \in Keys : runs[k].state = "unused" /\ ~runs[k].stream
      /\ requests = {}
  BY DEF Init
<1>2. \A g \in Groups, n \in Nodes : <<g, n>> \in Calls
  BY DEF Calls, FirstCalls
<1>3. RetryCalls \subseteq Calls
  BY DEF Calls
<1> QED BY <1>1, <1>2, <1>3 DEF Watch, Lineage, CallersWait, LaterUnused, ReportedOnce, NotReported,
           Watched, Followed, Began

LEMMA WatchNext ==
  ASSUME Protocol, Protocol', Watch, [Next]_execVars
  PROVE  Watch'
<1>1. ASSUME NEW s \in Servers, Check(s) \/ RunJob(s) \/ Crash(s) \/ Restart(s) \/ Elect(s)
      PROVE  Watch'
  BY <1>1, WatchAside, WatchRunJob, WatchFaults
<1>2. ASSUME NEW c \in Calls,
             Start(c) \/ DialFails(c) \/ Register(c) \/ ReceiveEnd(c) \/ NoticeBreak(c)
               \/ RegisterUncertain(c)
      PROVE  Watch'
  BY <1>2, WatchStart, WatchDialFails, WatchRegister, WatchReport, WatchFaults
<1>3. ASSUME NEW k \in Keys,
             (\E success \in BOOLEAN : Finish(k, success))
               \/ BreakStream(k) \/ AgentCrash(k) \/ Age(k)
      PROVE  Watch'
  BY <1>3, WatchFinish, WatchAside
<1>4. ASSUME NEW r \in requests,
             Forward(r) \/ ApplyDone(r) \/ ApplyUncertain(r) \/ Conclude(r)
               \/ Retry(r) \/ RetryReturns(r) \/ DependentsReturn(r)
      PROVE  Watch'
  BY <1>4, WatchAnswer, WatchRetry
<1>5. CASE LoseLeadership \/ UNCHANGED execVars
  BY <1>5, WatchAside
<1> QED BY <1>1, <1>2, <1>3, <1>4, <1>5 DEF Next

\* A registered execution that runs with its stream is active on the server of
\* its call.
LEMMA SeenWhileItStreams ==
  ASSUME Protocol, Watch, NEW k \in Keys,
         runs[k].state = "running", runs[k].stream, stored[k] # None
  PROVE  k \in Active
<1>1. PICK c \in Calls : Follows(c, k)
  BY DEF Watch, Watched, Followed, MayBreak
<1>2. calls[c].key = k /\ calls[c].phase = "open"
  BY <1>1 DEF Follows, Protocol, NothingBefore
<1> QED BY <1>2 DEF Active

\* Without faults the newest attempt is active, or it has just begun and the one
\* before it is.
LEMMA SeenUntilOver ==
  ASSUME Protocol, Watch, Undisturbed, NEW g \in Groups, NEW n \in Nodes,
         NEW first \in Started(g, n), stored[first] # None, ~RunIsOver(g, n)
  PROVE  Active # {}
<1> USE DEF Undisturbed
<1> DEFINE S == Started(g, n)
           last == Cardinality(S)
<1>1. Chained(g, n) /\ S \in SUBSET Keys
  BY DEF RunsAreChains, Started
<1>2. PICK k \in S : runs[k].attempt = last
  <2>1. IsFiniteSet(S) /\ last \in Nat
    BY <1>1, KeysAreFinite
  <2>2. last # 0
    BY <2>1, FS_EmptySet
  <2>3. {runs[k].attempt : k \in S} = 1..last
    BY <1>1 DEF Chained, Attempts
  <2>4. last \in {runs[k].attempt : k \in S}
    BY <2>1, <2>2, <2>3
  <2> QED BY <2>4
<1>3. k \in Keys /\ Used(k) /\ ~Began(RetryOf(k)) /\ runs[k].attempt \in 0..(Retries + 1)
  <2>1. k \in Keys /\ runs[k].group = g
    BY DEF Started
  <2>2. Used(k)
    BY <2>1, ConstantFacts DEF RunsAreChains
  <2>3. ~Began(RetryOf(k))
    BY <1>1, <1>2 DEF Chained, Newest
  <2> QED BY <2>1, <2>2, <2>3, Facts DEF Run
<1>4. ASSUME NEW m \in Keys, Used(m), NEW d \in Calls, Began(d), KeyOf(d) = m,
             Recorded(m), calls[RetryOf(m)].phase # "ended",
             runs[m].state = "failed", runs[m].attempt < Retries + 1
      PROVE  m \in Active
  <2>1. calls[d].phase = "reporting"
    <3>1. calls[d] \in Call
      BY Facts
    <3> QED BY <1>4, <3>1 DEF CallsInOrder, CallInOrder, Began, Call, Recorded
  <2> QED BY <1>4, <2>1 DEF Active, KeyOf
<1>5. PICK c \in Calls : Began(c) /\ KeyOf(c) = k
  BY <1>3 DEF EachOfOneCall
<1>6. calls[c].phase \in {"started", "open", "reporting", "ended"}
  BY <1>5, Facts DEF Began, Call
<1>7. CASE calls[c].phase \in {"open", "reporting"}
  BY <1>5, <1>7 DEF Active, KeyOf
<1>8. CASE calls[c].phase = "ended"
  <2>1. Recorded(k) /\ (runs[k].state = "failed" /\ runs[k].attempt < Retries + 1 =>
                          calls[RetryOf(k)].phase = "ended")
    BY <1>5, <1>8 DEF CallsInOrder, CallInOrder
  <2>2. runs[k].state # "succeeded" /\ runs[k].attempt # Retries + 1
    BY <2>1 DEF RunIsOver
  <2>3. runs[k].state = "failed"
    BY <1>3, <2>1, <2>2 DEF EachStoredAsItWas
  <2>4. runs[k].attempt < Retries + 1
    BY <1>3, <2>2, ConstantFacts
  <2> QED BY <1>3, <2>1, <2>3, <2>4 DEF Began
<1>9. CASE calls[c].phase = "started"
  <2>1. stored[k] = None
    BY <1>5, <1>9 DEF CallsInOrder, CallInOrder
  <2>2. c \in FirstCalls \/ c \in RetryCalls
    BY DEF Calls
  <2>3. KeyOf(c) # None
    BY <1>3, <1>5, ConstantFacts
  <2>4. CASE c \in FirstCalls
    <3>1. last = 1
      BY <1>2, <1>5, <2>3, <2>4 DEF Watch, Lineage
    <3>2. Attempts(S) = {1}
      BY <1>1, <3>1 DEF Chained
    <3>3. runs[first].attempt = 1
      BY <3>2 DEF Attempts
    <3>4. first = k
      BY <1>1, <1>2, <3>1, <3>3 DEF Chained
    <3> QED BY <2>1, <3>4
  <2>5. CASE c \in RetryCalls
    <3>1. PICK m \in Keys : m = c[1]
      BY <2>5, Facts
    <3>2. c[2] = 2 /\ runs[m].state = "failed" /\ Recorded(m)
      BY <1>5, <2>5, <3>1 DEF RetriesFollow, Began
    <3>3. c = RetryOf(m)
      BY <2>5, <3>1, <3>2, Facts DEF RetryOf
    <3>4. runs[k].attempt = runs[m].attempt + 1
      BY <1>5, <2>3, <2>5, <3>1 DEF Watch, Lineage
    <3>5. runs[m].attempt < Retries + 1
      <4>1. runs[m].attempt \in Nat
        BY Facts DEF Run
      <4> QED BY <1>3, <3>4, <4>1, ConstantFacts
    <3>6. Used(m)
      BY <3>2 DEF Used
    <3>7. PICK d \in Calls : Began(d) /\ KeyOf(d) = m
      BY <3>6 DEF EachOfOneCall
    <3>8. calls[RetryOf(m)].phase # "ended"
      BY <1>9, <3>3
    <3>9. m \in Active
      BY <1>4, <3>2, <3>5, <3>6, <3>7, <3>8
    <3> QED BY <3>9
  <2> QED BY <2>2, <2>4, <2>5
<1> QED BY <1>6, <1>7, <1>8, <1>9

\* Whatever crashes, breaks and redials there are, isRunnable sees each
\* execution that has registered and still has its stream; and without faults it
\* sees a run from its first registration to the end of its last attempt,
\* although a retry that runs carries a finish and is not among the running
\* executions of the store (job.go isRunnable, grpc_client.go agentRunAttempt,
\* grpc.go ExecutionDone).
THEOREM RunsSeen == Spec => []RunsAreSeen
<1> DEFINE Seen == Protocol /\ Watch /\ (faults = 0 => Undisturbed)
<1>1. Init => Seen
  BY InitProtocol, WatchInit, ExactInit
<1>2. Seen /\ [Next]_execVars => Seen'
  BY NextProtocol, WatchNext, ExactNext
<1>3. Seen => RunsAreSeen
  <2>1. ASSUME Seen, NEW k \in Keys,
               runs[k].state = "running", runs[k].stream, stored[k] # None
        PROVE  ~Runnable
    BY <2>1, SeenWhileItStreams DEF Runnable
  <2>2. ASSUME Seen, faults = 0, NEW g \in Groups, NEW n \in Nodes,
               NEW k \in Started(g, n), stored[k] # None, ~RunIsOver(g, n)
        PROVE  ~Runnable
    BY <2>2, SeenUntilOver DEF Runnable
  <2> QED BY <2>1, <2>2 DEF RunsAreSeen
<1> HIDE DEF Seen
<1> QED BY <1>1, <1>2, <1>3, PTL DEF Spec

-----------------------------------------------------------------------------
(* What the dependents follow *)

\* An execution that has ended stays as it is.
LEMMA EndedStays ==
  ASSUME Protocol, [Next]_execVars, NEW k \in Keys, runs[k].state \in {"succeeded", "failed"}
  PROVE  /\ runs'[k].state = runs[k].state
         /\ runs'[k].group = runs[k].group /\ runs'[k].attempt = runs[k].attempt
<1>1. runs[k] \in Run /\ runs \in [Keys -> Run]
  BY Facts
<1>2. \A run : \/ run = [runs[k] EXCEPT !.stream = FALSE]
               \/ run = [runs[k] EXCEPT !.last = runs[k].last + 1]
        => run.state = runs[k].state /\ run.group = runs[k].group /\ run.attempt = runs[k].attempt
  BY <1>1 DEF Run
<1>3. CASE runs'[k] = runs[k]
  BY <1>3
<1>4. CASE CleanUp
  BY <1>2, <1>4, CleanUpFacts
<1>5. ASSUME NEW s \in Servers, NEW cut \in SUBSET Calls, Down(s, cut)
      PROVE  runs'[k] \in {runs[k], [runs[k] EXCEPT !.stream = FALSE]}
  BY <1>5 DEF Down
<1>6. ASSUME NEW m \in Keys, runs' = [runs EXCEPT ![m] = [runs[m] EXCEPT !.stream = FALSE]]
      PROVE  runs'[k] \in {runs[k], [runs[k] EXCEPT !.stream = FALSE]}
  BY <1>1, <1>6
<1>7. ASSUME NEW s \in Servers, Check(s) \/ RunJob(s) \/ Crash(s) \/ Restart(s) \/ Elect(s)
      PROVE  \/ CleanUp
             \/ runs'[k] \in {runs[k], [runs[k] EXCEPT !.stream = FALSE]}
  BY <1>5, <1>7 DEF Check, RunJob, Crash, Restart, Elect
<1>8. ASSUME NEW c \in Calls,
             Start(c) \/ DialFails(c) \/ Register(c) \/ ReceiveEnd(c) \/ NoticeBreak(c)
               \/ RegisterUncertain(c)
      PROVE  runs'[k] \in {runs[k], [runs[k] EXCEPT !.stream = FALSE],
                           [runs[k] EXCEPT !.last = runs[k].last + 1]}
  <2>1. CASE Start(c)
    <3> DEFINE U == {m \in Keys : runs[m].state # "unused"}
    <3>1. Cardinality(U) + 1 \in Keys
      BY <2>1 DEF Start
    <3>2. ~Used(Cardinality(U) + 1)
      BY <3>1, NextKey
    <3>3. \A m \in Keys : m # Cardinality(U) + 1 => runs'[m] = runs[m]
      BY <2>1, <1>1 DEF Start
    <3> HIDE DEF U
    <3> QED BY <3>2, <3>3 DEF Used
  <2>2. CASE Register(c)
    <3>1. calls[c].key \in Keys
      BY <2>2 DEF Register, Protocol, CallsHold
    <3> QED BY <1>6, <2>2, <3>1 DEF Register
  <2>3. CASE NoticeBreak(c)
    <3>1. PICK m \in Keys : m = calls[c].key
      BY <2>3 DEF NoticeBreak, Protocol, CallsHold
    <3>2. runs' = [runs EXCEPT ![m] = [runs[m] EXCEPT !.last = runs[m].last + 1]]
      BY <2>3, <3>1 DEF NoticeBreak
    <3> QED BY <1>1, <3>2
  <2>4. CASE RegisterUncertain(c)
    <3>1. leader \in Servers /\ Down(leader, {c}) /\ {c} \in SUBSET Calls
      BY <2>4, UncertainFacts
    <3> QED BY <1>5, <3>1
  <2> QED BY <1>8, <2>1, <2>2, <2>3, <2>4 DEF DialFails, ReceiveEnd
<1>9. ASSUME NEW m \in Keys,
             (\E success \in BOOLEAN : Finish(m, success))
               \/ BreakStream(m) \/ AgentCrash(m) \/ Age(m)
      PROVE  runs'[k] \in {runs[k], [runs[k] EXCEPT !.stream = FALSE]}
  <2>1. CASE BreakStream(m) \/ Age(m)
    BY <1>1, <2>1 DEF BreakStream, Age
  <2>2. CASE ~(BreakStream(m) \/ Age(m))
    <3>1. m # k /\ \A x \in Keys : x # m => runs'[x] = runs[x]
      BY <1>1, <1>9, <2>2 DEF Finish, AgentCrash
    <3> QED BY <3>1
  <2> QED BY <2>1, <2>2
<1>10. ASSUME NEW r \in requests,
              Forward(r) \/ ApplyDone(r) \/ ApplyUncertain(r) \/ Conclude(r)
                \/ Retry(r) \/ RetryReturns(r) \/ DependentsReturn(r)
       PROVE  UNCHANGED runs
  BY <1>10 DEF Forward, ApplyDone, ApplyUncertain, Conclude, Retry, RetryReturns, DependentsReturn
<1>11. CASE LoseLeadership \/ UNCHANGED execVars
  BY <1>11 DEF LoseLeadership, execVars
<1> QED BY <1>2, <1>3, <1>4, <1>7, <1>8, <1>9, <1>10, <1>11 DEF Next

\* A status of success is of a run of which something is stored, and all of it
\* succeeded.
LEMMA SuccessIsStored ==
  ASSUME NEW st, NEW g, GroupStatus(st, g) = "success",
         NEW k \in Keys, st[k] # None, runs[k].group = g
  PROVE  st[k].success
<1> DEFINE G == {m \in Keys : st[m] # None /\ runs[m].group = g}
           good == {m \in G : st[m].success}
<1>1. GroupStatus(st, g) = CASE good = G  -> "success"
                             [] good = {} -> "failed"
                             [] OTHER     -> "partially_failed"
  BY DEF GroupStatus
<1>2. k \in G
  OBVIOUS
<1>3. good = G
  <2> HIDE DEF good, G
  <2>1. CASE good = {} /\ good # G
    <3>1. GroupStatus(st, g) = "failed"
      BY <1>1, <2>1
    <3> QED BY <3>1
  <2>2. CASE good # {} /\ good # G
    <3>1. GroupStatus(st, g) = "partially_failed"
      BY <1>1, <2>2
    <3> QED BY <3>1
  <2> QED BY <2>1, <2>2
<1> QED BY <1>2, <1>3

\* The status is a success, and dependents have run, only if an execution has
\* succeeded.
SuccessFirst ==
  status = "success" \/ (\E g \in Groups : chained[g] > 0) =>
    \E k \in Keys : runs[k].state = "succeeded"

\* The steps that change the status store something of the run.
LEMMA StatusChanges ==
  ASSUME Inv, [Next]_execVars, status' # status
  PROVE  \E k \in Keys : stored'[k] # None /\ status' = GroupStatus(stored', runs[k].group)
<1> USE DEF Inv
<1>1. ASSUME CleanUp
      PROVE  \E k \in Keys : stored'[k] # None /\ status' = GroupStatus(stored', runs[k].group)
  <2>1. Stale # {} /\ Stale \subseteq Keys
    BY <1>1 DEF CleanUp, storeVars, Stale, Running
  <2>2. PICK k \in Stale : status' = GroupStatus(stored', runs[k].group)
    BY <1>1, <2>1 DEF CleanUp
  <2>3. stored'[k] = [finished |-> runs[k].last + 1, success |-> FALSE]
    BY <1>1, <2>1 DEF CleanUp
  <2>4. stored'[k] \in Record
    <3>1. stored'[k] \in Record \cup {None}
      BY <1>1, <2>1, CleanUpFacts
    <3>2. k \in Keys /\ stored[k] # None
      BY <2>1 DEF Stale, Running
    <3>3. runs[k].last + 1 \in 0..4
      <4>1. runs[k].last + One(MayFinish(k)) + One(MayBreak(k)) + One(MayClean(k)) <= 4
        BY <3>2 DEF Protocol, FinishesLeft
      <4>2. MayClean(k) /\ runs[k].last \in Nat
        BY <3>2, Facts DEF MayClean, Stale, Running
      <4> QED BY <4>1, <4>2 DEF One
    <3> QED BY <2>3, <3>3 DEF Record
  <2> QED BY <2>1, <2>2, <2>4, ConstantFacts
<1>2. ASSUME NEW r \in requests, StoreResult(r.key, r.finished, r.success)
      PROVE  \E k \in Keys : stored'[k] # None /\ status' = GroupStatus(stored', runs[k].group)
  <2>1. ~UNCHANGED storeVars
    BY DEF storeVars
  <2>2. status' = GroupStatus(stored', runs[r.key].group)
    BY <1>2, <2>1 DEF StoreResult
  <2>3. r.key \in Keys /\ stored'[r.key] # None
    BY <1>2, <2>1, Facts, StoreResultFacts DEF Recorded
  <2> QED BY <2>2, <2>3
<1>3. ASSUME NEW s \in Servers, Check(s) \/ RunJob(s) \/ Crash(s) \/ Restart(s) \/ Elect(s)
      PROVE  CleanUp
  BY <1>3 DEF Check, RunJob, Crash, Down, Restart, Elect, storeVars
<1>4. ASSUME NEW c \in Calls,
             Start(c) \/ DialFails(c) \/ Register(c) \/ ReceiveEnd(c) \/ NoticeBreak(c)
               \/ RegisterUncertain(c)
      PROVE  FALSE
  BY <1>4 DEF Start, DialFails, Register, ReceiveEnd, NoticeBreak, RegisterUncertain, Down,
              storeVars
<1>5. ASSUME NEW k \in Keys,
             (\E success \in BOOLEAN : Finish(k, success))
               \/ BreakStream(k) \/ AgentCrash(k) \/ Age(k)
      PROVE  FALSE
  BY <1>5 DEF Finish, BreakStream, AgentCrash, Age, storeVars
<1>6. ASSUME NEW r \in requests,
             Forward(r) \/ ApplyDone(r) \/ ApplyUncertain(r) \/ Conclude(r)
               \/ Retry(r) \/ RetryReturns(r) \/ DependentsReturn(r)
      PROVE  StoreResult(r.key, r.finished, r.success)
  BY <1>6 DEF Forward, ApplyDone, ApplyUncertain, Conclude, Retry, RetryReturns, DependentsReturn,
              storeVars
<1>7. ~LoseLeadership /\ ~UNCHANGED execVars
  BY DEF LoseLeadership, execVars, storeVars
<1> QED BY <1>1, <1>2, <1>3, <1>4, <1>5, <1>6, <1>7 DEF Next

\* Only the end of ExecutionDone runs the dependents.
LEMMA DependentsRun ==
  ASSUME [Next]_execVars, chained' # chained
  PROVE  \E r \in requests : Conclude(r) /\ ~RetryDue(r) /\ Chains
<1>1. ASSUME NEW s \in Servers, Check(s) \/ RunJob(s) \/ Crash(s) \/ Restart(s) \/ Elect(s)
      PROVE  FALSE
  BY <1>1 DEF Check, RunJob, Crash, Down, Restart, Elect
<1>2. ASSUME NEW c \in Calls,
             Start(c) \/ DialFails(c) \/ Register(c) \/ ReceiveEnd(c) \/ NoticeBreak(c)
               \/ RegisterUncertain(c)
      PROVE  FALSE
  BY <1>2 DEF Start, DialFails, Register, ReceiveEnd, NoticeBreak, RegisterUncertain, Down
<1>3. ASSUME NEW k \in Keys,
             (\E success \in BOOLEAN : Finish(k, success))
               \/ BreakStream(k) \/ AgentCrash(k) \/ Age(k)
      PROVE  FALSE
  BY <1>3 DEF Finish, BreakStream, AgentCrash, Age
<1>4. ASSUME NEW r \in requests,
             Forward(r) \/ ApplyDone(r) \/ ApplyUncertain(r) \/ Conclude(r)
               \/ Retry(r) \/ RetryReturns(r) \/ DependentsReturn(r)
      PROVE  Conclude(r) /\ ~RetryDue(r) /\ Chains
  BY <1>4 DEF Forward, ApplyDone, ApplyUncertain, Conclude, Retry, RetryReturns, DependentsReturn
<1>5. ~LoseLeadership /\ ~UNCHANGED execVars
  BY DEF LoseLeadership, execVars
<1> QED BY <1>1, <1>2, <1>3, <1>4, <1>5 DEF Next

LEMMA SuccessStaysFirst ==
  ASSUME Inv, Inv', SuccessFirst, [Next]_execVars
  PROVE  SuccessFirst'
<1>1. ASSUME NEW k \in Keys, runs[k].state = "succeeded" PROVE runs'[k].state = "succeeded"
  BY <1>1, EndedStays DEF Inv
<1>2. CASE \E k \in Keys : runs[k].state = "succeeded"
  BY <1>1, <1>2 DEF SuccessFirst
<1>3. CASE ~\E k \in Keys : runs[k].state = "succeeded"
  <2>1. status # "success" /\ \A g \in Groups : ~(chained[g] > 0)
    BY <1>3 DEF SuccessFirst
  <2>2. UNCHANGED chained
    BY <2>1, DependentsRun DEF Chains
  <2>3. ASSUME status' = "success" PROVE \E k \in Keys : runs'[k].state = "succeeded"
    <3>1. PICK k \in Keys : stored'[k] # None /\ status' = GroupStatus(stored', runs[k].group)
      BY <2>1, <2>3, StatusChanges
    <3>2. PICK st, g : st = stored' /\ g = runs[k].group
      OBVIOUS
    <3>3. st[k].success
      BY <2>3, <3>1, <3>2, SuccessIsStored
    <3>4. stored'[k].success
      BY <3>2, <3>3, Zenon
    <3> QED BY <3>1, <3>4 DEF Inv, SuccessesAreReal
  <2> QED BY <2>1, <2>2, <2>3 DEF SuccessFirst
<1> QED BY <1>2, <1>3

\* There have never been fewer faults.
LEMMA NoFaultBefore ==
  ASSUME TypeOK, [Next]_execVars, faults' = 0
  PROVE  faults = 0
<1>1. faults \in Nat /\ ~Fault
  BY DEF Fault, TypeOK
<1>2. UNCHANGED faults
  <2>1. ASSUME NEW s \in Servers, Check(s) \/ RunJob(s) \/ Crash(s) \/ Restart(s) \/ Elect(s)
        PROVE  UNCHANGED faults
    BY <1>1, <2>1 DEF Check, RunJob, Crash, Down, Restart, Elect
  <2>2. ASSUME NEW c \in Calls,
               Start(c) \/ DialFails(c) \/ Register(c) \/ ReceiveEnd(c) \/ NoticeBreak(c)
                 \/ RegisterUncertain(c)
        PROVE  UNCHANGED faults
    BY <1>1, <2>2 DEF Start, DialFails, Register, ReceiveEnd, NoticeBreak, RegisterUncertain, Down
  <2>3. ASSUME NEW k \in Keys,
               (\E success \in BOOLEAN : Finish(k, success))
                 \/ BreakStream(k) \/ AgentCrash(k) \/ Age(k)
        PROVE  UNCHANGED faults
    BY <1>1, <2>3 DEF Finish, BreakStream, AgentCrash, Age
  <2>4. ASSUME NEW r \in requests,
               Forward(r) \/ ApplyDone(r) \/ ApplyUncertain(r) \/ Conclude(r)
                 \/ Retry(r) \/ RetryReturns(r) \/ DependentsReturn(r)
        PROVE  UNCHANGED faults
    BY <1>1, <2>4 DEF Forward, ApplyDone, ApplyUncertain, Conclude, Retry, RetryReturns,
                      DependentsReturn
  <2>5. CASE LoseLeadership \/ UNCHANGED execVars
    BY <1>1, <2>5 DEF LoseLeadership, execVars
  <2> QED BY <2>1, <2>2, <2>3, <2>4, <2>5 DEF Next
<1> QED BY <1>2

\* Without faults: the executions whose results are recorded and need no more
\* handling but for the answer.
DoneWith(k) == Recorded(k) /\ \A r \in requests : r.key = k => r.stage = "chaining"

DependentsOnce ==
  \A g \in Groups : chained[g] <= Cardinality({k \in Ends(g) : DoneWith(k)})

\* Nobody records or reports it again.
LEMMA DoneStays ==
  ASSUME Protocol, Undisturbed, [Next]_execVars, faults = 0, faults' = 0,
         NEW k \in Keys, DoneWith(k)
  PROVE  DoneWith(k)'
<1> USE DEF Protocol, Undisturbed
<1>1. /\ Recorded(k) /\ runs[k].state \in {"succeeded", "failed"}
      /\ stored[k] # None /\ stored[k].finished # 0
      /\ \A r \in requests : r.key = k => r.stage = "chaining"
  <2>1. Recorded(k) /\ \A r \in requests : r.key = k => r.stage = "chaining"
    BY DEF DoneWith
  <2>2. runs[k].state \in {"succeeded", "failed"}
    BY <2>1, Zenon DEF EachStoredAsItWas
  <2>3. stored[k] # None /\ stored[k].finished # 0
    BY <2>1 DEF Recorded
  <2> QED BY <2>1, <2>2, <2>3
<1>2. ASSUME stored'[k] = stored[k], \A q \in requests' : q \in requests \/ q.key # k
      PROVE  DoneWith(k)'
  BY <1>1, <1>2 DEF DoneWith, Recorded
<1>3. ~Fault
  BY DEF Fault
<1>4. ASSUME NEW s \in Servers, Check(s) \/ RunJob(s) \/ Crash(s) \/ Restart(s) \/ Elect(s)
      PROVE  DoneWith(k)'
  <2>1. UNCHANGED requests /\ (CleanUp \/ UNCHANGED stored)
    BY <1>3, <1>4 DEF Check, RunJob, Crash, Down, Restart, Elect, storeVars
  <2>2. stored'[k] = stored[k]
    BY <1>1, <2>1, CleanUpFacts
  <2> QED BY <1>2, <2>1, <2>2
<1>5. ASSUME NEW c \in Calls,
             Start(c) \/ DialFails(c) \/ Register(c) \/ ReceiveEnd(c) \/ NoticeBreak(c)
               \/ RegisterUncertain(c)
      PROVE  DoneWith(k)'
  <2>1. CASE Start(c)
    BY <1>2, <2>1 DEF Start, storeVars
  <2>2. CASE Register(c)
    <3>1. calls[c].key # k
      BY <1>1, <2>2 DEF Register, NothingBefore
    <3>2. stored'[k] = stored[k]
      BY <2>2, <3>1 DEF Register, Registered, TypeOK
    <3> QED BY <1>2, <2>2, <3>2 DEF Register
  <2>3. CASE ReceiveEnd(c) \/ NoticeBreak(c)
    <3>1. calls[c].key # k
      BY <1>1, <2>3 DEF ReceiveEnd, NoticeBreak, CallsInOrder, CallInOrder, KeyOf
    <3>2. \A q \in requests' : q \in requests \/ q.key = calls[c].key
      <4>1. PICK finished, success : Report(c, finished, success)
        BY <2>3 DEF ReceiveEnd, NoticeBreak
      <4>2. \A x, y : x = [key |-> calls[c].key, finished |-> finished, success |-> success,
                            server |-> y, caller |-> c, forwarded |-> FALSE, stage |-> "sent"]
              => x.key = calls[c].key
        OBVIOUS
      <4> QED BY <4>1, <4>2 DEF Report
    <3>3. UNCHANGED stored
      BY <2>3 DEF ReceiveEnd, NoticeBreak, storeVars
    <3> QED BY <1>2, <3>1, <3>2, <3>3
  <2> QED BY <1>3, <1>5, <2>1, <2>2, <2>3 DEF DialFails, RegisterUncertain, Down
<1>6. ASSUME NEW m \in Keys,
             (\E success \in BOOLEAN : Finish(m, success))
               \/ BreakStream(m) \/ AgentCrash(m) \/ Age(m)
      PROVE  DoneWith(k)'
  <2>1. CASE \E success \in BOOLEAN : Finish(m, success)
    <3>1. m # k /\ UNCHANGED stored
      BY <1>1, <2>1 DEF Finish, storeVars
    <3>2. \A q \in requests' : q \in requests \/ q.key = m
      BY <2>1 DEF Finish
    <3> QED BY <1>2, <3>1, <3>2
  <2> QED BY <1>2, <1>3, <1>6, <2>1 DEF BreakStream, AgentCrash, Age, storeVars
<1>7. ASSUME NEW r \in requests,
             Forward(r) \/ ApplyDone(r) \/ ApplyUncertain(r) \/ Conclude(r)
               \/ Retry(r) \/ RetryReturns(r) \/ DependentsReturn(r)
      PROVE  DoneWith(k)'
  <2>1. ~ApplyUncertain(r)
    BY <1>3 DEF ApplyUncertain
  <2>2. CASE RetryReturns(r) \/ DependentsReturn(r)
    BY <1>2, <2>2 DEF RetryReturns, DependentsReturn, storeVars
  <2>3. CASE Forward(r) \/ ApplyDone(r) \/ Conclude(r) \/ Retry(r)
    <3>1. r.key # k /\ r.key \in Keys /\ r \in Request
      BY <1>1, <2>3, Facts DEF Forward, ApplyDone, Conclude, Retry
    <3>2. stored'[k] = stored[k]
      <4>1. CASE ApplyDone(r)
        BY <3>1, <4>1, StoreResultFacts DEF ApplyDone, storeVars
      <4> QED BY <2>3, <4>1 DEF Forward, Conclude, Retry, storeVars
    <3>3. \A q \in requests' : q \in requests \/ q.key = r.key
      <4>1. \A stage : [r EXCEPT !.stage = stage].key = r.key
        BY <3>1 DEF Request
      <4>2. [r EXCEPT !.server = leader, !.forwarded = TRUE].key = r.key
        BY <3>1 DEF Request
      <4>3. CASE Forward(r)
        BY <4>2, <4>3 DEF Forward
      <4>4. CASE ApplyDone(r)
        BY <4>1, <4>4 DEF ApplyDone
      <4>5. CASE Conclude(r)
        BY <4>1, <4>5 DEF Conclude
      <4>6. CASE Retry(r)
        <5>1. \A q \in requests' : q \in requests \/ q = [r EXCEPT !.stage = "retrying"]
          BY <4>6 DEF Retry
        <5> QED BY <4>1, <5>1
      <4> QED BY <2>3, <4>3, <4>4, <4>5, <4>6
    <3> QED BY <1>2, <3>1, <3>2, <3>3
  <2> QED BY <1>7, <2>1, <2>2, <2>3
<1>8. CASE LoseLeadership \/ UNCHANGED execVars
  BY <1>2, <1>8 DEF LoseLeadership, execVars, storeVars
<1> QED BY <1>4, <1>5, <1>6, <1>7, <1>8 DEF Next

\* Each run of the dependents is of one result more.
LEMMA DependentsStayOnce ==
  ASSUME Protocol, Undisturbed, DependentsOnce, [Next]_execVars, faults = 0, faults' = 0
  PROVE  DependentsOnce'
<1> DEFINE D(g) == {k \in Ends(g) : DoneWith(k)}
           E(g) == D(g)'
<1>1. ASSUME NEW g \in Groups PROVE D(g) \in SUBSET E(g) /\ E(g) \in SUBSET Keys
  <2>1. ASSUME NEW k \in D(g) PROVE k \in E(g)
    <3>1. k \in Keys /\ DoneWith(k) /\ k \in Ends(g)
      BY DEF Ends
    <3>2. runs[k].state \in {"succeeded", "failed"}
      BY <3>1 DEF DoneWith, Undisturbed, EachStoredAsItWas
    <3>3. /\ runs'[k].state = runs[k].state
          /\ runs'[k].group = runs[k].group /\ runs'[k].attempt = runs[k].attempt
      BY <3>1, <3>2, EndedStays
    <3>4. DoneWith(k)'
      BY <3>1, DoneStays
    <3>5. Recorded(k)'
      BY <3>4 DEF DoneWith
    <3> QED BY <3>1, <3>3, <3>4, <3>5 DEF Ends
  <2>2. E(g) \subseteq Keys
    BY DEF Ends
  <2> QED BY <2>1, <2>2
<1>2. ASSUME NEW g \in Groups
      PROVE  /\ IsFiniteSet(D(g)) /\ IsFiniteSet(E(g)) /\ Cardinality(D(g)) \in Nat
             /\ Cardinality(E(g)) \in Nat /\ Cardinality(D(g)) <= Cardinality(E(g))
             /\ chained[g] \in Nat /\ chained[g] <= Cardinality(D(g))
  <2>1. D(g) \in SUBSET E(g) /\ E(g) \in SUBSET Keys /\ D(g) \in SUBSET Keys
    BY <1>1
  <2>2. chained[g] \in Nat /\ chained[g] <= Cardinality(D(g))
    BY DEF DependentsOnce, Protocol, TypeOK
  <2> HIDE DEF D, E
  <2>3. IsFiniteSet(D(g)) /\ Cardinality(D(g)) \in Nat
    BY <2>1, KeysAreFinite
  <2>4. IsFiniteSet(E(g)) /\ Cardinality(E(g)) \in Nat
    BY <2>1, KeysAreFinite
  <2>5. Cardinality(D(g)) <= Cardinality(E(g))
    BY <2>1, <2>4, FS_Subset
  <2> QED BY <2>2, <2>3, <2>4, <2>5
<1>3. ASSUME NEW r \in requests, Conclude(r), ~RetryDue(r), Chains
      PROVE  \E g \in Groups : /\ r.key \in E(g) \ D(g)
                               /\ chained' = [chained EXCEPT ![g] = chained[g] + 1]
  <2> USE DEF Undisturbed
  <2>1. r \in Request /\ r.key \in Keys /\ r.stage = "applied"
    BY <1>3, Facts DEF Conclude
  <2>2. PICK g : g = runs[r.key].group
    OBVIOUS
  <2>3. Recorded(r.key) /\ (r.success <=> runs[r.key].state = "succeeded")
        /\ runs[r.key].state \in {"succeeded", "failed"}
    BY <2>1 DEF RequestsInOrder, RequestInOrder
  <2>4. g \in Groups
    BY <2>1, <2>2, <2>3 DEF RunsAreChains, Used
  <2>5. runs[r.key].state = "succeeded" \/ runs[r.key].attempt = Retries + 1
    <3>1. runs[r.key].attempt \in 0..(Retries + 1)
      BY <2>1, Facts DEF Run
    <3> QED BY <1>3, <2>3, <3>1, ConstantFacts DEF RetryDue
  <2>6. r.key \notin D(g)
    BY <2>1 DEF DoneWith
  <2>7. chained' = [chained EXCEPT ![g] = chained[g] + 1] /\ UNCHANGED <<runs, stored>>
        /\ requests' = (requests \ {r}) \cup {[r EXCEPT !.stage = "chaining"]}
    BY <1>3, <2>2 DEF Conclude, storeVars
  <2>8. ASSUME NEW q \in requests', q.key = r.key PROVE q.stage = "chaining"
    <3>1. [r EXCEPT !.stage = "chaining"].stage = "chaining"
      BY <2>1 DEF Request
    <3>2. q \notin requests \ {r}
      BY <2>8 DEF RequestsInOrder
    <3> QED BY <2>7, <3>1, <3>2
  <2>9. Recorded(r.key)'
    BY <2>3, <2>7 DEF Recorded
  <2>10. r.key \in E(g)
    BY <2>1, <2>2, <2>5, <2>7, <2>8, <2>9 DEF Ends, DoneWith
  <2> QED BY <2>4, <2>6, <2>7, <2>10
<1> SUFFICES ASSUME NEW g \in Groups PROVE chained'[g] <= Cardinality(E(g))
  BY DEF DependentsOnce
<1> HIDE DEF D, E
<1>4. CASE UNCHANGED chained
  BY <1>2, <1>4
<1>5. CASE ~UNCHANGED chained
  <2>1. PICK r \in requests : Conclude(r) /\ ~RetryDue(r) /\ Chains
    BY <1>5, DependentsRun
  <2>2. PICK h \in Groups : /\ r.key \in E(h) \ D(h)
                            /\ chained' = [chained EXCEPT ![h] = chained[h] + 1]
    BY <1>3, <2>1
  <2>3. chained \in [Groups -> Nat]
    BY DEF Protocol, TypeOK
  <2>4. CASE h # g
    BY <1>2, <2>2, <2>3, <2>4
  <2>5. CASE h = g
    <3>1. chained'[g] = chained[g] + 1
      BY <2>2, <2>3, <2>5
    <3>2. Cardinality(D(g) \cup {r.key}) = Cardinality(D(g)) + 1
      BY <1>2, <2>2, <2>5, FS_AddElement
    <3>3. D(g) \cup {r.key} \in SUBSET E(g)
      BY <1>1, <2>2, <2>5
    <3>4. Cardinality(D(g) \cup {r.key}) <= Cardinality(E(g))
      BY <1>2, <3>3, FS_Subset
    <3> QED BY <1>2, <3>1, <3>2, <3>4
  <2> QED BY <2>4, <2>5
<1> QED BY <1>4, <1>5

\* Dependent jobs run only after an execution has succeeded, whichever crashes,
\* late results and clean-ups there are; and without faults they run at most once
\* for each result that ends a run, although every result that is handled while
\* the status is a success asks for it (grpc.go ExecutionDone, store.go
\* computeStatus).
THEOREM DependentsCorrect == Spec => []DependentsFollowResults
<1> DEFINE Follow == Inv /\ SuccessFirst /\ (faults = 0 => Undisturbed /\ DependentsOnce)
<1>1. Init => Follow
  <2> SUFFICES ASSUME Init PROVE Follow
    OBVIOUS
  <2>1. status # "success" /\ \A g \in Groups : chained[g] = 0
    BY DEF Init
  <2>2. SuccessFirst
    BY <2>1 DEF SuccessFirst
  <2>3. DependentsOnce
    <3>1. \A g \in Groups : {k \in Ends(g) : DoneWith(k)} \in SUBSET Keys
      BY DEF Ends
    <3>2. \A g \in Groups : Cardinality({k \in Ends(g) : DoneWith(k)}) \in Nat
      BY <3>1, KeysAreFinite
    <3> QED BY <2>1, <3>2 DEF DependentsOnce
  <2> QED BY <2>2, <2>3, InitInv, ExactInit
<1>2. Follow /\ [Next]_execVars => Follow'
  <2> SUFFICES ASSUME Follow, [Next]_execVars PROVE Follow'
    OBVIOUS
  <2>1. Inv' /\ SuccessFirst'
    BY NextInv, SuccessStaysFirst
  <2>2. ASSUME faults' = 0 PROVE Undisturbed' /\ DependentsOnce'
    <3>1. faults = 0
      BY <2>2, NoFaultBefore DEF Inv, Protocol
    <3>2. Protocol /\ Undisturbed /\ DependentsOnce
      BY <3>1 DEF Inv
    <3>3. Undisturbed'
      BY <2>2, <3>2, ExactNext
    <3>4. DependentsOnce'
      BY <2>2, <3>1, <3>2, DependentsStayOnce
    <3> QED BY <3>3, <3>4
  <2> QED BY <2>1, <2>2
<1>3. Follow => DependentsFollowResults
  <2> SUFFICES ASSUME Follow PROVE DependentsFollowResults
    OBVIOUS
  <2>1. (\E g \in Groups : chained[g] > 0) => \E k \in Keys : runs[k].state = "succeeded"
    BY DEF SuccessFirst
  <2>2. ASSUME faults = 0, NEW g \in Groups PROVE chained[g] <= Cardinality(Ends(g))
    <3>1. Ends(g) \in SUBSET Keys
      BY DEF Ends
    <3> DEFINE D == {k \in Ends(g) : DoneWith(k)}
    <3>2. D \in SUBSET Ends(g) /\ D \in SUBSET Keys
      BY <3>1
    <3>3. chained[g] <= Cardinality(D) /\ chained[g] \in Nat
      BY <2>2 DEF DependentsOnce, Inv, Protocol, TypeOK
    <3> HIDE DEF D
    <3>4. /\ IsFiniteSet(Ends(g)) /\ Cardinality(Ends(g)) \in Nat
          /\ Cardinality(D) \in Nat
      BY <3>1, <3>2, KeysAreFinite
    <3>5. Cardinality(D) <= Cardinality(Ends(g))
      BY <3>2, <3>4, FS_Subset
    <3> QED BY <3>3, <3>4, <3>5
  <2> QED BY <2>1, <2>2 DEF DependentsFollowResults
<1> HIDE DEF Follow
<1> QED BY <1>1, <1>2, <1>3, PTL DEF Spec

=============================================================================
