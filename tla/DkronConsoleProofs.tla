------------------------- MODULE DkronConsoleProofs -------------------------
(***************************************************************************)
(* What is proved of DkronConsole for all jobs, configurations, tokens and *)
(* pages, and whatever the bounds.                                         *)
(***************************************************************************)
EXTENDS DkronConsole, FiniteSetTheorems, TLAPS

-----------------------------------------------------------------------------
(* Pages and records *)

\* Every page shows components, only a job page has buttons.
LEMMA MountsFacts ==
  ASSUME NEW n
  PROVE  /\ Mounts(n) \subseteq Components
         /\ n \in ShowPages => Buttons \subseteq Mounts(n)
         /\ Mounts(n) \cap Buttons # {} => n \in ShowPages
         /\ "full" \in Mounts(n) => n = "executions"
  BY DEF Mounts, Components, Buttons, BulkButtons, Fetchers, ShowPages

\* The kinds of components and requests are apart.
LEMMA KindsDiffer ==
  /\ Buttons \cap BulkButtons = {} /\ Components \cap HookWrites = {}
  /\ Fetchers \cap Writes = {} /\ "full" \notin Writes /\ "full" \notin Fetchers
  /\ Buttons \subseteq Writes /\ BulkButtons \subseteq Writes /\ HookWrites \subseteq Writes
  /\ Writes \subseteq Components \cup HookWrites /\ Fetchers \subseteq Components
  /\ "idle" \notin Components \cup HookWrites
  BY DEF Components, Buttons, BulkButtons, Fetchers, HookWrites, Writes

\* A job nobody stored, and a new one, are well formed.
LEMMA NobodyIsEntry ==
  /\ Nobody \in Entries /\ Nobody.version = 0 /\ Nobody.job = NoJob
  /\ NewJob \in Records
  BY ConstantsAssumption DEF Nobody, Entries, NewJob, Records

\* A free slot holds no request.
LEMMA IdleIsNoRequest == Idle \notin RequestRecords
  BY KindsDiffer DEF Idle, RequestRecords

\* A query that is not under way is none that is.
LEMMA IdleIsNoQuery == Idle \notin QueryRecords
<1>1. DOMAIN Idle = {"kind"}
  BY DEF Idle
<1>2. \A q \in QueryRecords : "token" \in DOMAIN q
  BY DEF QueryRecords
<1> QED BY <1>1, <1>2

\* A request starts sent, and mounted when a component made it.
LEMMA RequestFacts ==
  ASSUME NEW kind \in Components \cup HookWrites, NEW job \in Jobs \cup {NoJob},
         NEW tok \in Tokens \cup {NoToken}, NEW base \in Entries, NEW before \in Entries
  PROVE  LET r == Request(kind, job, tok, base, before)
         IN /\ r \in RequestRecords /\ r.kind = kind /\ r.job = job /\ r.phase = "sent"
            /\ r.base = base
            /\ (kind \in Components => r.mounted) /\ (kind \notin Components => ~r.mounted)
<1> DEFINE up == kind \in Components
<1>1. up \in BOOLEAN
  OBVIOUS
<1> HIDE DEF up
<1>2. [kind |-> kind, job |-> job, token |-> tok, mounted |-> up,
       phase |-> "sent", base |-> base, before |-> before] \in RequestRecords
  BY <1>1 DEF RequestRecords
<1>3. Request(kind, job, tok, base, before)
        = [kind |-> kind, job |-> job, token |-> tok, mounted |-> up,
           phase |-> "sent", base |-> base, before |-> before]
  BY DEF Request, up
<1>4. [kind |-> kind, job |-> job, token |-> tok, mounted |-> up,
       phase |-> "sent", base |-> base, before |-> before].mounted = (kind \in Components)
  BY Zenon DEF up
<1>5. LET r == Request(kind, job, tok, base, before)
      IN (kind \in Components => r.mounted) /\ (kind \notin Components => ~r.mounted)
  BY <1>3, <1>4, Zenon
<1> QED BY <1>2, <1>3, <1>5

\* A query starts sent.
LEMMA QueryFacts ==
  ASSUME NEW tok \in Tokens \cup {NoToken}
  PROVE  Query(tok) \in QueryRecords /\ Query(tok).phase = "sent"
  BY NobodyIsEntry DEF Query, QueryRecords

-----------------------------------------------------------------------------
(* Requests take free slots *)

Queries == [Jobs -> QueryRecords \cup {Idle}]
Requests == [Slots -> RequestRecords \cup {Idle}]

\* A refetch replaces the queries it names and leaves the others alone.
LEMMA FetchedFacts ==
  ASSUME NEW qs \in Queries, NEW K, NEW tok \in Tokens \cup {NoToken}
  PROVE  /\ Fetched(qs, K, tok) \in Queries /\ Refetched(qs, K, tok) \in Queries
         /\ \A q \in Jobs : Refetched(qs, K, tok)[q] =
              IF q \in K /\ (qs[q] = Idle \/ cache[q].job # NoJob) THEN Query(tok) ELSE qs[q]
  BY QueryFacts DEF Fetched, Refetched, Queries

\* A smaller set has an injection into a larger one.
LEMMA Injections ==
  ASSUME NEW S, NEW T, IsFiniteSet(S), IsFiniteSet(T), Cardinality(S) <= Cardinality(T)
  PROVE  \E f \in [S -> T] : \A a, b \in S : a # b => f[a] # f[b]
<1> DEFINE m == Cardinality(S)
           n == Cardinality(T)
<1>1. m \in Nat /\ n \in Nat /\ m <= n
  BY FS_CardinalityType
<1>2. PICK g \in Bijection(1..m, S) : TRUE
  BY FS_CardinalityType DEF ExistsBijection
<1>3. PICK h \in Bijection(1..n, T) : TRUE
  BY FS_CardinalityType DEF ExistsBijection
<1> HIDE DEF m, n
<1>4. /\ g \in [1..m -> S] /\ (\A i, k \in 1..m : g[i] = g[k] => i = k)
      /\ \A x \in S : \E i \in 1..m : g[i] = x
  BY <1>2 DEF Bijection, Injection, Surjection, IsInjective
<1>5. h \in [1..n -> T] /\ (\A i, k \in 1..n : h[i] = h[k] => i = k)
  BY <1>3 DEF Bijection, Injection, Surjection, IsInjective
<1> DEFINE place(x) == CHOOSE i \in 1..m : g[i] = x
           f == [x \in S |-> h[place(x)]]
<1>6. \A x \in S : place(x) \in 1..m /\ g[place(x)] = x
  BY <1>4
<1>7. \A x \in S : place(x) \in 1..n
  BY <1>1, <1>6
<1> HIDE DEF place
<1>8. f \in [S -> T]
  BY <1>5, <1>7
<1>9. ASSUME NEW a \in S, NEW b \in S, f[a] = f[b] PROVE a = b
  BY <1>5, <1>6, <1>7, <1>9
<1> QED BY <1>8, <1>9

\* A slot is free or in use.
LEMMA SlotsFinite ==
  ASSUME NEW rs
  PROVE  /\ IsFiniteSet(Slots) /\ Cardinality(Slots) = MaxRequests
         /\ IsFiniteSet(InFlight(rs)) /\ IsFiniteSet(Free(rs))
         /\ Cardinality(InFlight(rs)) \in Nat
         /\ Cardinality(Free(rs)) = MaxRequests - Cardinality(InFlight(rs))
<1>1. IsFiniteSet(Slots) /\ Cardinality(Slots) = MaxRequests
  BY ConstantsAssumption, FS_Interval DEF Slots
<1>2. InFlight(rs) \subseteq Slots
  BY DEF InFlight
<1>3. IsFiniteSet(InFlight(rs)) /\ Cardinality(InFlight(rs)) \in Nat
  BY <1>1, <1>2, FS_Subset, FS_CardinalityType
<1>4. Slots \cap InFlight(rs) = InFlight(rs)
  BY <1>2
<1>5. IsFiniteSet(Free(rs)) /\ Cardinality(Free(rs)) = MaxRequests - Cardinality(InFlight(rs))
  BY <1>1, <1>4, FS_Difference DEF Free
<1> QED BY <1>1, <1>3, <1>5

\* Where the bound leaves room for n requests, there are slots for them.
LEMMA RoomIsFree ==
  ASSUME NEW rs, NEW qs, NEW n \in Nat, HasRoom(rs, qs, n)
  PROVE  n <= Cardinality(Free(rs))
<1>1. Cardinality({q \in Jobs : qs[q] # Idle}) \in Nat
  BY ConstantsAssumption, FS_Subset, FS_CardinalityType
<1> QED BY <1>1, SlotsFinite, ConstantsAssumption DEF HasRoom

\* Each request takes a free slot of its own, and no other slot changes.
LEMMA SentFacts ==
  ASSUME NEW rs \in Requests, NEW R \in SUBSET RequestRecords, IsFiniteSet(R),
         Cardinality(R) <= Cardinality(Free(rs))
  PROVE  /\ Sent(rs, R) \in Requests
         /\ \A s \in InFlight(rs) : Sent(rs, R)[s] = rs[s]
         /\ \A s \in Slots : Sent(rs, R)[s] = rs[s] \/ Sent(rs, R)[s] \in R
         /\ \A r \in R : \E s \in Free(rs) :
              Sent(rs, R)[s] = r /\ \A t \in Free(rs) : Sent(rs, R)[t] = r => t = s
<1> DEFINE place == CHOOSE f \in [R -> Free(rs)] : \A a, b \in R : a # b => f[a] # f[b]
           new == Sent(rs, R)
<1>1. \E f \in [R -> Free(rs)] : \A a, b \in R : a # b => f[a] # f[b]
  BY SlotsFinite, Injections
<1>2. place \in [R -> Free(rs)] /\ \A a, b \in R : a # b => place[a] # place[b]
  BY <1>1
<1>3. new = [s \in Slots |-> IF \E r \in R : place[r] = s
                               THEN CHOOSE r \in R : place[r] = s ELSE rs[s]]
  BY DEF Sent
<1> HIDE DEF place, new
<1>4. \A s \in Slots : new[s] = rs[s] \/ (new[s] \in R /\ place[new[s]] = s)
  BY <1>3
<1>5. \A s \in InFlight(rs) : s \in Slots /\ new[s] = rs[s]
  BY <1>2, <1>4 DEF InFlight, Free
<1>6. \A r \in R : place[r] \in Slots /\ new[place[r]] = r
  BY <1>2, <1>3 DEF Free
<1>7. ASSUME NEW r \in R, NEW t \in Free(rs), new[t] = r PROVE t = place[r]
  <2>1. t \in Slots /\ rs[t] = Idle
    BY DEF Free, InFlight
  <2>2. new[t] # rs[t]
    BY <1>7, <2>1, IdleIsNoRequest
  <2> QED BY <1>4, <1>7, <2>1, <2>2
<1>8. new \in Requests
  BY <1>3, <1>4 DEF Requests
<1>9. \A r \in R : place[r] \in Free(rs)
  BY <1>2
<1> QED BY <1>4, <1>5, <1>6, <1>7, <1>8, <1>9 DEF new

\* What is known of a request while page p is open: only a toggle or a run is
\* held between its read and its write, with the job it has read.
RequestOK(r, p) ==
  /\ r.mounted => r.kind \in Mounts(p.name)
  /\ r.kind \in Writes => r.job \in Jobs
  /\ r.phase = "holding" => r.kind \in Buttons \cup BulkButtons /\ r.base.job # NoJob

RequestsOK(rs, p) == rs \in Requests /\ \A s \in InFlight(rs) : RequestOK(rs[s], p)

\* A slot in use holds a request.
LEMMA InFlightFacts ==
  ASSUME NEW rs \in Requests
  PROVE  /\ \A s \in InFlight(rs) : s \in Slots /\ rs[s] \in RequestRecords /\ rs[s] # Idle
         /\ \A s \in Slots : rs[s] # Idle => s \in InFlight(rs)
  BY DEF InFlight, Requests

\* Leaving a page only unmounts requests, and drops aborted fetches.
LEMMA UnmountedFacts ==
  ASSUME NEW rs \in Requests, NEW kept
  PROVE  /\ Unmounted(rs, kept) \in Requests
         /\ \A s \in InFlight(Unmounted(rs, kept)) :
              LET r == Unmounted(rs, kept)[s]
              IN /\ s \in InFlight(rs) /\ r.kind = rs[s].kind /\ r.job = rs[s].job
                 /\ r.phase = rs[s].phase /\ r.base = rs[s].base /\ r.token = rs[s].token
                 /\ r.mounted => (rs[s].mounted /\ rs[s].kind \in kept)
                 /\ (rs[s].mounted /\ rs[s].kind \in kept) => r.mounted
         /\ \A s \in InFlight(rs) :
              rs[s].kind \notin {"stats", "full"} => s \in InFlight(Unmounted(rs, kept))
<1> DEFINE new == Unmounted(rs, kept)
           up(s) == rs[s].mounted /\ rs[s].kind \in kept
<1>1. \A s \in Slots : rs[s] # Idle => rs[s] \in RequestRecords
  BY DEF Requests
<1>2. \A s \in Slots : up(s) \in BOOLEAN
  OBVIOUS
<1>3. \A s \in Slots : new[s] = IF rs[s] = Idle \/ rs[s].kind \in {"stats", "full"} THEN Idle
                                ELSE [rs[s] EXCEPT !.mounted = up(s)]
  BY DEF Unmounted
<1>4. DOMAIN new = Slots /\ new = [s \in Slots |-> new[s]]
  BY DEF Unmounted
<1>5. ASSUME NEW r \in RequestRecords, NEW b \in BOOLEAN
      PROVE  LET q == [r EXCEPT !.mounted = b]
             IN /\ q \in RequestRecords /\ q.kind = r.kind /\ q.job = r.job /\ q.phase = r.phase
                /\ q.base = r.base /\ q.token = r.token /\ q.mounted = b
  BY DEF RequestRecords
<1> HIDE DEF new, up
<1>6. new \in Requests
  BY <1>1, <1>2, <1>3, <1>4, <1>5 DEF Requests
<1>7. \A s \in InFlight(new) :
        /\ s \in Slots /\ rs[s] # Idle /\ rs[s] \in RequestRecords
        /\ new[s] = [rs[s] EXCEPT !.mounted = up(s)]
  BY <1>1, <1>3 DEF InFlight
<1>8. ASSUME NEW s \in InFlight(new)
      PROVE  /\ s \in InFlight(rs) /\ new[s].kind = rs[s].kind /\ new[s].job = rs[s].job
             /\ new[s].phase = rs[s].phase /\ new[s].base = rs[s].base
             /\ new[s].token = rs[s].token /\ new[s].mounted = up(s)
  <2>1. /\ s \in InFlight(rs) /\ s \in Slots /\ rs[s] \in RequestRecords
        /\ new[s] = [rs[s] EXCEPT !.mounted = up(s)]
    BY <1>7 DEF InFlight
  <2>2. up(s) \in BOOLEAN
    BY <1>2, <2>1
  <2> DEFINE r == rs[s]
             b == up(s)
             q == [r EXCEPT !.mounted = b]
  <2> HIDE DEF r, b
  <2>3. /\ q.kind = r.kind /\ q.job = r.job /\ q.phase = r.phase
        /\ q.base = r.base /\ q.token = r.token /\ q.mounted = b
    BY <1>5, <2>1, <2>2 DEF r, b
  <2>4. new[s] = q
    BY <2>1 DEF r, b
  <2> HIDE DEF q
  <2> QED BY <2>1, <2>3, <2>4 DEF r, b
<1>9. ASSUME NEW s \in InFlight(rs), rs[s].kind \notin {"stats", "full"}
      PROVE  s \in InFlight(new)
  <2>1. s \in Slots /\ new[s] = [rs[s] EXCEPT !.mounted = up(s)] /\ rs[s] \in RequestRecords
    BY <1>1, <1>3, <1>9 DEF InFlight
  <2>2. new[s] \in RequestRecords
    BY <1>2, <1>5, <2>1
  <2> QED BY <2>1, <2>2, IdleIsNoRequest DEF InFlight
<1>10. \A s : up(s) <=> (rs[s].mounted /\ rs[s].kind \in kept)
  BY DEF up
<1>11. \A s \in InFlight(new) : /\ new[s].mounted => (rs[s].mounted /\ rs[s].kind \in kept)
                                /\ (rs[s].mounted /\ rs[s].kind \in kept) => new[s].mounted
  BY <1>8, <1>10, Zenon
<1> QED BY <1>6, <1>8, <1>9, <1>11 DEF new

\* The requests of a component that is mounted.
Single(S) == \E s : S = {s}
Those(R, c) == {r \in R : r.kind = c /\ r.mounted}
Mine(rs, c) == {s \in InFlight(rs) : rs[s].kind = c /\ rs[s].mounted}

\* Leaving a page unmounts the requests of each component it does not keep.
LEMMA MineUnmounted ==
  ASSUME NEW rs \in Requests, NEW kept, NEW c
  PROVE  Mine(Unmounted(rs, kept), c)
           = IF c \in kept /\ c \notin {"stats", "full"} THEN Mine(rs, c) ELSE {}
<1> DEFINE new == Unmounted(rs, kept)
<1>1. \A s \in InFlight(new) :
        /\ s \in InFlight(rs) /\ new[s].kind = rs[s].kind
        /\ new[s].mounted => (rs[s].mounted /\ rs[s].kind \in kept)
        /\ (rs[s].mounted /\ rs[s].kind \in kept) => new[s].mounted
        /\ rs[s].kind \notin {"stats", "full"}
  <2>1. \A s \in InFlight(new) : rs[s].kind \notin {"stats", "full"}
    BY DEF InFlight, Unmounted
  <2> QED BY <2>1, UnmountedFacts
<1>2. \A s \in InFlight(rs) : rs[s].kind \notin {"stats", "full"} => s \in InFlight(new)
  BY UnmountedFacts
<1> HIDE DEF new
<1>3. \A s : s \in Mine(new, c) <=>
             s \in Mine(rs, c) /\ c \in kept /\ c \notin {"stats", "full"}
  BY <1>1, <1>2 DEF Mine
<1> QED BY <1>3 DEF new

\* Sending adds to a component the requests that are its own, and no others.
LEMMA MineSent ==
  ASSUME NEW rs \in Requests, NEW R \in SUBSET RequestRecords, IsFiniteSet(R),
         Cardinality(R) <= Cardinality(Free(rs)), NEW c
  PROVE  /\ Mine(rs, c) \subseteq Mine(Sent(rs, R), c)
         /\ (\A r \in R : ~(r.kind = c /\ r.mounted)) => Mine(Sent(rs, R), c) = Mine(rs, c)
         /\ (\E r \in R : r.kind = c /\ r.mounted) => Mine(Sent(rs, R), c) # {}
<1> DEFINE new == Sent(rs, R)
<1>1. /\ new \in Requests
      /\ \A s \in InFlight(rs) : new[s] = rs[s]
      /\ \A s \in Slots : new[s] = rs[s] \/ new[s] \in R
      /\ \A r \in R : \E s \in Free(rs) : new[s] = r /\ \A t \in Free(rs) : new[t] = r => t = s
  BY SentFacts
<1> HIDE DEF new
<1>2. \A s \in InFlight(rs) : s \in InFlight(new)
  BY <1>1 DEF InFlight
<1>3. \A s \in InFlight(new) : s \in InFlight(rs) \/ (s \in Free(rs) /\ new[s] \in R)
  BY <1>1 DEF InFlight, Free
<1>4. \A s \in Free(rs) : new[s] \in R => s \in InFlight(new) /\ s \notin InFlight(rs)
  BY IdleIsNoRequest DEF InFlight, Free
<1>5. Mine(rs, c) \subseteq Mine(new, c)
  BY <1>1, <1>2 DEF Mine
<1>6. ASSUME \A r \in R : ~(r.kind = c /\ r.mounted) PROVE Mine(new, c) = Mine(rs, c)
  BY <1>1, <1>3, <1>5, <1>6 DEF Mine
<1>7. ASSUME NEW r \in R, r.kind = c, r.mounted PROVE Mine(new, c) # {}
  BY <1>1, <1>4, <1>7 DEF Mine
<1> QED BY <1>5, <1>6, <1>7 DEF new

\* The only request of a component that had none.
LEMMA MineIsOne ==
  ASSUME NEW rs \in Requests, NEW R \in SUBSET RequestRecords, IsFiniteSet(R),
         Cardinality(R) <= Cardinality(Free(rs)), NEW c, Mine(rs, c) = {},
         Single(Those(R, c))
  PROVE  Single(Mine(Sent(rs, R), c))
<1> DEFINE new == Sent(rs, R)
<1> PICK r : Those(R, c) = {r}
  BY DEF Single
<1>0. r \in R /\ r.kind = c /\ r.mounted /\ \A q \in R : q.kind = c /\ q.mounted => q = r
  BY DEF Those
<1>1. /\ new \in Requests
      /\ \A s \in InFlight(rs) : new[s] = rs[s]
      /\ \A s \in Slots : new[s] = rs[s] \/ new[s] \in R
      /\ \A q \in R : \E s \in Free(rs) : new[s] = q /\ \A t \in Free(rs) : new[t] = q => t = s
  BY SentFacts
<1> HIDE DEF new
<1>2. \A s \in InFlight(new) : s \in InFlight(rs) \/ (s \in Free(rs) /\ new[s] \in R)
  BY <1>1 DEF InFlight, Free
<1>3. PICK s \in Free(rs) : new[s] = r /\ \A t \in Free(rs) : new[t] = r => t = s
  BY <1>0, <1>1
<1>4. s \in Mine(new, c)
  BY <1>0, <1>3, IdleIsNoRequest DEF Mine, InFlight, Free
<1>5. ASSUME NEW t \in Mine(new, c) PROVE t = s
  <2>1. t \in InFlight(new) /\ new[t].kind = c /\ new[t].mounted
    BY <1>5 DEF Mine
  <2>2. t \notin InFlight(rs)
    BY <1>1, <2>1 DEF Mine
  <2>3. t \in Free(rs) /\ new[t] \in R
    BY <1>2, <2>1, <2>2
  <2> QED BY <1>0, <1>3, <2>1, <2>3
<1>6. Mine(new, c) = {s}
  BY <1>4, <1>5
<1> QED BY <1>6 DEF new, Single

-----------------------------------------------------------------------------
(* Types *)

ServerTypes ==
  /\ stored \in [Jobs -> Entries] /\ local \in [Jobs -> Entries]
  /\ behind \in Seq(Jobs \X Entries) /\ Len(behind) <= MaxLag
  /\ accepted \subseteq Tokens

TabTypes ==
  /\ token \in Tokens \cup {NoToken} /\ page \in Places \cup {At("login", NoJob)}
  /\ waiting \subseteq Mounts(page.name)
  /\ cache \in [Jobs -> Entries] /\ form \in Entries /\ own \in [Jobs -> Nat]
  /\ queries \in Queries /\ RequestsOK(requests, page)

\* What waits for the end of the undo is a save or a delete of a job.
PendingTypes ==
  /\ pending \in RequestRecords \cup {Idle}
  /\ pending # Idle => /\ pending.kind \in {"put", "delete"} /\ pending.job \in Jobs
                       /\ ~pending.mounted /\ pending.phase = "sent"

TypeInv == ServerTypes /\ TabTypes /\ PendingTypes

\* The types of the proof give those the run checks.
LEMMA TypesAreOK ==
  ASSUME TypeInv
  PROVE  TypeOK
  BY DEF TypeInv, ServerTypes, TabTypes, PendingTypes, TypeOK, RequestsOK, RequestOK, Requests, Queries

\* A job page is open at a job.
LEMMA PlaceFacts ==
  ASSUME NEW p \in Places \cup {At("login", NoJob)}
  PROVE  p.job \in Jobs \cup {NoJob} /\ (p.name \in JobPages => p.job \in Jobs)
  BY DEF Places, At, JobPages, ShowPages

\* What the types say of the values the tab reads.
LEMMA TypeFacts ==
  ASSUME TypeInv
  PROVE  /\ RequestsOK(requests, page) /\ queries \in Queries /\ requests \in Requests
         /\ page.job \in Jobs \cup {NoJob} /\ (page.name \in JobPages => page.job \in Jobs)
         /\ token \in Tokens \cup {NoToken} /\ form \in Entries
         /\ cache \in [Jobs -> Entries] /\ stored \in [Jobs -> Entries]
         /\ local \in [Jobs -> Entries]
<1>1. RequestsOK(requests, page) /\ queries \in Queries /\ requests \in Requests
  BY DEF TypeInv, TabTypes, RequestsOK
<1>2. page \in Places \cup {At("login", NoJob)}
  BY DEF TypeInv, TabTypes
<1> QED BY <1>1, <1>2, PlaceFacts DEF TypeInv, TabTypes, ServerTypes

\* Requests that belong to page p stay so when more of them are sent.
LEMMA SentTypes ==
  ASSUME NEW p, NEW rs, RequestsOK(rs, p), NEW R \in SUBSET RequestRecords, IsFiniteSet(R),
         Cardinality(R) <= Cardinality(Free(rs)),
         \A r \in R : /\ r.mounted => r.kind \in Mounts(p.name)
                      /\ r.kind \in Writes => r.job \in Jobs
                      /\ r.phase = "sent"
  PROVE  RequestsOK(Sent(rs, R), p)
<1> DEFINE new == Sent(rs, R)
<1>1. /\ new \in Requests
      /\ \A s \in Slots : new[s] = rs[s] \/ new[s] \in R
  BY SentFacts DEF RequestsOK
<1> HIDE DEF new
<1>2. ASSUME NEW s \in InFlight(new) PROVE RequestOK(new[s], p)
  <2>1. s \in Slots /\ new[s] # Idle
    BY DEF InFlight
  <2>2. CASE new[s] = rs[s]
    <3>1. s \in InFlight(rs)
      BY <2>1, <2>2 DEF InFlight
    <3> QED BY <2>2, <3>1 DEF RequestsOK
  <2>3. CASE new[s] \in R
    BY <2>3 DEF RequestOK
  <2> QED BY <1>1, <2>1, <2>2, <2>3
<1> QED BY <1>1, <1>2 DEF RequestsOK, new

\* The components that a page mounts and that fetch: their requests.
New(p) == Mounts(p.name) \cap Fetchers
NewRequests(p, tok) == {Request(c, NoJob, tok, Nobody, Nobody) : c \in New(p)}

\* A page sends one request for each component that fetches for itself.
LEMMA NewFacts ==
  ASSUME NEW p, NEW tok \in Tokens \cup {NoToken}
  PROVE  /\ IsFiniteSet(New(p)) /\ Cardinality(New(p)) \in Nat
         /\ IsFiniteSet(NewRequests(p, tok))
         /\ Cardinality(NewRequests(p, tok)) <= Cardinality(New(p))
         /\ NewRequests(p, tok) \subseteq RequestRecords
         /\ \A r \in NewRequests(p, tok) :
              /\ r.kind \in New(p) /\ r.mounted /\ r.phase = "sent"
              /\ r = Request(r.kind, NoJob, tok, Nobody, Nobody)
         /\ \A c \in New(p) : Request(c, NoJob, tok, Nobody, Nobody).kind = c
<1>1. IsFiniteSet({"stats", "diagram"})
  <2>1. IsFiniteSet({"stats"})
    BY FS_Singleton
  <2>2. {"stats", "diagram"} = {"stats"} \cup {"diagram"}
    OBVIOUS
  <2> QED BY <2>1, <2>2, FS_AddElement
<1>2. IsFiniteSet(New(p)) /\ Cardinality(New(p)) \in Nat
  BY <1>1, FS_Intersection, FS_CardinalityType DEF New, Fetchers
<1>3. \A c \in New(p) : /\ c \in Components /\ c \in Components \cup HookWrites
  BY DEF New, Fetchers, Components
<1>4. ASSUME NEW c \in New(p)
      PROVE  LET r == Request(c, NoJob, tok, Nobody, Nobody)
             IN r \in RequestRecords /\ r.kind = c /\ r.mounted /\ r.phase = "sent"
  BY <1>3, NobodyIsEntry, RequestFacts
<1> DEFINE f == [c \in New(p) |-> Request(c, NoJob, tok, Nobody, Nobody)]
<1>5. f \in Surjection(New(p), NewRequests(p, tok))
  BY DEF Surjection, NewRequests
<1>6. IsFiniteSet(NewRequests(p, tok)) /\ Cardinality(NewRequests(p, tok)) <= Cardinality(New(p))
  BY <1>2, <1>5, FS_Surjection
<1>7. /\ NewRequests(p, tok) \subseteq RequestRecords
      /\ \A r \in NewRequests(p, tok) :
           /\ r.kind \in New(p) /\ r.mounted /\ r.phase = "sent"
           /\ r = Request(r.kind, NoJob, tok, Nobody, Nobody)
  BY <1>4 DEF NewRequests
<1> QED BY <1>2, <1>4, <1>6, <1>7

\* The components that stay mounted are the buttons of a job.
LEMMA KeptFacts ==
  ASSUME NEW p, NEW kept \in Kept(p)
  PROVE  kept \subseteq Buttons /\ kept \subseteq Mounts(p.name)
<1>1. CASE page.name \in ShowPages /\ p.name \in ShowPages
  <2>1. Buttons \subseteq Mounts(p.name)
    BY <1>1, MountsFacts
  <2> QED BY <1>1, <2>1 DEF Kept
<1>2. CASE ~(page.name \in ShowPages /\ p.name \in ShowPages)
  BY <1>2 DEF Kept
<1> QED BY <1>1, <1>2

\* Opening a page sends the requests of its components, into free slots.
LEMMA MountFacts ==
  ASSUME TypeInv, NEW p, NEW kept \in SUBSET Buttons, NEW qs \in Queries,
         NEW tok \in Tokens \cup {NoToken}, Mount(p, kept, requests, qs, tok)
  PROVE  /\ requests' = Sent(Unmounted(requests, kept), NewRequests(p, tok))
         /\ Unmounted(requests, kept) \in Requests
         /\ Cardinality(NewRequests(p, tok)) <= Cardinality(Free(Unmounted(requests, kept)))
<1>1. requests' = Sent(Unmounted(requests, kept), NewRequests(p, tok))
  BY DEF Mount, NewRequests, New
<1>2. Unmounted(requests, kept) \in Requests
  BY TypeFacts, UnmountedFacts
<1>3. HasRoom(Unmounted(requests, kept), Fetched(qs, QueriesOf(p) \
          (IF kept # {} /\ p.job = page.job THEN QueriesOf(page) ELSE {}), tok), Cardinality(New(p)))
  BY DEF Mount, New
<1>4. Cardinality(New(p)) <= Cardinality(Free(Unmounted(requests, kept)))
  BY <1>3, NewFacts, RoomIsFree
<1>5. Cardinality(Free(Unmounted(requests, kept))) \in Nat /\ Cardinality(NewRequests(p, tok)) \in Nat
  BY SlotsFinite, NewFacts, FS_CardinalityType
<1> QED BY <1>1, <1>2, <1>4, <1>5, NewFacts

\* Opening a page keeps the types of what the tab holds.
LEMMA MountTypes ==
  ASSUME TypeInv, NEW p \in Places \cup {At("login", NoJob)},
         NEW kept \in SUBSET Buttons, kept \subseteq Mounts(p.name), NEW qs \in Queries,
         NEW tok \in Tokens \cup {NoToken}, Mount(p, kept, requests, qs, tok)
  PROVE  /\ page' = p /\ waiting' \subseteq Mounts(p.name) /\ own' \in [Jobs -> Nat]
         /\ form' \in Entries /\ queries' \in Queries /\ RequestsOK(requests', p)
<1> DEFINE left == Unmounted(requests, kept)
           R == NewRequests(p, tok)
<1>1. page' = p /\ waiting' \subseteq Mounts(p.name) /\ own' \in [Jobs -> Nat]
  BY DEF Mount
<1>2. form' \in Entries
  <2>1. p.name = "edit" => p.job \in Jobs
    BY DEF Places, At, JobPages
  <2> QED BY <2>1, TypeFacts, NobodyIsEntry DEF Mount
<1>3. queries' \in Queries
  BY FetchedFacts DEF Mount
<1>4. /\ requests' = Sent(left, R) /\ left \in Requests /\ R \subseteq RequestRecords
      /\ IsFiniteSet(R) /\ Cardinality(R) <= Cardinality(Free(left))
  BY MountFacts, NewFacts
<1>5. \A r \in R : r.kind \in Mounts(p.name) /\ r.kind \notin Writes /\ r.phase = "sent"
  BY NewFacts, KindsDiffer DEF New
<1>6. ASSUME NEW s \in InFlight(left) PROVE RequestOK(left[s], p)
  <2>1. /\ s \in InFlight(requests) /\ left[s].kind = requests[s].kind
        /\ left[s].job = requests[s].job /\ left[s].phase = requests[s].phase
        /\ left[s].base = requests[s].base
        /\ left[s].mounted => (requests[s].mounted /\ requests[s].kind \in kept)
    BY TypeFacts, UnmountedFacts
  <2>2. /\ requests[s].kind \in Writes => requests[s].job \in Jobs
        /\ requests[s].kind \in kept => requests[s].kind \in Mounts(p.name)
        /\ requests[s].phase = "holding" =>
             requests[s].kind \in Buttons \cup BulkButtons /\ requests[s].base.job # NoJob
    BY <2>1, TypeFacts DEF RequestsOK, RequestOK
  <2>3. left[s].mounted => left[s].kind \in Mounts(p.name)
    BY <2>1, <2>2
  <2>4. /\ left[s].kind \in Writes => left[s].job \in Jobs
        /\ left[s].phase = "holding" =>
             left[s].kind \in Buttons \cup BulkButtons /\ left[s].base.job # NoJob
    BY <2>1, <2>2
  <2> QED BY <2>3, <2>4, Zenon DEF RequestOK
<1> HIDE DEF left, R
<1>7. RequestsOK(left, p)
  BY <1>4, <1>6 DEF RequestsOK
<1>8. RequestsOK(requests', p)
  BY <1>4, <1>5, <1>7, SentTypes
<1> QED BY <1>1, <1>2, <1>3, <1>8

\* An answer frees its slot and no other.
LEMMA GoneFacts ==
  ASSUME NEW p, RequestsOK(requests, p), NEW s \in Slots
  PROVE  /\ RequestsOK(Gone(s), p)
         /\ \A t \in InFlight(Gone(s)) : t \in InFlight(requests) /\ t # s /\ Gone(s)[t] = requests[t]
         /\ \A t \in InFlight(requests) : t # s => t \in InFlight(Gone(s))
<1>1. Gone(s) \in Requests /\ \A t \in Slots : Gone(s)[t] = IF t = s THEN Idle ELSE requests[t]
  BY DEF Gone, RequestsOK, Requests
<1> QED BY <1>1 DEF InFlight, RequestsOK

\* Logging out leaves the login page without spinners.
LEMMA LoggedOutTypes ==
  ASSUME TypeInv, NEW rs, RequestsOK(rs, page), LoggedOut(rs)
  PROVE  /\ page' = At("login", NoJob) /\ waiting' = {} /\ own' \in [Jobs -> Nat]
         /\ form' \in Entries /\ queries' \in Queries /\ RequestsOK(requests', page')
         /\ token' \in Tokens \cup {NoToken} /\ cache' \in [Jobs -> Entries]
<1>1. rs \in Requests /\ requests' = Unmounted(rs, {})
  BY DEF RequestsOK, LoggedOut
<1>2. \A s \in InFlight(requests') :
        /\ s \in InFlight(rs) /\ requests'[s].kind = rs[s].kind
        /\ requests'[s].job = rs[s].job /\ requests'[s].phase = rs[s].phase
        /\ requests'[s].base = rs[s].base /\ (requests'[s].mounted => FALSE)
  BY <1>1, UnmountedFacts
<1>3. requests' \in Requests
  BY <1>1, UnmountedFacts
<1>4. ASSUME NEW s \in InFlight(requests') PROVE RequestOK(requests'[s], page')
  <2>1. /\ requests'[s].kind \in Writes => requests'[s].job \in Jobs
        /\ requests'[s].phase = "holding" =>
             requests'[s].kind \in Buttons \cup BulkButtons /\ requests'[s].base.job # NoJob
    BY <1>2 DEF RequestsOK, RequestOK
  <2>2. requests'[s].mounted => requests'[s].kind \in Mounts(page'.name)
    BY <1>2, Zenon
  <2> QED BY <2>1, <2>2, Zenon DEF RequestOK
<1>5. RequestsOK(requests', page')
  BY <1>3, <1>4, Zenon DEF RequestsOK
<1> QED BY <1>5, NobodyIsEntry DEF LoggedOut, Queries

\* A press sends its requests into free slots and keeps the types of the tab.
LEMMA PressFacts ==
  ASSUME TypeInv, NEW b, NEW R \in SUBSET RequestRecords, IsFiniteSet(R), Press(b, R),
         \A r \in R : r.kind = b /\ r.phase = "sent" /\ (r.kind \in Writes => r.job \in Jobs)
  PROVE  /\ Cardinality(R) <= Cardinality(Free(requests)) /\ requests' = Sent(requests, R)
         /\ TabTypes'
<1>1. Cardinality(R) <= Cardinality(Free(requests)) /\ requests' = Sent(requests, R)
  BY RoomIsFree, FS_CardinalityType DEF Press
<1>2. b \in Mounts(page.name)
  BY DEF Press
<1>3. RequestsOK(requests', page)
  BY <1>1, <1>2, TypeFacts, SentTypes
<1> QED BY <1>1, <1>2, <1>3 DEF Press, TypeInv, TabTypes, tabVars

\* A write changes one job of the leader, and the server has yet to apply it.
LEMMA CommitFacts ==
  ASSUME TypeInv, NEW j \in Jobs, NEW r \in Records \cup {NoJob}, Commit(j, r)
  PROVE  /\ ServerTypes' /\ stored'[j] \in Entries
         /\ stored'[j].job = r /\ stored'[j].version = stored[j].version + 1
         /\ \A i \in Jobs : i # j => stored'[i] = stored[i]
         /\ behind' = Append(behind, <<j, stored'[j]>>) /\ local' = local
<1> DEFINE e == [job |-> r, version |-> stored[j].version + 1]
<1>1. stored \in [Jobs -> Entries] /\ stored[j].version \in Nat
  BY TypeFacts DEF Entries
<1>2. e \in Entries /\ e.job = r /\ e.version = stored[j].version + 1
  BY <1>1 DEF Entries
<1>3. /\ stored' = [stored EXCEPT ![j] = e] /\ behind' = Append(behind, <<j, e>>)
      /\ Len(behind) < MaxLag /\ local' = local /\ accepted' = accepted
  BY DEF Commit
<1> HIDE DEF e
<1>4. behind \in Seq(Jobs \X Entries) /\ <<j, e>> \in Jobs \X Entries
  BY <1>2 DEF TypeInv, ServerTypes
<1>5. behind' \in Seq(Jobs \X Entries) /\ Len(behind') = Len(behind) + 1 /\ Len(behind) \in Nat
  BY <1>3, <1>4
<1>6. stored' \in [Jobs -> Entries] /\ stored'[j] = e
  BY <1>1, <1>2, <1>3
<1>7. \A i \in Jobs : i # j => stored'[i] = stored[i]
  BY <1>1, <1>3
<1>8. ServerTypes'
  BY <1>3, <1>5, <1>6, ConstantsAssumption DEF TypeInv, ServerTypes
<1> QED BY <1>2, <1>3, <1>6, <1>7, <1>8

\* The answer to a request changes its phase and its copy, and nothing else.
LEMMA BecomesFacts ==
  ASSUME TypeInv, NEW s \in Slots, requests[s] # Idle, NEW phase \in {"holding", "answered"},
         NEW base \in Entries, Becomes(s, phase, base),
         phase = "holding" => requests[s].kind \in Buttons \cup BulkButtons /\ base.job # NoJob
  PROVE  /\ RequestsOK(requests', page)
         /\ \A t \in Slots : t # s => requests'[t] = requests[t]
         /\ requests'[s] # Idle /\ requests'[s].kind = requests[s].kind
         /\ requests'[s].job = requests[s].job /\ requests'[s].phase = phase
         /\ requests'[s].base = base /\ requests'[s].before = requests[s].before
         /\ requests'[s].mounted => requests[s].mounted
         /\ requests[s].mounted => requests'[s].mounted
<1>1. ASSUME NEW r \in RequestRecords
      PROVE  LET q == [r EXCEPT !.phase = phase, !.base = base]
             IN /\ q \in RequestRecords /\ q.kind = r.kind /\ q.job = r.job /\ q.phase = phase
                /\ q.base = base /\ q.before = r.before
                /\ (q.mounted => r.mounted) /\ (r.mounted => q.mounted)
  BY DEF RequestRecords
<1> DEFINE r == requests[s]
           q == [r EXCEPT !.phase = phase, !.base = base]
<1>2. requests \in Requests /\ requests[s] \in RequestRecords
  BY TypeFacts DEF Requests
<1>3. requests' = [requests EXCEPT ![s] = q]
  BY <1>2 DEF Becomes, Requests
<1> HIDE DEF r, q
<1>4. /\ q \in RequestRecords /\ q.kind = r.kind /\ q.job = r.job /\ q.phase = phase
      /\ q.base = base /\ q.before = r.before
      /\ (q.mounted => r.mounted) /\ (r.mounted => q.mounted)
  BY <1>1, <1>2 DEF q, r
<1>5. requests' \in Requests /\ requests'[s] = q
  BY <1>2, <1>3, <1>4 DEF Requests
<1>6. \A t \in Slots : t # s => requests'[t] = requests[t]
  BY <1>2, <1>3 DEF Requests
<1>7. q # Idle
  BY <1>4, IdleIsNoRequest
<1>8. RequestsOK(requests, page) /\ s \in InFlight(requests)
  BY <1>2, TypeFacts, IdleIsNoRequest DEF InFlight
<1>9. RequestOK(q, page)
  BY <1>4, <1>8 DEF RequestsOK, RequestOK, r
<1>10. ASSUME NEW t \in InFlight(requests') PROVE RequestOK(requests'[t], page)
  <2>1. CASE t = s
    BY <1>5, <1>9, <2>1
  <2>2. CASE t # s
    <3>1. t \in InFlight(requests) /\ requests'[t] = requests[t]
      BY <1>6, <2>2 DEF InFlight
    <3> QED BY <1>8, <3>1 DEF RequestsOK
  <2> QED BY <2>1, <2>2
<1>11. RequestsOK(requests', page)
  BY <1>5, <1>10 DEF RequestsOK
<1> QED BY <1>4, <1>5, <1>6, <1>7, <1>11 DEF r

\* The types of the servers depend on nothing else.
LEMMA ServerStays ==
  ASSUME TypeInv, UNCHANGED serverVars
  PROVE  ServerTypes'
  BY DEF TypeInv, ServerTypes, serverVars

\* The types of a waiting change depend on nothing else.
LEMMA PendingStays ==
  ASSUME TypeInv, UNCHANGED pending
  PROVE  PendingTypes'
  BY DEF TypeInv, PendingTypes

\* Opening a page keeps the types of the whole tab.
LEMMA MountTabs ==
  ASSUME TypeInv, NEW p \in Places \cup {At("login", NoJob)},
         NEW kept \in SUBSET Buttons, kept \subseteq Mounts(p.name), NEW qs \in Queries,
         NEW tok \in Tokens \cup {NoToken}, Mount(p, kept, requests, qs, tok),
         token' = tok, cache' \in [Jobs -> Entries]
  PROVE  TabTypes'
  BY MountTypes DEF TabTypes

\* The list of jobs is a page.
LEMMA JobsPageFacts == JobsPage \in Places \cup {At("login", NoJob)} /\ JobsPage.job = NoJob
  BY DEF JobsPage, Places, At

\* The tab starts well formed.
LEMMA InitTypes == Init => TypeInv
<1> SUFFICES ASSUME Init PROVE TypeInv
  OBVIOUS
<1>1. [job |-> NewJob, version |-> 0] \in Entries
  BY NobodyIsEntry DEF Entries
<1>2. stored \in [Jobs -> Entries] /\ local \in [Jobs -> Entries]
  BY <1>1 DEF Init
<1>3. behind \in Seq(Jobs \X Entries) /\ Len(behind) <= MaxLag
  BY ConstantsAssumption DEF Init
<1>4. ServerTypes
  BY <1>2, <1>3 DEF Init, ServerTypes
<1>5. requests \in Requests /\ InFlight(requests) = {}
  BY DEF Init, Requests, InFlight
<1>6. TabTypes
  BY <1>5, NobodyIsEntry DEF Init, TabTypes, RequestsOK, Queries
<1>7. PendingTypes
  BY DEF Init, PendingTypes
<1> QED BY <1>4, <1>6, <1>7 DEF TypeInv

\* Opening pages, signing in and out keep the types.
LEMMA UserTypes ==
  ASSUME TypeInv,
         \/ \E p \in Places : Open(p)
         \/ \E t \in Tokens : SignIn(t)
         \/ SignOut
  PROVE  TypeInv'
<1>1. ASSUME NEW p \in Places, Open(p) PROVE TypeInv'
  <2>1. PICK kept \in Kept(p) : Mount(p, kept, requests, queries, token)
    BY <1>1 DEF Open
  <2>2. kept \in SUBSET Buttons /\ kept \subseteq Mounts(p.name)
    BY KeptFacts
  <2>3. token' = token /\ cache' \in [Jobs -> Entries] /\ UNCHANGED <<serverVars, pending>>
    BY <1>1, TypeFacts DEF Open
  <2>4. TabTypes'
    BY <2>1, <2>2, <2>3, TypeFacts, MountTabs
  <2> QED BY <2>3, <2>4, ServerStays, PendingStays DEF TypeInv
<1>2. ASSUME NEW t \in Tokens, SignIn(t) PROVE TypeInv'
  <2>1. At("dashboard", NoJob) \in Places \cup {At("login", NoJob)}
    BY DEF Places
  <2>2. /\ Mount(At("dashboard", NoJob), {}, requests, queries, t) /\ t \in Tokens \cup {NoToken}
        /\ token' = t /\ cache' \in [Jobs -> Entries] /\ UNCHANGED <<serverVars, pending>>
    BY <1>2, TypeFacts DEF SignIn
  <2>3. {} \in SUBSET Buttons /\ {} \subseteq Mounts(At("dashboard", NoJob).name)
    OBVIOUS
  <2>4. TabTypes'
    BY <2>1, <2>2, <2>3, TypeFacts, MountTabs
  <2> QED BY <2>2, <2>4, ServerStays, PendingStays DEF TypeInv
<1>3. ASSUME SignOut PROVE TypeInv'
  <2>1. LoggedOut(requests) /\ UNCHANGED <<serverVars, pending>>
    BY <1>3 DEF SignOut
  <2>2. TabTypes'
    BY <2>1, TypeFacts, LoggedOutTypes DEF TabTypes
  <2> QED BY <2>1, <2>2, ServerStays, PendingStays DEF TypeInv
<1> QED BY <1>1, <1>2, <1>3

\* The requests of a button that is pressed.
LEMMA ButtonRequests ==
  ASSUME TypeInv, NEW b \in Components, NEW J \in SUBSET (Jobs \cup {NoJob}), IsFiniteSet(J),
         b \in Writes => J \subseteq Jobs
  PROVE  LET R == {Request(b, j, token, Nobody, Nobody) : j \in J}
         IN /\ R \subseteq RequestRecords /\ IsFiniteSet(R)
            /\ \A r \in R : /\ r.kind = b /\ r.mounted /\ r.phase = "sent" /\ r.job \in J
                            /\ r.kind \in Writes => r.job \in Jobs
            /\ \A r \in R : \E j \in J : r = Request(b, j, token, Nobody, Nobody)
            /\ J # {} => R # {}
<1> DEFINE R == {Request(b, j, token, Nobody, Nobody) : j \in J}
<1>1. b \in Components \cup HookWrites /\ token \in Tokens \cup {NoToken}
  BY TypeFacts
<1>2. ASSUME NEW j \in J
      PROVE  LET r == Request(b, j, token, Nobody, Nobody)
             IN r \in RequestRecords /\ r.kind = b /\ r.job = j /\ r.mounted /\ r.phase = "sent"
  BY <1>1, NobodyIsEntry, RequestFacts
<1>3. IsFiniteSet(R)
  <2> DEFINE f == [j \in J |-> Request(b, j, token, Nobody, Nobody)]
  <2>1. f \in Surjection(J, R)
    BY DEF Surjection
  <2> QED BY <2>1, FS_Surjection
<1>4. \A r \in R : \E j \in J : r = Request(b, j, token, Nobody, Nobody)
  OBVIOUS
<1>5. J # {} => R # {}
  OBVIOUS
<1> HIDE DEF R
<1>6. /\ R \subseteq RequestRecords
      /\ \A r \in R : /\ r.kind = b /\ r.mounted /\ r.phase = "sent" /\ r.job \in J
                      /\ r.kind \in Writes => r.job \in Jobs
  BY <1>2, <1>4
<1> QED BY <1>3, <1>4, <1>5, <1>6 DEF R

\* A button that is pressed sends a request of its own, the bulk buttons one
\* for each job.
Pressed ==
  \/ \E b \in Buttons : PressButton(b)
  \/ \E b \in BulkButtons, S \in SUBSET Jobs : PressBulk(b, S)
  \/ LoadFull

PressOf(b, R) ==
  /\ Press(b, R) /\ R \in SUBSET RequestRecords /\ IsFiniteSet(R) /\ R # {}
  /\ \A r \in R : /\ r.kind = b /\ r.mounted /\ r.phase = "sent"
                  /\ r.kind \in Writes => r.job \in Jobs
  /\ b \notin BulkButtons => \A q, r \in R : q = r

\* Whatever is pressed or loaded sends a finite set of requests of one component.
LEMMA PressedFacts ==
  ASSUME TypeInv, Pressed
  PROVE  \E b \in Components : \E R : PressOf(b, R)
<1>1. ASSUME NEW b \in Components, NEW J \in SUBSET (Jobs \cup {NoJob}), IsFiniteSet(J), J # {},
             b \in Writes => J \subseteq Jobs, b \notin BulkButtons => \E x : J = {x},
             Press(b, {Request(b, j, token, Nobody, Nobody) : j \in J})
      PROVE  \E R : PressOf(b, R)
  <2> DEFINE R == {Request(b, j, token, Nobody, Nobody) : j \in J}
  <2>1. /\ R \in SUBSET RequestRecords /\ IsFiniteSet(R) /\ R # {}
        /\ \A r \in R : /\ r.kind = b /\ r.mounted /\ r.phase = "sent"
                        /\ r.kind \in Writes => r.job \in Jobs
    BY <1>1, ButtonRequests
  <2>2. b \notin BulkButtons => \A q, r \in R : q = r
    BY <1>1
  <2>3. Press(b, R)
    BY <1>1
  <2> HIDE DEF R
  <2> QED BY <2>1, <2>2, <2>3 DEF PressOf
<1>2. ASSUME NEW b \in Buttons, PressButton(b) PROVE \E R : PressOf(b, R)
  <2>1. page.job \in Jobs /\ b \in Components
    BY <1>2, TypeFacts DEF PressButton, JobPages, Components
  <2>2. Press(b, {Request(b, j, token, Nobody, Nobody) : j \in {page.job}})
    <3>1. {Request(b, page.job, token, Nobody, Nobody)}
            = {Request(b, j, token, Nobody, Nobody) : j \in {page.job}}
      OBVIOUS
    <3> QED BY <1>2, <3>1 DEF PressButton
  <2>3. {page.job} \in SUBSET (Jobs \cup {NoJob}) /\ {page.job} \subseteq Jobs /\ IsFiniteSet({page.job})
    BY <2>1, FS_Singleton
  <2> QED BY <1>1, <2>1, <2>2, <2>3
<1>3. ASSUME NEW b \in BulkButtons, NEW S \in SUBSET Jobs, PressBulk(b, S) PROVE \E R : PressOf(b, R)
  <2>1. IsFiniteSet(S) /\ b \in Components /\ S \in SUBSET (Jobs \cup {NoJob}) /\ S # {}
    BY <1>3, ConstantsAssumption, FS_Subset DEF Components, PressBulk
  <2> QED BY <1>1, <1>3, <2>1 DEF PressBulk
<1>4. ASSUME LoadFull PROVE \E R : PressOf("full", R)
  <2>1. page.job \in Jobs \cup {NoJob} /\ "full" \in Components /\ "full" \notin Writes
    BY TypeFacts, KindsDiffer DEF Components
  <2>2. Press("full", {Request("full", j, token, Nobody, Nobody) : j \in {page.job}})
    <3>1. {Request("full", page.job, token, Nobody, Nobody)}
            = {Request("full", j, token, Nobody, Nobody) : j \in {page.job}}
      OBVIOUS
    <3> QED BY <1>4, <3>1 DEF LoadFull
  <2>3. {page.job} \in SUBSET (Jobs \cup {NoJob}) /\ IsFiniteSet({page.job}) /\ {page.job} # {}
    BY <2>1, FS_Singleton
  <2> QED BY <1>1, <2>1, <2>2, <2>3
<1> QED BY <1>2, <1>3, <1>4 DEF Pressed, Components

\* Presses keep the types.
LEMMA PressTypes ==
  ASSUME TypeInv, Pressed
  PROVE  TypeInv'
<1>b. PICK b \in Components : \E R : PressOf(b, R)
  BY PressedFacts
<1>1. PICK R : PressOf(b, R)
  BY <1>b
<1>2. TabTypes'
  BY <1>1, PressFacts DEF PressOf
<1> QED BY <1>1, <1>2, ServerStays, PendingStays DEF PressOf, Press, TypeInv

\* One request is sent.
LEMMA SendTypes ==
  ASSUME TypeInv, NEW r \in RequestRecords, ~r.mounted, r.kind \in Writes => r.job \in Jobs, r.phase = "sent",
         1 <= Cardinality(Free(requests)), requests' = Sent(requests, {r}),
         UNCHANGED <<serverVars, tabVars, queries, own>>, PendingTypes'
  PROVE  TypeInv'
<1>1. IsFiniteSet({r}) /\ Cardinality({r}) = 1 /\ {r} \in SUBSET RequestRecords
  BY FS_Singleton
<1>2. RequestsOK(requests, page)
  BY TypeFacts
<1>3. RequestsOK(requests', page)
  BY <1>1, <1>2, SentTypes
<1>4. TabTypes'
  BY <1>3 DEF TypeInv, TabTypes, tabVars
<1> QED BY <1>4, ServerStays DEF TypeInv

\* What an edit puts into a job's copy.
LEMMA EditedFacts ==
  ASSUME NEW e \in Entries, NEW r \in Records \cup {NoJob}
  PROVE  LET n == [e EXCEPT !.job = r]
         IN n \in Entries /\ n.job = r /\ n.version = e.version
  BY DEF Entries

\* An edited or toggled job is a job.
LEMMA ChangesFacts ==
  ASSUME NEW r \in Records
  PROVE  /\ Changes(r) \subseteq Records
         /\ Toggled(r) \in Records /\ Toggled(r).config = r.config
<1> DEFINE flip == ~r.disabled
<1>1. flip \in BOOLEAN
  OBVIOUS
<1> HIDE DEF flip
<1>2. [r EXCEPT !.disabled = flip] \in Records /\ [r EXCEPT !.disabled = flip].config = r.config
  BY <1>1 DEF Records
<1>3. [r EXCEPT !.disabled = ~@] = [r EXCEPT !.disabled = flip]
  BY DEF flip
<1>4. \A c \in Configs : [r EXCEPT !.config = c] \in Records
  BY DEF Records
<1> QED BY <1>2, <1>3, <1>4 DEF Changes, Toggled

\* Saving, deleting and undoing keep the types.
LEMMA EditTypes ==
  ASSUME TypeInv, Save \/ (\E j \in Jobs : BulkDelete(j)) \/ Undo
  PROVE  TypeInv'
<1>1. ASSUME Save PROVE TypeInv'
  <2>1. PICK r \in Changes(form.job) :
          /\ pending' = Request("put", page.job, token, [form EXCEPT !.job = r], cache[page.job])
          /\ cache' = [cache EXCEPT ![page.job].job = r]
    BY <1>1 DEF Save
  <2>2. page.job \in Jobs /\ form \in Entries /\ cache[page.job] \in Entries
    BY <1>1, TypeFacts DEF Save, JobPages
  <2>3. form.job \in Records
    BY <1>1, <2>2 DEF Save, Entries
  <2>4. r \in Records
    BY <2>3, ChangesFacts
  <2> DEFINE base == [form EXCEPT !.job = r]
             shown == [cache[page.job] EXCEPT !.job = r]
  <2>5. base \in Entries /\ shown \in Entries
    BY <2>2, <2>4, EditedFacts
  <2>6. cache' = [cache EXCEPT ![page.job] = shown]
    BY <2>1
  <2> HIDE DEF base, shown
  <2>7. cache' \in [Jobs -> Entries]
    BY <2>2, <2>5, <2>6, TypeFacts
  <2>8. "put" \in Components \cup HookWrites /\ "put" \notin Components
    BY KindsDiffer DEF HookWrites
  <2>9. /\ pending' \in RequestRecords /\ pending'.kind = "put" /\ pending'.job = page.job
        /\ pending'.phase = "sent" /\ ~pending'.mounted
    <3>1. pending' = Request("put", page.job, token, base, cache[page.job])
      BY <2>1 DEF base
    <3>2. token \in Tokens \cup {NoToken} /\ page.job \in Jobs \cup {NoJob}
      BY TypeFacts
    <3> QED BY <2>2, <2>5, <2>8, <3>1, <3>2, RequestFacts
  <2>10. PendingTypes'
    BY <2>2, <2>9 DEF PendingTypes
  <2>11. Mount(JobsPage, {}, requests, queries, token) /\ UNCHANGED <<serverVars, token>>
    BY <1>1 DEF Save
  <2>12. {} \in SUBSET Buttons /\ {} \subseteq Mounts(JobsPage.name)
    OBVIOUS
  <2>13. TabTypes'
    BY <2>7, <2>11, <2>12, JobsPageFacts, TypeFacts, MountTabs
  <2> QED BY <2>10, <2>11, <2>13, ServerStays DEF TypeInv
<1>2. ASSUME NEW j \in Jobs, BulkDelete(j) PROVE TypeInv'
  <2>1. /\ pending' = Request("delete", j, token, Nobody, cache[j])
        /\ cache' = [cache EXCEPT ![j].job = NoJob]
        /\ UNCHANGED <<serverVars, token, page, waiting, form, queries, requests, own>>
    BY <1>2 DEF BulkDelete
  <2> DEFINE shown == [cache[j] EXCEPT !.job = NoJob]
  <2>2. cache[j] \in Entries
    BY TypeFacts
  <2>3. shown \in Entries
    BY <2>2, EditedFacts
  <2>4. cache' = [cache EXCEPT ![j] = shown]
    BY <2>1
  <2> HIDE DEF shown
  <2>5. cache' \in [Jobs -> Entries]
    BY <2>3, <2>4, TypeFacts
  <2>6. "delete" \in Components \cup HookWrites /\ "delete" \notin Components
    BY KindsDiffer DEF HookWrites
  <2>7. /\ pending' \in RequestRecords /\ pending'.kind = "delete" /\ pending'.job = j
        /\ pending'.phase = "sent" /\ ~pending'.mounted
    BY <2>1, <2>2, <2>6, NobodyIsEntry, TypeFacts, RequestFacts
  <2>8. PendingTypes'
    BY <2>7 DEF PendingTypes
  <2>9. TabTypes'
    BY <2>1, <2>5 DEF TypeInv, TabTypes
  <2> QED BY <2>1, <2>8, <2>9, ServerStays DEF TypeInv
<1>3. ASSUME Undo PROVE TypeInv'
  <2>1. pending \in RequestRecords /\ pending.job \in Jobs /\ pending.before \in Entries
    BY <1>3 DEF Undo, TypeInv, PendingTypes, RequestRecords
  <2>2. /\ cache' \in [Jobs -> Entries] /\ own' \in [Jobs -> Nat] /\ pending' = Idle
    BY <1>3, <2>1 DEF Undo, TypeInv, TabTypes
  <2>3. PendingTypes'
    BY <2>2 DEF PendingTypes
  <2>4. UNCHANGED <<serverVars, token, page, waiting, form, queries, requests>>
    BY <1>3 DEF Undo
  <2>5. TabTypes'
    BY <2>2, <2>4 DEF TypeInv, TabTypes
  <2> QED BY <2>3, <2>4, <2>5, ServerStays DEF TypeInv
<1> QED BY <1>1, <1>2, <1>3

\* A change that can be undone, with the token of the time when it is sent.
LEMMA FlushedFacts ==
  ASSUME TypeInv, Flush
  PROVE  LET r == [pending EXCEPT !.token = token]
         IN /\ r \in RequestRecords /\ r.kind \in {"put", "delete"} /\ r.job \in Jobs /\ r.phase = "sent"
            /\ ~r.mounted /\ r.base = pending.base /\ r.before = pending.before
            /\ requests' = Sent(requests, {r})
            /\ 1 <= Cardinality(Free(requests))
<1>1. ASSUME NEW q \in RequestRecords, NEW tok \in Tokens \cup {NoToken}
      PROVE  LET r == [q EXCEPT !.token = tok]
             IN /\ r \in RequestRecords /\ r.kind = q.kind /\ r.job = q.job /\ r.phase = q.phase
                /\ (r.mounted => q.mounted) /\ r.base = q.base /\ r.before = q.before
  BY DEF RequestRecords
<1>2. /\ pending \in RequestRecords /\ pending.kind \in {"put", "delete"} /\ pending.job \in Jobs
      /\ ~pending.mounted /\ pending.phase = "sent"
  BY DEF Flush, TypeInv, PendingTypes
<1>3. Free(requests) # {} /\ requests' = Sent(requests, {[pending EXCEPT !.token = token]})
  BY DEF Flush
<1>4. 1 <= Cardinality(Free(requests))
  BY <1>3, SlotsFinite, FS_EmptySet, FS_CardinalityType
<1> QED BY <1>1, <1>2, <1>3, <1>4, TypeFacts

\* A new job is sent as one request that no component owns.
LEMMA CreateFacts ==
  ASSUME TypeInv, NEW j \in Jobs, NEW d \in Records, Create(j, d)
  PROVE  LET base == [Nobody EXCEPT !.job = d]
             r == Request("create", j, token, base, cache[j])
         IN /\ r \in RequestRecords /\ r.kind = "create" /\ r.job = j /\ ~r.mounted
            /\ r.phase = "sent" /\ r.base = base /\ requests' = Sent(requests, {r})
            /\ 1 <= Cardinality(Free(requests))
<1>1. [Nobody EXCEPT !.job = d] \in Entries /\ cache[j] \in Entries
  BY NobodyIsEntry, EditedFacts, TypeFacts
<1>2. "create" \in Components \cup HookWrites /\ "create" \notin Components
  BY KindsDiffer DEF HookWrites
<1>3. 1 <= Cardinality(Free(requests))
  BY RoomIsFree DEF Create
<1>4. token \in Tokens \cup {NoToken} /\ j \in Jobs \cup {NoJob}
  BY TypeFacts
<1> DEFINE base == [Nobody EXCEPT !.job = d]
           r == Request("create", j, token, base, cache[j])
<1>5. requests' = Sent(requests, {r})
  BY DEF Create
<1> HIDE DEF base
<1>6. /\ r \in RequestRecords /\ r.kind = "create" /\ r.job = j /\ ~r.mounted
      /\ r.phase = "sent" /\ r.base = base
  BY <1>1, <1>2, <1>4, RequestFacts DEF base
<1> QED BY <1>3, <1>5, <1>6 DEF base

\* Sending a waiting change or a new job keeps the types.
LEMMA SendingTypes ==
  ASSUME TypeInv, Flush \/ (\E j \in Jobs, r \in Records : Create(j, r))
  PROVE  TypeInv'
<1>1. ASSUME Flush PROVE TypeInv'
  <2> DEFINE r == [pending EXCEPT !.token = token]
  <2>1. /\ r \in RequestRecords /\ r.job \in Jobs /\ ~r.mounted /\ r.phase = "sent"
        /\ requests' = Sent(requests, {r}) /\ 1 <= Cardinality(Free(requests))
    BY <1>1, FlushedFacts
  <2> HIDE DEF r
  <2>2. PendingTypes' /\ UNCHANGED <<serverVars, tabVars, queries, own>>
    BY <1>1 DEF Flush, PendingTypes
  <2> QED BY <2>1, <2>2, SendTypes
<1>2. ASSUME NEW j \in Jobs, NEW d \in Records, Create(j, d) PROVE TypeInv'
  <2> DEFINE r == Request("create", j, token, [Nobody EXCEPT !.job = d], cache[j])
  <2>1. /\ r \in RequestRecords /\ r.job = j /\ ~r.mounted /\ r.phase = "sent"
        /\ requests' = Sent(requests, {r}) /\ 1 <= Cardinality(Free(requests))
    BY <1>2, CreateFacts
  <2> HIDE DEF r
  <2>2. UNCHANGED <<serverVars, tabVars, queries, own, pending>>
    BY <1>2 DEF Create
  <2>3. PendingTypes'
    BY <2>2, PendingStays
  <2> QED BY <2>1, <2>2, <2>3, SendTypes
<1> QED BY <1>1, <1>2

\* The request in a slot.
LEMMA RequestAt ==
  ASSUME TypeInv, NEW s \in Slots, requests[s] # Idle
  PROVE  /\ s \in InFlight(requests) /\ requests[s] \in RequestRecords
         /\ requests[s].base \in Entries /\ requests[s].before \in Entries
         /\ requests[s].job \in Jobs \cup {NoJob}
         /\ requests[s].kind \in Writes => requests[s].job \in Jobs
         /\ requests[s].phase = "holding" => requests[s].base.job # NoJob
  BY TypeFacts DEF RequestsOK, RequestOK, Requests, InFlight, RequestRecords

\* A toggle or a run reads a stored job of the server or of the leader, and holds it.
LEMMA ReadFacts ==
  ASSUME TypeInv, NEW s \in Slots, ReadToggle(s) \/ ReadRun(s)
  PROVE  LET r == requests[s]
         IN /\ r # Idle /\ r.kind \in Buttons \cup BulkButtons /\ r.job \in Jobs
            /\ r.phase = "sent"
            /\ UNCHANGED <<serverVars, tabVars, pending, queries, own>>
            /\ \E e \in {local[r.job], stored[r.job]} :
                 e \in Entries /\ e.job # NoJob /\ Becomes(s, "holding", e)
<1>1. /\ requests[s] # Idle /\ requests[s].kind \in Buttons \cup BulkButtons
      /\ requests[s].phase = "sent"
      /\ UNCHANGED <<serverVars, tabVars, pending, queries, own>>
      /\ \E e \in {local[requests[s].job], stored[requests[s].job]} :
           e.job # NoJob /\ Becomes(s, "holding", e)
  BY DEF ReadToggle, ReadRun, Arrived, Unhandled, Buttons, BulkButtons
<1>2. requests[s].job \in Jobs
  BY <1>1, RequestAt, KindsDiffer
<1>3. local[requests[s].job] \in Entries /\ stored[requests[s].job] \in Entries
  BY <1>2, TypeFacts
<1> QED BY <1>1, <1>2, <1>3

\* What a write leaves of its job.
Written(s) ==
  IF requests[s].kind \in {"toggle", "bulkToggle"} THEN Toggled(requests[s].base.job)
  ELSE requests[s].base.job

\* Each write of a handler is one commit of its job, and its answer carries what was stored.
LEMMA WriteFacts ==
  ASSUME TypeInv, NEW s \in Slots, WriteToggle(s) \/ WriteRun(s) \/ HandleWrite(s)
  PROVE  LET r == requests[s]
         IN /\ r # Idle /\ r.kind \in Writes /\ r.job \in Jobs
            /\ r.phase = "holding" \/ (r.phase = "sent" /\ r.kind \in HookWrites)
            /\ UNCHANGED <<tabVars, pending, queries, own>>
            /\ Commit(r.job, Written(s)) /\ Written(s) \in Records \cup {NoJob}
            /\ Becomes(s, "answered", stored'[r.job])
<1>1. /\ requests[s] # Idle /\ requests[s].kind \in Writes
      /\ requests[s].phase = "holding" \/ (requests[s].phase = "sent" /\ requests[s].kind \in HookWrites)
      /\ UNCHANGED <<tabVars, pending, queries, own>>
      /\ Commit(requests[s].job, Written(s))
      /\ Becomes(s, "answered", stored'[requests[s].job])
  BY DEF WriteToggle, WriteRun, HandleWrite, Arrived, Held, Unhandled, Written,
         Buttons, BulkButtons, HookWrites, Writes
<1>2. requests[s].job \in Jobs /\ requests[s].base \in Entries
  BY <1>1, RequestAt
<1>3. Written(s) \in Records \cup {NoJob}
  <2>1. CASE requests[s].kind \in {"toggle", "bulkToggle"}
    <3>1. requests[s].base.job # NoJob
      BY <1>1, <2>1, RequestAt DEF HookWrites
    <3>2. requests[s].base.job \in Records
      BY <1>2, <3>1 DEF Entries
    <3> QED BY <2>1, <3>2, ChangesFacts DEF Written
  <2>2. CASE requests[s].kind \notin {"toggle", "bulkToggle"}
    BY <1>2, <2>2 DEF Written, Entries
  <2> QED BY <2>1, <2>2
<1> QED BY <1>1, <1>2, <1>3

\* The steps of the servers and the environment keep the types.
LEMMA ServerStepTypes ==
  ASSUME TypeInv,
         \/ \E s \in Slots : Serve(s)
         \/ CatchUp
         \/ \E q \in Jobs : HandleQuery(q)
         \/ Environment
  PROVE  TypeInv'
<1>1. ASSUME UNCHANGED <<tabVars, queries, own>>, RequestsOK(requests', page) PROVE TabTypes'
  BY <1>1 DEF TypeInv, TabTypes, tabVars
<1>2. ASSUME NEW s \in Slots, ReadToggle(s) \/ ReadRun(s) PROVE TypeInv'
  <2>1. /\ requests[s] # Idle /\ requests[s].kind \in Buttons \cup BulkButtons
        /\ UNCHANGED <<serverVars, tabVars, pending, queries, own>>
    BY <1>2, ReadFacts
  <2>2. PICK e \in Entries : e.job # NoJob /\ Becomes(s, "holding", e)
    BY <1>2, ReadFacts
  <2>3. RequestsOK(requests', page)
    BY <2>1, <2>2, BecomesFacts
  <2> QED BY <1>1, <2>1, <2>3, ServerStays, PendingStays DEF TypeInv
<1>3. ASSUME NEW s \in Slots, WriteToggle(s) \/ WriteRun(s) \/ HandleWrite(s) PROVE TypeInv'
  <2>1. /\ requests[s] # Idle /\ requests[s].job \in Jobs
        /\ UNCHANGED <<tabVars, pending, queries, own>>
        /\ Commit(requests[s].job, Written(s)) /\ Written(s) \in Records \cup {NoJob}
        /\ Becomes(s, "answered", stored'[requests[s].job])
    BY <1>3, WriteFacts
  <2>2. ServerTypes' /\ stored'[requests[s].job] \in Entries
    BY <2>1, CommitFacts
  <2>3. RequestsOK(requests', page)
    BY <2>1, <2>2, BecomesFacts
  <2> QED BY <1>1, <2>1, <2>2, <2>3, PendingStays DEF TypeInv
<1>4. ASSUME CatchUp PROVE TypeInv'
  <2>1. /\ behind # <<>> /\ local' = [local EXCEPT ![behind[1][1]] = behind[1][2]]
        /\ behind' = Tail(behind)
        /\ UNCHANGED <<stored, accepted, tabVars, pending, queries, requests, own>>
    BY <1>4 DEF CatchUp
  <2>2. behind \in Seq(Jobs \X Entries) /\ Len(behind) <= MaxLag
    BY DEF TypeInv, ServerTypes
  <2>3. behind[1] \in Jobs \X Entries
    BY <2>1, <2>2
  <2>4. local' \in [Jobs -> Entries]
    BY <2>1, <2>3 DEF TypeInv, ServerTypes
  <2>5. behind' \in Seq(Jobs \X Entries) /\ Len(behind') = Len(behind) - 1 /\ Len(behind) \in Nat
    BY <2>1, <2>2
  <2>6. ServerTypes'
    BY <2>1, <2>2, <2>4, <2>5, ConstantsAssumption DEF TypeInv, ServerTypes
  <2> QED BY <1>1, <2>1, <2>6, TypeFacts, PendingStays DEF TypeInv
<1>5. ASSUME NEW q \in Jobs, HandleQuery(q) PROVE TypeInv'
  <2> DEFINE copy == local[q]
             lagged == behind # <<>>
  <2>1. /\ queries[q] # Idle /\ UNCHANGED <<serverVars, tabVars, pending, requests, own>>
        /\ queries' = [queries EXCEPT ![q].copy = copy, ![q].lagged = lagged, ![q].phase = "answered"]
    BY <1>5 DEF HandleQuery
  <2>2. copy \in Entries /\ lagged \in BOOLEAN
    BY TypeFacts
  <2> HIDE DEF copy, lagged
  <2>3. queries[q] \in QueryRecords /\ queries \in Queries
    BY <2>1, TypeFacts DEF Queries
  <2>4. queries' = [queries EXCEPT ![q] = [queries[q] EXCEPT !.copy = copy, !.lagged = lagged,
                                                              !.phase = "answered"]]
    BY <2>1, <2>3 DEF Queries
  <2>5. [queries[q] EXCEPT !.copy = copy, !.lagged = lagged, !.phase = "answered"] \in QueryRecords
    BY <2>2, <2>3 DEF QueryRecords
  <2>6. queries' \in Queries
    BY <2>3, <2>4, <2>5 DEF Queries
  <2>7. TabTypes'
    BY <2>1, <2>6 DEF TypeInv, TabTypes, tabVars
  <2> QED BY <2>1, <2>7, ServerStays, PendingStays DEF TypeInv
<1>6. ASSUME NEW j \in Jobs, NEW r \in Records \cup {NoJob}, OtherWrite(j, r) PROVE TypeInv'
  <2>1. Commit(j, r) /\ UNCHANGED <<tabVars, pending, queries, requests, own>>
    BY <1>6 DEF OtherWrite
  <2>2. ServerTypes'
    BY <2>1, CommitFacts
  <2> QED BY <1>1, <2>1, <2>2, TypeFacts, PendingStays DEF TypeInv
<1>7. ASSUME NEW t \in Tokens, Revoke(t) PROVE TypeInv'
  <2>1. UNCHANGED <<tabVars, pending, queries, requests, own>> /\ ServerTypes'
    BY <1>7 DEF Revoke, TypeInv, ServerTypes
  <2> QED BY <1>1, <2>1, TypeFacts, PendingStays DEF TypeInv
<1> QED BY <1>2, <1>3, <1>4, <1>5, <1>6, <1>7 DEF Serve, Environment

\* Answers, whatever they say and whenever they arrive, keep the types.
LEMMA DeliverTypes ==
  ASSUME TypeInv,
         \/ \E s \in Slots : DeliverWrite(s) \/ DeliverFetch(s)
         \/ \E q \in Jobs : DeliverQuery(q) \/ FailQuery(q)
         \/ HookRefused
  PROVE  TypeInv'
<1>1. ASSUME NEW s \in Slots, DeliverWrite(s) PROVE TypeInv'
  <2> DEFINE r == requests[s]
  <2>1. /\ r # Idle /\ r.kind \in Writes /\ requests' = Gone(s)
        /\ UNCHANGED <<serverVars, token, page, form, pending>>
    BY <1>1 DEF DeliverWrite
  <2>2. PICK outcome \in Outcomes(r) :
          /\ waiting' = Settled(r, outcome) /\ own' = Told(r, outcome)
          /\ cache' = IF TakenBack(r, outcome) THEN [cache EXCEPT ![r.job] = r.before] ELSE cache
          /\ queries' = IF AfterPress(r.kind, outcome)
                          THEN Refetched(queries, QueriesOf(page), token) ELSE queries
    BY <1>1 DEF DeliverWrite
  <2>3. r.job \in Jobs /\ r.base.version \in Nat /\ r.before \in Entries
    BY <2>1, RequestAt DEF Entries
  <2> HIDE DEF r
  <2>4. waiting' \subseteq waiting
    BY <2>2 DEF Settled
  <2>5. own' \in [Jobs -> Nat]
    BY <2>2, <2>3 DEF Told, TypeInv, TabTypes
  <2>6. cache' \in [Jobs -> Entries]
    BY <2>2, <2>3, TypeFacts
  <2>7. queries' \in Queries
    BY <2>2, TypeFacts, FetchedFacts
  <2>8. RequestsOK(requests', page)
    BY <2>1, TypeFacts, GoneFacts
  <2>9. TabTypes'
    BY <2>1, <2>4, <2>5, <2>6, <2>7, <2>8 DEF TypeInv, TabTypes
  <2> QED BY <2>1, <2>9, ServerStays, PendingStays DEF TypeInv
<1>2. ASSUME NEW s \in Slots, DeliverFetch(s) PROVE TypeInv'
  <2>1. /\ requests' = Gone(s) /\ waiting' \subseteq waiting
        /\ UNCHANGED <<serverVars, token, page, cache, form, pending, queries, own>>
    BY <1>2 DEF DeliverFetch, Settled
  <2>2. RequestsOK(requests', page)
    BY <2>1, TypeFacts, GoneFacts
  <2>3. TabTypes'
    BY <2>1, <2>2 DEF TypeInv, TabTypes
  <2> QED BY <2>1, <2>3, ServerStays, PendingStays DEF TypeInv
<1>3. ASSUME NEW q \in Jobs, DeliverQuery(q) PROVE TypeInv'
  <2>1. queries[q] \in QueryRecords
    BY <1>3, TypeFacts DEF DeliverQuery, Queries
  <2>2. queries[q].copy \in Entries
    BY <2>1 DEF QueryRecords
  <2>3. /\ queries' = [queries EXCEPT ![q] = Idle]
        /\ cache' = [cache EXCEPT ![q] = queries[q].copy]
        /\ own' = IF queries[q].lagged THEN [own EXCEPT ![q] = 0] ELSE own
        /\ form' \in {form, queries[q].copy}
        /\ UNCHANGED <<serverVars, token, page, waiting, pending, requests>>
    BY <1>3 DEF DeliverQuery
  <2>4. /\ queries' \in Queries /\ cache' \in [Jobs -> Entries]
        /\ own' \in [Jobs -> Nat] /\ form' \in Entries
    BY <2>2, <2>3, TypeFacts DEF Queries, TypeInv, TabTypes
  <2>5. TabTypes'
    BY <2>3, <2>4 DEF TypeInv, TabTypes
  <2> QED BY <2>3, <2>5, ServerStays, PendingStays DEF TypeInv
<1>4. ASSUME NEW q \in Jobs, FailQuery(q) PROVE TypeInv'
  <2> DEFINE rest == [queries EXCEPT ![q] = Idle]
  <2>1. rest \in Queries
    BY TypeFacts DEF Queries
  <2>2. UNCHANGED <<serverVars, token, cache, pending>>
    BY <1>4 DEF FailQuery
  <2>3. \/ Mount(JobsPage, {}, requests, rest, token)
        \/ queries' = rest /\ UNCHANGED <<page, waiting, requests, form, own>>
    BY <1>4 DEF FailQuery
  <2> HIDE DEF rest
  <2>4. CASE Mount(JobsPage, {}, requests, rest, token)
    <3>1. {} \in SUBSET Buttons /\ {} \subseteq Mounts(JobsPage.name)
      OBVIOUS
    <3>2. token' = token /\ cache' \in [Jobs -> Entries] /\ token \in Tokens \cup {NoToken}
      BY <2>2, TypeFacts
    <3>3. TabTypes'
      BY <2>1, <2>4, <3>1, <3>2, JobsPageFacts, MountTabs
    <3> QED BY <2>2, <3>3, ServerStays, PendingStays DEF TypeInv
  <2>5. CASE queries' = rest /\ UNCHANGED <<page, waiting, requests, form, own>>
    <3>1. TabTypes'
      BY <2>1, <2>2, <2>5 DEF TypeInv, TabTypes
    <3> QED BY <2>2, <3>1, ServerStays, PendingStays DEF TypeInv
  <2> QED BY <2>3, <2>4, <2>5
<1>5. ASSUME HookRefused PROVE TypeInv'
  <2>1. /\ UNCHANGED <<serverVars, pending>>
        /\ LoggedOut(requests) \/ \E s \in Slots : LoggedOut(Gone(s))
    BY <1>5 DEF HookRefused
  <2>2. PICK rs : LoggedOut(rs) /\ RequestsOK(rs, page)
    BY <2>1, TypeFacts, GoneFacts
  <2>3. TabTypes'
    BY <2>2, LoggedOutTypes DEF TabTypes
  <2> QED BY <2>1, <2>3, ServerStays, PendingStays DEF TypeInv
<1> QED BY <1>1, <1>2, <1>3, <1>4, <1>5

\* Every step keeps the types.
LEMMA TypeSteps == TypeInv /\ [Next]_vars => TypeInv'
<1> SUFFICES ASSUME TypeInv, [Next]_vars PROVE TypeInv'
  OBVIOUS
<1>1. CASE UNCHANGED vars
  <2>1. UNCHANGED <<serverVars, tabVars, pending, queries, requests, own>>
    BY <1>1 DEF vars, serverVars, tabVars
  <2>2. TabTypes'
    BY <2>1 DEF TypeInv, TabTypes, tabVars
  <2> QED BY <2>1, <2>2, ServerStays, PendingStays DEF TypeInv
<1>2. CASE User
  BY <1>2, UserTypes, PressTypes, EditTypes, SendingTypes DEF User, Pressed
<1>3. CASE Environment \/ CatchUp \/ (\E q \in Jobs : HandleQuery(q)) \/ (\E s \in Slots : Serve(s))
  BY <1>3, ServerStepTypes
<1>4. CASE Flush
  BY <1>4, SendingTypes
<1>5. CASE \/ HookRefused \/ \E q \in Jobs : DeliverQuery(q) \/ FailQuery(q)
           \/ \E s \in Slots : DeliverWrite(s) \/ DeliverFetch(s)
  BY <1>5, DeliverTypes
<1> QED BY <1>1, <1>2, <1>3, <1>4, <1>5 DEF Next

\* The values of the variables, and what is known of the requests in flight and of
\* the changes that wait, in every reachable state: only a toggle or a run is held
\* between its read and its write, with the job it has read (api.go:547-557).
THEOREM TypeInvariance == Spec => []TypeInv
  BY InitTypes, TypeSteps, PTL DEF Spec

\* What the tab, the server and the leader hold is well formed, and a component
\* that shows a spinner, or is mounted, belongs to the open page.
THEOREM TypeCorrect == Spec => []TypeOK
<1>1. TypeInv => TypeOK
  BY TypesAreOK
<1> QED BY <1>1, TypeInvariance, PTL

-----------------------------------------------------------------------------
(* Spinners and disabled buttons *)

\* What component c shows belongs to its requests.
Shown(rs, w, c) ==
  IF c \in BulkButtons THEN c \in w => Mine(rs, c) # {}
  ELSE IF c \in w THEN Single(Mine(rs, c)) ELSE Mine(rs, c) = {}

SpinInv == \A c \in Components : Shown(requests, waiting, c)

\* Flags that match one mounted request each are what the run checks.
LEMMA SpinsMatch == SpinInv => ButtonsMatchRequests
<1> SUFFICES ASSUME SpinInv, NEW c \in Components
             PROVE  LET mine == {s \in InFlight(requests) : requests[s].kind = c /\ requests[s].mounted} IN
                      IF c \in BulkButtons THEN c \in waiting => mine # {}
                      ELSE Cardinality(mine) = IF c \in waiting THEN 1 ELSE 0
  BY DEF ButtonsMatchRequests
<1>1. Mine(requests, c) = {s \in InFlight(requests) : requests[s].kind = c /\ requests[s].mounted}
  BY DEF Mine
<1>2. Shown(requests, waiting, c)
  BY DEF SpinInv
<1>3. CASE c \in BulkButtons
  BY <1>1, <1>2, <1>3 DEF Shown
<1>4. CASE c \notin BulkButtons /\ c \in waiting
  <2>1. PICK s : Mine(requests, c) = {s}
    BY <1>2, <1>4 DEF Shown, Single
  <2>2. Cardinality(Mine(requests, c)) = 1
    BY <2>1, FS_Singleton
  <2> QED BY <1>1, <1>4, <2>2
<1>5. CASE c \notin BulkButtons /\ c \notin waiting
  <2>1. Cardinality(Mine(requests, c)) = 0
    BY <1>2, <1>5, FS_EmptySet DEF Shown
  <2> QED BY <1>1, <1>5, <2>1
<1> QED BY <1>3, <1>4, <1>5

\* What a component shows depends on its own requests and its own flag.
LEMMA ShownStays ==
  ASSUME NEW rs, NEW w, NEW qs, NEW v, NEW c, Shown(rs, w, c),
         Mine(qs, c) = Mine(rs, c), c \in v <=> c \in w
  PROVE  Shown(qs, v, c)
  BY DEF Shown

\* A page that opens waits for the components it mounts, and for no others.
LEMMA MountSpins ==
  ASSUME TypeInv, SpinInv, NEW p, NEW kept \in SUBSET Buttons, NEW qs \in Queries,
         NEW tok \in Tokens \cup {NoToken}, Mount(p, kept, requests, qs, tok)
  PROVE  SpinInv'
<1> DEFINE left == Unmounted(requests, kept)
           R == NewRequests(p, tok)
<1>1. /\ requests' = Sent(left, R) /\ left \in Requests /\ R \in SUBSET RequestRecords
      /\ IsFiniteSet(R) /\ Cardinality(R) <= Cardinality(Free(left))
  BY MountFacts, NewFacts
<1>2. waiting' = (waiting \cap kept) \cup New(p)
  BY DEF Mount, New
<1>3. /\ New(p) \subseteq Fetchers
      /\ \A r \in R : /\ r.kind \in New(p) /\ r.mounted
                      /\ r = Request(r.kind, NoJob, tok, Nobody, Nobody)
      /\ \A c \in New(p) : /\ Request(c, NoJob, tok, Nobody, Nobody).kind = c
                           /\ Request(c, NoJob, tok, Nobody, Nobody) \in R
  <2>1. New(p) \subseteq Fetchers
    BY DEF New
  <2>2. \A c \in New(p) : Request(c, NoJob, tok, Nobody, Nobody) \in R
    BY DEF NewRequests
  <2> HIDE DEF R
  <2>3. /\ \A r \in NewRequests(p, tok) :
              /\ r.kind \in New(p) /\ r.mounted
              /\ r = Request(r.kind, NoJob, tok, Nobody, Nobody)
        /\ \A c \in New(p) : Request(c, NoJob, tok, Nobody, Nobody).kind = c
    BY NewFacts
  <2> QED BY <2>1, <2>2, <2>3, Zenon DEF R
<1>4. ASSUME NEW c
      PROVE  Mine(left, c) = IF c \in kept /\ c \notin {"stats", "full"} THEN Mine(requests, c) ELSE {}
  BY TypeFacts, MineUnmounted
<1> HIDE DEF left, R
<1>5. ASSUME NEW c \in Components PROVE Shown(requests', waiting', c)
  <2>1. CASE c \in New(p)
    <3>1. c \notin kept /\ c \notin BulkButtons
      BY <1>3, <2>1 DEF Fetchers, Buttons, BulkButtons
    <3>2. Mine(left, c) = {}
      BY <1>4, <3>1
    <3>3. Single(Those(R, c))
      <4> DEFINE r == Request(c, NoJob, tok, Nobody, Nobody)
      <4>1. r \in R /\ r.kind = c /\ \A q \in R : q.kind = c => q = r
        BY <1>3, <2>1
      <4>2. r.mounted
        BY <1>3, <4>1
      <4> HIDE DEF r
      <4>3. Those(R, c) = {r}
        BY <4>1, <4>2 DEF Those
      <4> QED BY <4>3 DEF Single
    <3>4. Single(Mine(Sent(left, R), c))
      BY <1>1, <3>2, <3>3, MineIsOne
    <3>5. Single(Mine(requests', c))
      BY <1>1, <3>4
    <3> QED BY <1>2, <2>1, <3>1, <3>5 DEF Shown
  <2>2. CASE c \notin New(p)
    <3>1. Mine(requests', c) = Mine(left, c)
      BY <1>1, <1>3, <2>2, MineSent
    <3>2. CASE c \in kept
      <4>1. c \notin {"stats", "full"}
        BY <3>2 DEF Buttons
      <4>2. Mine(requests', c) = Mine(requests, c)
        BY <1>4, <3>1, <3>2, <4>1
      <4>3. c \in waiting' <=> c \in waiting
        BY <1>2, <2>2, <3>2
      <4>4. Shown(requests, waiting, c)
        BY DEF SpinInv
      <4> QED BY <4>2, <4>3, <4>4, ShownStays
    <3>3. CASE c \notin kept
      <4>1. Mine(requests', c) = {} /\ c \notin waiting'
        BY <1>2, <1>4, <2>2, <3>1, <3>3
      <4> QED BY <4>1 DEF Shown
    <3> QED BY <3>2, <3>3
  <2> QED BY <2>1, <2>2
<1> QED BY <1>5 DEF SpinInv

\* Nothing waits after logging out.
LEMMA LoggedOutSpins ==
  ASSUME NEW rs \in Requests, LoggedOut(rs)
  PROVE  SpinInv'
<1>1. requests' = Unmounted(rs, {}) /\ waiting' = {}
  BY DEF LoggedOut
<1>2. ASSUME NEW c PROVE Mine(requests', c) = {}
  BY <1>1, MineUnmounted
<1> QED BY <1>1, <1>2 DEF SpinInv, Shown

\* A button that is pressed waits for its requests.
LEMMA PressSpins ==
  ASSUME TypeInv, SpinInv, Pressed
  PROVE  SpinInv'
<1>b. PICK b \in Components : \E R : PressOf(b, R)
  BY PressedFacts
<1>0. PICK R : PressOf(b, R)
  BY <1>b
<1>1. /\ requests' = Sent(requests, R) /\ Cardinality(R) <= Cardinality(Free(requests))
      /\ R \in SUBSET RequestRecords /\ IsFiniteSet(R)
  BY <1>0, PressFacts DEF PressOf
<1>2. waiting' = waiting \cup {b} /\ b \notin waiting /\ requests \in Requests
  BY <1>0, TypeFacts DEF PressOf, Press
<1>3. ASSUME NEW c \in Components PROVE Shown(requests', waiting', c)
  <2>1. Shown(requests, waiting, c)
    BY DEF SpinInv
  <2>2. CASE c # b
    <3>1. Mine(requests', c) = Mine(requests, c)
      BY <1>0, <1>1, <1>2, <2>2, MineSent DEF PressOf
    <3>2. c \in waiting' <=> c \in waiting
      BY <1>2, <2>2
    <3> QED BY <2>1, <3>1, <3>2, ShownStays
  <2>3. CASE c = b /\ b \in BulkButtons
    <3>1. Mine(requests', c) # {}
      BY <1>0, <1>1, <1>2, <2>3, MineSent DEF PressOf
    <3> QED BY <2>3, <3>1 DEF Shown
  <2>4. CASE c = b /\ b \notin BulkButtons
    <3>1. Mine(requests, c) = {}
      BY <1>2, <2>1, <2>4 DEF Shown
    <3>2. PICK r \in R : TRUE
      BY <1>0 DEF PressOf
    <3>3. Those(R, c) = {r} /\ Single(Those(R, c))
      BY <1>0, <2>4 DEF Those, Single, PressOf
    <3>4. Single(Mine(Sent(requests, R), c))
      BY <1>1, <1>2, <3>1, <3>3, MineIsOne
    <3>5. Single(Mine(requests', c))
      BY <1>1, <3>4
    <3> QED BY <1>2, <2>4, <3>5 DEF Shown
  <2> QED BY <2>2, <2>3, <2>4
<1> QED BY <1>3 DEF SpinInv

\* A request that no component owns changes no flag.
LEMMA SendSpins ==
  ASSUME TypeInv, SpinInv, NEW r \in RequestRecords, ~r.mounted,
         1 <= Cardinality(Free(requests)), requests' = Sent(requests, {r}), waiting' = waiting
  PROVE  SpinInv'
<1>1. IsFiniteSet({r}) /\ Cardinality({r}) = 1 /\ {r} \in SUBSET RequestRecords
  BY FS_Singleton
<1>2. ASSUME NEW c \in Components PROVE Shown(requests', waiting', c)
  <2>1. Mine(requests', c) = Mine(requests, c)
    BY <1>1, TypeFacts, MineSent
  <2>2. Shown(requests, waiting, c)
    BY DEF SpinInv
  <2> QED BY <2>1, <2>2, ShownStays
<1> QED BY <1>2 DEF SpinInv

\* An answer leaves the components' requests what they are.
LEMMA BecomesSpins ==
  ASSUME TypeInv, SpinInv, NEW s \in Slots, requests[s] # Idle, waiting' = waiting,
         NEW phase \in {"holding", "answered"}, NEW base \in Entries, Becomes(s, phase, base),
         phase = "holding" => requests[s].kind \in Buttons \cup BulkButtons /\ base.job # NoJob
  PROVE  SpinInv'
<1>1. /\ \A t \in Slots : t # s => requests'[t] = requests[t]
      /\ requests'[s] # Idle /\ requests'[s].kind = requests[s].kind
      /\ requests'[s].mounted => requests[s].mounted
      /\ requests[s].mounted => requests'[s].mounted
  BY BecomesFacts
<1>2. ASSUME NEW c \in Components PROVE Shown(requests', waiting', c)
  <2>1. \A t : t \in Mine(requests', c) <=> t \in Mine(requests, c)
    BY <1>1 DEF Mine, InFlight
  <2>2. Mine(requests', c) = Mine(requests, c)
    BY <2>1
  <2>3. Shown(requests, waiting, c)
    BY DEF SpinInv
  <2> QED BY <2>2, <2>3, ShownStays
<1> QED BY <1>2 DEF SpinInv

\* An answer ends the flag of the component that waits for it, and no other.
LEMMA GoneSpins ==
  ASSUME TypeInv, SpinInv, NEW s \in Slots, requests[s] # Idle, requests' = Gone(s),
         NEW outcome, waiting' = Settled(requests[s], outcome)
  PROVE  SpinInv'
<1>1. /\ \A t \in InFlight(Gone(s)) : t \in InFlight(requests) /\ t # s /\ Gone(s)[t] = requests[t]
      /\ \A t \in InFlight(requests) : t # s => t \in InFlight(Gone(s))
  BY TypeFacts, GoneFacts
<1>2. \A c : Mine(requests', c) = Mine(requests, c) \ {s}
  BY <1>1 DEF Mine
<1>3. s \in InFlight(requests)
  BY DEF InFlight
<1>4. ASSUME NEW c \in Components PROVE Shown(requests', waiting', c)
  <2>1. Shown(requests, waiting, c)
    BY DEF SpinInv
  <2>2. CASE requests[s].mounted /\ requests[s].kind = c
    <3>1. s \in Mine(requests, c) /\ c \notin waiting'
      BY <1>3, <2>2 DEF Mine, Settled
    <3>2. CASE c \in BulkButtons
      BY <3>1, <3>2 DEF Shown
    <3>3. CASE c \notin BulkButtons
      <4>1. Mine(requests, c) = {s}
        BY <2>1, <3>1, <3>3 DEF Shown, Single
      <4> QED BY <1>2, <3>1, <3>3, <4>1 DEF Shown
    <3> QED BY <3>2, <3>3
  <2>3. CASE ~(requests[s].mounted /\ requests[s].kind = c)
    <3>1. s \notin Mine(requests, c)
      BY <2>3 DEF Mine
    <3>2. Mine(requests', c) = Mine(requests, c)
      BY <1>2, <3>1
    <3>3. c \in waiting' <=> c \in waiting
      BY <2>3 DEF Settled
    <3> QED BY <2>1, <3>2, <3>3, ShownStays
  <2> QED BY <2>2, <2>3
<1> QED BY <1>4 DEF SpinInv

\* Nothing waits at the start.
LEMMA InitSpins == Init => SpinInv
<1> SUFFICES ASSUME Init, NEW c \in Components PROVE Shown(requests, waiting, c)
  BY DEF SpinInv
<1>1. InFlight(requests) = {} /\ waiting = {}
  BY DEF Init, InFlight
<1>2. Mine(requests, c) = {}
  BY <1>1 DEF Mine
<1> QED BY <1>1, <1>2 DEF Shown

\* Flags and requests alone decide whether they match.
LEMMA SpinStays ==
  ASSUME SpinInv, UNCHANGED <<requests, waiting>>
  PROVE  SpinInv'
<1>1. ASSUME NEW c \in Components PROVE Shown(requests', waiting', c)
  BY DEF SpinInv
<1> QED BY <1>1 DEF SpinInv

\* What the user does keeps flags and requests together.
LEMMA UserSpins ==
  ASSUME TypeInv, SpinInv, User
  PROVE  SpinInv'
<1>1. ASSUME NEW p \in Places, Open(p) PROVE SpinInv'
  <2>1. PICK kept \in Kept(p) : Mount(p, kept, requests, queries, token)
    BY <1>1 DEF Open
  <2>2. kept \in SUBSET Buttons
    BY KeptFacts
  <2> QED BY <2>1, <2>2, TypeFacts, MountSpins
<1>2. ASSUME NEW t \in Tokens, SignIn(t) PROVE SpinInv'
  <2>1. /\ Mount(At("dashboard", NoJob), {}, requests, queries, t) /\ t \in Tokens \cup {NoToken}
        /\ {} \in SUBSET Buttons
    BY <1>2 DEF SignIn
  <2> QED BY <2>1, TypeFacts, MountSpins
<1>3. ASSUME SignOut PROVE SpinInv'
  BY <1>3, TypeFacts, LoggedOutSpins DEF SignOut
<1>4. ASSUME Pressed PROVE SpinInv'
  BY <1>4, PressSpins
<1>5. ASSUME Save PROVE SpinInv'
  <2>1. Mount(JobsPage, {}, requests, queries, token) /\ {} \in SUBSET Buttons
    BY <1>5 DEF Save
  <2> QED BY <2>1, TypeFacts, MountSpins
<1>6. ASSUME Undo \/ \E j \in Jobs : BulkDelete(j) PROVE SpinInv'
  BY <1>6, SpinStays DEF Undo, BulkDelete
<1>7. ASSUME NEW j \in Jobs, NEW d \in Records, Create(j, d) PROVE SpinInv'
  <2> DEFINE r == Request("create", j, token, [Nobody EXCEPT !.job = d], cache[j])
  <2>1. /\ r \in RequestRecords /\ ~r.mounted
        /\ requests' = Sent(requests, {r}) /\ 1 <= Cardinality(Free(requests))
    BY <1>7, CreateFacts
  <2>2. waiting' = waiting
    BY <1>7 DEF Create, tabVars
  <2> HIDE DEF r
  <2> QED BY <2>1, <2>2, SendSpins
<1> QED BY <1>1, <1>2, <1>3, <1>4, <1>5, <1>6, <1>7 DEF User, Pressed

\* Steps of the servers keep flags and requests together.
LEMMA ServerStepSpins ==
  ASSUME TypeInv, SpinInv,
         \/ Flush
         \/ \E s \in Slots : Serve(s)
         \/ CatchUp
         \/ \E q \in Jobs : HandleQuery(q)
         \/ Environment
  PROVE  SpinInv'
<1>1. ASSUME Flush PROVE SpinInv'
  <2> DEFINE r == [pending EXCEPT !.token = token]
  <2>1. /\ r \in RequestRecords /\ ~r.mounted
        /\ requests' = Sent(requests, {r}) /\ 1 <= Cardinality(Free(requests))
    BY <1>1, FlushedFacts
  <2>2. waiting' = waiting
    BY <1>1 DEF Flush, tabVars
  <2> HIDE DEF r
  <2> QED BY <2>1, <2>2, SendSpins
<1>2. ASSUME NEW s \in Slots, ReadToggle(s) \/ ReadRun(s) PROVE SpinInv'
  <2>1. /\ requests[s] # Idle /\ requests[s].kind \in Buttons \cup BulkButtons
        /\ UNCHANGED tabVars
    BY <1>2, ReadFacts
  <2>2. PICK e \in Entries : e.job # NoJob /\ Becomes(s, "holding", e)
    BY <1>2, ReadFacts
  <2> QED BY <2>1, <2>2, BecomesSpins DEF tabVars
<1>3. ASSUME NEW s \in Slots, WriteToggle(s) \/ WriteRun(s) \/ HandleWrite(s) PROVE SpinInv'
  <2>1. /\ requests[s] # Idle /\ requests[s].job \in Jobs /\ UNCHANGED tabVars
        /\ Commit(requests[s].job, Written(s)) /\ Written(s) \in Records \cup {NoJob}
        /\ Becomes(s, "answered", stored'[requests[s].job])
    BY <1>3, WriteFacts
  <2>2. stored'[requests[s].job] \in Entries
    BY <2>1, CommitFacts
  <2> QED BY <2>1, <2>2, BecomesSpins DEF tabVars
<1>4. ASSUME CatchUp \/ (\E q \in Jobs : HandleQuery(q)) \/ Environment PROVE SpinInv'
  <2>1. UNCHANGED <<requests, waiting>>
    BY <1>4 DEF CatchUp, HandleQuery, Environment, OtherWrite, Revoke, tabVars
  <2> QED BY <2>1, SpinStays
<1> QED BY <1>1, <1>2, <1>3, <1>4 DEF Serve

\* Answers keep flags and requests together.
LEMMA DeliverSpins ==
  ASSUME TypeInv, SpinInv,
         \/ \E s \in Slots : DeliverWrite(s) \/ DeliverFetch(s)
         \/ \E q \in Jobs : DeliverQuery(q) \/ FailQuery(q)
         \/ HookRefused
  PROVE  SpinInv'
<1>1. ASSUME NEW s \in Slots, DeliverWrite(s) \/ DeliverFetch(s) PROVE SpinInv'
  <2>1. requests[s] # Idle /\ requests' = Gone(s)
    BY <1>1 DEF DeliverWrite, DeliverFetch
  <2>2. \E outcome : waiting' = Settled(requests[s], outcome)
    BY <1>1 DEF DeliverWrite, DeliverFetch
  <2> QED BY <2>1, <2>2, GoneSpins
<1>2. ASSUME NEW q \in Jobs, DeliverQuery(q) PROVE SpinInv'
  BY <1>2, SpinStays DEF DeliverQuery
<1>3. ASSUME NEW q \in Jobs, FailQuery(q) PROVE SpinInv'
  <2> DEFINE rest == [queries EXCEPT ![q] = Idle]
  <2>1. rest \in Queries /\ {} \in SUBSET Buttons /\ token \in Tokens \cup {NoToken}
    BY TypeFacts DEF Queries
  <2>2. \/ Mount(JobsPage, {}, requests, rest, token)
        \/ UNCHANGED <<requests, waiting>>
    BY <1>3 DEF FailQuery
  <2> HIDE DEF rest
  <2> QED BY <2>1, <2>2, MountSpins, SpinStays
<1>4. ASSUME HookRefused PROVE SpinInv'
  <2>1. PICK rs : LoggedOut(rs) /\ RequestsOK(rs, page)
    BY <1>4, TypeFacts, GoneFacts DEF HookRefused
  <2> QED BY <2>1, LoggedOutSpins DEF RequestsOK
<1> QED BY <1>1, <1>2, <1>3, <1>4

\* Every step keeps flags and requests together.
LEMMA SpinSteps == TypeInv /\ SpinInv /\ [Next]_vars => SpinInv'
<1> SUFFICES ASSUME TypeInv, SpinInv, [Next]_vars PROVE SpinInv'
  OBVIOUS
<1>1. CASE UNCHANGED vars
  BY <1>1, SpinStays DEF vars
<1>2. CASE User
  BY <1>2, UserSpins
<1>3. CASE \/ Environment \/ CatchUp \/ Flush \/ \E q \in Jobs : HandleQuery(q)
           \/ \E s \in Slots : Serve(s)
  BY <1>3, ServerStepSpins
<1>4. CASE \/ HookRefused \/ \E q \in Jobs : DeliverQuery(q) \/ FailQuery(q)
           \/ \E s \in Slots : DeliverWrite(s) \/ DeliverFetch(s)
  BY <1>4, DeliverSpins
<1> QED BY <1>1, <1>2, <1>3, <1>4 DEF Next

\* However answers, refusals, pages and the session alternate, no spinner and
\* no disabled button outlives its request, and none ends before it
\* (RunButton.tsx:13-24); a bulk button is disabled only while one of its
\* requests is in flight.
THEOREM ButtonsFollowRequests == Spec => []ButtonsMatchRequests
<1>1. Init => TypeInv /\ SpinInv
  BY InitTypes, InitSpins
<1>2. TypeInv /\ SpinInv /\ [Next]_vars => (TypeInv /\ SpinInv)'
  BY TypeSteps, SpinSteps
<1>3. SpinInv => ButtonsMatchRequests
  BY SpinsMatch
<1> QED BY <1>1, <1>2, <1>3, PTL DEF Spec

-----------------------------------------------------------------------------
(* Copies of jobs *)

\* Copy e of job j is what the leader stores, or older.
Dated(st, j, e) == e.version < st[j].version \/ e = st[j]

\* The server and what it has not applied hold nothing newer than the leader,
\* and with these writes the server comes to hold what the leader does.
ServerInv ==
  /\ \A j \in Jobs : Dated(stored, j, local[j])
  /\ \A i \in 1..Len(behind) : Dated(stored, behind[i][1], behind[i][2])
  /\ \A j \in Jobs :
       \/ local[j] = stored[j] /\ \A i \in 1..Len(behind) : behind[i][1] # j
       \/ \E i \in 1..Len(behind) :
            /\ behind[i][1] = j /\ behind[i][2] = stored[j]
            /\ \A k \in (i + 1)..Len(behind) : behind[k][1] # j

\* What handlers have read or written is no newer either.
DatedRequests(rs, st) ==
  \A s \in InFlight(rs) :
    rs[s].kind \in Writes /\ rs[s].phase # "sent" => Dated(st, rs[s].job, rs[s].base)

\* Nothing is older or newer than anything else at the start.
LEMMA InitCopies == Init => ServerInv /\ DatedRequests(requests, stored)
<1> SUFFICES ASSUME Init PROVE ServerInv /\ DatedRequests(requests, stored)
  OBVIOUS
<1>1. InFlight(requests) = {}
  BY DEF Init, InFlight
<1>2. local = stored /\ Len(behind) = 0
  BY DEF Init
<1> QED BY <1>1, <1>2 DEF ServerInv, DatedRequests, Dated

\* A write leaves every older copy older.
LEMMA DatedStays ==
  ASSUME TypeInv, NEW k \in Jobs, NEW r \in Records \cup {NoJob}, Commit(k, r),
         NEW j \in Jobs, NEW e \in Entries, Dated(stored, j, e)
  PROVE  Dated(stored', j, e)
<1>1. /\ stored'[k].version = stored[k].version + 1
      /\ \A i \in Jobs : i # k => stored'[i] = stored[i]
  BY CommitFacts
<1>2. stored[j].version \in Nat /\ e.version \in Nat
  BY TypeFacts DEF Entries
<1>3. e.version <= stored[j].version
  BY <1>2 DEF Dated
<1>4. CASE j = k
  BY <1>1, <1>2, <1>3, <1>4 DEF Dated
<1>5. CASE j # k
  BY <1>1, <1>5 DEF Dated
<1> QED BY <1>4, <1>5

\* After a write the last change the server has not applied is that write.
LEMMA CommitCopies ==
  ASSUME TypeInv, ServerInv, NEW k \in Jobs, NEW r \in Records \cup {NoJob}, Commit(k, r)
  PROVE  ServerInv'
<1> DEFINE n == Len(behind)
           e == stored'[k]
<1>1. /\ behind \in Seq(Jobs \X Entries) /\ n \in Nat /\ behind' = Append(behind, <<k, e>>)
      /\ local' = local /\ e \in Entries
      /\ \A i \in Jobs : i # k => stored'[i] = stored[i]
  BY CommitFacts DEF TypeInv, ServerTypes
<1>2. /\ Len(behind') = n + 1 /\ behind'[n + 1] = <<k, e>>
      /\ \A i \in 1..n : behind'[i] = behind[i] /\ behind[i][1] \in Jobs /\ behind[i][2] \in Entries
  <2> HIDE DEF e
  <2> QED BY <1>1
<1>3. \A j \in Jobs : Dated(stored', j, local'[j])
  BY <1>1, TypeFacts, DatedStays DEF ServerInv
<1> HIDE DEF n
<1>4. ASSUME NEW i \in 1..Len(behind') PROVE Dated(stored', behind'[i][1], behind'[i][2])
  <2>1. CASE i = n + 1
    BY <1>2, <2>1 DEF Dated
  <2>2. CASE i # n + 1
    <3>1. i \in 1..n
      BY <1>1, <1>2, <2>2
    <3>2. Dated(stored, behind[i][1], behind[i][2])
      BY <3>1 DEF ServerInv, n
    <3>3. behind'[i] = behind[i] /\ behind[i][1] \in Jobs /\ behind[i][2] \in Entries
      BY <1>2, <3>1
    <3> QED BY <3>2, <3>3, DatedStays
  <2> QED BY <2>1, <2>2
<1>5. ASSUME NEW j \in Jobs
      PROVE  \/ local'[j] = stored'[j] /\ \A i \in 1..Len(behind') : behind'[i][1] # j
             \/ \E i \in 1..Len(behind') :
                  /\ behind'[i][1] = j /\ behind'[i][2] = stored'[j]
                  /\ \A m \in (i + 1)..Len(behind') : behind'[m][1] # j
  <2>1. CASE j = k
    <3>1. n + 1 \in 1..Len(behind') /\ behind'[n + 1][1] = j /\ behind'[n + 1][2] = stored'[j]
      BY <1>1, <1>2, <2>1
    <3>2. \A m \in (n + 1 + 1)..Len(behind') : behind'[m][1] # j
      BY <1>1, <1>2
    <3> QED BY <3>1, <3>2
  <2>2. CASE j # k
    <3>1. stored'[j] = stored[j] /\ local'[j] = local[j]
      BY <1>1, <2>2
    <3>2. \A m \in 1..Len(behind') : behind'[m][1] = j => m \in 1..n /\ behind[m] = behind'[m]
      BY <1>1, <1>2, <2>2
    <3>3. CASE local[j] = stored[j] /\ \A i \in 1..n : behind[i][1] # j
      BY <3>1, <3>2, <3>3
    <3>4. CASE \E i \in 1..n : /\ behind[i][1] = j /\ behind[i][2] = stored[j]
                               /\ \A m \in (i + 1)..n : behind[m][1] # j
      <4>1. PICK i \in 1..n : /\ behind[i][1] = j /\ behind[i][2] = stored[j]
                              /\ \A m \in (i + 1)..n : behind[m][1] # j
        BY <3>4
      <4>2. i \in 1..Len(behind') /\ behind'[i][1] = j /\ behind'[i][2] = stored'[j]
        BY <1>1, <1>2, <3>1, <4>1
      <4>3. ASSUME NEW m \in (i + 1)..Len(behind') PROVE behind'[m][1] # j
        <5>1. m \in 1..Len(behind') /\ m > i
          BY <1>1, <1>2, <4>1
        <5>2. n \in Nat /\ i \in 1..n /\ (m \in 1..n => m \in (i + 1)..n)
          BY <1>1, <5>1
        <5>3. CASE m \in 1..n
          <6>1. behind[m][1] # j
            BY <4>1, <5>2, <5>3
          <6> QED BY <3>2, <5>1, <6>1
        <5>4. CASE m \notin 1..n
          BY <3>2, <5>1, <5>4
        <5> QED BY <5>3, <5>4
      <4> QED BY <4>2, <4>3
    <3> QED BY <3>3, <3>4 DEF ServerInv, n
  <2> QED BY <2>1, <2>2
<1> QED BY <1>3, <1>4, <1>5 DEF ServerInv

\* Applying changes in order brings the server no further than the leader.
LEMMA CatchUpCopies ==
  ASSUME TypeInv, ServerInv, CatchUp
  PROVE  ServerInv'
<1> DEFINE n == Len(behind)
<1>1. /\ behind # <<>> /\ local' = [local EXCEPT ![behind[1][1]] = behind[1][2]]
      /\ behind' = Tail(behind) /\ stored' = stored
  BY DEF CatchUp
<1>2. behind \in Seq(Jobs \X Entries) /\ local \in [Jobs -> Entries]
  BY TypeFacts DEF TypeInv, ServerTypes
<1>3. /\ n \in Nat /\ 1 <= n /\ Len(behind') = n - 1
      /\ \A i \in 1..(n - 1) : behind'[i] = behind[i + 1]
      /\ behind[1][1] \in Jobs /\ behind[1][2] \in Entries
  BY <1>1, <1>2
<1> HIDE DEF n
<1>4. \A j \in Jobs : local'[j] = IF j = behind[1][1] THEN behind[1][2] ELSE local[j]
  BY <1>1, <1>2, <1>3
<1>5. 1 \in 1..n /\ \A i \in 1..(n - 1) : i + 1 \in 1..n
  BY <1>3
<1>6. \A j \in Jobs : Dated(stored', j, local'[j])
  BY <1>1, <1>4, <1>5 DEF ServerInv, n
<1>7. \A i \in 1..Len(behind') : Dated(stored', behind'[i][1], behind'[i][2])
  BY <1>1, <1>3, <1>5 DEF ServerInv, n
<1>8. ASSUME NEW j \in Jobs
      PROVE  \/ local'[j] = stored'[j] /\ \A i \in 1..Len(behind') : behind'[i][1] # j
             \/ \E i \in 1..Len(behind') :
                  /\ behind'[i][1] = j /\ behind'[i][2] = stored'[j]
                  /\ \A m \in (i + 1)..Len(behind') : behind'[m][1] # j
  <2>1. CASE local[j] = stored[j] /\ \A i \in 1..n : behind[i][1] # j
    BY <1>1, <1>3, <1>4, <1>5, <2>1
  <2>2. CASE \E i \in 1..n : /\ behind[i][1] = j /\ behind[i][2] = stored[j]
                             /\ \A m \in (i + 1)..n : behind[m][1] # j
    <3>1. PICK i \in 1..n : /\ behind[i][1] = j /\ behind[i][2] = stored[j]
                            /\ \A m \in (i + 1)..n : behind[m][1] # j
      BY <2>2
    <3>2. CASE i = 1
      <4>1. local'[j] = stored'[j]
        BY <1>1, <1>4, <3>1, <3>2
      <4>2. ASSUME NEW m \in 1..Len(behind') PROVE behind'[m][1] # j
        <5>1. behind'[m] = behind[m + 1] /\ m + 1 \in (i + 1)..n
          BY <1>3, <3>2
        <5> QED BY <3>1, <5>1
      <4> QED BY <4>1, <4>2
    <3>3. CASE i # 1
      <4>1. i - 1 \in 1..Len(behind') /\ behind'[i - 1] = behind[i]
        <5>1. i - 1 \in 1..(n - 1) /\ (i - 1) + 1 = i
          BY <1>3, <3>3
        <5> QED BY <1>3, <5>1
      <4>2. ASSUME NEW m \in ((i - 1) + 1)..Len(behind') PROVE behind'[m][1] # j
        <5>1. m \in 1..(n - 1) /\ m + 1 \in (i + 1)..n
          BY <1>3, <3>3
        <5> QED BY <1>3, <3>1, <5>1
      <4> QED BY <1>1, <3>1, <4>1, <4>2
    <3> QED BY <3>2, <3>3
  <2> QED BY <2>1, <2>2 DEF ServerInv, n
<1> QED BY <1>6, <1>7, <1>8 DEF ServerInv

\* Leaving a page changes no copy a handler read.
LEMMA UnmountedDated ==
  ASSUME NEW rs \in Requests, NEW kept, DatedRequests(rs, stored)
  PROVE  DatedRequests(Unmounted(rs, kept), stored)
<1> DEFINE new == Unmounted(rs, kept)
<1>1. \A s \in InFlight(new) :
        /\ s \in InFlight(rs) /\ new[s].kind = rs[s].kind /\ new[s].job = rs[s].job
        /\ new[s].phase = rs[s].phase /\ new[s].base = rs[s].base
  BY UnmountedFacts
<1> HIDE DEF new
<1>2. DatedRequests(new, stored)
  BY <1>1 DEF DatedRequests
<1> QED BY <1>2 DEF new

\* A request that was just sent has read nothing.
LEMMA SentDated ==
  ASSUME NEW rs \in Requests, DatedRequests(rs, stored), NEW R \in SUBSET RequestRecords,
         IsFiniteSet(R), Cardinality(R) <= Cardinality(Free(rs)), \A r \in R : r.phase = "sent"
  PROVE  DatedRequests(Sent(rs, R), stored)
<1> DEFINE new == Sent(rs, R)
<1>1. \A s \in Slots : new[s] = rs[s] \/ new[s] \in R
  BY SentFacts
<1> HIDE DEF new
<1>2. \A s \in InFlight(new) : new[s].phase # "sent" => s \in InFlight(rs) /\ new[s] = rs[s]
  BY <1>1 DEF InFlight
<1>3. DatedRequests(new, stored)
  BY <1>2 DEF DatedRequests
<1> QED BY <1>3 DEF new

\* An answer takes no other request's copy away.
LEMMA GoneDated ==
  ASSUME TypeInv, DatedRequests(requests, stored), NEW s \in Slots
  PROVE  DatedRequests(Gone(s), stored)
  BY TypeFacts, GoneFacts DEF DatedRequests

\* A request in slot s that is answered, or read, with copy base.
LEMMA BecomesDated ==
  ASSUME TypeInv, NEW s \in Slots, requests[s] # Idle, NEW phase \in {"holding", "answered"},
         NEW base \in Entries, Becomes(s, phase, base),
         phase = "holding" => requests[s].kind \in Buttons \cup BulkButtons /\ base.job # NoJob,
         Dated(stored', requests[s].job, base),
         \A t \in InFlight(requests) : requests[t].kind \in Writes /\ requests[t].phase # "sent"
                                       => Dated(stored', requests[t].job, requests[t].base)
  PROVE  DatedRequests(requests', stored')
<1>1. /\ \A t \in Slots : t # s => requests'[t] = requests[t]
      /\ requests'[s].job = requests[s].job /\ requests'[s].base = base
  BY BecomesFacts
<1>2. ASSUME NEW t \in InFlight(requests'), requests'[t].kind \in Writes, requests'[t].phase # "sent"
      PROVE  Dated(stored', requests'[t].job, requests'[t].base)
  <2>1. CASE t = s
    BY <1>1, <2>1
  <2>2. CASE t # s
    <3>1. requests'[t] = requests[t] /\ t \in InFlight(requests)
      BY <1>1, <2>2 DEF InFlight
    <3> QED BY <1>2, <3>1
  <2> QED BY <2>1, <2>2
<1> QED BY <1>2 DEF DatedRequests

CopiesInv == ServerInv /\ DatedRequests(requests, stored)

\* The servers' copies depend on nothing else.
LEMMA ServerCopiesStay ==
  ASSUME ServerInv, UNCHANGED serverVars
  PROVE  ServerInv'
  BY DEF ServerInv, serverVars

\* Opening a page keeps the copies dated.
LEMMA MountCopies ==
  ASSUME TypeInv, CopiesInv, NEW p, NEW kept \in SUBSET Buttons, NEW qs \in Queries,
         NEW tok \in Tokens \cup {NoToken}, Mount(p, kept, requests, qs, tok),
         UNCHANGED serverVars
  PROVE  CopiesInv'
<1> DEFINE left == Unmounted(requests, kept)
           R == NewRequests(p, tok)
<1>1. /\ requests' = Sent(left, R) /\ left \in Requests /\ R \in SUBSET RequestRecords
      /\ IsFiniteSet(R) /\ Cardinality(R) <= Cardinality(Free(left))
      /\ \A r \in R : r.phase = "sent"
  BY MountFacts, NewFacts
<1>2. DatedRequests(left, stored)
  BY TypeFacts, UnmountedDated DEF CopiesInv
<1>3. stored' = stored
  BY DEF serverVars
<1> HIDE DEF left, R
<1>4. DatedRequests(requests', stored')
  BY <1>1, <1>2, <1>3, SentDated
<1> QED BY <1>4, ServerCopiesStay DEF CopiesInv

\* Logging out keeps the copies dated.
LEMMA LoggedOutCopies ==
  ASSUME TypeInv, CopiesInv, NEW rs \in Requests, DatedRequests(rs, stored), LoggedOut(rs),
         UNCHANGED serverVars
  PROVE  CopiesInv'
<1>1. requests' = Unmounted(rs, {}) /\ stored' = stored
  BY DEF LoggedOut, serverVars
<1>2. DatedRequests(requests', stored')
  BY <1>1, UnmountedDated
<1> QED BY <1>2, ServerCopiesStay DEF CopiesInv

\* Sending requests keeps the copies dated.
LEMMA SendCopies ==
  ASSUME TypeInv, CopiesInv, NEW R \in SUBSET RequestRecords, IsFiniteSet(R),
         Cardinality(R) <= Cardinality(Free(requests)), \A r \in R : r.phase = "sent",
         requests' = Sent(requests, R), UNCHANGED serverVars
  PROVE  CopiesInv'
<1>1. DatedRequests(requests', stored')
  BY TypeFacts, SentDated DEF CopiesInv, serverVars
<1> QED BY <1>1, ServerCopiesStay DEF CopiesInv

\* The same for one request.
LEMMA SendOneCopies ==
  ASSUME TypeInv, CopiesInv, NEW r \in RequestRecords, r.phase = "sent",
         1 <= Cardinality(Free(requests)), requests' = Sent(requests, {r}),
         UNCHANGED serverVars
  PROVE  CopiesInv'
<1>1. IsFiniteSet({r}) /\ Cardinality({r}) = 1 /\ {r} \in SUBSET RequestRecords
  BY FS_Singleton
<1> QED BY <1>1, SendCopies

\* Only the servers and the requests have dated copies.
LEMMA CopiesStay ==
  ASSUME CopiesInv, UNCHANGED <<serverVars, requests>>
  PROVE  CopiesInv'
<1>1. ServerInv'
  BY ServerCopiesStay DEF CopiesInv
<1>2. requests' = requests /\ stored' = stored
  BY DEF serverVars
<1> QED BY <1>1, <1>2 DEF CopiesInv

\* What the user does keeps the copies dated.
LEMMA UserCopies ==
  ASSUME TypeInv, CopiesInv, User
  PROVE  CopiesInv'
<1>1. ASSUME NEW p \in Places, Open(p) PROVE CopiesInv'
  <2>1. PICK kept \in Kept(p) : Mount(p, kept, requests, queries, token)
    BY <1>1 DEF Open
  <2>2. kept \in SUBSET Buttons /\ UNCHANGED serverVars
    BY <1>1, KeptFacts DEF Open
  <2> QED BY <2>1, <2>2, TypeFacts, MountCopies
<1>2. ASSUME NEW t \in Tokens, SignIn(t) PROVE CopiesInv'
  <2>1. /\ Mount(At("dashboard", NoJob), {}, requests, queries, t) /\ t \in Tokens \cup {NoToken}
        /\ {} \in SUBSET Buttons /\ UNCHANGED serverVars
    BY <1>2 DEF SignIn
  <2> QED BY <2>1, TypeFacts, MountCopies
<1>3. ASSUME SignOut PROVE CopiesInv'
  BY <1>3, TypeFacts, LoggedOutCopies DEF SignOut, CopiesInv
<1>4. ASSUME Pressed PROVE CopiesInv'
  <2>b. PICK b \in Components : \E R : PressOf(b, R)
    BY <1>4, PressedFacts
  <2>1. PICK R : PressOf(b, R)
    BY <2>b
  <2>2. /\ Cardinality(R) <= Cardinality(Free(requests)) /\ requests' = Sent(requests, R)
        /\ R \in SUBSET RequestRecords /\ IsFiniteSet(R)
    BY <2>1, PressFacts DEF PressOf
  <2> QED BY <2>1, <2>2, SendCopies DEF PressOf, Press
<1>5. ASSUME Save PROVE CopiesInv'
  <2>1. /\ Mount(JobsPage, {}, requests, queries, token) /\ {} \in SUBSET Buttons
        /\ UNCHANGED serverVars
    BY <1>5 DEF Save
  <2> QED BY <2>1, TypeFacts, MountCopies
<1>6. ASSUME Undo \/ \E j \in Jobs : BulkDelete(j) PROVE CopiesInv'
  BY <1>6, CopiesStay DEF Undo, BulkDelete
<1>7. ASSUME NEW j \in Jobs, NEW d \in Records, Create(j, d) PROVE CopiesInv'
  <2> DEFINE r == Request("create", j, token, [Nobody EXCEPT !.job = d], cache[j])
  <2>1. /\ r \in RequestRecords /\ r.phase = "sent"
        /\ requests' = Sent(requests, {r}) /\ 1 <= Cardinality(Free(requests))
    BY <1>7, CreateFacts
  <2>2. UNCHANGED serverVars
    BY <1>7 DEF Create
  <2> HIDE DEF r
  <2> QED BY <2>1, <2>2, SendOneCopies
<1> QED BY <1>1, <1>2, <1>3, <1>4, <1>5, <1>6, <1>7 DEF User, Pressed

\* Reads and writes of handlers keep the copies dated.
LEMMA ServerStepCopies ==
  ASSUME TypeInv, CopiesInv,
         \/ Flush
         \/ \E s \in Slots : Serve(s)
         \/ CatchUp
         \/ \E q \in Jobs : HandleQuery(q)
         \/ Environment
  PROVE  CopiesInv'
<1>1. ASSUME Flush PROVE CopiesInv'
  <2> DEFINE r == [pending EXCEPT !.token = token]
  <2>1. /\ r \in RequestRecords /\ r.phase = "sent"
        /\ requests' = Sent(requests, {r}) /\ 1 <= Cardinality(Free(requests))
    BY <1>1, FlushedFacts
  <2>2. UNCHANGED serverVars
    BY <1>1 DEF Flush
  <2> HIDE DEF r
  <2> QED BY <2>1, <2>2, SendOneCopies
<1>2. ASSUME NEW s \in Slots, ReadToggle(s) \/ ReadRun(s) PROVE CopiesInv'
  <2>1. /\ requests[s] # Idle /\ requests[s].kind \in Buttons \cup BulkButtons
        /\ requests[s].job \in Jobs /\ UNCHANGED serverVars
    BY <1>2, ReadFacts
  <2>2. PICK e \in {local[requests[s].job], stored[requests[s].job]} :
          e \in Entries /\ e.job # NoJob /\ Becomes(s, "holding", e)
    BY <1>2, ReadFacts
  <2>3. Dated(stored, requests[s].job, e)
    BY <2>1, <2>2 DEF CopiesInv, ServerInv, Dated
  <2>4. stored' = stored
    BY <2>1 DEF serverVars
  <2>5. DatedRequests(requests', stored')
    BY <2>1, <2>2, <2>3, <2>4, BecomesDated DEF CopiesInv, DatedRequests
  <2> QED BY <2>1, <2>5, ServerCopiesStay DEF CopiesInv
<1>3. ASSUME NEW k \in Jobs, NEW r \in Records \cup {NoJob}, Commit(k, r)
      PROVE  /\ ServerInv'
             /\ \A t \in InFlight(requests) : requests[t].kind \in Writes /\ requests[t].phase # "sent"
                                              => Dated(stored', requests[t].job, requests[t].base)
  <2>1. ServerInv'
    BY <1>3, CommitCopies DEF CopiesInv
  <2>2. ASSUME NEW t \in InFlight(requests), requests[t].kind \in Writes, requests[t].phase # "sent"
        PROVE  Dated(stored', requests[t].job, requests[t].base)
    <3>1. t \in Slots /\ requests[t] # Idle
      BY DEF InFlight
    <3>2. requests[t].job \in Jobs /\ requests[t].base \in Entries
      BY <2>2, <3>1, RequestAt
    <3>3. Dated(stored, requests[t].job, requests[t].base)
      BY <2>2 DEF CopiesInv, DatedRequests
    <3> QED BY <1>3, <3>2, <3>3, DatedStays
  <2> QED BY <2>1, <2>2
<1>4. ASSUME NEW s \in Slots, WriteToggle(s) \/ WriteRun(s) \/ HandleWrite(s) PROVE CopiesInv'
  <2>1. /\ requests[s] # Idle /\ requests[s].job \in Jobs
        /\ Commit(requests[s].job, Written(s)) /\ Written(s) \in Records \cup {NoJob}
        /\ Becomes(s, "answered", stored'[requests[s].job])
    BY <1>4, WriteFacts
  <2>2. stored'[requests[s].job] \in Entries
    BY <2>1, CommitFacts
  <2>3. Dated(stored', requests[s].job, stored'[requests[s].job])
    BY DEF Dated
  <2>4. /\ ServerInv'
        /\ \A t \in InFlight(requests) : requests[t].kind \in Writes /\ requests[t].phase # "sent"
                                         => Dated(stored', requests[t].job, requests[t].base)
    BY <1>3, <2>1
  <2>5. DatedRequests(requests', stored')
    BY <2>1, <2>2, <2>3, <2>4, BecomesDated
  <2> QED BY <2>4, <2>5 DEF CopiesInv
<1>5. ASSUME CatchUp PROVE CopiesInv'
  <2>1. UNCHANGED <<stored, requests>>
    BY <1>5 DEF CatchUp
  <2>2. ServerInv'
    BY <1>5, CatchUpCopies DEF CopiesInv
  <2> QED BY <2>1, <2>2 DEF CopiesInv
<1>6. ASSUME NEW q \in Jobs, HandleQuery(q) PROVE CopiesInv'
  BY <1>6, CopiesStay DEF HandleQuery
<1>7. ASSUME NEW j \in Jobs, NEW r \in Records \cup {NoJob}, OtherWrite(j, r) PROVE CopiesInv'
  <2>1. Commit(j, r) /\ requests' = requests
    BY <1>7 DEF OtherWrite
  <2>2. ServerInv' /\ DatedRequests(requests', stored')
    BY <1>3, <2>1 DEF DatedRequests
  <2> QED BY <2>2 DEF CopiesInv
<1>8. ASSUME NEW t \in Tokens, Revoke(t) PROVE CopiesInv'
  BY <1>8 DEF Revoke, CopiesInv, ServerInv
<1> QED BY <1>1, <1>2, <1>4, <1>5, <1>6, <1>7, <1>8 DEF Serve, Environment

\* Answers keep the copies dated.
LEMMA DeliverCopies ==
  ASSUME TypeInv, CopiesInv,
         \/ \E s \in Slots : DeliverWrite(s) \/ DeliverFetch(s)
         \/ \E q \in Jobs : DeliverQuery(q) \/ FailQuery(q)
         \/ HookRefused
  PROVE  CopiesInv'
<1>1. ASSUME NEW s \in Slots, DeliverWrite(s) \/ DeliverFetch(s) PROVE CopiesInv'
  <2>1. requests' = Gone(s) /\ UNCHANGED serverVars
    BY <1>1 DEF DeliverWrite, DeliverFetch
  <2>2. stored' = stored
    BY <2>1 DEF serverVars
  <2>3. DatedRequests(requests', stored')
    BY <2>1, <2>2, GoneDated DEF CopiesInv
  <2> QED BY <2>1, <2>3, ServerCopiesStay DEF CopiesInv
<1>2. ASSUME NEW q \in Jobs, DeliverQuery(q) PROVE CopiesInv'
  BY <1>2, CopiesStay DEF DeliverQuery
<1>3. ASSUME NEW q \in Jobs, FailQuery(q) PROVE CopiesInv'
  <2> DEFINE rest == [queries EXCEPT ![q] = Idle]
  <2>1. rest \in Queries /\ {} \in SUBSET Buttons /\ token \in Tokens \cup {NoToken}
    BY TypeFacts DEF Queries
  <2>2. /\ UNCHANGED serverVars
        /\ \/ Mount(JobsPage, {}, requests, rest, token)
           \/ UNCHANGED requests
    BY <1>3 DEF FailQuery
  <2> HIDE DEF rest
  <2> QED BY <2>1, <2>2, MountCopies, CopiesStay
<1>4. ASSUME HookRefused PROVE CopiesInv'
  <2>1. PICK rs : LoggedOut(rs) /\ rs \in Requests /\ DatedRequests(rs, stored)
    <3>1. LoggedOut(requests) \/ \E s \in Slots : LoggedOut(Gone(s))
      BY <1>4 DEF HookRefused
    <3>2. requests \in Requests /\ DatedRequests(requests, stored)
      BY TypeFacts DEF CopiesInv
    <3>3. \A s \in Slots : Gone(s) \in Requests /\ DatedRequests(Gone(s), stored)
      BY <3>2, TypeFacts, GoneFacts, GoneDated DEF RequestsOK
    <3> QED BY <3>1, <3>2, <3>3
  <2>2. UNCHANGED serverVars
    BY <1>4 DEF HookRefused
  <2> QED BY <2>1, <2>2, LoggedOutCopies
<1> QED BY <1>1, <1>2, <1>3, <1>4

\* Every step keeps the copies dated.
LEMMA CopySteps == TypeInv /\ CopiesInv /\ [Next]_vars => CopiesInv'
<1> SUFFICES ASSUME TypeInv, CopiesInv, [Next]_vars PROVE CopiesInv'
  OBVIOUS
<1>1. CASE UNCHANGED vars
  BY <1>1, CopiesStay DEF vars, serverVars
<1>2. CASE User
  BY <1>2, UserCopies
<1>3. CASE \/ Environment \/ CatchUp \/ Flush \/ \E q \in Jobs : HandleQuery(q)
           \/ \E s \in Slots : Serve(s)
  BY <1>3, ServerStepCopies
<1>4. CASE \/ HookRefused \/ \E q \in Jobs : DeliverQuery(q) \/ FailQuery(q)
           \/ \E s \in Slots : DeliverWrite(s) \/ DeliverFetch(s)
  BY <1>4, DeliverCopies
<1> QED BY <1>1, <1>2, <1>3, <1>4 DEF Next

\* Only a write of a request, or of someone else, changes what the leader stores.
LEMMA StoredChanges ==
  ASSUME [Next]_vars, stored' # stored
  PROVE  \/ \E s \in Slots : WriteToggle(s) \/ WriteRun(s) \/ HandleWrite(s)
         \/ UNCHANGED requests
<1>1. UNCHANGED vars \/ UNCHANGED serverVars => stored' = stored
  BY DEF vars, serverVars
<1>2. CASE User
  <2>1. UNCHANGED serverVars
    BY <1>2 DEF User, Open, SignIn, SignOut, PressButton, PressBulk, LoadFull, Press, Save,
             BulkDelete, Undo, Create
  <2> QED BY <1>1, <2>1
<1>3. CASE Flush \/ HookRefused \/ \E q \in Jobs : HandleQuery(q) \/ DeliverQuery(q) \/ FailQuery(q)
  <2>1. UNCHANGED serverVars
    BY <1>3 DEF Flush, HookRefused, HandleQuery, DeliverQuery, FailQuery
  <2> QED BY <1>1, <2>1
<1>4. CASE \E s \in Slots : DeliverWrite(s) \/ DeliverFetch(s) \/ ReadToggle(s) \/ ReadRun(s)
  <2>1. UNCHANGED serverVars
    BY <1>4 DEF DeliverWrite, DeliverFetch, ReadToggle, ReadRun
  <2> QED BY <1>1, <2>1
<1>5. CASE Environment \/ CatchUp
  BY <1>5 DEF Environment, OtherWrite, Revoke, CatchUp
<1> QED BY <1>1, <1>2, <1>3, <1>4, <1>5 DEF Next, Serve

\* A request that was held and is answered leaves of its job what it makes of
\* the copy it holds; if that is the stored job, no other edit is lost.
LEMMA HeldWrites ==
  ASSUME TypeInv, CopiesInv, NEW s \in Slots, WriteToggle(s) \/ WriteRun(s) \/ HandleWrite(s),
         requests[s].kind \in Buttons \cup BulkButtons,
         requests[s].base.version = stored[requests[s].job].version
  PROVE  LET j == requests[s].job
         IN /\ stored[j].job # NoJob
            /\ requests[s].kind \in {"run", "bulkRun"} => stored'[j].job = stored[j].job
            /\ requests[s].kind \notin {"run", "bulkRun"} =>
                 stored'[j].job # NoJob /\ stored'[j].job.config = stored[j].job.config
<1> DEFINE j == requests[s].job
<1>1. /\ requests[s] # Idle /\ requests[s].kind \in Writes /\ j \in Jobs
      /\ requests[s].phase = "holding" \/ (requests[s].phase = "sent" /\ requests[s].kind \in HookWrites)
      /\ Commit(j, Written(s)) /\ Written(s) \in Records \cup {NoJob}
  BY WriteFacts
<1>2. requests[s].phase = "holding" /\ requests[s].base.job # NoJob /\ requests[s].base \in Entries
  <2>1. requests[s].kind \notin HookWrites
    BY DEF Buttons, BulkButtons, HookWrites
  <2> QED BY <1>1, <2>1, RequestAt
<1>3. Dated(stored, j, requests[s].base)
  BY <1>1, <1>2 DEF CopiesInv, DatedRequests, InFlight
<1>4. requests[s].base = stored[j]
  <2>1. stored[j].version \in Nat
    BY <1>1, TypeFacts DEF Entries
  <2> QED BY <1>3, <2>1 DEF Dated
<1>5. stored'[j].job = Written(s)
  BY <1>1, CommitFacts
<1>6. stored[j].job # NoJob /\ stored[j].job \in Records
  BY <1>2, <1>4 DEF Entries
<1>7. CASE requests[s].kind \in {"run", "bulkRun"}
  <2>1. stored'[j].job = stored[j].job
    BY <1>4, <1>5, <1>7 DEF Written
  <2> QED BY <1>6, <1>7, <2>1
<1>8. CASE requests[s].kind \notin {"run", "bulkRun"}
  <2>1. requests[s].kind \in {"toggle", "bulkToggle"}
    BY <1>8 DEF Buttons, BulkButtons
  <2>2. stored'[j].job = Toggled(stored[j].job)
    BY <1>4, <1>5, <2>1 DEF Written
  <2>3. Toggled(stored[j].job) \in Records /\ Toggled(stored[j].job).config = stored[j].job.config
    BY <1>6, ChangesFacts
  <2>4. stored'[j].job # NoJob
    BY <2>2, <2>3, ConstantsAssumption
  <2> QED BY <1>6, <1>8, <2>2, <2>3, <2>4
<1> QED BY <1>7, <1>8

\* A write of a button that read the leader's latest job changes what it should.
LEMMA EditSteps ==
  ASSUME TypeInv, CopiesInv, [Next]_vars, NEW s \in Slots, NEW j \in Jobs,
         requests[s] # Idle, requests[s].kind \in Buttons \cup BulkButtons, requests[s].job = j,
         stored'[j] # stored[j], requests'[s] # requests[s],
         requests[s].base.version = stored[j].version
  PROVE  IF requests[s].kind \in {"run", "bulkRun"} THEN stored'[j].job = stored[j].job
         ELSE /\ stored[j].job # NoJob /\ stored'[j].job # NoJob
              /\ stored'[j].job.config = stored[j].job.config
<1>1. PICK t \in Slots : WriteToggle(t) \/ WriteRun(t) \/ HandleWrite(t)
  BY StoredChanges
<1>2. t = s
  <2>1. /\ requests[t] # Idle /\ requests[t].job \in Jobs
        /\ Commit(requests[t].job, Written(t)) /\ Written(t) \in Records \cup {NoJob}
        /\ Becomes(t, "answered", stored'[requests[t].job])
    BY <1>1, WriteFacts
  <2>2. stored'[requests[t].job] \in Entries
    BY <2>1, CommitFacts
  <2>3. s # t => requests'[s] = requests[s]
    BY <2>1, <2>2, BecomesFacts
  <2> QED BY <2>3
<1> QED BY <1>1, <1>2, HeldWrites

\* A toggle or a run never undoes an edit that it could have read: it changes
\* another field, or brings a deleted job back, only when the job was written
\* after the copy it sends was read (api.go:554, run.go:27).
THEOREM EditsAreLostOnlyToRaces == Spec => EditsLostOnlyToRaces
<1>1. Init => TypeInv /\ CopiesInv
  BY InitTypes, InitCopies DEF CopiesInv
<1>2. TypeInv /\ CopiesInv /\ [Next]_vars => (TypeInv /\ CopiesInv)'
  BY TypeSteps, CopySteps
<1>3. TypeInv /\ CopiesInv /\ [Next]_vars =>
        [\A s \in Slots, j \in Jobs :
           LET r == requests[s]
               old == stored[j].job
               new == stored'[j].job
           IN (/\ r # Idle /\ r.kind \in Buttons \cup BulkButtons /\ r.job = j
               /\ stored'[j] # stored[j] /\ requests'[s] # r
               /\ r.base.version = stored[j].version)
             => IF r.kind \in {"run", "bulkRun"} THEN new = old
                ELSE old # NoJob /\ new # NoJob /\ new.config = old.config]_vars
  BY EditSteps
<1> QED BY <1>1, <1>2, <1>3, PTL DEF Spec, EditsLostOnlyToRaces

-----------------------------------------------------------------------------
(* What an open page shows *)

\* The last write that the open page of job j was told of is no newer than the
\* stored job; its copy, once it fetches no more, and the answer on its way to
\* it are no older, but for an answer of a server that was behind.
Current(j) ==
  /\ own[j] <= stored[j].version
  /\ queries[j] = Idle => cache[j].version >= own[j]
  /\ queries[j] # Idle /\ queries[j].phase = "answered" =>
       queries[j].lagged \/ queries[j].copy.version >= own[j]

OwnInv == \A j \in Jobs : page.name \in ShowPages /\ page.job = j => Current(j)

\* The invariant about answers under way gives what the run checks.
LEMMA OwnIsShown == OwnInv => OwnWritesShown
  BY DEF OwnInv, OwnWritesShown, Current

\* Versions are numbers.
LEMMA VersionFacts ==
  ASSUME TypeInv, NEW j \in Jobs
  PROVE  /\ own[j] \in Nat /\ stored[j].version \in Nat /\ cache[j].version \in Nat
         /\ local[j].version \in Nat
         /\ queries[j] # Idle => queries[j].copy.version \in Nat
<1>1. cache[j] \in Entries /\ stored[j] \in Entries /\ local[j] \in Entries
  BY TypeFacts
<1>2. own[j] \in Nat
  BY DEF TypeInv, TabTypes
<1>3. queries[j] # Idle => queries[j].copy \in Entries
  BY TypeFacts DEF Queries, QueryRecords
<1> QED BY <1>1, <1>2, <1>3 DEF Entries

\* Nothing is shown at the start.
LEMMA InitOwn == Init => OwnInv
  BY DEF Init, OwnInv, At, ShowPages

\* A page that is opened has been told of nothing.
LEMMA MountOwn ==
  ASSUME TypeInv, TypeInv', NEW p, NEW kept, NEW qs, NEW tok, Mount(p, kept, requests, qs, tok)
  PROVE  OwnInv'
<1>1. ASSUME NEW j \in Jobs PROVE Current(j)'
  <2>1. own'[j] = 0
    BY DEF Mount
  <2>2. /\ stored'[j].version \in Nat /\ cache'[j].version \in Nat
        /\ queries'[j] # Idle => queries'[j].copy.version \in Nat
    <3>1. stored'[j] \in Entries /\ cache'[j] \in Entries
      BY DEF TypeInv, ServerTypes, TabTypes
    <3>2. queries'[j] # Idle => queries'[j].copy \in Entries
      BY DEF TypeInv, TabTypes, Queries, QueryRecords
    <3> QED BY <3>1, <3>2 DEF Entries
  <2> QED BY <2>1, <2>2 DEF Current
<1> QED BY <1>1 DEF OwnInv

\* Nothing is asked of a page that shows no job.
LEMMA HiddenOwn ==
  ASSUME page'.name \notin ShowPages
  PROVE  OwnInv'
  BY DEF OwnInv

\* What is shown depends on nothing else.
LEMMA OwnStays ==
  ASSUME OwnInv, UNCHANGED <<page, own, cache, queries, stored>>
  PROVE  OwnInv'
  BY DEF OwnInv, Current

\* What the user does shows nothing older than the writes the page was told of.
LEMMA UserOwn ==
  ASSUME TypeInv, TypeInv', OwnInv, User
  PROVE  OwnInv'
<1>1. ASSUME (\E p \in Places : Open(p)) \/ (\E t \in Tokens : SignIn(t)) \/ Save PROVE OwnInv'
  <2>1. \E p, kept, tok : Mount(p, kept, requests, queries, tok)
    BY <1>1 DEF Open, SignIn, Save
  <2> QED BY <2>1, MountOwn
<1>2. ASSUME SignOut PROVE OwnInv'
  <2>1. page' = At("login", NoJob)
    BY <1>2 DEF SignOut, LoggedOut
  <2> QED BY <2>1, HiddenOwn DEF At, ShowPages
<1>3. ASSUME Pressed PROVE OwnInv'
  <2>1. UNCHANGED <<page, own, cache, queries, stored>>
    BY <1>3 DEF Pressed, PressButton, PressBulk, LoadFull, Press, serverVars
  <2> QED BY <2>1, OwnStays
<1>4. ASSUME NEW j \in Jobs, BulkDelete(j) PROVE OwnInv'
  <2>1. page'.name = "jobs"
    BY <1>4 DEF BulkDelete
  <2> QED BY <2>1, HiddenOwn DEF ShowPages
<1>5. ASSUME Undo PROVE OwnInv'
  <2>1. pending.job \in Jobs /\ pending.before \in Entries
    BY <1>5 DEF Undo, TypeInv, PendingTypes, RequestRecords
  <2>2. /\ cache' = [cache EXCEPT ![pending.job] = pending.before]
        /\ own' = [own EXCEPT ![pending.job] = 0]
        /\ page' = page /\ queries' = queries /\ stored' = stored
    BY <1>5 DEF Undo, serverVars
  <2>3. own \in [Jobs -> Nat] /\ cache \in [Jobs -> Entries]
    BY DEF TypeInv, TabTypes
  <2>4. ASSUME NEW j \in Jobs, page.name \in ShowPages /\ page.job = j PROVE Current(j)'
    <3>1. CASE j # pending.job
      <4>1. own'[j] = own[j] /\ cache'[j] = cache[j]
        BY <2>2, <2>3, <3>1
      <4> QED BY <2>2, <2>4, <4>1 DEF OwnInv, Current
    <3>2. CASE j = pending.job
      <4>1. own'[j] = 0 /\ cache'[j].version \in Nat
        BY <2>1, <2>2, <2>3, <3>2 DEF Entries
      <4> QED BY <2>2, <4>1, VersionFacts DEF Current
    <3> QED BY <3>1, <3>2
  <2> QED BY <2>2, <2>4 DEF OwnInv
<1>6. ASSUME NEW j \in Jobs, NEW d \in Records, Create(j, d) PROVE OwnInv'
  <2>1. UNCHANGED <<page, own, cache, queries, stored>>
    BY <1>6 DEF Create, serverVars, tabVars
  <2> QED BY <2>1, OwnStays
<1> QED BY <1>1, <1>2, <1>3, <1>4, <1>5, <1>6 DEF User, Pressed

\* A write of the leader makes no page less current.
LEMMA CommitOwn ==
  ASSUME TypeInv, OwnInv, NEW k \in Jobs, NEW r \in Records \cup {NoJob}, Commit(k, r),
         UNCHANGED <<page, own, cache, queries>>
  PROVE  OwnInv'
<1>1. ASSUME NEW j \in Jobs PROVE stored[j].version <= stored'[j].version
  <2>1. stored'[j] = stored[j] \/ stored'[j].version = stored[j].version + 1
    BY CommitFacts
  <2>2. PICK m \in Nat : m = stored[j].version
    BY VersionFacts
  <2> QED BY <2>1, <2>2
<1>2. ASSUME NEW j \in Jobs, page.name \in ShowPages /\ page.job = j PROVE Current(j)'
  <2>1. own[j] <= stored[j].version /\ Current(j)
    BY <1>2 DEF OwnInv, Current
  <2>2. stored'[j].version \in Nat
    <3>1. stored'[j].version = stored[j].version \/ stored'[j].version = stored[j].version + 1
      BY CommitFacts
    <3> QED BY <3>1, VersionFacts
  <2>3. own[j] <= stored'[j].version
    BY <1>1, <2>1, <2>2, VersionFacts
  <2> QED BY <2>1, <2>3 DEF Current
<1> QED BY <1>2 DEF OwnInv

\* An answer made now is no older than those writes, unless the server lags.
LEMMA ServerStepOwn ==
  ASSUME TypeInv, CopiesInv, OwnInv,
         \/ Flush
         \/ \E s \in Slots : Serve(s)
         \/ CatchUp
         \/ \E q \in Jobs : HandleQuery(q)
         \/ Environment
  PROVE  OwnInv'
<1>1. ASSUME Flush \/ CatchUp \/ (\E t \in Tokens : Revoke(t))
             \/ \E s \in Slots : ReadToggle(s) \/ ReadRun(s)
      PROVE  OwnInv'
  <2>1. UNCHANGED <<page, own, cache, queries, stored>>
    BY <1>1 DEF Flush, CatchUp, Revoke, ReadToggle, ReadRun, Unhandled, serverVars, tabVars
  <2> QED BY <2>1, OwnStays
<1>2. ASSUME NEW s \in Slots, WriteToggle(s) \/ WriteRun(s) \/ HandleWrite(s) PROVE OwnInv'
  <2>1. /\ requests[s].job \in Jobs /\ UNCHANGED <<tabVars, queries, own>>
        /\ Commit(requests[s].job, Written(s)) /\ Written(s) \in Records \cup {NoJob}
    BY <1>2, WriteFacts
  <2> QED BY <2>1, CommitOwn DEF tabVars
<1>3. ASSUME NEW j \in Jobs, NEW r \in Records \cup {NoJob}, OtherWrite(j, r) PROVE OwnInv'
  BY <1>3, CommitOwn DEF OtherWrite, tabVars
<1>4. ASSUME NEW q \in Jobs, HandleQuery(q) PROVE OwnInv'
  <2> DEFINE copy == local[q]
             lagged == behind # <<>>
  <2>1. /\ queries[q] # Idle /\ UNCHANGED <<stored, page, cache, own>>
        /\ queries' = [queries EXCEPT ![q].copy = copy, ![q].lagged = lagged, ![q].phase = "answered"]
    BY <1>4 DEF HandleQuery, serverVars, tabVars
  <2>2. lagged \/ copy = stored[q]
    <3>1. CASE behind = <<>>
      <4>1. Len(behind) = 0
        BY <3>1
      <4>2. local[q] = stored[q]
        BY <4>1 DEF CopiesInv, ServerInv
      <4> QED BY <4>2
    <3> QED BY <3>1
  <2>3. queries[q] \in QueryRecords /\ queries \in Queries /\ copy \in Entries /\ lagged \in BOOLEAN
    BY <2>1, TypeFacts DEF Queries
  <2> HIDE DEF copy, lagged
  <2> DEFINE a == [queries[q] EXCEPT !.copy = copy, !.lagged = lagged, !.phase = "answered"]
  <2>4. a \in QueryRecords /\ a.copy = copy /\ (lagged => a.lagged)
    BY <2>3 DEF QueryRecords
  <2>5. queries' = [queries EXCEPT ![q] = a]
    BY <2>1, <2>3 DEF Queries
  <2> HIDE DEF a
  <2>6. queries'[q] = a /\ a # Idle /\ \A j \in Jobs : j # q => queries'[j] = queries[j]
    BY <2>3, <2>4, <2>5, IdleIsNoQuery DEF Queries
  <2>7. ASSUME NEW j \in Jobs, page.name \in ShowPages /\ page.job = j PROVE Current(j)'
    <3>1. Current(j)
      BY <2>7 DEF OwnInv
    <3>2. CASE j # q
      BY <2>1, <2>6, <3>1, <3>2 DEF Current
    <3>3. CASE j = q
      <4>1. own[j] <= stored[j].version /\ own[j] \in Nat /\ stored[j].version \in Nat
        BY <3>1, VersionFacts DEF Current
      <4>2. copy = stored[j] => a.copy.version >= own[j]
        BY <2>4, <4>1
      <4>3. queries'[j].lagged \/ queries'[j].copy.version >= own'[j]
        BY <2>1, <2>2, <2>4, <2>6, <3>3, <4>2
      <4> QED BY <2>1, <2>6, <3>3, <4>1, <4>3 DEF Current
    <3> QED BY <3>2, <3>3
  <2> QED BY <2>1, <2>7 DEF OwnInv
<1> QED BY <1>1, <1>2, <1>3, <1>4 DEF Serve, Environment

\* An answer that arrives is no older than those writes, unless its server lagged.
LEMMA DeliverOwn ==
  ASSUME TypeInv, TypeInv', CopiesInv, OwnInv,
         \/ \E s \in Slots : DeliverWrite(s) \/ DeliverFetch(s)
         \/ \E q \in Jobs : DeliverQuery(q) \/ FailQuery(q)
         \/ HookRefused
  PROVE  OwnInv'
<1>1. ASSUME NEW s \in Slots, DeliverWrite(s) PROVE OwnInv'
  <2> DEFINE r == requests[s]
  <2>1. /\ r # Idle /\ r.kind \in Writes /\ UNCHANGED <<stored, page>>
    BY <1>1 DEF DeliverWrite, serverVars
  <2>2. PICK outcome \in Outcomes(r) :
          /\ own' = Told(r, outcome)
          /\ cache' = IF TakenBack(r, outcome) THEN [cache EXCEPT ![r.job] = r.before] ELSE cache
          /\ queries' = IF AfterPress(r.kind, outcome)
                          THEN Refetched(queries, QueriesOf(page), token) ELSE queries
    BY <1>1 DEF DeliverWrite
  <2>3. r.job \in Jobs /\ r.base \in Entries /\ s \in InFlight(requests)
    BY <2>1, RequestAt
  <2>4. outcome = "answered" => r.base.version <= stored[r.job].version
    <3>1. outcome = "answered" => r.phase = "answered"
      BY <2>2 DEF Outcomes
    <3>2. r.phase = "answered" => Dated(stored, r.job, r.base)
      BY <2>1, <2>3 DEF CopiesInv, DatedRequests
    <3>3. r.base.version \in Nat /\ stored[r.job].version \in Nat
      BY <2>3, VersionFacts DEF Entries
    <3> QED BY <3>1, <3>2, <3>3 DEF Dated
  <2> HIDE DEF r
  <2>5. CASE AfterPress(r.kind, outcome)
    <3>1. ASSUME NEW j \in Jobs, page.name \in ShowPages /\ page.job = j PROVE Current(j)'
      <4>1. j \in QueriesOf(page)
        BY <3>1 DEF QueriesOf, JobPages
      <4>2. queries'[j] = IF queries[j] = Idle \/ cache[j].job # NoJob
                            THEN Query(token) ELSE queries[j]
        BY <2>2, <2>5, <4>1, TypeFacts, FetchedFacts
      <4>3. own \in [Jobs -> Nat] /\ own[j] <= stored[j].version /\ stored[j].version \in Nat
        BY <3>1, VersionFacts DEF TypeInv, TabTypes, OwnInv, Current
      <4>4. \/ own'[j] \in {0, own[j]}
            \/ /\ own'[j] = r.base.version /\ r.job = j /\ outcome = "answered"
               /\ cache[j].job # NoJob
        BY <2>2, <4>3 DEF Told
      <4>5. own'[j] <= stored[j].version
        BY <2>4, <4>3, <4>4
      <4>6. CASE queries[j] = Idle \/ cache[j].job # NoJob
        <5>1. queries'[j] # Idle /\ queries'[j].phase = "sent"
          BY <4>2, <4>6, TypeFacts, QueryFacts, IdleIsNoQuery
        <5> QED BY <2>1, <4>5, <5>1 DEF Current
      <4>7. CASE ~(queries[j] = Idle \/ cache[j].job # NoJob)
        <5>1. queries'[j] = queries[j] /\ queries[j] # Idle /\ own'[j] \in {0, own[j]}
          BY <4>2, <4>4, <4>7
        <5>2. queries[j].copy.version \in Nat /\ own[j] \in Nat
          BY <5>1, VersionFacts
        <5>3. queries[j].phase = "answered" =>
                queries[j].lagged \/ queries[j].copy.version >= own[j]
          BY <3>1, <5>1 DEF OwnInv, Current
        <5> QED BY <2>1, <4>5, <5>1, <5>2, <5>3 DEF Current
      <4> QED BY <4>6, <4>7
    <3> QED BY <2>1, <3>1 DEF OwnInv
  <2>6. CASE ~AfterPress(r.kind, outcome)
    <3>1. r.kind \in Buttons /\ outcome # "answered"
      BY <2>6 DEF AfterPress
    <3>2. ~TakenBack(r, outcome)
      BY <3>1 DEF TakenBack, Buttons
    <3>3. UNCHANGED <<page, own, cache, queries, stored>>
      BY <2>1, <2>2, <2>6, <3>1, <3>2 DEF Told
    <3> QED BY <3>3, OwnStays
  <2> QED BY <2>5, <2>6
<1>2. ASSUME NEW s \in Slots, DeliverFetch(s) PROVE OwnInv'
  BY <1>2, OwnStays DEF DeliverFetch, serverVars
<1>3. ASSUME NEW q \in Jobs, DeliverQuery(q) PROVE OwnInv'
  <2>1. /\ queries[q] # Idle /\ queries[q].phase = "answered"
        /\ queries' = [queries EXCEPT ![q] = Idle]
        /\ cache' = [cache EXCEPT ![q] = queries[q].copy]
        /\ own' = IF queries[q].lagged THEN [own EXCEPT ![q] = 0] ELSE own
        /\ stored' = stored /\ page' = page
    BY <1>3 DEF DeliverQuery, serverVars
  <2>2. own \in [Jobs -> Nat] /\ cache \in [Jobs -> Entries] /\ queries \in Queries
    BY DEF TypeInv, TabTypes
  <2>3. ASSUME NEW j \in Jobs, page.name \in ShowPages /\ page.job = j PROVE Current(j)'
    <3>1. Current(j)
      BY <2>3 DEF OwnInv
    <3>2. CASE j # q
      <4>1. own'[j] = own[j] /\ cache'[j] = cache[j] /\ queries'[j] = queries[j]
        BY <2>1, <2>2, <3>2 DEF Queries
      <4> QED BY <2>1, <3>1, <4>1 DEF Current
    <3>3. CASE j = q
      <4>1. cache'[j] = queries[j].copy /\ queries'[j] = Idle
        BY <2>1, <2>2, <3>3 DEF Queries
      <4>2. queries[j].copy.version \in Nat /\ own[j] \in Nat /\ stored[j].version \in Nat
        BY <2>1, <3>3, VersionFacts
      <4>3. CASE queries[j].lagged
        <5>1. own'[j] = 0
          BY <2>1, <2>2, <3>3, <4>3
        <5> QED BY <2>1, <4>1, <4>2, <5>1 DEF Current
      <4>4. CASE ~queries[j].lagged
        <5>1. own'[j] = own[j]
          BY <2>1, <3>3, <4>4
        <5>2. queries[j].copy.version >= own[j] /\ own[j] <= stored[j].version
          BY <2>1, <3>1, <3>3, <4>4 DEF Current
        <5> QED BY <2>1, <4>1, <5>1, <5>2 DEF Current
      <4> QED BY <4>3, <4>4
    <3> QED BY <3>2, <3>3
  <2> QED BY <2>1, <2>3 DEF OwnInv
<1>4. ASSUME NEW q \in Jobs, FailQuery(q) PROVE OwnInv'
  <2> DEFINE rest == [queries EXCEPT ![q] = Idle]
  <2>1. CASE q = page.job
    <3>1. Mount(JobsPage, {}, requests, rest, token)
      BY <1>4, <2>1 DEF FailQuery
    <3> HIDE DEF rest
    <3> QED BY <3>1, MountOwn
  <2>2. CASE q # page.job
    <3>1. queries' = rest /\ UNCHANGED <<stored, page, cache, own>>
      BY <1>4, <2>2 DEF FailQuery, serverVars
    <3>2. \A j \in Jobs : j # q => queries'[j] = queries[j]
      BY <3>1, TypeFacts DEF Queries
    <3> QED BY <2>2, <3>1, <3>2 DEF OwnInv, Current
  <2> QED BY <2>1, <2>2
<1>5. ASSUME HookRefused PROVE OwnInv'
  <2>1. page' = At("login", NoJob)
    BY <1>5 DEF HookRefused, LoggedOut
  <2> QED BY <2>1, HiddenOwn DEF At, ShowPages
<1> QED BY <1>1, <1>2, <1>3, <1>4, <1>5

\* Every step keeps what the page shows up to date, but for lagging servers.
LEMMA OwnSteps == TypeInv /\ CopiesInv /\ OwnInv /\ [Next]_vars => OwnInv'
<1> SUFFICES ASSUME TypeInv, CopiesInv, OwnInv, [Next]_vars PROVE OwnInv'
  OBVIOUS
<1>1. TypeInv'
  BY TypeSteps
<1>2. CASE UNCHANGED vars
  BY <1>2, OwnStays DEF vars
<1>3. CASE User
  BY <1>1, <1>3, UserOwn
<1>4. CASE \/ Environment \/ CatchUp \/ Flush \/ \E q \in Jobs : HandleQuery(q)
           \/ \E s \in Slots : Serve(s)
  BY <1>4, ServerStepOwn
<1>5. CASE \/ HookRefused \/ \E q \in Jobs : DeliverQuery(q) \/ FailQuery(q)
           \/ \E s \in Slots : DeliverWrite(s) \/ DeliverFetch(s)
  BY <1>1, <1>5, DeliverOwn
<1> QED BY <1>2, <1>3, <1>4, <1>5 DEF Next

\* Whatever fetches were under way before a write, and in whatever order answers
\* arrive, a page that stays open ends up with a copy no older than the writes
\* it was told of, unless the server that answered was behind (RunButton.tsx:17).
THEOREM OwnWritesAreShown == Spec => []OwnWritesShown
<1>1. Init => TypeInv /\ CopiesInv /\ OwnInv
  BY InitTypes, InitCopies, InitOwn DEF CopiesInv
<1>2. TypeInv /\ CopiesInv /\ OwnInv /\ [Next]_vars => (TypeInv /\ CopiesInv /\ OwnInv)'
  BY TypeSteps, CopySteps, OwnSteps
<1>3. OwnInv => OwnWritesShown
  BY OwnIsShown
<1> QED BY <1>1, <1>2, <1>3, PTL DEF Spec

=============================================================================
