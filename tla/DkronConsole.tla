---------------------------- MODULE DkronConsole ----------------------------
(***************************************************************************)
(* The web UI of dkron (ui/src): one browser tab, the API of the server it *)
(* talks to, and the jobs as the leader and that server store them.        *)
(*                                                                         *)
(* A request is sent, handled by the server, and its answer is delivered,  *)
(* in any order with the others, while the user goes on: opens pages,      *)
(* presses buttons, signs out.  Requests are made in two ways: directly by *)
(* a component (httpClient), which keeps a loading flag of its own, or     *)
(* through a hook of react-admin, which keeps one cached copy per job and  *)
(* hands every error to authProvider.checkError.                           *)
(*                                                                         *)
(* External: react-admin and react-query.  Their cache, their redirection  *)
(* after an error and their undoable saves and deletes are modelled from   *)
(* how the pages use them.  A server that refuses tokens is external too:  *)
(* ui.go of this repository always switches the sign-in page off.          *)
(*                                                                         *)
(* A job is what its page edits: the disabled flag and the rest (config).  *)
(* The version is a ghost: how often the job was written.  Only jobs       *)
(* without a parent are modelled, so that every run writes its job.        *)
(***************************************************************************)
EXTENDS Naturals, Sequences, FiniteSets, TLC

CONSTANTS
  Jobs,         \* job names
  NoJob,        \* no job under this name, or none in the cache
  Configs,      \* what the edit form holds besides the disabled flag
  Tokens,       \* access tokens
  NoToken,      \* nothing in the browser's local storage
  Pages,        \* bound: the pages the user opens
  MaxRequests,  \* bound: requests, queries and undoable changes under way
  MaxLag,       \* bound: writes the serving server has not applied
  MaxWrites     \* bound: writes, by this tab or by others

VARIABLES
  stored,       \* the jobs the leader stores
  local,        \* the jobs the serving server stores
  behind,       \* the writes in between
  accepted,     \* the tokens the server accepts
  token,        \* localStorage "token"
  page,         \* the page that is open, and its job
  waiting,      \* components that show a spinner or a disabled button
  cache,        \* react-query's copy of each job
  form,         \* what the edit form was filled with
  pending,      \* a save or delete that can still be undone
  queries,      \* reads of react-query in flight, per job
  requests,     \* all other requests in flight, by slot
  own           \* ghost: per job, the last write the open page was told of

serverVars == <<stored, local, behind, accepted>>
tabVars == <<token, page, waiting, cache, form>>
vars == <<stored, local, behind, accepted, token, page, waiting, cache,
          form, pending, queries, requests, own>>

Records == [disabled : BOOLEAN, config : Configs]
NewJob == [disabled |-> FALSE, config |-> CHOOSE c \in Configs : TRUE]
Entries == [job : Records \cup {NoJob}, version : Nat]
Nobody == [job |-> NoJob, version |-> 0]

Slots == 1..MaxRequests
Idle == [kind |-> "idle"]

ASSUME ConstantsAssumption ==
  /\ IsFiniteSet(Jobs) /\ Configs # {}
  /\ NoJob \notin Records /\ NoJob \notin Jobs
  /\ NoToken \notin Tokens
  /\ MaxRequests \in Nat /\ MaxLag \in Nat /\ MaxWrites \in Nat

ShowPages == {"show", "executions", "dependencies"}  \* the tabs of JobShow
JobPages == ShowPages \cup {"edit"}

Buttons == {"run", "toggle"}                    \* of one job
BulkButtons == {"bulkRun", "bulkToggle"}        \* of the selected jobs
Fetchers == {"stats", "diagram"}                \* fetch once, when mounted
Components == Buttons \cup BulkButtons \cup Fetchers \cup {"full"}
HookWrites == {"put", "delete", "create"}
Writes == Buttons \cup BulkButtons \cup HookWrites

\* The components a page mounts; stats is AnalyticsStats or ExecutionStatsChart,
\* which fetch alike.
Mounts(name) ==
  CASE name = "dashboard"    -> {"stats"}
    [] name = "jobs"         -> BulkButtons
    [] name = "show"         -> Buttons
    [] name = "executions"   -> Buttons \cup {"full"}
    [] name = "dependencies" -> Buttons \cup {"diagram"}
    [] OTHER                 -> {}

\* The jobs a page keeps up to date; the other tables (members, running
\* executions, the executions of a job) are left out.
QueriesOf(p) == IF p.name \in JobPages THEN {p.job} ELSE IF p.name = "jobs" THEN Jobs ELSE {}

At(name, job) == [name |-> name, job |-> job]

Places == {At(n, NoJob) : n \in {"dashboard", "jobs", "busy"}}
            \cup {At(n, j) : n \in JobPages, j \in Jobs}

Init ==
  /\ stored = [j \in Jobs |-> [job |-> NewJob, version |-> 0]]
  /\ local = stored /\ behind = <<>> /\ accepted = Tokens
  /\ token = NoToken
  /\ page = At("login", NoJob)
  /\ waiting = {}
  /\ cache = [j \in Jobs |-> Nobody] /\ form = Nobody /\ pending = Idle
  /\ queries = [q \in Jobs |-> Idle]
  /\ requests = [s \in Slots |-> Idle]
  /\ own = [j \in Jobs |-> 0]

-----------------------------------------------------------------------------
(* Requests are sent *)

\* httpClient: the token is read when the request is sent.
Query(tok) == [token |-> tok, phase |-> "sent", copy |-> Nobody, lagged |-> FALSE]

\* The queries in K are fetched again; one under way is given up, if there is
\* a copy from an earlier one to show meanwhile.
Refetched(qs, K, tok) ==
  [q \in Jobs |-> IF q \in K /\ (qs[q] = Idle \/ cache[q].job # NoJob)
                    THEN Query(tok) ELSE qs[q]]

\* The queries in K are fetched, unless they are being fetched already.
Fetched(qs, K, tok) ==
  [q \in Jobs |-> IF q \in K /\ qs[q] = Idle THEN Query(tok) ELSE qs[q]]

\* A request, with the copy of the job it carries, and what the cache held
\* before the change was shown.
Request(kind, job, tok, base, before) ==
  [kind |-> kind, job |-> job, token |-> tok, mounted |-> kind \in Components,
   phase |-> "sent", base |-> base, before |-> before]

InFlight(rs) == {s \in Slots : rs[s] # Idle}
Free(rs) == Slots \ InFlight(rs)

\* The requests R (a set) take the first free slots.
Sent(rs, R) ==
  LET place == CHOOSE f \in [R -> Free(rs)] :
                 \A a, b \in R : a # b => f[a] # f[b]
  IN [s \in Slots |-> IF \E r \in R : place[r] = s
                        THEN CHOOSE r \in R : place[r] = s ELSE rs[s]]

\* Bound: the requests, queries and undoable changes under way.
HasRoom(rs, qs, n) ==
  Cardinality(InFlight(rs)) + Cardinality({q \in Jobs : qs[q] # Idle}) + n
    + (IF pending = Idle THEN 0 ELSE 1) <= MaxRequests

\* Bound: the writes made and those in flight.
WritesLeft(n) ==
  LET made[S \in SUBSET Jobs] ==
        IF S = {} THEN 0 ELSE LET j == CHOOSE j \in S : TRUE
                              IN stored[j].version + made[S \ {j}]
      open == {s \in InFlight(requests) : /\ requests[s].kind \in Writes
                                          /\ requests[s].phase # "answered"}
  IN made[Jobs] + Cardinality(open) + (IF pending = Idle THEN 0 ELSE 1) + n <= MaxWrites

-----------------------------------------------------------------------------
(* Pages *)

\* Components that are gone do not see their answers.  What they only read for
\* themselves is forgotten, but for the diagram, which reads through a hook.
Unmounted(rs, kept) ==
  [s \in Slots |-> IF rs[s] = Idle \/ rs[s].kind \in {"stats", "full"} THEN Idle
                   ELSE [rs[s] EXCEPT !.mounted = @ /\ rs[s].kind \in kept]]

\* Page p replaces the open one: the components in kept stay mounted, those
\* that are new fetch what they show.
Mount(p, kept, rs, qs, tok) ==
  LET new == Mounts(p.name) \cap Fetchers
      read == QueriesOf(p) \ (IF kept # {} /\ p.job = page.job THEN QueriesOf(page) ELSE {})
      left == Unmounted(rs, kept)
  IN
    /\ HasRoom(left, Fetched(qs, read, tok), Cardinality(new))
    /\ page' = p
    /\ waiting' = (waiting \cap kept) \cup new
    /\ own' = [j \in Jobs |-> 0]
    /\ requests' = Sent(left, {Request(c, NoJob, tok, Nobody, Nobody) : c \in new})
    /\ form' = IF p.name = "edit" THEN cache[p.job] ELSE Nobody
    /\ queries' = Fetched(qs, read, tok)

\* The buttons that stay: those of a job while its tabs are changed, and maybe
\* those of another job, when a node of its diagram is clicked.
Kept(p) ==
  IF page.name \in ShowPages /\ p.name \in ShowPages
    THEN IF p.job = page.job THEN {Buttons} ELSE {Buttons, {}}
    ELSE {{}}

JobsPage == At("jobs", NoJob)

Open(p) ==
  /\ p # page /\ p.name \in Pages
  /\ token # NoToken
  /\ \E kept \in Kept(p) : Mount(p, kept, requests, queries, token)
  /\ UNCHANGED <<serverVars, token, cache, pending>>

\* login stores what was typed in, and never rejects.
SignIn(t) ==
  /\ page.name = "login"
  /\ token' = t
  /\ Mount(At("dashboard", NoJob), {}, requests, queries, t)
  /\ UNCHANGED <<serverVars, cache, pending>>

\* Logging out clears the cache; what it was fetching is forgotten.
LoggedOut(rs) ==
  /\ token' = NoToken
  /\ page' = At("login", NoJob)
  /\ waiting' = {} /\ form' = Nobody
  /\ own' = [j \in Jobs |-> 0]
  /\ cache' = [j \in Jobs |-> Nobody]
  /\ queries' = [q \in Jobs |-> Idle]
  /\ requests' = Unmounted(rs, {})

SignOut ==
  /\ page.name # "login"
  /\ LoggedOut(requests)
  /\ UNCHANGED <<serverVars, pending>>

-----------------------------------------------------------------------------
(* Buttons and forms *)

Press(b, R) ==
  /\ b \in Mounts(page.name) /\ b \notin waiting
  /\ HasRoom(requests, queries, Cardinality(R))
  /\ waiting' = waiting \cup {b}
  /\ requests' = Sent(requests, R)
  /\ UNCHANGED <<serverVars, token, page, cache, form, pending, queries, own>>

\* Wrong: the button is not disabled while its request is in flight.
WrongPressButton(b) ==
  /\ b \in Mounts(page.name)
  /\ cache[page.job].job # NoJob /\ WritesLeft(1) /\ HasRoom(requests, queries, 1)
  /\ waiting' = waiting \cup {b}
  /\ requests' = Sent(requests, {Request(b, page.job, token, Nobody, Nobody)})
  /\ UNCHANGED <<serverVars, token, page, cache, form, pending, queries, own>>

\* RunButton and ToggleButton, once the page has its record.
PressButton(b) ==
  /\ page.name \in ShowPages /\ cache[page.job].job # NoJob
  /\ WritesLeft(1)
  /\ Press(b, {Request(b, page.job, token, Nobody, Nobody)})

\* BulkRunButton and BulkToggleButton: one request per selected job.  The jobs
\* stay selected: useUnselectAll, a hook, is called by the handler and throws.
PressBulk(b, selected) ==
  /\ selected # {} /\ \A j \in selected : cache[j].job # NoJob
  /\ WritesLeft(Cardinality(selected))
  /\ Press(b, {Request(b, j, token, Nobody, Nobody) : j \in selected})

\* FullButton
LoadFull == Press("full", {Request("full", page.job, token, Nobody, Nobody)})

\* The records that differ from r in one field.
Changes(r) == {[r EXCEPT !.disabled = ~@]} \cup {[r EXCEPT !.config = c] : c \in Configs \ {r.config}}

\* The edit form: the whole record goes back with one field changed.  The page
\* shows the change and the list opens, the request waits for the undo to end.
Save ==
  /\ page.name = "edit" /\ form.job # NoJob /\ pending = Idle /\ WritesLeft(1)
  /\ \E r \in Changes(form.job) :
       /\ pending' = Request("put", page.job, token, [form EXCEPT !.job = r], cache[page.job])
       /\ cache' = [cache EXCEPT ![page.job].job = r]
  /\ Mount(JobsPage, {}, requests, queries, token)
  /\ UNCHANGED <<serverVars, token>>

BulkDelete(j) ==
  /\ page.name = "jobs" /\ pending = Idle /\ cache[j].job # NoJob /\ WritesLeft(1)
  /\ pending' = Request("delete", j, token, Nobody, cache[j])
  /\ cache' = [cache EXCEPT ![j].job = NoJob]
  /\ UNCHANGED <<serverVars, token, page, waiting, form, queries, requests, own>>

\* The time to undo is over, or the page is left: the request is sent.
Flush ==
  /\ pending # Idle /\ Free(requests) # {}
  /\ requests' = Sent(requests, {[pending EXCEPT !.token = token]})
  /\ pending' = Idle
  /\ UNCHANGED <<serverVars, tabVars, queries, own>>

\* Undone: the cache is what it was.
Undo ==
  /\ pending # Idle
  /\ pending' = Idle
  /\ cache' = [cache EXCEPT ![pending.job] = pending.before]
  /\ own' = [own EXCEPT ![pending.job] = 0]
  /\ UNCHANGED <<serverVars, token, page, waiting, form, queries, requests>>

\* JobCreate: a record typed into an empty form, under any name (bound: an
\* enabled one).
Create(j, r) ==
  /\ ~r.disabled
  /\ page.name = "jobs" /\ WritesLeft(1) /\ HasRoom(requests, queries, 1)
  /\ requests' = Sent(requests, {Request("create", j, token, [Nobody EXCEPT !.job = r], cache[j])})
  /\ UNCHANGED <<serverVars, tabVars, pending, queries, own>>

-----------------------------------------------------------------------------
(* The server *)

\* A write is committed: the leader has it, the serving server when it catches up.
Commit(j, r) ==
  LET e == [job |-> r, version |-> stored[j].version + 1] IN
    /\ Len(behind) < MaxLag
    /\ stored' = [stored EXCEPT ![j] = e]
    /\ behind' = Append(behind, <<j, e>>)
    /\ UNCHANGED <<local, accepted>>

CatchUp ==
  /\ behind # <<>>
  /\ local' = [local EXCEPT ![behind[1][1]] = behind[1][2]]
  /\ behind' = Tail(behind)
  /\ UNCHANGED <<stored, accepted, tabVars, pending, queries, requests, own>>

Becomes(s, phase, base) ==
  requests' = [requests EXCEPT ![s].phase = phase, ![s].base = base]

Allowed(r) == r.token \in accepted

\* A request in slot s that has arrived and that the server lets in.
Arrived(s, kinds) ==
  /\ requests[s] # Idle /\ requests[s].kind \in kinds
  /\ requests[s].phase = "sent" /\ Allowed(requests[s])

Held(s, kinds) ==
  requests[s] # Idle /\ requests[s].kind \in kinds /\ requests[s].phase = "holding"

Unhandled == UNCHANGED <<tabVars, pending, queries, own>>

\* jobsHandler and jobGetHandler: the serving server answers from its own store.
HandleQuery(q) ==
  /\ queries[q] # Idle /\ queries[q].phase = "sent" /\ Allowed(queries[q])
  /\ queries' = [queries EXCEPT ![q].copy = local[q], ![q].lagged = behind # <<>>,
                               ![q].phase = "answered"]
  /\ UNCHANGED <<serverVars, tabVars, pending, requests, own>>

\* jobToggleHandler reads the job on the serving server ...
ReadToggle(s) ==
  /\ Arrived(s, {"toggle", "bulkToggle"})
  /\ LET e == local[requests[s].job] IN e.job # NoJob /\ Becomes(s, "holding", e)
  /\ UNCHANGED serverVars /\ Unhandled

\* Wrong: only the flag is sent.
WrongFlagOnly(r) == [disabled |-> ~r.disabled]

\* Wrong: the flag is flipped, and the rest of the job is filled in anew.
WrongToggled(r) ==
  [disabled |-> ~r.disabled, config |-> CHOOSE c \in Configs : c # r.config]

Toggled(r) == [r EXCEPT !.disabled = ~@]

\* ... and writes the whole job, with the flag flipped, on the leader.
WriteToggle(s) ==
  /\ Held(s, {"toggle", "bulkToggle"})
  /\ Commit(requests[s].job, Toggled(requests[s].base.job))
  /\ Becomes(s, "answered", stored'[requests[s].job])
  /\ Unhandled

\* Agent.Run on the leader reads the job; a disabled one has no cron entry ...
ReadRun(s) ==
  /\ Arrived(s, {"run", "bulkRun"})
  /\ LET e == stored[requests[s].job] IN
       e.job # NoJob /\ ~e.job.disabled /\ Becomes(s, "holding", e)
  /\ UNCHANGED serverVars /\ Unhandled

\* ... writes it back with its next time, runs it, and answers when it has ended.
WriteRun(s) ==
  /\ Held(s, {"run", "bulkRun"})
  /\ Commit(requests[s].job, requests[s].base.job)
  /\ Becomes(s, "answered", stored'[requests[s].job])
  /\ Unhandled

\* jobCreateOrUpdateHandler and jobDeleteHandler.
HandleWrite(s) ==
  /\ Arrived(s, HookWrites)
  /\ requests[s].kind = "delete" => stored[requests[s].job].job # NoJob
  /\ Commit(requests[s].job, requests[s].base.job)
  /\ Becomes(s, "answered", stored'[requests[s].job])
  /\ Unhandled

\* Another tab, another user or an API client writes a job; or the server
\* makes a write of this tab whose connection was lost.
OtherWrite(j, r) ==
  /\ WritesLeft(1)
  /\ stored[j].job # r
  /\ Commit(j, r)
  /\ UNCHANGED <<tabVars, pending, queries, requests, own>>

\* A token is revoked.
Revoke(t) ==
  /\ t \in accepted
  /\ accepted' = accepted \ {t}
  /\ UNCHANGED <<stored, local, behind, tabVars, pending, queries, requests, own>>

-----------------------------------------------------------------------------
(* Answers are delivered *)

\* How request r may end: with its answer, with a refusal of its token, or with
\* another error (a status the server answers, or a connection that is lost).
Outcomes(r) ==
  {"failed"} \cup (IF r.phase = "answered" THEN {"answered"} ELSE {})
             \cup (IF r.phase = "sent" /\ ~Allowed(r) THEN {"refused"} ELSE {})

Gone(s) == [requests EXCEPT ![s] = Idle]

\* Wrong: the page is not fetched again after a success.
WrongAfterPress(kind, outcome) == FALSE

\* Whether the queries of the open page are fetched again: the buttons of one
\* job refresh after a success, bulk buttons and the hooks always.
AfterPress(kind, outcome) == kind \in Buttons => outcome = "answered"

\* Wrong: the loading flag stays when the request fails.
WrongSettled(r, outcome) ==
  IF r.mounted /\ outcome = "answered" THEN waiting \ {r.kind} ELSE waiting

\* finally: the loading flag of a component that is still mounted is reset, by
\* the first of several requests.
Settled(r, outcome) == IF r.mounted THEN waiting \ {r.kind} ELSE waiting

\* A change that was shown before it was made, and that is taken back.
TakenBack(r, outcome) == r.kind \in {"put", "delete"} /\ outcome = "failed"

\* The page is told of the version of a write that succeeded (if it shows no
\* copy yet, its first fetch may have been answered before the write).
Told(r, outcome) ==
  IF TakenBack(r, outcome) THEN [own EXCEPT ![r.job] = 0]
  ELSE IF /\ outcome = "answered" /\ own[r.job] < r.base.version
          /\ cache[r.job].job # NoJob
    THEN [own EXCEPT ![r.job] = r.base.version] ELSE own

\* A write of the open page or of one before it.  When the connection is lost
\* first, nobody hears what the server does with it: that is an OtherWrite.
DeliverWrite(s) ==
  LET r == requests[s] IN
    /\ r # Idle /\ r.kind \in Writes
    /\ \E outcome \in Outcomes(r) :
         /\ r.kind \in HookWrites => outcome # "refused"
         /\ waiting' = Settled(r, outcome)
         /\ own' = Told(r, outcome)
         /\ cache' = IF TakenBack(r, outcome) THEN [cache EXCEPT ![r.job] = r.before] ELSE cache
         /\ queries' = IF AfterPress(r.kind, outcome)
                         THEN Refetched(queries, QueriesOf(page), token) ELSE queries
    /\ requests' = Gone(s)
    /\ UNCHANGED <<serverVars, token, page, form, pending>>

\* What a component reads for itself arrives, or does not.  What the server
\* answers (analyticsHandler, statsHandler, executionHandler, jobsHandler) is in
\* DkronFigures and DkronDiagram.
DeliverFetch(s) ==
  LET r == requests[s] IN
    /\ r # Idle /\ r.kind \in Fetchers \cup {"full"}
    /\ \E outcome \in (Outcomes(r) \ (IF r.kind = "diagram" THEN {"refused"} ELSE {}))
                        \cup (IF Allowed(r) THEN {"answered"} ELSE {}) :
         /\ waiting' = Settled(r, outcome)
    /\ requests' = Gone(s)
    /\ UNCHANGED <<serverVars, token, page, cache, form, pending, queries, own>>

\* A query has its answer; the edit form follows unless the user has typed
\* into it.
DeliverQuery(q) ==
  LET r == queries[q] IN
    /\ r # Idle /\ r.phase = "answered"
    /\ page.job = q => r.copy.job # NoJob
    /\ queries' = [queries EXCEPT ![q] = Idle]
    /\ cache' = [cache EXCEPT ![q] = r.copy]
    /\ own' = IF r.lagged THEN [own EXCEPT ![q] = 0] ELSE own
    /\ form' \in IF page = At("edit", q) THEN {form, r.copy} ELSE {form}
    /\ page = At("edit", q) /\ form.job = NoJob => form' = r.copy
    /\ UNCHANGED <<serverVars, token, page, waiting, pending, requests>>

\* Show and Edit of a job that cannot be read lead back to the list.
FailQuery(q) ==
  LET r == queries[q]
      rest == [queries EXCEPT ![q] = Idle]
  IN /\ r # Idle
     /\ IF q = page.job
          THEN Mount(JobsPage, {}, requests, rest, token)
          ELSE queries' = rest /\ UNCHANGED <<page, waiting, requests, form, own>>
     /\ UNCHANGED <<serverVars, token, cache, pending>>

\* authProvider.checkError: 401 and 403 end the session, no other error does.
CheckError(outcome) == outcome = "refused"

EndsSession(r) == r # Idle /\ \E outcome \in Outcomes(r) : CheckError(outcome)

\* Errors of hooks go through checkError, whatever page is open by then.
HookRefused ==
  /\ \/ /\ \E q \in Jobs : EndsSession(queries[q])
        /\ LoggedOut(requests)
     \/ \E s \in Slots : /\ EndsSession(requests[s])
                         /\ requests[s].kind \in HookWrites \cup {"diagram"}
                         /\ LoggedOut(Gone(s))
  /\ UNCHANGED <<serverVars, pending>>

-----------------------------------------------------------------------------

User ==
  \/ \E p \in Places : Open(p)
  \/ \E t \in Tokens : SignIn(t)
  \/ SignOut
  \/ \E b \in Buttons : PressButton(b)
  \/ \E b \in BulkButtons, S \in SUBSET Jobs : PressBulk(b, S)
  \/ LoadFull
  \/ Save
  \/ \E j \in Jobs : BulkDelete(j)
  \/ Undo
  \/ \E j \in Jobs, r \in Records : Create(j, r)

Environment ==
  \/ \E j \in Jobs, r \in Records \cup {NoJob} : OtherWrite(j, r)
  \/ \E t \in Tokens : Revoke(t)

Serve(s) == ReadToggle(s) \/ WriteToggle(s) \/ ReadRun(s) \/ WriteRun(s) \/ HandleWrite(s)

Next ==
  \/ User \/ Environment
  \/ Flush \/ CatchUp \/ HookRefused
  \/ \E q \in Jobs : HandleQuery(q) \/ DeliverQuery(q) \/ FailQuery(q)
  \/ \E s \in Slots : Serve(s) \/ DeliverWrite(s) \/ DeliverFetch(s)

Spec == Init /\ [][Next]_vars

-----------------------------------------------------------------------------
(* Properties *)

QueryRecords == [token : Tokens \cup {NoToken}, phase : {"sent", "answered"},
                 copy : Entries, lagged : BOOLEAN]

RequestRecords == [kind : Components \cup HookWrites, job : Jobs \cup {NoJob},
                   token : Tokens \cup {NoToken}, mounted : BOOLEAN,
                   phase : {"sent", "holding", "answered"}, base : Entries, before : Entries]

\* The values of the variables; with them, that what the leader stores is a
\* whole job or none, whatever was read, changed and written back by a toggle
\* (api.go:554), a run (run.go:27) or a form.
TypeOK ==
  /\ stored \in [Jobs -> Entries] /\ local \in [Jobs -> Entries]
  /\ behind \in Seq(Jobs \X Entries) /\ Len(behind) <= MaxLag
  /\ accepted \subseteq Tokens /\ token \in Tokens \cup {NoToken}
  /\ page \in Places \cup {At("login", NoJob)}
  /\ waiting \subseteq Mounts(page.name)
  /\ cache \in [Jobs -> Entries] /\ form \in Entries
  /\ own \in [Jobs -> Nat]
  /\ queries \in [Jobs -> QueryRecords \cup {Idle}]
  /\ requests \in [Slots -> RequestRecords \cup {Idle}]
  /\ pending \in RequestRecords \cup {Idle}
  /\ \A s \in InFlight(requests) :
       /\ requests[s].mounted => requests[s].kind \in Mounts(page.name)
       /\ requests[s].kind \in Writes => requests[s].job \in Jobs

\* A button is disabled, and a spinner shown, exactly as long as a request of
\* that component is in flight, and it is the only one (RunButton.tsx:13-24,
\* FullButton, the effects that fetch): none turns for ever after an error or
\* a change of page, and none stops while an answer can still come.  The bulk
\* buttons send a request per job and are enabled again by the first that ends
\* (BulkRunButton.tsx:28), so for them only: a disabled one has a request in
\* flight.
ButtonsMatchRequests ==
  \A c \in Components :
    LET mine == {s \in InFlight(requests) : requests[s].kind = c /\ requests[s].mounted} IN
      IF c \in BulkButtons THEN c \in waiting => mine # {}
      ELSE Cardinality(mine) = IF c \in waiting THEN 1 ELSE 0

\* A page that stays open shows the writes it was told of: once its fetches
\* are over, the copy is at least as new as the last write it was told of,
\* unless the server that answered was behind (the refresh of the buttons,
\* RunButton.tsx:17, against fetches that were under way before).
OwnWritesShown ==
  \A j \in Jobs :
    (page.name \in ShowPages /\ page.job = j /\ queries[j] = Idle) =>
      cache[j].version >= own[j]

\* A toggle or a run sends a whole job back.  It changes what it is not meant
\* to, or brings a deleted job back, only if the job was written after the copy
\* it sends was read: by a lagging server (api.go:554), or between the read and
\* the write (run.go:27).
EditsLostOnlyToRaces ==
  [][\A s \in Slots, j \in Jobs :
       LET r == requests[s]
           old == stored[j].job
           new == stored'[j].job
       IN (/\ r # Idle /\ r.kind \in Buttons \cup BulkButtons /\ r.job = j
           /\ stored'[j] # stored[j] /\ requests'[s] # r
           /\ r.base.version = stored[j].version)
         => IF r.kind \in {"run", "bulkRun"} THEN new = old
            ELSE old # NoJob /\ new # NoJob /\ new.config = old.config]_vars

=============================================================================
