------------------------------ MODULE McpPages ------------------------------
(***************************************************************************)
(* The MCP pages of one browser (frontend/src/features/mcp/pages): list,   *)
(* detail, create and edit, with the menu of a row and the hooks they use, *)
(* over a server that may fail. What the forms send is in ConfigForms.     *)
(***************************************************************************)
EXTENDS Integers, FiniteSets

CONSTANTS
    Ids,       \* servers
    None,
    MaxCalls,  \* bound on the mutations of the browser
    MaxMoves,  \* bound on the moves of the user to another page
    Kinds,     \* the operations the user has a mind to
    Found,     \* the states in which the user may find a server at first
    Faults     \* subset of {"net", "op"}: requests fail, operations fail

ASSUME BoundsAssumption == MaxCalls \in Nat /\ MaxMoves \in Nat
ASSUME FoundAssumption  == Found \subseteq {"absent", "stopped", "running", "error"}
ASSUME FaultAssumption  == Faults \subseteq {"net", "op"}
ASSUME KindAssumption   ==
    Kinds \subseteq {"create", "update", "delete", "start", "stop", "restart", "check"}

VARIABLES
    rows, clock, route, mount, list, detail, mut, reqs, calls,
    sent,      \* number of mutations so far
    moves,     \* number of moves so far
    reflected  \* clock of the last change the page shown has to reflect

\* The detail page loads the list as well.
INSTANCE ConfigPages WITH ListPages <- {"list", "view"}, DetailPages <- {"view", "edit"}

browser == <<route, mount, list, detail, mut, reqs>>
counts  == <<sent, moves>>
vars    == <<rows, clock, browser, calls, counts, reflected>>

Pages    == {"list", "new", "view", "edit", "away"}
States   == {"absent", "stopped", "running", "error"}

\* The user opens a page, by its address or from elsewhere in the application.
Init ==
    /\ rows \in [Ids -> Found] /\ clock = 1
    /\ \E page \in Pages : \E s \in Ids \cup {None} : Opened(page, s)
    /\ sent = 0 /\ moves = 0 /\ reflected = 0

-----------------------------------------------------------------------------
(* What the pages show *)

\* The rows of the table; search and status filter only hide some of them.
VisibleServers ==
    IF list.loading \/ list.error # "no" \/ list.data = None THEN {}
    ELSE {s \in Ids : list.data.rows[s] # "absent"}

\* The operations in the menu of a server with this status.
MenuItems(status) ==
    {"restart", "check", "delete"}
    \cup (IF status \in {"stopped", "error"} THEN {"start"} ELSE {})
    \cup (IF status = "running" THEN {"stop"} ELSE {})

-----------------------------------------------------------------------------
(* The user *)

\* A mutation of server s, started on the page shown.
Call(kind, s) ==
    /\ sent < MaxCalls
    /\ sent' = sent + 1
    /\ RunMutation(sent + 1, kind, s)
    /\ UNCHANGED <<moves, reflected>>

\* Nothing keeps a second operation from being started while one is pending.
ClickInList(kind, s) ==
    /\ route.page = "list" /\ s \in VisibleServers
    /\ kind \in MenuItems(list.data.rows[s])
    /\ Call(kind, s)

ClickInDetail(kind) ==
    /\ route.page = "view" /\ detail.data # None
    /\ kind \in MenuItems(detail.data.row)
    /\ Call(kind, detail.data.id)

SubmitCreate == route.page = "new" /\ mut.pending = 0 /\ Call("create", None)

SubmitUpdate ==
    /\ route.page = "edit" /\ detail.data # None /\ mut.pending = 0
    /\ Call("update", detail.data.id)

RefreshList ==
    /\ route.page = "list"
    /\ moves < MaxMoves /\ moves' = moves + 1
    /\ list' = Reload(list)
    /\ reqs' = reqs \cup {Get("list", mount, list.rid + 1, None, "stay", None, 0)}
    /\ UNCHANGED <<rows, clock, route, mount, detail, mut, calls, sent, reflected>>

\* Links, buttons, the sidebar and the history of the browser.
Move(page, s) ==
    /\ moves < MaxMoves /\ moves' = moves + 1
    /\ HasId(page) = (s # None)
    /\ <<page, s>> # <<route.page, route.id>>
    /\ Navigate(page, s, reqs)
    /\ reflected' = IF mount' = mount THEN reflected ELSE 0
    /\ UNCHANGED <<rows, clock, calls, sent>>

-----------------------------------------------------------------------------
(* The server, as McpServerService answers. Each operation is one step here,   *)
(* and whether a session stands behind a row is left open: see McpRuntime.     *)

\* The rows that an operation works on; the new one gets a new id.
Targets(c) == IF c.kind = "create" THEN {s \in Ids : rows[s] = "absent"}
              ELSE {s \in {c.id} : rows[s] # "absent"}

\* The states to which success leads. A server that is created may be started at
\* once, one that is running is stopped before it is deleted, but not for an update.
Outcomes(kind, state) ==
    CASE kind \in {"create", "check"}  -> {"stopped", "running"}
      [] kind \in {"start", "restart"} -> {"running"}
      [] kind = "stop"   -> {"stopped"}
      [] kind = "delete" -> {"absent"}
      [] kind = "update" -> {state} \ {"running"}

\* The states that an operation may leave which fails: between two commits, with
\* its error recorded, or after its last commit.
Remains(kind, state) ==
    Outcomes(kind, state) \cup
    (CASE kind = "update" -> {}
       [] kind = "start"  -> {"error"}
       [] OTHER -> {"stopped", "error"})

Execute(c) ==
    /\ c.stage = "sent"
    /\ \/ \E s \in Targets(c) : \E state \in Outcomes(c.kind, rows[s]) :
             Change(s, state) /\ Reply(c, s, "done")
       \/ /\ c.kind # "create" /\ rows[c.id] = "absent"
          /\ UNCHANGED <<rows, clock>> /\ Reply(c, c.id, "missing")
       \/ /\ c.kind = "update" /\ rows[c.id] \in {"running", "error"}
          /\ UNCHANGED <<rows, clock>> /\ Reply(c, c.id, "failed")
    /\ UNCHANGED <<browser, counts, reflected>>

\* The operation fails on its way, or the call or its answer is lost.
ExecuteFails(c) ==
    /\ "op" \in Faults /\ c.stage = "sent"
    /\ \/ \E s \in Targets(c) : \E state \in Remains(c.kind, rows[s]) : Change(s, state)
       \/ UNCHANGED <<rows, clock>>
    /\ Reply(c, c.id, "failed")
    /\ UNCHANGED <<browser, counts, reflected>>

-----------------------------------------------------------------------------
(* What the pages do with an answer *)

\* Mutant: the list is not loaded again.
ListMutationForgets(c) ==
    /\ c.from = "list" /\ c.stage # "sent"
    /\ Settled(c) /\ Refetch(c, {})

\* runMutation of McpListPage: a failure is only shown.
ListMutation(c) ==
    /\ c.from = "list" /\ c.stage # "sent"
    /\ Settled(c)
    /\ Refetch(c, IF c.stage = "done" THEN {RefetchList(c, "stay")} ELSE {})

\* runMutation of McpDetailPage: whatever the answer, both are loaded again,
\* except the detail of a server that is gone.
DetailMutation(c) ==
    /\ c.from = "view" /\ c.kind # "delete" /\ c.stage # "sent"
    /\ Settled(c)
    /\ Refetch(c, {RefetchList(c, "stay")} \cup
                  (IF c.stage = "missing" THEN {} ELSE {RefetchDetail(c, "stay")}))

HandleDelete(c) ==
    /\ c.from = "view" /\ c.kind = "delete" /\ c.stage # "sent"
    /\ Settled(c)
    /\ Refetch(c, IF c.stage = "done" THEN {RefetchList(c, "list")} ELSE {})

\* onUpdate of McpEditPage.
OnUpdate(c) ==
    /\ c.from = "edit" /\ c.stage # "sent"
    /\ Settled(c)
    /\ Refetch(c, IF c.stage = "done" THEN {RefetchDetail(c, "view")} ELSE {})

\* onCreate of McpCreatePage.
OnCreate(c) ==
    /\ c.from = "new" /\ c.stage # "sent"
    /\ IF c.stage = "done" THEN Navigate("view", c.id, reqs)
       ELSE Settled(c) /\ Refetch(c, {})

\* A change the page shown must come to reflect: the list page promises that
\* for operations that succeed.
Settle(c) ==
    /\ ListMutation(c) \/ DetailMutation(c) \/ HandleDelete(c) \/ OnUpdate(c) \/ OnCreate(c)
    /\ calls' = calls \ {c}
    /\ reflected' = CASE mount' # mount -> 0
                      [] mount' = mount /\ c.mount = mount /\ c.stage = "done" -> c.at
                      [] OTHER -> reflected
    /\ UNCHANGED <<rows, clock, counts>>

Load(r) == /\ Answer(r) \/ Deliver(r) \/ DeliverAndGo(r)
           /\ reflected' = IF mount' = mount THEN reflected ELSE 0
           /\ UNCHANGED counts

LoadFails(r) == /\ "net" \in Faults
                /\ DeliverFailure(r)
                /\ reflected' = IF mount' = mount THEN reflected ELSE 0
                /\ UNCHANGED counts

-----------------------------------------------------------------------------

User == \/ \E s \in Ids : \E kind \in Kinds : ClickInList(kind, s)
        \/ \E kind \in Kinds : ClickInDetail(kind)
        \/ SubmitCreate \/ SubmitUpdate \/ RefreshList
        \/ \E page \in Pages : \E s \in Ids \cup {None} : Move(page, s)

Next == \/ User
        \/ \E c \in calls : Execute(c) \/ ExecuteFails(c) \/ Settle(c)
        \/ \E r \in reqs : Load(r) \/ LoadFails(r)

Spec == Init /\ [][Next]_vars

-----------------------------------------------------------------------------
(* Properties *)

\* The shape of the variables.
TypeOK ==
    /\ rows \in [Ids -> States] /\ clock \in Nat
    /\ route \in [page : Pages, id : Ids \cup {None}] /\ mount \in Nat
    /\ list.loading \in BOOLEAN /\ list.rid \in Nat /\ list.error \in {"no", "net"}
    /\ detail.loading \in BOOLEAN /\ detail.rid \in Nat
    /\ detail.error \in {"no", "net", "missing"}
    /\ mut \in [pending : 0..MaxCalls, error : BOOLEAN]
    /\ calls \subseteq [n : 1..MaxCalls, kind : Kinds, id : Ids \cup {None},
                        page : Ids \cup {None}, from : Pages, mount : Nat, panel : Nat,
                        stage : {"sent", "done", "missing", "failed"}, at : Nat]

\* A hook that shows that it is loading has a current request.
ListWaits   == list.loading => \E r \in reqs : r.hook = "list" /\ IsCurrent(r, list)
DetailWaits == detail.loading => \E r \in reqs : r.hook = "detail" /\ IsCurrent(r, detail)

\* The page waits exactly for what is on its way, and so never for ever: a hook that
\* shows that it is loading has a current request (useMcpServers, useMcpServerDetail),
\* and the buttons are disabled as long as a mutation of the page has no answer and no
\* longer, in whatever order mutations and pages end (pendingCount in useMcpMutations).
WaitsForAnswers ==
    /\ ListWaits /\ DetailWaits
    /\ mut.pending = Cardinality({c \in calls : c.mount = mount})

\* The list shown is never replaced by one that was read earlier, in whatever
\* order answers come (requestIdRef in useMcpServers).
ListNeverGoesBack ==
    [][mount' = mount /\ list.data # None /\ list'.data # None
         => list'.data.at >= list.data.at]_vars

\* Once the page is at rest, it shows what the operations started on it and
\* answered with success have done.
ShowsOwnChanges ==
    /\ ~\E c \in calls : c.mount = mount
    /\ ~list.loading /\ list.data # None
    => list.data.at >= reflected

-----------------------------------------------------------------------------
(* What makes them inductive *)

\* Calls are told apart by their numbers. Those of the page shown were made on it.
CallInv ==
    /\ mount \in Nat /\ clock \in Nat /\ sent \in Nat
    /\ reflected \in Nat /\ reflected <= clock
    /\ IsFiniteSet(calls)
    /\ \A c \in calls : /\ IsCall(c) /\ c.n <= sent /\ c.mount <= mount
                        /\ c.at \in Nat /\ c.at <= clock
                        /\ c.mount = mount => c.from = route.page
    /\ \A c, d \in calls : c.n = d.n => c = d

\* Whoever awaits a request to go on to another page awaits it on the page for that.
RequestInv ==
    /\ IsHook(list) /\ IsHook(detail)
    /\ \A r \in reqs : /\ IsGet(r) /\ r.mount \in Nat /\ r.mount <= mount
                       /\ r.mount = mount /\ r.then = "list" => route.page = "view"
                       /\ r.mount = mount /\ r.then = "view" => route.page = "edit"

\* Requests of the list hook of the page shown.
AsksList(r) == r.hook = "list" /\ r.mount = mount

\* The latest of them, if there is no answer yet, is the only one of its number; what it
\* brings is no older than what is shown and than what the page has to reflect.
LatestList(r) ==
    /\ list.loading
    /\ \A q \in reqs : AsksList(q) /\ q.rid = list.rid => q = r
    /\ r.answer # None =>
         /\ r.answer.at \in Nat /\ reflected <= r.answer.at /\ r.answer.at <= clock
         /\ list.data # None => list.data.at <= r.answer.at

ListInv ==
    /\ \A r \in reqs : AsksList(r) => /\ r.rid \in Nat /\ r.rid <= list.rid
                                      /\ route.page \in {"list", "view"}
                                      /\ r.rid = list.rid => LatestList(r)
    /\ list.loading => route.page \in {"list", "view"}
    /\ list.data # None =>
         /\ list.data.at \in Nat /\ list.data.at <= clock
         /\ route.page \in {"list", "view"}
         /\ ~list.loading => reflected <= list.data.at

PageInv == CallInv /\ RequestInv /\ ListInv /\ WaitsForAnswers

=============================================================================
