----------------------------- MODULE ConfigPages -----------------------------
(***************************************************************************)
(* What the configuration pages of the frontend have in common: a router,  *)
(* the hooks that load a list and a detail, and the counter of mutations.  *)
(* McpPages and ProviderPages instantiate it. The three features repeat    *)
(* the code of these hooks; the lines mapped here are those of             *)
(* frontend/src/features/mcp/hooks.ts.                                     *)
(*                                                                         *)
(* A continuation that awaits a call or a request belongs to the mounted   *)
(* component that started it, and goes on after the component has left.    *)
(***************************************************************************)
EXTENDS Integers, FiniteSets

CONSTANTS
    Ids,         \* rows of the table behind the pages
    None,        \* no row, no data
    ListPages,   \* the pages that use the list hook
    DetailPages  \* the pages that use the detail hook

VARIABLES
    rows,    \* the table on the server: the state of each row, or "absent"
    clock,   \* number of changes of the table
    route,   \* the page in the browser and the id in its path
    mount,   \* number of page components mounted so far; the last one is shown
    list,    \* state of the list hook
    detail,  \* state of the detail hook
    mut,     \* state of the mutations hook
    reqs,    \* GET requests on their way
    calls    \* mutations on their way

\* rid is requestIdRef. An empty list and no detail are both None.
NoHook  == [data |-> None, error |-> "no", loading |-> FALSE, rid |-> 0]
Waiting == [NoHook EXCEPT !.loading = TRUE, !.rid = 1]
NoMut   == [pending |-> 0, error |-> FALSE]

-----------------------------------------------------------------------------
(* The hooks *)

\* then is what the caller does after it has awaited the refetch; by tells
\* apart the requests of components that have left.
Get(hook, m, rid, id, then, target, by) ==
    [hook |-> hook, mount |-> m, rid |-> rid, id |-> id, then |-> then,
     target |-> target, by |-> by, answer |-> None]

\* requestIdRef of a component, which only matters while it is mounted.
NextRid(m, h) == IF m = mount THEN h.rid + 1 ELSE 0

\* refetch of the list: the rows stay while it loads.
Reload(h) == [h EXCEPT !.rid = @ + 1, !.error = "no", !.loading = TRUE]

\* refetch of the detail: the row goes while it loads.
Renew(h) == [Reload(h) EXCEPT !.data = None]

\* Mutant: whichever answer comes is taken.
IsCurrentAlways(r, h) == r.mount = mount

\* mountedRef and requestIdRef: only the latest request of a mounted hook counts.
IsCurrent(r, h) == r.mount = mount /\ r.rid = h.rid

Loaded(h, data, error) == [h EXCEPT !.data = data, !.error = error, !.loading = FALSE]

\* Mutant: a failed mutation stays pending.
EndedIfDone(u, failed) ==
    [pending |-> IF failed THEN u.pending ELSE u.pending - 1, error |-> u.error \/ failed]

\* runMutation before and after its action.
Began(u) == [pending |-> u.pending + 1, error |-> FALSE]
Ended(u, failed) ==
    [pending |-> IF u.pending = 0 THEN 0 ELSE u.pending - 1, error |-> u.error \/ failed]

-----------------------------------------------------------------------------
(* The router *)

\* The hooks of a page when it is mounted, and the requests of their effects.
ListOf(page)   == IF page \in ListPages THEN Waiting ELSE NoHook
DetailOf(page) == IF page \in DetailPages THEN Waiting ELSE NoHook
FirstRequests(m, page, id) ==
    (IF page \in ListPages THEN {Get("list", m, 1, None, "stay", None, 0)} ELSE {})
    \cup
    (IF page \in DetailPages THEN {Get("detail", m, 1, id, "stay", None, 0)} ELSE {})

HasId(page) == page \in DetailPages

\* The user opens a page by its address.
Opened(page, id) ==
    /\ HasId(page) = (id # None)
    /\ route = [page |-> page, id |-> id] /\ mount = 1
    /\ list = ListOf(page) /\ detail = DetailOf(page) /\ mut = NoMut
    /\ reqs = FirstRequests(1, page, id) /\ calls = {}

\* A request of a page that has left matters only to a caller that awaits it.
Awaited(rs) == {r \in rs : r.then # "stay"}

\* navigate, with rs the requests that are on their way. Another page is another
\* component; the same page with another id is the same component, whose effect
\* runs again.
Navigate(page, id, rs) ==
    /\ route' = [page |-> page, id |-> id]
    /\ CASE page # route.page ->
              /\ mount' = mount + 1
              /\ list' = ListOf(page) /\ detail' = DetailOf(page)
              /\ mut' = NoMut
              /\ reqs' = Awaited(rs) \cup FirstRequests(mount + 1, page, id)
         [] page = route.page /\ id # route.id ->
              /\ detail' = Renew(detail)
              /\ reqs' = rs \cup {Get("detail", mount, detail.rid + 1, id, "stay", None, 0)}
              /\ UNCHANGED <<mount, list, mut>>
         [] OTHER -> reqs' = rs /\ UNCHANGED <<mount, list, detail, mut>>

\* What follows an awaited refetch.
Proceed(r, rs) ==
    CASE r.then = "list" -> Navigate("list", None, rs)
      [] r.then = "view" -> Navigate("view", r.target, rs)

-----------------------------------------------------------------------------
(* Requests *)

\* The server reads the table.
Answer(r) ==
    /\ r.answer = None /\ r.then = "stay"
    /\ reqs' = (reqs \ {r}) \cup
         {[r EXCEPT !.answer = IF r.hook = "list" THEN [at |-> clock, rows |-> rows]
                               ELSE [at |-> clock, id |-> r.id, row |-> rows[r.id]]]}
    /\ UNCHANGED <<rows, clock, route, mount, list, detail, mut, calls>>

\* The hook takes the outcome of a request, if it still waits for it.
Take(r, data, error) ==
    /\ list' = IF r.hook = "list" /\ IsCurrent(r, list)
               THEN Loaded(list, data, error) ELSE list
    /\ detail' = IF r.hook = "detail" /\ IsCurrent(r, detail)
                 THEN Loaded(detail, data, error) ELSE detail

Outcome(r) == IF r.hook = "detail" /\ r.answer.row = "absent"
              THEN [data |-> None, error |-> "missing"]
              ELSE [data |-> r.answer, error |-> "no"]

\* An outcome that a caller awaits with nothing to do afterwards.
Deliver(r) ==
    /\ r.answer # None /\ r.then = "stay"
    /\ Take(r, Outcome(r).data, Outcome(r).error)
    /\ reqs' = reqs \ {r}
    /\ UNCHANGED <<rows, clock, route, mount, mut, calls>>

\* The same when the request fails.
DeliverFailure(r) ==
    /\ r.then = "stay"
    /\ Take(r, None, "net")
    /\ reqs' = reqs \ {r}
    /\ UNCHANGED <<rows, clock, route, mount, mut, calls>>

\* refetch catches every error, so the caller goes on to navigate. What the hook
\* has taken is gone with the page, or is loaded again.
DeliverAndGo(r) ==
    /\ r.then # "stay"
    /\ Proceed(r, reqs \ {r})
    /\ UNCHANGED <<rows, clock, calls>>

-----------------------------------------------------------------------------
(* Mutations *)

\* The n-th mutation is started on the page shown. page is the id that the
\* functions of the component have closed over, panel the detail they were
\* rendered for.
RunMutation(n, kind, s) ==
    /\ calls' = calls \cup {[n |-> n, kind |-> kind, id |-> s, page |-> route.id,
                             from |-> route.page, mount |-> mount, panel |-> detail.rid,
                             stage |-> "sent", at |-> 0]}
    /\ mut' = Began(mut)
    /\ UNCHANGED <<rows, clock, route, mount, list, detail, reqs>>

\* The server changes a row, and answers a call about row s.
Change(s, state) == rows' = [rows EXCEPT ![s] = state] /\ clock' = clock + 1

Reply(c, s, stage) ==
    calls' = (calls \ {c}) \cup {[c EXCEPT !.id = s, !.stage = stage, !.at = clock']}

\* The end of runMutation.
Settled(c) == mut' = IF c.mount = mount THEN Ended(mut, c.stage # "done") ELSE mut

RefetchList(c, then) == Get("list", c.mount, NextRid(c.mount, list), None, then, None, c.n)
RefetchDetail(c, then) ==
    Get("detail", c.mount, NextRid(c.mount, detail), c.page, then, c.id, c.n)

\* The refetch functions are those of the component that made the call.
Refetch(c, rs) ==
    /\ reqs' = reqs \cup (IF c.mount = mount THEN rs ELSE Awaited(rs))
    /\ list' = IF c.mount = mount /\ \E r \in rs : r.hook = "list"
               THEN Reload(list) ELSE list
    /\ detail' = IF c.mount = mount /\ \E r \in rs : r.hook = "detail"
                 THEN Renew(detail) ELSE detail
    /\ UNCHANGED <<route, mount>>

-----------------------------------------------------------------------------
(* For the proofs *)

\* The shape of a hook, of a request and of a call.
IsHook(h) == h \in [data : {h.data}, error : {h.error}, loading : BOOLEAN, rid : Nat]
IsGet(r) ==
    /\ r = [hook |-> r.hook, mount |-> r.mount, rid |-> r.rid, id |-> r.id,
            then |-> r.then, target |-> r.target, by |-> r.by, answer |-> r.answer]
    /\ r.then \in {"stay", "list", "view"}
IsCall(c) ==
    /\ c = [n |-> c.n, kind |-> c.kind, id |-> c.id, page |-> c.page, from |-> c.from,
            mount |-> c.mount, panel |-> c.panel, stage |-> c.stage, at |-> c.at]
    /\ c.n \in Nat /\ c.mount \in Nat /\ c.panel \in Nat

=============================================================================
