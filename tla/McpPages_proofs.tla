--------------------------- MODULE McpPages_proofs ---------------------------
(***************************************************************************)
(* Proofs about the MCP pages: a page waits exactly for what is on its     *)
(* way, its list never goes back, and it shows what its operations have    *)
(* done.                                                                   *)
(***************************************************************************)
EXTENDS McpPages, FiniteSetTheorems, TLAPS

-----------------------------------------------------------------------------
(* The shapes of hooks and requests *)

LEMMA HookShape ==
    ASSUME NEW h, IsHook(h)
    PROVE  /\ h.rid \in Nat
           /\ IsHook(Reload(h)) /\ Reload(h).loading
           /\ Reload(h).data = h.data /\ Reload(h).rid = h.rid + 1
           /\ IsHook(Renew(h)) /\ Renew(h).loading /\ Renew(h).rid = h.rid + 1
           /\ \A data, error : /\ IsHook(Loaded(h, data, error))
                               /\ ~Loaded(h, data, error).loading
                               /\ Loaded(h, data, error).data = data
                               /\ Loaded(h, data, error).rid = h.rid
<1>1. PICK d, e : h \in [data : {d}, error : {e}, loading : BOOLEAN, rid : Nat]
  BY DEF IsHook
<1>2. PICK k \in Nat : k = h.rid + 1  BY <1>1
<1>3. PICK f : f = [h EXCEPT !.rid = k, !.error = "no", !.loading = TRUE]  OBVIOUS
<1>4. f \in [data : {d}, error : {"no"}, loading : {TRUE}, rid : {k}]  BY <1>1, <1>3
<1>5. Reload(h) = f  BY <1>2, <1>3 DEF Reload
<1>6. /\ IsHook(Reload(h)) /\ Reload(h).loading
      /\ Reload(h).data = h.data /\ Reload(h).rid = h.rid + 1
  BY <1>1, <1>2, <1>4, <1>5 DEF IsHook
<1>7. PICK g : g = [f EXCEPT !.data = None]  OBVIOUS
<1>8. g \in [data : {None}, error : {"no"}, loading : {TRUE}, rid : {k}]  BY <1>4, <1>7
<1>9. Renew(h) = g  BY <1>5, <1>7 DEF Renew
<1>10. IsHook(Renew(h)) /\ Renew(h).loading /\ Renew(h).rid = h.rid + 1
  BY <1>2, <1>8, <1>9 DEF IsHook
<1>11. ASSUME NEW data, NEW error
       PROVE  /\ IsHook(Loaded(h, data, error)) /\ ~Loaded(h, data, error).loading
              /\ Loaded(h, data, error).data = data
              /\ Loaded(h, data, error).rid = h.rid
  <2>1. PICK i : i = Loaded(h, data, error)  OBVIOUS
  <2>2. i \in [data : {data}, error : {error}, loading : {FALSE}, rid : Nat] /\ i.rid = h.rid
    BY <1>1, <2>1 DEF Loaded
  <2> QED  BY <2>1, <2>2 DEF IsHook
<1> QED  BY <1>1, <1>6, <1>10, <1>11

\* A page that is mounted shows nothing, and loads what it uses.
LEMMA MountShape ==
    ASSUME NEW page
    PROVE  /\ IsHook(ListOf(page)) /\ IsHook(DetailOf(page)) /\ ListOf(page).data = None
           /\ page \in {"list", "view"} => ListOf(page).rid = 1 /\ ListOf(page).loading
           /\ page \notin {"list", "view"} => ~ListOf(page).loading
           /\ page \in {"view", "edit"} => DetailOf(page).rid = 1
           /\ page \notin {"view", "edit"} => ~DetailOf(page).loading
<1>1. NoHook \in [data : {None}, error : {"no"}, loading : {FALSE}, rid : {0}]  BY DEF NoHook
<1>2. Waiting \in [data : {None}, error : {"no"}, loading : {TRUE}, rid : {1}]
  BY <1>1 DEF Waiting
<1>3. ASSUME NEW h \in [data : {None}, error : {"no"}, loading : BOOLEAN, rid : Nat]
      PROVE  IsHook(h)
  BY DEF IsHook
<1>4. NoHook \in [data : {None}, error : {"no"}, loading : BOOLEAN, rid : Nat]
  BY DEF NoHook
<1>5. Waiting \in [data : {None}, error : {"no"}, loading : BOOLEAN, rid : Nat]
  BY <1>4 DEF Waiting
<1> QED  BY <1>1, <1>2, <1>3, <1>4, <1>5 DEF ListOf, DetailOf

LEMMA GetShape ==
    ASSUME NEW hook, NEW m, NEW rid, NEW id, NEW then \in {"stay", "list", "view"},
           NEW target, NEW by
    PROVE  LET r == Get(hook, m, rid, id, then, target, by) IN
           /\ IsGet(r) /\ r.hook = hook /\ r.mount = m /\ r.rid = rid
           /\ r.then = then /\ r.answer = None
BY DEF Get, IsGet

LEMMA AnswerShape ==
    ASSUME NEW r, IsGet(r), NEW a
    PROVE  LET q == [r EXCEPT !.answer = a] IN
           /\ IsGet(q) /\ q.hook = r.hook /\ q.mount = r.mount /\ q.rid = r.rid
           /\ q.then = r.then /\ q.answer = a
<1>1. PICK q : q = [r EXCEPT !.answer = a]  OBVIOUS
<1>2. q = [hook |-> r.hook, mount |-> r.mount, rid |-> r.rid, id |-> r.id,
           then |-> r.then, target |-> r.target, by |-> r.by, answer |-> a]
  BY <1>1 DEF IsGet
<1> QED  BY <1>1, <1>2 DEF IsGet

\* The first requests of a page that is mounted.
LEMMA FirstShape ==
    ASSUME NEW m, NEW page, NEW id
    PROVE  /\ \A r \in FirstRequests(m, page, id) :
                IsGet(r) /\ r.mount = m /\ r.rid = 1 /\ r.then = "stay" /\ r.answer = None
           /\ \A q, r \in FirstRequests(m, page, id) : q.hook = r.hook => q = r
           /\ page \in {"list", "view"}
                <=> \E r \in FirstRequests(m, page, id) : r.hook = "list"
           /\ page \in {"view", "edit"}
                <=> \E r \in FirstRequests(m, page, id) : r.hook = "detail"
<1>1. PICK a : a = Get("list", m, 1, None, "stay", None, 0)  OBVIOUS
<1>2. PICK b : b = Get("detail", m, 1, id, "stay", None, 0)  OBVIOUS
<1>3. /\ IsGet(a) /\ a.mount = m /\ a.rid = 1 /\ a.then = "stay" /\ a.answer = None
      /\ a.hook = "list"
  BY <1>1, GetShape
<1>4. /\ IsGet(b) /\ b.mount = m /\ b.rid = 1 /\ b.then = "stay" /\ b.answer = None
      /\ b.hook = "detail"
  BY <1>2, GetShape
<1>5. FirstRequests(m, page, id) =
        (IF page \in {"list", "view"} THEN {a} ELSE {}) \cup
        (IF page \in {"view", "edit"} THEN {b} ELSE {})
  BY <1>1, <1>2 DEF FirstRequests
<1> QED  BY <1>3, <1>4, <1>5

-----------------------------------------------------------------------------
(* The list *)

LEMMA Counters ==
    ASSUME CallInv
    PROVE  /\ mount \in Nat /\ clock \in Nat /\ sent \in Nat
           /\ reflected \in Nat /\ reflected <= clock
BY DEF CallInv

\* The list stays, and so do its requests.
LEMMA ListSame ==
    ASSUME CallInv, ListInv, ListWaits, mount' = mount, list' = list,
           route'.page = route.page, clock' \in Nat, clock <= clock',
           reflected' = reflected \/ route.page \notin {"list", "view"},
           \A r : AsksList(r) => (r \in reqs' <=> r \in reqs)
    PROVE  ListInv' /\ ListWaits'
<1>1. \A r : AsksList(r)' <=> AsksList(r)  BY DEF AsksList
<1>2. ASSUME NEW n \in Nat, n <= clock PROVE n <= clock'  BY <1>2, Counters
<1>3. ASSUME NEW r \in reqs', AsksList(r), r.rid = list.rid PROVE LatestList(r)'
  <2>1. r \in reqs /\ LatestList(r) /\ route.page \in {"list", "view"}  BY <1>3 DEF ListInv
  <2>2. reflected' = reflected  BY <2>1
  <2> QED  BY <1>1, <1>2, <2>1, <2>2 DEF LatestList
<1>4. ListInv'
  <2>1. \A r \in reqs' : AsksList(r)' =>
          /\ r.rid \in Nat /\ r.rid <= list'.rid /\ route'.page \in {"list", "view"}
          /\ r.rid = list'.rid => LatestList(r)'
    BY <1>1, <1>3 DEF ListInv
  <2>2. list'.data # None =>
          /\ list'.data.at \in Nat /\ list'.data.at <= clock'
          /\ route'.page \in {"list", "view"}
          /\ ~list'.loading => reflected' <= list'.data.at
    BY <1>2 DEF ListInv
  <2> QED  BY <2>1, <2>2 DEF ListInv
<1>5. ListWaits'
  <2>1. ASSUME list.loading
        PROVE  \E r \in reqs' : r.hook = "list" /\ r.mount = mount /\ r.rid = list.rid
    BY <2>1 DEF ListWaits, IsCurrent, AsksList
  <2> QED  BY <2>1 DEF ListWaits, IsCurrent
<1> QED  BY <1>4, <1>5

\* The list is loaded once more, by request q.
LEMMA ListReloads ==
    ASSUME CallInv, RequestInv, ListInv, mount' = mount, list' = Reload(list),
           route'.page = route.page, route.page \in {"list", "view"}, clock' = clock,
           NEW q \in reqs', AsksList(q), q.rid = list.rid + 1, q.answer = None,
           \A r \in reqs' : AsksList(r) => r \in reqs \/ r = q
    PROVE  ListInv' /\ ListWaits'
<1>1. \A r : AsksList(r)' <=> AsksList(r)  BY DEF AsksList
<1>2. /\ list.rid \in Nat /\ list'.loading /\ list'.data = list.data
      /\ list'.rid = list.rid + 1
  BY HookShape DEF RequestInv
<1>3. ASSUME NEW r \in reqs', AsksList(r)
      PROVE  r.rid \in Nat /\ r.rid <= list'.rid /\ (r.rid = list'.rid => r = q)
  <2>1. CASE r = q  BY <1>2, <2>1
  <2>2. CASE r \in reqs
    <3>1. r.rid \in Nat /\ r.rid <= list.rid  BY <1>3, <2>2 DEF ListInv
    <3> QED  BY <1>2, <3>1
  <2> QED  BY <1>3, <2>1, <2>2
<1>4. LatestList(q)'  BY <1>1, <1>2, <1>3 DEF LatestList
<1>5. \A r \in reqs' : AsksList(r)' =>
        /\ r.rid \in Nat /\ r.rid <= list'.rid /\ route'.page \in {"list", "view"}
        /\ r.rid = list'.rid => LatestList(r)'
  BY <1>1, <1>3, <1>4
<1>6. list'.data # None =>
        list'.data.at \in Nat /\ list'.data.at <= clock' /\ route'.page \in {"list", "view"}
  BY <1>2 DEF ListInv
<1>7. ListInv'  BY <1>2, <1>5, <1>6 DEF ListInv
<1>8. q.hook = "list" /\ q.mount = mount' /\ q.rid = list'.rid  BY <1>2 DEF AsksList
<1>9. ListWaits'  BY <1>8 DEF ListWaits, IsCurrent
<1> QED  BY <1>7, <1>9

\* A page is mounted.
LEMMA ListMounts ==
    ASSUME CallInv, RequestInv, NEW page, NEW id, NEW rs \in SUBSET reqs,
           route' = [page |-> page, id |-> id], mount' = mount + 1, list' = ListOf(page),
           reqs' = Awaited(rs) \cup FirstRequests(mount + 1, page, id)
    PROVE  ListInv' /\ ListWaits'
<1>1. mount \in Nat  BY Counters
<1>2. route'.page = page  OBVIOUS
<1>3. PICK m : m = mount + 1  OBVIOUS
<1>4. ASSUME NEW r \in reqs', AsksList(r)'
      PROVE  /\ r \in FirstRequests(m, page, id) /\ r.rid = 1 /\ r.answer = None
             /\ page \in {"list", "view"}
  <2>1. r.mount = m /\ r.hook = "list"  BY <1>3, <1>4 DEF AsksList
  <2>2. r \notin Awaited(rs)
    <3>1. ASSUME r \in reqs PROVE FALSE
      <4>1. r.mount \in Nat /\ r.mount <= mount  BY <3>1 DEF RequestInv
      <4> QED  BY <1>1, <1>3, <2>1, <4>1
    <3> QED  BY <3>1 DEF Awaited
  <2>3. r \in FirstRequests(m, page, id)  BY <1>3, <1>4, <2>2
  <2> QED  BY <2>1, <2>3, FirstShape
<1>5. ASSUME NEW r \in reqs', AsksList(r)' PROVE LatestList(r)'
  <2>1. list'.loading  BY <1>4, <1>5, MountShape
  <2>2. \A q \in reqs' : AsksList(q)' => q = r  BY <1>4, <1>5, FirstShape DEF AsksList
  <2>3. r.answer = None  BY <1>4, <1>5
  <2> QED  BY <2>1, <2>2, <2>3 DEF LatestList
<1>6. /\ list'.data = None /\ (page \in {"list", "view"} => list'.rid = 1)
      /\ list'.loading => page \in {"list", "view"}
  BY MountShape
<1>7. ListInv'  BY <1>2, <1>4, <1>5, <1>6 DEF ListInv
<1>8. ASSUME list'.loading
      PROVE  \E r \in reqs' : r.hook = "list" /\ r.mount = mount' /\ r.rid = list'.rid
  <2>1. PICK r \in FirstRequests(m, page, id) : r.hook = "list"
    BY <1>6, <1>8, FirstShape
  <2>2. r.mount = m /\ r.rid = 1 /\ r \in reqs'  BY <1>3, <2>1, FirstShape
  <2> QED  BY <1>3, <1>6, <1>8, <2>1, <2>2
<1>9. ListWaits'  BY <1>8 DEF ListWaits, IsCurrent
<1> QED  BY <1>7, <1>9

\* The server answers request r of the list.
LEMMA ListAnswered ==
    ASSUME CallInv, ListInv, ListWaits, UNCHANGED <<mount, list, clock, reflected>>,
           route'.page = route.page, NEW r \in reqs, NEW q, NEW a, q.answer = a,
           q.hook = r.hook, q.mount = r.mount, q.rid = r.rid,
           r.hook = "list" => a.at = clock,
           reqs' = (reqs \ {r}) \cup {q}
    PROVE  ListInv' /\ ListWaits'
<1>1. \A p : AsksList(p)' <=> AsksList(p)  BY DEF AsksList
<1>2. AsksList(q) <=> AsksList(r)  BY DEF AsksList
<1>3. ASSUME NEW p \in reqs', AsksList(p), p.rid = list.rid PROVE LatestList(p)'
  <2>1. CASE p = q
    <3>1. LatestList(r)  BY <1>2, <1>3, <2>1 DEF ListInv
    <3>2. a.at = clock  BY <1>3, <2>1 DEF AsksList
    <3>3. clock \in Nat /\ reflected <= clock  BY Counters
    <3>4. list.data # None => list.data.at <= clock  BY DEF ListInv
    <3>5. \A x \in reqs' : AsksList(x) /\ x.rid = list.rid => x = q
      BY <3>1 DEF LatestList
    <3>6. list.loading  BY <3>1 DEF LatestList
    <3> QED  BY <1>1, <2>1, <3>2, <3>3, <3>4, <3>5, <3>6 DEF LatestList
  <2>2. CASE p # q
    <3>1. p \in reqs /\ p # r /\ LatestList(p)  BY <1>3, <2>2 DEF ListInv
    <3>2. ~(AsksList(q) /\ q.rid = list.rid)  BY <1>2, <3>1 DEF LatestList
    <3> QED  BY <1>1, <3>1, <3>2 DEF LatestList
  <2> QED  BY <2>1, <2>2
<1>4. \A p \in reqs' : AsksList(p)' =>
        /\ p.rid \in Nat /\ p.rid <= list'.rid /\ route'.page \in {"list", "view"}
        /\ p.rid = list'.rid => LatestList(p)'
  BY <1>1, <1>2, <1>3 DEF ListInv
<1>5. ListInv'  BY <1>4 DEF ListInv
<1>6. ListWaits'  BY DEF ListWaits, IsCurrent
<1> QED  BY <1>5, <1>6

\* The list takes the outcome of its latest request.
LEMMA ListTakes ==
    ASSUME CallInv, RequestInv, ListInv, UNCHANGED <<mount, clock, reflected>>,
           route'.page = route.page, NEW r \in reqs, AsksList(r), r.rid = list.rid,
           NEW data, NEW error, list' = Loaded(list, data, error), reqs' = reqs \ {r},
           data # None => r.answer # None /\ data = r.answer
    PROVE  ListInv' /\ ListWaits'
<1>1. \A p : AsksList(p)' <=> AsksList(p)  BY DEF AsksList
<1>2. ~list'.loading /\ list'.data = data /\ list'.rid = list.rid
  BY HookShape DEF RequestInv
<1>3. LatestList(r) /\ route.page \in {"list", "view"}  BY DEF ListInv
<1>4. \A p \in reqs' : AsksList(p) => p.rid # list.rid  BY <1>3 DEF LatestList
<1>5. \A p \in reqs' : AsksList(p)' =>
        /\ p.rid \in Nat /\ p.rid <= list'.rid /\ route'.page \in {"list", "view"}
        /\ p.rid = list'.rid => LatestList(p)'
  BY <1>1, <1>2, <1>4 DEF ListInv
<1>6. data # None => /\ data.at \in Nat /\ data.at <= clock /\ reflected <= data.at
  BY <1>3 DEF LatestList
<1>7. ListInv'  BY <1>2, <1>3, <1>5, <1>6 DEF ListInv
<1>8. ListWaits'  BY <1>2 DEF ListWaits
<1> QED  BY <1>7, <1>8

\* A request that the list does not wait for goes.
LEMMA ListIgnores ==
    ASSUME CallInv, ListInv, ListWaits, UNCHANGED <<mount, clock, reflected>>,
           route'.page = route.page, list' = list, NEW r \in reqs,
           ~(AsksList(r) /\ r.rid = list.rid), reqs' = reqs \ {r}
    PROVE  ListInv' /\ ListWaits'
<1>1. \A p : AsksList(p)' <=> AsksList(p)  BY DEF AsksList
<1>2. \A p : LatestList(p) => LatestList(p)'  BY <1>1 DEF LatestList
<1>3. ListInv'
  <2>1. \A p \in reqs' : AsksList(p)' =>
          /\ p.rid \in Nat /\ p.rid <= list'.rid /\ route'.page \in {"list", "view"}
          /\ p.rid = list'.rid => LatestList(p)'
    BY <1>1, <1>2 DEF ListInv
  <2> QED  BY <2>1 DEF ListInv
<1>4. ASSUME list.loading
      PROVE  \E q \in reqs' : q.hook = "list" /\ q.mount = mount /\ q.rid = list.rid
  BY <1>4 DEF ListWaits, IsCurrent, AsksList
<1> QED  BY <1>3, <1>4 DEF ListWaits, IsCurrent

-----------------------------------------------------------------------------
(* The detail *)

\* The detail stays, and so does what it waits for.
LEMMA DetailSame ==
    ASSUME DetailWaits, mount' = mount, detail' = detail,
           \A r \in reqs : r.hook = "detail" /\ r.mount = mount =>
             \E q \in reqs' : q.hook = "detail" /\ q.mount = mount /\ q.rid = r.rid
    PROVE  DetailWaits'
BY DEF DetailWaits, IsCurrent

\* The detail is loaded once more, by request q.
LEMMA DetailRenews ==
    ASSUME RequestInv, mount' = mount, detail' = Renew(detail), NEW q \in reqs',
           q.hook = "detail", q.mount = mount, q.rid = detail.rid + 1
    PROVE  DetailWaits'
<1>1. detail'.rid = detail.rid + 1  BY HookShape DEF RequestInv
<1> QED  BY <1>1 DEF DetailWaits, IsCurrent

\* A page is mounted.
LEMMA DetailMounts ==
    ASSUME NEW page, NEW id, mount' = mount + 1, detail' = DetailOf(page),
           FirstRequests(mount + 1, page, id) \subseteq reqs'
    PROVE  DetailWaits'
<1>1. PICK m : m = mount + 1  OBVIOUS
<1>2. ASSUME detail'.loading
      PROVE  \E r \in reqs' : r.hook = "detail" /\ r.mount = mount' /\ r.rid = detail'.rid
  <2>1. page \in {"view", "edit"} /\ detail'.rid = 1  BY <1>2, MountShape
  <2>2. PICK r \in FirstRequests(m, page, id) : r.hook = "detail"  BY <2>1, FirstShape
  <2>3. r.mount = m /\ r.rid = 1  BY <2>2, FirstShape
  <2> QED  BY <1>1, <2>1, <2>2, <2>3
<1> QED  BY <1>2 DEF DetailWaits, IsCurrent

-----------------------------------------------------------------------------
(* The requests *)

\* The page stays: its requests are those it had, and the ones it makes.
LEMMA RequestsOfPage ==
    ASSUME RequestInv, mount' = mount, route'.page = route.page, IsHook(list'), IsHook(detail'),
           \A r \in reqs' : \/ r \in reqs
                            \/ /\ IsGet(r) /\ r.mount \in Nat /\ r.mount <= mount
                               /\ r.mount = mount /\ r.then = "list" => route.page = "view"
                               /\ r.mount = mount /\ r.then = "view" => route.page = "edit"
    PROVE  RequestInv'
<1>1. \A r \in reqs' :
        /\ IsGet(r) /\ r.mount \in Nat /\ r.mount <= mount
        /\ r.mount = mount /\ r.then = "list" => route.page = "view"
        /\ r.mount = mount /\ r.then = "view" => route.page = "edit"
  BY DEF RequestInv
<1> QED  BY <1>1 DEF RequestInv

\* A page is mounted.
LEMMA RequestsOfNextPage ==
    ASSUME CallInv, RequestInv, NEW page, NEW id, NEW rs \in SUBSET reqs,
           mount' = mount + 1, list' = ListOf(page), detail' = DetailOf(page),
           reqs' = Awaited(rs) \cup FirstRequests(mount + 1, page, id)
    PROVE  RequestInv'
<1>1. mount \in Nat  BY Counters
<1>2. IsHook(list') /\ IsHook(detail')  BY MountShape
<1>3. ASSUME NEW r \in reqs'
      PROVE  /\ IsGet(r) /\ r.mount \in Nat /\ r.mount <= mount'
             /\ r.mount = mount' => r.then = "stay"
  <2>1. CASE r \in reqs
    <3>1. IsGet(r) /\ r.mount \in Nat /\ r.mount <= mount  BY <2>1 DEF RequestInv
    <3> QED  BY <1>1, <3>1
  <2>2. CASE r \in FirstRequests(mount + 1, page, id)
    <3>1. PICK m : m = mount + 1  OBVIOUS
    <3>2. IsGet(r) /\ r.mount = m /\ r.then = "stay"  BY <2>2, <3>1, FirstShape
    <3> QED  BY <1>1, <3>1, <3>2
  <2> QED  BY <1>3, <2>1, <2>2 DEF Awaited
<1> QED  BY <1>2, <1>3 DEF RequestInv

-----------------------------------------------------------------------------
(* Moving between pages *)

\* The requests that rs leaves out are not of this page, unless it is left.
LEMMA NavigateKeeps ==
    ASSUME CallInv, RequestInv, ListInv, ListWaits, DetailWaits,
           NEW page, NEW id, NEW rs \in SUBSET reqs, Navigate(page, id, rs),
           \A r \in reqs \ rs : r.mount = mount => page # route.page,
           clock' = clock, mount' = mount => reflected' = reflected
    PROVE  /\ RequestInv' /\ ListInv' /\ ListWaits' /\ DetailWaits'
           /\ \/ mount' = mount + 1 /\ mut' = NoMut
              \/ mount' = mount /\ mut' = mut /\ route'.page = route.page
<1>1. route' = [page |-> page, id |-> id] /\ route'.page = page  BY DEF Navigate
<1>2. CASE page # route.page
  <2>1. /\ mount' = mount + 1 /\ list' = ListOf(page) /\ detail' = DetailOf(page)
        /\ mut' = NoMut /\ reqs' = Awaited(rs) \cup FirstRequests(mount + 1, page, id)
    BY <1>2 DEF Navigate
  <2>2. ListInv' /\ ListWaits'  BY <1>1, <2>1, ListMounts
  <2>3. DetailWaits'  BY <2>1, DetailMounts
  <2>4. RequestInv'  BY <2>1, RequestsOfNextPage
  <2> QED  BY <2>1, <2>2, <2>3, <2>4
<1>3. ASSUME page = route.page PROVE clock' \in Nat /\ clock <= clock'  BY Counters
<1>4. CASE page = route.page /\ id # route.id
  <2>1. PICK q : q = Get("detail", mount, detail.rid + 1, id, "stay", None, 0)  OBVIOUS
  <2>2. /\ detail' = Renew(detail) /\ reqs' = rs \cup {q}
        /\ mount' = mount /\ list' = list /\ mut' = mut
    BY <1>4, <2>1 DEF Navigate
  <2>3. /\ IsGet(q) /\ q.hook = "detail" /\ q.mount = mount /\ q.rid = detail.rid + 1
        /\ q.then = "stay"
    BY <2>1, GetShape
  <2>4. DetailWaits'  BY <2>2, <2>3, DetailRenews
  <2>5. \A r : AsksList(r) => (r \in reqs' <=> r \in reqs)
    BY <1>4, <2>2, <2>3 DEF AsksList
  <2>6. ListInv' /\ ListWaits'  BY <1>1, <1>3, <1>4, <2>2, <2>5, ListSame
  <2>7. IsHook(list') /\ IsHook(detail')  BY <2>2, HookShape DEF RequestInv
  <2>8. mount \in Nat  BY Counters
  <2>9. RequestInv'  BY <1>1, <1>4, <2>2, <2>3, <2>7, <2>8, RequestsOfPage
  <2> QED  BY <1>1, <1>4, <2>2, <2>4, <2>6, <2>9
<1>5. CASE page = route.page /\ id = route.id
  <2>1. reqs' = rs /\ mount' = mount /\ list' = list /\ detail' = detail /\ mut' = mut
    BY <1>5 DEF Navigate
  <2>2. \A r : AsksList(r) => (r \in reqs' <=> r \in reqs)  BY <1>5, <2>1 DEF AsksList
  <2>3. ListInv' /\ ListWaits'  BY <1>1, <1>3, <1>5, <2>1, <2>2, ListSame
  <2>4. \A r \in reqs : r.mount = mount => r \in reqs'  BY <1>5, <2>1
  <2>5. DetailWaits'  BY <2>1, <2>4, DetailSame
  <2>6. IsHook(list') /\ IsHook(detail')  BY <2>1 DEF RequestInv
  <2>7. RequestInv'  BY <1>1, <1>5, <2>1, <2>6, RequestsOfPage
  <2> QED  BY <1>1, <1>5, <2>1, <2>3, <2>5, <2>7
<1> QED  BY <1>2, <1>4, <1>5

-----------------------------------------------------------------------------
(* The calls *)

\* The calls of the page shown, and what its buttons know of them.
OnPage  == {c \in calls : c.mount = mount}
Pending == mut.pending = Cardinality(OnPage)

\* What CallInv says of one call.
CallOK(c) == /\ IsCall(c) /\ c.n <= sent /\ c.mount <= mount
             /\ c.at \in Nat /\ c.at <= clock
             /\ c.mount = mount => c.from = route.page

LEMMA CallsTold ==
    ASSUME CallInv
    PROVE  /\ IsFiniteSet(calls) /\ IsFiniteSet(OnPage)
           /\ \A c \in calls : CallOK(c) /\ c.n \in Nat /\ c.mount \in Nat
           /\ \A c, d \in calls : c.n = d.n => c = d
<1>1. IsFiniteSet(calls)  BY DEF CallInv
<1>2. OnPage \subseteq calls  BY DEF OnPage
<1>3. IsFiniteSet(OnPage)  BY <1>1, <1>2, FS_Subset
<1>4. \A c \in calls : CallOK(c)  BY DEF CallInv, CallOK
<1>5. \A c \in calls : c.n \in Nat /\ c.mount \in Nat  BY <1>4 DEF CallOK, IsCall
<1>6. \A c, d \in calls : c.n = d.n => c = d  BY DEF CallInv
<1> QED  BY <1>1, <1>3, <1>4, <1>5, <1>6

\* The calls that stay are still as CallInv says, on the same page or another.
LEMMA CallStays ==
    ASSUME CallInv, NEW c \in calls, clock' \in Nat, clock <= clock', sent' \in Nat,
           sent <= sent',
           mount' = mount + 1 \/ (mount' = mount /\ route'.page = route.page)
    PROVE  CallOK(c)' /\ (mount' = mount + 1 => c.mount # mount')
<1>1. CallOK(c) /\ c.n \in Nat /\ c.mount \in Nat  BY CallsTold
<1>2. mount \in Nat /\ clock \in Nat /\ sent \in Nat  BY Counters
<1>3. /\ IsCall(c) /\ c.n <= sent /\ c.mount <= mount /\ c.at \in Nat /\ c.at <= clock
      /\ c.mount = mount => c.from = route.page
  BY <1>1 DEF CallOK
<1>4. c.n <= sent' /\ c.at <= clock'  BY <1>1, <1>2, <1>3
<1>5. CASE mount' = mount + 1
  <2>1. c.mount <= mount' /\ c.mount # mount'  BY <1>1, <1>2, <1>3, <1>5
  <2> QED  BY <1>3, <1>4, <2>1 DEF CallOK
<1>6. CASE mount' = mount /\ route'.page = route.page
  <2>1. mount' # mount + 1  BY <1>2, <1>6
  <2> QED  BY <1>3, <1>4, <1>6, <2>1 DEF CallOK
<1> QED  BY <1>5, <1>6

\* No call is made or answered: some may be taken, by the page that is left.
LEMMA CallsMount ==
    ASSUME CallInv, calls' \subseteq calls, clock' = clock, sent' = sent,
           mount' = mount + 1, mut' = NoMut, reflected' = 0
    PROVE  CallInv' /\ Pending'
<1>1. mount \in Nat /\ clock \in Nat /\ sent \in Nat  BY Counters
<1>2. clock <= clock' /\ sent <= sent' /\ clock' \in Nat /\ sent' \in Nat  BY <1>1
<1>3. \A c \in calls' : CallOK(c)' /\ c.mount # mount'  BY <1>2, CallStays
<1>4. IsFiniteSet(calls')  BY CallsTold, FS_Subset
<1>5. \A c, d \in calls' : c.n = d.n => c = d  BY CallsTold
<1>6. mount' \in Nat /\ reflected' \in Nat /\ reflected' <= clock'  BY <1>1
<1>7. CallInv'
  <2>1. \A c \in calls' : CallOK(c)'  BY <1>3
  <2>2. \A c \in calls' : /\ IsCall(c) /\ c.n <= sent' /\ c.mount <= mount'
                          /\ c.at \in Nat /\ c.at <= clock'
                          /\ c.mount = mount' => c.from = route'.page
    BY <2>1 DEF CallOK
  <2> QED  BY <1>2, <1>4, <1>5, <1>6, <2>2 DEF CallInv
<1>8. OnPage' = {}  BY <1>3 DEF OnPage
<1> QED  BY <1>7, <1>8, FS_EmptySet DEF Pending, NoMut

\* The page stays, and so do its calls.
LEMMA CallsStay ==
    ASSUME CallInv, Pending, calls' \subseteq calls, OnPage \subseteq calls', mount' = mount,
           route'.page = route.page, mut' = mut, sent' = sent, clock' \in Nat,
           clock <= clock', reflected' \in Nat, reflected' <= clock'
    PROVE  CallInv' /\ Pending'
<1>1. mount \in Nat /\ clock \in Nat /\ sent \in Nat  BY Counters
<1>2. sent <= sent' /\ sent' \in Nat  BY <1>1
<1>3. \A c \in calls' : CallOK(c)'  BY <1>2, CallStays
<1>4. IsFiniteSet(calls') /\ \A c, d \in calls' : c.n = d.n => c = d
  BY CallsTold, FS_Subset
<1>5. \A c \in calls' : /\ IsCall(c) /\ c.n <= sent' /\ c.mount <= mount'
                        /\ c.at \in Nat /\ c.at <= clock'
                        /\ c.mount = mount' => c.from = route'.page
  BY <1>3 DEF CallOK
<1>6. CallInv'  BY <1>1, <1>2, <1>4, <1>5 DEF CallInv
<1>7. OnPage' = OnPage  BY DEF OnPage
<1> QED  BY <1>6, <1>7 DEF Pending

\* A call is made on the page shown.
LEMMA CallMade ==
    ASSUME CallInv, Pending, NEW kind, NEW s, Call(kind, s), detail.rid \in Nat
    PROVE  CallInv' /\ Pending'
<1>1. mount \in Nat /\ clock \in Nat /\ sent \in Nat /\ reflected \in Nat /\ reflected <= clock
  BY Counters
<1>2. PICK n \in Nat : n = sent + 1  BY <1>1
<1>3. PICK c : c = [n |-> n, kind |-> kind, id |-> s, page |-> route.id,
                    from |-> route.page, mount |-> mount, panel |-> detail.rid,
                    stage |-> "sent", at |-> 0]
  OBVIOUS
<1>4. /\ c.n = n /\ c.mount = mount /\ c.panel = detail.rid /\ c.from = route.page /\ c.at = 0
      /\ c = [n |-> c.n, kind |-> c.kind, id |-> c.id, page |-> c.page, from |-> c.from,
              mount |-> c.mount, panel |-> c.panel, stage |-> c.stage, at |-> c.at]
  BY <1>3
<1>5. IsCall(c)  BY <1>1, <1>4 DEF IsCall
<1>6. /\ calls' = calls \cup {c} /\ sent' = n /\ mut' = Began(mut)
      /\ UNCHANGED <<clock, route, mount, reflected>>
  BY <1>2, <1>3 DEF Call, RunMutation
<1>7. clock' \in Nat /\ clock <= clock' /\ sent' \in Nat /\ sent <= sent'  BY <1>1, <1>2, <1>6
<1>8. ASSUME NEW d \in calls' PROVE CallOK(d)'
  <2>1. CASE d \in calls  BY <1>6, <1>7, <2>1, CallStays
  <2>2. CASE d = c  BY <1>1, <1>2, <1>4, <1>5, <1>6, <2>2 DEF CallOK
  <2> QED  BY <1>6, <1>8, <2>1, <2>2
<1>9. \A d \in calls : d.n # n
  <2>1. \A d \in calls : d.n \in Nat /\ d.n <= sent  BY CallsTold DEF CallOK
  <2> QED  BY <1>1, <1>2, <2>1
<1>10. \A d, e \in calls' : d.n = e.n => d = e  BY <1>4, <1>6, <1>9, CallsTold
<1>11. IsFiniteSet(calls')  BY <1>6, CallsTold, FS_AddElement
<1>12. \A d \in calls' : /\ IsCall(d) /\ d.n <= sent' /\ d.mount <= mount'
                         /\ d.at \in Nat /\ d.at <= clock'
                         /\ d.mount = mount' => d.from = route'.page
  BY <1>8 DEF CallOK
<1>13. CallInv'  BY <1>1, <1>6, <1>7, <1>10, <1>11, <1>12 DEF CallInv
<1>14. OnPage' = OnPage \cup {c} /\ c \notin OnPage  BY <1>4, <1>6, <1>9 DEF OnPage
<1>15. Cardinality(OnPage') = Cardinality(OnPage) + 1  BY <1>14, CallsTold, FS_AddElement
<1>16. mut'.pending = mut.pending + 1  BY <1>6 DEF Began
<1> QED  BY <1>13, <1>15, <1>16 DEF Pending

\* The server answers a call.
LEMMA CallAnswered ==
    ASSUME CallInv, Pending, NEW c \in calls, NEW s, NEW stage, Reply(c, s, stage),
           clock' \in Nat, clock <= clock', UNCHANGED <<route, mount, mut, sent, reflected>>
    PROVE  CallInv' /\ Pending'
<1>1. mount \in Nat /\ clock \in Nat /\ sent \in Nat /\ reflected \in Nat /\ reflected <= clock
  BY Counters
<1>2. PICK t \in Nat : t = clock'  OBVIOUS
<1>3. PICK d : d = [c EXCEPT !.id = s, !.stage = stage, !.at = t]  OBVIOUS
<1>4. CallOK(c) /\ IsCall(c)  BY CallsTold DEF CallOK
<1>5. d = [n |-> c.n, kind |-> c.kind, id |-> s, page |-> c.page, from |-> c.from,
           mount |-> c.mount, panel |-> c.panel, stage |-> stage, at |-> t]
  BY <1>3, <1>4 DEF IsCall
<1>6. d.n = c.n /\ d.mount = c.mount /\ d.from = c.from /\ d.at = t /\ IsCall(d)
  BY <1>4, <1>5 DEF IsCall
<1>7. calls' = (calls \ {c}) \cup {d}  BY <1>2, <1>3 DEF Reply
<1>8. sent' \in Nat /\ sent <= sent'  BY <1>1
<1>9. ASSUME NEW e \in calls' PROVE CallOK(e)'
  <2>1. CASE e \in calls  BY <1>8, <2>1, CallStays
  <2>2. CASE e = d
    <3>1. CallOK(c)'  BY <1>8, CallStays
    <3> QED  BY <1>2, <1>6, <2>2, <3>1 DEF CallOK
  <2> QED  BY <1>7, <1>9, <2>1, <2>2
<1>10. \A e, f \in calls' : e.n = f.n => e = f
  <2>1. \A e \in calls \ {c} : e.n # d.n  BY <1>6, CallsTold
  <2> QED  BY <1>7, <2>1, CallsTold
<1>11. IsFiniteSet(calls')
  <2>1. IsFiniteSet(calls \ {c})  BY CallsTold, FS_Subset
  <2> QED  BY <1>7, <2>1, FS_AddElement
<1>12. \A e \in calls' : /\ IsCall(e) /\ e.n <= sent' /\ e.mount <= mount'
                         /\ e.at \in Nat /\ e.at <= clock'
                         /\ e.mount = mount' => e.from = route'.page
  BY <1>9 DEF CallOK
<1>13. reflected' \in Nat /\ reflected' <= clock'  BY <1>1
<1>14. CallInv'  BY <1>1, <1>8, <1>10, <1>11, <1>12, <1>13 DEF CallInv
<1>15. CASE c.mount # mount
  <2>1. OnPage' = OnPage  BY <1>6, <1>7, <1>15 DEF OnPage
  <2> QED  BY <1>14, <2>1 DEF Pending
<1>16. CASE c.mount = mount
  <2>1. c \in OnPage /\ OnPage' = (OnPage \ {c}) \cup {d}  BY <1>6, <1>7, <1>16 DEF OnPage
  <2>2. d \notin OnPage \ {c}  BY <1>6, CallsTold DEF OnPage
  <2>3. /\ IsFiniteSet(OnPage \ {c})
        /\ Cardinality(OnPage \ {c}) = Cardinality(OnPage) - 1
    BY <2>1, CallsTold, FS_RemoveElement
  <2>4. Cardinality(OnPage') = Cardinality(OnPage \ {c}) + 1
    BY <2>1, <2>2, <2>3, FS_AddElement
  <2>5. Cardinality(OnPage) \in Nat  BY CallsTold, FS_CardinalityType
  <2>6. Cardinality(OnPage') = Cardinality(OnPage)  BY <2>3, <2>4, <2>5
  <2> QED  BY <1>14, <2>6 DEF Pending
<1> QED  BY <1>15, <1>16

\* A page takes the answer of a call, and stays.
LEMMA CallSettled ==
    ASSUME CallInv, Pending, NEW c \in calls, calls' = calls \ {c}, Settled(c),
           mount' = mount, route'.page = route.page, clock' = clock, sent' = sent,
           reflected' \in {c.at, reflected}
    PROVE  CallInv' /\ Pending'
<1>1. mount \in Nat /\ clock \in Nat /\ sent \in Nat /\ reflected \in Nat /\ reflected <= clock
  BY Counters
<1>2. clock' \in Nat /\ clock <= clock' /\ sent' \in Nat /\ sent <= sent'  BY <1>1
<1>3. \A d \in calls' : CallOK(d)'  BY <1>2, CallStays
<1>4. IsFiniteSet(calls')  BY CallsTold, FS_Subset
<1>5. \A d, e \in calls' : d.n = e.n => d = e  BY CallsTold
<1>6. reflected' \in Nat /\ reflected' <= clock'
  <2>1. c.at \in Nat /\ c.at <= clock  BY CallsTold DEF CallOK
  <2> QED  BY <1>1, <2>1
<1>7. \A d \in calls' : /\ IsCall(d) /\ d.n <= sent' /\ d.mount <= mount'
                        /\ d.at \in Nat /\ d.at <= clock'
                        /\ d.mount = mount' => d.from = route'.page
  BY <1>3 DEF CallOK
<1>8. CallInv'  BY <1>1, <1>2, <1>4, <1>5, <1>6, <1>7 DEF CallInv
<1>9. CASE c.mount # mount
  <2>1. OnPage' = OnPage  BY <1>9 DEF OnPage
  <2> QED  BY <1>8, <1>9, <2>1 DEF Pending, Settled
<1>10. CASE c.mount = mount
  <2>1. c \in OnPage /\ OnPage' = OnPage \ {c}  BY <1>10 DEF OnPage
  <2>2. Cardinality(OnPage') = Cardinality(OnPage) - 1
    BY <2>1, CallsTold, FS_RemoveElement
  <2>3. Cardinality(OnPage) \in Nat  BY CallsTold, FS_CardinalityType
  <2>4. Cardinality(OnPage') \in Nat
    <3>1. IsFiniteSet(OnPage \ {c})  BY CallsTold, FS_Subset
    <3> QED  BY <2>1, <3>1, FS_CardinalityType
  <2>5. mut.pending # 0  BY <2>2, <2>3, <2>4 DEF Pending
  <2>6. mut' = Ended(mut, c.stage # "done")  BY <1>10 DEF Settled
  <2>7. mut'.pending = mut.pending - 1  BY <2>5, <2>6 DEF Ended
  <2> QED  BY <1>8, <2>2, <2>7 DEF Pending
<1> QED  BY <1>9, <1>10

-----------------------------------------------------------------------------
(* The user's steps *)

LEMMA StartKeeps ==
    ASSUME Init
    PROVE  PageInv
<1>1. PICK page \in Pages, id \in Ids \cup {None} : Opened(page, id)  BY DEF Init
<1>2. /\ route = [page |-> page, id |-> id] /\ mount = 1 /\ list = ListOf(page)
      /\ detail = DetailOf(page) /\ mut = NoMut /\ reqs = FirstRequests(1, page, id)
      /\ calls = {}
  BY <1>1 DEF Opened
<1>3. clock = 1 /\ sent = 0 /\ reflected = 0  BY DEF Init
<1>4. route.page = page  BY <1>2
<1>5. CallInv
  <2>1. mount \in Nat /\ clock \in Nat /\ sent \in Nat /\ reflected \in Nat /\ reflected <= clock
    BY <1>2, <1>3
  <2>2. IsFiniteSet(calls)  BY <1>2, FS_EmptySet
  <2>3. calls = {}  BY <1>2
  <2> QED  BY <2>1, <2>2, <2>3 DEF CallInv
<1>6. \A r \in reqs :
        IsGet(r) /\ r.mount = 1 /\ r.rid = 1 /\ r.then = "stay" /\ r.answer = None
  BY <1>2, FirstShape
<1>7. RequestInv
  <2>1. IsHook(list) /\ IsHook(detail)  BY <1>2, MountShape
  <2> QED  BY <1>2, <1>6, <2>1 DEF RequestInv
<1>8. /\ list.data = None /\ (page \in {"list", "view"} => list.rid = 1 /\ list.loading)
      /\ page \notin {"list", "view"} => ~list.loading
  BY <1>2, MountShape
<1>9. ASSUME NEW r \in reqs, AsksList(r)
      PROVE  r.rid = 1 /\ page \in {"list", "view"} /\ LatestList(r)
  <2>1. r.hook = "list" /\ r.rid = 1 /\ r.answer = None  BY <1>6, <1>9 DEF AsksList
  <2>2. page \in {"list", "view"}  BY <1>2, <2>1, FirstShape
  <2>3. \A q \in reqs : AsksList(q) => q = r  BY <1>2, <2>1, FirstShape DEF AsksList
  <2> QED  BY <1>8, <2>1, <2>2, <2>3 DEF LatestList
<1>10. ListInv  BY <1>4, <1>8, <1>9 DEF ListInv
<1>11. ListWaits
  <2>1. ASSUME list.loading PROVE \E r \in reqs : r.hook = "list"
    BY <1>2, <1>8, <2>1, FirstShape
  <2> QED  BY <1>2, <1>6, <1>8, <2>1 DEF ListWaits, IsCurrent
<1>12. DetailWaits
  <2>1. ASSUME detail.loading PROVE detail.rid = 1 /\ \E r \in reqs : r.hook = "detail"
    BY <1>2, <2>1, FirstShape, MountShape
  <2> QED  BY <1>2, <1>6, <2>1 DEF DetailWaits, IsCurrent
<1>13. mut.pending = Cardinality({c \in calls : c.mount = mount})
  <2>1. {c \in calls : c.mount = mount} = {}  BY <1>2
  <2> QED  BY <1>2, <2>1, FS_EmptySet DEF NoMut
<1> QED  BY <1>5, <1>7, <1>10, <1>11, <1>12, <1>13 DEF PageInv, WaitsForAnswers

\* PageInv by the parts that the lemmas keep.
LEMMA PageParts ==
    PageInv <=> /\ CallInv /\ Pending /\ RequestInv /\ ListInv /\ ListWaits /\ DetailWaits
BY DEF PageInv, WaitsForAnswers, Pending, OnPage

\* The hooks and the requests are not touched.
LEMMA HooksStay ==
    ASSUME CallInv, RequestInv, ListInv, ListWaits, DetailWaits,
           UNCHANGED <<mount, list, detail, reqs>>, route' = route,
           clock' \in Nat, clock <= clock', reflected' = reflected
    PROVE  RequestInv' /\ ListInv' /\ ListWaits' /\ DetailWaits'
<1>1. ListInv' /\ ListWaits'  BY ListSame
<1>2. DetailWaits'  BY DetailSame
<1>3. RequestInv'  BY DEF RequestInv
<1> QED  BY <1>1, <1>2, <1>3

LEMMA CallKeeps ==
    ASSUME PageInv, NEW kind, NEW s, Call(kind, s)
    PROVE  PageInv'
<1>1. CallInv /\ Pending /\ RequestInv /\ ListInv /\ ListWaits /\ DetailWaits  BY PageParts
<1>2. detail.rid \in Nat  BY <1>1, HookShape DEF RequestInv
<1>3. CallInv' /\ Pending'  BY <1>1, <1>2, CallMade
<1>4. UNCHANGED <<clock, route, mount, list, detail, reqs, reflected>>
  BY DEF Call, RunMutation
<1>5. clock' \in Nat /\ clock <= clock'  BY <1>1, <1>4, Counters
<1>6. RequestInv' /\ ListInv' /\ ListWaits' /\ DetailWaits'
  BY <1>1, <1>4, <1>5, HooksStay
<1> QED  BY <1>3, <1>6 DEF PageInv, WaitsForAnswers, Pending, OnPage

LEMMA RefreshKeeps ==
    ASSUME PageInv, RefreshList
    PROVE  PageInv'
<1>1. CallInv /\ Pending /\ RequestInv /\ ListInv /\ ListWaits /\ DetailWaits  BY PageParts
<1>2. PICK q : q = Get("list", mount, list.rid + 1, None, "stay", None, 0)  OBVIOUS
<1>3. /\ route.page = "list" /\ list' = Reload(list) /\ reqs' = reqs \cup {q}
      /\ UNCHANGED <<clock, route, mount, detail, mut, calls, sent, reflected>>
  BY <1>2 DEF RefreshList
<1>4. /\ IsGet(q) /\ q.hook = "list" /\ q.mount = mount /\ q.rid = list.rid + 1
      /\ q.then = "stay" /\ q.answer = None
  BY <1>2, GetShape
<1>5. mount \in Nat /\ clock \in Nat /\ reflected \in Nat /\ reflected <= clock  BY <1>1, Counters
<1>6. CallInv' /\ Pending'
  <2>1. clock' \in Nat /\ clock <= clock' /\ reflected' \in Nat /\ reflected' <= clock'
    BY <1>3, <1>5
  <2>2. calls' \subseteq calls /\ OnPage \subseteq calls'  BY <1>3 DEF OnPage
  <2> QED  BY <1>1, <1>3, <2>1, <2>2, CallsStay
<1>7. ListInv' /\ ListWaits'
  <2>1. AsksList(q) /\ q \in reqs'  BY <1>3, <1>4 DEF AsksList
  <2>2. \A r \in reqs' : AsksList(r) => r \in reqs \/ r = q  BY <1>3
  <2> QED  BY <1>1, <1>3, <1>4, <2>1, <2>2, ListReloads
<1>8. DetailWaits'
  <2>1. \A r \in reqs : r \in reqs'  BY <1>3
  <2> QED  BY <1>1, <1>3, <2>1, DetailSame
<1>9. RequestInv'
  <2>1. IsHook(list') /\ IsHook(detail')  BY <1>1, <1>3, HookShape DEF RequestInv
  <2> QED  BY <1>1, <1>3, <1>4, <1>5, <2>1, RequestsOfPage
<1> QED  BY <1>6, <1>7, <1>8, <1>9 DEF PageInv, WaitsForAnswers, Pending, OnPage

\* A move of the browser, with the calls that stay after it.
LEMMA NavigateKeepsPage ==
    ASSUME PageInv, NEW page, NEW id, NEW rs \in SUBSET reqs, Navigate(page, id, rs),
           \A r \in reqs \ rs : r.mount = mount => page # route.page,
           clock' = clock, sent' = sent, calls' \subseteq calls,
           mount' = mount => reflected' = reflected /\ OnPage \subseteq calls',
           mount' # mount => reflected' = 0
    PROVE  PageInv'
<1>1. CallInv /\ Pending /\ RequestInv /\ ListInv /\ ListWaits /\ DetailWaits  BY PageParts
<1>2. /\ RequestInv' /\ ListInv' /\ ListWaits' /\ DetailWaits'
      /\ \/ mount' = mount + 1 /\ mut' = NoMut
         \/ mount' = mount /\ mut' = mut /\ route'.page = route.page
  BY <1>1, NavigateKeeps
<1>3. CASE mount' = mount + 1 /\ mut' = NoMut
  <2>1. mount' # mount  BY <1>1, <1>3, Counters
  <2>2. CallInv' /\ Pending'  BY <1>1, <1>3, <2>1, CallsMount
  <2> QED  BY <1>2, <2>2 DEF PageInv, WaitsForAnswers, Pending, OnPage
<1>4. CASE mount' = mount /\ mut' = mut /\ route'.page = route.page
  <2>1. /\ mount \in Nat /\ clock \in Nat /\ sent \in Nat /\ reflected \in Nat
        /\ reflected <= clock
    BY <1>1, Counters
  <2>2. clock' \in Nat /\ clock <= clock' /\ reflected' \in Nat /\ reflected' <= clock'
    BY <1>4, <2>1
  <2>3. CallInv' /\ Pending'  BY <1>1, <1>4, <2>2, CallsStay
  <2> QED  BY <1>2, <2>3 DEF PageInv, WaitsForAnswers, Pending, OnPage
<1> QED  BY <1>2, <1>3, <1>4

LEMMA UserKeeps ==
    ASSUME PageInv, User
    PROVE  PageInv'
<1>1. ASSUME NEW s \in Ids, NEW kind \in Kinds, ClickInList(kind, s) PROVE PageInv'
  BY <1>1, CallKeeps DEF ClickInList
<1>2. ASSUME NEW kind \in Kinds, ClickInDetail(kind) PROVE PageInv'
  BY <1>2, CallKeeps DEF ClickInDetail
<1>3. CASE SubmitCreate \/ SubmitUpdate  BY <1>3, CallKeeps DEF SubmitCreate, SubmitUpdate
<1>4. CASE RefreshList  BY <1>4, RefreshKeeps
<1>5. ASSUME NEW page \in Pages, NEW s \in Ids \cup {None}, Move(page, s) PROVE PageInv'
  <2>1. /\ Navigate(page, s, reqs) /\ clock' = clock /\ calls' = calls /\ sent' = sent
        /\ reflected' = IF mount' = mount THEN reflected ELSE 0
    BY <1>5 DEF Move
  <2>2. OnPage \subseteq calls  BY DEF OnPage
  <2> QED  BY <2>1, <2>2, NavigateKeepsPage
<1> QED  BY <1>1, <1>2, <1>3, <1>4, <1>5 DEF User

-----------------------------------------------------------------------------
(* The server's steps *)

LEMMA ReplyKeeps ==
    ASSUME PageInv, NEW c \in calls, NEW s, NEW stage, Reply(c, s, stage),
           clock' = clock \/ clock' = clock + 1, UNCHANGED <<browser, counts, reflected>>
    PROVE  PageInv'
<1>1. CallInv /\ Pending /\ RequestInv /\ ListInv /\ ListWaits /\ DetailWaits  BY PageParts
<1>2. clock' \in Nat /\ clock <= clock'  BY <1>1, Counters
<1>3. UNCHANGED <<route, mount, list, detail, mut, reqs, sent, reflected>>
  BY DEF browser, counts
<1>4. CallInv' /\ Pending'  BY <1>1, <1>2, <1>3, CallAnswered
<1>5. RequestInv' /\ ListInv' /\ ListWaits' /\ DetailWaits'  BY <1>1, <1>2, <1>3, HooksStay
<1> QED  BY <1>4, <1>5 DEF PageInv, WaitsForAnswers, Pending, OnPage

LEMMA ExecuteKeeps ==
    ASSUME PageInv, NEW c \in calls, Execute(c) \/ ExecuteFails(c)
    PROVE  PageInv'
<1>1. UNCHANGED <<browser, counts, reflected>>  BY DEF Execute, ExecuteFails
<1>2. PICK s, stage : Reply(c, s, stage)  BY DEF Execute, ExecuteFails
<1>3. clock' = clock \/ clock' = clock + 1  BY DEF Execute, ExecuteFails, Change
<1> QED  BY <1>1, <1>2, <1>3, ReplyKeeps

LEMMA AnswerKeeps ==
    ASSUME PageInv, NEW r \in reqs, Answer(r), UNCHANGED <<counts, reflected>>
    PROVE  PageInv'
<1>1. CallInv /\ Pending /\ RequestInv /\ ListInv /\ ListWaits /\ DetailWaits  BY PageParts
<1>2. PICK a : a = IF r.hook = "list" THEN [at |-> clock, rows |-> rows]
                   ELSE [at |-> clock, id |-> r.id, row |-> rows[r.id]]
  OBVIOUS
<1>3. PICK q : q = [r EXCEPT !.answer = a]  OBVIOUS
<1>4. /\ reqs' = (reqs \ {r}) \cup {q}
      /\ UNCHANGED <<clock, route, mount, list, detail, mut, calls, sent, reflected>>
  BY <1>2, <1>3 DEF Answer, counts
<1>5. IsGet(r) /\ r.mount \in Nat /\ r.mount <= mount /\ r.then = "stay"
  BY <1>1 DEF RequestInv, Answer
<1>6. /\ IsGet(q) /\ q.hook = r.hook /\ q.mount = r.mount /\ q.rid = r.rid
      /\ q.then = "stay" /\ q.answer = a
  BY <1>3, <1>5, AnswerShape
<1>7. r.hook = "list" => a.at = clock  BY <1>2
<1>8. ListInv' /\ ListWaits'  BY <1>1, <1>4, <1>6, <1>7, ListAnswered
<1>9. DetailWaits'
  <2>1. ASSUME NEW p \in reqs, p.hook = "detail", p.mount = mount
        PROVE  \E x \in reqs' : x.hook = "detail" /\ x.mount = mount /\ x.rid = p.rid
    BY <1>4, <1>6, <2>1
  <2> QED  BY <1>1, <1>4, <2>1, DetailSame
<1>10. RequestInv'
  <2>1. IsHook(list') /\ IsHook(detail')  BY <1>1, <1>4 DEF RequestInv
  <2> QED  BY <1>1, <1>4, <1>5, <1>6, <2>1, RequestsOfPage
<1>11. CallInv' /\ Pending'
  <2>1. clock' \in Nat /\ clock <= clock' /\ reflected' \in Nat /\ reflected' <= clock'
    BY <1>1, <1>4, Counters
  <2>2. calls' \subseteq calls /\ OnPage \subseteq calls'  BY <1>4 DEF OnPage
  <2> QED  BY <1>1, <1>4, <2>1, <2>2, CallsStay
<1> QED  BY <1>8, <1>9, <1>10, <1>11 DEF PageInv, WaitsForAnswers, Pending, OnPage

-----------------------------------------------------------------------------
(* The pages take an answer *)

\* The outcome of a request, which is its answer or none.
LEMMA TakeKeeps ==
    ASSUME PageInv, NEW r \in reqs, NEW data, NEW error, Take(r, data, error),
           r.hook = "list" /\ data # None => r.answer # None /\ data = r.answer,
           reqs' = reqs \ {r},
           UNCHANGED <<clock, route, mount, mut, calls, counts, reflected>>
    PROVE  PageInv'
<1>1. CallInv /\ Pending /\ RequestInv /\ ListInv /\ ListWaits /\ DetailWaits  BY PageParts
<1>2. clock' \in Nat /\ clock <= clock' /\ reflected' \in Nat /\ reflected' <= clock'
  BY <1>1, Counters
<1>3. ListInv' /\ ListWaits'
  <2>1. CASE AsksList(r) /\ r.rid = list.rid
    <3>1. list' = Loaded(list, data, error)  BY <2>1 DEF Take, AsksList, IsCurrent
    <3>2. data # None => r.answer # None /\ data = r.answer  BY <2>1 DEF AsksList
    <3> QED  BY <1>1, <2>1, <3>1, <3>2, ListTakes
  <2>2. CASE ~(AsksList(r) /\ r.rid = list.rid)
    <3>1. list' = list  BY <2>2 DEF Take, AsksList, IsCurrent
    <3> QED  BY <1>1, <1>2, <2>2, <3>1, ListIgnores
  <2> QED  BY <2>1, <2>2
<1>4. DetailWaits'
  <2>1. CASE r.hook = "detail" /\ IsCurrent(r, detail)
    <3>1. detail' = Loaded(detail, data, error)  BY <2>1 DEF Take
    <3>2. ~detail'.loading  BY <1>1, <3>1, HookShape DEF RequestInv
    <3> QED  BY <3>2 DEF DetailWaits
  <2>2. CASE ~(r.hook = "detail" /\ IsCurrent(r, detail))
    <3>1. detail' = detail  BY <2>2 DEF Take
    <3>2. ASSUME detail.loading
          PROVE  \E q \in reqs' : q.hook = "detail" /\ q.mount = mount /\ q.rid = detail.rid
      BY <1>1, <2>2, <3>2 DEF DetailWaits, IsCurrent
    <3> QED  BY <3>1, <3>2 DEF DetailWaits, IsCurrent
  <2> QED  BY <2>1, <2>2
<1>5. RequestInv'
  <2>1. IsHook(list') /\ IsHook(detail')  BY <1>1, HookShape DEF RequestInv, Take
  <2> QED  BY <1>1, <2>1, RequestsOfPage
<1>6. CallInv' /\ Pending'
  <2>1. calls' \subseteq calls /\ OnPage \subseteq calls' /\ sent' = sent
    BY DEF OnPage, counts
  <2> QED  BY <1>1, <1>2, <2>1, CallsStay
<1> QED  BY <1>3, <1>4, <1>5, <1>6 DEF PageInv, WaitsForAnswers, Pending, OnPage

LEMMA LoadKeeps ==
    ASSUME PageInv, NEW r \in reqs, Load(r) \/ LoadFails(r)
    PROVE  PageInv'
<1>1. CASE Load(r) /\ Answer(r)
  <2>1. UNCHANGED <<counts, reflected>>  BY <1>1 DEF Load, Answer
  <2> QED  BY <1>1, <2>1, AnswerKeeps
<1>2. CASE Load(r) /\ Deliver(r)
  <2>1. /\ Take(r, Outcome(r).data, Outcome(r).error) /\ reqs' = reqs \ {r}
        /\ r.answer # None
        /\ UNCHANGED <<clock, route, mount, mut, calls, counts, reflected>>
    BY <1>2 DEF Load, Deliver
  <2>2. r.hook = "list" => Outcome(r).data = r.answer  BY DEF Outcome
  <2> QED  BY <2>1, <2>2, TakeKeeps
<1>3. CASE LoadFails(r)
  <2>1. /\ Take(r, None, "net") /\ reqs' = reqs \ {r}
        /\ UNCHANGED <<clock, route, mount, mut, calls, counts, reflected>>
    BY <1>3 DEF LoadFails, DeliverFailure
  <2> QED  BY <2>1, TakeKeeps
<1>4. CASE Load(r) /\ DeliverAndGo(r)
  <2>1. IsGet(r) /\ (r.mount = mount /\ r.then = "list" => route.page = "view")
        /\ (r.mount = mount /\ r.then = "view" => route.page = "edit")
    BY PageParts DEF RequestInv
  <2>2. /\ clock' = clock /\ calls' = calls /\ sent' = sent
        /\ mount' = mount => reflected' = reflected
        /\ mount' # mount => reflected' = 0
    BY <1>4 DEF Load, DeliverAndGo, counts
  <2>3. r.then \in {"list", "view"}  BY <1>4, <2>1 DEF DeliverAndGo, IsGet
  <2>4. OnPage \subseteq calls  BY DEF OnPage
  <2>5. CASE r.then = "list"
    <3>1. Navigate("list", None, reqs \ {r})  BY <1>4, <2>5 DEF DeliverAndGo, Proceed
    <3>2. \A q \in reqs \ (reqs \ {r}) : q.mount = mount => "list" # route.page
      BY <2>1, <2>5
    <3> QED  BY <2>2, <2>4, <3>1, <3>2, NavigateKeepsPage
  <2>6. CASE r.then = "view"
    <3>1. Navigate("view", r.target, reqs \ {r})  BY <1>4, <2>6 DEF DeliverAndGo, Proceed
    <3>2. \A q \in reqs \ (reqs \ {r}) : q.mount = mount => "view" # route.page
      BY <2>1, <2>6
    <3> QED  BY <2>2, <2>4, <3>1, <3>2, NavigateKeepsPage
  <2> QED  BY <2>3, <2>5, <2>6
<1> QED  BY <1>1, <1>2, <1>3, <1>4 DEF Load

-----------------------------------------------------------------------------
(* A call is settled *)

\* What the handlers ask for after call c: one request for each hook, of the page that
\* made the call, which goes on to another page only from the page for that.
AsksAfter(c, rs) ==
    /\ \A r \in rs : /\ IsGet(r) /\ r.mount = c.mount /\ r.answer = None
                     /\ r.hook \in {"list", "detail"}
                     /\ r.hook = "list" => c.from \in {"list", "view"}
                     /\ c.mount = mount /\ r.hook = "list" => r.rid = list.rid + 1
                     /\ c.mount = mount /\ r.hook = "detail" => r.rid = detail.rid + 1
                     /\ r.then = "list" => c.from = "view"
                     /\ r.then = "view" => c.from = "edit"
    /\ \A q, r \in rs : q.hook = r.hook => q = r

LEMMA RefetchListShape ==
    ASSUME NEW c, NEW then \in {"stay", "list", "view"}
    PROVE  LET r == RefetchList(c, then) IN
           /\ IsGet(r) /\ r.mount = c.mount /\ r.answer = None /\ r.hook = "list"
           /\ r.then = then
           /\ c.mount = mount => r.rid = list.rid + 1
<1>1. PICK k : k = NextRid(c.mount, list)  OBVIOUS
<1>2. c.mount = mount => k = list.rid + 1  BY <1>1 DEF NextRid
<1> QED  BY <1>1, <1>2, GetShape DEF RefetchList

LEMMA RefetchDetailShape ==
    ASSUME NEW c, NEW then \in {"stay", "list", "view"}
    PROVE  LET r == RefetchDetail(c, then) IN
           /\ IsGet(r) /\ r.mount = c.mount /\ r.answer = None /\ r.hook = "detail"
           /\ r.then = then
           /\ c.mount = mount => r.rid = detail.rid + 1
<1>1. PICK k : k = NextRid(c.mount, detail)  OBVIOUS
<1>2. c.mount = mount => k = detail.rid + 1  BY <1>1 DEF NextRid
<1> QED  BY <1>1, <1>2, GetShape DEF RefetchDetail

\* The list is loaded again where the page must come to reflect a change.
LEMMA RefetchKeeps ==
    ASSUME PageInv, NEW c \in calls, Settled(c), calls' = calls \ {c}, NEW rs,
           Refetch(c, rs), AsksAfter(c, rs), clock' = clock, sent' = sent,
           \/ reflected' = reflected
           \/ /\ c.mount = mount /\ reflected' = c.at
              /\ c.from \in {"list", "view"} => \E r \in rs : r.hook = "list"
    PROVE  PageInv'
<1>1. CallInv /\ Pending /\ RequestInv /\ ListInv /\ ListWaits /\ DetailWaits  BY PageParts
<1>2. route' = route /\ mount' = mount  BY DEF Refetch
<1>3. CallInv' /\ Pending'  BY <1>1, <1>2, CallSettled
<1>4. mount \in Nat /\ clock' \in Nat /\ clock <= clock'  BY <1>1, Counters
<1>5. CallOK(c) /\ c.mount \in Nat /\ c.mount <= mount /\ (c.mount = mount => c.from = route.page)
  BY <1>1, CallsTold DEF CallOK
<1>6. reqs \subseteq reqs' /\ reqs' \subseteq reqs \cup rs  BY DEF Refetch, Awaited
<1>7. RequestInv'
  <2>1. IsHook(list') /\ IsHook(detail')  BY <1>1, HookShape DEF RequestInv, Refetch
  <2>2. \A r \in rs : /\ IsGet(r) /\ r.mount \in Nat /\ r.mount <= mount
                      /\ r.mount = mount /\ r.then = "list" => route.page = "view"
                      /\ r.mount = mount /\ r.then = "view" => route.page = "edit"
    BY <1>5 DEF AsksAfter
  <2> QED  BY <1>1, <1>2, <1>6, <2>1, <2>2, RequestsOfPage
<1>8. ListInv' /\ ListWaits'
  <2>1. CASE c.mount = mount /\ \E r \in rs : r.hook = "list"
    <3>1. PICK q \in rs : q.hook = "list"  BY <2>1
    <3>2. /\ q.mount = mount /\ q.rid = list.rid + 1 /\ q.answer = None
          /\ c.from \in {"list", "view"}
      BY <2>1, <3>1 DEF AsksAfter
    <3>3. list' = Reload(list) /\ reqs' = reqs \cup rs  BY <2>1 DEF Refetch
    <3>4. \A r \in reqs' : AsksList(r) => r \in reqs \/ r = q
      BY <3>1, <3>3 DEF AsksAfter, AsksList
    <3>5. AsksList(q) /\ q \in reqs' /\ route.page \in {"list", "view"}
      BY <1>5, <2>1, <3>1, <3>2, <3>3 DEF AsksList
    <3> QED  BY <1>1, <1>2, <3>2, <3>3, <3>4, <3>5, ListReloads
  <2>2. CASE ~(c.mount = mount /\ \E r \in rs : r.hook = "list")
    <3>1. list' = list  BY <2>2 DEF Refetch
    <3>2. \A r : AsksList(r) => (r \in reqs' <=> r \in reqs)
      BY <1>6, <2>2 DEF AsksList, AsksAfter
    <3>3. reflected' = reflected \/ route.page \notin {"list", "view"}  BY <1>5, <2>2
    <3> QED  BY <1>1, <1>2, <1>4, <3>1, <3>2, <3>3, ListSame
  <2> QED  BY <2>1, <2>2
<1>9. DetailWaits'
  <2>1. CASE c.mount = mount /\ \E r \in rs : r.hook = "detail"
    <3>1. PICK q \in rs : q.hook = "detail"  BY <2>1
    <3>2. q.mount = mount /\ q.rid = detail.rid + 1  BY <2>1, <3>1 DEF AsksAfter
    <3>3. detail' = Renew(detail) /\ q \in reqs'  BY <2>1, <3>1 DEF Refetch
    <3> QED  BY <1>1, <1>2, <3>1, <3>2, <3>3, DetailRenews
  <2>2. CASE ~(c.mount = mount /\ \E r \in rs : r.hook = "detail")
    <3>1. detail' = detail  BY <2>2 DEF Refetch
    <3>2. \A r \in reqs : r \in reqs'  BY <1>6
    <3> QED  BY <1>1, <1>2, <3>1, <3>2, DetailSame
  <2> QED  BY <2>1, <2>2
<1> QED  BY <1>3, <1>7, <1>8, <1>9 DEF PageInv, WaitsForAnswers, Pending, OnPage

LEMMA SettleKeeps ==
    ASSUME PageInv, NEW c \in calls, Settle(c)
    PROVE  PageInv'
<1>1. /\ calls' = calls \ {c} /\ clock' = clock /\ sent' = sent
      /\ reflected' = CASE mount' # mount -> 0
                        [] mount' = mount /\ c.mount = mount /\ c.stage = "done" -> c.at
                        [] OTHER -> reflected
  BY DEF Settle, counts
<1>2. ASSUME mount' = mount
      PROVE  \/ reflected' = reflected
             \/ c.mount = mount /\ c.stage = "done" /\ reflected' = c.at
  BY <1>1, <1>2
<1>3. ASSUME NEW rs, Settled(c), Refetch(c, rs), AsksAfter(c, rs),
             c.stage = "done" /\ c.from \in {"list", "view"} => \E r \in rs : r.hook = "list"
      PROVE  PageInv'
  <2>1. mount' = mount  BY <1>3 DEF Refetch
  <2>2. \/ reflected' = reflected
        \/ /\ c.mount = mount /\ reflected' = c.at
           /\ c.from \in {"list", "view"} => \E r \in rs : r.hook = "list"
    BY <1>2, <1>3, <2>1
  <2> QED  BY <1>1, <1>3, <2>2, RefetchKeeps
<1>4. AsksAfter(c, {})  BY DEF AsksAfter
<1>5. ASSUME NEW then \in {"stay", "list"}, c.from \in {"list", "view"},
             then = "list" => c.from = "view"
      PROVE  /\ AsksAfter(c, {RefetchList(c, then)})
             /\ \E r \in {RefetchList(c, then)} : r.hook = "list"
  BY <1>5, RefetchListShape DEF AsksAfter
<1>6. CASE ListMutation(c)
  <2>1. CASE c.stage = "done"  BY <1>3, <1>5, <1>6, <2>1 DEF ListMutation
  <2>2. CASE c.stage # "done"  BY <1>3, <1>4, <1>6, <2>2 DEF ListMutation
  <2> QED  BY <2>1, <2>2
<1>7. CASE DetailMutation(c)
  <2>1. PICK a : a = RefetchList(c, "stay")  OBVIOUS
  <2>2. PICK b : b = RefetchDetail(c, "stay")  OBVIOUS
  <2>3. PICK rs : rs = {a} \cup (IF c.stage = "missing" THEN {} ELSE {b})  OBVIOUS
  <2>4. c.from = "view" /\ Settled(c) /\ Refetch(c, rs)
    BY <1>7, <2>1, <2>2, <2>3 DEF DetailMutation
  <2>5. /\ IsGet(a) /\ a.mount = c.mount /\ a.answer = None /\ a.hook = "list"
        /\ a.then = "stay" /\ (c.mount = mount => a.rid = list.rid + 1)
    BY <2>1, RefetchListShape
  <2>6. /\ IsGet(b) /\ b.mount = c.mount /\ b.answer = None /\ b.hook = "detail"
        /\ b.then = "stay" /\ (c.mount = mount => b.rid = detail.rid + 1)
    BY <2>2, RefetchDetailShape
  <2>7. AsksAfter(c, rs)  BY <2>3, <2>4, <2>5, <2>6 DEF AsksAfter
  <2>8. \E r \in rs : r.hook = "list"  BY <2>3, <2>5
  <2> QED  BY <1>3, <2>4, <2>7, <2>8
<1>8. CASE HandleDelete(c)
  <2>1. CASE c.stage = "done"  BY <1>3, <1>5, <1>8, <2>1 DEF HandleDelete
  <2>2. CASE c.stage # "done"  BY <1>3, <1>4, <1>8, <2>2 DEF HandleDelete
  <2> QED  BY <2>1, <2>2
<1>9. CASE OnUpdate(c)
  <2>1. CASE c.stage = "done"
    <3>1. PICK b : b = RefetchDetail(c, "view")  OBVIOUS
    <3>2. c.from = "edit" /\ Settled(c) /\ Refetch(c, {b})  BY <1>9, <2>1, <3>1 DEF OnUpdate
    <3>3. /\ IsGet(b) /\ b.mount = c.mount /\ b.answer = None /\ b.hook = "detail"
          /\ b.then = "view" /\ (c.mount = mount => b.rid = detail.rid + 1)
      BY <3>1, RefetchDetailShape
    <3>4. AsksAfter(c, {b})  BY <3>2, <3>3 DEF AsksAfter
    <3> QED  BY <1>3, <3>2, <3>4
  <2>2. CASE c.stage # "done"  BY <1>3, <1>4, <1>9, <2>2 DEF OnUpdate
  <2> QED  BY <2>1, <2>2
<1>10. CASE OnCreate(c)
  <2>1. CASE c.stage = "done"
    <3>1. Navigate("view", c.id, reqs) /\ c.from = "new"  BY <1>10, <2>1 DEF OnCreate
    <3>2. c.mount = mount => route.page = "new"
      BY <3>1, PageParts, CallsTold DEF CallOK
    <3>3. mount' = mount => c.mount # mount
      <4>1. ASSUME c.mount = mount PROVE mount' = mount + 1
        BY <3>1, <3>2, <4>1 DEF Navigate
      <4> QED  BY <4>1, PageParts, Counters
    <3>4. mount' = mount => reflected' = reflected /\ OnPage \subseteq calls'
      BY <1>1, <1>2, <3>3 DEF OnPage
    <3>5. mount' # mount => reflected' = 0  BY <1>1
    <3> QED  BY <1>1, <3>1, <3>4, <3>5, NavigateKeepsPage
  <2>2. CASE c.stage # "done"  BY <1>3, <1>4, <1>10, <2>2 DEF OnCreate
  <2> QED  BY <2>1, <2>2
<1> QED  BY <1>6, <1>7, <1>8, <1>9, <1>10 DEF Settle

-----------------------------------------------------------------------------
(* The theorems *)

LEMMA NextKeeps ==
    ASSUME PageInv, [Next]_vars
    PROVE  PageInv'
<1>1. CASE User  BY <1>1, UserKeeps
<1>2. ASSUME NEW c \in calls, Execute(c) \/ ExecuteFails(c) \/ Settle(c) PROVE PageInv'
  BY <1>2, ExecuteKeeps, SettleKeeps
<1>3. ASSUME NEW r \in reqs, Load(r) \/ LoadFails(r) PROVE PageInv'  BY <1>3, LoadKeeps
<1>4. CASE UNCHANGED vars
  <2>1. CallInv /\ Pending /\ RequestInv /\ ListInv /\ ListWaits /\ DetailWaits  BY PageParts
  <2>2. UNCHANGED <<clock, route, mount, list, detail, mut, reqs, calls, sent, reflected>>
    BY <1>4 DEF vars, browser, counts
  <2>3. CallInv' /\ Pending'  BY <2>1, <2>2 DEF CallInv, Pending, OnPage
  <2>4. clock' \in Nat /\ clock <= clock'  BY <2>1, <2>2, Counters
  <2>5. RequestInv' /\ ListInv' /\ ListWaits' /\ DetailWaits'
    BY <2>1, <2>2, <2>4, HooksStay
  <2> QED  BY <2>3, <2>5 DEF PageInv, WaitsForAnswers, Pending, OnPage
<1> QED  BY <1>1, <1>2, <1>3, <1>4 DEF Next

\* Whatever the user does, whatever fails and in whatever order answers come: calls are
\* told apart, the latest request of the list is the only one of its number and brings
\* nothing older than what is shown, and a page waits for exactly what is on its way
\* (useMcpServers, useMcpServerDetail, useMcpMutations and the handlers of the four pages).
THEOREM PageKept == Spec => []PageInv
<1>1. Init => PageInv  BY StartKeeps
<1>2. PageInv /\ [Next]_vars => PageInv'  BY NextKeeps
<1> QED  BY <1>1, <1>2, PTL DEF Spec

\* A hook that shows that it is loading has a request on its way, and the buttons of a
\* page are disabled exactly as long as one of its mutations has no answer (pendingCount).
THEOREM Waits == Spec => []WaitsForAnswers
<1>1. PageInv => WaitsForAnswers  BY DEF PageInv
<1> QED  BY <1>1, PageKept, PTL

\* A page at rest shows what the operations started on it have done (refetch after
\* runMutation in McpListPage and McpDetailPage).
THEOREM OwnChanges == Spec => []ShowsOwnChanges
<1>1. PageInv => ShowsOwnChanges
  <2>1. SUFFICES ASSUME PageInv, ~list.loading, list.data # None
                 PROVE  list.data.at >= reflected
    BY DEF ShowsOwnChanges
  <2>2. reflected <= list.data.at /\ list.data.at \in Nat  BY <2>1 DEF PageInv, ListInv
  <2>3. reflected \in Nat  BY <2>1, Counters DEF PageInv
  <2> QED  BY <2>2, <2>3
<1> QED  BY <1>1, PageKept, PTL

\* The list in view changes only to what was read later: by one step, a list of the same
\* page is kept or is the answer of the latest request.
LEMMA ListForward ==
    ASSUME PageInv, Next, mount' = mount, list.data # None, list'.data # None
    PROVE  list'.data.at >= list.data.at
<1>1. CallInv /\ RequestInv /\ ListInv  BY PageParts
<1>2. ASSUME list' = list PROVE list'.data.at >= list.data.at  BY <1>1, <1>2 DEF ListInv
<1>3. ASSUME list' = Reload(list) PROVE list'.data.at >= list.data.at
  <2>1. list'.data = list.data  BY <1>1, <1>3, HookShape DEF RequestInv
  <2> QED  BY <1>1, <2>1 DEF ListInv
<1>4. ASSUME NEW page, NEW id, NEW rs, Navigate(page, id, rs) PROVE list' = list
  <2>1. mount \in Nat  BY <1>1, Counters
  <2>2. page = route.page  BY <1>4, <2>1 DEF Navigate
  <2> QED  BY <1>4, <2>2 DEF Navigate
<1>5. CASE User
  <2>1. ASSUME NEW s, NEW kind, Call(kind, s) PROVE list' = list
    BY <2>1 DEF Call, RunMutation
  <2>2. CASE RefreshList  BY <1>3, <2>2 DEF RefreshList
  <2>3. ASSUME NEW page, NEW s, Move(page, s) PROVE list' = list  BY <1>4, <2>3 DEF Move
  <2> QED  BY <1>2, <1>5, <2>1, <2>2, <2>3
           DEF User, ClickInList, ClickInDetail, SubmitCreate, SubmitUpdate
<1>6. ASSUME NEW c \in calls, Execute(c) \/ ExecuteFails(c) PROVE list' = list
  BY <1>6 DEF Execute, ExecuteFails, browser
<1>7. ASSUME NEW c \in calls, Settle(c) PROVE list' = list \/ list' = Reload(list)
  <2>1. ASSUME NEW rs, Refetch(c, rs) PROVE list' = list \/ list' = Reload(list)
    BY <2>1 DEF Refetch
  <2> QED
    BY <1>4, <1>7, <2>1
       DEF Settle, ListMutation, DetailMutation, HandleDelete, OnUpdate, OnCreate
<1>8. ASSUME NEW r \in reqs, Load(r) \/ LoadFails(r)
      PROVE  list'.data.at >= list.data.at
  <2>1. CASE Answer(r)  BY <1>2, <2>1 DEF Answer
  <2>2. CASE DeliverAndGo(r)
    <3>1. IsGet(r)  BY <1>1 DEF RequestInv
    <3>2. r.then \in {"list", "view"}  BY <2>2, <3>1 DEF DeliverAndGo, IsGet
    <3> QED  BY <1>2, <1>4, <2>2, <3>2 DEF DeliverAndGo, Proceed
  <2>3. CASE DeliverFailure(r)
    <3>1. list' = list \/ list' = Loaded(list, None, "net")
      BY <2>3 DEF DeliverFailure, Take
    <3>2. IsHook(list)  BY <1>1 DEF RequestInv
    <3>3. Loaded(list, None, "net").data = None  BY <3>2, HookShape
    <3> QED  BY <1>2, <3>1, <3>3
  <2>4. CASE Deliver(r) /\ r.hook = "list" /\ IsCurrent(r, list)
    <3>1. list' = Loaded(list, r.answer, "no") /\ r.answer # None
      BY <2>4 DEF Deliver, Take, Outcome
    <3>2. list'.data = r.answer
      <4>1. IsHook(list)  BY <1>1 DEF RequestInv
      <4>2. PICK a : a = r.answer  OBVIOUS
      <4>3. Loaded(list, a, "no").data = a  BY <4>1, HookShape
      <4> QED  BY <3>1, <4>2, <4>3
    <3>3. LatestList(r)  BY <1>1, <2>4 DEF ListInv, AsksList, IsCurrent
    <3>4. r.answer.at \in Nat /\ list.data.at <= r.answer.at /\ list.data.at \in Nat
      BY <1>1, <3>1, <3>3 DEF LatestList, ListInv
    <3> QED  BY <3>2, <3>4
  <2>5. CASE Deliver(r) /\ ~(r.hook = "list" /\ IsCurrent(r, list))
    BY <1>2, <2>5 DEF Deliver, Take
  <2> QED  BY <1>8, <2>1, <2>2, <2>3, <2>4, <2>5 DEF Load, LoadFails
<1> QED  BY <1>2, <1>3, <1>5, <1>6, <1>7, <1>8 DEF Next

\* The list shown is never replaced by one that was read earlier (requestIdRef in
\* useMcpServers).
THEOREM NotBack == Spec => ListNeverGoesBack
<1>1. PageInv /\ [Next]_vars
        => [mount' = mount /\ list.data # None /\ list'.data # None
              => list'.data.at >= list.data.at]_vars
  BY ListForward
<1> QED  BY <1>1, PageKept, PTL DEF Spec, ListNeverGoesBack
=============================================================================
