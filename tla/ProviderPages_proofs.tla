------------------------ MODULE ProviderPages_proofs ------------------------
(***************************************************************************)
(* Proofs about the pages of providers and agents: a page shows the detail *)
(* of its address, and tests of the models of the provider it shows.       *)
(***************************************************************************)
EXTENDS ProviderPages, TLAPS

-----------------------------------------------------------------------------
(* The shapes of hooks and requests *)

LEMMA HookShape ==
    ASSUME NEW h, IsHook(h)
    PROVE  /\ IsHook(Renew(h)) /\ Renew(h).data = None /\ Renew(h).rid = h.rid + 1
           /\ \A data, error : /\ IsHook(Loaded(h, data, error))
                               /\ Loaded(h, data, error).data = data
                               /\ Loaded(h, data, error).rid = h.rid
<1>1. PICK d, e : h \in [data : {d}, error : {e}, loading : BOOLEAN, rid : Nat]
  BY DEF IsHook
<1>2. PICK k \in Nat : k = h.rid + 1  BY <1>1
<1>3. PICK f : f = [h EXCEPT !.rid = k, !.error = "no", !.loading = TRUE]  OBVIOUS
<1>4. f \in [data : {d}, error : {"no"}, loading : BOOLEAN, rid : Nat] /\ f.rid = k
  BY <1>1, <1>3
<1>5. PICK g : g = [f EXCEPT !.data = None]  OBVIOUS
<1>6. g \in [data : {None}, error : {"no"}, loading : BOOLEAN, rid : Nat] /\ g.rid = k
  BY <1>4, <1>5
<1>7. Renew(h) = g  BY <1>2, <1>3, <1>5 DEF Renew, Reload
<1>8. IsHook(Renew(h)) /\ Renew(h).data = None /\ Renew(h).rid = h.rid + 1
  BY <1>2, <1>6, <1>7 DEF IsHook
<1>9. ASSUME NEW data, NEW error
      PROVE  /\ IsHook(Loaded(h, data, error)) /\ Loaded(h, data, error).data = data
             /\ Loaded(h, data, error).rid = h.rid
  <2>1. PICK i : i = Loaded(h, data, error)  OBVIOUS
  <2>2. i \in [data : {data}, error : {error}, loading : BOOLEAN, rid : Nat] /\ i.rid = h.rid
    BY <1>1, <2>1 DEF Loaded
  <2> QED  BY <2>1, <2>2 DEF IsHook
<1> QED  BY <1>8, <1>9

\* A page that is mounted has no detail yet.
LEMMA MountShape ==
    ASSUME NEW page
    PROVE  /\ IsHook(DetailOf(page)) /\ DetailOf(page).data = None
           /\ page \in {"view", "edit"} => DetailOf(page).rid = 1
<1>1. NoHook \in [data : {None}, error : {"no"}, loading : BOOLEAN, rid : Nat]
  BY DEF NoHook
<1>2. Waiting \in [data : {None}, error : {"no"}, loading : BOOLEAN, rid : Nat]
      /\ Waiting.rid = 1
  BY <1>1 DEF Waiting
<1> QED  BY <1>1, <1>2 DEF DetailOf, IsHook

LEMMA GetShape ==
    ASSUME NEW hook, NEW m, NEW rid, NEW id, NEW then \in {"stay", "list", "view"},
           NEW target, NEW by
    PROVE  LET r == Get(hook, m, rid, id, then, target, by) IN
           /\ IsGet(r) /\ r.hook = hook /\ r.mount = m /\ r.rid = rid /\ r.id = id
           /\ r.then = then /\ r.answer = None
BY DEF Get, IsGet

LEMMA AnswerShape ==
    ASSUME NEW r, IsGet(r), NEW a
    PROVE  LET q == [r EXCEPT !.answer = a] IN
           /\ IsGet(q) /\ q.hook = r.hook /\ q.mount = r.mount /\ q.rid = r.rid
           /\ q.id = r.id /\ q.then = r.then /\ q.answer = a
<1>1. PICK q : q = [r EXCEPT !.answer = a]  OBVIOUS
<1>2. q = [hook |-> r.hook, mount |-> r.mount, rid |-> r.rid, id |-> r.id,
           then |-> r.then, target |-> r.target, by |-> r.by, answer |-> a]
  BY <1>1 DEF IsGet
<1> QED  BY <1>1, <1>2 DEF IsGet

-----------------------------------------------------------------------------
(* The detail *)

\* What may happen to the detail hook of the page shown: it is another page's, it has
\* asked once more, or it has taken an answer it did not have.
DetailStep ==
    \/ mount' = mount + 1
    \/ mount' = mount /\ detail'.rid = detail.rid + 1
    \/ mount' = mount /\ detail'.rid = detail.rid /\ (detail' = detail \/ detail.data = None)

\* The first requests of a page that is mounted.
LEMMA FirstAsk ==
    ASSUME NEW m, NEW page, NEW id, NEW r \in FirstRequests(m, page, id)
    PROVE  /\ IsGet(r) /\ r.answer = None
           /\ r.hook = "detail" => /\ r = Get("detail", m, 1, id, "stay", None, 0)
                                   /\ r.rid = 1 /\ r.id = id /\ DetailOf(page).rid = 1
<1>1. \/ r = Get("list", m, 1, None, "stay", None, 0)
      \/ r = Get("detail", m, 1, id, "stay", None, 0) /\ page \in {"view", "edit"}
  BY DEF FirstRequests
<1> QED  BY <1>1, MountShape, GetShape

\* The requests stay or go, the hook stays.
LEMMA SameDetail ==
    ASSUME DetailInv, UNCHANGED <<mount, detail, route>>,
           \A r \in reqs' : r \in reqs \/ (IsGet(r) /\ ~Asks(r))
    PROVE  DetailInv' /\ DetailStep
<1>1. \A r \in reqs' : Asks(r)' <=> Asks(r)  BY DEF Asks
<1>2. \A r \in reqs' : LatestAsk(r) => LatestAsk(r)'  BY <1>1 DEF LatestAsk, Asks
<1> QED  BY <1>1, <1>2 DEF DetailInv, DetailStep, DetailIsOfRoute, Asks

\* A page is mounted.
LEMMA MountKeeps ==
    ASSUME DetailInv, NEW page, NEW id, NEW rs \in SUBSET reqs,
           route' = [page |-> page, id |-> id], mount' = mount + 1,
           detail' = DetailOf(page),
           reqs' = Awaited(rs) \cup FirstRequests(mount + 1, page, id)
    PROVE  DetailInv'
<1>1. mount' \in Nat  BY DEF DetailInv
<1>2. PICK m : m = mount + 1  OBVIOUS
<1>3. IsHook(detail') /\ detail'.data = None  BY MountShape
<1>4. ASSUME NEW r \in reqs', Asks(r)'
      PROVE  /\ r = Get("detail", m, 1, id, "stay", None, 0) /\ r.answer = None
             /\ r.rid = 1 /\ r.id = id /\ detail'.rid = 1
  <2>1. r.then = "stay" /\ r.hook = "detail"  BY <1>4 DEF Asks
  <2>2. r \in FirstRequests(m, page, id)  BY <1>2, <1>4, <2>1 DEF Awaited
  <2> QED  BY <2>1, <2>2, FirstAsk
<1>5. \A r \in reqs' : IsGet(r)  BY FirstAsk DEF DetailInv, Awaited
<1>6. route.id' = id  OBVIOUS
<1>7. \A r \in reqs' : Asks(r)' => LatestAsk(r)'  BY <1>3, <1>4, <1>6 DEF LatestAsk
<1>8. DetailIsOfRoute'  BY <1>3 DEF DetailIsOfRoute
<1> QED  BY <1>1, <1>3, <1>4, <1>5, <1>7, <1>8 DEF DetailInv

\* The hook asks again: for itself, or for a caller that goes on to another page.
LEMMA RenewKeeps ==
    ASSUME DetailInv, NEW q, IsGet(q), q.answer = None, mount' = mount,
           detail' = Renew(detail), reqs' \subseteq reqs \cup {q},
           Asks(q) => q.rid = detail.rid + 1 /\ q.id = route.id'
    PROVE  DetailInv' /\ DetailStep
<1>1. IsHook(detail) /\ detail.rid \in Nat /\ mount \in Nat  BY DEF DetailInv, IsHook
<1>2. IsHook(detail') /\ detail'.data = None /\ detail'.rid = detail.rid + 1
  BY <1>1, HookShape
<1>3. \A r : Asks(r)' <=> Asks(r)  BY DEF Asks
<1>4. ASSUME NEW r \in reqs', Asks(r)
      PROVE  \/ r = q
             \/ /\ r.rid \in Nat /\ r.rid < detail'.rid
                /\ r.answer # None => r.answer.id = r.id
  <2>1. CASE r \in reqs
    <3>1. /\ r.rid \in Nat /\ r.rid <= detail.rid
          /\ r.answer # None => r.answer.id = r.id
      BY <1>4, <2>1 DEF DetailInv
    <3> QED  BY <1>1, <1>2, <3>1
  <2> QED  BY <1>4, <2>1
<1>5. ASSUME NEW r \in reqs', Asks(r), r.rid = detail'.rid PROVE LatestAsk(r)'
  <2>1. r = q  BY <1>1, <1>2, <1>4, <1>5
  <2>2. \A p \in reqs' : Asks(p) /\ p.rid = detail'.rid => p = q  BY <1>1, <1>2, <1>4
  <2> QED  BY <1>2, <1>3, <1>5, <2>1, <2>2 DEF LatestAsk
<1>6. \A r \in reqs' : IsGet(r)  BY DEF DetailInv
<1>7. DetailIsOfRoute'  BY <1>2 DEF DetailIsOfRoute
<1>8. ASSUME NEW r \in reqs', Asks(r)
      PROVE  /\ r.rid \in Nat /\ r.rid <= detail'.rid
             /\ r.answer # None => r.answer.id = r.id
  BY <1>1, <1>2, <1>4, <1>8
<1>9. DetailInv'  BY <1>1, <1>2, <1>3, <1>5, <1>6, <1>7, <1>8 DEF DetailInv
<1> QED  BY <1>2, <1>9 DEF DetailStep

LEMMA NavigateKeeps ==
    ASSUME DetailInv, NEW page, NEW id, NEW rs \in SUBSET reqs, Navigate(page, id, rs)
    PROVE  DetailInv' /\ DetailStep
<1>1. route' = [page |-> page, id |-> id]  BY DEF Navigate
<1>2. CASE page # route.page
  <2>1. /\ mount' = mount + 1 /\ detail' = DetailOf(page)
        /\ reqs' = Awaited(rs) \cup FirstRequests(mount + 1, page, id)
    BY <1>2 DEF Navigate
  <2> QED  BY <1>1, <2>1, MountKeeps DEF DetailStep
<1>3. CASE page = route.page /\ id # route.id
  <2>1. PICK q : q = Get("detail", mount, detail.rid + 1, id, "stay", None, 0)  OBVIOUS
  <2>2. mount' = mount /\ detail' = Renew(detail) /\ reqs' = rs \cup {q}
    BY <1>3, <2>1 DEF Navigate
  <2>3. IsGet(q) /\ q.answer = None /\ q.rid = detail.rid + 1 /\ q.id = route.id'
    BY <1>1, <2>1, GetShape
  <2> QED  BY <2>2, <2>3, RenewKeeps
<1>4. CASE page = route.page /\ id = route.id
  <2>1. mount' = mount /\ detail' = detail /\ reqs' = rs  BY <1>4 DEF Navigate
  <2>2. route.id' = route.id  BY <1>1, <1>4
  <2>3. \A r \in reqs' : Asks(r)' <=> Asks(r)  BY <2>1 DEF Asks
  <2>4. \A r \in reqs' : LatestAsk(r) => LatestAsk(r)'
    BY <2>1, <2>2, <2>3 DEF LatestAsk, Asks
  <2>5. DetailIsOfRoute'  BY <2>1, <2>2 DEF DetailIsOfRoute, DetailInv
  <2> QED  BY <2>1, <2>3, <2>4, <2>5 DEF DetailInv, DetailStep
<1> QED  BY <1>2, <1>3, <1>4

\* The server answers a request.
LEMMA AnswerKeeps ==
    ASSUME DetailInv, NEW r \in reqs, Answer(r)
    PROVE  DetailInv' /\ DetailStep
<1>1. PICK a : /\ reqs' = (reqs \ {r}) \cup {[r EXCEPT !.answer = a]}
               /\ r.hook = "detail" => a.id = r.id
  <2>1. CASE r.hook = "list"  BY <2>1 DEF Answer
  <2>2. CASE r.hook # "list"
    <3>1. PICK a : a = [at |-> clock, id |-> r.id, row |-> rows[r.id]]  OBVIOUS
    <3>2. a.id = r.id  BY <3>1
    <3>3. reqs' = (reqs \ {r}) \cup {[r EXCEPT !.answer = a]}  BY <2>2, <3>1 DEF Answer
    <3> QED  BY <3>2, <3>3
  <2> QED  BY <2>1, <2>2
<1>2. PICK q : q = [r EXCEPT !.answer = a]  OBVIOUS
<1>3. /\ IsGet(q) /\ q.hook = r.hook /\ q.mount = r.mount /\ q.rid = r.rid
      /\ q.id = r.id /\ q.then = r.then /\ q.answer = a
  BY <1>2, AnswerShape DEF DetailInv
<1>4. mount' = mount /\ detail' = detail /\ route' = route  BY DEF Answer
<1>5. \A p : Asks(p)' <=> Asks(p)  BY <1>4 DEF Asks
<1>6. Asks(q) <=> Asks(r)  BY <1>3 DEF Asks
<1>7. reqs' = (reqs \ {r}) \cup {q}  BY <1>1, <1>2
<1>8. ASSUME NEW p \in reqs', Asks(p)
      PROVE  /\ p.rid \in Nat /\ p.rid <= detail.rid
             /\ p.answer # None => p.answer.id = p.id
  <2>1. CASE p = q
    <3>1. r.rid \in Nat /\ r.rid <= detail.rid  BY <1>6, <1>8, <2>1 DEF DetailInv
    <3>2. a.id = r.id  BY <1>1, <1>3, <1>8, <2>1 DEF Asks
    <3> QED  BY <1>3, <2>1, <3>1, <3>2
  <2>2. CASE p # q  BY <1>7, <1>8, <2>2 DEF DetailInv
  <2> QED  BY <2>1, <2>2
<1>9. ASSUME NEW p \in reqs', Asks(p), p.rid = detail.rid PROVE LatestAsk(p)'
  <2>1. CASE p = q
    <3>1. LatestAsk(r)  BY <1>3, <1>6, <1>9, <2>1 DEF DetailInv
    <3> QED  BY <1>3, <1>4, <1>5, <1>7, <2>1, <3>1 DEF LatestAsk
  <2>2. CASE p # q
    <3>1. p \in reqs /\ p # r /\ LatestAsk(p)  BY <1>7, <1>9, <2>2 DEF DetailInv
    <3>2. ~(Asks(q) /\ q.rid = detail.rid)  BY <1>3, <1>6, <3>1 DEF LatestAsk
    <3> QED  BY <1>4, <1>5, <1>7, <3>1, <3>2 DEF LatestAsk
  <2> QED  BY <2>1, <2>2
<1>10. \A p \in reqs' : IsGet(p)  BY <1>3, <1>7 DEF DetailInv
<1>11. DetailIsOfRoute'  BY <1>4 DEF DetailIsOfRoute, DetailInv
<1> QED  BY <1>4, <1>5, <1>8, <1>9, <1>10, <1>11 DEF DetailInv, DetailStep

\* The hook takes an answer.
LEMMA TakeKeeps ==
    ASSUME DetailInv, NEW r \in reqs, NEW data, NEW error, Take(r, data, error),
           reqs' = reqs \ {r}, UNCHANGED <<route, mount>>, r.then = "stay",
           data # None => r.answer # None /\ data = r.answer
    PROVE  DetailInv' /\ DetailStep
<1>1. CASE r.hook = "detail" /\ IsCurrent(r, detail)
  <2>1. detail' = Loaded(detail, data, error)  BY <1>1 DEF Take
  <2>2. Asks(r) /\ r.rid = detail.rid  BY <1>1 DEF Asks, IsCurrent
  <2>3. LatestAsk(r) /\ (r.answer # None => r.answer.id = r.id)  BY <2>2 DEF DetailInv
  <2>4. IsHook(detail') /\ detail'.data = data /\ detail'.rid = detail.rid
    BY <2>1, HookShape DEF DetailInv
  <2>5. DetailIsOfRoute'  BY <2>3, <2>4 DEF DetailIsOfRoute, LatestAsk
  <2>6. \A p : Asks(p)' <=> Asks(p)  BY DEF Asks
  <2>7. \A p \in reqs' : Asks(p) => p.rid # detail.rid  BY <2>3 DEF LatestAsk
  <2> QED  BY <2>3, <2>4, <2>5, <2>6, <2>7 DEF DetailInv, DetailStep, LatestAsk
<1>2. CASE ~(r.hook = "detail" /\ IsCurrent(r, detail))
  <2>1. detail' = detail  BY <1>2 DEF Take
  <2> QED  BY <2>1, SameDetail
<1> QED  BY <1>1, <1>2

LEMMA LoadKeeps ==
    ASSUME DetailInv, NEW r \in reqs,
           Answer(r) \/ Deliver(r) \/ DeliverAndGo(r) \/ DeliverFailure(r)
    PROVE  DetailInv' /\ DetailStep
<1>1. CASE Answer(r)  BY <1>1, AnswerKeeps
<1>2. CASE Deliver(r)
  <2>1. /\ r.answer # None /\ r.then = "stay"
        /\ Take(r, Outcome(r).data, Outcome(r).error)
        /\ reqs' = reqs \ {r} /\ UNCHANGED <<route, mount>>
    BY <1>2 DEF Deliver
  <2>2. Outcome(r).data \in {None, r.answer}  BY DEF Outcome
  <2> QED  BY <2>1, <2>2, TakeKeeps
<1>3. CASE DeliverAndGo(r)
  <2>1. Proceed(r, reqs \ {r}) /\ r.then # "stay"  BY <1>3 DEF DeliverAndGo
  <2>2. r.then = "list" \/ r.then = "view"  BY <2>1 DEF DetailInv, IsGet
  <2>3. \E page, id : Navigate(page, id, reqs \ {r})  BY <2>1, <2>2 DEF Proceed
  <2> QED  BY <2>3, NavigateKeeps
<1>4. CASE DeliverFailure(r)
  <2>1. /\ r.then = "stay" /\ Take(r, None, "net")
        /\ reqs' = reqs \ {r} /\ UNCHANGED <<route, mount>>
    BY <1>4 DEF DeliverFailure
  <2> QED  BY <2>1, TakeKeeps
<1> QED  BY <1>1, <1>2, <1>3, <1>4

\* A call ends without a request, or with one that is awaited before the next page.
LEMMA RefetchKeeps ==
    ASSUME DetailInv, NEW c, Refetch(c, {}) \/ Refetch(c, {RefetchDetail(c, "view")})
    PROVE  DetailInv' /\ DetailStep
<1>1. mount' = mount /\ route' = route  BY DEF Refetch
<1>2. PICK q : q = RefetchDetail(c, "view")  OBVIOUS
<1>3. IsGet(q) /\ q.answer = None /\ q.then = "view" /\ ~Asks(q)
  BY <1>2, GetShape DEF RefetchDetail, Asks
<1>4. reqs' \subseteq reqs \cup {q}  BY <1>2 DEF Refetch, Awaited
<1>5. detail' = detail \/ detail' = Renew(detail)  BY DEF Refetch
<1> QED  BY <1>1, <1>3, <1>4, <1>5, SameDetail, RenewKeeps

-----------------------------------------------------------------------------
(* The models panel *)

LEMMA PageStart == Init => PageInv
<1> SUFFICES ASSUME Init PROVE PageInv  OBVIOUS
<1>1. PICK page, s : Opened(page, s)  BY DEF Init
<1>2. /\ route = [page |-> page, id |-> s] /\ mount = 1 /\ detail = DetailOf(page)
      /\ reqs = FirstRequests(1, page, s) /\ calls = {}
  BY <1>1 DEF Opened
<1>3. IsHook(detail) /\ detail.data = None  BY <1>2, MountShape
<1>4. ASSUME NEW r \in reqs, Asks(r)
      PROVE  /\ r = Get("detail", 1, 1, s, "stay", None, 0) /\ r.answer = None
             /\ r.rid = 1 /\ r.id = s /\ detail.rid = 1
  BY <1>2, <1>4, FirstAsk DEF Asks
<1>5. \A r \in reqs : IsGet(r)  BY <1>2, FirstAsk
<1>6. \A r \in reqs : Asks(r) => LatestAsk(r)  BY <1>2, <1>3, <1>4 DEF LatestAsk
<1>7. DetailInv  BY <1>2, <1>3, <1>4, <1>5, <1>6 DEF DetailInv, DetailIsOfRoute
<1>8. TestInv /\ PendingModelHasTest
  BY <1>2 DEF Init, NoResults, TestInv, PendingModelHasTest
<1> QED  BY <1>7, <1>8 DEF PageInv

\* The panel follows the detail: with another detail it starts anew, and a detail that
\* comes has no tests yet.
LEMMA PanelKeeps ==
    ASSUME PageInv, DetailInv', DetailStep, PanelFollows,
           calls' \subseteq calls, \A c \in calls : c.kind \in Models => c \in calls',
           sent' = sent
    PROVE  PageInv'
<1>1. /\ mount \in Nat /\ detail.rid \in Nat
      /\ \A c \in calls : /\ c.mount \in Nat /\ c.panel \in Nat /\ c.mount <= mount
                          /\ c.mount = mount => c.panel <= detail.rid
  BY DEF PageInv, DetailInv, TestInv, IsHook, IsCall
<1>2. ASSUME NEW c \in calls'
      PROVE  /\ c.mount <= mount' /\ (c.mount = mount' => c.panel <= detail'.rid)
             /\ c.mount = mount' /\ c.panel = detail'.rid
                  => /\ c.mount = mount /\ c.panel = detail.rid
                     /\ mount' = mount /\ detail'.rid = detail.rid
                     /\ detail' = detail \/ detail.data = None
  <2>1. /\ c.mount \in Nat /\ c.panel \in Nat /\ c.mount <= mount
        /\ c.mount = mount => c.panel <= detail.rid
    BY <1>1
  <2> QED  BY <1>1, <2>1 DEF DetailStep
<1>3. TestInv'
  <2>1. results' \in [Models -> Nat] /\ pending' \in Models \cup {None} /\ sent' \in Nat
    BY DEF PanelFollows, NoResults, PageInv, TestInv
  <2>2. \A c \in calls' : IsCall(c)  BY DEF PageInv, TestInv
  <2>3. ASSUME NEW c \in calls', c.kind \in Models, c.mount = mount', c.panel = detail'.rid
        PROVE  detail'.data # None /\ c.id = detail'.data.id
    <3>1. detail.data # None /\ c.id = detail.data.id  BY <1>2, <2>3 DEF PageInv, TestInv
    <3> QED  BY <1>2, <2>3, <3>1
  <2> QED  BY <1>2, <2>1, <2>2, <2>3 DEF TestInv
<1>4. PendingModelHasTest'
  <2>1. CASE mount' = mount /\ detail'.rid = detail.rid
    <3>1. pending' = pending  BY <2>1 DEF PanelFollows
    <3>2. ASSUME pending # None
          PROVE  \E c \in calls' : c.kind = pending /\ c.mount = mount /\ c.panel = detail.rid
      <4>1. PICK c \in calls : c.kind = pending /\ c.mount = mount /\ c.panel = detail.rid
        BY <3>2 DEF PageInv, PendingModelHasTest
      <4>2. c \in calls'  BY <3>2, <4>1 DEF PageInv, TestInv
      <4> QED  BY <4>1, <4>2
    <3> QED  BY <2>1, <3>1, <3>2 DEF PendingModelHasTest
  <2>2. CASE ~(mount' = mount /\ detail'.rid = detail.rid)
    BY <2>2 DEF PanelFollows, PendingModelHasTest
  <2> QED  BY <2>1, <2>2
<1> QED  BY <1>3, <1>4 DEF PageInv

\* A call that is no test, or a test of the provider that is shown.
LEMMA CallKeeps ==
    ASSUME PageInv, NEW kind, NEW s, Call(kind, s), results' = results,
           kind \in Models => detail.data # None /\ s = detail.data.id,
           pending' = pending \/ (pending' = kind /\ kind \in Models)
    PROVE  PageInv'
<1>1. PICK n : n = sent + 1  OBVIOUS
<1>2. PICK c : c = [n |-> n, kind |-> kind, id |-> s, page |-> route.id,
                    from |-> route.page, mount |-> mount, panel |-> detail.rid,
                    stage |-> "sent", at |-> 0]
  OBVIOUS
<1>3. /\ calls' = calls \cup {c} /\ sent' = n
      /\ UNCHANGED <<rows, clock, route, mount, list, detail, reqs>>
  BY <1>1, <1>2 DEF Call, RunMutation
<1>4. mount \in Nat /\ detail.rid \in Nat /\ sent \in Nat
  BY DEF PageInv, DetailInv, TestInv, IsHook
<1>5. n \in Nat  BY <1>1, <1>4
<1>6. /\ c.kind = kind /\ c.id = s /\ c.mount = mount /\ c.panel = detail.rid
      /\ IsCall(c)
  BY <1>2, <1>4, <1>5 DEF IsCall
<1>7. DetailInv'  BY <1>3, SameDetail DEF PageInv
<1>8. TestInv'  BY <1>3, <1>4, <1>5, <1>6 DEF PageInv, TestInv
<1>9. PendingModelHasTest'
  BY <1>3, <1>6 DEF PageInv, PendingModelHasTest
<1> QED  BY <1>7, <1>8, <1>9 DEF PageInv

\* The server answers a call.
LEMMA ReplyKeeps ==
    ASSUME PageInv, NEW c \in calls, NEW s, NEW stage, Reply(c, s, stage),
           c.kind \in Models => s = c.id,
           UNCHANGED <<browser, panel, sent>>
    PROVE  PageInv'
<1>0. PICK t : t = clock'  OBVIOUS
<1>1. PICK d : d = [c EXCEPT !.id = s, !.stage = stage, !.at = t]  OBVIOUS
<1>2. IsCall(c)  BY DEF PageInv, TestInv
<1>3. /\ IsCall(d) /\ d.kind = c.kind /\ d.id = s /\ d.mount = c.mount
      /\ d.panel = c.panel
  <2>1. d = [n |-> c.n, kind |-> c.kind, id |-> s, page |-> c.page, from |-> c.from,
             mount |-> c.mount, panel |-> c.panel, stage |-> stage, at |-> t]
    BY <1>1, <1>2 DEF IsCall
  <2>2. c.n \in Nat /\ c.mount \in Nat /\ c.panel \in Nat  BY <1>2 DEF IsCall
  <2> QED  BY <2>1, <2>2 DEF IsCall
<1>4. calls' = (calls \ {c}) \cup {d}  BY <1>0, <1>1 DEF Reply
<1>5. UNCHANGED <<route, mount, detail, reqs, pending, results, sent>>
  BY DEF browser, panel
<1>6. DetailInv'  BY <1>5, SameDetail DEF PageInv
<1>7. TestInv'  BY <1>3, <1>4, <1>5 DEF PageInv, TestInv
<1>8. ASSUME pending # None
      PROVE  \E e \in calls' : e.kind = pending /\ e.mount = mount /\ e.panel = detail.rid
  <2>1. PICK e \in calls : e.kind = pending /\ e.mount = mount /\ e.panel = detail.rid
    BY <1>8 DEF PageInv, PendingModelHasTest
  <2> QED  BY <1>3, <1>4, <2>1
<1>9. PendingModelHasTest'  BY <1>5, <1>8 DEF PendingModelHasTest
<1> QED  BY <1>6, <1>7, <1>9 DEF PageInv

\* The answer to a test is shown if its panel is.
LEMMA TestKeeps ==
    ASSUME PageInv, NEW c \in calls, HandleTest(c), calls' = calls \ {c}, sent' = sent
    PROVE  PageInv'
<1>1. DetailInv'  BY RefetchKeeps DEF HandleTest, PageInv
<1>2. mount' = mount /\ detail' = detail  BY DEF HandleTest, Refetch
<1>3. c.n \in Nat /\ c.kind \in Models  BY DEF HandleTest, PageInv, TestInv, IsCall
<1>4. results' \in [Models -> Nat] /\ pending' \in Models \cup {None}
  BY <1>3 DEF HandleTest, EndTest, PageInv, TestInv
<1>5. TestInv'  BY <1>2, <1>4 DEF PageInv, TestInv
<1>6. ASSUME pending' # None
      PROVE  \E e \in calls' : e.kind = pending' /\ e.mount = mount /\ e.panel = detail.rid
  <2>1. ~(c.mount = mount /\ c.panel = detail.rid) /\ pending' = pending
    BY <1>6 DEF HandleTest, EndTest
  <2>2. PICK e \in calls : e.kind = pending /\ e.mount = mount /\ e.panel = detail.rid
    BY <1>6, <2>1 DEF PageInv, PendingModelHasTest
  <2> QED  BY <2>1, <2>2
<1>7. PendingModelHasTest'  BY <1>2, <1>6 DEF PendingModelHasTest
<1> QED  BY <1>1, <1>5, <1>7 DEF PageInv

LEMMA SettleKeeps ==
    ASSUME PageInv, NEW c \in calls, Settle(c)
    PROVE  PageInv'
<1>1. calls' = calls \ {c} /\ sent' = sent  BY DEF Settle
<1>2. CASE HandleTest(c)  BY <1>1, <1>2, TestKeeps
<1>3. CASE HandleDelete(c) \/ OnUpdateProvider(c) \/ OnCreateProvider(c) \/ OnSaveAgent(c)
  <2>1. c.kind \notin Models
    BY <1>3, ModelAssumption DEF HandleDelete, OnUpdateProvider, OnCreateProvider, OnSaveAgent
  <2>2. PanelFollows
    BY <1>3 DEF HandleDelete, OnUpdateProvider, OnCreateProvider, OnSaveAgent
  <2>3. \/ \E page, id : Navigate(page, id, reqs)
        \/ Refetch(c, {}) \/ Refetch(c, {RefetchDetail(c, "view")})
    BY <1>3 DEF HandleDelete, OnUpdateProvider, OnCreateProvider, OnSaveAgent
  <2>4. DetailInv' /\ DetailStep  BY <2>3, NavigateKeeps, RefetchKeeps DEF PageInv
  <2> QED  BY <1>1, <2>1, <2>2, <2>4, PanelKeeps
<1> QED  BY <1>2, <1>3 DEF Settle

LEMMA UserKeeps ==
    ASSUME PageInv, User
    PROVE  PageInv'
<1>1. CASE SubmitProvider \/ SubmitAgent \/ ConfirmDelete
  <2>1. PICK kind, s : kind \in {"create", "update", "delete"} /\ Call(kind, s)
    BY <1>1 DEF SubmitProvider, SubmitAgent, ConfirmDelete, CallProvider, CallAgent
  <2>2. pending' = pending /\ results' = results
    BY <1>1 DEF SubmitProvider, SubmitAgent, ConfirmDelete, panel
  <2>3. kind \notin Models  BY <2>1, ModelAssumption
  <2> QED  BY <2>1, <2>2, <2>3, CallKeeps
<1>2. CASE AskDelete
  <2>1. UNCHANGED <<route, mount, detail, reqs, calls, pending, results, sent>>
    BY <1>2 DEF AskDelete, browser
  <2>2. DetailInv'  BY <2>1, SameDetail DEF PageInv
  <2> QED  BY <2>1, <2>2 DEF PageInv, TestInv, PendingModelHasTest
<1>3. CASE \E m \in Models : TestModel(m)
  <2>1. PICK m \in Models : TestModel(m)  BY <1>3
  <2>2. /\ detail.data # None /\ Call(m, detail.data.id) /\ pending' = m
        /\ results' = results
    BY <2>1 DEF TestModel, OnProviderPage, CallProvider
  <2> QED  BY <2>2, CallKeeps
<1>4. CASE RefreshList
  <2>1. PICK q : q = Get("list", mount, list.rid + 1, None, "stay", None, 0)  OBVIOUS
  <2>2. reqs' = reqs \cup {q}
        /\ UNCHANGED <<route, mount, detail, calls, pending, results, sent>>
    BY <1>4, <2>1 DEF RefreshList, panel
  <2>3. IsGet(q) /\ ~Asks(q)  BY <2>1, GetShape DEF Asks
  <2>4. DetailInv'  BY <2>2, <2>3, SameDetail DEF PageInv
  <2> QED  BY <2>2, <2>4 DEF PageInv, TestInv, PendingModelHasTest
<1>5. CASE \E page \in Pages(feature) : \E s \in Ids \cup {None} : Move(page, s)
  <2>1. PICK page, s : Move(page, s)  BY <1>5
  <2>2. Navigate(page, s, reqs) /\ PanelFollows /\ calls' = calls /\ sent' = sent
    BY <2>1 DEF Move
  <2>3. DetailInv' /\ DetailStep  BY <2>2, NavigateKeeps DEF PageInv
  <2> QED  BY <2>2, <2>3, PanelKeeps
<1> QED  BY <1>1, <1>2, <1>3, <1>4, <1>5 DEF User

LEMMA PageNext == PageInv /\ [Next]_vars => PageInv'
<1> SUFFICES ASSUME PageInv, [Next]_vars PROVE PageInv'  OBVIOUS
<1>1. CASE UNCHANGED vars
  <2>1. UNCHANGED <<route, mount, detail, reqs, calls, pending, results, sent>>
    BY <1>1 DEF vars, browser, panel
  <2>2. DetailInv'  BY <2>1, SameDetail DEF PageInv
  <2> QED  BY <2>1, <2>2 DEF PageInv, TestInv, PendingModelHasTest
<1>2. CASE User  BY <1>2, UserKeeps
<1>3. ASSUME NEW c \in calls, Execute(c) \/ ExecuteFails(c) PROVE PageInv'
  <2>1. UNCHANGED <<browser, panel, sent>>  BY <1>3 DEF Execute, ExecuteFails
  <2>2. PICK s, stage : Reply(c, s, stage) /\ (c.kind \in Models => s = c.id)
    BY <1>3, ModelAssumption DEF Execute, ExecuteFails
  <2> QED  BY <2>1, <2>2, ReplyKeeps
<1>4. ASSUME NEW c \in calls, Settle(c) PROVE PageInv'  BY <1>4, SettleKeeps
<1>5. ASSUME NEW r \in reqs, UseHooks(r) PROVE PageInv'
  <2>1. Load(r)
    BY <1>5 DEF UseHooks, UseLlmProviders, UseLlmProviderDetail, UseAgents, UseAgentDetail
  <2>2. Answer(r) \/ Deliver(r) \/ DeliverAndGo(r) \/ DeliverFailure(r)  BY <2>1 DEF Load
  <2>3. PanelFollows /\ sent' = sent  BY <2>1 DEF Load
  <2>4. calls' = calls  BY <2>2 DEF Answer, Deliver, DeliverAndGo, DeliverFailure
  <2>5. DetailInv' /\ DetailStep  BY <2>2, LoadKeeps DEF PageInv
  <2> QED  BY <2>3, <2>4, <2>5, PanelKeeps
<1> QED  BY <1>1, <1>2, <1>3, <1>4, <1>5 DEF Next

\* The detail, the panel and the tests of a page fit together: PageInv is inductive.
THEOREM PageKept == Spec => []PageInv
BY PageStart, PageNext, PTL DEF Spec

\* The detail that is shown is the one of the address, in whatever order the answers
\* come.
THEOREM OfRoute == Spec => []DetailIsOfRoute
<1>1. PageInv => DetailIsOfRoute  BY DEF PageInv, DetailInv
<1> QED  BY PageKept, <1>1, PTL

\* A model whose test button is disabled has a test on its way that enables it.
THEOREM PendingTest == Spec => []PendingModelHasTest
<1>1. PageInv => PendingModelHasTest  BY DEF PageInv
<1> QED  BY PageKept, <1>1, PTL

\* A result appears only with the answer to a test of the provider that is shown.
LEMMA ResultOfShown ==
    ASSUME PageInv, [Next]_vars, NEW m \in Models, results'[m] # results[m], results'[m] # 0
    PROVE  \E c \in calls : /\ c.n = results'[m]
                            /\ detail.data # None /\ c.id = detail.data.id
<1>1. ~UNCHANGED results  OBVIOUS
<1>2. ~PanelFollows  BY DEF PanelFollows, NoResults
<1>3. PICK c \in calls : Settle(c)
  <2>1. ~User
    BY <1>1, <1>2 DEF User, SubmitProvider, SubmitAgent, AskDelete, ConfirmDelete, TestModel,
                      RefreshList, Move, panel
  <2>2. \A c \in calls : ~Execute(c) /\ ~ExecuteFails(c)
    BY <1>1 DEF Execute, ExecuteFails, panel
  <2>3. \A r \in reqs : ~UseHooks(r)
    BY <1>2 DEF UseHooks, UseLlmProviders, UseLlmProviderDetail, UseAgents, UseAgentDetail, Load
  <2> QED  BY <1>1, <2>1, <2>2, <2>3 DEF Next, vars, panel
<1>4. HandleTest(c)
  BY <1>2, <1>3 DEF Settle, HandleDelete, OnUpdateProvider, OnCreateProvider, OnSaveAgent
<1>5. /\ c.mount = mount /\ c.panel = detail.rid /\ c.kind \in Models
      /\ results' = [results EXCEPT ![c.kind] = c.n]
  BY <1>1, <1>4 DEF HandleTest, EndTest
<1>6. results'[m] = c.n  BY <1>5 DEF PageInv, TestInv
<1>7. detail.data # None /\ c.id = detail.data.id  BY <1>5 DEF PageInv, TestInv
<1> QED  BY <1>6, <1>7

\* The answer to a test of the provider the user has left is not shown with the next.
THEOREM OwnResults == Spec => NoForeignResult
<1>1. PageInv /\ [Next]_vars
        => [\A m \in Models : results'[m] # results[m] /\ results'[m] # 0
              => \E c \in calls : /\ c.n = results'[m]
                                  /\ detail.data # None /\ c.id = detail.data.id]_vars
  BY ResultOfShown
<1> QED  BY PageKept, <1>1, PTL DEF Spec, NoForeignResult
=============================================================================
