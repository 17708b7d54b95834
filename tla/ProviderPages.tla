---------------------------- MODULE ProviderPages ----------------------------
(***************************************************************************)
(* The pages of LLM providers and of agents in one browser                 *)
(* (frontend/src/features/llmProviders and .../agents). An agent has no    *)
(* page of its own, and nothing deletes it. The models of a provider can   *)
(* be tested on its page. What the forms send is in ConfigForms and        *)
(* AgentForm.                                                              *)
(***************************************************************************)
EXTENDS Integers, FiniteSets

CONSTANTS
    Ids,       \* providers, or agents
    None,
    Models,    \* the models of every provider
    MaxCalls,  \* bound on the mutations and tests of the browser
    MaxMoves,  \* bound on the moves of the user to another page
    Faults     \* subset of {"net", "op"}: requests fail, mutations fail

ASSUME BoundsAssumption == MaxCalls \in Nat /\ MaxMoves \in Nat
ASSUME FaultAssumption  == Faults \subseteq {"net", "op"}
\* A test is a call with its model in place of the kind.
ASSUME ModelAssumption  == Models \cap {"create", "update", "delete"} = {}

VARIABLES
    rows, clock, route, mount, list, detail, mut, reqs, calls,
    feature,   \* "llm" or "agents"
    confirm,   \* confirmingDelete of the provider page
    pending,   \* pendingModel of the models panel
    results,   \* for each model the number of the test whose result is shown
    sent,      \* number of mutations so far
    moves      \* number of moves so far

INSTANCE ConfigPages WITH ListPages <- {"list"}, DetailPages <- {"view", "edit"}

browser == <<route, mount, list, detail, mut, reqs>>
panel   == <<confirm, pending, results>>
vars    == <<rows, clock, browser, calls, feature, panel, sent, moves>>

Features == {"llm", "agents"}
Pages(f) == {"list", "new", "edit", "away"} \cup (IF f = "llm" THEN {"view"} ELSE {})
Kinds    == {"create", "update", "delete"} \cup Models

NoResults == [m \in Models |-> 0]

\* The user opens a page by its address.
Init ==
    /\ rows \in [Ids -> {"absent", "there"}] /\ clock = 1
    /\ feature \in Features
    /\ \E page \in Pages(feature) : \E s \in Ids \cup {None} : Opened(page, s)
    /\ confirm = FALSE /\ pending = None /\ results = NoResults
    /\ sent = 0 /\ moves = 0

\* A new page has a new state, and the models panel is mounted anew with every
\* detail that is loaded.
PanelFollows ==
    /\ confirm' = (confirm /\ mount' = mount)
    /\ IF mount' = mount /\ detail'.rid = detail.rid THEN UNCHANGED <<pending, results>>
       ELSE pending' = None /\ results' = NoResults

-----------------------------------------------------------------------------
(* The user *)

Call(kind, s) ==
    /\ sent < MaxCalls /\ sent' = sent + 1
    /\ RunMutation(sent + 1, kind, s)
    /\ UNCHANGED <<feature, moves>>

\* The mutations of useLlmProviderMutations and of useAgentMutations.
CallProvider(kind, s) == feature = "llm" /\ Call(kind, s)
CallAgent(kind, s)    == feature = "agents" /\ Call(kind, s)

\* The button of a form is disabled while a mutation of the page is pending.
SubmitProvider ==
    /\ mut.pending = 0
    /\ \/ route.page = "new" /\ CallProvider("create", None)
       \/ route.page = "edit" /\ detail.data # None /\ CallProvider("update", detail.data.id)
    /\ UNCHANGED panel

SubmitAgent ==
    /\ mut.pending = 0
    /\ \/ route.page = "new" /\ CallAgent("create", None)
       \/ route.page = "edit" /\ detail.data # None /\ CallAgent("update", detail.data.id)
    /\ UNCHANGED panel

OnProviderPage == feature = "llm" /\ route.page = "view" /\ detail.data # None

\* The delete button and the cancel button of the question it asks.
AskDelete ==
    /\ OnProviderPage /\ mut.pending = 0
    /\ confirm' = ~confirm
    /\ UNCHANGED <<rows, clock, browser, calls, feature, pending, results, sent, moves>>

ConfirmDelete ==
    /\ OnProviderPage /\ confirm /\ mut.pending = 0
    /\ CallProvider("delete", detail.data.id)
    /\ UNCHANGED panel

\* handleTest up to its await: only the button of the pending model is disabled.
TestModel(m) ==
    /\ OnProviderPage /\ pending # m
    /\ CallProvider(m, detail.data.id)
    /\ pending' = m
    /\ UNCHANGED <<confirm, results>>

\* The refresh button is disabled while the list loads.
RefreshList ==
    /\ route.page = "list" /\ ~list.loading
    /\ moves < MaxMoves /\ moves' = moves + 1
    /\ list' = Reload(list)
    /\ reqs' = reqs \cup {Get("list", mount, list.rid + 1, None, "stay", None, 0)}
    /\ UNCHANGED <<rows, clock, route, mount, detail, mut, calls, feature, panel, sent>>

\* Links, buttons, the sidebar and the history of the browser.
Move(page, s) ==
    /\ moves < MaxMoves /\ moves' = moves + 1
    /\ HasId(page) = (s # None)
    /\ <<page, s>> # <<route.page, route.id>>
    /\ Navigate(page, s, reqs)
    /\ PanelFollows
    /\ UNCHANGED <<rows, clock, calls, feature, sent>>

-----------------------------------------------------------------------------
(* The server *)

Execute(c) ==
    /\ c.stage = "sent"
    /\ \/ /\ c.kind = "create"
          /\ \E s \in Ids : rows[s] = "absent" /\ Change(s, "there") /\ Reply(c, s, "done")
       \/ /\ c.kind # "create" /\ rows[c.id] = "absent"
          /\ UNCHANGED <<rows, clock>> /\ Reply(c, c.id, "missing")
       \/ /\ c.kind \in {"update", "delete"} /\ rows[c.id] = "there"
          /\ Change(c.id, IF c.kind = "delete" THEN "absent" ELSE "there")
          /\ Reply(c, c.id, "done")
       \/ /\ c.kind \in Models /\ rows[c.id] = "there"
          /\ UNCHANGED <<rows, clock>> /\ Reply(c, c.id, "done")
    /\ UNCHANGED <<browser, feature, panel, sent, moves>>

\* The call never reaches the server, or is refused.
ExecuteFails(c) ==
    /\ "op" \in Faults /\ c.stage = "sent"
    /\ UNCHANGED <<rows, clock>> /\ Reply(c, c.id, "failed")
    /\ UNCHANGED <<browser, feature, panel, sent, moves>>

-----------------------------------------------------------------------------
(* What the pages do with an answer *)

Done(c) == c.stage = "done"

\* Mutant: the model of a test that fails stays pending.
EndTestOnSuccess(c) ==
    IF c.mount = mount /\ c.panel = detail.rid
    THEN /\ results' = [results EXCEPT ![c.kind] = c.n]
         /\ pending' = IF Done(c) THEN None ELSE pending
    ELSE UNCHANGED <<pending, results>>

\* Mutant: a result is shown on whatever panel is there.
EndTestAnyPanel(c) ==
    IF c.mount = mount
    THEN results' = [results EXCEPT ![c.kind] = c.n] /\ pending' = None
    ELSE UNCHANGED <<pending, results>>

\* handleTest after its await, unless its panel is gone: a failure is a result,
\* and no model is pending any more.
EndTest(c) ==
    IF c.mount = mount /\ c.panel = detail.rid
    THEN results' = [results EXCEPT ![c.kind] = c.n] /\ pending' = None
    ELSE UNCHANGED <<pending, results>>

HandleTest(c) ==
    /\ c.kind \in Models
    /\ Settled(c) /\ Refetch(c, {})
    /\ EndTest(c) /\ UNCHANGED confirm

HandleDelete(c) ==
    /\ c.kind = "delete"
    /\ IF Done(c) THEN Navigate("list", None, reqs) ELSE Settled(c) /\ Refetch(c, {})
    /\ PanelFollows

\* Mutant: the form stays after the save.
OnUpdateProviderStays(c) ==
    /\ feature = "llm" /\ c.kind = "update"
    /\ Settled(c) /\ Refetch(c, IF Done(c) THEN {RefetchDetail(c, "stay")} ELSE {})
    /\ PanelFollows

\* onUpdate and onCreate of the provider pages.
OnUpdateProvider(c) ==
    /\ feature = "llm" /\ c.kind = "update"
    /\ Settled(c) /\ Refetch(c, IF Done(c) THEN {RefetchDetail(c, "view")} ELSE {})
    /\ PanelFollows

OnCreateProvider(c) ==
    /\ feature = "llm" /\ c.kind = "create"
    /\ IF Done(c) THEN Navigate("view", c.id, reqs) ELSE Settled(c) /\ Refetch(c, {})
    /\ PanelFollows

\* onUpdate and onCreate of the agent pages.
OnSaveAgent(c) ==
    /\ feature = "agents" /\ c.kind \in {"create", "update"}
    /\ IF Done(c) THEN Navigate("list", None, reqs) ELSE Settled(c) /\ Refetch(c, {})
    /\ PanelFollows

Settle(c) ==
    /\ c.stage # "sent"
    /\ \/ HandleTest(c) \/ HandleDelete(c)
       \/ OnUpdateProvider(c) \/ OnCreateProvider(c) \/ OnSaveAgent(c)
    /\ calls' = calls \ {c}
    /\ UNCHANGED <<rows, clock, feature, sent, moves>>

Load(r) ==
    /\ \/ Answer(r) \/ Deliver(r) \/ DeliverAndGo(r)
       \/ "net" \in Faults /\ DeliverFailure(r)
    /\ PanelFollows
    /\ UNCHANGED <<feature, sent, moves>>

\* The hooks that wait for the requests.
UseLlmProviders(r)      == feature = "llm" /\ r.hook = "list" /\ Load(r)
UseLlmProviderDetail(r) == feature = "llm" /\ r.hook = "detail" /\ Load(r)
UseAgents(r)            == feature = "agents" /\ r.hook = "list" /\ Load(r)
UseAgentDetail(r)       == feature = "agents" /\ r.hook = "detail" /\ Load(r)

UseHooks(r) == UseLlmProviders(r) \/ UseLlmProviderDetail(r) \/ UseAgents(r) \/ UseAgentDetail(r)

-----------------------------------------------------------------------------

User == \/ SubmitProvider \/ SubmitAgent \/ AskDelete \/ ConfirmDelete
        \/ \E m \in Models : TestModel(m)
        \/ RefreshList
        \/ \E page \in Pages(feature) : \E s \in Ids \cup {None} : Move(page, s)

Next == \/ User
        \/ \E c \in calls : Execute(c) \/ ExecuteFails(c) \/ Settle(c)
        \/ \E r \in reqs : UseHooks(r)

Spec == Init /\ [][Next]_vars

\* The server answers, and the browser runs what waits for an answer.
Fairness == /\ WF_vars(\E c \in calls : Execute(c) \/ Settle(c))
            /\ WF_vars(\E r \in reqs : UseHooks(r))

FairSpec == Spec /\ Fairness

-----------------------------------------------------------------------------
(* Properties *)

\* The shape of the variables.
TypeOK ==
    /\ rows \in [Ids -> {"absent", "there"}] /\ clock \in Nat
    /\ feature \in Features
    /\ route \in [page : Pages(feature), id : Ids \cup {None}] /\ mount \in Nat
    /\ mut \in [pending : 0..MaxCalls, error : BOOLEAN]
    /\ calls \subseteq [n : 1..MaxCalls, kind : Kinds, id : Ids \cup {None},
                        page : Ids \cup {None}, from : Pages(feature), mount : Nat,
                        panel : Nat, stage : {"sent", "done", "missing", "failed"}, at : Nat]
    /\ confirm \in BOOLEAN /\ pending \in Models \cup {None}
    /\ results \in [Models -> 0..MaxCalls]

\* A model whose test button is disabled has a test on its way that will enable it
\* again, whatever other tests, answers and moves to another provider come in
\* between (handleTest of LlmProviderDetailPage).
PendingModelHasTest ==
    pending # None => \E c \in calls : /\ c.kind = pending /\ c.mount = mount
                                       /\ c.panel = detail.rid

\* The results on the page of a provider come from tests of that provider, also
\* when the user has gone from one provider to the next on the same page: an
\* answer that comes late for the first is not shown with the second.
NoForeignResult ==
    [][\A m \in Models : results'[m] # results[m] /\ results'[m] # 0
         => \E c \in calls : /\ c.n = results'[m]
                             /\ detail.data # None /\ c.id = detail.data.id]_vars

\* A detail that is shown belongs to the address of the page: the answer for the
\* provider or agent the user has left does not replace the next one.
DetailIsOfRoute == detail.data # None => detail.data.id = route.id

\* A user who has deleted a provider, or created or saved a provider or an agent,
\* does not stay on the page of the operation, even if what follows cannot be
\* loaded.
DoneIsLeft ==
    \A m \in 1..(1 + MaxMoves + 2 * MaxCalls) :
        (\E c \in calls : c.mount = m /\ c.stage = "done" /\ c.kind \notin Models)
            ~> mount # m

-----------------------------------------------------------------------------
(* What makes them inductive *)

\* Requests that the detail hook of the page shown has made for itself.
Asks(r) == r.hook = "detail" /\ r.then = "stay" /\ r.mount = mount

\* The latest of them, if it has no answer yet, is the only one of its number, and asks
\* for the id of the page, while no detail is shown.
LatestAsk(r) ==
    /\ r.id = route.id /\ detail.data = None
    /\ \A q \in reqs : Asks(q) /\ q.rid = detail.rid => q = r

DetailInv ==
    /\ mount \in Nat /\ IsHook(detail)
    /\ \A r \in reqs : IsGet(r)
    /\ \A r \in reqs : Asks(r) =>
         /\ r.rid \in Nat /\ r.rid <= detail.rid
         /\ r.answer # None => r.answer.id = r.id
         /\ r.rid = detail.rid => LatestAsk(r)
    /\ DetailIsOfRoute

\* A test of the panel that is shown is one of the provider that is shown.
TestInv ==
    /\ sent \in Nat /\ results \in [Models -> Nat] /\ pending \in Models \cup {None}
    /\ \A c \in calls : /\ IsCall(c) /\ c.mount <= mount
                        /\ c.mount = mount => c.panel <= detail.rid
    /\ \A c \in calls : c.kind \in Models /\ c.mount = mount /\ c.panel = detail.rid
                        => detail.data # None /\ c.id = detail.data.id

PageInv == DetailInv /\ TestInv /\ PendingModelHasTest

=============================================================================
