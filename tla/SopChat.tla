------------------------------ MODULE SopChat ------------------------------
(***************************************************************************)
(* The SOP page of the workspace, on which a check is started and          *)
(* observed (frontend/src/features/sop/pages/ChatPage.tsx), the list of    *)
(* recent checks in the sidebar (app/RecentSopSidebarPanel.tsx) and the    *)
(* router that both use. One SOP id is typed; what CheckObserver models,   *)
(* the canvas of the check shown, is left out. Workspace instantiates      *)
(* this module.                                                            *)
(*                                                                         *)
(* A request whose effect was cancelled changes nothing, so each hook has  *)
(* at most one request. The continuation of handleSend is not cancelled:   *)
(* it goes on after its page has left, with the refs of that page.         *)
(***************************************************************************)
EXTENDS Integers, Sequences, SequencesExt, FiniteSets

CONSTANTS
    Envs,      \* environments
    FirstEnv,  \* the first in the list that the server returns
    None,
    MaxChecks  \* bound on the checks of the server

VARIABLES
    checks,  \* the checks of the server: environment, and still running
    route,   \* page ("sop", "admin") and the checkId of the query, or None
    past,    \* the entries of the browser's history before this one
    chat,    \* state and refs of the mounted ChatPage
    starts,  \* POSTs of handleSend on their way
    panel,   \* the sidebar, and state and request of RecentSopSidebarPanel
    wish,    \* history: the start that is the user's last wish, or None
    shown    \* history: the checks that an answered start has put on the page

Ids == 1..Len(checks)

\* sopId: the input is not blank. envs: state of useSopEnvironments.
NewChat(mount, check) ==
    [mount |-> mount, envs |-> "loading", env |-> None, sopId |-> FALSE, observed |-> check,
     starting |-> FALSE, rid |-> 0, error |-> FALSE]

NewPanel == [open |-> TRUE, envs |-> "loading", env |-> None, loading |-> FALSE,
             error |-> FALSE, list |-> {}, answer |-> None]

ChatInit ==
    /\ checks \in {<<>>} \cup [1..1 -> [env : Envs, active : BOOLEAN]]
    /\ route \in [page : {"sop"}, check : Ids \cup {None}]
    /\ past = <<>>
    /\ chat = NewChat(1, route.check)
    /\ starts = {} /\ panel = NewPanel
    /\ wish = None /\ shown = {}

OnPage == route.page = "sop"

\* EmptyState, with its form, is rendered when no check is observed.
FormShown == OnPage /\ chat.observed = None

-----------------------------------------------------------------------------
(* The router *)

\* The continuation still has the refs of its own page: they stay as they were when
\* the page left.
Passes(s)  == s.rid = chat.rid /\ chat.observed = None
Orphan(s)  == [s EXCEPT !.orphan = TRUE, !.passes = Passes(s)]
Orphans(S) == {IF s.orphan THEN s ELSE Orphan(s) : s \in S}

\* The effect of ChatPage on the checkId of the route.
Observe(check) ==
    IF check = None \/ check = route.check THEN chat
    ELSE [chat EXCEPT !.observed = check, !.error = FALSE]

\* The page of an address, with ss the starts on their way.
Show(to, ss) ==
    /\ route' = to
    /\ CASE to.page = route.page -> chat' = Observe(to.check) /\ starts' = ss
         [] to.page # route.page /\ to.page = "sop" ->
              chat' = NewChat(chat.mount + 1, to.check) /\ starts' = ss
         [] OTHER -> UNCHANGED chat /\ starts' = Orphans(ss)

Sop(check) == [page |-> "sop", check |-> check]
Admin      == [page |-> "admin", check |-> None]

Push(to) == past' = Append(past, route) /\ Show(to, starts)

-----------------------------------------------------------------------------
(* ChatPage *)

\* useSopEnvironments; the first environment is selected unless one is.
EnvironmentsLoad(ok) ==
    /\ OnPage /\ chat.envs = "loading"
    /\ chat' = [chat EXCEPT !.envs = IF ok THEN "ready" ELSE "failed",
                            !.env = IF ok THEN FirstEnv ELSE None]
    /\ UNCHANGED <<checks, route, past, starts, panel, wish, shown>>

ChangeSopId ==
    /\ FormShown
    /\ chat' = [chat EXCEPT !.sopId = ~@]
    /\ UNCHANGED <<checks, route, past, starts, panel, wish, shown>>

\* handleEnvironmentChange: a pending start no longer counts.
HandleEnvironmentChange(e) ==
    /\ FormShown /\ chat.envs = "ready" /\ e # chat.env
    /\ chat' = [chat EXCEPT !.rid = @ + 1, !.env = e, !.error = FALSE, !.starting = FALSE]
    /\ wish' = None
    /\ UNCHANGED <<checks, route, past, starts, panel, shown>>

CanSend == chat.sopId /\ chat.env # None

\* handleSend up to its await.
HandleSend ==
    /\ FormShown /\ ~chat.starting /\ CanSend
    /\ chat' = [chat EXCEPT !.rid = @ + 1, !.starting = TRUE, !.error = FALSE]
    /\ starts' = starts \cup
         {[mount |-> chat.mount, rid |-> chat'.rid, env |-> chat.env, answer |-> None,
           orphan |-> FALSE, passes |-> FALSE]}
    /\ wish' = [mount |-> chat.mount, rid |-> chat'.rid]
    /\ UNCHANGED <<checks, route, past, panel, shown>>

\* The server joins the running check of the environment, or creates one.
ServerStarts(s) ==
    LET running == {c \in Ids : checks[c].active /\ checks[c].env = s.env}
    IN /\ s.answer = None
       /\ \/ \E c \in running :
               /\ starts' = (starts \ {s}) \cup {[s EXCEPT !.answer = c]}
               /\ UNCHANGED checks
          \/ /\ running = {} /\ Len(checks) < MaxChecks
             /\ checks' = Append(checks, [env |-> s.env, active |-> TRUE])
             /\ starts' = (starts \ {s}) \cup {[s EXCEPT !.answer = Len(checks) + 1]}
       /\ UNCHANGED <<route, past, chat, panel, wish, shown>>

CheckEnds(c) ==
    /\ checks[c].active
    /\ checks' = [checks EXCEPT ![c].active = FALSE]
    /\ UNCHANGED <<route, past, chat, starts, panel, wish, shown>>

\* Mutant: an answer counts whatever the page shows by now.
CountsByRid(s) == IF s.orphan THEN s.passes ELSE s.rid = chat.rid

\* startRequestRef and observedCheckIdRef; the form is only there while no check is
\* observed, so observedAtStart is None.
Counts(s) == IF s.orphan THEN s.passes ELSE Passes(s)

\* Mutant: the end of any start ends the wait.
SettleAny(s) == [chat EXCEPT !.starting = FALSE]

\* Mutant: the form goes on waiting.
SettleNever(s) == chat

\* finally: setStarting(false), if the start is the latest of a mounted page.
Settle(s) == IF ~s.orphan /\ s.rid = chat.rid THEN [chat EXCEPT !.starting = FALSE] ELSE chat

\* refreshRecentSopQualityChecks: the effect of the panel runs again.
Refresh(p) == IF p.open /\ p.env # None
              THEN [p EXCEPT !.loading = TRUE, !.error = FALSE, !.list = {}, !.answer = None]
              ELSE p

\* The check is observed and the route replaced. A page that has left only does the
\* latter, and the page that is there then follows its route.
ShowAnswer(s) ==
    IF s.orphan THEN Show(Sop(s.answer), starts \ {s})
    ELSE /\ route' = Sop(s.answer)
         /\ chat' = [Settle(s) EXCEPT !.observed = s.answer, !.error = FALSE]
         /\ starts' = starts \ {s}

\* Mutant: the list in the sidebar is not refreshed.
AcceptQuietly(s) ==
    /\ ShowAnswer(s)
    /\ UNCHANGED panel

\* handleSend accepts its answer. The message that a running check was joined is gone
\* when the effect on the new route has run, and is left out.
Accept(s) ==
    /\ ShowAnswer(s)
    /\ panel' = Refresh(panel)

\* The continuation of handleSend.
StartArrives(s) ==
    /\ s.answer # None
    /\ IF Counts(s)
       THEN Accept(s) /\ shown' = shown \cup {s.answer}
       ELSE chat' = Settle(s) /\ starts' = starts \ {s} /\ UNCHANGED <<route, panel, shown>>
    /\ UNCHANGED <<checks, past, wish>>

\* Its catch only looks at startRequestRef: the error is shown on whatever the page shows.
StartFails(s) ==
    /\ chat' = IF ~s.orphan /\ s.rid = chat.rid THEN [Settle(s) EXCEPT !.error = TRUE]
               ELSE chat
    /\ starts' = starts \ {s}
    /\ UNCHANGED <<checks, route, past, panel, wish, shown>>

\* Mutant: the route keeps its check.
NewConversationStays ==
    /\ OnPage
    /\ chat' = [chat EXCEPT !.rid = @ + 1, !.observed = None, !.error = FALSE,
                            !.starting = FALSE, !.sopId = FALSE]
    /\ wish' = None
    /\ UNCHANGED <<checks, route, past, starts, panel, shown>>

\* handleNewConversation of the page, through the sidebar.
HandleNewConversation ==
    /\ OnPage
    /\ chat' = [chat EXCEPT !.rid = @ + 1, !.observed = None, !.error = FALSE,
                            !.starting = FALSE, !.sopId = FALSE]
    /\ route' = Sop(None)
    /\ wish' = None
    /\ UNCHANGED <<checks, past, starts, panel, shown>>

-----------------------------------------------------------------------------
(* The sidebar and the browser *)

\* handleRouteClick on another page than the one shown.
HandleNavigate(to) ==
    /\ to.page # route.page
    /\ Push(to)
    /\ wish' = None
    /\ UNCHANGED <<checks, panel, shown>>

OpenRecent(c) ==
    /\ panel.open /\ c \in panel.list
    /\ Push(Sop(c))
    /\ wish' = None
    /\ UNCHANGED <<checks, panel, shown>>

\* The back button; nothing is left behind when the entry is the one shown.
Back ==
    /\ past # <<>>
    /\ past' = Front(past)
    /\ Show(Last(past), starts)
    /\ wish' = IF Last(past) = route THEN wish ELSE None
    /\ UNCHANGED <<checks, panel, shown>>

\* A closed sidebar does not render the panel, which starts anew when it is opened.
TogglePanel ==
    /\ panel' = IF panel.open THEN [NewPanel EXCEPT !.open = FALSE, !.envs = "unmounted"]
                ELSE NewPanel
    /\ UNCHANGED <<checks, route, past, chat, starts, wish, shown>>

-----------------------------------------------------------------------------
(* RecentSopSidebarPanel *)

\* useSopEnvironments, and the effect that selects the first environment and so
\* starts useRecentSopQualityChecks.
PanelEnvironmentsLoad(ok) ==
    /\ panel.envs = "loading"
    /\ panel' = IF ok THEN Refresh([panel EXCEPT !.envs = "ready", !.env = FirstEnv])
                ELSE [panel EXCEPT !.envs = "failed"]
    /\ UNCHANGED <<checks, route, past, chat, starts, wish, shown>>

\* The server lists the checks of the environment.
ServerLists ==
    /\ panel.loading /\ panel.answer = None
    /\ panel' = [panel EXCEPT !.answer = [list |-> {c \in Ids : checks[c].env = panel.env}]]
    /\ UNCHANGED <<checks, route, past, chat, starts, wish, shown>>

RecentArrive ==
    /\ panel.answer # None
    /\ panel' = [panel EXCEPT !.loading = FALSE, !.list = panel.answer.list, !.answer = None]
    /\ UNCHANGED <<checks, route, past, chat, starts, wish, shown>>

RecentFail ==
    /\ panel.loading
    /\ panel' = [panel EXCEPT !.loading = FALSE, !.error = TRUE, !.answer = None]
    /\ UNCHANGED <<checks, route, past, chat, starts, wish, shown>>

-----------------------------------------------------------------------------
(* Properties *)

\* The shapes, with n checks on the server.
Checks       == [env : Envs, active : BOOLEAN]
Addresses(n) == [page : {"sop", "admin"}, check : 1..n \cup {None}]
Chats(n)     == [mount : Nat, envs : {"loading", "ready", "failed"}, env : Envs \cup {None},
                 sopId : BOOLEAN, observed : 1..n \cup {None}, starting : BOOLEAN, rid : Nat,
                 error : BOOLEAN]
Starts(n)    == [mount : Nat, rid : Nat, env : Envs, answer : 1..n \cup {None},
                 orphan : BOOLEAN, passes : BOOLEAN]
Panels(n)    == [open : BOOLEAN, envs : {"loading", "ready", "failed", "unmounted"},
                 env : {FirstEnv, None}, loading : BOOLEAN, error : BOOLEAN,
                 list : SUBSET (1..n), answer : [list : SUBSET (1..n)] \cup {None}]

ChatTypeOK ==
    /\ checks \in Seq(Checks)
    /\ route \in Addresses(Len(checks)) /\ past \in Seq(Addresses(Len(checks)))
    /\ chat \in Chats(Len(checks))
    /\ starts \subseteq Starts(Len(checks))
    /\ panel \in Panels(Len(checks))
    /\ wish \in [mount : Nat, rid : Nat] \cup {None}
    /\ shown \subseteq Ids

\* The check that the page observes is the one in its address, whatever starts,
\* openings, new conversations and steps back came in between. (An address without
\* one may still show the check observed before: the effect ignores it.)
ShownIsRouted == OnPage /\ route.check # None => chat.observed = route.check

\* The form waits exactly as long as the latest start that the user has not given up
\* is on its way, so that it can neither be sent twice nor stay disabled for ever.
StartingHasRequest ==
    OnPage => (chat.starting <=> \E s \in starts : ~s.orphan /\ s.rid = chat.rid)

\* The checks of the panel's environment that were started from this browser and shown.
StartedHere == {c \in shown : checks[c].env = FirstEnv}

\* Once it has loaded, the list of recent checks has every check of its environment
\* that was started from this browser and then shown.
RecentCatchesUp ==
    panel.envs = "ready" /\ ~panel.loading /\ ~panel.error => StartedHere \subseteq panel.list

\* An answer never takes the page away from what the user has turned to since: the
\* address changes by an answer only if that start is still the user's last wish. (A
\* start whose page was left is the exception: it calls the user back.)
AnswerIsWanted ==
    [][\A s \in starts \ starts' :
          route' # route /\ past' = past /\ ~s.orphan
          => wish = [mount |-> s.mount, rid |-> s.rid]]_<<route, past, starts>>

\* A start that the form waits for is answered, or fails, in the end.
StartIsAnswered == (OnPage /\ chat.starting) ~> ~(OnPage /\ chat.starting)

-----------------------------------------------------------------------------
(* What makes them inductive *)

\* A start that has a page has the page that is shown; it is not newer than the refs of
\* that page, no other start has its number, and while nothing has come up since, it
\* is what the user wants.
StartInv ==
    /\ \A s \in starts : ~s.orphan =>
         /\ OnPage /\ s.rid <= chat.rid
         /\ Passes(s) => wish = [mount |-> s.mount, rid |-> s.rid]
    /\ \A s, t \in starts : ~s.orphan /\ ~t.orphan /\ s.rid = t.rid => s = t

\* A list that is on its way to the panel has what the panel must show.
PanelInv ==
    /\ panel.open <=> panel.envs # "unmounted"
    /\ panel.envs = "ready" => panel.env = FirstEnv
    /\ panel.loading => panel.open /\ panel.env = FirstEnv
    /\ panel.answer # None => panel.loading /\ StartedHere \subseteq panel.answer.list
    /\ RecentCatchesUp

PageInv == ShownIsRouted /\ StartingHasRequest /\ StartInv
ChatInv == ChatTypeOK /\ PageInv /\ PanelInv

=============================================================================
