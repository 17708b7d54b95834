----------------------------- MODULE Workspace -----------------------------
(***************************************************************************)
(* The workspace of one browser (frontend/src/app/App.tsx): the signed-in  *)
(* user decides whether it is shown and which pages the sidebar offers;    *)
(* the sidebar holds the switcher of AuthSession and the list of recent    *)
(* checks of SopChat, and mounts and unmounts both.                        *)
(***************************************************************************)
EXTENDS Integers, Sequences, SequencesExt, FiniteSets

CONSTANTS
    Accounts, Admins, None, Envs, FirstEnv, MaxChecks,  \* see AuthSession and SopChat
    MaxActs  \* bound on what the user does

VARIABLES
    auth, cookie, authReqs, picker, switcher, forgotten,
    checks, route, past, chat, starts, panel, wish, shown,
    acts  \* number of the user's actions

ASSUME WorkspaceAssumption ==
    Admins \subseteq Accounts /\ FirstEnv \in Envs /\ None \notin Accounts \cup Envs \cup Nat
ASSUME BoundsAssumption == MaxChecks \in Nat /\ MaxActs \in Nat

INSTANCE AuthSession
INSTANCE SopChat

authVars == <<auth, cookie, authReqs, picker, switcher, forgotten>>
chatVars == <<checks, route, past, chat, starts, panel, wish, shown>>
vars     == <<authVars, chatVars, acts>>

Init == AuthInit /\ ChatInit /\ acts = 0

\* handleRouteClick: an admin page is offered to administrators only. Its guard,
\* ProtectedRoute, replaces what the page shows when the user changes.
CanAccess(page) == page = "admin" => IsAdmin

ClickRoute == \/ HandleNewConversation
              \/ HandleNavigate(Sop(None))
              \/ CanAccess("admin") /\ HandleNavigate(Admin)

\* WorkspaceFrame is mounted once the user is known, and so is the page.
UserActs ==
    /\ acts < MaxActs /\ acts' = acts + 1
    /\ \/ (\E a \in Accounts : HandleLogin(a) \/ HandleSwitch(a)) /\ UNCHANGED chatVars
       \/ SignedIn /\ ToggleSwitcher /\ TogglePanel
       \/ /\ SignedIn
          /\ \/ ClickRoute
             \/ ChangeSopId
             \/ \E e \in Envs : HandleEnvironmentChange(e)
             \/ HandleSend
             \/ \E c \in panel.list : OpenRecent(c)
             \/ Back
          /\ UNCHANGED authVars

\* What the browser does when answers arrive.
AuthArrives ==
    /\ \E q \in authReqs, ok \in BOOLEAN : RefreshEnds(q, ok) \/ LoginEnds(q, ok)
    /\ UNCHANGED <<chatVars, acts>>

StartGoesOn(s) == ServerStarts(s) \/ StartArrives(s) \/ StartFails(s)

ChatGoesOn ==
    \/ \E ok \in BOOLEAN : EnvironmentsLoad(ok) \/ PanelEnvironmentsLoad(ok)
    \/ \E s \in starts : StartGoesOn(s)
    \/ \E c \in Ids : CheckEnds(c)
    \/ ServerLists \/ RecentArrive \/ RecentFail

Next == \/ UserActs
        \/ AuthArrives
        \/ SignedIn /\ ChatGoesOn /\ UNCHANGED <<authVars, acts>>

Spec == Init /\ [][Next]_vars

\* The server answers, or the connection breaks, and the browser takes the outcome.
Fairness == WF_vars(SignedIn /\ (\E s \in starts : StartGoesOn(s)) /\ UNCHANGED <<authVars, acts>>)

FairSpec == Spec /\ Fairness

\* The shape of the variables of the workspace.
WorkspaceTypeOK == AuthTypeOK /\ ChatTypeOK /\ acts \in 0..MaxActs

=============================================================================
