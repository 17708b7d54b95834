---------------------------- MODULE AuthSession ----------------------------
(***************************************************************************)
(* The signed-in user as the browser sees it: AuthProvider, the picker     *)
(* shown to an anonymous developer and the switcher in the sidebar         *)
(* (frontend/src/features/auth). The session itself is a cookie, set by    *)
(* the answer of a login. Workspace instantiates this module.              *)
(***************************************************************************)
EXTENDS Integers, FiniteSets

CONSTANTS
    Accounts,  \* DEV_ACCOUNTS
    Admins,    \* the accounts with is_admin
    None

VARIABLES
    auth,      \* AuthState, and requestIdRef as rid
    cookie,    \* the account of the session cookie, or None
    authReqs,  \* GET /me and POST /dev-login on their way
    picker,    \* the login DevUserPicker waits for, or None
    switcher,  \* DevUserSwitcher: number of mounts, mounted now, pendingAccount
    forgotten  \* history: the sidebar was closed while its switcher waited for a login

\* StrictMode runs the effect of AuthProvider twice; both requests carry the cookie
\* of the previous visit.
Mes == {[kind |-> "me", rid |-> n, account |-> cookie, by |-> 0] : n \in {1, 2}}

AuthInit ==
    /\ cookie \in Accounts \cup {None}
    /\ auth = [status |-> "loading", user |-> None, rid |-> 2]
    /\ authReqs = Mes
    /\ picker = None
    /\ switcher = [mounts |-> 1, mounted |-> TRUE, pending |-> None]
    /\ forgotten = FALSE

Logins == {q \in authReqs : q.kind = "login"}

\* The workspace, with its sidebar, is only rendered for a user.
SignedIn == auth.status = "authenticated"
IsAdmin  == auth.user \in Admins

SetUser(user) == [auth EXCEPT !.status = "authenticated", !.user = user]
SetAnonymous  == [auth EXCEPT !.status = "anonymous", !.user = None]

-----------------------------------------------------------------------------
(* AuthProvider *)

\* requestIdRef.current === requestId
Latest(q) == q.rid = auth.rid

\* refresh: /me answers with the user, or fails; without a session it always fails.
RefreshEnds(q, ok) ==
    /\ q.kind = "me" /\ (ok => q.account # None)
    /\ auth' = IF ~Latest(q) THEN auth
               ELSE IF ok THEN SetUser(q.account) ELSE SetAnonymous
    /\ authReqs' = authReqs \ {q}
    /\ UNCHANGED <<cookie, picker, switcher, forgotten>>

\* loginAs, called by the picker (by = 0) or by the by-th mount of the switcher.
LoginAs(account, by) ==
    /\ auth' = [auth EXCEPT !.rid = @ + 1]
    /\ authReqs' = authReqs \cup
         {[kind |-> "login", rid |-> auth.rid + 1, account |-> account, by |-> by]}
    /\ UNCHANGED <<cookie, forgotten>>

\* Its answer carries the cookie, and the caller goes on whether or not it was the
\* latest. The picker stays busy after a success: the workspace replaces it.
LoginEnds(q, ok) ==
    /\ q.kind = "login"
    /\ cookie' = IF ok THEN q.account ELSE cookie
    /\ auth' = IF ok /\ Latest(q) THEN SetUser(q.account) ELSE auth
    /\ picker' = IF q.by = 0 /\ ~ok THEN None ELSE picker
    /\ switcher' = IF switcher.mounted /\ q.by = switcher.mounts
                   THEN [switcher EXCEPT !.pending = None] ELSE switcher
    /\ authReqs' = authReqs \ {q}
    /\ UNCHANGED forgotten

-----------------------------------------------------------------------------
(* The user *)

\* handleLogin; the buttons are disabled while a login is pending.
HandleLogin(account) ==
    /\ auth.status = "anonymous" /\ picker = None
    /\ picker' = account
    /\ LoginAs(account, 0)
    /\ UNCHANGED switcher

\* Mutant: the buttons stay enabled while a login is pending.
HandleSwitchAgain(account) ==
    /\ SignedIn /\ switcher.mounted
    /\ account # auth.user
    /\ switcher' = [switcher EXCEPT !.pending = account]
    /\ LoginAs(account, switcher.mounts)
    /\ UNCHANGED picker

HandleSwitch(account) ==
    /\ SignedIn /\ switcher.mounted
    /\ switcher.pending = None /\ account # auth.user
    /\ switcher' = [switcher EXCEPT !.pending = account]
    /\ LoginAs(account, switcher.mounts)
    /\ UNCHANGED picker

\* A closed sidebar does not render the switcher, which starts anew when it is opened.
ToggleSwitcher ==
    /\ switcher' = IF switcher.mounted THEN [switcher EXCEPT !.mounted = FALSE, !.pending = None]
                   ELSE [switcher EXCEPT !.mounted = TRUE, !.mounts = @ + 1]
    /\ forgotten' = (forgotten \/ switcher.pending # None)
    /\ UNCHANGED <<auth, cookie, authReqs, picker>>

-----------------------------------------------------------------------------
(* Properties *)

AuthTypeOK ==
    /\ cookie \in Accounts \cup {None}
    /\ auth \in [status : {"loading", "anonymous", "authenticated"},
                 user : Accounts \cup {None}, rid : Nat]
    /\ (auth.status = "authenticated") = (auth.user # None)
    /\ authReqs \subseteq [kind : {"me", "login"}, rid : 1..auth.rid,
                           account : Accounts \cup {None}, by : 0..switcher.mounts]
    /\ picker \in Accounts \cup {None}
    /\ switcher \in [mounts : Nat \ {0}, mounted : BOOLEAN, pending : Accounts \cup {None}]
    /\ forgotten \in BOOLEAN

\* When no login is on its way, the user that the workspace shows, and whose rights
\* decide which pages it renders, is the user of the session that the server sees.
\* The code only ensures it while the sidebar stays open during a login: a switcher that
\* is mounted again has forgotten the login, and offers another that may overtake it.
UserIsSession ==
    SignedIn /\ Logins = {} /\ ~forgotten => auth.user = cookie

-----------------------------------------------------------------------------
(* What makes it inductive *)

\* The requests of /me are older than every login, and carry the cookie that the
\* browser has until a login ends.
RequestInv ==
    /\ auth.rid >= 2
    /\ \A q \in authReqs :
         IF q.kind = "me" THEN q.rid <= 2 /\ (auth.rid = 2 => q.account = cookie)
         ELSE q.rid >= 3 /\ q.account # None

\* While no switcher has forgotten its login, at most one login is on its way: the
\* latest, and the one that the picker or the switcher waits for.
LoginInv ==
    ~forgotten =>
        /\ SignedIn => auth.user = cookie
        /\ \A q, r \in Logins : q = r
        /\ \A q \in Logins :
             /\ Latest(q)
             /\ IF SignedIn THEN /\ switcher.mounted /\ switcher.pending # None
                                 /\ q.by = switcher.mounts
                ELSE picker # None /\ q.by = 0

UserInv == AuthTypeOK /\ RequestInv /\ LoginInv

=============================================================================
