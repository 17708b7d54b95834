-------------------------- MODULE Workspace_proofs --------------------------
(***************************************************************************)
(* Proofs about Workspace: the user that the browser shows is the user of  *)
(* its session (UserInv of AuthSession), and the SOP page, its form and    *)
(* the list of recent checks agree with the router and with the starts     *)
(* that are on their way (ChatInv of SopChat).                             *)
(***************************************************************************)
EXTENDS Workspace, TLAPS

-----------------------------------------------------------------------------
(* The signed-in user *)

LEMMA UserInit == Init => UserInv
<1> SUFFICES ASSUME Init PROVE UserInv  OBVIOUS
<1>1. /\ auth = [status |-> "loading", user |-> None, rid |-> 2]
      /\ switcher = [mounts |-> 1, mounted |-> TRUE, pending |-> None]
      /\ cookie \in Accounts \cup {None} /\ picker = None /\ forgotten = FALSE
      /\ authReqs = {[kind |-> "me", rid |-> n, account |-> cookie, by |-> 0] : n \in {1, 2}}
  BY DEF Init, AuthInit, Mes
<1>2. Logins = {}  BY <1>1 DEF Logins
<1>3. AuthTypeOK
  <2>1. ASSUME NEW n \in {1, 2}
        PROVE  [kind |-> "me", rid |-> n, account |-> cookie, by |-> 0]
                 \in [kind : {"me", "login"}, rid : 1..2, account : Accounts \cup {None}, by : 0..1]
    BY <1>1
  <2>2. auth.rid = 2 /\ switcher.mounts = 1 /\ auth.status = "loading" /\ auth.user = None
    BY <1>1
  <2>3. /\ auth \in [status : {"loading", "anonymous", "authenticated"},
                     user : Accounts \cup {None}, rid : Nat]
        /\ switcher \in [mounts : Nat \ {0}, mounted : BOOLEAN, pending : Accounts \cup {None}]
    BY <1>1
  <2>4. authReqs \subseteq [kind : {"me", "login"}, rid : 1..auth.rid,
                            account : Accounts \cup {None}, by : 0..switcher.mounts]
    BY <1>1, <2>1, <2>2
  <2> QED  BY <1>1, <2>2, <2>3, <2>4 DEF AuthTypeOK
<1>4. RequestInv  BY <1>1 DEF RequestInv
<1>5. LoginInv  BY <1>1, <1>2 DEF LoginInv, SignedIn
<1> QED  BY <1>3, <1>4, <1>5 DEF UserInv

\* The answer of /me is taken before the first login only.
LEMMA RefreshKeeps ==
    ASSUME UserInv, NEW q \in authReqs, NEW ok \in BOOLEAN, RefreshEnds(q, ok)
    PROVE  UserInv'
<1> USE DEF UserInv
<1>1. /\ cookie' = cookie /\ picker' = picker /\ switcher' = switcher /\ forgotten' = forgotten
      /\ authReqs' \subseteq authReqs /\ q.kind = "me"
      /\ authReqs' = authReqs \ {q}
  BY DEF RefreshEnds
<1>2. /\ auth'.rid = auth.rid
      /\ auth' \in [status : {"loading", "anonymous", "authenticated"},
                    user : Accounts \cup {None}, rid : Nat]
      /\ (auth'.status = "authenticated") = (auth'.user # None)
      /\ auth' # auth => Latest(q) /\ (auth'.status = "authenticated" => auth'.user = q.account)
  BY DEF RefreshEnds, SetUser, SetAnonymous, AuthTypeOK
<1>3. AuthTypeOK'  BY <1>1, <1>2 DEF AuthTypeOK
<1>4. RequestInv'  BY <1>1, <1>2 DEF RequestInv
<1>5. Logins' = Logins  BY <1>1 DEF Logins
<1>6. CASE auth' = auth
  BY <1>1, <1>3, <1>4, <1>5, <1>6 DEF LoginInv, SignedIn, Latest
<1>7. CASE auth' # auth
  <2>1. auth.rid \in Nat /\ q.rid = auth.rid  BY <1>2, <1>7 DEF AuthTypeOK, Latest
  <2>2. auth.rid = 2 /\ q.account = cookie  BY <1>1, <2>1 DEF RequestInv
  <2>3. ASSUME NEW r \in Logins PROVE FALSE
    <3>1. r.rid \in 1..2 /\ r.rid >= 3  BY <2>2 DEF AuthTypeOK, RequestInv, Logins
    <3> QED  BY <3>1
  <2>4. LoginInv'  BY <1>1, <1>2, <1>5, <1>7, <2>2, <2>3 DEF LoginInv, SignedIn
  <2> QED  BY <1>3, <1>4, <2>4
<1> QED  BY <1>6, <1>7

LEMMA LoginEndKeeps ==
    ASSUME UserInv, NEW q \in authReqs, NEW ok \in BOOLEAN, LoginEnds(q, ok)
    PROVE  UserInv'
<1> USE DEF UserInv
<1>1. /\ forgotten' = forgotten /\ authReqs' = authReqs \ {q} /\ q \in Logins
      /\ q.kind = "login" /\ q.account \in Accounts \cup {None} /\ q.account # None
      /\ q.rid >= 3 /\ q.rid \in 1..auth.rid /\ auth.rid \in Nat
  BY DEF LoginEnds, AuthTypeOK, RequestInv, Logins
<1>2. /\ auth'.rid = auth.rid
      /\ auth' \in [status : {"loading", "anonymous", "authenticated"},
                    user : Accounts \cup {None}, rid : Nat]
      /\ (auth'.status = "authenticated") = (auth'.user # None)
      /\ ok /\ Latest(q) => auth'.status = "authenticated" /\ auth'.user = q.account
      /\ ~(ok /\ Latest(q)) => auth' = auth
  BY <1>1 DEF LoginEnds, SetUser, AuthTypeOK
<1>3. /\ cookie' \in Accounts \cup {None} /\ picker' \in Accounts \cup {None}
      /\ switcher' \in [mounts : Nat \ {0}, mounted : BOOLEAN, pending : Accounts \cup {None}]
      /\ switcher'.mounts = switcher.mounts
      /\ cookie' = IF ok THEN q.account ELSE cookie
  BY <1>1 DEF LoginEnds, AuthTypeOK
<1>4. AuthTypeOK'  BY <1>1, <1>2, <1>3 DEF AuthTypeOK
<1>5. RequestInv'
  <2>1. auth'.rid # 2 /\ auth'.rid >= 2  BY <1>1, <1>2
  <2> QED  BY <1>1, <2>1 DEF RequestInv
<1>6. LoginInv'
  <2>1. SUFFICES ASSUME ~forgotten PROVE LoginInv'  BY <1>1 DEF LoginInv
  <2>2. Latest(q) /\ \A r \in Logins : r = q  BY <1>1, <2>1 DEF LoginInv
  <2>3. Logins' = {}  BY <1>1, <2>2 DEF Logins
  <2>4. SignedIn' => auth'.user = cookie'
    BY <1>2, <1>3, <2>1, <2>2 DEF SignedIn, LoginInv
  <2> QED  BY <2>3, <2>4 DEF LoginInv
<1> QED  BY <1>4, <1>5, <1>6

\* A login starts when the picker or the switcher waits for none.
LEMMA LoginStartKeeps ==
    ASSUME UserInv, NEW a \in Accounts, NEW by, by \in 0..switcher.mounts, LoginAs(a, by),
           switcher' \in [mounts : Nat \ {0}, mounted : BOOLEAN, pending : Accounts \cup {None}],
           switcher'.mounts = switcher.mounts, picker' \in Accounts \cup {None},
           ~forgotten => Logins = {},
           IF SignedIn THEN switcher'.mounted /\ switcher'.pending # None /\ by = switcher.mounts
           ELSE picker' # None /\ by = 0
    PROVE  UserInv'
<1> USE DEF UserInv
<1>1. PICK q : /\ q = [kind |-> "login", rid |-> auth.rid + 1, account |-> a, by |-> by]
               /\ authReqs' = authReqs \cup {q}
  BY DEF LoginAs
<1>2. /\ auth' = [auth EXCEPT !.rid = @ + 1] /\ cookie' = cookie /\ forgotten' = forgotten
  BY DEF LoginAs
<1>3. /\ auth.rid \in Nat /\ auth'.rid = auth.rid + 1 /\ auth'.status = auth.status
      /\ auth'.user = auth.user
      /\ auth' \in [status : {"loading", "anonymous", "authenticated"},
                    user : Accounts \cup {None}, rid : Nat]
  BY <1>2 DEF AuthTypeOK
<1>4. /\ q.kind = "login" /\ q.rid = auth'.rid /\ q.account = a /\ q.by = by
  BY <1>1, <1>3
<1>5. AuthTypeOK'
  <2>1. q \in [kind : {"me", "login"}, rid : 1..auth'.rid,
               account : Accounts \cup {None}, by : 0..switcher'.mounts]
    BY <1>1, <1>3
  <2>2. ASSUME NEW r \in authReqs
        PROVE  r \in [kind : {"me", "login"}, rid : 1..auth'.rid,
                      account : Accounts \cup {None}, by : 0..switcher'.mounts]
    BY <1>3 DEF AuthTypeOK
  <2>3. authReqs' \subseteq [kind : {"me", "login"}, rid : 1..auth'.rid,
                             account : Accounts \cup {None}, by : 0..switcher'.mounts]
    BY <1>1, <2>1, <2>2
  <2>4. /\ (auth'.status = "authenticated") = (auth'.user # None)
        /\ cookie' \in Accounts \cup {None} /\ forgotten' \in BOOLEAN
    BY <1>2, <1>3 DEF AuthTypeOK
  <2> QED  BY <1>3, <2>3, <2>4 DEF AuthTypeOK
<1>6. RequestInv'
  <2>1. auth.rid >= 2 /\ auth'.rid >= 3 /\ auth'.rid # 2  BY <1>3 DEF RequestInv
  <2>2. a # None  BY WorkspaceAssumption
  <2>3. ASSUME NEW r \in authReqs
        PROVE  IF r.kind = "me" THEN r.rid <= 2 ELSE r.rid >= 3 /\ r.account # None
    BY DEF RequestInv
  <2>4. q.kind # "me" /\ q.rid >= 3 /\ q.account # None  BY <1>4, <2>1, <2>2
  <2>5. ASSUME NEW r \in authReqs'
        PROVE  IF r.kind = "me" THEN r.rid <= 2 /\ (auth'.rid = 2 => r.account = cookie')
               ELSE r.rid >= 3 /\ r.account # None
    <3>1. CASE r = q  BY <2>4, <3>1
    <3>2. CASE r \in authReqs  BY <2>1, <2>3, <3>2
    <3> QED  BY <1>1, <3>1, <3>2
  <2>6. auth'.rid >= 2  BY <1>3, <2>1
  <2> QED  BY <2>5, <2>6 DEF RequestInv
<1>7. LoginInv'
  <2>1. SUFFICES ASSUME ~forgotten PROVE LoginInv'  BY <1>2 DEF LoginInv
  <2>2. Logins' = {q}  BY <1>1, <1>4, <2>1 DEF Logins
  <2>3. SignedIn' = SignedIn  BY <1>3 DEF SignedIn
  <2>4. SignedIn => auth.user = cookie  BY <2>1 DEF LoginInv
  <2> QED  BY <1>2, <1>3, <1>4, <2>2, <2>3, <2>4 DEF LoginInv, Latest
<1> QED  BY <1>5, <1>6, <1>7

LEMMA HandleLoginKeeps ==
    ASSUME UserInv, NEW a \in Accounts, HandleLogin(a)
    PROVE  UserInv'
<1>1. ~SignedIn /\ picker = None /\ picker' = a /\ switcher' = switcher /\ LoginAs(a, 0)
  BY DEF HandleLogin, SignedIn
<1>2. ~forgotten => Logins = {}  BY <1>1 DEF UserInv, LoginInv
<1>3. a # None  BY WorkspaceAssumption
<1>4. 0 \in 0..switcher.mounts  BY DEF UserInv, AuthTypeOK
<1>5. switcher' \in [mounts : Nat \ {0}, mounted : BOOLEAN, pending : Accounts \cup {None}]
  BY <1>1 DEF UserInv, AuthTypeOK
<1> QED  BY <1>1, <1>2, <1>3, <1>4, <1>5, LoginStartKeeps

LEMMA HandleSwitchKeeps ==
    ASSUME UserInv, NEW a \in Accounts, HandleSwitch(a)
    PROVE  UserInv'
<1>1. /\ SignedIn /\ switcher.mounted /\ switcher.pending = None /\ picker' = picker
      /\ switcher' = [switcher EXCEPT !.pending = a] /\ LoginAs(a, switcher.mounts)
  BY DEF HandleSwitch
<1>2. ~forgotten => Logins = {}  BY <1>1 DEF UserInv, LoginInv
<1>3. a # None  BY WorkspaceAssumption
<1>4. /\ switcher.mounts \in 0..switcher.mounts /\ switcher'.mounts = switcher.mounts
      /\ switcher'.mounted /\ switcher'.pending = a /\ picker' \in Accounts \cup {None}
      /\ switcher' \in [mounts : Nat \ {0}, mounted : BOOLEAN, pending : Accounts \cup {None}]
  BY <1>1 DEF UserInv, AuthTypeOK
<1> QED  BY <1>1, <1>2, <1>3, <1>4, LoginStartKeeps

LEMMA ToggleSwitcherKeeps ==
    ASSUME UserInv, SignedIn, ToggleSwitcher
    PROVE  UserInv'
<1> USE DEF UserInv
<1>1. /\ auth' = auth /\ cookie' = cookie /\ authReqs' = authReqs /\ picker' = picker
      /\ forgotten' = (forgotten \/ switcher.pending # None)
  BY DEF ToggleSwitcher
<1>2. /\ switcher' \in [mounts : Nat \ {0}, mounted : BOOLEAN, pending : Accounts \cup {None}]
      /\ switcher.mounts \in Nat /\ switcher'.mounts >= switcher.mounts
      /\ switcher'.mounts \in Nat
  <2>1. switcher \in [mounts : Nat \ {0}, mounted : BOOLEAN, pending : Accounts \cup {None}]
    BY DEF AuthTypeOK
  <2>2. CASE switcher.mounted
    <3>1. switcher' = [switcher EXCEPT !.mounted = FALSE, !.pending = None]
      BY <2>2 DEF ToggleSwitcher
    <3>2. switcher' \in [mounts : Nat \ {0}, mounted : BOOLEAN, pending : Accounts \cup {None}]
      BY <2>1, <3>1
    <3>3. switcher'.mounts = switcher.mounts /\ switcher.mounts \in Nat  BY <2>1, <3>1
    <3> QED  BY <3>2, <3>3
  <2>3. CASE ~switcher.mounted
    <3>1. PICK n : n = switcher.mounts + 1  OBVIOUS
    <3>2. switcher' = [switcher EXCEPT !.mounted = TRUE, !.mounts = n]
      <4>1. switcher' = [switcher EXCEPT !.mounted = TRUE, !.mounts = switcher.mounts + 1]
        BY <2>1, <2>3 DEF ToggleSwitcher
      <4> QED  BY <3>1, <4>1
    <3>3. switcher.mounts \in Nat /\ n \in Nat \ {0} /\ n >= switcher.mounts  BY <2>1, <3>1
    <3>4. switcher' \in [mounts : Nat \ {0}, mounted : BOOLEAN, pending : Accounts \cup {None}]
      BY <2>1, <3>2, <3>3
    <3>5. switcher'.mounts = n  BY <2>1, <3>2
    <3> QED  BY <3>3, <3>4, <3>5
  <2> QED  BY <2>2, <2>3
<1>3. AuthTypeOK'
  <2>1. ASSUME NEW n \in 0..switcher.mounts PROVE n \in 0..switcher'.mounts  BY <1>2
  <2>2. authReqs' \subseteq [kind : {"me", "login"}, rid : 1..auth'.rid,
                             account : Accounts \cup {None}, by : 0..switcher'.mounts]
    BY <1>1, <2>1 DEF AuthTypeOK
  <2>3. forgotten' \in BOOLEAN  BY <1>1 DEF AuthTypeOK
  <2> QED  BY <1>1, <1>2, <2>2, <2>3 DEF AuthTypeOK
<1>4. RequestInv'  BY <1>1 DEF RequestInv
<1>5. LoginInv'
  <2>1. SUFFICES ASSUME ~forgotten, switcher.pending = None PROVE LoginInv'
    BY <1>1 DEF LoginInv
  <2>2. Logins = {} /\ auth.user = cookie  BY <2>1 DEF LoginInv
  <2> QED  BY <1>1, <2>2 DEF LoginInv, Logins
<1> QED  BY <1>3, <1>4, <1>5

LEMMA UserStands ==
    ASSUME UserInv, UNCHANGED authVars
    PROVE  UserInv'
BY DEF authVars, UserInv, AuthTypeOK, RequestInv, LoginInv, Logins, SignedIn, Latest

LEMMA UserNext == UserInv /\ [Next]_vars => UserInv'
<1> SUFFICES ASSUME UserInv, [Next]_vars PROVE UserInv'  OBVIOUS
<1>1. CASE UNCHANGED vars  BY <1>1, UserStands DEF vars
<1>2. CASE UserActs
  BY <1>2, HandleLoginKeeps, HandleSwitchKeeps, ToggleSwitcherKeeps, UserStands DEF UserActs
<1>3. CASE AuthArrives  BY <1>3, RefreshKeeps, LoginEndKeeps DEF AuthArrives
<1>4. CASE SignedIn /\ ChatGoesOn /\ UNCHANGED <<authVars, acts>>  BY <1>4, UserStands
<1> QED  BY <1>1, <1>2, <1>3, <1>4 DEF Next

\* In every state, while no closed switcher has forgotten its login, there is at most one
\* login on its way, the latest one, and the user shown is the user of the cookie.
THEOREM User == Spec => []UserInv
BY UserInit, UserNext, PTL DEF Spec

\* The user that the workspace shows is the user of the session when no login is on its
\* way, for every order of /me, logins and failures: AuthProvider of AuthContext.tsx
\* drops every answer that is not the latest.
THEOREM SessionUser == Spec => []UserIsSession
<1>1. UserInv => UserIsSession  BY DEF UserInv, LoginInv, UserIsSession
<1> QED  BY <1>1, User, PTL

-----------------------------------------------------------------------------
(* The page: what happens to its route, its form and its starts *)

\* Two addresses with the same page and check are the same.
LEMMA SameAddress ==
    ASSUME NEW n \in Nat, NEW a \in Addresses(n), NEW b \in Addresses(n),
           a.page = b.page, a.check = b.check
    PROVE  a = b
BY DEF Addresses

\* A check is not nothing.
LEMMA SomeCheck ==
    ASSUME NEW n \in Nat, NEW c \in 1..n
    PROVE  c # None
BY WorkspaceAssumption

\* What the page does without its route or its starts.
LEMMA PageStands ==
    ASSUME PageInv, route' = route, starts' = starts, wish' = wish,
           chat'.observed = chat.observed, chat'.rid = chat.rid, chat'.starting = chat.starting
    PROVE  PageInv'
BY DEF PageInv, ShownIsRouted, StartingHasRequest, StartInv, OnPage, Passes

\* The refs move on, and no start is the latest any more.
LEMMA PageMovesOn ==
    ASSUME PageInv, starts' = starts, starts \subseteq Starts(Len(checks)),
           chat.rid \in Nat, chat'.rid = chat.rid + 1, chat'.starting = FALSE,
           route'.page = route.page,
           ShownIsRouted'
    PROVE  PageInv'
<1> USE DEF PageInv
<1>1. ASSUME NEW s \in starts, ~s.orphan
      PROVE  OnPage' /\ s.rid <= chat'.rid /\ s.rid # chat'.rid
  <2>1. OnPage /\ s.rid <= chat.rid /\ s.rid \in Nat  BY <1>1 DEF StartInv, Starts
  <2> QED  BY <2>1 DEF OnPage
<1>2. StartingHasRequest'  BY <1>1 DEF StartingHasRequest
<1>3. StartInv'
  <2>1. \A s, t \in starts' : ~s.orphan /\ ~t.orphan /\ s.rid = t.rid => s = t  BY DEF StartInv
  <2> QED  BY <1>1, <2>1 DEF StartInv, Passes
<1> QED  BY <1>2, <1>3

\* A start leaves; the form stops waiting if it was the latest, and may show a check.
LEMMA StartLeaves ==
    ASSUME PageInv, NEW s \in starts, starts' = starts \ {s}, wish' = wish,
           chat'.rid = chat.rid,
           chat'.starting = IF ~s.orphan /\ s.rid = chat.rid THEN FALSE ELSE chat.starting,
           chat'.observed = chat.observed \/ chat'.observed # None,
           route'.page = route.page, ShownIsRouted'
    PROVE  PageInv'
<1> USE DEF PageInv
<1>1. StartingHasRequest'
  <2>1. SUFFICES ASSUME OnPage
                 PROVE  chat'.starting <=> \E t \in starts' : ~t.orphan /\ t.rid = chat'.rid
    BY DEF StartingHasRequest, OnPage
  <2>2. CASE ~s.orphan /\ s.rid = chat.rid
    <3>1. ASSUME NEW t \in starts', ~t.orphan, t.rid = chat'.rid PROVE FALSE
      BY <2>2, <3>1 DEF StartInv
    <3> QED  BY <2>2, <3>1
  <2>3. CASE ~(~s.orphan /\ s.rid = chat.rid)
    BY <2>1, <2>3 DEF StartingHasRequest
  <2> QED  BY <2>2, <2>3
<1>2. StartInv'
  <2>1. ASSUME NEW t \in starts', ~t.orphan
        PROVE  /\ OnPage' /\ t.rid <= chat'.rid
               /\ Passes(t)' => wish' = [mount |-> t.mount, rid |-> t.rid]
    BY <2>1 DEF StartInv, OnPage, Passes
  <2>2. \A t, u \in starts' : ~t.orphan /\ ~u.orphan /\ t.rid = u.rid => t = u  BY DEF StartInv
  <2> QED  BY <2>1, <2>2 DEF StartInv, Passes
<1> QED  BY <1>1, <1>2

\* Starts that lose their page keep their shape.
LEMMA OrphansShape ==
    ASSUME NEW n, NEW ss, ss \subseteq Starts(n), chat \in Chats(n)
    PROVE  /\ Orphans(ss) \subseteq Starts(n)
           /\ \A s \in Orphans(ss) : s.orphan
<1>1. ASSUME NEW s \in ss, ~s.orphan
      PROVE  Orphan(s) \in Starts(n) /\ Orphan(s).orphan
  BY DEF Orphan, Starts, Passes
<1> QED  BY <1>1 DEF Orphans, Starts

\* A page is shown: the page that was there follows its address, a page that is new
\* starts afresh, and one that leaves takes the starts from the form.
LEMMA ShowKeeps ==
    ASSUME ChatTypeOK, PageInv, NEW to \in Addresses(Len(checks)),
           NEW ss, ss \subseteq starts, \A s \in starts : ~s.orphan => s \in ss,
           Show(to, ss), to = route /\ to.check = None => wish' = wish
    PROVE  /\ route' \in Addresses(Len(checks)) /\ chat' \in Chats(Len(checks))
           /\ starts' \subseteq Starts(Len(checks)) /\ PageInv'
<1> USE DEF PageInv
<1>1. PICK n \in Nat : n = Len(checks)  BY DEF ChatTypeOK
<1>2. /\ to \in Addresses(n) /\ route \in Addresses(n) /\ chat \in Chats(n)
      /\ starts \subseteq Starts(n) /\ route' = to /\ ss \subseteq Starts(n)
      /\ to.check \in 1..n \cup {None} /\ to.page \in {"sop", "admin"}
  BY <1>1 DEF ChatTypeOK, Show, Addresses
<1>3. CASE to.page = route.page
  <2>1. chat' = Observe(to.check) /\ starts' = ss  BY <1>3 DEF Show
  <2>2. /\ chat' \in Chats(n) /\ chat'.rid = chat.rid /\ chat'.starting = chat.starting
        /\ chat' = chat \/ (chat'.observed = to.check /\ to.check # None)
        /\ to.check # None /\ to.check # route.check => chat'.observed = to.check
        /\ to.check = None \/ to.check = route.check => chat' = chat
    BY <1>2, <2>1 DEF Observe, Chats
  <2>3. ShownIsRouted'  BY <1>2, <1>3, <2>2 DEF ShownIsRouted, OnPage
  <2>4. StartingHasRequest'
    BY <1>2, <1>3, <2>1, <2>2 DEF StartingHasRequest, OnPage
  <2>5. ASSUME NEW s \in starts', ~s.orphan
        PROVE  /\ OnPage' /\ s.rid <= chat'.rid
               /\ s.rid = chat'.rid /\ chat'.observed = None
                    => wish' = [mount |-> s.mount, rid |-> s.rid]
    <3>1. /\ s \in starts /\ OnPage /\ s.rid <= chat.rid
          /\ s.rid = chat.rid /\ chat.observed = None
               => wish = [mount |-> s.mount, rid |-> s.rid]
      BY <2>1, <2>5 DEF StartInv, Passes
    <3>2. ASSUME chat'.observed = None
          PROVE  chat' = chat /\ to = route /\ to.check = None
      <4>1. chat' = chat /\ (to.check = None \/ to.check = route.check)  BY <2>2, <3>2
      <4>2. route.check = None  BY <3>1, <3>2, <4>1 DEF ShownIsRouted
      <4> QED  BY <1>2, <1>3, <4>1, <4>2, SameAddress
    <3> QED  BY <1>2, <1>3, <2>2, <3>1, <3>2 DEF OnPage
  <2>6. \A s, t \in starts' : ~s.orphan /\ ~t.orphan /\ s.rid = t.rid => s = t
    BY <2>1 DEF StartInv
  <2>7. StartInv'  BY <2>5, <2>6 DEF StartInv, Passes
  <2> QED  BY <1>1, <1>2, <2>1, <2>2, <2>3, <2>4, <2>7
<1>4. CASE to.page # route.page /\ to.page = "sop"
  <2>1. chat' = NewChat(chat.mount + 1, to.check) /\ starts' = ss  BY <1>4 DEF Show
  <2>2. /\ chat' \in Chats(n) /\ chat'.starting = FALSE /\ chat'.observed = to.check
    <3>1. chat.mount + 1 \in Nat  BY <1>2 DEF Chats
    <3> QED  BY <1>2, <2>1, <3>1 DEF NewChat, Chats
  <2>3. \A s \in starts' : s.orphan  BY <1>4, <2>1 DEF StartInv, OnPage
  <2>4. StartingHasRequest' /\ StartInv'  BY <2>2, <2>3 DEF StartingHasRequest, StartInv
  <2>5. ShownIsRouted'  BY <1>2, <2>2 DEF ShownIsRouted
  <2> QED  BY <1>1, <1>2, <2>1, <2>2, <2>4, <2>5
<1>5. CASE to.page # route.page /\ to.page # "sop"
  <2>1. chat' = chat /\ starts' = Orphans(ss)  BY <1>5 DEF Show
  <2>2. starts' \subseteq Starts(n) /\ \A s \in starts' : s.orphan
    BY <1>2, <2>1, OrphansShape
  <2>3. ~OnPage'  BY <1>2, <1>5 DEF OnPage
  <2>4. ShownIsRouted' /\ StartingHasRequest' /\ StartInv'
    BY <2>2, <2>3 DEF ShownIsRouted, StartingHasRequest, StartInv
  <2> QED  BY <1>1, <1>2, <2>1, <2>2, <2>4
<1> QED  BY <1>3, <1>4, <1>5

\* The form is sent: its start is the latest, and the user's wish.
LEMMA SendKeeps ==
    ASSUME ChatTypeOK, PageInv, HandleSend
    PROVE  /\ chat' \in Chats(Len(checks)) /\ starts' \subseteq Starts(Len(checks))
           /\ wish' \in [mount : Nat, rid : Nat] \cup {None}
           /\ PageInv'
<1> USE DEF PageInv
<1>1. PICK k : k = chat.rid + 1  OBVIOUS
<1>2. chat \in Chats(Len(checks)) /\ starts \subseteq Starts(Len(checks))  BY DEF ChatTypeOK
<1>3. /\ chat.rid \in Nat /\ k \in Nat /\ k > chat.rid /\ chat.mount \in Nat
      /\ chat.env \in Envs
  <2>1. chat.env # None  BY DEF HandleSend, CanSend
  <2> QED  BY <1>1, <1>2, <2>1 DEF Chats
<1>4. /\ chat' = [chat EXCEPT !.rid = k, !.starting = TRUE, !.error = FALSE]
      /\ route' = route /\ OnPage /\ chat.observed = None /\ ~chat.starting
  BY <1>1, <1>2 DEF HandleSend, FormShown, Chats
<1>5. /\ chat' \in Chats(Len(checks)) /\ chat'.rid = k /\ chat'.starting = TRUE
      /\ chat'.observed = chat.observed
  BY <1>2, <1>3, <1>4 DEF Chats
<1>6. PICK new : /\ new = [mount |-> chat.mount, rid |-> k, env |-> chat.env, answer |-> None,
                           orphan |-> FALSE, passes |-> FALSE]
                 /\ starts' = starts \cup {new}
  BY <1>5 DEF HandleSend
<1>7. wish' = [mount |-> chat.mount, rid |-> k]  BY <1>5 DEF HandleSend
<1>8. new \in Starts(Len(checks)) /\ ~new.orphan /\ new.rid = k /\ new.mount = chat.mount
  BY <1>3, <1>6 DEF Starts
<1>9. ShownIsRouted'  BY <1>4, <1>5 DEF ShownIsRouted, OnPage
<1>10. StartingHasRequest'  BY <1>5, <1>6, <1>8 DEF StartingHasRequest
<1>11. ASSUME NEW s \in starts, ~s.orphan
       PROVE  s.rid <= k /\ s.rid # k
  <2>1. s.rid \in Nat /\ s.rid <= chat.rid  BY <1>2, <1>11 DEF StartInv, Starts
  <2> QED  BY <1>3, <2>1
<1>12. StartInv'
  <2>1. ASSUME NEW s \in starts', ~s.orphan
        PROVE  /\ OnPage' /\ s.rid <= chat'.rid
               /\ s.rid = chat'.rid => wish' = [mount |-> s.mount, rid |-> s.rid]
    <3>1. CASE s = new  BY <1>3, <1>4, <1>5, <1>7, <1>8, <3>1 DEF OnPage
    <3>2. CASE s \in starts  BY <1>4, <1>5, <1>11, <2>1, <3>2 DEF OnPage
    <3> QED  BY <1>6, <3>1, <3>2
  <2>2. ASSUME NEW s \in starts', NEW t \in starts', ~s.orphan, ~t.orphan, s.rid = t.rid
        PROVE  s = t
    <3>1. CASE s \in starts /\ t \in starts  BY <2>2, <3>1 DEF StartInv
    <3>2. CASE s = new \/ t = new  BY <1>6, <1>8, <1>11, <2>2, <3>2
    <3> QED  BY <1>6, <3>1, <3>2
  <2> QED  BY <2>1, <2>2 DEF StartInv, Passes
<1> QED  BY <1>2, <1>3, <1>5, <1>6, <1>7, <1>8, <1>9, <1>10, <1>12

\* The server has answered a start, which goes on with the answer.
LEMMA AnsweredKeeps ==
    ASSUME PageInv, NEW n \in Nat, starts \subseteq Starts(n), NEW s \in starts,
           NEW c \in 1..n, starts' = (starts \ {s}) \cup {[s EXCEPT !.answer = c]},
           route' = route, chat' = chat, wish' = wish
    PROVE  starts' \subseteq Starts(n) /\ PageInv'
<1> USE DEF PageInv
<1>1. PICK t : t = [s EXCEPT !.answer = c]  OBVIOUS
<1>2. /\ t \in Starts(n) /\ t.orphan = s.orphan /\ t.rid = s.rid /\ t.mount = s.mount
  BY <1>1 DEF Starts
<1>3. ShownIsRouted'  BY DEF ShownIsRouted, OnPage
<1>4. StartingHasRequest'
  <2>1. (\E u \in starts' : ~u.orphan /\ u.rid = chat.rid)
          <=> \E u \in starts : ~u.orphan /\ u.rid = chat.rid
    BY <1>1, <1>2
  <2> QED  BY <2>1 DEF StartingHasRequest, OnPage
<1>5. StartInv'
  <2>1. ASSUME NEW u \in starts', ~u.orphan
        PROVE  /\ OnPage' /\ u.rid <= chat'.rid
               /\ u.rid = chat'.rid /\ chat'.observed = None
                    => wish' = [mount |-> u.mount, rid |-> u.rid]
    BY <1>1, <1>2, <2>1, ZenonT(60) DEF StartInv, OnPage, Passes
  <2>2. ASSUME NEW u \in starts', NEW v \in starts', ~u.orphan, ~v.orphan, u.rid = v.rid
        PROVE  u = v
    <3>1. CASE u = t
      <4>1. CASE v \in starts \ {s}  BY <1>2, <2>2, <3>1, <4>1 DEF StartInv
      <4> QED  BY <1>1, <3>1, <4>1
    <3>2. CASE u \in starts \ {s}
      <4>1. CASE v = t  BY <1>2, <2>2, <3>2, <4>1 DEF StartInv
      <4>2. CASE v \in starts \ {s}  BY <2>2, <3>2, <4>2 DEF StartInv
      <4> QED  BY <1>1, <4>1, <4>2
    <3> QED  BY <1>1, <3>1, <3>2
  <2> QED  BY <2>1, <2>2 DEF StartInv, Passes
<1> QED  BY <1>1, <1>2, <1>3, <1>4, <1>5

-----------------------------------------------------------------------------
(* The checks of the server and the list in the sidebar *)

\* A sequence over a set is one over a larger set.
LEMMA WiderSeq ==
    ASSUME NEW S, NEW T, S \subseteq T, NEW w \in Seq(S)
    PROVE  w \in Seq(T)
<1>1. w \in [1..Len(w) -> S] /\ Len(w) \in Nat  OBVIOUS
<1>2. w \in [1..Len(w) -> T]  BY <1>1
<1> QED  BY <1>1, <1>2

\* The shapes with one check more.
LEMMA Wider ==
    ASSUME NEW n \in Nat
    PROVE  /\ Addresses(n) \subseteq Addresses(n + 1) /\ Chats(n) \subseteq Chats(n + 1)
           /\ Starts(n) \subseteq Starts(n + 1) /\ Panels(n) \subseteq Panels(n + 1)
<1>1. 1..n \subseteq 1..(n + 1)  OBVIOUS
<1>2. Addresses(n) \subseteq Addresses(n + 1)  BY <1>1 DEF Addresses
<1>3. Chats(n) \subseteq Chats(n + 1)  BY <1>1 DEF Chats
<1>4. Starts(n) \subseteq Starts(n + 1)  BY <1>1 DEF Starts
<1>5. Panels(n) \subseteq Panels(n + 1)  BY <1>1 DEF Panels
<1> QED  BY <1>2, <1>3, <1>4, <1>5

\* A new check comes after those that are there.
LEMMA NewCheck ==
    ASSUME NEW w \in Seq(Checks), NEW e \in Checks, NEW v, v = Append(w, e)
    PROVE  /\ v \in Seq(Checks) /\ Len(v) = Len(w) + 1
           /\ \A c \in 1..Len(w) : v[c] = w[c]
OBVIOUS

\* The list does not depend on anything else.
LEMMA PanelStands ==
    ASSUME PanelInv, panel' = panel, shown' = shown,
           \A c \in shown : checks'[c].env = checks[c].env
    PROVE  PanelInv'
<1>1. StartedHere' = StartedHere  BY DEF StartedHere
<1> QED  BY <1>1 DEF PanelInv, RecentCatchesUp

\* A refresh: what is loaded then has what is shown now.
LEMMA RefreshedPanel ==
    ASSUME ChatTypeOK, PanelInv, panel' = Refresh(panel)
    PROVE  panel' \in Panels(Len(checks)) /\ PanelInv'
<1>1. panel \in Panels(Len(checks))  BY DEF ChatTypeOK
<1>2. FirstEnv # None  BY WorkspaceAssumption
<1>3. CASE panel.open /\ panel.env # None
  <2>1. panel' = [panel EXCEPT !.loading = TRUE, !.error = FALSE, !.list = {}, !.answer = None]
    BY <1>3 DEF Refresh
  <2>2. /\ panel' \in Panels(Len(checks)) /\ panel'.open = panel.open /\ panel'.env = panel.env
        /\ panel'.envs = panel.envs /\ panel'.loading = TRUE /\ panel'.answer = None
    BY <1>1, <2>1 DEF Panels
  <2>3. panel.env = FirstEnv  BY <1>1, <1>3 DEF Panels
  <2> QED  BY <1>3, <2>2, <2>3 DEF PanelInv, RecentCatchesUp
<1>4. CASE ~(panel.open /\ panel.env # None)
  <2>1. panel' = panel  BY <1>4 DEF Refresh
  <2>2. panel.envs # "ready" /\ panel.loading = FALSE /\ panel.answer = None
    BY <1>1, <1>2, <1>4 DEF PanelInv, Panels
  <2> QED  BY <1>1, <2>1, <2>2 DEF PanelInv, RecentCatchesUp
<1> QED  BY <1>3, <1>4

\* A panel that has just been mounted, or is not there.
LEMMA EmptyPanel ==
    ASSUME NEW n, NEW o \in BOOLEAN, NEW e \in {"loading", "unmounted"}
    PROVE  [open |-> o, envs |-> e, env |-> None, loading |-> FALSE, error |-> FALSE,
            list |-> {}, answer |-> None] \in Panels(n)
<1>1. {} \in SUBSET (1..n) /\ None \in [list : SUBSET (1..n)] \cup {None}  OBVIOUS
<1> QED  BY <1>1 DEF Panels

LEMMA ToggledPanel ==
    ASSUME TogglePanel
    PROVE  panel' \in Panels(Len(checks)) /\ PanelInv'
<1>1. PICK p : p = panel'  OBVIOUS
<1>2. \/ p = [open |-> TRUE, envs |-> "loading", env |-> None, loading |-> FALSE,
              error |-> FALSE, list |-> {}, answer |-> None]
      \/ p = [open |-> FALSE, envs |-> "unmounted", env |-> None, loading |-> FALSE,
              error |-> FALSE, list |-> {}, answer |-> None]
  BY <1>1 DEF TogglePanel, NewPanel
<1>3. p \in Panels(Len(checks))  BY <1>2, EmptyPanel
<1>4. /\ p.open <=> p.envs # "unmounted"
      /\ p.envs # "ready" /\ p.loading = FALSE /\ p.answer = None
  BY <1>2
<1> QED  BY <1>1, <1>3, <1>4 DEF PanelInv, RecentCatchesUp

LEMMA PanelEnvironments ==
    ASSUME ChatTypeOK, PanelInv, NEW ok \in BOOLEAN, PanelEnvironmentsLoad(ok)
    PROVE  panel' \in Panels(Len(checks)) /\ PanelInv'
<1>1. panel \in Panels(Len(checks)) /\ panel.envs = "loading" /\ panel.open
  BY DEF ChatTypeOK, PanelInv, PanelEnvironmentsLoad
<1>2. FirstEnv # None /\ FirstEnv \in Envs  BY WorkspaceAssumption
<1>3. StartedHere' = StartedHere  BY DEF PanelEnvironmentsLoad, StartedHere
<1>4. CASE ok
  <2>1. PICK p : p = [panel EXCEPT !.envs = "ready", !.env = FirstEnv]  OBVIOUS
  <2>2. p \in Panels(Len(checks)) /\ p.open /\ p.envs = "ready" /\ p.env = FirstEnv
    BY <1>1, <1>2, <2>1 DEF Panels
  <2>3. panel' = [p EXCEPT !.loading = TRUE, !.error = FALSE, !.list = {}, !.answer = None]
    BY <1>2, <1>4, <2>1, <2>2 DEF PanelEnvironmentsLoad, Refresh
  <2>4. /\ panel' \in Panels(Len(checks)) /\ panel'.open /\ panel'.envs = "ready"
        /\ panel'.env = FirstEnv /\ panel'.loading = TRUE /\ panel'.answer = None
    BY <2>2, <2>3 DEF Panels
  <2> QED  BY <2>4 DEF PanelInv, RecentCatchesUp
<1>5. CASE ~ok
  <2>1. panel' = [panel EXCEPT !.envs = "failed"]  BY <1>5 DEF PanelEnvironmentsLoad
  <2>2. /\ panel' \in Panels(Len(checks)) /\ panel'.open /\ panel'.envs = "failed"
        /\ panel'.env = panel.env /\ panel'.loading = panel.loading
        /\ panel'.answer = panel.answer
    BY <1>1, <2>1 DEF Panels
  <2> QED  BY <1>3, <2>2 DEF PanelInv, RecentCatchesUp
<1> QED  BY <1>4, <1>5

LEMMA ListAnswered ==
    ASSUME ChatTypeOK, PanelInv, ServerLists
    PROVE  panel' \in Panels(Len(checks)) /\ PanelInv'
<1>1. panel \in Panels(Len(checks)) /\ panel.loading /\ panel.env = FirstEnv
  BY DEF ChatTypeOK, PanelInv, ServerLists
<1>2. PICK l : l = {c \in Ids : checks[c].env = panel.env}  OBVIOUS
<1>3. panel' = [panel EXCEPT !.answer = [list |-> l]]  BY <1>2 DEF ServerLists
<1>4. l \in SUBSET (1..Len(checks))  BY <1>2 DEF Ids
<1>5. StartedHere \subseteq l  BY <1>1, <1>2 DEF StartedHere, ChatTypeOK
<1>6. StartedHere' = StartedHere  BY DEF ServerLists, StartedHere
<1>7. /\ panel' \in Panels(Len(checks)) /\ panel'.open = panel.open /\ panel'.env = panel.env
      /\ panel'.envs = panel.envs /\ panel'.loading = panel.loading
      /\ panel'.answer = [list |-> l]
  BY <1>1, <1>3, <1>4 DEF Panels
<1> QED  BY <1>1, <1>5, <1>6, <1>7 DEF PanelInv, RecentCatchesUp

LEMMA ListArrived ==
    ASSUME ChatTypeOK, PanelInv, RecentArrive
    PROVE  panel' \in Panels(Len(checks)) /\ PanelInv'
<1>1. /\ panel \in Panels(Len(checks)) /\ panel.answer # None
      /\ StartedHere \subseteq panel.answer.list /\ panel.loading
  BY DEF ChatTypeOK, PanelInv, RecentArrive
<1>2. panel.answer \in [list : SUBSET (1..Len(checks))]  BY <1>1 DEF Panels
<1>3. panel' = [panel EXCEPT !.loading = FALSE, !.list = panel.answer.list, !.answer = None]
  BY DEF RecentArrive
<1>4. StartedHere' = StartedHere  BY DEF RecentArrive, StartedHere
<1>5. /\ panel' \in Panels(Len(checks)) /\ panel'.open = panel.open /\ panel'.env = panel.env
      /\ panel'.envs = panel.envs /\ panel'.loading = FALSE /\ panel'.answer = None
      /\ panel'.list = panel.answer.list
  BY <1>1, <1>2, <1>3 DEF Panels
<1> QED  BY <1>1, <1>4, <1>5 DEF PanelInv, RecentCatchesUp

LEMMA ListFailed ==
    ASSUME ChatTypeOK, PanelInv, RecentFail
    PROVE  panel' \in Panels(Len(checks)) /\ PanelInv'
<1>1. panel \in Panels(Len(checks))  BY DEF ChatTypeOK
<1>2. panel' = [panel EXCEPT !.loading = FALSE, !.error = TRUE, !.answer = None]
  BY DEF RecentFail
<1>3. /\ panel' \in Panels(Len(checks)) /\ panel'.open = panel.open /\ panel'.env = panel.env
      /\ panel'.envs = panel.envs /\ panel'.loading = FALSE /\ panel'.answer = None
      /\ panel'.error = TRUE
  BY <1>1, <1>2 DEF Panels
<1> QED  BY <1>3 DEF PanelInv, RecentCatchesUp

-----------------------------------------------------------------------------
(* The steps of the page and of the sidebar *)

LEMMA ChatInitially == Init => ChatInv
<1> SUFFICES ASSUME Init PROVE ChatInv  OBVIOUS
<1>1. /\ checks \in {<<>>} \cup [1..1 -> [env : Envs, active : BOOLEAN]]
      /\ route \in [page : {"sop"}, check : Ids \cup {None}]
      /\ past = <<>> /\ chat = NewChat(1, route.check) /\ starts = {} /\ panel = NewPanel
      /\ wish = None /\ shown = {}
  BY DEF Init, ChatInit
<1>2. checks \in Seq(Checks) /\ Len(checks) \in Nat
  <2>1. <<>> \in Seq(Checks)  OBVIOUS
  <2>2. ASSUME NEW w \in [1..1 -> Checks] PROVE w \in Seq(Checks)
    <3>1. PICK k \in Nat : k = 1  OBVIOUS
    <3>2. w \in [1..k -> Checks]  BY <3>1
    <3> QED  BY <3>2
  <2>3. checks \in Seq(Checks)  BY <1>1, <2>1, <2>2 DEF Checks
  <2> QED  BY <2>3
<1>3. route \in Addresses(Len(checks)) /\ route.check \in 1..Len(checks) \cup {None}
  BY <1>1 DEF Addresses, Ids
<1>4. /\ chat \in Chats(Len(checks)) /\ chat.observed = route.check /\ chat.starting = FALSE
  BY <1>1, <1>3 DEF NewChat, Chats
<1>5. panel \in Panels(Len(checks))  BY <1>1, EmptyPanel DEF NewPanel
<1>6. <<>> \in Seq(Addresses(Len(checks)))  OBVIOUS
<1>7. ChatTypeOK  BY <1>1, <1>2, <1>3, <1>4, <1>5, <1>6 DEF ChatTypeOK
<1>8. PageInv  BY <1>1, <1>4 DEF PageInv, ShownIsRouted, StartingHasRequest, StartInv
<1>9. /\ panel.open = TRUE /\ panel.envs = "loading" /\ panel.loading = FALSE
      /\ panel.answer = None
  BY <1>1 DEF NewPanel
<1>10. PanelInv  BY <1>9 DEF PanelInv, RecentCatchesUp
<1> QED  BY <1>7, <1>8, <1>10 DEF ChatInv

\* The user moves to an address.
LEMMA MoveKeeps ==
    ASSUME ChatInv, NEW to \in Addresses(Len(checks)), Show(to, starts),
           to = route /\ to.check = None => wish' = wish, wish' = wish \/ wish' = None,
           past' \in Seq(Addresses(Len(checks))),
           UNCHANGED <<checks, panel, shown>>
    PROVE  ChatInv'
<1> USE DEF ChatInv
<1>1. /\ route' \in Addresses(Len(checks)) /\ chat' \in Chats(Len(checks))
      /\ starts' \subseteq Starts(Len(checks)) /\ PageInv'
  BY ShowKeeps
<1>2. checks' = checks /\ panel' = panel /\ shown' = shown  OBVIOUS
<1>3. ChatTypeOK'  BY <1>1, <1>2 DEF ChatTypeOK, Ids
<1>4. PanelInv'  BY <1>2, PanelStands
<1> QED  BY <1>1, <1>3, <1>4

LEMMA PushKeeps ==
    ASSUME ChatInv, NEW to \in Addresses(Len(checks)),
           to.page # route.page \/ to.check # None,
           Push(to), wish' = None, UNCHANGED <<checks, panel, shown>>
    PROVE  ChatInv'
<1>1. past' \in Seq(Addresses(Len(checks)))
  <2>1. past' = Append(past, route)  BY DEF Push
  <2>2. past \in Seq(Addresses(Len(checks))) /\ route \in Addresses(Len(checks))
    BY DEF ChatInv, ChatTypeOK
  <2> QED  BY <2>1, <2>2
<1>2. Show(to, starts)  BY DEF Push
<1>3. ~(to = route /\ to.check = None)  OBVIOUS
<1> QED  BY <1>1, <1>2, <1>3, MoveKeeps

LEMMA NavigateKeeps ==
    ASSUME ChatInv, NEW to \in {Sop(None), Admin}, HandleNavigate(to)
    PROVE  ChatInv'
<1>1. to \in Addresses(Len(checks))  BY DEF Addresses, Sop, Admin
<1>2. /\ to.page # route.page /\ Push(to) /\ wish' = None /\ UNCHANGED <<checks, panel, shown>>
  BY DEF HandleNavigate
<1> QED  BY <1>1, <1>2, PushKeeps

LEMMA OpenKeeps ==
    ASSUME ChatInv, NEW c, OpenRecent(c)
    PROVE  ChatInv'
<1>1. c \in 1..Len(checks) /\ Len(checks) \in Nat
  <2>1. panel \in Panels(Len(checks)) /\ Len(checks) \in Nat  BY DEF ChatInv, ChatTypeOK
  <2>2. panel.list \in SUBSET (1..Len(checks))  BY <2>1 DEF Panels
  <2> QED  BY <2>1, <2>2 DEF OpenRecent
<1>2. PICK to : to = Sop(c)  OBVIOUS
<1>3. to \in Addresses(Len(checks)) /\ to.check = c  BY <1>1, <1>2 DEF Addresses, Sop
<1>4. c # None  BY <1>1, SomeCheck
<1>5. Push(to) /\ wish' = None /\ UNCHANGED <<checks, panel, shown>>  BY <1>2 DEF OpenRecent
<1> QED  BY <1>3, <1>4, <1>5, PushKeeps

\* The entries before the last one.
LEMMA BackShape ==
    ASSUME NEW S, NEW w \in Seq(S), w # <<>>
    PROVE  Last(w) \in S /\ Front(w) \in Seq(S) /\ Front(w) # w
<1>1. Len(w) \in Nat /\ Len(w) >= 1 /\ Len(w) - 1 \in Nat  OBVIOUS
<1>2. Last(w) \in S  BY <1>1 DEF Last
<1>3. SubSeq(w, 1, Len(w) - 1) \in Seq(S) /\ Len(SubSeq(w, 1, Len(w) - 1)) = Len(w) - 1
  <2>1. PICK k : k = Len(w) - 1  OBVIOUS
  <2>2. k \in Nat /\ k <= Len(w) /\ \A i \in 1..k : w[i] \in S  BY <1>1, <2>1
  <2>3. SubSeq(w, 1, k) \in Seq(S)  BY <2>2
  <2>4. Len(SubSeq(w, 1, k)) = k  BY <2>2
  <2> QED  BY <2>1, <2>3, <2>4
<1>4. Front(w) # w  BY <1>1, <1>3 DEF Front
<1> QED  BY <1>2, <1>3, <1>4 DEF Front

LEMMA BackKeeps ==
    ASSUME ChatInv, Back
    PROVE  ChatInv'
<1>1. /\ past # <<>> /\ past \in Seq(Addresses(Len(checks))) /\ past' = Front(past)
      /\ Show(Last(past), starts) /\ wish' = (IF Last(past) = route THEN wish ELSE None)
      /\ UNCHANGED <<checks, panel, shown>>
  BY DEF Back, ChatInv, ChatTypeOK
<1>2. PICK to \in Addresses(Len(checks)) : to = Last(past)  BY <1>1, BackShape
<1>3. past' \in Seq(Addresses(Len(checks)))  BY <1>1, BackShape
<1>4. /\ Show(to, starts) /\ (to = route => wish' = wish) /\ (wish' = wish \/ wish' = None)
  BY <1>1, <1>2
<1> QED  BY <1>1, <1>2, <1>3, <1>4, MoveKeeps


\* A step of the page that leaves everything but the page alone.
LEMMA PageStep ==
    ASSUME ChatInv, UNCHANGED <<checks, past, panel, shown>>, PageInv',
           route' \in Addresses(Len(checks)), chat' \in Chats(Len(checks)),
           starts' \subseteq Starts(Len(checks)),
           wish' \in [mount : Nat, rid : Nat] \cup {None}
    PROVE  ChatInv'
<1>1. checks' = checks /\ past' = past /\ panel' = panel /\ shown' = shown  OBVIOUS
<1>2. ChatTypeOK'  BY <1>1 DEF ChatInv, ChatTypeOK, Ids
<1>3. PanelInv'  BY <1>1, PanelStands DEF ChatInv
<1> QED  BY <1>2, <1>3 DEF ChatInv

\* A step of the panel that leaves everything else alone.
LEMMA PanelStep ==
    ASSUME ChatInv, UNCHANGED <<checks, route, past, chat, starts, wish, shown>>,
           panel' \in Panels(Len(checks)), PanelInv'
    PROVE  ChatInv'
<1>1. /\ checks' = checks /\ route' = route /\ past' = past /\ chat' = chat
      /\ starts' = starts /\ wish' = wish /\ shown' = shown
  OBVIOUS
<1>2. ChatTypeOK'  BY <1>1 DEF ChatInv, ChatTypeOK, Ids
<1>3. PageInv'  BY <1>1, PageStands DEF ChatInv
<1> QED  BY <1>2, <1>3 DEF ChatInv

LEMMA EnvironmentsKeep ==
    ASSUME ChatInv, NEW ok \in BOOLEAN, EnvironmentsLoad(ok)
    PROVE  ChatInv'
<1>1. /\ chat \in Chats(Len(checks)) /\ route \in Addresses(Len(checks))
      /\ starts \subseteq Starts(Len(checks)) /\ wish \in [mount : Nat, rid : Nat] \cup {None}
      /\ PageInv
  BY DEF ChatInv, ChatTypeOK
<1>2. /\ chat' = [chat EXCEPT !.envs = IF ok THEN "ready" ELSE "failed",
                              !.env = IF ok THEN FirstEnv ELSE None]
      /\ UNCHANGED <<checks, route, past, starts, panel, wish, shown>>
  BY DEF EnvironmentsLoad
<1>3. /\ chat' \in Chats(Len(checks)) /\ chat'.observed = chat.observed /\ chat'.rid = chat.rid
      /\ chat'.starting = chat.starting
  BY <1>1, <1>2, WorkspaceAssumption DEF Chats
<1>4. PageInv'  BY <1>1, <1>2, <1>3, PageStands
<1> QED  BY <1>1, <1>2, <1>3, <1>4, PageStep

LEMMA SopIdKeeps ==
    ASSUME ChatInv, ChangeSopId
    PROVE  ChatInv'
<1>1. /\ chat \in Chats(Len(checks)) /\ route \in Addresses(Len(checks))
      /\ starts \subseteq Starts(Len(checks)) /\ wish \in [mount : Nat, rid : Nat] \cup {None}
      /\ PageInv
  BY DEF ChatInv, ChatTypeOK
<1>2. /\ chat' = [chat EXCEPT !.sopId = ~@]
      /\ UNCHANGED <<checks, route, past, starts, panel, wish, shown>>
  BY DEF ChangeSopId
<1>3. /\ chat' \in Chats(Len(checks)) /\ chat'.observed = chat.observed /\ chat'.rid = chat.rid
      /\ chat'.starting = chat.starting
  BY <1>1, <1>2 DEF Chats
<1>4. PageInv'  BY <1>1, <1>2, <1>3, PageStands
<1> QED  BY <1>1, <1>2, <1>3, <1>4, PageStep

LEMMA EnvironmentKeeps ==
    ASSUME ChatInv, NEW e \in Envs, HandleEnvironmentChange(e)
    PROVE  ChatInv'
<1>1. /\ chat \in Chats(Len(checks)) /\ route \in Addresses(Len(checks))
      /\ starts \subseteq Starts(Len(checks)) /\ PageInv
  BY DEF ChatInv, ChatTypeOK
<1>2. PICK k : k = chat.rid + 1  OBVIOUS
<1>3. chat.rid \in Nat /\ k \in Nat  BY <1>1, <1>2 DEF Chats
<1>4. /\ chat' = [chat EXCEPT !.rid = k, !.env = e, !.error = FALSE, !.starting = FALSE]
      /\ wish' = None /\ UNCHANGED <<checks, route, past, starts, panel, shown>>
  BY <1>1, <1>2 DEF HandleEnvironmentChange, Chats
<1>5. /\ chat' \in Chats(Len(checks)) /\ chat'.rid = k /\ chat'.starting = FALSE
      /\ chat'.observed = chat.observed
  BY <1>1, <1>3, <1>4 DEF Chats
<1>6. ShownIsRouted'  BY <1>1, <1>4, <1>5 DEF PageInv, ShownIsRouted, OnPage
<1>7. PageInv'  BY <1>1, <1>2, <1>3, <1>4, <1>5, <1>6, PageMovesOn
<1> QED  BY <1>1, <1>4, <1>5, <1>7, PageStep

LEMMA ConversationKeeps ==
    ASSUME ChatInv, HandleNewConversation
    PROVE  ChatInv'
<1>1. /\ chat \in Chats(Len(checks)) /\ route \in Addresses(Len(checks))
      /\ starts \subseteq Starts(Len(checks)) /\ PageInv
  BY DEF ChatInv, ChatTypeOK
<1>2. PICK k : k = chat.rid + 1  OBVIOUS
<1>3. chat.rid \in Nat /\ k \in Nat  BY <1>1, <1>2 DEF Chats
<1>4. /\ chat' = [chat EXCEPT !.rid = k, !.observed = None, !.error = FALSE,
                              !.starting = FALSE, !.sopId = FALSE]
      /\ wish' = None /\ UNCHANGED <<checks, past, starts, panel, shown>>
      /\ route' = Sop(None) /\ route.page = "sop"
  BY <1>1, <1>2 DEF HandleNewConversation, Chats, OnPage
<1>5. /\ chat' \in Chats(Len(checks)) /\ chat'.rid = k /\ chat'.starting = FALSE
  BY <1>1, <1>3, <1>4 DEF Chats
<1>6. route' \in Addresses(Len(checks)) /\ route'.page = "sop" /\ route'.check = None
  BY <1>4 DEF Sop, Addresses
<1>7. ShownIsRouted'  BY <1>6 DEF ShownIsRouted
<1>8. PageInv'  BY <1>1, <1>2, <1>3, <1>4, <1>5, <1>6, <1>7, PageMovesOn
<1> QED  BY <1>4, <1>5, <1>6, <1>8, <1>1, PageStep

LEMMA HandleSendKeeps ==
    ASSUME ChatInv, HandleSend
    PROVE  ChatInv'
<1>1. ChatTypeOK /\ PageInv /\ route \in Addresses(Len(checks))  BY DEF ChatInv, ChatTypeOK
<1>2. UNCHANGED <<checks, route, past, panel, shown>>  BY DEF HandleSend
<1> QED  BY <1>1, <1>2, SendKeeps, PageStep

\* A start ends without an effect on the address.
LEMMA StartEnds ==
    ASSUME ChatInv, NEW s \in starts, NEW e \in BOOLEAN,
           chat' = Settle(s) \/ chat' = [Settle(s) EXCEPT !.error = e],
           starts' = starts \ {s},
           UNCHANGED <<checks, route, past, panel, wish, shown>>
    PROVE  ChatInv'
<1>1. /\ chat \in Chats(Len(checks)) /\ route \in Addresses(Len(checks))
      /\ starts \subseteq Starts(Len(checks)) /\ wish \in [mount : Nat, rid : Nat] \cup {None}
      /\ PageInv
  BY DEF ChatInv, ChatTypeOK
<1>2. /\ chat' \in Chats(Len(checks)) /\ chat'.observed = chat.observed /\ chat'.rid = chat.rid
      /\ chat'.starting = IF ~s.orphan /\ s.rid = chat.rid THEN FALSE ELSE chat.starting
  BY <1>1 DEF Settle, Chats
<1>3. ShownIsRouted'  BY <1>1, <1>2 DEF PageInv, ShownIsRouted, OnPage
<1>4. PageInv'  BY <1>1, <1>2, <1>3, StartLeaves
<1> QED  BY <1>1, <1>2, <1>4, PageStep

LEMMA FailsKeeps ==
    ASSUME ChatInv, NEW s \in starts, StartFails(s)
    PROVE  ChatInv'
<1>1. chat' = Settle(s) \/ chat' = [Settle(s) EXCEPT !.error = TRUE]  BY DEF StartFails, Settle
<1>2. starts' = starts \ {s} /\ UNCHANGED <<checks, route, past, panel, wish, shown>>
  BY DEF StartFails
<1> QED  BY <1>1, <1>2, StartEnds

\* The page of the start accepts the answer.
LEMMA AcceptKeeps ==
    ASSUME ChatInv, NEW s \in starts, s.answer # None, Counts(s), Accept(s),
           shown' = shown \cup {s.answer}, UNCHANGED <<checks, past, wish>>
    PROVE  ChatInv'
<1>1. /\ chat \in Chats(Len(checks)) /\ route \in Addresses(Len(checks))
      /\ starts \subseteq Starts(Len(checks)) /\ wish \in [mount : Nat, rid : Nat] \cup {None}
      /\ PageInv /\ ChatTypeOK /\ PanelInv /\ Len(checks) \in Nat
  BY DEF ChatInv, ChatTypeOK
<1>2. s.answer \in 1..Len(checks)  BY <1>1 DEF Starts
<1>3. Sop(s.answer) \in Addresses(Len(checks))  BY <1>2 DEF Sop, Addresses
<1>4. /\ route' \in Addresses(Len(checks)) /\ chat' \in Chats(Len(checks))
      /\ starts' \subseteq Starts(Len(checks)) /\ PageInv'
  <2>1. CASE s.orphan
    <3>1. PICK to \in Addresses(Len(checks)) : to = Sop(s.answer)  BY <1>3
    <3>2. PICK ss : ss = starts \ {s}  OBVIOUS
    <3>3. Show(to, ss)  BY <2>1, <3>1, <3>2 DEF Accept, ShowAnswer
    <3>4. ss \subseteq starts /\ \A t \in starts : ~t.orphan => t \in ss  BY <2>1, <3>2
    <3> QED  BY <1>1, <3>3, <3>4, ShowKeeps
  <2>2. CASE ~s.orphan
    <3>1. /\ route' = Sop(s.answer) /\ starts' = starts \ {s}
          /\ chat' = [Settle(s) EXCEPT !.observed = s.answer, !.error = FALSE]
      BY <2>2 DEF Accept, ShowAnswer
    <3>2. /\ chat' \in Chats(Len(checks)) /\ chat'.observed = s.answer /\ chat'.rid = chat.rid
          /\ chat'.starting = IF ~s.orphan /\ s.rid = chat.rid THEN FALSE ELSE chat.starting
      BY <1>1, <1>2, <3>1 DEF Settle, Chats
    <3>3. OnPage  BY <1>1, <2>2 DEF PageInv, StartInv
    <3>4. route'.page = route.page /\ route'.check = s.answer  BY <3>1, <3>3 DEF Sop, OnPage
    <3>5. ShownIsRouted'  BY <3>2, <3>4 DEF ShownIsRouted
    <3>6. PageInv'  BY <1>1, <3>1, <3>2, <3>4, <3>5, StartLeaves
    <3> QED  BY <1>1, <1>3, <3>1, <3>2, <3>6
  <2> QED  BY <2>1, <2>2
<1>5. panel' \in Panels(Len(checks)) /\ PanelInv'
  BY <1>1, RefreshedPanel DEF Accept
<1>6. checks' = checks /\ past' = past /\ wish' = wish /\ shown' \subseteq 1..Len(checks)
  BY <1>1, <1>2 DEF ChatTypeOK, Ids
<1>7. ChatTypeOK'  BY <1>1, <1>4, <1>5, <1>6 DEF ChatTypeOK, Ids
<1> QED  BY <1>4, <1>5, <1>7 DEF ChatInv

LEMMA ArrivesKeeps ==
    ASSUME ChatInv, NEW s \in starts, StartArrives(s)
    PROVE  ChatInv'
<1>1. s.answer # None /\ UNCHANGED <<checks, past, wish>>  BY DEF StartArrives
<1>2. CASE Counts(s)
  <2>1. Accept(s) /\ shown' = shown \cup {s.answer}  BY <1>2 DEF StartArrives
  <2> QED  BY <1>1, <1>2, <2>1, AcceptKeeps
<1>3. CASE ~Counts(s)
  <2>1. chat' = Settle(s) /\ starts' = starts \ {s} /\ UNCHANGED <<route, panel, shown>>
    BY <1>3 DEF StartArrives
  <2>2. TRUE \in BOOLEAN /\ UNCHANGED <<checks, route, past, panel, wish, shown>>
    BY <1>1, <2>1
  <2> QED  BY <2>1, <2>2, StartEnds
<1> QED  BY <1>2, <1>3

LEMMA ServerStartsKeeps ==
    ASSUME ChatInv, NEW s \in starts, ServerStarts(s)
    PROVE  ChatInv'
<1>1. /\ chat \in Chats(Len(checks)) /\ route \in Addresses(Len(checks))
      /\ starts \subseteq Starts(Len(checks)) /\ wish \in [mount : Nat, rid : Nat] \cup {None}
      /\ PageInv /\ PanelInv /\ Len(checks) \in Nat /\ checks \in Seq(Checks)
      /\ panel \in Panels(Len(checks)) /\ past \in Seq(Addresses(Len(checks)))
      /\ shown \subseteq 1..Len(checks)
  BY DEF ChatInv, ChatTypeOK, Ids
<1>2. UNCHANGED <<route, past, chat, panel, wish, shown>>  BY DEF ServerStarts
<1>3. CASE checks' = checks /\ \E c \in 1..Len(checks) :
             starts' = (starts \ {s}) \cup {[s EXCEPT !.answer = c]}
  <2>1. PICK c \in 1..Len(checks) : starts' = (starts \ {s}) \cup {[s EXCEPT !.answer = c]}
    BY <1>3
  <2>2. starts' \subseteq Starts(Len(checks)) /\ PageInv'
    BY <1>1, <1>2, <2>1, AnsweredKeeps
  <2> QED  BY <1>1, <1>2, <1>3, <2>2, PageStep
<1>4. CASE /\ checks' = Append(checks, [env |-> s.env, active |-> TRUE])
           /\ starts' = (starts \ {s}) \cup {[s EXCEPT !.answer = Len(checks) + 1]}
  <2>1. PICK n \in Nat : n = Len(checks) + 1 /\ n \in 1..n  BY <1>1
  <2>2. [env |-> s.env, active |-> TRUE] \in Checks  BY <1>1 DEF Starts, Checks
  <2>3. /\ checks' \in Seq(Checks) /\ Len(checks') = n
        /\ \A c \in 1..Len(checks) : checks'[c] = checks[c]
    BY <1>1, <1>4, <2>1, <2>2, NewCheck
  <2>4. /\ chat \in Chats(n) /\ route \in Addresses(n) /\ starts \subseteq Starts(n)
        /\ panel \in Panels(n) /\ Addresses(Len(checks)) \subseteq Addresses(n)
    BY <1>1, <2>1, Wider
  <2>5. past \in Seq(Addresses(n))  BY <1>1, <2>4, WiderSeq
  <2>6. shown \subseteq 1..n  BY <1>1, <2>1
  <2>7. starts' \subseteq Starts(n) /\ PageInv'
    <3>1. starts' = (starts \ {s}) \cup {[s EXCEPT !.answer = n]}  BY <1>4, <2>1
    <3> QED  BY <1>1, <1>2, <2>1, <2>4, <3>1, AnsweredKeeps
  <2>8. PanelInv'
    <3>1. \A c \in shown : checks'[c].env = checks[c].env  BY <1>1, <2>3
    <3> QED  BY <1>1, <1>2, <3>1, PanelStands
  <2>9. ChatTypeOK'
    BY <1>1, <1>2, <2>3, <2>4, <2>5, <2>6, <2>7 DEF ChatTypeOK, Ids
  <2> QED  BY <2>7, <2>8, <2>9 DEF ChatInv
<1> QED  BY <1>3, <1>4 DEF ServerStarts, Ids

LEMMA CheckEndsKeeps ==
    ASSUME ChatInv, NEW c \in Ids, CheckEnds(c)
    PROVE  ChatInv'
<1>1. /\ checks \in Seq(Checks) /\ Len(checks) \in Nat /\ c \in 1..Len(checks)
      /\ shown \subseteq 1..Len(checks) /\ PageInv /\ PanelInv
  BY DEF ChatInv, ChatTypeOK, Ids
<1>2. /\ checks' = [checks EXCEPT ![c].active = FALSE]
      /\ UNCHANGED <<route, past, chat, starts, panel, wish, shown>>
  BY DEF CheckEnds
<1>3. PICK e : e = [checks[c] EXCEPT !.active = FALSE]  OBVIOUS
<1>4. checks[c] \in Checks  BY <1>1
<1>5. e \in Checks /\ e.env = checks[c].env  BY <1>3, <1>4 DEF Checks
<1>6. checks' = [checks EXCEPT ![c] = e]  BY <1>2, <1>3
<1>7. checks' \in Seq(Checks) /\ Len(checks') = Len(checks)  BY <1>1, <1>5, <1>6
<1>8. \A d \in 1..Len(checks) : checks'[d].env = checks[d].env  BY <1>1, <1>5, <1>6
<1>9. ChatTypeOK'  BY <1>1, <1>2, <1>7 DEF ChatInv, ChatTypeOK, Ids
<1>10. PageInv'  BY <1>1, <1>2, PageStands
<1>11. PanelInv'
  <2>1. \A d \in shown : checks'[d].env = checks[d].env  BY <1>1, <1>8
  <2> QED  BY <1>1, <1>2, <2>1, PanelStands
<1> QED  BY <1>9, <1>10, <1>11 DEF ChatInv

LEMMA PanelKeeps ==
    ASSUME ChatInv,
           \/ TogglePanel \/ ServerLists \/ RecentArrive \/ RecentFail
           \/ \E ok \in BOOLEAN : PanelEnvironmentsLoad(ok)
    PROVE  ChatInv'
<1>1. ChatTypeOK /\ PanelInv  BY DEF ChatInv
<1>2. panel' \in Panels(Len(checks)) /\ PanelInv'
  BY <1>1, ToggledPanel, ListAnswered, ListArrived, ListFailed, PanelEnvironments
<1>3. UNCHANGED <<checks, route, past, chat, starts, wish, shown>>
  BY DEF TogglePanel, ServerLists, RecentArrive, RecentFail, PanelEnvironmentsLoad
<1> QED  BY <1>2, <1>3, PanelStep

LEMMA ChatStands ==
    ASSUME ChatInv, UNCHANGED chatVars
    PROVE  ChatInv'
<1>1. /\ UNCHANGED <<checks, past, panel, shown>> /\ chat' = chat /\ route' = route
      /\ starts' = starts /\ wish' = wish
  BY DEF chatVars
<1>2. /\ PageInv /\ chat \in Chats(Len(checks)) /\ route \in Addresses(Len(checks))
      /\ starts \subseteq Starts(Len(checks)) /\ wish \in [mount : Nat, rid : Nat] \cup {None}
  BY DEF ChatInv, ChatTypeOK
<1>3. PageInv'  BY <1>1, <1>2, PageStands
<1> QED  BY <1>1, <1>2, <1>3, PageStep

LEMMA ChatNext == ChatInv /\ [Next]_vars => ChatInv'
<1> SUFFICES ASSUME ChatInv, [Next]_vars PROVE ChatInv'  OBVIOUS
<1>1. CASE UNCHANGED vars  BY <1>1, ChatStands DEF vars
<1>2. CASE UserActs
  <2>1. CASE UNCHANGED chatVars  BY <2>1, ChatStands
  <2>2. CASE TogglePanel  BY <2>2, PanelKeeps
  <2>3. CASE ClickRoute
    BY <2>3, ConversationKeeps, NavigateKeeps DEF ClickRoute
  <2>4. CASE ChangeSopId  BY <2>4, SopIdKeeps
  <2>5. CASE \E e \in Envs : HandleEnvironmentChange(e)  BY <2>5, EnvironmentKeeps
  <2>6. CASE HandleSend  BY <2>6, HandleSendKeeps
  <2>7. CASE \E c \in panel.list : OpenRecent(c)  BY <2>7, OpenKeeps
  <2>8. CASE Back  BY <2>8, BackKeeps
  <2> QED  BY <1>2, <2>1, <2>2, <2>3, <2>4, <2>5, <2>6, <2>7, <2>8 DEF UserActs
<1>3. CASE AuthArrives  BY <1>3, ChatStands DEF AuthArrives
<1>4. CASE ChatGoesOn
  <2>1. CASE \E ok \in BOOLEAN : EnvironmentsLoad(ok)  BY <2>1, EnvironmentsKeep
  <2>2. CASE \/ ServerLists \/ RecentArrive \/ RecentFail
             \/ \E ok \in BOOLEAN : PanelEnvironmentsLoad(ok)
    BY <2>2, PanelKeeps
  <2>3. CASE \E s \in starts : StartGoesOn(s)
    BY <2>3, ServerStartsKeeps, ArrivesKeeps, FailsKeeps DEF StartGoesOn
  <2>4. CASE \E c \in Ids : CheckEnds(c)  BY <2>4, CheckEndsKeeps
  <2> QED  BY <1>4, <2>1, <2>2, <2>3, <2>4 DEF ChatGoesOn
<1> QED  BY <1>1, <1>2, <1>3, <1>4 DEF Next

\* In every state a start that still has its page is on the page shown, is the only one with
\* its number and is wanted while the page has not moved on; the panel's list, shown or
\* on its way, has the checks started here.
THEOREM Chat == Spec => []ChatInv
BY ChatInitially, ChatNext, PTL DEF Spec

\* The page observes the check of its address, for every sequence of starts, answers,
\* openings, new conversations and steps back (the effect of ChatPage on the route).
THEOREM Routed == Spec => []ShownIsRouted
<1>1. ChatInv => ShownIsRouted  BY DEF ChatInv, PageInv
<1> QED  BY <1>1, Chat, PTL

\* The form waits exactly as long as the latest start is on its way (startRequestRef of
\* handleSend).
THEOREM Waits == Spec => []StartingHasRequest
<1>1. ChatInv => StartingHasRequest  BY DEF ChatInv, PageInv
<1> QED  BY <1>1, Chat, PTL

\* A list of recent checks that has loaded has every check started here and shown, since
\* each acceptance refreshes it (refreshRecentSopQualityChecks).
THEOREM Recent == Spec => []RecentCatchesUp
<1>1. ChatInv => RecentCatchesUp  BY DEF ChatInv, PanelInv
<1> QED  BY <1>1, Chat, PTL

-----------------------------------------------------------------------------
(* Answers and wishes *)

\* What a step that takes a start from the form without moving through the history may
\* do to the address.
Wanted == \A s \in starts \ starts' :
             route' # route /\ past' = past /\ ~s.orphan
             => wish = [mount |-> s.mount, rid |-> s.rid]

\* The history changes when the user moves.
LEMMA PushChangesPast ==
    ASSUME ChatInv, NEW to, Push(to)
    PROVE  past' # past
<1>1. past \in Seq(Addresses(Len(checks))) /\ route \in Addresses(Len(checks))
  BY DEF ChatInv, ChatTypeOK
<1>2. Len(Append(past, route)) = Len(past) + 1 /\ Len(past) \in Nat  BY <1>1
<1> QED  BY <1>2 DEF Push

LEMMA BackChangesPast ==
    ASSUME ChatInv, Back
    PROVE  past' # past
<1>1. past \in Seq(Addresses(Len(checks))) /\ past # <<>> /\ past' = Front(past)
  BY DEF ChatInv, ChatTypeOK, Back
<1> QED  BY <1>1, BackShape

LEMMA ArrivesWanted ==
    ASSUME ChatInv, NEW s \in starts, StartArrives(s)
    PROVE  Wanted
<1>1. CASE ~Counts(s)
  <2>1. route' = route  BY <1>1 DEF StartArrives
  <2> QED  BY <2>1 DEF Wanted
<1>2. CASE Counts(s) /\ ~s.orphan
  <2>1. starts' = starts \ {s}  BY <1>2 DEF StartArrives, Accept, ShowAnswer
  <2>2. wish = [mount |-> s.mount, rid |-> s.rid]
    BY <1>2 DEF ChatInv, PageInv, StartInv, Counts
  <2> QED  BY <2>1, <2>2 DEF Wanted
<1>3. CASE Counts(s) /\ s.orphan
  <2>1. Show(Sop(s.answer), starts \ {s})  BY <1>3 DEF StartArrives, Accept, ShowAnswer
  <2>2. Sop(s.answer).page = "sop"  BY DEF Sop
  <2>3. starts' = starts \ {s}  BY <2>1, <2>2 DEF Show
  <2> QED  BY <1>3, <2>3 DEF Wanted
<1> QED  BY <1>1, <1>2, <1>3

LEMMA StepWanted ==
    ASSUME ChatInv, [Next]_vars
    PROVE  Wanted
<1>1. CASE route' = route \/ past' # past \/ starts' = starts  BY <1>1 DEF Wanted
<1>2. CASE UNCHANGED vars \/ UNCHANGED chatVars
  BY <1>1, <1>2 DEF vars, chatVars
<1>3. CASE UserActs
  <2>1. CASE TogglePanel  BY <1>1, <2>1 DEF TogglePanel
  <2>2. CASE HandleNewConversation  BY <1>1, <2>2 DEF HandleNewConversation
  <2>3. CASE \E to \in {Sop(None), Admin} : HandleNavigate(to)
    BY <1>1, <2>3, PushChangesPast DEF HandleNavigate
  <2>4. CASE ChangeSopId \/ HandleSend \/ \E e \in Envs : HandleEnvironmentChange(e)
    BY <1>1, <2>4 DEF ChangeSopId, HandleSend, HandleEnvironmentChange
  <2>5. CASE \E c \in panel.list : OpenRecent(c)
    BY <1>1, <2>5, PushChangesPast DEF OpenRecent
  <2>6. CASE Back  BY <1>1, <2>6, BackChangesPast
  <2> QED
    BY <1>2, <1>3, <2>1, <2>2, <2>3, <2>4, <2>5, <2>6 DEF UserActs, ClickRoute
<1>4. CASE AuthArrives  BY <1>2, <1>4 DEF AuthArrives
<1>5. CASE ChatGoesOn
  <2>1. CASE \E s \in starts : StartArrives(s)  BY <2>1, ArrivesWanted
  <2>2. CASE \E s \in starts : ServerStarts(s) \/ StartFails(s)
    BY <1>1, <2>2 DEF ServerStarts, StartFails
  <2>3. CASE \/ ServerLists \/ RecentArrive \/ RecentFail
             \/ \E ok \in BOOLEAN : EnvironmentsLoad(ok) \/ PanelEnvironmentsLoad(ok)
             \/ \E c \in Ids : CheckEnds(c)
    BY <1>1, <2>3 DEF ServerLists, RecentArrive, RecentFail, EnvironmentsLoad,
                     PanelEnvironmentsLoad, CheckEnds
  <2> QED  BY <1>5, <2>1, <2>2, <2>3 DEF ChatGoesOn, StartGoesOn
<1> QED  BY <1>2, <1>3, <1>4, <1>5 DEF Next

\* An answer changes the address only if its start is still the user's last wish: the
\* checks of startRequestRef and observedCheckIdRef in handleSend suffice, for every
\* order of starts, answers, openings and steps back.
THEOREM WantedAnswers == Spec => AnswerIsWanted
<1>1. ChatInv /\ [Next]_vars => [Wanted]_<<route, past, starts>>  BY StepWanted
<1> QED  BY <1>1, Chat, PTL DEF Spec, AnswerIsWanted, Wanted
=============================================================================
