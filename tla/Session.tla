------------------------------ MODULE Session ------------------------------
(***************************************************************************)
(* The session of the web client: context/AuthContext.tsx, api/client.ts,  *)
(* pages/LoginPage.tsx, the routes of App.tsx and the menu of AppLayout.   *)
(*                                                                         *)
(* A tab keeps its session in React state, but sends every request with    *)
(* the token it finds in localStorage, which all tabs share.  Answers      *)
(* arrive whenever they like.  A token is the number of its login, so a    *)
(* larger number is a later session; 0 is no token.  Role and user id are  *)
(* written and removed together with the token and follow from it.         *)
(***************************************************************************)
EXTENDS Naturals, Sequences

CONSTANTS Tabs,        \* open tabs of one browser
          Users,
          RoleOf,      \* function from Users to Roles
          Granted,     \* function from Users to what the server grants them
          Paths,       \* bound: the paths an instance visits
          Callers,     \* bound: the tabs whose pages send requests of their own
          MaxLogins    \* bound on the logins of a behaviour

VARIABLES stored,      \* localStorage: token, permissions
          tab,         \* per tab: React state, path, sessionStorage, requests
          logins,      \* who each token was issued to
          expired      \* tokens past their time

vars == <<stored, tab, logins, expired>>

Roles == {"SUPERADMIN", "ADMIN", "SUBADMIN", "OPERATOR", "COURIER"}
Administration == {"SUPERADMIN", "ADMIN", "SUBADMIN"}
Office == Administration \cup {"OPERATOR"}

----------------------------------------------------------------------------
(* The three tables that must agree: routes, menu and permissions by role. *)
(* Permissions that guard only a button of a screen are left out.          *)

Routes == {
  [path |-> "/inicio",            permission |-> "dashboard.view",           roles |-> Roles],
  [path |-> "/mi-perfil",         permission |-> "profile.view",             roles |-> {}],
  [path |-> "/nueva-operacion",   permission |-> "operations.create_header", roles |-> Office],
  [path |-> "/movimientos",       permission |-> "movements.view",           roles |-> Office],
  [path |-> "/movimientos/:id",   permission |-> "movements.detail.view",    roles |-> Office],
  [path |-> "/pendientes",        permission |-> "pending.view",             roles |-> Roles],
  [path |-> "/posiciones",        permission |-> "cc.view",                  roles |-> Office],
  [path |-> "/posiciones/:id",    permission |-> "cc.view",                  roles |-> Office],
  [path |-> "/clientes",          permission |-> "clients.view",             roles |-> Roles],
  [path |-> "/cuentas",           permission |-> "accounts.view",            roles |-> Office],
  [path |-> "/posicion-caja",     permission |-> "cash_position.view",       roles |-> Office],
  [path |-> "/posicion-integral", permission |-> "cash_position.view",       roles |-> Office],
  [path |-> "/caja-arqueos",      permission |-> "cash_arqueo.view",         roles |-> Office],
  [path |-> "/divisas",           permission |-> "currencies.view",          roles |-> Office],
  [path |-> "/usuarios",          permission |-> "users.view",               roles |-> Administration],
  [path |-> "/configuracion",     permission |-> "dashboard.view",           roles |-> Roles]}

NavItems == {
  [to |-> "/inicio",            permission |-> "dashboard.view"],
  [to |-> "/nueva-operacion",   permission |-> "operations.create_header"],
  [to |-> "/movimientos",       permission |-> "movements.view"],
  [to |-> "/pendientes",        permission |-> "pending.view"],
  [to |-> "/posiciones",        permission |-> "cc.view"],
  [to |-> "/clientes",          permission |-> "clients.view"],
  [to |-> "/cuentas",           permission |-> "accounts.view"],
  [to |-> "/posicion-caja",     permission |-> "cash_position.view"],
  [to |-> "/posicion-integral", permission |-> "cash_position.view"],
  [to |-> "/caja-arqueos",      permission |-> "cash_arqueo.view"],
  [to |-> "/divisas",           permission |-> "currencies.view"],
  [to |-> "/usuarios",          permission |-> "users.view"],
  [to |-> "/configuracion",     permission |-> "dashboard.view"],
  [to |-> "/mi-perfil",         permission |-> "profile.view"]}

ScreenPermissions == {r.permission : r \in Routes}

CourierPermissions == {"dashboard.view", "clients.view", "pending.view", "profile.view"}

FallbackByRole == [r \in Roles |->
    CASE r \in Administration -> ScreenPermissions
      [] r = "OPERATOR" -> ScreenPermissions \ {"users.view"}
      [] r = "COURIER" -> CourierPermissions]

FallbackAllows(role, permission) ==
    role \in Roles /\ permission \in FallbackByRole[role]

ASSUME GrantsAreOfScreens == Granted \in [Users -> SUBSET ScreenPermissions]
ASSUME LoginsAreBounded == MaxLogins \in Nat
\* The redirects end on these; on the last one only with a role the client has
\* no fallback for.
ASSUME RedirectsHavePaths ==
    /\ {"/login", "/inicio"} \subseteq Paths
    /\ (\A u \in Users : RoleOf[u] \in Roles) \/ "/forbidden" \in Paths

\* What a session with these permissions and this role may do.  The fallback
\* counts whether or not permissions is empty.
Can(perms, role, permission, fallbackRoles) ==
    \/ permission \in perms
    \/ role \in fallbackRoles
    \/ FallbackAllows(role, permission)

----------------------------------------------------------------------------
NoPath == "none"
NothingStored == [token |-> 0, perms |-> {}]
Idle == [phase |-> "idle", header |-> 0]
Sent(token) == [phase |-> "sent", header |-> token]
Tokens == 1 .. Len(logins)
OwnerOf(token) == logins[token]
RoleShown(t) == IF tab[t].token = 0 THEN "nobody" ELSE RoleOf[OwnerOf(tab[t].token)]
Refused(header) == header = 0 \/ header \in expired

TypeOK ==
    /\ logins \in Seq(Users) /\ Len(logins) <= MaxLogins
    /\ expired \subseteq Tokens
    /\ stored \in [token : 0 .. MaxLogins, perms : SUBSET ScreenPermissions]
    /\ \A t \in Tabs :
        /\ DOMAIN tab[t] = {"token", "perms", "path", "redirect", "refresh", "call", "overlapped"}
        /\ tab[t].token \in 0 .. Len(logins)
        /\ tab[t].perms \subseteq ScreenPermissions
        /\ tab[t].path \in Paths
        /\ tab[t].redirect \in Paths \cup {NoPath}
        /\ {tab[t].refresh, tab[t].call} \subseteq {Idle} \cup {Sent(n) : n \in 0 .. Len(logins)}
        /\ tab[t].overlapped \in BOOLEAN

Init ==
    /\ stored = NothingStored
    /\ tab = [t \in Tabs |->
               [token |-> 0, perms |-> {}, path |-> "/login", redirect |-> NoPath,
                refresh |-> Idle, call |-> Idle, overlapped |-> FALSE]]
    /\ logins = <<>>
    /\ expired = {}

----------------------------------------------------------------------------
(* Routing.  App and ProtectedRoute render <Navigate> until a page stays.  *)

IsPage(p) == \E r \in Routes : r.path = p
RouteOf(p) == CHOOSE r \in Routes : r.path = p

\* The page an item of the menu leads to.
PageOf == [i \in NavItems |-> RouteOf(i.to)]

Forbidden(t) ==
    LET r == RouteOf(tab[t].path)
    IN IsPage(tab[t].path) /\ ~Can(tab[t].perms, RoleShown(t), r.permission, r.roles)

\* Mutant of RedirectOf: the route of the login page does not look at the token.
RedirectFromLogin(t) ==
    LET p == tab[t].path IN
    IF p = "/login" THEN "/inicio"
    ELSE IF tab[t].token = 0 THEN "/login"
    ELSE IF Forbidden(t) THEN IF p = "/inicio" THEN "/forbidden" ELSE "/inicio"
    ELSE p

\* Where the router sends a tab: the path itself when it renders a page there.
\* Paths without a route, and /reportes, lead to the initial page.
RedirectOf(t) ==
    LET p == tab[t].path IN
    IF tab[t].token = 0 THEN "/login"
    ELSE IF p # "/forbidden" /\ ~IsPage(p) THEN "/inicio"
    ELSE IF Forbidden(t) THEN IF p = "/inicio" THEN "/forbidden" ELSE "/inicio"
    ELSE p

Settled(t) == RedirectOf(t) = tab[t].path

Redirect(t) ==
    /\ ~Settled(t)
    /\ tab' = [tab EXCEPT ![t].path = RedirectOf(t)]
    /\ UNCHANGED <<stored, logins, expired>>

VisibleItems(t) == {i \in NavItems : Can(tab[t].perms, RoleShown(t), i.permission, {})}

\* A link of the menu or of a page, or the button that goes back.
Follow(t, p) ==
    /\ tab[t].token # 0
    /\ Settled(t)
    /\ p # tab[t].path
    /\ \/ p \in {i.to : i \in VisibleItems(t)}
       \/ p = "/inicio"
    /\ tab' = [tab EXCEPT ![t].path = p]
    /\ UNCHANGED <<stored, logins, expired>>

----------------------------------------------------------------------------
(* Entering and leaving.                                                   *)

\* The effect on auth.token: nothing while a refresh is in flight.
AfterEffect(refresh, token) ==
    IF token # 0 /\ refresh = Idle THEN Sent(token) ELSE refresh

InFlight(t) == tab[t].refresh # Idle \/ tab[t].call # Idle

\* Mutant of StoredAtLogin: localStorage is written only when it has no token.
StoredIfEmpty(token) == IF stored.token = 0 THEN [token |-> token, perms |-> {}] ELSE stored

StoredAtLogin(token) == [token |-> token, perms |-> {}]

\* handleSubmit of LoginPage, when the server accepts: login, the page the
\* previous session of the tab expired on, and the refresh of permissions.
Login(t, u) ==
    /\ tab[t].token = 0 /\ tab[t].path = "/login"
    /\ Len(logins) < MaxLogins
    /\ logins' = Append(logins, u)
    /\ LET n == Len(logins) + 1
           to == tab[t].redirect IN
        /\ stored' = StoredAtLogin(n)
        /\ tab' = [tab EXCEPT ![t] =
             [tab[t] EXCEPT !.token = n, !.perms = {},
                            !.path = IF to \in {NoPath, "/login"} THEN "/inicio" ELSE to,
                            !.redirect = NoPath,
                            !.refresh = AfterEffect(tab[t].refresh, n),
                            !.overlapped = InFlight(t)]]
    /\ UNCHANGED expired

SignedOut(session) == [session EXCEPT !.token = 0, !.perms = {}]

Logout(t) ==
    /\ tab[t].token # 0 /\ Settled(t)
    /\ stored' = NothingStored
    /\ tab' = [tab EXCEPT ![t] = SignedOut(@)]
    /\ UNCHANGED <<logins, expired>>

\* Every 401 reaches onExpired of useSessionExpiry, whichever request it answers.
OnExpired(session) ==
    [SignedOut(session) EXCEPT !.redirect = session.path, !.path = "/login"]

\* The server answers 401 to a wrong password too.
WrongPassword(t) ==
    /\ tab[t].token = 0 /\ tab[t].path = "/login"
    /\ stored' = NothingStored
    /\ tab' = [tab EXCEPT ![t] = OnExpired(@)]
    /\ UNCHANGED <<logins, expired>>

\* A page load: the state comes from localStorage, requests in flight are lost.
Reload(t) ==
    /\ tab' = [tab EXCEPT ![t] =
         [tab[t] EXCEPT !.token = stored.token, !.perms = stored.perms,
                        !.refresh = AfterEffect(Idle, stored.token), !.call = Idle,
                        !.overlapped = FALSE]]
    /\ UNCHANGED <<stored, logins, expired>>

----------------------------------------------------------------------------
(* Requests.                                                               *)

\* The permissions in the answer to a request with this token.
Received(header) == Granted[OwnerOf(header)]

\* Mutant of AfterFailure: any failure ends the session.
AfterFailureLeaves(session) == SignedOut(session)

\* The catch of refreshPermissions: the state falls back on the role, what
\* is stored stays.
AfterFailure(session) == [session EXCEPT !.perms = {}]

\* The answer to refreshPermissions is applied to whatever session the tab
\* has by now.
AnswerRefresh(t, ok) ==
    LET header == tab[t].refresh.header
        done == [tab[t] EXCEPT !.refresh = Idle] IN
    /\ tab[t].refresh # Idle
    /\ \/ /\ Refused(header)
          /\ stored' = NothingStored
          /\ tab' = [tab EXCEPT ![t] = AfterFailure(OnExpired(done))]
       \/ /\ ~Refused(header) /\ ok
          /\ stored' = [stored EXCEPT !.perms = Received(header)]
          /\ tab' = [tab EXCEPT ![t] = [done EXCEPT !.perms = Received(header)]]
       \/ /\ ~Refused(header) /\ ~ok
          /\ tab' = [tab EXCEPT ![t] = AfterFailure(done)]
          /\ UNCHANGED stored
    /\ UNCHANGED <<logins, expired>>

\* A page asks the server for something (request, downloadAuthenticated):
\* the header carries the token of localStorage, not of the state.
SendCall(t) ==
    /\ t \in Callers
    /\ tab[t].token # 0 /\ Settled(t)
    /\ tab[t].call = Idle
    /\ tab' = [tab EXCEPT ![t].call = Sent(stored.token)]
    /\ UNCHANGED <<stored, logins, expired>>

AnswerCall(t) ==
    LET done == [tab[t] EXCEPT !.call = Idle] IN
    /\ tab[t].call # Idle
    /\ \/ /\ Refused(tab[t].call.header)
          /\ stored' = NothingStored
          /\ tab' = [tab EXCEPT ![t] = OnExpired(done)]
       \/ /\ ~Refused(tab[t].call.header)
          /\ tab' = [tab EXCEPT ![t] = done]
          /\ UNCHANGED stored
    /\ UNCHANGED <<logins, expired>>

\* A token passes its time.
Expire(n) ==
    /\ n \in Tokens \ expired
    /\ expired' = expired \cup {n}
    /\ UNCHANGED <<stored, tab, logins>>

Step(t) ==
    \/ Redirect(t) \/ Logout(t) \/ WrongPassword(t) \/ Reload(t)
    \/ SendCall(t) \/ AnswerCall(t)
    \/ \E p \in Paths : Follow(t, p)
    \/ \E u \in Users : Login(t, u)
    \/ \E ok \in BOOLEAN : AnswerRefresh(t, ok)

Next ==
    \/ \E t \in Tabs : Step(t)
    \/ \E n \in 1 .. MaxLogins : Expire(n)

\* The router renders before anything else happens in the tab.
Spec == Init /\ [][Next]_vars /\ \A t \in Tabs : WF_vars(Redirect(t))

----------------------------------------------------------------------------
(* Properties                                                              *)

\* The permissions a server may grant, or none, with which the menu and the
\* routes agree for every role.
MenuAgrees ==
    {perms \in {Granted[u] : u \in Users} \cup {{}} :
        \A role \in Roles, i \in NavItems :
            Can(perms, role, i.permission, {}) <=>
                Can(perms, role, PageOf[i].permission, PageOf[i].roles)}

\* The menu and the router agree for every role, whatever permissions the tab
\* has received: an item is shown exactly when its page is not refused.  Three
\* tables in two files and a fallback list per route decide it (App.tsx,
\* AppLayout.tsx, AuthContext.tsx).
MenuLeadsToPages == \A t \in Tabs : tab[t].perms \in MenuAgrees

\* Once the refresh of a session is answered, the tab holds no permission the
\* server did not grant to its user, unless the session began while a request
\* of the previous one was in flight (refreshPermissions of AuthContext).
PermissionsAreOwn ==
    \A t \in Tabs :
        tab[t].token # 0 /\ tab[t].refresh = Idle /\ ~tab[t].overlapped =>
            tab[t].perms \subseteq Granted[OwnerOf(tab[t].token)]

\* A tab never speaks for a session older than the one it shows: what it has
\* sent and what it would send carries its own token, a later one, or none,
\* with the same exception (getToken of client.ts against the state of
\* AuthContext, over all tabs).
NeverAnOlderSession ==
    \A t \in Tabs :
        tab[t].token # 0 =>
            /\ stored.token # 0 => stored.token >= tab[t].token
            /\ ~tab[t].overlapped =>
                \A r \in {tab[t].refresh, tab[t].call} :
                    r.header # 0 => r.header >= tab[t].token

\* What a tab shows, may do and speaks for is the session it is in.
SessionIsOwn == TypeOK /\ MenuLeadsToPages /\ PermissionsAreOwn /\ NeverAnOlderSession

\* A session ends only by its user, by the end of its own token, because
\* another tab entered or left, or, if it began while a request of the previous
\* one was in flight, by a late 401 (onExpired of useSessionExpiry).
SessionEndsOnItsOwn ==
    [][\A t \in Tabs :
        tab[t].token # 0 /\ tab'[t].token = 0 =>
            \/ Logout(t)
            \/ tab[t].token \in expired
            \/ stored.token # tab[t].token
            \/ tab[t].overlapped]_vars

\* The redirects of the router end: every tab comes to a page it renders.
RouterSettles == \A t \in Tabs : []<>Settled(t)
=============================================================================
