---------------------------- MODULE ClientProofs ----------------------------
(***************************************************************************)
(* Theorems about the session of the web client and its wizard of a new    *)
(* operation, for any number of tabs, users and logins, whatever the       *)
(* server grants, and for any drafts, types and clients.                   *)
(*                                                                         *)
(* Session: a token is the number of its login, so what a tab sends is     *)
(* compared with what it shows by numbers.  What makes the properties      *)
(* inductive is that the requests of a tab that did not enter over an      *)
(* older request carry its own token, or were sent after localStorage had  *)
(* lost it.                                                                *)
(*                                                                         *)
(* Wizard: what the records hold is an invariant by itself (KindsInv).     *)
(* What the user relies on is one while the user waited (Sure): then one   *)
(* request about the header is under way, it is about the draft held, and  *)
(* what was last synced is what the server has.                            *)
(***************************************************************************)
EXTENDS Session, Wizard, FiniteSetTheorems, TLAPS

-----------------------------------------------------------------------------
(* Routes, menu and fallback                                               *)

\* Every item of the menu leads to a page with its permission.
LEMMA ItemsHavePages ==
    ASSUME NEW i \in NavItems
    PROVE  \E r \in Routes : r.path = i.to
BY DEF NavItems, Routes

LEMMA PagesKeepPermission ==
    ASSUME NEW i \in NavItems, NEW r \in Routes, r.path = i.to
    PROVE  r.permission = i.permission
BY DEF NavItems, Routes

\* The roles a route falls back to have its permission by role anyway.
LEMMA RoutesFallBackAlike ==
    ASSUME NEW r \in Routes, NEW role \in Roles, role \in r.roles
    PROVE  FallbackAllows(role, r.permission)
<1>1. r.permission \in ScreenPermissions
  BY DEF ScreenPermissions
<1>2. role = "OPERATOR" => r.permission # "users.view"
  BY DEF Routes, Administration, Office
<1>3. role = "COURIER" => r.permission \in CourierPermissions
  BY DEF Routes, Administration, Office, CourierPermissions
<1>4. role \in Administration \/ role = "OPERATOR" \/ role = "COURIER"
  BY DEF Roles, Administration
<1>5. CASE role \in Administration
  BY <1>1, <1>5 DEF FallbackAllows, FallbackByRole, Administration
<1>6. CASE role = "OPERATOR"
  BY <1>1, <1>2, <1>6 DEF FallbackAllows, FallbackByRole, Administration
<1>7. CASE role = "COURIER"
  BY <1>3, <1>7 DEF FallbackAllows, FallbackByRole, Administration
<1> QED
  BY <1>4, <1>5, <1>6, <1>7

\* So the menu and the routes agree whatever has been granted.
LEMMA MenuAlwaysAgrees ==
    ASSUME NEW perms \in {Granted[u] : u \in Users} \cup {{}}
    PROVE  perms \in MenuAgrees
<1>1. ASSUME NEW role \in Roles, NEW i \in NavItems
      PROVE  Can(perms, role, i.permission, {}) <=>
                 Can(perms, role, PageOf[i].permission, PageOf[i].roles)
  <2>1. PICK r : r = PageOf[i]
    OBVIOUS
  <2>2. r \in Routes /\ r.path = i.to
    BY <2>1, ItemsHavePages DEF PageOf, RouteOf
  <2>3. r.permission = i.permission
    BY <2>2, PagesKeepPermission
  <2>4. role \in r.roles => FallbackAllows(role, i.permission)
    BY <2>2, <2>3, RoutesFallBackAlike
  <2> QED
    BY <2>1, <2>3, <2>4 DEF Can
<1> QED
  BY <1>1 DEF MenuAgrees

-----------------------------------------------------------------------------
(* The invariant                                                           *)

Grants == {Granted[u] : u \in Users} \cup {{}}

Calls == {Idle} \cup {Sent(n) : n \in Nat}

TabStates ==
    [token : Nat, perms : SUBSET ScreenPermissions, path : Paths, redirect : Paths \cup {NoPath},
     refresh : Calls, call : Calls, overlapped : BOOLEAN]

\* What a tab s has sent in its session is its own, given the token st of
\* localStorage and the logins so far: the refresh carries its token, a call
\* carries it too or was sent once localStorage held another.
OwnTab(s, st, log) ==
    /\ s.perms \in Grants
    /\ s.token <= Len(log) /\ s.refresh.header <= Len(log) /\ s.call.header <= Len(log)
    /\ s.token # 0 =>
          /\ st # 0 => s.token <= st
          /\ ~s.overlapped /\ s.refresh = Idle => s.perms \subseteq Granted[log[s.token]]
          /\ ~s.overlapped /\ s.refresh # Idle => s.refresh.header = s.token
          /\ ~s.overlapped /\ s.call # Idle =>
                \/ s.call.header = s.token
                \/ st # s.token /\ (s.call.header = 0 \/ s.token < s.call.header)

TabFieldsOk ==
    /\ logins \in Seq(Users) /\ Len(logins) <= MaxLogins
    /\ expired \subseteq Tokens
    /\ stored \in [token : Nat, perms : SUBSET ScreenPermissions]
    /\ tab \in [Tabs -> TabStates]

SessionInv ==
    /\ TabFieldsOk
    /\ stored.token <= Len(logins) /\ stored.perms \in Grants
    /\ \A t \in Tabs : OwnTab(tab[t], stored.token, logins)

-----------------------------------------------------------------------------
(* Facts about tabs                                                        *)

LEMMA CallsAre ==
    ASSUME NEW q \in Calls
    PROVE  q.header \in Nat /\ (q = Idle => q.header = 0)
BY DEF Calls, Idle, Sent

LEMMA SentIs ==
    ASSUME NEW n \in Nat
    PROVE  Sent(n) \in Calls /\ Sent(n).header = n /\ Sent(n) # Idle
BY DEF Calls, Idle, Sent

LEMMA IdleIs == Idle \in Calls /\ Idle.header = 0
BY DEF Calls, Idle

LEMMA TabFields ==
    ASSUME NEW s \in TabStates
    PROVE  /\ s.token \in Nat /\ s.perms \subseteq ScreenPermissions /\ s.path \in Paths
           /\ s.redirect \in Paths \cup {NoPath} /\ s.refresh \in Calls /\ s.call \in Calls
           /\ s.overlapped \in BOOLEAN
BY DEF TabStates

LEMMA GrantsAreScreens == ASSUME NEW p \in Grants PROVE p \subseteq ScreenPermissions
BY GrantsAreOfScreens DEF Grants

\* What localStorage loses, or gains by a later login, leaves a tab its own.
LEMMA ForgottenToken ==
    ASSUME NEW s \in TabStates, NEW st \in Nat, NEW log, OwnTab(s, st, log)
    PROVE  OwnTab(s, 0, log)
BY TabFields DEF OwnTab

LEMMA LaterLogin ==
    ASSUME NEW s \in TabStates, NEW st \in Nat, NEW log \in Seq(Users), NEW u \in Users,
           OwnTab(s, st, log)
    PROVE  OwnTab(s, Len(log) + 1, Append(log, u))
<1>1. Len(log) \in Nat /\ Len(Append(log, u)) = Len(log) + 1
  OBVIOUS
<1>2. s.token # 0 => Append(log, u)[s.token] = log[s.token]
  BY <1>1, TabFields DEF OwnTab
<1>3. s.token \in Nat /\ s.refresh.header \in Nat /\ s.call.header \in Nat
  BY TabFields, CallsAre
<1> QED
  BY <1>1, <1>2, <1>3 DEF OwnTab

\* Where a tab is does not matter to it.
LEMMA MovedTab ==
    ASSUME NEW s, NEW n, NEW st, NEW log, OwnTab(s, st, log),
           n.token = s.token, n.perms = s.perms, n.refresh = s.refresh, n.call = s.call,
           n.overlapped = s.overlapped
    PROVE  OwnTab(n, st, log)
BY DEF OwnTab

\* A step of one tab, which changes or forgets what is stored.
LEMMA TabStep ==
    ASSUME SessionInv, NEW t \in Tabs, NEW n \in TabStates, NEW perms \in Grants,
           tab' = [tab EXCEPT ![t] = n],
           UNCHANGED <<logins, expired>>,
           stored' \in {stored, NothingStored, [token |-> stored.token, perms |-> perms]},
           OwnTab(n, stored'.token, logins)
    PROVE  SessionInv'
<1>1. stored \in [token : Nat, perms : SUBSET ScreenPermissions] /\ stored.perms \in Grants
  BY DEF SessionInv, TabFieldsOk
<1>2. {} \in Grants
  BY DEF Grants
<1>3. /\ stored' \in [token : Nat, perms : SUBSET ScreenPermissions]
      /\ stored'.perms \in Grants
      /\ stored'.token = stored.token \/ stored'.token = 0
  <2>1. CASE stored' = stored
    BY <1>1, <2>1
  <2>2. CASE stored' = NothingStored
    BY <1>2, <2>2 DEF NothingStored
  <2>3. CASE stored' = [token |-> stored.token, perms |-> perms]
    BY <1>1, <2>3, GrantsAreScreens
  <2> QED
    BY <2>1, <2>2, <2>3
<1>4. TabFieldsOk'
  BY <1>3 DEF SessionInv, TabFieldsOk, Tokens
<1>5. stored'.token <= Len(logins')
  BY <1>1, <1>3 DEF SessionInv, TabFieldsOk
<1>6. ASSUME NEW x \in Tabs
      PROVE  OwnTab(tab[x], stored.token, logins)'
  <2>1. CASE x = t
    BY <2>1 DEF SessionInv, TabFieldsOk
  <2>2. CASE x # t
    <3>1. tab'[x] = tab[x] /\ tab[x] \in TabStates /\ OwnTab(tab[x], stored.token, logins)
      BY <2>2 DEF SessionInv, TabFieldsOk
    <3>2. OwnTab(tab[x], stored'.token, logins)
      BY <1>1, <1>3, <3>1, ForgottenToken
    <3> QED
      BY <3>1, <3>2
  <2> QED
    BY <2>1, <2>2
<1> QED
  BY <1>3, <1>4, <1>5, <1>6 DEF SessionInv

-----------------------------------------------------------------------------
(* One case per action                                                     *)

LEMMA NothingIsGranted == {} \in Grants
BY DEF Grants

\* A tab without a session is its own.
LEMMA OutsideIsOwn ==
    ASSUME NEW n, NEW st, NEW log, n.token = 0, n.perms \in Grants, Len(log) \in Nat,
           n.refresh.header <= Len(log), n.call.header <= Len(log)
    PROVE  OwnTab(n, st, log)
BY DEF OwnTab

LEMMA SessionInit == Init => SessionInv
<1> SUFFICES ASSUME Init
             PROVE  SessionInv
  OBVIOUS
<1>1. logins = <<>> /\ expired = {} /\ stored = NothingStored
  BY DEF Init
<1>2. TabFieldsOk
  <2>1. logins \in Seq(Users) /\ Len(logins) = 0 /\ Tokens = {}
    BY <1>1 DEF Tokens
  <2>2. \A t \in Tabs : tab[t] \in TabStates
    BY IdleIs, RedirectsHavePaths DEF Init, TabStates
  <2>3. tab \in [Tabs -> TabStates]
    BY <2>2 DEF Init
  <2> QED
    BY <1>1, <2>1, <2>3, LoginsAreBounded DEF TabFieldsOk, NothingStored
<1>3. \A t \in Tabs : OwnTab(tab[t], stored.token, logins)
  <2>1. Len(logins) = 0
    BY <1>1
  <2>2. ASSUME NEW t \in Tabs
        PROVE  OwnTab(tab[t], stored.token, logins)
    <3>1. PICK n : n = tab[t]
      OBVIOUS
    <3>2. n.token = 0 /\ n.perms = {} /\ n.refresh = Idle /\ n.call = Idle
      BY <3>1 DEF Init
    <3>3. Len(logins) \in Nat /\ n.refresh.header <= Len(logins) /\ n.call.header <= Len(logins)
      BY <2>1, <3>2, IdleIs
    <3>4. OwnTab(n, stored.token, logins)
      BY <3>2, <3>3, NothingIsGranted, OutsideIsOwn
    <3> QED
      BY <3>1, <3>4
  <2> QED
    BY <2>2
<1> QED
  BY <1>1, <1>2, <1>3 DEF SessionInv, NothingStored, Grants

\* Everybody may see the initial page.
LEMMA NobodyIsForbidden ==
    ASSUME NEW role \in Roles, NEW perms, NEW r \in Routes, r.path = "/inicio"
    PROVE  Can(perms, role, r.permission, r.roles)
<1>1. r.roles = Roles
  BY DEF Routes
<1> QED
  BY <1>1 DEF Can

LEMMA RedirectPath ==
    ASSUME SessionInv, NEW t \in Tabs
    PROVE  RedirectOf(t) \in Paths
<1>1. tab[t] \in TabStates /\ tab[t].path \in Paths /\ {"/login", "/inicio"} \subseteq Paths
  BY TabFields, RedirectsHavePaths DEF SessionInv, TabFieldsOk
<1>2. ASSUME tab[t].token # 0, tab[t].path = "/inicio", Forbidden(t)
      PROVE  "/forbidden" \in Paths
  <2>1. tab[t].token \in 1 .. Len(logins)
    BY <1>1, <1>2, TabFields DEF SessionInv, OwnTab, TabFieldsOk
  <2>2. logins[tab[t].token] \in Users
    BY <2>1 DEF SessionInv, TabFieldsOk
  <2>3. PICK r : r = RouteOf(tab[t].path)
    OBVIOUS
  <2>4. r \in Routes /\ r.path = "/inicio"
    BY <1>2, <2>3 DEF Forbidden, IsPage, RouteOf
  <2>5. ~Can(tab[t].perms, RoleShown(t), r.permission, r.roles)
    BY <1>2, <2>3 DEF Forbidden
  <2>6. RoleOf[logins[tab[t].token]] \notin Roles
    BY <1>2, <2>4, <2>5, NobodyIsForbidden DEF RoleShown, OwnerOf
  <2> QED
    BY <2>2, <2>6, RedirectsHavePaths
<1> QED
  BY <1>1, <1>2 DEF RedirectOf

LEMMA RedirectKeeps == ASSUME SessionInv, NEW t \in Tabs, Redirect(t) PROVE SessionInv'
<1>1. PICK n : n = [tab[t] EXCEPT !.path = RedirectOf(t)]
  OBVIOUS
<1>2. tab[t] \in TabStates /\ OwnTab(tab[t], stored.token, logins)
  BY DEF SessionInv, TabFieldsOk
<1>3. /\ n \in TabStates
      /\ n.token = tab[t].token /\ n.perms = tab[t].perms /\ n.refresh = tab[t].refresh
      /\ n.call = tab[t].call /\ n.overlapped = tab[t].overlapped
  BY <1>1, <1>2, RedirectPath DEF TabStates
<1>4. tab' = [tab EXCEPT ![t] = n] /\ UNCHANGED <<stored, logins, expired>>
  BY <1>1 DEF Redirect
<1>5. OwnTab(n, stored.token, logins)
  BY <1>2, <1>3, MovedTab
<1> QED
  BY <1>3, <1>4, <1>5, TabStep DEF Grants

LEMMA FollowKeeps ==
    ASSUME SessionInv, NEW t \in Tabs, NEW p \in Paths, Follow(t, p)
    PROVE  SessionInv'
<1>1. PICK n : n = [tab[t] EXCEPT !.path = p]
  OBVIOUS
<1>2. tab[t] \in TabStates /\ OwnTab(tab[t], stored.token, logins)
  BY DEF SessionInv, TabFieldsOk
<1>3. /\ n \in TabStates
      /\ n.token = tab[t].token /\ n.perms = tab[t].perms /\ n.refresh = tab[t].refresh
      /\ n.call = tab[t].call /\ n.overlapped = tab[t].overlapped
  BY <1>1, <1>2 DEF TabStates
<1>4. tab' = [tab EXCEPT ![t] = n] /\ UNCHANGED <<stored, logins, expired>>
  BY <1>1 DEF Follow
<1>5. OwnTab(n, stored.token, logins)
  BY <1>2, <1>3, MovedTab
<1> QED
  BY <1>3, <1>4, <1>5, TabStep DEF Grants

LEMMA SignedOutIs ==
    ASSUME NEW s \in TabStates
    PROVE  /\ SignedOut(s) \in TabStates
           /\ SignedOut(s).token = 0 /\ SignedOut(s).perms = {}
           /\ SignedOut(s).refresh = s.refresh /\ SignedOut(s).call = s.call
BY DEF SignedOut, TabStates

LEMMA OnExpiredIs ==
    ASSUME NEW s \in TabStates
    PROVE  /\ OnExpired(s) \in TabStates
           /\ OnExpired(s).token = 0 /\ OnExpired(s).perms = {}
           /\ OnExpired(s).refresh = s.refresh /\ OnExpired(s).call = s.call
<1>1. PICK o : o = SignedOut(s)
  OBVIOUS
<1>2. o \in TabStates /\ o.token = 0 /\ o.perms = {} /\ o.refresh = s.refresh /\ o.call = s.call
  BY <1>1, SignedOutIs
<1>3. OnExpired(s) = [o EXCEPT !.redirect = s.path, !.path = "/login"]
  BY <1>1 DEF OnExpired
<1>4. s.path \in Paths
  BY TabFields
<1> QED
  BY <1>2, <1>3, <1>4, RedirectsHavePaths DEF TabStates

LEMMA AfterFailureIs ==
    ASSUME NEW s \in TabStates
    PROVE  /\ AfterFailure(s) \in TabStates
           /\ AfterFailure(s).token = s.token /\ AfterFailure(s).perms = {}
           /\ AfterFailure(s).refresh = s.refresh /\ AfterFailure(s).call = s.call
           /\ AfterFailure(s).overlapped = s.overlapped
BY DEF AfterFailure, TabStates

LEMMA LoginsAreCounted == ASSUME SessionInv PROVE Len(logins) \in Nat
BY DEF SessionInv, TabFieldsOk

LEMMA LogoutKeeps == ASSUME SessionInv, NEW t \in Tabs, Logout(t) PROVE SessionInv'
<1>1. PICK n : n = SignedOut(tab[t])
  OBVIOUS
<1>2. tab[t] \in TabStates /\ OwnTab(tab[t], stored.token, logins)
  BY DEF SessionInv, TabFieldsOk
<1>3. n \in TabStates /\ n.token = 0 /\ n.perms = {} /\ n.refresh = tab[t].refresh /\ n.call = tab[t].call
  BY <1>1, <1>2, SignedOutIs
<1>4. tab' = [tab EXCEPT ![t] = n] /\ stored' = NothingStored /\ UNCHANGED <<logins, expired>>
  BY <1>1 DEF Logout
<1>5. n.refresh.header <= Len(logins) /\ n.call.header <= Len(logins)
  BY <1>2, <1>3 DEF OwnTab
<1>6. OwnTab(n, stored'.token, logins)
  BY <1>3, <1>5, NothingIsGranted, LoginsAreCounted, OutsideIsOwn
<1> QED
  BY <1>3, <1>4, <1>6, TabStep, NothingIsGranted

LEMMA WrongPasswordKeeps == ASSUME SessionInv, NEW t \in Tabs, WrongPassword(t) PROVE SessionInv'
<1>1. PICK n : n = OnExpired(tab[t])
  OBVIOUS
<1>2. tab[t] \in TabStates /\ OwnTab(tab[t], stored.token, logins)
  BY DEF SessionInv, TabFieldsOk
<1>3. n \in TabStates /\ n.token = 0 /\ n.perms = {} /\ n.refresh = tab[t].refresh /\ n.call = tab[t].call
  BY <1>1, <1>2, OnExpiredIs
<1>4. tab' = [tab EXCEPT ![t] = n] /\ stored' = NothingStored /\ UNCHANGED <<logins, expired>>
  BY <1>1 DEF WrongPassword
<1>5. n.refresh.header <= Len(logins) /\ n.call.header <= Len(logins)
  BY <1>2, <1>3 DEF OwnTab
<1>6. OwnTab(n, stored'.token, logins)
  BY <1>3, <1>5, NothingIsGranted, LoginsAreCounted, OutsideIsOwn
<1> QED
  BY <1>3, <1>4, <1>6, TabStep, NothingIsGranted

LEMMA LoginKeeps ==
    ASSUME SessionInv, NEW t \in Tabs, NEW u \in Users, Login(t, u)
    PROVE  SessionInv'
<1>1. PICK N : N = Len(logins) + 1
  OBVIOUS
<1>2. PICK busy \in BOOLEAN : busy = InFlight(t)
  BY DEF InFlight
<1>3. PICK to : to = IF tab[t].redirect \in {NoPath, "/login"} THEN "/inicio" ELSE tab[t].redirect
  OBVIOUS
<1>4. PICK q : q = AfterEffect(tab[t].refresh, N)
  OBVIOUS
<1>5. PICK n : n = [tab[t] EXCEPT !.token = N, !.perms = {}, !.path = to, !.redirect = NoPath,
                                  !.refresh = q, !.overlapped = busy]
  OBVIOUS
<1>6. /\ logins \in Seq(Users) /\ Len(logins) \in Nat /\ N \in Nat /\ Len(logins) < MaxLogins
      /\ tab[t] \in TabStates /\ OwnTab(tab[t], stored.token, logins)
      /\ stored.token \in Nat
  BY <1>1 DEF SessionInv, TabFieldsOk, Login
<1>7. to \in Paths
  BY <1>3, <1>6, TabFields, RedirectsHavePaths
<1>8. q \in Calls /\ q # Idle /\ q.header <= N /\ (~busy => q.header = N)
  <2>1. N # 0
    BY <1>1, <1>6
  <2>2. CASE tab[t].refresh = Idle
    <3>1. q = Sent(N)
      BY <1>4, <2>1, <2>2 DEF AfterEffect
    <3> QED
      BY <1>6, <3>1, SentIs
  <2>3. CASE tab[t].refresh # Idle
    <3>1. q = tab[t].refresh /\ busy
      BY <1>2, <1>4, <2>1, <2>3 DEF AfterEffect, InFlight
    <3>2. q \in Calls /\ q.header \in Nat /\ q.header <= Len(logins)
      BY <1>6, <3>1, TabFields, CallsAre DEF OwnTab
    <3> QED
      BY <1>1, <1>6, <2>3, <3>1, <3>2
  <2> QED
    BY <2>2, <2>3
<1>9. /\ n \in TabStates
      /\ n.token = N /\ n.perms = {} /\ n.refresh = q /\ n.call = tab[t].call /\ n.overlapped = busy
  BY <1>5, <1>6, <1>7, <1>8 DEF TabStates
<1>10. PICK log : log = Append(logins, u)
  OBVIOUS
<1>11. log \in Seq(Users) /\ Len(log) = N
  BY <1>1, <1>6, <1>10
<1>12. /\ logins' = log /\ expired' = expired
       /\ stored' = [token |-> N, perms |-> {}]
       /\ tab' = [tab EXCEPT ![t] = n]
  BY <1>1, <1>2, <1>3, <1>4, <1>5, <1>10 DEF Login, StoredAtLogin
<1>13. TabFieldsOk'
  <2>1. N <= MaxLogins
    BY <1>1, <1>6, LoginsAreBounded
  <2>2. expired' \subseteq Tokens'
    BY <1>1, <1>6, <1>11, <1>12 DEF SessionInv, TabFieldsOk, Tokens
  <2>3. tab' \in [Tabs -> TabStates]
    BY <1>9, <1>12 DEF SessionInv, TabFieldsOk
  <2> QED
    BY <1>6, <1>11, <1>12, <2>1, <2>2, <2>3 DEF TabFieldsOk
<1>14. OwnTab(n, N, log)
  <2>1. tab[t].call \in Calls /\ tab[t].call.header \in Nat /\ tab[t].call.header <= N
    BY <1>1, <1>6, TabFields, CallsAre DEF OwnTab
  <2>2. ~busy => tab[t].call = Idle
    BY <1>2 DEF InFlight
  <2> QED
    BY <1>6, <1>8, <1>9, <1>11, <2>1, <2>2, NothingIsGranted DEF OwnTab
<1>15. ASSUME NEW x \in Tabs
       PROVE  OwnTab(tab[x], stored.token, logins)'
  <2>1. stored'.token = N
    BY <1>12
  <2>2. CASE x = t
    <3>1. tab'[x] = n
      BY <1>12, <2>2 DEF SessionInv, TabFieldsOk
    <3> QED
      BY <1>12, <1>14, <2>1, <3>1
  <2>3. CASE x # t
    <3>1. tab'[x] = tab[x] /\ tab[x] \in TabStates /\ OwnTab(tab[x], stored.token, logins)
      BY <1>12, <2>3 DEF SessionInv, TabFieldsOk
    <3>2. OwnTab(tab[x], N, log)
      BY <1>1, <1>6, <1>10, <3>1, LaterLogin
    <3> QED
      BY <1>12, <2>1, <3>1, <3>2
  <2> QED
    BY <2>2, <2>3
<1>16. stored'.token <= Len(logins') /\ stored'.perms \in Grants
  BY <1>6, <1>11, <1>12, NothingIsGranted
<1> QED
  BY <1>13, <1>15, <1>16 DEF SessionInv

LEMMA ReloadKeeps == ASSUME SessionInv, NEW t \in Tabs, Reload(t) PROVE SessionInv'
<1>1. PICK st : st = stored.token
  OBVIOUS
<1>2. PICK q : q = AfterEffect(Idle, st)
  OBVIOUS
<1>3. PICK n : n = [tab[t] EXCEPT !.token = st, !.perms = stored.perms, !.refresh = q,
                                  !.call = Idle, !.overlapped = FALSE]
  OBVIOUS
<1>4. /\ tab[t] \in TabStates /\ Len(logins) \in Nat
      /\ st \in Nat /\ st <= Len(logins) /\ stored.perms \in Grants
      /\ stored.perms \subseteq ScreenPermissions
  BY <1>1 DEF SessionInv, TabFieldsOk
<1>5. q \in Calls /\ q.header = st /\ (st # 0 => q # Idle)
  BY <1>2, <1>4, SentIs, IdleIs DEF AfterEffect
<1>6. /\ n \in TabStates
      /\ n.token = st /\ n.perms = stored.perms /\ n.refresh = q /\ n.call = Idle
      /\ n.overlapped = FALSE
  BY <1>3, <1>4, <1>5, IdleIs DEF TabStates
<1>7. tab' = [tab EXCEPT ![t] = n] /\ UNCHANGED <<stored, logins, expired>>
  BY <1>1, <1>2, <1>3 DEF Reload
<1>8. OwnTab(n, st, logins)
  BY <1>4, <1>5, <1>6, IdleIs DEF OwnTab
<1> QED
  BY <1>1, <1>6, <1>7, <1>8, TabStep, NothingIsGranted

LEMMA AnswerRefreshKeeps ==
    ASSUME SessionInv, NEW t \in Tabs, NEW ok \in BOOLEAN, AnswerRefresh(t, ok)
    PROVE  SessionInv'
<1>1. PICK s : s = tab[t]
  OBVIOUS
<1>2. PICK done : done = [s EXCEPT !.refresh = Idle]
  OBVIOUS
<1>3. PICK h : h = s.refresh.header
  OBVIOUS
<1>4. /\ s \in TabStates /\ OwnTab(s, stored.token, logins) /\ s.refresh # Idle
      /\ h \in Nat /\ h <= Len(logins) /\ Len(logins) \in Nat
  BY <1>1, <1>3, TabFields, CallsAre DEF AnswerRefresh, SessionInv, TabFieldsOk, OwnTab
<1>5. /\ done \in TabStates
      /\ done.token = s.token /\ done.perms = s.perms /\ done.refresh = Idle
      /\ done.call = s.call /\ done.overlapped = s.overlapped
  BY <1>2, <1>4, IdleIs DEF TabStates
<1>6. done.call.header \in Nat /\ done.call.header <= Len(logins) /\ done.refresh.header <= Len(logins)
  BY <1>4, <1>5, IdleIs, TabFields, CallsAre DEF OwnTab
<1>7. UNCHANGED <<logins, expired>>
  BY DEF AnswerRefresh
<1>8. CASE Refused(h)
  <2>1. PICK o : o = OnExpired(done)
    OBVIOUS
  <2>2. o \in TabStates /\ o.token = 0 /\ o.refresh = Idle /\ o.call = done.call
    BY <1>5, <2>1, OnExpiredIs
  <2>3. PICK n : n = AfterFailure(o)
    OBVIOUS
  <2>4. n \in TabStates /\ n.token = 0 /\ n.perms = {} /\ n.refresh = Idle /\ n.call = done.call
    BY <2>2, <2>3, AfterFailureIs
  <2>5. tab' = [tab EXCEPT ![t] = n] /\ stored' = NothingStored
    BY <1>1, <1>2, <1>3, <1>8, <2>1, <2>3 DEF AnswerRefresh
  <2>6. n.refresh.header <= Len(logins) /\ n.call.header <= Len(logins)
    BY <1>5, <1>6, <2>4
  <2>7. OwnTab(n, stored'.token, logins)
    BY <1>4, <2>4, <2>6, NothingIsGranted, OutsideIsOwn
  <2> QED
    BY <1>7, <2>4, <2>5, <2>7, TabStep, NothingIsGranted
<1>9. CASE ~Refused(h) /\ tab' = [tab EXCEPT ![t] = [done EXCEPT !.perms = Received(h)]]
                       /\ stored' = [stored EXCEPT !.perms = Received(h)]
  <2>1. PICK p : p = Received(h)
    OBVIOUS
  <2>2. h \in 1 .. Len(logins) /\ logins[h] \in Users
    BY <1>4, <1>9 DEF Refused, SessionInv, TabFieldsOk
  <2>3. p = Granted[logins[h]] /\ p \in Grants
    BY <2>1, <2>2 DEF Received, OwnerOf, Grants
  <2>4. p \subseteq ScreenPermissions
    BY <2>3, GrantsAreScreens
  <2>5. PICK n : n = [done EXCEPT !.perms = p]
    OBVIOUS
  <2>6. /\ n \in TabStates
        /\ n.token = s.token /\ n.perms = p /\ n.refresh = Idle
        /\ n.call = s.call /\ n.overlapped = s.overlapped
    BY <1>5, <2>4, <2>5 DEF TabStates
  <2>7. stored' = [token |-> stored.token, perms |-> p]
    BY <1>9, <2>1 DEF SessionInv, TabFieldsOk
  <2>8. s.token # 0 /\ ~s.overlapped => h = s.token
    BY <1>3, <1>4 DEF OwnTab
  <2>9. OwnTab(n, stored.token, logins)
    BY <1>4, <1>5, <1>6, <2>3, <2>6, <2>8, IdleIs DEF OwnTab
  <2>10. tab' = [tab EXCEPT ![t] = n] /\ stored'.token = stored.token
    BY <1>9, <2>1, <2>5, <2>7
  <2> QED
    BY <1>7, <2>3, <2>6, <2>7, <2>9, <2>10, TabStep
<1>10. CASE tab' = [tab EXCEPT ![t] = AfterFailure(done)] /\ UNCHANGED stored
  <2>1. PICK n : n = AfterFailure(done)
    OBVIOUS
  <2>2. /\ n \in TabStates
        /\ n.token = s.token /\ n.perms = {} /\ n.refresh = Idle
        /\ n.call = s.call /\ n.overlapped = s.overlapped
    BY <1>5, <2>1, AfterFailureIs
  <2>3. OwnTab(n, stored.token, logins)
    BY <1>4, <1>5, <1>6, <2>2, NothingIsGranted, IdleIs DEF OwnTab
  <2>4. tab' = [tab EXCEPT ![t] = n]
    BY <1>10, <2>1
  <2> QED
    BY <1>7, <1>10, <2>2, <2>3, <2>4, TabStep, NothingIsGranted
<1> QED
  BY <1>1, <1>2, <1>3, <1>8, <1>9, <1>10 DEF AnswerRefresh

LEMMA SendCallKeeps == ASSUME SessionInv, NEW t \in Tabs, SendCall(t) PROVE SessionInv'
<1>1. PICK s : s = tab[t]
  OBVIOUS
<1>2. PICK st : st = stored.token
  OBVIOUS
<1>3. PICK n : n = [s EXCEPT !.call = Sent(st)]
  OBVIOUS
<1>4. /\ s \in TabStates /\ OwnTab(s, st, logins) /\ s.token # 0
      /\ st \in Nat /\ st <= Len(logins)
  BY <1>1, <1>2 DEF SendCall, SessionInv, TabFieldsOk
<1>5. /\ n \in TabStates
      /\ n.token = s.token /\ n.perms = s.perms /\ n.refresh = s.refresh
      /\ n.call = Sent(st) /\ n.overlapped = s.overlapped
  BY <1>3, <1>4, SentIs DEF TabStates
<1>6. tab' = [tab EXCEPT ![t] = n] /\ UNCHANGED <<stored, logins, expired>>
  BY <1>1, <1>2, <1>3 DEF SendCall
<1>7. s.token \in Nat /\ Sent(st).header = st
  BY <1>4, SentIs, TabFields
<1>8. OwnTab(n, st, logins)
  BY <1>4, <1>5, <1>7 DEF OwnTab
<1> QED
  BY <1>2, <1>5, <1>6, <1>8, TabStep, NothingIsGranted

LEMMA AnswerCallKeeps == ASSUME SessionInv, NEW t \in Tabs, AnswerCall(t) PROVE SessionInv'
<1>1. PICK s : s = tab[t]
  OBVIOUS
<1>2. PICK done : done = [s EXCEPT !.call = Idle]
  OBVIOUS
<1>3. s \in TabStates /\ OwnTab(s, stored.token, logins) /\ Len(logins) \in Nat
  BY <1>1 DEF SessionInv, TabFieldsOk
<1>4. /\ done \in TabStates
      /\ done.token = s.token /\ done.perms = s.perms /\ done.refresh = s.refresh
      /\ done.call = Idle /\ done.overlapped = s.overlapped
  BY <1>2, <1>3, IdleIs DEF TabStates
<1>5. UNCHANGED <<logins, expired>>
  BY DEF AnswerCall
<1>6. CASE tab' = [tab EXCEPT ![t] = OnExpired(done)] /\ stored' = NothingStored
  <2>1. PICK n : n = OnExpired(done)
    OBVIOUS
  <2>2. n \in TabStates /\ n.token = 0 /\ n.perms = {} /\ n.refresh = s.refresh /\ n.call = Idle
    BY <1>4, <2>1, OnExpiredIs
  <2>3. n.refresh.header <= Len(logins) /\ n.call.header <= Len(logins)
    BY <1>3, <2>2, IdleIs DEF OwnTab
  <2>4. OwnTab(n, stored'.token, logins)
    BY <1>3, <2>2, <2>3, NothingIsGranted, OutsideIsOwn
  <2>5. tab' = [tab EXCEPT ![t] = n]
    BY <1>6, <2>1
  <2> QED
    BY <1>5, <1>6, <2>2, <2>4, <2>5, TabStep, NothingIsGranted
<1>7. CASE tab' = [tab EXCEPT ![t] = done] /\ UNCHANGED stored
  <2>1. OwnTab(done, stored.token, logins)
    BY <1>3, <1>4, IdleIs DEF OwnTab
  <2> QED
    BY <1>4, <1>5, <1>7, <2>1, TabStep, NothingIsGranted
<1> QED
  BY <1>1, <1>2, <1>6, <1>7 DEF AnswerCall

LEMMA ExpireKeeps ==
    ASSUME SessionInv, NEW n \in 1 .. MaxLogins, Expire(n)
    PROVE  SessionInv'
BY DEF Expire, SessionInv, TabFieldsOk, Tokens

LEMMA StutterKeeps == ASSUME SessionInv, UNCHANGED vars PROVE SessionInv'
BY DEF SessionInv, TabFieldsOk, Tokens, vars

LEMMA SessionStep == ASSUME SessionInv, [Next]_vars PROVE SessionInv'
<1>1. ASSUME NEW t \in Tabs, Step(t)
      PROVE  SessionInv'
  BY <1>1, RedirectKeeps, LogoutKeeps, WrongPasswordKeeps, ReloadKeeps, SendCallKeeps,
     AnswerCallKeeps, FollowKeeps, LoginKeeps, AnswerRefreshKeeps DEF Step
<1>2. ASSUME NEW n \in 1 .. MaxLogins, Expire(n)
      PROVE  SessionInv'
  BY <1>2, ExpireKeeps
<1>3. CASE UNCHANGED vars
  BY <1>3, StutterKeeps
<1> QED
  BY <1>1, <1>2, <1>3 DEF Next

LEMMA SessionAlways == Spec => []SessionInv
<1>1. Init => SessionInv
  BY SessionInit
<1>2. SessionInv /\ [Next]_vars => SessionInv'
  BY SessionStep
<1> QED
  BY <1>1, <1>2, PTL DEF Spec

-----------------------------------------------------------------------------
(* What a tab shows and speaks for                                         *)

LEMMA SessionTypes == ASSUME SessionInv PROVE TypeOK
<1>1. \A t \in Tabs : tab[t] \in TabStates /\ OwnTab(tab[t], stored.token, logins)
  BY DEF SessionInv, TabFieldsOk
<1>2. /\ logins \in Seq(Users) /\ Len(logins) \in Nat /\ Len(logins) <= MaxLogins
      /\ expired \subseteq Tokens
  BY DEF SessionInv, TabFieldsOk
<1>3. stored \in [token : 0 .. MaxLogins, perms : SUBSET ScreenPermissions]
  BY <1>2, LoginsAreBounded DEF SessionInv, TabFieldsOk
<1>4. ASSUME NEW t \in Tabs
      PROVE  /\ DOMAIN tab[t] = {"token", "perms", "path", "redirect", "refresh", "call", "overlapped"}
             /\ tab[t].token \in 0 .. Len(logins)
             /\ tab[t].perms \subseteq ScreenPermissions
             /\ tab[t].path \in Paths
             /\ tab[t].redirect \in Paths \cup {NoPath}
             /\ {tab[t].refresh, tab[t].call} \subseteq {Idle} \cup {Sent(n) : n \in 0 .. Len(logins)}
             /\ tab[t].overlapped \in BOOLEAN
  <2>1. PICK s \in TabStates : s = tab[t] /\ OwnTab(s, stored.token, logins)
    BY <1>1
  <2>2. DOMAIN s = {"token", "perms", "path", "redirect", "refresh", "call", "overlapped"}
    BY DEF TabStates
  <2>3. s.token \in 0 .. Len(logins)
    BY <1>2, <2>1, TabFields DEF OwnTab
  <2>4. \A q \in Calls : q.header <= Len(logins) =>
            q \in {Idle} \cup {Sent(n) : n \in 0 .. Len(logins)}
    BY <1>2, SentIs DEF Calls
  <2>5. /\ s.refresh \in Calls /\ s.refresh.header <= Len(logins)
        /\ s.call \in Calls /\ s.call.header <= Len(logins)
    BY <2>1, TabFields DEF OwnTab
  <2>6. {s.refresh, s.call} \subseteq {Idle} \cup {Sent(n) : n \in 0 .. Len(logins)}
    BY <2>4, <2>5
  <2> QED
    BY <2>1, <2>2, <2>3, <2>6, TabFields
<1> QED
  BY <1>2, <1>3, <1>4 DEF TypeOK

LEMMA SessionViews ==
    ASSUME SessionInv
    PROVE  MenuLeadsToPages /\ PermissionsAreOwn /\ NeverAnOlderSession
<1>1. \A t \in Tabs : tab[t] \in TabStates /\ OwnTab(tab[t], stored.token, logins)
  BY DEF SessionInv, TabFieldsOk
<1>2. MenuLeadsToPages
  BY <1>1, MenuAlwaysAgrees DEF MenuLeadsToPages, OwnTab, Grants
<1>3. PermissionsAreOwn
  BY <1>1 DEF PermissionsAreOwn, OwnTab, OwnerOf
<1>4. NeverAnOlderSession
  <2>1. ASSUME NEW t \in Tabs, tab[t].token # 0
        PROVE  /\ stored.token # 0 => stored.token >= tab[t].token
               /\ ~tab[t].overlapped =>
                     \A r \in {tab[t].refresh, tab[t].call} :
                         r.header # 0 => r.header >= tab[t].token
    <3>1. PICK s \in TabStates : s = tab[t] /\ OwnTab(s, stored.token, logins)
      BY <1>1
    <3>2. s.token \in Nat /\ stored.token \in Nat /\ s.token # 0
      BY <2>1, <3>1, TabFields DEF SessionInv, TabFieldsOk
    <3>3. s.refresh \in Calls /\ s.call \in Calls
      BY TabFields
    <3>4. \A r \in {s.refresh, s.call} : r.header \in Nat /\ (r = Idle => r.header = 0)
      BY <3>3, CallsAre
    <3>5. stored.token # 0 => stored.token >= s.token
      BY <3>1, <3>2 DEF OwnTab
    <3>6. ~s.overlapped /\ s.refresh.header # 0 => s.refresh.header >= s.token
      BY <3>1, <3>2, <3>4 DEF OwnTab
    <3>7. ~s.overlapped /\ s.call.header # 0 => s.call.header >= s.token
      BY <3>1, <3>2, <3>4 DEF OwnTab
    <3> QED
      BY <3>1, <3>5, <3>6, <3>7
  <2> QED
    BY <2>1 DEF NeverAnOlderSession
<1> QED
  BY <1>2, <1>3, <1>4

\* For any tabs, users, grants and logins, in whatever order requests are answered:
\* the menu leads to pages that open, a tab holds no permission of another session
\* and speaks for none older, unless it entered over a request of the one before
\* (AuthContext.tsx, client.ts, App.tsx, AppLayout.tsx).
THEOREM TabsAreInTheirSession == Spec => []SessionIsOwn
<1>1. SessionInv => SessionIsOwn
  BY SessionTypes, SessionViews DEF SessionIsOwn
<1> QED
  BY <1>1, SessionAlways, PTL

\* Which request ended a session.
LEMMA EndingStep ==
    ASSUME SessionInv, [Next]_vars, NEW t \in Tabs, tab[t].token # 0, tab'[t].token = 0
    PROVE  \/ Logout(t)
           \/ tab[t].token \in expired
           \/ stored.token # tab[t].token
           \/ tab[t].overlapped
<1>1. PICK s \in TabStates : s = tab[t] /\ OwnTab(s, stored.token, logins)
  BY DEF SessionInv, TabFieldsOk
<1>2. tab \in [Tabs -> TabStates] /\ s.token \in Nat /\ s.token # 0
  BY <1>1, TabFields DEF SessionInv, TabFieldsOk
<1>3. tab' # tab
  BY <1>2
<1>4. ASSUME NEW x \in Tabs, Step(x), x # t
      PROVE  tab'[t] = tab[t]
  BY <1>2, <1>4 DEF Step, Redirect, Logout, WrongPassword, Reload, SendCall, AnswerCall, Follow,
                    Login, AnswerRefresh
<1>5. Step(t)
  BY <1>1, <1>2, <1>3, <1>4 DEF Next, Expire, vars
<1>6. ASSUME NEW n, n.token = s.token
      PROVE  tab' # [tab EXCEPT ![t] = n]
  BY <1>1, <1>2, <1>6
<1>7. CASE Redirect(t)
  <2>1. PICK n : n = [s EXCEPT !.path = RedirectOf(t)]
    OBVIOUS
  <2>2. n.token = s.token /\ tab' = [tab EXCEPT ![t] = n]
    BY <1>1, <1>7, <2>1 DEF Redirect, TabStates
  <2> QED
    BY <1>6, <2>2
<1>8. CASE \E p \in Paths : Follow(t, p)
  <2>1. PICK p \in Paths : Follow(t, p)
    BY <1>8
  <2>2. PICK n : n = [s EXCEPT !.path = p]
    OBVIOUS
  <2>3. n.token = s.token /\ tab' = [tab EXCEPT ![t] = n]
    BY <1>1, <2>1, <2>2 DEF Follow, TabStates
  <2> QED
    BY <1>6, <2>3
<1>9. CASE SendCall(t)
  <2>1. PICK n : n = [s EXCEPT !.call = Sent(stored.token)]
    OBVIOUS
  <2>2. n.token = s.token /\ tab' = [tab EXCEPT ![t] = n]
    BY <1>1, <1>9, <2>1 DEF SendCall, TabStates
  <2> QED
    BY <1>6, <2>2
<1>10. CASE WrongPassword(t) \/ \E u \in Users : Login(t, u)
  BY <1>1, <1>2, <1>10 DEF WrongPassword, Login
<1>11. CASE Reload(t)
  <2>1. PICK n : n = [tab[t] EXCEPT !.token = stored.token, !.perms = stored.perms,
                        !.refresh = AfterEffect(Idle, stored.token), !.call = Idle,
                        !.overlapped = FALSE]
    OBVIOUS
  <2>2. n.token = stored.token
    BY <1>1, <2>1 DEF TabStates
  <2>3. tab' = [tab EXCEPT ![t] = n]
    BY <1>11, <2>1 DEF Reload
  <2>4. stored.token = 0
    BY <1>2, <2>2, <2>3
  <2> QED
    BY <1>1, <1>2, <2>4
<1>12. CASE AnswerCall(t)
  <2>1. PICK done : done = [s EXCEPT !.call = Idle]
    OBVIOUS
  <2>2. done.token = s.token
    BY <2>1 DEF TabStates
  <2>3. tab' # [tab EXCEPT ![t] = done]
    BY <1>6, <2>2
  <2>4. s.call # Idle /\ Refused(s.call.header)
    BY <1>1, <1>12, <2>1, <2>3 DEF AnswerCall
  <2>5. ~s.overlapped /\ stored.token = s.token => s.call.header = s.token
    BY <1>1, <1>2, <2>4 DEF OwnTab
  <2> QED
    BY <1>1, <1>2, <2>4, <2>5 DEF Refused
<1>13. CASE \E ok \in BOOLEAN : AnswerRefresh(t, ok)
  <2>1. PICK done : done = [s EXCEPT !.refresh = Idle]
    OBVIOUS
  <2>2. done \in TabStates /\ done.token = s.token
    BY <2>1, IdleIs DEF TabStates
  <2>3. PICK n : n = [done EXCEPT !.perms = Received(s.refresh.header)]
    OBVIOUS
  <2>4. n.token = s.token
    BY <2>2, <2>3 DEF TabStates
  <2>5. PICK f : f = AfterFailure(done)
    OBVIOUS
  <2>6. f.token = s.token
    BY <2>2, <2>5, AfterFailureIs
  <2>7. tab' # [tab EXCEPT ![t] = n] /\ tab' # [tab EXCEPT ![t] = f]
    BY <1>6, <2>4, <2>6
  <2>8. s.refresh # Idle /\ Refused(s.refresh.header)
    BY <1>1, <1>13, <2>1, <2>3, <2>5, <2>7 DEF AnswerRefresh
  <2>9. ~s.overlapped => s.refresh.header = s.token
    BY <1>1, <1>2, <2>8 DEF OwnTab
  <2> QED
    BY <1>1, <1>2, <2>8, <2>9 DEF Refused
<1> QED
  BY <1>5, <1>7, <1>8, <1>9, <1>10, <1>11, <1>12, <1>13 DEF Step

\* A session ends by its user, by its token, by another tab or over an older
\* request, for any number of tabs (onExpired, AuthContext.tsx and client.ts).
THEOREM SessionsEndForAReason == Spec => SessionEndsOnItsOwn
<1>1. SessionInv /\ [Next]_vars =>
          [\A t \in Tabs :
              tab[t].token # 0 /\ tab'[t].token = 0 =>
                  \/ Logout(t)
                  \/ tab[t].token \in expired
                  \/ stored.token # tab[t].token
                  \/ tab[t].overlapped]_vars
  BY EndingStep
<1> QED
  BY <1>1, SessionAlways, PTL DEF Spec, SessionEndsOnItsOwn

-----------------------------------------------------------------------------
(* The wizard: what its records hold                                       *)

RegularHeaders == {h \in Headers : h.type # TwoClients => h.cost = ""}
GoodHeaders == {h \in RegularHeaders : Complete(h)}

Rows ==
    {NoMovement} \cup
    [status : {"BORRADOR", "CONFIRMADA", "deleted"}, header : GoodHeaders, payload : BOOLEAN]

\* The drafts that have been created, D in what follows.
Known(s) == {m \in Movements : s[m].status # "none"}

ItemsOf(D) == [m : D, header : GoodHeaders]

Pages(D) ==
    [open : BOOLEAN, m : D \cup {0}, form : Forms, synced : RegularHeaders \cup {NoHeader}, cob : Chosen,
     modal : D \cup {0}, error : BOOLEAN, token : BOOLEAN, resume : D \cup {0},
     patchTimer : BOOLEAN, createTimer : BOOLEAN, list : SUBSET ItemsOf(D)]

Pointers(D) == {None} \cup [m : D, form : Forms]

Answers == {"none", "ok", "error"}
Creations(D) == [m : D \cup {0}, served : BOOLEAN, refused : BOOLEAN, header : GoodHeaders]
Strays(D) ==
    [kind : {"create"}, m : {0}, header : GoodHeaders, late : {"nothing"}] \cup
    [kind : {"delete", "execute", "answered"}, m : D, header : Headers \cup {NoHeader},
     late : {"nothing", "discarded", "cancelled", "done"}]
Edits(D) ==
    [m : D, header : RegularHeaders, confirm : BOOLEAN, modal : D \cup {0},
     answer : Answers \cup {"conflict"}, latest : BOOLEAN]
Readings(D) == [m : D, kind : {"resume", "list"}, header : GoodHeaders \cup {NoHeader}]
Cancels(D) == [m : D, answer : Answers]
Discards(D) == [m : D, was : D \cup {0}, list : SUBSET ItemsOf(D), answer : Answers]
Submits(D) == [m : D, type : Types, answer : Answers]
Fetches(D) == [m : {0}, items : SUBSET ItemsOf(D)]

Nets(D) ==
    [create : {None} \cup Creations(D), lost : SUBSET Strays(D), patches : SUBSET Edits(D),
     details : SUBSET Readings(D), cancel : {None} \cup Cancels(D),
     discard : {None} \cup Discards(D), submit : {None} \cup Submits(D),
     fetch : {None} \cup Fetches(D)]

\* The timers run for what they would send, and a page that is left keeps nothing.
PageOk(w) ==
    /\ w.createTimer => w.m = 0 /\ w.resume = 0 /\ Complete(w.form)
    /\ w.patchTimer => w.m # 0 /\ w.modal = 0
    /\ ~w.open => w = Closed

\* The pointer of the session names the draft that is held.
Follows(w, p) == w.m # 0 /\ w.form.type # "" /\ p # None => p.m = w.m

OneLatest(n) == \A p, q \in n.patches : p.latest /\ q.latest => p = q

NobodyWaits(n) ==
    /\ n.create = None /\ n.details = {} /\ n.cancel = None /\ n.discard = None
    /\ n.submit = None /\ n.fetch = None
    /\ \A p \in n.patches : ~p.latest

KindsInv ==
    /\ server \in [Movements -> Rows]
    /\ wiz \in Pages(Known(server)) /\ PageOk(wiz)
    /\ net \in Nets(Known(server)) /\ OneLatest(net)
    /\ ~wiz.open => NobodyWaits(net)
    /\ pointer \in Pointers(Known(server)) /\ Follows(wiz, pointer)
    /\ unsure \in BOOLEAN

-----------------------------------------------------------------------------
(* Facts about headers and forms                                           *)

LEMMA TypesAre ==
    /\ TwoClients \in Types /\ TwoClients # "" /\ "" \notin Types /\ "" \notin Clients
    /\ 0 \notin Movements /\ TwoClients \in OptionalTypes /\ "none" \notin Types
BY WizardAssumption

LEMMA NoHeaderIsNone == NoHeader \notin Headers
BY WizardAssumption DEF NoHeader, Headers

LEMMA EmptyFormIs == EmptyForm \in Forms /\ EmptyForm.type = "" /\ ~Complete(EmptyForm)
BY DEF EmptyForm, Forms, Chosen, Complete

LEMMA FormFields ==
    ASSUME NEW f \in Forms
    PROVE  f.type \in Types \cup {""} /\ f.client \in Chosen /\ f.cost \in Chosen /\ f.cob \in Chosen
BY DEF Forms

LEMMA HeaderFields ==
    ASSUME NEW h \in Headers
    PROVE  h.type \in Types \cup {""} /\ h.client \in Chosen /\ h.cost \in Chosen
BY DEF Headers

LEMMA HeaderOfIs ==
    ASSUME NEW f \in Forms
    PROVE  HeaderOf(f) \in RegularHeaders /\ HeaderOf(f).type = f.type
BY FormFields DEF HeaderOf, RegularHeaders, Headers, Chosen

LEMMA FormOfIs ==
    ASSUME NEW h \in RegularHeaders
    PROVE  FormOf(h) \in Forms /\ FormOf(h).type = h.type /\ HeaderOf(FormOf(h)) = h
<1>1. h \in Headers /\ (h.type # TwoClients => h.cost = "")
  BY DEF RegularHeaders
<1>2. FormOf(h) \in Forms
  BY <1>1, HeaderFields DEF FormOf, CobradoOf, Forms, Chosen
<1>3. HeaderOf(FormOf(h)) = [type |-> h.type, client |-> h.client, cost |-> h.cost]
  BY <1>1 DEF FormOf, CobradoOf, HeaderOf
<1>4. h = [type |-> h.type, client |-> h.client, cost |-> h.cost]
  BY <1>1 DEF Headers
<1> QED
  BY <1>2, <1>3, <1>4 DEF FormOf

LEMMA CobradoIs ==
    ASSUME NEW h \in RegularHeaders
    PROVE  CobradoOf(h) \in Chosen
BY HeaderFields DEF CobradoOf, RegularHeaders, Chosen

\* Only type and client decide whether a header is complete.
LEMMA CompleteIs ==
    ASSUME NEW f, NEW g, f.type = g.type, f.client = g.client
    PROVE  Complete(f) <=> Complete(g)
BY DEF Complete

LEMMA GoodHeaderIs ==
    ASSUME NEW h \in GoodHeaders
    PROVE  h \in RegularHeaders /\ h \in Headers /\ h # NoHeader /\ h.type \in Types /\ Complete(h)
<1>1. h \in RegularHeaders /\ h \in Headers /\ Complete(h)
  BY DEF GoodHeaders, RegularHeaders
<1> QED
  BY <1>1, NoHeaderIsNone, HeaderFields DEF Complete

-----------------------------------------------------------------------------
(* Facts about the records                                                 *)

LEMMA PageFields ==
    ASSUME NEW D, NEW w \in Pages(D)
    PROVE  /\ w.open \in BOOLEAN /\ w.m \in D \cup {0} /\ w.form \in Forms
           /\ w.synced \in RegularHeaders \cup {NoHeader} /\ w.cob \in Chosen
           /\ w.modal \in D \cup {0}
           /\ w.error \in BOOLEAN /\ w.token \in BOOLEAN /\ w.resume \in D \cup {0}
           /\ w.patchTimer \in BOOLEAN /\ w.createTimer \in BOOLEAN
           /\ w.list \subseteq ItemsOf(D)
BY DEF Pages

LEMMA NetFields ==
    ASSUME NEW D, NEW n \in Nets(D)
    PROVE  /\ n.create \in {None} \cup Creations(D) /\ n.lost \subseteq Strays(D)
           /\ n.patches \subseteq Edits(D) /\ n.details \subseteq Readings(D)
           /\ n.cancel \in {None} \cup Cancels(D) /\ n.discard \in {None} \cup Discards(D)
           /\ n.submit \in {None} \cup Submits(D) /\ n.fetch \in {None} \cup Fetches(D)
BY DEF Nets

LEMMA ClosedIs == ASSUME NEW D PROVE Closed \in Pages(D) /\ PageOk(Closed)
BY EmptyFormIs DEF Closed, Pages, PageOk, Chosen

LEMMA SilentIs == ASSUME NEW D PROVE Silent \in Nets(D) /\ OneLatest(Silent) /\ NobodyWaits(Silent)
BY DEF Silent, Nets, OneLatest, NobodyWaits

\* What is well kinded stays so when there are more drafts.
LEMMA MoreDrafts ==
    ASSUME NEW D, NEW E, D \subseteq E
    PROVE  /\ Pages(D) \subseteq Pages(E) /\ Nets(D) \subseteq Nets(E)
           /\ Pointers(D) \subseteq Pointers(E)
<1>1. ItemsOf(D) \subseteq ItemsOf(E)
  BY DEF ItemsOf
<1>2. Pages(D) \subseteq Pages(E)
  BY <1>1 DEF Pages
<1>3. Pointers(D) \subseteq Pointers(E)
  BY DEF Pointers
<1>4. /\ Creations(D) \subseteq Creations(E) /\ Edits(D) \subseteq Edits(E)
      /\ Readings(D) \subseteq Readings(E) /\ Cancels(D) \subseteq Cancels(E)
      /\ Submits(D) \subseteq Submits(E)
  BY DEF Creations, Edits, Readings, Cancels, Submits
<1>5. Discards(D) \subseteq Discards(E) /\ Fetches(D) \subseteq Fetches(E)
  BY <1>1 DEF Discards, Fetches
<1>6. Strays(D) \subseteq Strays(E)
  BY DEF Strays
<1>7. Nets(D) \subseteq Nets(E)
  BY <1>4, <1>5, <1>6 DEF Nets
<1> QED
  BY <1>2, <1>3, <1>7

\* r shows what new shows; only its timers may differ.
Shows(r, new) ==
    /\ r.open = new.open /\ r.m = new.m /\ r.form = new.form /\ r.synced = new.synced
    /\ r.modal = new.modal /\ r.error = new.error /\ r.token = new.token
    /\ r.resume = new.resume /\ r.list = new.list

\* What makes the effects of the two timers run again.
PatchDiffers(old, new) == <<old.form, old.m, old.modal>> # <<new.form, new.m, new.modal>>
CreateDiffers(old, new) ==
    <<old.form.type, old.form.client, old.m, old.resume>>
      # <<new.form.type, new.form.client, new.m, new.resume>>

LEMMA RenderedAll ==
    ASSUME NEW D, NEW old \in Pages(D), NEW new \in Pages(D)
    PROVE  /\ Rendered(old, new) \in Pages(D)
           /\ Shows(Rendered(old, new), new)
           /\ Rendered(old, new).patchTimer =
                IF PatchDiffers(old, new) THEN NeedsPatch(new) ELSE new.patchTimer
           /\ Rendered(old, new).createTimer =
                IF CreateDiffers(old, new) THEN NeedsCreate(new) ELSE new.createTimer
<1>1. NeedsPatch(new) \in BOOLEAN /\ NeedsCreate(new) \in BOOLEAN
  BY DEF NeedsPatch, NeedsCreate
<1>2. PICK patch : patch = IF PatchDiffers(old, new) THEN NeedsPatch(new) ELSE new.patchTimer
  OBVIOUS
<1>3. PICK create : create = IF CreateDiffers(old, new) THEN NeedsCreate(new) ELSE new.createTimer
  OBVIOUS
<1>4. PICK r : r = [new EXCEPT !.patchTimer = patch, !.createTimer = create]
  OBVIOUS
<1>5. r = Rendered(old, new)
  BY <1>2, <1>3, <1>4, Zenon DEF Rendered, PatchDiffers, CreateDiffers
<1>6. patch \in BOOLEAN /\ create \in BOOLEAN
  BY <1>1, <1>2, <1>3, PageFields
<1>7. r \in Pages(D) /\ Shows(r, new) /\ r.patchTimer = patch /\ r.createTimer = create
  BY <1>4, <1>6 DEF Pages, Shows
<1> QED
  BY <1>2, <1>3, <1>5, <1>7, Zenon

LEMMA RenderedIs ==
    ASSUME NEW D, NEW old \in Pages(D), NEW new \in Pages(D)
    PROVE  Rendered(old, new) \in Pages(D) /\ Shows(Rendered(old, new), new)
BY RenderedAll, Zenon

\* A timer that runs after a render is wanted, or ran before and nothing changed.
LEMMA RenderedTimers ==
    ASSUME NEW D, NEW old \in Pages(D), NEW new \in Pages(D)
    PROVE  /\ Rendered(old, new).patchTimer =>
                NeedsPatch(new) \/ (~PatchDiffers(old, new) /\ new.patchTimer)
           /\ Rendered(old, new).createTimer =>
                NeedsCreate(new) \/ (~CreateDiffers(old, new) /\ new.createTimer)
<1>1. Rendered(old, new).patchTimer =
        IF PatchDiffers(old, new) THEN NeedsPatch(new) ELSE new.patchTimer
  BY RenderedAll, Zenon
<1>2. Rendered(old, new).createTimer =
        IF CreateDiffers(old, new) THEN NeedsCreate(new) ELSE new.createTimer
  BY RenderedAll, Zenon
<1> QED
  BY <1>1, <1>2, Zenon

\* A render that changes nothing the PATCH is about leaves its timer alone.
LEMMA RenderedSame ==
    ASSUME NEW D, NEW old \in Pages(D), NEW new \in Pages(D), ~PatchDiffers(old, new)
    PROVE  Rendered(old, new).patchTimer = new.patchTimer
<1>1. Rendered(old, new).patchTimer =
        IF PatchDiffers(old, new) THEN NeedsPatch(new) ELSE new.patchTimer
  BY RenderedAll, Zenon
<1> QED
  BY <1>1

LEMMA RenderedOk ==
    ASSUME NEW D, NEW old \in Pages(D), NEW new \in Pages(D),
           PageOk(old), new.open,
           new.patchTimer => old.patchTimer, new.createTimer => old.createTimer
    PROVE  PageOk(Rendered(old, new))
<1>1. PICK r : r = Rendered(old, new)
  OBVIOUS
<1>2. Shows(r, new)
  BY <1>1, RenderedIs, Zenon
<1>3. r.patchTimer => NeedsPatch(new) \/ (~PatchDiffers(old, new) /\ new.patchTimer)
  BY <1>1, RenderedTimers, Zenon
<1>4. r.createTimer => NeedsCreate(new) \/ (~CreateDiffers(old, new) /\ new.createTimer)
  BY <1>1, RenderedTimers, Zenon
<1>5. r.patchTimer => r.m # 0 /\ r.modal = 0
  BY <1>2, <1>3 DEF NeedsPatch, PageOk, PatchDiffers, Shows
<1>6. r.createTimer => r.m = 0 /\ r.resume = 0 /\ Complete(r.form)
  <2>1. CASE NeedsCreate(new)
    BY <1>2, <2>1 DEF NeedsCreate, Shows
  <2>2. CASE ~CreateDiffers(old, new) /\ new.createTimer
    BY <1>2, <2>2, CompleteIs DEF PageOk, CreateDiffers, Shows
  <2> QED
    BY <1>4, <2>1, <2>2
<1>7. PageOk(r)
  BY <1>2, <1>5, <1>6 DEF PageOk, Shows
<1> QED
  BY <1>1, <1>7

\* A render of a changed header that arms nothing leaves nothing to send.
LEMMA NothingToSend ==
    ASSUME NEW D, NEW old \in Pages(D), NEW new \in Pages(D), PatchDiffers(old, new),
           ~Rendered(old, new).patchTimer, new.m # 0, new.modal = 0, new.synced # NoHeader
    PROVE  HeaderOf(new.form) = new.synced
<1>1. Rendered(old, new).patchTimer =
        IF PatchDiffers(old, new) THEN NeedsPatch(new) ELSE new.patchTimer
  BY RenderedAll, Zenon
<1>2. Rendered(old, new).patchTimer = NeedsPatch(new)
  BY <1>1, Zenon
<1> QED
  BY <1>2, Zenon DEF NeedsPatch

LEMMA PointedIs ==
    ASSUME NEW D, NEW old \in Pages(D), NEW new \in Pages(D), NEW before \in Pointers(D)
    PROVE  LET p == Pointed(old, new, before) IN
           /\ p \in Pointers(D)
           /\ p.m = new.m \/ p = before
           /\ new.m = 0 => p = before
           /\ Follows(old, before) => Follows(new, p)
<1>1. PICK p : p = Pointed(old, new, before)
  OBVIOUS
<1>2. CASE new.m # 0 /\ new.form.type # "" /\ <<old.m, old.form>> # <<new.m, new.form>>
  <2>1. p = [m |-> new.m, form |-> new.form]
    BY <1>1, <1>2, Zenon DEF Pointed
  <2>2. p.m = new.m /\ p \in Pointers(D)
    BY <1>2, <2>1 DEF Pointers, Pages
  <2> QED
    BY <1>1, <1>2, <2>2 DEF Follows
<1>3. CASE ~(new.m # 0 /\ new.form.type # "" /\ <<old.m, old.form>> # <<new.m, new.form>>)
  <2>1. p = before
    BY <1>1, <1>3, Zenon DEF Pointed
  <2>2. new.m # 0 /\ new.form.type # "" => old.m = new.m /\ old.form = new.form
    BY <1>3
  <2> QED
    BY <1>1, <2>1, <2>2 DEF Follows
<1> QED
  BY <1>2, <1>3

LEMMA ResetIs ==
    ASSUME NEW D, NEW w \in Pages(D)
    PROVE  /\ Reset(w).w \in Pages(D) /\ Reset(w).pointer = None /\ Reset(w).w.open
           /\ Reset(w).w.m = 0 /\ Reset(w).w.modal = 0 /\ Reset(w).w.form = EmptyForm
           /\ ~Reset(w).w.patchTimer /\ ~Reset(w).w.createTimer /\ ~Reset(w).w.error
           /\ Reset(w).w.resume = w.resume
BY EmptyFormIs DEF Reset, Closed, Pages, Chosen
-----------------------------------------------------------------------------
(* Facts about requests                                                    *)

LEMMA RowFields ==
    ASSUME NEW row \in Rows
    PROVE  /\ row.status \in {"none", "BORRADOR", "CONFIRMADA", "deleted"}
           /\ row.header \in GoodHeaders \cup {NoHeader} /\ row.payload \in BOOLEAN
           /\ row.status # "none" => row.header \in GoodHeaders
           /\ row.status = "none" => ~row.payload
<1>1. CASE row = NoMovement
  BY <1>1 DEF NoMovement
<1>2. CASE row \in [status : {"BORRADOR", "CONFIRMADA", "deleted"}, header : GoodHeaders,
                    payload : BOOLEAN]
  BY <1>2
<1> QED
  BY <1>1, <1>2 DEF Rows

LEMMA KnownIs ==
    ASSUME NEW s, NEW m
    PROVE  m \in Known(s) <=> m \in Movements /\ s[m].status # "none"
BY DEF Known

LEMMA ServerItemsAre == ASSUME KindsInv PROVE ServerItems \subseteq ItemsOf(Known(server))
<1>1. ASSUME NEW m \in Existing
      PROVE  [m |-> m, header |-> server[m].header] \in ItemsOf(Known(server))
  <2>1. m \in Movements /\ server[m].status = "BORRADOR" /\ server[m] \in Rows
    BY <1>1 DEF Existing, KindsInv
  <2>2. m \in Known(server) /\ server[m].header \in GoodHeaders
    BY <2>1, KnownIs, RowFields
  <2> QED
    BY <2>2 DEF ItemsOf
<1> QED
  BY <1>1 DEF ServerItems

LEMMA FetchingIs ==
    ASSUME KindsInv, NEW n \in Nets(Known(server))
    PROVE  /\ Fetching(n) \in Nets(Known(server))
           /\ Fetching(n).create = n.create /\ Fetching(n).lost = n.lost
           /\ Fetching(n).patches = n.patches /\ Fetching(n).details = n.details
           /\ Fetching(n).cancel = n.cancel /\ Fetching(n).discard = n.discard
           /\ Fetching(n).submit = n.submit
<1>1. [m |-> 0, items |-> ServerItems] \in Fetches(Known(server))
  BY ServerItemsAre DEF Fetches
<1>2. PICK ask : ask = [m |-> 0, items |-> ServerItems]
  OBVIOUS
<1>3. CASE n.fetch = None
  <2>1. Fetching(n) = [n EXCEPT !.fetch = ask]
    BY <1>2, <1>3, Zenon DEF Fetching
  <2>2. ask \in {None} \cup Fetches(Known(server))
    BY <1>1, <1>2
  <2> QED
    BY <2>1, <2>2 DEF Nets
<1>4. CASE n.fetch # None
  BY <1>4, Zenon DEF Fetching
<1> QED
  BY <1>3, <1>4

LEMMA StrayIs ==
    ASSUME NEW D, NEW r, r.m \in D, NEW kind \in {"delete", "execute"},
           NEW header \in Headers \cup {NoHeader},
           NEW late \in {"nothing", "discarded", "cancelled", "done"}
    PROVE  Stray(kind, r, header, late) \in Strays(D)
<1>1. PICK k : k = IF r.answer = "ok" THEN "answered" ELSE kind
  OBVIOUS
<1>2. k \in {"delete", "execute", "answered"}
  BY <1>1
<1>3. Stray(kind, r, header, late) = [kind |-> k, m |-> r.m, header |-> header, late |-> late]
  BY <1>1 DEF Stray
<1> QED
  BY <1>2, <1>3 DEF Strays

LEMMA WaitingIs ==
    ASSUME NEW x, NEW r \in Waiting(x)
    PROVE  r = x /\ x # None
BY DEF Waiting

\* Requests that end a draft, left by a page that is gone.
LEMMA EndingsAre ==
    ASSUME NEW D, NEW n \in Nets(D)
    PROVE  /\ {Stray("delete", r, NoHeader, "cancelled") : r \in Waiting(n.cancel)} \subseteq Strays(D)
           /\ {Stray("delete", r, NoHeader, AfterDiscard(r)) :
                 r \in {x \in Waiting(n.discard) : x.answer = "none" \/ HoldsDiscarded(x)}}
                \subseteq Strays(D)
           /\ {Stray("execute", r, [NoHeader EXCEPT !.type = r.type], "done") :
                 r \in Waiting(n.submit)} \subseteq Strays(D)
<1>1. /\ n.cancel \in {None} \cup Cancels(D) /\ n.discard \in {None} \cup Discards(D)
      /\ n.submit \in {None} \cup Submits(D)
  BY NetFields
<1>2. ASSUME NEW r \in Waiting(n.cancel)
      PROVE  Stray("delete", r, NoHeader, "cancelled") \in Strays(D)
  <2>1. r.m \in D
    BY <1>1, WaitingIs DEF Cancels
  <2> QED
    BY <2>1, StrayIs
<1>3. ASSUME NEW r \in Waiting(n.discard)
      PROVE  Stray("delete", r, NoHeader, AfterDiscard(r)) \in Strays(D)
  <2>1. r.m \in D
    BY <1>1, WaitingIs DEF Discards
  <2>2. AfterDiscard(r) \in {"nothing", "discarded", "cancelled", "done"}
    BY DEF AfterDiscard
  <2> QED
    BY <2>1, <2>2, StrayIs
<1>4. ASSUME NEW r \in Waiting(n.submit)
      PROVE  Stray("execute", r, [NoHeader EXCEPT !.type = r.type], "done") \in Strays(D)
  <2>1. r.m \in D /\ r.type \in Types
    BY <1>1, WaitingIs DEF Submits
  <2>2. [NoHeader EXCEPT !.type = r.type] \in Headers
    BY <2>1 DEF NoHeader, Headers, Chosen
  <2> QED
    BY <2>1, <2>2, StrayIs
<1> QED
  BY <1>2, <1>3, <1>4

LEMMA AbandonedIs ==
    ASSUME NEW D, NEW n \in Nets(D)
    PROVE  /\ Abandoned(n) \in Nets(D) /\ NobodyWaits(Abandoned(n)) /\ OneLatest(Abandoned(n))
           /\ n.patches = {} => Abandoned(n).patches = {}
<1>1. /\ n.create \in {None} \cup Creations(D) /\ n.lost \subseteq Strays(D)
      /\ n.patches \subseteq Edits(D)
  BY NetFields
<1>2. PICK creates :
        creates = {[kind |-> "create", m |-> 0, header |-> c.header, late |-> "nothing"] :
                     c \in {x \in {n.create} : x # None /\ ~x.served}}
  OBVIOUS
<1>3. creates \subseteq Strays(D)
  BY <1>1, <1>2 DEF Creations, Strays
<1>4. PICK cancels : cancels = {Stray("delete", r, NoHeader, "cancelled") : r \in Waiting(n.cancel)}
  OBVIOUS
<1>5. PICK discards : discards = {Stray("delete", r, NoHeader, AfterDiscard(r)) :
                 r \in {x \in Waiting(n.discard) : x.answer = "none" \/ HoldsDiscarded(x)}}
  OBVIOUS
<1>6. PICK executes : executes = {Stray("execute", r, [NoHeader EXCEPT !.type = r.type], "done") :
                 r \in Waiting(n.submit)}
  OBVIOUS
<1>7. cancels \subseteq Strays(D) /\ discards \subseteq Strays(D) /\ executes \subseteq Strays(D)
  BY <1>4, <1>5, <1>6, EndingsAre, Zenon
<1>8. PICK patches : patches = {[p EXCEPT !.latest = FALSE] : p \in {q \in n.patches : q.answer = "none"}}
  OBVIOUS
<1>9. patches \subseteq Edits(D) /\ (\A p \in patches : ~p.latest) /\ (n.patches = {} => patches = {})
  BY <1>1, <1>8 DEF Edits
<1>10. PICK lost : lost = n.lost \cup creates \cup cancels \cup discards \cup executes
  OBVIOUS
<1>11. Abandoned(n) =
        [n EXCEPT !.create = None, !.lost = lost, !.patches = patches, !.details = {},
                  !.fetch = None, !.submit = None, !.cancel = None, !.discard = None]
  BY <1>2, <1>4, <1>5, <1>6, <1>8, <1>10 DEF Abandoned
<1>12. PICK a : a = Abandoned(n)
  OBVIOUS
<1>13. lost \subseteq Strays(D)
  BY <1>1, <1>3, <1>7, <1>10
<1>14. /\ a.create = None /\ a.lost = lost /\ a.patches = patches /\ a.details = {}
       /\ a.fetch = None /\ a.submit = None /\ a.cancel = None /\ a.discard = None
       /\ a \in Nets(D)
  BY <1>9, <1>11, <1>12, <1>13 DEF Nets
<1>15. NobodyWaits(a) /\ OneLatest(a)
  BY <1>9, <1>14 DEF NobodyWaits, OneLatest
<1> QED
  BY <1>9, <1>12, <1>14, <1>15

LEMMA UnheardIs ==
    ASSUME NEW D, NEW n \in Nets(D)
    PROVE  /\ Unheard(n) \in Nets(D) /\ Unheard(n).patches = n.patches
           /\ NobodyWaits(n) => NobodyWaits(Unheard(n))
<1>1. n.lost \subseteq Strays(D)
  BY NetFields
<1>2. PICK lost : lost = {[r EXCEPT !.late = "nothing"] : r \in {x \in n.lost : x.kind # "answered"}}
  OBVIOUS
<1>3. lost \subseteq Strays(D)
  BY <1>1, <1>2 DEF Strays
<1>4. PICK u : u = Unheard(n)
  OBVIOUS
<1>5. u = [n EXCEPT !.lost = lost]
  BY <1>2, <1>4 DEF Unheard
<1>6. /\ u \in Nets(D) /\ u.patches = n.patches /\ u.create = n.create /\ u.details = n.details
      /\ u.cancel = n.cancel /\ u.discard = n.discard /\ u.submit = n.submit /\ u.fetch = n.fetch
  BY <1>3, <1>5 DEF Nets
<1>7. NobodyWaits(n) => NobodyWaits(u)
  BY <1>6 DEF NobodyWaits
<1> QED
  BY <1>4, <1>6, <1>7

\* What mounting the page finds of the requests before it.
LEMMA LeftIs ==
    ASSUME NEW D, NEW n \in Nets(D), NEW left \in {Abandoned(n), Unheard(Abandoned(n))}
    PROVE  /\ left \in Nets(D) /\ NobodyWaits(left)
           /\ n.patches = {} => left.patches = {}
<1>1. PICK a : a = Abandoned(n)
  OBVIOUS
<1>2. a \in Nets(D) /\ NobodyWaits(a) /\ (n.patches = {} => a.patches = {})
  BY <1>1, AbandonedIs
<1>3. Unheard(a) \in Nets(D) /\ NobodyWaits(Unheard(a)) /\ Unheard(a).patches = a.patches
  BY <1>2, UnheardIs
<1>4. left = a \/ left = Unheard(a)
  BY <1>1
<1> QED
  BY <1>2, <1>3, <1>4

\* What giving up a creation adds to the requests nobody waits for.
LEMMA GivenUpIs ==
    ASSUME NEW D, NEW c \in {None} \cup Creations(D)
    PROVE  Abandoned([Silent EXCEPT !.create = c]).lost \subseteq Strays(D)
<1>1. PICK n : n = [Silent EXCEPT !.create = c]
  OBVIOUS
<1>2. Silent \in Nets(D)
  BY SilentIs
<1>3. n \in Nets(D)
  BY <1>1, <1>2 DEF Nets
<1> QED
  BY <1>1, <1>3, AbandonedIs, NetFields

-----------------------------------------------------------------------------
(* Facts about what the server does                                        *)

\* A change of one row, which may be a new draft.
LEMMA ServerSteps ==
    ASSUME NEW s \in [Movements -> Rows], NEW m \in Movements, NEW row \in Rows,
           row.status # "none"
    PROVE  /\ [s EXCEPT ![m] = row] \in [Movements -> Rows]
           /\ Known(s) \subseteq Known([s EXCEPT ![m] = row])
           /\ m \in Known([s EXCEPT ![m] = row])
BY DEF Known

\* What a draft ended by a discard or by an execution leaves, whatever it was.
Ends(s, t, m, status) ==
    /\ t \in [Movements -> Rows] /\ Known(s) \subseteq Known(t)
    /\ \A x \in Movements :
          /\ t[x].header = s[x].header /\ t[x].payload = s[x].payload
          /\ x # m => t[x] = s[x]
    /\ t[m].status = IF s[m].status = "BORRADOR" THEN status ELSE s[m].status

LEMMA EndIs ==
    ASSUME NEW s \in [Movements -> Rows], NEW m \in Movements,
           NEW status \in {"CONFIRMADA", "deleted"}, s[m].status = "BORRADOR"
    PROVE  Ends(s, [s EXCEPT ![m].status = status], m, status)
<1>1. PICK row : row = [s[m] EXCEPT !.status = status]
  OBVIOUS
<1>2. PICK old : old = s[m]
  OBVIOUS
<1>3. old \in Rows /\ old.status = "BORRADOR"
  BY <1>2
<1>4. old \in [status : {"BORRADOR", "CONFIRMADA", "deleted"}, header : GoodHeaders,
              payload : BOOLEAN]
  BY <1>3 DEF Rows, NoMovement
<1>5. row \in Rows /\ row.status = status /\ row.header = old.header /\ row.payload = old.payload
  BY <1>1, <1>2, <1>4 DEF Rows
<1>6. PICK t : t = [s EXCEPT ![m] = row]
  OBVIOUS
<1>7. t = [s EXCEPT ![m].status = status]
  BY <1>1, <1>6
<1>8. t \in [Movements -> Rows] /\ Known(s) \subseteq Known(t)
  BY <1>5, <1>6, ServerSteps
<1>9. \A x \in Movements : (x # m => t[x] = s[x]) /\ (x = m => t[x] = row)
  BY <1>6
<1>10. Ends(s, t, m, status)
  BY <1>2, <1>3, <1>5, <1>8, <1>9 DEF Ends
<1> QED
  BY <1>7, <1>10

LEMMA DeletedIs ==
    ASSUME KindsInv, NEW m \in Movements
    PROVE  /\ server[m].status = "BORRADOR" => Ends(server, Deleted(m), m, "deleted")
           /\ server[m].status # "BORRADOR" => Deleted(m) = server
<1>1. server \in [Movements -> Rows]
  BY DEF KindsInv
<1>2. CASE server[m].status = "BORRADOR"
  <2>1. Deleted(m) = [server EXCEPT ![m].status = "deleted"]
    BY <1>2 DEF Deleted
  <2> QED
    BY <1>1, <1>2, <2>1, EndIs
<1>3. CASE server[m].status # "BORRADOR"
  <2>1. PICK row : row = server[m]
    OBVIOUS
  <2>2. [row EXCEPT !.status = row.status] = row
    <3>1. row \in Rows
      BY <1>1, <2>1
    <3>2. CASE row = NoMovement
      BY <3>2 DEF NoMovement
    <3>3. CASE row \in [status : {"BORRADOR", "CONFIRMADA", "deleted"}, header : GoodHeaders,
                        payload : BOOLEAN]
      BY <3>3
    <3> QED
      BY <3>1, <3>2, <3>3 DEF Rows
  <2>3. Deleted(m) = [server EXCEPT ![m] = row]
    BY <1>3, <2>1, <2>2 DEF Deleted
  <2>4. Deleted(m) = server
    BY <1>1, <2>1, <2>3
  <2> QED
    BY <1>3, <2>4
<1> QED
  BY <1>2, <1>3

LEMMA ExecutedIs ==
    ASSUME KindsInv, NEW m \in Movements, NEW type
    PROVE  /\ Executes(m, type) => Ends(server, Executed(m, type), m, "CONFIRMADA")
           /\ ~Executes(m, type) => Executed(m, type) = server
<1>1. server \in [Movements -> Rows]
  BY DEF KindsInv
<1>2. CASE Executes(m, type)
  <2>1. Executed(m, type) = [server EXCEPT ![m].status = "CONFIRMADA"]
    BY <1>2 DEF Executed
  <2>2. server[m].status = "BORRADOR"
    BY <1>2 DEF Executes
  <2> QED
    BY <1>1, <1>2, <2>1, <2>2, EndIs
<1>3. CASE ~Executes(m, type)
  BY <1>3 DEF Executed
<1> QED
  BY <1>2, <1>3

\* What the server did and whether the page was told.
LEMMA ServedIs ==
    ASSUME NEW done, NEW answer, NEW told, Served(done, answer, told), unsure \in BOOLEAN
    PROVE  /\ server' \in {server, done} /\ unsure' \in BOOLEAN
           /\ ~unsure' => /\ ~unsure
                          /\ \/ told = answer /\ server' = done
                             \/ told = "error" /\ server' = server
<1>1. CASE told = answer /\ server' = done /\ unsure' = unsure
  BY <1>1
<1>2. CASE told = "error" /\ server' \in {server, done} /\ unsure' = (unsure \/ server' # server)
  <2>1. unsure' \in BOOLEAN
    <3>1. (unsure \/ server' # server) \in BOOLEAN
      OBVIOUS
    <3> QED
      BY <1>2, <3>1, Zenon
  <2>2. ~unsure' => ~unsure /\ server' = server
    BY <1>2, Zenon
  <2> QED
    BY <1>2, <2>1, <2>2, Zenon
<1> QED
  BY <1>1, <1>2, Zenon DEF Served

LEMMA NewDraftIs ==
    ASSUME KindsInv, NEW m \in Movements, NEW h \in GoodHeaders
    PROVE  /\ [server EXCEPT ![m] = NewDraft(h)] \in [Movements -> Rows]
           /\ Known(server) \subseteq Known([server EXCEPT ![m] = NewDraft(h)])
           /\ m \in Known([server EXCEPT ![m] = NewDraft(h)])
           /\ NewDraft(h).status = "BORRADOR" /\ NewDraft(h).header = h
<1>1. NewDraft(h) \in Rows /\ NewDraft(h).status = "BORRADOR" /\ NewDraft(h).header = h
  BY DEF NewDraft, Rows
<1> QED
  BY <1>1, ServerSteps DEF KindsInv

-----------------------------------------------------------------------------
(* Every action keeps the kinds                                            *)

LEMMA KindsStep ==
    ASSUME KindsInv, server' \in [Movements -> Rows], NEW D, D \subseteq Known(server'),
           wiz' \in Pages(D), PageOk(wiz'), net' \in Nets(D), OneLatest(net'),
           wiz'.open \/ NobodyWaits(net'), pointer' \in Pointers(D), unsure' \in BOOLEAN,
           \/ Follows(wiz', pointer')
           \/ wiz'.m = 0
           \/ pointer' = None
           \/ wiz'.m = wiz.m /\ wiz'.form = wiz.form /\ pointer' = pointer
    PROVE  KindsInv'
<1>1. Follows(wiz', pointer')
  BY DEF KindsInv, Follows
<1> QED
  BY <1>1, MoreDrafts DEF KindsInv

LEMMA KindsFacts ==
    ASSUME KindsInv
    PROVE  /\ server \in [Movements -> Rows]
           /\ wiz \in Pages(Known(server)) /\ PageOk(wiz)
           /\ net \in Nets(Known(server)) /\ OneLatest(net)
           /\ ~wiz.open => NobodyWaits(net)
           /\ pointer \in Pointers(Known(server)) /\ Follows(wiz, pointer)
           /\ unsure \in BOOLEAN
BY DEF KindsInv

\* Whoever waits for an answer is still there.
LEMMA WaitingIsOpen ==
    ASSUME KindsInv,
           \/ net.create # None \/ net.details # {} \/ net.cancel # None \/ net.discard # None
           \/ net.submit # None \/ net.fetch # None \/ \E p \in net.patches : p.latest
    PROVE  wiz.open
BY DEF KindsInv, NobodyWaits

\* So is a page that holds or sends something.
LEMMA BusyIsOpen ==
    ASSUME KindsInv, wiz.m # 0 \/ wiz.modal # 0 \/ wiz.patchTimer \/ wiz.createTimer
    PROVE  wiz.open
<1>1. ~wiz.open => wiz = Closed
  BY KindsFacts DEF PageOk
<1>2. Closed.m = 0 /\ Closed.modal = 0 /\ ~Closed.patchTimer /\ ~Closed.createTimer
  BY DEF Closed
<1> QED
  BY <1>1, <1>2

LEMMA MountedIs ==
    ASSUME NEW D, pointer \in Pointers(D), NEW token \in BOOLEAN, NEW resume \in D \cup {0}
    PROVE  LET w == Mounted(token, resume) IN
           /\ w \in Pages(D)
           /\ w.open /\ ~w.patchTimer /\ ~w.createTimer /\ w.modal = 0 /\ ~w.error
           /\ w.resume = resume
           /\ \/ /\ w.m = 0 /\ w.form = EmptyForm
                 /\ token \/ resume # 0 \/ pointer = None
              \/ /\ ~token /\ resume = 0 /\ pointer # None
                 /\ w.m = pointer.m /\ w.synced = HeaderOf(w.form)
<1>1. PICK blank : blank = [Closed EXCEPT !.open = TRUE, !.token = token, !.resume = resume]
  OBVIOUS
<1>2. /\ blank \in Pages(D) /\ blank.open /\ blank.m = 0 /\ blank.form = EmptyForm
      /\ blank.resume = resume /\ ~blank.patchTimer /\ ~blank.createTimer /\ blank.modal = 0
      /\ ~blank.error /\ blank.token = token
  BY <1>1, EmptyFormIs DEF Closed, Pages, Chosen
<1>3. CASE token
  <2>1. PICK w : w = Reset(blank).w
    OBVIOUS
  <2>2. Mounted(token, resume) = w
    BY <1>1, <1>3, <2>1 DEF Mounted
  <2>3. /\ w \in Pages(D) /\ w.open /\ w.m = 0 /\ w.modal = 0 /\ w.form = EmptyForm
        /\ ~w.patchTimer /\ ~w.createTimer /\ ~w.error /\ w.resume = resume
    BY <1>2, <2>1, ResetIs
  <2> QED
    BY <1>3, <2>2, <2>3
<1>4. CASE ~token
  <2>1. Mounted(token, resume) = Restored(blank)
    BY <1>1, <1>4 DEF Mounted
  <2>2. CASE resume = 0 /\ pointer # None
    <3>1. PICK synced : synced = HeaderOf(pointer.form)
      OBVIOUS
    <3>2. pointer.m \in D /\ pointer.form \in Forms
      BY <2>2 DEF Pointers
    <3>3. synced \in RegularHeaders /\ CobradoOf(synced) \in Chosen
      BY <3>1, <3>2, HeaderOfIs, CobradoIs
    <3>7. PICK cob : cob = CobradoOf(synced)
      OBVIOUS
    <3>4. PICK w : w = [blank EXCEPT !.m = pointer.m, !.form = pointer.form, !.synced = synced,
                                     !.cob = cob]
      OBVIOUS
    <3>5. Restored(blank) = w
      BY <1>2, <1>4, <2>2, <3>1, <3>4, <3>7 DEF Restored
    <3>6. /\ w \in Pages(D) /\ w.open /\ w.m = pointer.m /\ w.modal = 0 /\ w.form = pointer.form
          /\ ~w.patchTimer /\ ~w.createTimer /\ ~w.error /\ w.resume = resume
          /\ w.synced = synced
      BY <1>2, <3>2, <3>3, <3>4, <3>7 DEF Pages
    <3> QED
      BY <1>4, <2>1, <2>2, <3>1, <3>5, <3>6
  <2>3. CASE ~(resume = 0 /\ pointer # None)
    <3>1. Restored(blank) = blank
      BY <1>2, <2>3 DEF Restored
    <3> QED
      BY <1>2, <2>1, <2>3, <3>1
  <2> QED
    BY <2>2, <2>3
<1> QED
  BY <1>3, <1>4

LEMMA MountKinds ==
    ASSUME KindsInv, NEW token \in BOOLEAN, NEW resume \in Known(server) \cup {0},
           NEW left \in {Abandoned(net), Unheard(Abandoned(net))},
           Mount(token, resume, left), UNCHANGED server
    PROVE  KindsInv'
<1>1. PICK D : D = Known(server)
  OBVIOUS
<1>2. PICK w : w = Mounted(token, resume)
  OBVIOUS
<1>3. w \in Pages(D) /\ w.open /\ ~w.patchTimer /\ ~w.createTimer
  BY <1>1, <1>2, MountedIs, KindsFacts
<1>4. wiz' = Rendered(Closed, w)
  BY <1>2 DEF Mount
<1>5. wiz' \in Pages(D) /\ PageOk(wiz') /\ wiz'.open /\ wiz'.m = w.m /\ wiz'.form = w.form
  <2>1. Closed \in Pages(D) /\ PageOk(Closed)
    BY ClosedIs
  <2>2. Rendered(Closed, w) \in Pages(D) /\ Shows(Rendered(Closed, w), w)
    BY <1>3, <2>1, RenderedIs
  <2>3. PageOk(Rendered(Closed, w))
    BY <1>3, <2>1, RenderedOk
  <2> QED
    BY <1>3, <1>4, <2>2, <2>3 DEF Shows
<1>6. pointer' \in Pointers(D) /\ Follows(wiz', pointer')
  <2>1. PICK before : before = IF token THEN None ELSE pointer
    OBVIOUS
  <2>2. before \in Pointers(D) /\ Closed \in Pages(D) /\ Follows(Closed, before)
    BY <1>1, <2>1, KindsFacts, ClosedIs DEF Pointers, Follows, Closed
  <2>3. pointer' = Pointed(Closed, w, before)
    BY <1>2, <2>1 DEF Mount
  <2>4. pointer' \in Pointers(D) /\ Follows(w, pointer')
    BY <1>3, <2>2, <2>3, PointedIs
  <2> QED
    BY <1>5, <2>4 DEF Follows
<1>7. PICK n : n = Fetching(left)
  OBVIOUS
<1>8. n \in Nets(D) /\ OneLatest(n) /\ n.details = {}
  <2>1. left \in Nets(D) /\ NobodyWaits(left)
    BY <1>1, KindsFacts, LeftIs
  <2>2. n \in Nets(D) /\ n.patches = left.patches /\ n.details = left.details
    BY <1>1, <1>7, <2>1, FetchingIs
  <2> QED
    BY <2>1, <2>2 DEF NobodyWaits, OneLatest
<1>9. net' \in Nets(D) /\ OneLatest(net')
  <2>1. CASE resume = 0
    BY <1>7, <1>8, <2>1 DEF Mount
  <2>2. CASE resume # 0
    <3>1. PICK d : d = [m |-> resume, kind |-> "resume", header |-> NoHeader]
      OBVIOUS
    <3>2. d \in Readings(D)
      BY <1>1, <2>2, <3>1 DEF Readings
    <3>3. net' = [n EXCEPT !.details = {d}]
      BY <1>7, <2>2, <3>1 DEF Mount
    <3> QED
      BY <1>8, <3>2, <3>3 DEF Nets, OneLatest
  <2> QED
    BY <2>1, <2>2
<1>10. unsure' \in BOOLEAN
  BY DEF Mount
<1> QED
  BY <1>1, <1>5, <1>6, <1>9, <1>10, KindsFacts, KindsStep

LEMMA RenderIs ==
    ASSUME KindsInv, NEW new \in Pages(Known(server)), NEW before \in Pointers(Known(server)),
           Render(new, before), new.open, before = pointer \/ before = None,
           new.patchTimer => wiz.patchTimer, new.createTimer => wiz.createTimer
    PROVE  /\ wiz' \in Pages(Known(server)) /\ PageOk(wiz') /\ Shows(wiz', new)
           /\ pointer' \in Pointers(Known(server)) /\ Follows(wiz', pointer')
           /\ pointer'.m = new.m \/ pointer' = before
           /\ new.m = 0 => pointer' = before
<1>1. wiz' = Rendered(wiz, new) /\ pointer' = Pointed(wiz, new, before)
  BY DEF Render
<1>2. wiz \in Pages(Known(server)) /\ PageOk(wiz)
  BY KindsFacts
<1>3. Rendered(wiz, new) \in Pages(Known(server)) /\ Shows(Rendered(wiz, new), new)
  BY <1>2, RenderedIs
<1>4. PageOk(Rendered(wiz, new))
  BY <1>2, RenderedOk
<1>5. Follows(wiz, before)
  BY KindsFacts DEF Follows
<1>6. /\ pointer' \in Pointers(Known(server)) /\ Follows(new, pointer')
      /\ pointer'.m = new.m \/ pointer' = before
      /\ new.m = 0 => pointer' = before
  BY <1>1, <1>2, <1>5, PointedIs
<1>7. Follows(wiz', pointer')
  BY <1>1, <1>3, <1>6 DEF Follows, Shows
<1> QED
  BY <1>1, <1>3, <1>4, <1>6, <1>7

\* The wizard an answer leaves blank.
LEMMA RenderResetIs ==
    ASSUME KindsInv, NEW w \in Pages(Known(server)), RenderReset(w)
    PROVE  /\ wiz' \in Pages(Known(server)) /\ PageOk(wiz') /\ wiz'.open
           /\ wiz'.m = 0 /\ wiz'.modal = 0 /\ wiz'.form = EmptyForm /\ wiz'.resume = w.resume
           /\ pointer' = None
<1>1. PICK new : new = Reset(w).w
  OBVIOUS
<1>2. /\ new \in Pages(Known(server)) /\ Reset(w).pointer = None /\ new.open
      /\ new.m = 0 /\ new.modal = 0 /\ new.form = EmptyForm
      /\ ~new.patchTimer /\ ~new.createTimer /\ new.resume = w.resume
  BY <1>1, ResetIs
<1>3. Render(new, None)
  BY <1>1, <1>2 DEF RenderReset
<1>4. None \in Pointers(Known(server))
  BY DEF Pointers
<1>5. /\ wiz' \in Pages(Known(server)) /\ PageOk(wiz') /\ Shows(wiz', new)
  BY <1>2, <1>3, <1>4, RenderIs
<1>6. pointer' = None
  BY <1>2, <1>3, <1>4, RenderIs
<1> QED
  BY <1>2, <1>5, <1>6 DEF Shows

LEMMA MenuKinds == ASSUME KindsInv, Menu PROVE KindsInv'
<1>1. CASE ~wiz.open /\ Mount(TRUE, 0, Abandoned(net))
  BY <1>1, MountKinds DEF Menu
<1>2. CASE /\ wiz.open /\ RenderReset([wiz EXCEPT !.token = TRUE, !.resume = 0])
           /\ unsure' = HeaderInFlight /\ UNCHANGED net
  <2>1. PICK w : w = [wiz EXCEPT !.token = TRUE, !.resume = 0]
    OBVIOUS
  <2>2. w \in Pages(Known(server)) /\ RenderReset(w)
    BY <1>2, <2>1, KindsFacts DEF Pages
  <2>3. wiz' \in Pages(Known(server)) /\ PageOk(wiz') /\ wiz'.open /\ pointer' = None
    BY <2>2, RenderResetIs
  <2>4. unsure' \in BOOLEAN
    BY <1>2 DEF HeaderInFlight
  <2>5. pointer' \in Pointers(Known(server)) /\ server' = server
    BY <2>3 DEF Pointers, Menu
  <2> QED
    BY <1>2, <2>3, <2>4, <2>5, KindsFacts, KindsStep
<1> QED
  BY <1>1, <1>2 DEF Menu

LEMMA EnterKinds ==
    ASSUME KindsInv, NEW m \in Movements \cup {0}, Enter(m)
    PROVE  KindsInv'
<1>1. m \in Known(server) \cup {0}
  BY DEF Enter, Known
<1> QED
  BY <1>1, MountKinds DEF Enter

LEMMA ReloadKinds == ASSUME KindsInv, ReloadPage PROVE KindsInv'
<1>1. wiz.token \in BOOLEAN /\ wiz.resume \in Known(server) \cup {0}
  BY KindsFacts, PageFields
<1> QED
  BY <1>1, MountKinds DEF ReloadPage

LEMMA LeaveKinds == ASSUME KindsInv, Leave PROVE KindsInv'
<1>1. PICK D : D = Known(server)
  OBVIOUS
<1>2. Abandoned(net) \in Nets(D) /\ NobodyWaits(Abandoned(net)) /\ OneLatest(Abandoned(net))
  BY <1>1, KindsFacts, AbandonedIs
<1>3. Closed \in Pages(D) /\ PageOk(Closed) /\ Closed.m = 0
  BY ClosedIs DEF Closed
<1>4. unsure' \in BOOLEAN
  BY DEF Leave
<1> QED
  BY <1>1, <1>2, <1>3, <1>4, KindsFacts, KindsStep DEF Leave

LEMMA EditTypeKinds ==
    ASSUME KindsInv, NEW type \in Types \cup {""}, EditType(type)
    PROVE  KindsInv'
<1>1. PICK form : form = [EmptyForm EXCEPT !.type = type]
  OBVIOUS
<1>2. form \in Forms
  BY <1>1 DEF EmptyForm, Forms, Chosen
<1>3. PICK new : new = [wiz EXCEPT !.form = form]
  OBVIOUS
<1>4. /\ new \in Pages(Known(server)) /\ new.open
      /\ new.patchTimer = wiz.patchTimer /\ new.createTimer = wiz.createTimer
  BY <1>2, <1>3, KindsFacts DEF Pages, EditType, MayEdit
<1>5. Render(new, pointer) /\ UNCHANGED <<server, net>>
  BY <1>1, <1>3 DEF EditType
<1>6. wiz' \in Pages(Known(server)) /\ PageOk(wiz') /\ Shows(wiz', new)
      /\ pointer' \in Pointers(Known(server)) /\ Follows(wiz', pointer')
  BY <1>4, <1>5, KindsFacts, RenderIs
<1>7. unsure' \in BOOLEAN /\ wiz'.open
  BY <1>4, <1>6 DEF EditType, Editing, Shows
<1> QED
  BY <1>5, <1>6, <1>7, KindsFacts, KindsStep

LEMMA EditClientKinds ==
    ASSUME KindsInv, NEW c \in Chosen, EditClient(c)
    PROVE  KindsInv'
<1>1. PICK form : /\ \/ form = [wiz.form EXCEPT !.client = c]
                     \/ form = [wiz.form EXCEPT !.cost = c]
                     \/ form = [wiz.form EXCEPT !.cob = c]
                  /\ Render([wiz EXCEPT !.form = form], pointer)
  BY DEF EditClient
<1>2. form \in Forms
  <2>1. wiz.form \in Forms /\ c \in Chosen
    BY KindsFacts, PageFields
  <2> QED
    BY <1>1, <2>1 DEF Forms
<1>3. PICK new : new = [wiz EXCEPT !.form = form]
  OBVIOUS
<1>4. /\ new \in Pages(Known(server)) /\ new.open
      /\ new.patchTimer = wiz.patchTimer /\ new.createTimer = wiz.createTimer
  BY <1>2, <1>3, KindsFacts DEF Pages, EditClient, MayEdit
<1>5. Render(new, pointer) /\ UNCHANGED <<server, net>>
  BY <1>1, <1>3 DEF EditClient
<1>6. wiz' \in Pages(Known(server)) /\ PageOk(wiz') /\ Shows(wiz', new)
      /\ pointer' \in Pointers(Known(server)) /\ Follows(wiz', pointer')
  BY <1>4, <1>5, KindsFacts, RenderIs
<1>7. unsure' \in BOOLEAN /\ wiz'.open
  BY <1>4, <1>6 DEF EditClient, Editing, Shows
<1> QED
  BY <1>5, <1>6, <1>7, KindsFacts, KindsStep

LEMMA SendCreateKinds == ASSUME KindsInv, SendCreate PROVE KindsInv'
<1>1. PICK D : D = Known(server)
  OBVIOUS
<1>2. wiz \in Pages(D) /\ net \in Nets(D) /\ wiz.m = 0 /\ Complete(wiz.form) /\ wiz.open
  <2>1. wiz.createTimer
    BY DEF SendCreate
  <2>2. wiz \in Pages(D) /\ net \in Nets(D) /\ PageOk(wiz)
    BY <1>1, KindsFacts
  <2>3. ~Closed.createTimer
    BY DEF Closed
  <2> QED
    BY <2>1, <2>2, <2>3 DEF PageOk
<1>3. PICK h : h = [type |-> wiz.form.type, client |-> wiz.form.client, cost |-> ""]
  OBVIOUS
<1>4. h \in GoodHeaders
  <2>1. wiz.form.type \in Types \cup {""} /\ wiz.form.client \in Chosen
    BY <1>2, PageFields, FormFields
  <2>2. h \in RegularHeaders
    BY <1>3, <2>1 DEF RegularHeaders, Headers, Chosen
  <2>3. Complete(h)
    BY <1>2, <1>3, CompleteIs
  <2> QED
    BY <2>2, <2>3 DEF GoodHeaders
<1>5. PICK c : c = [m |-> 0, served |-> FALSE, refused |-> FALSE, header |-> h]
  OBVIOUS
<1>6. c \in Creations(D)
  BY <1>4, <1>5 DEF Creations
<1>7. net' = net \/ net' = [net EXCEPT !.create = c]
  BY <1>3, <1>5 DEF SendCreate
<1>8. net' \in Nets(D) /\ OneLatest(net')
  <2>1. CASE net' = net
    BY <1>1, <2>1, KindsFacts
  <2>2. CASE net' = [net EXCEPT !.create = c]
    <3>1. net' \in Nets(D) /\ net'.patches = net.patches
      BY <1>2, <1>6, <2>2 DEF Nets
    <3> QED
      BY <3>1, KindsFacts DEF OneLatest
  <2> QED
    BY <1>7, <2>1, <2>2
<1>9. \E error \in BOOLEAN : wiz' = [wiz EXCEPT !.createTimer = FALSE, !.error = error]
  <2>1. wiz.error \in BOOLEAN
    BY <1>2, PageFields
  <2>2. CASE net.create = None
    BY <2>2 DEF SendCreate
  <2>3. CASE net.create # None
    BY <2>1, <2>3 DEF SendCreate
  <2> QED
    BY <2>2, <2>3
<1>10. wiz' \in Pages(D) /\ PageOk(wiz') /\ wiz'.open /\ wiz'.m = wiz.m /\ wiz'.form = wiz.form
  <2>1. PICK error \in BOOLEAN : wiz' = [wiz EXCEPT !.createTimer = FALSE, !.error = error]
    BY <1>9
  <2>3. /\ wiz' \in Pages(D) /\ wiz'.open /\ ~wiz'.createTimer
        /\ wiz'.patchTimer = wiz.patchTimer /\ wiz'.m = wiz.m /\ wiz'.modal = wiz.modal
        /\ wiz'.form = wiz.form
    BY <1>2, <2>1 DEF Pages
  <2> QED
    BY <2>3, KindsFacts DEF PageOk
<1> QED
  BY <1>1, <1>8, <1>10, KindsFacts, KindsStep DEF SendCreate

\* Who waits for a creation gets its answer.
LEMMA CreationIs ==
    ASSUME KindsInv, net.create # None
    PROVE  /\ net.create \in Creations(Known(server)) /\ wiz.open
           /\ net.create.m \in Known(server) \cup {0} /\ net.create.header \in GoodHeaders
<1>1. net.create \in Creations(Known(server)) /\ wiz.open
  BY KindsFacts, NetFields, WaitingIsOpen
<1> QED
  BY <1>1 DEF Creations

LEMMA ServeCreateKinds ==
    ASSUME KindsInv, NEW m \in Movements, NEW ok \in BOOLEAN, ServeCreate(m, ok)
    PROVE  KindsInv'
<1>1. net.create \in Creations(Known(server)) /\ wiz.open /\ net.create.header \in GoodHeaders
  BY CreationIs DEF ServeCreate
<1>2. /\ server' \in [Movements -> Rows] /\ Known(server) \subseteq Known(server')
      /\ ok => m \in Known(server')
  <2>1. CASE ok
    BY <1>1, <2>1, NewDraftIs DEF ServeCreate
  <2>2. CASE ~ok
    BY <2>2, KindsFacts DEF ServeCreate
  <2> QED
    BY <2>1, <2>2
<1>3. PICK c : c = [net.create EXCEPT !.served = TRUE, !.refused = ~ok, !.m = IF ok THEN m ELSE 0]
  OBVIOUS
<1>4. PICK D : D = Known(server')
  OBVIOUS
<1>5. c \in Creations(D)
  BY <1>1, <1>2, <1>3, <1>4 DEF Creations
<1>6. net \in Nets(D)
  BY <1>2, <1>4, KindsFacts, MoreDrafts
<1>7. net' = [net EXCEPT !.create = c]
  BY <1>3 DEF ServeCreate
<1>8. net' \in Nets(D) /\ net'.patches = net.patches
  BY <1>5, <1>6, <1>7 DEF Nets
<1>9. OneLatest(net')
  BY <1>8, KindsFacts DEF OneLatest
<1>10. wiz \in Pages(D) /\ pointer \in Pointers(D)
  BY <1>2, <1>4, KindsFacts, MoreDrafts
<1> QED
  BY <1>1, <1>2, <1>4, <1>8, <1>9, <1>10, KindsFacts, KindsStep DEF ServeCreate

LEMMA RefuseCreateKinds == ASSUME KindsInv, RefuseCreate PROVE KindsInv'
<1>1. net.create \in Creations(Known(server)) /\ wiz.open
  BY CreationIs DEF RefuseCreate
<1>2. PICK c : c = [net.create EXCEPT !.served = TRUE, !.refused = TRUE]
  OBVIOUS
<1>3. c \in Creations(Known(server))
  BY <1>1, <1>2 DEF Creations
<1>4. net' = [net EXCEPT !.create = c]
  BY <1>2 DEF RefuseCreate
<1>5. net' \in Nets(Known(server)) /\ net'.patches = net.patches
  BY <1>3, <1>4, KindsFacts DEF Nets
<1>6. OneLatest(net')
  BY <1>5, KindsFacts DEF OneLatest
<1> QED
  BY <1>1, <1>5, <1>6, KindsFacts, KindsStep DEF RefuseCreate

LEMMA SyncedIs ==
    ASSUME NEW h \in RegularHeaders
    PROVE  /\ SyncedByCreate(h) \in RegularHeaders
           /\ (h.type = TwoClients => h.client = "") => SyncedByCreate(h) = h
<1>1. h \in Headers /\ h.client \in Chosen
  BY HeaderFields DEF RegularHeaders
<1>2. CASE h.type = TwoClients
  <2>1. SyncedByCreate(h) = [h EXCEPT !.client = ""]
    BY <1>2 DEF SyncedByCreate
  <2> QED
    BY <1>1, <1>2, <2>1 DEF RegularHeaders, Headers, Chosen
<1>3. CASE h.type # TwoClients
  <2>1. SyncedByCreate(h) = [h EXCEPT !.client = h.client]
    BY <1>3 DEF SyncedByCreate
  <2>2. SyncedByCreate(h) = h
    BY <1>1, <2>1 DEF Headers
  <2> QED
    BY <2>2
<1> QED
  BY <1>2, <1>3

LEMMA AnswerCreateKinds == ASSUME KindsInv, AnswerCreate PROVE KindsInv'
<1>1. PICK c : c = net.create
  OBVIOUS
<1>2. c \in Creations(Known(server)) /\ wiz.open /\ c.m \in Known(server) \cup {0}
      /\ c.header \in GoodHeaders
  BY <1>1, CreationIs DEF AnswerCreate
<1>3. PICK done : done = [net EXCEPT !.create = None]
  OBVIOUS
<1>4. done \in Nets(Known(server)) /\ done.patches = net.patches
  BY <1>3, KindsFacts DEF Nets
<1>5. OneLatest(done)
  BY <1>4, KindsFacts DEF OneLatest
<1>6. CASE /\ wiz' = [wiz EXCEPT !.error = TRUE] /\ net' = done
           /\ UNCHANGED <<server, pointer, unsure>>
  <2>1. /\ wiz' \in Pages(Known(server)) /\ wiz'.open
        /\ wiz'.patchTimer = wiz.patchTimer /\ wiz'.createTimer = wiz.createTimer
        /\ wiz'.m = wiz.m /\ wiz'.modal = wiz.modal /\ wiz'.resume = wiz.resume
        /\ wiz'.form = wiz.form
    BY <1>2, <1>6, KindsFacts DEF Pages
  <2>2. PageOk(wiz')
    BY <2>1, KindsFacts DEF PageOk
  <2> QED
    BY <1>4, <1>5, <1>6, <2>1, <2>2, KindsFacts, KindsStep
<1>7. CASE /\ Render([wiz EXCEPT !.m = c.m, !.synced = SyncedByCreate(c.header), !.cob = ""], pointer)
           /\ net' = Fetching(done) /\ unsure' = (unsure \/ wiz.m # 0) /\ UNCHANGED server
  <2>1. PICK synced : synced = SyncedByCreate(c.header)
    OBVIOUS
  <2>2. synced \in RegularHeaders
    BY <1>2, <2>1, GoodHeaderIs, SyncedIs
  <2>3. PICK new : new = [wiz EXCEPT !.m = c.m, !.synced = synced, !.cob = ""]
    OBVIOUS
  <2>4. /\ new \in Pages(Known(server)) /\ new.open
        /\ new.patchTimer = wiz.patchTimer /\ new.createTimer = wiz.createTimer
    BY <1>2, <2>2, <2>3, KindsFacts DEF Pages, Chosen
  <2>5. Render(new, pointer)
    BY <1>7, <2>1, <2>3
  <2>6. /\ wiz' \in Pages(Known(server)) /\ PageOk(wiz') /\ Shows(wiz', new)
        /\ pointer' \in Pointers(Known(server)) /\ Follows(wiz', pointer')
    BY <2>4, <2>5, KindsFacts, RenderIs
  <2>7. Fetching(done) \in Nets(Known(server)) /\ Fetching(done).patches = done.patches
    BY <1>4, FetchingIs
  <2>8. OneLatest(net')
    BY <1>5, <1>7, <2>7 DEF OneLatest
  <2>9. wiz'.open /\ unsure' \in BOOLEAN
    BY <1>7, <2>4, <2>6 DEF Shows
  <2> QED
    BY <1>7, <2>6, <2>7, <2>8, <2>9, KindsFacts, KindsStep
<1> QED
  BY <1>1, <1>3, <1>6, <1>7 DEF AnswerCreate

LEMMA CreateTimeoutKinds == ASSUME KindsInv, CreateTimeout PROVE KindsInv'
<1>1. wiz.open
  BY CreationIs DEF CreateTimeout
<1>2. PICK gone : gone = Abandoned([Silent EXCEPT !.create = net.create]).lost
  OBVIOUS
<1>3. gone \subseteq Strays(Known(server))
  <2>1. net.create \in {None} \cup Creations(Known(server))
    BY KindsFacts, NetFields
  <2> QED
    BY <1>2, <2>1, GivenUpIs
<1>4. net' = [net EXCEPT !.create = None, !.lost = gone \cup @]
  BY <1>2 DEF CreateTimeout
<1>5. net' \in Nets(Known(server)) /\ net'.patches = net.patches
  BY <1>3, <1>4, KindsFacts DEF Nets
<1>6. OneLatest(net')
  BY <1>5, KindsFacts DEF OneLatest
<1>7. wiz' = [wiz EXCEPT !.error = TRUE]
  BY DEF CreateTimeout
<1>8. /\ wiz' \in Pages(Known(server)) /\ wiz'.open
      /\ wiz'.patchTimer = wiz.patchTimer /\ wiz'.createTimer = wiz.createTimer
      /\ wiz'.m = wiz.m /\ wiz'.modal = wiz.modal /\ wiz'.resume = wiz.resume
      /\ wiz'.form = wiz.form
  BY <1>1, <1>7, KindsFacts DEF Pages
<1>9. PageOk(wiz')
  BY <1>8, KindsFacts DEF PageOk
<1> QED
  BY <1>5, <1>6, <1>8, <1>9, KindsFacts, KindsStep DEF CreateTimeout

LEMMA PatchSentIs ==
    ASSUME KindsInv, NEW confirm \in BOOLEAN, PatchSent(confirm), wiz.m # 0
    PROVE  /\ net' \in Nets(Known(server)) /\ OneLatest(net')
           /\ net'.create = net.create /\ net'.lost = net.lost /\ net'.details = net.details
           /\ net'.cancel = net.cancel /\ net'.discard = net.discard /\ net'.submit = net.submit
           /\ net.patches = {} =>
                net'.patches = {[m |-> wiz.m, header |-> HeaderOf(wiz.form), confirm |-> confirm,
                                 modal |-> wiz.modal, answer |-> "none", latest |-> TRUE]}
<1>1. PICK D : D = Known(server)
  OBVIOUS
<1>2. PICK p : p = [m |-> wiz.m, header |-> HeaderOf(wiz.form), confirm |-> confirm,
                    modal |-> wiz.modal, answer |-> "none", latest |-> TRUE]
  OBVIOUS
<1>3. p \in Edits(D)
  <2>1. wiz.m \in D /\ wiz.modal \in D \cup {0} /\ HeaderOf(wiz.form) \in RegularHeaders
    BY <1>1, KindsFacts, PageFields, HeaderOfIs
  <2> QED
    BY <1>2, <2>1 DEF Edits, Answers
<1>4. PICK olds : olds = {[x EXCEPT !.latest = FALSE] : x \in net.patches}
  OBVIOUS
<1>5. olds \subseteq Edits(D) /\ \A x \in olds : ~x.latest
  <2>1. net.patches \subseteq Edits(D)
    BY <1>1, KindsFacts, NetFields
  <2> QED
    BY <1>4, <2>1 DEF Edits
<1>6. net' = [net EXCEPT !.patches = olds \cup {p}]
  BY <1>2, <1>4 DEF PatchSent
<1>7. /\ net' \in Nets(D) /\ net'.patches = olds \cup {p}
      /\ net'.create = net.create /\ net'.lost = net.lost /\ net'.details = net.details
      /\ net'.cancel = net.cancel /\ net'.discard = net.discard /\ net'.submit = net.submit
  BY <1>1, <1>3, <1>5, <1>6, KindsFacts DEF Nets
<1>8. OneLatest(net')
  BY <1>5, <1>7 DEF OneLatest
<1>9. net.patches = {} => net'.patches = {p}
  BY <1>4, <1>7
<1> QED
  BY <1>1, <1>2, <1>7, <1>8, <1>9

LEMMA SendPatchKinds == ASSUME KindsInv, SendPatch PROVE KindsInv'
<1>1. wiz.m # 0 /\ wiz.open
  BY KindsFacts, BusyIsOpen DEF SendPatch, PageOk
<1>2. net' \in Nets(Known(server)) /\ OneLatest(net')
  BY <1>1, PatchSentIs DEF SendPatch
<1>3. wiz' = [wiz EXCEPT !.patchTimer = FALSE, !.error = FALSE]
  BY DEF SendPatch
<1>4. /\ wiz' \in Pages(Known(server)) /\ wiz'.open
      /\ ~wiz'.patchTimer /\ wiz'.createTimer = wiz.createTimer
      /\ wiz'.m = wiz.m /\ wiz'.resume = wiz.resume /\ wiz'.form = wiz.form
  BY <1>1, <1>3, KindsFacts DEF Pages
<1>5. PageOk(wiz')
  BY <1>4, KindsFacts DEF PageOk
<1>6. unsure' \in BOOLEAN
  BY DEF SendPatch
<1> QED
  BY <1>2, <1>4, <1>5, <1>6, KindsFacts, KindsStep DEF SendPatch

\* The page with another message or list.
LEMMA MessageIs ==
    ASSUME KindsInv, wiz.open, NEW error \in BOOLEAN, NEW list \in SUBSET ItemsOf(Known(server)),
           wiz' = [wiz EXCEPT !.error = error, !.list = list]
    PROVE  /\ wiz' \in Pages(Known(server)) /\ PageOk(wiz')
           /\ wiz'.open /\ wiz'.m = wiz.m /\ wiz'.form = wiz.form /\ wiz'.synced = wiz.synced
           /\ wiz'.modal = wiz.modal /\ wiz'.resume = wiz.resume /\ wiz'.patchTimer = wiz.patchTimer
           /\ wiz'.error = error
<1>1. /\ wiz' \in Pages(Known(server))
      /\ wiz'.open /\ wiz'.m = wiz.m /\ wiz'.form = wiz.form /\ wiz'.synced = wiz.synced
      /\ wiz'.modal = wiz.modal /\ wiz'.resume = wiz.resume /\ wiz'.patchTimer = wiz.patchTimer
      /\ wiz'.error = error /\ wiz'.createTimer = wiz.createTimer
  BY KindsFacts DEF Pages
<1>2. PageOk(wiz')
  BY <1>1, KindsFacts DEF PageOk
<1> QED
  BY <1>1, <1>2

LEMMA NewMessage ==
    ASSUME KindsInv, wiz.open, NEW error \in BOOLEAN, NEW w, w = [wiz EXCEPT !.error = error]
    PROVE  /\ w \in Pages(Known(server)) /\ PageOk(w)
           /\ w.open /\ w.m = wiz.m /\ w.form = wiz.form /\ w.synced = wiz.synced
           /\ w.modal = wiz.modal /\ w.resume = wiz.resume /\ w.patchTimer = wiz.patchTimer
           /\ w.error = error
<1>1. /\ w \in Pages(Known(server))
      /\ w.open /\ w.m = wiz.m /\ w.form = wiz.form /\ w.synced = wiz.synced
      /\ w.modal = wiz.modal /\ w.resume = wiz.resume /\ w.patchTimer = wiz.patchTimer
      /\ w.error = error /\ w.createTimer = wiz.createTimer
  BY KindsFacts DEF Pages
<1>2. PageOk(w)
  BY <1>1, KindsFacts DEF PageOk
<1> QED
  BY <1>1, <1>2

LEMMA ConfirmClearKinds == ASSUME KindsInv, ConfirmClear PROVE KindsInv'
<1>1. wiz.open /\ wiz.m # 0
  BY BusyIsOpen DEF ConfirmClear
<1>2. net' \in Nets(Known(server)) /\ OneLatest(net')
  BY <1>1, PatchSentIs DEF ConfirmClear
<1>3. wiz' \in Pages(Known(server)) /\ PageOk(wiz') /\ wiz'.open
      /\ wiz'.m = wiz.m /\ wiz'.form = wiz.form
  BY <1>1, NewMessage DEF ConfirmClear
<1>4. unsure' \in BOOLEAN
  BY DEF ConfirmClear, Answering
<1> QED
  BY <1>2, <1>3, <1>4, KindsFacts, KindsStep DEF ConfirmClear

LEMMA RevertedIs ==
    ASSUME KindsInv, wiz.open, NEW new, new = Reverted(wiz)
    PROVE  /\ new \in Pages(Known(server)) /\ new.open /\ new.m = wiz.m /\ new.modal = 0
           /\ new.patchTimer = wiz.patchTimer /\ new.createTimer = wiz.createTimer
           /\ new.synced = wiz.synced /\ new.resume = wiz.resume /\ new.error = wiz.error
<1>1. /\ wiz \in Pages(Known(server)) /\ wiz.synced \in RegularHeaders \cup {NoHeader}
      /\ wiz.cob \in Chosen
  BY KindsFacts, PageFields
<1>2. CASE wiz.synced = NoHeader
  <2>1. new = [wiz EXCEPT !.modal = 0]
    BY <1>2 DEF Reverted
  <2> QED
    BY <1>1, <1>2, <2>1 DEF Pages
<1>3. CASE wiz.synced # NoHeader
  <2>1. PICK form : form = [type |-> wiz.synced.type, client |-> wiz.synced.client,
                            cost |-> wiz.synced.cost, cob |-> wiz.cob]
    OBVIOUS
  <2>2. form \in Forms
    BY <1>1, <1>3, <2>1, HeaderFields DEF Forms, RegularHeaders
  <2>3. new = [wiz EXCEPT !.modal = 0, !.form = form]
    BY <1>3, <2>1 DEF Reverted
  <2> QED
    BY <1>1, <1>3, <2>1, <2>2, <2>3 DEF Pages
<1> QED
  BY <1>2, <1>3

LEMMA RevertKinds == ASSUME KindsInv, Revert PROVE KindsInv'
<1>1. wiz.open
  BY BusyIsOpen DEF Revert
<1>2. PICK new : new = Reverted(wiz)
  OBVIOUS
<1>3. /\ new \in Pages(Known(server)) /\ new.open
      /\ new.patchTimer = wiz.patchTimer /\ new.createTimer = wiz.createTimer
  BY <1>1, <1>2, RevertedIs
<1>4. Render(new, pointer)
  BY <1>2 DEF Revert
<1>5. /\ wiz' \in Pages(Known(server)) /\ PageOk(wiz') /\ Shows(wiz', new)
      /\ pointer' \in Pointers(Known(server)) /\ Follows(wiz', pointer')
  BY <1>3, <1>4, KindsFacts, RenderIs
<1>6. wiz'.open /\ unsure' \in BOOLEAN
  BY <1>3, <1>5 DEF Shows, Revert, Answering
<1> QED
  BY <1>5, <1>6, KindsFacts, KindsStep DEF Revert

LEMMA EditIs ==
    ASSUME NEW D, NEW p \in Edits(D)
    PROVE  /\ p.m \in D /\ p.header \in RegularHeaders /\ p.confirm \in BOOLEAN
           /\ p.modal \in D \cup {0} /\ p.answer \in Answers \cup {"conflict"}
           /\ p.latest \in BOOLEAN
BY DEF Edits

\* A PATCH that is carried out changes the header of an open draft.
LEMMA PatchedIs ==
    ASSUME KindsInv, NEW p \in net.patches
    PROVE  /\ Patched(p) \in [Movements -> Rows] /\ Known(server) \subseteq Known(Patched(p))
           /\ PatchAnswer(p) # "ok" => Patched(p) = server
           /\ PatchAnswer(p) = "ok" =>
                /\ server[p.m].status = "BORRADOR" /\ p.header \in GoodHeaders
                /\ Patched(p)[p.m].header = p.header /\ Patched(p)[p.m].status = "BORRADOR"
                /\ Patched(p)[p.m].payload = (server[p.m].payload /\ server[p.m].header = p.header)
           /\ \A x \in Movements : x # p.m => Patched(p)[x] = server[x]
<1>1. server \in [Movements -> Rows]
  BY KindsFacts
<1>2. p.m \in Movements /\ p.header \in RegularHeaders
  <2>1. p \in Edits(Known(server))
    BY KindsFacts, NetFields
  <2> QED
    BY <2>1, EditIs, KnownIs
<1>3. CASE PatchAnswer(p) = "ok"
  <2>1. server[p.m].status = "BORRADOR" /\ Complete(p.header)
    BY <1>3 DEF PatchAnswer
  <2>2. p.header \in GoodHeaders
    BY <1>2, <2>1 DEF GoodHeaders
  <2>3. PICK old : old = server[p.m]
    OBVIOUS
  <2>4. old \in [status : {"BORRADOR", "CONFIRMADA", "deleted"}, header : GoodHeaders,
                 payload : BOOLEAN]
    BY <1>1, <1>2, <2>1, <2>3 DEF Rows, NoMovement
  <2>5. PICK row : row = [old EXCEPT !.header = p.header,
                                     !.payload = old.payload /\ old.header = p.header]
    OBVIOUS
  <2>6. /\ row \in Rows /\ row.status = "BORRADOR" /\ row.header = p.header
        /\ row.payload = (old.payload /\ old.header = p.header)
    BY <2>1, <2>2, <2>3, <2>4, <2>5 DEF Rows
  <2>10. PICK t : t = Patched(p)
    OBVIOUS
  <2>7. t = [server EXCEPT ![p.m] = row]
    BY <1>1, <1>2, <1>3, <2>3, <2>4, <2>5, <2>10 DEF Patched
  <2>8. t \in [Movements -> Rows] /\ Known(server) \subseteq Known(t)
    BY <1>1, <1>2, <2>6, <2>7, ServerSteps
  <2>9. t[p.m] = row /\ \A x \in Movements : x # p.m => t[x] = server[x]
    BY <1>1, <1>2, <2>7
  <2> QED
    BY <1>3, <2>1, <2>2, <2>3, <2>6, <2>8, <2>9, <2>10
<1>4. CASE PatchAnswer(p) # "ok"
  <2>1. Patched(p) = server
    BY <1>4 DEF Patched
  <2> QED
    BY <1>1, <1>4, <2>1
<1> QED
  BY <1>3, <1>4

\* What the page is told of it.
LEMMA ServePatchIs ==
    ASSUME KindsInv, NEW p \in net.patches, ServePatch(p)
    PROVE  \E told \in {"ok", "conflict", "error"} :
           /\ server' \in {server, Patched(p)} /\ unsure' \in BOOLEAN
           /\ ~unsure' => /\ ~unsure
                          /\ told = "ok" => PatchAnswer(p) = "ok" /\ server' = Patched(p)
                          /\ told # "ok" => server' = server
           /\ net' \in Nets(Known(server)) /\ OneLatest(net')
           /\ net'.create = net.create /\ net'.lost = net.lost /\ net'.details = net.details
           /\ net'.cancel = net.cancel /\ net'.discard = net.discard /\ net'.submit = net.submit
           /\ net'.fetch = net.fetch
           /\ net'.patches = (net.patches \ {p}) \cup
                (IF p.latest THEN {[p EXCEPT !.answer = told]} ELSE {})
<1>1. PICK D : D = Known(server)
  OBVIOUS
<1>2. net \in Nets(D) /\ net.patches \subseteq Edits(D) /\ OneLatest(net) /\ unsure \in BOOLEAN
  BY <1>1, KindsFacts, NetFields
<1>12. PICK told \in {"ok", "conflict", "error"} :
         /\ Served(Patched(p), PatchAnswer(p), told)
         /\ net' = [net EXCEPT !.patches =
                     (@ \ {p}) \cup IF p.latest THEN {[p EXCEPT !.answer = told]} ELSE {}]
  BY DEF ServePatch
<1>13. /\ server' \in {server, Patched(p)} /\ unsure' \in BOOLEAN
       /\ ~unsure' => /\ ~unsure
                      /\ \/ told = PatchAnswer(p) /\ server' = Patched(p)
                         \/ told = "error" /\ server' = server
  BY <1>2, <1>12, ServedIs
<1>14. ~unsure' => /\ ~unsure
                   /\ told = "ok" => PatchAnswer(p) = "ok" /\ server' = Patched(p)
                   /\ told # "ok" => server' = server
  BY <1>13, PatchedIs
<1>3. PICK q : q = [p EXCEPT !.answer = told]
  OBVIOUS
<1>4. told \in Answers \cup {"conflict"}
  BY DEF Answers
<1>5. q \in Edits(D) /\ q.latest = p.latest
  BY <1>2, <1>3, <1>4 DEF Edits
<1>6. PICK patches : patches = (net.patches \ {p}) \cup (IF p.latest THEN {q} ELSE {})
  OBVIOUS
<1>7. patches \subseteq Edits(D)
  BY <1>2, <1>5, <1>6
<1>8. \A x, y \in patches : x.latest /\ y.latest => x = y
  BY <1>2, <1>5, <1>6 DEF OneLatest
<1>9. net' = [net EXCEPT !.patches = patches]
  BY <1>3, <1>6, <1>12
<1>10. /\ net' \in Nets(D) /\ net'.patches = patches
       /\ net'.create = net.create /\ net'.lost = net.lost /\ net'.details = net.details
       /\ net'.cancel = net.cancel /\ net'.discard = net.discard /\ net'.submit = net.submit
       /\ net'.fetch = net.fetch
  BY <1>2, <1>7, <1>9 DEF Nets
<1>11. OneLatest(net')
  BY <1>8, <1>10 DEF OneLatest
<1>15. net'.patches = (net.patches \ {p}) \cup (IF p.latest THEN {[p EXCEPT !.answer = told]} ELSE {})
  BY <1>3, <1>6, <1>10
<1> QED
  BY <1>1, <1>10, <1>11, <1>13, <1>14, <1>15, Zenon

LEMMA ServePatchKinds ==
    ASSUME KindsInv, NEW p \in net.patches, ServePatch(p)
    PROVE  KindsInv'
<1>1. PICK told \in {"ok", "conflict", "error"} :
        /\ server' \in {server, Patched(p)} /\ unsure' \in BOOLEAN
        /\ net' \in Nets(Known(server)) /\ OneLatest(net')
        /\ net'.create = net.create /\ net'.lost = net.lost /\ net'.details = net.details
        /\ net'.cancel = net.cancel /\ net'.discard = net.discard /\ net'.submit = net.submit
        /\ net'.fetch = net.fetch
        /\ net'.patches = (net.patches \ {p}) \cup
             (IF p.latest THEN {[p EXCEPT !.answer = told]} ELSE {})
  BY ServePatchIs, Zenon
<1>2. server' \in [Movements -> Rows] /\ Known(server) \subseteq Known(server')
  BY <1>1, PatchedIs, KindsFacts
<1>3. wiz.open \/ NobodyWaits(net')
  <2>1. CASE ~wiz.open
    <3>1. NobodyWaits(net)
      BY <2>1, KindsFacts
    <3>2. ~p.latest
      BY <3>1 DEF NobodyWaits
    <3>3. net'.patches \subseteq net.patches
      BY <1>1, <3>2
    <3> QED
      BY <1>1, <3>1, <3>3 DEF NobodyWaits
  <2> QED
    BY <2>1
<1>4. UNCHANGED <<wiz, pointer>>
  BY DEF ServePatch
<1> QED
  BY <1>1, <1>2, <1>3, <1>4, KindsFacts, KindsStep

LEMMA FewerPatches ==
    ASSUME KindsInv, NEW p, net' = [net EXCEPT !.patches = @ \ {p}]
    PROVE  /\ net' \in Nets(Known(server)) /\ OneLatest(net')
           /\ ~wiz.open => NobodyWaits(net')
           /\ net'.create = net.create /\ net'.lost = net.lost /\ net'.details = net.details
           /\ net'.cancel = net.cancel /\ net'.discard = net.discard /\ net'.submit = net.submit
           /\ net'.patches = net.patches \ {p}
<1>1. /\ net' \in Nets(Known(server))
      /\ net'.create = net.create /\ net'.lost = net.lost /\ net'.details = net.details
      /\ net'.cancel = net.cancel /\ net'.discard = net.discard /\ net'.submit = net.submit
      /\ net'.fetch = net.fetch /\ net'.patches = net.patches \ {p}
  BY KindsFacts DEF Nets
<1>2. OneLatest(net')
  BY <1>1, KindsFacts DEF OneLatest
<1>3. ~wiz.open => NobodyWaits(net')
  BY <1>1, KindsFacts DEF NobodyWaits
<1> QED
  BY <1>1, <1>2, <1>3

LEMMA AnswerPatchKinds ==
    ASSUME KindsInv, NEW p \in net.patches, AnswerPatch(p)
    PROVE  KindsInv'
<1>1. net' \in Nets(Known(server)) /\ OneLatest(net') /\ (~wiz.open => NobodyWaits(net'))
  BY FewerPatches DEF AnswerPatch
<1>2. p.m \in Known(server) /\ p.header \in RegularHeaders /\ CobradoOf(p.header) \in Chosen
  BY KindsFacts, NetFields, EditIs, CobradoIs
<1>3. UNCHANGED <<server, unsure>>
  BY DEF AnswerPatch
<1>4. CASE ~p.latest /\ UNCHANGED <<wiz, pointer>>
  BY <1>1, <1>3, <1>4, KindsFacts, KindsStep
<1>5. CASE p.latest /\ wiz' = AfterPatchError(wiz, p) /\ UNCHANGED pointer
  <2>1. wiz.open /\ wiz' = [wiz EXCEPT !.error = TRUE]
    BY <1>5, WaitingIsOpen DEF AfterPatchError
  <2>2. wiz' \in Pages(Known(server)) /\ PageOk(wiz') /\ wiz'.open
        /\ wiz'.m = wiz.m /\ wiz'.form = wiz.form
    BY <2>1, NewMessage
  <2> QED
    BY <1>1, <1>3, <1>5, <2>2, KindsFacts, KindsStep
<1>6. ASSUME NEW new, p.latest, Render(new, pointer),
             \/ new = [wiz EXCEPT !.synced = p.header, !.cob = CobradoOf(p.header), !.modal = 0]
             \/ new = [wiz EXCEPT !.modal = p.m]
      PROVE  KindsInv'
  <2>1. wiz.open
    BY <1>6, WaitingIsOpen
  <2>2. /\ new \in Pages(Known(server)) /\ new.open
        /\ new.patchTimer = wiz.patchTimer /\ new.createTimer = wiz.createTimer
    BY <1>2, <1>6, <2>1, KindsFacts DEF Pages
  <2>3. /\ wiz' \in Pages(Known(server)) /\ PageOk(wiz') /\ Shows(wiz', new)
        /\ pointer' \in Pointers(Known(server)) /\ Follows(wiz', pointer')
    BY <1>6, <2>2, KindsFacts, RenderIs
  <2>4. wiz'.open
    BY <2>2, <2>3 DEF Shows
  <2> QED
    BY <1>1, <1>3, <2>3, <2>4, KindsFacts, KindsStep
<1> QED
  BY <1>4, <1>5, <1>6 DEF AnswerPatch

LEMMA ReadingIs ==
    ASSUME NEW D, NEW d \in Readings(D)
    PROVE  d.m \in D /\ d.kind \in {"resume", "list"} /\ d.header \in GoodHeaders \cup {NoHeader}
BY DEF Readings

LEMMA ItemIs ==
    ASSUME NEW D, NEW item \in ItemsOf(D)
    PROVE  item.m \in D /\ item.header \in GoodHeaders
BY DEF ItemsOf

LEMMA SamePatches ==
    ASSUME KindsInv, net'.patches = net.patches
    PROVE  OneLatest(net')
BY KindsFacts DEF OneLatest

\* The page a draft of the list is resumed into.
ResumedForm(h) == [EmptyForm EXCEPT !.type = h.type, !.client = h.client]
ResumedSynced(h) == [h EXCEPT !.cost = ""]
Resumed(item) ==
    [wiz EXCEPT !.m = item.m, !.form = ResumedForm(item.header), !.error = FALSE,
                !.synced = ResumedSynced(item.header), !.cob = ""]

LEMMA ResumedIs ==
    ASSUME KindsInv, NEW item \in wiz.list, wiz.open
    PROVE  /\ item.m \in Known(server) /\ item.header \in GoodHeaders
           /\ ResumedForm(item.header) \in Forms /\ ResumedSynced(item.header) \in RegularHeaders
           /\ Resumed(item) \in Pages(Known(server)) /\ Resumed(item).open
           /\ Resumed(item).m = item.m /\ Resumed(item).form = ResumedForm(item.header)
           /\ Resumed(item).synced = ResumedSynced(item.header)
           /\ Resumed(item).modal = wiz.modal /\ ~Resumed(item).error
           /\ Resumed(item).resume = wiz.resume
           /\ Resumed(item).patchTimer = wiz.patchTimer
           /\ Resumed(item).createTimer = wiz.createTimer
<1>1. item.m \in Known(server) /\ item.header \in GoodHeaders
  BY KindsFacts, PageFields, ItemIs
<1>2. item.header \in Headers
  BY <1>1, GoodHeaderIs
<1>3. ResumedForm(item.header) \in Forms
  BY <1>2, HeaderFields DEF EmptyForm, Forms, Chosen, ResumedForm
<1>4. ResumedSynced(item.header) \in RegularHeaders
  BY <1>2 DEF RegularHeaders, Headers, Chosen, ResumedSynced
<1> QED
  BY <1>1, <1>3, <1>4, KindsFacts DEF Pages, Resumed, Chosen

LEMMA ResumeRenders ==
    ASSUME NEW item, Resume(item)
    PROVE  wiz.open /\ wiz.modal = 0 /\ Render(Resumed(item), pointer)
BY DEF Resume, MayEdit, Resumed, ResumedForm, ResumedSynced

LEMMA ResumeKinds ==
    ASSUME KindsInv, NEW item \in wiz.list, Resume(item)
    PROVE  KindsInv'
<1>3. PICK new : new = Resumed(item)
  OBVIOUS
<1>4. wiz.open /\ Render(new, pointer)
  BY <1>3, ResumeRenders
<1>5. /\ item.m \in Known(server) /\ new \in Pages(Known(server)) /\ new.open
      /\ new.patchTimer = wiz.patchTimer /\ new.createTimer = wiz.createTimer
  BY <1>3, <1>4, ResumedIs
<1>6. /\ wiz' \in Pages(Known(server)) /\ PageOk(wiz') /\ Shows(wiz', new)
      /\ pointer' \in Pointers(Known(server)) /\ Follows(wiz', pointer')
  BY <1>4, <1>5, KindsFacts, RenderIs
<1>7. wiz'.open /\ unsure' \in BOOLEAN /\ UNCHANGED server
  BY <1>5, <1>6 DEF Shows, Resume
<1>8. net' \in Nets(Known(server)) /\ net'.patches = net.patches
  <2>1. PICK d : d = [m |-> item.m, kind |-> "list", header |-> NoHeader]
    OBVIOUS
  <2>2. d \in Readings(Known(server))
    BY <1>5, <2>1 DEF Readings
  <2>3. net' = net \/ net' = [net EXCEPT !.details = @ \cup {d}]
    BY <2>1 DEF Resume
  <2> QED
    BY <2>2, <2>3, KindsFacts DEF Nets
<1> QED
  BY <1>6, <1>7, <1>8, SamePatches, KindsFacts, KindsStep

\* What the server reads is the header of a draft.
LEMMA ReadIs ==
    ASSUME KindsInv, NEW d \in net.details
    PROVE  /\ d.m \in Known(server) /\ server[d.m].header \in GoodHeaders /\ wiz.open
           /\ d \in Readings(Known(server))
<1>1. d \in Readings(Known(server)) /\ d.m \in Known(server)
  BY KindsFacts, NetFields, ReadingIs
<1>2. server[d.m] \in Rows /\ server[d.m].status # "none"
  BY <1>1, KnownIs, KindsFacts
<1> QED
  BY <1>1, <1>2, RowFields, WaitingIsOpen

LEMMA ServeDetailKinds ==
    ASSUME KindsInv, NEW d \in net.details, ServeDetail(d)
    PROVE  KindsInv'
<1>1. /\ d \in Readings(Known(server)) /\ server[d.m].header \in GoodHeaders /\ wiz.open
  BY ReadIs
<1>2. PICK read : read = [d EXCEPT !.header = server[d.m].header]
  OBVIOUS
<1>3. read \in Readings(Known(server))
  BY <1>1, <1>2 DEF Readings
<1>4. \/ net' = [net EXCEPT !.details = (@ \ {d}) \cup {read}] /\ UNCHANGED wiz
      \/ /\ net' = [net EXCEPT !.details = @ \ {d}]
         /\ wiz' = [wiz EXCEPT !.error = @ \/ d.kind = "resume"]
  BY <1>2 DEF ServeDetail
<1>7. unsure' \in BOOLEAN
  BY KindsFacts DEF ServeDetail
<1>5. net' \in Nets(Known(server)) /\ net'.patches = net.patches
  BY <1>3, <1>4, KindsFacts DEF Nets
<1>6. wiz' \in Pages(Known(server)) /\ PageOk(wiz') /\ wiz'.open
      /\ wiz'.m = wiz.m /\ wiz'.form = wiz.form
  <2>1. CASE UNCHANGED wiz
    BY <1>1, <2>1, KindsFacts
  <2>2. CASE wiz' = [wiz EXCEPT !.error = @ \/ d.kind = "resume"]
    <3>1. PICK error \in BOOLEAN : error = (wiz.error \/ d.kind = "resume")
      OBVIOUS
    <3>2. wiz' = [wiz EXCEPT !.error = error]
      BY <2>2, <3>1, Zenon
    <3> QED
      BY <1>1, <3>2, NewMessage
  <2> QED
    BY <1>4, <2>1, <2>2
<1> QED
  BY <1>5, <1>6, <1>7, SamePatches, KindsFacts, KindsStep DEF ServeDetail

\* The pages a detail is answered into.
WholeDetail(d) ==
    [wiz EXCEPT !.m = d.m, !.form = FormOf(d.header), !.synced = d.header,
                !.cob = FormOf(d.header).cob]
ClientsDetail(d) ==
    [wiz EXCEPT !.form.cost = FormOf(d.header).cost, !.form.cob = FormOf(d.header).cob,
                !.synced = d.header, !.cob = FormOf(d.header).cob]

LEMMA DetailIs ==
    ASSUME KindsInv, NEW d \in net.details, d.header # NoHeader
    PROVE  /\ d.m \in Known(server) /\ wiz.open /\ d.header \in GoodHeaders
           /\ d.header \in RegularHeaders /\ FormOf(d.header) \in Forms
           /\ FormOf(d.header).cob \in Chosen
<1>1. d.m \in Known(server) /\ wiz.open /\ d.header \in GoodHeaders
  BY ReadIs, ReadingIs
<1> QED
  BY <1>1, GoodHeaderIs, FormOfIs, FormFields

LEMMA WholeDetailIs ==
    ASSUME KindsInv, NEW d \in net.details, d.header # NoHeader
    PROVE  /\ WholeDetail(d) \in Pages(Known(server)) /\ WholeDetail(d).open
           /\ WholeDetail(d).m = d.m /\ WholeDetail(d).form = FormOf(d.header)
           /\ WholeDetail(d).synced = d.header /\ WholeDetail(d).modal = wiz.modal
           /\ WholeDetail(d).error = wiz.error /\ WholeDetail(d).resume = wiz.resume
           /\ WholeDetail(d).patchTimer = wiz.patchTimer
           /\ WholeDetail(d).createTimer = wiz.createTimer
BY DetailIs, KindsFacts DEF Pages, WholeDetail

LEMMA ClientsDetailIs ==
    ASSUME KindsInv, NEW d \in net.details, d.header # NoHeader
    PROVE  /\ ClientsDetail(d) \in Pages(Known(server)) /\ ClientsDetail(d).open
           /\ ClientsDetail(d).m = wiz.m /\ ClientsDetail(d).form.type = wiz.form.type
           /\ ClientsDetail(d).form.cost = FormOf(d.header).cost
           /\ ClientsDetail(d).form.cob = FormOf(d.header).cob
           /\ ClientsDetail(d).synced = d.header /\ ClientsDetail(d).modal = wiz.modal
           /\ ClientsDetail(d).error = wiz.error /\ ClientsDetail(d).resume = wiz.resume
           /\ ClientsDetail(d).patchTimer = wiz.patchTimer
           /\ ClientsDetail(d).createTimer = wiz.createTimer
<1>1. PICK f : f = FormOf(d.header)
  OBVIOUS
<1>2. f \in Forms /\ wiz.open /\ d.header \in RegularHeaders
  BY <1>1, DetailIs
<1>3. PICK form : form = [wiz.form EXCEPT !.cost = f.cost, !.cob = f.cob]
  OBVIOUS
<1>4. wiz.form \in Forms /\ wiz \in Pages(Known(server))
  BY KindsFacts, PageFields
<1>5. form \in Forms /\ form.type = wiz.form.type /\ form.cost = f.cost /\ form.cob = f.cob
  BY <1>2, <1>3, <1>4 DEF Forms
<1>6. ClientsDetail(d) = [wiz EXCEPT !.form = form, !.synced = d.header, !.cob = f.cob]
  BY <1>1, <1>3, <1>4 DEF Pages, ClientsDetail
<1> QED
  BY <1>1, <1>2, <1>4, <1>5, <1>6, DetailIs DEF Pages

LEMMA AnswerDetailKinds ==
    ASSUME KindsInv, NEW d \in net.details, AnswerDetail(d)
    PROVE  KindsInv'
<1>1. d.header # NoHeader
  BY DEF AnswerDetail
<1>2. PICK new : new \in {WholeDetail(d), ClientsDetail(d)} /\ Render(new, pointer)
  BY DEF AnswerDetail, WholeDetail, ClientsDetail
<1>3. /\ new \in Pages(Known(server)) /\ new.open
      /\ new.patchTimer = wiz.patchTimer /\ new.createTimer = wiz.createTimer
  BY <1>1, <1>2, WholeDetailIs, ClientsDetailIs
<1>4. /\ wiz' \in Pages(Known(server)) /\ PageOk(wiz') /\ Shows(wiz', new)
      /\ pointer' \in Pointers(Known(server)) /\ Follows(wiz', pointer')
  BY <1>2, <1>3, KindsFacts, RenderIs
<1>5. wiz'.open /\ unsure' \in BOOLEAN /\ UNCHANGED server
  BY <1>3, <1>4 DEF Shows, AnswerDetail
<1>6. net' = [net EXCEPT !.details = @ \ {d}]
  BY DEF AnswerDetail
<1>7. net' \in Nets(Known(server)) /\ net'.patches = net.patches
  BY <1>6, KindsFacts DEF Nets
<1> QED
  BY <1>4, <1>5, <1>7, SamePatches, KindsFacts, KindsStep

LEMMA FetchIs ==
    ASSUME KindsInv, net.fetch # None
    PROVE  net.fetch.items \subseteq ItemsOf(Known(server)) /\ wiz.open
<1>1. net.fetch \in Fetches(Known(server)) /\ wiz.open
  BY KindsFacts, NetFields, WaitingIsOpen
<1> QED
  BY <1>1 DEF Fetches

LEMMA AnswerFetchIs ==
    ASSUME KindsInv, AnswerFetch
    PROVE  /\ wiz' \in Pages(Known(server)) /\ PageOk(wiz') /\ wiz.open /\ wiz'.open
           /\ wiz'.m = wiz.m /\ wiz'.form = wiz.form /\ wiz'.synced = wiz.synced
           /\ wiz'.modal = wiz.modal /\ wiz'.resume = wiz.resume
           /\ wiz'.patchTimer = wiz.patchTimer /\ wiz'.error = wiz.error
           /\ net' \in Nets(Known(server))
           /\ net'.create = net.create /\ net'.lost = net.lost /\ net'.patches = net.patches
           /\ net'.details = net.details /\ net'.cancel = net.cancel
           /\ net'.discard = net.discard /\ net'.submit = net.submit
<1>1. net.fetch.items \subseteq ItemsOf(Known(server)) /\ wiz.open
  BY FetchIs DEF AnswerFetch
<1>2. PICK list : list \in {net.fetch.items, ServerItems, {}} /\ wiz' = [wiz EXCEPT !.list = list]
  BY DEF AnswerFetch
<1>3. list \in SUBSET ItemsOf(Known(server))
  BY <1>1, <1>2, ServerItemsAre
<1>4. wiz' = [wiz EXCEPT !.error = wiz.error, !.list = list] /\ wiz.error \in BOOLEAN
  BY <1>2, KindsFacts DEF Pages
<1>5. net' = [net EXCEPT !.fetch = None]
  BY DEF AnswerFetch
<1>6. /\ net' \in Nets(Known(server))
      /\ net'.create = net.create /\ net'.lost = net.lost /\ net'.patches = net.patches
      /\ net'.details = net.details /\ net'.cancel = net.cancel
      /\ net'.discard = net.discard /\ net'.submit = net.submit
  BY <1>5, KindsFacts DEF Nets
<1>7. /\ wiz' \in Pages(Known(server)) /\ PageOk(wiz') /\ wiz'.open
      /\ wiz'.m = wiz.m /\ wiz'.form = wiz.form /\ wiz'.synced = wiz.synced
      /\ wiz'.modal = wiz.modal /\ wiz'.resume = wiz.resume
      /\ wiz'.patchTimer = wiz.patchTimer /\ wiz'.error = wiz.error
  BY <1>1, <1>3, <1>4, MessageIs
<1> QED
  BY <1>1, <1>6, <1>7

LEMMA AnswerFetchKinds == ASSUME KindsInv, AnswerFetch PROVE KindsInv'
<1>1. /\ wiz' \in Pages(Known(server)) /\ PageOk(wiz') /\ wiz'.open
      /\ wiz'.m = wiz.m /\ wiz'.form = wiz.form
      /\ net' \in Nets(Known(server)) /\ net'.patches = net.patches
  BY AnswerFetchIs
<1> QED
  BY <1>1, SamePatches, KindsFacts, KindsStep DEF AnswerFetch

LEMMA NewCancel ==
    ASSUME KindsInv, NEW x \in {None} \cup Cancels(Known(server)), NEW n,
           n = [net EXCEPT !.cancel = x]
    PROVE  /\ n \in Nets(Known(server)) /\ n.cancel = x
           /\ n.create = net.create /\ n.lost = net.lost /\ n.patches = net.patches
           /\ n.details = net.details /\ n.discard = net.discard /\ n.submit = net.submit
BY KindsFacts DEF Nets

LEMMA NewDiscard ==
    ASSUME KindsInv, NEW x \in {None} \cup Discards(Known(server)), NEW n,
           n = [net EXCEPT !.discard = x]
    PROVE  /\ n \in Nets(Known(server)) /\ n.discard = x
           /\ n.create = net.create /\ n.lost = net.lost /\ n.patches = net.patches
           /\ n.details = net.details /\ n.cancel = net.cancel /\ n.submit = net.submit
BY KindsFacts DEF Nets

LEMMA NewSubmit ==
    ASSUME KindsInv, NEW x \in {None} \cup Submits(Known(server)), NEW n,
           n = [net EXCEPT !.submit = x]
    PROVE  /\ n \in Nets(Known(server)) /\ n.submit = x
           /\ n.create = net.create /\ n.lost = net.lost /\ n.patches = net.patches
           /\ n.details = net.details /\ n.cancel = net.cancel /\ n.discard = net.discard
BY KindsFacts DEF Nets

\* A draft to be ended, and the answer when it has been.
LEMMA DiscardIs ==
    ASSUME KindsInv, net.discard # None
    PROVE  /\ wiz.open /\ net.discard \in Discards(Known(server))
           /\ net.discard.m \in Known(server) /\ net.discard.m # 0
           /\ net.discard.was \in Known(server) \cup {0}
           /\ net.discard.list \subseteq ItemsOf(Known(server)) /\ net.discard.answer \in Answers
<1>1. wiz.open /\ net.discard \in Discards(Known(server))
  BY KindsFacts, NetFields, WaitingIsOpen
<1> QED
  BY <1>1, TypesAre DEF Discards, Known

LEMMA CancelIs ==
    ASSUME KindsInv, net.cancel # None
    PROVE  /\ wiz.open /\ net.cancel \in Cancels(Known(server))
           /\ net.cancel.m \in Known(server) /\ net.cancel.m # 0 /\ net.cancel.answer \in Answers
<1>1. wiz.open /\ net.cancel \in Cancels(Known(server))
  BY KindsFacts, NetFields, WaitingIsOpen
<1> QED
  BY <1>1, TypesAre DEF Cancels, Known

LEMMA SubmitIs ==
    ASSUME KindsInv, net.submit # None
    PROVE  /\ wiz.open /\ net.submit \in Submits(Known(server))
           /\ net.submit.m \in Known(server) /\ net.submit.m # 0 /\ net.submit.answer \in Answers
<1>1. wiz.open /\ net.submit \in Submits(Known(server))
  BY KindsFacts, NetFields, WaitingIsOpen
<1> QED
  BY <1>1, TypesAre DEF Submits, Known

LEMMA DiscardListedIs ==
    ASSUME KindsInv, NEW item \in wiz.list, DiscardListed(item)
    PROVE  /\ wiz.open /\ wiz.modal = 0 /\ wiz' \in Pages(Known(server)) /\ PageOk(wiz')
           /\ wiz'.open /\ wiz'.m = wiz.m /\ wiz'.form = wiz.form /\ wiz'.synced = wiz.synced
           /\ wiz'.modal = wiz.modal /\ wiz'.resume = wiz.resume
           /\ wiz'.patchTimer = wiz.patchTimer /\ ~wiz'.error
           /\ net' \in Nets(Known(server)) /\ net'.discard # None
           /\ net'.discard.m = item.m /\ net'.discard.was = wiz.m /\ net'.discard.answer = "none"
           /\ net'.create = net.create /\ net'.lost = net.lost /\ net'.patches = net.patches
           /\ net'.details = net.details /\ net'.cancel = net.cancel /\ net'.submit = net.submit
           /\ unsure' \in BOOLEAN
<1>1. PICK list : list = {i \in wiz.list : i.m # item.m}
  OBVIOUS
<1>2. wiz.list \subseteq ItemsOf(Known(server)) /\ wiz.m \in Known(server) \cup {0}
  BY KindsFacts, PageFields
<1>3. list \in SUBSET ItemsOf(Known(server)) /\ wiz.open /\ wiz.modal = 0
  BY <1>1, <1>2 DEF DiscardListed, MayEdit
<1>4. wiz' = [wiz EXCEPT !.error = FALSE, !.list = list]
  BY <1>1, KindsFacts DEF DiscardListed, Pages
<1>5. PICK d : d = [m |-> item.m, was |-> wiz.m, list |-> wiz.list, answer |-> "none"]
  OBVIOUS
<1>6. d \in Discards(Known(server))
  BY <1>2, <1>5, ItemIs DEF Discards, Answers
<1>7. net' = [net EXCEPT !.discard = d]
  BY <1>5 DEF DiscardListed
<1>8. /\ wiz' \in Pages(Known(server)) /\ PageOk(wiz')
      /\ wiz'.open /\ wiz'.m = wiz.m /\ wiz'.form = wiz.form /\ wiz'.synced = wiz.synced
      /\ wiz'.modal = wiz.modal /\ wiz'.resume = wiz.resume
      /\ wiz'.patchTimer = wiz.patchTimer /\ wiz'.error = FALSE
  BY <1>3, <1>4, MessageIs
<1>9. /\ net' \in Nets(Known(server)) /\ net'.discard = d
      /\ net'.create = net.create /\ net'.lost = net.lost /\ net'.patches = net.patches
      /\ net'.details = net.details /\ net'.cancel = net.cancel /\ net'.submit = net.submit
  BY <1>6, <1>7, NewDiscard
<1>10. d # None
  <2>1. item.m \in Known(server)
    BY <1>2, ItemIs
  <2>2. d.m # 0
    BY <1>5, <2>1, KnownIs, TypesAre
  <2> QED
    BY <2>2 DEF None
<1>11. unsure' \in BOOLEAN
  BY DEF DiscardListed
<1> QED
  BY <1>3, <1>5, <1>8, <1>9, <1>10, <1>11

LEMMA DiscardListedKinds ==
    ASSUME KindsInv, NEW item \in wiz.list, DiscardListed(item)
    PROVE  KindsInv'
<1>1. /\ wiz' \in Pages(Known(server)) /\ PageOk(wiz') /\ wiz'.open
      /\ wiz'.m = wiz.m /\ wiz'.form = wiz.form
      /\ net' \in Nets(Known(server)) /\ net'.patches = net.patches /\ unsure' \in BOOLEAN
  BY DiscardListedIs
<1> QED
  BY <1>1, SamePatches, KindsFacts, KindsStep DEF DiscardListed

LEMMA CancelDraftKinds == ASSUME KindsInv, CancelDraft PROVE KindsInv'
<1>1. wiz.open /\ wiz.m \in Known(server)
  BY KindsFacts, PageFields DEF CancelDraft, MayEdit
<1>2. PICK c : c = [m |-> wiz.m, answer |-> "none"]
  OBVIOUS
<1>3. c \in {None} \cup Cancels(Known(server))
  BY <1>1, <1>2 DEF Cancels, Answers
<1>4. net' = [net EXCEPT !.cancel = c]
  BY <1>2 DEF CancelDraft
<1>5. net' \in Nets(Known(server)) /\ net'.patches = net.patches
  BY <1>3, <1>4, NewCancel
<1>6. unsure' \in BOOLEAN
  BY DEF CancelDraft, Acting
<1> QED
  BY <1>1, <1>5, <1>6, SamePatches, KindsFacts, KindsStep DEF CancelDraft

LEMMA SubmitKinds == ASSUME KindsInv, Submit PROVE KindsInv'
<1>1. wiz.open /\ wiz.m \in Known(server) /\ wiz.form.type \in Types
  BY KindsFacts, PageFields, FormFields DEF Submit, MayEdit
<1>2. PICK s : s = [m |-> wiz.m, type |-> wiz.form.type, answer |-> "none"]
  OBVIOUS
<1>3. s \in {None} \cup Submits(Known(server))
  BY <1>1, <1>2 DEF Submits, Answers
<1>4. net' = [net EXCEPT !.submit = s]
  BY <1>2 DEF Submit
<1>5. net' \in Nets(Known(server)) /\ net'.patches = net.patches
  BY <1>3, <1>4, NewSubmit
<1>6. unsure' \in BOOLEAN
  BY DEF Submit, Acting
<1> QED
  BY <1>1, <1>5, <1>6, SamePatches, KindsFacts, KindsStep DEF Submit

LEMMA SaveDraftIs ==
    ASSUME KindsInv, SaveDraft
    PROVE  /\ server' \in [Movements -> Rows] /\ Known(server) \subseteq Known(server')
           /\ \A x \in Movements :
                 server'[x].status = server[x].status /\ server'[x].header = server[x].header
           /\ \A x \in Movements : server[x].payload => server'[x].payload
<1>1. server \in [Movements -> Rows] /\ wiz.m \in Movements /\ server[wiz.m].status = "BORRADOR"
  BY KindsFacts, PageFields, KnownIs DEF SaveDraft
<1>2. PICK old : old = server[wiz.m]
  OBVIOUS
<1>3. old \in [status : {"BORRADOR", "CONFIRMADA", "deleted"}, header : GoodHeaders,
               payload : BOOLEAN]
  BY <1>1, <1>2 DEF Rows, NoMovement
<1>4. PICK row : row = [old EXCEPT !.payload = TRUE]
  OBVIOUS
<1>5. row \in Rows /\ row.status = old.status /\ row.header = old.header /\ row.payload
  BY <1>3, <1>4 DEF Rows
<1>6. server' = [server EXCEPT ![wiz.m] = row]
  BY <1>2, <1>4 DEF SaveDraft
<1>7. server' \in [Movements -> Rows] /\ Known(server) \subseteq Known(server')
  BY <1>1, <1>2, <1>5, <1>6, ServerSteps
<1>8. \A x \in Movements : (x = wiz.m => server'[x] = row) /\ (x # wiz.m => server'[x] = server[x])
  BY <1>1, <1>6
<1> QED
  BY <1>2, <1>5, <1>7, <1>8

LEMMA SaveDraftKinds == ASSUME KindsInv, SaveDraft PROVE KindsInv'
<1>1. server' \in [Movements -> Rows] /\ Known(server) \subseteq Known(server')
  BY SaveDraftIs
<1>2. unsure' \in BOOLEAN /\ wiz.open
  BY DEF SaveDraft, Acting, MayEdit
<1> QED
  BY <1>1, <1>2, KindsFacts, KindsStep DEF SaveDraft

LEMMA ServeDiscardIs ==
    ASSUME KindsInv, ServeDiscard
    PROVE  /\ Ends(server, server', net.discard.m, "deleted") \/ server' = server
           /\ net.discard.m \in Movements /\ net.discard.answer = "none" /\ wiz.open
           /\ net' \in Nets(Known(server)) /\ unsure' \in BOOLEAN
           /\ net'.discard.m = net.discard.m /\ net'.discard.was = net.discard.was
           /\ net'.discard.answer \in {"ok", "error"}
           /\ ~unsure' => ~unsure /\ (server' = server \/ net'.discard.answer = "ok")
           /\ net'.create = net.create /\ net'.lost = net.lost /\ net'.patches = net.patches
           /\ net'.details = net.details /\ net'.cancel = net.cancel /\ net'.submit = net.submit
<1>1. PICK d : d = net.discard
  OBVIOUS
<1>2. d \in Discards(Known(server)) /\ d.m \in Known(server) /\ d.answer = "none" /\ wiz.open
  BY <1>1, DiscardIs DEF ServeDiscard
<1>3. d.m \in Movements
  BY <1>2, KnownIs
<1>4. PICK told \in {"ok", "error"} :
        /\ Served(Deleted(d.m), DeleteAnswer(d.m), told)
        /\ net' = [net EXCEPT !.discard = [@ EXCEPT !.answer = told]]
  BY <1>1 DEF ServeDiscard
<1>5. PICK e : e = [d EXCEPT !.answer = told]
  OBVIOUS
<1>6. /\ e \in Discards(Known(server)) /\ e.m = d.m /\ e.was = d.was /\ e.answer = told
  BY <1>2, <1>5 DEF Discards, Answers
<1>7. net' = [net EXCEPT !.discard = e]
  BY <1>1, <1>4, <1>5
<1>8. /\ net' \in Nets(Known(server)) /\ net'.discard = e
      /\ net'.create = net.create /\ net'.lost = net.lost /\ net'.patches = net.patches
      /\ net'.details = net.details /\ net'.cancel = net.cancel /\ net'.submit = net.submit
  BY <1>6, <1>7, NewDiscard
<1>9. /\ server' \in {server, Deleted(d.m)} /\ unsure' \in BOOLEAN
      /\ ~unsure' => /\ ~unsure
                     /\ \/ told = DeleteAnswer(d.m) /\ server' = Deleted(d.m)
                        \/ told = "error" /\ server' = server
  BY <1>4, ServedIs, KindsFacts
<1>10. /\ server[d.m].status = "BORRADOR" => Ends(server, Deleted(d.m), d.m, "deleted")
       /\ server[d.m].status # "BORRADOR" => Deleted(d.m) = server
  BY <1>3, DeletedIs
<1>11. Ends(server, server', d.m, "deleted") \/ server' = server
  BY <1>9, <1>10
<1>12. ~unsure' => ~unsure /\ (server' = server \/ told = "ok")
  BY <1>9, <1>10 DEF DeleteAnswer
<1> QED
  BY <1>1, <1>2, <1>3, <1>6, <1>8, <1>9, <1>11, <1>12

LEMMA ServeCancelIs ==
    ASSUME KindsInv, ServeCancel
    PROVE  /\ Ends(server, server', net.cancel.m, "deleted") \/ server' = server
           /\ net.cancel.m \in Movements /\ net.cancel.answer = "none" /\ wiz.open
           /\ net' \in Nets(Known(server)) /\ unsure' \in BOOLEAN
           /\ net'.cancel.m = net.cancel.m
           /\ net'.cancel.answer \in {"ok", "error"}
           /\ ~unsure' => ~unsure /\ (server' = server \/ net'.cancel.answer = "ok")
           /\ net'.create = net.create /\ net'.lost = net.lost /\ net'.patches = net.patches
           /\ net'.details = net.details /\ net'.discard = net.discard /\ net'.submit = net.submit
<1>1. PICK d : d = net.cancel
  OBVIOUS
<1>2. d \in Cancels(Known(server)) /\ d.m \in Known(server) /\ d.answer = "none" /\ wiz.open
  BY <1>1, CancelIs DEF ServeCancel
<1>3. d.m \in Movements
  BY <1>2, KnownIs
<1>4. PICK told \in {"ok", "error"} :
        /\ Served(Deleted(d.m), DeleteAnswer(d.m), told)
        /\ net' = [net EXCEPT !.cancel = [@ EXCEPT !.answer = told]]
  BY <1>1 DEF ServeCancel
<1>5. PICK e : e = [d EXCEPT !.answer = told]
  OBVIOUS
<1>6. /\ e \in Cancels(Known(server)) /\ e.m = d.m /\ e.answer = told
  BY <1>2, <1>5 DEF Cancels, Answers
<1>7. net' = [net EXCEPT !.cancel = e]
  BY <1>1, <1>4, <1>5
<1>8. /\ net' \in Nets(Known(server)) /\ net'.cancel = e
      /\ net'.create = net.create /\ net'.lost = net.lost /\ net'.patches = net.patches
      /\ net'.details = net.details /\ net'.discard = net.discard /\ net'.submit = net.submit
  BY <1>6, <1>7, NewCancel
<1>9. /\ server' \in {server, Deleted(d.m)} /\ unsure' \in BOOLEAN
      /\ ~unsure' => /\ ~unsure
                     /\ \/ told = DeleteAnswer(d.m) /\ server' = Deleted(d.m)
                        \/ told = "error" /\ server' = server
  BY <1>4, ServedIs, KindsFacts
<1>10. /\ server[d.m].status = "BORRADOR" => Ends(server, Deleted(d.m), d.m, "deleted")
       /\ server[d.m].status # "BORRADOR" => Deleted(d.m) = server
  BY <1>3, DeletedIs
<1>11. Ends(server, server', d.m, "deleted") \/ server' = server
  BY <1>9, <1>10
<1>12. ~unsure' => ~unsure /\ (server' = server \/ told = "ok")
  BY <1>9, <1>10 DEF DeleteAnswer
<1> QED
  BY <1>1, <1>2, <1>3, <1>6, <1>8, <1>9, <1>11, <1>12

LEMMA ServeSubmitIs ==
    ASSUME KindsInv, ServeSubmit
    PROVE  /\ Ends(server, server', net.submit.m, "CONFIRMADA") \/ server' = server
           /\ net.submit.m \in Movements /\ net.submit.answer = "none" /\ wiz.open
           /\ net' \in Nets(Known(server)) /\ unsure' \in BOOLEAN
           /\ net'.submit.m = net.submit.m
           /\ net'.submit.answer \in {"ok", "error"}
           /\ ~unsure' => ~unsure /\ (server' = server \/ net'.submit.answer = "ok")
           /\ net'.create = net.create /\ net'.lost = net.lost /\ net'.patches = net.patches
           /\ net'.details = net.details /\ net'.discard = net.discard /\ net'.cancel = net.cancel
<1>1. PICK s : s = net.submit
  OBVIOUS
<1>2. /\ s \in Submits(Known(server)) /\ s.m \in Known(server) /\ s.answer = "none" /\ wiz.open
  BY <1>1, SubmitIs DEF ServeSubmit
<1>3. s.m \in Movements
  BY <1>2, KnownIs
<1>4. PICK told \in {"ok", "error"} :
        /\ Served(Executed(s.m, s.type), ExecuteAnswer(s.m, s.type), told)
        /\ net' = [net EXCEPT !.submit = [@ EXCEPT !.answer = told]]
  BY <1>1 DEF ServeSubmit
<1>5. PICK e : e = [s EXCEPT !.answer = told]
  OBVIOUS
<1>6. e \in Submits(Known(server)) /\ e.m = s.m /\ e.answer = told
  BY <1>2, <1>5 DEF Submits, Answers
<1>7. net' = [net EXCEPT !.submit = e]
  BY <1>1, <1>4, <1>5
<1>8. /\ net' \in Nets(Known(server)) /\ net'.submit = e
      /\ net'.create = net.create /\ net'.lost = net.lost /\ net'.patches = net.patches
      /\ net'.details = net.details /\ net'.discard = net.discard /\ net'.cancel = net.cancel
  BY <1>6, <1>7, NewSubmit
<1>9. /\ server' \in {server, Executed(s.m, s.type)} /\ unsure' \in BOOLEAN
      /\ ~unsure' => /\ ~unsure
                     /\ \/ told = ExecuteAnswer(s.m, s.type) /\ server' = Executed(s.m, s.type)
                        \/ told = "error" /\ server' = server
  BY <1>4, ServedIs, KindsFacts
<1>10. /\ Executes(s.m, s.type) => Ends(server, Executed(s.m, s.type), s.m, "CONFIRMADA")
       /\ ~Executes(s.m, s.type) => Executed(s.m, s.type) = server
  BY <1>3, ExecutedIs
<1>11. Ends(server, server', s.m, "CONFIRMADA") \/ server' = server
  BY <1>9, <1>10
<1>12. ~unsure' => ~unsure /\ (server' = server \/ told = "ok")
  BY <1>9, <1>10 DEF ExecuteAnswer
<1> QED
  BY <1>1, <1>2, <1>3, <1>6, <1>8, <1>9, <1>11, <1>12

LEMMA ServeDiscardKinds == ASSUME KindsInv, ServeDiscard PROVE KindsInv'
<1>1. /\ Ends(server, server', net.discard.m, "deleted") \/ server' = server
      /\ wiz.open /\ net' \in Nets(Known(server)) /\ net'.patches = net.patches
      /\ unsure' \in BOOLEAN
  BY ServeDiscardIs
<1>2. server' \in [Movements -> Rows] /\ Known(server) \subseteq Known(server')
  BY <1>1, KindsFacts DEF Ends
<1> QED
  BY <1>1, <1>2, SamePatches, KindsFacts, KindsStep DEF ServeDiscard

LEMMA ServeCancelKinds == ASSUME KindsInv, ServeCancel PROVE KindsInv'
<1>1. /\ Ends(server, server', net.cancel.m, "deleted") \/ server' = server
      /\ wiz.open /\ net' \in Nets(Known(server)) /\ net'.patches = net.patches
      /\ unsure' \in BOOLEAN
  BY ServeCancelIs
<1>2. server' \in [Movements -> Rows] /\ Known(server) \subseteq Known(server')
  BY <1>1, KindsFacts DEF Ends
<1> QED
  BY <1>1, <1>2, SamePatches, KindsFacts, KindsStep DEF ServeCancel

LEMMA ServeSubmitKinds == ASSUME KindsInv, ServeSubmit PROVE KindsInv'
<1>1. /\ Ends(server, server', net.submit.m, "CONFIRMADA") \/ server' = server
      /\ wiz.open /\ net' \in Nets(Known(server)) /\ net'.patches = net.patches
      /\ unsure' \in BOOLEAN
  BY ServeSubmitIs
<1>2. server' \in [Movements -> Rows] /\ Known(server) \subseteq Known(server')
  BY <1>1, KindsFacts DEF Ends
<1> QED
  BY <1>1, <1>2, SamePatches, KindsFacts, KindsStep DEF ServeSubmit

\* A request nobody waits for creates a draft or ends one, and may be answered.
LEMMA ServeLostIs ==
    ASSUME KindsInv, NEW r \in net.lost, ServeLost(r)
    PROVE  /\ \/ \E m \in Movements, h \in GoodHeaders :
                    /\ server[m].status = "none"
                    /\ server' = [server EXCEPT ![m] = NewDraft(h)]
              \/ r.m \in Movements /\ r.kind # "create" /\ Ends(server, server', r.m, "deleted")
              \/ r.m \in Movements /\ r.kind # "create" /\ Ends(server, server', r.m, "CONFIRMADA")
              \/ server' = server
           /\ net' \in Nets(Known(server))
           /\ \A q \in net'.lost :
                 q \in net.lost \/ (q.kind # "create" /\ q.m = r.m /\ r.kind # "create")
           /\ net'.create = net.create /\ net'.patches = net.patches /\ net'.details = net.details
           /\ net'.discard = net.discard /\ net'.cancel = net.cancel /\ net'.submit = net.submit
           /\ net'.fetch = net.fetch
<1>1. r \in Strays(Known(server)) /\ net.lost \subseteq Strays(Known(server))
  BY KindsFacts, NetFields
<1>2. PICK told : told = [r EXCEPT !.kind = "answered"]
  OBVIOUS
<1>7. PICK lost : /\ lost = net.lost \ {r} \/ (r.late # "nothing" /\ lost = (net.lost \ {r}) \cup {told})
                  /\ net' = [net EXCEPT !.lost = lost]
  BY <1>2 DEF ServeLost
<1>8. r.late # "nothing" => /\ told \in Strays(Known(server)) /\ told.kind = "answered"
                            /\ told.m = r.m /\ r.kind # "create"
  BY <1>1, <1>2 DEF Strays
<1>9. /\ lost \subseteq Strays(Known(server))
      /\ \A q \in lost : q \in net.lost \/ (q.kind # "create" /\ q.m = r.m /\ r.kind # "create")
  BY <1>1, <1>7, <1>8
<1>10. /\ net' \in Nets(Known(server)) /\ net'.lost = lost
       /\ net'.create = net.create /\ net'.patches = net.patches /\ net'.details = net.details
       /\ net'.discard = net.discard /\ net'.cancel = net.cancel /\ net'.submit = net.submit
       /\ net'.fetch = net.fetch
  BY <1>7, <1>9, KindsFacts DEF Nets
<1>3. /\ net' \in Nets(Known(server))
      /\ \A q \in net'.lost :
            q \in net.lost \/ (q.kind # "create" /\ q.m = r.m /\ r.kind # "create")
      /\ net'.create = net.create /\ net'.patches = net.patches /\ net'.details = net.details
      /\ net'.discard = net.discard /\ net'.cancel = net.cancel /\ net'.submit = net.submit
      /\ net'.fetch = net.fetch
  BY <1>9, <1>10
<1>4. CASE r.kind = "create" /\ \E m \in Movements :
             server[m].status = "none" /\ server' = [server EXCEPT ![m] = NewDraft(r.header)]
  <2>1. r.header \in GoodHeaders
    BY <1>1, <1>4 DEF Strays
  <2> QED
    BY <1>3, <1>4, <2>1
<1>5. CASE r.kind = "delete" /\ server' = Deleted(r.m)
  <2>1. r.m \in Movements
    BY <1>1, <1>5 DEF Strays, Known
  <2>2. Ends(server, server', r.m, "deleted") \/ server' = server
    BY <1>5, <2>1, DeletedIs
  <2> QED
    BY <1>3, <1>5, <2>1, <2>2
<1>6. CASE r.kind = "execute" /\ server' = Executed(r.m, r.header.type)
  <2>1. r.m \in Movements
    BY <1>1, <1>6 DEF Strays, Known
  <2>2. Ends(server, server', r.m, "CONFIRMADA") \/ server' = server
    BY <1>6, <2>1, ExecutedIs
  <2> QED
    BY <1>3, <1>6, <2>1, <2>2
<1> QED
  BY <1>4, <1>5, <1>6 DEF ServeLost

LEMMA ServeLostKinds ==
    ASSUME KindsInv, NEW r \in net.lost, ServeLost(r)
    PROVE  KindsInv'
<1>1. server' \in [Movements -> Rows] /\ Known(server) \subseteq Known(server')
  <2>1. ASSUME NEW m \in Movements, NEW h \in GoodHeaders,
               server' = [server EXCEPT ![m] = NewDraft(h)]
        PROVE  server' \in [Movements -> Rows] /\ Known(server) \subseteq Known(server')
    BY <2>1, NewDraftIs
  <2> QED
    BY <2>1, ServeLostIs, KindsFacts DEF Ends
<1>2. net' \in Nets(Known(server)) /\ net'.patches = net.patches
  BY ServeLostIs
<1>3. wiz.open \/ NobodyWaits(net')
  <2>1. CASE ~wiz.open
    <3>1. NobodyWaits(net)
      BY <2>1, KindsFacts
    <3>2. /\ net'.create = net.create /\ net'.patches = net.patches /\ net'.details = net.details
          /\ net'.discard = net.discard /\ net'.cancel = net.cancel /\ net'.submit = net.submit
          /\ net'.fetch = net.fetch
      BY ServeLostIs
    <3> QED
      BY <3>1, <3>2 DEF NobodyWaits
  <2> QED
    BY <2>1
<1> QED
  BY <1>1, <1>2, <1>3, SamePatches, KindsFacts, KindsStep DEF ServeLost

LEMMA AnswerDiscardIs ==
    ASSUME KindsInv, AnswerDiscard
    PROVE  /\ net' \in Nets(Known(server)) /\ net'.discard = None
           /\ net'.create = net.create /\ net'.lost = net.lost /\ net'.patches = net.patches
           /\ net'.details = net.details /\ net'.cancel = net.cancel /\ net'.submit = net.submit
<1>1. PICK n : n = [net EXCEPT !.discard = None]
  OBVIOUS
<1>2. /\ n \in Nets(Known(server)) /\ n.discard = None
      /\ n.create = net.create /\ n.lost = net.lost /\ n.patches = net.patches
      /\ n.details = net.details /\ n.cancel = net.cancel /\ n.submit = net.submit
  BY <1>1, NewDiscard
<1>3. net' = Fetching(n)
  BY <1>1 DEF AnswerDiscard
<1> QED
  BY <1>2, <1>3, FetchingIs

LEMMA AnswerDiscardKinds == ASSUME KindsInv, AnswerDiscard PROVE KindsInv'
<1>1. net' \in Nets(Known(server)) /\ net'.patches = net.patches
  BY AnswerDiscardIs
<1>2. wiz.open /\ net.discard.list \subseteq ItemsOf(Known(server))
  BY DiscardIs DEF AnswerDiscard
<1>3. /\ wiz' \in Pages(Known(server)) /\ PageOk(wiz') /\ wiz'.open
      /\ pointer' \in Pointers(Known(server)) /\ unsure' \in BOOLEAN
      /\ Follows(wiz', pointer')
  <2>1. CASE RenderReset(wiz) /\ unsure' = HeaderInFlight
    <3>1. wiz \in Pages(Known(server))
      BY KindsFacts
    <3>2. /\ wiz' \in Pages(Known(server)) /\ PageOk(wiz') /\ wiz'.open /\ pointer' = None
      BY <2>1, <3>1, RenderResetIs
    <3> QED
      BY <2>1, <3>2 DEF Pointers, HeaderInFlight, Follows
  <2>2. CASE UNCHANGED <<wiz, pointer, unsure>>
    BY <1>2, <2>2, KindsFacts
  <2>3. CASE /\ wiz' = [wiz EXCEPT !.list = net.discard.list, !.error = TRUE]
             /\ UNCHANGED <<pointer, unsure>>
    <3>1. wiz' = [wiz EXCEPT !.error = TRUE, !.list = net.discard.list]
      BY <2>3, KindsFacts DEF Pages
    <3>2. wiz' \in Pages(Known(server)) /\ PageOk(wiz') /\ wiz'.open
          /\ wiz'.m = wiz.m /\ wiz'.form = wiz.form
      BY <1>2, <3>1, MessageIs
    <3> QED
      BY <2>3, <3>2, KindsFacts DEF Follows
  <2> QED
    BY <2>1, <2>2, <2>3 DEF AnswerDiscard
<1> QED
  BY <1>1, <1>3, SamePatches, KindsFacts, KindsStep DEF AnswerDiscard

LEMMA AnswerCancelIs ==
    ASSUME KindsInv, AnswerCancel
    PROVE  /\ net' \in Nets(Known(server)) /\ net'.cancel = None
           /\ net'.create = net.create /\ net'.lost = net.lost /\ net'.patches = net.patches
           /\ net'.details = net.details /\ net'.discard = net.discard /\ net'.submit = net.submit
<1>1. PICK n : n = [net EXCEPT !.cancel = None]
  OBVIOUS
<1>2. /\ n \in Nets(Known(server)) /\ n.cancel = None
      /\ n.create = net.create /\ n.lost = net.lost /\ n.patches = net.patches
      /\ n.details = net.details /\ n.discard = net.discard /\ n.submit = net.submit
  BY <1>1, NewCancel
<1>3. net' = Fetching(n) \/ net' = n
  BY <1>1 DEF AnswerCancel
<1> QED
  BY <1>2, <1>3, FetchingIs

\* The page an answered "Cancelar" is reset from.
LEMMA CancelledIs ==
    ASSUME KindsInv, NEW w, w = [wiz EXCEPT !.token = FALSE, !.resume = 0]
    PROVE  w \in Pages(Known(server)) /\ w.resume = 0
BY KindsFacts DEF Pages

LEMMA AnswerCancelKinds == ASSUME KindsInv, AnswerCancel PROVE KindsInv'
<1>1. net' \in Nets(Known(server)) /\ net'.patches = net.patches
  BY AnswerCancelIs
<1>2. wiz.open
  BY CancelIs DEF AnswerCancel
<1>3. /\ wiz' \in Pages(Known(server)) /\ PageOk(wiz') /\ wiz'.open
      /\ pointer' \in Pointers(Known(server)) /\ unsure' \in BOOLEAN
      /\ Follows(wiz', pointer')
  <2>1. CASE RenderReset([wiz EXCEPT !.token = FALSE, !.resume = 0]) /\ unsure' = HeaderInFlight
    <3>1. PICK w : w = [wiz EXCEPT !.token = FALSE, !.resume = 0]
      OBVIOUS
    <3>2. w \in Pages(Known(server)) /\ RenderReset(w)
      BY <2>1, <3>1, CancelledIs
    <3>3. wiz' \in Pages(Known(server)) /\ PageOk(wiz') /\ wiz'.open /\ pointer' = None
      BY <3>2, RenderResetIs
    <3> QED
      BY <2>1, <3>3 DEF Pointers, HeaderInFlight, Follows
  <2>2. CASE wiz' = [wiz EXCEPT !.error = TRUE] /\ UNCHANGED <<pointer, unsure>>
    <3>1. wiz' \in Pages(Known(server)) /\ PageOk(wiz') /\ wiz'.open
          /\ wiz'.m = wiz.m /\ wiz'.form = wiz.form
      BY <1>2, <2>2, NewMessage
    <3> QED
      BY <2>2, <3>1, KindsFacts DEF Follows
  <2> QED
    BY <2>1, <2>2 DEF AnswerCancel
<1> QED
  BY <1>1, <1>3, SamePatches, KindsFacts, KindsStep DEF AnswerCancel

LEMMA AnswerSubmitKinds == ASSUME KindsInv, AnswerSubmit PROVE KindsInv'
<1>1. CASE /\ wiz' = Closed /\ pointer' = Reset(wiz).pointer /\ net' = Abandoned(net)
           /\ unsure' = FALSE /\ UNCHANGED server
  <2>1. net' \in Nets(Known(server)) /\ NobodyWaits(net') /\ OneLatest(net')
    BY <1>1, KindsFacts, AbandonedIs
  <2>2. wiz' \in Pages(Known(server)) /\ PageOk(wiz')
    BY <1>1, ClosedIs
  <2>3. pointer' \in Pointers(Known(server))
    BY <1>1 DEF Reset, Pointers
  <2>4. wiz'.m = 0
    BY <1>1 DEF Closed
  <2> QED
    BY <1>1, <2>1, <2>2, <2>3, <2>4, KindsFacts, KindsStep
<1>2. CASE net' = [net EXCEPT !.submit = None] /\ UNCHANGED <<server, wiz, pointer, unsure>>
  <2>1. net' \in Nets(Known(server)) /\ net'.patches = net.patches
    BY <1>2, NewSubmit
  <2>2. wiz.open
    BY <1>2, SubmitIs DEF AnswerSubmit
  <2> QED
    BY <1>2, <2>1, <2>2, SamePatches, KindsFacts, KindsStep
<1> QED
  BY <1>1, <1>2 DEF AnswerSubmit

\* One request of a page that is gone has been heard of.
LEMMA OthersAre ==
    ASSUME KindsInv, NEW r \in net.lost, NEW others, others = [net EXCEPT !.lost = @ \ {r}]
    PROVE  /\ others \in Nets(Known(server)) /\ others.lost = net.lost \ {r}
           /\ others.create = net.create /\ others.patches = net.patches
           /\ others.details = net.details /\ others.cancel = net.cancel
           /\ others.discard = net.discard /\ others.submit = net.submit
           /\ others.fetch = net.fetch
BY KindsFacts DEF Nets

LEMMA BlankIs ==
    ASSUME NEW D, NEW w, w = [Closed EXCEPT !.open = TRUE]
    PROVE  /\ w \in Pages(D) /\ PageOk(w) /\ w.open /\ w.m = 0 /\ w.modal = 0
           /\ w.form = EmptyForm
<1>1. /\ w \in Pages(D) /\ w.open /\ w.m = 0 /\ w.modal = 0 /\ w.form = EmptyForm
      /\ ~w.patchTimer /\ ~w.createTimer
  BY EmptyFormIs DEF Closed, Pages, Chosen
<1> QED
  BY <1>1 DEF PageOk

\* The page that takes the location state of a late "Cancelar".
LEMMA UnstatedIs ==
    ASSUME KindsInv, wiz.open, NEW new, new = [wiz EXCEPT !.token = FALSE, !.resume = 0],
           wiz' = Rendered(wiz, new)
    PROVE  /\ wiz' \in Pages(Known(server)) /\ PageOk(wiz') /\ wiz'.open
           /\ wiz'.m = wiz.m /\ wiz'.form = wiz.form /\ wiz'.synced = wiz.synced
           /\ wiz'.modal = wiz.modal /\ wiz'.error = wiz.error
           /\ (wiz'.patchTimer <=> wiz.patchTimer)
<1>1. /\ new \in Pages(Known(server)) /\ new.open /\ new.m = wiz.m /\ new.form = wiz.form
      /\ new.synced = wiz.synced /\ new.modal = wiz.modal /\ new.error = wiz.error
      /\ new.patchTimer = wiz.patchTimer /\ new.createTimer = wiz.createTimer
  BY KindsFacts DEF Pages
<1>2. wiz' \in Pages(Known(server)) /\ Shows(wiz', new) /\ PageOk(wiz')
  BY <1>1, KindsFacts, RenderedIs, RenderedOk
<1>3. ~PatchDiffers(wiz, new)
  BY <1>1 DEF PatchDiffers
<1>4. wiz'.patchTimer = new.patchTimer
  <2>1. wiz \in Pages(Known(server)) /\ new \in Pages(Known(server))
    BY <1>1, KindsFacts
  <2>2. Rendered(wiz, new).patchTimer = new.patchTimer
    BY <1>3, <2>1, RenderedSame, Zenon
  <2> QED
    BY <2>2
<1>5. wiz'.patchTimer = wiz.patchTimer
  BY <1>1, <1>4
<1> QED
  BY <1>1, <1>2, <1>5 DEF Shows

LEMMA AnswerLateKinds ==
    ASSUME KindsInv, NEW r \in net.lost, AnswerLate(r)
    PROVE  KindsInv'
<1>1. PICK others : others = [net EXCEPT !.lost = @ \ {r}]
  OBVIOUS
<1>2. /\ others \in Nets(Known(server)) /\ others.patches = net.patches
      /\ others.create = net.create /\ others.details = net.details
      /\ others.cancel = net.cancel /\ others.discard = net.discard
      /\ others.submit = net.submit /\ others.fetch = net.fetch
  BY <1>1, OthersAre
<1>3. OneLatest(others) /\ (NobodyWaits(net) => NobodyWaits(others))
  BY <1>2, KindsFacts DEF OneLatest, NobodyWaits
<1>4. PICK a : a = Abandoned(others)
  OBVIOUS
<1>5. a \in Nets(Known(server)) /\ NobodyWaits(a) /\ OneLatest(a)
  BY <1>2, <1>4, AbandonedIs
<1>6. pointer' = None /\ server' = server /\ pointer' \in Pointers(Known(server))
  BY DEF AnswerLate, Pointers
<1>7. CASE net' = others /\ UNCHANGED <<wiz, unsure>>
  BY <1>2, <1>3, <1>6, <1>7, KindsFacts, KindsStep
<1>8. CASE wiz' = Closed /\ net' = a /\ unsure' = (unsure \/ net' # others)
  <2>1. wiz' \in Pages(Known(server)) /\ PageOk(wiz') /\ unsure' \in BOOLEAN
    BY <1>8, ClosedIs
  <2> QED
    BY <1>5, <1>6, <1>8, <2>1, KindsFacts, KindsStep
<1>9. CASE /\ wiz.open /\ wiz' = Rendered(wiz, [wiz EXCEPT !.token = FALSE, !.resume = 0])
           /\ net' = others /\ UNCHANGED unsure
  <2>1. wiz' \in Pages(Known(server)) /\ PageOk(wiz') /\ wiz'.open
    BY <1>9, UnstatedIs
  <2> QED
    BY <1>2, <1>3, <1>6, <1>9, <2>1, KindsFacts, KindsStep
<1>10. CASE /\ wiz' = [Closed EXCEPT !.open = TRUE] /\ net' = Fetching(a)
            /\ unsure' = (HeaderInFlight \/ Unanswered(net'))
  <2>1. wiz' \in Pages(Known(server)) /\ PageOk(wiz') /\ wiz'.open
    BY <1>10, BlankIs
  <2>2. net' \in Nets(Known(server)) /\ net'.patches = a.patches
    BY <1>5, <1>10, FetchingIs
  <2>3. OneLatest(net')
    BY <1>5, <2>2 DEF OneLatest
  <2>4. unsure' \in BOOLEAN
    BY <1>10 DEF HeaderInFlight
  <2> QED
    BY <1>6, <2>1, <2>2, <2>3, <2>4, KindsFacts, KindsStep
<1> QED
  BY <1>1, <1>4, <1>7, <1>8, <1>9, <1>10 DEF AnswerLate

\* The header of the other drafts of the initial state.
LEMMA OtherIs ==
    ASSUME NEW other, other = CHOOSE x \in Headers : x.type # TwoClients /\ Complete(x) /\ x.cost = ""
    PROVE  other \in GoodHeaders
<1>1. PICK type \in Types : type # TwoClients
  BY WizardAssumption
<1>2. PICK client \in Clients : TRUE
  BY WizardAssumption
<1>3. PICK h : h = [type |-> type, client |-> client, cost |-> ""]
  OBVIOUS
<1>4. h \in Headers /\ h.type # TwoClients /\ Complete(h) /\ h.cost = ""
  BY <1>1, <1>2, <1>3, TypesAre DEF Headers, Chosen, Complete
<1>5. other \in Headers /\ other.type # TwoClients /\ Complete(other) /\ other.cost = ""
  BY <1>4
<1> QED
  BY <1>5 DEF GoodHeaders, RegularHeaders

LEMMA InitialRows ==
    ASSUME WizardInit
    PROVE  /\ server \in [Movements -> Rows]
           /\ \A x \in Movements : server[x].status \in {"none", "BORRADOR"}
<1>1. PICK h \in FirstHeaders, payload \in BOOLEAN, others \in BOOLEAN :
        LET m == CHOOSE x \in Movements : TRUE
            other == CHOOSE x \in Headers : x.type # TwoClients /\ Complete(x) /\ x.cost = "" IN
        /\ Complete(h)
        /\ h.type # TwoClients => h.cost = ""
        /\ server = [x \in Movements |->
                      IF x = m THEN [NewDraft(h) EXCEPT !.payload = payload]
                      ELSE IF others THEN NewDraft(other) ELSE NoMovement]
  BY DEF WizardInit
<1> DEFINE other == CHOOSE x \in Headers : x.type # TwoClients /\ Complete(x) /\ x.cost = ""
           first == CHOOSE x \in Movements : TRUE
           draft == [NewDraft(h) EXCEPT !.payload = payload]
<1>2. server = [x \in Movements |-> IF x = first THEN draft
                                   ELSE IF others THEN NewDraft(other) ELSE NoMovement]
  BY <1>1, Zenon
<1>3. other \in GoodHeaders
  BY OtherIs, Zenon
<1>4. h \in GoodHeaders
  BY <1>1, FirstAssumption DEF GoodHeaders, RegularHeaders
<1>5. draft \in Rows /\ draft.status = "BORRADOR"
  BY <1>4 DEF NewDraft, Rows
<1> HIDE DEF other, first, draft
<1>7. NewDraft(other) \in Rows /\ NewDraft(other).status = "BORRADOR"
  BY <1>3 DEF NewDraft, Rows
<1>8. NoMovement \in Rows /\ NoMovement.status = "none"
  BY DEF NoMovement, Rows
<1> QED
  BY <1>2, <1>5, <1>7, <1>8

LEMMA KindsInit == ASSUME WizardInit PROVE KindsInv
<1>1. server \in [Movements -> Rows]
  BY InitialRows
<1>2. wiz = Closed /\ net = Silent /\ unsure = FALSE
  BY DEF WizardInit
<1>4. Follows(wiz, pointer)
  BY <1>2 DEF Follows, Closed
<1>3. pointer \in Pointers(Known(server))
  <2>1. ASSUME NEW x \in Existing
        PROVE  [m |-> x, form |-> FormOf(server[x].header)] \in Pointers(Known(server))
    <3>1. x \in Movements /\ server[x] \in Rows /\ server[x].status = "BORRADOR"
      BY <1>1, <2>1 DEF Existing
    <3>2. server[x].header \in RegularHeaders
      BY <3>1, RowFields, GoodHeaderIs
    <3> QED
      BY <3>1, <3>2, KnownIs, FormOfIs DEF Pointers
  <2>2. pointer = None \/ \E x \in Existing : pointer = [m |-> x, form |-> FormOf(server[x].header)]
    BY DEF WizardInit
  <2>3. None \in Pointers(Known(server))
    BY DEF Pointers
  <2> QED
    BY <2>1, <2>2, <2>3
<1> QED
  BY <1>1, <1>2, <1>3, <1>4, ClosedIs, SilentIs DEF KindsInv

LEMMA KindsNext == ASSUME KindsInv, [WizardNext]_wizardVars PROVE KindsInv'
<1>1. CASE UNCHANGED wizardVars
  BY <1>1 DEF wizardVars, KindsInv
<1>2. CASE User
  BY <1>2, MenuKinds, ReloadKinds, LeaveKinds, ConfirmClearKinds, RevertKinds, CancelDraftKinds,
     SaveDraftKinds, SubmitKinds, EnterKinds, EditTypeKinds, EditClientKinds, ResumeKinds,
     DiscardListedKinds DEF User
<1>3. CASE System
  BY <1>3, SendCreateKinds, RefuseCreateKinds, AnswerCreateKinds, CreateTimeoutKinds,
     SendPatchKinds, AnswerFetchKinds, ServeDiscardKinds, ServeCancelKinds, ServeSubmitKinds,
     AnswerDiscardKinds, AnswerCancelKinds, AnswerSubmitKinds, ServeCreateKinds, ServePatchKinds,
     AnswerPatchKinds, ServeDetailKinds, AnswerDetailKinds, ServeLostKinds, AnswerLateKinds DEF System
<1> QED
  BY <1>1, <1>2, <1>3 DEF WizardNext

LEMMA KindsAreTypes == ASSUME KindsInv PROVE WizardTypes
<1>1. server \in [Movements -> [status : {"none", "BORRADOR", "CONFIRMADA", "deleted"},
                                header : Headers \cup {NoHeader}, payload : BOOLEAN]]
  <2>1. GoodHeaders \subseteq Headers
    BY DEF GoodHeaders, RegularHeaders
  <2>2. NoMovement \in [status : {"none", "BORRADOR", "CONFIRMADA", "deleted"},
                        header : Headers \cup {NoHeader}, payload : BOOLEAN]
    BY DEF NoMovement
  <2>3. Rows \subseteq [status : {"none", "BORRADOR", "CONFIRMADA", "deleted"},
                        header : Headers \cup {NoHeader}, payload : BOOLEAN]
    BY <2>1, <2>2 DEF Rows
  <2> QED
    BY <2>3, KindsFacts
<1>2. Known(server) \subseteq Movements
  BY DEF Known
<1>3. /\ DOMAIN wiz = DOMAIN Closed
      /\ wiz.m \in Movements \cup {0} /\ wiz.modal \in Movements \cup {0}
      /\ wiz.form \in Forms /\ wiz.synced \in Headers \cup {NoHeader} /\ wiz.cob \in Chosen
      /\ {wiz.open, wiz.error, wiz.token, wiz.patchTimer, wiz.createTimer} \subseteq BOOLEAN
  BY <1>2, KindsFacts DEF Pages, Closed, RegularHeaders
<1>4. wiz.list \subseteq Items
  <2>1. ItemsOf(Known(server)) \subseteq Items
    BY <1>2 DEF ItemsOf, Items, GoodHeaders, RegularHeaders
  <2> QED
    BY <2>1, KindsFacts, PageFields
<1>5. /\ wiz.createTimer => wiz.m = 0 /\ Complete(wiz.form)
      /\ wiz.patchTimer => wiz.m # 0
  BY KindsFacts DEF PageOk
<1>6. DOMAIN net = DOMAIN Silent
  BY KindsFacts DEF Nets, Silent
<1>7. \A p \in net.patches : p.m \in Movements /\ p.header \in Headers
  BY <1>2, KindsFacts, NetFields, EditIs DEF RegularHeaders
<1>8. Cardinality({p \in net.patches : p.latest}) <= 1
  <2>1. CASE {p \in net.patches : p.latest} = {}
    BY <2>1, FS_EmptySet
  <2>2. ASSUME NEW p \in net.patches, p.latest
        PROVE  Cardinality({q \in net.patches : q.latest}) <= 1
    <3>1. {q \in net.patches : q.latest} = {p}
      BY <2>2, KindsFacts DEF OneLatest
    <3>2. Cardinality({p}) = 1
      BY FS_Singleton
    <3> QED
      BY <3>1, <3>2
  <2> QED
    BY <2>1, <2>2
<1>9. pointer = None \/ (pointer.m \in Movements /\ pointer.form \in Forms)
  BY <1>2, KindsFacts DEF Pointers
<1> QED
  BY <1>1, <1>3, <1>4, <1>5, <1>6, <1>7, <1>8, <1>9 DEF WizardTypes

\* The records hold what they are meant to hold, and timers what they would send.
LEMMA KindsAlways == WizardSpec => []KindsInv
<1>1. WizardInit => KindsInv
  BY KindsInit
<1>2. KindsInv /\ [WizardNext]_wizardVars => KindsInv'
  BY KindsNext
<1> QED
  BY <1>1, <1>2, PTL DEF WizardSpec

\* A payload leaves the server only by an execution, a discard or a PATCH of a
\* user who confirmed it.
LEMMA PayloadStep ==
    ASSUME KindsInv, [WizardNext]_wizardVars, NEW m \in Movements,
           server[m].payload, ~server'[m].payload
    PROVE  \E p \in net.patches : p.m = m /\ p.confirm
<1>1. server \in [Movements -> Rows]
  BY KindsFacts
<1>2. server' # server
  OBVIOUS
<1>3. ASSUME NEW h \in GoodHeaders, NEW x \in Movements, server[x].status = "none",
             server' = [server EXCEPT ![x] = NewDraft(h)]
      PROVE  FALSE
  <2>1. x = m
    BY <1>1, <1>3
  <2>2. server[x] \in Rows
    BY <1>1
  <2> QED
    BY <1>3, <2>1, <2>2, RowFields
<1>4. ASSUME NEW x, NEW status, Ends(server, server', x, status)
      PROVE  FALSE
  BY <1>4 DEF Ends
<1>5. ASSUME NEW p \in net.patches, ServePatch(p)
      PROVE  p.m = m /\ p.confirm
  <2>4. server' = Patched(p)
    BY <1>2, <1>5, ServePatchIs
  <2>1. p.m = m
    <3>1. \A x \in Movements : x # p.m => server'[x] = server[x]
      BY <2>4, PatchedIs
    <3> QED
      BY <3>1
  <2>2. PatchAnswer(p) = "ok"
    BY <1>2, <2>4, PatchedIs
  <2>3. server[p.m].header # p.header
    <3>1. server'[p.m].payload = (server[p.m].payload /\ server[p.m].header = p.header)
      BY <2>2, <2>4, PatchedIs
    <3> QED
      BY <2>1, <3>1
  <2> QED
    BY <2>1, <2>2, <2>3 DEF PatchAnswer
<1>6. ~SaveDraft
  BY SaveDraftIs
<1>7. ~ServeDiscard
  BY <1>2, <1>4, ServeDiscardIs
<1>8. ~ServeCancel
  BY <1>2, <1>4, ServeCancelIs
<1>9. ~ServeSubmit
  BY <1>2, <1>4, ServeSubmitIs
<1>10. ASSUME NEW r \in net.lost, ServeLost(r) PROVE FALSE
  BY <1>2, <1>3, <1>4, <1>10, ServeLostIs
<1>11. ASSUME NEW x \in Movements, NEW ok \in BOOLEAN, ServeCreate(x, ok) PROVE FALSE
  <2>1. net.create.header \in GoodHeaders
    BY <1>11, CreationIs DEF ServeCreate
  <2> QED
    BY <1>2, <1>3, <1>11, <2>1 DEF ServeCreate
<1>12. ~UNCHANGED wizardVars
  BY <1>2 DEF wizardVars
<1>13. CASE User
  <2>1. ~Menu /\ ~ReloadPage /\ ~Leave
    BY <1>2 DEF Menu, ReloadPage, Leave
  <2>2. ~ConfirmClear /\ ~Revert /\ ~CancelDraft /\ ~Submit
    BY <1>2 DEF ConfirmClear, Revert, CancelDraft, Submit
  <2>3. \A x \in Movements \cup {0} : ~Enter(x)
    BY <1>2 DEF Enter
  <2>4. \A type \in Types \cup {""} : ~EditType(type)
    BY <1>2 DEF EditType
  <2>5. \A c \in Chosen : ~EditClient(c)
    BY <1>2 DEF EditClient
  <2>6. \A item \in wiz.list : ~Resume(item) /\ ~DiscardListed(item)
    BY <1>2 DEF Resume, DiscardListed
  <2> QED
    BY <1>6, <1>13, <2>1, <2>2, <2>3, <2>4, <2>5, <2>6 DEF User
<1>14. CASE System
  <2>1. ~SendCreate /\ ~RefuseCreate /\ ~AnswerCreate /\ ~CreateTimeout
    BY <1>2 DEF SendCreate, RefuseCreate, AnswerCreate, CreateTimeout
  <2>2. ~SendPatch /\ ~AnswerFetch /\ ~AnswerDiscard /\ ~AnswerCancel /\ ~AnswerSubmit
    BY <1>2 DEF SendPatch, AnswerFetch, AnswerDiscard, AnswerCancel, AnswerSubmit
  <2>3. \A p \in net.patches : ~AnswerPatch(p)
    BY <1>2 DEF AnswerPatch
  <2>4. \A d \in net.details : ~ServeDetail(d) /\ ~AnswerDetail(d)
    BY <1>2 DEF ServeDetail, AnswerDetail
  <2>5. \A r \in net.lost : ~AnswerLate(r)
    BY <1>2 DEF AnswerLate
  <2> QED
    BY <1>5, <1>7, <1>8, <1>9, <1>10, <1>11, <1>14, <2>1, <2>2, <2>3, <2>4, <2>5 DEF System
<1> QED
  BY <1>12, <1>13, <1>14 DEF WizardNext

\* However answers overlap, an edit of the header never loses a payload: each
\* one that goes was given up by a confirmed PATCH, or went with its draft
\* (patchMovementHeader with confirm_clear, PatchMovementHeader).
THEOREM EditsKeepPayloadAlways == WizardSpec => EditsKeepPayload
<1>1. KindsInv /\ [WizardNext]_wizardVars =>
        [\A m \in Movements :
            server[m].payload /\ ~server'[m].payload =>
                \E p \in net.patches : p.m = m /\ p.confirm]_wizardVars
  BY PayloadStep
<1> QED
  BY <1>1, KindsAlways, PTL DEF WizardSpec, EditsKeepPayload

-----------------------------------------------------------------------------
(* What holds as long as the user waited                                   *)

LostKill(m) == \E r \in net.lost : r.kind # "create" /\ r.m = m

\* An answer that will reset the wizard holding m is on its way.
ResetPending(m) ==
    \/ net.cancel.m # 0 /\ net.cancel.answer = "ok"
    \/ net.discard.m # 0 /\ net.discard.answer = "ok" /\ net.discard.was = net.discard.m
    \/ net.submit.m # 0 /\ net.submit.answer = "ok"

\* An arbitrage has its clients in the form below the header only.
FormAlone == wiz.m = 0 /\ wiz.form.type = TwoClients => wiz.form.client = ""

\* A draft is being created: nothing else is about a header, nor about that draft.
CreateAlone ==
    net.create # None =>
        /\ wiz.m = 0 /\ wiz.modal = 0 /\ net.patches = {} /\ net.details = {}
        /\ net.create.header.type = TwoClients => net.create.header.client = ""
        /\ net.create.served /\ ~net.create.refused =>
             /\ net.create.m # 0 /\ server[net.create.m].status = "BORRADOR"
             /\ server[net.create.m].header = net.create.header
             /\ ~LostKill(net.create.m) /\ net.discard.m # net.create.m
             /\ net.cancel.m # net.create.m /\ net.submit.m # net.create.m

\* The one PATCH in flight is what the form shows.
PatchAlone ==
    wiz.open => \A p \in net.patches :
        /\ net.patches = {p} /\ p.latest /\ net.details = {}
        /\ wiz.m = p.m /\ p.header = HeaderOf(wiz.form)
        /\ p.confirm => p.modal = wiz.m

NobodyEnds == net.cancel = None /\ net.discard = None /\ net.submit = None

\* The one read in flight is of the draft that is or will be held.
DetailAlone ==
    \A d \in net.details :
        /\ net.details = {d} /\ wiz.modal = 0
        /\ d.kind = "resume" =>
             wiz.m = 0 /\ wiz.resume = d.m /\ NobodyEnds /\ ~Unanswered(net)
        /\ d.kind = "list" =>
             /\ wiz.m = d.m /\ wiz.form.type = TwoClients
             /\ server[d.m].header.type = TwoClients
             /\ d.header \in {NoHeader, server[d.m].header}

\* The draft held is open, or the answer that lets go of it is on its way.
Life ==
    wiz.m # 0 =>
        /\ ~LostKill(wiz.m)
        /\ server[wiz.m].status = "BORRADOR" \/ ResetPending(wiz.m)
        /\ net.discard.m = wiz.m /\ net.discard.answer = "none" => net.discard.was = wiz.m

\* The pointer follows the wizard, or names an open draft until one is read.
PointerLife ==
    pointer # None =>
        IF wiz.m # 0 THEN pointer.m = wiz.m
        ELSE /\ server[pointer.m].status = "BORRADOR" /\ ~LostKill(pointer.m)
             /\ wiz.open => /\ wiz.resume # 0 /\ net.create = None /\ ~Unanswered(net)
                            /\ NobodyEnds /\ (net.details # {} \/ wiz.error)

\* What lastSyncedHeaderRef says is what the server has.
HeaderLife ==
    wiz.m # 0 /\ server[wiz.m].status = "BORRADOR" =>
        /\ net.patches = {} /\ net.details = {} => server[wiz.m].header = wiz.synced
        /\ \A p \in net.patches :
             server[wiz.m].header = IF p.answer = "ok" THEN p.header ELSE wiz.synced

\* What differs from it is about to be sent.
TimerLife ==
    /\ wiz.m # 0 /\ ~HeaderInFlight /\ wiz.modal = 0 /\ ~wiz.error /\ ~wiz.patchTimer
    /\ server[wiz.m].status = "BORRADOR"
    => HeaderOf(wiz.form) = wiz.synced

ModalLife == wiz.modal # 0 => wiz.modal = wiz.m

Sure ==
    /\ FormAlone /\ CreateAlone /\ PatchAlone /\ DetailAlone /\ Life /\ PointerLife
    /\ HeaderLife /\ TimerLife /\ ModalLife

WizardInv == KindsInv /\ (~unsure => Sure)

\* What a step leaves of the page, but its messages, lists and creation timer.
SamePage ==
    /\ (wiz'.open <=> wiz.open) /\ (wiz'.patchTimer <=> wiz.patchTimer)
    /\ wiz'.m = wiz.m /\ wiz'.form = wiz.form /\ wiz'.synced = wiz.synced
    /\ wiz'.modal = wiz.modal /\ wiz'.resume = wiz.resume

SameHeaderRequests ==
    net'.create = net.create /\ net'.patches = net.patches /\ net'.details = net.details

\* No draft is new, none opens again, and no header changes.
SameHeaders ==
    \A x \in Known(server) :
        /\ server'[x].header = server[x].header
        /\ server'[x].status = "BORRADOR" => server[x].status = "BORRADOR"


-----------------------------------------------------------------------------

LEMMA NamesAre ==
    ASSUME KindsInv
    PROVE  /\ \A p \in net.patches : p.m \in Known(server) /\ p.m # 0
           /\ \A d \in net.details : d.m \in Known(server) /\ d.m # 0
           /\ \A r \in net.lost : r.kind # "create" => r.m \in Known(server)
           /\ pointer # None => pointer.m \in Known(server) /\ pointer.m # 0
           /\ wiz.m \in Known(server) \cup {0} /\ None.m = 0 /\ 0 \notin Known(server)
           /\ wiz.m # 0 => wiz.open
<1>1. None.m = 0 /\ 0 \notin Known(server)
  BY TypesAre, KnownIs DEF None
<1>2. \A p \in net.patches : p.m \in Known(server) /\ p.m # 0
  BY <1>1, KindsFacts, NetFields, EditIs
<1>3. \A d \in net.details : d.m \in Known(server) /\ d.m # 0
  BY <1>1, KindsFacts, NetFields, ReadingIs
<1>4. \A r \in net.lost : r.kind # "create" => r.m \in Known(server)
  BY KindsFacts, NetFields DEF Strays
<1>5. pointer # None => pointer.m \in Known(server) /\ pointer.m # 0
  BY <1>1, KindsFacts DEF Pointers
<1>6. wiz.m \in Known(server) \cup {0} /\ (wiz.m # 0 => wiz.open)
  BY KindsFacts, PageFields, BusyIsOpen
<1> QED
  BY <1>1, <1>2, <1>3, <1>4, <1>5, <1>6

\* What mounting the page asks for and gives up.
LEMMA MountRequests ==
    ASSUME KindsInv, NEW token \in BOOLEAN, NEW resume \in Known(server) \cup {0},
           NEW left \in {Abandoned(net), Unheard(Abandoned(net))},
           Mount(token, resume, left), ~unsure'
    PROVE  /\ net'.create = None /\ net'.patches = {} /\ ~Unanswered(net')
           /\ net'.cancel = None /\ net'.discard = None /\ net'.submit = None
           /\ resume = 0 => net'.details = {}
           /\ resume # 0 => net'.details = {[m |-> resume, kind |-> "resume", header |-> NoHeader]}
<1>1. PICK n : n = Fetching(left)
  OBVIOUS
<1>2. ~HeaderInFlight /\ ~Unanswered(n)
  BY <1>1 DEF Mount
<1>3. net.patches = {}
  BY <1>2 DEF HeaderInFlight
<1>4. left \in Nets(Known(server)) /\ NobodyWaits(left) /\ left.patches = {}
  BY <1>3, KindsFacts, LeftIs
<1>6. /\ n \in Nets(Known(server)) /\ n.create = None /\ n.patches = {} /\ n.details = {}
      /\ n.cancel = None /\ n.discard = None /\ n.submit = None
  BY <1>1, <1>4, FetchingIs DEF NobodyWaits
<1>7. CASE resume = 0
  <2>1. net' = n
    BY <1>1, <1>7 DEF Mount
  <2> QED
    BY <1>2, <1>6, <1>7, <2>1
<1>8. CASE resume # 0
  <2>1. net' = [n EXCEPT !.details = {[m |-> resume, kind |-> "resume", header |-> NoHeader]}]
    BY <1>1, <1>8 DEF Mount
  <2>2. /\ net'.create = None /\ net'.patches = {} /\ net'.lost = n.lost
        /\ net'.cancel = None /\ net'.discard = None /\ net'.submit = None
        /\ net'.details = {[m |-> resume, kind |-> "resume", header |-> NoHeader]}
    BY <1>6, <2>1 DEF Nets
  <2>3. ~Unanswered(net')
    BY <1>2, <2>2 DEF Unanswered
  <2> QED
    BY <1>8, <2>2, <2>3
<1> QED
  BY <1>7, <1>8

LEMMA MountPage ==
    ASSUME KindsInv, NEW token \in BOOLEAN, NEW resume \in Known(server) \cup {0},
           NEW left \in {Abandoned(net), Unheard(Abandoned(net))},
           Mount(token, resume, left), ~unsure', UNCHANGED server
    PROVE  /\ wiz'.modal = 0 /\ wiz'.open /\ wiz'.resume = resume
           /\ wiz'.m = 0 =>
                /\ wiz'.form = EmptyForm
                /\ pointer' # None => pointer' = pointer /\ resume # 0
           /\ wiz'.m # 0 =>
                /\ wiz'.synced = HeaderOf(wiz'.form) /\ resume = 0
                /\ server[wiz'.m].status = "BORRADOR" /\ server[wiz'.m].header = wiz'.synced
                /\ pointer'.m = wiz'.m
           /\ pointer' # None => server[pointer'.m].status = "BORRADOR"
<1>1. PICK w : w = Mounted(token, resume)
  OBVIOUS
<1>2. /\ w \in Pages(Known(server))
      /\ w.open /\ ~w.patchTimer /\ ~w.createTimer /\ w.modal = 0 /\ w.resume = resume
      /\ \/ /\ w.m = 0 /\ w.form = EmptyForm
            /\ token \/ resume # 0 \/ pointer = None
         \/ /\ ~token /\ resume = 0 /\ pointer # None
            /\ w.m = pointer.m /\ w.synced = HeaderOf(w.form)
  BY <1>1, MountedIs, KindsFacts
<1>3. Shows(wiz', w)
  <2>1. Closed \in Pages(Known(server))
    BY ClosedIs
  <2>2. wiz' = Rendered(Closed, w)
    BY <1>1 DEF Mount
  <2> QED
    BY <1>2, <2>1, <2>2, RenderedIs
<1>4. PICK before : before = IF token THEN None ELSE pointer
  OBVIOUS
<1>5. pointer' = Pointed(Closed, w, before) /\ Closed \in Pages(Known(server))
  BY <1>1, <1>4, ClosedIs DEF Mount
<1>6. before \in Pointers(Known(server))
  BY <1>4, KindsFacts DEF Pointers
<1>7. w.m # 0 => Current(w.m, w.synced)
  BY <1>1 DEF Mount
<1>8. pointer' # None => server[pointer'.m].status = "BORRADOR"
  BY DEF Mount
<1>9. pointer'.m = w.m \/ pointer' = before
  BY <1>2, <1>5, <1>6, PointedIs
<1>10. CASE w.m = 0
  <2>1. pointer' = before
    BY <1>2, <1>5, <1>6, <1>10, PointedIs
  <2>2. w.form = EmptyForm /\ (token \/ resume # 0 \/ pointer = None)
    BY <1>2, <1>10, NamesAre
  <2> QED
    BY <1>2, <1>3, <1>4, <1>8, <1>10, <2>1, <2>2 DEF Shows
<1>11. CASE w.m # 0
  <2>1. ~token /\ resume = 0 /\ w.m = pointer.m /\ w.synced = HeaderOf(w.form)
    BY <1>2, <1>11
  <2>2. pointer'.m = w.m
    BY <1>4, <1>9, <2>1
  <2> QED
    BY <1>2, <1>3, <1>7, <1>8, <1>11, <2>1, <2>2 DEF Shows, Current
<1> QED
  BY <1>10, <1>11

LEMMA MountSure ==
    ASSUME KindsInv, NEW token \in BOOLEAN, NEW resume \in Known(server) \cup {0},
           NEW left \in {Abandoned(net), Unheard(Abandoned(net))},
           Mount(token, resume, left), ~unsure', UNCHANGED server
    PROVE  Sure'
<1>1. /\ wiz'.modal = 0 /\ wiz'.open /\ wiz'.resume = resume
      /\ wiz'.m = 0 => wiz'.form = EmptyForm /\ (pointer' # None => pointer' = pointer /\ resume # 0)
      /\ wiz'.m # 0 =>
           /\ wiz'.synced = HeaderOf(wiz'.form) /\ resume = 0
           /\ server[wiz'.m].status = "BORRADOR" /\ server[wiz'.m].header = wiz'.synced
           /\ pointer'.m = wiz'.m
      /\ pointer' # None => server[pointer'.m].status = "BORRADOR"
  BY MountPage
<1>2. /\ net'.create = None /\ net'.patches = {} /\ ~Unanswered(net')
      /\ net'.cancel = None /\ net'.discard = None /\ net'.submit = None
      /\ resume = 0 => net'.details = {}
      /\ resume # 0 => net'.details = {[m |-> resume, kind |-> "resume", header |-> NoHeader]}
  BY MountRequests
<1>3. \A x : ~LostKill(x)'
  BY <1>2 DEF LostKill, Unanswered
<1>4. None.m = 0
  BY DEF None
<1>5. FormAlone'
  <2>1. EmptyForm.type # TwoClients
    BY EmptyFormIs, TypesAre
  <2> QED
    BY <1>1, <2>1 DEF FormAlone
<1>6. CreateAlone' /\ PatchAlone'
  BY <1>2 DEF CreateAlone, PatchAlone
<1>7. DetailAlone'
  BY <1>1, <1>2 DEF DetailAlone, NobodyEnds
<1>8. Life'
  BY <1>1, <1>2, <1>3, <1>4 DEF Life
<1>9. PointerLife'
  BY <1>1, <1>2, <1>3 DEF PointerLife, NobodyEnds
<1>10. HeaderLife' /\ TimerLife' /\ ModalLife'
  BY <1>1, <1>2 DEF HeaderLife, TimerLife, ModalLife
<1> QED
  BY <1>5, <1>6, <1>7, <1>8, <1>9, <1>10 DEF Sure

\* The wizard after a reset, nobody having been waited for.
LEMMA ResetSure ==
    ASSUME KindsInv, NEW w \in Pages(Known(server)), RenderReset(w), ~HeaderInFlight,
           net'.create = net.create, net'.patches = net.patches, net'.details = net.details
    PROVE  Sure'
<1>1. wiz'.m = 0 /\ wiz'.modal = 0 /\ wiz'.form = EmptyForm /\ pointer' = None
  BY RenderResetIs
<1>2. net'.create = None /\ net'.patches = {} /\ net'.details = {}
  BY DEF HeaderInFlight
<1>3. wiz'.form.type # TwoClients
  BY <1>1, EmptyFormIs, TypesAre
<1> QED
  BY <1>1, <1>2, <1>3 DEF Sure, FormAlone, CreateAlone, PatchAlone, DetailAlone, Life, PointerLife,
     HeaderLife, TimerLife, ModalLife

LEMMA MenuSure == ASSUME KindsInv, Menu, ~unsure' PROVE Sure'
<1>1. CASE ~wiz.open /\ Mount(TRUE, 0, Abandoned(net))
  BY <1>1, MountSure DEF Menu
<1>2. CASE /\ wiz.open /\ RenderReset([wiz EXCEPT !.token = TRUE, !.resume = 0])
           /\ unsure' = HeaderInFlight /\ UNCHANGED net
  <2>1. PICK w : w = [wiz EXCEPT !.token = TRUE, !.resume = 0]
    OBVIOUS
  <2>2. w \in Pages(Known(server)) /\ RenderReset(w)
    BY <1>2, <2>1, KindsFacts DEF Pages
  <2> QED
    BY <1>2, <2>2, ResetSure
<1> QED
  BY <1>1, <1>2 DEF Menu

LEMMA EnterSure ==
    ASSUME KindsInv, NEW m \in Movements \cup {0}, Enter(m), ~unsure'
    PROVE  Sure'
<1>1. m \in Known(server) \cup {0}
  BY DEF Enter, Known
<1> QED
  BY <1>1, MountSure DEF Enter

LEMMA ReloadSure == ASSUME KindsInv, ReloadPage, ~unsure' PROVE Sure'
<1>1. wiz.token \in BOOLEAN /\ wiz.resume \in Known(server) \cup {0}
  BY KindsFacts, PageFields
<1> QED
  BY <1>1, MountSure DEF ReloadPage

LEMMA LeaveSure == ASSUME KindsInv, ~unsure => Sure, Leave, ~unsure' PROVE Sure'
<1>1. Sure /\ net' = net
  BY KindsFacts DEF Leave
<1>2. NobodyWaits(net)
  BY <1>1, KindsFacts, AbandonedIs DEF Leave
<1>3. /\ wiz'.m = 0 /\ wiz'.modal = 0 /\ wiz'.form = EmptyForm /\ ~wiz'.open
      /\ pointer' = pointer /\ server' = server
  BY DEF Leave, Closed
<1>4. wiz'.form.type # TwoClients
  BY <1>3, EmptyFormIs, TypesAre
<1>5. PointerLife'
  <2>1. SUFFICES ASSUME pointer # None
                 PROVE  server[pointer.m].status = "BORRADOR" /\ ~LostKill(pointer.m)
    BY <1>1, <1>3 DEF PointerLife, LostKill
  <2>2. CASE wiz.m = 0
    BY <1>1, <2>1, <2>2 DEF Sure, PointerLife
  <2>3. CASE wiz.m # 0
    <3>1. pointer.m = wiz.m
      BY <1>1, <2>1, <2>3 DEF Sure, PointerLife
    <3>2. ~ResetPending(wiz.m)
      BY <1>2, NamesAre DEF ResetPending, NobodyWaits
    <3> QED
      BY <1>1, <2>3, <3>1, <3>2 DEF Sure, Life
  <2> QED
    BY <2>2, <2>3
<1> QED
  BY <1>1, <1>2, <1>3, <1>4, <1>5 DEF Sure, FormAlone, CreateAlone, PatchAlone, DetailAlone, Life,
     HeaderLife, TimerLife, ModalLife, NobodyWaits

LEMMA ResumeSure ==
    ASSUME KindsInv, NEW item \in wiz.list, Resume(item), ~unsure'
    PROVE  Sure'
<1>1. PICK h : h = item.header
  OBVIOUS
<1>2. PICK new : new = Resumed(item)
  OBVIOUS
<1>3. wiz.open /\ wiz.modal = 0 /\ Render(new, pointer)
  BY <1>2, ResumeRenders
<1>4. /\ item.m \in Known(server) /\ h \in GoodHeaders
      /\ new \in Pages(Known(server)) /\ new.open
      /\ new.m = item.m /\ new.form = ResumedForm(h) /\ new.synced = ResumedSynced(h)
      /\ new.modal = 0 /\ ~new.error
      /\ new.patchTimer = wiz.patchTimer /\ new.createTimer = wiz.createTimer
  BY <1>1, <1>2, <1>3, ResumedIs
<1>5. Shows(wiz', new)
  BY <1>3, <1>4, KindsFacts, RenderIs
<1>6. /\ net.create = None /\ net.patches = {} /\ net.details = {} /\ ~Unanswered(net)
      /\ server[item.m].status = "BORRADOR" /\ server[item.m].header = h
      /\ net.discard.m # item.m /\ server' = server
  BY <1>1 DEF Resume, HeaderInFlight, Current
<1>7. h.type \in Types /\ h \in Headers /\ (h.type # TwoClients => h.cost = "")
  BY <1>4, GoodHeaderIs DEF RegularHeaders
<1>8. PICK d : d = [m |-> item.m, kind |-> "list", header |-> NoHeader]
  OBVIOUS
<1>9. /\ net'.create = None /\ net'.patches = {} /\ net'.lost = net.lost
      /\ net'.discard = net.discard
      /\ h.type # TwoClients => net'.details = {}
      /\ h.type = TwoClients => net'.details = {d}
  <2>1. CASE h.type # TwoClients
    <3>1. net' = net
      BY <1>1, <2>1 DEF Resume
    <3> QED
      BY <1>6, <2>1, <3>1
  <2>2. CASE h.type = TwoClients
    <3>1. net' = [net EXCEPT !.details = @ \cup {d}]
      BY <1>1, <1>8, <2>2 DEF Resume
    <3> QED
      BY <1>6, <2>2, <3>1, KindsFacts DEF Nets
  <2> QED
    BY <2>1, <2>2
<1>10. \A x : ~LostKill(x)'
  BY <1>6, <1>9 DEF LostKill, Unanswered
<1>11. wiz'.m = item.m /\ item.m # 0 /\ wiz'.modal = 0 /\ wiz'.form = ResumedForm(h)
       /\ wiz'.synced = ResumedSynced(h)
  BY <1>4, <1>5, NamesAre DEF Shows
<1>12. ResumedForm(h).type = h.type /\ ResumedForm(h).client = h.client
  BY DEF ResumedForm, EmptyForm
<1>13. h.type # TwoClients => ResumedSynced(h) = h /\ HeaderOf(ResumedForm(h)) = h
  <2>1. SUFFICES ASSUME h.type # TwoClients
                 PROVE  ResumedSynced(h) = h /\ HeaderOf(ResumedForm(h)) = h
    OBVIOUS
  <2>2. ResumedSynced(h) = h
    BY <1>7, <2>1 DEF ResumedSynced, Headers
  <2>3. HeaderOf(ResumedForm(h)) = [type |-> h.type, client |-> h.client, cost |-> ""]
    BY <1>12, <2>1 DEF HeaderOf
  <2>4. h = [type |-> h.type, client |-> h.client, cost |-> ""]
    BY <1>7, <2>1 DEF Headers
  <2> QED
    BY <2>2, <2>3, <2>4
<1>14. FormAlone' /\ CreateAlone' /\ PatchAlone' /\ ModalLife'
  BY <1>9, <1>11 DEF FormAlone, CreateAlone, PatchAlone, ModalLife
<1>15. DetailAlone'
  BY <1>6, <1>8, <1>9, <1>11, <1>12 DEF DetailAlone
<1>16. Life'
  BY <1>6, <1>9, <1>10, <1>11 DEF Life
<1>17. PointerLife'
  <2>1. Follows(wiz', pointer')
    BY <1>3, <1>4, KindsFacts, RenderIs
  <2>2. wiz'.form.type # ""
    BY <1>7, <1>11, <1>12, TypesAre
  <2> QED
    BY <1>11, <2>1, <2>2 DEF PointerLife, Follows
<1>18. HeaderLife' /\ TimerLife'
  BY <1>6, <1>8, <1>9, <1>11, <1>13 DEF HeaderLife, TimerLife, HeaderInFlight
<1> QED
  BY <1>14, <1>15, <1>16, <1>17, <1>18 DEF Sure

\* A step that leaves page, header requests and headers keeps what compares them.
LEMMA SamePageSure ==
    ASSUME KindsInv, Sure, SamePage, SameHeaderRequests, SameHeaders, wiz.error => wiz'.error
    PROVE  FormAlone' /\ PatchAlone' /\ HeaderLife' /\ TimerLife' /\ ModalLife'
<1>1. FormAlone' /\ PatchAlone' /\ ModalLife'
  BY DEF Sure, SamePage, SameHeaderRequests, FormAlone, PatchAlone, ModalLife
<1>2. wiz.m # 0 => /\ server'[wiz.m].header = server[wiz.m].header
                   /\ server'[wiz.m].status = "BORRADOR" => server[wiz.m].status = "BORRADOR"
  BY NamesAre DEF SameHeaders
<1>3. HeaderLife'
  BY <1>2 DEF Sure, SamePage, SameHeaderRequests, HeaderLife
<1>4. TimerLife'
  BY <1>2 DEF Sure, SamePage, SameHeaderRequests, TimerLife, HeaderInFlight
<1> QED
  BY <1>1, <1>3, <1>4

\* The server does nothing: what it has of each draft is the same.
LEMMA NothingNew == ASSUME server' = server PROVE SameHeaders
BY DEF SameHeaders

LEMMA AnswerFetchSure == ASSUME KindsInv, Sure, AnswerFetch PROVE Sure'
<1>1. /\ SamePage /\ SameHeaderRequests /\ wiz'.error = wiz.error /\ net'.lost = net.lost
      /\ net'.cancel = net.cancel /\ net'.discard = net.discard /\ net'.submit = net.submit
      /\ server' = server /\ pointer' = pointer
  BY AnswerFetchIs DEF SamePage, SameHeaderRequests, AnswerFetch
<1>2. FormAlone' /\ PatchAlone' /\ HeaderLife' /\ TimerLife' /\ ModalLife'
  BY <1>1, SamePageSure, NothingNew
<1>3. CreateAlone'
  BY <1>1 DEF Sure, CreateAlone, SamePage, SameHeaderRequests, LostKill
<1>4. DetailAlone'
  BY <1>1 DEF Sure, DetailAlone, SamePage, SameHeaderRequests, NobodyEnds, Unanswered
<1>5. Life'
  BY <1>1 DEF Sure, Life, SamePage, ResetPending, LostKill
<1>6. PointerLife'
  BY <1>1 DEF Sure, PointerLife, SamePage, SameHeaderRequests, NobodyEnds, Unanswered, LostKill
<1> QED
  BY <1>2, <1>3, <1>4, <1>5, <1>6 DEF Sure

LEMMA SaveDraftSure == ASSUME KindsInv, Sure, SaveDraft PROVE Sure'
<1>1. /\ wiz' = wiz /\ net' = net /\ pointer' = pointer
      /\ \A x \in Movements :
            server'[x].status = server[x].status /\ server'[x].header = server[x].header
  BY SaveDraftIs DEF SaveDraft
<1>2. \A x \in Known(server) :
        server'[x].status = server[x].status /\ server'[x].header = server[x].header
  BY <1>1, KnownIs
<1>3. FormAlone' /\ PatchAlone' /\ HeaderLife' /\ TimerLife' /\ ModalLife'
  BY <1>1, <1>2, SamePageSure DEF SamePage, SameHeaderRequests, SameHeaders
<1>4. CreateAlone'
  <2>1. net.create # None => net.create.m \in Known(server) \cup {0}
    BY CreationIs
  <2> QED
    BY <1>1, <1>2, <2>1 DEF Sure, CreateAlone, LostKill
<1>5. DetailAlone'
  BY <1>1, <1>2, NamesAre DEF Sure, DetailAlone, NobodyEnds, Unanswered
<1>6. Life'
  BY <1>1, <1>2, NamesAre DEF Sure, Life, ResetPending, LostKill
<1>7. PointerLife'
  BY <1>1, <1>2, NamesAre DEF Sure, PointerLife, NobodyEnds, Unanswered, LostKill
<1> QED
  BY <1>3, <1>4, <1>5, <1>6, <1>7 DEF Sure

LEMMA DiscardListedSure ==
    ASSUME KindsInv, ~unsure => Sure, NEW item \in wiz.list, DiscardListed(item), ~unsure'
    PROVE  Sure'
<1>1. Sure /\ ~wiz.error /\ net.create = None /\ net.patches = {} /\ net.details = {}
      /\ net.discard = None
  <2>1. unsure' = (unsure \/ HeaderInFlight \/ wiz.error) /\ net.discard = None
    BY DEF DiscardListed
  <2>2. ~unsure /\ ~HeaderInFlight /\ ~wiz.error
    BY <2>1, Zenon
  <2> QED
    BY <2>1, <2>2 DEF HeaderInFlight
<1>2. /\ SamePage /\ SameHeaderRequests /\ net'.lost = net.lost
      /\ net'.cancel = net.cancel /\ net'.submit = net.submit
      /\ net'.discard.was = wiz.m /\ net'.discard.answer = "none"
      /\ server' = server /\ pointer' = pointer /\ wiz.open
  <2>1. server' = server /\ pointer' = pointer
    BY DEF DiscardListed
  <2>2. /\ (wiz'.open <=> wiz.open) /\ wiz'.m = wiz.m /\ wiz'.form = wiz.form
        /\ wiz'.synced = wiz.synced /\ wiz'.modal = wiz.modal /\ wiz'.resume = wiz.resume
        /\ (wiz'.patchTimer <=> wiz.patchTimer)
    BY DiscardListedIs
  <2>3. /\ SameHeaderRequests /\ net'.lost = net.lost
        /\ net'.cancel = net.cancel /\ net'.submit = net.submit
        /\ net'.discard.was = wiz.m /\ net'.discard.answer = "none" /\ wiz.open
    BY DiscardListedIs DEF SameHeaderRequests
  <2> QED
    BY <2>1, <2>2, <2>3 DEF SamePage
<1>3. FormAlone' /\ PatchAlone' /\ HeaderLife' /\ TimerLife' /\ ModalLife'
  BY <1>1, <1>2, SamePageSure, NothingNew
<1>4. CreateAlone' /\ DetailAlone'
  BY <1>1, <1>2 DEF CreateAlone, DetailAlone, SameHeaderRequests
<1>5. Life'
  BY <1>1, <1>2, NamesAre DEF Sure, Life, SamePage, ResetPending, LostKill
<1>6. PointerLife'
  BY <1>1, <1>2 DEF Sure, PointerLife, SamePage
<1> QED
  BY <1>3, <1>4, <1>5, <1>6 DEF Sure

LEMMA CancelDraftSure == ASSUME KindsInv, ~unsure => Sure, CancelDraft, ~unsure' PROVE Sure'
<1>1. /\ Sure /\ net.create = None /\ net.patches = {} /\ net.details = {} /\ wiz.m # 0
      /\ wiz' = wiz /\ server' = server /\ pointer' = pointer /\ net.cancel = None
  BY KindsFacts DEF CancelDraft, Acting, HeaderInFlight
<1>2. PICK c : c = [m |-> wiz.m, answer |-> "none"]
  OBVIOUS
<1>3. c \in {None} \cup Cancels(Known(server)) /\ net' = [net EXCEPT !.cancel = c]
  BY <1>1, <1>2, NamesAre DEF Cancels, Answers, CancelDraft
<1>4. /\ SamePage /\ SameHeaderRequests /\ net'.lost = net.lost /\ net'.cancel = c
      /\ net'.discard = net.discard /\ net'.submit = net.submit
  BY <1>1, <1>3, NewCancel DEF SamePage, SameHeaderRequests
<1>5. FormAlone' /\ PatchAlone' /\ HeaderLife' /\ TimerLife' /\ ModalLife'
  BY <1>1, <1>4, SamePageSure, NothingNew
<1>6. CreateAlone' /\ DetailAlone'
  BY <1>1, <1>4 DEF CreateAlone, DetailAlone, SameHeaderRequests
<1>7. Life'
  BY <1>1, <1>2, <1>4, NamesAre DEF Sure, Life, ResetPending, LostKill
<1>8. PointerLife'
  BY <1>1 DEF Sure, PointerLife
<1> QED
  BY <1>5, <1>6, <1>7, <1>8 DEF Sure

LEMMA SubmitSure == ASSUME KindsInv, ~unsure => Sure, Submit, ~unsure' PROVE Sure'
<1>1. /\ Sure /\ net.create = None /\ net.patches = {} /\ net.details = {} /\ wiz.m # 0
      /\ wiz' = wiz /\ server' = server /\ pointer' = pointer /\ net.submit = None
  BY KindsFacts DEF Submit, Acting, HeaderInFlight
<1>2. PICK s : s = [m |-> wiz.m, type |-> wiz.form.type, answer |-> "none"]
  OBVIOUS
<1>3. s \in {None} \cup Submits(Known(server)) /\ net' = [net EXCEPT !.submit = s]
  <2>1. wiz.form.type \in Types
    BY KindsFacts, PageFields, FormFields DEF Submit
  <2> QED
    BY <1>1, <1>2, <2>1, NamesAre DEF Submits, Answers, Submit
<1>4. /\ SamePage /\ SameHeaderRequests /\ net'.lost = net.lost /\ net'.submit = s
      /\ net'.discard = net.discard /\ net'.cancel = net.cancel
  BY <1>1, <1>3, NewSubmit DEF SamePage, SameHeaderRequests
<1>5. FormAlone' /\ PatchAlone' /\ HeaderLife' /\ TimerLife' /\ ModalLife'
  BY <1>1, <1>4, SamePageSure, NothingNew
<1>6. CreateAlone' /\ DetailAlone'
  BY <1>1, <1>4 DEF CreateAlone, DetailAlone, SameHeaderRequests
<1>7. Life'
  BY <1>1, <1>2, <1>4, NamesAre DEF Sure, Life, ResetPending, LostKill
<1>8. PointerLife'
  BY <1>1 DEF Sure, PointerLife
<1> QED
  BY <1>5, <1>6, <1>7, <1>8 DEF Sure

\* A draft ended by a request of this page; unless it is another one, the answer
\* resets the wizard that holds it.
LEMMA EndedIsSure ==
    ASSUME KindsInv, Sure, wiz' = wiz, pointer' = pointer, wiz.open, SameHeaderRequests,
           net'.lost = net.lost, ~NobodyEnds,
           NEW m \in Movements, NEW status \in {"CONFIRMADA", "deleted"},
           Ends(server, server', m, status) \/ server' = server,
           m \in {net.discard.m, net.cancel.m, net.submit.m},
           net'.discard.m = net.discard.m, net'.cancel.m = net.cancel.m,
           net'.submit.m = net.submit.m,
           Life'
    PROVE  Sure'
<1>1. /\ \A x \in Known(server) : server'[x].header = server[x].header
      /\ \A x \in Known(server) : x # m => server'[x] = server[x]
      /\ server'[m].status = "BORRADOR" => server[m].status = "BORRADOR"
  BY KnownIs DEF Ends
<1>2. SameHeaders
  BY <1>1 DEF SameHeaders
<1>3. FormAlone' /\ PatchAlone' /\ HeaderLife' /\ TimerLife' /\ ModalLife'
  BY <1>2, SamePageSure DEF SamePage
<1>4. CreateAlone'
  <2>1. SUFFICES ASSUME net.create # None
                 PROVE  CreateAlone'
    BY DEF CreateAlone, SameHeaderRequests
  <2>2. net.create.m \in Known(server) \cup {0}
    BY <2>1, CreationIs
  <2>3. net.create.served /\ ~net.create.refused =>
          /\ net.create.m # 0 /\ net.create.m # m
          /\ server[net.create.m].status = "BORRADOR"
          /\ server[net.create.m].header = net.create.header
          /\ ~LostKill(net.create.m) /\ net.discard.m # net.create.m
          /\ net.cancel.m # net.create.m /\ net.submit.m # net.create.m
    BY <2>1 DEF Sure, CreateAlone
  <2>4. net.create.served /\ ~net.create.refused => server'[net.create.m] = server[net.create.m]
    BY <1>1, <2>2, <2>3
  <2>5. net'.create = net.create /\ net'.patches = net.patches /\ net'.details = net.details
    BY DEF SameHeaderRequests
  <2>6. \A x : LostKill(x)' => LostKill(x)
    BY DEF LostKill
  <2>7. /\ wiz.m = 0 /\ wiz.modal = 0 /\ net.patches = {} /\ net.details = {}
        /\ net.create.header.type = TwoClients => net.create.header.client = ""
    BY <2>1 DEF Sure, CreateAlone
  <2> QED
    BY <2>3, <2>4, <2>5, <2>6, <2>7 DEF CreateAlone
<1>5. DetailAlone'
  <2>1. \A d \in net.details : d.kind # "resume"
    BY DEF Sure, DetailAlone
  <2>2. \A d \in net.details : server'[d.m].header = server[d.m].header
    BY <1>1, NamesAre
  <2>3. net'.details = net.details
    BY DEF SameHeaderRequests
  <2> QED
    BY <2>1, <2>2, <2>3 DEF Sure, DetailAlone
<1>6. PointerLife'
  <2>1. pointer # None => wiz.m # 0 /\ pointer.m = wiz.m
    BY DEF Sure, PointerLife
  <2> QED
    BY <2>1 DEF PointerLife
<1> QED
  BY <1>3, <1>4, <1>5, <1>6 DEF Sure

LEMMA ServeDiscardSure ==
    ASSUME KindsInv, ~unsure => Sure, ServeDiscard, ~unsure'
    PROVE  Sure'
<1>1. PICK m : m = net.discard.m
  OBVIOUS
<1>2. /\ Ends(server, server', m, "deleted") \/ server' = server
      /\ m \in Movements /\ net.discard.answer = "none" /\ wiz.open
      /\ net'.discard.m = m /\ net'.discard.was = net.discard.was
      /\ net'.discard.answer \in {"ok", "error"}
      /\ server' = server \/ net'.discard.answer = "ok"
      /\ net'.cancel = net.cancel /\ net'.submit = net.submit /\ SameHeaderRequests
      /\ net'.lost = net.lost
  BY <1>1, ServeDiscardIs DEF SameHeaderRequests
<1>3. Sure /\ wiz' = wiz /\ pointer' = pointer /\ ~NobodyEnds
  BY ServeDiscardIs DEF ServeDiscard, NobodyEnds
<1>4. m # 0 /\ \A x \in Movements : x # m => server'[x] = server[x]
  BY <1>2, TypesAre DEF Ends
<1>5. Life'
  <2>1. SUFFICES ASSUME wiz.m # 0
                 PROVE  /\ ~LostKill(wiz.m)'
                        /\ server'[wiz.m].status = "BORRADOR" \/ ResetPending(wiz.m)'
    BY <1>2, <1>3 DEF Life
  <2>2. ~LostKill(wiz.m)'
    BY <1>2, <1>3, <2>1 DEF Sure, Life, LostKill
  <2>3. /\ server[wiz.m].status = "BORRADOR" \/ ResetPending(wiz.m)
        /\ wiz.m \in Movements
        /\ m = wiz.m => net.discard.was = wiz.m
    BY <1>1, <1>2, <1>3, <2>1, NamesAre, KnownIs DEF Sure, Life
  <2>4. CASE server[wiz.m].status = "BORRADOR" /\ server'[wiz.m].status = "BORRADOR"
    BY <2>2, <2>4
  <2>5. CASE server[wiz.m].status = "BORRADOR" /\ server'[wiz.m].status # "BORRADOR"
    <3>1. m = wiz.m /\ net'.discard.answer = "ok"
      BY <1>2, <1>4, <2>3, <2>5
    <3> QED
      BY <1>2, <1>3, <1>4, <2>2, <2>3, <3>1 DEF ResetPending
  <2>6. CASE ResetPending(wiz.m)
    BY <1>2, <2>2, <2>6 DEF ResetPending
  <2> QED
    BY <2>3, <2>4, <2>5, <2>6
<1> QED
  BY <1>1, <1>2, <1>3, <1>5, EndedIsSure

LEMMA ServeCancelSure ==
    ASSUME KindsInv, ~unsure => Sure, ServeCancel, ~unsure'
    PROVE  Sure'
<1>1. PICK m : m = net.cancel.m
  OBVIOUS
<1>2. /\ Ends(server, server', m, "deleted") \/ server' = server
      /\ m \in Movements /\ net.cancel.answer = "none" /\ wiz.open
      /\ net'.cancel.m = m
      /\ net'.cancel.answer \in {"ok", "error"}
      /\ server' = server \/ net'.cancel.answer = "ok"
      /\ net'.discard = net.discard /\ net'.submit = net.submit /\ SameHeaderRequests
      /\ net'.lost = net.lost
  BY <1>1, ServeCancelIs DEF SameHeaderRequests
<1>3. Sure /\ wiz' = wiz /\ pointer' = pointer /\ ~NobodyEnds
  BY ServeCancelIs DEF ServeCancel, NobodyEnds
<1>4. m # 0 /\ \A x \in Movements : x # m => server'[x] = server[x]
  BY <1>2, TypesAre DEF Ends
<1>5. Life'
  <2>1. SUFFICES ASSUME wiz.m # 0
                 PROVE  /\ ~LostKill(wiz.m)'
                        /\ server'[wiz.m].status = "BORRADOR" \/ ResetPending(wiz.m)'
    BY <1>2, <1>3 DEF Sure, Life
  <2>2. ~LostKill(wiz.m)'
    BY <1>2, <1>3, <2>1 DEF Sure, Life, LostKill
  <2>3. /\ server[wiz.m].status = "BORRADOR" \/ ResetPending(wiz.m)
        /\ wiz.m \in Movements
    BY <1>1, <1>2, <1>3, <2>1, NamesAre, KnownIs DEF Sure, Life
  <2>4. CASE server[wiz.m].status = "BORRADOR" /\ server'[wiz.m].status = "BORRADOR"
    BY <2>2, <2>4
  <2>5. CASE server[wiz.m].status = "BORRADOR" /\ server'[wiz.m].status # "BORRADOR"
    <3>1. m = wiz.m /\ net'.cancel.answer = "ok"
      BY <1>2, <1>4, <2>3, <2>5
    <3> QED
      BY <1>2, <1>3, <1>4, <2>2, <2>3, <3>1 DEF ResetPending
  <2>6. CASE ResetPending(wiz.m)
    BY <1>2, <2>2, <2>6 DEF ResetPending
  <2> QED
    BY <2>3, <2>4, <2>5, <2>6
<1> QED
  BY <1>1, <1>2, <1>3, <1>5, EndedIsSure

LEMMA ServeSubmitSure ==
    ASSUME KindsInv, ~unsure => Sure, ServeSubmit, ~unsure'
    PROVE  Sure'
<1>1. PICK m : m = net.submit.m
  OBVIOUS
<1>2. /\ Ends(server, server', m, "CONFIRMADA") \/ server' = server
      /\ m \in Movements /\ net.submit.answer = "none" /\ wiz.open
      /\ net'.submit.m = m
      /\ net'.submit.answer \in {"ok", "error"}
      /\ server' = server \/ net'.submit.answer = "ok"
      /\ net'.discard = net.discard /\ net'.cancel = net.cancel /\ SameHeaderRequests
      /\ net'.lost = net.lost
  BY <1>1, ServeSubmitIs DEF SameHeaderRequests
<1>3. Sure /\ wiz' = wiz /\ pointer' = pointer /\ ~NobodyEnds
  BY ServeSubmitIs DEF ServeSubmit, NobodyEnds
<1>4. m # 0 /\ \A x \in Movements : x # m => server'[x] = server[x]
  BY <1>2, TypesAre DEF Ends
<1>5. Life'
  <2>1. SUFFICES ASSUME wiz.m # 0
                 PROVE  /\ ~LostKill(wiz.m)'
                        /\ server'[wiz.m].status = "BORRADOR" \/ ResetPending(wiz.m)'
    BY <1>2, <1>3 DEF Sure, Life
  <2>2. ~LostKill(wiz.m)'
    BY <1>2, <1>3, <2>1 DEF Sure, Life, LostKill
  <2>3. /\ server[wiz.m].status = "BORRADOR" \/ ResetPending(wiz.m)
        /\ wiz.m \in Movements
    BY <1>1, <1>2, <1>3, <2>1, NamesAre, KnownIs DEF Sure, Life
  <2>4. CASE server[wiz.m].status = "BORRADOR" /\ server'[wiz.m].status = "BORRADOR"
    BY <2>2, <2>4
  <2>5. CASE server[wiz.m].status = "BORRADOR" /\ server'[wiz.m].status # "BORRADOR"
    <3>1. m = wiz.m /\ net'.submit.answer = "ok"
      BY <1>2, <1>4, <2>3, <2>5
    <3> QED
      BY <1>2, <1>3, <1>4, <2>2, <2>3, <3>1 DEF ResetPending
  <2>6. CASE ResetPending(wiz.m)
    BY <1>2, <2>2, <2>6 DEF ResetPending
  <2> QED
    BY <2>3, <2>4, <2>5, <2>6
<1> QED
  BY <1>1, <1>2, <1>3, <1>5, EndedIsSure

\* Requests nobody waits for touch no draft that the page is about.
LEMMA ServeLostSure ==
    ASSUME KindsInv, Sure, NEW r \in net.lost, ServeLost(r)
    PROVE  Sure'
<1>1. /\ wiz' = wiz /\ pointer' = pointer /\ SameHeaderRequests
      /\ \A q \in net'.lost : q \in net.lost \/ (q.kind # "create" /\ q.m = r.m /\ r.kind # "create")
      /\ net'.discard = net.discard /\ net'.cancel = net.cancel /\ net'.submit = net.submit
  BY ServeLostIs DEF SameHeaderRequests, ServeLost
<1>2. /\ \A x \in Known(server) : server'[x].header = server[x].header
      /\ \A x \in Known(server) :
            server'[x].status = server[x].status \/ (r.kind # "create" /\ x = r.m)
      /\ \A x \in Known(server) : server'[x].status = "BORRADOR" => server[x].status = "BORRADOR"
  <2>1. CASE \E m \in Movements, h \in GoodHeaders :
               server[m].status = "none" /\ server' = [server EXCEPT ![m] = NewDraft(h)]
    <3>1. PICK m \in Movements, h \in GoodHeaders :
               server[m].status = "none" /\ server' = [server EXCEPT ![m] = NewDraft(h)]
      BY <2>1
    <3>2. \A x \in Known(server) : server'[x] = server[x]
      BY <3>1, KindsFacts, KnownIs
    <3> QED
      BY <3>2
  <2>2. ASSUME NEW status \in {"deleted", "CONFIRMADA"}, r.m \in Movements, r.kind # "create",
               Ends(server, server', r.m, status)
        PROVE  /\ \A x \in Known(server) : server'[x].header = server[x].header
               /\ \A x \in Known(server) :
                     server'[x].status = server[x].status \/ (r.kind # "create" /\ x = r.m)
               /\ \A x \in Known(server) :
                     server'[x].status = "BORRADOR" => server[x].status = "BORRADOR"
    BY <2>2, KnownIs DEF Ends
  <2>3. CASE server' = server
    BY <2>3
  <2> QED
    BY <2>1, <2>2, <2>3, ServeLostIs
<1>3. \A x : LostKill(x)' => LostKill(x)
  BY <1>1 DEF LostKill
<1>4. Unanswered(net') => Unanswered(net)
  BY <1>1 DEF Unanswered
<1>5. \A x \in Known(server) : ~LostKill(x) => server'[x].status = server[x].status
  BY <1>2 DEF LostKill
<1>6. FormAlone' /\ PatchAlone' /\ HeaderLife' /\ TimerLife' /\ ModalLife'
  BY <1>1, <1>2, SamePageSure DEF SamePage, SameHeaders
<1>7. CreateAlone'
  <2>1. SUFFICES ASSUME net.create # None
                 PROVE  CreateAlone'
    BY <1>1 DEF CreateAlone, SameHeaderRequests
  <2>2. net.create.m \in Known(server) \cup {0}
    BY <2>1, CreationIs
  <2>3. net.create.served /\ ~net.create.refused =>
          /\ net.create.m # 0
          /\ server[net.create.m].status = "BORRADOR"
          /\ server[net.create.m].header = net.create.header
          /\ ~LostKill(net.create.m) /\ net.discard.m # net.create.m
          /\ net.cancel.m # net.create.m /\ net.submit.m # net.create.m
    BY <2>1 DEF Sure, CreateAlone
  <2>4. net.create.served /\ ~net.create.refused =>
          /\ server'[net.create.m].status = server[net.create.m].status
          /\ server'[net.create.m].header = server[net.create.m].header
    BY <1>2, <1>5, <2>2, <2>3
  <2>5. net'.create = net.create /\ net'.patches = net.patches /\ net'.details = net.details
    BY <1>1 DEF SameHeaderRequests
  <2>6. /\ wiz.m = 0 /\ wiz.modal = 0 /\ net.patches = {} /\ net.details = {}
        /\ net.create.header.type = TwoClients => net.create.header.client = ""
    BY <2>1 DEF Sure, CreateAlone
  <2> QED
    BY <1>1, <1>3, <2>3, <2>4, <2>5, <2>6 DEF CreateAlone
<1>8. DetailAlone'
  <2>1. \A d \in net.details : server'[d.m].header = server[d.m].header
    BY <1>2, NamesAre
  <2>2. net'.details = net.details
    BY <1>1 DEF SameHeaderRequests
  <2> QED
    BY <1>1, <1>4, <2>1, <2>2 DEF Sure, DetailAlone, NobodyEnds
<1>9. Life'
  <2>1. SUFFICES ASSUME wiz.m # 0
                 PROVE  Life'
    BY <1>1 DEF Life
  <2>2. server'[wiz.m].status = server[wiz.m].status
    BY <1>5, <2>1, NamesAre DEF Sure, Life
  <2> QED
    BY <1>1, <1>3, <2>1, <2>2 DEF Sure, Life, ResetPending
<1>10. PointerLife'
  <2>1. SUFFICES ASSUME pointer # None
                 PROVE  PointerLife'
    BY <1>1 DEF PointerLife
  <2>2. ~LostKill(pointer.m) => server'[pointer.m].status = server[pointer.m].status
    BY <1>5, <2>1, NamesAre
  <2>3. net'.create = net.create /\ net'.details = net.details
    BY <1>1 DEF SameHeaderRequests
  <2> QED
    BY <1>1, <1>3, <1>4, <2>1, <2>2, <2>3 DEF Sure, PointerLife, NobodyEnds
<1> QED
  BY <1>6, <1>7, <1>8, <1>9, <1>10 DEF Sure

\* An answer that resets nothing: only what it was about is over.
LEMMA OverIsSure ==
    ASSUME KindsInv, Sure, server' = server, pointer' = pointer, SamePage, SameHeaderRequests,
           wiz.error => wiz'.error, net'.lost = net.lost,
           net'.cancel \in {None, net.cancel}, net'.discard \in {None, net.discard},
           net'.submit \in {None, net.submit},
           ResetPending(wiz.m) => ResetPending(wiz.m)'
    PROVE  Sure'
<1>1. FormAlone' /\ PatchAlone' /\ HeaderLife' /\ TimerLife' /\ ModalLife'
  BY SamePageSure, NothingNew
<1>2. \A x : LostKill(x)' <=> LostKill(x)
  BY DEF LostKill
<1>3. Unanswered(net') <=> Unanswered(net)
  BY DEF Unanswered
<1>4. None.m = 0
  BY DEF None
<1>5. NobodyEnds => NobodyEnds'
  BY DEF NobodyEnds
<1>6. net'.create = net.create /\ net'.details = net.details /\ net'.patches = net.patches
  BY DEF SameHeaderRequests
<1>7. CreateAlone'
  <2>1. /\ net'.cancel.m \in {0, net.cancel.m} /\ net'.discard.m \in {0, net.discard.m}
        /\ net'.submit.m \in {0, net.submit.m}
    BY <1>4
  <2> QED
    BY <1>2, <1>6, <2>1 DEF Sure, CreateAlone, SamePage
<1>8. DetailAlone'
  BY <1>3, <1>5, <1>6 DEF Sure, DetailAlone, SamePage
<1>9. Life'
  BY <1>2, <1>4 DEF Sure, Life, SamePage
<1>10. PointerLife'
  BY <1>2, <1>3, <1>5, <1>6 DEF Sure, PointerLife, SamePage
<1> QED
  BY <1>1, <1>7, <1>8, <1>9, <1>10 DEF Sure

LEMMA AnswerDiscardSure == ASSUME KindsInv, ~unsure => Sure, AnswerDiscard, ~unsure' PROVE Sure'
<1>1. PICK d : d = net.discard
  OBVIOUS
<1>2. /\ net'.discard = None
      /\ SameHeaderRequests /\ net'.lost = net.lost
      /\ net'.cancel = net.cancel /\ net'.submit = net.submit /\ server' = server
  BY AnswerDiscardIs DEF SameHeaderRequests, AnswerDiscard
<1>3. CASE RenderReset(wiz) /\ unsure' = HeaderInFlight
  <2>1. wiz \in Pages(Known(server)) /\ ~HeaderInFlight
    BY <1>3, KindsFacts
  <2> QED
    BY <1>2, <1>3, <2>1, ResetSure DEF SameHeaderRequests
<1>4. CASE d.answer = "ok" /\ ~HoldsDiscarded(d) /\ UNCHANGED <<wiz, pointer, unsure>>
  <2>1. d.was # d.m
    BY <1>4 DEF HoldsDiscarded
  <2>2. ResetPending(wiz.m) => ResetPending(wiz.m)'
    BY <1>1, <1>2, <2>1 DEF ResetPending
  <2> QED
    BY <1>2, <1>4, <2>2, OverIsSure DEF SamePage
<1>5. CASE /\ d.answer = "error" /\ wiz' = [wiz EXCEPT !.list = d.list, !.error = TRUE]
           /\ UNCHANGED <<pointer, unsure>>
  <2>1. ResetPending(wiz.m) => ResetPending(wiz.m)'
    BY <1>1, <1>2, <1>5 DEF ResetPending
  <2>2. SamePage /\ wiz'.error
    BY <1>5, KindsFacts DEF SamePage, Pages
  <2> QED
    BY <1>2, <1>5, <2>1, <2>2, OverIsSure
<1> QED
  BY <1>1, <1>3, <1>4, <1>5 DEF AnswerDiscard

LEMMA AnswerCancelSure == ASSUME KindsInv, ~unsure => Sure, AnswerCancel, ~unsure' PROVE Sure'
<1>1. PICK c : c = net.cancel
  OBVIOUS
<1>2. /\ net'.cancel = None
      /\ SameHeaderRequests /\ net'.lost = net.lost
      /\ net'.discard = net.discard /\ net'.submit = net.submit /\ server' = server
  BY AnswerCancelIs DEF SameHeaderRequests, AnswerCancel
<1>3. CASE RenderReset([wiz EXCEPT !.token = FALSE, !.resume = 0]) /\ unsure' = HeaderInFlight
  <2>1. PICK w : w = [wiz EXCEPT !.token = FALSE, !.resume = 0]
    OBVIOUS
  <2>2. w \in Pages(Known(server)) /\ RenderReset(w) /\ ~HeaderInFlight
    BY <1>3, <2>1, CancelledIs
  <2> QED
    BY <1>2, <2>2, ResetSure DEF SameHeaderRequests
<1>4. CASE /\ c.answer = "error" /\ wiz' = [wiz EXCEPT !.error = TRUE]
           /\ UNCHANGED <<pointer, unsure>>
  <2>1. ResetPending(wiz.m) => ResetPending(wiz.m)'
    BY <1>1, <1>2, <1>4 DEF ResetPending
  <2>2. SamePage /\ wiz'.error
    BY <1>4, KindsFacts DEF SamePage, Pages
  <2> QED
    BY <1>2, <1>4, <2>1, <2>2, OverIsSure
<1> QED
  BY <1>1, <1>3, <1>4 DEF AnswerCancel

LEMMA AnswerSubmitSure == ASSUME KindsInv, ~unsure => Sure, AnswerSubmit, ~unsure' PROVE Sure'
<1>1. PICK s : s = net.submit
  OBVIOUS
<1>2. CASE /\ wiz' = Closed /\ pointer' = Reset(wiz).pointer /\ net' = Abandoned(net)
           /\ UNCHANGED server
  <2>1. NobodyWaits(net')
    BY <1>2, KindsFacts, AbandonedIs
  <2>2. /\ wiz'.m = 0 /\ wiz'.modal = 0 /\ wiz'.form = EmptyForm /\ ~wiz'.open /\ pointer' = None
    BY <1>2 DEF Closed, Reset
  <2>3. wiz'.form.type # TwoClients
    BY <2>2, EmptyFormIs, TypesAre
  <2> QED
    BY <2>1, <2>2, <2>3 DEF Sure, FormAlone, CreateAlone, PatchAlone, DetailAlone, Life, PointerLife,
       HeaderLife, TimerLife, ModalLife, NobodyWaits
<1>3. CASE /\ s.answer = "error" /\ net' = [net EXCEPT !.submit = None]
           /\ UNCHANGED <<server, wiz, pointer, unsure>>
  <2>1. /\ SameHeaderRequests /\ net'.lost = net.lost /\ net'.submit = None
        /\ net'.discard = net.discard /\ net'.cancel = net.cancel
    BY <1>3, NewSubmit DEF SameHeaderRequests
  <2>2. ResetPending(wiz.m) => ResetPending(wiz.m)'
    BY <1>1, <1>3, <2>1 DEF ResetPending
  <2> QED
    BY <1>3, <2>1, <2>2, OverIsSure DEF SamePage
<1> QED
  BY <1>1, <1>2, <1>3 DEF AnswerSubmit

\* A draft held while no header request is in flight has a header that was synced.
LEMMA SyncedAtRest ==
    ASSUME KindsInv, Sure, net.patches = {}, net.details = {}, wiz.m # 0,
           server[wiz.m].status = "BORRADOR"
    PROVE  server[wiz.m].header = wiz.synced /\ wiz.synced # NoHeader
<1>1. server[wiz.m].header = wiz.synced
  BY DEF Sure, HeaderLife
<1>2. server[wiz.m] \in Rows
  BY NamesAre, KindsFacts, KnownIs
<1>3. server[wiz.m].header \in GoodHeaders
  BY <1>2, RowFields
<1> QED
  BY <1>1, <1>3, GoodHeaderIs

\* The form of an edit made while no PATCH and no read is in flight.
LEMMA EditedSure ==
    ASSUME KindsInv, Sure, net.patches = {}, net.details = {}, UNCHANGED <<server, net>>,
           wiz.open, wiz.modal = 0, NEW form \in Forms, form # wiz.form,
           wiz.m = 0 /\ form.type = TwoClients => form.client = "",
           NEW new, new = [wiz EXCEPT !.form = form], Render(new, pointer)
    PROVE  Sure'
<1>1. /\ new \in Pages(Known(server)) /\ new.open /\ new.m = wiz.m /\ new.form = form
      /\ new.synced = wiz.synced /\ new.modal = 0 /\ new.resume = wiz.resume
      /\ (new.error <=> wiz.error)
      /\ new.patchTimer = wiz.patchTimer /\ new.createTimer = wiz.createTimer
  BY KindsFacts DEF Pages
<1>2. Shows(wiz', new)
  BY <1>1, KindsFacts, RenderIs
<1>3. pointer'.m = wiz.m \/ pointer' = pointer
  BY <1>1, KindsFacts, RenderIs
<1>4. wiz.m = 0 => pointer' = pointer
  BY <1>1, KindsFacts, RenderIs
<1>5. /\ wiz'.open /\ wiz'.m = wiz.m /\ wiz'.form = form /\ wiz'.synced = wiz.synced
      /\ wiz'.modal = 0 /\ wiz'.resume = wiz.resume /\ (wiz'.error <=> wiz.error)
  BY <1>1, <1>2 DEF Shows
<1>6. FormAlone' /\ ModalLife'
  BY <1>5 DEF FormAlone, ModalLife
<1>7. CreateAlone'
  BY <1>5 DEF Sure, CreateAlone, LostKill
<1>8. PatchAlone' /\ DetailAlone'
  BY DEF PatchAlone, DetailAlone
<1>9. Life'
  BY <1>5 DEF Sure, Life, ResetPending, LostKill
<1>10. PointerLife'
  BY <1>3, <1>4, <1>5 DEF Sure, PointerLife, NobodyEnds, LostKill, Unanswered
<1>11. HeaderLife'
  BY <1>5 DEF Sure, HeaderLife
<1>12. TimerLife'
  <2>1. SUFFICES ASSUME wiz.m # 0, ~wiz'.patchTimer, server[wiz.m].status = "BORRADOR"
                 PROVE  HeaderOf(wiz'.form) = wiz'.synced
    BY <1>5 DEF TimerLife
  <2>2. wiz.synced # NoHeader
    BY <2>1, SyncedAtRest
  <2>3. PatchDiffers(wiz, new)
    BY <1>1 DEF PatchDiffers
  <2>4. wiz' = Rendered(wiz, new)
    BY DEF Render
  <2>5. HeaderOf(new.form) = new.synced
    BY <1>1, <2>1, <2>2, <2>3, <2>4, NothingToSend, KindsFacts
  <2> QED
    BY <1>1, <1>5, <2>5
<1> QED
  BY <1>6, <1>7, <1>8, <1>9, <1>10, <1>11, <1>12 DEF Sure

LEMMA EditingIs ==
    ASSUME KindsInv, ~unsure => Sure, Editing, ~unsure'
    PROVE  Sure /\ net.patches = {} /\ net.details = {}
BY KindsFacts DEF Editing

LEMMA EditTypeSure ==
    ASSUME KindsInv, ~unsure => Sure, NEW type \in Types \cup {""}, EditType(type), ~unsure'
    PROVE  Sure'
<1>1. Sure /\ net.patches = {} /\ net.details = {}
  BY EditingIs DEF EditType
<1>2. PICK form : form = [EmptyForm EXCEPT !.type = type]
  OBVIOUS
<1>3. form \in Forms /\ form.type = type /\ form.client = ""
  BY <1>2 DEF EmptyForm, Forms, Chosen
<1>4. PICK new : new = [wiz EXCEPT !.form = form]
  OBVIOUS
<1>5. /\ Render(new, pointer) /\ UNCHANGED <<server, net>> /\ wiz.open /\ wiz.modal = 0
      /\ type # wiz.form.type
  BY <1>2, <1>4 DEF EditType, MayEdit
<1>6. form # wiz.form
  BY <1>3, <1>5
<1> QED
  BY <1>1, <1>3, <1>4, <1>5, <1>6, EditedSure

LEMMA EditClientSure ==
    ASSUME KindsInv, ~unsure => Sure, NEW c \in Chosen, EditClient(c), ~unsure'
    PROVE  Sure'
<1>1. Sure /\ net.patches = {} /\ net.details = {}
  BY EditingIs DEF EditClient
<1>2. UNCHANGED <<server, net>> /\ wiz.open /\ wiz.modal = 0
  BY DEF EditClient, MayEdit
<1>3. wiz.form \in Forms /\ c \in Chosen
  BY KindsFacts, PageFields
<1>4. CASE /\ ClientRequired(wiz.form.type) /\ c # wiz.form.client
           /\ Render([wiz EXCEPT !.form.client = c], pointer)
  <2>1. PICK form : form = [wiz.form EXCEPT !.client = c]
    OBVIOUS
  <2>2. form \in Forms /\ form.client = c /\ form.type = wiz.form.type
    BY <1>3, <2>1 DEF Forms
  <2>3. PICK new : new = [wiz EXCEPT !.form = form]
    OBVIOUS
  <2>4. Render(new, pointer)
    BY <1>4, <2>1, <2>3
  <2>5. form # wiz.form /\ form.type # TwoClients
    BY <1>4, <2>2, TypesAre DEF ClientRequired
  <2> QED
    BY <1>1, <1>2, <2>2, <2>3, <2>4, <2>5, EditedSure
<1>5. CASE /\ wiz.m # 0 /\ c # wiz.form.cost
           /\ Render([wiz EXCEPT !.form.cost = c], pointer)
  <2>1. PICK form : form = [wiz.form EXCEPT !.cost = c]
    OBVIOUS
  <2>2. form \in Forms /\ form.cost = c
    BY <1>3, <2>1 DEF Forms
  <2>3. PICK new : new = [wiz EXCEPT !.form = form]
    OBVIOUS
  <2>4. Render(new, pointer)
    BY <1>5, <2>1, <2>3
  <2>5. form # wiz.form
    BY <1>5, <2>2
  <2> QED
    BY <1>1, <1>2, <1>5, <2>2, <2>3, <2>4, <2>5, EditedSure
<1>6. CASE /\ wiz.m # 0 /\ c # wiz.form.cob
           /\ Render([wiz EXCEPT !.form.cob = c], pointer)
  <2>1. PICK form : form = [wiz.form EXCEPT !.cob = c]
    OBVIOUS
  <2>2. form \in Forms /\ form.cob = c
    BY <1>3, <2>1 DEF Forms
  <2>3. PICK new : new = [wiz EXCEPT !.form = form]
    OBVIOUS
  <2>4. Render(new, pointer)
    BY <1>6, <2>1, <2>3
  <2>5. form # wiz.form
    BY <1>6, <2>2
  <2> QED
    BY <1>1, <1>2, <1>6, <2>2, <2>3, <2>4, <2>5, EditedSure
<1> QED
  BY <1>4, <1>5, <1>6 DEF EditClient

LEMMA RevertSure == ASSUME KindsInv, ~unsure => Sure, Revert, ~unsure' PROVE Sure'
<1>1. Sure /\ net.create = None /\ net.patches = {} /\ net.details = {}
  BY KindsFacts DEF Revert, Answering, HeaderInFlight
<1>2. wiz.open /\ wiz.m # 0 /\ UNCHANGED <<server, net>>
  BY <1>1, BusyIsOpen DEF Revert, Sure, ModalLife
<1>3. PICK new : new = Reverted(wiz)
  OBVIOUS
<1>4. /\ new \in Pages(Known(server)) /\ new.open /\ new.m = wiz.m /\ new.modal = 0
      /\ new.patchTimer = wiz.patchTimer /\ new.createTimer = wiz.createTimer
      /\ new.synced = wiz.synced
  BY <1>2, <1>3, RevertedIs
<1>5. Render(new, pointer)
  BY <1>3 DEF Revert
<1>6. Shows(wiz', new)
  BY <1>4, <1>5, KindsFacts, RenderIs
<1>7. pointer'.m = wiz.m \/ pointer' = pointer
  BY <1>4, <1>5, KindsFacts, RenderIs
<1>8. wiz'.open /\ wiz'.m = wiz.m /\ wiz'.modal = 0 /\ wiz'.synced = wiz.synced /\ wiz'.form = new.form
  BY <1>4, <1>6 DEF Shows
<1>9. FormAlone' /\ CreateAlone' /\ PatchAlone' /\ DetailAlone' /\ ModalLife'
  BY <1>1, <1>2, <1>8 DEF FormAlone, CreateAlone, PatchAlone, DetailAlone, ModalLife
<1>10. Life'
  BY <1>1, <1>2, <1>8 DEF Sure, Life, ResetPending, LostKill
<1>11. PointerLife'
  BY <1>1, <1>2, <1>7, <1>8 DEF Sure, PointerLife
<1>12. HeaderLife'
  BY <1>1, <1>2, <1>8 DEF Sure, HeaderLife
<1>13. TimerLife'
  <2>1. SUFFICES ASSUME server[wiz.m].status = "BORRADOR", ~wiz'.patchTimer
                 PROVE  HeaderOf(wiz'.form) = wiz'.synced
    BY <1>2, <1>8 DEF TimerLife
  <2>2. wiz.synced # NoHeader
    BY <1>1, <1>2, <2>1, SyncedAtRest
  <2>3. PatchDiffers(wiz, new)
    BY <1>4 DEF PatchDiffers, Revert
  <2>4. wiz' = Rendered(wiz, new)
    BY <1>5 DEF Render
  <2>5. HeaderOf(new.form) = new.synced
    BY <1>2, <1>4, <2>1, <2>2, <2>3, <2>4, NothingToSend, KindsFacts
  <2> QED
    BY <1>4, <1>8, <2>5
<1> QED
  BY <1>9, <1>10, <1>11, <1>12, <1>13 DEF Sure

\* The PATCH of a wizard that had nothing else in flight.
LEMMA PatchSentSure ==
    ASSUME KindsInv, Sure, NEW confirm \in BOOLEAN, PatchSent(confirm), wiz.m # 0, wiz.open,
           confirm => wiz.modal # 0,
           net.create = None, net.patches = {}, net.details = {}, UNCHANGED <<server, pointer>>,
           wiz'.open, wiz'.m = wiz.m, wiz'.form = wiz.form, wiz'.synced = wiz.synced,
           wiz'.modal = wiz.modal
    PROVE  Sure'
<1>1. PICK p : p = [m |-> wiz.m, header |-> HeaderOf(wiz.form), confirm |-> confirm,
                    modal |-> wiz.modal, answer |-> "none", latest |-> TRUE]
  OBVIOUS
<1>2. /\ net'.patches = {p} /\ net'.create = None /\ net'.details = {} /\ net'.lost = net.lost
      /\ net'.cancel = net.cancel /\ net'.discard = net.discard /\ net'.submit = net.submit
  BY <1>1, PatchSentIs
<1>3. /\ p.m = wiz.m /\ p.header = HeaderOf(wiz.form) /\ (p.confirm <=> confirm)
      /\ p.modal = wiz.modal /\ p.answer = "none" /\ p.latest
  BY <1>1
<1>4. FormAlone' /\ CreateAlone' /\ DetailAlone'
  BY <1>2 DEF FormAlone, CreateAlone, DetailAlone
<1>5. ModalLife'
  BY DEF Sure, ModalLife
<1>6. PatchAlone'
  BY <1>2, <1>3 DEF Sure, ModalLife, PatchAlone
<1>7. Life'
  BY <1>2 DEF Sure, Life, ResetPending, LostKill
<1>8. PointerLife'
  BY DEF Sure, PointerLife
<1>9. HeaderLife'
  BY <1>2, <1>3 DEF Sure, HeaderLife
<1>10. TimerLife'
  BY <1>2 DEF TimerLife, HeaderInFlight
<1> QED
  BY <1>4, <1>5, <1>6, <1>7, <1>8, <1>9, <1>10 DEF Sure

LEMMA SendPatchSure == ASSUME KindsInv, ~unsure => Sure, SendPatch, ~unsure' PROVE Sure'
<1>1. /\ Sure /\ net.create = None /\ net.patches = {} /\ net.details = {}
      /\ UNCHANGED <<server, pointer>> /\ PatchSent(FALSE)
  BY KindsFacts DEF SendPatch, HeaderInFlight
<1>2. wiz.m # 0 /\ wiz.open
  BY KindsFacts, BusyIsOpen DEF SendPatch, PageOk
<1>3. wiz'.open /\ wiz'.m = wiz.m /\ wiz'.form = wiz.form /\ wiz'.synced = wiz.synced
      /\ wiz'.modal = wiz.modal
  <2>1. wiz' = [wiz EXCEPT !.patchTimer = FALSE, !.error = FALSE]
    BY DEF SendPatch
  <2> QED
    BY <1>2, <2>1, KindsFacts DEF Pages
<1> QED
  BY <1>1, <1>2, <1>3, PatchSentSure

LEMMA ConfirmClearSure == ASSUME KindsInv, ~unsure => Sure, ConfirmClear, ~unsure' PROVE Sure'
<1>1. /\ Sure /\ net.create = None /\ net.patches = {} /\ net.details = {}
      /\ UNCHANGED <<server, pointer>> /\ PatchSent(TRUE) /\ wiz.modal # 0 /\ wiz.m # 0
  BY KindsFacts DEF ConfirmClear, Answering, HeaderInFlight
<1>2. wiz.open
  BY <1>1, NamesAre
<1>3. wiz'.open /\ wiz'.m = wiz.m /\ wiz'.form = wiz.form /\ wiz'.synced = wiz.synced
      /\ wiz'.modal = wiz.modal
  BY <1>2, NewMessage DEF ConfirmClear
<1> QED
  BY <1>1, <1>2, <1>3, PatchSentSure

\* Nothing is held and nothing is asked about: while a draft is being created.
LEMMA CreatingIs ==
    ASSUME KindsInv, Sure, net.create # None
    PROVE  /\ wiz.m = 0 /\ wiz.modal = 0 /\ net.patches = {} /\ net.details = {} /\ pointer = None
           /\ wiz.open /\ net.create.header \in GoodHeaders
<1>1. wiz.open /\ net.create.header \in GoodHeaders
  BY CreationIs
<1>2. wiz.m = 0 /\ wiz.modal = 0 /\ net.patches = {} /\ net.details = {}
  BY DEF Sure, CreateAlone
<1>3. pointer = None
  BY <1>1, <1>2 DEF Sure, PointerLife
<1> QED
  BY <1>1, <1>2, <1>3

\* A step of a page that holds nothing is about its creation alone.
LEMMA OnlyCreation ==
    ASSUME Sure, wiz.m = 0, wiz.modal = 0, pointer = None, pointer' = pointer,
           wiz'.m = 0, wiz'.modal = 0, wiz'.form = wiz.form,
           net'.patches = {}, net'.details = {}, CreateAlone'
    PROVE  Sure'
<1>1. FormAlone'
  BY DEF Sure, FormAlone
<1> QED
  BY <1>1 DEF Sure, PatchAlone, DetailAlone, Life, PointerLife, HeaderLife, TimerLife, ModalLife

LEMMA SendCreateSure == ASSUME KindsInv, Sure, SendCreate PROVE Sure'
<1>1. wiz.m = 0 /\ wiz.resume = 0 /\ wiz.open
  <2>1. wiz.createTimer
    BY DEF SendCreate
  <2>2. ~Closed.createTimer
    BY DEF Closed
  <2> QED
    BY <2>1, <2>2, KindsFacts DEF PageOk
<1>2. wiz.modal = 0 /\ net.patches = {} /\ net.details = {}
  <2>1. wiz.modal = 0
    BY <1>1 DEF Sure, ModalLife
  <2>2. net.patches = {}
    BY <1>1, NamesAre DEF Sure, PatchAlone
  <2>3. \A d \in net.details : d.kind \in {"resume", "list"}
    BY KindsFacts, NetFields, ReadingIs
  <2>4. net.details = {}
    BY <1>1, <2>3, NamesAre DEF Sure, DetailAlone
  <2> QED
    BY <2>1, <2>2, <2>4
<1>3. pointer = None /\ pointer' = pointer /\ server' = server
  BY <1>1 DEF Sure, PointerLife, SendCreate
<1>4. wiz'.m = 0 /\ wiz'.modal = 0 /\ wiz'.form = wiz.form
  <2>1. PICK error : wiz' = [wiz EXCEPT !.createTimer = FALSE, !.error = error]
    BY DEF SendCreate
  <2> QED
    BY <1>1, <1>2, <2>1, KindsFacts DEF Pages
<1>5. CASE net.create # None
  <2>1. net' = net
    BY <1>5 DEF SendCreate
  <2>2. CreateAlone'
    BY <1>2, <1>3, <1>4, <2>1 DEF Sure, CreateAlone, LostKill
  <2> QED
    BY <1>1, <1>2, <1>3, <1>4, <2>1, <2>2, OnlyCreation
<1>6. CASE net.create = None
  <2>1. PICK h : h = [type |-> wiz.form.type, client |-> wiz.form.client, cost |-> ""]
    OBVIOUS
  <2>2. PICK c : c = [m |-> 0, served |-> FALSE, refused |-> FALSE, header |-> h]
    OBVIOUS
  <2>3. net' = [net EXCEPT !.create = c]
    BY <1>6, <2>1, <2>2 DEF SendCreate
  <2>4. net'.create = c /\ net'.patches = {} /\ net'.details = {}
    BY <1>2, <2>3, KindsFacts DEF Nets
  <2>5. c.header = h /\ ~c.served /\ (h.type = TwoClients => h.client = "")
    BY <1>1, <2>1, <2>2 DEF Sure, FormAlone
  <2>6. CreateAlone'
    BY <1>4, <2>4, <2>5 DEF CreateAlone
  <2> QED
    BY <1>1, <1>2, <1>3, <1>4, <2>4, <2>6, OnlyCreation
<1> QED
  BY <1>5, <1>6

LEMMA ServeCreateSure ==
    ASSUME KindsInv, Sure, NEW m \in Movements, NEW ok \in BOOLEAN, ServeCreate(m, ok)
    PROVE  Sure'
<1>1. /\ net.create # None /\ server[m].status = "none"
      /\ wiz' = wiz /\ pointer' = pointer
  BY DEF ServeCreate
<1>2. /\ wiz.m = 0 /\ wiz.modal = 0 /\ net.patches = {} /\ net.details = {} /\ pointer = None
      /\ net.create.header \in GoodHeaders /\ net.create \in Creations(Known(server))
  BY <1>1, CreatingIs, CreationIs
<1>3. PICK c : c = [net.create EXCEPT !.served = TRUE, !.refused = ~ok, !.m = IF ok THEN m ELSE 0]
  OBVIOUS
<1>4. /\ c.header = net.create.header /\ (c.refused <=> ~ok) /\ (ok => c.m = m)
  BY <1>2, <1>3 DEF Creations
<1>5. net' = [net EXCEPT !.create = c]
  BY <1>3 DEF ServeCreate
<1>6. /\ net'.create = c /\ net'.patches = {} /\ net'.details = {} /\ net'.lost = net.lost
      /\ net'.discard = net.discard /\ net'.cancel = net.cancel /\ net'.submit = net.submit
  BY <1>2, <1>5, KindsFacts DEF Nets
<1>7. m \notin Known(server) /\ m # 0
  BY <1>1, KnownIs, TypesAre
<1>8. net.discard.m # m /\ net.cancel.m # m /\ net.submit.m # m
  <2>1. None.m = 0
    BY NamesAre
  <2> QED
    BY <1>7, <2>1, DiscardIs, CancelIs, SubmitIs
<1>9. ~LostKill(m)'
  BY <1>6, <1>7, NamesAre DEF LostKill
<1>10. ok => server'[m].status = "BORRADOR" /\ server'[m].header = c.header
  <2>1. SUFFICES ASSUME ok
                 PROVE  server'[m].status = "BORRADOR" /\ server'[m].header = c.header
    OBVIOUS
  <2>2. server' = [server EXCEPT ![m] = NewDraft(net.create.header)]
    BY <2>1 DEF ServeCreate
  <2>3. server'[m] = NewDraft(net.create.header)
    BY <2>2, KindsFacts
  <2> QED
    BY <1>2, <1>4, <2>3, NewDraftIs
<1>11. net.create.header.type = TwoClients => net.create.header.client = ""
  BY <1>1 DEF Sure, CreateAlone
<1>12. CreateAlone'
  BY <1>1, <1>2, <1>4, <1>6, <1>7, <1>8, <1>9, <1>10, <1>11 DEF CreateAlone
<1> QED
  BY <1>1, <1>2, <1>6, <1>12, OnlyCreation

LEMMA RefuseCreateSure == ASSUME KindsInv, Sure, RefuseCreate PROVE Sure'
<1>1. net.create # None /\ wiz' = wiz /\ pointer' = pointer
  BY DEF RefuseCreate
<1>2. /\ wiz.m = 0 /\ wiz.modal = 0 /\ net.patches = {} /\ net.details = {} /\ pointer = None
      /\ net.create \in Creations(Known(server))
  BY <1>1, CreatingIs, CreationIs
<1>3. PICK c : c = [net.create EXCEPT !.served = TRUE, !.refused = TRUE]
  OBVIOUS
<1>4. c.header = net.create.header /\ c.refused
  BY <1>2, <1>3 DEF Creations
<1>5. net' = [net EXCEPT !.create = c]
  BY <1>3 DEF RefuseCreate
<1>6. net'.create = c /\ net'.patches = {} /\ net'.details = {}
  BY <1>2, <1>5, KindsFacts DEF Nets
<1>7. CreateAlone'
  BY <1>1, <1>2, <1>4, <1>6 DEF Sure, CreateAlone
<1> QED
  BY <1>1, <1>2, <1>6, <1>7, OnlyCreation

LEMMA CreateTimeoutSure == ASSUME KindsInv, Sure, CreateTimeout PROVE Sure'
<1>1. /\ wiz.m = 0 /\ wiz.modal = 0 /\ net.patches = {} /\ net.details = {} /\ pointer = None
      /\ wiz.open
  BY CreatingIs DEF CreateTimeout
<1>2. wiz' = [wiz EXCEPT !.error = TRUE] /\ pointer' = pointer
  BY DEF CreateTimeout
<1>3. wiz'.m = 0 /\ wiz'.modal = 0 /\ wiz'.form = wiz.form
  BY <1>1, <1>2, NewMessage
<1>4. \E lost : net' = [net EXCEPT !.create = None, !.lost = lost]
  BY DEF CreateTimeout
<1>5. net'.create = None /\ net'.patches = {} /\ net'.details = {}
  BY <1>1, <1>4, KindsFacts DEF Nets
<1> QED
  BY <1>1, <1>2, <1>3, <1>5, OnlyCreation DEF CreateAlone

LEMMA AnswerCreateSure == ASSUME KindsInv, ~unsure => Sure, AnswerCreate, ~unsure' PROVE Sure'
<1>1. Sure
  BY KindsFacts DEF AnswerCreate
<1>2. PICK c : c = net.create
  OBVIOUS
<1>3. /\ c # None /\ c.served /\ wiz.m = 0 /\ wiz.modal = 0 /\ net.patches = {} /\ net.details = {}
      /\ pointer = None /\ wiz.open /\ c.header \in GoodHeaders /\ c \in Creations(Known(server))
      /\ server' = server
  BY <1>1, <1>2, CreatingIs, CreationIs DEF AnswerCreate
<1>4. PICK done : done = [net EXCEPT !.create = None]
  OBVIOUS
<1>5. /\ done \in Nets(Known(server)) /\ done.create = None /\ done.patches = {}
      /\ done.details = {} /\ done.lost = net.lost /\ done.discard = net.discard
      /\ done.cancel = net.cancel /\ done.submit = net.submit
  BY <1>3, <1>4, KindsFacts DEF Nets
<1>6. CASE wiz' = [wiz EXCEPT !.error = TRUE] /\ net' = done /\ UNCHANGED pointer
  <2>1. wiz'.m = 0 /\ wiz'.modal = 0 /\ wiz'.form = wiz.form
    BY <1>3, <1>6, NewMessage
  <2> QED
    BY <1>1, <1>3, <1>5, <1>6, <2>1, OnlyCreation DEF CreateAlone
<1>7. CASE /\ ~c.refused
           /\ Render([wiz EXCEPT !.m = c.m, !.synced = SyncedByCreate(c.header), !.cob = ""], pointer)
           /\ net' = Fetching(done)
  <2>1. PICK synced : synced = SyncedByCreate(c.header)
    OBVIOUS
  <2>2. /\ c.m # 0 /\ server[c.m].status = "BORRADOR" /\ server[c.m].header = c.header
        /\ ~LostKill(c.m) /\ net.discard.m # c.m
        /\ c.header.type = TwoClients => c.header.client = ""
    BY <1>1, <1>2, <1>3, <1>7 DEF Sure, CreateAlone
  <2>3. synced = c.header /\ synced \in RegularHeaders /\ synced # NoHeader
    BY <1>3, <2>1, <2>2, SyncedIs, GoodHeaderIs
  <2>4. PICK new : new = [wiz EXCEPT !.m = c.m, !.synced = synced, !.cob = ""]
    OBVIOUS
  <2>5. c.m \in Known(server)
    BY <1>3, <2>2 DEF Creations
  <2>6. /\ new \in Pages(Known(server)) /\ new.open /\ new.m = c.m /\ new.synced = synced
        /\ new.form = wiz.form /\ new.modal = 0
        /\ new.patchTimer = wiz.patchTimer /\ new.createTimer = wiz.createTimer
    BY <1>3, <2>3, <2>4, <2>5, KindsFacts DEF Pages, Chosen
  <2>7. Render(new, pointer)
    BY <1>7, <2>1, <2>4
  <2>8. Shows(wiz', new) /\ (pointer'.m = c.m \/ pointer' = None)
    BY <1>3, <2>6, <2>7, KindsFacts, RenderIs
  <2>9. /\ net'.create = None /\ net'.patches = {} /\ net'.details = {} /\ net'.lost = net.lost
        /\ net'.discard = net.discard
    BY <1>5, <1>7, FetchingIs
  <2>10. /\ wiz'.open /\ wiz'.m = c.m /\ wiz'.modal = 0 /\ wiz'.synced = c.header
         /\ wiz'.form = new.form
    BY <2>3, <2>6, <2>8 DEF Shows
  <2>11. FormAlone' /\ CreateAlone' /\ PatchAlone' /\ DetailAlone' /\ ModalLife'
    BY <2>2, <2>9, <2>10 DEF FormAlone, CreateAlone, PatchAlone, DetailAlone, ModalLife
  <2>12. Life'
    BY <1>3, <2>2, <2>9, <2>10 DEF Life, LostKill
  <2>13. PointerLife'
    BY <2>2, <2>8, <2>10 DEF PointerLife
  <2>14. HeaderLife'
    BY <1>3, <2>2, <2>9, <2>10 DEF HeaderLife
  <2>15. TimerLife'
    <3>1. SUFFICES ASSUME ~wiz'.patchTimer
                   PROVE  HeaderOf(wiz'.form) = wiz'.synced
      BY DEF TimerLife
    <3>2. PatchDiffers(wiz, new)
      BY <1>3, <2>2, <2>6 DEF PatchDiffers
    <3>3. wiz' = Rendered(wiz, new)
      BY <2>7 DEF Render
    <3>4. HeaderOf(new.form) = new.synced
      BY <2>2, <2>3, <2>6, <3>1, <3>2, <3>3, NothingToSend, KindsFacts
    <3> QED
      BY <2>3, <2>6, <2>10, <3>4
  <2> QED
    BY <2>11, <2>12, <2>13, <2>14, <2>15 DEF Sure
<1> QED
  BY <1>2, <1>4, <1>6, <1>7 DEF AnswerCreate

LEMMA ServePatchSure ==
    ASSUME KindsInv, ~unsure => Sure, NEW p \in net.patches, ServePatch(p), ~unsure'
    PROVE  Sure'
<1>1. PICK told \in {"ok", "conflict", "error"} :
        /\ ~unsure
        /\ told = "ok" => PatchAnswer(p) = "ok" /\ server' = Patched(p)
        /\ told # "ok" => server' = server
        /\ net'.create = net.create /\ net'.lost = net.lost /\ net'.details = net.details
        /\ net'.cancel = net.cancel /\ net'.discard = net.discard /\ net'.submit = net.submit
        /\ net'.patches = (net.patches \ {p}) \cup
             (IF p.latest THEN {[p EXCEPT !.answer = told]} ELSE {})
  BY ServePatchIs
<1>2. Sure /\ wiz' = wiz /\ pointer' = pointer /\ p.answer = "none"
  BY <1>1 DEF ServePatch
<1>3. p.m \in Known(server) /\ p.m # 0 /\ p.m \in Movements
  BY NamesAre, KnownIs
<1>4. \A x \in Known(server) : server'[x].status = server[x].status
  <2>1. CASE told = "ok"
    <3>1. /\ server[p.m].status = "BORRADOR" /\ server'[p.m].status = "BORRADOR"
          /\ \A x \in Movements : x # p.m => server'[x] = server[x]
      BY <1>1, <2>1, PatchedIs
    <3> QED
      BY <1>3, <3>1, KnownIs
  <2>2. CASE told # "ok"
    BY <1>1, <2>2
  <2> QED
    BY <2>1, <2>2
<1>5. /\ net'.create = net.create /\ net'.lost = net.lost /\ net'.details = net.details
      /\ net'.cancel = net.cancel /\ net'.discard = net.discard /\ net'.submit = net.submit
  BY <1>1
<1>6. net.create = None
  BY <1>2 DEF Sure, CreateAlone
<1>7. FormAlone' /\ CreateAlone' /\ ModalLife'
  BY <1>2, <1>5, <1>6 DEF Sure, FormAlone, CreateAlone, ModalLife
<1>8. Life'
  BY <1>2, <1>4, <1>5, NamesAre DEF Sure, Life, ResetPending, LostKill
<1>9. PointerLife'
  BY <1>2, <1>4, <1>5, NamesAre DEF Sure, PointerLife, NobodyEnds, Unanswered, LostKill
<1>10. CASE ~wiz.open
  <2>1. wiz.m = 0 /\ net.details = {}
    BY <1>10, NamesAre, KindsFacts DEF NobodyWaits
  <2>2. PatchAlone' /\ DetailAlone' /\ HeaderLife' /\ TimerLife'
    BY <1>2, <1>5, <1>10, <2>1 DEF PatchAlone, DetailAlone, HeaderLife, TimerLife
  <2> QED
    BY <1>7, <1>8, <1>9, <2>2 DEF Sure
<1>11. CASE wiz.open
  <2>1. /\ net.patches = {p} /\ p.latest /\ net.details = {} /\ wiz.m = p.m
        /\ p.header = HeaderOf(wiz.form) /\ (p.confirm => p.modal = wiz.m)
    BY <1>2, <1>11 DEF Sure, PatchAlone
  <2>2. PICK q : q = [p EXCEPT !.answer = told]
    OBVIOUS
  <2>3. /\ q.m = p.m /\ q.header = p.header /\ q.confirm = p.confirm /\ q.modal = p.modal
        /\ q.latest = p.latest /\ q.answer = told
    <3>1. p \in Edits(Known(server))
      BY KindsFacts, NetFields
    <3> QED
      BY <2>2, <3>1 DEF Edits
  <2>4. net'.patches = {q}
    BY <1>1, <2>1, <2>2
  <2>5. PatchAlone'
    BY <1>2, <1>5, <2>1, <2>3, <2>4 DEF PatchAlone
  <2>6. DetailAlone' /\ TimerLife'
    BY <1>5, <2>1, <2>4 DEF DetailAlone, TimerLife, HeaderInFlight
  <2>7. HeaderLife'
    <3>1. SUFFICES ASSUME server'[p.m].status = "BORRADOR"
                   PROVE  server'[p.m].header = IF told = "ok" THEN p.header ELSE wiz.synced
      BY <1>2, <2>1, <2>3, <2>4 DEF HeaderLife
    <3>2. server[p.m].header = wiz.synced
      BY <1>2, <1>3, <1>4, <2>1, <3>1 DEF Sure, HeaderLife
    <3>3. told = "ok" => server'[p.m].header = p.header
      BY <1>1, PatchedIs
    <3>4. told # "ok" => server' = server
      BY <1>1
    <3> QED
      BY <3>2, <3>3, <3>4
  <2> QED
    BY <1>7, <1>8, <1>9, <2>5, <2>6, <2>7 DEF Sure
<1> QED
  BY <1>10, <1>11

\* The page after the answer to its only PATCH.
LEMMA AnsweredSure ==
    ASSUME KindsInv, Sure, NEW p \in net.patches, p.latest, UNCHANGED server,
           net'.patches = net.patches \ {p},
           net'.create = net.create, net'.lost = net.lost, net'.details = net.details,
           net'.cancel = net.cancel, net'.discard = net.discard, net'.submit = net.submit,
           wiz'.open, wiz'.m = wiz.m, wiz'.form = wiz.form,
           pointer'.m = wiz.m \/ pointer' = pointer,
           \/ p.answer = "ok" /\ wiz'.synced = p.header /\ wiz'.modal = 0
           \/ p.answer = "conflict" /\ wiz'.synced = wiz.synced /\ wiz'.modal = p.m
           \/ /\ p.answer = "error" /\ wiz'.synced = wiz.synced /\ wiz'.modal = wiz.modal
              /\ wiz'.error
    PROVE  Sure'
<1>1. wiz.open /\ p.m # 0
  BY WaitingIsOpen, NamesAre
<1>2. /\ net.patches = {p} /\ net.details = {} /\ wiz.m = p.m /\ p.header = HeaderOf(wiz.form)
  BY <1>1 DEF Sure, PatchAlone
<1>3. net.create = None
  BY <1>2 DEF Sure, CreateAlone
<1>4. net'.patches = {} /\ net'.details = {} /\ net'.create = None
  BY <1>2, <1>3
<1>5. FormAlone' /\ CreateAlone' /\ PatchAlone' /\ DetailAlone'
  BY <1>1, <1>2, <1>4 DEF FormAlone, CreateAlone, PatchAlone, DetailAlone
<1>6. ModalLife'
  BY <1>2 DEF Sure, ModalLife
<1>7. Life'
  BY DEF Sure, Life, ResetPending, LostKill
<1>8. PointerLife'
  BY <1>1, <1>2 DEF Sure, PointerLife
<1>9. HeaderLife'
  BY <1>2, <1>4 DEF Sure, HeaderLife
<1>10. TimerLife'
  BY <1>1, <1>2 DEF TimerLife
<1> QED
  BY <1>5, <1>6, <1>7, <1>8, <1>9, <1>10 DEF Sure

LEMMA AnswerPatchSure ==
    ASSUME KindsInv, Sure, NEW p \in net.patches, AnswerPatch(p)
    PROVE  Sure'
<1>1. /\ net'.patches = net.patches \ {p} /\ UNCHANGED server
      /\ net'.create = net.create /\ net'.lost = net.lost /\ net'.details = net.details
      /\ net'.cancel = net.cancel /\ net'.discard = net.discard /\ net'.submit = net.submit
  BY FewerPatches DEF AnswerPatch
<1>2. p.m \in Known(server) /\ p.header \in RegularHeaders /\ CobradoOf(p.header) \in Chosen
  BY KindsFacts, NetFields, EditIs, CobradoIs
<1>3. CASE ~p.latest /\ UNCHANGED <<wiz, pointer>>
  <2>1. ~wiz.open
    BY <1>3 DEF Sure, PatchAlone
  <2>2. NobodyWaits(net) /\ wiz.m = 0
    BY <2>1, KindsFacts, NamesAre
  <2>3. CreateAlone' /\ PatchAlone' /\ DetailAlone' /\ FormAlone' /\ ModalLife'
    BY <1>1, <1>3, <2>1, <2>2 DEF Sure, NobodyWaits, CreateAlone, PatchAlone, DetailAlone, FormAlone, ModalLife
  <2>4. PointerLife'
    BY <1>1, <1>3, <2>1, <2>2 DEF Sure, PointerLife, LostKill
  <2> QED
    BY <1>3, <2>2, <2>3, <2>4 DEF Sure, Life, HeaderLife, TimerLife
<1>4. CASE p.latest /\ p.answer = "error" /\ wiz' = AfterPatchError(wiz, p) /\ UNCHANGED pointer
  <2>1. wiz.open /\ wiz' = [wiz EXCEPT !.error = TRUE]
    BY <1>4, WaitingIsOpen DEF AfterPatchError
  <2>2. /\ wiz'.open /\ wiz'.m = wiz.m /\ wiz'.form = wiz.form /\ wiz'.synced = wiz.synced
        /\ wiz'.modal = wiz.modal /\ wiz'.error
    BY <2>1, NewMessage
  <2> QED
    BY <1>1, <1>4, <2>2, AnsweredSure
<1>5. ASSUME NEW new, p.latest, Render(new, pointer),
             \/ /\ p.answer = "ok"
                /\ new = [wiz EXCEPT !.synced = p.header, !.cob = CobradoOf(p.header), !.modal = 0]
             \/ p.answer = "conflict" /\ new = [wiz EXCEPT !.modal = p.m]
      PROVE  Sure'
  <2>1. wiz.open
    BY <1>5, WaitingIsOpen
  <2>2. /\ new \in Pages(Known(server)) /\ new.open /\ new.m = wiz.m /\ new.form = wiz.form
        /\ new.patchTimer = wiz.patchTimer /\ new.createTimer = wiz.createTimer
        /\ \/ p.answer = "ok" /\ new.synced = p.header /\ new.modal = 0
           \/ p.answer = "conflict" /\ new.synced = wiz.synced /\ new.modal = p.m
    BY <1>2, <1>5, <2>1, KindsFacts DEF Pages
  <2>3. Shows(wiz', new) /\ (pointer'.m = wiz.m \/ pointer' = pointer)
    BY <1>5, <2>2, KindsFacts, RenderIs
  <2>4. /\ wiz'.open /\ wiz'.m = wiz.m /\ wiz'.form = wiz.form
        /\ \/ p.answer = "ok" /\ wiz'.synced = p.header /\ wiz'.modal = 0
           \/ p.answer = "conflict" /\ wiz'.synced = wiz.synced /\ wiz'.modal = p.m
    BY <2>2, <2>3 DEF Shows
  <2> QED
    BY <1>1, <1>5, <2>3, <2>4, AnsweredSure
<1> QED
  BY <1>3, <1>4, <1>5 DEF AnswerPatch

LEMMA ServeDetailSure ==
    ASSUME KindsInv, ~unsure => Sure, NEW d \in net.details, ServeDetail(d), ~unsure'
    PROVE  Sure'
<1>0. Sure
  BY KindsFacts DEF ServeDetail
<1>1. /\ server' = server /\ pointer' = pointer /\ d.m # 0 /\ d.m \in Known(server) /\ wiz.open
      /\ d.kind \in {"resume", "list"} /\ d \in Readings(Known(server))
  BY NamesAre, ReadIs, ReadingIs DEF ServeDetail
<1>2. /\ net.details = {d} /\ wiz.modal = 0
      /\ d.kind = "resume" => wiz.m = 0 /\ wiz.resume = d.m /\ NobodyEnds /\ ~Unanswered(net)
      /\ d.kind = "list" => /\ wiz.m = d.m /\ wiz.form.type = TwoClients
                            /\ server[d.m].header.type = TwoClients
  BY <1>0 DEF Sure, DetailAlone
<1>3. net.create = None /\ net.patches = {}
  BY <1>0, <1>1, <1>2 DEF Sure, CreateAlone, PatchAlone
<1>5. CASE /\ net' = [net EXCEPT !.details = (@ \ {d}) \cup {[d EXCEPT !.header = server[d.m].header]}]
           /\ UNCHANGED wiz
  <2>1. PICK read : read = [d EXCEPT !.header = server[d.m].header]
    OBVIOUS
  <2>2. read.m = d.m /\ read.kind = d.kind /\ read.header = server[d.m].header
    BY <1>1, <2>1 DEF Readings
  <2>3. /\ net'.details = {read} /\ net'.create = None /\ net'.patches = {}
        /\ net'.lost = net.lost /\ net'.cancel = net.cancel /\ net'.discard = net.discard
        /\ net'.submit = net.submit
    BY <1>2, <1>3, <1>5, <2>1, KindsFacts DEF Nets
  <2>4. FormAlone' /\ CreateAlone' /\ PatchAlone' /\ ModalLife'
    BY <1>0, <1>5, <2>3 DEF Sure, FormAlone, CreateAlone, PatchAlone, ModalLife
  <2>5. DetailAlone'
    BY <1>1, <1>2, <1>5, <2>2, <2>3 DEF DetailAlone, NobodyEnds, Unanswered
  <2>6. Life'
    BY <1>0, <1>1, <1>5, <2>3 DEF Sure, Life, ResetPending, LostKill
  <2>7. PointerLife'
    BY <1>0, <1>1, <1>5, <2>3 DEF Sure, PointerLife, NobodyEnds, Unanswered, LostKill
  <2>8. HeaderLife' /\ TimerLife'
    BY <2>3 DEF HeaderLife, TimerLife, HeaderInFlight
  <2> QED
    BY <2>4, <2>5, <2>6, <2>7, <2>8 DEF Sure
<1>6. CASE /\ net' = [net EXCEPT !.details = @ \ {d}]
           /\ wiz' = [wiz EXCEPT !.error = @ \/ d.kind = "resume"]
           /\ unsure' = (unsure \/ d.kind = "list")
  <2>0. wiz.m = 0
    BY <1>1, <1>2, <1>6
  <2>1. PICK error \in BOOLEAN : error = (wiz.error \/ d.kind = "resume")
    OBVIOUS
  <2>2. wiz' = [wiz EXCEPT !.error = error]
    BY <1>6, <2>1, Zenon
  <2>3. /\ wiz'.open /\ wiz'.m = wiz.m /\ wiz'.form = wiz.form /\ wiz'.synced = wiz.synced
        /\ wiz'.modal = wiz.modal /\ wiz'.resume = wiz.resume /\ wiz'.error = error
    BY <1>1, <2>2, NewMessage
  <2>4. /\ net'.details = {} /\ net'.create = None /\ net'.patches = {}
        /\ net'.lost = net.lost /\ net'.cancel = net.cancel /\ net'.discard = net.discard
        /\ net'.submit = net.submit
    BY <1>2, <1>3, <1>6, KindsFacts DEF Nets
  <2>5. FormAlone' /\ CreateAlone' /\ PatchAlone' /\ DetailAlone' /\ ModalLife'
    BY <1>0, <2>3, <2>4 DEF Sure, FormAlone, CreateAlone, PatchAlone, DetailAlone, ModalLife
  <2>6. Life'
    BY <1>0, <1>1, <2>3, <2>4 DEF Sure, Life, ResetPending, LostKill
  <2>7. PointerLife'
    <3>1. wiz.m = 0 => error
      BY <1>1, <1>2, <2>1
    <3> QED
      BY <1>0, <1>1, <2>3, <2>4, <3>1 DEF Sure, PointerLife, NobodyEnds, Unanswered, LostKill
  <2>8. HeaderLife' /\ TimerLife'
    BY <2>0, <2>3 DEF HeaderLife, TimerLife
  <2> QED
    BY <2>5, <2>6, <2>7, <2>8 DEF Sure
<1> QED
  BY <1>5, <1>6 DEF ServeDetail

\* A draft just read is held, with the header it has.
LEMMA HeldSure ==
    ASSUME NEW m, m # 0, server' = server, wiz'.open, wiz'.m = m, wiz'.modal = 0,
           server[m].status = "BORRADOR", server[m].header = wiz'.synced,
           HeaderOf(wiz'.form) = wiz'.synced, pointer' # None => pointer'.m = m,
           net'.create = None, net'.patches = {}, net'.details = {},
           ~LostKill(m)',
           net'.discard.m = m /\ net'.discard.answer = "none" => net'.discard.was = m
    PROVE  Sure'
<1>1. FormAlone' /\ CreateAlone' /\ PatchAlone' /\ DetailAlone' /\ ModalLife'
  BY DEF FormAlone, CreateAlone, PatchAlone, DetailAlone, ModalLife
<1>2. Life'
  BY DEF Life, LostKill
<1>3. PointerLife'
  BY DEF PointerLife
<1>4. HeaderLife' /\ TimerLife'
  BY DEF HeaderLife, TimerLife
<1> QED
  BY <1>1, <1>2, <1>3, <1>4 DEF Sure

LEMMA AnswerDetailSure ==
    ASSUME KindsInv, ~unsure => Sure, NEW d \in net.details, AnswerDetail(d), ~unsure'
    PROVE  Sure'
<1>1. Sure /\ server[d.m].status = "BORRADOR" /\ server[d.m].header = d.header
  BY KindsFacts DEF AnswerDetail, Current
<1>2. /\ server' = server /\ d.m # 0 /\ wiz.open /\ d.header # NoHeader
      /\ d.header \in RegularHeaders /\ d.header \in GoodHeaders
      /\ net' = [net EXCEPT !.details = @ \ {d}]
  BY NamesAre, DetailIs DEF AnswerDetail
<1>3. /\ net.details = {d} /\ wiz.modal = 0
      /\ d.kind = "resume" => wiz.m = 0 /\ wiz.resume = d.m /\ NobodyEnds /\ ~Unanswered(net)
      /\ d.kind = "list" => /\ wiz.m = d.m /\ wiz.form.type = TwoClients
                            /\ server[d.m].header.type = TwoClients
  BY <1>1 DEF Sure, DetailAlone
<1>4. net.create = None /\ net.patches = {}
  BY <1>1, <1>2, <1>3 DEF Sure, CreateAlone, PatchAlone
<1>5. /\ net'.details = {} /\ net'.create = None /\ net'.patches = {}
      /\ net'.lost = net.lost /\ net'.discard = net.discard
  BY <1>2, <1>3, <1>4, KindsFacts DEF Nets
<1>6. CASE d.kind = "resume" /\ Render(WholeDetail(d), pointer)
  <2>1. PICK new : new = WholeDetail(d)
    OBVIOUS
  <2>2. /\ new \in Pages(Known(server)) /\ new.open /\ new.m = d.m
        /\ new.form = FormOf(d.header) /\ new.synced = d.header /\ new.modal = wiz.modal
        /\ new.patchTimer = wiz.patchTimer /\ new.createTimer = wiz.createTimer
    BY <1>2, <2>1, WholeDetailIs
  <2>3. Shows(wiz', new)
    BY <1>6, <2>1, <2>2, KindsFacts, RenderIs
  <2>4. FormOf(d.header).type = d.header.type /\ HeaderOf(FormOf(d.header)) = d.header
    BY <1>2, FormOfIs
  <2>5. d.header.type # ""
    BY <1>2, GoodHeaderIs, TypesAre
  <2>6. Follows(wiz', pointer')
    BY <1>6, <2>1, <2>2, KindsFacts, RenderIs
  <2>7. ~LostKill(d.m)'
    BY <1>3, <1>5, <1>6 DEF LostKill, Unanswered
  <2>8. net'.discard.m # d.m
    BY <1>2, <1>3, <1>5, <1>6, NamesAre DEF NobodyEnds
  <2>9. /\ wiz'.open /\ wiz'.m = d.m /\ wiz'.form = FormOf(d.header) /\ wiz'.synced = d.header
        /\ wiz'.modal = 0
    BY <1>3, <2>2, <2>3 DEF Shows
  <2>10. pointer' # None => pointer'.m = d.m
    BY <1>2, <2>4, <2>5, <2>6, <2>9 DEF Follows
  <2> QED
    BY <1>1, <1>2, <1>5, <2>4, <2>7, <2>8, <2>9, <2>10, HeldSure
<1>7. CASE d.kind = "list" /\ Render(ClientsDetail(d), pointer)
  <2>1. PICK new : new = ClientsDetail(d)
    OBVIOUS
  <2>2. /\ new \in Pages(Known(server)) /\ new.open /\ new.m = wiz.m
        /\ new.form.type = wiz.form.type /\ new.form.cost = FormOf(d.header).cost
        /\ new.form.cob = FormOf(d.header).cob
        /\ new.synced = d.header /\ new.modal = wiz.modal
        /\ new.patchTimer = wiz.patchTimer /\ new.createTimer = wiz.createTimer
    BY <1>2, <2>1, ClientsDetailIs
  <2>3. Shows(wiz', new) /\ (pointer'.m = new.m \/ pointer' = pointer)
    BY <1>7, <2>1, <2>2, KindsFacts, RenderIs
  <2>4. wiz.m = d.m /\ wiz.form.type = TwoClients /\ d.header.type = TwoClients
    BY <1>1, <1>3, <1>7
  <2>5. HeaderOf(new.form) = d.header
    <3>1. FormOf(d.header).cost = d.header.cost /\ FormOf(d.header).cob = d.header.client
      BY <2>4 DEF FormOf, CobradoOf
    <3>2. HeaderOf(new.form) = [type |-> TwoClients, client |-> d.header.client, cost |-> d.header.cost]
      BY <2>2, <2>4, <3>1 DEF HeaderOf
    <3>3. d.header \in Headers
      BY <1>2 DEF RegularHeaders
    <3> QED
      BY <2>4, <3>2, <3>3 DEF Headers
  <2>6. /\ wiz'.open /\ wiz'.m = d.m /\ wiz'.form = new.form /\ wiz'.synced = d.header
        /\ wiz'.modal = 0
    BY <1>3, <2>2, <2>3, <2>4 DEF Shows
  <2>7. pointer' # None => pointer'.m = d.m
    BY <1>1, <1>2, <2>2, <2>3, <2>4 DEF Sure, PointerLife
  <2>8. ~LostKill(d.m)'
    BY <1>1, <1>2, <1>5, <2>4 DEF Sure, Life, LostKill
  <2>9. net'.discard.m = d.m /\ net'.discard.answer = "none" => net'.discard.was = d.m
    BY <1>1, <1>2, <1>5, <2>4 DEF Sure, Life
  <2> QED
    BY <1>1, <1>2, <1>5, <2>5, <2>6, <2>7, <2>8, <2>9, HeldSure
<1> QED
  BY <1>6, <1>7 DEF AnswerDetail, WholeDetail, ClientsDetail

\* A handler of a page that is gone touches the pointer, and a page it opens or closes.
LEMMA AnswerLateSure ==
    ASSUME KindsInv, ~unsure => Sure, NEW r \in net.lost, AnswerLate(r), ~unsure'
    PROVE  Sure'
<1>1. PICK others : others = [net EXCEPT !.lost = @ \ {r}]
  OBVIOUS
<1>2. /\ others \in Nets(Known(server)) /\ others.lost = net.lost \ {r}
      /\ others.create = net.create /\ others.patches = net.patches
      /\ others.details = net.details /\ others.cancel = net.cancel
      /\ others.discard = net.discard /\ others.submit = net.submit
  BY <1>1, OthersAre
<1>3. r.kind = "answered" /\ pointer' = None /\ server' = server
  BY DEF AnswerLate
<1>4. ASSUME Sure, net' = others,
             wiz'.open <=> wiz.open, wiz'.m = wiz.m, wiz'.form = wiz.form,
             wiz'.synced = wiz.synced, wiz'.modal = wiz.modal, wiz'.error = wiz.error,
             wiz'.patchTimer <=> wiz.patchTimer
      PROVE  Sure'
  <2>1. Unanswered(net) /\ \A x : LostKill(x)' => LostKill(x)
    BY <1>2, <1>3, <1>4 DEF Unanswered, LostKill
  <2>2. FormAlone' /\ PatchAlone' /\ ModalLife'
    BY <1>2, <1>4 DEF Sure, FormAlone, PatchAlone, ModalLife
  <2>3. CreateAlone'
    BY <1>2, <1>3, <1>4, <2>1 DEF Sure, CreateAlone
  <2>4. DetailAlone'
    BY <1>2, <1>3, <1>4, <2>1 DEF Sure, DetailAlone
  <2>5. Life'
    BY <1>2, <1>3, <1>4, <2>1 DEF Sure, Life, ResetPending
  <2>6. HeaderLife'
    BY <1>2, <1>3, <1>4 DEF Sure, HeaderLife
  <2>7. TimerLife'
    BY <1>2, <1>3, <1>4 DEF Sure, TimerLife, HeaderInFlight
  <2> QED
    BY <1>3, <2>2, <2>3, <2>4, <2>5, <2>6, <2>7 DEF Sure, PointerLife
<1>5. ASSUME wiz'.m = 0, wiz'.modal = 0, wiz'.form = EmptyForm, NobodyWaits(net'),
             wiz'.open => net'.patches = {}
      PROVE  Sure'
  <2>1. wiz'.form.type # TwoClients
    BY <1>5, EmptyFormIs, TypesAre
  <2> QED
    BY <1>3, <1>5, <2>1 DEF Sure, FormAlone, CreateAlone, PatchAlone, DetailAlone, Life, PointerLife,
       HeaderLife, TimerLife, ModalLife, NobodyWaits
<1>6. CASE net' = others /\ UNCHANGED <<wiz, unsure>>
  BY <1>4, <1>6
<1>7. CASE wiz' = Closed /\ net' = Abandoned(others)
  <2>1. NobodyWaits(net')
    BY <1>2, <1>7, AbandonedIs
  <2>2. wiz'.m = 0 /\ wiz'.modal = 0 /\ wiz'.form = EmptyForm /\ ~wiz'.open
    BY <1>7 DEF Closed
  <2> QED
    BY <1>5, <2>1, <2>2
<1>8. CASE /\ wiz.open /\ wiz' = Rendered(wiz, [wiz EXCEPT !.token = FALSE, !.resume = 0])
           /\ net' = others /\ UNCHANGED unsure
  <2>1. PICK new : new = [wiz EXCEPT !.token = FALSE, !.resume = 0]
    OBVIOUS
  <2>2. /\ wiz'.open /\ wiz'.m = wiz.m /\ wiz'.form = wiz.form /\ wiz'.synced = wiz.synced
        /\ wiz'.modal = wiz.modal /\ wiz'.error = wiz.error
        /\ (wiz'.patchTimer <=> wiz.patchTimer)
    BY <1>8, <2>1, UnstatedIs
  <2> QED
    BY <1>4, <1>8, <2>2
<1>9. CASE /\ wiz' = [Closed EXCEPT !.open = TRUE] /\ net' = Fetching(Abandoned(others))
           /\ unsure' = (HeaderInFlight \/ Unanswered(net'))
  <2>1. PICK a : a = Abandoned(others)
    OBVIOUS
  <2>2. others.patches = {}
    BY <1>2, <1>9 DEF HeaderInFlight
  <2>3. a \in Nets(Known(server)) /\ NobodyWaits(a) /\ a.patches = {}
    BY <1>2, <2>1, <2>2, AbandonedIs
  <2>4. /\ net'.create = None /\ net'.patches = {} /\ net'.details = {}
        /\ net'.cancel = None /\ net'.discard = None /\ net'.submit = None
    BY <1>9, <2>1, <2>3, FetchingIs DEF NobodyWaits
  <2>5. wiz'.m = 0 /\ wiz'.modal = 0 /\ wiz'.form = EmptyForm
    BY <1>9, BlankIs
  <2>6. wiz'.form.type # TwoClients
    BY <2>5, EmptyFormIs, TypesAre
  <2> QED
    BY <1>3, <2>4, <2>5, <2>6 DEF Sure, FormAlone, CreateAlone, PatchAlone, DetailAlone, Life,
       PointerLife, HeaderLife, TimerLife, ModalLife
<1> QED
  BY <1>1, <1>6, <1>7, <1>8, <1>9 DEF AnswerLate

LEMMA SureInit == ASSUME WizardInit PROVE Sure
<1>1. wiz = Closed /\ net = Silent
  BY DEF WizardInit
<1>2. /\ wiz.m = 0 /\ wiz.modal = 0 /\ wiz.form = EmptyForm /\ ~wiz.open
      /\ net.create = None /\ net.details = {} /\ net.lost = {}
  BY <1>1 DEF Closed, Silent
<1>3. wiz.form.type # TwoClients
  BY <1>2, EmptyFormIs, TypesAre
<1>4. pointer # None => server[pointer.m].status = "BORRADOR"
  <2>1. pointer = None \/ \E x \in Existing : pointer = [m |-> x, form |-> FormOf(server[x].header)]
    BY DEF WizardInit
  <2> QED
    BY <2>1 DEF Existing
<1>5. PointerLife
  BY <1>2, <1>4 DEF PointerLife, LostKill
<1> QED
  BY <1>2, <1>3, <1>5 DEF Sure, FormAlone, CreateAlone, PatchAlone, DetailAlone, Life, HeaderLife,
     TimerLife, ModalLife

LEMMA SureNext ==
    ASSUME WizardInv, [WizardNext]_wizardVars, ~unsure'
    PROVE  Sure'
<1> USE DEF WizardInv
<1>1. CASE UNCHANGED wizardVars
  <2>1. Sure /\ UNCHANGED <<server, wiz, net, pointer>>
    BY <1>1 DEF wizardVars
  <2>2. FormAlone' /\ CreateAlone' /\ PatchAlone' /\ ModalLife'
    BY <2>1 DEF Sure, FormAlone, CreateAlone, PatchAlone, ModalLife, LostKill
  <2>3. DetailAlone' /\ Life'
    BY <2>1 DEF Sure, DetailAlone, Life, LostKill, ResetPending, NobodyEnds, Unanswered
  <2>4. PointerLife'
    BY <2>1 DEF Sure, PointerLife, LostKill, NobodyEnds, Unanswered
  <2>5. HeaderLife' /\ TimerLife'
    BY <2>1 DEF Sure, HeaderLife, TimerLife, HeaderInFlight
  <2> QED
    BY <2>2, <2>3, <2>4, <2>5 DEF Sure
<1>2. CASE User
  <2>1. CASE Menu \/ ReloadPage \/ Leave
    BY <2>1, MenuSure, ReloadSure, LeaveSure
  <2>2. CASE ConfirmClear \/ Revert \/ CancelDraft \/ Submit
    BY <2>2, ConfirmClearSure, RevertSure, CancelDraftSure, SubmitSure
  <2>3. CASE SaveDraft
    <3>1. Sure
      BY <2>3, KindsFacts DEF SaveDraft, Acting
    <3> QED
      BY <2>3, <3>1, SaveDraftSure
  <2>4. ASSUME NEW m \in Movements \cup {0}, Enter(m) PROVE Sure'
    BY <2>4, EnterSure
  <2>5. ASSUME NEW type \in Types \cup {""}, EditType(type) PROVE Sure'
    BY <2>5, EditTypeSure
  <2>6. ASSUME NEW c \in Chosen, EditClient(c) PROVE Sure'
    BY <2>6, EditClientSure
  <2>7. ASSUME NEW item \in wiz.list, Resume(item) \/ DiscardListed(item) PROVE Sure'
    BY <2>7, ResumeSure, DiscardListedSure
  <2> QED
    BY <1>2, <2>1, <2>2, <2>3, <2>4, <2>5, <2>6, <2>7 DEF User
<1>3. CASE System
  <2>1. CASE AnswerCreate \/ SendPatch \/ AnswerDiscard \/ AnswerCancel \/ AnswerSubmit
    BY <2>1, AnswerCreateSure, SendPatchSure, AnswerDiscardSure, AnswerCancelSure, AnswerSubmitSure
  <2>2. CASE SendCreate \/ RefuseCreate \/ CreateTimeout \/ AnswerFetch
    <3>1. Sure
      BY <2>2 DEF SendCreate, RefuseCreate, CreateTimeout, AnswerFetch
    <3> QED
      BY <2>2, <3>1, SendCreateSure, RefuseCreateSure, CreateTimeoutSure, AnswerFetchSure
  <2>3. CASE ServeDiscard \/ ServeCancel \/ ServeSubmit
    BY <2>3, ServeDiscardSure, ServeCancelSure, ServeSubmitSure
  <2>4. ASSUME NEW m \in Movements, NEW ok \in BOOLEAN, ServeCreate(m, ok) PROVE Sure'
    <3>1. Sure
      BY <2>4 DEF ServeCreate
    <3> QED
      BY <2>4, <3>1, ServeCreateSure
  <2>5. ASSUME NEW p \in net.patches, ServePatch(p) PROVE Sure'
    BY <2>5, ServePatchSure
  <2>6. ASSUME NEW p \in net.patches, AnswerPatch(p) PROVE Sure'
    <3>1. Sure
      BY <2>6 DEF AnswerPatch
    <3> QED
      BY <2>6, <3>1, AnswerPatchSure
  <2>7. ASSUME NEW d \in net.details, ServeDetail(d) PROVE Sure'
    BY <2>7, ServeDetailSure
  <2>8. ASSUME NEW d \in net.details, AnswerDetail(d) PROVE Sure'
    BY <2>8, AnswerDetailSure
  <2>9. ASSUME NEW r \in net.lost, ServeLost(r) PROVE Sure'
    <3>1. Sure
      BY <2>9 DEF ServeLost
    <3> QED
      BY <2>9, <3>1, ServeLostSure
  <2>10. ASSUME NEW r \in net.lost, AnswerLate(r) PROVE Sure'
    BY <2>10, AnswerLateSure
  <2> QED
    BY <1>3, <2>1, <2>2, <2>3, <2>4, <2>5, <2>6, <2>7, <2>8, <2>9, <2>10 DEF System
<1> QED
  BY <1>1, <1>2, <1>3 DEF WizardNext

LEMMA WizardInvAlways == WizardSpec => []WizardInv
<1>1. WizardInit => WizardInv
  BY KindsInit, SureInit DEF WizardInv
<1>2. WizardInv /\ [WizardNext]_wizardVars => WizardInv'
  BY KindsNext, SureNext DEF WizardInv
<1> QED
  BY <1>1, <1>2, PTL DEF WizardSpec

\* When the wizard is at rest after a user who waited, the header on the screen
\* is the one the server has: the form equals what was last synced because a
\* difference would have armed the PATCH, and what was last synced is the
\* server's because every answer that changed one changed the other
\* (lastSyncedHeaderRef and the effects around it).
THEOREM ShownIsStoredAlways == WizardSpec => []ShownIsStored
<1>1. WizardInv => ShownIsStored
  <2>1. SUFFICES ASSUME WizardInv, Quiet, ~unsure, wiz.open, wiz.m # 0, ~wiz.error, wiz.modal = 0
                 PROVE  server[wiz.m].header = HeaderOf(wiz.form)
    BY DEF ShownIsStored
  <2>2. KindsInv /\ Sure
    BY <2>1 DEF WizardInv
  <2>3. server[wiz.m].status = "BORRADOR"
    BY <2>1, <2>2, NamesAre DEF Quiet, Sure, Life, ResetPending
  <2>4. server[wiz.m].header = wiz.synced
    BY <2>1, <2>2, <2>3 DEF Quiet, Sure, HeaderLife
  <2>5. HeaderOf(wiz.form) = wiz.synced
    BY <2>1, <2>2, <2>3 DEF Quiet, Sure, TimerLife, HeaderInFlight
  <2> QED
    BY <2>4, <2>5
<1> QED
  BY <1>1, WizardInvAlways, PTL

\* The wizard's records hold what they should; at rest, the draft held and the
\* draft of the session's pointer are open; and a payload is given up for the
\* draft the dialog was opened about (resetWizard, confirmClearOpen).
THEOREM DraftInHandAlways == WizardSpec => []DraftInHand
<1>1. WizardInv => DraftInHand
  <2>1. SUFFICES ASSUME WizardInv
                 PROVE  DraftInHand
    OBVIOUS
  <2>2. KindsInv /\ (~unsure => Sure)
    BY <2>1 DEF WizardInv
  <2>3. WizardTypes
    BY <2>2, KindsAreTypes
  <2>4. HoldsAnOpenDraft
    <3>1. SUFFICES ASSUME Quiet, Sure
                   PROVE  /\ wiz.m # 0 => server[wiz.m].status = "BORRADOR"
                          /\ pointer # None => server[pointer.m].status = "BORRADOR"
      BY <2>2 DEF HoldsAnOpenDraft
    <3>2. wiz.m # 0 => server[wiz.m].status = "BORRADOR"
      BY <2>2, <3>1, NamesAre DEF Quiet, Sure, Life, ResetPending
    <3>3. pointer # None => server[pointer.m].status = "BORRADOR"
      BY <3>1, <3>2 DEF Sure, PointerLife
    <3> QED
      BY <3>2, <3>3
  <2>5. ConsentIsForThisDraft
    <3>1. SUFFICES ASSUME NEW p \in net.patches, p.latest, p.confirm, Sure
                   PROVE  p.m = p.modal
      BY <2>2 DEF ConsentIsForThisDraft
    <3>2. wiz.open
      BY <2>2, <3>1, WaitingIsOpen
    <3> QED
      BY <3>1, <3>2 DEF Sure, PatchAlone
  <2> QED
    BY <2>3, <2>4, <2>5 DEF DraftInHand
<1> QED
  BY <1>1, WizardInvAlways, PTL
=============================================================================
