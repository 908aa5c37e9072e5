----------------------------- MODULE Permissions -----------------------------
(***************************************************************************)
(* Who may do what: PermissionsService, UserPermissionsService, their      *)
(* repositories and RequirePermission.                                     *)
(*                                                                         *)
(* Three pieces of code answer the same question.  Every route asks        *)
(* ResolvePermission with the role of the token; the client asks for the   *)
(* list of what its session may do; and the screen of permissions shows a  *)
(* matrix of a user, with the role of the row.  The tables may be missing, *)
(* empty, or hold keys that the catalogue of the program does not, and the *)
(* reverse; every service is written to go on without them.                *)
(***************************************************************************)
EXTENDS FiniteSets

CONSTANTS
    Users,
    Roles,      \* what users.role may hold; Create and Update accept any
    Keys,       \* keys of permissions
    Known,      \* permissionCatalog
    Fallback    \* fallbackRolePermissions, a set of known keys for each valid role

ValidRoles == DOMAIN Fallback

VARIABLES
    tables,    \* whether permissions, role_permissions and user_permissions exist
    catalog,   \* permissions: its keys
    ofRole,    \* role_permissions, by role and key
    ofUser,    \* user_permissions, by user and key
    role,      \* users.role
    token      \* the role in the token a user holds, or "NONE"

vars == <<tables, catalog, ofRole, ofUser, role, token>>

Rows == {"NO_ROW", "ALLOWED", "DENIED"}
Row(allowed) == IF allowed THEN "ALLOWED" ELSE "DENIED"

TypeOK ==
    /\ tables \in BOOLEAN
    /\ catalog \subseteq Keys
    /\ ofRole \in [ValidRoles -> [Keys -> Rows]]
    /\ ofUser \in [Users -> [Keys -> Rows]]
    /\ role \in [Users -> Roles]
    /\ token \in [Users -> Roles \cup {"NONE"}]
    \* Foreign keys.
    /\ \A k \in Keys \ catalog :
          /\ \A r \in ValidRoles : ofRole[r][k] = "NO_ROW"
          /\ \A u \in Users : ofUser[u][k] = "NO_ROW"

Init ==
    /\ tables \in BOOLEAN
    /\ catalog \in SUBSET (IF tables THEN Keys ELSE {})
    /\ ofRole \in [ValidRoles -> [Keys -> Rows]]
    /\ \A r \in ValidRoles, k \in Keys \ catalog : ofRole[r][k] = "NO_ROW"
    /\ ofUser = [u \in Users |-> [k \in Keys |-> "NO_ROW"]]
    /\ role \in [Users -> Roles]
    /\ token = [u \in Users |-> "NONE"]

-----------------------------------------------------------------------------
(* What is enforced                                                        *)

FallbackAllows(r, k) == r \in ValidRoles /\ k \in Fallback[r]

\* The queries of a request, of which any may fail; a missing table is no failure.
Queries == {"USER", "ROLE"}

\* CheckPermission, which knows nothing without tables, of a key that is not
\* stored, or without a row; an invalid role is an error too.
CheckPermission(r, k, failing) ==
    CASE r \notin ValidRoles \/ "ROLE" \in failing -> "ERROR"
      [] r \in ValidRoles /\ "ROLE" \notin failing /\ (~tables \/ ofRole[r][k] = "NO_ROW") ->
            "UNKNOWN"
      [] OTHER -> ofRole[r][k]

\* ResolvePermission: the user, then the role, then the fallback.
ResolvePermission(u, r, k, failing) ==
    IF "USER" \in failing THEN "ERROR"
    ELSE IF tables /\ ofUser[u][k] # "NO_ROW" THEN ofUser[u][k]
    ELSE IF CheckPermission(r, k, failing) = "UNKNOWN" THEN Row(FallbackAllows(r, k))
    ELSE CheckPermission(r, k, failing)

\* RequirePermission: the roles of the route count only after an error, and then
\* whatever the tables say.
RequirePermission(u, k, routeRoles, failing) ==
    CASE ResolvePermission(u, token[u], k, failing) = "ALLOWED" -> TRUE
      [] ResolvePermission(u, token[u], k, failing) = "DENIED" -> FALSE
      [] OTHER -> token[u] \in routeRoles

-----------------------------------------------------------------------------
(* What is shown                                                           *)

\* Without tables, or with an empty one, the catalogue of the program.
ListCatalog == IF tables /\ catalog # {} THEN catalog ELSE Known

\* Mutant of RoleMatrix: a key without a row is shown as denied.
RoleMatrixWithoutFallback(r) ==
    [k \in ListCatalog |-> tables /\ ofRole[r][k] = "ALLOWED"]

\* GetRoleMatrix, over the same keys.
RoleMatrix(r) ==
    [k \in ListCatalog |->
        IF tables /\ ofRole[r][k] # "NO_ROW" THEN ofRole[r][k] = "ALLOWED" ELSE k \in Fallback[r]]

\* GetUserPermissionMatrix, of a user whose role is valid.
UserMatrix(u) ==
    [k \in ListCatalog |->
        IF tables /\ ofUser[u][k] # "NO_ROW" THEN ofUser[u][k] = "ALLOWED"
        ELSE RoleMatrix(role[u])[k]]

\* GetEffectivePermissions, which fails if one key does, so what it answers no query
\* failed for.
ListsEffective(u) == \A k \in ListCatalog : ResolvePermission(u, token[u], k, {}) # "ERROR"

EffectivePermissions(u) ==
    {k \in ListCatalog : ResolvePermission(u, token[u], k, {}) = "ALLOWED"}

-----------------------------------------------------------------------------
(* Updates                                                                 *)

\* Rows of a table with the updates over them.
Upserted(rows, updates) ==
    [k \in Keys |-> IF k \in DOMAIN updates THEN Row(updates[k]) ELSE rows[k]]

\* UpdateRolePermissions ignores the keys the program does not know; a key the
\* table does not know fails the transaction.
UpdateRolePermissions(r, updates) ==
    LET kept == [k \in DOMAIN updates \cap Known |-> updates[k]]
    IN /\ tables
       /\ DOMAIN kept # {}
       /\ DOMAIN kept \subseteq catalog
       /\ ofRole' = [ofRole EXCEPT ![r] = Upserted(@, kept)]
       /\ UNCHANGED <<tables, catalog, ofUser, role, token>>

\* UpsertUserPermissions reads the matrix first, which fails for an invalid role.
UpsertUserPermissions(u, updates) ==
    /\ role[u] \in ValidRoles
    /\ tables
    /\ DOMAIN updates # {} /\ DOMAIN updates \subseteq catalog
    /\ ofUser' = [ofUser EXCEPT ![u] = Upserted(@, updates)]
    /\ UNCHANGED <<tables, catalog, ofRole, role, token>>

ClearUserOverrides(u) ==
    /\ role[u] \in ValidRoles
    /\ tables
    /\ ofUser' = [ofUser EXCEPT ![u] = [k \in Keys |-> "NO_ROW"]]
    /\ UNCHANGED <<tables, catalog, ofRole, role, token>>

\* UserService.Update and a login, as to the role; a token keeps the role it
\* was issued with until it expires.
ChangeRole(u, r) ==
    /\ role' = [role EXCEPT ![u] = r]
    /\ UNCHANGED <<tables, catalog, ofRole, ofUser, token>>

Login(u) ==
    /\ token' = [token EXCEPT ![u] = role[u]]
    /\ UNCHANGED <<tables, catalog, ofRole, ofUser, role>>

Expire(u) ==
    /\ token[u] # "NONE"
    /\ token' = [token EXCEPT ![u] = "NONE"]
    /\ UNCHANGED <<tables, catalog, ofRole, ofUser, role>>

Updates == UNION {[ks -> BOOLEAN] : ks \in SUBSET Keys}

Next ==
    \/ \E updates \in Updates :
          \/ \E r \in ValidRoles : UpdateRolePermissions(r, updates)
          \/ \E u \in Users : UpsertUserPermissions(u, updates)
    \/ \E u \in Users :
          \/ ClearUserOverrides(u)
          \/ \E r \in Roles : ChangeRole(u, r)
          \/ Login(u)
          \/ Expire(u)

Spec == Init /\ [][Next]_vars

-----------------------------------------------------------------------------
\* What the screen shows of a user is what every route enforces, whatever the
\* roles the route falls back to, while the token is of the role of the row;
\* and the list the client works with is what the routes let it do
\* (user_permissions_service.go, USER | ROLE | FALLBACK).  The exception is a
\* request whose resolution ends in an error: then the roles of the route
\* decide, whatever is shown.  What a user was granted or denied is enforced as
\* long as the query of its own table is answered.
ViewsAgree ==
    \A u \in Users, routeRoles \in SUBSET Roles, failing \in SUBSET Queries :
        token[u] # "NONE" =>
            \A k \in ListCatalog :
                LET resolved == ResolvePermission(u, token[u], k, failing) # "ERROR"
                    lets     == RequirePermission(u, k, routeRoles, failing)
                IN /\ resolved /\ role[u] = token[u] /\ role[u] \in ValidRoles =>
                         UserMatrix(u)[k] = lets
                   /\ resolved /\ ListsEffective(u) => (k \in EffectivePermissions(u) <=> lets)
                   /\ tables /\ ofUser[u][k] # "NO_ROW" /\ "USER" \notin failing => resolved

\* Types, foreign keys, and the agreement.
PermissionsInv == TypeOK /\ ViewsAgree
=============================================================================
