---------------------------- MODULE AccessControl ----------------------------
(***************************************************************************)
(* Who is let in and what for: the users of Access beside the permissions  *)
(* of Permissions.  They share no row that either would see the other      *)
(* write: grantee is the role of a user as the permissions read it, and    *)
(* changes at any time.                                                    *)
(***************************************************************************)
EXTENDS Access

CONSTANTS
    RoleNames,  \* what users.role may hold, roles that are not valid included
    Keys,       \* see Permissions
    Known,
    Fallback

VARIABLES tables, catalog, ofRole, ofUser, grantee, token

rightVars == <<tables, catalog, ofRole, ofUser, grantee, token>>

\* Every key of permissionCatalog may have a row.
ASSUME CatalogIsFit == Known \subseteq Keys

Rights == INSTANCE Permissions WITH Roles <- RoleNames, role <- grantee

\* The readers of the permissions agree (user_permissions_service.go); see
\* Permissions.
PermissionsInv == Rights!PermissionsInv
=============================================================================
