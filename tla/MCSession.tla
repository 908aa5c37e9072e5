----------------------------- MODULE MCSession -----------------------------
(***************************************************************************)
(* Instances of Session for TLC: an operator and a courier on two tabs.    *)
(***************************************************************************)
EXTENDS Session

MCRoleOf == [u \in Users |-> IF u = "courier" THEN "COURIER" ELSE "OPERATOR"]

\* One user has more than the fallback of her role, the other has less.
MCGranted == [u \in Users |->
    IF u = "courier" THEN {"pending.view", "users.view"} ELSE {"pending.view"}]
=============================================================================
