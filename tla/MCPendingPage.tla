--------------------------- MODULE MCPendingPage ---------------------------
(***************************************************************************)
(* An instance of PendingPage for TLC: two items of one movement, the      *)
(* second on an account that is no longer active, and room for one more.   *)
(***************************************************************************)
EXTENDS PendingPage

MCOffers ==
    [p \in Accounts \X Currencies |->
        CASE p = <<"caja", "ars">> -> {"CASH", "DIGITAL"}
          [] p = <<"caja", "usd">> -> {"CASH"}
          [] p = <<"bank", "ars">> -> {"DIGITAL"}
          [] OTHER -> {}]

MCItem(status, account, cc) ==
    [status |-> status, amount |-> 2, cc |-> cc, account |-> account, currency |-> "ars"]

MCStart == [p1 |-> MCItem("ABIERTO", "caja", TRUE), p2 |-> MCItem("ABIERTO", "old", FALSE),
            p3 |-> MCItem("NO_ROW", "", FALSE)]

MCMovement == [p1 |-> "m1", p2 |-> "m1", p3 |-> "m2"]
=============================================================================
