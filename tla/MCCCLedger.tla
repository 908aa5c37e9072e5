---- MODULE MCCCLedger ----
(***************************************************************************)
(* Instances of CCLedger for TLC.                                          *)
(***************************************************************************)
EXTENDS CCLedger, TLC

\* An account in debt, one in credit, and both sizes of an adjustment.
DebtAndCredit == {-1, 2}
UpAndDown == {-1, 1}
====
