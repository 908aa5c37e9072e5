------------------------------ MODULE MCWizard ------------------------------
(***************************************************************************)
(* Instances of Wizard for TLC.                                            *)
(***************************************************************************)
EXTENDS Wizard

\* Every header, but for the names of the clients: the first to be named is ana.
NamedInOrder ==
    {h \in Headers : h.client # "bea" /\ (h.client = "" => h.cost # "bea")}
=============================================================================
