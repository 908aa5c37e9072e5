---- MODULE MCFxInventory ----
(***************************************************************************)
(* Instances of FxInventory for TLC.                                       *)
(***************************************************************************)
EXTENDS FxInventory, TLC

\* Movements are interchangeable, and so are annulments.
Symmetry == Permutations(Movements) \cup Permutations(Annulments)
====
