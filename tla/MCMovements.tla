---- MODULE MCMovements ----
(***************************************************************************)
(* Instances of Movements for TLC.                                         *)
(***************************************************************************)
EXTENDS Movements, TLC

\* What an execution posts: a credit and a debit of different size.
BothSigns == {-1, 2}
OneAmount == {1}

\* Movements are interchangeable, and so are requests; clients and types are
\* not, because NoHeader chooses one of each.
Symmetry == Permutations(Movements) \cup Permutations(Requests)
====
