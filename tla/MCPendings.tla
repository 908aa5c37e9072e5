---- MODULE MCPendings ----
(***************************************************************************)
(* Instances of Pendings for TLC.                                          *)
(***************************************************************************)
EXTENDS Pendings, TLC

\* Movements are interchangeable, and so are requests; clients are not,
\* because NoHeader chooses one.
Symmetry == Permutations(Movements) \cup Permutations(Requests)
====
