---------------------------- MODULE MCPathQuery ----------------------------
(* Small instances of PathQuery for TLC.                                   *)
EXTENDS PathQuery, TLC

CONSTANTS n1, n2, n3, n4

(* Every graph; every graph without a node that is its own neighbour.      *)
AllGraphs == [Nodes -> SUBSET Nodes]
LoopFree  == {g \in AllGraphs : \A n \in Nodes : n \notin g[n]}

UpTo3 == 1..3
UpTo4 == 0..4

(* Nodes are interchangeable.                                              *)
Symmetry == Permutations(Nodes)
=============================================================================
