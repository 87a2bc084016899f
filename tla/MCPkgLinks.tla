----------------------------- MODULE MCPkgLinks -----------------------------
(* Small instances of PkgLinks for TLC.                                    *)
EXTENDS PkgLinks, TLC

CONSTANTS t1, t2, v1, v2, s1, s2

(* Two versions of one package: a name node with two children.  Two levels *)
(* stand for all four: only the lowest two carry links.                    *)
TwoVersions == {<<"a", s1>>, <<"a", s2>>}

(* Two requests may name the packages in opposite orders.                  *)
MCEvidence ==
  [kind : {"pkgEqual"}, pkgs : {<<p, q>> \in TwoVersions \X TwoVersions : p # q}] \cup
  [kind : {"certifyBad"}, pkgs : {<<p>> : p \in TwoVersions}]

(* Requests are interchangeable, and so are the two versions.              *)
Symmetry ==
  Permutations(Threads) \cup Permutations(VerbThreads) \cup Permutations({s1, s2})
=============================================================================
