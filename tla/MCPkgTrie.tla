----------------------------- MODULE MCPkgTrie -----------------------------
(* Small instances of PkgTrie for TLC.                                     *)
EXTENDS PkgTrie, TLC

CONSTANTS t1, t2, t3

(* Two versions of one package and a second name in the same namespace:    *)
(* siblings at the two lowest levels, shared nodes at all upper ones.      *)
TwoVersions == {<<"pypi", "ns", "a", "1">>, <<"pypi", "ns", "a", "2">>}
Siblings == TwoVersions \cup {<<"pypi", "ns", "b", "1">>}

(* Requests are interchangeable.                                           *)
Symmetry == Permutations(Threads)
=============================================================================
