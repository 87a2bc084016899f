------------------------------ MODULE MCPipeline ------------------------------
EXTENDS Pipeline, TLC

CONSTANTS c1, c2, d1, d2, w1, w2, k1, k2

(* A document of packages from one collector, from the other a tree of two nodes,     *)
(* which are both SBOMs.  The nouns of the first are left out.                        *)
MCPredicates == d1 :> <<{"Packages"}>>
             @@ d2 :> <<{"IsDependency", "HasSBOM"}, {"Packages", "HasSBOM"}>>
MCWork  == c1 :> <<d1>> @@ c2 :> <<d2>>
MCKeyOf == d1 :> k1 @@ d2 :> k2
=============================================================================
