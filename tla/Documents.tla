------------------------------ MODULE Documents -------------------------------
(***************************************************************************)
(* The documents that flow from the collectors to the graph.  What is in   *)
(* a document matters only as far as the other modules tell documents      *)
(* apart: the blob it was made from, whose hash is its key, and the kinds  *)
(* of nodes and evidence its parser finds in it.                           *)
(***************************************************************************)
CONSTANT Docs
=============================================================================
