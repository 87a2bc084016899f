----------------------------- MODULE MCListPages ------------------------------
EXTENDS ListPages

(* Two parents of one type, whose ID is 3, and one of another.             *)
MCTypeID == <<3, 3, 5>>
=============================================================================
