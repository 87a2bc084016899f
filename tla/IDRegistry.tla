----------------------------- MODULE IDRegistry -----------------------------
(***************************************************************************)
(* What the ingestion of packages promises to its clients, whatever the    *)
(* interleaving: every node keeps the ID it gets, no two nodes share one,  *)
(* a node is only created below a node that exists, and every answer to a  *)
(* package is the chain of the IDs of its nodes.  A node is named by its   *)
(* level, the ID of its parent (0 at the top) and its segment.             *)
(***************************************************************************)
EXTENDS Naturals

CONSTANT Depth  \* number of levels of a package

VARIABLES
  reg,      \* the ID of every node that has one
  answers   \* every <<package, IDs>> returned

vars == <<reg, answers>>

Assigned == {reg[k] : k \in DOMAIN reg}

Init ==
  /\ reg = [k \in {} |-> k]
  /\ answers = {}

(* Node k, new, gets an ID that no other node has.                         *)
Assign(k) ==
  /\ reg'[k] \notin Assigned
  /\ k[1] = 1 \/ k[2] \in Assigned
  /\ reg' = [x \in DOMAIN reg \cup {k} |-> IF x = k THEN reg'[k] ELSE reg[x]]

(* ids are the IDs that registry r holds for the nodes of package p.       *)
ChainIn(r, p, ids) ==
  \A l \in 1..Depth :
    LET k == <<l, IF l = 1 THEN 0 ELSE ids[l - 1], p[l]>>
    IN k \in DOMAIN r /\ r[k] = ids[l]

Answer(a) ==
  /\ ChainIn(reg', a[1], a[2])
  /\ answers' = answers \cup {a}

Next ==
  /\ UNCHANGED reg \/ \E k \in DOMAIN reg' \ DOMAIN reg : Assign(k)
  /\ UNCHANGED answers \/ \E a \in answers' \ answers : Answer(a)

Spec == Init /\ [][Next]_vars
=============================================================================
