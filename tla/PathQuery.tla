----------------------------- MODULE PathQuery -----------------------------
(***************************************************************************)
(* The path query of the keyvalue backend                                  *)
(* (pkg/assembler/backends/keyvalue/path.go): a breadth-first search from  *)
(* one node of the GUAC graph to another, along the neighbours that the    *)
(* allowed edges give, up to a depth.                                      *)
(*                                                                         *)
(* The search runs under the read lock (module BackendLock), so the graph  *)
(* stands still.  One step is one round of the search loop, or of the loop *)
(* that follows the parents back from the target.                          *)
(***************************************************************************)
EXTENDS Naturals, Sequences, FiniteSets

CONSTANTS
  Nodes,    \* IDs of the nodes of the graph
  NoNode,   \* the parent of the node the search starts from
  Graphs,   \* the graphs searched: functions from Nodes to sets of Nodes
  Lengths   \* the maxPathLength arguments

ASSUME PathAssumption ==
  /\ IsFiniteSet(Nodes)
  /\ NoNode \notin Nodes
  /\ Graphs \subseteq [Nodes -> SUBSET Nodes]
  /\ Lengths \subseteq Nat

VARIABLES
  neighbors,         \* the graph
  from, to, maxLength, \* the arguments of the query
  pc,                \* "search", "build", or the outcome: see Outcomes
  queue,             \* nodes to visit; a node may be there more than once
  nodeMap,           \* nodes seen: expanded, parent, depth
  path               \* the path, from its end on

args == <<neighbors, from, to, maxLength>>
vars == <<neighbors, from, to, maxLength, pc, queue, nodeMap, path>>

Outcomes == {"found", "notFound", "error"}
dfsNode  == [expanded : BOOLEAN, parent : Nodes \cup {NoNode}, depth : Nat]

Init ==
  /\ neighbors \in Graphs
  /\ from \in Nodes /\ to \in Nodes
  /\ maxLength \in Lengths
  /\ pc = "search"
  /\ queue = <<from>>
  /\ nodeMap = [n \in {from} |->
                  [expanded |-> FALSE, parent |-> NoNode, depth |-> 0]]
  /\ path = <<>>

(* The node visited in this round.                                         *)
now == Head(queue)
-----------------------------------------------------------------------------
Visit == pc = "search" /\ queue # <<>>

Found ==
  /\ Visit
  /\ now = to
  /\ pc' = "build"
  /\ path' = <<to>>
  /\ queue' = Tail(queue)
  /\ UNCHANGED <<args, nodeMap>>

(* Definitions named "...Bug" are faults that the properties below must    *)
(* tell from the code; nothing uses them.                                  *)

(* The break ends the whole search, whatever is left in the queue.         *)
AtLimitSoonBug == nodeMap[now].depth + 1 >= maxLength
AtLimitLateBug == nodeMap[now].depth > maxLength
AtLimit == nodeMap[now].depth >= maxLength

Limit ==
  /\ Visit
  /\ now # to
  /\ AtLimit
  /\ pc' = "notFound"
  /\ queue' = Tail(queue)
  /\ UNCHANGED <<args, nodeMap, path>>

New == neighbors[now] \ DOMAIN nodeMap
Unexpanded == New \cup {n \in neighbors[now] \cap DOMAIN nodeMap :
                          ~nodeMap[n].expanded}

(* All orders of a set.                                                    *)
Orders(S) == {s \in [1..Cardinality(S) -> S] :
                \A i, j \in DOMAIN s : s[i] = s[j] => i = j}

SeenBug ==
  [n \in DOMAIN nodeMap \cup New |->
     [expanded |-> n = now \/ (n \notin New /\ nodeMap[n].expanded),
      parent |-> IF n \in Unexpanded THEN now ELSE nodeMap[n].parent,
      depth |-> IF n \in New THEN nodeMap[now].depth + 1 ELSE nodeMap[n].depth]]
Seen ==
  [n \in DOMAIN nodeMap \cup New |->
     IF n \in New
     THEN [expanded |-> FALSE, parent |-> now, depth |-> nodeMap[now].depth + 1]
     ELSE IF n = now THEN [nodeMap[n] EXCEPT !.expanded = TRUE] ELSE nodeMap[n]]

ExpandBug ==
  /\ Visit
  /\ now # to
  /\ ~AtLimit
  /\ nodeMap' = Seen
  /\ \E next \in Orders(neighbors[now]) : queue' = Tail(queue) \o next
  /\ UNCHANGED <<args, pc, path>>
Expand ==
  /\ Visit
  /\ now # to
  /\ ~AtLimit
  /\ nodeMap' = Seen
  /\ \E next \in Orders(Unexpanded) : queue' = Tail(queue) \o next
  /\ UNCHANGED <<args, pc, path>>

(* neighborsFromId fails: a backlink without a link, a store out of reach. *)
ExpandFails ==
  /\ Visit
  /\ now # to
  /\ ~AtLimit
  /\ pc' = "error"
  /\ queue' = Tail(queue)
  /\ UNCHANGED <<args, nodeMap, path>>

Exhausted ==
  /\ pc = "search"
  /\ queue = <<>>
  /\ pc' = "notFound"
  /\ UNCHANGED <<args, queue, nodeMap, path>>

(* From the target back along the parents.                                 *)
BuildBug ==
  /\ pc = "build"
  /\ Head(path) # NoNode
  /\ path' = <<nodeMap[Head(path)].parent>> \o path
  /\ UNCHANGED <<args, pc, queue, nodeMap>>
Build ==
  /\ pc = "build"
  /\ Head(path) # from
  /\ path' = <<nodeMap[Head(path)].parent>> \o path
  /\ UNCHANGED <<args, pc, queue, nodeMap>>

(* The nodes of the path are read, which may fail.                         *)
Return ==
  /\ pc = "build"
  /\ Head(path) = from
  /\ pc' \in {"found", "error"}
  /\ UNCHANGED <<args, queue, nodeMap, path>>

Next ==
  \/ Found \/ Limit \/ Expand \/ ExpandFails \/ Exhausted
  \/ Build \/ Return

Spec == Init /\ [][Next]_vars /\ WF_vars(Next)
-----------------------------------------------------------------------------
TypeOK ==
  /\ neighbors \in [Nodes -> SUBSET Nodes]
  /\ from \in Nodes /\ to \in Nodes
  /\ maxLength \in Nat
  /\ pc \in {"search", "build"} \cup Outcomes
  /\ queue \in Seq(Nodes)
  /\ DOMAIN nodeMap \subseteq Nodes
  /\ \A n \in DOMAIN nodeMap : nodeMap[n] \in dfsNode
  /\ path \in Seq(Nodes)

(* The nodes at most k edges away from the start of the query.             *)
Within(k) ==
  LET near[i \in 0..k] ==
        IF i = 0 THEN {from}
        ELSE near[i - 1] \cup UNION {neighbors[n] : n \in near[i - 1]}
  IN near[k]

(* What is returned is a path of the graph from the subject to the target, *)
(* no longer than asked for ("returns a path between subject and target,   *)
(* of a maximum length", path.graphql:186).                                *)
PathSound ==
  pc = "found" =>
    /\ path # <<>>
    /\ path[1] = from
    /\ path[Len(path)] = to
    /\ \A i \in 1..(Len(path) - 1) : path[i + 1] \in neighbors[path[i]]
    /\ Len(path) <= maxLength + 1

(* No shorter path exists, although nodes are queued again and again.      *)
PathShortest ==
  pc = "found" /\ Len(path) > 1 => to \notin Within(Len(path) - 2)

(* A target closer than the maximum length is found.                       *)
NearTargetFound ==
  pc = "notFound" /\ maxLength > 0 => to \notin Within(maxLength - 1)

(* A target within the maximum length is found: what the schema says.      *)
TargetFound ==
  pc = "notFound" => to \notin Within(maxLength)

(* The query ends, on graphs with cycles too.                              *)
Terminates == <>(pc \in Outcomes)
=============================================================================
