-------------------------- MODULE PathQuery_proofs --------------------------
(***************************************************************************)
(* The path query returns paths, shortest ones, and finds a target that is *)
(* near enough, on every graph with finitely many nodes.                   *)
(***************************************************************************)
EXTENDS PathQuery, FiniteSetTheorems, TLAPS

(* The nodes seen form a tree of edges with the subject as its root; depth *)
(* is the distance to the root in that tree.                               *)
Tree ==
  /\ from \in DOMAIN nodeMap
  /\ \A n \in DOMAIN nodeMap : nodeMap[n].depth <= maxLength
  /\ \A n \in DOMAIN nodeMap \ {from} :
       /\ nodeMap[n].parent \in DOMAIN nodeMap
       /\ n \in neighbors[nodeMap[n].parent]
       /\ nodeMap[n].depth = nodeMap[nodeMap[n].parent].depth + 1

(* What is to be visited has been seen.                                    *)
QueueSeen == \A i \in 1..Len(queue) : queue[i] \in DOMAIN nodeMap

(* The path built so far leads from a node of the tree to the target, and  *)
(* that node's depth is still to come.                                     *)
PathSoFar ==
  /\ path # <<>>
  /\ Head(path) \in DOMAIN nodeMap
  /\ path[Len(path)] = to
  /\ \A i \in 1..(Len(path) - 1) : path[i + 1] \in neighbors[path[i]]
  /\ Len(path) + nodeMap[Head(path)].depth <= maxLength + 1

PathInv ==
  /\ TypeOK
  /\ Tree
  /\ QueueSeen
  /\ pc \in {"build", "found"} => PathSoFar
  /\ pc = "found" => Head(path) = from

LEMMA OrdersType ==
  ASSUME TypeOK, NEW S \in SUBSET Nodes, NEW s \in Orders(S)
  PROVE  s \in Seq(S)
<1>1. Cardinality(S) \in Nat
  BY PathAssumption, FS_Subset, FS_CardinalityType
<1>2. s \in [1..Cardinality(S) -> S]
  BY DEF Orders
<1>3. QED
  BY <1>1, <1>2

(* A sequence with all its elements in S is a sequence over S.             *)
LEMMA SeqElements ==
  ASSUME NEW R, NEW S, NEW s \in Seq(R), \A i \in 1..Len(s) : s[i] \in S
  PROVE  s \in Seq(S)
<1>1. Len(s) \in Nat /\ s = [i \in 1..Len(s) |-> s[i]]
  OBVIOUS
<1>2. [i \in 1..Len(s) |-> s[i]] \in [1..Len(s) -> S]
  OBVIOUS
<1>3. s \in [1..Len(s) -> S]
  BY <1>1, <1>2, Zenon
<1>4. QED
  BY <1>1, <1>3

LEMMA VisitIs ==
  ASSUME PathInv, Visit
  PROVE  /\ now \in DOMAIN nodeMap
         /\ now \in Nodes
         /\ Tail(queue) \in Seq(Nodes)
         /\ \A i \in 1..Len(Tail(queue)) : Tail(queue)[i] \in DOMAIN nodeMap
<1>1. queue \in Seq(Nodes) /\ queue # <<>>
  BY DEF PathInv, TypeOK, Visit
<1>2. now = queue[1] /\ 1 \in 1..Len(queue)
  BY <1>1 DEF now
<1>3. now \in DOMAIN nodeMap
  BY <1>2 DEF PathInv, QueueSeen
<1>4. Tail(queue) \in Seq(Nodes) /\ Len(Tail(queue)) = Len(queue) - 1
  BY <1>1
<1>5. \A i \in 1..Len(Tail(queue)) : Tail(queue)[i] = queue[i + 1] /\ i + 1 \in 1..Len(queue)
  BY <1>1
<1>6. QED
  BY <1>1, <1>3, <1>4, <1>5 DEF PathInv, QueueSeen, TypeOK

LEMMA PathInit == Init => PathInv
<1> SUFFICES ASSUME Init PROVE PathInv
  OBVIOUS
<1>1. neighbors \in [Nodes -> SUBSET Nodes] /\ maxLength \in Nat
  BY PathAssumption DEF Init
<1>2. /\ DOMAIN nodeMap = {from}
      /\ nodeMap[from] = [expanded |-> FALSE, parent |-> NoNode, depth |-> 0]
  BY DEF Init
<1>3. queue \in Seq(Nodes) /\ Len(queue) = 1 /\ queue[1] = from
  BY DEF Init
<1>4. TypeOK
  BY <1>1, <1>2, <1>3 DEF Init, TypeOK, dfsNode
<1>5. Tree
  BY <1>1, <1>2 DEF Tree
<1>6. QueueSeen
  BY <1>2, <1>3 DEF QueueSeen
<1>7. QED
  BY <1>4, <1>5, <1>6 DEF Init, PathInv

(* The steps of the search that see nothing new.                           *)
LEMMA DequeueInv ==
  ASSUME PathInv, Visit, queue' = Tail(queue), UNCHANGED <<args, nodeMap, path>>,
         pc' \in {"notFound", "error"}
  PROVE  PathInv'
<1>1. /\ Tail(queue) \in Seq(Nodes)
      /\ \A i \in 1..Len(Tail(queue)) : Tail(queue)[i] \in DOMAIN nodeMap
  BY VisitIs
<1>2. TypeOK'
  BY <1>1 DEF PathInv, TypeOK, args, Outcomes
<1>3. Tree' /\ QueueSeen'
  BY <1>1 DEF PathInv, Tree, QueueSeen, args
<1>4. QED
  BY <1>2, <1>3 DEF PathInv

LEMMA ExpandInv == ASSUME PathInv, Expand PROVE PathInv'
<1>1. Visit
  BY DEF Expand
<1>2. /\ now \in DOMAIN nodeMap /\ now \in Nodes
      /\ Tail(queue) \in Seq(Nodes)
      /\ \A i \in 1..Len(Tail(queue)) : Tail(queue)[i] \in DOMAIN nodeMap
  BY <1>1, VisitIs
<1>3. /\ neighbors \in [Nodes -> SUBSET Nodes]
      /\ maxLength \in Nat
      /\ DOMAIN nodeMap \subseteq Nodes
      /\ \A n \in DOMAIN nodeMap : nodeMap[n] \in dfsNode
  BY DEF PathInv, TypeOK
<1>4. New \subseteq Nodes /\ New \cap DOMAIN nodeMap = {}
  BY <1>2, <1>3 DEF New
<1>5. Unexpanded \subseteq New \cup DOMAIN nodeMap
  BY DEF Unexpanded
<1>6. nodeMap[now].depth < maxLength /\ nodeMap[now].depth \in Nat
  BY <1>2, <1>3 DEF Expand, AtLimit, dfsNode
<1>7. nodeMap' = Seen
  BY DEF Expand
<1>8. DOMAIN nodeMap' = DOMAIN nodeMap \cup New
  BY <1>7 DEF Seen
<1>9. \A n \in New : nodeMap'[n] = [expanded |-> FALSE, parent |-> now,
                                    depth |-> nodeMap[now].depth + 1]
  BY <1>7 DEF Seen
<1>10. \A n \in DOMAIN nodeMap :
         /\ nodeMap'[n] \in dfsNode
         /\ nodeMap'[n].parent = nodeMap[n].parent
         /\ nodeMap'[n].depth = nodeMap[n].depth
  <2> TAKE n \in DOMAIN nodeMap
  <2>1. n \notin New /\ nodeMap[n] \in dfsNode
    BY <1>3, <1>4
  <2>2. nodeMap'[n] = IF n = now THEN [nodeMap[n] EXCEPT !.expanded = TRUE]
                      ELSE nodeMap[n]
    BY <1>7, <2>1 DEF Seen
  <2>3. QED
    BY <2>1, <2>2 DEF dfsNode
<1>11. \A n \in New : nodeMap'[n] \in dfsNode
  <2>1. nodeMap[now].depth + 1 \in Nat
    BY <1>6
  <2>2. now \in Nodes \cup {NoNode} /\ FALSE \in BOOLEAN
    BY <1>2
  <2> DEFINE d == nodeMap[now].depth + 1
  <2> HIDE DEF d
  <2>3. [expanded |-> FALSE, parent |-> now, depth |-> d] \in dfsNode
    BY <2>1, <2>2 DEF dfsNode, d
  <2>4. QED
    BY <1>9, <2>3 DEF d
<1>12. Tree'
  <2>1. UNCHANGED args
    BY DEF Expand
  <2>2. from \in DOMAIN nodeMap'
    BY <1>8, <2>1 DEF PathInv, Tree, args
  <2>3. \A n \in DOMAIN nodeMap' : nodeMap'[n].depth <= maxLength
    BY <1>3, <1>6, <1>8, <1>9, <1>10 DEF PathInv, Tree
  <2>4. ASSUME NEW n \in DOMAIN nodeMap' \ {from}
        PROVE  /\ nodeMap'[n].parent \in DOMAIN nodeMap'
               /\ n \in neighbors[nodeMap'[n].parent]
               /\ nodeMap'[n].depth = nodeMap'[nodeMap'[n].parent].depth + 1
    <3>1. CASE n \in New
      BY <1>2, <1>8, <1>9, <1>10, <3>1 DEF New
    <3>2. CASE n \in DOMAIN nodeMap
      BY <1>8, <1>10, <3>2, <2>4 DEF PathInv, Tree
    <3>3. QED
      BY <1>8, <3>1, <3>2
  <2>5. QED
    BY <2>1, <2>2, <2>3, <2>4 DEF Tree, args
<1>13. PICK next \in Orders(Unexpanded) : queue' = Tail(queue) \o next
  BY DEF Expand
<1>14. next \in Seq(Unexpanded)
  BY <1>3, <1>4, <1>5, <1>13, OrdersType DEF PathInv
<1>15. /\ queue' \in Seq(Nodes)
       /\ \A i \in 1..Len(queue') : queue'[i] \in DOMAIN nodeMap'
  <2> DEFINE S == DOMAIN nodeMap'
  <2>1. S \subseteq Nodes
    BY <1>3, <1>4, <1>8
  <2>2. next \in Seq(S)
    BY <1>5, <1>8, <1>14
  <2>3. \A i \in 1..Len(Tail(queue)) : Tail(queue)[i] \in S
    BY <1>2, <1>8
  <2> HIDE DEF S
  <2>4. Tail(queue) \in Seq(S)
    BY <1>2, <2>3, SeqElements
  <2>5. queue' \in Seq(S)
    BY <1>13, <2>2, <2>4
  <2>6. \A i \in 1..Len(queue') : queue'[i] \in S
    BY <2>5
  <2>7. queue' \in Seq(Nodes)
    BY <2>1, <2>5
  <2>8. QED
    BY <2>6, <2>7 DEF S
<1>16. TypeOK'
  BY <1>3, <1>4, <1>8, <1>10, <1>11, <1>15 DEF PathInv, TypeOK, Expand, args
<1>17. QueueSeen'
  BY <1>15 DEF QueueSeen
<1>18. pc' = "search"
  BY DEF Expand, Visit
<1>19. QED
  BY <1>12, <1>16, <1>17, <1>18 DEF PathInv

LEMMA BuildInv == ASSUME PathInv, Build PROVE PathInv'
<1>1. /\ PathSoFar /\ Head(path) # from /\ pc' = "build"
      /\ UNCHANGED <<args, queue, nodeMap>>
  BY DEF PathInv, Build
<1> DEFINE end == Head(path)
           step == nodeMap[end].parent
<1>2. path \in Seq(Nodes) /\ path # <<>> /\ end = path[1]
  BY <1>1 DEF PathInv, TypeOK, PathSoFar
<1>3. /\ step \in DOMAIN nodeMap
      /\ end \in neighbors[step]
      /\ nodeMap[end].depth = nodeMap[step].depth + 1
  BY <1>1 DEF PathInv, Tree, PathSoFar
<1>4. step \in Nodes /\ nodeMap[step].depth \in Nat /\ maxLength \in Nat
  BY <1>3 DEF PathInv, TypeOK, dfsNode
<1> HIDE DEF end, step
<1>5. path' = <<step>> \o path
  BY DEF Build, step, end
<1>6. path' \in Seq(Nodes) /\ Len(path') = Len(path) + 1 /\ path' # <<>>
  BY <1>2, <1>4, <1>5
<1>7. path'[1] = step /\ \A i \in 1..Len(path) : path'[i + 1] = path[i]
  BY <1>2, <1>4, <1>5
<1>8. Head(path') = step
  BY <1>6, <1>7
<1>9. Len(path) \in Nat /\ Len(path) >= 1
  BY <1>2
<1>10. path'[Len(path')] = to
  BY <1>1, <1>6, <1>7, <1>9 DEF PathSoFar
<1>11. \A i \in 1..(Len(path') - 1) : path'[i + 1] \in neighbors[path'[i]]
  <2> TAKE i \in 1..(Len(path') - 1)
  <2>1. CASE i = 1
    BY <1>2, <1>3, <1>7, <1>9, <2>1
  <2>2. CASE i # 1
    <3>1. i - 1 \in 1..(Len(path) - 1) /\ i \in 1..Len(path) /\ i = (i - 1) + 1
      BY <1>6, <1>9, <2>2
    <3>2. path[(i - 1) + 1] \in neighbors[path[i - 1]]
      BY <1>1, <3>1 DEF PathSoFar
    <3>3. path'[i + 1] = path[i] /\ path'[(i - 1) + 1] = path[i - 1]
      BY <1>7, <1>9, <3>1
    <3>4. QED
      BY <3>1, <3>2, <3>3
  <2>3. QED
    BY <2>1, <2>2
<1>12. Len(path') + nodeMap[step].depth <= maxLength + 1
  <2>1. Len(path) + nodeMap[end].depth <= maxLength + 1
    BY <1>1 DEF PathSoFar, end
  <2>2. QED
    BY <1>3, <1>4, <1>6, <1>9, <2>1
<1>13. PathSoFar'
  BY <1>1, <1>3, <1>6, <1>8, <1>10, <1>11, <1>12 DEF PathSoFar, args
<1>14. TypeOK'
  BY <1>1, <1>6 DEF PathInv, TypeOK, args
<1>15. Tree' /\ QueueSeen'
  BY <1>1 DEF PathInv, Tree, QueueSeen, args
<1>16. QED
  BY <1>1, <1>13, <1>14, <1>15 DEF PathInv

LEMMA PathNext == PathInv /\ [Next]_vars => PathInv'
<1> SUFFICES ASSUME PathInv, [Next]_vars PROVE PathInv'
  OBVIOUS
<1>1. CASE Found
  <2>1. /\ now \in DOMAIN nodeMap
        /\ Tail(queue) \in Seq(Nodes)
        /\ \A i \in 1..Len(Tail(queue)) : Tail(queue)[i] \in DOMAIN nodeMap
    BY <1>1, VisitIs DEF Found
  <2>2. /\ path' = <<to>> /\ now = to /\ pc' = "build" /\ queue' = Tail(queue)
        /\ UNCHANGED <<args, nodeMap>>
    BY <1>1 DEF Found
  <2>3. to \in Nodes /\ maxLength \in Nat /\ nodeMap[to].depth \in Nat
    BY <2>1, <2>2 DEF PathInv, TypeOK, dfsNode
  <2>4. TypeOK'
    BY <2>1, <2>2, <2>3 DEF PathInv, TypeOK, args
  <2>5. Tree' /\ QueueSeen'
    BY <2>1, <2>2 DEF PathInv, Tree, QueueSeen, args
  <2>6. /\ Len(path') = 1 /\ path' # <<>> /\ path'[1] = to /\ Head(path') = to
    BY <2>2
  <2>7. nodeMap[to].depth <= maxLength
    BY <2>1, <2>2 DEF PathInv, Tree
  <2>8. PathSoFar'
    BY <2>1, <2>2, <2>3, <2>6, <2>7 DEF PathSoFar, args
  <2>9. QED
    BY <2>2, <2>4, <2>5, <2>8 DEF PathInv
<1>2. CASE Limit \/ ExpandFails
  BY <1>2, DequeueInv DEF Limit, ExpandFails
<1>3. CASE Expand
  BY <1>3, ExpandInv
<1>4. CASE Exhausted
  BY <1>4 DEF Exhausted, PathInv, TypeOK, Tree, QueueSeen, args, Outcomes
<1>5. CASE Build
  BY <1>5, BuildInv
<1>6. CASE Return
  BY <1>6 DEF Return, PathInv, TypeOK, Tree, QueueSeen, PathSoFar, args, Outcomes
<1>7. CASE UNCHANGED vars
  BY <1>7 DEF vars, PathInv, TypeOK, Tree, QueueSeen, PathSoFar, args
<1>8. QED
  BY <1>1, <1>2, <1>3, <1>4, <1>5, <1>6, <1>7 DEF Next

LEMMA PathHolds == Spec => []PathInv
BY PathInit, PathNext, PTL DEF Spec

(* The search works on nodes of the graph only, whatever the graph.        *)
THEOREM TypeCorrect == Spec => []TypeOK
<1>1. PathInv => TypeOK
  BY DEF PathInv
<1>2. QED
  BY <1>1, PathHolds, PTL

(* Whatever the graph, the path returned leads along edges of the graph    *)
(* from the subject to the target and is not longer than asked for.        *)
THEOREM PathCorrect == Spec => []PathSound
<1>1. PathInv => PathSound
  <2> SUFFICES ASSUME PathInv, pc = "found" PROVE PathSound
    BY DEF PathSound
  <2>1. PathSoFar /\ Head(path) = from /\ path \in Seq(Nodes) /\ maxLength \in Nat
    BY DEF PathInv, TypeOK
  <2>2. path # <<>> /\ path[1] = from
    BY <2>1 DEF PathSoFar
  <2>3. nodeMap[Head(path)].depth \in Nat
    BY <2>1 DEF PathInv, TypeOK, PathSoFar, dfsNode
  <2>4. Len(path) <= maxLength + 1
    BY <2>1, <2>3 DEF PathSoFar
  <2>5. QED
    BY <2>1, <2>2, <2>4 DEF PathSoFar, PathSound
<1>2. QED
  BY <1>1, PathHolds, PTL
-----------------------------------------------------------------------------
(***************************************************************************)
(* The search is breadth first, although a node may wait in the queue      *)
(* several times and the queue is not sorted by depth: only the first      *)
(* occurrences of the nodes still to be expanded are.                      *)
(***************************************************************************)
Waiting == {n \in DOMAIN nodeMap : ~nodeMap[n].expanded}

(* An expanded node has all its neighbours in the tree, at most one level  *)
(* below it; the target is never expanded, nor a node at the limit.        *)
Expanded ==
  \A n \in DOMAIN nodeMap \ Waiting :
    /\ n # to
    /\ nodeMap[n].depth < maxLength
    /\ \A x \in neighbors[n] :
         x \in DOMAIN nodeMap /\ nodeMap[x].depth <= nodeMap[n].depth + 1

(* No node is more than one level below a node that is to be expanded.     *)
Frontier ==
  \A n \in DOMAIN nodeMap, m \in Waiting : nodeMap[n].depth <= nodeMap[m].depth + 1

AllQueued == \A m \in Waiting : \E j \in 1..Len(queue) : queue[j] = m

(* Before a node that is to be expanded stand all such nodes above it.     *)
Ordered ==
  \A i \in 1..Len(queue), m \in Waiting :
    queue[i] \in Waiting /\ nodeMap[m].depth < nodeMap[queue[i]].depth
      => \E j \in 1..(i - 1) : queue[j] = m

(* Every node above level d has been expanded.                             *)
Settled(d) == \A m \in Waiting : nodeMap[m].depth >= d

BreadthFirst ==
  /\ nodeMap[from].depth = 0
  /\ Expanded
  /\ Frontier
  /\ pc = "search" => AllQueued /\ Ordered
  /\ pc \in {"build", "found"} =>
       /\ to \in DOMAIN nodeMap
       /\ Settled(nodeMap[to].depth)
       /\ Len(path) + nodeMap[Head(path)].depth = nodeMap[to].depth + 1
  /\ pc = "notFound" => Settled(maxLength)

SearchInv == PathInv /\ BreadthFirst

LEMMA OrdersOnto ==
  ASSUME NEW S \in SUBSET Nodes, NEW s \in Orders(S)
  PROVE  \A x \in S : \E i \in 1..Len(s) : s[i] = x
<1>1. IsFiniteSet(S) /\ Cardinality(S) \in Nat
  BY PathAssumption, FS_Subset, FS_CardinalityType
<1> DEFINE I == 1..Cardinality(S)
<1>2. s \in [I -> S] /\ Len(s) = Cardinality(S)
  BY <1>1 DEF Orders
<1>3. s \in Injection(I, S)
  BY <1>2 DEF Orders, Injection, IsInjective
<1>4. IsFiniteSet(I) /\ Cardinality(I) = Cardinality(S)
  BY <1>1, FS_Interval
<1> HIDE DEF I
<1>5. s \in Surjection(I, S)
  BY <1>1, <1>3, <1>4, FS_Injection
<1>6. QED
  BY <1>2, <1>5 DEF Surjection, I

(* What is seen after a node is expanded.                                  *)
LEMMA SeenIs ==
  ASSUME PathInv, Expand
  PROVE  /\ DOMAIN nodeMap' = DOMAIN nodeMap \cup New
         /\ New \cap DOMAIN nodeMap = {}
         /\ \A n \in New : nodeMap'[n].depth = nodeMap[now].depth + 1 /\ ~nodeMap'[n].expanded
         /\ \A n \in DOMAIN nodeMap : nodeMap'[n].depth = nodeMap[n].depth
         /\ Waiting' = (Waiting \ {now}) \cup New
<1>1. now \in DOMAIN nodeMap
  BY VisitIs DEF Expand
<1>2. New \cap DOMAIN nodeMap = {} /\ nodeMap' = Seen
  BY DEF New, Expand
<1>3. DOMAIN nodeMap' = DOMAIN nodeMap \cup New
  BY <1>2 DEF Seen
<1>4. \A n \in New : nodeMap'[n] = [expanded |-> FALSE, parent |-> now,
                                    depth |-> nodeMap[now].depth + 1]
  BY <1>2 DEF Seen
<1>5. \A n \in DOMAIN nodeMap :
        nodeMap'[n] = IF n = now THEN [nodeMap[n] EXCEPT !.expanded = TRUE] ELSE nodeMap[n]
  BY <1>2 DEF Seen
<1>6. \A n \in DOMAIN nodeMap : nodeMap[n] \in dfsNode
  BY DEF PathInv, TypeOK
<1>7. \A n \in DOMAIN nodeMap :
        /\ nodeMap'[n].depth = nodeMap[n].depth
        /\ nodeMap'[n].expanded <=> (n = now \/ nodeMap[n].expanded)
  <2> TAKE n \in DOMAIN nodeMap
  <2>1. CASE n = now
    BY <1>5, <1>6, <2>1 DEF dfsNode
  <2>2. CASE n # now
    BY <1>5, <2>2
  <2>3. QED
    BY <2>1, <2>2
<1>8. \A n \in New : nodeMap'[n].depth = nodeMap[now].depth + 1 /\ ~nodeMap'[n].expanded
  BY <1>4
<1>9. Waiting' = (Waiting \ {now}) \cup New
  BY <1>2, <1>3, <1>7, <1>8 DEF Waiting
<1>10. QED
  BY <1>2, <1>3, <1>7, <1>8, <1>9

(* A node to be expanded that is at the head of the queue has the least    *)
(* depth of them all; one that was expanded before has nothing new.        *)
LEMMA NowIs ==
  ASSUME SearchInv, Visit
  PROVE  /\ now = queue[1] /\ Len(queue) \in Nat /\ Len(queue) >= 1
         /\ \A i \in 1..Len(Tail(queue)) : Tail(queue)[i] = queue[i + 1]
         /\ Len(Tail(queue)) = Len(queue) - 1
         /\ \A n \in DOMAIN nodeMap : nodeMap[n].depth \in Nat
         /\ now \in Waiting => Settled(nodeMap[now].depth)
         /\ now \notin Waiting => New = {}
         /\ \A m \in Waiting \ {now} : \E j \in 1..Len(Tail(queue)) : Tail(queue)[j] = m
<1>1. queue \in Seq(Nodes) /\ queue # <<>> /\ pc = "search"
  BY DEF SearchInv, PathInv, TypeOK, Visit
<1>2. now = queue[1] /\ Len(queue) \in Nat /\ Len(queue) >= 1
  BY <1>1 DEF now
<1>3. /\ \A i \in 1..Len(Tail(queue)) : Tail(queue)[i] = queue[i + 1]
      /\ Len(Tail(queue)) = Len(queue) - 1
  BY <1>1
<1>4. \A n \in DOMAIN nodeMap : nodeMap[n].depth \in Nat
  BY DEF SearchInv, PathInv, TypeOK, dfsNode
<1>5. AllQueued /\ Ordered
  BY <1>1 DEF SearchInv, BreadthFirst
<1>6. now \in DOMAIN nodeMap
  BY VisitIs DEF SearchInv
<1>7. now \in Waiting => Settled(nodeMap[now].depth)
  <2> SUFFICES ASSUME now \in Waiting, NEW m \in Waiting, nodeMap[m].depth < nodeMap[now].depth
               PROVE  FALSE
    BY <1>4, <1>6 DEF Settled, Waiting
  <2>1. \E j \in 1..(1 - 1) : queue[j] = m
    BY <1>2, <1>5 DEF Ordered
  <2>2. QED
    BY <2>1
<1>8. now \notin Waiting => New = {}
  BY <1>6 DEF SearchInv, BreadthFirst, Expanded, New
<1>9. ASSUME NEW m \in Waiting \ {now}
      PROVE  \E j \in 1..Len(Tail(queue)) : Tail(queue)[j] = m
  <2>1. PICK j \in 1..Len(queue) : queue[j] = m
    BY <1>5 DEF AllQueued
  <2>2. j # 1 /\ j - 1 \in 1..Len(Tail(queue)) /\ (j - 1) + 1 = j
    BY <1>2, <1>3, <2>1
  <2>3. QED
    BY <1>3, <2>1, <2>2
<1>10. QED
  BY <1>2, <1>3, <1>4, <1>7, <1>8, <1>9

LEMMA ExpandTree ==
  ASSUME SearchInv, Expand
  PROVE  Expanded' /\ Frontier' /\ nodeMap'[from].depth = 0
<1>1. Visit /\ now # to /\ ~AtLimit /\ UNCHANGED args /\ PathInv
  BY DEF Expand, SearchInv
<1>2. now \in DOMAIN nodeMap /\ now \in Nodes /\ maxLength \in Nat
  BY <1>1, VisitIs DEF PathInv, TypeOK
<1> DEFINE d == nodeMap[now].depth
<1>3. d \in Nat /\ d < maxLength /\ \A n \in DOMAIN nodeMap : nodeMap[n].depth \in Nat
  BY <1>1, <1>2, NowIs DEF AtLimit
<1>4. /\ DOMAIN nodeMap' = DOMAIN nodeMap \cup New
      /\ New \cap DOMAIN nodeMap = {}
      /\ \A n \in New : nodeMap'[n].depth = d + 1 /\ ~nodeMap'[n].expanded
      /\ \A n \in DOMAIN nodeMap : nodeMap'[n].depth = nodeMap[n].depth
      /\ Waiting' = (Waiting \ {now}) \cup New
  BY <1>1, SeenIs
<1>5. now \in Waiting => \A m \in Waiting : nodeMap[m].depth >= d
  BY <1>1, NowIs DEF Settled
<1>6. now \notin Waiting => New = {}
  BY <1>1, NowIs
<1>7. neighbors[now] \subseteq DOMAIN nodeMap \cup New
  BY DEF New
<1>8. Expanded /\ Frontier /\ nodeMap[from].depth = 0 /\ from \in DOMAIN nodeMap
  BY <1>1 DEF SearchInv, BreadthFirst, PathInv, Tree
<1> HIDE DEF d
<1>9. now \in Waiting => \A n \in DOMAIN nodeMap : nodeMap[n].depth <= d + 1
  BY <1>8 DEF Frontier, d
<1>10. Frontier'
  <2> SUFFICES ASSUME NEW n \in DOMAIN nodeMap', NEW m \in Waiting'
               PROVE  nodeMap'[n].depth <= nodeMap'[m].depth + 1
    BY DEF Frontier
  <2>1. CASE New = {}
    BY <1>4, <1>8, <2>1 DEF Frontier, Waiting
  <2>2. CASE New # {}
    <3>1. now \in Waiting
      BY <1>6, <2>2
    <3>2. nodeMap'[n].depth <= d + 1 /\ nodeMap'[n].depth \in Nat
      BY <1>3, <1>4, <1>9, <3>1
    <3>3. nodeMap'[m].depth >= d /\ nodeMap'[m].depth \in Nat
      BY <1>3, <1>4, <1>5, <3>1 DEF Waiting
    <3>4. QED
      BY <1>3, <3>2, <3>3
  <2>3. QED
    BY <2>1, <2>2
<1>11. Expanded'
  <2> SUFFICES ASSUME NEW n \in DOMAIN nodeMap' \ Waiting'
               PROVE  /\ n # to
                      /\ nodeMap'[n].depth < maxLength
                      /\ \A x \in neighbors[n] :
                           x \in DOMAIN nodeMap' /\ nodeMap'[x].depth <= nodeMap'[n].depth + 1
    BY <1>1 DEF Expanded, args
  <2>1. n \in DOMAIN nodeMap
    BY <1>4
  <2>2. CASE n \notin Waiting
    BY <1>4, <1>8, <2>1, <2>2 DEF Expanded
  <2>3. CASE n = now /\ now \in Waiting
    <3>1. \A x \in neighbors[n] : x \in DOMAIN nodeMap' /\ nodeMap'[x].depth <= d + 1
      BY <1>3, <1>4, <1>7, <1>9, <2>3
    <3>2. nodeMap'[n].depth = d
      BY <1>2, <1>4, <2>3 DEF d
    <3>3. QED
      BY <1>1, <1>3, <2>3, <3>1, <3>2
  <2>4. QED
    BY <1>4, <2>1, <2>2, <2>3
<1>12. QED
  BY <1>1, <1>4, <1>8, <1>10, <1>11 DEF args

LEMMA ExpandQueue ==
  ASSUME SearchInv, Expand
  PROVE  AllQueued' /\ Ordered'
<1>1. Visit /\ PathInv /\ Frontier
  BY DEF Expand, SearchInv, BreadthFirst
<1>2. PICK next \in Orders(Unexpanded) : queue' = Tail(queue) \o next
  BY DEF Expand
<1> DEFINE q == Tail(queue)
<1>3. /\ now = queue[1] /\ Len(queue) \in Nat /\ Len(queue) >= 1
      /\ \A i \in 1..Len(q) : q[i] = queue[i + 1]
      /\ Len(q) = Len(queue) - 1
      /\ \A n \in DOMAIN nodeMap : nodeMap[n].depth \in Nat
      /\ now \in Waiting => \A m \in Waiting : nodeMap[m].depth >= nodeMap[now].depth
      /\ now \notin Waiting => New = {}
      /\ \A m \in Waiting \ {now} : \E j \in 1..Len(q) : q[j] = m
  BY <1>1, NowIs DEF Settled
<1>4. /\ DOMAIN nodeMap' = DOMAIN nodeMap \cup New
      /\ New \cap DOMAIN nodeMap = {}
      /\ \A n \in New : nodeMap'[n].depth = nodeMap[now].depth + 1
      /\ \A n \in DOMAIN nodeMap : nodeMap'[n].depth = nodeMap[n].depth
      /\ Waiting' = (Waiting \ {now}) \cup New
  BY <1>1, SeenIs
<1>5. Unexpanded \in SUBSET Nodes /\ q \in Seq(Nodes) /\ New \subseteq Unexpanded
      /\ now \in DOMAIN nodeMap /\ Unexpanded \subseteq Waiting \cup New
  BY <1>1, VisitIs DEF Unexpanded, New, PathInv, TypeOK, Waiting
<1>6. next \in Seq(Unexpanded) /\ \A x \in Unexpanded : \E i \in 1..Len(next) : next[i] = x
  BY <1>1, <1>2, <1>5, OrdersOnto, OrdersType DEF PathInv
<1> HIDE DEF q
<1>7. next \in Seq(Nodes) /\ queue' = q \o next
  BY <1>2, <1>5, <1>6 DEF q
<1>8. /\ Len(q) \in Nat /\ Len(next) \in Nat /\ Len(queue') = Len(q) + Len(next)
      /\ \A i \in 1..Len(q) : queue'[i] = q[i] /\ i \in 1..Len(queue')
      /\ \A i \in 1..Len(next) : queue'[Len(q) + i] = next[i] /\ Len(q) + i \in 1..Len(queue')
  BY <1>5, <1>7
<1>9. AllQueued'
  <2> SUFFICES ASSUME NEW m \in Waiting' PROVE \E j \in 1..Len(queue') : queue'[j] = m
    BY DEF AllQueued
  <2>1. CASE m \in Waiting \ {now}
    BY <1>3, <1>8, <2>1
  <2>2. CASE m \in New
    BY <1>5, <1>6, <1>8, <2>2
  <2>3. QED
    BY <1>4, <2>1, <2>2
<1>10. ASSUME NEW x \in Waiting', NEW m \in Waiting', nodeMap'[m].depth < nodeMap'[x].depth
      PROVE  m \in Waiting \ {now}
  <2>1. SUFFICES ASSUME m \in New PROVE FALSE
    BY <1>4
  <2>2. now \in Waiting /\ nodeMap'[m].depth = nodeMap[now].depth + 1 /\ nodeMap[now].depth \in Nat
    BY <1>3, <1>4, <1>5, <2>1
  <2>3. nodeMap'[x].depth <= nodeMap[now].depth + 1 /\ nodeMap'[x].depth \in Nat
    BY <1>1, <1>3, <1>4, <2>2 DEF Frontier, Waiting
  <2>4. QED
    BY <1>10, <2>2, <2>3
<1>11. Ordered'
  <2> SUFFICES ASSUME NEW i \in 1..Len(queue'), NEW m \in Waiting',
                      queue'[i] \in Waiting', nodeMap'[m].depth < nodeMap'[queue'[i]].depth
               PROVE  \E j \in 1..(i - 1) : queue'[j] = m
    BY DEF Ordered
  <2>1. m \in Waiting \ {now}
    BY <1>10
  <2>2. CASE i \in 1..Len(q)
    <3>1. queue'[i] = queue[i + 1] /\ i + 1 \in 1..Len(queue)
      BY <1>3, <1>8, <2>2
    <3>2. queue'[i] \in Waiting
      <4>1. queue[i + 1] \in DOMAIN nodeMap
        BY <1>1, <3>1 DEF PathInv, QueueSeen
      <4>2. QED
        BY <1>4, <3>1, <4>1
    <3>3. nodeMap[m].depth < nodeMap[queue[i + 1]].depth
      BY <1>4, <2>1, <3>1, <3>2 DEF Waiting
    <3>4. Ordered
      BY <1>1 DEF SearchInv, BreadthFirst, Visit
    <3>5. PICK j \in 1..((i + 1) - 1) : queue[j] = m
      BY <2>1, <3>1, <3>2, <3>3, <3>4 DEF Ordered
    <3>6. j # 1 /\ j - 1 \in 1..(i - 1) /\ j - 1 \in 1..Len(q) /\ (j - 1) + 1 = j
      BY <1>3, <1>8, <2>1, <2>2, <3>5
    <3>7. queue'[j - 1] = m
      BY <1>3, <1>8, <3>5, <3>6
    <3>8. QED
      BY <3>6, <3>7
  <2>3. CASE i \notin 1..Len(q)
    <3>1. PICK j \in 1..Len(q) : q[j] = m
      BY <1>3, <2>1
    <3>2. j \in 1..(i - 1) /\ queue'[j] = m
      BY <1>8, <2>3, <3>1
    <3>3. QED
      BY <3>2
  <2>4. QED
    BY <2>2, <2>3
<1>12. QED
  BY <1>9, <1>11

LEMMA SearchInit == Init => SearchInv
<1> SUFFICES ASSUME Init PROVE SearchInv
  OBVIOUS
<1>1. PathInv
  BY PathInit
<1>2. /\ DOMAIN nodeMap = {from} /\ pc = "search"
      /\ nodeMap[from] = [expanded |-> FALSE, parent |-> NoNode, depth |-> 0]
      /\ Len(queue) = 1 /\ queue[1] = from
  BY DEF Init
<1>3. Waiting = {from} /\ nodeMap[from].depth = 0
  BY <1>2 DEF Waiting
<1>4. Expanded /\ Frontier
  BY <1>2, <1>3 DEF Expanded, Frontier
<1>5. AllQueued /\ Ordered
  BY <1>2, <1>3 DEF AllQueued, Ordered
<1>6. QED
  BY <1>1, <1>2, <1>3, <1>4, <1>5 DEF SearchInv, BreadthFirst

(* The steps that leave the tree as it is.                                 *)
LEMMA SameTree ==
  ASSUME SearchInv, UNCHANGED <<args, nodeMap>>
  PROVE  /\ Expanded' /\ Frontier' /\ nodeMap'[from].depth = 0 /\ Waiting' = Waiting
         /\ \A d : Settled(d) => Settled(d)'
BY DEF SearchInv, BreadthFirst, Expanded, Frontier, Waiting, Settled, args

LEMMA SearchNext == SearchInv /\ [Next]_vars => SearchInv'
<1> SUFFICES ASSUME SearchInv, [Next]_vars PROVE BreadthFirst'
  BY PathNext DEF SearchInv
<1>0. PathInv /\ BreadthFirst
  BY DEF SearchInv
<1>1. CASE Found
  <2>1. /\ path' = <<to>> /\ now = to /\ pc' = "build" /\ UNCHANGED <<args, nodeMap>> /\ Visit
    BY <1>1 DEF Found
  <2>2. to \in DOMAIN nodeMap /\ nodeMap[to].depth \in Nat
    BY <1>0, <2>1, VisitIs, NowIs
  <2>3. to \in Waiting
    BY <1>0, <2>2 DEF BreadthFirst, Expanded
  <2>4. Settled(nodeMap[to].depth)
    BY <2>1, <2>3, NowIs
  <2>5. Len(path') = 1 /\ Head(path') = to
    BY <2>1
  <2>6. QED
    BY <2>1, <2>2, <2>4, <2>5, SameTree DEF BreadthFirst, args, Settled, Waiting
<1>2. CASE Limit
  <2>1. Visit /\ AtLimit /\ pc' = "notFound" /\ UNCHANGED <<args, nodeMap>>
    BY <1>2 DEF Limit
  <2>2. /\ now \in DOMAIN nodeMap /\ nodeMap[now].depth \in Nat /\ maxLength \in Nat
        /\ nodeMap[now].depth >= maxLength
    BY <1>0, <2>1, VisitIs, NowIs DEF AtLimit, PathInv, TypeOK
  <2>3. now \in Waiting
    BY <1>0, <2>2 DEF BreadthFirst, Expanded
  <2>4. Settled(maxLength)
    BY <2>1, <2>2, <2>3, NowIs DEF Settled, Waiting
  <2>5. QED
    BY <2>1, <2>4, SameTree DEF BreadthFirst, args, Settled, Waiting
<1>3. CASE Expand
  <2>1. pc' = "search"
    BY <1>3 DEF Expand, Visit
  <2>2. QED
    BY <1>3, <2>1, ExpandTree, ExpandQueue DEF BreadthFirst, Expand, args
<1>4. CASE ExpandFails
  BY <1>4, SameTree DEF ExpandFails, BreadthFirst, args
<1>5. CASE Exhausted
  <2>1. AllQueued /\ queue = <<>>
    BY <1>0, <1>5 DEF BreadthFirst, Exhausted
  <2>2. Waiting = {}
    BY <2>1 DEF AllQueued
  <2>3. QED
    BY <1>5, <2>2, SameTree DEF Exhausted, BreadthFirst, args, Settled
<1>6. CASE Build
  <2>1. /\ pc = "build" /\ pc' = "build" /\ Head(path) # from /\ UNCHANGED <<args, queue, nodeMap>>
        /\ path' = <<nodeMap[Head(path)].parent>> \o path
    BY <1>6 DEF Build
  <2> DEFINE end == Head(path)
             step == nodeMap[end].parent
  <2>2. end \in DOMAIN nodeMap /\ path \in Seq(Nodes) /\ path # <<>>
    BY <1>0, <2>1 DEF PathInv, PathSoFar, TypeOK
  <2>3. /\ step \in DOMAIN nodeMap
        /\ nodeMap[end].depth = nodeMap[step].depth + 1
    BY <1>0, <2>1, <2>2 DEF PathInv, Tree
  <2>4. step \in Nodes /\ nodeMap[step].depth \in Nat
    BY <1>0, <2>3 DEF PathInv, TypeOK, dfsNode
  <2> HIDE DEF end, step
  <2>5. path' = <<step>> \o path
    BY <2>1 DEF step, end
  <2>6. Len(path') = Len(path) + 1 /\ Head(path') = step /\ Len(path) \in Nat
    BY <2>2, <2>4, <2>5
  <2>7. Len(path) + nodeMap[end].depth = nodeMap[to].depth + 1
    BY <1>0, <2>1 DEF BreadthFirst, end
  <2>8. Len(path') + nodeMap[Head(path')].depth = nodeMap[to].depth + 1
    BY <2>3, <2>4, <2>6, <2>7
  <2>9. QED
    BY <1>0, <2>1, <2>8, SameTree DEF BreadthFirst, args, Settled, Waiting
<1>7. CASE Return
  BY <1>0, <1>7, SameTree DEF Return, BreadthFirst, args, Settled, Waiting
<1>8. CASE UNCHANGED vars
  BY <1>0, <1>8, SameTree DEF vars, BreadthFirst, args, Settled, Waiting, AllQueued, Ordered
<1>9. QED
  BY <1>1, <1>2, <1>3, <1>4, <1>5, <1>6, <1>7, <1>8 DEF Next

LEMMA SearchHolds == Spec => []SearchInv
BY SearchInit, SearchNext, PTL DEF Spec
-----------------------------------------------------------------------------
(***************************************************************************)
(* The nodes within k edges of the subject are defined by recursion on k.  *)
(* Induction over the naturals is stated for a set (the theorem of the     *)
(* library takes an operator), and comes from their being well-founded.    *)
(***************************************************************************)
LEMMA LeastNumber ==
  ASSUME NEW T, T \subseteq Nat, T # {}
  PROVE  \E m \in T : \A k \in T : m <= k
<1> DEFINE R == OpToRel(<, Nat)
<1>1. IsWellFoundedOn(R, Nat)
  BY NatLessThanWellFounded
<1>2. \A x, y \in Nat : x < y => <<x, y>> \in R
  BY DEF OpToRel
<1> HIDE DEF R
<1>3. PICK x \in T : \A y \in T : ~ (<<y, x>> \in R)
  BY <1>1, WFMin
<1>4. ASSUME NEW y \in T PROVE x <= y
  <2>1. ~(y < x) /\ x \in Nat /\ y \in Nat
    BY <1>2, <1>3
  <2>2. QED
    BY <2>1
<1>5. QED
  BY <1>4

LEMMA SetInduction ==
  ASSUME NEW S, 0 \in S, \A n \in Nat : n \in S => n + 1 \in S
  PROVE  Nat \subseteq S
<1> SUFFICES ASSUME Nat \ S # {} PROVE FALSE
  OBVIOUS
<1>1. PICK m \in Nat \ S : \A k \in Nat \ S : m <= k
  BY LeastNumber
<1>2. m # 0 /\ m - 1 \in Nat /\ m - 1 \in S
  BY <1>1
<1>3. QED
  BY <1>2

(* One level of the recursion.                                             *)
Layer(f, i) ==
  IF i = 0 THEN {from} ELSE f[i - 1] \cup UNION {neighbors[n] : n \in f[i - 1]}

LEMMA LayersExist == \A k \in Nat : \E f : f = [i \in 0..k |-> Layer(f, i)]
<1> DEFINE S == {k \in Nat : \E f : f = [i \in 0..k |-> Layer(f, i)]}
<1>1. 0 \in S
  <2> DEFINE f == [i \in 0..0 |-> {from}]
  <2>1. f = [i \in 0..0 |-> Layer(f, i)]
    BY DEF Layer
  <2>2. QED
    BY <2>1
<1>2. \A k \in Nat : k \in S => k + 1 \in S
  <2> SUFFICES ASSUME NEW k \in Nat, k \in S PROVE k + 1 \in S
    OBVIOUS
  <2>1. PICK f : f = [i \in 0..k |-> Layer(f, i)]
    BY Zenon
  <2> DEFINE g == [i \in 0..(k + 1) |-> IF i = k + 1 THEN Layer(f, i) ELSE f[i]]
  <2>2. \A i \in 0..k : f[i] = Layer(f, i)
    BY <2>1, Zenon
  <2>3. g[k + 1] = Layer(f, k + 1) /\ \A i \in 0..k : g[i] = f[i]
    OBVIOUS
  <2>4. ASSUME NEW i \in 0..(k + 1) PROVE g[i] = Layer(g, i)
    <3>1. i # 0 => i - 1 \in 0..k /\ g[i - 1] = f[i - 1]
      BY <2>3
    <3>2. Layer(g, i) = Layer(f, i)
      BY <3>1 DEF Layer
    <3>3. CASE i = k + 1
      BY <2>3, <3>2, <3>3
    <3>4. CASE i \in 0..k
      BY <2>2, <2>3, <3>2, <3>4
    <3>5. QED
      BY <3>3, <3>4
  <2>5. g = [i \in 0..(k + 1) |-> g[i]] /\ k + 1 \in Nat
    OBVIOUS
  <2> HIDE DEF g
  <2>6. g = [i \in 0..(k + 1) |-> Layer(g, i)]
    BY <2>4, <2>5, Zenon
  <2>7. QED
    BY <2>5, <2>6, Zenon
<1>3. QED
  BY <1>1, <1>2, SetInduction

(* Whatever holds every node within i edges, up to some i, holds the       *)
(* neighbours of those nodes: what Within(k) is for.                       *)
LEMMA WithinInduction ==
  ASSUME NEW k \in Nat, NEW B, from \in B[0],
         \A i \in 0..(k - 1) : \A n \in B[i] : n \in B[i + 1] /\ neighbors[n] \subseteq B[i + 1]
  PROVE  Within(k) \subseteq B[k]
<1> DEFINE near == CHOOSE f : f = [i \in 0..k |-> Layer(f, i)]
<1>1. near = [i \in 0..k |-> Layer(near, i)]
  BY LayersExist, Zenon
<1>2. Within(k) = near[k]
  BY DEF Within, Layer
<1> HIDE DEF near
<1>3. \A i \in 0..k : near[i] = Layer(near, i)
  BY <1>1, Zenon
<1> DEFINE S == {i \in Nat : i <= k => near[i] \subseteq B[i]}
<1>4. 0 \in S
  <2>1. 0 \in 0..k /\ Layer(near, 0) = {from}
    BY DEF Layer
  <2>2. QED
    BY <1>3, <2>1
<1>5. ASSUME NEW i \in Nat, i \in S, i + 1 <= k PROVE near[i + 1] \subseteq B[i + 1]
  <2>1. i + 1 \in 0..k /\ i + 1 # 0 /\ (i + 1) - 1 = i
    BY <1>5
  <2>2. near[i + 1] = near[i] \cup UNION {neighbors[n] : n \in near[i]}
    BY <1>3, <2>1 DEF Layer
  <2>3. near[i] \subseteq B[i] /\ i \in 0..(k - 1)
    BY <1>5
  <2>4. QED
    BY <2>2, <2>3
<1>6. \A i \in Nat : i \in S => i + 1 \in S
  BY <1>5
<1>7. Nat \subseteq S
  BY <1>4, <1>6, SetInduction, Zenon
<1>8. QED
  BY <1>2, <1>7

(* A tree with every node above level d expanded holds every node within   *)
(* d edges, and no deeper than it is away.                                 *)
LEMMA SettledNear ==
  ASSUME SearchInv, NEW k \in Nat, \A m \in Waiting : nodeMap[m].depth >= k
  PROVE  \A n \in Within(k) : n \in DOMAIN nodeMap /\ nodeMap[n].depth <= k
<1> DEFINE B == [i \in 0..k |-> {n \in DOMAIN nodeMap : nodeMap[n].depth <= i}]
<1>1. \A n \in DOMAIN nodeMap : nodeMap[n].depth \in Nat
  BY DEF SearchInv, PathInv, TypeOK, dfsNode
<1>2. from \in B[0]
  BY DEF SearchInv, BreadthFirst, PathInv, Tree
<1>3. ASSUME NEW i \in 0..(k - 1), NEW n \in B[i]
      PROVE  n \in B[i + 1] /\ neighbors[n] \subseteq B[i + 1]
  <2>1. n \in DOMAIN nodeMap /\ nodeMap[n].depth <= i /\ i < k /\ i + 1 \in 0..k
    OBVIOUS
  <2>2. n \notin Waiting
    BY <1>1, <2>1
  <2>3. \A x \in neighbors[n] : x \in DOMAIN nodeMap /\ nodeMap[x].depth <= nodeMap[n].depth + 1
    BY <2>1, <2>2 DEF SearchInv, BreadthFirst, Expanded
  <2>4. QED
    BY <1>1, <2>1, <2>3
<1>4. B[k] = {n \in DOMAIN nodeMap : nodeMap[n].depth <= k}
  OBVIOUS
<1> HIDE DEF B
<1>5. Within(k) \subseteq B[k]
  BY <1>2, <1>3, WithinInduction
<1>6. QED
  BY <1>4, <1>5

(* Whatever the graph, no path to the target is shorter than the one       *)
(* returned, although nodes are queued again and again.                    *)
THEOREM PathIsShortest == Spec => []PathShortest
<1>1. SearchInv => PathShortest
  <2> SUFFICES ASSUME SearchInv, pc = "found", Len(path) > 1, to \in Within(Len(path) - 2)
               PROVE  FALSE
    BY DEF PathShortest
  <2>1. /\ Len(path) \in Nat /\ Head(path) = from /\ nodeMap[from].depth = 0
        /\ to \in DOMAIN nodeMap /\ Settled(nodeMap[to].depth)
        /\ Len(path) + nodeMap[Head(path)].depth = nodeMap[to].depth + 1
    BY DEF SearchInv, BreadthFirst, PathInv, TypeOK
  <2>2. nodeMap[to].depth \in Nat /\ \A n \in DOMAIN nodeMap : nodeMap[n].depth \in Nat
    BY <2>1 DEF SearchInv, PathInv, TypeOK, dfsNode
  <2> DEFINE k == Len(path) - 2
  <2>3. k \in Nat /\ nodeMap[to].depth = k + 1
    BY <2>1, <2>2
  <2>4. \A m \in Waiting : nodeMap[m].depth >= k
    BY <2>1, <2>2, <2>3 DEF Settled, Waiting
  <2>5. nodeMap[to].depth <= k
    BY <2>3, <2>4, SettledNear
  <2>6. QED
    BY <2>3, <2>5
<1>2. QED
  BY <1>1, SearchHolds, PTL

(* Whatever the graph, a search that gives up has not missed a target      *)
(* closer than the maximum length.                                         *)
THEOREM NearTargetIsFound == Spec => []NearTargetFound
<1>1. SearchInv => NearTargetFound
  <2> SUFFICES ASSUME SearchInv, pc = "notFound", maxLength > 0, to \in Within(maxLength - 1)
               PROVE  FALSE
    BY DEF NearTargetFound
  <2> DEFINE k == maxLength - 1
  <2>1. k \in Nat /\ k < maxLength /\ Settled(maxLength)
    BY DEF SearchInv, BreadthFirst, PathInv, TypeOK
  <2>2. \A n \in DOMAIN nodeMap : nodeMap[n].depth \in Nat
    BY DEF SearchInv, PathInv, TypeOK, dfsNode
  <2>3. maxLength \in Nat /\ \A m \in Waiting : nodeMap[m].depth >= maxLength
    BY <2>1 DEF Settled, SearchInv, PathInv, TypeOK
  <2>4. \A m \in Waiting : nodeMap[m].depth >= k
    BY <2>1, <2>2, <2>3 DEF Waiting
  <2>5. to \in DOMAIN nodeMap /\ nodeMap[to].depth <= k
    BY <2>1, <2>4, SettledNear
  <2>6. to \in Waiting
    BY <2>5 DEF SearchInv, BreadthFirst, Expanded
  <2>7. QED
    BY <2>1, <2>2, <2>3, <2>5, <2>6
<1>2. QED
  BY <1>1, SearchHolds, PTL
====
