--------------------------- MODULE PkgTrie_proofs ---------------------------
(***************************************************************************)
(* Theorems about the ingestion of packages, for any number of requests,   *)
(* packages, levels and IDs.                                               *)
(***************************************************************************)
EXTENDS PkgTrie, TLAPS, WellFoundedInduction

(***************************************************************************)
(* Types.  All of TypeOK but for the keys in the index, which the links of *)
(* module PkgLinks share.                                                  *)
(***************************************************************************)
CoreOK ==
  /\ DOMAIN store \subseteq Keys
  /\ \A k \in DOMAIN store : store[k] \in Node
  /\ DOMAIN index \subseteq IDs
  /\ nextID \in 0..MaxID
  /\ th \in [Threads -> {Idle} \cup Busy]
  /\ answers \subseteq Packages \X [Levels -> IDs \cup {NoID}]
  /\ faults \in [reads : 0..MaxReadFaults, writes : 0..MaxWriteFaults,
                 restarts : 0..MaxRestarts]

LEMMA KeyType ==
  ASSUME CoreOK, NEW t \in Threads, th[t] \in Busy
  PROVE  KeyOf(t) \in Keys
<1>1. th[t].lvl \in Levels /\ th[t].pkg \in Packages
  BY DEF Busy
<1>2. th[t].parent.node.id \in IDs \cup {NoID}
  BY DEF Busy, Root, Object, Node, NewNode
<1>3. th[t].pkg[th[t].lvl] \in Segments
  BY <1>1 DEF Segments
<1>4. QED
  BY <1>1, <1>2, <1>3 DEF KeyOf, Keys

(* A request with an object of a lower level has that object as parent.    *)
LEMMA NewIDType ==
  ASSUME CoreOK, nextID < MaxID
  PROVE  NewID \in IDs /\ NewID = nextID + 1 /\ NewNode(NewID) \in Node
BY TrieAssumption DEF CoreOK, NewID, IDs, NewNode, Node

LEMMA DescendType ==
  ASSUME CoreOK, NEW t \in Threads, th[t] \in Busy,
         NEW k \in Keys, NEW n \in Node, Descend(t, k, n)
  PROVE  /\ th' \in [Threads -> {Idle} \cup Busy]
         /\ answers' \subseteq Packages \X [Levels -> IDs \cup {NoID}]
<1> DEFINE ids == [th[t].ids EXCEPT ![th[t].lvl] = n.id]
<1>1. ids \in [Levels -> IDs \cup {NoID}]
  BY DEF Busy, Node
<1>2. CASE th[t].lvl = Depth
  <2>1. th' = [th EXCEPT ![t] = Idle] /\ answers' = answers \cup {<<th[t].pkg, ids>>}
    BY <1>2 DEF Descend
  <2>2. th[t].pkg \in Packages
    BY DEF Busy
  <2>3. QED
    BY <1>1, <2>1, <2>2 DEF CoreOK
<1>3. CASE th[t].lvl # Depth
  <2> DEFINE r == At("read", th[t].pkg, th[t].lvl + 1, [key |-> k, node |-> n], ids)
  <2>1. th' = [th EXCEPT ![t] = r] /\ answers' = answers
    BY <1>3 DEF Descend
  <2>2. th[t].lvl + 1 \in Levels
    BY <1>3, TrieAssumption DEF Busy, Levels
  <2>3. r \in Busy
    BY <1>1, <2>2 DEF Busy, At, Object
  <2>4. QED
    BY <2>1, <2>3 DEF CoreOK
<1>4. QED
  BY <1>2, <1>3

LEMMA PutType ==
  ASSUME NEW D, NEW R, NEW f, DOMAIN f \subseteq D, \A x \in DOMAIN f : f[x] \in R,
         NEW k \in D, NEW v \in R
  PROVE  /\ DOMAIN Put(f, k, v) = DOMAIN f \cup {k}
         /\ DOMAIN Put(f, k, v) \subseteq D
         /\ \A x \in DOMAIN Put(f, k, v) : Put(f, k, v)[x] \in R
BY DEF Put
(***************************************************************************)
(* Type correctness.  The object a request holds is that of the level      *)
(* above, and its node is in the store: nodes are never removed, not even  *)
(* by a fault or a restart.                                                *)
(***************************************************************************)
InHand(t) ==
  IF th[t].lvl = 1 THEN th[t].parent = Root
  ELSE /\ th[t].parent \in Object
       /\ th[t].parent.key[1] = th[t].lvl - 1
       /\ th[t].parent.key \in DOMAIN store

TrieInv ==
  /\ CoreOK
  /\ \A t \in Threads : th[t] \in Busy => InHand(t)

(* The store after the first two writes of an insertion.                   *)
Nodes(t) == Put(store, KeyOf(t), NewNode(NewID))

LEMMA BusyIs ==
  ASSUME CoreOK, NEW t \in Threads
  PROVE  /\ th[t] = Idle <=> th[t] \notin Busy
         /\ th[t].pc \in {"read", "write"} => th[t] \in Busy
BY DEF CoreOK, Idle, Busy

LEMMA NodesShape ==
  ASSUME TrieInv, NEW t \in Threads, th[t] \in Busy, nextID < MaxID
  PROVE  /\ DOMAIN Nodes(t) = DOMAIN store \cup {KeyOf(t)}
         /\ DOMAIN Nodes(t) \subseteq Keys
         /\ \A k \in DOMAIN Nodes(t) : Nodes(t)[k] \in Node
         /\ Nodes(t)[KeyOf(t)] = NewNode(NewID)
         /\ \A k \in DOMAIN store : k # KeyOf(t) => Nodes(t)[k] = store[k]
<1>1. KeyOf(t) \in Keys /\ NewNode(NewID) \in Node
  BY KeyType, NewIDType DEF TrieInv
<1>2. DOMAIN store \subseteq Keys /\ \A k \in DOMAIN store : store[k] \in Node
  BY DEF TrieInv, CoreOK
<1>3. /\ DOMAIN Nodes(t) = DOMAIN store \cup {KeyOf(t)}
      /\ DOMAIN Nodes(t) \subseteq Keys
      /\ \A k \in DOMAIN Nodes(t) : Nodes(t)[k] \in Node
  BY <1>1, <1>2, PutType DEF Nodes
<1>4. QED
  BY <1>3 DEF Nodes, Put

(* The parent's node after the third write of an insertion.                *)
Parent(t) ==
  [IF Remote THEN th[t].parent.node ELSE store[th[t].parent.key]
     EXCEPT !.kids = @ \cup {NewID}]

LEMMA LinkShape ==
  ASSUME TrieInv, NEW t \in Threads, th[t] \in Busy, th[t].lvl # 1,
         nextID < MaxID
  PROVE  LET linked == LinkChild(Nodes(t), th[t].parent, NewID)
         IN /\ DOMAIN linked = DOMAIN store \cup {KeyOf(t)}
            /\ DOMAIN linked \subseteq Keys
            /\ \A k \in DOMAIN linked : linked[k] \in Node
            /\ linked[KeyOf(t)] = NewNode(NewID)
            /\ th[t].parent.key # KeyOf(t)
            /\ linked[th[t].parent.key] = Parent(t)
            /\ \A k \in DOMAIN store :
                 k \notin {KeyOf(t), th[t].parent.key} => linked[k] = store[k]
<1> DEFINE key == th[t].parent.key
           linked == LinkChild(Nodes(t), th[t].parent, NewID)
<1>1. /\ th[t].parent \in Object
      /\ key \in DOMAIN store
      /\ key[1] = th[t].lvl - 1
  BY DEF TrieInv, InHand
<1>2. key # KeyOf(t)
  <2>1. KeyOf(t)[1] = th[t].lvl
    BY DEF KeyOf
  <2>2. th[t].lvl \in Nat
    BY DEF Busy, Levels
  <2>3. QED
    BY <1>1, <2>1, <2>2
<1>3. Nodes(t)[key] = store[key]
  BY <1>1, <1>2, NodesShape
<1>4. linked = Put(Nodes(t), key, Parent(t))
  BY <1>3 DEF LinkChild, Parent
<1>5. Parent(t) \in Node
  <2>1. th[t].parent.node \in Node
    BY <1>1 DEF Object
  <2>2. store[key] \in Node
    BY <1>1 DEF TrieInv, CoreOK
  <2>3. NewID \in IDs
    BY NewIDType DEF TrieInv
  <2>4. QED
    BY <2>1, <2>2, <2>3 DEF Parent, Node
<1>6. /\ DOMAIN linked = DOMAIN store \cup {KeyOf(t)}
      /\ DOMAIN linked \subseteq Keys
      /\ \A k \in DOMAIN linked : linked[k] \in Node
  <2>1. key \in Keys /\ key \in DOMAIN Nodes(t)
    BY <1>1, NodesShape DEF Object
  <2> HIDE DEF key, linked
  <2>2. DOMAIN linked = DOMAIN Nodes(t)
    BY <1>4, <2>1 DEF Put
  <2>3. \A k \in DOMAIN linked : linked[k] = IF k = key THEN Parent(t) ELSE Nodes(t)[k]
    BY <1>4, <2>1 DEF Put
  <2>4. QED
    BY <1>5, <2>2, <2>3, NodesShape
<1>7. \A k \in DOMAIN Nodes(t) : linked[k] = IF k = key THEN Parent(t) ELSE Nodes(t)[k]
  BY <1>4 DEF Put
<1>8. linked[key] = Parent(t) /\ linked[KeyOf(t)] = NewNode(NewID)
  BY <1>1, <1>2, <1>7, NodesShape
<1>9. \A k \in DOMAIN store : k \notin {KeyOf(t), key} => linked[k] = store[k]
  BY <1>7, NodesShape
<1>10. QED
  BY <1>2, <1>6, <1>8, <1>9

(* What an insertion, complete or broken off, does to the store and the    *)
(* index.                                                                  *)
Inserts(t) ==
  /\ th[t].pc = "write"
  /\ nextID < MaxID
  /\ nextID' = NewID
  /\ \E n \in 0..NumWrites(t) :
       /\ index' = IndexAfter(t, n)
       /\ store' = StoreAfter(t, n)

LEMMA StoreAfterIs ==
  ASSUME NEW t \in Threads, NEW n \in 0..NumWrites(t)
  PROVE  /\ n \in 0..1 => StoreAfter(t, n) = store
         /\ n = 2 => StoreAfter(t, n) = Nodes(t)
         /\ n = 3 => /\ StoreAfter(t, n) = LinkChild(Nodes(t), th[t].parent, NewID)
                     /\ th[t].lvl # 1
         /\ n \in 0..3
         /\ NumWrites(t) \in {2, 3}
BY DEF StoreAfter, Nodes, NumWrites

LEMMA InsertsType ==
  ASSUME TrieInv, NEW t \in Threads, Inserts(t)
  PROVE  /\ DOMAIN store \subseteq DOMAIN store'
         /\ DOMAIN store' \subseteq Keys
         /\ \A k \in DOMAIN store' : store'[k] \in Node
         /\ DOMAIN index' \subseteq IDs
         /\ (\A i \in DOMAIN index : index[i] \in Keys)
              => \A i \in DOMAIN index' : index'[i] \in Keys
         /\ nextID' \in 0..MaxID
<1>1. th[t] \in Busy
  BY BusyIs DEF Inserts, TrieInv
<1>2. PICK n \in 0..NumWrites(t) :
        index' = IndexAfter(t, n) /\ store' = StoreAfter(t, n)
  BY DEF Inserts
<1>3. /\ DOMAIN store \subseteq DOMAIN store'
      /\ DOMAIN store' \subseteq Keys
      /\ \A k \in DOMAIN store' : store'[k] \in Node
  <2>1. CASE n \in 0..1
    BY <1>2, <2>1, StoreAfterIs DEF TrieInv, CoreOK
  <2>2. CASE n = 2
    BY <1>1, <1>2, <2>2, StoreAfterIs, NodesShape DEF Inserts
  <2>3. CASE n = 3
    <3>1. store' = LinkChild(Nodes(t), th[t].parent, NewID) /\ th[t].lvl # 1
      BY <1>2, <2>3, StoreAfterIs
    <3>2. QED
      BY <1>1, <3>1, LinkShape DEF Inserts
  <2>4. QED
    BY <2>1, <2>2, <2>3, StoreAfterIs
<1>4. NewID \in IDs /\ NewID = nextID + 1 /\ KeyOf(t) \in Keys
  BY <1>1, KeyType, NewIDType DEF TrieInv, Inserts
<1>5. /\ DOMAIN index' \subseteq IDs
      /\ (\A i \in DOMAIN index : index[i] \in Keys)
           => \A i \in DOMAIN index' : index'[i] \in Keys
  <2>1. DOMAIN index \subseteq IDs
    BY DEF TrieInv, CoreOK
  <2>2. CASE index' = index
    BY <2>1, <2>2
  <2>3. CASE index' = Put(index, NewID, KeyOf(t))
    BY <1>4, <2>1, <2>3 DEF Put
  <2>4. QED
    BY <1>2, <2>2, <2>3 DEF IndexAfter
<1>6. nextID' \in 0..MaxID
  BY <1>4, TrieAssumption DEF Inserts, IDs
<1>7. QED
  BY <1>3, <1>5, <1>6
(* The requests, whose steps either leave th alone but for t's place or    *)
(* take t one level down, keep in hand what is stored.                     *)
LEMMA DescendHand ==
  ASSUME TrieInv, NEW t \in Threads, th[t] \in Busy, NEW n \in Node,
         Descend(t, KeyOf(t), n),
         DOMAIN store \subseteq DOMAIN store', KeyOf(t) \in DOMAIN store'
  PROVE  \A u \in Threads : th'[u] \in Busy => InHand(u)'
<1> SUFFICES ASSUME NEW u \in Threads, th'[u] \in Busy
             PROVE  InHand(u)'
  OBVIOUS
<1>1. CASE u # t
  <2>1. th'[u] = th[u]
    BY <1>1 DEF Descend, TrieInv, CoreOK
  <2>2. QED
    BY <2>1 DEF TrieInv, InHand
<1>2. CASE u = t
  <2>1. th[t].lvl # Depth
    BY <1>2 DEF Descend, TrieInv, CoreOK, Busy, Idle
  <2>2. /\ th'[t].lvl = th[t].lvl + 1
        /\ th'[t].parent = [key |-> KeyOf(t), node |-> n]
    BY <2>1 DEF Descend, TrieInv, CoreOK, At
  <2>3. th[t].lvl \in Levels /\ th[t].lvl \in Nat \ {0}
    BY DEF Busy, Levels
  <2>4. KeyOf(t) \in Keys
    BY KeyType DEF TrieInv
  <2>5. KeyOf(t)[1] = th[t].lvl
    BY DEF KeyOf
  <2>6. th'[t].parent \in Object
    BY <2>2, <2>4 DEF Object
  <2>7. QED
    BY <1>2, <2>2, <2>3, <2>5, <2>6 DEF InHand
<1>3. QED
  BY <1>1, <1>2

(* So do steps that move t without leaving its level, or end its request.  *)
LEMMA StayHand ==
  ASSUME TrieInv, NEW t \in Threads, DOMAIN store \subseteq DOMAIN store',
         \/ th' = [th EXCEPT ![t].pc = "write"] /\ th[t] \in Busy
         \/ th' = [th EXCEPT ![t] = Idle]
         \/ \E p \in Packages : th' = [th EXCEPT ![t] = At("read", p, 1, Root, NoIDs)]
         \/ UNCHANGED th
         \/ th' = [u \in Threads |-> Idle]
  PROVE  /\ th' \in [Threads -> {Idle} \cup Busy]
         /\ \A u \in Threads : th'[u] \in Busy => InHand(u)'
<1> USE DEF TrieInv, CoreOK
<1>1. CASE th' = [th EXCEPT ![t].pc = "write"] /\ th[t] \in Busy
  <2>1. [th[t] EXCEPT !.pc = "write"] \in Busy
    BY <1>1 DEF Busy
  <2>2. /\ th' \in [Threads -> {Idle} \cup Busy]
        /\ th'[t].lvl = th[t].lvl /\ th'[t].parent = th[t].parent
        /\ \A u \in Threads : u # t => th'[u] = th[u]
    BY <1>1, <2>1 DEF Busy
  <2>3. ASSUME NEW u \in Threads, th'[u] \in Busy
        PROVE  InHand(u)'
    BY <1>1, <2>2, <2>3 DEF InHand
  <2>4. QED
    BY <2>2, <2>3
<1>2. CASE th' = [th EXCEPT ![t] = Idle]
  BY <1>2 DEF InHand, Idle, Busy
<1>3. ASSUME NEW p \in Packages, th' = [th EXCEPT ![t] = At("read", p, 1, Root, NoIDs)]
      PROVE  /\ th' \in [Threads -> {Idle} \cup Busy]
             /\ \A u \in Threads : th'[u] \in Busy => InHand(u)'
  <2> DEFINE r == At("read", p, 1, Root, NoIDs)
  <2>1. r \in Busy /\ r.lvl = 1 /\ r.parent = Root
    BY TrieAssumption DEF Busy, At, Levels, NoIDs
  <2>2. th'[t] = r /\ \A u \in Threads : u # t => th'[u] = th[u]
    BY <1>3
  <2> HIDE DEF r
  <2>3. th' \in [Threads -> {Idle} \cup Busy]
    BY <1>3, <2>1 DEF r
  <2>4. ASSUME NEW u \in Threads, th'[u] \in Busy
        PROVE  InHand(u)'
    BY <2>1, <2>2, <2>4 DEF InHand
  <2>5. QED
    BY <2>3, <2>4
<1>4. CASE UNCHANGED th
  BY <1>4 DEF InHand
<1>5. CASE th' = [u \in Threads |-> Idle]
  BY <1>5 DEF InHand, Idle, Busy
<1>6. QED
  BY <1>1, <1>2, <1>3, <1>4, <1>5

(* The steps that read and do not write.                                   *)
LEMMA FindInv ==
  ASSUME TrieInv, NEW t \in Threads, th[t].pc \in {"read", "write"}, Stored(t),
         Descend(t, KeyOf(t), store[KeyOf(t)]),
         UNCHANGED <<store, index, nextID, faults>>
  PROVE  TrieInv'
<1>1. th[t] \in Busy
  BY BusyIs DEF TrieInv
<1>2. store[KeyOf(t)] \in Node /\ KeyOf(t) \in Keys
  BY DEF Stored, TrieInv, CoreOK
<1>3. /\ th' \in [Threads -> {Idle} \cup Busy]
      /\ answers' \subseteq Packages \X [Levels -> IDs \cup {NoID}]
  BY <1>1, <1>2, DescendType DEF TrieInv
<1>4. \A u \in Threads : th'[u] \in Busy => InHand(u)'
  BY <1>1, <1>2, DescendHand DEF Stored
<1>5. QED
  BY <1>3, <1>4 DEF TrieInv, CoreOK

LEMMA InsertIs ==
  ASSUME NEW t \in Threads, th[t].pc = "write", Insert(t)
  PROVE  Inserts(t) /\ NumWrites(t) \in 0..NumWrites(t)
BY DEF Insert, Inserts, NumWrites

LEMMA InsertInv ==
  ASSUME TrieInv, NEW t \in Threads, th[t].pc = "write", Insert(t),
         UNCHANGED faults \/ ReadFault
  PROVE  TrieInv'
<1>1. th[t] \in Busy /\ nextID < MaxID
  BY BusyIs DEF TrieInv, Insert
<1>2. /\ DOMAIN store \subseteq DOMAIN store'
      /\ DOMAIN store' \subseteq Keys
      /\ \A k \in DOMAIN store' : store'[k] \in Node
      /\ DOMAIN index' \subseteq IDs
      /\ nextID' \in 0..MaxID
  BY InsertIs, InsertsType
<1>3. KeyOf(t) \in Keys /\ NewNode(NewID) \in Node
  BY <1>1, KeyType, NewIDType DEF TrieInv
<1>4. KeyOf(t) \in DOMAIN store'
  <2>1. store' = StoreAfter(t, NumWrites(t)) /\ NumWrites(t) \in 0..NumWrites(t)
    BY InsertIs DEF Insert
  <2>2. CASE NumWrites(t) = 2
    BY <1>1, <2>1, <2>2, StoreAfterIs, NodesShape
  <2>3. CASE NumWrites(t) = 3
    <3>1. store' = LinkChild(Nodes(t), th[t].parent, NewID) /\ th[t].lvl # 1
      BY <2>1, <2>3, StoreAfterIs
    <3>2. QED
      BY <1>1, <3>1, LinkShape
  <2>4. QED
    BY <2>1, <2>2, <2>3, StoreAfterIs
<1>5. /\ th' \in [Threads -> {Idle} \cup Busy]
      /\ answers' \subseteq Packages \X [Levels -> IDs \cup {NoID}]
  BY <1>1, <1>3, DescendType DEF TrieInv, Insert
<1>6. \A u \in Threads : th'[u] \in Busy => InHand(u)'
  BY <1>1, <1>2, <1>3, <1>4, DescendHand DEF Insert
<1>7. faults' \in [reads : 0..MaxReadFaults, writes : 0..MaxWriteFaults,
                   restarts : 0..MaxRestarts]
  BY TrieAssumption DEF TrieInv, CoreOK, ReadFault
<1>8. QED
  BY <1>2, <1>5, <1>6, <1>7 DEF TrieInv, CoreOK

LEMMA TrieInit == Init => TrieInv
BY TrieAssumption DEF Init, TrieInv, CoreOK, Idle, Busy

(* The faults of a write that fails.                                       *)
LEMMA FaultTypes ==
  ASSUME CoreOK, WriteFault \/ BothFault
  PROVE  /\ faults' \in [reads : 0..MaxReadFaults, writes : 0..MaxWriteFaults,
                         restarts : 0..MaxRestarts]
         /\ faults'.restarts = faults.restarts
         /\ BothFault => faults'.reads # 0
<1>1. faults \in [reads : 0..MaxReadFaults, writes : 0..MaxWriteFaults,
                  restarts : 0..MaxRestarts]
  BY DEF CoreOK
<1>2. MaxReadFaults \in Nat /\ MaxWriteFaults \in Nat
  BY TrieAssumption
<1>3. CASE WriteFault /\ ~BothFault
  BY <1>1, <1>2, <1>3 DEF WriteFault
<1>4. CASE BothFault
  BY <1>1, <1>2, <1>4 DEF BothFault
<1>5. QED
  BY <1>3, <1>4

(* What the steps of a request write.                                      *)
LEMMA StepWrites ==
  ASSUME NEW t \in Threads, Step(t)
  PROVE  UNCHANGED <<store, index, nextID>> \/ Inserts(t)
<1>1. WriteFails(t) => Inserts(t)
  BY DEF WriteFails, Inserts
<1>2. QED
  BY <1>1, InsertIs
     DEF Step, IngestPackage, ReadFinds, ReadMisses, ReadFails,
         RecheckFinds, RecheckMisses, RecheckFails

LEMMA TrieStep ==
  ASSUME TrieInv, NEW t \in Threads, Step(t)
  PROVE  TrieInv'
<1>1. ASSUME NEW p \in Packages, IngestPackage(t, p)
      PROVE  TrieInv'
  BY <1>1, StayHand DEF IngestPackage, TrieInv, CoreOK
<1>2. ASSUME ReadFinds(t) \/ RecheckFinds(t)
      PROVE  TrieInv'
  BY <1>2, FindInv DEF ReadFinds, RecheckFinds
<1>3. ASSUME ReadMisses(t)
      PROVE  TrieInv'
  BY <1>3, StayHand, BusyIs DEF ReadMisses, TrieInv, CoreOK
<1>4. ASSUME ReadFails(t)
      PROVE  TrieInv'
  <2>1. /\ th' \in [Threads -> {Idle} \cup Busy]
        /\ \A u \in Threads : th'[u] \in Busy => InHand(u)'
    BY <1>4, StayHand, BusyIs DEF ReadFails, TrieInv
  <2>2. faults' \in [reads : 0..MaxReadFaults, writes : 0..MaxWriteFaults,
                     restarts : 0..MaxRestarts]
    BY <1>4, TrieAssumption DEF TrieInv, CoreOK, ReadFault, ReadFails
  <2>3. QED
    BY <1>4, <2>1, <2>2 DEF ReadFails, TrieInv, CoreOK
<1>5. ASSUME RecheckMisses(t) \/ RecheckFails(t)
      PROVE  TrieInv'
  BY <1>5, InsertInv DEF RecheckMisses, RecheckFails
<1>6. ASSUME WriteFails(t)
      PROVE  TrieInv'
  <2>1. Inserts(t)
    BY <1>6 DEF WriteFails, Inserts
  <2>2. /\ th' \in [Threads -> {Idle} \cup Busy]
        /\ \A u \in Threads : th'[u] \in Busy => InHand(u)'
    BY <1>6, <2>1, InsertsType, StayHand DEF WriteFails
  <2>3. faults' \in [reads : 0..MaxReadFaults, writes : 0..MaxWriteFaults,
                     restarts : 0..MaxRestarts]
    BY <1>6, FaultTypes DEF WriteFails, TrieInv
  <2>4. QED
    BY <1>6, <2>1, <2>2, <2>3, InsertsType DEF WriteFails, TrieInv, CoreOK
<1>7. QED
  BY <1>1, <1>2, <1>3, <1>4, <1>5, <1>6 DEF Step

LEMMA TrieNext == TrieInv /\ [Next]_vars => TrieInv'
<1> SUFFICES ASSUME TrieInv, [Next]_vars
             PROVE  TrieInv'
  OBVIOUS
<1>1. CASE Restart
  <2>1. /\ th' \in [Threads -> {Idle} \cup Busy]
        /\ \A u \in Threads : th'[u] \in Busy => InHand(u)'
    BY <1>1 DEF Restart, Idle, Busy
  <2>2. faults' \in [reads : 0..MaxReadFaults, writes : 0..MaxWriteFaults,
                     restarts : 0..MaxRestarts]
    BY <1>1, TrieAssumption DEF TrieInv, CoreOK, Restart
  <2>3. nextID' \in 0..MaxID
    BY <1>1, TrieAssumption DEF Restart
  <2>4. QED
    BY <1>1, <2>1, <2>2, <2>3 DEF Restart, TrieInv, CoreOK
<1>2. CASE UNCHANGED vars
  BY <1>2 DEF vars, TrieInv, CoreOK, InHand
<1>3. QED
  BY <1>1, <1>2, TrieStep DEF Next

LEMMA TrieHolds == Spec => []TrieInv
BY TrieInit, TrieNext, PTL DEF Spec

(* Whatever fails, and across restarts, every state of the backend is well *)
(* typed.                                                                  *)
THEOREM TypeCorrect == Spec => []TypeOK
<1> DEFINE Types == TrieInv /\ \A i \in DOMAIN index : index[i] \in Keys
<1>1. Init => Types
  BY TrieInit DEF Init
<1>2. Types /\ [Next]_vars => Types'
  <2> SUFFICES ASSUME Types, [Next]_vars
               PROVE  \A i \in DOMAIN index' : index'[i] \in Keys
    BY TrieNext
  <2>1. UNCHANGED index \/ \E t \in Threads : Inserts(t)
    BY StepWrites DEF Next, Restart, vars
  <2>2. QED
    BY <2>1, InsertsType
<1>3. Types => TypeOK
  BY DEF TrieInv, CoreOK, TypeOK
<1>4. QED
  BY <1>1, <1>2, <1>3, PTL DEF Spec
(***************************************************************************)
(* As long as the server is not restarted, an ID leads through the index   *)
(* to the one node that has it, whatever reads and writes fail: the ID is  *)
(* new and the index entry is written before the node.  The invariant has  *)
(* to hold of the objects in hand too, for they are written back.          *)
(***************************************************************************)
Indexed(k, i) == i <= nextID /\ i \in DOMAIN index /\ index[i] = k

IndexInv ==
  /\ TrieInv
  /\ faults.restarts = 0
  /\ \A k \in DOMAIN store : Indexed(k, store[k].id)
  /\ \A t \in Threads : th[t] \in Busy /\ th[t].lvl # 1 =>
       Indexed(th[t].parent.key, th[t].parent.node.id)

(* The same of the next state's index, for a value of this state.          *)
StaysIndexed(k, i) == i <= nextID' /\ i \in DOMAIN index' /\ index'[i] = k

LEMMA InsertsIndexed ==
  ASSUME TrieInv, NEW t \in Threads, Inserts(t)
  PROVE  \A k, i : Indexed(k, i) => StaysIndexed(k, i)
<1> SUFFICES ASSUME NEW k, NEW i, Indexed(k, i)
             PROVE  StaysIndexed(k, i)
  OBVIOUS
<1>1. nextID \in Nat /\ nextID' = nextID + 1 /\ NewID = nextID + 1
  BY TrieAssumption DEF Inserts, NewID, TrieInv, CoreOK
<1>2. index' = index \/ index' = Put(index, NewID, KeyOf(t))
  BY DEF Inserts, IndexAfter
<1>3. i <= nextID /\ i \in DOMAIN index /\ index[i] = k
  BY DEF Indexed
<1>4. i \in IDs
  BY <1>3 DEF TrieInv, CoreOK
<1>5. i # NewID /\ i <= nextID'
  BY <1>1, <1>3, <1>4 DEF IDs
<1>6. i \in DOMAIN index' /\ index'[i] = k
  BY <1>2, <1>3, <1>5 DEF Put
<1>7. QED
  BY <1>5, <1>6 DEF StaysIndexed

LEMMA InsertsIndex ==
  ASSUME IndexInv, NEW t \in Threads, Inserts(t)
  PROVE  \A k \in DOMAIN store' : StaysIndexed(k, store'[k].id)
<1>1. th[t] \in Busy /\ TrieInv /\ nextID < MaxID
  BY BusyIs DEF Inserts, IndexInv, TrieInv
<1>2. PICK n \in 0..NumWrites(t) :
        index' = IndexAfter(t, n) /\ store' = StoreAfter(t, n)
  BY DEF Inserts
<1>3. \A k \in DOMAIN store : StaysIndexed(k, store[k].id)
  BY <1>1, InsertsIndexed DEF IndexInv
<1>4. n >= 1 => StaysIndexed(KeyOf(t), NewID)
  <2>1. SUFFICES ASSUME n >= 1 PROVE StaysIndexed(KeyOf(t), NewID)
    OBVIOUS
  <2>2. index' = Put(index, NewID, KeyOf(t))
    BY <1>2, <2>1 DEF IndexAfter
  <2>3. nextID' = NewID /\ NewID <= NewID
    BY <1>1, NewIDType DEF Inserts, TrieInv, IDs
  <2>4. QED
    BY <2>2, <2>3 DEF StaysIndexed, Put
<1>5. NewNode(NewID).id = NewID
  BY DEF NewNode
<1>6. CASE n \in 0..1
  BY <1>2, <1>3, <1>6, StoreAfterIs
<1>7. CASE n = 2
  <2>1. store' = Nodes(t)
    BY <1>2, <1>7, StoreAfterIs
  <2>2. /\ DOMAIN store' = DOMAIN store \cup {KeyOf(t)}
        /\ store'[KeyOf(t)] = NewNode(NewID)
        /\ \A k \in DOMAIN store : k # KeyOf(t) => store'[k] = store[k]
    BY <1>1, <2>1, NodesShape
  <2>3. StaysIndexed(KeyOf(t), NewID)
    BY <1>4, <1>7
  <2>4. QED
    BY <1>3, <1>5, <2>2, <2>3
<1>8. CASE n = 3
  <2>1. store' = LinkChild(Nodes(t), th[t].parent, NewID) /\ th[t].lvl # 1
    BY <1>2, <1>8, StoreAfterIs
  <2> DEFINE key == th[t].parent.key
  <2>2. /\ DOMAIN store' = DOMAIN store \cup {KeyOf(t)}
        /\ store'[KeyOf(t)] = NewNode(NewID)
        /\ store'[key] = Parent(t)
        /\ \A k \in DOMAIN store : k \notin {KeyOf(t), key} => store'[k] = store[k]
    BY <1>1, <2>1, LinkShape
  <2>3. Parent(t).id = IF Remote THEN th[t].parent.node.id ELSE store[key].id
    <3>1. th[t].parent \in Object /\ key \in DOMAIN store
      BY <1>1, <2>1 DEF TrieInv, InHand
    <3>2. th[t].parent.node \in Node /\ store[key] \in Node
      BY <1>1, <3>1 DEF TrieInv, CoreOK, Object
    <3>3. QED
      BY <3>2 DEF Parent, Node
  <2>4. StaysIndexed(key, Parent(t).id)
    <3>1. StaysIndexed(key, th[t].parent.node.id)
      BY <1>1, <2>1, InsertsIndexed DEF IndexInv
    <3>2. key \in DOMAIN store
      BY <1>1, <2>1 DEF TrieInv, InHand
    <3>3. QED
      BY <1>3, <2>3, <3>1, <3>2
  <2>5. QED
    BY <1>4, <1>5, <1>8, <2>2, <2>4, <1>3
<1>9. QED
  BY <1>6, <1>7, <1>8, StoreAfterIs

HandStaysIndexed ==
  \A u \in Threads : th'[u] \in Busy /\ th'[u].lvl # 1 =>
    StaysIndexed(th'[u].parent.key, th'[u].parent.node.id)

DescendsIndexed(t, n) ==
  th[t] \in Busy /\ Descend(t, KeyOf(t), n) /\ StaysIndexed(KeyOf(t), n.id)

(* What stays in hand, or comes into hand, is indexed.                     *)
LEMMA HandIndexed ==
  ASSUME IndexInv, NEW t \in Threads,
         \A k, i : Indexed(k, i) => StaysIndexed(k, i),
         \/ \E n : DescendsIndexed(t, n)
         \/ th[t] \in Busy /\ th' = [th EXCEPT ![t].pc = "write"]
         \/ th' = [th EXCEPT ![t] = Idle]
         \/ \E p \in Packages : th' = [th EXCEPT ![t] = At("read", p, 1, Root, NoIDs)]
         \/ UNCHANGED th
  PROVE  HandStaysIndexed
<1> SUFFICES ASSUME NEW u \in Threads, th'[u] \in Busy, th'[u].lvl # 1
             PROVE  StaysIndexed(th'[u].parent.key, th'[u].parent.node.id)
  BY DEF HandStaysIndexed
<1> USE DEF IndexInv, TrieInv, CoreOK
<1>1. CASE th'[u] = th[u]
  BY <1>1
<1>2. ASSUME u = t, NEW n, DescendsIndexed(t, n)
      PROVE  StaysIndexed(th'[u].parent.key, th'[u].parent.node.id)
  <2>1. th'[t].parent = [key |-> KeyOf(t), node |-> n]
    BY <1>2 DEF DescendsIndexed, Descend, At, Idle, Busy
  <2>2. QED
    BY <1>2, <2>1 DEF DescendsIndexed
<1>3. CASE u = t /\ th[t] \in Busy /\ th' = [th EXCEPT ![t].pc = "write"]
  <2>1. th'[t] = [th[t] EXCEPT !.pc = "write"]
    BY <1>3
  <2>2. th[t] \in Busy
    BY <1>3
  <2>3. th'[t].parent = th[t].parent /\ th'[t].lvl = th[t].lvl
    BY <2>1, <2>2 DEF Busy
  <2>4. QED
    BY <1>3, <2>2, <2>3
<1>4. CASE u = t /\ th' = [th EXCEPT ![t] = Idle]
  BY <1>4 DEF Idle, Busy
<1>5. CASE u = t /\ \E p \in Packages : th' = [th EXCEPT ![t] = At("read", p, 1, Root, NoIDs)]
  BY <1>5 DEF At
<1>6. QED
  BY <1>1, <1>2, <1>3, <1>4, <1>5 DEF Descend, DescendsIndexed

LEMMA IndexStep ==
  ASSUME IndexInv, NEW t \in Threads, Step(t)
  PROVE  IndexInv'
<1>1. TrieInv /\ TrieInv'
  BY TrieStep DEF IndexInv
<1>2. faults'.restarts = 0
  BY <1>1, FaultTypes
     DEF IndexInv, TrieInv, CoreOK, Step, IngestPackage, ReadFinds, ReadMisses, ReadFails,
         ReadFault, RecheckFinds, RecheckMisses, RecheckFails, WriteFails
<1>3. UNCHANGED <<index, nextID>> => \A k, i : Indexed(k, i) => StaysIndexed(k, i)
  BY DEF Indexed, StaysIndexed
<1>4. UNCHANGED <<store, index, nextID>> =>
        \A k \in DOMAIN store' : StaysIndexed(k, store'[k].id)
  BY DEF IndexInv, Indexed, StaysIndexed
<1>5. ASSUME \/ \E p \in Packages : IngestPackage(t, p)
             \/ ReadMisses(t) \/ ReadFails(t)
      PROVE  HandStaysIndexed
  BY <1>1, <1>3, <1>5, HandIndexed, BusyIs
     DEF IngestPackage, ReadMisses, ReadFails, TrieInv
<1>6. ASSUME ReadFinds(t) \/ RecheckFinds(t)
      PROVE  HandStaysIndexed
  <2>1. th[t] \in Busy /\ Stored(t)
    BY <1>1, <1>6, BusyIs DEF ReadFinds, RecheckFinds, TrieInv
  <2>2. StaysIndexed(KeyOf(t), store[KeyOf(t)].id)
    BY <1>4, <1>6, <2>1 DEF ReadFinds, RecheckFinds, Stored
  <2>3. DescendsIndexed(t, store[KeyOf(t)])
    BY <1>6, <2>1, <2>2 DEF ReadFinds, RecheckFinds, DescendsIndexed
  <2>4. QED
    BY <1>3, <1>6, <2>3, HandIndexed DEF ReadFinds, RecheckFinds
<1>7. ASSUME th[t].pc = "write", Insert(t)
      PROVE  HandStaysIndexed
  <2>1. Inserts(t) /\ th[t] \in Busy
    BY <1>1, <1>7, BusyIs, InsertIs DEF TrieInv
  <2>2. \A k, i : Indexed(k, i) => StaysIndexed(k, i)
    BY <1>1, <2>1, InsertsIndexed
  <2>3. StaysIndexed(KeyOf(t), NewID)
    <3>1. index' = Put(index, NewID, KeyOf(t))
      BY <1>7 DEF Insert, IndexAfter, NumWrites
    <3>2. nextID' = NewID /\ NewID <= NewID
      BY <1>1, <1>7, NewIDType DEF Insert, TrieInv, IDs
    <3>3. QED
      BY <3>1, <3>2 DEF StaysIndexed, Put
  <2>4. DescendsIndexed(t, NewNode(NewID))
    BY <1>7, <2>1, <2>3 DEF Insert, DescendsIndexed, NewNode
  <2>5. QED
    BY <2>2, <2>4, HandIndexed
<1>8. ASSUME WriteFails(t)
      PROVE  HandStaysIndexed
  <2>1. Inserts(t)
    BY <1>8 DEF WriteFails, Inserts
  <2>2. QED
    BY <1>1, <1>8, <2>1, InsertsIndexed, HandIndexed DEF WriteFails
<1>9. HandStaysIndexed
  BY <1>5, <1>6, <1>7, <1>8 DEF Step, RecheckMisses, RecheckFails
<1>10. \A k \in DOMAIN store' : StaysIndexed(k, store'[k].id)
  BY <1>4, StepWrites, InsertsIndex
<1>11. QED
  BY <1>1, <1>2, <1>9, <1>10 DEF IndexInv, HandStaysIndexed, Indexed, StaysIndexed

LEMMA IndexInit == Init => IndexInv
BY TrieInit DEF Init, IndexInv, Idle, Busy

LEMMA IndexNext ==
  ASSUME IndexInv, [Next]_vars, faults'.restarts = 0
  PROVE  IndexInv'
<1>1. ~Restart
  BY DEF Restart, IndexInv, TrieInv, CoreOK
<1>2. CASE UNCHANGED vars
  BY <1>2 DEF vars, IndexInv, TrieInv, CoreOK, InHand, Indexed
<1>3. QED
  BY <1>1, <1>2, IndexStep DEF Next

LEMMA FaultsGrow ==
  ASSUME TrieInv, [Next]_vars
  PROVE  /\ faults'.restarts = 0 => faults.restarts = 0
         /\ faults'.reads = 0 => faults.reads = 0
<1>1. faults \in [reads : 0..MaxReadFaults, writes : 0..MaxWriteFaults,
                  restarts : 0..MaxRestarts]
  BY DEF TrieInv, CoreOK
<1>2. /\ faults.reads \in Nat /\ faults.restarts \in Nat
      /\ MaxReadFaults \in Nat /\ MaxRestarts \in Nat
  BY <1>1, TrieAssumption
<1>3. \/ UNCHANGED faults
      \/ faults' = [faults EXCEPT !.reads = @ + 1]
      \/ faults' = [faults EXCEPT !.writes = @ + 1]
      \/ faults' = [reads |-> faults.reads + 1, writes |-> faults.writes + 1,
                    restarts |-> faults.restarts]
      \/ faults' = [faults EXCEPT !.restarts = @ + 1]
  BY DEF Next, Step, vars, Restart, IngestPackage, ReadFinds, ReadMisses, ReadFails,
         ReadFault, RecheckFinds, RecheckMisses, RecheckFails, WriteFails, WriteFault,
         BothFault
<1>4. QED
  BY <1>1, <1>2, <1>3

(* The index leads from an ID to its node, and hence no two nodes have one *)
(* ID, until the server is restarted, whatever reads and writes fail.      *)
THEOREM IndexSurvives == Spec => []IndexSurvivesFaults
<1> DEFINE Inv == TrieInv /\ (faults.restarts = 0 => IndexInv)
<1>1. Init => Inv
  BY TrieInit, IndexInit
<1>2. Inv /\ [Next]_vars => Inv'
  BY TrieNext, FaultsGrow, IndexNext
<1>3. Inv => IndexSurvivesFaults
  BY DEF IndexInv, Indexed, IndexFindsNode, IndexSurvivesFaults
<1>4. QED
  BY <1>1, <1>2, <1>3, PTL DEF Spec

(* In particular for as long as one server process lives.                  *)
THEOREM IndexCorrect ==
  ASSUME MaxRestarts = 0
  PROVE  Spec => []IndexFindsNode
<1>1. TrieInv /\ IndexSurvivesFaults => IndexFindsNode
  BY DEF TrieInv, CoreOK, IndexSurvivesFaults
<1>2. QED
  BY <1>1, TrieHolds, IndexSurvives, PTL
-----------------------------------------------------------------------------
(***************************************************************************)
(* What clients can rely on while no read fails: the ingestion of packages *)
(* implements the registry of IDs, over both kinds of store and with       *)
(* failing writes; over a memmap, nodes only grow and every package        *)
(* answered is listed.                                                     *)
(***************************************************************************)
(* The key under which level l of package p is looked up, given the IDs of *)
(* the levels above.                                                       *)
ChainKey(p, ids, l) == <<l, IF l = 1 THEN NoID ELSE ids[l - 1], p[l]>>
Holds(k, i) == k \in DOMAIN store /\ store[k].id = i

(* A request has climbed down a chain of stored nodes and holds the last.  *)
Climbed(t) ==
  /\ \A l \in 1..(th[t].lvl - 1) :
       Holds(ChainKey(th[t].pkg, th[t].ids, l), th[t].ids[l])
  /\ th[t].lvl # 1 =>
       /\ th[t].parent.key = ChainKey(th[t].pkg, th[t].ids, th[t].lvl - 1)
       /\ th[t].parent.node.id = th[t].ids[th[t].lvl - 1]

ChainInv ==
  /\ TrieInv
  /\ \A t \in Threads : th[t] \in Busy => Climbed(t)
  /\ \A a \in answers : \A l \in Levels : Holds(ChainKey(a[1], a[2], l), a[2][l])

LEMMA KeyIsChain ==
  ASSUME ChainInv, NEW t \in Threads, th[t] \in Busy
  PROVE  KeyOf(t) = ChainKey(th[t].pkg, th[t].ids, th[t].lvl)
<1>1. CASE th[t].lvl = 1
  BY <1>1 DEF ChainInv, TrieInv, InHand, Root, NewNode, KeyOf, ChainKey
<1>2. CASE th[t].lvl # 1
  BY <1>2 DEF ChainInv, Climbed, KeyOf, ChainKey
<1>3. QED
  BY <1>1, <1>2

(* IDs of stored nodes stay.                                               *)
IDsStay == \A k \in DOMAIN store : k \in DOMAIN store' /\ store'[k].id = store[k].id

(* An insertion gives the key of the request a new ID, or breaks off       *)
(* before that.                                                            *)
LEMMA InsertsIDs ==
  ASSUME ChainInv, NEW t \in Threads, Inserts(t), ~Stored(t)
  PROVE  /\ IDsStay
         /\ \/ DOMAIN store' = DOMAIN store
            \/ /\ DOMAIN store' = DOMAIN store \cup {KeyOf(t)}
               /\ store'[KeyOf(t)].id = NewID
<1>1. th[t] \in Busy /\ TrieInv /\ nextID < MaxID
  BY BusyIs DEF Inserts, ChainInv, TrieInv
<1>2. PICK n \in 0..NumWrites(t) : store' = StoreAfter(t, n)
  BY DEF Inserts
<1>3. KeyOf(t) \notin DOMAIN store /\ NewNode(NewID).id = NewID
  BY DEF Stored, NewNode
<1>4. CASE n \in 0..1
  BY <1>2, <1>4, StoreAfterIs DEF IDsStay
<1>5. CASE n = 2
  BY <1>1, <1>2, <1>3, <1>5, StoreAfterIs, NodesShape DEF IDsStay
<1>6. CASE n = 3
  <2>1. store' = LinkChild(Nodes(t), th[t].parent, NewID) /\ th[t].lvl # 1
    BY <1>2, <1>6, StoreAfterIs
  <2> DEFINE key == th[t].parent.key
  <2>2. /\ DOMAIN store' = DOMAIN store \cup {KeyOf(t)}
        /\ store'[KeyOf(t)] = NewNode(NewID)
        /\ store'[key] = Parent(t)
        /\ \A k \in DOMAIN store : k \notin {KeyOf(t), key} => store'[k] = store[k]
    BY <1>1, <2>1, LinkShape
  <2>3. th[t].parent \in Object /\ key \in DOMAIN store
    BY <1>1, <2>1 DEF TrieInv, InHand
  <2>4. Parent(t).id = store[key].id
    <3>1. th[t].parent.node \in Node /\ store[key] \in Node
      BY <1>1, <2>3 DEF TrieInv, CoreOK, Object
    <3>2. store[key].id = th[t].parent.node.id
      <4>1. th[t].lvl - 1 \in 1..(th[t].lvl - 1)
        BY <1>1, <2>1 DEF Busy, Levels
      <4>2. QED
        BY <1>1, <2>1, <4>1 DEF ChainInv, Climbed, Holds
    <3>3. QED
      BY <3>1, <3>2 DEF Parent, Node
  <2>5. IDsStay
    BY <1>3, <2>2, <2>4 DEF IDsStay
  <2>6. QED
    BY <1>3, <2>2, <2>5
<1>7. QED
  BY <1>4, <1>5, <1>6, StoreAfterIs

(* The same of the next state's store, for values of this state.           *)
StillHolds(k, i) == k \in DOMAIN store' /\ store'[k].id = i

LEMMA StaysHeld ==
  ASSUME IDsStay
  PROVE  \A k, i : Holds(k, i) => StillHolds(k, i)
BY DEF IDsStay, Holds, StillHolds

(* A node found or inserted makes the chain of its request one longer.     *)
DescendsTo(t, n) ==
  /\ th[t] \in Busy
  /\ Descend(t, KeyOf(t), n)
  /\ StillHolds(KeyOf(t), n.id)

LongerIDs(t, n) == [th[t].ids EXCEPT ![th[t].lvl] = n.id]

LEMMA LongerChain ==
  ASSUME ChainInv, IDsStay, NEW t \in Threads, NEW n, DescendsTo(t, n)
  PROVE  /\ \A l \in 1..th[t].lvl :
              StillHolds(ChainKey(th[t].pkg, LongerIDs(t, n), l), LongerIDs(t, n)[l])
         /\ KeyOf(t) = ChainKey(th[t].pkg, LongerIDs(t, n), th[t].lvl)
         /\ LongerIDs(t, n)[th[t].lvl] = n.id
<1> DEFINE r == th[t]
           ids == LongerIDs(t, n)
<1>1. /\ r \in Busy /\ r.lvl \in Levels /\ r.lvl \in Nat \ {0}
      /\ r.ids \in [Levels -> IDs \cup {NoID}]
  BY DEF DescendsTo, Busy, Levels
<1>2. \A l \in 1..r.lvl : l \in Levels /\ l - 1 # r.lvl /\ l \in Nat \ {0}
  BY <1>1, TrieAssumption DEF Levels
<1>3. \A l \in Levels : ids[l] = IF l = r.lvl THEN n.id ELSE r.ids[l]
  BY <1>1 DEF LongerIDs
<1>4. \A l \in 1..r.lvl : ChainKey(r.pkg, ids, l) = ChainKey(r.pkg, r.ids, l)
  <2>1. SUFFICES ASSUME NEW l \in 1..r.lvl
                 PROVE  ChainKey(r.pkg, ids, l) = ChainKey(r.pkg, r.ids, l)
    OBVIOUS
  <2>2. CASE l = 1
    BY <2>2 DEF ChainKey
  <2>3. CASE l # 1
    <3>1. l - 1 \in Levels /\ l - 1 # r.lvl
      BY <1>1, <1>2, <2>3, TrieAssumption DEF Levels
    <3>2. ids[l - 1] = r.ids[l - 1]
      BY <1>3, <3>1
    <3>3. QED
      BY <3>2 DEF ChainKey
  <2>4. QED
    BY <2>2, <2>3
<1>5. KeyOf(t) = ChainKey(r.pkg, r.ids, r.lvl)
  BY <1>1, KeyIsChain
<1>6. \A l \in 1..(r.lvl - 1) : StillHolds(ChainKey(r.pkg, r.ids, l), r.ids[l])
  BY <1>1, StaysHeld DEF ChainInv, Climbed
<1>7. StillHolds(KeyOf(t), n.id)
  BY DEF DescendsTo
<1>8. r.lvl \in 1..r.lvl
  BY <1>1
<1>9. ASSUME NEW l \in 1..r.lvl
      PROVE  StillHolds(ChainKey(r.pkg, ids, l), ids[l])
  <2>1. CASE l = r.lvl
    BY <1>1, <1>3, <1>4, <1>5, <1>7, <2>1
  <2>2. CASE l # r.lvl
    <3>1. l \in 1..(r.lvl - 1) /\ l \in Levels
      BY <1>1, <1>2, <2>2
    <3>2. ids[l] = r.ids[l]
      BY <1>3, <2>2, <3>1
    <3>3. QED
      BY <1>4, <1>6, <3>1, <3>2
  <2>3. QED
    BY <2>1, <2>2
<1>10. QED
  BY <1>1, <1>3, <1>4, <1>5, <1>8, <1>9

(* What a step of a request may do to th and to answers.                   *)
LEMMA ChainStep ==
  ASSUME ChainInv, IDsStay, NEW t \in Threads,
         \/ \E n : DescendsTo(t, n)
         \/ /\ \/ th[t] \in Busy /\ th' = [th EXCEPT ![t].pc = "write"]
               \/ th' = [th EXCEPT ![t] = Idle]
               \/ \E p \in Packages : th' = [th EXCEPT ![t] = At("read", p, 1, Root, NoIDs)]
               \/ UNCHANGED th
            /\ UNCHANGED answers
  PROVE  /\ \A u \in Threads : th'[u] \in Busy => Climbed(u)'
         /\ \A a \in answers' : \A l \in Levels :
              StillHolds(ChainKey(a[1], a[2], l), a[2][l])
<1>1. th \in [Threads -> {Idle} \cup Busy]
  BY DEF ChainInv, TrieInv, CoreOK
<1>2. ASSUME NEW u \in Threads, th'[u] = th[u], th'[u] \in Busy
      PROVE  Climbed(u)'
  BY <1>2, StaysHeld DEF ChainInv, Climbed, Holds, StillHolds
<1>3. \A a \in answers : \A l \in Levels : StillHolds(ChainKey(a[1], a[2], l), a[2][l])
  BY StaysHeld DEF ChainInv
<1>4. ASSUME NEW n, DescendsTo(t, n)
      PROVE  /\ \A u \in Threads : th'[u] \in Busy => Climbed(u)'
             /\ \A a \in answers' : \A l \in Levels :
                  StillHolds(ChainKey(a[1], a[2], l), a[2][l])
  <2> DEFINE ids == LongerIDs(t, n)
  <2>1. Descend(t, KeyOf(t), n) /\ th[t].lvl \in Levels /\ th[t].lvl \in Nat \ {0}
    BY <1>4 DEF DescendsTo, Busy, Levels
  <2>2. \A u \in Threads : u # t => th'[u] = th[u]
    BY <1>1, <2>1 DEF Descend
  <2>3. CASE th[t].lvl = Depth
    <3>1. th'[t] = Idle /\ answers' = answers \cup {<<th[t].pkg, ids>>}
      BY <1>1, <2>1, <2>3 DEF Descend, LongerIDs
    <3>2. \A l \in Levels : StillHolds(ChainKey(th[t].pkg, ids, l), ids[l])
      BY <1>4, <2>3, LongerChain DEF Levels
    <3>3. \A a \in answers' : \A l \in Levels : StillHolds(ChainKey(a[1], a[2], l), a[2][l])
      BY <1>3, <3>1, <3>2
    <3>4. Idle \notin Busy
      BY DEF Idle, Busy
    <3>5. QED
      BY <1>2, <2>2, <3>1, <3>3, <3>4
  <2>4. CASE th[t].lvl # Depth
    <3>1. /\ th'[t].lvl = th[t].lvl + 1 /\ th'[t].pkg = th[t].pkg
          /\ th'[t].ids = ids
          /\ th'[t].parent = [key |-> KeyOf(t), node |-> n]
          /\ answers' = answers
      BY <1>1, <2>1, <2>4 DEF Descend, LongerIDs, At
    <3>2. (th[t].lvl + 1) - 1 = th[t].lvl
      BY <2>1
    <3>3. Climbed(t)'
      BY <1>4, <3>1, <3>2, LongerChain DEF Climbed, Holds, StillHolds
    <3>4. QED
      BY <1>2, <1>3, <2>2, <3>1, <3>3
  <2>5. QED
    BY <2>3, <2>4
<1>5. ASSUME th[t] \in Busy, th' = [th EXCEPT ![t].pc = "write"]
      PROVE  \A u \in Threads : th'[u] \in Busy => Climbed(u)'
  <2>1. th'[t] = [th[t] EXCEPT !.pc = "write"]
    BY <1>1, <1>5
  <2>2. /\ th'[t].lvl = th[t].lvl /\ th'[t].pkg = th[t].pkg
        /\ th'[t].ids = th[t].ids /\ th'[t].parent = th[t].parent
    BY <1>5, <2>1 DEF Busy
  <2>3. Climbed(t)'
    BY <1>5, <2>2, StaysHeld DEF ChainInv, Climbed, Holds, StillHolds
  <2>4. QED
    BY <1>1, <1>2, <1>5, <2>3
<1>6. ASSUME th' = [th EXCEPT ![t] = Idle]
      PROVE  \A u \in Threads : th'[u] \in Busy => Climbed(u)'
  BY <1>1, <1>2, <1>6 DEF Idle, Busy
<1>7. ASSUME NEW p \in Packages, th' = [th EXCEPT ![t] = At("read", p, 1, Root, NoIDs)]
      PROVE  \A u \in Threads : th'[u] \in Busy => Climbed(u)'
  <2>1. th'[t].lvl = 1
    BY <1>1, <1>7 DEF At
  <2>2. Climbed(t)'
    BY <2>1 DEF Climbed
  <2>3. QED
    BY <1>1, <1>2, <1>7, <2>2
<1>8. QED
  BY <1>2, <1>3, <1>4, <1>5, <1>6, <1>7
-----------------------------------------------------------------------------
(* What a step of a request does to the store.                             *)
Creates(t) ==
  /\ th[t] \in Busy
  /\ KeyOf(t) \notin DOMAIN store
  /\ DOMAIN store' = DOMAIN store \cup {KeyOf(t)}
  /\ store'[KeyOf(t)].id = nextID + 1

LEMMA InsertStores ==
  ASSUME TrieInv, NEW t \in Threads, th[t].pc = "write", Insert(t)
  PROVE  KeyOf(t) \in DOMAIN store'
<1>1. th[t] \in Busy /\ nextID < MaxID
  BY BusyIs DEF TrieInv, Insert
<1>2. store' = StoreAfter(t, NumWrites(t)) /\ NumWrites(t) \in 0..NumWrites(t)
  BY InsertIs DEF Insert
<1>3. CASE NumWrites(t) = 2
  BY <1>1, <1>2, <1>3, StoreAfterIs, NodesShape
<1>4. CASE NumWrites(t) = 3
  <2>1. store' = LinkChild(Nodes(t), th[t].parent, NewID) /\ th[t].lvl # 1
    BY <1>2, <1>4, StoreAfterIs
  <2>2. QED
    BY <1>1, <2>1, LinkShape
<1>5. QED
  BY <1>2, <1>3, <1>4, StoreAfterIs

LEMMA StepStore ==
  ASSUME ChainInv, NEW t \in Threads, Step(t), faults'.reads = 0
  PROVE  /\ IDsStay
         /\ DOMAIN store' = DOMAIN store \/ Creates(t)
         /\ \A u \in Threads : th'[u] \in Busy => Climbed(u)'
         /\ \A a \in answers' : \A l \in Levels :
              StillHolds(ChainKey(a[1], a[2], l), a[2][l])
         /\ \/ UNCHANGED answers
            \/ \E a : answers' = answers \cup {a}
<1> DEFINE Chained ==
             /\ \A u \in Threads : th'[u] \in Busy => Climbed(u)'
             /\ \A a \in answers' : \A l \in Levels :
                  StillHolds(ChainKey(a[1], a[2], l), a[2][l])
           Answered == \/ UNCHANGED answers
                       \/ \E a : answers' = answers \cup {a}
<1>1. TrieInv /\ CoreOK
  BY DEF ChainInv, TrieInv
<1>2. UNCHANGED store => IDsStay
  BY DEF IDsStay
<1>3. ASSUME NEW p \in Packages, IngestPackage(t, p)
      PROVE  UNCHANGED store /\ Chained /\ UNCHANGED answers
  BY <1>2, <1>3, ChainStep DEF IngestPackage
<1>4. CASE ReadFinds(t) \/ RecheckFinds(t)
  <2>1. th[t] \in Busy /\ Stored(t) /\ UNCHANGED store
    BY <1>1, <1>4, BusyIs DEF ReadFinds, RecheckFinds
  <2>2. DescendsTo(t, store[KeyOf(t)])
    BY <1>4, <2>1 DEF ReadFinds, RecheckFinds, DescendsTo, Stored, StillHolds
  <2>3. Chained
    BY <1>2, <2>1, <2>2, ChainStep
  <2>4. Answered
    BY <2>2 DEF DescendsTo, Descend
  <2>5. QED
    BY <1>2, <2>1, <2>3, <2>4
<1>5. CASE ReadMisses(t)
  <2>1. th[t] \in Busy
    BY <1>1, <1>5, BusyIs DEF ReadMisses
  <2>2. QED
    BY <1>2, <1>5, <2>1, ChainStep DEF ReadMisses
<1>6. ~ReadFault
  BY <1>1, TrieAssumption DEF ReadFault, CoreOK
<1>7. CASE RecheckMisses(t)
  <2>1. Inserts(t) /\ ~Stored(t) /\ th[t] \in Busy /\ nextID < MaxID
    BY <1>1, <1>7, InsertIs, BusyIs DEF RecheckMisses, Insert
  <2>2. KeyOf(t) \in DOMAIN store' /\ KeyOf(t) \notin DOMAIN store
    BY <1>1, <1>7, <2>1, InsertStores DEF RecheckMisses, Stored
  <2>3. IDsStay /\ Creates(t)
    BY <1>1, <2>1, <2>2, InsertsIDs, NewIDType DEF Creates
  <2>4. DescendsTo(t, NewNode(NewID))
    BY <1>1, <1>7, <2>1, <2>2, <2>3, NewIDType
       DEF RecheckMisses, Insert, DescendsTo, StillHolds, Creates, NewNode
  <2>5. Chained
    BY <2>3, <2>4, ChainStep
  <2>6. Answered
    BY <2>4 DEF DescendsTo, Descend
  <2>7. QED
    BY <2>3, <2>5, <2>6
<1>8. CASE WriteFails(t)
  <2>0. ~BothFault
    BY <1>1, FaultTypes
  <2>1. Inserts(t) /\ ~Stored(t) /\ th[t] \in Busy /\ nextID < MaxID
    BY <1>1, <1>8, <2>0, BusyIs DEF WriteFails, Inserts
  <2>2. IDsStay /\ (DOMAIN store' = DOMAIN store \/ Creates(t))
    BY <1>1, <2>1, InsertsIDs, NewIDType DEF Creates, Stored
  <2>3. Chained
    BY <1>8, <2>2, ChainStep DEF WriteFails
  <2>4. QED
    BY <1>8, <2>2, <2>3 DEF WriteFails
<1>9. QED
  BY <1>2, <1>3, <1>4, <1>5, <1>6, <1>7, <1>8 DEF Step, ReadFails, RecheckFails

LEMMA ChainInit == Init => ChainInv
<1> SUFFICES ASSUME Init PROVE ChainInv
  OBVIOUS
<1>1. TrieInv
  BY TrieInit
<1>2. QED
  BY <1>1 DEF Init, ChainInv, Idle, Busy

LEMMA ChainStepInv ==
  ASSUME ChainInv, NEW t \in Threads, Step(t), faults'.reads = 0
  PROVE  ChainInv'
<1>1. TrieInv'
  BY TrieStep DEF ChainInv
<1>2. /\ \A u \in Threads : th'[u] \in Busy => Climbed(u)'
      /\ \A a \in answers' : \A l \in Levels :
           StillHolds(ChainKey(a[1], a[2], l), a[2][l])
  BY StepStore
<1>3. QED
  BY <1>1, <1>2 DEF ChainInv, Holds, StillHolds

(* A restart drops the requests and leaves the store and the answers.      *)
LEMMA ChainNext ==
  ASSUME ChainInv, [Next]_vars, faults'.reads = 0
  PROVE  ChainInv'
<1>1. TrieInv'
  BY TrieNext DEF ChainInv
<1>2. CASE Restart
  BY <1>1, <1>2 DEF Restart, ChainInv, Holds, Idle, Busy
<1>3. CASE UNCHANGED vars
  BY <1>1, <1>3 DEF vars, ChainInv, Climbed, Holds
<1>4. QED
  BY <1>2, <1>3, ChainStepInv DEF Next

(* Two chains of one package are the same: a first level at which they     *)
(* differ would be two IDs under one key.                                  *)
LEMMA OneChain ==
  ASSUME NEW p, NEW a, NEW b,
         a \in [Levels -> IDs \cup {NoID}], b \in [Levels -> IDs \cup {NoID}],
         \A l \in Levels : Holds(ChainKey(p, a, l), a[l]),
         \A l \in Levels : Holds(ChainKey(p, b, l), b[l])
  PROVE  a = b
<1> DEFINE T == {l \in Levels : a[l] # b[l]}
<1>1. SUFFICES ASSUME T # {} PROVE FALSE
  <2>1. (\A l \in Levels : a[l] = b[l]) => a = b
    OBVIOUS
  <2>2. QED
    BY <2>1, Zenon
<1>2. T \subseteq Nat
  BY DEF Levels
<1> DEFINE R == OpToRel(<, Nat)
<1>3. IsWellFoundedOn(R, Nat)
  BY NatLessThanWellFounded
<1>4. \A x, y \in Nat : x < y => <<x, y>> \in R
  BY DEF OpToRel
<1> HIDE DEF R, T
<1>5. PICK l \in T : \A y \in T : ~(<<y, l>> \in R)
  BY <1>1, <1>2, <1>3, WFMin
<1>6. l \in Levels /\ a[l] # b[l] /\ l \in Nat /\ l >= 1
  BY <1>5 DEF T, Levels
<1>7. ASSUME l # 1 PROVE a[l - 1] = b[l - 1]
  <2>1. l - 1 \in Levels /\ l - 1 \in Nat /\ l - 1 < l
    BY <1>6, <1>7, TrieAssumption DEF Levels
  <2>2. l - 1 \notin T
    BY <1>4, <1>5, <1>6, <2>1
  <2>3. QED
    BY <2>1, <2>2 DEF T
<1>8. ChainKey(p, a, l) = ChainKey(p, b, l)
  BY <1>7 DEF ChainKey
<1>9. QED
  BY <1>6, <1>8 DEF Holds

(* Whoever ingests a package, before or after restarts of the server and   *)
(* failed writes, is answered with the same IDs, until a read fails.       *)
THEOREM AnswersSurvive == Spec => []AnswersSurviveRestarts
<1> DEFINE Inv == TrieInv /\ (faults.reads = 0 => ChainInv)
<1>1. Init => Inv
  BY TrieInit, ChainInit
<1>2. Inv /\ [Next]_vars => Inv'
  BY TrieNext, FaultsGrow, ChainNext
<1>3. Inv => AnswersSurviveRestarts
  <2> SUFFICES ASSUME ChainInv, NEW a \in answers, NEW b \in answers, a[1] = b[1]
               PROVE  a[2] = b[2]
    BY DEF AnswersSurviveRestarts, AnswersStable
  <2>1. /\ a[2] \in [Levels -> IDs \cup {NoID}]
        /\ b[2] \in [Levels -> IDs \cup {NoID}]
    BY DEF ChainInv, TrieInv, CoreOK
  <2>2. /\ \A l \in Levels : Holds(ChainKey(a[1], a[2], l), a[2][l])
        /\ \A l \in Levels : Holds(ChainKey(a[1], b[2], l), b[2][l])
    BY DEF ChainInv
  <2>3. QED
    BY <2>1, <2>2, OneChain
<1>4. QED
  BY <1>1, <1>2, <1>3, PTL DEF Spec
-----------------------------------------------------------------------------
(* The registry's view of a step.                                          *)
LEMMA RegistryInit == Init => Registry!Init
BY DEF Init, Registry!Init

LEMMA RegistryNext ==
  ASSUME MaxRestarts = 0, MaxReadFaults = 0
  PROVE  ChainInv /\ IndexInv /\ [Next]_vars => [Registry!Next]_(Registry!vars)
<1> SUFFICES ASSUME ChainInv, IndexInv, Next
             PROVE  [Registry!Next]_(Registry!vars)
  BY DEF vars, Registry!vars
<1> DEFINE reg == [k \in DOMAIN store |-> store[k].id]
           regNew == [k \in DOMAIN store' |-> store'[k].id]
<1>1. ~Restart
  BY DEF Restart, ChainInv, TrieInv, CoreOK
<1>2. PICK t \in Threads : Step(t)
  BY <1>1 DEF Next
<1>0. faults'.reads = 0
  BY TrieNext DEF ChainInv, TrieInv, CoreOK
<1>3. IDsStay /\ (DOMAIN store' = DOMAIN store \/ Creates(t))
  BY <1>0, <1>2, StepStore
<1>4. DOMAIN store' = DOMAIN store => regNew = reg
  BY <1>3 DEF IDsStay
<1>5. ASSUME Creates(t)
      PROVE  \E k \in DOMAIN regNew \ DOMAIN reg : Registry!Assign(k)
  <2> DEFINE k == KeyOf(t)
  <2>1. k \in DOMAIN regNew \ DOMAIN reg /\ regNew[k] = nextID + 1
    BY <1>5 DEF Creates
  <2>2. \A x \in DOMAIN reg : reg[x] # nextID + 1
    <3>1. \A x \in DOMAIN store : store[x].id \in Nat /\ store[x].id <= nextID
      BY DEF ChainInv, IndexInv, TrieInv, CoreOK, Indexed, Node, IDs
    <3>2. nextID \in Nat
      BY DEF ChainInv, TrieInv, CoreOK
    <3>3. QED
      BY <3>1, <3>2
  <2>3. k[1] = 1 \/ k[2] \in {reg[x] : x \in DOMAIN reg}
    <3>1. CASE th[t].lvl = 1
      BY <3>1 DEF KeyOf
    <3>2. CASE th[t].lvl # 1
      <4>1. th[t] \in Busy /\ th[t].lvl - 1 \in 1..(th[t].lvl - 1)
        BY <1>5, <3>2 DEF Creates, Busy, Levels
      <4>2. Holds(ChainKey(th[t].pkg, th[t].ids, th[t].lvl - 1), th[t].ids[th[t].lvl - 1])
        BY <4>1 DEF ChainInv, Climbed
      <4>3. k[2] = th[t].ids[th[t].lvl - 1]
        BY <3>2, <4>1 DEF KeyOf, ChainInv, Climbed
      <4>4. QED
        BY <4>2, <4>3 DEF Holds
    <3>3. QED
      BY <3>1, <3>2
  <2>4. regNew = [x \in DOMAIN reg \cup {k} |-> IF x = k THEN regNew[k] ELSE reg[x]]
    BY <1>3, <1>5 DEF Creates, IDsStay
  <2>5. Registry!Assign(k)
    BY <2>1, <2>2, <2>3, <2>4 DEF Registry!Assign, Registry!Assigned
  <2>6. QED
    BY <2>1, <2>5 DEF Registry!Assign, Registry!Assigned
<1>6. UNCHANGED answers \/ \E a \in answers' \ answers : Registry!Answer(a)
  <2>1. /\ \A a \in answers' : \A l \in Levels :
             StillHolds(ChainKey(a[1], a[2], l), a[2][l])
        /\ UNCHANGED answers \/ \E a : answers' = answers \cup {a}
    BY <1>0, <1>2, StepStore
  <2>2. ASSUME NEW a, answers' = answers \cup {a}
        PROVE  Registry!Answer(a)
    <3>1. \A l \in 1..Depth : StillHolds(ChainKey(a[1], a[2], l), a[2][l])
      BY <2>1, <2>2 DEF Levels
    <3>2. QED
      BY <2>2, <3>1 DEF Registry!Answer, Registry!ChainIn, StillHolds, ChainKey, NoID
  <2>3. QED
    BY <2>1, <2>2
<1>7. QED
  BY <1>3, <1>4, <1>5, <1>6 DEF Registry!Next, Registry!vars

(* Without restarts and failing reads, over both kinds of store and with   *)
(* failing writes anywhere, clients see the registry of IDs: a node keeps  *)
(* its ID, no two nodes share one, and an answer is the chain of the IDs   *)
(* of the package's nodes.                                                 *)
THEOREM RegistryRefined ==
  ASSUME MaxRestarts = 0, MaxReadFaults = 0
  PROVE  Spec => RegistrySpec
<1> DEFINE Inv == ChainInv /\ IndexInv
<1>1. Init => Inv
  BY ChainInit, IndexInit
<1>2. Inv /\ [Next]_vars => Inv'
  <2> SUFFICES ASSUME Inv, [Next]_vars PROVE Inv'
    OBVIOUS
  <2>1. faults'.reads = 0 /\ faults'.restarts = 0
    BY TrieNext DEF ChainInv, TrieInv, CoreOK
  <2>2. QED
    BY <2>1, ChainNext, IndexNext
<1>3. Inv /\ [Next]_vars => [Registry!Next]_(Registry!vars)
  BY RegistryNext
<1>4. QED
  BY <1>1, <1>2, <1>3, RegistryInit, PTL DEF Spec, RegistrySpec, Registry!Spec
(***************************************************************************)
(* A memmap: the parent's list is that of the stored node, and an          *)
(* insertion writes node and list in one critical section that cannot      *)
(* fail.                                                                   *)
(***************************************************************************)
Listed(i, kid) == \E p \in DOMAIN store : store[p].id = i /\ kid \in store[p].kids

ListedInv ==
  /\ ChainInv
  /\ \A k \in DOMAIN store : k[1] # 1 => Listed(k[2], store[k].id)

NodesGrow ==
  \A k \in DOMAIN store :
    /\ k \in DOMAIN store'
    /\ store'[k].id = store[k].id
    /\ store[k].kids \subseteq store'[k].kids

LEMMA MemInsert ==
  ASSUME ~Remote, ListedInv, NEW t \in Threads, RecheckMisses(t)
  PROVE  /\ NodesGrow
         /\ DOMAIN store' = DOMAIN store \cup {KeyOf(t)}
         /\ store'[KeyOf(t)].id = NewID
         /\ th[t].lvl # 1 =>
              \E p \in DOMAIN store' :
                store'[p].id = KeyOf(t)[2] /\ NewID \in store'[p].kids
<1>1. /\ TrieInv /\ th[t] \in Busy /\ nextID < MaxID
      /\ KeyOf(t) \notin DOMAIN store /\ NewNode(NewID).id = NewID
      /\ store' = StoreAfter(t, NumWrites(t)) /\ NumWrites(t) \in 0..NumWrites(t)
  BY BusyIs, InsertIs
     DEF RecheckMisses, Insert, Stored, NewNode, ListedInv, ChainInv, TrieInv
<1>2. CASE th[t].lvl = 1
  BY <1>1, <1>2, StoreAfterIs, NodesShape DEF NumWrites, NodesGrow
<1>3. CASE th[t].lvl # 1
  <2> DEFINE key == th[t].parent.key
  <2>1. store' = LinkChild(Nodes(t), th[t].parent, NewID)
    BY <1>1, <1>3, StoreAfterIs DEF NumWrites
  <2>2. /\ DOMAIN store' = DOMAIN store \cup {KeyOf(t)}
        /\ store'[KeyOf(t)] = NewNode(NewID)
        /\ store'[key] = Parent(t)
        /\ \A k \in DOMAIN store : k \notin {KeyOf(t), key} => store'[k] = store[k]
    BY <1>1, <1>3, <2>1, LinkShape
  <2>3. key \in DOMAIN store /\ store[key] \in Node
    BY <1>1, <1>3 DEF TrieInv, CoreOK, InHand
  <2>4. Parent(t).id = store[key].id /\ Parent(t).kids = store[key].kids \cup {NewID}
    BY <2>3 DEF Parent, Node
  <2>5. store[key].id = KeyOf(t)[2]
    <3>1. th[t].lvl - 1 \in 1..(th[t].lvl - 1)
      BY <1>1, <1>3 DEF Busy, Levels
    <3>2. QED
      BY <1>1, <1>3, <3>1 DEF ListedInv, ChainInv, Climbed, Holds, KeyOf
  <2>6. NodesGrow
    BY <1>1, <2>2, <2>4 DEF NodesGrow
  <2>7. QED
    BY <1>1, <2>2, <2>3, <2>4, <2>5, <2>6
<1>4. QED
  BY <1>2, <1>3

(* Apart from insertions, no step writes.                                  *)
LEMMA MemWrites ==
  ASSUME ~Remote, ListedInv, [Next]_vars
  PROVE  UNCHANGED store \/ \E t \in Threads : RecheckMisses(t)
<1>1. faults.reads = 0 /\ faults.writes = 0 /\ faults.restarts = 0
  BY StoreAssumption DEF ListedInv, ChainInv, TrieInv, CoreOK
<1>2. ~ReadFault /\ ~Restart /\ \A t \in Threads : ~WriteFails(t)
  BY <1>1, StoreAssumption DEF ReadFault, Restart, WriteFails, WriteFault, BothFault
<1>3. QED
  BY <1>2 DEF Next, Step, vars, IngestPackage, ReadFinds, ReadMisses, ReadFails,
              RecheckFinds, RecheckFails

LEMMA MemGrow ==
  ASSUME ~Remote, ListedInv, [Next]_vars
  PROVE  NodesGrow
<1>1. UNCHANGED store => NodesGrow
  BY DEF NodesGrow
<1>2. QED
  BY <1>1, MemInsert, MemWrites

LEMMA ListedNext ==
  ASSUME ~Remote, ListedInv, [Next]_vars
  PROVE  ListedInv'
<1>1. ChainInv'
  <2>1. faults'.reads = 0
    BY StoreAssumption, TrieNext DEF ListedInv, ChainInv, TrieInv, CoreOK
  <2>2. QED
    BY <2>1, ChainNext DEF ListedInv
<1>2. NodesGrow
  BY MemGrow
<1> DEFINE ListedNow(i, kid) ==
             \E p \in DOMAIN store' : store'[p].id = i /\ kid \in store'[p].kids
<1>3. ASSUME NEW k \in DOMAIN store, k[1] # 1
      PROVE  ListedNow(k[2], store'[k].id)
  BY <1>2, <1>3 DEF ListedInv, Listed, NodesGrow
<1>4. CASE UNCHANGED store
  BY <1>1, <1>4 DEF ListedInv, Listed
<1>5. ASSUME NEW t \in Threads, RecheckMisses(t)
      PROVE  \A k \in DOMAIN store' : k[1] # 1 => ListedNow(k[2], store'[k].id)
  <2>1. /\ DOMAIN store' = DOMAIN store \cup {KeyOf(t)}
        /\ store'[KeyOf(t)].id = NewID
        /\ th[t].lvl # 1 => ListedNow(KeyOf(t)[2], NewID)
    BY <1>5, MemInsert
  <2>2. KeyOf(t)[1] = th[t].lvl
    BY DEF KeyOf
  <2>3. QED
    BY <1>3, <2>1, <2>2
<1>6. QED
  BY <1>1, <1>4, <1>5, MemWrites DEF ListedInv, Listed

LEMMA ListedHolds ==
  ASSUME ~Remote
  PROVE  Spec => []ListedInv
<1>1. Init => ListedInv
  BY ChainInit DEF ListedInv, Init
<1>2. ListedInv /\ [Next]_vars => ListedInv'
  BY ListedNext
<1>3. QED
  BY <1>1, <1>2, PTL DEF Spec

(* With an in-memory store, every package that was answered is listed by   *)
(* the walk of the packages query, however requests interleave.            *)
THEOREM MemoryLists ==
  ASSUME ~Remote
  PROVE  Spec => []AnswersListed
<1>1. ListedInv => AnswersListed
  <2> SUFFICES ASSUME ListedInv, NEW a \in answers
               PROVE  /\ <<1, NoID, a[1][1]>> \in DOMAIN store
                      /\ \A l \in Levels \ {1} : Listed(a[2][l - 1], a[2][l])
    BY DEF AnswersListed, Listed
  <2>1. \A l \in Levels : Holds(ChainKey(a[1], a[2], l), a[2][l])
    BY DEF ListedInv, ChainInv
  <2>2. 1 \in Levels
    BY TrieAssumption DEF Levels
  <2>3. <<1, NoID, a[1][1]>> \in DOMAIN store
    BY <2>1, <2>2 DEF ChainKey, Holds
  <2>4. ASSUME NEW l \in Levels \ {1}
        PROVE  Listed(a[2][l - 1], a[2][l])
    <3> DEFINE k == ChainKey(a[1], a[2], l)
    <3>1. k[1] # 1 /\ k[2] = a[2][l - 1]
      BY DEF ChainKey
    <3>2. k \in DOMAIN store /\ store[k].id = a[2][l]
      BY <2>1 DEF Holds
    <3> HIDE DEF k
    <3>3. QED
      BY <3>1, <3>2 DEF ListedInv
  <2>5. QED
    BY <2>3, <2>4
<1>2. QED
  BY <1>1, ListedHolds, PTL

(* With an in-memory store no node is ever removed or renumbered, and no   *)
(* child list ever loses an entry.                                         *)
THEOREM MemoryGrows ==
  ASSUME ~Remote
  PROVE  Spec => NodesOnlyGrow
<1>1. ListedInv /\ [Next]_vars => [NodesGrow]_store
  BY MemGrow
<1>2. QED
  BY <1>1, ListedHolds, PTL DEF Spec, NodesOnlyGrow, NodesGrow
=============================================================================
