------------------------------ MODULE PkgTrie ------------------------------
(***************************************************************************)
(* The package tree of the keyvalue backend, built by concurrent           *)
(* IngestPackage calls (pkg/assembler/backends/keyvalue/pkg.go).           *)
(*                                                                         *)
(* A package is a path of Depth segments: type, namespace, name, version   *)
(* (with subpath and qualifiers).  Each segment is a node of its own,      *)
(* stored under the key <<level, parent's ID, segment>>; the node carries  *)
(* an ID from one global counter and the list of its children's IDs.  An   *)
(* IngestPackage call goes down the path.  At every level it looks for the *)
(* node under the read lock; if that fails it takes the write lock, looks  *)
(* again, and otherwise allocates an ID, writes the index entry, the node, *)
(* and the parent's child list.  The parent is the object read one level   *)
(* earlier, in a critical section that has long ended.                     *)
(*                                                                         *)
(* Every access to the store lies in a critical section of the backend's   *)
(* RWMutex (module BackendLock), so each section is one action here; where *)
(* the store can fail in the middle of a section, the action has one       *)
(* outcome for every prefix of its writes.                                 *)
(***************************************************************************)
EXTENDS Naturals

CONSTANTS
  Threads,         \* concurrent GraphQL requests
  Packages,        \* packages ingested: functions from 1..Depth to segments
  Depth,           \* number of levels (4 for packages)
  Remote,          \* TRUE: redis or tikv store; FALSE: memmap
  MaxID,           \* bound on the ID counter
  MaxReadFaults,   \* bound on failing reads of a remote store
  MaxWriteFaults,  \* bound on failing writes of a remote store
  MaxRestarts      \* bound on restarts of the server over a remote store

Levels   == 1..Depth
Segments == {p[l] : p \in Packages, l \in Levels}

ASSUME TrieAssumption ==
  /\ Depth \in Nat \ {0}
  /\ \A p \in Packages : DOMAIN p = Levels
  /\ Remote \in BOOLEAN
  /\ MaxID \in Nat
  /\ MaxReadFaults \in Nat
  /\ MaxWriteFaults \in Nat
  /\ MaxRestarts \in Nat

(* A memmap never fails and does not outlive its server.                   *)
ASSUME StoreAssumption ==
  ~Remote => MaxReadFaults = 0 /\ MaxWriteFaults = 0 /\ MaxRestarts = 0

IDs  == 1..MaxID
NoID == 0               \* the "parent" of a first-level node
Keys == Levels \X (IDs \cup {NoID}) \X Segments

(* The links are the backlinks that verbs leave on a node; this module     *)
(* copies them along with the node and never changes them.                 *)
Node == [id : IDs, kids : SUBSET IDs, links : SUBSET IDs]
NewNode(id) == [id |-> id, kids |-> {}, links |-> {}]

VARIABLES
  store,     \* the node collections: a partial function from Keys to Node
  index,     \* the index collection: a partial function from IDs to Keys
  nextID,    \* demoClient.id
  th,        \* the state of every request
  answers,   \* every <<package, IDs>> a request has returned (history)
  faults     \* failures so far: reads, writes, restarts

vars == <<store, index, nextID, th, answers, faults>>

(* The object of the level above, as the request holds it: in a memmap it  *)
(* is the stored object itself, from a remote store it is a decoded copy.  *)
Root   == [key |-> <<0, NoID>>, node |-> NewNode(NoID)]
Object == [key : Keys, node : Node]

NoIDs == [l \in Levels |-> NoID]
Idle  == [pc |-> "idle"]
At(pc, p, l, parent, ids) ==
  [pc |-> pc, pkg |-> p, lvl |-> l, parent |-> parent, ids |-> ids]

Busy == [pc : {"read", "write"}, pkg : Packages, lvl : Levels,
         parent : {Root} \cup Object, ids : [Levels -> IDs \cup {NoID}]]

Put(f, k, v) == [x \in DOMAIN f \cup {k} |-> IF x = k THEN v ELSE f[x]]
-----------------------------------------------------------------------------
Init ==
  /\ store   = [k \in {} |-> k]
  /\ index   = [i \in {} |-> i]
  /\ nextID  = 0
  /\ th      = [t \in Threads |-> Idle]
  /\ answers = {}
  /\ faults  = [reads |-> 0, writes |-> 0, restarts |-> 0]

(* Definitions named "...Bug" are faults that the properties below must    *)
(* tell from the code; nothing uses them.                                  *)

(* The key of the node the request is at.                                  *)
KeyOfBug(t) == <<th[t].lvl, NoID, th[t].pkg[th[t].lvl]>>
KeyOf(t) == <<th[t].lvl, th[t].parent.node.id, th[t].pkg[th[t].lvl]>>

(* byKeykv finds the node.                                                 *)
Stored(t) == KeyOf(t) \in DOMAIN store

(* The request goes on with node n of key k: down one level, or back to    *)
(* the client with the IDs of all levels.                                  *)
Descend(t, k, n) ==
  LET r   == th[t]
      ids == [r.ids EXCEPT ![r.lvl] = n.id]
  IN IF r.lvl = Depth
     THEN /\ th' = [th EXCEPT ![t] = Idle]
          /\ answers' = answers \cup {<<r.pkg, ids>>}
     ELSE /\ th' = [th EXCEPT ![t] = At("read", r.pkg, r.lvl + 1,
                      [key |-> k, node |-> n], ids)]
          /\ UNCHANGED answers

IngestPackage(t, p) ==
  /\ th[t] = Idle
  /\ th' = [th EXCEPT ![t] = At("read", p, 1, Root, NoIDs)]
  /\ UNCHANGED <<store, index, nextID, answers, faults>>

(* RLock, byKeykv, RUnlock.                                                *)
ReadFinds(t) ==
  /\ th[t].pc = "read"
  /\ Stored(t)
  /\ Descend(t, KeyOf(t), store[KeyOf(t)])
  /\ UNCHANGED <<store, index, nextID, faults>>

ReadMisses(t) ==
  /\ th[t].pc = "read"
  /\ ~Stored(t)
  /\ th' = [th EXCEPT ![t].pc = "write"]
  /\ UNCHANGED <<store, index, nextID, answers, faults>>

(* The remote stores report a failing Get as NotFoundError.                *)
ReadFault ==
  /\ faults.reads < MaxReadFaults
  /\ faults' = [faults EXCEPT !.reads = @ + 1]

ReadFails(t) ==
  /\ th[t].pc = "read"
  /\ ReadFault
  /\ th' = [th EXCEPT ![t].pc = "write"]
  /\ UNCHANGED <<store, index, nextID, answers>>
-----------------------------------------------------------------------------
(* The second look, under the write lock.                                  *)
RecheckFinds(t) ==
  /\ th[t].pc = "write"
  /\ Stored(t)
  /\ Descend(t, KeyOf(t), store[KeyOf(t)])
  /\ UNCHANGED <<store, index, nextID, faults>>

(* getNextID, called under the write lock only.                            *)
NewIDBug == nextID
NewID == nextID + 1

(* parent.addNamespace, addName, addVersion: append to the object in hand  *)
(* and store that object.                                                  *)
LinkChildBug(nodes, parent, id) ==
  Put(nodes, parent.key, [parent.node EXCEPT !.kids = @ \cup {id}])
LinkChild(nodes, parent, id) ==
  LET object == IF Remote THEN parent.node ELSE nodes[parent.key]
  IN Put(nodes, parent.key, [object EXCEPT !.kids = @ \cup {id}])

(* The writes of an insertion, in order; NumWrites of them at a level.     *)
NumWrites(t) == IF th[t].lvl = 1 THEN 2 ELSE 3
IndexTopBug(t, n) ==
  IF n >= 1 /\ th[t].lvl > 1 THEN Put(index, NewID, KeyOf(t)) ELSE index
IndexLastBug(t, n) ==
  IF n = NumWrites(t) THEN Put(index, NewID, KeyOf(t)) ELSE index
IndexAfter(t, n) ==
  IF n >= 1 THEN Put(index, NewID, KeyOf(t)) ELSE index
StoreAfter(t, n) ==
  LET nodes == Put(store, KeyOf(t), NewNode(NewID))
  IN CASE n < 2 -> store
       [] n = 2 -> nodes
       [] n = 3 -> LinkChild(nodes, th[t].parent, NewID)

(* Nothing found under the write lock: insert.                             *)
Insert(t) ==
  /\ nextID < MaxID
  /\ nextID' = NewID
  /\ index' = IndexAfter(t, NumWrites(t))
  /\ store' = StoreAfter(t, NumWrites(t))
  /\ Descend(t, KeyOf(t), NewNode(NewID))

RecheckMissesBug(t) ==
  /\ th[t].pc = "write"
  /\ Insert(t)
  /\ UNCHANGED faults
RecheckMisses(t) ==
  /\ th[t].pc = "write"
  /\ ~Stored(t)
  /\ Insert(t)
  /\ UNCHANGED faults

RecheckFails(t) ==
  /\ th[t].pc = "write"
  /\ Stored(t)
  /\ ReadFault
  /\ Insert(t)

(* A failing Set, alone or after a Get of the same section that failed.    *)
WriteFault ==
  /\ faults.writes < MaxWriteFaults
  /\ faults' = [faults EXCEPT !.writes = @ + 1]
BothFault ==
  /\ faults.reads < MaxReadFaults
  /\ faults.writes < MaxWriteFaults
  /\ faults' = [reads |-> faults.reads + 1, writes |-> faults.writes + 1,
                restarts |-> faults.restarts]

(* A Set fails after n writes took effect: the request returns the error   *)
(* and nothing is undone.  The node was missing, or the second look failed *)
(* although it is there.                                                   *)
WriteFails(t) ==
  /\ th[t].pc = "write"
  /\ IF Stored(t) THEN BothFault ELSE WriteFault
  /\ nextID < MaxID
  /\ nextID' = NewID
  /\ \E n \in 0..NumWrites(t) :
       /\ index' = IndexAfter(t, n)
       /\ store' = StoreAfter(t, n)
  /\ th' = [th EXCEPT ![t] = Idle]
  /\ UNCHANGED answers

(* A new server process over the surviving store: the counter is zero      *)
(* again, the requests are gone.                                           *)
Restart ==
  /\ faults.restarts < MaxRestarts
  /\ faults' = [faults EXCEPT !.restarts = @ + 1]
  /\ nextID' = 0
  /\ th' = [t \in Threads |-> Idle]
  /\ UNCHANGED <<store, index, answers>>

Step(t) ==
  \/ \E p \in Packages : IngestPackage(t, p)
  \/ ReadFinds(t)
  \/ ReadMisses(t)
  \/ ReadFails(t)
  \/ RecheckFinds(t)
  \/ RecheckMisses(t)
  \/ RecheckFails(t)
  \/ WriteFails(t)

Next == Restart \/ \E t \in Threads : Step(t)

Spec == Init /\ [][Next]_vars
-----------------------------------------------------------------------------
TypeOK ==
  /\ DOMAIN store \subseteq Keys
  /\ \A k \in DOMAIN store : store[k] \in Node
  /\ DOMAIN index \subseteq IDs
  /\ \A i \in DOMAIN index : index[i] \in Keys
  /\ nextID \in 0..MaxID
  /\ th \in [Threads -> {Idle} \cup Busy]
  /\ answers \subseteq Packages \X [Levels -> IDs \cup {NoID}]
  /\ faults \in [reads : 0..MaxReadFaults, writes : 0..MaxWriteFaults,
                 restarts : 0..MaxRestarts]

(* byIDkv goes from an ID through the index to the node with that ID; so   *)
(* no two nodes share an ID ("atomic add to ensure ID is not duplicated",  *)
(* backend.go:233).  Index entries without a node are allowed: a failing   *)
(* write leaves one.                                                       *)
IndexFindsNode ==
  \A k \in DOMAIN store :
    store[k].id \in DOMAIN index /\ index[store[k].id] = k

(* A package once ingested is listed: each of its nodes is in the child    *)
(* list of the node above, so that the walk of the packages query from the *)
(* types down reaches it ("Returns all packages matching a filter",        *)
(* package.graphql:235).                                                   *)
AnswersListed ==
  \A a \in answers :
    /\ <<1, NoID, a[1][1]>> \in DOMAIN store
    /\ \A l \in Levels \ {1} :
         \E k \in DOMAIN store : store[k].id = a[2][l - 1] /\ a[2][l] \in store[k].kids

(* A node is never removed or renumbered and its child list never loses an *)
(* entry ("we always ingest data and never remove", backend.go:102).       *)
NodesOnlyGrow ==
  [][\A k \in DOMAIN store :
       /\ k \in DOMAIN store'
       /\ store'[k].id = store[k].id
       /\ store[k].kids \subseteq store'[k].kids]_store

(* Ingestion is idempotent: whoever ingests a package, and before or after *)
(* a restart of the server, is answered with the same IDs.                 *)
AnswersStable ==
  \A a, b \in answers : a[1] = b[1] => a[2] = b[2]

(* The two under all faults.  What breaks the index is a restart, since    *)
(* the counter starts again; what changes an answer is a read that        *)
(* failed.                                                                 *)
IndexSurvivesFaults == faults.restarts = 0 => IndexFindsNode
AnswersSurviveRestarts == faults.reads = 0 => AnswersStable

(* Seen through the IDs alone, ingestion is the registry of IDs.           *)
Registry == INSTANCE IDRegistry WITH
  reg <- [k \in DOMAIN store |-> store[k].id]
RegistrySpec == Registry!Spec
=============================================================================
