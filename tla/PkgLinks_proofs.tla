-------------------------- MODULE PkgLinks_proofs --------------------------
(***************************************************************************)
(* Theorems about the ingestion of verbs, for any number of requests,      *)
(* packages, levels and IDs, and wherever reads and writes fail.           *)
(***************************************************************************)
EXTENDS PkgLinks, PkgTrie_proofs

VerbBusy == [pc : {"read", "write"}, verb : Requests]

(* Types.                                                                  *)
LinkTypes ==
  /\ TrieInv
  /\ \A k \in DOMAIN links : links[k] \in IDs /\ k[1] \in Kinds
  /\ vth \in [VerbThreads -> {Idle} \cup VerbBusy]

(* Nodes, objects in hand and links are found through the index.           *)
LinksIndexed ==
  /\ LinkTypes
  /\ IndexInv
  /\ \A k \in DOMAIN links : Indexed(k, links[k])
-----------------------------------------------------------------------------
(* What the steps of a request for a verb do.                              *)
LEMMA VerbIs ==
  ASSUME LinkTypes, NEW t \in VerbThreads, VerbAt(t, {"read", "write"})
  PROVE  vth[t] \in VerbBusy /\ vth[t].verb \in Requests
BY DEF LinkTypes, VerbAt, Idle, VerbBusy

LEMMA EvidenceShape ==
  ASSUME NEW v \in Evidence
  PROVE  /\ v.kind \in Kinds
         /\ v.pkgs \in Seq(Packages) /\ Len(v.pkgs) \in Nat
         /\ DOMAIN v.pkgs = 1..Len(v.pkgs)
         /\ \A i \in DOMAIN v.pkgs : v.pkgs[i] \in Packages
         /\ v = [kind |-> v.kind, pkgs |-> v.pkgs]
         /\ Level(v) \in Levels
<1>1. CASE v \in [kind : {"certifyBadName", "certifyBad"}, pkgs : {<<p>> : p \in Packages}]
  <2>1. PICK p \in Packages : v.pkgs = <<p>>
    BY <1>1
  <2>2. v.kind \in Kinds /\ v = [kind |-> v.kind, pkgs |-> v.pkgs]
    BY <1>1 DEF Kinds
  <2>3. v.pkgs \in Seq(Packages) /\ Len(v.pkgs) = 1
    BY <2>1
  <2>4. QED
    BY <2>2, <2>3, TrieAssumption, LinksAssumption DEF Level, Levels
<1>2. CASE v \in [kind : {"isDependency", "pkgEqual"}, pkgs : Packages \X Packages]
  <2>1. PICK p, q \in Packages : v.pkgs = <<p, q>>
    BY <1>2
  <2>2. v.kind \in Kinds /\ v = [kind |-> v.kind, pkgs |-> v.pkgs]
    BY <1>2 DEF Kinds
  <2>3. v.pkgs \in Seq(Packages) /\ Len(v.pkgs) = 2
    BY <2>1
  <2>4. QED
    BY <2>2, <2>3, TrieAssumption, LinksAssumption DEF Level, Levels
<1>3. QED
  BY <1>1, <1>2, LinksAssumption

LEMMA RequestShape ==
  ASSUME NEW r \in Requests
  PROVE  /\ EvidenceOf(r) \in Evidence /\ r.ids \in ArgumentIDs(EvidenceOf(r))
         /\ EvidenceOf(r).kind = r.kind /\ EvidenceOf(r).pkgs = r.pkgs
         /\ Level(r) = Level(EvidenceOf(r))
         /\ r.kind \in Kinds
         /\ Len(r.pkgs) \in Nat /\ DOMAIN r.pkgs = 1..Len(r.pkgs)
         /\ \A i \in DOMAIN r.pkgs :
              r.ids[i] # NoID => r.ids[i] \in Answered(r.pkgs[i], Level(r))
<1>1. PICK v \in Evidence : \E ids \in ArgumentIDs(v) : r = Request(v, ids)
  BY DEF Requests
<1>2. r.kind = v.kind /\ r.pkgs = v.pkgs /\ r.ids \in ArgumentIDs(v)
  BY <1>1 DEF Request
<1>3. EvidenceOf(r) = v /\ Level(r) = Level(v)
  BY <1>2, EvidenceShape DEF EvidenceOf, Level
<1>4. \A i \in DOMAIN v.pkgs : r.ids[i] # NoID => r.ids[i] \in Answered(v.pkgs[i], Level(v))
  BY <1>2 DEF ArgumentIDs, Names
<1>5. QED
  BY <1>1, <1>2, <1>3, <1>4, EvidenceShape

(* What was answered remains answered.                                     *)
LEMMA RequestsGrow ==
  ASSUME answers \subseteq answers'
  PROVE  Requests \subseteq Requests'
<1>1. \A p, l : Answered(p, l) \subseteq Answered(p, l)'
  BY DEF Answered
<1>2. \A v \in Evidence : ArgumentIDs(v) \subseteq ArgumentIDs(v)'
  <2> SUFFICES ASSUME NEW v \in Evidence, NEW f \in ArgumentIDs(v)
               PROVE  f \in ArgumentIDs(v)'
    OBVIOUS
  <2>1. \A i \in DOMAIN v.pkgs : Names(v, i) \subseteq Names(v, i)'
    BY <1>1 DEF Names
  <2> DEFINE all == UNION {Names(v, i) : i \in DOMAIN v.pkgs}
  <2>2. f \in [DOMAIN v.pkgs -> all] /\ \A i \in DOMAIN v.pkgs : f[i] \in Names(v, i)
    BY DEF ArgumentIDs
  <2>3. all \subseteq all'
    BY <2>1
  <2>4. QED
    BY <2>1, <2>2, <2>3 DEF ArgumentIDs
<1>3. QED
  BY <1>2 DEF Requests

LEMMA StepAnswers ==
  ASSUME NEW t \in Threads, Step(t)
  PROVE  answers \subseteq answers'
<1>1. \A k, n : Descend(t, k, n) => answers \subseteq answers'
  BY DEF Descend
<1>2. QED
  BY <1>1 DEF Step, IngestPackage, ReadFinds, ReadMisses, ReadFails, RecheckFinds,
              RecheckMisses, RecheckFails, WriteFails, Insert

(* The writes of a verb, complete or broken off, and the faults of the     *)
(* section.                                                                *)
VerbWrites(t, n) ==
  /\ VerbAt(t, {"write"})
  /\ SubjectsFound(t)
  /\ IF Linked(t) THEN ReadFault \/ BothFault ELSE UNCHANGED faults \/ WriteFault
  /\ nextID < MaxID
  /\ n \in 0..LinkWrites(t)
  /\ Writes(t, n)
  /\ UNCHANGED <<th, answers>>

(* A step that writes nothing.                                             *)
VerbQuiet ==
  /\ UNCHANGED <<store, index, nextID, th, answers, links>>
  /\ UNCHANGED faults \/ ReadFault

LEMMA SectionFaults ==
  ASSUME CoreOK, UNCHANGED faults \/ ReadFault \/ WriteFault \/ BothFault
  PROVE  /\ faults' \in [reads : 0..MaxReadFaults, writes : 0..MaxWriteFaults,
                         restarts : 0..MaxRestarts]
         /\ faults'.restarts = faults.restarts
         /\ faults'.reads = 0 => faults.reads = 0 /\ ~ReadFault /\ ~BothFault
<1>1. faults \in [reads : 0..MaxReadFaults, writes : 0..MaxWriteFaults,
                  restarts : 0..MaxRestarts]
  BY DEF CoreOK
<1>2. /\ faults.reads \in Nat /\ MaxReadFaults \in Nat
  BY <1>1, TrieAssumption
<1>3. CASE ReadFault
  BY <1>1, <1>2, <1>3, FaultTypes DEF ReadFault
<1>4. CASE UNCHANGED faults /\ ~ReadFault
  BY <1>1, <1>2, <1>4, FaultTypes
<1>5. CASE (WriteFault \/ BothFault) /\ ~ReadFault
  <2>1. WriteFault => faults'.reads = faults.reads
    BY <1>1 DEF WriteFault
  <2>2. QED
    BY <1>2, <1>5, <2>1, FaultTypes
<1>6. QED
  BY <1>3, <1>4, <1>5

LEMMA VerbWritesShape ==
  ASSUME LinkTypes, NEW t \in VerbThreads, NEW n, VerbWrites(t, n)
  PROVE  /\ NewID \in IDs /\ NewID = nextID + 1 /\ nextID' = NewID
         /\ DOMAIN store' = DOMAIN store
         /\ \A k \in DOMAIN store :
              /\ store'[k] \in Node
              /\ store'[k].id = store[k].id
              /\ store[k].links \subseteq store'[k].links
              /\ k \in Backlinked(t, n) => NewID \in store'[k].links
         /\ \/ index' = index /\ links' = links
            \/ index' = Put(index, NewID, LinkKey(vth[t].verb)) /\ links' = links
            \/ /\ index' = Put(index, NewID, LinkKey(vth[t].verb))
               /\ links' = Put(links, LinkKey(vth[t].verb), NewID)
               /\ n = LinkWrites(t)
<1>1. CoreOK /\ nextID < MaxID /\ vth[t].verb \in Requests
  BY VerbIs DEF LinkTypes, TrieInv, VerbWrites, VerbAt
<1>2. NewID \in IDs /\ NewID = nextID + 1 /\ nextID' = NewID
  BY <1>1, TrieAssumption DEF CoreOK, NewID, IDs, VerbWrites, Writes
<1>3. store' = [k \in DOMAIN store |->
                  IF k \in Backlinked(t, n)
                  THEN [store[k] EXCEPT !.links = @ \cup {NewID}] ELSE store[k]]
  BY DEF VerbWrites, Writes, AddBacklink
<1>4. \A k \in DOMAIN store :
        /\ store'[k] \in Node
        /\ store'[k].id = store[k].id
        /\ store[k].links \subseteq store'[k].links
        /\ k \in Backlinked(t, n) => NewID \in store'[k].links
  BY <1>1, <1>2, <1>3 DEF CoreOK, Node
<1>5. \/ index' = index /\ links' = links
      \/ index' = Put(index, NewID, LinkKey(vth[t].verb)) /\ links' = links
      \/ /\ index' = Put(index, NewID, LinkKey(vth[t].verb))
         /\ links' = Put(links, LinkKey(vth[t].verb), NewID)
         /\ n = LinkWrites(t)
  <2>1. Len(vth[t].verb.pkgs) \in Nat
    BY <1>1, RequestShape
  <2>2. n \in Nat /\ LinkWrites(t) >= 1
    BY <2>1 DEF LinkWrites, VerbWrites
  <2>3. QED
    BY <2>2 DEF VerbWrites, Writes
<1>6. QED
  BY <1>2, <1>3, <1>4, <1>5

LEMMA LinkWritesIs ==
  ASSUME LinkTypes, NEW t \in VerbThreads, VerbAt(t, {"read", "write"})
  PROVE  LinkWrites(t) \in 0..LinkWrites(t)
BY VerbIs, RequestShape DEF LinkWrites

(* A step for a verb writes nothing, or makes these writes.                *)
LEMMA VerbStepIs ==
  ASSUME LinkTypes, NEW t \in VerbThreads, VerbStep(t)
  PROVE  /\ VerbQuiet \/ \E n : VerbWrites(t, n)
         /\ vth' \in [VerbThreads -> {Idle} \cup VerbBusy]
<1>1. VerbQuiet \/ \E n : VerbWrites(t, n)
  <2>1. ASSUME VerbInserts(t) PROVE VerbWrites(t, LinkWrites(t))
    <3>1. LinkWrites(t) \in 0..LinkWrites(t)
      BY <2>1, LinkWritesIs DEF VerbInserts, VerbAt
    <3>2. QED
      BY <2>1, <3>1 DEF VerbInserts, VerbWrites
  <2>2. VerbWriteFails(t) => \E n : VerbWrites(t, n)
    BY DEF VerbWriteFails, VerbWrites
  <2>3. QED
    BY <2>1, <2>2 DEF VerbStep, IngestVerb, NoSubject, SubjectUnread, VerbFinds,
                      VerbMisses, LinkUnread, ToWrite, VerbQuiet, vars
<1>2. vth \in [VerbThreads -> {Idle} \cup VerbBusy]
  BY DEF LinkTypes
<1>3. \/ vth' = [vth EXCEPT ![t] = Idle]
      \/ \E r \in Requests : vth' = [vth EXCEPT ![t] = [pc |-> "read", verb |-> r]]
      \/ /\ VerbAt(t, {"read"})
         /\ vth' = [vth EXCEPT ![t] = [vth[t] EXCEPT !.pc = "write"]]
  BY DEF VerbStep, IngestVerb, NoSubject, SubjectUnread, VerbFinds, VerbMisses,
         LinkUnread, VerbInserts, VerbWriteFails, VerbTo, ToWrite, Tell
<1>4. ASSUME VerbAt(t, {"read"}) PROVE [vth[t] EXCEPT !.pc = "write"] \in VerbBusy
  <2>1. vth[t] \in VerbBusy
    BY <1>4, VerbIs DEF VerbAt
  <2>2. QED
    BY <2>1 DEF VerbBusy
<1>5. \A r \in Requests : [pc |-> "read", verb |-> r] \in VerbBusy
  BY DEF VerbBusy
<1>6. vth' \in [VerbThreads -> {Idle} \cup VerbBusy]
  BY <1>2, <1>3, <1>4, <1>5
<1>7. QED
  BY <1>1, <1>6

(* The requests in progress stay requests when packages are answered.      *)
LEMMA VerbsStayTyped ==
  ASSUME answers \subseteq answers', vth' \in [VerbThreads -> {Idle} \cup VerbBusy]
  PROVE  vth' \in [VerbThreads -> {Idle} \cup VerbBusy']
<1>1. VerbBusy \subseteq VerbBusy'
  BY RequestsGrow DEF VerbBusy
<1>2. QED
  BY <1>1

LEMMA VerbTypes ==
  ASSUME LinkTypes, NEW t \in VerbThreads, VerbStep(t)
  PROVE  LinkTypes'
<1>1. TrieInv
  BY DEF LinkTypes
<1>2. UNCHANGED answers
  BY VerbStepIs DEF VerbQuiet, VerbWrites
<1>3. vth' \in [VerbThreads -> {Idle} \cup VerbBusy']
  BY <1>2, VerbStepIs, VerbsStayTyped
<1>4. faults' \in [reads : 0..MaxReadFaults, writes : 0..MaxWriteFaults,
                   restarts : 0..MaxRestarts]
  BY <1>1, VerbStepIs, SectionFaults DEF VerbQuiet, VerbWrites, TrieInv
<1>5. CASE VerbQuiet
  <2>1. CoreOK' /\ \A u \in Threads : th'[u] \in Busy => InHand(u)'
    BY <1>1, <1>4, <1>5 DEF VerbQuiet, TrieInv, CoreOK, InHand
  <2>2. \A k \in DOMAIN links' : links'[k] \in IDs /\ k[1] \in Kinds
    BY <1>5 DEF VerbQuiet, LinkTypes
  <2>3. QED
    BY <1>3, <2>1, <2>2 DEF LinkTypes, TrieInv
<1>6. ASSUME NEW n, VerbWrites(t, n) PROVE LinkTypes'
  <2>1. vth[t].verb \in Requests
    BY <1>6, VerbIs DEF VerbWrites, VerbAt
  <2> DEFINE lk == LinkKey(vth[t].verb)
  <2>2. lk[1] \in Kinds
    BY <2>1, RequestShape DEF LinkKey
  <2> HIDE DEF lk
  <2>3. /\ NewID \in IDs /\ nextID' = NewID
        /\ DOMAIN store' = DOMAIN store
        /\ \A k \in DOMAIN store : store'[k] \in Node
        /\ index' = index \/ index' = Put(index, NewID, lk)
        /\ links' = links \/ links' = Put(links, lk, NewID)
    BY <1>6, VerbWritesShape DEF lk
  <2>4. DOMAIN index' \subseteq IDs
    BY <1>1, <2>3 DEF Put, TrieInv, CoreOK
  <2>5. \A k \in DOMAIN links' : links'[k] \in IDs /\ k[1] \in Kinds
    BY <2>2, <2>3 DEF Put, LinkTypes
  <2>6. nextID' \in 0..MaxID
    BY <2>3, TrieAssumption DEF IDs
  <2>7. CoreOK'
    BY <1>1, <1>4, <1>6, <2>3, <2>4, <2>6 DEF CoreOK, TrieInv, VerbWrites
  <2>8. \A u \in Threads : th'[u] \in Busy => InHand(u)'
    BY <1>1, <1>6, <2>3 DEF TrieInv, InHand, VerbWrites
  <2>9. QED
    BY <1>3, <2>5, <2>7, <2>8 DEF LinkTypes, TrieInv
<1>7. QED
  BY <1>5, <1>6, VerbStepIs

LEMMA LinkTypesInit == LinksInit => LinkTypes
BY TrieInit DEF LinksInit, LinkTypes

LEMMA LinkTypesStep ==
  ASSUME LinkTypes, NEW t \in Threads, Step(t), UNCHANGED linkVars
  PROVE  LinkTypes'
<1>1. vth' \in [VerbThreads -> {Idle} \cup VerbBusy']
  BY StepAnswers, VerbsStayTyped DEF LinkTypes, linkVars
<1>2. \A k \in DOMAIN links' : links'[k] \in IDs /\ k[1] \in Kinds
  BY DEF LinkTypes, linkVars
<1>3. QED
  BY <1>1, <1>2, TrieStep DEF LinkTypes

LEMMA LinkTypesNext == LinkTypes /\ [LinksNext]_allVars => LinkTypes'
<1> SUFFICES ASSUME LinkTypes, [LinksNext]_allVars PROVE LinkTypes'
  OBVIOUS
<1>1. CASE UNCHANGED allVars
  <2>1. vth' \in [VerbThreads -> {Idle} \cup VerbBusy']
    BY <1>1, VerbsStayTyped DEF LinkTypes, allVars, vars, linkVars
  <2>2. TrieInv'
    BY <1>1 DEF allVars, vars, LinkTypes, TrieInv, CoreOK, InHand
  <2>3. QED
    BY <1>1, <2>1, <2>2 DEF LinkTypes, allVars, linkVars
<1>2. QED
  BY <1>1, LinkTypesStep, VerbTypes DEF LinksNext

(* Links are well typed, wherever reads fail and writes break off.         *)
THEOREM LinkTypeCorrect == LinksSpec => []LinkTypeOK
<1>1. LinkTypes => LinkTypeOK
  <2> SUFFICES ASSUME LinkTypes PROVE LinkTypeOK
    OBVIOUS
  <2>1. ASSUME NEW t \in VerbThreads, vth[t] # Idle
        PROVE  VerbAt(t, {"read", "write"}) /\ vth[t].verb \in Requests
    BY <2>1 DEF LinkTypes, VerbAt, VerbBusy
  <2>2. QED
    BY <2>1, RequestShape DEF LinkTypes, LinkTypeOK, TrieInv, CoreOK
<1>2. QED
  BY <1>1, LinkTypesInit, LinkTypesNext, PTL DEF LinksSpec
-----------------------------------------------------------------------------
(***************************************************************************)
(* The index, shared by nodes and links.                                   *)
(***************************************************************************)
LEMMA PutIndexed ==
  ASSUME TrieInv, NewID = nextID + 1, nextID' = NewID, NEW x,
         index' = index \/ index' = Put(index, NewID, x)
  PROVE  \A k, i : Indexed(k, i) => StaysIndexed(k, i)
<1> SUFFICES ASSUME NEW k, NEW i, Indexed(k, i)
             PROVE  StaysIndexed(k, i)
  OBVIOUS
<1>1. nextID \in Nat /\ i \in IDs /\ i <= nextID /\ i \in DOMAIN index /\ index[i] = k
  BY TrieAssumption DEF TrieInv, CoreOK, Indexed
<1>2. i # NewID /\ i <= nextID'
  BY <1>1 DEF IDs
<1>3. i \in DOMAIN index' /\ index'[i] = k
  BY <1>1, <1>2 DEF Put
<1>4. QED
  BY <1>2, <1>3 DEF StaysIndexed

LEMMA LinksIndexedInit == LinksInit => LinksIndexed
BY LinkTypesInit, IndexInit DEF LinksInit, LinksIndexed

LEMMA LinksIndexedStep ==
  ASSUME LinksIndexed, NEW t \in Threads, Step(t), UNCHANGED linkVars
  PROVE  LinksIndexed'
<1>1. LinkTypes'
  BY LinkTypesNext DEF LinksIndexed, LinksNext
<1>2. IndexInv'
  BY IndexStep DEF LinksIndexed
<1>3. UNCHANGED <<index, nextID>> \/ Inserts(t)
  BY StepWrites
<1>4. \A k, i : Indexed(k, i) => StaysIndexed(k, i)
  BY <1>3, InsertsIndexed DEF LinksIndexed, LinkTypes, Indexed, StaysIndexed
<1>5. \A k \in DOMAIN links' : StaysIndexed(k, links'[k])
  BY <1>4 DEF LinksIndexed, linkVars
<1>6. QED
  BY <1>1, <1>2, <1>5 DEF LinksIndexed, Indexed, StaysIndexed

LEMMA LinksIndexedVerb ==
  ASSUME LinksIndexed, NEW t \in VerbThreads, VerbStep(t)
  PROVE  LinksIndexed'
<1>1. LinkTypes' /\ LinkTypes /\ TrieInv
  BY VerbTypes DEF LinksIndexed, LinkTypes
<1>0. faults'.restarts = 0
  BY <1>1, VerbStepIs, SectionFaults
     DEF VerbQuiet, VerbWrites, LinksIndexed, IndexInv, TrieInv
<1>2. CASE VerbQuiet
  <2>1. IndexInv'
    BY <1>0, <1>1, <1>2 DEF LinksIndexed, LinkTypes, IndexInv, Indexed, VerbQuiet
  <2>2. QED
    BY <1>1, <1>2, <2>1 DEF LinksIndexed, Indexed, VerbQuiet
<1>3. ASSUME NEW n, VerbWrites(t, n) PROVE LinksIndexed'
  <2> DEFINE lk == LinkKey(vth[t].verb)
  <2>1. /\ NewID \in IDs /\ NewID = nextID + 1 /\ nextID' = NewID
        /\ DOMAIN store' = DOMAIN store
        /\ \A k \in DOMAIN store : store'[k].id = store[k].id
        /\ \/ index' = index /\ links' = links
           \/ index' = Put(index, NewID, lk) /\ links' = links
           \/ index' = Put(index, NewID, lk) /\ links' = Put(links, lk, NewID)
    BY <1>1, <1>3, VerbWritesShape
  <2> HIDE DEF lk
  <2>2. \A k, i : Indexed(k, i) => StaysIndexed(k, i)
    BY <1>1, <2>1, PutIndexed
  <2>3. \A k \in DOMAIN store' : StaysIndexed(k, store'[k].id)
    BY <2>1, <2>2 DEF LinksIndexed, IndexInv
  <2>4. \A u \in Threads : th[u] \in Busy /\ th[u].lvl # 1 =>
          StaysIndexed(th[u].parent.key, th[u].parent.node.id)
    BY <2>2 DEF LinksIndexed, IndexInv
  <2>6. IndexInv'
    BY <1>0, <1>1, <1>3, <2>3, <2>4 DEF IndexInv, LinkTypes, VerbWrites, Indexed, StaysIndexed
  <2>7. index' = Put(index, NewID, lk) => StaysIndexed(lk, NewID)
    BY <2>1 DEF StaysIndexed, Put, IDs
  <2>8. \A k \in DOMAIN links' : StaysIndexed(k, links'[k])
    <3>1. CASE links' = links
      BY <2>2, <3>1 DEF LinksIndexed
    <3>2. CASE links' = Put(links, lk, NewID) /\ index' = Put(index, NewID, lk)
      BY <2>2, <2>7, <3>2 DEF LinksIndexed, Put
    <3>3. QED
      BY <2>1, <3>1, <3>2
  <2>9. QED
    BY <1>1, <2>6, <2>8 DEF LinksIndexed, Indexed, StaysIndexed
<1>4. QED
  BY <1>1, <1>2, <1>3, VerbStepIs

LEMMA LinksIndexedStutter ==
  ASSUME LinksIndexed, UNCHANGED allVars
  PROVE  LinksIndexed'
<1>1. LinkTypes'
  BY LinkTypesNext DEF LinksIndexed
<1>2. QED
  BY <1>1 DEF LinksIndexed, LinkTypes, IndexInv, Indexed, allVars, vars, linkVars

LEMMA LinksIndexedNext == LinksIndexed /\ [LinksNext]_allVars => LinksIndexed'
BY LinksIndexedStep, LinksIndexedVerb, LinksIndexedStutter DEF LinksNext

(* Nodes and links, whose IDs come from one counter, never share an ID,    *)
(* and every ID leads through the index to its owner, wherever writes      *)
(* break off and whatever reads of nodes and links fail.                   *)
THEOREM LinkIndexCorrect == LinksSpec => []IndexFindsAll
<1>1. LinksIndexed => IndexFindsAll
  BY DEF LinksIndexed, IndexInv, Indexed, IndexFindsAll
<1>2. QED
  BY <1>1, LinksIndexedInit, LinksIndexedNext, PTL DEF LinksSpec
-----------------------------------------------------------------------------
(***************************************************************************)
(* The walk from the type down to the ID of a subject is defined by        *)
(* recursion on the level.                                                 *)
(***************************************************************************)
(* Only first-level nodes are stored without the ID of a parent.           *)
RootKeys == \A k \in DOMAIN store : k[2] = NoID => k[1] = 1

LEMMA SetInduction ==
  ASSUME NEW S, 0 \in S, \A n \in Nat : n \in S => n + 1 \in S
  PROVE  Nat \subseteq S
<1> DEFINE T == Nat \ S
           R == OpToRel(<, Nat)
<1> SUFFICES ASSUME T # {} PROVE FALSE
  OBVIOUS
<1>1. IsWellFoundedOn(R, Nat)
  BY NatLessThanWellFounded
<1>2. \A x, y \in Nat : x < y => <<x, y>> \in R
  BY DEF OpToRel
<1> HIDE DEF R
<1>3. PICK m \in T : \A y \in T : ~(<<y, m>> \in R)
  BY <1>1, WFMin
<1>4. m # 0 /\ m - 1 \in Nat /\ m - 1 < m /\ m \in Nat
  OBVIOUS
<1>5. m - 1 \in S
  BY <1>2, <1>3, <1>4
<1>6. (m - 1) + 1 = m
  BY <1>4
<1>7. QED
  BY <1>4, <1>5, <1>6

(* One level of the walk through the nodes s.                              *)
Look(s, p, f, i) ==
  IF i > 0 /\ <<i, f[i - 1], p[i]>> \in DOMAIN s
  THEN s[<<i, f[i - 1], p[i]>>].id ELSE NoID

LEMMA WalkExists ==
  ASSUME NEW s, NEW p
  PROVE  \A l \in Nat : \E f : f = [i \in 0..l |-> Look(s, p, f, i)]
<1> DEFINE S == {l \in Nat : \E f : f = [i \in 0..l |-> Look(s, p, f, i)]}
<1>1. 0 \in S
  <2> DEFINE f == [i \in 0..0 |-> NoID]
  <2>1. f = [i \in 0..0 |-> Look(s, p, f, i)]
    BY DEF Look
  <2>2. QED
    BY <2>1
<1>2. \A l \in Nat : l \in S => l + 1 \in S
  <2> SUFFICES ASSUME NEW l \in Nat, l \in S PROVE l + 1 \in S
    OBVIOUS
  <2>1. PICK f : f = [i \in 0..l |-> Look(s, p, f, i)]
    BY Zenon
  <2> DEFINE g == [i \in 0..(l + 1) |-> IF i = l + 1 THEN Look(s, p, f, i) ELSE f[i]]
  <2>2. \A i \in 0..l : f[i] = Look(s, p, f, i)
    BY <2>1, Zenon
  <2>3. g[l + 1] = Look(s, p, f, l + 1) /\ \A i \in 0..l : g[i] = f[i]
    OBVIOUS
  <2>4. ASSUME NEW i \in 0..(l + 1) PROVE g[i] = Look(s, p, g, i)
    <3>1. i > 0 => i - 1 \in 0..l /\ g[i - 1] = f[i - 1]
      BY <2>3
    <3> HIDE DEF g
    <3>2. Look(s, p, g, i) = Look(s, p, f, i)
      <4>1. CASE i > 0
        <5>1. g[i - 1] = f[i - 1]
          BY <3>1, <4>1
        <5>2. QED
          BY <5>1 DEF Look
      <4>2. CASE ~(i > 0)
        BY <4>2 DEF Look
      <4>3. QED
        BY <4>1, <4>2
    <3>3. CASE i = l + 1
      BY <2>3, <3>2, <3>3
    <3>4. CASE i \in 0..l
      BY <2>2, <2>3, <3>2, <3>4
    <3>5. QED
      BY <3>3, <3>4
  <2>5. g = [i \in 0..(l + 1) |-> g[i]] /\ l + 1 \in Nat
    OBVIOUS
  <2> HIDE DEF g
  <2>6. g = [i \in 0..(l + 1) |-> Look(s, p, g, i)]
    BY <2>4, <2>5, Zenon
  <2>7. QED
    BY <2>5, <2>6, Zenon
<1>3. QED
  BY <1>1, <1>2, SetInduction

Walk(s, p, l) == CHOOSE f : f = [i \in 0..l |-> Look(s, p, f, i)]

LEMMA WalkIs ==
  ASSUME NEW s, NEW p, NEW l \in Nat
  PROVE  \A i \in 0..l : Walk(s, p, l)[i] = Look(s, p, Walk(s, p, l), i)
<1> DEFINE f == Walk(s, p, l)
<1>1. f = [i \in 0..l |-> Look(s, p, f, i)]
  BY WalkExists, Zenon DEF Walk
<1> HIDE DEF f
<1>2. \A i \in 0..l : f[i] = Look(s, p, f, i)
  BY <1>1, Zenon
<1>3. QED
  BY <1>2 DEF f

LEMMA FoundIsWalk ==
  ASSUME NEW p, NEW l
  PROVE  /\ FoundID(p, l) = Walk(store, p, l)[l]
         /\ FoundID(p, l)' = Walk(store', p, l)[l]
BY DEF FoundID, Walk, Look

(* What has been found is found again.                                     *)
LEMMA FoundStays ==
  ASSUME RootKeys, IDsStay, NEW p, NEW l \in Nat, FoundID(p, l) # NoID
  PROVE  FoundID(p, l)' = FoundID(p, l)
<1> DEFINE f == Walk(store, p, l)
           g == Walk(store', p, l)
           S == {i \in Nat : i <= l /\ f[i] # NoID => g[i] = f[i]}
<1>1. /\ FoundID(p, l) = f[l] /\ FoundID(p, l)' = g[l]
      /\ \A i \in 0..l : f[i] = Look(store, p, f, i)
      /\ \A i \in 0..l : g[i] = Look(store', p, g, i)
  BY FoundIsWalk, WalkIs
<1> HIDE DEF f, g
<1>2. f[0] = NoID /\ g[0] = NoID
  <2>1. 0 \in 0..l /\ Look(store, p, f, 0) = NoID /\ Look(store', p, g, 0) = NoID
    BY DEF Look
  <2>2. QED
    BY <1>1, <2>1
<1>3. 0 \in S
  BY <1>2
<1>4. ASSUME NEW i \in Nat, i \in S, i + 1 <= l, f[i + 1] # NoID
      PROVE  g[i + 1] = f[i + 1]
  <2> DEFINE k == <<i + 1, f[i], p[i + 1]>>
  <2>1. i + 1 \in 0..l /\ i + 1 > 0 /\ (i + 1) - 1 = i
    BY <1>4
  <2>2. k \in DOMAIN store /\ f[i + 1] = store[k].id
    BY <1>1, <1>4, <2>1 DEF Look
  <2>3. g[i] = f[i]
    <3>1. CASE f[i] = NoID
      <4>1. k[2] = NoID /\ k[1] = i + 1
        BY <3>1
      <4>2. i + 1 = 1
        BY <2>2, <4>1 DEF RootKeys
      <4>3. i = 0
        BY <4>2
      <4>4. QED
        BY <1>2, <4>3
    <3>2. CASE f[i] # NoID
      BY <1>4, <3>2
    <3>3. QED
      BY <3>1, <3>2
  <2>4. k \in DOMAIN store' /\ store'[k].id = store[k].id
    BY <2>2 DEF IDsStay
  <2>5. g[i + 1] = Look(store', p, g, i + 1)
    BY <1>1, <2>1
  <2>6. Look(store', p, g, i + 1) = store'[k].id
    BY <2>1, <2>3, <2>4 DEF Look
  <2>7. QED
    BY <2>2, <2>4, <2>5, <2>6
<1>5. \A i \in Nat : i \in S => i + 1 \in S
  BY <1>4
<1>6. Nat \subseteq S
  BY <1>3, <1>5, SetInduction, Zenon
<1>7. l \in S
  BY <1>6
<1>8. QED
  BY <1>1, <1>7

(* A longer walk starts with the shorter one.                              *)
LEMMA WalkPrefix ==
  ASSUME NEW s, NEW p, NEW l \in Nat, l > 0
  PROVE  Walk(s, p, l)[l - 1] = Walk(s, p, l - 1)[l - 1]
<1> DEFINE f == Walk(s, p, l)
           g == Walk(s, p, l - 1)
           S == {i \in Nat : i <= l - 1 => f[i] = g[i]}
<1>1. /\ \A i \in 0..l : f[i] = Look(s, p, f, i)
      /\ \A i \in 0..(l - 1) : g[i] = Look(s, p, g, i)
  BY WalkIs
<1> HIDE DEF f, g
<1>2. 0 \in S
  <2>1. 0 \in 0..l /\ 0 \in 0..(l - 1)
    OBVIOUS
  <2>2. Look(s, p, f, 0) = NoID /\ Look(s, p, g, 0) = NoID
    BY DEF Look
  <2>3. QED
    BY <1>1, <2>1, <2>2
<1>3. ASSUME NEW i \in Nat, i \in S, i + 1 <= l - 1 PROVE f[i + 1] = g[i + 1]
  <2>1. i + 1 \in 0..l /\ i + 1 \in 0..(l - 1) /\ (i + 1) - 1 = i /\ f[i] = g[i]
    BY <1>3
  <2>2. Look(s, p, f, i + 1) = Look(s, p, g, i + 1)
    BY <2>1 DEF Look
  <2>3. QED
    BY <1>1, <2>1, <2>2
<1>4. \A i \in Nat : i \in S => i + 1 \in S
  <2> SUFFICES ASSUME NEW i \in Nat, i \in S PROVE i + 1 \in S
    OBVIOUS
  <2>1. i + 1 <= l - 1 => f[i + 1] = g[i + 1]
    BY <1>3
  <2>2. QED
    BY <2>1
<1>5. Nat \subseteq S
  BY <1>2, <1>4, SetInduction, Zenon
<1>6. l - 1 \in S
  BY <1>5
<1>7. QED
  BY <1>6 DEF f, g

(* The walk goes from node to node.                                        *)
LEMMA FoundStep ==
  ASSUME NEW p, NEW l \in Nat, l > 0
  PROVE  /\ PackageKey(p, l) \in DOMAIN store => FoundID(p, l) = store[PackageKey(p, l)].id
         /\ PackageKey(p, l) \notin DOMAIN store => FoundID(p, l) = NoID
<1> DEFINE f == Walk(store, p, l)
<1>1. FoundID(p, l) = f[l] /\ f[l] = Look(store, p, f, l)
  BY FoundIsWalk, WalkIs
<1>2. f[l - 1] = FoundID(p, l - 1)
  BY FoundIsWalk, WalkPrefix
<1> HIDE DEF f
<1>3. PackageKey(p, l) = <<l, f[l - 1], p[l]>>
  BY <1>2 DEF PackageKey
<1>4. QED
  BY <1>1, <1>3 DEF Look

(* It finds the chain of an answer.                                        *)
LEMMA FoundAnswered ==
  ASSUME ChainInv, NEW a \in answers
  PROVE  \A l \in Levels : /\ PackageKey(a[1], l) = ChainKey(a[1], a[2], l)
                           /\ FoundID(a[1], l) = a[2][l]
<1> DEFINE S == {i \in Nat : i \in Levels => FoundID(a[1], i) = a[2][i]}
<1>1. FoundID(a[1], 0) = NoID
  <2>1. 0 \in 0..0 /\ 0 \in Nat
    OBVIOUS
  <2>2. Walk(store, a[1], 0)[0] = Look(store, a[1], Walk(store, a[1], 0), 0)
    BY <2>1, WalkIs
  <2>3. QED
    BY <2>2, FoundIsWalk DEF Look
<1>2. 0 \in S
  BY DEF Levels
<1>3. ASSUME NEW l \in Levels, l # 1 => FoundID(a[1], l - 1) = a[2][l - 1]
      PROVE  /\ PackageKey(a[1], l) = ChainKey(a[1], a[2], l)
             /\ FoundID(a[1], l) = a[2][l]
  <2>1. l \in Nat /\ l > 0 /\ (l = 1 => l - 1 = 0)
    BY DEF Levels
  <2>2. PackageKey(a[1], l) = ChainKey(a[1], a[2], l)
    BY <1>1, <1>3, <2>1 DEF PackageKey, ChainKey
  <2>3. Holds(ChainKey(a[1], a[2], l), a[2][l])
    BY DEF ChainInv
  <2>4. QED
    BY <2>1, <2>2, <2>3, FoundStep DEF Holds
<1>4. ASSUME NEW i \in Nat, i \in S PROVE i + 1 \in S
  <2>1. CASE i + 1 \in Levels
    <3>1. (i + 1) - 1 = i /\ (i + 1 # 1 => i \in Levels)
      BY <2>1, TrieAssumption DEF Levels
    <3>2. i + 1 # 1 => FoundID(a[1], (i + 1) - 1) = a[2][(i + 1) - 1]
      BY <1>4, <3>1
    <3>3. FoundID(a[1], i + 1) = a[2][i + 1]
      BY <1>3, <2>1, <3>2
    <3>4. QED
      BY <3>3
  <2>2. CASE i + 1 \notin Levels
    BY <2>2
  <2>3. QED
    BY <2>1, <2>2
<1>5. Nat \subseteq S
  BY <1>2, <1>4, SetInduction, Zenon
<1>6. \A l \in Levels : FoundID(a[1], l) = a[2][l]
  BY <1>5, TrieAssumption DEF Levels
<1>7. \A l \in Levels : l # 1 => l - 1 \in Levels
  BY TrieAssumption DEF Levels
<1>8. QED
  BY <1>3, <1>6, <1>7

-----------------------------------------------------------------------------
(***************************************************************************)
(* As long as no read fails, a subject named by an ID is the one found     *)
(* from the type down, so that a link depends on the evidence only.        *)
(***************************************************************************)
PlainIDs(v) == [i \in DOMAIN v.pkgs |-> FoundID(v.pkgs[i], Level(v))]
PlainSubjects(v) == {PlainIDs(v)[i] : i \in DOMAIN v.pkgs}
PlainKey(v) ==
  <<v.kind, IF v.kind = "pkgEqual" THEN PlainSubjects(v) ELSE PlainIDs(v)>>

LEMMA SubjectIs ==
  ASSUME ChainInv, IndexInv, NEW r \in Requests, NEW i \in DOMAIN r.pkgs, SubjectFound(r, i)
  PROVE  /\ SubjectKey(r, i) = PackageKey(r.pkgs[i], Level(r))
         /\ SubjectKey(r, i) \in DOMAIN store
         /\ store[SubjectKey(r, i)].id = FoundID(r.pkgs[i], Level(r))
         /\ SubjectIDs(r)[i] = FoundID(r.pkgs[i], Level(r))
<1> DEFINE p == r.pkgs[i]
           l == Level(r)
<1>1. l \in Levels /\ l \in Nat /\ l > 0
  BY RequestShape, EvidenceShape DEF Levels
<1>2. SubjectKey(r, i) \in DOMAIN store
  BY DEF SubjectFound
<1>3. CASE r.ids[i] = NoID
  <2>1. SubjectKey(r, i) = PackageKey(p, l)
    BY <1>3 DEF SubjectKey
  <2>2. store[SubjectKey(r, i)].id = FoundID(p, l)
    BY <1>1, <1>2, <2>1, FoundStep
  <2>3. QED
    BY <1>2, <1>3, <2>1, <2>2 DEF SubjectIDs
<1>4. CASE r.ids[i] # NoID
  <2>1. r.ids[i] \in Answered(p, l)
    BY <1>4, RequestShape
  <2>2. PICK a \in answers : a[1] = p /\ r.ids[i] = a[2][l]
    BY <2>1 DEF Answered
  <2> DEFINE k == ChainKey(p, a[2], l)
  <2>3. k \in DOMAIN store /\ store[k].id = r.ids[i]
    BY <1>1, <2>2 DEF ChainInv, Holds
  <2>4. k = PackageKey(p, l) /\ FoundID(p, l) = r.ids[i]
    BY <1>1, <2>2, FoundAnswered
  <2> HIDE DEF k
  <2>5. r.ids[i] \in DOMAIN index /\ index[r.ids[i]] = k
    BY <2>3 DEF IndexInv, Indexed
  <2>6. SubjectKey(r, i) = k
    BY <1>4, <2>5 DEF SubjectKey, KeyByID
  <2>7. SubjectIDs(r)[i] = r.ids[i]
    BY <2>3, <2>6 DEF SubjectIDs
  <2>8. QED
    BY <2>3, <2>4, <2>6, <2>7
<1>5. QED
  BY <1>3, <1>4

LEMMA LinkIsPlain ==
  ASSUME ChainInv, IndexInv, NEW r \in Requests,
         \A i \in DOMAIN r.pkgs : SubjectFound(r, i),
         NEW v, v = EvidenceOf(r)
  PROVE  /\ LinkKey(r) = PlainKey(v)
         /\ Subjects(r) = PlainSubjects(v)
         /\ NoID \notin PlainSubjects(v)
         /\ v \in Evidence
<1>1. v \in Evidence /\ v.kind = r.kind /\ v.pkgs = r.pkgs /\ Level(r) = Level(v)
  BY RequestShape
<1>2. \A i \in DOMAIN v.pkgs :
        /\ SubjectIDs(r)[i] = PlainIDs(v)[i]
        /\ PlainIDs(v)[i] \in IDs
  <2>1. SUFFICES ASSUME NEW i \in DOMAIN r.pkgs
                 PROVE  /\ SubjectIDs(r)[i] = FoundID(r.pkgs[i], Level(r))
                        /\ FoundID(r.pkgs[i], Level(r)) \in IDs
    BY <1>1 DEF PlainIDs
  <2>2. /\ SubjectIDs(r)[i] = FoundID(r.pkgs[i], Level(r))
        /\ SubjectKey(r, i) \in DOMAIN store
        /\ store[SubjectKey(r, i)].id = FoundID(r.pkgs[i], Level(r))
    BY SubjectIs
  <2>3. store[SubjectKey(r, i)].id \in IDs
    BY <2>2 DEF ChainInv, TrieInv, CoreOK, Node
  <2>4. QED
    BY <2>2, <2>3
<1>3. SubjectIDs(r) = PlainIDs(v)
  <2>1. /\ SubjectIDs(r) = [i \in DOMAIN v.pkgs |-> SubjectIDs(r)[i]]
        /\ PlainIDs(v) = [i \in DOMAIN v.pkgs |-> PlainIDs(v)[i]]
    BY <1>1 DEF SubjectIDs, PlainIDs
  <2>2. QED
    BY <1>2, <2>1, Zenon
<1>4. Subjects(r) = PlainSubjects(v)
  BY <1>1, <1>3 DEF Subjects, PlainSubjects
<1>5. LinkKey(r) = PlainKey(v)
  BY <1>1, <1>3, <1>4 DEF LinkKey, PlainKey
<1>6. NoID \notin PlainSubjects(v)
  BY <1>2 DEF PlainSubjects, IDs, NoID
<1>7. QED
  BY <1>1, <1>4, <1>5, <1>6

LEMMA PlainStays ==
  ASSUME RootKeys, IDsStay, NEW v \in Evidence, NoID \notin PlainSubjects(v)
  PROVE  /\ PlainSubjects(v)' = PlainSubjects(v)
         /\ PlainKey(v)' = PlainKey(v)
<1>1. Level(v) \in Nat
  BY EvidenceShape DEF Levels
<1>2. ASSUME NEW i \in DOMAIN v.pkgs
      PROVE  FoundID(v.pkgs[i], Level(v))' = FoundID(v.pkgs[i], Level(v))
  <2>1. PlainIDs(v)[i] = FoundID(v.pkgs[i], Level(v)) /\ PlainIDs(v)[i] \in PlainSubjects(v)
    BY DEF PlainIDs, PlainSubjects
  <2>2. FoundID(v.pkgs[i], Level(v)) # NoID
    BY <2>1
  <2>3. PICK p, l : p = v.pkgs[i] /\ l = Level(v)
    OBVIOUS
  <2>4. FoundID(p, l)' = FoundID(p, l)
    BY <1>1, <2>2, <2>3, FoundStays
  <2>5. QED
    BY <2>3, <2>4
<1>3. PlainIDs(v)' = PlainIDs(v)
  BY <1>2 DEF PlainIDs
<1>4. QED
  BY <1>3 DEF PlainSubjects, PlainKey
-----------------------------------------------------------------------------
(***************************************************************************)
(* As long as no read fails, nodes keep their IDs, whatever requests for   *)
(* packages and verbs do, so evidence has the same subjects at all times.  *)
(***************************************************************************)
LEMMA VerbKeeps ==
  ASSUME LinkTypes, NEW t \in VerbThreads, NEW n, VerbWrites(t, n)
  PROVE  IDsStay /\ DOMAIN store' = DOMAIN store
BY VerbWritesShape DEF IDsStay

LEMMA LinksIDsStay ==
  ASSUME LinkTypes, ChainInv, [LinksNext]_allVars, faults'.reads = 0
  PROVE  IDsStay
<1>1. UNCHANGED store => IDsStay
  BY DEF IDsStay
<1>2. ASSUME NEW t \in VerbThreads, VerbStep(t) PROVE IDsStay
  BY <1>1, <1>2, VerbStepIs, VerbKeeps DEF VerbQuiet
<1>3. QED
  BY <1>1, <1>2, StepStore DEF LinksNext, allVars, vars

LEMMA LinksChain ==
  ASSUME LinkTypes, ChainInv, [LinksNext]_allVars, faults'.reads = 0
  PROVE  ChainInv'
<1>1. TrieInv' /\ IDsStay
  BY LinkTypesNext, LinksIDsStay DEF LinkTypes
<1>2. UNCHANGED <<th, answers>> => ChainInv'
  BY <1>1, StaysHeld DEF ChainInv, Climbed, Holds, StillHolds
<1>3. ASSUME NEW t \in VerbThreads, VerbStep(t) PROVE UNCHANGED <<th, answers>>
  BY <1>3, VerbStepIs DEF VerbWrites, VerbQuiet
<1>4. QED
  BY <1>2, <1>3, ChainStepInv DEF LinksNext, allVars, vars

LEMMA LinksRootKeys ==
  ASSUME LinkTypes, ChainInv, RootKeys, [LinksNext]_allVars, faults'.reads = 0
  PROVE  RootKeys'
<1>1. ASSUME NEW t \in Threads, Creates(t) PROVE RootKeys'
  <2>1. KeyOf(t)[1] = th[t].lvl /\ KeyOf(t)[2] = th[t].parent.node.id
    BY DEF KeyOf
  <2>2. th[t].lvl # 1 => th[t].parent.node.id \in IDs
    BY <1>1 DEF Creates, LinkTypes, TrieInv, InHand, Object, Node
  <2>3. NoID \notin IDs
    BY DEF NoID, IDs
  <2>4. QED
    BY <1>1, <2>1, <2>2, <2>3 DEF Creates, RootKeys
<1>2. DOMAIN store' = DOMAIN store => RootKeys'
  BY DEF RootKeys
<1>3. ASSUME NEW t \in VerbThreads, VerbStep(t) PROVE DOMAIN store' = DOMAIN store
  BY <1>3, VerbStepIs, VerbKeeps DEF VerbQuiet
<1>4. QED
  BY <1>1, <1>2, <1>3, StepStore DEF LinksNext, allVars, vars

(* A link once stored keeps its ID, until a read fails.                    *)
LinksKept == \A lk \in DOMAIN links : lk \in DOMAIN links' /\ links'[lk] = links[lk]

LEMMA NotLinked ==
  ASSUME LinkTypes, NEW t \in VerbThreads, NEW n, VerbWrites(t, n), faults'.reads = 0
  PROVE  LinkKey(vth[t].verb) \notin DOMAIN links
BY SectionFaults DEF LinkTypes, TrieInv, VerbWrites, Linked

LEMMA LinksStay ==
  ASSUME LinkTypes, [LinksNext]_allVars, faults'.reads = 0
  PROVE  LinksKept
<1>1. links' = links => LinksKept
  BY DEF LinksKept
<1>2. ASSUME NEW t \in VerbThreads, NEW n, VerbWrites(t, n) PROVE LinksKept
  <2> DEFINE lk == LinkKey(vth[t].verb)
  <2>1. lk \notin DOMAIN links
    BY <1>2, NotLinked
  <2>2. links' = links \/ links' = Put(links, lk, NewID)
    BY <1>2, VerbWritesShape
  <2> HIDE DEF lk
  <2>3. QED
    BY <1>1, <2>1, <2>2 DEF Put, LinksKept
<1>3. ASSUME NEW t \in VerbThreads, VerbStep(t) PROVE LinksKept
  BY <1>1, <1>2, <1>3, VerbStepIs DEF VerbQuiet
<1>4. QED
  BY <1>1, <1>3 DEF LinksNext, allVars, linkVars

(* What a request was told is the link that is stored.                     *)
ToldNow(v, id) ==
  /\ v \in Evidence
  /\ NoID \notin PlainSubjects(v)
  /\ PlainKey(v) \in DOMAIN links
  /\ links[PlainKey(v)] = id

ToldStored == \A a \in told : ToldNow(a[1], a[2])

LEMMA ToldStays ==
  ASSUME LinkTypes, ChainInv, RootKeys, [LinksNext]_allVars, faults'.reads = 0,
         NEW v, NEW id, ToldNow(v, id)
  PROVE  ToldNow(v, id)'
<1>1. v \in Evidence /\ NoID \notin PlainSubjects(v)
  BY DEF ToldNow
<1>2. PlainSubjects(v)' = PlainSubjects(v) /\ PlainKey(v)' = PlainKey(v)
  BY <1>1, LinksIDsStay, PlainStays
<1>3. LinksKept
  BY LinksStay
<1>4. QED
  BY <1>1, <1>2, <1>3 DEF ToldNow, LinksKept

LEMMA LinksTold ==
  ASSUME LinkTypes, ChainInv, IndexInv, RootKeys, ToldStored,
         [LinksNext]_allVars, faults'.reads = 0
  PROVE  ToldStored'
<1>2. (\A a \in told' : ToldNow(a[1], a[2])') => ToldStored'
  BY DEF ToldStored
<1>3. \A a \in told : ToldNow(a[1], a[2])'
  BY ToldStays DEF ToldStored
<1>4. ASSUME NEW t \in VerbThreads, VerbFinds(t)
      PROVE  \A a \in told' : ToldNow(a[1], a[2])'
  <2>1. PICK r \in Requests : r = vth[t].verb
    BY <1>4, VerbIs DEF VerbFinds
  <2>2. PICK v, id : v = EvidenceOf(r) /\ id = links[LinkKey(r)]
    OBVIOUS
  <2>3. told' = told \cup {<<v, id>>}
    BY <1>4, <2>1, <2>2 DEF VerbFinds, Tell
  <2>4. \A i \in DOMAIN r.pkgs : SubjectFound(r, i)
    BY <1>4, <2>1 DEF VerbFinds, SubjectsFound
  <2>5. LinkKey(r) = PlainKey(v) /\ NoID \notin PlainSubjects(v) /\ v \in Evidence
    BY <2>2, <2>4, LinkIsPlain
  <2>6. ToldNow(v, id)
    BY <1>4, <2>1, <2>2, <2>5 DEF ToldNow, VerbFinds, Linked
  <2>7. ToldNow(v, id)'
    BY <2>6, ToldStays
  <2>8. QED
    BY <1>3, <2>3, <2>7
<1>5. ASSUME NEW t \in VerbThreads, VerbInserts(t)
      PROVE  \A a \in told' : ToldNow(a[1], a[2])'
  <2>1. PICK r \in Requests : r = vth[t].verb
    BY <1>5, VerbIs DEF VerbInserts, VerbAt
  <2>2. PICK v, id : v = EvidenceOf(r) /\ id = NewID
    OBVIOUS
  <2>3. told' = told \cup {<<v, id>>}
    BY <1>5, <2>1, <2>2 DEF VerbInserts, Tell
  <2>4. \A i \in DOMAIN r.pkgs : SubjectFound(r, i)
    BY <1>5, <2>1 DEF VerbInserts, SubjectsFound
  <2>5. LinkKey(r) = PlainKey(v) /\ NoID \notin PlainSubjects(v) /\ v \in Evidence
    BY <2>2, <2>4, LinkIsPlain
  <2>6. links' = Put(links, PlainKey(v), id)
    BY <1>5, <2>1, <2>2, <2>5 DEF VerbInserts, Writes
  <2>7. PlainSubjects(v)' = PlainSubjects(v) /\ PlainKey(v)' = PlainKey(v)
    BY <2>5, LinksIDsStay, PlainStays
  <2>8. ToldNow(v, id)'
    BY <2>5, <2>6, <2>7 DEF ToldNow, Put
  <2>9. QED
    BY <1>3, <2>3, <2>8
<1>6. CASE UNCHANGED told
  BY <1>2, <1>3, <1>6
<1>7. ASSUME ~UNCHANGED told
      PROVE  \E t \in VerbThreads : VerbFinds(t) \/ VerbInserts(t)
  BY <1>7 DEF LinksNext, linkVars, allVars, VerbStep, IngestVerb, NoSubject,
              SubjectUnread, VerbMisses, LinkUnread, ToWrite, VerbWriteFails
<1>8. QED
  BY <1>2, <1>4, <1>5, <1>6, <1>7

LinksInv == LinksIndexed /\ (faults.reads = 0 => ChainInv /\ RootKeys /\ ToldStored)

LEMMA LinksInvInit == LinksInit => LinksInv
BY LinksIndexedInit, ChainInit DEF LinksInit, Init, LinksInv, RootKeys, ToldStored

LEMMA ReadsGrow ==
  ASSUME LinkTypes, [LinksNext]_allVars, faults'.reads = 0
  PROVE  faults.reads = 0
<1>1. ASSUME NEW t \in Threads, Step(t) PROVE faults.reads = 0
  BY <1>1, FaultsGrow DEF LinkTypes, Next
<1>2. ASSUME NEW t \in VerbThreads, VerbStep(t) PROVE faults.reads = 0
  BY <1>2, VerbStepIs, SectionFaults DEF LinkTypes, TrieInv, VerbQuiet, VerbWrites
<1>3. QED
  BY <1>1, <1>2 DEF LinksNext, allVars, vars

LEMMA LinksInvNext == LinksInv /\ [LinksNext]_allVars => LinksInv'
<1> SUFFICES ASSUME LinksInv, [LinksNext]_allVars PROVE LinksInv'
  OBVIOUS
<1>1. LinkTypes /\ IndexInv /\ LinksIndexed'
  BY LinksIndexedNext DEF LinksInv, LinksIndexed
<1>2. ASSUME faults'.reads = 0 PROVE ChainInv' /\ RootKeys' /\ ToldStored'
  <2>1. ChainInv /\ RootKeys /\ ToldStored
    BY <1>1, <1>2, ReadsGrow DEF LinksInv
  <2>2. QED
    BY <1>1, <1>2, <2>1, LinksChain, LinksRootKeys, LinksTold
<1>3. QED
  BY <1>1, <1>2 DEF LinksInv

(* Evidence has one ID: two requests for the same evidence are told the    *)
(* same, in whichever order they name equal packages, whether they name    *)
(* them by ID, however they interleave with each other and with the        *)
(* ingestion of their subjects, and wherever writes break off, until a     *)
(* read fails.                                                             *)
THEOREM VerbIDsStable == LinksSpec => []VerbsStable
<1>1. ASSUME NEW u \in Evidence, NEW v \in Evidence, u.kind = v.kind,
             IF u.kind = "pkgEqual"
             THEN {u.pkgs[1], u.pkgs[2]} = {v.pkgs[1], v.pkgs[2]}
             ELSE u.pkgs = v.pkgs
      PROVE  PlainKey(u) = PlainKey(v)
  <2>1. CASE u.kind # "pkgEqual"
    <3>1. PlainIDs(u) = PlainIDs(v)
      BY <1>1, <2>1 DEF PlainIDs, Level
    <3>2. QED
      BY <1>1, <2>1, <3>1 DEF PlainKey
  <2>2. CASE u.kind = "pkgEqual"
    <3>1. ASSUME NEW w \in Evidence, w.kind = "pkgEqual"
          PROVE  PlainSubjects(w) = {FoundID(p, Depth) : p \in {w.pkgs[1], w.pkgs[2]}}
      <4>1. DOMAIN w.pkgs = {1, 2}
        BY <3>1, LinksAssumption
      <4>2. \A i \in DOMAIN w.pkgs : PlainIDs(w)[i] = FoundID(w.pkgs[i], Depth)
        BY <3>1 DEF PlainIDs, Level
      <4>3. QED
        BY <4>1, <4>2 DEF PlainSubjects
    <3>2. PlainSubjects(u) = PlainSubjects(v)
      BY <1>1, <2>2, <3>1
    <3>3. QED
      BY <1>1, <2>2, <3>2 DEF PlainKey
  <2>3. QED
    BY <2>1, <2>2
<1>2. LinksInv => VerbsStable
  <2> SUFFICES ASSUME ToldStored, NEW a \in told, NEW b \in told,
                      a[1].kind = b[1].kind,
                      IF a[1].kind = "pkgEqual"
                      THEN {a[1].pkgs[1], a[1].pkgs[2]} = {b[1].pkgs[1], b[1].pkgs[2]}
                      ELSE a[1].pkgs = b[1].pkgs
               PROVE  a[2] = b[2]
    BY DEF VerbsStable, LinksInv
  <2>1. /\ a[1] \in Evidence /\ links[PlainKey(a[1])] = a[2]
        /\ b[1] \in Evidence /\ links[PlainKey(b[1])] = b[2]
    BY DEF ToldStored, ToldNow
  <2>2. PlainKey(a[1]) = PlainKey(b[1])
    BY <1>1, <2>1
  <2>3. QED
    BY <2>1, <2>2
<1>3. QED
  BY <1>2, LinksInvInit, LinksInvNext, PTL DEF LinksSpec
-----------------------------------------------------------------------------
(***************************************************************************)
(* Backlinks.  A request that adds a child writes the node above it back,  *)
(* over a remote store from a copy; nodes of the last level, and objects   *)
(* of a memmap, keep the backlinks they have.                              *)
(***************************************************************************)
Kept(k) == Remote => k[1] = Depth

(* The IDs a link is about.                                                *)
LinkSubjects(lk) ==
  IF lk[1] = "pkgEqual" THEN lk[2] ELSE {lk[2][i] : i \in DOMAIN lk[2]}

(* The subjects of a link are nodes that no request writes back from a     *)
(* copy, and they all have its backlink.                                   *)
Owned(x) == \E k \in DOMAIN store : store[k].id = x /\ Kept(k)

LinksBack ==
  \A lk \in DOMAIN links : \A x \in LinkSubjects(lk) :
    /\ Owned(x)
    /\ \A k \in DOMAIN store : store[k].id = x => links[lk] \in store[k].links

LEMMA InsertKeepsLinks ==
  ASSUME ChainInv, NEW t \in Threads, Inserts(t), ~Stored(t)
  PROVE  \A k \in DOMAIN store : Kept(k) => store'[k].links = store[k].links
<1>1. th[t] \in Busy /\ TrieInv /\ nextID < MaxID
  BY BusyIs DEF Inserts, ChainInv, TrieInv
<1>2. PICK n \in 0..NumWrites(t) : store' = StoreAfter(t, n)
  BY DEF Inserts
<1>3. KeyOf(t) \notin DOMAIN store
  BY DEF Stored
<1>4. CASE n \in 0..1
  BY <1>2, <1>4, StoreAfterIs
<1>5. CASE n = 2
  BY <1>1, <1>2, <1>3, <1>5, StoreAfterIs, NodesShape
<1>6. CASE n = 3
  <2>1. store' = LinkChild(Nodes(t), th[t].parent, NewID) /\ th[t].lvl # 1
    BY <1>2, <1>6, StoreAfterIs
  <2> DEFINE key == th[t].parent.key
  <2>2. /\ store'[key] = Parent(t)
        /\ \A k \in DOMAIN store : k \notin {KeyOf(t), key} => store'[k] = store[k]
    BY <1>1, <2>1, LinkShape
  <2>3. key \in DOMAIN store /\ key[1] = th[t].lvl - 1
    BY <1>1, <2>1 DEF TrieInv, InHand
  <2>4. key[1] # Depth
    BY <1>1, <2>3, TrieAssumption DEF Busy, Levels
  <2>5. ~Remote => Parent(t).links = store[key].links
    BY <1>1, <2>3 DEF Parent, TrieInv, CoreOK, Node
  <2>6. QED
    BY <1>3, <2>2, <2>4, <2>5 DEF Kept
<1>7. QED
  BY <1>4, <1>5, <1>6, StoreAfterIs

LEMMA StepKeepsLinks ==
  ASSUME ChainInv, NEW t \in Threads, Step(t), faults'.reads = 0
  PROVE  \A k \in DOMAIN store : Kept(k) => store'[k].links = store[k].links
<1>1. ~ReadFault
  BY SectionFaults DEF ChainInv, TrieInv
<1>0. ~BothFault
  BY FaultTypes DEF ChainInv, TrieInv
<1>2. RecheckMisses(t) => Inserts(t) /\ ~Stored(t)
  BY InsertIs DEF RecheckMisses
<1>3. WriteFails(t) => Inserts(t) /\ ~Stored(t)
  BY <1>0 DEF WriteFails, Inserts
<1>4. UNCHANGED store \/ (Inserts(t) /\ ~Stored(t))
  BY <1>1, <1>2, <1>3
     DEF Step, IngestPackage, ReadFinds, ReadMisses, ReadFails, RecheckFinds, RecheckFails
<1>5. QED
  BY <1>4, InsertKeepsLinks

(* A link is a backlink of the node with ID x.                             *)
BackLinked(x, id) ==
  Owned(x) /\ \A k \in DOMAIN store : store[k].id = x => id \in store[k].links

LEMMA StepKeepsBack ==
  ASSUME ChainInv, IndexInv, NEW t \in Threads, Step(t), faults'.reads = 0,
         NEW x, NEW id, BackLinked(x, id)
  PROVE  BackLinked(x, id)'
<1>1. PICK o \in DOMAIN store : store[o].id = x /\ Kept(o)
  BY DEF BackLinked, Owned, Kept
<1>2. IDsStay
  BY StepStore
<1>3. o \in DOMAIN store' /\ store'[o].id = x /\ id \in store'[o].links
  BY <1>1, <1>2, StepKeepsLinks DEF IDsStay, BackLinked
<1>4. nextID \in Nat /\ x \in Nat /\ x <= nextID /\ index[x] = o
  BY <1>1, TrieAssumption DEF IndexInv, Indexed, TrieInv, CoreOK, Node, IDs
<1>5. ASSUME NEW k \in DOMAIN store', store'[k].id = x
      PROVE  k = o
  <2>1. k \in DOMAIN store
    <3>1. DOMAIN store' = DOMAIN store \/ Creates(t)
      BY StepStore
    <3>2. store'[k].id # nextID + 1
      BY <1>4, <1>5
    <3>3. QED
      BY <1>5, <3>1, <3>2 DEF Creates
  <2>2. store[k].id = x
    BY <1>2, <1>5, <2>1 DEF IDsStay
  <2>3. QED
    BY <1>4, <2>1, <2>2 DEF IndexInv, Indexed
<1>6. QED
  BY <1>1, <1>3, <1>5 DEF BackLinked, Owned, Kept

LEMMA VerbKeepsBack ==
  ASSUME LinkTypes, NEW t \in VerbThreads, NEW n, VerbWrites(t, n),
         NEW x, NEW id, BackLinked(x, id)
  PROVE  BackLinked(x, id)'
BY VerbWritesShape DEF BackLinked, Owned

(* An insertion leaves its link at all its subjects before the link itself *)
(* is written.                                                             *)
LEMMA VerbLinksBack ==
  ASSUME "certifyBadName" \notin Kinds \/ ~Remote,
         LinkTypes, ChainInv, IndexInv,
         NEW t \in VerbThreads, VerbWrites(t, LinkWrites(t)),
         NEW r \in Requests, r = vth[t].verb, NEW id, id = NewID,
         NEW x \in PlainSubjects(EvidenceOf(r))
  PROVE  BackLinked(x, id)'
<1>1. PICK i \in DOMAIN r.pkgs : x = FoundID(r.pkgs[i], Level(r))
  BY RequestShape DEF PlainSubjects, PlainIDs
<1>2. SubjectFound(r, i)
  BY DEF VerbWrites, SubjectsFound
<1>3. PICK k \in DOMAIN store : k = SubjectKey(r, i) /\ store[k].id = x /\ k[1] = Level(r)
  BY <1>1, <1>2, SubjectIs DEF SubjectFound
<1>4. Kept(k)
  BY <1>3, RequestShape DEF Kept, Level
<1>5. k \in DOMAIN store' /\ store'[k].id = x
  BY <1>3, VerbWritesShape
<1>6. Owned(x)'
  BY <1>4, <1>5 DEF Owned, Kept
<1>7. k \in Backlinked(t, LinkWrites(t))
  <2>1. i \in 1..Len(r.pkgs) /\ Len(r.pkgs) \in Nat
    BY RequestShape
  <2>2. i < LinkWrites(t)
    BY <2>1 DEF LinkWrites
  <2>3. QED
    BY <1>3, <2>2 DEF Backlinked
<1>8. ASSUME NEW y \in DOMAIN store', store'[y].id = x
      PROVE  id \in store'[y].links
  <2>1. y \in DOMAIN store /\ store[y].id = x
    BY <1>8, VerbWritesShape
  <2>2. y = k
    BY <1>3, <2>1 DEF IndexInv, Indexed
  <2>3. QED
    BY <1>7, <2>1, <2>2, VerbWritesShape
<1>9. QED
  BY <1>6, <1>8 DEF BackLinked

LEMMA LinksBackVerb ==
  ASSUME "certifyBadName" \notin Kinds \/ ~Remote,
         LinkTypes, ChainInv, IndexInv, LinksBack,
         NEW t \in VerbThreads, NEW n, VerbWrites(t, n), faults'.reads = 0
  PROVE  LinksBack'
<1> DEFINE Back(lk) == \A x \in LinkSubjects(lk) :
                         \A id : id = links'[lk] => BackLinked(x, id)'
<1>1. (\A lk \in DOMAIN links' : Back(lk)) => LinksBack'
  BY DEF LinksBack, BackLinked
<1>2. ASSUME NEW lk \in DOMAIN links, links'[lk] = links[lk] PROVE Back(lk)
  <2> SUFFICES ASSUME NEW x \in LinkSubjects(lk), NEW id, id = links'[lk]
               PROVE  BackLinked(x, id)'
    OBVIOUS
  <2>1. BackLinked(x, id)
    BY <1>2 DEF LinksBack, BackLinked
  <2>2. QED
    BY <2>1, VerbKeepsBack
<1>3. PICK r, id : r \in Requests /\ r = vth[t].verb /\ id = NewID
  BY VerbIs DEF VerbWrites, VerbAt
<1>4. PICK new : new = LinkKey(r)
  OBVIOUS
<1>5. links' = links \/ (links' = Put(links, new, id) /\ n = LinkWrites(t))
  BY <1>3, <1>4, VerbWritesShape
<1>6. CASE links' = links
  BY <1>1, <1>2, <1>6
<1>7. CASE links' = Put(links, new, id) /\ n = LinkWrites(t)
  <2>0. LinkSubjects(new) = PlainSubjects(EvidenceOf(r))
    <3>1. \A i \in DOMAIN r.pkgs : SubjectFound(r, i)
      BY <1>3 DEF VerbWrites, SubjectsFound
    <3>2. new = PlainKey(EvidenceOf(r))
      BY <1>3, <1>4, <3>1, LinkIsPlain
    <3>3. QED
      BY <3>2 DEF PlainKey, LinkSubjects, PlainSubjects, PlainIDs
  <2>1. \A x \in LinkSubjects(new) : BackLinked(x, id)'
    BY <1>3, <1>7, <2>0, VerbLinksBack
  <2>2. Back(new)
    BY <1>7, <2>1 DEF Put
  <2>3. ASSUME NEW lk \in DOMAIN links', lk # new PROVE Back(lk)
    <3>1. lk \in DOMAIN links /\ links'[lk] = links[lk]
      BY <1>7, <2>3 DEF Put
    <3>2. QED
      BY <1>2, <3>1
  <2>4. QED
    BY <1>1, <2>2, <2>3
<1>8. QED
  BY <1>5, <1>6, <1>7

LEMMA LinksBackNext ==
  ASSUME "certifyBadName" \notin Kinds \/ ~Remote,
         LinkTypes, ChainInv, IndexInv, LinksBack, [LinksNext]_allVars, faults'.reads = 0
  PROVE  LinksBack'
<1>2. CASE UNCHANGED <<store, links>>
  BY <1>2 DEF LinksBack, Owned, Kept
<1>3. ASSUME NEW t \in Threads, Step(t), UNCHANGED links PROVE LinksBack'
  <2>1. ASSUME NEW lk \in DOMAIN links, NEW x \in LinkSubjects(lk), NEW id, id = links[lk]
        PROVE  BackLinked(x, id)'
    BY <1>3, <2>1, StepKeepsBack DEF LinksBack, BackLinked
  <2>2. QED
    BY <1>3, <2>1 DEF LinksBack, BackLinked
<1>4. ASSUME NEW t \in VerbThreads, VerbStep(t) PROVE LinksBack'
  BY <1>2, <1>4, VerbStepIs, LinksBackVerb DEF VerbQuiet
<1>5. QED
  BY <1>2, <1>3, <1>4 DEF LinksNext, linkVars, allVars, vars

(* From the moment a request for a verb is answered until a read fails,    *)
(* every subject of the verb has the backlink that queries follow,         *)
(* whatever packages and verbs are ingested meanwhile, whether they name   *)
(* their subjects by ID, and wherever their writes break off.  Evidence    *)
(* about a package name over a remote store is the exception: the request  *)
(* for a version writes the name back from a copy.                         *)
THEOREM VerbNeighbors ==
  ASSUME "certifyBadName" \notin Kinds \/ ~Remote
  PROVE  LinksSpec => []NeighborsComplete
<1> DEFINE Inv == LinksInv /\ (faults.reads = 0 => LinksBack)
<1>1. LinksInit => Inv
  BY LinksInvInit DEF LinksInit, LinksBack
<1>2. Inv /\ [LinksNext]_allVars => Inv'
  <2> SUFFICES ASSUME Inv, [LinksNext]_allVars, faults'.reads = 0
               PROVE  LinksBack'
    BY LinksInvNext
  <2>1. LinkTypes /\ IndexInv
    BY DEF LinksInv, LinksIndexed
  <2>2. ChainInv /\ LinksBack
    BY <2>1, ReadsGrow DEF LinksInv
  <2>3. QED
    BY <2>1, <2>2, LinksBackNext
<1>3. Inv => NeighborsComplete
  <2> SUFFICES ASSUME LinksInv, LinksBack, ToldStored, NEW a \in told, NEW i \in DOMAIN a[1].pkgs
               PROVE  /\ PackageKey(a[1].pkgs[i], Level(a[1])) \in DOMAIN store
                      /\ a[2] \in store[PackageKey(a[1].pkgs[i], Level(a[1]))].links
    BY DEF NeighborsComplete, LinksInv
  <2> DEFINE v == a[1]
             key == PackageKey(v.pkgs[i], Level(v))
             x == FoundID(v.pkgs[i], Level(v))
  <2>1. /\ v \in Evidence /\ PlainKey(v) \in DOMAIN links
        /\ links[PlainKey(v)] = a[2] /\ NoID \notin PlainSubjects(v)
    BY DEF ToldStored, ToldNow
  <2>2. Level(v) \in Nat /\ Level(v) > 0
    BY <2>1, EvidenceShape DEF Levels
  <2>3. x \in PlainSubjects(v)
    BY DEF PlainSubjects, PlainIDs
  <2>4. key \in DOMAIN store /\ store[key].id = x
    BY <2>1, <2>2, <2>3, FoundStep
  <2>5. x \in LinkSubjects(PlainKey(v))
    BY <2>3 DEF LinkSubjects, PlainKey, PlainSubjects, PlainIDs
  <2>6. QED
    BY <2>1, <2>4, <2>5 DEF LinksBack
<1>4. QED
  BY <1>1, <1>2, <1>3, PTL DEF LinksSpec
=============================================================================
