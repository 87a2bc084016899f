------------------------------ MODULE PkgLinks ------------------------------
(***************************************************************************)
(* The evidence ("verbs") of the keyvalue backend, ingested while packages *)
(* are being ingested: certifyBad.go, isDependency.go, pkgEqual.go, and    *)
(* with the same shape the other verb files.                               *)
(*                                                                         *)
(* A verb names its subject packages.  Its link is stored under a key      *)
(* made of the subjects' IDs and the evidence; each subject's node         *)
(* holds the link's ID as a backlink, which queries by package, Neighbors  *)
(* and Path follow.  IngestVerb looks for the subjects and the link under  *)
(* the read lock; if there is no link it starts again under the write lock *)
(* and then writes the index entry, the backlinks and, last, the link.     *)
(* Links take their IDs from the counter of the package tree and share its *)
(* index.                                                                  *)
(***************************************************************************)
EXTENDS PkgTrie, Sequences

CONSTANTS
  VerbThreads,  \* concurrent requests that ingest verbs
  Evidence      \* the evidence ingested

(* Evidence is about one package or two; a certifyBad may be about the     *)
(* name, that is, about all versions.                                      *)
ASSUME LinksAssumption ==
  /\ Evidence \subseteq
       [kind : {"certifyBadName", "certifyBad"}, pkgs : {<<p>> : p \in Packages}] \cup
       [kind : {"isDependency", "pkgEqual"}, pkgs : Packages \X Packages]
  /\ Depth > 1

VARIABLES
  links,  \* the verb collections: a partial function from link keys to IDs
  vth,    \* the state of every verb request
  told    \* every <<verb, ID>> a request has returned (history)

treeVars == <<store, nextID, th, answers, faults>>
linkVars == <<links, vth, told>>
allVars  == <<vars, linkVars>>

(* Definitions named "...Bug" are faults that the properties below must    *)
(* tell from the code; nothing uses them.                                  *)

Kinds == {v.kind : v \in Evidence}

(* The level of the nodes that the evidence is about.                      *)
Level(v) == IF v.kind = "certifyBadName" THEN Depth - 1 ELSE Depth

(* A request names each package by what it consists of (NoID), or by an ID *)
(* that a client was answered before, as the bulk assembler does.          *)
Answered(p, l) == {a[2][l] : a \in {x \in answers : x[1] = p}}
Names(v, i) == {NoID} \cup Answered(v.pkgs[i], Level(v))
ArgumentIDs(v) ==
  {f \in [DOMAIN v.pkgs -> UNION {Names(v, i) : i \in DOMAIN v.pkgs}] :
     \A i \in DOMAIN v.pkgs : f[i] \in Names(v, i)}
Request(v, ids) == [kind |-> v.kind, pkgs |-> v.pkgs, ids |-> ids]
Requests == UNION {{Request(v, ids) : ids \in ArgumentIDs(v)} : v \in Evidence}
EvidenceOf(r) == [kind |-> r.kind, pkgs |-> r.pkgs]

(* The ID of the node of package p at level l, found from the type down,   *)
(* or NoID; and the key of that node.                                      *)
FoundID(p, l) ==
  LET id[i \in 0..l] ==
        LET key == <<i, id[i - 1], p[i]>>
        IN IF i > 0 /\ key \in DOMAIN store THEN store[key].id ELSE NoID
  IN id[l]
PackageKey(p, l) == <<l, FoundID(p, l - 1), p[l]>>

(* returnFoundPkgVersion, returnFoundPkgBasedOnMatchType: by ID through    *)
(* the index, otherwise from the type down.                                *)
KeyByID(id) == IF id \in DOMAIN index THEN index[id] ELSE Root.key
SubjectKey(r, i) ==
  IF r.ids[i] # NoID THEN KeyByID(r.ids[i]) ELSE PackageKey(r.pkgs[i], Level(r))
SubjectFound(r, i) ==
  LET key == SubjectKey(r, i) IN key \in DOMAIN store /\ key[1] = Level(r)

(* The IDs of the subjects, in the order of the arguments, and as a set.   *)
(* A certifyBad takes over the ID it was given.                            *)
SubjectIDs(r) ==
  [i \in DOMAIN r.pkgs |->
     IF r.ids[i] # NoID /\ r.kind \in {"certifyBad", "certifyBadName"}
     THEN r.ids[i] ELSE store[SubjectKey(r, i)].id]
Subjects(r) == {SubjectIDs(r)[i] : i \in DOMAIN r.pkgs}

(* Key(): the IDs of a pkgEqual are sorted, those of a dependency are not. *)
LinkKeyBug(r) == <<r.kind, SubjectIDs(r)>>
LinkKey(r) ==
  <<r.kind, IF r.kind = "pkgEqual" THEN Subjects(r) ELSE SubjectIDs(r)>>

LinksInit ==
  /\ Init
  /\ links = [k \in {} |-> k]
  /\ vth   = [t \in VerbThreads |-> Idle]
  /\ told  = {}
-----------------------------------------------------------------------------
VerbTo(t, state) == vth' = [vth EXCEPT ![t] = state]

IngestVerb(t) ==
  /\ vth[t] = Idle
  /\ \E r \in Requests : VerbTo(t, [pc |-> "read", verb |-> r])
  /\ UNCHANGED <<vars, links, told>>

(* The answer to the client.                                               *)
Tell(t, id) ==
  /\ VerbTo(t, Idle)
  /\ told' = told \cup {<<EvidenceOf(vth[t].verb), id>>}

VerbAt(t, pcs) == vth[t].pc \in pcs
SubjectsFound(t) ==
  \A i \in DOMAIN vth[t].verb.pkgs : SubjectFound(vth[t].verb, i)
Linked(t) == LinkKey(vth[t].verb) \in DOMAIN links

(* Under either lock: a subject is missing or cannot be read, and the      *)
(* request fails; or the link is there already.                            *)
NoSubject(t) ==
  /\ VerbAt(t, {"read", "write"})
  /\ ~SubjectsFound(t)
  /\ VerbTo(t, Idle)
  /\ UNCHANGED <<vars, links, told>>

SubjectUnread(t) ==
  /\ VerbAt(t, {"read", "write"})
  /\ ReadFault
  /\ VerbTo(t, Idle)
  /\ UNCHANGED <<store, index, nextID, th, answers, links, told>>

VerbFinds(t) ==
  /\ VerbAt(t, {"read", "write"})
  /\ SubjectsFound(t) /\ Linked(t)
  /\ Tell(t, links[LinkKey(vth[t].verb)])
  /\ UNCHANGED <<vars, links>>

(* The read lock is given up and the write lock taken.                     *)
ToWrite(t) == VerbTo(t, [vth[t] EXCEPT !.pc = "write"]) /\ UNCHANGED <<links, told>>

VerbMisses(t) ==
  /\ VerbAt(t, {"read"})
  /\ SubjectsFound(t) /\ ~Linked(t)
  /\ ToWrite(t)
  /\ UNCHANGED vars

LinkUnread(t) ==
  /\ VerbAt(t, {"read"})
  /\ SubjectsFound(t)
  /\ ReadFault
  /\ ToWrite(t)
  /\ UNCHANGED <<store, index, nextID, th, answers>>

(* The writes of an insertion, in order: index, backlinks, link.           *)
LinkWrites(t) == Len(vth[t].verb.pkgs) + 2
Backlinked(t, n) ==
  {SubjectKey(vth[t].verb, i) : i \in {j \in DOMAIN vth[t].verb.pkgs : j < n}}
AddBacklink(keys) ==
  store' = [k \in DOMAIN store |->
              IF k \in keys THEN [store[k] EXCEPT !.links = @ \cup {NewID}] ELSE store[k]]

WritesEarlyBug(t, n) ==
  /\ nextID' = NewID
  /\ index' = IF n >= 1 THEN Put(index, NewID, LinkKey(vth[t].verb)) ELSE index
  /\ AddBacklink(Backlinked(t, n - 1))
  /\ links' = IF n >= 2 THEN Put(links, LinkKey(vth[t].verb), NewID) ELSE links
Writes(t, n) ==
  /\ nextID' = NewID
  /\ index' = IF n >= 1 THEN Put(index, NewID, LinkKey(vth[t].verb)) ELSE index
  /\ AddBacklink(Backlinked(t, n))
  /\ links' = IF n = LinkWrites(t)
              THEN Put(links, LinkKey(vth[t].verb), NewID) ELSE links

VerbInsertsBug(t) ==    \* does not look again under the write lock
  /\ VerbAt(t, {"write"})
  /\ SubjectsFound(t)
  /\ nextID < MaxID
  /\ Writes(t, LinkWrites(t))
  /\ Tell(t, NewID)
  /\ UNCHANGED <<th, answers, faults>>
(* Nothing found under the write lock, or the link could not be read: it   *)
(* is written, over the one that is there.                                 *)
VerbInserts(t) ==
  /\ VerbAt(t, {"write"})
  /\ SubjectsFound(t)
  /\ IF Linked(t) THEN ReadFault ELSE UNCHANGED faults
  /\ nextID < MaxID
  /\ Writes(t, LinkWrites(t))
  /\ Tell(t, NewID)
  /\ UNCHANGED <<th, answers>>

(* A Set fails after n writes: the request fails, nothing is undone.       *)
VerbWriteFails(t) ==
  /\ VerbAt(t, {"write"})
  /\ SubjectsFound(t)
  /\ IF Linked(t) THEN BothFault ELSE WriteFault
  /\ nextID < MaxID
  /\ \E n \in 0..LinkWrites(t) : Writes(t, n)
  /\ VerbTo(t, Idle)
  /\ UNCHANGED <<th, answers, told>>

VerbStep(t) ==
  \/ IngestVerb(t)
  \/ NoSubject(t)
  \/ SubjectUnread(t)
  \/ VerbFinds(t)
  \/ VerbMisses(t)
  \/ LinkUnread(t)
  \/ VerbInserts(t)
  \/ VerbWriteFails(t)

LinksNext ==
  \/ (\E t \in Threads : Step(t)) /\ UNCHANGED linkVars
  \/ \E t \in VerbThreads : VerbStep(t)

LinksSpec == LinksInit /\ [][LinksNext]_allVars
-----------------------------------------------------------------------------
LinkTypeOK ==
  /\ DOMAIN store \subseteq Keys
  /\ \A k \in DOMAIN store : store[k] \in Node
  /\ nextID \in 0..MaxID
  /\ DOMAIN index \subseteq IDs
  /\ \A k \in DOMAIN links : links[k] \in IDs /\ k[1] \in Kinds
  /\ \A t \in VerbThreads :
       vth[t] # Idle =>
         /\ VerbAt(t, {"read", "write"})
         /\ EvidenceOf(vth[t].verb) \in Evidence
         /\ vth[t].verb.ids \in ArgumentIDs(EvidenceOf(vth[t].verb))

(* The link of the verb is among the neighbours of each of its subjects    *)
(* ("neighbors returns all the direct neighbors of a node",                *)
(* path.graphql:202), from the moment the verb's ingestion is answered and *)
(* until a read fails: then a node or a link is overwritten.               *)
NeighborsComplete ==
  faults.reads = 0 =>
    \A a \in told : \A i \in DOMAIN a[1].pkgs :
      LET key == PackageKey(a[1].pkgs[i], Level(a[1]))
      IN key \in DOMAIN store /\ a[2] \in store[key].links

(* The evidence is stored once: whoever ingests it is told the same ID,    *)
(* whichever of two equal packages it names first, and whether it names    *)
(* them by ID or not, until a read fails.                                  *)
VerbsStable ==
  faults.reads = 0 =>
    \A a, b \in told :
      /\ a[1].kind = b[1].kind
      /\ IF a[1].kind = "pkgEqual"
         THEN {a[1].pkgs[1], a[1].pkgs[2]} = {b[1].pkgs[1], b[1].pkgs[2]}
         ELSE a[1].pkgs = b[1].pkgs
      => a[2] = b[2]

(* Nodes and links never share an ID, and each ID leads to its owner,      *)
(* whatever reads and writes fail.                                         *)
IndexFindsAll ==
  /\ \A k \in DOMAIN store :
       store[k].id \in DOMAIN index /\ index[store[k].id] = k
  /\ \A k \in DOMAIN links :
       links[k] \in DOMAIN index /\ index[links[k]] = k
=============================================================================
