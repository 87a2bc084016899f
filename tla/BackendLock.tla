---------------------------- MODULE BackendLock ----------------------------
(***************************************************************************)
(* The one lock of the keyvalue backend: demoClient.m, a Go RWMutex, and   *)
(* the four ways in which the backend's functions take it.                 *)
(*                                                                         *)
(*  - A query (ArtifactsList, Packages, Node, ...) holds the read lock.    *)
(*  - A verb or artifact ingestion looks under the read lock; if it finds  *)
(*    nothing it gives the read lock up, does its work under the write     *)
(*    lock, and takes the read lock again so that the deferred unlock has  *)
(*    something to release.                                                *)
(*  - A level of IngestPackage does the same without the last part.        *)
(*  - Path holds the read lock during the whole search and then calls      *)
(*    Nodes, which takes the read lock once more for every node.           *)
(*                                                                         *)
(* The lock itself is that of the Go library: one writer at a time waits   *)
(* for the readers to leave; from the moment it waits until it unlocks, no *)
(* new read lock is granted; its unlock grants all the read locks that     *)
(* were asked for meanwhile.                                               *)
(***************************************************************************)
EXTENDS Naturals

CONSTANT
  Threads   \* goroutines that serve requests

VARIABLES
  pc,       \* where each goroutine is
  readers,  \* the number of read locks each goroutine holds
  blocked,  \* the goroutines whose RLock is held back by a writer
  pending,  \* the writers in Lock that wait for the readers (at most one)
  writer    \* the holders of the write lock (at most one)

vars == <<pc, readers, blocked, pending, writer>>

(* What a goroutine becomes when the read lock it asks for is granted.     *)
Granted == [wantRead |-> "reading", wantPath |-> "path",
            wantNode |-> "node",    wantAgain |-> "again"]
Asking  == DOMAIN Granted
PCs == Asking \cup {"idle", "reading", "path", "node", "again",
                    "upgrade", "locking", "writing"}

Init ==
  /\ pc      = [t \in Threads |-> "idle"]
  /\ readers = [t \in Threads |-> 0]
  /\ blocked = {}
  /\ pending = {}
  /\ writer  = {}

Goto(t, from, to) == pc[t] = from /\ pc' = [pc EXCEPT ![t] = to]
-----------------------------------------------------------------------------
(* sync.RWMutex.                                                           *)
NoWriter  == pending = {} /\ writer = {}
NoReaders == \A t \in Threads : readers[t] = 0

RLock(t) ==
  /\ pc[t] \in Asking
  /\ t \notin blocked
  /\ IF NoWriter
     THEN /\ pc' = [pc EXCEPT ![t] = Granted[pc[t]]]
          /\ readers' = [readers EXCEPT ![t] = @ + 1]
          /\ UNCHANGED blocked
     ELSE /\ blocked' = blocked \cup {t}
          /\ UNCHANGED <<pc, readers>>
  /\ UNCHANGED <<pending, writer>>

RUnlock(t, from, to) ==
  /\ Goto(t, from, to)
  /\ readers' = [readers EXCEPT ![t] = @ - 1]
  /\ UNCHANGED <<blocked, pending, writer>>

(* The two halves of Lock: keep new readers out, wait for the others.      *)
LockAnnounce(t) ==
  /\ NoWriter
  /\ Goto(t, "upgrade", "locking")
  /\ pending' = {t}
  /\ UNCHANGED <<readers, blocked, writer>>

LockAcquire(t) ==
  /\ NoReaders
  /\ Goto(t, "locking", "writing")
  /\ pending' = pending \ {t}
  /\ writer' = {t}
  /\ UNCHANGED <<readers, blocked>>

Unlock(t, to) ==
  /\ pc[t] = "writing"
  /\ writer' = writer \ {t}
  /\ pc' = [u \in Threads |-> IF u = t THEN to
                              ELSE IF u \in blocked THEN Granted[pc[u]]
                              ELSE pc[u]]
  /\ readers' = [u \in Threads |->
                   IF u \in blocked THEN readers[u] + 1 ELSE readers[u]]
  /\ blocked' = {}
  /\ UNCHANGED pending
-----------------------------------------------------------------------------
(* The users of the lock.                                                  *)
Request(t) ==
  /\ \/ Goto(t, "idle", "wantRead")
     \/ Goto(t, "idle", "wantPath")
  /\ UNCHANGED <<readers, blocked, pending, writer>>

(* A query, or an ingestion that finds the node, is done.                  *)
Found(t) == RUnlock(t, "reading", "idle")

(* Definitions named "...Bug" are faults that the properties below must    *)
(* tell from the code; nothing uses them.                                  *)

(* An ingestion finds nothing under the read lock.                         *)
NotFoundInsertsBug(t) ==
  /\ Goto(t, "reading", "writing")
  /\ UNCHANGED <<readers, blocked, pending, writer>>
NotFoundKeepsBug(t) ==
  /\ Goto(t, "reading", "upgrade")
  /\ UNCHANGED <<readers, blocked, pending, writer>>
NotFound(t) == RUnlock(t, "reading", "upgrade")

(* The inner call with readOnly = false is over; the outer one relocks.    *)
VerbDoneBug(t) == Unlock(t, "again")
VerbDone(t) == Unlock(t, "wantAgain")
DeferredUnlock(t) == RUnlock(t, "again", "idle")

(* IngestPackage, IngestSource, IngestVulnerability: no relock.            *)
LevelDone(t) == Unlock(t, "idle")

(* bfs has found the target and returns Nodes(path): Node by Node.         *)
NextNode(t) ==
  /\ Goto(t, "path", "wantNode")
  /\ UNCHANGED <<readers, blocked, pending, writer>>
NodeDone(t) == RUnlock(t, "node", "path")
PathDone(t) == RUnlock(t, "path", "idle")

Step(t) ==
  \/ RLock(t)
  \/ Found(t) \/ NotFound(t)
  \/ LockAnnounce(t) \/ LockAcquire(t)
  \/ VerbDone(t) \/ DeferredUnlock(t) \/ LevelDone(t)
  \/ NextNode(t) \/ NodeDone(t) \/ PathDone(t)

Next == \E t \in Threads : Request(t) \/ Step(t)

(* A goroutine that can run does run; the mutex inside RWMutex.Lock hands  *)
(* itself to a writer that has waited too long, so a writer that finds it  *)
(* free again and again gets it.  A path has finitely many nodes.          *)
Fairness ==
  \A t \in Threads :
    /\ WF_vars(Step(t))
    /\ SF_vars(LockAnnounce(t))
    /\ SF_vars(PathDone(t))

Spec == Init /\ [][Next]_vars /\ Fairness
-----------------------------------------------------------------------------
TypeOK ==
  /\ pc \in [Threads -> PCs]
  /\ readers \in [Threads -> Nat]
  /\ blocked \subseteq Threads
  /\ pending \subseteq Threads
  /\ writer \subseteq Threads

(* While a request writes, no other one reads or writes, and the writer    *)
(* itself holds no read lock: each critical section of the backend is      *)
(* atomic for the others.                                                  *)
Writing(t) == pc[t] = "writing"
Reading(t) == pc[t] \in {"reading", "path", "wantNode", "node", "again"}
Exclusion ==
  \A t, u \in Threads :
    Writing(t) => /\ ~Reading(u)
                  /\ Writing(u) => u = t

(* No unlock of a lock that is not held, which would panic ("relock so     *)
(* that defer unlock does not panic", artifact.go:184).                    *)
UnlocksHeld ==
  \A t \in Threads :
    /\ Reading(t) => readers[t] > 0
    /\ Writing(t) => writer = {t}

(* Every request is answered, whatever the others do.                      *)
Answered == \A t \in Threads : pc[t] # "idle" ~> pc[t] = "idle"

(* Every request is answered as long as none of them is a path query,      *)
(* which alone takes the read lock while it holds it.                      *)
NoPath == \A t \in Threads : pc[t] \notin {"wantPath", "path", "wantNode", "node"}
AnsweredWithoutPath == []NoPath => Answered
=============================================================================
