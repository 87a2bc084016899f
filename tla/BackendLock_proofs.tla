------------------------ MODULE BackendLock_proofs ------------------------
(***************************************************************************)
(* For any set of goroutines and any mix of requests: the lock             *)
(* discipline of the backend makes its write sections exclusive, and no    *)
(* function unlocks what it does not hold.                                 *)
(***************************************************************************)
EXTENDS BackendLock, TLAPS

(* The read locks a goroutine holds at each place.                         *)
Held(p) == IF p = "node" THEN 2
           ELSE IF p \in {"reading", "path", "wantNode", "again"} THEN 1
           ELSE 0

(* The sets pending and writer are the places "locking" and "writing"; at  *)
(* most one goroutine is in either; a writer excludes all readers.         *)
LockInv ==
  /\ TypeOK
  /\ \A t \in Threads : readers[t] = Held(pc[t])
  /\ \A t \in blocked : pc[t] \in Asking
  /\ \A t \in Threads : t \in pending <=> pc[t] = "locking"
  /\ \A t \in Threads : t \in writer <=> pc[t] = "writing"
  /\ \A t, u \in pending \cup writer : t = u
  /\ writer # {} => NoReaders

LEMMA GrantedIs ==
  /\ Asking = {"wantRead", "wantPath", "wantNode", "wantAgain"}
  /\ Granted["wantRead"] = "reading"
  /\ Granted["wantPath"] = "path"
  /\ Granted["wantNode"] = "node"
  /\ Granted["wantAgain"] = "again"
BY DEF Asking, Granted
LEMMA InitInv == Init => LockInv
BY DEF Init, LockInv, TypeOK, PCs, Held, NoReaders

(* A step that only moves t between places where it holds the same locks   *)
(* or one read lock less.                                                  *)
LEMMA RUnlockInv ==
  ASSUME LockInv, NEW t \in Threads, NEW from \in PCs, NEW to \in PCs,
         RUnlock(t, from, to),
         Held(from) = Held(to) + 1,
         from \notin Asking \cup {"locking", "writing"},
         to \notin Asking \cup {"locking", "writing"}
  PROVE  LockInv'
<1>1. TypeOK'
  BY DEF LockInv, TypeOK, RUnlock, Goto, Held
<1>2. \A u \in Threads : readers'[u] = Held(pc'[u])
  BY DEF LockInv, TypeOK, RUnlock, Goto, Held
<1>3. NoReaders => NoReaders'
  BY <1>1, <1>2 DEF LockInv, TypeOK, RUnlock, Goto, Held, NoReaders
<1>4. QED
  BY <1>1, <1>2, <1>3 DEF LockInv, TypeOK, RUnlock, Goto

LEMMA RLockInv ==
  ASSUME LockInv, NEW t \in Threads, RLock(t)
  PROVE  LockInv'
<1> USE GrantedIs DEF LockInv, TypeOK, RLock
<1>1. CASE NoWriter
  <2>1. /\ pc' = [pc EXCEPT ![t] = Granted[pc[t]]]
        /\ readers' = [readers EXCEPT ![t] = @ + 1]
        /\ UNCHANGED <<blocked, pending, writer>>
    BY <1>1
  <2>2. \A u \in Threads : readers'[u] = Held(pc'[u])
    BY <2>1 DEF Held
  <2>3. TypeOK'
    BY <2>1 DEF PCs
  <2>4. QED
    BY <1>1, <2>1, <2>2, <2>3 DEF NoWriter
<1>2. CASE ~NoWriter
  BY <1>2 DEF NoReaders
<1>3. QED
  BY <1>1, <1>2

LEMMA AnnounceInv ==
  ASSUME LockInv, NEW t \in Threads, LockAnnounce(t)
  PROVE  LockInv'
BY GrantedIs DEF LockInv, TypeOK, LockAnnounce, Goto, NoWriter, Held, PCs, NoReaders

LEMMA AcquireInv ==
  ASSUME LockInv, NEW t \in Threads, LockAcquire(t)
  PROVE  LockInv'
<1> USE DEF LockInv, TypeOK, LockAcquire, Goto
<1>1. t \in pending
  OBVIOUS
<1>2. pending' = {} /\ writer' = {t}
  BY <1>1
<1>3. \A u \in Threads : pc[u] = "writing" => u = t
  BY <1>1
<1>4. QED
  BY GrantedIs, <1>1, <1>2, <1>3 DEF Held, PCs, NoReaders

LEMMA UnlockInv ==
  ASSUME LockInv, NEW t \in Threads, NEW to \in {"wantAgain", "idle"},
         Unlock(t, to)
  PROVE  LockInv'
<1> USE GrantedIs DEF LockInv, TypeOK, Unlock
<1>1. t \in writer /\ t \notin blocked /\ readers[t] = 0
  BY DEF Held
<1>2. writer' = {} /\ pending' = {} /\ pending = {} /\ blocked' = {}
  BY <1>1
<1>3. TypeOK'
  BY <1>1, <1>2 DEF PCs
<1>4. \A u \in Threads : readers'[u] = Held(pc'[u])
  BY <1>1 DEF Held
<1>5. \A u \in Threads : pc'[u] \notin {"locking", "writing"}
  <2>1. \A u \in Threads : pc[u] \in {"locking", "writing"} => u = t
    BY <1>1
  <2>2. QED
    BY <2>1, <1>1
<1>6. QED
  BY <1>2, <1>3, <1>4, <1>5

(* Moves that touch no lock: into the places that ask for one.             *)
LEMMA MoveInv ==
  ASSUME LockInv, NEW t \in Threads, NEW from \in PCs, NEW to \in Asking,
         Goto(t, from, to), UNCHANGED <<readers, blocked, pending, writer>>,
         Held(from) = Held(to),
         from \notin Asking \cup {"locking", "writing"}
  PROVE  LockInv'
BY GrantedIs DEF LockInv, TypeOK, Goto, PCs, NoReaders

LEMMA NextInv == LockInv /\ [Next]_vars => LockInv'
<1> SUFFICES ASSUME LockInv, [Next]_vars
             PROVE  LockInv'
  OBVIOUS
<1> USE GrantedIs DEF PCs
<1>1. ASSUME NEW t \in Threads, Request(t)
      PROVE  LockInv'
  BY <1>1, MoveInv DEF Request, Held
<1>2. ASSUME NEW t \in Threads, NextNode(t)
      PROVE  LockInv'
  BY <1>2, MoveInv DEF NextNode, Held
<1>3. ASSUME NEW t \in Threads, Found(t) \/ NotFound(t)
      PROVE  LockInv'
  BY <1>3, RUnlockInv DEF Found, NotFound, Held
<1>4. ASSUME NEW t \in Threads, DeferredUnlock(t) \/ NodeDone(t) \/ PathDone(t)
      PROVE  LockInv'
  BY <1>4, RUnlockInv DEF DeferredUnlock, NodeDone, PathDone, Held
<1>5. ASSUME NEW t \in Threads, VerbDone(t) \/ LevelDone(t)
      PROVE  LockInv'
  BY <1>5, UnlockInv DEF VerbDone, LevelDone
<1>6. CASE UNCHANGED vars
  BY <1>6 DEF LockInv, TypeOK, vars, NoReaders
<1>7. QED
  BY <1>1, <1>2, <1>3, <1>4, <1>5, <1>6, RLockInv, AnnounceInv, AcquireInv
     DEF Next, Step

LEMMA InvHolds == Spec => []LockInv
<1>1. Init => LockInv
  BY InitInv
<1>2. LockInv /\ [Next]_vars => LockInv'
  BY NextInv
<1>3. QED
  BY <1>1, <1>2, PTL DEF Spec

(* Every state of the lock and of its users is well typed.                 *)
THEOREM TypeCorrect == Spec => []TypeOK
<1>1. LockInv => TypeOK
  BY DEF LockInv
<1>2. QED
  BY <1>1, InvHolds, PTL

(* The critical sections of the backend are atomic for each other: what    *)
(* the actions of PkgTrie take for granted.                                *)
THEOREM SectionsExclude == Spec => []Exclusion
<1>1. LockInv => Exclusion
  <2> SUFFICES ASSUME LockInv, NEW t \in Threads, NEW u \in Threads, Writing(t)
               PROVE  ~Reading(u) /\ (Writing(u) => u = t)
    BY DEF Exclusion
  <2>1. t \in writer /\ readers[u] = 0
    BY DEF LockInv, Writing, NoReaders
  <2>2. ~Reading(u)
    BY <2>1 DEF LockInv, Reading, Held
  <2>3. Writing(u) => u = t
    BY <2>1 DEF LockInv, Writing
  <2>4. QED
    BY <2>2, <2>3
<1>2. QED
  BY <1>1, InvHolds, PTL

(* No function of the backend unlocks what it does not hold.               *)
THEOREM NoUnlockPanics == Spec => []UnlocksHeld
<1>1. LockInv => UnlocksHeld
  <2> SUFFICES ASSUME LockInv, NEW t \in Threads
               PROVE  /\ Reading(t) => readers[t] > 0
                      /\ Writing(t) => writer = {t}
    BY DEF UnlocksHeld
  <2>1. Reading(t) => readers[t] > 0
    BY DEF LockInv, Reading, Held
  <2>2. ASSUME Writing(t)
        PROVE  writer = {t}
    <3>1. t \in writer
      BY <2>2 DEF LockInv, Writing
    <3>2. \A u \in writer : u = t
      BY <3>1 DEF LockInv
    <3>3. QED
      BY <3>1, <3>2
  <2>3. QED
    BY <2>1, <2>2
<1>2. QED
  BY <1>1, InvHolds, PTL
=============================================================================
