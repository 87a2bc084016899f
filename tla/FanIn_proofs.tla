----------------------------- MODULE FanIn_proofs -----------------------------
(***************************************************************************)
(* What the steps of FanIn preserve, for the proofs about the modules that *)
(* compose it with others (Pipeline_proofs, Certify_proofs).               *)
(***************************************************************************)
EXTENDS FanIn, TLAPS

(* What taking the head of a channel leaves, and what a send adds.         *)
LEMMA TakeFacts ==
  ASSUME NEW S, NEW s \in Seq(S), s # << >>
  PROVE  /\ Head(s) \in S
         /\ Tail(s) \in Seq(S)
         /\ Len(Tail(s)) <= Len(s)
         /\ \A i \in DOMAIN Tail(s) : i + 1 \in DOMAIN s /\ Tail(s)[i] = s[i + 1]
         /\ \A i \in DOMAIN s : s[i] = Head(s) \/
              (i - 1 \in DOMAIN Tail(s) /\ Tail(s)[i - 1] = s[i])
         /\ \E i \in DOMAIN s : s[i] = Head(s)
<1>1. Len(s) \in Nat /\ Len(s) # 0 /\ DOMAIN s = 1..Len(s)
  OBVIOUS
<1>2. Head(s) = s[1] /\ 1 \in DOMAIN s
  BY <1>1
<1>3. /\ Tail(s) \in Seq(S)
      /\ Len(Tail(s)) = Len(s) - 1
      /\ \A i \in 1..Len(s) - 1 : Tail(s)[i] = s[i + 1]
  BY <1>1
<1>4. DOMAIN Tail(s) = 1..Len(s) - 1
  BY <1>3
<1>5. Head(s) \in S
  BY <1>1, <1>2
<1> QED  BY <1>1, <1>2, <1>3, <1>4, <1>5

LEMMA SendFacts ==
  ASSUME NEW S, NEW s \in Seq(S), NEW e \in S
  PROVE  /\ Append(s, e) \in Seq(S)
         /\ Len(Append(s, e)) = Len(s) + 1
         /\ DOMAIN Append(s, e) = DOMAIN s \cup {Len(s) + 1}
         /\ \A i \in DOMAIN s : Append(s, e)[i] = s[i]
         /\ Append(s, e)[Len(s) + 1] = e
OBVIOUS

(* Every step of the loop and of its collectors.                           *)
FanMove ==
  \/ \E c \in Collectors : SendDoc(c) \/ \E ok \in BOOLEAN : EndCollector(c, ok)
  \/ Cancel \/ TakeDoc \/ TakeResult \/ RefuseResult \/ SeeCancel \/ Drained
  \/ \E work \in [Collectors -> Seq(Docs)] : StartRound(work)
  \/ ExitProcess

(* SentEmitted is not inductive.  A result is sent after its collector's   *)
(* last document; so once the last result was taken no collector runs, and *)
(* all that was sent is in the channel, which is drained then, or emitted. *)
FanInv ==
  /\ loop = "idle" => running = {} /\ sent = {}
  /\ \A i \in DOMAIN errChan : errChan[i].from \notin running
  /\ reported \cap running = {}
  /\ loop \in {"drain", "returned"} /\ ~cancelled => reported = Collectors
  /\ ~cancelled => SentKept
  /\ SentEmitted

(* The parts of FanInv hold of an idle loop.                               *)
LEMMA FanIdleInv ==
  ASSUME FanIdle, handleErr \in BOOLEAN
  PROVE  FanTypeOK /\ FanInv
<1>1. Len(docChan) = 0 /\ DOMAIN errChan = {}
  BY DEF FanIdle
<1>2. docChan \in Seq(Docs) /\ errChan \in Seq(Results)
  BY DEF FanIdle
<1>3. todo \in [Collectors -> Seq(Docs)]
  BY DEF FanIdle
<1>4. Len(docChan) <= BufferChannelSize
  BY <1>1, BufferAssumption
<1>5. FanTypeOK
  BY <1>2, <1>3, <1>4 DEF FanIdle, FanTypeOK, LoopStates
<1>6. FanInv
  BY <1>1 DEF FanIdle, FanInv, SentKept, SentEmitted
<1> QED  BY <1>5, <1>6

(* The types are kept by every step.                                       *)
LEMMA FanTypeStep ==
  ASSUME FanTypeOK, FanMove
  PROVE  FanTypeOK'
<1> USE BufferAssumption DEF FanTypeOK, LoopStates
<1>1. ASSUME NEW c \in Collectors, SendDoc(c)  PROVE FanTypeOK'
  <2>1. Head(todo[c]) \in Docs /\ Tail(todo[c]) \in Seq(Docs)
    BY <1>1, TakeFacts DEF SendDoc
  <2>2. docChan' \in Seq(Docs) /\ Len(docChan') <= BufferChannelSize
    BY <1>1, <2>1, SendFacts DEF SendDoc
  <2>3. todo' \in [Collectors -> Seq(Docs)] /\ sent' \subseteq Docs
    BY <1>1, <2>1 DEF SendDoc
  <2> QED  BY <1>1, <2>2, <2>3 DEF SendDoc
<1>2. ASSUME NEW c \in Collectors, NEW ok \in BOOLEAN, EndCollector(c, ok)
      PROVE FanTypeOK'
  <2>1. [from |-> c, ok |-> ok] \in Results
    BY DEF Results
  <2>2. errChan' \in Seq(Results)
    BY <1>2, <2>1, SendFacts DEF EndCollector
  <2> QED  BY <1>2, <2>2 DEF EndCollector
<1>3. CASE Cancel
  BY <1>3 DEF Cancel
<1>4. CASE TakeDoc
  <2>1. Head(docChan) \in Docs /\ docChan' \in Seq(Docs) /\ Len(docChan') <= Len(docChan)
    BY <1>4, TakeFacts DEF TakeDoc
  <2>2. Len(docChan') <= BufferChannelSize
    BY <2>1
  <2> QED  BY <1>4, <2>1, <2>2 DEF TakeDoc
<1>5. CASE TakeResult
  <2>1. Head(errChan) \in Results /\ errChan' \in Seq(Results)
    BY <1>5, TakeFacts DEF TakeResult
  <2>2. reported' = reported \cup {Head(errChan).from}
    BY <1>5 DEF TakeResult, Counts
  <2>3. reported' \subseteq Collectors
    BY <2>1, <2>2 DEF Results
  <2>4. loop' \in {"select", "drain"}
    BY <1>5 DEF TakeResult, AfterResult
  <2> QED  BY <1>5, <2>1, <2>3, <2>4 DEF TakeResult
<1>6. CASE RefuseResult
  <2>1. errChan' \in Seq(Results)
    BY <1>6, TakeFacts DEF RefuseResult
  <2> QED  BY <1>6, <2>1 DEF RefuseResult
<1>7. CASE SeeCancel
  BY <1>7 DEF SeeCancel
<1>8. CASE Drained
  BY <1>8 DEF Drained
<1>9. ASSUME NEW work \in [Collectors -> Seq(Docs)], StartRound(work)  PROVE FanTypeOK'
  <2>1. docChan' \in Seq(Docs) /\ Len(docChan') = 0 /\ errChan' \in Seq(Results)
    BY <1>9 DEF StartRound
  <2>2. Len(docChan') <= BufferChannelSize
    BY <2>1
  <2> QED  BY <1>9, <2>1, <2>2 DEF StartRound
<1>10. CASE ExitProcess
  <2>1. docChan' \in Seq(Docs) /\ Len(docChan') = 0 /\ errChan' \in Seq(Results)
    BY <1>10 DEF ExitProcess
  <2>2. todo' \in [Collectors -> Seq(Docs)]
    BY <1>10 DEF ExitProcess
  <2>3. Len(docChan') <= BufferChannelSize
    BY <2>1
  <2> QED  BY <1>10, <2>1, <2>2, <2>3 DEF ExitProcess
<1> QED
  BY FanMove, <1>1, <1>2, <1>3, <1>4, <1>5, <1>6, <1>7, <1>8, <1>9, <1>10 DEF FanMove

(* And so is the invariant.                                                *)
LEMMA FanInvStep ==
  ASSUME FanTypeOK, FanInv, FanMove
  PROVE  FanInv'
<1> USE DEF FanTypeOK, LoopStates, FanInv, SentKept, SentEmitted
<1>1. ASSUME NEW c \in Collectors, SendDoc(c)  PROVE FanInv'
  <2>1. loop # "idle" /\ ((loop \in {"drain", "returned"}) => cancelled)
    BY <1>1 DEF SendDoc
  <2>2. Head(todo[c]) \in Docs
    BY <1>1, TakeFacts DEF SendDoc
  <2>3. /\ \A i \in DOMAIN docChan : i \in DOMAIN docChan' /\ docChan'[i] = docChan[i]
        /\ Len(docChan) + 1 \in DOMAIN docChan'
        /\ docChan'[Len(docChan) + 1] = Head(todo[c])
    BY <1>1, <2>2, SendFacts DEF SendDoc
  <2>4. (~cancelled => SentKept)'
    BY <1>1, <2>3 DEF SendDoc
  <2>5. SentEmitted'
    BY <1>1, <2>1 DEF SendDoc
  <2> QED  BY <1>1, <2>1, <2>4, <2>5 DEF SendDoc
<1>2. ASSUME NEW c \in Collectors, NEW ok \in BOOLEAN, EndCollector(c, ok)
      PROVE FanInv'
  <2>1. [from |-> c, ok |-> ok] \in Results
    BY DEF Results
  <2>2. /\ DOMAIN errChan' = DOMAIN errChan \cup {Len(errChan) + 1}
        /\ \A i \in DOMAIN errChan : errChan'[i] = errChan[i]
        /\ errChan'[Len(errChan) + 1] = [from |-> c, ok |-> ok]
    BY <1>2, <2>1, SendFacts DEF EndCollector
  <2>3. (\A i \in DOMAIN errChan : errChan[i].from \notin running)'
    BY <1>2, <2>2 DEF EndCollector
  <2> QED  BY <1>2, <2>3 DEF EndCollector
<1>3. CASE Cancel
  BY <1>3 DEF Cancel
<1>4. CASE TakeDoc
  <2>1. \A i \in DOMAIN docChan : docChan[i] = Head(docChan) \/
          (i - 1 \in DOMAIN docChan' /\ docChan'[i - 1] = docChan[i])
    BY <1>4, TakeFacts DEF TakeDoc
  <2>2. (~cancelled => SentKept)'
    BY <1>4, <2>1 DEF TakeDoc
  <2> QED  BY <1>4, <2>2 DEF TakeDoc
<1>5. CASE TakeResult
  <2>1. /\ \A i \in DOMAIN errChan' : i + 1 \in DOMAIN errChan /\ errChan'[i] = errChan[i + 1]
        /\ \E i \in DOMAIN errChan : errChan[i] = Head(errChan)
    BY <1>5, TakeFacts DEF TakeResult
  <2>2. reported' = reported \cup {Head(errChan).from} /\ running' = running
    BY <1>5 DEF TakeResult, Counts
  <2>3. reported' \cap running' = {}
    BY <2>1, <2>2
  <2>4. loop' \in {"select", "drain"} /\ (loop' = "drain" => reported' = Collectors)
    BY <1>5 DEF TakeResult, AfterResult
  <2> QED  BY <1>5, <2>1, <2>3, <2>4 DEF TakeResult
<1>6. CASE RefuseResult
  <2>1. \A i \in DOMAIN errChan' : i + 1 \in DOMAIN errChan /\ errChan'[i] = errChan[i + 1]
    BY <1>6, TakeFacts DEF RefuseResult
  <2> QED  BY <1>6, <2>1 DEF RefuseResult
<1>7. CASE SeeCancel
  BY <1>7 DEF SeeCancel
<1>8. CASE Drained
  BY <1>8 DEF Drained
<1>9. ASSUME NEW work \in [Collectors -> Seq(Docs)], StartRound(work)  PROVE FanInv'
  <2>1. DOMAIN errChan' = {}
    BY <1>9 DEF StartRound
  <2>2. ~cancelled => sent \subseteq emitted
    BY <1>9 DEF StartRound
  <2> QED  BY <1>9, <2>1, <2>2 DEF StartRound
<1>10. CASE ExitProcess
  <2>1. DOMAIN errChan' = {}
    BY <1>10 DEF ExitProcess
  <2> QED  BY <1>10, <2>1 DEF ExitProcess
<1> QED
  BY FanMove, <1>1, <1>2, <1>3, <1>4, <1>5, <1>6, <1>7, <1>8, <1>9, <1>10 DEF FanMove

(* And both when nothing happens to the loop.                              *)
LEMMA FanStutter ==
  ASSUME FanTypeOK, FanInv, UNCHANGED fanVars
  PROVE  FanTypeOK' /\ FanInv'
BY DEF fanVars, FanTypeOK, FanInv, SentKept, SentEmitted
=============================================================================
