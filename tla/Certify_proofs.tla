---------------------------- MODULE Certify_proofs ----------------------------
(***************************************************************************)
(* The safety of Certify, for any packages, certifiers, page and batch     *)
(* sizes, numbers of retries and failures, and any capacity of the         *)
(* channels.                                                               *)
(***************************************************************************)
EXTENDS Certify, FanIn_proofs, FiniteSetTheorems

In(d, s) == \E i \in DOMAIN s : s[i] = d

(* What lies in a channel or a batch, after a send and after a receive.    *)
LEMMA NotEmpty ==
  ASSUME NEW S, NEW s \in Seq(S), s # << >>
  PROVE  /\ Len(s) \in Nat /\ Len(s) >= 1
         /\ Len(s) <= 1 => Len(s) = 1
<1>1. Len(s) \in Nat /\ Len(s) >= 1
  OBVIOUS
<1>2. \A n \in Nat : n >= 1 /\ n <= 1 => n = 1
  OBVIOUS
<1> QED  BY <1>1, <1>2

LEMMA InAppend ==
  ASSUME NEW S, NEW s \in Seq(S), NEW e \in S, NEW d
  PROVE  In(d, Append(s, e)) <=> In(d, s) \/ d = e
<1>1. /\ DOMAIN Append(s, e) = DOMAIN s \cup {Len(s) + 1}
      /\ \A i \in DOMAIN s : Append(s, e)[i] = s[i]
      /\ Append(s, e)[Len(s) + 1] = e
  BY SendFacts
<1> QED  BY <1>1 DEF In

LEMMA InTail ==
  ASSUME NEW S, NEW s \in Seq(S), s # << >>, NEW d
  PROVE  In(d, s) <=> In(d, Tail(s)) \/ d = Head(s)
<1>1. /\ \A i \in DOMAIN Tail(s) : i + 1 \in DOMAIN s /\ Tail(s)[i] = s[i + 1]
      /\ \A i \in DOMAIN s : s[i] = Head(s) \/
           (i - 1 \in DOMAIN Tail(s) /\ Tail(s)[i - 1] = s[i])
      /\ \E i \in DOMAIN s : s[i] = Head(s)
  BY TakeFacts
<1> QED  BY <1>1 DEF In

(* How often a package occurs in a batch.                                  *)
Count(d, s) == Cardinality({i \in DOMAIN s : s[i] = d})

LEMMA CountFacts ==
  ASSUME NEW S, NEW s \in Seq(S), NEW d
  PROVE  /\ Count(d, s) \in Nat
         /\ Count(d, s) > 0 <=> In(d, s)
         /\ (\A i, j \in DOMAIN s : s[i] = s[j] => i = j) => Count(d, s) <= 1
<1> DEFINE P == {i \in DOMAIN s : s[i] = d}
<1>1. Len(s) \in Nat /\ DOMAIN s = 1..Len(s)
  OBVIOUS
<1>2. IsFiniteSet(1..Len(s))
  BY <1>1, FS_Interval
<1>3. IsFiniteSet(P)
  BY <1>1, <1>2, FS_Subset
<1>4. Cardinality(P) \in Nat
  BY <1>3, FS_CardinalityType
<1>5. Cardinality(P) = 0 <=> P = {}
  BY <1>3, FS_EmptySet
<1>6. ASSUME \A i, j \in DOMAIN s : s[i] = s[j] => i = j  PROVE Cardinality(P) <= 1
  <2>1. CASE P = {}
    BY <1>5, <2>1
  <2>2. CASE P # {}
    <3>1. PICK i \in P : TRUE
      BY <2>2
    <3>2. P = {i}
      BY <1>6, <3>1
    <3>3. Cardinality({i}) = 1
      BY FS_Singleton
    <3> QED  BY <3>2, <3>3
  <2> QED  BY <2>1, <2>2
<1> HIDE DEF P
<1>7. Count(d, s) = Cardinality(P)
  BY DEF Count, P
<1>8. P # {} <=> In(d, s)
  BY DEF P, In
<1> QED  BY <1>4, <1>5, <1>6, <1>7, <1>8

-----------------------------------------------------------------------------
(* Types.                                                                  *)

LEMMA InitTypes ==
  ASSUME Init
  PROVE  CertifyTypeOK /\ FanInv
<1>1. FanTypeOK /\ FanInv
  BY FanIdleInv DEF Init
<1>2. Len(nodeChan) = 0 /\ Len(compChan) = 0
      /\ nodeChan \in Seq(Docs) /\ packNodes \in Seq(Docs) /\ compChan \in Seq(Seq(Docs))
  BY DEF Init
<1>3. Len(Packages) \in Nat
  BY CertifyAssumption
<1>4. next \in 1..Len(Packages) + 1 /\ pageEnd \in 0..Len(Packages)
  BY <1>3 DEF Init
<1>5. tries \in 0..MaxRetries /\ failures \in 0..MaxFailures
  BY CertifyAssumption DEF Init
<1>6. Len(nodeChan) <= 1 /\ Len(compChan) <= BufferChannelSize
  BY <1>2, BufferAssumption
<1>7. batches \in [Docs -> Nat]
  BY DEF Init
<1> QED
  BY <1>1, <1>2, <1>4, <1>5, <1>6, <1>7 DEF Init, CertifyTypeOK, Errors, RunStates

(* The steps of the loop over the certifiers.                              *)
LEMMA FanSideTypes ==
  ASSUME CertifyTypeOK, FanInv, Next
  PROVE  FanTypeOK' /\ FanInv'
<1>1. FanTypeOK
  BY DEF CertifyTypeOK
<1>2. CASE UNCHANGED fanVars
  BY <1>1, <1>2, FanStutter
<1>3. CASE FanMove
  BY <1>1, <1>3, FanTypeStep, FanInvStep
<1>4. CASE StartRun
  BY <1>1, <1>4 DEF StartRun, FanTypeOK, FanInv, SentKept, SentEmitted
<1>5. CASE TakeBatch
  <2>1. Head(compChan) \in Seq(Docs)
    BY <1>5, TakeFacts DEF TakeBatch, CertifyTypeOK
  <2> QED  BY <1>3, <1>5, <2>1 DEF TakeBatch, FanMove
<1>6. CASE FanSteps
  BY <1>3, <1>6 DEF FanSteps, Certifying, FanStep, FanMove
<1>7. CASE Signal \/ \E c \in Collectors : CertifierFails(c)
  BY <1>3, <1>7 DEF Signal, CertifierFails, FanMove
<1> QED
  BY <1>2, <1>4, <1>5, <1>6, <1>7
  DEF Next, QueryStep, GetStep, RunStep, Fetch, FetchFails, SkipGuac, SendNode, PageSent,
      Tick, TakeNode, SendBatch, NodesCaptured, QueryFailed, GetCancelled, LastBatch,
      AllSent, BatchDone, ComponentsCaptured, RunCancelled, RunDone, PollCancelled

(* The types of the variables other than those of the loop.                *)
OwnTypes ==
  /\ query \in {"off", "fetch", "send", "ended"}
  /\ next \in 1..Len(Packages) + 1
  /\ pageEnd \in 0..Len(Packages)
  /\ nodeChan \in Seq(Docs) /\ Len(nodeChan) <= 1
  /\ nodeErr \in Errors
  /\ get \in {"off", "loop", "drain"}
  /\ packNodes \in Seq(Docs)
  /\ full \in BOOLEAN
  /\ tries \in 0..MaxRetries
  /\ compChan \in Seq(Seq(Docs)) /\ Len(compChan) <= BufferChannelSize
  /\ runErr \in Errors
  /\ run \in RunStates
  /\ failures \in 0..MaxFailures
  /\ panicked \in BOOLEAN
  /\ batches \in [Docs -> Nat]

LEMMA TypesSplit == CertifyTypeOK <=> FanTypeOK /\ OwnTypes
BY DEF CertifyTypeOK, OwnTypes

LEMMA QueryTypes ==
  ASSUME OwnTypes, QueryStep \/ \E err \in {"url", "other", "nil"} : FetchFails(err)
  PROVE  OwnTypes'
<1> USE CertifyAssumption DEF OwnTypes, Errors
<1>1. Len(Packages) \in Nat
  OBVIOUS
<1>2. CASE Fetch
  BY <1>1, <1>2 DEF Fetch, PageFrom, getVars, runVars, histVars
<1>3. CASE SkipGuac
  BY <1>1, <1>3 DEF SkipGuac, getVars, runVars, histVars
<1>4. CASE SendNode
  <2>1. next \in DOMAIN Packages /\ Packages[next] \in Docs
    BY <1>1, <1>4 DEF SendNode
  <2>2. <<Packages[next]>> \in Seq(Docs) /\ Len(<<Packages[next]>>) = 1
    BY <2>1
  <2> QED  BY <1>1, <1>4, <2>1, <2>2 DEF SendNode, getVars, runVars
<1>5. CASE PageSent
  BY <1>1, <1>5 DEF PageSent, EndQuery, getVars, runVars
<1>6. ASSUME NEW err \in {"url", "other", "nil"}, FetchFails(err)  PROVE OwnTypes'
  BY <1>1, <1>6 DEF FetchFails, EndQuery, Misfortune, getVars, runVars
<1> QED  BY <1>2, <1>3, <1>4, <1>5, <1>6 DEF QueryStep

(* What the channels and counters start with.                              *)
LEMMA Fresh ==
  /\ Len(Packages) \in Nat /\ DOMAIN Packages = 1..Len(Packages)
  /\ 1 \in 1..Len(Packages) + 1 /\ 0 \in 0..Len(Packages)
  /\ << >> \in Seq(Docs) /\ Len(<< >>) <= 1
  /\ << >> \in Seq(Seq(Docs)) /\ Len(<< >>) <= BufferChannelSize
  /\ 1 \in 0..MaxRetries
  /\ \A n \in 0..MaxRetries : n < MaxRetries => n + 1 \in 0..MaxRetries
  /\ [d \in Docs |-> 0] \in [Docs -> Nat]
<1>1. Len(<< >>) = 0 /\ << >> \in Seq(Docs) /\ << >> \in Seq(Seq(Docs))
  OBVIOUS
<1>2. BufferChannelSize \in Nat /\ MaxRetries \in Nat \ {0} /\ Packages \in Seq(Docs)
  BY BufferAssumption, CertifyAssumption
<1>3. Len(Packages) \in Nat /\ DOMAIN Packages = 1..Len(Packages)
  BY <1>2
<1>4. [d \in Docs |-> 0] \in [Docs -> Nat]
  OBVIOUS
<1> QED  BY <1>1, <1>2, <1>3, <1>4

LEMMA GetTypes ==
  ASSUME OwnTypes, GetStep \/ Tick
  PROVE  OwnTypes'
<1> USE CertifyAssumption, BufferAssumption DEF OwnTypes, Errors
<1>1. Len(Packages) \in Nat /\ << >> \in Seq(Docs) /\ Len(<< >>) = 0
  OBVIOUS
<1>2. CASE Tick \/ LastBatch
  BY <1>2 DEF Tick, LastBatch, queryVars, runVars, histVars
<1>3. CASE TakeNode
  <2>1. Head(nodeChan) \in Docs
    BY <1>3, TakeFacts DEF TakeNode
  <2>2. Append(packNodes, Head(nodeChan)) \in Seq(Docs)
    BY <2>1
  <2> QED  BY <1>1, <1>3, <2>2 DEF TakeNode, IsFull, runVars, histVars
<1>4. CASE SendBatch
  <2>1. \A d \in Docs : Count(d, packNodes) \in Nat
    BY CountFacts
  <2>2. batches' = [d \in Docs |-> batches[d] + Count(d, packNodes)]
    BY <1>4 DEF SendBatch, Count
  <2>3. batches' \in [Docs -> Nat]
    BY <2>1, <2>2
  <2>4. Len(compChan) \in Nat /\ packNodes \in Seq(Docs) /\ compChan \in Seq(Seq(Docs))
    OBVIOUS
  <2>5. /\ Append(compChan, packNodes) \in Seq(Seq(Docs))
        /\ Len(Append(compChan, packNodes)) = Len(compChan) + 1
    BY <2>4, SendFacts
  <2>6. compChan' \in Seq(Seq(Docs)) /\ Len(compChan') <= BufferChannelSize
    BY <1>4, <2>4, <2>5 DEF SendBatch
  <2>7. packNodes' \in Seq(Docs) /\ full' \in BOOLEAN
    BY <1>1, <1>4 DEF SendBatch, AfterSend
  <2> QED  BY <1>4, <2>3, <2>6, <2>7 DEF SendBatch, queryVars, runVars
<1>5. CASE NodesCaptured
  BY <1>5 DEF NodesCaptured, runVars, histVars
<1>6. ASSUME NEW err \in {"nil", "url", "other"}, Return(err),
             UNCHANGED <<compChan, run, histVars>>
      PROVE  OwnTypes'
  <2>1. CASE err = "url" /\ tries < MaxRetries
    BY <1>6, <2>1, Fresh DEF Return, CallGetComponents, histVars
  <2>2. CASE ~(err = "url" /\ tries < MaxRetries)
    BY <1>6, <2>2, Fresh DEF Return, queryVars, histVars
  <2> QED  BY <2>1, <2>2
<1>7. CASE QueryFailed \/ GetCancelled \/ AllSent
  BY <1>6, <1>7 DEF QueryFailed, GetCancelled, AllSent
<1> QED  BY <1>2, <1>3, <1>4, <1>5, <1>7 DEF GetStep

LEMMA RunTypes ==
  ASSUME OwnTypes, RunStep
  PROVE  OwnTypes'
<1> USE CertifyAssumption, BufferAssumption DEF OwnTypes, Errors, RunStates
<1>1. /\ Len(Packages) \in Nat /\ << >> \in Seq(Docs) /\ Len(<< >>) = 0
      /\ << >> \in Seq(Seq(Docs))
  OBVIOUS
<1>2. CASE StartRun
  <2>1. UNCHANGED <<failures, panicked>> /\ run' = "select" /\ runErr' = "none"
    BY <1>2 DEF StartRun
  <2>2. /\ query' = "fetch" /\ next' = 1 /\ pageEnd' = 0
        /\ nodeChan' = << >> /\ nodeErr' = "none" /\ compChan' = << >>
        /\ get' = "loop" /\ packNodes' = << >> /\ full' = FALSE
        /\ tries' = 1 /\ batches' = [d \in Docs |-> 0]
    BY <1>2 DEF StartRun
  <2> QED  BY <2>1, <2>2, Fresh
<1>3. CASE TakeBatch
  <2>1. Tail(compChan) \in Seq(Seq(Docs)) /\ Len(Tail(compChan)) <= Len(compChan)
    BY <1>3, TakeFacts DEF TakeBatch
  <2>2. Len(Tail(compChan)) \in Nat /\ Len(compChan) \in Nat
    BY <2>1
  <2>3. run' \in RunStates
    BY <1>3 DEF TakeBatch, Generating
  <2> QED  BY <1>3, <2>1, <2>2, <2>3 DEF TakeBatch, queryVars, histVars
<1>4. CASE BatchDone
  BY <1>4 DEF BatchDone, Generated, queryVars, getVars, histVars
<1>5. CASE ComponentsCaptured
  BY <1>5 DEF ComponentsCaptured, queryVars, getVars, histVars
<1>6. CASE RunCancelled \/ RunDone \/ PollCancelled
  BY <1>6 DEF RunCancelled, RunDone, PollCancelled, AfterRun, queryVars, getVars, histVars
<1> QED  BY <1>2, <1>3, <1>4, <1>5, <1>6 DEF RunStep

(* The loop's own steps, the failures and the signal leave the rest alone. *)
OthersKept == UNCHANGED <<queryVars, getVars, runVars, panicked, batches>>

LEMMA LoopKeeps ==
  ASSUME FanSteps \/ (\E c \in Collectors : CertifierFails(c)) \/ Signal
  PROVE  OthersKept
BY DEF OthersKept, FanSteps, CertifierFails, Signal, histVars

LEMMA TypeStep ==
  ASSUME CertifyTypeOK, FanInv, [Next]_vars
  PROVE  CertifyTypeOK' /\ FanInv'
<1>1. FanTypeOK /\ OwnTypes
  BY TypesSplit
<1>2. CASE Next
  <2>1. FanTypeOK' /\ FanInv'
    BY <1>2, FanSideTypes
  <2>2. ASSUME FanSteps \/ (\E c \in Collectors : CertifierFails(c)) \/ Signal
        PROVE  OwnTypes'
    <3>1. OthersKept
      BY <2>2, LoopKeeps
    <3>2. failures' \in 0..MaxFailures
      <4>1. failures' = failures \/ Misfortune
        BY <2>2 DEF FanSteps, CertifierFails, Signal, histVars
      <4>2. failures \in 0..MaxFailures /\ MaxFailures \in Nat
        BY <1>1, CertifyAssumption DEF OwnTypes
      <4> QED  BY <4>1, <4>2 DEF Misfortune
    <3>3. OwnTypes'
      BY <1>1, <3>1, <3>2 DEF OthersKept, OwnTypes, queryVars, getVars, runVars
    <3> QED  BY <3>3
  <2>3. OwnTypes'
    <3>1. CASE FanSteps \/ (\E c \in Collectors : CertifierFails(c)) \/ Signal
      BY <2>2, <3>1
    <3> QED  BY <1>1, <1>2, <3>1, QueryTypes, GetTypes, RunTypes DEF Next
  <2> QED  BY <2>1, <2>3 DEF CertifyTypeOK, OwnTypes
<1>3. CASE UNCHANGED vars
  <2>1. FanTypeOK' /\ FanInv'
    BY <1>1, <1>3, FanStutter DEF vars
  <2>2. OwnTypes'
    BY <1>1, <1>3 DEF vars, OwnTypes, queryVars, getVars, runVars, histVars
  <2> QED  BY <2>1, <2>2 DEF CertifyTypeOK, OwnTypes
<1> QED  BY <1>2, <1>3

-----------------------------------------------------------------------------
(* The invariant that implies the safety properties.                       *)

(* A batch: an empty one is never sent, and nothing is left of it when     *)
(* GetComponents has returned.                                             *)
BatchInv ==
  /\ full => packNodes # << >>
  /\ ~full => Len(packNodes) <= ServiceBatchSize
  /\ get = "off" => ~full
  /\ BatchBound

(* GetComponents returns after getPackageNodes, unless it is cancelled.    *)
QueryInv ==
  /\ get = "drain" \/ nodeErr # "none" => query = "ended"
  /\ get = "off" /\ ~cancelled => query \in {"off", "ended"}
  /\ NoSendOnClosed

(* The packages that were sent are in the node channel, in the batch in    *)
(* hand, or in a batch sent before.                                        *)
Reached(d) == In(d, nodeChan) \/ In(d, packNodes) \/ batches[d] > 0
ScannedAll == \A d \in Listed : batches[d] > 0
Complete == runErr = "nil" \/ run \in {"drain", "generateLeft", "waiting", "ended"}
ScanInv ==
  /\ get = "drain" \/ nodeErr = "nil" \/ query = "fetch" => next > pageEnd
  /\ get # "off" => \A i \in DOMAIN Packages :
       i < next /\ Packages[i] \notin GuacPackages => Reached(Packages[i])
  /\ Complete /\ ~cancelled => ScannedAll

(* Unless something failed, the query ends with the last package.          *)
ListInv ==
  /\ query = "off" => run = "start"
  /\ query = "ended" /\ failures = 0 => pageEnd = Len(Packages)

(* Without a retry they are in only one of these, and only once.           *)
NotYet(d) == ~In(d, nodeChan) /\ ~In(d, packNodes) /\ batches[d] = 0
OnePlace ==
  /\ \A i \in DOMAIN Packages : i >= next => NotYet(Packages[i])
  /\ \A d \in Docs : In(d, nodeChan) => ~In(d, packNodes) /\ batches[d] = 0
  /\ \A d \in Docs : In(d, packNodes) => batches[d] = 0
  /\ \A i, j \in DOMAIN packNodes : packNodes[i] = packNodes[j] => i = j
OnceInv ==
  /\ get # "off" => tries >= 1
  /\ tries <= 1 => ScannedOnce /\ (get # "off" => OnePlace)

(* And the batches that were sent wait in compChan, are being scanned, or  *)
(* their documents were emitted.                                           *)
GenStates == {"generate", "generateLeft", "generateFailing"}
PastSelect == RunStates \ {"start", "select", "generate"}
InScan(d) == run \in GenStates /\ \A c \in Collectors : In(d, todo[c]) \/ d \in sent
Waiting(d) == \E k \in DOMAIN compChan : In(d, compChan[k])
GetOver == ~cancelled /\ (run \in PastSelect \/ runErr # "none") => get = "off"
AllTaken == ~cancelled /\ RunOver => compChan = << >>
Calm == ~cancelled /\ failures = 0
NoRest == Calm => \A c \in Collectors : c \notin running => todo[c] = << >>
Scanned(d) == batches[d] > 0 => d \in emitted \/ Waiting(d) \/ InScan(d)
AllKept == Calm => \A d \in Docs : Scanned(d)
EmitInv == GetOver /\ AllTaken /\ NoRest /\ AllKept

-----------------------------------------------------------------------------
(* What the steps leave alone.                                             *)

QueryMove == QueryStep \/ \E err \in {"url", "other", "nil"} : FetchFails(err)
LoopMove == FanSteps \/ (\E c \in Collectors : CertifierFails(c)) \/ Signal
Returns == QueryFailed \/ GetCancelled \/ AllSent
RunMove == BatchDone \/ ComponentsCaptured \/ RunCancelled \/ RunDone \/ PollCancelled

LEMMA Moves ==
  ASSUME Next
  PROVE  \/ QueryMove \/ LoopMove \/ RunMove \/ Returns
         \/ Tick \/ LastBatch \/ TakeNode \/ SendBatch \/ NodesCaptured
         \/ StartRun \/ TakeBatch
BY DEF Next, QueryMove, LoopMove, RunMove, Returns, GetStep, RunStep

LEMMA QueryFrame ==
  ASSUME QueryMove
  PROVE  UNCHANGED <<fanVars, getVars, runVars, batches>>
BY DEF QueryMove, QueryStep, Fetch, FetchFails, SkipGuac, SendNode, PageSent, histVars

LEMMA RunFrame ==
  ASSUME RunMove
  PROVE  UNCHANGED <<fanVars, queryVars, getVars, histVars>>
BY DEF RunMove, BatchDone, ComponentsCaptured, RunCancelled, RunDone, PollCancelled

LEMMA LoopFrame ==
  ASSUME LoopMove
  PROVE  /\ UNCHANGED <<queryVars, getVars, runVars, panicked, batches>>
         /\ cancelled => cancelled'
<1>1. UNCHANGED <<queryVars, getVars, runVars, panicked, batches>>
  BY LoopKeeps DEF LoopMove, OthersKept
<1>2. cancelled => cancelled'
  BY DEF LoopMove, FanSteps, CertifierFails, Signal, Certifying, FanStep, SendDoc,
         EndCollector, Cancel, TakeDoc, TakeResult, SeeCancel, Drained
<1> QED  BY <1>1, <1>2

LEMMA ReturnFacts ==
  ASSUME Returns
  PROVE  /\ UNCHANGED <<fanVars, compChan, run, histVars>>
         /\ get # "off" /\ ~full
         /\ packNodes' = << >> /\ full' = FALSE
         /\ get' \in {"off", "loop"}
         /\ get' = "loop" => /\ tries' = tries + 1 /\ tries < MaxRetries
                              /\ query' = "fetch" /\ next' = 1 /\ pageEnd' = 0 /\ nodeChan' = << >>
                              /\ nodeErr' = "none" /\ runErr' = runErr
         /\ get' = "off" => UNCHANGED <<queryVars, tries>> /\ runErr' # "none"
         /\ get' = "off" /\ runErr' = "nil" => AllSent
         /\ QueryFailed \/ cancelled \/ AllSent
<1>1. ASSUME NEW err \in {"nil", "url", "other"}, Return(err)
      PROVE  /\ packNodes' = << >> /\ full' = FALSE
             /\ get' \in {"off", "loop"}
             /\ get' = "loop" => /\ tries' = tries + 1 /\ tries < MaxRetries
                                  /\ query' = "fetch" /\ next' = 1 /\ pageEnd' = 0 /\ nodeChan' = << >>
                                  /\ nodeErr' = "none" /\ runErr' = runErr
             /\ get' = "off" => UNCHANGED <<queryVars, tries>> /\ runErr' = err
  BY <1>1 DEF Return, CallGetComponents
<1>2. CASE QueryFailed
  BY <1>1, <1>2 DEF QueryFailed
<1>3. CASE GetCancelled
  BY <1>1, <1>3 DEF GetCancelled, Interrupted
<1>4. CASE AllSent
  BY <1>1, <1>4 DEF AllSent
<1> QED  BY <1>2, <1>3, <1>4 DEF Returns

LEMMA AllSentEnds ==
  ASSUME AllSent
  PROVE  get' = "off"
BY DEF AllSent, Return

-----------------------------------------------------------------------------
(* Each part of the invariant is kept by every step.                       *)

LEMMA BatchStep ==
  ASSUME OwnTypes, BatchInv, Next
  PROVE  BatchInv'
<1> USE DEF BatchInv, BatchBound
<1>1. /\ ServiceBatchSize \in Nat \ {0} /\ Len(<< >>) = 0
      /\ packNodes \in Seq(Docs) /\ compChan \in Seq(Seq(Docs)) /\ Len(packNodes) \in Nat
      /\ packNodes # << >> => Len(packNodes) >= 1
  BY CertifyAssumption DEF OwnTypes
<1>2. CASE QueryMove \/ LoopMove \/ RunMove
  BY <1>2, QueryFrame, LoopFrame, RunFrame DEF getVars
<1>3. CASE Returns
  BY <1>1, <1>3, ReturnFacts
<1>4. CASE Tick \/ LastBatch
  BY <1>4 DEF Tick, LastBatch
<1>5. CASE TakeNode
  <2>1. Head(nodeChan) \in Docs
    BY <1>5, TakeFacts DEF TakeNode, OwnTypes
  <2>2. packNodes' \in Seq(Docs) /\ Len(packNodes') = Len(packNodes) + 1
    BY <1>1, <1>5, <2>1, SendFacts DEF TakeNode
  <2>3. packNodes' # << >>
    BY <1>1, <2>2
  <2>4. ~full' => Len(packNodes) < ServiceBatchSize
    <3>1. ASSUME Len(packNodes) >= ServiceBatchSize  PROVE full' = TRUE
      <4>1. (Len(packNodes) >= ServiceBatchSize) = TRUE
        BY <3>1
      <4> QED  BY <1>5, <4>1 DEF TakeNode, IsFull
    <3>2. ASSUME ~full'  PROVE ~(Len(packNodes) >= ServiceBatchSize)
      BY <3>1, <3>2
    <3>3. ~(Len(packNodes) >= ServiceBatchSize) => Len(packNodes) < ServiceBatchSize
      BY <1>1
    <3> QED  BY <3>2, <3>3
  <2>5. ~full /\ get \in {"loop", "drain"} /\ UNCHANGED <<get, compChan>>
    BY <1>5 DEF TakeNode
  <2>6. Len(packNodes') <= ServiceBatchSize + 1 /\ (~full' => Len(packNodes') <= ServiceBatchSize)
    BY <1>1, <2>2, <2>4, <2>5
  <2>7. BatchBound'
    BY <2>5, <2>6
  <2> QED  BY <2>3, <2>5, <2>6, <2>7
<1>6. CASE SendBatch
  <2>1. /\ DOMAIN compChan' = DOMAIN compChan \cup {Len(compChan) + 1}
        /\ \A i \in DOMAIN compChan : compChan'[i] = compChan[i]
        /\ compChan'[Len(compChan) + 1] = packNodes
    BY <1>1, <1>6, SendFacts DEF SendBatch
  <2>2. Len(packNodes) \in 1..ServiceBatchSize + 1
    BY <1>1, <1>6 DEF SendBatch
  <2>3. packNodes' = << >> /\ ~full'
    BY <1>6 DEF SendBatch, AfterSend
  <2> QED  BY <1>1, <2>1, <2>2, <2>3
<1>7. CASE NodesCaptured
  BY <1>7 DEF NodesCaptured
<1>8. CASE StartRun
  BY <1>1, <1>8 DEF StartRun
<1>9. CASE TakeBatch
  <2>1. \A i \in DOMAIN compChan' : i + 1 \in DOMAIN compChan /\ compChan'[i] = compChan[i + 1]
    BY <1>1, <1>9, TakeFacts DEF TakeBatch
  <2> QED  BY <1>9, <2>1 DEF TakeBatch
<1> QED  BY <1>2, <1>3, <1>4, <1>5, <1>6, <1>7, <1>8, <1>9, Moves

LEMMA QueryInvStep ==
  ASSUME QueryInv, Next
  PROVE  QueryInv'
<1> USE DEF QueryInv, NoSendOnClosed
<1>1. CASE QueryMove
  <2>1. UNCHANGED <<cancelled, get>>
    BY <1>1, QueryFrame DEF fanVars, getVars
  <2>2. query \in {"fetch", "send"}
    BY <1>1 DEF QueryMove, QueryStep, Fetch, FetchFails, SkipGuac, SendNode, PageSent
  <2>3. nodeErr' # nodeErr => query' = "ended"
    BY <1>1 DEF QueryMove, QueryStep, Fetch, FetchFails, SkipGuac, SendNode, PageSent, EndQuery
  <2>4. panicked' => panicked \/ get = "off"
    BY <1>1 DEF QueryMove, QueryStep, Fetch, FetchFails, SkipGuac, SendNode, PageSent,
                EndQuery, histVars
  <2> QED  BY <2>1, <2>2, <2>3, <2>4
<1>2. CASE LoopMove
  BY <1>2, LoopFrame DEF queryVars, getVars
<1>3. CASE RunMove
  BY <1>3, RunFrame DEF fanVars, queryVars, getVars, histVars
<1>4. CASE Returns
  BY <1>4, ReturnFacts DEF fanVars, queryVars, histVars, QueryFailed, AllSent
<1>5. CASE Tick \/ LastBatch \/ TakeNode \/ SendBatch \/ NodesCaptured
  BY <1>5 DEF Tick, LastBatch, TakeNode, SendBatch, NodesCaptured, fanVars, queryVars, histVars
<1>6. CASE StartRun
  BY <1>6 DEF StartRun
<1>7. CASE TakeBatch
  BY <1>7 DEF TakeBatch, StartRound, queryVars, histVars
<1> QED  BY <1>1, <1>2, <1>3, <1>4, <1>5, <1>6, <1>7, Moves

(* ScanInv.  A package changes its place when it is taken and when the     *)
(* batch is sent; it is never dropped while GetComponents goes on.         *)
LEMMA TakeNodeMoves ==
  ASSUME OwnTypes, TakeNode, NEW d
  PROVE  /\ ~In(d, nodeChan')
         /\ In(d, packNodes') <=> In(d, packNodes) \/ In(d, nodeChan)
         /\ batches' = batches
<1>1. nodeChan \in Seq(Docs) /\ nodeChan # << >> /\ Len(nodeChan) <= 1
  BY DEF OwnTypes, TakeNode
<1>2. Head(nodeChan) \in Docs
  BY <1>1, TakeFacts
<1>3. Len(nodeChan) <= 1 => Len(nodeChan) = 1
  BY <1>1, NotEmpty
<1>4. Len(nodeChan) = 1
  BY <1>1, <1>3
<1>5. In(d, nodeChan) <=> d = Head(nodeChan)
  BY <1>1, <1>4 DEF In
<1>6. In(d, packNodes') <=> In(d, packNodes) \/ d = Head(nodeChan)
  BY <1>2, InAppend DEF OwnTypes, TakeNode
<1>7. ~In(d, nodeChan')
  BY DEF TakeNode, In
<1> QED  BY <1>5, <1>6, <1>7 DEF TakeNode, histVars

LEMMA SendBatchMoves ==
  ASSUME OwnTypes, SendBatch, NEW d \in Docs
  PROVE  /\ ~In(d, packNodes')
         /\ batches'[d] = batches[d] + Count(d, packNodes)
         /\ Count(d, packNodes) \in Nat
         /\ Count(d, packNodes) > 0 <=> In(d, packNodes)
         /\ batches[d] \in Nat
<1>1. ~In(d, packNodes')
  BY DEF SendBatch, AfterSend, In
<1>2. batches'[d] = batches[d] + Count(d, packNodes)
  BY DEF SendBatch, Count
<1> QED  BY <1>1, <1>2, CountFacts DEF OwnTypes

LEMMA BatchesGrow ==
  ASSUME OwnTypes, SendBatch, NEW d \in Docs, batches[d] > 0
  PROVE  batches'[d] > 0
BY SendBatchMoves

(* A package that the query sends is the next one.                         *)
LEMMA SendNodeMoves ==
  ASSUME SendNode
  PROVE  /\ get # "off" => nodeChan = << >>
         /\ \A d : In(d, nodeChan') <=> d = Packages[next]
         /\ next' = next + 1
         /\ UNCHANGED nodeErr
<1>1. nodeChan' = <<Packages[next]>>
  BY DEF SendNode
<1>2. \A d : In(d, nodeChan') <=> d = Packages[next]
  BY <1>1 DEF In
<1> QED  BY <1>2 DEF SendNode

LEMMA ListedPackage ==
  ASSUME OwnTypes, NEW d \in Listed
  PROVE  d \in Docs /\ \E i \in DOMAIN Packages :
           i <= pageEnd /\ Packages[i] = d /\ Packages[i] \notin GuacPackages
BY CertifyAssumption DEF OwnTypes, Listed

LEMMA QueryProgress ==
  ASSUME OwnTypes, QueryMove
  PROVE  /\ \/ UNCHANGED <<next, nodeChan>>
            \/ SendNode
            \/ Packages[next] \in GuacPackages /\ next' = next + 1 /\ nodeChan' = nodeChan
         /\ query \in {"fetch", "send"}
         /\ nodeErr' = "nil" /\ nodeErr # "nil" =>
              UNCHANGED <<next, pageEnd>> /\ (next > pageEnd \/ query = "fetch")
         /\ query' = "fetch" => UNCHANGED <<next, pageEnd>> /\ next > pageEnd
<1>1. CASE Fetch
  BY <1>1 DEF Fetch
<1>2. CASE SkipGuac
  BY <1>2 DEF SkipGuac
<1>3. CASE SendNode
  BY <1>3 DEF SendNode
<1>4. CASE PageSent
  BY <1>4 DEF PageSent, EndQuery
<1>5. ASSUME NEW err \in {"url", "other", "nil"}, FetchFails(err)
      PROVE  UNCHANGED <<next, pageEnd, nodeChan>> /\ query = "fetch" /\ query' = "ended"
  BY <1>5 DEF FetchFails, EndQuery
<1> QED  BY <1>1, <1>2, <1>3, <1>4, <1>5 DEF QueryMove, QueryStep

LEMMA ScanStep ==
  ASSUME OwnTypes, QueryInv, ScanInv, GetOver, Next
  PROVE  ScanInv'
<1> DEFINE A == get = "drain" \/ nodeErr = "nil" \/ query = "fetch" => next > pageEnd
           Seen(i) == i < next /\ Packages[i] \notin GuacPackages => Reached(Packages[i])
           B == get # "off" => \A i \in DOMAIN Packages : Seen(i)
           C == Complete /\ ~cancelled => ScannedAll
<1>1. ScanInv <=> A /\ B /\ C
  BY DEF ScanInv
<1>2. ScanInv' <=> A' /\ B' /\ C'
  BY DEF ScanInv
<1>3. /\ next \in Nat /\ Len(Packages) \in Nat /\ DOMAIN Packages = 1..Len(Packages)
      /\ pageEnd \in Nat
      /\ \A i \in DOMAIN Packages : i \in Nat /\ Packages[i] \in Docs
  BY Fresh, CertifyAssumption DEF OwnTypes
<1>0. Complete /\ ~cancelled => get = "off" /\ query \in {"off", "ended"}
  BY DEF Complete, GetOver, PastSelect, RunStates, QueryInv
<1>4. CASE QueryMove
  <2>1. UNCHANGED <<cancelled, get, packNodes, batches, run, runErr>>
    BY <1>4, QueryFrame DEF fanVars, getVars, runVars
  <2>2. A'
    <3>1. query # "ended"
      BY <1>4, QueryProgress
    <3>2. get # "drain" /\ nodeErr # "nil"
      BY <3>1 DEF QueryInv
    <3> QED  BY <1>1, <1>4, <2>1, <3>2, QueryProgress
  <2>3. B'
    <3> SUFFICES ASSUME get # "off", NEW i \in DOMAIN Packages, i < next',
                        Packages[i] \notin GuacPackages
                 PROVE  Reached(Packages[i])'
      BY <2>1
    <3>1. CASE UNCHANGED <<next, nodeChan>>
      BY <1>1, <2>1, <3>1 DEF Reached
    <3>2. CASE Packages[next] \in GuacPackages /\ next' = next + 1 /\ nodeChan' = nodeChan
      <4>1. i # next
        BY <3>2
      <4>2. i < next
        BY <1>3, <3>2, <4>1
      <4> QED  BY <1>1, <2>1, <3>2, <4>2 DEF Reached
    <3>3. CASE SendNode
      <4>1. nodeChan = << >> /\ next' = next + 1
            /\ \A d : In(d, nodeChan') <=> d = Packages[next]
        BY <3>3, SendNodeMoves
      <4>2. CASE i = next
        BY <4>1, <4>2 DEF Reached
      <4>3. CASE i # next
        <5>1. i < next
          BY <1>3, <4>1, <4>3
        <5>2. Reached(Packages[i]) /\ ~In(Packages[i], nodeChan)
          BY <1>1, <4>1, <5>1 DEF In
        <5> QED  BY <2>1, <5>2 DEF Reached
      <4> QED  BY <4>2, <4>3
    <3> QED  BY <1>4, <3>1, <3>2, <3>3, QueryProgress
  <2>4. C'
    BY <1>0, <1>4, <2>1, QueryProgress DEF Complete
  <2> QED  BY <1>2, <2>2, <2>3, <2>4
<1>5. CASE LoopMove
  <2>1. A' /\ B'
    BY <1>1, <1>5, LoopFrame DEF queryVars, getVars, Reached
  <2>2. C'
    BY <1>1, <1>5, LoopFrame DEF queryVars, runVars, Complete, ScannedAll, Listed
  <2> QED  BY <1>2, <2>1, <2>2
<1>6. CASE RunMove
  <2>1. A' /\ B'
    BY <1>1, <1>6, RunFrame DEF queryVars, getVars, histVars, Reached
  <2>2. UNCHANGED <<cancelled, pageEnd, batches>>
    BY <1>6, RunFrame DEF fanVars, queryVars, histVars
  <2>3. Complete' => Complete \/ cancelled
    BY <1>6 DEF RunMove, BatchDone, Generated, ComponentsCaptured, RunCancelled, RunDone,
                PollCancelled, AfterRun, Complete
  <2>4. C'
    BY <1>1, <2>2, <2>3 DEF ScannedAll, Listed
  <2> QED  BY <1>2, <2>1, <2>4
<1>7. CASE Returns
  <2>1. UNCHANGED <<cancelled, batches, run>>
    BY <1>7, ReturnFacts DEF fanVars, histVars
  <2>2. A'
    BY <1>1, <1>3, <1>7, ReturnFacts DEF queryVars
  <2>3. B'
    BY <1>3, <1>7, ReturnFacts
  <2>4. CASE AllSent
    <3>1. get = "drain" /\ nodeChan = << >> /\ packNodes = << >>
      BY <2>4 DEF AllSent, NothingLeft
    <3>2. ASSUME NEW d \in Listed  PROVE batches[d] > 0
      <4>1. PICK i \in DOMAIN Packages :
              i <= pageEnd /\ Packages[i] = d /\ Packages[i] \notin GuacPackages
        BY ListedPackage
      <4>2. i < next
        BY <1>1, <1>3, <3>1, <4>1
      <4>3. Reached(d)
        BY <1>1, <3>1, <4>1, <4>2
      <4> QED  BY <3>1, <4>3 DEF Reached, In
    <3>3. pageEnd' = pageEnd
      BY <1>7, <2>4, ReturnFacts, AllSentEnds DEF queryVars
    <3>4. C'
      BY <2>1, <3>2, <3>3 DEF ScannedAll, Listed
    <3> QED  BY <1>2, <2>2, <2>3, <3>4
  <2>5. CASE ~AllSent
    <3>1. runErr' = "nil" => runErr = "nil"
      BY <1>7, <2>5, ReturnFacts
    <3>2. C'
      BY <1>0, <1>7, <2>1, <3>1, ReturnFacts DEF Complete
    <3> QED  BY <1>2, <2>2, <2>3, <3>2
  <2> QED  BY <2>4, <2>5
<1>8. CASE Tick \/ LastBatch \/ NodesCaptured
  <2>1. /\ UNCHANGED <<fanVars, nodeChan, next, pageEnd, packNodes, runVars, histVars>>
        /\ get # "off"
    BY <1>8 DEF Tick, LastBatch, NodesCaptured, queryVars
  <2>2. A'
    BY <1>1, <1>8 DEF Tick, LastBatch, NodesCaptured, queryVars
  <2>3. B' /\ C'
    BY <1>1, <2>1 DEF fanVars, runVars, histVars, Reached, Complete, ScannedAll, Listed
  <2> QED  BY <1>2, <2>2, <2>3
<1>9. CASE TakeNode
  <2>1. /\ UNCHANGED <<cancelled, query, next, pageEnd, nodeErr, get, runVars, batches>>
        /\ get # "off"
    BY <1>9 DEF TakeNode, fanVars, histVars
  <2>2. \A d : Reached(d) => Reached(d)'
    BY <1>9, TakeNodeMoves DEF Reached
  <2>3. A' /\ B'
    BY <1>1, <2>1, <2>2
  <2>4. C'
    BY <1>1, <2>1 DEF runVars, Complete, ScannedAll, Listed
  <2> QED  BY <1>2, <2>3, <2>4
<1>10. CASE SendBatch
  <2>1. UNCHANGED <<cancelled, query, next, pageEnd, nodeChan, nodeErr, get, runVars>>
    BY <1>10 DEF SendBatch, fanVars, queryVars
  <2>2. \A d \in Docs : Reached(d) => Reached(d)'
    BY <1>10, <2>1, SendBatchMoves DEF Reached
  <2>3. A' /\ B'
    BY <1>1, <1>3, <2>1, <2>2
  <2>4. \A d \in Docs : batches[d] > 0 => batches'[d] > 0
    BY <1>10, BatchesGrow
  <2>5. C'
    BY <1>1, <2>1, <2>4, ListedPackage DEF runVars, Complete, ScannedAll, Listed
  <2> QED  BY <1>2, <2>3, <2>5
<1>11. CASE StartRun
  <2>1. A' /\ B'
    BY <1>3, <1>11 DEF StartRun
  <2>2. C'
    BY <1>11 DEF StartRun, Complete
  <2> QED  BY <1>2, <2>1, <2>2
<1>12. CASE TakeBatch
  <2>1. UNCHANGED <<cancelled, queryVars, get, packNodes, runErr, histVars>>
    BY <1>12 DEF TakeBatch, StartRound
  <2>2. run' \in {"generate", "generateLeft", "generateFailing"}
        /\ (run' = "generateLeft" => run = "drain")
    BY <1>12 DEF TakeBatch, Generating
  <2>3. A' /\ B'
    BY <1>1, <2>1 DEF queryVars, histVars, Reached
  <2>4. C'
    BY <1>1, <2>1, <2>2 DEF queryVars, histVars, Complete, ScannedAll, Listed
  <2> QED  BY <1>2, <2>3, <2>4
<1> QED  BY <1>4, <1>5, <1>6, <1>7, <1>8, <1>9, <1>10, <1>11, <1>12, Moves

(* Failures are counted one by one.                                        *)
LEMMA FailuresCount ==
  ASSUME Next
  PROVE  failures' = failures \/ failures' = failures + 1
<1>1. CASE QueryMove
  BY <1>1 DEF QueryMove, QueryStep, Fetch, FetchFails, SkipGuac, SendNode, PageSent,
          Misfortune, histVars
<1>2. CASE LoopMove
  BY <1>2 DEF LoopMove, FanSteps, CertifierFails, Signal, Misfortune, histVars
<1>3. CASE RunMove \/ Returns
  BY <1>3, RunFrame, ReturnFacts DEF histVars
<1>4. CASE Tick \/ LastBatch \/ TakeNode \/ SendBatch \/ NodesCaptured \/ StartRun \/ TakeBatch
  BY <1>4 DEF Tick, LastBatch, TakeNode, SendBatch, NodesCaptured, StartRun, TakeBatch, histVars
<1> QED  BY <1>1, <1>2, <1>3, <1>4, Moves

LEMMA ListStep ==
  ASSUME OwnTypes, ListInv, Next
  PROVE  ListInv'
<1> USE DEF ListInv
<1>1. failures \in Nat /\ pageEnd \in Nat /\ Len(Packages) \in Nat
      /\ pageEnd <= Len(Packages)
  <2>1. failures \in Nat
    BY CertifyAssumption DEF OwnTypes
  <2>2. Len(Packages) \in Nat
    BY Fresh
  <2>3. pageEnd \in 0..Len(Packages)
    BY DEF OwnTypes
  <2>4. ASSUME NEW n \in Nat, NEW x \in 0..n  PROVE x \in Nat /\ x <= n
    OBVIOUS
  <2> QED  BY <2>1, <2>2, <2>3, <2>4
<1>2. failures' = failures \/ failures' = failures + 1
  BY FailuresCount
<1>3. failures' = 0 => failures = 0
  BY <1>1, <1>2
<1>4. CASE QueryMove
  <2>1. query' # "off" /\ query # "ended"
    BY <1>4 DEF QueryMove, QueryStep, Fetch, FetchFails, SkipGuac, SendNode, PageSent, EndQuery
  <2>2. CASE PageSent
    BY <1>1, <2>1, <2>2 DEF PageSent, HasNextPage
  <2>3. ASSUME NEW err \in {"url", "other", "nil"}, FetchFails(err)  PROVE failures' # 0
    BY <1>1, <2>3 DEF FetchFails, Misfortune
  <2>4. CASE Fetch \/ SkipGuac \/ SendNode
    BY <2>1, <2>4 DEF Fetch, SkipGuac, SendNode
  <2> QED  BY <1>4, <2>1, <2>2, <2>3, <2>4 DEF QueryMove, QueryStep
<1>5. CASE UNCHANGED <<query, pageEnd, run>>
  BY <1>3, <1>5
<1>6. CASE RunMove
  <2>1. UNCHANGED queryVars /\ run # "start"
    BY <1>6, RunFrame DEF RunMove, BatchDone, ComponentsCaptured, RunCancelled, RunDone,
                          PollCancelled
  <2> QED  BY <1>3, <2>1 DEF queryVars
<1>7. CASE Returns
  BY <1>3, <1>7, ReturnFacts DEF queryVars
<1>8. CASE StartRun
  BY <1>8 DEF StartRun
<1>9. CASE TakeBatch
  BY <1>3, <1>9 DEF TakeBatch, queryVars
<1>10. CASE LoopMove \/ Tick \/ LastBatch \/ TakeNode \/ SendBatch \/ NodesCaptured
  BY <1>5, <1>10, LoopFrame
  DEF Tick, LastBatch, TakeNode, SendBatch, NodesCaptured, queryVars, runVars
<1> QED  BY <1>4, <1>6, <1>7, <1>8, <1>9, <1>10, Moves

(* OnceInv.                                                                *)
LEMMA OnceStep ==
  ASSUME OwnTypes, BatchInv, OnceInv, Next
  PROVE  OnceInv'
<1>1. /\ next \in Nat /\ DOMAIN Packages = 1..Len(Packages) /\ tries \in Nat
      /\ \A i \in DOMAIN Packages : i \in Nat /\ Packages[i] \in Docs
      /\ \A i, j \in DOMAIN Packages : Packages[i] = Packages[j] => i = j
      /\ \A d \in Docs : batches[d] \in Nat
  BY Fresh, CertifyAssumption DEF OwnTypes
<1>2. CASE QueryMove
  <2>1. UNCHANGED <<get, packNodes, tries, batches>>
    BY <1>2, QueryFrame DEF getVars
  <2>2. ASSUME get # "off", tries <= 1  PROVE OnePlace'
    <3>1. OnePlace
      BY <2>2 DEF OnceInv
    <3>2. CASE UNCHANGED <<next, nodeChan>>
      BY <2>1, <3>1, <3>2 DEF OnePlace, NotYet
    <3>3. CASE next' = next + 1 /\ nodeChan' = nodeChan
      <4>1. \A i \in DOMAIN Packages : i >= next' => i >= next
        BY <1>1, <3>3
      <4> QED  BY <2>1, <3>1, <3>3, <4>1 DEF OnePlace, NotYet
    <3>4. CASE SendNode
      <4>1. nodeChan = << >> /\ next' = next + 1
            /\ \A d : In(d, nodeChan') <=> d = Packages[next]
        BY <2>2, <3>4, SendNodeMoves
      <4>2. next \in DOMAIN Packages
        <5>1. next <= Len(Packages) /\ next >= 1
          <6>1. next <= pageEnd /\ pageEnd \in 0..Len(Packages) /\ next \in 1..Len(Packages) + 1
            BY <3>4 DEF SendNode, OwnTypes
          <6> QED  BY <6>1, Fresh
        <5> QED  BY <1>1, <5>1, Fresh
      <4>3. NotYet(Packages[next])
        BY <1>1, <3>1, <4>2 DEF OnePlace
      <4>4. \A i \in DOMAIN Packages : i >= next' => i >= next /\ Packages[i] # Packages[next]
        <5>1. \A i \in DOMAIN Packages : i >= next' => i >= next /\ i # next
          BY <1>1, <4>1
        <5> QED  BY <1>1, <4>2, <5>1
      <4>5. (\A i \in DOMAIN Packages : i >= next => NotYet(Packages[i]))'
        BY <2>1, <3>1, <4>1, <4>4 DEF OnePlace, NotYet
      <4>6. (\A d \in Docs : In(d, nodeChan) => ~In(d, packNodes) /\ batches[d] = 0)'
        BY <2>1, <4>1, <4>3 DEF NotYet
      <4> QED  BY <2>1, <3>1, <4>5, <4>6 DEF OnePlace
    <3> QED  BY <1>2, <3>2, <3>3, <3>4, QueryProgress
  <2> QED  BY <2>1, <2>2 DEF OnceInv, ScannedOnce
<1>3. CASE LoopMove
  BY <1>3, LoopFrame DEF queryVars, getVars, OnceInv, ScannedOnce, OnePlace, NotYet
<1>4. CASE RunMove
  BY <1>4, RunFrame DEF queryVars, getVars, histVars, OnceInv, ScannedOnce, OnePlace, NotYet
<1>5. CASE Returns
  <2>1. UNCHANGED batches /\ get # "off"
    BY <1>5, ReturnFacts DEF histVars
  <2>2. CASE get' = "loop"
    <3>1. tries' = tries + 1 /\ tries >= 1
      BY <1>5, <2>1, <2>2, ReturnFacts DEF OnceInv
    <3>2. tries' >= 1 /\ ~(tries' <= 1)
      BY <1>1, <3>1
    <3> QED  BY <3>2 DEF OnceInv
  <2>3. CASE get' = "off"
    <3>1. tries' = tries
      BY <1>5, <2>3, ReturnFacts
    <3> QED  BY <2>1, <2>3, <3>1 DEF OnceInv, ScannedOnce
  <2> QED  BY <1>5, <2>2, <2>3, ReturnFacts
<1>6. CASE Tick \/ LastBatch \/ NodesCaptured
  <2>1. UNCHANGED <<nodeChan, next, packNodes, tries, batches>> /\ get # "off"
    BY <1>6 DEF Tick, LastBatch, NodesCaptured, queryVars, histVars
  <2> QED  BY <2>1 DEF OnceInv, ScannedOnce, OnePlace, NotYet
<1>7. CASE TakeNode
  <2>1. UNCHANGED <<next, get, tries, batches>> /\ get # "off"
    BY <1>7 DEF TakeNode, histVars
  <2>2. ASSUME tries <= 1  PROVE OnePlace'
    <3>1. OnePlace
      BY <2>1, <2>2 DEF OnceInv
    <3>2. \A d : ~In(d, nodeChan')
                 /\ (In(d, packNodes') <=> In(d, packNodes) \/ In(d, nodeChan))
      BY <1>7, TakeNodeMoves
    <3>3. nodeChan \in Seq(Docs) /\ nodeChan # << >> /\ packNodes \in Seq(Docs)
      BY <1>7 DEF TakeNode, OwnTypes
    <3>4. Head(nodeChan) \in Docs /\ In(Head(nodeChan), nodeChan)
      BY <3>3, TakeFacts DEF In
    <3>5. ~In(Head(nodeChan), packNodes)
      BY <3>1, <3>4 DEF OnePlace
    <3>6. packNodes' = Append(packNodes, Head(nodeChan))
      BY <1>7 DEF TakeNode
    <3>7. /\ DOMAIN packNodes' = DOMAIN packNodes \cup {Len(packNodes) + 1}
          /\ \A i \in DOMAIN packNodes : packNodes'[i] = packNodes[i]
          /\ packNodes'[Len(packNodes) + 1] = Head(nodeChan)
      BY <3>3, <3>4, <3>6, SendFacts
    <3>8. \A i \in DOMAIN packNodes : packNodes[i] # Head(nodeChan)
      BY <3>5 DEF In
    <3>9. (\A i, j \in DOMAIN packNodes : packNodes[i] = packNodes[j] => i = j)'
      BY <3>1, <3>7, <3>8 DEF OnePlace
    <3>10. (\A i \in DOMAIN Packages : i >= next => NotYet(Packages[i]))'
      BY <2>1, <3>1, <3>2 DEF OnePlace, NotYet
    <3>11. (\A d \in Docs : In(d, packNodes) => batches[d] = 0)'
      BY <2>1, <3>1, <3>2 DEF OnePlace
    <3> QED  BY <3>2, <3>9, <3>10, <3>11 DEF OnePlace
  <2> QED  BY <2>1, <2>2 DEF OnceInv, ScannedOnce
<1>8. CASE SendBatch
  <2>1. UNCHANGED <<next, nodeChan, get, tries>> /\ get # "off" /\ packNodes' = << >>
    BY <1>8 DEF SendBatch, AfterSend, queryVars, BatchInv
  <2>2. ASSUME tries <= 1  PROVE OnePlace' /\ ScannedOnce'
    <3>1. OnePlace /\ \A d \in Docs : batches[d] <= 1
      BY <2>1, <2>2 DEF OnceInv, ScannedOnce
    <3>2. \A d \in Docs : Count(d, packNodes) <= 1
      BY <3>1, CountFacts DEF OnePlace, OwnTypes
    <3>3. ASSUME NEW d \in Docs
          PROVE  /\ batches'[d] <= 1
                 /\ ~In(d, packNodes) => batches'[d] = batches[d]
      <4>1. /\ batches'[d] = batches[d] + Count(d, packNodes)
            /\ Count(d, packNodes) \in Nat
            /\ Count(d, packNodes) > 0 <=> In(d, packNodes)
            /\ batches[d] \in Nat
        BY <1>8, SendBatchMoves
      <4>2. In(d, packNodes) => batches[d] = 0
        BY <3>1 DEF OnePlace
      <4> QED  BY <3>1, <3>2, <4>1, <4>2
    <3>4. \A d : ~In(d, packNodes')
      BY <2>1 DEF In
    <3>5. (\A i \in DOMAIN Packages : i >= next => NotYet(Packages[i]))'
      BY <1>1, <2>1, <3>1, <3>3, <3>4 DEF OnePlace, NotYet
    <3>6. (\A d \in Docs : In(d, nodeChan) => ~In(d, packNodes) /\ batches[d] = 0)'
      BY <2>1, <3>1, <3>3, <3>4 DEF OnePlace
    <3>7. (\A i, j \in DOMAIN packNodes : packNodes[i] = packNodes[j] => i = j)'
      BY <2>1
    <3> QED  BY <3>3, <3>4, <3>5, <3>6, <3>7 DEF OnePlace, ScannedOnce
  <2> QED  BY <2>1, <2>2 DEF OnceInv
<1>9. CASE StartRun
  <2>1. /\ next' = 1 /\ nodeChan' = << >> /\ packNodes' = << >> /\ tries' = 1
        /\ batches' = [d \in Docs |-> 0]
    BY <1>9 DEF StartRun
  <2>2. \A d : ~In(d, nodeChan') /\ ~In(d, packNodes')
    BY <2>1 DEF In
  <2>3. OnePlace'
    BY <1>1, <2>1, <2>2 DEF OnePlace, NotYet
  <2> QED  BY <2>1, <2>3 DEF OnceInv, ScannedOnce
<1>10. CASE TakeBatch
  BY <1>10 DEF TakeBatch, queryVars, histVars, OnceInv, ScannedOnce, OnePlace, NotYet
<1> QED  BY <1>2, <1>3, <1>4, <1>5, <1>6, <1>7, <1>8, <1>9, <1>10, Moves

(* EmitInv, a conjunct at a time.                                          *)
LEMMA CalmLasts ==
  ASSUME OwnTypes, Next
  PROVE  /\ Calm' => Calm
         /\ cancelled => cancelled'
<1>1. failures \in Nat
  BY CertifyAssumption DEF OwnTypes
<1>2. cancelled => cancelled'
  <2>1. CASE QueryMove \/ RunMove \/ Returns
    BY <2>1, QueryFrame, RunFrame, ReturnFacts DEF fanVars
  <2>2. CASE Tick \/ LastBatch \/ TakeNode \/ SendBatch \/ NodesCaptured \/ StartRun \/ TakeBatch
    BY <2>2 DEF Tick, LastBatch, TakeNode, SendBatch, NodesCaptured, StartRun, TakeBatch,
                StartRound, fanVars
  <2> QED  BY <2>1, <2>2, LoopFrame, Moves
<1>3. failures' = failures \/ failures' = failures + 1
  BY FailuresCount
<1>4. failures' = 0 => failures = 0
  BY <1>1, <1>3
<1> QED  BY <1>2, <1>4 DEF Calm

LEMMA GetOverStep ==
  ASSUME OwnTypes, GetOver, Next
  PROVE  GetOver'
<1> USE DEF GetOver, PastSelect, RunStates
<1>1. cancelled => cancelled'
  BY CalmLasts
<1>2. CASE QueryMove
  BY <1>1, <1>2, QueryFrame DEF getVars, runVars
<1>3. CASE LoopMove
  BY <1>1, <1>3, LoopFrame DEF getVars, runVars
<1>4. CASE RunMove
  <2>1. UNCHANGED <<cancelled, get>>
    BY <1>4, RunFrame DEF fanVars, getVars
  <2>2. runErr' # "none" => runErr # "none"
    BY <1>4 DEF RunMove, BatchDone, ComponentsCaptured, RunCancelled, RunDone, PollCancelled
  <2>3. run' \in PastSelect => run \in PastSelect \/ runErr # "none" \/ cancelled
    BY <1>4 DEF RunMove, BatchDone, Generated, ComponentsCaptured, Captured, RunCancelled,
                RunDone, PollCancelled, AfterRun
  <2> QED  BY <2>1, <2>2, <2>3
<1>5. CASE Returns
  BY <1>1, <1>5, ReturnFacts
<1>6. CASE Tick \/ LastBatch \/ NodesCaptured \/ TakeNode \/ SendBatch
  BY <1>1, <1>6 DEF Tick, LastBatch, NodesCaptured, TakeNode, SendBatch, runVars
<1>7. CASE StartRun
  BY <1>7 DEF StartRun
<1>8. CASE TakeBatch
  BY <1>1, <1>8 DEF TakeBatch, Generating
<1> QED  BY <1>2, <1>3, <1>4, <1>5, <1>6, <1>7, <1>8, Moves

LEMMA AllTakenStep ==
  ASSUME OwnTypes, BatchInv, GetOver, AllTaken, Next
  PROVE  AllTaken'
<1> USE DEF AllTaken, RunOver
<1>1. cancelled => cancelled'
  BY CalmLasts
<1>2. CASE QueryMove
  BY <1>1, <1>2, QueryFrame DEF getVars, runVars
<1>3. CASE LoopMove
  BY <1>1, <1>3, LoopFrame DEF getVars, runVars
<1>4. CASE RunMove
  <2>1. UNCHANGED compChan
    BY <1>4, RunFrame DEF getVars
  <2>2. run' \in {"waiting", "ended"} => run \in {"waiting", "ended"} \/ compChan = << >>
    BY <1>4 DEF RunMove, BatchDone, Generated, ComponentsCaptured, RunCancelled,
                RunDone, NoneWaiting, PollCancelled
  <2> QED  BY <1>1, <2>1, <2>2
<1>5. CASE Returns
  BY <1>1, <1>5, ReturnFacts
<1>6. CASE Tick \/ LastBatch \/ NodesCaptured \/ TakeNode
  BY <1>1, <1>6 DEF Tick, LastBatch, NodesCaptured, TakeNode, runVars
<1>7. CASE SendBatch
  <2>1. get # "off" /\ run' = run
    BY <1>7 DEF SendBatch, BatchInv, runVars
  <2> QED  BY <1>1, <2>1 DEF GetOver, PastSelect, RunStates
<1>8. CASE StartRun
  BY <1>8 DEF StartRun
<1>9. CASE TakeBatch
  BY <1>9 DEF TakeBatch, Generating
<1> QED  BY <1>2, <1>3, <1>4, <1>5, <1>6, <1>7, <1>8, <1>9, Moves

LEMMA NoRestStep ==
  ASSUME OwnTypes, FanTypeOK, NoRest, Next
  PROVE  NoRest'
<1> SUFFICES ASSUME Calm', NEW c \in Collectors, c \notin running'
             PROVE  todo'[c] = << >>
  BY DEF NoRest
<1>1. Calm /\ (c \notin running => todo[c] = << >>)
  BY CalmLasts DEF NoRest
<1>2. CASE UNCHANGED <<todo, running>>
  BY <1>1, <1>2
<1>3. CASE LoopMove
  <2>1. ASSUME NEW b \in Collectors, SendDoc(b)  PROVE todo'[c] = << >>
    BY <1>1, <2>1 DEF SendDoc, FanTypeOK
  <2>2. ASSUME NEW b \in Collectors, EndCollector(b, TRUE)  PROVE todo'[c] = << >>
    BY <1>1, <2>2 DEF EndCollector
  <2>3. ASSUME NEW b \in Collectors, CertifierFails(b)  PROVE FALSE
    <3>1. failures' = failures + 1 /\ failures' = 0 /\ failures \in Nat
      BY <2>3, CertifyAssumption DEF CertifierFails, Misfortune, Calm, OwnTypes
    <3> QED  BY <3>1
  <2>4. CASE FanStep \/ Signal
    BY <1>1, <2>4 DEF FanStep, Signal, Cancel, TakeDoc, TakeResult, SeeCancel, Drained
  <2> QED  BY <1>3, <2>1, <2>2, <2>3, <2>4 DEF LoopMove, FanSteps, Certifying
<1>4. CASE QueryMove \/ RunMove \/ Returns
  BY <1>2, <1>4, QueryFrame, RunFrame, ReturnFacts DEF fanVars
<1>5. CASE Tick \/ LastBatch \/ TakeNode \/ SendBatch \/ NodesCaptured \/ StartRun
  BY <1>2, <1>5 DEF Tick, LastBatch, TakeNode, SendBatch, NodesCaptured, StartRun, fanVars
<1>6. CASE TakeBatch
  BY <1>6 DEF TakeBatch, StartRound
<1> QED  BY <1>3, <1>4, <1>5, <1>6, Moves

(* A batch is taken once its predecessor is done with: when the loop over  *)
(* the certifiers returns, each of them has sent all its documents, and    *)
(* every one was emitted (FanInv).                                         *)
LEMMA ScanOver ==
  ASSUME FanInv, NoRest, Calm, loop = "returned", NEW d, InScan(d)
  PROVE  d \in emitted
<1>1. reported = Collectors /\ reported \cap running = {} /\ sent \subseteq emitted
  BY DEF FanInv, SentEmitted, Calm
<1>2. PICK c \in Collectors : TRUE
  BY CertifyAssumption
<1>3. todo[c] = << >>
  BY <1>1, <1>2 DEF NoRest
<1>4. ~In(d, todo[c])
  BY <1>3 DEF In
<1> QED  BY <1>1, <1>2, <1>4 DEF InScan

LEMMA AllKeptStep ==
  ASSUME OwnTypes, FanTypeOK, FanInv, NoRest, AllKept, Next
  PROVE  AllKept'
<1> SUFFICES ASSUME Calm', NEW d \in Docs  PROVE Scanned(d)'
  BY DEF AllKept
<1>1. Calm /\ Scanned(d)
  BY CalmLasts DEF AllKept
<1>2. CASE UNCHANGED <<fanVars, compChan, run, batches>>
  BY <1>1, <1>2 DEF Scanned, Waiting, InScan, fanVars
<1>3. CASE LoopMove
  <2>1. UNCHANGED <<compChan, run, batches>>
    BY <1>3, LoopFrame DEF getVars, runVars
  <2>2. Waiting(d)' <=> Waiting(d)
    BY <2>1 DEF Waiting
  <2>3. emitted \subseteq emitted' /\ sent \subseteq sent'
    BY <1>3 DEF LoopMove, FanSteps, CertifierFails, Signal, Certifying, FanStep, SendDoc,
                EndCollector, Cancel, TakeDoc, TakeResult, SeeCancel, Drained
  <2>4. \A c \in Collectors : In(d, todo[c]) => In(d, todo'[c]) \/ d \in sent'
    <3>1. CASE UNCHANGED todo
      BY <3>1
    <3>2. ASSUME NEW b \in Collectors, SendDoc(b)
          PROVE  \A c \in Collectors : In(d, todo[c]) => In(d, todo'[c]) \/ d \in sent'
      <4>1. todo[b] \in Seq(Docs) /\ todo[b] # << >>
        BY <3>2 DEF SendDoc, FanTypeOK
      <4>2. In(d, todo[b]) => In(d, Tail(todo[b])) \/ d = Head(todo[b])
        BY <4>1, InTail
      <4>3. todo' = [todo EXCEPT ![b] = Tail(todo[b])] /\ sent' = sent \cup {Head(todo[b])}
        BY <3>2 DEF SendDoc
      <4> QED  BY <4>2, <4>3 DEF FanTypeOK
    <3> QED
      BY <1>3, <3>1, <3>2 DEF LoopMove, FanSteps, CertifierFails, Signal, Certifying, FanStep,
         EndCollector, Cancel, TakeDoc, TakeResult, SeeCancel, Drained
  <2>5. InScan(d) => InScan(d)'
    BY <2>1, <2>3, <2>4 DEF InScan
  <2> QED  BY <1>1, <2>1, <2>2, <2>3, <2>5 DEF Scanned
<1>4. CASE RunMove
  <2>1. UNCHANGED <<emitted, compChan, batches>>
    BY <1>4, RunFrame DEF fanVars, getVars, histVars
  <2>2. Waiting(d)' <=> Waiting(d)
    BY <2>1 DEF Waiting
  <2>3. InScan(d) => d \in emitted
    <3>1. CASE BatchDone
      BY <1>1, <3>1, ScanOver DEF BatchDone
    <3>2. CASE ~BatchDone
      BY <1>4, <3>2 DEF RunMove, ComponentsCaptured, RunCancelled, RunDone, PollCancelled,
                        InScan, GenStates
    <3> QED  BY <3>1, <3>2
  <2> QED  BY <1>1, <2>1, <2>2, <2>3 DEF Scanned
<1>5. CASE QueryMove \/ Returns
  BY <1>2, <1>5, QueryFrame, ReturnFacts DEF getVars, runVars, histVars
<1>6. CASE Tick \/ LastBatch \/ TakeNode \/ NodesCaptured
  BY <1>2, <1>6 DEF Tick, LastBatch, TakeNode, NodesCaptured, runVars, histVars
<1>7. CASE SendBatch
  <2>1. UNCHANGED <<fanVars, run>> /\ compChan \in Seq(Seq(Docs)) /\ packNodes \in Seq(Docs)
    BY <1>7 DEF SendBatch, runVars, OwnTypes
  <2>2. /\ DOMAIN compChan' = DOMAIN compChan \cup {Len(compChan) + 1}
        /\ \A i \in DOMAIN compChan : compChan'[i] = compChan[i]
        /\ compChan'[Len(compChan) + 1] = packNodes
    BY <1>7, <2>1, SendFacts DEF SendBatch
  <2>3. Waiting(d) \/ In(d, packNodes) => Waiting(d)'
    BY <2>2 DEF Waiting
  <2>4. batches'[d] > 0 => batches[d] > 0 \/ In(d, packNodes)
    <3>1. /\ batches'[d] = batches[d] + Count(d, packNodes)
          /\ Count(d, packNodes) \in Nat
          /\ Count(d, packNodes) > 0 <=> In(d, packNodes)
          /\ batches[d] \in Nat
      BY <1>7, SendBatchMoves
    <3> QED  BY <3>1
  <2>5. InScan(d)' <=> InScan(d)
    BY <2>1 DEF InScan, fanVars
  <2> QED  BY <1>1, <2>1, <2>3, <2>4, <2>5 DEF Scanned, fanVars
<1>8. CASE StartRun
  BY <1>8 DEF StartRun, Scanned
<1>9. CASE TakeBatch
  <2>1. compChan \in Seq(Seq(Docs)) /\ compChan # << >>
    BY <1>9 DEF TakeBatch, OwnTypes
  <2>2. /\ UNCHANGED <<emitted, sent, batches>>
        /\ compChan' = Tail(compChan)
        /\ todo' = [c \in Collectors |-> Head(compChan)]
        /\ run' \in GenStates /\ run \notin GenStates
    BY <1>9 DEF TakeBatch, StartRound, Generating, GenStates, histVars
  <2>3. \A i \in DOMAIN compChan : compChan[i] = Head(compChan) \/
           (i - 1 \in DOMAIN compChan' /\ compChan'[i - 1] = compChan[i])
    BY <2>1, <2>2, TakeFacts
  <2>4. Waiting(d) => Waiting(d)' \/ In(d, Head(compChan))
    BY <2>3 DEF Waiting
  <2>5. In(d, Head(compChan)) => InScan(d)'
    BY <2>2 DEF InScan
  <2>6. ~InScan(d)
    BY <2>2 DEF InScan
  <2> QED  BY <1>1, <2>2, <2>4, <2>5, <2>6 DEF Scanned
<1> QED  BY <1>3, <1>4, <1>5, <1>6, <1>7, <1>8, <1>9, Moves

-----------------------------------------------------------------------------
(* The theorems.                                                           *)

SafetyInv ==
  /\ CertifyTypeOK /\ FanInv
  /\ BatchInv /\ QueryInv /\ ScanInv /\ ListInv /\ OnceInv /\ EmitInv

LEMMA InitSafe ==
  ASSUME Init
  PROVE  SafetyInv
<1>1. CertifyTypeOK /\ FanInv
  BY InitTypes
<1>2. Len(<< >>) = 0 /\ DOMAIN << >> = {} /\ ServiceBatchSize \in Nat
  BY CertifyAssumption
<1>3. BatchInv /\ QueryInv
  BY <1>2 DEF Init, BatchInv, BatchBound, QueryInv, NoSendOnClosed
<1>4. ScanInv /\ ListInv /\ OnceInv
  BY DEF Init, ScanInv, ListInv, Complete, OnceInv, ScannedOnce
<1>5. EmitInv
  BY DEF Init, FanIdle, EmitInv, GetOver, AllTaken, RunOver, NoRest, AllKept, Scanned, PastSelect
<1> QED  BY <1>1, <1>3, <1>4, <1>5 DEF SafetyInv

LEMMA StepSafe ==
  ASSUME SafetyInv, [Next]_vars
  PROVE  SafetyInv'
<1>1. OwnTypes /\ FanTypeOK
  BY TypesSplit DEF SafetyInv
<1>2. CertifyTypeOK' /\ FanInv'
  BY TypeStep DEF SafetyInv
<1>3. CASE Next
  <2>1. BatchInv' /\ QueryInv' /\ ScanInv' /\ ListInv' /\ OnceInv'
    BY <1>1, <1>3, BatchStep, QueryInvStep, ScanStep, ListStep, OnceStep DEF SafetyInv, EmitInv
  <2>2. EmitInv'
    BY <1>1, <1>3, GetOverStep, AllTakenStep, NoRestStep, AllKeptStep DEF SafetyInv, EmitInv
  <2> QED  BY <1>2, <2>1, <2>2 DEF SafetyInv
<1>4. CASE UNCHANGED vars
  <2>1. BatchInv' /\ QueryInv'
    BY <1>4 DEF SafetyInv, vars, fanVars, queryVars, getVars, histVars, BatchInv, BatchBound,
                QueryInv, NoSendOnClosed
  <2>2. ScanInv' /\ ListInv'
    BY <1>4 DEF SafetyInv, vars, fanVars, queryVars, getVars, runVars, histVars, ScanInv,
                Complete, ScannedAll, Listed, Reached, ListInv
  <2>3. OnceInv'
    BY <1>4 DEF SafetyInv, vars, queryVars, getVars, histVars, OnceInv, ScannedOnce,
                OnePlace, NotYet
  <2>4. EmitInv'
    BY <1>4 DEF SafetyInv, vars, fanVars, getVars, runVars, histVars, EmitInv, GetOver,
                AllTaken, RunOver, Calm, NoRest, AllKept, Scanned, Waiting, InScan
  <2> QED  BY <1>2, <2>1, <2>2, <2>3, <2>4 DEF SafetyInv
<1> QED  BY <1>3, <1>4

(* SafetyInv holds in every reachable state.                               *)
THEOREM CertifyInvariance == Spec => []SafetyInv
<1>1. Init => SafetyInv
  BY InitSafe
<1>2. SafetyInv /\ [Next]_vars => SafetyInv'
  BY StepSafe
<1> QED  BY <1>1, <1>2, PTL DEF Spec

(* The variables of the certifier keep their types.                        *)
THEOREM CertifyTypes == Spec => []CertifyTypeOK
<1>1. SafetyInv => CertifyTypeOK
  BY DEF SafetyInv
<1> QED  BY <1>1, CertifyInvariance, PTL

(* A run that ends well has had every package scanned that the server      *)
(* listed, however the ends of the three goroutines interleave, for any    *)
(* page and batch sizes.                                                   *)
THEOREM NoPackageMissed == Spec => []AllScanned
<1>1. SafetyInv => AllScanned
  BY DEF SafetyInv, ScanInv, Complete, ScannedAll, AllScanned, RunOver
<1> QED  BY <1>1, CertifyInvariance, PTL

(* And every document of the certifiers emitted, if nothing failed.        *)
THEOREM NoDocumentMissed == Spec => []AllEmitted
<1>1. ASSUME SafetyInv, RunOver, ~cancelled, failures = 0, NEW d \in Scannable
      PROVE  d \in emitted
  <2>1. d \in Docs
    BY CertifyAssumption DEF Scannable, Range1
  <2>2. batches[d] > 0
    <3>1. query = "ended"
      BY <1>1 DEF SafetyInv, ListInv, QueryInv, EmitInv, GetOver, PastSelect, RunStates, RunOver
    <3>2. d \in Listed
      BY <1>1, <3>1 DEF SafetyInv, ListInv, Scannable, Range1, Listed
    <3> QED  BY <1>1, <3>2 DEF SafetyInv, ScanInv, Complete, ScannedAll, RunOver
  <2>3. compChan = << >> /\ run \notin GenStates
    BY <1>1 DEF SafetyInv, EmitInv, AllTaken, RunOver, GenStates
  <2>4. ~Waiting(d) /\ ~InScan(d)
    BY <2>3 DEF Waiting, InScan
  <2> QED  BY <1>1, <2>1, <2>2, <2>4 DEF SafetyInv, EmitInv, AllKept, Calm, Scanned
<1>2. SafetyInv => AllEmitted
  BY <1>1 DEF AllEmitted
<1> QED  BY <1>2, CertifyInvariance, PTL

(* Without a retry no package is in two batches.                           *)
THEOREM NoPackageTwice == Spec => []ScannedOnce
<1>1. SafetyInv => ScannedOnce
  BY DEF SafetyInv, OnceInv, ScannedOnce
<1> QED  BY <1>1, CertifyInvariance, PTL

(* A batch is at most one package larger than the size asked for.          *)
THEOREM BatchesBounded == Spec => []BatchBound
<1>1. SafetyInv => BatchBound
  BY DEF SafetyInv, BatchInv
<1> QED  BY <1>1, CertifyInvariance, PTL

(* getPackageNodes never sends on a channel that GetComponents has closed, *)
(* unless the context is cancelled.                                        *)
THEOREM SendsOnOpen == Spec => []NoSendOnClosed
<1>1. SafetyInv => NoSendOnClosed
  BY DEF SafetyInv, QueryInv
<1> QED  BY <1>1, CertifyInvariance, PTL
=============================================================================
