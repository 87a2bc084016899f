------------------------------- MODULE Certify --------------------------------
(***************************************************************************)
(* A certifier: Certify (pkg/certifier/certify/certify.go) over the        *)
(* packages of the graph that GetComponents                                *)
(* (pkg/certifier/components/root_package/root_package.go) queries.        *)
(*                                                                         *)
(* Three goroutines work at once.  getPackageNodes asks the server for the *)
(* packages, a page at a time, and sends them to nodeChan.  GetComponents  *)
(* collects them in batches, sent to compChan when they are full or when a *)
(* ticker fires; connection errors make retryWithBackoff call it again.    *)
(* runCertifier takes the batches and has the registered certifiers turn   *)
(* each of them into documents (generateDocuments, module FanIn), of which *)
(* there is one for each package here.                                     *)
(***************************************************************************)
EXTENDS FanIn, FiniteSets

CONSTANTS
  Packages,           \* the packages that need scanning, in the server's order
  GuacPackages,       \* those of type guac, which are skipped
  BatchSize,          \* packages in a page of the query
  ServiceBatchSize,   \* packages in a batch for the outside service
  MaxRetries,         \* maxRetries of retryWithBackoff
  Poll,               \* run again after an interval
  MaxFailures         \* bound on failing queries and on the cancellation

(* The server lists a package once; the commands register a certifier.     *)
ASSUME CertifyAssumption ==
  /\ Packages \in Seq(Docs)
  /\ \A i, j \in DOMAIN Packages : Packages[i] = Packages[j] => i = j
  /\ Collectors # {}
  /\ BatchSize \in Nat \ {0}
  /\ ServiceBatchSize \in Nat \ {0}
  /\ MaxRetries \in Nat \ {0}
  /\ Poll \in BOOLEAN
  /\ MaxFailures \in Nat

VARIABLES
  query,       \* getPackageNodes: "off", "fetch", "send", "ended"
  next,        \* the next package of the page in hand
  pageEnd,     \* the last package of that page
  nodeChan,    \* packages on their way, at most one
  nodeErr,     \* errChan of GetComponents
  get,         \* GetComponents: "off", "loop", "drain"
  packNodes,   \* the batch in hand
  full,        \* the batch is being sent, which waits for room in compChan
  tries,       \* calls of GetComponents by retryWithBackoff
  compChan,    \* batches for the certifiers
  runErr,      \* errChan of runCertifier
  run,         \* runCertifier, and Certify around it
  failures,    \* failures so far
  panicked,    \* a goroutine has sent on a closed channel
  batches      \* history: batches of this run, with how often they were sent

queryVars == <<query, next, pageEnd, nodeChan, nodeErr>>
getVars   == <<get, packNodes, full, tries, compChan>>
runVars   == <<runErr, run>>
histVars  == <<failures, panicked, batches>>
vars == <<fanVars, queryVars, getVars, runVars, histVars>>

Errors == {"none", "nil", "url", "other"}
RunStates == {"start", "select", "generate", "drain", "generateLeft", "failing",
              "generateFailing", "waiting", "ended", "failed"}
Range1(s) == {s[i] : i \in DOMAIN s}

CertifyTypeOK ==
  /\ FanTypeOK
  /\ query \in {"off", "fetch", "send", "ended"}
  /\ next \in 1..Len(Packages) + 1
  /\ pageEnd \in 0..Len(Packages)
  /\ nodeChan \in Seq(Docs) /\ Len(nodeChan) <= 1
  /\ nodeErr \in Errors
  /\ get \in {"off", "loop", "drain"}
  /\ packNodes \in Seq(Docs)
  /\ full \in BOOLEAN
  /\ tries \in 0..MaxRetries
  /\ compChan \in Seq(Seq(Docs)) /\ Len(compChan) <= BufferChannelSize
  /\ runErr \in Errors
  /\ run \in RunStates
  /\ failures \in 0..MaxFailures
  /\ panicked \in BOOLEAN
  /\ batches \in [Docs -> Nat]

Init ==
  /\ FanIdle
  /\ handleErr = TRUE
  /\ query = "off" /\ next = 1 /\ pageEnd = 0
  /\ nodeChan = << >> /\ nodeErr = "none"
  /\ get = "off" /\ packNodes = << >> /\ full = FALSE /\ tries = 0
  /\ compChan = << >>
  /\ runErr = "none" /\ run = "start"
  /\ failures = 0 /\ panicked = FALSE
  /\ batches = [d \in Docs |-> 0]

Misfortune == failures < MaxFailures /\ failures' = failures + 1

-----------------------------------------------------------------------------
(* getPackageNodes.                                                        *)

HasNextPage == pageEnd < Len(Packages)
PageFromBug(end) == end + BatchSize     \* does not know the last page
PageFrom(end) == IF end + BatchSize < Len(Packages) THEN end + BatchSize ELSE Len(Packages)

(* A page of the list of packages, which the first query of a call names.  *)
Fetch ==
  /\ query = "fetch"
  /\ pageEnd' = PageFrom(pageEnd)
  /\ query' = "send"
  /\ UNCHANGED <<fanVars, next, nodeChan, nodeErr, getVars, runVars, histVars>>

(* On a return nodeErr has room, unless GetComponents has closed it.       *)
EndQuery(err) ==
  /\ query' = "ended"
  /\ nodeErr' = err
  /\ panicked' = (get = "off")
(* No page: that first query fails, or the query of the page, or it is     *)
(* answered with no connection at all.  The loop takes the latter for the  *)
(* end, but the keyvalue backend also answers so when it does not find one *)
(* of the packages.                                                        *)
FetchFails(err) ==
  /\ query = "fetch"
  /\ Misfortune
  /\ EndQuery(err)
  /\ UNCHANGED <<fanVars, next, pageEnd, nodeChan, getVars, runVars, batches>>

SkipGuac ==
  /\ query = "send"
  /\ next <= pageEnd
  /\ Packages[next] \in GuacPackages
  /\ next' = next + 1
  /\ UNCHANGED <<fanVars, query, pageEnd, nodeChan, nodeErr, getVars, runVars, histVars>>

SendNode ==
  /\ query = "send"
  /\ next <= pageEnd
  /\ Packages[next] \notin GuacPackages
  /\ nodeChan = << >> \/ get = "off"
  /\ nodeChan' = <<Packages[next]>>
  /\ next' = next + 1
  /\ panicked' = (get = "off")
  /\ UNCHANGED <<fanVars, query, pageEnd, nodeErr, getVars, runVars, failures, batches>>

PageSent ==
  /\ query = "send"
  /\ next > pageEnd
  /\ \/ HasNextPage /\ query' = "fetch" /\ UNCHANGED <<nodeErr, panicked>>
     \/ ~HasNextPage /\ EndQuery("nil")
  /\ UNCHANGED <<fanVars, next, pageEnd, nodeChan, getVars, runVars, failures, batches>>

QueryStep ==
  Fetch \/ SkipGuac \/ SendNode \/ PageSent

-----------------------------------------------------------------------------
(* GetComponents, in the retry loop.                                       *)

CallGetComponents ==
  /\ query' = "fetch" /\ next' = 1 /\ pageEnd' = 0
  /\ nodeChan' = << >> /\ nodeErr' = "none"
  /\ get' = "loop" /\ packNodes' = << >> /\ full' = FALSE
  /\ tries' = tries + 1

Tick ==
  /\ get = "loop"
  /\ ~full
  /\ packNodes # << >>
  /\ full' = TRUE
  /\ UNCHANGED <<fanVars, queryVars, get, packNodes, tries, compChan, runVars, histVars>>

IsFullBug(batch) == Len(batch) > ServiceBatchSize
IsFull(batch) == Len(batch) >= ServiceBatchSize
TakeNode ==
  /\ get \in {"loop", "drain"}
  /\ ~full
  /\ nodeChan # << >>
  /\ packNodes' = Append(packNodes, Head(nodeChan))
  /\ full' = IsFull(packNodes)
  /\ nodeChan' = << >>
  /\ UNCHANGED <<fanVars, query, next, pageEnd, nodeErr, get, tries, compChan,
                 runVars, histVars>>

(* A batch counts once it is in compChan: a send to the channel is done    *)
(* when there is room, whether or not a certifier ever takes the batch.    *)
AfterSendBug(batch) == batch        \* the batch is not emptied
AfterSend(batch) == << >>
SendBatch ==
  /\ full
  /\ Len(compChan) < BufferChannelSize
  /\ compChan' = Append(compChan, packNodes)
  /\ batches' = [d \in Docs |->
                   batches[d] + Cardinality({i \in DOMAIN packNodes : packNodes[i] = d})]
  /\ packNodes' = AfterSend(packNodes)
  /\ full' = FALSE
  /\ UNCHANGED <<fanVars, queryVars, get, tries, runVars, failures, panicked>>

(* The node channel's goroutine is done; what it sent last may still be in *)
(* the channel.                                                            *)
NodesCaptured ==
  /\ get = "loop" /\ ~full
  /\ nodeErr = "nil"
  /\ get' = "drain"
  /\ nodeErr' = "none"
  /\ UNCHANGED <<fanVars, query, next, pageEnd, nodeChan, packNodes, full, tries,
                 compChan, runVars, histVars>>

(* GetComponents returns err; both channels are closed.                    *)
Return(err) ==
  IF err = "url" /\ tries < MaxRetries
  THEN CallGetComponents /\ UNCHANGED runErr
  ELSE /\ get' = "off" /\ full' = FALSE /\ packNodes' = << >>
       /\ runErr' = err
       /\ UNCHANGED <<queryVars, tries>>

QueryFailed ==
  /\ get = "loop" /\ ~full
  /\ nodeErr \in {"url", "other"}
  /\ Return(nodeErr)
  /\ UNCHANGED <<fanVars, compChan, run, histVars>>

InterruptedBug(batch) == batch # << >>    \* gives up while nodes are coming in
Interrupted(batch) == cancelled
GetCancelled ==
  /\ get = "loop" /\ ~full
  /\ Interrupted(packNodes)
  /\ Return("other")
  /\ UNCHANGED <<fanVars, compChan, run, histVars>>

LastBatch ==
  /\ get = "drain" /\ ~full
  /\ nodeChan = << >>
  /\ packNodes # << >>
  /\ full' = TRUE
  /\ UNCHANGED <<fanVars, queryVars, get, packNodes, tries, compChan, runVars, histVars>>

NothingLeftBug(nodes, batch) == nodes = << >>    \* forgets the batch in hand
NothingLeft(nodes, batch) == nodes = << >> /\ batch = << >>
AllSent ==
  /\ get = "drain" /\ ~full
  /\ NothingLeft(nodeChan, packNodes)
  /\ Return("nil")
  /\ UNCHANGED <<fanVars, compChan, run, histVars>>

GetStep == TakeNode \/ SendBatch \/ NodesCaptured \/ QueryFailed \/ GetCancelled
             \/ LastBatch \/ AllSent

-----------------------------------------------------------------------------
(* runCertifier and Certify.                                               *)

(* The select between the ticker and the context is free when both are     *)
(* ready.  The bound: no new run overlaps what a cancelled one left behind.*)
StartRun ==
  /\ run \in {"start", "waiting"}
  /\ cancelled => get = "off" /\ query \in {"off", "ended"}
  /\ run' = "select"
  /\ compChan' = << >>
  /\ runErr' = "none"
  /\ query' = "fetch" /\ next' = 1 /\ pageEnd' = 0
  /\ nodeChan' = << >> /\ nodeErr' = "none"
  /\ get' = "loop" /\ packNodes' = << >> /\ full' = FALSE
  /\ tries' = 1
  /\ batches' = [d \in Docs |-> 0]
  /\ sent' = {} /\ emitted' = {}
  /\ UNCHANGED <<todo, running, docChan, errChan, reported, loop, cancelled,
                 handleErr, failures, panicked>>

Generating(state) ==
  CASE state = "select" -> "generate"
    [] state = "drain" -> "generateLeft"
    [] state = "failing" -> "generateFailing"
Generated(state) ==
  CASE state = "generate" -> "select"
    [] state = "generateLeft" -> "drain"
    [] state = "generateFailing" -> "failing"

(* A batch goes to every certifier, which answers with a document for each *)
(* of its packages.                                                        *)
TakeBatch ==
  /\ run \in {"select", "drain", "failing"}
  /\ compChan # << >>
  /\ compChan' = Tail(compChan)
  /\ run' = Generating(run)
  /\ StartRound([c \in Collectors |-> Head(compChan)])
  /\ UNCHANGED <<queryVars, get, packNodes, full, tries, runErr, histVars>>

BatchDone ==
  /\ run \in {"generate", "generateLeft", "generateFailing"}
  /\ loop = "returned"
  /\ run' = Generated(run)
  /\ UNCHANGED <<fanVars, queryVars, getVars, runErr, histVars>>

CapturedBug(err) == err \in {"url", "other"}    \* waits for an error
Captured(err) == err # "none"
ComponentsCaptured ==
  /\ run = "select"
  /\ Captured(runErr)
  /\ run' = IF runErr = "nil" THEN "drain" ELSE "failing"
  /\ runErr' = "none"
  /\ UNCHANGED <<fanVars, queryVars, getVars, histVars>>

RunCancelled ==
  /\ run = "select"
  /\ cancelled
  /\ run' = "drain"
  /\ UNCHANGED <<fanVars, queryVars, getVars, runErr, histVars>>

AfterRun == IF Poll THEN "waiting" ELSE "ended"
NoneWaitingBug(chan) == TRUE        \* returns without draining compChan
NoneWaiting(chan) == chan = << >>
RunDone ==
  /\ run \in {"drain", "failing"}
  /\ NoneWaiting(compChan)
  /\ run' = IF run = "failing" THEN "failed" ELSE AfterRun
  /\ UNCHANGED <<fanVars, queryVars, getVars, runErr, histVars>>

PollCancelled ==
  /\ run = "waiting"
  /\ cancelled
  /\ run' = "ended"
  /\ UNCHANGED <<fanVars, queryVars, getVars, runErr, histVars>>

RunStep == StartRun \/ TakeBatch \/ BatchDone \/ ComponentsCaptured \/ RunCancelled
             \/ RunDone \/ PollCancelled

Certifying == \E c \in Collectors : SendDoc(c) \/ EndCollector(c, TRUE)
CertifierFails(c) ==
  /\ Misfortune
  /\ EndCollector(c, FALSE)
  /\ UNCHANGED <<queryVars, getVars, runVars, panicked, batches>>
FanStep == TakeDoc \/ TakeResult \/ SeeCancel \/ Drained
FanSteps == (Certifying \/ FanStep) /\ UNCHANGED <<queryVars, getVars, runVars, histVars>>

Signal ==
  /\ Misfortune
  /\ Cancel
  /\ UNCHANGED <<queryVars, getVars, runVars, panicked, batches>>

(* A panic ends the process.                                               *)
Next ==
  /\ ~panicked
  /\ \/ QueryStep
     \/ \E err \in {"url", "other", "nil"} : FetchFails(err)
     \/ Tick
     \/ GetStep
     \/ RunStep
     \/ FanSteps
     \/ \E c \in Collectors : CertifierFails(c)
     \/ Signal

Fairness ==
  /\ WF_vars(~panicked /\ QueryStep)
  /\ WF_vars(~panicked /\ GetStep)
  /\ WF_vars(~panicked /\ RunStep)
  /\ WF_vars(~panicked /\ FanSteps)

Spec == Init /\ [][Next]_vars /\ Fairness

-----------------------------------------------------------------------------
Scannable == Range1(Packages) \ GuacPackages
RunOver == run \in {"waiting", "ended"}

(* A run that ends well has sent every package that the server listed to   *)
(* the certifiers: none is left behind in a channel or in the batch in     *)
(* hand when the query ends.  An answer without a list ends it early       *)
(* (root_package.go:161).                                                  *)
Listed == {Packages[i] : i \in 1..pageEnd} \ GuacPackages
AllScanned == RunOver /\ ~cancelled => \A d \in Listed : batches[d] > 0

(* And every document of a certifier that did not fail was emitted.        *)
AllEmitted == RunOver /\ ~cancelled /\ failures = 0 => Scannable \subseteq emitted

(* Only a retry has a package scanned twice.                               *)
ScannedOnce == tries <= 1 => \A d \in Docs : batches[d] <= 1

(* A batch never outgrows the size the code lets it have, which is one     *)
(* more than the size asked for.                                           *)
BatchBound ==
  /\ Len(packNodes) <= ServiceBatchSize + 1
  /\ \A i \in DOMAIN compChan : Len(compChan[i]) \in 1..ServiceBatchSize + 1

(* The channels that GetComponents closes on its return are never sent to  *)
(* afterwards, as long as nobody cancels the context.                      *)
NoSendOnClosed == panicked => cancelled

(* A run comes to its end, whatever fails; with polling, run after run.    *)
RunEnds == []<>(run \in {"waiting", "ended", "failed"} \/ panicked)
=============================================================================
