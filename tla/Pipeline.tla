------------------------------- MODULE Pipeline -------------------------------
(***************************************************************************)
(* From the collectors to the graph, in the two forms the commands have:   *)
(*                                                                         *)
(*  - guaccollect collects and publishes, and any number of guacingest     *)
(*    processes subscribe and ingest (cmd/guaccollect/cmd/files.go,        *)
(*    cmd/guacingest/cmd/ingest.go).  A document that cannot be published  *)
(*    ends the collecting process; somebody starts it again.               *)
(*  - guacone collects and ingests in one loop (cmd/guacone/cmd/files.go). *)
(*                                                                         *)
(* FanIn is the loop of Collect, EventStream the way of a document through *)
(* the blob store and the queue, Assembler its ingestion.                  *)
(***************************************************************************)
EXTENDS FanIn, EventStream, Assembler

CONSTANTS
  Main,        \* the worker that is guacone's own loop
  Work,        \* documents that each collector finds
  MaxStarts    \* bound on the starts of the collecting process

ASSUME WorkAssumption ==
  /\ Main \in Workers
  /\ Work \in [Collectors -> Seq(Docs)]
  /\ MaxStarts \in Nat

VARIABLES
  command,     \* "guaccollect" or "guacone"
  holds,       \* the message a subscriber works on, 0 for none
  starts,      \* starts of the collecting process
  withErrors   \* filesWithErrors: documents guacone could not ingest

pipeVars == <<command, holds, starts, withErrors>>
vars == <<fanVars, streamVars, assemblerVars, pipeVars>>

PipeTypeOK ==
  /\ FanTypeOK
  /\ StreamTypeOK
  /\ AssemblerTypeOK
  /\ command \in {"guaccollect", "guacone"}
  /\ holds \in [Workers -> 0..MaxEvents]
  /\ \A w \in Workers : holds[w] # 0 => holds[w] \in DOMAIN stream
  /\ starts \in 0..MaxStarts
  /\ withErrors \subseteq Docs

Init ==
  /\ FanIdle
  /\ StreamInit
  /\ AssemblerInit
  /\ command \in {"guaccollect", "guacone"}
  /\ handleErr = (command = "guaccollect")
  /\ holds = [w \in Workers |-> 0]
  /\ starts = 0
  /\ withErrors = {}

Start ==
  /\ loop = "idle"
  /\ starts < MaxStarts
  /\ starts' = starts + 1
  /\ StartRound(Work)
  /\ UNCHANGED <<streamVars, assemblerVars, command, holds, withErrors>>

Collecting(c) ==
  /\ SendDoc(c) \/ EndCollector(c, TRUE)
  /\ UNCHANGED <<streamVars, assemblerVars, pipeVars>>

(* What goes wrong, on both sides of the stream, is counted and bounded.   *)
Misfortune ==
  /\ failures < MaxFailures
  /\ failures' = failures + 1

CollectorFails(c) ==
  /\ Misfortune
  /\ EndCollector(c, FALSE)
  /\ UNCHANGED <<streamVars, job, graph, failed, pipeVars>>

(* A signal ends guaccollect's context; guacone knows no such thing.       *)
Signal ==
  /\ command = "guaccollect"
  /\ loop # "idle"
  /\ Misfortune
  /\ Cancel
  /\ UNCHANGED <<streamVars, job, graph, failed, pipeVars>>

(* The loop waits for the emitter, which in guacone ingests.               *)
LoopFree == command = "guacone" => Idle(Main)
Turn ==
  /\ LoopFree
  /\ TakeResult \/ RefuseResult \/ SeeCancel \/ Drained
  /\ UNCHANGED <<streamVars, assemblerVars, pipeVars>>

EmitPublish ==
  /\ command = "guaccollect"
  /\ TakeDoc
  /\ Published(Head(docChan))
  /\ UNCHANGED <<assemblerVars, pipeVars>>

(* The emitter's Fatalf.                                                   *)
EmitFails ==
  /\ command = "guaccollect"
  /\ loop \in {"select", "drain"}
  /\ docChan # << >>
  /\ Misfortune
  /\ PublishFails(Head(docChan))
  /\ ExitProcess
  /\ UNCHANGED <<job, graph, failed, pipeVars>>

EmitIngest ==
  /\ command = "guacone"
  /\ LoopFree
  /\ TakeDoc
  /\ StartIngest(Main, Head(docChan)) \/ RejectDoc(Main, Head(docChan))
  /\ UNCHANGED <<streamVars, pipeVars>>

ReportsBug(j) == j.err = "connection"    \* other errors are only logged
Reports(j) == j.err # "none"
EmitIngested ==
  /\ command = "guacone"
  /\ Finished(Main)
  /\ job' = [job EXCEPT ![Main] = NoJob]
  /\ withErrors' = withErrors \cup {j.doc : j \in {x \in {job[Main]} : Reports(x)}}
  /\ UNCHANGED <<fanVars, streamVars, graph, failed, failures, command, holds, starts>>

-----------------------------------------------------------------------------
(* The subscribers.                                                        *)

Receive(w, m) ==
  /\ Idle(w)
  /\ command = "guaccollect"
  /\ Deliver(m)
  /\ LET d == blobs[stream[m].key]
     IN  StartIngest(w, d) \/ RejectDoc(w, d)
  /\ holds' = [holds EXCEPT ![w] = m]
  /\ UNCHANGED <<fanVars, command, starts, withErrors>>

(* The blob cannot be read now: logged, and the message stays unanswered.  *)
ReceiveUnread(w, m) ==
  /\ Idle(w)
  /\ Deliver(m)
  /\ Misfortune
  /\ UNCHANGED <<fanVars, job, graph, failed, pipeVars>>

Working(w) == Mutate(w) /\ UNCHANGED <<fanVars, streamVars, pipeVars>>

(* The emit function of guacingest answers with an error, and the message  *)
(* is not acknowledged, only if the ingestion's error is an url.Error.     *)
AcknowledgesBug(j) == TRUE    \* acknowledged whatever the emitter answers
Acknowledges(j) == j.err # "connection"
FinishMessage(w) ==
  /\ holds[w] # 0
  /\ Finished(w)
  /\ IF Acknowledges(job[w]) THEN Ack(holds[w]) ELSE UNCHANGED streamVars
  /\ job' = [job EXCEPT ![w] = NoJob]
  /\ holds' = [holds EXCEPT ![w] = 0]
  /\ UNCHANGED <<fanVars, graph, failed, failures, command, starts, withErrors>>

(* A guacingest process dies, also between its last mutation and the       *)
(* acknowledgement, and is started again.                                  *)
CrashIngest(w) ==
  /\ holds[w] # 0
  /\ Misfortune
  /\ job' = [job EXCEPT ![w] = NoJob]
  /\ holds' = [holds EXCEPT ![w] = 0]
  /\ UNCHANGED <<fanVars, streamVars, graph, failed, command, starts, withErrors>>

Timeout(m) == Redeliver(m) /\ UNCHANGED <<fanVars, assemblerVars, pipeVars>>

CollectStep ==
  Start \/ (\E c \in Collectors : Collecting(c)) \/ Turn \/ EmitPublish
    \/ EmitIngest \/ EmitIngested
IngestStep(w) ==
  Working(w) \/ FinishMessage(w) \/ \E m \in DOMAIN stream : Receive(w, m)

Next ==
  \/ CollectStep
  \/ \E c \in Collectors : CollectorFails(c)
  \/ Signal
  \/ EmitFails
  \/ \E w \in Workers :
       IngestStep(w) \/ CrashIngest(w) \/ \E m \in DOMAIN stream : ReceiveUnread(w, m)
  \/ \E m \in DOMAIN stream : Timeout(m)

(* Goroutines run, the select of a loop is answered, subscribers ask for   *)
(* messages, and the stream delivers again what was not acknowledged.      *)
Fairness ==
  /\ WF_vars(CollectStep)
  /\ WF_vars(\E w \in Workers : IngestStep(w))
  /\ WF_vars(\E m \in DOMAIN stream : Timeout(m))

Spec == Init /\ [][Next]_vars /\ Fairness

-----------------------------------------------------------------------------
Acked(m) == stream[m].state = "acked"
DocsOf(k) == {d \in Docs : KeyOf[d] = k}
IngestedKey(k) == \E d \in DocsOf(k) : Complete(d)
RejectedKey(k) == \E d \in DocsOf(k) : <<d, "rejected">> \in failed
RefusedKey(k)  == \E d \in DocsOf(k) : <<d, "refused">> \in failed

(* A message that was acknowledged led to a complete ingestion, unless its *)
(* document was rejected or a mutation failed by another error than the    *)
(* connection's: lost connections, crashes and redeliveries never lose a   *)
(* document.                                                               *)
ConnectionsLoseNothing ==
  \A m \in DOMAIN stream :
    LET k == stream[m].key
    IN  Acked(m) => IngestedKey(k) \/ RejectedKey(k) \/ RefusedKey(k)

(* When guacone returns, each document it collected is in the graph or is  *)
(* listed among the files with errors.                                     *)
OneReports ==
  command = "guacone" /\ loop = "returned" /\ LoopFree =>
    \A d \in sent : Complete(d) \/ d \in withErrors

(* Every message that was sent is acknowledged in the end.                 *)
SentAcked == <>[](\A m \in DOMAIN stream : Acked(m))

(* Collect returns, also when a channel was full, when several collectors  *)
(* end at once, and after a cancellation.                                  *)
CollectReturns == <>[](loop \in {"returned", "failed", "idle"})
=============================================================================
