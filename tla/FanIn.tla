-------------------------------- MODULE FanIn ---------------------------------
(***************************************************************************)
(* One round of the loop that takes documents and results from several     *)
(* goroutines: Collect (pkg/handler/collector/collector.go), and           *)
(* generateDocuments (pkg/certifier/certify/certify.go), which is the same *)
(* loop over certifiers.                                                   *)
(*                                                                         *)
(* Each collector sends its documents to docChan and then its result to    *)
(* errChan, which has room for all of them.  The loop selects among the    *)
(* two channels and the context; after the last result, or when the        *)
(* context is done, it drains docChan without waiting.  When handleErr     *)
(* refuses an error the loop returns at once.  What the emitter does with  *)
(* a document is left to the modules that use this one.                    *)
(*                                                                         *)
(* collectorsDone counts results; here it is the set of the collectors     *)
(* whose result was taken, of which every one sends a single result.       *)
(***************************************************************************)
EXTENDS Documents, Naturals, Sequences

CONSTANTS
  Collectors,         \* registered collectors, or certifiers
  BufferChannelSize   \* capacity of docChan

ASSUME BufferAssumption == BufferChannelSize \in Nat \ {0}

VARIABLES
  todo,        \* documents each collector has yet to send
  running,     \* collectors that have not sent their result
  docChan, errChan,
  reported,    \* collectors whose result was taken (collectorsDone)
  loop,        \* "idle", "select", "drain", or how the round ended
  cancelled,   \* ctx is done
  handleErr,   \* what the command's error handler answers to an error
  sent,        \* history: documents sent to docChan
  emitted      \* history: documents given to the emitter

fanVars == <<todo, running, docChan, errChan, reported, loop, cancelled,
             handleErr, sent, emitted>>
roundVars == <<todo, running, docChan, errChan, reported, loop>>

Results == [from : Collectors, ok : BOOLEAN]
LoopStates == {"idle", "select", "drain", "returned", "failed"}

FanTypeOK ==
  /\ todo \in [Collectors -> Seq(Docs)]
  /\ running \subseteq Collectors
  /\ docChan \in Seq(Docs)
  /\ Len(docChan) <= BufferChannelSize
  /\ errChan \in Seq(Results)
  /\ reported \subseteq Collectors
  /\ loop \in LoopStates
  /\ cancelled \in BOOLEAN
  /\ handleErr \in BOOLEAN
  /\ sent \subseteq Docs
  /\ emitted \subseteq Docs

FanIdle ==
  /\ todo = [c \in Collectors |-> << >>]
  /\ running = {}
  /\ docChan = << >>
  /\ errChan = << >>
  /\ reported = {}
  /\ loop = "idle"
  /\ cancelled = FALSE
  /\ sent = {}
  /\ emitted = {}

(* The channels are made and one goroutine is started for each collector.  *)
StartRound(work) ==
  /\ loop \in {"idle", "returned"}
  /\ todo' = work
  /\ running' = Collectors
  /\ docChan' = << >>
  /\ errChan' = << >>
  /\ reported' = {}
  /\ loop' = "select"
  /\ UNCHANGED <<cancelled, handleErr, sent, emitted>>

(* The process ends, and its goroutines and channels with it.              *)
ExitProcess ==
  /\ todo' = [c \in Collectors |-> << >>]
  /\ running' = {}
  /\ docChan' = << >>
  /\ errChan' = << >>
  /\ reported' = {}
  /\ loop' = "idle"
  /\ cancelled' = FALSE
  /\ sent' = {}
  /\ emitted' = {}
  /\ UNCHANGED handleErr

-----------------------------------------------------------------------------
(* The goroutine of a collector.                                           *)

SendDocBug(c) ==            \* a channel that never blocks its senders
  /\ c \in running
  /\ todo[c] # << >>
  /\ docChan' = Append(docChan, Head(todo[c]))
  /\ todo' = [todo EXCEPT ![c] = Tail(@)]
  /\ sent' = sent \cup {Head(todo[c])}
  /\ UNCHANGED <<running, errChan, reported, loop, cancelled, handleErr, emitted>>
SendDoc(c) ==
  /\ c \in running
  /\ todo[c] # << >>
  /\ Len(docChan) < BufferChannelSize
  /\ docChan' = Append(docChan, Head(todo[c]))
  /\ todo' = [todo EXCEPT ![c] = Tail(@)]
  /\ sent' = sent \cup {Head(todo[c])}
  /\ UNCHANGED <<running, errChan, reported, loop, cancelled, handleErr, emitted>>

(* A collector that fails returns before it has sent all its documents.    *)
EndCollector(c, ok) ==
  /\ c \in running
  /\ ok => todo[c] = << >>
  /\ running' = running \ {c}
  /\ errChan' = Append(errChan, [from |-> c, ok |-> ok])
  /\ UNCHANGED <<todo, docChan, reported, loop, cancelled, handleErr, sent, emitted>>

Cancel ==
  /\ ~cancelled
  /\ cancelled' = TRUE
  /\ UNCHANGED <<todo, running, docChan, errChan, reported, loop, handleErr,
                 sent, emitted>>

-----------------------------------------------------------------------------
(* The loop.                                                               *)

(* The first case of the select, and a turn of the draining loop.  The     *)
(* emitter's error is only logged.                                         *)
TakeDoc ==
  /\ loop \in {"select", "drain"}
  /\ docChan # << >>
  /\ docChan' = Tail(docChan)
  /\ emitted' = emitted \cup {Head(docChan)}
  /\ UNCHANGED <<todo, running, errChan, reported, loop, cancelled, handleErr, sent>>

AfterResultBug(done) ==     \* returns without draining docChan
  IF done = Collectors THEN "returned" ELSE "select"
AfterResult(done) == IF done = Collectors THEN "drain" ELSE "select"
CountsBug(result) == result.ok    \* a collector that failed is not done
Counts(result) == TRUE
TakeResult ==
  /\ loop = "select"
  /\ errChan # << >>
  /\ Head(errChan).ok \/ handleErr
  /\ errChan' = Tail(errChan)
  /\ reported' = reported \cup {r.from : r \in {x \in {Head(errChan)} : Counts(x)}}
  /\ loop' = AfterResult(reported')
  /\ UNCHANGED <<todo, running, docChan, cancelled, handleErr, sent, emitted>>

RefuseResult ==
  /\ loop = "select"
  /\ errChan # << >>
  /\ ~Head(errChan).ok
  /\ ~handleErr
  /\ errChan' = Tail(errChan)
  /\ loop' = "failed"
  /\ UNCHANGED <<todo, running, docChan, reported, cancelled, handleErr, sent, emitted>>

SeeCancel ==
  /\ loop = "select"
  /\ cancelled
  /\ loop' = "drain"
  /\ UNCHANGED <<todo, running, docChan, errChan, reported, cancelled, handleErr,
                 sent, emitted>>

Drained ==
  /\ loop = "drain"
  /\ docChan = << >>
  /\ loop' = "returned"
  /\ UNCHANGED <<todo, running, docChan, errChan, reported, cancelled, handleErr,
                 sent, emitted>>

-----------------------------------------------------------------------------
(* When the loop returns without an error and the context is not done,     *)
(* every document that a collector has sent was given to the emitter,      *)
(* whatever the order in which documents and results became available:     *)
(* a result that overtakes its collector's last documents in the select    *)
(* must not end the loop for good.                                         *)
SentEmitted ==
  loop = "returned" /\ ~cancelled => sent \subseteq emitted

(* Until then nothing gets lost between a collector and the emitter: a     *)
(* document that was sent is in the channel or was emitted.                *)
SentKept ==
  loop \in {"select", "drain"} =>
    \A d \in sent : d \in emitted \/ \E i \in DOMAIN docChan : docChan[i] = d
=============================================================================
