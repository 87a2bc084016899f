----------------------------- MODULE EventStream ------------------------------
(***************************************************************************)
(* The blob store and the event stream between the collectors and the      *)
(* ingestors: Publish (pkg/handler/collector/collector.go), and the        *)
(* receiving end that Subscribe (pkg/handler/processor/process/process.go) *)
(* and GetDataFromSubscriber (pkg/emitter/emitter.go) use.                 *)
(*                                                                         *)
(* A document is stored under the hash of its blob, and an event with that *)
(* key is sent.  The stream keeps a message until it is acknowledged: a    *)
(* message that was delivered and not acknowledged in time is delivered    *)
(* again, perhaps while it is still being worked on.                       *)
(***************************************************************************)
EXTENDS Documents, Naturals, Sequences

CONSTANTS
  Keys,       \* hashes of blobs
  KeyOf,      \* the key of each document; two documents may share a blob
  NoDoc,      \* nothing stored under a key
  MaxEvents   \* bound on the number of messages sent

ASSUME EventAssumption ==
  /\ KeyOf \in [Docs -> Keys]
  /\ NoDoc \notin Docs
  /\ MaxEvents \in Nat

VARIABLES
  blobs,    \* the blob store
  stream    \* all messages sent, with what became of them

streamVars == <<blobs, stream>>

Messages == [key : Keys, state : {"ready", "out", "acked"}]

StreamTypeOK ==
  /\ blobs \in [Keys -> Docs \cup {NoDoc}]
  /\ stream \in Seq(Messages)
  /\ Len(stream) <= MaxEvents

StreamInit ==
  /\ blobs = [k \in Keys |-> NoDoc]
  /\ stream = << >>

WriteBlob(d) == blobs' = [blobs EXCEPT ![KeyOf[d]] = d]
Send(d) ==
  /\ Len(stream) < MaxEvents
  /\ stream' = Append(stream, [key |-> KeyOf[d], state |-> "ready"])

(* How far Publish gets: an error of the store ends it, then an error of   *)
(* the stream; closing the topic can fail after the message was sent.      *)
Published(d) == WriteBlob(d) /\ Send(d)
NotWrittenBug(d) == Send(d) /\ UNCHANGED blobs    \* sends its key all the same
NotWritten(d) == UNCHANGED streamVars
NotSent(d) == WriteBlob(d) /\ UNCHANGED stream
NotClosed(d) == WriteBlob(d) /\ Send(d)
PublishFails(d) == NotWritten(d) \/ NotSent(d) \/ NotClosed(d)

SetState(m, s) == stream' = [stream EXCEPT ![m].state = s] /\ UNCHANGED blobs

Deliver(m) == stream[m].state = "ready" /\ SetState(m, "out")
Ack(m) == SetState(m, "acked")
UnansweredBug(m) == FALSE          \* a stream that delivers a message once
Unanswered(m) == stream[m].state = "out"
Redeliver(m) == Unanswered(m) /\ SetState(m, "ready")

(* A message leads to a document: the blob is stored before its key is     *)
(* sent, by every publisher and after every failure.                       *)
EventsReadable == \A m \in DOMAIN stream : blobs[stream[m].key] # NoDoc
=============================================================================
