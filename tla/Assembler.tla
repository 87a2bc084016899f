------------------------------ MODULE Assembler -------------------------------
(***************************************************************************)
(* The ingestion of documents: Ingest (pkg/ingestor/ingestor.go) with the  *)
(* bulk assembler (pkg/assembler/clients/helpers/bulk.go), run by several  *)
(* workers at once, each with one document at a time.                      *)
(*                                                                         *)
(* The parser makes a predicate of each node of the document's tree.  They *)
(* are ingested one after the other, and each calls for GraphQL mutations  *)
(* in a fixed order: the nouns (packages, sources, ...), whose failure     *)
(* ends the ingestion, and the verbs about them, whose failure is logged   *)
(* and remembered while the next verb is tried.  The error of the last     *)
(* verb that failed is returned.  The mutations are idempotent (modules    *)
(* PkgTrie and PkgLinks): the graph is the set of facts ingested.  A verb  *)
(* HasSBOM lists the dependencies and occurrences that this ingestion of   *)
(* its predicate got IDs for, and those lists are part of its key.         *)
(*                                                                         *)
(* A mutation fails by a connection error (an url.Error) or otherwise      *)
(* ("refused": the server's error, an answer that cannot be read).  Either *)
(* way it may have taken effect, or a part of it may: its answer is lost,  *)
(* the resolver ingests the elements of its list at once, and some verbs   *)
(* are several mutations.                                                  *)
(***************************************************************************)
EXTENDS Documents, Naturals, Sequences

CONSTANTS
  Workers,      \* goroutines that ingest documents
  Predicates,   \* each document's predicates, as the mutations they call for
  MaxFailures   \* bound on failing mutations and crashes

Nouns == <<"Packages", "Sources", "Artifacts", "Materials", "Builders",
           "Vulnerabilities", "Licenses">>
Verbs == <<"CertifyScorecard", "IsDependency", "IsOccurrence", "HasSlsa",
           "CertifyVuln", "VulnMetadata", "VulnEqual", "HasSourceAt",
           "CertifyBad", "CertifyGood", "PointOfContact", "HasMetadata",
           "HasSBOM", "Vex", "HashEqual", "PkgEqual", "CertifyLegal">>
NounSet == {Nouns[i] : i \in DOMAIN Nouns}
VerbSet == {Verbs[i] : i \in DOMAIN Verbs}
Mutations == NounSet \cup VerbSet
Includable == {"IsDependency", "IsOccurrence"}

(* The code sends all of the nouns for every predicate, also the empty     *)
(* ones, and the verbs of which the predicate has some.                    *)
ASSUME PredicatesAssumption ==
  /\ Predicates \in [Docs -> Seq((SUBSET Mutations) \ {{}}) \ {<< >>}]
  /\ MaxFailures \in Nat

(* Pairs of mutations of a predicate, the first of which is sent before    *)
(* the second.                                                             *)
Before ==
  LET Pairs(s) == {<<s[p[1]], s[p[2]]>> :
                     p \in {q \in (DOMAIN s) \X (DOMAIN s) : q[1] < q[2]}}
  IN (NounSet \X VerbSet) \cup Pairs(Nouns) \cup Pairs(Verbs)

Failures == {"connection", "refused", "rejected"}
NoJob == [doc |-> "none"]
Jobs  == [doc : Docs, pred : Nat, calls : SUBSET Mutations,
          err : Failures \cup {"none"}, includes : SUBSET Includable]
Facts == [doc : Docs, pred : Nat, mutation : Mutations, includes : SUBSET Includable,
          whole : BOOLEAN]

VARIABLES
  job,       \* each worker's document, and what is left of its predicate
  graph,     \* facts in the graph database
  failed,    \* history: pairs of a document and a kind of failure it met
  failures   \* number of failures so far

assemblerVars == <<job, graph, failed, failures>>

AssemblerTypeOK ==
  /\ job \in [Workers -> Jobs \cup {NoJob}]
  /\ graph \subseteq Facts
  /\ failed \subseteq Docs \X Failures
  /\ failures \in 0..MaxFailures

AssemblerInit ==
  /\ job = [w \in Workers |-> NoJob]
  /\ graph = {}
  /\ failed = {}
  /\ failures = 0

Idle(w)     == job[w] = NoJob
Finished(w) == ~Idle(w) /\ job[w].calls = {}

NewJob(d, calls, err) ==
  [doc |-> d, pred |-> 1, calls |-> calls, err |-> err, includes |-> {}]

(* The document was processed and parsed.  Entries for the collectsub      *)
(* service are sent then; whether that succeeds changes nothing here.      *)
StartIngest(w, d) ==
  /\ job' = [job EXCEPT ![w] = NewJob(d, Predicates[d][1], "none")]
  /\ UNCHANGED <<graph, failed, failures>>

(* The processor or the parser rejects the document.  Its error is passed  *)
(* on as text, so that no caller takes it for a connection error.          *)
RejectDoc(w, d) ==
  /\ failures < MaxFailures
  /\ failures' = failures + 1
  /\ failed' = failed \cup {<<d, "rejected">>}
  /\ job' = [job EXCEPT ![w] = NewJob(d, {}, "rejected")]
  /\ UNCHANGED graph

Due(w, m) == m \in job[w].calls /\ \A n \in job[w].calls : <<n, m>> \notin Before
Fact(j, m, whole) ==
  [doc |-> j.doc, pred |-> j.pred, mutation |-> m,
   includes |-> IF m = "HasSBOM" THEN j.includes ELSE {}, whole |-> whole]

(* The loop over the predicates: the lists of IDs are new in each turn,    *)
(* the error is kept.                                                      *)
Goes(j) == j.calls = {} /\ j.pred < Len(Predicates[j.doc])
NextPredicateBug(j) ==    \* the lists of IDs are declared outside of the loop
  IF ~Goes(j) THEN j
  ELSE [j EXCEPT !.pred = @ + 1, !.calls = Predicates[j.doc][j.pred + 1]]
NextPredicate(j) ==
  IF ~Goes(j) THEN j
  ELSE [j EXCEPT !.pred = @ + 1, !.calls = Predicates[j.doc][j.pred + 1], !.includes = {}]

Kept(m) == {m} \cap Includable
Done(j, m) == [j EXCEPT !.calls = @ \ {m}, !.includes = @ \cup Kept(m)]
Succeed(w, m) ==
  /\ graph' = graph \cup {Fact(job[w], m, TRUE)}
  /\ job' = [job EXCEPT ![w] = NextPredicate(Done(@, m))]
  /\ UNCHANGED <<failed, failures>>

CallsAfterBug(calls, m) == calls \ {m}    \* verbs are sent although a noun failed
CallsAfter(calls, m) == IF m \in NounSet THEN {} ELSE calls \ {m}
Failing(j, m, err) == [j EXCEPT !.calls = CallsAfter(@, m), !.err = err]
Fail(w, m, err) ==
  /\ failures < MaxFailures
  /\ failures' = failures + 1
  /\ failed' = failed \cup {<<job[w].doc, err>>}
  /\ LET j == Failing(job[w], m, err)
     IN  job' = [job EXCEPT ![w] = IF m \in NounSet THEN j ELSE NextPredicate(j)]
  /\ \/ UNCHANGED graph
     \/ \E whole \in BOOLEAN : graph' = graph \cup {Fact(job[w], m, whole)}

Mutate(w) ==
  /\ ~Idle(w)
  /\ \E m \in job[w].calls :
       /\ Due(w, m)
       /\ Succeed(w, m) \/ \E err \in {"connection", "refused"} : Fail(w, m, err)

-----------------------------------------------------------------------------
FullIncludes(d, p, m) == IF m = "HasSBOM" THEN Predicates[d][p] \cap Includable ELSE {}
FullFact(d, p, m) ==
  [doc |-> d, pred |-> p, mutation |-> m, includes |-> FullIncludes(d, p, m), whole |-> TRUE]
Complete(d) ==
  \A p \in DOMAIN Predicates[d] : \A m \in Predicates[d][p] : FullFact(d, p, m) \in graph

(* Evidence, also a part of it, is in the graph only with all the nodes of *)
(* its own predicate and of the predicates before it: no verb is sent      *)
(* after a noun has failed.  The nodes of later predicates may be missing, *)
(* since they are sent after it.                                           *)
VerbsHaveNouns ==
  \A f \in graph : f.mutation \in VerbSet =>
    \A p \in 1..f.pred : \A n \in Predicates[f.doc][p] \cap NounSet :
      FullFact(f.doc, p, n) \in graph

(* An SBOM that misses dependencies or occurrences of its predicate, or    *)
(* has some of another one's, or a second SBOM for it, is in the graph     *)
(* only if the document failed; redelivery and concurrent ingestion alone  *)
(* do no harm.                                                             *)
SBOMOnce ==
  \A f \in graph : f.mutation = "HasSBOM" =>
    \/ f.includes = Predicates[f.doc][f.pred] \cap Includable
    \/ \E err \in Failures : <<f.doc, err>> \in failed
=============================================================================
