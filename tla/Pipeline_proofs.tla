--------------------------- MODULE Pipeline_proofs ----------------------------
(***************************************************************************)
(* The safety of Pipeline, for any number of collectors, documents,        *)
(* workers, messages, starts and failures, and any capacity of docChan.    *)
(*                                                                         *)
(* Every step of the pipeline is a step of the loop (FanMove), of the      *)
(* stream (StreamMove) and of the assembler (AssemblerMove), or leaves     *)
(* them alone; what those steps preserve is proved once for each.  What    *)
(* remains are the facts that relate the three.                            *)
(***************************************************************************)
EXTENDS Pipeline, FanIn_proofs, TLAPS

-----------------------------------------------------------------------------
(* The assembler.                                                          *)

(* Nouns come before verbs, and an SBOM after what it includes.            *)
LEMMA NounsFirst ==
  ASSUME NEW n \in NounSet, NEW m \in VerbSet
  PROVE  <<n, m>> \in Before
BY DEF Before

LEMMA IncludedFirst ==
  ASSUME NEW m \in Includable
  PROVE  <<m, "HasSBOM">> \in Before
<1>1. DOMAIN Verbs = 1..17
  BY DEF Verbs
<1>2. Verbs[2] = "IsDependency" /\ Verbs[3] = "IsOccurrence" /\ Verbs[13] = "HasSBOM"
  BY DEF Verbs
<1>3. PICK k \in {2, 3} : Verbs[k] = m
  BY <1>2 DEF Includable
<1>4. <<k, 13>> \in {q \in (DOMAIN Verbs) \X (DOMAIN Verbs) : q[1] < q[2]}
  BY <1>1
<1> QED  BY <1>2, <1>3, <1>4 DEF Before

LEMMA NounsAreNoSBOM == "HasSBOM" \notin NounSet
<1>1. DOMAIN Nouns = 1..7
  BY DEF Nouns
<1>2. ASSUME NEW i \in 1..7  PROVE Nouns[i] # "HasSBOM"
  BY <1>2 DEF Nouns
<1> QED  BY <1>1, <1>2 DEF NounSet

LEMMA JobsAreBusy ==
  ASSUME NEW j \in Jobs
  PROVE  j # NoJob
BY DEF Jobs, NoJob

-----------------------------------------------------------------------------
(* A document has predicates, and each of them mutations.                  *)
LEMMA PredicatesThere ==
  ASSUME NEW d \in Docs
  PROVE  /\ Len(Predicates[d]) \in Nat \ {0}
         /\ DOMAIN Predicates[d] = 1..Len(Predicates[d])
         /\ \A p \in 1..Len(Predicates[d]) :
              Predicates[d][p] \subseteq Mutations /\ Predicates[d][p] # {}
<1>1. Predicates[d] \in Seq((SUBSET Mutations) \ {{}}) /\ Predicates[d] # << >>
  BY PredicatesAssumption
<1> QED  BY <1>1

(* What is known of a job j when the graph is g and the failures are f.    *)
(* While nothing has failed, what is not left to do of its predicate, and  *)
(* all of the earlier ones, is in the graph as it should be.               *)
JobPart(j, g, f) ==
  /\ j.pred \in 1..Len(Predicates[j.doc])
  /\ j.calls \subseteq Predicates[j.doc][j.pred]
  /\ j.err = "none" =>
       /\ \A p \in 1..(j.pred - 1) :
            \A m \in Predicates[j.doc][p] : FullFact(j.doc, p, m) \in g
       /\ \A m \in Predicates[j.doc][j.pred] \ j.calls : FullFact(j.doc, j.pred, m) \in g
       /\ j.includes = (Predicates[j.doc][j.pred] \cap Includable) \ j.calls
  /\ j.err # "none" => <<j.doc, j.err>> \in f

(* As long as something is left of the document, the nouns of the earlier  *)
(* predicates are in the graph, and those of this one that are not left,   *)
(* even after a failure.                                                   *)
NounsIn(j, g) ==
  \A p \in 1..j.pred : \A n \in Predicates[j.doc][p] \cap NounSet :
    (p = j.pred /\ n \in j.calls) \/ FullFact(j.doc, p, n) \in g

JobInv(j, g, f) ==
  /\ JobPart(j, g, f)
  /\ j.calls # {} => NounsIn(j, g)
  /\ j.err = "none" /\ j.calls = {} => j.pred = Len(Predicates[j.doc])

AssemblerInv ==
  /\ \A w \in Workers : ~Idle(w) => JobInv(job[w], graph, failed)
  /\ VerbsHaveNouns
  /\ SBOMOnce

LEMMA JobInvGrows ==
  ASSUME NEW j, NEW g, NEW f, NEW g2, NEW f2, g \subseteq g2, f \subseteq f2,
         JobInv(j, g, f)
  PROVE  JobInv(j, g2, f2)
BY DEF JobInv, JobPart, NounsIn

(* The loop goes on to the next predicate, if this one is through.         *)
LEMMA NextInv ==
  ASSUME NEW j \in Jobs, NEW g, NEW f, JobPart(j, g, f), NounsIn(j, g)
  PROVE  /\ NextPredicate(j) \in Jobs
         /\ NextPredicate(j).doc = j.doc
         /\ JobInv(NextPredicate(j), g, f)
<1>1. /\ j.doc \in Docs /\ j.pred \in 1..Len(Predicates[j.doc])
      /\ Len(Predicates[j.doc]) \in Nat
  BY PredicatesThere DEF Jobs, JobPart
<1>2. CASE ~Goes(j)
  <2>1. NextPredicate(j) = j
    BY <1>2 DEF NextPredicate
  <2>2. j.calls = {} => j.pred = Len(Predicates[j.doc])
    BY <1>1, <1>2 DEF Goes
  <2> QED  BY <2>1, <2>2 DEF JobInv
<1>3. CASE Goes(j)
  <2> DEFINE q == j.pred + 1
             k == [j EXCEPT !.pred = @ + 1, !.calls = Predicates[j.doc][j.pred + 1],
                            !.includes = {}]
  <2>1. q \in 1..Len(Predicates[j.doc]) /\ q - 1 = j.pred /\ j.calls = {}
    BY <1>1, <1>3 DEF Goes
  <2>2. Predicates[j.doc][q] \subseteq Mutations /\ Predicates[j.doc][q] # {}
    BY <1>1, <2>1, PredicatesThere
  <2>3. k \in Jobs
    <3>1. q \in Nat
      BY <2>1
    <3>2. \A c \in SUBSET Mutations :
            [j EXCEPT !.pred = q, !.calls = c, !.includes = {}] \in Jobs
      BY <3>1 DEF Jobs
    <3> QED  BY <2>2, <3>2
  <2>4. /\ k.doc = j.doc /\ k.pred = q /\ k.calls = Predicates[j.doc][q]
        /\ k.err = j.err /\ k.includes = {}
    BY DEF Jobs
  <2>5. NextPredicate(j) = k
    BY <1>3 DEF NextPredicate
  <2> HIDE DEF k
  <2>6. JobPart(k, g, f)
    <3>1. ASSUME j.err = "none", NEW p \in 1..(q - 1), NEW m \in Predicates[j.doc][p]
          PROVE  FullFact(j.doc, p, m) \in g
      <4>1. p = j.pred \/ p \in 1..(j.pred - 1)
        BY <1>1, <2>1
      <4> QED  BY <2>1, <3>1, <4>1 DEF JobPart
    <3> QED  BY <2>1, <2>4, <3>1 DEF JobPart
  <2>7. NounsIn(k, g)
    <3> SUFFICES ASSUME NEW p \in 1..q, NEW n \in Predicates[j.doc][p] \cap NounSet
                 PROVE  (p = q /\ n \in k.calls) \/ FullFact(j.doc, p, n) \in g
      BY <2>4 DEF NounsIn
    <3>1. p = q \/ p \in 1..j.pred
      BY <1>1, <2>1
    <3> QED  BY <2>1, <2>4, <3>1 DEF NounsIn
  <2> QED  BY <2>2, <2>3, <2>4, <2>5, <2>6, <2>7 DEF JobInv
<1> QED  BY <1>2, <1>3

LEMMA AssemblerInitInv ==
  ASSUME AssemblerInit
  PROVE  AssemblerTypeOK /\ AssemblerInv
BY PredicatesAssumption
DEF AssemblerInit, AssemblerTypeOK, AssemblerInv, Idle, VerbsHaveNouns, SBOMOnce

(* A job is set, or dropped; mutations are made; or nothing but the count  *)
(* of failures changes.                                                    *)
Sets(w, d) == StartIngest(w, d) \/ RejectDoc(w, d)
Drops(w) ==
  /\ job' = [job EXCEPT ![w] = NoJob]
  /\ UNCHANGED <<graph, failed>>
  /\ failures' \in 0..MaxFailures
CountsOnly == UNCHANGED <<job, graph, failed>> /\ failures' \in 0..MaxFailures
AssemblerMove ==
  \/ \E w \in Workers, d \in Docs : Sets(w, d)
  \/ \E w \in Workers : Drops(w) \/ Mutate(w)
  \/ CountsOnly

(* What a job that mutates is like, and the facts that it may add.         *)
LEMMA Mutating ==
  ASSUME AssemblerTypeOK, AssemblerInv,
         NEW w \in Workers, ~Idle(w), NEW m \in job[w].calls, Due(w, m)
  PROVE  /\ job[w] \in Jobs /\ job[w].doc \in Docs
         /\ JobPart(job[w], graph, failed) /\ NounsIn(job[w], graph)
         /\ \A whole \in BOOLEAN : Fact(job[w], m, whole) \in Facts
         /\ m = "HasSBOM" /\ job[w].err = "none" =>
              job[w].includes = Predicates[job[w].doc][job[w].pred] \cap Includable
         /\ m \in NounSet \/ job[w].err = "none" =>
              Fact(job[w], m, TRUE) = FullFact(job[w].doc, job[w].pred, m)
         /\ m \in VerbSet =>
              \A p \in 1..job[w].pred : \A n \in Predicates[job[w].doc][p] \cap NounSet :
                FullFact(job[w].doc, p, n) \in graph
<1>1. job[w] \in Jobs /\ JobInv(job[w], graph, failed)
  BY DEF AssemblerTypeOK, AssemblerInv, Idle
<1>2. JobPart(job[w], graph, failed) /\ NounsIn(job[w], graph)
  BY <1>1 DEF JobInv
<1>3. /\ job[w].doc \in Docs /\ job[w].pred \in Nat /\ m \in Mutations
      /\ job[w].includes \subseteq Includable
  BY <1>1 DEF Jobs
<1>4. ASSUME NEW whole \in BOOLEAN  PROVE Fact(job[w], m, whole) \in Facts
  BY <1>3 DEF Fact, Facts
<1>5. ASSUME m = "HasSBOM", job[w].err = "none"
      PROVE  job[w].includes = Predicates[job[w].doc][job[w].pred] \cap Includable
  <2>1. job[w].calls \cap Includable = {}
    BY <1>5, IncludedFirst DEF Due
  <2> QED  BY <1>2, <1>5, <2>1 DEF JobPart
<1>6. ASSUME m \in NounSet \/ job[w].err = "none"
      PROVE  Fact(job[w], m, TRUE) = FullFact(job[w].doc, job[w].pred, m)
  <2>1. m \in NounSet => m # "HasSBOM"
    BY NounsAreNoSBOM
  <2> QED  BY <1>5, <1>6, <2>1 DEF Fact, FullFact, FullIncludes
<1>7. ASSUME m \in VerbSet, NEW p \in 1..job[w].pred,
             NEW n \in Predicates[job[w].doc][p] \cap NounSet
      PROVE  FullFact(job[w].doc, p, n) \in graph
  <2>1. n \notin job[w].calls
    BY <1>7, NounsFirst DEF Due
  <2> QED  BY <1>2, <1>7, <2>1 DEF NounsIn
<1> QED  BY <1>1, <1>2, <1>3, <1>4, <1>5, <1>6, <1>7

(* The graph grows by such a fact at most, and the job goes on to j.       *)
LEMMA MutatedInv ==
  ASSUME AssemblerTypeOK, AssemblerInv,
         NEW w \in Workers, ~Idle(w), NEW m \in job[w].calls, Due(w, m),
         NEW j \in Jobs, job' = [job EXCEPT ![w] = j],
         NEW whole \in BOOLEAN,
         graph' = graph \/ graph' = graph \cup {Fact(job[w], m, whole)},
         failed \subseteq failed', failed' \subseteq Docs \X Failures,
         failures' \in 0..MaxFailures,
         JobInv(j, graph', failed')
  PROVE  AssemblerTypeOK' /\ AssemblerInv' /\ graph \subseteq graph'
<1> DEFINE x == Fact(job[w], m, whole)
<1>1. x \in Facts /\ job[w] \in Jobs
  BY Mutating
<1>2. graph \subseteq graph' /\ graph' \subseteq Facts
  BY <1>1 DEF AssemblerTypeOK
<1>3. AssemblerTypeOK'
  BY <1>2 DEF AssemblerTypeOK
<1>4. ASSUME NEW v \in Workers, ~Idle(v)'  PROVE JobInv(job[v], graph, failed)'
  <2>1. CASE v = w
    BY <2>1 DEF AssemblerTypeOK
  <2>2. CASE v # w
    <3>1. job'[v] = job[v] /\ ~Idle(v)
      BY <1>4, <2>2 DEF Idle
    <3>2. JobInv(job[v], graph, failed)
      BY <3>1 DEF AssemblerInv
    <3>3. JobInv(job[v], graph', failed')
      BY <1>2, <3>2, JobInvGrows
    <3> QED  BY <3>1, <3>3
  <2> QED  BY <2>1, <2>2
<1>5. /\ x.doc = job[w].doc /\ x.pred = job[w].pred /\ x.mutation = m
      /\ m = "HasSBOM" => x.includes = job[w].includes
  BY DEF Fact
<1> HIDE DEF x
<1>6. VerbsHaveNouns'
  <2> SUFFICES ASSUME NEW f \in graph', f.mutation \in VerbSet, NEW p \in 1..f.pred,
                      NEW n \in Predicates[f.doc][p] \cap NounSet
               PROVE  FullFact(f.doc, p, n) \in graph'
    BY DEF VerbsHaveNouns
  <2>1. f \in graph \/ f = x
    BY DEF x
  <2>2. CASE f \in graph
    BY <1>2, <2>2 DEF AssemblerInv, VerbsHaveNouns
  <2>3. CASE f = x
    BY <1>2, <1>5, <2>3, Mutating
  <2> QED  BY <2>1, <2>2, <2>3
<1>7. SBOMOnce'
  <2> SUFFICES ASSUME NEW f \in graph', f.mutation = "HasSBOM"
               PROVE  \/ f.includes = Predicates[f.doc][f.pred] \cap Includable
                      \/ \E err \in Failures : <<f.doc, err>> \in failed'
    BY DEF SBOMOnce
  <2>1. f \in graph \/ f = x
    BY DEF x
  <2>2. CASE f \in graph
    BY <2>2 DEF AssemblerInv, SBOMOnce
  <2>3. CASE f = x
    <3>1. job[w].err \in Failures \cup {"none"}
      BY <1>1 DEF Jobs
    <3>2. job[w].err # "none" => <<job[w].doc, job[w].err>> \in failed
      BY Mutating DEF JobPart
    <3> QED  BY <1>5, <2>3, <3>1, <3>2, Mutating
  <2> QED  BY <2>1, <2>2, <2>3
<1> QED  BY <1>2, <1>3, <1>4, <1>6, <1>7 DEF AssemblerInv

(* A worker succeeds: nothing is lost of what was known of its job.        *)
LEMMA SucceedInv ==
  ASSUME AssemblerTypeOK, AssemblerInv,
         NEW w \in Workers, ~Idle(w), NEW m \in job[w].calls, Due(w, m), Succeed(w, m)
  PROVE  AssemblerTypeOK' /\ AssemblerInv' /\ graph \subseteq graph' /\ failed \subseteq failed'
<1> DEFINE i == job[w]
           j == Done(i, m)
           x == Fact(i, m, TRUE)
<1>1. i \in Jobs /\ JobPart(i, graph, failed) /\ NounsIn(i, graph)
  BY Mutating
<1>2. /\ j \in Jobs /\ j.doc = i.doc /\ j.err = i.err /\ j.pred = i.pred
      /\ j.calls = i.calls \ {m} /\ j.includes = i.includes \cup ({m} \cap Includable)
  BY <1>1 DEF Jobs, Kept, Done
<1>3. job' = [job EXCEPT ![w] = NextPredicate(j)]
  BY DEF Succeed
<1>4. graph' = graph \cup {x} /\ failed' = failed /\ failures' = failures
  BY DEF Succeed
<1>5. m \in NounSet \/ i.err = "none" => x = FullFact(i.doc, i.pred, m)
  BY Mutating
<1> HIDE DEF i, j, x
<1>6. JobPart(j, graph', failed')
  <2>1. j.pred \in 1..Len(Predicates[j.doc]) /\ j.calls \subseteq Predicates[j.doc][j.pred]
    BY <1>1, <1>2 DEF JobPart
  <2>2. ASSUME j.err = "none"
        PROVE  /\ \A p \in 1..(j.pred - 1) :
                    \A n \in Predicates[j.doc][p] : FullFact(j.doc, p, n) \in graph'
               /\ \A n \in Predicates[j.doc][j.pred] \ j.calls :
                    FullFact(j.doc, j.pred, n) \in graph'
               /\ j.includes = (Predicates[j.doc][j.pred] \cap Includable) \ j.calls
    <3>1. \A p \in 1..(j.pred - 1) :
            \A n \in Predicates[j.doc][p] : FullFact(j.doc, p, n) \in graph'
      BY <1>1, <1>2, <1>4, <2>2 DEF JobPart
    <3>2. ASSUME NEW n \in Predicates[j.doc][j.pred] \ j.calls
          PROVE  FullFact(j.doc, j.pred, n) \in graph'
      BY <1>1, <1>2, <1>4, <1>5, <2>2, <3>2 DEF JobPart
    <3>3. m \in i.calls
      BY DEF i
    <3>4. j.includes = (Predicates[j.doc][j.pred] \cap Includable) \ j.calls
      BY <1>1, <1>2, <2>2, <3>3 DEF JobPart
    <3> QED  BY <3>1, <3>2, <3>4
  <2>3. j.err # "none" => <<j.doc, j.err>> \in failed'
    BY <1>1, <1>2, <1>4 DEF JobPart
  <2> QED  BY <2>1, <2>2, <2>3 DEF JobPart
<1>7. NounsIn(j, graph')
  <2> SUFFICES ASSUME NEW p \in 1..j.pred, NEW n \in Predicates[j.doc][p] \cap NounSet
               PROVE  (p = j.pred /\ n \in j.calls) \/ FullFact(j.doc, p, n) \in graph'
    BY DEF NounsIn
  <2>1. CASE p = j.pred /\ n = m
    BY <1>2, <1>4, <1>5, <2>1
  <2>2. CASE ~(p = j.pred /\ n = m)
    <3>1. (p = i.pred /\ n \in i.calls) \/ FullFact(i.doc, p, n) \in graph
      BY <1>1, <1>2 DEF NounsIn
    <3> QED  BY <1>2, <1>4, <2>2, <3>1
  <2> QED  BY <2>1, <2>2
<1>8. NextPredicate(j) \in Jobs /\ JobInv(NextPredicate(j), graph', failed')
  BY <1>2, <1>6, <1>7, NextInv
<1>9. failed' \subseteq Docs \X Failures /\ failures' \in 0..MaxFailures
  BY <1>4 DEF AssemblerTypeOK
<1>10. \E whole \in BOOLEAN : graph' = graph \cup {Fact(job[w], m, whole)}
  BY <1>4 DEF x, i
<1>11. PICK k \in Jobs : k = NextPredicate(j)
  BY <1>8
<1> QED  BY <1>3, <1>4, <1>8, <1>9, <1>10, <1>11, MutatedInv

(* What a job becomes that fails in m.                                     *)
AfterFailure(j, m) == IF m \in NounSet THEN j ELSE NextPredicate(j)

(* A mutation fails, with or without effect.                               *)
LEMMA FailInv ==
  ASSUME AssemblerTypeOK, AssemblerInv,
         NEW w \in Workers, ~Idle(w), NEW m \in job[w].calls, Due(w, m),
         NEW err \in Failures, Fail(w, m, err)
  PROVE  AssemblerTypeOK' /\ AssemblerInv' /\ graph \subseteq graph' /\ failed \subseteq failed'
<1> DEFINE i == job[w]
           j == Failing(i, m, err)
<1>1. i \in Jobs /\ JobPart(i, graph, failed) /\ NounsIn(i, graph) /\ i.doc \in Docs
  BY Mutating
<1>2. /\ j \in Jobs /\ j.doc = i.doc /\ j.err = err /\ j.pred = i.pred
      /\ j.calls = CallsAfter(i.calls, m)
  BY <1>1 DEF Jobs, Failing, CallsAfter
<1>3. /\ job' = [job EXCEPT ![w] = AfterFailure(j, m)]
      /\ failed' = failed \cup {<<i.doc, err>>}
  BY DEF Fail, AfterFailure
<1>4. \E whole \in BOOLEAN : graph' = graph \/ graph' = graph \cup {Fact(job[w], m, whole)}
  BY DEF Fail
<1>5. failures' \in 0..MaxFailures
  BY PredicatesAssumption DEF Fail, AssemblerTypeOK
<1>6. graph \subseteq graph'
  BY <1>4
<1> HIDE DEF i, j
<1>7. JobPart(j, graph', failed')
  <2>1. err # "none"
    BY DEF Failures
  <2>2. j.calls \subseteq i.calls
    BY <1>2 DEF CallsAfter
  <2> QED  BY <1>1, <1>2, <1>3, <2>1, <2>2 DEF JobPart
<1>8. AfterFailure(j, m) \in Jobs /\ JobInv(AfterFailure(j, m), graph', failed')
  <2>1. CASE m \in NounSet
    <3>1. j.calls = {} /\ j.err # "none"
      BY <1>2, <2>1 DEF CallsAfter, Failures
    <3> QED  BY <1>2, <1>7, <2>1, <3>1 DEF JobInv, AfterFailure
  <2>2. CASE m \notin NounSet
    <3>1. j.calls = i.calls \ {m}
      BY <1>2, <2>2 DEF CallsAfter
    <3>2. NounsIn(j, graph')
      BY <1>1, <1>2, <1>6, <2>2, <3>1 DEF NounsIn
    <3> QED  BY <1>2, <1>7, <2>2, <3>2, NextInv DEF AfterFailure
  <2> QED  BY <2>1, <2>2
<1>9. failed \subseteq failed' /\ failed' \subseteq Docs \X Failures
  BY <1>1, <1>3 DEF AssemblerTypeOK
<1>10. PICK k \in Jobs : k = AfterFailure(j, m)
  BY <1>8
<1> QED  BY <1>3, <1>4, <1>5, <1>8, <1>9, <1>10, MutatedInv

(* A worker takes a document, which may be rejected at once.               *)
LEMMA SetsInv ==
  ASSUME AssemblerTypeOK, AssemblerInv, NEW w \in Workers, NEW d \in Docs, Sets(w, d)
  PROVE  AssemblerTypeOK' /\ AssemblerInv' /\ graph \subseteq graph' /\ failed \subseteq failed'
<1>1. PICK j \in Jobs :
        /\ job' = [job EXCEPT ![w] = j] /\ graph' = graph
        /\ JobInv(j, graph, failed')
        /\ failed \subseteq failed' /\ failed' \subseteq Docs \X Failures
        /\ failures' \in 0..MaxFailures
  <2>1. CASE StartIngest(w, d)
    <3> DEFINE j == NewJob(d, Predicates[d][1], "none")
    <3>1. j \in Jobs
      BY PredicatesThere DEF Jobs, NewJob
    <3>2. JobInv(j, graph, failed)
      <4>1. /\ j.doc = d /\ j.pred = 1 /\ j.calls = Predicates[d][1]
            /\ j.err = "none" /\ j.includes = {}
        BY DEF NewJob
      <4>2. j.calls # {} /\ 1 \in 1..Len(Predicates[d])
        BY <4>1, PredicatesThere
      <4> HIDE DEF j
      <4>3. JobPart(j, graph, failed)
        BY <4>1, <4>2 DEF JobPart
      <4>4. NounsIn(j, graph)
        BY <4>1 DEF NounsIn
      <4> QED  BY <4>2, <4>3, <4>4 DEF JobInv
    <3> QED  BY <2>1, <3>1, <3>2 DEF StartIngest, AssemblerTypeOK
  <2>2. CASE RejectDoc(w, d)
    <3> DEFINE j == NewJob(d, {}, "rejected")
    <3>1. j \in Jobs
      BY DEF Jobs, Failures, NewJob
    <3>2. JobInv(j, graph, failed')
      <4>1. j.doc = d /\ j.pred = 1 /\ j.calls = {} /\ j.err = "rejected"
        BY DEF NewJob
      <4>2. 1 \in 1..Len(Predicates[d])
        BY PredicatesThere
      <4> HIDE DEF j
      <4> QED  BY <2>2, <4>1, <4>2 DEF JobInv, JobPart, RejectDoc
    <3>3. failures' \in 0..MaxFailures
      BY <2>2, PredicatesAssumption DEF RejectDoc, AssemblerTypeOK
    <3>4. failed \subseteq failed' /\ failed' \subseteq Docs \X Failures
      BY <2>2 DEF RejectDoc, AssemblerTypeOK, Failures
    <3> QED  BY <2>2, <3>1, <3>2, <3>3, <3>4 DEF RejectDoc
  <2> QED  BY <2>1, <2>2 DEF Sets
<1>2. AssemblerTypeOK'
  BY <1>1 DEF AssemblerTypeOK
<1>3. ASSUME NEW v \in Workers, ~Idle(v)'  PROVE JobInv(job[v], graph, failed)'
  <2>1. CASE v = w
    BY <1>1, <2>1 DEF AssemblerTypeOK
  <2>2. CASE v # w
    <3>1. job'[v] = job[v] /\ ~Idle(v)
      BY <1>1, <1>3, <2>2 DEF Idle
    <3> QED  BY <1>1, <3>1, JobInvGrows DEF AssemblerInv
  <2> QED  BY <2>1, <2>2
<1>4. VerbsHaveNouns' /\ SBOMOnce'
  BY <1>1 DEF AssemblerInv, VerbsHaveNouns, SBOMOnce
<1> QED  BY <1>1, <1>2, <1>3, <1>4 DEF AssemblerInv

(* The loop does not change the document, nor end the job.                 *)
LEMMA NextKeeps ==
  ASSUME NEW j \in Jobs
  PROVE  NextPredicate(j).doc = j.doc /\ NextPredicate(j) # NoJob
<1>1. CASE ~Goes(j)
  BY <1>1, JobsAreBusy DEF NextPredicate
<1>2. CASE Goes(j)
  <2> DEFINE k == [j EXCEPT !.pred = @ + 1, !.calls = Predicates[j.doc][j.pred + 1],
                            !.includes = {}]
  <2>1. NextPredicate(j) = k
    BY <1>2 DEF NextPredicate
  <2>2. k.doc = j.doc /\ "pred" \in DOMAIN k
    BY DEF Jobs
  <2>3. "pred" \notin DOMAIN NoJob
    BY DEF NoJob
  <2> HIDE DEF k
  <2> QED  BY <2>1, <2>2, <2>3
<1> QED  BY <1>1, <1>2

(* A mutation changes its own worker's job only, and not its document.     *)
LEMMA MutateKeeps ==
  ASSUME AssemblerTypeOK, NEW w \in Workers, Mutate(w)
  PROVE  /\ ~Idle(w) /\ ~Idle(w)'
         /\ job'[w].doc = job[w].doc
         /\ \A v \in Workers \ {w} : job'[v] = job[v]
<1>1. ~Idle(w) /\ job[w] \in Jobs
  BY DEF Mutate, Idle, AssemblerTypeOK
<1>2. PICK m \in job[w].calls : Succeed(w, m) \/ \E err \in Failures : Fail(w, m, err)
  BY DEF Mutate, Failures
<1>3. CASE Succeed(w, m)
  <2>1. Done(job[w], m) \in Jobs /\ Done(job[w], m).doc = job[w].doc
    BY <1>1 DEF Jobs, Kept, Done
  <2>2. job' = [job EXCEPT ![w] = NextPredicate(Done(job[w], m))]
    BY <1>3 DEF Succeed
  <2> QED  BY <1>1, <2>1, <2>2, NextKeeps DEF Idle, AssemblerTypeOK
<1>4. ASSUME NEW err \in Failures, Fail(w, m, err)
      PROVE  ~Idle(w)' /\ job'[w].doc = job[w].doc /\ \A v \in Workers \ {w} : job'[v] = job[v]
  <2> DEFINE j == Failing(job[w], m, err)
  <2>1. j \in Jobs /\ j.doc = job[w].doc
    BY <1>1 DEF Jobs, CallsAfter, Failing
  <2>2. job' = [job EXCEPT ![w] = AfterFailure(j, m)]
    BY <1>4 DEF Fail, AfterFailure
  <2> HIDE DEF j
  <2>3. AfterFailure(j, m).doc = j.doc /\ AfterFailure(j, m) # NoJob
    BY <2>1, NextKeeps, JobsAreBusy DEF AfterFailure
  <2> QED  BY <1>1, <2>1, <2>2, <2>3 DEF Idle, AssemblerTypeOK
<1> QED  BY <1>1, <1>2, <1>3, <1>4

(* So does taking a document.                                              *)
LEMMA SetsKeeps ==
  ASSUME AssemblerTypeOK, NEW w \in Workers, NEW d \in Docs, Sets(w, d)
  PROVE  /\ ~Idle(w)'
         /\ job'[w].doc = d
         /\ \A v \in Workers \ {w} : job'[v] = job[v]
<1>1. PICK j \in Jobs : job' = [job EXCEPT ![w] = j] /\ j.doc = d
  <2>1. NewJob(d, Predicates[d][1], "none") \in Jobs
    BY PredicatesThere DEF Jobs, NewJob
  <2>2. NewJob(d, {}, "rejected") \in Jobs
    BY DEF Jobs, Failures, NewJob
  <2>3. \A c, e : NewJob(d, c, e).doc = d
    BY DEF NewJob
  <2> QED  BY <2>1, <2>2, <2>3 DEF Sets, StartIngest, RejectDoc
<1> QED  BY <1>1, JobsAreBusy DEF Idle, AssemblerTypeOK

(* A job that is done without an error has put all of its document into    *)
(* the graph.                                                              *)
LEMMA DoneIsComplete ==
  ASSUME AssemblerTypeOK, AssemblerInv, NEW w \in Workers, Finished(w), job[w].err = "none"
  PROVE  Complete(job[w].doc)
<1> DEFINE j == job[w]
<1>1. j \in Jobs /\ JobInv(j, graph, failed) /\ j.calls = {} /\ j.err = "none"
  BY DEF AssemblerTypeOK, AssemblerInv, Finished, Idle
<1>2. /\ j.doc \in Docs /\ DOMAIN Predicates[j.doc] = 1..Len(Predicates[j.doc])
      /\ Len(Predicates[j.doc]) \in Nat
  BY <1>1, PredicatesThere DEF Jobs
<1> HIDE DEF j
<1> SUFFICES ASSUME NEW p \in 1..Len(Predicates[j.doc]), NEW m \in Predicates[j.doc][p]
             PROVE  FullFact(j.doc, p, m) \in graph
  BY <1>2 DEF Complete, j
<1>3. p = j.pred \/ p \in 1..(j.pred - 1)
  BY <1>1, <1>2 DEF JobInv
<1> QED  BY <1>1, <1>3 DEF JobInv, JobPart

LEMMA CompleteGrows ==
  ASSUME graph \subseteq graph', NEW d \in Docs, Complete(d)
  PROVE  Complete(d)'
BY DEF Complete

(* Every step of the assembler.                                            *)
LEMMA AssemblerStep ==
  ASSUME AssemblerTypeOK, AssemblerInv, AssemblerMove
  PROVE  AssemblerTypeOK' /\ AssemblerInv' /\ graph \subseteq graph' /\ failed \subseteq failed'
<1>1. CASE \E w \in Workers, d \in Docs : Sets(w, d)
  BY <1>1, SetsInv
<1>2. ASSUME NEW w \in Workers, Drops(w)
      PROVE  AssemblerTypeOK' /\ AssemblerInv' /\ graph \subseteq graph' /\ failed \subseteq failed'
  <2>1. AssemblerTypeOK'
    BY <1>2 DEF Drops, AssemblerTypeOK
  <2>2. \A v \in Workers : ~Idle(v)' => job'[v] = job[v] /\ ~Idle(v)
    BY <1>2 DEF Drops, Idle, AssemblerTypeOK
  <2>3. AssemblerInv'
    BY <1>2, <2>2 DEF Drops, AssemblerInv, VerbsHaveNouns, SBOMOnce
  <2> QED  BY <1>2, <2>1, <2>3 DEF Drops
<1>3. ASSUME NEW w \in Workers, Mutate(w)
      PROVE  AssemblerTypeOK' /\ AssemblerInv' /\ graph \subseteq graph' /\ failed \subseteq failed'
  BY <1>3, SucceedInv, FailInv DEF Mutate, Failures
<1>4. CASE CountsOnly
  <2>1. AssemblerTypeOK'
    BY <1>4 DEF CountsOnly, AssemblerTypeOK
  <2>2. AssemblerInv'
    BY <1>4 DEF CountsOnly, AssemblerInv, Idle, VerbsHaveNouns, SBOMOnce
  <2> QED  BY <1>4, <2>1, <2>2 DEF CountsOnly
<1> QED  BY AssemblerMove, <1>1, <1>2, <1>3, <1>4 DEF AssemblerMove

-----------------------------------------------------------------------------
(* The stream.                                                             *)

StreamInv ==
  /\ EventsReadable
  /\ \A k \in Keys : blobs[k] # NoDoc => KeyOf[blobs[k]] = k

KeysKept ==
  \A m \in DOMAIN stream : m \in DOMAIN stream' /\ stream'[m].key = stream[m].key

StreamMove ==
  \/ \E d \in Docs : Published(d) \/ PublishFails(d)
  \/ \E m \in DOMAIN stream, s \in {"ready", "out", "acked"} : SetState(m, s)
  \/ UNCHANGED streamVars

LEMMA StreamKeys ==
  ASSUME StreamTypeOK, NEW m \in DOMAIN stream
  PROVE  stream[m].key \in Keys
<1>1. stream[m] \in Messages
  BY DEF StreamTypeOK
<1> QED  BY <1>1 DEF Messages

LEMMA StreamStep ==
  ASSUME StreamTypeOK, StreamInv, StreamMove
  PROVE  StreamTypeOK' /\ StreamInv' /\ KeysKept
<1>1. ASSUME NEW d \in Docs, Published(d) \/ PublishFails(d)
      PROVE  StreamTypeOK' /\ StreamInv' /\ KeysKept
  <2>1. KeyOf[d] \in Keys /\ d # NoDoc
    BY EventAssumption
  <2>2. (WriteBlob(d) /\ (Send(d) \/ UNCHANGED stream)) \/ UNCHANGED streamVars
    BY <1>1 DEF Published, PublishFails, NotWritten, NotSent, NotClosed
  <2>3. CASE WriteBlob(d) /\ Send(d)
    <3>1. [key |-> KeyOf[d], state |-> "ready"] \in Messages
      BY <2>1 DEF Messages
    <3>2. /\ stream' \in Seq(Messages)
          /\ Len(stream') = Len(stream) + 1
          /\ DOMAIN stream' = DOMAIN stream \cup {Len(stream) + 1}
          /\ \A m \in DOMAIN stream : stream'[m] = stream[m]
          /\ stream'[Len(stream) + 1].key = KeyOf[d]
      BY <2>3, <3>1, SendFacts DEF Send, StreamTypeOK
    <3>3. Len(stream') <= MaxEvents
      BY <2>3, <3>2, EventAssumption DEF Send, StreamTypeOK
    <3>4. blobs' = [blobs EXCEPT ![KeyOf[d]] = d]
      BY <2>3 DEF WriteBlob
    <3>5. \A m \in DOMAIN stream : stream[m].key \in Keys
      BY StreamKeys
    <3>6. StreamTypeOK'
      BY <2>1, <3>2, <3>3, <3>4 DEF StreamTypeOK
    <3>7. \A k \in Keys : blobs'[k] = IF k = KeyOf[d] THEN d ELSE blobs[k]
      BY <3>4 DEF StreamTypeOK
    <3>8. EventsReadable'
      BY <2>1, <3>2, <3>5, <3>7 DEF StreamInv, EventsReadable
    <3>9. StreamInv'
      BY <3>7, <3>8 DEF StreamInv
    <3> QED  BY <3>2, <3>6, <3>9 DEF KeysKept
  <2>4. CASE WriteBlob(d) /\ UNCHANGED stream
    <3>1. \A m \in DOMAIN stream : stream[m].key \in Keys
      BY StreamKeys
    <3>2. StreamTypeOK'
      BY <2>1, <2>4 DEF WriteBlob, StreamTypeOK
    <3>3. \A k \in Keys : blobs'[k] = IF k = KeyOf[d] THEN d ELSE blobs[k]
      BY <2>4 DEF WriteBlob, StreamTypeOK
    <3>4. EventsReadable'
      BY <2>1, <2>4, <3>1, <3>3 DEF StreamInv, EventsReadable
    <3>5. StreamInv'
      BY <3>3, <3>4 DEF StreamInv
    <3> QED  BY <2>4, <3>2, <3>5 DEF KeysKept
  <2>5. CASE UNCHANGED streamVars
    BY <2>5 DEF streamVars, StreamTypeOK, StreamInv, EventsReadable, KeysKept
  <2> QED  BY <2>2, <2>3, <2>4, <2>5
<1>2. ASSUME NEW m \in DOMAIN stream, NEW s \in {"ready", "out", "acked"}, SetState(m, s)
      PROVE  StreamTypeOK' /\ StreamInv' /\ KeysKept
  <2>1. stream[m] \in Messages
    BY DEF StreamTypeOK
  <2>2. [stream[m] EXCEPT !.state = s] \in Messages
        /\ [stream[m] EXCEPT !.state = s].key = stream[m].key
    BY <2>1 DEF Messages
  <2>3. stream' = [stream EXCEPT ![m] = [stream[m] EXCEPT !.state = s]] /\ blobs' = blobs
    BY <1>2 DEF SetState
  <2>4. stream' \in Seq(Messages) /\ Len(stream') = Len(stream) /\ DOMAIN stream' = DOMAIN stream
    BY <2>2, <2>3 DEF StreamTypeOK
  <2>5. \A n \in DOMAIN stream : stream'[n].key = stream[n].key
    BY <2>2, <2>3 DEF StreamTypeOK
  <2> QED  BY <2>3, <2>4, <2>5 DEF StreamTypeOK, StreamInv, EventsReadable, KeysKept
<1>3. CASE UNCHANGED streamVars
  BY <1>3 DEF streamVars, StreamTypeOK, StreamInv, EventsReadable, KeysKept
<1> QED  BY StreamMove, <1>1, <1>2, <1>3 DEF StreamMove

-----------------------------------------------------------------------------
(* The whole.                                                              *)

(* A worker that holds a message works on the document it leads to.        *)
HoldsRight(w) ==
  holds[w] # 0 => ~Idle(w) /\ KeyOf[job[w].doc] = stream[holds[w]].key
HoldInv == \A w \in Workers : HoldsRight(w)

(* guacone has no stream and is never cancelled, and what it has taken     *)
(* from docChan is ingested, listed, or what it is working on.             *)
OneInv == command = "guacone" => ~cancelled /\ stream = << >>
EmittedInv ==
  command = "guacone" =>
    \A d \in emitted :
      Complete(d) \/ d \in withErrors \/ (~Idle(Main) /\ job[Main].doc = d)

PartsInv == FanInv /\ StreamInv /\ AssemblerInv
PipeInv ==
  PipeTypeOK /\ PartsInv /\ HoldInv /\ OneInv /\ EmittedInv /\ ConnectionsLoseNothing

LEMMA InitInv ==
  ASSUME Init
  PROVE  PipeInv
<1>1. handleErr \in BOOLEAN /\ command \in {"guaccollect", "guacone"}
  BY DEF Init
<1>2. FanTypeOK /\ FanInv
  BY <1>1, FanIdleInv DEF Init
<1>3. AssemblerTypeOK /\ AssemblerInv
  BY AssemblerInitInv DEF Init
<1>4. stream \in Seq(Messages) /\ DOMAIN stream = {} /\ Len(stream) = 0
  BY DEF Init, StreamInit
<1>5. StreamTypeOK /\ StreamInv
  BY <1>4, EventAssumption DEF Init, StreamInit, StreamTypeOK, StreamInv, EventsReadable
<1>6. PipeTypeOK
  BY <1>1, <1>2, <1>3, <1>5, EventAssumption, WorkAssumption DEF Init, PipeTypeOK
<1>7. HoldInv /\ OneInv /\ EmittedInv
  BY DEF Init, HoldInv, HoldsRight, OneInv, EmittedInv, FanIdle, StreamInit
<1>8. ConnectionsLoseNothing
  BY <1>4 DEF ConnectionsLoseNothing
<1> QED  BY <1>2, <1>3, <1>5, <1>6, <1>7, <1>8 DEF PipeInv, PartsInv

(* The emitter's document, and the document of a message.                  *)
LEMMA HeadIsDoc ==
  ASSUME FanTypeOK, docChan # << >>
  PROVE  Head(docChan) \in Docs
BY TakeFacts DEF FanTypeOK

LEMMA MessageIsDoc ==
  ASSUME StreamTypeOK, StreamInv, NEW m \in DOMAIN stream
  PROVE  blobs[stream[m].key] \in Docs /\ KeyOf[blobs[stream[m].key]] = stream[m].key
<1>1. stream[m].key \in Keys
  BY StreamKeys
<1> QED  BY <1>1 DEF StreamTypeOK, StreamInv, EventsReadable

(* Every step is one of the loop, of the stream and of the assembler.      *)
Moves ==
  /\ FanMove \/ UNCHANGED fanVars
  /\ StreamMove
  /\ AssemblerMove

LEMMA MisfortuneCounts ==
  ASSUME AssemblerTypeOK, Misfortune
  PROVE  failures' \in 0..MaxFailures
BY PredicatesAssumption DEF AssemblerTypeOK, Misfortune

LEMMA StepMoves ==
  ASSUME PipeInv, [Next]_vars
  PROVE  Moves
<1> USE DEF Moves
<1>1. FanTypeOK /\ StreamTypeOK /\ AssemblerTypeOK /\ StreamInv
  BY DEF PipeInv, PipeTypeOK, PartsInv
<1>2. failures \in 0..MaxFailures
  BY <1>1 DEF AssemblerTypeOK
<1>3. UNCHANGED streamVars => StreamMove
  BY DEF StreamMove
<1>4. UNCHANGED assemblerVars => AssemblerMove
  BY <1>2 DEF AssemblerMove, CountsOnly, assemblerVars
<1>5. Misfortune /\ UNCHANGED <<job, graph, failed>> => AssemblerMove
  BY <1>1, MisfortuneCounts DEF AssemblerMove, CountsOnly
<1>6. CASE Start
  BY <1>3, <1>4, <1>6, WorkAssumption DEF Start, FanMove
<1>7. ASSUME NEW c \in Collectors, Collecting(c)  PROVE Moves
  BY <1>3, <1>4, <1>7 DEF Collecting, FanMove
<1>8. ASSUME NEW c \in Collectors, CollectorFails(c)  PROVE Moves
  BY <1>3, <1>5, <1>8 DEF CollectorFails, FanMove
<1>9. CASE Signal
  BY <1>3, <1>5, <1>9 DEF Signal, FanMove
<1>10. CASE Turn
  BY <1>3, <1>4, <1>10 DEF Turn, FanMove
<1>11. CASE EmitPublish
  <2>1. Head(docChan) \in Docs
    BY <1>1, <1>11, HeadIsDoc DEF EmitPublish, TakeDoc
  <2> QED  BY <1>4, <1>11, <2>1 DEF EmitPublish, FanMove, StreamMove
<1>12. CASE EmitFails
  <2>1. Head(docChan) \in Docs
    BY <1>1, <1>12, HeadIsDoc DEF EmitFails
  <2> QED  BY <1>5, <1>12, <2>1 DEF EmitFails, FanMove, StreamMove
<1>13. CASE EmitIngest
  <2>1. Head(docChan) \in Docs
    BY <1>1, <1>13, HeadIsDoc DEF EmitIngest, TakeDoc
  <2> QED  BY <1>3, <1>13, <2>1, WorkAssumption DEF EmitIngest, FanMove, AssemblerMove, Sets
<1>14. CASE EmitIngested
  BY <1>2, <1>3, <1>14, WorkAssumption DEF EmitIngested, AssemblerMove, Drops
<1>15. ASSUME NEW w \in Workers, NEW m \in DOMAIN stream, Receive(w, m)  PROVE Moves
  <2>1. blobs[stream[m].key] \in Docs
    BY <1>1, MessageIsDoc
  <2>2. StreamMove
    BY <1>15 DEF Receive, Deliver, StreamMove
  <2> QED  BY <1>15, <2>1, <2>2 DEF Receive, AssemblerMove, Sets
<1>16. ASSUME NEW w \in Workers, NEW m \in DOMAIN stream, ReceiveUnread(w, m)  PROVE Moves
  BY <1>5, <1>16 DEF ReceiveUnread, Deliver, StreamMove
<1>17. ASSUME NEW w \in Workers, Working(w)  PROVE Moves
  BY <1>3, <1>17 DEF Working, AssemblerMove
<1>18. ASSUME NEW w \in Workers, FinishMessage(w)  PROVE Moves
  <2>1. holds[w] \in DOMAIN stream
    BY <1>18 DEF FinishMessage, PipeInv, PipeTypeOK
  <2>2. StreamMove
    BY <1>3, <1>18, <2>1 DEF FinishMessage, Ack, StreamMove
  <2> QED  BY <1>2, <1>18, <2>2 DEF FinishMessage, AssemblerMove, Drops
<1>19. ASSUME NEW w \in Workers, CrashIngest(w)  PROVE Moves
  BY <1>1, <1>3, <1>19, MisfortuneCounts DEF CrashIngest, AssemblerMove, Drops
<1>20. ASSUME NEW m \in DOMAIN stream, Timeout(m)  PROVE Moves
  BY <1>4, <1>20 DEF Timeout, Redeliver, StreamMove
<1>21. CASE UNCHANGED vars
  BY <1>3, <1>4, <1>21 DEF vars
<1> QED
  BY [Next]_vars, <1>6, <1>7, <1>8, <1>9, <1>10, <1>11, <1>12, <1>13, <1>14, <1>15,
     <1>16, <1>17, <1>18, <1>19, <1>20, <1>21 DEF Next, CollectStep, IngestStep

LEMMA PartsStep ==
  ASSUME PipeInv, [Next]_vars
  PROVE  /\ FanTypeOK' /\ StreamTypeOK' /\ AssemblerTypeOK' /\ PartsInv'
         /\ KeysKept /\ graph \subseteq graph' /\ failed \subseteq failed'
<1>1. Moves
  BY StepMoves
<1>2. FanTypeOK' /\ FanInv'
  BY <1>1, FanTypeStep, FanInvStep, FanStutter DEF Moves, PipeInv, PipeTypeOK, PartsInv
<1>3. StreamTypeOK' /\ StreamInv' /\ KeysKept
  BY <1>1, StreamStep DEF Moves, PipeInv, PipeTypeOK, PartsInv
<1>4. AssemblerTypeOK' /\ AssemblerInv' /\ graph \subseteq graph' /\ failed \subseteq failed'
  BY <1>1, AssemblerStep DEF Moves, PipeInv, PipeTypeOK, PartsInv
<1> QED  BY <1>2, <1>3, <1>4 DEF PartsInv

(* What guacone never does.                                                *)
LEMMA OneQuiet ==
  ASSUME PipeInv, command = "guacone"
  PROVE  ~cancelled /\ DOMAIN stream = {} /\ \A w \in Workers : holds[w] = 0
<1>1. ~cancelled /\ DOMAIN stream = {}
  BY DEF PipeInv, OneInv
<1> QED  BY <1>1 DEF PipeInv, PipeTypeOK

LEMMA OneStep ==
  ASSUME PipeInv, [Next]_vars
  PROVE  OneInv' /\ command' = command
<1> USE DEF OneInv
<1>1. OneInv
  BY DEF PipeInv
<1>2. CASE Start
  BY <1>1, <1>2 DEF Start, StartRound, streamVars
<1>3. ASSUME NEW c \in Collectors, Collecting(c) \/ CollectorFails(c)
      PROVE  OneInv' /\ command' = command
  BY <1>1, <1>3 DEF Collecting, CollectorFails, SendDoc, EndCollector, streamVars, pipeVars
<1>4. CASE Signal
  BY <1>4 DEF Signal, pipeVars
<1>5. CASE Turn
  BY <1>1, <1>5 DEF Turn, TakeResult, RefuseResult, SeeCancel, Drained, streamVars, pipeVars
<1>6. CASE EmitPublish \/ EmitFails
  BY <1>6 DEF EmitPublish, EmitFails, pipeVars
<1>7. CASE EmitIngest
  BY <1>1, <1>7 DEF EmitIngest, TakeDoc, streamVars, pipeVars
<1>8. CASE EmitIngested
  BY <1>1, <1>8 DEF EmitIngested, fanVars, streamVars
<1>9. ASSUME NEW w \in Workers, NEW m \in DOMAIN stream,
             Receive(w, m) \/ ReceiveUnread(w, m)
      PROVE  OneInv' /\ command' = command
  <2>1. command # "guacone"
    BY OneQuiet
  <2> QED  BY <1>9, <2>1 DEF Receive, ReceiveUnread, pipeVars
<1>10. ASSUME NEW w \in Workers, FinishMessage(w) \/ CrashIngest(w)
       PROVE  OneInv' /\ command' = command
  <2>1. command # "guacone"
    BY <1>10, OneQuiet DEF FinishMessage, CrashIngest
  <2> QED  BY <1>10, <2>1 DEF FinishMessage, CrashIngest
<1>11. ASSUME NEW w \in Workers, Working(w)  PROVE OneInv' /\ command' = command
  BY <1>1, <1>11 DEF Working, fanVars, streamVars, pipeVars
<1>12. ASSUME NEW m \in DOMAIN stream, Timeout(m)  PROVE OneInv' /\ command' = command
  <2>1. command # "guacone"
    BY OneQuiet
  <2> QED  BY <1>12, <2>1 DEF Timeout, pipeVars
<1>13. CASE UNCHANGED vars
  BY <1>1, <1>13 DEF vars, fanVars, streamVars, pipeVars
<1> QED
  BY [Next]_vars, <1>2, <1>3, <1>4, <1>5, <1>6, <1>7, <1>8, <1>9, <1>10, <1>11, <1>12, <1>13
  DEF Next, CollectStep, IngestStep

LEMMA PipeTypeStep ==
  ASSUME PipeInv, [Next]_vars
  PROVE  PipeTypeOK'
<1> USE DEF PipeTypeOK
<1>1. PipeTypeOK
  BY DEF PipeInv
<1>2. FanTypeOK' /\ StreamTypeOK' /\ AssemblerTypeOK' /\ command' = command
  BY PartsStep, OneStep
<1>3. \A m \in DOMAIN stream : m \in DOMAIN stream'
  BY PartsStep DEF KeysKept
<1>4. CASE UNCHANGED pipeVars
  BY <1>1, <1>2, <1>3, <1>4 DEF pipeVars
<1>5. CASE Start
  BY <1>1, <1>2, <1>3, <1>5, WorkAssumption DEF Start
<1>6. CASE EmitIngested
  <2>1. Main \in Workers /\ job[Main] \in Jobs
    BY <1>1, <1>6, WorkAssumption DEF EmitIngested, Finished, Idle, AssemblerTypeOK
  <2>2. job[Main].doc \in Docs
    BY <2>1 DEF Jobs
  <2>3. withErrors' \subseteq Docs
    BY <1>1, <1>6, <2>2 DEF EmitIngested
  <2> QED  BY <1>1, <1>2, <1>3, <1>6, <2>3 DEF EmitIngested
<1>7. ASSUME NEW w \in Workers, NEW m \in DOMAIN stream, Receive(w, m)  PROVE PipeTypeOK'
  <2>1. m \in 0..MaxEvents
    BY <1>1, EventAssumption DEF StreamTypeOK
  <2> QED  BY <1>1, <1>2, <1>3, <1>7, <2>1 DEF Receive
<1>8. ASSUME NEW w \in Workers, FinishMessage(w) \/ CrashIngest(w)  PROVE PipeTypeOK'
  <2>1. 0 \in 0..MaxEvents
    BY EventAssumption
  <2> QED  BY <1>1, <1>2, <1>3, <1>8, <2>1 DEF FinishMessage, CrashIngest
<1> QED
  BY [Next]_vars, <1>4, <1>5, <1>6, <1>7, <1>8
  DEF Next, CollectStep, IngestStep, Collecting, CollectorFails, Signal, Turn, EmitPublish,
      EmitFails, EmitIngest, Working, ReceiveUnread, Timeout, vars

(* A worker keeps its message and its document, or puts the message away.  *)
LEMMA HoldKept ==
  ASSUME PipeInv, [Next]_vars, NEW w \in Workers,
         \/ holds'[w] = 0
         \/ /\ holds'[w] = holds[w]
            /\ ~Idle(w) => ~Idle(w)' /\ job'[w].doc = job[w].doc
  PROVE  HoldsRight(w)'
<1>1. HoldsRight(w) /\ (holds[w] # 0 => holds[w] \in DOMAIN stream)
  BY DEF PipeInv, PipeTypeOK, HoldInv
<1>2. KeysKept
  BY PartsStep
<1> QED  BY <1>1, <1>2 DEF HoldsRight, KeysKept

LEMMA HoldStep ==
  ASSUME PipeInv, [Next]_vars
  PROVE  HoldInv'
<1> SUFFICES ASSUME NEW w \in Workers  PROVE HoldsRight(w)'
  BY DEF HoldInv
<1> USE DEF PipeInv, PipeTypeOK
<1>1. CASE UNCHANGED <<job, holds>>
  BY <1>1, HoldKept DEF Idle
<1>2. CASE EmitIngest \/ EmitIngested
  <2>1. holds'[w] = 0
    BY <1>2, OneQuiet DEF EmitIngest, EmitIngested, pipeVars
  <2> QED  BY <2>1, HoldKept
<1>3. ASSUME NEW v \in Workers, NEW m \in DOMAIN stream, Receive(v, m)
      PROVE  HoldsRight(w)'
  <2> DEFINE d == blobs[stream[m].key]
  <2>1. d \in Docs /\ KeyOf[d] = stream[m].key
    BY MessageIsDoc DEF PartsInv
  <2>2. /\ ~Idle(v)' /\ job'[v].doc = d
        /\ \A u \in Workers \ {v} : job'[u] = job[u]
    BY <1>3, <2>1, SetsKeeps DEF Receive, Sets
  <2>3. holds' = [holds EXCEPT ![v] = m]
    BY <1>3 DEF Receive
  <2>4. CASE w = v
    <3>1. stream'[m].key = stream[m].key
      BY PartsStep DEF KeysKept
    <3> QED  BY <2>1, <2>2, <2>3, <2>4, <3>1 DEF HoldsRight
  <2>5. CASE w # v
    BY <2>2, <2>3, <2>5, HoldKept DEF Idle
  <2> QED  BY <2>4, <2>5
<1>4. ASSUME NEW v \in Workers, Working(v)  PROVE HoldsRight(w)'
  BY <1>4, MutateKeeps, HoldKept DEF Working, pipeVars, Idle
<1>5. ASSUME NEW v \in Workers, FinishMessage(v) \/ CrashIngest(v)  PROVE HoldsRight(w)'
  <2>1. job' = [job EXCEPT ![v] = NoJob] /\ holds' = [holds EXCEPT ![v] = 0]
    BY <1>5 DEF FinishMessage, CrashIngest
  <2>2. CASE w = v
    BY <2>1, <2>2, HoldKept
  <2>3. CASE w # v
    BY <2>1, <2>3, HoldKept DEF AssemblerTypeOK, Idle
  <2> QED  BY <2>2, <2>3
<1> QED
  BY [Next]_vars, <1>1, <1>2, <1>3, <1>4, <1>5
  DEF Next, CollectStep, IngestStep, Start, Collecting, CollectorFails, Signal, Turn,
      EmitPublish, EmitFails, ReceiveUnread, Timeout, vars, assemblerVars, pipeVars

(* What guacone has taken stays ingested, listed or under work.            *)
LEMMA EmittedKept ==
  ASSUME PipeInv, [Next]_vars, emitted' = emitted, withErrors \subseteq withErrors',
         ~Idle(Main) => ~Idle(Main)' /\ job'[Main].doc = job[Main].doc
  PROVE  EmittedInv'
<1>1. command' = command /\ graph \subseteq graph' /\ emitted \subseteq Docs
  BY OneStep, PartsStep DEF PipeInv, PipeTypeOK, FanTypeOK
<1>2. EmittedInv
  BY DEF PipeInv
<1> QED  BY <1>1, <1>2, CompleteGrows DEF EmittedInv

LEMMA EmittedStep ==
  ASSUME PipeInv, [Next]_vars
  PROVE  EmittedInv'
<1> USE DEF PipeInv, PipeTypeOK
<1> SUFFICES ASSUME command = "guacone"  PROVE EmittedInv'
  BY OneStep DEF EmittedInv
<1>1. CASE UNCHANGED <<job, emitted, withErrors>>
  BY <1>1, EmittedKept DEF Idle
<1>2. CASE EmitIngest
  <2>1. Head(docChan) \in Docs
    BY <1>2, HeadIsDoc DEF EmitIngest, TakeDoc
  <2>2. Idle(Main) /\ ~Idle(Main)' /\ job'[Main].doc = Head(docChan)
    BY <1>2, <2>1, SetsKeeps, WorkAssumption DEF EmitIngest, LoopFree, Sets
  <2>3. emitted' = emitted \cup {Head(docChan)} /\ withErrors' = withErrors
    BY <1>2 DEF EmitIngest, TakeDoc, pipeVars
  <2>4. graph \subseteq graph' /\ emitted \subseteq Docs
    BY PartsStep DEF FanTypeOK
  <2> QED  BY <2>2, <2>3, <2>4, CompleteGrows DEF EmittedInv
<1>3. CASE EmitIngested
  <2>1. /\ emitted' = emitted /\ graph' = graph
        /\ withErrors' = withErrors \cup {j.doc : j \in {x \in {job[Main]} : Reports(x)}}
    BY <1>3 DEF EmitIngested, fanVars
  <2>2. job[Main].err = "none" => Complete(job[Main].doc)
    BY <1>3, WorkAssumption, DoneIsComplete DEF EmitIngested, PartsInv, PipeTypeOK
  <2>3. job[Main].err # "none" => job[Main].doc \in withErrors'
    BY <2>1 DEF Reports
  <2>4. \A d \in emitted : Complete(d) \/ d \in withErrors'
    BY <2>1, <2>2, <2>3 DEF EmittedInv
  <2>5. graph \subseteq graph' /\ emitted \subseteq Docs
    BY PartsStep DEF FanTypeOK
  <2> QED  BY <2>1, <2>4, <2>5, CompleteGrows DEF EmittedInv
<1>4. ASSUME NEW w \in Workers, Working(w)  PROVE EmittedInv'
  <2>1. ~Idle(Main) => ~Idle(Main)' /\ job'[Main].doc = job[Main].doc
    BY <1>4, MutateKeeps, WorkAssumption DEF Working, Idle
  <2> QED  BY <1>4, <2>1, EmittedKept DEF Working, fanVars, pipeVars
<1>5. ASSUME NEW w \in Workers, NEW m \in DOMAIN stream, Receive(w, m)  PROVE EmittedInv'
  BY <1>5, OneQuiet
<1>6. ASSUME NEW w \in Workers, FinishMessage(w) \/ CrashIngest(w)  PROVE EmittedInv'
  BY <1>6, OneQuiet DEF FinishMessage, CrashIngest
<1>7. CASE Start \/ Turn \/ \E c \in Collectors : Collecting(c) \/ CollectorFails(c)
  <2>1. UNCHANGED <<job, emitted, withErrors>>
    BY <1>7 DEF Start, StartRound, Turn, TakeResult, RefuseResult, SeeCancel, Drained,
                Collecting, CollectorFails, SendDoc, EndCollector, assemblerVars, pipeVars
  <2> QED  BY <1>1, <2>1
<1> QED
  BY [Next]_vars, <1>1, <1>2, <1>3, <1>4, <1>5, <1>6, <1>7
  DEF Next, CollectStep, IngestStep, Signal, EmitPublish, EmitFails, ReceiveUnread, Timeout,
      vars, fanVars, assemblerVars, pipeVars

-----------------------------------------------------------------------------
(* A message is acknowledged only by the worker that has finished it.      *)

LEMMA SendQuiet ==
  ASSUME StreamTypeOK, NEW d \in Docs, Published(d) \/ PublishFails(d),
         NEW m \in DOMAIN stream', Acked(m)'
  PROVE  m \in DOMAIN stream /\ Acked(m)
<1>1. Send(d) \/ UNCHANGED stream
  BY DEF Published, PublishFails, NotWritten, NotSent, NotClosed, streamVars
<1>2. CASE Send(d)
  <2> DEFINE e == [key |-> KeyOf[d], state |-> "ready"]
  <2>1. e \in Messages
    BY EventAssumption DEF Messages
  <2>2. /\ DOMAIN stream' = DOMAIN stream \cup {Len(stream) + 1}
        /\ \A n \in DOMAIN stream : stream'[n] = stream[n]
        /\ stream'[Len(stream) + 1] = e
    BY <1>2, <2>1, SendFacts DEF Send, StreamTypeOK
  <2> QED  BY <2>2 DEF Acked
<1> QED  BY <1>1, <1>2 DEF Acked

LEMMA StateQuiet ==
  ASSUME StreamTypeOK, NEW n \in DOMAIN stream, NEW s, SetState(n, s),
         NEW m \in DOMAIN stream', Acked(m)'
  PROVE  m \in DOMAIN stream /\ (Acked(m) \/ (m = n /\ s = "acked"))
<1>1. stream[n] \in Messages
  BY DEF StreamTypeOK
<1>2. stream' = [stream EXCEPT ![n] = [stream[n] EXCEPT !.state = s]]
  BY DEF SetState
<1>3. [stream[n] EXCEPT !.state = s].state = s
  BY <1>1 DEF Messages
<1>4. m \in DOMAIN stream /\ stream'[n].state = s /\ (m # n => stream'[m] = stream[m])
  BY <1>2, <1>3
<1> QED  BY <1>4 DEF Acked

LEMMA NewAck ==
  ASSUME PipeInv, [Next]_vars, NEW m \in DOMAIN stream', Acked(m)',
         ~(m \in DOMAIN stream /\ Acked(m))
  PROVE  \E w \in Workers : FinishMessage(w) /\ Acknowledges(job[w]) /\ m = holds[w]
<1> DEFINE Goal == \E w \in Workers :
                     FinishMessage(w) /\ Acknowledges(job[w]) /\ m = holds[w]
<1>1. FanTypeOK /\ StreamTypeOK
  BY DEF PipeInv, PipeTypeOK
<1>2. CASE UNCHANGED stream
  BY <1>2 DEF Acked
<1>3. CASE EmitPublish \/ EmitFails
  <2>1. Head(docChan) \in Docs
    BY <1>1, <1>3, HeadIsDoc DEF EmitPublish, EmitFails, TakeDoc
  <2> QED  BY <1>1, <1>3, <2>1, SendQuiet DEF EmitPublish, EmitFails
<1>4. ASSUME NEW w \in Workers, NEW n \in DOMAIN stream,
             Receive(w, n) \/ ReceiveUnread(w, n)
      PROVE  FALSE
  BY <1>1, <1>4, StateQuiet DEF Receive, ReceiveUnread, Deliver
<1>5. ASSUME NEW n \in DOMAIN stream, Timeout(n)  PROVE FALSE
  BY <1>1, <1>5, StateQuiet DEF Timeout, Redeliver
<1>6. ASSUME NEW w \in Workers, FinishMessage(w)  PROVE Goal
  <2>1. holds[w] \in DOMAIN stream
    BY <1>6 DEF FinishMessage, PipeInv, PipeTypeOK
  <2>2. ~Acknowledges(job[w]) => UNCHANGED stream
    BY <1>6 DEF FinishMessage, streamVars
  <2>3. Acknowledges(job[w]) => m = holds[w]
    BY <1>1, <1>6, <2>1, StateQuiet DEF FinishMessage, Ack
  <2> QED  BY <1>2, <1>6, <2>2, <2>3
<1> QED
  BY [Next]_vars, <1>2, <1>3, <1>4, <1>5, <1>6
  DEF Next, CollectStep, IngestStep, Start, Collecting, CollectorFails, Signal, Turn,
      EmitIngest, EmitIngested, Working, CrashIngest, vars, streamVars

Accounted(k) == IngestedKey(k) \/ RejectedKey(k) \/ RefusedKey(k)

LEMMA LossStep ==
  ASSUME PipeInv, [Next]_vars
  PROVE  ConnectionsLoseNothing'
<1> SUFFICES ASSUME NEW m \in DOMAIN stream', Acked(m)'
             PROVE  Accounted(stream[m].key)'
  BY DEF ConnectionsLoseNothing, Accounted
<1>1. graph \subseteq graph' /\ failed \subseteq failed' /\ KeysKept
  BY PartsStep
<1>2. m \in DOMAIN stream => stream'[m].key = stream[m].key
  BY <1>1 DEF KeysKept
<1>3. SUFFICES ASSUME m \in DOMAIN stream,
                      Accounted(stream[m].key)
               PROVE  Accounted(stream[m].key)'
  <2>1. CASE m \in DOMAIN stream /\ Acked(m)
    BY <1>3, <2>1 DEF PipeInv, ConnectionsLoseNothing, Accounted
  <2>2. CASE ~(m \in DOMAIN stream /\ Acked(m))
    <3>1. PICK w \in Workers : FinishMessage(w) /\ Acknowledges(job[w]) /\ m = holds[w]
      BY <2>2, NewAck
    <3> DEFINE d == job[w].doc
    <3>2. Finished(w) /\ m # 0 /\ m \in DOMAIN stream
      BY <3>1 DEF FinishMessage, PipeInv, PipeTypeOK
    <3>3. job[w] \in Jobs /\ JobInv(job[w], graph, failed)
      BY <3>2 DEF Finished, Idle, PipeInv, PipeTypeOK, AssemblerTypeOK, PartsInv, AssemblerInv
    <3>4. d \in Docs /\ KeyOf[d] = stream[m].key
      BY <3>1, <3>2, <3>3 DEF PipeInv, HoldInv, HoldsRight, Jobs
    <3>5. job[w].err \in {"none", "refused", "rejected"}
      BY <3>1, <3>3 DEF Acknowledges, Jobs, Failures
    <3>6. Complete(d) \/ <<d, "refused">> \in failed \/ <<d, "rejected">> \in failed
      BY <3>2, <3>3, <3>5, DoneIsComplete
      DEF JobInv, JobPart, PipeInv, PipeTypeOK, PartsInv
    <3> QED  BY <1>3, <3>2, <3>4, <3>6 DEF Accounted, IngestedKey, RejectedKey, RefusedKey, DocsOf
  <2> QED  BY <2>1, <2>2
<1> QED  BY <1>1, <1>2, <1>3, CompleteGrows DEF Accounted, IngestedKey, RejectedKey, RefusedKey, DocsOf

-----------------------------------------------------------------------------
(* PipeInv is inductive.                                                   *)
LEMMA InvStep ==
  ASSUME PipeInv, [Next]_vars
  PROVE  PipeInv'
BY PipeTypeStep, PartsStep, HoldStep, OneStep, EmittedStep, LossStep DEF PipeInv

(* All of the parts hold in every reachable state.                         *)
THEOREM Invariance == Spec => []PipeInv
<1>1. Init => PipeInv
  BY InitInv
<1>2. PipeInv /\ [Next]_vars => PipeInv'
  BY InvStep
<1> QED  BY <1>1, <1>2, PTL DEF Spec

(* The type invariant of the pipeline and its parts.                       *)
THEOREM TypeCorrect == Spec => []PipeTypeOK
<1>1. PipeInv => PipeTypeOK
  BY DEF PipeInv
<1> QED  BY <1>1, Invariance, PTL

(* A round of Collect that returns without an error, and was not           *)
(* cancelled, has given the emitter every document its collectors sent.    *)
THEOREM NoDocumentOvertaken == Spec => []SentEmitted
<1>1. PipeInv => SentEmitted
  BY DEF PipeInv, PartsInv, FanInv
<1> QED  BY <1>1, Invariance, PTL

(* Every message of the stream leads to a document in the blob store.      *)
THEOREM EveryEventLeads == Spec => []EventsReadable
<1>1. PipeInv => EventsReadable
  BY DEF PipeInv, PartsInv, StreamInv
<1> QED  BY <1>1, Invariance, PTL

(* No evidence is in the graph without the nodes of its predicate and of   *)
(* those before it.                                                        *)
THEOREM EvidenceHasNodes == Spec => []VerbsHaveNouns
<1>1. PipeInv => VerbsHaveNouns
  BY DEF PipeInv, PartsInv, AssemblerInv
<1> QED  BY <1>1, Invariance, PTL

(* An SBOM with missing or other contents needs a failed mutation.         *)
THEOREM OneSBOM == Spec => []SBOMOnce
<1>1. PipeInv => SBOMOnce
  BY DEF PipeInv, PartsInv, AssemblerInv
<1> QED  BY <1>1, Invariance, PTL

(* What was acknowledged was ingested, unless something was refused.       *)
THEOREM NothingLost == Spec => []ConnectionsLoseNothing
<1>1. PipeInv => ConnectionsLoseNothing
  BY DEF PipeInv
<1> QED  BY <1>1, Invariance, PTL

(* guacone accounts for every document its collectors sent.                *)
THEOREM NothingUnreported == Spec => []OneReports
<1>1. PipeInv => OneReports
  <2> SUFFICES ASSUME PipeInv, command = "guacone", loop = "returned", LoopFree,
                      NEW d \in sent
               PROVE  Complete(d) \/ d \in withErrors
    BY DEF OneReports
  <2>1. d \in emitted
    BY OneQuiet DEF PipeInv, PartsInv, FanInv, SentEmitted
  <2> QED  BY <2>1 DEF PipeInv, EmittedInv, LoopFree
<1> QED  BY <1>1, Invariance, PTL
=============================================================================
