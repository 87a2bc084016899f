# A TLA+ model of GUAC

GUAC (Graph for Understanding Artifact Composition) collects documents about
software supply chains, turns them into a graph of packages, sources, artifacts
and evidence about them, and answers GraphQL queries over that graph. This
directory holds TLA+ specifications of its core, TLC configurations that check
them on small instances, and proofs that TLAPS checks.

Paths below are relative to the repository; `keyvalue/` stands for
`pkg/assembler/backends/keyvalue/`.

## The system

| Part | State | Operations | Talks to |
|---|---|---|---|
| Collectors (`pkg/handler/collector`) | documents in a channel, per-collector memory of what was collected | `RetrieveArtifacts` of every collector, `Collect`, `Publish` | sources; blob store; event stream |
| Event stream and processor (`pkg/emitter`, `pkg/handler/processor/process`, `cmd/guacingest`) | messages delivered and not acknowledged, blobs | `Publish`, `Subscribe`, `Process`, acknowledgement | blob store; ingestor |
| Ingestor (`pkg/ingestor`, `pkg/assembler/clients/helpers`) | none | `Ingest`, `MergedIngest`, `GetBulkAssembler`: for each predicate nodes first, then verbs | GraphQL server; collectsub |
| GraphQL server (`cmd/guacgql`, resolvers) | none of its own | one goroutine per request | a backend |
| keyvalue backend (`keyvalue/`) | nodes by key, index from ID to key, ID counter, one RWMutex | `Ingest...`, list queries, `Path`, `Neighbors`, `Node` | a kv store |
| kv stores (`pkg/assembler/kv`) | maps in memory, redis, tikv | `Get`, `Set`, `Scan` | |
| Other backends (ent, arangodb, neo4j, neptune) | a database | queries | the database |
| Certifier (`pkg/certifier`) | components not yet certified | `Certify`, `GetComponents`, `CertifyComponent`, retries | GraphQL server; OSV, ClearlyDefined, EOL, scorecard; the same stream as the collectors |
| Collectsub (`pkg/collectsub`) | entries to collect, subscribers' last view | `AddCollectEntries`, `GetCollectEntries`, `DataSourcesUpdate` | ingestor adds, collectors poll |
| Analytics and REST (`pkg/guacanalytics`, `pkg/guacrest`) | none | topological sort, patch planning, pagination | GraphQL server |

`PROJECT.json` lists the same parts with their files and what of them is
modelled, and under `hazards` what in this code is hard to test.

The hard behaviour is in the keyvalue backend, which is where several requests
meet in shared state, and in the pipeline, where documents cross channels,
processes and an at-least-once stream:

* Every ingestion is optimistic: look under the read lock, release it, take the
  write lock, look again, write. Package ingestion does so four times, once for
  every level, and carries the object read at one level to the write of the next.
* One ingestion is several writes, with no transaction. In a remote store each
  of them, and each read, can fail.
* A memmap hands out the stored object itself, redis and tikv a decoded copy:
  the same code then has different meanings.
* The mutex is Go's RWMutex, which is not reentrant once a writer waits.
* Collectors, certifiers and their consumers meet in channels whose ends are
  decided by error channels, tickers and contexts.

What makes each part correct:

* Package tree: IDs are unique and stable, an ID leads to its node, a package
  once ingested is listed, nodes and child lists only grow.
* Verbs: evidence is stored once, and every subject knows it.
* Lock: sections exclude each other, unlocks match, every request is answered.
* Path: what is returned is a path, a shortest one, and what exists is found.
* List queries: following the cursors visits every match once, and ends.
* Collecting: a document that a collector has sent is emitted, in whatever order
  results, documents and cancellations are noticed.
* Stream: an event leads to a document, and it is acknowledged only when that
  document is in the graph or something of it was refused.
* Ingestor: evidence comes with its nodes, and ingesting again changes nothing.
* Certifier: every component the server lists is scanned in each run, once unless there was a
  retry, and its documents are emitted.
* Collectsub (not modelled): a subscriber is told of every new entry.

## The modules

| Module | What it is |
|---|---|
| `BackendLock` | `demoClient.m` and all the ways in which the backend takes it |
| `PkgTrie` | `IngestPackage`: the tree of types, namespaces, names and versions |
| `IDRegistry` | abstract specification of what package ingestion promises to clients |
| `PkgLinks` | verbs and their backlinks on top of `PkgTrie` |
| `PathQuery` | the search of `Path` |
| `ListPages` | the paginated list queries, and a client that follows their cursors |
| `Documents` | the constant that the modules of the pipeline share |
| `FanIn` | the loop over collectors, or certifiers, of `Collect` and `generateDocuments` |
| `EventStream` | blob store and event stream: `Publish`, delivery, acknowledgement |
| `Assembler` | `Ingest` and the bulk assembler, in several workers |
| `Pipeline` | composes `FanIn`, `EventStream` and `Assembler` as `guaccollect` with `guacingest`, and as `guacone` |
| `Certify` | composes `FanIn` with `Certify`, `GetComponents` and `getPackageNodes` |
| `..._proofs` | theorems and proofs about the module of that name; `PkgTrie_proofs` also that `PkgTrie` implements `IDRegistry`, and `Pipeline_proofs` the lemmas about `Assembler` and `EventStream` |
| `MC...` | small instances for TLC |

Definitions whose name ends in `Bug` are plausible faults of the definition
after them. Nothing uses them; they are there to be put in the place of that
definition, and a property of a run then fails. `PROJECT.json` pairs them
(`mutants`).

### BackendLock

`pc` says where in a backend function each goroutine is, `readers` how many read
locks it holds, `pending` and `writer` who waits in `Lock` and who holds it,
`blocked` whose `RLock` a writer holds back. `RLock`, `RUnlock`, `LockAnnounce`,
`LockAcquire` and `Unlock` are those of Go's `sync.RWMutex`, modelled from its
contract: a writer that waits keeps new readers out, its unlock lets in the
readers that came meanwhile. The remaining actions are the users:
a query (`Found`), a verb or artifact ingestion that finds nothing, works under
the write lock and relocks (`NotFound`, `VerbDone`, `DeferredUnlock`;
`keyvalue/artifact.go:171-197`), a level of `IngestPackage` (`LevelDone`), and
`Path` with its nested read lock (`NextNode`, `NodeDone`, `PathDone`;
`keyvalue/path.go:42-46`, `151`, `154-156`).

Because sections exclude each other (theorem `SectionsExclude`), the other
modules make each critical section one action. They do not need the lock's
state any more. The one exception in the code is `FindSoftware`
(`keyvalue/search.go:131`), which takes no lock; it is not modelled yet.

### PkgTrie and IDRegistry

`store` holds the nodes under `<<level, parent's ID, segment>>`, which is what
`Key()` and the four collections amount to; `index` is the index collection,
`nextID` the counter, `th` the requests. A request of package `p` is at level
`lvl`, holds the parent (`key` and `node`) it read or created one level up, and
either is about to look under the read lock (`pc = "read"`) or under the write
lock (`"write"`).

| Action | Code (`keyvalue/pkg.go`) |
|---|---|
| `IngestPackage` | a request begins, line 368 |
| `ReadFinds`, `ReadMisses` | `RLock`, `byKeykv`, `RUnlock` at each level, e.g. 406-408 |
| `ReadFails` | the same with a failing read: redis and tikv say NotFoundError |
| `RecheckFinds` | the second look under the write lock finds the node |
| `RecheckMisses` | it does not: ID, index entry, node, parent's list, e.g. 416-428 |
| `RecheckFails` | it fails, which looks the same |
| `WriteFails` | one of the writes fails; those before it stay. The node was missing, or the second look failed although it is there (`BothFault`: a read and a write of one section) |
| `Restart` | a new server over a surviving remote store |

`Remote` selects what the parent's list is appended to: the stored object
(memmap) or the copy in hand. `answers` is a history of what clients were told.
Strings are abstract: a segment is a value, hashing a key is injective, and the
segments of a namespace that is nil or empty are one value. Level 1 treats
errors other than NotFoundError differently (line 376); no store produces one
for a read that fails, so the difference has no effect.

`IngestSource` (`keyvalue/src.go`) and `IngestVulnerability` run the same
algorithm over three and two levels, artifacts, builders and licenses over one:
`Depth` is a parameter and the theorems hold for each value.

`IDRegistry` is what clients rely on: a node's ID never changes, no two nodes
share one, nodes are created below existing nodes, and an answer is the chain of
the IDs of its nodes. `PkgTrie` implements it under
`reg <- [k \in DOMAIN store |-> store[k].id]` (property `RegistrySpec`).

### PkgLinks

Extends `PkgTrie` with requests that ingest evidence about one package
(`certifyBad`, on a version or on the name) or two (`isDependency`, `pkgEqual`).
`links` are the stored links, `vth` the requests, `told` the answers. A request
names each subject by what it consists of, or by an ID that some client was
answered before, which is what the bulk assembler sends (`Requests`, `SubjectKey`;
`keyvalue/pkg.go:1236-1275`). It resolves its subjects and looks for the link
under the read lock, and does the same again under the write lock before it
writes index entry, backlinks and link, in that order.

| Action | Code (`keyvalue/isDependency.go`, with the same shape `certifyBad.go`, `pkgEqual.go`) |
|---|---|
| `IngestVerb` | a request begins, line 70 |
| `NoSubject`, `SubjectUnread` | a subject is missing, or cannot be read: the request fails, 105-117 |
| `VerbFinds` | the link is there, 119-122 |
| `VerbMisses`, `LinkUnread` | it is not, or the read fails and says so: the write lock is taken, 129-134 |
| `VerbInserts` | the same under the write lock: the link is written, over one that could not be read, 136-149 |
| `VerbWriteFails` | one of these writes fails, those before it stay |

The counter and the index are shared with the tree, and the backlinks live in
the tree's nodes, which `LinkChild` of `PkgTrie` writes back. The content of the
evidence is left out: one kind stands for one justification, origin, collector
and so on. There are no restarts here: one server process, from its start.

### PathQuery

`neighbors` is the graph, `queue` and `nodeMap` those of `bfs`
(`keyvalue/path.go:83-152`), `path` the reversed path turned round. One step is
one round of a loop. The neighbours of a node come in any order. The `break` at
line 106 is `Limit`. Reads fail in `ExpandFails`, for the neighbours, and in `Return`,
for the nodes of the path (line 151).

### ListPages

`items` is what a query goes through, in that order: the keys of a collection,
sorted, so that `Ingest` puts a new one anywhere; or the nodes of a tree, so that
it comes last among those of its parent. A filter, a cursor and a page size each
cut down the set of places in that sequence: `Matches`, `RestOf` (what the page
may hold) and `Edges` (what it holds). `status`, `after`, `got` belong to a client that reads
page by page (`Begin`, `GetPage`, `QueryFails`; the loop of
`pkg/certifier/components/source/source.go`). A query holds the read lock
throughout and is one action.

The queries differ in three places, each an operator: which nodes come behind
the cursor (`Behind` by position in the list, `Later` and `LaterType` by
comparing IDs as strings, `StringAfter`), whether there is a next page
(`HasNextPage`, `ArtifactsNext`), and what the end cursor is (`EndCursor`: for
sources and packages the ID of a type). The list queries of the other verbs have the shape
of `IsDependencyList`.

### FanIn

`todo` are the documents each collector has yet to send, `docChan` and `errChan`
the channels of `Collect` (`pkg/handler/collector/collector.go:85-129`), `loop`
where the loop is. `TakeDoc`, `TakeResult`, `RefuseResult` and `SeeCancel` are
the cases of its `select`, chosen freely when several are ready; `TakeDoc` and
`Drained` are also the draining loop after it. `SendDoc` and `EndCollector` are the
goroutine of a collector, which may fail after any of its documents.
`generateDocuments` (`pkg/certifier/certify/certify.go`) is the same loop over
certifiers. `cancelled` is the context, `handleErr` what the command's error
handler answers.

### EventStream

`blobs` maps the hash of a document's blob to what was stored under it, `stream`
holds all messages with their state. `Published` and `PublishFails` say how far
`Publish` gets (blob, message, closing the topic); `Deliver`, `Ack` and
`Redeliver` are the stream's contract: a message that was delivered and not
acknowledged may be delivered again, also while it is being worked on.

### Assembler

The parser makes one predicate of each node of a document's tree
(`pkg/ingestor/parser/parser.go:98-107`), and `GetBulkAssembler`
(`pkg/assembler/clients/helpers/bulk.go:36-235`) ingests them one after the other.
`job` is what each worker does: its document, the predicate it is at, the
mutations of it still to be made (`calls`), the error so far, and what HasSBOM
will list. `Before` is the order within a predicate: nouns, each of whose failures
ends the ingestion of the document, then verbs, whose errors are remembered, the
last one winning (`Fail`). `NextPredicate` is the turn of the loop: the lists of
IDs are new, the error is kept. So the verbs of one predicate are in the graph
when a noun of the next one fails.

A mutation fails by the connection or otherwise (`refused`), and a document may
be `rejected` by the processor or the parser. A mutation that fails has had no
effect, its whole effect, or a part of it (`whole`): the resolver ingests the
elements of a list at once, and some verbs are two mutations
(`bulk.go:755-768`). `graph` is a set of facts, because the backend's
mutations are idempotent: `VerbsStable` and `RegistrySpec` say so.

The code sends the nouns of each predicate even when it has none of a kind.
`Predicates` lists those that matter to an instance: leaving one out is leaving
out a step that changes nothing and may fail, as the nouns that are listed may.

### Pipeline

`command` chooses between `guaccollect` with its `guacingest` processes and
`guacone`, whose loop ingests by itself. `holds` is the message that each
`guacingest` works on, `starts` the starts of the collecting process,
`withErrors` guacone's list of files with errors.

| Action | Code |
|---|---|
| `Start`, `Collecting`, `CollectorFails`, `Turn`, `Signal` | `Collect` and its collectors |
| `EmitPublish`, `EmitFails` | guaccollect's emitter: `Publish`, and `Fatalf` on its error, after which the process is started again |
| `EmitIngest`, `EmitIngested` | guacone's emitter: `Ingest` and the list of files with errors |
| `Receive`, `ReceiveUnread` | `Subscribe` gets a message and reads the blob, or cannot read it (`pkg/handler/processor/process/process.go:85-137`) |
| `Working`, `FinishMessage` | guacingest's emitter (`cmd/guacingest/cmd/ingest.go`), and the acknowledgement, which only a connection error prevents |
| `CrashIngest`, `Timeout` | a guacingest dies; the stream delivers again |

### Certify

Three goroutines: `getPackageNodes` (`query`, `next`, `pageEnd`), `GetComponents`
(`get`, `packNodes`, `full`; `pkg/certifier/components/root_package/root_package.go:76-148`) and
`runCertifier` with `Certify` around it (`run`; `pkg/certifier/certify/certify.go:55-140`),
joined by `nodeChan`, `nodeErr`, `compChan` and `runErr`. `Tick` is the ticker of
GetComponents, `Return` its return through `retryWithBackoff`. `FetchFails` is a query
without a result: an `url.Error`, another error, or an answer with no list at
all, which the loop takes for the end (`root_package.go:161-163`). The query that says
which packages need scanning comes before the first page and is part of the
first `Fetch`. When it returns it
closes its channels: a send after that is a panic (`panicked`), and the process
ends. `TakeBatch` starts a round of `FanIn` over the certifiers and
`BatchDone` ends it. `batches` counts, for each package, how often it was sent
to the certifiers in this run.

The keyvalue backend answers the certifier's query in one page
(`QueryPackagesListForScan` without a next page); the pages of this module are
those of the ent backend.

## What is checked

`pass` means that TLC finds no error; `violation` means that it must find one,
because the code does not do what its documentation says. The number of distinct
states is in brackets.

| Run | Result | Shows |
|---|---|---|
| `trie_memmap` | pass (231,000) | three requests, three packages that share three, two or one level, memmap: `TypeOK`, `IndexFindsNode`, `AnswersListed`, `NodesOnlyGrow`, and `PkgTrie` implements `IDRegistry` (`RegistrySpec`) |
| `trie_faults` | pass (2,416,000) | a remote store with a failing read, a failing write, in one section or in two, and a restart, each anywhere: IDs lead to their nodes until the restart (`IndexSurvivesFaults`), and re-ingesting after it gives the same IDs unless a read fails (`AnswersSurviveRestarts`) |
| `trie_remote_listed` | violation of `AnswersListed` | a stale parent, written back, drops a child of another request |
| `links_faults` | pass (1,509,000) | two requests at once for verbs about one version and about pairs, named by input or by ID, over a remote store with a failing read and a failing write anywhere, while their packages are ingested: each ID leads to its owner (`IndexFindsAll`), and until a read fails backlinks are complete (`NeighborsComplete`) and all requests for one piece of evidence are told one ID (`VerbsStable`) |
| `lock_users` | pass (1,780) | exclusion and matching unlocks with all users; as long as nobody asks for a path, every request is answered |
| `lock_path` | violation of `Answered` | the nested read lock of `Path` |
| `path_search` | pass (159,000) | the answer is a path, shortest, short enough; nearer targets are found; the search ends |
| `path_limit` | violation of `TargetFound` | a target at exactly the maximum length may be missed |
| `list_pages` | pass (389,000) | seven queries while others ingest, with IDs that go from one digit to two: where the cursor agrees with the order every node is listed once (`ListedOnce`), a dependencies query that promises a page has one (`PromisedPage`), and paging ends except through the nodes of one type (`PagingEnds`) |
| `list_sources` | violation of `AllSources` | the end cursor of a page of sources is the ID of a type, which no source has |
| `pipeline` | pass (801,000) | both commands, with one misfortune anywhere: a connection, an answer, a process, a publication, a collector, a refused mutation, a rejected document, a signal. Sent documents are emitted (`SentEmitted`), events lead to blobs (`EventsReadable`), evidence has the nodes of its own and of earlier predicates (`VerbsHaveNouns`), no SBOM is incomplete, mixed up or doubled without a failure (`SBOMOnce`), no document is lost by connections and crashes (`ConnectionsLoseNothing`) or left out of guacone's report (`OneReports`), every message is acknowledged in the end (`SentAcked`), and `Collect` returns (`CollectReturns`) |
| `certify` | pass (412,000) | a polling certifier with two misfortunes anywhere: every package that the server listed is scanned (`AllScanned`), once without a retry (`ScannedOnce`), its document emitted (`AllEmitted`); batches are bounded (`BatchBound`), closed channels unused without a cancellation (`NoSendOnClosed`), and each run ends (`RunEnds`) |

The violations are described under `findings` in `PROJECT.json`, with the
documentation they contradict. `trie_remote_listed` needs a redis or tikv store,
which the flags call experimental (`keyvalue/backend.go:49-50`).

The passing runs state some properties under a condition, and the
condition says what the code does not give:

* Over a remote store `AnswersListed` is not claimed. `trie_remote_listed` shows one
  way in which it is lost. Another is a write that fails after the node was
  stored (`keyvalue/pkg.go:424`): the retry finds the node, answers, and its parent
  never lists it.
* A read that fails over redis looks like a missing key
  (`pkg/assembler/kv/redis/redis.go:53`), and ingestion then replaces a node or a
  link. So `AnswersSurviveRestarts`, `VerbsStable` and `NeighborsComplete` hold until
  a read fails.
* A restarted server counts from zero over a store that kept its nodes
  (`keyvalue/backend.go:235`). The first new node gets the ID of an old one, and its
  index entry. So `IndexSurvivesFaults` stops at a restart.
* A package name is written back as it was read, without the backlinks it got
  since (`keyvalue/pkg.go:492`). So over a remote store `NeighborsComplete` is
  checked and proved for evidence about versions.
* The IDs of a package's dependencies are compared as strings, and 10 sorts
  before 9. So `ListedOnce` asks for `InCursorOrder`.
* A cursor that names a type is behind all or none of its nodes: a client that
  follows it through the sources or packages of one type can get the same page
  again and again. So `PagingEnds` leaves these two queries out.
* A document of which the server refused something is acknowledged all the same
  (`cmd/guacingest/cmd/ingest.go:134`), although the comment in front of the
  acknowledgement says that the ingestion has occurred
  (`pkg/handler/processor/process/process.go:136`). So `ConnectionsLoseNothing`
  excepts it.
* A later error that is no connection error hides an earlier one that is
  (`pkg/assembler/clients/helpers/bulk.go:132`), with the same effect: the same
  exception covers it, and no property tells the two apart.
* A document that failed and is ingested again may get a second SBOM, with other
  lists. So `SBOMOnce` is about documents without a failure.
* A noun of a later predicate may fail when the verbs of an earlier one are in
  the graph. So `VerbsHaveNouns` is about the nodes of the evidence's own
  predicate and of those before it.
* A cancelled `GetComponents` closes its channels while the query goes on, whose
  next send panics. So `NoSendOnClosed` supposes that nothing is cancelled.
* An answer without a list ends the query like the last page
  (`root_package.go:161`), and the keyvalue backend gives one when it does not find
  one of the packages asked for (`keyvalue/search.go:464-480`). So `AllScanned` is
  about the packages of the pages that were answered.

### Bounds

* Packages: two versions of one package and, in the larger runs, another name in
  the same namespace. So there are siblings at two levels, and levels that all
  requests share. A race needs two requests at one node or at one parent; a
  third request is there in `trie_memmap` to read between two writers.
* `MaxID` stops insertion when the counter reaches it. Seven is what three
  packages need (4 + 1 + 2); with a failing write one ID is lost and the runs
  still insert after it.
* One failing read, one failing write, one restart: a second of the same kind
  meets the same states. The two may fall into one section. The theorems have no
  such bound.
* `PkgLinks` uses two levels. Only names and versions carry links, and the two
  levels above them are modelled in full by `PkgTrie`. `certifyBad` stands for
  verbs with one subject and `pkgEqual`, in both orders, for those with two; five
  IDs are the three nodes and two links, or a link lost in a failed write and its
  retry. A race needs two requests for one link, and a third request that
  writes packages back. What is left to the theorems: `isDependency`, whose
  writes are those of `pkgEqual` under another key, and names.
* Three nodes for `PathQuery`: all 512 graphs, self-loops included, all
  endpoints, lengths up to three, which is more than any shortest path has.
  `path_limit` looks at four nodes, without self-loops, to find the shortest
  counterexample.
* `ListPages`: four nodes with the IDs 8 to 11, so that numerals change their
  length in the middle; three parents, two of one type; pages of one, of two and
  unlimited. Two pages and a rest need no more.
* `Pipeline`: two collectors with a document each. One has packages only. The other
  is a tree of two SBOMs, the first with dependencies and the second without: so a
  list that is carried over shows, and a noun of the second that fails after the
  verbs of the first. Leaving out the nouns of the first takes away states in which
  nothing else is in the graph yet. A channel of capacity one, which blocks the
  second sender; two workers, so that a message is worked on twice at once; four
  messages and two starts, which is what one failing publication and its retry
  need. The documents have different blobs; that shared blobs do no harm is part
  of the theorems (`EveryEventLeads`, `NothingLost`).
  `MaxFailures` is one, because failures of different components meet only through
  the messages and facts they leave; the theorems have no such bound.
* `Certify`: four packages in two pages, one of them skipped, with the second
  page shorter than the first; batches of one, so that there are two or more;
  channels of capacity one; two tries and two misfortunes, so that a retry can
  fail again or be cancelled. No new run starts while one that was cancelled
  still goes on: the guard of `StartRun` says so.
* Three goroutines for `BackendLock`: a reader, a writer and one that comes
  in between.
* Requests, nodes of `PathQuery` and the two versions of `PkgLinks` are
  interchangeable, so runs that check safety only use symmetry; runs with a
  liveness property do not.

Deadlock is checked except where the system may stop: `path_...` (a query ends),
`lock_...` (path queries do deadlock, as `lock_path` shows), `trie_faults` (a
lost ID brings the counter to its bound), `list_...` (the client is done),
`pipeline` (everything is ingested) and `certify` (the certifier has ended,
failed or panicked).

### Fairness

`BackendLock` assumes that a goroutine that can run runs (weak fairness of
`Step`, the Go scheduler), that a writer that finds the inner mutex free again
and again gets it (strong fairness of `LockAnnounce`: Go's `sync.Mutex` goes
into starvation mode after a millisecond and hands itself to the longest
waiter), and that a path has finitely many nodes (strong fairness of
`PathDone`). `PathQuery` assumes that the loop goes on, `ListPages` that a query is
answered. There is no fairness on requests: clients need not ask.

`Pipeline` assumes less than the Go scheduler and the operating system give, each by
weak fairness: that the collecting side (collectors, loop, emitter, and whoever starts
the process again after a `Fatalf`, within `MaxStarts`) does something as long
as it can, that the workers together do, and that the stream delivers again what
is not acknowledged in time, which is its contract. Which of its goroutines
runs is left open.
`Certify` assumes that each of its goroutines runs. Neither assumes anything of
failures, signals or tickers: `CollectReturns` and `RunEnds` hold whether or not
they come. `SentAcked` needs that failures end, as `MaxFailures` has it; a
connection that fails for ever keeps its message unacknowledged for ever.

## What is proved

| Theorem | Says | Assumes |
|---|---|---|
| `PkgTrie_proofs!TypeCorrect` | `Spec => []TypeOK` | the named assumptions on constants |
| `PkgTrie_proofs!IndexSurvives`, `IndexCorrect` | `IndexSurvivesFaults` always holds, and hence `IndexFindsNode` without restarts | nothing; `MaxRestarts = 0` |
| `PkgTrie_proofs!AnswersSurvive` | `AnswersSurviveRestarts` always holds | nothing |
| `PkgTrie_proofs!RegistryRefined` | `Spec => RegistrySpec`: `PkgTrie` implements `IDRegistry`, over both kinds of store and with any failing writes | `MaxRestarts = 0`, `MaxReadFaults = 0` |
| `PkgTrie_proofs!MemoryLists`, `MemoryGrows` | `AnswersListed` always holds; no step violates `NodesOnlyGrow` | `~Remote` |
| `PkgLinks_proofs!LinkTypeCorrect`, `LinkIndexCorrect` | `LinkTypeOK`, `IndexFindsAll` always hold | the named assumptions |
| `PkgLinks_proofs!VerbIDsStable` | `VerbsStable` always holds | the named assumptions |
| `PkgLinks_proofs!VerbNeighbors` | `NeighborsComplete` always holds | over a remote store no verbs about names |
| `BackendLock_proofs!TypeCorrect`, `SectionsExclude`, `NoUnlockPanics` | `TypeOK`, `Exclusion`, `UnlocksHeld` always hold | |
| `PathQuery_proofs!TypeCorrect`, `PathCorrect`, `PathIsShortest`, `NearTargetIsFound` | `TypeOK`, `PathSound`, `PathShortest`, `NearTargetFound` always hold | finitely many nodes |
| `ListPages_proofs!ListTypeCorrect`, `EachListedOnce`, `PromiseKept` | `ListTypeOK`, `ListedOnce`, `PromisedPage` always hold | the named assumptions |
| `Pipeline_proofs!TypeCorrect`, `NoDocumentOvertaken`, `EveryEventLeads`, `EvidenceHasNodes`, `OneSBOM`, `NothingLost`, `NothingUnreported` | `PipeTypeOK`, `SentEmitted`, `EventsReadable`, `VerbsHaveNouns`, `SBOMOnce`, `ConnectionsLoseNothing`, `OneReports` always hold | the named assumptions |
| `Certify_proofs!CertifyTypes`, `NoPackageMissed`, `NoDocumentMissed`, `NoPackageTwice`, `BatchesBounded`, `SendsOnOpen` | `CertifyTypeOK`, `AllScanned`, `AllEmitted`, `ScannedOnce`, `BatchBound`, `NoSendOnClosed` always hold | the named assumptions: the server lists a package once, at least one certifier |

Where an assumption excludes something, the code does not survive it. A failed
read over redis makes ingestion replace a node, under a new ID, which is no step
of the registry (`MaxReadFaults = 0`). And `addVersion` stores a package name that
was read earlier, without the backlinks that verbs have added to it meanwhile
(`keyvalue/pkg.go:492`), so that over a remote store
`NeighborsComplete` is proved for verbs about versions only. The bounds on
failing reads and writes, IDs, requests and everything else are arbitrary.

The steps of `FanIn` are proved about once, in `FanIn_proofs`, those of
`Assembler` in the first half of `Pipeline_proofs`, those of `PkgTrie` in
`PkgTrie_proofs`; `Pipeline_proofs`, `Certify_proofs` and `PkgLinks_proofs` build
on them.

*Types of the tree.* `TypeOK` is not inductive, because an insertion writes the
node in a request's hand. `TrieInv` adds that this node is one level up and that
its key is in the store (`InHand`), which survives every fault and restart
because keys are never removed.

*Index.* `IndexInv` adds that every stored ID, and also the ID of every node in
hand, is at most the counter and is mapped by the index to that node. The node in
hand must be included: over a remote store it overwrites the stored one. An
insertion uses the next number, so it disturbs no entry, and writes the entry
before the node, so that a write that fails leaves an entry without a node and
never a node without an entry. Failing reads do not break it either. A restart
breaks the first conjunct: the counter starts again at zero. So what is
invariant is `restarts = 0 => IndexInv`, and `IndexSurvives` needs no assumption.

*Registry.* `ChainInv` says that a request has climbed down a
chain of stored nodes whose IDs it has noted, that the parent in its hand is the
last of them, and that every answer is such a chain. So a parent written back,
however old, has the ID its key has in the store, no ID ever changes, and,
with `IndexInv`, the step that completes a chain is the registry's `Answer`. The
theorem is why a stale parent can lose children (`trie_remote_listed`) and never
an ID. A failed read breaks `ChainInv` (a stored node is replaced); a restart does
not, because it is about keys and not about the counter. `OneChain`: two chains of
one package agree on the first ID, whose key is the package's alone, and then on
each further one, whose key names the one before. So answers of one package agree
across restarts, whatever the counter does (`AnswersSurvive`).

*Memmap.* `ListedInv` adds that every stored node is in the list of the node
above. It needs a store in which the parent's list is the current one, and in
which node and list cannot be written one without the other: over a remote store
the first fails (`trie_remote_listed`), and a failing write takes the second.

*Verbs.* `PkgLinks` runs on the invariants of the tree: a step of a package
request is one of `PkgTrie`, and a step of a verb request changes only the
backlinks in the store, so that `IDsStay` and with it `ChainInv` survive.
`LinksIndexed` extends `IndexInv` to the links. For `VerbsStable`, `ToldStored` says
that what a request was told is the link stored under the verb's key. The key is
made of the IDs of the subjects, which the request found by walking down the tree
again: the walk is a recursive function, `FoundStays` shows that it finds the same
nodes for ever once it found any, by induction along the levels, and `RootKeys` that no
node below the first level is taken for a root. So two requests for the same verb
reach the same key, whichever subject `pkgEqual` names first. For
`NeighborsComplete`, `LinksBack` says that every stored link is among the backlinks of
its subjects, and that these are `Owned`: stored nodes that no request
writes back from a copy. Both hold until a read fails, when a link or a node may
be overwritten; `LinksIndexed` goes on to hold, since what is overwritten takes a
new number. In a memmap all are, over a remote store the nodes of the
last level only, which are nobody's parent. A link is written after its
backlinks, so a failing write leaves a backlink without a link, which breaks
neither.

*Lock.* `LockInv` says how many read locks each goroutine holds at each place,
that there is at most one writer, pending or not, and that a blocked goroutine
is one that asks. Exclusion and matching unlocks are read off it.

*Path.* `PathInv` says that the nodes seen form a tree of edges rooted at the
subject, in which `depth` is the distance from the root and at most the maximum
length; that everything queued has been seen; and that the path built so far
starts at a node of the tree whose depth is still to be walked.

*Shortest path.* `BreadthFirst` adds to `PathInv` that the nodes still to be
expanded are all queued, in the order of their depths, which differ by at most
one (`Ordered`), and that every neighbour of an expanded node was seen, at most one
level deeper. A node may be queued many times, so this speaks of the first
occurrence of each. Hence, by induction on the distance, every node within
distance `d` of the subject has been seen at a depth of at most `d` once
no node of a smaller depth is waiting (`SettledNear`); the distance is a
recursive function, unfolded by `WithinInduction`. When the target is taken from
the queue, all nodes of smaller depth are expanded (`PathIsShortest`); when the
queue is empty or its head is at the maximum length, all nodes near enough have
been seen, and the target would have ended the search (`NearTargetIsFound`).

*Lists.* `ListInv` holds the types, and that IDs are unique and below the counter.
An insertion at any place keeps the order of the others (`InsertsOrder`). `Reading`
says that there is a place, that of the node with the cursor, up to which the
client was given everything that was there at the start and behind which it was
given nothing; as the place of a node and not a number it survives what is
inserted in front of it. `RestBehind` shows that the next page begins right behind it: by
position, where IDs are unique; by comparing numerals, where the order of
the list is that of the numerals, since that comparison is asymmetric
(`AfterIsAsymmetric`, about `Digits`, a recursive function that `DigitsAre` unfolds).
`EdgesIs` says what a page of a given size takes, and `LastIsAll` that the page after
which the client stops holds all that is left. `Promised` is
inductive with `ListInv`: there is a match behind the one with the cursor, and
nothing removes it.

*Loop.* `FanInv`: a collector whose result was sent has nothing left to send; as long as
the loop runs, what was sent is in the channel or emitted; the loop drains
only when every result was taken or the context is done. So when the channel is
empty then, nothing can still come.

*Stream.* `StreamInv`: each message's key has a blob, and each blob lies under its
own key. A blob is never removed, and it is written before its key is sent.

*Ingestion.* `AssemblerInv` says of every job in hand (`JobInv`): the predicates
before the one it is at are in the graph with all their nodes; as long as nothing
failed, each mutation of those and of the present one is still to be made or is in
the graph as it should be, an SBOM with all it includes; as long as mutations are
left, the nouns that are not among them are in the graph, also after a failure;
and a remembered error is on record. `HoldInv` says that a worker works on the
document its message leads to, `OneInv` and `EmittedInv` the same of guacone's
loop. So an acknowledgement finds a complete document, a rejection or a refusal.

*Certifier.* `BatchInv` bounds the batch in hand and empties it with the return of
`GetComponents`. `QueryInv` says that `GetComponents` returns after the query,
unless cancelled. `ScanInv` says where the packages are that the query has
passed: in the node channel, in the batch in hand, or in a batch that was sent;
when all of the last page have been passed and the first two are empty, all that
were listed have been sent. `ListInv` adds that without a failure the last page is
the end of the list, which `AllEmitted` needs.
`OnceInv` says that without a retry these places exclude each other.
`EmitInv` follows the batches: each is in `compChan`, or with the certifiers, or
its documents were emitted, the last by `FanInv` of the round that ends.

Induction over data goes through sets: `Nat` is well founded (`WFMin` of the library),
so a set of numbers that is not empty has a least element, and a set that holds 0
and with every number the next one holds all (`SetInduction`). That a recursive
function on numbers satisfies its defining equation is proved in the same way, by
building its restriction to `0..k` for every `k`.

Every safety property and every action property of the passing runs is stated by a
theorem. Only model-checked: liveness (`AnsweredWithoutPath`, `Terminates`,
`PagingEnds`, `SentAcked`, `CollectReturns`, `RunEnds`), because a proof from
fairness needs ENABLED, which the prover does not handle; and the four violations, which
are counterexamples.

## What is not modelled, and the plan

Done: `BackendLock`, `PkgTrie`, `IDRegistry`, `PkgLinks`, `PathQuery`,
`ListPages`, `FanIn`, `EventStream`, `Assembler`, `Pipeline`, `Certify`. What
would come next, in this order:

1. `PkgLinks`: the verbs whose subjects are artifacts, sources or vulnerabilities
   (`hashEqual`, `hasSBOM` with its included IDs, `isOccurrence`, `certifyVuln`,
   ...), each with its subjects, its key and the order of its writes. And
   between a failed write and its retry a backlink leads to a link that does not
   exist (`keyvalue/isDependency.go:144`).
2. `CollectSub`: the entry database, `GetDataSources` and the update poll, which asks
   with an empty list of filters (`pkg/collectsub/datasource/csubsource/csubsource.go:77`).
3. The collectors' own loops: OCI digests, kept by load, append and store from
   several goroutines (`pkg/handler/collector/oci/oci.go:497`), the S3 listing, which
   starts again after a full last page (`pkg/handler/collector/s3/s3.go:138`), and
   the poll time of the file collector (`pkg/handler/collector/file/file.go:111`).
4. Pure algorithms: the topological sort and the frontiers of patch planning,
   REST pagination, the parallel filter directive.

Inside the modelled parts these are left out:

* `ListPages`: `totalCount`, and `IsDependencyList` for a package that is not
  there, which lists everything.
* `Assembler`: `MergedIngest`, which batches documents, and the converters of the parsers.
* `EventStream`: that the hash covers the blob only and not the document's type;
  publishing without the queue.
* `Certify`: the sleeps between retries, a Fatalf of the emitter, and
  registration, which is over before `Certify` is called.
* `FindSoftware` scans without the lock (`keyvalue/search.go:131`): a data race on a
  Go map, with outcomes no model of the store could enumerate.
* The exact-match shortcut of artifacts and the filters of the list queries,
  beyond whether a node matches.

Left out for good: the other backends, whose concurrency is their database's;
parsers and converters of document formats; calls to outside services; generated
GraphQL and ent code, which is most of the repository's lines; flags, logging and
metrics; the contents of evidence.
