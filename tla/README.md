# Code Graph in TLA+

code-graph is an MCP server. It indexes source checkouts into one SQLite graph per project, keeps them up to date in the background, and answers questions about them.
Two kinds of errors escape its tests.
One is *between* parts: two goroutines or two processes at one database, a checkout that moves while it is read, a run that fails or dies half-way, a cache or a hash that is older than what it vouches for.
The other is *inside* the parts that compute: an answer that is cut without saying so, a filter after a page was cut, a name that binds to the wrong definition, a verdict that an observation does not warrant — right on every input somebody thought of.
These modules model, check and prove both: state machines for the first, operators over bounded inputs, compared with what the question means, for the second.

Paths below are relative to the repository's root (`src/` in `PROJECT.json`).

## 1. Inventory

### The parts and their state

| Part | Code | State | Operations |
|---|---|---|---|
| Store router | `internal/store/router.go` | map project → `storeEntry{store, refs, lastUsed}`, the files in the cache directory | ForProject, AcquireStore/ReleaseFunc, HasProject, ListProjects, DeleteProject, evictIdle, CloseAll |
| Database opening | `internal/store/store.go` | `.db`, `-wal`, `-shm`, `.bulkwrite-crash-marker`; journal mode, synchronous | OpenPath, BeginBulkWrite/EndBulkWrite, WithTransaction, Close |
| Tables | `internal/store/nodes.go`, `edges.go`, `projects.go` | nodes, edges, embeddings, projects | upserts and deletions, batches in chunks |
| Indexing runs | `internal/pipeline/pipeline_run.go`, `pipeline_incremental.go` | nodes, edges, `file_hashes`, `incrementals_since_full` | Run: classify, then full, sentinel, no-op, capped or incremental; updateFileHashes |
| Entry points of runs | `internal/tools/index.go`, `tools.go` | `indexMu`, `index_identity` row, skips sidecar | handleIndexRepository, syncProject, runAutoIndex |
| Watcher | `internal/watcher/watcher.go` | watch list, one `projectState` per project | poll, probe of a strategy, downgrade, upgrade, forced snapshot, prune |
| Discovery | `internal/discover` | none | Discover, ignore rules of `.cgrignore` and git |
| Extraction workers | `internal/cbm/isolate/isolate.go` | channel of N slots, worker processes | Extract, spawn, kill, Close |
| Resolution and edges | `internal/pipeline/resolver.go`, `typeinfer.go`, `pipeline_cbm.go`, `pass_*.go` | registry, import maps, graph buffer | extract, register, resolve, flush |
| Links and imports of evidence | `internal/httplink`, `internal/pipeline/scip_ingest.go`, `internal/codeqlimport`, `internal/traces` | edges and their properties | link, ingest, import, confirm |
| Evidence | `internal/evidence`, `internal/tools/relationship_evidence.go` | one request's captured identity | capture, read the graph, capture again, answer or refuse; build and validate proofs |
| Embeddings | `internal/embed`, `internal/pipeline/pass_embeddings.go`, `internal/store/embeddings.go` | the embeddings table, one slot of vectors per process | provider, batch, pass, search |
| Query cache | `internal/store/cache.go` | LRU with a time to live | Get, Set, Invalidate |
| Questions | `internal/cypher`, `internal/store/search.go`, `traverse.go`, `impact.go`, `architecture.go`, `louvain.go`, `internal/tools` | none | plan, execute, search, walk, summarise |
| Localization | `internal/locagent`, `internal/anthropic` | one call's loops and messages | request, tool call, finalize, fuse |
| Artifacts, migration, updates | `internal/artifact`, `internal/store/migrate.go`, `internal/selfupdate`, `cmd/code-graph` | files | export, import, migrate, replaceBinary |
| Domain linkers, configuration, installer | the rest | little | match, read, format |

`PROJECT.json` lists all of them, also those not modelled, with the reason.

### How they interact

```
  MCP client --> tools/* handlers --ForProject--> StoreRouter --OpenPath--> <project>.db (+wal, shm, marker)
                     |  indexMu    \                ^   ^
                     v              query cache     |   | evictor (every 5 s, idle 30 s)
                 Pipeline.Run --Extract--> worker pool   vector cache (one slot per process)
                     ^       \--embed--> HTTP server
  startAutoIndex ----+        Watcher.poll --AcquireStore, indexFn = syncProject
  other processes (CLI, second server) share the cache directory, not the mutexes
```

`indexMu` makes runs of one server exclusive; nothing makes readers wait for a run, and nothing at all coordinates processes.
A run writes in one transaction with the journal in memory, and tells readers by the `index_identity` row (pending, error, captured) whether the graph describes a checkout.

### What is hard, and what correctness means there

* *Runs against the checkout.* Files are read three times (extraction, hash, stat), the checkout moves at will. Correct: a graph labelled with an identity was extracted from that identity.
* *Readers against runs.* Evidence is gathered statement by statement; answers and vectors are cached. Correct: what is answered describes the checkout at the answer, and a cache holds its own project's data, current unless a known race made it late.
* *Runs against earlier runs.* An incremental run must give what a rebuild would, or be counted until a rebuild comes; rows are written from ids read earlier.
* *Clients against eviction, deletion, shutdown.* Correct: nobody's store is closed under him; what is deleted stays so.
* *Crashes and power loss* inside the unjournalled window, and between the file operations of artifacts, migration and updates. Correct: damage is marked, never served; something that works remains.
* *Change detection* with three mechanisms that each lie in their own way. Correct: every change is indexed in the end.
* *Foreign processes and servers* that crash, hang, answer late, twice or wrongly. Correct: no slot is lost, no answer goes to the wrong request, every call ends; every call of a tool has its result; every vector is its node's.
* *Limits*: rows, depths, pages, turns, chunks. Correct: an answer that does not say it is cut is whole.
* *Names and evidence*. Correct: what a file imports from elsewhere is never the project's own; a verdict is earned.

`PROJECT.json` "hazards" lists every place with its line and the properties that guard it.

## 2. Modules

| Module | Models | Run | Proofs |
|---|---|---|---|
| `IndexCoherence` | one project: checkout, database, the three entry points under `indexMu`, evidence requests | `index_runs`, `index_live_edits` | `IndexCoherence_proof` |
| `EvidenceContract` | abstract: what an evidence answer promises | refined in `index_runs` | `IndexCoherence_proof` |
| `GraphUpdate` | sequences of runs and edits: what incremental runs do to nodes and edges | `graph_update` | `GraphUpdate_proof` |
| `Caches` | query cache and vector slot against runs, queries and searches | `graph_update`, `caches_pool` | `GraphUpdate_proof` |
| `GraphStore` | the tables, and a writer of batches between other statements | `tables` | `GraphStore_proof` |
| `StoreRouter` | one project's entry, its handles, and all kinds of clients | `router` | `StoreRouter_proof` |
| `Watcher` | the watcher on one project | `watch` | `Background_proof` |
| `WorkerPool` | `isolate.Pool` | `worker_pool` | `Background_proof` |
| `BulkWrite` | the files of one database, processes, crashes and power loss | `operations` | `Operations_proof` |
| `Artifacts`, `SelfUpdate`, `Migration` | export and import, update, the one-time migration, each with kills | `operations` | `Operations_proof` |
| `LocAgent` | iterations and turns of the localization agent | `operations` | `Operations_proof` |
| `Cypher`, `Search`, `Architecture`, `Communities` | the questions | `answers` | |
| `Traversal` | the questions that walk the graph | `answers` | `Walks_proof`; `Answers_proof` (cycles) |
| `CallResolution`, `ResolutionPasses` | from a name at a call site to an edge | `answers` | |
| `HttpLinks` | routes, prefixes, calls between services | `answers`, `included_routers` | |
| `Evidence`, `EvidenceSources`, `ScipIngest` | references, proofs, where observations come from, compiler indexes | `answers`, `scip_stale` | `Answers_proof` (not `EvidenceSources`) |
| `Files`, `Embedder` | discovery and `read_file`; providers, batches, vectors | `answers` | `Answers_proof` (`Embedder`: all but the search) |

Modules named `MC...` only instantiate them for TLC: `MCAnswers` and its parts (`MCOverview`, `MCResolution`, `MCHttp`, `MCEvidence`, `MCScip`, `MCFilesWalks`) draw one question per behaviour from bounded sets; `MCFilesWalks` also has the questions about files and about walks as specifications of their own (`FileSpec`, `WalkSpec`), for the proofs; `MCOperations` lets a behaviour be one of five; `MCGraphUpdate`, which extends `GraphUpdate` and `Caches`, one of two; `Watch`, `Pool` and `CachesPool` run their modules as they are. What shares a run shares no state: it is put together so that each run is worth its time.

The state machines meet at their borders: `IndexCoherence` assumes a store that stays open (`StoreRouter`), a transaction that is atomic (`BulkWrite`), and a graph that an incremental run computes correctly from its inputs (`GraphUpdate`); `GraphUpdate` writes rows as `GraphStore` promises; `Watcher` calls an abstract run that is `IndexCoherence`'s. A full composition would multiply their state without adding an interaction: what one part sees of another is a handful of values, named in each module's header. Where parts do interact through shared state they are one module: runs, identity and evidence in `IndexCoherence`; runs, queries and searches at one connection and one lock in `Caches`; processes at one set of files in `BulkWrite`.

### IndexCoherence

A content is a model value; the graph is the content each file's rows were extracted from, `hash` the `file_hashes` rows (content and mtime), `ident` the envelope of `index_identity`.
`BeginHandler`, `BeginSync`, `BeginAuto` are the three entry points up to `Pipeline.Run`; `Discover`, `ClassifyFull`, `ClassifyNoop`, `ClassifyIncremental`, `Scan`, `HashFile`, `StatFile`, `Commit`, `WriteSkips` and the finishing actions follow the code's order, one file at a time where it reads files. Every error return and a crash at any step are actions. `Reader`s are evidence requests with their two captures.
Two Boolean constants name assumptions on the environment: `LiveEdits` (edits during a run) and `Reverts` (content that comes back). The guarantees hold when both are `FALSE`; `index_live_edits` lifts the first.
A run is `blind` when it takes an existing project for a new one: `index_repository` because the read of the project's row failed and its error is dropped (`internal/tools/index.go:100`), auto-index because it looked before it had the lock. Such a run leaves the old identity where it is until its last write. `overlooked` is history: rows were committed under an identity by a run that had not seen it.

### GraphUpdate

`disk` is the tree; every file has definitions and references, and a node `Top` of its own. `owner` is the nodes table (qualified name → `file_path`), `edges` the edges table, `hashes` the hash rows, `isf` the counter of incremental runs. `Resolves`, `Home`, `Proven`, `EdgeType` are the resolver's cascade (import map, same module, unique name, best candidate) reduced to modules that are equally near; `CallResolution` has the whole of it. `Run` is the classification and the five ways a run can take; `Surviving` is the foreign-key cascade, `Dropped` is `deleteResolvableEdges`, `ToResolve` the changed files with `findDependentFiles` and `findCallerOfTargetDependents`.
`seen` (the tree of the last run) and `parsed` (what each file's nodes come from) are history. A run here is one step: what edits do in its midst is `IndexCoherence`'s subject.

### Caches

A graph is its version, the run that wrote it. A run holds its project's only connection from begin to commit, invalidates the vectors inside and the answers after; it may fail at every step. A query reads, computes, stores; a search takes the cache's lock, loads if the slot is another's, and reads the slot after the lock is gone. `late` marks an answer or a slot that was filled by a read from before an invalidation.

### GraphStore

Ids grow and are never given twice; a batch of edges holds ids looked up when it was made. `InsertChunk` is one statement per chunk; a chunk whose statement fails is repeated row by row. `meant` is history: which names a row's ids stood for.

### StoreRouter

One project. Handles are numbered; a file is named by the handle that created it, so a file re-created after a deletion is another file. Clients are index runs, queries (`ForProject`, no ref), the watcher, `list_projects`, `delete_project`. Router operations are atomic (they hold `mu`); what clients do in between, and DeleteProject's removal of files after its unlock, are steps of their own. History: `gone`, `raced`, `slow`.

### BulkWrite, Artifacts, SelfUpdate, Migration

`BulkWrite`: the four files, the journal mode and synchronous setting, one write transaction, pages spilled by SQLite's cache. `Check` and `Connect` are OpenPath, `Mark`, `Switch`, `BeginTx`, `EndTx`, `Restore`, `Unmark` the life of a run, whose marker may fail to be created or to be removed, `Cancel` the client's cancellation, `Kill` and `PowerLoss` the crashes; `HasProject`, `DeleteDb`, `DeleteSidecars` the remedy. SQLite is modelled by its documented guarantees and is external. History: `shared` (two processes had the database open), `cutshort` (EndBulkWrite ran with a cancelled context), `bare` (a run went on without the marker it could not create).
In `SelfUpdate` a file has a mode: what `copyFile` makes is not executable, so a restored `.bak` has the contents of the old binary and not its mode.
The other three are sequences of file operations with a kill between any two and whatever an earlier command left behind; `Migration` also has every SQL error.

### Watcher

Contents are stamps, commits a sequence of contents. A poll is `Sentinel` and its successors (`pc`: probe, capture, index, indexing, advance); between any two of them the tree, git, the watch list and the database may change. `missed` collects why git will not see a difference: content that *returned* to the commit (discarded edits, a branch left and returned to), a *baseline* taken before the first run, HEAD that could not be read (*headless*), an *upgrade* to git before the change was indexed, HEAD read *late*.

### WorkerPool

The channel is the set of idle workers and the number of nil slots. Calls take a slot, check the worker, spawn, send, wait; workers answer, crash, hang, die idle; calls time out or are cancelled; Close drains N slots. Names of workers are reused once a process is gone.

### LocAgent

What the model says is any sequence of blocks of `Replies`; what the tools return is left out but for the fact that each call has one result. Requests are repeated or given up as `CreateMessage` does. `result` is what `Run` returns: `aggregateByMRR` ranks by the sum of reciprocal ranks in exact arithmetic: `Unit`, what a first place scores, is a multiple of every rank up to `TopK` (`AgentAssumption`), where the code's floats round.

### The questions

`Cypher` evaluates a query by the four routes of the code (an aggregate in SQL, one JOIN, a batch per hop, a breadth-first search), each with its own filters and caps, and compares the result with `Matches`: all matches of the pattern. `Traversal` holds the store's searches and the tools that conclude from them; `Search` is SQL's narrowing, Go's filters and paging; `Architecture` and `Communities` are the overview, its clusters (with another order of the nodes in each round, and with the names that order the stored communities readable or not), the decision record and the service map.
Where the code iterates over a Go map or a query has no ORDER BY, the operator yields the set of possible answers, and the property speaks of all of them.

### Resolution and links

`CallResolution` follows resolver.go strategy by strategy, with confidences in ten-thousandths; `ResolutionPasses` has the facts it rests on and the edges that are no calls. `HttpLinks` starts from the matches the patterns find (a scope opened, a route declared, a router mounted) and ends with HANDLES and HTTP_CALLS edges and their scores.

### Evidence

`Evidence` has references whose ids are made of canonical contents, beside the schema version that validation does not look at, their validation and `BuildRelationshipProof`'s verdict. `EvidenceSources` says where observations come from: graph edges with their provenance, search results, spans, CodeQL paths. `ScipIngest` replaces guessed CALLS edges between covered files by those of an index, unless a file drifted; a batch of deletions may fail, and rows of the insertion may be dropped while the others stay. Its constant `sort(_)` is Go's sort.Strings, which gives a set of files the order in which batches are made of it.

### Files and Embedder

`Files`: a tree with rules at its directories, Discover's walk and filters, `index_health`, and the slices `read_file` gives of the first megabyte (`ReadBytes`) of a file: a text is its size and the places of its newlines. `Embedder`: the settings, a script of replies of the server (good, short, shuffled, repeated, of another width, an error to retry or not, an end of the context), what the client accepts, the rows that are stored, and the cosine search over them.

## 3. Runs

| Run (configuration) | Instance | Distinct states | Question |
|---|---|---|---|
| `index_runs` (`IndexRuns`) | 2 files, 2 contents, 1 request, 2 edits | 3.61 million | can a run, a failure or a crash leave a label on rows it does not describe, and do requests implement `EvidenceContract`? |
| `index_live_edits` (`IndexLive`, violation) | 2 files, `LiveEdits` | | does the label survive edits during a run? |
| `graph_update` (`Graph`) | 3 files, 2 layouts, 4 edits, limit 2, cap 2; 2 projects, 1 query, 2 searches, 2 runs | 433,000 | do incremental runs match a rebuild where they should; whose data do the caches hold, and how old? |
| `caches_pool` (`CachesPool`, violation) | 1 search, 1 run | | can a search and a run wait for each other? |
| `tables` (`Tables`) | 2 projects, 2 names, 3 ids, chunks of 2 | 252,000 | do batches made of old ids join the wrong nodes or lose rows silently? |
| `router` (`Router`) | 3 clients, 2 live handles | 1.4 million | refs, eviction, deletion, shutdown |
| `watch` (`Watch`) | 3 stamps, 2 commits, 2 faults, intervals 2 | 1.0 million | no unexplained miss; changes get indexed |
| `worker_pool` (`Pool`) | 3 calls, 2 workers | 39,000 | slots, answers, Close; every call ends |
| `operations` (`Operations`) | 2 processes; 2 revisions, clean or dirty; 3 updates; 2 legacy projects, 2 starts; 3 iterations of 3 turns, lists of 2 | 2.83 million | what crashes, kills and failing requests leave behind |
| `answers` (`Answers`) | 325,000 questions | 325,000 | is every answer what the question means? |
| `included_routers` (`IncludedRouters`, violation) | the same | | do included routers get their prefix? |
| `scip_stale` (`ScipStale`, violation) | the same | | does a file that changed since its index keep its edges? |

What the passing runs show:

* `index_runs`. A captured identity describes the rows, or is no longer the checkout's (LabelledIsScanned); no run that saw the project works under one, and none outlives a run (FailClosed); an evidence answer is true of the checkout at that moment (EvidenceContractHolds, a refinement).
* `graph_update`. The nodes are those of a rebuild; no call is lost by a deletion under it; a re-resolved file has exactly its edges; a drift is counted. A search reads vectors of its own project though another fills the slot; caches are current but for what was read before the invalidation.
* `tables`. Whatever comes between looking ids up and using them, an edge joins what was meant or is counted as lost.
* `router`, `worker_pool`, `watch`: as their names say; `ChangesGetIndexed`, `GitComesBack` and `CallsEnd` are the liveness properties.
* `operations`. Damage is marked and not served, unless processes overlap, a run is cancelled or its marker could not be written (DamageIsSeen); an import of a coherent export is exact; an image never runs with another's journal unless an import was killed; an update leaves the binary it began with or a newer one that starts, and puts back the contents of the old one where it does not; the legacy file is put away only when its projects are migrated; every tool call of the agent has its result, and its answer is ranked by what the successful iterations named.
* `answers`. One property per subject: a Cypher answer without the truncation mark is whole (CypherComplete); taint, impact, traces and cycles are exact (WalksExact); pages lose nothing, vectors are their nodes' (SearchExact); the overview agrees with the graph and every move of community detection raises the modularity (OverviewExact); names, links, evidence, indexes and files as in section 1.

### Bounds, and why they are enough

* *Files and edits* (`MaxEdits`, which counts the first content too). A stale row needs one file read, edited and skipped; two files give orders between files; two edits let the checkout move before and after a run. `index_runs` keeps the last edit apart from requests (`LastEditAlone`), skips at most one file at a time (`OneSkip`), and identifies states that differ in what no action reads (`View`). `GraphUpdate` needs two files that can define one name and one that refers to it; four edits build a name, make it ambiguous, remove it and restore it, with a run after each. `Every = 2`, `Cap = 2` make the sentinel and the cap fire and not fire within those edits.
* *Clients* of the router: three are needed for a deletion between two openers, or an evictor that closes between two holders; more repeat them. `MaxOpens = 2` is handles *alive in memory at once*: names of handles are reused when nobody knows them any more, so histories are unbounded.
* *Caches*: two projects for one slot, two searches for a replacement between loading and reading, two runs for an invalidation on either side of a query.
* *Tables*: three ids are two that are looked up and one that takes a name over; chunks of two hold a bad row beside a good one.
* *Processes*: two, for one that opens while another writes. *Migration*: two projects make one migrated and one not; two starts, one that follows a failure. *Updates*: three, for a leftover of the first met by the third.
* *Watcher*: three stamps are a first content, an edit and its successor; two commits are needed for HEAD to move and to return; two faults for a downgrade and a failing run. The intervals 5 and 60 of the code are 2: reached, and not reached at once.
* *Pool*: three calls on two slots make one wait; a request differs from its caller's previous one in one bit, since only "mine or an earlier one" matters.
* *Agent*: three iterations, the code's most; lists of two, which three names overfill; three turns are a first, a middle and a last one; two attempts, with the retry and without.
* *Questions*. Every cap of the code is brought down to a value that the graphs reach (rows 2, headroom 4, cycles 8, packages 2, ...), and the graphs have what makes a shortcut wrong: cycles, self-calls, parallel edges, equal names, ties, ids in every order, gaps in pages. The Cypher questions are all one- and two-hop patterns over small sets of types, directions, lengths and conditions on three graphs; walks use a fixed chain of three calls and every subset of eight more edges; routes all nestings of two scopes; resolution all imports, receivers and names of two packages; evidence all bundles of few observations; embeddings all scripts of three replies.

### Fairness

* `Watcher`: weak fairness of a poll's next step while the project can be polled. `Run` is a loop on a ticker, and a poll's steps are straight-line code. Nothing is assumed of edits, git, faults, or lost events. It assumes the root exists and the store opens.
* `WorkerPool`: weak fairness of the end of what a call waits for: its deadline (`context.WithTimeout`) passes whatever the worker does. Strong fairness of taking a slot: a Go channel serves its waiting receivers in order, so a waiting call cannot be passed over for ever.
* The other specifications are safety only and assume none.

## 4. Proofs

Each theorem holds for every value of the constants, under the named assumption of its module (sets of clients, calls, processes finite; limits natural numbers; absent values outside the sets they are absent from) and no other, unless it is stated here. An invariant that a run checks is not inductive as a rule; what follows names what had to be added, which is the argument.

**`IndexCoherence_proof`.**
`TypeCorrect`: types, under every environment.
`ClosedCorrect`: FailClosed under no assumption, also with edits under a run and contents that come back. Added: only an existing project has an identity (`ProjectOK`), so each entry point either takes the identity away before the transaction, or there was none, or the run is blind; a blind run's own last write takes it away.
`LabelCorrect`: LabelledIsScanned with `LiveEdits` and `Reverts` false. An identity that a blind run overlooked is one the checkout has left, for good, or its rows are what they were. That the next run skips only what it may rests on what a hash row says of a file (`HashesOK`: the content it had; the one it has while its mtime stays), on what a hash says of the rows (`RowsOK`: the same content, or skipped, or a file that is gone), and on how far the passes under way have come.
`EvidenceCorrect`: under the same two, blind runs included, `IndexCoherence` implements `EvidenceContract`. The contract's checkout is what is on disk, its answers the rows an answered request has put together. While a request holds an identity (`RequestOK`), either the checkout has moved away from it, for good since contents do not come back (`Moved`), or every row it has read and every row it can still read describes that identity, runs that commit meanwhile included; the second capture tells the two apart.

**`StoreRouter_proof`.** `RouterCorrect`: TypeOK, RefsExact, HeldNotEvicted, by counting holders as a finite set. `OpenCorrect`: OneOpen. `DiskCorrect`: DiskIsAsTheRouterHasIt, the property with history. Its strengthening `DiskInv` says, while nothing raced: the entry's handle is on the file that is there, a deleting client is alone, between its closing and its last removal there is no entry, and a project that is gone has neither file, entry, watch, nor client.

**`Background_proof`.** Of the watcher: `WatcherCorrect` (TypeOK, WatcherIsRead), `SnapshotCorrect`, `GitCorrect` for any number of stamps, commits, edits and faults. Added: strategies and runs come after a snapshot (`Captured`), and a run that reads the files while they change cannot match the snapshot that is there (`RunIsBehind`); without the second, SnapshotVouches fails at the end of that run.
Of the pool: `PoolCorrect` (PoolTypeOK, SlotsConserved, OneUser), `AnswersCorrect` (OwnAnswer), `CloseCorrect` (ClosedIsEmpty). Added: a busy worker is held by the waiting call whose request it has (`JobsAreHeld`), and a Close that returned has drained all N.

**`GraphUpdate_proof`.** `GraphCorrect` (TypeOK, NodesMatchRebuild, NoFileIsOld), `DriftCorrect` (DriftIsCounted), and the two action properties `CallsNotLost`, `ResolvedExactly`. The invariant speaks of `parsed`: the nodes are a rebuild of it, the edges too until a run is counted (`NewIsExact`), and a stored hash is of the content that was parsed, unless force has just dropped them all.
Its second half is about `Caches`: `CachesCorrect` (SearchesReadTheirProject, HeadIsOldest) and `CurrencyCorrect` (CachesAreCurrent) for any number of searches, queries, projects and entries. Added: who loads the slot is alone at its lock (`LockExcludes`); a run that has swept the slot finds in it its own vectors or another project's; an answer that is read but not stored yet is as current as a stored one (`ReadIsCurrent`); no entry is from the future.

**`GraphStore_proof`.** `EdgesCorrect` (EdgesJoinWhatWasMeant), `TablesAreSound` (NothingDangles): every id a writer holds is at most the last one given, and an id which is still a node is the node it was, since ids are not given twice. `LossIsExact`, an action property: a batch's rows are edges, or counted, or still to come.

**`Operations_proof`**, about five modules; constants as `MCOperations` names them.
`DamageCorrect` (`BulkWrite`: TypeOK, DamageIsSeen) for any number of processes: a run is marked from before it leaves WAL until it is back in it (`RunIsMarked`), and whatever can damage the file, or has, is marked (`DangerIsMarked`), while nobody shared the database, cut a run short, or went on without a marker.
`ImportCorrect` and `JournalCorrect` (`Artifacts`): an identity is of the graph beside it in the exporter's database unless a blind run has committed since (`overlooked`), and, unless a run came between, in the artifact; what the importer stages with an identity is of the captured tree; no journal is left once it was swept.
`UpdateCorrect` (`SelfUpdate`): up to the rename the binary is the old one; after it, a release that was written whole, verified and newer, with the old one's contents, not its mode, at `.bak` if it was copied.
`MigrationCorrect` (`Migration`): the loop leaves no project without a database, and none half copied but the one it is at and those it gave up.
`CallsCorrect` (`LocAgent`): the conversation is one the API takes at any point of an iteration.
`AnswersJustified` (`LocAgent`): what `Run` returns, with AggregateByMRR's ranking, TopK, bill and confidence, for any replies, iterations, turns and lengths of lists, since shares are exact at every rank (`SharesAreExact`). The sums of reciprocal ranks are folds over sets, known by their recursive equation only; that they exist, are unique, and add up an element at a time is shown by taking a smallest counterexample (`SumsExist`, `SumsAreUnique`), and likewise that every bucket has an order of falling worth.

**`Answers_proof`.** Not about behaviours but about operators, for every input rather than the bounded ones of `answers`.
`VerdictsAreEarned`, `WeakerClaims`, `MoreEvidence`: VerifiedIsEarned, WeakerClaimFollows, MoreEvidenceAgrees for every bundle. They assume what Go's types say of a bundle (`IsBundle`: finite lists, numbers where they count) and that the absent value is neither a word nor a result.
`IndexReplacesCalls`: ReplacesExactly of `runSCIPIngest` for every graph, index, text, failing deletion and set of dropped rows and every batch size: after a failure nothing has come in but calls the index derives. It needs that a derived call joins covered files (`CallsAreCovered`), and that every pair of files falls into a batch that is reached (`BatchesAreReached`: with batches of n files, the number of pairs of batches is at most the square of the number of files). It assumes that `sort.Strings` lists what it is given.
`DiscoveryIgnoresLikeGit`: IgnoredLikeGit for every checkout whose directories do not bear the name of git's own list of excludes (`IsDisk`): the rule that decides about a path is the deepest of those about it or a directory above it. `TallyIsTheRestOfIt`, `HealthSeesTheRun`: TallyIsTheRest and HealthIsExact for every checkout, before and after. `SlicesAreOfTheFile`: SliceIsOfTheFile for every range and every text; `ReadingOn`: ReadingOnSeesAll for every text, which is the first megabyte and the truth about whether there is more. Together, `FilesAreExact`: FilesExact of the questions that `answers` asks, whatever the limits.
`CyclesAreExact`: CyclesOnce for every graph, level and depth. What is found are the cycles up to the depth, each turned so that it begins at its least node (`FoundAreCycles`, `KeyIsTurned`); a cycle so turned is told by the set of its steps (`StepsTellCycle`), and every simple cycle, a set of steps that leaves and enters each of its nodes once and falls into no smaller one, is walked around in one turn (`SimpleIsCycle`).
`EverySettingAgrees`: SettingsAgree for every environment; it assumes that the absent resolution is none. `EveryBatchInOrder`: BatchesInOrder for every client, list of texts, script of replies and positive batch size, by what holds after each batch: whole batches so far, each vector of its own text, or an error (`SofarInOrder`). `RowsStayTheirNodes`: RowsAreTheirNodes for any texts before and after, any two clients with a model and any scripts of the two passes: every row is of its own node's text, and the later pass, if it comes to its end, spends a fault of its server on each batch that it leaves without rows, so that no more nodes are left than the faults account for.

**`Walks_proof`**, for every graph: a sequence of nodes and a sequence of edges between them (`IsGraph`).
`TracesKeepTheirRows`: TraceKeeps. `ImpactIsExact`: ImpactNearest for every diff (`IsADiff`). Both rest on what a breadth-first search tells (`SearchWalks`): its rows come level by level, each node is told once and at its nearest distance, and all in reach are told if the search was not cut off.
`TaintVerdictIsReach` and `TaintVerdictsAreExact`: TaintVerdicts. The search that avoids sanitizers is described by what holds after each node of its queue (`Searching`): what was visited is in reach, what is queued comes nearer first, and whatever is in reach but unseen lies behind something queued; so at the end, when nothing is queued (`NoneLeft`), visited and in reach are the same. The parents of the other search lead from the sink back to the source along a path of calls, which must meet a sanitizer where the first search says so (`SanitizerIsNamed`). The list is followed source by source: pairs told once, each at its distance, and all that are due until the list is full (`PathsAreTold`). It assumes that an absent path is not a sequence.
Together, `WalksAreExact`: WalksExact of the questions that `answers` asks, whatever the limits.

These theorems stand on lemmas about the operators that Go's loops are modelled by: what holds of a fold after each element (`FoldSteps`, `FoldsOver`, `FoldEnds`), of a flattened sequence (`FlattenHas`, `FlattenSteps`), of a list in the order of a set (`OrderLists`); and on a way to do without induction over an operator: what holds at 0 and at each step holds up to n, since a counterexample would have a least one (`UpTo`, `StepByStep`).

Only model-checked:

* Liveness (ChangesGetIndexed, GitComesBack, CallsEnd): it rests on fairness and ENABLED.
* Seven of the nine properties of `answers`, all but FilesExact and WalksExact. Parts of them are proved for every input: VerifiedIsEarned, WeakerClaimFollows and MoreEvidenceAgrees of EvidenceExact, ReplacesExactly of ScipReplacesExactly, SettingsAgree, BatchesInOrder and RowsAreTheirNodes of SearchExact. LinksExact and EvidenceExact are conjunctions over modules with RECURSIVE definitions (the reference definitions of routes in `MCHttp`, the alterations of nested records in `MCEvidence`); Cypher, search, the overview and names select from sequences (`SelectSeq`), sort them, or recurse over data: what they compute for every input needs an induction theorem with an operator parameter, which no prover here can instantiate. Where a smallest counterexample could take its place, it was used (`Operations_proof`, `Answers_proof`, `Walks_proof`).
## 5. Findings and known gaps

Violation runs, with the comment they contradict quoted in `PROJECT.json`:

1. `index_live_edits`. updateFileHashes reads the files a second time and stats them a third. An edit after extraction leaves old rows under the new hash; an edit between hash and stat leaves the old hash under the new mtime, which the stat pre-filter trusts. That run does not capture, but the next takes the file for unchanged and does.
2. `caches_pool`. A search that loads vectors holds the slot's lock and waits for the connection of a run, which waits for the lock.
3. `included_routers`. The prefixes of FastAPI's `include_router` and Express's `app.use` are looked up by file path in qualified names, which never contain one.
4. `scip_stale`. A changed file whose functions are TypeScript values has no recognised definition, so it does not count as drifted, and its heuristic calls are deleted.

### Gaps the models know of

Each is excluded from a property by a named condition, or by the modelled instance, because the code does behave so.

Runs and identity:

* A full rebuild keeps hash rows of deleted files. One that comes back with its old content is "unchanged" and has no nodes (`Reverts = TRUE` violates LabelledIsScanned; `GraphUpdate`'s NoFileIsOld bounds the loss: missing nodes, never old ones).
* Blind runs: runAutoIndex decides whether to invalidate from what it saw before it took the lock, and index_repository from a read whose error it drops (`internal/tools/index.go:100`). From the commit of such a run to its last write, rows of the new content stand under the old identity. The comparison with the checkout keeps evidence requests and `index_status` from trusting them; the header of an exported artifact takes the identity as it is stored (`Artifacts`' overlooked).
* The identity is compared for equality only: a checkout that changes and changes back between a request's two captures is not noticed.
* A file that was skipped keeps its hash, so it is not retried until it changes; the report of the skip lasts one run.
* resolvableEdgeTypes lacks CALL_REFERENCE and CALLS_PSEUDO, so a re-resolved file keeps old edges of these types (`GraphUpdate`'s ResolvedIsCleared, which no run claims). They, USES_TYPE, THROWS, READS and WRITES are not in findCallerOfTargetDependents' list either: a file that only has such edges into a changed file loses them by the cascade until the sentinel rebuilds. DriftIsCounted says that this drift is counted; but no-op runs are not, so in a repository at rest it stays.
* A capped run, which rebuilds everything, increments the counter instead of resetting it.
* Two files with one module name (`a.ts`, `a.js`) own each other's nodes; editing one deletes nodes of the other. `Untwinned` excludes them where equality with a rebuild is claimed.
* "0 (or unparseable) disables" (fullReindexEvery): an unparseable value means the default of 50.
* A relative `from .m import f` may leave an IMPORTS edge to the function's node rather than the module's, so that findDependentFiles does not see the importer; `GraphUpdate` has the absolute form only.
* The merge of environment constants into a module that exists (mergeWithExistingModule) bypasses the cap of 50 and keeps values that changed.

Stores, caches and files:

* Another process that opens the database inside a run's bulk window takes its marker for a stale one and removes it (`shared`). Likewise recoverStaleSHM takes the empty log and shared memory of a live idle connection for those of a dead one.
* A cancelled run removes the crash marker without having left the unsafe journal mode (`cutshort`). A marker that cannot be created is logged and the run goes on (`internal/store/store.go:240`), so that a crash in it is silent (`bare`).
* A deletion that stops after the first file leaves sidecars that OpenPath refuses, naming delete_project as the remedy, which does not find the project (`internal/tools/projects.go:100`).
* DeleteProject removes files after unlocking, so a client may open the old file, or re-create the project, in between (`raced`); nor does it invalidate the query cache. Shutdown (`cmd/code-graph/main.go:209`) closes stores without waiting for their users.
* The map UpsertNodeBatch returns has a node for each qualified name, also where the batch names one in two projects.
* Answers and vectors read before an invalidation and stored after it stay (`late`). Runs that only delete, skip their embeddings or are rolled back leave the slot of vectors as it was; a failing identity capture of index_repository leaves the query cache until its lifetime ends.
* An export reads the header's identity and counts after its snapshot. A forced import killed between removing the old journal and the rename loses it; its copying fallback can leave a torn image. Another process that commits in between could pair the new image with an old journal: assumed absent.
* A migration that failed or was interrupted leaves a partial target that a later start counts as migrated. An update that is killed leaves a read-only `.tmp` that blocks later ones, or a stale `.bak` that is restored. `copyFile` makes the `.bak` without the mode of the binary (`cmd/code-graph/update.go:250`), so "Previous version restored." leaves a file that cannot be executed.
* Watcher: edits that were indexed and then discarded are never reported by git (*returned*); fsnotify's own downgrade cannot be reached, and is not modelled; an upgrade counter is reset to 0 where its comment says `upgradeAttemptInterval-1`.
* WorkerPool: after Close, calls block rather than fail; a failing spawn returns an error rather than running in-process; a worker that died idle is reported against the next file. Only tests call Close.

Questions:

* COUNT over an undirected hop counts one direction (left out of the comparison by `Cypher`'s KnownGap; compare `internal/cypher/metamorphic_test.go:174`).
* buildHops of trace.go drops hops of a three-cycle with `direction="both"`; trace, taint and data flow drop the search's own truncation mark.
* search_graph misses matches beyond the rows SQL fetched (`Headroom`), and the literal it takes from a pattern to narrow SQL with may be optional, the letter of an escape (`\d`) or the inside of a character class (`internal/store/search.go:480`). search_code fails as a whole if one indexed file is gone.
* The overview's layers use only the ten largest boundaries; its list of domains lacks two of those it assigns; a directory at the tree's depth shows no children; entry points and routes are cut without an order; some verdicts depend on the order of a Go map. When the names of the nodes cannot be read, communities depend on ids (`internal/pipeline/communities.go:43`). Updating the decision record drops its preamble, and header lines inside a section open another.

Names, links and evidence:

* `x.f.m` with a known type of `f` that lacks `m` falls to the tiers that match by name (`internal/pipeline/resolver.go:720`).
* import_map_suffix takes the first of a map yet claims one candidate, so a CALL_REFERENCE may have several targets (`ReferencesAreProven`, which no run claims). Usages are resolved without the bindings of imports. An indirect dispatch makes its edge "high" whatever found it. The lsp_local tier hides types of module scope. IMPLEMENTS pools methods by the receiver's bare name. `T::m` never resolves by name alone. Reachability by imports is a prefix of the text.
* HANDLES goes from handler to Route where `docs/edge-types.md:32` has it the other way. A route's handler is the first node of its name whatever its label. JavaScript routes inside functions are found twice. Prefixes of two groups a function is registered under are stacked. is_entry_point and the CALLS edges of registrations survive a re-link. `/` becomes `_` in a route's name, which may collide. matchConfidenceThreshold is not used.
* Evidence: paths and lines of a reference that is only carried are not compared with its canonical source; the schema version of a carried reference is not read, and one altered there alone is accepted (`internal/evidence/proof.go:316`); a contradicting observation counts without a check of trust; a required capability may come from one observation and trust from another; limits cut ties in any order. A CodeQL file inside the repository may be a symbolic link, which the docs deny. Several HTTP_CALLS edges with one normalised path: a span confirms the last only; ingesting the same spans again raises confidence again, and does so outside indexMu.
* SCIP: a definition inside a function without a node of its own counts for the enclosing one; an index shifted by few lines is not drifted; incremental runs do not ingest again; framework edges between covered files are deleted and not derived; an insertion that fails in part keeps the rows that succeeded (`internal/store/edges.go:448`) and leaves the guessed edges deleted, though the comment at `internal/pipeline/scip_ingest.go:396` has them in place.

Files, embeddings, agents:

* `.gitignore` is not read where `.git` is a file (linked worktree, submodule), nor is core.excludesFile; a directory that cannot be read is passed over, and its files taken for deleted; `.cgrignore` prunes directories only. In fast mode, index_health and the watcher still discover in full mode.
* Voyage's client, unlike OpenAI's, accepts any index, count and order: an index out of range or a short answer panics, a duplicate leaves a vector empty. The client's own timeout ends the whole pass as if the context had. After a change of model, rows of two widths mix until everything is embedded again; CosineSearch then panics or compares parts (`MixIsDetectable`: EmbeddingModelCounts tells).
* Agent: serial iterations stop at the first error, parallel ones keep later successes; ties in aggregateByMRR fall as a map does, though its comment promises determinism; a default of two iterations never says "finalized" of itself, so its confidence is always "medium"; top_k is bounded only inside an iteration. `Iterations[i]` is described as the entities of the i-th run (`internal/locagent/agent.go:362`), but is that of the i-th run which succeeded. read_file calls a slice of exactly 200 lines truncated, refuses any name with `..` in it, cuts a file after one megabyte, beyond which no range leads (`internal/locagent/readfile.go:126`), and fails at a range that ends before it starts.

## 6. Not modelled, and why

* Native extraction (C grammars, generated), the domain linkers (Nix, OPA, Zenoh, infrastructure files), the passes that turn one syntax node into one edge, tools that format rows, installer, doctor and developer tools: sequential text-to-row and row-to-text code without state that outlives an input; what they read and write is data to every model here.
* Inside modelled parts: in `IndexCoherence`, graph precision, orientation reports, index_compare. In `GraphUpdate`, folder-level imports, Python's rule against guesses, INDIRECT_CALLS and the stubs of LSP targets, the passes that are rerun as a whole, the stat pre-filter (`IndexCoherence` has it). In `BulkWrite`, OpenPathWithAutoRecovery (only tests call it) and format version numbers. In `Watcher`, time. In `WorkerPool`, the counters of Stats. In `Cypher`, lexing, parsing, ORDER BY and scalar functions. In `Communities`, floating point. In `LocAgent`, episodic memory and prompts. In `HttpLinks` and `CallResolution`, the patterns that find a route or a signature in text. PageRank and similarity scores. The RESOLVER_ settings of the environment in `CallResolution`, which has their defaults. In `HttpLinks`, the letters of names: names are compared by words where `commonPrefixLen` compares bytes.
* Database errors in the midst of a question, which the code drops or logs: the sanitizers and searches of tainted paths (`internal/tools/security.go:225`, `:273`), one search of detect_changes (`internal/tools/detect_changes.go:302`), one type of edges in detect_cycles (`internal/tools/cycles.go:132`). There an answer is of what could be read and does not say so; `Traversal` has statements that succeed.
* Overrides, IMPLEMENTS edges, imports and usages are operators of `ResolutionPasses` that the runs evaluate without a property of their own.

## 7. Plan

Done: all modules above; every safety property of the state machines that a run checks is proved, and the refinement of `EvidenceContract`. Left, in this order:

1. Proofs about the remaining questions, where no induction over data is needed: what `Search` concludes from a set of rows once it is given (pages, degrees), with its selections written as `Traversal`'s are; the confirmations of spans in `EvidenceSources`; whether `CosineSearch` can tell a mix of models (MixIsDetectable of `Embedder`).
2. Abstract specifications: a pool (each call is answered or fails, once) refined by `WorkerPool`; a project (exists, indexed, deleted) refined by `StoreRouter` without races.
3. Detail: repeated ingestion of traces; fast mode in `Files`; CALLS_EXTERNAL and INDIRECT_CALLS in `GraphUpdate`.
