# TLA+ models of eino_agent

eino_agent is a Go server for question answering over document collections: an
HTTP and an MCP front end, a chat agent with tools, and a pipeline that imports
documents into PostgreSQL and a vector store. This directory holds TLA+ models
of the parts whose correctness depends on the order of things, configurations
for TLC, and proofs for TLAPS. Line numbers refer to the files below
`src/`; `PROJECT.json` maps every definition to its lines.

## The system

| Component | State | Operations | Meets |
|---|---|---|---|
| Approval manager (`internal/approval/manager.go`) | map of approvals, one channel each, a mutex; in memory only | `Create`, `Wait`, `Decide`, `Get`, `ValidateApproved` | chat tools that block (`service/runtime_agent.go`), `POST /approvals/:id`, MCP admin tools and `submit_approval_decision` (`mcp/server.go`) |
| Import queue (`internal/importqueue/rabbitmq.go`) | a durable RabbitMQ queue, one connection | `Enqueue`, `StartConsumer`, `Close` | upload and reindex handlers publish; `ProcessImportTask` is the handler |
| Document import (`internal/handler/api.go`, `database/repository`, `container/vectordb_provider.go`) | tables `knowledges`, `chunks`, `knowledge_bases`; the vector store; temporary files | upload file or URL, delete, reindex, sync, worker | queue, DocReader, embedding model, both stores; no call shares a transaction with another |
| DocReader and chunkers (`docreader/`, `document/`) | none between documents | engines in turn until one answers; split into chunks | uploads, the worker, the start of the server |
| Chunk editing and enrichment (`api.go` 2611-2732, 3115-3257, `document/contextual_enricher.go`) | `chunks`, `chunk_revisions`, vectors, a pool of workers | update, restore, reindex; enrich | deletion of the document |
| Import state (`api.go` 3684-3742, `rediscache/import_state.go`) | one Redis record per import | read, change, write back | request, worker, sync and enrichment write the same record; a reindex writes the row alone |
| Chat turns (`service/chat*.go`, chat handlers) | `sessions`, `messages`, cached recent messages, an event channel per stream | ask, stream, save, refresh, invalidate, delete session | turns of a session; a client that leaves; Redis that fails |
| Retrieval (`pipeline/rag.go`, `container/*retriever*.go`) | cached embeddings of queries | rewrite, search, fuse, scope, rerank, gate, generate | chat, stream and the agent's tool |
| Rate limiter (`handler/rate_limiter.go`) | a bucket per client | allow, cleanup | every request |
| Think-tag filter (`filter/think.go`) | a buffer | `Filter`, `Flush` | streams |
| Wiki (`wiki/`, `wiki_repo.go`) | pages, links, an index page | compile, upsert, resolve | several documents of one wiki; deletion |
| Access control (`access_control.go`) | knowledge bases, organisations, members, shares | role of a user; the requests that need one | grants change in between |
| Settings and MCP clients (`api.go` 4412-4790, `config/config.go`, `mcp/manager.go`) | the configuration, its file, models built from it, connections | update, create and delete model, import server, reload | overlapping requests; restart |
| Code graph (`codegraph/`, `tool/repo_manager.go`, `handler/code_repos.go`) | repositories on disk, Neo4j | clone, pull, delete, index | each other |
| GraphRAG (`graphrag/`) | entities and relations in Neo4j | build, delete, search | imports and questions |
| Prompts, logging, metrics, front end, evaluation | | | |

What is hard about it: goroutines that meet in the approval manager around a
deadline; handlers that interleave with the worker between any two database
calls; stores that are written one after the other, with errors only logged; a
crash or SIGTERM between those calls followed by redelivery; and counters,
hashes and statuses that other requests trust. `PROJECT.json` lists the hazards
by line with the property that covers each.

## Modules

| Module | What it is |
|---|---|
| `HumanGate` | what an approval gate promises: settled once, acted on only when approved |
| `ApprovalManager` | the manager and its three kinds of caller; `GateSpec` says it implements `HumanGate` |
| `AtLeastOnce` | what a queue with acknowledgements promises |
| `ImportQueue` | RabbitMQ, the publisher and the consumer goroutine; `AtLeastOnceSpec` says it implements `AtLeastOnce` |
| `KnowledgeImport` | handlers and worker over the tables, the vector store, temporary files and the queue |
| `DocumentReading`, `Chunkers` | a document from its engines to its chunks; how a text is cut |
| `ChunkUpkeep` | edits, revisions, reindexing and enrichment of chunks |
| `ImportStatus` | the status of an import in the row and in Redis |
| `ChatTurns` | chat turns of a session, answered at once or streamed, with its cache |
| `Retrieval` | a question's way to the evidence and the answer |
| `RateLimiter` | the token buckets |
| `ThinkFilter` | the filter that hides a model's thinking in a stream |
| `WikiPages` | documents compiled into linked pages |
| `AccessControl` | roles on knowledge bases and what is done under them |
| `Settings` | configuration, models and MCP clients changed at run time |
| `CodeRepos` | repositories on disk and their code graph |
| `GraphBuild` | the entity graph of a knowledge base |
| `Picking` | lists made of other lists by position |
| `MC*` | instances for TLC; `MCChat` holds those of `ApprovalManager` and `ChatTurns`, `MCServices` those of the other modules from `DocumentReading` on |
| `*Proofs` | inductive invariants and theorems; `QuestionProofs` those of `RateLimiter`, `AccessControl`, `Retrieval` and `ThinkFilter`, `UpkeepProofs` those of `ChunkUpkeep`, `Settings`, `WikiPages`, `ImportStatus`, `GraphBuild` and `CodeRepos` |

The definitions that PROJECT.json names as `as` under `mutants` are deliberately
wrong variants of the definition next to them, used to see that a property notices.

### ApprovalManager

`status`, `expires` and `chan` are `Approval.Status`, `ExpiresAt` and the
channel of capacity 1; the `*pc` variables are the program counters of chat tool
calls, decision requests and MCP retries. One critical section of `Manager.mu`
is one step; between an unlock and the next lock, channel operation or clock
read anything may happen. `Wait` is `WaitDecided` (already settled),
`WaitBlock`, then one branch of its `select`: `WaitReceive`, `WaitTimer`
followed by `ExpireLock` or `ExpireTooLate`, or `WaitCancelled`. `Decide` is
`DecideLock` (status under the lock) and `DecideSend` (channel, after the
unlock). An MCP call reads a copy (`McpGet`) and checks it later (`McpCheck`).

### ImportQueue

`state` says where each message is (on the wire, ready, unacked, settled,
lost), `link` and `server` whether connection and process are there, `consumer`
and `current` what the goroutine is at. `Take`, `HandlerReturns` and `Settle`
are the loop body: unmarshal, handler, Ack or `Nack(false, false)`. A
disconnection requeues what was unacked and flags it, and loses what was on the
wire with no confirmation asked for. Nothing reconnects.

### KnowledgeImport

A document has the name of the request that created it. `docs` is the row,
`recent` the order by `updated_at` that `Find*` uses, `chunks` and `vectors` the
two stores, `kb` the counters, `files` the temporary files, `queue` the unsettled
tasks in order, `req` and `job` the program counters and locals of handlers and
of runs of the pipeline (the worker's, or the goroutine of `SyncDocument`). Each
call to a database, the vector store, the queue or the parser is one action
with a failing alternative, which continues as the code does: an early return, a
logged error, or `markKnowledgeFailed`. The requests:

- upload of a file: `UploadFile`, `Dedupe`, `Find`, then `Create`, `CountUp` or
  `Prepare`, then `Publish` (and `MarkUnpublished` when that fails); of a page:
  from `Find` on;
- delete: `SoftDelete`, `Wipe`, `CountDown`; chunk rows stay;
- reindex (pages only, because no `FilePath` is ever stored): `ClearVectors`,
  `ClearChunks`, `ResetStatus`, `Republish`;
- sync (pages only): `Fetch`, then a job.

A job goes `Take` (worker) or `Fetch` (sync), `Load`, `SyncStart`, `ReadOld`
(`diffChunksByOccurrence`, or everything when the old chunks can't be read),
`DropVectors`, `DropChunks`, `Store`, `DualWrite`, `WriteHash`, `MarkEnrichment`
(which moves the row to the top of `updated_at` also when enrichment is off),
`Cleanup`,
`ReadPrevious`, `Complete`, `AddChunks` or `MarkFailed`, `End`. A SIGTERM cancels
the context of the worker: from then on its calls fail (`Cancelled`).

Abstractions. A content is the set of its chunks' texts, so a text occurs once
in a document; how the diff counts repeated texts is not modelled.
Parse and embedding results are constants, and no content is empty. Wiki pages,
Redis, enrichment, the entity graph, the audit log and the embedding fingerprint
are off: the first four have modules of their own. The two reads of the previous
chunk count are one.

### DocumentReading and Chunkers

A text is a sequence of characters that know their place in the document, so
that `TextKept` can ask whether the chunks, read one after the other, give the
text without a gap. `Accept` is the handler's choice (`NewClient` decides which
engines there are), `Answer`, `AnswerError`, `Fail`, `Expire` and `ReadLocal`
are what an engine makes of the document, `GiveUp` the fallback to the next one
(`fallback_engine.go`); one time limit covers them all, so after it a page can
no longer be fetched but a file can still be read. `Chunk` is the second
chunking that replacements, queued imports and documents without a DocReader go
through, by one of the three chunkers. `SplitText`, `MarkdownChunks` and
`SemanticChunks` follow the code's loops as folds; similarities of sentences are
any. `HeadingsKept` compares the Markdown chunker's heading stack with the
headings found by position.

### ChunkUpkeep, ImportStatus

In `ChunkUpkeep` each statement of an edit (`ReadPrevious`, `KeepRevision`,
`Update`), of a reindex (`Upsert`) and of the enrichment is an action that may
fail; the enrichment reads all chunks (`Enrich`), its workers take indexes from
the queue and finish in any order (`Take`, `Generate`), and one upsert writes
the result. A text is named after the chunk it was first written for. In `ImportStatus` the
request, the worker, the sync and the enrichments each are at a job, which gives one field
one value: in the row (`WriteRow`), then in Redis, where the whole record is read
(`ReadState`) and written back (`WriteState`); `After` says which jobs follow. A reindex
(`ReindexDocument`) and the beginning of a sync (`StartSync`, which also stands for the
imports that are not queued) write the row alone, and a reindex that cannot be enqueued
leaves it pending. The key may expire between any two steps.

### ChatTurns

A turn is its request with a program counter: `EnsureSession`, `ReadCache` or
`ReadHistory` and `FillCache`, `SaveQuestion`, then `Answer`, or `Begin`,
`Chunk` and `Notice` up to `EndOfStream`, then `SaveAnswer`, the steps of
`Refresh`, and `Report`. All calls run under the request's context: once the
client is gone (`Disconnect`) they fail. `TrySend` is the `select` of
`trySend`; `Receive` is the HTTP handler's loop.

### Retrieval

One request at a time, a stage a step: `Rewrite`, `EmbedQuery`, `VectorSearch`,
`KeywordSearch`, `GraphSearch`, `Fuse`, `Inject`, `WikiSearch`, `ApplyScope`,
`Rerank`, `Gate`, `BuildContext`, `GenerateAnswer`. The search engines return any
order of the chunks they may return; `Request` kinds are `Run`, `RunStream` and the
tool `knowledge_search`, which share the stages up to `ApplyScope`. The cache of
embeddings survives from request to request. Loops that keep some elements of a
list, in `AccessControl` as well, are written by position (`Pick`, `Firsts`,
`Joined` of `Picking`): what a recursive fold gives could not be proved about.

### RateLimiter, ThinkFilter

Tokens are counted in time, so that no fractions are needed. `AdmitsExactly`
compares the limiter, which keeps one number per client, with a limit over
every window of time since an admitted request. `ThinkFilter` feeds every text
over an alphabet in every partition into chunks and compares what was sent with
`StripThinkTags` of the whole. Its loop (`Scan`) and the reference (`Visible`) are
recursive functions.

### WikiPages, AccessControl, Settings, CodeRepos, GraphBuild

Each has one program counter per request and one action per statement or call:
`WikiPages` for compiling a document page by page, with the links and the index
page; `AccessControl` for checking a role in several statements and acting on it
in another, while memberships and shares change; `Settings` for fields written
without a lock, the file truncated and then written, and the steps in which MCP
clients are closed, connected and handed to the chat service; `CodeRepos` for
git, the directory, the pool of indexing workers and the three upserts per file;
`GraphBuild` for extraction by a pool and for a merge that first matches nodes
and then writes them, in transactions that do not exclude each other.

`Settings` keeps apart what an answer promised: a request whose save failed is refused
(`UpdateSettings`, `ImportMCPServer`) or, by `CreateModel` and `DeleteModel`, answered with
success all the same (`Unsaved`). Servers in `Streaming` have a transport that lives in the
context it was started with: their connection ends with the request that imported them.
A failing `Reload` answers 500, but the tools are in use from then on, since each agent
takes them from the chat service when it is made (`runtime_agent.go:141`). A server may
be out of reach at a reload and at the start.

The readers of the two graphs have the limits of their queries: `Limited` takes any part of
what is found, of the size the code allows (`MaxRows` is `LIMIT 200` of `SearchNode`,
`GraphTopK` the retriever's, `MaxDrawn` and twice it those of `GetGraphForVis`, `MaxCallRows`
is `LIMIT 50` of `FindCallers` and `FindCallees`). Names in `Short` have one character and are
not searched for; `ContainsName` and `FunctionContains` say which names contain which.

Histories such as `torn`, `steady`, `contested`, `crossed`, `mixed`, `raced` and
`doubled` record that a case happened in which the code does lose something; the
properties exclude exactly these cases, listed under "Where the properties end".

## Runs

| Run | Configuration | Shows |
|---|---|---|
| `chat` | two parts, one per behaviour; fair. `approvals`: 1 chat call, 1 MCP approval, 2 deciders, 1 retry, TTL 1, clock to 2. `turns`: 2 turns, one of them streamed, 1 session, history of 3, channel of 1, 1 fault, overlap or lost client | safety of the gate, `WaiterReturns`, refinement of `HumanGate`; `DoneMeansKept`, `CacheIsRecent`, `StreamCloses` |
| `approval_expiry` | 1 call, 1 decider | violated: `ExpiryIsRecorded` |
| `import_queue` | 2 tasks, 1 garbled message, prefetch 2, 2 process ends, 1 lost connection; fair | `SettledForAReason`, `QueuedIsSettled`, refinement of `AtLeastOnce` |
| `import_one_client` | 3 requests one at a time beside the worker, 2 files | `IndexedExactly`, `DocCountRight`, `DuplicateIsCovered` |
| `import_overlap` | 3 requests, 2 at a time, a file and a page, all operations | `UnsettledHasOwner`, `FilesAreOwned`, `StoresAgree` |
| `import_faults` | 2 overlapping requests, all operations, 1 failing call, 1 signal | `TaskHasFile`, `RefusedKeepsNoFile` |
| `import_crash` | 3 requests that wait for each other, all operations, 1 crash | `NothingMissing`; without the crash `PageIndexed`, `DeletedIsGone` |
| `import_settles` | 2 overlapping requests, all operations, 1 crash; fair | `ImportIsSettled` |
| `import_chunk_count` | a file uploaded twice | violated: `ChunkCountRight` |
| `import_raw_bytes` | a file in a binary format uploaded twice | violated: `IndexedAsParsed` |
| `services` | one service per behaviour, see below | the properties of the modules from `DocumentReading` on, but for `ChatTurns` |
| `graph_context` | the retrieval part of `services` | violated: `GraphContextReachesPipeline` |

`services` runs eleven small instances that share no variable. Its initial
states choose the one that runs, the others stay in theirs, and each property is
about its own part:

| Part | Instance | Properties |
|---|---|---|
| `reading` | all texts of up to 3 letters as plain text and as Markdown, longer ones, pages; 6 configurations; 4 ways in; 1 fault per document; chunks of 5, overlap 2 | `TextKept`, `HeadingsKept` |
| `chunks` | 2 chunks, 2 clients, 2 workers, 2 edits, restores or reindexings, 1 fault, enrichment, deletion | `HistoryKept`, `IndexHoldsOwnText` |
| `status` | 2 uploads, reindexings or syncs of a document, 2 enrichments, 1 fault or expiry | `StatusShown` |
| `retrieval` | 3 chunks of 2 knowledge bases, 2 wiki pages, 5 requests, top 2 | `ScopeRespected`, `CommonVerdictKept`, `AnswerHasEvidence` |
| `limiter` | 1 client, burst 2, cleanup as early as allowed, time to 9 | `AdmitsExactly` |
| `think` | texts to 7, chunks to 3, tags of 2 and 3 characters that begin alike | `HidesThinking` |
| `wiki` | 3 documents, 2 wikis, 1 fault or deletion | `LinksResolved` |
| `access` | 2 clients of 2 tenants, 2 knowledge bases, 1 organisation, 2 requests, 1 grant, 1 fault | `VerdictHeld` |
| `settings` | 2 administrators, 8 forms, 2 requests, 2 servers, one of them streaming, 1 fault, 1 restart | `AckSurvives`, `ToolsServed` |
| `repos` | 2 clients, 3 repositories, 2 versions of one, 2 workers, 2 requests, 1 fault, 2 rows per query | `IndexShowsCode` |
| `graph` | 2 builds, of 3 chunks two at a time and of 1, 1 deletion, 1 fault; 4 names, one of one character; 4 rows, 2 chunks, 3 nodes and 6 relations at most | `BuiltIsFound` |

Bounds. Two deciders suffice to compete for one approval, and with a deadline of
one tick each step falls before, on or after it. Two good tasks and prefetch 2
let a delivery wait behind the one in the handler, be requeued and overtaken;
the garbled one takes the `continue` path. Two contents share one chunk and
differ in one each, so that a replacement retains, drops and adds; three
requests are upload, replacement and a third that meets their result. `MaxActive`
bounds overlapping requests, `MaxFaults`, `MaxCrashes`, `MaxShutdowns` count what
goes wrong, `Patient` makes a request wait until all earlier ones took effect.
Deadlock is not checked where a run simply ends when its requests are used up.
Request names are interchangeable, so the import runs without liveness use symmetry.
In `chat` and `services`, two of everything that can meet, meet: turns of a session,
workers of a pool, edits, uploads, reloads, transactions of a graph. The channel
of one event is full at once, a history of three is shorter than the four
messages two turns write, and an overlap of two of five characters cuts a word
of eleven into more than three windows. Bounds named `Max...` count faults (failed
calls, lost clients, deletions and expiries where the table says so) and requests.

Fairness. Goroutines that can run do run: weak fairness of each handler, job,
waiter and of the consumer; the clock advances; a process that was told to stop
stops (`server.Shutdown` has a timeout of 10 seconds) and is started again.
Publishing, decisions, cancellations, crashes, faults and changes of pages are
never assumed. `QueuedIsSettled` excludes the case the code does not handle, a
lost connection under a process that lives on. In the turns of `chat`, weak fairness of each
turn's own steps (the goroutine runs, and the model's stream ends or breaks off) and of
a client's reading (`Work`, `Receive`); a client that leaves does so by a step
that is not assumed, so `StreamCloses` covers both kinds.

### Where the properties end

The bounds of the import runs are also assumptions: relaxing them gives
counterexamples, each a behaviour of the code that `PROJECT.json` lists as a
hazard.

- `MaxActive = 2` in `import_one_client`: the request that created a record
  may publish its insertion after another's replacement, and the document ends
  as a mixture (`IndexedExactly`); two deletions of one document both
  decrement `document_count` (`DocCountRight`).
- `MaxFaults = 1` there: `PrepareForReplacement` stored the new hash, publishing
  failed, an earlier task completes the document: a later upload of that
  content is refused as a duplicate of something never indexed
  (`DuplicateIsCovered`).
- `Patient = FALSE` in `import_crash`: a document deleted while its import is
  queued gets its vectors back (`DeletedIsGone`); two reindexes in a row, the
  first still pending, index every chunk twice (`PageIndexed`).
- `MaxCrashes = 1` in `import_overlap`: a request that dies before publishing
  leaves its document pending, a sync that dies leaves it processing, which
  reindex and sync then refuse (`UnsettledHasOwner`).
- `MaxShutdowns = 1` or `MaxFaults = 1` in `import_settles`: the first status
  update fails, the task is rejected without requeue, the document stays
  pending (`ImportIsSettled`).
- A second crash, or a fault between deleting vectors and rows, in
  `import_crash`: a row without a vector is retained by the next diff, and its
  text can't be found (`NothingMissing`).

In the modules of `services`, and in `ChatTurns`, the excluded cases are named by the histories; each
of them is something the code does:

- of two overlapping edits of a chunk, the later one keeps a revision of the text
  before the earlier one's, which it overwrites (`contested`, `HistoryKept`); enrichment may write an older text of the same chunk over a reindexed
  edit, or after the document's deletion (`IndexHoldsOwnText` only says whose
  text it is);
- overlapping imports of a document, or a failed Redis write, may leave its
  status at "processing" until the key expires (`torn`, `StatusShown`); a reindex whose
  task is not enqueued, or cannot be begun, leaves the row at "pending" while the key has
  the outcome of the import before it (`resetRow`);
- overlapping turns of a session, or an invalidation that failed, leave an old
  history in the cache until it expires (`steady`, `CacheIsRecent`);
- an upload of wiki pages that ends before `ResolveLinks` leaves links of others
  unresolved until the next one (`pending`, `LinksResolved`);
- names that differ in `-`, `.` and `_` share a label, so that deleting one
  repository deletes the other's graph (`mixed`, `IndexShowsCode`), and a full
  index keeps what has been removed from the code; of more than 50 callers or callees
  of a name, a query returns any 50;
- overlapping saves of the settings, a crash while the file is written, and a
  temperature of zero, which `setDefaults` replaces, lose an acknowledged setting
  (`crossed`, `AckSurvives`), and so does a model that is created or deleted while the
  file cannot be written, since the failure is only logged (owner "unsaved"); the reranker
  and the temperature are not rebuilt with at run time;
- reloads of the MCP clients that overlap leave closed ones in use (`raced`, `ToolsServed`),
  and a server over SSE that was imported at run time loses its connection at the end of
  the request, while its tools stay;
- two transactions that create one entity at a time leave two nodes, of which
  the search reads one (`doubled`, `BuiltIsFound`); an entity without relations or with a
  name of one character is never found; a search of more than 200 rows, a question with more
  chunks than `top_k` and a view with too many nodes or relations (`limit`, twice `limit`)
  leave out any of them (`WithinLimits`);
- an error inside a gRPC answer is read by nobody (`reported`), a Markdown line
  over 64 KB hides the rest of the text, and headings that skip a level are put
  under the wrong ones (`TextKept`, `HeadingsKept`).

Three disagreements with the documentation or a comment, and one with a test, are runs of
their own: the graph retriever's summary of entities never reaches the model,
`chunk_count` of a knowledge base still drifts, since the count the difference
is taken from has been set to 0 before; a replaced file is indexed from its raw
bytes instead of the DocReader's result; and `Wait` may return `expire` for an
approval whose record, and whose decider, say approved.

## Proofs

`ApprovalManagerProofs`, for every set of calls, approvals, deciders and
retries, every assignment of actions, and any positive TTL:

- `Invariance`: `IInv` of `ApprovalManager` is inductive. The safety properties
  alone are not: when `DecideSend` fills a channel one must know that the
  decision it carries is the one on record, and when `McpCheck` passes, that a
  copy that says approved is not out of date. `CarriedFacts` states what each
  goroutine carries from one critical section to the next; it is preserved
  because `setDecision` changes only pending records.
- `GateSafety` (`RunsOnlyApproved` and what waiters and deciders were told),
  `OneDecisionWins` (`OneWinner`), `NoForgottenApproval` (`PendingHasWaiter`),
  `McpRetryRunsApproved` (`McpRunsApproved`), `DecisionsAreFinal` (`DecidedOnce`),
  `ImplementsGate` (`GateSpec`: every step is a step of `HumanGate` or none).

`ImportQueueProofs`, for every finite set of tasks, any positive prefetch and any
number of crashes and losses:

- `Invariance`: needs `Bookkeeping`, in four parts: what a lost link or dead
  process leaves behind, what the goroutine knows of its delivery, which
  messages can have been started, and that the numbering of messages follows
  their order in the queue.
- `QueueSafety` (all safety properties) and `ImplementsAtLeastOnce`.

`KnowledgeImportProofs`, for any requests, files, pages, contents and any bounds
on overlap, failing calls, crashes and shutdowns:

- `QueuedTaskHasFile` (`TaskHasFile`) and `RefusalRemovesFile`
  (`RefusedKeepsNoFile`). Neither is inductive. `RequestInv` ties a temporary file to
  the step its request is at, and `PipelineInv` the queue to the requests: each
  queued task belongs to an accepted request of its own, the worker is at the head,
  and any other run of the pipeline was started by an answered `SyncDocument`. Hence
  the one run that removes a file is never that of a waiting task. The steps that do
  not publish share one lemma (`MoveKeepsPipelineInv`), those that do another. What a
  lookup finds in the database does not matter and stays unexpanded.
- `RowInvariance`: `RowInv` says that whatever a request, a task, a run or a chunk
  names is a document with a row, that a deletion has taken the row out of the lookups
  before it wipes, and that a file document only ever has the worker's run.

The same module, for any number of requests that overlap, in a calm execution. `Calm` says
that no call has failed yet, nothing crashed and no signal came; a theorem
`Spec => [](Calm => P)` speaks of all behaviours, up to their first failure, and of
any bounds on failures. (`P` itself is false after one: a failed publish leaves
a "pending" row for ever.) Each property needs an invariant that names the step
at which it is broken for a moment:

- `CalmFilesAreOwned` (`FilesAreOwned`): `FileOwnerInv` names the steps of a run after
  `Cleanup`, when the task is still there and its file no longer.
- `CalmUnsettledHasOwner` (`UnsettledHasOwner`): an owner is not enough, since a run past
  `Complete` owns its document and will not settle it. `SettlerInv` asks for one that
  will, and every status that is written keeps or is one.
- `CalmStoresAgree` (`StoresAgree`): `StoreInv` says by how much the two stores differ
  between the two writes of a run (`Balanced`). It relies on `RowInv`: a reindex, which
  clears the stores one after the other, is never at a file document.
- `CalmDocCountRight` (`DocCountRight`), under the hypothesis `MaxActive = 1`: with
  two requests, one between creating a row and counting it, the property is false.
  `CountInv` says how far `document_count` is ahead at each step of the one request.

`KnowledgeImportClientProofs`, as long as all is calm. First under the hypothesis
`Patient`: the client makes a request only when all before it have taken effect (a
changing page and any kind of request included):

- `PatientDeletedIsGone` (`DeletedIsGone`), and `PatientPageIndexed` (`PageIndexed`),
  which has a second hypothesis, that an upload and a replacement cut a
  content the same way; without it a replaced file is indexed otherwise (finding
  of `import_raw_bytes`).
- `PatientInv`: at most one of handler, task and run is there (`Busy`), every
  document it is not changing is settled (`Settled`: both stores hold the same chunks,
  each text once, and a completed row counts one version of the source), and for the
  one it is changing, what each step has made of it so far (`RequestSees`,
  `RunSees`): of a replacement, that what is retained and what is added make up the new
  texts. `RequestSees` and `RunSees` speak of a record, a row and two sets only,
  so that what a step does to other documents is a lemma of its own.

Then under `MaxActive = 1`: requests come one at a time, but do not wait for the
worker, and under the same hypothesis on how contents are cut:

- `ClientIndexedExactly` (`IndexedExactly`), with files only: the row of a page that
  the DocReader parsed has no hash. `ClientDuplicateIsCovered` (`DuplicateIsCovered`),
  of executions that stay calm, with pages, syncs and reindexing beside.
- `ClientInv`: the content whose hash a row has is indexed, or it is in the file of a
  task behind the run, or of the request that is about to publish one
  (`HashComes`). For a run, `HashSees` says from which step on it may rely on
  the hash it wrote: an upload may prepare the row for a replacement at any step of it,
  and then comes itself. `FirstTask` says why an insertion, which does not look at
  what is there, finds nothing: it is before all other tasks of its document. The
  queue being served in order is used throughout.

`KnowledgeImportCrashProofs`, under `Patient` and with contents cut the same way by
uploads and replacements:

- `CrashNothingMissing` (`NothingMissing`), as long as the execution is `Sound`: no call
  has failed, no signal came, and the process has crashed at most once, at any step.
  `KeptInv` says at each step what of the file must still be there for the run that the
  task will be given again: vectors that no row lists do no harm, and rows without
  vectors are, between the two deletions of a replacement, only of texts that the
  file no longer has (`Droppable`).
- One crash, because the argument and the property end with the second, as TLC shows
  with `MaxCrashes = 2`: the first may double a text; of its two chunks a replacement may
  retain either, and a run cut off between the two deletions has dropped the vector of
  one that the run repeating it may retain.

`QuestionProofs`, what a client's question and the model's answer pass:

- `LimiterAdmitsExactly` (`AdmitsExactly`), for any clients, cost, burst, interval and
  length of time. `LimiterInv` says
  that a bucket, refilled to now, holds the least of the burst and, for each
  admitted request, the burst and the time since, less what was spent from it on.
  So comparing one number is the same as looking at every window.
- `VerdictIsHeld` (`VerdictHeld`), for any tenants, organisations, shares, knowledge
  bases and requests. `AccessInv` says that each request has witnessed what is true now
  (`Sees`), that its verdict so far stands on what it has witnessed (`VerdictOf`), and what
  it knows between its statements (`StageKnows`, `NotOwner`). A verdict that stands
  on what was seen stands on more (`VerdictStays`), so the steps of others cannot take
  it back.
- `ScopeIsRespected` (`ScopeRespected`), for any data and limits, and
  `AnswerIsFromEvidence` (`AnswerHasEvidence`), which has the hypothesis
  `RerankTopK # 0`. The proof asked for it: `BuildContext` keeps nothing of what the
  gate let through when `reranker.top_k` is 0. `setDefaults` (`config/config.go:533`)
  gives that field no default and `service/chat.go:241` passes it on as it is; only
  the settings form refuses a 0 (`handler/api.go:4485`).
- `CommonVerdictIsKept` (`CommonVerdictKept`), for lists of up to twice a `TopK` of 1000.
  The scores are integers of a `Scale` here, so the proof shows that two ranks have
  different shares of it (`Shares`, `ScaleIsLarge`), and the bound on `TopK` is where
  that ends. The rest is order: a list sorted at each place is sorted (`Falling`), a
  list without repeats has one place for each document, and a boost of one document
  never passes another's that was boosted too.
- `ThinkingIsHidden` (`HidesThinking`), for any alphabet, answers, chunks and tags, if
  the first character of the opening tag is not in it again. `findPartialOpen` needs
  that: it holds back the shortest beginning of the tag that the buffer ends with, and
  a longer one would have its first character at the shortest (`NoneBegins`).
  `FilterInv` looks ahead: however the answer goes on, what is visible of it is what
  was sent and what the buffer with the rest will show (`NothingLost`, `Revealed`); a
  pass of the loop keeps that (`LastPassReveals`, `PassReveals`). That the two recursive
  functions are what their definitions say is a lemma too (`Recursion`): a function that
  calls itself once, with an argument of lower rank, exists.

`UpkeepProofs`, what is changed while the system runs: the chunks of a document of any
number of them, by any clients and workers, with any number of writes and failures;
the settings, by any administrators, with any forms, failed calls and restarts; any
wikis; the status of a document, with any number of uploads, reindexings, syncs and
enrichments; the graph of any knowledge bases, builds and deletions; and the code graph of any repositories:

- `EditsKeepHistory` (`HistoryKept`). `RequestFacts` says what an edit knows between
  its statements: while it is about to keep a revision, the row is what it read or
  was written beside it; while it is about to overwrite the row, the row is among
  the revisions or was.
- `EnrichmentStaysInPlace` (`IndexHoldsOwnText`). `PoolInv` says that no index is
  lost on its way through the pool: each is done, at a worker or still queued, so that
  when all workers rest every result is that of its own index (`NoIndexLost`), and
  what is worked on was once the text of the chunk at that index (`DocsArePast`).
- `AcknowledgedSurvives` (`AckSurvives`). `SavedInv` relates the configuration, its file
  and the saves under way by who owns each field: a save has what its own request wrote,
  and only one that is alone has all that is stored, which is why a save that overlapped
  another (`crossed`) ends the promise; a request whose save failed leaves its field in the
  configuration only, as "lost" or, by `CreateModel` and `DeleteModel`, as "unsaved"
  (`Acknowledged`). `BuiltInv` says how far a request must be for the
  model to be built from a field it wrote; it rests on the order of the steps of
  `UpdateSettings` (`BuiltLast`) and on the embedder being rebuilt at once when a new key
  of the chat model becomes its own, with the base URL that comes with it (`Shared`).
- `SavedToolsServed` (`ToolsServed`). `ServedInv` says that a reload which overlaps no
  other has closed every connection before it opens the first one, that the tools it
  hands over at the end are those of the manager it has just set, and what holds between
  reloads (`AtRest`): every open connection is served, and what is served without one
  was a stream.
- `WikiLinksResolved` (`LinksResolved`). `WikiInv` says that ids of pages are not given
  twice, so that a link never leads to a page written after its target was deleted
  (`PagesHaveIds`, `LinkLeads`), and that an open link whose page is there waits for an
  upload at work in that wiki (`LinkWaits`): each upload runs `ResolveLinks` after the
  last of its own pages and links.
- `StatusIsShown` (`StatusShown`). `StatusInv` says, as long as imports have not overlapped
  and no write was lost, that one writer is at work (`OneAtWork`), that Redis and the copy
  a writer has read agree with the row but for the field this writer is about to write
  (`RedisAgrees`, `CopyAgrees`), and that the row is written first (`RowFirst`), with the
  one exception of an enrichment that begins. A state that leaves a field empty agrees
  with every row, which is why an expired key and a failed read do no harm. After a reindex has
  reset the row (`resetRow`) nothing is asked of the import's status in Redis
  (`AgreesWith`), until a job has told both.
- `GraphBuiltIsFound` (`BuiltIsFound`). `GraphInv` says that the nodes of a knowledge base
  have different names (`NamesOnce`), unless a merge created a name that another had
  created since it matched; that a node has no type, or one a chunk of its knowledge
  base gives its name (`NodesOK`), so that a search with the only such type does not pass
  it by; and that each stored chunk is listed by a node of every name it mentions, with
  its relations beside them (`ChunksInGraph`), whatever is merged into those nodes later.
  A search then has a row for it, and leaves it out only when it has to choose (`Limited`).
- `IndexIsShown` (`IndexShowsCode`). The property speaks of the end of a run, and by then
  its files were read, parsed and written at different times. `CodeInv` says of a run that
  may be trusted where each file is on its way (`FileOK`): to be taken, at a worker and as
  far in the graph as the worker's stage says, or in the graph for good, each of them with
  the text that is checked out now. A step of another run keeps what the graph holds of a
  repository (`Spared`) as long as its label is not shared, and a pull or a deletion
  disturbs every run of its repository. Calls need the names at both ends when they are
  written: those of the file are there because its definitions are written first, and the
  others were there when the run began (`KnownTo`).

`ChatTurnsProofs`, for any turns, sessions and requests, any limit but 0, any channel
capacity and any number of failed calls, lost clients and overlaps:

- `TypeCorrect`. What each action makes of the record of its turn is a lemma of its
  own (`ReadCacheDoes` to `AskDoes`), which the three invariants share; records are
  only unfolded there.
- `CacheCorrect` (`CacheIsRecent`). It says nothing while a turn is at work, so
  `CacheInv` says what holds then (`Caches`): the cache is as recent as the table,
  except between saving a row and refreshing the cache, when it is one row behind.
  That a hit catches up rests on a lemma about sequences, `LastOfAppended`: appending
  to the last rows and keeping the last ones is keeping the last ones of the whole.
- `DoneIsKept` (`DoneMeansKept`). `Delivers` says what is on its way: the text the client
  has been given and that of the events still in the channel add up to the answer
  (`Flows`), a done event is the last of its channel, and an answer that is
  complete when it is saved is recorded as completed before the event is sent.
  `Saved` says which rows a turn has at each step: none, its question, its answer.

Wherever a least number or rank is needed, it is taken from the well-foundedness of `<`
on the naturals (`Least`), since the induction theorems need an operator.

They rest on the named assumptions of the modules, which TLC evaluates on the
instances of the runs: disjoint sets of approvals, a
typed assignment of actions, a finite set of tasks, `NoTask` not among them,
files that are no pages, contents of finitely many chunks and at least one, a
document of at least one chunk, `None` none of the values, bounds in `Nat`
(`ApprovalManager`, `ImportQueue`, `KnowledgeImport`, `ChunkUpkeep`); a cleanup that comes
only when an idle bucket is full (`LimiterAssumption`); a request that is one of the two
handlers' and names a session or none (`TurnsAssumption`); finitely many knowledge
bases and rows as the tables' schema has them (`AccessAssumption`); finite indexes, and a `TopK`
that is positive (`RetrievalAssumption`); forms with fields of the configuration, and
administrators that are none of the marks `kept`, `unsaved` and `lost` (`SettingsAssumption`);
finitely many names, each of which contains itself, among them all that a chunk mentions
(`GraphAssumption`); repositories with at least one version, and calls from what their
file defines, as `extractCalls` of the parser gives them, with names that contain themselves
(`RepoAssumption`); two tags that are
not empty, the first without its first character elsewhere (`TagAssumption`).

Only model-checked:

- liveness (`WaiterReturns`, `QueuedIsSettled`, `ImportIsSettled`, `StreamCloses`) and
  what it rests on, ENABLED: out of the prover's reach;
- `Chunkers` and `DocumentReading` (`TextKept`, `HeadingsKept`), which use RECURSIVE
  operators and folds of operators: what they compute for every text needs induction
  over them.

## Plan

Compose `ChatTurns` with `ApprovalManager`: the agent's tools, their limits
and the approval that a cancelled turn leaves behind.

## Not modelled

- Inside an agent's turn: the tool limits of `runtime_agent.go`, the trace
  collector, and the producers of `pipeline/rag.go` that send without a
  `select` and block when nobody reads any more.
- How synchronous uploads (without a queue) interleave with other requests; the
  diff's counting of repeated texts; deletion of a knowledge base beyond its row.
- Login, tokens, access to sessions, scopes of MCP keys; cached retrieval
  results, which no caller ever stores.
- Scores, prompts and answers of models, document formats, what a parser finds
  in source code: choices or constants of the models above.
- Prompts, logging, metrics and audit; the front end, the evaluation commands,
  generated code. No protocol depends on them.
