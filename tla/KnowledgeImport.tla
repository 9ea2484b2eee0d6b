--------------------------- MODULE KnowledgeImport ---------------------------
(****************************************************************************)
(* Documents of one knowledge base on their way into the index: the HTTP    *)
(* handlers of internal/handler/api.go that upload, delete, reindex and     *)
(* sync them, and the import worker, over the knowledges, chunks and        *)
(* knowledge_bases tables, the vector store and the import queue.           *)
(*                                                                          *)
(* Each call to a database, the vector store, the queue or the parser is    *)
(* one step: requests, the worker and the goroutines of SyncDocument        *)
(* interleave between them, and each call may fail.  No call runs in a      *)
(* transaction with another.  The process may crash or be told to stop, and *)
(* is restarted.                                                            *)
(*                                                                          *)
(* Configuration: import queue and pgvector on; Redis, contextual           *)
(* enrichment, GraphRAG and wiki mode off.  Chunk texts are opaque and a    *)
(* content is the set of its chunks' texts, which is not empty.             *)
(****************************************************************************)
EXTENDS Integers, FiniteSets, Sequences, SequencesExt, FiniteSetsExt

CONSTANTS
    Requests,     \* HTTP requests; each names the task, temporary file and
                  \* document it may create
    Files, Pages, \* what is uploaded: file names and URLs
    Contents,
    Parse,        \* content -> texts of the chunks the DocReader makes of it
    Plain,        \* content -> texts of the chunks of its bytes as plain text
    DocReader,    \* h.docReaderCli # nil
    Ops,          \* the kinds of request that are made
    None,
    MaxActive,    \* bound on the requests in progress at a time
    Patient,      \* a request is made only when all earlier ones took effect
    MaxFaults,    \* bound on failing calls
    MaxCrashes,   \* bound on crashes
    MaxShutdowns  \* bound on signals to stop

ASSUME SourcesAssumption == Files \cap Pages = {}
ASSUME NoneAssumption == None \notin Requests \cup Files \cup Pages \cup Contents
ASSUME ParseAssumption ==
    /\ DOMAIN Parse = Contents /\ DOMAIN Plain = Contents
    /\ \A c \in Contents : \A T \in {Parse[c], Plain[c]} : T # {} /\ IsFiniteSet(T)
ASSUME SwitchAssumption == DocReader \in BOOLEAN /\ Patient \in BOOLEAN
ASSUME BoundsAssumption == {MaxActive, MaxFaults, MaxCrashes, MaxShutdowns} \subseteq Nat

VARIABLES
    docs,     \* table knowledges; a document has the id of its first request
    recent,   \* its live rows by updated_at, the latest last
    chunks,   \* table chunks
    vectors,  \* the vector store
    kb,       \* document_count and chunk_count of the knowledge base
    files,    \* the content of each temporary file
    queue,    \* tasks that are not settled; the worker's is the head
    worker,   \* the task the worker is at
    req, job, \* requests; runs of the import pipeline
    page,     \* what each URL serves
    stopping, \* a signal was caught: the worker's context is cancelled
    faults, crashes, shutdowns

dbVars    == <<docs, recent, kb>>
indexVars == <<chunks, vectors>>
taskVars  == <<files, queue, worker>>
worldVars == <<page, stopping, crashes, shutdowns>>
vars == <<dbVars, indexVars, taskVars, req, job, worldVars, faults>>

Sources  == Files \cup Pages
Texts    == UNION {Parse[c] \cup Plain[c] : c \in Contents}

NoDoc  == [status |-> "absent", live |-> FALSE, source |-> None, count |-> 0,
           hash |-> None]
NoReq  == [pc |-> "new", source |-> None, content |-> None, doc |-> None,
           hash |-> None, replace |-> FALSE]
NoJob  == [pc |-> "off", doc |-> None, source |-> None, content |-> None,
           replace |-> FALSE, full |-> FALSE, drop |-> {}, add |-> {},
           new |-> {}, count |-> 0, prev |-> 0, failed |-> FALSE]

Init ==
    /\ docs = [d \in Requests |-> NoDoc]
    /\ recent = <<>>
    /\ chunks = {}
    /\ vectors = {}
    /\ kb = [docs |-> 0, chunks |-> 0]
    /\ files = [r \in Requests |-> None]
    /\ queue = <<>>
    /\ worker = None
    /\ req = [r \in Requests |-> NoReq]
    /\ job = [r \in Requests |-> NoJob]
    /\ page \in [Pages -> Contents]
    /\ stopping = FALSE
    /\ faults = 0
    /\ crashes = 0
    /\ shutdowns = 0

Answers == {"accepted", "duplicate", "done", "error"}
Over    == Answers \cup {"dead"}

Active  == {r \in Requests : req[r].pc \notin Over \cup {"new"}}
Running == {j \in Requests : job[j].pc # "off"}
Quiet   == Active = {} /\ Running = {} /\ queue = <<>>
MayStart == ~stopping /\ Cardinality(Active) < MaxActive /\ (Patient => Quiet)

Ok    == UNCHANGED faults
Fault == faults < MaxFaults /\ faults' = faults + 1

Of(d, S) == {x \in S : x.doc = d}
TextsOf(S) == {x.text : x \in S}
DeleteByKnowledgeID(d, S) == S \ Of(d, S)

\* What is written of S, row by row, when one of the rows fails.
Partly(S) == (SUBSET S) \ {S}

(*************************************************************************)
(* internal/database/repository: the statements on table knowledges      *)
(*************************************************************************)

Touched(d) ==
    IF docs[d].live THEN Append(SelectSeq(recent, LAMBDA e : e # d), d) ELSE recent

\* UpdateParseStatus and UpdateContentHash also write to deleted rows.
UpdateParseStatus(d, status, count) ==
    /\ docs' = [docs EXCEPT ![d].status = status, ![d].count = count]
    /\ recent' = Touched(d)
    /\ UNCHANGED kb

UpdateContentHash(d, hash) ==
    /\ docs' = [docs EXCEPT ![d].hash = hash]
    /\ recent' = Touched(d)
    /\ UNCHANGED kb

UpdateEnrichmentStatus(d) == recent' = Touched(d) /\ UNCHANGED <<docs, kb>>

PrepareForReplacement(d, hash) ==
    /\ docs' = IF docs[d].live
               THEN [docs EXCEPT ![d].status = "pending", ![d].hash = hash]
               ELSE docs
    /\ recent' = Touched(d)
    /\ UNCHANGED kb

\* WHERE deleted_at IS NULL AND ... ORDER BY updated_at DESC LIMIT 1
Latest(Match(_)) ==
    LET found == {d \in Requests : docs[d].live /\ Match(d)}
        last  == {d \in found : \E i \in DOMAIN recent :
                    recent[i] = d /\ \A k \in DOMAIN recent : k > i => recent[k] \notin found}
    IN  IF last = {} THEN None ELSE CHOOSE d \in last : TRUE

FindBySource(s) == LET Match(d) == docs[d].source = s IN Latest(Match)

FindByContentHash(h) ==
    LET Match(d) == docs[d].source \in Files /\ docs[d].hash = h IN Latest(Match)

IncrementCounts(n, m) ==
    /\ kb' = [docs |-> kb.docs + n, chunks |-> kb.chunks + m]
    /\ UNCHANGED <<docs, recent>>

(*************************************************************************)
(* UploadDocument and UploadDocumentURL: enqueueFileImport,              *)
(* enqueueURLImport                                                      *)
(*************************************************************************)

Goto(r, pc) == req' = [req EXCEPT ![r].pc = pc]

Answer(r, a) == req' = [req EXCEPT ![r] = [NoReq EXCEPT !.pc = a]]

RemoveFile(r) == files' = [files EXCEPT ![r] = None]

Abandon(r) == RemoveFile(r) /\ Answer(r, "error")

\* persistUploadedFile
UploadFile(r, s, c) ==
    /\ "upload" \in Ops /\ MayStart /\ req[r].pc = "new"
    /\ files' = [files EXCEPT ![r] = c]
    /\ req' = [req EXCEPT ![r] = [NoReq EXCEPT !.pc = "dedupe", !.source = s,
                                               !.content = c]]
    /\ UNCHANGED <<dbVars, indexVars, queue, worker, job, worldVars, faults>>

UploadURL(r, s) ==
    /\ "upload" \in Ops /\ MayStart /\ req[r].pc = "new"
    /\ req' = [req EXCEPT ![r] = [NoReq EXCEPT !.pc = "find", !.source = s]]
    /\ UNCHANGED <<dbVars, indexVars, taskVars, job, worldVars, faults>>

\* Mutant: the temporary file of a duplicate is left behind.
DedupeKeepFile(r) ==
    /\ req[r].pc = "dedupe"
    /\ LET d == FindByContentHash(req[r].content) IN
       \/ /\ Ok /\ d # None /\ docs[d].status = "completed"
          /\ Answer(r, "duplicate") /\ UNCHANGED files
       \/ Ok /\ ~(d # None /\ docs[d].status = "completed")
             /\ Goto(r, "find") /\ UNCHANGED files
       \/ Fault /\ Abandon(r)
    /\ UNCHANGED <<dbVars, indexVars, queue, worker, job, worldVars>>

\* findDuplicateFileByHash
Dedupe(r) ==
    /\ req[r].pc = "dedupe"
    /\ LET d == FindByContentHash(req[r].content) IN
       \/ /\ Ok
          /\ d # None /\ docs[d].status = "completed"
          /\ req' = [req EXCEPT ![r] = [NoReq EXCEPT !.pc = "duplicate", !.doc = d,
                                              !.content = req[r].content]]
          /\ RemoveFile(r)
       \/ Ok /\ ~(d # None /\ docs[d].status = "completed")
             /\ Goto(r, "find") /\ UNCHANGED files
       \/ Fault /\ Abandon(r)
    /\ UNCHANGED <<dbVars, indexVars, queue, worker, job, worldVars>>

\* findExistingKnowledge, and what prepareKnowledgeForImport does with it.
Find(r) ==
    /\ req[r].pc = "find"
    /\ LET d == FindBySource(req[r].source) IN
       \/ /\ Ok /\ d = None
          /\ req' = [req EXCEPT ![r].pc = "create", ![r].doc = r,
                                ![r].hash = req[r].content]
          /\ UNCHANGED files
       \/ /\ Ok /\ d # None
          /\ req' = [req EXCEPT ![r].pc = "prepare", ![r].doc = d,
                         ![r].hash = IF req[r].content # None THEN req[r].content
                                                              ELSE docs[d].hash]
          /\ UNCHANGED files
       \/ Fault /\ Abandon(r)
    /\ UNCHANGED <<dbVars, indexVars, queue, worker, job, worldVars>>

\* createKnowledgeRecord
Create(r) ==
    /\ req[r].pc = "create"
    /\ \/ /\ Ok
          /\ docs' = [docs EXCEPT ![r] = [NoDoc EXCEPT !.status = "pending",
                !.live = TRUE, !.source = req[r].source, !.hash = req[r].hash]]
          /\ recent' = Append(recent, r)
          /\ Goto(r, "count")
          /\ UNCHANGED <<files, kb>>
       \/ Fault /\ Abandon(r) /\ UNCHANGED dbVars
    /\ UNCHANGED <<indexVars, queue, worker, job, worldVars>>

CountUp(r) ==
    /\ req[r].pc = "count"
    /\ \/ Ok /\ IncrementCounts(1, 0) /\ Goto(r, "publish") /\ UNCHANGED files
       \/ Fault /\ Abandon(r) /\ UNCHANGED dbVars
    /\ UNCHANGED <<indexVars, queue, worker, job, worldVars>>

Prepare(r) ==
    /\ req[r].pc = "prepare"
    /\ \/ /\ Ok
          /\ PrepareForReplacement(req[r].doc, req[r].hash)
          /\ req' = [req EXCEPT ![r].pc = "publish", ![r].replace = TRUE]
          /\ UNCHANGED files
       \/ Fault /\ Abandon(r) /\ UNCHANGED dbVars
    /\ UNCHANGED <<indexVars, queue, worker, job, worldVars>>

Task(r) == [id |-> r, doc |-> req[r].doc, source |-> req[r].source,
            replace |-> req[r].replace]

\* Mutant: the early return after a failed publish leaves the temporary file.
PublishKeepFile(r) ==
    /\ req[r].pc = "publish"
    /\ \/ /\ Ok
          /\ queue' = Append(queue, Task(r))
          /\ Answer(r, "accepted")
       \/ Fault /\ Goto(r, "markFailed") /\ UNCHANGED queue
    /\ UNCHANGED <<dbVars, indexVars, files, worker, job, worldVars>>

\* Mutant: the handler removes its temporary file when it returns.
PublishRemove(r) ==
    /\ req[r].pc = "publish"
    /\ RemoveFile(r)
    /\ \/ /\ Ok
          /\ queue' = Append(queue, Task(r))
          /\ Answer(r, "accepted")
       \/ Fault /\ Goto(r, "markFailed") /\ UNCHANGED queue
    /\ UNCHANGED <<dbVars, indexVars, worker, job, worldVars>>

\* importQueue.Enqueue
Publish(r) ==
    /\ req[r].pc = "publish"
    /\ \/ /\ Ok
          /\ queue' = Append(queue, Task(r))
          /\ req' = [req EXCEPT ![r] = [NoReq EXCEPT !.pc = "accepted",
                                                     !.doc = req[r].doc]]
          /\ UNCHANGED files
       \/ Fault /\ RemoveFile(r) /\ Goto(r, "markFailed") /\ UNCHANGED queue
    /\ UNCHANGED <<dbVars, indexVars, worker, job, worldVars>>

MarkUnpublished(r) ==
    /\ req[r].pc = "markFailed"
    /\ \/ Ok /\ UpdateParseStatus(req[r].doc, "failed", 0)
       \/ Fault /\ UNCHANGED dbVars
    /\ Answer(r, "error")
    /\ UNCHANGED <<indexVars, taskVars, job, worldVars>>

(*************************************************************************)
(* DeleteDocument.  Rows of table chunks and the chunk count stay.       *)
(*************************************************************************)

Delete(r, d) ==
    /\ "delete" \in Ops /\ MayStart /\ req[r].pc = "new"
    /\ docs[d].live
    /\ req' = [req EXCEPT ![r] = [NoReq EXCEPT !.pc = "softDelete", !.doc = d]]
    /\ UNCHANGED <<dbVars, indexVars, taskVars, job, worldVars, faults>>

\* knowledgeRepo.Delete: a row that is already deleted is no error.
SoftDelete(r) ==
    /\ req[r].pc = "softDelete"
    /\ \/ /\ Ok
          /\ docs' = [docs EXCEPT ![req[r].doc].live = FALSE]
          /\ recent' = SelectSeq(recent, LAMBDA e : e # req[r].doc)
          /\ Goto(r, "wipe")
       \/ Fault /\ Answer(r, "error") /\ UNCHANGED <<docs, recent>>
    /\ UNCHANGED <<kb, indexVars, taskVars, job, worldVars>>

\* Mutant: the vectors of a deleted document stay, as its chunks do.
WipeNot(r) ==
    /\ req[r].pc = "wipe"
    /\ Ok /\ Goto(r, "countDown")
    /\ UNCHANGED <<dbVars, indexVars, taskVars, job, worldVars>>

Wipe(r) ==
    /\ req[r].pc = "wipe"
    /\ \/ Ok /\ vectors' = DeleteByKnowledgeID(req[r].doc, vectors)
       \/ Fault /\ UNCHANGED vectors
    /\ Goto(r, "countDown")
    /\ UNCHANGED <<dbVars, chunks, taskVars, job, worldVars>>

\* Mutant: document_count is not taken back.
CountDownForgotten(r) ==
    /\ req[r].pc = "countDown"
    /\ Ok /\ Answer(r, "done")
    /\ UNCHANGED <<dbVars, indexVars, taskVars, job, worldVars>>

CountDown(r) ==
    /\ req[r].pc = "countDown"
    /\ \/ Ok /\ IncrementCounts(-1, 0)
       \/ Fault /\ UNCHANGED dbVars
    /\ Answer(r, "done")
    /\ UNCHANGED <<indexVars, taskVars, job, worldVars>>

(*************************************************************************)
(* ReindexDocument: a file document has no FilePath and is refused.      *)
(*************************************************************************)

Reindex(r, d) ==
    /\ "reindex" \in Ops /\ MayStart /\ req[r].pc = "new"
    /\ docs[d].live /\ docs[d].source \in Pages
    /\ docs[d].status # "processing"
    /\ req' = [req EXCEPT ![r] = [NoReq EXCEPT !.pc = "clearVectors", !.doc = d,
                                               !.source = docs[d].source]]
    /\ UNCHANGED <<dbVars, indexVars, taskVars, job, worldVars, faults>>

\* Mutant: reindexing leaves the old vectors to be overwritten.
ClearVectorsNot(r) ==
    /\ req[r].pc = "clearVectors"
    /\ Ok /\ Goto(r, "clearChunks")
    /\ UNCHANGED <<dbVars, indexVars, taskVars, job, worldVars>>

ClearVectors(r) ==
    /\ req[r].pc = "clearVectors"
    /\ \/ Ok /\ vectors' = DeleteByKnowledgeID(req[r].doc, vectors)
       \/ Fault /\ UNCHANGED vectors
    /\ Goto(r, "clearChunks")
    /\ UNCHANGED <<dbVars, chunks, taskVars, job, worldVars>>

ClearChunks(r) ==
    /\ req[r].pc = "clearChunks"
    /\ \/ Ok /\ chunks' = DeleteByKnowledgeID(req[r].doc, chunks)
       \/ Fault /\ UNCHANGED chunks
    /\ Goto(r, "resetStatus")
    /\ UNCHANGED <<dbVars, vectors, taskVars, job, worldVars>>

ResetStatus(r) ==
    /\ req[r].pc = "resetStatus"
    /\ \/ Ok /\ UpdateParseStatus(req[r].doc, "pending", 0) /\ Goto(r, "republish")
       \/ Fault /\ UNCHANGED dbVars /\ Answer(r, "error")
    /\ UNCHANGED <<indexVars, taskVars, job, worldVars>>

Republish(r) ==
    /\ req[r].pc = "republish"
    /\ \/ /\ Ok
          /\ queue' = Append(queue, Task(r))
          /\ req' = [req EXCEPT ![r] = [NoReq EXCEPT !.pc = "accepted",
                                                     !.doc = req[r].doc]]
       \/ Fault /\ UNCHANGED queue /\ Answer(r, "error")
    /\ UNCHANGED <<dbVars, indexVars, files, worker, job, worldVars>>

(**************************************************************************)
(* SyncDocument: reads the row, fetches the page and leaves the rest to a *)
(* goroutine.  A file document has no FilePath and is refused.            *)
(**************************************************************************)

Sync(r, d) ==
    /\ "sync" \in Ops /\ MayStart /\ req[r].pc = "new"
    /\ docs[d].live /\ docs[d].source \in Pages
    /\ docs[d].status # "processing"
    /\ req' = [req EXCEPT ![r] = [NoReq EXCEPT !.pc = "fetch", !.doc = d,
                                        !.hash = docs[d].hash]]
    /\ job' = [job EXCEPT ![r].prev = docs[d].count]
    /\ UNCHANGED <<dbVars, indexVars, taskVars, worldVars, faults>>

Fetch(r) ==
    /\ req[r].pc = "fetch"
    /\ LET d == req[r].doc
           c == page[docs[d].source] IN
       \/ Ok /\ req[r].hash = c /\ Answer(r, "done")
             /\ job' = [job EXCEPT ![r] = NoJob]
       \/ /\ Ok /\ req[r].hash # c
          /\ Answer(r, "done")
          /\ job' = [job EXCEPT ![r] = [NoJob EXCEPT !.pc = "syncStart", !.doc = d,
                !.source = docs[d].source, !.replace = TRUE, !.content = c,
                !.prev = job[r].prev]]
       \/ Fault /\ Answer(r, "error") /\ job' = [job EXCEPT ![r] = NoJob]
    /\ UNCHANGED <<dbVars, indexVars, taskVars, worldVars>>

(**************************************************************************)
(* ProcessImportTask and incrementalSync.  A job is the worker's run of a *)
(* task or a goroutine of SyncDocument; both go through the same steps.   *)
(**************************************************************************)

Step(j, pc) == job' = [job EXCEPT ![j].pc = pc]

\* The worker's calls run under the context that a shutdown cancels, those of
\* SyncDocument's goroutine do not.
Cancelled(j) == stopping /\ worker = j
Works(j)  == Ok /\ ~Cancelled(j)
Breaks(j) == IF Cancelled(j) THEN Ok ELSE Fault

\* What is left to do after an error; n goes to chunk_count.
Fail(j, n) == job' = [job EXCEPT ![j].pc = "cleanup", ![j].failed = TRUE, ![j].count = n]

\* Mutant: a task whose document is already completed is taken for a duplicate
\* delivery and acknowledged.
TakeUnlessCompleted ==
    /\ worker = None /\ queue # <<>>
    /\ LET t == Head(queue) IN
       \/ /\ Ok /\ docs[t.doc].status # "completed"
          /\ UpdateParseStatus(t.doc, "processing", 0)
          /\ worker' = t.id
          /\ job' = [job EXCEPT ![t.id] = [NoJob EXCEPT !.pc = "load", !.doc = t.doc,
                                 !.source = t.source, !.replace = t.replace]]
          /\ UNCHANGED queue
       \/ /\ Ok /\ docs[t.doc].status = "completed"
          /\ queue' = Tail(queue) /\ UNCHANGED <<dbVars, worker, job>>
    /\ UNCHANGED <<indexVars, files, req, worldVars>>

\* The worker's first status update; if it fails the task is rejected
\* (Nack without requeue).
Take ==
    /\ worker = None /\ queue # <<>>
    /\ LET t == Head(queue) IN
       \/ /\ Ok /\ ~stopping
          /\ UpdateParseStatus(t.doc, "processing", 0)
          /\ worker' = t.id
          /\ job' = [job EXCEPT ![t.id] = [NoJob EXCEPT !.pc = "load", !.doc = t.doc,
                                 !.source = t.source, !.replace = t.replace]]
          /\ UNCHANGED queue
       \/ /\ IF stopping THEN Ok ELSE Fault
          /\ queue' = Tail(queue)
          /\ UNCHANGED <<dbVars, worker, job>>
    /\ UNCHANGED <<indexVars, files, req, worldVars>>

\* What an insertion indexes; a replacement goes by Plain.
ChunksOf(c) == IF DocReader THEN Parse[c] ELSE Plain[c]

\* processQueuedFileImport, processQueuedURLImport: read, fetch or parse.
Load(j) ==
    /\ job[j].pc = "load"
    /\ LET s == job[j].source
           c == IF s \in Pages THEN page[s] ELSE files[j] IN
       \/ /\ Works(j) /\ c # None /\ job[j].replace
          /\ job' = [job EXCEPT ![j].pc = "syncStart", ![j].content = c]
       \/ /\ Works(j) /\ c # None /\ ~job[j].replace
          /\ job' = [job EXCEPT ![j].pc = "store", ![j].content = c,
                      ![j].add = ChunksOf(c), ![j].count = Cardinality(ChunksOf(c))]
       \/ Works(j) /\ c = None /\ Fail(j, 0)
       \/ Breaks(j) /\ Fail(j, 0)
    /\ UNCHANGED <<dbVars, indexVars, taskVars, req, worldVars>>

SyncStart(j) ==
    /\ job[j].pc = "syncStart"
    /\ \/ Works(j) /\ UpdateParseStatus(job[j].doc, "processing", 0) /\ Step(j, "readOld")
       \/ Breaks(j) /\ UNCHANGED dbVars /\ Fail(j, 0)
    /\ UNCHANGED <<indexVars, taskVars, req, worldVars>>

\* Mutant: with nothing to add or drop, the job returns early.
ReadOldReturn(j) ==
    /\ job[j].pc = "readOld"
    /\ Works(j)
    /\ LET old == Of(job[j].doc, chunks)
           texts == Plain[job[j].content]
           add == texts \ TextsOf(old) IN
       \E retained \in SUBSET old :
          /\ TextsOf(retained) = TextsOf(old) \cap texts
          /\ \A x, y \in retained : x.text = y.text => x = y
          /\ LET drop == old \ retained IN
             job' = [job EXCEPT ![j] = [@ EXCEPT
                 !.pc = IF drop # {} THEN "dropVectors"
                        ELSE IF add # {} THEN "store" ELSE "ack",
                 !.drop = drop, !.add = add, !.count = Cardinality(texts)]]
    /\ UNCHANGED <<dbVars, indexVars, taskVars, req, worldVars>>

\* diffChunksByOccurrence: of the chunks with a text that is still there, one
\* is retained.  When the old ones cannot be read, everything is replaced.
ReadOld(j) ==
    /\ job[j].pc = "readOld"
    /\ LET old == Of(job[j].doc, chunks)
           texts == Plain[job[j].content] IN
       \/ /\ Works(j)
          /\ \E retained \in SUBSET old :
                /\ TextsOf(retained) = TextsOf(old) \cap texts
                /\ \A x, y \in retained : x.text = y.text => x = y
                /\ LET add == texts \ TextsOf(old)
                       drop == old \ retained IN
                   job' = [job EXCEPT ![j] = [@ EXCEPT
                       !.pc = IF drop # {} THEN "dropVectors"
                              ELSE IF add # {} THEN "store" ELSE "hash",
                       !.drop = drop, !.add = add, !.count = Cardinality(texts)]]
       \/ /\ Breaks(j)
          /\ job' = [job EXCEPT ![j] = [@ EXCEPT !.pc = "dropVectors", !.full = TRUE,
                                   !.add = texts, !.count = Cardinality(texts)]]
    /\ UNCHANGED <<dbVars, indexVars, taskVars, req, worldVars>>

Dropped(j, S) == IF job[j].full THEN Of(job[j].doc, S) ELSE job[j].drop

\* Mutant: DeleteByKnowledgeID where the code deletes by chunk ids.
DropVectorsAll(j) ==
    /\ job[j].pc = "dropVectors"
    /\ Works(j) /\ vectors' = DeleteByKnowledgeID(job[j].doc, vectors)
    /\ Step(j, "dropChunks")
    /\ UNCHANGED <<dbVars, chunks, taskVars, req, worldVars>>

\* Mutant: the vectors of dropped chunks stay.
DropVectorsNot(j) ==
    /\ job[j].pc = "dropVectors"
    /\ Works(j) /\ Step(j, "dropChunks")
    /\ UNCHANGED <<dbVars, indexVars, taskVars, req, worldVars>>

DropVectors(j) ==
    /\ job[j].pc = "dropVectors"
    /\ \/ Works(j) /\ vectors' = vectors \ Dropped(j, vectors)
       \/ Breaks(j) /\ UNCHANGED vectors
    /\ Step(j, "dropChunks")
    /\ UNCHANGED <<dbVars, chunks, taskVars, req, worldVars>>

DropChunks(j) ==
    /\ job[j].pc = "dropChunks"
    /\ \/ Works(j) /\ chunks' = chunks \ Dropped(j, chunks)
       \/ Breaks(j) /\ UNCHANGED chunks
    /\ job' = [job EXCEPT ![j].pc = IF job[j].add = {} THEN "hash" ELSE "store",
                          ![j].drop = {}]
    /\ UNCHANGED <<dbVars, vectors, taskVars, req, worldVars>>

\* uuid.NewString: a number that no chunk of this text has
Fresh(d, t) ==
    LET used == {x \in vectors \cup chunks \cup UNION {job[i].new : i \in Requests} :
                    x.doc = d /\ x.text = t}
    IN  CHOOSE n \in 1..(Cardinality(used) + 1) : \A x \in used : x.nr # n

NewChunks(j) == {[doc |-> job[j].doc, text |-> t, nr |-> Fresh(job[j].doc, t)] :
                    t \in job[j].add}

\* Embed the texts and Upsert the vectors, row by row.
Store(j) ==
    /\ job[j].pc = "store"
    /\ LET new == NewChunks(j) IN
       \/ /\ Works(j)
          /\ vectors' = vectors \cup new
          /\ job' = [job EXCEPT ![j].pc = "dualWrite", ![j].new = new, ![j].add = {}]
       \/ /\ Breaks(j)
          /\ \E part \in Partly(new) : vectors' = vectors \cup part
          /\ Fail(j, IF job[j].replace THEN 0 ELSE job[j].count)
    /\ UNCHANGED <<dbVars, chunks, taskVars, req, worldVars>>

\* BatchCreate, row by row; an error is only logged.  Of the insertions only
\* that of a plain text goes on to UpdateContentHash.
DualWrite(j) ==
    /\ job[j].pc = "dualWrite"
    /\ \/ Works(j) /\ chunks' = chunks \cup job[j].new
       \/ Breaks(j) /\ \E part \in Partly(job[j].new) : chunks' = chunks \cup part
    /\ job' = [job EXCEPT ![j].pc = IF ~job[j].replace /\ DocReader THEN "enrichment"
                                                                    ELSE "hash",
                          ![j].new = {}]
    /\ UNCHANGED <<dbVars, vectors, taskVars, req, worldVars>>

WriteHash(j) ==
    /\ job[j].pc = "hash"
    /\ \/ Works(j) /\ UpdateContentHash(job[j].doc, job[j].content)
       \/ Breaks(j) /\ UNCHANGED dbVars
    /\ Step(j, IF job[j].replace /\ ~job[j].full THEN "cleanup" ELSE "enrichment")
    /\ UNCHANGED <<indexVars, taskVars, req, worldVars>>

\* markContextualEnrichmentPending, of the insertions and of fullReindex
MarkEnrichment(j) ==
    /\ job[j].pc = "enrichment"
    /\ \/ Works(j) /\ UpdateEnrichmentStatus(job[j].doc)
       \/ Breaks(j) /\ UNCHANGED dbVars
    /\ Step(j, "cleanup")
    /\ UNCHANGED <<indexVars, taskVars, req, worldVars>>

\* The worker removes the temporary file, whatever came of it.
Cleanup(j) ==
    /\ job[j].pc = "cleanup"
    /\ RemoveFile(j)
    /\ Step(j, IF job[j].failed THEN "markFailed" ELSE "previous")
    /\ UNCHANGED <<dbVars, indexVars, queue, worker, req, worldVars, faults>>

\* markKnowledgeCompleted: the chunk count to take the difference from.
ReadPrevious(j) ==
    /\ job[j].pc = "previous"
    /\ LET d == docs[job[j].doc] IN
       \/ /\ Works(j)
          /\ job' = [job EXCEPT ![j].pc = "complete",
                ![j].prev = IF @ # 0 THEN @ ELSE IF d.live THEN d.count ELSE 0]
       \/ Breaks(j) /\ job[j].prev = 0 /\ Step(j, "complete")
    /\ UNCHANGED <<dbVars, indexVars, taskVars, req, worldVars>>

Complete(j) ==
    /\ job[j].pc = "complete"
    /\ \/ Works(j) /\ UpdateParseStatus(job[j].doc, "completed", job[j].count)
       \/ Breaks(j) /\ UNCHANGED dbVars
    /\ Step(j, "addChunks")
    /\ UNCHANGED <<indexVars, taskVars, req, worldVars>>

AddChunks(j) ==
    /\ job[j].pc = "addChunks"
    /\ \/ Works(j) /\ IncrementCounts(0, job[j].count - job[j].prev)
       \/ Breaks(j) /\ UNCHANGED dbVars
    /\ Step(j, "ack")
    /\ UNCHANGED <<indexVars, taskVars, req, worldVars>>

\* Mutant: only an import that got somewhere is marked as failed.
MarkFailedPartial(j) ==
    /\ job[j].pc = "markFailed"
    /\ Works(j)
    /\ IF job[j].count > 0 THEN UpdateParseStatus(job[j].doc, "failed", job[j].count)
                           ELSE UNCHANGED dbVars
    /\ Step(j, "ack")
    /\ UNCHANGED <<indexVars, taskVars, req, worldVars>>

MarkFailed(j) ==
    /\ job[j].pc = "markFailed"
    /\ \/ Works(j) /\ UpdateParseStatus(job[j].doc, "failed", job[j].count)
       \/ Breaks(j) /\ UNCHANGED dbVars
    /\ Step(j, "ack")
    /\ UNCHANGED <<indexVars, taskVars, req, worldVars>>

\* The worker acknowledges its task; a goroutine of SyncDocument just ends.
End(j) ==
    /\ job[j].pc = "ack"
    /\ IF worker = j THEN worker' = None /\ queue' = Tail(queue)
                     ELSE UNCHANGED <<worker, queue>>
    /\ job' = [job EXCEPT ![j] = NoJob]
    /\ UNCHANGED <<dbVars, indexVars, files, req, worldVars, faults>>

(*************************************************************************)
(* The world                                                             *)
(*************************************************************************)

ChangePage(s) ==
    /\ \E c \in Contents \ {page[s]} : page' = [page EXCEPT ![s] = c]
    /\ UNCHANGED <<dbVars, indexVars, taskVars, req, job, stopping, crashes,
                   shutdowns, faults>>

\* The process is gone and starts again; the worker's task is redelivered.
Exit ==
    /\ worker' = None
    /\ job' = [r \in Requests |-> NoJob]
    /\ req' = [r \in Requests |-> IF r \in Active THEN [NoReq EXCEPT !.pc = "dead"]
                                                  ELSE req[r]]
    /\ stopping' = FALSE
    /\ UNCHANGED <<dbVars, indexVars, files, queue, page, shutdowns, faults>>

Crash ==
    /\ crashes < MaxCrashes
    /\ crashes' = crashes + 1
    /\ Exit

\* SIGTERM: the context is cancelled and no request is accepted any more; the
\* process exits without waiting for the worker, which may still run.
Shutdown ==
    /\ ~stopping
    /\ shutdowns < MaxShutdowns
    /\ shutdowns' = shutdowns + 1
    /\ stopping' = TRUE
    /\ UNCHANGED <<dbVars, indexVars, taskVars, req, job, page, crashes, faults>>

Stop == stopping /\ Exit /\ UNCHANGED crashes

Begin(r) ==
    \/ \E s \in Files, c \in Contents : UploadFile(r, s, c)
    \/ \E s \in Pages : UploadURL(r, s)
    \/ \E d \in Requests : Delete(r, d) \/ Reindex(r, d) \/ Sync(r, d)

Serve(r) ==
    \/ Dedupe(r) \/ Find(r) \/ Create(r) \/ CountUp(r) \/ Prepare(r) \/ Publish(r)
    \/ MarkUnpublished(r) \/ SoftDelete(r) \/ Wipe(r) \/ CountDown(r)
    \/ ClearVectors(r) \/ ClearChunks(r) \/ ResetStatus(r) \/ Republish(r) \/ Fetch(r)

Work(j) ==
    \/ Load(j) \/ SyncStart(j) \/ ReadOld(j) \/ DropVectors(j) \/ DropChunks(j)
    \/ Store(j) \/ DualWrite(j) \/ WriteHash(j) \/ MarkEnrichment(j) \/ Cleanup(j)
    \/ ReadPrevious(j) \/ Complete(j) \/ AddChunks(j) \/ MarkFailed(j) \/ End(j)

Next ==
    \/ \E r \in Requests : Begin(r) \/ Serve(r) \/ Work(r)
    \/ Take \/ Crash \/ Shutdown \/ Stop
    \/ \E s \in Pages : ChangePage(s)

Spec == Init /\ [][Next]_vars

\* Handlers, goroutines and the consumer keep running.
Fairness ==
    /\ \A r \in Requests : WF_vars(Serve(r)) /\ WF_vars(Work(r))
    /\ WF_vars(Take) /\ WF_vars(Stop)

FairSpec == Spec /\ Fairness

(*************************************************************************)
(* Properties.  Which of them hold depends on what is allowed to overlap *)
(* and to fail: see the configurations and the README.                   *)
(*************************************************************************)

TaskType == [id : Requests, doc : Requests, source : Sources, replace : BOOLEAN]

Statuses == {"absent", "pending", "processing", "completed", "failed"}

Chunk(x) == x.doc \in Requests /\ x.text \in Texts /\ x.nr \in Nat \ {0}

\* The types of the state.
TypeOK ==
    /\ docs \in [Requests -> [status : Statuses, live : BOOLEAN,
                     source : Sources \cup {None}, count : Nat,
                     hash : Contents \cup {None}]]
    /\ ToSet(recent) = {d \in Requests : docs[d].live}
    /\ \A x \in chunks \cup vectors : Chunk(x)
    /\ kb \in [docs : Int, chunks : Int]
    /\ files \in [Requests -> Contents \cup {None}]
    /\ queue \in Seq(TaskType)
    /\ worker \in Requests \cup {None}
    /\ page \in [Pages -> Contents]
    /\ stopping \in BOOLEAN
    /\ faults \in 0..MaxFaults /\ crashes \in 0..MaxCrashes
    /\ shutdowns \in 0..MaxShutdowns

\* A request, a task or a running job that will still change document d
Owned(d) ==
    \/ \E r \in Active : req[r].doc = d
    \/ \E i \in DOMAIN queue : queue[i].doc = d
    \/ \E j \in Running : job[j].doc = d

Indexed(d) == TextsOf(Of(d, vectors))

Done(d) == docs[d].live /\ docs[d].status = "completed" /\ ~Owned(d)

\* The temporary file a queued task names is there when the worker comes to it,
\* whatever failed or crashed before: only the task's own run removes it.
TaskHasFile ==
    \A i \in 2..Len(queue) : queue[i].source \in Files => files[queue[i].id] # None

\* While no call fails, no temporary file outlives both its request and its task.
FilesAreOwned ==
    \A r \in Requests :
        files[r] # None => r \in Active \/ \E i \in DOMAIN queue : queue[i].id = r

\* Whichever call failed, an upload that was refused or found to be a duplicate
\* leaves no temporary file: each early return removes it.
RefusedKeepsNoFile ==
    \A r \in Requests : req[r].pc \in {"error", "duplicate"} => files[r] = None

\* A document shown as pending or processing has a request, a task or a job that
\* will settle it, however requests, the worker and syncs overlap.
UnsettledHasOwner ==
    \A d \in Requests :
        docs[d].live /\ docs[d].status \in {"pending", "processing"} => Owned(d)

\* Double write: outside a job the vector store and table chunks hold the same
\* chunks of a live file, whichever uploads and deletions overlap.
StoresAgree ==
    \A d \in Requests :
        /\ docs[d].live /\ docs[d].source \in Files
        /\ \A j \in Running : job[j].doc # d
        => Of(d, vectors) = Of(d, chunks)

\* The stored content_hash, which deduplication and sync trust, is that of what
\* is indexed, and each chunk is indexed once: no upload is mixed with another,
\* repeated, or half there.
IndexedExactly ==
    \A d \in Requests : Done(d) =>
        /\ Indexed(d) = Plain[docs[d].hash]
        /\ Cardinality(Of(d, vectors)) = Cardinality(Indexed(d))
        /\ docs[d].count = Cardinality(Indexed(d))

\* With a DocReader, what is indexed of a file is what the DocReader made of it.
IndexedAsParsed ==
    \A d \in Requests :
        Done(d) /\ DocReader /\ docs[d].source \in Files =>
            Indexed(d) = Parse[docs[d].hash]

\* After a crash and a redelivery a completed file may be indexed twice, but none
\* of its texts is missing, and each chunk that is listed can be found.
NothingMissing ==
    \A d \in Requests : Done(d) /\ docs[d].source \in Files =>
        /\ Plain[docs[d].hash] \subseteq Indexed(d)
        /\ Of(d, chunks) \subseteq Of(d, vectors)

\* An upload answered with "duplicate" is not lost: the document it was matched
\* with has that content indexed, or a queued task will bring it.
DuplicateIsCovered ==
    [][\A r \in Requests :
          req[r].pc = "dedupe" /\ req'[r].pc = "duplicate" =>
              LET d == req'[r].doc
                  c == req[r].content IN
              \/ Plain[c] \subseteq Indexed(d)
              \/ \E i \in DOMAIN queue : queue[i].doc = d /\ files[queue[i].id] = c]_vars

\* document_count is the number of live documents whenever no request is between
\* its two updates.
DocCountRight ==
    Active = {} => kb.docs = Cardinality({d \in Requests : docs[d].live})

\* chunk_count of the knowledge base is the sum over its documents once
\* everything has settled.
ChunkCountRight ==
    Quiet => kb.chunks = MapThenSumSet(LAMBDA d : docs[d].count, Requests)

\* A deleted document leaves no vectors to be retrieved, as long as no request
\* overlapped with its import and none was cut off by a crash.
DeletedIsGone ==
    Quiet /\ crashes = 0 =>
        \A d \in Requests : ~docs[d].live => Of(d, vectors) = {}

\* A page or file that was uploaded, reindexed or synced one request after the
\* other is indexed as one version of it, each chunk once, in both stores; a crash
\* may double or, inside a reindex, lose chunks.
PageIndexed ==
    crashes = 0 => \A d \in Requests : Done(d) =>
        /\ \E c \in Contents : Indexed(d) = Plain[c]
        /\ Cardinality(Of(d, vectors)) = Cardinality(Indexed(d))
        /\ docs[d].count = Cardinality(Indexed(d))
        /\ Of(d, chunks) = Of(d, vectors)

\* Each published import is settled: its document is completed or failed after
\* its task was started, unless it is deleted.  A crash does not matter, because
\* the task is redelivered.
Waiting(r) == worker # r /\ \E i \in DOMAIN queue : queue[i].id = r

ImportIsSettled ==
    \A r \in Requests :
        Waiting(r) ~> \E d \in Requests :
            req[r].doc = d /\ (docs[d].live => docs[d].status \in {"completed", "failed"})
=============================================================================
