---------------------------- MODULE ImportStatus ----------------------------
(**************************************************************************************)
(* The status of a document's import is kept twice: in the document's row, and        *)
(* in Redis, where the request, the worker, the sync and the enrichment each read the *)
(* whole state, change their part and write it back (internal/handler/api.go,         *)
(* writeImportTaskState and its callers); a reindex and the beginning of a sync write *)
(* the row alone.  What is shown is the Redis state, where it has one, over the row.  *)
(* Enrichment is enabled, and imports are queued.                                     *)
(**************************************************************************************)
EXTENDS Integers

CONSTANTS Enrichments,    \* goroutines of processContextualEnrichment
          MaxUploads,     \* bound: uploads, reindexings and syncs of the document
          MaxStatusFaults \* bound: failed writes and reads, expired states

Importers == {"worker", "sync"}
Writers == {"request"} \cup Importers \cup Enrichments

VARIABLES docRow,   \* knowledges: parse_status, enrichment_status
          redis,    \* the key in Redis: {} or {the state}
          writer,   \* [Writers -> the job it is at, where in it, and the state it has read]
          waiting,  \* imports enqueued and not yet taken by the worker
          uploads,  \* requests so far
          torn,     \* history: two writers were at work, or a write failed
          resetRow, \* history: the row was reset by a reindex, and no job has told both since
          statusFaults

statusVars == <<docRow, redis, writer, waiting, uploads, torn, resetRow, statusFaults>>

-----------------------------------------------------------------------------
(* A job gives one field one value, in the row and then in Redis; "stored" and "enriching" *)
(* leave the row out; "marking", "reset" and "syncing" leave Redis out.                    *)
OnEnrichment == {"chunked", "enriching", "marking", "enriched", "unenriched"}
Field(job) == IF job \in OnEnrichment THEN "enrich" ELSE "parse"

Value(job) ==
  CASE job = "chunked" -> "pending"
    [] job \in {"syncing", "stored", "enriching", "marking"} -> "processing"
    [] job = "reset" -> "pending"
    [] job = "enriched" -> "completed"
    [] job = "unenriched" -> "failed"
    [] OTHER -> job   \* "pending", "processing", "completed" and "failed"

InRow(job) == job \notin {"stored", "enriching"}

(* A failure that is told to the row alone. *)
InRedisUnlessFailed(job) == job \notin {"marking", "reset", "syncing", "failed"}

InRedis(job) == job \notin {"marking", "reset", "syncing"}

(* The import: pending, then the queue; a reindex the same, in the row alone.  The worker,  *)
(* and a sync or an import that is not queued: processing; the chunks are stored            *)
(* (processAndStoreChunks) and wait for their enrichment, or are synchronised with the ones *)
(* there are; then completed, with the enrichment, or failed.  The enrichment: processing,  *)
(* first in Redis; then completed or failed.                                                *)
After(job) ==
  CASE job = "pending"    -> {"enqueue"}
    [] job = "reset"      -> {"requeue"}
    [] job \in {"processing", "syncing"} -> {"stored", "completed", "failed"}
    [] job = "stored"     -> {"chunked", "failed"}
    [] job = "chunked"    -> {"completed", "failed"}
    [] job = "completed"  -> {"schedule"}
    [] job = "enriching"  -> {"marking"}
    [] job = "marking"    -> {"enriched", "unenriched"}
    [] OTHER              -> {"none"}

Blank == [parse |-> "", enrich |-> ""]

At(job) == IF job \in {"none", "enqueue", "requeue", "schedule"} THEN "call"
           ELSE IF InRow(job) THEN "row" ELSE "read"
Job(job) == [job |-> job, at |-> At(job), copy |-> Blank]

Turn(a, w) == writer' = [writer EXCEPT ![a] = w]
NextJob(a) == \E job \in After(writer[a].job) : Turn(a, Job(job))

Busy(a) == writer[a].job # "none"
Quiet == waiting = 0 /\ \A a \in Writers : ~Busy(a)

\* "skipped" is the column's default.
StatusInit == /\ docRow = [parse |-> "", enrich |-> "skipped"]
              /\ redis = {} /\ waiting = 0 /\ uploads = 0
              /\ writer = [a \in Writers |-> Job("none")]
              /\ torn = FALSE /\ resetRow = FALSE /\ statusFaults = 0

StatusFault == statusFaults < MaxStatusFaults /\ statusFaults' = statusFaults + 1

-----------------------------------------------------------------------------
BeginJob(a, job) ==
  /\ ~Busy(a) /\ uploads < MaxUploads
  /\ uploads' = uploads + 1
  /\ torn' = (torn \/ ~Quiet)
  /\ Turn(a, Job(job))
  /\ UNCHANGED <<docRow, redis, waiting, resetRow, statusFaults>>

(* enqueueFileImport, enqueueURLImport. *)
UploadAgain == BeginJob("request", "pending")

(* ReindexDocument, of a document that is not being processed. *)
ReindexDocument == BeginJob("request", "reset") /\ docRow.parse \notin {"", "processing"}

(* The goroutine of SyncDocument, and the imports that do without the queue: a replacement *)
(* (incrementalSync), a wiki's document, a page that MCP imports.                          *)
StartSync == BeginJob("sync", "syncing")

(* ProcessImportTask. *)
TakeImport ==
  /\ waiting > 0 /\ ~Busy("worker")
  /\ waiting' = waiting - 1
  /\ Turn("worker", Job("processing"))
  /\ UNCHANGED <<docRow, redis, uploads, torn, resetRow, statusFaults>>

(* Nothing is done of a request whose document cannot be prepared, and of a task whose row  *)
(* cannot be marked; a sync that cannot mark it fails.  Every other failure to write is only *)
(* logged.                                                                                   *)
GivenUp(job) ==
  CASE job \in {"pending", "reset", "processing"} -> {"none"}
    [] job = "syncing" -> {"none", "failed"}
    [] OTHER -> {}

WriteRow(a) ==
  LET job == writer[a].job
      GoOn == IF InRedis(job) THEN Turn(a, [writer[a] EXCEPT !.at = "read"]) ELSE NextJob(a)
      told == Field(job) = "parse" /\ InRedis(job)
  IN /\ writer[a].at = "row"
     /\ \/ /\ docRow' = [docRow EXCEPT ![Field(job)] = Value(job)]
           /\ resetRow' = (job = "reset" \/ (resetRow /\ ~told))
           /\ GoOn /\ UNCHANGED <<torn, statusFaults>>
        \/ /\ \E next \in GivenUp(job) : Turn(a, Job(next))
           /\ StatusFault /\ UNCHANGED <<docRow, resetRow, torn>>
        \/ /\ GivenUp(job) = {}
           /\ GoOn /\ torn' = TRUE /\ StatusFault /\ UNCHANGED <<docRow, resetRow>>
     /\ UNCHANGED <<redis, waiting, uploads>>

(* getImportTaskState: a key that is not there, or that cannot be read, is a new state. *)
ReadState(a) ==
  LET Read(state) == Turn(a, [writer[a] EXCEPT !.at = "write", !.copy = state]) IN
  /\ writer[a].at = "read"
  /\ \/ \E state \in (IF redis = {} THEN {Blank} ELSE redis) : Read(state) /\ UNCHANGED statusFaults
     \/ Read(Blank) /\ StatusFault
  /\ UNCHANGED <<docRow, redis, waiting, uploads, torn, resetRow>>

(* An import that is completed has its enrichment pending, if nothing else is known of it. *)
Mutated(job, copy) ==
  LET state == [copy EXCEPT ![Field(job)] = Value(job)]
  IN IF job = "completed" /\ state.enrich = "" THEN [state EXCEPT !.enrich = "pending"] ELSE state

WriteState(a) ==
  /\ writer[a].at = "write"
  /\ NextJob(a)
  /\ \/ redis' = {Mutated(writer[a].job, writer[a].copy)} /\ UNCHANGED <<torn, statusFaults>>
     \/ StatusFault /\ torn' = TRUE /\ UNCHANGED redis
  /\ UNCHANGED <<docRow, waiting, uploads, resetRow>>

(* A failed Enqueue marks the document failed, but for a reindex, which leaves it pending. *)
Enqueue ==
  /\ writer["request"].job \in {"enqueue", "requeue"}
  /\ \/ waiting' = waiting + 1 /\ Turn("request", Job("none")) /\ UNCHANGED statusFaults
     \/ /\ Turn("request", Job(IF writer["request"].job = "enqueue" THEN "failed" ELSE "none"))
        /\ StatusFault /\ UNCHANGED waiting
  /\ UNCHANGED <<docRow, redis, uploads, torn, resetRow>>

(* scheduleContextualEnrichment starts a goroutine of its own. *)
ScheduleEnrichment(a) ==
  /\ writer[a].job = "schedule"
  /\ \E e \in Enrichments :
       /\ ~Busy(e)
       /\ writer' = [writer EXCEPT ![a] = Job("none"), ![e] = Job("enriching")]
  /\ UNCHANGED <<docRow, redis, waiting, uploads, torn, resetRow, statusFaults>>

(* The key's time to live is over. *)
ExpireState ==
  /\ redis # {} /\ redis' = {} /\ StatusFault
  /\ UNCHANGED <<docRow, writer, waiting, uploads, torn, resetRow>>

StatusOver == Quiet /\ uploads = MaxUploads /\ UNCHANGED statusVars

StatusNext == \/ UploadAgain \/ ReindexDocument \/ StartSync \/ TakeImport \/ Enqueue
              \/ ExpireState \/ StatusOver
              \/ \E a \in Importers : ScheduleEnrichment(a)
              \/ \E a \in Writers : WriteRow(a) \/ ReadState(a) \/ WriteState(a)

StatusSpec == StatusInit /\ [][StatusNext]_statusVars

-----------------------------------------------------------------------------
(* GetDocumentImportStatus, ListDocuments: a field the state leaves empty is the row's. *)
Shown(field) ==
  IF \E s \in redis : s[field] # "" THEN (CHOOSE s \in redis : TRUE)[field] ELSE docRow[field]

(* When nobody is at work on the document, the status that is shown is the one that is     *)
(* stored, for the import and for its enrichment, even if a read failed or the key expired *)
(* between a read and a write; unless two imports overlapped or a write was lost.  Nor is  *)
(* it said of the import's status after a reindex whose task was not enqueued, or whose    *)
(* row the worker could not mark: the row is then pending, by the reindex, and the key     *)
(* still has what the import before it ended with (api.go:3338, 3345, 2477).               *)
(* (api.go, writeImportTaskState: the whole state is written back.)                        *)
StatusShown ==
  Quiet /\ ~torn => /\ Shown("parse") = docRow.parse \/ resetRow
                    /\ Shown("enrich") = docRow.enrich
=============================================================================
