------------------------ MODULE KnowledgeImportProofs ------------------------
(***************************************************************************)
(* Whatever fails, crashes or overlaps, the temporary files of uploads are *)
(* where the code needs them: a task waiting in the queue finds its file,  *)
(* and a refused upload has left none.  Two invariants carry this.         *)
(* RequestInv ties a file to the step its request is at.  PipelineInv ties *)
(* the queue to the requests that published its tasks, and says which runs *)
(* of the pipeline there can be; so the run that removes a file is never   *)
(* that of a task still waiting.  A third, RowInv, ties requests, tasks,   *)
(* runs and chunks to the rows of their documents.                         *)
(*                                                                         *)
(* From it follows, in the second half, what holds of documents, files and *)
(* stores as long as nothing has failed, crashed or been told to stop, for *)
(* any number of requests.                                                 *)
(***************************************************************************)
EXTENDS KnowledgeImport, TLAPS, FiniteSetTheorems

UploadPCs  == {"dedupe", "find", "create", "count", "prepare", "publish"}
ReindexPCs == {"clearVectors", "clearChunks", "resetStatus", "republish"}

RequestInv ==
    /\ files \in [Requests -> Contents \cup {None}]
    /\ DOMAIN req = Requests
    /\ \A r \in Requests :
        /\ "pc" \in DOMAIN req[r] /\ "source" \in DOMAIN req[r]
        /\ files[r] # None => req[r].pc \in UploadPCs \cup {"accepted", "dead"}
        /\ req[r].pc \in UploadPCs /\ req[r].source \in Files => files[r] # None
        /\ req[r].pc \in ReindexPCs => req[r].source \notin Files

(*************************************************************************)
(* RequestInv is an invariant                                            *)
(*************************************************************************)

\* Before the first request there is no temporary file.
LEMMA InitRequestInv == Init => RequestInv
<1> SUFFICES ASSUME Init PROVE RequestInv
    OBVIOUS
<1>1. files = [r \in Requests |-> None] /\ req = [r \in Requests |-> NoReq]
    BY DEF Init
<1>2. QED
    BY <1>1 DEF RequestInv, NoReq, UploadPCs, ReindexPCs

\* A request that begins creates at most its own file, and then with a content.
LEMMA BeginKeepsRequestInv ==
    ASSUME NEW r \in Requests, RequestInv, Begin(r) PROVE RequestInv'
<1> USE DEF RequestInv, UploadPCs, ReindexPCs, NoReq, taskVars
<1>1. ASSUME NEW s \in Files, NEW c \in Contents, UploadFile(r, s, c) PROVE RequestInv'
    BY <1>1, NoneAssumption DEF UploadFile
<1>2. ASSUME NEW s \in Pages, UploadURL(r, s) PROVE RequestInv'
    BY <1>2, SourcesAssumption DEF UploadURL
<1>3. ASSUME NEW d \in Requests, Delete(r, d) PROVE RequestInv'
    BY <1>3 DEF Delete
<1>4. ASSUME NEW d \in Requests, Reindex(r, d) PROVE RequestInv'
    BY <1>4, SourcesAssumption DEF Reindex
<1>5. ASSUME NEW d \in Requests, Sync(r, d) PROVE RequestInv'
    BY <1>5 DEF Sync
<1>6. QED
    BY <1>1, <1>2, <1>3, <1>4, <1>5 DEF Begin

\* A request that is answered with q: its file is removed or its task accepted.
LEMMA AnswerKeepsRequestInv ==
    ASSUME NEW r \in Requests, RequestInv, NEW q,
           "pc" \in DOMAIN q, "source" \in DOMAIN q, q.pc \in Answers,
           req' = [req EXCEPT ![r] = q],
           \/ RemoveFile(r)
           \/ files' = files /\ q.pc = "accepted"
    PROVE  RequestInv'
BY DEF RequestInv, UploadPCs, ReindexPCs, Answers, RemoveFile

\* Each step of a handler that leaves the upload path without an accepted task
\* removes the file on the way out.
LEMMA ServeKeepsRequestInv ==
    ASSUME NEW r \in Requests, RequestInv, Serve(r) PROVE RequestInv'
<1> USE DEF RequestInv, UploadPCs, ReindexPCs, Goto, RemoveFile, Answer, Abandon, NoReq,
            taskVars
<1>1. CASE Dedupe(r)
    <2>1. CASE Abandon(r)
        BY <2>1
    <2>2. CASE Goto(r, "find") /\ UNCHANGED files
        BY <1>1, <2>2 DEF Dedupe
    <2>3. ASSUME NEW d,
                 req' = [req EXCEPT ![r] = [NoReq EXCEPT !.pc = "duplicate", !.doc = d,
                                                    !.content = req[r].content]],
                 RemoveFile(r)
          PROVE  RequestInv'
        <3> DEFINE q == [NoReq EXCEPT !.pc = "duplicate", !.doc = d,
                                      !.content = req[r].content]
        <3>1. "pc" \in DOMAIN q /\ "source" \in DOMAIN q /\ q.pc \in Answers
            BY DEF Answers
        <3> HIDE DEF q
        <3>2. QED
            BY <2>3, <3>1, AnswerKeepsRequestInv DEF q
    <2>4. QED
        BY <1>1, <2>1, <2>2, <2>3 DEF Dedupe
<1>2. CASE Find(r)
    BY <1>2 DEF Find
<1>3. CASE Create(r)
    BY <1>3 DEF Create
<1>4. CASE CountUp(r)
    BY <1>4 DEF CountUp
<1>5. CASE Prepare(r)
    BY <1>5 DEF Prepare
<1>6. CASE Publish(r)
    <2> DEFINE q == [NoReq EXCEPT !.pc = "accepted", !.doc = req[r].doc]
    <2>1. "pc" \in DOMAIN q /\ "source" \in DOMAIN q /\ q.pc = "accepted"
        OBVIOUS
    <2>2. CASE req' = [req EXCEPT ![r] = q] /\ files' = files
        BY <2>1, <2>2, AnswerKeepsRequestInv DEF Answers
    <2>3. CASE RemoveFile(r) /\ Goto(r, "markFailed")
        BY <1>6, <2>3 DEF Publish
    <2>4. QED
        BY <1>6, <2>2, <2>3 DEF Publish
<1>7. CASE MarkUnpublished(r)
    BY <1>7 DEF MarkUnpublished
<1>8. CASE SoftDelete(r)
    BY <1>8 DEF SoftDelete
<1>9. CASE Wipe(r)
    BY <1>9 DEF Wipe
<1>10. CASE CountDown(r)
    BY <1>10 DEF CountDown
<1>11. CASE ClearVectors(r)
    BY <1>11 DEF ClearVectors
<1>12. CASE ClearChunks(r)
    BY <1>12 DEF ClearChunks
<1>13. CASE ResetStatus(r)
    BY <1>13 DEF ResetStatus
<1>14. CASE Republish(r)
    <2> DEFINE q == [NoReq EXCEPT !.pc = "accepted", !.doc = req[r].doc]
    <2>1. "pc" \in DOMAIN q /\ "source" \in DOMAIN q /\ q.pc = "accepted"
        OBVIOUS
    <2>2. CASE req' = [req EXCEPT ![r] = q] /\ files' = files
        BY <2>1, <2>2, AnswerKeepsRequestInv DEF Answers
    <2>3. CASE Answer(r, "error") /\ files' = files
        BY <1>14, <2>3 DEF Republish
    <2>4. QED
        BY <1>14, <2>2, <2>3 DEF Republish
<1>15. CASE Fetch(r)
    BY <1>15 DEF Fetch
<1>16. QED
    BY <1>1, <1>2, <1>3, <1>4, <1>5, <1>6, <1>7, <1>8, <1>9, <1>10, <1>11, <1>12,
       <1>13, <1>14, <1>15 DEF Serve

\* A run of the pipeline touches no request, and of the files only its own.
LEMMA WorkClearsAtMostItsFile ==
    ASSUME NEW j \in Requests, Work(j)
    PROVE  req' = req /\ (files' = files \/ Cleanup(j))
<1> USE DEF taskVars
<1>1. CASE Cleanup(j)
    BY <1>1 DEF Cleanup
<1>2. CASE End(j)
    BY <1>2 DEF End
<1>3. CASE \/ Load(j) \/ SyncStart(j) \/ ReadOld(j) \/ DropVectors(j) \/ DropChunks(j)
           \/ Store(j) \/ DualWrite(j) \/ WriteHash(j) \/ MarkEnrichment(j)
    BY <1>3 DEF Load, SyncStart, ReadOld, DropVectors, DropChunks, Store, DualWrite,
                WriteHash, MarkEnrichment
<1>4. CASE ReadPrevious(j) \/ Complete(j) \/ AddChunks(j) \/ MarkFailed(j)
    BY <1>4 DEF ReadPrevious, Complete, AddChunks, MarkFailed
<1>5. QED
    BY <1>1, <1>2, <1>3, <1>4 DEF Work

(*************************************************************************)
(* PipelineInv: a queued task belongs to an accepted request of its own, *)
(* the worker is at the head of the queue, and any other run of the      *)
(* pipeline is the goroutine of a SyncDocument that has been answered.   *)
(*************************************************************************)

PipelineInv ==
    /\ \E S : queue \in Seq(S)
    /\ \A i \in DOMAIN queue :
        /\ queue[i].id \in Requests
        /\ req[queue[i].id].pc = "accepted"
        /\ \A k \in DOMAIN queue : queue[i].id = queue[k].id => i = k
    /\ worker # None => queue # <<>> /\ worker = queue[1].id
    /\ DOMAIN job = Requests
    /\ \A j \in Requests :
        /\ "pc" \in DOMAIN job[j]
        /\ job[j].pc # "off" => worker = j \/ req[j].pc = "done"
    /\ TaskHasFile

\* Initially the queue is empty and nothing runs.
LEMMA InitPipelineInv == Init => PipelineInv
<1> SUFFICES ASSUME Init PROVE PipelineInv
    OBVIOUS
<1>1. queue = <<>> /\ worker = None /\ job = [r \in Requests |-> NoJob]
    BY DEF Init
<1>2. queue \in Seq({}) /\ DOMAIN queue = {} /\ 2..Len(queue) = {}
    BY <1>1
<1>3. TaskHasFile
    BY <1>2 DEF TaskHasFile
<1>4. NoJob.pc = "off" /\ "pc" \in DOMAIN NoJob
    BY DEF NoJob
<1>5. \A j \in Requests : "pc" \in DOMAIN job[j] /\ job[j].pc = "off"
    BY <1>1, <1>4
<1>6. \E S : queue \in Seq(S)
    BY <1>2
<1>7. QED
    BY <1>1, <1>2, <1>3, <1>5, <1>6 DEF PipelineInv

\* Publishing keeps the queue a sequence, whatever the task.
LEMMA AppendIsSeq ==
    ASSUME NEW S, NEW q \in Seq(S), NEW e PROVE Append(q, e) \in Seq(S \cup {e})
<1>1. q \in Seq(S \cup {e})
    OBVIOUS
<1>2. QED
    BY <1>1

\* What a request r that publishes nothing does to the pipeline.
Moves(r) ==
    /\ req[r].pc \notin Over
    /\ UNCHANGED <<queue, worker>>
    /\ \A x \in Requests \ {r} :
        req'[x] = req[x] /\ files'[x] = files[x] /\ job'[x] = job[x]
    /\ DOMAIN job' = Requests
    /\ "pc" \in DOMAIN job'[r]
    /\ job'[r].pc = job[r].pc \/ job'[r].pc = "off" \/ req'[r].pc = "done"

\* A worker that is at a task is at the head of the queue, for an accepted request.
LEMMA WorkerIsAccepted ==
    ASSUME PipelineInv, worker \in Requests
    PROVE  1 \in DOMAIN queue /\ worker = queue[1].id /\ req[worker].pc = "accepted"
<1>1. PICK S : queue \in Seq(S)
    BY DEF PipelineInv
<1>2. queue # <<>> /\ worker = queue[1].id
    BY NoneAssumption DEF PipelineInv
<1>3. 1 \in DOMAIN queue
    BY <1>1, <1>2
<1>4. QED
    BY <1>2, <1>3 DEF PipelineInv

\* A request that is not accepted yet has no task whose file it could remove.
LEMMA MoveKeepsPipelineInv ==
    ASSUME NEW r \in Requests, PipelineInv, Moves(r) PROVE PipelineInv'
<1>1. \A i \in DOMAIN queue : queue[i].id \in Requests \ {r}
    BY DEF PipelineInv, Moves, Over, Answers
<1>2. TaskHasFile'
    BY <1>1 DEF PipelineInv, TaskHasFile, Moves
<1>3. worker # r
    BY <1>1, WorkerIsAccepted
<1>4. job[r].pc = "off"
    BY <1>3 DEF PipelineInv, Moves, Over, Answers
<1>5. QED
    BY <1>1, <1>2, <1>4 DEF PipelineInv, Moves

\* The same for a request that publishes its task.
Publishes(r) ==
    /\ req[r].pc \in {"publish", "republish"}
    /\ queue' = Append(queue, Task(r))
    /\ req'[r].pc = "accepted"
    /\ \A x \in Requests \ {r} : req'[x] = req[x]
    /\ UNCHANGED <<worker, files, job>>

\* A published task is new in the queue, and its file is there.
LEMMA PublishKeepsPipelineInv ==
    ASSUME NEW r \in Requests, RequestInv, PipelineInv, Publishes(r) PROVE PipelineInv'
<1>1. PICK S : queue \in Seq(S)
    BY DEF PipelineInv
<1>2. /\ queue' \in Seq(S \cup {Task(r)})
      /\ Len(queue') = Len(queue) + 1
      /\ queue'[Len(queue) + 1] = Task(r)
      /\ \A i \in DOMAIN queue : i \in 1..Len(queue) /\ queue'[i] = queue[i]
      /\ DOMAIN queue' = 1..(Len(queue) + 1)
    BY <1>1, AppendIsSeq DEF Publishes
<1>3. \A i \in DOMAIN queue : queue[i].id \in Requests \ {r}
    BY DEF PipelineInv, Publishes
<1>4. Task(r).id = r /\ Task(r).source = req[r].source
    BY DEF Task
<1>5. \A i \in DOMAIN queue' : i \in DOMAIN queue \/ i = Len(queue) + 1
    BY <1>1, <1>2
<1>6. req[r].source \in Files => files[r] # None
    BY DEF RequestInv, Publishes, UploadPCs, ReindexPCs
<1>7. \A i \in DOMAIN queue' :
        /\ queue'[i].id \in Requests
        /\ req'[queue'[i].id].pc = "accepted"
        /\ \A k \in DOMAIN queue' : queue'[i].id = queue'[k].id => i = k
    BY <1>2, <1>3, <1>4, <1>5 DEF PipelineInv, Publishes
<1>8. TaskHasFile'
    BY <1>1, <1>2, <1>3, <1>4, <1>5, <1>6 DEF PipelineInv, TaskHasFile, Publishes
<1>9. worker' # None => queue' # <<>> /\ worker' = queue'[1].id
    BY <1>1, <1>2 DEF PipelineInv, Publishes
<1>10. \A j \in Requests : job'[j].pc # "off" => worker' = j \/ req'[j].pc = "done"
    BY DEF PipelineInv, Publishes
<1>11. QED
    BY <1>2, <1>7, <1>8, <1>9, <1>10 DEF PipelineInv, Publishes

\* No request publishes with its first step.
LEMMA BeginMoves ==
    ASSUME NEW r \in Requests, RequestInv, PipelineInv, Begin(r) PROVE Moves(r)
<1> USE DEF RequestInv, PipelineInv, Moves, taskVars, Over, Answers
<1>1. ASSUME NEW s \in Files, NEW c \in Contents, UploadFile(r, s, c) PROVE Moves(r)
    BY <1>1 DEF UploadFile
<1>2. ASSUME NEW s \in Pages, UploadURL(r, s) PROVE Moves(r)
    BY <1>2 DEF UploadURL
<1>3. ASSUME NEW d \in Requests, Delete(r, d) PROVE Moves(r)
    BY <1>3 DEF Delete
<1>4. ASSUME NEW d \in Requests, Reindex(r, d) PROVE Moves(r)
    BY <1>4 DEF Reindex
<1>5. ASSUME NEW d \in Requests, Sync(r, d) PROVE Moves(r)
    BY <1>5 DEF Sync
<1>6. QED
    BY <1>1, <1>2, <1>3, <1>4, <1>5 DEF Begin

\* Only Publish and Republish touch the queue.
LEMMA ServeMovesOrPublishes ==
    ASSUME NEW r \in Requests, RequestInv, PipelineInv, Serve(r)
    PROVE  Moves(r) \/ Publishes(r)
<1> USE DEF RequestInv, PipelineInv, Moves, taskVars, Over, Answers, Goto, Answer,
            RemoveFile, Abandon
<1>1. CASE Dedupe(r)
    BY <1>1 DEF Dedupe
<1>2. CASE Find(r)
    BY <1>2 DEF Find
<1>3. CASE Create(r)
    BY <1>3 DEF Create
<1>4. CASE CountUp(r)
    BY <1>4 DEF CountUp
<1>5. CASE Prepare(r)
    BY <1>5 DEF Prepare
<1>6. CASE Publish(r)
    <2> DEFINE q == [NoReq EXCEPT !.pc = "accepted", !.doc = req[r].doc]
    <2>1. q.pc = "accepted"
        BY DEF NoReq
    <2>2. ASSUME queue' = Append(queue, Task(r)), req' = [req EXCEPT ![r] = q],
                 files' = files
          PROVE  Publishes(r)
        <3>1. req'[r].pc = "accepted" /\ \A x \in Requests \ {r} : req'[x] = req[x]
            BY <2>1, <2>2
        <3>2. req[r].pc = "publish" /\ UNCHANGED <<worker, job>>
            BY <1>6 DEF Publish
        <3>3. QED
            BY <2>2, <3>1, <3>2 DEF Publishes
    <2>3. CASE RemoveFile(r) /\ Goto(r, "markFailed") /\ UNCHANGED queue
        BY <1>6, <2>3 DEF Publish
    <2>4. QED
        BY <1>6, <2>2, <2>3 DEF Publish
<1>7. CASE MarkUnpublished(r)
    BY <1>7 DEF MarkUnpublished
<1>8. CASE SoftDelete(r) \/ Wipe(r) \/ CountDown(r)
    BY <1>8 DEF SoftDelete, Wipe, CountDown
<1>9. CASE ClearVectors(r) \/ ClearChunks(r) \/ ResetStatus(r)
    BY <1>9 DEF ClearVectors, ClearChunks, ResetStatus
<1>10. CASE Republish(r)
    <2> DEFINE q == [NoReq EXCEPT !.pc = "accepted", !.doc = req[r].doc]
    <2>1. q.pc = "accepted"
        BY DEF NoReq
    <2>2. ASSUME queue' = Append(queue, Task(r)), req' = [req EXCEPT ![r] = q],
                 files' = files
          PROVE  Publishes(r)
        <3>1. req'[r].pc = "accepted" /\ \A x \in Requests \ {r} : req'[x] = req[x]
            BY <2>1, <2>2
        <3>2. req[r].pc = "republish" /\ UNCHANGED <<worker, job>>
            BY <1>10 DEF Republish
        <3>3. QED
            BY <2>2, <3>1, <3>2 DEF Publishes
    <2>3. CASE UNCHANGED queue /\ Answer(r, "error")
        BY <1>10, <2>3 DEF Republish
    <2>4. QED
        BY <1>10, <2>2, <2>3 DEF Republish
<1>11. CASE Fetch(r)
    <2>1. NoJob.pc = "off" /\ "pc" \in DOMAIN NoJob
        BY DEF NoJob
    <2>2. CASE job' = [job EXCEPT ![r] = NoJob]
        BY <1>11, <2>1, <2>2 DEF Fetch
    <2>3. ASSUME NEW q, "pc" \in DOMAIN q, Answer(r, "done"), job' = [job EXCEPT ![r] = q]
          PROVE  Moves(r)
        <3>1. req'[r].pc = "done"
            BY <2>3 DEF NoReq
        <3>2. QED
            BY <1>11, <2>3, <3>1 DEF Fetch
    <2> DEFINE d == req[r].doc
               q == [NoJob EXCEPT !.pc = "syncStart", !.doc = d, !.source = docs[d].source,
                         !.replace = TRUE, !.content = page[docs[d].source],
                         !.prev = job[r].prev]
    <2>4. "pc" \in DOMAIN q
        BY <2>1
    <2>5. CASE Answer(r, "done") /\ job' = [job EXCEPT ![r] = q]
        <3> HIDE DEF q
        <3>1. QED
            BY <2>3, <2>4, <2>5
    <2>6. QED
        BY <1>11, <2>2, <2>5 DEF Fetch
<1>12. QED
    BY <1>1, <1>2, <1>3, <1>4, <1>5, <1>6, <1>7, <1>8, <1>9, <1>10, <1>11 DEF Serve

\* What the code that runs a job leaves alone unless it is at its end.
LEMMA WorkGoesOn ==
    ASSUME NEW j \in Requests, PipelineInv, Work(j)
    PROVE  /\ job[j].pc # "off"
           /\ \A x \in Requests \ {j} : job'[x] = job[x]
           /\ DOMAIN job' = Requests /\ "pc" \in DOMAIN job'[j]
           /\ End(j) \/ UNCHANGED <<queue, worker>>
<1> USE DEF PipelineInv, taskVars, Step, Fail
<1>1. CASE Load(j)
    BY <1>1 DEF Load
<1>2. CASE SyncStart(j)
    BY <1>2 DEF SyncStart
<1>3. CASE ReadOld(j)
    BY <1>3 DEF ReadOld
<1>4. CASE DropVectors(j) \/ DropChunks(j)
    BY <1>4 DEF DropVectors, DropChunks
<1>5. CASE Store(j)
    BY <1>5 DEF Store
<1>6. CASE DualWrite(j) \/ WriteHash(j) \/ Cleanup(j)
    BY <1>6 DEF DualWrite, WriteHash, Cleanup
<1>7. CASE ReadPrevious(j) \/ Complete(j)
    BY <1>7 DEF ReadPrevious, Complete
<1>8. CASE AddChunks(j) \/ MarkFailed(j) \/ MarkEnrichment(j)
    BY <1>8 DEF AddChunks, MarkFailed, MarkEnrichment
<1>9. CASE End(j)
    BY <1>9 DEF End, NoJob
<1>10. QED
    BY <1>1, <1>2, <1>3, <1>4, <1>5, <1>6, <1>7, <1>8, <1>9 DEF Work

\* The head of the queue is settled while no other run is at a queued task.
LEMMA TailKeepsPipelineInv ==
    ASSUME PipelineInv, queue # <<>>, queue' = Tail(queue), worker' = None,
           UNCHANGED <<files, req>>, DOMAIN job' = Requests,
           \A x \in Requests :
              /\ "pc" \in DOMAIN job'[x]
              /\ job'[x].pc # "off" => req[x].pc = "done"
    PROVE  PipelineInv'
<1>1. PICK S : queue \in Seq(S)
    BY DEF PipelineInv
<1>2. /\ queue' \in Seq(S)
      /\ DOMAIN queue' = 1..(Len(queue) - 1)
      /\ Len(queue') = Len(queue) - 1 /\ Len(queue) \in Nat
      /\ \A i \in DOMAIN queue' : queue'[i] = queue[i + 1] /\ i + 1 \in DOMAIN queue
    BY <1>1
<1>3. \A i \in DOMAIN queue' :
        /\ queue'[i].id \in Requests
        /\ req[queue'[i].id].pc = "accepted"
        /\ \A k \in DOMAIN queue' : queue'[i].id = queue'[k].id => i = k
    BY <1>2 DEF PipelineInv
<1>4. TaskHasFile'
    BY <1>2 DEF PipelineInv, TaskHasFile
<1>5. QED
    BY <1>2, <1>3, <1>4 DEF PipelineInv

\* The run of the head's task may remove the head's file; a run started by
\* SyncDocument has a number that no task has.  Neither is a waiting task's.
LEMMA WorkKeepsPipelineInv ==
    ASSUME NEW j \in Requests, RequestInv, PipelineInv, Work(j) PROVE PipelineInv'
<1>1. /\ job[j].pc # "off"
      /\ \A x \in Requests \ {j} : job'[x] = job[x]
      /\ DOMAIN job' = Requests /\ "pc" \in DOMAIN job'[j]
      /\ End(j) \/ UNCHANGED <<queue, worker>>
    BY WorkGoesOn
<1>2. req' = req /\ (files' = files \/ Cleanup(j))
    BY WorkClearsAtMostItsFile
<1>3. worker = j \/ req[j].pc = "done"
    BY <1>1 DEF PipelineInv
<1>4. \A i \in 2..Len(queue) : queue[i].id # j
    <2>1. PICK S : queue \in Seq(S)
        BY DEF PipelineInv
    <2>2. \A i \in 2..Len(queue) : i \in DOMAIN queue /\ i # 1
        BY <2>1
    <2>3. CASE worker = j
        BY <2>2, <2>3, WorkerIsAccepted DEF PipelineInv
    <2>4. CASE req[j].pc = "done"
        BY <2>2, <2>4 DEF PipelineInv
    <2>5. QED
        BY <1>3, <2>3, <2>4
<1>5. CASE UNCHANGED <<queue, worker>>
    <2>1. TaskHasFile'
        BY <1>2, <1>4, <1>5 DEF TaskHasFile, RequestInv, PipelineInv, Cleanup, RemoveFile
    <2>2. \A x \in Requests :
            "pc" \in DOMAIN job'[x] /\ (job'[x].pc # "off" => worker = x \/ req[x].pc = "done")
        BY <1>1, <1>3 DEF PipelineInv
    <2>3. QED
        BY <1>1, <1>2, <1>5, <2>1, <2>2 DEF PipelineInv
<1>6. CASE End(j) /\ worker = j
    <2>1. /\ queue # <<>> /\ queue' = Tail(queue) /\ worker' = None
          /\ UNCHANGED <<files, req>>
          /\ job' = [job EXCEPT ![j] = NoJob]
        BY <1>6, NoneAssumption DEF End, PipelineInv
    <2>2. \A x \in Requests : job'[x].pc # "off" => req[x].pc = "done"
        BY <1>1, <1>6, <2>1 DEF PipelineInv, NoJob
    <2>3. QED
        BY <1>1, <2>1, <2>2, TailKeepsPipelineInv DEF PipelineInv
<1>7. CASE End(j) /\ worker # j
    BY <1>5, <1>7 DEF End
<1>8. QED
    BY <1>1, <1>5, <1>6, <1>7

\* A crash or a stop loses the handlers and runs, but no task and no file.
LEMMA WorldKeepsInv ==
    ASSUME RequestInv, PipelineInv,
           Take \/ Crash \/ Shutdown \/ Stop \/ \E s \in Pages : ChangePage(s)
    PROVE  RequestInv' /\ PipelineInv'
<1>1. CASE Take
    <2>1. queue # <<>> /\ worker = None /\ UNCHANGED <<files, req>>
        BY <1>1 DEF Take
    <2>2. RequestInv'
        BY <2>1 DEF RequestInv
    <2>3. CASE queue' = Tail(queue) /\ UNCHANGED <<worker, job>>
        <3>1. \A x \in Requests :
                "pc" \in DOMAIN job'[x] /\ (job'[x].pc # "off" => req[x].pc = "done")
            BY <2>1, <2>3, NoneAssumption DEF PipelineInv
        <3>2. DOMAIN job' = Requests /\ worker' = None
            BY <2>1, <2>3 DEF PipelineInv
        <3>3. queue' = Tail(queue)
            BY <2>3
        <3>4. QED
            BY <2>1, <2>2, <3>1, <3>2, <3>3, TailKeepsPipelineInv
    <2>4. ASSUME NEW q, q.pc # "off", "pc" \in DOMAIN q,
                 worker' = Head(queue).id, job' = [job EXCEPT ![Head(queue).id] = q],
                 UNCHANGED queue
          PROVE  PipelineInv'
        <3>1. Head(queue) = queue[1]
            BY <2>1 DEF PipelineInv
        <3>2. TaskHasFile'
            BY <2>1, <2>4 DEF PipelineInv, TaskHasFile
        <3>3. QED
            BY <2>1, <2>4, <3>1, <3>2, NoneAssumption DEF PipelineInv
    <2> DEFINE t == Head(queue)
               q == [NoJob EXCEPT !.pc = "load", !.doc = t.doc, !.source = t.source,
                                  !.replace = t.replace]
    <2>5. q.pc # "off" /\ "pc" \in DOMAIN q
        BY DEF NoJob
    <2>6. CASE worker' = t.id /\ job' = [job EXCEPT ![t.id] = q] /\ UNCHANGED queue
        <3> HIDE DEF q
        <3>1. QED
            BY <2>2, <2>4, <2>5, <2>6
    <2>7. QED
        BY <1>1, <2>2, <2>3, <2>6 DEF Take
<1>2. CASE Shutdown \/ \E s \in Pages : ChangePage(s)
    BY <1>2 DEF Shutdown, ChangePage, taskVars, RequestInv, PipelineInv, TaskHasFile
<1>3. CASE Exit
    <2>1. /\ worker' = None /\ UNCHANGED <<files, queue>>
          /\ job' = [r \in Requests |-> NoJob]
          /\ req' = [r \in Requests |-> IF r \in Active THEN [NoReq EXCEPT !.pc = "dead"]
                                                        ELSE req[r]]
        BY <1>3 DEF Exit
    <2>2. RequestInv'
        BY <2>1 DEF RequestInv, Active, Over, Answers, NoReq, UploadPCs, ReindexPCs
    <2>3. \A i \in DOMAIN queue : req'[queue[i].id].pc = "accepted"
        BY <2>1 DEF PipelineInv, Active, Over, Answers
    <2>4. TaskHasFile'
        BY <2>1 DEF PipelineInv, TaskHasFile
    <2>5. QED
        BY <2>1, <2>2, <2>3, <2>4 DEF PipelineInv, NoJob
<1>4. QED
    BY <1>1, <1>2, <1>3 DEF Crash, Stop

\* The inductive invariant.
Inv == RequestInv /\ PipelineInv

\* Inv is inductive.
LEMMA NextKeepsInv == Inv /\ [Next]_vars => Inv'
<1> SUFFICES ASSUME RequestInv, PipelineInv, [Next]_vars PROVE RequestInv' /\ PipelineInv'
    BY DEF Inv
<1>1. ASSUME NEW r \in Requests, Begin(r) PROVE RequestInv' /\ PipelineInv'
    BY <1>1, BeginKeepsRequestInv, BeginMoves, MoveKeepsPipelineInv
<1>2. ASSUME NEW r \in Requests, Serve(r) PROVE RequestInv' /\ PipelineInv'
    BY <1>2, ServeKeepsRequestInv, ServeMovesOrPublishes, MoveKeepsPipelineInv,
       PublishKeepsPipelineInv
<1>3. ASSUME NEW j \in Requests, Work(j) PROVE RequestInv' /\ PipelineInv'
    <2>1. RequestInv'
        <3>1. req[j].pc \in {"accepted", "done"}
            BY <1>3, WorkGoesOn, WorkerIsAccepted DEF PipelineInv
        <3>2. req' = req /\ (files' = files \/ RemoveFile(j))
            BY <1>3, WorkClearsAtMostItsFile DEF Cleanup
        <3>3. QED
            BY <3>1, <3>2 DEF RequestInv, RemoveFile, UploadPCs
    <2>2. QED
        BY <1>3, <2>1, WorkKeepsPipelineInv
<1>4. CASE UNCHANGED vars
    BY <1>4 DEF vars, taskVars, RequestInv, PipelineInv, TaskHasFile
<1>5. QED
    BY <1>1, <1>2, <1>3, <1>4, WorldKeepsInv DEF Next

\* Files, requests, the queue and the runs of the pipeline stay tied together as
\* RequestInv and PipelineInv say, for any number of requests, failures, crashes
\* and overlaps.
THEOREM Invariance == Spec => []Inv
<1>1. Init => Inv
    BY InitRequestInv, InitPipelineInv DEF Inv
<1>2. QED
    BY <1>1, NextKeepsInv, PTL DEF Spec

\* A task that waits in the queue has the temporary file it names: of the runs of
\* processImportTask only the task's own removes it.
THEOREM QueuedTaskHasFile == Spec => []TaskHasFile
<1>1. Inv => TaskHasFile
    BY DEF Inv, PipelineInv
<1>2. QED
    BY <1>1, Invariance, PTL

\* A request that was refused or found to be a duplicate has left no temporary
\* file: enqueueFileImport removes it on each early return.
THEOREM RefusalRemovesFile == Spec => []RefusedKeepsNoFile
<1>1. Inv => RefusedKeepsNoFile
    BY DEF Inv, RequestInv, RefusedKeepsNoFile, UploadPCs
<1>2. QED
    BY <1>1, Invariance, PTL

(*************************************************************************)
(* RowInv: rows, requests, tasks and runs are records, and a request, a  *)
(* task, a run or a chunk that names a document names one whose row was  *)
(* written.  It holds whatever fails.                                    *)
(*************************************************************************)

\* The row of document d was written, whether or not it has been deleted since.
Made(d) == docs[d].status # "absent"

\* The steps of a request that already has its document, and of one that has none.
NamedPCs   == {"count", "prepare", "publish", "markFailed", "softDelete", "wipe",
               "countDown", "fetch"} \cup ReindexPCs
UnnamedPCs == {"new", "dedupe", "find", "create"}

ShapeInv ==
    /\ DOMAIN docs = Requests /\ \A d \in Requests : DOMAIN docs[d] = DOMAIN NoDoc
    /\ DOMAIN req = Requests /\ \A r \in Requests : DOMAIN req[r] = DOMAIN NoReq
    /\ DOMAIN job = Requests /\ \A j \in Requests : DOMAIN job[j] = DOMAIN NoJob

RequestRow(r) ==
    /\ req[r].pc \in UnnamedPCs => ~Made(r)
    /\ req[r].pc \in {"create", "count"} => req[r].doc = r
    /\ req[r].pc \in NamedPCs => req[r].doc \in Requests /\ Made(req[r].doc)
    /\ req[r].pc \in {"wipe", "countDown"} => ~docs[req[r].doc].live
    /\ req[r].pc \in ReindexPCs \cup {"fetch"} => docs[req[r].doc].source \in Pages

RunRow(j) ==
    job[j].pc # "off" =>
        /\ job[j].doc \in Requests /\ Made(job[j].doc)
        /\ \A x \in job[j].drop \cup job[j].new : x.doc = job[j].doc
        /\ worker # j => docs[job[j].doc].source \in Pages

TaskRows  == \A i \in DOMAIN queue : queue[i].doc \in Requests /\ Made(queue[i].doc)
ChunkRows == \A x \in chunks \cup vectors : x.doc \in Requests /\ Made(x.doc)

RowInv ==
    /\ ShapeInv
    /\ \A d \in Requests : docs[d].live => Made(d)
    /\ \A r \in Requests : RequestRow(r) /\ RunRow(r)
    /\ TaskRows
    /\ ChunkRows

\* The fields of the records.
LEMMA Fields ==
    /\ DOMAIN NoDoc = {"status", "live", "source", "count", "hash"}
    /\ NoDoc.status = "absent" /\ NoDoc.live = FALSE
    /\ DOMAIN NoReq = {"pc", "source", "content", "doc", "hash", "replace"}
    /\ NoReq.pc = "new"
    /\ DOMAIN NoJob = {"pc", "doc", "source", "content", "replace", "full", "drop",
                       "add", "new", "count", "prev", "failed"}
    /\ NoJob.pc = "off" /\ NoJob.drop = {} /\ NoJob.new = {} /\ NoJob.full = FALSE
BY DEF NoDoc, NoReq, NoJob

\* Nothing was uploaded yet.
LEMMA InitRowInv == Init => RowInv
<1> SUFFICES ASSUME Init PROVE RowInv
    OBVIOUS
<1>1. /\ docs = [d \in Requests |-> NoDoc] /\ chunks = {} /\ vectors = {} /\ queue = <<>>
      /\ req = [r \in Requests |-> NoReq] /\ job = [r \in Requests |-> NoJob]
    BY DEF Init
<1>2. ShapeInv
    BY <1>1 DEF ShapeInv
<1>3. \A r \in Requests : RequestRow(r) /\ RunRow(r) /\ ~docs[r].live
    BY <1>1, Fields DEF RequestRow, RunRow, Made, NamedPCs, ReindexPCs
<1>4. TaskRows /\ ChunkRows
    BY <1>1 DEF TaskRows, ChunkRows
<1>5. QED
    BY <1>2, <1>3, <1>4 DEF RowInv

\* Of a row that was written, a statement changes neither the source nor brings it
\* back, and writes no other row.
RowsKept ==
    /\ DOMAIN docs' = Requests
    /\ \A d \in Requests :
        /\ DOMAIN docs'[d] = DOMAIN NoDoc
        /\ docs'[d].source = docs[d].source
        /\ docs'[d].live => docs[d].live
        /\ Made(d)' <=> Made(d)

LEMMA SameRowsKept == ASSUME ShapeInv, docs' = docs PROVE RowsKept
BY DEF ShapeInv, RowsKept, Made

\* The statements on table knowledges keep the rows.
LEMMA StatementKeepsRows ==
    ASSUME ShapeInv, NEW d \in Requests, Made(d),
           \/ \E s, n : s # "absent" /\ UpdateParseStatus(d, s, n)
           \/ \E h : UpdateContentHash(d, h) \/ PrepareForReplacement(d, h)
           \/ UpdateEnrichmentStatus(d)
           \/ docs' = [docs EXCEPT ![d].live = FALSE]
    PROVE  RowsKept
<1> USE Fields DEF ShapeInv, RowsKept, Made
<1>1. ASSUME NEW s, NEW n, s # "absent", UpdateParseStatus(d, s, n) PROVE RowsKept
    BY <1>1 DEF UpdateParseStatus
<1>2. ASSUME NEW h, UpdateContentHash(d, h) PROVE RowsKept
    BY <1>2 DEF UpdateContentHash
<1>3. ASSUME NEW h, PrepareForReplacement(d, h) PROVE RowsKept
    BY <1>3 DEF PrepareForReplacement
<1>4. CASE UpdateEnrichmentStatus(d)
    BY <1>4 DEF UpdateEnrichmentStatus
<1>5. CASE docs' = [docs EXCEPT ![d].live = FALSE]
    BY <1>5
<1>6. QED
    BY <1>1, <1>2, <1>3, <1>4, <1>5

\* What rests on rows that are kept.
LEMMA KeptRequestRow ==
    ASSUME RowsKept, RowInv, NEW r \in Requests, req'[r] = req[r] PROVE RequestRow(r)'
BY DEF RowsKept, RowInv, RequestRow, Made, NamedPCs, UnnamedPCs, ReindexPCs

LEMMA KeptRunRow ==
    ASSUME RowsKept, RowInv, NEW j \in Requests, job'[j] = job[j],
           worker' = j \/ worker # j \/ job[j].pc = "off"
    PROVE  RunRow(j)'
BY DEF RowsKept, RowInv, RunRow, Made

\* A request r that takes a step, over rows that are kept.
LEMMA RequestKeepsRowInv ==
    ASSUME RowInv, RowsKept, NEW r \in Requests,
           DOMAIN req' = Requests, DOMAIN req'[r] = DOMAIN NoReq, RequestRow(r)',
           \A x \in Requests \ {r} : req'[x] = req[x] /\ job'[x] = job[x],
           DOMAIN job' = Requests, DOMAIN job'[r] = DOMAIN NoJob, RunRow(r)',
           worker' = worker,
           \A i \in DOMAIN queue' : queue'[i].doc \in Requests /\ Made(queue'[i].doc),
           chunks' \subseteq chunks, vectors' \subseteq vectors
    PROVE  RowInv'
<1>1. ShapeInv'
    BY DEF RowInv, ShapeInv, RowsKept
<1>2. ASSUME NEW x \in Requests PROVE RequestRow(x)' /\ RunRow(x)'
    BY KeptRequestRow, KeptRunRow
<1>3. TaskRows' /\ ChunkRows' /\ \A d \in Requests : docs'[d].live => Made(d)'
    BY DEF RowInv, RowsKept, TaskRows, ChunkRows
<1>4. QED
    BY <1>1, <1>2, <1>3 DEF RowInv

\* A run j that takes a step, over rows that are kept.
LEMMA RunKeepsRowInv ==
    ASSUME RowInv, RowsKept, NEW j \in Requests, req' = req,
           \A x \in Requests \ {j} : job'[x] = job[x],
           DOMAIN job' = Requests, DOMAIN job'[j] = DOMAIN NoJob, RunRow(j)',
           worker' = worker \/ worker = j,
           \A i \in DOMAIN queue' : queue'[i].doc \in Requests /\ Made(queue'[i].doc),
           job[j].pc # "off",
           \A x \in chunks' \cup vectors' : x \in chunks \cup vectors \/ x.doc = job[j].doc
    PROVE  RowInv'
<1>1. ShapeInv'
    BY DEF RowInv, ShapeInv, RowsKept
<1>2. ASSUME NEW x \in Requests PROVE RequestRow(x)' /\ RunRow(x)'
    BY KeptRequestRow, KeptRunRow
<1>3. job[j].doc \in Requests /\ Made(job[j].doc)
    BY DEF RowInv, RunRow
<1>4. TaskRows' /\ ChunkRows' /\ \A d \in Requests : docs'[d].live => Made(d)'
    BY <1>3 DEF RowInv, RowsKept, TaskRows, ChunkRows
<1>5. QED
    BY <1>1, <1>2, <1>4 DEF RowInv

\* The first step of a request names a row that is live, or none.
LEMMA BeginKeepsRowInv ==
    ASSUME Inv, RowInv, NEW r \in Requests, Begin(r) PROVE RowInv'
<1> USE Fields DEF taskVars, dbVars, indexVars, NamedPCs, UnnamedPCs, ReindexPCs
<1>1. /\ RowsKept /\ UNCHANGED <<docs, queue, worker, chunks, vectors>>
      /\ req[r].pc = "new" /\ job[r].pc = "off"
    <2>1. UNCHANGED <<docs, queue, worker, chunks, vectors>> /\ req[r].pc = "new"
        BY DEF Begin, UploadFile, UploadURL, Delete, Reindex, Sync
    <2>2. worker # r
        BY <2>1, WorkerIsAccepted DEF Inv
    <2>3. QED
        BY <2>1, <2>2, SameRowsKept DEF RowInv, Inv, PipelineInv
<1>2. ASSUME NEW q, DOMAIN q = DOMAIN NoReq, req' = [req EXCEPT ![r] = q],
             UNCHANGED docs, RequestRow(r)',
             job' = job \/ \E n : job' = [job EXCEPT ![r].prev = n]
      PROVE  RowInv'
    <2>1. DOMAIN job' = Requests /\ DOMAIN job'[r] = DOMAIN NoJob /\ job'[r].pc = "off"
        BY <1>1, <1>2 DEF RowInv, ShapeInv
    <2>2. RunRow(r)'
        BY <2>1 DEF RunRow
    <2>3. \A i \in DOMAIN queue' : queue'[i].doc \in Requests /\ Made(queue'[i].doc)
        BY <1>1 DEF RowInv, TaskRows
    <2>4. DOMAIN req' = Requests /\ DOMAIN req'[r] = DOMAIN NoReq
        BY <1>2 DEF RowInv, ShapeInv
    <2>5. \A x \in Requests \ {r} : req'[x] = req[x] /\ job'[x] = job[x]
        BY <1>2 DEF RowInv, ShapeInv
    <2>6. QED
        BY <1>1, <1>2, <2>1, <2>2, <2>3, <2>4, <2>5, RequestKeepsRowInv
<1> DEFINE File(s, c) == [NoReq EXCEPT !.pc = "dedupe", !.source = s, !.content = c]
           URL(s)     == [NoReq EXCEPT !.pc = "find", !.source = s]
           Del(d)     == [NoReq EXCEPT !.pc = "softDelete", !.doc = d]
           Re(d)      == [NoReq EXCEPT !.pc = "clearVectors", !.doc = d,
                                       !.source = docs[d].source]
           Syn(d)     == [NoReq EXCEPT !.pc = "fetch", !.doc = d, !.hash = docs[d].hash]
<1>3. ASSUME NEW s \in Files, NEW c \in Contents, UploadFile(r, s, c) PROVE RowInv'
    <2>1. req' = [req EXCEPT ![r] = File(s, c)] /\ job' = job /\ UNCHANGED docs
        BY <1>1, <1>3 DEF UploadFile
    <2>2. DOMAIN File(s, c) = DOMAIN NoReq /\ File(s, c).pc = "dedupe"
        OBVIOUS
    <2> HIDE DEF File
    <2>3. RequestRow(r)'
        BY <1>1, <2>1, <2>2 DEF RowInv, ShapeInv, RequestRow, Made
    <2>4. QED
        BY <1>2, <2>1, <2>2, <2>3
<1>4. ASSUME NEW s \in Pages, UploadURL(r, s) PROVE RowInv'
    <2>1. req' = [req EXCEPT ![r] = URL(s)] /\ job' = job /\ UNCHANGED docs
        BY <1>1, <1>4 DEF UploadURL
    <2>2. DOMAIN URL(s) = DOMAIN NoReq /\ URL(s).pc = "find"
        OBVIOUS
    <2> HIDE DEF URL
    <2>3. RequestRow(r)'
        BY <1>1, <2>1, <2>2 DEF RowInv, ShapeInv, RequestRow, Made
    <2>4. QED
        BY <1>2, <2>1, <2>2, <2>3
<1>5. ASSUME NEW d \in Requests, Delete(r, d) PROVE RowInv'
    <2>1. req' = [req EXCEPT ![r] = Del(d)] /\ job' = job /\ UNCHANGED docs /\ docs[d].live
        BY <1>1, <1>5 DEF Delete
    <2>2. DOMAIN Del(d) = DOMAIN NoReq /\ Del(d).pc = "softDelete" /\ Del(d).doc = d
        OBVIOUS
    <2> HIDE DEF Del
    <2>3. RequestRow(r)'
        BY <1>1, <2>1, <2>2 DEF RowInv, ShapeInv, RequestRow, Made
    <2>4. QED
        BY <1>2, <2>1, <2>2, <2>3
<1>6. ASSUME NEW d \in Requests, Reindex(r, d) PROVE RowInv'
    <2>1. /\ req' = [req EXCEPT ![r] = Re(d)] /\ job' = job /\ UNCHANGED docs
          /\ docs[d].live /\ docs[d].source \in Pages
        BY <1>1, <1>6 DEF Reindex
    <2>2. DOMAIN Re(d) = DOMAIN NoReq /\ Re(d).pc = "clearVectors" /\ Re(d).doc = d
        OBVIOUS
    <2> HIDE DEF Re
    <2>3. RequestRow(r)'
        BY <1>1, <2>1, <2>2 DEF RowInv, ShapeInv, RequestRow, Made
    <2>4. QED
        BY <1>2, <2>1, <2>2, <2>3
<1>7. ASSUME NEW d \in Requests, Sync(r, d) PROVE RowInv'
    <2>1. /\ req' = [req EXCEPT ![r] = Syn(d)] /\ UNCHANGED docs
          /\ job' = [job EXCEPT ![r].prev = docs[d].count]
          /\ docs[d].live /\ docs[d].source \in Pages
        BY <1>1, <1>7 DEF Sync
    <2>2. DOMAIN Syn(d) = DOMAIN NoReq /\ Syn(d).pc = "fetch" /\ Syn(d).doc = d
        OBVIOUS
    <2> HIDE DEF Syn
    <2>3. RequestRow(r)'
        BY <1>1, <2>1, <2>2 DEF RowInv, ShapeInv, RequestRow, Made
    <2>4. QED
        BY <1>2, <2>1, <2>2, <2>3
<1>8. QED
    BY <1>3, <1>4, <1>5, <1>6, <1>7 DEF Begin

\* What findDuplicateFileByHash and findExistingKnowledge return is a live row.
LEMMA FoundIsLive ==
    ASSUME NEW x, NEW d, d = FindBySource(x) \/ d = FindByContentHash(x), d # None
    PROVE  d \in Requests /\ docs[d].live
<1>1. CASE d = FindBySource(x)
    BY <1>1 DEF FindBySource, Latest
<1>2. CASE d = FindByContentHash(x)
    BY <1>2 DEF FindByContentHash, Latest
<1>3. QED
    BY <1>1, <1>2

\* A request r that touches no run and no task, and only removes chunks.
OnlyRequest(r) ==
    /\ DOMAIN req' = Requests /\ DOMAIN req'[r] = DOMAIN NoReq
    /\ \A x \in Requests \ {r} : req'[x] = req[x]
    /\ UNCHANGED <<job, worker, queue>>
    /\ chunks' \subseteq chunks /\ vectors' \subseteq vectors

LEMMA OnlyRequestKeepsRowInv ==
    ASSUME Inv, RowInv, NEW r \in Requests, req[r].pc \notin Over, OnlyRequest(r), RowsKept,
           RequestRow(r)'
    PROVE  RowInv'
<1>1. worker # r /\ job[r].pc = "off"
    BY WorkerIsAccepted DEF Inv, PipelineInv, Over, Answers
<1>2. RunRow(r)'
    BY <1>1 DEF OnlyRequest, RunRow
<1>3. \A i \in DOMAIN queue' : queue'[i].doc \in Requests /\ Made(queue'[i].doc)
    BY DEF OnlyRequest, RowInv, TaskRows
<1>4. QED
    BY <1>2, <1>3, RequestKeepsRowInv DEF OnlyRequest, RowInv, ShapeInv

\* A request that is answered names no document any more.
LEMMA AnswerIsRequestRow ==
    ASSUME NEW r \in Requests, NEW q, req[r].pc \notin Over, ShapeInv,
           req' = [req EXCEPT ![r] = q], q.pc \in Over
    PROVE  RequestRow(r)'
<1>1. req'[r].pc \in Over
    BY DEF ShapeInv
<1>2. QED
    BY <1>1 DEF RequestRow, Over, Answers, NamedPCs, UnnamedPCs, ReindexPCs

\* The three shapes of an answer.
LEMMA AnswerKeepsShape ==
    ASSUME NEW r \in Requests, ShapeInv, req[r].pc \notin Over,
           \/ \E a \in Answers : Answer(r, a)
           \/ \E d : req' = [req EXCEPT ![r] = [NoReq EXCEPT !.pc = "accepted", !.doc = d]]
           \/ \E d, c : req' = [req EXCEPT ![r] =
                           [NoReq EXCEPT !.pc = "duplicate", !.doc = d, !.content = c]]
    PROVE  /\ RequestRow(r)'
           /\ DOMAIN req' = Requests /\ DOMAIN req'[r] = DOMAIN NoReq
           /\ \A x \in Requests \ {r} : req'[x] = req[x]
<1>1. ASSUME NEW q, DOMAIN q = DOMAIN NoReq, q.pc \in Over, req' = [req EXCEPT ![r] = q]
      PROVE  /\ RequestRow(r)'
             /\ DOMAIN req' = Requests /\ DOMAIN req'[r] = DOMAIN NoReq
             /\ \A x \in Requests \ {r} : req'[x] = req[x]
    <2>1. RequestRow(r)'
        BY <1>1, AnswerIsRequestRow
    <2>2. QED
        BY <1>1, <2>1 DEF ShapeInv
<1> DEFINE A(a)    == [NoReq EXCEPT !.pc = a]
           B(d)    == [NoReq EXCEPT !.pc = "accepted", !.doc = d]
           C(d, c) == [NoReq EXCEPT !.pc = "duplicate", !.doc = d, !.content = c]
<1>2. /\ \A a \in Answers : DOMAIN A(a) = DOMAIN NoReq /\ A(a).pc \in Over
      /\ \A d : DOMAIN B(d) = DOMAIN NoReq /\ B(d).pc \in Over
      /\ \A d, c : DOMAIN C(d, c) = DOMAIN NoReq /\ C(d, c).pc \in Over
    BY Fields DEF Over, Answers
<1>3. \/ \E a \in Answers : req' = [req EXCEPT ![r] = A(a)]
      \/ \E d : req' = [req EXCEPT ![r] = B(d)]
      \/ \E d, c : req' = [req EXCEPT ![r] = C(d, c)]
    BY DEF Answer
<1> HIDE DEF A, B, C
<1>4. CASE \E a \in Answers : req' = [req EXCEPT ![r] = A(a)]
    BY <1>1, <1>2, <1>4
<1>5. CASE \E d : req' = [req EXCEPT ![r] = B(d)]
    BY <1>1, <1>2, <1>5
<1>6. CASE \E d, c : req' = [req EXCEPT ![r] = C(d, c)]
    <2>1. PICK d, c : req' = [req EXCEPT ![r] = C(d, c)]
        BY <1>6
    <2>2. DOMAIN C(d, c) = DOMAIN NoReq /\ C(d, c).pc \in Over
        BY <1>2
    <2>3. QED
        BY <1>1, <2>1, <2>2
<1>7. QED
    BY <1>3, <1>4, <1>5, <1>6

\* What Publish and Republish do when the queue takes the task.
TaskAccepted(r) ==
    /\ req[r].pc \in {"publish", "republish"}
    /\ queue' = Append(queue, Task(r))
    /\ req' = [req EXCEPT ![r] = [NoReq EXCEPT !.pc = "accepted", !.doc = req[r].doc]]
    /\ UNCHANGED <<docs, chunks, vectors, worker, files, job>>

LEMMA AcceptedPublishes ==
    ASSUME ShapeInv, NEW r \in Requests, TaskAccepted(r) PROVE Publishes(r)
<1> DEFINE q == [NoReq EXCEPT !.pc = "accepted", !.doc = req[r].doc]
<1>1. q.pc = "accepted"
    BY Fields
<1> HIDE DEF q
<1>2. req' = [req EXCEPT ![r] = q]
    BY DEF TaskAccepted, q
<1>3. QED
    BY <1>1, <1>2 DEF TaskAccepted, Publishes, ShapeInv

\* A task is published for a document whose row was written.
LEMMA PublishKeepsRowInv ==
    ASSUME Inv, RowInv, NEW r \in Requests, TaskAccepted(r) PROVE RowInv'
<1>0. Publishes(r) /\ docs' = docs /\ UNCHANGED <<chunks, vectors>>
    BY AcceptedPublishes DEF RowInv, TaskAccepted
<1>1. RowsKept /\ req[r].pc \notin Over
    BY <1>0, SameRowsKept DEF RowInv, Publishes, Over, Answers
<1>2. /\ RequestRow(r)' /\ DOMAIN req' = Requests /\ DOMAIN req'[r] = DOMAIN NoReq
      /\ \A x \in Requests \ {r} : req'[x] = req[x]
    BY <1>1, AnswerKeepsShape DEF RowInv, TaskAccepted
<1>3. req[r].doc \in Requests /\ Made(req[r].doc)
    BY <1>0 DEF RowInv, RequestRow, Publishes, NamedPCs, ReindexPCs
<1>4. PICK S : queue \in Seq(S)
    BY DEF Inv, PipelineInv
<1>5. \A i \in DOMAIN queue' : queue'[i].doc \in Requests /\ Made(queue'[i].doc)
    <2>1. queue' = Append(queue, Task(r)) /\ Task(r).doc = req[r].doc
        BY <1>0 DEF Publishes, Task
    <2>2. \A i \in DOMAIN queue' :
            \/ i \in DOMAIN queue /\ queue'[i] = queue[i]
            \/ queue'[i] = Task(r)
        BY <1>4, <2>1
    <2>3. QED
        BY <1>3, <2>1, <2>2 DEF RowInv, TaskRows
<1>6. RunRow(r)'
    BY <1>0, <1>1, KeptRunRow, WorkerIsAccepted
       DEF Publishes, Inv, PipelineInv, RunRow, Over, Answers
<1>7. QED
    BY <1>0, <1>1, <1>2, <1>5, <1>6, RequestKeepsRowInv DEF Publishes, RowInv, ShapeInv

\* A request that goes on keeps its document.
LEMMA GotoKeepsShape ==
    ASSUME NEW r \in Requests, ShapeInv, NEW p, Goto(r, p)
    PROVE  /\ DOMAIN req' = Requests /\ DOMAIN req'[r] = DOMAIN NoReq
           /\ \A x \in Requests \ {r} : req'[x] = req[x]
           /\ req'[r].pc = p /\ req'[r].doc = req[r].doc
BY Fields DEF Goto, ShapeInv

\* A row is created for a request that no task, run, chunk or other request names.
Creates(r) ==
    /\ req[r].pc = "create"
    /\ docs' = [docs EXCEPT ![r] = [NoDoc EXCEPT !.status = "pending", !.live = TRUE,
                   !.source = req[r].source, !.hash = req[r].hash]]
    /\ Goto(r, "count")
    /\ UNCHANGED <<indexVars, queue, worker, job>>

LEMMA CreateKeepsRowInv ==
    ASSUME Inv, RowInv, NEW r \in Requests, Creates(r) PROVE RowInv'
<1> DEFINE row == [NoDoc EXCEPT !.status = "pending", !.live = TRUE,
                               !.source = req[r].source, !.hash = req[r].hash]
<1>1. row.status = "pending" /\ row.live = TRUE /\ DOMAIN row = DOMAIN NoDoc
    BY Fields
<1>2. docs' = [docs EXCEPT ![r] = row] /\ req[r].pc = "create" /\ Goto(r, "count")
      /\ UNCHANGED <<chunks, vectors, queue, worker, job>>
    BY DEF Creates, indexVars
<1> HIDE DEF row
<1>3. ShapeInv /\ RequestRow(r) /\ ~Made(r) /\ req[r].doc = r
    BY <1>2 DEF RowInv, RequestRow, UnnamedPCs
<1>4. /\ DOMAIN docs' = Requests /\ docs'[r] = row
      /\ \A d \in Requests \ {r} : docs'[d] = docs[d]
    BY <1>2, <1>3 DEF ShapeInv
<1>5. /\ DOMAIN req' = Requests /\ DOMAIN req'[r] = DOMAIN NoReq
      /\ \A x \in Requests \ {r} : req'[x] = req[x]
      /\ req'[r].pc = "count" /\ req'[r].doc = r
    BY <1>2, <1>3, GotoKeepsShape
<1>6. ShapeInv'
    BY <1>1, <1>2, <1>3, <1>4, <1>5 DEF ShapeInv
<1>7. \A d \in Requests : docs'[d].live => Made(d)'
    BY <1>1, <1>4 DEF RowInv, Made
<1>8. RequestRow(r)'
    BY <1>1, <1>4, <1>5 DEF RequestRow, Made, NamedPCs, UnnamedPCs, ReindexPCs
<1>9. ASSUME NEW x \in Requests \ {r} PROVE RequestRow(x)'
    BY <1>3, <1>4, <1>5, <1>9
       DEF RowInv, RequestRow, Made, NamedPCs, UnnamedPCs, ReindexPCs
<1>10. ASSUME NEW j \in Requests PROVE RunRow(j)'
    BY <1>2, <1>3, <1>4, <1>10 DEF RowInv, RunRow, Made
<1>11. TaskRows' /\ ChunkRows'
    BY <1>2, <1>3, <1>4 DEF RowInv, TaskRows, ChunkRows, Made
<1>12. QED
    BY <1>6, <1>7, <1>8, <1>9, <1>10, <1>11 DEF RowInv

\* The goroutine of SyncDocument works on the page document its request read.
LEMMA FetchKeepsRowInv ==
    ASSUME Inv, RowInv, NEW r \in Requests, Fetch(r) PROVE RowInv'
<1> DEFINE d == req[r].doc
           run == [NoJob EXCEPT !.pc = "syncStart", !.doc = d, !.source = docs[d].source,
                         !.replace = TRUE, !.content = page[docs[d].source],
                         !.prev = job[r].prev]
<1>1. /\ run.doc = d /\ run.drop = {} /\ run.new = {} /\ DOMAIN run = DOMAIN NoJob
    BY Fields
<1>2. /\ job' = [job EXCEPT ![r] = NoJob] \/ job' = [job EXCEPT ![r] = run]
      /\ Answer(r, "done") \/ Answer(r, "error")
      /\ req[r].pc = "fetch" /\ UNCHANGED <<docs, worker, queue, chunks, vectors>>
    BY DEF Fetch, dbVars, indexVars, taskVars
<1> HIDE DEF run
<1>3. RowsKept /\ RequestRow(r) /\ ShapeInv
    BY <1>2, SameRowsKept DEF RowInv
<1>4. d \in Requests /\ Made(d) /\ docs[d].source \in Pages
    BY <1>2, <1>3 DEF RequestRow, NamedPCs
<1>5. /\ RequestRow(r)' /\ DOMAIN req' = Requests /\ DOMAIN req'[r] = DOMAIN NoReq
      /\ \A x \in Requests \ {r} : req'[x] = req[x]
    BY <1>2, <1>3, AnswerKeepsShape DEF Over, Answers
<1>6. /\ DOMAIN job' = Requests /\ DOMAIN job'[r] = DOMAIN NoJob
      /\ \A x \in Requests \ {r} : job'[x] = job[x]
      /\ job'[r] = NoJob \/ job'[r] = run
    BY <1>1, <1>2, <1>3 DEF ShapeInv
<1>7. RunRow(r)'
    BY <1>1, <1>2, <1>4, <1>6, Fields DEF RunRow, Made
<1>8. \A i \in DOMAIN queue' : queue'[i].doc \in Requests /\ Made(queue'[i].doc)
    BY <1>2 DEF RowInv, TaskRows
<1>9. QED
    BY <1>2, <1>3, <1>5, <1>6, <1>7, <1>8, RequestKeepsRowInv

\* No step of a handler loses a document that its request, or another, names.
LEMMA ServeKeepsRowInv ==
    ASSUME Inv, RowInv, NEW r \in Requests, Serve(r) PROVE RowInv'
<1>0. ShapeInv /\ RequestRow(r)
    BY DEF RowInv
<1> USE <1>0, Fields DEF taskVars, dbVars, indexVars, Over, Answers
<1>1. ASSUME req[r].pc \notin Over, \E a \in Answers : Answer(r, a), RowsKept,
             UNCHANGED <<job, worker, queue>>,
             chunks' \subseteq chunks, vectors' \subseteq vectors
      PROVE  RowInv'
    BY <1>1, AnswerKeepsShape, OnlyRequestKeepsRowInv DEF OnlyRequest
<1>2. ASSUME NEW p, req[r].pc \notin Over, Goto(r, p), RowsKept, RequestRow(r)',
             UNCHANGED <<job, worker, queue>>,
             chunks' \subseteq chunks, vectors' \subseteq vectors
      PROVE  RowInv'
    BY <1>2, GotoKeepsShape, OnlyRequestKeepsRowInv DEF OnlyRequest
<1>3. ASSUME NEW p, Goto(r, p), RowsKept,
             \/ req[r].pc \in UnnamedPCs \ {"create"} /\ p = "find"
             \/ req[r].pc \in NamedPCs /\ p \in {"publish", "markFailed"}
             \/ req[r].pc \in ReindexPCs /\ p \in ReindexPCs
             \/ req[r].pc = "wipe" /\ p = "countDown"
             \/ req[r].pc = "softDelete" /\ p = "wipe" /\ ~docs'[req[r].doc].live
      PROVE  RequestRow(r)'
    BY <1>3, GotoKeepsShape
       DEF RequestRow, RowsKept, Made, NamedPCs, UnnamedPCs, ReindexPCs
<1>4. CASE Dedupe(r)
    <2>1. RowsKept /\ req[r].pc = "dedupe" /\ UNCHANGED <<job, worker, queue, chunks, vectors>>
        BY <1>4, SameRowsKept DEF Dedupe
    <2>2. CASE Goto(r, "find")
        BY <1>2, <1>3, <2>1, <2>2 DEF UnnamedPCs
    <2>3. CASE Abandon(r)
        BY <1>1, <2>1, <2>3 DEF Abandon
    <2>4. CASE \E d, c : req' = [req EXCEPT ![r] =
                         [NoReq EXCEPT !.pc = "duplicate", !.doc = d, !.content = c]]
        BY <2>1, <2>4, AnswerKeepsShape, OnlyRequestKeepsRowInv DEF OnlyRequest
    <2>5. QED
        BY <1>4, <2>2, <2>3, <2>4 DEF Dedupe
<1>5. CASE Find(r)
    <2> DEFINE d == FindBySource(req[r].source)
    <2>1. RowsKept /\ req[r].pc = "find" /\ UNCHANGED <<job, worker, queue, chunks, vectors>>
        BY <1>5, SameRowsKept DEF Find
    <2>2. CASE Abandon(r)
        BY <1>1, <2>1, <2>2 DEF Abandon
    <2>3. ASSUME NEW p, NEW e, NEW h,
                 req' = [req EXCEPT ![r].pc = p, ![r].doc = e, ![r].hash = h],
                 \/ p = "create" /\ e = r
                 \/ p = "prepare" /\ e \in Requests /\ Made(e)
          PROVE  RowInv'
        <3>1. /\ DOMAIN req' = Requests /\ DOMAIN req'[r] = DOMAIN NoReq
              /\ \A x \in Requests \ {r} : req'[x] = req[x]
              /\ req'[r].pc = p /\ req'[r].doc = e
            BY <2>3 DEF ShapeInv
        <3>2. RequestRow(r)'
            BY <2>1, <2>3, <3>1
               DEF RequestRow, RowsKept, Made, NamedPCs, UnnamedPCs, ReindexPCs
        <3>3. QED
            BY <2>1, <3>1, <3>2, OnlyRequestKeepsRowInv DEF OnlyRequest
    <2>4. d # None => d \in Requests /\ Made(d)
        BY FoundIsLive DEF RowInv
    <2>5. CASE d = None /\ req' = [req EXCEPT ![r].pc = "create", ![r].doc = r,
                                              ![r].hash = req[r].content]
        BY <2>3, <2>5
    <2>6. CASE d # None /\ \E h : req' = [req EXCEPT ![r].pc = "prepare", ![r].doc = d,
                                                     ![r].hash = h]
        BY <2>3, <2>4, <2>6
    <2> HIDE DEF d
    <2>7. QED
        BY <1>5, <2>2, <2>5, <2>6 DEF Find, d
<1>6. CASE CountUp(r)
    <2>1. RowsKept /\ req[r].pc = "count" /\ UNCHANGED <<job, worker, queue, chunks, vectors>>
        BY <1>6, SameRowsKept DEF CountUp, IncrementCounts
    <2>2. QED
        BY <1>1, <1>2, <1>3, <1>6, <2>1 DEF CountUp, Abandon, NamedPCs
<1>7. CASE Prepare(r)
    <2>1. RowsKept /\ req[r].pc = "prepare" /\ UNCHANGED <<job, worker, queue, chunks, vectors>>
        BY <1>7, SameRowsKept, StatementKeepsRows DEF Prepare, RequestRow, NamedPCs
    <2>2. CASE Abandon(r)
        BY <1>1, <2>1, <2>2 DEF Abandon
    <2>3. CASE req' = [req EXCEPT ![r].pc = "publish", ![r].replace = TRUE]
        <3>1. /\ DOMAIN req' = Requests /\ DOMAIN req'[r] = DOMAIN NoReq
              /\ \A x \in Requests \ {r} : req'[x] = req[x]
              /\ req'[r].pc = "publish" /\ req'[r].doc = req[r].doc
            BY <2>3 DEF ShapeInv
        <3>2. RequestRow(r)'
            BY <2>1, <3>1 DEF RequestRow, RowsKept, Made, NamedPCs, UnnamedPCs, ReindexPCs
        <3>3. QED
            BY <2>1, <3>1, <3>2, OnlyRequestKeepsRowInv DEF OnlyRequest
    <2>4. QED
        BY <1>7, <2>2, <2>3 DEF Prepare
<1>8. CASE Publish(r)
    <2>1. CASE Goto(r, "markFailed") /\ UNCHANGED queue
        <3>1. RowsKept /\ req[r].pc = "publish"
              /\ UNCHANGED <<job, worker, queue, chunks, vectors>>
            BY <1>8, <2>1, SameRowsKept DEF Publish
        <3>2. QED
            BY <1>2, <1>3, <2>1, <3>1 DEF NamedPCs
    <2>2. CASE ~(Goto(r, "markFailed") /\ UNCHANGED queue)
        <3>1. TaskAccepted(r)
            BY <1>8, <2>2 DEF Publish, TaskAccepted
        <3>2. QED
            BY <3>1, PublishKeepsRowInv
    <2>3. QED
        BY <2>1, <2>2
<1>9. CASE MarkUnpublished(r)
    <2>1. RowsKept /\ req[r].pc = "markFailed"
        BY <1>9, SameRowsKept, StatementKeepsRows DEF MarkUnpublished, RequestRow, NamedPCs
    <2>2. QED
        BY <1>1, <1>9, <2>1 DEF MarkUnpublished
<1>10. CASE SoftDelete(r)
    <2>1. req[r].pc = "softDelete" /\ UNCHANGED <<job, worker, queue, chunks, vectors>>
          /\ req[r].doc \in Requests /\ Made(req[r].doc)
        BY <1>10 DEF SoftDelete, RequestRow, NamedPCs
    <2>2. CASE docs' = [docs EXCEPT ![req[r].doc].live = FALSE] /\ Goto(r, "wipe")
        <3>1. RowsKept /\ ~docs'[req[r].doc].live
            BY <2>1, <2>2, StatementKeepsRows DEF ShapeInv
        <3>2. QED
            BY <1>2, <1>3, <2>1, <2>2, <3>1
    <2>3. CASE Answer(r, "error") /\ UNCHANGED docs
        BY <1>1, <2>1, <2>3, SameRowsKept
    <2>4. QED
        BY <1>10, <2>2, <2>3 DEF SoftDelete
<1>11. CASE Wipe(r)
    <2>1. RowsKept /\ req[r].pc = "wipe" /\ Goto(r, "countDown")
          /\ UNCHANGED <<job, worker, queue, chunks>> /\ vectors' \subseteq vectors
        BY <1>11, SameRowsKept DEF Wipe, DeleteByKnowledgeID
    <2>2. QED
        BY <1>2, <1>3, <2>1
<1>12. CASE CountDown(r)
    <2>1. RowsKept /\ req[r].pc = "countDown" /\ Answer(r, "done")
          /\ UNCHANGED <<job, worker, queue, chunks, vectors>>
        BY <1>12, SameRowsKept DEF CountDown, IncrementCounts
    <2>2. QED
        BY <1>1, <2>1
<1>13. CASE ClearVectors(r) \/ ClearChunks(r)
    <2>1. RowsKept /\ req[r].pc \in ReindexPCs /\ (\E p \in ReindexPCs : Goto(r, p))
          /\ UNCHANGED <<job, worker, queue>> /\ chunks' \subseteq chunks
          /\ vectors' \subseteq vectors
        BY <1>13, SameRowsKept DEF ClearVectors, ClearChunks, DeleteByKnowledgeID, ReindexPCs
    <2>2. QED
        BY <1>2, <1>3, <2>1 DEF ReindexPCs
<1>14. CASE ResetStatus(r)
    <2>1. RowsKept /\ req[r].pc = "resetStatus"
          /\ UNCHANGED <<job, worker, queue, chunks, vectors>>
        BY <1>14, SameRowsKept, StatementKeepsRows
           DEF ResetStatus, RequestRow, NamedPCs, ReindexPCs
    <2>2. QED
        BY <1>1, <1>2, <1>3, <1>14, <2>1 DEF ResetStatus, ReindexPCs
<1>15. CASE Republish(r)
    <2>1. CASE Answer(r, "error") /\ UNCHANGED queue
        BY <1>1, <1>15, <2>1, SameRowsKept DEF Republish
    <2>2. CASE ~(Answer(r, "error") /\ UNCHANGED queue)
        <3>1. TaskAccepted(r)
            BY <1>15, <2>2 DEF Republish, TaskAccepted
        <3>2. QED
            BY <3>1, PublishKeepsRowInv
    <2>3. QED
        BY <2>1, <2>2
<1>16. CASE Create(r)
    <2>1. CASE Abandon(r) /\ UNCHANGED docs
        <3>1. req[r].pc = "create" /\ UNCHANGED <<job, worker, queue, chunks, vectors>>
            BY <1>16 DEF Create
        <3>2. QED
            BY <1>1, <2>1, <3>1, SameRowsKept DEF Abandon
    <2>2. CASE ~(Abandon(r) /\ UNCHANGED docs)
        BY <1>16, <2>2, CreateKeepsRowInv DEF Create, Creates
    <2>3. QED
        BY <2>1, <2>2
<1>17. CASE Fetch(r)
    BY <1>17, FetchKeepsRowInv
<1>18. QED
    BY <1>4, <1>5, <1>6, <1>7, <1>8, <1>9, <1>10, <1>11, <1>12, <1>13, <1>14, <1>15,
       <1>16, <1>17
       DEF Serve

\* A run that goes on stays at its document and handles only chunks of it.
RunGoesOn(j) ==
    /\ DOMAIN job' = Requests /\ DOMAIN job'[j] = DOMAIN NoJob
    /\ \A x \in Requests \ {j} : job'[x] = job[x]
    /\ job[j].pc # "off" /\ job'[j].doc = job[j].doc /\ job'[j].replace = job[j].replace
    /\ \A x \in job'[j].drop \cup job'[j].new :
          x \in job[j].drop \cup job[j].new \/ x.doc = job[j].doc
    /\ UNCHANGED <<req, queue, worker>>

LEMMA WorkIsRun ==
    ASSUME ShapeInv, NEW j \in Requests, Work(j) PROVE RunGoesOn(j) \/ End(j)
<1> USE Fields DEF ShapeInv, RunGoesOn, taskVars, Step, Fail
<1>1. CASE Load(j)
    BY <1>1 DEF Load
<1>2. CASE SyncStart(j)
    BY <1>2 DEF SyncStart
<1>3. CASE ReadOld(j)
    <2>1. ASSUME NEW f, DOMAIN f = DOMAIN NoJob, job' = [job EXCEPT ![j] = f],
                 f.doc = job[j].doc, f.replace = job[j].replace, f.new = job[j].new,
                 f.drop \subseteq job[j].drop \cup Of(job[j].doc, chunks)
          PROVE  RunGoesOn(j)
        BY <1>3, <2>1 DEF ReadOld, Of
    <2> DEFINE G(p, drop, add, n) ==
                  [job[j] EXCEPT !.pc = p, !.drop = drop, !.add = add, !.count = n]
               F(add, n) ==
                  [job[j] EXCEPT !.pc = "dropVectors", !.full = TRUE, !.add = add, !.count = n]
               texts == Plain[job[j].content]
    <2>2. ASSUME NEW p, NEW drop, NEW add, NEW n, drop \subseteq Of(job[j].doc, chunks),
                 job' = [job EXCEPT ![j] = G(p, drop, add, n)]
          PROVE  RunGoesOn(j)
        <3>1. /\ DOMAIN G(p, drop, add, n) = DOMAIN NoJob
              /\ G(p, drop, add, n).doc = job[j].doc
              /\ G(p, drop, add, n).replace = job[j].replace
              /\ G(p, drop, add, n).new = job[j].new
              /\ G(p, drop, add, n).drop = drop
            OBVIOUS
        <3> HIDE DEF G
        <3>2. QED
            BY <2>1, <2>2, <3>1
    <2>3. ASSUME NEW add, NEW n, job' = [job EXCEPT ![j] = F(add, n)] PROVE RunGoesOn(j)
        <3>1. /\ DOMAIN F(add, n) = DOMAIN NoJob
              /\ F(add, n).doc = job[j].doc /\ F(add, n).replace = job[j].replace
              /\ F(add, n).new = job[j].new /\ F(add, n).drop = job[j].drop
            OBVIOUS
        <3> HIDE DEF F
        <3>2. QED
            BY <2>1, <2>3, <3>1
    <2>4. ASSUME NEW retained \in SUBSET Of(job[j].doc, chunks),
                 job' = [job EXCEPT ![j] =
                    LET add == texts \ TextsOf(Of(job[j].doc, chunks))
                        drop == Of(job[j].doc, chunks) \ retained IN
                    G(IF drop # {} THEN "dropVectors"
                      ELSE IF add # {} THEN "store" ELSE "hash",
                      drop, add, Cardinality(texts))]
          PROVE  RunGoesOn(j)
        <3> DEFINE add  == texts \ TextsOf(Of(job[j].doc, chunks))
                   drop == Of(job[j].doc, chunks) \ retained
                   p    == IF drop # {} THEN "dropVectors"
                           ELSE IF add # {} THEN "store" ELSE "hash"
        <3>1. drop \subseteq Of(job[j].doc, chunks)
            OBVIOUS
        <3>2. job' = [job EXCEPT ![j] = G(p, drop, add, Cardinality(texts))]
            BY <2>4
        <3> HIDE DEF G, p, drop, add
        <3>3. QED
            BY <2>2, <3>1, <3>2
    <2>5. CASE job' = [job EXCEPT ![j] = F(texts, Cardinality(texts))]
        <3> HIDE DEF F
        <3>1. QED
            BY <2>3, <2>5
    <2>6. QED
        BY <1>3, <2>4, <2>5 DEF ReadOld
<1>4. CASE DropVectors(j) \/ DropChunks(j)
    BY <1>4 DEF DropVectors, DropChunks
<1>5. CASE Store(j)
    <2>1. \A x \in NewChunks(j) : x.doc = job[j].doc
        BY DEF NewChunks
    <2>2. QED
        BY <1>5, <2>1 DEF Store
<1>6. CASE DualWrite(j)
    BY <1>6 DEF DualWrite
<1>7. CASE WriteHash(j) \/ MarkEnrichment(j) \/ Cleanup(j)
    BY <1>7 DEF WriteHash, MarkEnrichment, Cleanup
<1>8. CASE ReadPrevious(j)
    BY <1>8 DEF ReadPrevious
<1>9. CASE Complete(j) \/ AddChunks(j) \/ MarkFailed(j)
    BY <1>9 DEF Complete, AddChunks, MarkFailed
<1>10. QED
    BY <1>1, <1>2, <1>3, <1>4, <1>5, <1>6, <1>7, <1>8, <1>9 DEF Work

\* What a run writes to the stores is of its own document.
LEMMA WorkAddsOwnChunks ==
    ASSUME ShapeInv, NEW j \in Requests, RunRow(j), Work(j)
    PROVE  \A x \in chunks' \cup vectors' : x \in chunks \cup vectors \/ x.doc = job[j].doc
<1> USE DEF indexVars
<1>1. CASE Load(j) \/ SyncStart(j) \/ ReadOld(j)
    BY <1>1 DEF Load, SyncStart, ReadOld
<1>2. CASE DropVectors(j) \/ DropChunks(j)
    BY <1>2 DEF DropVectors, DropChunks
<1>3. CASE Store(j)
    <2>1. \A x \in NewChunks(j) : x.doc = job[j].doc
        BY DEF NewChunks
    <2>2. chunks' = chunks /\ vectors' \subseteq vectors \cup NewChunks(j)
        BY <1>3 DEF Store, Partly
    <2>3. QED
        BY <2>1, <2>2
<1>4. CASE DualWrite(j)
    <2>1. job[j].pc # "off" /\ vectors' = vectors /\ chunks' \subseteq chunks \cup job[j].new
        BY <1>4 DEF DualWrite, Partly
    <2>2. QED
        BY <2>1 DEF RunRow
<1>5. CASE WriteHash(j) \/ MarkEnrichment(j) \/ Cleanup(j) \/ ReadPrevious(j)
    BY <1>5 DEF WriteHash, MarkEnrichment, Cleanup, ReadPrevious
<1>6. CASE Complete(j) \/ AddChunks(j) \/ MarkFailed(j) \/ End(j)
    BY <1>6 DEF Complete, AddChunks, MarkFailed, End
<1>7. QED
    BY <1>1, <1>2, <1>3, <1>4, <1>5, <1>6 DEF Work

\* What a run writes to table knowledges is of its own document.
LEMMA WorkKeepsRows ==
    ASSUME ShapeInv, NEW j \in Requests, RunRow(j), Work(j) PROVE RowsKept
<1> USE SameRowsKept, StatementKeepsRows DEF dbVars, RunRow
<1>1. CASE Load(j) \/ ReadOld(j) \/ DropVectors(j) \/ DropChunks(j) \/ Store(j) \/ DualWrite(j)
    BY <1>1 DEF Load, ReadOld, DropVectors, DropChunks, Store, DualWrite
<1>2. CASE Cleanup(j) \/ ReadPrevious(j) \/ AddChunks(j) \/ End(j)
    BY <1>2 DEF Cleanup, ReadPrevious, AddChunks, IncrementCounts, End
<1>3. CASE SyncStart(j) \/ Complete(j) \/ MarkFailed(j)
    BY <1>3 DEF SyncStart, Complete, MarkFailed
<1>4. CASE WriteHash(j) \/ MarkEnrichment(j)
    BY <1>4 DEF WriteHash, MarkEnrichment
<1>5. QED
    BY <1>1, <1>2, <1>3, <1>4 DEF Work

\* No step of a run leaves its document.
LEMMA WorkKeepsRowInv ==
    ASSUME Inv, RowInv, NEW j \in Requests, Work(j) PROVE RowInv'
<1>1. ShapeInv /\ RunRow(j)
    BY DEF RowInv
<1>2. /\ RowsKept /\ req' = req /\ job[j].pc # "off"
      /\ \A x \in chunks' \cup vectors' : x \in chunks \cup vectors \/ x.doc = job[j].doc
    BY <1>1, WorkKeepsRows, WorkAddsOwnChunks, WorkClearsAtMostItsFile, WorkGoesOn DEF Inv
<1>3. CASE RunGoesOn(j)
    <2>1. RunRow(j)'
        BY <1>1, <1>2, <1>3 DEF RunGoesOn, RunRow, RowsKept, Made
    <2>2. \A i \in DOMAIN queue' : queue'[i].doc \in Requests /\ Made(queue'[i].doc)
        BY <1>3 DEF RunGoesOn, RowInv, TaskRows
    <2>3. QED
        BY <1>2, <1>3, <2>1, <2>2, RunKeepsRowInv DEF RunGoesOn
<1>4. CASE End(j)
    <2>1. job' = [job EXCEPT ![j] = NoJob]
        BY <1>4 DEF End
    <2>2. /\ \A x \in Requests \ {j} : job'[x] = job[x]
          /\ DOMAIN job' = Requests /\ DOMAIN job'[j] = DOMAIN NoJob /\ RunRow(j)'
        BY <1>1, <2>1, Fields DEF ShapeInv, RunRow
    <2>3. CASE worker = j
        <3>1. PICK S : queue \in Seq(S)
            BY DEF Inv, PipelineInv
        <3>2. queue' = Tail(queue) /\ queue # <<>>
            BY <1>4, <2>3, NoneAssumption DEF End, Inv, PipelineInv
        <3>3. \A i \in DOMAIN queue' : queue'[i] = queue[i + 1] /\ i + 1 \in DOMAIN queue
            BY <3>1, <3>2
        <3>4. QED
            BY <1>2, <2>2, <2>3, <3>3, RunKeepsRowInv DEF RowInv, TaskRows
    <2>4. CASE worker # j
        <3>1. UNCHANGED <<worker, queue>>
            BY <1>4, <2>4 DEF End
        <3>2. QED
            BY <1>2, <2>2, <3>1, RunKeepsRowInv DEF RowInv, TaskRows
    <2>5. QED
        BY <2>3, <2>4
<1>5. QED
    BY <1>1, <1>3, <1>4, WorkIsRun

\* The worker takes a task for a document whose row was written.
LEMMA TakeKeepsRowInv == ASSUME Inv, RowInv, Take PROVE RowInv'
<1> DEFINE t == Head(queue)
           run == [NoJob EXCEPT !.pc = "load", !.doc = t.doc, !.source = t.source,
                                !.replace = t.replace]
<1>1. /\ worker = None /\ queue # <<>> /\ UNCHANGED <<req, chunks, vectors>>
    BY DEF Take, indexVars
<1>2. PICK S : queue \in Seq(S)
    BY DEF Inv, PipelineInv
<1>3. /\ 1 \in DOMAIN queue /\ t = queue[1] /\ t.id \in Requests
      /\ t.doc \in Requests /\ Made(t.doc) /\ ShapeInv
    BY <1>1, <1>2 DEF Inv, PipelineInv, RowInv, TaskRows
<1>4. RowsKept
    BY <1>3, SameRowsKept, StatementKeepsRows DEF Take, dbVars
<1>5. \A x \in Requests : RequestRow(x)'
    BY <1>1, <1>4, KeptRequestRow
<1>6. ChunkRows' /\ \A d \in Requests : docs'[d].live => Made(d)'
    BY <1>1, <1>4 DEF RowInv, RowsKept, ChunkRows
<1>7. CASE queue' = Tail(queue) /\ UNCHANGED <<worker, job>>
    <2>1. \A i \in DOMAIN queue' : queue'[i] = queue[i + 1] /\ i + 1 \in DOMAIN queue
        BY <1>1, <1>2, <1>7
    <2>2. TaskRows'
        BY <1>4, <2>1 DEF RowInv, RowsKept, TaskRows
    <2>3. \A x \in Requests : RunRow(x)'
        BY <1>1, <1>4, <1>7, KeptRunRow, NoneAssumption
    <2>4. ShapeInv'
        BY <1>1, <1>3, <1>4, <1>7 DEF ShapeInv, RowsKept
    <2>5. QED
        BY <1>5, <1>6, <2>2, <2>3, <2>4 DEF RowInv
<1>8. CASE worker' = t.id /\ job' = [job EXCEPT ![t.id] = run] /\ UNCHANGED queue
    <2>1. /\ run.doc = t.doc /\ run.drop = {} /\ run.new = {} /\ DOMAIN run = DOMAIN NoJob
        BY Fields
    <2> HIDE DEF run
    <2>2. PICK k \in Requests : k = t.id
        BY <1>3
    <2>3. RunRow(k)'
        BY <1>3, <1>4, <1>8, <2>1, <2>2 DEF RunRow, ShapeInv, RowsKept, Made
    <2>4. ASSUME NEW x \in Requests \ {k} PROVE RunRow(x)'
        <3>1. job'[x] = job[x] /\ worker # x
            BY <1>1, <1>3, <1>8, <2>2, NoneAssumption DEF ShapeInv
        <3>2. QED
            BY <1>4, <3>1, KeptRunRow
    <2>5. ShapeInv' /\ TaskRows'
        BY <1>1, <1>3, <1>4, <1>8, <2>1 DEF RowInv, ShapeInv, RowsKept, TaskRows
    <2>6. QED
        BY <1>5, <1>6, <2>3, <2>4, <2>5 DEF RowInv
<1>9. QED
    BY <1>7, <1>8 DEF Take

\* A crash or a stop loses requests and runs, and nothing that is stored.
LEMMA ExitKeepsRowInv == ASSUME Inv, RowInv, Exit PROVE RowInv'
<1> DEFINE dead == [NoReq EXCEPT !.pc = "dead"]
<1>1. dead.pc = "dead" /\ DOMAIN dead = DOMAIN NoReq
    BY Fields
<1>2. /\ UNCHANGED <<docs, chunks, vectors, queue>>
      /\ job' = [r \in Requests |-> NoJob]
      /\ req' = [r \in Requests |-> IF r \in Active THEN dead ELSE req[r]]
    BY DEF Exit, dbVars, indexVars
<1> HIDE DEF dead
<1>3. RowsKept
    BY <1>2, SameRowsKept DEF RowInv
<1>4. ShapeInv' /\ \A x \in Requests : RunRow(x)'
    BY <1>1, <1>2, <1>3, Fields DEF RowInv, ShapeInv, RunRow
<1>5. \A x \in Requests : RequestRow(x)'
    BY <1>1, <1>2, <1>3, KeptRequestRow DEF RequestRow, NamedPCs, UnnamedPCs, ReindexPCs
<1>6. TaskRows' /\ ChunkRows' /\ \A d \in Requests : docs'[d].live => Made(d)'
    BY <1>2 DEF RowInv, TaskRows, ChunkRows, Made
<1>7. QED
    BY <1>4, <1>5, <1>6 DEF RowInv

LEMMA SameKeepsRowInv ==
    ASSUME RowInv, UNCHANGED <<docs, chunks, vectors, queue, worker, req, job>> PROVE RowInv'
BY DEF RowInv, ShapeInv, RequestRow, RunRow, TaskRows, ChunkRows, Made

LEMMA NextKeepsRowInv == Inv /\ RowInv /\ [Next]_vars => RowInv'
<1> SUFFICES ASSUME Inv, RowInv, [Next]_vars PROVE RowInv'
    OBVIOUS
<1>1. CASE Shutdown \/ (\E s \in Pages : ChangePage(s)) \/ UNCHANGED vars
    BY <1>1, SameKeepsRowInv DEF Shutdown, ChangePage, vars, dbVars, indexVars, taskVars
<1>2. CASE Crash \/ Stop
    BY <1>2, ExitKeepsRowInv DEF Crash, Stop
<1>3. QED
    BY <1>1, <1>2, BeginKeepsRowInv, ServeKeepsRowInv, WorkKeepsRowInv, TakeKeepsRowInv
       DEF Next

\* Whatever fails: what names a document names one whose row was written, a request
\* that deletes one has taken it out of every later lookup, and only the worker is
\* ever at a file document.
THEOREM RowInvariance == Spec => [](Inv /\ RowInv)
<1>1. Init => RowInv
    BY InitRowInv
<1>2. QED
    BY <1>1, Invariance, NextKeepsRowInv, PTL DEF Spec

(*************************************************************************)
(* Calm: no call has failed, nothing crashed, no signal to stop came.    *)
(*************************************************************************)

Calm == faults = 0 /\ crashes = 0 /\ shutdowns = 0

CounterInv ==
    /\ faults \in Nat /\ crashes \in Nat /\ shutdowns \in Nat
    /\ shutdowns = 0 => ~stopping

\* Calls are counted when they fail, and not forgotten.
LEMMA CallsCount ==
    ASSUME NEW r, Begin(r) \/ Serve(r) \/ Work(r) \/ Take
    PROVE  /\ faults' = faults \/ faults' = faults + 1
           /\ UNCHANGED <<crashes, shutdowns, stopping>>
<1> USE DEF Ok, Fault, Works, Breaks, worldVars
<1>1. CASE Begin(r)
    BY <1>1 DEF Begin, UploadFile, UploadURL, Delete, Reindex, Sync
<1>2. CASE Dedupe(r) \/ Find(r) \/ Create(r) \/ CountUp(r) \/ Prepare(r) \/ Publish(r)
           \/ MarkUnpublished(r) \/ SoftDelete(r)
    BY <1>2 DEF Dedupe, Find, Create, CountUp, Prepare, Publish, MarkUnpublished, SoftDelete
<1>3. CASE Wipe(r) \/ CountDown(r) \/ ClearVectors(r) \/ ClearChunks(r) \/ ResetStatus(r)
           \/ Republish(r) \/ Fetch(r)
    BY <1>3 DEF Wipe, CountDown, ClearVectors, ClearChunks, ResetStatus, Republish, Fetch
<1>4. CASE Load(r) \/ SyncStart(r) \/ ReadOld(r) \/ DropVectors(r) \/ DropChunks(r)
    BY <1>4 DEF Load, SyncStart, ReadOld, DropVectors, DropChunks
<1>5. CASE Store(r) \/ DualWrite(r) \/ WriteHash(r) \/ MarkEnrichment(r) \/ Cleanup(r)
    BY <1>5 DEF Store, DualWrite, WriteHash, MarkEnrichment, Cleanup
<1>6. CASE ReadPrevious(r) \/ Complete(r) \/ AddChunks(r) \/ MarkFailed(r) \/ End(r)
    BY <1>6 DEF ReadPrevious, Complete, AddChunks, MarkFailed, End
<1>7. CASE Take
    BY <1>7 DEF Take
<1>8. QED
    BY <1>1, <1>2, <1>3, <1>4, <1>5, <1>6, <1>7 DEF Serve, Work

\* A step after which all is calm began when all was calm, and failed nowhere.
LEMMA CalmStep ==
    ASSUME CounterInv, [Next]_vars
    PROVE  /\ CounterInv'
           /\ Calm' => /\ Calm /\ ~stopping /\ ~Fault /\ \A j \in Requests : ~Breaks(j)
                       /\ \/ \E r \in Requests : Begin(r) \/ Serve(r) \/ Work(r)
                          \/ Take
                          \/ \E s \in Pages : ChangePage(s)
                          \/ UNCHANGED vars
<1> USE DEF CounterInv, Calm, Fault, Breaks, Cancelled
<1>1. CASE Take \/ \E r \in Requests : Begin(r) \/ Serve(r) \/ Work(r)
    <2>1. /\ faults' = faults \/ faults' = faults + 1
          /\ UNCHANGED <<crashes, shutdowns, stopping>>
        BY <1>1, CallsCount
    <2>2. QED
        BY <1>1, <2>1
<1>2. CASE \E s \in Pages : ChangePage(s)
    <2>1. UNCHANGED <<stopping, faults, crashes, shutdowns>>
        BY <1>2 DEF ChangePage
    <2>2. QED
        BY <1>2, <2>1
<1>3. CASE Crash \/ Stop
    BY <1>3 DEF Crash, Stop, Exit
<1>4. CASE Shutdown
    BY <1>4 DEF Shutdown
<1>5. CASE UNCHANGED vars
    BY <1>5 DEF vars, worldVars
<1>6. QED
    BY <1>1, <1>2, <1>3, <1>4, <1>5 DEF Next

\* What a step relies on in a calm execution: the invariants, and that no call fails.
Undisturbed ==
    Inv /\ RowInv /\ ~stopping /\ ~Fault /\ \A j \in Requests : ~Breaks(j)

\* What a request's first step is, whatever its kind.
LEMMA BeginStep ==
    ASSUME ShapeInv, NEW r \in Requests, Begin(r)
    PROVE  /\ MayStart /\ req[r].pc = "new"
           /\ UNCHANGED <<dbVars, indexVars, queue, worker>>
           /\ DOMAIN req' = Requests /\ \A x \in Requests \ {r} : req'[x] = req[x]
           /\ job' = job \/ \E n : job' = [job EXCEPT ![r].prev = n]
           /\ \/ req'[r].pc \in {"dedupe", "find"}
              \/ /\ req'[r].pc = "softDelete" /\ req'[r].doc \in Requests
                 /\ docs[req'[r].doc].live
              \/ /\ req'[r].pc \in {"clearVectors", "fetch"} /\ req'[r].doc \in Requests
                 /\ docs[req'[r].doc].live /\ docs[req'[r].doc].source \in Pages
                 /\ docs[req'[r].doc].status # "processing"
<1> USE Fields DEF ShapeInv, taskVars
<1>1. ASSUME NEW s \in Files, NEW c \in Contents, UploadFile(r, s, c)
      PROVE  req'[r].pc = "dedupe"
    BY <1>1 DEF UploadFile
<1>2. ASSUME NEW s \in Pages, UploadURL(r, s) PROVE req'[r].pc = "find"
    BY <1>2 DEF UploadURL
<1>3. ASSUME NEW d \in Requests, Delete(r, d)
      PROVE  req'[r].pc = "softDelete" /\ req'[r].doc = d /\ docs[d].live
    BY <1>3 DEF Delete
<1>4. ASSUME NEW d \in Requests, Reindex(r, d)
      PROVE  /\ req'[r].pc = "clearVectors" /\ req'[r].doc = d
             /\ docs[d].live /\ docs[d].source \in Pages /\ docs[d].status # "processing"
    BY <1>4 DEF Reindex
<1>5. ASSUME NEW d \in Requests, Sync(r, d)
      PROVE  /\ req'[r].pc = "fetch" /\ req'[r].doc = d
             /\ docs[d].live /\ docs[d].source \in Pages /\ docs[d].status # "processing"
    BY <1>5 DEF Sync
<1>6. /\ MayStart /\ req[r].pc = "new"
      /\ UNCHANGED <<dbVars, indexVars, queue, worker>>
      /\ job' = job \/ \E n : job' = [job EXCEPT ![r].prev = n]
      /\ \E q : req' = [req EXCEPT ![r] = q]
    <2> HIDE Fields DEF ShapeInv
    <2>1. CASE (\E s \in Files, c \in Contents : UploadFile(r, s, c))
               \/ \E s \in Pages : UploadURL(r, s)
        BY <2>1 DEF UploadFile, UploadURL
    <2>2. CASE \E d \in Requests : Delete(r, d) \/ Reindex(r, d)
        BY <2>2 DEF Delete, Reindex
    <2>3. CASE \E d \in Requests : Sync(r, d)
        BY <2>3 DEF Sync
    <2>4. QED
        BY <2>1, <2>2, <2>3 DEF Begin
<1>7. DOMAIN req' = Requests /\ \A x \in Requests \ {r} : req'[x] = req[x]
    BY <1>6
<1>8. QED
    <2> HIDE Fields DEF ShapeInv, taskVars
    <2>1. QED
        BY <1>1, <1>2, <1>3, <1>4, <1>5, <1>6, <1>7 DEF Begin

\* Only Publish and Republish answer "accepted".
LEMMA AcceptedOnlyByQueue ==
    ASSUME ShapeInv, NEW r \in Requests, Begin(r) \/ Serve(r), ~TaskAccepted(r)
    PROVE  req'[r].pc \notin {"new", "accepted", "dead"}
<1>1. ASSUME NEW p, Goto(r, p) PROVE req'[r].pc = p
    BY <1>1, GotoKeepsShape
<1>2. ASSUME NEW a, Answer(r, a) PROVE req'[r].pc = a
    BY <1>2, Fields DEF Answer, ShapeInv
<1>3. CASE Begin(r)
    BY <1>3, BeginStep
<1>4. CASE Dedupe(r)
    <2>1. ASSUME NEW d, NEW c,
                 req' = [req EXCEPT ![r] = [NoReq EXCEPT !.pc = "duplicate", !.doc = d,
                                                         !.content = c]]
          PROVE  req'[r].pc = "duplicate"
        BY <2>1, Fields DEF ShapeInv
    <2>2. \/ Goto(r, "find") \/ Answer(r, "error")
          \/ \E d, c : req' = [req EXCEPT ![r] =
                          [NoReq EXCEPT !.pc = "duplicate", !.doc = d, !.content = c]]
        BY <1>4 DEF Dedupe, Abandon
    <2>3. QED
        BY <1>1, <1>2, <2>1, <2>2
<1>5. CASE Find(r)
    <2>1. ASSUME NEW p, NEW d, NEW h,
                 req' = [req EXCEPT ![r].pc = p, ![r].doc = d, ![r].hash = h]
          PROVE  req'[r].pc = p
        BY <2>1, Fields DEF ShapeInv
    <2>2. \/ Answer(r, "error")
          \/ \E p \in {"create", "prepare"} : \E d, h :
                 req' = [req EXCEPT ![r].pc = p, ![r].doc = d, ![r].hash = h]
        BY <1>5 DEF Find, Abandon
    <2>3. QED
        BY <1>2, <2>1, <2>2
<1>6. CASE Create(r) \/ CountUp(r)
    BY <1>1, <1>2, <1>6 DEF Create, CountUp, Abandon
<1>7. CASE Prepare(r)
    BY <1>2, <1>7, Fields DEF Prepare, Abandon, ShapeInv
<1>8. CASE Publish(r) \/ Republish(r)
    <2>1. Goto(r, "markFailed") \/ Answer(r, "error")
        BY <1>8 DEF Publish, Republish, TaskAccepted, dbVars, indexVars
    <2>2. QED
        BY <1>1, <1>2, <2>1
<1>9. CASE MarkUnpublished(r) \/ SoftDelete(r) \/ Wipe(r) \/ CountDown(r)
    BY <1>1, <1>2, <1>9 DEF MarkUnpublished, SoftDelete, Wipe, CountDown
<1>10. CASE ClearVectors(r) \/ ClearChunks(r) \/ ResetStatus(r)
    BY <1>1, <1>2, <1>10 DEF ClearVectors, ClearChunks, ResetStatus
<1>11. CASE Fetch(r)
    BY <1>2, <1>11 DEF Fetch
<1>12. QED
    BY <1>3, <1>4, <1>5, <1>6, <1>7, <1>8, <1>9, <1>10, <1>11 DEF Serve

\* The queue in PipelineInv: what publishing and settling do to it.
LEMMA QueueGrows ==
    ASSUME PipelineInv, NEW t, queue' = Append(queue, t)
    PROVE  /\ \A i \in DOMAIN queue : i \in DOMAIN queue' /\ queue'[i] = queue[i]
           /\ \A i \in DOMAIN queue' : i \in DOMAIN queue \/ queue'[i] = t
           /\ \E i \in DOMAIN queue' : queue'[i] = t /\ (queue # <<>> => i # 1)
<1>1. PICK S : queue \in Seq(S)
    BY DEF PipelineInv
<1>2. /\ Len(queue) + 1 \in DOMAIN queue' /\ queue'[Len(queue) + 1] = t
      /\ queue # <<>> => Len(queue) + 1 # 1
    BY <1>1
<1>3. QED
    BY <1>1, <1>2

LEMMA QueueShrinks ==
    ASSUME PipelineInv, queue # <<>>, queue' = Tail(queue)
    PROVE  /\ \A i \in DOMAIN queue : i # 1 => i - 1 \in DOMAIN queue' /\ queue'[i - 1] = queue[i]
           /\ \A i \in DOMAIN queue' : i + 1 \in DOMAIN queue /\ queue'[i] = queue[i + 1]
           /\ 1 \in DOMAIN queue /\ Head(queue) = queue[1]
<1>1. PICK S : queue \in Seq(S)
    BY DEF PipelineInv
<1>2. QED
    BY <1>1

(*************************************************************************)
(* FilesAreOwned                                                         *)
(*************************************************************************)

\* The steps of a run after it has removed its file.
LateFilePCs == {"markFailed", "previous", "complete", "addChunks", "ack"}

Queued(r) == \E i \in DOMAIN queue : queue[i].id = r

FileOwnerInv ==
    \A r \in Requests :
        /\ req[r].pc # "dead"
        /\ req[r].pc = "accepted" /\ files[r] # None => Queued(r)
        /\ worker = r /\ job[r].pc \in LateFilePCs => files[r] = None

LEMMA OwnedFiles == Inv /\ FileOwnerInv => FilesAreOwned
BY DEF Inv, RequestInv, FileOwnerInv, FilesAreOwned, Queued, Active, Over, Answers, UploadPCs

LEMMA InitFileOwnerInv == Init => FileOwnerInv
<1>1. Init => \A r \in Requests : req[r].pc = "new" /\ worker = None
    BY Fields DEF Init
<1>2. QED
    BY <1>1, NoneAssumption DEF FileOwnerInv

\* A request's file goes to its task.
LEMMA RequestKeepsFileOwnerInv ==
    ASSUME Undisturbed, FileOwnerInv, NEW r \in Requests, Begin(r) \/ Serve(r)
    PROVE  FileOwnerInv'
<1>0. Inv /\ RequestInv /\ PipelineInv /\ ShapeInv
    BY DEF Undisturbed, Inv, RowInv
<1>1. CASE TaskAccepted(r)
    <2>1. Publishes(r)
        BY <1>0, <1>1, AcceptedPublishes
    <2>2. /\ \A x \in Requests : Queued(x) => Queued(x)'
          /\ Queued(r)'
        BY <1>0, <2>1, QueueGrows DEF Publishes, Task, Queued
    <2>3. QED
        BY <1>1, <2>1, <2>2 DEF FileOwnerInv, Publishes
<1>2. CASE ~TaskAccepted(r)
    <2>1. Moves(r) /\ ~Publishes(r)
        <3>1. CASE Publishes(r)
            BY <1>0, <1>2, <3>1, AcceptedOnlyByQueue DEF Publishes
        <3>2. QED
            BY <1>0, <3>1, BeginMoves, ServeMovesOrPublishes
    <2>2. worker # r /\ req'[r].pc \notin {"accepted", "dead"}
        BY <1>0, <1>2, <2>1, AcceptedOnlyByQueue, WorkerIsAccepted DEF Moves, Over, Answers
    <2>3. QED
        BY <2>1, <2>2 DEF FileOwnerInv, Moves, Queued
<1>3. QED
    BY <1>1, <1>2

\* The order of the steps of a run.
EarlyPCs == {"load", "syncStart", "readOld", "dropVectors", "dropChunks", "store",
             "dualWrite", "hash", "enrichment"}

LEMMA WorkOrder ==
    ASSUME ShapeInv, NEW j \in Requests, Work(j)
    PROVE  \/ job[j].pc \in EarlyPCs /\ job'[j].pc \in EarlyPCs \cup {"cleanup"}
           \/ Cleanup(j) /\ job'[j].pc = IF job[j].failed THEN "markFailed" ELSE "previous"
           \/ job[j].pc = "previous" /\ job'[j].pc = "complete"
           \/ Complete(j) /\ job'[j].pc = "addChunks"
           \/ AddChunks(j) /\ job'[j].pc = "ack"
           \/ MarkFailed(j) /\ job'[j].pc = "ack"
           \/ End(j) /\ job[j].pc = "ack" /\ job' = [job EXCEPT ![j] = NoJob]
<1>0. DOMAIN job = Requests /\ "pc" \in DOMAIN job[j]
    BY Fields DEF ShapeInv
<1>1. ASSUME NEW p, Step(j, p) PROVE job'[j].pc = p
    BY <1>0, <1>1 DEF Step
<1>2. ASSUME NEW n, Fail(j, n) PROVE job'[j].pc = "cleanup"
    BY <1>0, <1>2 DEF Fail
<1> USE DEF EarlyPCs
<1>3. CASE Load(j)
    <2> DEFINE c == IF job[j].source \in Pages THEN page[job[j].source] ELSE files[j]
    <2>1. \/ Fail(j, 0)
          \/ job' = [job EXCEPT ![j].pc = "syncStart", ![j].content = c]
          \/ job' = [job EXCEPT ![j].pc = "store", ![j].content = c,
                        ![j].add = ChunksOf(c), ![j].count = Cardinality(ChunksOf(c))]
        BY <1>3 DEF Load
    <2>2. job'[j].pc \in {"cleanup", "syncStart", "store"}
        BY <1>0, <1>2, <2>1
    <2>3. QED
        BY <1>3, <2>2 DEF Load
<1>4. CASE SyncStart(j)
    BY <1>1, <1>2, <1>4 DEF SyncStart
<1>5. CASE ReadOld(j)
    <2>1. job'[j].pc \in {"dropVectors", "store", "hash"}
        BY <1>0, <1>5 DEF ReadOld
    <2>2. QED
        BY <1>5, <2>1 DEF ReadOld
<1>6. CASE DropVectors(j)
    BY <1>1, <1>6 DEF DropVectors
<1>7. CASE DropChunks(j)
    BY <1>0, <1>7 DEF DropChunks
<1>8. CASE Store(j)
    <2>1. \/ \E n : Fail(j, n)
          \/ job' = [job EXCEPT ![j].pc = "dualWrite", ![j].new = NewChunks(j), ![j].add = {}]
        BY <1>8 DEF Store
    <2>2. job'[j].pc \in {"cleanup", "dualWrite"}
        BY <1>0, <1>2, <2>1
    <2>3. QED
        BY <1>8, <2>2 DEF Store
<1>9. CASE DualWrite(j)
    BY <1>0, <1>9 DEF DualWrite
<1>10. CASE WriteHash(j) \/ MarkEnrichment(j)
    BY <1>1, <1>10 DEF WriteHash, MarkEnrichment
<1>11. CASE Cleanup(j)
    BY <1>1, <1>11 DEF Cleanup
<1>12. CASE ReadPrevious(j)
    BY <1>0, <1>1, <1>12 DEF ReadPrevious
<1>13. CASE Complete(j) \/ AddChunks(j) \/ MarkFailed(j)
    BY <1>1, <1>13 DEF Complete, AddChunks, MarkFailed
<1>14. CASE End(j)
    BY <1>14 DEF End
<1>15. QED
    BY <1>3, <1>4, <1>5, <1>6, <1>7, <1>8, <1>9, <1>10, <1>11, <1>12, <1>13, <1>14
       DEF Work

\* A run removes its file before it settles its task.
LEMMA WorkKeepsFileOwnerInv ==
    ASSUME Undisturbed, FileOwnerInv, NEW j \in Requests, Work(j) PROVE FileOwnerInv'
<1>0. Inv /\ RequestInv /\ PipelineInv /\ ShapeInv
    BY DEF Undisturbed, Inv, RowInv
<1>1. /\ req' = req /\ (files' = files \/ Cleanup(j))
      /\ \A x \in Requests \ {j} : job'[x] = job[x]
      /\ End(j) \/ UNCHANGED <<queue, worker>>
    BY <1>0, WorkClearsAtMostItsFile, WorkGoesOn
<1>2. \A r \in Requests : files'[r] # None => files'[r] = files[r]
    BY <1>0, <1>1 DEF Cleanup, RemoveFile, RequestInv
<1>3. ASSUME worker' = j, job'[j].pc \in LateFilePCs PROVE files'[j] = None
    <2>1. CASE Cleanup(j)
        BY <1>0, <2>1 DEF Cleanup, RemoveFile, RequestInv
    <2>2. CASE End(j)
        <3>1. job'[j].pc = "off"
            BY <1>0, <2>2, Fields DEF End, ShapeInv
        <3>2. QED
            BY <1>3, <3>1 DEF LateFilePCs
    <2>3. CASE ~Cleanup(j) /\ ~End(j)
        <3>1. worker = j /\ job[j].pc \in LateFilePCs
            BY <1>0, <1>1, <1>3, <2>3, WorkOrder
               DEF EarlyPCs, LateFilePCs, Complete, AddChunks, MarkFailed
        <3>2. QED
            BY <1>2, <3>1 DEF FileOwnerInv
    <2>4. QED
        BY <2>1, <2>2, <2>3
<1>4. CASE UNCHANGED <<queue, worker>>
    <2>1. \A r \in Requests : Queued(r)' <=> Queued(r)
        BY <1>4 DEF Queued
    <2>2. QED
        BY <1>1, <1>2, <1>3, <1>4, <2>1 DEF FileOwnerInv
<1>5. CASE End(j) /\ worker = j
    <2>1. /\ queue # <<>> /\ queue' = Tail(queue) /\ worker' = None /\ files' = files
          /\ job[j].pc = "ack" /\ j = queue[1].id
        BY <1>0, <1>5, NoneAssumption DEF End, PipelineInv
    <2>2. files[j] = None
        BY <1>5, <2>1 DEF FileOwnerInv, LateFilePCs
    <2>3. \A r \in Requests \ {j} : Queued(r) => Queued(r)'
        BY <1>0, <2>1, QueueShrinks DEF Queued
    <2>4. QED
        BY <1>1, <2>1, <2>2, <2>3, NoneAssumption DEF FileOwnerInv
<1>6. CASE End(j) /\ worker # j
    BY <1>4, <1>6 DEF End
<1>7. QED
    BY <1>1, <1>4, <1>5, <1>6

\* The worker takes the head of the queue, which stays queued.
LEMMA TakeKeepsFileOwnerInv ==
    ASSUME Undisturbed, FileOwnerInv, Take PROVE FileOwnerInv'
<1>0. Inv /\ PipelineInv /\ ShapeInv
    BY DEF Undisturbed, Inv, RowInv
<1>1. PICK t : /\ worker' = t.id /\ UNCHANGED <<req, files, queue>>
               /\ job' = [job EXCEPT ![t.id] = [NoJob EXCEPT !.pc = "load", !.doc = t.doc,
                                            !.source = t.source, !.replace = t.replace]]
    BY DEF Undisturbed, Take
<1>2. \A x \in Requests : worker' = x => job'[x].pc = "load"
    BY <1>0, <1>1, Fields DEF ShapeInv
<1>3. QED
    BY <1>1, <1>2 DEF FileOwnerInv, Queued, LateFilePCs

(*************************************************************************)
(* UnsettledHasOwner                                                     *)
(*************************************************************************)

Unsettled(d) == docs[d].live /\ docs[d].status \in {"pending", "processing"}

\* A request that will publish a task, a task that waits, or a run that has not yet
\* written the status.
ByRequest(r, d) == req[r].doc = d /\ req[r].pc \in {"count", "publish", "republish"}
ByTask(i, d)    == queue[i].doc = d /\ (worker = None \/ i # 1)
ByRun(j, d)     == job[j].doc = d /\ job[j].pc \notin {"off", "addChunks", "ack"}

HasSettler(d) ==
    \/ \E r \in Requests : ByRequest(r, d)
    \/ \E i \in DOMAIN queue : ByTask(i, d)
    \/ \E j \in Requests : ByRun(j, d)

SettlerInv == \A d \in Requests : Unsettled(d) => HasSettler(d)

LEMMA SettlersOwn == SettlerInv => UnsettledHasOwner
BY DEF SettlerInv, UnsettledHasOwner, Unsettled, HasSettler, ByRequest, ByTask, ByRun,
       Owned, Active, Running, Over, Answers

LEMMA InitSettlerInv == Init => SettlerInv
<1>1. Init => \A d \in Requests : ~docs[d].live
    BY Fields DEF Init
<1>2. QED
    BY <1>1 DEF SettlerInv, Unsettled

\* A request that settles a document goes on, or hands it to the queue.
LEMMA RequestKeepsSettlers ==
    ASSUME Undisturbed, NEW r \in Requests, Begin(r) \/ Serve(r),
           NEW d \in Requests, HasSettler(d)
    PROVE  HasSettler(d)'
<1>0. Inv /\ PipelineInv /\ RequestInv /\ ShapeInv
    BY DEF Undisturbed, Inv, RowInv
<1>1. Moves(r) \/ Publishes(r)
    BY <1>0, BeginMoves, ServeMovesOrPublishes
<1>2. req[r].pc \notin Over
    BY <1>1 DEF Moves, Publishes, Over, Answers
<1>3. worker # r /\ job[r].pc = "off"
    BY <1>0, <1>2, WorkerIsAccepted DEF PipelineInv, Over, Answers
<1>4. CASE \E i \in DOMAIN queue : ByTask(i, d)
    <2>1. \A i \in DOMAIN queue : i \in DOMAIN queue' /\ queue'[i] = queue[i]
        BY <1>0, <1>1, QueueGrows DEF Moves, Publishes
    <2>2. QED
        BY <1>1, <1>4, <2>1 DEF HasSettler, ByTask, Moves, Publishes
<1>5. CASE \E j \in Requests : ByRun(j, d)
    BY <1>1, <1>3, <1>5 DEF HasSettler, ByRun, Moves, Publishes
<1>6. CASE \E x \in Requests \ {r} : ByRequest(x, d)
    BY <1>1, <1>6 DEF HasSettler, ByRequest, Moves, Publishes
<1>7. CASE ByRequest(r, d)
    <2>1. Serve(r)
        BY <1>0, <1>7, BeginStep DEF ByRequest
    <2>2. CASE CountUp(r)
        <3>1. Goto(r, "publish")
            BY <2>2 DEF CountUp, Undisturbed
        <3>2. QED
            BY <1>0, <1>7, <3>1, GotoKeepsShape DEF HasSettler, ByRequest
    <2>3. CASE Publish(r) \/ Republish(r)
        <3>1. queue' = Append(queue, Task(r)) /\ worker' = worker
            BY <2>3 DEF Publish, Republish, Undisturbed
        <3>2. PICK i \in DOMAIN queue' : queue'[i] = Task(r) /\ (queue # <<>> => i # 1)
            BY <1>0, <3>1, QueueGrows
        <3>3. Task(r).doc = d
            BY <1>7 DEF Task, ByRequest
        <3>4. worker # None => queue # <<>>
            BY <1>0 DEF PipelineInv
        <3>5. ByTask(i, d)'
            BY <3>1, <3>2, <3>3, <3>4 DEF ByTask
        <3>6. QED
            BY <3>5 DEF HasSettler
    <2>4. QED
        BY <1>7, <2>1, <2>2, <2>3
           DEF ByRequest, Serve, Dedupe, Find, Create, Prepare, MarkUnpublished, SoftDelete,
               Wipe, CountDown, ClearVectors, ClearChunks, ResetStatus, Fetch
<1>8. QED
    BY <1>4, <1>5, <1>6, <1>7 DEF HasSettler

\* A handler that leaves a document unsettled will settle it.
LEMMA RequestKeepsSettlerInv ==
    ASSUME Undisturbed, SettlerInv, NEW r \in Requests, Begin(r) \/ Serve(r)
    PROVE  SettlerInv'
<1>0. ShapeInv /\ RequestRow(r)
    BY DEF Undisturbed, RowInv
<1>1. SUFFICES ASSUME NEW d \in Requests, Unsettled(d)', ~Unsettled(d) PROVE HasSettler(d)'
    <2>1. ASSUME NEW d \in Requests, Unsettled(d) PROVE HasSettler(d)'
        BY <2>1, RequestKeepsSettlers DEF SettlerInv
    <2>2. QED
        BY <2>1 DEF SettlerInv
<1>2. ASSUME req'[r].doc = d, req'[r].pc \in {"count", "publish", "republish"}
      PROVE  HasSettler(d)'
    BY <1>2 DEF HasSettler, ByRequest
<1>3. docs' # docs
    BY <1>1 DEF Unsettled
<1>4. Create(r) \/ Prepare(r) \/ MarkUnpublished(r) \/ SoftDelete(r) \/ ResetStatus(r)
    BY <1>0, <1>3, BeginStep
       DEF Serve, Dedupe, Find, CountUp, IncrementCounts, Publish, Wipe, CountDown,
           ClearVectors, ClearChunks, Republish, Fetch, dbVars
<1>5. CASE Create(r)
    <2>1. Creates(r)
        BY <1>5 DEF Create, Creates, Undisturbed
    <2>2. /\ req'[r].pc = "count" /\ req'[r].doc = req[r].doc /\ req[r].doc = r
          /\ \A x \in Requests \ {r} : docs'[x] = docs[x]
        BY <1>0, <2>1, GotoKeepsShape DEF Creates, RequestRow, ShapeInv
    <2>3. QED
        BY <1>1, <1>2, <2>2 DEF Unsettled
<1>6. CASE Prepare(r)
    <2>1. /\ PrepareForReplacement(req[r].doc, req[r].hash)
          /\ req' = [req EXCEPT ![r].pc = "publish", ![r].replace = TRUE]
        BY <1>6 DEF Prepare, Undisturbed
    <2>2. req'[r].pc = "publish" /\ req'[r].doc = req[r].doc
        BY <1>0, <2>1, Fields DEF ShapeInv
    <2>3. d = req[r].doc
        BY <1>0, <1>1, <2>1 DEF PrepareForReplacement, Unsettled, ShapeInv
    <2>4. QED
        BY <1>2, <2>2, <2>3
<1>7. CASE MarkUnpublished(r)
    <2>1. UpdateParseStatus(req[r].doc, "failed", 0)
        BY <1>3, <1>7 DEF MarkUnpublished, dbVars
    <2>2. QED
        BY <1>0, <1>1, <2>1, Fields DEF UpdateParseStatus, Unsettled, ShapeInv
<1>8. CASE SoftDelete(r)
    <2>1. docs' = [docs EXCEPT ![req[r].doc].live = FALSE]
        BY <1>3, <1>8 DEF SoftDelete
    <2>2. QED
        BY <1>0, <1>1, <2>1, Fields DEF Unsettled, ShapeInv
<1>9. CASE ResetStatus(r)
    <2>1. UpdateParseStatus(req[r].doc, "pending", 0) /\ Goto(r, "republish")
        BY <1>9 DEF ResetStatus, Undisturbed
    <2>2. req'[r].pc = "republish" /\ req'[r].doc = req[r].doc
        BY <1>0, <2>1, GotoKeepsShape
    <2>3. d = req[r].doc
        BY <1>0, <1>1, <2>1, Fields DEF UpdateParseStatus, Unsettled, ShapeInv
    <2>4. QED
        BY <1>2, <2>2, <2>3
<1>10. QED
    BY <1>4, <1>5, <1>6, <1>7, <1>8, <1>9

\* What a run makes of the status of its document.
LEMMA WorkStatus ==
    ASSUME ShapeInv, NEW j \in Requests, Work(j), NEW d \in Requests, Unsettled(d)'
    PROVE  Unsettled(d) \/ (job[j].doc = d /\ SyncStart(j))
<1> USE DEF dbVars
<1>1. CASE docs' = docs
    BY <1>1 DEF Unsettled
<1>2. CASE Complete(j) \/ MarkFailed(j)
    <2>1. docs' # docs => \E s \in {"completed", "failed"} : \E n :
                             UpdateParseStatus(job[j].doc, s, n)
        BY <1>2 DEF Complete, MarkFailed
    <2>2. ASSUME NEW s \in {"completed", "failed"}, NEW n, UpdateParseStatus(job[j].doc, s, n)
          PROVE  Unsettled(d)
        BY <2>2, Fields DEF UpdateParseStatus, Unsettled, ShapeInv
    <2>3. QED
        BY <1>1, <2>1, <2>2
<1>3. CASE SyncStart(j)
    <2>1. docs' # docs => UpdateParseStatus(job[j].doc, "processing", 0)
        BY <1>3 DEF SyncStart
    <2>2. QED
        BY <1>1, <1>3, <2>1 DEF UpdateParseStatus, Unsettled, ShapeInv
<1>4. CASE WriteHash(j) \/ MarkEnrichment(j)
    <2>1. docs' # docs => UpdateContentHash(job[j].doc, job[j].content)
        BY <1>4 DEF WriteHash, MarkEnrichment, UpdateEnrichmentStatus
    <2>2. QED
        BY <1>1, <2>1, Fields DEF UpdateContentHash, Unsettled, ShapeInv
<1>5. CASE Load(j) \/ ReadOld(j) \/ DropVectors(j) \/ DropChunks(j) \/ Store(j) \/ DualWrite(j)
    BY <1>1, <1>5 DEF Load, ReadOld, DropVectors, DropChunks, Store, DualWrite
<1>6. CASE Cleanup(j) \/ ReadPrevious(j) \/ AddChunks(j) \/ End(j)
    BY <1>1, <1>6 DEF Cleanup, ReadPrevious, AddChunks, IncrementCounts, End
<1>7. QED
    BY <1>2, <1>3, <1>4, <1>5, <1>6 DEF Work

\* The last steps of a run settle its document, so that it can go.
LEMMA WorkKeepsSettlerInv ==
    ASSUME Undisturbed, SettlerInv, NEW j \in Requests, Work(j) PROVE SettlerInv'
<1>0. Inv /\ PipelineInv /\ ShapeInv
    BY DEF Undisturbed, Inv, RowInv
<1>1. SUFFICES ASSUME NEW d \in Requests, Unsettled(d)' PROVE HasSettler(d)'
    BY DEF SettlerInv
<1>2. /\ req' = req /\ \A x \in Requests \ {j} : job'[x] = job[x]
      /\ End(j) \/ UNCHANGED <<queue, worker>>
    BY <1>0, WorkClearsAtMostItsFile, WorkGoesOn
<1>3. CASE job[j].doc = d /\ SyncStart(j)
    <2>1. Step(j, "readOld")
        BY <1>3 DEF SyncStart, Undisturbed
    <2>2. job'[j].pc = "readOld" /\ job'[j].doc = d
        BY <1>0, <1>3, <2>1, Fields DEF Step, ShapeInv
    <2>3. QED
        BY <2>2 DEF HasSettler, ByRun
<1>4. CASE Unsettled(d)
    <2>1. CASE \E r \in Requests : ByRequest(r, d)
        BY <1>2, <2>1 DEF HasSettler, ByRequest
    <2>2. CASE \E i \in DOMAIN queue : ByTask(i, d)
        <3>1. PICK i \in DOMAIN queue : ByTask(i, d)
            BY <2>2
        <3>2. CASE UNCHANGED <<queue, worker>>
            BY <3>1, <3>2 DEF HasSettler, ByTask
        <3>3. CASE End(j) /\ worker = j
            <4>1. /\ queue # <<>> /\ queue' = Tail(queue) /\ worker' = None /\ i # 1
                BY <1>0, <3>1, <3>3, NoneAssumption DEF End, PipelineInv, ByTask
            <4>2. i - 1 \in DOMAIN queue' /\ queue'[i - 1] = queue[i]
                BY <1>0, <4>1, QueueShrinks
            <4>3. QED
                BY <3>1, <4>1, <4>2 DEF HasSettler, ByTask
        <3>4. QED
            BY <1>2, <3>2, <3>3 DEF End
    <2>3. CASE \E x \in Requests \ {j} : ByRun(x, d)
        BY <1>2, <2>3 DEF HasSettler, ByRun
    <2>4. CASE ByRun(j, d)
        <3>1. ~AddChunks(j) /\ ~End(j)
            BY <2>4 DEF ByRun, AddChunks, End
        <3>2. ~Complete(j) /\ ~MarkFailed(j)
            <4>1. ASSUME NEW s \in {"completed", "failed"}, NEW n,
                         UpdateParseStatus(job[j].doc, s, n)
                  PROVE  FALSE
                BY <1>0, <1>1, <2>4, <4>1, Fields
                   DEF UpdateParseStatus, Unsettled, ShapeInv, ByRun
            <4>2. QED
                BY <4>1 DEF Complete, MarkFailed, Undisturbed
        <3>3. job'[j].pc \notin {"off", "addChunks", "ack"}
            BY <1>0, <3>1, <3>2, WorkOrder DEF EarlyPCs
        <3>4. job'[j].doc = d
            BY <1>0, <2>4, <3>1, WorkIsRun DEF RunGoesOn, ByRun
        <3>5. QED
            BY <3>3, <3>4 DEF HasSettler, ByRun
    <2>5. QED
        BY <1>4, <2>1, <2>2, <2>3, <2>4 DEF SettlerInv, HasSettler
<1>5. QED
    BY <1>0, <1>1, <1>3, <1>4, WorkStatus

\* The head of the queue becomes a run.
LEMMA TakeKeepsSettlerInv == ASSUME Undisturbed, SettlerInv, Take PROVE SettlerInv'
<1> DEFINE t == Head(queue)
           run == [NoJob EXCEPT !.pc = "load", !.doc = t.doc, !.source = t.source,
                                !.replace = t.replace]
<1>0. Inv /\ PipelineInv /\ ShapeInv /\ RowInv
    BY DEF Undisturbed, Inv, RowInv
<1>1. /\ worker = None /\ queue # <<>> /\ UNCHANGED <<req, queue>>
      /\ worker' = t.id /\ job' = [job EXCEPT ![t.id] = run]
      /\ UpdateParseStatus(t.doc, "processing", 0)
    BY DEF Undisturbed, Take
<1>2. /\ t = queue[1] /\ t.id \in Requests /\ t.doc \in Requests /\ 1 \in DOMAIN queue
      /\ req[t.id].pc = "accepted"
    <2>1. PICK S : queue \in Seq(S)
        BY <1>0 DEF PipelineInv
    <2>2. QED
        BY <1>0, <1>1, <2>1 DEF PipelineInv, RowInv, TaskRows
<1>3. run.pc = "load" /\ run.doc = t.doc
    BY Fields
<1> HIDE DEF run
<1>4. job[t.id].pc = "off"
    BY <1>0, <1>1, <1>2, NoneAssumption DEF PipelineInv
<1>5. ASSUME NEW d \in Requests, d = t.doc PROVE HasSettler(d)'
    <2>1. ByRun(t.id, d)'
        BY <1>0, <1>1, <1>2, <1>3, <1>5 DEF ByRun, ShapeInv
    <2>2. t.id \in Requests /\ (t.id)' = t.id
        BY <1>1, <1>2
    <2>3. QED
        BY <2>1, <2>2 DEF HasSettler
<1>6. ASSUME NEW d \in Requests, d # t.doc, HasSettler(d) PROVE HasSettler(d)'
    <2>1. CASE \E r \in Requests : ByRequest(r, d)
        BY <1>1, <2>1 DEF HasSettler, ByRequest
    <2>2. CASE \E i \in DOMAIN queue : ByTask(i, d)
        BY <1>1, <1>2, <1>6, <2>2 DEF HasSettler, ByTask
    <2>3. CASE \E j \in Requests : ByRun(j, d)
        BY <1>0, <1>1, <1>2, <1>4, <2>3 DEF HasSettler, ByRun, ShapeInv
    <2>4. QED
        BY <1>6, <2>1, <2>2, <2>3 DEF HasSettler
<1>7. \A d \in Requests : d # t.doc => docs'[d] = docs[d]
    BY <1>0, <1>1, <1>2 DEF UpdateParseStatus, ShapeInv
<1>8. QED
    BY <1>5, <1>6, <1>7 DEF SettlerInv, Unsettled

(*************************************************************************)
(* StoresAgree                                                           *)
(*************************************************************************)

LiveFile(d) == docs[d].live /\ docs[d].source \in Files

\* The vectors of a run's document, as far as the run has come.
Balanced(j) ==
    LET d == job[j].doc IN
    Of(d, vectors) = CASE job[j].pc = "dropChunks" -> Of(d, chunks) \ job[j].drop
                       [] job[j].pc = "dualWrite"  -> Of(d, chunks) \cup job[j].new
                       [] OTHER                    -> Of(d, chunks)

StoreInv ==
    /\ \A j \in Requests : job[j].pc # "off" => ~job[j].full
    /\ \A j \in Requests : job[j].pc # "off" /\ LiveFile(job[j].doc) => Balanced(j)
    /\ \A d \in Requests : LiveFile(d) /\ (\A j \in Running : job[j].doc # d) =>
          Of(d, vectors) = Of(d, chunks)

LEMMA StoresBalanced == StoreInv => StoresAgree
BY DEF StoreInv, StoresAgree, LiveFile

LEMMA InitStoreInv == Init => StoreInv
<1>1. Init => /\ \A j \in Requests : job[j].pc = "off"
              /\ \A d \in Requests : ~docs[d].live
    BY Fields DEF Init
<1>2. QED
    BY <1>1 DEF StoreInv, LiveFile

\* Only Create writes a new row.
LEMMA RequestKeepsRows ==
    ASSUME ShapeInv, NEW r \in Requests, RequestRow(r), Begin(r) \/ Serve(r), ~Create(r)
    PROVE  RowsKept
<1> USE SameRowsKept DEF dbVars, RequestRow, NamedPCs, ReindexPCs
<1>1. CASE Begin(r)
    BY <1>1, BeginStep
<1>2. CASE Dedupe(r) \/ Find(r) \/ CountUp(r) \/ Publish(r)
    BY <1>2 DEF Dedupe, Find, CountUp, IncrementCounts, Publish
<1>3. CASE Prepare(r) \/ MarkUnpublished(r) \/ ResetStatus(r)
    BY <1>3, StatementKeepsRows DEF Prepare, MarkUnpublished, ResetStatus
<1>4. CASE SoftDelete(r)
    BY <1>4, StatementKeepsRows DEF SoftDelete
<1>5. CASE Wipe(r) \/ CountDown(r) \/ ClearVectors(r) \/ ClearChunks(r)
    BY <1>5 DEF Wipe, CountDown, IncrementCounts, ClearVectors, ClearChunks
<1>6. CASE Republish(r) \/ Fetch(r)
    BY <1>6 DEF Republish, Fetch
<1>7. QED
    BY <1>1, <1>2, <1>3, <1>4, <1>5, <1>6 DEF Serve

\* Handlers remove chunks only of deleted documents and of pages.
LEMMA RequestKeepsFileChunks ==
    ASSUME ShapeInv, NEW r \in Requests, RequestRow(r), Begin(r) \/ Serve(r),
           NEW d \in Requests, LiveFile(d)
    PROVE  Of(d, vectors)' = Of(d, vectors) /\ Of(d, chunks)' = Of(d, chunks)
<1>1. CASE chunks' = chunks /\ vectors' = vectors
    BY <1>1 DEF Of
<1>2. CASE Wipe(r) \/ ClearVectors(r) \/ ClearChunks(r)
    <2>1. d # req[r].doc
        BY <1>2, SourcesAssumption
           DEF Wipe, ClearVectors, ClearChunks, RequestRow, LiveFile, ReindexPCs
    <2>2. \A S : Of(d, DeleteByKnowledgeID(req[r].doc, S)) = Of(d, S)
        BY <2>1 DEF DeleteByKnowledgeID, Of
    <2>3. /\ vectors' = vectors \/ vectors' = DeleteByKnowledgeID(req[r].doc, vectors)
          /\ chunks' = chunks \/ chunks' = DeleteByKnowledgeID(req[r].doc, chunks)
        BY <1>2 DEF Wipe, ClearVectors, ClearChunks
    <2>4. Of(d, vectors') = Of(d, vectors) /\ Of(d, chunks') = Of(d, chunks)
        BY <2>2, <2>3
    <2>5. QED
        BY <2>4 DEF Of
<1>3. QED
    BY <1>1, <1>2, BeginStep
       DEF Serve, Dedupe, Find, Create, CountUp, Prepare, Publish, MarkUnpublished,
           SoftDelete, CountDown, ResetStatus, Republish, Fetch, indexVars

\* The only run a handler starts is that of a page.
LEMMA RequestKeepsRuns ==
    ASSUME Undisturbed, NEW r \in Requests, Begin(r) \/ Serve(r)
    PROVE  \A j \in Requests :
              \/ job'[j] = job[j] \/ (job[j].pc = "off" /\ job'[j].pc = "off")
              \/ /\ job[j].pc = "off" /\ job'[j].doc \in Requests
                 /\ docs[job'[j].doc].source \in Pages /\ ~job'[j].full /\ docs' = docs
<1>0. Inv /\ ShapeInv /\ RequestRow(r) /\ PipelineInv
    BY DEF Undisturbed, Inv, RowInv
<1>1. CASE Begin(r)
    <2>1. req[r].pc = "new" /\ (job' = job \/ \E n : job' = [job EXCEPT ![r].prev = n])
        BY <1>0, <1>1, BeginStep
    <2>2. job[r].pc = "off"
        BY <1>0, <2>1, WorkerIsAccepted DEF PipelineInv
    <2>3. QED
        BY <1>0, <2>1, <2>2, Fields DEF ShapeInv
<1>2. CASE Fetch(r)
    <2> DEFINE run == [NoJob EXCEPT !.pc = "syncStart", !.doc = req[r].doc,
                         !.source = docs[req[r].doc].source, !.replace = TRUE,
                         !.content = page[docs[req[r].doc].source], !.prev = job[r].prev]
    <2>1. run.doc = req[r].doc /\ ~run.full
        BY Fields
    <2>2. /\ job' = [job EXCEPT ![r] = NoJob] \/ job' = [job EXCEPT ![r] = run]
          /\ req[r].pc = "fetch" /\ docs' = docs
        BY <1>2 DEF Fetch, dbVars
    <2>3. req[r].doc \in Requests /\ docs[req[r].doc].source \in Pages
        BY <1>0, <2>2 DEF RequestRow, NamedPCs
    <2>4. job[r].pc = "off"
        BY <1>0, <2>2, WorkerIsAccepted DEF PipelineInv
    <2> HIDE DEF run
    <2>5. QED
        BY <1>0, <2>1, <2>2, <2>3, <2>4, Fields DEF ShapeInv
<1>3. CASE job' = job
    BY <1>3
<1>4. QED
    BY <1>1, <1>2, <1>3
       DEF Serve, Dedupe, Find, Create, CountUp, Prepare, Publish, MarkUnpublished,
           SoftDelete, Wipe, CountDown, ClearVectors, ClearChunks, ResetStatus, Republish

LEMMA RequestKeepsStoreInv ==
    ASSUME Undisturbed, StoreInv, NEW r \in Requests, Begin(r) \/ Serve(r)
    PROVE  StoreInv'
<1>0. RowInv /\ ShapeInv /\ RequestRow(r) /\ \A j \in Requests : RunRow(j)
    BY DEF Undisturbed, RowInv
<1>1. \A j \in Requests : job'[j].pc # "off" => ~job'[j].full
    BY <1>0, RequestKeepsRuns DEF StoreInv
<1>2. CASE Creates(r)
    <2>1. /\ UNCHANGED <<job, chunks, vectors>> /\ ~Made(r)
          /\ \A x \in Requests \ {r} : docs'[x] = docs[x]
        BY <1>0, <1>2 DEF Creates, RequestRow, UnnamedPCs, indexVars, ShapeInv
    <2>2. \A j \in Requests : job[j].pc # "off" => job[j].doc \in Requests \ {r}
        BY <1>0, <2>1 DEF RunRow
    <2>3. Of(r, vectors) = {} /\ Of(r, chunks) = {}
        BY <1>0, <2>1 DEF RowInv, ChunkRows, Of
    <2>4. \A j \in Requests : job'[j].pc # "off" /\ LiveFile(job[j].doc)' => Balanced(j)'
        BY <2>1, <2>2 DEF StoreInv, LiveFile, Balanced, Of
    <2>5. \A d \in Requests : LiveFile(d)' /\ (\A j \in Running' : job'[j].doc # d) =>
              Of(d, vectors)' = Of(d, chunks)'
        BY <2>1, <2>3 DEF StoreInv, LiveFile, Running, Of
    <2>6. QED
        BY <1>1, <2>4, <2>5 DEF StoreInv
<1>3. CASE ~Create(r)
    <2>1. \A d \in Requests : LiveFile(d)' => LiveFile(d)
        BY <1>0, <1>3, RequestKeepsRows DEF RowsKept, LiveFile
    <2>2. ASSUME NEW j \in Requests, job'[j].pc # "off", LiveFile(job[j].doc)'
          PROVE  Balanced(j)'
        <3>1. CASE job'[j] = job[j]
            <4>1. job[j].doc \in Requests /\ LiveFile(job[j].doc)
                BY <1>0, <2>1, <2>2, <3>1 DEF RunRow, LiveFile
            <4>2. PICK d \in Requests : d = job[j].doc
                BY <4>1
            <4>3. Of(d, vectors)' = Of(d, vectors) /\ Of(d, chunks)' = Of(d, chunks)
                BY <1>0, <4>1, <4>2, RequestKeepsFileChunks
            <4>4. Balanced(j)
                BY <2>2, <3>1, <4>1 DEF StoreInv
            <4>5. QED
                BY <3>1, <4>2, <4>3, <4>4 DEF Balanced, Of
        <3>2. CASE docs[job'[j].doc].source \in Pages /\ docs' = docs
            BY <2>2, <3>2, SourcesAssumption DEF LiveFile
        <3>3. QED
            BY <2>2, <3>1, <3>2, RequestKeepsRuns
    <2>3. ASSUME NEW d \in Requests, LiveFile(d)', \A j \in Running' : job'[j].doc # d
          PROVE  Of(d, vectors)' = Of(d, chunks)'
        <3>1. \A j \in Running : job[j].doc # d
            BY <2>3, RequestKeepsRuns DEF Running
        <3>2. QED
            BY <1>0, <2>1, <2>3, <3>1, RequestKeepsFileChunks DEF StoreInv
    <2>4. QED
        BY <1>1, <2>2, <2>3 DEF StoreInv
<1>4. QED
    BY <1>2, <1>3 DEF Create, Creates, Undisturbed

\* A run touches only its own document's chunks.
LEMMA WorkElsewhere ==
    ASSUME ShapeInv, NEW j \in Requests, RunRow(j), Work(j), ~job[j].full,
           NEW d \in Requests, d # job[j].doc
    PROVE  Of(d, vectors)' = Of(d, vectors) /\ Of(d, chunks)' = Of(d, chunks)
<1>1. CASE DropVectors(j) \/ DropChunks(j)
    <2>1. job[j].pc # "off" /\ \A S : Dropped(j, S) = job[j].drop
        BY <1>1 DEF DropVectors, DropChunks, Dropped
    <2>2. \A S : Of(d, S \ job[j].drop) = Of(d, S)
        BY <2>1 DEF RunRow, Of
    <2>3. /\ vectors' = vectors \/ vectors' = vectors \ job[j].drop
          /\ chunks' = chunks \/ chunks' = chunks \ job[j].drop
        BY <1>1, <2>1 DEF DropVectors, DropChunks
    <2>4. Of(d, vectors') = Of(d, vectors) /\ Of(d, chunks') = Of(d, chunks)
        BY <2>2, <2>3
    <2>5. QED
        BY <2>4 DEF Of
<1>2. CASE Store(j) \/ DualWrite(j)
    <2>1. vectors \subseteq vectors' /\ chunks \subseteq chunks'
        BY <1>2 DEF Store, DualWrite
    <2>2. \A x \in chunks' \cup vectors' : x \in chunks \cup vectors \/ x.doc = job[j].doc
        BY WorkAddsOwnChunks
    <2>3. \A x \in NewChunks(j) : x.doc = job[j].doc
        BY DEF NewChunks
    <2>4. vectors' \subseteq vectors \cup NewChunks(j) /\ chunks' \subseteq chunks \cup job[j].new
        BY <1>2 DEF Store, DualWrite, Partly
    <2>5. \A x \in job[j].new : x.doc = job[j].doc
        BY <1>2 DEF RunRow, Store, DualWrite
    <2>6. QED
        BY <2>1, <2>3, <2>4, <2>5 DEF Of
<1>3. CASE chunks' = chunks /\ vectors' = vectors
    BY <1>3 DEF Of
<1>4. QED
    BY <1>1, <1>2, <1>3
       DEF Work, Load, SyncStart, ReadOld, WriteHash, MarkEnrichment, Cleanup, ReadPrevious,
           Complete, AddChunks, MarkFailed, End, indexVars

\* Each step of a run leaves the stores of its document as Balanced says.
LEMMA WorkBalances ==
    ASSUME Undisturbed, NEW j \in Requests, Work(j), ~End(j), ~job[j].full
    PROVE  (Balanced(j) => Balanced(j)') /\ ~job'[j].full
<1>0. ShapeInv /\ RunRow(j) /\ job'[j].doc = job[j].doc
    <2>1. ShapeInv /\ RunRow(j)
        BY DEF Undisturbed, RowInv
    <2>2. QED
        BY <2>1, WorkIsRun DEF RunGoesOn
<1> DEFINE d == job[j].doc
           Plainly == job[j].pc \notin {"dropChunks", "dualWrite"}
<1>1. ASSUME Plainly, job'[j].pc \notin {"dropChunks", "dualWrite"},
             UNCHANGED <<chunks, vectors>>
      PROVE  Balanced(j) => Balanced(j)'
    BY <1>0, <1>1 DEF Balanced, Of
<1>2. CASE Load(j)
    <2> DEFINE c == IF job[j].source \in Pages THEN page[job[j].source] ELSE files[j]
    <2>1. \/ Fail(j, 0)
          \/ job' = [job EXCEPT ![j].pc = "syncStart", ![j].content = c]
          \/ job' = [job EXCEPT ![j].pc = "store", ![j].content = c,
                        ![j].add = ChunksOf(c), ![j].count = Cardinality(ChunksOf(c))]
        BY <1>2 DEF Load
    <2>2. job'[j].pc \in {"cleanup", "syncStart", "store"} /\ job'[j].full = job[j].full
        BY <1>0, <2>1, Fields DEF ShapeInv, Fail
    <2>3. QED
        BY <1>1, <1>2, <2>2 DEF Load, indexVars
<1>3. CASE SyncStart(j)
    <2>1. Step(j, "readOld")
        BY <1>3 DEF SyncStart, Undisturbed
    <2>2. job'[j].pc = "readOld" /\ job'[j].full = job[j].full
        BY <1>0, <2>1, Fields DEF ShapeInv, Step
    <2>3. QED
        BY <1>1, <1>3, <2>2 DEF SyncStart, indexVars
<1>4. CASE ReadOld(j)
    <2>1. ASSUME NEW p, NEW drop, NEW add, NEW n,
                 job' = [job EXCEPT ![j] = [@ EXCEPT !.pc = p, !.drop = drop, !.add = add,
                                                     !.count = n]]
          PROVE  job'[j].full = job[j].full /\ job'[j].pc = p
        BY <1>0, <2>1, Fields DEF ShapeInv
    <2>2. PICK retained \in SUBSET Of(d, chunks) :
            LET texts == Plain[job[j].content]
                add   == texts \ TextsOf(Of(d, chunks))
                drop  == Of(d, chunks) \ retained IN
            job' = [job EXCEPT ![j] = [@ EXCEPT
                       !.pc = IF drop # {} THEN "dropVectors"
                              ELSE IF add # {} THEN "store" ELSE "hash",
                       !.drop = drop, !.add = add, !.count = Cardinality(texts)]]
        BY <1>4 DEF ReadOld, Undisturbed
    <2>3. job'[j].full = job[j].full /\ job'[j].pc \in {"dropVectors", "store", "hash"}
        BY <2>1, <2>2
    <2>4. QED
        BY <1>1, <1>4, <2>3 DEF ReadOld, indexVars
<1>5. CASE DropVectors(j)
    <2>1. /\ vectors' = vectors \ job[j].drop /\ chunks' = chunks
          /\ Step(j, "dropChunks") /\ job[j].pc = "dropVectors"
        BY <1>5 DEF DropVectors, Dropped, Undisturbed
    <2>2. /\ job'[j].pc = "dropChunks" /\ job'[j].full = job[j].full
          /\ job'[j].drop = job[j].drop
        BY <1>0, <2>1, Fields DEF ShapeInv, Step
    <2>3. Balanced(j) => Of(d, vectors) = Of(d, chunks)
        BY <2>1 DEF Balanced
    <2>4. QED
        BY <1>0, <2>1, <2>2, <2>3 DEF Balanced, Of
<1>6. CASE DropChunks(j)
    <2>1. /\ chunks' = chunks \ job[j].drop /\ vectors' = vectors /\ job[j].pc = "dropChunks"
          /\ job' = [job EXCEPT ![j].pc = IF job[j].add = {} THEN "hash" ELSE "store",
                                ![j].drop = {}]
        BY <1>6 DEF DropChunks, Dropped, Undisturbed
    <2>2. job'[j].pc \in {"hash", "store"} /\ job'[j].full = job[j].full
        BY <1>0, <2>1, Fields DEF ShapeInv
    <2>3. Balanced(j) => Of(d, vectors) = Of(d, chunks) \ job[j].drop
        BY <2>1 DEF Balanced
    <2>4. QED
        BY <1>0, <2>1, <2>2, <2>3 DEF Balanced, Of
<1>7. CASE Store(j)
    <2>1. /\ vectors' = vectors \cup NewChunks(j) /\ chunks' = chunks /\ job[j].pc = "store"
          /\ job' = [job EXCEPT ![j].pc = "dualWrite", ![j].new = NewChunks(j), ![j].add = {}]
        BY <1>7 DEF Store, Undisturbed
    <2>2. /\ job'[j].pc = "dualWrite" /\ job'[j].full = job[j].full
          /\ job'[j].new = NewChunks(j)
        BY <1>0, <2>1, Fields DEF ShapeInv
    <2>3. Balanced(j) => Of(d, vectors) = Of(d, chunks)
        BY <2>1 DEF Balanced
    <2>4. \A x \in NewChunks(j) : x.doc = d
        BY DEF NewChunks
    <2>5. QED
        BY <1>0, <2>1, <2>2, <2>3, <2>4 DEF Balanced, Of
<1>8. CASE DualWrite(j)
    <2>1. /\ chunks' = chunks \cup job[j].new /\ vectors' = vectors /\ job[j].pc = "dualWrite"
          /\ job' = [job EXCEPT ![j].pc = IF ~job[j].replace /\ DocReader THEN "enrichment"
                                                                    ELSE "hash",
                                ![j].new = {}]
        BY <1>8 DEF DualWrite, Undisturbed
    <2>2. job'[j].pc \in {"enrichment", "hash"} /\ job'[j].full = job[j].full
        BY <1>0, <2>1, Fields DEF ShapeInv
    <2>3. Balanced(j) => Of(d, vectors) = Of(d, chunks) \cup job[j].new
        BY <2>1 DEF Balanced
    <2>4. \A x \in job[j].new : x.doc = d
        BY <1>0, <2>1 DEF RunRow
    <2>5. QED
        BY <1>0, <2>1, <2>2, <2>3, <2>4 DEF Balanced, Of
<1>9. CASE WriteHash(j) \/ MarkEnrichment(j) \/ Cleanup(j) \/ Complete(j) \/ AddChunks(j)
           \/ MarkFailed(j)
    <2>1. PICK p \in {"cleanup", "enrichment", "markFailed", "previous", "addChunks", "ack"} :
            Step(j, p)
        BY <1>9 DEF WriteHash, MarkEnrichment, Cleanup, Complete, AddChunks, MarkFailed
    <2>2. job'[j].pc = p /\ job'[j].full = job[j].full
        BY <1>0, <2>1, Fields DEF ShapeInv, Step
    <2>3. QED
        BY <1>1, <1>9, <2>2
           DEF WriteHash, MarkEnrichment, Cleanup, Complete, AddChunks, MarkFailed, indexVars
<1>10. CASE ReadPrevious(j)
    <2>1. PICK n : job' = [job EXCEPT ![j].pc = "complete", ![j].prev = n]
        BY <1>10 DEF ReadPrevious, Undisturbed
    <2>2. job'[j].pc = "complete" /\ job'[j].full = job[j].full
        BY <1>0, <2>1, Fields DEF ShapeInv
    <2>3. QED
        BY <1>1, <1>10, <2>2 DEF ReadPrevious, indexVars
<1>11. QED
    BY <1>2, <1>3, <1>4, <1>5, <1>6, <1>7, <1>8, <1>9, <1>10 DEF Work

\* A run leaves the stores of every live file as it found them, or balanced.
LEMMA WorkKeepsStoreInv ==
    ASSUME Undisturbed, StoreInv, NEW j \in Requests, Work(j) PROVE StoreInv'
<1>0. /\ ShapeInv /\ PipelineInv /\ \A x \in Requests : RunRow(x)
      /\ job[j].pc # "off" /\ ~job[j].full /\ job[j].doc \in Requests
      /\ \A x \in Requests \ {j} : job'[x] = job[x]
    <2>1. ShapeInv /\ PipelineInv /\ (\A x \in Requests : RunRow(x))
        BY DEF Undisturbed, Inv, RowInv
    <2>2. job[j].pc # "off" /\ \A x \in Requests \ {j} : job'[x] = job[x]
        BY <2>1, WorkGoesOn
    <2>3. QED
        BY <2>1, <2>2 DEF RunRow, StoreInv
<1>1. \A d \in Requests : LiveFile(d)' => LiveFile(d)
    BY <1>0, WorkKeepsRows DEF RowsKept, LiveFile
<1>2. ASSUME NEW x \in Requests \ {j}, job'[x].pc # "off", LiveFile(job[x].doc)'
      PROVE  ~job'[x].full /\ Balanced(x)'
    <2>1. job'[x] = job[x] /\ job[x].doc \in Requests /\ LiveFile(job[x].doc)
        BY <1>0, <1>1, <1>2 DEF RunRow, LiveFile
    <2>2. PICK d \in Requests : d = job[x].doc
        BY <2>1
    <2>3. worker = x
        BY <1>0, <1>2, <2>1, SourcesAssumption DEF RunRow, LiveFile
    <2>4. d # job[j].doc
        BY <1>0, <2>1, <2>2, <2>3, SourcesAssumption DEF RunRow, LiveFile
    <2>5. Of(d, vectors)' = Of(d, vectors) /\ Of(d, chunks)' = Of(d, chunks)
        BY <1>0, <2>2, <2>4, WorkElsewhere
    <2>6. Balanced(x) /\ ~job[x].full
        BY <1>2, <2>1 DEF StoreInv
    <2>7. QED
        BY <2>1, <2>2, <2>5, <2>6 DEF Balanced, Of
<1>3. ASSUME job'[j].pc # "off"
      PROVE  ~job'[j].full /\ (LiveFile(job[j].doc)' => Balanced(j)')
    <2>1. ~End(j)
        BY <1>0, <1>3, Fields DEF End, ShapeInv
    <2>2. job'[j].doc = job[j].doc
        BY <1>0, <2>1, WorkIsRun DEF RunGoesOn
    <2>3. LiveFile(job[j].doc)' => LiveFile(job[j].doc)
        BY <1>0, <1>1, <2>2 DEF LiveFile
    <2>4. LiveFile(job[j].doc) => Balanced(j)
        BY <1>0 DEF StoreInv
    <2>5. QED
        BY <1>0, <2>1, <2>3, <2>4, WorkBalances
<1>4. ASSUME NEW d \in Requests, LiveFile(d)', \A x \in Running' : job'[x].doc # d
      PROVE  Of(d, vectors)' = Of(d, chunks)'
    <2>1. CASE d = job[j].doc
        <3>1. job'[j].pc = "off"
            <4>1. CASE RunGoesOn(j)
                BY <1>4, <2>1, <4>1 DEF RunGoesOn, Running
            <4>2. CASE End(j)
                BY <1>0, <4>2, Fields DEF End, ShapeInv
            <4>3. QED
                BY <1>0, <4>1, <4>2, WorkIsRun
        <3>2. End(j)
            BY <1>0, <3>1, WorkOrder DEF EarlyPCs
        <3>3. job[j].pc = "ack" /\ UNCHANGED <<vectors, chunks>>
            BY <3>2 DEF End, indexVars
        <3>4. Balanced(j)
            BY <1>0, <1>1, <1>4, <2>1 DEF StoreInv
        <3>5. Of(d, vectors) = Of(d, chunks)
            BY <2>1, <3>3, <3>4 DEF Balanced
        <3>6. QED
            BY <3>3, <3>5 DEF Of
    <2>2. CASE d # job[j].doc
        <3>1. \A x \in Running : job[x].doc # d
            BY <1>0, <1>4, <2>2 DEF Running
        <3>2. Of(d, vectors) = Of(d, chunks)
            BY <1>1, <1>4, <3>1 DEF StoreInv
        <3>3. QED
            BY <1>0, <2>2, <3>2, WorkElsewhere
    <2>3. QED
        BY <2>1, <2>2
<1>5. \A x \in Requests \ {j} : job'[x].pc # "off" => ~job'[x].full
    BY <1>0 DEF StoreInv
<1>6. QED
    BY <1>2, <1>3, <1>4, <1>5 DEF StoreInv

\* A run begins where the stores agree.
LEMMA TakeKeepsStoreInv == ASSUME Undisturbed, StoreInv, Take PROVE StoreInv'
<1>0. /\ ShapeInv /\ PipelineInv /\ (\A x \in Requests : RunRow(x)) /\ worker = None
      /\ UNCHANGED <<chunks, vectors>>
    BY DEF Undisturbed, Inv, RowInv, Take, indexVars
<1>1. PICK t : /\ t = Head(queue) /\ queue # <<>> /\ UpdateParseStatus(t.doc, "processing", 0)
               /\ job' = [job EXCEPT ![t.id] = [NoJob EXCEPT !.pc = "load", !.doc = t.doc,
                                            !.source = t.source, !.replace = t.replace]]
    BY DEF Undisturbed, Take
<1> DEFINE run == [NoJob EXCEPT !.pc = "load", !.doc = t.doc, !.source = t.source,
                                !.replace = t.replace]
<1>2. run.pc = "load" /\ ~run.full /\ run.doc = t.doc
    BY Fields
<1>3. job' = [job EXCEPT ![t.id] = run]
    BY <1>1
<1> HIDE DEF run
<1>4. t.doc \in Requests /\ t.id \in Requests /\ Made(t.doc)
    <2>1. PICK S : queue \in Seq(S)
        BY <1>0 DEF PipelineInv
    <2>2. t = queue[1] /\ 1 \in DOMAIN queue
        BY <1>1, <2>1
    <2>3. QED
        BY <1>0, <2>2 DEF PipelineInv, Undisturbed, RowInv, TaskRows
<1>5. RowsKept
    BY <1>0, <1>1, <1>4, StatementKeepsRows
<1>6. \A d \in Requests : LiveFile(d)' => LiveFile(d)
    BY <1>5 DEF RowsKept, LiveFile
<1>7. \A x \in Requests : job[x].pc # "off" => ~LiveFile(job[x].doc) /\ job[x].doc \in Requests
    BY <1>0, NoneAssumption, SourcesAssumption DEF RunRow, LiveFile
<1>8. \A d \in Requests : LiveFile(d)' => Of(d, vectors)' = Of(d, chunks)'
    BY <1>0, <1>6, <1>7 DEF StoreInv, Running, Of
<1>9. \A x \in Requests \ {t.id} : job'[x] = job[x]
    BY <1>0, <1>3 DEF PipelineInv
<1>10. PICK k \in Requests : k = t.id
    BY <1>4
<1>11. job'[k] = run
    BY <1>0, <1>3, <1>10 DEF PipelineInv
<1>12. \A x \in Requests : job'[x].pc # "off" => ~job'[x].full
    BY <1>2, <1>9, <1>10, <1>11 DEF StoreInv
<1>13. LiveFile(job[k].doc)' => Balanced(k)'
    BY <1>2, <1>4, <1>8, <1>11 DEF Balanced, LiveFile, Of
<1>14. \A x \in Requests \ {k} : job'[x].pc # "off" => ~LiveFile(job[x].doc)'
    BY <1>6, <1>7, <1>9, <1>10 DEF LiveFile
<1>15. QED
    BY <1>8, <1>12, <1>13, <1>14 DEF StoreInv

LEMMA SameKeepsStoreInv ==
    ASSUME StoreInv, UNCHANGED <<docs, chunks, vectors, job>> PROVE StoreInv'
BY DEF StoreInv, Balanced, LiveFile, Running, Of

(*************************************************************************)
(* The calm invariant                                                    *)
(*************************************************************************)

CalmInv == CounterInv /\ (Calm => FileOwnerInv /\ SettlerInv /\ StoreInv)

LEMMA InitCalmInv == Init => CalmInv
<1>1. Init => CounterInv
    BY DEF Init, CounterInv
<1>2. QED
    BY <1>1, InitFileOwnerInv, InitSettlerInv, InitStoreInv DEF CalmInv

LEMMA SameKeepsCalmInv ==
    ASSUME FileOwnerInv, SettlerInv, StoreInv,
           UNCHANGED <<docs, chunks, vectors, files, queue, worker, req, job>>
    PROVE  FileOwnerInv' /\ SettlerInv' /\ StoreInv'
<1>1. FileOwnerInv'
    BY DEF FileOwnerInv, Queued
<1>2. SettlerInv'
    BY DEF SettlerInv, HasSettler, ByRequest, ByTask, ByRun, Unsettled
<1>3. QED
    BY <1>1, <1>2, SameKeepsStoreInv

LEMMA NextKeepsCalmInv == Inv /\ RowInv /\ CalmInv /\ [Next]_vars => CalmInv'
<1> SUFFICES ASSUME Inv, RowInv, CalmInv, [Next]_vars PROVE CalmInv'
    OBVIOUS
<1>1. CounterInv'
    BY CalmStep DEF CalmInv
<1>2. ASSUME Calm' PROVE FileOwnerInv' /\ SettlerInv' /\ StoreInv'
    <2>1. /\ Undisturbed /\ FileOwnerInv /\ SettlerInv /\ StoreInv
          /\ \/ \E r \in Requests : Begin(r) \/ Serve(r) \/ Work(r)
             \/ Take
             \/ \E s \in Pages : ChangePage(s)
             \/ UNCHANGED vars
        BY <1>2, CalmStep DEF CalmInv, Undisturbed
    <2>2. ASSUME NEW r \in Requests, Begin(r) \/ Serve(r)
          PROVE  FileOwnerInv' /\ SettlerInv' /\ StoreInv'
        BY <2>1, <2>2, RequestKeepsFileOwnerInv, RequestKeepsSettlerInv, RequestKeepsStoreInv
    <2>3. ASSUME NEW j \in Requests, Work(j)
          PROVE  FileOwnerInv' /\ SettlerInv' /\ StoreInv'
        BY <2>1, <2>3, WorkKeepsFileOwnerInv, WorkKeepsSettlerInv, WorkKeepsStoreInv
    <2>4. CASE Take
        BY <2>1, <2>4, TakeKeepsFileOwnerInv, TakeKeepsSettlerInv, TakeKeepsStoreInv
    <2>5. CASE (\E s \in Pages : ChangePage(s)) \/ UNCHANGED vars
        BY <2>1, <2>5, SameKeepsCalmInv
           DEF ChangePage, vars, dbVars, indexVars, taskVars
    <2>6. QED
        BY <2>1, <2>2, <2>3, <2>4, <2>5
<1>3. QED
    BY <1>1, <1>2 DEF CalmInv

LEMMA CalmInvariance == Spec => [](Inv /\ RowInv /\ CalmInv)
<1>1. Spec => []CalmInv
    BY InitCalmInv, NextKeepsCalmInv, RowInvariance, PTL DEF Spec
<1>2. QED
    BY <1>1, RowInvariance, PTL

\* As long as no call has failed and the process runs, no temporary file outlives
\* both its request and its task: the duplicate's early return, the refused upload
\* and the worker each remove it, in whichever order requests and the worker act.
THEOREM CalmFilesAreOwned == Spec => [](Calm => FilesAreOwned)
<1>1. Inv /\ RowInv /\ CalmInv => (Calm => FilesAreOwned)
    BY OwnedFiles DEF CalmInv
<1>2. QED
    BY <1>1, CalmInvariance, PTL

\* As long as no call has failed and the process runs, a document shown as pending
\* or processing has a request, a task or a run that will still settle it, also
\* where uploads, reindexing and syncs of one document overlap.
THEOREM CalmUnsettledHasOwner == Spec => [](Calm => UnsettledHasOwner)
<1>1. Inv /\ RowInv /\ CalmInv => (Calm => UnsettledHasOwner)
    BY SettlersOwn DEF CalmInv
<1>2. QED
    BY <1>1, CalmInvariance, PTL

\* As long as no call has failed and the process runs, the double write leaves the
\* vector store and table chunks with the same chunks of a live file, for uploads
\* and deletions that overlap in any way.
THEOREM CalmStoresAgree == Spec => [](Calm => StoresAgree)
<1>1. Inv /\ RowInv /\ CalmInv => (Calm => StoresAgree)
    BY StoresBalanced DEF CalmInv
<1>2. QED
    BY <1>1, CalmInvariance, PTL

(*************************************************************************)
(* DocCountRight, where requests come one at a time                      *)
(*************************************************************************)

Live == {d \in Requests : docs[d].live}

\* By how much document_count is ahead of the rows while request r is at its step.
Ahead(r) == CASE req[r].pc = "count"                   -> -1
              [] req[r].pc \in {"wipe", "countDown"} -> 1
              [] OTHER                               -> 0

\* The row that is about to be deleted is live: no other request can delete it first.
CountsWith(r) ==
    /\ Active = {r}
    /\ kb.docs = Cardinality(Live) + Ahead(r)
    /\ req[r].pc = "softDelete" => req[r].doc \in Live

CountInv ==
    /\ IsFiniteSet(Live)
    /\ \/ Active = {} /\ kb.docs = Cardinality(Live)
       \/ \E r \in Requests : CountsWith(r)

LEMMA CountedRight == CountInv => DocCountRight
BY DEF CountInv, CountsWith, DocCountRight, Live

LEMMA InitCountInv == Init => CountInv
<1> SUFFICES ASSUME Init PROVE CountInv
    OBVIOUS
<1>1. Live = {} /\ Active = {}
    BY Fields DEF Init, Live, Active
<1>2. kb.docs = 0
    BY DEF Init
<1>3. QED
    BY <1>1, <1>2, FS_EmptySet DEF CountInv

\* A request r that takes a step while all others are idle.
LEMMA ActiveAfter ==
    ASSUME NEW r \in Requests, Active \subseteq {r},
           \A x \in Requests \ {r} : req'[x] = req[x]
    PROVE  Active' = IF req'[r].pc \in Over \cup {"new"} THEN {} ELSE {r}
BY DEF Active

LEMMA BeginKeepsCountInv ==
    ASSUME MaxActive = 1, ShapeInv, CountInv, NEW r \in Requests, Begin(r) PROVE CountInv'
<1>1. /\ MayStart /\ UNCHANGED <<docs, kb>>
      /\ \A x \in Requests \ {r} : req'[x] = req[x]
      /\ \/ req'[r].pc \in {"dedupe", "find", "clearVectors", "fetch"}
         \/ req'[r].pc = "softDelete" /\ req'[r].doc \in Live
    BY BeginStep DEF dbVars, Live
<1>2. Active = {}
    <2>1. ~(Cardinality(Active) = 1)
        BY <1>1 DEF MayStart
    <2>2. \A x : Active # {x}
        BY <2>1, FS_Singleton
    <2>3. QED
        BY <2>2 DEF CountInv, CountsWith
<1>3. Active' = {r}
    BY <1>1, <1>2, ActiveAfter DEF Over, Answers
<1>4. kb.docs = Cardinality(Live) /\ Live' = Live /\ IsFiniteSet(Live)
    BY <1>1, <1>2 DEF CountInv, CountsWith, Live
<1>5. Ahead(r)' = 0
    BY <1>1 DEF Ahead
<1>6. kb.docs \in Int
    BY <1>4, FS_CardinalityType
<1>7. CountsWith(r)'
    BY <1>1, <1>3, <1>4, <1>5, <1>6 DEF CountsWith
<1>8. QED
    BY <1>4, <1>7 DEF CountInv

\* The steps of a request that neither count nor delete.
PlainPCs == (UploadPCs \ {"count"}) \cup ReindexPCs \cup {"fetch", "markFailed"}

\* What one step of a handler does to the rows and to document_count.
LEMMA ServeCounts ==
    ASSUME Undisturbed, NEW r \in Requests, Serve(r)
    PROVE  /\ \A x \in Requests \ {r} : req'[x] = req[x]
           /\ \/ /\ req[r].pc = "create" /\ req'[r].pc = "count"
                 /\ r \notin Live /\ Live' = Live \cup {r} /\ kb' = kb
              \/ /\ req[r].pc = "count" /\ req'[r].pc = "publish"
                 /\ Live' = Live /\ kb'.docs = kb.docs + 1
              \/ /\ req[r].pc = "softDelete" /\ req'[r].pc = "wipe"
                 /\ Live' = Live \ {req[r].doc} /\ kb' = kb
              \/ /\ req[r].pc = "wipe" /\ req'[r].pc = "countDown"
                 /\ Live' = Live /\ kb' = kb
              \/ /\ req[r].pc = "countDown" /\ req'[r].pc \in Over
                 /\ Live' = Live /\ kb'.docs = kb.docs + (-1)
              \/ /\ req[r].pc \in PlainPCs /\ req'[r].pc \in PlainPCs \cup Over
                 /\ Live' = Live /\ kb' = kb
<1>0. ShapeInv /\ RequestRow(r) /\ ~Fault /\ Inv /\ PipelineInv /\ RequestInv
    BY DEF Undisturbed, RowInv, Inv
<1>1. ASSUME NEW p, Goto(r, p) PROVE req'[r].pc = p
    BY <1>0, <1>1, GotoKeepsShape
<1>2. ASSUME NEW a, Answer(r, a) PROVE req'[r].pc = a
    BY <1>0, <1>2, Fields DEF Answer, ShapeInv
<1>3. \A x \in Requests \ {r} : req'[x] = req[x]
    BY <1>0, ServeMovesOrPublishes DEF Moves, Publishes
<1>4. ASSUME docs' = docs PROVE Live' = Live
    BY <1>4 DEF Live
<1>5. ASSUME NEW d \in Requests, NEW s, NEW n, UpdateParseStatus(d, s, n)
      PROVE  Live' = Live
    BY <1>0, <1>5, Fields DEF UpdateParseStatus, Live, ShapeInv
<1> USE DEF dbVars, PlainPCs, UploadPCs, ReindexPCs, Over, Answers
<1>6. CASE Dedupe(r)
    <2>1. ASSUME NEW d, NEW c,
                 req' = [req EXCEPT ![r] = [NoReq EXCEPT !.pc = "duplicate", !.doc = d,
                                                         !.content = c]]
          PROVE  req'[r].pc = "duplicate"
        BY <1>0, <2>1, Fields DEF ShapeInv
    <2>2. \/ Goto(r, "find")
          \/ \E d, c : req' = [req EXCEPT ![r] =
                          [NoReq EXCEPT !.pc = "duplicate", !.doc = d, !.content = c]]
        BY <1>0, <1>6 DEF Dedupe
    <2>3. req'[r].pc \in {"find", "duplicate"}
        BY <1>1, <2>1, <2>2
    <2>4. req[r].pc = "dedupe" /\ UNCHANGED <<docs, kb>>
        BY <1>6 DEF Dedupe
    <2>5. QED
        BY <1>3, <1>4, <2>3, <2>4
<1>7. CASE Find(r)
    <2>1. ASSUME NEW p, NEW d, NEW h,
                 req' = [req EXCEPT ![r].pc = p, ![r].doc = d, ![r].hash = h]
          PROVE  req'[r].pc = p
        BY <1>0, <2>1, Fields DEF ShapeInv
    <2>2. \E p \in {"create", "prepare"} : \E d, h :
              req' = [req EXCEPT ![r].pc = p, ![r].doc = d, ![r].hash = h]
        BY <1>0, <1>7 DEF Find
    <2>3. req'[r].pc \in {"create", "prepare"}
        BY <2>1, <2>2
    <2>4. req[r].pc = "find" /\ UNCHANGED <<docs, kb>>
        BY <1>7 DEF Find
    <2>5. QED
        BY <1>3, <1>4, <2>3, <2>4
<1>8. CASE Create(r)
    <2> DEFINE row == [NoDoc EXCEPT !.status = "pending", !.live = TRUE,
                                   !.source = req[r].source, !.hash = req[r].hash]
    <2>1. row.live = TRUE
        BY Fields
    <2>2. /\ docs' = [docs EXCEPT ![r] = row] /\ kb' = kb
          /\ req[r].pc = "create" /\ Goto(r, "count")
        BY <1>0, <1>8 DEF Create
    <2> HIDE DEF row
    <2>3. r \notin Live
        BY <1>0, <2>2 DEF RequestRow, UnnamedPCs, Live, Undisturbed, RowInv
    <2>4. Live' = Live \cup {r}
        BY <1>0, <2>1, <2>2 DEF Live, ShapeInv
    <2>5. QED
        BY <1>1, <1>3, <2>2, <2>3, <2>4
<1>9. CASE CountUp(r)
    <2>1. req[r].pc = "count" /\ IncrementCounts(1, 0) /\ Goto(r, "publish")
        BY <1>0, <1>9 DEF CountUp
    <2>2. docs' = docs /\ kb'.docs = kb.docs + 1
        BY <2>1 DEF IncrementCounts
    <2>3. QED
        BY <1>1, <1>3, <1>4, <2>1, <2>2
<1>10. CASE Prepare(r)
    <2>1. /\ PrepareForReplacement(req[r].doc, req[r].hash) /\ req[r].pc = "prepare"
          /\ req' = [req EXCEPT ![r].pc = "publish", ![r].replace = TRUE]
        BY <1>0, <1>10 DEF Prepare
    <2>2. req'[r].pc = "publish"
        BY <1>0, <2>1, Fields DEF ShapeInv
    <2>3. Live' = Live /\ kb' = kb
        BY <1>0, <2>1, Fields DEF PrepareForReplacement, Live, ShapeInv
    <2>4. QED
        BY <1>3, <2>1, <2>2, <2>3
<1>11. CASE Publish(r) \/ Republish(r)
    <2>1. /\ req[r].pc \in {"publish", "republish"} /\ UNCHANGED <<docs, kb>>
          /\ req' = [req EXCEPT ![r] = [NoReq EXCEPT !.pc = "accepted", !.doc = req[r].doc]]
        BY <1>0, <1>11 DEF Publish, Republish
    <2>2. req'[r].pc = "accepted"
        BY <1>0, <2>1, Fields DEF ShapeInv
    <2>3. QED
        BY <1>3, <1>4, <2>1, <2>2
<1>12. CASE MarkUnpublished(r)
    <2>1. /\ req[r].pc = "markFailed" /\ Answer(r, "error")
          /\ UpdateParseStatus(req[r].doc, "failed", 0)
        BY <1>0, <1>12 DEF MarkUnpublished
    <2>2. kb' = kb /\ Live' = Live
        BY <1>0, <1>5, <2>1 DEF UpdateParseStatus, RequestRow, NamedPCs
    <2>3. QED
        BY <1>2, <1>3, <2>1, <2>2
<1>13. CASE SoftDelete(r)
    <2>1. /\ req[r].pc = "softDelete" /\ Goto(r, "wipe") /\ kb' = kb
          /\ docs' = [docs EXCEPT ![req[r].doc].live = FALSE]
        BY <1>0, <1>13 DEF SoftDelete
    <2>2. req[r].doc \in Requests
        BY <1>0, <2>1 DEF RequestRow, NamedPCs
    <2>3. Live' = Live \ {req[r].doc}
        BY <1>0, <2>1, <2>2, Fields DEF Live, ShapeInv
    <2>4. QED
        BY <1>1, <1>3, <2>1, <2>3
<1>14. CASE Wipe(r)
    BY <1>1, <1>3, <1>4, <1>14 DEF Wipe
<1>15. CASE CountDown(r)
    <2>1. req[r].pc = "countDown" /\ IncrementCounts(-1, 0) /\ Answer(r, "done")
        BY <1>0, <1>15 DEF CountDown
    <2>2. docs' = docs /\ kb'.docs = kb.docs + (-1)
        BY <2>1 DEF IncrementCounts
    <2>3. QED
        BY <1>2, <1>3, <1>4, <2>1, <2>2
<1>16. CASE ClearVectors(r) \/ ClearChunks(r)
    BY <1>1, <1>3, <1>4, <1>16 DEF ClearVectors, ClearChunks
<1>17. CASE ResetStatus(r)
    <2>1. /\ req[r].pc = "resetStatus" /\ Goto(r, "republish")
          /\ UpdateParseStatus(req[r].doc, "pending", 0)
        BY <1>0, <1>17 DEF ResetStatus
    <2>2. kb' = kb /\ Live' = Live
        BY <1>0, <1>5, <2>1 DEF UpdateParseStatus, RequestRow, NamedPCs
    <2>3. QED
        BY <1>1, <1>3, <2>1, <2>2
<1>18. CASE Fetch(r)
    BY <1>2, <1>3, <1>4, <1>18 DEF Fetch
<1>19. QED
    BY <1>6, <1>7, <1>8, <1>9, <1>10, <1>11, <1>12, <1>13, <1>14, <1>15, <1>16, <1>17,
       <1>18 DEF Serve

LEMMA ServeKeepsCountInv ==
    ASSUME Undisturbed, CountInv, NEW r \in Requests, Serve(r) PROVE CountInv'
<1> USE DEF PlainPCs, UploadPCs, ReindexPCs, Over, Answers
<1>1. PICK x \in Requests : CountsWith(x)
    <2>1. r \in Active
        BY ServeCounts DEF Active
    <2>2. QED
        BY <2>1 DEF CountInv
<1>2. Active = {r} /\ CountsWith(r)
    <2>1. r \in Active
        BY ServeCounts DEF Active
    <2>2. QED
        BY <1>1, <2>1 DEF CountsWith
<1>3. Active' = IF req'[r].pc \in Over \cup {"new"} THEN {} ELSE {r}
    BY <1>2, ServeCounts, ActiveAfter
<1>4. IsFiniteSet(Live) /\ Cardinality(Live) \in Int
    BY FS_CardinalityType DEF CountInv
<1>5. kb.docs = Cardinality(Live) + Ahead(r)
    BY <1>2 DEF CountsWith
<1>6. CASE req[r].pc = "create" /\ req'[r].pc = "count" /\ r \notin Live
           /\ Live' = Live \cup {r} /\ kb' = kb
    <2>1. IsFiniteSet(Live') /\ Cardinality(Live') = Cardinality(Live) + 1
        BY <1>4, <1>6, FS_AddElement
    <2>2. Ahead(r) = 0 /\ Ahead(r)' = -1
        BY <1>6 DEF Ahead
    <2>3. CountsWith(r)'
        BY <1>3, <1>4, <1>5, <1>6, <2>1, <2>2 DEF CountsWith
    <2>4. QED
        BY <2>1, <2>3 DEF CountInv
<1>7. CASE req[r].pc = "count" /\ req'[r].pc = "publish"
           /\ Live' = Live /\ kb'.docs = kb.docs + 1
    <2>1. Ahead(r) = -1 /\ Ahead(r)' = 0
        BY <1>7 DEF Ahead
    <2>2. CountsWith(r)'
        BY <1>3, <1>4, <1>5, <1>7, <2>1 DEF CountsWith
    <2>3. QED
        BY <1>4, <1>7, <2>2 DEF CountInv
<1>8. CASE req[r].pc = "softDelete" /\ req'[r].pc = "wipe"
           /\ Live' = Live \ {req[r].doc} /\ kb' = kb
    <2>1. req[r].doc \in Live
        BY <1>2, <1>8 DEF CountsWith
    <2>2. IsFiniteSet(Live') /\ Cardinality(Live') = Cardinality(Live) - 1
        BY <1>4, <1>8, <2>1, FS_RemoveElement
    <2>3. Ahead(r) = 0 /\ Ahead(r)' = 1
        BY <1>8 DEF Ahead
    <2>4. CountsWith(r)'
        BY <1>3, <1>4, <1>5, <1>8, <2>2, <2>3 DEF CountsWith
    <2>5. QED
        BY <2>2, <2>4 DEF CountInv
<1>9. CASE req[r].pc = "wipe" /\ req'[r].pc = "countDown" /\ Live' = Live /\ kb' = kb
    <2>1. Ahead(r) = 1 /\ Ahead(r)' = 1
        BY <1>9 DEF Ahead
    <2>2. CountsWith(r)'
        BY <1>3, <1>4, <1>5, <1>9, <2>1 DEF CountsWith
    <2>3. QED
        BY <1>4, <1>9, <2>2 DEF CountInv
<1>10. CASE req[r].pc = "countDown" /\ req'[r].pc \in Over
            /\ Live' = Live /\ kb'.docs = kb.docs + (-1)
    <2>1. Ahead(r) = 1 /\ Active' = {}
        BY <1>3, <1>10 DEF Ahead
    <2>2. kb'.docs = Cardinality(Live')
        BY <1>4, <1>5, <1>10, <2>1
    <2>3. QED
        BY <1>4, <1>10, <2>1, <2>2 DEF CountInv
<1>11. CASE req[r].pc \in PlainPCs /\ req'[r].pc \in PlainPCs \cup Over
            /\ Live' = Live /\ kb' = kb
    <2>1. Ahead(r) = 0 /\ Ahead(r)' = 0
        BY <1>11 DEF Ahead
    <2>2. kb'.docs = Cardinality(Live') /\ IsFiniteSet(Live')
        BY <1>4, <1>5, <1>11, <2>1
    <2>3. CASE req'[r].pc \in Over
        BY <1>3, <2>2, <2>3 DEF CountInv
    <2>4. CASE req'[r].pc \in PlainPCs
        <3>1. CountsWith(r)'
            BY <1>3, <1>4, <2>1, <2>2, <2>4, <1>11 DEF CountsWith
        <3>2. QED
            BY <2>2, <3>1 DEF CountInv
    <2>5. QED
        BY <1>11, <2>3, <2>4
<1>12. QED
    BY <1>6, <1>7, <1>8, <1>9, <1>10, <1>11, ServeCounts

\* Neither the worker nor a sync's goroutine deletes, creates or counts documents.
LEMMA SameKeepsCountInv ==
    ASSUME CountInv, Live' = Live, kb'.docs = kb.docs, req' = req PROVE CountInv'
BY DEF CountInv, CountsWith, Ahead, Active

LEMMA WorkKeepsCountInv ==
    ASSUME Undisturbed, CountInv, NEW j \in Requests, Work(j) PROVE CountInv'
<1>0. ShapeInv /\ RunRow(j) /\ Inv /\ req' = req
    BY WorkClearsAtMostItsFile DEF Undisturbed, RowInv
<1>1. job[j].pc # "off" /\ job[j].doc \in Requests
    BY <1>0, WorkGoesOn DEF RunRow, Inv
<1>2. kb.docs \in Int
    BY FS_CardinalityType DEF CountInv, CountsWith, Ahead
<1> DEFINE d == job[j].doc
<1>3. ASSUME \/ \E s, n : UpdateParseStatus(d, s, n)
             \/ \E h : UpdateContentHash(d, h)
             \/ UpdateEnrichmentStatus(d)
      PROVE  Live' = Live /\ kb' = kb
    <2> USE <1>0, <1>1, Fields DEF Live, ShapeInv
    <2>1. ASSUME NEW s, NEW n, UpdateParseStatus(d, s, n) PROVE Live' = Live /\ kb' = kb
        BY <2>1 DEF UpdateParseStatus
    <2>2. ASSUME NEW h, UpdateContentHash(d, h) PROVE Live' = Live /\ kb' = kb
        BY <2>2 DEF UpdateContentHash
    <2>3. CASE UpdateEnrichmentStatus(d)
        BY <2>3 DEF UpdateEnrichmentStatus
    <2>4. QED
        BY <1>3, <2>1, <2>2, <2>3
<1>4. CASE SyncStart(j) \/ Complete(j) \/ MarkFailed(j)
    <2>1. \E s, n : UpdateParseStatus(d, s, n)
        BY <1>4 DEF SyncStart, Complete, MarkFailed, Undisturbed
    <2>2. QED
        BY <1>0, <1>3, <2>1, SameKeepsCountInv
<1>5. CASE WriteHash(j) \/ MarkEnrichment(j)
    <2>1. (\E h : UpdateContentHash(d, h)) \/ UpdateEnrichmentStatus(d)
        BY <1>5 DEF WriteHash, MarkEnrichment, Undisturbed
    <2>2. QED
        BY <1>0, <1>3, <2>1, SameKeepsCountInv
<1>6. CASE AddChunks(j)
    <2>1. IncrementCounts(0, job[j].count - job[j].prev)
        BY <1>6 DEF AddChunks, Undisturbed
    <2>2. docs' = docs /\ kb'.docs = kb.docs
        BY <1>2, <2>1 DEF IncrementCounts
    <2>3. QED
        BY <1>0, <2>2, SameKeepsCountInv DEF Live
<1>7. CASE docs' = docs /\ kb' = kb
    BY <1>0, <1>7, SameKeepsCountInv DEF Live
<1>8. QED
    BY <1>4, <1>5, <1>6, <1>7
       DEF Work, Load, ReadOld, DropVectors, DropChunks, Store, DualWrite, Cleanup,
           ReadPrevious, End, dbVars

LEMMA TakeKeepsCountInv == ASSUME Undisturbed, CountInv, Take PROVE CountInv'
<1>0. ShapeInv /\ PipelineInv /\ TaskRows
    BY DEF Undisturbed, Inv, RowInv
<1>1. PICK t : /\ t = Head(queue) /\ queue # <<>> /\ UpdateParseStatus(t.doc, "processing", 0)
               /\ req' = req
    BY DEF Undisturbed, Take
<1>2. t.doc \in Requests
    BY <1>0, <1>1 DEF PipelineInv, TaskRows
<1>3. Live' = Live /\ kb' = kb
    BY <1>0, <1>1, <1>2, Fields DEF UpdateParseStatus, Live, ShapeInv
<1>4. QED
    BY <1>1, <1>3, SameKeepsCountInv

LEMMA NextKeepsCountInv ==
    MaxActive = 1 /\ Inv /\ RowInv /\ CounterInv /\ (Calm => CountInv) /\ [Next]_vars =>
        (Calm => CountInv)'
<1> SUFFICES ASSUME MaxActive = 1, Inv, RowInv, CounterInv, Calm => CountInv, [Next]_vars,
                    Calm'
             PROVE  CountInv'
    OBVIOUS
<1>1. /\ Undisturbed /\ ShapeInv /\ CountInv
      /\ \/ \E r \in Requests : Begin(r) \/ Serve(r) \/ Work(r)
         \/ Take
         \/ \E s \in Pages : ChangePage(s)
         \/ UNCHANGED vars
    BY CalmStep DEF Undisturbed, RowInv
<1>2. CASE (\E s \in Pages : ChangePage(s)) \/ UNCHANGED vars
    BY <1>1, <1>2, SameKeepsCountInv DEF ChangePage, vars, dbVars, Live
<1>3. QED
    BY <1>1, <1>2, BeginKeepsCountInv, ServeKeepsCountInv, WorkKeepsCountInv,
       TakeKeepsCountInv

\* As long as no call has failed and the process runs, and requests that change
\* documents come one at a time, document_count is the number of live documents
\* between requests, wherever the worker and the goroutines of syncs are.
THEOREM CalmDocCountRight == ASSUME MaxActive = 1 PROVE Spec => [](Calm => DocCountRight)
<1>1. Init => CountInv
    BY InitCountInv
<1>2. Inv /\ RowInv /\ CalmInv /\ (Calm => CountInv) /\ [Next]_vars => (Calm => CountInv)'
    BY NextKeepsCountInv DEF CalmInv
<1>3. (Calm => CountInv) => (Calm => DocCountRight)
    BY CountedRight
<1>4. QED
    BY <1>1, <1>2, <1>3, CalmInvariance, PTL DEF Spec
=============================================================================
