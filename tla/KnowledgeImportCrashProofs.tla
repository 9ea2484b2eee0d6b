----------------------- MODULE KnowledgeImportCrashProofs -----------------------
(***************************************************************************)
(* A client that waits for each of its requests, and a process that        *)
(* crashes once.  A run that is cut off leaves vectors that no row lists,  *)
(* and between the two deletions of a replacement it leaves rows that have *)
(* no vectors; its task is redelivered as long as it is not acknowledged.  *)
(* KeptInv says at each step what of the file must still be there for the  *)
(* run that is made of that task: all the rest may have been lost.         *)
(*                                                                         *)
(* One crash, because the argument, and the property, end with the second. *)
(* The first may double a text, and of two chunks with the same text a     *)
(* replacement may retain either: a run that is cut off between the two    *)
(* deletions has dropped the vector of one of them, and the run that       *)
(* repeats it may retain the row of just that one.                         *)
(***************************************************************************)
EXTENDS KnowledgeImportClientProofs

\* Nothing has failed or been told to stop, but the process may have crashed once.
Sound == faults = 0 /\ shutdowns = 0 /\ crashes <= 1

\* A document at rest: its chunks C in table chunks are in the vector store, V, and so
\* is all of the content its row names.
Kept(row, V, C) ==
    C \subseteq V /\ (row.status = "completed" => Plain[row.hash] \subseteq TextsOf(V))

\* Chunks whose vectors a crash has left behind, between DropVectors and DropChunks,
\* are none that a replacement by content c retains.
Droppable(c, V, C) == \A x \in C \ V : x.text \notin Plain[c]

\* What request q relies on, at the step it is at: an upload's row has the hash of its
\* file.
RequestKeeps(q, row, V, C, file) ==
    LET at(S) == q.pc \in S IN
    /\ at({"prepare", "softDelete"}) => Kept(row, V, C)
    /\ at({"count", "publish"}) =>
          C \subseteq V /\ row.hash = file /\ row.status # "completed"

\* An import that starts, or starts again: with its file gone it fails.
StartKeeps(replace, row, V, C, file) ==
    /\ file # None => row.hash = file /\ Droppable(file, V, C)
    /\ file = None \/ ~replace => C \subseteq V

\* What a run has kept of its document, at the step it is at: texts is what will be
\* indexed once it is done.
RunKeeps(run, row, V, C, file) ==
    LET at(S) == run.pc \in S
        texts == Plain[run.content] IN
    /\ at({"load"}) => ~run.failed /\ StartKeeps(run.replace, row, V, C, file)
    /\ at(EarlyPCs \ {"load"}) \/ (at({"cleanup"}) /\ ~run.failed) =>
          /\ ~run.failed /\ run.content \in Contents
          /\ run.content = file /\ row.hash = file
    /\ at({"syncStart", "readOld"}) => run.replace /\ Droppable(run.content, V, C)
    /\ at({"dropVectors", "dropChunks"}) =>
          run.replace /\ C \ run.drop \subseteq V /\ texts \subseteq TextsOf(C \ run.drop) \cup run.add
    /\ at({"store"}) => C \subseteq V /\ texts \subseteq TextsOf(C) \cup run.add
    /\ at({"dualWrite"}) => C \cup run.new \subseteq V /\ texts \subseteq TextsOf(C \cup run.new)
    /\ at({"hash", "enrichment", "previous", "complete"}) \/ (at({"cleanup"}) /\ ~run.failed) =>
          C \subseteq V /\ texts \subseteq TextsOf(V)
    /\ at({"previous", "complete"}) => row.hash = run.content
    /\ (at({"cleanup"}) /\ run.failed) \/ at({"markFailed"}) => C \subseteq V
    /\ at({"addChunks", "ack"}) => Kept(row, V, C)
    /\ (at({"cleanup"}) /\ run.failed) \/ at(LateFilePCs) => file = None

KeptDoc(d) == Kept(docs[d], Of(d, vectors), Of(d, chunks))
StartKept(t) ==
    StartKeeps(t.replace, docs[t.doc], Of(t.doc, vectors), Of(t.doc, chunks), files[t.id])
RequestKept(r) ==
    LET d == req[r].doc IN
    RequestKeeps(req[r], docs[d], Of(d, vectors), Of(d, chunks), files[r])
RunKept(j) ==
    LET d == job[j].doc IN
    RunKeeps(job[j], docs[d], Of(d, vectors), Of(d, chunks), files[j])

\* The worker is at a step of the first task.
RunPCs == EarlyPCs \cup {"cleanup"} \cup LateFilePCs
WorkerRuns == job[worker].pc \in RunPCs /\ job[worker].replace = queue[1].replace

\* Requests come one after the other, and what relies on a document finds it as it must.
KeptInv ==
    /\ \A a, b \in Busy : a = b
    /\ LinkInv
    /\ \A j \in Running : ~job[j].full
    /\ worker # None => WorkerRuns
    /\ \A d \in Requests : LiveFile(d) /\ ~AtWork(d) => KeptDoc(d)
    /\ \A r \in Active : req[r].pc \in NamedPCs /\ LiveFile(req[r].doc) => RequestKept(r)
    /\ worker = None => \A i \in DOMAIN queue : LiveFile(queue[i].doc) => StartKept(queue[i])
    /\ \A j \in Running : LiveFile(job[j].doc) => RunKept(j)

(*************************************************************************)
(* KeptInv is kept by the steps of a run                                 *)
(*************************************************************************)

LEMMA TextsOfSubset == ASSUME NEW S, NEW T, S \subseteq T PROVE TextsOf(S) \subseteq TextsOf(T)
BY DEF TextsOf

\* Each step of a run leaves what the next one relies on.
LEMMA WorkKeeps ==
    ASSUME Undisturbed, LinkInv, \A c \in Contents : ChunksOf(c) = Plain[c],
           NEW j \in Requests, LiveFile(job[j].doc), RunKept(j),
           ~job[j].full, Work(j), ~End(j)
    PROVE  RunKept(j)'
<1> DEFINE d == job[j].doc
           V == Of(d, vectors)
           C == Of(d, chunks)
           W == Of(d, vectors')
           D == Of(d, chunks')
           run == job[j]
           run2 == job'[j]
           row == docs[d]
           row2 == docs'[d]
           file == files[j]
           file2 == files'[j]
<1>0. /\ Inv /\ RequestInv /\ ShapeInv /\ PipelineInv /\ RunRow(j)
      /\ RunKeeps(run, row, V, C, file)
      /\ run2.doc = d /\ run.pc # "off"
    <2>1. Inv /\ RequestInv /\ ShapeInv /\ PipelineInv /\ RunRow(j)
          /\ RunKeeps(run, row, V, C, file)
        BY DEF Undisturbed, Inv, RowInv, RunKept
    <2>2. run2.doc = d /\ run.pc # "off"
        BY <2>1, WorkIsRun DEF RunGoesOn
    <2>3. QED
        BY <2>1, <2>2
<1>1. d \in Requests
    BY <1>0 DEF RunRow
<1>2. SUFFICES RunKeeps(run2, row2, W, D, file2)
    BY <1>0 DEF RunKept, Of
<1>3. \A n : Fail(j, n) => run2.pc = "cleanup" /\ run2.failed
    BY <1>0, Fields DEF ShapeInv, Fail
<1>4. chunks' = chunks /\ vectors' = vectors => V = W /\ C = D
    OBVIOUS
<1>5. docs' = docs => row2 = row
    OBVIOUS
<1>6. files' = files \/ Cleanup(j)
    BY WorkClearsAtMostItsFile
<1>7. file \in Contents \cup {None} /\ run.source \notin Pages
    <2>1. file \in Contents \cup {None}
        BY <1>0 DEF RequestInv
    <2>2. docs[run.doc].source = run.source
        BY <1>0 DEF LinkInv, Running
    <2>3. QED
        BY <2>1, <2>2, SourcesAssumption DEF LiveFile
<1>8. files' = files => file2 = file
    OBVIOUS
<1> HIDE DEF d, V, C, W, D, run, run2, row, row2, file, file2
<1>9. CASE Load(j)
    <2>1. /\ \/ Fail(j, 0) /\ file = None
             \/ /\ file # None /\ run.replace
                /\ job' = [job EXCEPT ![j].pc = "syncStart", ![j].content = file]
             \/ /\ file # None /\ ~run.replace
                /\ job' = [job EXCEPT ![j].pc = "store", ![j].content = file,
                              ![j].add = ChunksOf(file), ![j].count = Cardinality(ChunksOf(file))]
          /\ run.pc = "load" /\ row2 = row /\ V = W /\ C = D /\ file2 = file
        <3>1. /\ run.pc = "load" /\ UNCHANGED <<docs, chunks, vectors, files>>
            BY <1>9 DEF Load, dbVars, indexVars, taskVars, run
        <3>2. (IF run.source \in Pages THEN page[run.source] ELSE files[j]) = file
            BY <1>7 DEF file
        <3>3. QED
            BY <1>4, <1>5, <1>8, <1>9, <3>1, <3>2 DEF Load, Undisturbed, run
    <2>2. ~run.failed /\ StartKeeps(run.replace, row, V, C, file)
        BY <1>0, <2>1 DEF RunKeeps
    <2>3. CASE Fail(j, 0) /\ file = None
        BY <1>3, <2>1, <2>2, <2>3 DEF RunKeeps, StartKeeps, EarlyPCs, LateFilePCs
    <2>4. CASE run.replace /\ file # None
               /\ job' = [job EXCEPT ![j].pc = "syncStart", ![j].content = file]
        <3>1. /\ run2.pc = "syncStart" /\ run2.content = file
              /\ run2.failed = run.failed /\ run2.replace = run.replace
            BY <1>0, <2>4, Fields DEF ShapeInv, run, run2
        <3>2. QED
            BY <1>7, <2>1, <2>2, <2>4, <3>1 DEF RunKeeps, StartKeeps, EarlyPCs, LateFilePCs
    <2>5. CASE ~run.replace /\ file # None
               /\ job' = [job EXCEPT ![j].pc = "store", ![j].content = file,
                             ![j].add = ChunksOf(file), ![j].count = Cardinality(ChunksOf(file))]
        <3>1. /\ run2.pc = "store" /\ run2.content = file
              /\ run2.failed = run.failed /\ run2.replace = run.replace
              /\ run2.add = ChunksOf(file)
            BY <1>0, <2>5, Fields DEF ShapeInv, run, run2
        <3>2. ChunksOf(file) = Plain[file] /\ file \in Contents
            BY <1>7, <2>5
        <3>3. QED
            BY <2>1, <2>2, <2>5, <3>1, <3>2 DEF RunKeeps, StartKeeps, EarlyPCs, LateFilePCs
    <2>6. QED
        BY <2>1, <2>3, <2>4, <2>5
<1>10. CASE SyncStart(j)
    <2>1. /\ run.pc = "syncStart" /\ Step(j, "readOld") /\ V = W /\ C = D /\ file2 = file
          /\ UpdateParseStatus(d, "processing", 0)
        BY <1>4, <1>8, <1>10 DEF SyncStart, Undisturbed, indexVars, taskVars, run, d
    <2>2. SameRun(run, run2) /\ run2.pc = "readOld" /\ row2.hash = row.hash
        BY <1>0, <1>1, <2>1, StepIsSameRun, StatementsHash DEF run, run2, row, row2
    <2>3. QED
        BY <1>0, <2>1, <2>2 DEF RunKeeps, SameRun, EarlyPCs, LateFilePCs
<1>11. CASE ReadOld(j)
    <2>1. PICK retained \in SUBSET C :
            /\ TextsOf(retained) = TextsOf(C) \cap Plain[run.content]
            /\ job' = [job EXCEPT ![j] = [@ EXCEPT
                  !.pc = IF C \ retained # {} THEN "dropVectors"
                         ELSE IF Plain[run.content] \ TextsOf(C) # {} THEN "store" ELSE "hash",
                  !.drop = C \ retained, !.add = Plain[run.content] \ TextsOf(C),
                  !.count = Cardinality(Plain[run.content])]]
        BY <1>11 DEF ReadOld, Undisturbed, C, d, run
    <2>2. run.pc = "readOld" /\ V = W /\ C = D /\ row2 = row /\ file2 = file
        BY <1>4, <1>5, <1>8, <1>11 DEF ReadOld, dbVars, indexVars, taskVars, run
    <2>3. /\ run2.pc = IF C \ retained # {} THEN "dropVectors"
                       ELSE IF Plain[run.content] \ TextsOf(C) # {} THEN "store" ELSE "hash"
          /\ run2.drop = C \ retained /\ run2.add = Plain[run.content] \ TextsOf(C)
          /\ run2.content = run.content
          /\ run2.failed = run.failed /\ run2.replace = run.replace
        BY <1>0, <2>1, Fields DEF ShapeInv, run, run2
    <2>4. /\ ~run.failed /\ run.replace /\ run.content \in Contents
          /\ run.content = file /\ row.hash = file /\ Droppable(run.content, V, C)
        BY <1>0, <2>2 DEF RunKeeps, EarlyPCs
    <2>5. retained \subseteq V
        BY <2>1, <2>4 DEF Droppable, TextsOf
    <2>6. C \ run2.drop = retained /\ Plain[run2.content] \subseteq TextsOf(retained) \cup run2.add
        BY <2>1, <2>3
    <2>7. CASE C \ retained # {}
        BY <2>2, <2>3, <2>4, <2>5, <2>6, <2>7 DEF RunKeeps, EarlyPCs, LateFilePCs
    <2>8. CASE C = retained
        <3>1. run2.pc = IF run2.add # {} THEN "store" ELSE "hash"
            BY <2>3, <2>8
        <3>2. C \subseteq V /\ Plain[run2.content] \subseteq TextsOf(C) \cup run2.add
            BY <2>5, <2>6, <2>8
        <3>3. TextsOf(C) \subseteq TextsOf(V)
            BY <3>2, TextsOfSubset
        <3>4. QED
            BY <2>2, <2>3, <2>4, <3>1, <3>2, <3>3 DEF RunKeeps, EarlyPCs, LateFilePCs
    <2>9. QED
        BY <2>1, <2>7, <2>8
<1>12. CASE DropVectors(j)
    <2>1. /\ run.pc = "dropVectors" /\ Step(j, "dropChunks") /\ row2 = row /\ C = D
          /\ vectors' = vectors \ Dropped(j, vectors) /\ file2 = file
        BY <1>4, <1>5, <1>8, <1>12 DEF DropVectors, Undisturbed, dbVars, taskVars, run, C, D
    <2>2. W = V \ run.drop
        BY <2>1 DEF Dropped, W, V, Of, run
    <2>3. SameRun(run, run2) /\ run2.pc = "dropChunks"
        BY <1>0, <2>1, StepIsSameRun DEF run, run2
    <2>4. QED
        BY <1>0, <2>1, <2>2, <2>3 DEF RunKeeps, SameRun, EarlyPCs, LateFilePCs
<1>13. CASE DropChunks(j)
    <2>1. /\ run.pc = "dropChunks" /\ row2 = row /\ V = W /\ file2 = file
          /\ chunks' = chunks \ Dropped(j, chunks)
          /\ job' = [job EXCEPT ![j].pc = IF run.add = {} THEN "hash" ELSE "store",
                                ![j].drop = {}]
        BY <1>4, <1>5, <1>8, <1>13 DEF DropChunks, Undisturbed, dbVars, taskVars, run, V, W
    <2>2. D = C \ run.drop
        BY <2>1 DEF Dropped, C, D, Of, run
    <2>3. /\ run2.pc = (IF run.add = {} THEN "hash" ELSE "store")
          /\ run2.add = run.add /\ run2.content = run.content
          /\ run2.failed = run.failed /\ run2.replace = run.replace
        BY <1>0, <2>1, Fields DEF ShapeInv, run, run2
    <2>4. /\ D \subseteq W /\ Plain[run.content] \subseteq TextsOf(D) \cup run.add
          /\ ~run.failed /\ run.content \in Contents /\ run.content = file /\ row.hash = file
        BY <1>0, <2>1, <2>2 DEF RunKeeps, EarlyPCs
    <2>5. TextsOf(D) \subseteq TextsOf(W)
        BY <2>4, TextsOfSubset
    <2>6. QED
        BY <2>1, <2>3, <2>4, <2>5 DEF RunKeeps, EarlyPCs, LateFilePCs
<1>14. CASE Store(j)
    <2> DEFINE new == NewChunks(j)
    <2>1. /\ vectors' = vectors \cup new /\ C = D /\ row2 = row /\ run.pc = "store"
          /\ file2 = file
          /\ job' = [job EXCEPT ![j].pc = "dualWrite", ![j].new = new, ![j].add = {}]
        BY <1>4, <1>5, <1>8, <1>14 DEF Store, Undisturbed, dbVars, taskVars, run, C, D
    <2>2. TextsOf(new) = run.add /\ \A x \in new : x.doc = d
        BY NewChunksAre DEF run, d
    <2> HIDE DEF new
    <2>3. W = V \cup new
        BY <2>1, <2>2 DEF W, V, Of
    <2>4. /\ run2.pc = "dualWrite" /\ run2.new = new
          /\ run2.content = run.content
          /\ run2.failed = run.failed /\ run2.replace = run.replace
        BY <1>0, <2>1, Fields DEF ShapeInv, run, run2
    <2>5. TextsOf(C \cup new) = TextsOf(C) \cup run.add
        BY <2>2, TextsOfUnion
    <2>6. QED
        BY <1>0, <2>1, <2>3, <2>4, <2>5 DEF RunKeeps, EarlyPCs, LateFilePCs
<1>15. CASE DualWrite(j)
    <2>1. /\ chunks' = chunks \cup run.new /\ V = W /\ row2 = row /\ run.pc = "dualWrite"
          /\ file2 = file
          /\ job' = [job EXCEPT ![j].pc = IF ~run.replace /\ DocReader THEN "enrichment"
                                                                     ELSE "hash",
                                ![j].new = {}]
        BY <1>4, <1>5, <1>8, <1>15 DEF DualWrite, Undisturbed, dbVars, taskVars, run, V, W
    <2>2. D = C \cup run.new
        BY <1>0, <2>1 DEF RunRow, D, C, Of, run, d
    <2>3. /\ run2.pc \in {"enrichment", "hash"}
          /\ run2.content = run.content
          /\ run2.failed = run.failed /\ run2.replace = run.replace
        BY <1>0, <2>1, Fields DEF ShapeInv, run, run2
    <2>4. /\ D \subseteq W /\ Plain[run.content] \subseteq TextsOf(D)
          /\ ~run.failed /\ run.content \in Contents
          /\ run.content = file /\ row.hash = file
        BY <1>0, <2>1, <2>2 DEF RunKeeps, EarlyPCs
    <2>5. TextsOf(D) \subseteq TextsOf(W)
        BY <2>4, TextsOfSubset
    <2>6. QED
        BY <2>1, <2>3, <2>4, <2>5 DEF RunKeeps, EarlyPCs, LateFilePCs
<1>16. CASE WriteHash(j) \/ MarkEnrichment(j)
    <2>1. PICK p \in {"enrichment", "cleanup"} : Step(j, p)
        BY <1>16 DEF WriteHash, MarkEnrichment
    <2>2. /\ run.pc \in {"hash", "enrichment"} /\ V = W /\ C = D /\ file2 = file
          /\ docs' = docs \/ UpdateContentHash(d, run.content)
        BY <1>4, <1>8, <1>16 DEF WriteHash, MarkEnrichment, UpdateEnrichmentStatus, Undisturbed,
                                indexVars, taskVars, run, d
    <2>3. SameRun(run, run2) /\ run2.pc = p /\ row2.hash \in {row.hash, run.content}
        BY <1>0, <1>1, <2>1, <2>2, StepIsSameRun, StatementsHash DEF run, run2, row, row2
    <2>4. QED
        BY <1>0, <2>1, <2>2, <2>3 DEF RunKeeps, SameRun, EarlyPCs, LateFilePCs
<1>17. CASE Cleanup(j)
    <2>1. PICK p : Step(j, p) /\ p = IF run.failed THEN "markFailed" ELSE "previous"
        BY <1>17 DEF Cleanup, run
    <2>2. run.pc = "cleanup" /\ V = W /\ C = D /\ row2 = row /\ file2 = None
        BY <1>0, <1>4, <1>5, <1>17 DEF Cleanup, RemoveFile, RequestInv, indexVars, dbVars, run, file2
    <2>3. SameRun(run, run2) /\ run2.pc = p
        BY <1>0, <2>1, StepIsSameRun DEF run, run2
    <2>4. QED
        BY <1>0, <2>1, <2>2, <2>3 DEF RunKeeps, SameRun, EarlyPCs, LateFilePCs
<1>18. CASE ReadPrevious(j)
    <2>1. PICK n : job' = [job EXCEPT ![j].pc = "complete", ![j].prev = n]
        BY <1>18 DEF ReadPrevious, Undisturbed
    <2>2. run.pc = "previous" /\ V = W /\ C = D /\ row2 = row /\ file2 = file
        BY <1>4, <1>5, <1>8, <1>18 DEF ReadPrevious, indexVars, dbVars, taskVars, run
    <2>3. SameRun(run, run2) /\ run2.pc = "complete"
        BY <1>0, <2>1, Fields DEF ShapeInv, SameRun, run, run2
    <2>4. QED
        BY <1>0, <2>2, <2>3 DEF RunKeeps, SameRun, EarlyPCs, LateFilePCs
<1>19. CASE Complete(j)
    <2>1. /\ Step(j, "addChunks") /\ UpdateParseStatus(d, "completed", run.count)
          /\ run.pc = "complete" /\ V = W /\ C = D /\ file2 = file
        BY <1>4, <1>8, <1>19 DEF Complete, indexVars, taskVars, Undisturbed, run, d
    <2>2. SameRun(run, run2) /\ run2.pc = "addChunks" /\ row2.hash = row.hash
        BY <1>0, <1>1, <2>1, StepIsSameRun, StatementsHash DEF run, run2, row, row2
    <2>3. QED
        BY <1>0, <2>1, <2>2 DEF RunKeeps, Kept, SameRun, EarlyPCs, LateFilePCs
<1>20. CASE AddChunks(j)
    <2>1. Step(j, "ack") /\ run.pc = "addChunks" /\ V = W /\ C = D /\ row2 = row /\ file2 = file
        BY <1>4, <1>5, <1>8, <1>20
           DEF AddChunks, IncrementCounts, indexVars, taskVars, Undisturbed, run
    <2>2. SameRun(run, run2) /\ run2.pc = "ack"
        BY <1>0, <2>1, StepIsSameRun DEF run, run2
    <2>3. QED
        BY <1>0, <2>1, <2>2 DEF RunKeeps, SameRun, EarlyPCs, LateFilePCs
<1>21. CASE MarkFailed(j)
    <2>1. /\ Step(j, "ack") /\ UpdateParseStatus(d, "failed", run.count)
          /\ run.pc = "markFailed" /\ V = W /\ C = D /\ file2 = file
        BY <1>4, <1>8, <1>21 DEF MarkFailed, indexVars, taskVars, Undisturbed, run, d
    <2>2. SameRun(run, run2) /\ run2.pc = "ack" /\ row2.status = "failed"
        BY <1>0, <1>1, <2>1, StepIsSameRun, StatementsWrite DEF run, run2, row, row2
    <2>3. QED
        BY <1>0, <2>1, <2>2 DEF RunKeeps, Kept, SameRun, EarlyPCs, LateFilePCs
<1>22. QED
    BY <1>9, <1>10, <1>11, <1>12, <1>13, <1>14, <1>15, <1>16, <1>17, <1>18, <1>19, <1>20, <1>21
       DEF Work

\* A step of the only run: no other document is at work.
LEMMA WorkKeepsKeptInv ==
    ASSUME Undisturbed, KeptInv, \A c \in Contents : ChunksOf(c) = Plain[c],
           NEW j \in Requests, Work(j)
    PROVE  KeptInv'
<1>0. /\ Inv /\ PipelineInv /\ ShapeInv /\ RowInv /\ RunRow(j) /\ LinkInv /\ job[j].pc # "off"
      /\ \A x \in Requests \ {j} : job'[x] = job[x]
    <2>1. Inv /\ PipelineInv /\ ShapeInv /\ RowInv /\ RunRow(j) /\ LinkInv
        BY DEF Undisturbed, Inv, RowInv, KeptInv
    <2>2. QED
        BY <2>1, WorkGoesOn
<1>1. /\ Active = {} /\ Running = {j} /\ (queue # <<>> => worker = j /\ DOMAIN queue = {1})
      /\ ~job[j].full
    <2>1. Active = {} /\ Running = {j} /\ (queue # <<>> => worker = j /\ DOMAIN queue = {1})
        BY <1>0, OneRun DEF KeptInv
    <2>2. QED
        BY <2>1 DEF KeptInv
<1>2. PICK d \in Requests : d = job[j].doc
    BY <1>0 DEF RunRow
<1>3. req' = req /\ Active' = {}
    BY <1>1, WorkClearsAtMostItsFile DEF Active
<1>4. LinkInv'
    BY <1>0, <1>1, <1>3, WorkKeepsLinkInv
<1>5. \A e \in Requests : LiveFile(e)' => LiveFile(e)
    BY <1>0, WorkKeepsRows DEF RowsKept, LiveFile
<1>6. ASSUME NEW e \in Requests, e # d, LiveFile(e)' PROVE KeptDoc(e)'
    <2>1. ~AtWork(e)
        BY <1>1, <1>2, <1>6, NoneAssumption DEF AtWork
    <2>2. KeptDoc(e)
        BY <1>5, <1>6, <2>1 DEF KeptInv
    <2>3. Of(e, vectors)' = Of(e, vectors) /\ Of(e, chunks)' = Of(e, chunks)
        BY <1>0, <1>1, <1>2, <1>6, WorkElsewhere
    <2>4. docs'[e] = docs[e]
        BY <1>0, <1>2, <1>6, WorkLeavesRows
    <2>5. QED
        BY <2>2, <2>3, <2>4 DEF KeptDoc
<1>7. CASE ~End(j)
    <2>1. RunGoesOn(j) /\ ~job'[j].full
        BY <1>0, <1>1, <1>7, WorkIsRun, WorkBalances
    <2>2. job'[j].pc # "off"
        BY <1>0, <1>7, WorkOrder DEF EarlyPCs
    <2>3. Running' = {j}
        BY <1>0, <1>1, <2>1, <2>2 DEF Running, RunGoesOn
    <2>4. UNCHANGED <<queue, worker>> /\ job'[j].doc = d /\ job'[j].replace = job[j].replace
        BY <1>2, <2>1 DEF RunGoesOn
    <2>5. \A i \in DOMAIN queue' : queue'[i].id = j
        <3>1. j # None
            BY NoneAssumption
        <3>2. QED
            BY <1>0, <1>1, <2>4, <3>1 DEF PipelineInv
    <2>6. \A a, b \in Busy' : a = b
        BY <1>3, <2>3, <2>5 DEF Busy
    <2>7. \A e \in Requests : LiveFile(e)' /\ ~AtWork(e)' => KeptDoc(e)'
        BY <1>6, <2>3, <2>4 DEF AtWork
    <2>8. worker' = None => queue' = <<>>
        BY <1>1, <2>4, NoneAssumption
    <2>9. LiveFile(job[j].doc)' => RunKept(j)'
        <3>1. LiveFile(d)' => LiveFile(job[j].doc) /\ RunKept(j)
            BY <1>1, <1>2, <1>5 DEF KeptInv
        <3>2. QED
            BY <1>0, <1>1, <1>7, <2>4, <3>1, WorkKeeps
    <2>10. worker' # None => WorkerRuns'
        <3>1. SUFFICES ASSUME worker # None PROVE WorkerRuns'
            BY <2>4
        <3>2. worker = j /\ WorkerRuns
            BY <1>0, <1>1, <3>1 DEF KeptInv, PipelineInv
        <3>3. job'[j].pc \in RunPCs
            BY <1>0, <1>7, WorkOrder DEF RunPCs, EarlyPCs, LateFilePCs
        <3>4. QED
            BY <2>4, <3>2, <3>3 DEF WorkerRuns
    <2>11. QED
        BY <1>3, <1>4, <2>1, <2>3, <2>6, <2>7, <2>8, <2>9, <2>10 DEF KeptInv
<1>8. CASE End(j)
    <2>1. /\ UNCHANGED <<docs, chunks, vectors>> /\ job[j].pc = "ack"
          /\ job' = [job EXCEPT ![j] = NoJob]
          /\ IF worker = j THEN worker' = None /\ queue' = Tail(queue)
                           ELSE UNCHANGED <<worker, queue>>
        BY <1>8 DEF End, dbVars, indexVars
    <2>2. Running' = {}
        BY <1>0, <1>1, <2>1, Fields DEF Running, ShapeInv
    <2>3. queue' = <<>>
        <3>1. PICK S : queue \in Seq(S)
            BY <1>0 DEF PipelineInv
        <3>2. CASE queue = <<>>
            BY <1>0, <2>1, <3>2, NoneAssumption DEF PipelineInv
        <3>3. CASE queue # <<>>
            <4>1. queue' = Tail(queue) /\ DOMAIN queue = {1}
                BY <1>1, <2>1, <3>3
            <4>2. Len(queue) = 1
                BY <3>1, <4>1
            <4>3. QED
                BY <3>1, <4>1, <4>2
        <3>4. QED
            BY <3>2, <3>3
    <2>4. LiveFile(d)' => KeptDoc(d)'
        <3>1. LiveFile(d) => KeptDoc(d)
            BY <1>1, <1>2, <2>1 DEF KeptInv, RunKept, RunKeeps, KeptDoc
        <3>2. QED
            BY <1>5, <2>1, <3>1 DEF KeptDoc, Of
    <2>5. \A a, b \in Busy' : a = b
        BY <1>3, <2>2, <2>3 DEF Busy
    <2>6. worker' = None
        BY <1>0, <1>1, <2>1 DEF PipelineInv
    <2>7. QED
        BY <1>3, <1>4, <1>6, <2>2, <2>3, <2>4, <2>5, <2>6 DEF KeptInv
<1>9. QED
    BY <1>7, <1>8

(*************************************************************************)
(* The steps of a handler                                                *)
(*************************************************************************)

\* A request that is served leads to a state that is as KeptInv says, provided that
\* what it has become relies on what is there.
LEMMA ServedIsKept ==
    ASSUME Undisturbed, KeptInv, NEW r \in Active, Serve(r),
           r \in Active' /\ req'[r].pc \in NamedPCs /\ LiveFile(req[r].doc)' => RequestKept(r)',
           \A i \in DOMAIN queue' :
              queue'[i].id = r /\ (LiveFile(queue[i].doc)' => StartKept(queue[i])'),
           NEW d, d = req[r].doc,
           req[r].pc \in {"dedupe", "find"} \/ AtWork(d)' \/ ~LiveFile(d)'
    PROVE  KeptInv'
<1>0. /\ Inv /\ PipelineInv /\ ShapeInv /\ RequestRow(r) /\ LinkInv /\ r \in Requests
      /\ Active = {r} /\ Running = {} /\ queue = <<>> /\ worker = None
    <2>1. Inv /\ PipelineInv /\ ShapeInv /\ LinkInv /\ r \in Requests /\ RequestRow(r)
        BY DEF Undisturbed, Inv, RowInv, Active, KeptInv
    <2>2. QED
        BY <2>1, OneRequest DEF KeptInv
<1>1. /\ worker' = None
      /\ \A x \in Requests \ {r} : req'[x] = req[x] /\ job'[x] = job[x]
    BY <1>0, ServeMovesOrPublishes DEF Moves, Publishes, Inv
<1>2. Active' \subseteq {r} /\ Running' \subseteq {r}
    BY <1>0, <1>1 DEF Active, Running
<1>3. \A x \in Busy' : x = r
    BY <1>2 DEF Busy
<1>4. LinkInv'
    BY <1>0, ServeKeepsLinkInv
<1>5. ASSUME NEW j \in Running' PROVE ~job'[j].full /\ ~LiveFile(job[j].doc)'
    <2>1. j \in Requests /\ job'[j].pc # "off" /\ job[j].pc = "off"
        BY <1>0, <1>5 DEF Running
    <2>2. docs[job'[j].doc].source \in Pages /\ ~job'[j].full /\ docs' = docs
        BY <1>0, <2>1, RequestKeepsRuns
    <2>3. QED
        BY <2>2, SourcesAssumption DEF LiveFile
<1>6. ASSUME NEW e \in Requests, LiveFile(e)', ~AtWork(e)' PROVE KeptDoc(e)'
    <2>1. req[r].pc \in {"dedupe", "find"} \/ e # d
        BY <1>6
    <2>2. ~AtWork(e)
        BY <1>0, <2>1 DEF AtWork, NamedPCs, ReindexPCs
    <2>3. docs'[e] = docs[e] /\ Of(e, vectors)' = Of(e, vectors) /\ Of(e, chunks)' = Of(e, chunks)
        BY <1>0, <2>1, ServeElsewhere
    <2>4. QED
        BY <1>6, <2>2, <2>3 DEF KeptInv, LiveFile, KeptDoc
<1>7. \A x \in Active' : req'[x].pc \in NamedPCs /\ LiveFile(req[x].doc)' => RequestKept(x)'
    BY <1>2
<1>8. QED
    BY <1>0, <1>1, <1>3, <1>4, <1>5, <1>6, <1>7, NoneAssumption DEF KeptInv, Running

LEMMA ServeKeepsKeptInv ==
    ASSUME Undisturbed, KeptInv, NEW r \in Requests, Serve(r) PROVE KeptInv'
<1>0. /\ Inv /\ RowInv /\ RequestInv /\ ShapeInv /\ RequestRow(r) /\ LinkInv
    BY DEF Undisturbed, Inv, RowInv, KeptInv
<1>1. r \in Active
    BY DEF Serve, Dedupe, Find, Create, CountUp, Prepare, Publish, MarkUnpublished, SoftDelete,
           Wipe, CountDown, ClearVectors, ClearChunks, ResetStatus, Republish, Fetch,
           Active, Over, Answers
<1>2. Running = {} /\ queue = <<>> /\ worker = None /\ Active = {r} /\ Offers(r)
    BY <1>0, <1>1, OneRequest DEF KeptInv, LinkInv
<1>d. PICK d : d = req[r].doc
    OBVIOUS
<1>3. req[r].pc \in NamedPCs => d \in Requests /\ (LiveFile(d) => RequestKept(r))
    BY <1>0, <1>1, <1>d DEF RequestRow, KeptInv
<1>4. \A e \in Requests : ~(Create(r) /\ e = r) /\ LiveFile(e)' =>
          /\ LiveFile(e)
          /\ Of(e, vectors)' = Of(e, vectors) /\ Of(e, chunks)' = Of(e, chunks)
          /\ docs'[e] = docs[e] \/ (Prepare(r) /\ d = e)
    <2> SUFFICES ASSUME NEW e \in Requests, ~(Create(r) /\ e = r), LiveFile(e)'
                 PROVE  /\ LiveFile(e)
                        /\ Of(e, vectors)' = Of(e, vectors) /\ Of(e, chunks)' = Of(e, chunks)
                        /\ docs'[e] = docs[e] \/ (Prepare(r) /\ d = e)
        OBVIOUS
    <2>1. LiveFile(e)
        <3>1. CASE Create(r)
            BY <1>0, <3>1 DEF Create, Undisturbed, ShapeInv, LiveFile
        <3>2. CASE ~Create(r)
            BY <1>0, <3>2, RequestKeepsRows DEF RowsKept, LiveFile
        <3>3. QED
            BY <3>1, <3>2
    <2>2. Of(e, vectors)' = Of(e, vectors) /\ Of(e, chunks)' = Of(e, chunks)
        BY <1>0, <2>1, RequestKeepsFileChunks
    <2>3. docs'[e] = docs[e] \/ (Prepare(r) /\ d = e)
        BY <1>0, <1>d, <2>1, RequestWritesFile
    <2>4. QED
        BY <2>1, <2>2, <2>3
<1>5. \A p : Goto(r, p) => req'[r].pc = p /\ req'[r].doc = d /\ req'[r].replace = req[r].replace
    BY <1>0, <1>d, GotoKeepsRequest
<1>6. CASE Dedupe(r)
    <2>1. /\ req[r].pc = "dedupe" /\ UNCHANGED <<queue, job>>
          /\ \/ \E e, c : req' = [req EXCEPT ![r] =
                             [NoReq EXCEPT !.pc = "duplicate", !.doc = e, !.content = c]]
             \/ Goto(r, "find")
        BY <1>6 DEF Dedupe, Undisturbed
    <2>2. req'[r].pc \in {"duplicate", "find"}
        <3>1. CASE Goto(r, "find")
            BY <1>5, <3>1
        <3>2. ASSUME NEW e, NEW c, req' = [req EXCEPT ![r] =
                         [NoReq EXCEPT !.pc = "duplicate", !.doc = e, !.content = c]]
              PROVE  req'[r].pc = "duplicate"
            BY <1>0, <3>2, AnswerGives
        <3>3. QED
            BY <2>1, <3>1, <3>2
    <2>3. req'[r].pc \notin NamedPCs
        BY <2>2 DEF NamedPCs, ReindexPCs
    <2>4. DOMAIN queue' = {} /\ req[r].pc \in {"dedupe", "find"}
        <3>1. queue' = <<>> /\ req[r].pc = "dedupe"
            BY <1>2, <2>1, Zenon
        <3>2. QED
            BY <3>1
    <2>5. \A i \in DOMAIN queue' :
             queue'[i].id = r /\ (LiveFile(queue[i].doc)' => StartKept(queue[i])')
        BY <2>4
    <2>6. r \in Active' /\ req'[r].pc \in NamedPCs /\ LiveFile(req[r].doc)' => RequestKept(r)'
        BY <2>3
    <2>7. req[r].pc \in {"dedupe", "find"} \/ AtWork(d)' \/ ~LiveFile(d)'
        BY <2>1
    <2>8. QED
        BY <1>1, <1>d, <2>5, <2>6, <2>7, ServedIsKept
<1>7. CASE Find(r)
    <2>1. req[r].pc = "find" /\ UNCHANGED <<docs, chunks, vectors, queue>>
        BY <1>7 DEF Find, dbVars, indexVars
    <2>2. \/ \E h : req' = [req EXCEPT ![r].pc = "create", ![r].doc = r, ![r].hash = h]
          \/ \E h : /\ req' = [req EXCEPT ![r].pc = "prepare",
                               ![r].doc = FindBySource(req[r].source), ![r].hash = h]
                    /\ FindBySource(req[r].source) # None
        BY <1>7 DEF Find, Undisturbed
    <2>3. CASE \E h : req' = [req EXCEPT ![r].pc = "create", ![r].doc = r, ![r].hash = h]
        <3>1. req'[r].pc = "create"
            BY <1>0, <2>3, Fields DEF ShapeInv
        <3>2. req'[r].pc \notin NamedPCs
            BY <3>1 DEF NamedPCs, ReindexPCs
        <3>3. QED
            BY <1>1, <1>2, <1>d, <2>1, <3>2, ServedIsKept
    <2>4. ASSUME NEW e, e = FindBySource(req[r].source), e # None,
                 \E h : req' = [req EXCEPT ![r].pc = "prepare", ![r].doc = e, ![r].hash = h]
          PROVE  KeptInv'
        <3>1. req'[r].pc = "prepare" /\ req'[r].doc = e
            BY <1>0, <2>4, Fields DEF ShapeInv
        <3>2. e \in Requests
            BY <2>4, FoundIsLive
        <3>3. ~AtWork(e)
            BY <1>2, <2>1 DEF AtWork, NamedPCs, ReindexPCs
        <3>4. LiveFile(e) => Kept(docs[e], Of(e, vectors), Of(e, chunks))
            BY <3>2, <3>3 DEF KeptInv, KeptDoc
        <3>5. LiveFile(e) => RequestKeeps(req'[r], docs'[e], Of(e, vectors'), Of(e, chunks'), files'[r])
            BY <2>1, <3>1, <3>4 DEF RequestKeeps
        <3>6. LiveFile(req[r].doc)' => RequestKept(r)'
            BY <2>1, <3>1, <3>5 DEF RequestKept, LiveFile, Of
        <3>7. QED
            BY <1>1, <1>2, <1>d, <2>1, <3>6, ServedIsKept
    <2>5. QED
        BY <2>2, <2>3, <2>4
<1>8. CASE Create(r)
    <2>1. /\ req[r].pc = "create" /\ Goto(r, "count")
          /\ UNCHANGED <<chunks, vectors, queue, files>>
          /\ docs' = [docs EXCEPT ![r] = [NoDoc EXCEPT !.status = "pending", !.live = TRUE,
                         !.source = req[r].source, !.hash = req[r].hash]]
        BY <1>8 DEF Create, Undisturbed, indexVars
    <2>2. d = r /\ ~Made(r)
        BY <1>0, <1>d, <2>1 DEF RequestRow, UnnamedPCs
    <2>3. req'[r].pc = "count" /\ req'[r].doc = r
        BY <1>5, <2>1, <2>2
    <2>4. /\ docs'[r].status = "pending" /\ docs'[r].hash = req[r].hash
          /\ docs'[r].source = req[r].source
        BY <1>0, <2>1, Fields DEF ShapeInv
    <2>5. Of(r, vectors') = {} /\ Of(r, chunks') = {}
        BY <1>0, <2>1, <2>2 DEF RowInv, ChunkRows, Of
    <2>6. LiveFile(r)' => docs'[r].hash = files'[r]
        BY <1>2, <2>1, <2>4 DEF Offers, LiveFile
    <2>7. LiveFile(r)' => RequestKeeps(req'[r], docs'[r], Of(r, vectors'), Of(r, chunks'), files'[r])
        BY <2>3, <2>4, <2>5, <2>6 DEF RequestKeeps
    <2>8. LiveFile(req[r].doc)' => RequestKept(r)'
        BY <2>3, <2>7 DEF RequestKept, LiveFile, Of
    <2>9. AtWork(d)'
        BY <2>2, <2>3 DEF AtWork, NamedPCs, Active, Over, Answers
    <2>10. QED
        BY <1>1, <1>2, <1>d, <2>1, <2>8, <2>9, ServedIsKept
<1>9. CASE CountUp(r) \/ Prepare(r)
    <2>1. /\ req[r].pc \in NamedPCs /\ UNCHANGED <<queue, files>>
          /\ \/ req[r].pc = "count" /\ Goto(r, "publish") /\ docs' = docs
             \/ /\ req[r].pc = "prepare" /\ PrepareForReplacement(d, req[r].hash)
                /\ req' = [req EXCEPT ![r].pc = "publish", ![r].replace = TRUE]
        BY <1>9, <1>d DEF CountUp, Prepare, IncrementCounts, Undisturbed, NamedPCs
    <2>2. req'[r].pc = "publish" /\ req'[r].doc = d /\ d \in Requests
        <3>1. CASE Goto(r, "publish")
            BY <1>3, <1>5, <2>1, <3>1
        <3>2. CASE req' = [req EXCEPT ![r].pc = "publish", ![r].replace = TRUE]
            BY <1>0, <1>3, <1>d, <2>1, <3>2, Fields DEF ShapeInv
        <3>3. QED
            BY <2>1, <3>1, <3>2
    <2>3. ASSUME LiveFile(d)' PROVE RequestKeeps(req'[r], docs'[d], Of(d, vectors'), Of(d, chunks'), files'[r])
        <3>1. /\ LiveFile(d) /\ Of(d, vectors') = Of(d, vectors) /\ Of(d, chunks') = Of(d, chunks)
              /\ RequestKeeps(req[r], docs[d], Of(d, vectors), Of(d, chunks), files[r])
            <4>1. ~(Create(r) /\ d = r)
                BY <1>9 DEF Create, CountUp, Prepare
            <4>2. LiveFile(d) /\ Of(d, vectors)' = Of(d, vectors) /\ Of(d, chunks)' = Of(d, chunks)
                BY <1>4, <2>2, <2>3, <4>1
            <4>3. RequestKept(r)
                BY <1>3, <2>1, <4>2
            <4>4. QED
                BY <1>d, <4>2, <4>3 DEF RequestKept, Of
        <3>2. CASE req[r].pc = "count" /\ docs' = docs
            BY <2>1, <2>2, <3>1, <3>2 DEF RequestKeeps
        <3>3. CASE req[r].pc = "prepare" /\ PrepareForReplacement(d, req[r].hash)
            <4>1. docs'[d].status = "pending" /\ docs'[d].hash = req[r].hash
                BY <1>0, <2>2, <3>1, <3>3, StatementsWrite, StatementsHash DEF LiveFile
            <4>2. req[r].hash = files[r]
                BY <1>2, <1>d, <3>1, <3>3 DEF Offers, LiveFile, LinkedPCs
            <4>3. QED
                BY <2>1, <2>2, <3>1, <3>3, <4>1, <4>2 DEF RequestKeeps, Kept
        <3>4. QED
            BY <2>1, <3>2, <3>3
    <2>4. LiveFile(req[r].doc)' => RequestKept(r)'
        BY <2>2, <2>3 DEF RequestKept, LiveFile, Of
    <2>5. AtWork(d)'
        BY <2>2 DEF AtWork, NamedPCs, Active, Over, Answers
    <2>6. QED
        BY <1>1, <1>2, <1>d, <2>1, <2>4, <2>5, ServedIsKept
<1>10. CASE Publish(r)
    <2>1. TaskAccepted(r) /\ req[r].pc = "publish"
        BY <1>10 DEF Publish, TaskAccepted, Undisturbed, dbVars, indexVars
    <2>2. req'[r].pc = "accepted"
        BY <1>0, <2>1, AcceptedPublishes DEF Publishes
    <2>3. PICK t : t = Task(r) /\ queue' = <<t>>
        <3>1. PICK t : t = Task(r)
            OBVIOUS
        <3>2. queue' = Append(queue, t)
            BY <2>1, <3>1 DEF TaskAccepted
        <3>3. QED
            BY <1>2, <3>1, <3>2
    <2>4. t.id = r /\ t.doc = d
        BY <1>d, <2>3 DEF Task
    <2>5. LiveFile(d) => StartKeeps(t.replace, docs[d], Of(d, vectors), Of(d, chunks), files[r])
        <3>1. SUFFICES ASSUME LiveFile(d)
                       PROVE  StartKeeps(t.replace, docs[d], Of(d, vectors), Of(d, chunks), files[r])
            OBVIOUS
        <3>2. Of(d, chunks) \subseteq Of(d, vectors) /\ docs[d].hash = files[r]
            BY <1>3, <1>d, <2>1, <3>1 DEF RequestKept, RequestKeeps, NamedPCs
        <3>3. QED
            BY <3>2 DEF StartKeeps, Droppable
    <2>6. LiveFile(t.doc)' => StartKept(t)'
        BY <2>1, <2>4, <2>5 DEF StartKept, TaskAccepted, LiveFile, Of
    <2>7. \A i \in DOMAIN queue' : queue'[i] = t
        BY <2>3
    <2>8. \A i \in DOMAIN queue' :
              queue'[i].id = r /\ (LiveFile(queue[i].doc)' => StartKept(queue[i])')
        BY <2>4, <2>6, <2>7 DEF StartKept, LiveFile
    <2>9. r \notin Active' /\ 1 \in DOMAIN queue' /\ worker' = None
        BY <1>2, <2>1, <2>2, <2>3 DEF Active, Over, Answers, TaskAccepted
    <2>10. AtWork(d)'
        BY <2>4, <2>7, <2>9 DEF AtWork
    <2>11. QED
        BY <1>1, <1>d, <2>8, <2>9, <2>10, ServedIsKept
<1>11. CASE /\ SoftDelete(r) \/ Wipe(r) \/ CountDown(r) \/ ClearVectors(r) \/ ClearChunks(r)
               \/ ResetStatus(r) \/ Republish(r) \/ Fetch(r)
    <2>1. ~LiveFile(d)' /\ ~Create(r)
        <3>1. ~Create(r) /\ req[r].pc \in NamedPCs
            BY <1>11 DEF SoftDelete, Wipe, CountDown, ClearVectors, ClearChunks, ResetStatus,
                         Republish, Fetch, Create, NamedPCs, ReindexPCs
        <3>2. CASE SoftDelete(r)
            <4>1. docs' = [docs EXCEPT ![d].live = FALSE] /\ d \in Requests
                BY <1>3, <1>d, <3>1, <3>2 DEF SoftDelete, Undisturbed
            <4>2. ~docs'[d].live
                BY <1>0, <4>1, Fields DEF ShapeInv
            <4>3. QED
                BY <3>1, <4>2 DEF LiveFile
        <3>3. CASE ~SoftDelete(r)
            <4>1. ~docs[d].live \/ docs[d].source \in Pages
                BY <1>0, <1>11, <1>d, <3>3
                   DEF RequestRow, Wipe, CountDown, ClearVectors, ClearChunks, ResetStatus,
                       Republish, Fetch, ReindexPCs
            <4>2. ~LiveFile(d)
                BY <4>1, SourcesAssumption DEF LiveFile
            <4>3. QED
                BY <1>3, <1>4, <3>1, <4>2
        <3>4. QED
            BY <3>2, <3>3
    <2>2. CASE Republish(r)
        <3>1. TaskAccepted(r)
            BY <2>2 DEF Republish, TaskAccepted, Undisturbed, dbVars, indexVars
        <3>2. req'[r].pc = "accepted"
            BY <1>0, <3>1, AcceptedPublishes DEF Publishes
        <3>3. PICK t : t = Task(r) /\ queue' = <<t>>
            <4>1. PICK t : t = Task(r)
                OBVIOUS
            <4>2. queue' = Append(queue, t)
                BY <3>1, <4>1 DEF TaskAccepted
            <4>3. QED
                BY <1>2, <4>1, <4>2
        <3>4. t.id = r /\ t.doc = d
            BY <1>d, <3>3 DEF Task
        <3>5. \A i \in DOMAIN queue' : queue'[i].id = r /\ ~LiveFile(queue[i].doc)'
            BY <2>1, <3>3, <3>4 DEF LiveFile
        <3>6. r \notin Active'
            BY <3>2 DEF Active, Over, Answers
        <3>7. QED
            BY <1>1, <1>d, <2>1, <3>5, <3>6, ServedIsKept
    <2>3. CASE CountDown(r) \/ Fetch(r)
        <3>1. Answer(r, "done") /\ queue' = queue
            BY <2>3 DEF CountDown, Fetch, Undisturbed, taskVars
        <3>2. r \notin Active'
            BY <1>0, <3>1, AnswerGives DEF Active, Over, Answers
        <3>3. QED
            BY <1>1, <1>2, <1>d, <2>1, <3>1, <3>2, ServedIsKept
    <2>4. CASE SoftDelete(r) \/ Wipe(r) \/ ClearVectors(r) \/ ClearChunks(r) \/ ResetStatus(r)
        <3>1. queue' = queue /\ \E p : Goto(r, p)
            BY <2>4 DEF SoftDelete, Wipe, ClearVectors, ClearChunks, ResetStatus, Undisturbed, taskVars
        <3>2. req'[r].doc = d
            BY <1>5, <3>1
        <3>3. ~LiveFile(req[r].doc)'
            BY <2>1, <3>2 DEF LiveFile
        <3>4. QED
            BY <1>1, <1>2, <1>d, <2>1, <3>1, <3>3, ServedIsKept
    <2>5. QED
        BY <1>11, <2>2, <2>3, <2>4
<1>12. CASE MarkUnpublished(r)
    BY <1>2, <1>12 DEF MarkUnpublished, Offers
<1>13. QED
    BY <1>6, <1>7, <1>8, <1>9, <1>10, <1>11, <1>12 DEF Serve

(*************************************************************************)
(* Beginning a request, and taking a task                                *)
(*************************************************************************)

LEMMA BeginKeepsKeptInv ==
    ASSUME Patient, Undisturbed, KeptInv, NEW r \in Requests, Begin(r) PROVE KeptInv'
<1>0. Inv /\ PipelineInv /\ ShapeInv /\ LinkInv
    BY DEF Undisturbed, Inv, RowInv, KeptInv
<1>1. /\ Quiet /\ UNCHANGED <<docs, chunks, vectors, queue, worker>>
      /\ \A x \in Requests \ {r} : req'[x] = req[x]
      /\ job' = job \/ \E n : job' = [job EXCEPT ![r].prev = n]
      /\ req'[r].pc \in NamedPCs =>
            /\ req'[r].doc \in Requests
            /\ req'[r].pc = "softDelete" \/ docs[req'[r].doc].source \in Pages
    BY <1>0, BeginStep DEF MayStart, dbVars, indexVars, NamedPCs, ReindexPCs
<1>2. Running' = {} /\ queue' = <<>> /\ worker' = None /\ Active' \subseteq {r}
    BY <1>0, <1>1, Fields DEF Quiet, Running, Active, ShapeInv, PipelineInv
<1>3. \A a, b \in Busy' : a = b
    BY <1>2 DEF Busy
<1>4. LinkInv'
    BY <1>0, <1>1, RequestKeepsLinkInv DEF Quiet
<1>5. \A e \in Requests : LiveFile(e) => KeptDoc(e)
    BY <1>1 DEF KeptInv, AtWork, Quiet
<1>6. \A e \in Requests : LiveFile(e)' => KeptDoc(e)'
    BY <1>1, <1>5 DEF LiveFile, KeptDoc, Of
<1>7. ASSUME req'[r].pc \in NamedPCs, LiveFile(req[r].doc)' PROVE RequestKept(r)'
    <2>1. PICK e \in Requests : e = req'[r].doc
        BY <1>1, <1>7
    <2>2. req'[r].pc = "softDelete"
        BY <1>1, <1>7, <2>1, SourcesAssumption DEF LiveFile
    <2>3. Kept(docs'[e], Of(e, vectors'), Of(e, chunks'))
        BY <1>6, <1>7, <2>1 DEF LiveFile, KeptDoc, Of
    <2>4. RequestKeeps(req'[r], docs'[e], Of(e, vectors'), Of(e, chunks'), files'[r])
        BY <2>2, <2>3 DEF RequestKeeps
    <2>5. QED
        BY <2>1, <2>4 DEF RequestKept, Of
<1>8. QED
    BY <1>2, <1>3, <1>4, <1>6, <1>7 DEF KeptInv

LEMMA TakeKeepsKeptInv == ASSUME Undisturbed, KeptInv, Take PROVE KeptInv'
<1>0. Inv /\ RowInv /\ PipelineInv /\ ShapeInv /\ LinkInv
    BY DEF Undisturbed, Inv, RowInv, KeptInv
<1>1. PICK t : \E k, d \in Requests : Takes(t, k, d)
    BY TakeTakes
<1>2. PICK k \in Requests, d \in Requests : Takes(t, k, d)
    BY <1>1
<1>3. /\ worker = None /\ 1 \in DOMAIN queue /\ t = queue[1] /\ t.id = k /\ t.doc = d
      /\ job'[k].pc = "load" /\ job'[k].doc = d /\ job'[k].replace = t.replace
      /\ ~job'[k].full /\ ~job'[k].failed
      /\ \A x \in Requests \ {k} : job'[x] = job[x]
      /\ worker' = k
      /\ UpdateParseStatus(d, "processing", 0)
      /\ UNCHANGED <<chunks, vectors, files, req, queue>>
    BY <1>2 DEF Takes
<1>4. req[k].pc = "accepted" /\ \A x \in Busy : x = k
    <2>1. k \in Busy /\ req[k].pc = "accepted"
        BY <1>0, <1>3 DEF Busy, PipelineInv
    <2>2. QED
        BY <2>1 DEF KeptInv
<1>5. /\ Active = {} /\ Running = {} /\ Active' = {} /\ Running' = {k}
      /\ \A i \in DOMAIN queue : queue[i].id = k /\ i = 1
    <2>1. Active = {} /\ \A i \in DOMAIN queue : queue[i].id = k
        BY <1>4 DEF Busy, Active, Over, Answers
    <2>2. Running = {}
        BY <1>0, <1>3, <1>4, NoneAssumption DEF Busy, Running, PipelineInv
    <2>3. \A i \in DOMAIN queue : i = 1
        BY <1>0, <1>3, <2>1 DEF PipelineInv
    <2>4. Active' = {} /\ Running' = {k}
        BY <1>3, <2>1, <2>2 DEF Active, Running
    <2>5. QED
        BY <2>1, <2>2, <2>3, <2>4
<1>6. LinkInv'
    BY <1>0, <1>2, TakeKeepsLinkInv
<1>7. /\ docs'[d].hash = docs[d].hash
      /\ docs'[d].live = docs[d].live /\ docs'[d].source = docs[d].source
      /\ \A e \in Requests \ {d} : docs'[e] = docs[e]
    <2>1. docs'[d].live = docs[d].live /\ \A e \in Requests \ {d} : docs'[e] = docs[e]
        BY <1>0, <1>3, StatementsWrite
    <2>2. docs'[d].hash = docs[d].hash
        BY <1>0, <1>3, StatementsHash
    <2>3. RowsKept
        <3>1. Made(d)
            BY <1>0, <1>3 DEF RowInv, TaskRows
        <3>2. QED
            BY <1>0, <1>3, <3>1, StatementKeepsRows
    <2>4. QED
        BY <2>1, <2>2, <2>3 DEF RowsKept
<1>8. ASSUME LiveFile(d)' PROVE RunKeeps(job'[k], docs'[d], Of(d, vectors'), Of(d, chunks'), files'[k])
    <2>1. StartKeeps(t.replace, docs[d], Of(d, vectors), Of(d, chunks), files[k])
        BY <1>3, <1>7, <1>8 DEF KeptInv, LiveFile, StartKept
    <2>2. StartKeeps(t.replace, docs'[d], Of(d, vectors'), Of(d, chunks'), files'[k])
        BY <1>3, <1>7, <2>1 DEF StartKeeps
    <2>3. QED
        BY <1>3, <2>2 DEF RunKeeps, EarlyPCs, LateFilePCs
<1>9. LiveFile(job[k].doc)' => RunKept(k)'
    BY <1>3, <1>8 DEF RunKept, Of
<1>10. ASSUME NEW e \in Requests, LiveFile(e)', ~AtWork(e)' PROVE KeptDoc(e)'
    <2>1. e # d
        BY <1>3, <1>5, <1>10 DEF AtWork
    <2>2. ~AtWork(e)
        BY <1>3, <1>5, <2>1 DEF AtWork
    <2>3. LiveFile(e) /\ docs'[e] = docs[e]
        BY <1>7, <1>10, <2>1 DEF LiveFile
    <2>4. QED
        BY <1>3, <2>2, <2>3 DEF KeptInv, KeptDoc, Of
<1>11. \A a, b \in Busy' : a = b
    BY <1>3, <1>5 DEF Busy
<1>12. WorkerRuns' /\ worker' # None
    BY <1>3, NoneAssumption DEF WorkerRuns, RunPCs, EarlyPCs
<1>13. QED
    BY <1>3, <1>5, <1>6, <1>9, <1>10, <1>11, <1>12 DEF KeptInv

(*************************************************************************)
(* The crash                                                             *)
(*************************************************************************)

\* What a run that is cut off has left is enough for the one that repeats it.
LEMMA CutOffKeeps ==
    ASSUME NEW run, NEW row, NEW V, NEW C, NEW file \in Contents \cup {None},
           RunKeeps(run, row, V, C, file), RunSees(run, row, V, C), run.pc \in RunPCs
    PROVE  StartKeeps(run.replace, row, V, C, file)
<1>0. None \notin Contents
    BY NoneAssumption
<1>1. CASE run.pc = "load"
    BY <1>1 DEF RunKeeps, EarlyPCs, LateFilePCs
<1>2. CASE run.pc \in {"syncStart", "readOld"}
    <2>1. /\ run.content \in Contents /\ run.content = file /\ row.hash = file /\ run.replace
          /\ Droppable(run.content, V, C)
        BY <1>2 DEF RunKeeps, EarlyPCs, LateFilePCs
    <2>2. QED
        BY <1>0, <2>1 DEF StartKeeps
<1>3. CASE run.pc \in {"dropVectors", "dropChunks"}
    <2>1. run.content \in Contents /\ run.content = file /\ row.hash = file /\ run.replace
        BY <1>3 DEF RunKeeps, EarlyPCs, LateFilePCs
    <2>2. /\ EachOnce(C) /\ TextsOf(C \ run.drop) = TextsOf(C) \cap Plain[run.content]
          /\ V = C \/ V = C \ run.drop
        BY <1>3, <2>1 DEF RunSees, Diff, Goal
    <2>3. Droppable(file, V, C)
        <3>1. SUFFICES ASSUME NEW x \in C \ V, x.text \in Plain[file] PROVE FALSE
            BY DEF Droppable
        <3>2. x \in run.drop /\ x.text \in TextsOf(C \ run.drop)
            BY <2>1, <2>2, <3>1 DEF TextsOf
        <3>3. PICK y \in C \ run.drop : y.text = x.text
            BY <3>2 DEF TextsOf
        <3>4. QED
            BY <2>2, <3>1, <3>2, <3>3 DEF EachOnce
    <2>4. QED
        BY <1>0, <2>1, <2>3 DEF StartKeeps
<1>4. CASE run.pc \in {"store", "dualWrite", "hash", "enrichment"}
    <2>1. run.content \in Contents /\ run.content = file /\ row.hash = file /\ C \subseteq V
        BY <1>4 DEF RunKeeps, EarlyPCs, LateFilePCs
    <2>2. QED
        BY <2>1 DEF StartKeeps, Droppable
<1>5. CASE run.pc = "cleanup" /\ ~run.failed
    <2>1. run.content \in Contents /\ run.content = file /\ row.hash = file /\ C \subseteq V
        BY <1>5 DEF RunKeeps, EarlyPCs, LateFilePCs
    <2>2. QED
        BY <2>1 DEF StartKeeps, Droppable
<1>6. CASE run.pc \in LateFilePCs \/ (run.pc = "cleanup" /\ run.failed)
    <2>1. file = None
        BY <1>6 DEF RunKeeps
    <2>2. C \subseteq V
        BY <1>6 DEF RunKeeps, LateFilePCs, Kept
    <2>3. QED
        BY <2>1, <2>2 DEF StartKeeps
<1>7. QED
    BY <1>1, <1>2, <1>3, <1>4, <1>5, <1>6 DEF RunPCs, EarlyPCs, LateFilePCs

LEMMA CrashKeepsKeptInv ==
    ASSUME Inv, RowInv, PatientInv, KeptInv, Exit PROVE KeptInv'
<1>0. RequestInv /\ PipelineInv /\ ShapeInv /\ LinkInv
    BY DEF Inv, RowInv, KeptInv
<1>1. UNCHANGED <<docs, chunks, vectors, files, queue>> /\ worker' = None
    BY DEF Exit, dbVars, indexVars
<1>2. Active' = {} /\ Running' = {}
    <2>1. \A r \in Requests : job'[r].pc = "off"
        BY Fields DEF Exit
    <2>2. \A r \in Requests : req'[r].pc \in Over \cup {"new"}
        <3>1. [NoReq EXCEPT !.pc = "dead"].pc = "dead"
            BY Fields
        <3>2. QED
            BY <3>1 DEF Exit, Active, Over
    <2>3. QED
        BY <2>1, <2>2 DEF Active, Running
<1>3. \A a, b \in Busy' : a = b
    BY <1>1, <1>2 DEF Busy, KeptInv
<1>4. LinkInv'
    BY <1>0, <1>1, <1>2 DEF LinkInv
<1>5. worker # None =>
          /\ worker \in Requests /\ Running = {worker} /\ DOMAIN queue = {1}
          /\ job[worker].doc = queue[1].doc /\ worker = queue[1].id /\ WorkerRuns
    <2>1. SUFFICES ASSUME worker # None PROVE
              /\ worker \in Requests /\ Running = {worker} /\ DOMAIN queue = {1}
              /\ job[worker].doc = queue[1].doc /\ worker = queue[1].id /\ WorkerRuns
        OBVIOUS
    <2>2. queue # <<>> /\ worker = queue[1].id /\ WorkerRuns
        BY <1>0, <2>1 DEF PipelineInv, KeptInv
    <2>3. PICK S : queue \in Seq(S)
        BY <1>0 DEF PipelineInv
    <2>4. worker \in Requests /\ job[worker].pc # "off"
        BY <1>0, <2>2, <2>3 DEF PipelineInv, WorkerRuns, RunPCs, EarlyPCs, LateFilePCs
    <2>5. Running = {worker} /\ DOMAIN queue = {1}
        BY <2>2, <2>4, OneRun DEF KeptInv
    <2>6. QED
        BY <1>0, <2>2, <2>4, <2>5 DEF LinkInv
<1>6. ASSUME NEW e \in Requests, LiveFile(e)', ~AtWork(e)' PROVE KeptDoc(e)'
    <2>1. LiveFile(e) /\ \A i \in DOMAIN queue : queue[i].doc # e
        BY <1>1, <1>6 DEF LiveFile, AtWork
    <2>2. ASSUME NEW j \in Running, job[j].doc = e PROVE FALSE
        <3>1. worker = j
            BY <2>1, <2>2, FileRunIsWorkers
        <3>2. j # None
            BY <2>2, NoneAssumption DEF Running
        <3>3. QED
            BY <1>5, <2>1, <2>2, <3>1, <3>2
    <2>3. KeptDoc(e)
        <3>1. CASE ~AtWork(e)
            BY <2>1, <3>1 DEF KeptInv
        <3>2. CASE AtWork(e)
            <4>1. PICK r \in Active : req[r].pc \in NamedPCs /\ req[r].doc = e
                BY <2>1, <2>2, <3>2 DEF AtWork
            <4>2. RequestKept(r) /\ Offers(r) /\ RequestRow(r)
                BY <1>0, <2>1, <4>1 DEF KeptInv, LinkInv, RowInv, Active
            <4>3. req[r].pc \in {"count", "publish", "prepare", "softDelete"}
                BY <2>1, <4>1, <4>2, SourcesAssumption DEF Offers, RequestRow, NamedPCs, LiveFile
            <4>4. RequestKeeps(req[r], docs[e], Of(e, vectors), Of(e, chunks), files[r])
                BY <4>1, <4>2 DEF RequestKept
            <4>5. Kept(docs[e], Of(e, vectors), Of(e, chunks))
                BY <4>3, <4>4 DEF RequestKeeps, Kept
            <4>6. QED
                BY <4>5 DEF KeptDoc
        <3>3. QED
            BY <3>1, <3>2
    <2>4. QED
        BY <1>1, <2>3 DEF KeptDoc, Of
<1>7. ASSUME NEW i \in DOMAIN queue, LiveFile(queue[i].doc) PROVE StartKept(queue[i])
    <2>1. CASE worker = None
        BY <1>7, <2>1 DEF KeptInv
    <2>2. CASE worker # None
        <3>1. PICK j \in Requests : j = worker /\ Running = {j}
            BY <1>5, <2>2
        <3>2. /\ queue[i].id = j /\ job[j].doc = queue[i].doc /\ queue[i].replace = job[j].replace
              /\ job[j].pc \in RunPCs
            BY <1>5, <1>7, <2>2, <3>1 DEF WorkerRuns
        <3>3. PICK d : d = job[j].doc
            OBVIOUS
        <3>4. /\ RunKeeps(job[j], docs[d], Of(d, vectors), Of(d, chunks), files[j])
              /\ RunSees(job[j], docs[d], Of(d, vectors), Of(d, chunks))
            BY <1>7, <3>1, <3>2, <3>3 DEF KeptInv, RunKept, PatientInv, MadeBy
        <3>5. files[j] \in Contents \cup {None}
            BY <1>0, <3>1 DEF RequestInv
        <3>6. StartKeeps(job[j].replace, docs[d], Of(d, vectors), Of(d, chunks), files[j])
            BY <3>2, <3>4, <3>5, CutOffKeeps
        <3>7. QED
            BY <3>2, <3>3, <3>6 DEF StartKept
    <2>3. QED
        BY <2>1, <2>2
<1>8. \A i \in DOMAIN queue' : LiveFile(queue[i].doc)' => StartKept(queue[i])'
    BY <1>1, <1>7 DEF LiveFile, StartKept, Of
<1>9. QED
    BY <1>1, <1>2, <1>3, <1>4, <1>6, <1>8 DEF KeptInv

(*************************************************************************)
(* The invariant                                                         *)
(*************************************************************************)

\* A step after which the system is sound is a crash of one that was calm, or fails
\* nowhere.
LEMMA SoundStep ==
    ASSUME CounterInv, [Next]_vars, Sound'
    PROVE  /\ Sound /\ ~stopping
           /\ \/ Calm /\ Exit
              \/ /\ ~Fault /\ \A j \in Requests : ~Breaks(j)
                 /\ \/ \E r \in Requests : Begin(r) \/ Serve(r) \/ Work(r)
                    \/ Take
                    \/ \E s \in Pages : ChangePage(s)
                    \/ UNCHANGED vars
<1> USE DEF CounterInv, Sound, Fault, Breaks, Cancelled
<1>1. CASE Take \/ \E r \in Requests : Begin(r) \/ Serve(r) \/ Work(r)
    <2>1. /\ faults' = faults \/ faults' = faults + 1
          /\ UNCHANGED <<crashes, shutdowns, stopping>>
        BY <1>1, CallsCount
    <2>2. QED
        BY <1>1, <2>1
<1>2. CASE \E s \in Pages : ChangePage(s)
    <2>1. UNCHANGED <<stopping, faults, crashes, shutdowns>>
        BY <1>2 DEF ChangePage
    <2>2. QED
        BY <1>2, <2>1
<1>3. CASE Crash \/ Stop
    BY <1>3 DEF Crash, Stop, Exit, Calm
<1>4. CASE Shutdown
    BY <1>4 DEF Shutdown
<1>5. CASE UNCHANGED vars
    BY <1>5 DEF vars, worldVars
<1>6. QED
    BY <1>1, <1>2, <1>3, <1>4, <1>5 DEF Next

LEMMA SameKeepsKeptInv ==
    ASSUME KeptInv, UNCHANGED <<docs, chunks, vectors, files, queue, worker, req, job>>
    PROVE  KeptInv'
<1>1. Active' = Active /\ Running' = Running /\ Busy' = Busy
    BY DEF Active, Running, Busy
<1>2. \A d \in Requests : /\ AtWork(d)' <=> AtWork(d)
                          /\ LiveFile(d)' <=> LiveFile(d)
                          /\ KeptDoc(d)' <=> KeptDoc(d)
    BY <1>1 DEF AtWork, LiveFile, KeptDoc, Of
<1>3. \A r \in Requests : /\ LiveFile(req[r].doc)' <=> LiveFile(req[r].doc)
                          /\ LiveFile(job[r].doc)' <=> LiveFile(job[r].doc)
                          /\ RequestKept(r)' <=> RequestKept(r)
                          /\ RunKept(r)' <=> RunKept(r)
    BY DEF LiveFile, RequestKept, RunKept, Of
<1>4. \A i \in DOMAIN queue : /\ LiveFile(queue[i].doc)' <=> LiveFile(queue[i].doc)
                              /\ StartKept(queue[i])' <=> StartKept(queue[i])
    BY DEF LiveFile, StartKept, Of
<1>5. LinkInv'
    BY <1>1 DEF KeptInv, LinkInv, Offers
<1>6. WorkerRuns' <=> WorkerRuns
    BY DEF WorkerRuns
<1>7. \A r \in Active \cup Running : r \in Requests
    BY DEF Active, Running
<1>8. QED
    BY <1>1, <1>2, <1>3, <1>4, <1>5, <1>6, <1>7 DEF KeptInv

LEMMA InitKeptInv == Init => KeptInv
<1> SUFFICES ASSUME Init PROVE KeptInv
    OBVIOUS
<1>1. /\ Active = {} /\ Running = {} /\ queue = <<>> /\ worker = None
      /\ \A d \in Requests : docs[d] = NoDoc
    BY Fields DEF Init, Active, Running
<1>2. \A d \in Requests : ~docs[d].live
    BY <1>1, OtherFields
<1>3. Busy = {}
    BY <1>1 DEF Busy
<1>4. QED
    BY <1>1, <1>2, <1>3 DEF KeptInv, LinkInv, LiveFile

LEMMA NextKeepsKeptInv ==
    ASSUME Patient, \A c \in Contents : ChunksOf(c) = Plain[c],
           Inv, RowInv, CalmInv, Calm => PatientInv, Sound => KeptInv, [Next]_vars
    PROVE  Sound' => KeptInv'
<1> SUFFICES ASSUME Sound' PROVE KeptInv'
    OBVIOUS
<1>1. /\ Sound /\ ~stopping /\ KeptInv
      /\ \/ Calm /\ Exit
         \/ /\ ~Fault /\ \A j \in Requests : ~Breaks(j)
            /\ \/ \E r \in Requests : Begin(r) \/ Serve(r) \/ Work(r)
               \/ Take
               \/ \E s \in Pages : ChangePage(s)
               \/ UNCHANGED vars
    BY SoundStep DEF CalmInv
<1>2. CASE Calm /\ Exit
    BY <1>1, <1>2, CrashKeepsKeptInv
<1>3. CASE ~(Calm /\ Exit)
    <2>1. Undisturbed
        BY <1>1, <1>3 DEF Undisturbed
    <2>2. ASSUME NEW r \in Requests, Begin(r) \/ Serve(r) \/ Work(r) PROVE KeptInv'
        BY <1>1, <2>1, <2>2, BeginKeepsKeptInv, ServeKeepsKeptInv, WorkKeepsKeptInv
    <2>3. CASE Take
        BY <1>1, <2>1, <2>3, TakeKeepsKeptInv
    <2>4. CASE (\E s \in Pages : ChangePage(s)) \/ UNCHANGED vars
        <3>1. UNCHANGED <<docs, chunks, vectors, files, queue, worker, req, job>>
            BY <2>4 DEF ChangePage, vars, dbVars, indexVars, taskVars
        <3>2. QED
            BY <1>1, <3>1, SameKeepsKeptInv
    <2>5. QED
        BY <1>1, <1>3, <2>2, <2>3, <2>4
<1>4. QED
    BY <1>2, <1>3

LEMMA KeptInvariance ==
    ASSUME Patient, \A c \in Contents : ChunksOf(c) = Plain[c]
    PROVE  Spec => [](Inv /\ RowInv /\ CalmInv /\ (Calm => PatientInv) /\ (Sound => KeptInv))
<1>1. Init => (Sound => KeptInv)
    BY InitKeptInv
<1>2. Inv /\ RowInv /\ CalmInv /\ (Calm => PatientInv) /\ (Sound => KeptInv) /\ [Next]_vars
         => (Sound => KeptInv)'
    BY NextKeepsKeptInv
<1>3. QED
    BY <1>1, <1>2, PatientInvariance, PTL DEF Spec

\* A client that waits for each of its requests, and a process that crashes once, at any
\* step: when its task has been redelivered and is done, all of the file is found, and
\* so is each chunk that is listed.  The run that was cut off leaves vectors
\* without rows in table chunks, or, between the two deletions of a replacement, rows
\* without vectors, but only of texts that the file no longer has.
THEOREM CrashNothingMissing ==
    ASSUME Patient, \A c \in Contents : ChunksOf(c) = Plain[c]
    PROVE  Spec => [](Sound => NothingMissing)
<1>1. ASSUME KeptInv PROVE NothingMissing
    <2>1. SUFFICES ASSUME NEW d \in Requests, Done(d), docs[d].source \in Files
                   PROVE  /\ Plain[docs[d].hash] \subseteq Indexed(d)
                          /\ Of(d, chunks) \subseteq Of(d, vectors)
        BY DEF NothingMissing
    <2>2. LiveFile(d) /\ docs[d].status = "completed" /\ ~AtWork(d)
        BY <2>1, NotOwned DEF Done, LiveFile
    <2>3. KeptDoc(d)
        BY <1>1, <2>2 DEF KeptInv
    <2>4. QED
        BY <2>2, <2>3 DEF KeptDoc, Kept, Indexed
<1>2. (Sound => KeptInv) => (Sound => NothingMissing)
    BY <1>1
<1>3. QED
    BY <1>2, KeptInvariance, PTL
=============================================================================
