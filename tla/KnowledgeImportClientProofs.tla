---------------------- MODULE KnowledgeImportClientProofs ----------------------
(***************************************************************************)
(* One client of the knowledge base, as long as nothing fails.             *)
(*                                                                         *)
(* First a client that waits for each of its requests to take effect       *)
(* before it makes the next: what is indexed of a document is one version  *)
(* of its source, each chunk once and in both stores, and nothing is left  *)
(* of a deleted one.  Patient keeps the requests apart but for the steps   *)
(* of one of them: its handler, then its task, then the run.  PatientInv   *)
(* says what each of these steps has made of the one document that is      *)
(* being changed, and that all the others are settled.                     *)
(*                                                                         *)
(* Then one whose requests come one at a time, but overlap with the        *)
(* worker: several uploads of a document may wait in the queue behind the  *)
(* run of an earlier one, and the row already has the hash of one of them. *)
(* ClientInv says that this hash is that of what is indexed, or of what a  *)
(* task still in the queue will index.                                     *)
(***************************************************************************)
EXTENDS KnowledgeImportProofs

\* The requests that have something under way: a handler, a task or a run.
Busy == Active \cup {queue[i].id : i \in DOMAIN queue} \cup Running

\* Document d is being changed.
AtWork(d) ==
    \/ \E r \in Active : req[r].pc \in NamedPCs /\ req[r].doc = d
    \/ worker = None /\ \E i \in DOMAIN queue : queue[i].doc = d
    \/ \E j \in Running : job[j].doc = d

\* The chunks C of a document in table chunks, and V in the vector store: they are
\* the same, and no text is there twice.
EachOnce(S) == \A x, y \in S : x.text = y.text => x = y
Coherent(V, C) == V = C /\ EachOnce(C)

\* They are one version of the source, of which the row gives the number of chunks.
OneVersion(row, C) ==
    \E c \in Contents : \E T \in {Plain[c], ChunksOf(c)} :
        TextsOf(C) = T /\ row.count = Cardinality(T)

\* Nothing is left to do.
Settled(row, V, C) ==
    IF row.live THEN Coherent(V, C) /\ (row.status = "completed" => OneVersion(row, C))
                ELSE V = {}

\* What an import starts from: an insertion, from nothing.
StartsFrom(replace, row, V, C) == row.live /\ Coherent(V, C) /\ (~replace => C = {})

\* What request q relies on, at the step it is at.
RequestSees(q, row, V, C) ==
    LET at(S) == q.pc \in S IN
    /\ ~at({"markFailed"})
    /\ at(NamedPCs \ {"wipe", "countDown"}) => row.live
    /\ at((UploadPCs \cup ReindexPCs) \ {"publish"}) => ~q.replace
    /\ at({"prepare"}) => Coherent(V, C)
    /\ at({"count", "publish", "resetStatus", "republish"}) => StartsFrom(q.replace, row, V, C)
    /\ at({"clearChunks", "countDown"}) => V = {}
    /\ at({"fetch"}) => Settled(row, V, C)

\* What a run is to make of the document: a replacement goes by Plain.
Goal(run) == IF run.replace THEN Plain[run.content] ELSE ChunksOf(run.content)

Targets(run) == ~run.failed /\ run.content \in Contents /\ run.count = Cardinality(Goal(run))

\* ReadOld has found out what to drop and what to add.
Diff(run, C) ==
    /\ EachOnce(C) /\ run.drop \subseteq C
    /\ TextsOf(C \ run.drop) = TextsOf(C) \cap Goal(run)
    /\ run.add = Goal(run) \ TextsOf(C)

\* What a run has made of its document, at the step it is at.
RunSees(run, row, V, C) ==
    LET at(S) == run.pc \in S IN
    /\ row.live /\ ~run.full
    /\ at({"load"}) => ~run.failed /\ StartsFrom(run.replace, row, V, C)
    /\ at({"syncStart", "readOld"}) =>
          ~run.failed /\ run.replace /\ run.content \in Contents /\ Coherent(V, C)
    /\ at({"dropVectors"}) => Targets(run) /\ Diff(run, C) /\ V = C
    /\ at({"dropChunks"}) => Targets(run) /\ Diff(run, C) /\ V = C \ run.drop
    /\ at({"store"}) =>
          /\ Targets(run) /\ Coherent(V, C)
          /\ TextsOf(C) \cap run.add = {} /\ TextsOf(C) \cup run.add = Goal(run)
    /\ at({"dualWrite"}) =>
          Targets(run) /\ V = C \cup run.new /\ EachOnce(V) /\ TextsOf(V) = Goal(run)
    /\ at({"hash", "enrichment", "previous", "complete"}) \/ (at({"cleanup"}) /\ ~run.failed) =>
          Targets(run) /\ Coherent(V, C) /\ TextsOf(C) = Goal(run)
    /\ at({"cleanup", "markFailed"}) => Coherent(V, C)
    /\ at({"addChunks", "ack"}) => Settled(row, V, C)

SettledDoc(d)  == Settled(docs[d], Of(d, vectors), Of(d, chunks))
StartsTask(t)  == StartsFrom(t.replace, docs[t.doc], Of(t.doc, vectors), Of(t.doc, chunks))
SeenBy(r) ==
    LET d == req[r].doc IN RequestSees(req[r], docs[d], Of(d, vectors), Of(d, chunks))
MadeBy(j) ==
    LET d == job[j].doc IN RunSees(job[j], docs[d], Of(d, vectors), Of(d, chunks))

PatientInv ==
    /\ page \in [Pages -> Contents]
    /\ \A a, b \in Busy : a = b
    /\ \A d \in Requests : ~AtWork(d) => SettledDoc(d)
    /\ \A r \in Active : IF req[r].pc \in NamedPCs THEN SeenBy(r) ELSE ~req[r].replace
    /\ worker = None => \A i \in DOMAIN queue : StartsTask(queue[i])
    /\ \A j \in Running : MadeBy(j)

(*************************************************************************)
(* Chunks and their texts                                                *)
(*************************************************************************)

LEMMA TextsOfUnion ==
    ASSUME NEW S, NEW T PROVE TextsOf(S \cup T) = TextsOf(S) \cup TextsOf(T)
BY DEF TextsOf

LEMMA EachOnceUnion ==
    ASSUME NEW S, NEW T, EachOnce(S), EachOnce(T), TextsOf(S) \cap TextsOf(T) = {}
    PROVE  EachOnce(S \cup T)
<1>1. \A x \in S, y \in T : x.text # y.text
    BY DEF TextsOf
<1>2. QED
    BY <1>1 DEF EachOnce

\* What a run stores are the texts it adds, each once.
LEMMA NewChunksAre ==
    ASSUME NEW j
    PROVE  /\ TextsOf(NewChunks(j)) = job[j].add /\ EachOnce(NewChunks(j))
           /\ \A x \in NewChunks(j) : x.doc = job[j].doc
<1> DEFINE chunk(t) == [doc |-> job[j].doc, text |-> t, nr |-> Fresh(job[j].doc, t)]
<1>1. NewChunks(j) = {chunk(t) : t \in job[j].add}
    BY DEF NewChunks
<1>2. \A t : chunk(t).text = t /\ chunk(t).doc = job[j].doc
    OBVIOUS
<1> HIDE DEF chunk
<1>3. QED
    BY <1>1, <1>2 DEF TextsOf, EachOnce

\* The fields of the records, further.
LEMMA OtherFields == NoJob.failed = FALSE /\ NoReq.replace = FALSE /\ NoDoc.live = FALSE
BY DEF NoJob, NoReq, NoDoc

(*************************************************************************)
(* The steps of a run                                                    *)
(*************************************************************************)

\* What the statements on table knowledges make of the row of document d.
LEMMA StatementsWrite ==
    ASSUME ShapeInv, NEW d \in Requests
    PROVE  /\ \A s, n : UpdateParseStatus(d, s, n) =>
                 /\ docs'[d].live = docs[d].live /\ docs'[d].status = s /\ docs'[d].count = n
                 /\ \A e \in Requests \ {d} : docs'[e] = docs[e]
           /\ \A h : UpdateContentHash(d, h) =>
                 /\ docs'[d].live = docs[d].live /\ docs'[d].status = docs[d].status
                 /\ docs'[d].count = docs[d].count
                 /\ \A e \in Requests \ {d} : docs'[e] = docs[e]
           /\ \A h : PrepareForReplacement(d, h) /\ docs[d].live =>
                 /\ docs'[d].live /\ docs'[d].status = "pending"
                 /\ \A e \in Requests \ {d} : docs'[e] = docs[e]
<1> USE Fields DEF ShapeInv
<1>1. ASSUME NEW s, NEW n, UpdateParseStatus(d, s, n)
      PROVE  /\ docs'[d].live = docs[d].live /\ docs'[d].status = s /\ docs'[d].count = n
             /\ \A e \in Requests \ {d} : docs'[e] = docs[e]
    BY <1>1 DEF UpdateParseStatus
<1>2. ASSUME NEW h, UpdateContentHash(d, h)
      PROVE  /\ docs'[d].live = docs[d].live /\ docs'[d].status = docs[d].status
             /\ docs'[d].count = docs[d].count
             /\ \A e \in Requests \ {d} : docs'[e] = docs[e]
    BY <1>2 DEF UpdateContentHash
<1>3. ASSUME NEW h, PrepareForReplacement(d, h), docs[d].live
      PROVE  /\ docs'[d].live /\ docs'[d].status = "pending"
             /\ \A e \in Requests \ {d} : docs'[e] = docs[e]
    BY <1>3 DEF PrepareForReplacement
<1>4. QED
    BY <1>1, <1>2, <1>3

\* Two records of a run that differ at most in the step it is at, prev and hash.
SameRun(run, run2) ==
    /\ run2.replace = run.replace /\ run2.content = run.content /\ run2.full = run.full
    /\ run2.drop = run.drop /\ run2.add = run.add /\ run2.new = run.new
    /\ run2.count = run.count /\ run2.failed = run.failed

LEMMA StepIsSameRun ==
    ASSUME ShapeInv, NEW j \in Requests
    PROVE  \A p : Step(j, p) => SameRun(job[j], job'[j]) /\ job'[j].pc = p
BY Fields DEF ShapeInv, Step, SameRun

LEMMA SameRunSameGoal ==
    ASSUME NEW run, NEW run2, SameRun(run, run2)
    PROVE  /\ Goal(run2) = Goal(run) /\ (Targets(run2) <=> Targets(run))
           /\ \A C : Diff(run2, C) <=> Diff(run, C)
BY DEF SameRun, Goal, Targets, Diff

\* Each step of a run makes of the document what the next one relies on.
LEMMA WorkMakes ==
    ASSUME Undisturbed, page \in [Pages -> Contents], NEW j \in Requests, MadeBy(j),
           Work(j), ~End(j)
    PROVE  MadeBy(j)'
<1> DEFINE d == job[j].doc
           V == Of(d, vectors)
           C == Of(d, chunks)
           W == Of(d, vectors')
           D == Of(d, chunks')
           run == job[j]
           run2 == job'[j]
           row == docs[d]
           row2 == docs'[d]
<1>0. /\ Inv /\ RequestInv /\ ShapeInv /\ PipelineInv /\ RunRow(j) /\ RunSees(run, row, V, C)
      /\ run2.doc = d /\ run.pc # "off"
    <2>1. Inv /\ RequestInv /\ ShapeInv /\ PipelineInv /\ RunRow(j) /\ RunSees(run, row, V, C)
        BY DEF Undisturbed, Inv, RowInv, MadeBy
    <2>2. run2.doc = d /\ run.pc # "off"
        BY <2>1, WorkIsRun DEF RunGoesOn
    <2>3. QED
        BY <2>1, <2>2
<1>1. d \in Requests
    BY <1>0 DEF RunRow
<1>2. SUFFICES RunSees(run2, row2, W, D)
    BY <1>0 DEF MadeBy, Of
<1>3. \A n : Fail(j, n) =>
          /\ run2.pc = "cleanup" /\ run2.failed /\ run2.full = run.full
    BY <1>0, Fields DEF ShapeInv, Fail
<1>4. chunks' = chunks /\ vectors' = vectors => V = W /\ C = D
    OBVIOUS
<1>5. docs' = docs => row2 = row
    OBVIOUS
<1> HIDE DEF d, V, C, W, D, run, run2, row, row2
<1>6. CASE Load(j)
    <2> DEFINE c == IF job[j].source \in Pages THEN page[job[j].source] ELSE files[j]
    <2>1. /\ \/ Fail(j, 0)
             \/ /\ c # None /\ run.replace
                /\ job' = [job EXCEPT ![j].pc = "syncStart", ![j].content = c]
             \/ /\ c # None /\ ~run.replace
                /\ job' = [job EXCEPT ![j].pc = "store", ![j].content = c,
                              ![j].add = ChunksOf(c), ![j].count = Cardinality(ChunksOf(c))]
          /\ run.pc = "load" /\ row2 = row /\ V = W /\ C = D
        BY <1>4, <1>5, <1>6 DEF Load, dbVars, indexVars, run
    <2>2. c \in Contents \cup {None}
        BY <1>0 DEF RequestInv
    <2>3. ~run.failed /\ ~run.full /\ StartsFrom(run.replace, row, V, C)
        BY <1>0, <2>1 DEF RunSees
    <2> HIDE DEF c
    <2>4. CASE Fail(j, 0)
        BY <1>3, <2>1, <2>3, <2>4 DEF RunSees, StartsFrom
    <2>5. CASE run.replace /\ c # None
               /\ job' = [job EXCEPT ![j].pc = "syncStart", ![j].content = c]
        <3>1. /\ run2.pc = "syncStart" /\ run2.content = c /\ run2.full = run.full
              /\ run2.failed = run.failed /\ run2.replace = run.replace
            BY <1>0, <2>5, Fields DEF ShapeInv, run, run2
        <3>2. QED
            BY <2>1, <2>2, <2>3, <2>5, <3>1 DEF RunSees, StartsFrom
    <2>6. CASE ~run.replace /\ c # None
               /\ job' = [job EXCEPT ![j].pc = "store", ![j].content = c,
                             ![j].add = ChunksOf(c), ![j].count = Cardinality(ChunksOf(c))]
        <3>1. /\ run2.pc = "store" /\ run2.content = c /\ run2.full = run.full
              /\ run2.failed = run.failed /\ run2.replace = run.replace
              /\ run2.add = ChunksOf(c) /\ run2.count = Cardinality(ChunksOf(c))
            BY <1>0, <2>6, Fields DEF ShapeInv, run, run2
        <3>2. Goal(run2) = ChunksOf(c) /\ Targets(run2)
            BY <2>2, <2>3, <2>6, <3>1 DEF Goal, Targets
        <3>3. Coherent(V, C) /\ TextsOf(C) = {}
            BY <2>3, <2>6 DEF StartsFrom, TextsOf
        <3>4. QED
            BY <2>1, <2>3, <3>1, <3>2, <3>3 DEF RunSees, StartsFrom
    <2>7. QED
        BY <2>1, <2>4, <2>5, <2>6
<1>7. CASE SyncStart(j)
    <2>1. /\ run.pc = "syncStart" /\ Step(j, "readOld") /\ V = W /\ C = D
          /\ UpdateParseStatus(d, "processing", 0)
        BY <1>4, <1>7 DEF SyncStart, Undisturbed, indexVars, run, d
    <2>2. SameRun(run, run2) /\ run2.pc = "readOld" /\ row2.live = row.live
        BY <1>0, <1>1, <2>1, StepIsSameRun, StatementsWrite DEF run, run2, row, row2
    <2>3. QED
        BY <1>0, <2>1, <2>2 DEF RunSees, SameRun
<1>8. CASE ReadOld(j)
    <2>1. PICK retained \in SUBSET C :
            /\ TextsOf(retained) = TextsOf(C) \cap Plain[run.content]
            /\ job' = [job EXCEPT ![j] = [@ EXCEPT
                  !.pc = IF C \ retained # {} THEN "dropVectors"
                         ELSE IF Plain[run.content] \ TextsOf(C) # {} THEN "store" ELSE "hash",
                  !.drop = C \ retained, !.add = Plain[run.content] \ TextsOf(C),
                  !.count = Cardinality(Plain[run.content])]]
        BY <1>8 DEF ReadOld, Undisturbed, C, d, run
    <2>2. run.pc = "readOld" /\ V = W /\ C = D /\ row2 = row
        BY <1>4, <1>5, <1>8 DEF ReadOld, dbVars, indexVars, run
    <2>3. /\ run2.pc = IF C \ retained # {} THEN "dropVectors"
                       ELSE IF Plain[run.content] \ TextsOf(C) # {} THEN "store" ELSE "hash"
          /\ run2.drop = C \ retained /\ run2.add = Plain[run.content] \ TextsOf(C)
          /\ run2.count = Cardinality(Plain[run.content])
          /\ run2.content = run.content /\ run2.full = run.full
          /\ run2.failed = run.failed /\ run2.replace = run.replace
        BY <1>0, <2>1, Fields DEF ShapeInv, run, run2
    <2>4. /\ row.live /\ ~run.full /\ ~run.failed /\ run.replace /\ run.content \in Contents
          /\ V = C /\ EachOnce(C)
        BY <1>0, <2>2 DEF RunSees, Coherent
    <2>5. Goal(run2) = Plain[run.content] /\ Targets(run2)
        BY <2>3, <2>4 DEF Goal, Targets
    <2>6. C \ run2.drop = retained
        BY <2>3
    <2>7. CASE C \ retained # {}
        <3>1. Diff(run2, C)
            BY <2>1, <2>3, <2>4, <2>5, <2>6 DEF Diff
        <3>2. QED
            BY <2>2, <2>3, <2>4, <2>5, <2>7, <3>1 DEF RunSees
    <2>8. CASE C \ retained = {}
        <3>1. TextsOf(C) = TextsOf(C) \cap Goal(run2)
            BY <2>1, <2>5, <2>6, <2>8
        <3>2. TextsOf(C) \cap run2.add = {} /\ TextsOf(C) \cup run2.add = Goal(run2)
            BY <2>3, <2>5, <3>1
        <3>3. run2.add = {} => TextsOf(C) = Goal(run2)
            BY <3>2
        <3>4. run2.pc = IF run2.add # {} THEN "store" ELSE "hash"
            BY <2>3, <2>8
        <3>5. QED
            BY <2>2, <2>3, <2>4, <2>5, <3>2, <3>3, <3>4 DEF RunSees, Coherent
    <2>9. QED
        BY <2>7, <2>8
<1>9. CASE DropVectors(j)
    <2>1. /\ run.pc = "dropVectors" /\ Step(j, "dropChunks") /\ row2 = row /\ C = D
          /\ vectors' = vectors \ Dropped(j, vectors) /\ ~run.full
        BY <1>0, <1>4, <1>5, <1>9 DEF DropVectors, Undisturbed, dbVars, run, C, D, RunSees
    <2>2. W = V \ run.drop
        BY <2>1 DEF Dropped, W, V, Of, run
    <2>3. SameRun(run, run2) /\ run2.pc = "dropChunks"
        BY <1>0, <2>1, StepIsSameRun DEF run, run2
    <2>4. Targets(run2) /\ Diff(run2, C) /\ V = C /\ row.live
        BY <1>0, <2>1, <2>3, SameRunSameGoal DEF RunSees
    <2>5. QED
        BY <2>1, <2>2, <2>3, <2>4 DEF RunSees, SameRun
<1>10. CASE DropChunks(j)
    <2>1. /\ run.pc = "dropChunks" /\ row2 = row /\ V = W
          /\ chunks' = chunks \ Dropped(j, chunks) /\ ~run.full
          /\ job' = [job EXCEPT ![j].pc = IF run.add = {} THEN "hash" ELSE "store",
                                ![j].drop = {}]
        BY <1>0, <1>4, <1>5, <1>10 DEF DropChunks, Undisturbed, dbVars, run, V, W, RunSees
    <2>2. D = C \ run.drop
        BY <2>1 DEF Dropped, C, D, Of, run
    <2>3. /\ run2.pc = (IF run.add = {} THEN "hash" ELSE "store")
          /\ run2.add = run.add /\ run2.count = run.count /\ run2.content = run.content
          /\ run2.full = run.full /\ run2.failed = run.failed /\ run2.replace = run.replace
        BY <1>0, <2>1, Fields DEF ShapeInv, run, run2
    <2>4. Targets(run) /\ Diff(run, C) /\ V = C \ run.drop /\ row.live
        BY <1>0, <2>1 DEF RunSees
    <2>5. Targets(run2) /\ Goal(run2) = Goal(run)
        BY <2>3, <2>4 DEF Targets, Goal
    <2>6. Coherent(W, D)
        BY <2>1, <2>2, <2>4 DEF Diff, Coherent, EachOnce
    <2>7. TextsOf(D) \cap run2.add = {} /\ TextsOf(D) \cup run2.add = Goal(run2)
        BY <2>2, <2>3, <2>4, <2>5 DEF Diff
    <2>8. QED
        BY <2>1, <2>3, <2>4, <2>5, <2>6, <2>7 DEF RunSees
<1>11. CASE Store(j)
    <2> DEFINE new == NewChunks(j)
    <2>1. /\ vectors' = vectors \cup new /\ C = D /\ row2 = row /\ run.pc = "store"
          /\ job' = [job EXCEPT ![j].pc = "dualWrite", ![j].new = new, ![j].add = {}]
        BY <1>4, <1>5, <1>11 DEF Store, Undisturbed, dbVars, run, C, D
    <2>2. /\ TextsOf(new) = run.add /\ EachOnce(new) /\ \A x \in new : x.doc = d
        BY NewChunksAre DEF run, d
    <2> HIDE DEF new
    <2>3. W = V \cup new
        BY <2>1, <2>2 DEF W, V, Of
    <2>4. /\ run2.pc = "dualWrite" /\ run2.new = new /\ run2.count = run.count
          /\ run2.content = run.content /\ run2.full = run.full
          /\ run2.failed = run.failed /\ run2.replace = run.replace
        BY <1>0, <2>1, Fields DEF ShapeInv, run, run2
    <2>5. /\ Targets(run) /\ V = C /\ EachOnce(C) /\ row.live /\ ~run.full
          /\ TextsOf(C) \cap run.add = {} /\ TextsOf(C) \cup run.add = Goal(run)
        BY <1>0, <2>1 DEF RunSees, Coherent
    <2>6. Targets(run2) /\ Goal(run2) = Goal(run)
        BY <2>4, <2>5 DEF Targets, Goal
    <2>7. EachOnce(W) /\ TextsOf(W) = Goal(run2)
        <3>1. TextsOf(C) \cap TextsOf(new) = {} /\ W = C \cup new
            BY <2>2, <2>3, <2>5
        <3>2. EachOnce(C \cup new) /\ TextsOf(C \cup new) = TextsOf(C) \cup TextsOf(new)
            BY <2>2, <2>5, <3>1, EachOnceUnion, TextsOfUnion
        <3>3. QED
            BY <2>2, <2>5, <2>6, <3>1, <3>2
    <2>8. QED
        BY <2>1, <2>3, <2>4, <2>5, <2>6, <2>7 DEF RunSees
<1>12. CASE DualWrite(j)
    <2>1. /\ chunks' = chunks \cup run.new /\ V = W /\ row2 = row /\ run.pc = "dualWrite"
          /\ job' = [job EXCEPT ![j].pc = IF ~run.replace /\ DocReader THEN "enrichment"
                                                                     ELSE "hash",
                                ![j].new = {}]
        BY <1>4, <1>5, <1>12 DEF DualWrite, Undisturbed, dbVars, run, V, W
    <2>2. D = C \cup run.new
        BY <1>0, <2>1 DEF RunRow, D, C, Of, run, d
    <2>3. /\ run2.pc \in {"enrichment", "hash"} /\ run2.count = run.count
          /\ run2.content = run.content /\ run2.full = run.full
          /\ run2.failed = run.failed /\ run2.replace = run.replace
        BY <1>0, <2>1, Fields DEF ShapeInv, run, run2
    <2>4. /\ Targets(run) /\ V = C \cup run.new /\ EachOnce(V) /\ TextsOf(V) = Goal(run)
          /\ row.live /\ ~run.full
        BY <1>0, <2>1 DEF RunSees
    <2>5. Targets(run2) /\ Goal(run2) = Goal(run)
        BY <2>3, <2>4 DEF Targets, Goal
    <2>6. QED
        BY <2>1, <2>2, <2>3, <2>4, <2>5 DEF RunSees, Coherent
<1>13. CASE WriteHash(j) \/ MarkEnrichment(j)
    <2>1. PICK p \in {"enrichment", "cleanup"} : Step(j, p)
        BY <1>13 DEF WriteHash, MarkEnrichment
    <2>2. /\ run.pc \in {"hash", "enrichment"} /\ V = W /\ C = D
          /\ docs' = docs \/ UpdateContentHash(d, run.content)
        BY <1>4, <1>13 DEF WriteHash, MarkEnrichment, UpdateEnrichmentStatus, Undisturbed,
                           indexVars, run, d
    <2>3. SameRun(run, run2) /\ run2.pc = p /\ row2.live = row.live
        BY <1>0, <1>1, <2>1, <2>2, StepIsSameRun, StatementsWrite DEF run, run2, row, row2
    <2>4. Goal(run2) = Goal(run) /\ (Targets(run2) <=> Targets(run))
        BY <2>3, SameRunSameGoal
    <2>5. QED
        BY <1>0, <2>2, <2>3, <2>4 DEF RunSees, SameRun
<1>14. CASE Cleanup(j)
    <2>1. PICK p : Step(j, p) /\ p = IF run.failed THEN "markFailed" ELSE "previous"
        BY <1>14 DEF Cleanup, run
    <2>2. run.pc = "cleanup" /\ V = W /\ C = D /\ row2 = row
        BY <1>4, <1>5, <1>14 DEF Cleanup, indexVars, dbVars, run
    <2>3. SameRun(run, run2) /\ run2.pc = p
        BY <1>0, <2>1, StepIsSameRun DEF run, run2
    <2>4. Goal(run2) = Goal(run) /\ (Targets(run2) <=> Targets(run))
        BY <2>3, SameRunSameGoal
    <2>5. QED
        BY <1>0, <2>1, <2>2, <2>3, <2>4 DEF RunSees, SameRun
<1>15. CASE ReadPrevious(j)
    <2>1. PICK n : job' = [job EXCEPT ![j].pc = "complete", ![j].prev = n]
        BY <1>15 DEF ReadPrevious, Undisturbed
    <2>2. run.pc = "previous" /\ V = W /\ C = D /\ row2 = row
        BY <1>4, <1>5, <1>15 DEF ReadPrevious, indexVars, dbVars, run
    <2>3. SameRun(run, run2) /\ run2.pc = "complete"
        BY <1>0, <2>1, Fields DEF ShapeInv, SameRun, run, run2
    <2>4. Goal(run2) = Goal(run) /\ (Targets(run2) <=> Targets(run))
        BY <2>3, SameRunSameGoal
    <2>5. QED
        BY <1>0, <2>2, <2>3, <2>4 DEF RunSees, SameRun
<1>16. CASE Complete(j)
    <2>1. /\ Step(j, "addChunks") /\ UpdateParseStatus(d, "completed", run.count)
          /\ run.pc = "complete" /\ V = W /\ C = D
        BY <1>4, <1>16 DEF Complete, indexVars, Undisturbed, run, d
    <2>2. /\ SameRun(run, run2) /\ run2.pc = "addChunks"
          /\ row2.live = row.live /\ row2.count = run.count
        BY <1>0, <1>1, <2>1, StepIsSameRun, StatementsWrite DEF run, run2, row, row2
    <2>3. Targets(run) /\ Coherent(V, C) /\ TextsOf(C) = Goal(run) /\ row.live /\ ~run.full
        BY <1>0, <2>1 DEF RunSees
    <2>4. OneVersion(row2, C)
        BY <2>2, <2>3 DEF OneVersion, Targets, Goal
    <2>5. QED
        BY <2>1, <2>2, <2>3, <2>4 DEF RunSees, Settled, SameRun
<1>17. CASE AddChunks(j)
    <2>1. Step(j, "ack") /\ run.pc = "addChunks" /\ V = W /\ C = D /\ row2 = row
        BY <1>4, <1>5, <1>17 DEF AddChunks, IncrementCounts, indexVars, Undisturbed, run
    <2>2. SameRun(run, run2) /\ run2.pc = "ack"
        BY <1>0, <2>1, StepIsSameRun DEF run, run2
    <2>3. QED
        BY <1>0, <2>1, <2>2 DEF RunSees, SameRun
<1>18. CASE MarkFailed(j)
    <2>1. /\ Step(j, "ack") /\ UpdateParseStatus(d, "failed", run.count)
          /\ run.pc = "markFailed" /\ V = W /\ C = D
        BY <1>4, <1>18 DEF MarkFailed, indexVars, Undisturbed, run, d
    <2>2. /\ SameRun(run, run2) /\ run2.pc = "ack"
          /\ row2.live = row.live /\ row2.status = "failed"
        BY <1>0, <1>1, <2>1, StepIsSameRun, StatementsWrite DEF run, run2, row, row2
    <2>3. QED
        BY <1>0, <2>1, <2>2 DEF RunSees, Settled, SameRun
<1>19. QED
    BY <1>6, <1>7, <1>8, <1>9, <1>10, <1>11, <1>12, <1>13, <1>14, <1>15, <1>16, <1>17, <1>18
       DEF Work

(*************************************************************************)
(* One request at a time                                                 *)
(*************************************************************************)

\* The worker's request was accepted, that of a sync is done: neither is active.
LEMMA OneRun ==
    ASSUME Inv, \A a, b \in Busy : a = b, NEW j \in Requests, job[j].pc # "off"
    PROVE  /\ Active = {} /\ Running = {j}
           /\ queue # <<>> => worker = j /\ DOMAIN queue = {1}
<1>0. PipelineInv /\ j \in Running
    BY DEF Inv, Running
<1>1. req[j].pc \in {"accepted", "done"}
    BY <1>0, WorkerIsAccepted DEF PipelineInv
<1>2. \A x \in Busy : x = j
    <2>1. j \in Busy
        BY <1>0 DEF Busy
    <2>2. QED
        BY <2>1
<1>3. Active = {} /\ Running = {j}
    BY <1>0, <1>1, <1>2 DEF Busy, Active, Over, Answers
<1>4. ASSUME queue # <<>> PROVE worker = j /\ DOMAIN queue = {1}
    <2>1. PICK S : queue \in Seq(S)
        BY <1>0 DEF PipelineInv
    <2>2. 1 \in DOMAIN queue
        BY <1>4, <2>1
    <2>3. \A i \in DOMAIN queue : queue[i].id = j
        BY <1>2 DEF Busy
    <2>4. \A i \in DOMAIN queue : i = 1
        BY <1>0, <2>2, <2>3 DEF PipelineInv
    <2>5. req[j].pc = "accepted"
        BY <1>0, <2>2, <2>3 DEF PipelineInv
    <2>6. QED
        BY <1>0, <2>2, <2>4, <2>5 DEF PipelineInv
<1>5. QED
    BY <1>3, <1>4

LEMMA OneRequest ==
    ASSUME Inv, \A a, b \in Busy : a = b, NEW r \in Active
    PROVE  Active = {r} /\ Running = {} /\ queue = <<>> /\ worker = None
<1>0. PipelineInv /\ r \in Requests /\ req[r].pc \notin {"accepted", "done"}
    BY DEF Inv, Active, Over, Answers
<1>1. \A x \in Busy : x = r
    BY DEF Busy
<1>2. Active = {r}
    BY <1>1 DEF Busy
<1>3. Running = {}
    <2>1. \A x \in Running : x = r
        BY <1>1 DEF Busy
    <2>2. r \notin Running
        <3>1. SUFFICES ASSUME job[r].pc # "off" PROVE FALSE
            BY DEF Running
        <3>2. QED
            BY <1>0, <3>1, OneRun
    <2>3. QED
        BY <2>1, <2>2
<1>4. queue = <<>>
    <2>1. SUFFICES ASSUME queue # <<>> PROVE FALSE
        OBVIOUS
    <2>2. PICK S : queue \in Seq(S)
        BY <1>0 DEF PipelineInv
    <2>3. 1 \in DOMAIN queue
        BY <2>1, <2>2
    <2>4. queue[1].id = r
        BY <1>1, <2>3 DEF Busy
    <2>5. QED
        BY <1>0, <2>3, <2>4 DEF PipelineInv
<1>5. QED
    BY <1>0, <1>2, <1>3, <1>4 DEF PipelineInv

\* Only ChangePage changes what a URL serves.
LEMMA PagesStay ==
    ASSUME NEW r, Begin(r) \/ Serve(r) \/ Work(r) \/ Take PROVE page' = page
<1> USE DEF worldVars
<1>1. CASE Begin(r)
    BY <1>1 DEF Begin, UploadFile, UploadURL, Delete, Reindex, Sync
<1>2. CASE Dedupe(r) \/ Find(r) \/ Create(r) \/ CountUp(r) \/ Prepare(r) \/ Publish(r)
           \/ MarkUnpublished(r) \/ SoftDelete(r)
    BY <1>2 DEF Dedupe, Find, Create, CountUp, Prepare, Publish, MarkUnpublished, SoftDelete
<1>3. CASE Wipe(r) \/ CountDown(r) \/ ClearVectors(r) \/ ClearChunks(r) \/ ResetStatus(r)
           \/ Republish(r) \/ Fetch(r)
    BY <1>3 DEF Wipe, CountDown, ClearVectors, ClearChunks, ResetStatus, Republish, Fetch
<1>4. CASE Load(r) \/ SyncStart(r) \/ ReadOld(r) \/ DropVectors(r) \/ DropChunks(r)
    BY <1>4 DEF Load, SyncStart, ReadOld, DropVectors, DropChunks
<1>5. CASE Store(r) \/ DualWrite(r) \/ WriteHash(r) \/ MarkEnrichment(r) \/ Cleanup(r)
    BY <1>5 DEF Store, DualWrite, WriteHash, MarkEnrichment, Cleanup
<1>6. CASE ReadPrevious(r) \/ Complete(r) \/ AddChunks(r) \/ MarkFailed(r) \/ End(r)
    BY <1>6 DEF ReadPrevious, Complete, AddChunks, MarkFailed, End
<1>7. CASE Take
    BY <1>7 DEF Take
<1>8. QED
    BY <1>1, <1>2, <1>3, <1>4, <1>5, <1>6, <1>7 DEF Serve, Work

\* A run writes only its own document's row.
LEMMA WorkLeavesRows ==
    ASSUME ShapeInv, NEW j \in Requests, RunRow(j), Work(j),
           NEW e \in Requests, e # job[j].doc
    PROVE  docs'[e] = docs[e]
<1> USE DEF dbVars
<1>1. CASE Load(j) \/ ReadOld(j) \/ DropVectors(j) \/ DropChunks(j) \/ Store(j) \/ DualWrite(j)
    BY <1>1 DEF Load, ReadOld, DropVectors, DropChunks, Store, DualWrite
<1>2. CASE Cleanup(j) \/ ReadPrevious(j) \/ AddChunks(j) \/ End(j)
    BY <1>2 DEF Cleanup, ReadPrevious, AddChunks, IncrementCounts, End
<1>3. CASE SyncStart(j) \/ Complete(j) \/ MarkFailed(j) \/ WriteHash(j) \/ MarkEnrichment(j)
    <2>1. job[j].doc \in Requests
        BY <1>3 DEF RunRow, SyncStart, Complete, MarkFailed, WriteHash, MarkEnrichment
    <2>2. \/ docs' = docs
          \/ \E s, n : UpdateParseStatus(job[j].doc, s, n)
          \/ \E h : UpdateContentHash(job[j].doc, h)
        BY <1>3 DEF SyncStart, Complete, MarkFailed, WriteHash, MarkEnrichment,
                    UpdateEnrichmentStatus
    <2>3. QED
        BY <2>1, <2>2, StatementsWrite
<1>4. QED
    BY <1>1, <1>2, <1>3 DEF Work

LEMMA WorkKeepsPatientInv ==
    ASSUME Undisturbed, PatientInv, NEW j \in Requests, Work(j) PROVE PatientInv'
<1>0. /\ Inv /\ PipelineInv /\ ShapeInv /\ RunRow(j) /\ job[j].pc # "off"
      /\ \A x \in Requests \ {j} : job'[x] = job[x]
    <2>1. Inv /\ PipelineInv /\ ShapeInv /\ RunRow(j)
        BY DEF Undisturbed, Inv, RowInv
    <2>2. QED
        BY <2>1, WorkGoesOn
<1>1. /\ Active = {} /\ Running = {j} /\ (queue # <<>> => worker = j /\ DOMAIN queue = {1})
      /\ MadeBy(j)
    <2>1. Active = {} /\ Running = {j} /\ (queue # <<>> => worker = j /\ DOMAIN queue = {1})
        BY <1>0, OneRun DEF PatientInv
    <2>2. QED
        BY <2>1 DEF PatientInv
<1>2. PICK d \in Requests : d = job[j].doc
    BY <1>0 DEF RunRow
<1>3. page' \in [Pages -> Contents]
    BY PagesStay DEF PatientInv
<1>4. ASSUME NEW e \in Requests, e # d PROVE SettledDoc(e)'
    <2>1. ~AtWork(e)
        BY <1>1, <1>2, <1>4, NoneAssumption DEF AtWork
    <2>2. SettledDoc(e)
        BY <2>1 DEF PatientInv
    <2>3. Of(e, vectors)' = Of(e, vectors) /\ Of(e, chunks)' = Of(e, chunks)
        BY <1>0, <1>1, <1>2, <1>4, WorkElsewhere DEF MadeBy, RunSees
    <2>4. docs'[e] = docs[e]
        BY <1>0, <1>2, <1>4, WorkLeavesRows
    <2>5. QED
        BY <2>2, <2>3, <2>4 DEF SettledDoc
<1>5. CASE ~End(j)
    <2>1. RunGoesOn(j) /\ MadeBy(j)'
        BY <1>0, <1>1, <1>5, WorkIsRun, WorkMakes DEF PatientInv
    <2>2. job'[j].pc # "off"
        BY <1>0, <1>5, WorkOrder DEF EarlyPCs
    <2>3. Running' = {j} /\ Active' = {}
        BY <1>0, <1>1, <2>1, <2>2 DEF Running, Active, RunGoesOn
    <2>4. UNCHANGED <<queue, worker>> /\ job'[j].doc = d
        BY <1>2, <2>1 DEF RunGoesOn
    <2>5. \A i \in DOMAIN queue' : queue'[i].id = j
        <3>1. j # None
            BY NoneAssumption
        <3>2. QED
            BY <1>0, <1>1, <2>4, <3>1 DEF PipelineInv
    <2>6. \A a, b \in Busy' : a = b
        BY <2>3, <2>5 DEF Busy
    <2>7. \A e \in Requests : ~AtWork(e)' => SettledDoc(e)'
        BY <1>4, <2>3, <2>4 DEF AtWork
    <2>8. worker' = None => queue' = <<>>
        BY <1>1, <2>4, NoneAssumption
    <2>9. QED
        BY <1>3, <2>1, <2>3, <2>6, <2>7, <2>8 DEF PatientInv
<1>6. CASE End(j)
    <2>1. /\ UNCHANGED <<docs, chunks, vectors, req>> /\ job[j].pc = "ack"
          /\ job' = [job EXCEPT ![j] = NoJob]
          /\ IF worker = j THEN worker' = None /\ queue' = Tail(queue)
                           ELSE UNCHANGED <<worker, queue>>
        BY <1>6 DEF End, dbVars, indexVars
    <2>2. Running' = {} /\ Active' = {}
        BY <1>0, <1>1, <2>1, Fields DEF Running, Active, ShapeInv
    <2>3. queue' = <<>>
        <3>1. PICK S : queue \in Seq(S)
            BY <1>0 DEF PipelineInv
        <3>2. CASE queue = <<>>
            BY <1>0, <2>1, <3>2, NoneAssumption DEF PipelineInv
        <3>3. CASE queue # <<>>
            <4>1. queue' = Tail(queue) /\ DOMAIN queue = {1}
                BY <1>1, <2>1, <3>3
            <4>2. Len(queue) = 1
                BY <3>1, <4>1
            <4>3. QED
                BY <3>1, <4>1, <4>2
        <3>4. QED
            BY <3>2, <3>3
    <2>4. SettledDoc(d)'
        <3>1. SettledDoc(d)
            BY <1>1, <1>2, <2>1 DEF MadeBy, RunSees, SettledDoc
        <3>2. QED
            BY <2>1, <3>1 DEF SettledDoc, Of
    <2>5. \A a, b \in Busy' : a = b
        BY <2>2, <2>3 DEF Busy
    <2>6. QED
        BY <1>3, <1>4, <2>2, <2>3, <2>4, <2>5 DEF PatientInv
<1>7. QED
    BY <1>5, <1>6

(*************************************************************************)
(* The steps of a handler                                                *)
(*************************************************************************)

LEMMA GotoKeepsRequest ==
    ASSUME ShapeInv, NEW r \in Requests
    PROVE  \A p : Goto(r, p) =>
              /\ req'[r].pc = p /\ req'[r].doc = req[r].doc /\ req'[r].replace = req[r].replace
              /\ \A x \in Requests \ {r} : req'[x] = req[x]
BY Fields DEF ShapeInv, Goto

\* A handler that goes on with the document it has.
GoesOn(r) ==
    /\ req'[r].pc \in NamedPCs /\ req'[r].doc = req[r].doc
    /\ \A x \in Requests \ {r} : req'[x] = req[x]
    /\ UNCHANGED <<job, queue, worker>>

LEMMA HandlerMakes ==
    ASSUME Undisturbed, NEW r \in Requests, SeenBy(r),
           \/ CountUp(r) \/ Prepare(r) \/ SoftDelete(r) \/ Wipe(r)
           \/ ClearVectors(r) \/ ClearChunks(r) \/ ResetStatus(r)
    PROVE  GoesOn(r) /\ SeenBy(r)'
<1> DEFINE d == req[r].doc
           V == Of(d, vectors)
           C == Of(d, chunks)
           W == Of(d, vectors')
           D == Of(d, chunks')
           q == req[r]
           q2 == req'[r]
           row == docs[d]
           row2 == docs'[d]
<1>0. ShapeInv /\ RequestRow(r) /\ RequestSees(q, row, V, C)
    BY DEF Undisturbed, RowInv, SeenBy
<1>1. ASSUME GoesOn(r), RequestSees(q2, row2, W, D) PROVE SeenBy(r)'
    BY <1>1 DEF SeenBy, GoesOn, Of
<1>2. vectors' = vectors => W = V
    OBVIOUS
<1>3. chunks' = chunks => D = C
    OBVIOUS
<1>4. docs' = docs => row2 = row
    OBVIOUS
<1>5. \A S : Of(d, DeleteByKnowledgeID(d, S)) = {}
    BY DEF Of, DeleteByKnowledgeID
<1>6. q.pc \in NamedPCs => d \in Requests
    BY <1>0 DEF RequestRow
<1> HIDE DEF d, V, C, W, D, q, q2, row, row2
<1>7. \A p \in NamedPCs : Goto(r, p) /\ UNCHANGED <<job, queue, worker>> =>
          GoesOn(r) /\ q2.pc = p /\ q2.replace = q.replace
    BY <1>0, GotoKeepsRequest DEF GoesOn, q, q2
<1> USE DEF RequestSees, NamedPCs, UploadPCs, ReindexPCs
<1>8. CASE CountUp(r)
    <2>1. q.pc = "count" /\ Goto(r, "publish") /\ UNCHANGED <<job, queue, worker>>
          /\ W = V /\ D = C /\ row2 = row
        BY <1>2, <1>3, <1>4, <1>8
           DEF CountUp, IncrementCounts, Undisturbed, indexVars, q
    <2>2. QED
        BY <1>0, <1>1, <1>7, <2>1
<1>9. CASE Prepare(r)
    <2>1. q.pc = "prepare" /\ PrepareForReplacement(d, q.hash) /\ W = V /\ D = C
          /\ req' = [req EXCEPT ![r].pc = "publish", ![r].replace = TRUE]
          /\ UNCHANGED <<job, queue, worker>>
        BY <1>2, <1>3, <1>9 DEF Prepare, Undisturbed, indexVars, q, d
    <2>2. GoesOn(r) /\ q2.pc = "publish" /\ q2.replace = TRUE
        BY <1>0, <2>1, Fields DEF ShapeInv, GoesOn, q2
    <2>3. row.live /\ Coherent(V, C)
        BY <1>0, <2>1
    <2>4. row2.live
        BY <1>0, <1>6, <2>1, <2>3, StatementsWrite DEF row, row2
    <2>5. QED
        BY <1>1, <2>1, <2>2, <2>3, <2>4 DEF StartsFrom
<1>10. CASE SoftDelete(r)
    <2>1. q.pc = "softDelete" /\ Goto(r, "wipe") /\ UNCHANGED <<job, queue, worker>>
        BY <1>10 DEF SoftDelete, Undisturbed, taskVars, q
    <2>2. QED
        BY <1>0, <1>1, <1>7, <2>1
<1>11. CASE Wipe(r) \/ ClearVectors(r)
    <2>1. /\ \/ q.pc = "wipe" /\ Goto(r, "countDown")
             \/ q.pc = "clearVectors" /\ Goto(r, "clearChunks")
          /\ vectors' = DeleteByKnowledgeID(d, vectors) /\ row2 = row
          /\ UNCHANGED <<job, queue, worker>>
        BY <1>4, <1>11 DEF Wipe, ClearVectors, Undisturbed, taskVars, dbVars, q, d
    <2>2. W = {}
        BY <1>5, <2>1 DEF W
    <2>3. QED
        BY <1>0, <1>1, <1>7, <2>1, <2>2
<1>12. CASE ClearChunks(r)
    <2>1. q.pc = "clearChunks" /\ Goto(r, "resetStatus") /\ W = V /\ row2 = row
          /\ chunks' = DeleteByKnowledgeID(d, chunks) /\ UNCHANGED <<job, queue, worker>>
        BY <1>2, <1>4, <1>12 DEF ClearChunks, Undisturbed, taskVars, dbVars, q, d
    <2>2. D = {}
        BY <1>5, <2>1 DEF D
    <2>3. QED
        BY <1>0, <1>1, <1>7, <2>1, <2>2 DEF StartsFrom, Coherent, EachOnce
<1>13. CASE ResetStatus(r)
    <2>1. q.pc = "resetStatus" /\ Goto(r, "republish") /\ W = V /\ D = C
          /\ UpdateParseStatus(d, "pending", 0) /\ UNCHANGED <<job, queue, worker>>
        BY <1>2, <1>3, <1>13 DEF ResetStatus, Undisturbed, taskVars, indexVars, q, d
    <2>2. row2.live = row.live
        BY <1>0, <1>6, <2>1, StatementsWrite DEF row, row2
    <2>3. QED
        BY <1>0, <1>1, <1>7, <2>1, <2>2 DEF StartsFrom
<1>14. QED
    BY <1>8, <1>9, <1>10, <1>11, <1>12, <1>13

\* A handler touches only the rows and chunks of its own document.
LEMMA ServeElsewhere ==
    ASSUME Undisturbed, NEW r \in Requests, Serve(r),
           NEW e \in Requests, req[r].pc \in {"dedupe", "find"} \/ e # req[r].doc
    PROVE  docs'[e] = docs[e] /\ Of(e, vectors)' = Of(e, vectors) /\ Of(e, chunks)' = Of(e, chunks)
<1>0. ShapeInv /\ RequestRow(r)
    BY DEF Undisturbed, RowInv
<1>1. \A d, S : e # d => Of(e, DeleteByKnowledgeID(d, S)) = Of(e, S)
    BY DEF Of, DeleteByKnowledgeID
<1>2. CASE Dedupe(r) \/ Find(r) \/ CountUp(r) \/ Publish(r) \/ CountDown(r) \/ Republish(r)
           \/ Fetch(r)
    BY <1>2 DEF Dedupe, Find, CountUp, Publish, CountDown, Republish, Fetch, IncrementCounts,
                dbVars, indexVars, Of
<1>3. CASE Create(r)
    BY <1>0, <1>3 DEF Create, Undisturbed, RequestRow, ShapeInv, indexVars, Of
<1>4. CASE Prepare(r) \/ MarkUnpublished(r) \/ SoftDelete(r) \/ ResetStatus(r)
    <2>1. req[r].doc \in Requests /\ e # req[r].doc
        BY <1>0, <1>4 DEF RequestRow, NamedPCs, ReindexPCs, Prepare, MarkUnpublished,
                          SoftDelete, ResetStatus
    <2>2. chunks' = chunks /\ vectors' = vectors
        BY <1>4 DEF Prepare, MarkUnpublished, SoftDelete, ResetStatus, indexVars
    <2>3. docs'[e] = docs[e]
        <3>1. CASE Prepare(r)
            BY <1>0, <2>1, <3>1
               DEF Prepare, PrepareForReplacement, Undisturbed, ShapeInv
        <3>2. CASE MarkUnpublished(r) \/ ResetStatus(r)
            BY <1>0, <2>1, <3>2, StatementsWrite DEF MarkUnpublished, ResetStatus, Undisturbed
        <3>3. CASE SoftDelete(r)
            BY <1>0, <2>1, <3>3 DEF SoftDelete, Undisturbed, ShapeInv
        <3>4. QED
            BY <1>4, <3>1, <3>2, <3>3
    <2>4. QED
        BY <2>2, <2>3 DEF Of
<1>5. CASE Wipe(r) \/ ClearVectors(r) \/ ClearChunks(r)
    <2>1. docs' = docs /\ e # req[r].doc
        BY <1>5 DEF Wipe, ClearVectors, ClearChunks, dbVars
    <2>2. /\ vectors' = vectors \/ vectors' = DeleteByKnowledgeID(req[r].doc, vectors)
          /\ chunks' = chunks \/ chunks' = DeleteByKnowledgeID(req[r].doc, chunks)
        BY <1>5 DEF Wipe, ClearVectors, ClearChunks
    <2>3. Of(e, vectors') = Of(e, vectors) /\ Of(e, chunks') = Of(e, chunks)
        BY <1>1, <2>1, <2>2
    <2>4. QED
        BY <2>1, <2>3 DEF Of
<1>6. QED
    BY <1>2, <1>3, <1>4, <1>5 DEF Serve

\* A request that is served leads to a state that is as PatientInv says, provided
\* that what it has become sees what it relies on.
LEMMA ServedIsPatient ==
    ASSUME Undisturbed, PatientInv, NEW r \in Active, Serve(r),
           \A x \in Requests \ {r} : req'[x] = req[x] /\ job'[x] = job[x],
           r \in Active' => IF req'[r].pc \in NamedPCs THEN SeenBy(r)' ELSE ~req'[r].replace,
           job'[r].pc # "off" => MadeBy(r)',
           (\A i \in DOMAIN queue : queue[i].id = r /\ StartsTask(queue[i]))',
           NEW d, d = req[r].doc,
           req[r].pc \in {"dedupe", "find"} \/ AtWork(d)' \/ SettledDoc(d)'
    PROVE  PatientInv'
<1>0. Inv /\ PipelineInv /\ ShapeInv /\ Active = {r} /\ Running = {} /\ r \in Requests
      /\ queue = <<>>
    BY OneRequest DEF Undisturbed, Inv, RowInv, Active, PatientInv
<1>1. Active' \subseteq {r} /\ Running' \subseteq {r}
    BY <1>0 DEF Active, Running
<1>2. \A x \in Busy' : x = r
    BY <1>1 DEF Busy
<1>3. ASSUME NEW e \in Requests, ~AtWork(e)' PROVE SettledDoc(e)'
    <2>1. CASE req[r].pc \in {"dedupe", "find"} \/ e # d
        <3>1. ~AtWork(e)
            BY <1>0, <2>1 DEF AtWork, NamedPCs, ReindexPCs
        <3>2. SettledDoc(e)
            BY <3>1 DEF PatientInv
        <3>3. docs'[e] = docs[e] /\ Of(e, vectors)' = Of(e, vectors) /\ Of(e, chunks)' = Of(e, chunks)
            BY <1>0, <2>1, ServeElsewhere
        <3>4. QED
            BY <3>2, <3>3 DEF SettledDoc
    <2>2. CASE req[r].pc \notin {"dedupe", "find"} /\ e = d
        BY <1>3, <2>2
    <2>3. QED
        BY <2>1, <2>2
<1>4. page' \in [Pages -> Contents]
    BY PagesStay DEF PatientInv
<1>5. worker' = None => (\A i \in DOMAIN queue : StartsTask(queue[i]))'
    OBVIOUS
<1>6. \A x \in Active' : IF req'[x].pc \in NamedPCs THEN SeenBy(x)' ELSE ~req'[x].replace
    BY <1>1
<1>7. \A j \in Running' : MadeBy(j)'
    BY <1>1 DEF Running
<1>8. QED
    BY <1>2, <1>3, <1>4, <1>5, <1>6, <1>7 DEF PatientInv

LEMMA AnswerGives ==
    ASSUME ShapeInv, NEW r \in Requests
    PROVE  /\ \A a : Answer(r, a) => req'[r].pc = a /\ \A x \in Requests \ {r} : req'[x] = req[x]
           /\ \A a, d, c : req' = [req EXCEPT ![r] = [NoReq EXCEPT !.pc = a, !.doc = d,
                                                                   !.content = c]] =>
                 req'[r].pc = a /\ \A x \in Requests \ {r} : req'[x] = req[x]
<1> USE Fields DEF ShapeInv
<1>1. ASSUME NEW a, Answer(r, a)
      PROVE  req'[r].pc = a /\ \A x \in Requests \ {r} : req'[x] = req[x]
    BY <1>1 DEF Answer
<1>2. ASSUME NEW a, NEW d, NEW c,
             req' = [req EXCEPT ![r] = [NoReq EXCEPT !.pc = a, !.doc = d, !.content = c]]
      PROVE  req'[r].pc = a /\ \A x \in Requests \ {r} : req'[x] = req[x]
    BY <1>2
<1>3. QED
    BY <1>1, <1>2

LEMMA ServeKeepsPatientInv ==
    ASSUME Undisturbed, PatientInv, NEW r \in Requests, Serve(r) PROVE PatientInv'
<1>0. /\ Inv /\ RowInv /\ PipelineInv /\ ShapeInv /\ RequestRow(r)
      /\ page \in [Pages -> Contents]
    BY DEF Undisturbed, Inv, RowInv, PatientInv
<1>1. r \in Active
    BY DEF Serve, Dedupe, Find, Create, CountUp, Prepare, Publish, MarkUnpublished, SoftDelete,
           Wipe, CountDown, ClearVectors, ClearChunks, ResetStatus, Republish, Fetch,
           Active, Over, Answers
<1>2. /\ Running = {} /\ queue = <<>> /\ worker = None /\ Active = {r}
      /\ IF req[r].pc \in NamedPCs THEN SeenBy(r) ELSE ~req[r].replace
    BY <1>0, <1>1, OneRequest DEF PatientInv
<1>3. \A x \in Requests : job[x].pc = "off"
    BY <1>2 DEF Running
<1>d. PICK d : d = req[r].doc
    OBVIOUS
<1>4. CASE Dedupe(r)
    <2>1. /\ req[r].pc = "dedupe" /\ UNCHANGED <<queue, job>>
          /\ \/ \E e, c : req' = [req EXCEPT ![r] =
                             [NoReq EXCEPT !.pc = "duplicate", !.doc = e, !.content = c]]
             \/ Goto(r, "find")
        BY <1>4 DEF Dedupe, Undisturbed
    <2>2. ~req[r].replace
        BY <1>2, <2>1 DEF NamedPCs, ReindexPCs
    <2>3. /\ \A x \in Requests \ {r} : req'[x] = req[x]
          /\ req'[r].pc = "duplicate" \/ (req'[r].pc = "find" /\ ~req'[r].replace)
        <3>1. CASE Goto(r, "find")
            BY <1>0, <2>2, <3>1, GotoKeepsRequest
        <3>2. ASSUME NEW e, NEW c, req' = [req EXCEPT ![r] =
                         [NoReq EXCEPT !.pc = "duplicate", !.doc = e, !.content = c]]
              PROVE  req'[r].pc = "duplicate" /\ \A x \in Requests \ {r} : req'[x] = req[x]
            BY <1>0, <3>2, AnswerGives
        <3>3. QED
            BY <2>1, <3>1, <3>2
    <2>4. r \in Active' => IF req'[r].pc \in NamedPCs THEN SeenBy(r)' ELSE ~req'[r].replace
        BY <2>3 DEF Active, Over, Answers, NamedPCs, ReindexPCs
    <2>5. req[r].pc = "dedupe" /\ UNCHANGED <<queue, job>>
        BY <2>1
    <2>6. QED
        BY <1>1, <1>2, <1>3, <1>d, <2>3, <2>4, <2>5, ServedIsPatient
<1>5. CASE Find(r)
    <2>1. req[r].pc = "find" /\ UNCHANGED <<docs, chunks, vectors, queue, job, worker>>
        BY <1>5 DEF Find, dbVars, indexVars
    <2>2. ~req[r].replace
        BY <1>2, <2>1 DEF NamedPCs, ReindexPCs
    <2>3. \/ \E h : req' = [req EXCEPT ![r].pc = "create", ![r].doc = r, ![r].hash = h]
          \/ \E h : /\ req' = [req EXCEPT ![r].pc = "prepare",
                               ![r].doc = FindBySource(req[r].source), ![r].hash = h]
                    /\ FindBySource(req[r].source) # None
        BY <1>5 DEF Find, Undisturbed
    <2>4. CASE \E h : req' = [req EXCEPT ![r].pc = "create", ![r].doc = r, ![r].hash = h]
        <3>1. /\ req'[r].pc = "create" /\ req'[r].replace = req[r].replace
              /\ \A x \in Requests \ {r} : req'[x] = req[x]
            BY <1>0, <2>4, Fields DEF ShapeInv
        <3>2. req'[r].pc \notin NamedPCs
            BY <3>1 DEF NamedPCs, ReindexPCs
        <3>3. QED
            BY <1>1, <1>2, <1>3, <1>d, <2>1, <2>2, <3>1, <3>2, ServedIsPatient
    <2>5. ASSUME NEW e, e = FindBySource(req[r].source), e # None,
                 \E h : req' = [req EXCEPT ![r].pc = "prepare", ![r].doc = e, ![r].hash = h]
          PROVE  PatientInv'
        <3>1. /\ req'[r].pc = "prepare" /\ req'[r].doc = e /\ req'[r].replace = req[r].replace
              /\ \A x \in Requests \ {r} : req'[x] = req[x]
            BY <1>0, <2>5, Fields DEF ShapeInv
        <3>2. e \in Requests /\ docs[e].live
            BY <2>5, FoundIsLive
        <3>3. ~AtWork(e)
            BY <1>2, <2>1 DEF AtWork, NamedPCs, ReindexPCs
        <3>4. Coherent(Of(e, vectors), Of(e, chunks))
            BY <3>2, <3>3 DEF PatientInv, SettledDoc, Settled
        <3>5. RequestSees(req'[r], docs'[e], Of(e, vectors'), Of(e, chunks'))
            BY <2>1, <2>2, <3>1, <3>2, <3>4 DEF RequestSees, NamedPCs, UploadPCs, ReindexPCs
        <3>6. SeenBy(r)'
            BY <3>1, <3>5 DEF SeenBy, Of
        <3>7. req'[r].pc \in NamedPCs
            BY <3>1 DEF NamedPCs
        <3>8. QED
            BY <1>1, <1>2, <1>3, <1>d, <2>1, <3>1, <3>6, <3>7, ServedIsPatient
    <2>6. QED
        BY <2>3, <2>4, <2>5
<1>6. CASE Create(r)
    <2>1. /\ req[r].pc = "create" /\ Goto(r, "count") /\ UNCHANGED <<chunks, vectors, queue, job>>
          /\ docs' = [docs EXCEPT ![r] = [NoDoc EXCEPT !.status = "pending", !.live = TRUE,
                         !.source = req[r].source, !.hash = req[r].hash]]
        BY <1>6 DEF Create, Undisturbed, indexVars
    <2>2. req[r].doc = r /\ ~Made(r) /\ ~req[r].replace
        BY <1>0, <1>2, <2>1 DEF RequestRow, NamedPCs, UnnamedPCs, ReindexPCs
    <2>3. /\ req'[r].pc = "count" /\ req'[r].doc = r /\ ~req'[r].replace
          /\ \A x \in Requests \ {r} : req'[x] = req[x]
        BY <1>0, <2>1, <2>2, GotoKeepsRequest
    <2>4. docs'[r].live
        BY <1>0, <2>1, Fields DEF ShapeInv
    <2>5. Of(r, vectors) = {} /\ Of(r, chunks) = {}
        BY <1>0, <2>2 DEF RowInv, ChunkRows, Of
    <2>6. Coherent(Of(r, vectors'), Of(r, chunks')) /\ Of(r, chunks') = {}
        BY <2>1, <2>5 DEF Coherent, EachOnce
    <2>7. RequestSees(req'[r], docs'[r], Of(r, vectors'), Of(r, chunks'))
        BY <2>3, <2>4, <2>6 DEF RequestSees, StartsFrom, NamedPCs, UploadPCs, ReindexPCs
    <2>8. SeenBy(r)'
        BY <2>3, <2>7 DEF SeenBy, Of
    <2>9. AtWork(d)' /\ req'[r].pc \in NamedPCs
        BY <1>d, <2>2, <2>3 DEF AtWork, NamedPCs, Active, Over, Answers
    <2>10. QED
        BY <1>1, <1>2, <1>3, <1>d, <2>1, <2>3, <2>8, <2>9, ServedIsPatient
<1>7. CASE \/ CountUp(r) \/ Prepare(r) \/ SoftDelete(r) \/ Wipe(r)
           \/ ClearVectors(r) \/ ClearChunks(r) \/ ResetStatus(r)
    <2>1. req[r].pc \in NamedPCs
        BY <1>7 DEF CountUp, Prepare, SoftDelete, Wipe, ClearVectors, ClearChunks, ResetStatus,
                    NamedPCs, ReindexPCs
    <2>2. GoesOn(r) /\ SeenBy(r)'
        BY <1>2, <1>7, <2>1, HandlerMakes
    <2>3. r \in Active'
        BY <2>2 DEF GoesOn, Active, Over, Answers, NamedPCs, ReindexPCs
    <2>4. AtWork(d)'
        BY <1>d, <2>2, <2>3 DEF GoesOn, AtWork
    <2>5. QED
        BY <1>1, <1>2, <1>3, <1>d, <2>2, <2>4, ServedIsPatient DEF GoesOn
<1>8. CASE Publish(r) \/ Republish(r)
    <2>1. TaskAccepted(r)
        BY <1>8 DEF Publish, Republish, TaskAccepted, Undisturbed, dbVars, indexVars
    <2>2. req'[r].pc = "accepted" /\ \A x \in Requests \ {r} : req'[x] = req[x]
        BY <1>0, <2>1, AcceptedPublishes DEF Publishes
    <2>3. PICK t : t = Task(r) /\ queue' = <<t>>
        <3>1. PICK t : t = Task(r)
            OBVIOUS
        <3>2. queue' = Append(queue, t)
            BY <2>1, <3>1 DEF TaskAccepted
        <3>3. QED
            BY <1>2, <3>1, <3>2
    <2>4. t.id = r /\ t.doc = req[r].doc /\ t.replace = req[r].replace
        BY <2>3 DEF Task
    <2>5. StartsTask(t)
        BY <1>2, <2>1, <2>4 DEF SeenBy, RequestSees, StartsTask, TaskAccepted, NamedPCs, ReindexPCs
    <2>6. StartsTask(t)'
        BY <2>1, <2>5 DEF StartsTask, TaskAccepted, Of
    <2>7. \A i \in DOMAIN queue' : queue'[i] = t
        BY <2>3
    <2>8. (\A i \in DOMAIN queue : queue[i].id = r /\ StartsTask(queue[i]))'
        BY <2>4, <2>6, <2>7 DEF StartsTask, Of
    <2>9. r \notin Active' /\ 1 \in DOMAIN queue' /\ worker' = None
        BY <1>2, <2>1, <2>2, <2>3 DEF Active, Over, Answers, TaskAccepted
    <2>10. AtWork(d)'
        BY <1>d, <2>4, <2>7, <2>9 DEF AtWork
    <2>11. QED
        BY <1>1, <1>3, <1>d, <2>1, <2>2, <2>8, <2>9, <2>10, ServedIsPatient DEF TaskAccepted
<1>9. CASE CountDown(r)
    <2>1. /\ req[r].pc = "countDown" /\ Answer(r, "done")
          /\ UNCHANGED <<docs, chunks, vectors, queue, job>>
        BY <1>9 DEF CountDown, IncrementCounts, Undisturbed, indexVars, taskVars, dbVars
    <2>2. SettledDoc(d)
        BY <1>0, <1>2, <1>d, <2>1 DEF SeenBy, RequestSees, RequestRow, SettledDoc, Settled, NamedPCs
    <2>3. SettledDoc(d)'
        BY <2>1, <2>2 DEF SettledDoc, Of
    <2>4. req'[r].pc = "done" /\ \A x \in Requests \ {r} : req'[x] = req[x]
        BY <1>0, <2>1, AnswerGives
    <2>5. QED
        BY <1>1, <1>2, <1>3, <1>d, <2>1, <2>3, <2>4, ServedIsPatient DEF Active, Over, Answers
<1>10. CASE MarkUnpublished(r)
    BY <1>2, <1>10 DEF MarkUnpublished, SeenBy, RequestSees, NamedPCs
<1>11. CASE Fetch(r)
    <2> DEFINE c == page[docs[d].source]
               run == [NoJob EXCEPT !.pc = "syncStart", !.doc = d, !.source = docs[d].source,
                          !.replace = TRUE, !.content = c, !.prev = job[r].prev]
    <2>1. /\ req[r].pc = "fetch" /\ Answer(r, "done")
          /\ UNCHANGED <<docs, chunks, vectors, queue>>
          /\ job' = [job EXCEPT ![r] = NoJob] \/ job' = [job EXCEPT ![r] = run]
        BY <1>d, <1>11 DEF Fetch, Undisturbed, dbVars, indexVars, taskVars
    <2>2. /\ d \in Requests /\ docs[d].source \in Pages /\ docs[d].live
          /\ Settled(docs[d], Of(d, vectors), Of(d, chunks))
        BY <1>0, <1>2, <1>d, <2>1 DEF RequestRow, SeenBy, RequestSees, NamedPCs
    <2>3. /\ run.pc = "syncStart" /\ run.doc = d /\ run.replace = TRUE /\ run.content = c
          /\ ~run.full /\ ~run.failed /\ c \in Contents
        BY <1>0, <2>2, Fields, OtherFields
    <2> HIDE DEF run, c
    <2>4. RunSees(run, docs'[d], Of(d, vectors'), Of(d, chunks'))
        BY <2>1, <2>2, <2>3 DEF RunSees, Settled
    <2>5. /\ \A x \in Requests \ {r} : job'[x] = job[x]
          /\ job'[r] = NoJob \/ job'[r] = run
        BY <1>0, <2>1 DEF ShapeInv
    <2>6. job'[r].pc # "off" => MadeBy(r)'
        <3>1. job'[r].pc # "off" => job'[r] = run
            BY <2>5, Fields
        <3>2. job'[r] = run => MadeBy(r)'
            BY <2>3, <2>4 DEF MadeBy, Of
        <3>3. QED
            BY <3>1, <3>2
    <2>7. SettledDoc(d)'
        BY <2>1, <2>2 DEF SettledDoc, Of
    <2>8. r \notin Active' /\ \A x \in Requests \ {r} : req'[x] = req[x]
        BY <1>0, <2>1, AnswerGives DEF Active, Over, Answers
    <2>9. QED
        BY <1>1, <1>2, <1>d, <2>1, <2>5, <2>6, <2>7, <2>8, ServedIsPatient
<1>12. QED
    BY <1>4, <1>5, <1>6, <1>7, <1>8, <1>9, <1>10, <1>11 DEF Serve

(*************************************************************************)
(* The first step of a request, and of a task                            *)
(*************************************************************************)

\* A request starts from where everything is settled, and replaces nothing yet.
LEMMA BeginKeepsPatientInv ==
    ASSUME Patient, Undisturbed, PatientInv, NEW r \in Requests, Begin(r) PROVE PatientInv'
<1>0. Inv /\ PipelineInv /\ ShapeInv
    BY DEF Undisturbed, Inv, RowInv
<1>1. /\ Quiet /\ UNCHANGED <<docs, chunks, vectors, queue, worker>>
      /\ \A x \in Requests \ {r} : req'[x] = req[x]
      /\ job' = job \/ \E n : job' = [job EXCEPT ![r].prev = n]
      /\ \/ req'[r].pc \in {"dedupe", "find"}
         \/ /\ req'[r].pc \in {"softDelete", "clearVectors", "fetch"}
            /\ req'[r].doc \in Requests /\ docs[req'[r].doc].live
    BY <1>0, BeginStep DEF MayStart, dbVars, indexVars
<1>2. req'[r].replace = FALSE
    <2>0. DOMAIN req = Requests
        BY <1>0 DEF ShapeInv
    <2> USE Fields, OtherFields
    <2>1. ASSUME NEW s, NEW c, UploadFile(r, s, c) PROVE req'[r].replace = FALSE
        BY <2>0, <2>1 DEF UploadFile
    <2>2. ASSUME NEW s, UploadURL(r, s) PROVE req'[r].replace = FALSE
        BY <2>0, <2>2 DEF UploadURL
    <2>3. ASSUME NEW e, Delete(r, e) PROVE req'[r].replace = FALSE
        BY <2>0, <2>3 DEF Delete
    <2>4. ASSUME NEW e, Reindex(r, e) PROVE req'[r].replace = FALSE
        BY <2>0, <2>4 DEF Reindex
    <2>5. ASSUME NEW e, Sync(r, e) PROVE req'[r].replace = FALSE
        BY <2>0, <2>5 DEF Sync
    <2> HIDE Fields, OtherFields
    <2>6. QED
        BY <2>1, <2>2, <2>3, <2>4, <2>5 DEF Begin
<1>3. Running' = {} /\ queue' = <<>> /\ Active' \subseteq {r}
    BY <1>0, <1>1, Fields DEF Quiet, Running, Active, ShapeInv
<1>4. \A e \in Requests : SettledDoc(e)
    BY <1>1 DEF PatientInv, AtWork, Quiet
<1>5. \A e \in Requests : SettledDoc(e)'
    BY <1>1, <1>4 DEF SettledDoc, Of
<1>6. ASSUME req'[r].pc \in NamedPCs PROVE SeenBy(r)'
    <2>1. PICK e \in Requests : e = req'[r].doc
        BY <1>1, <1>6 DEF NamedPCs, ReindexPCs
    <2>2. Settled(docs[e], Of(e, vectors), Of(e, chunks)) /\ docs[e].live
        BY <1>1, <1>4, <1>6, <2>1 DEF SettledDoc, NamedPCs, ReindexPCs
    <2>3. RequestSees(req'[r], docs[e], Of(e, vectors), Of(e, chunks))
        BY <1>1, <1>2, <1>6, <2>2 DEF RequestSees, NamedPCs, UploadPCs, ReindexPCs
    <2>4. QED
        BY <1>1, <2>1, <2>3 DEF SeenBy, Of
<1>7. \A a, b \in Busy' : a = b
    BY <1>3 DEF Busy
<1>8. page' \in [Pages -> Contents]
    BY PagesStay DEF PatientInv
<1>9. QED
    BY <1>2, <1>3, <1>5, <1>6, <1>7, <1>8 DEF PatientInv

\* The worker takes the only task, and nothing else is under way.
LEMMA TakeKeepsPatientInv == ASSUME Undisturbed, PatientInv, Take PROVE PatientInv'
<1>0. /\ Inv /\ PipelineInv /\ ShapeInv /\ TaskRows
      /\ UNCHANGED <<chunks, vectors, req, queue>> /\ worker = None /\ queue # <<>>
    BY DEF Undisturbed, Inv, RowInv, Take, indexVars
<1>1. PICK t : /\ t = Head(queue) /\ UpdateParseStatus(t.doc, "processing", 0)
               /\ job' = [job EXCEPT ![t.id] = [NoJob EXCEPT !.pc = "load", !.doc = t.doc,
                                            !.source = t.source, !.replace = t.replace]]
               /\ worker' = t.id
    BY DEF Undisturbed, Take
<1> DEFINE run == [NoJob EXCEPT !.pc = "load", !.doc = t.doc, !.source = t.source,
                                !.replace = t.replace]
<1>2. /\ run.pc = "load" /\ ~run.full /\ ~run.failed /\ run.doc = t.doc
      /\ run.replace = t.replace
    BY Fields, OtherFields
<1>3. job' = [job EXCEPT ![t.id] = run]
    BY <1>1
<1> HIDE DEF run
<1>4. 1 \in DOMAIN queue /\ t = queue[1]
    <2>1. PICK S : queue \in Seq(S)
        BY <1>0 DEF PipelineInv
    <2>2. QED
        BY <1>0, <1>1, <2>1
<1>5. PICK k \in Requests : k = t.id
    BY <1>0, <1>4 DEF PipelineInv
<1>6. PICK d \in Requests : d = t.doc
    BY <1>0, <1>4 DEF TaskRows
<1>7. req[k].pc = "accepted" /\ k \in Busy
    BY <1>0, <1>4, <1>5 DEF PipelineInv, Busy
<1>8. \A x \in Busy : x = k
    BY <1>7 DEF PatientInv
<1>9. Active = {} /\ Running = {} /\ \A i \in DOMAIN queue : queue[i].id = k
    <2>1. \A x \in Active \cup Running : x = k
        BY <1>8 DEF Busy
    <2>2. k \notin Active /\ k \notin Running
        BY <1>0, <1>7, NoneAssumption DEF Active, Over, Answers, Running, PipelineInv
    <2>3. QED
        BY <1>8, <2>1, <2>2 DEF Busy
<1>10. \A i \in DOMAIN queue : i = 1
    BY <1>0, <1>4, <1>5, <1>9 DEF PipelineInv
<1>11. StartsFrom(t.replace, docs[d], Of(d, vectors), Of(d, chunks))
    BY <1>0, <1>4, <1>6 DEF PatientInv, StartsTask
<1>12. docs'[d].live = docs[d].live /\ \A e \in Requests \ {d} : docs'[e] = docs[e]
    BY <1>0, <1>1, <1>6, StatementsWrite
<1>13. RunSees(run, docs'[d], Of(d, vectors'), Of(d, chunks'))
    BY <1>0, <1>2, <1>11, <1>12 DEF RunSees, StartsFrom
<1>14. job'[k] = run /\ \A x \in Requests \ {k} : job'[x] = job[x]
    BY <1>0, <1>3, <1>5 DEF ShapeInv
<1>15. MadeBy(k)' /\ job'[k].doc = d
    BY <1>2, <1>6, <1>13, <1>14 DEF MadeBy, Of
<1>16. Active' = {} /\ Running' = {k}
    BY <1>0, <1>2, <1>9, <1>14 DEF Active, Running
<1>17. ASSUME NEW e \in Requests, ~AtWork(e)' PROVE SettledDoc(e)'
    <2>1. e # d
        BY <1>15, <1>16, <1>17 DEF AtWork
    <2>2. ~AtWork(e)
        BY <1>4, <1>6, <1>9, <1>10, <2>1 DEF AtWork
    <2>3. QED
        BY <1>0, <1>12, <2>1, <2>2 DEF PatientInv, SettledDoc, Of
<1>18. \A a, b \in Busy' : a = b
    BY <1>0, <1>9, <1>16 DEF Busy
<1>19. page' \in [Pages -> Contents] /\ worker' # None
    BY <1>1, <1>5, PagesStay, NoneAssumption DEF PatientInv
<1>20. QED
    BY <1>15, <1>16, <1>17, <1>18, <1>19 DEF PatientInv

(*************************************************************************)
(* The patient invariant                                                 *)
(*************************************************************************)

LEMMA InitPatientInv == Init => PatientInv
<1> SUFFICES ASSUME Init PROVE PatientInv
    OBVIOUS
<1>1. /\ Active = {} /\ Running = {} /\ queue = <<>> /\ chunks = {} /\ vectors = {}
      /\ \A d \in Requests : docs[d] = NoDoc
    BY Fields DEF Init, Active, Running
<1>2. page \in [Pages -> Contents]
    BY DEF Init
<1>3. \A d \in Requests : SettledDoc(d)
    BY <1>1, OtherFields DEF SettledDoc, Settled, Of
<1>4. Busy = {}
    BY <1>1 DEF Busy
<1>5. QED
    BY <1>1, <1>2, <1>3, <1>4 DEF PatientInv

LEMMA SameKeepsPatientInv ==
    ASSUME PatientInv, UNCHANGED <<docs, chunks, vectors, queue, worker, req, job>>,
           page' \in [Pages -> Contents]
    PROVE  PatientInv'
<1>1. Active' = Active /\ Running' = Running /\ Busy' = Busy
    BY DEF Active, Running, Busy
<1>2. \A d \in Requests : (AtWork(d)' <=> AtWork(d)) /\ (SettledDoc(d)' <=> SettledDoc(d))
    BY <1>1 DEF AtWork, SettledDoc, Of
<1>3. \A r \in Requests : (SeenBy(r)' <=> SeenBy(r)) /\ (MadeBy(r)' <=> MadeBy(r))
    BY DEF SeenBy, MadeBy, Of
<1>4. \A r \in Active' : r \in Requests
    BY DEF Active
<1>5. \A i \in DOMAIN queue : StartsTask(queue[i])' <=> StartsTask(queue[i])
    BY DEF StartsTask, Of
<1>6. QED
    BY <1>1, <1>2, <1>3, <1>4, <1>5 DEF PatientInv, Running

LEMMA NextKeepsPatientInv ==
    ASSUME Patient, Inv, RowInv, CalmInv, Calm => PatientInv, [Next]_vars
    PROVE  Calm' => PatientInv'
<1> SUFFICES ASSUME Calm' PROVE PatientInv'
    OBVIOUS
<1>1. /\ Undisturbed /\ PatientInv
      /\ \/ \E r \in Requests : Begin(r) \/ Serve(r) \/ Work(r)
         \/ Take
         \/ \E s \in Pages : ChangePage(s)
         \/ UNCHANGED vars
    BY CalmStep DEF CalmInv, Undisturbed
<1>2. ASSUME NEW r \in Requests, Begin(r) \/ Serve(r) \/ Work(r) PROVE PatientInv'
    BY <1>1, <1>2, BeginKeepsPatientInv, ServeKeepsPatientInv, WorkKeepsPatientInv
<1>3. CASE Take
    BY <1>1, <1>3, TakeKeepsPatientInv
<1>4. CASE \E s \in Pages : ChangePage(s)
    <2>1. page' \in [Pages -> Contents]
        BY <1>1, <1>4 DEF ChangePage, PatientInv
    <2>2. UNCHANGED <<docs, chunks, vectors, queue, worker, req, job>>
        BY <1>4 DEF ChangePage, dbVars, indexVars, taskVars
    <2>3. QED
        BY <1>1, <2>1, <2>2, SameKeepsPatientInv
<1>5. CASE UNCHANGED vars
    BY <1>1, <1>5, SameKeepsPatientInv
       DEF vars, dbVars, indexVars, taskVars, worldVars, PatientInv
<1>6. QED
    BY <1>1, <1>2, <1>3, <1>4, <1>5

LEMMA PatientInvariance ==
    ASSUME Patient PROVE Spec => [](Inv /\ RowInv /\ CalmInv /\ (Calm => PatientInv))
<1>1. Init => (Calm => PatientInv)
    BY InitPatientInv
<1>2. Inv /\ RowInv /\ CalmInv /\ (Calm => PatientInv) /\ [Next]_vars => (Calm => PatientInv)'
    BY NextKeepsPatientInv
<1>3. QED
    BY <1>1, <1>2, CalmInvariance, PTL DEF Spec

\* A document with no request, task or run is not being changed.
LEMMA NotOwned == ASSUME NEW d, ~Owned(d) PROVE ~AtWork(d)
BY DEF Owned, AtWork

LEMMA OneChunkEach ==
    ASSUME NEW S, EachOnce(S), IsFiniteSet(TextsOf(S))
    PROVE  Cardinality(S) = Cardinality(TextsOf(S))
<1> DEFINE f == [t \in TextsOf(S) |-> CHOOSE x \in S : x.text = t]
<1>1. \A t \in TextsOf(S) : f[t] \in S /\ f[t].text = t
    BY DEF TextsOf
<1>2. \A x \in S : x.text \in TextsOf(S) /\ f[x.text] = x
    BY <1>1 DEF EachOnce, TextsOf
<1>3. f \in [TextsOf(S) -> S]
    BY <1>1
<1> HIDE DEF f
<1>4. f \in Bijection(TextsOf(S), S)
    BY <1>1, <1>2, <1>3 DEF Bijection, Injection, Surjection, IsInjective
<1>5. QED
    BY <1>4, FS_Bijection DEF ExistsBijection

\* A client that waits for each of its requests finds nothing of a deleted document:
\* the import that indexed it, whichever of upload, reindex and sync it was, was over
\* when DeleteDocument removed the vectors, and none comes after it.
THEOREM PatientDeletedIsGone == ASSUME Patient PROVE Spec => [](Calm => DeletedIsGone)
<1>1. ASSUME PatientInv PROVE DeletedIsGone
    <2>1. SUFFICES ASSUME Quiet, NEW d \in Requests, ~docs[d].live PROVE Of(d, vectors) = {}
        BY DEF DeletedIsGone
    <2>2. ~AtWork(d)
        BY <2>1 DEF Quiet, AtWork
    <2>3. QED
        BY <1>1, <2>1, <2>2 DEF PatientInv, SettledDoc, Settled
<1>2. Inv /\ RowInv /\ CalmInv /\ (Calm => PatientInv) => (Calm => DeletedIsGone)
    BY <1>1
<1>3. QED
    BY <1>2, PatientInvariance, PTL

\* Where an upload and a replacement split a content the same way, what such a client
\* finds of a document that is shown as completed is one version of its source, as many
\* chunks as its row says, each once, and the same in the vector store and in table
\* chunks.
THEOREM PatientPageIndexed ==
    ASSUME Patient, \A c \in Contents : ChunksOf(c) = Plain[c]
    PROVE  Spec => [](Calm => PageIndexed)
<1>1. ASSUME PatientInv PROVE PageIndexed
    <2>1. SUFFICES ASSUME NEW d \in Requests, Done(d)
                   PROVE  /\ \E c \in Contents : Indexed(d) = Plain[c]
                          /\ Cardinality(Of(d, vectors)) = Cardinality(Indexed(d))
                          /\ docs[d].count = Cardinality(Indexed(d))
                          /\ Of(d, chunks) = Of(d, vectors)
        BY DEF PageIndexed
    <2>2. SettledDoc(d) /\ docs[d].live /\ docs[d].status = "completed"
        BY <1>1, <2>1, NotOwned DEF PatientInv, Done
    <2>3. /\ Of(d, vectors) = Of(d, chunks) /\ EachOnce(Of(d, chunks))
          /\ OneVersion(docs[d], Of(d, chunks))
        BY <2>2 DEF SettledDoc, Settled, Coherent
    <2>4. PICK c \in Contents : /\ TextsOf(Of(d, chunks)) = Plain[c]
                                /\ docs[d].count = Cardinality(Plain[c])
        BY <2>3 DEF OneVersion
    <2>5. Cardinality(Of(d, chunks)) = Cardinality(Plain[c])
        BY <2>3, <2>4, OneChunkEach, ParseAssumption
    <2>6. QED
        BY <2>3, <2>4, <2>5 DEF Indexed
<1>2. Inv /\ RowInv /\ CalmInv /\ (Calm => PatientInv) => (Calm => PageIndexed)
    BY <1>1
<1>3. QED
    BY <1>2, PatientInvariance, PTL

(*************************************************************************)
(* A client that does not wait for the worker                            *)
(*************************************************************************)

\* The steps at which a request names the source of its document.
LinkedPCs == {"count", "prepare", "publish"} \cup ReindexPCs

\* What an active request carries: the hash it writes is that of its file.
Offers(r) ==
    /\ req[r].pc # "markFailed"
    /\ req[r].pc \in UploadPCs => req[r].source \in Sources
    /\ req[r].pc \in LinkedPCs => docs[req[r].doc].source = req[r].source
    /\ req[r].source \in Files =>
          /\ req[r].pc \in {"dedupe", "find"} => req[r].content = files[r]
          /\ req[r].pc \in {"create", "prepare"} => req[r].hash = files[r]

\* Requests, tasks and runs name the source of their document.
LinkInv ==
    /\ \A d \in Requests : docs[d].live => docs[d].source \in Sources
    /\ \A r \in Active : Offers(r)
    /\ \A i \in DOMAIN queue : docs[queue[i].doc].source = queue[i].source
    /\ \A j \in Running :
          /\ docs[job[j].doc].source = job[j].source
          /\ worker = j => job[j].doc = queue[1].doc

\* The content whose hash is in row d is in the file of a task, or of a request that is
\* about to publish one.
HashComes(d) ==
    \/ \E i \in DOMAIN queue : ByTask(i, d) /\ files[queue[i].id] = docs[d].hash
    \/ \E r \in Active : /\ req[r].pc \in {"count", "publish"} /\ req[r].doc = d
                         /\ files[r] = docs[d].hash

\* A completed row has the hash of what is in the index.
HashIsRight(row, C) == row.status = "completed" => TextsOf(C) = Plain[row.hash]

\* The same for a run and the row of its document: file is what it reads, and comes says
\* whether the row's hash is that of a later upload.  An insertion of what the DocReader
\* has parsed writes no hash; it relies on the one the row was created with.
HashSees(run, row, C, file, comes) ==
    LET at(S) == run.pc \in S IN
    /\ at({"load"}) /\ ~run.replace => row.hash = file \/ comes
    /\ at({"dropVectors", "dropChunks", "store", "dualWrite", "hash"}) /\ ~run.replace =>
          row.hash = run.content \/ comes
    /\ at({"enrichment", "previous", "complete"}) \/ (at({"cleanup"}) /\ ~run.failed) =>
          row.hash = run.content \/ comes
    /\ IF at({"addChunks", "ack"}) THEN HashIsRight(row, C) \/ comes
                                   ELSE row.status # "completed"

\* An insertion comes before all other tasks of its document.
FirstTask(i, d) ==
    /\ Of(d, chunks) = {} /\ HashComes(d)
    /\ \A k \in DOMAIN queue : queue[k].doc = d => i <= k

Inserts(r, d) ==
    /\ files[r] = docs[d].hash /\ Of(d, chunks) = {}
    /\ \A k \in DOMAIN queue : queue[k].doc # d

\* What holds of a file document between any two steps.
FileDoc(d) ==
    /\ (\A j \in Running : job[j].doc # d) =>
          SettledDoc(d) /\ (HashIsRight(docs[d], Of(d, chunks)) \/ HashComes(d))
    /\ \A i \in DOMAIN queue : ByTask(i, d) /\ ~queue[i].replace => FirstTask(i, d)
    /\ \A r \in Active :
          req[r].pc \in {"count", "publish"} /\ req[r].doc = d /\ ~req[r].replace => Inserts(r, d)
    /\ \A j \in Running : job[j].doc = d =>
          MadeBy(j) /\ HashSees(job[j], docs[d], Of(d, chunks), files[j], HashComes(d))

ClientInv ==
    /\ page \in [Pages -> Contents]
    /\ \A a, b \in Active : a = b
    /\ LinkInv
    /\ \A d \in Requests : LiveFile(d) => FileDoc(d)

\* A request that goes on.
SameRequest(q, q2) ==
    /\ q2.source = q.source /\ q2.content = q.content /\ q2.doc = q.doc /\ q2.hash = q.hash
    /\ q2.replace = q.replace

LEMMA GotoIsSameRequest ==
    ASSUME ShapeInv, NEW r \in Requests
    PROVE  \A p : Goto(r, p) => SameRequest(req[r], req'[r]) /\ req'[r].pc = p
BY Fields DEF ShapeInv, Goto, SameRequest

LEMMA FoundMatches ==
    ASSUME NEW x, NEW d, d # None
    PROVE  /\ d = FindBySource(x) => docs[d].source = x
           /\ d = FindByContentHash(x) => docs[d].source \in Files /\ docs[d].hash = x
<1>1. d = FindBySource(x) => docs[d].source = x
    BY DEF FindBySource, Latest
<1>2. d = FindByContentHash(x) => docs[d].source \in Files /\ docs[d].hash = x
    BY DEF FindByContentHash, Latest
<1>3. QED
    BY <1>1, <1>2

\* The first step of a request: what it carries.
LEMMA BeginOffers ==
    ASSUME Undisturbed, NEW r \in Requests, Begin(r)
    PROVE  Offers(r)'
<1>0. ShapeInv /\ DOMAIN files = Requests
    BY DEF Undisturbed, RowInv, Inv, RequestInv
<1> USE Fields DEF ShapeInv, Sources, UploadPCs, ReindexPCs, LinkedPCs
<1>1. NoReq.source = None
    BY DEF NoReq
<1>2. ASSUME NEW s \in Files, NEW c \in Contents, UploadFile(r, s, c) PROVE Offers(r)'
    <2>1. /\ req'[r].pc = "dedupe" /\ req'[r].source = s /\ req'[r].content = c
          /\ files'[r] = c
        BY <1>0, <1>2 DEF UploadFile
    <2>2. QED
        BY <2>1 DEF Offers
<1>3. ASSUME NEW s \in Pages, UploadURL(r, s) PROVE Offers(r)'
    <2>1. req'[r].pc = "find" /\ req'[r].source = s
        BY <1>0, <1>3 DEF UploadURL
    <2>2. QED
        BY <2>1, SourcesAssumption DEF Offers
<1>4. ASSUME NEW d \in Requests, Delete(r, d) PROVE Offers(r)'
    <2>1. req'[r].pc = "softDelete"
        BY <1>0, <1>4 DEF Delete
    <2>2. QED
        BY <2>1 DEF Offers
<1>5. ASSUME NEW d \in Requests, Reindex(r, d) PROVE Offers(r)'
    <2>1. /\ req'[r].pc = "clearVectors" /\ req'[r].source = docs[d].source /\ req'[r].doc = d
          /\ docs' = docs
        BY <1>0, <1>5 DEF Reindex, dbVars
    <2>2. QED
        BY <2>1 DEF Offers
<1>6. ASSUME NEW d \in Requests, Sync(r, d) PROVE Offers(r)'
    <2>1. req'[r].pc = "fetch"
        BY <1>0, <1>6 DEF Sync
    <2>2. QED
        BY <2>1 DEF Offers
<1>7. QED
    BY <1>2, <1>3, <1>4, <1>5, <1>6 DEF Begin

\* The steps of a handler: it hands on what it carries.
LEMMA ServeOffers ==
    ASSUME Undisturbed, NEW r \in Requests, Serve(r), Offers(r), r \in Active'
    PROVE  Offers(r)'
<1>0. /\ ShapeInv /\ RequestRow(r) /\ DOMAIN files = Requests
      /\ req[r].pc \in UploadPCs /\ req[r].source \in Files => files[r] # None
    BY DEF Undisturbed, RowInv, Inv, RequestInv
<1> USE DEF UploadPCs, ReindexPCs, LinkedPCs
<1>1. ASSUME NEW p, Goto(r, p), p \in {"find", "count", "publish"} \cup ReindexPCs
                                      \cup {"wipe", "countDown"},
             p = "find" => req[r].pc = "dedupe" /\ files' = files,
             p \in LinkedPCs => docs'[req[r].doc].source = req[r].source,
             p \in UploadPCs => req[r].pc \in UploadPCs
      PROVE  Offers(r)'
    <2>1. SameRequest(req[r], req'[r]) /\ req'[r].pc = p
        BY <1>0, <1>1, GotoIsSameRequest
    <2>2. QED
        BY <1>1, <2>1 DEF Offers, SameRequest
<1>2. ASSUME NEW q, req' = [req EXCEPT ![r] = q], q.pc \in Over PROVE FALSE
    BY <1>0, <1>2 DEF Active, ShapeInv
<1>3. ASSUME NEW a, Answer(r, a), a \in Over PROVE FALSE
    <2>1. PICK q : q = [NoReq EXCEPT !.pc = a]
        OBVIOUS
    <2>2. q.pc = a /\ req' = [req EXCEPT ![r] = q]
        BY <1>3, <2>1, Fields DEF Answer
    <2>3. QED
        BY <1>2, <1>3, <2>2
<1>4. CASE Dedupe(r)
    <2>1. \/ Goto(r, "find") /\ files' = files /\ req[r].pc = "dedupe"
          \/ \E d, c : req' = [req EXCEPT ![r] =
                          [NoReq EXCEPT !.pc = "duplicate", !.doc = d, !.content = c]]
        BY <1>4 DEF Dedupe, Undisturbed
    <2>2. ASSUME NEW d, NEW c, req' = [req EXCEPT ![r] =
                     [NoReq EXCEPT !.pc = "duplicate", !.doc = d, !.content = c]]
          PROVE  FALSE
        <3>1. PICK q : q = [NoReq EXCEPT !.pc = "duplicate", !.doc = d, !.content = c]
            OBVIOUS
        <3>2. q.pc = "duplicate" /\ req' = [req EXCEPT ![r] = q]
            BY <2>2, <3>1, Fields
        <3>3. QED
            BY <1>2, <3>2 DEF Over, Answers
    <2>3. QED
        BY <1>1, <2>1, <2>2
<1>5. CASE Find(r)
    <2> DEFINE d == FindBySource(req[r].source)
    <2>1. /\ req[r].pc = "find" /\ files' = files /\ docs' = docs
          /\ \/ req' = [req EXCEPT ![r].pc = "create", ![r].doc = r, ![r].hash = req[r].content]
             \/ /\ d # None
                /\ req' = [req EXCEPT ![r].pc = "prepare", ![r].doc = d,
                               ![r].hash = IF req[r].content # None THEN req[r].content
                                                                    ELSE docs[d].hash]
        BY <1>5 DEF Find, Undisturbed, dbVars
    <2>2. req[r].source \in Files => req[r].content = files[r] /\ req[r].content # None
        BY <1>0, <2>1 DEF Offers
    <2>3. d # None => docs[d].source = req[r].source
        BY FoundMatches
    <2> HIDE DEF d
    <2>4. CASE req' = [req EXCEPT ![r].pc = "create", ![r].doc = r, ![r].hash = req[r].content]
        <3>1. /\ req'[r].pc = "create" /\ req'[r].source = req[r].source
              /\ req'[r].hash = req[r].content
            BY <1>0, <2>4, Fields DEF ShapeInv
        <3>2. QED
            BY <2>1, <2>2, <3>1 DEF Offers
    <2>5. ASSUME d # None,
                 req' = [req EXCEPT ![r].pc = "prepare", ![r].doc = d,
                               ![r].hash = IF req[r].content # None THEN req[r].content
                                                                    ELSE docs[d].hash]
          PROVE  Offers(r)'
        <3>1. /\ req'[r].pc = "prepare" /\ req'[r].source = req[r].source /\ req'[r].doc = d
              /\ req'[r].hash = IF req[r].content # None THEN req[r].content ELSE docs[d].hash
            BY <1>0, <2>5, Fields DEF ShapeInv
        <3>2. QED
            BY <2>1, <2>2, <2>3, <2>5, <3>1 DEF Offers
    <2>6. QED
        BY <2>1, <2>4, <2>5
<1>6. CASE Create(r)
    <2> DEFINE row == [NoDoc EXCEPT !.status = "pending", !.live = TRUE,
                          !.source = req[r].source, !.hash = req[r].hash]
    <2>1. req[r].pc = "create" /\ Goto(r, "count") /\ docs' = [docs EXCEPT ![r] = row]
        BY <1>6 DEF Create, Undisturbed
    <2>2. row.source = req[r].source
        BY Fields
    <2> HIDE DEF row
    <2>3. req[r].doc = r /\ docs'[r].source = req[r].source
        BY <1>0, <2>1, <2>2 DEF RequestRow, ShapeInv
    <2>4. QED
        BY <1>1, <2>1, <2>3
<1>7. CASE CountUp(r)
    <2>1. req[r].pc = "count" /\ Goto(r, "publish") /\ docs' = docs
        BY <1>7 DEF CountUp, IncrementCounts, Undisturbed
    <2>2. QED
        BY <1>1, <2>1 DEF Offers
<1>8. CASE Prepare(r)
    <2>1. /\ req[r].pc = "prepare"
          /\ req' = [req EXCEPT ![r].pc = "publish", ![r].replace = TRUE]
        BY <1>8 DEF Prepare, Undisturbed
    <2>2. /\ req'[r].pc = "publish" /\ req'[r].source = req[r].source
          /\ req'[r].doc = req[r].doc
        BY <1>0, <2>1, Fields DEF ShapeInv
    <2>3. req[r].doc \in Requests /\ RowsKept
        <3>1. req[r].doc \in Requests /\ Made(req[r].doc)
            BY <1>0, <2>1 DEF RequestRow, NamedPCs
        <3>2. QED
            BY <1>0, <1>8, <3>1, StatementKeepsRows DEF Prepare, Undisturbed
    <2>4. QED
        BY <2>1, <2>2, <2>3 DEF Offers, RowsKept
<1>9. CASE Publish(r) \/ Republish(r)
    <2>1. TaskAccepted(r)
        BY <1>9 DEF Publish, Republish, TaskAccepted, Undisturbed, dbVars, indexVars
    <2>2. req'[r].pc = "accepted"
        BY <1>0, <2>1, AcceptedPublishes DEF Publishes
    <2>3. QED
        BY <2>2 DEF Active, Over, Answers
<1>10. CASE MarkUnpublished(r) \/ CountDown(r) \/ Fetch(r)
    <2>1. Answer(r, "error") \/ Answer(r, "done")
        BY <1>10 DEF MarkUnpublished, CountDown, Fetch
    <2>2. QED
        BY <1>3, <2>1 DEF Over, Answers
<1>11. CASE SoftDelete(r) \/ Wipe(r)
    <2>1. Goto(r, "wipe") \/ Goto(r, "countDown")
        BY <1>11 DEF SoftDelete, Wipe, Undisturbed
    <2>2. QED
        BY <1>1, <2>1
<1>12. CASE ClearVectors(r) \/ ClearChunks(r)
    <2>1. /\ req[r].pc \in ReindexPCs /\ docs' = docs
          /\ Goto(r, "clearChunks") \/ Goto(r, "resetStatus")
        BY <1>12 DEF ClearVectors, ClearChunks, dbVars
    <2>2. QED
        BY <1>1, <2>1 DEF Offers
<1>13. CASE ResetStatus(r)
    <2>1. /\ req[r].pc = "resetStatus" /\ Goto(r, "republish")
          /\ UpdateParseStatus(req[r].doc, "pending", 0)
        BY <1>13 DEF ResetStatus, Undisturbed
    <2>2. req[r].doc \in Requests /\ Made(req[r].doc)
        BY <1>0, <2>1 DEF RequestRow, NamedPCs
    <2>3. RowsKept
        BY <1>0, <2>1, <2>2, StatementKeepsRows
    <2>4. QED
        BY <1>1, <2>1, <2>2, <2>3 DEF Offers, RowsKept
<1>14. QED
    BY <1>4, <1>5, <1>6, <1>7, <1>8, <1>9, <1>10, <1>11, <1>12, <1>13 DEF Serve

(*************************************************************************)
(* LinkInv                                                               *)
(*************************************************************************)

\* Handlers keep the sources of the rows they find.
LEMMA RequestKeepsSources ==
    ASSUME Undisturbed, NEW r \in Requests, Begin(r) \/ Serve(r)
    PROVE  \A d \in Requests : Made(d) =>
              docs'[d].source = docs[d].source /\ (docs'[d].live => docs[d].live)
<1>0. ShapeInv /\ RequestRow(r)
    BY DEF Undisturbed, RowInv
<1>1. CASE Create(r)
    <2>1. req[r].pc = "create" /\ \A d \in Requests \ {r} : docs'[d] = docs[d]
        BY <1>0, <1>1 DEF Create, Undisturbed, ShapeInv
    <2>2. ~Made(r)
        BY <1>0, <2>1 DEF RequestRow, UnnamedPCs
    <2>3. QED
        BY <2>1, <2>2
<1>2. CASE ~Create(r)
    BY <1>0, <1>2, RequestKeepsRows DEF RowsKept
<1>3. QED
    BY <1>1, <1>2

LEMMA RequestKeepsLinkInv ==
    ASSUME Undisturbed, LinkInv, Active \subseteq {}, NEW r \in Requests, Begin(r)
    PROVE  LinkInv'
<1>0. ShapeInv /\ PipelineInv
    BY DEF Undisturbed, Inv, RowInv
<1>1. /\ UNCHANGED <<docs, queue, worker>> /\ req[r].pc = "new"
      /\ \A x \in Requests \ {r} : req'[x] = req[x]
      /\ job' = job \/ \E n : job' = [job EXCEPT ![r].prev = n]
    BY <1>0, BeginStep DEF dbVars
<1>2. job[r].pc = "off"
    BY <1>0, <1>1, WorkerIsAccepted DEF PipelineInv
<1>3. \A j \in Running' : j \in Running /\ job'[j] = job[j]
    BY <1>0, <1>1, <1>2, Fields DEF Running, ShapeInv
<1>4. Active' \subseteq {r}
    BY <1>1 DEF Active
<1>5. \A x \in Active' : Offers(x)'
    BY <1>4, BeginOffers
<1>6. QED
    BY <1>1, <1>3, <1>5 DEF LinkInv

LEMMA ServeKeepsLinkInv ==
    ASSUME Undisturbed, LinkInv, NEW r \in Requests, Active = {r}, Serve(r)
    PROVE  LinkInv'
<1>0. ShapeInv /\ PipelineInv /\ RowInv /\ RequestRow(r) /\ RequestInv
    BY DEF Undisturbed, Inv, RowInv
<1>1. Moves(r) \/ Publishes(r)
    BY <1>0, ServeMovesOrPublishes
<1>2. worker' = worker /\ \A x \in Requests \ {r} : req'[x] = req[x]
    BY <1>1 DEF Moves, Publishes
<1>3. \A x \in Active' : Offers(x)'
    <2>1. Active' \subseteq {r}
        BY <1>2 DEF Active
    <2>2. QED
        BY <2>1, ServeOffers DEF LinkInv
<1>4. \A d \in Requests : docs'[d].live => docs'[d].source \in Sources
    <2>1. CASE Create(r)
        <3> DEFINE row == [NoDoc EXCEPT !.status = "pending", !.live = TRUE,
                              !.source = req[r].source, !.hash = req[r].hash]
        <3>1. req[r].pc = "create" /\ docs' = [docs EXCEPT ![r] = row]
            BY <2>1 DEF Create, Undisturbed
        <3>2. row.source = req[r].source
            BY Fields
        <3> HIDE DEF row
        <3>3. req[r].source \in Sources
            BY <3>1 DEF LinkInv, Offers, UploadPCs
        <3>4. QED
            BY <1>0, <3>1, <3>2, <3>3 DEF ShapeInv, LinkInv
    <2>2. CASE ~Create(r)
        BY <1>0, <2>2, RequestKeepsRows DEF RowsKept, LinkInv
    <2>3. QED
        BY <2>1, <2>2
<1>5. \A d \in Requests : Made(d) => docs'[d].source = docs[d].source
    BY RequestKeepsSources
<1>6. ASSUME NEW i \in DOMAIN queue, i \in DOMAIN queue', queue'[i] = queue[i]
      PROVE  docs'[queue'[i].doc].source = queue'[i].source
    BY <1>0, <1>5, <1>6 DEF LinkInv, RowInv, TaskRows
<1>7. \A i \in DOMAIN queue' : docs'[queue'[i].doc].source = queue'[i].source
    <2>1. CASE Moves(r)
        BY <1>6, <2>1 DEF Moves
    <2>2. CASE Publishes(r)
        <3>1. PICK t : t = Task(r)
            OBVIOUS
        <3>2. queue' = Append(queue, t)
            BY <2>2, <3>1 DEF Publishes
        <3>3. req[r].pc \in {"publish", "republish"}
            BY <2>2 DEF Publishes
        <3>4. req[r].doc \in Requests /\ Made(req[r].doc)
            BY <1>0, <3>3 DEF RequestRow, NamedPCs, ReindexPCs
        <3>5. docs[req[r].doc].source = req[r].source
            BY <3>3 DEF LinkInv, Offers, LinkedPCs, ReindexPCs
        <3>6. docs'[t.doc].source = t.source
            BY <1>5, <3>1, <3>4, <3>5 DEF Task
        <3>7. \A i \in DOMAIN queue : i \in DOMAIN queue' /\ queue'[i] = queue[i]
            BY <1>0, <3>2, QueueGrows
        <3>8. \A i \in DOMAIN queue' : i \in DOMAIN queue \/ queue'[i] = t
            BY <1>0, <3>2, QueueGrows
        <3>9. QED
            BY <1>6, <3>6, <3>7, <3>8
    <2>3. QED
        BY <1>1, <2>1, <2>2
<1>8. worker # None => queue'[1] = queue[1]
    <2>1. ASSUME worker # None PROVE queue'[1] = queue[1]
        <3>1. PICK S : queue \in Seq(S)
            BY <1>0 DEF PipelineInv
        <3>2. queue # <<>>
            BY <1>0, <2>1 DEF PipelineInv
        <3>3. 1 \in DOMAIN queue
            BY <3>1, <3>2
        <3>4. PICK t : t = Task(r)
            OBVIOUS
        <3>5. queue' = queue \/ queue' = Append(queue, t)
            BY <1>1, <3>4 DEF Moves, Publishes
        <3>6. QED
            BY <1>0, <3>3, <3>5, QueueGrows
    <2>2. QED
        BY <2>1
<1>9. ASSUME NEW j \in Running'
      PROVE  /\ docs'[job'[j].doc].source = job'[j].source
             /\ worker' = j => job'[j].doc = queue'[1].doc
    <2>0. j \in Requests
        BY <1>9 DEF Running
    <2>1. CASE j # r \/ job' = job
        <3>1. job'[j] = job[j]
            BY <1>1, <2>0, <2>1 DEF Moves, Publishes
        <3>2. j \in Running /\ job[j].doc \in Requests /\ Made(job[j].doc)
            BY <1>0, <1>9, <3>1 DEF Running, RowInv, RunRow
        <3>3. QED
            BY <1>2, <1>5, <1>8, <2>0, <3>1, <3>2, NoneAssumption DEF LinkInv
    <2>2. CASE j = r /\ Fetch(r)
        <3> DEFINE c == page[docs[req[r].doc].source]
                   run == [NoJob EXCEPT !.pc = "syncStart", !.doc = req[r].doc,
                              !.source = docs[req[r].doc].source, !.replace = TRUE,
                              !.content = c, !.prev = job[r].prev]
        <3>1. /\ docs' = docs /\ req[r].pc = "fetch"
              /\ job' = [job EXCEPT ![r] = NoJob] \/ job' = [job EXCEPT ![r] = run]
            BY <2>2 DEF Fetch, Undisturbed, dbVars
        <3>2. run.doc = req[r].doc /\ run.source = docs[req[r].doc].source
            BY Fields
        <3> HIDE DEF run, c
        <3>3. job'[r] = run
            BY <1>0, <1>9, <2>2, <3>1, Fields DEF Running, ShapeInv
        <3>4. worker # r
            BY <1>0, <3>1, WorkerIsAccepted
        <3>5. QED
            BY <1>2, <2>2, <3>1, <3>2, <3>3, <3>4
    <2>3. QED
        BY <2>1, <2>2
           DEF Serve, Dedupe, Find, Create, CountUp, Prepare, Publish, MarkUnpublished,
               SoftDelete, Wipe, CountDown, ClearVectors, ClearChunks, ResetStatus, Republish
<1>10. QED
    BY <1>3, <1>4, <1>7, <1>9 DEF LinkInv

\* The steps of a run do not change its source.
LEMMA WorkKeepsSource ==
    ASSUME Undisturbed, NEW j \in Requests, Work(j), ~End(j)
    PROVE  job'[j].source = job[j].source
<1>0. ShapeInv
    BY DEF Undisturbed, RowInv
<1> USE <1>0, Fields DEF ShapeInv, Step, Fail
<1>1. CASE Load(j) \/ SyncStart(j)
    BY <1>1 DEF Load, SyncStart
<1>2. CASE ReadOld(j)
    <2>1. ASSUME NEW p, NEW drop, NEW add, NEW n,
                 job' = [job EXCEPT ![j] = [@ EXCEPT !.pc = p, !.drop = drop, !.add = add,
                                                     !.count = n]]
          PROVE  job'[j].source = job[j].source
        BY <2>1
    <2> HIDE <1>0, Fields DEF ShapeInv, Step, Fail
    <2>2. PICK retained \in SUBSET Of(job[j].doc, chunks) :
            LET texts == Plain[job[j].content]
                add   == texts \ TextsOf(Of(job[j].doc, chunks))
                drop  == Of(job[j].doc, chunks) \ retained IN
            job' = [job EXCEPT ![j] = [@ EXCEPT
                       !.pc = IF drop # {} THEN "dropVectors"
                              ELSE IF add # {} THEN "store" ELSE "hash",
                       !.drop = drop, !.add = add, !.count = Cardinality(texts)]]
        BY <1>2 DEF ReadOld, Undisturbed
    <2>3. QED
        BY <2>1, <2>2
<1>3. CASE DropVectors(j) \/ DropChunks(j) \/ Store(j) \/ DualWrite(j)
    BY <1>3 DEF DropVectors, DropChunks, Store, DualWrite
<1>4. CASE WriteHash(j) \/ MarkEnrichment(j) \/ Cleanup(j) \/ ReadPrevious(j)
    BY <1>4 DEF WriteHash, MarkEnrichment, Cleanup, ReadPrevious
<1>5. CASE Complete(j) \/ AddChunks(j) \/ MarkFailed(j)
    BY <1>5 DEF Complete, AddChunks, MarkFailed
<1>6. QED
    BY <1>1, <1>2, <1>3, <1>4, <1>5 DEF Work

LEMMA WorkKeepsLinkInv ==
    ASSUME Undisturbed, LinkInv, Active' = Active, NEW j \in Requests, Work(j)
    PROVE  LinkInv'
<1>0. ShapeInv /\ PipelineInv /\ RowInv /\ RunRow(j)
    BY DEF Undisturbed, Inv, RowInv
<1>1. RowsKept
    BY <1>0, WorkKeepsRows
<1>2. /\ \A x \in Requests \ {j} : job'[x] = job[x] /\ files'[x] = files[x]
      /\ job[j].pc # "off" /\ req' = req
    <2>1. (\A x \in Requests \ {j} : job'[x] = job[x]) /\ job[j].pc # "off"
        BY <1>0, WorkGoesOn
    <2>2. \A x \in Requests \ {j} : files'[x] = files[x]
        <3>1. files' = files \/ Cleanup(j)
            BY WorkClearsAtMostItsFile
        <3>2. DOMAIN files = Requests
            BY DEF Undisturbed, Inv, RequestInv
        <3>3. QED
            BY <3>1, <3>2 DEF Cleanup, RemoveFile
    <2>3. req' = req
        BY <1>0, WorkIsRun DEF RunGoesOn, End
    <2>4. QED
        BY <2>1, <2>2, <2>3
<1>3. j \notin Active
    BY <1>0, <1>2, WorkerIsAccepted DEF PipelineInv, Active, Over, Answers
<1>4. \A x \in Active' : Offers(x)'
    <2>1. ASSUME NEW x \in Active PROVE Offers(x)'
        <3>1. Offers(x) /\ x \in Requests /\ files'[x] = files[x] /\ req'[x] = req[x]
            BY <1>2, <1>3, <2>1 DEF LinkInv, Active
        <3>2. req[x].pc \in LinkedPCs => req[x].doc \in Requests
            BY <1>0, <3>1 DEF RowInv, RequestRow, NamedPCs, LinkedPCs
        <3>3. QED
            BY <1>1, <3>1, <3>2 DEF Offers, RowsKept
    <2>2. QED
        BY <2>1
<1>5. \A d \in Requests : docs'[d].live => docs'[d].source \in Sources
    BY <1>1 DEF RowsKept, LinkInv
<1>6. \A i \in DOMAIN queue : docs'[queue[i].doc].source = queue[i].source
    BY <1>0, <1>1 DEF RowsKept, LinkInv, RowInv, TaskRows
<1>7. \A x \in Running : /\ docs'[job[x].doc].source = job[x].source
                         /\ worker = x => job[x].doc = queue[1].doc
    BY <1>0, <1>1 DEF RowsKept, LinkInv, RowInv, RunRow, Running
<1>8. CASE End(j)
    <2>1. /\ job' = [job EXCEPT ![j] = NoJob]
          /\ IF worker = j THEN worker' = None /\ queue' = Tail(queue)
                           ELSE UNCHANGED <<worker, queue>>
        BY <1>8 DEF End
    <2>2. \A x \in Running' : x \in Running \ {j} /\ job'[x] = job[x]
        BY <1>0, <1>2, <2>1, Fields DEF Running, ShapeInv
    <2>3. \A i \in DOMAIN queue' : docs'[queue'[i].doc].source = queue'[i].source
        <3>1. CASE worker = j
            <4>1. queue' = Tail(queue) /\ queue # <<>>
                BY <1>0, <2>1, <3>1, NoneAssumption DEF PipelineInv
            <4>2. QED
                BY <1>0, <1>6, <4>1, QueueShrinks
        <3>2. CASE worker # j
            BY <1>6, <2>1, <3>2
        <3>3. QED
            BY <3>1, <3>2
    <2>4. \A x \in Running' : worker' = x => queue' = queue /\ worker = x
        <3>1. \A x \in Requests : x # None
            BY NoneAssumption
        <3>2. QED
            BY <2>1, <3>1 DEF Running
    <2>5. \A x \in Running' : /\ docs'[job'[x].doc].source = job'[x].source
                              /\ worker' = x => job'[x].doc = queue'[1].doc
        BY <1>7, <2>2, <2>4
    <2>6. QED
        BY <1>4, <1>5, <2>3, <2>5 DEF LinkInv
<1>9. CASE ~End(j)
    <2>1. job'[j].source = job[j].source /\ job'[j].doc = job[j].doc
          /\ UNCHANGED <<queue, worker>>
        BY <1>0, <1>9, WorkKeepsSource, WorkIsRun DEF RunGoesOn
    <2>2. j \in Running
        BY <1>2 DEF Running
    <2>3. \A x \in Running' : /\ x \in Running
                              /\ job'[x].source = job[x].source /\ job'[x].doc = job[x].doc
        BY <1>2, <2>1, <2>2 DEF Running
    <2>4. QED
        BY <1>4, <1>5, <1>6, <1>7, <2>1, <2>3 DEF LinkInv
<1>10. QED
    BY <1>8, <1>9

\* What Take does.
Takes(t, k, d) ==
    /\ t = Head(queue) /\ t = queue[1] /\ 1 \in DOMAIN queue /\ worker = None
    /\ k = t.id /\ d = t.doc
    /\ job'[k].pc = "load" /\ job'[k].doc = d /\ job'[k].source = t.source
    /\ job'[k].replace = t.replace /\ ~job'[k].full /\ ~job'[k].failed
    /\ \A x \in Requests \ {k} : job'[x] = job[x]
    /\ worker' = k
    /\ UpdateParseStatus(d, "processing", 0)
    /\ UNCHANGED <<chunks, vectors, files, req, queue>>

LEMMA TakeTakes ==
    ASSUME Undisturbed, Take
    PROVE  \E t : \E k, d \in Requests : Takes(t, k, d)
<1>0. /\ PipelineInv /\ ShapeInv /\ TaskRows
      /\ UNCHANGED <<chunks, vectors, files, req, queue>> /\ worker = None /\ queue # <<>>
    BY DEF Undisturbed, Inv, RowInv, Take, indexVars
<1>1. PICK t : /\ t = Head(queue) /\ UpdateParseStatus(t.doc, "processing", 0)
               /\ job' = [job EXCEPT ![t.id] = [NoJob EXCEPT !.pc = "load", !.doc = t.doc,
                                            !.source = t.source, !.replace = t.replace]]
               /\ worker' = t.id
    BY DEF Undisturbed, Take
<1> DEFINE run == [NoJob EXCEPT !.pc = "load", !.doc = t.doc, !.source = t.source,
                                !.replace = t.replace]
<1>2. /\ run.pc = "load" /\ ~run.full /\ ~run.failed /\ run.doc = t.doc
      /\ run.replace = t.replace /\ run.source = t.source
    BY Fields, OtherFields
<1>3. job' = [job EXCEPT ![t.id] = run]
    BY <1>1
<1> HIDE DEF run
<1>4. 1 \in DOMAIN queue /\ t = queue[1]
    <2>1. PICK S : queue \in Seq(S)
        BY <1>0 DEF PipelineInv
    <2>2. QED
        BY <1>0, <1>1, <2>1
<1>5. PICK k \in Requests : k = t.id
    BY <1>0, <1>4 DEF PipelineInv
<1>6. PICK d \in Requests : d = t.doc
    BY <1>0, <1>4 DEF TaskRows
<1>7. job'[k] = run /\ \A x \in Requests \ {k} : job'[x] = job[x]
    BY <1>0, <1>3, <1>5 DEF ShapeInv
<1>8. Takes(t, k, d)
    BY <1>0, <1>1, <1>2, <1>4, <1>5, <1>6, <1>7 DEF Takes
<1>9. QED
    BY <1>8

LEMMA TakeKeepsLinkInv ==
    ASSUME Undisturbed, LinkInv, NEW t, NEW k \in Requests, NEW d \in Requests, Takes(t, k, d)
    PROVE  LinkInv'
<1>0. ShapeInv /\ PipelineInv /\ RowInv
    BY DEF Undisturbed, Inv, RowInv
<1>1. RowsKept
    <2>1. Made(d)
        BY <1>0 DEF Takes, RowInv, TaskRows
    <2>2. QED
        BY <1>0, <2>1, StatementKeepsRows DEF Takes
<1>2. Active' = Active
    BY DEF Takes, Active
<1>3. \A x \in Active' : Offers(x)'
    <2>1. ASSUME NEW x \in Active PROVE Offers(x)'
        <3>1. Offers(x) /\ x \in Requests
            BY <2>1 DEF LinkInv, Active
        <3>2. req[x].pc \in LinkedPCs => req[x].doc \in Requests
            BY <1>0, <3>1 DEF RowInv, RequestRow, NamedPCs, LinkedPCs
        <3>3. QED
            BY <1>1, <3>1, <3>2 DEF Offers, RowsKept, Takes
    <2>2. QED
        BY <1>2, <2>1
<1>4. \A e \in Requests : docs'[e].live => docs'[e].source \in Sources
    BY <1>1 DEF RowsKept, LinkInv
<1>5. \A i \in DOMAIN queue : docs'[queue[i].doc].source = queue[i].source
    BY <1>0, <1>1 DEF RowsKept, LinkInv, RowInv, TaskRows
<1>6. \A x \in Running : docs'[job[x].doc].source = job[x].source
    BY <1>0, <1>1 DEF RowsKept, LinkInv, RowInv, RunRow, Running
<1>7. \A x \in Running' : /\ docs'[job'[x].doc].source = job'[x].source
                          /\ worker' = x => job'[x].doc = queue'[1].doc
    <2>1. \A x \in Running' : x # k => x \in Running /\ job'[x] = job[x] /\ worker' # x
        BY DEF Takes, Running
    <2>2. /\ docs'[job'[k].doc].source = job'[k].source
          /\ job'[k].doc = queue'[1].doc
        BY <1>5 DEF Takes
    <2>3. QED
        BY <1>6, <2>1, <2>2
<1>8. QED
    BY <1>3, <1>4, <1>5, <1>7 DEF LinkInv, Takes

\* A live file is only processed by the worker.
LEMMA FileRunIsWorkers ==
    ASSUME RowInv, NEW j \in Running, LiveFile(job[j].doc) PROVE worker = j
BY SourcesAssumption DEF RowInv, RunRow, Running, LiveFile

\* What the statements do to the hash.
LEMMA StatementsHash ==
    ASSUME ShapeInv, NEW d \in Requests
    PROVE  /\ \A s, n : UpdateParseStatus(d, s, n) =>
                 \A e \in Requests : docs'[e].hash = docs[e].hash
           /\ \A h : UpdateContentHash(d, h) => docs'[d].hash = h
           /\ \A h : PrepareForReplacement(d, h) /\ docs[d].live => docs'[d].hash = h
<1> USE Fields DEF ShapeInv
<1>1. ASSUME NEW s, NEW n, UpdateParseStatus(d, s, n), NEW e \in Requests
      PROVE  docs'[e].hash = docs[e].hash
    <2>1. CASE e = d
        BY <1>1, <2>1 DEF UpdateParseStatus
    <2>2. CASE e # d
        BY <1>1, <2>2 DEF UpdateParseStatus
    <2>3. QED
        BY <2>1, <2>2
<1>2. ASSUME NEW h, UpdateContentHash(d, h) PROVE docs'[d].hash = h
    BY <1>2 DEF UpdateContentHash
<1>3. ASSUME NEW h, PrepareForReplacement(d, h), docs[d].live PROVE docs'[d].hash = h
    BY <1>3 DEF PrepareForReplacement
<1>4. QED
    BY <1>1, <1>2, <1>3

LEMMA NewTaskIsLast ==
    ASSUME PipelineInv, NEW t, queue' = Append(queue, t)
    PROVE  \A i \in DOMAIN queue', k \in DOMAIN queue' \ DOMAIN queue : i <= k
<1>1. PICK S : queue \in Seq(S)
    BY DEF PipelineInv
<1>2. queue \in Seq(S \cup {t})
    BY <1>1
<1>3. QED
    BY <1>2

\* As long as nothing is written over the hash, what brings its content goes on.
LEMMA RequestKeepsComing ==
    ASSUME Undisturbed, NEW r \in Requests, Begin(r) \/ Serve(r), Active \subseteq {r},
           NEW d \in Requests, docs'[d].hash = docs[d].hash, HashComes(d)
    PROVE  HashComes(d)'
<1>0. RequestInv /\ PipelineInv /\ ShapeInv
    BY DEF Undisturbed, Inv, RowInv
<1>1. Moves(r) \/ Publishes(r)
    BY <1>0, BeginMoves, ServeMovesOrPublishes
<1>2. /\ worker' = worker /\ req[r].pc \notin Over
      /\ \A x \in Requests \ {r} : files'[x] = files[x]
    BY <1>1 DEF Moves, Publishes, Over, Answers
<1>3. \A i \in DOMAIN queue : i \in DOMAIN queue' /\ queue'[i] = queue[i]
    <2>1. CASE Moves(r)
        BY <2>1 DEF Moves
    <2>2. CASE Publishes(r)
        <3>1. PICK t : t = Task(r)
            OBVIOUS
        <3>2. queue' = Append(queue, t)
            BY <2>2, <3>1 DEF Publishes
        <3>3. QED
            BY <1>0, <3>2, QueueGrows
    <2>3. QED
        BY <1>1, <2>1, <2>2
<1>4. ASSUME NEW i \in DOMAIN queue, ByTask(i, d), files[queue[i].id] = docs[d].hash
      PROVE  HashComes(d)'
    <2>1. queue[i].id \in Requests \ {r}
        BY <1>0, <1>2 DEF PipelineInv, Over, Answers
    <2>2. QED
        BY <1>2, <1>3, <1>4, <2>1 DEF HashComes, ByTask
<1>5. ASSUME req[r].pc \in {"count", "publish"}, req[r].doc = d, files[r] = docs[d].hash
      PROVE  HashComes(d)'
    <2>1. CASE Begin(r)
        BY <1>0, <1>5, <2>1, BeginStep
    <2>2. CASE CountUp(r)
        <3>1. Goto(r, "publish") /\ files' = files
            BY <2>2 DEF CountUp, Undisturbed
        <3>2. req'[r].pc = "publish" /\ req'[r].doc = d
            BY <1>0, <1>5, <3>1, GotoKeepsShape
        <3>3. r \in Active'
            BY <3>2 DEF Active, Over, Answers
        <3>4. QED
            BY <1>5, <3>1, <3>2, <3>3 DEF HashComes
    <2>3. CASE Publish(r)
        <3>1. PICK t : t = Task(r)
            OBVIOUS
        <3>2. queue' = Append(queue, t) /\ files' = files
            BY <2>3, <3>1 DEF Publish, Undisturbed
        <3>3. t.doc = d /\ t.id = r
            BY <1>5, <3>1 DEF Task
        <3>4. PICK i \in DOMAIN queue' : queue'[i] = t /\ (queue # <<>> => i # 1)
            BY <1>0, <3>2, QueueGrows
        <3>5. worker = None \/ i # 1
            BY <1>0, <3>4 DEF PipelineInv
        <3>6. QED
            BY <1>2, <1>5, <3>2, <3>3, <3>4, <3>5 DEF HashComes, ByTask
    <2>4. QED
        BY <1>5, <2>1, <2>2, <2>3
           DEF Serve, Dedupe, Find, Create, Prepare, MarkUnpublished, SoftDelete, Wipe, CountDown,
               ClearVectors, ClearChunks, ResetStatus, Republish, Fetch
<1>6. QED
    BY <1>4, <1>5 DEF HashComes

LEMMA WorkKeepsComing ==
    ASSUME Undisturbed, NEW j \in Requests, Work(j),
           NEW d \in Requests, docs'[d].hash = docs[d].hash, HashComes(d)
    PROVE  HashComes(d)'
<1>0. RequestInv /\ PipelineInv /\ ShapeInv
    BY DEF Undisturbed, Inv, RowInv
<1>1. job[j].pc # "off" /\ (End(j) \/ UNCHANGED <<queue, worker>>)
    BY <1>0, WorkGoesOn
<1>2. req' = req /\ \A x \in Requests \ {j} : files'[x] = files[x]
    <2>1. req' = req /\ (files' = files \/ Cleanup(j))
        BY WorkClearsAtMostItsFile
    <2>2. QED
        BY <1>0, <2>1 DEF Cleanup, RemoveFile, RequestInv
<1>3. ASSUME NEW r \in Active, req[r].pc \in {"count", "publish"}, req[r].doc = d,
             files[r] = docs[d].hash
      PROVE  HashComes(d)'
    <2>1. r # j /\ r \in Requests
        BY <1>0, <1>1, <1>3, WorkerIsAccepted DEF PipelineInv, Active, Over, Answers
    <2>2. r \in Active'
        BY <1>2, <1>3 DEF Active
    <2>3. QED
        BY <1>2, <1>3, <2>1, <2>2 DEF HashComes
<1>4. ASSUME NEW i \in DOMAIN queue, ByTask(i, d), files[queue[i].id] = docs[d].hash
      PROVE  HashComes(d)'
    <2>1. queue[i].id \in Requests /\ req[queue[i].id].pc = "accepted"
        BY <1>0 DEF PipelineInv
    <2>2. queue[i].id # j
        <3>1. CASE worker = j
            <4>1. i # 1 /\ 1 \in DOMAIN queue /\ queue[1].id = j
                BY <1>0, <1>4, <3>1, NoneAssumption, WorkerIsAccepted DEF ByTask
            <4>2. QED
                BY <1>0, <4>1 DEF PipelineInv
        <3>2. CASE worker # j
            BY <1>0, <1>1, <2>1, <3>2 DEF PipelineInv
        <3>3. QED
            BY <3>1, <3>2
    <2>3. files'[queue[i].id] = docs'[d].hash
        BY <1>2, <1>4, <2>1, <2>2
    <2>4. CASE UNCHANGED <<queue, worker>>
        BY <1>4, <2>3, <2>4 DEF HashComes, ByTask
    <2>5. CASE End(j) /\ worker = j
        <3>1. queue' = Tail(queue) /\ worker' = None /\ queue # <<>> /\ i # 1
            BY <1>0, <1>4, <2>5, NoneAssumption DEF End, ByTask, PipelineInv
        <3>2. i - 1 \in DOMAIN queue' /\ queue'[i - 1] = queue[i]
            BY <1>0, <3>1, QueueShrinks
        <3>3. QED
            BY <1>4, <2>3, <3>1, <3>2 DEF HashComes, ByTask
    <2>6. QED
        BY <1>1, <2>4, <2>5 DEF End
<1>5. QED
    BY <1>3, <1>4 DEF HashComes

LEMMA TakeKeepsComing ==
    ASSUME Undisturbed, NEW t, NEW k \in Requests, NEW d \in Requests, Takes(t, k, d),
           NEW e \in Requests, HashComes(e)
    PROVE  HashComes(e)' \/ (e = d /\ files[k] = docs[e].hash)
<1>0. docs'[e].hash = docs[e].hash
    BY StatementsHash DEF Takes, Undisturbed, RowInv
<1>1. Active' = Active
    BY DEF Takes, Active
<1>2. ASSUME NEW i \in DOMAIN queue, ByTask(i, e), files[queue[i].id] = docs[e].hash
      PROVE  HashComes(e)' \/ (e = d /\ files[k] = docs[e].hash)
    <2>1. CASE i = 1
        BY <1>2, <2>1 DEF Takes, ByTask
    <2>2. CASE i # 1
        BY <1>0, <1>2, <2>2 DEF Takes, ByTask, HashComes
    <2>3. QED
        BY <2>1, <2>2
<1>3. ASSUME NEW r \in Active, req[r].pc \in {"count", "publish"}, req[r].doc = e,
             files[r] = docs[e].hash
      PROVE  HashComes(e)'
    BY <1>0, <1>1, <1>3 DEF Takes, HashComes
<1>4. QED
    BY <1>2, <1>3 DEF HashComes

\* What a request may do to the row of a file document that stays.
LEMMA RequestWritesFile ==
    ASSUME Undisturbed, LinkInv, NEW r \in Requests, Begin(r) \/ Serve(r),
           NEW d \in Requests, LiveFile(d), LiveFile(d)', ~(Create(r) /\ d = r)
    PROVE  \/ docs'[d] = docs[d]
           \/ Prepare(r) /\ req[r].doc = d
<1>0. ShapeInv /\ RowInv /\ RequestRow(r)
    BY DEF Undisturbed, RowInv
<1>1. CASE Begin(r)
    BY <1>0, <1>1, BeginStep DEF dbVars
<1>2. CASE Serve(r)
    <2>1. CASE req[r].pc \in {"dedupe", "find"} \/ d # req[r].doc
        BY <1>2, <2>1, ServeElsewhere
    <2>2. CASE req[r].pc \notin {"dedupe", "find"} /\ d = req[r].doc
        <3>1. CASE SoftDelete(r)
            <4>1. docs' = [docs EXCEPT ![d].live = FALSE]
                BY <2>2, <3>1 DEF SoftDelete, Undisturbed
            <4>2. ~docs'[d].live
                BY <1>0, <4>1, Fields DEF ShapeInv
            <4>3. QED
                BY <4>2 DEF LiveFile
        <3>2. CASE ResetStatus(r)
            BY <1>0, <2>2, <3>2, SourcesAssumption
               DEF ResetStatus, RequestRow, ReindexPCs, LiveFile
        <3>3. CASE MarkUnpublished(r)
            BY <3>3 DEF MarkUnpublished, LinkInv, Offers, Active, Over, Answers
        <3>4. CASE Create(r)
            BY <1>0, <2>2, <3>4 DEF Create, RequestRow
        <3>5. QED
            BY <1>2, <2>2, <3>1, <3>2, <3>3, <3>4
               DEF Serve, Dedupe, Find, CountUp, Prepare, Publish, Wipe, CountDown, ClearVectors,
                   ClearChunks, Republish, Fetch, IncrementCounts, dbVars, Undisturbed
    <2>3. QED
        BY <2>1, <2>2
<1>3. QED
    BY <1>1, <1>2

\* How a request comes to publish an insertion.
LEMMA ToInsertion ==
    ASSUME Undisturbed, NEW r \in Requests, Begin(r) \/ Serve(r),
           req'[r].pc \in {"count", "publish"}, ~req'[r].replace
    PROVE  \/ Create(r)
           \/ /\ req[r].pc = "count" /\ SameRequest(req[r], req'[r])
              /\ UNCHANGED <<docs, chunks, files, queue>>
<1>0. ShapeInv
    BY DEF Undisturbed, RowInv
<1>1. ASSUME NEW p, Goto(r, p) PROVE req'[r].pc = p /\ SameRequest(req[r], req'[r])
    BY <1>0, <1>1, GotoIsSameRequest
<1>2. ASSUME NEW a, Answer(r, a) PROVE req'[r].pc = a
    BY <1>0, <1>2, AnswerGives
<1>3. CASE Begin(r)
    BY <1>0, <1>3, BeginStep
<1>4. CASE CountUp(r)
    BY <1>1, <1>4 DEF CountUp, Undisturbed, IncrementCounts, indexVars
<1>5. CASE Prepare(r)
    <2>1. req' = [req EXCEPT ![r].pc = "publish", ![r].replace = TRUE]
        BY <1>5 DEF Prepare, Undisturbed
    <2>2. req'[r].replace
        BY <1>0, <2>1, Fields DEF ShapeInv
    <2>3. QED
        BY <2>2
<1>6. CASE Dedupe(r)
    <2>1. \/ Goto(r, "find")
          \/ \E d, c : req' = [req EXCEPT ![r] =
                          [NoReq EXCEPT !.pc = "duplicate", !.doc = d, !.content = c]]
        BY <1>6 DEF Dedupe, Undisturbed
    <2>2. ASSUME NEW d, NEW c, req' = [req EXCEPT ![r] =
                     [NoReq EXCEPT !.pc = "duplicate", !.doc = d, !.content = c]]
          PROVE  req'[r].pc = "duplicate"
        <3>1. PICK q : q = [NoReq EXCEPT !.pc = "duplicate", !.doc = d, !.content = c]
            OBVIOUS
        <3>2. q.pc = "duplicate" /\ req' = [req EXCEPT ![r] = q]
            BY <2>2, <3>1, Fields
        <3>3. QED
            BY <1>0, <3>2 DEF ShapeInv
    <2>3. req'[r].pc \in {"find", "duplicate"}
        BY <1>1, <2>1, <2>2
    <2>4. QED
        BY <2>3
<1>7. CASE Find(r)
    <2> DEFINE d == FindBySource(req[r].source)
               h == IF req[r].content # None THEN req[r].content ELSE docs[d].hash
    <2>1. \/ req' = [req EXCEPT ![r].pc = "create", ![r].doc = r, ![r].hash = req[r].content]
          \/ req' = [req EXCEPT ![r].pc = "prepare", ![r].doc = d, ![r].hash = h]
        BY <1>7 DEF Find, Undisturbed
    <2> HIDE DEF d, h
    <2>2. req'[r].pc \in {"create", "prepare"}
        BY <1>0, <2>1, Fields DEF ShapeInv
    <2>3. QED
        BY <2>2
<1>8. CASE Publish(r) \/ Republish(r)
    <2>1. TaskAccepted(r)
        BY <1>8 DEF Publish, Republish, TaskAccepted, Undisturbed, dbVars, indexVars
    <2>2. req'[r].pc = "accepted"
        BY <1>0, <2>1, AcceptedPublishes DEF Publishes
    <2>3. QED
        BY <2>2
<1>9. CASE MarkUnpublished(r) \/ SoftDelete(r) \/ Wipe(r) \/ CountDown(r) \/ ClearVectors(r)
           \/ ClearChunks(r) \/ ResetStatus(r) \/ Fetch(r)
    <2>1. \/ \E a \in {"error", "done"} : Answer(r, a)
          \/ \E p \in {"wipe", "countDown", "clearChunks", "resetStatus", "republish"} : Goto(r, p)
        BY <1>9 DEF MarkUnpublished, SoftDelete, Wipe, CountDown, ClearVectors, ClearChunks,
                    ResetStatus, Fetch, Undisturbed
    <2>2. QED
        BY <1>1, <1>2, <2>1
<1>10. QED
    BY <1>3, <1>4, <1>5, <1>6, <1>7, <1>8, <1>9 DEF Serve

\* A file document of which a request creates the row.
LEMMA CreateMakesFileDoc ==
    ASSUME Undisturbed, LinkInv, NEW r \in Requests, Active = {r}, Create(r), LiveFile(r)'
    PROVE  FileDoc(r)'
<1>0. ShapeInv /\ RowInv /\ RequestRow(r) /\ TaskRows /\ ChunkRows
    BY DEF Undisturbed, RowInv
<1> DEFINE row == [NoDoc EXCEPT !.status = "pending", !.live = TRUE,
                      !.source = req[r].source, !.hash = req[r].hash]
<1>1. /\ req[r].pc = "create" /\ Goto(r, "count") /\ docs' = [docs EXCEPT ![r] = row]
      /\ UNCHANGED <<chunks, vectors, queue, job, files>>
    BY DEF Create, Undisturbed, indexVars
<1>2. row.status = "pending" /\ row.live /\ row.source = req[r].source /\ row.hash = req[r].hash
    BY Fields
<1> HIDE DEF row
<1>3. docs'[r] = row
    BY <1>0, <1>1 DEF ShapeInv
<1>4. ~Made(r) /\ req[r].doc = r
    BY <1>0, <1>1 DEF RequestRow, UnnamedPCs
<1>5. files'[r] = docs'[r].hash
    <2>1. req[r].source \in Files
        BY <1>2, <1>3 DEF LiveFile
    <2>2. Offers(r)
        BY DEF LinkInv
    <2>3. QED
        BY <1>1, <1>2, <1>3, <2>1, <2>2 DEF Offers
<1>6. /\ Of(r, chunks) = {} /\ Of(r, vectors) = {}
      /\ Of(r, chunks') = {} /\ Of(r, vectors') = {}
    BY <1>0, <1>1, <1>4 DEF ChunkRows, Of
<1>7. (\A i \in DOMAIN queue : queue[i].doc # r) /\ (\A j \in Running' : job'[j].doc # r)
    BY <1>0, <1>1, <1>4 DEF TaskRows, RowInv, RunRow, Running
<1>8. SettledDoc(r)' /\ HashIsRight(docs[r], Of(r, chunks))'
    <2>1. Coherent({}, {})
        BY DEF Coherent, EachOnce
    <2>2. Settled(row, {}, {}) /\ HashIsRight(row, {})
        BY <1>2, <2>1 DEF Settled, HashIsRight
    <2>3. QED
        BY <1>3, <1>6, <2>2 DEF SettledDoc
<1>9. \A x \in Active' : Inserts(x, r)'
    <2>1. Active' \subseteq {r}
        BY <1>0, <1>1, GotoKeepsShape DEF Active
    <2>2. Inserts(r, r)'
        BY <1>1, <1>5, <1>6, <1>7 DEF Inserts
    <2>3. QED
        BY <2>1, <2>2
<1>10. QED
    BY <1>1, <1>7, <1>8, <1>9 DEF FileDoc, ByTask

\* A row made pending for a replacement: what its run needs of it stays.
LEMMA PendingIsFine ==
    ASSUME NEW run, NEW row, NEW row2, NEW V, NEW C, NEW file, NEW comes,
           row2.live, row2.status = "pending"
    PROVE  /\ RunSees(run, row, V, C) => RunSees(run, row2, V, C)
           /\ row.live /\ Settled(row, V, C) => Settled(row2, V, C)
           /\ HashIsRight(row2, C) /\ HashSees(run, row2, C, file, TRUE)
<1>1. ASSUME row.live, Settled(row, V, C) PROVE Settled(row2, V, C)
    BY <1>1 DEF Settled
<1>2. ASSUME RunSees(run, row, V, C) PROVE RunSees(run, row2, V, C)
    <2>1. row.live
        BY <1>2 DEF RunSees
    <2>2. \A replace : StartsFrom(replace, row, V, C) => StartsFrom(replace, row2, V, C)
        BY DEF StartsFrom
    <2>3. QED
        BY <1>1, <1>2, <2>1, <2>2 DEF RunSees
<1>3. QED
    BY <1>1, <1>2 DEF HashIsRight, HashSees

\* What a run sees of the hash stays when the content comes all the same.
LEMMA ComesLonger ==
    ASSUME NEW run, NEW row, NEW C, NEW file, NEW a, NEW b, a => b,
           HashSees(run, row, C, file, a)
    PROVE  HashSees(run, row, C, file, b)
BY DEF HashSees

LEMMA RequestKeepsFileDocs ==
    ASSUME Undisturbed, ClientInv, NEW r \in Requests, Begin(r) \/ Serve(r),
           Active \subseteq {r}, Begin(r) \/ r \in Active,
           NEW d \in Requests, LiveFile(d)', ~(Create(r) /\ d = r)
    PROVE  FileDoc(d)'
<1>0. ShapeInv /\ RowInv /\ RequestRow(r) /\ PipelineInv /\ RequestInv /\ LinkInv
    BY DEF Undisturbed, Inv, RowInv, ClientInv
<1>1. LiveFile(d)
    <2>1. CASE Create(r)
        <3>1. docs'[d] = docs[d]
            BY <1>0, <2>1 DEF Create, Undisturbed, ShapeInv
        <3>2. QED
            BY <3>1 DEF LiveFile
    <2>2. CASE ~Create(r)
        BY <1>0, <2>2, RequestKeepsRows DEF RowsKept, LiveFile
    <2>3. QED
        BY <2>1, <2>2
<1>2. FileDoc(d) /\ Made(d)
    BY <1>0, <1>1 DEF ClientInv, RowInv, LiveFile
<1>3. Of(d, vectors)' = Of(d, vectors) /\ Of(d, chunks)' = Of(d, chunks)
    BY <1>0, <1>1, RequestKeepsFileChunks
<1>4. Moves(r) \/ Publishes(r)
    BY <1>0, BeginMoves, ServeMovesOrPublishes
<1>5. worker' = worker /\ req[r].pc \notin Over /\ Active' \subseteq {r}
    BY <1>4 DEF Moves, Publishes, Over, Answers, Active
<1>6. \A j \in Requests : job[j].pc # "off" => job'[j] = job[j]
    BY RequestKeepsRuns
<1>7. \A j \in Running' : job'[j].doc = d => j \in Running /\ job'[j] = job[j]
    <2>1. ASSUME NEW j \in Requests, job[j].pc = "off", job'[j].pc # "off", job'[j].doc = d
          PROVE  FALSE
        BY <1>1, <2>1, RequestKeepsRuns, SourcesAssumption DEF LiveFile
    <2>2. QED
        BY <1>6, <2>1 DEF Running
<1>8. \A j \in Running : j \in Running' /\ job'[j] = job[j]
    BY <1>6 DEF Running
<1>9. docs'[d] = docs[d] \/ (Prepare(r) /\ req[r].doc = d)
    BY <1>0, <1>1, RequestWritesFile
<1>10. ASSUME docs'[d] # docs[d]
       PROVE  HashComes(d)' /\ docs'[d].live /\ docs'[d].status = "pending"
    <2>1. /\ req[r].pc = "prepare" /\ req[r].doc = d /\ files' = files
          /\ PrepareForReplacement(d, req[r].hash)
          /\ req' = [req EXCEPT ![r].pc = "publish", ![r].replace = TRUE]
        BY <1>9, <1>10 DEF Prepare, Undisturbed
    <2>2. docs'[d].hash = req[r].hash /\ docs'[d].live /\ docs'[d].status = "pending"
        BY <1>0, <1>1, <2>1, StatementsHash, StatementsWrite DEF LiveFile
    <2>3. req[r].hash = files[r]
        <3>1. r \in Active
            BY <2>1, <1>5 DEF Active
        <3>2. docs[d].source = req[r].source
            BY <1>0, <2>1, <3>1 DEF LinkInv, Offers, LinkedPCs
        <3>3. QED
            BY <1>0, <1>1, <2>1, <3>1, <3>2 DEF LinkInv, Offers, LiveFile
    <2>4. req'[r].pc = "publish" /\ req'[r].doc = d
        BY <1>0, <2>1, Fields DEF ShapeInv
    <2>5. r \in Active'
        BY <2>4 DEF Active, Over, Answers
    <2>6. QED
        BY <2>1, <2>2, <2>3, <2>4, <2>5 DEF HashComes
<1>11. HashComes(d) => HashComes(d)'
    BY <1>10, RequestKeepsComing
<1>12. ASSUME \A j \in Running' : job'[j].doc # d
       PROVE  SettledDoc(d)' /\ (HashIsRight(docs[d], Of(d, chunks))' \/ HashComes(d)')
    <2>1. \A j \in Running : job[j].doc # d
        BY <1>8, <1>12
    <2>2. SettledDoc(d) /\ (HashIsRight(docs[d], Of(d, chunks)) \/ HashComes(d))
        BY <1>2, <2>1 DEF FileDoc
    <2>3. CASE docs'[d] = docs[d]
        BY <1>3, <1>11, <2>2, <2>3 DEF SettledDoc
    <2>4. CASE docs'[d] # docs[d]
        <3>1. Settled(docs'[d], Of(d, vectors), Of(d, chunks))
            BY <1>1, <1>10, <2>2, <2>4, PendingIsFine DEF SettledDoc, LiveFile
        <3>2. QED
            BY <1>3, <1>10, <2>4, <3>1 DEF SettledDoc
    <2>5. QED
        BY <2>3, <2>4
<1>13. /\ \A i \in DOMAIN queue : i \in DOMAIN queue' /\ queue'[i] = queue[i]
       /\ \A i \in DOMAIN queue', k \in DOMAIN queue' \ DOMAIN queue : i <= k
       /\ DOMAIN queue' = DOMAIN queue
          \/ (Publishes(r) /\ \A i \in DOMAIN queue' : i \in DOMAIN queue \/ queue'[i] = Task(r))
    <2>1. CASE Moves(r)
        BY <2>1 DEF Moves
    <2>2. CASE Publishes(r)
        <3>1. PICK t : t = Task(r)
            OBVIOUS
        <3>2. queue' = Append(queue, t)
            BY <2>2, <3>1 DEF Publishes
        <3>3. QED
            BY <1>0, <2>2, <3>1, <3>2, QueueGrows, NewTaskIsLast
    <2>3. QED
        BY <1>4, <2>1, <2>2
<1>14. ASSUME NEW i \in DOMAIN queue', queue'[i].doc = d, worker = None \/ i # 1,
              ~queue'[i].replace
       PROVE  FirstTask(i, d)'
    <2>1. CASE i \in DOMAIN queue
        <3>1. FirstTask(i, d)
            BY <1>2, <1>13, <1>14, <2>1 DEF FileDoc, ByTask
        <3>2. \A k \in DOMAIN queue' : queue'[k].doc = d => i <= k
            BY <1>13, <3>1 DEF FirstTask
        <3>3. QED
            BY <1>3, <1>11, <3>1, <3>2 DEF FirstTask
    <2>2. CASE i \notin DOMAIN queue
        <3>1. Publishes(r) /\ queue'[i] = Task(r)
            BY <1>13, <2>2
        <3>2. req[r].doc = d /\ ~req[r].replace
            BY <1>14, <3>1 DEF Task
        <3>3. req[r].pc = "publish"
            BY <1>0, <1>1, <3>1, <3>2, SourcesAssumption
               DEF Publishes, RequestRow, ReindexPCs, LiveFile
        <3>4. r \in Active
            BY <3>3, <1>5 DEF Active
        <3>5. Inserts(r, d)
            BY <1>2, <3>2, <3>3, <3>4 DEF FileDoc
        <3>6. HashComes(d)
            BY <3>2, <3>3, <3>4, <3>5 DEF Inserts, HashComes
        <3>7. \A k \in DOMAIN queue' : queue'[k].doc = d => i <= k
            BY <1>13, <3>5 DEF Inserts
        <3>8. QED
            BY <1>3, <1>11, <3>5, <3>6, <3>7 DEF FirstTask, Inserts
    <2>3. QED
        BY <2>1, <2>2
<1>15. \A i \in DOMAIN queue' : ByTask(i, d)' /\ ~queue'[i].replace => FirstTask(i, d)'
    BY <1>5, <1>14 DEF ByTask
<1>16. ASSUME req'[r].pc \in {"count", "publish"}, req'[r].doc = d, ~req'[r].replace
       PROVE  Inserts(r, d)'
    <2>1. CASE Create(r)
        <3>1. Goto(r, "count") /\ req[r].doc = r
            BY <1>0, <2>1 DEF Create, Undisturbed, RequestRow
        <3>2. QED
            BY <1>0, <1>16, <2>1, <3>1, GotoKeepsShape
    <2>2. CASE /\ req[r].pc = "count" /\ SameRequest(req[r], req'[r])
               /\ UNCHANGED <<docs, chunks, files, queue>>
        <3>1. r \in Active
            BY <2>2, <1>5 DEF Active
        <3>2. Inserts(r, d)
            BY <1>2, <1>16, <2>2, <3>1 DEF FileDoc, SameRequest
        <3>3. QED
            BY <2>2, <3>2 DEF Inserts
    <2>3. QED
        BY <1>16, <2>1, <2>2, ToInsertion
<1>17. ASSUME NEW j \in Running', job'[j].doc = d
       PROVE  /\ RunSees(job'[j], docs'[d], Of(d, vectors'), Of(d, chunks'))
              /\ HashSees(job'[j], docs'[d], Of(d, chunks'), files'[j], HashComes(d)')
    <2>1. j \in Running /\ job'[j] = job[j] /\ job[j].doc = d
        BY <1>7, <1>17
    <2>2. /\ RunSees(job[j], docs[d], Of(d, vectors), Of(d, chunks))
          /\ HashSees(job[j], docs[d], Of(d, chunks), files[j], HashComes(d))
        BY <1>2, <2>1 DEF FileDoc, MadeBy
    <2>3. files'[j] = files[j]
        <3>1. j # r
            BY <1>0, <1>1, <1>5, <2>1, FileRunIsWorkers, WorkerIsAccepted
               DEF Running, Over, Answers
        <3>2. QED
            BY <1>4, <2>1, <3>1 DEF Moves, Publishes, Running
    <2>4. CASE docs'[d] = docs[d]
        BY <1>3, <1>11, <2>1, <2>2, <2>3, <2>4, ComesLonger
    <2>5. CASE docs'[d] # docs[d]
        BY <1>3, <1>10, <2>1, <2>2, <2>5, PendingIsFine
    <2>6. QED
        BY <2>4, <2>5
<1>18. \A j \in Running' : job'[j].doc = d =>
          MadeBy(j)' /\ HashSees(job[j], docs[d], Of(d, chunks), files[j], HashComes(d))'
    BY <1>17 DEF MadeBy
<1>19. QED
    BY <1>5, <1>12, <1>15, <1>16, <1>18 DEF FileDoc

\* Each step of the pipeline keeps what its run sees of the hash.
LEMMA WorkSeesHash ==
    ASSUME Undisturbed, NEW j \in Requests, Work(j), ~End(j), MadeBy(j),
           NEW d \in Requests, d = job[j].doc, job[j].source \in Files,
           \A c \in Contents : ChunksOf(c) = Plain[c],
           HashSees(job[j], docs[d], Of(d, chunks), files[j], HashComes(d)),
           docs'[d].hash = docs[d].hash /\ HashComes(d) => HashComes(d)'
    PROVE  HashSees(job'[j], docs'[d], Of(d, chunks'), files'[j], HashComes(d)')
<1>0. ShapeInv
    BY DEF Undisturbed, RowInv
<1> DEFINE run  == job[j]
           run2 == job'[j]
           h    == docs[d].hash
           h2   == docs'[d].hash
           st   == docs[d].status
           st2  == docs'[d].status
           come == HashComes(d)
           com2 == HashComes(d)'
<1>1. ASSUME h2 = h PROVE \A c : h = c \/ come => h2 = c \/ com2
    BY <1>1
<1>2. run.pc \notin {"addChunks", "ack"} => st # "completed"
    BY DEF HashSees
<1>3. ASSUME run2.pc \in {"syncStart", "readOld", "markFailed"}, st2 # "completed"
      PROVE  HashSees(run2, docs'[d], Of(d, chunks'), files'[j], com2)
    BY <1>3 DEF HashSees
<1>4. ASSUME run2.pc \in {"dropVectors", "dropChunks", "store", "dualWrite", "hash", "enrichment",
                          "cleanup", "previous", "complete"},
             st2 # "completed",
             run2.pc # "cleanup" \/ ~run2.failed => run2.replace \/ h2 = run2.content \/ com2,
             run2.pc \in {"enrichment", "previous", "complete"}
                \/ (run2.pc = "cleanup" /\ ~run2.failed) => h2 = run2.content \/ com2
      PROVE  HashSees(run2, docs'[d], Of(d, chunks'), files'[j], com2)
    BY <1>4 DEF HashSees
<1>5. ASSUME UNCHANGED docs PROVE h2 = h /\ st2 = st
    BY <1>5
<1>6. ASSUME NEW p, Step(j, p) PROVE SameRun(run, run2) /\ run2.pc = p
    BY <1>0, <1>6, StepIsSameRun
<1>7. CASE Load(j)
    <2>1. run.pc = "load" /\ docs' = docs
        BY <1>7 DEF Load, dbVars
    <2>2. CASE job' = [job EXCEPT ![j].pc = "syncStart", ![j].content = files[j]]
        <3>1. run2.pc = "syncStart"
            BY <1>0, <2>2, Fields DEF ShapeInv
        <3>2. QED
            BY <1>2, <1>3, <1>5, <2>1, <3>1
    <2>3. CASE /\ ~run.replace
               /\ job' = [job EXCEPT ![j].pc = "store", ![j].content = files[j],
                      ![j].add = ChunksOf(files[j]), ![j].count = Cardinality(ChunksOf(files[j]))]
        <3>1. run2.pc = "store" /\ run2.content = files[j]
            BY <1>0, <2>3, Fields DEF ShapeInv
        <3>2. h = files[j] \/ come
            BY <2>1, <2>3 DEF HashSees
        <3>3. QED
            BY <1>1, <1>2, <1>4, <1>5, <2>1, <3>1, <3>2
    <2>4. CASE Fail(j, 0)
        <3>1. run2.pc = "cleanup" /\ run2.failed
            BY <1>0, <2>4, Fields DEF ShapeInv, Fail
        <3>2. QED
            BY <1>2, <1>4, <1>5, <2>1, <3>1
    <2>5. QED
        BY <1>7, <2>2, <2>3, <2>4, SourcesAssumption DEF Load, Undisturbed
<1>8. CASE SyncStart(j)
    <2>1. UpdateParseStatus(d, "processing", 0) /\ Step(j, "readOld")
        BY <1>8 DEF SyncStart, Undisturbed
    <2>2. st2 = "processing"
        BY <1>0, <2>1, StatementsWrite
    <2>3. QED
        BY <1>3, <1>6, <2>1, <2>2
<1>9. CASE ReadOld(j)
    <2>1. run.pc = "readOld" /\ docs' = docs
        BY <1>9 DEF ReadOld, dbVars
    <2>2. run.replace /\ run2.replace
        <3>1. run2.replace = run.replace
            BY <1>0, WorkIsRun DEF RunGoesOn
        <3>2. QED
            BY <2>1, <3>1 DEF MadeBy, RunSees
    <2>3. ASSUME NEW p, NEW drop, NEW add, NEW n,
                 job' = [job EXCEPT ![j] = [@ EXCEPT !.pc = p, !.drop = drop, !.add = add,
                                                     !.count = n]]
          PROVE  run2.pc = p
        BY <1>0, <2>3, Fields DEF ShapeInv
    <2>4. PICK retained \in SUBSET Of(job[j].doc, chunks) :
            LET texts == Plain[job[j].content]
                add   == texts \ TextsOf(Of(job[j].doc, chunks))
                drop  == Of(job[j].doc, chunks) \ retained IN
            job' = [job EXCEPT ![j] = [@ EXCEPT
                       !.pc = IF drop # {} THEN "dropVectors"
                              ELSE IF add # {} THEN "store" ELSE "hash",
                       !.drop = drop, !.add = add, !.count = Cardinality(texts)]]
        BY <1>9 DEF ReadOld, Undisturbed
    <2>5. run2.pc \in {"dropVectors", "store", "hash"}
        BY <2>3, <2>4
    <2>6. QED
        BY <1>2, <1>4, <1>5, <2>1, <2>2, <2>5
<1>10. CASE DropVectors(j) \/ DropChunks(j) \/ Store(j) \/ DualWrite(j)
    <2>1. /\ run.pc \in {"dropVectors", "dropChunks", "store", "dualWrite"} /\ docs' = docs
          /\ \/ Step(j, "dropChunks")
             \/ job' = [job EXCEPT ![j].pc = IF job[j].add = {} THEN "hash" ELSE "store",
                                   ![j].drop = {}]
             \/ job' = [job EXCEPT ![j].pc = "dualWrite", ![j].new = NewChunks(j), ![j].add = {}]
             \/ job' = [job EXCEPT ![j].pc = IF ~job[j].replace /\ DocReader THEN "enrichment"
                                                                             ELSE "hash",
                                   ![j].new = {}]
        BY <1>10 DEF DropVectors, DropChunks, Store, DualWrite, dbVars, Undisturbed
    <2>2. /\ run2.content = run.content /\ run2.replace = run.replace
          /\ run2.pc \in {"dropChunks", "hash", "store", "dualWrite", "enrichment"}
          /\ run2.pc = "enrichment" => ~run.replace
        BY <1>0, <2>1, Fields DEF ShapeInv, Step
    <2>3. run.replace \/ h = run.content \/ come
        BY <2>1 DEF HashSees
    <2>4. QED
        BY <1>1, <1>2, <1>4, <1>5, <2>1, <2>2, <2>3
<1>11. CASE WriteHash(j)
    <2>1. /\ run.pc = "hash" /\ UpdateContentHash(d, run.content)
          /\ Step(j, "cleanup") \/ Step(j, "enrichment")
        BY <1>11 DEF WriteHash, Undisturbed
    <2>2. h2 = run.content /\ st2 = st
        BY <1>0, <2>1, StatementsWrite, StatementsHash
    <2>3. run2.content = run.content /\ run2.pc \in {"cleanup", "enrichment"}
        BY <1>6, <2>1 DEF SameRun
    <2>4. QED
        BY <1>2, <1>4, <2>1, <2>2, <2>3
<1>12. CASE MarkEnrichment(j) \/ ReadPrevious(j) \/ Cleanup(j)
    <2>1. /\ docs' = docs
          /\ \/ run.pc = "enrichment" /\ Step(j, "cleanup")
             \/ run.pc = "previous" /\ \E n : job' = [job EXCEPT ![j].pc = "complete",
                                                               ![j].prev = n]
             \/ run.pc = "cleanup" /\ run.failed /\ Step(j, "markFailed")
             \/ run.pc = "cleanup" /\ ~run.failed /\ Step(j, "previous")
        <3>1. CASE MarkEnrichment(j)
            BY <3>1 DEF MarkEnrichment, UpdateEnrichmentStatus, Undisturbed
        <3>2. CASE ReadPrevious(j)
            BY <3>2 DEF ReadPrevious, dbVars, Undisturbed
        <3>3. CASE Cleanup(j)
            BY <3>3 DEF Cleanup, dbVars
        <3>4. QED
            BY <1>12, <3>1, <3>2, <3>3
    <2>2. CASE run.pc = "cleanup" /\ run.failed /\ Step(j, "markFailed")
        BY <1>2, <1>3, <1>5, <1>6, <2>1, <2>2
    <2>3. CASE \/ run.pc = "enrichment" /\ Step(j, "cleanup")
               \/ run.pc = "previous" /\ \E n : job' = [job EXCEPT ![j].pc = "complete",
                                                                 ![j].prev = n]
               \/ run.pc = "cleanup" /\ ~run.failed /\ Step(j, "previous")
        <3>1. /\ run2.content = run.content
              /\ run2.pc \in {"cleanup", "previous", "complete"}
              /\ run.pc \in {"enrichment", "previous"} \/ (run.pc = "cleanup" /\ ~run.failed)
            BY <1>0, <2>3, Fields DEF ShapeInv, Step
        <3>2. h = run.content \/ come
            BY <3>1 DEF HashSees
        <3>3. QED
            BY <1>1, <1>2, <1>4, <1>5, <2>1, <3>1, <3>2
    <2>4. QED
        BY <2>1, <2>2, <2>3
<1>13. CASE Complete(j)
    <2>1. /\ run.pc = "complete" /\ UpdateParseStatus(d, "completed", run.count)
          /\ Step(j, "addChunks") /\ chunks' = chunks
        BY <1>13 DEF Complete, Undisturbed, indexVars
    <2>2. h2 = h /\ run2.pc = "addChunks"
        BY <1>0, <1>6, <2>1, StatementsHash
    <2>3. h = run.content \/ come
        BY <2>1 DEF HashSees
    <2>4. TextsOf(Of(d, chunks)) = Plain[run.content]
        <3>1. Targets(run) /\ TextsOf(Of(d, chunks)) = Goal(run)
            BY <2>1 DEF MadeBy, RunSees
        <3>2. QED
            BY <3>1 DEF Targets, Goal
    <2>5. HashIsRight(docs'[d], Of(d, chunks')) \/ com2
        BY <1>1, <2>1, <2>2, <2>3, <2>4 DEF HashIsRight
    <2>6. QED
        BY <2>2, <2>5 DEF HashSees
<1>14. CASE AddChunks(j)
    <2>1. run.pc = "addChunks" /\ Step(j, "ack") /\ docs' = docs /\ chunks' = chunks
        BY <1>14 DEF AddChunks, Undisturbed, IncrementCounts, indexVars
    <2>2. HashIsRight(docs[d], Of(d, chunks)) \/ come
        BY <2>1 DEF HashSees
    <2>3. run2.pc = "ack"
        BY <1>6, <2>1
    <2>4. QED
        BY <2>1, <2>2, <2>3 DEF HashSees
<1>15. CASE MarkFailed(j)
    <2>1. UpdateParseStatus(d, "failed", run.count) /\ Step(j, "ack")
        BY <1>15 DEF MarkFailed, Undisturbed
    <2>2. st2 = "failed" /\ run2.pc = "ack"
        BY <1>0, <1>6, <2>1, StatementsWrite
    <2>3. QED
        BY <2>2 DEF HashSees, HashIsRight
<1>16. QED
    BY <1>7, <1>8, <1>9, <1>10, <1>11, <1>12, <1>13, <1>14, <1>15 DEF Work

\* What a step of a run leaves of queue, requests and files of the others.
LEMMA WorkLeaves ==
    ASSUME Undisturbed, NEW j \in Requests, Work(j)
    PROVE  /\ req' = req /\ Active' = Active /\ j \notin Active
           /\ \A x \in Requests \ {j} : job'[x] = job[x] /\ files'[x] = files[x]
           /\ \/ End(j) \/ (UNCHANGED <<queue, worker>> /\ j \in Running' /\ job'[j].doc = job[j].doc)
<1>0. RequestInv /\ PipelineInv /\ ShapeInv
    BY DEF Undisturbed, Inv, RowInv
<1>1. req' = req /\ (files' = files \/ Cleanup(j))
    BY WorkClearsAtMostItsFile
<1>2. job[j].pc # "off" /\ \A x \in Requests \ {j} : job'[x] = job[x]
    BY <1>0, WorkGoesOn
<1>3. j \notin Active
    BY <1>0, <1>2, WorkerIsAccepted DEF PipelineInv, Active, Over, Answers
<1>4. \A x \in Requests \ {j} : files'[x] = files[x]
    BY <1>0, <1>1 DEF Cleanup, RemoveFile, RequestInv
<1>5. CASE ~End(j)
    <2>1. job'[j].doc = job[j].doc /\ UNCHANGED <<queue, worker>>
        BY <1>0, <1>5, WorkIsRun DEF RunGoesOn
    <2>2. job'[j].pc # "off"
        BY <1>0, <1>5, WorkOrder DEF EarlyPCs, Cleanup, Complete, AddChunks, MarkFailed
    <2>3. QED
        BY <1>1, <1>2, <1>3, <1>4, <2>1, <2>2 DEF Active, Running
<1>6. QED
    BY <1>1, <1>2, <1>3, <1>4, <1>5 DEF Active

\* The documents a run is not at.
LEMMA WorkKeepsOtherFileDocs ==
    ASSUME Undisturbed, ClientInv, StoreInv, NEW j \in Requests, Work(j),
           NEW d \in Requests, LiveFile(d)', d # job[j].doc
    PROVE  FileDoc(d)'
<1>0. ShapeInv /\ RowInv /\ RunRow(j) /\ PipelineInv /\ LinkInv
    BY DEF Undisturbed, Inv, RowInv, ClientInv
<1>1. docs'[d] = docs[d]
    BY <1>0, WorkLeavesRows
<1>2. /\ req' = req /\ Active' = Active /\ j \notin Active
      /\ \A x \in Requests \ {j} : job'[x] = job[x] /\ files'[x] = files[x]
      /\ \/ End(j) \/ (UNCHANGED <<queue, worker>> /\ j \in Running' /\ job'[j].doc = job[j].doc)
    BY WorkLeaves
<1>3. Of(d, vectors)' = Of(d, vectors) /\ Of(d, chunks)' = Of(d, chunks)
    <2>1. job[j].pc # "off"
        BY <1>0, WorkGoesOn
    <2>2. QED
        BY <1>0, <2>1, WorkElsewhere DEF StoreInv
<1>4. FileDoc(d)
    BY <1>1 DEF ClientInv, LiveFile
<1>5. HashComes(d) => HashComes(d)'
    BY <1>1, WorkKeepsComing
<1>6. End(j) => job'[j].pc = "off"
    BY <1>0, Fields DEF End, ShapeInv
<1>7. \A x \in Running' : job'[x].doc = d => x \in Running \ {j} /\ job'[x] = job[x]
    BY <1>2, <1>6 DEF Running
<1>8. \A x \in Running : job[x].doc = d => x \in Running' /\ job'[x] = job[x]
    BY <1>2 DEF Running
<1>9. (\A x \in Running' : job'[x].doc # d) =>
          SettledDoc(d)' /\ (HashIsRight(docs[d], Of(d, chunks))' \/ HashComes(d)')
    <2>1. (\A x \in Running' : job'[x].doc # d) => \A x \in Running : job[x].doc # d
        BY <1>8
    <2>2. QED
        BY <1>1, <1>3, <1>4, <1>5, <2>1 DEF FileDoc, SettledDoc
<1>10. ASSUME NEW x \in Running', job'[x].doc = d
       PROVE  MadeBy(x)' /\ HashSees(job[x], docs[d], Of(d, chunks), files[x], HashComes(d))'
    <2>1. x \in Running \ {j} /\ job'[x] = job[x] /\ files'[x] = files[x] /\ job[x].doc = d
        BY <1>2, <1>7, <1>10 DEF Running
    <2>2. /\ RunSees(job[x], docs[d], Of(d, vectors), Of(d, chunks))
          /\ HashSees(job[x], docs[d], Of(d, chunks), files[x], HashComes(d))
        BY <1>4, <2>1 DEF FileDoc, MadeBy
    <2>3. HashSees(job'[x], docs'[d], Of(d, chunks'), files'[x], HashComes(d)')
        BY <1>1, <1>3, <1>5, <2>1, <2>2, ComesLonger
    <2>4. RunSees(job'[x], docs'[d], Of(d, vectors'), Of(d, chunks'))
        BY <1>1, <1>3, <2>1, <2>2
    <2>5. QED
        BY <2>1, <2>3, <2>4 DEF MadeBy
<1>11. CASE UNCHANGED <<queue, worker>>
    <2>1. \A i \in DOMAIN queue' : ByTask(i, d)' /\ ~queue'[i].replace => FirstTask(i, d)'
        BY <1>3, <1>4, <1>5, <1>11 DEF FileDoc, ByTask, FirstTask
    <2>2. \A r \in Active' : /\ req'[r].pc \in {"count", "publish"} /\ req'[r].doc = d
                             /\ ~req'[r].replace
                             => Inserts(r, d)'
        BY <1>1, <1>2, <1>3, <1>4, <1>11 DEF FileDoc, Inserts, Active
    <2>3. QED
        BY <1>9, <1>10, <2>1, <2>2 DEF FileDoc
<1>12. CASE End(j) /\ worker = j
    <2>1. queue' = Tail(queue) /\ worker' = None /\ queue # <<>>
        BY <1>0, <1>12, NoneAssumption DEF End, PipelineInv
    <2>2. PICK S : queue \in Seq(S)
        BY <1>0 DEF PipelineInv
    <2>3. /\ \A i \in DOMAIN queue' :
                i \in Nat \ {0} /\ i + 1 \in DOMAIN queue /\ queue'[i] = queue[i + 1]
          /\ \A i \in DOMAIN queue' : i + 1 # 1
        BY <2>1, <2>2
    <2>4. ASSUME NEW i \in DOMAIN queue', queue'[i].doc = d, ~queue'[i].replace
          PROVE  FirstTask(i, d)'
        <3>1. FirstTask(i + 1, d)
            BY <1>4, <2>3, <2>4 DEF FileDoc, ByTask
        <3>2. \A k \in DOMAIN queue' : queue'[k].doc = d => i <= k
            <4>1. ASSUME NEW k \in DOMAIN queue', queue'[k].doc = d PROVE i <= k
                <5>1. i + 1 <= k + 1
                    BY <2>3, <3>1, <4>1 DEF FirstTask
                <5>2. i \in Nat /\ k \in Nat
                    BY <2>3
                <5>3. QED
                    BY <5>1, <5>2
            <4>2. QED
                BY <4>1
        <3>3. QED
            BY <1>3, <1>5, <3>1, <3>2 DEF FirstTask
    <2>5. \A i \in DOMAIN queue' : ByTask(i, d)' /\ ~queue'[i].replace => FirstTask(i, d)'
        BY <2>4 DEF ByTask
    <2>6. \A r \in Active' : /\ req'[r].pc \in {"count", "publish"} /\ req'[r].doc = d
                             /\ ~req'[r].replace
                             => Inserts(r, d)'
        BY <1>1, <1>2, <1>3, <1>4, <2>3 DEF FileDoc, Inserts, Active
    <2>7. QED
        BY <1>9, <1>10, <2>5, <2>6 DEF FileDoc
<1>13. QED
    BY <1>2, <1>11, <1>12 DEF End

\* The document the worker is at.
LEMMA WorkKeepsItsFileDoc ==
    ASSUME Undisturbed, ClientInv, NEW j \in Requests, Work(j),
           \A c \in Contents : ChunksOf(c) = Plain[c],
           NEW d \in Requests, LiveFile(d)', d = job[j].doc
    PROVE  FileDoc(d)'
<1>0. ShapeInv /\ RowInv /\ RunRow(j) /\ PipelineInv /\ LinkInv
    BY DEF Undisturbed, Inv, RowInv, ClientInv
<1>1. /\ req' = req /\ Active' = Active /\ j \notin Active
      /\ \A x \in Requests \ {j} : job'[x] = job[x] /\ files'[x] = files[x]
      /\ \/ End(j) \/ (UNCHANGED <<queue, worker>> /\ j \in Running' /\ job'[j].doc = job[j].doc)
    BY WorkLeaves
<1>2. LiveFile(d) /\ FileDoc(d) /\ j \in Running
    <2>1. RowsKept
        BY <1>0, WorkKeepsRows
    <2>2. job[j].pc # "off"
        BY <1>0, WorkGoesOn
    <2>3. QED
        BY <2>1, <2>2 DEF RowsKept, LiveFile, ClientInv, Running
<1>3. worker = j /\ \A x \in Running : job[x].doc = d => x = j
    BY <1>0, <1>2, FileRunIsWorkers
<1>4. /\ 1 \in DOMAIN queue /\ queue[1].doc = d /\ queue # <<>>
      /\ job[j].source = docs[d].source
    BY <1>0, <1>2, <1>3, WorkerIsAccepted DEF LinkInv, PipelineInv
<1>5. MadeBy(j) /\ HashSees(job[j], docs[d], Of(d, chunks), files[j], HashComes(d))
    BY <1>2 DEF FileDoc
<1>6. docs'[d].hash = docs[d].hash /\ HashComes(d) => HashComes(d)'
    BY WorkKeepsComing
<1>7. PICK S : queue \in Seq(S)
    BY <1>0 DEF PipelineInv
<1>8. \A i \in DOMAIN queue : queue[i].doc = d /\ i # 1 => queue[i].replace
    <2>1. ASSUME NEW i \in DOMAIN queue, queue[i].doc = d, i # 1, ~queue[i].replace PROVE FALSE
        <3>1. FirstTask(i, d)
            BY <1>2, <2>1 DEF FileDoc, ByTask
        <3>2. i <= 1
            BY <1>4, <3>1 DEF FirstTask
        <3>3. QED
            BY <1>7, <2>1, <3>2
    <2>2. QED
        BY <2>1
<1>9. \A r \in Active' : ~(/\ req'[r].pc \in {"count", "publish"} /\ req'[r].doc = d
                           /\ ~req'[r].replace)
    BY <1>1, <1>2, <1>4 DEF FileDoc, Inserts
<1>10. CASE ~End(j)
    <2>1. \A i \in DOMAIN queue' : ~(ByTask(i, d)' /\ ~queue'[i].replace)
        BY <1>1, <1>3, <1>8, <1>10, NoneAssumption DEF ByTask
    <2>2. \A x \in Running' : job'[x].doc = d => x = j
        BY <1>1, <1>3 DEF Running
    <2>3. MadeBy(j)'
        BY <1>5, <1>10, WorkMakes DEF ClientInv
    <2>4. HashSees(job[j], docs[d], Of(d, chunks), files[j], HashComes(d))'
        <3>1. HashSees(job'[j], docs'[d], Of(d, chunks'), files'[j], HashComes(d)')
            BY <1>2, <1>4, <1>5, <1>6, <1>10, WorkSeesHash DEF LiveFile
        <3>2. QED
            BY <3>1
    <2>5. QED
        BY <1>1, <1>9, <1>10, <2>1, <2>2, <2>3, <2>4 DEF FileDoc
<1>11. CASE End(j)
    <2>1. /\ job[j].pc = "ack" /\ job' = [job EXCEPT ![j] = NoJob] /\ queue' = Tail(queue)
          /\ UNCHANGED <<docs, chunks, vectors>>
        BY <1>3, <1>11 DEF End, dbVars, indexVars
    <2>2. \A x \in Running' : job'[x].doc # d
        <3>1. job'[j].pc = "off"
            BY <1>0, <2>1, Fields DEF ShapeInv
        <3>2. QED
            BY <1>1, <1>3, <3>1 DEF Running
    <2>3. SettledDoc(d)'
        <3>1. SettledDoc(d)
            BY <1>5, <2>1 DEF MadeBy, RunSees, SettledDoc
        <3>2. QED
            BY <2>1, <3>1 DEF SettledDoc
    <2>4. HashIsRight(docs[d], Of(d, chunks))' \/ HashComes(d)'
        BY <1>5, <1>6, <2>1 DEF HashSees
    <2>5. \A i \in DOMAIN queue' : i + 1 \in DOMAIN queue /\ i + 1 # 1 /\ queue'[i] = queue[i + 1]
        BY <1>4, <1>7, <2>1
    <2>6. \A i \in DOMAIN queue' : ~(ByTask(i, d)' /\ ~queue'[i].replace)
        BY <1>8, <2>5 DEF ByTask
    <2>7. QED
        BY <1>9, <2>2, <2>3, <2>4, <2>6 DEF FileDoc
<1>12. QED
    BY <1>10, <1>11

LEMMA TakeKeepsFileDocs ==
    ASSUME Undisturbed, ClientInv, NEW t, NEW k \in Requests, NEW d \in Requests,
           Takes(t, k, d), NEW e \in Requests, LiveFile(e)'
    PROVE  FileDoc(e)'
<1>0. ShapeInv /\ RowInv /\ PipelineInv /\ LinkInv /\ TaskRows
    BY DEF Undisturbed, Inv, RowInv, ClientInv
<1>1. /\ t = queue[1] /\ 1 \in DOMAIN queue /\ worker = None /\ worker' = k /\ d = t.doc
      /\ \A x \in Requests \ {k} : job'[x] = job[x]
      /\ UNCHANGED <<chunks, vectors, files, req, queue>>
      /\ UpdateParseStatus(d, "processing", 0)
    BY DEF Takes
<1>2. LiveFile(e) /\ FileDoc(e) /\ Made(d)
    <2>1. Made(d)
        BY <1>0, <1>1 DEF TaskRows
    <2>2. RowsKept
        BY <1>0, <1>1, <2>1, StatementKeepsRows
    <2>3. QED
        BY <2>1, <2>2 DEF RowsKept, LiveFile, ClientInv
<1>3. \A x \in Running : job[x].doc # e
    BY <1>0, <1>1, <1>2, FileRunIsWorkers, NoneAssumption DEF Running
<1>4. SettledDoc(e) /\ (HashIsRight(docs[e], Of(e, chunks)) \/ HashComes(e))
    BY <1>2, <1>3 DEF FileDoc
<1>5. HashComes(e) => HashComes(e)' \/ (e = d /\ files[k] = docs[e].hash)
    BY TakeKeepsComing
<1>6. Active' = Active /\ k # None /\ docs'[e].hash = docs[e].hash
    BY <1>0, <1>1, StatementsHash, NoneAssumption DEF Active
<1>7. \A x \in Running' : job'[x].doc = e => x = k
    BY <1>1, <1>3 DEF Running
<1>8. PICK S : queue \in Seq(S)
    BY <1>0 DEF PipelineInv
<1>9. CASE e # d
    <2>1. docs'[e] = docs[e]
        BY <1>0, <1>1, <1>9, StatementsWrite
    <2>2. \A x \in Running' : job'[x].doc # e
        BY <1>7, <1>9 DEF Takes
    <2>3. SettledDoc(e)' /\ (HashIsRight(docs[e], Of(e, chunks))' \/ HashComes(e)')
        BY <1>1, <1>4, <1>5, <1>9, <2>1 DEF SettledDoc
    <2>4. \A i \in DOMAIN queue' : ByTask(i, e)' /\ ~queue'[i].replace => FirstTask(i, e)'
        BY <1>1, <1>2, <1>5, <1>9 DEF FileDoc, ByTask, FirstTask
    <2>5. \A r \in Active' : /\ req'[r].pc \in {"count", "publish"} /\ req'[r].doc = e
                             /\ ~req'[r].replace
                             => Inserts(r, e)'
        BY <1>1, <1>2, <1>6, <2>1 DEF FileDoc, Inserts
    <2>6. QED
        BY <2>2, <2>3, <2>4, <2>5 DEF FileDoc
<1>10. CASE e = d
    <2>1. k \in Running' /\ job'[k].doc = d
        BY DEF Takes, Running
    <2>2. \A i \in DOMAIN queue : queue[i].doc = d /\ ~queue[i].replace => FirstTask(i, d)
        BY <1>1, <1>2, <1>10 DEF FileDoc, ByTask
    <2>3. \A i \in DOMAIN queue' : ~(ByTask(i, d)' /\ ~queue'[i].replace)
        <3>1. ASSUME NEW i \in DOMAIN queue, queue[i].doc = d, i # 1, ~queue[i].replace
              PROVE  FALSE
            <4>1. i <= 1
                BY <1>1, <2>2, <3>1 DEF FirstTask
            <4>2. QED
                BY <1>8, <3>1, <4>1
        <3>2. QED
            BY <1>1, <1>6, <3>1 DEF ByTask
    <2>4. \A r \in Active' : ~(/\ req'[r].pc \in {"count", "publish"} /\ req'[r].doc = d
                               /\ ~req'[r].replace)
        BY <1>1, <1>2, <1>6, <1>10 DEF FileDoc, Inserts
    <2>5. ~t.replace => Of(d, chunks) = {} /\ HashComes(d)
        BY <1>1, <2>2 DEF FirstTask
    <2>6. docs'[d].live /\ docs'[d].status = "processing" /\ docs[d].live
        BY <1>0, <1>1, <1>2, <1>10, StatementsWrite DEF LiveFile
    <2>7. /\ job'[k].pc = "load" /\ job'[k].replace = t.replace /\ ~job'[k].full
          /\ ~job'[k].failed
        BY DEF Takes
    <2>8. StartsFrom(job'[k].replace, docs'[d], Of(d, vectors), Of(d, chunks))
        BY <1>4, <1>10, <2>5, <2>6, <2>7 DEF SettledDoc, Settled, StartsFrom
    <2>9. RunSees(job'[k], docs'[d], Of(d, vectors), Of(d, chunks))
        BY <2>6, <2>7, <2>8 DEF RunSees
    <2>10. MadeBy(k)'
        BY <1>1, <2>1, <2>9 DEF MadeBy
    <2>11. ~t.replace => files'[k] = docs'[d].hash \/ HashComes(d)'
        BY <1>1, <1>5, <1>6, <1>10, <2>5
    <2>12. HashSees(job'[k], docs'[d], Of(d, chunks'), files'[k], HashComes(d)')
        BY <2>6, <2>7, <2>11 DEF HashSees
    <2>13. QED
        BY <1>7, <1>10, <2>1, <2>3, <2>4, <2>10, <2>12 DEF FileDoc
<1>11. QED
    BY <1>9, <1>10

LEMMA SameKeepsClientInv ==
    ASSUME ClientInv, UNCHANGED <<docs, chunks, vectors, files, queue, worker, req, job>>,
           page' \in [Pages -> Contents]
    PROVE  ClientInv'
<1>1. Active' = Active /\ Running' = Running
    BY DEF Active, Running
<1>2. LinkInv'
    <2>1. \A r \in Active : Offers(r)'
        BY DEF ClientInv, LinkInv, Offers
    <2>2. QED
        BY <1>1, <2>1 DEF ClientInv, LinkInv
<1>3. ASSUME NEW d \in Requests, LiveFile(d)' PROVE FileDoc(d)'
    <2>1. FileDoc(d)
        BY <1>3 DEF ClientInv, LiveFile
    <2>2. HashComes(d)' <=> HashComes(d)
        BY <1>1 DEF HashComes, ByTask
    <2>3. \A x : (Inserts(x, d)' <=> Inserts(x, d)) /\ (MadeBy(x)' <=> MadeBy(x))
        BY DEF Inserts, MadeBy
    <2>4. \A i : FirstTask(i, d)' <=> FirstTask(i, d)
        BY <2>2 DEF FirstTask
    <2>5. SettledDoc(d)' <=> SettledDoc(d)
        BY DEF SettledDoc
    <2>6. \A i \in DOMAIN queue' : ByTask(i, d)' /\ ~queue'[i].replace => FirstTask(i, d)'
        BY <2>1, <2>4 DEF FileDoc, ByTask
    <2>7. \A j \in Running' : job'[j].doc = d =>
              MadeBy(j)' /\ HashSees(job[j], docs[d], Of(d, chunks), files[j], HashComes(d))'
        <3>1. ASSUME NEW j \in Running', job'[j].doc = d
              PROVE  HashSees(job'[j], docs'[d], Of(d, chunks'), files'[j], HashComes(d)')
            <4>1. HashSees(job[j], docs[d], Of(d, chunks), files[j], HashComes(d))
                BY <1>1, <2>1, <3>1 DEF FileDoc
            <4>2. QED
                BY <2>2, <4>1, ComesLonger
        <3>2. QED
            BY <1>1, <2>1, <2>3, <3>1 DEF FileDoc
    <2>8. (\A j \in Running' : job'[j].doc # d) =>
              SettledDoc(d)' /\ (HashIsRight(docs[d], Of(d, chunks))' \/ HashComes(d)')
        BY <1>1, <2>1, <2>2, <2>5 DEF FileDoc
    <2>9. \A r \in Active' : /\ req'[r].pc \in {"count", "publish"} /\ req'[r].doc = d
                             /\ ~req'[r].replace
                             => Inserts(r, d)'
        BY <1>1, <2>1, <2>3 DEF FileDoc
    <2>10. QED
        BY <2>6, <2>7, <2>8, <2>9 DEF FileDoc
<1>4. QED
    BY <1>1, <1>2, <1>3 DEF ClientInv

LEMMA InitClientInv == Init => ClientInv
<1> SUFFICES ASSUME Init PROVE ClientInv
    OBVIOUS
<1>1. /\ Active = {} /\ Running = {} /\ queue = <<>>
      /\ \A d \in Requests : docs[d] = NoDoc
    BY Fields DEF Init, Active, Running
<1>2. page \in [Pages -> Contents]
    BY DEF Init
<1>3. \A d \in Requests : ~docs[d].live
    BY <1>1, OtherFields
<1>4. QED
    BY <1>1, <1>2, <1>3 DEF ClientInv, LinkInv, LiveFile

\* A request begins when no other is active.
LEMMA BeginsAlone ==
    ASSUME MaxActive = 1, ClientInv, NEW r, MayStart PROVE Active = {}
<1>1. ~(Cardinality(Active) = 1)
    BY DEF MayStart
<1>2. \A x : Active # {x}
    BY <1>1, FS_Singleton
<1>3. QED
    BY <1>2 DEF ClientInv

LEMMA RequestKeepsClientInv ==
    ASSUME MaxActive = 1, Undisturbed, ClientInv, NEW r \in Requests, Begin(r) \/ Serve(r)
    PROVE  ClientInv'
<1>0. RequestInv /\ PipelineInv /\ ShapeInv /\ LinkInv
    BY DEF Undisturbed, Inv, RowInv, ClientInv
<1>1. page' = page
    BY PagesStay
<1>2. /\ \A x \in Requests \ {r} : req'[x] = req[x]
      /\ Begin(r) => Active = {}
      /\ ~Begin(r) => Active = {r}
    <2>1. Moves(r) \/ Publishes(r)
        BY <1>0, BeginMoves, ServeMovesOrPublishes
    <2>2. Begin(r) => Active = {}
        BY <1>0, BeginStep, BeginsAlone
    <2>3. Serve(r) => r \in Active
        BY DEF Serve, Active, Over, Answers, Dedupe, Find, Create, CountUp, Prepare, Publish,
               MarkUnpublished, SoftDelete, Wipe, CountDown, ClearVectors, ClearChunks,
               ResetStatus, Republish, Fetch
    <2>4. QED
        BY <2>1, <2>2, <2>3 DEF Moves, Publishes, ClientInv
<1>3. Active' \subseteq {r}
    BY <1>2 DEF Active
<1>4. LinkInv'
    BY <1>0, <1>2, RequestKeepsLinkInv, ServeKeepsLinkInv
<1>5. ASSUME NEW d \in Requests, LiveFile(d)' PROVE FileDoc(d)'
    <2>1. CASE Create(r) /\ d = r
        <3>1. ~Begin(r)
            BY <1>0, <2>1, BeginStep DEF Create
        <3>2. QED
            BY <1>0, <1>2, <1>5, <2>1, <3>1, CreateMakesFileDoc
    <2>2. CASE ~(Create(r) /\ d = r)
        BY <1>2, <1>5, <2>2, RequestKeepsFileDocs
    <2>3. QED
        BY <2>1, <2>2
<1>6. QED
    BY <1>1, <1>3, <1>4, <1>5 DEF ClientInv

LEMMA WorkKeepsClientInv ==
    ASSUME Undisturbed, ClientInv, StoreInv, \A c \in Contents : ChunksOf(c) = Plain[c],
           NEW j \in Requests, Work(j)
    PROVE  ClientInv'
<1>1. page' = page /\ Active' = Active
    BY PagesStay, WorkLeaves
<1>2. LinkInv'
    BY <1>1, WorkKeepsLinkInv DEF ClientInv
<1>3. \A d \in Requests : LiveFile(d)' => FileDoc(d)'
    BY WorkKeepsOtherFileDocs, WorkKeepsItsFileDoc
<1>4. QED
    BY <1>1, <1>2, <1>3 DEF ClientInv

LEMMA TakeKeepsClientInv == ASSUME Undisturbed, ClientInv, Take PROVE ClientInv'
<1>1. page' = page
    BY PagesStay
<1>2. PICK t : \E k, d \in Requests : Takes(t, k, d)
    BY TakeTakes
<1>3. PICK k \in Requests, d \in Requests : Takes(t, k, d)
    BY <1>2
<1>4. Active' = Active
    BY <1>3 DEF Takes, Active
<1>5. LinkInv'
    BY <1>3, TakeKeepsLinkInv DEF ClientInv
<1>6. \A e \in Requests : LiveFile(e)' => FileDoc(e)'
    BY <1>3, TakeKeepsFileDocs
<1>7. QED
    BY <1>1, <1>4, <1>5, <1>6 DEF ClientInv

LEMMA NextKeepsClientInv ==
    ASSUME MaxActive = 1, \A c \in Contents : ChunksOf(c) = Plain[c],
           Inv, RowInv, CalmInv, Calm => ClientInv, [Next]_vars
    PROVE  Calm' => ClientInv'
<1> SUFFICES ASSUME Calm' PROVE ClientInv'
    OBVIOUS
<1>1. /\ Undisturbed /\ ClientInv /\ StoreInv
      /\ \/ \E r \in Requests : Begin(r) \/ Serve(r) \/ Work(r)
         \/ Take
         \/ \E s \in Pages : ChangePage(s)
         \/ UNCHANGED vars
    BY CalmStep DEF CalmInv, Undisturbed
<1>2. ASSUME NEW r \in Requests, Begin(r) \/ Serve(r) \/ Work(r) PROVE ClientInv'
    BY <1>1, <1>2, RequestKeepsClientInv, WorkKeepsClientInv
<1>3. CASE Take
    BY <1>1, <1>3, TakeKeepsClientInv
<1>4. CASE \E s \in Pages : ChangePage(s)
    <2>1. page' \in [Pages -> Contents]
        BY <1>1, <1>4 DEF ChangePage, ClientInv
    <2>2. UNCHANGED <<docs, chunks, vectors, files, queue, worker, req, job>>
        BY <1>4 DEF ChangePage, dbVars, indexVars, taskVars
    <2>3. QED
        BY <1>1, <2>1, <2>2, SameKeepsClientInv
<1>5. CASE UNCHANGED vars
    BY <1>1, <1>5, SameKeepsClientInv
       DEF vars, dbVars, indexVars, taskVars, worldVars, ClientInv
<1>6. QED
    BY <1>1, <1>2, <1>3, <1>4, <1>5

LEMMA ClientInvariance ==
    ASSUME MaxActive = 1, \A c \in Contents : ChunksOf(c) = Plain[c]
    PROVE  Spec => [](Inv /\ RowInv /\ CalmInv /\ (Calm => ClientInv))
<1>1. Init => (Calm => ClientInv)
    BY InitClientInv
<1>2. Inv /\ RowInv /\ CalmInv /\ (Calm => ClientInv) /\ [Next]_vars => (Calm => ClientInv)'
    BY NextKeepsClientInv
<1>3. QED
    BY <1>1, <1>2, CalmInvariance, PTL DEF Spec

\* Requests that come one at a time, but do not wait for the worker: what is found of a
\* file that is shown as completed is the content whose hash its row has, each chunk of
\* it once, and as many as the row says.  The worker may run an earlier upload while the
\* row already has the hash of a later one, or the other way round, but then the run or
\* the task of the later one is still to come, and the document not done.
THEOREM ClientIndexedExactly ==
    ASSUME MaxActive = 1, Pages = {}, \A c \in Contents : ChunksOf(c) = Plain[c]
    PROVE  Spec => [](Calm => IndexedExactly)
<1>1. ASSUME Inv, RowInv, ClientInv PROVE IndexedExactly
    <2>1. SUFFICES ASSUME NEW d \in Requests, Done(d)
                   PROVE  /\ Indexed(d) = Plain[docs[d].hash]
                          /\ Cardinality(Of(d, vectors)) = Cardinality(Indexed(d))
                          /\ docs[d].count = Cardinality(Indexed(d))
        BY DEF IndexedExactly
    <2>2. LiveFile(d) /\ docs[d].status = "completed" /\ ~Owned(d)
        BY <1>1, <2>1 DEF Done, ClientInv, LinkInv, LiveFile, Sources
    <2>3. FileDoc(d) /\ (\A j \in Running : job[j].doc # d) /\ ~HashComes(d)
        BY <1>1, <2>2 DEF ClientInv, Owned, HashComes, ByTask
    <2>4. SettledDoc(d) /\ TextsOf(Of(d, chunks)) = Plain[docs[d].hash]
        BY <2>2, <2>3 DEF FileDoc, HashIsRight
    <2>5. /\ Of(d, vectors) = Of(d, chunks) /\ EachOnce(Of(d, chunks))
          /\ OneVersion(docs[d], Of(d, chunks))
        BY <2>2, <2>4 DEF SettledDoc, Settled, Coherent, LiveFile
    <2>6. PICK c \in Contents : /\ TextsOf(Of(d, chunks)) = Plain[c]
                                /\ docs[d].count = Cardinality(Plain[c])
        BY <2>5 DEF OneVersion
    <2>7. Cardinality(Of(d, chunks)) = Cardinality(Plain[c])
        BY <2>5, <2>6, OneChunkEach, ParseAssumption
    <2>8. QED
        BY <2>4, <2>5, <2>6, <2>7 DEF Indexed
<1>2. Inv /\ RowInv /\ CalmInv /\ (Calm => ClientInv) => (Calm => IndexedExactly)
    BY <1>1
<1>3. QED
    BY <1>2, ClientInvariance, PTL

\* How an upload is answered with "duplicate".
LEMMA OnlyDedupeMatches ==
    ASSUME Undisturbed, NEW r \in Requests, req[r].pc = "dedupe", req'[r].pc = "duplicate",
           \/ \E x \in Requests : Begin(x) \/ Serve(x) \/ Work(x)
           \/ Take
           \/ \E s \in Pages : ChangePage(s)
           \/ UNCHANGED vars
    PROVE  LET d == req'[r].doc IN
           /\ d = FindByContentHash(req[r].content) /\ d # None
           /\ docs[d].status = "completed"
<1>0. ShapeInv /\ RequestInv /\ PipelineInv
    BY DEF Undisturbed, Inv, RowInv
<1>1. req' # req
    OBVIOUS
<1>2. PICK x \in Requests : Begin(x) \/ Serve(x)
    <2>1. \A x \in Requests : Work(x) => req' = req
        BY WorkClearsAtMostItsFile
    <2>2. Take => req' = req
        BY DEF Take
    <2>3. QED
        BY <1>1, <2>1, <2>2 DEF ChangePage, vars
<1>3. x = r
    BY <1>0, <1>2, BeginMoves, ServeMovesOrPublishes DEF Moves, Publishes
<1>4. Dedupe(r)
    BY <1>0, <1>2, <1>3, BeginStep
       DEF Serve, Find, Create, CountUp, Prepare, Publish, MarkUnpublished, SoftDelete, Wipe,
           CountDown, ClearVectors, ClearChunks, ResetStatus, Republish, Fetch
<1> DEFINE d == FindByContentHash(req[r].content)
           q == [NoReq EXCEPT !.pc = "duplicate", !.doc = d, !.content = req[r].content]
<1>5. \/ Goto(r, "find")
      \/ d # None /\ docs[d].status = "completed" /\ req' = [req EXCEPT ![r] = q]
    BY <1>4 DEF Dedupe, Undisturbed
<1>6. q.doc = d
    BY Fields
<1> HIDE DEF d, q
<1>7. ~Goto(r, "find")
    BY <1>0, GotoKeepsShape
<1>8. req'[r].doc = d
    BY <1>0, <1>5, <1>6, <1>7 DEF ShapeInv
<1>9. QED
    BY <1>5, <1>7, <1>8 DEF d

\* As long as nothing fails, a file that such a client is told is a duplicate is found:
\* the document it was matched with by its hash has that content in the index, or a
\* queued task will bring it.
THEOREM ClientDuplicateIsCovered ==
    ASSUME MaxActive = 1, \A c \in Contents : ChunksOf(c) = Plain[c]
    PROVE  Spec /\ []Calm => DuplicateIsCovered
<1>1. ASSUME Undisturbed, ClientInv, NEW r \in Requests, req[r].pc = "dedupe",
             NEW d, d = FindByContentHash(req[r].content), d # None,
             docs[d].status = "completed", NEW c, c = req[r].content
      PROVE  \/ Plain[c] \subseteq Indexed(d)
             \/ \E i \in DOMAIN queue : queue[i].doc = d /\ files[queue[i].id] = c
    <2>1. LiveFile(d) /\ d \in Requests /\ docs[d].hash = c
        BY <1>1, FoundIsLive, FoundMatches DEF LiveFile
    <2>2. FileDoc(d)
        BY <1>1, <2>1 DEF ClientInv
    <2>3. HashComes(d) => \E i \in DOMAIN queue : queue[i].doc = d /\ files[queue[i].id] = c
        <3>1. r \in Active
            BY <1>1 DEF Active, Over, Answers
        <3>2. QED
            BY <1>1, <2>1, <3>1 DEF ClientInv, HashComes, ByTask
    <2>4. SettledDoc(d) /\ (HashIsRight(docs[d], Of(d, chunks)) \/ HashComes(d))
        <3>1. CASE \A j \in Running : job[j].doc # d
            BY <2>2, <3>1 DEF FileDoc
        <3>2. ASSUME NEW j \in Running, job[j].doc = d
              PROVE  SettledDoc(d) /\ (HashIsRight(docs[d], Of(d, chunks)) \/ HashComes(d))
            <4>1. /\ RunSees(job[j], docs[d], Of(d, vectors), Of(d, chunks))
                  /\ HashSees(job[j], docs[d], Of(d, chunks), files[j], HashComes(d))
                BY <2>2, <3>2 DEF FileDoc, MadeBy
            <4>2. job[j].pc \in {"addChunks", "ack"}
                BY <1>1, <4>1 DEF HashSees
            <4>3. QED
                BY <4>1, <4>2 DEF RunSees, HashSees, SettledDoc
        <3>3. QED
            BY <3>1, <3>2
    <2>5. Of(d, vectors) = Of(d, chunks)
        BY <2>1, <2>4 DEF SettledDoc, Settled, Coherent, LiveFile
    <2>6. QED
        BY <1>1, <2>1, <2>3, <2>4, <2>5 DEF HashIsRight, Indexed
<1>2. ASSUME Inv, RowInv, CalmInv, Calm => ClientInv, Calm, Calm', [Next]_vars,
             NEW r \in Requests, req[r].pc = "dedupe", req'[r].pc = "duplicate"
      PROVE  LET d == req'[r].doc
                 c == req[r].content IN
             \/ Plain[c] \subseteq Indexed(d)
             \/ \E i \in DOMAIN queue : queue[i].doc = d /\ files[queue[i].id] = c
    <2>1. /\ Undisturbed
          /\ \/ \E x \in Requests : Begin(x) \/ Serve(x) \/ Work(x)
             \/ Take
             \/ \E s \in Pages : ChangePage(s)
             \/ UNCHANGED vars
        BY <1>2, CalmStep DEF CalmInv, Undisturbed
    <2>2. PICK d : d = req'[r].doc
        OBVIOUS
    <2>3. d = FindByContentHash(req[r].content) /\ d # None /\ docs[d].status = "completed"
        BY <1>2, <2>1, <2>2, OnlyDedupeMatches
    <2>4. QED
        BY <1>1, <1>2, <2>1, <2>2, <2>3
<1>3. Inv /\ RowInv /\ CalmInv /\ (Calm => ClientInv) /\ Calm /\ Calm' /\ [Next]_vars =>
        [\A r \in Requests :
            req[r].pc = "dedupe" /\ req'[r].pc = "duplicate" =>
                LET d == req'[r].doc
                    c == req[r].content IN
                \/ Plain[c] \subseteq Indexed(d)
                \/ \E i \in DOMAIN queue : queue[i].doc = d /\ files[queue[i].id] = c]_vars
    BY <1>2
<1>4. QED
    BY <1>3, ClientInvariance, PTL DEF Spec, DuplicateIsCovered
=============================================================================
