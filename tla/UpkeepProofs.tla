----------------------------- MODULE UpkeepProofs -----------------------------
(***************************************************************************)
(* Proofs about what is changed while the system runs: the chunks of a     *)
(* document (ChunkUpkeep), for any document of at least one chunk, any     *)
(* clients and workers, and any number of edits and failures; the settings *)
(* (Settings), for any administrators, any forms of the handlers' fields,  *)
(* and any number of requests, failed calls and restarts; the pages of a   *)
(* wiki (WikiPages), for any documents, answers of the model, failures and *)
(* deletions; the status of an import (ImportStatus), for any number of    *)
(* enrichments, uploads and failures; the graph of a knowledge base        *)
(* (GraphBuild), for any chunks, extractions, deletions and failures; and  *)
(* the graph of the code repositories (CodeRepos), for any repositories,   *)
(* versions, clients and overlapping requests.                             *)
(***************************************************************************)
EXTENDS ChunkUpkeep, Settings, WikiPages, ImportStatus, GraphBuild, CodeRepos, TLAPS,
        FiniteSetTheorems

Indexes == DOMAIN Chunks
Texts == {<<>>} \cup (ChunkIds \X Nat)
Docs == [text : Texts, enriched : BOOLEAN]

TypeInv ==
  /\ row \in [ChunkIds -> Texts]
  /\ revisions \in [ChunkIds -> SUBSET Texts]
  /\ index \in [ChunkIds -> SUBSET Docs]
  /\ client \in [Clients -> [pc : {"idle", "read", "keep", "update", "embed"},
                             chunk : ChunkIds, read : Texts, text : Texts]]
  /\ past \in [ChunkIds -> SUBSET Texts]
  /\ contested \in [ChunkIds -> SUBSET Texts]
  /\ writes \in Nat

\* What a request knows of its chunk between two statements.
RequestFacts ==
  \A u \in Clients :
    LET c == client[u].chunk IN
    /\ client[u].pc = "keep" => row[c] \in {client[u].read} \cup contested[c]
    /\ client[u].pc = "update" => row[c] \in revisions[c] \cup contested[c]
    /\ client[u].pc = "embed" => client[u].text \in past[c]

RowIsPast == \A c \in ChunkIds : row[c] \in past[c]

EditInv == TypeInv /\ RowIsPast /\ RequestFacts /\ HistoryKept

PoolType ==
  /\ run \in [pc : {"off", "read", "pool", "store"}, docs : {<<>>} \cup [Indexes -> Texts]]
  /\ queue \in Seq(Indexes)
  /\ worker \in [Workers -> {0} \cup Indexes]
  /\ run.pc \in {"pool", "store"} =>
       run.docs \in [Indexes -> Texts] /\ enriched \in [Indexes -> Docs]

\* What the pool works on were texts of the chunks at their indexes.
DocsArePast ==
  run.pc \in {"pool", "store"} => \A i \in Indexes : run.docs[i] \in past[Chunks[i]]

Queued(i) == \E j \in 1 .. Len(queue) : queue[j] = i

\* Each index is done, at a worker or still in the queue.
NoIndexLost ==
  /\ \A w \in Workers : worker[w] # 0 => run.pc = "pool"
  /\ run.pc = "pool" => \A i \in Indexes : \/ enriched[i].text = run.docs[i] \/ Queued(i)
                                           \/ \E w \in Workers : worker[w] = i
  /\ run.pc = "store" => \A i \in Indexes : enriched[i].text = run.docs[i]

PoolInv == PoolType /\ DocsArePast /\ NoIndexLost

IInv == EditInv /\ PoolInv /\ IndexHoldsOwnText

-----------------------------------------------------------------------------
LEMMA ChunkFacts ==
  /\ Indexes = 1 .. Len(Chunks) /\ Len(Chunks) \in Nat /\ 1 \in Indexes /\ 0 \notin Indexes
  /\ \A i \in Indexes : Chunks[i] \in ChunkIds
BY ChunksAssumption DEF Indexes, ChunkIds

LEMMA InitIInv == UpkeepInit => IInv
<1> SUFFICES ASSUME UpkeepInit PROVE IInv OBVIOUS
<1> USE ChunkFacts DEF UpkeepInit
<1>1. TypeInv BY DEF TypeInv, Texts, Docs, Doc, NoOne
<1>2. RowIsPast /\ RequestFacts /\ HistoryKept
  BY DEF RowIsPast, RequestFacts, HistoryKept, NoOne
<1>3. PoolInv BY DEF PoolInv, PoolType, DocsArePast, NoIndexLost, Off
<1>4. IndexHoldsOwnText BY DEF IndexHoldsOwnText, Doc
<1> QED BY <1>1, <1>2, <1>3, <1>4 DEF IInv, EditInv

\* A step that leaves the texts of the chunks, and the requests, as they are.
LEMMA ElsewhereKeepsEdits ==
  ASSUME EditInv, UNCHANGED <<row, revisions, client, past, contested, writes>>,
         index' \in [ChunkIds -> SUBSET Docs]
  PROVE  EditInv'
BY DEF EditInv, TypeInv, RowIsPast, RequestFacts, HistoryKept

\* Steps of the requests leave the pool alone, and no text is ever struck from the past.
LEMMA RequestsKeepPool ==
  ASSUME PoolInv, UNCHANGED Background, \A c \in ChunkIds : past[c] \subseteq past'[c]
  PROVE  PoolInv'
<1> USE DEF PoolInv, Background
<1>1. PoolType' BY DEF PoolType
<1>2. DocsArePast' BY ChunkFacts DEF DocsArePast, PoolType
<1>3. NoIndexLost' BY DEF NoIndexLost, Queued, PoolType
<1> QED BY <1>1, <1>2, <1>3

\* What happens to a request that takes a step or fails.
LEMMA StepTo ==
  ASSUME TypeInv, NEW u \in Clients, NEW ok \in BOOLEAN, NEW from, NEW to, Step(u, ok, from, to)
  PROVE  client'[u] = (IF ok THEN to ELSE NoOne) /\ client[u].pc = from
         /\ \A v \in Clients \ {u} : client'[v] = client[v]
BY DEF Step, TypeInv

-----------------------------------------------------------------------------
(* A request at one chunk: what its step does to the chunk decides. *)

LEMMA BeginKeepsInv ==
  ASSUME IInv, NEW u \in Clients, NEW c \in ChunkIds, NEW pc \in {"read", "embed"},
         NEW text \in Texts, Begin(u, c, pc, text), pc = "embed" => text = row[c],
         UNCHANGED <<row, revisions, index, Background, past, contested>>
  PROVE  IInv'
<1> USE DEF IInv
<1>1. /\ client'[u] = [pc |-> pc, chunk |-> c, read |-> <<>>, text |-> text]
      /\ \A v \in Clients \ {u} : client'[v] = client[v]
  BY DEF Begin, EditInv, TypeInv
<1>2. TypeInv' BY DEF Begin, EditInv, TypeInv, Texts
<1>3. RequestFacts' BY <1>1 DEF RequestFacts, EditInv, RowIsPast
<1>4. RowIsPast' /\ HistoryKept' /\ IndexHoldsOwnText'
  BY DEF EditInv, RowIsPast, HistoryKept, IndexHoldsOwnText
<1>5. PoolInv' BY RequestsKeepPool DEF Background
<1> QED BY <1>2, <1>3, <1>4, <1>5 DEF EditInv

\* Edits, restores and reindexings, statement by statement.
LEMMA RequestKeepsInv ==
  ASSUME IInv, NEW u \in Clients,
         \/ \E c \in ChunkIds : Edit(u, c) \/ Restore(u, c) \/ Reindex(u, c)
         \/ ReadPrevious(u) \/ KeepRevision(u) \/ Update(u) \/ Upsert(u)
  PROVE  IInv'
<1> USE DEF IInv
<1>1. ASSUME NEW c \in ChunkIds, Edit(u, c) PROVE IInv'
  <2>1. <<c, writes + 1>> \in Texts BY DEF Texts, EditInv, TypeInv
  <2> QED BY <1>1, <2>1, BeginKeepsInv DEF Edit, BeginWrite
<1>2. ASSUME NEW c \in ChunkIds, Restore(u, c) PROVE IInv'
  <2>1. PICK text \in revisions[c] : BeginWrite(u, c, text) BY <1>2 DEF Restore
  <2>2. text \in Texts BY DEF EditInv, TypeInv
  <2> QED BY <2>1, <2>2, BeginKeepsInv DEF BeginWrite
<1>3. ASSUME NEW c \in ChunkIds, Reindex(u, c) PROVE IInv'
  <2>1. row[c] \in Texts BY DEF EditInv, TypeInv
  <2> QED BY <1>3, <2>1, BeginKeepsInv DEF Reindex
<1> DEFINE c == client[u].chunk
<1>t. /\ TypeInv /\ c \in ChunkIds
      /\ client[u] \in [pc : {"idle", "read", "keep", "update", "embed"},
                        chunk : ChunkIds, read : Texts, text : Texts]
      /\ NoOne \in [pc : {"idle"}, chunk : ChunkIds, read : Texts, text : Texts]
  BY ChunkFacts DEF EditInv, TypeInv, NoOne, Texts
<1>4. CASE ReadPrevious(u)
  <2> DEFINE to == [client[u] EXCEPT !.pc = "keep", !.read = row[c]]
  <2>1. PICK ok \in BOOLEAN : Step(u, ok, "read", to) BY <1>4 DEF ReadPrevious
  <2>2. /\ client'[u] = (IF ok THEN to ELSE NoOne)
        /\ \A v \in Clients \ {u} : client'[v] = client[v]
    BY <1>t, <2>1, StepTo
  <2>3. TypeInv' BY <1>t, <1>4, <2>1 DEF ReadPrevious, Step, TypeInv
  <2>4. RequestFacts'
    <3>1. to.pc = "keep" /\ to.chunk = c /\ to.read = row[c] BY <1>t
    <3>2. UNCHANGED <<row, revisions, past, contested>> /\ RequestFacts
      BY <1>4, <2>1 DEF ReadPrevious, IInv, EditInv
    <3>3. client'[u].pc \in {"keep", "idle"}
          /\ (client'[u].pc = "keep" => client'[u].chunk = c /\ client'[u].read = row[c])
      <4> HIDE DEF to
      <4> QED BY <2>2, <3>1 DEF NoOne
    <3> QED BY <2>2, <3>2, <3>3 DEF RequestFacts
  <2>5. RowIsPast' /\ HistoryKept' /\ IndexHoldsOwnText'
    BY <1>4 DEF ReadPrevious, EditInv, RowIsPast, HistoryKept, IndexHoldsOwnText
  <2>6. PoolInv' BY <1>4, RequestsKeepPool DEF ReadPrevious
  <2> QED BY <2>3, <2>4, <2>5, <2>6 DEF EditInv
<1>5. CASE KeepRevision(u)
  <2> DEFINE to == [client[u] EXCEPT !.pc = "update"]
  <2>1. PICK ok \in BOOLEAN :
          /\ Step(u, ok, "keep", to)
          /\ revisions' = IF ok THEN [revisions EXCEPT ![c] = @ \cup {client[u].read}]
                          ELSE revisions
    BY <1>5 DEF KeepRevision
  <2>2. /\ client'[u] = (IF ok THEN to ELSE NoOne) /\ client[u].pc = "keep"
        /\ \A v \in Clients \ {u} : client'[v] = client[v]
    BY <1>t, <2>1, StepTo
  <2>3. TypeInv' BY <1>t, <1>5, <2>1 DEF KeepRevision, Step, TypeInv
  <2>4. /\ \A d \in ChunkIds : revisions[d] \subseteq revisions'[d]
        /\ ok => client[u].read \in revisions'[c]
    BY <1>t, <2>1 DEF TypeInv
  <2>5. RequestFacts'
    <3>1. to.pc = "update" /\ to.chunk = c BY <1>t
    <3> QED BY <1>t, <1>5, <2>2, <2>4, <3>1 DEF KeepRevision, RequestFacts, EditInv, NoOne, TypeInv
  <2>6. RowIsPast' /\ HistoryKept' /\ IndexHoldsOwnText'
    BY <1>5, <2>4 DEF KeepRevision, EditInv, RowIsPast, HistoryKept, IndexHoldsOwnText
  <2>7. PoolInv' BY <1>5, RequestsKeepPool DEF KeepRevision
  <2> QED BY <2>3, <2>5, <2>6, <2>7 DEF EditInv
<1>6. CASE Update(u)
  <2> DEFINE text == client[u].text
  <2>1. PICK ok \in BOOLEAN :
          /\ Step(u, ok, "update", NoOne)
          /\ row' = IF ok THEN [row EXCEPT ![c] = text] ELSE row
          /\ past' = IF ok THEN [past EXCEPT ![c] = @ \cup {text}] ELSE past
          /\ contested' = IF ok /\ Editors(c) # {u}
                          THEN [contested EXCEPT ![c] = @ \cup {text}] ELSE contested
    BY <1>6 DEF Update
  <2>2. /\ client'[u] = NoOne /\ client[u].pc = "update"
        /\ \A v \in Clients \ {u} : client'[v] = client[v]
    BY <1>t, <2>1, StepTo
  <2>3. TypeInv' BY <1>t, <1>6, <2>1 DEF Update, Step, TypeInv
  <2>4. /\ \A d \in ChunkIds : past[d] \subseteq past'[d] /\ contested[d] \subseteq contested'[d]
        /\ revisions' = revisions /\ index' = index
    BY <1>t, <1>6, <2>1 DEF Update, TypeInv
  <2>5. \A d \in ChunkIds : \/ row'[d] = row[d] /\ past'[d] = past[d]
                            \/ /\ d = c /\ row'[c] = text /\ past'[c] = past[c] \cup {text}
                               /\ Editors(c) # {u} => text \in contested'[c]
    BY <1>t, <2>1 DEF TypeInv
  <2>6. row[c] \in revisions[c] \cup contested[c]
    BY <2>2 DEF EditInv, RequestFacts
  <2>7. RowIsPast' /\ HistoryKept' /\ IndexHoldsOwnText'
    BY <2>4, <2>5, <2>6 DEF EditInv, RowIsPast, HistoryKept, IndexHoldsOwnText
  <2>8. RequestFacts'
    <3> SUFFICES ASSUME NEW v \in Clients
                 PROVE  LET d == client'[v].chunk IN
                        /\ client'[v].pc = "keep" =>
                             row'[d] \in {client'[v].read} \cup contested'[d]
                        /\ client'[v].pc = "update" =>
                             row'[d] \in revisions'[d] \cup contested'[d]
                        /\ client'[v].pc = "embed" => client'[v].text \in past'[d]
      BY DEF RequestFacts
    <3>1. CASE v = u BY <2>2, <3>1 DEF NoOne
    <3>2. CASE v # u /\ client[v].chunk = c /\ client[v].pc \in {"keep", "update"}
      <4>1. Editors(c) # {u} BY <3>2 DEF Editors
      <4>2. row'[c] = row[c] \/ row'[c] \in contested'[c] BY <1>t, <2>5, <4>1
      <4> QED BY <1>t, <2>2, <2>4, <3>2, <4>2 DEF EditInv, RequestFacts
    <3>3. CASE v # u /\ ~(client[v].chunk = c /\ client[v].pc \in {"keep", "update"})
      <4>1. client[v].chunk \in ChunkIds BY <1>t DEF TypeInv
      <4> QED BY <2>2, <2>4, <2>5, <3>3, <4>1 DEF EditInv, RequestFacts
    <3> QED BY <3>1, <3>2, <3>3
  <2>9. PoolInv' BY <1>6, <2>4, RequestsKeepPool DEF Update
  <2> QED BY <2>3, <2>7, <2>8, <2>9 DEF EditInv
<1>7. CASE Upsert(u)
  <2>1. PICK ok \in BOOLEAN :
          /\ Step(u, ok, "embed", NoOne)
          /\ index' = IF ok THEN [index EXCEPT ![c] = {Doc(client[u].text, FALSE)}] ELSE index
    BY <1>7 DEF Upsert
  <2>2. /\ client'[u] = NoOne /\ client[u].pc = "embed"
        /\ \A v \in Clients \ {u} : client'[v] = client[v]
    BY <1>t, <2>1, StepTo
  <2>3. Doc(client[u].text, FALSE) \in Docs /\ Doc(client[u].text, FALSE).text = client[u].text
    BY <1>t DEF Doc, Docs
  <2>4. TypeInv' BY <1>t, <1>7, <2>1, <2>3 DEF Upsert, Step, TypeInv
  <2>5. RequestFacts' BY <1>7, <2>2 DEF Upsert, RequestFacts, EditInv, NoOne
  <2>6. RowIsPast' /\ HistoryKept' BY <1>7 DEF Upsert, EditInv, RowIsPast, HistoryKept
  <2>7. IndexHoldsOwnText'
    <3>1. client[u].text \in past[c] BY <2>2 DEF EditInv, RequestFacts
    <3>2. \A d \in ChunkIds : \/ index'[d] = index[d]
                              \/ d = c /\ index'[d] = {Doc(client[u].text, FALSE)}
      BY <1>t, <2>1 DEF TypeInv
    <3> QED BY <1>7, <2>3, <3>1, <3>2 DEF Upsert, IndexHoldsOwnText
  <2>8. PoolInv' BY <1>7, RequestsKeepPool DEF Upsert
  <2> QED BY <2>4, <2>5, <2>6, <2>7, <2>8 DEF EditInv
<1> QED BY <1>1, <1>2, <1>3, <1>4, <1>5, <1>6, <1>7

-----------------------------------------------------------------------------
(* The pool: its steps leave texts and requests alone. *)

LEMMA ElsewhereKeepsRest ==
  ASSUME IInv, UNCHANGED Foreground, UNCHANGED index, PoolInv'
  PROVE  IInv'
BY ElsewhereKeepsEdits DEF IInv, EditInv, TypeInv, Foreground, IndexHoldsOwnText

LEMMA TakeKeepsInv == ASSUME IInv, NEW w \in Workers, Take(w) PROVE IInv'
<1> USE DEF IInv, PoolInv, Take
<1>1. /\ Head(queue) \in Indexes /\ Tail(queue) \in Seq(Indexes)
      /\ \A i : Queued(i) => i = Head(queue) \/ Queued(i)'
  <2>1. queue \in Seq(Indexes) /\ queue # <<>> BY DEF PoolType
  <2>2. Len(queue) \in Nat /\ Len(Tail(queue)) = Len(queue) - 1 /\ Head(queue) = queue[1]
        /\ \A j \in 1 .. Len(queue) - 1 : Tail(queue)[j] = queue[j + 1]
    BY <2>1
  <2>3. ASSUME NEW i, NEW j \in 1 .. Len(queue), queue[j] = i PROVE i = Head(queue) \/ Queued(i)'
    <3>1. CASE j = 1 BY <2>2, <2>3, <3>1
    <3>2. CASE j # 1
      <4>1. j - 1 \in 1 .. Len(queue) - 1 /\ (j - 1) + 1 = j BY <2>2, <3>2
      <4>2. Tail(queue)[j - 1] = i BY <2>2, <2>3, <4>1
      <4> QED BY <2>2, <4>1, <4>2 DEF Queued
    <3> QED BY <3>1, <3>2
  <2> QED BY <2>1, <2>3 DEF Queued
<1>2. PoolType' BY <1>1 DEF PoolType
<1>3. DocsArePast' BY ChunkFacts DEF DocsArePast, Foreground
<1>4. worker'[w] = Head(queue) /\ \A v \in Workers \ {w} : worker'[v] = worker[v]
  BY DEF PoolType
<1>5. NoIndexLost'
  <2>1. \A v \in Workers : worker'[v] # 0 => run'.pc = "pool" BY DEF NoIndexLost
  <2>2. ASSUME NEW i \in Indexes
        PROVE  enriched[i].text = run.docs[i] \/ Queued(i)' \/ \E v \in Workers : worker'[v] = i
    <3>1. CASE Queued(i) BY <1>1, <1>4, <3>1
    <3>2. ASSUME NEW v \in Workers, worker[v] = i PROVE worker'[v] = i
      BY <1>4, <3>2, ChunkFacts
    <3> QED BY <3>1, <3>2 DEF NoIndexLost
  <2> QED BY <2>1, <2>2 DEF NoIndexLost
<1> QED BY <1>2, <1>3, <1>5, ElsewhereKeepsRest

LEMMA GenerateKeepsInv == ASSUME IInv, NEW w \in Workers, Generate(w) PROVE IInv'
<1> USE DEF IInv, PoolInv, Generate
<1>1. PICK ok \in BOOLEAN :
        enriched' = [enriched EXCEPT ![worker[w]] = Doc(run.docs[worker[w]], ok)]
  OBVIOUS
<1>2. /\ run.pc = "pool" /\ worker[w] \in Indexes /\ run.docs \in [Indexes -> Texts]
      /\ enriched \in [Indexes -> Docs]
  BY DEF NoIndexLost, PoolType
<1>3. /\ Doc(run.docs[worker[w]], ok) \in Docs
      /\ Doc(run.docs[worker[w]], ok).text = run.docs[worker[w]]
  BY <1>2 DEF Doc, Docs
<1>4. PoolType' BY <1>1, <1>2, <1>3 DEF PoolType
<1>5. DocsArePast' BY ChunkFacts DEF DocsArePast, Foreground
<1>6. NoIndexLost'
  <2>1. \A v \in Workers \ {w} : worker'[v] = worker[v] BY DEF PoolType
  <2>2. worker'[w] = 0 BY DEF PoolType
  <2>3. ASSUME NEW i \in Indexes
        PROVE  enriched'[i].text = run.docs[i] \/ Queued(i) \/ \E v \in Workers : worker'[v] = i
    <3>1. CASE i = worker[w] BY <1>1, <1>2, <1>3, <3>1
    <3>2. CASE i # worker[w]
      <4>1. enriched'[i] = enriched[i] BY <1>1, <1>2, <3>2
      <4> QED BY <1>2, <2>1, <3>2, <4>1 DEF NoIndexLost
    <3> QED BY <3>1, <3>2
  <2>4. \A v \in Workers : worker'[v] # 0 => run'.pc = "pool" BY <1>2
  <2> QED BY <1>2, <2>3, <2>4 DEF NoIndexLost, Queued
<1> QED BY <1>4, <1>5, <1>6, ElsewhereKeepsRest

LEMMA EnrichKeepsInv == ASSUME IInv, Enrich PROVE IInv'
<1> USE DEF IInv, PoolInv, Enrich, Foreground
<1>i. \A w \in Workers : worker[w] = 0 BY DEF NoIndexLost
<1>1. CASE /\ run' = [pc |-> "pool", docs |-> [i \in Indexes |-> row[Chunks[i]]]]
           /\ queue' = [i \in Indexes |-> i]
           /\ enriched' = [i \in Indexes |-> Doc(<<>>, FALSE)]
  <2>1. \A i \in Indexes : row[Chunks[i]] \in Texts /\ row[Chunks[i]] \in past[Chunks[i]]
    BY ChunkFacts DEF EditInv, TypeInv, RowIsPast
  <2>2. queue' \in Seq(Indexes) /\ Len(queue') = Len(Chunks) BY <1>1, ChunkFacts
  <2>3. Doc(<<>>, FALSE) \in Docs BY DEF Doc, Docs, Texts
  <2>4. PoolType' BY <1>1, <2>1, <2>2, <2>3 DEF PoolType
  <2>5. DocsArePast' BY <1>1, <2>1 DEF DocsArePast
  <2>6. NoIndexLost' BY <1>i, <1>1, <2>2, ChunkFacts DEF NoIndexLost, Queued
  <2> QED BY <2>4, <2>5, <2>6, ElsewhereKeepsRest
<1>2. CASE run' = Off /\ UNCHANGED <<queue, enriched>>
  <2>1. PoolType' BY <1>2 DEF PoolType, Off
  <2>2. DocsArePast' /\ NoIndexLost' BY <1>2, <1>i DEF DocsArePast, NoIndexLost, Off
  <2> QED BY <2>1, <2>2, ElsewhereKeepsRest
<1> QED BY <1>1, <1>2 DEF Indexes

LEMMA EmbedKeepsInv == ASSUME IInv, Embed PROVE IInv'
<1> USE DEF IInv, PoolInv, Embed, Foreground
<1>1. CASE run' = Off /\ queue' = queue
  <2>1. PoolType' BY <1>1 DEF PoolType, Off
  <2>2. DocsArePast' /\ NoIndexLost' BY <1>1 DEF DocsArePast, NoIndexLost, Off
  <2> QED BY <2>1, <2>2, ElsewhereKeepsRest
<1>2. CASE run' = [run EXCEPT !.pc = "store"] /\ queue' = [i \in Indexes |-> i]
  <2>1. run'.pc = "store" /\ run'.docs = run.docs BY <1>2 DEF PoolType
  <2>2. queue' \in Seq(Indexes) BY <1>2, ChunkFacts
  <2>3. PoolType' BY <1>2, <2>1, <2>2 DEF PoolType
  <2>4. DocsArePast' BY <2>1 DEF DocsArePast
  <2>5. \A i \in Indexes : enriched[i].text = run.docs[i]
    BY ChunkFacts DEF NoIndexLost, Queued
  <2>6. NoIndexLost' BY <2>1, <2>5 DEF NoIndexLost
  <2> QED BY <2>3, <2>4, <2>6, ElsewhereKeepsRest
<1> QED BY <1>1, <1>2 DEF Indexes

LEMMA StoreKeepsInv == ASSUME IInv, Store PROVE IInv'
<1> USE DEF IInv, PoolInv, Store, Foreground
<1>i. \A w \in Workers : worker[w] = 0 BY DEF NoIndexLost
<1>1. CASE run' = Off /\ queue' = <<>> /\ UNCHANGED index
  <2>1. PoolType' BY <1>1 DEF PoolType, Off
  <2>2. DocsArePast' /\ NoIndexLost' BY <1>1, <1>i DEF DocsArePast, NoIndexLost, Off
  <2> QED BY <1>1, <2>1, <2>2, ElsewhereKeepsRest
<1>2. CASE /\ index' = [index EXCEPT ![Chunks[Head(queue)]] = {enriched[Head(queue)]}]
           /\ queue' = Tail(queue) /\ UNCHANGED run
  <2> DEFINE i == Head(queue)  c == Chunks[i]
  <2>1. i \in Indexes /\ Tail(queue) \in Seq(Indexes) BY DEF PoolType
  <2>2. /\ c \in ChunkIds /\ enriched[i] \in Docs /\ enriched[i].text \in past[c]
    BY <2>1, ChunkFacts DEF PoolType, NoIndexLost, DocsArePast
  <2>3. index' \in [ChunkIds -> SUBSET Docs] BY <1>2, <2>2 DEF EditInv, TypeInv
  <2>4. EditInv' BY <2>3, ElsewhereKeepsEdits
  <2>5. PoolType' BY <1>2, <2>1 DEF PoolType
  <2>6. DocsArePast' /\ NoIndexLost' BY <1>2, <1>i DEF DocsArePast, NoIndexLost
  <2>7. IndexHoldsOwnText'
    <3>1. \A d \in ChunkIds : index'[d] = index[d] \/ (d = c /\ index'[d] = {enriched[i]})
      BY <1>2, <2>2 DEF EditInv, TypeInv
    <3> QED BY <2>2, <3>1 DEF IndexHoldsOwnText
  <2> QED BY <2>4, <2>5, <2>6, <2>7
<1> QED BY <1>1, <1>2

-----------------------------------------------------------------------------
LEMMA StepIInv == IInv /\ [UpkeepNext]_upkeepVars => IInv'
<1> SUFFICES ASSUME IInv, [UpkeepNext]_upkeepVars PROVE IInv' OBVIOUS
<1>1. ASSUME NEW u \in Clients,
             \/ \E c \in ChunkIds : Edit(u, c) \/ Restore(u, c) \/ Reindex(u, c)
             \/ ReadPrevious(u) \/ KeepRevision(u) \/ Update(u) \/ Upsert(u)
      PROVE  IInv'
  BY <1>1, RequestKeepsInv
<1>2. ASSUME NEW w \in Workers, Take(w) PROVE IInv' BY <1>2, TakeKeepsInv
<1>3. ASSUME NEW w \in Workers, Generate(w) PROVE IInv' BY <1>3, GenerateKeepsInv
<1>4. CASE DeleteDocument
  <2> USE <1>4 DEF IInv, DeleteDocument
  <2>1. /\ index' \in [ChunkIds -> SUBSET Docs]
        /\ \A c \in ChunkIds : index'[c] \subseteq index[c]
    BY DEF EditInv, TypeInv
  <2>2. EditInv' BY <2>1, ElsewhereKeepsEdits
  <2>3. PoolInv' BY RequestsKeepPool
  <2>4. IndexHoldsOwnText' BY <2>1 DEF IndexHoldsOwnText
  <2> QED BY <2>2, <2>3, <2>4
<1>5. CASE Schedule
  <2> USE <1>5 DEF IInv, PoolInv, Schedule, Foreground
  <2>1. run'.pc = "read" /\ run'.docs = run.docs BY DEF PoolType
  <2>2. PoolType' BY <2>1 DEF PoolType
  <2>3. DocsArePast' /\ NoIndexLost' BY <2>1 DEF DocsArePast, NoIndexLost
  <2> QED BY <2>2, <2>3, ElsewhereKeepsRest
<1>6. CASE Enrich BY <1>6, EnrichKeepsInv
<1>7. CASE Embed BY <1>7, EmbedKeepsInv
<1>8. CASE Store BY <1>8, StoreKeepsInv
<1>9. CASE Complete
  <2> USE <1>9 DEF IInv, PoolInv, Complete, Foreground
  <2>1. PoolType' BY DEF PoolType, Off
  <2>2. DocsArePast' /\ NoIndexLost' BY DEF DocsArePast, NoIndexLost, Off
  <2> QED BY <2>1, <2>2, ElsewhereKeepsRest
<1>10. CASE UNCHANGED upkeepVars
  <2> USE <1>10 DEF IInv, upkeepVars
  <2>1. EditInv' BY ElsewhereKeepsEdits DEF EditInv, TypeInv
  <2>2. PoolInv' BY RequestsKeepPool DEF Background
  <2>3. IndexHoldsOwnText' BY DEF IndexHoldsOwnText
  <2> QED BY <2>1, <2>2, <2>3
<1> QED BY <1>1, <1>2, <1>3, <1>4, <1>5, <1>6, <1>7, <1>8, <1>9, <1>10 DEF UpkeepNext, Over

THEOREM Invariance == UpkeepSpec => []IInv
BY InitIInv, StepIInv, PTL DEF UpkeepSpec

(* However edits, restores, reindexings, the enrichment and the deletion of a document of *)
(* any size interleave, and whatever fails, the history of each chunk is kept.            *)
THEOREM EditsKeepHistory == UpkeepSpec => []HistoryKept
<1>1. IInv => HistoryKept BY DEF IInv, EditInv
<1> QED BY <1>1, Invariance, PTL

(* However many workers enrich a document of any size in whatever order, and wherever the *)
(* upsert stops: no chunk is found under the text of another.                             *)
THEOREM EnrichmentStaysInPlace == UpkeepSpec => []IndexHoldsOwnText
<1>1. IInv => IndexHoldsOwnText BY DEF IInv
<1> QED BY <1>1, Invariance, PTL

-----------------------------------------------------------------------------
(* Settings.  Each field has an owner: whoever wrote it last, until that request is         *)
(* answered.  SavedInv relates the configuration, its file and the saves under way by who   *)
(* owns a field; BuiltInv, as long as requests have not overlapped, the models, by how far  *)
(* the request is; ServedInv, as long as reloads have not, the connections to MCP servers.  *)
Kinds == DOMAIN Steps

\* The fields of a request.
FormFields == {"pc", "kind", "set", "todo", "changed", "data", "alone", "reach", "got"}
HasFields(c) == c = [n \in FormFields |-> c[n]]

\* What is known of a request, whatever it meets: what it changes it was asked to, and what
\* is left to do of a model's fields is before the model is built.
IsForm(c) ==
  /\ HasFields(c)
  /\ c.data = [f \in Fields |-> c.data[f]] /\ c.alone \in BOOLEAN
  /\ c.pc \in {"idle", "apply", "embed", "swap", "truncate", "write", "close", "connect", "tools"}
  /\ c.pc # "idle" =>
       /\ c.kind \in Kinds /\ c.todo \subseteq Steps[c.kind] \cap (DOMAIN c.set \cup {"chat", "embedder"})
       /\ c.changed \subseteq Steps[c.kind] \cap DOMAIN c.set \cap Fields
  /\ c.pc \in {"close", "connect", "tools"} => c.kind = "import"
  /\ c.pc \in {"truncate", "write", "close", "connect", "tools"} => c.todo = {}
  /\ c.pc \notin {"connect", "tools"} => c.got = {}
  /\ c.pc = "swap" => "chat" \in c.todo /\ c.todo \cap Core = {}
  /\ c.todo \cap Core # {} => "chat" \in c.todo
  /\ c.todo \cap EmbCore # {} => "embedder" \in c.todo

SettingsTypeOK ==
  /\ cfg = [f \in Fields |-> cfg[f]] /\ kept = [f \in Fields |-> kept[f]]
  /\ file # Torn => file = [f \in Fields |-> file[f]]
  /\ owner = [f \in Fields |-> owner[f]]
  /\ \A f \in Fields : owner[f] \in Admins \cup Outcomes
  /\ admin = [u \in Admins |-> admin[u]] /\ \A u \in Admins : IsForm(admin[u])

\* Who owns a field has changed it, or the key that goes with it.
Owns(u, c) ==
  \A f \in Fields : owner[f] = u =>
    /\ c.pc # "idle"
    /\ f \in c.changed \/ (f \in {"embUrl", "embKey"} /\ c.kind = "update" /\ "llmKey" \in c.changed)

OwnsInv == \A u \in Admins : Owns(u, admin[u])

\* What is in the file, if no save is under way: what is kept, and what an import has saved
\* that is not answered yet.  A zero temperature is not: a restart replaces it.
Saved(c) == c.pc \in {"close", "connect", "tools"}
Stored(f) == owner[f] = "kept" \/ \E u \in Admins : owner[f] = u /\ Saved(admin[u])
Replaced(f) == f = "temperature" /\ owner[f] = "kept" /\ kept[f] = Zero

\* What is acknowledged is the configuration's, what is stored is in the file.  A save has what
\* its request wrote, and, as long as it is the only one, all that is stored.
SavedInv ==
  /\ \A f \in Fields : owner[f] \in Acknowledged /\ ~Replaced(f) => cfg[f] = kept[f]
  /\ file # Torn /\ ~crossed => \A f \in Fields : Stored(f) /\ ~Replaced(f) => file[f] = cfg[f]
  /\ \A u \in Admins : Saving(u) => \A f \in Fields : owner[f] = u => admin[u].data[f] = cfg[f]
  /\ \A u \in Admins : Saving(u) /\ admin[u].alone =>
       /\ \A v \in Admins : Saving(v) => v = u
       /\ \A f \in Fields : Stored(f) => admin[u].data[f] = cfg[f]

\* A model is built from a field again once its request has passed that step; a new key of
\* the chat model that is also the embedder's is built before anything else.
BuiltFrom(u, c) ==
  /\ \A f \in Core : owner[f] = u /\ "chat" \notin c.todo => chat[f] = cfg[f]
  /\ c.pc = "swap" => \A f \in Core : c.data[f] = cfg[f]
  /\ \A f \in EmbCore : owner[f] = u /\ c.pc # "embed" /\ (f \notin c.changed \/ "embedder" \notin c.todo) =>
       embedder[f] = cfg[f]

BuiltInv ==
  ~overlapped =>
    /\ \A u, v \in Admins : admin[u].pc # "idle" /\ admin[v].pc # "idle" => u = v
    /\ ~unbuilt =>
         /\ \A f \in Core : owner[f] \in Acknowledged => chat[f] = cfg[f]
         /\ \A f \in EmbCore : owner[f] \in Acknowledged => embedder[f] = cfg[f]
         /\ \A u \in Admins : BuiltFrom(u, admin[u])

Reloading(c) == c.pc \in {"connect", "tools"}
Served(S) == {k[2] : k \in S}

\* At rest the tools are those of the connections, all the current manager's, and of streams
\* that have ended.  A reload has closed all connections before it opens the first, and the
\* tools follow the manager.
AtRest ==
  /\ conns \subseteq tools /\ \A k \in tools : k[1] = manager
  /\ \A k \in tools \ conns : k[2] \in Streaming
  /\ owner["servers"] = "kept" => Served(tools) = cfg["servers"] \ missed

ServedInv ==
  ~raced =>
    /\ \A u, v \in Admins : Reloading(admin[u]) /\ Reloading(admin[v]) => u = v
    /\ (\A u \in Admins : ~Reloading(admin[u])) => AtRest
    /\ \A u \in Admins : LET c == admin[u] IN
         /\ c.pc = "connect" => conns = {} /\ c.reach \cup c.got \subseteq cfg["servers"]
         /\ c.pc = "tools" =>
              /\ c.reach = conns /\ \A k \in conns : k[1] = manager
              /\ owner["servers"] \in {u, "kept"} => Served(conns) = cfg["servers"] \ missed

SettingsInv == SettingsTypeOK /\ OwnsInv /\ SavedInv /\ BuiltInv /\ ServedInv

-----------------------------------------------------------------------------
\* A request's record after a step, field by field.
LEMMA OnwardFields ==
  ASSUME NEW c, HasFields(c), NEW s
  PROVE  LET d == Onward(c, s) IN
         /\ HasFields(d)
         /\ d.pc = c.pc /\ d.kind = c.kind /\ d.set = c.set /\ d.todo = c.todo \ {s}
         /\ d.changed = c.changed /\ d.data = c.data /\ d.alone = c.alone
         /\ d.got = c.got
BY DEF Onward, HasFields, FormFields

LEMMA ChangedFields ==
  ASSUME NEW c, HasFields(c), NEW f
  PROVE  LET d == Changed(c, f) IN
         /\ HasFields(d)
         /\ d.pc = c.pc /\ d.kind = c.kind /\ d.set = c.set /\ d.todo = c.todo
         /\ d.changed = c.changed \cup {f} /\ d.data = c.data /\ d.alone = c.alone
         /\ d.got = c.got
BY DEF Changed, HasFields, FormFields

Moved(c, pc) == [c EXCEPT !.pc = pc]

LEMMA MovedFields ==
  ASSUME NEW c, HasFields(c), NEW pc
  PROVE  LET d == Moved(c, pc) IN
         /\ HasFields(d)
         /\ d.pc = pc /\ d.kind = c.kind /\ d.set = c.set /\ d.todo = c.todo
         /\ d.changed = c.changed /\ d.data = c.data /\ d.alone = c.alone
         /\ d.reach = c.reach /\ d.got = c.got
BY DEF Moved, HasFields, FormFields

\* The order of the steps: what is built is built after its fields are written.
LEMMA BuiltLast ==
  ASSUME NEW u \in Admins, NEW s, NextIs(u, s)
  PROVE  /\ s = "chat" => admin[u].todo \cap Core = {}
         /\ s = "embedder" => admin[u].todo \cap EmbCore = {}
BY DEF NextIs, Place, Core, EmbCore

LEMMA OnwardForm ==
  ASSUME SettingsTypeOK, NEW u \in Admins, NEW s, NextIs(u, s)
  PROVE  IsForm(Onward(admin[u], s))
<1> DEFINE c == admin[u]
<1>1. IsForm(c) /\ c.pc = "apply" /\ s \in c.todo
  BY DEF SettingsTypeOK, NextIs
<1>2. LET d == Onward(c, s) IN
         /\ HasFields(d)
         /\ d.pc = c.pc /\ d.kind = c.kind /\ d.set = c.set /\ d.todo = c.todo \ {s}
         /\ d.changed = c.changed /\ d.data = c.data /\ d.alone = c.alone
         /\ d.got = c.got
  BY <1>1, OnwardFields DEF IsForm
<1>3. /\ s = "chat" => c.todo \cap Core = {}
      /\ s = "embedder" => c.todo \cap EmbCore = {}
  BY BuiltLast
<1> HIDE DEF c
<1>4. QED
  BY <1>1, <1>2, <1>3 DEF IsForm, c

\* A request's new record takes the place of the old one.
LEMMA PutDoes ==
  ASSUME SettingsTypeOK, NEW u \in Admins, NEW c, PutForm(u, c)
  PROVE  /\ admin' = [v \in Admins |-> admin'[v]]
         /\ admin'[u] = c
         /\ \A v \in Admins \ {u} : admin'[v] = admin[v]
         /\ IsForm(c) => \A v \in Admins : IsForm(admin'[v])
BY DEF SettingsTypeOK, PutForm

LEMMA ReplyDoes ==
  ASSUME SettingsTypeOK, NEW u \in Admins, NEW result \in Outcomes, Reply(u, result)
  PROVE  /\ admin' = [v \in Admins |-> admin'[v]]
         /\ admin'[u] = NoForm
         /\ \A v \in Admins \ {u} : admin'[v] = admin[v]
         /\ \A v \in Admins : IsForm(admin'[v])
         /\ owner' = [f \in Fields |-> owner'[f]] /\ kept' = [f \in Fields |-> kept'[f]]
         /\ \A f \in Fields : owner'[f] = IF owner[f] = u THEN result ELSE owner[f]
         /\ \A f \in Fields : owner'[f] \in Admins \cup Outcomes
         /\ \A f \in Fields : kept'[f] = IF owner[f] = u /\ result # "lost" THEN cfg[f] ELSE kept[f]
<1>1. IsForm(NoForm)
  BY SettingsAssumption DEF SettingsAssumption, Outcomes, Acknowledged, IsForm, HasFields, FormFields, NoForm, Core, EmbCore
<1>2. QED
  BY <1>1, PutDoes DEF SettingsTypeOK, Reply

LEMMA ServedConnect ==
  ASSUME NEW id, NEW S
  PROVE  /\ Served(Connect(id, S)) = S
         /\ \A k \in Connect(id, S) : k[1] = id
<1>1. \A s \in S : <<id, s>> \in Connect(id, S) /\ <<id, s>>[1] = id /\ <<id, s>>[2] = s
  BY DEF Connect
<1>2. \A k \in Connect(id, S) : \E s \in S : k = <<id, s>>
  BY DEF Connect
<1>3. \A k \in Connect(id, S) : k[1] = id /\ k[2] \in S
  BY <1>1, <1>2
<1>4. \A s \in S : s \in Served(Connect(id, S))
  BY <1>1 DEF Served
<1>5. Served(Connect(id, S)) \subseteq S
  BY <1>3 DEF Served
<1>6. QED
  BY <1>3, <1>4, <1>5

LEMMA InitSettings == SettingsInit => SettingsInv
<1> SUFFICES ASSUME SettingsInit PROVE SettingsInv
  OBVIOUS
<1>1. IsForm(NoForm) /\ NoForm.pc = "idle" /\ NoForm.alone = TRUE
  BY SettingsAssumption DEF SettingsAssumption, Outcomes, Acknowledged, IsForm, HasFields, FormFields, NoForm, Core, EmbCore
<1>2. \A u \in Admins : admin[u] = NoForm
  BY DEF SettingsInit
<1>3. \A u \in Admins, f \in Fields : owner[f] # u /\ owner[f] = "kept"
  BY SettingsAssumption DEF SettingsInit, SettingsAssumption, Outcomes, Acknowledged
<1>4. SettingsTypeOK
  BY <1>1, <1>2, SettingsAssumption DEF SettingsAssumption, Outcomes, Acknowledged, SettingsInit, SettingsTypeOK
<1>5. SavedInv
  BY <1>1, <1>2, <1>3 DEF SettingsInit, SavedInv, Saving, Stored, Saved
<1>6. BuiltInv
  <2>1. /\ \A f \in Core : f \in Fields /\ chat[f] = cfg[f]
        /\ \A f \in EmbCore : f \in Fields /\ embedder[f] = cfg[f]
    BY DEF SettingsInit, Part, Core, EmbCore, Fields
  <2>2. QED
    BY <1>1, <1>2, <1>3, <2>1 DEF BuiltInv, BuiltFrom
<1>7. ServedInv
  <2>1. PICK got \in SUBSET cfg["servers"] :
          conns = Connect(0, got) /\ manager = 0 /\ tools = conns /\ missed = cfg["servers"] \ got
    BY DEF SettingsInit
  <2>2. Served(tools) = cfg["servers"] \ missed /\ \A k \in tools : k[1] = manager
    BY <2>1, ServedConnect
  <2>3. QED
    BY <1>1, <1>2, <2>1, <2>2 DEF ServedInv, AtRest, Reloading
<1>8. QED
  BY <1>1, <1>2, <1>3, <1>4, <1>5, <1>6, <1>7 DEF SettingsInv, OwnsInv, Owns

\* Steps that only move a request on, none of them part of a save.
LEMMA MoveKeepsSaved ==
  ASSUME SavedInv, NEW u \in Admins, UNCHANGED <<cfg, file, owner, kept, crossed>>,
         \A v \in Admins \ {u} : admin'[v] = admin[v],
         ~Saving(u), ~Saving(u)', Saved(admin[u])' <=> Saved(admin[u])
  PROVE  SavedInv'
<1>1. \A f : Stored(f)' <=> Stored(f)
  BY DEF Stored
<1>2. \A f : Replaced(f)' <=> Replaced(f)
  BY DEF Replaced
<1>3. \A v \in Admins : Saving(v)' <=> Saving(v)
  BY DEF Saving
<1>4. \A v \in Admins : Saving(v)' => admin'[v] = admin[v]
  BY <1>3
<1>5. QED
  BY <1>1, <1>2, <1>3, <1>4 DEF SavedInv

\* An answer: what was not saved is nobody's, what was is kept.
LEMMA ReplyKeepsSaved ==
  ASSUME SettingsTypeOK, SavedInv, NEW u \in Admins, NEW result \in Outcomes,
         Reply(u, result), UNCHANGED <<cfg, file, crossed>>,
         result = "kept" => Saved(admin[u]) \/ \A f \in Fields : owner[f] # u
  PROVE  SavedInv'
<1>1. /\ \A v \in Admins \ {u} : admin'[v] = admin[v]
      /\ admin'[u] = NoForm
      /\ \A f \in Fields : owner'[f] = IF owner[f] = u THEN result ELSE owner[f]
      /\ \A f \in Fields : kept'[f] = IF owner[f] = u /\ result # "lost" THEN cfg[f] ELSE kept[f]
  BY ReplyDoes
<1>2. ~Saving(u)' /\ ~Saved(admin[u])'
  BY <1>1 DEF Saving, Saved, NoForm
<1>3. \A f \in Fields : Stored(f)' => Stored(f)
  BY <1>1, <1>2, SettingsAssumption DEF Stored, SettingsAssumption, Outcomes, Acknowledged
<1>4. \A f \in Fields : owner[f] \in Acknowledged => owner'[f] = owner[f] /\ kept'[f] = kept[f]
  BY <1>1, SettingsAssumption DEF SettingsAssumption, Outcomes, Acknowledged
<1>5. \A f \in Fields : owner[f] \notin Acknowledged /\ owner'[f] \in Acknowledged =>
        owner[f] = u /\ kept'[f] = cfg[f]
  BY <1>1 DEF Acknowledged
<1>6. \A f \in Fields : Replaced(f) => Replaced(f)'
  BY <1>4 DEF Replaced, Acknowledged
<1>7. \A v \in Admins : Saving(v)' => v # u /\ Saving(v) /\ admin'[v] = admin[v]
  BY <1>1, <1>2 DEF Saving
<1>8. \A f \in Fields, v \in Admins \ {u} : owner'[f] = v => owner[f] = v
  BY <1>1, SettingsAssumption DEF SettingsAssumption, Outcomes, Acknowledged
<1>9. (\A f \in Fields : owner[f] \in Acknowledged /\ ~Replaced(f) => cfg[f] = kept[f])'
  BY <1>4, <1>5, <1>6 DEF SavedInv
<1>10. (file # Torn /\ ~crossed => \A f \in Fields : Stored(f) /\ ~Replaced(f) => file[f] = cfg[f])'
  BY <1>3, <1>6 DEF SavedInv
<1>11. (\A v \in Admins : Saving(v) => \A f \in Fields : owner[f] = v => admin[v].data[f] = cfg[f])'
  BY <1>7, <1>8 DEF SavedInv
<1>12. (\A w \in Admins : Saving(w) /\ admin[w].alone =>
          /\ \A v \in Admins : Saving(v) => v = w
          /\ \A f \in Fields : Stored(f) => admin[w].data[f] = cfg[f])'
  BY <1>3, <1>7 DEF SavedInv
<1>13. QED
  BY <1>9, <1>10, <1>11, <1>12 DEF SavedInv

\* A field that is written is no longer kept, nor what anybody has saved.
LEMMA AssignDoes ==
  ASSUME SettingsTypeOK, NEW u \in Admins, NEW f \in Fields, NEW value, NextIs(u, f), Assign(u, f, value)
  PROVE  /\ cfg' = [g \in Fields |-> cfg'[g]] /\ owner' = [g \in Fields |-> owner'[g]]
         /\ \E written \in SUBSET Fields :
              /\ f \in written
              /\ written \subseteq {f} \cup (IF f = "llmKey" /\ admin[u].kind = "update" THEN {"embUrl", "embKey"} ELSE {})
              /\ \A g \in Fields : owner'[g] = IF g \in written THEN u ELSE owner[g]
              /\ \A g \in Fields \ written : cfg'[g] = cfg[g]
         /\ cfg["servers"] \subseteq cfg'["servers"]
         /\ admin' = [v \in Admins |-> admin'[v]]
         /\ \A v \in Admins \ {u} : admin'[v] = admin[v]
         /\ HasFields(admin'[u])
         /\ admin'[u].pc = IF admin[u].kind = "update" /\ f = "llmKey" THEN "embed" ELSE "apply"
         /\ admin'[u].kind = admin[u].kind /\ admin'[u].set = admin[u].set
         /\ admin'[u].todo = admin[u].todo \ {f} /\ admin'[u].changed = admin[u].changed \cup {f}
         /\ admin'[u].data = admin[u].data /\ admin'[u].alone = admin[u].alone
         /\ admin'[u].got = admin[u].got
<1> DEFINE c == admin[u]
           written == {f} \cup (IF Shared(c, f) THEN {"embUrl", "embKey"} ELSE {})
           d == Onward(Changed(c, f), f)
           e == Moved(d, "embed")
<1>1. IsForm(c) /\ c.pc = "apply"
  BY DEF SettingsTypeOK, NextIs
<1>2. /\ HasFields(d)
      /\ d.pc = "apply" /\ d.kind = c.kind /\ d.set = c.set /\ d.todo = c.todo \ {f}
      /\ d.changed = c.changed \cup {f} /\ d.data = c.data /\ d.alone = c.alone
      /\ d.got = c.got
  BY <1>1, OnwardFields, ChangedFields DEF IsForm
<1>3. /\ HasFields(e)
      /\ e.pc = "embed" /\ e.kind = c.kind /\ e.set = c.set /\ e.todo = c.todo \ {f}
      /\ e.changed = c.changed \cup {f} /\ e.data = c.data /\ e.alone = c.alone
      /\ e.got = c.got
  BY <1>2, MovedFields
<1>4. /\ cfg' = [g \in Fields |-> IF g \notin written THEN cfg[g]
                                 ELSE IF g = "servers" THEN cfg[g] \cup value
                                 ELSE IF g = "embUrl" /\ g # f THEN cfg.llmUrl ELSE value]
      /\ owner' = [g \in Fields |-> IF g \in written THEN u ELSE owner[g]]
      /\ PutForm(u, IF c.kind = "update" /\ f = "llmKey" THEN e ELSE d)
  <2>1. Assigned(u, f, value) /\ PutForm(u, IF d.kind = "update" /\ f = "llmKey" THEN e ELSE d)
    BY DEF Assign, Moved
  <2> HIDE DEF d, e
  <2>2. QED
    BY <1>2, <2>1 DEF Assigned
<1>5. "embUrl" \in Fields /\ "embKey" \in Fields /\ "servers" \in Fields
  BY DEF Fields
<1> HIDE DEF d, e
<1>6. /\ admin' = [v \in Admins |-> admin'[v]]
      /\ admin'[u] = IF c.kind = "update" /\ f = "llmKey" THEN e ELSE d
      /\ \A v \in Admins \ {u} : admin'[v] = admin[v]
  BY <1>4, PutDoes
<1>7. /\ written \in SUBSET Fields /\ f \in written
      /\ written \subseteq {f} \cup (IF f = "llmKey" /\ c.kind = "update" THEN {"embUrl", "embKey"} ELSE {})
  BY <1>5 DEF Shared
<1> HIDE DEF written
<1>9. /\ \A g \in Fields : owner'[g] = IF g \in written THEN u ELSE owner[g]
      /\ \A g \in Fields \ written : cfg'[g] = cfg[g]
  BY <1>4, <1>7
<1>10. cfg["servers"] \subseteq cfg'["servers"]
  BY <1>4, <1>5
<1>11. cfg' = [g \in Fields |-> cfg'[g]] /\ owner' = [g \in Fields |-> owner'[g]]
  BY <1>4
<1>12. QED
  BY <1>2, <1>3, <1>6, <1>7, <1>9, <1>10, <1>11

LEMMA AssignKeepsSaved ==
  ASSUME SettingsTypeOK, SavedInv, NEW u \in Admins, NEW f \in Fields, NEW value, NextIs(u, f),
         Assign(u, f, value), UNCHANGED <<file, kept, crossed>>
  PROVE  SavedInv'
<1>1. PICK written \in SUBSET Fields :
              /\ f \in written
              /\ \A g \in Fields : owner'[g] = IF g \in written THEN u ELSE owner[g]
              /\ \A g \in Fields \ written : cfg'[g] = cfg[g]
  BY AssignDoes
<1>2. /\ \A v \in Admins \ {u} : admin'[v] = admin[v]
      /\ admin[u].pc = "apply" /\ admin'[u].pc \in {"apply", "embed"}
  BY AssignDoes DEF NextIs
<1>3. \A v \in Admins : Saving(v)' => v # u /\ Saving(v) /\ admin'[v] = admin[v]
  BY <1>2 DEF Saving
<1>4. \A g \in Fields : Stored(g)' => g \notin written /\ Stored(g)
  BY <1>1, <1>2, SettingsAssumption DEF Stored, Saved, SettingsAssumption, Outcomes, Acknowledged
<1>5. \A g \in Fields \ written : owner'[g] = owner[g] /\ cfg'[g] = cfg[g] /\ (Replaced(g) => Replaced(g)')
  BY <1>1 DEF Replaced
<1>6. \A g \in Fields : owner'[g] # u => g \notin written
  BY <1>1
<1>7. u \notin Acknowledged
  BY SettingsAssumption DEF SettingsAssumption, Outcomes, Acknowledged
<1>8. (\A g \in Fields : owner[g] \in Acknowledged /\ ~Replaced(g) => cfg[g] = kept[g])'
  BY <1>5, <1>6, <1>7 DEF SavedInv
<1>9. (file # Torn /\ ~crossed => \A g \in Fields : Stored(g) /\ ~Replaced(g) => file[g] = cfg[g])'
  BY <1>4, <1>5 DEF SavedInv
<1>10. (\A v \in Admins : Saving(v) => \A g \in Fields : owner[g] = v => admin[v].data[g] = cfg[g])'
  BY <1>3, <1>5, <1>6 DEF SavedInv
<1>11. (\A w \in Admins : Saving(w) /\ admin[w].alone =>
          /\ \A v \in Admins : Saving(v) => v = w
          /\ \A g \in Fields : Stored(g) => admin[w].data[g] = cfg[g])'
  BY <1>3, <1>4, <1>5 DEF SavedInv
<1>12. QED
  BY <1>8, <1>9, <1>10, <1>11 DEF SavedInv

\* A save that begins, beside others or alone.
LEMMA MarshalDoes ==
  ASSUME SettingsTypeOK, NEW u \in Admins, Marshal(u), ~(admin[u].changed = {} /\ admin[u].kind = "update")
  PROVE  /\ admin' = [v \in Admins |-> admin'[v]]
         /\ LET c == admin[u]  d == admin'[u] IN
              /\ HasFields(d) /\ d.pc = "truncate" /\ d.kind = c.kind /\ d.set = c.set /\ d.todo = c.todo
              /\ d.changed = c.changed /\ d.data = cfg /\ d.got = c.got
              /\ d.alone \in BOOLEAN /\ (d.alone => \A v \in Admins : v = u \/ ~Saving(v))
         /\ \A v \in Admins \ {u} :
              LET c == admin[v]  d == admin'[v] IN
              /\ HasFields(d) /\ d.pc = c.pc /\ d.kind = c.kind /\ d.set = c.set /\ d.todo = c.todo
              /\ d.changed = c.changed /\ d.data = c.data /\ d.reach = c.reach /\ d.got = c.got
              /\ d.alone \in BOOLEAN /\ (d.alone => c.alone /\ ~Saving(v))
<1>1. admin' = [v \in Admins |->
                  IF v = u THEN [admin[u] EXCEPT !.pc = "truncate", !.data = cfg,
                                   !.alone = \A w \in Admins : w = u \/ ~Saving(w)]
                  ELSE [admin[v] EXCEPT !.alone = @ /\ ~Saving(v)]]
  BY DEF Marshal
<1>2. \A v \in Admins : HasFields(admin[v]) /\ admin[v].alone \in BOOLEAN
  BY DEF SettingsTypeOK, IsForm
<1>3. admin'[u] = [admin[u] EXCEPT !.pc = "truncate", !.data = cfg,
                                   !.alone = \A w \in Admins : w = u \/ ~Saving(w)]
  BY <1>1
<1>4. \A v \in Admins \ {u} : admin'[v] = [admin[v] EXCEPT !.alone = @ /\ ~Saving(v)]
  BY <1>1
<1>5. ASSUME NEW c, HasFields(c), NEW alone
      PROVE  LET d == [c EXCEPT !.alone = alone] IN
             /\ HasFields(d) /\ d.pc = c.pc /\ d.kind = c.kind /\ d.set = c.set /\ d.todo = c.todo
             /\ d.changed = c.changed /\ d.data = c.data /\ d.reach = c.reach /\ d.got = c.got
             /\ d.alone = alone
  BY <1>5 DEF HasFields, FormFields
<1>7. admin' = [v \in Admins |-> admin'[v]]
  BY <1>1
<1>8. LET c == admin[u]  d == admin'[u] IN
              /\ HasFields(d) /\ d.pc = "truncate" /\ d.kind = c.kind /\ d.set = c.set /\ d.todo = c.todo
              /\ d.changed = c.changed /\ d.data = cfg /\ d.got = c.got
              /\ d.alone \in BOOLEAN /\ (d.alone => \A v \in Admins : v = u \/ ~Saving(v))
  <2>1. HasFields(admin[u])
    BY <1>2
  <2>2. QED
    <3> DEFINE alone == \A w \in Admins : w = u \/ ~Saving(w)
               d == [admin[u] EXCEPT !.pc = "truncate", !.data = cfg, !.alone = alone]
    <3> HIDE DEF alone
    <3>1. /\ HasFields(d) /\ d.pc = "truncate" /\ d.kind = admin[u].kind /\ d.set = admin[u].set
          /\ d.todo = admin[u].todo /\ d.changed = admin[u].changed /\ d.data = cfg /\ d.alone = alone
          /\ d.got = admin[u].got
      BY <2>1 DEF HasFields, FormFields
    <3>2. admin'[u] = d /\ alone \in BOOLEAN
      BY <1>3 DEF alone
    <3> HIDE DEF d
    <3>3. QED
      BY <3>1, <3>2 DEF alone
<1>9. ASSUME NEW v \in Admins \ {u}
      PROVE  LET c == admin[v]  d == admin'[v] IN
              /\ HasFields(d) /\ d.pc = c.pc /\ d.kind = c.kind /\ d.set = c.set /\ d.todo = c.todo
              /\ d.changed = c.changed /\ d.data = c.data /\ d.reach = c.reach /\ d.got = c.got
              /\ d.alone \in BOOLEAN /\ (d.alone => c.alone /\ ~Saving(v))
  <2>1. HasFields(admin[v]) /\ admin[v].alone \in BOOLEAN
    BY <1>2
  <2>2. admin'[v] = [admin[v] EXCEPT !.alone = admin[v].alone /\ ~Saving(v)]
    BY <1>4
  <2> DEFINE alone == admin[v].alone /\ ~Saving(v)
             d == [admin[v] EXCEPT !.alone = alone]
  <2>3. /\ HasFields(d) /\ d.pc = admin[v].pc /\ d.kind = admin[v].kind /\ d.set = admin[v].set
        /\ d.todo = admin[v].todo /\ d.changed = admin[v].changed /\ d.data = admin[v].data
        /\ d.reach = admin[v].reach /\ d.got = admin[v].got /\ d.alone = alone
    BY <1>5, <2>1
  <2>4. admin'[v] = d /\ alone \in BOOLEAN
    BY <2>1, <2>2
  <2> HIDE DEF d
  <2>5. QED
    BY <2>3, <2>4
<1>10. QED
  BY <1>7, <1>8, <1>9

LEMMA MarshalKeepsSaved ==
  ASSUME SettingsTypeOK, SavedInv, NEW u \in Admins, Marshal(u),
         admin[u].changed = {} /\ admin[u].kind = "update" => \A f \in Fields : owner[f] # u
  PROVE  SavedInv'
<1>1. CASE admin[u].changed = {} /\ admin[u].kind = "update"
  BY <1>1, ReplyKeepsSaved DEF Marshal, flags, bounds, Outcomes, Acknowledged
<1>2. CASE ~(admin[u].changed = {} /\ admin[u].kind = "update")
  <2>1. UNCHANGED <<cfg, file, owner, kept, crossed>> /\ admin[u].pc = "apply"
    BY <1>2 DEF Marshal, ledger, flags
  <2>2. /\ admin'[u].pc = "truncate" /\ admin'[u].data = cfg
        /\ admin'[u].alone => \A v \in Admins : v = u \/ ~Saving(v)
        /\ \A v \in Admins \ {u} :
             /\ admin'[v].pc = admin[v].pc /\ admin'[v].data = admin[v].data
             /\ admin'[v].alone => admin[v].alone /\ ~Saving(v)
    BY <1>2, MarshalDoes
  <2>3. \A f : (Stored(f)' <=> Stored(f)) /\ (Replaced(f)' <=> Replaced(f))
    BY <2>1, <2>2 DEF Stored, Saved, Replaced
  <2>4. \A v \in Admins \ {u} : Saving(v)' <=> Saving(v)
    BY <2>2 DEF Saving
  <2>5. (\A v \in Admins : Saving(v) => \A f \in Fields : owner[f] = v => admin[v].data[f] = cfg[f])'
    BY <2>1, <2>2, <2>4 DEF SavedInv
  <2>6. (\A w \in Admins : Saving(w) /\ admin[w].alone =>
          /\ \A v \in Admins : Saving(v) => v = w
          /\ \A f \in Fields : Stored(f) => admin[w].data[f] = cfg[f])'
    BY <2>1, <2>2, <2>4 DEF SavedInv
  <2>7. QED
    BY <2>1, <2>3, <2>5, <2>6 DEF SavedInv
<1>3. QED
  BY <1>1, <1>2

LEMMA TruncateKeepsSaved ==
  ASSUME SettingsTypeOK, SavedInv, NEW u \in Admins, Truncate(u)
  PROVE  SavedInv'
<1>1. CASE Unsaved(u) /\ UNCHANGED file
  BY <1>1, ReplyKeepsSaved DEF Truncate, Unsaved, Outcomes, Acknowledged, flags
<1>2. CASE file' = Torn /\ PutForm(u, [admin[u] EXCEPT !.pc = "write"]) /\ UNCHANGED ledger
  <2>1. UNCHANGED <<cfg, owner, kept, crossed>> /\ admin[u].pc = "truncate"
    BY <1>2 DEF Truncate, ledger, flags
  <2>2. /\ admin'[u].pc = "write" /\ admin'[u].data = admin[u].data /\ admin'[u].alone = admin[u].alone
        /\ \A v \in Admins \ {u} : admin'[v] = admin[v]
    <3>1. HasFields(admin[u])
      BY DEF SettingsTypeOK, IsForm
    <3>2. PutForm(u, Moved(admin[u], "write"))
      BY <1>2 DEF Moved
    <3>3. QED
      BY <3>1, <3>2, PutDoes, MovedFields
  <2>3. \A f : Stored(f)' <=> Stored(f)
    BY <2>1, <2>2 DEF Stored, Saved
  <2>4. \A f : Replaced(f)' <=> Replaced(f)
    BY <2>1 DEF Replaced
  <2>5. \A v \in Admins : (Saving(v)' <=> Saving(v)) /\ admin'[v].data = admin[v].data
                          /\ admin'[v].alone = admin[v].alone
    BY <2>1, <2>2 DEF Saving
  <2>6. QED
    BY <1>2, <2>1, <2>3, <2>4, <2>5 DEF SavedInv
<1>3. QED
  BY <1>1, <1>2 DEF Truncate

LEMMA WriteKeepsSaved ==
  ASSUME SettingsTypeOK, SavedInv, NEW u \in Admins, Write(u)
  PROVE  SavedInv'
<1> DEFINE c == admin[u]
<1>0. c.pc = "write" /\ c.alone \in BOOLEAN /\ Saving(u) /\ ~Saved(c)
  BY DEF Write, Saving, Saved, SettingsTypeOK, IsForm
<1>1. CASE Unsaved(u) /\ UNCHANGED <<file, crossed>>
  BY <1>1, ReplyKeepsSaved DEF Write, Unsaved, Outcomes, Acknowledged
<1>2. CASE file' = c.data /\ crossed' = ~c.alone /\
           IF c.kind = "import" THEN PutForm(u, [c EXCEPT !.pc = "close"]) /\ UNCHANGED ledger
           ELSE Reply(u, "kept")
  <2>1. UNCHANGED cfg
    BY DEF Write
  <2>2. /\ \A v \in Admins \ {u} : admin'[v] = admin[v]
        /\ admin'[u].pc \in {"idle", "close"}
        /\ \A f \in Fields : /\ owner'[f] = IF c.kind # "import" /\ owner[f] = u THEN "kept" ELSE owner[f]
                             /\ kept'[f] = IF c.kind # "import" /\ owner[f] = u THEN cfg[f] ELSE kept[f]
    <3>1. CASE c.kind = "import"
      <4>1. HasFields(c)
        BY DEF SettingsTypeOK, IsForm
      <4>2. PutForm(u, Moved(c, "close")) /\ UNCHANGED ledger
        BY <1>2, <3>1 DEF Moved
      <4>3. admin'[u].pc = "close" /\ \A v \in Admins \ {u} : admin'[v] = admin[v]
        BY <4>1, <4>2, PutDoes, MovedFields
      <4>4. QED
        BY <3>1, <4>2, <4>3 DEF ledger
    <3>2. CASE c.kind # "import"
      BY <1>2, <3>2, ReplyDoes DEF NoForm, Outcomes, Acknowledged
    <3>3. QED
      BY <3>1, <3>2
  <2>3. ~Saving(u)'
    BY <2>2 DEF Saving
  <2>4. \A v \in Admins : Saving(v)' => v # u /\ Saving(v) /\ admin'[v] = admin[v]
    BY <2>2, <2>3 DEF Saving
  <2>5. \A f \in Fields : Stored(f)' => Stored(f) \/ owner[f] = u
    BY <2>2 DEF Stored
  <2>6. \A f \in Fields : owner[f] \in Acknowledged => owner'[f] = owner[f] /\ kept'[f] = kept[f]
    BY <2>2, SettingsAssumption DEF SettingsAssumption, Outcomes, Acknowledged
  <2>7. \A f \in Fields : Replaced(f) => Replaced(f)'
    BY <2>6 DEF Replaced, Acknowledged
  <2>8. \A f \in Fields, v \in Admins \ {u} : owner'[f] = v => owner[f] = v
    BY <2>2, SettingsAssumption DEF SettingsAssumption, Outcomes, Acknowledged
  <2>9. (\A f \in Fields : owner[f] \in Acknowledged /\ ~Replaced(f) => cfg[f] = kept[f])'
    BY <2>1, <2>2, <2>6, <2>7 DEF SavedInv
  <2>10. ASSUME c.alone, NEW f \in Fields, Stored(f)'
         PROVE  file'[f] = cfg[f]
    BY <1>0, <1>2, <2>5, <2>10 DEF SavedInv
  <2>11. (file # Torn /\ ~crossed => \A f \in Fields : Stored(f) /\ ~Replaced(f) => file[f] = cfg[f])'
    BY <1>0, <1>2, <2>1, <2>10
  <2>12. (\A v \in Admins : Saving(v) => \A f \in Fields : owner[f] = v => admin[v].data[f] = cfg[f])'
    BY <2>1, <2>4, <2>8 DEF SavedInv
  <2>13. (\A w \in Admins : Saving(w) /\ admin[w].alone =>
          /\ \A v \in Admins : Saving(v) => v = w
          /\ \A f \in Fields : Stored(f) => admin[w].data[f] = cfg[f])'
    BY <1>0, <2>4 DEF SavedInv
  <2>14. QED
    BY <2>9, <2>11, <2>12, <2>13 DEF SavedInv
<1>3. QED
  BY <1>1, <1>2 DEF Write

\* What the file has, but for a zero, is what is loaded from it.
LEMMA LoadsFile ==
  ASSUME SettingsTypeOK, file # Torn, NEW f \in Fields
  PROVE  f # "temperature" \/ file[f] # Zero => Load(file)[f] = file[f]
<1>1. file = [g \in Fields |-> file[g]]
  BY DEF SettingsTypeOK
<1>2. Load(file) = [file EXCEPT !.temperature = IF @ = Zero THEN Default ELSE @]
  BY DEF Load
<1>3. QED
  BY <1>1, <1>2

LEMMA LoadType == SettingsTypeOK => Load(file) = [f \in Fields |-> Load(file)[f]]
<1> SUFFICES ASSUME SettingsTypeOK PROVE Load(file) = [f \in Fields |-> Load(file)[f]]
  OBVIOUS
<1> DEFINE read == IF file = Torn THEN [f \in Fields |-> IF f = "servers" THEN {} ELSE Zero] ELSE file
<1>1. read = [f \in Fields |-> read[f]]
  BY DEF SettingsTypeOK
<1>2. Load(file) = [read EXCEPT !.temperature = IF @ = Zero THEN Default ELSE @]
  BY DEF Load
<1> HIDE DEF read
<1>3. QED
  BY <1>1, <1>2

LEMMA RestartKeepsSaved ==
  ASSUME SettingsTypeOK, SavedInv, Restart
  PROVE  SavedInv'
<1>1. /\ cfg' = Load(file) /\ UNCHANGED <<file, kept>> /\ crossed' = FALSE
      /\ \A u \in Admins : admin'[u] = NoForm
      /\ \A f \in Fields : owner'[f] = IF owner[f] = "kept" /\ file # Torn /\ ~crossed THEN "kept" ELSE "lost"
  BY DEF Restart
<1>2. \A u \in Admins : ~Saving(u)' /\ ~Saved(admin[u])'
  BY <1>1 DEF Saving, Saved, NoForm
<1>3. \A f \in Fields : Stored(f)' => owner[f] = "kept" /\ file # Torn /\ ~crossed
  BY <1>1, <1>2 DEF Stored
<1>4. \A f \in Fields : Stored(f)' /\ ~Replaced(f)' =>
        Stored(f) /\ ~Replaced(f) /\ file[f] = cfg[f] /\ cfg[f] = kept[f]
  BY <1>1, <1>3 DEF SavedInv, Stored, Replaced, Acknowledged
<1>5. \A f \in Fields : Stored(f)' /\ ~Replaced(f)' => cfg'[f] = file[f] /\ cfg'[f] = kept'[f]
  <2> SUFFICES ASSUME NEW f \in Fields, Stored(f)', ~Replaced(f)'
               PROVE  cfg'[f] = file[f] /\ cfg'[f] = kept'[f]
    OBVIOUS
  <2>1. file[f] = kept[f] /\ owner[f] = "kept" /\ file # Torn
    BY <1>3, <1>4
  <2>2. f = "temperature" => file[f] # Zero
    BY <1>4, <2>1 DEF Replaced
  <2>3. QED
    BY <1>1, <2>1, <2>2, LoadsFile
<1>6. \A f \in Fields : owner'[f] = "kept" => Stored(f)'
  BY DEF Stored
<1>7. QED
  BY <1>1, <1>2, <1>5, <1>6 DEF SavedInv, Acknowledged

\* What each step makes of the request that takes it.
Ours(u, d) ==
  /\ admin' = [v \in Admins |-> admin'[v]] /\ admin'[u] = d
  /\ \A v \in Admins \ {u} : admin'[v] = admin[v]
  /\ IsForm(d)

Alike(d, c) ==
  /\ HasFields(d) /\ d.kind = c.kind /\ d.set = c.set
  /\ d.changed = c.changed /\ d.alone = c.alone

LEMMA PutOurs ==
  ASSUME SettingsTypeOK, NEW u \in Admins, NEW d, PutForm(u, d), IsForm(d)
  PROVE  Ours(u, d)
BY PutDoes DEF Ours

LEMMA BeginDoes ==
  ASSUME SettingsTypeOK, NEW u \in Admins, NEW form \in Forms, BeginForm(u, form)
  PROVE  /\ Ours(u, admin'[u])
         /\ admin'[u].pc = "apply" /\ admin'[u].got = {} /\ admin'[u].changed = {}
<1> DEFINE todo == Steps[form.kind] \cap (DOMAIN form.set \cup {"chat", "embedder"})
           d == [NoForm EXCEPT !.pc = "apply", !.kind = form.kind, !.set = form.set, !.todo = todo]
<1>1. HasFields(NoForm) /\ NoForm.changed = {} /\ NoForm.got = {} /\ NoForm.data = Initial /\ NoForm.alone = TRUE
  BY DEF HasFields, FormFields, NoForm
<1>2. /\ form.kind \in Kinds /\ DOMAIN form.set \subseteq Fields
      /\ Initial = [f \in Fields |-> Initial[f]]
  BY SettingsAssumption DEF SettingsAssumption, Outcomes, Acknowledged, Kinds, Steps
<1>3. /\ todo \cap Core # {} => "chat" \in todo
      /\ todo \cap EmbCore # {} => "embedder" \in todo
  BY <1>2 DEF Kinds, Steps, Core, EmbCore
<1>4. PutForm(u, d)
  BY DEF BeginForm
<1> HIDE DEF todo
<1>5. /\ HasFields(d) /\ d.pc = "apply" /\ d.kind = form.kind /\ d.set = form.set /\ d.todo = todo
      /\ d.changed = {} /\ d.data = Initial /\ d.alone = TRUE /\ d.got = {}
  BY <1>1 DEF HasFields, FormFields
<1> HIDE DEF d
<1>6. todo \subseteq Steps[d.kind] \cap (DOMAIN d.set \cup {"chat", "embedder"})
  BY <1>5 DEF todo
<1>7. IsForm(d)
  BY <1>2, <1>3, <1>5, <1>6 DEF IsForm
<1>8. Ours(u, d)
  BY <1>4, <1>7, PutOurs
<1>9. QED
  BY <1>5, <1>8 DEF Ours

LEMMA OnwardDoes ==
  ASSUME SettingsTypeOK, NEW u \in Admins, NEW s, NextIs(u, s), PutForm(u, Onward(admin[u], s))
  PROVE  LET c == admin[u]  d == admin'[u] IN
         /\ Ours(u, d) /\ Alike(d, c)
         /\ c.pc = "apply" /\ d.pc = "apply" /\ d.todo = c.todo \ {s} /\ d.got = c.got
<1>1. HasFields(admin[u]) /\ admin[u].pc = "apply"
  BY DEF SettingsTypeOK, IsForm, NextIs
<1>2. Ours(u, Onward(admin[u], s))
  BY OnwardForm, PutOurs
<1>3. QED
  BY <1>1, <1>2, OnwardFields DEF Ours, Alike

LEMMA AssignForm ==
  ASSUME SettingsTypeOK, NEW u \in Admins, NEW f \in Fields, NEW value, NextIs(u, f), Assign(u, f, value)
  PROVE  Ours(u, admin'[u])
<1>1. IsForm(admin[u]) /\ admin[u].pc = "apply" /\ f \in admin[u].todo /\ f \notin {"chat", "embedder"}
  BY DEF SettingsTypeOK, NextIs, Fields
<1>2. LET c == admin[u]  d == admin'[u] IN
      /\ HasFields(d) /\ d.pc \in {"apply", "embed"} /\ d.kind = c.kind /\ d.set = c.set
      /\ d.todo = c.todo \ {f} /\ d.changed = c.changed \cup {f}
      /\ d.data = c.data /\ d.alone = c.alone /\ d.got = c.got
  BY AssignDoes
<1>3. IsForm(admin'[u])
  BY <1>1, <1>2 DEF IsForm
<1>4. QED
  BY <1>3, AssignDoes DEF Ours

LEMMA MovedForm ==
  ASSUME SettingsTypeOK, NEW u \in Admins, NEW pc,
         \/ admin[u].pc = "embed" /\ pc = "apply"
         \/ admin[u].pc = "truncate" /\ pc = "write"
         \/ admin[u].pc = "write" /\ pc = "close" /\ admin[u].kind = "import",
         PutForm(u, Moved(admin[u], pc))
  PROVE  LET c == admin[u]  d == admin'[u] IN
         Ours(u, d) /\ Alike(d, c) /\ d.pc = pc /\ d.todo = c.todo /\ d.got = c.got
<1>1. IsForm(admin[u]) /\ HasFields(admin[u])
  BY DEF SettingsTypeOK, IsForm
<1> DEFINE c == admin[u]  d == Moved(c, pc)
<1>2. /\ HasFields(d) /\ d.pc = pc /\ d.kind = c.kind /\ d.set = c.set /\ d.todo = c.todo
      /\ d.changed = c.changed /\ d.data = c.data /\ d.alone = c.alone
      /\ d.got = c.got
  BY <1>1, MovedFields
<1> HIDE DEF d
<1>3. IsForm(d)
  BY <1>1, <1>2 DEF IsForm
<1>4. Ours(u, d)
  BY <1>3, PutOurs DEF d
<1>5. QED
  BY <1>2, <1>4 DEF Ours, Alike

LEMMA BuildForm ==
  ASSUME SettingsTypeOK, NEW u \in Admins, NextIs(u, "chat"),
         PutForm(u, [admin[u] EXCEPT !.pc = "swap", !.data = cfg])
  PROVE  LET c == admin[u]  d == admin'[u] IN
         /\ Ours(u, d) /\ Alike(d, c)
         /\ c.pc = "apply" /\ d.pc = "swap" /\ d.todo = c.todo /\ d.got = c.got /\ d.data = cfg
<1> DEFINE c == admin[u]  d == [c EXCEPT !.pc = "swap", !.data = cfg]
<1>1. IsForm(c) /\ HasFields(c) /\ c.pc = "apply" /\ "chat" \in c.todo /\ cfg = [f \in Fields |-> cfg[f]]
  BY DEF SettingsTypeOK, IsForm, NextIs
<1>2. c.todo \cap Core = {}
  BY BuiltLast
<1>3. /\ HasFields(d) /\ d.pc = "swap" /\ d.kind = c.kind /\ d.set = c.set /\ d.todo = c.todo
      /\ d.changed = c.changed /\ d.data = cfg /\ d.alone = c.alone
      /\ d.got = c.got
  BY <1>1 DEF HasFields, FormFields
<1> HIDE DEF d
<1>4. IsForm(d)
  BY <1>1, <1>2, <1>3 DEF IsForm
<1>5. Ours(u, d)
  BY <1>4, PutOurs DEF d
<1>6. QED
  BY <1>1, <1>3, <1>5 DEF Ours, Alike

LEMMA SwapDoes ==
  ASSUME SettingsTypeOK, NEW u \in Admins, SetChatModel(u)
  PROVE  LET c == admin[u]  d == admin'[u] IN
         /\ Ours(u, d) /\ Alike(d, c)
         /\ d.pc = "apply" /\ d.todo = c.todo \ {"chat"} /\ d.got = c.got
<1> DEFINE c == admin[u]  e == Onward(c, "chat")  d == Moved(e, "apply")
<1>1. IsForm(c) /\ HasFields(c) /\ c.pc = "swap"
  BY DEF SettingsTypeOK, IsForm, SetChatModel
<1>2. PutForm(u, d)
  BY DEF SetChatModel, Moved
<1>3. /\ HasFields(e) /\ e.kind = c.kind /\ e.set = c.set /\ e.todo = c.todo \ {"chat"}
      /\ e.changed = c.changed /\ e.data = c.data /\ e.alone = c.alone
      /\ e.got = c.got
  BY <1>1, OnwardFields
<1> HIDE DEF e
<1>4. /\ HasFields(d) /\ d.pc = "apply" /\ d.kind = c.kind /\ d.set = c.set /\ d.todo = c.todo \ {"chat"}
      /\ d.changed = c.changed /\ d.data = c.data /\ d.alone = c.alone
      /\ d.got = c.got
  BY <1>3, MovedFields
<1> HIDE DEF d
<1>5. IsForm(d)
  BY <1>1, <1>4 DEF IsForm
<1>6. Ours(u, d)
  BY <1>2, <1>5, PutOurs
<1>7. QED
  BY <1>4, <1>6 DEF Ours, Alike

LEMMA CloseDoes ==
  ASSUME SettingsTypeOK, NEW u \in Admins, BeginReload(u)
  PROVE  LET c == admin[u]  d == admin'[u] IN
         /\ Ours(u, d) /\ Alike(d, c)
         /\ d.pc = "connect" /\ d.todo = c.todo /\ d.reach = cfg.servers /\ d.got = {}
<1> DEFINE c == admin[u]  d == [c EXCEPT !.pc = "connect", !.reach = cfg.servers]
<1>1. IsForm(c) /\ HasFields(c) /\ c.pc = "close" /\ PutForm(u, d)
  BY DEF SettingsTypeOK, IsForm, BeginReload
<1>2. /\ HasFields(d) /\ d.pc = "connect" /\ d.kind = c.kind /\ d.set = c.set /\ d.todo = c.todo
      /\ d.changed = c.changed /\ d.data = c.data /\ d.alone = c.alone /\ d.reach = cfg.servers
      /\ d.got = c.got
  BY <1>1 DEF HasFields, FormFields
<1> HIDE DEF d
<1>3. IsForm(d) /\ d.got = {}
  BY <1>1, <1>2 DEF IsForm
<1>4. Ours(u, d)
  BY <1>1, <1>3, PutOurs
<1>5. QED
  BY <1>2, <1>3, <1>4 DEF Ours, Alike

LEMMA ConnectDoes ==
  ASSUME SettingsTypeOK, NEW u \in Admins, NEW s, ConnectServer(u, s)
  PROVE  LET c == admin[u]  d == admin'[u] IN
         /\ Ours(u, d) /\ Alike(d, c)
         /\ d.pc = "connect" /\ d.todo = c.todo /\ d.reach \cup d.got \subseteq c.reach \cup c.got
<1> DEFINE c == admin[u]
           d == [c EXCEPT !.reach = @ \ {s}, !.got = @ \cup {s}]
           e == [c EXCEPT !.reach = @ \ {s}]
<1>1. IsForm(c) /\ HasFields(c) /\ c.pc = "connect" /\ s \in c.reach /\ (PutForm(u, d) \/ PutForm(u, e))
  BY DEF SettingsTypeOK, IsForm, ConnectServer
<1>2. /\ HasFields(d) /\ d.pc = c.pc /\ d.kind = c.kind /\ d.set = c.set /\ d.todo = c.todo
      /\ d.changed = c.changed /\ d.data = c.data /\ d.alone = c.alone /\ d.reach = c.reach \ {s}
      /\ d.got = c.got \cup {s}
  BY <1>1 DEF HasFields, FormFields
<1>3. /\ HasFields(e) /\ e.pc = c.pc /\ e.kind = c.kind /\ e.set = c.set /\ e.todo = c.todo
      /\ e.changed = c.changed /\ e.data = c.data /\ e.alone = c.alone /\ e.reach = c.reach \ {s}
      /\ e.got = c.got
  BY <1>1 DEF HasFields, FormFields
<1> HIDE DEF d, e
<1>4. IsForm(d) /\ IsForm(e)
  BY <1>1, <1>2, <1>3 DEF IsForm
<1>5. Ours(u, d) \/ Ours(u, e)
  BY <1>1, <1>4, PutOurs
<1>6. QED
  BY <1>1, <1>2, <1>3, <1>5 DEF Ours, Alike

LEMMA ManagerDoes ==
  ASSUME SettingsTypeOK, NEW u \in Admins, SetManager(u)
  PROVE  LET c == admin[u]  d == admin'[u] IN
         /\ Ours(u, d) /\ Alike(d, c)
         /\ c.pc = "connect" /\ d.pc = "tools" /\ d.todo = c.todo /\ d.reach = Connect(NewId, c.got)
<1> DEFINE c == admin[u]  new == Connect(NewId, c.got)  d == [c EXCEPT !.pc = "tools", !.reach = new]
<1>1. IsForm(c) /\ HasFields(c) /\ c.pc = "connect" /\ PutForm(u, d)
  BY DEF SettingsTypeOK, IsForm, SetManager
<1> HIDE DEF new
<1>2. /\ HasFields(d) /\ d.pc = "tools" /\ d.kind = c.kind /\ d.set = c.set /\ d.todo = c.todo
      /\ d.changed = c.changed /\ d.data = c.data /\ d.alone = c.alone /\ d.reach = new
      /\ d.got = c.got
  BY <1>1 DEF HasFields, FormFields
<1> HIDE DEF d
<1>3. IsForm(d)
  BY <1>1, <1>2 DEF IsForm
<1>4. Ours(u, d)
  BY <1>1, <1>3, PutOurs
<1>5. QED
  BY <1>1, <1>2, <1>4 DEF Ours, Alike, new

\* The two parts of the invariant that say what requests and histories are like.
LEMMA OursTyped ==
  ASSUME SettingsTypeOK, OwnsInv, NEW u \in Admins, Ours(u, admin'[u]), Alike(admin'[u], admin[u]),
         UNCHANGED <<cfg, file, ledger>>, admin[u].pc # "idle", admin'[u].pc # "idle"
  PROVE  SettingsTypeOK' /\ OwnsInv'
<1>1. SettingsTypeOK'
  BY DEF SettingsTypeOK, Ours, ledger
<1>2. OwnsInv'
  BY DEF OwnsInv, Owns, Ours, Alike, ledger
<1>3. QED
  BY <1>1, <1>2

LEMMA ReplyTyped ==
  ASSUME SettingsTypeOK, OwnsInv, NEW u \in Admins, NEW result \in Outcomes, Reply(u, result),
         UNCHANGED cfg, file' # Torn => file' = [f \in Fields |-> file'[f]]
  PROVE  SettingsTypeOK' /\ OwnsInv'
<1>1. /\ admin' = [v \in Admins |-> admin'[v]]
      /\ admin'[u] = NoForm
      /\ \A v \in Admins \ {u} : admin'[v] = admin[v]
      /\ \A v \in Admins : IsForm(admin'[v])
      /\ owner' = [f \in Fields |-> owner'[f]] /\ kept' = [f \in Fields |-> kept'[f]]
      /\ \A f \in Fields : owner'[f] = IF owner[f] = u THEN result ELSE owner[f]
      /\ \A f \in Fields : owner'[f] \in Admins \cup Outcomes
  BY ReplyDoes
<1>2. SettingsTypeOK'
  BY <1>1 DEF SettingsTypeOK
<1>3. \A f \in Fields, v \in Admins : owner'[f] = v => v # u /\ owner[f] = v
  BY <1>1, SettingsAssumption DEF SettingsAssumption, Outcomes, Acknowledged
<1>4. OwnsInv'
  BY <1>1, <1>3 DEF OwnsInv, Owns
<1>5. QED
  BY <1>2, <1>4

LEMMA BeginTyped ==
  ASSUME SettingsTypeOK, OwnsInv, NEW u \in Admins, NEW form \in Forms, BeginForm(u, form)
  PROVE  SettingsTypeOK' /\ OwnsInv'
<1>1. Ours(u, admin'[u]) /\ admin'[u].pc = "apply" /\ admin[u].pc = "idle"
  BY BeginDoes DEF BeginForm
<1>2. UNCHANGED <<cfg, file, owner, kept>>
  BY DEF BeginForm, ledger
<1>3. SettingsTypeOK'
  BY <1>1, <1>2 DEF SettingsTypeOK, Ours
<1>4. \A f \in Fields : owner'[f] # u
  BY <1>1, <1>2 DEF OwnsInv, Owns
<1>5. OwnsInv'
  BY <1>1, <1>2, <1>4 DEF OwnsInv, Owns, Ours
<1>6. QED
  BY <1>3, <1>5

LEMMA ApplyTyped ==
  ASSUME SettingsTypeOK, OwnsInv, NEW u \in Admins, Apply(u)
  PROVE  SettingsTypeOK' /\ OwnsInv'
<1>1. PICK f \in Fields : NextIs(u, f) /\ ApplyField(u, f)
  BY DEF Apply
<1>2. UNCHANGED file /\ admin[u].pc = "apply"
  BY <1>1 DEF Apply, NextIs
<1>3. CASE PutForm(u, Onward(admin[u], f)) /\ UNCHANGED <<cfg, ledger>>
  <2>1. Ours(u, admin'[u]) /\ Alike(admin'[u], admin[u]) /\ admin'[u].pc = "apply"
    BY <1>1, <1>3, OnwardDoes
  <2>2. QED
    BY <1>2, <1>3, <2>1, OursTyped
<1>4. CASE Reply(u, "lost") /\ UNCHANGED cfg
  BY <1>2, <1>4, ReplyTyped DEF SettingsTypeOK, Outcomes, Acknowledged
<1>5. CASE Assign(u, f, admin[u].set[f]) /\ UNCHANGED kept
  <2>1. Ours(u, admin'[u])
    BY <1>1, <1>5, AssignForm
  <2> DEFINE value == admin[u].set[f]
  <2>2. Assign(u, f, value)
    BY <1>5
  <2> HIDE DEF value
  <2>3. /\ cfg' = [g \in Fields |-> cfg'[g]] /\ owner' = [g \in Fields |-> owner'[g]]
        /\ \E written \in SUBSET Fields :
              /\ f \in written
              /\ written \subseteq {f} \cup (IF f = "llmKey" /\ admin[u].kind = "update" THEN {"embUrl", "embKey"} ELSE {})
              /\ \A g \in Fields : owner'[g] = IF g \in written THEN u ELSE owner[g]
        /\ admin'[u].pc = IF admin[u].kind = "update" /\ f = "llmKey" THEN "embed" ELSE "apply"
        /\ admin'[u].kind = admin[u].kind /\ admin'[u].changed = admin[u].changed \cup {f}
    BY <1>1, <2>2, AssignDoes
  <2>4. SettingsTypeOK'
    BY <1>2, <1>5, <2>1, <2>3 DEF SettingsTypeOK, Ours
  <2>5. PICK written \in SUBSET Fields :
              /\ written \subseteq {f} \cup (IF f = "llmKey" /\ admin[u].kind = "update" THEN {"embUrl", "embKey"} ELSE {})
              /\ \A g \in Fields : owner'[g] = IF g \in written THEN u ELSE owner[g]
    BY <2>3
  <2>6. ASSUME NEW v \in Admins PROVE Owns(v, admin[v])'
    <3>1. Owns(v, admin[v])
      BY DEF OwnsInv
    <3>2. CASE v = u
      BY <2>3, <2>5, <3>1, <3>2 DEF Owns
    <3>3. CASE v # u
      BY <2>1, <2>5, <3>1, <3>3 DEF Owns, Ours
    <3>4. QED
      BY <3>2, <3>3
  <2>7. QED
    BY <2>4, <2>6 DEF OwnsInv
<1>6. QED
  BY <1>1, <1>3, <1>4, <1>5 DEF ApplyField

LEMMA BuildEmbedderTyped ==
  ASSUME SettingsTypeOK, OwnsInv, NEW u \in Admins, BuildEmbedder(u)
  PROVE  SettingsTypeOK' /\ OwnsInv'
<1> DEFINE c == admin[u]
           done == IF c.pc = "embed" THEN Moved(c, "apply") ELSE Onward(c, "embedder")
<1>1. UNCHANGED <<cfg, file>> /\ (c.pc = "embed" \/ NextIs(u, "embedder"))
  BY DEF BuildEmbedder
<1>2. CASE PutForm(u, done) /\ UNCHANGED ledger
  <2>1. CASE c.pc = "embed"
    <3>1. Ours(u, admin'[u]) /\ Alike(admin'[u], admin[u]) /\ admin'[u].pc = "apply"
      BY <1>2, <2>1, MovedForm
    <3>2. QED
      BY <1>1, <1>2, <2>1, <3>1, OursTyped
  <2>2. CASE c.pc # "embed"
    <3>1. Ours(u, admin'[u]) /\ Alike(admin'[u], admin[u]) /\ admin'[u].pc = "apply" /\ admin[u].pc = "apply"
      BY <1>1, <1>2, <2>2, OnwardDoes
    <3>2. QED
      BY <1>1, <1>2, <3>1, OursTyped
  <2>3. QED
    BY <2>1, <2>2
<1>3. CASE Reply(u, "lost")
  BY <1>1, <1>3, ReplyTyped DEF SettingsTypeOK, Outcomes, Acknowledged
<1>4. (PutForm(u, done) /\ UNCHANGED ledger) \/ Reply(u, "lost")
  BY DEF BuildEmbedder, Moved
<1>5. QED
  BY <1>2, <1>3, <1>4

LEMMA BuildTyped ==
  ASSUME SettingsTypeOK, OwnsInv, NEW u \in Admins, Build(u)
  PROVE  SettingsTypeOK' /\ OwnsInv'
<1>1. UNCHANGED <<cfg, file>> /\ NextIs(u, "chat")
  BY DEF Build
<1>2. CASE PutForm(u, Onward(admin[u], "chat")) /\ UNCHANGED ledger
  <2>1. Ours(u, admin'[u]) /\ Alike(admin'[u], admin[u]) /\ admin'[u].pc = "apply" /\ admin[u].pc = "apply"
    BY <1>1, <1>2, OnwardDoes
  <2>2. QED
    BY <1>1, <1>2, <2>1, OursTyped
<1>3. CASE PutForm(u, [admin[u] EXCEPT !.pc = "swap", !.data = cfg]) /\ UNCHANGED ledger
  <2>1. Ours(u, admin'[u]) /\ Alike(admin'[u], admin[u]) /\ admin'[u].pc = "swap" /\ admin[u].pc = "apply"
    BY <1>1, <1>3, BuildForm
  <2>2. QED
    BY <1>1, <1>3, <2>1, OursTyped
<1>4. CASE Reply(u, "lost")
  BY <1>1, <1>4, ReplyTyped DEF SettingsTypeOK, Outcomes, Acknowledged
<1>5. QED
  BY <1>2, <1>3, <1>4 DEF Build

LEMMA SwapTyped ==
  ASSUME SettingsTypeOK, OwnsInv, NEW u \in Admins, SetChatModel(u)
  PROVE  SettingsTypeOK' /\ OwnsInv'
<1>1. Ours(u, admin'[u]) /\ Alike(admin'[u], admin[u]) /\ admin'[u].pc = "apply"
  BY SwapDoes
<1>2. admin[u].pc = "swap" /\ UNCHANGED <<cfg, file, ledger>>
  BY DEF SetChatModel
<1>3. QED
  BY <1>1, <1>2, OursTyped

LEMMA MarshalTyped ==
  ASSUME SettingsTypeOK, OwnsInv, NEW u \in Admins, Marshal(u)
  PROVE  SettingsTypeOK' /\ OwnsInv'
<1>1. UNCHANGED <<cfg, file>> /\ admin[u].pc = "apply" /\ admin[u].todo = {}
  BY DEF Marshal
<1>2. CASE admin[u].changed = {} /\ admin[u].kind = "update"
  <2>1. Reply(u, "kept")
    BY <1>2 DEF Marshal
  <2>2. QED
    BY <1>1, <2>1, ReplyTyped DEF SettingsTypeOK, Outcomes, Acknowledged
<1>3. CASE ~(admin[u].changed = {} /\ admin[u].kind = "update")
  <2>1. UNCHANGED ledger
    BY <1>3 DEF Marshal
  <2>2. admin' = [v \in Admins |-> admin'[v]]
    BY <1>3, MarshalDoes
  <2>3. LET c == admin[u]  d == admin'[u] IN
              /\ HasFields(d) /\ d.pc = "truncate" /\ d.kind = c.kind /\ d.set = c.set /\ d.todo = c.todo
              /\ d.changed = c.changed /\ d.data = cfg /\ d.got = c.got
              /\ d.alone \in BOOLEAN
    BY <1>3, MarshalDoes
  <2>4. \A v \in Admins \ {u} :
              LET c == admin[v]  d == admin'[v] IN
              /\ HasFields(d) /\ d.pc = c.pc /\ d.kind = c.kind /\ d.set = c.set /\ d.todo = c.todo
              /\ d.changed = c.changed /\ d.data = c.data /\ d.reach = c.reach /\ d.got = c.got
              /\ d.alone \in BOOLEAN
    BY <1>3, MarshalDoes
  <2>5. \A v \in Admins : IsForm(admin[v])
    BY DEF SettingsTypeOK
  <2>6. IsForm(admin'[u])
    <3>1. IsForm(admin[u]) /\ cfg = [f \in Fields |-> cfg[f]]
      BY <2>5 DEF SettingsTypeOK
    <3>2. QED
      BY <1>1, <2>3, <3>1 DEF IsForm
  <2>7. ASSUME NEW v \in Admins \ {u} PROVE IsForm(admin'[v])
    <3>1. IsForm(admin[v])
      BY <2>5
    <3>2. LET c == admin[v]  d == admin'[v] IN
              /\ HasFields(d) /\ d.pc = c.pc /\ d.kind = c.kind /\ d.set = c.set /\ d.todo = c.todo
              /\ d.changed = c.changed /\ d.data = c.data /\ d.reach = c.reach /\ d.got = c.got
              /\ d.alone \in BOOLEAN
      BY <2>4
    <3>3. QED
      BY <3>1, <3>2 DEF IsForm
  <2>8. SettingsTypeOK'
    BY <1>1, <2>1, <2>2, <2>6, <2>7 DEF SettingsTypeOK, ledger
  <2>9. \A v \in Admins : /\ admin'[v].kind = admin[v].kind /\ admin'[v].changed = admin[v].changed
                          /\ admin[v].pc # "idle" => admin'[v].pc # "idle"
    BY <2>3, <2>4
  <2>10. OwnsInv'
    BY <2>1, <2>9 DEF OwnsInv, Owns, ledger
  <2>11. QED
    BY <2>8, <2>10
<1>4. QED
  BY <1>2, <1>3

LEMMA TruncateTyped ==
  ASSUME SettingsTypeOK, OwnsInv, NEW u \in Admins, Truncate(u)
  PROVE  SettingsTypeOK' /\ OwnsInv'
<1>1. UNCHANGED cfg /\ admin[u].pc = "truncate"
  BY DEF Truncate
<1>2. CASE file' = Torn /\ PutForm(u, Moved(admin[u], "write")) /\ UNCHANGED ledger
  <2>1. Ours(u, admin'[u]) /\ Alike(admin'[u], admin[u]) /\ admin'[u].pc = "write"
    BY <1>1, <1>2, MovedForm
  <2>2. SettingsTypeOK'
    BY <1>1, <1>2, <2>1 DEF SettingsTypeOK, Ours, ledger
  <2>3. OwnsInv'
    BY <1>1, <1>2, <2>1 DEF OwnsInv, Owns, Ours, Alike, ledger
  <2>4. QED
    BY <2>2, <2>3
<1>3. CASE Unsaved(u) /\ UNCHANGED file
  BY <1>1, <1>3, ReplyTyped DEF SettingsTypeOK, Unsaved, Outcomes, Acknowledged
<1>4. QED
  BY <1>2, <1>3 DEF Truncate, Moved

LEMMA WriteTyped ==
  ASSUME SettingsTypeOK, OwnsInv, NEW u \in Admins, Write(u)
  PROVE  SettingsTypeOK' /\ OwnsInv'
<1>1. UNCHANGED cfg /\ admin[u].pc = "write" /\ admin[u].data = [f \in Fields |-> admin[u].data[f]]
  BY DEF Write, SettingsTypeOK, IsForm
<1>2. CASE file' = admin[u].data /\ admin[u].kind = "import" /\ PutForm(u, Moved(admin[u], "close")) /\ UNCHANGED ledger
  <2>1. Ours(u, admin'[u]) /\ Alike(admin'[u], admin[u]) /\ admin'[u].pc = "close"
    BY <1>1, <1>2, MovedForm
  <2>2. SettingsTypeOK'
    BY <1>1, <1>2, <2>1 DEF SettingsTypeOK, Ours, ledger
  <2>3. OwnsInv'
    BY <1>1, <1>2, <2>1 DEF OwnsInv, Owns, Ours, Alike, ledger
  <2>4. QED
    BY <2>2, <2>3
<1>3. CASE file' = admin[u].data /\ Reply(u, "kept")
  BY <1>1, <1>3, ReplyTyped DEF Outcomes, Acknowledged
<1>4. CASE Unsaved(u) /\ UNCHANGED file
  BY <1>1, <1>4, ReplyTyped DEF SettingsTypeOK, Unsaved, Outcomes, Acknowledged
<1>5. QED
  BY <1>2, <1>3, <1>4 DEF Write, Moved

LEMMA ReloadTyped ==
  ASSUME SettingsTypeOK, OwnsInv, NEW u \in Admins,
         \/ CloseConnections(u)
         \/ \E s \in admin[u].reach : ConnectServer(u, s)
         \/ SetManager(u)
         \/ SetMCPTools(u)
  PROVE  SettingsTypeOK' /\ OwnsInv'
<1>1. CASE CloseConnections(u)
  <2>1. Ours(u, admin'[u]) /\ Alike(admin'[u], admin[u]) /\ admin'[u].pc = "connect"
    BY <1>1, CloseDoes DEF CloseConnections
  <2>2. admin[u].pc = "close" /\ UNCHANGED <<cfg, file, ledger>>
    BY <1>1 DEF CloseConnections, BeginReload
  <2>3. QED
    BY <2>1, <2>2, OursTyped
<1>2. ASSUME NEW s \in admin[u].reach, ConnectServer(u, s) PROVE SettingsTypeOK' /\ OwnsInv'
  <2>1. Ours(u, admin'[u]) /\ Alike(admin'[u], admin[u]) /\ admin'[u].pc = "connect"
    BY <1>2, ConnectDoes
  <2>2. admin[u].pc = "connect" /\ UNCHANGED <<cfg, file, ledger>>
    BY <1>2 DEF ConnectServer
  <2>3. QED
    BY <2>1, <2>2, OursTyped
<1>3. CASE SetManager(u)
  <2>1. Ours(u, admin'[u]) /\ Alike(admin'[u], admin[u]) /\ admin'[u].pc = "tools"
    BY <1>3, ManagerDoes
  <2>2. admin[u].pc = "connect" /\ UNCHANGED <<cfg, file, ledger>>
    BY <1>3 DEF SetManager
  <2>3. QED
    BY <2>1, <2>2, OursTyped
<1>4. CASE SetMCPTools(u)
  BY <1>4, ReplyTyped DEF SetMCPTools, SettingsTypeOK, Outcomes, Acknowledged
<1>5. QED
  BY <1>1, <1>2, <1>3, <1>4

LEMMA RestartTyped ==
  ASSUME SettingsTypeOK, OwnsInv, Restart
  PROVE  SettingsTypeOK' /\ OwnsInv'
<1>1. /\ cfg' = Load(file) /\ UNCHANGED <<file, kept>>
      /\ admin' = [u \in Admins |-> NoForm]
      /\ owner' = [f \in Fields |->
                 IF owner[f] = "kept" /\ file # Torn /\ ~crossed THEN "kept" ELSE "lost"]
  BY DEF Restart
<1>2. IsForm(NoForm)
  BY SettingsAssumption DEF SettingsAssumption, Outcomes, Acknowledged, IsForm, HasFields, FormFields, NoForm, Core, EmbCore
<1>3. \A f \in Fields : owner'[f] \in {"kept", "lost"}
  BY <1>1
<1>4. /\ cfg' = [f \in Fields |-> cfg'[f]] /\ owner' = [f \in Fields |-> owner'[f]]
      /\ \A u \in Admins : IsForm(admin'[u])
  BY <1>1, <1>2, LoadType
<1>5. SettingsTypeOK'
  BY <1>1, <1>3, <1>4 DEF SettingsTypeOK, Outcomes, Acknowledged
<1>6. OwnsInv'
  BY <1>3, SettingsAssumption DEF OwnsInv, Owns, SettingsAssumption, Outcomes, Acknowledged
<1>7. QED
  BY <1>5, <1>6

\* What a step does to the parts of the invariant a request is built from: nobody's record changes
\* but the stepping request's, or only in whether it saves alone.
SameButAlone(v) ==
  LET c == admin[v]  d == admin'[v] IN
  /\ d.pc = c.pc /\ d.kind = c.kind /\ d.todo = c.todo /\ d.changed = c.changed
  /\ d.data = c.data /\ d.reach = c.reach /\ d.got = c.got

LEMMA MoveKeepsBuilt ==
  ASSUME BuiltInv, NEW u \in Admins,
         UNCHANGED <<cfg, owner, chat, embedder, overlapped, unbuilt>>,
         \A v \in Admins \ {u} : SameButAlone(v), admin[u].pc # "idle",
         ~overlapped /\ ~unbuilt /\ BuiltFrom(u, admin[u]) => BuiltFrom(u, admin[u])'
  PROVE  BuiltInv'
<1> SUFFICES ASSUME ~overlapped PROVE BuiltInv'
  BY DEF BuiltInv
<1>1. \A v, w \in Admins : admin[v].pc # "idle" /\ admin[w].pc # "idle" => v = w
  BY DEF BuiltInv
<1>2. \A v \in Admins : admin'[v].pc # "idle" => v = u
  BY <1>1 DEF SameButAlone
<1>3. ASSUME ~unbuilt, NEW v \in Admins PROVE BuiltFrom(v, admin[v])'
  <2>1. BuiltFrom(v, admin[v])
    BY <1>3 DEF BuiltInv
  <2>2. CASE v = u
    BY <1>3, <2>1, <2>2
  <2>3. CASE v # u
    BY <2>1, <2>3 DEF BuiltFrom, SameButAlone
  <2>4. QED
    BY <2>2, <2>3
<1>4. ~unbuilt => /\ \A f \in Core : owner[f] \in Acknowledged => chat[f] = cfg[f]
                  /\ \A f \in EmbCore : owner[f] \in Acknowledged => embedder[f] = cfg[f]
  BY DEF BuiltInv
<1>5. QED
  BY <1>2, <1>3, <1>4 DEF BuiltInv

LEMMA ReplyKeepsBuilt ==
  ASSUME SettingsTypeOK, BuiltInv, NEW u \in Admins, NEW result \in Outcomes,
         Reply(u, result), UNCHANGED <<cfg, chat, embedder, overlapped>>,
         unbuilt => unbuilt', admin[u].pc # "idle",
         result # "lost" => admin[u].todo = {} /\ admin[u].pc # "embed"
  PROVE  BuiltInv'
<1> SUFFICES ASSUME ~overlapped PROVE BuiltInv'
  BY DEF BuiltInv
<1>1. /\ admin'[u] = NoForm
      /\ \A v \in Admins \ {u} : admin'[v] = admin[v]
      /\ \A f \in Fields : owner'[f] = IF owner[f] = u THEN result ELSE owner[f]
  BY ReplyDoes
<1>2. \A v \in Admins : admin'[v].pc = "idle"
  BY <1>1 DEF BuiltInv, NoForm
<1>3. Core \subseteq Fields /\ EmbCore \subseteq Fields
  BY DEF Core, EmbCore, Fields
<1>4. ASSUME ~unbuilt' PROVE /\ \A f \in Core : owner'[f] \in Acknowledged => chat'[f] = cfg'[f]
                             /\ \A f \in EmbCore : owner'[f] \in Acknowledged => embedder'[f] = cfg'[f]
  <2>1. BuiltFrom(u, admin[u])
    BY <1>4 DEF BuiltInv
  <2>2. ASSUME NEW f \in Core, owner'[f] \in Acknowledged PROVE chat[f] = cfg[f]
    <3>1. owner[f] \in Acknowledged \/ (owner[f] = u /\ result # "lost")
      BY <1>1, <1>3, <2>2 DEF Acknowledged
    <3>2. QED
      BY <1>4, <2>1, <3>1 DEF BuiltInv, BuiltFrom
  <2>3. ASSUME NEW f \in EmbCore, owner'[f] \in Acknowledged PROVE embedder[f] = cfg[f]
    <3>1. owner[f] \in Acknowledged \/ (owner[f] = u /\ result # "lost")
      BY <1>1, <1>3, <2>3 DEF Acknowledged
    <3>2. QED
      BY <1>4, <2>1, <3>1 DEF BuiltInv, BuiltFrom
  <2>4. QED
    BY <2>2, <2>3
<1>5. ASSUME ~unbuilt', NEW v \in Admins PROVE BuiltFrom(v, admin[v])'
  <2>1. BuiltFrom(v, admin[v])
    BY <1>5 DEF BuiltInv
  <2>2. \A f \in Fields : owner'[f] = v => owner[f] = v /\ v # u
    BY <1>1, SettingsAssumption DEF SettingsAssumption, Outcomes, Acknowledged
  <2>3. CASE v = u
    BY <1>1, <1>3, <2>2, <2>3 DEF BuiltFrom, NoForm
  <2>4. CASE v # u
    BY <1>1, <1>3, <2>1, <2>2, <2>4 DEF BuiltFrom
  <2>5. QED
    BY <2>3, <2>4
<1>6. QED
  BY <1>2, <1>4, <1>5 DEF BuiltInv

LEMMA BeginKeepsBuilt ==
  ASSUME SettingsTypeOK, OwnsInv, BuiltInv, NEW u \in Admins, NEW form \in Forms, BeginForm(u, form)
  PROVE  BuiltInv'
<1> SUFFICES ASSUME ~overlapped' PROVE BuiltInv'
  BY DEF BuiltInv
<1>1. /\ admin'[u].pc = "apply" /\ \A v \in Admins \ {u} : admin'[v] = admin[v]
      /\ \A v \in Admins : admin[v].pc = "idle"
      /\ ~overlapped /\ UNCHANGED <<cfg, owner, chat, embedder, unbuilt>>
  BY BeginDoes DEF BeginForm, Ours, models, ledger
<1>2. \A f \in Fields, v \in Admins : owner[f] # v
  BY <1>1 DEF OwnsInv, Owns
<1>3. Core \subseteq Fields /\ EmbCore \subseteq Fields
  BY DEF Core, EmbCore, Fields
<1>4. \A v \in Admins : BuiltFrom(v, admin[v])'
  BY <1>1, <1>2, <1>3 DEF BuiltFrom
<1>5. QED
  BY <1>1, <1>4 DEF BuiltInv

LEMMA AssignKeepsBuilt ==
  ASSUME SettingsTypeOK, BuiltInv, NEW u \in Admins, NEW f \in Fields, NEW value, NextIs(u, f),
         Assign(u, f, value), UNCHANGED <<chat, embedder, overlapped, unbuilt>>
  PROVE  BuiltInv'
<1> SUFFICES ASSUME ~overlapped PROVE BuiltInv'
  BY DEF BuiltInv
<1>1. PICK written \in SUBSET Fields :
              /\ f \in written
              /\ written \subseteq {f} \cup (IF f = "llmKey" /\ admin[u].kind = "update" THEN {"embUrl", "embKey"} ELSE {})
              /\ \A g \in Fields : owner'[g] = IF g \in written THEN u ELSE owner[g]
              /\ \A g \in Fields \ written : cfg'[g] = cfg[g]
  BY AssignDoes
<1>2. /\ \A v \in Admins \ {u} : admin'[v] = admin[v]
      /\ admin'[u].pc = IF admin[u].kind = "update" /\ f = "llmKey" THEN "embed" ELSE "apply"
      /\ admin'[u].todo = admin[u].todo \ {f} /\ admin'[u].changed = admin[u].changed \cup {f}
  BY AssignDoes
<1>3. /\ admin[u].pc = "apply" /\ f \in admin[u].todo /\ f \notin {"chat", "embedder"}
      /\ admin[u].todo \cap Core # {} => "chat" \in admin[u].todo
      /\ admin[u].todo \cap EmbCore # {} => "embedder" \in admin[u].todo
  BY DEF NextIs, SettingsTypeOK, IsForm, Fields
<1>4. \A v, w \in Admins : admin'[v].pc # "idle" /\ admin'[w].pc # "idle" => v = w
  BY <1>2, <1>3 DEF BuiltInv
<1>5. Core \subseteq Fields /\ EmbCore \subseteq Fields /\ Core \cap EmbCore = {} /\ Core \cap {"embUrl", "embKey"} = {}
      /\ "llmKey" \notin EmbCore
  BY DEF Core, EmbCore, Fields
<1>6. u \notin Acknowledged
  BY SettingsAssumption DEF SettingsAssumption, Outcomes, Acknowledged
<1>7. ~unbuilt' => /\ \A g \in Core : owner'[g] \in Acknowledged => chat'[g] = cfg'[g]
                   /\ \A g \in EmbCore : owner'[g] \in Acknowledged => embedder'[g] = cfg'[g]
  BY <1>1, <1>5, <1>6 DEF BuiltInv
<1>8. ASSUME ~unbuilt', NEW v \in Admins, v # u PROVE BuiltFrom(v, admin[v])'
  <2>1. BuiltFrom(v, admin[v]) /\ admin'[v] = admin[v] /\ admin[v].pc = "idle"
    BY <1>2, <1>3, <1>8 DEF BuiltInv
  <2>2. \A g \in Fields : owner'[g] = v => owner[g] = v /\ cfg'[g] = cfg[g]
    BY <1>1, <1>8
  <2>3. QED
    BY <1>5, <2>1, <2>2 DEF BuiltFrom
<1>9. ASSUME ~unbuilt' PROVE BuiltFrom(u, admin[u])'
  <2>1. BuiltFrom(u, admin[u])
    BY <1>9 DEF BuiltInv
  <2>2. ASSUME NEW g \in Core, owner'[g] = u, "chat" \notin admin'[u].todo PROVE chat'[g] = cfg'[g]
    <3>1. "chat" \notin admin[u].todo /\ f \notin Core
      BY <1>2, <1>3, <2>2
    <3>2. g \notin written
      BY <1>1, <1>5, <3>1
    <3>3. QED
      BY <1>1, <1>5, <2>1, <2>2, <3>1, <3>2 DEF BuiltFrom
  <2>3. ASSUME NEW g \in EmbCore, owner'[g] = u, admin'[u].pc # "embed",
               g \notin admin'[u].changed \/ "embedder" \notin admin'[u].todo
        PROVE  embedder'[g] = cfg'[g]
    <3>1. g # f
      BY <1>2, <1>3, <2>3
    <3>2. ~(admin[u].kind = "update" /\ f = "llmKey")
      BY <1>2, <2>3
    <3>3. g \notin written
      BY <1>1, <3>1, <3>2
    <3>4. g \notin admin[u].changed \/ "embedder" \notin admin[u].todo
      BY <1>2, <1>3, <2>3
    <3>5. QED
      BY <1>1, <1>3, <1>5, <2>1, <2>3, <3>3, <3>4 DEF BuiltFrom
  <2>4. admin'[u].pc # "swap"
    BY <1>2
  <2>5. QED
    BY <2>2, <2>3, <2>4 DEF BuiltFrom
<1>10. QED
  BY <1>4, <1>7, <1>8, <1>9 DEF BuiltInv

LEMMA ApplyKeepsBuilt ==
  ASSUME SettingsTypeOK, BuiltInv, NEW u \in Admins, Apply(u)
  PROVE  BuiltInv'
<1>1. PICK f \in Fields : NextIs(u, f) /\ ApplyField(u, f)
  BY DEF Apply
<1>2. UNCHANGED <<chat, embedder, overlapped, unbuilt>> /\ admin[u].pc = "apply"
  BY <1>1 DEF Apply, NextIs, models, flags
<1>3. CASE PutForm(u, Onward(admin[u], f)) /\ UNCHANGED <<cfg, ledger>>
  <2>1. LET c == admin[u]  d == admin'[u] IN
         /\ Ours(u, d) /\ Alike(d, c)
         /\ c.pc = "apply" /\ d.pc = "apply" /\ d.todo = c.todo \ {f} /\ d.got = c.got
    BY <1>1, <1>3, OnwardDoes
  <2>2. f \notin {"chat", "embedder"}
    BY DEF Fields
  <2>3. ~overlapped /\ ~unbuilt /\ BuiltFrom(u, admin[u]) => BuiltFrom(u, admin[u])'
    BY <1>2, <1>3, <2>1, <2>2 DEF BuiltFrom, Alike, ledger
  <2>4. \A v \in Admins \ {u} : SameButAlone(v)
    BY <2>1 DEF SameButAlone, Ours
  <2>5. QED
    BY <1>2, <1>3, <2>3, <2>4, MoveKeepsBuilt DEF ledger
<1>4. CASE Reply(u, "lost") /\ UNCHANGED cfg
  BY <1>2, <1>4, ReplyKeepsBuilt DEF Outcomes, Acknowledged
<1>5. CASE Assign(u, f, admin[u].set[f])
  BY <1>1, <1>2, <1>5, AssignKeepsBuilt
<1>6. QED
  BY <1>1, <1>3, <1>4, <1>5 DEF ApplyField

LEMMA BuildEmbedderKeepsBuilt ==
  ASSUME SettingsTypeOK, OwnsInv, BuiltInv, NEW u \in Admins, BuildEmbedder(u)
  PROVE  BuiltInv'
<1> DEFINE c == admin[u]
           done == IF c.pc = "embed" THEN Moved(c, "apply") ELSE Onward(c, "embedder")
<1>1. /\ UNCHANGED <<cfg, chat, overlapped>> /\ (c.pc = "embed" \/ NextIs(u, "embedder"))
      /\ c.pc # "idle"
      /\ unbuilt => unbuilt'
  BY DEF BuildEmbedder, NextIs
<1>2. ASSUME PutForm(u, done), UNCHANGED ledger
      PROVE  /\ Ours(u, admin'[u]) /\ Alike(admin'[u], c) /\ admin'[u].pc = "apply"
             /\ admin'[u].todo = IF c.pc = "embed" THEN c.todo ELSE c.todo \ {"embedder"}
             /\ \A v \in Admins \ {u} : admin'[v] = admin[v]
  <2>1. CASE c.pc = "embed"
    BY <1>2, <2>1, MovedForm DEF Ours
  <2>2. CASE c.pc # "embed"
    BY <1>1, <1>2, <2>2, OnwardDoes DEF Ours
  <2>3. QED
    BY <2>1, <2>2
<1> HIDE DEF done
<1>3. EmbCore \subseteq Fields /\ Core \subseteq Fields /\ "embKey" \in EmbCore /\ Core \cap EmbCore = {}
  BY DEF EmbCore, Core, Fields
<1>4. CASE /\ c.pc # "embed" /\ c.kind = "update" /\ (DOMAIN c.set \cap EmbCore = {} \/ c.changed = {})
           /\ PutForm(u, done) /\ UNCHANGED <<embedder, ledger, unbuilt>>
  <2>1. IsForm(c) /\ c.pc # "idle"
    BY <1>1 DEF SettingsTypeOK
  <2>2. c.changed \cap EmbCore = {}
    BY <1>4, <2>1 DEF IsForm
  <2>3. ASSUME BuiltFrom(u, c) PROVE BuiltFrom(u, admin[u])'
    <3>1. \A f \in Core : owner'[f] = u /\ "chat" \notin admin'[u].todo => chat'[f] = cfg'[f]
      BY <1>1, <1>2, <1>4, <2>3 DEF BuiltFrom, ledger
    <3>2. \A f \in EmbCore : owner'[f] = u => embedder'[f] = cfg'[f]
      BY <1>1, <1>4, <2>2, <2>3 DEF BuiltFrom, ledger
    <3>3. QED
      BY <1>2, <1>4, <3>1, <3>2 DEF BuiltFrom
  <2>4. \A v \in Admins \ {u} : SameButAlone(v)
    BY <1>2, <1>4 DEF SameButAlone
  <2>5. QED
    BY <1>1, <1>4, <2>3, <2>4, MoveKeepsBuilt DEF ledger
<1>5. CASE embedder' = Part(cfg, EmbCore) /\ PutForm(u, done) /\ UNCHANGED <<ledger, unbuilt>>
  <2>1. \A f \in EmbCore : embedder'[f] = cfg'[f]
    BY <1>1, <1>5 DEF Part
  <2> SUFFICES ASSUME ~overlapped PROVE BuiltInv'
    BY <1>1 DEF BuiltInv
  <2>2. \A v, w \in Admins : admin'[v].pc # "idle" /\ admin'[w].pc # "idle" => v = w
    BY <1>1, <1>2, <1>5 DEF BuiltInv
  <2>3. UNCHANGED <<owner, kept>>
    BY <1>5 DEF ledger
  <2>4. ASSUME ~unbuilt, NEW v \in Admins PROVE BuiltFrom(v, admin[v])'
    <3>1. BuiltFrom(v, admin[v])
      BY <2>4 DEF BuiltInv
    <3>2. "chat" \in admin'[v].todo <=> "chat" \in admin[v].todo
      BY <1>2, <1>5
    <3>3. admin'[v].pc = "swap" => admin'[v] = admin[v]
      BY <1>2, <1>5
    <3>4. QED
      BY <1>1, <2>1, <2>3, <3>1, <3>2, <3>3 DEF BuiltFrom
  <2>5. ~unbuilt => \A f \in Core : owner[f] \in Acknowledged => chat[f] = cfg[f]
    BY DEF BuiltInv
  <2>6. QED
    BY <1>1, <1>5, <2>1, <2>2, <2>3, <2>4, <2>5 DEF BuiltInv
<1>6. CASE unbuilt' = TRUE /\ UNCHANGED embedder
  <2>1. CASE PutForm(u, done) /\ UNCHANGED ledger
    <3>1. \A v, w \in Admins : ~overlapped /\ admin'[v].pc # "idle" /\ admin'[w].pc # "idle" => v = w
      BY <1>1, <1>2, <2>1 DEF BuiltInv
    <3>2. QED
      BY <1>1, <1>6, <3>1 DEF BuiltInv
  <2>2. CASE Reply(u, "lost")
    BY <1>1, <1>6, <2>2, ReplyKeepsBuilt DEF Outcomes, Acknowledged
  <2>3. QED
    BY <1>6, <2>1, <2>2 DEF BuildEmbedder, Moved, done
<1>7. QED
  BY <1>4, <1>5, <1>6 DEF BuildEmbedder, Moved, done

LEMMA BuildKeepsBuilt ==
  ASSUME SettingsTypeOK, OwnsInv, BuiltInv, NEW u \in Admins, Build(u)
  PROVE  BuiltInv'
<1> DEFINE c == admin[u]
<1>1. /\ UNCHANGED <<cfg, chat, embedder, overlapped>> /\ NextIs(u, "chat") /\ c.pc = "apply"
      /\ unbuilt => unbuilt'
  BY DEF Build, NextIs, models
<1>2. Core \subseteq Fields /\ Core \cap {"embUrl", "embKey"} = {}
  BY DEF Core, Fields
<1>3. CASE c.kind = "update" /\ c.changed \cap Core = {} /\ PutForm(u, Onward(c, "chat")) /\ UNCHANGED <<ledger, unbuilt>>
  <2>1. LET d == admin'[u] IN
         /\ Ours(u, d) /\ Alike(d, c)
         /\ d.pc = "apply" /\ d.todo = c.todo \ {"chat"} /\ d.got = c.got
    BY <1>1, <1>3, OnwardDoes
  <2>2. \A f \in Core : owner[f] # u
    BY <1>2, <1>3 DEF OwnsInv, Owns
  <2>3. BuiltFrom(u, admin[u]) => BuiltFrom(u, admin[u])'
    BY <1>1, <1>3, <2>1, <2>2 DEF BuiltFrom, Alike, ledger
  <2>4. \A v \in Admins \ {u} : SameButAlone(v)
    BY <2>1 DEF SameButAlone, Ours
  <2>5. QED
    BY <1>1, <1>3, <2>3, <2>4, MoveKeepsBuilt DEF ledger
<1>4. CASE PutForm(u, [c EXCEPT !.pc = "swap", !.data = cfg]) /\ UNCHANGED <<ledger, unbuilt>>
  <2>1. LET d == admin'[u] IN
         /\ Ours(u, d) /\ Alike(d, c)
         /\ d.pc = "swap" /\ d.todo = c.todo /\ d.got = c.got /\ d.data = cfg
    BY <1>1, <1>4, BuildForm
  <2>2. BuiltFrom(u, admin[u]) => BuiltFrom(u, admin[u])'
    BY <1>1, <1>4, <2>1 DEF BuiltFrom, Alike, ledger
  <2>3. \A v \in Admins \ {u} : SameButAlone(v)
    BY <2>1 DEF SameButAlone, Ours
  <2>4. QED
    BY <1>1, <1>4, <2>2, <2>3, MoveKeepsBuilt DEF ledger
<1>5. CASE unbuilt' = TRUE /\ PutForm(u, Onward(c, "chat")) /\ UNCHANGED ledger
  <2>1. \A v \in Admins \ {u} : admin'[v] = admin[v]
    BY <1>5, PutDoes
  <2>2. \A v, w \in Admins : ~overlapped /\ admin'[v].pc # "idle" /\ admin'[w].pc # "idle" => v = w
    BY <1>1, <2>1 DEF BuiltInv
  <2>3. QED
    BY <1>1, <1>5, <2>2 DEF BuiltInv
<1>6. CASE Reply(u, "lost")
  BY <1>1, <1>6, ReplyKeepsBuilt DEF Outcomes, Acknowledged
<1>7. QED
  BY <1>3, <1>4, <1>5, <1>6 DEF Build

LEMMA SwapKeepsBuilt ==
  ASSUME SettingsTypeOK, BuiltInv, NEW u \in Admins, SetChatModel(u)
  PROVE  BuiltInv'
<1>1. /\ Ours(u, admin'[u]) /\ Alike(admin'[u], admin[u])
      /\ admin'[u].pc = "apply" /\ admin'[u].todo = admin[u].todo \ {"chat"}
  BY SwapDoes
<1>2. /\ admin[u].pc = "swap" /\ UNCHANGED <<cfg, owner, embedder, overlapped, unbuilt>>
      /\ \A f \in Core : chat'[f] = admin[u].data[f]
  BY DEF SetChatModel, ledger, flags, Part
<1> SUFFICES ASSUME ~overlapped PROVE BuiltInv'
  BY <1>2 DEF BuiltInv
<1>3. \A v, w \in Admins : admin'[v].pc # "idle" /\ admin'[w].pc # "idle" => v = w
  BY <1>1, <1>2 DEF BuiltInv, Ours
<1>4. ~unbuilt => \A f \in Core : chat'[f] = cfg'[f]
  BY <1>2 DEF BuiltInv, BuiltFrom
<1>5. ASSUME ~unbuilt, NEW v \in Admins PROVE BuiltFrom(v, admin[v])'
  <2>1. BuiltFrom(v, admin[v])
    BY <1>5 DEF BuiltInv
  <2>2. CASE v = u
    BY <1>1, <1>2, <1>4, <1>5, <2>1, <2>2 DEF BuiltFrom, Alike
  <2>3. CASE v # u
    BY <1>1, <1>2, <1>4, <1>5, <2>1, <2>3 DEF BuiltFrom, Ours
  <2>4. QED
    BY <2>2, <2>3
<1>6. QED
  BY <1>2, <1>3, <1>4, <1>5 DEF BuiltInv

LEMMA SavingKeepsBuilt ==
  ASSUME SettingsTypeOK, BuiltInv, NEW u \in Admins, Marshal(u) \/ Truncate(u) \/ Write(u)
  PROVE  BuiltInv'
<1>1. /\ UNCHANGED <<cfg, chat, embedder, overlapped, unbuilt>>
      /\ admin[u].pc \in {"apply", "truncate", "write"} /\ admin[u].todo = {}
  BY DEF Marshal, Truncate, Write, models, flags, SettingsTypeOK, IsForm
<1>2. CASE \E result \in Outcomes : Reply(u, result)
  BY <1>1, <1>2, ReplyKeepsBuilt
<1>3. CASE /\ UNCHANGED ledger /\ \A v \in Admins \ {u} : SameButAlone(v)
           /\ admin'[u].pc \notin {"embed", "swap"}
           /\ admin'[u].todo = admin[u].todo /\ admin'[u].changed = admin[u].changed
  <2>1. BuiltFrom(u, admin[u]) => BuiltFrom(u, admin[u])'
    BY <1>1, <1>3 DEF BuiltFrom, ledger
  <2>2. QED
    BY <1>1, <1>3, <2>1, MoveKeepsBuilt DEF ledger
<1>4. CASE Marshal(u)
  <2>1. CASE admin[u].changed = {} /\ admin[u].kind = "update"
    BY <1>2, <1>4, <2>1 DEF Marshal, Outcomes, Acknowledged
  <2>2. CASE ~(admin[u].changed = {} /\ admin[u].kind = "update")
    <3>1. UNCHANGED ledger
      BY <1>4, <2>2 DEF Marshal
    <3>2. LET c == admin[u]  d == admin'[u] IN
              /\ d.pc = "truncate" /\ d.todo = c.todo /\ d.changed = c.changed
      BY <1>4, <2>2, MarshalDoes
    <3>3. \A v \in Admins \ {u} : SameButAlone(v)
      BY <1>4, <2>2, MarshalDoes DEF SameButAlone
    <3>4. QED
      BY <1>3, <3>1, <3>2, <3>3
  <2>3. QED
    BY <2>1, <2>2
<1>5. CASE \E pc \in {"write", "close"} :
             /\ UNCHANGED ledger /\ PutForm(u, Moved(admin[u], pc))
             /\ pc = "write" => admin[u].pc = "truncate"
             /\ pc = "close" => admin[u].pc = "write" /\ admin[u].kind = "import"
  <2>1. PICK pc \in {"write", "close"} :
             /\ UNCHANGED ledger /\ PutForm(u, Moved(admin[u], pc))
             /\ pc = "write" => admin[u].pc = "truncate"
             /\ pc = "close" => admin[u].pc = "write" /\ admin[u].kind = "import"
    BY <1>5
  <2>2. LET c == admin[u]  d == admin'[u] IN
         Ours(u, d) /\ Alike(d, c) /\ d.pc = pc /\ d.todo = c.todo /\ d.got = c.got
    BY <2>1, MovedForm
  <2>3. QED
    BY <1>3, <2>1, <2>2 DEF Ours, Alike, SameButAlone
<1>6. CASE Truncate(u)
  BY <1>2, <1>5, <1>6 DEF Truncate, Unsaved, Moved, Outcomes, Acknowledged
<1>7. CASE Write(u)
  BY <1>2, <1>5, <1>7 DEF Write, Unsaved, Moved, Outcomes, Acknowledged
<1>8. QED
  BY <1>4, <1>6, <1>7

LEMMA ReloadKeepsBuilt ==
  ASSUME SettingsTypeOK, BuiltInv, NEW u \in Admins,
         \/ CloseConnections(u)
         \/ \E s \in admin[u].reach : ConnectServer(u, s)
         \/ SetManager(u)
         \/ SetMCPTools(u)
  PROVE  BuiltInv'
<1>1. /\ UNCHANGED <<cfg, chat, embedder, overlapped, unbuilt>>
      /\ admin[u].pc \in {"close", "connect", "tools"} /\ admin[u].todo = {}
  BY DEF CloseConnections, BeginReload, ConnectServer, SetManager, SetMCPTools, models, flags, SettingsTypeOK, IsForm
<1>2. CASE SetMCPTools(u)
  BY <1>1, <1>2, ReplyKeepsBuilt DEF SetMCPTools, Outcomes, Acknowledged
<1>3. ASSUME UNCHANGED ledger, Ours(u, admin'[u]), Alike(admin'[u], admin[u]),
             admin'[u].pc \in {"connect", "tools"}, admin'[u].todo = admin[u].todo
      PROVE  BuiltInv'
  <2>1. BuiltFrom(u, admin[u]) => BuiltFrom(u, admin[u])'
    BY <1>1, <1>3 DEF BuiltFrom, ledger, Alike
  <2>2. \A v \in Admins \ {u} : SameButAlone(v)
    BY <1>3 DEF Ours, SameButAlone
  <2>3. QED
    BY <1>1, <1>3, <2>1, <2>2, MoveKeepsBuilt DEF ledger
<1>4. CASE CloseConnections(u)
  BY <1>3, <1>4, CloseDoes DEF CloseConnections, BeginReload
<1>5. ASSUME NEW s \in admin[u].reach, ConnectServer(u, s) PROVE BuiltInv'
  BY <1>3, <1>5, ConnectDoes DEF ConnectServer
<1>6. CASE SetManager(u)
  BY <1>3, <1>6, ManagerDoes DEF SetManager
<1>7. QED
  BY <1>2, <1>4, <1>5, <1>6

LEMMA RestartKeepsBuilt ==
  ASSUME SettingsTypeOK, BuiltInv, Restart
  PROVE  BuiltInv'
<1>1. /\ chat' = Part(cfg', Core) /\ embedder' = Part(cfg', EmbCore)
      /\ \A u \in Admins : admin'[u] = NoForm
      /\ \A f \in Fields : owner'[f] \in {"kept", "lost"}
  BY DEF Restart
<1>2. (\A f \in Core : chat'[f] = cfg'[f]) /\ (\A f \in EmbCore : embedder'[f] = cfg'[f])
  BY <1>1 DEF Part
<1>3. \A u \in Admins : admin'[u].pc = "idle"
  BY <1>1 DEF NoForm
<1>4. Core \subseteq Fields /\ EmbCore \subseteq Fields
  BY DEF Core, EmbCore, Fields
<1>5. \A u \in Admins : BuiltFrom(u, admin[u])'
  BY <1>1, <1>2, <1>3, <1>4 DEF BuiltFrom
<1>6. QED
  BY <1>2, <1>3, <1>5 DEF BuiltInv

-----------------------------------------------------------------------------
LEMMA SteadyKeepsServed ==
  ASSUME ServedInv, UNCHANGED <<conns, manager, tools, missed, raced>>, cfg'["servers"] = cfg["servers"],
         \A v \in Admins : /\ admin'[v].pc = admin[v].pc \/ ~(Reloading(admin[v]) \/ Reloading(admin'[v]))
                           /\ Reloading(admin[v]) => /\ admin'[v].reach = admin[v].reach
                                                     /\ admin'[v].got = admin[v].got,
         owner'["servers"] = "kept" => owner["servers"] = "kept",
         \A v \in Admins : owner'["servers"] = v => owner["servers"] = v \/ ~Reloading(admin[v])
  PROVE  ServedInv'
<1>1. \A v \in Admins : Reloading(admin'[v]) <=> Reloading(admin[v])
  BY DEF Reloading
<1>2. \A v \in Admins : admin'[v].pc \in {"connect", "tools"} => admin'[v].pc = admin[v].pc
  BY DEF Reloading
<1> SUFFICES ASSUME ~raced PROVE ServedInv'
  BY DEF ServedInv
<1>3. ASSUME \A v \in Admins : ~Reloading(admin'[v])
      PROVE  AtRest'
  BY <1>1, <1>3 DEF ServedInv, AtRest
<1>4. ASSUME NEW v \in Admins, admin'[v].pc = "connect"
      PROVE  conns' = {} /\ admin'[v].reach \cup admin'[v].got \subseteq cfg'["servers"]
  BY <1>2, <1>4 DEF ServedInv, Reloading
<1>5. ASSUME NEW v \in Admins, admin'[v].pc = "tools"
      PROVE  /\ admin'[v].reach = conns' /\ \A k \in conns' : k[1] = manager'
             /\ owner'["servers"] \in {v, "kept"} => Served(conns') = cfg'["servers"] \ missed'
  BY <1>2, <1>5 DEF ServedInv, Reloading
<1>6. \A v, w \in Admins : Reloading(admin'[v]) /\ Reloading(admin'[w]) => v = w
  BY <1>1 DEF ServedInv
<1>7. QED
  BY <1>3, <1>4, <1>5, <1>6 DEF ServedInv

\* A step of a request that does not reload.
LEMMA OtherKeepsServed ==
  ASSUME ServedInv, NEW u \in Admins, UNCHANGED <<cfg, mcp, raced, owner>>,
         \A v \in Admins \ {u} : SameButAlone(v),
         ~Reloading(admin[u]), ~Reloading(admin'[u])
  PROVE  ServedInv'
<1>1. \A v \in Admins \ {u} : admin'[v].pc = admin[v].pc /\ admin'[v].reach = admin[v].reach /\ admin'[v].got = admin[v].got
  BY DEF SameButAlone
<1>2. QED
  BY <1>1, SteadyKeepsServed DEF mcp

LEMMA ReplyKeepsServed ==
  ASSUME SettingsTypeOK, ServedInv, NEW u \in Admins, NEW result \in Outcomes,
         Reply(u, result), UNCHANGED <<cfg, mcp, raced>>, ~Reloading(admin[u]),
         result = "kept" => owner["servers"] # u
  PROVE  ServedInv'
<1>1. /\ admin'[u] = NoForm
      /\ \A v \in Admins \ {u} : admin'[v] = admin[v]
      /\ \A f \in Fields : owner'[f] = IF owner[f] = u THEN result ELSE owner[f]
  BY ReplyDoes
<1>2. ~Reloading(admin'[u]) /\ "servers" \in Fields
  BY <1>1 DEF Reloading, NoForm, Fields
<1>3. owner'["servers"] = "kept" => owner["servers"] = "kept"
  BY <1>1, <1>2
<1>4. \A v \in Admins : owner'["servers"] = v => owner["servers"] = v
  BY <1>1, <1>2, SettingsAssumption DEF SettingsAssumption, Outcomes, Acknowledged
<1>5. QED
  BY <1>1, <1>2, <1>3, <1>4, SteadyKeepsServed DEF mcp

LEMMA AssignKeepsServed ==
  ASSUME SettingsTypeOK, ServedInv, NEW u \in Admins, NEW f \in Fields, NEW value, NextIs(u, f),
         Assign(u, f, value), UNCHANGED <<mcp, raced>>
  PROVE  ServedInv'
<1>1. PICK written \in SUBSET Fields :
              /\ f \in written
              /\ written \subseteq {f} \cup (IF f = "llmKey" /\ admin[u].kind = "update" THEN {"embUrl", "embKey"} ELSE {})
              /\ \A g \in Fields : owner'[g] = IF g \in written THEN u ELSE owner[g]
              /\ \A g \in Fields \ written : cfg'[g] = cfg[g]
  BY AssignDoes
<1>2. /\ \A v \in Admins \ {u} : admin'[v] = admin[v]
      /\ admin[u].pc = "apply" /\ admin'[u].pc \in {"apply", "embed"}
      /\ cfg["servers"] \subseteq cfg'["servers"]
  BY AssignDoes DEF NextIs
<1>3. ~Reloading(admin[u]) /\ ~Reloading(admin'[u]) /\ "servers" \in Fields
  BY <1>2 DEF Reloading, Fields
<1>4. CASE f # "servers"
  <2>1. "servers" \notin written
    BY <1>1, <1>4
  <2>2. owner'["servers"] = owner["servers"] /\ cfg'["servers"] = cfg["servers"]
    BY <1>1, <1>3, <2>1
  <2>3. QED
    BY <1>2, <1>3, <2>2, SteadyKeepsServed DEF mcp
<1>5. CASE f = "servers"
  <2>1. owner'["servers"] = u /\ u # "kept"
    BY <1>1, <1>5, SettingsAssumption DEF SettingsAssumption, Outcomes, Acknowledged
  <2>2. \A v \in Admins : Reloading(admin'[v]) => v # u /\ admin'[v] = admin[v]
    BY <1>2, <1>3
  <2>3. \A v \in Admins : Reloading(admin'[v]) <=> Reloading(admin[v])
    BY <1>2, <1>3
  <2> SUFFICES ASSUME ~raced PROVE ServedInv'
    BY DEF ServedInv
  <2>4. ASSUME \A v \in Admins : ~Reloading(admin'[v])
        PROVE  AtRest'
    BY <2>1, <2>3, <2>4 DEF ServedInv, AtRest, mcp
  <2>5. ASSUME NEW v \in Admins, admin'[v].pc = "connect"
        PROVE  conns' = {} /\ admin'[v].reach \cup admin'[v].got \subseteq cfg'["servers"]
    BY <1>2, <2>2, <2>5 DEF ServedInv, Reloading, mcp
  <2>6. ASSUME NEW v \in Admins, admin'[v].pc = "tools"
        PROVE  v # u /\ admin'[v].reach = conns' /\ \A k \in conns' : k[1] = manager'
    BY <2>2, <2>6 DEF ServedInv, Reloading, mcp
  <2>7. \A v, w \in Admins : Reloading(admin'[v]) /\ Reloading(admin'[w]) => v = w
    BY <2>3 DEF ServedInv
  <2>8. QED
    BY <2>1, <2>4, <2>5, <2>6, <2>7 DEF ServedInv
<1>6. QED
  BY <1>4, <1>5

LEMMA ApplyKeepsServed ==
  ASSUME SettingsTypeOK, ServedInv, NEW u \in Admins, Apply(u)
  PROVE  ServedInv'
<1>1. PICK f \in Fields : NextIs(u, f) /\ ApplyField(u, f)
  BY DEF Apply
<1>2. UNCHANGED <<mcp, raced>> /\ admin[u].pc = "apply" /\ ~Reloading(admin[u])
  BY <1>1 DEF Apply, NextIs, flags, Reloading
<1>3. CASE PutForm(u, Onward(admin[u], f)) /\ UNCHANGED <<cfg, ledger>>
  <2>1. Ours(u, admin'[u]) /\ admin'[u].pc = "apply"
    BY <1>1, <1>3, OnwardDoes
  <2>2. QED
    BY <1>2, <1>3, <2>1, OtherKeepsServed DEF Ours, SameButAlone, Reloading, ledger
<1>4. CASE Reply(u, "lost") /\ UNCHANGED cfg
  BY <1>2, <1>4, ReplyKeepsServed DEF Outcomes, Acknowledged
<1>5. CASE Assign(u, f, admin[u].set[f])
  BY <1>1, <1>2, <1>5, AssignKeepsServed
<1>6. QED
  BY <1>1, <1>3, <1>4, <1>5 DEF ApplyField

LEMMA BuildingKeepsServed ==
  ASSUME SettingsTypeOK, ServedInv, NEW u \in Admins, BuildEmbedder(u) \/ Build(u) \/ SetChatModel(u)
  PROVE  ServedInv'
<1>1. UNCHANGED <<cfg, mcp, raced>> /\ admin[u].pc \in {"embed", "apply", "swap"} /\ ~Reloading(admin[u])
  BY DEF BuildEmbedder, Build, SetChatModel, NextIs, flags, Reloading
<1>2. CASE Reply(u, "lost")
  BY <1>1, <1>2, ReplyKeepsServed DEF Outcomes, Acknowledged
<1>3. ASSUME UNCHANGED ledger, Ours(u, admin'[u]), admin'[u].pc \in {"apply", "swap"}
      PROVE  ServedInv'
  BY <1>1, <1>3, OtherKeepsServed DEF Ours, SameButAlone, Reloading, ledger
<1>4. CASE BuildEmbedder(u)
  <2>1. CASE admin[u].pc = "embed" /\ PutForm(u, Moved(admin[u], "apply")) /\ UNCHANGED ledger
    BY <1>3, <2>1, MovedForm
  <2>2. CASE admin[u].pc # "embed" /\ PutForm(u, Onward(admin[u], "embedder")) /\ UNCHANGED ledger
    <3>1. NextIs(u, "embedder")
      BY <1>4, <2>2 DEF BuildEmbedder
    <3>2. QED
      BY <1>3, <2>2, <3>1, OnwardDoes
  <2>3. QED
    BY <1>2, <1>4, <2>1, <2>2 DEF BuildEmbedder, Moved
<1>5. CASE Build(u)
  <2>1. NextIs(u, "chat")
    BY <1>5 DEF Build
  <2>2. CASE PutForm(u, Onward(admin[u], "chat")) /\ UNCHANGED ledger
    BY <1>3, <2>1, <2>2, OnwardDoes
  <2>3. CASE PutForm(u, [admin[u] EXCEPT !.pc = "swap", !.data = cfg]) /\ UNCHANGED ledger
    BY <1>3, <2>1, <2>3, BuildForm
  <2>4. QED
    BY <1>2, <1>5, <2>2, <2>3 DEF Build
<1>6. CASE SetChatModel(u)
  BY <1>3, <1>6, SwapDoes DEF SetChatModel
<1>7. QED
  BY <1>4, <1>5, <1>6

LEMMA SavingKeepsServed ==
  ASSUME SettingsTypeOK, OwnsInv, ServedInv, NEW u \in Admins, Marshal(u) \/ Truncate(u) \/ Write(u)
  PROVE  ServedInv'
<1>1. /\ UNCHANGED <<cfg, mcp, raced>> /\ ~Reloading(admin[u])
      /\ admin[u].pc # "idle"
  BY DEF Marshal, Truncate, Write, flags, Reloading
<1>2. admin[u].kind # "import" => owner["servers"] # u
  <2>1. IsForm(admin[u]) /\ "servers" \in Fields
    BY DEF SettingsTypeOK, Fields
  <2>2. "servers" \in admin[u].changed => admin[u].kind = "import"
    BY <1>1, <2>1 DEF IsForm, Kinds, Steps
  <2>3. QED
    BY <2>1, <2>2 DEF OwnsInv, Owns
<1>3. CASE \E result \in {"lost", "unsaved"} : Reply(u, result)
  BY <1>1, <1>3, ReplyKeepsServed DEF Outcomes, Acknowledged
<1>4. CASE Reply(u, "kept") /\ admin[u].kind # "import"
  BY <1>1, <1>2, <1>4, ReplyKeepsServed DEF Outcomes, Acknowledged
<1>5. ASSUME UNCHANGED ledger, \A v \in Admins \ {u} : SameButAlone(v),
             admin'[u].pc \in {"truncate", "write", "close"}
      PROVE  ServedInv'
  BY <1>1, <1>5, OtherKeepsServed DEF Reloading, ledger
<1>6. CASE Marshal(u)
  <2>1. CASE admin[u].changed = {} /\ admin[u].kind = "update"
    BY <1>4, <1>6, <2>1 DEF Marshal
  <2>2. CASE ~(admin[u].changed = {} /\ admin[u].kind = "update")
    <3>1. UNCHANGED ledger
      BY <1>6, <2>2 DEF Marshal
    <3>2. admin'[u].pc = "truncate" /\ \A v \in Admins \ {u} : SameButAlone(v)
      BY <1>6, <2>2, MarshalDoes DEF SameButAlone
    <3>3. QED
      BY <1>5, <3>1, <3>2
  <2>3. QED
    BY <2>1, <2>2
<1>7. CASE Truncate(u)
  <2>1. CASE PutForm(u, Moved(admin[u], "write")) /\ UNCHANGED ledger
    <3>1. Ours(u, admin'[u]) /\ admin'[u].pc = "write"
      BY <1>7, <2>1, MovedForm DEF Truncate
    <3>2. QED
      BY <1>5, <2>1, <3>1 DEF Ours, SameButAlone
  <2>2. QED
    BY <1>3, <1>7, <2>1 DEF Truncate, Unsaved, Moved
<1>8. CASE Write(u)
  <2>1. CASE PutForm(u, Moved(admin[u], "close")) /\ UNCHANGED ledger /\ admin[u].kind = "import"
    <3>1. Ours(u, admin'[u]) /\ admin'[u].pc = "close"
      BY <1>8, <2>1, MovedForm DEF Write
    <3>2. QED
      BY <1>5, <2>1, <3>1 DEF Ours, SameButAlone
  <2>2. QED
    BY <1>3, <1>4, <1>8, <2>1 DEF Write, Unsaved, Moved
<1>9. QED
  BY <1>6, <1>7, <1>8

LEMMA BeginKeepsServed ==
  ASSUME SettingsTypeOK, ServedInv, NEW u \in Admins, NEW form \in Forms, BeginForm(u, form)
  PROVE  ServedInv'
<1>1. Ours(u, admin'[u]) /\ admin'[u].pc = "apply"
  BY BeginDoes
<1>2. admin[u].pc = "idle" /\ UNCHANGED <<cfg, mcp, raced, owner>>
  BY DEF BeginForm, ledger
<1>3. QED
  BY <1>1, <1>2, OtherKeepsServed DEF Ours, SameButAlone, Reloading

\* A reload that is alone closes all there is: every connection is the current manager's.
LEMMA CloseKeepsServed ==
  ASSUME SettingsTypeOK, ServedInv, NEW u \in Admins, CloseConnections(u)
  PROVE  ServedInv'
<1> SUFFICES ASSUME ~raced' PROVE ServedInv'
  BY DEF ServedInv
<1>1. LET d == admin'[u] IN Ours(u, d) /\ d.pc = "connect" /\ d.reach = cfg.servers /\ d.got = {}
  BY CloseDoes DEF CloseConnections
<1>2. /\ UNCHANGED cfg /\ ~raced
      /\ \A v \in Admins : ~Reloading(admin[v])
      /\ conns' = {k \in conns : k[1] # manager}
  BY DEF CloseConnections, BeginReload, Reloading
<1>3. conns' = {}
  BY <1>2 DEF ServedInv, AtRest
<1>4. \A v \in Admins : Reloading(admin'[v]) => v = u
  BY <1>1, <1>2 DEF Ours
<1>5. Reloading(admin'[u]) /\ admin'[u].pc # "tools"
  BY <1>1 DEF Reloading
<1>6. \A v \in Admins : admin'[v].pc \in {"connect", "tools"} => v = u
  BY <1>4 DEF Reloading
<1>7. QED
  BY <1>1, <1>2, <1>3, <1>4, <1>5, <1>6 DEF ServedInv

LEMMA ConnectKeepsServed ==
  ASSUME SettingsTypeOK, ServedInv, NEW u \in Admins, NEW s, ConnectServer(u, s)
  PROVE  ServedInv'
<1> SUFFICES ASSUME ~raced' PROVE ServedInv'
  BY DEF ServedInv
<1>1. LET c == admin[u]  d == admin'[u] IN
      Ours(u, d) /\ d.pc = "connect" /\ d.reach \cup d.got \subseteq c.reach \cup c.got
  BY ConnectDoes
<1>2. UNCHANGED <<cfg, conns>> /\ ~raced /\ admin[u].pc = "connect" /\ Reloading(admin[u])
  BY DEF ConnectServer, mcp, flags, Reloading
<1>3. \A v \in Admins : Reloading(admin'[v]) => v = u
  BY <1>1, <1>2 DEF ServedInv, Ours
<1>4. \A v \in Admins : admin'[v].pc \in {"connect", "tools"} => v = u
  BY <1>3 DEF Reloading
<1>5. Reloading(admin'[u]) /\ admin'[u].pc # "tools"
  BY <1>1 DEF Reloading
<1>6. conns' = {} /\ admin'[u].reach \cup admin'[u].got \subseteq cfg'["servers"]
  BY <1>1, <1>2 DEF ServedInv
<1>7. QED
  BY <1>3, <1>4, <1>5, <1>6 DEF ServedInv

LEMMA ManagerKeepsServed ==
  ASSUME SettingsTypeOK, ServedInv, NEW u \in Admins, SetManager(u)
  PROVE  ServedInv'
<1> SUFFICES ASSUME ~raced' PROVE ServedInv'
  BY DEF ServedInv
<1> DEFINE got == admin[u].got
<1>1. LET d == admin'[u] IN
      Ours(u, d) /\ admin[u].pc = "connect" /\ d.pc = "tools" /\ d.reach = Connect(NewId, got)
  BY ManagerDoes
<1>2. /\ UNCHANGED cfg /\ ~raced /\ manager' = NewId /\ conns' = conns \cup Connect(NewId, got)
      /\ missed' = cfg["servers"] \ got
  <2>1. UNCHANGED cfg /\ ~raced
    BY DEF SetManager, flags
  <2>2. manager' = NewId /\ conns' = conns \cup Connect(NewId, got) /\ missed' = cfg.servers \ got
    BY DEF SetManager
  <2>3. QED
    BY <2>1, <2>2
<1>3. Reloading(admin[u]) /\ Reloading(admin'[u])
  BY <1>1 DEF Reloading
<1>4. \A v \in Admins : Reloading(admin'[v]) => v = u
  BY <1>1, <1>2, <1>3 DEF ServedInv, Ours
<1>5. \A v \in Admins : admin'[v].pc \in {"connect", "tools"} => v = u
  BY <1>4 DEF Reloading
<1>6. conns = {} /\ got \subseteq cfg["servers"]
  BY <1>1, <1>2 DEF ServedInv
<1>7. conns' = Connect(NewId, got) /\ admin'[u].reach = conns'
  BY <1>1, <1>2, <1>6
<1>8. Served(conns') = got /\ \A k \in conns' : k[1] = manager'
  <2> HIDE DEF got
  <2>1. Served(Connect(NewId, got)) = got /\ \A k \in Connect(NewId, got) : k[1] = NewId
    BY ServedConnect
  <2>2. QED
    BY <1>2, <1>7, <2>1
<1>9. Served(conns') = cfg'["servers"] \ missed'
  BY <1>2, <1>6, <1>8
<1>10. admin'[u].pc # "connect"
  BY <1>1
<1>11. QED
  BY <1>3, <1>4, <1>5, <1>7, <1>8, <1>9, <1>10 DEF ServedInv

LEMMA ToolsKeepsServed ==
  ASSUME SettingsTypeOK, ServedInv, NEW u \in Admins, SetMCPTools(u)
  PROVE  ServedInv'
<1> SUFFICES ASSUME ~raced' PROVE ServedInv'
  BY DEF ServedInv
<1>1. /\ admin'[u] = NoForm
      /\ \A v \in Admins \ {u} : admin'[v] = admin[v]
      /\ \A f \in Fields : owner'[f] = "kept" => owner[f] \in {u, "kept"}
  BY ReplyDoes DEF SetMCPTools, Outcomes, Acknowledged
<1>2. /\ UNCHANGED <<cfg, manager, missed>> /\ ~raced /\ admin[u].pc = "tools"
      /\ tools' = admin[u].reach /\ "servers" \in Fields
      /\ conns' = {k \in conns : ~(k \in admin[u].reach /\ k[2] \in Streaming)}
  BY DEF SetMCPTools, flags, Fields
<1>3. Reloading(admin[u]) /\ ~Reloading(admin'[u])
  BY <1>1, <1>2 DEF Reloading, NoForm
<1>4. \A v \in Admins : ~Reloading(admin'[v])
  BY <1>1, <1>2, <1>3 DEF ServedInv
<1>5. \A v \in Admins : admin'[v].pc \notin {"connect", "tools"}
  BY <1>4 DEF Reloading
<1>6. tools' = conns /\ \A k \in conns : k[1] = manager
  BY <1>2 DEF ServedInv
<1>7. conns' \subseteq tools' /\ \A k \in tools' \ conns' : k[2] \in Streaming
  BY <1>2, <1>6
<1>8. owner'["servers"] = "kept" => Served(tools') = cfg'["servers"] \ missed'
  BY <1>1, <1>2, <1>6 DEF ServedInv
<1>9. AtRest'
  BY <1>2, <1>6, <1>7, <1>8 DEF AtRest
<1>10. QED
  BY <1>4, <1>5, <1>9 DEF ServedInv

LEMMA RestartKeepsServed ==
  ASSUME Restart
  PROVE  ServedInv'
<1>1. PICK got \in SUBSET Load(file).servers :
        /\ manager' = 0 /\ conns' = Connect(0, got) /\ tools' = conns'
        /\ missed' = Load(file).servers \ got
  BY DEF Restart
<1>2. cfg' = Load(file) /\ \A u \in Admins : admin'[u] = NoForm
  BY DEF Restart
<1>3. \A u \in Admins : ~Reloading(admin'[u]) /\ admin'[u].pc = "idle"
  BY <1>2 DEF Reloading, NoForm
<1>4. Served(tools') = got /\ \A k \in tools' : k[1] = manager'
  BY <1>1, ServedConnect
<1>5. got = cfg'["servers"] \ missed'
  BY <1>1, <1>2
<1>6. AtRest'
  BY <1>1, <1>4, <1>5 DEF AtRest
<1>7. QED
  BY <1>3, <1>6 DEF ServedInv

-----------------------------------------------------------------------------
LEMMA BeginKeepsSaved ==
  ASSUME SettingsTypeOK, SavedInv, NEW u \in Admins, NEW form \in Forms, BeginForm(u, form)
  PROVE  SavedInv'
<1>1. Ours(u, admin'[u]) /\ admin'[u].pc = "apply" /\ admin[u].pc = "idle"
  BY BeginDoes DEF BeginForm
<1>2. UNCHANGED <<cfg, file, owner, kept, crossed>>
  BY DEF BeginForm, ledger
<1>3. QED
  BY <1>1, <1>2, MoveKeepsSaved DEF Ours, Saving, Saved

LEMMA OursKeepsSaved ==
  ASSUME SavedInv, NEW u \in Admins, UNCHANGED <<cfg, file, ledger, crossed>>, Ours(u, admin'[u]),
         \/ admin[u].pc \in {"apply", "embed", "swap"} /\ admin'[u].pc \in {"apply", "embed", "swap"}
         \/ Saved(admin[u]) /\ Saved(admin'[u])
  PROVE  SavedInv'
BY MoveKeepsSaved DEF Ours, Saving, Saved, ledger

LEMMA ApplyKeepsSaved ==
  ASSUME SettingsTypeOK, SavedInv, NEW u \in Admins, Apply(u)
  PROVE  SavedInv'
<1>1. PICK f \in Fields : NextIs(u, f) /\ ApplyField(u, f)
  BY DEF Apply
<1>2. UNCHANGED <<file, crossed>> /\ admin[u].pc = "apply"
  BY <1>1 DEF Apply, NextIs, flags
<1>3. CASE PutForm(u, Onward(admin[u], f)) /\ UNCHANGED <<cfg, ledger>>
  <2>1. Ours(u, admin'[u]) /\ admin'[u].pc = "apply"
    BY <1>1, <1>3, OnwardDoes
  <2>2. QED
    BY <1>2, <1>3, <2>1, OursKeepsSaved
<1>4. CASE Reply(u, "lost") /\ UNCHANGED cfg
  BY <1>2, <1>4, ReplyKeepsSaved DEF Outcomes, Acknowledged
<1>5. CASE Assign(u, f, admin[u].set[f]) /\ UNCHANGED kept
  BY <1>1, <1>2, <1>5, AssignKeepsSaved
<1>6. QED
  BY <1>1, <1>3, <1>4, <1>5 DEF ApplyField

LEMMA BuildingKeepsSaved ==
  ASSUME SettingsTypeOK, SavedInv, NEW u \in Admins, BuildEmbedder(u) \/ Build(u) \/ SetChatModel(u)
  PROVE  SavedInv'
<1>1. UNCHANGED <<cfg, file, crossed>> /\ admin[u].pc \in {"embed", "apply", "swap"}
  BY DEF BuildEmbedder, Build, SetChatModel, NextIs, flags
<1>2. CASE Reply(u, "lost")
  BY <1>1, <1>2, ReplyKeepsSaved DEF Outcomes, Acknowledged
<1>3. ASSUME UNCHANGED ledger, Ours(u, admin'[u]), admin'[u].pc \in {"apply", "swap"}
      PROVE  SavedInv'
  BY <1>1, <1>3, OursKeepsSaved
<1>4. CASE BuildEmbedder(u)
  <2>1. CASE admin[u].pc = "embed" /\ PutForm(u, Moved(admin[u], "apply")) /\ UNCHANGED ledger
    BY <1>3, <2>1, MovedForm
  <2>2. CASE admin[u].pc # "embed" /\ PutForm(u, Onward(admin[u], "embedder")) /\ UNCHANGED ledger
    <3>1. NextIs(u, "embedder")
      BY <1>4, <2>2 DEF BuildEmbedder
    <3>2. QED
      BY <1>3, <2>2, <3>1, OnwardDoes
  <2>3. QED
    BY <1>2, <1>4, <2>1, <2>2 DEF BuildEmbedder, Moved
<1>5. CASE Build(u)
  <2>1. NextIs(u, "chat")
    BY <1>5 DEF Build
  <2>2. CASE PutForm(u, Onward(admin[u], "chat")) /\ UNCHANGED ledger
    BY <1>3, <2>1, <2>2, OnwardDoes
  <2>3. CASE PutForm(u, [admin[u] EXCEPT !.pc = "swap", !.data = cfg]) /\ UNCHANGED ledger
    BY <1>3, <2>1, <2>3, BuildForm
  <2>4. QED
    BY <1>2, <1>5, <2>2, <2>3 DEF Build
<1>6. CASE SetChatModel(u)
  BY <1>3, <1>6, SwapDoes DEF SetChatModel
<1>7. QED
  BY <1>4, <1>5, <1>6

LEMMA ReloadKeepsSaved ==
  ASSUME SettingsTypeOK, SavedInv, NEW u \in Admins,
         \/ CloseConnections(u)
         \/ \E s \in admin[u].reach : ConnectServer(u, s)
         \/ SetManager(u)
         \/ SetMCPTools(u)
  PROVE  SavedInv'
<1>1. UNCHANGED <<cfg, file, crossed>> /\ Saved(admin[u])
  BY DEF CloseConnections, BeginReload, ConnectServer, SetManager, SetMCPTools, flags, Saved
<1>2. CASE SetMCPTools(u)
  BY <1>1, <1>2, ReplyKeepsSaved DEF SetMCPTools, Outcomes, Acknowledged
<1>3. ASSUME UNCHANGED ledger, Ours(u, admin'[u]), admin'[u].pc \in {"connect", "tools"}
      PROVE  SavedInv'
  BY <1>1, <1>3, OursKeepsSaved DEF Saved
<1>4. CASE CloseConnections(u)
  BY <1>3, <1>4, CloseDoes DEF CloseConnections, BeginReload
<1>5. ASSUME NEW s \in admin[u].reach, ConnectServer(u, s) PROVE SavedInv'
  BY <1>3, <1>5, ConnectDoes DEF ConnectServer
<1>6. CASE SetManager(u)
  BY <1>3, <1>6, ManagerDoes DEF SetManager
<1>7. QED
  BY <1>2, <1>4, <1>5, <1>6

LEMMA NothingUnsaved ==
  ASSUME SettingsTypeOK, OwnsInv, NEW u \in Admins, admin[u].changed = {} /\ admin[u].kind = "update"
  PROVE  \A f \in Fields : owner[f] # u
BY DEF OwnsInv, Owns

-----------------------------------------------------------------------------
LEMMA StillSettings == SettingsInv /\ UNCHANGED settingsVars => SettingsInv'
<1> SUFFICES ASSUME SettingsInv, UNCHANGED settingsVars PROVE SettingsInv'
  OBVIOUS
<1>1. /\ UNCHANGED <<cfg, file, chat, embedder, conns, manager, tools, missed, admin, owner, kept>>
      /\ UNCHANGED <<crossed, overlapped, raced, unbuilt>>
  BY DEF settingsVars, models, mcp, ledger, flags
<1>2. SettingsTypeOK' /\ OwnsInv'
  BY <1>1 DEF SettingsInv, SettingsTypeOK, OwnsInv, Owns
<1>3. SavedInv'
  BY <1>1 DEF SettingsInv, SavedInv, Stored, Replaced, Saving
<1>4. BuiltInv'
  BY <1>1 DEF SettingsInv, BuiltInv, BuiltFrom
<1>5. ServedInv'
  BY <1>1 DEF SettingsInv, ServedInv, AtRest
<1>6. QED
  BY <1>2, <1>3, <1>4, <1>5 DEF SettingsInv, OwnsInv

LEMMA NextSettings == SettingsInv /\ [SettingsNext]_settingsVars => SettingsInv'
<1> SUFFICES ASSUME SettingsInv, [SettingsNext]_settingsVars
             PROVE  SettingsTypeOK' /\ OwnsInv' /\ SavedInv' /\ BuiltInv' /\ ServedInv'
  BY DEF SettingsInv
<1>1. SettingsTypeOK /\ OwnsInv /\ SavedInv /\ BuiltInv /\ ServedInv
  BY DEF SettingsInv, OwnsInv
<1>2. ASSUME NEW u \in Admins, NEW form \in Forms, BeginForm(u, form)
      PROVE  SettingsTypeOK' /\ OwnsInv' /\ SavedInv' /\ BuiltInv' /\ ServedInv'
  BY <1>1, <1>2, BeginTyped, BeginKeepsSaved, BeginKeepsBuilt, BeginKeepsServed
<1>3. ASSUME NEW u \in Admins, Apply(u)
      PROVE  SettingsTypeOK' /\ OwnsInv' /\ SavedInv' /\ BuiltInv' /\ ServedInv'
  BY <1>1, <1>3, ApplyTyped, ApplyKeepsSaved, ApplyKeepsBuilt, ApplyKeepsServed
<1>4. ASSUME NEW u \in Admins, BuildEmbedder(u)
      PROVE  SettingsTypeOK' /\ OwnsInv' /\ SavedInv' /\ BuiltInv' /\ ServedInv'
  BY <1>1, <1>4, BuildEmbedderTyped, BuildingKeepsSaved, BuildEmbedderKeepsBuilt, BuildingKeepsServed
<1>5. ASSUME NEW u \in Admins, Build(u)
      PROVE  SettingsTypeOK' /\ OwnsInv' /\ SavedInv' /\ BuiltInv' /\ ServedInv'
  BY <1>1, <1>5, BuildTyped, BuildingKeepsSaved, BuildKeepsBuilt, BuildingKeepsServed
<1>6. ASSUME NEW u \in Admins, SetChatModel(u)
      PROVE  SettingsTypeOK' /\ OwnsInv' /\ SavedInv' /\ BuiltInv' /\ ServedInv'
  BY <1>1, <1>6, SwapTyped, BuildingKeepsSaved, SwapKeepsBuilt, BuildingKeepsServed
<1>7. ASSUME NEW u \in Admins, Marshal(u)
      PROVE  SettingsTypeOK' /\ OwnsInv' /\ SavedInv' /\ BuiltInv' /\ ServedInv'
  BY <1>1, <1>7, MarshalTyped, NothingUnsaved, MarshalKeepsSaved, SavingKeepsBuilt, SavingKeepsServed
<1>8. ASSUME NEW u \in Admins, Truncate(u)
      PROVE  SettingsTypeOK' /\ OwnsInv' /\ SavedInv' /\ BuiltInv' /\ ServedInv'
  BY <1>1, <1>8, TruncateTyped, TruncateKeepsSaved, SavingKeepsBuilt, SavingKeepsServed
<1>9. ASSUME NEW u \in Admins, Write(u)
      PROVE  SettingsTypeOK' /\ OwnsInv' /\ SavedInv' /\ BuiltInv' /\ ServedInv'
  BY <1>1, <1>9, WriteTyped, WriteKeepsSaved, SavingKeepsBuilt, SavingKeepsServed
<1>10. ASSUME NEW u \in Admins, CloseConnections(u)
       PROVE  SettingsTypeOK' /\ OwnsInv' /\ SavedInv' /\ BuiltInv' /\ ServedInv'
  BY <1>1, <1>10, ReloadTyped, ReloadKeepsSaved, ReloadKeepsBuilt, CloseKeepsServed
<1>11. ASSUME NEW u \in Admins, NEW s \in admin[u].reach, ConnectServer(u, s)
       PROVE  SettingsTypeOK' /\ OwnsInv' /\ SavedInv' /\ BuiltInv' /\ ServedInv'
  BY <1>1, <1>11, ReloadTyped, ReloadKeepsSaved, ReloadKeepsBuilt, ConnectKeepsServed
<1>12. ASSUME NEW u \in Admins, SetManager(u)
       PROVE  SettingsTypeOK' /\ OwnsInv' /\ SavedInv' /\ BuiltInv' /\ ServedInv'
  BY <1>1, <1>12, ReloadTyped, ReloadKeepsSaved, ReloadKeepsBuilt, ManagerKeepsServed
<1>13. ASSUME NEW u \in Admins, SetMCPTools(u)
       PROVE  SettingsTypeOK' /\ OwnsInv' /\ SavedInv' /\ BuiltInv' /\ ServedInv'
  BY <1>1, <1>13, ReloadTyped, ReloadKeepsSaved, ReloadKeepsBuilt, ToolsKeepsServed
<1>14. CASE Restart
  BY <1>1, <1>14, RestartTyped, RestartKeepsSaved, RestartKeepsBuilt, RestartKeepsServed
<1>15. CASE UNCHANGED settingsVars
  BY <1>15, StillSettings DEF SettingsInv, OwnsInv
<1>16. QED
  BY <1>2, <1>3, <1>4, <1>5, <1>6, <1>7, <1>8, <1>9, <1>10, <1>11, <1>12, <1>13, <1>14, <1>15
     DEF SettingsNext, SettingsOver

LEMMA AlwaysSettings == SettingsSpec => []SettingsInv
BY InitSettings, NextSettings, PTL DEF SettingsSpec

(* What was answered with success and not touched since is in the configuration, and the    *)
(* chat model and the embedder are built from it, unless requests have overlapped or a      *)
(* model could not be built; and, if it was also saved, it is in the file, and a restart    *)
(* brings it back, however many requests failed half way, could not be saved or overlapped, *)
(* unless saves have crossed or one was cut off.  A model that is created or deleted is     *)
(* answered with success even if it is not saved: it need not survive.                      *)
(* (api.go, UpdateSettings, CreateModel, DeleteModel; config.go, Save, Load.)               *)
THEOREM AcknowledgedSurvives == SettingsSpec => []AckSurvives
<1>1. SettingsInv => AckSurvives
  BY DEF SettingsInv, SavedInv, BuiltInv, Stored, Replaced, Acknowledged, AckSurvives
<1>2. QED
  BY <1>1, AlwaysSettings, PTL

(* Whatever was imported, restarted or could not be reached or reloaded: between reloads    *)
(* that have not overlapped, all open connections are the current manager's, the chat       *)
(* service has the tools of each, and of each saved server the manager could reach; a tool  *)
(* whose connection is closed is that of a stream of events, which ends with its request.   *)
(* (api.go, reloadMCPAndChat, ImportMCPServer; mcp/manager.go; main.go.)                    *)
THEOREM SavedToolsServed == SettingsSpec => []ToolsServed
<1>1. SettingsInv => ToolsServed
  <2> SUFFICES ASSUME SettingsInv, ~raced, \A u \in Admins : admin[u].pc \notin {"connect", "tools"}
               PROVE  /\ conns \subseteq tools /\ \A k \in tools : k[1] = manager
                      /\ \A k \in tools \ conns : k[2] \in Streaming
                      /\ owner["servers"] = "kept" => Served(tools) = kept["servers"] \ missed
    BY DEF ToolsServed, Served
  <2>1. \A u \in Admins : ~Reloading(admin[u])
    BY DEF Reloading
  <2>2. "servers" \in Fields /\ ~Replaced("servers")
    BY DEF Fields, Replaced
  <2>3. owner["servers"] = "kept" => cfg["servers"] = kept["servers"]
    BY <2>2 DEF SettingsInv, SavedInv, Acknowledged
  <2>4. QED
    BY <2>1, <2>3 DEF SettingsInv, ServedInv, AtRest
<1>2. QED
  BY <1>1, AlwaysSettings, PTL

-----------------------------------------------------------------------------
(* The pages of a wiki. *)

UploadFields == {"pc", "pages", "id", "links"}
LinkFields == {"from", "path", "target"}
UploadRuns == {"page", "unlink", "link", "list", "index", "resolve"}

UploadsAreRecords ==
  /\ upload = [d \in WikiSources |-> upload[d]]
  /\ \A d \in WikiSources : upload[d] = [f \in UploadFields |-> upload[d][f]]

LinksAreRecords == \A l \in links : l = [f \in LinkFields |-> l[f]]

(* A page has one id for good, and ids are not given twice. *)
PagesHaveIds ==
  /\ nextId \in Nat /\ 0 < nextId
  /\ \A p \in pages : p.id \in Nat /\ 0 < p.id /\ p.id < nextId
  /\ \A p, q \in pages : p.id = q.id \/ (p.kb = q.kb /\ p.path = q.path) => p = q

(* The page an upload is about to link is, if it is still there, one of its own wiki. *)
UploadHasPage ==
  \A d \in WikiSources : upload[d].pc \in {"unlink", "link"} =>
    /\ upload[d].id \in Nat /\ upload[d].id < nextId
    /\ \A p \in pages : p.id = upload[d].id => p.kb = WikiOf[d]

LinkHasOwner == \A l \in links : \E p \in pages : p.id = l.from

(* The target of a link is the page its path names in the wiki of its owner. *)
LinkLeads ==
  \A l \in links : \A p \in pages : l.target # NoPage /\ p.id = l.from =>
    \E q \in pages : q.id = l.target /\ q.kb = p.kb /\ q.path = l.path

(* A link without a target whose page is there waits for the ResolveLinks of an upload. *)
LinkWaits ==
  \A l \in links : \A p, q \in pages :
    l.target = NoPage /\ p.id = l.from /\ q.kb = p.kb /\ q.path = l.path /\ p.kb \notin pending =>
      \E d \in WikiSources : WikiOf[d] = p.kb /\ upload[d].pc \in UploadRuns

WikiInv ==
  /\ UploadsAreRecords /\ LinksAreRecords /\ PagesHaveIds /\ UploadHasPage
  /\ LinkHasOwner /\ LinkLeads /\ LinkWaits

LEMMA LinksResolvedFollows == WikiInv => LinksResolved
<1> SUFFICES ASSUME WikiInv, NEW l \in links
             PROVE  LET named == PageAt(FromPage(l).kb, l.path)
                    IN /\ l.target # NoPage => \E p \in named : p.id = l.target
                       /\ (/\ \A d \in WikiSources : upload[d].pc \in UploadEnded \cup {"new"}
                           /\ FromPage(l).kb \notin pending
                           /\ named # {}) => l.target # NoPage
  BY DEF LinksResolved
<1>1. FromPage(l) \in pages /\ FromPage(l).id = l.from
  BY DEF WikiInv, LinkHasOwner, FromPage
<1>2. l.target # NoPage => \E p \in PageAt(FromPage(l).kb, l.path) : p.id = l.target
  BY <1>1 DEF WikiInv, LinkLeads, PageAt
<1>3. ASSUME \A d \in WikiSources : upload[d].pc \in UploadEnded \cup {"new"},
             FromPage(l).kb \notin pending, NEW q \in PageAt(FromPage(l).kb, l.path),
             l.target = NoPage
      PROVE  FALSE
  <2>1. PICK d \in WikiSources : upload[d].pc \in UploadRuns
    BY <1>1, <1>3 DEF WikiInv, LinkWaits, PageAt
  <2> QED BY <2>1, <1>3 DEF UploadRuns, UploadEnded
<1> QED BY <1>2, <1>3

LEMMA WikiInvHoldsAtFirst == WikiInit => WikiInv
BY DEF WikiInit, WikiInv, UploadsAreRecords, LinksAreRecords, PagesHaveIds, UploadHasPage,
       LinkHasOwner, LinkLeads, LinkWaits, NewUpload, UploadFields, NoPage

(* What a write to an upload leaves of the others. *)
LEMMA Recorded ==
  ASSUME UploadsAreRecords, NEW d \in WikiSources, NEW u, Record(d, u),
         u = [f \in UploadFields |-> u[f]]
  PROVE  /\ UploadsAreRecords'
         /\ upload'[d] = u
         /\ \A e \in WikiSources : e # d => upload'[e] = upload[e]
BY DEF UploadsAreRecords, Record

(* The page that was written is there, under its old id or a new one, the others stay. *)
LEMMA Upserted ==
  ASSUME PagesHaveIds, NEW kb, NEW path, NEW source, UpsertPage(kb, path, source)
  PROVE  /\ PagesHaveIds' /\ nextId \in Nat /\ nextId' \in Nat /\ nextId <= nextId'
         /\ \A p \in pages : \E q \in pages' : q.id = p.id /\ q.kb = p.kb /\ q.path = p.path
         /\ \A q \in pages' : \/ q.id = nextId /\ q.kb = kb /\ q.path = path
                              \/ \E p \in pages : q.id = p.id /\ q.kb = p.kb /\ q.path = p.path
         /\ \E q \in pages' : q.kb = kb /\ q.path = path
<1> DEFINE there == PageAt(kb, path)
           id == IF there = {} THEN nextId ELSE (CHOOSE p \in there : TRUE).id
           page == [id |-> id, kb |-> kb, path |-> path, source |-> source]
<1>1. pages' = (pages \ there) \cup {page} /\ nextId' = IF there = {} THEN nextId + 1 ELSE nextId
  BY DEF UpsertPage
<1>2. page.id = id /\ page.kb = kb /\ page.path = path
  OBVIOUS
<1>3. /\ there = {} => id = nextId
      /\ there # {} => \E p \in there : p.id = id
  OBVIOUS
<1>4. \A p : p \in there <=> p \in pages /\ p.kb = kb /\ p.path = path
  BY DEF PageAt
<1> HIDE DEF page, id, there
<1>5. \A p \in pages : p.id \in Nat /\ 0 < p.id /\ p.id < nextId
  BY DEF PagesHaveIds
<1>6. \A p, q \in pages : p.id = q.id \/ (p.kb = q.kb /\ p.path = q.path) => p = q
  BY DEF PagesHaveIds
<1>7. nextId \in Nat /\ 0 < nextId
  BY DEF PagesHaveIds
<1>8. nextId' \in Nat /\ 0 < nextId' /\ nextId <= nextId'
  BY <1>1, <1>7
<1>9. id \in Nat /\ 0 < id /\ id < nextId'
  <2>1. CASE there = {}
    BY <2>1, <1>1, <1>3, <1>7
  <2>2. CASE there # {}
    BY <2>2, <1>1, <1>3, <1>4, <1>5, <1>7
  <2> QED BY <2>1, <2>2
<1>10. \A p \in pages \ there : p.id # id
  BY <1>3, <1>4, <1>5, <1>6, <1>7
<1>11. \A p \in pages' : p.id \in Nat /\ 0 < p.id /\ p.id < nextId'
  BY <1>1, <1>2, <1>5, <1>7, <1>8, <1>9
<1>12. \A p, q \in pages' : p.id = q.id \/ (p.kb = q.kb /\ p.path = q.path) => p = q
  BY <1>1, <1>2, <1>4, <1>6, <1>10
<1>13. PagesHaveIds'
  BY <1>8, <1>11, <1>12 DEF PagesHaveIds
<1>14. \A p \in pages : \E q \in pages' : q.id = p.id /\ q.kb = p.kb /\ q.path = p.path
  BY <1>1, <1>2, <1>3, <1>4, <1>6
<1>15. \A q \in pages' : \/ q.id = nextId /\ q.kb = kb /\ q.path = path
                         \/ \E p \in pages : q.id = p.id /\ q.kb = p.kb /\ q.path = p.path
  BY <1>1, <1>2, <1>3, <1>4
<1> QED BY <1>1, <1>2, <1>7, <1>8, <1>13, <1>14, <1>15
(* A step of an upload that leaves the pages alone and adds at most a link of its page. *)
LEMMA StepAside ==
  ASSUME WikiInv, NEW d \in WikiSources, NEW u, Record(d, u), u = [f \in UploadFields |-> u[f]],
         UNCHANGED <<pages, nextId>>,
         u.pc \in {"unlink", "link"} =>
           /\ u.id \in Nat /\ u.id < nextId
           /\ \A p \in pages : p.id = u.id => p.kb = WikiOf[d],
         \/ pending' = pending /\ (upload[d].pc \in UploadRuns => u.pc \in UploadRuns)
         \/ pending' = pending \cup {WikiOf[d]},
         \A l \in links' : \/ l \in links
                           \/ /\ l = [f \in LinkFields |-> l[f]] /\ l.target = NoPage
                              /\ \E p \in pages : p.id = l.from /\ p.kb = WikiOf[d]
                              /\ u.pc \in UploadRuns
  PROVE  WikiInv'
<1> USE DEF WikiInv
<1>1. /\ UploadsAreRecords' /\ upload'[d] = u
      /\ \A e \in WikiSources : e # d => upload'[e] = upload[e]
  BY Recorded
<1>2. LinksAreRecords'
  BY DEF LinksAreRecords
<1>3. PagesHaveIds'
  BY DEF PagesHaveIds
<1>4. UploadHasPage'
  BY <1>1 DEF UploadHasPage
<1>5. LinkHasOwner'
  BY DEF LinkHasOwner
<1>6. LinkLeads'
  BY DEF LinkLeads
<1>7. LinkWaits'
  <2> SUFFICES ASSUME NEW l \in links', NEW p \in pages, NEW q \in pages, l.target = NoPage,
                      p.id = l.from, q.kb = p.kb, q.path = l.path, p.kb \notin pending'
               PROVE  \E e \in WikiSources : WikiOf[e] = p.kb /\ upload'[e].pc \in UploadRuns
    BY DEF LinkWaits
  <2>1. CASE l \in links
    <3>1. PICK e \in WikiSources : WikiOf[e] = p.kb /\ upload[e].pc \in UploadRuns
      BY <2>1 DEF LinkWaits
    <3> QED BY <3>1, <1>1
  <2>2. CASE l \notin links
    <3>1. p.kb = WikiOf[d] /\ u.pc \in UploadRuns
      BY <2>2 DEF PagesHaveIds
    <3> QED BY <3>1, <1>1
  <2> QED BY <2>1, <2>2
<1> QED BY <1>1, <1>2, <1>3, <1>4, <1>5, <1>6, <1>7

(* A step of an upload that writes a page. *)
LEMMA StepWithPage ==
  ASSUME WikiInv, NEW d \in WikiSources, NEW u, Record(d, u), u = [f \in UploadFields |-> u[f]],
         NEW path, NEW source, UpsertPage(WikiOf[d], path, source),
         UNCHANGED <<links, pending>>, u.pc \in UploadRuns,
         u.pc \in {"unlink", "link"} =>
           \E q \in pages' : q.id = u.id /\ q.kb = WikiOf[d]
  PROVE  WikiInv'
<1> USE DEF WikiInv
<1>1. /\ UploadsAreRecords' /\ upload'[d] = u
      /\ \A e \in WikiSources : e # d => upload'[e] = upload[e]
  BY Recorded
<1>2. /\ PagesHaveIds' /\ nextId \in Nat /\ nextId' \in Nat /\ nextId <= nextId'
      /\ \A p \in pages : \E q \in pages' : q.id = p.id /\ q.kb = p.kb /\ q.path = p.path
      /\ \A q \in pages' : \/ q.id = nextId /\ q.kb = WikiOf[d] /\ q.path = path
                           \/ \E p \in pages : q.id = p.id /\ q.kb = p.kb /\ q.path = p.path
  BY Upserted
<1>3. LinksAreRecords'
  BY DEF LinksAreRecords
<1>4. UploadHasPage'
  <2>1. ASSUME NEW e \in WikiSources, upload'[e].pc \in {"unlink", "link"}, e # d
        PROVE  /\ upload'[e].id \in Nat /\ upload'[e].id < nextId'
               /\ \A p \in pages' : p.id = upload'[e].id => p.kb = WikiOf[e]
    <3>1. /\ upload[e].id \in Nat /\ upload[e].id < nextId
          /\ \A p \in pages : p.id = upload[e].id => p.kb = WikiOf[e]
      BY <2>1, <1>1 DEF UploadHasPage
    <3> QED BY <3>1, <2>1, <1>1, <1>2
  <2>2. ASSUME u.pc \in {"unlink", "link"}
        PROVE  /\ u.id \in Nat /\ u.id < nextId'
               /\ \A p \in pages' : p.id = u.id => p.kb = WikiOf[d]
    BY <2>2, <1>2 DEF PagesHaveIds
  <2> QED BY <2>1, <2>2, <1>1 DEF UploadHasPage
<1>5. LinkHasOwner'
  BY <1>2 DEF LinkHasOwner
<1>6. \A l \in links : \A q \in pages' : q.id = l.from =>
        \E p \in pages : p.id = l.from /\ p.kb = q.kb
  BY <1>2 DEF PagesHaveIds, LinkHasOwner
<1>7. LinkLeads'
  BY <1>2, <1>6 DEF LinkLeads
<1>8. LinkWaits'
  <2> SUFFICES ASSUME NEW l \in links, NEW p \in pages', NEW q \in pages', l.target = NoPage,
                      p.id = l.from, q.kb = p.kb, q.path = l.path, p.kb \notin pending
               PROVE  \E e \in WikiSources : WikiOf[e] = p.kb /\ upload'[e].pc \in UploadRuns
    BY DEF LinkWaits
  <2>1. PICK r \in pages : r.id = l.from /\ r.kb = p.kb
    BY <1>6
  <2>2. CASE q.kb = WikiOf[d]
    BY <2>2, <1>1
  <2>3. CASE q.kb # WikiOf[d]
    <3>1. PICK s \in pages : s.kb = q.kb /\ s.path = q.path
      BY <2>3, <1>2
    <3>2. PICK e \in WikiSources : WikiOf[e] = p.kb /\ upload[e].pc \in UploadRuns
      BY <2>1, <3>1 DEF LinkWaits
    <3> QED BY <3>2, <1>1
  <2> QED BY <2>2, <2>3
<1> QED BY <1>1, <1>2, <1>3, <1>4, <1>5, <1>7, <1>8

(* ResolveLinks leaves no link of the wiki waiting. *)
LEMMA ResolvesKeep ==
  ASSUME WikiInv, NEW d \in WikiSources, Record(d, [upload[d] EXCEPT !.pc = "completed"]),
         ResolveLinks(WikiOf[d]), pending' = pending \ {WikiOf[d]}, UNCHANGED <<pages, nextId>>
  PROVE  WikiInv'
<1> USE DEF WikiInv
<1> DEFINE kb == WikiOf[d]
           Lead(l) == CHOOSE p \in PageAt(kb, l.path) : TRUE
           Open(l) == /\ l.target = NoPage /\ l.from \in {p.id : p \in {q \in pages : q.kb = kb}}
                      /\ PageAt(kb, l.path) # {}
           Led(l) == [l EXCEPT !.target = Lead(l).id]
<1>1. /\ UploadsAreRecords' /\ upload'[d].pc = "completed"
      /\ \A e \in WikiSources : e # d => upload'[e] = upload[e]
  <2>1. [upload[d] EXCEPT !.pc = "completed"] =
          [f \in UploadFields |-> [upload[d] EXCEPT !.pc = "completed"][f]]
    BY DEF UploadsAreRecords, UploadFields
  <2>2. [upload[d] EXCEPT !.pc = "completed"].pc = "completed"
    BY DEF UploadsAreRecords, UploadFields
  <2> QED BY <2>1, <2>2, Recorded
<1>2. links' = {IF Open(l) THEN Led(l) ELSE l : l \in links}
  BY DEF ResolveLinks
<1>3. \A l \in links : Open(l) => Lead(l) \in pages /\ Lead(l).kb = kb /\ Lead(l).path = l.path
  BY DEF PageAt
<1>4. \A l \in links : Led(l) = [f \in LinkFields |-> Led(l)[f]] /\ Led(l).target = Lead(l).id
                       /\ Led(l).from = l.from /\ Led(l).path = l.path
  BY DEF LinksAreRecords, LinkFields
<1>5. \A l \in links : Open(l) <=>
        /\ l.target = NoPage /\ \E p \in pages : p.kb = kb /\ p.id = l.from
        /\ \E q \in pages : q.kb = kb /\ q.path = l.path
  BY DEF PageAt
<1> HIDE DEF Open, Lead, Led
<1>6. LinksAreRecords'
  BY <1>2, <1>4 DEF LinksAreRecords
<1>7. PagesHaveIds'
  BY DEF PagesHaveIds
<1>8. UploadHasPage'
  BY <1>1 DEF UploadHasPage
<1>9. LinkHasOwner'
  BY <1>2, <1>4 DEF LinkHasOwner
<1>10. LinkLeads'
  <2> SUFFICES ASSUME NEW k \in links, NEW p \in pages, NEW l,
                      l = IF Open(k) THEN Led(k) ELSE k, l.target # NoPage, p.id = l.from
               PROVE  \E q \in pages : q.id = l.target /\ q.kb = p.kb /\ q.path = l.path
    BY <1>2 DEF LinkLeads
  <2>1. CASE Open(k)
    <3>1. p.kb = kb
      BY <2>1, <1>4, <1>5 DEF PagesHaveIds
    <3> QED BY <3>1, <2>1, <1>3, <1>4
  <2>2. CASE ~Open(k)
    BY <2>2 DEF LinkLeads
  <2> QED BY <2>1, <2>2
<1>11. LinkWaits'
  <2> SUFFICES ASSUME NEW k \in links, NEW p \in pages, NEW q \in pages, NEW l,
                      l = IF Open(k) THEN Led(k) ELSE k, l.target = NoPage, p.id = l.from,
                      q.kb = p.kb, q.path = l.path, p.kb \notin pending'
               PROVE  \E e \in WikiSources : WikiOf[e] = p.kb /\ upload'[e].pc \in UploadRuns
    BY <1>2 DEF LinkWaits
  <2>1. ~Open(k)
    BY <1>3, <1>4 DEF PagesHaveIds, NoPage
  <2>2. l = k /\ p.kb # kb
    BY <2>1, <1>5
  <2>3. PICK e \in WikiSources : WikiOf[e] = p.kb /\ upload[e].pc \in UploadRuns
    BY <2>2 DEF LinkWaits
  <2> QED BY <2>2, <2>3, <1>1
<1> QED BY <1>1, <1>6, <1>7, <1>8, <1>9, <1>10, <1>11

(* The links to a page that goes lose their target, and no page has its path then. *)
LEMMA DeletionKeeps ==
  ASSUME WikiInv, NEW gone \in SUBSET pages, DeletePages(gone), UNCHANGED <<upload, nextId, pending>>
  PROVE  WikiInv'
<1> USE DEF WikiInv
<1> DEFINE ids == {p.id : p \in gone}
           Cut(l) == [l EXCEPT !.target = IF l.target \in ids THEN NoPage ELSE l.target]
<1>1. pages' = pages \ gone /\ links' = {Cut(l) : l \in {k \in links : k.from \notin ids}}
  BY DEF DeletePages
<1>2. \A l \in links : /\ Cut(l) = [f \in LinkFields |-> Cut(l)[f]]
                       /\ Cut(l).from = l.from /\ Cut(l).path = l.path
                       /\ Cut(l).target = IF l.target \in ids THEN NoPage ELSE l.target
  BY DEF LinksAreRecords, LinkFields
<1>3. \A p \in pages : p \in gone <=> p.id \in ids
  BY DEF PagesHaveIds
<1> HIDE DEF Cut, ids
<1>4. UploadsAreRecords'
  BY DEF UploadsAreRecords
<1>5. LinksAreRecords'
  BY <1>1, <1>2 DEF LinksAreRecords
<1>6. PagesHaveIds'
  BY <1>1 DEF PagesHaveIds
<1>7. UploadHasPage'
  BY <1>1 DEF UploadHasPage
<1>8. LinkHasOwner'
  BY <1>1, <1>2, <1>3 DEF LinkHasOwner
<1>9. LinkLeads'
  <2> SUFFICES ASSUME NEW l \in links, l.from \notin ids, NEW p \in pages', Cut(l).target # NoPage,
                      p.id = l.from
               PROVE  \E q \in pages' : q.id = Cut(l).target /\ q.kb = p.kb /\ q.path = l.path
    BY <1>1, <1>2 DEF LinkLeads
  <2>1. l.target # NoPage /\ l.target \notin ids /\ Cut(l).target = l.target
    BY <1>2
  <2>2. PICK q \in pages : q.id = l.target /\ q.kb = p.kb /\ q.path = l.path
    BY <2>1, <1>1 DEF LinkLeads
  <2> QED BY <2>1, <2>2, <1>1, <1>3
<1>10. LinkWaits'
  <2> SUFFICES ASSUME NEW l \in links, l.from \notin ids, NEW p \in pages', NEW q \in pages',
                      Cut(l).target = NoPage, p.id = l.from, q.kb = p.kb, q.path = l.path,
                      p.kb \notin pending
               PROVE  \E e \in WikiSources : WikiOf[e] = p.kb /\ upload[e].pc \in UploadRuns
    BY <1>1, <1>2 DEF LinkWaits
  <2>1. CASE l.target = NoPage
    BY <2>1, <1>1 DEF LinkWaits
  <2>2. CASE l.target # NoPage
    <3>1. l.target \in ids
      BY <2>2, <1>2
    <3>2. PICK r \in pages : r.id = l.target /\ r.kb = p.kb /\ r.path = l.path
      BY <2>2, <1>1 DEF LinkLeads
    <3>3. r = q /\ r \in gone
      BY <3>1, <3>2, <1>1, <1>3 DEF PagesHaveIds
    <3> QED BY <3>3, <1>1
  <2> QED BY <2>1, <2>2
<1> QED BY <1>1, <1>4, <1>5, <1>6, <1>7, <1>8, <1>9, <1>10

LEMMA GoneOn ==
  ASSUME UploadsAreRecords, NEW d \in WikiSources, NEW pc, NEW u, u = [upload[d] EXCEPT !.pc = pc]
  PROVE  u = [f \in UploadFields |-> u[f]] /\ u.pc = pc /\ u.id = upload[d].id
BY DEF UploadsAreRecords, UploadFields

LEMMA GoingKeeps ==
  ASSUME WikiInv, NEW d \in WikiSources, NEW pc, GoOn(d, pc), pc \notin {"unlink", "link"},
         UNCHANGED <<pages, links, nextId>>,
         \/ pending' = pending /\ (upload[d].pc \in UploadRuns => pc \in UploadRuns)
         \/ pending' = pending \cup {WikiOf[d]}
  PROVE  WikiInv'
<1> DEFINE u == [upload[d] EXCEPT !.pc = pc]
<1>1. u = [f \in UploadFields |-> u[f]] /\ u.pc = pc
  BY GoneOn DEF WikiInv
<1>2. Record(d, u)
  BY DEF GoOn
<1> HIDE DEF u
<1> QED BY <1>1, <1>2, StepAside

LEMMA NextPageKeeps ==
  ASSUME WikiInv, NEW d \in WikiSources, NextPage(d), UNCHANGED <<pages, nextId, pending>>,
         \A l \in links' : \/ l \in links
                           \/ /\ l = [f \in LinkFields |-> l[f]] /\ l.target = NoPage
                              /\ \E p \in pages : p.id = l.from /\ p.kb = WikiOf[d]
  PROVE  WikiInv'
<1> DEFINE u == [upload[d] EXCEPT !.pages = Tail(@), !.links = {}, !.pc = AfterPage(d)]
<1>1. u = [f \in UploadFields |-> u[f]] /\ u.pc = AfterPage(d)
  BY DEF WikiInv, UploadsAreRecords, UploadFields
<1>2. Record(d, u)
  BY DEF NextPage
<1>3. AfterPage(d) \in UploadRuns \ {"unlink", "link"}
  BY DEF AfterPage, UploadRuns
<1> HIDE DEF u
<1> QED BY <1>1, <1>2, <1>3, StepAside

LEMMA WikiInvKept == WikiInv /\ [WikiNext]_wikiVars => WikiInv'
<1> SUFFICES ASSUME WikiInv, [WikiNext]_wikiVars PROVE WikiInv'
  OBVIOUS
<1>1. CASE UNCHANGED wikiVars
  BY <1>1 DEF wikiVars, WikiInv, UploadsAreRecords, LinksAreRecords, PagesHaveIds, UploadHasPage,
              LinkHasOwner, LinkLeads, LinkWaits
<1>2. ASSUME NEW d \in WikiSources, UploadWikiDoc(d) PROVE WikiInv'
  <2>1. ASSUME NEW out \in Outputs[d],
               Record(d, [NewUpload EXCEPT !.pc = IF out = <<>> THEN "completed" ELSE "page",
                                           !.pages = out])
        PROVE  WikiInv'
    <3> DEFINE u == [NewUpload EXCEPT !.pc = IF out = <<>> THEN "completed" ELSE "page",
                                      !.pages = out]
    <3>1. u = [f \in UploadFields |-> u[f]] /\ u.pc \in {"completed", "page"}
      BY DEF NewUpload, UploadFields
    <3>2. upload[d].pc \notin UploadRuns
      BY <1>2 DEF UploadWikiDoc, UploadAt, UploadRuns
    <3>3. Record(d, u)
      BY <2>1
    <3> HIDE DEF u
    <3> QED BY <3>1, <3>2, <3>3, <1>2, StepAside DEF UploadWikiDoc
  <2>2. CASE GoOn(d, "failed")
    BY <2>2, <1>2, GoingKeeps DEF UploadWikiDoc, UploadAt, UploadRuns
  <2> QED BY <2>1, <2>2, <1>2 DEF UploadWikiDoc
<1>3. ASSUME NEW d \in WikiSources, StorePage(d) PROVE WikiInv'
  <2> DEFINE page == Head(upload[d].pages)
             stored == CHOOSE p \in pages' : p.kb = WikiOf[d] /\ p.path = page.path
             u == [upload[d] EXCEPT !.id = stored.id, !.links = page.links,
                                    !.pages = IF page.links = {} THEN Tail(@) ELSE @,
                                    !.pc = IF page.links = {} THEN AfterPage(d) ELSE "unlink"]
  <2>1. CASE UpsertPage(WikiOf[d], page.path, d) /\ Record(d, u) /\ UNCHANGED pending
    <3>1. u = [f \in UploadFields |-> u[f]] /\ u.pc \in UploadRuns /\ u.id = stored.id
      <4>1. AfterPage(d) \in UploadRuns
        BY DEF AfterPage, UploadRuns
      <4> HIDE DEF stored, page
      <4> QED BY <4>1 DEF WikiInv, UploadsAreRecords, UploadFields, UploadRuns
    <3>2. stored \in pages' /\ stored.kb = WikiOf[d]
      BY <2>1, Upserted DEF WikiInv
    <3>3. UNCHANGED links
      BY <1>3 DEF StorePage
    <3> HIDE DEF stored, page, u
    <3> QED BY <3>1, <3>2, <3>3, <2>1, StepWithPage
  <2>2. CASE FailUpload(d) /\ UNCHANGED <<pages, nextId, links>>
    BY <2>2, GoingKeeps DEF FailUpload
  <2> QED BY <2>1, <2>2, <1>3 DEF StorePage
<1>4. ASSUME NEW d \in WikiSources, Unlink(d) PROVE WikiInv'
  <2>1. CASE links' = {l \in links : l.from # upload[d].id} /\ GoOn(d, "link")
    <3> DEFINE u == [upload[d] EXCEPT !.pc = "link"]
    <3>1. u = [f \in UploadFields |-> u[f]] /\ u.pc = "link" /\ u.id = upload[d].id
      BY GoneOn DEF WikiInv
    <3>2. Record(d, u)
      BY <2>1 DEF GoOn
    <3>3. /\ upload[d].id \in Nat /\ upload[d].id < nextId
          /\ \A p \in pages : p.id = upload[d].id => p.kb = WikiOf[d]
      BY <1>4 DEF Unlink, UploadAt, WikiInv, UploadHasPage
    <3>4. "link" \in UploadRuns
      BY DEF UploadRuns
    <3> HIDE DEF u
    <3> QED BY <3>1, <3>2, <3>3, <3>4, <2>1, <1>4, StepAside DEF Unlink
  <2>2. CASE NextPage(d) /\ UNCHANGED links
    BY <2>2, <1>4, NextPageKeeps DEF Unlink
  <2> QED BY <2>1, <2>2, <1>4 DEF Unlink
<1>5. ASSUME NEW d \in WikiSources, Link(d) PROVE WikiInv'
  <2> DEFINE new(path) == [from |-> upload[d].id, path |-> path, target |-> NoPage]
  <2>1. /\ upload[d].id \in Nat /\ upload[d].id < nextId
        /\ \A p \in pages : p.id = upload[d].id => p.kb = WikiOf[d]
    BY <1>5 DEF Link, UploadAt, WikiInv, UploadHasPage
  <2>2. \A path : /\ new(path) = [f \in LinkFields |-> new(path)[f]]
                  /\ new(path).target = NoPage /\ new(path).from = upload[d].id
    BY DEF LinkFields
  <2>3. ASSUME NEW path \in upload[d].links, \E p \in pages : p.id = upload[d].id,
               links' = links \cup {new(path)}
        PROVE  \A l \in links' : \/ l \in links
                                 \/ /\ l = [f \in LinkFields |-> l[f]] /\ l.target = NoPage
                                    /\ \E p \in pages : p.id = l.from /\ p.kb = WikiOf[d]
    <3> HIDE DEF new
    <3> QED BY <2>1, <2>2, <2>3
  <2>4. UNCHANGED <<pages, nextId, pending>>
    BY <1>5 DEF Link
  <2>5. ASSUME NEW path \in upload[d].links, \E p \in pages : p.id = upload[d].id,
               links' = links \cup {new(path)}, Record(d, [upload[d] EXCEPT !.links = @ \ {path}])
        PROVE  WikiInv'
    <3> DEFINE u == [upload[d] EXCEPT !.links = @ \ {path}]
    <3>1. u = [f \in UploadFields |-> u[f]] /\ u.pc = upload[d].pc /\ u.id = upload[d].id
      BY DEF WikiInv, UploadsAreRecords, UploadFields
    <3>2. u.pc \in UploadRuns
      BY <3>1, <1>5 DEF Link, UploadAt, UploadRuns
    <3>3. Record(d, u)
      BY <2>5
    <3>4. \A l \in links' : \/ l \in links
                            \/ /\ l = [f \in LinkFields |-> l[f]] /\ l.target = NoPage
                               /\ \E p \in pages : p.id = l.from /\ p.kb = WikiOf[d]
      BY <2>3, <2>5
    <3> HIDE DEF u, new
    <3> QED BY <3>1, <3>2, <3>3, <3>4, <2>1, <2>4, StepAside
  <2>6. ASSUME NEW path \in upload[d].links, \E p \in pages : p.id = upload[d].id,
               links' = links \cup {new(path)}, NextPage(d)
        PROVE  WikiInv'
    <3> HIDE DEF new
    <3> QED BY <2>3, <2>4, <2>6, NextPageKeeps
  <2>7. CASE NextPage(d) /\ UNCHANGED links
    BY <2>4, <2>7, NextPageKeeps
  <2> QED BY <2>5, <2>6, <2>7, <1>5 DEF Link
<1>6. ASSUME NEW d \in WikiSources, ListPages(d) PROVE WikiInv'
  <2>1. UNCHANGED <<pages, links, nextId, pending>> /\ (GoOn(d, "index") \/ GoOn(d, "resolve"))
    BY <1>6 DEF ListPages
  <2>2. "index" \in UploadRuns /\ "resolve" \in UploadRuns
    BY DEF UploadRuns
  <2> QED BY <2>1, <2>2, GoingKeeps
<1>7. ASSUME NEW d \in WikiSources, WriteIndex(d) PROVE WikiInv'
  <2> DEFINE u == [upload[d] EXCEPT !.pc = "resolve"]
  <2>1. GoOn(d, "resolve") /\ UNCHANGED <<links, pending>> /\ "resolve" \in UploadRuns
    BY <1>7 DEF WriteIndex, UploadRuns
  <2>2. CASE UpsertPage(WikiOf[d], IndexPath, NoPage)
    <3>1. u = [f \in UploadFields |-> u[f]] /\ u.pc = "resolve"
      BY DEF WikiInv, UploadsAreRecords, UploadFields
    <3>2. Record(d, u)
      BY <2>1 DEF GoOn
    <3> HIDE DEF u
    <3> QED BY <3>1, <3>2, <2>1, <2>2, StepWithPage
  <2>3. CASE UNCHANGED <<pages, nextId>>
    BY <2>1, <2>3, GoingKeeps
  <2> QED BY <2>2, <2>3, <1>7 DEF WriteIndex
<1>8. ASSUME NEW d \in WikiSources, Resolve(d) PROVE WikiInv'
  <2>1. GoOn(d, "completed") /\ UNCHANGED <<pages, nextId>>
    BY <1>8 DEF Resolve
  <2>2. CASE ResolveLinks(WikiOf[d]) /\ pending' = pending \ {WikiOf[d]}
    BY <2>1, <2>2, ResolvesKeep DEF GoOn
  <2>3. CASE pending' = pending \cup {WikiOf[d]} /\ UNCHANGED links
    BY <2>1, <2>3, GoingKeeps
  <2> QED BY <2>2, <2>3, <1>8 DEF Resolve
<1>9. ASSUME NEW d \in WikiSources, DeleteWikiDoc(d) PROVE WikiInv'
  <2>1. UNCHANGED <<upload, nextId, pending>>
    BY <1>9 DEF DeleteWikiDoc
  <2>2. CASE DeletePages({p \in pages : p.source = d})
    <3>1. {p \in pages : p.source = d} \in SUBSET pages
      OBVIOUS
    <3> QED BY <3>1, <2>1, <2>2, DeletionKeeps
  <2>3. CASE UNCHANGED <<pages, links>>
    BY <2>1, <2>3 DEF WikiInv, UploadsAreRecords, LinksAreRecords, PagesHaveIds, UploadHasPage,
                      LinkHasOwner, LinkLeads, LinkWaits
  <2> QED BY <2>2, <2>3, <1>9 DEF DeleteWikiDoc
<1> QED BY <1>1, <1>2, <1>3, <1>4, <1>5, <1>6, <1>7, <1>8, <1>9 DEF WikiNext, WikiOver

(* However the uploads of any documents overlap, whatever pages they write and link, and     *)
(* whatever fails or is deleted meanwhile: a link with a target leads to the page its path   *)
(* names in its own wiki, and once no upload is at work every link whose page is there has   *)
(* its target, unless the last upload to end ended before ResolveLinks or could not run it.  *)
(* (wiki_repo.go, UpsertPage, UpsertLinks, ResolveLinks; compiler.go, Compile.)              *)
THEOREM WikiLinksResolved == WikiSpec => []LinksResolved
<1>1. WikiSpec => []WikiInv
  BY WikiInvHoldsAtFirst, WikiInvKept, PTL DEF WikiSpec
<1> QED BY <1>1, LinksResolvedFollows, PTL

-----------------------------------------------------------------------------
(* The status of a document's import. *)

StateFields == {"parse", "enrich"}
WriterFields == {"job", "at", "copy"}
Calls == {"none", "enqueue", "requeue", "schedule"}
Jobs == Calls \cup {"pending", "reset", "processing", "syncing", "stored", "chunked", "completed",
                    "failed", "enriching", "marking", "enriched", "unenriched"}

IsState(s) == s = [f \in StateFields |-> s[f]]

WriterOK(w) ==
  /\ w = [f \in WriterFields |-> w[f]] /\ w.job \in Jobs /\ IsState(w.copy)
  /\ w.job \in Calls <=> w.at = "call"
  /\ w.at = "row" => InRow(w.job)
  /\ w.at \in {"read", "write"} => InRedis(w.job)

WritersOK ==
  /\ writer = [a \in Writers |-> writer[a]]
  /\ \A a \in Writers : WriterOK(writer[a])

StatesOK ==
  /\ IsState(docRow) /\ waiting \in Nat /\ torn \in BOOLEAN /\ resetRow \in BOOLEAN
  /\ \A s \in redis : IsState(s)
  /\ \A s, t \in redis : s = t

(* Unless two have been at work at once, one writer is, or one import waits. *)
OneAtWork ==
  /\ waiting \in {0, 1}
  /\ \A a, b \in Writers : Busy(a) /\ Busy(b) => a = b
  /\ \A a \in Writers : Busy(a) => waiting = 0

(* A state is right about a field that it leaves empty or gives the row's value; nothing is *)
(* asked of the import's status in a row that was reset.                                    *)
AgreesWith(s, f, stored, reset) == s[f] \in {"", stored[f]} \/ (f = "parse" /\ reset)
Agrees(s, f) == AgreesWith(s, f, docRow, resetRow)

(* The writer is going to write the field to Redis. *)
Settling(w, f) ==
  \/ Field(w.job) = f /\ w.at \in {"read", "write"}
  \/ f = "enrich" /\ w.job \in {"schedule", "marking"}
  \/ f = "parse" /\ w.at = "row" /\ w.job \in {"completed", "failed"}

RedisAgrees ==
  \A f \in StateFields : \A s \in redis : Agrees(s, f) \/ \E a \in Writers : Settling(writer[a], f)

CopyAgrees ==
  \A a \in Writers : \A f \in StateFields :
    writer[a].at = "write" => Agrees(writer[a].copy, f) \/ Settling(writer[a], f)

(* What is being written to Redis is what the row says, but for the first writing of the *)
(* enrichment, which comes before the row's.                                             *)
RowFirst ==
  \A a \in Writers :
    /\ writer[a].at \in {"read", "write"} /\ writer[a].job # "enriching" =>
         docRow[Field(writer[a].job)] = Value(writer[a].job)
    /\ writer[a].job = "marking" => \A s \in redis : s.enrich \in {"", "processing"}

StatusInv ==
  /\ WritersOK /\ StatesOK
  /\ ~torn => OneAtWork /\ RedisAgrees /\ CopyAgrees /\ RowFirst

LEMMA ShownFollows == StatusInv => StatusShown
<1> SUFFICES ASSUME StatusInv, Quiet, ~torn, NEW f \in StateFields
             PROVE  Shown(f) = docRow[f] \/ (f = "parse" /\ resetRow)
  BY DEF StatusShown, StateFields
<1>1. \A a \in Writers : ~Settling(writer[a], f)
  BY DEF StatusInv, WritersOK, WriterOK, Quiet, Busy, Settling, Calls
<1>2. \A s \in redis : Agrees(s, f)
  BY <1>1 DEF StatusInv, RedisAgrees
<1>3. CASE \E s \in redis : s[f] # ""
  <2>1. PICK s \in redis : s[f] # ""
    BY <1>3
  <2>2. (CHOOSE t \in redis : TRUE) = s
    BY DEF StatusInv, StatesOK
  <2> QED BY <2>1, <2>2, <1>2, <1>3 DEF Shown, Agrees, AgreesWith
<1>4. CASE ~\E s \in redis : s[f] # ""
  BY <1>4 DEF Shown
<1> QED BY <1>3, <1>4

LEMMA JobIsWriter ==
  ASSUME NEW job \in Jobs
  PROVE  /\ WriterOK(Job(job)) /\ Job(job).job = job /\ Job(job).at = At(job)
         /\ Job(job).at # "write"
BY DEF WriterOK, Job, At, Jobs, Calls, InRow, InRedis, IsState, Blank, StateFields, WriterFields

LEMMA StatusInvAtFirst == StatusInit => StatusInv
<1> SUFFICES ASSUME StatusInit PROVE StatusInv
  OBVIOUS
<1>1. "none" \in Jobs /\ At("none") = "call"
  BY DEF Jobs, Calls, At
<1>2. \A a \in Writers : WriterOK(writer[a]) /\ writer[a].job = "none" /\ writer[a].at = "call"
  BY <1>1, JobIsWriter DEF StatusInit
<1>3. WritersOK
  BY <1>2 DEF StatusInit, WritersOK
<1>4. StatesOK
  BY DEF StatusInit, StatesOK, IsState, StateFields
<1>5. OneAtWork /\ RedisAgrees /\ CopyAgrees /\ RowFirst
  <2>1. waiting = 0 /\ redis = {}
    BY DEF StatusInit
  <2>2. OneAtWork
    BY <1>2, <2>1 DEF OneAtWork, Busy
  <2>3. RedisAgrees
    BY <2>1 DEF RedisAgrees
  <2>4. CopyAgrees /\ RowFirst
    BY <1>2 DEF CopyAgrees, RowFirst
  <2> QED BY <2>2, <2>3, <2>4
<1> QED BY <1>3, <1>4, <1>5 DEF StatusInv

LEMMA Turned ==
  ASSUME WritersOK, NEW a \in Writers, NEW w, Turn(a, w), WriterOK(w)
  PROVE  /\ WritersOK' /\ writer'[a] = w
         /\ \A b \in Writers : b # a => writer'[b] = writer[b]
<1>1. writer' = [b \in Writers |-> IF b = a THEN w ELSE writer[b]]
  BY DEF Turn, WritersOK
<1> QED BY <1>1 DEF WritersOK, WriterOK, IsState

(* A writer that is not alone, or was not, spoils nothing but what is no longer promised. *)
LEMMA TornSpoilsNothing ==
  ASSUME WritersOK', StatesOK', torn' = TRUE
  PROVE  StatusInv'
BY DEF StatusInv

(* The only writer moves on; what it leaves in Redis agrees with the row, or it is going *)
(* to write it.                                                                          *)
LEMMA TurnKeeps ==
  ASSUME StatusInv, NEW a \in Writers, NEW w, Turn(a, w), WriterOK(w), StatesOK', ~torn', ~torn,
         \A b \in Writers : b # a => ~Busy(b),
         waiting' \in {0, 1}, w.job # "none" => waiting' = 0,
         \A f \in StateFields : \A s \in redis' : AgreesWith(s, f, docRow', resetRow') \/ Settling(w, f),
         \A f \in StateFields : w.at = "write" => AgreesWith(w.copy, f, docRow', resetRow') \/ Settling(w, f),
         w.at \in {"read", "write"} /\ w.job # "enriching" => docRow'[Field(w.job)] = Value(w.job),
         w.job = "marking" => \A s \in redis' : s.enrich \in {"", "processing"}
  PROVE  StatusInv'
<1>1. /\ WritersOK' /\ writer'[a] = w
      /\ \A b \in Writers : b # a => writer'[b] = writer[b]
  BY Turned DEF StatusInv
<1>2. \A b \in Writers : b # a => writer'[b].job = "none" /\ writer'[b].at = "call"
  BY <1>1 DEF Busy, StatusInv, WritersOK, WriterOK, Calls
<1>3. OneAtWork'
  <2>2. \A b \in Writers : writer'[b].job # "none" => b = a /\ waiting' = 0
    BY <1>1, <1>2
  <2> QED BY <2>2 DEF OneAtWork, Busy
<1>4. RedisAgrees'
  BY <1>1 DEF RedisAgrees, Agrees
<1>5. CopyAgrees'
  BY <1>1, <1>2 DEF CopyAgrees, Agrees, Settling
<1>6. RowFirst'
  BY <1>1, <1>2 DEF RowFirst
<1> QED BY <1>1, <1>3, <1>4, <1>5, <1>6 DEF StatusInv

LEMMA Afters ==
  ASSUME NEW job \in Jobs, NEW next \in After(job)
  PROVE  /\ next \in Jobs \ {"enriching", "pending", "processing", "reset", "syncing"}
         /\ next = "schedule" <=> job = "completed"
         /\ next = "marking" <=> job = "enriching"
         /\ next = "stored" => job \in {"processing", "syncing"}
         /\ job = "syncing" => next \in {"stored", "completed", "failed"}
         /\ job = "marking" => next \in {"enriched", "unenriched"}
BY DEF After, Jobs, Calls

(* The job that follows, once Redis agrees with the row but for what that job is to write. *)
LEMMA NextKeeps ==
  ASSUME StatusInv, NEW a \in Writers, NextJob(a), StatesOK', ~torn', ~torn,
         \A b \in Writers : b # a => ~Busy(b), waiting' = 0,
         \A s \in redis' : AgreesWith(s, "parse", docRow', resetRow') \/ writer[a].job = "syncing",
         \A s \in redis' : AgreesWith(s, "enrich", docRow', resetRow')
                           \/ writer[a].job \in {"completed", "enriching"},
         writer[a].job = "enriching" => \A s \in redis' : s.enrich \in {"", "processing"},
         writer[a].job \in {"processing", "syncing"} => docRow'["parse"] = "processing"
  PROVE  StatusInv'
<1> DEFINE job == writer[a].job
<1>1. job \in Jobs
  BY DEF StatusInv, WritersOK, WriterOK
<1>2. PICK next \in After(job) : Turn(a, Job(next))
  BY DEF NextJob
<1>3. /\ next \in Jobs \ {"enriching", "pending", "processing", "reset", "syncing"}
      /\ next = "schedule" <=> job = "completed"
      /\ next = "marking" <=> job = "enriching"
      /\ next = "stored" => job \in {"processing", "syncing"}
      /\ job = "syncing" => next \in {"stored", "completed", "failed"}
  BY <1>1, Afters
<1>4. /\ WriterOK(Job(next)) /\ Job(next).job = next /\ Job(next).at = At(next)
      /\ Job(next).at # "write"
  BY <1>3, JobIsWriter
<1>5. At(next) = "read" => next = "stored"
  BY <1>3 DEF At, InRow
<1>6. next = "stored" => Field(next) = "parse" /\ Value(next) = "processing"
  BY DEF Field, Value, OnEnrichment
<1>7. \A f \in StateFields : \A s \in redis' : AgreesWith(s, f, docRow', resetRow') \/ Settling(Job(next), f)
  <2>1. job = "syncing" => Settling(Job(next), "parse")
    BY <1>3, <1>4 DEF Settling, Field, OnEnrichment, At, InRow
  <2> QED BY <1>3, <1>4, <2>1 DEF StateFields, Settling
<1> DEFINE w == Job(next)
<1>8. WriterOK(w) /\ Turn(a, w)
  BY <1>2, <1>4
<1>9. w.at # "write" /\ (w.at \in {"read", "write"} => w.job = "stored" /\ job \in {"processing", "syncing"})
  BY <1>3, <1>4, <1>5
<1>10. w.at \in {"read", "write"} /\ w.job # "enriching" => docRow'[Field(w.job)] = Value(w.job)
  BY <1>6, <1>9, <1>4
<1>11. w.job = "marking" => \A s \in redis' : s.enrich \in {"", "processing"}
  BY <1>3, <1>4
<1>12. waiting' \in {0, 1}
  OBVIOUS
<1> HIDE DEF w
<1> QED BY <1>7, <1>8, <1>9, <1>10, <1>11, <1>12, TurnKeeps DEF w

LEMMA NextIsOK ==
  ASSUME StatusInv, NEW a \in Writers, NextJob(a)
  PROVE  WritersOK'
<1>1. writer[a].job \in Jobs
  BY DEF StatusInv, WritersOK, WriterOK
<1>2. PICK next \in After(writer[a].job) : Turn(a, Job(next))
  BY DEF NextJob
<1>3. next \in Jobs
  BY <1>1, Afters
<1>4. WriterOK(Job(next))
  BY <1>3, JobIsWriter
<1>5. WritersOK
  BY DEF StatusInv
<1> QED BY <1>2, <1>4, <1>5, Turned

LEMMA Alone ==
  ASSUME StatusInv, ~torn, NEW a \in Writers, Busy(a)
  PROVE  /\ \A b \in Writers : b # a => ~Busy(b)
         /\ waiting = 0
         /\ \A f \in StateFields : \A s \in redis : AgreesWith(s, f, docRow, resetRow) \/ Settling(writer[a], f)
         /\ \A f \in StateFields : writer[a].at = "write" =>
              AgreesWith(writer[a].copy, f, docRow, resetRow) \/ Settling(writer[a], f)
<1>1. \A b \in Writers : b # a => ~Busy(b)
  BY DEF StatusInv, OneAtWork
<1>2. \A b \in Writers : b # a => writer[b].job = "none" /\ writer[b].at = "call"
  BY <1>1 DEF Busy, StatusInv, WritersOK, WriterOK, Calls
<1>3. \A b \in Writers : \A f : b # a => ~Settling(writer[b], f)
  BY <1>2 DEF Settling
<1>4. waiting = 0
  BY DEF StatusInv, OneAtWork
<1>5. \A f \in StateFields : \A s \in redis : AgreesWith(s, f, docRow, resetRow) \/ Settling(writer[a], f)
  BY <1>3 DEF StatusInv, RedisAgrees, Agrees
<1> QED BY <1>1, <1>4, <1>5 DEF StatusInv, CopyAgrees, Agrees

LEMMA AllAtRest ==
  ASSUME StatusInv, ~torn, \A a \in Writers : ~Busy(a)
  PROVE  \A f \in StateFields : \A s \in redis : AgreesWith(s, f, docRow, resetRow)
<1>1. \A b \in Writers : writer[b].job = "none" /\ writer[b].at = "call"
  BY DEF Busy, StatusInv, WritersOK, WriterOK, Calls
<1>2. \A b \in Writers : \A f : ~Settling(writer[b], f)
  BY <1>1 DEF Settling
<1> QED BY <1>2 DEF StatusInv, RedisAgrees, Agrees

LEMMA RowKeeps == ASSUME StatusInv, NEW a \in Writers, WriteRow(a) PROVE StatusInv'
<1> DEFINE job == writer[a].job
           w == [writer[a] EXCEPT !.at = "read"]
<1>1. WritersOK /\ StatesOK /\ WriterOK(writer[a]) /\ job \in Jobs \ Calls /\ writer[a].at = "row"
  BY DEF StatusInv, WritersOK, WriterOK, WriteRow, Calls
<1>2. UNCHANGED <<redis, waiting, uploads>>
  BY DEF WriteRow
<1>3. InRedis(job) => WriterOK(w) /\ w.job = job /\ w.at = "read"
  BY <1>1 DEF WriterOK, Calls, WriterFields
<1>4. ~InRedis(job) <=> job \in {"marking", "reset", "syncing"}
  BY DEF InRedis
<1>5. CASE /\ docRow' = [docRow EXCEPT ![Field(job)] = Value(job)]
           /\ resetRow' = (job = "reset" \/ (resetRow /\ ~(Field(job) = "parse" /\ InRedis(job))))
           /\ IF InRedis(job) THEN Turn(a, w) ELSE NextJob(a)
           /\ UNCHANGED torn
  <2>1. /\ IsState(docRow') /\ docRow'[Field(job)] = Value(job)
        /\ \A f \in StateFields : f # Field(job) => docRow'[f] = docRow[f]
    BY <1>1, <1>5 DEF IsState, StateFields, StatesOK, Field
  <2>2. StatesOK'
    BY <1>1, <1>2, <1>5, <2>1 DEF StatesOK
  <2>3. CASE torn
    <3>1. WritersOK'
      BY <1>1, <1>3, <1>5, Turned, NextIsOK
    <3> QED BY <3>1, <2>2, <2>3, <1>5, TornSpoilsNothing
  <2>4. CASE ~torn
    <3>1. /\ \A b \in Writers : b # a => ~Busy(b)
          /\ waiting = 0
          /\ \A f \in StateFields : \A s \in redis : AgreesWith(s, f, docRow, resetRow) \/ Settling(writer[a], f)
      BY <1>1, <2>4, Alone DEF Busy, Calls
    <3>2. \A f \in StateFields : Settling(writer[a], f) =>
            \/ f = "enrich" /\ job = "marking"
            \/ f = "parse" /\ job \in {"completed", "failed"}
      BY <1>1 DEF Settling, Calls
    <3>3. CASE InRedis(job)
      <4>1. Turn(a, w) /\ WriterOK(w) /\ w.job = job /\ w.at = "read" /\ job # "marking"
        BY <1>3, <1>4, <1>5, <3>3
      <4>2. \A f \in StateFields : \A s \in redis' : AgreesWith(s, f, docRow', resetRow') \/ Settling(w, f)
        <5>1. Field(job) = "parse" \/ Field(job) = "enrich"
          BY DEF Field
        <5>2. job \in {"completed", "failed"} => Field(job) = "parse"
          BY DEF Field, OnEnrichment
        <5>3. job # "reset"
          BY <1>4, <3>3
        <5> HIDE DEF w, job
        <5>4. SUFFICES ASSUME NEW f \in StateFields, NEW s \in redis, f # Field(job)
                       PROVE  AgreesWith(s, f, docRow', resetRow')
          BY <4>1, <1>2 DEF Settling
        <5>5. AgreesWith(s, f, docRow, resetRow)
          BY <3>1, <3>2, <4>1, <5>2, <5>4
        <5>6. docRow'[f] = docRow[f] /\ (f = "parse" => Field(job) = "enrich")
          BY <2>1, <5>1, <5>4 DEF StateFields
        <5>7. f = "parse" /\ resetRow => resetRow'
          BY <1>5, <5>6
        <5> QED BY <5>5, <5>6, <5>7 DEF AgreesWith
      <4>3. waiting' \in {0, 1} /\ waiting' = 0 /\ ~torn'
        BY <1>2, <1>5, <2>4, <3>1
      <4> HIDE DEF w, job
      <4> QED BY <4>1, <4>2, <4>3, <3>1, <2>1, <2>2, <2>4, TurnKeeps
    <3>4. CASE ~InRedis(job)
      <4>1. /\ NextJob(a) /\ job \in {"marking", "reset", "syncing"}
            /\ waiting' = 0 /\ ~torn' /\ redis' = redis
            /\ resetRow => resetRow'
            /\ job = "reset" => resetRow'
        BY <1>1, <1>2, <1>4, <1>5, <2>4, <3>1, <3>4 DEF StatesOK
      <4>2. \A s \in redis' : AgreesWith(s, "parse", docRow', resetRow') \/ job = "syncing"
        <5>1. CASE job = "marking"
          <6>1. docRow'["parse"] = docRow["parse"]
            BY <2>1, <5>1 DEF Field, OnEnrichment, StateFields
          <6>2. \A s \in redis : AgreesWith(s, "parse", docRow, resetRow)
            BY <3>1, <3>2, <5>1 DEF StateFields
          <6> QED BY <4>1, <6>1, <6>2 DEF AgreesWith
        <5>2. CASE job = "reset"
          BY <4>1, <5>2 DEF AgreesWith
        <5> QED BY <4>1, <5>1, <5>2
      <4>3. \A s \in redis' : AgreesWith(s, "enrich", docRow', resetRow')
        <5>1. CASE job = "marking"
          <6>1. docRow'["enrich"] = "processing"
            BY <2>1, <5>1 DEF Field, Value, OnEnrichment
          <6>2. \A s \in redis' : s["enrich"] \in {"", "processing"}
            BY <2>4, <4>1, <5>1 DEF StatusInv, RowFirst
          <6> QED BY <6>1, <6>2 DEF AgreesWith
        <5>2. CASE job # "marking"
          <6>1. docRow'["enrich"] = docRow["enrich"]
            BY <2>1, <4>1, <5>2 DEF Field, OnEnrichment, StateFields
          <6>2. \A s \in redis : AgreesWith(s, "enrich", docRow, resetRow)
            BY <3>1, <3>2, <5>2 DEF StateFields
          <6> QED BY <4>1, <6>1, <6>2 DEF AgreesWith
        <5> QED BY <5>1, <5>2
      <4>4. job \in {"processing", "syncing"} => docRow'["parse"] = "processing"
        BY <2>1 DEF Field, Value, OnEnrichment
      <4>5. job # "enriching"
        BY <4>1
      <4> QED BY <4>1, <4>2, <4>3, <4>4, <4>5, <3>1, <2>2, <2>4, NextKeeps
    <3> QED BY <3>3, <3>4
  <2> QED BY <2>3, <2>4
<1>6. CASE \E next \in GivenUp(job) : Turn(a, Job(next)) /\ UNCHANGED <<docRow, resetRow, torn>>
  <2>0. PICK next \in GivenUp(job) : Turn(a, Job(next)) /\ UNCHANGED <<docRow, resetRow, torn>>
    BY <1>6
  <2>1. job \in {"pending", "reset", "processing", "syncing"} /\ next \in {"none", "failed"}
    BY <2>0 DEF GivenUp
  <2> DEFINE v == Job(next)
  <2>2. WriterOK(v) /\ v.job = next /\ v.at \in {"call", "row"}
    BY <2>1, JobIsWriter DEF Jobs, Calls, At, InRow
  <2>3. Turn(a, v)
    BY <2>0
  <2>4. StatesOK'
    BY <1>1, <1>2, <2>0 DEF StatesOK
  <2> HIDE DEF v
  <2>5. CASE torn
    BY <2>0, <2>2, <2>3, <2>4, <2>5, <1>1, Turned, TornSpoilsNothing
  <2>6. CASE ~torn
    <3>1. /\ \A b \in Writers : b # a => ~Busy(b)
          /\ waiting = 0
          /\ \A f \in StateFields : \A s \in redis :
               AgreesWith(s, f, docRow, resetRow) \/ Settling(writer[a], f)
      BY <1>1, <2>6, Alone DEF Busy, Calls
    <3>2. \A f \in StateFields : ~Settling(writer[a], f)
      BY <1>1, <2>1 DEF Settling
    <3>3. \A f \in StateFields : \A s \in redis' : AgreesWith(s, f, docRow', resetRow') \/ Settling(v, f)
      BY <3>1, <3>2, <1>2, <2>0
    <3>4. waiting' \in {0, 1} /\ waiting' = 0 /\ ~torn'
      BY <1>2, <2>0, <2>6, <3>1
    <3>5. v.at \notin {"read", "write"} /\ v.job # "marking" /\ v.at # "write"
      BY <2>1, <2>2
    <3> QED BY <3>1, <3>3, <3>4, <3>5, <2>2, <2>3, <2>4, <2>6, TurnKeeps
  <2> QED BY <2>5, <2>6
<1>7. CASE /\ IF InRedis(job) THEN Turn(a, w) ELSE NextJob(a)
           /\ torn' = TRUE /\ UNCHANGED <<docRow, resetRow>>
  <2>1. WritersOK'
    BY <1>1, <1>3, <1>7, Turned, NextIsOK
  <2>2. StatesOK'
    BY <1>1, <1>2, <1>7 DEF StatesOK
  <2> QED BY <1>7, <2>1, <2>2, TornSpoilsNothing
<1> QED BY <1>5, <1>6, <1>7 DEF WriteRow

LEMMA BlankIsEmpty == \A f \in StateFields : Blank[f] = ""
<1>1. Blank.parse = "" /\ Blank.enrich = ""
  BY DEF Blank
<1> QED BY <1>1 DEF StateFields

LEMMA ReadKeeps == ASSUME StatusInv, NEW a \in Writers, ReadState(a) PROVE StatusInv'
<1>1. WritersOK /\ StatesOK /\ WriterOK(writer[a]) /\ writer[a].at = "read"
  BY DEF StatusInv, WritersOK, ReadState
<1>2. UNCHANGED <<docRow, redis, waiting, torn, resetRow>>
  BY DEF ReadState
<1>3. PICK state \in redis \cup {Blank} : Turn(a, [writer[a] EXCEPT !.at = "write", !.copy = state])
  BY DEF ReadState
<1> DEFINE w == [writer[a] EXCEPT !.at = "write", !.copy = state]
<1>4. IsState(state)
  BY <1>1 DEF StatesOK, IsState, Blank, StateFields
<1>5. WriterOK(w) /\ w.job = writer[a].job /\ w.at = "write" /\ w.copy = state
  BY <1>1, <1>4 DEF WriterOK, Calls, WriterFields
<1>6. Turn(a, w)
  BY <1>3
<1>7. StatesOK'
  BY <1>1, <1>2 DEF StatesOK
<1> HIDE DEF w
<1>8. CASE torn
  BY <1>1, <1>2, <1>5, <1>6, <1>7, <1>8, Turned, TornSpoilsNothing
<1>9. CASE ~torn
  <2>1. /\ \A b \in Writers : b # a => ~Busy(b)
        /\ waiting = 0
        /\ \A f \in StateFields : \A s \in redis : AgreesWith(s, f, docRow, resetRow) \/ Settling(writer[a], f)
    BY <1>1, <1>9, Alone DEF Busy, Calls, WriterOK
  <2>2. \A f \in StateFields : Settling(writer[a], f) => Settling(w, f)
    BY <1>1, <1>5 DEF Settling
  <2>3. \A f \in StateFields : \A s \in redis' : AgreesWith(s, f, docRow', resetRow') \/ Settling(w, f)
    BY <1>2, <2>1, <2>2
  <2>4. \A f \in StateFields : AgreesWith(w.copy, f, docRow', resetRow') \/ Settling(w, f)
    <3>1. CASE state = Blank
      BY <3>1, <1>5, BlankIsEmpty DEF AgreesWith
    <3>2. CASE state \in redis
      <4>1. \A f \in StateFields : AgreesWith(state, f, docRow, resetRow) \/ Settling(writer[a], f)
        BY <3>2, <2>1
      <4> QED BY <4>1, <1>2, <1>5, <2>2
    <3> QED BY <3>1, <3>2
  <2>5. w.job # "enriching" => docRow'[Field(w.job)] = Value(w.job)
    BY <1>1, <1>2, <1>5, <1>9 DEF StatusInv, RowFirst
  <2>6. w.job # "marking"
    BY <1>5 DEF WriterOK, InRedis
  <2>7. waiting' \in {0, 1} /\ waiting' = 0 /\ ~torn'
    BY <1>2, <1>9, <2>1
  <2> QED BY <1>5, <1>6, <1>7, <1>9, <2>1, <2>3, <2>4, <2>5, <2>6, <2>7, TurnKeeps
<1> QED BY <1>8, <1>9

(* What is written to Redis is the job's field, and the rest as it was read. *)
LEMMA MutatedIs ==
  ASSUME NEW job, NEW copy, IsState(copy)
  PROVE  /\ IsState(Mutated(job, copy))
         /\ Field(job) = "parse" => /\ Mutated(job, copy)["parse"] = Value(job)
                                    /\ job # "completed" => Mutated(job, copy)["enrich"] = copy["enrich"]
         /\ Field(job) = "enrich" => /\ Mutated(job, copy)["enrich"] = Value(job)
                                     /\ job # "completed" => Mutated(job, copy)["parse"] = copy["parse"]
<1> DEFINE state == [copy EXCEPT ![Field(job)] = Value(job)]
<1>1. Field(job) \in StateFields
  BY DEF Field, StateFields
<1>2. /\ IsState(state) /\ state[Field(job)] = Value(job)
      /\ \A f \in StateFields : f # Field(job) => state[f] = copy[f]
  BY <1>1 DEF IsState, StateFields
<1>3. Mutated(job, copy) =
        IF job = "completed" /\ state.enrich = "" THEN [state EXCEPT !.enrich = "pending"] ELSE state
  BY DEF Mutated
<1> HIDE DEF state
<1>4. CASE job = "completed" /\ state.enrich = ""
  <2>1. Field(job) = "parse"
    BY <1>4 DEF Field, OnEnrichment
  <2>2. IsState([state EXCEPT !.enrich = "pending"]) /\ [state EXCEPT !.enrich = "pending"]["parse"] = state["parse"]
    BY <1>2 DEF IsState, StateFields
  <2> QED BY <2>1, <2>2, <1>2, <1>3, <1>4
<1>5. CASE ~(job = "completed" /\ state.enrich = "")
  BY <1>2, <1>3, <1>5 DEF StateFields
<1> QED BY <1>4, <1>5

(* The write back to Redis. *)
LEMMA WriteKeeps == ASSUME StatusInv, NEW a \in Writers, WriteState(a) PROVE StatusInv'
<1> DEFINE job == writer[a].job
           copy == writer[a].copy
           new == Mutated(job, copy)
<1>1. /\ WritersOK /\ StatesOK /\ WriterOK(writer[a]) /\ writer[a].at = "write"
      /\ job \in Jobs \ Calls /\ InRedis(job)
  BY DEF StatusInv, WritersOK, WriterOK, WriteState, Calls
<1>2. NextJob(a) /\ UNCHANGED <<docRow, waiting, uploads, resetRow>>
  BY DEF WriteState
<1>3. WritersOK'
  BY <1>2, NextIsOK
<1>4. /\ IsState(new)
      /\ Field(job) = "parse" => /\ new["parse"] = Value(job)
                                 /\ job # "completed" => new["enrich"] = copy["enrich"]
      /\ Field(job) = "enrich" => /\ new["enrich"] = Value(job)
                                  /\ job # "completed" => new["parse"] = copy["parse"]
  BY <1>1, MutatedIs DEF WriterOK
<1>5. CASE torn' = TRUE /\ UNCHANGED redis
  <2>1. StatesOK'
    BY <1>1, <1>2, <1>5 DEF StatesOK
  <2> QED BY <1>3, <1>5, <2>1, TornSpoilsNothing
<1>6. CASE redis' = {new} /\ UNCHANGED torn
  <2>1. StatesOK'
    <3> HIDE DEF new
    <3> QED BY <1>1, <1>2, <1>4, <1>6 DEF StatesOK
  <2>2. CASE torn
    BY <1>3, <1>6, <2>1, <2>2, TornSpoilsNothing
  <2>3. CASE ~torn
    <3>1. /\ \A b \in Writers : b # a => ~Busy(b)
          /\ waiting = 0
          /\ \A f \in StateFields : AgreesWith(copy, f, docRow, resetRow) \/ Settling(writer[a], f)
      BY <1>1, <2>3, Alone DEF Busy, Calls
    <3>2. job # "marking"
      BY <1>1 DEF InRedis
    <3>3. \A f \in StateFields : f # Field(job) => AgreesWith(copy, f, docRow, resetRow)
      <4>1. \A f \in StateFields : Settling(writer[a], f) => f = Field(job)
        BY <1>1, <3>2 DEF Settling, Calls
      <4> QED BY <3>1, <4>1
    <3>4. job # "enriching" => docRow[Field(job)] = Value(job)
      BY <1>1, <2>3 DEF StatusInv, RowFirst
    <3>5. Field(job) \in {"parse", "enrich"} /\ (job \in OnEnrichment <=> Field(job) = "enrich")
      BY DEF Field
    <3>6. "enriching" \in OnEnrichment /\ "completed" \notin OnEnrichment /\ "processing" \notin OnEnrichment
      BY DEF OnEnrichment
    <3>7. Value("enriching") = "processing" /\ Value("processing") = "processing"
      BY DEF Value
    <3>8. "parse" \in StateFields /\ "enrich" \in StateFields
      BY DEF StateFields
    <3> HIDE DEF new, job, copy
    <3>9. AgreesWith(new, "parse", docRow, resetRow)
      BY <1>4, <3>3, <3>4, <3>5, <3>6, <3>8 DEF AgreesWith
    <3>10. AgreesWith(new, "enrich", docRow, resetRow) \/ job \in {"completed", "enriching"}
      BY <1>4, <3>3, <3>4, <3>5, <3>6, <3>8 DEF AgreesWith
    <3>11. job = "enriching" => new["enrich"] = "processing"
      BY <1>4, <3>5, <3>6, <3>7
    <3>12. job \in {"processing", "syncing"} => docRow["parse"] = "processing"
      BY <1>1, <3>4, <3>5, <3>6, <3>7 DEF InRedis
    <3>13. waiting' = 0 /\ ~torn' /\ docRow' = docRow /\ resetRow' = resetRow
      BY <1>2, <1>6, <2>3, <3>1
    <3>14. \A s \in redis' : s = new
      BY <1>6
    <3> QED BY <1>2, <2>1, <2>3, <3>1, <3>9, <3>10, <3>11, <3>12, <3>13, <3>14, NextKeeps DEF job
  <2> QED BY <2>2, <2>3
<1> QED BY <1>5, <1>6 DEF WriteState

LEMMA BeginJobKeeps ==
  ASSUME StatusInv, NEW a \in Writers, NEW job \in {"pending", "reset", "syncing"}, BeginJob(a, job)
  PROVE  StatusInv'
<1>1. WritersOK /\ StatesOK
  BY DEF StatusInv
<1>2. UNCHANGED <<docRow, redis, waiting, resetRow>> /\ Turn(a, Job(job)) /\ torn' = (torn \/ ~Quiet)
  BY DEF BeginJob
<1>3. WriterOK(Job(job)) /\ Job(job).job = job /\ Job(job).at = "row"
  BY JobIsWriter DEF Jobs, At, InRow
<1>4. StatesOK'
  BY <1>1, <1>2 DEF StatesOK
<1>5. CASE torn \/ ~Quiet
  BY <1>1, <1>2, <1>3, <1>4, <1>5, Turned, TornSpoilsNothing
<1>6. CASE ~torn /\ Quiet
  <2>1. /\ \A b \in Writers : ~Busy(b)
        /\ \A f \in StateFields : \A s \in redis' : AgreesWith(s, f, docRow', resetRow')
        /\ waiting' = 0 /\ waiting' \in {0, 1} /\ ~torn'
    BY <1>2, <1>6, AllAtRest DEF Quiet
  <2> QED BY <1>1, <1>2, <1>3, <1>4, <1>6, <2>1, TurnKeeps
<1> QED BY <1>5, <1>6 DEF StatesOK

LEMMA UploadKeeps ==
  ASSUME StatusInv, UploadAgain \/ ReindexDocument \/ StartSync
  PROVE  StatusInv'
<1>1. "request" \in Writers /\ "sync" \in Writers
  BY DEF Writers, Importers
<1> QED BY <1>1, BeginJobKeeps DEF UploadAgain, ReindexDocument, StartSync

LEMMA TakeKeeps == ASSUME StatusInv, TakeImport PROVE StatusInv'
<1>1. "worker" \in Writers /\ WritersOK /\ StatesOK /\ waiting > 0
  BY DEF Writers, Importers, StatusInv, TakeImport
<1>2. UNCHANGED <<docRow, redis, torn, resetRow>> /\ Turn("worker", Job("processing")) /\ waiting' = waiting - 1
  BY DEF TakeImport
<1>3. WriterOK(Job("processing")) /\ Job("processing").job = "processing" /\ Job("processing").at = "row"
  BY JobIsWriter DEF Jobs, At, InRow
<1>4. StatesOK'
  <2>1. waiting' \in Nat
    BY <1>1, <1>2 DEF StatesOK
  <2> QED BY <1>1, <1>2, <2>1 DEF StatesOK
<1>5. CASE torn
  BY <1>1, <1>2, <1>3, <1>4, <1>5, Turned, TornSpoilsNothing
<1>6. CASE ~torn
  <2>1. waiting \in {0, 1} /\ \A b \in Writers : Busy(b) => waiting = 0
    BY <1>6 DEF StatusInv, OneAtWork
  <2>2. waiting' = 0 /\ waiting # 0
    BY <1>1, <1>2, <2>1
  <2>3. /\ \A b \in Writers : ~Busy(b)
        /\ \A f \in StateFields : \A s \in redis' : AgreesWith(s, f, docRow', resetRow')
        /\ waiting' \in {0, 1} /\ ~torn'
    BY <1>2, <1>6, <2>1, <2>2, AllAtRest
  <2> QED BY <1>1, <1>2, <1>3, <1>4, <1>6, <2>2, <2>3, TurnKeeps
<1> QED BY <1>5, <1>6

LEMMA EnqueueKeeps == ASSUME StatusInv, Enqueue PROVE StatusInv'
<1>1. /\ "request" \in Writers /\ WritersOK /\ StatesOK /\ writer["request"].job \in {"enqueue", "requeue"}
      /\ writer["request"].at = "call"
  BY DEF Writers, StatusInv, Enqueue, WritersOK, WriterOK, Calls
<1>2. UNCHANGED <<docRow, redis, torn, resetRow>>
  BY DEF Enqueue
<1>3. PICK job \in {"none", "failed"} : /\ Turn("request", Job(job))
                                        /\ \/ job = "none" /\ waiting' = waiting + 1
                                           \/ waiting' = waiting
  BY DEF Enqueue
<1>4. /\ WriterOK(Job(job)) /\ Job(job).job = job /\ Job(job).at \in {"call", "row"}
  BY <1>3, JobIsWriter DEF Jobs, Calls, At, InRow
<1>5. StatesOK'
  <2>1. waiting' \in Nat
    BY <1>1, <1>3 DEF StatesOK
  <2> QED BY <1>1, <1>2, <2>1 DEF StatesOK
<1>6. CASE torn
  BY <1>1, <1>2, <1>3, <1>4, <1>5, <1>6, Turned, TornSpoilsNothing
<1>7. CASE ~torn
  <2>1. /\ \A b \in Writers : b # "request" => ~Busy(b)
        /\ waiting = 0
        /\ \A f \in StateFields : \A s \in redis : AgreesWith(s, f, docRow, resetRow) \/ Settling(writer["request"], f)
    BY <1>1, <1>7, Alone DEF Busy
  <2>2. \A f \in StateFields : ~Settling(writer["request"], f)
    BY <1>1 DEF Settling
  <2>3. \A f \in StateFields : \A s \in redis' : AgreesWith(s, f, docRow', resetRow') \/ Settling(Job(job), f)
    BY <1>2, <2>1, <2>2
  <2>4. waiting' \in {0, 1} /\ (job # "none" => waiting' = 0)
    <3>1. waiting = 0
      BY <2>1
    <3>2. waiting + 1 = 1
      BY <3>1
    <3> QED BY <1>3, <3>1, <3>2
  <2> QED BY <1>1, <1>2, <1>3, <1>4, <1>5, <1>7, <2>1, <2>3, <2>4, TurnKeeps
<1> QED BY <1>6, <1>7

LEMMA ScheduleKeeps == ASSUME StatusInv, NEW a \in Importers, ScheduleEnrichment(a) PROVE StatusInv'
<1>1. /\ a \in Writers /\ WritersOK /\ StatesOK /\ writer[a].job = "schedule"
      /\ writer[a].at = "call" /\ UNCHANGED <<docRow, redis, torn, waiting, resetRow>>
  BY DEF Writers, StatusInv, ScheduleEnrichment, WritersOK, WriterOK, Calls
<1>2. PICK e \in Enrichments :
        /\ ~Busy(e)
        /\ writer' = [writer EXCEPT ![a] = Job("none"), ![e] = Job("enriching")]
  BY DEF ScheduleEnrichment
<1>3. e \in Writers /\ e # a /\ Busy(a)
  BY <1>1, <1>2 DEF Writers, Busy
<1>4. /\ WriterOK(Job("none")) /\ Job("none").job = "none" /\ Job("none").at = "call"
      /\ WriterOK(Job("enriching")) /\ Job("enriching").job = "enriching" /\ Job("enriching").at = "read"
  BY JobIsWriter DEF Jobs, Calls, At, InRow
<1>5. /\ writer' = [b \in Writers |-> IF b = e THEN Job("enriching")
                                      ELSE IF b = a THEN Job("none") ELSE writer[b]]
  BY <1>1, <1>2, <1>3 DEF WritersOK
<1>6. /\ writer'[a] = Job("none") /\ writer'[e] = Job("enriching")
      /\ \A b \in Writers : b \notin {e, a} => writer'[b] = writer[b]
  BY <1>1, <1>3, <1>5
<1>7. WritersOK'
  <2>1. writer' = [b \in Writers |-> writer'[b]]
    BY <1>5
  <2>2. \A b \in Writers : WriterOK(writer'[b])
    BY <1>1, <1>4, <1>6 DEF WritersOK
  <2> QED BY <2>1, <2>2 DEF WritersOK, WriterOK, IsState
<1>8. StatesOK'
  BY <1>1 DEF StatesOK
<1>9. CASE torn
  BY <1>1, <1>7, <1>8, <1>9, TornSpoilsNothing
<1>10. CASE ~torn
  <2>1. /\ \A b \in Writers : b # a => ~Busy(b)
        /\ waiting = 0
        /\ \A f \in StateFields : \A s \in redis : AgreesWith(s, f, docRow, resetRow) \/ Settling(writer[a], f)
    BY <1>1, <1>3, <1>10, Alone
  <2>2. \A b \in Writers : b # e => writer'[b].job = "none" /\ writer'[b].at = "call"
    <3>1. \A b \in Writers : b \notin {e, a} => writer[b].job = "none" /\ writer[b].at = "call"
      BY <1>1, <2>1 DEF Busy, WritersOK, WriterOK, Calls
    <3> QED BY <3>1, <1>4, <1>6
  <2>3. Field("enriching") = "enrich"
    BY DEF Field, OnEnrichment
  <2>4. Settling(writer'[e], "enrich")
    BY <1>4, <1>6, <2>3 DEF Settling
  <2>5. \A s \in redis' : AgreesWith(s, "parse", docRow', resetRow')
    BY <1>1, <2>1 DEF Settling, StateFields
  <2>6. OneAtWork'
    BY <1>1, <1>3, <2>1, <2>2 DEF OneAtWork, Busy
  <2>7. RedisAgrees'
    BY <1>3, <2>4, <2>5 DEF RedisAgrees, Agrees, StateFields
  <2>8. CopyAgrees' /\ RowFirst'
    BY <1>3, <1>4, <1>6, <2>2 DEF CopyAgrees, RowFirst
  <2> QED BY <1>7, <1>8, <2>6, <2>7, <2>8 DEF StatusInv
<1> QED BY <1>9, <1>10

LEMMA ExpiryKeeps == ASSUME StatusInv, ExpireState PROVE StatusInv'
<1>1. redis' = {} /\ UNCHANGED <<docRow, writer, waiting, torn, resetRow>>
  BY DEF ExpireState
<1>2. WritersOK' /\ StatesOK'
  BY <1>1 DEF StatusInv, WritersOK, WriterOK, StatesOK, IsState
<1>3. ~torn => OneAtWork' /\ RedisAgrees' /\ CopyAgrees' /\ RowFirst'
  <2> SUFFICES ASSUME ~torn PROVE OneAtWork' /\ RedisAgrees' /\ CopyAgrees' /\ RowFirst'
    OBVIOUS
  <2>1. OneAtWork'
    BY <1>1 DEF StatusInv, OneAtWork, Busy
  <2>2. RedisAgrees'
    BY <1>1 DEF RedisAgrees
  <2>3. CopyAgrees'
    BY <1>1 DEF StatusInv, CopyAgrees, Agrees, Settling
  <2>4. RowFirst'
    BY <1>1 DEF StatusInv, RowFirst
  <2> QED BY <2>1, <2>2, <2>3, <2>4
<1> QED BY <1>1, <1>2, <1>3 DEF StatusInv

LEMMA StatusInvKept == StatusInv /\ [StatusNext]_statusVars => StatusInv'
<1> SUFFICES ASSUME StatusInv, [StatusNext]_statusVars PROVE StatusInv'
  OBVIOUS
<1>1. CASE UNCHANGED statusVars
  <2>1. UNCHANGED <<docRow, redis, writer, waiting, torn, resetRow>>
    BY <1>1 DEF statusVars
  <2>2. WritersOK' /\ StatesOK'
    BY <2>1 DEF StatusInv, WritersOK, WriterOK, StatesOK, IsState
  <2>3. ~torn => OneAtWork'
    BY <2>1 DEF StatusInv, OneAtWork, Busy
  <2>4. ~torn => RedisAgrees'
    BY <2>1 DEF StatusInv, RedisAgrees, Agrees, Settling
  <2>5. ~torn => CopyAgrees'
    BY <2>1 DEF StatusInv, CopyAgrees, Agrees, Settling
  <2>6. ~torn => RowFirst'
    BY <2>1 DEF StatusInv, RowFirst
  <2> QED BY <2>1, <2>2, <2>3, <2>4, <2>5, <2>6 DEF StatusInv
<1> QED BY <1>1, UploadKeeps, TakeKeeps, EnqueueKeeps, ScheduleKeeps, ExpiryKeeps, RowKeeps, ReadKeeps,
           WriteKeeps DEF StatusNext, StatusOver

(* For any enrichments, and any number of uploads, reindexings, syncs, failed calls and      *)
(* expired states: when nobody is at work on the document, the status that is shown is the   *)
(* row's, unless two writers were at work at once or a write was lost; the import's, unless  *)
(* a reindex also reset the row and no job has told both since.                              *)
(* (api.go, ProcessImportTask, ReindexDocument, SyncDocument, writeImportTaskState.)         *)
THEOREM StatusIsShown == StatusSpec => []StatusShown
<1>1. StatusSpec => []StatusInv
  BY StatusInvAtFirst, StatusInvKept, PTL DEF StatusSpec
<1> QED BY <1>1, ShownFollows, PTL

---------------------------------------------------------------------------
\* The graph.

NodeFields == {"maker", "kb", "name", "type", "chunks"}

\* A node has no type, or one that a chunk of its knowledge base gives its name.
NodesOK ==
  \A n \in nodes : /\ n = [f \in NodeFields |-> n[f]]
                   /\ n.kb \in GraphKbs /\ n.name \in Names
                   /\ n.type \in {""} \cup TypesOf(n.kb, n.name)

NamesOnce ==
  \A kb \in GraphKbs \ doubled : \A n, m \in InKb(kb) : n.name = m.name => n = m

ChunkInGraph(kb, c) ==
  /\ \A name \in Mentioned(Says[c]) : \E n \in Named(kb, name) : c \in n.chunks
  /\ \A r \in Relations(Says[c]) : [kb |-> kb, from |-> r.from, to |-> r.to, via |-> r.via] \in edges

\* What is stored of a chunk stays until its knowledge base is deleted.
ChunksInGraph ==
  \A k \in inGraph : k[1] \in GraphKbs /\ k[2] \in AllChunks /\ ChunkInGraph(k[1], k[2])

GraphInv == NodesOK /\ NamesOnce /\ ChunksInGraph

---------------------------------------------------------------------------
LEMMA GraphInvHoldsAtFirst == GraphInit => GraphInv
BY DEF GraphInit, GraphInv, NodesOK, NamesOnce, ChunksInGraph, InKb

\* What a merge makes of a node that was there, and of a name that was not.
WithChunk(n, c, kb, names) ==
  IF n.kb = kb /\ n.name \in names THEN [n EXCEPT !.chunks = @ \union {c}] ELSE n

Created(b, c) == {name \in Mentioned(Says[c]) : name \notin build[b].saw[c] \/ Named(GraphOf[b], name) = {}}

NewNode(c, kb, name) ==
  [maker |-> c, kb |-> kb, name |-> name, type |-> TypeIn(Says[c], name), chunks |-> {c}]

LEMMA MergeIs ==
  ASSUME NEW b, NEW c, Merge(b, c)
  PROVE  nodes' = {WithChunk(n, c, GraphOf[b], Mentioned(Says[c]) \ Created(b, c)) : n \in nodes}
                    \union {NewNode(c, GraphOf[b], name) : name \in Created(b, c)}
BY DEF Merge, WithChunk, Created, NewNode

LEMMA WithChunkIs ==
  ASSUME NEW n, n = [f \in NodeFields |-> n[f]], NEW c, NEW kb, NEW names
  PROVE  LET x == WithChunk(n, c, kb, names)
         IN  /\ x = [f \in NodeFields |-> x[f]]
             /\ x.kb = n.kb /\ x.name = n.name /\ x.type = n.type
             /\ n.chunks \subseteq x.chunks
             /\ n.kb = kb /\ n.name \in names => c \in x.chunks
<1>1. CASE n.kb = kb /\ n.name \in names
  <2> DEFINE x == [n EXCEPT !.chunks = @ \union {c}]
  <2>1. x = [f \in NodeFields |-> IF f = "chunks" THEN n.chunks \union {c} ELSE n[f]]
    BY DEF NodeFields
  <2>2. WithChunk(n, c, kb, names) = x
    BY <1>1 DEF WithChunk
  <2> HIDE DEF x
  <2> QED BY <2>1, <2>2 DEF NodeFields
<1>2. CASE ~(n.kb = kb /\ n.name \in names)
  <2>1. WithChunk(n, c, kb, names) = n
    BY <1>2 DEF WithChunk
  <2> QED BY <2>1, <1>2
<1> QED BY <1>1, <1>2

LEMMA NewNodeIs ==
  ASSUME NEW c, NEW kb, NEW name
  PROVE  LET x == NewNode(c, kb, name)
         IN  /\ x = [f \in NodeFields |-> x[f]]
             /\ x.kb = kb /\ x.name = name /\ x.type = TypeIn(Says[c], name) /\ x.chunks = {c}
BY DEF NewNode, NodeFields

LEMMA AddGraphKeeps ==
  ASSUME GraphInv, NEW b \in Builds, NEW c \in All(b), AddGraph(b, c)
  PROVE  GraphInv'
<1> DEFINE kb == GraphOf[b]
           merged == Mentioned(Says[c]) \ Created(b, c)
           New(name) == NewNode(c, kb, name)
           Old(n) == WithChunk(n, c, kb, merged)
<1>0. CASE UNCHANGED <<nodes, edges, inGraph, doubled>>
  BY <1>0 DEF GraphInv, NodesOK, NamesOnce, ChunksInGraph, ChunkInGraph, InKb, Named
<1>1. CASE /\ Merge(b, c)
           /\ edges' = edges \union {[kb |-> kb, from |-> r.from, to |-> r.to, via |-> r.via] : r \in Relations(Says[c])}
           /\ inGraph' = inGraph \union {<<kb, c>>}
           /\ doubled' = IF \E name \in Mentioned(Says[c]) \ build[b].saw[c] : Named(kb, name) # {}
                         THEN doubled \union {kb} ELSE doubled
  <2>1. nodes' = {Old(n) : n \in nodes} \union {New(name) : name \in Created(b, c)}
    BY <1>1, MergeIs
  <2>2. \A n \in nodes : /\ Old(n) = [f \in NodeFields |-> Old(n)[f]]
                         /\ Old(n).kb = n.kb /\ Old(n).name = n.name /\ Old(n).type = n.type
                         /\ n.chunks \subseteq Old(n).chunks
                         /\ n.kb = kb /\ n.name \in merged => c \in Old(n).chunks
    <3> SUFFICES ASSUME NEW n \in nodes
                 PROVE  /\ Old(n) = [f \in NodeFields |-> Old(n)[f]]
                        /\ Old(n).kb = n.kb /\ Old(n).name = n.name /\ Old(n).type = n.type
                        /\ n.chunks \subseteq Old(n).chunks
                        /\ n.kb = kb /\ n.name \in merged => c \in Old(n).chunks
      OBVIOUS
    <3>1. n = [f \in NodeFields |-> n[f]]
      BY DEF GraphInv, NodesOK
    <3> QED BY <3>1, WithChunkIs
  <2>3. \A name : /\ New(name) = [f \in NodeFields |-> New(name)[f]]
                  /\ New(name).kb = kb /\ New(name).name = name
                  /\ New(name).type = TypeIn(Says[c], name) /\ New(name).chunks = {c}
    BY NewNodeIs
  <2>4. Created(b, c) \subseteq Mentioned(Says[c]) /\ Mentioned(Says[c]) \subseteq Names
        /\ kb \in GraphKbs /\ c \in AllChunks
    BY GraphAssumption DEF Created, AllChunks
  <2>5. \A name \in Created(b, c) : TypeIn(Says[c], name) \in {""} \cup TypesOf(kb, name)
    BY DEF TypesOf
  <2>6. \A name \in merged : Named(kb, name) # {}
    BY DEF Created
  <2>7. kb \notin doubled' => kb \notin doubled /\ \A name \in Created(b, c) : Named(kb, name) = {}
    BY <1>1 DEF Created
  <2>8. doubled \subseteq doubled'
    BY <1>1
  <2> HIDE DEF New, Old, kb, merged
  <2>9. NodesOK'
    <3> SUFFICES ASSUME NEW x \in nodes'
                 PROVE  /\ x = [f \in NodeFields |-> x[f]]
                        /\ x.kb \in GraphKbs /\ x.name \in Names
                        /\ x.type \in {""} \cup TypesOf(x.kb, x.name)
      BY DEF NodesOK, TypesOf
    <3>1. CASE \E n \in nodes : x = Old(n)
      BY <3>1, <2>2 DEF GraphInv, NodesOK
    <3>2. CASE \E name \in Created(b, c) : x = New(name)
      <4>1. PICK name \in Created(b, c) : x = New(name)
        BY <3>2
      <4>2. /\ x = [f \in NodeFields |-> x[f]] /\ x.kb = kb /\ x.name = name
            /\ x.type = TypeIn(Says[c], name)
        BY <4>1, <2>3
      <4> QED BY <4>2, <2>4, <2>5
    <3> QED BY <2>1, <3>1, <3>2
  <2>10. NamesOnce'
    <3> SUFFICES ASSUME NEW k \in GraphKbs, k \notin doubled', NEW x \in nodes', NEW y \in nodes',
                        x.kb = k, y.kb = k, x.name = y.name
                 PROVE  x = y
      BY DEF NamesOnce, InKb
    <3>1. \A n, m \in nodes : n.kb = k /\ m.kb = k /\ n.name = m.name => n = m
      BY <2>8 DEF GraphInv, NamesOnce, InKb
    <3>2. \A n \in nodes, name \in Created(b, c) : n.kb = k /\ kb = k => n.name # name
      BY <2>7 DEF Named, InKb
    <3>3. CASE \E n, m \in nodes : x = Old(n) /\ y = Old(m)
      BY <3>3, <3>1, <2>2
    <3>4. CASE \E n \in nodes, name \in Created(b, c) :
                 (x = Old(n) /\ y = New(name)) \/ (y = Old(n) /\ x = New(name))
      BY <3>4, <3>2, <2>2, <2>3
    <3>5. CASE \E name, other \in Created(b, c) : x = New(name) /\ y = New(other)
      <4>1. PICK name, other \in Created(b, c) : x = New(name) /\ y = New(other)
        BY <3>5
      <4>2. x.name = name /\ y.name = other
        BY <4>1, <2>3
      <4> QED BY <4>1, <4>2
    <3>6. (\E n \in nodes : x = Old(n)) \/ (\E name \in Created(b, c) : x = New(name))
      BY <2>1
    <3>7. (\E n \in nodes : y = Old(n)) \/ (\E name \in Created(b, c) : y = New(name))
      BY <2>1
    <3> QED BY <3>3, <3>4, <3>5, <3>6, <3>7
  <2>11. ASSUME NEW k, NEW d, ChunkInGraph(k, d)
         PROVE  ChunkInGraph(k, d)'
    <3>1. \A name \in Mentioned(Says[d]) : \E n \in Named(k, name)' : d \in n.chunks
      <4> SUFFICES ASSUME NEW name \in Mentioned(Says[d])
                   PROVE  \E n \in Named(k, name)' : d \in n.chunks
        OBVIOUS
      <4>1. PICK n \in nodes : n.kb = k /\ n.name = name /\ d \in n.chunks
        BY <2>11 DEF ChunkInGraph, Named, InKb
      <4>2. Old(n) \in nodes' /\ Old(n).kb = k /\ Old(n).name = name /\ d \in Old(n).chunks
        BY <4>1, <2>1, <2>2
      <4> QED BY <4>2 DEF Named, InKb
    <3>2. \A r \in Relations(Says[d]) : [kb |-> k, from |-> r.from, to |-> r.to, via |-> r.via] \in edges'
      BY <2>11, <1>1 DEF ChunkInGraph
    <3> QED BY <3>1, <3>2 DEF ChunkInGraph
  <2>12. ChunkInGraph(kb, c)'
    <3>1. \A name \in Mentioned(Says[c]) : \E n \in Named(kb, name)' : c \in n.chunks
      <4> SUFFICES ASSUME NEW name \in Mentioned(Says[c])
                   PROVE  \E n \in nodes' : n.kb = kb /\ n.name = name /\ c \in n.chunks
        BY DEF Named, InKb
      <4>1. CASE name \in Created(b, c)
        BY <4>1, <2>1, <2>3
      <4>2. CASE name \notin Created(b, c)
        <5>1. name \in merged
          BY <4>2 DEF merged
        <5>2. PICK n \in nodes : n.kb = kb /\ n.name = name
          BY <5>1, <2>6 DEF Named, InKb
        <5> QED BY <5>1, <5>2, <2>1, <2>2
      <4> QED BY <4>1, <4>2
    <3>2. \A r \in Relations(Says[c]) : [kb |-> kb, from |-> r.from, to |-> r.to, via |-> r.via] \in edges'
      BY <1>1 DEF kb
    <3> QED BY <3>1, <3>2 DEF ChunkInGraph
  <2>13. ChunksInGraph'
    <3> SUFFICES ASSUME NEW k \in inGraph'
                 PROVE  k[1] \in GraphKbs /\ k[2] \in AllChunks /\ ChunkInGraph(k[1], k[2])'
      BY DEF ChunksInGraph
    <3>1. CASE k \in inGraph
      BY <3>1, <2>11 DEF GraphInv, ChunksInGraph
    <3>2. CASE k = <<kb, c>>
      BY <3>2, <2>12, <2>4
    <3> QED BY <1>1, <3>1, <3>2 DEF kb
  <2> QED BY <2>9, <2>10, <2>13 DEF GraphInv
<1> QED BY <1>0, <1>1 DEF AddGraph

LEMMA GraphDeletionKeeps ==
  ASSUME GraphInv, NEW kb, nodes' = nodes \/ nodes' = {n \in nodes : n.kb # kb},
         edges' = edges \/ edges' = {e \in edges : e.kb # kb},
         inGraph' = {k \in inGraph : k[1] # kb},
         \/ doubled' = doubled
         \/ nodes' = {n \in nodes : n.kb # kb} /\ doubled' = doubled \ {kb}
  PROVE  GraphInv'
<1>1. NodesOK'
  BY DEF GraphInv, NodesOK, TypesOf
<1>2. NamesOnce'
  BY DEF GraphInv, NamesOnce, InKb
<1>3. ChunksInGraph'
  <2> SUFFICES ASSUME NEW k \in inGraph, k[1] # kb
               PROVE  k[1] \in GraphKbs /\ k[2] \in AllChunks /\ ChunkInGraph(k[1], k[2])'
    BY DEF ChunksInGraph
  <2>1. k[1] \in GraphKbs /\ k[2] \in AllChunks /\ ChunkInGraph(k[1], k[2])
    BY DEF GraphInv, ChunksInGraph
  <2>2. \A name \in Mentioned(Says[k[2]]) : \E n \in Named(k[1], name)' : k[2] \in n.chunks
    <3> SUFFICES ASSUME NEW name \in Mentioned(Says[k[2]])
                 PROVE  \E n \in Named(k[1], name)' : k[2] \in n.chunks
      OBVIOUS
    <3>1. PICK n \in nodes : n.kb = k[1] /\ n.name = name /\ k[2] \in n.chunks
      BY <2>1 DEF ChunkInGraph, Named, InKb
    <3> QED BY <3>1 DEF Named, InKb
  <2>3. \A r \in Relations(Says[k[2]]) : [kb |-> k[1], from |-> r.from, to |-> r.to, via |-> r.via] \in edges'
    BY <2>1 DEF ChunkInGraph
  <2> QED BY <2>1, <2>2, <2>3 DEF ChunkInGraph
<1> QED BY <1>1, <1>2, <1>3 DEF GraphInv

LEMMA GraphStutter == GraphInv /\ UNCHANGED <<nodes, edges, inGraph, doubled>> => GraphInv'
BY DEF GraphInv, NodesOK, NamesOnce, ChunksInGraph, ChunkInGraph, InKb, Named

LEMMA GraphStep == GraphInv /\ GraphNext => GraphInv'
<1> SUFFICES ASSUME GraphInv, GraphNext
             PROVE  GraphInv'
  OBVIOUS
<1>1. ASSUME NEW b \in Builds, StartBuild(b) \/ TakeChunk(b) \/ EndBuild(b)
      PROVE  GraphInv'
  BY <1>1, GraphStutter DEF StartBuild, TakeChunk, EndBuild
<1>2. ASSUME NEW b \in Builds, NEW c \in All(b), Extract(b, c) \/ Match(b, c)
      PROVE  GraphInv'
  BY <1>2, GraphStutter DEF Extract, Match
<1>3. ASSUME NEW b \in Builds, NEW c \in All(b), AddGraph(b, c)
      PROVE  GraphInv'
  BY <1>3, AddGraphKeeps
<1>4. ASSUME NEW d \in Deletions, DeleteRelations(d) \/ DeleteNodes(d) \/ DeleteFails(d)
      PROVE  GraphInv'
  <2>1. CASE DeleteRelations(d)
    BY <2>1, GraphDeletionKeeps DEF DeleteRelations
  <2>2. CASE DeleteNodes(d)
    BY <2>2, GraphDeletionKeeps DEF DeleteNodes
  <2>3. CASE DeleteFails(d)
    BY <2>3, GraphDeletionKeeps DEF DeleteFails
  <2> QED BY <1>4, <2>1, <2>2, <2>3
<1>5. CASE GraphOver
  BY <1>5, GraphStutter DEF GraphOver, graphVars
<1> QED BY <1>1, <1>2, <1>3, <1>4, <1>5 DEF GraphNext

---------------------------------------------------------------------------
(* A node that has an edge is found by its name where no other node has that name and the *)
(* search is not cut short.                                                               *)
LEMMA NodeIsFound ==
  ASSUME GraphInv, NEW kb \in GraphKbs \ doubled, NEW n \in InKb(kb), NEW m \in InKb(kb),
         NEW e \in edges, e.kb = kb, {e.from, e.to} = {n.name, m.name}, e.from # e.to,
         NEW ns,
         \/ ns = {kb}
         \/ ns = {} /\ \A other \in GraphKbs \ {kb} : Named(other, n.name) = {},
         NEW q, q.name = n.name, q.type \in {"", Other} \/ n.type = "" \/ n.type = q.type,
         q.name \notin Short, Cardinality(SearchRows(ns, {q})) <= MaxRows
  PROVE  n \in SearchNode(ns, {q})
<1> DEFINE rows == Limited(SearchRows(ns, {q}), MaxRows)
           found == {hit.n : hit \in rows} \union {hit.m : hit \in rows}
           read == {CHOOSE x \in found : x.name = name : name \in {f.name : f \in found}}
           r == [n |-> n, e |-> e, m |-> m]
<1>1. n \in nodes /\ n.kb = kb /\ n.name \in Names /\ m \in nodes /\ m.kb = kb
  BY DEF GraphInv, NodesOK, InKb
<1>2. n \in Scope(ns)
  BY <1>1 DEF Scope
<1>3. ContainsName(n.name, q.name)
  BY <1>1, GraphAssumption
<1>4. n \in Hits(ns, {q})
  BY <1>2, <1>3 DEF Hits, Matches
<1>5. rows = SearchRows(ns, {q})
  BY DEF Limited
<1>6. r \in rows /\ r.n = n
  <2>1. r \in [n : Hits(ns, {q}), e : edges, m : nodes]
    BY <1>1, <1>4
  <2> QED BY <1>1, <1>5, <2>1 DEF SearchRows
<1>7. n \in found
  BY <1>6
<1>8. ASSUME NEW x \in found, x.name = n.name
      PROVE  x = n
  <2>1. PICK hit \in SearchRows(ns, {q}) : x \in {hit.n, hit.m}
    <3> HIDE DEF rows
    <3> QED BY <1>5
  <2>2. hit.n \in Hits(ns, {q}) /\ hit.m \in nodes /\ hit.m.kb = hit.n.kb
    BY <2>1 DEF SearchRows
  <2>3. x \in nodes /\ x.kb = hit.n.kb
    BY <2>1, <2>2 DEF Hits, Scope
  <2>4. ns = {kb} => x.kb = kb
    BY <2>2, <2>3 DEF Hits, Scope
  <2>5. x.kb = kb
    BY <2>3, <2>4, <1>8 DEF Named, InKb, GraphInv, NodesOK
  <2> QED BY <2>3, <2>5, <1>1, <1>8 DEF GraphInv, NamesOnce, InKb
<1> HIDE DEF rows, r
<1>9. (CHOOSE x \in found : x.name = n.name) = n
  <2>1. \E x \in found : x.name = n.name
    BY <1>7
  <2> HIDE DEF found
  <2> QED BY <2>1, <1>8
<1>10. n \in read
  <2> HIDE DEF found
  <2> QED BY <1>7, <1>9
<1>11. TypeFits({q}, n)
  BY <1>3 DEF TypeFits
<1>12. SearchNode(ns, {q}) = {x \in read : TypeFits({q}, x)}
  BY DEF SearchNode, rows
<1> QED BY <1>10, <1>11, <1>12

(* A graph that is not larger is drawn whole. *)
LEMMA AllDrawn ==
  ASSUME GraphInv, NEW kb \in GraphKbs \ doubled, Cardinality({n.name : n \in InKb(kb)}) <= MaxDrawn,
         NEW e \in edges, e.kb = kb, NEW n \in InKb(kb), NEW m \in InKb(kb),
         e.from = n.name, e.to = m.name,
         Cardinality(RelationsAmong(kb, {x.name : x \in InKb(kb)})) <= 2 * MaxDrawn
  PROVE  [ends |-> {e.from, e.to}, via |-> e.via] \in GetGraphForVis(kb).edges
<1> DEFINE S == InKb(kb)
           N == {x.name : x \in S}
           f == [x \in S |-> x.name]
           count == IF Cardinality(S) < MaxDrawn THEN Cardinality(S) ELSE MaxDrawn
           Best(D) == \A x \in D, y \in S \ D : Degree(x) >= Degree(y)
           drawn == CHOOSE D \in kSubset(count, S) : Best(D)
           names == {x.name : x \in drawn}
<1>1. IsFiniteSet(N)
  <2>1. N \in SUBSET Names
    BY DEF GraphInv, NodesOK, InKb
  <2> QED BY <2>1, GraphAssumption, FS_Subset
<1>2. f \in Injection(S, N) /\ f \in Surjection(S, N)
  <2>1. f \in [S -> N]
    OBVIOUS
  <2>2. \A x, y \in S : f[x] = f[y] => x = y
    BY DEF GraphInv, NamesOnce
  <2>3. \A y \in N : \E x \in S : f[x] = y
    OBVIOUS
  <2> HIDE DEF f, S, N
  <2> QED BY <2>1, <2>2, <2>3 DEF Injection, Surjection, IsInjective
<1>3. IsFiniteSet(S) /\ Cardinality(S) = Cardinality(N)
  <2> HIDE DEF f, S, N
  <2> QED BY <1>1, <1>2, FS_Injection
<1>4. Cardinality(S) \in Nat
  <2> HIDE DEF S
  <2> QED BY <1>3, FS_CardinalityType
<1>5. count = Cardinality(S)
  <2>1. Cardinality(N) <= MaxDrawn
    OBVIOUS
  <2> HIDE DEF S, N
  <2> QED BY <2>1, <1>3, <1>4, GraphAssumption
<1>6. drawn = S
  <2>1. S \in kSubset(count, S) /\ Best(S)
    <3>1. Best(S)
      OBVIOUS
    <3> HIDE DEF S, count, Best
    <3> QED BY <3>1, <1>5 DEF kSubset
  <2>2. drawn \in kSubset(count, S)
    <3> HIDE DEF S, count, Best
    <3> QED BY <2>1
  <2>3. drawn \in SUBSET S /\ Cardinality(drawn) = Cardinality(S)
    <3> HIDE DEF drawn, S, count
    <3> QED BY <2>2, <1>5 DEF kSubset
  <2> HIDE DEF drawn, S
  <2> QED BY <2>3, <1>3, FS_Subset
<1>7. names = N
  <2> HIDE DEF drawn
  <2> QED BY <1>6
<1>8. GetGraphForVis(kb).edges = Limited(RelationsAmong(kb, names), 2 * MaxDrawn)
  BY DEF GetGraphForVis
<1>9. GetGraphForVis(kb).edges = RelationsAmong(kb, N)
  <2> HIDE DEF names
  <2> QED BY <1>7, <1>8 DEF Limited
<1>10. e.from \in N /\ e.to \in N
  OBVIOUS
<1> HIDE DEF N
<1> QED BY <1>9, <1>10 DEF RelationsAmong

LEMMA BuiltIsFoundFollows == GraphInv => BuiltIsFound
<1> SUFFICES ASSUME GraphInv, NEW k \in inGraph, k[1] \notin doubled
             PROVE  LET kb == k[1]
                        said == Says[k[2]]
                        Sole(name) == \A other \in GraphKbs \ {kb} : Named(other, name) = {}
                        Found(ns, q) == WithinLimits(ns, q) => k[2] \in Retrieve(ns, {q})
                        names == {n.name : n \in InKb(kb)}
                    IN  /\ \A r \in Relations(said), name \in Names : name \in {r.from, r.to} =>
                             /\ Found({kb}, [name |-> name, type |-> ""])
                             /\ Sole(name) => Found({}, [name |-> name, type |-> Other])
                             /\ \A type \in TypesOf(kb, name) : TypesOf(kb, name) = {type} =>
                                  Found({kb}, [name |-> name, type |-> type])
                        /\ /\ Cardinality(names) <= MaxDrawn
                           /\ Cardinality(RelationsAmong(kb, names)) <= 2 * MaxDrawn
                           => \A r \in Relations(said) :
                                [ends |-> {r.from, r.to}, via |-> r.via] \in GetGraphForVis(kb).edges
  BY DEF BuiltIsFound
<1> DEFINE kb == k[1]
           said == Says[k[2]]
<1>1. kb \in GraphKbs \ doubled /\ ChunkInGraph(kb, k[2])
  BY DEF GraphInv, ChunksInGraph
<1>2. ASSUME NEW r \in Relations(said)
      PROVE  /\ r.from \in Mentioned(said) /\ r.to \in Mentioned(said) /\ r.from # r.to
             /\ [kb |-> kb, from |-> r.from, to |-> r.to, via |-> r.via] \in edges
  <2>1. r.from # r.to
    BY DEF Relations
  <2> QED BY <2>1, <1>1 DEF Mentioned, ChunkInGraph
<1>3. \A name \in Mentioned(said) : \E n \in InKb(kb) : n.name = name /\ k[2] \in n.chunks
  BY <1>1 DEF ChunkInGraph, Named
<1> HIDE DEF said, kb
<1>4. ASSUME NEW r \in Relations(said), NEW name \in {r.from, r.to}, NEW type, NEW ns,
             \/ ns = {kb}
             \/ ns = {} /\ \A other \in GraphKbs \ {kb} : Named(other, name) = {},
             type \in {"", Other} \/ TypesOf(kb, name) = {type},
             WithinLimits(ns, [name |-> name, type |-> type])
      PROVE  k[2] \in Retrieve(ns, {[name |-> name, type |-> type]})
  <2> DEFINE e == [kb |-> kb, from |-> r.from, to |-> r.to, via |-> r.via]
             q == [name |-> name, type |-> type]
  <2>1. PICK other \in Mentioned(said) : {e.from, e.to} = {name, other} /\ name \in Mentioned(said)
    BY <1>2
  <2>2. PICK n \in InKb(kb) : n.name = name /\ k[2] \in n.chunks
    BY <1>3, <2>1
  <2>3. PICK m \in InKb(kb) : m.name = other
    BY <1>3, <2>1
  <2>4. e \in edges /\ e.kb = kb /\ e.from # e.to
    BY <1>2
  <2>5. n.type \in {""} \cup TypesOf(kb, name)
    BY <2>2 DEF GraphInv, NodesOK, InKb
  <2>6. q.type \in {"", Other} \/ n.type = "" \/ n.type = q.type
    BY <2>5, <1>4
  <2>7. q.name = n.name
    BY <2>2
  <2>8. {e.from, e.to} = {n.name, m.name}
    BY <2>1, <2>2, <2>3
  <2>9. ns = {kb} \/ (ns = {} /\ \A x \in GraphKbs \ {kb} : Named(x, n.name) = {})
    BY <1>4, <2>2
  <2>10. /\ q.name \notin Short /\ Cardinality(SearchRows(ns, {q})) <= MaxRows
         /\ Cardinality(ChunksFound(ns, {q})) <= GraphTopK
    BY <1>4 DEF WithinLimits
  <2>11. ExtractEntitiesFromQuery({q}) = {q}
    BY <2>10 DEF ExtractEntitiesFromQuery
  <2> HIDE DEF e, q
  <2>12. n \in SearchNode(ns, {q})
    BY <1>1, <2>4, <2>6, <2>7, <2>8, <2>9, <2>10, NodeIsFound
  <2>13. Retrieve(ns, {q}) = ChunksFound(ns, {q})
    BY <2>10 DEF Retrieve, Limited
  <2>14. k[2] \in ChunksFound(ns, {q})
    BY <2>2, <2>11, <2>12 DEF ChunksFound
  <2> QED BY <2>13, <2>14 DEF q
<1>5. ASSUME Cardinality({n.name : n \in InKb(kb)}) <= MaxDrawn, NEW r \in Relations(said),
             Cardinality(RelationsAmong(kb, {n.name : n \in InKb(kb)})) <= 2 * MaxDrawn
      PROVE  [ends |-> {r.from, r.to}, via |-> r.via] \in GetGraphForVis(kb).edges
  <2> DEFINE e == [kb |-> kb, from |-> r.from, to |-> r.to, via |-> r.via]
  <2>1. e \in edges /\ e.kb = kb /\ e.from = r.from /\ e.to = r.to /\ e.via = r.via
    BY <1>2
  <2>2. PICK n \in InKb(kb) : n.name = r.from
    BY <1>2, <1>3
  <2>3. PICK m \in InKb(kb) : m.name = r.to
    BY <1>2, <1>3
  <2> HIDE DEF e
  <2>4. [ends |-> {e.from, e.to}, via |-> e.via] \in GetGraphForVis(kb).edges
    BY <1>1, <1>5, <2>1, <2>2, <2>3, AllDrawn
  <2> QED BY <2>1, <2>4
<1> QED BY <1>4, <1>5 DEF kb, said

(* Whatever order chunks are stored in, by any builds, and whatever fails or is deleted *)
(* around them, a stored chunk is found by the names it relates, in a search that no    *)
(* limit cuts short, and its relations are drawn in a drawing that none cuts short      *)
(* (graphrag/service.go, BuildGraph; neo4j_repository.go, addGraph, SearchNode,         *)
(* GetGraphForVis; retriever.go, Retrieve).                                             *)
THEOREM GraphBuiltIsFound == GraphSpec => []BuiltIsFound
<1>1. GraphInv /\ [GraphNext]_graphVars => GraphInv'
  BY GraphStep, GraphStutter DEF graphVars
<1> QED BY <1>1, GraphInvHoldsAtFirst, BuiltIsFoundFollows, PTL DEF GraphSpec

---------------------------------------------------------------------------
\* The code graph.

RunFields == {"pc", "repo", "todo", "work", "knew", "clean"}
WorkFields == {"stage", "code"}

IsRun(c) ==
  /\ c = [x \in RunFields |-> c[x]]
  /\ c.pc # "idle" => c.repo \in Repos
  /\ \A f \in DOMAIN c.work : c.work[f] = [x \in WorkFields |-> c.work[f][x]]

RunsOK == runs = [u \in CodeClients |-> runs[u]] /\ \A u \in CodeClients : IsRun(runs[u])

DirsOK ==
  /\ dir \in [Repos -> Int] /\ remote \in [Repos -> Int]
  /\ \A r \in Repos : /\ remote[r] \in 1 .. Len(Code[r])
                      /\ dir[r] > 0 => dir[r] \in 1 .. Len(Code[r])

\* Under a label that is not mixed, all nodes are of one repository.
CodeNodesOK ==
  /\ \A n \in codeNodes : n.label = LabelOf[n.repo]
  /\ \A m, n \in codeNodes : m.label = n.label /\ m.label \notin mixed => m.repo = n.repo

Edge(r, rel, a, b) == [rel |-> rel, from |-> <<LabelOf[r], a>>, to |-> <<LabelOf[r], b>>]

FileShown(r, f, code) ==
  /\ HasNode(r, f)
  /\ \A d \in code.defines : HasNode(r, d) /\ Edge(r, "DEFINES", f, d) \in codeEdges

CallsShown(r, code, known) ==
  \A call \in code.calls :
    /\ HasNode(r, call[1])
    /\ call[2] \in code.defines \cup known =>
         HasNode(r, call[2]) /\ Edge(r, "CALLS", call[1], call[2]) \in codeEdges

\* The names a run found in the graph when it began.
KnownTo(c) == {name \in Defined(Checkout(c.repo)) : c.knew}

\* Each file waits for a worker, or is as far in the graph as its worker is, or is there.
FileOK(c, f) ==
  LET code == Checkout(c.repo)[f] IN
  \/ f \in c.todo
  \/ /\ f \in DOMAIN c.work /\ c.work[f].code = code
     /\ c.work[f].stage = "entities" => HasNode(c.repo, f)
     /\ c.work[f].stage = "relations" => FileShown(c.repo, f, code)
  \/ f \notin DOMAIN c.work /\ FileShown(c.repo, f, code) /\ CallsShown(c.repo, code, KnownTo(c))

Shows(c) ==
  /\ \A name \in KnownTo(c) : HasNode(c.repo, name)
  /\ \A f \in DOMAIN Checkout(c.repo) : FileOK(c, f)
  /\ c.pc = "answer" => c.todo = {} /\ DOMAIN c.work = {}

Trusted(c) == c.clean /\ c.pc \in {"index", "answer"} /\ LabelOf[c.repo] \notin mixed

RunsShow == \A u \in CodeClients : Trusted(runs[u]) => Shows(runs[u])

\* The runs that may be trusted know where each of their files is between the directory and the
\* graph; a run that was disturbed, or whose label is mixed, is never relied upon.
CodeInv == DirsOK /\ RunsOK /\ CodeNodesOK /\ RunsShow

---------------------------------------------------------------------------
LEMMA FieldsOfRun ==
  ASSUME NEW pc, NEW repo, NEW todo, NEW work, NEW knew, NEW clean, NEW c,
         c = [pc |-> pc, repo |-> repo, todo |-> todo, work |-> work, knew |-> knew, clean |-> clean]
  PROVE  c = [x \in RunFields |-> c[x]]
BY DEF RunFields

LEMMA NoRunIs == IsRun(NoRun) /\ NoRun.pc = "idle" /\ NoRun.clean = FALSE /\ DOMAIN NoRun.work = {}
<1>1. NoRun = [x \in RunFields |-> NoRun[x]]
  <2>1. PICK c : c = NoRun
    OBVIOUS
  <2>2. c = [x \in RunFields |-> c[x]]
    BY <2>1, FieldsOfRun DEF NoRun
  <2> QED BY <2>1, <2>2
<1>2. NoRun.pc = "idle" /\ NoRun.clean = FALSE /\ NoRun.work = NoCode
  BY DEF NoRun
<1>3. DOMAIN NoCode = {}
  BY DEF NoCode
<1> QED BY <1>1, <1>2, <1>3 DEF IsRun

LEMMA CodeInvHoldsAtFirst == RepoInit => CodeInv
<1> SUFFICES ASSUME RepoInit
             PROVE  CodeInv
  OBVIOUS
<1>1. DirsOK
  BY RepoAssumption DEF RepoInit, DirsOK, NoDir
<1>2. IsRun(NoRun) /\ ~Trusted(NoRun)
  BY NoRunIs DEF Trusted
<1>3. RunsOK /\ RunsShow
  BY <1>2 DEF RepoInit, RunsOK, RunsShow
<1>4. CodeNodesOK
  BY DEF RepoInit, CodeNodesOK
<1> QED BY <1>1, <1>3, <1>4 DEF CodeInv

\* A call in the graph is a chain, of whatever depth is asked for.
LEMMA CallIsChain ==
  ASSUME NEW r \in Repos, NEW a, NEW b, CodeNodesOK, HasNode(r, a), HasNode(r, b),
         Edge(r, "CALLS", a, b) \in codeEdges, NEW depth \in 1 .. 5
  PROVE  <<a, b>> \in CallChains(r, depth)
<1> DEFINE calls == {<<e.from, e.to>> : e \in {d \in codeEdges : d.rel = "CALLS"}}
           called == UNION {{c[1], c[2]} : c \in calls}
           x == <<LabelOf[r], a>>
           y == <<LabelOf[r], b>>
           path == [n \in 0 .. 1 |-> IF n = 0 THEN x ELSE y]
           Reaches(v, w) == \E n \in 1 .. depth : \E p \in [0 .. n -> called] :
                              /\ p[0] = v /\ p[n] = w
                              /\ \A i \in 1 .. n : <<p[i - 1], p[i]>> \in calls
<1>1. x \in NodesOf(r) /\ y \in NodesOf(r)
  BY DEF HasNode, Tagged, NodesOf, CodeNodesOK
<1>2. <<x, y>> \in calls
  BY DEF Edge
<1>3. x \in called /\ y \in called
  <2> HIDE DEF calls, x, y
  <2> QED BY <1>2
<1>4. Reaches(x, y)
  <2> HIDE DEF calls, called, x, y
  <2>1. path \in [0 .. 1 -> called] /\ path[0] = x /\ path[1] = y
    BY <1>3
  <2>2. \A i \in 1 .. 1 : i - 1 = 0 /\ i = 1
    OBVIOUS
  <2>3. 1 \in 1 .. depth
    OBVIOUS
  <2> HIDE DEF path
  <2> QED BY <1>2, <2>1, <2>2, <2>3
<1>5. <<x, y>> \in {q \in NodesOf(r) \X NodesOf(r) : Reaches(q[1], q[2])}
  <2> HIDE DEF Reaches, x, y
  <2> QED BY <1>1, <1>4
<1>6. CallChains(r, depth)
        = {<<p[1][2], p[2][2]>> : p \in {q \in NodesOf(r) \X NodesOf(r) : Reaches(q[1], q[2])}}
  BY DEF CallChains
<1> HIDE DEF Reaches
<1> QED BY <1>5, <1>6

LEMMA IndexShowsCodeFollows == CodeInv => IndexShowsCode
<1> SUFFICES ASSUME CodeInv, NEW u \in CodeClients, Trusted(runs[u]), runs[u].pc = "answer",
                    NEW f \in DOMAIN Checkout(runs[u].repo)
             PROVE  LET r == runs[u].repo  code == Checkout(r)
                    IN  /\ code[f].defines \subseteq GetFileStructure(r, f)
                        /\ \A call \in code[f].calls :
                             \/ /\ Cardinality(CallersOf(r, call[2], 0)) <= MaxCallRows =>
                                     <<call[1], call[2]>> \in FindCallers(r, call[2], 0)
                                /\ Cardinality(CalleesOf(r, call[1], 0)) <= MaxCallRows =>
                                     <<call[1], call[2]>> \in FindCallees(r, call[1], 0)
                             \/ call[2] \notin code[f].defines
                                /\ ~(runs[u].knew /\ call[2] \in Defined(code))
  BY DEF IndexShowsCode, Trusted
<1> DEFINE r == runs[u].repo
           code == Checkout(r)[f]
<1>1. FileShown(r, f, code) /\ CallsShown(r, code, KnownTo(runs[u]))
  BY DEF CodeInv, RunsShow, Shows, FileOK
<1>2. ASSUME NEW d \in code.defines
      PROVE  d \in GetFileStructure(r, f)
  <2>1. Edge(r, "DEFINES", f, d) \in codeEdges
    BY <1>1 DEF FileShown
  <2> QED BY <2>1 DEF GetFileStructure, Edge
<1>3. ASSUME NEW call \in code.calls,
             call[2] \in code.defines \/ (runs[u].knew /\ call[2] \in Defined(Checkout(r)))
      PROVE  /\ Cardinality(CallersOf(r, call[2], 0)) <= MaxCallRows =>
                  <<call[1], call[2]>> \in FindCallers(r, call[2], 0)
             /\ Cardinality(CalleesOf(r, call[1], 0)) <= MaxCallRows =>
                  <<call[1], call[2]>> \in FindCallees(r, call[1], 0)
  <2>1. r \in Repos /\ FunctionContains(call[1], call[1]) /\ FunctionContains(call[2], call[2])
    <3>1. runs[u].repo \in Repos
      BY DEF CodeInv, RunsOK, IsRun
    <3>2. dir[r] > 0
      BY DEF Checkout, NoCode
    <3>3. dir[r] \in 1 .. Len(Code[r]) /\ code = Code[r][dir[r]][f] /\ f \in DOMAIN Code[r][dir[r]]
      BY <3>1, <3>2 DEF Checkout, CodeInv, DirsOK
    <3> HIDE DEF r, code
    <3> QED BY <1>3, <3>1, <3>3, RepoAssumption DEF r
  <2> HIDE DEF r, code
  <2>2. call[2] \in code.defines \cup KnownTo(runs[u])
    BY <1>3 DEF KnownTo, r
  <2>3. HasNode(r, call[1]) /\ HasNode(r, call[2]) /\ Edge(r, "CALLS", call[1], call[2]) \in codeEdges
    BY <1>1, <2>2 DEF CallsShown
  <2>4. Depth(0) \in 1 .. 5
    BY DEF Depth
  <2>5. <<call[1], call[2]>> \in CallChains(r, Depth(0))
    BY <2>1, <2>3, <2>4, CallIsChain DEF CodeInv
  <2>6. /\ <<call[1], call[2]>> \in CallersOf(r, call[2], 0)
        /\ <<call[1], call[2]>> \in CalleesOf(r, call[1], 0)
    BY <2>1, <2>5 DEF CallersOf, CalleesOf
  <2> QED BY <2>6 DEF FindCallers, FindCallees, Limited
<1> QED BY <1>2, <1>3

---------------------------------------------------------------------------
\* A step spares a repository when what the graph holds of it stays.
Spared(r) ==
  /\ \A key : HasNode(r, key) => HasNode(r, key)'
  /\ \A rel, a, b, key :
       HasNode(r, key) /\ Edge(r, rel, a, b) \in codeEdges => Edge(r, rel, a, b) \in codeEdges'

LEMMA UntouchedIsSpared ==
  ASSUME codeNodes' = codeNodes, codeEdges \subseteq codeEdges'
  PROVE  \A r : Spared(r)
BY DEF Spared, HasNode, Tagged

LEMMA ShownStays ==
  ASSUME NEW r, Spared(r)
  PROVE  /\ \A f, code : FileShown(r, f, code) => FileShown(r, f, code)'
         /\ \A code, known : CallsShown(r, code, known) => CallsShown(r, code, known)'
<1>1. ASSUME NEW f, NEW code, FileShown(r, f, code)
      PROVE  FileShown(r, f, code)'
  BY <1>1 DEF FileShown, Spared, Edge
<1>2. ASSUME NEW code, NEW known, CallsShown(r, code, known)
      PROVE  CallsShown(r, code, known)'
  BY <1>2 DEF CallsShown, Spared, Edge
<1> QED BY <1>1, <1>2

LEMMA ShowsStays ==
  ASSUME NEW c, Shows(c), Checkout(c.repo)' = Checkout(c.repo), Spared(c.repo)
  PROVE  Shows(c)'
<1>1. KnownTo(c)' = KnownTo(c)
  BY DEF KnownTo
<1>2. \A name \in KnownTo(c) : HasNode(c.repo, name)'
  BY DEF Shows, Spared
<1>3. ASSUME NEW f \in DOMAIN Checkout(c.repo)
      PROVE  FileOK(c, f)'
  <2>1. PICK k, n : k = Checkout(c.repo)[f] /\ n = KnownTo(c)
    OBVIOUS
  <2>2. (Checkout(c.repo)[f])' = k /\ KnownTo(c)' = n
    BY <2>1, <1>1
  <2>3. \/ f \in c.todo
        \/ /\ f \in DOMAIN c.work /\ c.work[f].code = k
           /\ c.work[f].stage = "entities" => HasNode(c.repo, f)
           /\ c.work[f].stage = "relations" => FileShown(c.repo, f, k)
        \/ f \notin DOMAIN c.work /\ FileShown(c.repo, f, k) /\ CallsShown(c.repo, k, n)
    BY <2>1 DEF Shows, FileOK
  <2>4. /\ HasNode(c.repo, f) => HasNode(c.repo, f)'
        /\ FileShown(c.repo, f, k) => FileShown(c.repo, f, k)'
        /\ CallsShown(c.repo, k, n) => CallsShown(c.repo, k, n)'
    BY ShownStays DEF Spared
  <2>5. \/ f \in c.todo
        \/ /\ f \in DOMAIN c.work /\ c.work[f].code = k
           /\ c.work[f].stage = "entities" => HasNode(c.repo, f)'
           /\ c.work[f].stage = "relations" => FileShown(c.repo, f, k)'
        \/ f \notin DOMAIN c.work /\ FileShown(c.repo, f, k)' /\ CallsShown(c.repo, k, n)'
    BY <2>3, <2>4
  <2> QED BY <2>2, <2>5 DEF FileOK, FileShown, CallsShown, Edge
<1> QED BY <1>1, <1>2, <1>3 DEF Shows

---------------------------------------------------------------------------
\* What a request's step leaves of the runs.
LEMMA SetRunKeeps ==
  ASSUME CodeInv, NEW u \in CodeClients, NEW c, SetRun(u, c), IsRun(c), dir' = dir,
         mixed \subseteq mixed', \A r : LabelOf[r] \notin mixed' => Spared(r),
         Trusted(c)' => Shows(c)'
  PROVE  RunsOK' /\ RunsShow'
<1>1. runs' = [v \in CodeClients |-> IF v = u THEN c ELSE runs[v]]
  BY DEF CodeInv, RunsOK, SetRun
<1>2. RunsOK'
  BY <1>1 DEF CodeInv, RunsOK, IsRun
<1>3. ASSUME NEW v \in CodeClients, Trusted(runs[v])'
      PROVE  Shows(runs[v])'
  <2>1. PICK d : d = runs[v]' /\ d = IF v = u THEN c ELSE runs[v]
    BY <1>1
  <2>2. Trusted(d)'
    BY <1>3, <2>1 DEF Trusted
  <2>3. Shows(d)'
    <3>1. CASE v = u
      BY <3>1, <2>1, <2>2
    <3>2. CASE v # u
      <4>1. Trusted(d) /\ LabelOf[d.repo] \notin mixed'
        BY <2>2 DEF Trusted
      <4>2. Shows(d)
        BY <4>1, <3>2, <2>1 DEF CodeInv, RunsShow
      <4>3. Checkout(d.repo)' = Checkout(d.repo)
        BY DEF Checkout, NoCode
      <4> QED BY <4>1, <4>2, <4>3, ShowsStays
    <3> QED BY <3>1, <3>2
  <2> QED BY <2>1, <2>3 DEF Shows, FileOK, KnownTo
<1> QED BY <1>2, <1>3 DEF RunsShow

LEMMA DisturbKeeps ==
  ASSUME CodeInv, NEW u \in CodeClients, NEW r, NEW c, Disturb(u, r, c), IsRun(c),
         c.pc \notin {"index", "answer"}, mixed' = mixed,
         \A q \in Repos : q # r => dir'[q] = dir[q] /\ (LabelOf[q] \notin mixed => Spared(q))
  PROVE  RunsOK' /\ RunsShow'
<1>1. RunsOK'
  <2> SUFFICES ASSUME NEW v \in CodeClients
               PROVE  IsRun(runs[v])'
    BY DEF RunsOK, Disturb
  <2>1. PICK d : d = runs[v] /\ IsRun(d)
    BY DEF CodeInv, RunsOK
  <2>2. PICK e : e = [d EXCEPT !.clean = FALSE]
    OBVIOUS
  <2>3. e = [x \in RunFields |-> IF x = "clean" THEN FALSE ELSE d[x]]
    BY <2>1, <2>2 DEF IsRun
  <2>4. IsRun(e)
    BY <2>1, <2>3 DEF IsRun, RunFields
  <2>5. PICK g : g = runs[v]'
    OBVIOUS
  <2>6. g \in {c, d, e}
    BY <2>1, <2>2, <2>5 DEF Disturb
  <2>7. IsRun(g)
    BY <2>1, <2>4, <2>6
  <2> QED BY <2>5, <2>7 DEF IsRun
<1>2. ASSUME NEW v \in CodeClients, Trusted(runs[v])'
      PROVE  Shows(runs[v])'
  <2>1. PICK d : d = runs[v] /\ IsRun(d)
    BY DEF CodeInv, RunsOK
  <2>2. v # u /\ d.repo # r /\ runs[v]' = d
    <3>1. v # u
      <4>1. runs[u]' = c
        BY DEF Disturb
      <4> QED BY <4>1, <1>2 DEF Trusted
    <3>2. d.repo # r
      <4> SUFFICES ASSUME d.repo = r
                   PROVE  FALSE
        OBVIOUS
      <4>1. PICK e : e = [d EXCEPT !.clean = FALSE]
        OBVIOUS
      <4>2. e.clean = FALSE
        BY <4>1, <2>1 DEF IsRun, RunFields
      <4>3. runs[v]' = e
        BY <4>1, <3>1, <2>1 DEF Disturb
      <4> QED BY <4>2, <4>3, <1>2 DEF Trusted
    <3> QED BY <3>1, <3>2, <2>1 DEF Disturb
  <2>3. Trusted(d) /\ d.repo \in Repos
    BY <1>2, <2>1, <2>2 DEF Trusted, IsRun
  <2>4. Shows(d)
    BY <2>1, <2>3 DEF CodeInv, RunsShow
  <2>5. Spared(d.repo) /\ dir[d.repo]' = dir[d.repo]
    BY <2>2, <2>3 DEF Trusted
  <2>6. Checkout(d.repo)' = Checkout(d.repo)
    BY <2>5 DEF Checkout, NoCode
  <2>7. Shows(d)'
    BY <2>4, <2>5, <2>6, ShowsStays
  <2> QED BY <2>2, <2>7 DEF Shows, FileOK, KnownTo
<1> QED BY <1>1, <1>2 DEF RunsShow

---------------------------------------------------------------------------
\* What a step leaves of the graph.
LEMMA MergeKeeps ==
  ASSUME CodeNodesOK, NEW r, NEW keys, MergeNodes(r, keys), codeEdges \subseteq codeEdges'
  PROVE  /\ CodeNodesOK' /\ mixed \subseteq mixed' /\ \A k \in keys : HasNode(r, k)'
         /\ \A q : LabelOf[q] \notin mixed' => Spared(q)
<1> DEFINE New(k) == [label |-> LabelOf[r], key |-> k, repo |-> r]
<1>1. codeNodes' = {n \in codeNodes : ~(n.label = LabelOf[r] /\ n.key \in keys)} \cup {New(k) : k \in keys}
  BY DEF MergeNodes
<1>2. \A k : New(k).label = LabelOf[r] /\ New(k).key = k /\ New(k).repo = r
  OBVIOUS
<1>3. mixed \subseteq mixed'
  BY DEF MergeNodes
<1>4. \A n \in codeNodes : n.label = LabelOf[r] /\ LabelOf[r] \notin mixed' => n.repo = r
  BY DEF MergeNodes
<1> HIDE DEF New
<1>5. CodeNodesOK'
  <2>1. \A n \in codeNodes' : n.label = LabelOf[n.repo]
    BY <1>1, <1>2 DEF CodeNodesOK
  <2>2. ASSUME NEW m \in codeNodes', NEW n \in codeNodes', m.label = n.label, m.label \notin mixed'
        PROVE  m.repo = n.repo
    <3>1. CASE m.label = LabelOf[r]
      BY <3>1, <2>2, <1>1, <1>2, <1>4
    <3>2. CASE m.label # LabelOf[r]
      BY <3>2, <2>2, <1>1, <1>2, <1>3 DEF CodeNodesOK
    <3> QED BY <3>1, <3>2
  <2> QED BY <2>1, <2>2 DEF CodeNodesOK
<1>6. \A k \in keys : HasNode(r, k)'
  BY <1>1, <1>2 DEF HasNode, Tagged
<1>7. ASSUME NEW q, LabelOf[q] \notin mixed', NEW key, HasNode(q, key)
      PROVE  HasNode(q, key)'
  <2>1. PICK n \in codeNodes : n.repo = q /\ n.key = key
    BY <1>7 DEF HasNode, Tagged
  <2>2. CASE n.label = LabelOf[r] /\ key \in keys
    <3>1. q = r
      BY <2>1, <2>2, <1>4, <1>7 DEF CodeNodesOK
    <3> QED BY <3>1, <2>2, <1>6
  <2>3. CASE ~(n.label = LabelOf[r] /\ key \in keys)
    BY <2>1, <2>3, <1>1 DEF HasNode, Tagged
  <2> QED BY <2>2, <2>3
<1> QED BY <1>3, <1>5, <1>6, <1>7 DEF Spared, Edge

LEMMA RemovalKeeps ==
  ASSUME CodeNodesOK, NEW r, NEW gone, gone = {n \in codeNodes : Tagged(r, n)},
         NEW ids, ids = {<<n.label, n.key>> : n \in gone}, codeNodes' = codeNodes \ gone,
         codeEdges' = {e \in codeEdges : e.from \notin ids /\ e.to \notin ids}, mixed' = mixed
  PROVE  CodeNodesOK' /\ \A q : q # r /\ LabelOf[q] \notin mixed => Spared(q)
<1>1. CodeNodesOK'
  BY DEF CodeNodesOK
<1>2. ASSUME NEW q, q # r, LabelOf[q] \notin mixed
      PROVE  Spared(q)
  <2>1. \A key : HasNode(q, key) => HasNode(q, key)'
    BY <1>2 DEF HasNode, Tagged
  <2>2. ASSUME NEW rel, NEW a, NEW b, NEW key, HasNode(q, key), Edge(q, rel, a, b) \in codeEdges
        PROVE  Edge(q, rel, a, b) \in codeEdges'
    <3>1. PICK n \in codeNodes : n.repo = q /\ n.label = LabelOf[q]
      BY <2>2 DEF HasNode, Tagged, CodeNodesOK
    <3>2. \A g \in gone : g.label # LabelOf[q]
      BY <3>1, <1>2 DEF CodeNodesOK, Tagged
    <3>3. \A k : <<LabelOf[q], k>> \notin ids
      BY <3>2
    <3>4. Edge(q, rel, a, b).from = <<LabelOf[q], a>> /\ Edge(q, rel, a, b).to = <<LabelOf[q], b>>
      BY DEF Edge
    <3> QED BY <2>2, <3>3, <3>4
  <2> QED BY <2>1, <2>2 DEF Spared, Edge
<1> QED BY <1>1, <1>2

---------------------------------------------------------------------------
\* Requests that change no more than a run, or a run and a directory.
LEMMA RunOnlyKeeps ==
  ASSUME CodeInv, NEW u \in CodeClients, NEW c, SetRun(u, c), IsRun(c),
         UNCHANGED <<remote, dir, codeNodes, codeEdges>>, mixed \subseteq mixed',
         Trusted(c) => Shows(c)
  PROVE  CodeInv'
<1>1. \A r : Spared(r)
  BY UntouchedIsSpared
<1>2. Checkout(c.repo)' = Checkout(c.repo)
  BY DEF Checkout, NoCode
<1>3. Trusted(c)' => Shows(c)'
  <2>1. Trusted(c)' => Trusted(c)
    BY DEF Trusted
  <2> QED BY <1>1, <1>2, <2>1, ShowsStays
<1>4. RunsOK' /\ RunsShow'
  BY <1>1, <1>3, SetRunKeeps
<1>5. DirsOK' /\ CodeNodesOK'
  BY DEF CodeInv, DirsOK, CodeNodesOK
<1> QED BY <1>4, <1>5 DEF CodeInv

LEMMA IdleKeeps ==
  ASSUME CodeInv, NEW u \in CodeClients, SetRun(u, NoRun),
         UNCHANGED <<remote, dir, codeNodes, codeEdges, mixed>>
  PROVE  CodeInv'
<1>1. ~Trusted(NoRun)
  BY NoRunIs DEF Trusted
<1>2. PICK c : c = NoRun
  OBVIOUS
<1> QED BY <1>1, <1>2, NoRunIs, RunOnlyKeeps

LEMMA DirOnlyKeeps ==
  ASSUME CodeInv, NEW u \in CodeClients, NEW r, NEW c, Disturb(u, r, c), IsRun(c),
         c.pc \notin {"index", "answer"}, UNCHANGED <<remote, codeNodes, codeEdges, mixed>>,
         NEW i \in Int, dir' = [dir EXCEPT ![r] = i],
         r \in Repos => (i > 0 => i \in 1 .. Len(Code[r]))
  PROVE  CodeInv'
<1>1. \A q : Spared(q)
  BY UntouchedIsSpared
<1>2. \A q \in Repos : q # r => dir'[q] = dir[q]
  BY DEF CodeInv, DirsOK
<1>3. RunsOK' /\ RunsShow'
  BY <1>1, <1>2, DisturbKeeps
<1>4. DirsOK'
  BY DEF CodeInv, DirsOK
<1>5. CodeNodesOK'
  BY DEF CodeInv, CodeNodesOK
<1> QED BY <1>3, <1>4, <1>5 DEF CodeInv

\* What a run is with a new pc.
LEMMA RunFrom ==
  ASSUME NEW d, d = [x \in RunFields |-> d[x]], d.repo \in Repos, NEW w, d.work = w,
         \A f \in DOMAIN w : w[f] = [x \in WorkFields |-> w[f][x]]
  PROVE  IsRun(d)
BY DEF IsRun

LEMMA NewPc ==
  ASSUME NEW c, IsRun(c), NEW r \in Repos, NEW pc, NEW d,
         d = [x \in RunFields |-> IF x = "pc" THEN pc ELSE IF x = "repo" THEN r ELSE c[x]]
  PROVE  IsRun(d) /\ d.pc = pc
<1>1. d.pc = pc /\ d.repo = r /\ d.work = c.work
  BY DEF RunFields
<1>2. d = [x \in RunFields |-> d[x]]
  OBVIOUS
<1>3. PICK w : w = c.work /\ \A f \in DOMAIN w : w[f] = [x \in WorkFields |-> w[f][x]]
  BY DEF IsRun
<1>4. d.work = w /\ d.repo \in Repos
  BY <1>1, <1>3
<1>5. IsRun(d)
  BY <1>2, <1>3, <1>4, RunFrom
<1> QED BY <1>1, <1>5

LEMMA PcOnly ==
  ASSUME NEW c, IsRun(c), c.repo \in Repos, NEW pc, NEW d, d = [c EXCEPT !.pc = pc]
  PROVE  /\ IsRun(d) /\ d.pc = pc /\ d.repo = c.repo /\ d.todo = c.todo /\ d.work = c.work
         /\ d.knew = c.knew /\ d.clean = c.clean
<1>1. d = [x \in RunFields |-> IF x = "pc" THEN pc ELSE c[x]]
  BY DEF IsRun
<1> QED BY <1>1 DEF IsRun, RunFields

LEMMA BeginKeeps ==
  ASSUME CodeInv, NEW u \in CodeClients, NEW r \in Repos, NEW pc, pc \notin {"index", "answer"},
         BeginRun(u, r, pc)
  PROVE  CodeInv'
<1>1. PICK n, d : n = NoRun /\ d = [n EXCEPT !.pc = pc, !.repo = r]
  OBVIOUS
<1>2. IsRun(d) /\ d.pc = pc
  <2>1. IsRun(n)
    BY <1>1, NoRunIs
  <2>2. d = [x \in RunFields |-> IF x = "pc" THEN pc ELSE IF x = "repo" THEN r ELSE n[x]]
    BY <1>1, <2>1 DEF IsRun
  <2> QED BY <2>1, <2>2, NewPc
<1>3. ~Trusted(d)
  BY <1>2 DEF Trusted
<1>4. SetRun(u, d)
  BY <1>1 DEF BeginRun
<1> QED BY <1>2, <1>3, <1>4, RunOnlyKeeps DEF BeginRun

LEMMA RunAt ==
  ASSUME CodeInv, NEW u \in CodeClients, runs[u].pc # "idle"
  PROVE  /\ IsRun(runs[u]) /\ runs[u].repo \in Repos
         /\ dir[runs[u].repo] \in Int /\ remote[runs[u].repo] \in 1 .. Len(Code[runs[u].repo])
         /\ dir[runs[u].repo] > 0 => dir[runs[u].repo] \in 1 .. Len(Code[runs[u].repo])
BY DEF CodeInv, RunsOK, IsRun, DirsOK

LEMMA GitCloneKeeps ==
  ASSUME CodeInv, NEW u \in CodeClients, GitClone(u)
  PROVE  CodeInv'
<1>1. PICK c, d : c = runs[u] /\ d = [c EXCEPT !.pc = "cloning"]
  OBVIOUS
<1>2. IsRun(c) /\ c.repo \in Repos
  BY <1>1, RunAt DEF GitClone
<1>3. IsRun(d) /\ d.pc = "cloning"
  BY <1>1, <1>2, PcOnly
<1>4. CASE dir[c.repo] = NoDir
  <2>1. PICK i : i = -1
    OBVIOUS
  <2>2. i \in Int /\ ~(i > 0)
    BY <2>1
  <2>3. dir' = [dir EXCEPT ![c.repo] = i] /\ Disturb(u, c.repo, d)
    BY <1>1, <1>4, <2>1 DEF GitClone, PartialDir
  <2>4. UNCHANGED <<remote, codeNodes, codeEdges, mixed>>
    BY DEF GitClone
  <2> QED BY <1>3, <2>2, <2>3, <2>4, DirOnlyKeeps
<1>5. CASE dir[c.repo] # NoDir
  BY <1>1, <1>5, IdleKeeps DEF GitClone
<1> QED BY <1>4, <1>5

LEMMA ClonedKeeps ==
  ASSUME CodeInv, NEW u \in CodeClients, Cloned(u)
  PROVE  CodeInv'
<1>1. PICK r, n : r = runs[u].repo /\ n = NoRun
  OBVIOUS
<1>2. /\ r \in Repos /\ dir[r] \in Int /\ remote[r] \in 1 .. Len(Code[r])
      /\ dir[r] > 0 => dir[r] \in 1 .. Len(Code[r])
  BY <1>1, RunAt DEF Cloned
<1>3. PICK i \in Int : /\ dir' = [dir EXCEPT ![r] = i]
                       /\ i > 0 => i \in 1 .. Len(Code[r])
  <2>1. dir = [dir EXCEPT ![r] = dir[r]]
    BY DEF CodeInv, DirsOK
  <2>a. /\ remote[r] \in Int
        /\ (IF dir[r] = PartialDir THEN remote[r] ELSE dir[r]) \in {remote[r], dir[r]}
        /\ (IF dir[r] = PartialDir THEN 0 ELSE dir[r]) \in {0, dir[r]} /\ 0 \in Int /\ ~(0 > 0)
    BY <1>2
  <2>2. CASE dir' = [dir EXCEPT ![r] = IF @ = PartialDir THEN remote[r] ELSE @]
    BY <1>2, <2>a, <2>2
  <2>3. CASE dir' = [dir EXCEPT ![r] = IF @ = PartialDir THEN NoDir ELSE @]
    BY <1>2, <2>a, <2>3 DEF NoDir
  <2>4. CASE dir' = dir
    BY <1>2, <2>1, <2>4
  <2> QED BY <1>1, <2>2, <2>3, <2>4 DEF Cloned
<1>4. IsRun(n) /\ n.pc = "idle" /\ Disturb(u, r, n)
  BY <1>1, NoRunIs DEF Cloned
<1> QED BY <1>2, <1>3, <1>4, DirOnlyKeeps DEF Cloned

LEMMA GitPullKeeps ==
  ASSUME CodeInv, NEW u \in CodeClients, GitPull(u)
  PROVE  CodeInv'
<1>1. PICK r, n, i : r = runs[u].repo /\ n = NoRun /\ i = remote[r]
  OBVIOUS
<1>2. r \in Repos /\ i \in 1 .. Len(Code[r]) /\ i \in Int
  BY <1>1, RunAt, RepoAssumption DEF GitPull
<1>3. IsRun(n) /\ n.pc = "idle"
  BY <1>1, NoRunIs
<1>4. CASE SetRun(u, NoRun) /\ dir' = dir
  BY <1>4, IdleKeeps DEF GitPull
<1>5. CASE Disturb(u, r, n) /\ dir' = [dir EXCEPT ![r] = i]
  BY <1>2, <1>3, <1>5, DirOnlyKeeps DEF GitPull
<1>6. dir[r] = i => [dir EXCEPT ![r] = i] = dir
  BY DEF CodeInv, DirsOK
<1> QED BY <1>1, <1>4, <1>5, <1>6 DEF GitPull

LEMMA RemoveAllKeeps ==
  ASSUME CodeInv, NEW u \in CodeClients, RemoveAll(u)
  PROVE  CodeInv'
<1>1. PICK r, n : r = runs[u].repo /\ n = NoRun
  OBVIOUS
<1>2. IsRun(n) /\ n.pc = "idle" /\ Disturb(u, r, n)
  BY <1>1, NoRunIs DEF RemoveAll
<1>3. PICK i \in Int : dir' = [dir EXCEPT ![r] = i] /\ ~(i > 0)
  BY <1>1 DEF RemoveAll, NoDir, PartialDir
<1> QED BY <1>2, <1>3, DirOnlyKeeps DEF RemoveAll

LEMMA DeleteRepoGraphKeeps ==
  ASSUME CodeInv, NEW u \in CodeClients, DeleteRepoGraph(u)
  PROVE  CodeInv'
<1>1. PICK c, d, gone, ids : /\ c = runs[u] /\ d = [c EXCEPT !.pc = "remove"]
                             /\ gone = {n \in codeNodes : Tagged(c.repo, n)}
                             /\ ids = {<<n.label, n.key>> : n \in gone}
  OBVIOUS
<1>2. IsRun(c) /\ c.repo \in Repos
  BY <1>1, RunAt DEF DeleteRepoGraph, RemoveNodes
<1>3. IsRun(d) /\ d.pc = "remove"
  BY <1>1, <1>2, PcOnly
<1>4. CASE SetRun(u, NoRun) /\ UNCHANGED <<codeNodes, codeEdges>>
  BY <1>4, IdleKeeps DEF DeleteRepoGraph, RemoveNodes
<1>5. CASE /\ codeNodes' = codeNodes \ gone
           /\ codeEdges' = {e \in codeEdges : e.from \notin ids /\ e.to \notin ids}
           /\ Disturb(u, c.repo, d)
  <2>0. UNCHANGED <<remote, dir, mixed>>
    BY DEF DeleteRepoGraph, RemoveNodes
  <2>1. CodeNodesOK' /\ \A q : q # c.repo /\ LabelOf[q] \notin mixed => Spared(q)
    BY <1>1, <1>5, <2>0, RemovalKeeps DEF CodeInv
  <2>2. RunsOK' /\ RunsShow'
    BY <1>3, <1>5, <2>0, <2>1, DisturbKeeps
  <2>3. DirsOK'
    BY <2>0 DEF CodeInv, DirsOK
  <2> QED BY <2>1, <2>2, <2>3 DEF CodeInv
<1> QED BY <1>1, <1>4, <1>5 DEF DeleteRepoGraph, RemoveNodes

---------------------------------------------------------------------------
\* A run of the indexer.
LEMMA WalkKeeps ==
  ASSUME CodeInv, NEW u \in CodeClients, Walk(u)
  PROVE  CodeInv'
<1>1. PICK c, r, todo, clean, knew, d :
        /\ c = runs[u] /\ r = c.repo /\ todo = DOMAIN Checkout(r) /\ clean = (dir[r] > 0)
        /\ knew = \A name \in Defined(Checkout(r)) : HasNode(r, name)
        /\ d = [c EXCEPT !.pc = "index", !.todo = todo, !.clean = clean, !.knew = knew]
  OBVIOUS
<1>2. IsRun(c) /\ r \in Repos
  BY <1>1, RunAt DEF Walk
<1>3. d = [x \in RunFields |-> IF x = "pc" THEN "index" ELSE IF x = "todo" THEN todo
                               ELSE IF x = "clean" THEN clean
                               ELSE IF x = "knew" THEN knew ELSE c[x]]
  BY <1>1, <1>2 DEF IsRun
<1>4. /\ d.pc = "index" /\ d.repo = r /\ d.todo = todo /\ d.work = c.work
      /\ d.knew = knew
  BY <1>1, <1>3 DEF RunFields
<1>5. d = [x \in RunFields |-> d[x]]
  BY <1>3
<1>6. IsRun(d)
  <2>1. PICK w : w = c.work /\ \A f \in DOMAIN w : w[f] = [x \in WorkFields |-> w[f][x]]
    BY <1>2 DEF IsRun
  <2>2. d.repo \in Repos /\ d.work = w
    BY <1>2, <1>4, <2>1
  <2> QED BY <1>5, <2>1, <2>2, RunFrom
<1>7. Shows(d)
  <2>1. \A name \in KnownTo(d) : HasNode(d.repo, name)
    BY <1>1, <1>4 DEF KnownTo
  <2>2. \A f \in DOMAIN Checkout(d.repo) : FileOK(d, f)
    BY <1>1, <1>4 DEF FileOK
  <2> QED BY <1>4, <2>1, <2>2 DEF Shows
<1>8. UNCHANGED <<remote, dir, codeNodes, codeEdges>> /\ mixed \subseteq mixed'
  BY DEF Walk
<1>9. SetRun(u, NoRun) \/ SetRun(u, d)
  BY <1>1 DEF Walk
<1>10. PICK n : n = NoRun /\ IsRun(n) /\ ~Trusted(n)
  BY NoRunIs DEF Trusted
<1>11. SetRun(u, n) \/ SetRun(u, d)
  BY <1>9, <1>10
<1>12. CASE SetRun(u, d)
  BY <1>6, <1>7, <1>8, <1>12, RunOnlyKeeps
<1>13. CASE SetRun(u, n)
  BY <1>8, <1>10, <1>13, RunOnlyKeeps
<1> QED BY <1>11, <1>12, <1>13

\* A run whose work on other files than f stays, and that has begun with f or skipped it.
LEMMA TakenShows ==
  ASSUME NEW c, NEW d, NEW f, Shows(c), c.pc = "index", d.pc = "index", d.repo = c.repo,
         d.todo = c.todo \ {f}, d.knew = c.knew,
         \A g : g # f => (/\ g \in DOMAIN d.work <=> g \in DOMAIN c.work
                          /\ g \in DOMAIN c.work => d.work[g] = c.work[g]),
         f \in DOMAIN Checkout(c.repo) =>
           (/\ f \in DOMAIN d.work /\ d.work[f].code = Checkout(c.repo)[f]
            /\ d.work[f].stage = "file")
  PROVE  Shows(d)
<1>1. KnownTo(d) = KnownTo(c)
  BY DEF KnownTo
<1>2. ASSUME NEW g \in DOMAIN Checkout(d.repo)
      PROVE  FileOK(d, g)
  <2>1. CASE g = f
    BY <2>1 DEF FileOK
  <2>2. CASE g # f
    <3>1. FileOK(c, g)
      BY DEF Shows
    <3>2. PICK k, n : k = Checkout(c.repo)[g] /\ n = KnownTo(c)
      OBVIOUS
    <3>3. \/ g \in c.todo
          \/ /\ g \in DOMAIN c.work /\ c.work[g].code = k
             /\ c.work[g].stage = "entities" => HasNode(c.repo, g)
             /\ c.work[g].stage = "relations" => FileShown(c.repo, g, k)
          \/ g \notin DOMAIN c.work /\ FileShown(c.repo, g, k) /\ CallsShown(c.repo, k, n)
      BY <3>1, <3>2 DEF FileOK
    <3>4. \/ g \in d.todo
          \/ /\ g \in DOMAIN d.work /\ d.work[g].code = k
             /\ d.work[g].stage = "entities" => HasNode(d.repo, g)
             /\ d.work[g].stage = "relations" => FileShown(d.repo, g, k)
          \/ g \notin DOMAIN d.work /\ FileShown(d.repo, g, k) /\ CallsShown(d.repo, k, n)
      BY <2>2, <3>3
    <3> QED BY <1>1, <3>2, <3>4 DEF FileOK
  <2> QED BY <2>1, <2>2
<1> QED BY <1>1, <1>2 DEF Shows

LEMMA ReadFileKeeps ==
  ASSUME CodeInv, NEW u \in CodeClients, NEW f, ReadFile(u, f)
  PROVE  CodeInv'
<1>1. PICK c, todo, code, rest : /\ c = runs[u] /\ todo = c.todo \ {f}
                                 /\ code = Checkout(c.repo) /\ rest = [c EXCEPT !.todo = todo]
  OBVIOUS
<1>2. IsRun(c) /\ c.repo \in Repos /\ c.pc = "index"
  BY <1>1, RunAt DEF ReadFile
<1>3. rest = [x \in RunFields |-> IF x = "todo" THEN todo ELSE c[x]]
  BY <1>1, <1>2 DEF IsRun
<1>4. /\ rest.pc = "index" /\ rest.repo = c.repo /\ rest.todo = todo /\ rest.work = c.work
      /\ rest.knew = c.knew /\ rest.clean = c.clean
  BY <1>2, <1>3 DEF RunFields
<1>5. PICK w : w = c.work /\ \A g \in DOMAIN w : w[g] = [x \in WorkFields |-> w[g][x]]
  BY <1>2 DEF IsRun
<1>6. UNCHANGED <<remote, dir, codeNodes, codeEdges, mixed>>
  BY DEF ReadFile
<1>7. Trusted(c) => Shows(c)
  BY <1>1 DEF CodeInv, RunsShow
<1>8. CASE f \notin DOMAIN code /\ SetRun(u, rest)
  <2>1. rest = [x \in RunFields |-> rest[x]]
    BY <1>3
  <2>2. IsRun(rest)
    BY <1>2, <1>4, <1>5, <2>1, RunFrom
  <2>3. Trusted(rest) => Trusted(c)
    BY <1>2, <1>4 DEF Trusted
  <2>4. Shows(c) => Shows(rest)
    BY <1>1, <1>2, <1>4, <1>8, TakenShows
  <2> QED BY <1>6, <1>7, <1>8, <2>2, <2>3, <2>4, RunOnlyKeeps
<1>9. PICK d : d = [rest EXCEPT !.clean = FALSE]
  OBVIOUS
<1>10. CASE SetRun(u, d)
  <2>1. d = [x \in RunFields |-> IF x = "clean" THEN FALSE ELSE rest[x]]
    BY <1>3, <1>9
  <2>2. d.clean = FALSE /\ d.repo = c.repo /\ d.work = c.work
    BY <1>4, <2>1 DEF RunFields
  <2>3. d = [x \in RunFields |-> d[x]]
    BY <2>1
  <2>4. IsRun(d) /\ ~Trusted(d)
    BY <1>2, <1>5, <2>2, <2>3, RunFrom DEF Trusted
  <2> QED BY <1>6, <1>10, <2>4, RunOnlyKeeps
<1>11. PICK taken, work, e :
         /\ taken = [stage |-> "file", code |-> code[f]]
         /\ work = [g \in DOMAIN w \cup {f} |-> IF g = f THEN taken ELSE w[g]]
         /\ e = [rest EXCEPT !.work = work]
  OBVIOUS
<1>12. CASE f \in DOMAIN code /\ SetRun(u, e)
  <2>1. e = [x \in RunFields |-> IF x = "work" THEN work ELSE rest[x]]
    BY <1>3, <1>11
  <2>2. /\ e.pc = "index" /\ e.repo = c.repo /\ e.todo = todo /\ e.work = work
        /\ e.knew = c.knew /\ e.clean = c.clean
    BY <1>4, <2>1 DEF RunFields
  <2>3. e = [x \in RunFields |-> e[x]]
    BY <2>1
  <2>4. /\ taken = [x \in WorkFields |-> taken[x]]
        /\ taken.stage = "file" /\ taken.code = code[f]
    BY <1>11 DEF WorkFields
  <2>5. \A g \in DOMAIN work : work[g] = [x \in WorkFields |-> work[g][x]]
    BY <1>5, <1>11, <2>4
  <2>6. IsRun(e)
    BY <1>2, <2>2, <2>3, <2>5, RunFrom
  <2>7. Trusted(e) => Trusted(c)
    BY <1>2, <2>2 DEF Trusted
  <2>8. /\ \A g : g # f => (/\ g \in DOMAIN work <=> g \in DOMAIN w
                            /\ g \in DOMAIN w => work[g] = w[g])
        /\ f \in DOMAIN work /\ work[f] = taken
    BY <1>11
  <2>9. Shows(c) => Shows(e)
    BY <1>1, <1>2, <1>5, <2>2, <2>4, <2>8, TakenShows
  <2> QED BY <1>6, <1>7, <1>12, <2>6, <2>7, <2>9, RunOnlyKeeps
<1>13. \/ f \in DOMAIN code /\ SetRun(u, e)
       \/ f \notin DOMAIN code /\ SetRun(u, rest)
       \/ SetRun(u, d)
  BY <1>1, <1>5, <1>9, <1>11 DEF ReadFile, Indexing
<1> QED BY <1>8, <1>10, <1>12, <1>13

LEMMA IndexedKeeps ==
  ASSUME CodeInv, NEW u \in CodeClients, Indexed(u)
  PROVE  CodeInv'
<1>1. PICK c, d : c = runs[u] /\ d = [c EXCEPT !.pc = "answer"]
  OBVIOUS
<1>2. IsRun(c) /\ c.repo \in Repos /\ c.pc = "index" /\ c.todo = {} /\ DOMAIN c.work = {}
  BY <1>1, RunAt DEF Indexed, Indexing
<1>3. /\ IsRun(d) /\ d.pc = "answer" /\ d.repo = c.repo /\ d.todo = c.todo /\ d.work = c.work
      /\ d.knew = c.knew /\ d.clean = c.clean
  BY <1>1, <1>2, PcOnly
<1>4. Trusted(d) => Shows(c)
  BY <1>1, <1>2, <1>3 DEF Trusted, CodeInv, RunsShow
<1>5. Shows(c) => Shows(d)
  <2>1. KnownTo(d) = KnownTo(c)
    BY <1>3 DEF KnownTo
  <2>2. \A f : FileOK(c, f) => FileOK(d, f)
    BY <1>3, <2>1 DEF FileOK
  <2> QED BY <1>2, <1>3, <2>1, <2>2 DEF Shows
<1>6. SetRun(u, d)
  BY <1>1 DEF Indexed
<1> QED BY <1>3, <1>4, <1>5, <1>6, RunOnlyKeeps DEF Indexed

---------------------------------------------------------------------------
\* A worker that has written a file, its definitions or its calls.
LEMMA SteppedIs ==
  ASSUME NEW c, IsRun(c), c.repo \in Repos, NEW f \in DOMAIN c.work, NEW next, NEW ok, NEW d,
         d = Stepped(c, f, next, ok)
  PROVE  /\ IsRun(d) /\ d.pc = c.pc /\ d.repo = c.repo /\ d.todo = c.todo /\ d.knew = c.knew
         /\ d.clean => c.clean /\ ok
         /\ \A g : g # f => (/\ g \in DOMAIN d.work <=> g \in DOMAIN c.work
                             /\ g \in DOMAIN c.work => d.work[g] = c.work[g])
         /\ IF next = "done" THEN f \notin DOMAIN d.work
            ELSE f \in DOMAIN d.work /\ d.work[f].code = c.work[f].code /\ d.work[f].stage = next
<1>1. PICK w, z : /\ w = c.work /\ z = [w[f] EXCEPT !.stage = next]
                  /\ \A g \in DOMAIN w : w[g] = [x \in WorkFields |-> w[g][x]]
  BY DEF IsRun
<1>2. PICK work, clean : /\ work = IF next = "done" THEN [g \in DOMAIN w \ {f} |-> w[g]]
                                   ELSE [w EXCEPT ![f].stage = next]
                         /\ clean = (c.clean /\ ok)
  OBVIOUS
<1>3. d = [x \in RunFields |-> IF x = "work" THEN work ELSE IF x = "clean" THEN clean ELSE c[x]]
  <2>1. d = [c EXCEPT !.work = work, !.clean = clean]
    BY <1>1, <1>2 DEF Stepped
  <2> QED BY <2>1 DEF IsRun
<1>4. /\ d.pc = c.pc /\ d.repo = c.repo /\ d.todo = c.todo /\ d.knew = c.knew
      /\ d.work = work /\ d.clean = clean
  BY <1>3 DEF RunFields
<1>5. d = [x \in RunFields |-> d[x]]
  BY <1>3
<1>6. /\ z = [x \in WorkFields |-> z[x]] /\ z.stage = next /\ z.code = w[f].code
  <2>1. PICK v : v = w[f] /\ v = [x \in WorkFields |-> v[x]]
    BY <1>1
  <2>2. z = [v EXCEPT !.stage = next]
    BY <1>1, <2>1
  <2>3. z = [x \in WorkFields |-> IF x = "stage" THEN next ELSE v[x]]
    BY <2>1, <2>2
  <2> QED BY <2>1, <2>3 DEF WorkFields
<1>7. work = IF next = "done" THEN [g \in DOMAIN w \ {f} |-> w[g]]
             ELSE [g \in DOMAIN w |-> IF g = f THEN z ELSE w[g]]
  <2>1. [w EXCEPT ![f].stage = next] = [w EXCEPT ![f] = z]
    BY <1>1
  <2>2. [w EXCEPT ![f] = z] = [g \in DOMAIN w |-> IF g = f THEN z ELSE w[g]]
    OBVIOUS
  <2> QED BY <1>2, <2>1, <2>2
<1>8. /\ \A g \in DOMAIN work : work[g] = [x \in WorkFields |-> work[g][x]]
      /\ \A g : g # f => (/\ g \in DOMAIN work <=> g \in DOMAIN w
                          /\ g \in DOMAIN w => work[g] = w[g])
      /\ IF next = "done" THEN f \notin DOMAIN work ELSE f \in DOMAIN work /\ work[f] = z
  <2>1. CASE next = "done"
    BY <1>1, <1>7, <2>1
  <2>2. CASE next # "done"
    BY <1>1, <1>6, <1>7, <2>2
  <2> QED BY <2>1, <2>2
<1>9. IsRun(d)
  BY <1>4, <1>5, <1>8, RunFrom
<1> QED BY <1>1, <1>2, <1>4, <1>6, <1>8, <1>9

LEMMA SteppedShows ==
  ASSUME NEW c, NEW f \in DOMAIN c.work, NEW next, NEW ok, NEW d, d = Stepped(c, f, next, ok),
         IsRun(c), c.repo \in Repos, c.pc = "index", Shows(c)',
         (f \in DOMAIN Checkout(c.repo) /\ f \notin c.todo)' =>
           /\ next = "entities" => HasNode(c.repo, f)'
           /\ next = "relations" => FileShown(c.repo, f, c.work[f].code)'
           /\ next = "done" => (/\ FileShown(c.repo, f, c.work[f].code)
                                /\ CallsShown(c.repo, c.work[f].code, KnownTo(c)))'
  PROVE  Shows(d)'
<1>1. PICK code, r, todo : code = c.work[f].code /\ r = c.repo /\ todo = c.todo
  OBVIOUS
<1>2. /\ d.pc = "index" /\ d.repo = r /\ d.todo = todo /\ d.knew = c.knew
      /\ \A g : g # f => (/\ g \in DOMAIN d.work <=> g \in DOMAIN c.work
                          /\ g \in DOMAIN c.work => d.work[g] = c.work[g])
      /\ IF next = "done" THEN f \notin DOMAIN d.work
         ELSE f \in DOMAIN d.work /\ d.work[f].code = code /\ d.work[f].stage = next
  BY <1>1, SteppedIs
<1>3. KnownTo(d)' = KnownTo(c)'
  BY <1>1, <1>2 DEF KnownTo
<1>4. ASSUME NEW g, (g \in DOMAIN Checkout(r))'
      PROVE  FileOK(d, g)'
  <2>1. PICK k, n : k = (Checkout(r)[g])' /\ n = KnownTo(c)'
    OBVIOUS
  <2>2. FileOK(c, g)'
    BY <1>1, <1>4 DEF Shows
  <2>3. \/ g \in todo
        \/ /\ g \in DOMAIN c.work /\ c.work[g].code = k
           /\ c.work[g].stage = "entities" => HasNode(r, g)'
           /\ c.work[g].stage = "relations" => FileShown(r, g, k)'
        \/ g \notin DOMAIN c.work /\ FileShown(r, g, k)' /\ CallsShown(r, k, n)'
    BY <1>1, <2>1, <2>2 DEF FileOK, FileShown, CallsShown, Edge
  <2>4. \/ g \in todo
        \/ /\ g \in DOMAIN d.work /\ d.work[g].code = k
           /\ d.work[g].stage = "entities" => HasNode(r, g)'
           /\ d.work[g].stage = "relations" => FileShown(r, g, k)'
        \/ g \notin DOMAIN d.work /\ FileShown(r, g, k)' /\ CallsShown(r, k, n)'
    <3>1. CASE g # f
      BY <1>2, <2>3, <3>1
    <3>2. CASE g = f /\ g \notin todo
      <4>1. k = code
        BY <1>1, <2>3, <3>2
      <4>2. /\ next = "entities" => HasNode(r, f)'
            /\ next = "relations" => FileShown(r, f, code)'
            /\ next = "done" => FileShown(r, f, code)' /\ CallsShown(r, code, n)'
        BY <1>1, <1>4, <2>1, <3>2 DEF FileShown, CallsShown, Edge
      <4> QED BY <1>2, <3>2, <4>1, <4>2
    <3> QED BY <3>1, <3>2
  <2> QED BY <1>2, <1>3, <2>1, <2>4 DEF FileOK, FileShown, CallsShown, Edge
<1> QED BY <1>1, <1>2, <1>3, <1>4 DEF Shows

\* A worker's write shows what its stage says, if the label is of one repository.
LEMMA WorkerKeeps ==
  ASSUME CodeInv, NEW u \in CodeClients, NEW c, c = runs[u], IsRun(c), c.repo \in Repos,
         c.pc = "index", NEW f \in DOMAIN c.work, NEW next, NEW ok, SetRun(u, Stepped(c, f, next, ok)),
         UNCHANGED <<remote, dir>>, mixed \subseteq mixed', CodeNodesOK',
         \A r : LabelOf[r] \notin mixed' => Spared(r),
         /\ ok /\ LabelOf[c.repo] \notin mixed' /\ Shows(c)
         /\ (f \in DOMAIN Checkout(c.repo) /\ f \notin c.todo)'
         => /\ next = "entities" => HasNode(c.repo, f)'
            /\ next = "relations" => FileShown(c.repo, f, c.work[f].code)'
            /\ next = "done" => (/\ FileShown(c.repo, f, c.work[f].code)
                                 /\ CallsShown(c.repo, c.work[f].code, KnownTo(c)))'
  PROVE  CodeInv'
<1>1. PICK d : d = Stepped(c, f, next, ok)
  OBVIOUS
<1>2. /\ IsRun(d) /\ d.pc = c.pc /\ d.repo = c.repo
      /\ d.clean => c.clean /\ ok
  BY <1>1, SteppedIs
<1>3. ASSUME Trusted(d)'
      PROVE  Shows(d)'
  <2>1. Trusted(c) /\ ok /\ LabelOf[c.repo] \notin mixed'
    BY <1>2, <1>3 DEF Trusted
  <2>2. Shows(c)
    BY <2>1 DEF CodeInv, RunsShow
  <2>3. Checkout(c.repo)' = Checkout(c.repo)
    BY DEF Checkout, NoCode
  <2>4. Shows(c)'
    BY <2>1, <2>2, <2>3, ShowsStays
  <2> QED BY <1>1, <2>1, <2>2, <2>4, SteppedShows
<1>4. SetRun(u, d)
  BY <1>1
<1>5. RunsOK' /\ RunsShow'
  BY <1>2, <1>3, <1>4, SetRunKeeps
<1>6. DirsOK'
  BY DEF CodeInv, DirsOK
<1> QED BY <1>5, <1>6 DEF CodeInv

LEMMA WorkerAt ==
  ASSUME CodeInv, NEW u \in CodeClients, NEW f, NEW stage, AtStage(u, f, stage)
  PROVE  /\ IsRun(runs[u]) /\ runs[u].repo \in Repos /\ runs[u].pc = "index"
         /\ f \in DOMAIN runs[u].work /\ runs[u].work[f].stage = stage
BY RunAt DEF AtStage, Indexing

LEMMA UpsertFileKeeps ==
  ASSUME CodeInv, NEW u \in CodeClients, NEW f, UpsertFile(u, f)
  PROVE  CodeInv'
<1>1. PICK c : c = runs[u]
  OBVIOUS
<1>2. IsRun(c) /\ c.repo \in Repos /\ c.pc = "index" /\ f \in DOMAIN c.work
  BY <1>1, WorkerAt DEF UpsertFile
<1>3. UNCHANGED <<remote, dir, codeEdges>>
  BY DEF UpsertFile
<1>4. PICK next, ok : next = "entities" /\ ok \in BOOLEAN /\ SetRun(u, Stepped(c, f, next, ok))
                      /\ IF ok THEN MergeNodes(c.repo, {f}) ELSE UNCHANGED <<codeNodes, mixed>>
  BY <1>1 DEF UpsertFile, Advance
<1>5. CASE ok
  <2>1. /\ CodeNodesOK' /\ mixed \subseteq mixed' /\ HasNode(c.repo, f)'
        /\ \A q : LabelOf[q] \notin mixed' => Spared(q)
    BY <1>3, <1>4, <1>5, MergeKeeps DEF CodeInv
  <2> QED BY <1>1, <1>2, <1>3, <1>4, <2>1, WorkerKeeps
<1>6. CASE ~ok
  <2>1. CodeNodesOK' /\ mixed \subseteq mixed' /\ \A q : Spared(q)
    BY <1>3, <1>4, <1>6, UntouchedIsSpared DEF CodeInv, CodeNodesOK
  <2> QED BY <1>1, <1>2, <1>3, <1>4, <1>6, <2>1, WorkerKeeps
<1> QED BY <1>5, <1>6

LEMMA UpsertEntitiesKeeps ==
  ASSUME CodeInv, NEW u \in CodeClients, NEW f, UpsertEntities(u, f)
  PROVE  CodeInv'
<1>1. PICK c, code, next : c = runs[u] /\ code = c.work[f].code /\ next = "relations"
  OBVIOUS
<1>2. /\ IsRun(c) /\ c.repo \in Repos /\ c.pc = "index" /\ f \in DOMAIN c.work
      /\ c.work[f].stage = "entities"
  BY <1>1, WorkerAt DEF UpsertEntities
<1>3. UNCHANGED <<remote, dir>>
  BY DEF UpsertEntities
<1>4. PICK made, ok : /\ ok = (made = code.defines) /\ SetRun(u, Stepped(c, f, next, ok))
                      /\ MergeNodes(c.repo, made) /\ codeEdges \subseteq codeEdges'
                      /\ Labelled(c.repo, f) => \A d \in made : Edge(c.repo, "DEFINES", f, d) \in codeEdges'
  BY <1>1 DEF UpsertEntities, Advance, Edge
<1>5. /\ CodeNodesOK' /\ mixed \subseteq mixed' /\ \A k \in made : HasNode(c.repo, k)'
      /\ \A q : LabelOf[q] \notin mixed' => Spared(q)
  BY <1>4, MergeKeeps DEF CodeInv
<1>6. ASSUME ok, LabelOf[c.repo] \notin mixed', Shows(c),
             (f \in DOMAIN Checkout(c.repo) /\ f \notin c.todo)'
      PROVE  FileShown(c.repo, f, c.work[f].code)'
  <2>1. f \in DOMAIN Checkout(c.repo) /\ f \notin c.todo
    BY <1>3, <1>6 DEF Checkout, NoCode
  <2>2. HasNode(c.repo, f)
    BY <1>2, <1>6, <2>1 DEF Shows, FileOK
  <2>3. Labelled(c.repo, f)
    BY <2>2 DEF HasNode, Tagged, Labelled, CodeInv, CodeNodesOK
  <2>4. HasNode(c.repo, f)'
    BY <1>5, <1>6, <2>2 DEF Spared
  <2>5. \A d \in code.defines : HasNode(c.repo, d)' /\ Edge(c.repo, "DEFINES", f, d) \in codeEdges'
    BY <1>4, <1>5, <1>6, <2>3
  <2> QED BY <1>1, <2>4, <2>5 DEF FileShown, Edge
<1> QED BY <1>1, <1>2, <1>3, <1>4, <1>5, <1>6, WorkerKeeps

LEMMA UpsertRelationsKeeps ==
  ASSUME CodeInv, NEW u \in CodeClients, NEW f, UpsertRelations(u, f)
  PROVE  CodeInv'
<1>1. PICK c, r, code, known, next : /\ c = runs[u] /\ r = c.repo /\ code = c.work[f].code
                                     /\ known = KnownTo(c) /\ next = "done"
  OBVIOUS
<1>2. /\ IsRun(c) /\ r \in Repos /\ c.pc = "index" /\ f \in DOMAIN c.work
      /\ c.work[f].stage = "relations"
  BY <1>1, WorkerAt DEF UpsertRelations
<1>3. UNCHANGED <<remote, dir, codeNodes, mixed>>
  BY DEF UpsertRelations
<1>4. PICK ok : /\ SetRun(u, Stepped(c, f, next, ok)) /\ codeEdges \subseteq codeEdges'
                /\ ok => CallEdges(r, code.calls) \subseteq codeEdges'
  BY <1>1 DEF UpsertRelations, Advance
<1>5. CodeNodesOK' /\ mixed \subseteq mixed' /\ \A q : Spared(q)
  BY <1>3, <1>4, UntouchedIsSpared DEF CodeInv, CodeNodesOK
<1>6. ASSUME ok, Shows(c), (f \in DOMAIN Checkout(r) /\ f \notin c.todo)'
      PROVE  FileShown(r, f, code)' /\ CallsShown(r, code, KnownTo(c))'
  <2>1. f \in DOMAIN Checkout(r) /\ f \notin c.todo /\ KnownTo(c)' = known
    BY <1>1, <1>3, <1>6 DEF Checkout, NoCode, KnownTo
  <2>2. code = Checkout(r)[f] /\ FileShown(r, f, code)
    BY <1>1, <1>2, <1>6, <2>1 DEF Shows, FileOK
  <2>3. FileShown(r, f, code)'
    BY <1>5, <2>2, ShownStays
  <2>4. ASSUME NEW call \in code.calls
        PROVE  HasNode(r, call[1])
    <3>1. dir[r] > 0
      BY <2>1 DEF Checkout, NoCode
    <3>2. dir[r] \in 1 .. Len(Code[r]) /\ code = Code[r][dir[r]][f] /\ f \in DOMAIN Code[r][dir[r]]
      BY <1>2, <2>1, <2>2, <3>1 DEF Checkout, CodeInv, DirsOK
    <3>3. call[1] \in code.defines
      BY <1>2, <3>2, RepoAssumption
    <3> QED BY <2>2, <3>3 DEF FileShown
  <2>5. \A name \in code.defines \cup known : HasNode(r, name)
    BY <1>1, <1>6, <2>2 DEF FileShown, Shows
  <2>6. \A call \in code.calls : call[2] \in code.defines \cup known =>
          Edge(r, "CALLS", call[1], call[2]) \in codeEdges'
    BY <1>4, <1>6, <2>4, <2>5 DEF CallEdges, Edge
  <2>7. \A key : HasNode(r, key)' = HasNode(r, key)
    BY <1>3 DEF HasNode, Tagged
  <2> QED BY <2>1, <2>3, <2>4, <2>5, <2>6, <2>7 DEF CallsShown, Edge
<1>7. ASSUME ok, Shows(c), (f \in DOMAIN Checkout(c.repo) /\ f \notin c.todo)'
      PROVE  (FileShown(c.repo, f, c.work[f].code) /\ CallsShown(c.repo, c.work[f].code, KnownTo(c)))'
  BY <1>1, <1>6, <1>7 DEF FileShown, CallsShown, Edge
<1> QED BY <1>1, <1>2, <1>3, <1>4, <1>5, <1>7, WorkerKeeps

LEMMA CodeUntouched ==
  ASSUME CodeInv, UNCHANGED <<dir, codeNodes, codeEdges, runs, mixed>>, DirsOK'
  PROVE  CodeInv'
<1>1. RunsOK' /\ CodeNodesOK'
  BY DEF CodeInv, RunsOK, IsRun, CodeNodesOK
<1>2. ASSUME NEW u \in CodeClients, Trusted(runs[u])'
      PROVE  Shows(runs[u])'
  <2>1. PICK c : c = runs[u] /\ runs[u]' = c
    OBVIOUS
  <2>2. Shows(c)
    BY <1>2, <2>1 DEF Trusted, CodeInv, RunsShow
  <2>3. Shows(c)'
    BY <2>2, UntouchedIsSpared, ShowsStays DEF Checkout, NoCode
  <2> QED BY <2>1, <2>3 DEF Shows, FileOK, KnownTo
<1> QED BY <1>1, <1>2 DEF CodeInv, RunsShow

LEMMA CodeStep == CodeInv /\ [RepoNext]_repoVars => CodeInv'
<1> SUFFICES ASSUME CodeInv, [RepoNext]_repoVars
             PROVE  CodeInv'
  OBVIOUS
<1>1. ASSUME NEW u \in CodeClients, NEW r \in Repos,
             CloneRepo(u, r) \/ PullRepo(u, r) \/ DeleteRepo(u, r) \/ IndexRepo(u, r)
      PROVE  CodeInv'
  BY <1>1, BeginKeeps DEF CloneRepo, PullRepo, DeleteRepo, IndexRepo
<1>2. ASSUME NEW u \in CodeClients,
             \/ GitClone(u) \/ Cloned(u) \/ GitPull(u) \/ DeleteRepoGraph(u) \/ RemoveAll(u)
             \/ Walk(u) \/ Indexed(u)
      PROVE  CodeInv'
  BY <1>2, GitCloneKeeps, ClonedKeeps, GitPullKeeps, DeleteRepoGraphKeeps, RemoveAllKeeps,
     WalkKeeps, IndexedKeeps
<1>3. ASSUME NEW u \in CodeClients, AnswerRun(u)
      PROVE  CodeInv'
  BY <1>3, IdleKeeps DEF AnswerRun
<1>4. ASSUME NEW u \in CodeClients, NEW f,
             ReadFile(u, f) \/ UpsertFile(u, f) \/ UpsertEntities(u, f) \/ UpsertRelations(u, f)
      PROVE  CodeInv'
  BY <1>4, ReadFileKeeps, UpsertFileKeeps, UpsertEntitiesKeeps, UpsertRelationsKeeps
<1>5. ASSUME NEW r \in Repos, Push(r)
      PROVE  CodeInv'
  <2>1. DirsOK'
    BY <1>5, RepoAssumption DEF CodeInv, DirsOK, Push
  <2> QED BY <1>5, <2>1, CodeUntouched DEF Push
<1>6. CASE UNCHANGED repoVars
  <2>1. DirsOK'
    BY <1>6 DEF CodeInv, DirsOK, repoVars
  <2> QED BY <1>6, <2>1, CodeUntouched DEF repoVars
<1> QED BY <1>1, <1>2, <1>3, <1>4, <1>5, <1>6 DEF RepoNext, ReposOver

(* An indexing that no failure, pull or deletion disturbed, of a repository that shares its label *)
(* with no other indexed one, leaves every file of the checkout in the graph with what it defines *)
(* and the calls inside it, whatever other runs are at work, and with all its calls if their      *)
(* names were in the graph before: for any repositories, labels, versions and clients.            *)
(* (indexer.go, IndexRepo; repository.go, UpsertEntities, UpsertRelations, DeleteRepoGraph.)      *)
THEOREM IndexIsShown == RepoSpec => []IndexShowsCode
<1>1. RepoInit => CodeInv
  BY CodeInvHoldsAtFirst
<1>2. CodeInv /\ [RepoNext]_repoVars => CodeInv'
  BY CodeStep
<1>3. CodeInv => IndexShowsCode
  BY IndexShowsCodeFollows
<1> QED BY <1>1, <1>2, <1>3, PTL DEF RepoSpec

=============================================================================
