----------------------------- MODULE ChunkUpkeep -----------------------------
(***********************************************************************************)
(* The chunks of an imported document after the import: edits, restored            *)
(* revisions and reindexing of one chunk (internal/handler/api.go,                 *)
(* internal/database/repository/repository.go), the enrichment of all of them      *)
(* in the background by a pool of workers (internal/document/                      *)
(* contextual_enricher.go), and the deletion of the document.  Each statement is a *)
(* step of its own and may fail.  A text is a chunk's: <<chunk, number>>.          *)
(***********************************************************************************)
EXTENDS Integers, Sequences, FiniteSets

CONSTANTS Chunks,     \* the chunks of the document, a sequence by chunk_index
          Clients, Workers,
          MaxWrites,  \* bound: edits, restores and reindexings
          MaxFaults   \* bound: statements and calls that fail

ChunkIds == {Chunks[i] : i \in DOMAIN Chunks}

ASSUME ChunksAssumption == Chunks \in Seq(ChunkIds) /\ Chunks # <<>>

VARIABLES row,        \* [ChunkIds -> the text in the chunks table]
          revisions,  \* [ChunkIds -> the texts in chunk_revisions]
          index,      \* [ChunkIds -> {} or {the document of the vector store}]
          client,     \* [Clients -> the request]
          run,        \* processContextualEnrichment
          queue,      \* taskCh, the indexes still to be enriched
          worker,     \* [Workers -> 0 or the index being enriched]
          enriched,   \* the result of the pool, by index
          status,     \* enrichment_status of the document
          deleted,    \* the document is deleted
          past,       \* history: [ChunkIds -> the texts the chunk ever had]
          contested,  \* history: [ChunkIds -> those written beside another edit]
          writes, faults

upkeepVars == <<row, revisions, index, client, run, queue, worker, enriched, status, deleted,
          past, contested, writes, faults>>

NoOne == [pc |-> "idle", chunk |-> Chunks[1], read |-> <<>>, text |-> <<>>]
Off == [pc |-> "off", docs |-> <<>>]

Doc(text, isEnriched) == [text |-> text, enriched |-> isEnriched]

UpkeepInit == /\ row = [c \in ChunkIds |-> <<c, 0>>]
              /\ revisions = [c \in ChunkIds |-> {}]
              /\ index = [c \in ChunkIds |-> {Doc(row[c], FALSE)}]
              /\ client = [u \in Clients |-> NoOne]
              /\ run = Off
              /\ queue = <<>> /\ worker = [w \in Workers |-> 0] /\ enriched = <<>>
              /\ status = "pending" /\ deleted = FALSE
              /\ past = [c \in ChunkIds |-> {row[c]}]
              /\ contested = [c \in ChunkIds |-> {}]
              /\ writes = 0 /\ faults = 0

Call(ok) == IF ok THEN UNCHANGED faults ELSE faults < MaxFaults /\ faults' = faults + 1

Background == <<run, queue, worker, enriched, status>>

-----------------------------------------------------------------------------
Editors(c) == {u \in Clients : client[u].chunk = c /\ client[u].pc \in {"read", "keep", "update"}}

Begin(u, c, pc, text) ==
  /\ client[u].pc = "idle"
  /\ writes < MaxWrites /\ writes' = writes + 1
  /\ client' = [client EXCEPT ![u] = [pc |-> pc, chunk |-> c, read |-> <<>>, text |-> text]]

BeginWrite(u, c, text) ==
  /\ Begin(u, c, "read", text)
  /\ UNCHANGED <<row, revisions, index, Background, deleted, past, contested, faults>>

(* UpdateDocumentChunk: the chunk is looked up among those of the document, whose rows *)
(* stay when it is deleted.                                                            *)
Edit(u, c) == BeginWrite(u, c, <<c, writes + 1>>)

(* RestoreChunkRevision reads a revision and edits the chunk back to it. *)
Restore(u, c) == \E text \in revisions[c] : BeginWrite(u, c, text)

Step(u, ok, from, to) ==
  /\ client[u].pc = from /\ Call(ok)
  /\ client' = IF ok THEN [client EXCEPT ![u] = to] ELSE [client EXCEPT ![u] = NoOne]

(* UpdateContent: SELECT, INSERT of the revision, UPDATE. *)
ReadPrevious(u) ==
  /\ \E ok \in BOOLEAN :
       Step(u, ok, "read", [client[u] EXCEPT !.pc = "keep", !.read = row[client[u].chunk]])
  /\ UNCHANGED <<row, revisions, index, Background, deleted, past, contested, writes>>

(* A revision of the text that is about to be written. *)
KeepRevisionOfNew(u) ==
  /\ \E ok \in BOOLEAN :
       /\ Step(u, ok, "keep", [client[u] EXCEPT !.pc = "update"])
       /\ revisions' = IF ok THEN [revisions EXCEPT ![client[u].chunk] = @ \cup {client[u].text}]
                       ELSE revisions
  /\ UNCHANGED <<row, index, Background, deleted, past, contested, writes>>

KeepRevision(u) ==
  /\ \E ok \in BOOLEAN :
       /\ Step(u, ok, "keep", [client[u] EXCEPT !.pc = "update"])
       /\ revisions' = IF ok THEN [revisions EXCEPT ![client[u].chunk] = @ \cup {client[u].read}]
                       ELSE revisions
  /\ UNCHANGED <<row, index, Background, deleted, past, contested, writes>>

Update(u) ==
  LET c == client[u].chunk  text == client[u].text IN
  /\ \E ok \in BOOLEAN :
       /\ Step(u, ok, "update", NoOne)
       /\ row' = IF ok THEN [row EXCEPT ![c] = text] ELSE row
       /\ past' = IF ok THEN [past EXCEPT ![c] = @ \cup {text}] ELSE past
       /\ contested' = IF ok /\ Editors(c) # {u}
                       THEN [contested EXCEPT ![c] = @ \cup {text}] ELSE contested
  /\ UNCHANGED <<revisions, index, Background, deleted, writes>>

(* ReindexEditedChunk: read the text, embed it, replace the chunk's document. *)
Reindex(u, c) ==
  /\ Begin(u, c, "embed", row[c])
  /\ UNCHANGED <<row, revisions, index, Background, deleted, past, contested, faults>>

Upsert(u) ==
  /\ \E ok \in BOOLEAN :
       /\ Step(u, ok, "embed", NoOne)
       /\ index' = IF ok THEN [index EXCEPT ![client[u].chunk] = {Doc(client[u].text, FALSE)}]
                   ELSE index
  /\ UNCHANGED <<row, revisions, Background, deleted, past, contested, writes>>

(* DeleteDocument: the row of the document, then its documents in the vector store. *)
DeleteDocument ==
  /\ ~deleted /\ deleted' = TRUE
  /\ \E ok \in BOOLEAN : /\ Call(ok)
                         /\ index' = IF ok THEN [c \in ChunkIds |-> {}] ELSE index
  /\ UNCHANGED <<row, revisions, client, Background, past, contested, writes>>

-----------------------------------------------------------------------------
Foreground == <<row, revisions, client, deleted, past, contested, writes>>

(* scheduleContextualEnrichment, processContextualEnrichment *)
Schedule ==
  /\ run.pc = "off" /\ status = "pending"
  /\ status' = "processing" /\ run' = [run EXCEPT !.pc = "read"]
  /\ UNCHANGED <<Foreground, index, queue, worker, enriched, faults>>

(* GetByKnowledgeID, and the tasks of the pool. *)
Enrich ==
  /\ run.pc = "read"
  /\ \/ /\ run' = [pc |-> "pool", docs |-> [i \in DOMAIN Chunks |-> row[Chunks[i]]]]
        /\ queue' = [i \in DOMAIN Chunks |-> i]
        /\ enriched' = [i \in DOMAIN Chunks |-> Doc(<<>>, FALSE)]
        /\ UNCHANGED <<status, faults>>
     \/ /\ Call(FALSE) /\ status' = "failed" /\ run' = Off
        /\ UNCHANGED <<queue, enriched>>
  /\ UNCHANGED <<Foreground, index, worker>>

Take(w) ==
  /\ run.pc = "pool" /\ worker[w] = 0 /\ queue # <<>>
  /\ worker' = [worker EXCEPT ![w] = Head(queue)] /\ queue' = Tail(queue)
  /\ UNCHANGED <<Foreground, index, run, enriched, status, faults>>

(* A result stored where the next one belongs rather than at its task's index. *)
GenerateNext(w) ==
  /\ worker[w] # 0
  /\ \E ok \in BOOLEAN, i \in DOMAIN enriched :
       /\ Call(ok)
       /\ enriched[i].text = <<>> /\ \A j \in 1 .. i - 1 : enriched[j].text # <<>>
       /\ enriched' = [enriched EXCEPT ![i] = Doc(run.docs[worker[w]], ok)]
  /\ worker' = [worker EXCEPT ![w] = 0]
  /\ UNCHANGED <<Foreground, index, run, queue, status>>

(* generateContext: a chunk the model fails on keeps its text as it is. *)
Generate(w) ==
  /\ worker[w] # 0
  /\ \E ok \in BOOLEAN :
       /\ Call(ok)
       /\ enriched' = [enriched EXCEPT ![worker[w]] = Doc(run.docs[worker[w]], ok)]
  /\ worker' = [worker EXCEPT ![w] = 0]
  /\ UNCHANGED <<Foreground, index, run, queue, status>>

(* wg.Wait, and the embedding of all of them. *)
Embed ==
  /\ run.pc = "pool" /\ queue = <<>> /\ \A w \in Workers : worker[w] = 0
  /\ \E ok \in BOOLEAN :
       /\ Call(ok)
       /\ IF ok THEN run' = [run EXCEPT !.pc = "store"] /\ queue' = [i \in DOMAIN Chunks |-> i]
          ELSE run' = Off /\ UNCHANGED queue
       /\ status' = IF ok THEN status ELSE "failed"
  /\ UNCHANGED <<Foreground, index, worker, enriched>>

(* Upsert writes the documents one by one; the ones before a failure stay. *)
Store ==
  /\ run.pc = "store" /\ queue # <<>>
  /\ \E ok \in BOOLEAN :
       /\ Call(ok)
       /\ IF ok THEN /\ index' = [index EXCEPT ![Chunks[Head(queue)]] = {enriched[Head(queue)]}]
                     /\ queue' = Tail(queue) /\ UNCHANGED <<status, run>>
          ELSE /\ status' = "failed" /\ run' = Off /\ queue' = <<>> /\ UNCHANGED index
  /\ UNCHANGED <<Foreground, worker, enriched>>

Complete ==
  /\ run.pc = "store" /\ queue = <<>>
  /\ status' = "completed" /\ run' = Off
  /\ UNCHANGED <<Foreground, index, queue, worker, enriched, faults>>

Over == /\ run.pc = "off" /\ deleted /\ writes = MaxWrites
        /\ \A u \in Clients : client[u].pc = "idle"
        /\ UNCHANGED upkeepVars

UpkeepNext == \/ \E u \in Clients :
                   \/ \E c \in ChunkIds : Edit(u, c) \/ Restore(u, c) \/ Reindex(u, c)
                   \/ ReadPrevious(u) \/ KeepRevision(u) \/ Update(u) \/ Upsert(u)
              \/ \E w \in Workers : Take(w) \/ Generate(w)
              \/ DeleteDocument \/ Schedule \/ Enrich \/ Embed \/ Store \/ Complete \/ Over

UpkeepSpec == UpkeepInit /\ [][UpkeepNext]_upkeepVars

-----------------------------------------------------------------------------
(* No edit loses a text, whatever statement of it or of another fails: each text a chunk    *)
(* had is its text or among its revisions, unless it was written while another edit of the  *)
(* chunk was at work.  (repository.go, UpdateContent, RestoreRevision.)                     *)
HistoryKept ==
  \A c \in ChunkIds : past[c] \subseteq {row[c]} \cup revisions[c] \cup contested[c]

(* The vector store never holds, under a chunk's id, a text that was not the chunk's, though *)
(* the workers finish in any order, some fail, and an upsert may stop half way.              *)
(* (contextual_enricher.go, Enrich; api.go, processContextualEnrichment.)                    *)
IndexHoldsOwnText == \A c \in ChunkIds : \A d \in index[c] : d.text \in past[c]
=============================================================================
