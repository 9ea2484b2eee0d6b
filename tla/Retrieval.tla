------------------------------ MODULE Retrieval ------------------------------
(**************************************************************************)
(* One question's way from the query to the evidence the model reads: the *)
(* rewriter, the unified retriever (vector, keyword and graph hits fused  *)
(* by reciprocal rank, wiki pages beside them), the scope filter, the     *)
(* reranker, the evidence gate and the context.  RAGPipeline.Run,         *)
(* RAGPipeline.RunStream and the agent's knowledge_search tool are three  *)
(* ways through it.  The search engines are external: a similarity search *)
(* answers with any order of the index.                                   *)
(**************************************************************************)
EXTENDS Integers, SequencesExt, FiniteSetsExt, Functions, Picking

CONSTANTS
  IndexedChunks,  \* chunks in the vector index
  Pages,          \* wiki pages
  Summary,        \* the "graph-context" document of the graph retriever
  RetrievalKbs,   \* knowledge bases
  KbOf,           \* [IndexedChunks \cup Pages -> RetrievalKbs]
  WikiKbs,        \* the knowledge bases in wiki mode
  FileOf,         \* [IndexedChunks \cup Pages -> the id of the document it is part of]
  LinksOf,        \* [Pages -> SUBSET Pages], the cross references
  Contentless,    \* chunks without content
  LowQuality, OffTopic, ProjectContext,  \* what the gate's word lists tell apart
  Queries,        \* query texts, as asked and as rewritten
  KindOf,         \* [Queries -> {"plain", "strict", "overview"}]
  Requests,       \* what may be asked: see Request
  TopK, RerankTopK,
  MinCandidates, CandidateFactor, MaxCandidates   \* 200, 50 and 5000 in the code

Documents == IndexedChunks \cup Pages \cup {Summary}

(* TopK is 10 where the configuration has none (config.go:544); RerankTopK is *)
(* taken as it stands (chat.go:241).  The upper bound of TopK is the model's: *)
(* Scale, below, tells some two thousand ranks apart.  The graph's summary is *)
(* no document of a knowledge base.                                           *)
ASSUME RetrievalAssumption ==
  /\ IsFiniteSet(IndexedChunks) /\ IsFiniteSet(Pages)
  /\ Summary \notin IndexedChunks \cup Pages
  /\ \A p \in Pages : LinksOf[p] \subseteq Pages
  /\ Queries # {}
  /\ \A r \in Requests : r.asked \in Queries /\ IsFiniteSet(r.kbs)
  /\ TopK \in 1 .. 1000 /\ RerankTopK \in Nat
  /\ MinCandidates \in Nat /\ CandidateFactor \in Nat /\ MaxCandidates \in Nat

VARIABLES
  pc,        \* the stage the request is in
  req,       \* the request
  wiki,      \* the knowledge bases of its scope searched as wikis
  query,     \* the query after the rewriting
  embedded,  \* queries whose vector is in the embedding cache
  vector,    \* the vector hits, best first
  keyword,   \* the keyword hits, best first
  boosted,   \* the chunks the graph retriever names
  summary,   \* whether the graph retriever gave a summary
  docs,      \* the documents retrieved so far, best first
  context,   \* what the model reads and the answer cites
  outcome    \* how the request ended

retrievalVars == <<pc, req, wiki, query, embedded, vector, keyword, boosted, summary, docs,
          context, outcome>>

Nobody == [kind |-> "none", asked |-> CHOOSE q \in Queries : TRUE, kbs |-> {}, files |-> {},
           hybrid |-> FALSE, rewrite |-> FALSE, rerank |-> FALSE]

RetrievalInit == /\ pc = "idle" /\ req = Nobody /\ wiki = {} /\ query = Nobody.asked
                 /\ embedded = {} /\ vector = <<>> /\ keyword = <<>>
                 /\ boosted = {} /\ summary = FALSE
                 /\ docs = <<>> /\ context = <<>> /\ outcome = "none"

---------------------------------------------------------------------------
\* Scope: the knowledge bases and documents a request may read.

\* Mutant: a document without a knowledge base id passes.
MatchDocUnlabelled(r, d) ==
  /\ r.kbs # {} \/ r.files # {}
  /\ r.kbs # {} => d = Summary \/ KbOf[d] \in r.kbs
  /\ r.files # {} => d # Summary /\ {d, FileOf[d]} \cap r.files # {}

\* matchDoc of a restricted scope; the graph's summary carries no knowledge base id.
MatchDoc(r, d) ==
  /\ r.kbs # {} \/ r.files # {}
  /\ r.kbs # {} => d # Summary /\ KbOf[d] \in r.kbs
  /\ r.files # {} => d # Summary /\ {d, FileOf[d]} \cap r.files # {}

FirstOf(list, k) == SubSeq(list, 1, Min({k, Len(list)}))

\* filterDocs of the scoped vector database: the first k in the knowledge bases.
InKbs(list, among, k) == FirstOf(Pick(list, {n \in DOMAIN list : KbOf[list[n]] \in among}), k)

\* Search of the scoped database: a wider net, and the widest when too few match.
ScopedSearch(near, among, k) ==
  LET candidates == Max({k * CandidateFactor, MinCandidates})
      found == InKbs(FirstOf(near, candidates), among, k)
  IN IF Len(found) >= k \/ candidates >= MaxCandidates
       THEN found ELSE InKbs(FirstOf(near, MaxCandidates), among, k)

---------------------------------------------------------------------------
\* Ranking.

Scale == 10000000   \* scores are integers of this unit: enough to order sums of 1 / (60 + rank)

Contribution(list, weight, d) ==
  IF Contains(list, d)
    THEN (weight * Scale) \div (10 * (60 + SelectInSeq(list, LAMBDA e : e = d))) ELSE 0

\* Mutant: the second source's share replaces the first's.
RrfScoreReplaced(v, k, d) ==
  IF Contains(k, d) THEN Contribution(k, 8, d) ELSE Contribution(v, 10, d)

RrfScore(v, k, d) == Contribution(v, 10, d) + Contribution(k, 8, d)

\* The documents rrfFuse keeps: an empty one only when both sources found it.
Fusible(v, k) == {d \in ToSet(v) \cup ToSet(k) :
                    d \in Contentless => d \in ToSet(v) \cap ToSet(k)}

\* sort.Slice is not stable: documents of equal score come in any order.
Ranked(S, Score(_)) ==
  {s \in SetToSeqs(S) : \A i \in 1 .. Len(s) - 1 : Score(s[i]) >= Score(s[i + 1])}

RrfFuse(v, k) == {FirstOf(s, TopK) : s \in Ranked(Fusible(v, k), LAMBDA d : RrfScore(v, k, d))}

\* The graph's hits confirm a document: a fifth more, never above one.
Boost(v, k, d) ==
  IF d \in boosted THEN Min({(RrfScore(v, k, d) * 12) \div 10, Scale}) ELSE RrfScore(v, k, d)

\* The provider scores each passage and the adapter maps the scores back by content:
\* whatever they are, the answer has every index once, so the order is any order.
Rerankings(list) == {[i \in DOMAIN list |-> list[p[i]]] : p \in SetToSeqs(DOMAIN list)}

\* deduplicateDocs keeps the first of a document.
Distinct(list) == Pick(list, Firsts(list))

---------------------------------------------------------------------------
\* The request, and the rewriting of its query.

\* Each knowledge base of the scope is routed by its mode, to the vector side when
\* the mode cannot be read.
Ask(r) ==
  /\ pc = "idle"
  /\ wiki' \in SUBSET (r.kbs \cap WikiKbs)
  /\ req' = r /\ query' = r.asked /\ pc' = "rewrite"
  /\ outcome' = "none" /\ context' = <<>>
  /\ UNCHANGED <<embedded, vector, keyword, boosted, summary, docs>>

\* A failed rewriting leaves the query; the agent's tool has no rewriter.
Rewrite ==
  /\ pc = "rewrite"
  /\ \/ query' = req.asked
     \/ req.rewrite /\ req.kind # "tool" /\ query' \in Queries
  /\ pc' = "embed"
  /\ UNCHANGED <<req, wiki, embedded, vector, keyword, boosted, summary, docs, context, outcome>>

VectorKbs == req.kbs \ wiki

SkipVector == req.kbs # {} /\ VectorKbs = {}

\* The vector side of the scope has nothing to search.
NoVectorSide ==
  /\ pc = "embed" /\ SkipVector
  /\ pc' = "wiki"
  /\ UNCHANGED <<req, wiki, query, embedded, vector, keyword, boosted, summary, docs, context, outcome>>

\* The query's vector comes from the cache or from the embedder, which may then
\* fill the cache; either cache call may fail without a word.
EmbedQuery ==
  /\ pc = "embed" /\ ~SkipVector
  /\ embedded' \in {embedded, embedded \cup {query}}
  /\ pc' = "search"
  /\ UNCHANGED <<req, wiki, query, vector, keyword, boosted, summary, docs, context, outcome>>

\* With a scope, the unified retriever logs the vector side's error and goes on;
\* without one the request fails.
VectorFails ==
  /\ \/ pc = "embed" /\ ~SkipVector /\ query \notin embedded
     \/ pc = "search"
  /\ pc' = IF req.kbs # {} THEN "wiki" ELSE "done"
  /\ outcome' = IF req.kbs # {} THEN outcome ELSE "error"
  /\ UNCHANGED <<req, wiki, query, embedded, vector, keyword, boosted, summary, docs, context>>

VectorSearch(near) ==
  /\ pc = "search"
  /\ vector' = IF req.kbs = {} THEN FirstOf(near, 2 * TopK)
                               ELSE ScopedSearch(near, VectorKbs, 2 * TopK)
  /\ pc' = IF req.hybrid THEN "keyword" ELSE "semantic"
  /\ UNCHANGED <<req, wiki, query, embedded, keyword, boosted, summary, docs, context, outcome>>

\* Without the hybrid setting the vector hits are the answer.
Semantic ==
  /\ pc = "semantic"
  /\ docs' = FirstOf(vector, TopK) /\ vector' = <<>> /\ pc' = "wiki"
  /\ UNCHANGED <<req, wiki, query, embedded, keyword, boosted, summary, context, outcome>>

\* A failed keyword search is an empty one.
KeywordSearch(found) ==
  /\ pc = "keyword"
  /\ keyword' = IF req.kbs = {} THEN FirstOf(found, 2 * TopK)
                                ELSE InKbs(found, VectorKbs, 2 * TopK)
  /\ pc' = "graph"
  /\ UNCHANGED <<req, wiki, query, embedded, vector, boosted, summary, docs, context, outcome>>

\* The graph retriever names chunks and may summarise the entities it met; switched
\* off or failing, it does neither.  The server gives the retriever no factory, so a
\* scope leaves it what it was: a search of the graphs of all knowledge bases.
GraphSearch(named, summarised) ==
  /\ pc = "graph"
  /\ boosted' = named /\ summary' = summarised /\ pc' = "fuse"
  /\ UNCHANGED <<req, wiki, query, embedded, vector, keyword, docs, context, outcome>>

Fuse ==
  /\ pc = "fuse"
  /\ \E fused \in RrfFuse(vector, keyword) :
       docs' \in IF boosted = {} THEN {fused}
                 ELSE Ranked(ToSet(fused), LAMBDA d : Boost(vector, keyword, d))
  /\ pc' = "inject"
  /\ UNCHANGED <<req, wiki, query, embedded, vector, keyword, boosted, summary, context, outcome>>

\* The graph's summary is appended after the best documents.
Inject ==
  /\ pc = "inject"
  /\ docs' = IF summary THEN Append(docs, Summary) ELSE docs
  /\ vector' = <<>> /\ keyword' = <<>> /\ boosted' = {} /\ pc' = "wiki"
  /\ UNCHANGED <<req, wiki, query, embedded, summary, context, outcome>>

---------------------------------------------------------------------------
\* Wiki pages, and the unified result.

\* RetrieveScoped: per knowledge base the pages found, then the pages they link to,
\* all cut at the top k.
WikiDocs(found, order) ==
  LET pagesOf(kb) == InKbs(found, {kb}, TopK)
      linkedTo(kb) == SetToSeq(UNION {LinksOf[p] : p \in ToSet(pagesOf(kb))})
  IN FirstOf(Distinct(Joined([i \in DOMAIN order |->
                                pagesOf(order[i]) \o linkedTo(order[i])])), TopK)

\* The vector documents come first; what exceeds the top k is cut off.
WikiSearch(found) ==
  /\ pc = "wiki"
  /\ \A p \in ToSet(found) : KbOf[p] \in wiki
  /\ IF req.kbs = {} THEN docs' = docs
     ELSE \E order \in SetToSeqs(wiki) :
            docs' = FirstOf(Distinct(docs \o WikiDocs(found, order)), TopK)
  /\ pc' = "scope"
  /\ UNCHANGED <<req, wiki, query, embedded, vector, keyword, boosted, summary, context, outcome>>

\* The scoped retriever wraps them all; the agent's tool then answers with the first
\* top k, in the auto mode whatever mode it was called with: the wrapper has no modes.
ApplyScope ==
  /\ pc = "scope"
  /\ LET kept == Pick(docs, {n \in DOMAIN docs : MatchDoc(req, docs[n])})
     IN IF req.kind = "tool"
          THEN /\ context' = FirstOf(kept, TopK) /\ outcome' = "listed" /\ pc' = "done"
               /\ docs' = <<>>
          ELSE docs' = kept /\ pc' = "rerank" /\ UNCHANGED <<context, outcome>>
  /\ UNCHANGED <<req, wiki, query, embedded, vector, keyword, boosted, summary>>

---------------------------------------------------------------------------
\* The pipeline's second half.

\* A failed or disabled reranker leaves the order.
Rerank ==
  /\ pc = "rerank"
  /\ docs' \in {docs} \cup (IF req.rerank THEN Rerankings(docs) ELSE {})
  /\ pc' = IF req.kind = "run" THEN "gate" ELSE "context"
  /\ UNCHANGED <<req, wiki, query, embedded, vector, keyword, boosted, summary, context, outcome>>

IsEvidence(d) == d \notin LowQuality /\ ~(KindOf[query] = "strict" /\ d \in OffTopic)

Evidence == Pick(docs, {n \in DOMAIN docs : IsEvidence(docs[n])})

\* Mutant: the emptiness of what was retrieved is tested, not of what is left.
GateUnfiltered ==
  /\ pc = "gate"
  /\ LET blocked == \/ docs = <<>>
                    \/ KindOf[query] = "overview" /\ ToSet(Evidence) \cap ProjectContext = {}
     IN IF blocked THEN docs' = <<>> /\ outcome' = "blocked" /\ pc' = "done"
                   ELSE docs' = Evidence /\ pc' = "context" /\ UNCHANGED outcome
  /\ UNCHANGED <<req, wiki, query, embedded, vector, keyword, boosted, summary, context>>

\* Only Run has the gate; a blocked question is answered with a fixed sentence.
Gate ==
  /\ pc = "gate"
  /\ LET blocked == \/ Evidence = <<>>
                    \/ KindOf[query] = "overview" /\ ToSet(Evidence) \cap ProjectContext = {}
     IN IF blocked THEN docs' = <<>> /\ outcome' = "blocked" /\ pc' = "done"
                   ELSE docs' = Evidence /\ pc' = "context" /\ UNCHANGED outcome
  /\ UNCHANGED <<req, wiki, query, embedded, vector, keyword, boosted, summary, context>>

BuildContext ==
  /\ pc = "context"
  /\ context' = FirstOf(docs, RerankTopK) /\ docs' = <<>> /\ pc' = "generate"
  /\ UNCHANGED <<req, wiki, query, embedded, vector, keyword, boosted, summary, outcome>>

GenerateAnswer ==
  /\ pc = "generate"
  /\ outcome' \in {"answered", "error"} /\ pc' = "done"
  /\ UNCHANGED <<req, wiki, query, embedded, vector, keyword, boosted, summary, docs, context>>

Finish ==
  /\ pc = "done"
  /\ pc' = "idle" /\ req' = Nobody /\ query' = Nobody.asked /\ docs' = <<>> /\ wiki' = {}
  /\ context' = <<>> /\ summary' = FALSE /\ outcome' = "none"
  /\ UNCHANGED <<embedded, vector, keyword, boosted>>

\* What a search engine may answer with: some of the documents of S, in some order.
Lists(S) == UNION {SetToSeqs(T) : T \in SUBSET S}
Orders == SetToSeqs(IndexedChunks)
ChunkLists == Lists(IndexedChunks)
PageLists == Lists(Pages)

RetrievalNext == \/ \E r \in Requests : Ask(r)
                 \/ Rewrite \/ NoVectorSide \/ EmbedQuery \/ VectorFails
                 \/ \E near \in Orders : VectorSearch(near)
                 \/ Semantic
                 \/ \E found \in ChunkLists : KeywordSearch(found)
                 \/ \E named \in SUBSET IndexedChunks, summarised \in BOOLEAN : GraphSearch(named, summarised)
                 \/ Fuse \/ Inject
                 \/ \E found \in PageLists : WikiSearch(found)
                 \/ ApplyScope \/ Rerank \/ Gate \/ BuildContext \/ GenerateAnswer \/ Finish

RetrievalSpec == RetrievalInit /\ [][RetrievalNext]_retrievalVars

---------------------------------------------------------------------------
\* Properties.

\* What the request allows to be read, said once more and without the code's steps.
Allowed(r) ==
  {d \in IndexedChunks \cup Pages :
     /\ r.kbs # {} => KbOf[d] \in r.kbs
     /\ r.files # {} => d \in r.files \/ FileOf[d] \in r.files
     /\ r.kbs \cup r.files # {}}

\* Whatever the engines return, the links of a wiki page lead to and the graph adds,
\* the model reads nothing outside the knowledge bases and documents of the request
\* (the scope pushed down to the searches and the filter around them).
ScopeRespected == ToSet(context) \subseteq Allowed(req)

AtLeastAsGood(list, a, b) ==
  Contains(list, b) =>
    /\ Contains(list, a)
    /\ SelectInSeq(list, LAMBDA e : e = a) < SelectInSeq(list, LAMBDA e : e = b)

\* A document that every source puts before another, and the graph confirms if it
\* confirms the other, comes before it in the fused list: neither the sum of the
\* reciprocal ranks, nor the cut at the top k, nor the second sort by the graph's
\* confirmation turns the sources' common verdict around (rrfFuse and its caller).
CommonVerdictKept ==
  pc = "inject" =>
    \A a \in Fusible(vector, keyword), b \in ToSet(docs) :
      (/\ a # b /\ (b \in boosted => a \in boosted)
       /\ AtLeastAsGood(vector, a, b) /\ AtLeastAsGood(keyword, a, b))
      => AtLeastAsGood(docs, a, b)

\* An answer of Run was generated from evidence: a context that is not empty, and no
\* document in it that the gate rejects, whatever the reranker and the cut did.
AnswerHasEvidence ==
  req.kind = "run" /\ outcome = "answered" =>
    context # <<>> /\ \A d \in ToSet(context) : IsEvidence(d)

\* "graph_context is injected into the final result as additional context for the
\* model" (the comment in retrieveWithHybrid): a summary found is still among the
\* documents the second half of the pipeline starts from.
GraphContextReachesPipeline ==
  pc = "rerank" /\ summary => Contains(docs, Summary)
=============================================================================
