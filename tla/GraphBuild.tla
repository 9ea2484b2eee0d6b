------------------------------ MODULE GraphBuild ------------------------------
(****************************************************************************)
(* GraphRAG: an import, or a request, has the model name the entities and   *)
(* relations of each chunk, several chunks at a time, and merges them into  *)
(* the graph of the knowledge base; a request deletes that graph; questions *)
(* look chunks up by the entities they name.  One transaction stores one    *)
(* chunk: it merges by what it reads, and nothing but the name tells two    *)
(* nodes of a graph apart, so two transactions may both create a name.      *)
(****************************************************************************)
EXTENDS Integers, Sequences, FiniteSets, FiniteSetsExt, SequencesExt, Picking

CONSTANTS
  Builds,          \* the builds that may run, of chunks of a knowledge base
  GraphOf,         \* of a build
  ChunksOf,        \* of a build, in order
  Deletions,       \* requests that delete a graph
  GraphKbs, Names,
  Says,            \* what the model finds in a chunk, in order: [entity, type] and [from, to, via]
  ContainsName(_, _), \* the first name contains the second, in whatever case
  Short,           \* the names of fewer than two characters
  Other,           \* the type of what has none
  Concurrency,     \* chunks a build works on at once
  MaxRows,         \* LIMIT of a search
  GraphTopK,       \* chunks a question gets from the graph
  MaxDrawn,        \* nodes drawn, and half of the relations
  MaxGraphFaults   \* bound

VARIABLES
  build,    \* of each build, what is at which step; failed counts its lost chunks
  deletion, \* [at, kb] of each
  nodes,    \* [maker, kb, name, type, chunks]
  edges,    \* [kb, from, to, via], via being the type of the relation
  inGraph,  \* <<kb, chunk>> stored and not deleted since
  doubled,  \* knowledge bases in which two transactions created one name
  graphFaults

graphVars == <<build, deletion, nodes, edges, inGraph, doubled, graphFaults>>

All(b) == ToSet(ChunksOf[b])
AllChunks == UNION {All(b) : b \in Builds}

---------------------------------------------------------------------------
(* ParseGraphJSON and rebuildGraph: a name keeps its first type, a relation *)
(* of a name to itself is dropped, and the ends of the others become nodes  *)
(* without a type.                                                          *)
Entities(items) == SelectSeq(items, LAMBDA i : "entity" \in DOMAIN i)

Relations(items) ==
  {[from |-> i.from, to |-> i.to, via |-> i.via] :
     i \in {x \in ToSet(items) : "entity" \notin DOMAIN x /\ x.from # x.to}}

TypeIn(items, name) ==
  LET first == SelectInSeq(items, LAMBDA i : "entity" \in DOMAIN i /\ i.entity = name)
  IN  IF first = 0 THEN "" ELSE items[first].type

Mentioned(items) ==
  {i.entity : i \in ToSet(Entities(items))}
    \union UNION {{r.from, r.to} : r \in Relations(items)}

\* A name contains itself, which is not to say that it is searched for.
ASSUME GraphAssumption ==
  /\ GraphOf \in [Builds -> GraphKbs]
  /\ {MaxDrawn, MaxRows, GraphTopK} \subseteq Nat
  /\ IsFiniteSet(Names)
  /\ \A c \in AllChunks : Mentioned(Says[c]) \subseteq Names
  /\ \A name \in Names : ContainsName(name, name)

---------------------------------------------------------------------------
GraphInit ==
  /\ build = [b \in Builds |->
       [at |-> "new", next |-> 1, failed |-> 0, run |-> [c \in All(b) |-> "no"],
        saw |-> [c \in All(b) |-> {}]]]
  /\ deletion = [d \in Deletions |-> [at |-> "new", kb |-> "none"]]
  /\ nodes = {} /\ edges = {} /\ inGraph = {} /\ doubled = {}
  /\ graphFaults = 0

Running(b) == {c \in All(b) : build[b].run[c] \notin {"no", "done"}}

\* The import goes on while the graph is built; a request waits for the answer.
StartBuild(b) ==
  /\ build[b].at = "new"
  /\ build' = [build EXCEPT ![b].at = "run"]
  /\ UNCHANGED <<deletion, nodes, edges, inGraph, doubled, graphFaults>>

\* The loop takes a place of the semaphore for the next chunk.
TakeChunk(b) ==
  /\ build[b].at = "run" /\ build[b].next <= Len(ChunksOf[b])
  /\ Cardinality(Running(b)) < Concurrency
  /\ build' = [build EXCEPT ![b].next = @ + 1, ![b].run[ChunksOf[b][build[b].next]] = "extract"]
  /\ UNCHANGED <<deletion, nodes, edges, inGraph, doubled, graphFaults>>

\* An answer that cannot be parsed counts as one that names nothing, not as a failure.
Extract(b, c) ==
  /\ build[b].run[c] = "extract"
  /\ \/ /\ graphFaults < MaxGraphFaults /\ graphFaults' = graphFaults + 1
        /\ \E error \in {0, 1} :
             build' = [build EXCEPT ![b].run[c] = "done", ![b].failed = @ + error]
     \/ /\ build' = [build EXCEPT ![b].run[c] = IF Mentioned(Says[c]) = {} THEN "done" ELSE "match"]
        /\ UNCHANGED graphFaults
  /\ UNCHANGED <<deletion, nodes, edges, inGraph, doubled>>

InKb(kb) == {n \in nodes : n.kb = kb}
Named(kb, name) == {n \in InKb(kb) : n.name = name}

\* The transaction looks for the names it is going to merge.
Match(b, c) ==
  /\ build[b].run[c] = "match"
  /\ build' = [build EXCEPT ![b].run[c] = "merge",
       ![b].saw[c] = {name \in Mentioned(Says[c]) : Named(GraphOf[b], name) # {}}]
  /\ UNCHANGED <<deletion, nodes, edges, inGraph, doubled, graphFaults>>

(* The chunks of a node are set as its type is: when it is created. *)
MergeAsCreated(b, c) ==
  LET kb == GraphOf[b]
      created == {name \in Mentioned(Says[c]) : name \notin build[b].saw[c] \/ Named(kb, name) = {}}
  IN  nodes' = nodes \union {[maker |-> c, kb |-> kb, name |-> name,
                              type |-> TypeIn(Says[c], name), chunks |-> {c}] : name \in created}

\* The type of a node is set when it is created, its chunks grow.
Merge(b, c) ==
  LET kb == GraphOf[b]
      created == {name \in Mentioned(Says[c]) : name \notin build[b].saw[c] \/ Named(kb, name) = {}}
      merged == Mentioned(Says[c]) \ created
  IN  nodes' = {IF n.kb = kb /\ n.name \in merged THEN [n EXCEPT !.chunks = @ \union {c}] ELSE n : n \in nodes}
                 \union {[maker |-> c, kb |-> kb, name |-> name,
                          type |-> TypeIn(Says[c], name), chunks |-> {c}] : name \in created}

AddGraph(b, c) ==
  LET kb == GraphOf[b]
      finish == [build EXCEPT ![b].run[c] = "done", ![b].saw[c] = {}]
  IN  /\ build[b].run[c] = "merge"
      /\ \/ /\ graphFaults < MaxGraphFaults /\ graphFaults' = graphFaults + 1
            /\ build' = [finish EXCEPT ![b].failed = @ + 1]
            /\ UNCHANGED <<nodes, edges, inGraph, doubled>>
         \/ /\ Merge(b, c)
            /\ edges' = edges \union
                 {[kb |-> kb, from |-> r.from, to |-> r.to, via |-> r.via] : r \in Relations(Says[c])}
            /\ inGraph' = inGraph \union {<<kb, c>>}
            /\ doubled' = IF \E name \in Mentioned(Says[c]) \ build[b].saw[c] : Named(kb, name) # {}
                        THEN doubled \union {kb} ELSE doubled
            /\ build' = finish
            /\ UNCHANGED graphFaults
      /\ UNCHANGED deletion

EndBuild(b) ==
  /\ build[b].at = "run" /\ \A c \in All(b) : build[b].run[c] = "done"
  /\ build' = [build EXCEPT ![b].at = "end"]
  /\ UNCHANGED <<deletion, nodes, edges, inGraph, doubled, graphFaults>>

---------------------------------------------------------------------------
\* DelGraph: each half commits in transactions of its own.
DeleteRelations(d) ==
  \E kb \in GraphKbs :
    /\ deletion[d].at = "new"
    /\ edges' = {e \in edges : e.kb # kb}
    /\ inGraph' = {k \in inGraph : k[1] # kb}
    /\ deletion' = [deletion EXCEPT ![d] = [at |-> "nodes", kb |-> kb]]
    /\ UNCHANGED <<build, nodes, doubled, graphFaults>>

\* A batch with a node that has been given an edge in between deletes nothing, without
\* an error.
DeleteNodes(d) ==
  LET kb == deletion[d].kb
      linked == \E e \in edges : e.kb = kb
  IN  /\ deletion[d].at = "nodes"
      /\ deletion' = [deletion EXCEPT ![d].at = "end"]
      /\ nodes' = IF linked THEN nodes ELSE {n \in nodes : n.kb # kb}
      /\ inGraph' = {k \in inGraph : k[1] # kb}
      /\ doubled' = IF linked THEN doubled ELSE doubled \ {kb}
      /\ UNCHANGED <<build, edges, graphFaults>>

DeleteFails(d) ==
  /\ deletion[d].at = "nodes" /\ graphFaults < MaxGraphFaults
  /\ graphFaults' = graphFaults + 1
  /\ deletion' = [deletion EXCEPT ![d].at = "end"]
  /\ inGraph' = {k \in inGraph : k[1] # deletion[d].kb}
  /\ UNCHANGED <<build, nodes, edges, doubled>>

GraphOver ==
  /\ \A b \in Builds : build[b].at = "end"
  /\ \A d \in Deletions : deletion[d].at = "end"
  /\ UNCHANGED graphVars

GraphNext ==
  \/ \E b \in Builds : StartBuild(b) \/ TakeChunk(b) \/ EndBuild(b)
                         \/ \E c \in All(b) : Extract(b, c) \/ Match(b, c) \/ AddGraph(b, c)
  \/ \E d \in Deletions : DeleteRelations(d) \/ DeleteNodes(d) \/ DeleteFails(d)
  \/ GraphOver

GraphSpec == GraphInit /\ [][GraphNext]_graphVars

---------------------------------------------------------------------------
\* Without a knowledge base the whole store is searched.
Scope(ns) == IF ns = {} THEN nodes ELSE {n \in nodes : n.kb \in ns}

\* A name of one character is not searched for, and is not recognised in a longer one.
Matches(n, q) ==
  /\ q.name \notin Short
  /\ ContainsName(n.name, q.name) \/ (n.name \notin Short /\ ContainsName(q.name, n.name))

Hits(ns, asked) == {n \in Scope(ns) : \E q \in asked : Matches(n, q)}

\* The rows a search finds: a node that is asked for, a relation of it, and the node at the
\* other end.  A node that has no relation is in none.
SearchRows(ns, asked) ==
  {row \in [n : Hits(ns, asked), e : edges, m : nodes] :
     /\ row.e.kb = row.n.kb /\ row.m.kb = row.n.kb
     /\ row.e.from # row.e.to /\ {row.e.from, row.e.to} = {row.n.name, row.m.name}}

\* Of the nodes that the name itself brought in, those of another type are dropped.
TypeFits(asked, n) ==
  LET Like(q) == ContainsName(n.name, q.name) \/ ContainsName(q.name, n.name)
      typed == {q \in asked : q.type \notin {"", Other}}
  IN  \/ typed = {} \/ n.type = ""
      \/ \E q \in typed : Like(q) /\ q.type = n.type
      \/ \A q \in asked : ~Like(q)

\* Any rows may be those within the limit, and any of the nodes of a name the one that is read.
SearchNode(ns, asked) ==
  LET rows == Limited(SearchRows(ns, asked), MaxRows)
      found == {row.n : row \in rows} \union {row.m : row \in rows}
      read == {CHOOSE n \in found : n.name = name : name \in {f.name : f \in found}}
  IN  {n \in read : TypeFits(asked, n)}

\* The entities of a question, those of one character left out.
ExtractEntitiesFromQuery(asked) == {q \in asked : q.name \notin Short}

ChunksFound(ns, asked) == UNION {n.chunks : n \in SearchNode(ns, ExtractEntitiesFromQuery(asked))}

\* The ids that the graph adds to the documents found, any of them up to the top k.
Retrieve(ns, asked) == Limited(ChunksFound(ns, asked), GraphTopK)

Degree(n) == Cardinality({e \in edges : e.kb = n.kb /\ n.name \in {e.from, e.to}})

RelationsAmong(kb, names) ==
  {[ends |-> {e.from, e.to}, via |-> e.via] :
     e \in {x \in edges : x.kb = kb /\ x.from \in names /\ x.to \in names}}

\* The nodes with most relations, and relations between them, twice as many at the most.
GetGraphForVis(kb) ==
  LET count == IF Cardinality(InKb(kb)) < MaxDrawn THEN Cardinality(InKb(kb)) ELSE MaxDrawn
      drawn == CHOOSE S \in kSubset(count, InKb(kb)) :
                 \A n \in S, m \in InKb(kb) \ S : Degree(n) >= Degree(m)
      names == {n.name : n \in drawn}
  IN  [nodes |-> names, edges |-> Limited(RelationsAmong(kb, names), 2 * MaxDrawn)]

---------------------------------------------------------------------------
GraphTypeOK ==
  /\ \A n \in nodes : n.kb \in GraphKbs /\ n.name \in Names /\ n.chunks \subseteq AllChunks
  /\ \A e \in edges : e.kb \in GraphKbs /\ {e.from, e.to} \subseteq Names
  /\ \A b \in Builds : build[b].failed \in 0..Len(ChunksOf[b])

\* The types that chunks give a name, the chunks that only relate it aside.
TypesOf(kb, name) ==
  {TypeIn(Says[c], name) : c \in UNION {All(b) : b \in {x \in Builds : GraphOf[x] = kb}}} \ {""}

\* A question that the limits do not cut short: neither the rows of the search nor the chunks.
WithinLimits(ns, q) ==
  /\ q.name \notin Short
  /\ Cardinality(SearchRows(ns, {q})) <= MaxRows
  /\ Cardinality(ChunksFound(ns, {q})) <= GraphTopK

(* Whatever order the chunks are stored in, alone or with others, and whatever *)
(* is lost or deleted around them: a chunk that a build stored and nobody      *)
(* deleted is found by every entity it relates to another, with the type the   *)
(* model gave it if that is the only one, and its relations are drawn.  It is  *)
(* not so, and is not said, for a name of one character, which no question     *)
(* searches for; where the search has more rows, the question more chunks or   *)
(* the graph more nodes or relations than their limits, any of which may then  *)
(* be left out; where two transactions created a name; or where the whole      *)
(* store is searched for a name that another knowledge base has                *)
(* (graphrag/service.go:72, neo4j_repository.go:88, 212, 387, retriever.go:67). *)
BuiltIsFound ==
  \A k \in inGraph :
    LET kb == k[1]
        said == Says[k[2]]
        Alone(name) == \A other \in GraphKbs \ {kb} : Named(other, name) = {}
        Found(ns, q) == WithinLimits(ns, q) => k[2] \in Retrieve(ns, {q})
        names == {n.name : n \in InKb(kb)}
    IN  kb \notin doubled =>
          /\ \A r \in Relations(said), name \in Names : name \in {r.from, r.to} =>
               /\ Found({kb}, [name |-> name, type |-> ""])
               /\ Alone(name) => Found({}, [name |-> name, type |-> Other])
               /\ \A type \in TypesOf(kb, name) : TypesOf(kb, name) = {type} =>
                    Found({kb}, [name |-> name, type |-> type])
          /\ /\ Cardinality(names) <= MaxDrawn
             /\ Cardinality(RelationsAmong(kb, names)) <= 2 * MaxDrawn
             => \A r \in Relations(said) :
                 [ends |-> {r.from, r.to}, via |-> r.via] \in GetGraphForVis(kb).edges
=============================================================================
