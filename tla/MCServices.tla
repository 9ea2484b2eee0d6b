------------------------------ MODULE MCServices ------------------------------
(****************************************************************************)
(* Small instances of the services that share no state with each other,     *)
(* side by side: a behaviour runs one of them and leaves the others in      *)
(* their initial states, so that one run checks them all.  Nothing needs to *)
(* be checked of a service that does not run.  The services theorems are    *)
(* about are extended, so that the properties checked are the very ones     *)
(* that are proved; the others are instances.                               *)
(****************************************************************************)
EXTENDS ChunkUpkeep, RateLimiter, AccessControl, Retrieval, Settings, WikiPages,
        ImportStatus, GraphBuild, CodeRepos, ThinkFilter, TLC

VARIABLE part   \* the service that runs

---------------------------------------------------------------------------
CONSTANTS a1, a2, b1, w1, w2, kbA, kbB, kbW, q1, q2

rAsk(kind, among, files) ==
  [kind |-> kind, asked |-> q1, kbs |-> among, files |-> files,
   hybrid |-> TRUE, rewrite |-> TRUE, rerank |-> TRUE]

\* Retrieval: a1 and a2 are in one knowledge base, b1 in another; w1 and w2 are pages of a
\* wiki, the first of which links to the second.  The two nets of a scoped search catch one
\* and two of the three chunks.
MCKbOf == a1 :> kbA @@ a2 :> kbA @@ b1 :> kbB @@ w1 :> kbW @@ w2 :> kbW
MCFileOf == a1 :> "f" @@ a2 :> "g" @@ b1 :> "f" @@ w1 :> "w" @@ w2 :> "w"
MCLinksOf == w1 :> {w2} @@ w2 :> {}
MCKindOf == q1 :> "strict" @@ q2 :> "overview"
MCRequests ==
  {rAsk("run", {kbA}, {}), rAsk("stream", {kbA, kbW}, {}),
   [rAsk("run", {kbA, kbW}, {"f"}) EXCEPT !.hybrid = FALSE],
   rAsk("tool", {}, {"g"}), rAsk("tool", {kbW}, {})}

---------------------------------------------------------------------------
\* ThinkFilter: tags of two and three characters that share the first; "/" is also a letter.
MCOpen == <<"<", ">">>
MCClose == <<"<", "/", ">">>

---------------------------------------------------------------------------
CONSTANTS c1, c2

\* ChunkUpkeep: two clients at two chunks, and the smallest pool whose workers can overtake
\* each other.
MCChunks == <<c1, c2>>

---------------------------------------------------------------------------
CONSTANTS e1, e2   \* ImportStatus: two uploads, whose enrichments may overlap

---------------------------------------------------------------------------
CONSTANTS d1, d2, d3

wPage(path, paths) == [path |-> path, links |-> paths]

\* WikiPages: two documents of one wiki, whose pages link to each other's, and one of another
\* wiki.
MCWikiOf == d1 :> kbW @@ d2 :> kbW @@ d3 :> kbA
MCOutputs == d1 :> {<<wPage("a", {"b"})>>} @@ d2 :> {<<>>, <<wPage("b", {"index"})>>}
             @@ d3 :> {<<wPage("b", {"a"})>>}

---------------------------------------------------------------------------
CONSTANTS r1, r2, r3, x1, x2

kFile(defines, calls) == [defines |-> defines, calls |-> calls]

\* CodeRepos: two repositories whose names differ in a dash, and one to clone.  The new version
\* of the first drops a file and a call.
MCLabelOf == r1 :> "code" @@ r2 :> "code" @@ r3 :> "other"
MCCode ==
  r1 :> <<"f" :> kFile({"load"}, {<<"load", "save">>})
          @@ "g" :> kFile({"save", "save_all"}, {<<"save", "save_all">>}),
          "g" :> kFile({"save", "save_all"}, {})>>
  @@ r2 :> <<"h" :> kFile({"load"}, {})>> @@ r3 :> <<"f" :> kFile({"load"}, {})>>
MCFunctionContains(a, b) == a = b \/ (a = "save_all" /\ b = "save")

---------------------------------------------------------------------------
CONSTANTS y1, y2

sForm(kind, set) == [kind |-> kind, set |-> set]

\* Settings: a new key for the provider that the embedder shares, a form with a masked key, a
\* rejected one, a model of each kind, one deleted, and an MCP server beside the one that is
\* there, with a stream of events.
MCForms ==
  {sForm("update", "llm" :> 2 @@ "llmKey" :> 5 @@ "temperature" :> 3),
   sForm("update", "llmKey" :> -2 @@ "temperature" :> 0 @@ "emb" :> 2 @@ "embKey" :> 6
                   @@ "reranker" :> 2),
   sForm("update", "llm" :> 3 @@ "temperature" :> -1),
   sForm("llm", "llm" :> 2 @@ "llmUrl" :> 7 @@ "llmKey" :> 7),
   sForm("embedding", "emb" :> 2 @@ "embUrl" :> 0 @@ "embKey" :> 8),
   sForm("reranker", "reranker" :> 3), sForm("delete", "reranker" :> -3),
   sForm("import", "servers" :> {"m2"})}
MCInitial == "llm" :> 1 @@ "llmUrl" :> 3 @@ "llmKey" :> 4 @@ "temperature" :> 2
             @@ "emb" :> 1 @@ "embUrl" :> 4 @@ "embKey" :> 4
             @@ "reranker" :> 1 @@ "servers" :> {"m1"}

---------------------------------------------------------------------------
CONSTANTS o1, z1, z2

oUser(tenant, user) == [tenant |-> tenant, user |-> user]

\* AccessControl: the owner of a knowledge base and a user of another tenant, a mere viewer
\* of the organisation it is shared with, whose colleague is more.
MCUsers == {oUser(2, "a"), oUser(2, "b")}
MCUserOf == z1 :> oUser(1, "a") @@ z2 :> oUser(2, "a")
MCQuestions == {<<" ">>, <<kbA, " ", kbB, kbA>>}
MCRows ==
  [kbs |-> <<[id |-> kbA, tenant |-> 1, name |-> z1, deleted |-> FALSE]>>,
   members |-> {[org |-> o1, user |-> oUser(2, "a"), role |-> 1],
                [org |-> o1, user |-> oUser(2, "b"), role |-> 3]},
   shares |-> {[org |-> o1, kb |-> kbA, permission |-> 2]}]

---------------------------------------------------------------------------
CONSTANTS n1, n2, m1, m2, m3, m4, v1

nIs(name, type) == [entity |-> name, type |-> type]
nRelate(from, via, to) == [from |-> from, to |-> to, via |-> via]
MCContains(a, b) == a = b \/ (a = "k8s api" /\ b = "k8s")

\* GraphBuild: three chunks of a knowledge base, two at a time, and one of another: names that
\* contain each other, that are given two types, only related, and known to both, and one of a
\* single character; more rows and more chunks than a question gets.
MCGraphOf == n1 :> kbA @@ n2 :> kbB
MCChunksOf == n1 :> <<m1, m2, m3>> @@ n2 :> <<m4>>
MCSays ==
  m1 :> <<nIs("k8s", "Tech"), nIs("etcd", "Tech"), nRelate("k8s", "uses", "etcd"),
          nIs("k8s", "Concept"), nRelate("k8s", "uses", "k8s")>>
  @@ m2 :> <<nIs("etcd", "Concept"), nRelate("etcd", "serves", "k8s"), nRelate("k8s api", "serves", "k8s")>>
  @@ m3 :> <<nIs("k8s api", "API"), nRelate("k8s api", "uses", "etcd")>>
  @@ m4 :> <<nIs("etcd", "Tech"), nRelate("etcd", "serves", "r")>>

---------------------------------------------------------------------------
VARIABLES dPc, dJob, dEngines, dExpired, dSource, dChunks, dReported, dFaults

dVars == <<dPc, dJob, dEngines, dExpired, dSource, dChunks, dReported, dFaults>>

dTexts(letters, n) == UNION {[1 .. k -> letters] : k \in 0 .. n}
dFile(ext, text) == [kind |-> "file", ext |-> ext, text |-> text, rendered |-> <<>>]
dPage(text, rendered) == [kind |-> "page", ext |-> "", text |-> text, rendered |-> rendered]
dSetup(mode, grpc, mineru, render, strategy) ==
  [mode |-> mode, grpc |-> grpc, mineru |-> mineru, render |-> render, strategy |-> strategy]

dLine(n) == [i \in 1 .. n |-> "x"] \o <<"/">>
dHeading(level) == [i \in 1 .. level |-> "#"] \o dLine(1)
dSection(level) == dHeading(level) \o dLine(2) \o dLine(2)

\* All texts of a few letters, "." for a full stop and "/" for a new line, and longer ones:
\* sections that are more than a chunk, a line the Markdown chunker cannot read, sentences, a
\* word that takes three windows, and pages that are more in a browser.
DocumentReading == INSTANCE DocumentReading WITH
  NewLine <- "/", Space <- " ", Hash <- "#",
  Separators <- <<<<"/", "/">>, <<"/">>, <<".">>, <<" ">>, <<>>>>,
  Width <- <<"/", "/">> :> 2 @@ <<"/">> :> 1 @@ <<".">> :> 3 @@ <<" ">> :> 1 @@ <<>> :> 0,
  Breaks <- {"/", "."}, Size <- 5, Overlap <- 2, SentenceOverlap <- 1, MinSize <- 2,
  Percentile <- 50, MaxLine <- 8, Embeds <- TRUE,
  Documents <-
    {dFile("txt", text) : text \in dTexts({"x", ".", "/"}, 3)}
    \cup {dFile("md", text) : text \in dTexts({"x", "#", "/"}, 3)}
    \cup {dFile("md", dHeading(1) \o dSection(2) \o dSection(2) \o dSection(1)),
          dFile("md", dSection(1) \o dLine(9) \o dLine(2)),
          dFile("txt", <<"x", ".", "x", "x", ".", "x", " ", "x", ".">> \o dLine(2) \o dLine(12)),
          dFile("txt", dLine(11) \o dLine(11)),
          dFile("pdf", dLine(2)), dFile("html", dLine(1) \o dLine(6)),
          dPage(dLine(1), dLine(3)), dPage(dLine(6), dLine(6)), dPage(<<>>, dLine(2))},
  Setups <- {dSetup("local", TRUE, FALSE, "auto", "recursive"),
             dSetup("grpc", TRUE, TRUE, "auto", "markdown"),
             dSetup("auto", TRUE, FALSE, "auto", "semantic"),
             dSetup("auto", FALSE, TRUE, "always", "auto"),
             dSetup("mineru_with_fallback", FALSE, TRUE, "disabled", "auto"),
             dSetup("mineru", TRUE, FALSE, "auto", "semantic")},
  Blocked <- {dPage(dLine(6), dLine(6))},
  ReadSize <- 4, ReadOverlap <- 1, MaxFileSize <- 22, MaxDownload <- 5, Short <- 4,
  MaxFaults <- 1,
  pc <- dPc, job <- dJob, engines <- dEngines, expired <- dExpired, source <- dSource,
  chunks <- dChunks, reported <- dReported, faults <- dFaults

TextKept == part = "reading" => DocumentReading!TextKept
HeadingsKept == part = "reading" => DocumentReading!HeadingsKept

---------------------------------------------------------------------------
allVars == <<part, retrievalVars, filterVars, limiterVars, upkeepVars, statusVars, wikiVars, repoVars, settingsVars, accessVars, graphVars, dVars>>

Initially ==
  /\ part \in {"retrieval", "think", "limiter", "chunks", "status", "wiki", "repos",
               "settings", "access", "graph", "reading"}
  /\ RetrievalInit /\ FilterInit /\ LimiterInit
  /\ UpkeepInit /\ StatusInit /\ WikiInit
  /\ RepoInit /\ SettingsInit /\ AccessInit /\ GraphInit
  /\ part # "settings" => missed = {}
  /\ DocumentReading!Init

OneStep ==
  /\ UNCHANGED part
  /\ \/ /\ part = "retrieval" /\ RetrievalNext
        /\ UNCHANGED <<filterVars, limiterVars, upkeepVars, statusVars, wikiVars, repoVars, settingsVars, accessVars, graphVars, dVars>>
     \/ /\ part = "think" /\ FilterNext
        /\ UNCHANGED <<retrievalVars, limiterVars, upkeepVars, statusVars, wikiVars, repoVars, settingsVars, accessVars, graphVars, dVars>>
     \/ /\ part = "limiter" /\ LimiterNext
        /\ UNCHANGED <<retrievalVars, filterVars, upkeepVars, statusVars, wikiVars, repoVars, settingsVars, accessVars, graphVars, dVars>>
     \/ /\ part = "chunks" /\ UpkeepNext
        /\ UNCHANGED <<retrievalVars, filterVars, limiterVars, statusVars, wikiVars, repoVars, settingsVars, accessVars, graphVars, dVars>>
     \/ /\ part = "status" /\ StatusNext
        /\ UNCHANGED <<retrievalVars, filterVars, limiterVars, upkeepVars, wikiVars, repoVars, settingsVars, accessVars, graphVars, dVars>>
     \/ /\ part = "wiki" /\ WikiNext
        /\ UNCHANGED <<retrievalVars, filterVars, limiterVars, upkeepVars, statusVars, repoVars, settingsVars, accessVars, graphVars, dVars>>
     \/ /\ part = "repos" /\ RepoNext
        /\ UNCHANGED <<retrievalVars, filterVars, limiterVars, upkeepVars, statusVars, wikiVars, settingsVars, accessVars, graphVars, dVars>>
     \/ /\ part = "settings" /\ SettingsNext
        /\ UNCHANGED <<retrievalVars, filterVars, limiterVars, upkeepVars, statusVars, wikiVars, repoVars, accessVars, graphVars, dVars>>
     \/ /\ part = "access" /\ AccessNext
        /\ UNCHANGED <<retrievalVars, filterVars, limiterVars, upkeepVars, statusVars, wikiVars, repoVars, settingsVars, graphVars, dVars>>
     \/ /\ part = "graph" /\ GraphNext
        /\ UNCHANGED <<retrievalVars, filterVars, limiterVars, upkeepVars, statusVars, wikiVars, repoVars, settingsVars, accessVars, dVars>>
     \/ /\ part = "reading" /\ DocumentReading!Next
        /\ UNCHANGED <<retrievalVars, filterVars, limiterVars, upkeepVars, statusVars, wikiVars, repoVars, settingsVars, accessVars, graphVars>>

Services == Initially /\ [][OneStep]_allVars
==============================================================================
