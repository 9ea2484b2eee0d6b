------------------------------ MODULE CodeRepos ------------------------------
(**********************************************************************************)
(* Code repositories: cloned, pulled and deleted by git and the file system       *)
(* (internal/handler/code_repos.go, internal/tool/repo_manager.go), and indexed   *)
(* file by file into a graph by a pool of workers (internal/codegraph/indexer.go, *)
(* repository.go).  Requests overlap; nothing locks a repository.                 *)
(**********************************************************************************)
EXTENDS Integers, Sequences, FiniteSets, Picking

CONSTANTS CodeClients, Repos,
          LabelOf,     \* [Repos -> the label of its nodes]: names that differ in - . _ share one
          Code,        \* [Repos -> the versions pushed to it, a sequence of
                       \*  functions from files to [defines |-> names, calls |-> pairs of names]]
          OnDisk,      \* the repositories that are checked out when the program starts
          FunctionContains(_, _), \* the qualified or plain name of the first contains the second
          MaxIndexers,
          MaxCallRows,     \* LIMIT of a query
          MaxRepoRequests, \* bound
          MaxRepoFaults    \* bound: calls that fail, commands that are killed

NoDir == 0
PartialDir == -1

VARIABLES remote,  \* [Repos -> the version its origin is at]
          dir,     \* [Repos -> NoDir, PartialDir or the version that is checked out]
          codeNodes, \* [label |->, key |-> a file or a name, repo |->]
          codeEdges, \* [rel |-> "DEFINES" or "CALLS", from |->, to |->], of <<label, key>>
          runs,    \* [CodeClients -> the request]
          mixed,   \* history: labels under which two repositories were indexed
          repoRequests, repoFaults

repoVars == <<remote, dir, codeNodes, codeEdges, runs, mixed, repoRequests, repoFaults>>

NoCode == [f \in {} |-> {}]
NoRun == [pc |-> "idle", repo |-> CHOOSE r \in Repos : TRUE, todo |-> {},
          work |-> NoCode, knew |-> FALSE, clean |-> FALSE]

RepoInit == /\ remote = [r \in Repos |-> 1]
            /\ dir = [r \in Repos |-> IF r \in OnDisk THEN 1 ELSE NoDir]
            /\ codeNodes = {} /\ codeEdges = {}
            /\ runs = [u \in CodeClients |-> NoRun]
            /\ mixed = {} /\ repoRequests = 0 /\ repoFaults = 0

RepoFault == repoFaults < MaxRepoFaults /\ repoFaults' = repoFaults + 1

Checkout(r) == IF dir[r] > 0 THEN Code[r][dir[r]] ELSE NoCode

Defined(code) == UNION {code[f].defines : f \in DOMAIN code}

Tagged(r, n) == n.repo = r

Labelled(r, key) == \E n \in codeNodes : n.label = LabelOf[r] /\ n.key = key

HasNode(r, key) == \E n \in codeNodes : Tagged(r, n) /\ n.key = key

\* extractCalls: what calls is the function that is extracted, so it is defined in its file.
\* A name contains itself.
ASSUME RepoAssumption ==
  \A r \in Repos :
    /\ Len(Code[r]) \in Nat \ {0}
    /\ \A i \in 1 .. Len(Code[r]) : \A f \in DOMAIN Code[r][i] :
         \A call \in Code[r][i][f].calls :
           /\ call[1] \in Code[r][i][f].defines
           /\ FunctionContains(call[1], call[1]) /\ FunctionContains(call[2], call[2])

-----------------------------------------------------------------------------
(* What the queries answer.  Nodes are found by their repo property, files by their label. *)
GetFileStructure(r, f) ==
  {e.to[2] : e \in {d \in codeEdges : d.rel = "DEFINES" /\ d.from = <<LabelOf[r], f>>}}

NodesOf(r) == {<<n.label, n.key>> : n \in {m \in codeNodes : Tagged(r, m)}}

(* [:CALLS*1..depth] between nodes of the repository. *)
CallChains(r, depth) ==
  LET calls == {<<e.from, e.to>> : e \in {d \in codeEdges : d.rel = "CALLS"}}
      called == UNION {{c[1], c[2]} : c \in calls}
      Reaches(a, b) == \E n \in 1 .. depth : \E path \in [0 .. n -> called] :
                         /\ path[0] = a /\ path[n] = b
                         /\ \A i \in 1 .. n : <<path[i - 1], path[i]>> \in calls
  IN  {<<p[1][2], p[2][2]>> : p \in {q \in NodesOf(r) \X NodesOf(r) : Reaches(q[1], q[2])}}

\* A depth that is not from 1 to 5 stands for 2.
Depth(depth) == IF depth \in 1 .. 5 THEN depth ELSE 2

CallersOf(r, name, depth) == {p \in CallChains(r, Depth(depth)) : FunctionContains(p[2], name)}
CalleesOf(r, name, depth) == {p \in CallChains(r, Depth(depth)) : FunctionContains(p[1], name)}

\* Any rows may be those within the limit.
FindCallers(r, name, depth) == Limited(CallersOf(r, name, depth), MaxCallRows)
FindCallees(r, name, depth) == Limited(CalleesOf(r, name, depth), MaxCallRows)

-----------------------------------------------------------------------------
SetRun(u, c) == runs' = [runs EXCEPT ![u] = c]

(* Runs of the repository whose checkout or graph is changed under them. *)
Disturb(u, r, c) ==
  runs' = [v \in CodeClients |-> IF v = u THEN c
                                 ELSE IF runs[v].repo = r THEN [runs[v] EXCEPT !.clean = FALSE]
                                 ELSE runs[v]]

BeginRun(u, r, pc) ==
  /\ runs[u].pc = "idle" /\ repoRequests < MaxRepoRequests /\ repoRequests' = repoRequests + 1
  /\ SetRun(u, [NoRun EXCEPT !.pc = pc, !.repo = r])
  /\ UNCHANGED <<remote, dir, codeNodes, codeEdges, mixed, repoFaults>>

(* CloneCodeRepo, MCPCloneCodeRepo and doClone: a path that is there is refused, or pulled *)
(* by the tool.                                                                            *)
CloneRepo(u, r) == BeginRun(u, r, "clone") /\ dir[r] = NoDir

(* git clone creates the directory first, and refuses one that is there. *)
GitClone(u) ==
  LET r == runs[u].repo IN
  /\ runs[u].pc = "clone"
  /\ IF dir[r] = NoDir
     THEN /\ dir' = [dir EXCEPT ![r] = PartialDir]
          /\ Disturb(u, r, [runs[u] EXCEPT !.pc = "cloning"])
     ELSE SetRun(u, NoRun) /\ UNCHANGED dir
  /\ UNCHANGED <<remote, codeNodes, codeEdges, mixed, repoRequests, repoFaults>>

(* A clone that fails removes the directory; one that is killed, at the timeout or when the *)
(* client is gone, leaves it.                                                               *)
Cloned(u) ==
  LET r == runs[u].repo IN
  /\ runs[u].pc = "cloning"
  /\ \/ dir' = [dir EXCEPT ![r] = IF @ = PartialDir THEN remote[r] ELSE @] /\ UNCHANGED repoFaults
     \/ dir' = [dir EXCEPT ![r] = IF @ = PartialDir THEN NoDir ELSE @] /\ RepoFault
     \/ RepoFault /\ UNCHANGED dir
  /\ Disturb(u, r, NoRun)
  /\ UNCHANGED <<remote, codeNodes, codeEdges, mixed, repoRequests>>

Push(r) ==
  /\ remote[r] < Len(Code[r]) /\ remote' = [remote EXCEPT ![r] = @ + 1]
  /\ UNCHANGED <<dir, codeNodes, codeEdges, runs, mixed, repoRequests, repoFaults>>

(* PullCodeRepo, doPull: fetch; nothing new, or git pull, or a reset to what was fetched. *)
PullRepo(u, r) == BeginRun(u, r, "pull") /\ dir[r] # NoDir

GitPull(u) ==
  LET r == runs[u].repo IN
  /\ runs[u].pc = "pull"
  /\ \/ /\ dir[r] > 0 /\ dir' = [dir EXCEPT ![r] = remote[r]]
        /\ IF dir[r] = remote[r] THEN SetRun(u, NoRun) ELSE Disturb(u, r, NoRun)
        /\ UNCHANGED repoFaults
     \/ dir[r] <= 0 /\ SetRun(u, NoRun) /\ UNCHANGED <<dir, repoFaults>>
     \/ RepoFault /\ SetRun(u, NoRun) /\ UNCHANGED dir
  /\ UNCHANGED <<remote, codeNodes, codeEdges, mixed, repoRequests>>

(* DeleteCodeRepo: the graph by the repo property of its nodes, then the directory. *)
DeleteRepo(u, r) == BeginRun(u, r, "delete") /\ dir[r] # NoDir

RemoveNodes(u, gone) ==
  LET ids == {<<n.label, n.key>> : n \in gone} IN
  /\ runs[u].pc = "delete"
  /\ \/ /\ codeNodes' = codeNodes \ gone
        /\ codeEdges' = {e \in codeEdges : e.from \notin ids /\ e.to \notin ids}
        /\ Disturb(u, runs[u].repo, [runs[u] EXCEPT !.pc = "remove"]) /\ UNCHANGED repoFaults
     \/ SetRun(u, NoRun) /\ RepoFault /\ UNCHANGED <<codeNodes, codeEdges>>
  /\ UNCHANGED <<remote, dir, mixed, repoRequests>>

(* A deletion by label takes the nodes of a repository whose name differs in a dash. *)
DeleteByLabel(u) == RemoveNodes(u, {n \in codeNodes : n.label = LabelOf[runs[u].repo]})

DeleteRepoGraph(u) == RemoveNodes(u, {n \in codeNodes : Tagged(runs[u].repo, n)})

RemoveAll(u) ==
  LET r == runs[u].repo IN
  /\ runs[u].pc = "remove"
  /\ \/ dir' = [dir EXCEPT ![r] = NoDir] /\ UNCHANGED repoFaults
     \/ dir' = [dir EXCEPT ![r] = IF @ = NoDir THEN NoDir ELSE PartialDir] /\ RepoFault
  /\ Disturb(u, r, NoRun)
  /\ UNCHANGED <<remote, codeNodes, codeEdges, mixed, repoRequests>>

-----------------------------------------------------------------------------
(* IndexCodeRepo, MCPIndexCodeRepo, doIndex: the files are listed, then given to the workers. *)
IndexRepo(u, r) == BeginRun(u, r, "walk") /\ dir[r] # NoDir

Walk(u) ==
  LET r == runs[u].repo IN
  /\ runs[u].pc = "walk"
  /\ IF dir[r] = NoDir THEN SetRun(u, NoRun)
     ELSE SetRun(u, [runs[u] EXCEPT !.pc = "index", !.todo = DOMAIN Checkout(r),
                       !.clean = dir[r] > 0,
                       !.knew = \A name \in Defined(Checkout(r)) : HasNode(r, name)])
  /\ mixed' = mixed \cup {n.label : n \in {m \in codeNodes : m.label = LabelOf[r] /\ m.repo # r}}
  /\ UNCHANGED <<remote, dir, codeNodes, codeEdges, repoRequests, repoFaults>>

Indexing(u) == DOMAIN runs[u].work

(* A worker takes a file, reads it and parses it; a file that is gone or does not parse is *)
(* skipped.                                                                                *)
ReadFile(u, f) ==
  LET r == runs[u].repo
      code == Checkout(r)
      rest == [runs[u] EXCEPT !.todo = @ \ {f}]
  IN /\ runs[u].pc = "index" /\ f \in runs[u].todo /\ Cardinality(Indexing(u)) < MaxIndexers
     /\ \/ /\ f \in DOMAIN code
           /\ SetRun(u, [rest EXCEPT !.work = [g \in Indexing(u) \cup {f} |->
                           IF g = f THEN [stage |-> "file", code |-> code[f]] ELSE @[g]]])
           /\ UNCHANGED repoFaults
        \/ f \notin DOMAIN code /\ SetRun(u, rest) /\ UNCHANGED repoFaults
        \/ RepoFault /\ SetRun(u, [rest EXCEPT !.clean = FALSE])
     /\ UNCHANGED <<remote, dir, codeNodes, codeEdges, mixed, repoRequests>>

(* MERGE: the node with the label and the key, made if it is not there, is the repository's. *)
MergeNodes(r, keys) ==
  /\ codeNodes' = {n \in codeNodes : ~(n.label = LabelOf[r] /\ n.key \in keys)}
                  \cup {[label |-> LabelOf[r], key |-> k, repo |-> r] : k \in keys}
  /\ mixed' = IF \E n \in codeNodes : n.label = LabelOf[r] /\ n.repo # r
              THEN mixed \cup {LabelOf[r]} ELSE mixed

(* MATCH both, MERGE the edge: what is not there is not linked. *)
CallEdges(r, pairs) ==
  {[rel |-> "CALLS", from |-> <<LabelOf[r], p[1]>>, to |-> <<LabelOf[r], p[2]>>] :
     p \in {q \in pairs : HasNode(r, q[1]) /\ HasNode(r, q[2])}}

AtStage(u, f, stage) == runs[u].pc = "index" /\ f \in Indexing(u) /\ runs[u].work[f].stage = stage

(* Each write of a worker logs its error and goes on. *)
Stepped(c, f, next, ok) ==
  [c EXCEPT !.work = IF next = "done" THEN [g \in DOMAIN @ \ {f} |-> @[g]]
                     ELSE [@ EXCEPT ![f].stage = next],
            !.clean = @ /\ ok]

Advance(u, f, next, ok) ==
  SetRun(u, Stepped(runs[u], f, next, ok)) /\ IF ok THEN UNCHANGED repoFaults ELSE RepoFault

UpsertFile(u, f) ==
  /\ AtStage(u, f, "file")
  /\ \/ MergeNodes(runs[u].repo, {f}) /\ Advance(u, f, "entities", TRUE)
     \/ Advance(u, f, "entities", FALSE) /\ UNCHANGED <<codeNodes, mixed>>
  /\ UNCHANGED <<remote, dir, codeEdges, repoRequests>>

(* Each definition is merged, then linked to its file; one that fails is logged. *)
UpsertEntities(u, f) ==
  LET r == runs[u].repo
      defines == runs[u].work[f].code.defines
      linked(ds) == IF Labelled(r, f)
                    THEN {[rel |-> "DEFINES", from |-> <<LabelOf[r], f>>, to |-> <<LabelOf[r], d>>] :
                            d \in ds}
                    ELSE {}
  IN /\ AtStage(u, f, "entities")
     /\ \E made \in SUBSET defines :
          /\ MergeNodes(r, made) /\ codeEdges' = codeEdges \cup linked(made)
          /\ Advance(u, f, "relations", made = defines)
     /\ UNCHANGED <<remote, dir, repoRequests>>

UpsertRelations(u, f) ==
  /\ AtStage(u, f, "relations")
  /\ \/ /\ codeEdges' = codeEdges \cup CallEdges(runs[u].repo, runs[u].work[f].code.calls)
        /\ Advance(u, f, "done", TRUE)
     \/ Advance(u, f, "done", FALSE) /\ UNCHANGED codeEdges
  /\ UNCHANGED <<remote, dir, codeNodes, mixed, repoRequests>>

(* wg.Wait, and the answer. *)
Indexed(u) ==
  /\ runs[u].pc = "index" /\ runs[u].todo = {} /\ Indexing(u) = {}
  /\ SetRun(u, [runs[u] EXCEPT !.pc = "answer"])
  /\ UNCHANGED <<remote, dir, codeNodes, codeEdges, mixed, repoRequests, repoFaults>>

AnswerRun(u) ==
  /\ runs[u].pc = "answer" /\ SetRun(u, NoRun)
  /\ UNCHANGED <<remote, dir, codeNodes, codeEdges, mixed, repoRequests, repoFaults>>

ReposOver == /\ \A u \in CodeClients : runs[u].pc = "idle"
             /\ repoRequests = MaxRepoRequests /\ UNCHANGED repoVars

RepoNext ==
  \/ \E u \in CodeClients :
       \/ \E r \in Repos : CloneRepo(u, r) \/ PullRepo(u, r) \/ DeleteRepo(u, r) \/ IndexRepo(u, r)
       \/ GitClone(u) \/ Cloned(u) \/ GitPull(u) \/ DeleteRepoGraph(u) \/ RemoveAll(u)
       \/ Walk(u) \/ Indexed(u) \/ AnswerRun(u)
       \/ \E f \in runs[u].todo : ReadFile(u, f)
       \/ \E f \in Indexing(u) : UpsertFile(u, f) \/ UpsertEntities(u, f) \/ UpsertRelations(u, f)
  \/ \E r \in Repos : Push(r)
  \/ ReposOver

RepoSpec == RepoInit /\ [][RepoNext]_repoVars

-----------------------------------------------------------------------------
(* A run that ends undisturbed by a pull, a deletion or a failure, whatever other runs were    *)
(* at work, leaves the checkout in the graph: each file with what it defines, each call inside *)
(* a file, and every call if the names were known when it began, among the callers and the     *)
(* callees, at the default depth, of a name that has no more of them than a query returns.  A  *)
(* call into a file that was indexed later for the first time is missing, since MATCH found    *)
(* nothing; nor is anything said of a repository whose label another one shares.               *)
(* (indexer.go, IndexRepo; repository.go, UpsertEntities, UpsertRelations, FindCallers.)       *)
IndexShowsCode ==
  \A u \in CodeClients :
    LET r == runs[u].repo  code == Checkout(r) IN
    runs[u].pc = "answer" /\ runs[u].clean /\ LabelOf[r] \notin mixed =>
      \A f \in DOMAIN code :
        /\ code[f].defines \subseteq GetFileStructure(r, f)
        /\ \A call \in code[f].calls :
             \/ /\ Cardinality(CallersOf(r, call[2], 0)) <= MaxCallRows =>
                     <<call[1], call[2]>> \in FindCallers(r, call[2], 0)
                /\ Cardinality(CalleesOf(r, call[1], 0)) <= MaxCallRows =>
                     <<call[1], call[2]>> \in FindCallees(r, call[1], 0)
             \/ call[2] \notin code[f].defines /\ ~(runs[u].knew /\ call[2] \in Defined(code))
=============================================================================
