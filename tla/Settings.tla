------------------------------ MODULE Settings ------------------------------
(**************************************************************************************)
(* Settings changed at run time (internal/handler/api.go): requests write fields of   *)
(* the one configuration without a lock, rebuild the models that use them, and save   *)
(* the whole configuration (internal/config/config.go).  Importing an MCP server also *)
(* replaces the clients whose tools the chat service uses (internal/mcp/manager.go).  *)
(**************************************************************************************)
EXTENDS Integers, FiniteSets

CONSTANTS Admins, Forms,  \* [kind |-> , set |-> function from some fields to values]
          Initial,         \* the configuration in the file at first
          Streaming,       \* MCP servers whose transport is a stream of events
          MaxForms, MaxFailedCalls, MaxRestarts   \* bounds

Fields == {"llm", "llmUrl", "llmKey", "temperature", "emb", "embUrl", "embKey", "reranker", "servers"}

(* Values of fields are positive, but for these. *)
Zero == 0
Invalid == -1
Masked == -2      \* a key as GetSettings shows it, sent back
Default == 9

(* What becomes of a field that a request wrote: it is answered with success and saved, or *)
(* answered with success and not saved, or neither.                                        *)
Acknowledged == {"kept", "unsaved"}
Outcomes == Acknowledged \cup {"lost"}

Torn == <<>>      \* a file that was truncated and not written

(* A request has values for some of the fields its handler knows. *)
ASSUME SettingsAssumption ==
  /\ Admins \cap Outcomes = {}
  /\ \A form \in Forms :
       /\ form.kind \in {"update", "llm", "embedding", "reranker", "delete", "import"}
       /\ DOMAIN form.set \subseteq Fields
  /\ Initial = [f \in Fields |-> Initial[f]]
  /\ {MaxForms, MaxFailedCalls, MaxRestarts} \subseteq Nat

VARIABLES cfg,       \* h.cfg
          file,      \* what the configuration file holds
          chat,      \* the fields the chat model was built from
          embedder,  \* the fields the embedder was built from
          conns,     \* open connections to MCP servers, <<manager, server>>
          manager,   \* h.mcpMgr
          tools,     \* connections whose tools the chat service has
          admin,
          owner,     \* history: [Fields -> who wrote the field last: a client, until it is answered,
                     \*  then the outcome]
          kept,      \* history: [Fields -> the value that was acknowledged]
          crossed,   \* history: the last save overlapped another
          overlapped, raced, unbuilt,  \* history: requests, reloads of the MCP clients have
                                       \*  overlapped; a model could not be built
          missed,    \* history: servers the current manager could not reach
          forms, failedCalls, restarts

ledger == <<owner, kept>>
models == <<chat, embedder>>
mcp == <<conns, manager, tools, missed>>
flags == <<crossed, overlapped, raced, unbuilt>>
bounds == <<forms, failedCalls, restarts>>

settingsVars == <<cfg, file, models, mcp, admin, ledger, flags, bounds>>

Core == {"llm", "llmUrl", "llmKey"}
EmbCore == {"emb", "embUrl", "embKey"}

Part(config, fields) == [f \in fields |-> config[f]]

Connect(id, servers) == {<<id, s>> : s \in servers}

NoForm == [pc |-> "idle", kind |-> "none", set |-> [f \in {} |-> 0], todo |-> {}, changed |-> {},
          data |-> Initial, alone |-> TRUE, reach |-> {}, got |-> {}]

SettingsInit ==
  /\ cfg = Initial /\ file = Initial
  /\ chat = Part(Initial, Core) /\ embedder = Part(Initial, EmbCore)
  /\ \E got \in SUBSET Initial.servers :
       manager = 0 /\ conns = Connect(0, got) /\ tools = conns /\ missed = Initial.servers \ got
  /\ admin = [u \in Admins |-> NoForm]
  /\ owner = [f \in Fields |-> "kept"] /\ kept = Initial
  /\ crossed = FALSE /\ overlapped = FALSE /\ raced = FALSE /\ unbuilt = FALSE
  /\ forms = 0 /\ failedCalls = 0 /\ restarts = 0

CallSucceeds == UNCHANGED failedCalls
CallFails == failedCalls < MaxFailedCalls /\ failedCalls' = failedCalls + 1

(* What a handler looks at and rebuilds, and the order in which all of them do. *)
Steps ==
  [update    |-> {"llm", "llmUrl", "llmKey", "temperature", "chat", "emb", "embUrl", "embKey",
                  "embedder", "reranker"},
   llm       |-> {"llm", "llmUrl", "llmKey", "temperature", "chat"},
   embedding |-> {"emb", "embUrl", "embKey", "embedder"},
   reranker  |-> {"reranker"},
   delete    |-> {"reranker"},
   import    |-> {"servers"}]

Place == [llm |-> 1, llmUrl |-> 2, llmKey |-> 3, temperature |-> 4, chat |-> 5, emb |-> 6,
          embUrl |-> 7, embKey |-> 8, embedder |-> 9, reranker |-> 10, servers |-> 11]

PutForm(u, c) == admin' = [admin EXCEPT ![u] = c]

BeginForm(u, form) ==
  /\ admin[u].pc = "idle" /\ forms < MaxForms /\ forms' = forms + 1
  /\ PutForm(u, [NoForm EXCEPT !.pc = "apply", !.kind = form.kind, !.set = form.set,
                   !.todo = Steps[form.kind] \cap (DOMAIN form.set \cup {"chat", "embedder"})])
  /\ overlapped' = (overlapped \/ \E v \in Admins : admin[v].pc # "idle")
  /\ UNCHANGED <<cfg, file, models, mcp, ledger, crossed, raced, unbuilt, failedCalls, restarts>>

(* What was written stays in the configuration for now, whatever its outcome. *)
Reply(u, result) ==
  LET mine == {f \in Fields : owner[f] = u} IN
  /\ PutForm(u, NoForm)
  /\ owner' = [f \in Fields |-> IF f \in mine THEN result ELSE owner[f]]
  /\ kept' = [f \in Fields |-> IF f \in mine /\ result # "lost" THEN cfg[f] ELSE kept[f]]

-----------------------------------------------------------------------------
NextIs(u, step) ==
  /\ admin[u].pc = "apply" /\ step \in admin[u].todo
  /\ \A other \in admin[u].todo : Place[step] <= Place[other]

Onward(c, step) == [c EXCEPT !.todo = @ \ {step}]

Changed(c, f) == [c EXCEPT !.changed = @ \cup {f}]

Shared(c, f) == c.kind = "update" /\ f = "llmKey" /\ (cfg.embKey = Zero \/ cfg.emb = cfg.llm)

(* A new key of the chat model is given to the embedder of the same provider, too, with the *)
(* base URL there is.                                                                       *)
Assigned(u, f, value) ==
  LET written == {f} \cup (IF Shared(admin[u], f) THEN {"embUrl", "embKey"} ELSE {})
  IN /\ cfg' = [g \in Fields |-> IF g \notin written THEN cfg[g]
                                 ELSE IF g = "servers" THEN cfg[g] \cup value
                                 ELSE IF g = "embUrl" /\ g # f THEN cfg.llmUrl ELSE value]
     /\ owner' = [g \in Fields |-> IF g \in written THEN u ELSE owner[g]]

(* A new key that the embedder gets but is not built with. *)
AssignUnbuilt(u, f, value) ==
  Assigned(u, f, value) /\ PutForm(u, Onward(Changed(admin[u], f), f))

Assign(u, f, value) ==
  LET c == Onward(Changed(admin[u], f), f)
  IN /\ Assigned(u, f, value)
     /\ PutForm(u, IF c.kind = "update" /\ f = "llmKey" THEN [c EXCEPT !.pc = "embed"] ELSE c)

(* One field: UpdateSettings ends the request with 400 at a value out of range; a masked or an *)
(* empty key and an empty model are skipped, by CreateModel an empty URL and a temperature that *)
(* is not positive as well.                                                                     *)
Skipped(c, f) ==
  \/ f \in {"llmKey", "embKey"} /\ c.set[f] \in {Zero, Masked}
  \/ f \in {"llm", "emb"} /\ c.set[f] = Zero
  \/ f \in {"llmUrl", "embUrl", "temperature"} /\ c.set[f] \in {Zero, Invalid} /\ c.kind # "update"

ApplyField(u, f) ==
  LET c == admin[u] IN
  IF Skipped(c, f) THEN PutForm(u, Onward(c, f)) /\ UNCHANGED <<cfg, ledger>>
  ELSE IF c.kind = "update" /\ f # "servers" /\ c.set[f] = Invalid THEN Reply(u, "lost") /\ UNCHANGED cfg
  ELSE Assign(u, f, c.set[f]) /\ UNCHANGED kept

Apply(u) ==
  /\ \E f \in Fields : NextIs(u, f) /\ ApplyField(u, f)
  /\ UNCHANGED <<file, models, mcp, flags, bounds>>

(* NewEmbeddingProvider after a new key, or at the end of the section. *)
BuildEmbedder(u) ==
  LET c == admin[u]
      done == IF c.pc = "embed" THEN [c EXCEPT !.pc = "apply"] ELSE Onward(c, "embedder")
  IN /\ c.pc = "embed" \/ NextIs(u, "embedder")
     /\ IF c.pc # "embed" /\ c.kind = "update" /\ (DOMAIN c.set \cap EmbCore = {} \/ c.changed = {})
        THEN PutForm(u, done) /\ CallSucceeds /\ UNCHANGED <<embedder, ledger, unbuilt>>
        ELSE \/ embedder' = Part(cfg, EmbCore) /\ PutForm(u, done) /\ CallSucceeds /\ UNCHANGED <<ledger, unbuilt>>
             \/ /\ CallFails /\ unbuilt' = TRUE /\ UNCHANGED embedder
                /\ IF c.kind = "update" THEN PutForm(u, done) /\ UNCHANGED ledger ELSE Reply(u, "lost")
     /\ UNCHANGED <<cfg, file, chat, mcp, crossed, overlapped, raced, forms, restarts>>

(* NewLLMProvider if the provider, the model or the key changed. *)
Build(u) ==
  LET c == admin[u] IN
  /\ NextIs(u, "chat")
  /\ IF c.kind = "update" /\ c.changed \cap Core = {}
     THEN PutForm(u, Onward(c, "chat")) /\ CallSucceeds /\ UNCHANGED <<ledger, unbuilt>>
     ELSE \/ PutForm(u, [c EXCEPT !.pc = "swap", !.data = cfg]) /\ CallSucceeds /\ UNCHANGED <<ledger, unbuilt>>
          \/ /\ CallFails /\ unbuilt' = TRUE
             /\ IF c.kind = "update" THEN PutForm(u, Onward(c, "chat")) /\ UNCHANGED ledger ELSE Reply(u, "lost")
  /\ UNCHANGED <<cfg, file, models, mcp, crossed, overlapped, raced, forms, restarts>>

SetChatModel(u) ==
  /\ admin[u].pc = "swap" /\ chat' = Part(admin[u].data, Core)
  /\ PutForm(u, [Onward(admin[u], "chat") EXCEPT !.pc = "apply"])
  /\ UNCHANGED <<cfg, file, embedder, mcp, ledger, flags, bounds>>

-----------------------------------------------------------------------------
(* config.Save: the configuration as it is now, to a file that is truncated first. *)
Saving(v) == admin[v].pc \in {"truncate", "write"}

Marshal(u) ==
  LET c == admin[u]
      alone == \A v \in Admins : v = u \/ ~Saving(v)
  IN /\ c.pc = "apply" /\ c.todo = {}
     /\ IF c.changed = {} /\ c.kind = "update"
        THEN Reply(u, "kept")
        ELSE /\ admin' = [v \in Admins |->
                  IF v = u THEN [c EXCEPT !.pc = "truncate", !.data = cfg, !.alone = alone]
                  ELSE [admin[v] EXCEPT !.alone = @ /\ ~Saving(v)]]
             /\ UNCHANGED ledger
     /\ UNCHANGED <<cfg, file, models, mcp, flags, bounds>>

(* An update or an import whose save fails answers 500; a model is created or deleted: the *)
(* failure is logged, and the answer is a success.                                         *)
Unsaved(u) ==
  CallFails /\ Reply(u, IF admin[u].kind \in {"update", "import"} THEN "lost" ELSE "unsaved")

Truncate(u) ==
  /\ admin[u].pc = "truncate"
  /\ \/ file' = Torn /\ PutForm(u, [admin[u] EXCEPT !.pc = "write"]) /\ CallSucceeds /\ UNCHANGED ledger
     \/ Unsaved(u) /\ UNCHANGED file
  /\ UNCHANGED <<cfg, models, mcp, flags, forms, restarts>>

Write(u) ==
  LET c == admin[u] IN
  /\ c.pc = "write"
  /\ \/ /\ file' = c.data /\ crossed' = ~c.alone /\ CallSucceeds
        /\ IF c.kind = "import" THEN PutForm(u, [c EXCEPT !.pc = "close"]) /\ UNCHANGED ledger
           ELSE Reply(u, "kept")
     \/ Unsaved(u) /\ UNCHANGED <<file, crossed>>
  /\ UNCHANGED <<cfg, models, mcp, overlapped, raced, unbuilt, forms, restarts>>

-----------------------------------------------------------------------------
(* reloadMCPAndChat: the old connections are closed, those of a new manager opened one by *)
(* one, a server that cannot be reached left out; then its tools are the chat service's.  *)
NewId == 1 + (CHOOSE n \in {manager} \cup {k[1] : k \in conns} :
                \A m \in {manager} \cup {k[1] : k \in conns} : m <= n)

BeginReload(u) ==
  /\ admin[u].pc = "close"
  /\ PutForm(u, [admin[u] EXCEPT !.pc = "connect", !.reach = cfg.servers])
  /\ raced' = (raced \/ \E v \in Admins : admin[v].pc \in {"connect", "tools"})
  /\ UNCHANGED <<cfg, file, models, manager, tools, missed, ledger, crossed, overlapped, unbuilt, bounds>>

(* A reload that leaves the connections of the manager it replaces. *)
CloseNothing(u) == BeginReload(u) /\ UNCHANGED conns

CloseConnections(u) == BeginReload(u) /\ conns' = {k \in conns : k[1] # manager}

ConnectServer(u, s) ==
  LET c == admin[u] IN
  /\ c.pc = "connect" /\ s \in c.reach
  /\ \/ PutForm(u, [c EXCEPT !.reach = @ \ {s}, !.got = @ \cup {s}]) /\ CallSucceeds
     \/ PutForm(u, [c EXCEPT !.reach = @ \ {s}]) /\ CallFails
  /\ UNCHANGED <<cfg, file, models, mcp, ledger, flags, forms, restarts>>

(* The manager is the handler's once all its connections are open. *)
SetManager(u) ==
  LET c == admin[u] IN
  /\ c.pc = "connect" /\ c.reach = {}
  /\ manager' = NewId /\ conns' = conns \cup Connect(NewId, c.got)
  /\ missed' = cfg.servers \ c.got
  /\ PutForm(u, [c EXCEPT !.pc = "tools", !.reach = Connect(NewId, c.got)])
  /\ UNCHANGED <<cfg, file, models, tools, ledger, flags, bounds>>

(* The agents of the requests that follow use the new tools, even if the chat service cannot *)
(* be reloaded, which answers 500.  A stream of events was opened in the context of the      *)
(* request, and ends with it, at the latest.                                                 *)
SetMCPTools(u) ==
  LET new == admin[u].reach IN
  /\ admin[u].pc = "tools" /\ tools' = new
  /\ conns' = {k \in conns : ~(k \in new /\ k[2] \in Streaming)}
  /\ \/ Reply(u, "kept") /\ CallSucceeds
     \/ Reply(u, "lost") /\ CallFails
  /\ UNCHANGED <<cfg, file, models, manager, missed, flags, forms, restarts>>

-----------------------------------------------------------------------------
(* setDefaults: a zero that was saved is as good as nothing. *)
Load(data) ==
  LET read == IF data = Torn THEN [f \in Fields |-> IF f = "servers" THEN {} ELSE Zero] ELSE data
  IN [read EXCEPT !.temperature = IF @ = Zero THEN Default ELSE @]

(* The process ends at any moment and is started again from its file; a server may be out of *)
(* reach then.                                                                              *)
Restart ==
  LET now == Load(file) IN
  /\ restarts < MaxRestarts /\ restarts' = restarts + 1
  /\ cfg' = now /\ chat' = Part(now, Core) /\ embedder' = Part(now, EmbCore)
  /\ \E got \in SUBSET now.servers :
       /\ manager' = 0 /\ conns' = Connect(0, got) /\ tools' = conns' /\ missed' = now.servers \ got
       /\ IF missed' = {} THEN CallSucceeds ELSE CallFails
  /\ admin' = [u \in Admins |-> NoForm]
  /\ owner' = [f \in Fields |->
                 IF owner[f] = "kept" /\ file # Torn /\ ~crossed THEN "kept" ELSE "lost"]
  /\ crossed' = FALSE /\ overlapped' = FALSE /\ raced' = FALSE /\ unbuilt' = FALSE
  /\ UNCHANGED <<file, kept, forms>>

SettingsOver == forms = MaxForms /\ (\A u \in Admins : admin[u].pc = "idle") /\ UNCHANGED settingsVars

SettingsNext ==
  \/ \E u \in Admins :
       \/ \E form \in Forms : BeginForm(u, form)
       \/ Apply(u) \/ BuildEmbedder(u) \/ Build(u) \/ SetChatModel(u)
       \/ Marshal(u) \/ Truncate(u) \/ Write(u)
       \/ CloseConnections(u) \/ SetManager(u) \/ SetMCPTools(u)
       \/ \E s \in admin[u].reach : ConnectServer(u, s)
  \/ Restart \/ SettingsOver

SettingsSpec == SettingsInit /\ [][SettingsNext]_settingsVars

-----------------------------------------------------------------------------
(* A setting that was answered with success and that nobody has tried to change since is in *)
(* the configuration and in the file, survives a restart, and is what the chat model and    *)
(* the embedder are built with, whatever else was rejected half way, failed to be saved or  *)
(* overlapped.  It need not be in the file, nor survive, if its own save failed: a model    *)
(* that is created or deleted is answered with success all the same (api.go:4068, 4097);    *)
(* nor if its save overlapped another, or a crash cut a save off, or it is a zero, which a  *)
(* restart replaces.  The reranker and the temperature are not rebuilt with at run time.    *)
(* (api.go, UpdateSettings, CreateModel, DeleteModel; config.go, Save, Load.)               *)
AckSurvives ==
  \A f \in Fields : owner[f] \in Acknowledged /\ ~(f = "temperature" /\ kept[f] = Zero) =>
    /\ owner[f] = "kept" /\ file # Torn /\ ~crossed => file[f] = kept[f]
    /\ cfg[f] = kept[f]
    /\ ~overlapped /\ ~unbuilt =>
         /\ f \in Core => chat[f] = kept[f]
         /\ f \in EmbCore => embedder[f] = kept[f]

(* Between reloads that do not overlap, the chat service has the tools of every open        *)
(* connection, the current manager's, to each server that was saved and could be reached:   *)
(* no connection leaks, of a replaced manager or a failed reload, and a tool is left        *)
(* without its connection only by a stream of events, which may end with its request        *)
(* (mcp/manager.go:118).  (api.go, reloadMCPAndChat, ImportMCPServer; main.go.)             *)
ToolsServed ==
  ~raced /\ (\A u \in Admins : admin[u].pc \notin {"connect", "tools"}) =>
    /\ conns \subseteq tools /\ \A k \in tools : k[1] = manager
    /\ \A k \in tools \ conns : k[2] \in Streaming
    /\ owner.servers = "kept" => {k[2] : k \in tools} = kept.servers \ missed
=============================================================================
