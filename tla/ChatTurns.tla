------------------------------ MODULE ChatTurns ------------------------------
(*****************************************************************************)
(* Turns of a conversation (internal/service/chat.go, chat_memory.go,        *)
(* chat_persistence.go, the chat handlers of internal/handler/api.go): a     *)
(* turn reads the memory of its session, saves the question, answers, saves  *)
(* the answer and refreshes the session's cache, all in separate calls to    *)
(* PostgreSQL and Redis, any of which may fail and does fail once the client *)
(* is gone, whose request context they run under.                            *)
(*****************************************************************************)
EXTENDS Integers, Sequences, FiniteSets

CONSTANTS Turns, Sessions,
          RequestsOf, \* [Turns -> the requests it may make: api, agent, session]
          NoSession,  \* no session: creating one failed
          Miss,       \* the cache has nothing for a session
          Limit,      \* shortTermMessageLimit
          MaxChunks,  \* bound: chunks of an answer
          Capacity,   \* of the channel of a stream
          MaxTurnFaults  \* bound: failed calls, lost clients, overlapping turns

\* What a client may send to Chat and ChatStream: for an answer at once or a stream, of an
\* agent or the pipeline, in a session or in none.
TurnRequest == [api : {"chat", "stream"}, agent : BOOLEAN, session : Sessions \cup {NoSession}]

\* The code's limit is a positive constant.
ASSUME TurnsAssumption ==
  /\ Limit \in Nat \ {0}
  /\ NoSession \notin Sessions
  /\ \A t \in Turns : RequestsOf[t] \subseteq TurnRequest

VARIABLES turn,      \* [Turns -> the record of the request and its goroutine]
          inbox,     \* [Turns -> the events in the channel of a stream]
          shown,     \* [Turns -> the text the client has been given]
          served,    \* the turns whose client was told they are done
          gone,      \* the turns whose client has left
          state,     \* [Sessions -> "absent", "live" or "deleted"]
          messages,  \* [Sessions -> the rows of the session, by created_at]
          cache,     \* [Sessions -> Miss or the recent messages, in Redis]
          traces,    \* [Turns -> the status of the recorded request trace]
          steady,    \* history: the sessions with no overlapping turns, no lost refresh
          turnFaults \* bound: how many there were

turnVars == <<turn, inbox, shown, served, gone, state, messages, cache, traces, steady, turnFaults>>

NoMessage == [turn |-> NoSession, role |-> "", text |-> <<>>]

NoTurn == [pc |-> "idle", api |-> "", agent |-> FALSE, session |-> NoSession, own |-> NoMessage,
         read |-> <<>>, held |-> <<>>, out |-> <<>>, count |-> 0, done |-> FALSE,
         status |-> ""]

TurnsInit == /\ turn = [t \in Turns |-> NoTurn]
             /\ inbox = [t \in Turns |-> <<>>]
             /\ shown = [t \in Turns |-> <<>>]
             /\ served = {} /\ gone = {}
             /\ state = [s \in Sessions |-> "absent"]
             /\ messages = [s \in Sessions |-> <<>>]
             /\ cache = [s \in Sessions |-> Miss]
             /\ traces = [t \in Turns |-> ""]
             /\ steady = Sessions
             /\ turnFaults = 0

LastN(s, n) == SubSeq(s, IF Len(s) > n THEN Len(s) - n + 1 ELSE 1, Len(s))

Message(t, role, text) == [turn |-> t, role |-> role, text |-> text]

Fault == turnFaults < MaxTurnFaults /\ turnFaults' = turnFaults + 1

(* A call to PostgreSQL or Redis succeeds or fails, and fails once the client is gone. *)
TurnCall(t, ok) == /\ ok => t \notin gone
                   /\ IF ok \/ t \in gone THEN UNCHANGED turnFaults ELSE Fault

(* A trySend that waits for room in the channel and for nothing else. *)
TrySendPlain(t) == IF Len(inbox[t]) < Capacity THEN {TRUE} ELSE {}

(* select { case ch <- ev: true; case <-ctx.Done(): false } *)
TrySend(t) == (IF Len(inbox[t]) < Capacity THEN {TRUE} ELSE {})
              \cup (IF t \in gone THEN {FALSE} ELSE {})

Put(t, sent, event) ==
  inbox' = IF sent THEN [inbox EXCEPT ![t] = Append(@, event)] ELSE inbox

Content(text) == [type |-> "content", text |-> text]
Event(type) == [type |-> type, text |-> <<>>]

InSession(s) == {t \in Turns : turn[t].session = s /\ turn[t].pc \notin {"idle", "closed"}}

-----------------------------------------------------------------------------
(* ensureSessionAccess: the session of a request exists and is not deleted. *)
MayUse(s) == s \in Sessions => state[s] # "deleted"

(* ensureSession: the session given, or a new one. *)
EnsureSession(s) == state' = IF s = NoSession THEN state ELSE [state EXCEPT ![s] = "live"]

(* prepareChatContext starts with the memory of the session. *)
Begun(request) ==
  [NoTurn EXCEPT !.pc = IF request.session = NoSession THEN "answer" ELSE "memory",
               !.api = request.api, !.agent = request.agent, !.session = request.session]

(* Chat and ChatStream of the handler. *)
AskTurn(t, request) ==
  LET s == request.session IN
  /\ turn[t].pc = "idle" /\ MayUse(s)
  /\ turn' = [turn EXCEPT ![t] = Begun(request)]
  /\ EnsureSession(s)
  /\ steady' = IF InSession(s) # {} THEN steady \ {s} ELSE steady
  /\ IF \E u \in Turns : turn[u].pc \notin {"idle", "closed"} THEN Fault ELSE UNCHANGED turnFaults
  /\ UNCHANGED <<inbox, shown, served, gone, messages, cache, traces>>

CreateSession(s) ==
  /\ state[s] = "absent" /\ state' = [state EXCEPT ![s] = "live"]
  /\ UNCHANGED <<turn, inbox, shown, served, gone, messages, cache, traces, steady, turnFaults>>

Goto(t, pc) == turn' = [turn EXCEPT ![t].pc = pc]

(* getShortTermMessages: the cache, else the table, which then fills the cache. *)
ReadCache(t) ==
  LET s == turn[t].session IN
  /\ turn[t].pc = "memory"
  /\ \E ok \in BOOLEAN :
       /\ TurnCall(t, ok)
       /\ turn' = [turn EXCEPT ![t].pc = IF ok /\ cache[s] # Miss THEN "ask" ELSE "memory_list"]
  /\ UNCHANGED <<inbox, shown, served, gone, state, messages, cache, traces, steady>>

ReadHistory(t) ==
  /\ turn[t].pc = "memory_list"
  /\ \E ok \in BOOLEAN :
       /\ TurnCall(t, ok)
       /\ turn' = [turn EXCEPT ![t].pc = IF ok THEN "memory_set" ELSE "ask",
                               ![t].read = IF ok THEN LastN(messages[turn[t].session], Limit)
                                           ELSE <<>>]
  /\ UNCHANGED <<inbox, shown, served, gone, state, messages, cache, traces, steady>>

FillCache(t) ==
  /\ turn[t].pc = "memory_set"
  /\ turn' = [turn EXCEPT ![t].pc = "ask", ![t].read = <<>>]
  /\ \E ok \in BOOLEAN :
       /\ TurnCall(t, ok)
       /\ cache' = IF ok THEN [cache EXCEPT ![turn[t].session] = turn[t].read] ELSE cache
  /\ UNCHANGED <<inbox, shown, served, gone, state, messages, traces, steady>>

(* messageRepo.Create, and refreshSessionCache if it succeeded. *)
Save(t, message, otherwise) ==
  LET s == turn[t].session IN
  \E ok \in BOOLEAN :
    /\ TurnCall(t, ok)
    /\ messages' = IF ok THEN [messages EXCEPT ![s] = Append(@, message)] ELSE messages
    /\ turn' = [turn EXCEPT ![t].pc = IF ok THEN "refresh" ELSE otherwise,
                            ![t].own = IF ok THEN message ELSE NoMessage]

SaveQuestion(t) ==
  /\ turn[t].pc = "ask"
  /\ Save(t, Message(t, "user", <<>>), "answer")
  /\ UNCHANGED <<inbox, shown, served, gone, state, cache, traces, steady>>

SaveAnswer(t) ==
  /\ turn[t].pc = "save"
  /\ IF turn[t].session = NoSession THEN Goto(t, "report") /\ UNCHANGED <<messages, turnFaults>>
     ELSE Save(t, Message(t, "assistant", turn[t].out), "report")
  /\ UNCHANGED <<inbox, shown, served, gone, state, cache, traces, steady>>

-----------------------------------------------------------------------------
(* refreshSessionCache: add the message to the cached ones, or reload them. *)
Refreshed(t) ==
  turn' = [turn EXCEPT ![t].pc = IF turn[t].own.role = "user" THEN "answer" ELSE "report",
                       ![t].own = NoMessage, ![t].read = <<>>]

Refresh(t) ==
  LET s == turn[t].session IN
  /\ turn[t].pc = "refresh"
  /\ \E ok \in BOOLEAN :
       /\ TurnCall(t, ok)
       /\ turn' = IF ok /\ cache[s] # Miss
                  THEN [turn EXCEPT ![t].pc = "refresh_set",
                                    ![t].read = LastN(Append(cache[s], turn[t].own), Limit)]
                  ELSE [turn EXCEPT ![t].pc = "reload"]
  /\ UNCHANGED <<inbox, shown, served, gone, state, messages, cache, traces, steady>>

(* A reload that adds the message the table already holds. *)
ReloadAndAppend(t) ==
  LET s == turn[t].session IN
  /\ turn[t].pc = "reload"
  /\ \/ /\ TurnCall(t, TRUE)
        /\ turn' = [turn EXCEPT ![t].pc = "refresh_set",
                                ![t].read = LastN(Append(messages[s], turn[t].own), Limit)]
        /\ UNCHANGED steady
     \/ TurnCall(t, FALSE) /\ Refreshed(t) /\ steady' = steady \ {s}
  /\ UNCHANGED <<inbox, shown, served, gone, state, messages, cache, traces>>

Reload(t) ==
  LET s == turn[t].session IN
  /\ turn[t].pc = "reload"
  /\ \/ /\ TurnCall(t, TRUE)
        /\ turn' = [turn EXCEPT ![t].pc = "refresh_set",
                                ![t].read = LastN(messages[s], Limit)]
        /\ UNCHANGED steady
     \/ TurnCall(t, FALSE) /\ Refreshed(t) /\ steady' = steady \ {s}
  /\ UNCHANGED <<inbox, shown, served, gone, state, messages, cache, traces>>

RefreshSet(t) ==
  LET s == turn[t].session IN
  /\ turn[t].pc = "refresh_set"
  /\ Refreshed(t)
  /\ \/ /\ TurnCall(t, TRUE)
        /\ cache' = [cache EXCEPT ![s] = turn[t].read]
        /\ UNCHANGED steady
     \/ TurnCall(t, FALSE) /\ steady' = steady \ {s} /\ UNCHANGED cache
  /\ UNCHANGED <<inbox, shown, served, gone, state, messages, traces>>

-----------------------------------------------------------------------------
(* Chat: the recovery, the code search, the agent or the pipeline answers, or fails; *)
(* a failure is returned with only the question saved.                               *)
Answer(t) ==
  /\ turn[t].pc = "answer" /\ turn[t].api = "chat"
  /\ \/ turn' = [turn EXCEPT ![t].pc = "save", ![t].out = <<1>>, ![t].done = TRUE,
                             ![t].status = "completed"]
     \/ Goto(t, "closed")
  /\ UNCHANGED <<inbox, shown, served, gone, state, messages, cache, traces, steady, turnFaults>>

(* ChatStream: the session's id is in the channel before the goroutine starts. *)
BeginStream(t) ==
  /\ turn[t].pc = "answer" /\ turn[t].api = "stream"
  /\ turn' = [turn EXCEPT ![t].pc = "stream"]
  /\ Put(t, turn[t].session # NoSession, Event("session_id"))
  /\ UNCHANGED <<shown, served, gone, state, messages, cache, traces, steady, turnFaults>>

(* finishError, of the agent or of a pipeline that could not start. *)
FinishError(t) ==
  /\ turn[t].pc = "stream" /\ turn[t].count = 0
  /\ turn' = [turn EXCEPT ![t].pc = "report", ![t].status = "error"]
  /\ \E sent \in TrySend(t) : Put(t, sent, Event("error"))
  /\ UNCHANGED <<shown, served, gone, state, messages, cache, traces, steady, turnFaults>>

(* What RunStream yields next: notices (rewritten query, traces, sources), then content; *)
(* an error chunk ends it early.  The agent's answer is content only.                    *)
Yields(t) ==
  IF turn[t].status = "broken" THEN {}
  ELSE (IF turn[t].count = 0 /\ ~turn[t].agent THEN {"source", "error"} ELSE {})
       \cup (IF turn[t].count < MaxChunks THEN {"content"} ELSE {})

(* A content chunk, or a rune of the agent's answer.  The think filter may hold text back *)
(* until a later chunk; a send that fails abandons the turn.                              *)
Chunk(t) ==
  /\ turn[t].pc = "stream" /\ "content" \in Yields(t)
  /\ LET next == Append(turn[t].held, turn[t].count + 1)
         more == [turn[t] EXCEPT !.count = @ + 1]
     IN \/ /\ ~turn[t].agent
           /\ turn' = [turn EXCEPT ![t] = [more EXCEPT !.held = next]]
           /\ UNCHANGED inbox
        \/ \E sent \in TrySend(t) :
             /\ Put(t, sent, Content(next))
             /\ turn' = [turn EXCEPT ![t] = [more EXCEPT
                           !.held = <<>>, !.out = @ \o next,
                           !.pc = IF sent THEN "stream" ELSE "closed"]]
  /\ UNCHANGED <<shown, served, gone, state, messages, cache, traces, steady, turnFaults>>

(* Any other chunk is passed on. *)
Notice(t) ==
  /\ turn[t].pc = "stream"
  /\ \E type \in Yields(t) \ {"content"}, sent \in TrySend(t) :
       /\ Put(t, sent, Event(type))
       /\ turn' = [turn EXCEPT ![t].count = 1, ![t].pc = IF sent THEN @ ELSE "closed",
                               ![t].status = IF type = "error" THEN "broken" ELSE ""]
  /\ UNCHANGED <<shown, served, gone, state, messages, cache, traces, steady, turnFaults>>

(* An end that sends what the filter held and forgets to keep it. *)
EndOfStreamUnkept(t) ==
  LET held == turn[t].held IN
  /\ turn[t].pc = "stream"
  /\ turn' = [turn EXCEPT ![t].pc = "save", ![t].done = turn[t].status # "broken",
                          ![t].held = <<>>, ![t].status = "completed"]
  /\ IF held = <<>> THEN UNCHANGED inbox
     ELSE \E sent \in TrySend(t) : Put(t, sent, Content(held))
  /\ UNCHANGED <<shown, served, gone, state, messages, cache, traces, steady, turnFaults>>

(* The channel of RunStream is closed, after its Done chunk unless it sent an error; a      *)
(* model's stream that breaks off ends as one that is complete.  What the think filter held *)
(* is sent and added to the answer.                                                         *)
EndOfStream(t) ==
  LET held == turn[t].held IN
  /\ turn[t].pc = "stream"
  /\ turn' = [turn EXCEPT ![t].pc = "save", ![t].done = turn[t].status # "broken",
                          ![t].held = <<>>, ![t].out = @ \o held,
                          ![t].status = "completed"]
  /\ IF held = <<>> THEN UNCHANGED inbox
     ELSE \E sent \in TrySend(t) : Put(t, sent, Content(held))
  /\ UNCHANGED <<shown, served, gone, state, messages, cache, traces, steady, turnFaults>>

(* recordRequestTrace writes under a context of its own; Chat returns its answer. *)
Report(t) ==
  /\ turn[t].pc = "report"
  /\ traces' = [traces EXCEPT ![t] = turn[t].status]
  /\ IF turn[t].api = "chat"
     THEN /\ Goto(t, "closed")
          /\ served' = IF t \in gone THEN served ELSE served \cup {t}
          /\ shown' = IF t \in gone THEN shown ELSE [shown EXCEPT ![t] = turn[t].out]
          /\ UNCHANGED inbox
     ELSE /\ Goto(t, "finish")
          /\ \E sent \in TrySend(t) : Put(t, sent, Event("trace_snapshot"))
          /\ UNCHANGED <<served, shown>>
  /\ UNCHANGED <<gone, state, messages, cache, steady, turnFaults>>

(* The done event, if the answer is complete; the goroutine closes the channel. *)
FinishTurn(t) ==
  /\ turn[t].pc = "finish"
  /\ Goto(t, "closed")
  /\ IF turn[t].done THEN \E sent \in TrySend(t) : Put(t, sent, Event("done"))
     ELSE UNCHANGED inbox
  /\ UNCHANGED <<shown, served, gone, state, messages, cache, traces, steady, turnFaults>>

-----------------------------------------------------------------------------
(* The handler's c.Stream loop writes the next event of the channel to the client. *)
Receive(t) ==
  /\ t \notin gone /\ inbox[t] # <<>>
  /\ inbox' = [inbox EXCEPT ![t] = Tail(@)]
  /\ shown' = [shown EXCEPT ![t] = @ \o Head(inbox[t]).text]
  /\ served' = IF Head(inbox[t]).type = "done" THEN served \cup {t} ELSE served
  /\ UNCHANGED <<turn, gone, state, messages, cache, traces, steady, turnFaults>>

Disconnect(t) ==
  /\ turn[t].pc \notin {"idle", "closed"} /\ t \notin gone
  /\ Fault
  /\ gone' = gone \cup {t}
  /\ UNCHANGED <<turn, inbox, shown, served, state, messages, cache, traces, steady>>

(* DeleteSession: the row, then the cache, which a failure only logs. *)
DeleteSession(s) ==
  /\ state[s] = "live"
  /\ state' = [state EXCEPT ![s] = "deleted"]
  /\ \/ /\ cache' = [cache EXCEPT ![s] = Miss]
        /\ IF InSession(s) = {} THEN UNCHANGED turnFaults ELSE Fault
     \/ Fault /\ UNCHANGED cache
  /\ steady' = steady \ {s}
  /\ UNCHANGED <<turn, inbox, shown, served, gone, messages, traces>>

Expire(s) ==
  /\ cache[s] # Miss /\ cache' = [cache EXCEPT ![s] = Miss]
  /\ UNCHANGED <<turn, inbox, shown, served, gone, state, messages, traces, steady, turnFaults>>

TurnsOver == /\ \A t \in Turns : turn[t].pc \in {"idle", "closed"} /\ (inbox[t] = <<>> \/ t \in gone)
             /\ UNCHANGED turnVars

Work(t) == \/ ReadCache(t) \/ ReadHistory(t) \/ FillCache(t) \/ SaveQuestion(t)
           \/ SaveAnswer(t) \/ Refresh(t) \/ Reload(t) \/ RefreshSet(t) \/ Answer(t)
           \/ BeginStream(t) \/ FinishError(t) \/ Chunk(t) \/ Notice(t) \/ EndOfStream(t)
           \/ Report(t) \/ FinishTurn(t)

TurnsNext == \/ \E t \in Turns : \/ Work(t) \/ Receive(t) \/ Disconnect(t)
                                 \/ \E request \in RequestsOf[t] : AskTurn(t, request)
             \/ \E s \in Sessions : CreateSession(s) \/ DeleteSession(s) \/ Expire(s)
             \/ TurnsOver

(* The goroutines run; the model's stream ends or the provider drops it; a client that *)
(* stays reads.                                                                        *)
Fairness == \A t \in Turns : WF_turnVars(Work(t)) /\ WF_turnVars(Receive(t))

TurnsSpec == TurnsInit /\ [][TurnsNext]_turnVars /\ Fairness

-----------------------------------------------------------------------------
(* The rows of a turn in its session end with its one answer, of the text it was given. *)
Kept(t, rows) ==
  \A i \in DOMAIN rows : rows[i].turn = t /\ rows[i].role = "assistant" =>
    rows[i].text = shown[t] /\ \A k \in DOMAIN rows : rows[k].turn = t => k <= i

(* A client that is told its turn is done was given the text that is kept: the one answer   *)
(* of the turn in its session, after the question, unless the write itself failed; and its  *)
(* trace says completed.  (chat.go, ChatStream: fullResponse, the think filter's flush, the *)
(* order of save, trace and done.)                                                          *)
DoneMeansKept ==
  \A t \in served :
    /\ traces[t] = "completed"
    /\ turn[t].session # NoSession => Kept(t, messages[turn[t].session])

(* A session's cached messages are the last ones of its table whenever no turn is at work on *)
(* it, if its turns never overlapped and no refresh of it was lost: a hit appends, a miss    *)
(* reloads what already holds the message.  (chat_memory.go, refreshSessionCache.)           *)
CacheIsRecent ==
  \A s \in steady : InSession(s) = {} /\ cache[s] # Miss => cache[s] = LastN(messages[s], Limit)

(* The goroutine of a stream ends and closes its channel, whether its client reads, leaves or *)
(* leaves with the channel full.  (chat.go, trySend.)                                         *)
StreamCloses == \A t \in Turns : turn[t].pc = "stream" ~> turn[t].pc = "closed"
=============================================================================
