---------------------------- MODULE ChatTurnsProofs ----------------------------
(***************************************************************************)
(* What a client is told and what is kept, in the session's table and in   *)
(* its cache, for any turns, sessions and requests, however the turns      *)
(* overlap, and whatever calls fail or clients leave.                      *)
(***************************************************************************)
EXTENDS ChatTurns, SequenceTheorems, TLAPS

Pcs ==
  {"idle", "memory", "memory_list", "memory_set", "ask", "refresh", "reload", "refresh_set",
   "answer", "stream", "save", "report", "finish", "closed"}

MessageType == [turn : Turns, role : {"user", "assistant"}, text : Seq(Nat)]
EventType   == [type : {"session_id", "source", "content", "error", "trace_snapshot", "done"},
                text : Seq(Nat)]
TurnType    == [pc : Pcs, api : {"", "chat", "stream"}, agent : BOOLEAN,
                session : Sessions \cup {NoSession}, own : MessageType \cup {NoMessage},
                read : Seq(MessageType), held : Seq(Nat), out : Seq(Nat), count : Nat,
                done : BOOLEAN, status : {"", "completed", "error", "broken"}]

\* The steps before a question is saved, and those that refresh the cache after a save.
Asking     == {"memory", "memory_list", "memory_set", "ask"}
Refreshing == {"refresh", "reload", "refresh_set"}

Placed(t, q) == /\ q.pc \in Asking \cup Refreshing => q.session \in Sessions
                /\ q.pc \in Refreshing => q.own \in MessageType /\ q.own.turn = t

TypeInv ==
  /\ turn \in [Turns -> TurnType] /\ \A t \in Turns : Placed(t, turn[t])
  /\ inbox \in [Turns -> Seq(EventType)]
  /\ shown \in [Turns -> Seq(Nat)]
  /\ messages \in [Sessions -> Seq(MessageType)]
  /\ cache \in [Sessions -> Seq(MessageType) \cup {Miss}]
  /\ DOMAIN traces = Turns
  /\ served \subseteq Turns /\ gone \subseteq Turns /\ steady \subseteq Sessions

\* What is found in a session's cache is as recent as its table.
Recent(c, rows) == c = Miss \/ c = LastN(rows, Limit)

\* The cache of a session whose turns never overlapped, at each step of the one turn that is
\* at work on it: between saving a message and refreshing the cache, it is one behind.
Caches(q, rows, c) ==
  /\ q.pc \notin {"refresh", "reload", "refresh_set"} => Recent(c, rows)
  /\ q.pc \in {"memory_set", "refresh_set"} => q.read = LastN(rows, Limit)
  /\ q.pc \in {"refresh", "reload"} =>
        \/ c = Miss
        \/ \E old \in Seq(MessageType) : rows = Append(old, q.own) /\ c = LastN(old, Limit)

CacheInv ==
  \A s \in steady :
    /\ \A t, u \in InSession(s) : t = u
    /\ InSession(s) = {} => Recent(cache[s], messages[s])
    /\ \A t \in InSession(s) : Caches(turn[t], messages[s], cache[s])

\* The answer of a turn is saved or never will be.
Answered(q) == \/ q.pc \in {"report", "finish", "closed"}
               \/ q.pc \in Refreshing /\ q.own.role = "assistant"

\* The rows of turn t in its session: nothing, then its question, then its answer.
Saved(t, q, rows) ==
  /\ q.pc \in Asking => \A i \in DOMAIN rows : rows[i].turn # t
  /\ ~Answered(q) => \A i \in DOMAIN rows : rows[i].turn = t => rows[i].role = "user"
  /\ \A i \in DOMAIN rows : rows[i].turn = t /\ rows[i].role = "assistant" =>
        rows[i].text = q.out /\ \A k \in DOMAIN rows : rows[k].turn = t => k <= i

\* The text that was shown and that of the events still in the channel add up to the answer.
Flows(text, box, out) ==
  \E f \in [0..Len(box) -> Seq(Nat)] :
    /\ f[0] = text /\ f[Len(box)] = out
    /\ \A i \in 1..Len(box) : f[i] = f[i - 1] \o box[i].text

\* What has come of a turn, in the channel and at its client.
Delivers(q, box, text, isTold, isGone, trace) ==
  /\ q.pc = "idle" => q = NoTurn /\ box = <<>> /\ text = <<>>
  /\ q.pc # "idle" => q.api \in {"chat", "stream"}
  /\ q.pc \in {"stream", "finish"} => q.api = "stream"
  /\ q.api = "chat" => box = <<>>
  /\ q.api = "stream" /\ ~isGone => Flows(text, box, q.out)
  /\ isTold => q.pc = "closed" /\ ~isGone /\ box = <<>> /\ text = q.out /\ trace = "completed"
  /\ \A i \in DOMAIN box : box[i].type = "done" =>
        i = Len(box) /\ q.pc = "closed" /\ trace = "completed"
  /\ ~Answered(q) /\ q.pc # "save" => ~q.done
  /\ q.pc = "save" \/ Answered(q) =>
        (q.done \/ q.api = "chat" => q.status = "completed" \/ q.pc = "closed")
  /\ q.pc = "finish" /\ q.done => trace = "completed"

TurnInv ==
  /\ \A t \in Turns :
       /\ Delivers(turn[t], inbox[t], shown[t], t \in served, t \in gone, traces[t])
       /\ turn[t].session # NoSession => Saved(t, turn[t], messages[turn[t].session])
  /\ \A s \in Sessions : \A i \in DOMAIN messages[s] : turn[messages[s][i].turn].session = s

-----------------------------------------------------------------------------
LEMMA LastNType ==
  ASSUME NEW S, NEW s \in Seq(S), NEW n \in Nat
  PROVE  LastN(s, n) \in Seq(S)
<1> DEFINE m == IF Len(s) > n THEN Len(s) - n + 1 ELSE 1
<1>1. m \in Nat /\ m >= 1 /\ Len(s) \in Nat  BY LenProperties
<1>2. \A i \in m..Len(s) : s[i] \in S  BY <1>1, LenProperties, ElementOfSeq
<1>3. SubSeq(s, m, Len(s)) \in Seq(S)  BY <1>1, <1>2, SubSeqProperties
<1> QED  BY <1>3 DEF LastN

\* The turn p becomes q: its request stays what it was.
Moves(p, q) == q \in TurnType /\ q.api = p.api /\ q.session = p.session

\* The same, when it is at work on the memory of its session: its answer stays too.
Remembers(p, q) == Moves(p, q) /\ q.out = p.out /\ q.done = p.done /\ q.status = p.status

\* The ways in which an action changes a turn.
To(p, x) == [p EXCEPT !.pc = x]
ToRead(p, x, y) == [p EXCEPT !.pc = x, !.read = y]
ToOwn(p, x, o) == [p EXCEPT !.pc = x, !.own = o]
ToOver(p, x, y) == [p EXCEPT !.pc = x, !.own = NoMessage, !.read = y]

LEMMA ToMoves ==
  ASSUME NEW p \in TurnType, NEW x \in Pcs
  PROVE  LET q == To(p, x) IN Remembers(p, q) /\ q.pc = x /\ q.own = p.own
<1> DEFINE q == To(p, x)
<1>1. q \in TurnType  BY DEF TurnType, To
<1> QED  BY <1>1 DEF TurnType, Moves, Remembers, To

LEMMA ToReadMoves ==
  ASSUME NEW p \in TurnType, NEW x \in Pcs, NEW y \in Seq(MessageType)
  PROVE  LET q == ToRead(p, x, y)
         IN  Remembers(p, q) /\ q.pc = x /\ q.own = p.own /\ q.read = y
<1> DEFINE q == ToRead(p, x, y)
<1>1. q \in TurnType  BY DEF TurnType, ToRead
<1> QED  BY <1>1 DEF TurnType, Moves, Remembers, ToRead

LEMMA ToOwnMoves ==
  ASSUME NEW p \in TurnType, NEW x \in Pcs, NEW o \in MessageType \cup {NoMessage}
  PROVE  LET q == ToOwn(p, x, o) IN Remembers(p, q) /\ q.pc = x /\ q.own = o
<1> DEFINE q == ToOwn(p, x, o)
<1>1. q \in TurnType  BY DEF TurnType, ToOwn
<1> QED  BY <1>1 DEF TurnType, Moves, Remembers, ToOwn

LEMMA ToOverMoves ==
  ASSUME NEW p \in TurnType, NEW x \in Pcs, NEW y \in Seq(MessageType)
  PROVE  LET q == ToOver(p, x, y) IN Remembers(p, q) /\ q.pc = x
<1> DEFINE q == ToOver(p, x, y)
<1>1. q \in TurnType  BY DEF TurnType, ToOver
<1> QED  BY <1>1 DEF TurnType, Moves, Remembers, ToOver

\* An action of turn t gives it another record, and leaves the other turns alone.
Turned(t, q) == turn' = [turn EXCEPT ![t] = q]

LEMMA TurnedIs ==
  ASSUME turn \in [Turns -> TurnType], NEW t \in Turns, NEW q \in TurnType, Turned(t, q)
  PROVE  /\ turn' \in [Turns -> TurnType]
         /\ turn'[t] = q /\ \A u \in Turns \ {t} : turn'[u] = turn[u]
BY DEF Turned

\* What a step on the memory of a session does to the other variables of its turn: nothing.
Elsewhere == UNCHANGED <<inbox, shown, served, gone, state, traces>>

LEMMA ReadCacheDoes ==
  ASSUME TypeInv, NEW t \in Turns, ReadCache(t)
  PROVE  /\ Elsewhere /\ UNCHANGED <<messages, cache, steady>>
         /\ turn[t].pc = "memory"
         /\ \E q \in TurnType : /\ Turned(t, q) /\ Remembers(turn[t], q)
                                /\ q.pc \in {"ask", "memory_list"}
<1>1. turn[t] \in TurnType  BY DEF TypeInv
<1>2. PICK x \in {"ask", "memory_list"} : Turned(t, To(turn[t], x))  BY DEF ReadCache, To, Turned
<1>3. x \in Pcs  BY DEF Pcs
<1>4. Remembers(turn[t], To(turn[t], x)) /\ To(turn[t], x).pc = x  BY <1>1, <1>3, ToMoves
<1> QED  BY <1>2, <1>4 DEF ReadCache, Elsewhere, Remembers, Moves

LEMMA ReadHistoryDoes ==
  ASSUME TypeInv, NEW t \in Turns, ReadHistory(t)
  PROVE  /\ Elsewhere /\ UNCHANGED <<messages, cache, steady>>
         /\ turn[t].pc = "memory_list"
         /\ \E q \in TurnType :
              /\ Turned(t, q) /\ Remembers(turn[t], q) /\ q.pc \in {"ask", "memory_set"}
              /\ q.pc = "memory_set" => q.read = LastN(messages[turn[t].session], Limit)
<1> DEFINE rows == LastN(messages[turn[t].session], Limit)
<1>1. turn[t] \in TurnType  BY DEF TypeInv
<1>2. rows \in Seq(MessageType) /\ <<>> \in Seq(MessageType)
  <2>1. messages[turn[t].session] \in Seq(MessageType) /\ Limit \in Nat
    BY TurnsAssumption DEF TypeInv, Placed, ReadHistory, Asking
  <2>2. rows \in Seq(MessageType)  BY <2>1, LastNType
  <2> QED  BY <2>2
<1>3. \/ Turned(t, ToRead(turn[t], "memory_set", rows))
      \/ Turned(t, ToRead(turn[t], "ask", <<>>))
  BY DEF ReadHistory, ToRead, Turned
<1> HIDE DEF rows
<1>4. CASE Turned(t, ToRead(turn[t], "memory_set", rows))
  <2> DEFINE q == ToRead(turn[t], "memory_set", rows)
  <2>1. "memory_set" \in Pcs  BY DEF Pcs
  <2>2. Remembers(turn[t], q) /\ q.pc = "memory_set" /\ q.read = rows
    BY <1>1, <1>2, <2>1, ToReadMoves
  <2> QED  BY <1>4, <2>2 DEF rows, ReadHistory, Elsewhere, Remembers, Moves
<1>5. CASE Turned(t, ToRead(turn[t], "ask", <<>>))
  <2> DEFINE q == ToRead(turn[t], "ask", <<>>)
  <2>1. "ask" \in Pcs  BY DEF Pcs
  <2>2. Remembers(turn[t], q) /\ q.pc = "ask"  BY <1>1, <1>2, <2>1, ToReadMoves
  <2> QED  BY <1>5, <2>2 DEF ReadHistory, Elsewhere, Remembers, Moves
<1> QED  BY <1>3, <1>4, <1>5

LEMMA FillCacheDoes ==
  ASSUME TypeInv, NEW t \in Turns, FillCache(t)
  PROVE  /\ Elsewhere /\ UNCHANGED <<messages, steady>>
         /\ turn[t].pc = "memory_set"
         /\ \E q \in TurnType : Turned(t, q) /\ Remembers(turn[t], q) /\ q.pc = "ask"
         /\ cache' = cache \/ cache' = [cache EXCEPT ![turn[t].session] = turn[t].read]
<1> DEFINE q == ToRead(turn[t], "ask", <<>>)
<1>1. turn[t] \in TurnType  BY DEF TypeInv
<1>2. Turned(t, q)  BY DEF FillCache, ToRead, Turned
<1>3. "ask" \in Pcs /\ <<>> \in Seq(MessageType)  BY DEF Pcs
<1>4. Remembers(turn[t], q) /\ q.pc = "ask"  BY <1>1, <1>3, ToReadMoves
<1> QED  BY <1>2, <1>4 DEF FillCache, Elsewhere, Remembers, Moves

\* A row of turn t, added to its session or not, and what the turn is then about to do.
Saves(t, m, otherwise) ==
  /\ Elsewhere /\ UNCHANGED <<cache, steady>>
  /\ \E q \in TurnType :
       /\ Turned(t, q) /\ Remembers(turn[t], q)
       /\ \/ /\ q.pc = "refresh" /\ q.own = m /\ turn[t].session # NoSession
             /\ messages' = [messages EXCEPT ![turn[t].session] = Append(@, m)]
          \/ q.pc = otherwise /\ UNCHANGED messages

LEMMA SaveQuestionDoes ==
  ASSUME TypeInv, NEW t \in Turns, SaveQuestion(t)
  PROVE  /\ turn[t].pc = "ask" /\ Message(t, "user", <<>>) \in MessageType
         /\ Saves(t, Message(t, "user", <<>>), "answer")
<1> DEFINE m == Message(t, "user", <<>>)
<1>1. turn[t] \in TurnType  BY DEF TypeInv
<1>2. m \in MessageType  BY DEF Message, MessageType
<1>3. \/ /\ Turned(t, ToOwn(turn[t], "refresh", m))
         /\ messages' = [messages EXCEPT ![turn[t].session] = Append(@, m)]
      \/ Turned(t, ToOwn(turn[t], "answer", NoMessage)) /\ UNCHANGED messages
  BY DEF SaveQuestion, Save, ToOwn, Turned
<1>4. Elsewhere /\ UNCHANGED <<cache, steady>> /\ turn[t].pc = "ask"
  BY DEF SaveQuestion, Elsewhere
<1>8. turn[t].session # NoSession  BY <1>4, TurnsAssumption DEF TypeInv, Placed, Asking
<1> HIDE DEF m
<1>5. "refresh" \in Pcs /\ "answer" \in Pcs  BY DEF Pcs
<1>6. CASE /\ Turned(t, ToOwn(turn[t], "refresh", m))
           /\ messages' = [messages EXCEPT ![turn[t].session] = Append(@, m)]
  <2> DEFINE q == ToOwn(turn[t], "refresh", m)
  <2>1. Remembers(turn[t], q) /\ q.pc = "refresh" /\ q.own = m  BY <1>1, <1>2, <1>5, ToOwnMoves
  <2>2. Saves(t, m, "answer")  BY <1>4, <1>6, <1>8, <2>1 DEF Saves, Remembers, Moves
  <2> QED  BY <1>2, <1>4, <2>2 DEF m
<1>7. CASE Turned(t, ToOwn(turn[t], "answer", NoMessage)) /\ UNCHANGED messages
  <2> DEFINE q == ToOwn(turn[t], "answer", NoMessage)
  <2>1. Remembers(turn[t], q) /\ q.pc = "answer"  BY <1>1, <1>5, ToOwnMoves
  <2>2. Saves(t, m, "answer")  BY <1>4, <1>7, <2>1 DEF Saves, Remembers, Moves
  <2> QED  BY <1>2, <1>4, <2>2 DEF m
<1> QED  BY <1>3, <1>6, <1>7

LEMMA SaveAnswerDoes ==
  ASSUME TypeInv, NEW t \in Turns, SaveAnswer(t)
  PROVE  /\ turn[t].pc = "save" /\ Message(t, "assistant", turn[t].out) \in MessageType
         /\ Saves(t, Message(t, "assistant", turn[t].out), "report")
<1> DEFINE m == Message(t, "assistant", turn[t].out)
<1>1. turn[t] \in TurnType  BY DEF TypeInv
<1>2. m \in MessageType  BY <1>1 DEF Message, MessageType, TurnType
<1>3. \/ /\ Turned(t, ToOwn(turn[t], "refresh", m)) /\ turn[t].session # NoSession
         /\ messages' = [messages EXCEPT ![turn[t].session] = Append(@, m)]
      \/ Turned(t, ToOwn(turn[t], "report", NoMessage)) /\ UNCHANGED messages
      \/ Turned(t, To(turn[t], "report")) /\ UNCHANGED messages
  BY DEF SaveAnswer, Save, ToOwn, To, Turned, Goto
<1>4. Elsewhere /\ UNCHANGED <<cache, steady>> /\ turn[t].pc = "save"
  BY DEF SaveAnswer, Elsewhere
<1> HIDE DEF m
<1>5. "refresh" \in Pcs /\ "report" \in Pcs  BY DEF Pcs
<1>6. CASE /\ Turned(t, ToOwn(turn[t], "refresh", m)) /\ turn[t].session # NoSession
           /\ messages' = [messages EXCEPT ![turn[t].session] = Append(@, m)]
  <2> DEFINE q == ToOwn(turn[t], "refresh", m)
  <2>1. Remembers(turn[t], q) /\ q.pc = "refresh" /\ q.own = m  BY <1>1, <1>2, <1>5, ToOwnMoves
  <2>2. Saves(t, m, "report")  BY <1>4, <1>6, <2>1 DEF Saves, Remembers, Moves
  <2> QED  BY <1>2, <1>4, <2>2 DEF m
<1>7. CASE Turned(t, ToOwn(turn[t], "report", NoMessage)) /\ UNCHANGED messages
  <2> DEFINE q == ToOwn(turn[t], "report", NoMessage)
  <2>1. Remembers(turn[t], q) /\ q.pc = "report"  BY <1>1, <1>5, ToOwnMoves
  <2>2. Saves(t, m, "report")  BY <1>4, <1>7, <2>1 DEF Saves, Remembers, Moves
  <2> QED  BY <1>2, <1>4, <2>2 DEF m
<1>8. CASE Turned(t, To(turn[t], "report")) /\ UNCHANGED messages
  <2> DEFINE q == To(turn[t], "report")
  <2>1. Remembers(turn[t], q) /\ q.pc = "report"  BY <1>1, <1>5, ToMoves
  <2>2. Saves(t, m, "report")  BY <1>4, <1>8, <2>1 DEF Saves, Remembers, Moves
  <2> QED  BY <1>2, <1>4, <2>2 DEF m
<1> QED  BY <1>3, <1>6, <1>7, <1>8

LEMMA RefreshDoes ==
  ASSUME TypeInv, NEW t \in Turns, Refresh(t)
  PROVE  /\ Elsewhere /\ UNCHANGED <<messages, cache, steady>>
         /\ turn[t].pc = "refresh"
         /\ \E q \in TurnType :
              /\ Turned(t, q) /\ Remembers(turn[t], q) /\ q.own = turn[t].own
              /\ \/ q.pc = "reload"
                 \/ /\ q.pc = "refresh_set" /\ cache[turn[t].session] # Miss
                    /\ q.read = LastN(Append(cache[turn[t].session], turn[t].own), Limit)
<1> DEFINE s    == turn[t].session
           rows == LastN(Append(cache[s], turn[t].own), Limit)
<1>1. turn[t] \in TurnType  BY DEF TypeInv
<1>2. Elsewhere /\ UNCHANGED <<messages, cache, steady>> /\ turn[t].pc = "refresh"
  BY DEF Refresh, Elsewhere
<1>3. \/ Turned(t, ToRead(turn[t], "refresh_set", rows)) /\ cache[s] # Miss
      \/ Turned(t, To(turn[t], "reload"))
  BY DEF Refresh, To, ToRead, Turned
<1>4. "refresh_set" \in Pcs /\ "reload" \in Pcs  BY DEF Pcs
<1>5. CASE Turned(t, ToRead(turn[t], "refresh_set", rows)) /\ cache[s] # Miss
  <2> DEFINE q == ToRead(turn[t], "refresh_set", rows)
  <2>1. s \in Sessions /\ turn[t].own \in MessageType  BY <1>2 DEF TypeInv, Placed, Refreshing
  <2>2. cache[s] \in Seq(MessageType) /\ Limit \in Nat  BY <1>5, <2>1, TurnsAssumption DEF TypeInv
  <2>3. Append(cache[s], turn[t].own) \in Seq(MessageType)  BY <2>1, <2>2
  <2>4. rows \in Seq(MessageType)  BY <2>2, <2>3, LastNType
  <2> HIDE DEF rows
  <2>5. Remembers(turn[t], q) /\ q.pc = "refresh_set" /\ q.own = turn[t].own /\ q.read = rows
    BY <1>1, <1>4, <2>4, ToReadMoves
  <2> QED  BY <1>2, <1>5, <2>5 DEF rows, Remembers, Moves
<1>6. CASE Turned(t, To(turn[t], "reload"))
  <2> DEFINE q == To(turn[t], "reload")
  <2>1. Remembers(turn[t], q) /\ q.pc = "reload" /\ q.own = turn[t].own
    BY <1>1, <1>4, ToMoves
  <2> QED  BY <1>2, <1>6, <2>1 DEF Remembers, Moves
<1> QED  BY <1>3, <1>5, <1>6

\* What refreshing the cache leads to, once it is over.
After(p) == IF p.own.role = "user" THEN "answer" ELSE "report"

LEMMA RefreshedDoes ==
  ASSUME TypeInv, NEW t \in Turns, Refreshed(t)
  PROVE  \E q \in TurnType :
           Turned(t, q) /\ Remembers(turn[t], q) /\ q.pc = After(turn[t])
<1>1. turn[t] \in TurnType  BY DEF TypeInv
<1>2. PICK x \in Pcs : x = After(turn[t])  BY DEF After, Pcs
<1> DEFINE q == ToOver(turn[t], x, <<>>)
<1>3. Turned(t, q)  BY <1>2 DEF Refreshed, After, ToOver, Turned
<1>4. <<>> \in Seq(MessageType)  OBVIOUS
<1>5. Remembers(turn[t], q) /\ q.pc = x  BY <1>1, <1>4, ToOverMoves
<1> QED  BY <1>2, <1>3, <1>5 DEF Remembers, Moves

LEMMA ReloadDoes ==
  ASSUME TypeInv, NEW t \in Turns, Reload(t)
  PROVE  /\ Elsewhere /\ UNCHANGED <<messages, cache>>
         /\ turn[t].pc = "reload"
         /\ \E q \in TurnType :
              /\ Turned(t, q) /\ Remembers(turn[t], q)
              /\ \/ /\ q.pc = "refresh_set" /\ q.own = turn[t].own /\ UNCHANGED steady
                    /\ q.read = LastN(messages[turn[t].session], Limit)
                 \/ q.pc = After(turn[t]) /\ steady' = steady \ {turn[t].session}
<1> DEFINE s    == turn[t].session
           rows == LastN(messages[s], Limit)
<1>1. turn[t] \in TurnType  BY DEF TypeInv
<1>2. Elsewhere /\ UNCHANGED <<messages, cache>> /\ turn[t].pc = "reload"
  BY DEF Reload, Elsewhere
<1>3. \/ Turned(t, ToRead(turn[t], "refresh_set", rows)) /\ UNCHANGED steady
      \/ Refreshed(t) /\ steady' = steady \ {s}
  BY DEF Reload, ToRead, Turned
<1>4. CASE Turned(t, ToRead(turn[t], "refresh_set", rows)) /\ UNCHANGED steady
  <2> DEFINE q == ToRead(turn[t], "refresh_set", rows)
  <2>1. s \in Sessions  BY <1>2 DEF TypeInv, Placed, Refreshing
  <2>2. messages[s] \in Seq(MessageType) /\ Limit \in Nat  BY <2>1, TurnsAssumption DEF TypeInv
  <2>3. rows \in Seq(MessageType)  BY <2>2, LastNType
  <2>4. "refresh_set" \in Pcs  BY DEF Pcs
  <2> HIDE DEF rows
  <2>5. Remembers(turn[t], q) /\ q.pc = "refresh_set" /\ q.own = turn[t].own /\ q.read = rows
    BY <1>1, <2>3, <2>4, ToReadMoves
  <2> QED  BY <1>2, <1>4, <2>5 DEF rows, Remembers, Moves
<1>5. CASE Refreshed(t) /\ steady' = steady \ {s}
  BY <1>2, <1>5, RefreshedDoes
<1> QED  BY <1>3, <1>4, <1>5

LEMMA RefreshSetDoes ==
  ASSUME TypeInv, NEW t \in Turns, RefreshSet(t)
  PROVE  /\ Elsewhere /\ UNCHANGED messages
         /\ turn[t].pc = "refresh_set"
         /\ \E q \in TurnType :
              Turned(t, q) /\ Remembers(turn[t], q) /\ q.pc = After(turn[t])
         /\ \/ cache' = [cache EXCEPT ![turn[t].session] = turn[t].read] /\ UNCHANGED steady
            \/ UNCHANGED cache /\ steady' = steady \ {turn[t].session}
<1>1. Refreshed(t)  BY DEF RefreshSet
<1>2. \E q \in TurnType : Turned(t, q) /\ Remembers(turn[t], q) /\ q.pc = After(turn[t])
  BY <1>1, RefreshedDoes
<1>3. \/ cache' = [cache EXCEPT ![turn[t].session] = turn[t].read] /\ UNCHANGED steady
      \/ UNCHANGED cache /\ steady' = steady \ {turn[t].session}
  BY DEF RefreshSet
<1> QED  BY <1>2, <1>3 DEF RefreshSet, Elsewhere

-----------------------------------------------------------------------------
(* The steps of an answer. *)

ToAsk(p, x, a, g, s) == [p EXCEPT !.pc = x, !.api = a, !.agent = g, !.session = s]
ToStatus(p, x, st) == [p EXCEPT !.pc = x, !.status = st]
ToNotice(p, x, st) == [p EXCEPT !.count = 1, !.pc = x, !.status = st]
ToHeld(p, n, h) == [p EXCEPT !.count = n, !.held = h]
ToSent(p, x, n, h, o) == [p EXCEPT !.count = n, !.held = h, !.out = o, !.pc = x]
ToEnd(p, d, h, o) == [p EXCEPT !.pc = "save", !.done = d, !.held = h, !.out = o,
                            !.status = "completed"]
ToAnswer(p) == [p EXCEPT !.pc = "save", !.out = <<1>>, !.done = TRUE, !.status = "completed"]

LEMMA ToStatusMoves ==
  ASSUME NEW p \in TurnType, NEW x \in Pcs, NEW st \in {"", "completed", "error", "broken"}
  PROVE  LET q == ToStatus(p, x, st)
         IN  Moves(p, q) /\ q.pc = x /\ q.out = p.out /\ q.done = p.done /\ q.status = st
<1> DEFINE q == ToStatus(p, x, st)
<1>1. q \in TurnType  BY DEF TurnType, ToStatus
<1> QED  BY <1>1 DEF TurnType, Moves, ToStatus

LEMMA ToNoticeMoves ==
  ASSUME NEW p \in TurnType, NEW x \in Pcs, NEW st \in {"", "completed", "error", "broken"}
  PROVE  LET q == ToNotice(p, x, st)
         IN  Moves(p, q) /\ q.pc = x /\ q.out = p.out /\ q.done = p.done
<1> DEFINE q == ToNotice(p, x, st)
<1>1. q \in TurnType  BY DEF TurnType, ToNotice
<1> QED  BY <1>1 DEF TurnType, Moves, ToNotice

LEMMA ToHeldMoves ==
  ASSUME NEW p \in TurnType, NEW n \in Nat, NEW h \in Seq(Nat)
  PROVE  LET q == ToHeld(p, n, h)
         IN  Moves(p, q) /\ q.pc = p.pc /\ q.out = p.out /\ q.done = p.done
<1> DEFINE q == ToHeld(p, n, h)
<1>1. q \in TurnType  BY DEF TurnType, ToHeld
<1> QED  BY <1>1 DEF TurnType, Moves, ToHeld

LEMMA ToSentMoves ==
  ASSUME NEW p \in TurnType, NEW x \in Pcs, NEW n \in Nat, NEW h \in Seq(Nat),
         NEW o \in Seq(Nat)
  PROVE  LET q == ToSent(p, x, n, h, o)
         IN  Moves(p, q) /\ q.pc = x /\ q.out = o /\ q.done = p.done
<1> DEFINE q == ToSent(p, x, n, h, o)
<1>1. q \in TurnType  BY DEF TurnType, ToSent
<1> QED  BY <1>1 DEF TurnType, Moves, ToSent

LEMMA ToEndMoves ==
  ASSUME NEW p \in TurnType, NEW d \in BOOLEAN, NEW h \in Seq(Nat), NEW o \in Seq(Nat)
  PROVE  LET q == ToEnd(p, d, h, o)
         IN  Moves(p, q) /\ q.pc = "save" /\ q.out = o /\ q.status = "completed"
<1> DEFINE q == ToEnd(p, d, h, o)
<1>1. q \in TurnType  BY DEF TurnType, ToEnd, Pcs
<1> QED  BY <1>1 DEF TurnType, Moves, ToEnd

LEMMA ToAnswerMoves ==
  ASSUME NEW p \in TurnType
  PROVE  LET q == ToAnswer(p) IN Moves(p, q) /\ q.pc = "save" /\ q.status = "completed"
<1> DEFINE q == ToAnswer(p)
<1>1. <<1>> \in Seq(Nat)  OBVIOUS
<1>2. q \in TurnType  BY <1>1 DEF TurnType, ToAnswer, Pcs
<1> QED  BY <1>2 DEF TurnType, Moves, ToAnswer

\* An event is in the channel, or its client is gone.
Sent(t, event) == \/ inbox' = [inbox EXCEPT ![t] = Append(@, event)]
                  \/ UNCHANGED inbox /\ t \in gone

\* What turn t adds to its answer, if anything, it sends.
Speaks(t, q) ==
  \E text \in Seq(Nat) :
    /\ q.out = turn[t].out \o text
    /\ \/ UNCHANGED inbox /\ text = <<>>
       \/ \E event \in EventType : event.text = text /\ event.type # "done" /\ Sent(t, event)

\* A step of an answer leaves the memory of the session alone.
Aside == UNCHANGED <<served, gone, state, messages, cache, steady>>

LEMMA Silence ==
  ASSUME TypeInv, NEW t \in Turns, NEW q \in TurnType, q.out = turn[t].out
  PROVE  /\ UNCHANGED inbox => Speaks(t, q)
         /\ \A event \in EventType :
              event.text = <<>> /\ event.type # "done" /\ Sent(t, event) => Speaks(t, q)
<1>1. turn[t].out \in Seq(Nat)  BY DEF TypeInv, TurnType
<1>2. <<>> \in Seq(Nat) /\ q.out = turn[t].out \o <<>>  BY <1>1, ConcatEmptySeq
<1> QED  BY <1>2 DEF Speaks

LEMMA EventTypes ==
  ASSUME NEW type \in {"session_id", "source", "error", "trace_snapshot", "done"}
  PROVE  /\ Event(type) \in EventType
         /\ Event(type).text = <<>> /\ Event(type).type = type
BY DEF Event, EventType

LEMMA AnswerDoes ==
  ASSUME TypeInv, NEW t \in Turns, Answer(t)
  PROVE  /\ Aside /\ UNCHANGED <<inbox, shown, traces>>
         /\ turn[t].pc = "answer" /\ turn[t].api = "chat"
         /\ \E q \in TurnType :
              /\ Turned(t, q) /\ Moves(turn[t], q)
              /\ \/ q.pc = "save" /\ q.status = "completed"
                 \/ q.pc = "closed" /\ Remembers(turn[t], q)
<1>1. turn[t] \in TurnType  BY DEF TypeInv
<1>2. /\ Aside /\ UNCHANGED <<inbox, shown, traces>>
      /\ turn[t].pc = "answer" /\ turn[t].api = "chat"
  BY DEF Answer, Aside
<1>3. Turned(t, ToAnswer(turn[t])) \/ Turned(t, To(turn[t], "closed"))
  BY DEF Answer, Goto, ToAnswer, To, Turned
<1>4. CASE Turned(t, ToAnswer(turn[t]))
  <2>1. Moves(turn[t], ToAnswer(turn[t])) /\ ToAnswer(turn[t]).pc = "save"
        /\ ToAnswer(turn[t]).status = "completed"
    BY <1>1, ToAnswerMoves
  <2> QED  BY <1>2, <1>4, <2>1 DEF Moves
<1>5. CASE Turned(t, To(turn[t], "closed"))
  <2>1. "closed" \in Pcs  BY DEF Pcs
  <2>2. Remembers(turn[t], To(turn[t], "closed")) /\ To(turn[t], "closed").pc = "closed"
    BY <1>1, <2>1, ToMoves
  <2> QED  BY <1>2, <1>5, <2>2 DEF Remembers, Moves
<1> QED  BY <1>3, <1>4, <1>5

LEMMA BeginDoes ==
  ASSUME TypeInv, NEW t \in Turns, BeginStream(t)
  PROVE  /\ Aside /\ UNCHANGED <<shown, traces>>
         /\ turn[t].pc = "answer" /\ turn[t].api = "stream"
         /\ \E q \in TurnType : /\ Turned(t, q) /\ Remembers(turn[t], q) /\ q.pc = "stream"
                                /\ Speaks(t, q)
<1> DEFINE q == To(turn[t], "stream")
<1>1. turn[t] \in TurnType  BY DEF TypeInv
<1>2. "stream" \in Pcs  BY DEF Pcs
<1>3. Remembers(turn[t], q) /\ q.pc = "stream"  BY <1>1, <1>2, ToMoves
<1>4. Turned(t, q) /\ (UNCHANGED inbox \/ Sent(t, Event("session_id")))
  BY DEF BeginStream, To, Turned, Put, Sent
<1> HIDE DEF q
<1>5. q \in TurnType /\ q.out = turn[t].out  BY <1>3 DEF Remembers, Moves
<1>6. Speaks(t, q)  BY <1>4, <1>5, Silence, EventTypes
<1> QED  BY <1>3, <1>4, <1>5, <1>6 DEF BeginStream, Aside

LEMMA FinishErrorDoes ==
  ASSUME TypeInv, NEW t \in Turns, FinishError(t)
  PROVE  /\ Aside /\ UNCHANGED <<shown, traces>>
         /\ turn[t].pc = "stream"
         /\ \E q \in TurnType : /\ Turned(t, q) /\ Moves(turn[t], q) /\ q.pc = "report"
                                /\ q.done = turn[t].done /\ Speaks(t, q)
<1> DEFINE q == ToStatus(turn[t], "report", "error")
<1>1. turn[t] \in TurnType  BY DEF TypeInv
<1>2. "report" \in Pcs  BY DEF Pcs
<1>3. Moves(turn[t], q) /\ q.pc = "report" /\ q.out = turn[t].out /\ q.done = turn[t].done
  BY <1>1, <1>2, ToStatusMoves
<1>4. Turned(t, q) /\ Sent(t, Event("error"))
  BY DEF FinishError, ToStatus, Turned, Put, TrySend, Sent
<1> HIDE DEF q
<1>5. q \in TurnType  BY <1>3 DEF Moves
<1>6. Speaks(t, q)  BY <1>3, <1>4, <1>5, Silence, EventTypes
<1> QED  BY <1>3, <1>4, <1>5, <1>6 DEF FinishError, Aside

LEMMA NoticeDoes ==
  ASSUME TypeInv, NEW t \in Turns, Notice(t)
  PROVE  /\ Aside /\ UNCHANGED <<shown, traces>>
         /\ turn[t].pc = "stream"
         /\ \E q \in TurnType : /\ Turned(t, q) /\ Moves(turn[t], q)
                                /\ q.pc \in {"stream", "closed"}
                                /\ q.done = turn[t].done /\ Speaks(t, q)
<1>1. turn[t] \in TurnType /\ turn[t].pc = "stream"  BY DEF TypeInv, Notice
<1>2. PICK x \in {"stream", "closed"}, st \in {"", "broken"}, type \in {"source", "error"} :
        Turned(t, ToNotice(turn[t], x, st)) /\ Sent(t, Event(type))
  <2>1. PICK type \in {"source", "error"}, sent \in TrySend(t) :
          /\ Put(t, sent, Event(type))
          /\ turn' = [turn EXCEPT ![t].count = 1, ![t].pc = IF sent THEN @ ELSE "closed",
                                  ![t].status = IF type = "error" THEN "broken" ELSE ""]
    BY DEF Notice, Yields
  <2> DEFINE x  == IF sent THEN "stream" ELSE "closed"
             st == IF type = "error" THEN "broken" ELSE ""
  <2>2. Turned(t, ToNotice(turn[t], x, st))  BY <1>1, <2>1 DEF ToNotice, Turned
  <2>3. Sent(t, Event(type))  BY <2>1 DEF Put, TrySend, Sent
  <2>4. x \in {"stream", "closed"} /\ st \in {"", "broken"}  OBVIOUS
  <2> HIDE DEF x, st
  <2> QED  BY <2>2, <2>3, <2>4
<1> DEFINE q == ToNotice(turn[t], x, st)
<1>3. x \in Pcs /\ st \in {"", "completed", "error", "broken"}  BY DEF Pcs
<1>4. Moves(turn[t], q) /\ q.pc = x /\ q.out = turn[t].out /\ q.done = turn[t].done
  BY <1>1, <1>3, ToNoticeMoves
<1>5. Turned(t, q) /\ Sent(t, Event(type))  BY <1>2
<1> HIDE DEF q
<1>6. q \in TurnType  BY <1>4 DEF Moves
<1>7. Speaks(t, q)  BY <1>4, <1>5, <1>6, Silence, EventTypes
<1> QED  BY <1>1, <1>4, <1>5, <1>6, <1>7 DEF Notice, Aside

LEMMA TurnParts ==
  ASSUME NEW p \in TurnType
  PROVE  /\ p.count \in Nat /\ p.held \in Seq(Nat) /\ p.out \in Seq(Nat)
         /\ p.count + 1 \in Nat /\ Append(p.held, p.count + 1) \in Seq(Nat)
<1>1. p.count \in Nat /\ p.held \in Seq(Nat) /\ p.out \in Seq(Nat)  BY DEF TurnType
<1>2. p.count + 1 \in Nat  BY <1>1
<1> QED  BY <1>1, <1>2, AppendProperties

LEMMA ChunkDoes ==
  ASSUME TypeInv, NEW t \in Turns, Chunk(t)
  PROVE  /\ Aside /\ UNCHANGED <<shown, traces>>
         /\ turn[t].pc = "stream"
         /\ \E q \in TurnType : /\ Turned(t, q) /\ Moves(turn[t], q)
                                /\ q.pc \in {"stream", "closed"}
                                /\ q.done = turn[t].done /\ Speaks(t, q)
<1>1. turn[t] \in TurnType /\ turn[t].pc = "stream"  BY DEF TypeInv, Chunk
<1>2. PICK n \in Nat : n = turn[t].count + 1  BY <1>1, TurnParts, Zenon
<1>3. PICK next \in Seq(Nat) : next = Append(turn[t].held, turn[t].count + 1)
  BY <1>1, TurnParts, Zenon
<1>4. turn[t].out \o next \in Seq(Nat)  BY <1>1, TurnParts, ConcatProperties
<1>5. PICK o \in Seq(Nat) : o = turn[t].out \o next  BY <1>4, Zenon
<1>6. <<>> \in Seq(Nat)  OBVIOUS
<1>7. PICK h \in Seq(Nat) : h = <<>>  BY <1>6, Zenon
<1>8. Aside /\ UNCHANGED <<shown, traces>>  BY DEF Chunk, Aside
<1>9. \/ turn' = [turn EXCEPT ![t] = [[turn[t] EXCEPT !.count = n] EXCEPT !.held = next]]
         /\ UNCHANGED inbox
      \/ \E sent \in TrySend(t) :
           /\ Put(t, sent, Content(next))
           /\ turn' = [turn EXCEPT ![t] = [[turn[t] EXCEPT !.count = n] EXCEPT
                         !.held = <<>>, !.out = @ \o next,
                         !.pc = IF sent THEN "stream" ELSE "closed"]]
  BY <1>2, <1>3 DEF Chunk
<1>10. CASE turn' = [turn EXCEPT ![t] = [[turn[t] EXCEPT !.count = n] EXCEPT !.held = next]]
            /\ UNCHANGED inbox
  <2> DEFINE q == ToHeld(turn[t], n, next)
  <2>1. Moves(turn[t], q) /\ q.pc = "stream" /\ q.out = turn[t].out /\ q.done = turn[t].done
    BY <1>1, ToHeldMoves
  <2>2. Turned(t, q)  BY <1>10 DEF Turned, ToHeld
  <2> HIDE DEF q
  <2>3. q \in TurnType  BY <2>1 DEF Moves
  <2>4. Speaks(t, q)  BY <1>10, <2>1, <2>3, Silence
  <2> QED  BY <1>1, <1>8, <2>1, <2>2, <2>3, <2>4
<1>11. ASSUME NEW sent \in TrySend(t), Put(t, sent, Content(next)),
              turn' = [turn EXCEPT ![t] = [[turn[t] EXCEPT !.count = n] EXCEPT
                         !.held = <<>>, !.out = @ \o next,
                         !.pc = IF sent THEN "stream" ELSE "closed"]]
       PROVE  \E q \in TurnType : /\ Turned(t, q) /\ Moves(turn[t], q)
                                  /\ q.pc \in {"stream", "closed"}
                                  /\ q.done = turn[t].done /\ Speaks(t, q)
  <2>1. PICK x \in {"stream", "closed"} : x = IF sent THEN "stream" ELSE "closed"  OBVIOUS
  <2>2. x \in Pcs  BY DEF Pcs
  <2> DEFINE q == ToSent(turn[t], x, n, h, o)
  <2>3. Moves(turn[t], q) /\ q.pc = x /\ q.out = o /\ q.done = turn[t].done
    BY <1>1, <2>2, ToSentMoves
  <2>4. Turned(t, q)  BY <1>1, <1>5, <1>7, <1>11, <2>1 DEF Turned, ToSent
  <2> HIDE DEF q
  <2>5. q \in TurnType  BY <2>3 DEF Moves
  <2>6. Sent(t, Content(next))  BY <1>11 DEF Put, TrySend, Sent
  <2>7. /\ Content(next) \in EventType /\ Content(next).text = next
        /\ Content(next).type # "done"
    BY DEF Content, EventType
  <2>8. Speaks(t, q)  BY <1>5, <2>3, <2>6, <2>7 DEF Speaks
  <2> QED  BY <2>3, <2>4, <2>5, <2>8
<1> QED  BY <1>1, <1>8, <1>9, <1>10, <1>11

LEMMA EndOfStreamDoes ==
  ASSUME TypeInv, NEW t \in Turns, EndOfStream(t)
  PROVE  /\ Aside /\ UNCHANGED <<shown, traces>>
         /\ turn[t].pc = "stream"
         /\ \E q \in TurnType : /\ Turned(t, q) /\ Moves(turn[t], q)
                                /\ q.pc = "save" /\ q.status = "completed" /\ Speaks(t, q)
<1>1. turn[t] \in TurnType /\ turn[t].pc = "stream"  BY DEF TypeInv, EndOfStream
<1>2. PICK d \in BOOLEAN : d = (turn[t].status # "broken")  OBVIOUS
<1>3. PICK held \in Seq(Nat) : held = turn[t].held  BY <1>1, TurnParts, Zenon
<1>4. turn[t].out \o held \in Seq(Nat)  BY <1>1, TurnParts, ConcatProperties
<1>5. PICK o \in Seq(Nat) : o = turn[t].out \o held  BY <1>4, Zenon
<1>6. <<>> \in Seq(Nat)  OBVIOUS
<1>7. PICK h \in Seq(Nat) : h = <<>>  BY <1>6, Zenon
<1> DEFINE q == ToEnd(turn[t], d, h, o)
<1>8. /\ Turned(t, q)
      /\ \/ held = <<>> /\ UNCHANGED inbox
         \/ \E sent \in TrySend(t) : Put(t, sent, Content(held))
  BY <1>2, <1>3, <1>5, <1>7 DEF EndOfStream, Turned, ToEnd
<1>9. Moves(turn[t], q) /\ q.pc = "save" /\ q.out = o /\ q.status = "completed"
  BY <1>1, ToEndMoves
<1> HIDE DEF q
<1>10. q \in TurnType  BY <1>9 DEF Moves
<1>11. /\ Content(held) \in EventType /\ Content(held).text = held
       /\ Content(held).type # "done"
  BY DEF Content, EventType
<1>12. (held = <<>> /\ UNCHANGED inbox) \/ Sent(t, Content(held))
  BY <1>8 DEF Put, TrySend, Sent
<1>13. Speaks(t, q)  BY <1>5, <1>9, <1>11, <1>12 DEF Speaks
<1>14. Aside /\ UNCHANGED <<shown, traces>>  BY DEF EndOfStream, Aside
<1> QED  BY <1>1, <1>8, <1>9, <1>10, <1>13, <1>14

LEMMA ReportDoes ==
  ASSUME TypeInv, NEW t \in Turns, Report(t)
  PROVE  /\ UNCHANGED <<gone, state, messages, cache, steady>>
         /\ turn[t].pc = "report" /\ traces' = [traces EXCEPT ![t] = turn[t].status]
         /\ \E q \in TurnType :
              /\ Turned(t, q) /\ Remembers(turn[t], q)
              /\ \/ /\ turn[t].api = "chat" /\ q.pc = "closed" /\ UNCHANGED inbox
                    /\ served' = IF t \in gone THEN served ELSE served \cup {t}
                    /\ shown' = IF t \in gone THEN shown ELSE [shown EXCEPT ![t] = turn[t].out]
                 \/ /\ turn[t].api # "chat" /\ q.pc = "finish" /\ Speaks(t, q)
                    /\ UNCHANGED <<served, shown>>
<1>1. turn[t] \in TurnType  BY DEF TypeInv
<1>2. /\ UNCHANGED <<gone, state, messages, cache, steady>>
      /\ turn[t].pc = "report" /\ traces' = [traces EXCEPT ![t] = turn[t].status]
  BY DEF Report
<1>3. "closed" \in Pcs /\ "finish" \in Pcs  BY DEF Pcs
<1>4. CASE turn[t].api = "chat"
  <2> DEFINE q == To(turn[t], "closed")
  <2>1. Remembers(turn[t], q) /\ q.pc = "closed"  BY <1>1, <1>3, ToMoves
  <2>2. /\ Turned(t, q) /\ UNCHANGED inbox
        /\ served' = IF t \in gone THEN served ELSE served \cup {t}
        /\ shown' = IF t \in gone THEN shown ELSE [shown EXCEPT ![t] = turn[t].out]
    BY <1>4 DEF Report, Goto, To, Turned
  <2> QED  BY <1>2, <1>4, <2>1, <2>2 DEF Remembers, Moves
<1>5. CASE turn[t].api # "chat"
  <2> DEFINE q == To(turn[t], "finish")
  <2>1. Remembers(turn[t], q) /\ q.pc = "finish"  BY <1>1, <1>3, ToMoves
  <2>2. Turned(t, q) /\ Sent(t, Event("trace_snapshot")) /\ UNCHANGED <<served, shown>>
    BY <1>5 DEF Report, Goto, To, Turned, Put, TrySend, Sent
  <2> HIDE DEF q
  <2>3. q \in TurnType /\ q.out = turn[t].out  BY <2>1 DEF Remembers, Moves
  <2>4. Speaks(t, q)  BY <2>2, <2>3, Silence, EventTypes
  <2> QED  BY <1>2, <1>5, <2>1, <2>2, <2>3, <2>4
<1> QED  BY <1>4, <1>5

LEMMA FinishDoes ==
  ASSUME TypeInv, NEW t \in Turns, FinishTurn(t)
  PROVE  /\ Aside /\ UNCHANGED <<shown, traces>>
         /\ turn[t].pc = "finish"
         /\ \E q \in TurnType : Turned(t, q) /\ Remembers(turn[t], q) /\ q.pc = "closed"
         /\ \/ turn[t].done /\ Sent(t, Event("done"))
            \/ UNCHANGED inbox
<1> DEFINE q == To(turn[t], "closed")
<1>1. turn[t] \in TurnType  BY DEF TypeInv
<1>2. "closed" \in Pcs  BY DEF Pcs
<1>3. Remembers(turn[t], q) /\ q.pc = "closed"  BY <1>1, <1>2, ToMoves
<1>4. Turned(t, q)  BY DEF FinishTurn, Goto, To, Turned
<1>5. (turn[t].done /\ Sent(t, Event("done"))) \/ UNCHANGED inbox
  BY DEF FinishTurn, Put, TrySend, Sent
<1> HIDE DEF q
<1> QED  BY <1>3, <1>4, <1>5 DEF FinishTurn, Aside, Remembers, Moves

LEMMA AskDoes ==
  ASSUME TypeInv, NEW t \in Turns, NEW request \in RequestsOf[t], AskTurn(t, request)
  PROVE  /\ UNCHANGED <<inbox, shown, served, gone, messages, cache, traces>>
         /\ turn[t].pc = "idle"
         /\ steady' = IF InSession(request.session) # {} THEN steady \ {request.session}
                      ELSE steady
         /\ \E q \in TurnType :
              /\ Turned(t, q) /\ q.api \in {"chat", "stream"} /\ q.session = request.session
              /\ q.out = <<>> /\ ~q.done
              /\ q.pc = IF request.session = NoSession THEN "answer" ELSE "memory"
<1>1. request \in TurnRequest  BY TurnsAssumption
<1>2. /\ request.api \in {"chat", "stream"} /\ request.agent \in BOOLEAN
      /\ request.session \in Sessions \cup {NoSession}
  BY <1>1 DEF TurnRequest
<1> DEFINE q == Begun(request)
<1>3. q \in TurnType
  <2>1. NoTurn \in TurnType  BY DEF NoTurn, TurnType, Pcs
  <2>2. PICK x \in Pcs : x = IF request.session = NoSession THEN "answer" ELSE "memory"  BY DEF Pcs
  <2>3. ASSUME NEW p \in TurnType, NEW a \in {"chat", "stream"}, NEW g \in BOOLEAN,
               NEW s \in Sessions \cup {NoSession}
        PROVE  ToAsk(p, x, a, g, s) \in TurnType
    BY DEF TurnType, ToAsk
  <2>4. ToAsk(NoTurn, x, request.api, request.agent, request.session) \in TurnType
    BY <1>2, <2>1, <2>3
  <2> QED  BY <2>2, <2>4 DEF Begun, ToAsk
<1>4. /\ q.api = request.api /\ q.session = request.session /\ q.out = <<>> /\ q.done = FALSE
      /\ q.pc = IF request.session = NoSession THEN "answer" ELSE "memory"
  BY DEF Begun, NoTurn
<1>5. Turned(t, q)  BY DEF AskTurn, Turned
<1> HIDE DEF q
<1> QED  BY <1>2, <1>3, <1>4, <1>5 DEF AskTurn

-----------------------------------------------------------------------------
(* Type correctness. *)

LEMMA TurnedType ==
  ASSUME TypeInv, NEW t \in Turns, NEW q \in TurnType, Turned(t, q), Placed(t, q)
  PROVE  /\ turn' \in [Turns -> TurnType] /\ \A u \in Turns : Placed(u, turn'[u])
         /\ turn'[t] = q /\ \A u \in Turns \ {t} : turn'[u] = turn[u]
<1>1. turn \in [Turns -> TurnType] /\ \A u \in Turns : Placed(u, turn[u])  BY DEF TypeInv
<1>2. /\ turn' \in [Turns -> TurnType]
      /\ turn'[t] = q /\ \A u \in Turns \ {t} : turn'[u] = turn[u]
  BY <1>1, TurnedIs
<1> QED  BY <1>1, <1>2

LEMMA SpeaksType ==
  ASSUME TypeInv, NEW t \in Turns, NEW q, Speaks(t, q)
  PROVE  inbox' \in [Turns -> Seq(EventType)]
<1>1. inbox \in [Turns -> Seq(EventType)]  BY DEF TypeInv
<1>2. ASSUME NEW event \in EventType, Sent(t, event)
      PROVE  inbox' \in [Turns -> Seq(EventType)]
  <2>1. Append(inbox[t], event) \in Seq(EventType)  BY <1>1, AppendProperties
  <2> QED  BY <1>1, <1>2, <2>1 DEF Sent
<1> QED  BY <1>1, <1>2 DEF Speaks

LEMMA TypeInit == TurnsInit => TypeInv
<1> SUFFICES ASSUME TurnsInit PROVE TypeInv  OBVIOUS
<1>1. NoTurn \in TurnType /\ \A t \in Turns : Placed(t, NoTurn)
  BY DEF NoTurn, TurnType, Pcs, Placed, Asking, Refreshing
<1>2. turn \in [Turns -> TurnType] /\ \A t \in Turns : Placed(t, turn[t])
  <2>1. turn = [t \in Turns |-> NoTurn]  BY DEF TurnsInit
  <2> QED  BY <1>1, <2>1
<1>3. inbox \in [Turns -> Seq(EventType)] /\ shown \in [Turns -> Seq(Nat)]
  <2>1. <<>> \in Seq(EventType)  OBVIOUS
  <2>2. <<>> \in Seq(Nat)  OBVIOUS
  <2>3. inbox = [t \in Turns |-> <<>>] /\ shown = [t \in Turns |-> <<>>]  BY DEF TurnsInit
  <2> QED  BY <2>1, <2>2, <2>3
<1>4. messages \in [Sessions -> Seq(MessageType)]
  <2>1. <<>> \in Seq(MessageType)  OBVIOUS
  <2>2. messages = [s \in Sessions |-> <<>>]  BY DEF TurnsInit
  <2> QED  BY <2>1, <2>2
<1>5. cache \in [Sessions -> Seq(MessageType) \cup {Miss}]
  <2>1. cache = [s \in Sessions |-> Miss]  BY DEF TurnsInit
  <2> QED  BY <2>1
<1> QED  BY <1>2, <1>3, <1>4, <1>5 DEF TurnsInit, TypeInv

LEMMA AnswerType ==
  ASSUME TypeInv, NEW t \in Turns, NEW q \in TurnType, Turned(t, q),
         q.pc \notin Asking \cup Refreshing, Aside, UNCHANGED <<shown, traces>>,
         Speaks(t, q) \/ UNCHANGED inbox
  PROVE  TypeInv'
<1>1. Placed(t, q)  BY DEF Placed
<1>2. turn' \in [Turns -> TurnType] /\ \A u \in Turns : Placed(u, turn'[u])
  BY <1>1, TurnedType
<1>3. inbox' \in [Turns -> Seq(EventType)]  BY SpeaksType DEF TypeInv
<1> QED  BY <1>2, <1>3 DEF TypeInv, Aside

LEMMA TypeStep ==
  ASSUME TypeInv, [TurnsNext]_turnVars
  PROVE  TypeInv'
<1> DEFINE Typed == turn' \in [Turns -> TurnType] /\ \A t \in Turns : Placed(t, turn'[t])
<1>1. CASE UNCHANGED turnVars  BY <1>1 DEF turnVars, TypeInv
<1>2. ASSUME NEW t \in Turns, NEW request \in RequestsOf[t], AskTurn(t, request)
      PROVE  TypeInv'
  <2>1. PICK q \in TurnType : /\ Turned(t, q) /\ q.session = request.session
                              /\ q.pc = IF request.session = NoSession THEN "answer" ELSE "memory"
    BY <1>2, AskDoes
  <2>2. request.session \in Sessions \cup {NoSession}  BY TurnsAssumption DEF TurnRequest
  <2>3. Placed(t, q)  BY <2>1, <2>2 DEF Placed, Asking, Refreshing
  <2>4. Typed  BY <2>1, <2>3, TurnedType
  <2>5. steady' \subseteq steady  BY <1>2, AskDoes
  <2> QED  BY <1>2, <2>4, <2>5, AskDoes DEF TypeInv
<1>3. ASSUME NEW t \in Turns, ReadCache(t)  PROVE TypeInv'
  <2>1. PICK q \in TurnType : /\ Turned(t, q) /\ Remembers(turn[t], q)
                              /\ q.pc \in {"ask", "memory_list"}
    BY <1>3, ReadCacheDoes
  <2>2. Placed(t, q)
    BY <1>3, <2>1, ReadCacheDoes DEF TypeInv, Placed, Remembers, Moves, Asking, Refreshing
  <2>3. Typed  BY <2>1, <2>2, TurnedType
  <2> QED  BY <1>3, <2>3, ReadCacheDoes DEF TypeInv, Elsewhere
<1>4. ASSUME NEW t \in Turns, ReadHistory(t)  PROVE TypeInv'
  <2>1. PICK q \in TurnType : /\ Turned(t, q) /\ Remembers(turn[t], q)
                              /\ q.pc \in {"ask", "memory_set"}
    BY <1>4, ReadHistoryDoes
  <2>2. Placed(t, q)
    BY <1>4, <2>1, ReadHistoryDoes DEF TypeInv, Placed, Remembers, Moves, Asking, Refreshing
  <2>3. Typed  BY <2>1, <2>2, TurnedType
  <2> QED  BY <1>4, <2>3, ReadHistoryDoes DEF TypeInv, Elsewhere
<1>5. ASSUME NEW t \in Turns, FillCache(t)  PROVE TypeInv'
  <2>1. PICK q \in TurnType : Turned(t, q) /\ Remembers(turn[t], q) /\ q.pc = "ask"
    BY <1>5, FillCacheDoes
  <2>2. Placed(t, q)
    BY <1>5, <2>1, FillCacheDoes DEF TypeInv, Placed, Remembers, Moves, Asking, Refreshing
  <2>3. Typed  BY <2>1, <2>2, TurnedType
  <2>4. cache' \in [Sessions -> Seq(MessageType) \cup {Miss}]
    <3>1. turn[t].read \in Seq(MessageType)  BY DEF TypeInv, TurnType
    <3> QED  BY <1>5, <3>1, FillCacheDoes DEF TypeInv
  <2> QED  BY <1>5, <2>3, <2>4, FillCacheDoes DEF TypeInv, Elsewhere
<1>6. ASSUME NEW t \in Turns, NEW m \in MessageType, NEW otherwise \in {"answer", "report"},
             m.turn = t, turn[t].session \in Sessions \cup {NoSession}, Saves(t, m, otherwise)
      PROVE  TypeInv'
  <2>1. PICK q \in TurnType :
          /\ Turned(t, q) /\ Remembers(turn[t], q)
          /\ \/ /\ q.pc = "refresh" /\ q.own = m /\ turn[t].session # NoSession
                /\ messages' = [messages EXCEPT ![turn[t].session] = Append(@, m)]
             \/ q.pc = otherwise /\ UNCHANGED messages
    BY <1>6 DEF Saves
  <2>2. Placed(t, q)
    BY <1>6, <2>1 DEF TypeInv, Placed, Remembers, Moves, Asking, Refreshing
  <2>3. Typed  BY <2>1, <2>2, TurnedType
  <2>4. messages' \in [Sessions -> Seq(MessageType)]
    <3>1. ASSUME NEW s \in Sessions
          PROVE  [messages EXCEPT ![s] = Append(@, m)] \in [Sessions -> Seq(MessageType)]
      <4>1. Append(messages[s], m) \in Seq(MessageType)  BY AppendProperties DEF TypeInv
      <4> QED  BY <4>1 DEF TypeInv
    <3>2. CASE turn[t].session \in Sessions  BY <2>1, <3>1, <3>2 DEF TypeInv
    <3>3. CASE turn[t].session = NoSession  BY <2>1, <3>3 DEF TypeInv
    <3> QED  BY <1>6, <3>2, <3>3
  <2> QED  BY <1>6, <2>3, <2>4 DEF TypeInv, Saves, Elsewhere
<1>7. ASSUME NEW t \in Turns, SaveQuestion(t)  PROVE TypeInv'
  <2>1. PICK m \in MessageType : m = Message(t, "user", <<>>)  BY <1>7, SaveQuestionDoes
  <2>2. m.turn = t  BY <2>1 DEF Message
  <2>3. Saves(t, m, "answer")  BY <1>7, <2>1, SaveQuestionDoes
  <2>4. turn[t].session \in Sessions \cup {NoSession}  BY DEF TypeInv, TurnType
  <2> QED  BY <1>6, <2>2, <2>3, <2>4
<1>8. ASSUME NEW t \in Turns, SaveAnswer(t)  PROVE TypeInv'
  <2>1. PICK m \in MessageType : m = Message(t, "assistant", turn[t].out)
    BY <1>8, SaveAnswerDoes
  <2>2. m.turn = t  BY <2>1 DEF Message
  <2>3. Saves(t, m, "report")  BY <1>8, <2>1, SaveAnswerDoes
  <2>4. turn[t].session \in Sessions \cup {NoSession}  BY DEF TypeInv, TurnType
  <2> QED  BY <1>6, <2>2, <2>3, <2>4
<1>9. ASSUME NEW t \in Turns, Refresh(t)  PROVE TypeInv'
  <2>1. PICK q \in TurnType : /\ Turned(t, q) /\ Remembers(turn[t], q) /\ q.own = turn[t].own
                              /\ q.pc \in {"reload", "refresh_set"}
    BY <1>9, RefreshDoes
  <2>2. Placed(t, q)
    BY <1>9, <2>1, RefreshDoes DEF TypeInv, Placed, Remembers, Moves, Asking, Refreshing
  <2>3. Typed  BY <2>1, <2>2, TurnedType
  <2> QED  BY <1>9, <2>3, RefreshDoes DEF TypeInv, Elsewhere
<1>10. ASSUME NEW t \in Turns, Reload(t)  PROVE TypeInv'
  <2>1. PICK q \in TurnType :
          /\ Turned(t, q) /\ Remembers(turn[t], q)
          /\ (q.pc = "refresh_set" /\ q.own = turn[t].own) \/ q.pc = After(turn[t])
    BY <1>10, ReloadDoes
  <2>2. Placed(t, q)
    BY <1>10, <2>1, ReloadDoes DEF TypeInv, Placed, Remembers, Moves, Asking, Refreshing, After
  <2>3. Typed  BY <2>1, <2>2, TurnedType
  <2>4. steady' \subseteq steady  BY <1>10, ReloadDoes
  <2> QED  BY <1>10, <2>3, <2>4, ReloadDoes DEF TypeInv, Elsewhere
<1>11. ASSUME NEW t \in Turns, RefreshSet(t)  PROVE TypeInv'
  <2>1. PICK q \in TurnType :
          Turned(t, q) /\ Remembers(turn[t], q) /\ q.pc = After(turn[t])
    BY <1>11, RefreshSetDoes
  <2>2. Placed(t, q)  BY <2>1 DEF Placed, Asking, Refreshing, After
  <2>3. Typed  BY <2>1, <2>2, TurnedType
  <2>4. steady' \subseteq steady  BY <1>11, RefreshSetDoes
  <2>5. cache' \in [Sessions -> Seq(MessageType) \cup {Miss}]
    <3>1. turn[t].read \in Seq(MessageType)  BY DEF TypeInv, TurnType
    <3> QED  BY <1>11, <3>1, RefreshSetDoes DEF TypeInv
  <2> QED  BY <1>11, <2>3, <2>4, <2>5, RefreshSetDoes DEF TypeInv, Elsewhere
<1>12. ASSUME NEW t \in Turns, Answer(t)  PROVE TypeInv'
  <2>1. PICK q \in TurnType : Turned(t, q) /\ q.pc \in {"save", "closed"}
    BY <1>12, AnswerDoes
  <2> QED  BY <1>12, <2>1, AnswerDoes, AnswerType DEF Asking, Refreshing
<1>13. ASSUME NEW t \in Turns, BeginStream(t)  PROVE TypeInv'
  <2>1. PICK q \in TurnType : Turned(t, q) /\ q.pc = "stream" /\ Speaks(t, q)
    BY <1>13, BeginDoes
  <2> QED  BY <1>13, <2>1, BeginDoes, AnswerType DEF Asking, Refreshing
<1>14. ASSUME NEW t \in Turns, FinishError(t)  PROVE TypeInv'
  <2>1. PICK q \in TurnType : Turned(t, q) /\ q.pc = "report" /\ Speaks(t, q)
    BY <1>14, FinishErrorDoes
  <2> QED  BY <1>14, <2>1, FinishErrorDoes, AnswerType DEF Asking, Refreshing
<1>15. ASSUME NEW t \in Turns, Notice(t)  PROVE TypeInv'
  <2>1. PICK q \in TurnType : Turned(t, q) /\ q.pc \in {"stream", "closed"} /\ Speaks(t, q)
    BY <1>15, NoticeDoes
  <2> QED  BY <1>15, <2>1, NoticeDoes, AnswerType DEF Asking, Refreshing
<1>16. ASSUME NEW t \in Turns, Chunk(t)  PROVE TypeInv'
  <2>1. PICK q \in TurnType : Turned(t, q) /\ q.pc \in {"stream", "closed"} /\ Speaks(t, q)
    BY <1>16, ChunkDoes
  <2> QED  BY <1>16, <2>1, ChunkDoes, AnswerType DEF Asking, Refreshing
<1>17. ASSUME NEW t \in Turns, EndOfStream(t)  PROVE TypeInv'
  <2>1. PICK q \in TurnType : Turned(t, q) /\ q.pc = "save" /\ Speaks(t, q)
    BY <1>17, EndOfStreamDoes
  <2> QED  BY <1>17, <2>1, EndOfStreamDoes, AnswerType DEF Asking, Refreshing
<1>18. ASSUME NEW t \in Turns, Report(t)  PROVE TypeInv'
  <2>1. PICK q \in TurnType :
          /\ Turned(t, q)
          /\ \/ /\ q.pc = "closed" /\ UNCHANGED inbox
                /\ served' = IF t \in gone THEN served ELSE served \cup {t}
                /\ shown' = IF t \in gone THEN shown ELSE [shown EXCEPT ![t] = turn[t].out]
             \/ q.pc = "finish" /\ Speaks(t, q) /\ UNCHANGED <<served, shown>>
    BY <1>18, ReportDoes
  <2>2. Placed(t, q)  BY <2>1 DEF Placed, Asking, Refreshing
  <2>3. Typed  BY <2>1, <2>2, TurnedType
  <2>4. inbox' \in [Turns -> Seq(EventType)]  BY <2>1, SpeaksType DEF TypeInv
  <2>5. shown' \in [Turns -> Seq(Nat)] /\ served' \subseteq Turns
    <3>1. turn[t].out \in Seq(Nat)  BY DEF TypeInv, TurnType
    <3> QED  BY <2>1, <3>1 DEF TypeInv
  <2>6. DOMAIN traces' = Turns  BY <1>18, ReportDoes DEF TypeInv
  <2> QED  BY <1>18, <2>3, <2>4, <2>5, <2>6, ReportDoes DEF TypeInv
<1>19. ASSUME NEW t \in Turns, FinishTurn(t)  PROVE TypeInv'
  <2>1. PICK q \in TurnType : Turned(t, q) /\ q.pc = "closed"  BY <1>19, FinishDoes
  <2>2. Placed(t, q)  BY <2>1 DEF Placed, Asking, Refreshing
  <2>3. Typed  BY <2>1, <2>2, TurnedType
  <2>4. inbox' \in [Turns -> Seq(EventType)]
    <3>1. inbox \in [Turns -> Seq(EventType)]  BY DEF TypeInv
    <3>2. Append(inbox[t], Event("done")) \in Seq(EventType)
      BY <3>1, EventTypes, AppendProperties
    <3> QED  BY <1>19, <3>1, <3>2, FinishDoes DEF Sent
  <2> QED  BY <1>19, <2>3, <2>4, FinishDoes DEF TypeInv, Aside
<1>20. ASSUME NEW t \in Turns, Receive(t)  PROVE TypeInv'
  <2>1. inbox[t] \in Seq(EventType) /\ inbox[t] # <<>> /\ shown[t] \in Seq(Nat)
    BY <1>20 DEF Receive, TypeInv
  <2>2. Head(inbox[t]) \in EventType /\ Tail(inbox[t]) \in Seq(EventType)
    BY <2>1, HeadTailProperties
  <2>3. Head(inbox[t]).text \in Seq(Nat)  BY <2>2 DEF EventType
  <2>4. shown[t] \o Head(inbox[t]).text \in Seq(Nat)  BY <2>1, <2>3, ConcatProperties
  <2>5. inbox' \in [Turns -> Seq(EventType)] /\ shown' \in [Turns -> Seq(Nat)]
    BY <1>20, <2>2, <2>4 DEF Receive, TypeInv
  <2>6. served' \subseteq Turns  BY <1>20 DEF Receive, TypeInv
  <2> QED  BY <1>20, <2>5, <2>6 DEF Receive, TypeInv
<1>21. ASSUME NEW t \in Turns, Disconnect(t)  PROVE TypeInv'
  BY <1>21 DEF Disconnect, TypeInv
<1>22. ASSUME NEW s \in Sessions, CreateSession(s)  PROVE TypeInv'
  BY <1>22 DEF CreateSession, TypeInv
<1>23. ASSUME NEW s \in Sessions, DeleteSession(s)  PROVE TypeInv'
  <2>1. cache' \in [Sessions -> Seq(MessageType) \cup {Miss}]
    BY <1>23 DEF DeleteSession, TypeInv
  <2>2. steady' \subseteq steady  BY <1>23 DEF DeleteSession
  <2> QED  BY <1>23, <2>1, <2>2 DEF DeleteSession, TypeInv
<1>24. ASSUME NEW s \in Sessions, Expire(s)  PROVE TypeInv'
  <2>1. cache' \in [Sessions -> Seq(MessageType) \cup {Miss}]
    BY <1>24 DEF Expire, TypeInv
  <2> QED  BY <1>24, <2>1 DEF Expire, TypeInv
<1>25. CASE TurnsOver  BY <1>1, <1>25 DEF TurnsOver
<1> QED
  BY <1>1, <1>2, <1>3, <1>4, <1>5, <1>7, <1>8, <1>9, <1>10, <1>11, <1>12, <1>13, <1>14, <1>15,
     <1>16, <1>17, <1>18, <1>19, <1>20, <1>21, <1>22, <1>23, <1>24, <1>25 DEF TurnsNext, Work

\* The records of turns, channels, rows and caches keep their shapes; a turn that is at work
\* on the memory of its session has one, and refreshes the cache with a row of its own.
THEOREM TypeCorrect ==
  TurnsSpec => []TypeInv
<1>1. TypeInv /\ [TurnsNext]_turnVars => TypeInv'  BY TypeStep
<1> QED  BY <1>1, TypeInit, PTL DEF TurnsSpec

-----------------------------------------------------------------------------
(* The cache of a session whose turns never overlapped. *)

LEMMA LastNIs ==
  ASSUME NEW s, NEW l \in Nat, Len(s) = l, NEW n \in Nat, NEW k \in Int
  PROVE  /\ l <= n => LastN(s, n) = SubSeq(s, 1, l)
         /\ l > n /\ k = l - n + 1 => LastN(s, n) = SubSeq(s, k, l)
<1>1. CASE l <= n
  <2>1. ~(l > n)  BY <1>1
  <2> QED  BY <2>1 DEF LastN
<1>2. CASE l > n  BY <1>2 DEF LastN
<1> QED  BY <1>1, <1>2

\* Adding a row to the last ones and keeping the last ones of that is keeping the last ones
\* of the whole: what refreshing a cache that holds something comes down to.
LEMMA LastOfAppended ==
  ASSUME NEW S, NEW s \in Seq(S), NEW e \in S, NEW n \in Nat \ {0}
  PROVE  LastN(Append(LastN(s, n), e), n) = LastN(Append(s, e), n)
<1> DEFINE l == Len(s)
           r == LastN(s, n)
           x == LastN(Append(r, e), n)
           y == LastN(Append(s, e), n)
<1>1. l \in Nat  BY LenProperties
<1>2. r \in Seq(S)  BY LastNType
<1>3. CASE l <= n
  <2>1. r = SubSeq(s, 1, l)  BY <1>1, <1>3, LastNIs
  <2>2. r = s
    <3>1. \A i \in 1..l : s[i] \in S  BY <1>1, ElementOfSeq
    <3>2. /\ Len(r) = l /\ \A i \in 1..l : r[i] = s[i]
      BY <1>1, <2>1, <3>1, SubSeqProperties
    <3> QED  BY <1>2, <3>2, SeqEqual
  <2> QED  BY <2>2
<1>4. CASE l > n
  <2>1. \A i \in 1..l : s[i] \in S  BY <1>1, ElementOfSeq
  <2>2. r = SubSeq(s, l - n + 1, l)  BY <1>4 DEF LastN
  <2>3. Len(r) = n /\ \A i \in 1..n : r[i] = s[l - n + i]
    <3> DEFINE m == l - n + 1
    <3>1. m \in 1..l+1 /\ m - 1 + n = l  BY <1>1, <1>4
    <3>2. \A i \in m..l : s[i] \in S  BY <2>1, <3>1
    <3> HIDE DEF m
    <3>3. /\ Len(SubSeq(s, m, l)) = l - m + 1
          /\ \A i \in 1..l - m + 1 : SubSeq(s, m, l)[i] = s[m + i - 1]
      BY <1>1, <3>1, <3>2, SubSeqProperties
    <3> QED  BY <1>1, <2>2, <3>1, <3>3 DEF m
  <2> DEFINE a == Append(r, e)
             b == Append(s, e)
  <2>4. /\ a \in Seq(S) /\ Len(a) = n + 1 /\ \A i \in 1..n : a[i] = r[i]
        /\ a[n + 1] = e
    BY <1>2, <2>3, AppendProperties
  <2>5. /\ b \in Seq(S) /\ Len(b) = l + 1 /\ \A i \in 1..l : b[i] = s[i]
        /\ b[l + 1] = e
    BY <1>1, AppendProperties
  <2>6. x = SubSeq(a, 2, n + 1) /\ y = SubSeq(b, l - n + 2, l + 1)
    <3> DEFINE k == l - n + 2
    <3>1. k \in Int /\ n + 1 > n /\ l + 1 > n /\ 2 = (n + 1) - n + 1 /\ k = (l + 1) - n + 1
      BY <1>1, <1>4
    <3> HIDE DEF a, b, k
    <3>2. n + 1 \in Nat /\ Len(a) = n + 1 /\ n \in Nat /\ 2 \in Int  BY <2>4
    <3>3. LastN(a, n) = SubSeq(a, 2, n + 1)  BY <3>1, <3>2, LastNIs
    <3>4. l + 1 \in Nat /\ Len(b) = l + 1  BY <1>1, <2>5
    <3>5. LastN(b, n) = SubSeq(b, k, l + 1)  BY <3>1, <3>2, <3>4, LastNIs
    <3> QED  BY <3>3, <3>5 DEF a, b, k
  <2> HIDE DEF a, b
  <2>7. \A i \in 2..n + 1 : a[i] \in S  BY <2>4, ElementOfSeq
  <2>8. \A i \in l - n + 2..l + 1 : b[i] \in S  BY <1>1, <1>4, <2>5, ElementOfSeq
  <2>9. /\ SubSeq(a, 2, n + 1) \in Seq(S) /\ Len(SubSeq(a, 2, n + 1)) = n
        /\ \A i \in 1..n : SubSeq(a, 2, n + 1)[i] = a[i + 1]
    BY <2>4, <2>7, SubSeqProperties
  <2>10. /\ SubSeq(b, l - n + 2, l + 1) \in Seq(S) /\ Len(SubSeq(b, l - n + 2, l + 1)) = n
         /\ \A i \in 1..n : SubSeq(b, l - n + 2, l + 1)[i] = b[l - n + 1 + i]
    <3> DEFINE m == l - n + 2
    <3>1. m \in Nat /\ m >= 1 /\ m <= l + 2 /\ m - 2 + n = l  BY <1>1, <1>4
    <3>2. \A i \in m..l + 1 : b[i] \in S  BY <2>8
    <3> HIDE DEF m
    <3>3. /\ SubSeq(b, m, l + 1) \in Seq(S)
          /\ Len(SubSeq(b, m, l + 1)) = l + 1 - m + 1
          /\ \A i \in 1..l + 1 - m + 1 : SubSeq(b, m, l + 1)[i] = b[m + i - 1]
      BY <1>1, <2>5, <3>1, <3>2, SubSeqProperties
    <3> QED  BY <1>1, <3>1, <3>3 DEF m
  <2>11. \A i \in 1..n : a[i + 1] = b[l - n + 1 + i]
    <3> SUFFICES ASSUME NEW i \in 1..n PROVE a[i + 1] = b[l - n + 1 + i]  OBVIOUS
    <3>1. CASE i = n  BY <1>1, <2>4, <2>5, <3>1
    <3>2. CASE i < n
      <4>1. i + 1 \in 1..n /\ l - n + 1 + i \in 1..l  BY <1>1, <1>4, <3>2
      <4>2. a[i + 1] = r[i + 1] /\ b[l - n + 1 + i] = s[l - n + 1 + i]  BY <2>4, <2>5, <4>1
      <4>3. r[i + 1] = s[l - n + (i + 1)]  BY <2>3, <4>1
      <4>4. l - n + (i + 1) = l - n + 1 + i  BY <1>1
      <4> QED  BY <4>2, <4>3, <4>4
    <3> QED  BY <3>1, <3>2
  <2>12. \A i \in 1..n : x[i] = y[i]  BY <2>6, <2>9, <2>10, <2>11
  <2>13. x \in Seq(S) /\ y \in Seq(S) /\ Len(x) = n /\ Len(y) = n  BY <2>6, <2>9, <2>10
  <2> HIDE DEF x, y
  <2> QED  BY <2>12, <2>13, SeqEqual DEF x, y
<1> QED  BY <1>1, <1>3, <1>4

\* A step of turn t on its session keeps the cache as it should be, if it does so for the
\* record of the turn itself: every other turn is at work on a session of its own.
LEMMA CachesKept ==
  ASSUME TypeInv, CacheInv, NEW t \in Turns, NEW q \in TurnType, NEW s,
         Turned(t, q), Moves(turn[t], q), turn[t].pc \notin {"idle", "closed"}, q.pc # "idle",
         s = turn[t].session, steady' \subseteq steady,
         \A r \in Sessions \ {s} : messages'[r] = messages[r] /\ cache'[r] = cache[r],
         s \in steady' /\ Caches(turn[t], messages[s], cache[s]) =>
           Caches(q, messages'[s], cache'[s])
  PROVE  CacheInv'
<1>1. turn \in [Turns -> TurnType] /\ steady \subseteq Sessions  BY DEF TypeInv
<1>2. turn'[t] = q /\ \A u \in Turns \ {t} : turn'[u] = turn[u]  BY <1>1, TurnedIs
<1>3. q.session = s  BY DEF Moves
<1>4. ASSUME NEW r \in steady'
      PROVE  /\ \A u, v \in InSession(r)' : u = v
             /\ InSession(r)' = {} => Recent(cache'[r], messages'[r])
             /\ \A u \in InSession(r)' : Caches(turn'[u], messages'[r], cache'[r])
  <2>1. r \in steady /\ r \in Sessions  BY <1>1
  <2>2. /\ \A u, v \in InSession(r) : u = v
        /\ InSession(r) = {} => Recent(cache[r], messages[r])
        /\ \A u \in InSession(r) : Caches(turn[u], messages[r], cache[r])
    BY <2>1 DEF CacheInv
  <2>3. CASE r # s
    <3>1. InSession(r)' = InSession(r) /\ t \notin InSession(r)
      BY <1>2, <1>3, <2>3 DEF InSession
    <3>2. messages'[r] = messages[r] /\ cache'[r] = cache[r]  BY <2>1, <2>3
    <3>3. \A u \in InSession(r) : turn'[u] = turn[u]  BY <1>2, <3>1 DEF InSession
    <3> QED  BY <2>2, <3>1, <3>2, <3>3
  <2>4. CASE r = s
    <3>1. t \in InSession(r)  BY <2>4 DEF InSession
    <3>2. InSession(r) = {t}  BY <2>2, <3>1
    <3>3. InSession(r)' = IF q.pc = "closed" THEN {} ELSE {t}
      <4>1. \A u \in Turns \ {t} : u \notin InSession(r)'  BY <1>2, <3>2 DEF InSession
      <4>2. t \in InSession(r)' <=> q.pc # "closed"  BY <1>2, <1>3, <2>4 DEF InSession
      <4>3. InSession(r)' \subseteq Turns  BY DEF InSession
      <4> QED  BY <4>1, <4>2, <4>3
    <3>4. Caches(turn[t], messages[s], cache[s])  BY <2>2, <2>4, <3>1
    <3>5. Caches(q, messages'[r], cache'[r])  BY <1>4, <2>4, <3>4
    <3>6. q.pc = "closed" => Recent(cache'[r], messages'[r])  BY <3>5 DEF Caches
    <3> QED  BY <1>2, <3>3, <3>5, <3>6
  <2> QED  BY <2>3, <2>4
<1> QED  BY <1>4 DEF CacheInv

\* A step of an answer leaves the memory of the session alone.
LEMMA CachesAside ==
  ASSUME TypeInv, CacheInv, NEW t \in Turns, NEW q \in TurnType,
         Turned(t, q), Moves(turn[t], q), turn[t].pc \notin {"idle", "closed"}, q.pc # "idle",
         turn[t].pc \notin {"refresh", "reload", "refresh_set"},
         q.pc \notin {"memory_set", "refresh", "reload", "refresh_set"},
         UNCHANGED <<messages, cache, steady>>
  PROVE  CacheInv'
<1> DEFINE s == turn[t].session
<1>1. Caches(turn[t], messages[s], cache[s]) => Caches(q, messages'[s], cache'[s])
  BY DEF Caches
<1> HIDE DEF s
<1> QED  BY <1>1, CachesKept DEF s

LEMMA CacheInit == TurnsInit => CacheInv
<1> SUFFICES ASSUME TurnsInit, NEW s \in steady
             PROVE  InSession(s) = {} /\ Recent(cache[s], messages[s])
  BY DEF CacheInv
<1>1. turn = [t \in Turns |-> NoTurn] /\ cache = [r \in Sessions |-> Miss] /\ s \in Sessions
  BY DEF TurnsInit
<1> QED  BY <1>1 DEF InSession, NoTurn, Recent

\* The same when no turn takes a step: every cache stays, or is emptied, or is given up on.
LEMMA CachesStay ==
  ASSUME CacheInv, UNCHANGED <<turn, messages>>, steady' \subseteq steady,
         \A s \in steady' : cache'[s] = cache[s] \/ cache'[s] = Miss
  PROVE  CacheInv'
<1> SUFFICES ASSUME NEW s \in steady'
             PROVE  /\ \A u, v \in InSession(s)' : u = v
                    /\ InSession(s)' = {} => Recent(cache'[s], messages'[s])
                    /\ \A u \in InSession(s)' : Caches(turn'[u], messages'[s], cache'[s])
  BY DEF CacheInv
<1>1. /\ \A u, v \in InSession(s) : u = v
      /\ InSession(s) = {} => Recent(cache[s], messages[s])
      /\ \A u \in InSession(s) : Caches(turn[u], messages[s], cache[s])
  BY DEF CacheInv
<1>2. InSession(s)' = InSession(s)  BY DEF InSession
<1>3. CASE cache'[s] = cache[s]  BY <1>1, <1>2, <1>3
<1>4. CASE cache'[s] = Miss
  <2>1. ASSUME NEW u \in InSession(s) PROVE Caches(turn[u], messages[s], Miss)
    BY <1>1, <2>1 DEF Caches, Recent
  <2> QED  BY <1>1, <1>2, <1>4, <2>1 DEF Recent
<1> QED  BY <1>3, <1>4

LEMMA CacheAsk ==
  ASSUME TypeInv, CacheInv, NEW t \in Turns, NEW request \in RequestsOf[t],
         AskTurn(t, request)
  PROVE  CacheInv'
<1> DEFINE s == request.session
<1>1. PICK q \in TurnType : /\ Turned(t, q) /\ q.session = s
                            /\ q.pc = IF s = NoSession THEN "answer" ELSE "memory"
  BY AskDoes
<1>2. /\ UNCHANGED <<messages, cache>> /\ turn[t].pc = "idle"
      /\ steady' = IF InSession(s) # {} THEN steady \ {s} ELSE steady
  BY AskDoes
<1>3. turn \in [Turns -> TurnType] /\ steady \subseteq Sessions /\ NoSession \notin Sessions
  BY TurnsAssumption DEF TypeInv
<1>4. turn'[t] = q /\ \A u \in Turns \ {t} : turn'[u] = turn[u]  BY <1>1, <1>3, TurnedIs
<1> HIDE DEF s
<1>5. ASSUME NEW r \in steady'
      PROVE  /\ \A u, v \in InSession(r)' : u = v
             /\ InSession(r)' = {} => Recent(cache'[r], messages'[r])
             /\ \A u \in InSession(r)' : Caches(turn'[u], messages'[r], cache'[r])
  <2>1. r \in steady /\ r \in Sessions /\ (r = s => InSession(s) = {})  BY <1>2, <1>3
  <2>2. /\ \A u, v \in InSession(r) : u = v
        /\ InSession(r) = {} => Recent(cache[r], messages[r])
        /\ \A u \in InSession(r) : Caches(turn[u], messages[r], cache[r])
    BY <2>1 DEF CacheInv
  <2>3. t \notin InSession(r)  BY <1>2 DEF InSession
  <2>4. CASE r # s
    <3>1. InSession(r)' = InSession(r)  BY <1>1, <1>4, <2>3, <2>4 DEF InSession
    <3>2. \A u \in InSession(r) : turn'[u] = turn[u]  BY <1>4, <2>3 DEF InSession
    <3> QED  BY <1>2, <2>2, <3>1, <3>2
  <2>5. CASE r = s
    <3>1. InSession(r)' \subseteq {t}  BY <1>4, <2>1, <2>5 DEF InSession
    <3>2. q.pc = "memory"  BY <1>1, <1>3, <2>1, <2>5
    <3>3. Recent(cache[r], messages[r])  BY <2>1, <2>2, <2>5
    <3>4. Caches(q, messages[r], cache[r])  BY <3>2, <3>3 DEF Caches
    <3> QED  BY <1>2, <1>4, <3>1, <3>3, <3>4
  <2> QED  BY <2>4, <2>5
<1> QED  BY <1>5 DEF CacheInv

\* A row is added: the cache of its session, as recent as the table was, is one behind.
LEMMA CacheSaves ==
  ASSUME TypeInv, CacheInv, NEW t \in Turns, NEW m \in MessageType,
         turn[t].pc \in {"ask", "save"}, NEW otherwise \in {"answer", "report"},
         Saves(t, m, otherwise)
  PROVE  CacheInv'
<1>1. PICK q \in TurnType :
        /\ Turned(t, q) /\ Remembers(turn[t], q)
        /\ \/ /\ q.pc = "refresh" /\ q.own = m
              /\ messages' = [messages EXCEPT ![turn[t].session] = Append(@, m)]
           \/ q.pc = otherwise /\ UNCHANGED messages
  BY DEF Saves
<1>2. /\ UNCHANGED <<cache, steady>> /\ q.pc # "idle"
      /\ steady \subseteq Sessions /\ messages \in [Sessions -> Seq(MessageType)]
  BY <1>1 DEF Saves, TypeInv
<1> DEFINE s == turn[t].session
<1> HIDE DEF s
<1>3. \A r \in Sessions \ {s} : messages'[r] = messages[r] /\ cache'[r] = cache[r]
  BY <1>1, <1>2 DEF s
<1>4. ASSUME s \in steady', Caches(turn[t], messages[s], cache[s])
      PROVE  Caches(q, messages'[s], cache'[s])
  <2>1. s \in Sessions /\ messages[s] \in Seq(MessageType)  BY <1>2, <1>4
  <2>2. Recent(cache[s], messages[s])  BY <1>4 DEF Caches
  <2>3. CASE q.pc = "refresh" /\ q.own = m
             /\ messages' = [messages EXCEPT ![turn[t].session] = Append(@, m)]
    <3>1. messages'[s] = Append(messages[s], q.own)  BY <1>2, <2>1, <2>3 DEF s
    <3>2. cache'[s] = Miss \/ cache'[s] = LastN(messages[s], Limit)
      BY <1>2, <2>2 DEF Recent
    <3> QED  BY <2>1, <2>3, <3>1, <3>2 DEF Caches
  <2>4. CASE q.pc = otherwise /\ UNCHANGED messages
    BY <1>2, <2>2, <2>4 DEF Caches
  <2> QED  BY <1>1, <2>3, <2>4
<1>5. Moves(turn[t], q)  BY <1>1 DEF Remembers
<1> QED  BY <1>1, <1>2, <1>3, <1>4, <1>5, CachesKept DEF s

LEMMA CacheMemory ==
  ASSUME TypeInv, CacheInv, NEW t \in Turns,
         ReadCache(t) \/ ReadHistory(t) \/ FillCache(t)
  PROVE  CacheInv'
<1>1. CASE ReadCache(t)
  <2>1. PICK q \in TurnType : /\ Turned(t, q) /\ Moves(turn[t], q)
                              /\ q.pc \in {"ask", "memory_list"}
    BY <1>1, ReadCacheDoes DEF Remembers
  <2>2. turn[t].pc = "memory" /\ UNCHANGED <<messages, cache, steady>>
    BY <1>1, ReadCacheDoes
  <2> QED  BY <2>1, <2>2, CachesAside
<1>2. CASE ReadHistory(t)
  <2> DEFINE s == turn[t].session
  <2>1. PICK q \in TurnType :
          /\ Turned(t, q) /\ Moves(turn[t], q) /\ q.pc \in {"ask", "memory_set"}
          /\ q.pc = "memory_set" => q.read = LastN(messages[s], Limit)
    BY <1>2, ReadHistoryDoes DEF Remembers
  <2>2. turn[t].pc = "memory_list" /\ UNCHANGED <<messages, cache, steady>>
    BY <1>2, ReadHistoryDoes
  <2> HIDE DEF s
  <2>3. Caches(turn[t], messages[s], cache[s]) => Caches(q, messages'[s], cache'[s])
    BY <2>1, <2>2 DEF Caches
  <2> QED  BY <2>1, <2>2, <2>3, CachesKept DEF s
<1>3. CASE FillCache(t)
  <2> DEFINE s == turn[t].session
  <2>1. PICK q \in TurnType : Turned(t, q) /\ Moves(turn[t], q) /\ q.pc = "ask"
    BY <1>3, FillCacheDoes DEF Remembers
  <2>2. /\ turn[t].pc = "memory_set" /\ UNCHANGED <<messages, steady>>
        /\ cache' = cache \/ cache' = [cache EXCEPT ![s] = turn[t].read]
    BY <1>3, FillCacheDoes
  <2>3. cache \in [Sessions -> Seq(MessageType) \cup {Miss}] /\ steady \subseteq Sessions
    BY DEF TypeInv
  <2> HIDE DEF s
  <2>4. \A r \in Sessions \ {s} : messages'[r] = messages[r] /\ cache'[r] = cache[r]
    BY <2>2, <2>3
  <2>5. ASSUME s \in steady', Caches(turn[t], messages[s], cache[s])
        PROVE  Caches(q, messages'[s], cache'[s])
    <3>1. Recent(cache[s], messages[s]) /\ turn[t].read = LastN(messages[s], Limit)
      BY <2>2, <2>5 DEF Caches
    <3>2. cache'[s] = cache[s] \/ cache'[s] = turn[t].read  BY <2>2, <2>3, <2>5
    <3>3. Recent(cache'[s], messages[s])  BY <3>1, <3>2 DEF Recent
    <3> QED  BY <2>1, <2>2, <3>3 DEF Caches
  <2> QED  BY <2>1, <2>2, <2>4, <2>5, CachesKept DEF s
<1> QED  BY <1>1, <1>2, <1>3

\* Refreshing the cache catches up with the table: a hit appends the row to the last ones, a
\* miss reads them again, and a refresh that is lost is not counted on.
LEMMA CacheRefresh ==
  ASSUME TypeInv, CacheInv, NEW t \in Turns,
         Refresh(t) \/ Reload(t) \/ RefreshSet(t)
  PROVE  CacheInv'
<1> DEFINE s == turn[t].session
<1>1. /\ cache \in [Sessions -> Seq(MessageType) \cup {Miss}] /\ steady \subseteq Sessions
      /\ \A p \in TurnType : After(p) \in {"answer", "report"}
  BY DEF TypeInv, After
<1>2. CASE Refresh(t)
  <2>1. PICK q \in TurnType :
          /\ Turned(t, q) /\ Moves(turn[t], q) /\ q.own = turn[t].own
          /\ \/ q.pc = "reload"
             \/ /\ q.pc = "refresh_set" /\ cache[s] # Miss
                /\ q.read = LastN(Append(cache[s], turn[t].own), Limit)
    BY <1>2, RefreshDoes DEF Remembers
  <2>2. turn[t].pc = "refresh" /\ UNCHANGED <<messages, cache, steady>>
    BY <1>2, RefreshDoes
  <2>3. turn[t].own \in MessageType  BY <2>2 DEF TypeInv, Placed, Refreshing
  <2> HIDE DEF s
  <2>4. ASSUME Caches(turn[t], messages[s], cache[s])
        PROVE  Caches(q, messages'[s], cache'[s])
    <3>1. cache[s] = Miss \/ \E old \in Seq(MessageType) :
            messages[s] = Append(old, turn[t].own) /\ cache[s] = LastN(old, Limit)
      BY <2>2, <2>4 DEF Caches
    <3>2. CASE q.pc = "reload"  BY <2>1, <2>2, <3>1, <3>2 DEF Caches
    <3>3. CASE /\ q.pc = "refresh_set" /\ cache[s] # Miss
               /\ q.read = LastN(Append(cache[s], turn[t].own), Limit)
      <4>1. PICK old \in Seq(MessageType) :
              messages[s] = Append(old, turn[t].own) /\ cache[s] = LastN(old, Limit)
        BY <3>1, <3>3
      <4>2. Limit \in Nat \ {0}  BY TurnsAssumption
      <4>3. LastN(Append(LastN(old, Limit), turn[t].own), Limit)
              = LastN(Append(old, turn[t].own), Limit)
        BY <2>3, <4>2, LastOfAppended
      <4>4. q.read = LastN(messages[s], Limit)  BY <3>3, <4>1, <4>3
      <4> QED  BY <2>2, <3>3, <4>4 DEF Caches
    <3> QED  BY <2>1, <3>2, <3>3
  <2> QED  BY <2>1, <2>2, <2>4, CachesKept DEF s
<1>3. CASE Reload(t)
  <2>1. PICK q \in TurnType :
          /\ Turned(t, q) /\ Moves(turn[t], q)
          /\ \/ /\ q.pc = "refresh_set" /\ UNCHANGED steady
                /\ q.read = LastN(messages[s], Limit)
             \/ q.pc = After(turn[t]) /\ steady' = steady \ {s}
    BY <1>3, ReloadDoes DEF Remembers
  <2>2. turn[t].pc = "reload" /\ UNCHANGED <<messages, cache>>  BY <1>3, ReloadDoes
  <2> HIDE DEF s
  <2>3. s \in steady' => Caches(q, messages'[s], cache'[s])
    BY <2>1, <2>2 DEF Caches
  <2>4. steady' \subseteq steady /\ q.pc # "idle"
    BY <2>1 DEF After
  <2> QED  BY <2>1, <2>2, <2>3, <2>4, CachesKept DEF s
<1>4. CASE RefreshSet(t)
  <2>1. PICK q \in TurnType : Turned(t, q) /\ Moves(turn[t], q) /\ q.pc = After(turn[t])
    BY <1>4, RefreshSetDoes DEF Remembers
  <2>2. /\ turn[t].pc = "refresh_set" /\ UNCHANGED messages
        /\ \/ cache' = [cache EXCEPT ![s] = turn[t].read] /\ UNCHANGED steady
           \/ UNCHANGED cache /\ steady' = steady \ {s}
    BY <1>4, RefreshSetDoes
  <2> HIDE DEF s
  <2>3. ASSUME s \in steady', Caches(turn[t], messages[s], cache[s])
        PROVE  Caches(q, messages'[s], cache'[s])
    <3>1. cache'[s] = turn[t].read  BY <1>1, <2>2, <2>3
    <3>2. turn[t].read = LastN(messages[s], Limit)  BY <2>2, <2>3 DEF Caches
    <3>3. q.pc \in {"answer", "report"}  BY <2>1 DEF After
    <3> QED  BY <2>2, <3>1, <3>2, <3>3 DEF Caches, Recent
  <2>4. /\ \A r \in Sessions \ {s} : messages'[r] = messages[r] /\ cache'[r] = cache[r]
        /\ steady' \subseteq steady /\ q.pc # "idle"
    BY <1>1, <2>1, <2>2 DEF After
  <2> QED  BY <2>1, <2>2, <2>3, <2>4, CachesKept DEF s
<1> QED  BY <1>2, <1>3, <1>4

\* The steps of an answer, whatever they send.
LEMMA CacheAnswer ==
  ASSUME TypeInv, CacheInv, NEW t \in Turns,
         \/ Answer(t) \/ BeginStream(t) \/ FinishError(t) \/ Chunk(t) \/ Notice(t)
         \/ EndOfStream(t) \/ Report(t) \/ FinishTurn(t)
  PROVE  CacheInv'
<1> DEFINE Steps == \E q \in TurnType :
              /\ Turned(t, q) /\ Moves(turn[t], q)
              /\ q.pc \in {"stream", "save", "report", "finish", "closed"}
<1>1. /\ turn[t].pc \in {"answer", "stream", "report", "finish"}
      /\ UNCHANGED <<messages, cache, steady>>
      /\ Steps
  <2>1. CASE Answer(t)  BY <2>1, AnswerDoes DEF Aside, Remembers
  <2>2. CASE BeginStream(t)  BY <2>2, BeginDoes DEF Aside, Remembers
  <2>3. CASE FinishError(t)  BY <2>3, FinishErrorDoes DEF Aside
  <2>4. CASE Chunk(t)  BY <2>4, ChunkDoes DEF Aside
  <2>5. CASE Notice(t)  BY <2>5, NoticeDoes DEF Aside
  <2>6. CASE EndOfStream(t)  BY <2>6, EndOfStreamDoes DEF Aside
  <2>7. CASE Report(t)  BY <2>7, ReportDoes DEF Remembers
  <2>8. CASE FinishTurn(t)  BY <2>8, FinishDoes DEF Aside, Remembers
  <2> QED  BY <2>1, <2>2, <2>3, <2>4, <2>5, <2>6, <2>7, <2>8
<1>2. PICK q \in TurnType : /\ Turned(t, q) /\ Moves(turn[t], q)
                            /\ q.pc \in {"stream", "save", "report", "finish", "closed"}
  BY <1>1
<1> QED  BY <1>1, <1>2, CachesAside

LEMMA CacheStep ==
  ASSUME TypeInv, CacheInv, [TurnsNext]_turnVars
  PROVE  CacheInv'
<1>1. CASE UNCHANGED turnVars  BY <1>1, CachesStay DEF turnVars
<1>2. ASSUME NEW t \in Turns, NEW request \in RequestsOf[t], AskTurn(t, request)
      PROVE  CacheInv'
  BY <1>2, CacheAsk
<1>3. ASSUME NEW t \in Turns, Work(t)  PROVE CacheInv'
  <2>1. CASE ReadCache(t) \/ ReadHistory(t) \/ FillCache(t)  BY <2>1, CacheMemory
  <2>2. CASE SaveQuestion(t)
    <3>1. turn[t].pc = "ask"  BY <2>2, SaveQuestionDoes
    <3>2. PICK m \in MessageType : Saves(t, m, "answer")  BY <2>2, SaveQuestionDoes
    <3> QED  BY <3>1, <3>2, CacheSaves
  <2>3. CASE SaveAnswer(t)
    <3>1. turn[t].pc = "save"  BY <2>3, SaveAnswerDoes
    <3>2. PICK m \in MessageType : Saves(t, m, "report")  BY <2>3, SaveAnswerDoes
    <3> QED  BY <3>1, <3>2, CacheSaves
  <2>4. CASE Refresh(t) \/ Reload(t) \/ RefreshSet(t)  BY <2>4, CacheRefresh
  <2>5. CASE \/ Answer(t) \/ BeginStream(t) \/ FinishError(t) \/ Chunk(t) \/ Notice(t)
             \/ EndOfStream(t) \/ Report(t) \/ FinishTurn(t)
    BY <2>5, CacheAnswer
  <2> QED  BY <1>3, <2>1, <2>2, <2>3, <2>4, <2>5 DEF Work
<1>4. ASSUME NEW t \in Turns, Receive(t) \/ Disconnect(t)  PROVE CacheInv'
  BY <1>4, CachesStay DEF Receive, Disconnect
<1>5. ASSUME NEW s \in Sessions, CreateSession(s)  PROVE CacheInv'
  BY <1>5, CachesStay DEF CreateSession
<1>6. ASSUME NEW s \in Sessions, DeleteSession(s)  PROVE CacheInv'
  <2>1. cache \in [Sessions -> Seq(MessageType) \cup {Miss}] /\ steady \subseteq Sessions
    BY DEF TypeInv
  <2>2. \A r \in steady' : cache'[r] = cache[r]  BY <1>6, <2>1 DEF DeleteSession
  <2> QED  BY <1>6, <2>2, CachesStay DEF DeleteSession
<1>7. ASSUME NEW s \in Sessions, Expire(s)  PROVE CacheInv'
  <2>1. cache \in [Sessions -> Seq(MessageType) \cup {Miss}] /\ steady \subseteq Sessions
    BY DEF TypeInv
  <2>2. \A r \in steady : cache'[r] = cache[r] \/ cache'[r] = Miss  BY <1>7, <2>1 DEF Expire
  <2> QED  BY <1>7, <2>2, CachesStay DEF Expire
<1>8. CASE TurnsOver  BY <1>1, <1>8 DEF TurnsOver
<1> QED  BY <1>1, <1>2, <1>3, <1>4, <1>5, <1>6, <1>7, <1>8 DEF TurnsNext

\* Whenever no turn is at work on a session whose turns never overlapped, and whose refreshes
\* were not lost, what its cache holds are the last rows of its table (refreshSessionCache
\* and getShortTermMessages, for any number of turns, sessions and rows).
THEOREM CacheCorrect ==
  TurnsSpec => []CacheIsRecent
<1>1. TypeInv /\ CacheInv /\ [TurnsNext]_turnVars => TypeInv' /\ CacheInv'
  BY TypeStep, CacheStep
<1>2. TurnsInit => TypeInv /\ CacheInv  BY TypeInit, CacheInit
<1>3. CacheInv => CacheIsRecent  BY DEF CacheInv, CacheIsRecent, Recent
<1> QED  BY <1>1, <1>2, <1>3, PTL DEF TurnsSpec

-----------------------------------------------------------------------------
(* What flows from a turn to its client. *)

LEMMA FlowsNone ==
  ASSUME NEW text \in Seq(Nat), NEW box, box = <<>>
  PROVE  Flows(text, box, text)
<1> DEFINE f == [i \in 0..0 |-> text]
<1>1. Len(box) = 0  OBVIOUS
<1>2. f \in [0..0 -> Seq(Nat)] /\ f[0] = text  OBVIOUS
<1> HIDE DEF f
<1> QED  BY <1>1, <1>2 DEF Flows

LEMMA FlowsOver ==
  ASSUME NEW text, NEW box, box = <<>>, NEW out, Flows(text, box, out)
  PROVE  text = out
<1>1. Len(box) = 0  OBVIOUS
<1> QED  BY <1>1 DEF Flows

\* What is added to an answer goes through the channel.
LEMMA FlowsMore ==
  ASSUME NEW text, NEW box \in Seq(EventType), NEW out \in Seq(Nat), Flows(text, box, out),
         NEW event \in EventType
  PROVE  Flows(text, Append(box, event), out \o event.text)
<1> DEFINE n == Len(box)
           more == out \o event.text
<1>1. n \in Nat /\ event.text \in Seq(Nat)  BY LenProperties DEF EventType
<1>2. more \in Seq(Nat)  BY <1>1, ConcatProperties
<1>3. PICK f \in [0..n -> Seq(Nat)] :
        /\ f[0] = text /\ f[n] = out
        /\ \A i \in 1..n : f[i] = f[i - 1] \o box[i].text
  BY DEF Flows
<1> DEFINE b == Append(box, event)
           g == [i \in 0..n + 1 |-> IF i <= n THEN f[i] ELSE more]
<1>4. Len(b) = n + 1 /\ (\A i \in 1..n : b[i] = box[i]) /\ b[n + 1] = event
  BY AppendProperties
<1> HIDE DEF b, more
<1>5. g \in [0..n + 1 -> Seq(Nat)]  BY <1>1, <1>2, <1>3
<1>6. (\A i \in 0..n : g[i] = f[i]) /\ g[n + 1] = more  BY <1>1
<1> HIDE DEF g
<1>7. ASSUME NEW i \in 1..n + 1 PROVE g[i] = g[i - 1] \o b[i].text
  <2>1. CASE i = n + 1
    <3>1. g[i - 1] = out  BY <1>1, <1>3, <1>6, <2>1
    <3> QED  BY <1>4, <1>6, <2>1, <3>1 DEF more
  <2>2. CASE i # n + 1
    <3>1. i \in 1..n /\ i - 1 \in 0..n /\ i \in 0..n  BY <1>1, <2>2
    <3> QED  BY <1>3, <1>4, <1>6, <3>1
  <2> QED  BY <2>1, <2>2
<1>8. g[0] = text /\ g[n + 1] = more  BY <1>1, <1>3, <1>6
<1>9. Flows(text, b, more)  BY <1>4, <1>5, <1>7, <1>8 DEF Flows
<1> QED  BY <1>9 DEF b, more

\* What a client reads has left the channel.
LEMMA FlowsOn ==
  ASSUME NEW text, NEW box \in Seq(EventType), box # <<>>, NEW out, Flows(text, box, out)
  PROVE  Flows(text \o Head(box).text, Tail(box), out)
<1> DEFINE n == Len(box)
           b == Tail(box)
<1>1. n \in Nat \ {0}  BY EmptySeq
<1>2. Head(box) = box[1]  OBVIOUS
<1>3. Len(b) = n - 1 /\ \A i \in 1..n - 1 : b[i] = box[i + 1]  BY HeadTailProperties
<1>4. PICK f \in [0..n -> Seq(Nat)] :
        /\ f[0] = text /\ f[n] = out
        /\ \A i \in 1..n : f[i] = f[i - 1] \o box[i].text
  BY DEF Flows
<1> DEFINE g == [i \in 0..n - 1 |-> f[i + 1]]
<1> HIDE DEF b, n
<1>5. g \in [0..n - 1 -> Seq(Nat)] /\ \A i \in 0..n - 1 : g[i] = f[i + 1]
  BY <1>1, <1>4
<1> HIDE DEF g
<1>6. g[0] = text \o Head(box).text
  <2>1. 1 \in 1..n /\ 0 \in 0..n - 1 /\ 1 - 1 = 0 /\ 0 + 1 = 1  BY <1>1
  <2> QED  BY <1>2, <1>4, <1>5, <2>1
<1>7. g[n - 1] = out
  <2>1. n - 1 \in 0..n - 1 /\ (n - 1) + 1 = n  BY <1>1
  <2> QED  BY <1>4, <1>5, <2>1
<1>8. ASSUME NEW i \in 1..n - 1 PROVE g[i] = g[i - 1] \o b[i].text
  <2>1. /\ i \in 0..n - 1 /\ i - 1 \in 0..n - 1 /\ i + 1 \in 1..n
        /\ (i - 1) + 1 = i /\ (i + 1) - 1 = i
    BY <1>1
  <2>2. g[i] = f[i + 1] /\ g[i - 1] = f[i]  BY <1>5, <2>1
  <2>3. f[i + 1] = f[i] \o box[i + 1].text  BY <1>4, <2>1
  <2> QED  BY <1>3, <2>2, <2>3
<1> QED  BY <1>3, <1>5, <1>6, <1>7, <1>8 DEF Flows, b

-----------------------------------------------------------------------------
(* What a turn keeps in its session. *)

LEMMA SavedMoves ==
  ASSUME NEW t, NEW p, NEW q, NEW rows, Saved(t, p, rows),
         q.pc \in Asking => p.pc \in Asking, Answered(p) => Answered(q),
         q.out = p.out \/ ~Answered(p)
  PROVE  Saved(t, q, rows)
BY DEF Saved

LEMMA SavedApart ==
  ASSUME NEW t, NEW p, NEW rows \in Seq(MessageType), Saved(t, p, rows),
         NEW m \in MessageType, m.turn # t
  PROVE  Saved(t, p, Append(rows, m))
<1> DEFINE more == Append(rows, m)
           n == Len(rows)
<1>1. /\ n \in Nat /\ DOMAIN rows = 1..n /\ more \in Seq(MessageType)
      /\ Len(more) = n + 1 /\ more[n + 1] = m /\ \A i \in 1..n : more[i] = rows[i]
  BY LenProperties, AppendProperties
<1>2. DOMAIN more = 1..n + 1  BY <1>1, LenProperties
<1> HIDE DEF more, n
<1>3. \A i \in DOMAIN more : more[i].turn = t => i \in DOMAIN rows /\ more[i] = rows[i]
  BY <1>1, <1>2
<1>4. Saved(t, p, more)  BY <1>3 DEF Saved
<1> QED  BY <1>4 DEF more

\* The question is a turn's first row.
LEMMA SavedQuestion ==
  ASSUME NEW t, NEW p, NEW q, NEW rows \in Seq(MessageType), Saved(t, p, rows),
         p.pc \in Asking, q.pc \notin Asking, NEW m \in MessageType, m.role = "user"
  PROVE  Saved(t, q, Append(rows, m))
<1> DEFINE more == Append(rows, m)
           n == Len(rows)
<1>1. /\ n \in Nat /\ DOMAIN rows = 1..n /\ more \in Seq(MessageType)
      /\ Len(more) = n + 1 /\ more[n + 1] = m /\ \A i \in 1..n : more[i] = rows[i]
  BY LenProperties, AppendProperties
<1>2. DOMAIN more = 1..n + 1  BY <1>1, LenProperties
<1> HIDE DEF more, n
<1>3. \A i \in DOMAIN more : more[i] = m \/ (i \in DOMAIN rows /\ more[i] = rows[i])
  BY <1>1, <1>2
<1>4. Saved(t, q, more)  BY <1>3 DEF Saved
<1> QED  BY <1>4 DEF more

\* The answer is its last.
LEMMA SavedAnswer ==
  ASSUME NEW t, NEW p, NEW q, NEW rows \in Seq(MessageType), Saved(t, p, rows),
         ~Answered(p), q.pc \notin Asking, Answered(q),
         NEW m \in MessageType, m.text = q.out
  PROVE  Saved(t, q, Append(rows, m))
<1> DEFINE more == Append(rows, m)
           n == Len(rows)
<1>1. /\ n \in Nat /\ DOMAIN rows = 1..n /\ more \in Seq(MessageType)
      /\ Len(more) = n + 1 /\ more[n + 1] = m /\ \A i \in 1..n : more[i] = rows[i]
  BY LenProperties, AppendProperties
<1>2. DOMAIN more = 1..n + 1  BY <1>1, LenProperties
<1> HIDE DEF more, n
<1>3. /\ \A i \in DOMAIN more :
           \/ i = n + 1 /\ more[i] = m
           \/ i \in DOMAIN rows /\ more[i] = rows[i]
      /\ \A i \in DOMAIN more : i <= n + 1
  BY <1>1, <1>2
<1>4. Saved(t, q, more)  BY <1>3 DEF Saved
<1> QED  BY <1>4 DEF more

-----------------------------------------------------------------------------
(* What has come of each turn. *)

\* What has come of turn t, and of every other, after a step of t.
Come(t) == Delivers(turn[t], inbox[t], shown[t], t \in served, t \in gone, traces[t])

\* A step of turn t concerns its own channel, client and trace.
Alone(t) == \A u \in Turns \ {t} : /\ inbox'[u] = inbox[u] /\ shown'[u] = shown[u]
                                   /\ traces'[u] = traces[u]
                                   /\ (u \in served') = (u \in served)
                                   /\ (u \in gone') = (u \in gone)

LEMMA ComesApart ==
  ASSUME TurnInv, NEW t \in Turns, Alone(t), NEW u \in Turns \ {t}, turn'[u] = turn[u]
  PROVE  Come(u)'
<1>1. Come(u)  BY DEF TurnInv, Come
<1> QED  BY <1>1 DEF Come, Alone

\* A step that adds no row.
LEMMA TurnsKept ==
  ASSUME TypeInv, TurnInv, NEW t \in Turns, NEW q \in TurnType, Turned(t, q),
         q.session = turn[t].session, UNCHANGED messages, Alone(t), Come(t)',
         q.pc \in Asking => turn[t].pc \in Asking, Answered(turn[t]) => Answered(q),
         q.out = turn[t].out \/ ~Answered(turn[t])
  PROVE  TurnInv'
<1>1. /\ turn \in [Turns -> TurnType]
      /\ \A s \in Sessions : messages[s] \in Seq(MessageType)
  BY DEF TypeInv
<1>2. turn'[t] = q /\ \A u \in Turns \ {t} : turn'[u] = turn[u]  BY <1>1, TurnedIs
<1>3. \A u \in Turns : Come(u)'  BY <1>2, ComesApart
<1>4. ASSUME NEW u \in Turns, turn'[u].session # NoSession
      PROVE  Saved(u, turn'[u], messages'[turn'[u].session])
  <2>1. turn[u].session # NoSession => Saved(u, turn[u], messages[turn[u].session])
    BY DEF TurnInv
  <2>2. CASE u # t  BY <1>2, <1>4, <2>1, <2>2
  <2>3. CASE u = t
    <3>1. Saved(t, turn[t], messages[q.session])  BY <1>2, <1>4, <2>1, <2>3
    <3>2. Saved(t, q, messages[q.session])  BY <3>1, SavedMoves
    <3> QED  BY <1>2, <2>3, <3>2
  <2> QED  BY <2>2, <2>3
<1>5. \A u \in Turns : turn'[u].session = turn[u].session  BY <1>2
<1>6. \A s \in Sessions : \A i \in DOMAIN messages[s] : messages[s][i].turn \in Turns
  <2> SUFFICES ASSUME NEW s \in Sessions, NEW i \in DOMAIN messages[s]
               PROVE  messages[s][i].turn \in Turns
    OBVIOUS
  <2>1. messages[s] \in Seq(MessageType)  BY <1>1
  <2>2. messages[s][i] \in MessageType  BY <2>1, LenProperties
  <2> QED  BY <2>2 DEF MessageType
<1>7. \A s \in Sessions : \A i \in DOMAIN messages'[s] : turn'[messages'[s][i].turn].session = s
  BY <1>5, <1>6 DEF TurnInv
<1> QED  BY <1>3, <1>4, <1>7 DEF TurnInv, Come

\* The steps on the memory of a session send nothing.
AtMemory == {"memory", "memory_list", "memory_set", "ask", "refresh", "reload", "refresh_set",
             "answer", "save", "report"}

LEMMA ComesRemembering ==
  ASSUME TypeInv, TurnInv, NEW t \in Turns, NEW q \in TurnType, Turned(t, q),
         Remembers(turn[t], q), Elsewhere, turn[t].pc \in AtMemory, q.pc \in AtMemory,
         (Answered(q) \/ q.pc = "save") <=> (Answered(turn[t]) \/ turn[t].pc = "save")
  PROVE  Alone(t) /\ Come(t)'
<1>1. turn'[t] = q  BY TurnedIs DEF TypeInv
<1>2. Alone(t)  BY DEF Alone, Elsewhere
<1>3. Come(t)  BY DEF TurnInv, Come
<1>4. Delivers(q, inbox[t], shown[t], t \in served, t \in gone, traces[t])
  BY <1>3 DEF Come, Delivers, Remembers, Moves, AtMemory
<1> QED  BY <1>1, <1>2, <1>4 DEF Come, Elsewhere

\* A row of turn t: its question, or its answer.
LEMMA TurnSaves ==
  ASSUME TypeInv, TurnInv, NEW t \in Turns, NEW m \in MessageType, m.turn = t,
         NEW otherwise, Saves(t, m, otherwise),
         \/ turn[t].pc = "ask" /\ m.role = "user" /\ otherwise = "answer"
         \/ /\ turn[t].pc = "save" /\ m.role = "assistant" /\ otherwise = "report"
            /\ m.text = turn[t].out
  PROVE  TurnInv'
<1>1. PICK q \in TurnType :
        /\ Turned(t, q) /\ Remembers(turn[t], q)
        /\ \/ /\ q.pc = "refresh" /\ q.own = m /\ turn[t].session # NoSession
              /\ messages' = [messages EXCEPT ![turn[t].session] = Append(@, m)]
           \/ q.pc = otherwise /\ UNCHANGED messages
  BY DEF Saves
<1>2. Elsewhere  BY DEF Saves
<1>3. turn[t] \in TurnType /\ messages \in [Sessions -> Seq(MessageType)]  BY DEF TypeInv
<1>4. /\ turn[t].pc \in AtMemory /\ q.pc \in AtMemory
      /\ (Answered(q) \/ q.pc = "save") <=> (Answered(turn[t]) \/ turn[t].pc = "save")
      /\ ~Answered(turn[t])
  BY <1>1 DEF AtMemory, Answered, Refreshing
<1>5. Alone(t) /\ Come(t)'  BY <1>1, <1>2, <1>4, ComesRemembering
<1>6. q.session = turn[t].session /\ q.out = turn[t].out /\ q.pc \notin Asking
  BY <1>1 DEF Remembers, Moves, Asking
<1>7. CASE UNCHANGED messages  BY <1>1, <1>4, <1>5, <1>6, <1>7, TurnsKept
<1>8. CASE /\ q.pc = "refresh" /\ q.own = m /\ turn[t].session # NoSession
           /\ messages' = [messages EXCEPT ![turn[t].session] = Append(@, m)]
  <2> DEFINE s == turn[t].session
  <2>1. s \in Sessions  BY <1>3, <1>8 DEF TurnType
  <2> HIDE DEF s
  <2>2. /\ messages'[s] = Append(messages[s], m) /\ messages[s] \in Seq(MessageType)
        /\ \A r \in Sessions \ {s} : messages'[r] = messages[r]
    BY <1>3, <1>8, <2>1 DEF s
  <2>3. turn'[t] = q /\ \A u \in Turns \ {t} : turn'[u] = turn[u]
    BY <1>1, TurnedIs DEF TypeInv
  <2>4. \A u \in Turns : Come(u)'  BY <1>5, <2>3, ComesApart
  <2>5. ASSUME NEW u \in Turns, turn'[u].session # NoSession
        PROVE  Saved(u, turn'[u], messages'[turn'[u].session])
    <3>1. turn[u].session # NoSession => Saved(u, turn[u], messages[turn[u].session])
      BY DEF TurnInv
    <3>2. CASE u = t
      <4>1. Saved(t, turn[t], messages[s])  BY <1>8, <3>1, <3>2 DEF s
      <4>2. Saved(t, q, Append(messages[s], m))
        <5>1. CASE turn[t].pc = "ask" /\ m.role = "user"
          BY <1>6, <2>2, <4>1, <5>1, SavedQuestion DEF Asking
        <5>2. CASE turn[t].pc = "save" /\ m.role = "assistant" /\ m.text = turn[t].out
          <6>1. Answered(q)  BY <1>8, <5>2 DEF Answered, Refreshing
          <6> QED  BY <1>4, <1>6, <2>2, <4>1, <5>2, <6>1, SavedAnswer
        <5> QED  BY <5>1, <5>2
      <4> QED  BY <1>6, <2>2, <2>3, <3>2, <4>2 DEF s
    <3>3. CASE u # t
      <4>1. turn'[u] = turn[u] /\ turn[u] \in TurnType  BY <2>3, <3>3 DEF TypeInv
      <4>2. turn[u].session \in Sessions  BY <2>5, <4>1 DEF TurnType
      <4>3. Saved(u, turn[u], messages[turn[u].session])  BY <2>5, <3>1, <4>1
      <4>4. CASE turn[u].session = s
        <5>1. Saved(u, turn[u], Append(messages[s], m))
          BY <2>2, <3>3, <4>3, <4>4, SavedApart
        <5> QED  BY <2>2, <4>1, <4>4, <5>1
      <4>5. CASE turn[u].session # s  BY <2>2, <4>1, <4>2, <4>3, <4>5
      <4> QED  BY <4>4, <4>5
    <3> QED  BY <3>2, <3>3
  <2>6. ASSUME NEW r \in Sessions, NEW i \in DOMAIN messages'[r]
        PROVE  turn'[messages'[r][i].turn].session = r
    <3>1. \A u \in Turns : turn'[u].session = turn[u].session  BY <1>6, <2>3
    <3>2. CASE i \in DOMAIN messages[r] /\ messages'[r][i] = messages[r][i]
      <4>1. messages[r] \in Seq(MessageType)  BY <1>3
      <4>2. messages[r][i] \in MessageType  BY <3>2, <4>1, LenProperties
      <4>3. messages[r][i].turn \in Turns  BY <4>2 DEF MessageType
      <4>4. turn[messages[r][i].turn].session = r  BY <3>2 DEF TurnInv
      <4> QED  BY <3>1, <3>2, <4>3, <4>4
    <3>3. CASE r = s /\ messages'[r][i] = m  BY <1>6, <2>3, <3>3 DEF s
    <3>4. \/ i \in DOMAIN messages[r] /\ messages'[r][i] = messages[r][i]
          \/ r = s /\ messages'[r][i] = m
      <4>1. CASE r # s  BY <2>2, <2>6, <4>1
      <4>2. CASE r = s
        <5> DEFINE rows == messages[s]
                   more == Append(rows, m)
        <5>1. rows \in Seq(MessageType)  BY <2>2
        <5> HIDE DEF rows
        <5>2. /\ Len(rows) \in Nat /\ DOMAIN rows = 1..Len(rows) /\ more \in Seq(MessageType)
              /\ Len(more) = Len(rows) + 1 /\ more[Len(rows) + 1] = m
              /\ \A k \in 1..Len(rows) : more[k] = rows[k]
          BY <5>1, LenProperties, AppendProperties
        <5>3. DOMAIN more = 1..Len(rows) + 1  BY <5>2, LenProperties
        <5> HIDE DEF more
        <5>4. \A k \in DOMAIN more : \/ k \in DOMAIN rows /\ more[k] = rows[k]
                                     \/ more[k] = m
          BY <5>2, <5>3
        <5>5. messages'[r] = more  BY <2>2, <4>2 DEF more, rows
        <5> QED  BY <2>6, <4>2, <5>4, <5>5 DEF rows
      <4> QED  BY <4>1, <4>2
    <3> QED  BY <3>2, <3>3, <3>4
  <2> QED  BY <2>4, <2>5, <2>6 DEF TurnInv, Come
<1> QED  BY <1>1, <1>7, <1>8

\* Any other step on the memory of a session.
LEMMA TurnRemembers ==
  ASSUME TypeInv, TurnInv, NEW t \in Turns, NEW q \in TurnType, Turned(t, q),
         Remembers(turn[t], q), Elsewhere, UNCHANGED messages,
         turn[t].pc \in AtMemory \ {"save"}, q.pc \in AtMemory \ {"save"},
         q.pc \in Asking => turn[t].pc \in Asking, Answered(q) <=> Answered(turn[t])
  PROVE  TurnInv'
<1>1. Alone(t) /\ Come(t)'  BY ComesRemembering
<1>2. q.session = turn[t].session /\ q.out = turn[t].out  BY DEF Remembers, Moves
<1> QED  BY <1>1, <1>2, TurnsKept

LEMMA TurnMemory ==
  ASSUME TypeInv, TurnInv, NEW t \in Turns,
         \/ ReadCache(t) \/ ReadHistory(t) \/ FillCache(t)
         \/ Refresh(t) \/ Reload(t) \/ RefreshSet(t)
  PROVE  TurnInv'
<1> DEFINE Asks == \E q \in TurnType : /\ Turned(t, q) /\ Remembers(turn[t], q)
                                       /\ q.pc \in Asking
           Refreshes == \E q \in TurnType :
                          /\ Turned(t, q) /\ Remembers(turn[t], q)
                          /\ \/ q.pc \in Refreshing /\ q.own = turn[t].own
                             \/ q.pc = After(turn[t])
<1>1. /\ Elsewhere /\ UNCHANGED messages
      /\ \/ turn[t].pc \in Asking /\ Asks
         \/ turn[t].pc \in Refreshing /\ Refreshes
  <2>1. CASE ReadCache(t)  BY <2>1, ReadCacheDoes DEF Asking
  <2>2. CASE ReadHistory(t)  BY <2>2, ReadHistoryDoes DEF Asking
  <2>3. CASE FillCache(t)  BY <2>3, FillCacheDoes DEF Asking
  <2>4. CASE Refresh(t)  BY <2>4, RefreshDoes DEF Refreshing
  <2>5. CASE Reload(t)  BY <2>5, ReloadDoes DEF Refreshing
  <2>6. CASE RefreshSet(t)  BY <2>6, RefreshSetDoes DEF Refreshing
  <2> QED  BY <2>1, <2>2, <2>3, <2>4, <2>5, <2>6
<1>2. CASE turn[t].pc \in Asking /\ Asks
  <2>1. PICK q \in TurnType : /\ Turned(t, q) /\ Remembers(turn[t], q) /\ q.pc \in Asking
    BY <1>2
  <2>2. /\ turn[t].pc \in AtMemory \ {"save"} /\ q.pc \in AtMemory \ {"save"}
        /\ ~Answered(q) /\ ~Answered(turn[t])
    BY <1>2, <2>1 DEF AtMemory, Asking, Answered, Refreshing
  <2> QED  BY <1>1, <1>2, <2>1, <2>2, TurnRemembers
<1>3. CASE turn[t].pc \in Refreshing /\ Refreshes
  <2>1. PICK q \in TurnType : /\ Turned(t, q) /\ Remembers(turn[t], q)
                              /\ \/ q.pc \in Refreshing /\ q.own = turn[t].own
                                 \/ q.pc = After(turn[t])
    BY <1>3
  <2>2. turn[t].own.role \in {"user", "assistant"}
    BY <1>3 DEF TypeInv, Placed, MessageType
  <2>3. /\ turn[t].pc \in AtMemory \ {"save"} /\ q.pc \in AtMemory \ {"save"}
        /\ q.pc \notin Asking
    BY <1>3, <2>1 DEF AtMemory, Asking, Refreshing, After
  <2>4. Answered(q) <=> Answered(turn[t])
    BY <1>3, <2>1, <2>2 DEF Answered, Refreshing, After
  <2> QED  BY <1>1, <2>1, <2>3, <2>4, TurnRemembers
<1> QED  BY <1>1, <1>2, <1>3

\* What a turn of a stream adds to its answer has been put in its channel, ahead of the done
\* event, or its client is gone.
LEMMA ComesSpeaking ==
  ASSUME TypeInv, TurnInv, NEW t \in Turns, NEW q \in TurnType, Turned(t, q),
         Moves(turn[t], q), Speaks(t, q), UNCHANGED <<shown, served, gone>>,
         \A u \in Turns \ {t} : traces'[u] = traces[u],
         turn[t].api = "stream", turn[t].pc \in {"answer", "stream", "report"}, q.pc # "idle",
         ~Answered(q) /\ q.pc # "save" => ~q.done,
         (q.pc = "save" \/ Answered(q)) /\ q.done => q.status = "completed" \/ q.pc = "closed",
         q.pc = "finish" /\ q.done => traces'[t] = "completed"
  PROVE  Alone(t) /\ Come(t)'
<1> DEFINE box  == inbox[t]
           text == shown[t]
<1>1. turn'[t] = q /\ turn[t] \in TurnType  BY TurnedIs DEF TypeInv
<1>2. /\ inbox \in [Turns -> Seq(EventType)] /\ box \in Seq(EventType)
      /\ turn[t].out \in Seq(Nat)
  BY <1>1 DEF TypeInv, TurnType
<1>3. Delivers(turn[t], box, text, t \in served, t \in gone, traces[t])
  BY DEF TurnInv
<1>4. t \notin served /\ \A i \in DOMAIN box : box[i].type # "done"
  BY <1>3 DEF Delivers
<1>5. t \notin gone => Flows(text, box, turn[t].out)  BY <1>3 DEF Delivers
<1>6. PICK more \in Seq(Nat) :
        /\ q.out = turn[t].out \o more
        /\ \/ UNCHANGED inbox /\ more = <<>>
           \/ \E event \in EventType :
                event.text = more /\ event.type # "done" /\ Sent(t, event)
  BY DEF Speaks
<1>7. \A u \in Turns \ {t} : inbox'[u] = inbox[u]  BY <1>2, <1>6 DEF Sent
<1>8. Alone(t)  BY <1>7 DEF Alone
<1> HIDE DEF text
<1>9. /\ \A i \in DOMAIN inbox'[t] : inbox'[t][i].type # "done"
      /\ t \notin gone => Flows(text, inbox'[t], q.out)
  <2>1. CASE UNCHANGED inbox /\ more = <<>>
    <3>1. q.out = turn[t].out  BY <1>2, <1>6, <2>1, ConcatEmptySeq
    <3> QED  BY <1>4, <1>5, <2>1, <3>1
  <2>2. ASSUME NEW event \in EventType, event.text = more, event.type # "done",
               Sent(t, event)
        PROVE  /\ \A i \in DOMAIN inbox'[t] : inbox'[t][i].type # "done"
               /\ t \notin gone => Flows(text, inbox'[t], q.out)
    <3>1. CASE UNCHANGED inbox /\ t \in gone  BY <1>4, <3>1
    <3>2. CASE inbox' = [inbox EXCEPT ![t] = Append(@, event)]
      <4>1. inbox'[t] = Append(box, event)  BY <1>2, <3>2
      <4> HIDE DEF box
      <4>2. t \notin gone => Flows(text, Append(box, event), q.out)
        BY <1>2, <1>5, <1>6, <2>2, FlowsMore
      <4>3. /\ DOMAIN Append(box, event) = 1..Len(box) + 1 /\ Len(box) \in Nat
            /\ DOMAIN box = 1..Len(box) /\ Append(box, event)[Len(box) + 1] = event
            /\ \A i \in 1..Len(box) : Append(box, event)[i] = box[i]
        BY <1>2, LenProperties, AppendProperties
      <4>4. \A i \in DOMAIN Append(box, event) :
              \/ i \in DOMAIN box /\ Append(box, event)[i] = box[i]
              \/ Append(box, event)[i] = event
        BY <4>3
      <4>5. \A i \in DOMAIN Append(box, event) : Append(box, event)[i].type # "done"
        BY <1>4, <2>2, <4>4
      <4> QED  BY <4>1, <4>2, <4>5
    <3> QED  BY <2>2, <3>1, <3>2 DEF Sent
  <2> QED  BY <1>6, <2>1, <2>2
<1>10. q.api = "stream"  BY DEF Moves
<1>11. Delivers(q, inbox'[t], text, FALSE, t \in gone, traces'[t])
  BY <1>9, <1>10 DEF Delivers
<1>12. Come(t)'
  BY <1>1, <1>4, <1>11 DEF Come, Delivers, text
<1> QED  BY <1>8, <1>12

\* The steps of a stream up to its done event.
LEMMA TurnStream ==
  ASSUME TypeInv, TurnInv, NEW t \in Turns,
         BeginStream(t) \/ FinishError(t) \/ Chunk(t) \/ Notice(t) \/ EndOfStream(t)
  PROVE  TurnInv'
<1>1. Come(t)  BY DEF TurnInv, Come
<1>2. UNCHANGED <<shown, served, gone, messages, traces>>
  BY BeginDoes, FinishErrorDoes, ChunkDoes, NoticeDoes, EndOfStreamDoes DEF Aside
<1>3. /\ turn[t].pc \in {"answer", "stream"} /\ turn[t].api = "stream"
      /\ ~turn[t].done /\ ~Answered(turn[t])
  <2>1. (turn[t].pc = "answer" /\ turn[t].api = "stream") \/ turn[t].pc = "stream"
    BY BeginDoes, FinishErrorDoes, ChunkDoes, NoticeDoes, EndOfStreamDoes
  <2>2. ~Answered(turn[t])  BY <2>1 DEF Answered, Refreshing
  <2> QED  BY <1>1, <2>1, <2>2 DEF Come, Delivers
<1>4. PICK q \in TurnType :
        /\ Turned(t, q) /\ Moves(turn[t], q) /\ Speaks(t, q)
        /\ \/ q.pc \in {"stream", "report", "closed"} /\ q.done = turn[t].done
           \/ q.pc = "save" /\ q.status = "completed"
  <2>1. CASE BeginStream(t)  BY <2>1, BeginDoes DEF Remembers
  <2>2. CASE FinishError(t)  BY <2>2, FinishErrorDoes
  <2>3. CASE Chunk(t)  BY <2>3, ChunkDoes
  <2>4. CASE Notice(t)  BY <2>4, NoticeDoes
  <2>5. CASE EndOfStream(t)  BY <2>5, EndOfStreamDoes
  <2> QED  BY <2>1, <2>2, <2>3, <2>4, <2>5
<1>5. Alone(t) /\ Come(t)'
  BY <1>2, <1>3, <1>4, ComesSpeaking
<1>6. q.session = turn[t].session /\ q.pc \notin Asking  BY <1>4 DEF Moves, Asking
<1> QED  BY <1>2, <1>3, <1>4, <1>5, <1>6, TurnsKept

\* Chat: the answer, or a failure, with nothing in a channel.
LEMMA TurnAnswer ==
  ASSUME TypeInv, TurnInv, NEW t \in Turns, Answer(t)
  PROVE  TurnInv'
<1>1. Come(t)  BY DEF TurnInv, Come
<1>2. /\ UNCHANGED <<inbox, shown, served, gone, messages, traces>>
      /\ turn[t].pc = "answer" /\ turn[t].api = "chat"
  BY AnswerDoes DEF Aside
<1>3. PICK q \in TurnType :
        /\ Turned(t, q) /\ Moves(turn[t], q)
        /\ \/ q.pc = "save" /\ q.status = "completed"
           \/ q.pc = "closed" /\ Remembers(turn[t], q)
  BY AnswerDoes
<1>4. turn'[t] = q  BY <1>3, TurnedIs DEF TypeInv
<1>5. Alone(t)  BY <1>2 DEF Alone
<1>6. Delivers(q, inbox[t], shown[t], t \in served, t \in gone, traces[t])
  BY <1>1, <1>2, <1>3 DEF Come, Delivers, Moves, Answered
<1>7. Come(t)'  BY <1>2, <1>4, <1>6 DEF Come
<1>8. ~Answered(turn[t])  BY <1>2 DEF Answered, Refreshing
<1>9. q.session = turn[t].session /\ q.pc \notin Asking  BY <1>3 DEF Moves, Asking
<1> QED  BY <1>2, <1>3, <1>5, <1>7, <1>8, <1>9, TurnsKept

\* The trace is recorded; Chat returns its answer to a client that is still there.
LEMMA TurnReport ==
  ASSUME TypeInv, TurnInv, NEW t \in Turns, Report(t)
  PROVE  TurnInv'
<1>1. Come(t)  BY DEF TurnInv, Come
<1>2. /\ UNCHANGED <<gone, messages>> /\ turn[t].pc = "report" /\ Answered(turn[t])
      /\ traces' = [traces EXCEPT ![t] = turn[t].status]
  BY ReportDoes DEF Answered
<1>3. PICK q \in TurnType :
        /\ Turned(t, q) /\ Remembers(turn[t], q)
        /\ \/ /\ turn[t].api = "chat" /\ q.pc = "closed" /\ UNCHANGED inbox
              /\ served' = IF t \in gone THEN served ELSE served \cup {t}
              /\ shown' = IF t \in gone THEN shown ELSE [shown EXCEPT ![t] = turn[t].out]
           \/ /\ turn[t].api # "chat" /\ q.pc = "finish" /\ Speaks(t, q)
              /\ UNCHANGED <<served, shown>>
  BY ReportDoes
<1>4. turn'[t] = q /\ turn[t] \in TurnType  BY <1>3, TurnedIs DEF TypeInv
<1>5. traces'[t] = turn[t].status /\ \A u \in Turns \ {t} : traces'[u] = traces[u]
  BY <1>2 DEF TypeInv
<1>6. /\ q.session = turn[t].session /\ q.out = turn[t].out /\ q.done = turn[t].done
      /\ q.status = turn[t].status /\ q.api = turn[t].api /\ Moves(turn[t], q)
  BY <1>3 DEF Remembers, Moves
<1>7. Answered(q) /\ q.pc \notin Asking  BY <1>3 DEF Answered, Asking
<1>8. CASE turn[t].api = "chat"
  <2>1. /\ q.pc = "closed" /\ UNCHANGED inbox /\ turn[t].status = "completed"
        /\ inbox[t] = <<>> /\ t \notin served
    BY <1>1, <1>2, <1>3, <1>8 DEF Come, Delivers
  <2>2. CASE t \in gone
    <3>1. UNCHANGED <<served, shown>>  BY <1>3, <1>8, <2>2
    <3>2. Alone(t)  BY <1>2, <1>5, <2>1, <3>1 DEF Alone
    <3>3. Delivers(q, inbox[t], shown[t], t \in served, t \in gone, traces'[t])
      BY <1>1, <1>2, <1>6, <1>7, <1>8, <2>1 DEF Come, Delivers
    <3>4. Come(t)'  BY <1>2, <1>4, <2>1, <3>1, <3>3 DEF Come
    <3> QED  BY <1>2, <1>3, <1>6, <1>7, <3>2, <3>4, TurnsKept
  <2>3. CASE t \notin gone
    <3>1. served' = served \cup {t} /\ shown' = [shown EXCEPT ![t] = turn[t].out]
      BY <1>3, <1>8, <2>3
    <3>2. shown'[t] = q.out /\ \A u \in Turns \ {t} : shown'[u] = shown[u]
      BY <1>6, <3>1 DEF TypeInv
    <3>3. Alone(t)  BY <1>2, <1>5, <2>1, <3>1, <3>2 DEF Alone
    <3>4. Delivers(q, inbox[t], q.out, TRUE, FALSE, traces'[t])
      BY <1>1, <1>2, <1>5, <1>6, <1>7, <1>8, <2>1 DEF Come, Delivers
    <3>5. (t \in served') = TRUE /\ (t \in gone') = FALSE  BY <1>2, <2>3, <3>1
    <3>6. Come(t)'  BY <1>4, <2>1, <3>2, <3>4, <3>5 DEF Come
    <3> QED  BY <1>2, <1>3, <1>6, <1>7, <3>3, <3>6, TurnsKept
  <2> QED  BY <2>2, <2>3
<1>9. CASE turn[t].api # "chat"
  <2>1. /\ q.pc = "finish" /\ Speaks(t, q) /\ UNCHANGED <<served, shown>>
        /\ turn[t].api = "stream"
    BY <1>1, <1>2, <1>3, <1>9 DEF Come, Delivers
  <2>2. q.done => q.status = "completed"
    BY <1>1, <1>2, <1>6 DEF Come, Delivers
  <2>3. Alone(t) /\ Come(t)'
    BY <1>2, <1>3, <1>5, <1>6, <1>7, <2>1, <2>2, ComesSpeaking
  <2> QED  BY <1>2, <1>3, <1>6, <1>7, <2>3, TurnsKept
<1> QED  BY <1>8, <1>9

\* The done event is the last of its channel, and its trace is recorded.
LEMMA TurnFinish ==
  ASSUME TypeInv, TurnInv, NEW t \in Turns, FinishTurn(t)
  PROVE  TurnInv'
<1> DEFINE box == inbox[t]
<1>1. Come(t)  BY DEF TurnInv, Come
<1>2. /\ UNCHANGED <<shown, served, gone, messages, traces>>
      /\ turn[t].pc = "finish" /\ Answered(turn[t])
      /\ \/ turn[t].done /\ Sent(t, Event("done"))
         \/ UNCHANGED inbox
  BY FinishDoes DEF Aside, Answered
<1>3. PICK q \in TurnType : Turned(t, q) /\ Remembers(turn[t], q) /\ q.pc = "closed"
  BY FinishDoes
<1>4. turn'[t] = q /\ turn[t] \in TurnType  BY <1>3, TurnedIs DEF TypeInv
<1>5. /\ q.session = turn[t].session /\ q.out = turn[t].out /\ q.done = turn[t].done
      /\ q.api = turn[t].api /\ q.out \in Seq(Nat)
  BY <1>3, <1>4 DEF Remembers, Moves, TurnType
<1>6. Answered(q) /\ q.pc \notin Asking  BY <1>3 DEF Answered, Asking
<1>7. /\ turn[t].api = "stream" /\ t \notin served
      /\ \A i \in DOMAIN box : box[i].type # "done"
      /\ turn[t].done => traces[t] = "completed"
      /\ t \notin gone => Flows(shown[t], box, turn[t].out)
  BY <1>1, <1>2 DEF Come, Delivers
<1>8. CASE UNCHANGED inbox
  <2>1. Delivers(q, box, shown[t], FALSE, t \in gone, traces[t])
    BY <1>3, <1>5, <1>6, <1>7 DEF Delivers
  <2>2. Alone(t)  BY <1>2, <1>8 DEF Alone
  <2>3. Come(t)'  BY <1>2, <1>4, <1>7, <1>8, <2>1 DEF Come, Delivers
  <2> QED  BY <1>2, <1>3, <1>5, <1>6, <2>2, <2>3, TurnsKept
<1>9. CASE turn[t].done /\ inbox' = [inbox EXCEPT ![t] = Append(@, Event("done"))]
  <2> DEFINE e == Event("done")
             more == Append(box, e)
  <2>1. e \in EventType /\ e.text = <<>>  BY EventTypes
  <2>2. inbox \in [Turns -> Seq(EventType)] /\ box \in Seq(EventType)  BY DEF TypeInv
  <2>3. inbox'[t] = more /\ \A u \in Turns \ {t} : inbox'[u] = inbox[u]
    BY <1>9, <2>2
  <2> HIDE DEF box, e
  <2>4. t \notin gone => Flows(shown[t], more, q.out)
    <3>1. ASSUME t \notin gone PROVE Flows(shown[t], more, q.out \o e.text)
      BY <1>5, <1>7, <2>1, <2>2, <3>1, FlowsMore
    <3>2. q.out \o e.text = q.out  BY <1>5, <2>1, ConcatEmptySeq
    <3> QED  BY <3>1, <3>2
  <2>5. /\ DOMAIN more = 1..Len(box) + 1 /\ Len(box) \in Nat /\ Len(more) = Len(box) + 1
        /\ DOMAIN box = 1..Len(box)
        /\ \A i \in 1..Len(box) : more[i] = box[i]
    BY <2>1, <2>2, LenProperties, AppendProperties
  <2> HIDE DEF more
  <2>6. \A i \in DOMAIN more : more[i].type = "done" => i = Len(more)
    BY <1>7, <2>5
  <2>7. Delivers(q, more, shown[t], FALSE, t \in gone, traces[t])
    BY <1>3, <1>5, <1>6, <1>7, <1>9, <2>4, <2>6 DEF Delivers
  <2>8. Alone(t)  BY <1>2, <2>3 DEF Alone
  <2>9. Come(t)'  BY <1>2, <1>4, <1>7, <2>3, <2>7 DEF Come, Delivers
  <2> QED  BY <1>2, <1>3, <1>5, <1>6, <2>8, <2>9, TurnsKept
<1> QED  BY <1>2, <1>8, <1>9 DEF Sent

LEMMA IdleIs ==
  /\ NoTurn.pc = "idle" /\ NoTurn.api = "" /\ NoTurn.session = NoSession
  /\ NoTurn.out = <<>> /\ NoTurn.done = FALSE
BY DEF NoTurn

\* A turn that has not begun has no row, no event and no answer.
LEMMA TurnAsk ==
  ASSUME TypeInv, TurnInv, NEW t \in Turns, NEW request \in RequestsOf[t],
         AskTurn(t, request)
  PROVE  TurnInv'
<1>1. UNCHANGED <<inbox, shown, served, gone, messages, traces>> /\ turn[t].pc = "idle"
  BY AskDoes
<1>2. PICK q \in TurnType :
        /\ Turned(t, q) /\ q.api \in {"chat", "stream"} /\ q.session = request.session
        /\ q.out = <<>> /\ ~q.done
        /\ q.pc = IF request.session = NoSession THEN "answer" ELSE "memory"
  BY AskDoes
<1>3. turn'[t] = q /\ \A u \in Turns \ {t} : turn'[u] = turn[u]
  BY <1>2, TurnedIs DEF TypeInv
<1>4. turn[t] = NoTurn /\ inbox[t] = <<>> /\ shown[t] = <<>> /\ t \notin served
  BY <1>1 DEF TurnInv, Delivers
<1>5. turn[t].session = NoSession /\ NoSession \notin Sessions  BY <1>4, IdleIs, TurnsAssumption
<1>6. Alone(t)  BY <1>1 DEF Alone
<1>7. Come(t)'
  <2>1. ~Answered(q) /\ q.pc \notin {"idle", "stream", "save", "closed", "finish"}
    BY <1>2 DEF Answered, Refreshing
  <2>2. <<>> \in Seq(Nat)  OBVIOUS
  <2>3. PICK h \in Seq(Nat) : h = <<>>  BY <2>2, Zenon
  <2>4. Flows(h, inbox[t], h)  BY <1>4, FlowsNone
  <2>5. Flows(shown[t], inbox[t], q.out)  BY <1>2, <1>4, <2>3, <2>4
  <2>6. DOMAIN inbox[t] = {}  BY <1>4
  <2>7. Delivers(q, inbox[t], shown[t], FALSE, t \in gone, traces[t])
    BY <1>2, <1>4, <2>1, <2>5, <2>6 DEF Delivers
  <2> QED  BY <1>1, <1>3, <1>4, <2>7 DEF Come, Delivers
<1>8. \A u \in Turns : Come(u)'  BY <1>3, <1>6, <1>7, ComesApart
<1>9. ASSUME NEW s \in Sessions, NEW i \in DOMAIN messages[s]
      PROVE  messages[s][i].turn \in Turns \ {t} /\ turn[messages[s][i].turn].session = s
  <2>1. turn[messages[s][i].turn].session = s  BY DEF TurnInv
  <2>2. messages[s] \in Seq(MessageType)  BY DEF TypeInv
  <2>3. messages[s][i] \in MessageType  BY <2>2, LenProperties
  <2>4. messages[s][i].turn \in Turns  BY <2>3 DEF MessageType
  <2> QED  BY <1>5, <2>1, <2>4
<1>10. ASSUME NEW u \in Turns, turn'[u].session # NoSession
       PROVE  Saved(u, turn'[u], messages'[turn'[u].session])
  <2>1. CASE u # t
    <3>1. Saved(u, turn[u], messages[turn[u].session])  BY <1>3, <1>10, <2>1 DEF TurnInv
    <3> QED  BY <1>1, <1>3, <2>1, <3>1
  <2>2. CASE u = t
    <3>1. q.session \in Sessions  BY <1>2, <1>3, <1>10, <2>2, TurnsAssumption DEF TurnRequest
    <3>2. \A i \in DOMAIN messages[q.session] : messages[q.session][i].turn # t
      BY <1>9, <3>1
    <3>3. Saved(t, q, messages[q.session])  BY <3>2 DEF Saved
    <3> QED  BY <1>1, <1>3, <2>2, <3>3
  <2> QED  BY <2>1, <2>2
<1>11. \A s \in Sessions : \A i \in DOMAIN messages'[s] :
         turn'[messages'[s][i].turn].session = s
  BY <1>1, <1>3, <1>9
<1> QED  BY <1>8, <1>10, <1>11 DEF TurnInv, Come

\* A client reads the next event, or leaves: its turn goes on as before.
LEMMA TurnReceive ==
  ASSUME TypeInv, TurnInv, NEW t \in Turns, Receive(t) \/ Disconnect(t)
  PROVE  TurnInv'
<1> DEFINE box == inbox[t]
<1>1. UNCHANGED <<turn, messages, traces>>  BY DEF Receive, Disconnect
<1>2. Come(t)  BY DEF TurnInv, Come
<1>3. Alone(t) /\ Come(t)'
  <2>1. CASE Receive(t)
    <3> DEFINE text == shown[t]
               rest == Tail(box)
               more == text \o Head(box).text
    <3>1. /\ inbox \in [Turns -> Seq(EventType)] /\ box \in Seq(EventType)
          /\ shown \in [Turns -> Seq(Nat)]
      BY DEF TypeInv
    <3>2. /\ inbox' = [inbox EXCEPT ![t] = rest] /\ shown' = [shown EXCEPT ![t] = more]
          /\ served' = IF Head(box).type = "done" THEN served \cup {t} ELSE served
          /\ UNCHANGED gone /\ t \notin gone /\ box # <<>>
      BY <2>1 DEF Receive
    <3>3. /\ rest \in Seq(EventType) /\ Head(box) = box[1] /\ Len(rest) = Len(box) - 1
          /\ \A i \in 1..Len(rest) : rest[i] = box[i + 1]
      BY <3>1, <3>2, HeadTailProperties
    <3>4. /\ Len(box) \in Nat \ {0} /\ DOMAIN box = 1..Len(box) /\ Len(rest) \in Nat
          /\ DOMAIN rest = 1..Len(rest)
      BY <3>1, <3>2, <3>3, EmptySeq, LenProperties
    <3>5. inbox'[t] = rest /\ shown'[t] = more  BY <3>1, <3>2
    <3>6. Alone(t)  BY <1>1, <3>1, <3>2 DEF Alone
    <3>7. /\ turn[t].pc # "idle" /\ turn[t].api = "stream" /\ t \notin served
          /\ Flows(text, box, turn[t].out)
      BY <1>2, <3>2 DEF Come, Delivers
    <3> HIDE DEF box, rest, more
    <3>8. Flows(more, rest, turn[t].out)  BY <3>1, <3>2, <3>7, FlowsOn DEF more, rest
    <3>9. \A i \in DOMAIN rest : rest[i].type = "done" =>
            i = Len(rest) /\ turn[t].pc = "closed" /\ traces[t] = "completed"
      <4> SUFFICES ASSUME NEW i \in DOMAIN rest, rest[i].type = "done"
                   PROVE  i = Len(rest) /\ turn[t].pc = "closed" /\ traces[t] = "completed"
        OBVIOUS
      <4>1. i \in 1..Len(rest) /\ i + 1 \in DOMAIN box /\ rest[i] = box[i + 1]
        BY <3>3, <3>4
      <4>2. i + 1 = Len(box) /\ turn[t].pc = "closed" /\ traces[t] = "completed"
        BY <1>2, <4>1 DEF Come, Delivers, box
      <4> QED  BY <3>3, <3>4, <4>1, <4>2
    <3>10. CASE Head(box).type = "done"
      <4>1. /\ 1 \in DOMAIN box /\ box[1].type = "done"  BY <3>3, <3>4, <3>10
      <4>2. 1 = Len(box) /\ turn[t].pc = "closed" /\ traces[t] = "completed"
        BY <1>2, <4>1 DEF Come, Delivers, box
      <4>3. rest = <<>>
        <5>1. Len(rest) = Len(box) - 1 /\ Len(box) = 1  BY <3>3, <4>2
        <5>2. Len(rest) = 0  BY <5>1
        <5>3. rest \in Seq(EventType)  BY <3>3
        <5> QED  BY <5>2, <5>3, EmptySeq
      <4>4. more = turn[t].out  BY <3>8, <4>3, FlowsOver
      <4>5. Delivers(turn[t], rest, more, TRUE, FALSE, traces[t])
        BY <1>2, <3>7, <3>8, <3>9, <4>2, <4>3, <4>4 DEF Come, Delivers
      <4>6. (t \in served') = TRUE /\ (t \in gone') = FALSE  BY <3>2, <3>10
      <4>7. Come(t)'  BY <1>1, <3>5, <4>5, <4>6 DEF Come
      <4> QED  BY <3>6, <4>7
    <3>11. CASE Head(box).type # "done"
      <4>1. Delivers(turn[t], rest, more, FALSE, FALSE, traces[t])
        BY <1>2, <3>7, <3>8, <3>9 DEF Come, Delivers
      <4>2. (t \in served') = FALSE /\ (t \in gone') = FALSE  BY <3>2, <3>7, <3>11
      <4>3. Come(t)'  BY <1>1, <3>5, <4>1, <4>2 DEF Come
      <4> QED  BY <3>6, <4>3
    <3> QED  BY <3>10, <3>11
  <2>2. CASE Disconnect(t)
    <3>1. /\ UNCHANGED <<inbox, shown, served>> /\ gone' = gone \cup {t}
          /\ turn[t].pc \notin {"idle", "closed"}
      BY <2>2 DEF Disconnect
    <3>2. Alone(t)  BY <1>1, <3>1 DEF Alone
    <3>3. t \notin served  BY <1>2, <3>1 DEF Come, Delivers
    <3>4. Delivers(turn[t], box, shown[t], FALSE, TRUE, traces[t])
      BY <1>2, <3>1 DEF Come, Delivers
    <3>5. (t \in served') = FALSE /\ (t \in gone') = TRUE  BY <3>1, <3>3
    <3>6. Come(t)'  BY <1>1, <3>1, <3>4, <3>5 DEF Come
    <3> QED  BY <3>2, <3>6
  <2> QED  BY <2>1, <2>2
<1>4. \A u \in Turns : Come(u)'  BY <1>1, <1>3, ComesApart
<1> QED  BY <1>1, <1>4 DEF TurnInv, Come

LEMMA TurnInit == TurnsInit => TurnInv
<1> SUFFICES ASSUME TurnsInit PROVE TurnInv  OBVIOUS
<1>1. ASSUME NEW t \in Turns
      PROVE  /\ turn[t] = NoTurn /\ inbox[t] = <<>> /\ shown[t] = <<>>
             /\ t \notin served /\ t \notin gone
  BY DEF TurnsInit
<1>2. \A s \in Sessions : DOMAIN messages[s] = {}
  <2>1. messages = [s \in Sessions |-> <<>>]  BY DEF TurnsInit
  <2> QED  BY <2>1
<1>3. ASSUME NEW t \in Turns
      PROVE  Delivers(turn[t], inbox[t], shown[t], t \in served, t \in gone, traces[t])
  <2>1. DOMAIN inbox[t] = {}  BY <1>1
  <2>2. ~Answered(NoTurn)  BY IdleIs DEF Answered, Refreshing
  <2>3. Delivers(NoTurn, inbox[t], shown[t], FALSE, FALSE, traces[t])
    BY <1>1, <2>1, <2>2, IdleIs DEF Delivers
  <2> QED  BY <1>1, <2>3 DEF Delivers
<1>4. ASSUME NEW t \in Turns PROVE turn[t].session = NoSession  BY <1>1, IdleIs
<1> QED  BY <1>2, <1>3, <1>4 DEF TurnInv

LEMMA TurnStep ==
  ASSUME TypeInv, TurnInv, [TurnsNext]_turnVars
  PROVE  TurnInv'
<1>1. ASSUME UNCHANGED <<turn, inbox, shown, served, gone, messages, traces>>
      PROVE  TurnInv'
  BY <1>1 DEF TurnInv
<1>2. CASE UNCHANGED turnVars  BY <1>1, <1>2 DEF turnVars
<1>3. ASSUME NEW t \in Turns, NEW request \in RequestsOf[t], AskTurn(t, request)
      PROVE  TurnInv'
  BY <1>3, TurnAsk
<1>4. ASSUME NEW t \in Turns, Work(t)  PROVE TurnInv'
  <2>1. CASE \/ ReadCache(t) \/ ReadHistory(t) \/ FillCache(t)
             \/ Refresh(t) \/ Reload(t) \/ RefreshSet(t)
    BY <2>1, TurnMemory
  <2>2. CASE SaveQuestion(t)
    <3>1. turn[t].pc = "ask"  BY <2>2, SaveQuestionDoes
    <3>2. PICK m \in MessageType : m = Message(t, "user", <<>>)  BY <2>2, SaveQuestionDoes
    <3>3. Saves(t, m, "answer")  BY <2>2, <3>2, SaveQuestionDoes
    <3>4. m.turn = t /\ m.role = "user"  BY <3>2 DEF Message
    <3> QED  BY <3>1, <3>3, <3>4, TurnSaves
  <2>3. CASE SaveAnswer(t)
    <3>1. turn[t].pc = "save"  BY <2>3, SaveAnswerDoes
    <3>2. PICK m \in MessageType : m = Message(t, "assistant", turn[t].out)
      BY <2>3, SaveAnswerDoes
    <3>3. Saves(t, m, "report")  BY <2>3, <3>2, SaveAnswerDoes
    <3>4. m.turn = t /\ m.role = "assistant" /\ m.text = turn[t].out  BY <3>2 DEF Message
    <3> QED  BY <3>1, <3>3, <3>4, TurnSaves
  <2>4. CASE BeginStream(t) \/ FinishError(t) \/ Chunk(t) \/ Notice(t) \/ EndOfStream(t)
    BY <2>4, TurnStream
  <2>5. CASE Answer(t)  BY <2>5, TurnAnswer
  <2>6. CASE Report(t)  BY <2>6, TurnReport
  <2>7. CASE FinishTurn(t)  BY <2>7, TurnFinish
  <2> QED  BY <1>4, <2>1, <2>2, <2>3, <2>4, <2>5, <2>6, <2>7 DEF Work
<1>5. ASSUME NEW t \in Turns, Receive(t) \/ Disconnect(t)  PROVE TurnInv'
  BY <1>5, TurnReceive
<1>6. ASSUME NEW s \in Sessions, CreateSession(s) \/ DeleteSession(s) \/ Expire(s)
      PROVE  TurnInv'
  BY <1>1, <1>6 DEF CreateSession, DeleteSession, Expire
<1>7. CASE TurnsOver  BY <1>2, <1>7 DEF TurnsOver
<1> QED  BY <1>2, <1>3, <1>4, <1>5, <1>6, <1>7 DEF TurnsNext

\* A client that is told its turn is done has been given the text that is kept: each answer
\* of the turn in its session's table is that text, and comes after the turn's other rows;
\* and its trace says completed.  Whatever calls failed, and however the turns overlapped.
THEOREM DoneIsKept ==
  TurnsSpec => []DoneMeansKept
<1>1. TypeInv /\ TurnInv /\ [TurnsNext]_turnVars => TypeInv' /\ TurnInv'
  BY TypeStep, TurnStep
<1>2. TurnsInit => TypeInv /\ TurnInv  BY TypeInit, TurnInit
<1>3. TurnInv /\ TypeInv => DoneMeansKept
  <2> SUFFICES ASSUME TurnInv, TypeInv, NEW t \in served
               PROVE  /\ traces[t] = "completed"
                      /\ turn[t].session # NoSession => Kept(t, messages[turn[t].session])
    BY DEF DoneMeansKept
  <2>1. t \in Turns  BY DEF TypeInv
  <2>2. shown[t] = turn[t].out /\ traces[t] = "completed"
    BY <2>1 DEF TurnInv, Delivers
  <2>3. turn[t].session # NoSession => Saved(t, turn[t], messages[turn[t].session])
    BY <2>1 DEF TurnInv
  <2> QED  BY <2>2, <2>3 DEF Saved, Kept
<1> QED  BY <1>1, <1>2, <1>3, PTL DEF TurnsSpec
=============================================================================
