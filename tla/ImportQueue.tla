----------------------------- MODULE ImportQueue -----------------------------
(**************************************************************************)
(* The asynchronous import queue of internal/importqueue/rabbitmq.go: one *)
(* durable RabbitMQ queue, the server process that publishes tasks to it  *)
(* and the goroutine in that process that consumes them, one at a time,   *)
(* with manual acknowledgement.  The task handler is left open here: it   *)
(* ends, with or without an error (KnowledgeImport models it).            *)
(*                                                                        *)
(* The process may crash, be shut down or lose its connection between any *)
(* two steps.  It never reconnects: the deliveries channel is closed, the *)
(* consumer goroutine returns, and only a new process consumes again.     *)
(* The broker itself is external; it is durable, so its own restart is a  *)
(* lost connection.                                                       *)
(**************************************************************************)
EXTENDS Naturals, FiniteSets

CONSTANTS
    Tasks,       \* messages that may be published
    Garbled,     \* those whose body is not a JSON task (foreign publishers)
    NoTask,      \* stands for the absence of a delivery
    Prefetch,    \* ImportQueueConfig.PrefetchCount
    MaxCrashes,  \* bound on crashes and shutdowns
    MaxLosses    \* bound on lost connections

ASSUME TasksAssumption == Garbled \subseteq Tasks /\ NoTask \notin Tasks
ASSUME FiniteAssumption == IsFiniteSet(Tasks)
ASSUME NumbersAssumption ==
    Prefetch \in Nat \ {0} /\ MaxCrashes \in Nat /\ MaxLosses \in Nat

VARIABLES
    state,        \* where each message is
    pos,          \* publishing order; a requeued message keeps its place
    redelivered,  \* the broker's redelivered flag
    server,       \* the server process
    link,         \* its connection to the broker
    consumer,     \* the consumer goroutine
    current,      \* the delivery it works on
    result,       \* what the handler returned for it
    starts,       \* how often the handler was started for each task
    handled,      \* tasks the handler has completed without an error
    failed,       \* tasks the handler has returned an error for
    crashes, losses

brokerVars == <<state, pos, redelivered>>
loopVars   == <<consumer, current, result>>
histVars   == <<starts, handled, failed>>
budgetVars == <<crashes, losses>>
vars == <<brokerVars, server, link, loopVars, histVars, budgetVars>>

\* new: not published; sent: published, on the wire; lost: was on the wire
\* when the connection went down (the publisher asked for no confirmation);
\* ready: in the queue; unacked: delivered, not settled
States == {"new", "sent", "lost", "ready", "unacked", "acked", "dropped"}

TypeOK ==
    /\ state \in [Tasks -> States]
    /\ pos \in [Tasks -> Nat]
    /\ redelivered \in [Tasks -> BOOLEAN]
    /\ server \in {"down", "up", "stopping"}
    /\ link \in {"up", "lost"}
    /\ consumer \in {"off", "idle", "busy", "settling"}
    /\ current \in Tasks \cup {NoTask}
    /\ result \in {"none", "ok", "error"}
    /\ starts \in [Tasks -> Nat]
    /\ handled \in SUBSET Tasks
    /\ failed \in SUBSET Tasks
    /\ crashes \in 0..MaxCrashes
    /\ losses \in 0..MaxLosses

Published == {t \in Tasks : state[t] # "new"}

In(s) == {t \in Tasks : state[t] = s}

First(t, s) == state[t] = s /\ \A u \in In(s) : pos[t] <= pos[u]

Running == server # "down"
Linked  == Running /\ link = "up"

Init ==
    /\ state = [t \in Tasks |-> "new"]
    /\ pos = [t \in Tasks |-> 0]
    /\ redelivered = [t \in Tasks |-> FALSE]
    /\ server = "down"
    /\ link = "lost"
    /\ consumer = "off"
    /\ current = NoTask
    /\ result = "none"
    /\ starts = [t \in Tasks |-> 0]
    /\ handled = {}
    /\ failed = {}
    /\ crashes = 0
    /\ losses = 0

(*************************************************************************)
(* The process                                                           *)
(*************************************************************************)

\* NewRabbitMQQueue and StartConsumer.  Without a broker the process exits
\* (log.Fatalf) and is still down.
Start ==
    /\ server = "down"
    /\ server' = "up"
    /\ link' = "up"
    /\ consumer' = "idle"
    /\ UNCHANGED <<brokerVars, current, result, histVars, budgetVars>>

\* The connection is gone: the broker puts what was unacked back in its old
\* place, and of what was on the wire a prefix has arrived.
Disconnect ==
    \E arrived \in SUBSET In("sent") :
        /\ \A t \in arrived, u \in In("sent") : pos[u] < pos[t] => u \in arrived
        /\ state' = [t \in Tasks |->
               CASE state[t] = "unacked" -> "ready"
                 [] t \in arrived        -> "ready"
                 [] t \in In("sent") \ arrived -> "lost"
                 [] OTHER                -> state[t]]
        /\ redelivered' = [t \in Tasks |-> redelivered[t] \/ state[t] = "unacked"]
        /\ UNCHANGED pos

Crash ==
    /\ Running
    /\ crashes < MaxCrashes
    /\ crashes' = crashes + 1
    /\ server' = "down"
    /\ link' = "lost"
    /\ consumer' = "off"
    /\ current' = NoTask
    /\ result' = "none"
    /\ Disconnect
    /\ UNCHANGED <<histVars, losses>>

\* SIGTERM cancels the context the consumer and its handler run under.  The
\* process exits (a Crash) some time later, whatever they are doing.
Shutdown ==
    /\ server = "up"
    /\ crashes < MaxCrashes
    /\ server' = "stopping"
    /\ UNCHANGED <<brokerVars, link, loopVars, histVars, budgetVars>>

\* Mutant: a consumer blocked in its select does not notice the closed channel.
LoseLinkUnnoticed ==
    /\ Linked
    /\ losses < MaxLosses
    /\ losses' = losses + 1
    /\ link' = "lost"
    /\ Disconnect
    /\ UNCHANGED <<server, loopVars, histVars, crashes>>

\* The deliveries channel is closed, with what was prefetched still in it.  A
\* consumer blocked in its select returns; one inside the handler goes on.
LoseLink ==
    /\ Linked
    /\ losses < MaxLosses
    /\ losses' = losses + 1
    /\ link' = "lost"
    /\ consumer' = IF consumer = "idle" THEN "off" ELSE consumer
    /\ Disconnect
    /\ UNCHANGED <<server, current, result, histVars, crashes>>

(*************************************************************************)
(* Publishing                                                            *)
(*************************************************************************)

\* Enqueue: without a connection it returns an error and nothing changes;
\* otherwise it returns as soon as the message is written to the socket.
Enqueue(t) ==
    /\ Linked
    /\ state[t] = "new"
    /\ state' = [state EXCEPT ![t] = "sent"]
    /\ pos' = [pos EXCEPT ![t] = Cardinality(Published)]
    /\ UNCHANGED <<redelivered, server, link, loopVars, histVars, budgetVars>>

Arrive(t) ==
    /\ Linked
    /\ First(t, "sent")
    /\ state' = [state EXCEPT ![t] = "ready"]
    /\ UNCHANGED <<pos, redelivered, server, link, loopVars, histVars, budgetVars>>

(*************************************************************************)
(* Consuming                                                             *)
(*************************************************************************)

\* The broker delivers in queue order while fewer than Prefetch deliveries
\* are unacked.
Deliver(t) ==
    /\ Linked
    /\ consumer # "off"
    /\ Cardinality(In("unacked")) < Prefetch
    /\ First(t, "ready")
    /\ state' = [state EXCEPT ![t] = "unacked"]
    /\ UNCHANGED <<pos, redelivered, server, link, loopVars, histVars, budgetVars>>

\* The select receives the oldest prefetched delivery.  Once the context is
\* cancelled both cases are ready and Go picks either.
TakeGarbled(t) ==
    /\ consumer = "idle"
    /\ First(t, "unacked")
    /\ t \in Garbled
    /\ state' = [state EXCEPT ![t] = "dropped"]
    /\ UNCHANGED <<pos, redelivered, server, link, loopVars, histVars, budgetVars>>

\* Mutant: the delivery is acknowledged before the handler runs.
TakeAckFirst(t) ==
    /\ consumer = "idle"
    /\ First(t, "unacked")
    /\ t \notin Garbled
    /\ state' = [state EXCEPT ![t] = "acked"]
    /\ consumer' = "busy"
    /\ current' = t
    /\ starts' = [starts EXCEPT ![t] = @ + 1]
    /\ UNCHANGED <<pos, redelivered, server, link, result, handled, failed, budgetVars>>

Take(t) ==
    /\ consumer = "idle"
    /\ First(t, "unacked")
    /\ t \notin Garbled
    /\ consumer' = "busy"
    /\ current' = t
    /\ starts' = [starts EXCEPT ![t] = @ + 1]
    /\ UNCHANGED <<brokerVars, server, link, result, handled, failed, budgetVars>>

HandlerReturns(r) ==
    /\ consumer = "busy"
    /\ consumer' = "settling"
    /\ result' = r
    /\ handled' = IF r = "ok" THEN handled \cup {current} ELSE handled
    /\ failed' = IF r = "error" THEN failed \cup {current} ELSE failed
    /\ UNCHANGED <<brokerVars, server, link, current, starts, budgetVars>>

\* Ack after success, Nack without requeue after an error.  Its own error is
\* ignored; without a connection the next receive finds the channel closed.
Settle ==
    /\ consumer = "settling"
    /\ state' = IF link = "lost" THEN state
                ELSE [state EXCEPT ![current] = IF result = "ok" THEN "acked" ELSE "dropped"]
    /\ consumer' = IF link = "lost" THEN "off" ELSE "idle"
    /\ current' = NoTask
    /\ result' = "none"
    /\ UNCHANGED <<pos, redelivered, server, link, histVars, budgetVars>>

\* Mutant: the goroutine runs under a context that ends before the process does.
StopEarly ==
    /\ consumer = "idle"
    /\ consumer' = "off"
    /\ UNCHANGED <<brokerVars, server, link, current, result, histVars, budgetVars>>

\* case <-ctx.Done(): return
StopConsuming ==
    /\ server = "stopping"
    /\ consumer = "idle"
    /\ consumer' = "off"
    /\ UNCHANGED <<brokerVars, server, link, current, result, histVars, budgetVars>>

(*************************************************************************)
(* Specification                                                         *)
(*************************************************************************)

Consume ==
    \/ \E t \in Tasks : Arrive(t) \/ Deliver(t) \/ TakeGarbled(t) \/ Take(t)
    \/ \E r \in {"ok", "error"} : HandlerReturns(r)
    \/ Settle

Next ==
    \/ Start \/ Crash \/ Shutdown \/ LoseLink
    \/ \E t \in Tasks : Enqueue(t)
    \/ Consume
    \/ StopConsuming

Spec == Init /\ [][Next]_vars

\* The broker delivers, the handler ends (every call it makes has a timeout),
\* the goroutine is scheduled, a process that is told to stop exits, and one
\* that is down is started again (restart: unless-stopped).
FairSpec ==
    /\ Spec
    /\ WF_vars(Consume)
    /\ WF_vars(Start)
    /\ WF_vars(server = "stopping" /\ Crash)

(*************************************************************************)
(* Properties                                                            *)
(*************************************************************************)
Settled(t) == state[t] \in {"acked", "dropped"}

\* A message leaves the queue as done only after the handler completed it, and
\* is thrown away only if it is no task or the handler returned an error:
\* crashes, shutdowns and lost connections in between lose no task that had
\* reached the broker.
SettledForAReason ==
    \A t \in Tasks :
        /\ state[t] = "acked" => t \in handled
        /\ state[t] = "dropped" => t \in Garbled \cup failed

\* The handler is started a second time for a task only if the broker has
\* flagged the message as redelivered: in one process, and without a crash or
\* a lost connection, a task is handled once.
RestartedOnlyIfRedelivered ==
    \A t \in Tasks : starts[t] > 1 => redelivered[t]

\* Tasks are started in the order they were published: when one has been
\* started, each one the broker got before it was started too, or was thrown
\* away as garbled.  Redelivery does not reorder first starts.
FirstStartsInOrder ==
    \A t, u \in Tasks :
        /\ starts[u] > 0
        /\ pos[t] < pos[u]
        /\ state[t] \in {"ready", "unacked", "acked", "dropped"}
        => starts[t] > 0 \/ (t \in Garbled /\ state[t] = "dropped")

\* Qos: no more than Prefetch deliveries are out at once, counting the one in
\* the handler.
PrefetchRespected == Cardinality(In("unacked")) <= Prefetch

\* While the connection is up, the task in the handler is one the broker holds
\* unacked for this consumer; without it the broker has it queued again, so a
\* second process would start it while the first still works on it.
BusyOnDelivery ==
    consumer \in {"busy", "settling"} =>
        /\ current \in Tasks
        /\ state[current] = IF link = "up" THEN "unacked" ELSE "ready"

\* What a lost connection and an ended process leave behind.
LinkFacts ==
    /\ server = "down" => link = "lost" /\ consumer = "off"
    /\ link = "lost" => In("unacked") = {} /\ In("sent") = {} /\ consumer # "idle"

\* What the goroutine knows of the delivery it works on.
HandFacts ==
    /\ consumer \in {"busy", "settling"} =>
           /\ current \notin Garbled
           /\ starts[current] > 0
           /\ link = "lost" => redelivered[current]
    /\ consumer = "settling" =>
           \/ result = "ok" /\ current \in handled
           \/ result = "error" /\ current \in failed

\* Which messages can have been started.
StartFacts == \A t \in Tasks :
    /\ starts[t] > 0 => state[t] \in {"ready", "unacked", "acked", "dropped"}
    /\ starts[t] > 0 /\ state[t] \in {"ready", "unacked"} =>
           redelivered[t] \/ (consumer \in {"busy", "settling"} /\ current = t)
    /\ state[t] = "acked" => starts[t] > 0
    /\ state[t] = "dropped" /\ t \notin Garbled => starts[t] > 0

\* The numbering follows the order on the wire, in the queue and at the client.
OrderFacts == \A t, u \in Tasks :
    /\ state[t] # "new" => pos[t] < Cardinality(Published)
    /\ state[t] # "new" /\ state[u] # "new" /\ t # u => pos[t] # pos[u]
    /\ state[t] = "sent" /\ state[u] \in {"ready", "unacked", "acked", "dropped"} =>
           pos[u] < pos[t]
    /\ state[t] = "ready" /\ state[u] = "unacked" => pos[u] < pos[t]

\* With TypeOK and the invariants above, inductive.
Bookkeeping == LinkFacts /\ HandFacts /\ StartFacts /\ OrderFacts

\* A task that reached the broker is settled in the end, unless the process
\* lost its connection and lives on: nothing reconnects it.
QueuedIsSettled ==
    \A t \in Tasks : state[t] = "ready" ~> Settled(t) \/ (server = "up" /\ link = "lost")

(*************************************************************************)
(* What the queue promises, free of deliveries and processes             *)
(*************************************************************************)
phase == [t \in Tasks |->
    CASE state[t] \in {"new", "sent", "lost"} -> "none"
      [] state[t] \in {"ready", "unacked"}    -> "pending"
      [] state[t] = "acked"                   -> "done"
      [] OTHER                                -> "rejected"]

Work == INSTANCE AtLeastOnce WITH Jobs <- Tasks, phase <- phase, performed <- handled

AtLeastOnceSpec == Work!Spec
=============================================================================
