-------------------------- MODULE ImportQueueProofs --------------------------
(***************************************************************************)
(* Proofs about ImportQueue, for any finite set of tasks, any prefetch and *)
(* any number of crashes and lost connections.                             *)
(***************************************************************************)
EXTENDS ImportQueue, FiniteSetTheorems, TLAPS

IInv ==
    /\ TypeOK
    /\ Bookkeeping
    /\ BusyOnDelivery
    /\ SettledForAReason
    /\ RestartedOnlyIfRedelivered
    /\ FirstStartsInOrder
    /\ PrefetchRespected

\* The sets of messages the counts range over are finite, and one message more
\* makes a count one larger.
LEMMA Counts ==
  ASSUME TypeOK
  PROVE  /\ IsFiniteSet(Published) /\ Cardinality(Published) \in Nat
         /\ \A s : IsFiniteSet(In(s)) /\ Cardinality(In(s)) \in Nat
<1>1. IsFiniteSet(Published)
  BY FiniteAssumption, FS_Subset DEF Published
<1>2. \A s : IsFiniteSet(In(s))
  BY FiniteAssumption, FS_Subset DEF In
<1> QED BY <1>1, <1>2, FS_CardinalityType

\* The initial state satisfies the inductive invariant.
LEMMA InitIInv == Init => IInv
<1> SUFFICES ASSUME Init PROVE IInv OBVIOUS
<1>1. TypeOK BY TasksAssumption, NumbersAssumption DEF Init, TypeOK, States
<1>2. In("unacked") = {} /\ In("sent") = {} /\ In("ready") = {} /\ Published = {}
  BY DEF Init, In, Published
<1>3. Bookkeeping
  BY <1>2 DEF Init, Bookkeeping, LinkFacts, HandFacts, StartFacts, OrderFacts
<1>4. PrefetchRespected
  BY <1>2, FS_EmptySet, NumbersAssumption DEF PrefetchRespected
<1>5. BusyOnDelivery /\ SettledForAReason /\ RestartedOnlyIfRedelivered /\ FirstStartsInOrder
  BY DEF Init, BusyOnDelivery, SettledForAReason, RestartedOnlyIfRedelivered,
         FirstStartsInOrder
<1> QED BY <1>1, <1>3, <1>4, <1>5 DEF IInv

\* Every step keeps the types.
LEMMA TypeStep ==
  ASSUME IInv, [Next]_vars PROVE TypeOK'
<1> USE NumbersAssumption, TasksAssumption
    DEF IInv, TypeOK, States, brokerVars, loopVars, histVars, budgetVars
<1>1. CASE Start BY <1>1 DEF Start
<1>2. CASE Crash BY <1>2 DEF Crash, Disconnect
<1>3. CASE Shutdown BY <1>3 DEF Shutdown
<1>4. CASE LoseLink BY <1>4 DEF LoseLink, Disconnect
<1>5. ASSUME NEW t \in Tasks, Enqueue(t) PROVE TypeOK'
  BY <1>5, Counts DEF Enqueue
<1>6. ASSUME NEW t \in Tasks, Arrive(t) PROVE TypeOK' BY <1>6 DEF Arrive
<1>7. ASSUME NEW t \in Tasks, Deliver(t) PROVE TypeOK' BY <1>7 DEF Deliver
<1>8. ASSUME NEW t \in Tasks, TakeGarbled(t) PROVE TypeOK' BY <1>8 DEF TakeGarbled
<1>9. ASSUME NEW t \in Tasks, Take(t) PROVE TypeOK' BY <1>9 DEF Take
<1>10. ASSUME NEW r \in {"ok", "error"}, HandlerReturns(r) PROVE TypeOK'
  BY <1>10 DEF HandlerReturns, BusyOnDelivery
<1>11. CASE Settle BY <1>11 DEF Settle
<1>12. CASE StopConsuming BY <1>12 DEF StopConsuming
<1>13. CASE UNCHANGED vars BY <1>13 DEF vars
<1> HIDE DEF IInv, TypeOK
<1> QED BY <1>1, <1>2, <1>3, <1>4, <1>5, <1>6, <1>7, <1>8, <1>9, <1>10, <1>11,
        <1>12, <1>13 DEF Next, Consume

\* What each step does to the place of each message.
LEMMA StateStep ==
  ASSUME IInv, [Next]_vars,
         \A t \in Tasks : ~Enqueue(t) /\ ~Deliver(t)
  PROVE  \A t \in Tasks :
           /\ state'[t] = "new" <=> state[t] = "new"
           /\ state'[t] = "unacked" => state[t] = "unacked"
<1> DEFINE Kept == \A t \in Tasks :
      /\ state'[t] = "new" <=> state[t] = "new"
      /\ state'[t] = "unacked" => state[t] = "unacked"
<1> SUFFICES Kept OBVIOUS
<1> USE DEF IInv, TypeOK, brokerVars
<1>1. CASE Start \/ Shutdown \/ StopConsuming \/ UNCHANGED vars
  BY <1>1 DEF Start, Shutdown, StopConsuming, vars
<1>2. CASE Crash \/ LoseLink BY <1>2 DEF Crash, LoseLink, Disconnect, In
<1>3. ASSUME NEW t \in Tasks, Arrive(t) PROVE Kept BY <1>3 DEF Arrive, First
<1>4. ASSUME NEW t \in Tasks, TakeGarbled(t) PROVE Kept BY <1>4 DEF TakeGarbled, First
<1>5. ASSUME NEW t \in Tasks, Take(t) PROVE Kept BY <1>5 DEF Take
<1>6. ASSUME NEW r \in {"ok", "error"}, HandlerReturns(r) PROVE Kept
  BY <1>6 DEF HandlerReturns
<1>7. CASE Settle BY <1>7 DEF Settle, BusyOnDelivery
<1> HIDE DEF IInv, TypeOK, Kept
<1> QED BY <1>1, <1>2, <1>3, <1>4, <1>5, <1>6, <1>7 DEF Next, Consume

\* What a lost connection does to a message that had reached the broker.
LEMMA DisconnectStep ==
  ASSUME TypeOK, Disconnect
  PROVE  \A t \in Tasks :
           /\ state[t] = "unacked" => state'[t] = "ready" /\ redelivered'[t]
           /\ state[t] \notin {"unacked", "sent"} => state'[t] = state[t]
           /\ state[t] = "sent" => state'[t] \in {"ready", "lost"}
           /\ redelivered[t] => redelivered'[t]
<1> TAKE t \in Tasks
<1>1. /\ state[t] = "unacked" => state'[t] = "ready"
      /\ state[t] \notin {"unacked", "sent"} => state'[t] = state[t]
      /\ state[t] = "sent" => state'[t] \in {"ready", "lost"}
  BY DEF Disconnect, In
<1>2. redelivered'[t] <=> redelivered[t] \/ state[t] = "unacked"
  BY Zenon DEF Disconnect
<1> QED BY <1>1, <1>2

\* Only Enqueue adds a message; the count it numbers messages with grows by one.
LEMMA PublishedStep ==
  ASSUME IInv, [Next]_vars
  PROVE  /\ (\A t \in Tasks : ~Enqueue(t)) => Published' = Published
         /\ (\E t \in Tasks : Enqueue(t)) => Cardinality(Published') = Cardinality(Published) + 1
<1>0. TypeOK BY DEF IInv
<1>1. ASSUME NEW t \in Tasks, Enqueue(t)
      PROVE  Cardinality(Published') = Cardinality(Published) + 1
  <2>1. Published' = Published \cup {t} /\ t \notin Published
    BY <1>0, <1>1 DEF Enqueue, Published, TypeOK
  <2> QED BY <1>0, <2>1, Counts, FS_AddElement
<1>2. CASE \A t \in Tasks : ~Enqueue(t)
  <2>1. \A t \in Tasks : state'[t] = "new" <=> state[t] = "new"
    <3>1. CASE \E t \in Tasks : Deliver(t)
      BY <1>0, <3>1 DEF Deliver, First, TypeOK
    <3> QED BY <1>2, <3>1, StateStep
  <2>2. \A t : t \in Published' <=> t \in Published
    BY <2>1 DEF Published
  <2> QED BY <1>2, <2>2
<1> QED BY <1>1, <1>2

\* A delivery is made only below the limit; nothing else adds to the unacked.
LEMMA PrefetchStep ==
  ASSUME IInv, [Next]_vars PROVE PrefetchRespected'
<1>0. TypeOK /\ PrefetchRespected BY DEF IInv
<1>1. ASSUME NEW t \in Tasks, Deliver(t) PROVE PrefetchRespected'
  <2>1. In("unacked")' = In("unacked") \cup {t}
    BY <1>0, <1>1 DEF Deliver, In, TypeOK
  <2>2. t \notin In("unacked")
    BY <1>1 DEF Deliver, First, In
  <2>3. Cardinality(In("unacked")') = Cardinality(In("unacked")) + 1
    BY <1>0, <2>1, <2>2, Counts, FS_AddElement
  <2> QED BY <1>0, <1>1, <2>3, Counts, NumbersAssumption
      DEF Deliver, PrefetchRespected
<1>2. CASE \A t \in Tasks : ~Deliver(t)
  <2>1. In("unacked")' \subseteq In("unacked")
    <3>1. CASE \E t \in Tasks : Enqueue(t)
      BY <1>0, <3>1 DEF Enqueue, In, TypeOK
    <3>2. CASE \A t \in Tasks : ~Enqueue(t)
      BY <1>2, <3>2, StateStep DEF In
    <3> QED BY <3>1, <3>2
  <2>2. Cardinality(In("unacked")') <= Cardinality(In("unacked"))
    BY <1>0, <2>1, Counts, FS_Subset
  <2>3. IsFiniteSet(In("unacked")') /\ Cardinality(In("unacked")') \in Nat
    BY <1>0, <2>1, Counts, FS_Subset, FS_CardinalityType
  <2> QED BY <1>0, <2>2, <2>3, Counts, NumbersAssumption DEF PrefetchRespected
<1> QED BY <1>1, <1>2

\* Every step keeps what concerns the order of messages ...
LEMMA OrderStep ==
  ASSUME IInv, [Next]_vars PROVE OrderFacts' /\ FirstStartsInOrder'
<1> DEFINE Order == OrderFacts /\ FirstStartsInOrder
<1> SUFFICES Order' OBVIOUS
<1>0. TypeOK' /\ Cardinality(Published) \in Nat BY TypeStep, Counts DEF IInv
<1>b. (\A t \in Tasks : ~Enqueue(t)) => Published' = Published BY PublishedStep
<1> USE <1>0, TasksAssumption
    DEF IInv, TypeOK, brokerVars, loopVars, histVars, budgetVars,
        Bookkeeping, LinkFacts, HandFacts, StartFacts, OrderFacts, FirstStartsInOrder, In
<1>1. CASE Start BY <1>1, <1>b DEF Start, Enqueue, Linked, Running
<1>2. CASE Crash \/ LoseLink
  <2>1. Published' = Published BY <1>2, <1>b DEF Crash, LoseLink, Linked, Enqueue
  <2>2. Disconnect /\ starts' = starts BY <1>2 DEF Crash, LoseLink
  <2>3. OrderFacts' BY <2>1, <2>2 DEF Disconnect
  <2>4. FirstStartsInOrder' BY <2>2 DEF Disconnect
  <2> QED BY <2>3, <2>4
<1>3. CASE Shutdown BY <1>3, <1>b DEF Shutdown, Enqueue
<1>5. ASSUME NEW t \in Tasks, Enqueue(t) PROVE Order'
  <2>1. Cardinality(Published') = Cardinality(Published) + 1 BY <1>5, PublishedStep
  <2> QED BY <1>5, <2>1 DEF Enqueue, Linked, Running
<1>6. ASSUME NEW t \in Tasks, Arrive(t) PROVE Order'
  BY <1>6, <1>b DEF Arrive, First, Linked, Running, Enqueue
<1>7. ASSUME NEW t \in Tasks, Deliver(t) PROVE Order'
  BY <1>7, <1>b DEF Deliver, First, Linked, Running, Enqueue
<1>8. ASSUME NEW t \in Tasks, TakeGarbled(t) PROVE Order'
  BY <1>8, <1>b DEF TakeGarbled, First, Enqueue
<1>9. ASSUME NEW t \in Tasks, Take(t) PROVE Order'
  BY <1>9, <1>b DEF Take, First, Enqueue
<1>10. ASSUME NEW r \in {"ok", "error"}, HandlerReturns(r) PROVE Order'
  BY <1>10, <1>b DEF HandlerReturns, Enqueue
<1>11. CASE Settle
  <2>1. Published' = Published BY <1>11, <1>b DEF Settle, Enqueue
  <2>2. OrderFacts' BY <1>11, <2>1 DEF Settle, BusyOnDelivery
  <2>3. FirstStartsInOrder' BY <1>11 DEF Settle, BusyOnDelivery
  <2> QED BY <2>2, <2>3
<1>12. CASE StopConsuming BY <1>12, <1>b DEF StopConsuming, Enqueue
<1>13. CASE UNCHANGED vars BY <1>13, <1>b DEF vars, Enqueue
<1> HIDE DEF IInv, TypeOK, Order
<1> QED BY <1>1, <1>2, <1>3, <1>5, <1>6, <1>7, <1>8, <1>9, <1>10, <1>11,
        <1>12, <1>13 DEF Next, Consume

\* ... and what concerns the delivery in hand and the fate of each task.
LEMMA FateStep ==
  ASSUME IInv, [Next]_vars
  PROVE  (/\ LinkFacts /\ HandFacts /\ StartFacts /\ BusyOnDelivery
          /\ SettledForAReason /\ RestartedOnlyIfRedelivered)'
<1> DEFINE Fate == /\ LinkFacts /\ HandFacts /\ StartFacts /\ BusyOnDelivery
                   /\ SettledForAReason /\ RestartedOnlyIfRedelivered
<1> SUFFICES Fate' OBVIOUS
<1>0. TypeOK' BY TypeStep
<1> USE <1>0, TasksAssumption
    DEF IInv, TypeOK, brokerVars, loopVars, histVars, budgetVars,
        Bookkeeping, LinkFacts, HandFacts, StartFacts, BusyOnDelivery,
        SettledForAReason, RestartedOnlyIfRedelivered, In
<1>1. CASE Start BY <1>1 DEF Start
<1>2. CASE Crash
  <2>1. LinkFacts' /\ HandFacts' BY <1>2 DEF Crash, Disconnect
  <2>3. \A t \in Tasks : starts[t] > 0 /\ state[t] = "ready" => redelivered[t]
    OBVIOUS
  <2>4. Disconnect /\ starts' = starts BY <1>2 DEF Crash
  <2>5. StartFacts' BY <2>3, <2>4, DisconnectStep
  <2>2. (BusyOnDelivery /\ SettledForAReason /\ RestartedOnlyIfRedelivered)'
    BY <1>2 DEF Crash, Disconnect
  <2> QED BY <2>1, <2>2, <2>5
<1>3. CASE Shutdown BY <1>3 DEF Shutdown
<1>4. CASE LoseLink
  <2>1. LinkFacts' /\ HandFacts'
    <3>1. LinkFacts' BY <1>4 DEF LoseLink, Disconnect, Linked, Running
    <3>2. consumer' # "off" => consumer' = consumer BY <1>4 DEF LoseLink
    <3>3. HandFacts' BY <1>4, <3>2, DisconnectStep DEF LoseLink, Linked
    <3> QED BY <3>1, <3>3
  <2>2. (BusyOnDelivery /\ SettledForAReason /\ RestartedOnlyIfRedelivered)'
    BY <1>4 DEF LoseLink, Disconnect, Linked
  <2>3. \A t \in Tasks : starts[t] > 0 /\ state[t] = "ready" => redelivered[t]
    BY <1>4 DEF LoseLink, Linked
  <2>4. Disconnect /\ starts' = starts BY <1>4 DEF LoseLink
  <2>5. StartFacts' BY <2>3, <2>4, DisconnectStep
  <2> QED BY <2>1, <2>2, <2>5
<1>5. ASSUME NEW t \in Tasks, Enqueue(t) PROVE Fate'
  BY <1>5 DEF Enqueue, Linked, Running
<1>6. ASSUME NEW t \in Tasks, Arrive(t) PROVE Fate'
  BY <1>6 DEF Arrive, First, Linked, Running
<1>7. ASSUME NEW t \in Tasks, Deliver(t) PROVE Fate'
  BY <1>7 DEF Deliver, First, Linked, Running
<1>8. ASSUME NEW t \in Tasks, TakeGarbled(t) PROVE Fate'
  BY <1>8 DEF TakeGarbled, First
<1>9. ASSUME NEW t \in Tasks, Take(t) PROVE Fate' BY <1>9 DEF Take, First
<1>10. ASSUME NEW r \in {"ok", "error"}, HandlerReturns(r) PROVE Fate'
  BY <1>10 DEF HandlerReturns
<1>11. CASE Settle
  <2>1. LinkFacts' /\ HandFacts' /\ BusyOnDelivery' BY <1>11 DEF Settle
  <2>2. StartFacts' BY <1>11 DEF Settle
  <2>3. SettledForAReason' /\ RestartedOnlyIfRedelivered' BY <1>11 DEF Settle
  <2> QED BY <2>1, <2>2, <2>3
<1>12. CASE StopConsuming BY <1>12 DEF StopConsuming
<1>13. CASE UNCHANGED vars BY <1>13 DEF vars
<1> HIDE DEF IInv, TypeOK, Fate
<1> QED BY <1>1, <1>2, <1>3, <1>4, <1>5, <1>6, <1>7, <1>8, <1>9, <1>10, <1>11,
        <1>12, <1>13 DEF Next, Consume

\* The inductive invariant holds of every behaviour.
THEOREM Invariance == Spec => []IInv
<1>1. Init => IInv BY InitIInv
<1>2. IInv /\ [Next]_vars => IInv'
  BY TypeStep, PrefetchStep, OrderStep, FateStep DEF IInv, Bookkeeping
<1> QED BY <1>1, <1>2, PTL DEF Spec

\* For any number of tasks, crashes and lost connections: a task is settled only
\* for a reason, restarted only when redelivered, first started in order, and
\* no more than Prefetch deliveries are ever out.
THEOREM QueueSafety ==
  Spec => [](/\ TypeOK /\ Bookkeeping /\ SettledForAReason /\ RestartedOnlyIfRedelivered
             /\ FirstStartsInOrder /\ PrefetchRespected /\ BusyOnDelivery)
  BY Invariance, PTL DEF IInv

\* The queue implements at-least-once delivery: every step accepts jobs,
\* performs one, settles one that is pending, or changes nothing promised.
THEOREM ImplementsAtLeastOnce == Spec => AtLeastOnceSpec
<1>1. Init => Work!Init BY DEF Init, Work!Init, phase
<1>2. ASSUME IInv, [Next]_vars PROVE [Work!Next]_Work!workVars
  <2> USE <1>2 DEF IInv, TypeOK, States, brokerVars, loopVars, histVars, budgetVars, In, First
  <2>1. CASE Crash \/ LoseLink
    <3>1. PICK arrived \in SUBSET In("sent") :
             state' = [t \in Tasks |->
               CASE state[t] = "unacked" -> "ready"
                 [] t \in arrived        -> "ready"
                 [] t \in In("sent") \ arrived -> "lost"
                 [] OTHER                -> state[t]]
      BY <2>1 DEF Crash, LoseLink, Disconnect
    <3>2. Work!Accept(arrived)
      BY <2>1, <3>1 DEF Crash, LoseLink, Work!Accept, phase
    <3> QED BY <3>2 DEF Work!Next
  <2>2. ASSUME NEW t \in Tasks, Arrive(t) PROVE Work!Accept({t})
    BY <2>2 DEF Arrive, Work!Accept, phase
  <2>3. CASE HandlerReturns("ok")
    BY <2>3 DEF HandlerReturns, Work!Perform, Work!Next, phase, BusyOnDelivery
  <2>4. CASE Settle
    <3>1. current \in Tasks /\ phase[current] = "pending"
      BY <2>4 DEF Settle, phase, BusyOnDelivery
    <3>2. CASE link = "lost"
      <4>1. state' = state /\ handled' = handled BY <2>4, <3>2 DEF Settle
      <4> QED BY <4>1 DEF Work!workVars, phase
    <3>3. CASE link # "lost" /\ result = "ok"
      <4>1. Work!Finish(current)
        BY <2>4, <3>1, <3>3 DEF Settle, Work!Finish, phase, Bookkeeping, HandFacts
      <4> QED BY <3>1, <4>1 DEF Work!Next
    <3>4. CASE link # "lost" /\ result # "ok"
      <4>1. Work!Reject(current)
        BY <2>4, <3>1, <3>4 DEF Settle, Work!Reject, phase
      <4> QED BY <3>1, <4>1 DEF Work!Next
    <3> QED BY <3>2, <3>3, <3>4
  <2>5. ASSUME NEW t \in Tasks, TakeGarbled(t) PROVE Work!Reject(t)
    BY <2>5 DEF TakeGarbled, Work!Reject, phase
  <2>6. CASE Start \/ Shutdown \/ StopConsuming \/ UNCHANGED vars \/ HandlerReturns("error")
    BY <2>6 DEF Start, Shutdown, StopConsuming, vars, HandlerReturns, Work!workVars, phase
  <2>7. ASSUME NEW t \in Tasks, Enqueue(t) \/ Deliver(t) \/ Take(t)
        PROVE  UNCHANGED Work!workVars
    BY <2>7 DEF Enqueue, Deliver, Take, Work!workVars, phase
  <2> HIDE DEF IInv, TypeOK, States
  <2>8. Work!Next \/ UNCHANGED Work!workVars
    BY <2>1, <2>2, <2>3, <2>4, <2>5, <2>6, <2>7 DEF Next, Consume, Work!Next
  <2> QED BY <2>8
<1> QED BY <1>1, <1>2, Invariance, PTL DEF Spec, Work!Spec, AtLeastOnceSpec
=============================================================================
