------------------------ MODULE ApprovalManagerProofs ------------------------
(*************************************************************************)
(* Proofs about ApprovalManager, for any number of calls, requests and   *)
(* retries and any deadline.                                             *)
(*************************************************************************)
EXTENDS ApprovalManager, TLAPS

\* The initial state satisfies the inductive invariant.
LEMMA InitIInv == Init => IInv
  BY ItemsDisjoint, ActionAssumption, TimeAssumption
  DEF Init, IInv, TypeOK, CarriedFacts, RunsOnlyApproved, ChannelAgrees,
      WaiterToldTruth, OneWinner, AcceptedStands, PendingHasWaiter,
      McpRunsApproved, Items, None, Status, Decided, Decisions, StatusOf,
      WaitPC, DecidePC, RetryPC

\* A step of any kind keeps the types.
LEMMA TypeStep ==
  ASSUME IInv, [Next]_vars PROVE TypeOK'
<1> USE ItemsDisjoint, ActionAssumption, TimeAssumption
    DEF IInv, TypeOK, Items, None, Status, Decided, Decisions, StatusOf,
        DecisionFrom, WaitPC, DecidePC, RetryPC, waitVars, decideVars, retryVars
<1>1. ASSUME NEW c \in Calls, CallStep(c) PROVE TypeOK'
  <2>1. CASE CreateApproval(c) BY <2>1 DEF CreateApproval, Register
  <2>2. CASE WaitCancelled(c) BY <2>2 DEF WaitCancelled
  <2>3. CASE WaitDecided(c) BY <2>3 DEF WaitDecided, Return, CarriedFacts
  <2>4. CASE WaitBlock(c) BY <2>4 DEF WaitBlock
  <2>5. CASE WaitReceive(c) BY <2>5 DEF WaitReceive, Return
  <2>6. CASE WaitTimer(c) BY <2>6 DEF WaitTimer
  <2>7. CASE ExpireLock(c) BY <2>7 DEF ExpireLock, Settle
  <2>8. CASE ExpireTooLate(c) BY <2>8 DEF ExpireTooLate, Return
  <2>9. CASE ExpireNotify(c) BY <2>9 DEF ExpireNotify, Send, Return
  <2>10. CASE RunTool(c) BY <2>10 DEF RunTool
  <2> QED BY <1>1, <2>1, <2>2, <2>3, <2>4, <2>5, <2>6, <2>7, <2>8, <2>9, <2>10
      DEF CallStep, WaitStep
<1>2. ASSUME NEW d \in Deciders, NEW i \in Items,
             \/ SubmitUnknown(d, i)
             \/ \E decision \in {"approve", "reject"} : Submit(d, i, decision)
      PROVE TypeOK'
  BY <1>2 DEF SubmitUnknown, Submit
<1>3. ASSUME NEW d \in Deciders, DecideStep(d) PROVE TypeOK'
  <2>1. CASE DecideLock(d) BY <2>1 DEF DecideLock, Settle, CarriedFacts
  <2>2. CASE DecideTooLate(d) BY <2>2 DEF DecideTooLate
  <2>3. CASE DecideSend(d) BY <2>3 DEF DecideSend, Send, CarriedFacts
  <2>4. CASE DecideReply(d) BY <2>4 DEF DecideReply, CarriedFacts
  <2> QED BY <1>3, <2>1, <2>2, <2>3, <2>4 DEF DecideStep
<1>4. ASSUME NEW i \in McpItems, McpCreate(i) PROVE TypeOK'
  BY <1>4 DEF McpCreate, Register
<1>5. ASSUME NEW r \in Retries, NEW i \in Items,
             McpUnknown(r, i) \/ \E action \in Actions : McpGet(r, i, action)
      PROVE TypeOK'
  BY <1>5 DEF McpUnknown, McpGet
<1>6. ASSUME NEW r \in Retries, RetryStep(r) PROVE TypeOK'
  BY <1>6 DEF RetryStep, McpCheck, McpRun
<1>7. CASE Tick BY <1>7 DEF Tick
<1>8. CASE UNCHANGED vars BY <1>8 DEF vars
<1> HIDE DEF IInv, TypeOK
<1> QED BY <1>1, <1>2, <1>3, <1>4, <1>5, <1>6, <1>7, <1>8 DEF Next

\* The facts a goroutine carries, and the invariants they support, survive
\* every step.
LEMMA SafetyStep ==
  ASSUME IInv, [Next]_vars PROVE IInv'
<1>0. TypeOK' BY TypeStep
<1> USE <1>0, ItemsDisjoint, ActionAssumption, TimeAssumption
    DEF IInv, TypeOK, Items, None, Status, Decided, Decisions, StatusOf,
        DecisionFrom, WaitPC, DecidePC, RetryPC, waitVars, decideVars, retryVars,
        CarriedFacts, RunsOnlyApproved, ChannelAgrees,
        WaiterToldTruth, OneWinner, AcceptedStands, PendingHasWaiter,
        McpRunsApproved
<1>1. ASSUME NEW c \in Calls, CallStep(c) PROVE IInv'
  <2>1. CASE CreateApproval(c) BY <2>1 DEF CreateApproval, Register
  <2>2. CASE WaitCancelled(c) BY <2>2 DEF WaitCancelled
  <2>3. CASE WaitDecided(c) BY <2>3 DEF WaitDecided, Return
  <2>4. CASE WaitBlock(c) BY <2>4 DEF WaitBlock
  <2>5. CASE WaitReceive(c) BY <2>5 DEF WaitReceive, Return
  <2>6. CASE WaitTimer(c) BY <2>6 DEF WaitTimer
  <2>7. CASE ExpireLock(c) BY <2>7 DEF ExpireLock, Settle
  <2>8. CASE ExpireTooLate(c) BY <2>8 DEF ExpireTooLate, Return
  <2>9. CASE ExpireNotify(c) BY <2>9 DEF ExpireNotify, Send, Return
  <2>10. CASE RunTool(c) BY <2>10 DEF RunTool
  <2> QED BY <1>1, <2>1, <2>2, <2>3, <2>4, <2>5, <2>6, <2>7, <2>8, <2>9, <2>10
      DEF CallStep, WaitStep
<1>2. ASSUME NEW d \in Deciders, NEW i \in Items,
             \/ SubmitUnknown(d, i)
             \/ \E decision \in {"approve", "reject"} : Submit(d, i, decision)
      PROVE IInv'
  <2>1. CASE SubmitUnknown(d, i) BY <2>1 DEF SubmitUnknown
  <2>2. ASSUME NEW decision \in {"approve", "reject"}, Submit(d, i, decision)
        PROVE IInv'
    BY <2>2 DEF Submit
  <2> QED BY <1>2, <2>1, <2>2
<1>3. ASSUME NEW d \in Deciders, DecideStep(d) PROVE IInv'
  <2>1. CASE DecideLock(d) BY <2>1 DEF DecideLock, Settle
  <2>2. CASE DecideTooLate(d) BY <2>2 DEF DecideTooLate
  <2>3. CASE DecideSend(d) BY <2>3 DEF DecideSend, Send
  <2>4. CASE DecideReply(d) BY <2>4 DEF DecideReply
  <2> QED BY <1>3, <2>1, <2>2, <2>3, <2>4 DEF DecideStep
<1>4. ASSUME NEW i \in McpItems, McpCreate(i) PROVE IInv'
  BY <1>4 DEF McpCreate, Register
<1>5. ASSUME NEW r \in Retries, NEW i \in Items,
             McpUnknown(r, i) \/ \E action \in Actions : McpGet(r, i, action)
      PROVE IInv'
  BY <1>5 DEF McpUnknown, McpGet
<1>6. ASSUME NEW r \in Retries, RetryStep(r) PROVE IInv'
  BY <1>6 DEF RetryStep, McpCheck, McpRun, Valid
<1>7. CASE Tick BY <1>7 DEF Tick
<1>8. CASE UNCHANGED vars BY <1>8 DEF vars
<1> HIDE DEF IInv, TypeOK
<1> QED BY <1>1, <1>2, <1>3, <1>4, <1>5, <1>6, <1>7, <1>8 DEF Next

\* The inductive invariant holds of every behaviour.
THEOREM Invariance == Spec => []IInv
<1>1. Init => IInv BY InitIInv
<1>2. IInv /\ [Next]_vars => IInv' BY SafetyStep
<1> QED BY <1>1, <1>2, PTL DEF Spec

\* Whatever the interleaving of decisions, timers and retries: only approved
\* tools run, and what waiters and deciders are told is what the record says.
THEOREM GateSafety ==
  Spec => [](TypeOK /\ RunsOnlyApproved /\ ChannelAgrees /\ WaiterToldTruth /\ AcceptedStands)
  BY Invariance, PTL DEF IInv

\* Of the decisions submitted for one approval, however they race with each other
\* and with its timer, at most one is accepted.
THEOREM OneDecisionWins == Spec => []OneWinner
  BY Invariance, PTL DEF IInv

\* A chat approval stays pending only while its waiter is there, or because its
\* chat was cancelled: Wait leaves no other pending record behind.
THEOREM NoForgottenApproval == Spec => []PendingHasWaiter
  BY Invariance, PTL DEF IInv

\* An MCP call that is retried with an approval id runs only the action that was
\* approved under that id, whichever retries and decisions race.
THEOREM McpRetryRunsApproved == Spec => []McpRunsApproved
  BY Invariance, PTL DEF IInv

\* A step changes the status of an approval only when it registers it or
\* decides it while it is pending.
LEMMA StatusStep ==
  ASSUME IInv, [Next]_vars, NEW i \in Items, status'[i] # status[i]
  PROVE  \/ status[i] = None /\ status' = [status EXCEPT ![i] = "pending"]
         \/ \E v \in Decided :
               status[i] = "pending" /\ status' = [status EXCEPT ![i] = v]
<1> USE ItemsDisjoint DEF IInv, TypeOK
<1>1. ASSUME NEW j \in Items, Register(j) PROVE j = i /\ status[i] = None
  BY <1>1 DEF Register
<1>2. ASSUME NEW j \in Items, NEW v \in {"approve", "reject", "expire"}, Settle(j, v)
      PROVE j = i /\ status[i] = "pending" /\ StatusOf[v] \in Decided
  BY <1>2 DEF Settle, StatusOf, Decided
<1>3. CASE \E j \in Items : Register(j)
  BY <1>1, <1>3 DEF Register
<1>4. CASE \E j \in Items, v \in {"approve", "reject", "expire"} : Settle(j, v)
  BY <1>2, <1>4 DEF Settle
<1>5. \/ \E j \in Items : Register(j)
      \/ \E j \in Items, v \in {"approve", "reject", "expire"} : Settle(j, v)
  <2>1. CASE UNCHANGED vars BY <2>1 DEF vars
  <2>2. ASSUME NEW c \in Calls, CallStep(c)
        PROVE  c \in Items /\ (Register(c) \/ Settle(c, "expire"))
    BY <2>2 DEF CallStep, CreateApproval, WaitCancelled, WaitStep, WaitDecided,
       WaitBlock, WaitReceive, WaitTimer, ExpireLock, ExpireTooLate,
       ExpireNotify, RunTool, Items
  <2>3. ASSUME NEW d \in Deciders, DecideStep(d)
        PROVE  \E j \in Items, v \in {"approve", "reject"} : Settle(j, v)
    BY <2>3 DEF DecideStep, DecideLock, DecideTooLate, DecideSend, DecideReply,
       CarriedFacts
  <2>4. ASSUME NEW d \in Deciders, NEW j \in Items,
               \/ SubmitUnknown(d, j)
               \/ \E decision \in {"approve", "reject"} : Submit(d, j, decision)
        PROVE  FALSE
    BY <2>4 DEF SubmitUnknown, Submit
  <2>5. ASSUME NEW j \in McpItems, McpCreate(j) PROVE j \in Items /\ Register(j)
    BY <2>5 DEF McpCreate, Items
  <2>6. ASSUME NEW r \in Retries,
               \/ \E j \in Items : McpUnknown(r, j)
               \/ \E j \in Items, action \in Actions : McpGet(r, j, action)
               \/ RetryStep(r)
        PROVE  FALSE
    BY <2>6 DEF McpUnknown, McpGet, RetryStep, McpCheck, McpRun
  <2>7. CASE Tick BY <2>7 DEF Tick
  <2> QED BY <2>1, <2>2, <2>3, <2>4, <2>5, <2>6, <2>7 DEF Next
<1> QED BY <1>3, <1>4, <1>5

\* A decided approval is never decided again.
THEOREM DecisionsAreFinal == Spec => DecidedOnce
<1>1. ASSUME IInv, [Next]_vars
      PROVE  [\A i \in Items : status[i] \in Decided => status'[i] = status[i]]_vars
  BY <1>1, StatusStep DEF Decided, None
<1> QED BY <1>1, Invariance, PTL DEF Spec, DecidedOnce

\* A step of the manager makes the tool of an approval run only if the approval
\* is recorded as approved, and changes no other approval's account; it never
\* does so together with a change of status.
LEMMA ActStep ==
  ASSUME IInv, [Next]_vars, acted' # acted
  PROVE  \E i \in Items : /\ status[i] = "approved"
                          /\ acted' = [acted EXCEPT ![i] = TRUE]
                          /\ status' = status
<1> USE DEF IInv, TypeOK
<1>1. ASSUME NEW c \in Calls, RunTool(c)
      PROVE  /\ c \in Items /\ status[c] = "approved"
             /\ acted' = [acted EXCEPT ![c] = TRUE] /\ status' = status
  BY <1>1, ItemsDisjoint DEF RunTool, acted, RunsOnlyApproved, Items, retryVars
<1>2. ASSUME NEW r \in Retries, McpRun(r)
      PROVE  /\ ritem[r] \in Items /\ status[ritem[r]] = "approved"
             /\ acted' = [acted EXCEPT ![ritem[r]] = TRUE] /\ status' = status
  <2>1. /\ ritem[r] \in Items /\ status[ritem[r]] = "approved"
        /\ status' = status /\ ritem' = ritem /\ wpc' = wpc
    BY <1>2 DEF McpRun, McpRunsApproved, CarriedFacts, waitVars
  <2>2. \A q \in Retries : rpc'[q] = "ran" <=> rpc[q] = "ran" \/ q = r
    BY <1>2 DEF McpRun
  <2>3. \A i \in Items : acted'[i] <=> acted[i] \/ i = ritem[r]
    BY <2>1, <2>2, Zenon DEF acted
  <2>4. \A i \in Items : acted[i] \in BOOLEAN /\ acted'[i] \in BOOLEAN
    BY DEF acted
  <2>5. acted' = [i \in Items |-> acted'[i]] /\ acted = [i \in Items |-> acted[i]]
    BY DEF acted
  <2> HIDE DEF acted
  <2> QED BY <2>1, <2>3, <2>4, <2>5
<1>3. (\E c \in Calls : RunTool(c)) \/ (\E r \in Retries : McpRun(r))
  <2>1. CASE UNCHANGED vars BY <2>1 DEF vars, acted, waitVars, retryVars
  <2>2. ASSUME NEW c \in Calls, CallStep(c), ~RunTool(c) PROVE FALSE
    BY <2>2 DEF CallStep, CreateApproval, WaitCancelled, WaitStep, WaitDecided,
       WaitBlock, WaitReceive, WaitTimer, ExpireLock, ExpireTooLate,
       ExpireNotify, Return, acted, retryVars
  <2>3. ASSUME NEW d \in Deciders,
               \/ \E i \in Items : SubmitUnknown(d, i)
               \/ \E i \in Items, decision \in {"approve", "reject"} :
                     Submit(d, i, decision)
               \/ DecideStep(d)
        PROVE  FALSE
    BY <2>3 DEF SubmitUnknown, Submit, DecideStep, DecideLock, DecideTooLate,
       DecideSend, DecideReply, acted, waitVars, retryVars
  <2>4. ASSUME NEW i \in McpItems, McpCreate(i) PROVE FALSE
    BY <2>4 DEF McpCreate, acted, waitVars, retryVars
  <2>5. ASSUME NEW r \in Retries,
               \/ \E i \in Items : McpUnknown(r, i)
               \/ \E i \in Items, action \in Actions : McpGet(r, i, action)
               \/ McpCheck(r)
        PROVE  FALSE
    BY <2>5 DEF McpUnknown, McpGet, McpCheck, acted, waitVars
  <2>6. CASE Tick BY <2>6 DEF Tick, acted, waitVars, retryVars
  <2> QED BY <2>1, <2>2, <2>3, <2>4, <2>5, <2>6 DEF Next, RetryStep
<1> QED BY <1>1, <1>2, <1>3

\* The manager implements the gate: every step opens a request, settles a
\* pending one, acts on an approved one, or changes neither.
THEOREM ImplementsGate == Spec => GateSpec
<1>1. Init => Gate!Init
  BY DEF Init, Gate!Init, acted, None
<1>2. ASSUME IInv, [Next]_vars PROVE [Gate!Next]_Gate!gateVars
  <2>1. CASE acted' # acted
    <3>1. PICK i \in Items : /\ status[i] = "approved"
                             /\ acted' = [acted EXCEPT ![i] = TRUE]
                             /\ status' = status
      BY <1>2, <2>1, ActStep
    <3>2. Gate!Act(i) BY <3>1 DEF Gate!Act
    <3> QED BY <3>2 DEF Gate!Next
  <2>2. CASE acted' = acted /\ status' # status
    <3>1. PICK i \in Items : status'[i] # status[i]
      <4>1. TypeOK /\ TypeOK' BY <1>2, TypeStep DEF IInv
      <4> QED BY <2>2, <4>1 DEF TypeOK
    <3>2. Gate!Open(i) \/ \E v \in Decided : Gate!Settle(i, v)
      BY <1>2, <2>2, <3>1, StatusStep DEF Gate!Open, Gate!Settle, None
    <3> QED BY <3>2 DEF Gate!Next, Decided
  <2>3. CASE acted' = acted /\ status' = status
    BY <2>3 DEF Gate!gateVars
  <2> QED BY <2>1, <2>2, <2>3
<1> QED BY <1>1, <1>2, Invariance, PTL DEF Spec, Gate!Spec, GateSpec
=============================================================================
