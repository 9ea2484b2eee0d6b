------------------------------- MODULE MCChat -------------------------------
(****************************************************************************)
(* Small instances of the two parts of a chat: the turns of a session, and  *)
(* the approvals its tools wait for.  They share no state here; a behaviour *)
(* runs one of them and leaves the other in its initial state.              *)
(****************************************************************************)
EXTENDS MCApprovalManager, ChatTurns, TLC

VARIABLE part   \* what runs

CONSTANTS t1, t2, s1

asks(api, agent, s) == [api |-> api, agent |-> agent, session |-> s]

\* One turn answers a request, the other streams; the cache holds fewer messages than the two
\* write, and the channel is full after one event.
MCRequestsOf == t1 :> {asks("chat", FALSE, s1)}
             @@ t2 :> {asks("stream", FALSE, s1), asks("stream", TRUE, NoSession)}

---------------------------------------------------------------------------
chatVars == <<part, vars, turnVars>>

ChatInit == part \in {"approvals", "turns"} /\ Init /\ TurnsInit

\* Approvals may end anywhere: nobody has to decide, and the clock stops at its bound.
ChatNext ==
  /\ UNCHANGED part
  /\ \/ part = "approvals" /\ Next /\ UNCHANGED turnVars
     \/ part = "approvals" /\ UNCHANGED <<vars, turnVars>>
     \/ part = "turns" /\ TurnsNext /\ UNCHANGED vars

\* The fairness of both, of what runs.
ChatFairness ==
  /\ \A c \in Calls : WF_vars(part = "approvals" /\ WaitStep(c))
  /\ \A d \in Deciders : WF_vars(part = "approvals" /\ DecideStep(d))
  /\ WF_vars(part = "approvals" /\ Tick)
  /\ \A t \in Turns : /\ WF_turnVars(part = "turns" /\ Work(t))
                      /\ WF_turnVars(part = "turns" /\ Receive(t))

ChatSpec == ChatInit /\ [][ChatNext]_chatVars /\ ChatFairness
=============================================================================
