------------------------------ MODULE HumanGate ------------------------------
(**************************************************************************)
(* What human approval promises whoever relies on it: a request is opened *)
(* once, settled at most once and for good, and what it guards happens    *)
(* only after it was approved.  ApprovalManager implements it.            *)
(**************************************************************************)
CONSTANT Requests

VARIABLES verdict, acted

gateVars == <<verdict, acted>>

Init ==
    /\ verdict = [i \in Requests |-> "none"]
    /\ acted = [i \in Requests |-> FALSE]

Open(i) ==
    /\ verdict[i] = "none"
    /\ verdict' = [verdict EXCEPT ![i] = "pending"]
    /\ UNCHANGED acted

Settle(i, v) ==
    /\ verdict[i] = "pending"
    /\ verdict' = [verdict EXCEPT ![i] = v]
    /\ UNCHANGED acted

\* Not once only: a tool may be retried under the id that was approved.
Act(i) ==
    /\ verdict[i] = "approved"
    /\ acted' = [acted EXCEPT ![i] = TRUE]
    /\ UNCHANGED verdict

Next == \E i \in Requests :
    \/ Open(i)
    \/ \E v \in {"approved", "rejected", "expired"} : Settle(i, v)
    \/ Act(i)

Spec == Init /\ [][Next]_gateVars
=============================================================================
