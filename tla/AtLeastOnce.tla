----------------------------- MODULE AtLeastOnce -----------------------------
(**************************************************************************)
(* What a work queue with manual acknowledgement promises: a job it holds *)
(* may be performed any number of times, is done only after it has been   *)
(* performed at least once, and never comes back after it was settled.    *)
(**************************************************************************)
CONSTANT Jobs

VARIABLES phase, performed

workVars == <<phase, performed>>

Init ==
    /\ phase = [t \in Jobs |-> "none"]
    /\ performed = {}

\* One disconnection may bring several jobs to the queue at once.
Accept(js) ==
    /\ \A t \in js : phase[t] = "none"
    /\ phase' = [t \in Jobs |-> IF t \in js THEN "pending" ELSE phase[t]]
    /\ UNCHANGED performed

Perform(t) ==
    /\ phase[t] = "pending"
    /\ performed' = performed \cup {t}
    /\ UNCHANGED phase

Finish(t) ==
    /\ phase[t] = "pending"
    /\ t \in performed
    /\ phase' = [phase EXCEPT ![t] = "done"]
    /\ UNCHANGED performed

Reject(t) ==
    /\ phase[t] = "pending"
    /\ phase' = [phase EXCEPT ![t] = "rejected"]
    /\ UNCHANGED performed

Next ==
    \/ \E js \in SUBSET Jobs : Accept(js)
    \/ \E t \in Jobs : Perform(t) \/ Finish(t) \/ Reject(t)

Spec == Init /\ [][Next]_workVars
=============================================================================
