--------------------------- MODULE ApprovalManager ---------------------------
(****************************************************************************)
(* The human-in-the-loop gate of internal/approval/manager.go, with the     *)
(* three kinds of goroutine that meet in it:                                *)
(*   - a chat turn whose gated tool call creates an approval and blocks in  *)
(*     Manager.Wait (service/runtime_agent.go, waitForApproval);            *)
(*   - a decision request (POST /approvals/:id, or the MCP tool) that calls *)
(*     Manager.Decide;                                                      *)
(*   - an MCP admin call that creates an approval and is repeated later     *)
(*     with its approval_id (mcp/server.go, requireAdminApproval).          *)
(* A critical section of Manager.mu is one step; whatever happens between   *)
(* an unlock and the next lock, channel operation or clock read is another. *)
(* Nothing is persisted: a restart forgets every approval and every waiter  *)
(* at once, so a run of the model is the life of one server process.        *)
(****************************************************************************)
EXTENDS Naturals

CONSTANTS
    Calls,      \* gated tool calls of chat turns; each creates one approval
    McpItems,   \* approvals created by MCP admin calls
    Deciders,   \* decision requests
    Retries,    \* MCP admin calls that carry an approval_id
    Actions,    \* action hashes (tenant, user, source, action, tool, input)
    ActionOf,   \* the action hash an approval is created with
    TTL,        \* Manager.ttl, in ticks
    MaxNow      \* bound on the clock: no approval is created so late that its
                \* deadline lies beyond it

Items == Calls \cup McpItems

ASSUME ItemsDisjoint == Calls \cap McpItems = {}
ASSUME ActionAssumption == ActionOf \in [Items -> Actions]
ASSUME TimeAssumption == TTL \in Nat \ {0} /\ MaxNow \in Nat

(*************************************************************************)
(* Types                                                                 *)
(*************************************************************************)
None      == "none"
Decided   == {"approved", "rejected", "expired"}
Status    == {None, "pending"} \cup Decided
Decisions == {"approve", "reject", "expire"}

StatusOf == [approve |-> "approved", reject |-> "rejected", expire |-> "expired"]

\* decisionFromApproval, for an approval that is no longer pending
DecisionFrom == [approved |-> "approve", rejected |-> "reject", expired |-> "expire"]

VARIABLES
    now,        \* the clock
    status,     \* Approval.Status; "none" while the id is not in Manager.items
    expires,    \* Approval.ExpiresAt
    chan,       \* approvalState.decision, a channel of capacity 1
    wpc,        \* program counter of each chat tool call
    out,        \* the decision (or error) Wait returned to it
    dpc,        \* program counter of each decision request
    ditem,      \* the approval_id it was sent for
    dval,       \* the decision it carries
    told,       \* the status its response reports
    rpc,        \* program counter of each MCP retry
    ritem,      \* the approval_id it carries
    raction,    \* the hash of the request it makes now
    rsnap       \* the copy of the approval's status that Get returned to it

waitVars   == <<wpc, out>>
decideVars == <<dpc, ditem, dval, told>>
retryVars  == <<rpc, ritem, raction, rsnap>>
vars == <<now, status, expires, chan, waitVars, decideVars, retryVars>>

WaitPC   == {"idle", "created", "waiting", "expiring", "notify", "run",
             "ran", "blocked", "cancelled"}
DecidePC == {"idle", "submit", "send", "reply", "ok", "error"}
RetryPC  == {"idle", "checking", "validated", "ran", "refused"}

TypeOK ==
    /\ now \in Nat
    /\ status \in [Items -> Status]
    /\ expires \in [Items -> Nat]
    /\ chan \in [Items -> Decisions \cup {None}]
    /\ wpc \in [Calls -> WaitPC]
    /\ out \in [Calls -> Decisions \cup {None, "error"}]
    /\ dpc \in [Deciders -> DecidePC]
    /\ ditem \in [Deciders -> Items \cup {None}]
    /\ dval \in [Deciders -> {None, "approve", "reject"}]
    /\ told \in [Deciders -> Status]
    /\ rpc \in [Retries -> RetryPC]
    /\ ritem \in [Retries -> Items \cup {None}]
    /\ raction \in [Retries -> Actions \cup {None}]
    /\ rsnap \in [Retries -> Status]

Init ==
    /\ now = 0
    /\ status = [i \in Items |-> None]
    /\ expires = [i \in Items |-> 0]
    /\ chan = [i \in Items |-> None]
    /\ wpc = [c \in Calls |-> "idle"]
    /\ out = [c \in Calls |-> None]
    /\ dpc = [d \in Deciders |-> "idle"]
    /\ ditem = [d \in Deciders |-> None]
    /\ dval = [d \in Deciders |-> None]
    /\ told = [d \in Deciders |-> None]
    /\ rpc = [r \in Retries |-> "idle"]
    /\ ritem = [r \in Retries |-> None]
    /\ raction = [r \in Retries |-> None]
    /\ rsnap = [r \in Retries |-> None]

(*************************************************************************)
(* Manager operations                                                    *)
(*************************************************************************)

\* Manager.Create: a fresh pending item with an empty decision channel
Register(i) ==
    /\ status[i] = None
    /\ now + TTL <= MaxNow
    /\ status' = [status EXCEPT ![i] = "pending"]
    /\ expires' = [expires EXCEPT ![i] = now + TTL]

\* Mutant: setDecision without its pending check.
SettleUnchecked(i, decision) ==
    /\ status[i] # None
    /\ status' = [status EXCEPT ![i] = StatusOf[decision]]

\* The locked half of setDecision when it succeeds; the channel send follows
\* after the unlock.
Settle(i, decision) ==
    /\ status[i] = "pending"
    /\ status' = [status EXCEPT ![i] = StatusOf[decision]]

\* The other half: select { case state.decision <- decision: default: }
Send(i, decision) ==
    chan' = [chan EXCEPT ![i] = IF @ = None THEN decision ELSE @]

(*************************************************************************)
(* A gated chat tool call                                                *)
(*************************************************************************)

CreateApproval(c) ==
    /\ wpc[c] = "idle"
    /\ Register(c)
    /\ wpc' = [wpc EXCEPT ![c] = "created"]
    /\ UNCHANGED <<now, chan, out, decideVars, retryVars>>

\* Mutant: the tool proceeds unless it was rejected.
ReturnUnlessRejected(c, decision) ==
    /\ out' = [out EXCEPT ![c] = decision]
    /\ wpc' = [wpc EXCEPT ![c] = IF decision = "reject" THEN "blocked" ELSE "run"]

\* Wait returns decision: only an approval lets the tool run
Return(c, decision) ==
    /\ out' = [out EXCEPT ![c] = decision]
    /\ wpc' = [wpc EXCEPT ![c] = IF decision = "approve" THEN "run" ELSE "blocked"]

\* Wait reads the status once; an approval decided by then is returned at once
WaitDecided(c) ==
    /\ wpc[c] = "created"
    /\ status[c] # "pending"
    /\ Return(c, DecisionFrom[status[c]])
    /\ UNCHANGED <<now, status, expires, chan, decideVars, retryVars>>

WaitBlock(c) ==
    /\ wpc[c] = "created"
    /\ status[c] = "pending"
    /\ wpc' = [wpc EXCEPT ![c] = "waiting"]
    /\ UNCHANGED <<now, status, expires, chan, out, decideVars, retryVars>>

\* The three cases of Wait's select.  When several are ready Go picks any.
WaitCancelled(c) ==
    /\ wpc[c] = "waiting"
    /\ wpc' = [wpc EXCEPT ![c] = "cancelled"]
    /\ out' = [out EXCEPT ![c] = "error"]
    /\ UNCHANGED <<now, status, expires, chan, decideVars, retryVars>>

WaitReceive(c) ==
    /\ wpc[c] = "waiting"
    /\ chan[c] # None
    /\ Return(c, chan[c])
    /\ chan' = [chan EXCEPT ![c] = None]
    /\ UNCHANGED <<now, status, expires, decideVars, retryVars>>

WaitTimer(c) ==
    /\ wpc[c] = "waiting"
    /\ now >= expires[c]
    /\ wpc' = [wpc EXCEPT ![c] = "expiring"]
    /\ UNCHANGED <<now, status, expires, chan, out, decideVars, retryVars>>

\* Mutant: the timer's case tells the waiter and forgets the record.
ExpireUnrecorded(c) ==
    /\ wpc[c] = "expiring"
    /\ status[c] = "pending"
    /\ wpc' = [wpc EXCEPT ![c] = "notify"]
    /\ UNCHANGED <<now, status, expires, chan, out, decideVars, retryVars>>

\* The timer's case records the expiry and ignores setDecision's error: a
\* decision that got there first stays recorded, and Wait returns expire.
ExpireLock(c) ==
    /\ wpc[c] = "expiring"
    /\ Settle(c, "expire")
    /\ wpc' = [wpc EXCEPT ![c] = "notify"]
    /\ UNCHANGED <<now, expires, chan, out, decideVars, retryVars>>

\* Mutant: a timer that loses the race goes back to the select.
ExpireRetry(c) ==
    /\ wpc[c] = "expiring"
    /\ status[c] # "pending"
    /\ wpc' = [wpc EXCEPT ![c] = "waiting"]
    /\ UNCHANGED <<now, status, expires, chan, out, decideVars, retryVars>>

ExpireTooLate(c) ==
    /\ wpc[c] = "expiring"
    /\ status[c] # "pending"
    /\ Return(c, "expire")
    /\ UNCHANGED <<now, status, expires, chan, decideVars, retryVars>>

ExpireNotify(c) ==
    /\ wpc[c] = "notify"
    /\ Send(c, "expire")
    /\ Return(c, "expire")
    /\ UNCHANGED <<now, status, expires, decideVars, retryVars>>

RunTool(c) ==
    /\ wpc[c] = "run"
    /\ wpc' = [wpc EXCEPT ![c] = "ran"]
    /\ UNCHANGED <<now, status, expires, chan, out, decideVars, retryVars>>

(*************************************************************************)
(* A decision request                                                    *)
(*************************************************************************)

\* SubmitApprovalDecision looks the approval up before it decides
SubmitUnknown(d, i) ==
    /\ dpc[d] = "idle"
    /\ status[i] = None
    /\ dpc' = [dpc EXCEPT ![d] = "error"]
    /\ UNCHANGED <<now, status, expires, chan, waitVars, ditem, dval, told, retryVars>>

Submit(d, i, decision) ==
    /\ dpc[d] = "idle"
    /\ status[i] # None
    /\ dpc' = [dpc EXCEPT ![d] = "submit"]
    /\ ditem' = [ditem EXCEPT ![d] = i]
    /\ dval' = [dval EXCEPT ![d] = decision]
    /\ UNCHANGED <<now, status, expires, chan, waitVars, told, retryVars>>

DecideLock(d) ==
    /\ dpc[d] = "submit"
    /\ Settle(ditem[d], dval[d])
    /\ dpc' = [dpc EXCEPT ![d] = "send"]
    /\ UNCHANGED <<now, expires, chan, waitVars, ditem, dval, told, retryVars>>

DecideTooLate(d) ==
    /\ dpc[d] = "submit"
    /\ status[ditem[d]] # "pending"
    /\ dpc' = [dpc EXCEPT ![d] = "error"]
    /\ UNCHANGED <<now, status, expires, chan, waitVars, ditem, dval, told, retryVars>>

DecideSend(d) ==
    /\ dpc[d] = "send"
    /\ Send(ditem[d], dval[d])
    /\ dpc' = [dpc EXCEPT ![d] = "reply"]
    /\ UNCHANGED <<now, status, expires, waitVars, ditem, dval, told, retryVars>>

\* The response reports the status a second Get reads
DecideReply(d) ==
    /\ dpc[d] = "reply"
    /\ told' = [told EXCEPT ![d] = status[ditem[d]]]
    /\ dpc' = [dpc EXCEPT ![d] = "ok"]
    /\ UNCHANGED <<now, status, expires, chan, waitVars, ditem, dval, retryVars>>

(*************************************************************************)
(* MCP admin calls                                                       *)
(*************************************************************************)

\* requireAdminApproval without an approval_id: nobody waits for the item
McpCreate(i) ==
    /\ i \in McpItems
    /\ Register(i)
    /\ UNCHANGED <<now, chan, waitVars, decideVars, retryVars>>

\* ValidateApproved: a copy from Get, then the checks on the copy
McpUnknown(r, i) ==
    /\ rpc[r] = "idle"
    /\ status[i] = None
    /\ rpc' = [rpc EXCEPT ![r] = "refused"]
    /\ UNCHANGED <<now, status, expires, chan, waitVars, decideVars, ritem, raction, rsnap>>

McpGet(r, i, action) ==
    /\ rpc[r] = "idle"
    /\ status[i] # None
    /\ rpc' = [rpc EXCEPT ![r] = "checking"]
    /\ ritem' = [ritem EXCEPT ![r] = i]
    /\ raction' = [raction EXCEPT ![r] = action]
    /\ rsnap' = [rsnap EXCEPT ![r] = status[i]]
    /\ UNCHANGED <<now, status, expires, chan, waitVars, decideVars>>

\* Mutant: ValidateApproved without the action hash.
ValidAnyAction(r) ==
    /\ rsnap[r] = "approved"
    /\ now <= expires[ritem[r]]

Valid(r) ==
    /\ rsnap[r] = "approved"
    /\ now <= expires[ritem[r]]
    /\ ActionOf[ritem[r]] = raction[r]

McpCheck(r) ==
    /\ rpc[r] = "checking"
    /\ rpc' = [rpc EXCEPT ![r] = IF Valid(r) THEN "validated" ELSE "refused"]
    /\ UNCHANGED <<now, status, expires, chan, waitVars, decideVars, ritem, raction, rsnap>>

McpRun(r) ==
    /\ rpc[r] = "validated"
    /\ rpc' = [rpc EXCEPT ![r] = "ran"]
    /\ UNCHANGED <<now, status, expires, chan, waitVars, decideVars, ritem, raction, rsnap>>

Tick ==
    /\ now < MaxNow
    /\ now' = now + 1
    /\ UNCHANGED <<status, expires, chan, waitVars, decideVars, retryVars>>

(*************************************************************************)
(* Specification                                                         *)
(*************************************************************************)

WaitStep(c) ==
    \/ WaitDecided(c) \/ WaitBlock(c) \/ WaitReceive(c) \/ WaitTimer(c)
    \/ ExpireLock(c) \/ ExpireTooLate(c) \/ ExpireNotify(c) \/ RunTool(c)

CallStep(c) == CreateApproval(c) \/ WaitCancelled(c) \/ WaitStep(c)

DecideStep(d) ==
    DecideLock(d) \/ DecideTooLate(d) \/ DecideSend(d) \/ DecideReply(d)

RetryStep(r) == McpCheck(r) \/ McpRun(r)

Next ==
    \/ \E c \in Calls : CallStep(c)
    \/ \E d \in Deciders :
        \/ \E i \in Items : SubmitUnknown(d, i)
        \/ \E i \in Items, decision \in {"approve", "reject"} : Submit(d, i, decision)
        \/ DecideStep(d)
    \/ \E i \in McpItems : McpCreate(i)
    \/ \E r \in Retries :
        \/ \E i \in Items : McpUnknown(r, i)
        \/ \E i \in Items, action \in Actions : McpGet(r, i, action)
        \/ RetryStep(r)
    \/ Tick

Spec == Init /\ [][Next]_vars

\* A goroutine that can take its next step is scheduled, and time passes.
\* Nothing obliges anyone to decide, to retry or to hang up.
FairSpec ==
    /\ Spec
    /\ \A c \in Calls : WF_vars(WaitStep(c))
    /\ \A d \in Deciders : WF_vars(DecideStep(d))
    /\ WF_vars(Tick)

(*************************************************************************)
(* Properties                                                            *)
(*************************************************************************)

\* A chat tool runs only if the approval it waited for is recorded as
\* approved: through the status read at entry or through the channel, no
\* interleaving of Decide, the timer and a second Decide lets another
\* outcome through (waitForApproval returns proceed only for approve).
RunsOnlyApproved ==
    \A c \in Calls : wpc[c] \in {"run", "ran"} => status[c] = "approved"

\* What waits in an approval's channel is the decision its record holds: the
\* status is written under the lock and the channel after it, by goroutines
\* that may overlap.
ChannelAgrees ==
    \A i \in Items : chan[i] # None => status[i] = StatusOf[chan[i]]

\* A waiter that is told approve or reject is told what the record says.
WaiterToldTruth ==
    \A c \in Calls : out[c] \in {"approve", "reject"} => status[c] = StatusOf[out[c]]

\* Of all the decision requests for one approval at most one is accepted
\* ("approval already decided" for the rest), however they interleave.
OneWinner ==
    \A d, e \in Deciders :
        /\ dpc[d] \in {"send", "reply", "ok"}
        /\ dpc[e] \in {"send", "reply", "ok"}
        /\ ditem[d] = ditem[e]
        => d = e

\* A decision request that was answered with success reported its own
\* decision, and that decision stays on record: no expiry and no later
\* request undoes it.
AcceptedStands ==
    \A d \in Deciders : dpc[d] = "ok" =>
        /\ told[d] = StatusOf[dval[d]]
        /\ status[ditem[d]] = told[d]

\* A chat approval is still pending only while a waiter is there to expire it,
\* or if its chat was cancelled: Wait leaves no other pending record behind.
PendingHasWaiter ==
    \A c \in Calls : status[c] = "pending" =>
        wpc[c] \in {"created", "waiting", "expiring", "cancelled"}

\* An MCP admin tool runs only for an approval that is recorded as approved
\* and was created for this very action, although the record is checked on a
\* copy taken before the clock is read and the tool is run.
McpRunsApproved ==
    \A r \in Retries : rpc[r] \in {"validated", "ran"} =>
        /\ status[ritem[r]] = "approved"
        /\ ActionOf[ritem[r]] = raction[r]

\* What a goroutine carries from one critical section to its next step still
\* holds of the record when it takes that step: the item it works on exists,
\* a decision on its way to the channel is the one recorded, a timer on its
\* way to the channel recorded the expiry, and a copy that says approved is
\* not out of date.  With TypeOK and the invariants above it is inductive.
CarriedFacts ==
    /\ \A c \in Calls :
        /\ wpc[c] # "idle" => status[c] # None
        /\ wpc[c] = "notify" => status[c] = "expired"
    /\ \A d \in Deciders :
        /\ dpc[d] \notin {"idle", "error"} =>
               ditem[d] \in Items /\ dval[d] \in {"approve", "reject"}
        /\ dpc[d] = "submit" => status[ditem[d]] # None
        /\ dpc[d] \in {"send", "reply", "ok"} => status[ditem[d]] = StatusOf[dval[d]]
    /\ \A r \in Retries :
        /\ rpc[r] \in {"checking", "validated", "ran"} =>
               ritem[r] \in Items /\ raction[r] \in Actions
        /\ rpc[r] = "checking" /\ rsnap[r] = "approved" => status[ritem[r]] = "approved"

IInv ==
    /\ TypeOK
    /\ CarriedFacts
    /\ RunsOnlyApproved
    /\ ChannelAgrees
    /\ WaiterToldTruth
    /\ OneWinner
    /\ AcceptedStands
    /\ PendingHasWaiter
    /\ McpRunsApproved

\* An approval that is decided is never decided again.
DecidedOnce ==
    [][\A i \in Items : status[i] \in Decided => status'[i] = status[i]]_vars

\* Every blocked tool call comes back: with a decision, an expiry or the
\* cancellation of its chat.
WaiterReturns ==
    \A c \in Calls : wpc[c] = "created" ~> wpc[c] \in {"ran", "blocked", "cancelled"}

\* manager_test.go, TestManagerExpiresPendingApproval: when Wait returns
\* expire the stored status is expired.
ExpiryIsRecorded ==
    \A c \in Calls : out[c] = "expire" => status[c] = "expired"

(*************************************************************************)
(* What the gate promises, free of channels, timers and requests         *)
(*************************************************************************)
acted == [i \in Items |->
    \/ i \in Calls /\ wpc[i] = "ran"
    \/ \E r \in Retries : rpc[r] = "ran" /\ ritem[r] = i]

Gate == INSTANCE HumanGate WITH Requests <- Items, verdict <- status, acted <- acted

GateSpec == Gate!Spec
=============================================================================
