\* One chat call and one MCP approval, two decision requests that may fall on
\* the same approval, one retry, and a deadline that can pass while each of
\* them is half done; two turns of one session.
SPECIFICATION ChatSpec
CONSTANTS
    chatAction = chatAction
    mcpAction = mcpAction
    Calls = {c1}
    McpItems = {m1}
    Deciders = {d1, d2}
    Retries = {r1}
    Actions = {chatAction, mcpAction}
    ActionOf <- MCActionOf
    TTL = 1
    MaxNow = 2
    t1 = t1
    t2 = t2
    s1 = s1
    Turns = {t1, t2}
    Sessions = {s1}
    RequestsOf <- MCRequestsOf
    Miss = Miss
    Limit = 3
    MaxChunks = 2
    Capacity = 1
    MaxTurnFaults = 1
    NoSession = NoSession
INVARIANTS
    RunsOnlyApproved
    OneWinner
    PendingHasWaiter
    McpRunsApproved
    DoneMeansKept
    CacheIsRecent
PROPERTIES
    WaiterReturns
    GateSpec
    StreamCloses
