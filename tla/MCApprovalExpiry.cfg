\* One chat call whose deadline passes while a decision is being made.
SPECIFICATION Spec
CONSTANTS
    chatAction = chatAction
    mcpAction = mcpAction
    Calls = {c1}
    McpItems = {}
    Deciders = {d1}
    Retries = {}
    Actions = {chatAction}
    ActionOf <- MCActionOf
    TTL = 1
    MaxNow = 2
INVARIANTS
    ExpiryIsRecorded
CHECK_DEADLOCK FALSE
