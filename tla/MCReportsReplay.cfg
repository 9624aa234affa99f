CONSTANTS
    Dids = {"plug"}
    Configured = {"plug"}
    Momentary = {}
    BufferMaxlen = 2
    BufferMaxDids = 1
    MaxValue = 5
    MaxCalls = 3
SPECIFICATION Spec
INVARIANT ReplaysAreShown
CHECK_DEADLOCK FALSE
