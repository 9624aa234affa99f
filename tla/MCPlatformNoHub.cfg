CONSTANTS
    MaxAttempts = 6
    MaxFaults = 3
SPECIFICATION PlatformSpec
INVARIANT UpOrRetry
CHECK_DEADLOCK FALSE
