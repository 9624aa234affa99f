CONSTANTS
    MaxAttempts = 6
    MaxFaults = 3
SPECIFICATION PlatformSpec
INVARIANT CloudLeftAlone
CHECK_DEADLOCK FALSE
