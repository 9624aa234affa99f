CONSTANTS
    Endpoints = {e1, e2}
    MinDelay = 2
    MaxDelay = 9
    MaxFaults = 3
    MaxUps = 2
    Commands = {"move", "preset", "recall"}
    Presets = {"preset", "recall"}
    MaxSessions = 7
    MaxFails = 2
    Cancellable = TRUE
    Unloads = TRUE
    Players = {p1, p2}
    MaxFailures = 1
    MaxCut = 2
    Cameras = {c1, c2}
    Hubs = {c2}
    p1 = p1
    p2 = p2
    c1 = c1
    c2 = c2
    Activated = {"d1"}
    Grace = 1
    Cooldown = 6
    Chunk = 2
    Discovery = 1
    PokeTime = 1
    Settle = 1
    Backoffs <- FourBackoffs
    MaxRounds = 6
    SweepPeriod = 12
    MaxLoops = 2
    MaxReloads = 1
SPECIFICATION PartSpec
INVARIANTS StopIsFinal OpenIsOwned NotClosedInUse OneSessionOpen ServiceWhileLoaded LoopsExact
PROPERTIES ImplementsLink StopReturnsEventually ComesBackOrHangs CommandsReturn DeadSessionEnds AbsentIsPoked
CHECK_DEADLOCK FALSE
