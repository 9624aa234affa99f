CONSTANTS
    Targets <- TwoTargets
    SelfDevice = "hub"
    Dids = {"d1"}
    Threshold = 2
    TTL = 1
    MaxUps = 3
    MaxLoads = 2
    MaxFails = 1
SPECIFICATION Spec
INVARIANT SessionUpRearms
CHECK_DEADLOCK FALSE
